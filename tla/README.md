# Formal models of tmg

`tmg` is a Lua runtime with templating built in: a C program (`src/main.c`,
`src/str.c`, `src/argparse.c`) around a vendored LuaJIT, and a few Lua modules
(`src/lib/nob.lua`, `src/lib/latex.lua`, `src/lib/raylib.lua`). This directory
holds TLA+ models of its parts, configurations that check them with TLC on small
instances, and proofs that TLAPS checks for all instances.

Lines are those of the sources as they are in `src/`.

## The system

| Component | State | Operations | Interacts with |
|---|---|---|---|
| growable strings (`str.c`) | data, len, cap | init, push, push_chr, pop_chr, clear, deinit | every buffer of `main.c` |
| template scanner (`main.c` 190-284) | position, `match_buf`, `buffer`, `builder`, mode, pending escape, line map | one pass over the characters of a template | strings, flush; its result is loaded by LuaJIT |
| flush (`main.c` 144-186) | level of the long bracket | choose the level, write `tmg.print([=[...]=])` | LuaJIT's lexer reads what it writes |
| line map and error messages (`main.c` 37-142) | template line per line of the chunk | note_newline, report_error_with_code | scanner; LuaJIT's messages |
| coroutine engine (`main.c` 291-376, 549-588) | a Lua thread and `final_output` per call | render, render_string, print, the resume loop | Lua code, which may render again or use coroutines; files |
| `L.print` (`latex.lua` 684-696) | none | prints through tmg.print or to stdout | engine |
| search path (`main.c` 379-521, 598-604) | registry list, package.path, package.cpath | setup_lib_path, find_lib | raylib glue reads `tmg.lib_path` |
| command line (`argparse.c`, `main.c` 606-672) | script, its arguments, exit status | parse_args, set_arg_table, main | everything |
| nob job manager (`nob.lua` 222-350) | queue, active, child processes | append, wait_all, run | the operating system |
| nob files (`nob.lua` 121-219, 352-371) | the file system | needs_rebuild, read_dir, get_c_dependencies | compilers |
| LaTeX generator (`latex.lua` 1-682) | node trees | render, escape, write | engine, through L.print |
| LaTeX compilation (`latex.lua` 698-742) | a temporary log, the `.log` of TeX | compile | the shell |
| raylib glue (`raylib.lua`) | redirected io.open and ffi.load, package.path | require | search path, a submodule |

What is hard here. The scanner moves every character through up to three
buffers, in an order that depends on escapes and on partial delimiters. The text
of a template is quoted for a second parser that has rules of its own. Rendering
nests: a template may render others between two of its prints, each on its own
coroutine, while Lua code may switch coroutines too. The job manager runs
processes that end in any order, and may be called again after an error; what it
leaves on disk, half written or made by a process nobody waits for, is what the
next run of the build looks at. Rendered LaTeX is glued together from pieces whose
separators depend on their neighbours. Several results of library calls are not
looked at.

What makes each part correct:

* strings: no store outside the allocation, whatever the sequence of operations;
* flush: nothing in the text closes the literal, and Lua reads back the text;
* scanner: each character of the template is in the chunk at most once, in order,
  in the mode its delimiters and escapes ask for; the line map is exact;
* engine: a call delivers what its own template printed, all of it; a failed one
  leaves no trace; true means written;
* job manager: at most `max_jobs` processes, every command taken in order, none
  forgotten; a call returns, and a failure raises;
* search path: entries keep their order and precede the defaults;
* command line: options stop at the script, `arg[n]` is the n-th argument;
* builds: a target that is out of date is made again, and a run without an error
  leaves nothing to do;
* LaTeX generator: TeX reads in the text what the tree stands for; items and
  paragraphs stand apart; an error leaves the file as it was;
* LaTeX compilation: what is reported is about a document that was written.

## Modules

| Module | Models | Proofs |
|---|---|---|
| `Str` | `str.c` as `tmg_expand` uses it | `StrProofs` |
| `LongBracket` | `flush_text_buffer` and LuaJIT's lexer of long strings | `LongBracketProofs` |
| `Scan` | the loop of `tmg_expand` and the line map | `ScanProofs` |
| `Printing` | abstract: what rendering promises | |
| `Render` | the coroutine engine, tmg.print, L.print, the output file | `RenderProofs` |
| `NobProcs` | the job manager of nob | `NobProofs` |
| `NobBuild` | build scripts around `NobProcs`: needs_rebuild, get_c_dependencies, rm, a file system with a clock | `NobProofs` |
| `Latex` | the rendering of `latex.lua`: from a tree of nodes to a text | `LatexProofs` |
| `LatexFiles` | the files of a document: L.write, L.compile, the engine and its `.log` | `LatexProofs` |
| `LatexDoc` | scripts around `Latex` and `LatexFiles`: the constructors, L.render | `LatexProofs` |
| `LibPath` | setup_lib_path, tmg.find_lib, scripts that edit tmg.lib_path | |
| `Main` | a run of the program around LibPath: parse_args, set_arg_table, main | `MainProofs` |

Each `...MC` module extends one of these with the values of its constants.
`ListTheorems` has the lemmas that several proofs rest on.

**Str.** What the bytes are does not matter; `top` is the highest index the last
operation stored to and `block` the size of the allocation. `IntMax` is the
INT_MAX of the build, so that the conversion of `in_size * 2` to int wraps
(`ToInt`); a negative size makes malloc return NULL (`Alloc`). The growth tests
are those of `str_push_chr` and `str_push`. Multiplications of `cap`, a size_t,
are not wrapped: lengths of 2^63 are out of any run's reach. `malloc` of a size
that is not negative is taken to succeed.

**LongBracket.** One action per step of the two nested loops: `Advance`,
`StartCount`, `CountEqual`, `EndCount`, `Emit`. `Closer`, `StopsAt` and
`LuaString` say what LuaJIT's lexer makes of the result (`lj_lex.c`,
`lex_skipeq`, `lex_longstring`, `lex_newline`).

**Scan.** The buffers hold positions of the template, so that a character's
origin is never lost; what the program adds (the newline that replaces a
delimiter, the opening and closing of a print) are atoms of their own. One action
per branch of the loop. `lm`, `gen_line` and `cur_line` are the variables of the
code; every branch that appends a newline notes it, or does not, as in the code.
A call expands one template with one delimiter, `inp` and `sep`; properties that
hold only for a delimiter of one character have `PlainDelimiter` as a premise, or, for
longer ones, `NoEscapes`: no backslash in the template.
`SplitAtRuns` is for delimiters that repeat a character, such as the `@@` that
`README.md` 140 recommends: a run of that character is cut into delimiters from its
beginning on, and what is left of it is text or code like any other.

**Render.** `stack` holds the threads that wait for each other: the script,
templates, coroutines of the user. A frame has the values it has yielded and not
been relieved of (`vals`) and `final_output` (`text`); `said` and `lost` record
what its code printed, and are read by properties and bounds only. The resume loop
is `Collect`; `TmgPrint`, `PrintNonString` and `YieldSeveral` are the ways to
yield to it, `PrintInCoroutine` yields past it. `CallFails`, `CreateFails`,
`TemplateError`, `ReturnString` and `WriteOutput` are the ways a call ends. What
Lua code does next is arbitrary: also printing nothing, failing, catching the
failure, or rendering the file that is being rendered. Whether a template loads is
a choice here, and what it contains is the subject of `Scan` and `LongBracket`.

**NobProcs.** A command stands for one append or one run. `child` and `status`
are the operating system's, everything else the script's. `StartNext`,
`ForkFails`, `WaitOldest`, `AllDone` and `Reap` are the steps of `wait_all` and
`wait_proc`, and `Spin` is a round of its outer loop that finds no slot and nothing to
wait for, which happens with `max_jobs = 0` and goes on forever; `End` is a process ending, at any time and in any order, with a wait
status that `ExitCode` decodes as the code does. `Run` is `Cmd:run`. The script
may catch what is raised and go on. POSIX only. `waitpid` succeeds; standard
output is not modelled.

**NobBuild.** Extends `NobProcs`; a command is named by its target. `step` says
what the build script is doing: `TestObject` is needs_rebuild for one object, with
the list that get_c_dependencies gives for it, and the append that follows. The list
is empty if an input is missing or the scan fails with all of them there, and has the
source alone if popen does (`Dependencies`);
`Build`, `InCall` and `TestProgram` are wait_all and Cmd:run. `mtime` and `text`
are the file system: a text is an edition of a source, or what the inputs of a
target held when its compiler read them, so that it shows what a target was
made from. A process reads its inputs when it starts (`ReadInputs`) and writes when
it ends (`Outcome`): wholly, not at all, or half. An error ends the script and
leaves its processes running (`orphans`), which write whenever they like during
later runs. `Edit`, `Delete` and `Tick` are the user and the clock, which need not
move between two events. `fooled` and `trouble` are no state of the program: the
first names the targets whose modification time says too much, the second what
has disturbed the present run.

**Latex.** A text is a sequence of tokens: what the script puts into a string, a
control sequence, a bracket, a line break, one step of indentation. `One` is
`render_one` with the table `R`, one operator for each kind of node; `Children`,
`Inline`, `Pad` and `Deeper` bear the names of the code. A tree is the sequence of
its nodes in the order in which a script builds them, so that children, which are
places in it, come before the node that holds them, and one node may be held
twice, as a Lua table may. `Rendering` is a function over these places, from the
leaves to the root: for each node, indent and depth, the pieces it consists of, a
text and whether it is a block. A plain table has the pieces of its children, as
`flatten` makes of it; `Glue` is the rest of `render_children`. `Renderable`
says when nothing is raised, by row_str for a row that is no list of cells too.
Options, names, widths and labels are one token, and so is what stands between two
cells.

**LatexDoc.** The script builds a tree with one constructor after another, each
around what the one before has returned, and `check_holes` and `table.maxn` decide
about children that are nil. A plain table with items in it, such as
`L.e.itemize{ L.item"a" }` passes to its environment, is a node of a kind of its own,
`items`, which may stand where items may. `Meaning` gives the events TeX should see for a tree,
without any text, from the leaves to the root as well; `Reads` those that TeX sees
in a text, token by token: verbatim, comments, the search for an optional argument, the end of a control word. Its
steps on the files are `WriteFile`, `Engine` and `Collect` of `LatexFiles`, with
`Renderable` and `TakenByTeX` for what that module leaves open.

**LatexFiles.** What a tree is, whether L.render finds a text for it (`Renders`)
and whether TeX takes that (`Accepted`) are constants. `WriteFile` is L.write,
which may also fail to open the file, or write a part of it and not notice. `Engine`
and `Collect` are L.compile: the process may not start at all, or start and end
before it opens its `.log`, as latexmk does that rejects an option of `o.args`
(`latex.lua` 710) or finds no pdflatex; it may fail before TeX has found an error,
or, like a latexmk that has seen the document before, do nothing. The `.log` is
whatever the last one that opened it has left.

**LibPath, Main.** A run from the command line to the exit status. `stage` says
where `main` is; every branch of the loop of `parse_args` leaves it, so that it
has no variable. `SetupEntry` is one round of the loop of `setup_lib_path`.
Strings are sequences of tokens (`Tokens`), put together as the code does; lengths are
counted in tokens against `SubSize` and `CandSize`, the sizes of two arrays on the
stack. `libdirs` is both the registry's list and tmg.lib_path, which the script
edits with `EditLibPath`, also with values that are no strings (glibc's snprintf
writes "(null)" for them). find_lib asks for one candidate after the other while
other processes change the files; `seen` records, for the properties, which were
there and which were not at some moment of the call. `TakeResult` forgets the last
answer, to keep the instance small. A script may also call `os.exit` with a
status of its own, which ends the run as `ScriptReturns` or `ScriptFails` do.

Definitions that follow a comment `Defect:` belong to no specification: each is a
definition as a plausible mistake would have it, kept to show that the property
named for it in `PROJECT.json` would notice.

## Runs

| Run | Checks | Instance |
|---|---|---|
| `StrPlain` | TypeOK, NoOverrun | int of 5 bits, templates of 1 to 7 bytes, pushes of up to 11, lengths up to 40 |
| `LongBracketFlush` | TypeOK, LevelCorrect, StopsAtEndUnlessHalfClosed, PlainTextKept | all texts of 7 characters over `]`, `=`, x, and of 4 with newline and carriage return |
| `LongBracketSafe` | FlushIsSafe fails | the same |
| `ScanSplit` | TypeOK, OrderKept, LineMapAligned, CodeLineExact, PrintsOnTheirOwnLine, SplitAsMeant, SplitAtRuns | delimiters `%` and `@@`, all templates of up to 6 characters over `%` or `@`, `\`, newline, x |
| `ScanOrder` | OrderKeptAlways fails | the same |
| `RenderNested` | TypeOK, PrintsDelivered, ImplementsPrinting | stack of 3 threads, two files, one of them on a full device, two strings, at most two printed by calls in progress |
| `RenderLost` | NoPrintLost fails | stack of 2 |
| `NobProcsPool` | TypeOK, JobLimit, ChildrenKnown, TakenInOrder, NeverStuck, ReturnMeansDone, CallsAdvance, CallsEnd | three commands, `max_jobs` from 0 to 3, five wait statuses |
| `NobBuild` | BuildTypeOK, SkippedIsFresh, DoneMeansCurrent | two objects with a header in common and a program; one or two slots; three runs, a clock of three ticks, one edit or removal; commands that succeed, fail or are killed |
| `NobBuildSignal` | SuccessMeansCurrent fails | the same |
| `LatexTree` | TypeOK, ReadsBack, ItemsOnOwnLine, ParagraphsApart, RaisedLeavesFile | two constructors around 14 leaves, with five choices of neighbours, nil among them; a document of one constructor and one that is a leaf, written and compiled again and again |
| `MainStart` | TypeOK, PathsReady, ArgsAgree, FirstMatch, NothingOverlooked | all values of TMG_LIB_PATH of up to 6 characters over a, `/`, `:`; all command lines of up to 3 arguments; two directories, five files that come and go, six names, a table of up to 2 entries |

Why the bounds are enough. The interesting cases of `Str` are the transitions of
the two growth tests and the wrap of the int, all within 40 bytes of a 5-bit int.
Seven characters hold two overlapping closers of level 2 (`]==]==]`), which is
where a wrong continuation of the search shows; four with line breaks hold
`\r\n` with a neighbour on either side. Six characters of a template hold two
delimiters with an escape or a line break in and around them, and with `@@` a whole
code block with text after it, one delimiter with a false start before or after it,
or one with an escape. A stack of three threads is a script,
a template and a template or coroutine inside it; deeper ones repeat the
relation of a frame to the one above it. Six characters of TMG_LIB_PATH hold three
entries, empty ones at either end, and entries of nothing but slashes; two
directories, one with paths that do not fit, hold every order of hit, miss and
skip. With three commands and two slots, one
waits in the queue while two run, and a call that raises leaves one behind. Three runs of
a build hold one that fails and leaves a process behind, one that this process
disturbs, and one that meets what both have left; with three ticks a file can be
older than, as old as, and newer than another. Two constructors, with leaves that
are themselves lists in lists, put every kind of node inside and beside every
other.

Deadlock is not checked: every one of these programs ends.

Fairness. All properties but one are safety properties and need none.
`CallsEnd` assumes weak fairness of the interpreter's steps inside a call, for it
is a single thread that does nothing else, and that every command ends: a
script that waits for one that does not is right to wait. Nothing is assumed of
what the script does between calls. With `max_jobs = 0` and a queue that is not
empty `wait_all` spins (`Spin`), and the property says nothing; `CallsAdvance`
says that there is no other case in which a step of a call brings nothing nearer
to its end.

## What the runs that fail show

* **LongBracketSafe.** A text that ends in `]`, or in `]==` when its level is 2,
  before a code block or the end of the file, does not load: the bracket that is
  written after it closes the literal early (`main.c` 166-183), in spite of the
  comments at `main.c` 144 and 148.
* **ScanOrder.** With the delimiter `@@`, recommended at `README.md` 139-140, the
  text `@\x` is rendered as `\x@`: an escape does not wait for `match_buf`
  (`main.c` 228-232).
* **RenderLost.** What tmg.print or L.print print in a coroutine that the
  template or build script has created goes to the code that resumes it
  (`main.c` 564, `latex.lua` 690), against `latex.lua` 684-685.
* **NobBuildSignal.** A build ends without an error and without its target when
  the compiler is killed by a signal, whose status has the exit code 0 (`nob.lua`
  327), or when a source is missing, for which the list of dependencies is empty
  (`nob.lua` 361-370) and needs_rebuild has nothing to raise an error about.

Other divergences were met while modelling and have no run: `%$expr%` of
`README.md` 46-47 does not exist in the code; with a delimiter such as `<%`, the
one in `<<%` is missed (`main.c` 257); a newline right after a closing delimiter
is lost and carriage returns become newlines, for which `PlainTextKept` has its
premises; the error for a failed command is not the intended one (`nob.lua` 329);
a template that cannot be seeked (a pipe, a directory) makes `tmg_expand` write
through NULL (`main.c` 204, `str.c` 11), for which `StrSafe` has the premise
`PlainSizes`; `tmg.render` returns true when the device of the output file is full
(`main.c` 366), which `Printing` allows it to; a string that begins with `[` after
`\item`, and a command without arguments before a letter, are read by TeX as
something else, for which `ReadsBack` has the premise `Unambiguous`; an engine that
ends before it opens its `.log` leaves the one of an earlier document, whose errors
L.compile then reports, where the comment at `latex.lua` 724-725 counts only on "a
latexmk run that did nothing because it saw an earlier error": `Engine` and `Collect`
have this case, and no property is about it.
`PROJECT.json` lists most of them among the hazards.

## Proofs

All of these hold for every value of the constants that the modules' assumptions
allow, and are checked by TLAPS without gaps.

* `StrSafe`: for templates whose doubled size is a positive int,
  `Spec => [](TypeOK /\ NoOverrun /\ CapIsBlock)`. The conjunction is inductive: a
  growth test that passes leaves room for what is stored, one that fails replaces
  the block by one that does, for which doubling relies on CapIsBlock and on a
  capacity above 0. `PlainSizes` names the assumption on the templates, and
  `ToIntPlain` is the lemma that the conversion to int changes nothing then.
* `BracketLevel`: the level the loop computes is the least that nothing inside
  the text closes. The inductive invariant says of `max_equals` that it is the
  above the level of every closer that begins before `i` and no higher than one of
  them asks for, and of `equals` and `j` that they are an unfinished run of '=';
  overlapping runs need nothing more because
  the outer loop goes on right after the `]` it started from.
* `BracketStops`: the lexer stops at the bracket that was written unless the text
  ends half closed. A closer in the body either lies in the text, which
  BracketLevel excludes, or ends with the bracket that was added.
* `ScanType`: types of the scanner, for every delimiter.
* `ScanOrderKept` and `ScanSplitAsMeant`: for delimiters of one character other
  than backslash and newline (the premise `PlainDelimiter`), OrderKept also for
  templates without escapes whatever the delimiter. The invariant says
  that what has been read is exactly what has been copied, with its mode, that `code` is the parity of the
  delimiters read, that `escape_next` holds exactly after an odd number of
  backslashes, and that `match_buf` is empty between two characters. The last is
  what fails for longer delimiters, and with it both theorems: ScanOrder is the
  counterexample. Without escapes (`UInv`) what waits in `match_buf` is always the
  last thing read, so that nothing can be copied ahead of it.
* `ScanSplitAtRuns`: SplitAtRuns, for delimiters that repeat a character, of any
  length. The invariant `RInv` adds what `match_buf` is in the middle of a run: the
  characters of it beyond the last whole delimiter, so that its length is what
  remains when the length of the run so far is divided by that of the delimiter
  (`RunLeft`); that `code` is the parity of the delimiters cut so far (`Toggled`);
  and that what has been copied has the mode SplitAtRuns gives it (`Meant`). That a
  character of an unfinished run is not in a delimiter is known only when the run
  ends, one character later: `RunAfterIs` and `QuotientIs` carry it over.
* `ScanOwnLine`: a print begins a line of the chunk, for every delimiter. The
  invariant adds that the buffer is empty inside a code block, and that the chunk
  ends a line whenever the scanner is in text, so that a flush, wherever it
  happens, starts on a line of its own.
* `ScanLineMap`: the line map has one entry per line of the chunk, for every
  delimiter without line breaks (the premise `NoBreakInSep`). The invariant counts:
  the entries, `gen_line` and the line ends of the chunk are equal after every step.
  It needs to know that the character before a pending escape is a backslash, and
  that no line break waits in `match_buf`, for the code that empties it at the end
  of the file notes none (`main.c` 277-282); this is what the premise is for.
* `ScanCodeLine`: CodeLineExact, for delimiters of one character, and for templates
  without escapes and delimiters of any length without line breaks. On top of that
  invariant: in a code block the last entry of the line map is the present line of
  the template.
* `BracketKept`: PlainTextKept, what Lua reads back. From `BracketStops`, the lexer
  reads exactly the text; that it leaves the text as it is follows by induction on
  the number of characters left, for the recursive equation of `Lines` has one
  solution (`ReadsExists`, `ReadsRest`).
* `MainArgs`: ArgsAgree for every command line. The invariant says at which stage
  `script_idx` is 1 and the command line has a script, that `arg` is the command
  line shifted by `script_idx` from `load` on, and `varargs` its part after the
  script once the script runs.
* `MainFirstMatch`, `MainNothingOverlooked`: for all directories, names and files
  that come and go. The invariant says of a call in its loop that every candidate
  before the one at hand that fits was missing when it was looked at and is in the
  message, and of `seen` that it knows each file as it is.
* `MainPathsReady`: for every value of TMG_LIB_PATH. The invariant says that the
  position is always at the beginning of an entry or after the end, that the
  directories taken are the entries before it, numbered by how many begin before
  them, and that what is stored at the end is these and the old path.
* `MainType`: types, with the ranges of the position and of the search.
* `RenderType`, `RenderDelivers`: for any strings, files and depth of nesting. The
  invariant is that the script, and only it, is at the bottom of the threads, and
  that each frame holds what its code has printed as `text` and `vals` together; what
  a call delivers follows when it ends.
* `RenderImplements`: the engine implements `Printing`, in which a string that is
  printed goes to the innermost call or, if there is none, to standard output. Initial
  states map to initial states, and each action maps to one of the abstract
  specification or, as the transport of a value from a yield to `final_output` does,
  to no step. That L.print tells a template from the script by the main thread
  (`latex.lua` 690) is what maps it to the one or the other.
* `ProcsType`, `ProcsLimit`, `ProcsKnown`, `ProcsOrder`, `ProcsDone`: for any number
  of commands and slots. ChildrenKnown is inductive only with `Placed` (no command
  was appended twice, and those in the queue were not taken and have no process) and
  `Waits` (what each kind of call waits for, and that `active` and the one waited
  for fit into the slots); JobLimit follows from the two, for every process is in
  `active` or waited for.
* `ProcsAdvance`, `ProcsNeverStuck`, and `BuildAdvance` for builds: the part of
  CallsEnd that is not fairness. Each command in the queue is started, ends, leaves
  `active` and is waited for; `WorkLeft` counts what of this is still ahead, and every
  step in a call but `Spin`, of the script or of a process, lowers it, so that with a
  slot a call has a bounded number of steps. With a slot there is one to take (NeverStuck): by
  ChildrenKnown the process that is waited for is there and was not waited for
  before. In builds `Outside` is needed, that a script that is run again is in no
  call.
* `BuildType`, `BuildFresh`: the same invariants, and SkippedIsFresh, for scripts run again and
  again over any targets, inputs and edits. The invariant is that no file has a time
  stamp that is yet to come, and that the text of a target that nothing has fooled
  differs from its inputs only where one of them is newer or gone.
* `BuildDone`: DoneMeansCurrent, for objects that are made from sources alone
  (`PlainInputs`). `Shape` says what may run and wait at each step of the script, and
  `Progress` that, in a run nothing has disturbed, each object tested so far is
  current, in the queue, or being made by a process that has read what is there.
* `FilesType`, `FilesRaised`: for every way of rendering trees, every TeX and any
  number of writes.
* `DocRaised`: RaisedLeavesFile of a script with `Latex` in it, which keeps to the
  specification of which `FilesRaised` speaks (the lemma `DocFiles`).
* `DocItems`, `DocType`: ItemsOnOwnLine, and the types with the place of indentation,
  for every tree that the constructors can build from the leaves, of any size and
  depth, and every way of laying it out (`RenderGoes`, `Laid`). A text is read as a
  walk through the places in a line (`Lay`): its beginning, in the indentation, after
  something. `Goes(A, B)` are the texts that lead from each place of A to one of B
  without an \item or an indentation out of place. Lemmas say for each operator of
  `Latex` where its text leads when the pieces it is made of do: inline text from
  anywhere to anywhere, blocks and items from the beginning of a line
  (`Inside`, `Blocks`, `OnLines`), and that `Glue` puts a separator with a line break
  wherever an item follows another. That this is so of every node follows from the
  leaves to the root (`NodeRendered`, `TreeIs`): the children are before the node. It
  needs that the constructors make trees, each kind with children before it and an
  item, or a table of items, only where it may be (`ConstructMakes`).
* `DocReadsBack`: ReadsBack, what TeX sees in the text is what the tree stands for,
  for every tree of these constructors that is `Unambiguous`, of any size and depth.
  `Says(m)` are the texts in which TeX sees `m` wherever they stand: read from
  ordinary text, with any number of options open, they add `m` to what was seen and
  end in ordinary text again. Texts of this kind stay so one after another
  (`SaysMore`), and space says nothing. What stands in between the texts, a
  command and its option, braces, the ends of an environment and of a row, is taken
  one token at a time (`HeadIsRead`, `BracketIsRead`, `CloserIsRead`); a verbatim is
  left only by the end that was written for it. Each kind of node says what it stands
  for if its children do (`OneSays` for the texts, `MeaningIs` for the
  meanings), and this goes from the leaves to the root over the nodes that are
  reached from there, of which alone the premise speaks (`ReachClosed`). The proof
  needs of the alphabet that neither `[` nor `{` is a letter.

`ListTheorems` proves induction for sets of natural numbers, from the library's
theorem that their order is well founded: its induction theorems take an operator,
which the provers cannot instantiate, but a set of numbers is enough, also for what
the recursive definitions of `FlattenSeq`, `Lines` and `Rendering` compute.

Only model-checked: ParagraphsApart of `LatexDoc`, and liveness under fairness.
ParagraphsApart knows the text of a par by the letter p, which in the run only pars
hold; for all strings it would need a premise on where that letter may be, and a walk
through the text that counts the open lists and environments, which neither `Lay` nor
`Says` does. Of `CallsEnd`, `ProcsAdvance` and `ProcsNeverStuck` prove all but the step
that takes fairness.

## Not modelled

* LuaJIT itself, but for the lexer of long strings; coroutines are what `Render`
  takes them to be. It is vendored and more than nine tenths of the lines in `src/`:
  what is modelled here is most of the program's own code, and a small part of the
  repository.
* `lib/raylib.lua`: it redirects `io.open` and `ffi.load` while a generated binding
  loads, which is a submodule that is not in the repository. What happens between
  the redirection and its end is the binding's; that a binding that does not parse
  leaves both redirected (line 72) can be read off the code.
* Of `nob.lua`, the directory walk, mkdir_if_not_exists, path_join and the quoting
  of commands, which keep no state, and the Windows branches.
* Of `latex.lua`, the nodes `m` and `newcommand`, which are raw text, `lstlisting`,
  which is a verbatim, packages and the preamble of a document, which are copied
  (623-625), and the names of options; the star of a section is part of its name. The
  errors of split_spec (208-210) are raised in the constructor, before there is a
  node. What LaTeX refuses is not built: an item outside of a list or environment, and
  L.item of a table of items.
* `arrstr_*` of `str.c`, which nothing calls.
* The formatting of messages, the help text, the debug output.
* `example/`: scripts and templates without state of their own. (`apply.sh` passes
  options, `-i` and `-o`, that the program no longer has.)

## Plan

Done, in this order:

1. `Str`, `StrProofs`: memory safety first, everything else is built on it.
2. `LongBracket`, `LongBracketProofs`.
3. `Scan`, `ScanProofs`.
4. `Printing`, `Render`: the engine against an abstract specification.
5. `NobProcs`: the job manager, the one part with real concurrency.
6. `LibPath`, `Main`, `MainProofs`: a run from the command line to the exit.
7. Proofs about `NobProcs`, `Render`, the line map of `Scan`, the search path of
   `Main`, and what Lua reads back from a literal of `LongBracket`.
8. `NobBuild`, `NobProofs`: builds, edits and leftover processes, with clocks of
   limited resolution.
9. `Latex`, `LatexDoc`: the generator against what TeX reads, and compilation.

10. A proof of SplitAtRuns, and `LatexFiles`, `LatexProofs`: the files of a document
    apart from what is written in them.
11. `Latex` as a function over the nodes of a tree, without recursive operators, and
    the layout of its texts proved for every tree, and then ReadsBack.

Left:

12. `Expand`, a composition of `Scan` and `LongBracket`: the text a template prints
    when its chunk is run, end to end, with the premises of PlainTextKept on each
    literal.
13. Standard output in `NobProcs`: what a child that cannot exec writes a second
    time (`nob.lua` 283).
14. `RaylibGlue` on top of `LibPath`, should the binding become part of the
    repository.
