------------------------------ MODULE LibPath ------------------------------
(***************************************************************************)
(* The search path of tmg (main.c): setup_lib_path reads TMG_LIB_PATH, and *)
(* tmg.find_lib looks for a shared library in the directories it names.    *)
(*                                                                         *)
(* A string is a sequence of tokens: single characters, and "lib" and      *)
(* ".so", which find_lib adds or looks for; a path is put together from    *)
(* them as the code does, and its length is the number of its tokens.  A   *)
(* search template of package.path is a directory and a form.  Other       *)
(* processes create and delete files at any moment; the registry's list of *)
(* directories is the very table that a script knows as tmg.lib_path.      *)
(***************************************************************************)
EXTENDS Integers, Sequences, FiniteSets, FiniteSetsExt, SequencesExt

CONSTANTS
  Tokens,             \* what strings are made of
  OldPath, OldCPath,  \* package.path and package.cpath of LuaJIT
  Names,              \* what find_lib is asked for
  LibFiles,           \* paths that may or may not be readable files
  Entries,            \* what a script stores in tmg.lib_path
  NotString,          \* a value in the table that is not a string
  SubSize, CandSize,  \* char sub[1024], cand[4096]
  MaxDirs             \* bound: length of tmg.lib_path

Strings == Seq(Tokens)

\* The search templates of package.path and package.cpath.
TemplateSet == [dir : Strings, form : {"?.lua", "?/init.lua", "?.so"}]

ASSUME SizesAssumption ==
  SubSize \in Nat /\ CandSize \in Nat /\ MaxDirs \in Nat
ASSUME TokensAssumption == {"lib", ".so", "/", "(null)"} \subseteq Tokens
ASSUME StringsAssumption ==
  /\ Names \subseteq Strings
  /\ \A d \in Entries : d = NotString \/ d \in Strings
ASSUME OldAssumption ==
  OldPath \in Seq(TemplateSet) /\ OldCPath \in Seq(TemplateSet)

VARIABLES
  env,         \* TMG_LIB_PATH, <<>> if unset
  p,           \* position in env
  libdirs,     \* registry["tmg.libdirs"], tmg.lib_path
  lpath,       \* str_t, templates to prepend to package.path
  cpath,       \* str_t, templates to prepend to package.cpath
  path,        \* package.path
  cpackage,    \* package.cpath
  files,       \* the readable files among LibFiles
  call,        \* the running find_lib, NoCall if there is none
  tried,       \* candidates that were not readable
  result,      \* of the last find_lib
  seen         \* files that were there, or not, during that call

setupvars == <<env, p, lpath, cpath, path, cpackage>>
findvars  == <<files, call, tried, result, seen>>
libvars   == <<libdirs, setupvars, findvars>>

NoCall == [name |-> <<>>, i |-> 0, f |-> 0]
NoResult == [kind |-> "none", name |-> <<>>, path |-> <<>>]
Idle == call = NoCall /\ result = NoResult

LibInit ==
  /\ p = 1 /\ libdirs = <<>> /\ lpath = <<>> /\ cpath = <<>>
  /\ path = OldPath /\ cpackage = OldCPath
  /\ files = {}
  /\ call = NoCall /\ tried = <<>> /\ result = NoResult
  /\ seen = [there |-> {}, gone |-> {}]

----------------------------------------------------------------------------
(* setup_lib_path                                                          *)

\* Trailing '/' are dropped while another character is left.
Trim(s) == SubSeq(s, 1, Max({1} \cup {n \in 1 .. Len(s) : s[n] # "/"}))

\* strchr(p, ':'), or the end of the string.
EntryEnd == Min({n \in p .. Len(env) : env[n] = ":"} \cup {Len(env) + 1})

Entry == SubSeq(env, p, EntryEnd - 1)

Template(dir, form) == [dir |-> dir, form |-> form]

\* One round of the loop; an empty entry is ignored.
ParseEntry ==
  /\ p <= Len(env)
  /\ p' = EntryEnd + 1
  /\ IF Entry = <<>>
     THEN UNCHANGED <<libdirs, lpath, cpath>>
     ELSE LET dir == Trim(Entry)
          IN  /\ libdirs' = Append(libdirs, dir)
              /\ lpath' = lpath \o <<Template(dir, "?.lua"),
                                     Template(dir, "?/init.lua")>>
              /\ cpath' = Append(cpath, Template(dir, "?.so"))
  /\ UNCHANGED <<env, path, cpackage, findvars>>

\* Defect: the defaults come first.
StorePathsAppended ==
  /\ p > Len(env)
  /\ path' = path \o lpath
  /\ cpackage' = cpackage \o cpath
  /\ UNCHANGED <<env, p, libdirs, lpath, cpath, findvars>>

\* After the loop: ours before the old.
StorePaths ==
  /\ p > Len(env)
  /\ path' = lpath \o path
  /\ cpackage' = cpath \o cpackage
  /\ UNCHANGED <<env, p, libdirs, lpath, cpath, findvars>>

----------------------------------------------------------------------------
(* tmg.find_lib                                                            *)

LastSlash(name) == Max({0} \cup {n \in 1 .. Len(name) : name[n] = "/"})
Sub(name)  == SubSeq(name, 1, LastSlash(name))
Base(name) == SubSeq(name, LastSlash(name) + 1, Len(name))

\* The name looks like a file.
Literal(name) == \E n \in 1 .. Len(Base(name)) : Base(name)[n] = ".so"

\* The two formats; a literal name has only the first.
Forms(name) == IF Literal(name) THEN 1 ELSE 2

\* Defect: the formats are swapped.
FileNamePlainFirst(name, f) ==
  IF Literal(name) THEN Base(name)
  ELSE IF f = 2 THEN <<"lib">> \o Base(name) \o <<".so">>
  ELSE Base(name) \o <<".so">>

FileName(name, f) ==
  IF Literal(name) THEN Base(name)
  ELSE IF f = 1 THEN <<"lib">> \o Base(name) \o <<".so">>
  ELSE Base(name) \o <<".so">>

\* printf writes NULL as "(null)", if it writes it.
DirText(dir) == IF dir = NotString THEN <<"(null)">> ELSE dir

Candidate(dir, name, f) ==
  DirText(dir) \o <<"/">> \o Sub(name) \o FileName(name, f)

Answer(kind, name, c) ==
  /\ result' = [kind |-> kind, name |-> name, path |-> c]
  /\ call' = NoCall

Return(name, c) == Answer("path", name, c)
NilError(name) == Answer("nil", name, <<>>)
Raise(name) == Answer("error", name, <<>>)

\* The checks before the loop, in their order; since the last call the files
\* may have become any others.
FindLib(name) ==
  /\ Idle
  /\ files' \in SUBSET LibFiles
  /\ seen' = [there |-> files', gone |-> LibFiles \ files']
  /\ tried' = <<>>
  /\ \/ /\ Len(Sub(name)) >= SubSize
        /\ Raise(name)
     \/ /\ Len(Sub(name)) < SubSize
        /\ name # <<>> /\ name[1] = "/"
        /\ IF name \in files' THEN Return(name, name) ELSE NilError(name)
     \/ /\ Len(Sub(name)) < SubSize
        /\ name = <<>> \/ name[1] # "/"
        /\ Base(name) = <<>>
        /\ Raise(name)
     \/ /\ Len(Sub(name)) < SubSize
        /\ name # <<>> /\ name[1] # "/"
        /\ Base(name) # <<>>
        /\ call' = [name |-> name, i |-> 1, f |-> 1]
        /\ result' = NoResult
  /\ UNCHANGED <<setupvars, libdirs>>

InLoop == call # NoCall /\ call.i <= Len(libdirs)

Cand == Candidate(libdirs[call.i], call.name, call.f)

Fits(c) == Len(c) < CandSize

\* Defect: one format too many.
NextCandidateLate ==
  call' = IF call.f <= Forms(call.name) THEN [call EXCEPT !.f = @ + 1]
          ELSE [call EXCEPT !.i = @ + 1, !.f = 1]

\* The next format, then the next directory.
NextCandidate ==
  call' = IF call.f < Forms(call.name) THEN [call EXCEPT !.f = @ + 1]
          ELSE [call EXCEPT !.i = @ + 1, !.f = 1]

\* Defect: the search ends.
TooLongEnds ==
  /\ InLoop /\ ~Fits(Cand)
  /\ call' = [call EXCEPT !.i = Len(libdirs) + 1, !.f = 1]
  /\ UNCHANGED <<setupvars, libdirs, files, tried, result, seen>>

\* A path that was cut off is skipped.
TooLong ==
  /\ InLoop /\ ~Fits(Cand)
  /\ NextCandidate
  /\ UNCHANGED <<setupvars, libdirs, files, tried, result, seen>>

\* access() succeeds.
Match ==
  /\ InLoop /\ Fits(Cand) /\ Cand \in files
  /\ Return(call.name, Cand)
  /\ UNCHANGED <<setupvars, libdirs, files, tried, seen>>

NoMatch ==
  /\ InLoop /\ Fits(Cand) /\ Cand \notin files
  /\ tried' = Append(tried, Cand)
  /\ NextCandidate
  /\ UNCHANGED <<setupvars, libdirs, files, result, seen>>

NotFound ==
  /\ call # NoCall /\ call.i > Len(libdirs)
  /\ NilError(call.name)
  /\ UNCHANGED <<setupvars, libdirs, files, tried, seen>>

\* Another process creates or deletes a file during the call.
FileChanges ==
  /\ call # NoCall
  /\ \E c \in LibFiles :
       \/ /\ c \notin files /\ files' = files \cup {c}
          /\ seen' = [seen EXCEPT !.there = @ \cup {c}]
       \/ /\ c \in files /\ files' = files \ {c}
          /\ seen' = [seen EXCEPT !.gone = @ \cup {c}]
  /\ UNCHANGED <<setupvars, libdirs, call, tried, result>>

\* The script has what it asked for; what was seen is no longer of interest.
TakeResult ==
  /\ result # NoResult
  /\ result' = NoResult /\ tried' = <<>>
  /\ files' = {} /\ seen' = [there |-> {}, gone |-> {}]
  /\ UNCHANGED <<setupvars, libdirs, call>>

\* The script changes tmg.lib_path: table.insert, table.remove.
ChangeLibPath ==
  /\ Idle
  /\ \/ /\ Len(libdirs) < MaxDirs
        /\ \E n \in 1 .. Len(libdirs) + 1, d \in Entries :
             libdirs' = InsertAt(libdirs, n, d)
     \/ \E n \in 1 .. Len(libdirs) : libdirs' = RemoveAt(libdirs, n)
  /\ UNCHANGED <<setupvars, findvars>>

----------------------------------------------------------------------------
(* Properties.                                                             *)

Kinds == {"none", "path", "nil", "error"}

\* Types and ranges.
LibTypeOK ==
  /\ env \in Strings /\ p \in 1 .. Len(env) + 2
  /\ \A n \in 1 .. Len(libdirs) :
       libdirs[n] = NotString \/ libdirs[n] \in Strings
  /\ lpath \in Seq(TemplateSet) /\ cpath \in Seq(TemplateSet)
  /\ path \in Seq(TemplateSet) /\ cpackage \in Seq(TemplateSet)
  /\ files \subseteq LibFiles
  /\ seen.there \subseteq LibFiles /\ seen.gone \subseteq LibFiles
  /\ call # NoCall => call.i \in 1 .. Len(libdirs) + 1 /\ call.f \in 1 .. 2
  /\ result.kind \in Kinds /\ result.path \in Strings

\* Where the entries of TMG_LIB_PATH begin, and their order.
Starts == {a \in 1 .. Len(env) : env[a] # ":" /\ (a = 1 \/ env[a - 1] = ":")}

Place(a) == Cardinality({b \in Starts : b <= a})

\* A directory is the entry at a without the '/' at its end.
IsEntryAt(dir, a) ==
  /\ dir # <<>>
  /\ Len(dir) > 1 => dir[Len(dir)] # "/"
  /\ \A n \in 1 .. Len(dir) : dir[n] # ":" /\ dir[n] = env[a + n - 1]
  /\ \A n \in a + Len(dir) .. Len(env) :
       (\A m \in a .. n : env[m] # ":") => env[n] = "/"

\* The loop of setup_lib_path has taken the entries that begin before p, all
\* of them but the empty ones, in their order, without the '/' at their ends
\* (comment at main.c 389-392, README.md:74), for lpath, cpath alike.
EntriesTaken ==
  /\ Len(cpath) = Cardinality({a \in Starts : a < p})
  /\ Len(lpath) = 2 * Len(cpath)
  /\ \A a \in Starts : a < p => IsEntryAt(cpath[Place(a)].dir, a)
  /\ \A k \in 1 .. Len(cpath) :
       lpath[2 * k - 1].dir = cpath[k].dir /\ lpath[2 * k].dir = cpath[k].dir

\* require looks into the directories of TMG_LIB_PATH in the order given, for
\* name.lua before name/init.lua, and into the defaults only after them
\* (README.md:82-84).
SearchOrder ==
  LET n == Cardinality(Starts)
  IN  /\ Len(path) = 2 * n + Len(OldPath)
      /\ \A a \in Starts :
           /\ IsEntryAt(path[2 * Place(a) - 1].dir, a)
           /\ IsEntryAt(path[2 * Place(a)].dir, a)
           /\ path[2 * Place(a) - 1].form = "?.lua"
           /\ IsEntryAt(cpackage[Place(a)].dir, a)
      /\ \A k \in 1 .. Len(OldPath) : path[2 * n + k] = OldPath[k]
      /\ \A k \in 1 .. Len(OldCPath) : cpackage[n + k] = OldCPath[k]

\* The file names for a name, in the order of README.md 99-101.
Spellings(name) ==
  IF \E n \in 1 .. Len(Base(name)) : Base(name)[n] = ".so"
  THEN <<Base(name)>>
  ELSE << <<"lib">> \o Base(name) \o <<".so">>, Base(name) \o <<".so">> >>

Tries(name) == (1 .. Len(libdirs)) \X (1 .. Len(Spellings(name)))

PathOf(name, t) ==
  DirText(libdirs[t[1]]) \o <<"/">> \o Sub(name) \o Spellings(name)[t[2]]

Earlier(t, u) == t[1] < u[1] \/ (t[1] = u[1] /\ t[2] < u[2])

\* The file was not there at some moment of the call.
Absent(c) == c \notin LibFiles \/ c \in seen.gone

Relative(name) == name = <<>> \/ name[1] # "/"

\* What find_lib returns is a file of the first directory, and of the first
\* spelling in it, that has one (comment at main.c 454-455), whatever other
\* processes do to the files and the script has done to tmg.lib_path: it was
\* there, and each earlier candidate that fits was not when it was looked at.
FirstMatch ==
  result.kind = "path" =>
    /\ result.path \in seen.there
    /\ ~Relative(result.name) => result.path = result.name
    /\ Relative(result.name) =>
         \E t \in Tries(result.name) :
           /\ result.path = PathOf(result.name, t)
           /\ \A u \in Tries(result.name) :
                Earlier(u, t) /\ Fits(PathOf(result.name, u)) =>
                  Absent(PathOf(result.name, u))

\* When find_lib finds nothing, every candidate that fits into cand was
\* missing when it was looked at, and the message names it: one that is too
\* long does not hide those after it (main.c 500, 506-508).
NothingOverlooked ==
  result.kind = "nil" /\ Relative(result.name) =>
    \A t \in Tries(result.name) :
      LET c == PathOf(result.name, t)
      IN  Fits(c) => Absent(c) /\ \E n \in 1 .. Len(tried) : tried[n] = c

=============================================================================
