------------------------------- MODULE Render -------------------------------
(***************************************************************************)
(* The coroutine engine of tmg_expand and the functions around it          *)
(* (main.c): a build script calls tmg.render or tmg.render_string, which   *)
(* run the expanded template as a Lua coroutine; tmg.print yields from it, *)
(* and the engine collects what was yielded and resumes.  A template may   *)
(* itself render templates, and any Lua code may use coroutines.           *)
(*                                                                         *)
(* The frames of `stack' are the Lua threads that wait for each other: the *)
(* build script at the bottom, then templates and coroutines of the user,  *)
(* each resumed by the code of the frame below it.  What Lua code does     *)
(* next is arbitrary.  How a template becomes a chunk is the subject of    *)
(* Scan and LongBracket; here it has loaded or it has not.                 *)
(***************************************************************************)
EXTENDS Naturals, Sequences, SequencesExt

CONSTANTS
  Byte,      \* what strings are made of
  Nul,       \* the byte that ends a C string
  Pieces,    \* the strings that Lua code prints
  NonString, \* a printed value that is neither a string nor has __tostring
  Files,     \* names of templates and output files
  NoFile,    \* the output of render_string
  Absent,    \* the content of a file that does not exist
  Start,     \* the files there are when the script begins
  Full,      \* files on a device that accepts no data
  MaxDepth,  \* bound on the length of the stack
  MaxSaid    \* bound on the strings that the calls in progress and the last
             \* one that has ended have printed, together

ASSUME BytesAssumption == Nul \in Byte /\ Pieces \subseteq Seq(Byte) /\ NonString \notin Pieces
ASSUME FilesAssumption ==
  /\ NoFile \notin Files /\ Full \subseteq Files
  /\ Start \in [Files -> Seq(Byte) \cup {Absent}]
ASSUME BoundsAssumption ==
  MaxDepth \in Nat \ {0} /\ MaxSaid \in Nat

VARIABLES
  stack,   \* the threads, the running one last
  files,   \* the content of every file
  stdout,  \* what was written to standard output
  last,    \* what the last render or render_string returned
  exit     \* status of the process; "none" while it runs

vars == <<stack, files, stdout, last, exit>>

----------------------------------------------------------------------------

\* A thread.  `vals' are the values it has yielded and nobody has collected,
\* `text' is final_output.  `said' and `lost' are no state of the program:
\* the strings the code of this call has printed in its own thread, and
\* whether it has printed in a coroutine it made.
Frame(kind, to) ==
  [kind |-> kind, to |-> to, vals |-> <<>>, text |-> <<>>, said |-> <<>>, lost |-> FALSE]

Templates == {"render", "render_string"}

Failed == [ok |-> FALSE, text |-> <<>>, said |-> <<>>]

Init ==
  /\ stack = <<Frame("script", NoFile)>>
  /\ files = Start
  /\ stdout = <<>>
  /\ last = Failed
  /\ exit = "none"

\* Lua code is running, in the top thread.
Top == Last(stack)
LuaRuns == exit = "none" /\ Top.vals = <<>>

InTemplate == Top.kind \in Templates
InCoroutine == Top.kind = "coroutine"

\* The template whose code is running, directly or in a coroutine it made.
IsOwner(n) ==
  /\ stack[n].kind # "coroutine"
  /\ \A m \in n + 1 .. Len(stack) : stack[m].kind = "coroutine"

Owner == CHOOSE n \in 1 .. Len(stack) : IsOwner(n)

Saying(ps) ==
  /\ LuaRuns
  /\ Len(ps \o last.said \o FlattenSeq([n \in 1 .. Len(stack) |-> stack[n].said])) <= MaxSaid

Said(ps) == [stack EXCEPT ![Len(stack)].said = @ \o ps]

\* tmg.render and tmg.render_string.  The input cannot be opened, or the
\* chunk made from it does not load: false or nil.
CallFails ==
  /\ LuaRuns
  /\ last' = Failed
  /\ UNCHANGED <<stack, files, stdout, exit>>

\* The chunk loads: a new thread is resumed for the first time.
Call ==
  /\ LuaRuns
  /\ Len(stack) < MaxDepth
  /\ \E in_path \in Files : files[in_path] # Absent
  /\ \/ \E to \in Files : stack' = Append(stack, Frame("render", to))
     \/ stack' = Append(stack, Frame("render_string", NoFile))
  /\ UNCHANGED <<files, stdout, last, exit>>

\* The strlen of a chunk: what str_push copies of it.
CString(p) ==
  IF \E n \in 1 .. Len(p) : p[n] = Nul
    THEN SubSeq(p, 1, (CHOOSE n \in 1 .. Len(p) :
                         p[n] = Nul /\ \A m \in 1 .. n - 1 : p[m] # Nul) - 1)
    ELSE p

\* tmg.print in a template: yields one string to the engine.
TmgPrint(p) ==
  /\ Saying(<<p>>) /\ InTemplate
  /\ stack' = [Said(<<p>>) EXCEPT ![Len(stack)].vals = <<p>>]
  /\ UNCHANGED <<files, stdout, last, exit>>

\* tmg.print of a value that is not a string: nil is yielded.
PrintNonString ==
  /\ LuaRuns /\ InTemplate
  /\ stack' = [stack EXCEPT ![Len(stack)].vals = <<NonString>>]
  /\ UNCHANGED <<files, stdout, last, exit>>

\* coroutine.yield in a template reaches the engine too, with any values.
YieldSeveral(p, q) ==
  /\ Saying(<<p, q>>) /\ InTemplate
  /\ stack' = [Said(<<p, q>>) EXCEPT ![Len(stack)].vals = <<p, NonString, q>>]
  /\ UNCHANGED <<files, stdout, last, exit>>

\* tmg.print in a coroutine of the user: the string goes to whoever resumed
\* that coroutine, which stays suspended.
PrintInCoroutine ==
  /\ LuaRuns /\ InCoroutine
  /\ stack' = Front([stack EXCEPT ![Owner].lost = TRUE])
  /\ UNCHANGED <<files, stdout, last, exit>>

\* io.write, at the end of L.print.
IoWrite(p) ==
  /\ Saying(<<p>>)
  /\ stack' = Said(<<p>>)
  /\ stdout' = stdout \o p
  /\ UNCHANGED <<files, last, exit>>

\* L.print of latex.lua asks for the thread it runs in: in the main thread it
\* writes to standard output, in any other it calls tmg.print.
MainThread == Len(stack) = 1

LPrint(p) ==
  \/ MainThread /\ IoWrite(p)
  \/ ~MainThread /\ (TmgPrint(p) \/ PrintInCoroutine)

\* A coroutine of the user is started or resumed.
Resume ==
  /\ LuaRuns
  /\ Len(stack) < MaxDepth
  /\ stack' = Append(stack, Frame("coroutine", NoFile))
  /\ UNCHANGED <<files, stdout, last, exit>>

\* It ends, yields, or fails: control goes back to the thread below.
LeaveCoroutine ==
  /\ LuaRuns /\ InCoroutine
  /\ stack' = Front(stack)
  /\ UNCHANGED <<files, stdout, last, exit>>

\* The body of the engine's loop: the strings among the yielded values are
\* appended to final_output, the values are popped, the thread is resumed.
TextOf(v) == IF v = NonString THEN <<>> ELSE CString(v)

Texts(vals) == FlattenSeq([n \in DOMAIN vals |-> TextOf(vals[n])])

\* Defect: what was collected before is dropped.
CollectLatest ==
  /\ exit = "none" /\ Top.vals # <<>>
  /\ stack' = [stack EXCEPT ![Len(stack)].text = Texts(Top.vals),
                            ![Len(stack)].vals = <<>>]
  /\ UNCHANGED <<files, stdout, last, exit>>

Collect ==
  /\ exit = "none" /\ Top.vals # <<>>
  /\ stack' = [stack EXCEPT ![Len(stack)].text = @ \o Texts(Top.vals),
                            ![Len(stack)].vals = <<>>]
  /\ UNCHANGED <<files, stdout, last, exit>>

Succeeded == [ok |-> TRUE, text |-> Top.text, said |-> Top.said]

\* The template has run to its end; render_string returns its text.
ReturnString ==
  /\ LuaRuns /\ Top.kind = "render_string"
  /\ stack' = Front(stack)
  /\ last' = Succeeded
  /\ UNCHANGED <<files, stdout, exit>>

\* render opens the output file, which truncates it, and writes the text
\* without looking at the outcome.
WriteOutput ==
  /\ LuaRuns /\ Top.kind = "render"
  /\ stack' = Front(stack)
  /\ files' = [files EXCEPT ![Top.to] = IF Top.to \in Full THEN <<>> ELSE Top.text]
  /\ last' = Succeeded
  /\ UNCHANGED <<stdout, exit>>

\* The output file cannot be created.
CreateFails ==
  /\ LuaRuns /\ Top.kind = "render"
  /\ stack' = Front(stack)
  /\ last' = Failed
  /\ UNCHANGED <<files, stdout, exit>>

\* Defect: the output of a template that failed is written.
TemplateErrorWrites ==
  /\ LuaRuns /\ InTemplate
  /\ stack' = Front(stack)
  /\ last' = Failed
  /\ files' = IF Top.kind = "render" THEN [files EXCEPT ![Top.to] = Top.text] ELSE files
  /\ UNCHANGED <<stdout, exit>>

\* Defect: an error takes the thread that runs off the stack, whatever it is.
TemplateErrorUnwinds ==
  /\ LuaRuns
  /\ stack' = Front(stack)
  /\ last' = Failed
  /\ UNCHANGED <<files, stdout, exit>>

\* An error in a template ends its thread only; it is reported and the call
\* returns false or nil.
TemplateError ==
  /\ LuaRuns /\ InTemplate
  /\ stack' = Front(stack)
  /\ last' = Failed
  /\ UNCHANGED <<files, stdout, exit>>

\* The build script ends, or fails: tmg.print outside of a template does.
Exit ==
  /\ LuaRuns /\ Top.kind = "script"
  /\ exit' \in {"success", "failure"}
  /\ UNCHANGED <<stack, files, stdout, last>>

Next ==
  \/ CallFails \/ Call
  \/ \E p \in Pieces : TmgPrint(p) \/ LPrint(p)
  \/ \E p, q \in Pieces : YieldSeveral(p, q)
  \/ PrintNonString
  \/ Resume \/ PrintInCoroutine \/ LeaveCoroutine
  \/ Collect
  \/ ReturnString \/ WriteOutput \/ CreateFails \/ TemplateError
  \/ Exit

Spec == Init /\ [][Next]_vars

----------------------------------------------------------------------------

Contents == Seq(Byte) \cup {Absent}

Frames ==
  [kind : Templates \cup {"script", "coroutine"}, to : Files \cup {NoFile},
   vals : Seq(Pieces \cup {NonString}), text : Seq(Byte), said : Seq(Pieces), lost : BOOLEAN]

\* Types of the variables.
TypeOK ==
  /\ stack \in Seq(Frames)
  /\ stack # <<>> /\ stack[1].kind = "script"
  /\ files \in [Files -> Contents]
  /\ stdout \in Seq(Byte)
  /\ last \in [ok : BOOLEAN, text : Seq(Byte), said : Seq(Pieces)]
  /\ exit \in {"none", "success", "failure"}

\* The text a successful call delivers is what its template has printed,
\* complete and in order, and nothing that a template rendered meanwhile or
\* the script has printed (main.c 316-336).  A NUL ends the string it is in,
\* and no other.
PrintsDelivered == last.ok => last.text = Texts(last.said)

\* latex.lua:684-685 has L.print print into a template or else write to
\* standard output, and README.md:137 says the first of tmg.print.  Printed in
\* a coroutine that a template or the build script has created, a string is
\* yielded to the code that resumes it and goes to neither.
NoPrintLost == \A n \in DOMAIN stack : ~stack[n].lost

----------------------------------------------------------------------------
(* The engine implements Printing: values that were yielded and wait for   *)
(* the engine already belong to the text, and neither the threads nor the  *)
(* coroutines of the user are visible.                                     *)

\* What a frame is there: a call, if it is that of a template.
CallOf(f) ==
  IF f.kind \in Templates THEN <<[to |-> f.to, text |-> f.text \o Texts(f.vals)]>> ELSE <<>>

Calls(frames) == FlattenSeq([n \in DOMAIN frames |-> CallOf(frames[n])])

P == INSTANCE Printing WITH
       calls <- Calls(stack),
       result <- [ok |-> last.ok, text |-> last.text]

\* Whatever the templates, the coroutines and the build script do, texts of
\* nested calls do not mix, a failed call changes no file and a successful
\* one leaves exactly its text, unless the device is full (main.c 291-372).
\* While a call is in progress nothing reaches standard output, wherever code
\* calls L.print, and what was written there stays (latex.lua 686-696).
ImplementsPrinting == P!Spec
=============================================================================
