------------------------------ MODULE Printing ------------------------------
(***************************************************************************)
(* What rendering promises to a build script: calls nest, each collects    *)
(* the text that is printed while it is the innermost one, and a call      *)
(* that succeeds delivers exactly that text, to its caller or to a file.   *)
(* Standard output is the script's own: it grows between calls only.       *)
(***************************************************************************)
EXTENDS Sequences, SequencesExt

CONSTANTS
  Byte,    \* what texts are made of
  Files,   \* the names of files
  NoFile,  \* the target of a call that returns its text
  Start,   \* the files there are at first
  Full     \* files on a device that accepts no data

VARIABLES
  calls,  \* the calls that have not returned, the innermost one last
  files,  \* the content of every file
  result, \* what the last call to return has returned
  stdout  \* what was written to standard output

vars == <<calls, files, result, stdout>>

Failure == [ok |-> FALSE, text |-> <<>>]

Success(text) == [ok |-> TRUE, text |-> text]

Init == calls = <<>> /\ files = Start /\ result = Failure /\ stdout = <<>>

\* A call of render or render_string that cannot begin.
Reject ==
  /\ result' = Failure
  /\ UNCHANGED <<calls, files, stdout>>

\* One that can.
Begin ==
  /\ \E to \in Files \cup {NoFile} : calls' = Append(calls, [to |-> to, text |-> <<>>])
  /\ UNCHANGED <<files, result, stdout>>

\* The innermost template prints: its own text grows at the end, and no other.
Grow ==
  /\ calls # <<>>
  /\ Len(calls') = Len(calls)
  /\ Front(calls') = Front(calls)
  /\ Last(calls').to = Last(calls).to
  /\ Last(calls').text \in Seq(Byte)
  /\ IsPrefix(Last(calls).text, Last(calls').text)
  /\ UNCHANGED <<files, result, stdout>>

\* Success: a text that is not for the caller is what the file then holds, but
\* for one on a full device, whose old content is lost all the same.
Deliver ==
  /\ calls # <<>>
  /\ calls' = Front(calls)
  /\ result' = Success(Last(calls).text)
  /\ files' = IF Last(calls).to = NoFile THEN files
              ELSE [files EXCEPT ![Last(calls).to] =
                      IF Last(calls).to \in Full THEN <<>> ELSE Last(calls).text]
  /\ UNCHANGED stdout

\* Failure leaves no trace in the files or in the texts of other calls.
Fail ==
  /\ calls # <<>>
  /\ calls' = Front(calls)
  /\ result' = Failure
  /\ UNCHANGED <<files, stdout>>

\* The script itself prints, while no template runs.
Write ==
  /\ calls = <<>>
  /\ stdout' \in Seq(Byte)
  /\ IsPrefix(stdout, stdout')
  /\ UNCHANGED <<calls, files, result>>

Next == Reject \/ Begin \/ Grow \/ Deliver \/ Fail \/ Write

Spec == Init /\ [][Next]_vars
=============================================================================
