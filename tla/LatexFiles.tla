------------------------------ MODULE LatexFiles ------------------------------
(***************************************************************************)
(* The files of a document: L.write puts the text of a tree on disk, and   *)
(* L.compile runs an engine (latexmk or another) beside it and says what   *)
(* went wrong.  The .log file of TeX and the memory of latexmk are beside  *)
(* the document and outlive a run.  What a tree is, whether L.render finds *)
(* a text for it and whether TeX takes that text is left to LatexDoc.      *)
(***************************************************************************)
EXTENDS Naturals

CONSTANTS
  Renders(_),  \* L.render returns a text for the tree, and raises no error
  Accepted(_), \* TeX takes that text
  MaxWrites    \* bound on the calls of L.write

VARIABLES
  node,  \* what the script has built
  tex,   \* the document on disk: which write it is from, and if TeX takes it
  log,   \* the .log beside it: which document it is about, and if it has errors
  run,   \* the engine that L.compile has run and not yet asked about
  ret    \* what L.compile has returned

filevars == <<tex, log, run, ret>>

NoFile == [of |-> 0, ok |-> FALSE]
NoRun == [started |-> FALSE, ok |-> TRUE]

FilesInit ==
  /\ tex = NoFile
  /\ log = [of |-> 0, errors |-> FALSE]
  /\ run = NoRun
  /\ ret = [ok |-> TRUE, about |-> 0]

\* Defect: the file is opened before the text is made.
WriteFileOpensFirst ==
  /\ tex.of < MaxWrites /\ run = NoRun
  /\ \E whole \in BOOLEAN :
       tex' = [of |-> tex.of + 1, ok |-> whole /\ Renders(node) /\ Accepted(node)]
  /\ UNCHANGED <<log, run, ret>>

\* L.write renders first, and an error is raised before the file is touched,
\* as one of io.open is returned.  A text that is not written as a whole, on a
\* full device, is not noticed.
WriteFile ==
  /\ tex.of < MaxWrites /\ run = NoRun
  /\ \/ /\ Renders(node)
        /\ \E whole \in BOOLEAN :
             tex' = [of |-> tex.of + 1, ok |-> whole /\ Accepted(node)]
     \/ tex' = tex
  /\ UNCHANGED <<log, run, ret>>

\* L.compile runs the engine in the directory of the document.  It may not
\* start, or reject an argument or find no TeX and leave the .log as it was, or
\* end before TeX has come to an error, or, having seen the document before, do
\* nothing.
Engine ==
  /\ run = NoRun /\ tex # NoFile
  /\ \/ run' \in [started : BOOLEAN, ok : {FALSE}] /\ UNCHANGED log
     \/ /\ run' = [started |-> TRUE, ok |-> tex.ok]
        /\ log' = [of |-> tex.of, errors |-> ~tex.ok]
     \/ /\ run' = [started |-> TRUE, ok |-> FALSE]
        /\ log' = [of |-> tex.of, errors |-> FALSE]
     \/ /\ log.of = tex.of
        /\ run' = [started |-> TRUE, ok |-> ~log.errors] /\ UNCHANGED log
  /\ UNCHANGED <<tex, ret>>

\* L.compile returns: if the engine has failed, the errors in the .log file,
\* or the end of what it has printed if there are none.
Collect ==
  /\ run # NoRun
  /\ ret' = [ok |-> run.ok, about |-> IF ~run.ok /\ log.errors THEN log.of ELSE tex.of]
  /\ run' = NoRun
  /\ UNCHANGED <<tex, log>>

\* What else a script does, building, rendering, going on to another document,
\* leaves the files alone; an L.compile that has begun it does not touch.
Script == UNCHANGED filevars /\ (run # NoRun => UNCHANGED node)

FilesNext == ((WriteFile \/ Engine \/ Collect) /\ UNCHANGED node) \/ Script

\* What may happen to the files of a document: every script that uses L.write
\* and L.compile (latex.lua 675-743) keeps to it, whatever it builds and
\* renders, so that what is proved of it holds of them.
FilesSpec == FilesInit /\ [][FilesNext]_<<node, filevars>>

----------------------------------------------------------------------------
(* Properties.                                                             *)

\* Types; a log is about a document that was written.
FilesTypeOK ==
  /\ tex.of \in Nat /\ tex.ok \in BOOLEAN
  /\ log.of \in 0 .. tex.of /\ log.errors \in BOOLEAN
  /\ run.started \in BOOLEAN /\ run.ok \in BOOLEAN
  /\ ret.about \in 0 .. tex.of

\* An error of L.render leaves the file that is there as it was (latex.lua
\* 676-677).
RaisedLeavesFile == [][~Renders(node) => UNCHANGED tex]_<<node, filevars>>

=============================================================================
