------------------------------ MODULE NobBuild ------------------------------
(***************************************************************************)
(* Incremental builds with lib/nob.lua on POSIX.  A build script asks      *)
(* needs_rebuild about each object, with the files that get_c_dependencies *)
(* names for it, appends a command for those that are out of date, calls   *)
(* wait_all, and then does the same for the program, which is made from    *)
(* the objects, with Cmd:run.  An error ends the script.  It is run again  *)
(* and again, while its user edits and deletes files and a clock that does *)
(* not move between any two events stamps what is written.                 *)
(*                                                                         *)
(* The job manager is that of NobProcs; a command is named by its target.  *)
(* Processes that a failed script has left behind go on and write their    *)
(* target when they end.                                                   *)
(***************************************************************************)
EXTENDS NobProcs

CONSTANTS
  Objects,   \* the objects, in the order the script tests them
  Program,   \* what is made from them
  Sources,   \* the files that are edited
  Inputs,    \* the files each target is made from, its source first
  MaxTime,   \* bound on the clock
  MaxEdits,  \* bound on the files edited or removed
  MaxRuns    \* bound on the runs of the script

ASSUME TargetsAssumption ==
  Objects \in Seq(Cmds) /\ Program \in Cmds /\ Cmds = ToSet(Objects) \cup {Program}
ASSUME InputsAssumption ==
  /\ Sources \cap Cmds = {}
  /\ Inputs \in [Cmds -> Seq(Sources \cup Cmds)]
  /\ \A t \in Cmds : t \notin ToSet(Inputs[t])
ASSUME BoundsAssumption == MaxTime \in Nat \ {0} /\ MaxEdits \in Nat /\ MaxRuns \in Nat

VARIABLES
  now,     \* the clock
  mtime,   \* the modification time of each file, 0 if there is none
  text,    \* what is in it: an edition, or what the inputs of a target held
  read,    \* what the process that makes a target has read
  orphans, \* processes of earlier runs
  todo,    \* the objects the script has not tested
  step,    \* what the script is doing
  trouble, \* what has disturbed this run: "none", a kill or an incomplete list
           \* that nob does not notice ("unnoticed"), an edit or a process of
           \* an earlier run ("outside")
  fooled,  \* the targets whose modification time says too much
  edits, runs

files == <<now, mtime, text, fooled>>
bvars == <<files, read, orphans, todo, step, trouble, edits, runs>>
allvars == <<vars, bvars>>

Files == Sources \cup Cmds

\* What a file holds that is not there, and a target that is half written.
Nothing == <<>>
Broken == <<0>>

\* What a process that makes t reads from its inputs.
Snapshot(t) == [i \in ToSet(Inputs[t]) |-> text[i]]

----------------------------------------------------------------------------

\* Defect: only the first source is looked at.
NeedsRebuildFirst(t, deps) ==
  IF mtime[t] = 0 THEN "yes"
  ELSE IF deps = <<>> \/ mtime[Head(deps)] <= mtime[t] THEN "no"
       ELSE IF mtime[Head(deps)] = 0 THEN "error" ELSE "yes"

\* needs_rebuild: the first of the sources that is missing raises, the first
\* that is newer than the target decides; the same time counts as up to date.
NeedsRebuild(t, deps) ==
  LET hits == {i \in DOMAIN deps : mtime[deps[i]] = 0 \/ mtime[deps[i]] > mtime[t]}
      first == CHOOSE i \in hits : \A j \in hits : i <= j
  IN  IF mtime[t] = 0 THEN "yes"
      ELSE IF hits = {} THEN "no"
      ELSE IF mtime[deps[first]] = 0 THEN "error" ELSE "yes"

\* get_c_dependencies: what the compiler prints if every input is there.  The
\* list is empty if one is not, or if the compiler is missing or killed; it is
\* the source if popen fails.
Dependencies(t) ==
  {<<>>, SubSeq(Inputs[t], 1, 1)}
    \cup (IF \A i \in ToSet(Inputs[t]) : mtime[i] # 0 THEN {Inputs[t]} ELSE {})

\* File f now holds x.  A target made from f that has the same time will pass
\* for up to date.
Store(f, x) ==
  /\ text' = [text EXCEPT ![f] = x]
  /\ mtime' = [mtime EXCEPT ![f] = now]
  /\ UNCHANGED now

Overtaken(f) == {t \in Cmds : f \in ToSet(Inputs[t]) /\ mtime[t] = now}

\* A process that has read r ends and has written target t, wholly if ok.  It
\* fools needs_rebuild if it is broken or no longer what its inputs would give.
Write(t, r, ok) ==
  /\ Store(t, IF ok THEN r ELSE Broken)
  /\ fooled' = (fooled \ {t}) \cup Overtaken(t)
                 \cup (IF ok /\ r = Snapshot(t) THEN {} ELSE {t})

\* How a process can end: it has written its target, or failed, in which case
\* the target may be left half written.
Outcome(t, r, ok) ==
  \/ ok /\ (\A i \in DOMAIN r : r[i] # Nothing) /\ Write(t, r, TRUE)
  \/ ~ok /\ Write(t, r, FALSE)
  \/ ~ok /\ UNCHANGED files

\* The processes that have just been started read their inputs.
ReadInputs ==
  read' = [t \in Cmds |-> IF child[t] = "none" /\ child'[t] = "running"
                          THEN Snapshot(t) ELSE read[t]]

----------------------------------------------------------------------------

Unnoticed == IF trouble = "none" THEN "unnoticed" ELSE trouble

BuildInit ==
  /\ Init
  /\ now = 1
  /\ mtime = [f \in Files |-> IF f \in Sources THEN 1 ELSE 0]
  /\ text = [f \in Files |-> IF f \in Sources THEN <<1>> ELSE Nothing]
  /\ read = [t \in Cmds |-> Nothing]
  /\ orphans = {}
  /\ todo = Objects
  /\ step = "test"
  /\ trouble = "none"
  /\ fooled = {}
  /\ edits = 0 /\ runs = 1

\* The script may begin with nob.rm of a target.
Rm(t) ==
  /\ step = "test" /\ todo = Objects /\ pc = "script"
  /\ edits < MaxEdits /\ mtime[t] # 0
  /\ edits' = edits + 1
  /\ text' = [text EXCEPT ![t] = Nothing]
  /\ mtime' = [mtime EXCEPT ![t] = 0]
  /\ fooled' = fooled \ {t}
  /\ UNCHANGED <<vars, now, read, orphans, todo, step, trouble, runs>>

\* needs_rebuild(o, get_c_dependencies(...)) for the next object, and append.
\* A list that is not that of the inputs is trouble.
TestObject ==
  /\ step = "test" /\ todo # <<>>
  /\ \E deps \in Dependencies(Head(todo)) :
       LET answer == NeedsRebuild(Head(todo), deps)
       IN  /\ trouble' = IF deps = Inputs[Head(todo)] THEN trouble ELSE Unnoticed
           /\ step' = IF answer = "error" THEN "failed" ELSE step
           /\ IF answer = "yes" THEN AppendCmd(Head(todo)) ELSE UNCHANGED vars
  /\ todo' = Tail(todo)
  /\ UNCHANGED <<files, read, orphans, edits, runs>>

\* All objects have been tested: wait_all is called.
Build ==
  /\ step = "test" /\ todo = <<>>
  /\ WaitAll
  /\ step' = "build"
  /\ UNCHANGED <<files, read, orphans, todo, trouble, edits, runs>>

\* One step of wait_all or of Cmd:run, which returns to the script or ends it.
InCall ==
  /\ step \in {"build", "link"} /\ pc # "script"
  /\ CallStep
  /\ ReadInputs
  /\ step' = IF pc' # "script" THEN step
             ELSE IF raised' # "none" THEN "failed"
             ELSE IF step = "build" THEN "link" ELSE "done"
  /\ UNCHANGED <<files, orphans, todo, trouble, edits, runs>>

\* The program: needs_rebuild(program, objects), then Cmd:run.
TestProgram ==
  /\ step = "link" /\ pc = "script"
  /\ LET answer == NeedsRebuild(Program, Inputs[Program])
     IN  \/ answer = "yes" /\ Run(Program) /\ UNCHANGED step
         \/ answer = "yes" /\ RunForkFails /\ step' = "failed"
         \/ answer = "no" /\ step' = "done" /\ UNCHANGED vars
         \/ answer = "error" /\ step' = "failed" /\ UNCHANGED vars
  /\ ReadInputs
  /\ UNCHANGED <<files, orphans, todo, trouble, edits, runs>>

\* A process of this run ends.  One that was killed passes for a success, and
\* the script goes on without its target.
ProcessEnds(t) ==
  /\ End(t)
  /\ Outcome(t, read[t], status'[t] = 0)
  /\ read' = [read EXCEPT ![t] = Nothing]
  /\ trouble' = IF status'[t] # 0 /\ ExitCode(status'[t]) = 0 THEN Unnoticed ELSE trouble
  /\ UNCHANGED <<orphans, todo, step, edits, runs>>

\* A process of an earlier run ends.
OrphanEnds(p) ==
  /\ p \in orphans
  /\ orphans' = orphans \ {p}
  /\ \E ok \in BOOLEAN : Outcome(p.target, p.read, ok)
  /\ UNCHANGED <<vars, read, todo, step, trouble, edits, runs>>

\* The script is run again, by a new process of tmg.  What the last one left
\* behind goes on.
RunAgain ==
  /\ step \in {"done", "failed"} /\ runs < MaxRuns
  /\ runs' = runs + 1
  /\ orphans' = orphans \cup {[target |-> t, read |-> read[t]] :
                                t \in {c \in Cmds : child[c] = "running"}}
  /\ queue' = <<>> /\ active' = <<>> /\ waiting' = {}
  /\ pc' = "script" /\ raised' = "none"
  /\ child' = [c \in Cmds |-> "none"]
  /\ status' = [c \in Cmds |-> 0]
  /\ appended' = <<>> /\ taken' = <<>>
  /\ read' = [t \in Cmds |-> Nothing]
  /\ todo' = Objects
  /\ step' = "test"
  /\ trouble' = IF orphans' = {} THEN "none" ELSE "outside"
  /\ UNCHANGED <<max_jobs, files, edits>>

\* The user saves a new edition of a source, or deletes it.
Edit(f) ==
  /\ edits < MaxEdits
  /\ edits' = edits + 1
  /\ Store(f, <<edits + 2>>)
  /\ fooled' = fooled \cup Overtaken(f)
  /\ trouble' = "outside"
  /\ UNCHANGED <<vars, read, orphans, todo, step, runs>>

Delete(f) ==
  /\ edits < MaxEdits /\ mtime[f] # 0
  /\ edits' = edits + 1
  /\ text' = [text EXCEPT ![f] = Nothing]
  /\ mtime' = [mtime EXCEPT ![f] = 0]
  /\ trouble' = "outside"
  /\ UNCHANGED <<vars, now, fooled, read, orphans, todo, step, runs>>

Tick ==
  /\ now < MaxTime
  /\ now' = now + 1
  /\ UNCHANGED <<vars, mtime, text, fooled, read, orphans, todo, step, trouble, edits, runs>>

BuildNext ==
  \/ TestObject \/ Build \/ InCall \/ TestProgram \/ RunAgain
  \/ \E t \in Cmds : Rm(t) \/ ProcessEnds(t)
  \/ \E p \in orphans : OrphanEnds(p)
  \/ \E f \in Sources : Edit(f) \/ Delete(f)
  \/ Tick

BuildSpec == BuildInit /\ [][BuildNext]_allvars

----------------------------------------------------------------------------

\* A target holds what its inputs hold now.
Current(t) == \A i \in ToSet(Inputs[t]) : text[t][i] = text[i]

\* Types, and no file is stamped with a time that has not come.
BuildTypeOK ==
  /\ TypeOK
  /\ now \in 1 .. MaxTime
  /\ mtime \in [Files -> 0 .. now]
  /\ step \in {"test", "build", "link", "done", "failed"}
  /\ fooled \in SUBSET Cmds
  /\ trouble \in {"none", "unnoticed", "outside"}

\* needs_rebuild never answers no for a target that is out of date, through
\* any number of builds that fail, are killed or overtake each other (nob.lua
\* 134-147), unless the target was left half written or made from inputs that
\* were edited meanwhile, or an input was saved at the very time that the
\* target has.
SkippedIsFresh ==
  \A t \in Cmds \ fooled : NeedsRebuild(t, Inputs[t]) = "no" => Current(t)

\* A run of the script that ends without an error leaves every target there,
\* made from the present sources, and nothing to do for the next run (nob.lua
\* 134, 335, 290), whatever earlier runs have left, if nothing was edited or
\* killed during it, every list was complete, no process of another run was
\* about, and no target is one that was fooled.
DoneMeansCurrent ==
  step = "done" /\ trouble = "none" /\ fooled = {} =>
    \A t \in Cmds : NeedsRebuild(t, Inputs[t]) = "no" /\ Current(t)

\* The script whose objects are made from sources alone.
PlainInputs ==
  /\ Program \notin ToSet(Objects)
  /\ \A o \in ToSet(Objects) : ToSet(Inputs[o]) \subseteq Sources

----------------------------------------------------------------------------

\* nob.lua:328-329 has a command that fails raise an error, and 141-143 a
\* source that does not exist: a run without an error should leave no target
\* missing or out of date.  A killed command passes for a success, and a
\* source that is not there, or a compiler that is not, makes the list of
\* get_c_dependencies empty.
SuccessMeansCurrent ==
  step = "done" /\ trouble # "outside" /\ fooled = {} =>
    \A t \in Cmds : NeedsRebuild(t, Inputs[t]) = "no"
=============================================================================
