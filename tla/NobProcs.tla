------------------------------ MODULE NobProcs ------------------------------
(***************************************************************************)
(* The job manager of lib/nob.lua on POSIX: a build script fills a queue   *)
(* of commands (nob.procs, Procs:append) and Procs:wait_all runs them, at  *)
(* most max_jobs at a time; Cmd:run runs a single one.  The script is one  *)
(* thread that blocks in waitpid; the child processes end on their own, in *)
(* any order, by exiting or by a signal.  An error that is raised may be   *)
(* caught with pcall and wait_all called again.                            *)
(*                                                                         *)
(* A command stands for one append or one run: each is started at most     *)
(* once by the script.                                                     *)
(***************************************************************************)
EXTENDS Integers, Sequences, FiniteSets, SequencesExt

CONSTANTS
  Cmds,      \* the commands
  MaxJobs,   \* values of max_jobs
  Statuses   \* how a child ends: the status that waitpid stores

ASSUME CmdsAssumption == IsFiniteSet(Cmds)
ASSUME MaxJobsAssumption == MaxJobs \subseteq Nat
ASSUME StatusesAssumption == Statuses \subseteq Nat /\ 0 \in Statuses

VARIABLES
  max_jobs, \* self.max_jobs
  queue,    \* self.queue
  active,   \* self.active
  waiting,  \* the commands whose process wait_proc waits for: none or one
  pc,       \* where the script is: "script", "wait_all", "run", or
            \* "spin" in a wait_all that goes round for ever
  raised,   \* the error that the last call ended with
  child,    \* the process of a command: "none", "running", "ended", "reaped"
  status,   \* with what status it ended
  appended, \* the commands given to append, in order
  taken     \* those that wait_all has taken from the queue, in order

vars == <<max_jobs, queue, active, waiting, pc, raised, child, status, appended, taken>>

script == <<max_jobs, queue, active, waiting, pc, raised, appended, taken>>

----------------------------------------------------------------------------

Init ==
  /\ max_jobs \in MaxJobs
  /\ queue = <<>> /\ active = <<>> /\ waiting = {}
  /\ pc = "script"
  /\ raised = "none"
  /\ child = [c \in Cmds |-> "none"]
  /\ status = [c \in Cmds |-> 0]
  /\ appended = <<>> /\ taken = <<>>

\* The commands the script has not used yet.
Fresh == {c \in Cmds : child[c] = "none"} \ ToSet(appended)

\* Procs:append.
AppendCmd(c) ==
  /\ pc = "script" /\ c \in Fresh
  /\ queue' = Append(queue, c)
  /\ appended' = Append(appended, c)
  /\ UNCHANGED <<max_jobs, active, waiting, pc, raised, child, status, taken>>

\* A command of Cmd:run whose fork fails: run_async raises.
RunForkFails ==
  /\ pc = "script" /\ Fresh # {}
  /\ raised' = "fork failed"
  /\ UNCHANGED <<max_jobs, queue, active, waiting, pc, child, status, appended, taken>>

\* The call of Procs:wait_all.
WaitAll ==
  /\ pc = "script"
  /\ pc' = "wait_all"
  /\ raised' = "none"
  /\ UNCHANGED <<max_jobs, queue, active, waiting, child, status, appended, taken>>

\* Cmd:run: starts the process and goes on to wait for it.
Run(c) ==
  /\ pc = "script" /\ c \in Fresh
  /\ child' = [child EXCEPT ![c] = "running"]
  /\ waiting' = {c}
  /\ pc' = "run"
  /\ raised' = "none"
  /\ UNCHANGED <<max_jobs, queue, active, status, appended, taken>>

\* Defects of that test: off by one, either way.
SlotFreeTooMany == Len(active) <= max_jobs
SlotFreeTooFew == Len(active) + 1 < max_jobs

\* The test of the inner loop of wait_all.
SlotFree == Len(active) < max_jobs

Looping == pc = "wait_all" /\ waiting = {}

\* Defect: the newest command is taken, as table.remove does by default.
StartNewest ==
  /\ Looping /\ SlotFree /\ queue # <<>>
  /\ queue' = Front(queue)
  /\ taken' = Append(taken, Last(queue))
  /\ child' = [child EXCEPT ![Last(queue)] = "running"]
  /\ active' = Append(active, Last(queue))
  /\ UNCHANGED <<max_jobs, waiting, pc, raised, status, appended>>

\* A command is taken from the queue and its process starts.
StartNext ==
  /\ Looping /\ SlotFree /\ queue # <<>>
  /\ queue' = Tail(queue)
  /\ taken' = Append(taken, Head(queue))
  /\ child' = [child EXCEPT ![Head(queue)] = "running"]
  /\ active' = Append(active, Head(queue))
  /\ UNCHANGED <<max_jobs, waiting, pc, raised, status, appended>>

\* fork fails after the command has left the queue: run_async raises.
ForkFails ==
  /\ Looping /\ SlotFree /\ queue # <<>>
  /\ queue' = Tail(queue)
  /\ taken' = Append(taken, Head(queue))
  /\ pc' = "script"
  /\ raised' = "fork failed"
  /\ UNCHANGED <<max_jobs, active, waiting, child, status, appended>>

\* Defect: the oldest process is looked at and not removed.
WaitOldestKept ==
  /\ Looping /\ ~(SlotFree /\ queue # <<>>)
  /\ active # <<>>
  /\ waiting' = {Head(active)}
  /\ UNCHANGED <<max_jobs, queue, active, pc, raised, child, status, appended, taken>>

\* The slots are full or the queue is empty: the oldest process leaves
\* `active' and is waited for.
WaitOldest ==
  /\ Looping /\ ~(SlotFree /\ queue # <<>>)
  /\ active # <<>>
  /\ waiting' = {Head(active)}
  /\ active' = Tail(active)
  /\ UNCHANGED <<max_jobs, queue, pc, raised, child, status, appended, taken>>

\* Defect: the outer loop ends when the queue is empty.
QueueDone ==
  /\ Looping
  /\ queue = <<>>
  /\ pc' = "script"
  /\ UNCHANGED <<max_jobs, queue, active, waiting, raised, child, status, appended, taken>>

\* There is a command to start, no slot for it and no process to wait for: the
\* outer loop goes round without doing anything, and nothing can change that.
Spin ==
  /\ Looping /\ ~SlotFree
  /\ queue # <<>> /\ active = <<>>
  /\ pc' = "spin"
  /\ UNCHANGED <<max_jobs, queue, active, waiting, raised, child, status, appended, taken>>

\* The outer loop ends: wait_all returns.
AllDone ==
  /\ Looping
  /\ queue = <<>> /\ active = <<>>
  /\ pc' = "script"
  /\ UNCHANGED <<max_jobs, queue, active, waiting, raised, child, status, appended, taken>>

\* What wait_proc makes of a status: bits 8 to 15.
ExitCode(s) == (s % 65536) \div 256

\* Defect: the status is replaced by the exit code.
ReapDecoded(c) ==
  /\ c \in waiting /\ child[c] = "ended"
  /\ child' = [child EXCEPT ![c] = "reaped"]
  /\ waiting' = {}
  /\ status' = [status EXCEPT ![c] = ExitCode(@)]
  /\ raised' = IF status'[c] # 0 THEN "attempt to index a number" ELSE "none"
  /\ pc' = IF status'[c] # 0 \/ pc = "run" THEN "script" ELSE pc
  /\ UNCHANGED <<max_jobs, queue, active, appended, taken>>

\* waitpid returns for a process that has ended.  A nonzero exit code raises,
\* not with the message that was meant: an argument of string.format indexes
\* the number exit_code.
Reap(c) ==
  /\ c \in waiting /\ child[c] = "ended"
  /\ child' = [child EXCEPT ![c] = "reaped"]
  /\ waiting' = {}
  /\ raised' = IF ExitCode(status[c]) # 0 THEN "attempt to index a number" ELSE "none"
  /\ pc' = IF ExitCode(status[c]) # 0 \/ pc = "run" THEN "script" ELSE pc
  /\ UNCHANGED <<max_jobs, queue, active, status, appended, taken>>

\* A child process exits, is killed, or cannot exec and exits with 127.
End(c) ==
  /\ child[c] = "running"
  /\ child' = [child EXCEPT ![c] = "ended"]
  /\ \E s \in Statuses : status' = [status EXCEPT ![c] = s]
  /\ UNCHANGED script

\* One step inside a call.
CallStep ==
  \/ StartNext \/ ForkFails \/ WaitOldest \/ Spin \/ AllDone
  \/ \E c \in Cmds : Reap(c)

Next ==
  \/ WaitAll \/ RunForkFails
  \/ \E c \in Cmds : AppendCmd(c) \/ Run(c) \/ End(c)
  \/ CallStep

Spec == Init /\ [][Next]_vars

\* The interpreter keeps running a call it is in, and every command ends: a
\* script that waits for one that does not end is right to wait.
FairSpec == Spec /\ WF_vars(CallStep) /\ \A c \in Cmds : WF_vars(End(c))

----------------------------------------------------------------------------

\* Types of the variables.
TypeOK ==
  /\ max_jobs \in Nat
  /\ queue \in Seq(Cmds) /\ active \in Seq(Cmds)
  /\ waiting \in SUBSET Cmds
  /\ pc \in {"script", "wait_all", "run", "spin"}
  /\ raised \in {"none", "fork failed", "attempt to index a number"}
  /\ child \in [Cmds -> {"none", "running", "ended", "reaped"}]
  /\ status \in [Cmds -> Statuses]
  /\ appended \in Seq(Cmds) /\ taken \in Seq(Cmds)

\* The children that nobody has waited for.
Children == {c \in Cmds : child[c] \in {"running", "ended"}}

\* wait_all never has more than max_jobs processes at a time (nob.lua 338),
\* not even in a call after one that raised and left processes behind; a
\* command of Cmd:run comes on top of those.
JobLimit == Cardinality(Children \cap ToSet(appended)) <= max_jobs

\* No child is forgotten: whatever was raised in between, each one that
\* exists is in `active' or being waited for, and only once (nob.lua 341, 346).
ChildrenKnown ==
  /\ Children = ToSet(active) \cup waiting
  /\ IsInjective(active)
  /\ waiting \cap ToSet(active) = {}

\* Commands leave the queue in the order they were appended; none is skipped
\* or taken twice (nob.lua 311, 339).
TakenInOrder == appended = taken \o queue

\* A command is lost to a failed fork: taken and never started.
Lost == {c \in ToSet(taken) : child[c] = "none"}

\* When wait_all returns without raising, every command ever appended has
\* been run and waited for, but for those whose fork failed in an earlier
\* call, which reported it (nob.lua 336, 345).
ReturnMeansDone ==
  [][pc = "wait_all" /\ pc' = "script" /\ raised' = "none" =>
       \A c \in ToSet(appended) \ Lost' : child'[c] = "reaped"]_vars

\* What is left to do: each command in the queue is started, ends, leaves
\* `active' and is waited for; then the call returns.
WorkLeft ==
  4 * Len(queue) + 2 * Len(active) + Cardinality(waiting)
    + Cardinality({c \in Cmds : child[c] = "running"}) + (IF pc = "script" THEN 0 ELSE 1)

\* The safety side of CallsEnd, first: in a call, whatever the script or a
\* process does leaves less to do, however they take turns, so that a call has
\* a bounded number of steps before it returns, or spins, which it does only
\* if there is no slot at all (nob.lua 335-350).
CallsAdvance ==
  [][pc # "script" => WorkLeft' < WorkLeft \/ (max_jobs = 0 /\ pc' = "spin")]_vars

\* Second: in a call with at least one slot there is always a step to take, and
\* not that into spinning.  The script waits for no process that is not there
\* or was waited for before, whose waitpid would not return, and the outer loop
\* does not go round without taking a command or a process (nob.lua 336-348).
NeverStuck ==
  max_jobs > 0 =>
    \/ pc = "script"
    \/ pc = "wait_all" /\ waiting = {} /\ (queue = <<>> \/ SlotFree \/ active # <<>>)
    \/ \E c \in Cmds : waiting = {c} /\ child[c] \in {"running", "ended"}

\* Every call of wait_all with at least one slot, and every Cmd:run, ends.  With
\* none, a call whose queue is not empty spins.
CallsEnd == max_jobs > 0 => [](pc # "script" => <>(pc = "script"))

=============================================================================
