------------------------------ MODULE NobProofs ------------------------------
(***************************************************************************)
(* Proofs about NobProcs, the job manager, and NobBuild, build scripts     *)
(* that use it, for any number of commands, slots, sources, edits and      *)
(* runs, and any time.                                                     *)
(*                                                                         *)
(* JobLimit and ChildrenKnown are not inductive by themselves: that a      *)
(* process is started for a command with none, and that the slots count    *)
(* all of them, takes the invariants Placed, which says where a command    *)
(* that was appended is, and Waits, which says what the script waits for   *)
(* in each call.                                                           *)
(*                                                                         *)
(* Two facts make SkippedIsFresh inductive: no file is stamped with a time *)
(* that has not come, and a target that nothing has fooled differs from    *)
(* its inputs only where an input is newer or gone.                        *)
(***************************************************************************)
EXTENDS NobBuild, FiniteSetTheorems, TLAPS

(* Sequences and their elements.                                           *)

LEMMA ElemsIn ==
  ASSUME NEW S, NEW s \in Seq(S)
  PROVE  ToSet(s) \subseteq S /\ Len(s) \in Nat
<1>1. DOMAIN s = 1 .. Len(s) /\ Len(s) \in Nat /\ \A i \in 1 .. Len(s) : s[i] \in S
  OBVIOUS
<1>. QED
  BY <1>1 DEF ToSet

LEMMA ElemsAppend ==
  ASSUME NEW S, NEW s \in Seq(S), NEW x \in S
  PROVE  Append(s, x) \in Seq(S) /\ ToSet(Append(s, x)) = ToSet(s) \cup {x}
<1>1. /\ Len(s) \in Nat /\ Len(Append(s, x)) = Len(s) + 1
      /\ DOMAIN s = 1 .. Len(s) /\ DOMAIN Append(s, x) = 1 .. Len(s) + 1
      /\ Append(s, x)[Len(s) + 1] = x
      /\ \A i \in 1 .. Len(s) : Append(s, x)[i] = s[i]
  OBVIOUS
<1>2. \A i \in 1 .. Len(s) + 1 : i = Len(s) + 1 \/ i \in 1 .. Len(s)
  BY <1>1
<1>3. Len(s) + 1 \in 1 .. Len(s) + 1 /\ 1 .. Len(s) \subseteq 1 .. Len(s) + 1
  BY <1>1
<1>4. \A y \in ToSet(Append(s, x)) : y \in ToSet(s) \cup {x}
  BY <1>1, <1>2 DEF ToSet
<1>5. \A y \in ToSet(s) \cup {x} : y \in ToSet(Append(s, x))
  BY <1>1, <1>3 DEF ToSet
<1>. QED
  BY <1>4, <1>5

LEMMA ElemsConcat ==
  ASSUME NEW S, NEW s \in Seq(S), NEW t \in Seq(S)
  PROVE  ToSet(s \o t) = ToSet(s) \cup ToSet(t)
<1>1. /\ Len(s) \in Nat /\ Len(t) \in Nat
      /\ DOMAIN s = 1 .. Len(s) /\ DOMAIN t = 1 .. Len(t)
      /\ DOMAIN (s \o t) = 1 .. Len(s) + Len(t)
      /\ \A i \in 1 .. Len(s) : (s \o t)[i] = s[i]
      /\ \A i \in 1 .. Len(t) : (s \o t)[Len(s) + i] = t[i]
  OBVIOUS
<1>2. \A i \in 1 .. Len(s) + Len(t) : i \in 1 .. Len(s) \/ (i - Len(s) \in 1 .. Len(t)
                                        /\ i = Len(s) + (i - Len(s)))
  BY <1>1
<1>3. /\ \A i \in 1 .. Len(s) : i \in 1 .. Len(s) + Len(t)
      /\ \A i \in 1 .. Len(t) : Len(s) + i \in 1 .. Len(s) + Len(t)
  BY <1>1
<1>4. \A y \in ToSet(s \o t) : y \in ToSet(s) \cup ToSet(t)
  BY <1>1, <1>2 DEF ToSet
<1>5. \A y \in ToSet(s) \cup ToSet(t) : y \in ToSet(s \o t)
  BY <1>1, <1>3 DEF ToSet
<1>. QED
  BY <1>4, <1>5

LEMMA ElemsTail ==
  ASSUME NEW S, NEW s \in Seq(S), s # <<>>
  PROVE  /\ Head(s) \in S /\ Tail(s) \in Seq(S)
         /\ Len(Tail(s)) = Len(s) - 1
         /\ ToSet(s) = {Head(s)} \cup ToSet(Tail(s))
<1>1. /\ Len(s) \in Nat \ {0} /\ Len(Tail(s)) = Len(s) - 1
      /\ DOMAIN s = 1 .. Len(s) /\ DOMAIN Tail(s) = 1 .. Len(s) - 1
      /\ Head(s) = s[1]
      /\ \A i \in 1 .. Len(s) - 1 : Tail(s)[i] = s[i + 1]
      /\ Tail(s) \in Seq(S)
  OBVIOUS
<1>2. \A i \in 1 .. Len(s) :
        i = 1 \/ (i - 1 \in 1 .. Len(s) - 1 /\ s[i] = Tail(s)[i - 1])
  BY <1>1
<1>3. 1 \in 1 .. Len(s) /\ \A i \in 1 .. Len(s) - 1 : i + 1 \in 1 .. Len(s)
  BY <1>1
<1>4. \A y \in ToSet(s) : y \in {Head(s)} \cup ToSet(Tail(s))
  BY <1>1, <1>2 DEF ToSet
<1>5. \A y \in {Head(s)} \cup ToSet(Tail(s)) : y \in ToSet(s)
  BY <1>1, <1>3 DEF ToSet
<1>. QED
  BY <1>1, <1>4, <1>5

LEMMA InjectiveAppend ==
  ASSUME NEW S, NEW s \in Seq(S), NEW x \in S, IsInjective(s), x \notin ToSet(s)
  PROVE  IsInjective(Append(s, x))
<1>1. /\ Len(s) \in Nat
      /\ DOMAIN s = 1 .. Len(s) /\ DOMAIN Append(s, x) = 1 .. Len(s) + 1
      /\ Append(s, x)[Len(s) + 1] = x
      /\ \A i \in 1 .. Len(s) : Append(s, x)[i] = s[i]
  OBVIOUS
<1>2. \A i \in 1 .. Len(s) : s[i] # x
  BY <1>1 DEF ToSet
<1>3. \A i, j \in 1 .. Len(s) : s[i] = s[j] => i = j
  BY <1>1 DEF IsInjective
<1>4. \A i \in 1 .. Len(s) + 1 : i = Len(s) + 1 \/ i \in 1 .. Len(s)
  BY <1>1
<1>. QED
  BY <1>1, <1>2, <1>3, <1>4 DEF IsInjective

LEMMA InjectiveTail ==
  ASSUME NEW S, NEW s \in Seq(S), s # <<>>, IsInjective(s)
  PROVE  IsInjective(Tail(s)) /\ Head(s) \notin ToSet(Tail(s))
<1>1. /\ Len(s) \in Nat \ {0}
      /\ DOMAIN s = 1 .. Len(s) /\ DOMAIN Tail(s) = 1 .. Len(s) - 1
      /\ Head(s) = s[1]
      /\ \A i \in 1 .. Len(s) - 1 : Tail(s)[i] = s[i + 1]
  OBVIOUS
<1>2. \A i, j \in 1 .. Len(s) : s[i] = s[j] => i = j
  BY <1>1 DEF IsInjective
<1>3. \A i \in 1 .. Len(s) - 1 : s[i + 1] # s[1]
  BY <1>1, <1>2
<1>4. \A i, j \in 1 .. Len(s) - 1 : s[i + 1] = s[j + 1] => i = j
  BY <1>1, <1>2
<1>. QED
  BY <1>1, <1>3, <1>4 DEF IsInjective, ToSet

LEMMA DisjointConcat ==
  ASSUME NEW S, NEW s \in Seq(S), NEW t \in Seq(S), IsInjective(s \o t)
  PROVE  IsInjective(t) /\ ToSet(s) \cap ToSet(t) = {}
<1>1. /\ Len(s) \in Nat /\ Len(t) \in Nat
      /\ DOMAIN s = 1 .. Len(s) /\ DOMAIN t = 1 .. Len(t)
      /\ DOMAIN (s \o t) = 1 .. Len(s) + Len(t)
      /\ \A i \in 1 .. Len(s) : (s \o t)[i] = s[i]
      /\ \A i \in 1 .. Len(t) : (s \o t)[Len(s) + i] = t[i]
  OBVIOUS
<1>2. \A i, j \in 1 .. Len(s) + Len(t) : (s \o t)[i] = (s \o t)[j] => i = j
  BY <1>1 DEF IsInjective
<1>3. /\ \A i \in 1 .. Len(s) : i \in 1 .. Len(s) + Len(t)
      /\ \A i \in 1 .. Len(t) : Len(s) + i \in 1 .. Len(s) + Len(t)
  BY <1>1
<1>4. \A i \in 1 .. Len(s), j \in 1 .. Len(t) : s[i] # t[j]
  <2>. SUFFICES ASSUME NEW i \in 1 .. Len(s), NEW j \in 1 .. Len(t), s[i] = t[j]
                PROVE  FALSE
    OBVIOUS
  <2>1. i = Len(s) + j
    BY <1>1, <1>2, <1>3
  <2>. QED
    BY <2>1, <1>1
<1>5. \A i, j \in 1 .. Len(t) : t[i] = t[j] => i = j
  <2>. SUFFICES ASSUME NEW i \in 1 .. Len(t), NEW j \in 1 .. Len(t), t[i] = t[j]
                PROVE  i = j
    OBVIOUS
  <2>1. Len(s) + i = Len(s) + j
    BY <1>1, <1>2, <1>3
  <2>. QED
    BY <2>1, <1>1
<1>. QED
  BY <1>1, <1>4, <1>5 DEF IsInjective, ToSet

LEMMA MoveHead ==
  ASSUME NEW S, NEW s \in Seq(S), NEW t \in Seq(S), t # <<>>
  PROVE  Append(s, Head(t)) \o Tail(t) = s \o t
OBVIOUS

LEMMA AppendConcat ==
  ASSUME NEW s \in Seq(Cmds), NEW t \in Seq(Cmds), NEW x \in Cmds
  PROVE  Append(s \o t, x) = s \o Append(t, x)
OBVIOUS

LEMMA ElemsCount ==
  ASSUME NEW S, NEW s \in Seq(S)
  PROVE  IsFiniteSet(ToSet(s)) /\ Cardinality(ToSet(s)) <= Len(s)
<1>1. Len(s) \in Nat /\ DOMAIN s = 1 .. Len(s)
  OBVIOUS
<1>2. IsFiniteSet(1 .. Len(s)) /\ Cardinality(1 .. Len(s)) = Len(s)
  BY <1>1, FS_Interval
<1>3. s \in Surjection(1 .. Len(s), ToSet(s))
  BY <1>1 DEF Surjection, ToSet
<1>. QED
  BY <1>2, <1>3, FS_Surjection

----------------------------------------------------------------------------
(* The invariant.                                                          *)

\* What was appended and not taken is in the queue, without a process; what
\* is in `active' was taken; no command is anywhere twice.
Placed ==
  /\ TakenInOrder
  /\ IsInjective(appended)
  /\ \A c \in ToSet(queue) : child[c] = "none"
  /\ ToSet(active) \subseteq ToSet(taken)

\* What the script waits for, and the slots that are taken.
Waits ==
  /\ pc = "script" => waiting = {}
  /\ pc = "run" => \E c \in Cmds : waiting = {c} /\ c \notin ToSet(appended)
  /\ pc = "wait_all" => waiting = {} \/ \E c \in ToSet(taken) : waiting = {c}
  /\ pc = "spin" => waiting = {} /\ max_jobs = 0
  /\ Len(active) <= max_jobs
  /\ pc = "wait_all" /\ waiting # {} => Len(active) + 1 <= max_jobs

IInv == TypeOK /\ Placed /\ Waits /\ ChildrenKnown

LEMMA InitIInv == Init => IInv
<1>. SUFFICES ASSUME Init PROVE IInv
  OBVIOUS
<1>1. TypeOK
  BY MaxJobsAssumption, StatusesAssumption DEF Init, TypeOK
<1>2. ToSet(<<>>) = {} /\ IsInjective(<<>>) /\ <<>> \o <<>> = <<>> /\ Len(<<>>) = 0
  BY DEF ToSet, IsInjective
<1>3. Placed
  BY <1>2 DEF Init, Placed, TakenInOrder
<1>4. Waits
  BY <1>1, <1>2 DEF Init, Waits, TypeOK
<1>5. ChildrenKnown
  BY <1>2 DEF Init, ChildrenKnown, Children
<1>. QED
  BY <1>1, <1>3, <1>4, <1>5 DEF IInv

LEMMA StepType == TypeOK /\ [Next]_vars => TypeOK'
<1>. SUFFICES ASSUME TypeOK, [Next]_vars PROVE TypeOK'
  OBVIOUS
<1>. USE DEF TypeOK
<1>1. ASSUME NEW c \in Cmds, AppendCmd(c) PROVE TypeOK'
  <2>1. queue' \in Seq(Cmds) /\ appended' \in Seq(Cmds)
    BY <1>1, ElemsAppend DEF AppendCmd
  <2>2. UNCHANGED <<max_jobs, active, waiting, pc, raised, child, status, taken>>
    BY <1>1 DEF AppendCmd
  <2>. QED
    BY <2>1, <2>2
<1>2. CASE RunForkFails
  BY <1>2 DEF RunForkFails
<1>3. CASE WaitAll
  BY <1>3 DEF WaitAll
<1>4. ASSUME NEW c \in Cmds, Run(c) PROVE TypeOK'
  BY <1>4 DEF Run
<1>5. CASE StartNext
  <2>1. Head(queue) \in Cmds /\ Tail(queue) \in Seq(Cmds)
    BY <1>5, ElemsTail DEF StartNext
  <2>2. /\ Append(taken, Head(queue)) \in Seq(Cmds)
        /\ Append(active, Head(queue)) \in Seq(Cmds)
    BY <2>1, ElemsAppend
  <2>3. /\ queue' = Tail(queue) /\ taken' = Append(taken, Head(queue))
        /\ active' = Append(active, Head(queue))
        /\ child' = [child EXCEPT ![Head(queue)] = "running"]
        /\ UNCHANGED <<max_jobs, waiting, pc, raised, status, appended>>
    BY <1>5 DEF StartNext
  <2>. QED
    BY <2>1, <2>2, <2>3
<1>6. CASE ForkFails
  <2>1. Head(queue) \in Cmds /\ Tail(queue) \in Seq(Cmds)
    BY <1>6, ElemsTail DEF ForkFails
  <2>2. Append(taken, Head(queue)) \in Seq(Cmds)
    BY <2>1, ElemsAppend
  <2>3. /\ queue' = Tail(queue) /\ taken' = Append(taken, Head(queue))
        /\ pc' = "script" /\ raised' = "fork failed"
        /\ UNCHANGED <<max_jobs, active, waiting, child, status, appended>>
    BY <1>6 DEF ForkFails
  <2>. QED
    BY <2>1, <2>2, <2>3
<1>7. CASE WaitOldest
  <2>1. Head(active) \in Cmds /\ Tail(active) \in Seq(Cmds)
    BY <1>7, ElemsTail DEF WaitOldest
  <2>. QED
    BY <1>7, <2>1 DEF WaitOldest
<1>8. CASE AllDone \/ Spin
  BY <1>8 DEF AllDone, Spin
<1>9. ASSUME NEW c \in Cmds, Reap(c) PROVE TypeOK'
  BY <1>9 DEF Reap
<1>10. ASSUME NEW c \in Cmds, End(c) PROVE TypeOK'
  BY <1>10 DEF End, script
<1>11. CASE UNCHANGED vars
  BY <1>11 DEF vars
<1>. QED
  BY <1>1, <1>2, <1>3, <1>4, <1>5, <1>6, <1>7, <1>8, <1>9, <1>10, <1>11
     DEF Next, CallStep

\* The head of the queue becomes a process, or is lost.
LEMMA QueueHead ==
  ASSUME IInv, queue # <<>>
  PROVE  /\ Head(queue) \in Cmds /\ Tail(queue) \in Seq(Cmds)
         /\ child[Head(queue)] = "none"
         /\ Head(queue) \notin ToSet(active) \cup waiting
         /\ Append(taken, Head(queue)) \o Tail(queue) = appended
         /\ \A c \in ToSet(Tail(queue)) : child[c] = "none" /\ c # Head(queue)
         /\ ToSet(Append(taken, Head(queue))) = ToSet(taken) \cup {Head(queue)}
<1>. USE DEF IInv
<1>1. queue \in Seq(Cmds) /\ taken \in Seq(Cmds)
  BY DEF TypeOK
<1>2. /\ Head(queue) \in Cmds /\ Tail(queue) \in Seq(Cmds)
      /\ ToSet(queue) = {Head(queue)} \cup ToSet(Tail(queue))
  BY <1>1, ElemsTail
<1>3. child[Head(queue)] = "none"
  BY <1>2 DEF Placed
<1>4. Head(queue) \notin Children
  BY <1>3 DEF Children
<1>5. Append(taken, Head(queue)) \o Tail(queue) = appended
  BY <1>1, MoveHead DEF Placed, TakenInOrder
<1>6. IsInjective(taken \o queue)
  BY DEF Placed, TakenInOrder
<1>7. IsInjective(queue)
  BY <1>1, <1>6, DisjointConcat
<1>8. Head(queue) \notin ToSet(Tail(queue))
  BY <1>1, <1>7, InjectiveTail
<1>9. ToSet(Append(taken, Head(queue))) = ToSet(taken) \cup {Head(queue)}
  BY <1>1, <1>2, ElemsAppend
<1>. QED
  BY <1>2, <1>3, <1>4, <1>5, <1>8, <1>9 DEF Placed, ChildrenKnown

\* What was taken is not in the queue and was appended.
LEMMA TakenApart ==
  ASSUME IInv
  PROVE  /\ ToSet(taken) \cap ToSet(queue) = {}
         /\ ToSet(appended) = ToSet(taken) \cup ToSet(queue)
<1>1. queue \in Seq(Cmds) /\ taken \in Seq(Cmds) /\ appended = taken \o queue
  BY DEF IInv, TypeOK, Placed, TakenInOrder
<1>2. IsInjective(taken \o queue)
  BY <1>1 DEF IInv, Placed
<1>. QED
  BY <1>1, <1>2, DisjointConcat, ElemsConcat

LEMMA QueueIn == TypeOK => ToSet(queue) \subseteq Cmds
<1>1. TypeOK => queue \in Seq(Cmds)
  BY DEF TypeOK
<1>. QED
  BY <1>1, ElemsIn

LEMMA LenActive == TypeOK => active \in Seq(Cmds) /\ Len(active) \in Nat
<1>1. TypeOK => active \in Seq(Cmds)
  BY DEF TypeOK
<1>. QED
  BY <1>1, ElemsIn

\* The head of the queue is appended to `active'.
LEMMA ActiveGrows ==
  ASSUME IInv, queue # <<>>
  PROVE  /\ ToSet(Append(active, Head(queue))) = ToSet(active) \cup {Head(queue)}
         /\ IsInjective(Append(active, Head(queue)))
         /\ Len(Append(active, Head(queue))) = Len(active) + 1
<1>1. active \in Seq(Cmds) /\ IsInjective(active)
  BY DEF IInv, TypeOK, ChildrenKnown
<1>2. Head(queue) \in Cmds /\ Head(queue) \notin ToSet(active)
  BY QueueHead
<1>3. Len(Append(active, Head(queue))) = Len(active) + 1
  BY <1>1, <1>2
<1>. QED
  BY <1>1, <1>2, <1>3, ElemsAppend, InjectiveAppend

LEMMA StepPlaced == IInv /\ [Next]_vars => Placed'
<1>. SUFFICES ASSUME IInv, [Next]_vars PROVE Placed'
  OBVIOUS
<1>0. TypeOK /\ Placed
  BY DEF IInv
<1>1. ASSUME NEW c \in Cmds, AppendCmd(c) PROVE Placed'
  <2>1. c \notin ToSet(appended) /\ child[c] = "none"
    BY <1>1 DEF AppendCmd, Fresh
  <2>2. /\ queue' = Append(queue, c) /\ appended' = Append(appended, c)
        /\ taken' = taken /\ child' = child /\ active' = active
    BY <1>1 DEF AppendCmd
  <2>3. queue \in Seq(Cmds) /\ appended \in Seq(Cmds) /\ taken \in Seq(Cmds)
    BY <1>0 DEF TypeOK
  <2>4. IsInjective(appended')
    BY <1>0, <2>1, <2>2, <2>3, InjectiveAppend DEF Placed
  <2>5. ToSet(queue') = ToSet(queue) \cup {c}
    BY <2>2, <2>3, ElemsAppend
  <2>6. Append(taken \o queue, c) = taken \o Append(queue, c)
    BY <2>3, AppendConcat, Zenon
  <2>7. TakenInOrder'
    BY <1>0, <2>2, <2>6 DEF Placed, TakenInOrder
  <2>. QED
    BY <1>0, <2>1, <2>2, <2>4, <2>5, <2>7 DEF Placed
<1>2. CASE RunForkFails
  BY <1>0, <1>2 DEF RunForkFails, Placed, TakenInOrder
<1>3. CASE WaitAll
  BY <1>0, <1>3 DEF WaitAll, Placed, TakenInOrder
<1>4. ASSUME NEW c \in Cmds, Run(c) PROVE Placed'
  <2>1. c \notin ToSet(queue)
    BY <1>4, TakenApart DEF Run, Fresh
  <2>2. /\ queue' = queue /\ appended' = appended /\ taken' = taken /\ active' = active
        /\ child' = [child EXCEPT ![c] = "running"]
    BY <1>4 DEF Run
  <2>3. \A d \in ToSet(queue) : child'[d] = child[d]
    BY <1>0, <2>1, <2>2, QueueIn DEF TypeOK
  <2>. QED
    BY <1>0, <2>2, <2>3 DEF Placed, TakenInOrder
<1>5. CASE StartNext
  <2>1. /\ queue # <<>> /\ queue' = Tail(queue) /\ taken' = Append(taken, Head(queue))
        /\ child' = [child EXCEPT ![Head(queue)] = "running"]
        /\ active' = Append(active, Head(queue)) /\ appended' = appended
    BY <1>5 DEF StartNext
  <2>2. TakenInOrder'
    BY <2>1, QueueHead DEF TakenInOrder
  <2>3. ToSet(Tail(queue)) \subseteq Cmds
    BY <1>0, <2>1, QueueIn, ElemsTail DEF TypeOK
  <2>4. \A d \in ToSet(queue') : child'[d] = "none"
    BY <1>0, <2>1, <2>3, QueueHead DEF TypeOK
  <2>5. ToSet(active') = ToSet(active) \cup {Head(queue)}
    BY <2>1, ActiveGrows
  <2>. QED
    BY <1>0, <2>1, <2>2, <2>4, <2>5, QueueHead DEF Placed
<1>6. CASE ForkFails
  <2>1. /\ queue # <<>> /\ queue' = Tail(queue) /\ taken' = Append(taken, Head(queue))
        /\ child' = child /\ active' = active /\ appended' = appended
    BY <1>6 DEF ForkFails
  <2>2. TakenInOrder'
    BY <2>1, QueueHead DEF TakenInOrder
  <2>. QED
    BY <1>0, <2>1, <2>2, QueueHead DEF Placed
<1>7. CASE WaitOldest
  <2>1. ToSet(active') \subseteq ToSet(active)
    BY <1>0, <1>7, ElemsTail DEF WaitOldest, TypeOK
  <2>. QED
    BY <1>0, <1>7, <2>1 DEF WaitOldest, Placed, TakenInOrder
<1>8. CASE AllDone \/ Spin
  BY <1>0, <1>8 DEF AllDone, Spin, Placed, TakenInOrder
<1>9. ASSUME NEW c \in Cmds, Reap(c) PROVE Placed'
  <2>1. c \notin ToSet(queue)
    BY <1>0, <1>9 DEF Reap, Placed
  <2>2. /\ queue' = queue /\ appended' = appended /\ taken' = taken /\ active' = active
        /\ child' = [child EXCEPT ![c] = "reaped"]
    BY <1>9 DEF Reap
  <2>3. \A d \in ToSet(queue) : child'[d] = child[d]
    BY <1>0, <2>1, <2>2, QueueIn DEF TypeOK
  <2>. QED
    BY <1>0, <2>2, <2>3 DEF Placed, TakenInOrder
<1>10. ASSUME NEW c \in Cmds, End(c) PROVE Placed'
  <2>1. c \notin ToSet(queue)
    BY <1>0, <1>10 DEF End, Placed
  <2>2. /\ queue' = queue /\ appended' = appended /\ taken' = taken /\ active' = active
        /\ child' = [child EXCEPT ![c] = "ended"]
    BY <1>10 DEF End, script
  <2>3. \A d \in ToSet(queue) : child'[d] = child[d]
    BY <1>0, <2>1, <2>2, QueueIn DEF TypeOK
  <2>. QED
    BY <1>0, <2>2, <2>3 DEF Placed, TakenInOrder
<1>11. CASE UNCHANGED vars
  BY <1>0, <1>11 DEF vars, Placed, TakenInOrder
<1>. QED
  BY <1>1, <1>2, <1>3, <1>4, <1>5, <1>6, <1>7, <1>8, <1>9, <1>10, <1>11
     DEF Next, CallStep

LEMMA StepWaits == IInv /\ [Next]_vars => Waits'
<1>. SUFFICES ASSUME IInv, [Next]_vars PROVE Waits'
  OBVIOUS
<1>0. TypeOK /\ Waits /\ Len(active) \in Nat /\ max_jobs \in Nat
  BY LenActive DEF IInv, TypeOK
<1>1. ASSUME NEW c \in Cmds, AppendCmd(c) PROVE Waits'
  BY <1>0, <1>1 DEF AppendCmd, Waits
<1>2. CASE RunForkFails
  BY <1>0, <1>2 DEF RunForkFails, Waits
<1>3. CASE WaitAll
  BY <1>0, <1>3 DEF WaitAll, Waits
<1>4. ASSUME NEW c \in Cmds, Run(c) PROVE Waits'
  BY <1>0, <1>4 DEF Run, Waits, Fresh
<1>5. CASE StartNext
  <2>1. /\ pc = "wait_all" /\ waiting = {} /\ Len(active) < max_jobs
        /\ active' = Append(active, Head(queue))
        /\ pc' = pc /\ waiting' = waiting /\ max_jobs' = max_jobs
    BY <1>5 DEF StartNext, Looping, SlotFree
  <2>2. Len(active') = Len(active) + 1
    BY <1>5, <2>1, ActiveGrows DEF StartNext
  <2>. QED
    BY <1>0, <2>1, <2>2 DEF Waits
<1>6. CASE ForkFails
  BY <1>0, <1>6 DEF ForkFails, Looping, Waits
<1>7. CASE WaitOldest
  <2>1. /\ pc = "wait_all" /\ active # <<>>
        /\ waiting' = {Head(active)} /\ active' = Tail(active)
        /\ pc' = pc /\ max_jobs' = max_jobs /\ taken' = taken
    BY <1>7 DEF WaitOldest, Looping
  <2>2. Len(active') = Len(active) - 1 /\ Head(active) \in ToSet(active)
    BY <1>0, <2>1, ElemsTail DEF TypeOK
  <2>3. Head(active) \in ToSet(taken)
    BY <2>2 DEF IInv, Placed
  <2>. QED
    BY <1>0, <2>1, <2>2, <2>3 DEF Waits
<1>8. CASE AllDone
  BY <1>0, <1>8 DEF AllDone, Looping, Waits
<1>12. CASE Spin
  <2>1. /\ waiting = {} /\ pc' = "spin" /\ ~(Len(active) < max_jobs) /\ active = <<>>
        /\ UNCHANGED <<max_jobs, active, waiting, appended, taken>>
    BY <1>12 DEF Spin, Looping, SlotFree
  <2>2. Len(<<>>) = 0
    OBVIOUS
  <2>3. max_jobs = 0
    BY <1>0, <2>1, <2>2
  <2>. QED
    BY <1>0, <2>1, <2>3 DEF Waits
<1>9. ASSUME NEW c \in Cmds, Reap(c) PROVE Waits'
  BY <1>0, <1>9 DEF Reap, Waits, TypeOK
<1>10. ASSUME NEW c \in Cmds, End(c) PROVE Waits'
  BY <1>0, <1>10 DEF End, script, Waits
<1>11. CASE UNCHANGED vars
  BY <1>0, <1>11 DEF vars, Waits
<1>. QED
  BY <1>1, <1>2, <1>3, <1>4, <1>5, <1>6, <1>7, <1>8, <1>9, <1>10, <1>11, <1>12
     DEF Next, CallStep

LEMMA StepKnown == IInv /\ [Next]_vars => ChildrenKnown'
<1>. SUFFICES ASSUME IInv, [Next]_vars PROVE ChildrenKnown'
  OBVIOUS
<1>0. TypeOK /\ Waits /\ ChildrenKnown
  BY DEF IInv
<1>1. ASSUME child' = child, active' = active, waiting' = waiting PROVE ChildrenKnown'
  BY <1>0, <1>1 DEF ChildrenKnown, Children
<1>2. CASE RunForkFails \/ WaitAll \/ ForkFails \/ Spin \/ AllDone
  BY <1>1, <1>2 DEF RunForkFails, WaitAll, ForkFails, Spin, AllDone
<1>3. ASSUME NEW c \in Cmds, AppendCmd(c) PROVE ChildrenKnown'
  BY <1>1, <1>3 DEF AppendCmd
<1>4. ASSUME NEW c \in Cmds, Run(c) PROVE ChildrenKnown'
  <2>1. /\ child' = [child EXCEPT ![c] = "running"]
        /\ waiting = {} /\ waiting' = {c} /\ active' = active
        /\ child[c] = "none"
    BY <1>0, <1>4 DEF Run, Fresh, Waits
  <2>2. Children' = Children \cup {c}
    BY <1>0, <2>1 DEF Children, TypeOK
  <2>3. c \notin ToSet(active)
    BY <1>0, <2>1 DEF ChildrenKnown, Children
  <2>. QED
    BY <1>0, <2>1, <2>2, <2>3 DEF ChildrenKnown
<1>5. CASE StartNext
  <2>1. /\ queue # <<>> /\ waiting' = waiting
        /\ child' = [child EXCEPT ![Head(queue)] = "running"]
        /\ active' = Append(active, Head(queue))
    BY <1>5 DEF StartNext
  <2>2. Children' = Children \cup {Head(queue)}
    BY <1>0, <2>1, QueueHead DEF Children, TypeOK
  <2>3. ToSet(active') = ToSet(active) \cup {Head(queue)} /\ IsInjective(active')
    BY <2>1, ActiveGrows
  <2>. QED
    BY <1>0, <2>1, <2>2, <2>3, QueueHead DEF ChildrenKnown
<1>6. CASE WaitOldest
  <2>1. /\ active # <<>> /\ waiting = {} /\ child' = child
        /\ waiting' = {Head(active)} /\ active' = Tail(active)
    BY <1>6 DEF WaitOldest, Looping
  <2>2. ToSet(active) = {Head(active)} \cup ToSet(active')
    BY <1>0, <2>1, ElemsTail DEF TypeOK
  <2>3. IsInjective(active') /\ Head(active) \notin ToSet(active')
    BY <1>0, <2>1, InjectiveTail DEF TypeOK, ChildrenKnown
  <2>. QED
    BY <1>0, <2>1, <2>2, <2>3 DEF ChildrenKnown, Children
<1>7. ASSUME NEW c \in Cmds, Reap(c) PROVE ChildrenKnown'
  <2>1. /\ c \in waiting /\ waiting' = {} /\ active' = active
        /\ child' = [child EXCEPT ![c] = "reaped"]
    BY <1>7 DEF Reap
  <2>2. waiting = {c}
    BY <1>0, <2>1 DEF Waits, TypeOK
  <2>3. Children' = Children \ {c}
    BY <1>0, <2>1 DEF Children, TypeOK
  <2>. QED
    BY <1>0, <2>1, <2>2, <2>3 DEF ChildrenKnown
<1>8. ASSUME NEW c \in Cmds, End(c) PROVE ChildrenKnown'
  <2>1. /\ child[c] = "running" /\ child' = [child EXCEPT ![c] = "ended"]
        /\ active' = active /\ waiting' = waiting
    BY <1>8 DEF End, script
  <2>2. Children' = Children
    BY <1>0, <2>1 DEF Children, TypeOK
  <2>. QED
    BY <1>0, <2>1, <2>2 DEF ChildrenKnown
<1>9. CASE UNCHANGED vars
  BY <1>1, <1>9 DEF vars
<1>. QED
  BY <1>2, <1>3, <1>4, <1>5, <1>6, <1>7, <1>8, <1>9 DEF Next, CallStep

LEMMA IInvLimit == IInv => JobLimit
<1>. SUFFICES ASSUME IInv PROVE JobLimit
  OBVIOUS
<1>. DEFINE Jobs == Children \cap ToSet(appended)
<1>0. TypeOK /\ Waits /\ ChildrenKnown /\ Len(active) \in Nat /\ max_jobs \in Nat
  BY LenActive DEF IInv, TypeOK
<1>1. IsFiniteSet(ToSet(active)) /\ Cardinality(ToSet(active)) <= Len(active)
  BY <1>0, ElemsCount DEF TypeOK
<1>2. Cardinality(ToSet(active)) \in Nat
  BY <1>1, FS_CardinalityType
<1>3. CASE pc # "wait_all" \/ waiting = {}
  <2>1. Jobs \subseteq ToSet(active)
    BY <1>0, <1>3 DEF Waits, ChildrenKnown, TypeOK
  <2>2. IsFiniteSet(Jobs) /\ Cardinality(Jobs) <= Cardinality(ToSet(active))
    BY <1>1, <2>1, FS_Subset
  <2>3. Cardinality(Jobs) \in Nat
    BY <2>2, FS_CardinalityType
  <2>4. Len(active) <= max_jobs
    BY <1>0 DEF Waits
  <2>5. Cardinality(Jobs) <= max_jobs
    BY <1>0, <1>1, <1>2, <2>2, <2>3, <2>4
  <2>. QED
    BY <2>5 DEF JobLimit
<1>4. CASE pc = "wait_all" /\ waiting # {}
  <2>1. PICK c \in ToSet(taken) : waiting = {c}
    BY <1>0, <1>4 DEF Waits
  <2>2. Jobs \subseteq ToSet(active) \cup {c}
    BY <1>0, <2>1 DEF ChildrenKnown
  <2>3. /\ IsFiniteSet(ToSet(active) \cup {c})
        /\ Cardinality(ToSet(active) \cup {c}) \in Nat
        /\ Cardinality(ToSet(active) \cup {c}) <= Cardinality(ToSet(active)) + 1
    BY <1>1, <1>2, FS_AddElement
  <2>4. IsFiniteSet(Jobs) /\ Cardinality(Jobs) <= Cardinality(ToSet(active) \cup {c})
    BY <2>2, <2>3, FS_Subset
  <2>5. Cardinality(Jobs) \in Nat
    BY <2>4, FS_CardinalityType
  <2>6. Len(active) + 1 <= max_jobs
    BY <1>0, <1>4 DEF Waits
  <2>7. Cardinality(Jobs) <= max_jobs
    BY <1>0, <1>1, <1>2, <2>3, <2>4, <2>5, <2>6
  <2>. QED
    BY <2>7 DEF JobLimit
<1>. QED
  BY <1>3, <1>4

\* The processes that run.
Running == {c \in Cmds : child[c] = "running"}

\* A process begins, or ends.
LEMMA RunningChanges ==
  ASSUME TypeOK
  PROVE  /\ IsFiniteSet(Running) /\ Cardinality(Running) \in Nat
         /\ \A c \in Cmds :
              /\ child' = [child EXCEPT ![c] = "running"]
                 => \/ Cardinality(Running') = Cardinality(Running)
                    \/ Cardinality(Running') = Cardinality(Running) + 1
              /\ child[c] = "running" /\ child' = [child EXCEPT ![c] = "ended"]
                 => Cardinality(Running') = Cardinality(Running) - 1
              /\ child[c] = "ended" /\ child' = [child EXCEPT ![c] = "reaped"]
                 => Cardinality(Running') = Cardinality(Running)
<1>1. IsFiniteSet(Running)
  BY CmdsAssumption, FS_Subset DEF Running
<1>2. Cardinality(Running) \in Nat
  BY <1>1, FS_CardinalityType
<1>3. \A c \in Cmds : \/ Cardinality(Running \cup {c}) = Cardinality(Running)
                      \/ Cardinality(Running \cup {c}) = Cardinality(Running) + 1
  BY <1>1, <1>2, FS_AddElement
<1>4. \A c \in Running : Cardinality(Running \ {c}) = Cardinality(Running) - 1
  BY <1>1, FS_RemoveElement
<1>5. ASSUME NEW c \in Cmds, child' = [child EXCEPT ![c] = "running"]
      PROVE  Running' = Running \cup {c}
  BY <1>5 DEF Running, TypeOK
<1>6. ASSUME NEW c \in Cmds, child[c] = "running", child' = [child EXCEPT ![c] = "ended"]
      PROVE  Running' = Running \ {c}
  BY <1>6 DEF Running, TypeOK
<1>7. ASSUME NEW c \in Cmds, child[c] = "ended", child' = [child EXCEPT ![c] = "reaped"]
      PROVE  Running' = Running
  BY <1>7 DEF Running, TypeOK
<1>8. \A c \in Cmds : child[c] = "running" => c \in Running
  BY DEF Running
<1>. QED
  BY <1>1, <1>2, <1>3, <1>4, <1>5, <1>6, <1>7, <1>8

\* What WorkLeft adds up, and what it is in a call.
CallPart == IF pc = "script" THEN 0 ELSE 1

WorkOK ==
  /\ Len(queue) \in Nat /\ Len(active) \in Nat /\ CallPart \in Nat
  /\ Cardinality(waiting) \in Nat /\ Cardinality(Running) \in Nat
  /\ WorkLeft = 4 * Len(queue) + 2 * Len(active) + Cardinality(waiting)
                  + Cardinality(Running) + CallPart
  /\ WorkLeft \in Nat

LEMMA WorkIs == TypeOK => WorkOK
<1>0. SUFFICES ASSUME TypeOK PROVE WorkOK
  OBVIOUS
<1>1. Len(queue) \in Nat /\ Len(active) \in Nat
  BY <1>0, ElemsIn DEF TypeOK
<1>2. IsFiniteSet(waiting) /\ Cardinality(waiting) \in Nat
  BY <1>0, CmdsAssumption, FS_Subset, FS_CardinalityType DEF TypeOK
<1>3. Cardinality(Running) \in Nat
  BY <1>0, RunningChanges
<1>4. WorkLeft = 4 * Len(queue) + 2 * Len(active) + Cardinality(waiting)
                   + Cardinality(Running) + CallPart
  BY DEF WorkLeft, Running, CallPart
<1>5. CallPart \in Nat
  BY DEF CallPart
<1>6. WorkLeft \in Nat
  BY <1>1, <1>2, <1>3, <1>4, <1>5
<1>. QED
  BY <1>1, <1>2, <1>3, <1>4, <1>5, <1>6 DEF WorkOK

LEMMA StepAdvances ==
  ASSUME IInv, WorkOK, WorkOK', Next, pc # "script", ~Spin
  PROVE  WorkLeft' < WorkLeft
<1>0. TypeOK /\ Waits
  BY DEF IInv
<1>1. PICK q \in Nat, a \in Nat, w \in Nat, r \in Nat :
        /\ q = Len(queue) /\ a = Len(active)
        /\ w = Cardinality(waiting) /\ r = Cardinality(Running)
        /\ WorkLeft = 4 * q + 2 * a + w + r + 1
  BY DEF WorkOK, CallPart
<1>2. PICK q2 \in Nat, a2 \in Nat, w2 \in Nat, r2 \in Nat, p2 \in {0, 1} :
        /\ q2 = Len(queue') /\ a2 = Len(active')
        /\ w2 = Cardinality(waiting') /\ r2 = Cardinality(Running')
        /\ (pc' = "script" => p2 = 0)
        /\ WorkLeft' = 4 * q2 + 2 * a2 + w2 + r2 + p2
  BY DEF WorkOK, CallPart
<1>3. SUFFICES 4 * q2 + 2 * a2 + w2 + r2 + p2 < 4 * q + 2 * a + w + r + 1
  BY <1>1, <1>2
<1>4. Cardinality({}) = 0 /\ \A c \in Cmds : Cardinality({c}) = 1
  BY FS_EmptySet, FS_Singleton
<1>5. (\A c \in Cmds : ~AppendCmd(c) /\ ~Run(c)) /\ ~RunForkFails /\ ~WaitAll
  BY DEF AppendCmd, Run, RunForkFails, WaitAll
<1>6. child' = child => r2 = r
  BY <1>1, <1>2 DEF Running
<1>7. CASE StartNext
  <2>1. /\ queue # <<>> /\ queue' = Tail(queue) /\ active' = Append(active, Head(queue))
        /\ child' = [child EXCEPT ![Head(queue)] = "running"]
        /\ waiting' = waiting
    BY <1>7 DEF StartNext
  <2>2. q2 = q - 1
    BY <1>0, <1>1, <1>2, <2>1, ElemsTail DEF TypeOK
  <2>3. a2 = a + 1
    BY <1>1, <1>2, <2>1, ActiveGrows
  <2>4. r2 = r \/ r2 = r + 1
    BY <1>0, <1>1, <1>2, <2>1, QueueHead, RunningChanges
  <2>5. w2 = w
    BY <1>1, <1>2, <2>1
  <2>. QED
    BY <2>2, <2>3, <2>4, <2>5
<1>8. CASE ForkFails
  <2>1. /\ queue # <<>> /\ queue' = Tail(queue) /\ active' = active
        /\ child' = child /\ waiting' = waiting
    BY <1>8 DEF ForkFails
  <2>2. q2 = q - 1
    BY <1>0, <1>1, <1>2, <2>1, ElemsTail DEF TypeOK
  <2>3. a2 = a /\ w2 = w /\ r2 = r
    BY <1>1, <1>2, <1>6, <2>1
  <2>. QED
    BY <2>2, <2>3
<1>9. CASE WaitOldest
  <2>1. /\ active # <<>> /\ active' = Tail(active) /\ queue' = queue
        /\ waiting = {} /\ waiting' = {Head(active)} /\ child' = child
    BY <1>9 DEF WaitOldest, Looping
  <2>2. a2 = a - 1 /\ Head(active) \in Cmds
    BY <1>0, <1>1, <1>2, <2>1, ElemsTail DEF TypeOK
  <2>3. w = 0 /\ w2 = 1
    BY <1>1, <1>2, <1>4, <2>1, <2>2
  <2>4. q2 = q /\ r2 = r
    BY <1>1, <1>2, <1>6, <2>1
  <2>. QED
    BY <2>2, <2>3, <2>4
<1>10. CASE AllDone
  <2>1. /\ queue' = queue /\ active' = active /\ waiting' = waiting
        /\ child' = child /\ pc' = "script"
    BY <1>10 DEF AllDone
  <2>2. q2 = q /\ a2 = a /\ w2 = w /\ r2 = r /\ p2 = 0
    BY <1>1, <1>2, <1>6, <2>1
  <2>. QED
    BY <2>2
<1>11. ASSUME NEW c \in Cmds, Reap(c)
       PROVE  4 * q2 + 2 * a2 + w2 + r2 + p2 < 4 * q + 2 * a + w + r + 1
  <2>1. /\ c \in waiting /\ waiting' = {} /\ queue' = queue /\ active' = active
        /\ child[c] = "ended" /\ child' = [child EXCEPT ![c] = "reaped"]
    BY <1>11 DEF Reap
  <2>2. waiting = {c}
    BY <1>0, <2>1 DEF Waits, TypeOK
  <2>3. w = 1 /\ w2 = 0
    BY <1>1, <1>2, <1>4, <2>1, <2>2
  <2>4. r2 = r
    BY <1>0, <1>1, <1>2, <2>1, RunningChanges
  <2>5. q2 = q /\ a2 = a
    BY <1>1, <1>2, <2>1
  <2>. QED
    BY <2>3, <2>4, <2>5
<1>12. ASSUME NEW c \in Cmds, End(c)
       PROVE  4 * q2 + 2 * a2 + w2 + r2 + p2 < 4 * q + 2 * a + w + r + 1
  <2>1. /\ queue' = queue /\ active' = active /\ waiting' = waiting
        /\ child[c] = "running" /\ child' = [child EXCEPT ![c] = "ended"]
    BY <1>12 DEF End, script
  <2>2. r2 = r - 1
    BY <1>0, <1>1, <1>2, <2>1, RunningChanges
  <2>3. q2 = q /\ a2 = a /\ w2 = w
    BY <1>1, <1>2, <2>1
  <2>. QED
    BY <2>2, <2>3
<1>. QED
  BY <1>5, <1>7, <1>8, <1>9, <1>10, <1>11, <1>12 DEF Next, CallStep

LEMMA SpinIs ==
  ASSUME IInv, Spin
  PROVE  max_jobs = 0 /\ pc' = "spin"
<1>1. max_jobs \in Nat /\ ~(Len(active) < max_jobs) /\ active = <<>> /\ pc' = "spin"
  BY DEF Spin, SlotFree, IInv, TypeOK
<1>2. Len(<<>>) = 0
  OBVIOUS
<1>. QED
  BY <1>1, <1>2

LEMMA InvNeverStuck == IInv => NeverStuck
<1>. SUFFICES ASSUME IInv, max_jobs > 0, pc # "script"
              PROVE  \/ pc = "wait_all" /\ waiting = {} /\ (queue = <<>> \/ SlotFree \/ active # <<>>)
                     \/ \E c \in Cmds : waiting = {c} /\ child[c] \in {"running", "ended"}
  BY DEF NeverStuck
<1>0. TypeOK /\ Waits /\ ChildrenKnown
  BY DEF IInv
<1>1. CASE waiting = {}
  <2>1. pc = "wait_all"
    <3>1. max_jobs \in Nat /\ pc \in {"wait_all", "run", "spin"}
      BY <1>0 DEF TypeOK
    <3>2. pc # "spin"
      BY <1>0, <3>1 DEF Waits
    <3>. QED
      BY <1>0, <1>1, <3>1, <3>2 DEF Waits
  <2>2. active = <<>> => Len(active) = 0
    OBVIOUS
  <2>. QED
    BY <1>0, <1>1, <2>1, <2>2 DEF SlotFree, TypeOK
<1>2. CASE waiting # {}
  <2>1. PICK c : waiting = {c}
    BY <1>0, <1>2 DEF TypeOK, Waits
  <2>2. c \in Cmds /\ c \in Children
    BY <1>0, <2>1 DEF TypeOK, ChildrenKnown
  <2>. QED
    BY <2>1, <2>2 DEF Children
<1>. QED
  BY <1>1, <1>2

----------------------------------------------------------------------------

LEMMA Invariance == Spec => []IInv
<1>1. IInv /\ [Next]_vars => IInv'
  BY StepType, StepPlaced, StepWaits, StepKnown DEF IInv
<1>. QED
  BY <1>1, InitIInv, PTL DEF Spec

\* The types hold for all commands, limits and statuses.
THEOREM ProcsType == Spec => []TypeOK
<1>1. IInv => TypeOK
  BY DEF IInv
<1>. QED
  BY <1>1, Invariance, PTL

\* At no time are there more processes of wait_all than max_jobs, however many
\* commands and slots there are and whatever earlier calls have left (nob.lua
\* 338).
THEOREM ProcsLimit == Spec => []JobLimit
BY IInvLimit, Invariance, PTL

\* No process is forgotten or waited for twice (nob.lua 341, 346).
THEOREM ProcsKnown == Spec => []ChildrenKnown
<1>1. IInv => ChildrenKnown
  BY DEF IInv
<1>. QED
  BY <1>1, Invariance, PTL

\* Commands are taken in the order they were appended (nob.lua 311, 339).
THEOREM ProcsOrder == Spec => []TakenInOrder
<1>1. IInv => TakenInOrder
  BY DEF IInv, Placed
<1>. QED
  BY <1>1, Invariance, PTL

\* A wait_all that returns without an error has run and waited for every
\* command, but for those that a failed fork has lost (nob.lua 336, 345).
THEOREM ProcsDone == Spec => ReturnMeansDone
<1>1. ASSUME IInv, Next, pc = "wait_all", pc' = "script", raised' = "none",
             NEW c \in ToSet(appended) \ Lost'
      PROVE  child'[c] = "reaped"
  <2>1. AllDone
    <3>1. ~WaitAll /\ ~RunForkFails /\ ~StartNext /\ ~ForkFails /\ ~WaitOldest /\ ~Spin
      BY <1>1 DEF WaitAll, RunForkFails, StartNext, ForkFails, WaitOldest, Spin
    <3>2. \A d \in Cmds : ~AppendCmd(d) /\ ~Run(d) /\ ~End(d) /\ ~Reap(d)
      BY <1>1 DEF AppendCmd, Run, End, script, Reap
    <3>. QED
      BY <1>1, <3>1, <3>2 DEF Next, CallStep
  <2>2. /\ queue = <<>> /\ active = <<>> /\ waiting = {}
        /\ child' = child /\ taken' = taken
    BY <2>1 DEF AllDone, Looping
  <2>3. ToSet(queue) = {} /\ ToSet(active) = {}
    BY <2>2 DEF ToSet
  <2>4. c \in ToSet(taken) /\ c \in Cmds
    <3>1. ToSet(taken) \subseteq Cmds
      BY <1>1, ElemsIn DEF IInv, TypeOK
    <3>. QED
      BY <1>1, <2>3, <3>1, TakenApart
  <2>5. c \notin Children
    BY <1>1, <2>2, <2>3 DEF IInv, ChildrenKnown
  <2>6. child[c] # "none"
    BY <1>1, <2>2, <2>4 DEF Lost
  <2>. QED
    BY <1>1, <2>2, <2>4, <2>5, <2>6 DEF IInv, TypeOK, Children
<1>2. IInv /\ [Next]_vars =>
        [pc = "wait_all" /\ pc' = "script" /\ raised' = "none" =>
           \A c \in ToSet(appended) \ Lost' : child'[c] = "reaped"]_vars
  BY <1>1
<1>. QED
  BY <1>2, Invariance, PTL DEF Spec, ReturnMeansDone

\* In a call, whatever the script or a process does leaves less to do, a
\* natural number: with any number of commands and slots a call has a bounded
\* number of steps before it returns, or spins with no slot (nob.lua 335-350).
THEOREM ProcsAdvance == Spec => [](WorkLeft \in Nat) /\ CallsAdvance
<1>1. IInv => WorkOK
  BY WorkIs DEF IInv
<1>2. WorkOK => WorkLeft \in Nat
  BY DEF WorkOK
<1>3. IInv /\ WorkOK /\ WorkOK' /\ [Next]_vars
      => [pc # "script" => WorkLeft' < WorkLeft \/ (max_jobs = 0 /\ pc' = "spin")]_vars
  BY StepAdvances, SpinIs
<1>. QED
  BY <1>1, <1>2, <1>3, Invariance, PTL DEF Spec, CallsAdvance

\* In a call with at least one slot there is always a step to take: no waitpid
\* for a process that is gone, no empty round of the outer loop (nob.lua
\* 336-348).  With ProcsAdvance, all that CallsEnd needs but fairness.
THEOREM ProcsNeverStuck == Spec => []NeverStuck
BY InvNeverStuck, Invariance, PTL

----------------------------------------------------------------------------
(* Build scripts.                                                          *)

\* The job manager does what it does alone, but for a script that is run
\* again.
LEMMA JobSteps ==
  ASSUME [BuildNext]_allvars, todo \in Seq(Cmds)
  PROVE  [Next]_vars \/ RunAgain
<1>1. CASE TestObject
  <2>1. Head(todo) \in Cmds
    BY <1>1, ElemsTail DEF TestObject
  <2>. QED
    BY <1>1, <2>1 DEF TestObject, Next
<1>2. CASE Build \/ InCall
  BY <1>2 DEF Build, InCall, Next
<1>3. CASE TestProgram
  BY <1>3, TargetsAssumption DEF TestProgram, Next
<1>4. ASSUME NEW t \in Cmds, Rm(t) \/ ProcessEnds(t) PROVE [Next]_vars
  BY <1>4 DEF Rm, ProcessEnds, Next
<1>5. ASSUME NEW p \in orphans, OrphanEnds(p) PROVE [Next]_vars
  BY <1>5 DEF OrphanEnds
<1>6. ASSUME NEW f \in Sources, Edit(f) \/ Delete(f) PROVE [Next]_vars
  BY <1>6 DEF Edit, Delete
<1>7. CASE Tick \/ UNCHANGED allvars
  BY <1>7 DEF Tick, allvars
<1>. QED
  BY <1>1, <1>2, <1>3, <1>4, <1>5, <1>6, <1>7 DEF BuildNext

\* A new process of tmg begins where the first one did.
LEMMA RunAgainJobs ==
  ASSUME TypeOK, RunAgain
  PROVE  IInv'
<1>0. /\ queue' = <<>> /\ active' = <<>> /\ waiting' = {} /\ max_jobs' = max_jobs
      /\ pc' = "script" /\ raised' = "none"
      /\ child' = [c \in Cmds |-> "none"] /\ status' = [c \in Cmds |-> 0]
      /\ appended' = <<>> /\ taken' = <<>>
  BY DEF RunAgain
<1>1. TypeOK'
  <2>1. max_jobs' \in Nat
    BY <1>0 DEF TypeOK
  <2>2. <<>> \in Seq(Cmds) /\ {} \in SUBSET Cmds
    OBVIOUS
  <2>3. /\ child' \in [Cmds -> {"none", "running", "ended", "reaped"}]
        /\ status' \in [Cmds -> Statuses]
    BY <1>0, StatusesAssumption
  <2>. QED
    BY <1>0, <2>1, <2>2, <2>3 DEF TypeOK
<1>2. ToSet(<<>>) = {} /\ IsInjective(<<>>) /\ <<>> \o <<>> = <<>> /\ Len(<<>>) = 0
  BY DEF ToSet, IsInjective
<1>3. Placed'
  BY <1>0, <1>2 DEF Placed, TakenInOrder
<1>4. Waits'
  <2>1. max_jobs \in Nat
    BY DEF TypeOK
  <2>. QED
    BY <1>0, <1>2, <2>1 DEF Waits
<1>5. ChildrenKnown'
  BY <1>0, <1>2 DEF ChildrenKnown, Children
<1>. QED
  BY <1>1, <1>3, <1>4, <1>5 DEF IInv

----------------------------------------------------------------------------

\* Types, beyond those that BuildTypeOK names.
BuildTypes ==
  /\ IInv
  /\ BuildTypeOK
  /\ DOMAIN text = Files
  /\ todo \in Seq(Cmds)
  /\ \A p \in orphans : p.target \in Cmds

\* Where target t that nothing has fooled is not what its inputs would give,
\* an input says so.
Told(t) ==
  mtime[t] = 0 \/ \A i \in ToSet(Inputs[t]) :
                    text[t][i] = text[i] \/ mtime[i] = 0 \/ mtime[i] > mtime[t]

BuildInv == BuildTypes /\ \A t \in Cmds \ fooled : Told(t)

LEMMA InputsAreFiles ==
  ASSUME NEW t \in Cmds
  PROVE  t \in Files /\ t \notin ToSet(Inputs[t]) /\ ToSet(Inputs[t]) \subseteq Files
<1>1. Inputs[t] \in Seq(Sources \cup Cmds) /\ t \notin ToSet(Inputs[t])
  BY InputsAssumption
<1>. QED
  BY <1>1, ElemsIn DEF Files

LEMMA InitBuildInv == BuildInit => BuildInv
<1>. SUFFICES ASSUME BuildInit PROVE BuildInv
  OBVIOUS
<1>1. IInv
  BY InitIInv DEF BuildInit
<1>2. BuildTypeOK
  BY <1>1, BoundsAssumption DEF BuildInit, BuildTypeOK, IInv
<1>3. DOMAIN text = Files /\ todo \in Seq(Cmds) /\ orphans = {}
  BY TargetsAssumption DEF BuildInit
<1>4. \A t \in Cmds : mtime[t] = 0
  BY InputsAssumption DEF BuildInit, Files
<1>. QED
  BY <1>1, <1>2, <1>3, <1>4 DEF BuildInv, BuildTypes, Told

\* A file is written: its time is now, and the targets that are made from it
\* and are not older are fooled.
LEMMA StoreTold ==
  ASSUME BuildInv, NEW f \in Files, NEW x, Store(f, x), NEW t \in Cmds \ fooled,
         t # f, t \notin Overtaken(f)
  PROVE  Told(t)'
<1>1. /\ text' = [text EXCEPT ![f] = x] /\ mtime' = [mtime EXCEPT ![f] = now]
      /\ now \in Nat /\ mtime \in [Files -> 0 .. now] /\ DOMAIN text = Files
  BY BoundsAssumption DEF BuildInv, BuildTypes, BuildTypeOK, Store
<1>2. t \in Files /\ text'[t] = text[t] /\ mtime'[t] = mtime[t]
  BY <1>1, InputsAreFiles
<1>3. CASE mtime[t] = 0
  BY <1>2, <1>3 DEF Told
<1>4. CASE mtime[t] # 0
  <2>1. ASSUME NEW i \in ToSet(Inputs[t])
        PROVE  text'[t][i] = text'[i] \/ mtime'[i] = 0 \/ mtime'[i] > mtime'[t]
    <3>1. i \in Files
      BY InputsAreFiles
    <3>2. CASE i = f
      <4>1. mtime'[i] = now /\ mtime[t] <= now
        BY <1>1, <1>2, <3>2
      <4>2. mtime[t] # now
        BY <3>2 DEF Overtaken
      <4>. QED
        BY <1>1, <1>2, <4>1, <4>2
    <3>3. CASE i # f
      <4>1. text'[i] = text[i] /\ mtime'[i] = mtime[i]
        BY <1>1, <3>1, <3>3
      <4>2. text[t][i] = text[i] \/ mtime[i] = 0 \/ mtime[i] > mtime[t]
        BY <1>4 DEF BuildInv, Told
      <4>. QED
        BY <1>2, <4>1, <4>2
    <3>. QED
      BY <3>2, <3>3
  <2>. QED
    BY <2>1 DEF Told
<1>. QED
  BY <1>3, <1>4

LEMMA StoreTypes ==
  ASSUME BuildInv, NEW f \in Files, NEW x, Store(f, x)
  PROVE  DOMAIN text' = Files /\ mtime' \in [Files -> 0 .. now] /\ now' = now
<1>1. /\ text' = [text EXCEPT ![f] = x] /\ mtime' = [mtime EXCEPT ![f] = now]
      /\ now \in Nat /\ mtime \in [Files -> 0 .. now] /\ DOMAIN text = Files /\ now' = now
  BY BoundsAssumption DEF BuildInv, BuildTypes, BuildTypeOK, Store
<1>. QED
  BY <1>1

\* What the invariant says of the files, after a step.
FilesInv ==
  /\ now \in 1 .. MaxTime /\ mtime \in [Files -> 0 .. now]
  /\ DOMAIN text = Files /\ fooled \in SUBSET Cmds
  /\ \A t \in Cmds \ fooled : Told(t)

LEMMA OutcomeKeeps ==
  ASSUME BuildInv, NEW t \in Cmds, NEW r, NEW ok \in BOOLEAN, Outcome(t, r, ok)
  PROVE  FilesInv'
<1>0. FilesInv
  BY DEF BuildInv, BuildTypes, BuildTypeOK, FilesInv
<1>1. CASE UNCHANGED files
  BY <1>0, <1>1 DEF FilesInv, files, Told
<1>2. ASSUME NEW whole \in BOOLEAN, Write(t, r, whole) PROVE FilesInv'
  <2>. DEFINE x == IF whole THEN r ELSE Broken
  <2>1. t \in Files /\ Store(t, x)
    BY <1>2, InputsAreFiles DEF Write
  <2>2. DOMAIN text' = Files /\ mtime' \in [Files -> 0 .. now] /\ now' = now
    BY <2>1, StoreTypes
  <2>3. fooled' = (fooled \ {t}) \cup Overtaken(t)
                    \cup (IF whole /\ r = Snapshot(t) THEN {} ELSE {t})
    BY <1>2 DEF Write
  <2>4. fooled' \in SUBSET Cmds
    BY <1>0, <2>3 DEF FilesInv, Overtaken
  <2>5. ASSUME NEW u \in Cmds \ fooled', u # t PROVE Told(u)'
    BY <2>1, <2>3, <2>5, StoreTold
  <2>6. ASSUME t \notin fooled' PROVE Told(t)'
    <3>1. whole /\ r = Snapshot(t)
      BY <2>3, <2>6
    <3>2. text' = [text EXCEPT ![t] = Snapshot(t)] /\ DOMAIN text = Files
      BY <1>0, <2>1, <3>1 DEF Store, FilesInv
    <3>3. text'[t] = Snapshot(t)
      BY <2>1, <3>2
    <3>4. \A i \in ToSet(Inputs[t]) : text'[i] = text[i] /\ Snapshot(t)[i] = text[i]
      BY <3>2, InputsAreFiles DEF Snapshot
    <3>. QED
      BY <3>3, <3>4 DEF Told
  <2>. QED
    BY <1>0, <2>2, <2>4, <2>5, <2>6 DEF FilesInv
<1>. QED
  BY <1>1, <1>2 DEF Outcome

\* A file is removed.
LEMMA RemovedKeeps ==
  ASSUME BuildInv, NEW f \in Files, text' = [text EXCEPT ![f] = Nothing],
         mtime' = [mtime EXCEPT ![f] = 0], now' = now, fooled' \in {fooled, fooled \ {f}}
  PROVE  FilesInv'
<1>1. /\ now \in 1 .. MaxTime /\ mtime \in [Files -> 0 .. now] /\ DOMAIN text = Files
      /\ fooled \in SUBSET Cmds /\ now \in Nat
  BY BoundsAssumption DEF BuildInv, BuildTypes, BuildTypeOK
<1>2. mtime' \in [Files -> 0 .. now'] /\ DOMAIN text' = Files /\ fooled' \in SUBSET Cmds
  BY <1>1
<1>3. ASSUME NEW t \in Cmds \ fooled' PROVE Told(t)'
  <2>1. CASE t = f
    BY <1>1, <2>1 DEF Told
  <2>2. CASE t # f
    <3>1. t \in Files /\ text'[t] = text[t] /\ mtime'[t] = mtime[t] /\ t \notin fooled
      BY <1>1, <1>3, <2>2, InputsAreFiles
    <3>2. \A i \in ToSet(Inputs[t]) : i \in Files
      BY InputsAreFiles
    <3>3. \A i \in ToSet(Inputs[t]) :
            mtime'[i] = 0 \/ (text'[i] = text[i] /\ mtime'[i] = mtime[i])
      BY <1>1, <3>2
    <3>4. Told(t)
      BY <3>1 DEF BuildInv
    <3>. QED
      BY <3>1, <3>3, <3>4 DEF Told
  <2>. QED
    BY <2>1, <2>2
<1>. QED
  BY <1>1, <1>2, <1>3 DEF FilesInv

LEMMA StepFiles == BuildInv /\ [BuildNext]_allvars => FilesInv'
<1>. SUFFICES ASSUME BuildInv, [BuildNext]_allvars PROVE FilesInv'
  OBVIOUS
<1>0. FilesInv
  BY DEF BuildInv, BuildTypes, BuildTypeOK, FilesInv
<1>1. ASSUME UNCHANGED files PROVE FilesInv'
  BY <1>0, <1>1 DEF FilesInv, files, Told
<1>2. CASE TestObject \/ Build \/ InCall \/ TestProgram \/ RunAgain \/ UNCHANGED allvars
  BY <1>1, <1>2 DEF TestObject, Build, InCall, TestProgram, RunAgain, allvars, bvars
<1>3. ASSUME NEW t \in Cmds, Rm(t) PROVE FilesInv'
  BY <1>3, RemovedKeeps, InputsAreFiles DEF Rm
<1>4. ASSUME NEW t \in Cmds, ProcessEnds(t) PROVE FilesInv'
  BY <1>4, OutcomeKeeps DEF ProcessEnds
<1>5. ASSUME NEW p \in orphans, OrphanEnds(p) PROVE FilesInv'
  <2>1. p.target \in Cmds
    BY DEF BuildInv, BuildTypes
  <2>2. PICK ok \in BOOLEAN : Outcome(p.target, p.read, ok)
    BY <1>5 DEF OrphanEnds
  <2>. QED
    BY <2>1, <2>2, OutcomeKeeps
<1>6. ASSUME NEW f \in Sources, Edit(f) PROVE FilesInv'
  <2>1. f \in Files /\ f \notin Cmds
    BY InputsAssumption DEF Files
  <2>2. Store(f, <<edits + 2>>) /\ fooled' = fooled \cup Overtaken(f)
    BY <1>6 DEF Edit
  <2>3. DOMAIN text' = Files /\ mtime' \in [Files -> 0 .. now] /\ now' = now
    BY <2>1, <2>2, StoreTypes
  <2>4. fooled' \in SUBSET Cmds
    BY <1>0, <2>2 DEF FilesInv, Overtaken
  <2>5. ASSUME NEW t \in Cmds \ fooled' PROVE Told(t)'
    BY <2>1, <2>2, <2>5, StoreTold
  <2>. QED
    BY <1>0, <2>3, <2>4, <2>5 DEF FilesInv
<1>7. ASSUME NEW f \in Sources, Delete(f) PROVE FilesInv'
  <2>1. f \in Files
    BY DEF Files
  <2>. QED
    BY <1>7, <2>1, RemovedKeeps DEF Delete
<1>8. CASE Tick
  <2>1. now < MaxTime /\ now' = now + 1 /\ UNCHANGED <<mtime, text, fooled>>
    BY <1>8 DEF Tick
  <2>2. now' \in 1 .. MaxTime /\ mtime' \in [Files -> 0 .. now']
    BY <1>0, <2>1, BoundsAssumption DEF FilesInv
  <2>. QED
    BY <1>0, <2>1, <2>2 DEF FilesInv, Told
<1>. QED
  BY <1>2, <1>3, <1>4, <1>5, <1>6, <1>7, <1>8 DEF BuildNext

LEMMA StepTypes == BuildInv /\ [BuildNext]_allvars => BuildTypes'
<1>. SUFFICES ASSUME BuildInv, [BuildNext]_allvars PROVE BuildTypes'
  OBVIOUS
<1>0. /\ IInv /\ BuildTypeOK /\ todo \in Seq(Cmds)
      /\ \A p \in orphans : p.target \in Cmds
  BY DEF BuildInv, BuildTypes
<1>1. IInv'
  <2>1. [Next]_vars \/ RunAgain
    BY <1>0, JobSteps
  <2>2. CASE [Next]_vars
    BY <1>0, <2>2, StepType, StepPlaced, StepWaits, StepKnown DEF IInv
  <2>3. CASE RunAgain
    BY <1>0, <2>3, RunAgainJobs DEF IInv
  <2>. QED
    BY <2>1, <2>2, <2>3
<1>2. FilesInv'
  BY StepFiles
<1>3. step' \in {"test", "build", "link", "done", "failed"}
  BY <1>0 DEF BuildTypeOK, BuildNext, TestObject, Build, InCall, TestProgram, RunAgain,
              Rm, ProcessEnds, OrphanEnds, Edit, Delete, Tick, allvars, bvars
<1>4. trouble' \in {"none", "unnoticed", "outside"}
  <2>1. Unnoticed \in {"none", "unnoticed", "outside"} /\ trouble \in {"none", "unnoticed", "outside"}
    BY <1>0 DEF BuildTypeOK, Unnoticed
  <2>. QED
    BY <2>1 DEF BuildNext, TestObject, Build, InCall, TestProgram, RunAgain,
                Rm, ProcessEnds, OrphanEnds, Edit, Delete, Tick, allvars, bvars
<1>5. todo' \in Seq(Cmds)
  <2>1. CASE TestObject
    BY <1>0, <2>1, ElemsTail DEF TestObject
  <2>2. CASE RunAgain
    BY <2>2, TargetsAssumption DEF RunAgain
  <2>3. CASE ~TestObject /\ ~RunAgain
    BY <1>0, <2>3 DEF BuildNext, Build, InCall, TestProgram, Rm, ProcessEnds, OrphanEnds,
                      Edit, Delete, Tick, allvars, bvars
  <2>. QED
    BY <2>1, <2>2, <2>3
<1>6. \A p \in orphans' : p.target \in Cmds
  <2>1. CASE RunAgain
    BY <1>0, <2>1 DEF RunAgain
  <2>2. CASE ~RunAgain
    <3>1. orphans' \subseteq orphans
      BY <2>2 DEF BuildNext, TestObject, Build, InCall, TestProgram, Rm, ProcessEnds,
                  OrphanEnds, Edit, Delete, Tick, allvars, bvars
    <3>. QED
      BY <1>0, <3>1
  <2>. QED
    BY <2>1, <2>2
<1>. QED
  BY <1>1, <1>2, <1>3, <1>4, <1>5, <1>6 DEF BuildTypes, BuildTypeOK, FilesInv, IInv

LEMMA BuildInvariance == BuildSpec => []BuildInv
<1>1. BuildInv /\ [BuildNext]_allvars => BuildInv'
  BY StepTypes, StepFiles DEF BuildInv, FilesInv
<1>. QED
  BY <1>1, InitBuildInv, PTL DEF BuildSpec

LEMMA InvFresh == BuildInv => SkippedIsFresh
<1>. SUFFICES ASSUME BuildInv, NEW t \in Cmds \ fooled, NeedsRebuild(t, Inputs[t]) = "no"
              PROVE  Current(t)
  BY DEF SkippedIsFresh
<1>. DEFINE hits == {i \in DOMAIN Inputs[t] :
                       mtime[Inputs[t][i]] = 0 \/ mtime[Inputs[t][i]] > mtime[t]}
<1>1. mtime[t] # 0 /\ hits = {}
  BY DEF NeedsRebuild
<1>2. \A i \in ToSet(Inputs[t]) : ~(mtime[i] = 0 \/ mtime[i] > mtime[t])
  BY <1>1 DEF ToSet
<1>. QED
  BY <1>1, <1>2 DEF BuildInv, Told, Current

\* A script that tests objects, or has ended, is not in a call.
Outside == step \in {"test", "done", "failed"} => pc = "script"

LEMMA StepOutside == Outside /\ [BuildNext]_allvars => Outside'
<1>. SUFFICES ASSUME Outside, [BuildNext]_allvars PROVE Outside'
  OBVIOUS
<1>. USE DEF Outside
<1>1. CASE TestObject
  BY <1>1 DEF TestObject, AppendCmd, vars
<1>2. CASE Build
  BY <1>2 DEF Build
<1>3. CASE InCall
  BY <1>3 DEF InCall
<1>4. CASE TestProgram
  BY <1>4 DEF TestProgram, Run, RunForkFails, vars
<1>5. CASE RunAgain
  BY <1>5 DEF RunAgain
<1>6. ASSUME NEW t \in Cmds, Rm(t) \/ ProcessEnds(t) PROVE Outside'
  BY <1>6 DEF Rm, ProcessEnds, End, script, vars
<1>7. ASSUME NEW p \in orphans, OrphanEnds(p) PROVE Outside'
  BY <1>7 DEF OrphanEnds, vars
<1>8. ASSUME NEW f \in Sources, Edit(f) \/ Delete(f) PROVE Outside'
  BY <1>8 DEF Edit, Delete, vars
<1>9. CASE Tick \/ UNCHANGED allvars
  BY <1>9 DEF Tick, allvars, bvars, vars
<1>. QED
  BY <1>1, <1>2, <1>3, <1>4, <1>5, <1>6, <1>7, <1>8, <1>9 DEF BuildNext

----------------------------------------------------------------------------

\* The types hold, no file is ever stamped with a time to come, and the job
\* manager keeps its invariants while the script is run again and again.
THEOREM BuildType ==
  BuildSpec => [](BuildTypeOK /\ JobLimit /\ ChildrenKnown /\ TakenInOrder /\ NeverStuck)
<1>1. BuildInv => BuildTypeOK /\ JobLimit /\ ChildrenKnown /\ TakenInOrder /\ NeverStuck
  BY IInvLimit, InvNeverStuck DEF BuildInv, BuildTypes, IInv, Placed
<1>. QED
  BY <1>1, BuildInvariance, PTL

\* Also in builds, with edits, processes of earlier runs and a clock around
\* them, a call has a bounded number of steps (nob.lua 335-350): the script is
\* run again only when it is in none.
THEOREM BuildAdvance == BuildSpec => CallsAdvance
<1>1. BuildInv => IInv /\ WorkOK /\ todo \in Seq(Cmds)
  BY WorkIs DEF BuildInv, BuildTypes, IInv
<1>2. ASSUME IInv, WorkOK, WorkOK', todo \in Seq(Cmds), Outside, [BuildNext]_allvars
      PROVE  [pc # "script" => WorkLeft' < WorkLeft \/ (max_jobs = 0 /\ pc' = "spin")]_vars
  <2>1. [Next]_vars \/ RunAgain
    BY <1>2, JobSteps
  <2>2. RunAgain => pc = "script"
    BY <1>2 DEF RunAgain, Outside
  <2>. QED
    BY <1>2, <2>1, <2>2, StepAdvances, SpinIs
<1>3. BuildInit => Outside
  BY DEF BuildInit, Init, Outside
<1>. QED
  BY <1>1, <1>2, <1>3, StepOutside, BuildInvariance, PTL DEF BuildSpec, CallsAdvance

\* needs_rebuild never skips a target that is out of date and that nothing
\* has fooled, whatever the order of edits, builds, failures and leftover
\* processes (nob.lua 134-147).
THEOREM BuildFresh == BuildSpec => []SkippedIsFresh
BY InvFresh, BuildInvariance, PTL

----------------------------------------------------------------------------
(* A run without an error leaves nothing to do.  The invariant Shape says  *)
(* what the script has reached at each of its steps, and Progress, as long *)
(* as nothing disturbs the run, where an object is that is not up to date: *)
(* not tested yet, in the queue, or being made.                            *)

\* What needs_rebuild finds up to date.
Settled(t) ==
  mtime[t] # 0 /\ \A i \in ToSet(Inputs[t]) : mtime[i] # 0 /\ mtime[i] <= mtime[t]

Shape ==
  /\ DOMAIN read = Cmds
  /\ \A f \in Files : text[f] # Nothing => mtime[f] # 0
  /\ ToSet(todo) \cup ToSet(queue) \subseteq ToSet(Objects)
  /\ step = "test" => pc = "script" /\ \A c \in Cmds : child[c] = "none"
  /\ step = "build" => pc \in {"wait_all", "spin"} /\ todo = <<>>
  /\ step = "link" => /\ todo = <<>> /\ queue = <<>> /\ active = <<>>
                      /\ pc = "script" \/ (pc = "run" /\ waiting = {Program})
  /\ step = "done" => todo = <<>> /\ queue = <<>> /\ Children = {}
  /\ Program \in Children => step = "link"

Progress ==
  /\ orphans = {}
  /\ \A t \in Cmds : child[t] = "running" => read[t] = Snapshot(t)
  /\ \A t \in Cmds : child[t] = "ended" => ExitCode(status[t]) # 0 \/ Settled(t)
  /\ step # "failed" =>
       \A o \in ToSet(Objects) :
         o \in ToSet(todo) \cup ToSet(queue) \cup Children \/ Settled(o)
  /\ step = "done" => Settled(Program)

DoneInv == BuildInv /\ Shape /\ (trouble = "none" => Progress)

LEMMA SettledMeans ==
  ASSUME BuildInv, NEW t \in Cmds
  PROVE  NeedsRebuild(t, Inputs[t]) = "no" <=> Settled(t)
<1>. DEFINE hits == {i \in DOMAIN Inputs[t] :
                       mtime[Inputs[t][i]] = 0 \/ mtime[Inputs[t][i]] > mtime[t]}
<1>1. \A f \in Files : mtime[f] \in Nat
  BY BoundsAssumption DEF BuildInv, BuildTypes, BuildTypeOK
<1>2. NeedsRebuild(t, Inputs[t]) = "no" <=> mtime[t] # 0 /\ hits = {}
  BY DEF NeedsRebuild
<1>3. hits = {} <=> \A i \in ToSet(Inputs[t]) : ~(mtime[i] = 0 \/ mtime[i] > mtime[t])
  BY DEF ToSet
<1>4. \A i \in ToSet(Inputs[t]) : (mtime[i] > mtime[t] <=> ~(mtime[i] <= mtime[t]))
  BY <1>1, InputsAreFiles
<1>. QED
  BY <1>2, <1>3, <1>4 DEF Settled

\* Elements of the objects, of the queue and of what is left to test.
LEMMA ObjectsAre ==
  ASSUME PlainInputs, NEW o \in ToSet(Objects)
  PROVE  o \in Cmds /\ o # Program /\ \A t \in Cmds : t \notin ToSet(Inputs[o])
BY TargetsAssumption, InputsAssumption DEF PlainInputs

LEMMA ChildrenAtLink ==
  ASSUME BuildInv, Shape, step = "link"
  PROVE  Children = waiting /\ (pc = "script" => waiting = {})
<1>1. ToSet(<<>>) = {}
  BY DEF ToSet
<1>. QED
  BY <1>1 DEF BuildInv, BuildTypes, IInv, Waits, ChildrenKnown, Shape

LEMMA InitShape == BuildInit => Shape
<1>1. ToSet(<<>>) = {}
  BY DEF ToSet
<1>. QED
  BY <1>1 DEF BuildInit, Init, Shape, Children, Files, Nothing

\* Files that are not empty have a time.
Stamped == \A f \in Files : text[f] # Nothing => mtime[f] # 0

LEMMA StepStamped ==
  ASSUME BuildInv, Stamped, [BuildNext]_allvars
  PROVE  Stamped'
<1>0. /\ now \in Nat \ {0} /\ mtime \in [Files -> 0 .. now] /\ DOMAIN text = Files
  BY BoundsAssumption DEF BuildInv, BuildTypes, BuildTypeOK
<1>1. ASSUME UNCHANGED files PROVE Stamped'
  BY <1>1 DEF files, Stamped
<1>2. ASSUME NEW f \in Files, NEW x, Store(f, x) PROVE Stamped'
  BY <1>0, <1>2 DEF Store, Stamped
<1>3. ASSUME NEW f \in Files, text' = [text EXCEPT ![f] = Nothing],
             mtime' = [mtime EXCEPT ![f] = 0]
      PROVE  Stamped'
  BY <1>0, <1>3 DEF Stamped
<1>4. ASSUME NEW t \in Cmds, NEW r, NEW ok, Outcome(t, r, ok) PROVE Stamped'
  BY <1>1, <1>2, <1>4, InputsAreFiles DEF Outcome, Write
<1>5. CASE TestObject \/ Build \/ InCall \/ TestProgram \/ RunAgain \/ UNCHANGED allvars
  BY <1>1, <1>5 DEF TestObject, Build, InCall, TestProgram, RunAgain, allvars, bvars
<1>6. ASSUME NEW t \in Cmds, Rm(t) \/ ProcessEnds(t) PROVE Stamped'
  BY <1>3, <1>4, <1>6, InputsAreFiles DEF Rm, ProcessEnds
<1>7. ASSUME NEW p \in orphans, OrphanEnds(p) PROVE Stamped'
  BY <1>4, <1>7 DEF OrphanEnds, BuildInv, BuildTypes
<1>8. ASSUME NEW f \in Sources, Edit(f) \/ Delete(f) PROVE Stamped'
  BY <1>2, <1>3, <1>8 DEF Edit, Delete, Files
<1>9. CASE Tick
  BY <1>9 DEF Tick, Stamped
<1>. QED
  BY <1>5, <1>6, <1>7, <1>8, <1>9 DEF BuildNext

\* What wait_all or Cmd:run does in one step, as the script sees it.
LEMMA CallIs ==
  ASSUME BuildInv, Shape, PlainInputs, CallStep
  PROVE  /\ ToSet(queue') \subseteq ToSet(queue)
         /\ Program \in Children' => Program \in Children
         /\ \/ pc' = pc
            \/ pc = "wait_all" /\ pc' = "spin"
            \/ pc' = "script" /\ raised' # "none"
            \/ pc = "wait_all" /\ pc' = "script" /\ queue' = <<>> /\ active' = <<>> /\ Children' = {}
            \/ pc = "run" /\ pc' = "script" /\ queue' = queue /\ Children' = Children \ waiting
<1>0. TypeOK /\ IInv
  BY DEF BuildInv, BuildTypes, IInv
<1>1. CASE StartNext
  <2>1. /\ queue # <<>> /\ queue' = Tail(queue) /\ pc' = pc
        /\ child' = [child EXCEPT ![Head(queue)] = "running"]
    BY <1>1 DEF StartNext
  <2>2. ToSet(queue) = {Head(queue)} \cup ToSet(Tail(queue))
    BY <1>0, <2>1, ElemsTail DEF TypeOK
  <2>3. Head(queue) # Program
    BY <2>2 DEF Shape, PlainInputs
  <2>. QED
    BY <1>0, <2>1, <2>2, <2>3 DEF Children, TypeOK
<1>2. CASE ForkFails
  <2>1. /\ queue # <<>> /\ queue' = Tail(queue) /\ pc' = "script" /\ raised' # "none"
        /\ child' = child
    BY <1>2 DEF ForkFails
  <2>2. ToSet(queue) = {Head(queue)} \cup ToSet(Tail(queue))
    BY <1>0, <2>1, ElemsTail DEF TypeOK
  <2>. QED
    BY <2>1, <2>2 DEF Children
<1>3. CASE WaitOldest
  BY <1>3 DEF WaitOldest, Children
<1>6. CASE Spin
  BY <1>6 DEF Spin, Looping, Children
<1>4. CASE AllDone
  <2>1. /\ pc = "wait_all" /\ waiting = {} /\ queue = <<>> /\ active = <<>> /\ child' = child
        /\ queue' = queue /\ active' = active /\ pc' = "script"
    BY <1>4 DEF AllDone, Looping
  <2>2. ToSet(active) = {}
    BY <2>1 DEF ToSet
  <2>3. Children = {}
    BY <1>0, <2>1, <2>2 DEF IInv, ChildrenKnown
  <2>. QED
    BY <2>1, <2>3 DEF Children
<1>5. ASSUME NEW c \in Cmds, Reap(c)
      PROVE  /\ queue' = queue
             /\ Children' = Children \ waiting
             /\ pc' = pc \/ (pc' = "script" /\ raised' # "none") \/ (pc = "run" /\ pc' = "script")
  <2>1. /\ c \in waiting /\ child' = [child EXCEPT ![c] = "reaped"] /\ queue' = queue
        /\ pc' = pc \/ (pc' = "script" /\ raised' # "none") \/ (pc = "run" /\ pc' = "script")
    BY <1>5 DEF Reap
  <2>2. waiting = {c}
    BY <1>0, <2>1 DEF IInv, Waits, TypeOK
  <2>3. Children' = Children \ {c}
    BY <1>0, <2>1 DEF Children, TypeOK
  <2>. QED
    BY <2>1, <2>2, <2>3
<1>. QED
  BY <1>1, <1>2, <1>3, <1>4, <1>5, <1>6 DEF CallStep

LEMMA StepShape ==
  ASSUME BuildInv, Shape, PlainInputs, [BuildNext]_allvars
  PROVE  Shape'
<1>0. /\ Stamped' /\ TypeOK /\ IInv /\ todo \in Seq(Cmds) /\ queue \in Seq(Cmds)
  BY StepStamped DEF Shape, Stamped, BuildInv, BuildTypes, IInv, TypeOK
<1>1. ASSUME UNCHANGED <<vars, read, todo, step>> PROVE Shape'
  BY <1>0, <1>1 DEF Shape, Stamped, vars, Children
<1>2. CASE UNCHANGED allvars \/ Tick
  BY <1>1, <1>2 DEF allvars, bvars, Tick
<1>3. ASSUME NEW t \in Cmds, Rm(t) PROVE Shape'
  BY <1>1, <1>3 DEF Rm
<1>4. ASSUME NEW p \in orphans, OrphanEnds(p) PROVE Shape'
  BY <1>1, <1>4 DEF OrphanEnds
<1>5. ASSUME NEW f \in Sources, Edit(f) \/ Delete(f) PROVE Shape'
  BY <1>1, <1>5 DEF Edit, Delete
<1>6. ASSUME NEW t \in Cmds, ProcessEnds(t) PROVE Shape'
  <2>1. /\ child[t] = "running" /\ child' = [child EXCEPT ![t] = "ended"]
        /\ read' = [read EXCEPT ![t] = Nothing]
        /\ UNCHANGED <<script, todo, step>>
    BY <1>6 DEF ProcessEnds, End
  <2>2. step # "test" /\ Children' = Children
    BY <1>0, <2>1 DEF Shape, Children, TypeOK
  <2>. QED
    BY <1>0, <2>1, <2>2 DEF Shape, Stamped, script
<1>7. CASE TestObject
  <2>. DEFINE o == Head(todo)
  <2>1. /\ todo # <<>> /\ todo' = Tail(todo) /\ step = "test" /\ step' \in {"test", "failed"}
        /\ read' = read
        /\ AppendCmd(o) \/ UNCHANGED vars
    BY <1>7 DEF TestObject
  <2>2. pc' = pc /\ child' = child /\ (queue' = queue \/ queue' = Append(queue, o))
    BY <2>1 DEF AppendCmd, vars
  <2>3. o \in Cmds /\ ToSet(todo) = {o} \cup ToSet(todo')
    BY <1>0, <2>1, ElemsTail
  <2>4. ToSet(queue') \subseteq ToSet(queue) \cup {o}
    <3>1. ToSet(Append(queue, o)) = ToSet(queue) \cup {o}
      BY <1>0, <2>3, ElemsAppend
    <3>. QED
      BY <2>2, <3>1
  <2>5. ToSet(todo') \cup ToSet(queue') \subseteq ToSet(Objects)
    BY <2>3, <2>4 DEF Shape
  <2>6. Children' = Children /\ Program \notin Children
    BY <2>1, <2>2 DEF Shape, Children
  <2>. QED
    BY <1>0, <2>1, <2>2, <2>5, <2>6 DEF Shape, Stamped
<1>8. CASE Build
  <2>1. /\ step = "test" /\ todo = <<>> /\ pc' = "wait_all" /\ step' = "build"
        /\ UNCHANGED <<queue, active, waiting, child, todo, read>>
    BY <1>8 DEF Build, WaitAll
  <2>. QED
    BY <1>0, <2>1 DEF Shape, Stamped, Children
<1>9. CASE InCall
  <2>1. /\ step \in {"build", "link"} /\ pc # "script" /\ CallStep /\ todo' = todo
        /\ step' = IF pc' # "script" THEN step
                   ELSE IF raised' # "none" THEN "failed"
                   ELSE IF step = "build" THEN "link" ELSE "done"
        /\ DOMAIN read' = Cmds
    BY <1>9 DEF InCall, ReadInputs
  <2>2. /\ ToSet(queue') \subseteq ToSet(queue)
        /\ Program \in Children' => Program \in Children
        /\ \/ pc' = pc
           \/ pc = "wait_all" /\ pc' = "spin"
           \/ pc' = "script" /\ raised' # "none"
           \/ pc = "wait_all" /\ pc' = "script" /\ queue' = <<>> /\ active' = <<>> /\ Children' = {}
           \/ pc = "run" /\ pc' = "script" /\ queue' = queue /\ Children' = Children \ waiting
    BY <2>1, CallIs
  <2>3. CASE step = "build"
    BY <1>0, <2>1, <2>2, <2>3 DEF Shape, Stamped
  <2>4. CASE step = "link"
    <3>1. pc = "run" /\ waiting = {Program} /\ todo = <<>> /\ queue = <<>> /\ active = <<>>
      BY <2>1, <2>4 DEF Shape
    <3>2. Children = {Program}
      BY <2>4, <3>1, ChildrenAtLink
    <3>3. PICK c \in Cmds : Reap(c)
      BY <2>1, <3>1 DEF CallStep, StartNext, ForkFails, WaitOldest, Spin, AllDone, Looping
    <3>4. pc' = "script" /\ queue' = queue /\ c = Program
          /\ child' = [child EXCEPT ![Program] = "reaped"]
      BY <3>1, <3>3 DEF Reap
    <3>5. Children' = {}
      BY <1>0, <3>2, <3>3, <3>4 DEF Children, TypeOK
    <3>. QED
      BY <1>0, <2>1, <2>2, <2>4, <3>1, <3>4, <3>5 DEF Shape, Stamped
  <2>. QED
    BY <2>1, <2>3, <2>4
<1>10. CASE TestProgram
  <2>1. /\ step = "link" /\ pc = "script" /\ todo' = todo /\ DOMAIN read' = Cmds
        /\ \/ Run(Program) /\ step' = step
           \/ RunForkFails /\ step' = "failed"
           \/ step' \in {"done", "failed"} /\ UNCHANGED vars
    BY <1>10 DEF TestProgram, ReadInputs
  <2>2. todo = <<>> /\ queue = <<>> /\ active = <<>> /\ Children = {}
    BY <2>1, ChildrenAtLink DEF Shape
  <2>3. CASE Run(Program) /\ step' = step
    <3>1. pc' = "run" /\ waiting' = {Program} /\ queue' = queue /\ active' = active
      BY <2>3 DEF Run
    <3>. QED
      BY <1>0, <2>1, <2>2, <2>3, <3>1 DEF Shape, Stamped
  <2>4. CASE RunForkFails /\ step' = "failed"
    <3>1. child' = child /\ queue' = queue
      BY <2>4 DEF RunForkFails
    <3>. QED
      BY <1>0, <2>1, <2>2, <2>4, <3>1 DEF Shape, Stamped, Children
  <2>5. CASE step' \in {"done", "failed"} /\ UNCHANGED vars
    BY <1>0, <2>1, <2>2, <2>5 DEF Shape, Stamped, vars, Children
  <2>. QED
    BY <2>1, <2>3, <2>4, <2>5
<1>11. CASE RunAgain
  <2>1. /\ step' = "test" /\ pc' = "script" /\ child' = [c \in Cmds |-> "none"]
        /\ todo' = Objects /\ queue' = <<>> /\ read' = [t \in Cmds |-> Nothing]
    BY <1>11 DEF RunAgain
  <2>2. ToSet(queue') = {} /\ Children' = {}
    BY <2>1 DEF ToSet, Children
  <2>. QED
    BY <1>0, <2>1, <2>2 DEF Shape, Stamped
<1>. QED
  BY <1>2, <1>3, <1>4, <1>5, <1>6, <1>7, <1>8, <1>9, <1>10, <1>11 DEF BuildNext

\* A target stays up to date while neither it nor an input is written.
LEMMA StaysSettled ==
  ASSUME NEW u \in Cmds, NEW F,
         \A f \in Files \ F : mtime'[f] = mtime[f], u \notin F,
         \A i \in ToSet(Inputs[u]) : i \notin F
  PROVE  Settled(u)' <=> Settled(u)
BY InputsAreFiles DEF Settled

\* A step that changes no file.
LEMMA FilesStay ==
  ASSUME UNCHANGED files
  PROVE  \A t \in Cmds : (Settled(t)' <=> Settled(t)) /\ Snapshot(t)' = Snapshot(t)
BY DEF files, Settled, Snapshot

LEMMA ProgressCall ==
  ASSUME BuildInv, Shape, PlainInputs, InCall, Progress
  PROVE  Progress'
<1>0. /\ TypeOK /\ IInv /\ \A t \in Cmds : (Settled(t)' <=> Settled(t)) /\ Snapshot(t)' = Snapshot(t)
  BY FilesStay DEF InCall, BuildInv, BuildTypes, IInv
<1>1. /\ step \in {"build", "link"} /\ pc # "script" /\ CallStep /\ todo' = todo
      /\ orphans' = orphans
      /\ step' = IF pc' # "script" THEN step
                 ELSE IF raised' # "none" THEN "failed"
                 ELSE IF step = "build" THEN "link" ELSE "done"
      /\ read' = [t \in Cmds |-> IF child[t] = "none" /\ child'[t] = "running"
                                 THEN Snapshot(t) ELSE read[t]]
  BY DEF InCall, ReadInputs
<1>2. ASSUME NEW t \in Cmds
      PROVE  /\ child'[t] = "running" => child[t] \in {"none", "running"}
             /\ child'[t] = "ended" => child[t] = "ended"
             /\ status'[t] = status[t]
  <2>1. CASE StartNext
    BY <1>0, <2>1, QueueHead DEF StartNext, TypeOK
  <2>2. CASE ForkFails \/ WaitOldest \/ Spin \/ AllDone
    BY <2>2 DEF ForkFails, WaitOldest, Spin, AllDone
  <2>3. ASSUME NEW c \in Cmds, Reap(c) PROVE child'[t] \in {child[t], "reaped"} /\ status' = status
    BY <1>0, <2>3 DEF Reap, TypeOK
  <2>. QED
    BY <1>1, <2>1, <2>2, <2>3 DEF CallStep
<1>3. \A t \in Cmds : child'[t] = "running" => read'[t] = Snapshot(t)'
  BY <1>0, <1>1, <1>2 DEF Progress
<1>4. \A t \in Cmds : child'[t] = "ended" => ExitCode(status'[t]) # 0 \/ Settled(t)'
  BY <1>0, <1>2 DEF Progress
<1>5. ASSUME NEW c \in Cmds, Reap(c), step' # "failed" PROVE Settled(c)
  <2>1. child[c] = "ended" /\ ~(pc' = "script" /\ raised' # "none")
    BY <1>1, <1>5 DEF Reap
  <2>2. ExitCode(status[c]) = 0
    BY <1>5, <2>1 DEF Reap
  <2>. QED
    BY <2>1, <2>2 DEF Progress
<1>6. ASSUME NEW o \in ToSet(Objects), step' # "failed"
      PROVE  o \in ToSet(todo') \cup ToSet(queue') \cup Children' \/ Settled(o)'
  <2>0. o \in Cmds /\ (o \in ToSet(todo) \cup ToSet(queue) \cup Children \/ Settled(o))
    BY <1>1, <1>6, ObjectsAre DEF Progress
  <2>1. CASE StartNext
    <3>1. /\ queue # <<>> /\ queue' = Tail(queue)
          /\ child' = [child EXCEPT ![Head(queue)] = "running"]
      BY <2>1 DEF StartNext
    <3>2. ToSet(queue) = {Head(queue)} \cup ToSet(queue')
      BY <1>0, <3>1, ElemsTail DEF TypeOK
    <3>3. Head(queue) \in Cmds /\ Children' = Children \cup {Head(queue)}
      BY <1>0, <3>1, QueueHead DEF Children, TypeOK
    <3>. QED
      BY <1>0, <1>1, <2>0, <3>2, <3>3
  <2>2. ~ForkFails
    BY <1>1, <1>6 DEF ForkFails
  <2>3. CASE WaitOldest \/ Spin \/ AllDone
    BY <1>0, <1>1, <2>0, <2>3 DEF WaitOldest, Spin, AllDone, Children
  <2>4. ASSUME NEW c \in Cmds, Reap(c)
        PROVE  o \in ToSet(todo') \cup ToSet(queue') \cup Children' \/ Settled(o)'
    <3>1. queue' = queue /\ child' = [child EXCEPT ![c] = "reaped"]
      BY <2>4 DEF Reap
    <3>2. Children \ {c} \subseteq Children'
      BY <1>0, <3>1 DEF Children, TypeOK
    <3>. QED
      BY <1>0, <1>1, <1>5, <1>6, <2>0, <2>4, <3>1, <3>2
  <2>. QED
    BY <1>1, <2>1, <2>2, <2>3, <2>4 DEF CallStep
<1>7. ASSUME step' = "done" PROVE Settled(Program)'
  <2>1. step = "link" /\ pc = "run" /\ waiting = {Program}
    BY <1>1, <1>7 DEF Shape
  <2>2. PICK c \in Cmds : Reap(c)
    BY <1>1, <2>1 DEF CallStep, StartNext, ForkFails, WaitOldest, Spin, AllDone, Looping
  <2>3. c = Program
    BY <2>1, <2>2 DEF Reap
  <2>. QED
    BY <1>0, <1>5, <1>7, <2>2, <2>3
<1>. QED
  BY <1>1, <1>3, <1>4, <1>6, <1>7 DEF Progress

LEMMA ProgressEnds ==
  ASSUME BuildInv, Shape, PlainInputs, NEW t \in Cmds, ProcessEnds(t), trouble' = "none",
         Progress
  PROVE  Progress'
<1>0. /\ TypeOK /\ IInv /\ now \in Nat \ {0} /\ mtime \in [Files -> 0 .. now]
      /\ DOMAIN text = Files /\ DOMAIN read = Cmds
  BY BoundsAssumption DEF BuildInv, BuildTypes, BuildTypeOK, IInv, Shape
<1>1. /\ child[t] = "running" /\ child' = [child EXCEPT ![t] = "ended"]
      /\ read' = [read EXCEPT ![t] = Nothing]
      /\ Outcome(t, read[t], status'[t] = 0)
      /\ UNCHANGED <<script, todo, step, orphans>>
  BY DEF ProcessEnds, End
<1>2. \A c \in Cmds \ {t} : status'[c] = status[c]
  BY <1>0 DEF ProcessEnds, End, TypeOK
<1>3. status'[t] = 0 \/ ExitCode(status'[t]) # 0
  BY DEF ProcessEnds, Unnoticed
<1>4. \A f \in Files \ {t} : mtime'[f] = mtime[f] /\ text'[f] = text[f]
  BY <1>0, <1>1 DEF Outcome, Write, Store, files
<1>5. Children' = Children /\ t \in Children
  BY <1>0, <1>1 DEF Children, TypeOK
<1>6. step # "test" /\ step # "done"
  BY <1>0, <1>1, <1>5 DEF Shape, TypeOK
\* The program is made when nothing else is.
<1>7. ASSUME NEW u \in Cmds \ {t}, u \in Children PROVE t \notin ToSet(Inputs[u])
  <2>1. CASE u \in ToSet(Objects)
    BY <2>1, ObjectsAre
  <2>2. CASE u = Program
    <3>1. Children = waiting /\ waiting \subseteq {Program}
      BY <1>7, <2>2, ChildrenAtLink DEF Shape
    <3>. QED
      BY <1>5, <1>7, <2>2, <3>1
  <2>. QED
    BY <2>1, <2>2, TargetsAssumption
<1>8. ASSUME NEW u \in Cmds \ {t}, t \notin ToSet(Inputs[u])
      PROVE  (Settled(u)' <=> Settled(u)) /\ Snapshot(u)' = Snapshot(u)
  <2>1. Settled(u)' <=> Settled(u)
    BY <1>4, <1>8, StaysSettled
  <2>2. \A i \in ToSet(Inputs[u]) : text'[i] = text[i]
    BY <1>4, <1>8, InputsAreFiles
  <2>. QED
    BY <2>1, <2>2 DEF Snapshot
<1>9. ASSUME status'[t] = 0 PROVE Settled(t)'
  <2>1. /\ \A i \in DOMAIN read[t] : read[t][i] # Nothing
        /\ Store(t, read[t])
    BY <1>1, <1>9 DEF Outcome, Write
  <2>2. read[t] = Snapshot(t)
    BY <1>1 DEF Progress
  <2>3. \A i \in ToSet(Inputs[t]) : i \in Files /\ i # t /\ text[i] # Nothing
    BY <2>1, <2>2, InputsAreFiles DEF Snapshot
  <2>4. \A i \in ToSet(Inputs[t]) : mtime'[i] = mtime[i] /\ mtime[i] # 0 /\ mtime[i] <= now
    BY <1>0, <1>4, <2>3 DEF Shape
  <2>5. mtime'[t] = now
    BY <1>0, <2>1, InputsAreFiles DEF Store
  <2>. QED
    BY <1>0, <2>4, <2>5 DEF Settled
<1>10. \A u \in Cmds : child'[u] = "running" => read'[u] = Snapshot(u)'
  <2>. SUFFICES ASSUME NEW u \in Cmds, child'[u] = "running" PROVE read'[u] = Snapshot(u)'
    OBVIOUS
  <2>1. u # t /\ child[u] = "running" /\ read'[u] = read[u]
    BY <1>0, <1>1 DEF TypeOK
  <2>2. Snapshot(u)' = Snapshot(u)
    BY <1>7, <1>8, <2>1 DEF Children
  <2>. QED
    BY <2>1, <2>2 DEF Progress
<1>11. \A u \in Cmds : child'[u] = "ended" => ExitCode(status'[u]) # 0 \/ Settled(u)'
  <2>. SUFFICES ASSUME NEW u \in Cmds, child'[u] = "ended"
                PROVE  ExitCode(status'[u]) # 0 \/ Settled(u)'
    OBVIOUS
  <2>1. CASE u = t
    BY <1>3, <1>9, <2>1
  <2>2. CASE u # t
    <3>1. child[u] = "ended"
      BY <1>0, <1>1, <2>2 DEF TypeOK
    <3>2. Settled(u)' <=> Settled(u)
      BY <1>7, <1>8, <2>2, <3>1 DEF Children
    <3>. QED
      BY <1>2, <2>2, <3>1, <3>2 DEF Progress
  <2>. QED
    BY <2>1, <2>2
<1>12. ASSUME step' # "failed", NEW o \in ToSet(Objects)
       PROVE  o \in ToSet(todo') \cup ToSet(queue') \cup Children' \/ Settled(o)'
  <2>1. o \in Cmds /\ t \notin ToSet(Inputs[o])
    BY ObjectsAre
  <2>2. o \in ToSet(todo) \cup ToSet(queue) \cup Children \/ Settled(o)
    BY <1>1, <1>12 DEF Progress
  <2>3. todo' = todo /\ queue' = queue
    BY <1>1 DEF script
  <2>. QED
    BY <1>5, <1>8, <2>1, <2>2, <2>3
<1>. QED
  BY <1>1, <1>6, <1>10, <1>11, <1>12 DEF Progress

\* An object is tested.
LEMMA ProgressTest ==
  ASSUME BuildInv, Shape, PlainInputs, TestObject, trouble' = "none", trouble = "none" => Progress
  PROVE  trouble = "none" /\ Progress'
<1>. DEFINE o == Head(todo)
<1>0. /\ todo \in Seq(Cmds) /\ queue \in Seq(Cmds)
      /\ \A t \in Cmds : (Settled(t)' <=> Settled(t)) /\ Snapshot(t)' = Snapshot(t)
  BY FilesStay DEF TestObject, BuildInv, BuildTypes, IInv, TypeOK
<1>1. PICK deps \in Dependencies(o) :
        LET answer == NeedsRebuild(o, deps)
        IN  /\ trouble' = IF deps = Inputs[o] THEN trouble ELSE Unnoticed
            /\ step' = IF answer = "error" THEN "failed" ELSE step
            /\ IF answer = "yes" THEN AppendCmd(o) ELSE UNCHANGED vars
  BY DEF TestObject
<1>2. Unnoticed # "none"
  BY DEF Unnoticed
<1>3. deps = Inputs[o] /\ trouble = "none"
  BY <1>1, <1>2
<1>4. /\ step = "test" /\ step' \in {"test", "failed"} /\ todo # <<>> /\ todo' = Tail(todo)
      /\ orphans' = orphans /\ read' = read
  BY <1>1 DEF TestObject
<1>5. o \in Cmds /\ ToSet(todo) = {o} \cup ToSet(todo')
  BY <1>0, <1>4, ElemsTail
<1>6. child' = child /\ status' = status /\ (queue' = queue \/ queue' = Append(queue, o))
  BY <1>1 DEF AppendCmd, vars
<1>7. ToSet(Append(queue, o)) = ToSet(queue) \cup {o}
  BY <1>0, <1>5, ElemsAppend
<1>8. step' # "failed" => o \in ToSet(queue') \/ Settled(o)
  <2>1. CASE NeedsRebuild(o, deps) = "yes"
    BY <1>1, <1>7, <2>1 DEF AppendCmd
  <2>2. CASE NeedsRebuild(o, deps) = "no"
    BY <1>3, <1>5, <2>2, SettledMeans
  <2>3. CASE NeedsRebuild(o, deps) = "error"
    BY <1>1, <2>3
  <2>. QED
    BY <2>1, <2>2, <2>3 DEF NeedsRebuild
<1>9. ASSUME step' # "failed", NEW u \in ToSet(Objects)
      PROVE  u \in ToSet(todo') \cup ToSet(queue') \cup Children' \/ Settled(u)'
  <2>1. u \in Cmds /\ (u \in ToSet(todo) \cup ToSet(queue) \cup Children \/ Settled(u))
    BY <1>3, <1>4, ObjectsAre DEF Progress
  <2>. QED
    BY <1>0, <1>5, <1>6, <1>7, <1>8, <1>9, <2>1 DEF Children
<1>. QED
  BY <1>0, <1>3, <1>4, <1>6, <1>9 DEF Progress

\* The program is tested, and made.
LEMMA ProgressProgram ==
  ASSUME BuildInv, Shape, PlainInputs, TestProgram, Progress
  PROVE  Progress'
<1>0. /\ TypeOK
      /\ \A t \in Cmds : (Settled(t)' <=> Settled(t)) /\ Snapshot(t)' = Snapshot(t)
  BY FilesStay DEF TestProgram, BuildInv, BuildTypes, IInv
<1>1. /\ step = "link" /\ todo' = todo /\ orphans' = orphans
      /\ read' = [t \in Cmds |-> IF child[t] = "none" /\ child'[t] = "running"
                                 THEN Snapshot(t) ELSE read[t]]
      /\ \/ Run(Program) /\ step' = step
         \/ RunForkFails /\ step' = "failed"
         \/ NeedsRebuild(Program, Inputs[Program]) = "no" /\ step' = "done" /\ UNCHANGED vars
         \/ step' = "failed" /\ UNCHANGED vars
  BY DEF TestProgram, ReadInputs
<1>2. CASE Run(Program) /\ step' = step
  <2>1. /\ child[Program] = "none" /\ child' = [child EXCEPT ![Program] = "running"]
        /\ queue' = queue /\ status' = status
    BY <1>2 DEF Run, Fresh
  <2>2. Children \subseteq Children'
    BY <1>0, <2>1 DEF Children, TypeOK
  <2>3. \A t \in Cmds : child'[t] = "running" => read'[t] = Snapshot(t)'
    BY <1>0, <1>1, <2>1 DEF Progress, TypeOK
  <2>4. \A t \in Cmds : child'[t] = "ended" => child[t] = "ended"
    BY <1>0, <2>1 DEF TypeOK
  <2>5. ASSUME NEW u \in ToSet(Objects)
        PROVE  u \in ToSet(todo') \cup ToSet(queue') \cup Children' \/ Settled(u)'
    BY <1>0, <1>1, <2>1, <2>2, ObjectsAre DEF Progress
  <2>. QED
    BY <1>0, <1>1, <1>2, <2>1, <2>3, <2>4, <2>5 DEF Progress
<1>3. CASE step' \in {"done", "failed"} /\ child' = child /\ status' = status /\ queue' = queue
  <2>1. step' = "done" => Settled(Program)'
    BY <1>0, <1>1, SettledMeans, TargetsAssumption
  <2>2. \A t \in Cmds : read'[t] = read[t]
    BY <1>1, <1>3
  <2>3. ASSUME NEW u \in ToSet(Objects)
        PROVE  u \in ToSet(todo') \cup ToSet(queue') \cup Children' \/ Settled(u)'
    BY <1>0, <1>1, <1>3, ObjectsAre DEF Progress, Children
  <2>. QED
    BY <1>0, <1>1, <1>3, <2>1, <2>2, <2>3 DEF Progress
<1>. QED
  BY <1>1, <1>2, <1>3 DEF RunForkFails, vars

LEMMA StepProgress ==
  ASSUME BuildInv, Shape, PlainInputs, trouble = "none" => Progress, [BuildNext]_allvars,
         trouble' = "none"
  PROVE  Progress'
<1>1. ASSUME UNCHANGED <<files, child, status, queue, todo, step, orphans, read, trouble>>
      PROVE  Progress'
  <2>1. \A t \in Cmds : (Settled(t)' <=> Settled(t)) /\ Snapshot(t)' = Snapshot(t)
    BY <1>1, FilesStay
  <2>2. Progress /\ Children' = Children /\ Program \in Cmds
    BY <1>1, TargetsAssumption DEF Children
  <2>3. ASSUME NEW u \in ToSet(Objects), step # "failed"
        PROVE  u \in ToSet(todo') \cup ToSet(queue') \cup Children' \/ Settled(u)'
    BY <1>1, <2>1, <2>2, <2>3, ObjectsAre DEF Progress
  <2>. QED
    BY <1>1, <2>1, <2>2, <2>3 DEF Progress
<1>2. CASE UNCHANGED allvars
  BY <1>1, <1>2 DEF allvars, bvars, vars
<1>3. CASE Tick
  <2>1. \A t \in Cmds : (Settled(t)' <=> Settled(t)) /\ Snapshot(t)' = Snapshot(t)
    BY <1>3 DEF Tick, Settled, Snapshot
  <2>2. /\ UNCHANGED <<child, status, queue, todo, step, orphans, read, trouble>>
        /\ Progress /\ Children' = Children /\ Program \in Cmds
    BY <1>3, TargetsAssumption DEF Tick, vars, Children
  <2>3. ASSUME NEW u \in ToSet(Objects), step # "failed"
        PROVE  u \in ToSet(todo') \cup ToSet(queue') \cup Children' \/ Settled(u)'
    BY <2>1, <2>2, <2>3, ObjectsAre DEF Progress
  <2>. QED
    BY <2>1, <2>2, <2>3 DEF Progress
<1>4. CASE TestObject
  BY <1>4, ProgressTest
<1>5. CASE Build
  <2>1. /\ UNCHANGED <<files, child, status, queue, todo, orphans, read, trouble>>
        /\ step = "test" /\ step' = "build"
    BY <1>5 DEF Build, WaitAll
  <2>2. \A t \in Cmds : (Settled(t)' <=> Settled(t)) /\ Snapshot(t)' = Snapshot(t)
    BY <2>1, FilesStay
  <2>3. Progress /\ Children' = Children /\ Program \in Cmds
    BY <2>1, TargetsAssumption DEF Children
  <2>4. ASSUME NEW u \in ToSet(Objects)
        PROVE  u \in ToSet(todo') \cup ToSet(queue') \cup Children' \/ Settled(u)'
    BY <2>1, <2>2, <2>3, ObjectsAre DEF Progress
  <2>. QED
    BY <2>1, <2>2, <2>3, <2>4 DEF Progress
<1>6. CASE InCall
  BY <1>6, ProgressCall DEF InCall
<1>7. CASE TestProgram
  BY <1>7, ProgressProgram DEF TestProgram
<1>8. CASE RunAgain
  <2>1. /\ orphans' = {} /\ child' = [c \in Cmds |-> "none"] /\ todo' = Objects /\ step' = "test"
    BY <1>8 DEF RunAgain
  <2>. QED
    BY <2>1 DEF Progress
<1>9. ASSUME NEW t \in Cmds, Rm(t) PROVE Progress'
  <2>1. /\ step = "test" /\ todo' = Objects /\ UNCHANGED <<vars, orphans, step, trouble>>
    BY <1>9 DEF Rm
  <2>2. Progress /\ \A c \in Cmds : child'[c] = "none"
    BY <2>1 DEF Shape, vars
  <2>. QED
    BY <2>1, <2>2 DEF Progress
<1>10. ASSUME NEW t \in Cmds, ProcessEnds(t) PROVE Progress'
  <2>1. trouble = "none"
    BY <1>10 DEF ProcessEnds, Unnoticed
  <2>. QED
    BY <1>10, <2>1, ProgressEnds
<1>11. ASSUME NEW p \in orphans, OrphanEnds(p) PROVE Progress'
  BY <1>11 DEF OrphanEnds, Progress
<1>12. ASSUME NEW f \in Sources, Edit(f) \/ Delete(f) PROVE Progress'
  BY <1>12 DEF Edit, Delete
<1>. QED
  BY <1>2, <1>3, <1>4, <1>5, <1>6, <1>7, <1>8, <1>9, <1>10, <1>11, <1>12 DEF BuildNext

LEMMA InitProgress == BuildInit => Progress
BY DEF BuildInit, Init, Progress

LEMMA DoneIsCurrent ==
  ASSUME DoneInv, PlainInputs
  PROVE  DoneMeansCurrent
<1>. SUFFICES ASSUME step = "done", trouble = "none", fooled = {}, NEW t \in Cmds
              PROVE  NeedsRebuild(t, Inputs[t]) = "no" /\ Current(t)
  BY DEF DoneMeansCurrent
<1>0. BuildInv /\ Shape /\ Progress
  BY DEF DoneInv
<1>1. ToSet(todo) \cup ToSet(queue) \cup Children = {}
  BY <1>0 DEF Shape, ToSet
<1>2. Settled(t)
  BY <1>0, <1>1, TargetsAssumption DEF Progress
<1>3. NeedsRebuild(t, Inputs[t]) = "no"
  BY <1>0, <1>2, SettledMeans
<1>. QED
  BY <1>0, <1>3, InvFresh DEF SkippedIsFresh

\* A run of the script that nothing has disturbed and that ends without an
\* error has made every target from the sources as they are, whatever the
\* runs before it have left, for any number of objects (nob.lua 134, 290,
\* 335), if the objects are made from sources alone.
THEOREM BuildDone ==
  ASSUME PlainInputs
  PROVE  BuildSpec => []DoneMeansCurrent
<1>1. BuildInit => DoneInv
  BY InitBuildInv, InitShape, InitProgress DEF DoneInv
<1>2. DoneInv /\ [BuildNext]_allvars => DoneInv'
  <2>1. BuildInv /\ [BuildNext]_allvars => BuildInv'
    BY StepTypes, StepFiles DEF BuildInv, FilesInv
  <2>. QED
    BY <2>1, StepShape, StepProgress DEF DoneInv
<1>3. DoneInv => DoneMeansCurrent
  BY DoneIsCurrent
<1>. QED
  BY <1>1, <1>2, <1>3, PTL DEF BuildSpec
=============================================================================
