----------------------------- MODULE StrProofs -----------------------------
(***************************************************************************)
(* Proofs about Str.  The invariant CapIsBlock is inductive once the first *)
(* capacity is positive, and NoOverrun follows from it: a growth test that *)
(* passes leaves room for what is about to be stored, and one that fails   *)
(* replaces the block by one that does.                                    *)
(***************************************************************************)
EXTENDS Str, TLAPS

IInv == TypeOK /\ NoOverrun /\ CapIsBlock

\* The conversion to int changes nothing that fits.
LEMMA ToIntPlain ==
  ASSUME NEW n \in 0 .. IntMax
  PROVE  ToInt(n) = n
<1>1. n + IntMax + 1 \in 0 .. 2 * (IntMax + 1) - 1
  BY IntMaxAssumption
<1>2. \A k \in Nat \ {0} : \A m \in 0 .. k - 1 : m % k = m
  OBVIOUS
<1>3. (n + IntMax + 1) % (2 * (IntMax + 1)) = n + IntMax + 1
  BY <1>1, <1>2, IntMaxAssumption
<1>. QED
  BY <1>3, IntMaxAssumption DEF ToInt

LEMMA InitEstablishes ==
  ASSUME PlainSizes, Init
  PROVE  IInv
<1>1. PICK arg \in {-1} \cup (Nat \ {0}) : StrInit(arg)
  <2>1. CASE \E s \in InSizes : StrInit(ToInt(2 * s))
    <3>1. PICK s \in InSizes : StrInit(ToInt(2 * s))
      BY <2>1
    <3>2. 2 * s \in 0 .. IntMax /\ 2 * s # 0
      BY InSizesAssumption, IntMaxAssumption DEF PlainSizes
    <3>3. ToInt(2 * s) = 2 * s
      BY <3>2, ToIntPlain
    <3>. QED
      BY <3>1, <3>2, <3>3
  <2>2. CASE \E a \in OtherArgs : StrInit(a)
    BY <2>2, OtherArgsAssumption
  <2>. QED
    BY <2>1, <2>2 DEF Init
<1>. QED
  BY <1>1 DEF StrInit, Alloc, IInv, TypeOK, NoOverrun, Fault, CapIsBlock

LEMMA StepPreserves ==
  ASSUME IInv, [Next]_vars
  PROVE  IInv'
<1>. USE DEF IInv, TypeOK, NoOverrun, Fault, CapIsBlock
<1>1. CASE StrPushChr
  BY <1>1 DEF StrPushChr, Grow, Alloc
<1>2. ASSUME NEW n \in Chunks, StrPush(n)
      PROVE  IInv'
  BY <1>2, ChunksAssumption DEF StrPush, Grow, Alloc
<1>3. CASE StrPopChr
  BY <1>3 DEF StrPopChr
<1>4. CASE StrClear
  BY <1>4 DEF StrClear
<1>5. CASE StrDeinit
  <2>1. ~live' /\ len' = 0 /\ cap' = 0 /\ block' = 0 /\ top' = top
    BY <1>5, Zenon DEF StrDeinit
  <2>2. NoOverrun' /\ CapIsBlock'
    BY <2>1, Zenon
  <2>3. live' \in BOOLEAN
    BY <1>5, Zenon DEF StrDeinit
  <2>. QED
    BY <2>1, <2>2, <2>3
<1>6. CASE UNCHANGED vars
  BY <1>6 DEF vars
<1>. QED
  BY <1>1, <1>2, <1>3, <1>4, <1>5, <1>6 DEF Next

\* For every template whose size is positive and at most IntMax \div 2, and
\* for every sequence of operations, no store leaves the allocation and the
\* capacity str_t records is the size of its block (str.c 3-57).
THEOREM StrSafe ==
  ASSUME PlainSizes
  PROVE  Spec => [](TypeOK /\ NoOverrun /\ CapIsBlock)
<1>1. Init => IInv
  BY InitEstablishes
<1>2. IInv /\ [Next]_vars => IInv'
  BY StepPreserves
<1>3. IInv => TypeOK /\ NoOverrun /\ CapIsBlock
  BY DEF IInv
<1>. QED
  BY <1>1, <1>2, <1>3, PTL DEF Spec
=============================================================================
