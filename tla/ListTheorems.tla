--------------------------- MODULE ListTheorems ---------------------------
(***************************************************************************)
(* Facts about natural numbers and sequences that several proofs rest on:  *)
(* smallest elements, sequences put together, and what FlattenSeq of the   *)
(* community modules computes.  It is defined by recursion; its value is   *)
(* found by induction, stated for sets of natural numbers.                 *)
(***************************************************************************)
EXTENDS Naturals, Sequences, SequencesExt, SequenceTheorems, WellFoundedInduction, TLAPS

\* Every set of natural numbers that is not empty has a smallest element.
LEMMA SmallestElement ==
  ASSUME NEW T, T \subseteq Nat, T # {}
  PROVE  \E x \in T : \A y \in T : x <= y
<1>1. PICK x \in T : \A y \in T : ~ (<<y, x>> \in OpToRel(<, Nat))
  <2>1. IsWellFoundedOn(OpToRel(<, Nat), Nat)
    BY NatLessThanWellFounded
  <2>. HIDE DEF OpToRel
  <2>. QED
    BY <2>1, WFMin
<1>2. \A y \in T : ~(y < x)
  BY <1>1 DEF OpToRel
<1>3. \A y \in T : x <= y
  BY <1>2
<1>. QED
  BY <1>3

\* If its elements are at most n, it has a greatest.
LEMMA GreatestElement ==
  ASSUME NEW n \in Nat, NEW T, T \subseteq 0 .. n, T # {}
  PROVE  \E x \in T : \A y \in T : x >= y
<1>. DEFINE U == {k \in 0 .. n : n - k \in T}
<1>0. U \subseteq Nat
  OBVIOUS
<1>1. U # {}
  <2>1. PICK x \in T : TRUE
    OBVIOUS
  <2>2. n - x \in 0 .. n /\ n - (n - x) = x
    BY <2>1
  <2>3. n - x \in U
    BY <2>1, <2>2
  <2>. QED
    BY <2>3
<1>2. PICK k \in U : \A j \in U : k <= j
  <2>. HIDE DEF U
  <2>. QED
    BY <1>0, <1>1, SmallestElement
<1>3. ASSUME NEW y \in T PROVE n - k >= y
  <2>1. n - y \in U /\ y \in 0 .. n /\ k \in 0 .. n
    <3>1. n - y \in 0 .. n /\ n - (n - y) = y
      BY <1>3
    <3>. QED
      BY <3>1
  <2>2. k <= n - y
    BY <1>2, <2>1
  <2>. QED
    BY <2>1, <2>2
<1>. QED
  BY <1>2, <1>3

\* A set of natural numbers that has 0 and is closed under successor has all.
LEMMA SetInduction ==
  ASSUME NEW S, S \subseteq Nat, 0 \in S, \A n \in S : n + 1 \in S
  PROVE  S = Nat
<1>. SUFFICES ASSUME Nat \ S # {} PROVE FALSE
  OBVIOUS
<1>1. PICK x \in Nat \ S : \A y \in Nat \ S : x <= y
  BY SmallestElement
<1>2. x # 0 /\ x - 1 \in Nat /\ x - 1 \notin Nat \ S
  BY <1>1
<1>. QED
  BY <1>1, <1>2

----------------------------------------------------------------------------

\* f is what FlattenSeq takes for the function of its definition.
Flattens(f, s) ==
  f = [i \in 1 .. Len(s) |-> IF i = 1 THEN s[i] ELSE f[i - 1] \o s[i]]

LEMMA FlattensMeans ==
  ASSUME NEW f, NEW s, Flattens(f, s)
  PROVE  \A i \in 1 .. Len(s) : f[i] = IF i = 1 THEN s[i] ELSE f[i - 1] \o s[i]
<1>. DEFINE g == [i \in 1 .. Len(s) |-> IF i = 1 THEN s[i] ELSE f[i - 1] \o s[i]]
<1>1. f = g
  BY DEF Flattens
<1>2. \A i \in 1 .. Len(s) : g[i] = IF i = 1 THEN s[i] ELSE f[i - 1] \o s[i]
  OBVIOUS
<1>. QED
  BY <1>1, <1>2, Zenon

\* The recursive definition has a solution: that of a prefix is extended.
LEMMA FlattensExists ==
  ASSUME NEW S
  PROVE  \A s \in Seq(S) : \E f : Flattens(f, s)
<1>. DEFINE N == {n \in Nat : \A s \in Seq(S) : Len(s) = n => \E f : Flattens(f, s)}
<1>1. 0 \in N
  <2>. SUFFICES ASSUME NEW s \in Seq(S), Len(s) = 0
                PROVE  \E f : Flattens(f, s)
    OBVIOUS
  <2>. DEFINE g == [i \in 1 .. Len(s) |-> s[i]]
  <2>1. Flattens(g, s)
    BY DEF Flattens
  <2>. QED
    BY <2>1
<1>2. ASSUME NEW n \in N PROVE n + 1 \in N
  <2>. SUFFICES ASSUME NEW s \in Seq(S), Len(s) = n + 1
                PROVE  \E f : Flattens(f, s)
    OBVIOUS
  <2>. DEFINE t == SubSeq(s, 1, n)
  <2>1. /\ t \in Seq(S) /\ Len(t) = n /\ n \in Nat
        /\ \A i \in 1 .. n : t[i] = s[i]
    OBVIOUS
  <2>2. PICK f : Flattens(f, t)
    BY <2>1
  <2>. DEFINE g == [i \in 1 .. n + 1 |-> IF i <= n THEN f[i]
                                         ELSE IF n = 0 THEN s[i] ELSE f[n] \o s[i]]
  <2>. HIDE DEF t
  <2>3. \A i \in 1 .. n : f[i] = IF i = 1 THEN s[i] ELSE f[i - 1] \o s[i]
    <3>1. \A i \in 1 .. Len(t) : f[i] = IF i = 1 THEN t[i] ELSE f[i - 1] \o t[i]
      BY <2>2, FlattensMeans
    <3>. QED
      BY <2>1, <3>1
  <2>4. \A i \in 1 .. n + 1 : g[i] = IF i = 1 THEN s[i] ELSE g[i - 1] \o s[i]
    <3>. SUFFICES ASSUME NEW i \in 1 .. n + 1
                  PROVE  g[i] = IF i = 1 THEN s[i] ELSE g[i - 1] \o s[i]
      OBVIOUS
    <3>1. CASE i <= n
      BY <2>1, <2>3, <3>1
    <3>2. CASE i = n + 1
      BY <2>1, <3>2
    <3>. QED
      BY <2>1, <3>1, <3>2
  <2>5. g = [i \in 1 .. Len(s) |-> g[i]]
    OBVIOUS
  <2>6. Flattens(g, s)
    <3>. HIDE DEF g
    <3>. QED
      BY <2>1, <2>4, <2>5 DEF Flattens
  <2>. QED
    BY <2>6
<1>3. N = Nat
  <2>. HIDE DEF N
  <2>1. N \subseteq Nat
    BY DEF N
  <2>. QED
    BY <1>1, <1>2, <2>1, SetInduction
<1>. QED
  BY <1>3

Agree(s, t, n) == \A i \in 1 .. n : s[i] = t[i]

\* Two solutions agree as far as the sequences do.
LEMMA FlattensAgree ==
  ASSUME NEW s, NEW t, NEW f, NEW g, NEW n \in Nat,
         1 .. n \subseteq 1 .. Len(s), 1 .. n \subseteq 1 .. Len(t), Agree(s, t, n),
         Flattens(f, s), Flattens(g, t)
  PROVE  Agree(f, g, n)
<1>. DEFINE N == {i \in Nat : i \in 1 .. n => f[i] = g[i]}
<1>1. 0 \in N
  OBVIOUS
<1>2. ASSUME NEW i \in N PROVE i + 1 \in N
  <2>. SUFFICES ASSUME i + 1 \in 1 .. n PROVE f[i + 1] = g[i + 1]
    OBVIOUS
  <2>0. i + 1 \in 1 .. Len(s) /\ i + 1 \in 1 .. Len(t)
    OBVIOUS
  <2>1. /\ f[i + 1] = IF i + 1 = 1 THEN s[i + 1] ELSE f[i + 1 - 1] \o s[i + 1]
        /\ g[i + 1] = IF i + 1 = 1 THEN t[i + 1] ELSE g[i + 1 - 1] \o t[i + 1]
    BY <2>0, FlattensMeans
  <2>2. i + 1 - 1 = i /\ (i + 1 # 1 => f[i] = g[i]) /\ s[i + 1] = t[i + 1]
    BY DEF Agree
  <2>. QED
    BY <2>1, <2>2
<1>3. N = Nat
  <2>. HIDE DEF N
  <2>1. N \subseteq Nat
    BY DEF N
  <2>. QED
    BY <1>1, <1>2, <2>1, SetInduction
<1>. QED
  BY <1>3 DEF Agree

LEMMA FlattensType ==
  ASSUME NEW S, NEW s \in Seq(Seq(S)), NEW f, Flattens(f, s)
  PROVE  \A i \in 1 .. Len(s) : f[i] \in Seq(S)
<1>. DEFINE N == {i \in Nat : i \in 1 .. Len(s) => f[i] \in Seq(S)}
<1>1. 0 \in N
  OBVIOUS
<1>2. ASSUME NEW i \in N PROVE i + 1 \in N
  <2>. SUFFICES ASSUME i + 1 \in 1 .. Len(s) PROVE f[i + 1] \in Seq(S)
    OBVIOUS
  <2>1. f[i + 1] = IF i + 1 = 1 THEN s[i + 1] ELSE f[i + 1 - 1] \o s[i + 1]
    BY FlattensMeans
  <2>2. i + 1 - 1 = i /\ (i + 1 # 1 => f[i] \in Seq(S)) /\ s[i + 1] \in Seq(S)
    OBVIOUS
  <2>3. \A a, b \in Seq(S) : a \o b \in Seq(S)
    OBVIOUS
  <2>. QED
    BY <2>1, <2>2, <2>3
<1>3. N = Nat
  <2>. HIDE DEF N
  <2>1. N \subseteq Nat
    BY DEF N
  <2>. QED
    BY <1>1, <1>2, <2>1, SetInduction
<1>. QED
  BY <1>3

----------------------------------------------------------------------------

LEMMA FlattenIs ==
  ASSUME NEW S, NEW s \in Seq(S), s # <<>>
  PROVE  \E f : Flattens(f, s) /\ FlattenSeq(s) = f[Len(s)]
<1>. DEFINE h == CHOOSE f : Flattens(f, s)
<1>1. Flattens(h, s)
  BY FlattensExists
<1>2. FlattenSeq(s) = h[Len(s)]
  BY DEF FlattenSeq, Flattens
<1>. QED
  BY <1>1, <1>2

LEMMA FlattenEmpty == FlattenSeq(<<>>) = <<>>
BY DEF FlattenSeq

\* FlattenSeq of sequences over S is one.
LEMMA FlattenType ==
  ASSUME NEW S, NEW s \in Seq(Seq(S))
  PROVE  FlattenSeq(s) \in Seq(S)
<1>1. CASE s = <<>>
  <2>1. <<>> \in Seq(S)
    OBVIOUS
  <2>. QED
    BY <1>1, <2>1, FlattenEmpty
<1>2. CASE s # <<>>
  <2>1. PICK f : Flattens(f, s) /\ FlattenSeq(s) = f[Len(s)]
    BY <1>2, FlattenIs
  <2>. QED
    BY <1>2, <2>1, FlattensType
<1>. QED
  BY <1>1, <1>2

LEMMA AppendIs ==
  ASSUME NEW T, NEW s \in Seq(T), NEW x \in T
  PROVE  /\ Append(s, x) \in Seq(T) /\ Len(Append(s, x)) = Len(s) + 1 /\ Len(s) \in Nat
         /\ Append(s, x) # <<>> /\ Append(s, x)[Len(s) + 1] = x
         /\ \A i \in 1 .. Len(s) : Append(s, x)[i] = s[i]
OBVIOUS

\* One more sequence at the end comes after all others.
LEMMA FlattenAppend ==
  ASSUME NEW S, NEW s \in Seq(Seq(S)), NEW x \in Seq(S)
  PROVE  FlattenSeq(Append(s, x)) = FlattenSeq(s) \o x
<1>. DEFINE t == Append(s, x)
<1>1. /\ t \in Seq(Seq(S)) /\ Len(t) = Len(s) + 1 /\ t # <<>> /\ t[Len(t)] = x
      /\ \A i \in 1 .. Len(s) : s[i] = t[i]
  <2>. DEFINE T == Seq(S)
  <2>1. s \in Seq(T) /\ x \in T
    OBVIOUS
  <2>. HIDE DEF T
  <2>2. /\ t \in Seq(T) /\ Len(t) = Len(s) + 1 /\ t # <<>> /\ t[Len(t)] = x
        /\ \A i \in 1 .. Len(s) : s[i] = t[i]
    BY <2>1, AppendIs
  <2>. QED
    BY <2>2 DEF T
<1>0. Len(s) \in Nat /\ Len(t) \in Nat
  <2>1. Len(s) \in Nat
    OBVIOUS
  <2>. QED
    BY <1>1, <2>1
<1>. HIDE DEF t
<1>2. PICK g : Flattens(g, t) /\ FlattenSeq(t) = g[Len(t)]
  BY <1>1, FlattenIs
<1>3. g[Len(t)] = IF Len(t) = 1 THEN t[Len(t)] ELSE g[Len(t) - 1] \o t[Len(t)]
  BY <1>1, <1>2, FlattensMeans
<1>4. CASE s = <<>>
  <2>1. FlattenSeq(s) = <<>>
    BY <1>4, FlattenEmpty
  <2>2. Len(t) = 1
    BY <1>1, <1>4
  <2>3. <<>> \o x = x
    OBVIOUS
  <2>. QED
    BY <1>1, <1>2, <1>3, <2>1, <2>2, <2>3 DEF t
<1>5. CASE s # <<>>
  <2>1. PICK f : Flattens(f, s) /\ FlattenSeq(s) = f[Len(s)]
    BY <1>5, FlattenIs
  <2>2. Len(s) \in 1 .. Len(s) /\ Len(t) # 1 /\ Len(t) - 1 = Len(s)
    BY <1>1, <1>5
  <2>3. f[Len(s)] = g[Len(s)]
    <3>. DEFINE n == Len(s)
    <3>1. /\ n \in Nat /\ 1 .. n \subseteq 1 .. Len(s) /\ 1 .. n \subseteq 1 .. Len(t)
          /\ Agree(s, t, n)
      BY <1>0, <1>1 DEF Agree
    <3>2. Flattens(f, s) /\ Flattens(g, t)
      BY <1>2, <2>1
    <3>. HIDE DEF n
    <3>3. Agree(f, g, n)
      BY <3>1, <3>2, FlattensAgree
    <3>. QED
      BY <2>2, <3>3 DEF n, Agree
  <2>. QED
    BY <1>1, <1>2, <1>3, <2>1, <2>2, <2>3 DEF t
<1>. QED
  BY <1>4, <1>5

Lists(X) == Seq(Seq(X))

\* What FlattenSeq makes of a sequence is put together from one place to the
\* next.
LEMMA FlattenSteps ==
  ASSUME NEW X, NEW s \in Lists(X)
  PROVE  \E f : /\ f[0] = <<>> /\ f[Len(s)] = FlattenSeq(s)
                /\ \A i \in 0 .. Len(s) : f[i] \in Seq(X)
                /\ \A i \in 1 .. Len(s) : f[i] = f[i - 1] \o s[i]
<1>. DEFINE T == Seq(X)
<1>0. s \in Seq(T) /\ Len(s) \in Nat
  BY DEF Lists
<1>1. CASE s = <<>>
  <2>. DEFINE f == [i \in 0 .. 0 |-> <<>>]
  <2>1. Len(s) = 0 /\ f[0] = <<>> /\ FlattenSeq(s) = <<>> /\ <<>> \in Seq(X)
    BY <1>1, FlattenEmpty
  <2>. HIDE DEF f
  <2>2. \A i \in 0 .. Len(s) : f[i] \in Seq(X)
    <3>1. \A i \in 0 .. Len(s) : i = 0
      BY <2>1
    <3>. QED
      BY <2>1, <3>1
  <2>3. \A i \in 1 .. Len(s) : f[i] = f[i - 1] \o s[i]
    BY <2>1
  <2>4. f[Len(s)] = FlattenSeq(s)
    BY <2>1
  <2>. QED
    BY <2>1, <2>2, <2>3, <2>4
<1>2. CASE s # <<>>
  <2>. HIDE DEF T
  <2>1. PICK g : Flattens(g, s) /\ FlattenSeq(s) = g[Len(s)]
    BY <1>0, <1>2, FlattenIs
  <2>2. \A i \in 1 .. Len(s) : g[i] = IF i = 1 THEN s[i] ELSE g[i - 1] \o s[i]
    BY <2>1, FlattensMeans
  <2>3. \A i \in 1 .. Len(s) : g[i] \in Seq(X)
    BY <1>0, <2>1, FlattensType DEF T
  <2>. DEFINE f == [i \in 0 .. Len(s) |-> IF i = 0 THEN <<>> ELSE g[i]]
  <2>4. /\ f[0] = <<>> /\ \A i \in 1 .. Len(s) : f[i] = g[i]
    BY <1>0
  <2>5. f[Len(s)] = FlattenSeq(s)
    <3>1. Len(s) \in 1 .. Len(s)
      BY <1>0, <1>2, EmptySeq
    <3>. QED
      BY <2>1, <2>4, <3>1
  <2>. HIDE DEF f
  <2>6. <<>> \in Seq(X) /\ (\A x \in Seq(X) : <<>> \o x = x)
    OBVIOUS
  <2>7. \A i \in 0 .. Len(s) : f[i] \in Seq(X)
    <3>1. \A i \in 0 .. Len(s) : i = 0 \/ i \in 1 .. Len(s)
      BY <1>0
    <3>2. f[0] \in Seq(X)
      BY <2>4, <2>6
    <3>3. \A i \in 1 .. Len(s) : f[i] \in Seq(X)
      BY <2>3, <2>4
    <3>. QED
      BY <3>1, <3>2, <3>3
  <2>8. \A i \in 1 .. Len(s) : s[i] \in Seq(X)
    BY <1>0 DEF T
  <2>9. ASSUME NEW i \in 1 .. Len(s) PROVE f[i] = f[i - 1] \o s[i]
    <3>1. CASE i = 1
      <4>1. f[i] = s[i] /\ f[i - 1] = <<>> /\ s[i] \in Seq(X)
        BY <2>2, <2>4, <2>8, <3>1
      <4>. QED
        BY <2>6, <4>1
    <3>2. CASE i # 1
      <4>1. i - 1 \in 1 .. Len(s)
        BY <1>0, <3>2
      <4>. QED
        BY <2>2, <2>4, <3>2, <4>1
    <3>. QED
      BY <3>1, <3>2
  <2>. QED
    BY <2>4, <2>5, <2>7, <2>9
<1>. QED
  BY <1>1, <1>2

\* What holds at 0, and from one number to the next, holds up to n.
LEMMA Upward ==
  ASSUME NEW n \in Nat, NEW S, 0 \in S, \A i \in 1 .. n : i - 1 \in S => i \in S
  PROVE  \A i \in 0 .. n : i \in S
<1>. DEFINE N == {i \in Nat : i <= n => i \in S}
<1>1. 0 \in N /\ N \subseteq Nat
  OBVIOUS
<1>2. ASSUME NEW i \in N PROVE i + 1 \in N
  <2>1. i + 1 \in 1 .. n => (i + 1) - 1 \in S
    OBVIOUS
  <2>. QED
    BY <2>1
<1>3. N = Nat
  <2>. HIDE DEF N
  <2>. QED
    BY <1>1, <1>2, SetInduction
<1>. QED
  BY <1>3

\* The prefixes of what FlattenSeq makes of s stay in the sets of G.
LEMMA FlattenThrough ==
  ASSUME NEW X, NEW s \in Lists(X), NEW G, <<>> \in G[0],
         \A i \in 1 .. Len(s) : \A a \in G[i - 1] \cap Seq(X) : a \o s[i] \in G[i]
  PROVE  FlattenSeq(s) \in G[Len(s)]
<1>1. PICK f : /\ f[0] = <<>> /\ f[Len(s)] = FlattenSeq(s)
               /\ \A i \in 0 .. Len(s) : f[i] \in Seq(X)
               /\ \A i \in 1 .. Len(s) : f[i] = f[i - 1] \o s[i]
  BY FlattenSteps
<1>. DEFINE S == {i \in 0 .. Len(s) : f[i] \in G[i]}
<1>2. Len(s) \in Nat
  BY DEF Lists
<1>3. 0 \in S
  BY <1>1, <1>2
<1>4. ASSUME NEW i \in 1 .. Len(s), i - 1 \in S PROVE i \in S
  <2>1. i - 1 \in 0 .. Len(s) /\ i \in 0 .. Len(s)
    BY <1>2
  <2>2. f[i - 1] \in G[i - 1] \cap Seq(X)
    BY <1>1, <1>4, <2>1
  <2>3. f[i] = f[i - 1] \o s[i]
    BY <1>1
  <2>. QED
    BY <2>1, <2>2, <2>3
<1>5. Len(s) \in S
  <2>. HIDE DEF S
  <2>. QED
    BY <1>2, <1>3, <1>4, Upward
<1>. QED
  BY <1>1, <1>5

LEMMA JoinedSeqIs ==
  ASSUME NEW T, NEW a \in Seq(T), NEW b \in Seq(T)
  PROVE  /\ a \o b \in Seq(T) /\ Len(a \o b) = Len(a) + Len(b) /\ Len(a) \in Nat /\ Len(b) \in Nat
         /\ \A i \in 1 .. Len(a) : (a \o b)[i] = a[i]
         /\ \A i \in Len(a) + 1 .. Len(a) + Len(b) : (a \o b)[i] = b[i - Len(a)]
OBVIOUS

LEMMA SeqIs ==
  ASSUME NEW T, NEW n \in Nat, NEW f, DOMAIN f = 1 .. n, \A i \in 1 .. n : f[i] \in T,
         f = [i \in DOMAIN f |-> f[i]]
  PROVE  f \in Seq(T) /\ Len(f) = n
OBVIOUS

LEMMA IsSeq ==
  ASSUME NEW T, NEW f \in Seq(T)
  PROVE  /\ Len(f) \in Nat /\ DOMAIN f = 1 .. Len(f) /\ (\A i \in 1 .. Len(f) : f[i] \in T)
         /\ (\A i \in DOMAIN f : f[i] \in T)
OBVIOUS

\* A text may be put together from no other.
LEMMA NoText ==
  ASSUME NEW T
  PROVE  <<>> \in Seq(T) /\ \A a \in Seq(T) : a \o <<>> = a /\ <<>> \o a = a
OBVIOUS

LEMMA ConcatType ==
  ASSUME NEW T
  PROVE  \A a, b \in Seq(T) : a \o b \in Seq(T)
OBVIOUS

LEMMA SeqWider ==
  ASSUME NEW S, NEW T, S \subseteq T
  PROVE  Seq(S) \subseteq Seq(T)
<1>1. ASSUME NEW s \in Seq(S) PROVE s \in Seq(T)
  <2>1. /\ Len(s) \in Nat /\ DOMAIN s = 1 .. Len(s) /\ (\A i \in 1 .. Len(s) : s[i] \in S)
        /\ s = [i \in DOMAIN s |-> s[i]]
    OBVIOUS
  <2>. QED
    BY <2>1, SeqIs
<1>. QED
  BY <1>1

\* A sequence made of the elements of another.
LEMMA MapIs ==
  ASSUME NEW T, NEW S, NEW s \in Seq(T), NEW g, DOMAIN g = DOMAIN s,
         g = [i \in DOMAIN g |-> g[i]], \A i \in 1 .. Len(s) : g[i] \in S
  PROVE  g \in Seq(S) /\ Len(g) = Len(s)
<1>1. Len(s) \in Nat /\ DOMAIN s = 1 .. Len(s)
  BY IsSeq
<1>. QED
  BY <1>1, SeqIs

LEMMA OneKid ==
  ASSUME NEW P, NEW k \in P
  PROVE  <<k>> \in Seq(P)
OBVIOUS

LEMMA TwoWords ==
  ASSUME NEW x, NEW y
  PROVE  <<x, y>> = <<x>> \o <<y>>
<1>. DEFINE T == {x, y}
<1>1. PICK a \in Seq(T), b \in Seq(T) :
        a = <<x>> /\ b = <<y>> /\ Len(a) = 1 /\ Len(b) = 1 /\ a[1] = x /\ b[1] = y
  <2>1. <<x>> \in Seq(T) /\ Len(<<x>>) = 1 /\ <<x>>[1] = x
    OBVIOUS
  <2>2. <<y>> \in Seq(T) /\ Len(<<y>>) = 1 /\ <<y>>[1] = y
    OBVIOUS
  <2>. QED
    BY <2>1, <2>2
<1>2. PICK c : c = a \o b
  OBVIOUS
<1>3. c \in Seq(T) /\ Len(c) = 2 /\ c[1] = x /\ c[2] = y
  BY <1>1, <1>2, JoinedSeqIs
<1>4. c = <<x, y>>
  BY <1>3
<1>. QED
  BY <1>1, <1>2, <1>4

LEMMA FourWords ==
  ASSUME NEW x, NEW y, NEW z, NEW w, NEW a, NEW b, a = <<x, y>>, b = <<z, w>>
  PROVE  a \o b = <<x, y, z, w>>
<1>. DEFINE T == {x, y, z, w}
<1>1. /\ a \in Seq(T) /\ b \in Seq(T) /\ Len(a) = 2 /\ Len(b) = 2
      /\ a[1] = x /\ a[2] = y /\ b[1] = z /\ b[2] = w
  <2>1. <<x, y>> \in Seq(T) /\ Len(<<x, y>>) = 2 /\ <<x, y>>[1] = x /\ <<x, y>>[2] = y
    OBVIOUS
  <2>2. <<z, w>> \in Seq(T) /\ Len(<<z, w>>) = 2 /\ <<z, w>>[1] = z /\ <<z, w>>[2] = w
    OBVIOUS
  <2>. QED
    BY <2>1, <2>2
<1>2. PICK c : c = a \o b
  OBVIOUS
<1>3. c \in Seq(T) /\ Len(c) = 4 /\ c[1] = x /\ c[2] = y /\ c[3] = z /\ c[4] = w
  BY <1>1, <1>2, JoinedSeqIs
<1>4. c = <<x, y, z, w>>
  BY <1>3
<1>. QED
  BY <1>1, <1>2, <1>4

LEMMA ThreeWords ==
  ASSUME NEW x, NEW y, NEW z, NEW a, NEW b, a = <<x, y>>, b = <<z>>
  PROVE  a \o b = <<x, y, z>>
<1>. DEFINE T == {x, y, z}
<1>1. a \in Seq(T) /\ b \in Seq(T) /\ Len(a) = 2 /\ Len(b) = 1 /\ a[1] = x /\ a[2] = y /\ b[1] = z
  <2>1. <<x, y>> \in Seq(T) /\ Len(<<x, y>>) = 2 /\ <<x, y>>[1] = x /\ <<x, y>>[2] = y
    OBVIOUS
  <2>2. <<z>> \in Seq(T) /\ Len(<<z>>) = 1 /\ <<z>>[1] = z
    OBVIOUS
  <2>. QED
    BY <2>1, <2>2
<1>2. PICK c : c = a \o b
  OBVIOUS
<1>3. c \in Seq(T) /\ Len(c) = 3 /\ c[1] = x /\ c[2] = y /\ c[3] = z
  BY <1>1, <1>2, JoinedSeqIs
<1>4. c = <<x, y, z>>
  BY <1>3
<1>. QED
  BY <1>2, <1>4

LEMMA SeqWithin ==
  ASSUME NEW T, NEW s \in Seq(T), NEW P, ToSet(s) \subseteq P
  PROVE  s \in Seq(P)
<1>1. /\ Len(s) \in Nat /\ DOMAIN s = 1 .. Len(s) /\ s = [i \in DOMAIN s |-> s[i]]
  OBVIOUS
<1>2. \A i \in 1 .. Len(s) : s[i] \in P
  BY <1>1 DEF ToSet
<1>. QED
  BY <1>1, <1>2, SeqIs

\* The order in which three texts are put together.
LEMMA ConcatThree ==
  ASSUME NEW T
  PROVE  \A a, b, c \in Seq(T) : (a \o b) \o c = a \o (b \o c)
OBVIOUS

\* One token.
LEMMA OneText ==
  ASSUME NEW T, NEW x \in T
  PROVE  <<x>> \in Seq(T) /\ \A e \in Seq(T) : e \o <<x>> = Append(e, x)
OBVIOUS

\* Two events, as one and one more.
LEMMA TwoSeen ==
  ASSUME NEW T, NEW x \in T, NEW y \in T
  PROVE  /\ <<x, y>> \in Seq(T)
         /\ \A e \in Seq(T) : Append(Append(e, x), y) = e \o <<x, y>>
OBVIOUS

\* The beginnings of a sequence.
LEMMA PrefixIs ==
  ASSUME NEW T, NEW s \in Seq(T)
  PROVE  /\ SubSeq(s, 1, 0) = <<>> /\ SubSeq(s, 1, Len(s)) = s
         /\ \A i \in 1 .. Len(s) : SubSeq(s, 1, i) = SubSeq(s, 1, i - 1) \o <<s[i]>>
         /\ \A i \in 0 .. Len(s) : SubSeq(s, 1, i) \in Seq(T)
<1>0. Len(s) \in Nat /\ \A i \in 1 .. Len(s) : s[i] \in T
  OBVIOUS
<1>1. SubSeq(s, 1, 0) = <<>> /\ SubSeq(s, 1, Len(s)) = s
  BY <1>0
<1>2. ASSUME NEW i \in 0 .. Len(s)
      PROVE  /\ SubSeq(s, 1, i) \in Seq(T) /\ Len(SubSeq(s, 1, i)) = i
             /\ \A j \in 1 .. i : SubSeq(s, 1, i)[j] = s[j]
  BY <1>0
<1>3. ASSUME NEW i \in 1 .. Len(s) PROVE SubSeq(s, 1, i) = SubSeq(s, 1, i - 1) \o <<s[i]>>
  <2>1. PICK a, b, c : a = SubSeq(s, 1, i - 1) /\ b = <<s[i]>> /\ c = SubSeq(s, 1, i)
    OBVIOUS
  <2>2. /\ a \in Seq(T) /\ Len(a) = i - 1 /\ \A j \in 1 .. i - 1 : a[j] = s[j]
    <3>1. i - 1 \in 0 .. Len(s)
      BY <1>0
    <3>. QED
      BY <1>2, <2>1, <3>1
  <2>3. /\ c \in Seq(T) /\ Len(c) = i /\ \A j \in 1 .. i : c[j] = s[j]
    <3>1. i \in 0 .. Len(s)
      BY <1>0
    <3>. QED
      BY <1>2, <2>1, <3>1
  <2>4. b \in Seq(T) /\ Len(b) = 1 /\ b[1] = s[i]
    BY <1>0, <2>1
  <2>5. /\ a \o b \in Seq(T) /\ Len(a \o b) = Len(a) + Len(b)
        /\ \A j \in 1 .. Len(a) : (a \o b)[j] = a[j]
        /\ \A j \in Len(a) + 1 .. Len(a) + Len(b) : (a \o b)[j] = b[j - Len(a)]
    BY <2>2, <2>4, JoinedSeqIs
  <2>6. PICK d : d = a \o b
    OBVIOUS
  <2>7. d \in Seq(T) /\ Len(d) = i /\ \A j \in 1 .. i : d[j] = c[j]
    <3>1. \A j \in 1 .. i : d[j] = c[j]
      <4>1. \A j \in 1 .. i : j \in 1 .. Len(a) \/ (j = i /\ j \in Len(a) + 1 .. Len(a) + Len(b) /\ j - Len(a) = 1)
        BY <2>2, <2>4
      <4>2. \A j \in 1 .. Len(a) : d[j] = c[j]
        <5>1. \A j \in 1 .. Len(a) : j \in 1 .. i - 1 /\ j \in 1 .. i
          BY <2>2
        <5>. QED
          BY <2>2, <2>3, <2>5, <2>6, <5>1
      <4>3. d[i] = c[i]
        <5>1. i \in Len(a) + 1 .. Len(a) + Len(b) /\ i - Len(a) = 1
          BY <2>2, <2>4
        <5>. QED
          BY <2>3, <2>4, <2>5, <2>6, <5>1
      <4>. QED
        BY <4>1, <4>2, <4>3
    <3>. QED
      BY <2>2, <2>4, <2>5, <2>6, <3>1
  <2>8. c = d
    BY <2>3, <2>7
  <2>. QED
    BY <2>1, <2>6, <2>8
<1>. QED
  BY <1>1, <1>2, <1>3

\* What FlattenSeq makes of sequences of one element each.
LEMMA FlattenSingles ==
  ASSUME NEW T, NEW s \in Seq(T), NEW ms \in Lists(T), Len(ms) = Len(s),
         \A i \in 1 .. Len(s) : ms[i] = <<s[i]>>
  PROVE  FlattenSeq(ms) = s
<1>0. Len(s) \in Nat
  BY IsSeq
<1>1. PICK f : /\ f[0] = <<>> /\ f[Len(ms)] = FlattenSeq(ms)
               /\ \A i \in 1 .. Len(ms) : f[i] = f[i - 1] \o ms[i]
  BY FlattenSteps
<1>2. /\ SubSeq(s, 1, 0) = <<>> /\ SubSeq(s, 1, Len(s)) = s
      /\ \A i \in 1 .. Len(s) : SubSeq(s, 1, i) = SubSeq(s, 1, i - 1) \o <<s[i]>>
  BY PrefixIs
<1>. DEFINE S == {i \in 0 .. Len(s) : f[i] = SubSeq(s, 1, i)}
<1>3. 0 \in S
  <2>1. 0 \in 0 .. Len(s)
    BY <1>0
  <2>. QED
    BY <1>1, <1>2, <2>1, Zenon
<1>4. ASSUME NEW i \in 1 .. Len(s), i - 1 \in S PROVE i \in S
  <2>1. i \in 0 .. Len(s) /\ f[i - 1] = SubSeq(s, 1, i - 1)
    BY <1>0, <1>4
  <2>2. f[i] = f[i - 1] \o ms[i] /\ ms[i] = <<s[i]>>
    BY <1>1
  <2>3. f[i] = SubSeq(s, 1, i)
    BY <1>2, <2>1, <2>2, Zenon
  <2>. QED
    BY <2>1, <2>3
<1>5. Len(s) \in S
  <2>. HIDE DEF S
  <2>1. \A i \in 0 .. Len(s) : i \in S
    BY <1>0, <1>3, <1>4, Upward
  <2>. QED
    BY <1>0, <2>1
<1>. QED
  BY <1>1, <1>2, <1>5, Zenon

\* A sequence and one more element.
LEMMA AppendOne ==
  ASSUME NEW T, NEW s \in Seq(T), NEW t \in Seq(T), NEW x \in T
  PROVE  /\ t \o <<x>> = Append(t, x) /\ s \o Append(t, x) = Append(s \o t, x)
         /\ s \o t \in Seq(T)
OBVIOUS

\* FlattenSeq of two lists, one after the other.
LEMMA FlattenConcat ==
  ASSUME NEW X, NEW s \in Lists(X), NEW t \in Lists(X)
  PROVE  FlattenSeq(s \o t) = FlattenSeq(s) \o FlattenSeq(t)
<1>a. \A b, c, d \in Seq(X) : (b \o c) \o d = b \o (c \o d)
  BY ONLY ConcatThree
<1>. DEFINE T == Seq(X)
<1>0. s \in Seq(T) /\ t \in Seq(T) /\ Len(t) \in Nat /\ \A i \in 1 .. Len(t) : t[i] \in T
  <2>1. s \in Seq(T) /\ t \in Seq(T)
    BY DEF Lists
  <2>. HIDE DEF T
  <2>. QED
    BY <2>1, IsSeq
<1>. DEFINE p(i) == SubSeq(t, 1, i)
            S == {i \in 0 .. Len(t) : FlattenSeq(s \o p(i)) = FlattenSeq(s) \o FlattenSeq(p(i))}
<1>1. FlattenSeq(s) \in Seq(X) /\ \A u \in Seq(T) : FlattenSeq(u) \in Seq(X)
  BY <1>0, FlattenType
<1>. HIDE DEF T
<1>2. /\ p(0) = <<>> /\ p(Len(t)) = t
      /\ \A i \in 1 .. Len(t) : p(i) = p(i - 1) \o <<t[i]>>
      /\ \A i \in 0 .. Len(t) : p(i) \in Seq(T)
  BY <1>0, PrefixIs
<1>. HIDE DEF p
<1>3. 0 \in S
  <2>1. s \o <<>> = s /\ FlattenSeq(s) \o <<>> = FlattenSeq(s) /\ 0 \in 0 .. Len(t)
    BY <1>0, <1>1, NoText
  <2>. QED
    BY <1>2, <2>1, FlattenEmpty
<1>4. ASSUME NEW i \in 1 .. Len(t), i - 1 \in S PROVE i \in S
  <2>1. /\ i \in 0 .. Len(t) /\ i - 1 \in 0 .. Len(t) /\ t[i] \in T
        /\ FlattenSeq(s \o p(i - 1)) = FlattenSeq(s) \o FlattenSeq(p(i - 1))
    BY <1>0, <1>4
  <2>2. PICK a \in Seq(T), x \in T : a = p(i - 1) /\ x = t[i]
    BY <1>2, <2>1
  <2>3. p(i) = Append(a, x) /\ s \o Append(a, x) = Append(s \o a, x) /\ s \o a \in Seq(T)
    <3>1. s \o Append(a, x) = Append(s \o a, x) /\ s \o a \in Seq(T) /\ a \o <<x>> = Append(a, x)
      BY <1>0, AppendOne
    <3>2. p(i) = a \o <<x>>
      BY <1>2, <2>2
    <3>. QED
      BY <3>1, <3>2
  <2>4. /\ FlattenSeq(Append(a, x)) = FlattenSeq(a) \o x
        /\ FlattenSeq(Append(s \o a, x)) = FlattenSeq(s \o a) \o x
    BY <2>3, FlattenAppend DEF T
  <2>5. (FlattenSeq(s) \o FlattenSeq(a)) \o x = FlattenSeq(s) \o (FlattenSeq(a) \o x)
    <3>1. FlattenSeq(a) \in Seq(X) /\ x \in Seq(X)
      BY <1>1 DEF T
    <3>. QED
      BY <1>a, <1>1, <3>1
  <2>6. FlattenSeq(s \o p(i)) = FlattenSeq(s) \o FlattenSeq(p(i))
    BY <2>1, <2>2, <2>3, <2>4, <2>5
  <2>. QED
    BY <2>1, <2>6
<1>5. Len(t) \in S
  <2>. HIDE DEF S
  <2>1. \A i \in 0 .. Len(t) : i \in S
    BY <1>0, <1>3, <1>4, Upward
  <2>. QED
    BY <1>0, <2>1
<1>. QED
  BY <1>2, <1>5

\* FlattenSeq of a list of one.
LEMMA FlattenOne ==
  ASSUME NEW X, NEW x \in Seq(X)
  PROVE  <<x>> \in Lists(X) /\ FlattenSeq(<<x>>) = x
<1>. DEFINE T == Seq(X)
<1>1. <<x>> \in Seq(T) /\ <<>> \in Seq(T) /\ <<x>> = Append(<<>>, x)
  <2>1. x \in T
    OBVIOUS
  <2>. HIDE DEF T
  <2>. QED
    BY <2>1
<1>2. FlattenSeq(Append(<<>>, x)) = FlattenSeq(<<>>) \o x
  BY <1>1, FlattenAppend
<1>3. <<>> \o x = x
  BY NoText
<1>. QED
  BY <1>1, <1>2, <1>3, FlattenEmpty DEF Lists

\* Two sequences made from one, place by place.
MapOf(g, s) == DOMAIN g = DOMAIN s /\ g = [i \in DOMAIN g |-> g[i]]

\* A sequence cut before one of its places.
LEMMA CutIs ==
  ASSUME NEW T, NEW s \in Seq(T), NEW m \in 1 .. Len(s)
  PROVE  /\ SubSeq(s, 1, m - 1) \in Seq(T) /\ SubSeq(s, m, Len(s)) \in Seq(T)
         /\ Len(SubSeq(s, 1, m - 1)) = m - 1 /\ Len(SubSeq(s, m, Len(s))) = Len(s) - m + 1
         /\ \A i \in 1 .. m - 1 : SubSeq(s, 1, m - 1)[i] = s[i]
         /\ \A i \in 1 .. Len(s) - m + 1 : SubSeq(s, m, Len(s))[i] = s[m - 1 + i]
OBVIOUS

\* One text after another, three times.
LEMMA ConcatFour ==
  ASSUME NEW T
  PROVE  \A a, b, c, d \in Seq(T) : ((a \o b) \o c) \o d = a \o ((b \o c) \o d)
<1>. SUFFICES ASSUME NEW a \in Seq(T), NEW b \in Seq(T), NEW c \in Seq(T), NEW d \in Seq(T)
              PROVE  ((a \o b) \o c) \o d = a \o ((b \o c) \o d)
  OBVIOUS
<1>1. (a \o b) \o c = a \o (b \o c)
  OBVIOUS
<1>2. PICK e \in Seq(T) : e = b \o c
  <2>1. b \o c \in Seq(T)
    OBVIOUS
  <2>. QED
    BY <2>1, Zenon
<1>3. (a \o e) \o d = a \o (e \o d)
  OBVIOUS
<1>. QED
  BY <1>1, <1>2, <1>3

\* What is made of a sequence with one more element.
LEMMA MapAppend ==
  ASSUME NEW T, NEW s \in Seq(T), NEW x \in T, NEW V, NEW y \in V, NEW g, NEW h,
         MapOf(g, s), MapOf(h, Append(s, x)), \A i \in 1 .. Len(s) : g[i] \in V /\ h[i] = g[i],
         h[Len(s) + 1] = y
  PROVE  h = Append(g, y) /\ g \in Seq(V)
<1>1. /\ Append(s, x) \in Seq(T) /\ Len(Append(s, x)) = Len(s) + 1 /\ Len(s) \in Nat
  OBVIOUS
<1>2. g \in Seq(V) /\ Len(g) = Len(s)
  BY MapIs DEF MapOf
<1>3. \A i \in 1 .. Len(s) + 1 : i \in 1 .. Len(s) \/ i = Len(s) + 1
  BY <1>1
<1>4. PICK u \in Seq(T) : u = Append(s, x) /\ Len(u) = Len(s) + 1
  BY <1>1
<1>5. h \in Seq(V) /\ Len(h) = Len(s) + 1
  <2>1. \A i \in 1 .. Len(u) : h[i] \in V
    BY <1>3, <1>4
  <2>. QED
    BY <1>4, <2>1, MapIs DEF MapOf
<1>6. PICK d : d = Append(g, y)
  OBVIOUS
<1>7. /\ d \in Seq(V) /\ Len(d) = Len(s) + 1 /\ d[Len(s) + 1] = y
      /\ \A i \in 1 .. Len(s) : d[i] = g[i]
  BY <1>2, <1>6
<1>8. \A i \in 1 .. Len(h) : h[i] = d[i]
  BY <1>3, <1>5, <1>7
<1>9. h = d
  BY <1>5, <1>7, <1>8, SeqEqual
<1>. QED
  BY <1>2, <1>6, <1>9

\* A sequence and its last element.
LEMMA LastIs ==
  ASSUME NEW T, NEW s \in Seq(T), Len(s) # 0
  PROVE  \E f \in Seq(T) : /\ s = Append(f, s[Len(s)]) /\ s[Len(s)] \in T
                           /\ \A y \in T : [s EXCEPT ![Len(s)] = y] = Append(f, y)
<1>1. PICK f : f = SubSeq(s, 1, Len(s) - 1)
  OBVIOUS
<1>2. /\ f \in Seq(T) /\ Len(f) = Len(s) - 1 /\ Len(s) \in Nat
      /\ \A i \in 1 .. Len(s) - 1 : f[i] = s[i]
  <2>1. Len(s) \in Nat /\ Len(s) \in 1 .. Len(s)
    OBVIOUS
  <2>2. /\ SubSeq(s, 1, Len(s) - 1) \in Seq(T) /\ Len(SubSeq(s, 1, Len(s) - 1)) = Len(s) - 1
        /\ \A i \in 1 .. Len(s) - 1 : SubSeq(s, 1, Len(s) - 1)[i] = s[i]
    BY <2>1, CutIs
  <2>. QED
    BY <1>1, <2>1, <2>2
<1>3. s[Len(s)] \in T
  BY <1>2
<1>4. ASSUME NEW y \in T PROVE [s EXCEPT ![Len(s)] = y] = Append(f, y)
  <2>1. PICK a, b : a = [s EXCEPT ![Len(s)] = y] /\ b = Append(f, y)
    OBVIOUS
  <2>2. /\ a \in Seq(T) /\ Len(a) = Len(s) /\ a[Len(s)] = y
        /\ \A i \in 1 .. Len(s) - 1 : a[i] = s[i]
    BY <1>2, <2>1
  <2>3. /\ b \in Seq(T) /\ Len(b) = Len(s) /\ b[Len(s)] = y
        /\ \A i \in 1 .. Len(s) - 1 : b[i] = f[i]
    BY <1>2, <2>1
  <2>4. \A i \in 1 .. Len(a) : a[i] = b[i]
    <3>1. \A i \in 1 .. Len(a) : i \in 1 .. Len(s) - 1 \/ i = Len(s)
      BY <1>2, <2>2
    <3>. QED
      BY <1>2, <2>2, <2>3, <3>1
  <2>5. a = b
    BY <2>2, <2>3, <2>4, SeqEqual
  <2>. QED
    BY <2>1, <2>5
<1>5. s = Append(f, s[Len(s)])
  <2>1. PICK y \in T : y = s[Len(s)]
    BY <1>3
  <2>2. [s EXCEPT ![Len(s)] = y] = s
    BY <2>1
  <2>. QED
    BY <1>4, <2>1, <2>2
<1>. QED
  BY <1>2, <1>3, <1>4, <1>5

\* The concatenation of texts, and what it is known for.
After(s, u) == s \o u

\* The order in which texts are put together does not matter.
LEMMA AfterGroups ==
  ASSUME NEW T
  PROVE  /\ \A a, x, y \in Seq(T) : After(After(a, x), y) = After(a, After(x, y))
         /\ \A a, x \in Seq(T) : After(a, x) \in Seq(T)
<1>1. \A a, x, y \in Seq(T) : (a \o x) \o y = a \o (x \o y)
  OBVIOUS
<1>2. \A a, x \in Seq(T) : a \o x \in Seq(T)
  BY ConcatType
<1>. QED
  BY <1>1, <1>2, Zenon DEF After

\* The same for four texts.
LEMMA AfterPair ==
  ASSUME NEW T, NEW a \in Seq(T), NEW b \in Seq(T), NEW s \in Seq(T), NEW c \in Seq(T)
  PROVE  After(After(After(a, b), s), c) = After(a, After(After(b, s), c))
BY AfterGroups

\* One element before three.
LEMMA OneAndThree ==
  ASSUME NEW x, NEW y, NEW z, NEW w
  PROVE  <<x, y, z, w>> = <<x>> \o <<y, z, w>>
<1>. DEFINE T == {x, y, z, w}
<1>0. PICK a, b : a = <<x>> /\ b = <<y, z, w>>
  OBVIOUS
<1>1. /\ a \in Seq(T) /\ b \in Seq(T) /\ Len(a) = 1 /\ Len(b) = 3
      /\ a[1] = x /\ b[1] = y /\ b[2] = z /\ b[3] = w
  <2>1. <<x>> \in Seq(T) /\ Len(<<x>>) = 1 /\ <<x>>[1] = x
    OBVIOUS
  <2>2. /\ <<y, z, w>> \in Seq(T) /\ Len(<<y, z, w>>) = 3
        /\ <<y, z, w>>[1] = y /\ <<y, z, w>>[2] = z /\ <<y, z, w>>[3] = w
    OBVIOUS
  <2>. QED
    BY <1>0, <2>1, <2>2
<1>2. PICK c : c = a \o b
  OBVIOUS
<1>3. c \in Seq(T) /\ Len(c) = 4 /\ c[1] = x /\ c[2] = y /\ c[3] = z /\ c[4] = w
  <2>. HIDE DEF T
  <2>1. /\ a \o b \in Seq(T) /\ Len(a \o b) = Len(a) + Len(b)
        /\ \A i \in 1 .. Len(a) : (a \o b)[i] = a[i]
        /\ \A i \in Len(a) + 1 .. Len(a) + Len(b) : (a \o b)[i] = b[i - Len(a)]
    BY <1>1, JoinedSeqIs
  <2>2. 1 \in 1 .. 1 /\ \A i \in {2, 3, 4} : i \in 1 + 1 .. 1 + 3
    OBVIOUS
  <2>. QED
    BY <1>1, <1>2, <2>1, <2>2
<1>4. c = <<x, y, z, w>>
  BY <1>3
<1>. QED
  BY <1>0, <1>2, <1>4, Zenon

\* A function with another value at one place.
WithFirst(g, y) == [g EXCEPT ![1] = y]

LEMMA ChangedOne ==
  ASSUME NEW T, NEW s \in Seq(T), s # <<>>, NEW g, MapOf(g, s), NEW y, NEW f, f = WithFirst(g, y)
  PROVE  /\ MapOf(f, s) /\ f[1] = y /\ 1 \in 1 .. Len(s)
         /\ \A i \in 1 .. Len(s) : i # 1 => f[i] = g[i]
<1>1. Len(s) \in Nat /\ Len(s) # 0 /\ DOMAIN s = 1 .. Len(s)
  OBVIOUS
<1>2. 1 \in DOMAIN g /\ DOMAIN g = 1 .. Len(s)
  BY <1>1 DEF MapOf
<1>3. DOMAIN f = DOMAIN g /\ f = [i \in DOMAIN f |-> f[i]]
  BY DEF MapOf, WithFirst
<1>4. f[1] = y /\ \A i \in DOMAIN g : i # 1 => f[i] = g[i]
  BY <1>2 DEF MapOf, WithFirst
<1>. QED
  BY <1>1, <1>2, <1>3, <1>4 DEF MapOf

==============================================================================
