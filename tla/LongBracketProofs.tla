------------------------- MODULE LongBracketProofs -------------------------
(***************************************************************************)
(* Proofs about LongBracket.  After i - 1 characters of the text, every    *)
(* closing bracket that starts among them has a level below max_equals,    *)
(* and max_equals is no higher than that asks for; inside the inner loop,  *)
(* the characters between the ']' at i and position j are all '='.  From   *)
(* where the literal ends follows which string Lua reads from it.          *)
(***************************************************************************)
EXTENDS LongBracket, ListTheorems, SequenceTheorems, TLAPS

\* The brackets that start before position b are below max_equals.
CoveredBelow(b) ==
  \A p \in 1 .. b - 1 : \A k \in Nat : Closer(text, p, k) => k < max_equals

\* max_equals was forced by a bracket of the text.
Attained ==
  \/ max_equals = 0
  \/ \E p \in 1 .. Len(text) : Closer(text, p, max_equals - 1)

\* The inner loop has walked over `equals' characters '=' after a ']'.
Counting ==
  pc = "inner" =>
    /\ i <= Len(text) /\ text[i] = "]"
    /\ j = i + 1 + equals
    /\ \A q \in i + 1 .. j - 1 : text[q] = "="

AllReadWhenDone == pc = "done" => i = Len(text) + 1

IInv ==
  /\ TypeOK
  /\ CoveredBelow(i)
  /\ Attained
  /\ Counting
  /\ AllReadWhenDone

\* A text is a sequence of characters.
LEMMA TextIsSeq ==
  ASSUME NEW s \in Texts
  PROVE  s \in Seq(Char) /\ Len(s) \in Nat
BY TextsAssumption

\* The run of '=' after a ']' fixes the level of the bracket, if there is one.
LEMMA LevelUnique ==
  ASSUME NEW s \in Texts, NEW p \in 1 .. Len(s), NEW e \in Nat, NEW k \in Nat,
         \A q \in p + 1 .. p + e : s[q] = "=",
         p + e <= Len(s),
         ~(p + e + 1 <= Len(s) /\ s[p + e + 1] = "="),
         Closer(s, p, k)
  PROVE  k = e
<1>. USE TextIsSeq DEF Closer
<1>1. ASSUME k < e PROVE FALSE
  <2>1. p + k + 1 \in p + 1 .. p + e
    BY <1>1
  <2>. QED
    BY <2>1
<1>2. ASSUME k > e PROVE FALSE
  <2>1. p + e + 1 \in p + 1 .. p + k /\ p + e + 1 <= Len(s)
    BY <1>2
  <2>. QED
    BY <2>1
<1>. QED
  BY <1>1, <1>2

LEMMA InitEstablishes == Init => IInv
<1>. SUFFICES ASSUME Init PROVE IInv
  OBVIOUS
<1>1. Len(text) \in Nat /\ (text = <<>> => Len(text) = 0)
  BY TextIsSeq DEF Init
<1>. QED
  BY <1>1 DEF Init, IInv, TypeOK, CoveredBelow, Attained, Counting, AllReadWhenDone

LEMMA StepPreserves ==
  ASSUME IInv, [Next]_vars
  PROVE  IInv'
<1>0. text \in Texts /\ Len(text) \in Nat
  BY TextIsSeq DEF IInv, TypeOK
<1>. USE <1>0 DEF IInv, TypeOK, CoveredBelow, Attained, Counting, AllReadWhenDone
<1>1. CASE Advance
  <2>1. \A k \in Nat : ~Closer(text, i, k)
    BY <1>1 DEF Advance, Closer
  <2>2. CoveredBelow(i)'
    BY <1>1, <2>1 DEF Advance
  <2>. QED
    BY <1>1, <2>2 DEF Advance
<1>2. CASE StartCount
  BY <1>2 DEF StartCount
<1>3. CASE CountEqual
  BY <1>3 DEF CountEqual
<1>4. CASE EndCount
  <2>1. \A k \in Nat : Closer(text, i, k) => k = equals
    BY <1>4, LevelUnique DEF EndCount
  <2>2. max_equals' >= max_equals /\ max_equals' \in 0 .. Len(text)
    BY <1>4 DEF EndCount
  <2>3. \A k \in Nat : Closer(text, i, k) => k < max_equals'
    BY <1>4, <2>1 DEF EndCount, Closer
  <2>4. CoveredBelow(i)'
    BY <1>4, <2>2, <2>3 DEF EndCount
  <2>5. Attained'
    <3>1. CASE j <= Len(text) /\ text[j] = "]" /\ equals >= max_equals
      <4>1. Closer(text, i, equals)
        BY <1>4, <3>1 DEF EndCount, Closer
      <4>. QED
        BY <1>4, <3>1, <4>1 DEF EndCount
    <3>2. CASE ~(j <= Len(text) /\ text[j] = "]" /\ equals >= max_equals)
      BY <1>4, <3>2 DEF EndCount
    <3>. QED
      BY <3>1, <3>2
  <2>. QED
    BY <1>4, <2>2, <2>4, <2>5 DEF EndCount
<1>5. CASE Emit
  BY <1>5 DEF Emit
<1>6. CASE UNCHANGED vars
  BY <1>6 DEF vars
<1>. QED
  BY <1>1, <1>2, <1>3, <1>4, <1>5, <1>6 DEF Next

\* The invariant of a finished loop is what the properties ask for.
LEMMA DoneLevel ==
  ASSUME IInv
  PROVE  LevelCorrect /\ NoCloserInside
<1>0. text \in Texts /\ Len(text) \in Nat /\ max_equals \in Nat
  BY TextIsSeq DEF IInv, TypeOK
<1>. SUFFICES ASSUME pc = "done"
              PROVE  /\ IsLevel(text, max_equals)
                     /\ \A p \in 1 .. Len(text) : ~Closer(text, p, max_equals)
  BY DEF LevelCorrect, NoCloserInside
<1>1. \A p \in 1 .. Len(text) : \A k \in Nat : Closer(text, p, k) => k < max_equals
  BY <1>0 DEF IInv, AllReadWhenDone, CoveredBelow
<1>2. \A k \in LevelsIn(text) : k < max_equals
  BY <1>0, <1>1 DEF LevelsIn
<1>3. CASE max_equals = 0
  <2>1. LevelsIn(text) = {}
    BY <1>0, <1>2, <1>3 DEF LevelsIn
  <2>. QED
    BY <1>0, <1>1, <1>3, <2>1 DEF IsLevel
<1>4. CASE max_equals # 0
  <2>1. max_equals - 1 \in LevelsIn(text)
    BY <1>0, <1>4 DEF IInv, Attained, LevelsIn, TypeOK
  <2>. QED
    BY <1>0, <1>1, <1>2, <2>1 DEF IsLevel
<1>. QED
  BY <1>3, <1>4

----------------------------------------------------------------------------
(* Where the literal ends.                                                 *)

LEMMA BodyShape ==
  ASSUME NEW s \in Texts, NEW n \in Nat
  PROVE  /\ Len(Body(s, n)) = Len(s) + n + 2
         /\ \A q \in 1 .. Len(s) : Body(s, n)[q] = s[q]
         /\ Body(s, n)[Len(s) + 1] = "]"
         /\ Body(s, n)[Len(s) + n + 2] = "]"
         /\ \A q \in Len(s) + 2 .. Len(s) + n + 1 : Body(s, n)[q] = "="
<1>. USE TextIsSeq
<1>1. Body(s, n) \in [1 .. Len(s) + n + 2 -> Char]
  <2>1. \A q \in 1 .. Len(s) : s[q] \in Char
    OBVIOUS
  <2>. QED
    BY <2>1, CharAssumption DEF Body
<1>2. Len(Body(s, n)) = Len(s) + n + 2
  BY <1>1
<1>. QED
  BY <1>2 DEF Body

\* The bracket written after the text is a closer of its level.
LEMMA CloserAtEnd ==
  ASSUME NEW s \in Texts, NEW n \in Nat
  PROVE  Closer(Body(s, n), Len(s) + 1, n)
<1>. DEFINE B == Body(s, n)
<1>1. /\ Len(B) = Len(s) + n + 2
      /\ \A q \in 1 .. Len(s) : B[q] = s[q]
      /\ B[Len(s) + 1] = "]"
      /\ B[Len(s) + n + 2] = "]"
      /\ \A q \in Len(s) + 2 .. Len(s) + n + 1 : B[q] = "="
  BY BodyShape
<1>. HIDE DEF B
<1>2. Closer(B, Len(s) + 1, n)
  <2>1. Len(s) \in Nat
    BY TextIsSeq
  <2>2. /\ Len(s) + 1 \in 1 .. Len(B) /\ Len(s) + 1 + n + 1 \in 1 .. Len(B)
        /\ Len(s) + 1 + n + 1 = Len(s) + n + 2
        /\ \A q \in Len(s) + 1 + 1 .. Len(s) + 1 + n : q \in Len(s) + 2 .. Len(s) + n + 1
    BY <1>1, <2>1
  <2>. QED
    BY <1>1, <2>2 DEF Closer
<1>. QED
  BY <1>2 DEF B

\* A closer of the body that starts in the text lies in the text, or its
\* second ']' is the first character written after the text.
LEMMA EarlyCloser ==
  ASSUME NEW s \in Texts, NEW n \in Nat, NEW p \in 1 .. Len(s),
         \A q \in 1 .. Len(s) : ~Closer(s, q, n)
  PROVE  Closer(Body(s, n), p, n) <=> p = Len(s) - n /\ EndsHalfClosed(s, n)
<1>. DEFINE B == Body(s, n)
<1>a. Len(s) \in Nat
  BY TextIsSeq
<1>b. /\ Len(B) = Len(s) + n + 2
      /\ \A q \in 1 .. Len(s) : B[q] = s[q]
      /\ B[Len(s) + 1] = "]"
      /\ B[Len(s) + n + 2] = "]"
      /\ \A q \in Len(s) + 2 .. Len(s) + n + 1 : B[q] = "="
  BY BodyShape
<1>. HIDE DEF B
<1>1. ASSUME Closer(B, p, n)
      PROVE  p = Len(s) - n /\ EndsHalfClosed(s, n)
  <2>1. B[p] = "]" /\ B[p + n + 1] = "]" /\ \A q \in p + 1 .. p + n : B[q] = "="
    BY <1>1 DEF Closer
  <2>2. ASSUME p + n + 1 <= Len(s) PROVE FALSE
    <3>1. /\ p \in 1 .. Len(s) /\ p + n + 1 \in 1 .. Len(s)
          /\ \A q \in p + 1 .. p + n : q \in 1 .. Len(s)
      BY <1>a, <1>b, <2>2
    <3>2. s[p] = "]" /\ s[p + n + 1] = "]" /\ \A q \in p + 1 .. p + n : s[q] = "="
      BY <1>a, <1>b, <2>1, <3>1
    <3>3. Closer(s, p, n)
      BY <3>1, <3>2 DEF Closer
    <3>. QED
      BY <3>3
  <2>3. ASSUME p + n + 1 > Len(s) + 1 PROVE FALSE
    <3>1. p + n + 1 \in Len(s) + 2 .. Len(s) + n + 1
      BY <1>a, <1>b, <2>3
    <3>. QED
      BY <1>a, <1>b, <2>1, <3>1
  <2>4. p = Len(s) - n
    BY <1>a, <1>b, <2>2, <2>3
  <2>5. /\ Len(s) > n /\ Len(s) - n \in 1 .. Len(s)
        /\ \A q \in Len(s) - n + 1 .. Len(s) : q \in 1 .. Len(s) /\ q \in p + 1 .. p + n
    BY <1>a, <1>b, <2>4
  <2>6. s[Len(s) - n] = "]" /\ \A q \in Len(s) - n + 1 .. Len(s) : s[q] = "="
    BY <1>a, <1>b, <2>1, <2>4, <2>5
  <2>. QED
    BY <2>4, <2>5, <2>6 DEF EndsHalfClosed
<1>2. ASSUME p = Len(s) - n, EndsHalfClosed(s, n)
      PROVE  Closer(B, p, n)
  <2>1. /\ p \in 1 .. Len(B) /\ p + n + 1 \in 1 .. Len(B) /\ p + n + 1 = Len(s) + 1
        /\ \A q \in p + 1 .. p + n : q \in 1 .. Len(s) /\ q \in Len(s) - n + 1 .. Len(s)
    BY <1>a, <1>b, <1>2
  <2>2. s[p] = "]" /\ \A q \in Len(s) - n + 1 .. Len(s) : s[q] = "="
    BY <1>2 DEF EndsHalfClosed
  <2>3. B[p] = "]" /\ B[p + n + 1] = "]" /\ \A q \in p + 1 .. p + n : B[q] = "="
    BY <1>a, <1>b, <2>1, <2>2
  <2>. QED
    BY <2>1, <2>3 DEF Closer
<1>. QED
  BY <1>1, <1>2 DEF B

LEMMA DoneStops ==
  ASSUME IInv
  PROVE  StopsAtEndUnlessHalfClosed
<1>. SUFFICES ASSUME pc = "done"
              PROVE  StopsAt(text, max_equals, Len(text) + 1)
                       <=> ~EndsHalfClosed(text, max_equals)
  BY DEF StopsAtEndUnlessHalfClosed
<1>0. text \in Texts /\ Len(text) \in Nat /\ max_equals \in Nat
  BY TextIsSeq DEF IInv, TypeOK
<1>1. \A q \in 1 .. Len(text) : ~Closer(text, q, max_equals)
  BY DoneLevel DEF NoCloserInside
<1>2. \A q \in 1 .. Len(text) :
        Closer(Body(text, max_equals), q, max_equals)
          <=> q = Len(text) - max_equals /\ EndsHalfClosed(text, max_equals)
  BY <1>0, <1>1, EarlyCloser
<1>3. EndsHalfClosed(text, max_equals) => Len(text) - max_equals \in 1 .. Len(text)
  BY <1>0 DEF EndsHalfClosed
<1>4. StopsAt(text, max_equals, Len(text) + 1)
        <=> \A q \in 1 .. Len(text) : ~Closer(Body(text, max_equals), q, max_equals)
  BY <1>0, CloserAtEnd DEF StopsAt
<1>. QED
  BY <1>2, <1>3, <1>4

----------------------------------------------------------------------------
(* What Lua reads back.  Lines is defined by recursion: for a text without *)
(* carriage returns the equation has a solution, the rest of the text from *)
(* each position on, and no other.                                         *)

Unix(s) == \A q \in 1 .. Len(s) : s[q] # "\r"

\* From is what Lines takes for the function of its definition.
Reads(From, s) ==
  From = [p \in 1 .. Len(s) + 2 |->
            IF p > Len(s) THEN <<>>
            ELSE IF s[p] \in Eol THEN <<"\n">> \o From[p + EolLen(s, p)]
            ELSE <<s[p]>> \o From[p + 1]]

\* The text from p on.
RestFrom(s, p) == SubSeq(s, p, Len(s))

LEMMA ConsIs ==
  ASSUME NEW S, NEW c \in Seq(S), NEW b \in Seq(S), Len(c) = 1
  PROVE  /\ c \o b \in Seq(S) /\ Len(c \o b) = Len(b) + 1
         /\ (c \o b)[1] = c[1]
         /\ \A q \in 2 .. Len(b) + 1 : (c \o b)[q] = b[q - 1]
<1>0. Len(b) \in Nat
  OBVIOUS
<1>. DEFINE d == c \o b
<1>1. /\ d \in Seq(S) /\ Len(d) = Len(c) + Len(b)
      /\ \A q \in 1 .. Len(c) + Len(b) : d[q] = IF q <= Len(c) THEN c[q] ELSE b[q - Len(c)]
  <2>1. /\ c \o b \in Seq(S) /\ Len(c \o b) = Len(c) + Len(b)
        /\ \A q \in 1 .. Len(c) + Len(b) :
             (c \o b)[q] = IF q <= Len(c) THEN c[q] ELSE b[q - Len(c)]
    BY ConcatProperties
  <2>. QED
    BY <2>1
<1>. HIDE DEF d
<1>2. d[1] = c[1] /\ \A q \in 2 .. Len(b) + 1 : d[q] = b[q - 1]
  BY <1>0, <1>1
<1>3. d \in Seq(S) /\ Len(d) = Len(b) + 1
  BY <1>0, <1>1
<1>. QED
  BY <1>2, <1>3 DEF d

LEMMA SameSeq ==
  ASSUME NEW S, NEW a \in Seq(S), NEW d \in Seq(S), Len(a) = Len(d),
         \A q \in 1 .. Len(a) : a[q] = d[q]
  PROVE  a = d
OBVIOUS

LEMMA RestStep ==
  ASSUME NEW s \in Texts, NEW p \in 1 .. Len(s)
  PROVE  RestFrom(s, p) = <<s[p]>> \o RestFrom(s, p + 1)
<1>. USE TextIsSeq
<1>. DEFINE a == RestFrom(s, p)
            b == RestFrom(s, p + 1)
            c == <<s[p]>>
<1>1. /\ a \in Seq(Char) /\ b \in Seq(Char)
      /\ Len(a) = Len(s) + 1 - p /\ Len(b) = Len(s) - p
  BY DEF RestFrom
<1>2. c \in Seq(Char) /\ Len(c) = 1 /\ c[1] = s[p]
  OBVIOUS
<1>3. \A q \in 1 .. Len(s) + 1 - p : a[q] = s[p + q - 1]
  BY DEF RestFrom
<1>4. \A q \in 1 .. Len(s) - p : b[q] = s[p + q]
  BY DEF RestFrom
<1>. HIDE DEF a, b, c
<1>5. /\ c \o b \in Seq(Char) /\ Len(c \o b) = Len(s) + 1 - p
      /\ (c \o b)[1] = s[p]
      /\ \A q \in 2 .. Len(s) + 1 - p : (c \o b)[q] = b[q - 1]
  <2>1. /\ c \o b \in Seq(Char) /\ Len(c \o b) = Len(b) + 1
        /\ (c \o b)[1] = c[1]
        /\ \A q \in 2 .. Len(b) + 1 : (c \o b)[q] = b[q - 1]
    BY <1>1, <1>2, ConsIs
  <2>2. Len(b) + 1 = Len(s) + 1 - p
    BY <1>1
  <2>. QED
    BY <1>2, <2>1, <2>2
<1>6. ASSUME NEW q \in 1 .. Len(s) + 1 - p PROVE a[q] = (c \o b)[q]
  <2>1. CASE q = 1
    BY <1>3, <1>5, <2>1
  <2>2. CASE q # 1
    <3>1. q \in 2 .. Len(s) + 1 - p /\ q - 1 \in 1 .. Len(s) - p /\ p + (q - 1) = p + q - 1
      BY <2>2
    <3>. QED
      BY <1>3, <1>4, <1>5, <3>1
  <2>. QED
    BY <2>1, <2>2
<1>7. a = c \o b
  <2>. DEFINE d == c \o b
  <2>1. /\ d \in Seq(Char) /\ Len(a) = Len(d)
        /\ \A q \in 1 .. Len(a) : a[q] = d[q]
    BY <1>1, <1>5, <1>6
  <2>. HIDE DEF d
  <2>2. a = d
    BY <1>1, <2>1, SameSeq
  <2>. QED
    BY <2>2 DEF d
<1>. QED
  BY <1>7 DEF a, b, c

LEMMA RestEmpty ==
  ASSUME NEW s \in Texts, NEW p \in Nat, p > Len(s)
  PROVE  RestFrom(s, p) = <<>>
BY TextIsSeq DEF RestFrom

\* A line break of such a text is one character, which stays what it is.
LEMMA UnixBreak ==
  ASSUME NEW s \in Texts, Unix(s), NEW p \in 1 .. Len(s)
  PROVE  s[p] \in Eol => s[p] = "\n" /\ EolLen(s, p) = 1
<1>1. ASSUME p + 1 <= Len(s) PROVE s[p + 1] # "\r"
  BY <1>1, TextIsSeq DEF Unix
<1>. QED
  BY <1>1, TextIsSeq DEF Unix, Eol, EolLen

LEMMA ReadsExists ==
  ASSUME NEW s \in Texts, Unix(s)
  PROVE  \E From : Reads(From, s)
<1>. DEFINE g == [p \in 1 .. Len(s) + 2 |-> RestFrom(s, p)]
<1>1. \A p \in 1 .. Len(s) + 2 :
        g[p] = IF p > Len(s) THEN <<>>
               ELSE IF s[p] \in Eol THEN <<"\n">> \o g[p + EolLen(s, p)]
               ELSE <<s[p]>> \o g[p + 1]
  <2>. SUFFICES ASSUME NEW p \in 1 .. Len(s) + 2
                PROVE  g[p] = IF p > Len(s) THEN <<>>
                              ELSE IF s[p] \in Eol THEN <<"\n">> \o g[p + EolLen(s, p)]
                              ELSE <<s[p]>> \o g[p + 1]
    OBVIOUS
  <2>1. CASE p > Len(s)
    BY <2>1, RestEmpty, TextIsSeq
  <2>2. CASE p \in 1 .. Len(s)
    <3>1. g[p] = <<s[p]>> \o g[p + 1]
      BY <2>2, RestStep, TextIsSeq
    <3>2. s[p] \in Eol => s[p] = "\n" /\ EolLen(s, p) = 1
      BY <2>2, UnixBreak
    <3>3. ~(p > Len(s))
      BY <2>2, TextIsSeq
    <3>. HIDE DEF g
    <3>4. s[p] \in Eol => <<"\n">> \o g[p + EolLen(s, p)] = <<s[p]>> \o g[p + 1]
      BY <3>2
    <3>. QED
      BY <3>1, <3>3, <3>4, Zenon
  <2>. QED
    BY <2>1, <2>2, TextIsSeq
<1>2. g = [p \in 1 .. Len(s) + 2 |-> g[p]]
  OBVIOUS
<1>3. Reads(g, s)
  <2>. HIDE DEF g
  <2>. QED
    BY <1>1, <1>2 DEF Reads
<1>. QED
  BY <1>3

LEMMA ReadsMeans ==
  ASSUME NEW From, NEW s, Reads(From, s)
  PROVE  \A p \in 1 .. Len(s) + 2 :
           From[p] = IF p > Len(s) THEN <<>>
                     ELSE IF s[p] \in Eol THEN <<"\n">> \o From[p + EolLen(s, p)]
                     ELSE <<s[p]>> \o From[p + 1]
<1>. DEFINE g == [p \in 1 .. Len(s) + 2 |->
                    IF p > Len(s) THEN <<>>
                    ELSE IF s[p] \in Eol THEN <<"\n">> \o From[p + EolLen(s, p)]
                    ELSE <<s[p]>> \o From[p + 1]]
<1>1. From = g
  BY DEF Reads
<1>2. \A p \in 1 .. Len(s) + 2 :
        g[p] = IF p > Len(s) THEN <<>>
               ELSE IF s[p] \in Eol THEN <<"\n">> \o From[p + EolLen(s, p)]
               ELSE <<s[p]>> \o From[p + 1]
  OBVIOUS
<1>. QED
  BY <1>1, <1>2, Zenon

\* By induction on the number of characters that are left.
LEMMA ReadsRest ==
  ASSUME NEW s \in Texts, Unix(s), NEW From, Reads(From, s)
  PROVE  \A p \in 1 .. Len(s) + 1 : From[p] = RestFrom(s, p)
<1>0. Len(s) \in Nat
  BY TextIsSeq
<1>. DEFINE N == {k \in Nat : k <= Len(s) => From[Len(s) + 1 - k] = RestFrom(s, Len(s) + 1 - k)}
<1>m. \A p \in 1 .. Len(s) + 2 :
        From[p] = IF p > Len(s) THEN <<>>
                  ELSE IF s[p] \in Eol THEN <<"\n">> \o From[p + EolLen(s, p)]
                  ELSE <<s[p]>> \o From[p + 1]
  BY ReadsMeans
<1>1. 0 \in N
  <2>1. From[Len(s) + 1] = <<>>
    <3>1. Len(s) + 1 \in 1 .. Len(s) + 2 /\ Len(s) + 1 > Len(s)
      BY <1>0
    <3>. HIDE DEF N
    <3>. QED
      BY <1>m, <3>1, Zenon
  <2>2. RestFrom(s, Len(s) + 1) = <<>>
    BY <1>0, RestEmpty
  <2>. QED
    BY <1>0, <2>1, <2>2
<1>2. ASSUME NEW k \in N PROVE k + 1 \in N
  <2>. SUFFICES ASSUME k + 1 <= Len(s)
                PROVE  From[Len(s) - k] = RestFrom(s, Len(s) - k)
    BY <1>0
  <2>. DEFINE p == Len(s) - k
  <2>1. /\ p \in 1 .. Len(s) /\ p \in 1 .. Len(s) + 2 /\ ~(p > Len(s))
        /\ p + 1 = Len(s) + 1 - k
    BY <1>0
  <2>2. From[p + 1] = RestFrom(s, p + 1)
    BY <1>0, <2>1
  <2>. HIDE DEF p, N
  <2>3. From[p] = IF s[p] \in Eol THEN <<"\n">> \o From[p + EolLen(s, p)]
                  ELSE <<s[p]>> \o From[p + 1]
    BY <1>m, <2>1
  <2>4. s[p] \in Eol => s[p] = "\n" /\ EolLen(s, p) = 1
    BY <2>1, UnixBreak
  <2>5. From[p] = <<s[p]>> \o From[p + 1]
    BY <2>3, <2>4
  <2>6. RestFrom(s, p) = <<s[p]>> \o RestFrom(s, p + 1)
    BY <2>1, RestStep
  <2>. QED
    BY <2>2, <2>5, <2>6 DEF p
<1>3. N = Nat
  <2>. HIDE DEF N
  <2>1. N \subseteq Nat
    BY DEF N
  <2>. QED
    BY <1>1, <1>2, <2>1, SetInduction
<1>. SUFFICES ASSUME NEW p \in 1 .. Len(s) + 1 PROVE From[p] = RestFrom(s, p)
  OBVIOUS
<1>4. Len(s) + 1 - p \in Nat /\ Len(s) + 1 - p <= Len(s)
      /\ Len(s) + 1 - (Len(s) + 1 - p) = p
  BY <1>0
<1>5. Len(s) + 1 - p \in N
  BY <1>3, <1>4
<1>. QED
  BY <1>4, <1>5

\* Reading such a text line by line changes nothing.
LEMMA LinesKept ==
  ASSUME NEW s \in Texts, Unix(s)
  PROVE  Lines(s)[1] = s
<1>. DEFINE h == CHOOSE From : Reads(From, s)
<1>1. Reads(h, s)
  BY ReadsExists
<1>2. Lines(s) = h
  BY DEF Lines, Reads
<1>3. h[1] = RestFrom(s, 1)
  <2>. HIDE DEF h
  <2>. QED
    BY <1>1, ReadsRest, TextIsSeq
<1>4. RestFrom(s, 1) = s
  BY TextIsSeq DEF RestFrom
<1>. QED
  BY <1>2, <1>3, <1>4

\* The literal ends in one place only.
LEMMA OneStop ==
  ASSUME NEW s \in Texts, NEW n \in Nat, StopsAt(s, n, Len(s) + 1),
         NEW p \in 1 .. Len(s) + 1, StopsAt(s, n, p)
  PROVE  p = Len(s) + 1
<1>1. ASSUME p < Len(s) + 1 PROVE FALSE
  <2>1. p \in 1 .. Len(s) + 1 - 1
    BY <1>1, TextIsSeq
  <2>. QED
    BY <2>1 DEF StopsAt
<1>. QED
  BY <1>1, TextIsSeq

LEMMA DoneKept ==
  ASSUME IInv
  PROVE  PlainTextKept
<1>. SUFFICES ASSUME pc = "done", text # <<>>, text[1] # "\n",
                     ~EndsHalfClosed(text, max_equals), Unix(text)
              PROVE  LuaString(text, max_equals) = text
  BY DEF PlainTextKept, Unix
<1>. DEFINE n    == max_equals
            stop == CHOOSE p \in 1 .. Len(text) + 1 : StopsAt(text, n, p)
            raw  == SubSeq(Body(text, n), 1, stop - 1)
<1>0. text \in Texts /\ text \in Seq(Char) /\ Len(text) \in Nat /\ n \in Nat
  BY TextIsSeq DEF IInv, TypeOK
<1>1. StopsAt(text, n, Len(text) + 1)
  BY DoneStops DEF StopsAtEndUnlessHalfClosed
<1>2. stop = Len(text) + 1
  <2>1. stop \in 1 .. Len(text) + 1 /\ StopsAt(text, n, stop)
    <3>1. Len(text) + 1 \in 1 .. Len(text) + 1
      BY <1>0
    <3>. HIDE DEF n
    <3>. QED
      BY <1>1, <3>1
  <2>. HIDE DEF stop, n
  <2>. QED
    BY <1>0, <1>1, <2>1, OneStop
<1>3. raw = text
  <2>1. /\ Len(Body(text, n)) = Len(text) + n + 2
        /\ \A q \in 1 .. Len(text) : Body(text, n)[q] = text[q]
    BY <1>0, BodyShape
  <2>. HIDE DEF stop, n
  <2>2. stop - 1 = Len(text)
    BY <1>0, <1>2
  <2>3. raw = [q \in 1 .. Len(text) |-> Body(text, n)[q]]
    BY <1>0, <2>1, <2>2
  <2>4. text = [q \in 1 .. Len(text) |-> text[q]]
    BY <1>0
  <2>. HIDE DEF raw
  <2>. QED
    BY <2>1, <2>3, <2>4
<1>4. text[1] \notin Eol
  <2>1. 1 \in 1 .. Len(text)
    BY <1>0
  <2>. QED
    BY <2>1 DEF Eol, Unix
<1>5. LuaString(text, n) = IF raw # <<>> /\ raw[1] \in Eol
                             THEN Lines(raw)[1 + EolLen(raw, 1)]
                             ELSE Lines(raw)[1]
  BY DEF LuaString
<1>6. Lines(text)[1] = text
  BY <1>0, LinesKept
<1>. HIDE DEF raw
<1>. QED
  BY <1>3, <1>4, <1>5, <1>6

----------------------------------------------------------------------------

LEMMA Invariance == Spec => []IInv
<1>1. Init => IInv
  BY InitEstablishes
<1>2. IInv /\ [Next]_vars => IInv'
  BY StepPreserves
<1>. QED
  BY <1>1, <1>2, PTL DEF Spec

\* For every template text whatsoever, the level the loop of
\* flush_text_buffer ends with is one more than the highest level of a
\* closing bracket in the text, so no bracket of the text closes the literal
\* (main.c 148-164).
THEOREM BracketLevel == Spec => [](TypeOK /\ LevelCorrect /\ NoCloserInside)
<1>1. IInv => TypeOK /\ LevelCorrect /\ NoCloserInside
  BY DoneLevel DEF IInv
<1>. QED
  BY <1>1, Invariance, PTL

\* For every template text, the literal that is written (main.c 166-183) ends
\* where the text ends if and only if the text does not end in ']' followed
\* by exactly as many '=' as the level.
THEOREM BracketStops == Spec => []StopsAtEndUnlessHalfClosed
<1>1. IInv => StopsAtEndUnlessHalfClosed
  BY DoneStops
<1>. QED
  BY <1>1, Invariance, PTL

\* For every template text without carriage returns that neither begins with a
\* newline nor ends half closed, the string that LuaJIT reads from the literal
\* flush_text_buffer writes is the text itself (main.c 144-186).
THEOREM BracketKept == Spec => []PlainTextKept
<1>1. IInv => PlainTextKept
  BY DoneKept
<1>. QED
  BY <1>1, Invariance, PTL
=============================================================================
