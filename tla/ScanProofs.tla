----------------------------- MODULE ScanProofs -----------------------------
(***************************************************************************)
(* Proofs about Scan.  Type correctness holds for every delimiter.  For a  *)
(* delimiter of one character, match_buf is always empty between two       *)
(* steps, and the invariant says which positions before the next one are   *)
(* in the chunk and in the pending text, in which order, and that          *)
(* escape_next and code agree with what the characters before it mean.     *)
(* For longer delimiters the second part takes templates without escapes:  *)
(* match_buf holds the positions read last, and, if the delimiter repeats  *)
(* one character, as many of the run as whole delimiters leave.  The last  *)
(* two parts are about the lines of the chunk and the line map.            *)
(***************************************************************************)
EXTENDS Scan, FiniteSetTheorems, TLAPS

Atoms == [kind : Kinds, at : {0} \cup Positions]

TInv == TypeOK /\ (escape_next => pos > 1)

----------------------------------------------------------------------------
(* Lemmas on the parts of the chunk.                                       *)

LEMMA InpIsSeq ==
  ASSUME inp \in Templates
  PROVE  inp \in Seq(STRING) /\ Len(inp) \in Nat
BY TemplatesAssumption

LEMMA CopiesType ==
  ASSUME NEW ps \in Seq(Positions), NEW k \in Kinds
  PROVE  /\ Copies(k, ps) \in Seq(Atoms)
         /\ Len(Copies(k, ps)) = Len(ps)
         /\ \A n \in 1 .. Len(ps) : Copies(k, ps)[n] = Atom(k, ps[n])
<1>1. Len(ps) \in Nat /\ \A n \in 1 .. Len(ps) : ps[n] \in Positions
  OBVIOUS
<1>2. \A p \in Positions : Atom(k, p) \in Atoms
  BY DEF Atom, Atoms
<1>3. Copies(k, ps) \in [1 .. Len(ps) -> Atoms]
  BY <1>1, <1>2 DEF Copies
<1>. QED
  BY <1>1, <1>3 DEF Copies

LEMMA CopiesAt ==
  ASSUME NEW ps \in Seq(Positions), NEW k \in Kinds
  PROVE  \A n \in 1 .. Len(ps) : Copies(k, ps)[n].at = ps[n] /\ ps[n] \in Positions
<1>1. \A n \in 1 .. Len(ps) : ps[n] \in Positions
  OBVIOUS
<1>2. \A p : Atom(k, p).at = p
  BY DEF Atom
<1>. QED
  BY <1>1, <1>2, CopiesType

LEMMA AddedType == Newline \in Atoms /\ Open \in Atoms /\ Close \in Atoms
BY DEF Newline, Open, Close, Atom, Atoms, Kinds

LEMMA LiteralType ==
  ASSUME NEW ps \in Seq(Positions)
  PROVE  Literal(ps) \in Seq(Atoms)
<1>1. Copies("text", ps) \in Seq(Atoms)
  BY CopiesType DEF Kinds
<1>. QED
  BY <1>1, AddedType DEF Literal

LEMMA BreaksType ==
  ASSUME NEW ps \in Seq(Positions)
  PROVE  Breaks(ps) \in Nat /\ LiteralBreaks(ps) \in Nat
<1>1. {n \in 1 .. Len(ps) : inp[ps[n]] = "\n"} \subseteq 1 .. Len(ps)
  OBVIOUS
<1>2. IsFiniteSet(1 .. Len(ps))
  BY FS_Interval
<1>3. IsFiniteSet({n \in 1 .. Len(ps) : inp[ps[n]] = "\n"})
  BY <1>1, <1>2, FS_Subset
<1>4. Breaks(ps) \in Nat
  BY <1>3, FS_CardinalityType DEF Breaks
<1>. QED
  BY <1>4 DEF LiteralBreaks

LEMMA NoteType ==
  ASSUME TypeOK, NEW n \in Nat, NEW line \in Nat, NoteNewlines(n, line)
  PROVE  lm' \in Seq(Nat) /\ gen_line' \in Nat
<1>1. [k \in 1 .. n |-> line] \in Seq(Nat)
  OBVIOUS
<1>. QED
  BY <1>1 DEF NoteNewlines, TypeOK

----------------------------------------------------------------------------
(* Type correctness, for every delimiter.                                  *)

LEMMA InitType == Init => TInv
<1>. SUFFICES ASSUME Init PROVE TInv
  OBVIOUS
<1>1. Len(inp) \in Nat
  BY InpIsSeq DEF Init
<1>2. <<1>> \in Seq(Nat)
  OBVIOUS
<1>3. code \in BOOLEAN /\ escape_next \in BOOLEAN /\ done \in BOOLEAN /\ ~escape_next
  BY Zenon DEF Init
<1>. QED
  BY <1>1, <1>2, <1>3 DEF Init, TInv, TypeOK

LEMMA ReadType ==
  ASSUME TInv, ReadChar
  PROVE  /\ pos \in Positions /\ pos' = pos + 1
         /\ cur_line' \in Nat
         /\ (escape_next => Escaped \in Seq(Positions))
         /\ Candidate \in Seq(Positions)
<1>1. Len(inp) \in Nat /\ pos \in Positions
  BY InpIsSeq DEF TInv, TypeOK, ReadChar, Positions
<1>2. escape_next => pos - 1 \in Positions
  BY <1>1 DEF TInv, TypeOK, Positions
<1>. QED
  BY <1>1, <1>2 DEF TInv, TypeOK, ReadChar, Escaped, Candidate

LEMMA CopyType ==
  ASSUME TInv, inp' = inp, NEW ps \in Seq(Positions), NEW line \in Nat, CopyCode(ps, line)
  PROVE  builder' \in Seq(Atoms) /\ lm' \in Seq(Nat) /\ gen_line' \in Nat
<1>1. Copies("code", ps) \in Seq(Atoms) /\ builder \in Seq(Atoms)
  BY CopiesType DEF Kinds, TInv, TypeOK, Atoms
<1>2. lm' \in Seq(Nat) /\ gen_line' \in Nat
  BY BreaksType, NoteType DEF CopyCode, TInv
<1>. QED
  BY <1>1, <1>2 DEF CopyCode

LEMMA StepType ==
  ASSUME TInv, [Next]_vars
  PROVE  TInv'
<1>0. Len(inp) \in Nat
  BY InpIsSeq DEF TInv, TypeOK
<1>1. CASE EscapedInCode
  <2>1. ReadChar /\ escape_next /\ inp' = inp /\ CopyCode(Escaped, cur_line')
    BY <1>1 DEF EscapedInCode
  <2>2. builder' \in Seq(Atoms) /\ lm' \in Seq(Nat) /\ gen_line' \in Nat
    BY <2>1, ReadType, CopyType
  <2>3. pos' \in 1 .. Len(inp) + 1 /\ cur_line' \in Nat
    BY <2>1, <1>0, ReadType DEF Positions
  <2>. QED
    BY <1>1, <2>2, <2>3 DEF EscapedInCode, TInv, TypeOK, Atoms, Positions
<1>2. CASE LineContinuation
  <2>1. pos' \in 1 .. Len(inp) + 1 /\ cur_line' \in Nat
    BY <1>2, <1>0, ReadType DEF LineContinuation, Positions
  <2>. QED
    BY <1>2, <2>1 DEF LineContinuation, TInv, TypeOK, Positions
<1>3. CASE EscapedInText
  <2>1. pos' \in 1 .. Len(inp) + 1 /\ cur_line' \in Nat /\ Escaped \in Seq(Positions)
    BY <1>3, <1>0, ReadType DEF EscapedInText, Positions
  <2>2. buffer' \in Seq(Positions)
    BY <1>3, <2>1 DEF EscapedInText, TInv, TypeOK
  <2>. QED
    BY <1>3, <2>1, <2>2 DEF EscapedInText, TInv, TypeOK, Positions
<1>4. CASE Backslash
  <2>1. pos' \in 1 .. Len(inp) + 1 /\ cur_line' \in Nat /\ pos' > 1
    BY <1>4, <1>0, ReadType DEF Backslash, Positions
  <2>. QED
    BY <1>4, <2>1 DEF Backslash, TInv, TypeOK, Positions
<1>5. CASE PartOfSep
  <2>1. /\ pos' \in 1 .. Len(inp) + 1 /\ cur_line' \in Nat /\ pos' > 1
        /\ Candidate \in Seq(Positions)
    BY <1>5, <1>0, ReadType DEF PartOfSep, Match, Positions
  <2>. QED
    BY <1>5, <2>1 DEF PartOfSep, TInv, TypeOK, Positions
<1>6. CASE WholeSep
  <2>1. pos' \in 1 .. Len(inp) + 1 /\ cur_line' \in Nat /\ pos' > 1
    BY <1>6, <1>0, ReadType DEF WholeSep, Match, Positions
  <2>2. builder' \in Seq(Atoms)
    <3>1. Literal(buffer) \in Seq(Atoms) /\ builder \in Seq(Atoms)
      BY LiteralType DEF TInv, TypeOK, Atoms
    <3>. QED
      BY <1>6, <3>1, AddedType DEF WholeSep
  <2>3. lm' \in Seq(Nat) /\ gen_line' \in Nat
    <3>1. 1 + LiteralBreaks(buffer) \in Nat
      BY BreaksType DEF TInv, TypeOK
    <3>. QED
      BY <1>6, <2>1, <3>1, NoteType DEF WholeSep, TInv
  <2>4. code' \in BOOLEAN
    BY <1>6, Zenon DEF WholeSep
  <2>. QED
    BY <1>6, <2>1, <2>2, <2>3, <2>4 DEF WholeSep, TInv, TypeOK, Positions, Atoms
<1>7. CASE NoSepInCode
  <2>1. ReadChar /\ inp' = inp /\ CopyCode(Candidate, cur_line')
    BY <1>7 DEF NoSepInCode, Match
  <2>2. builder' \in Seq(Atoms) /\ lm' \in Seq(Nat) /\ gen_line' \in Nat
    BY <2>1, ReadType, CopyType
  <2>3. pos' \in 1 .. Len(inp) + 1 /\ cur_line' \in Nat /\ pos' > 1
    BY <2>1, <1>0, ReadType DEF Positions
  <2>. QED
    BY <1>7, <2>2, <2>3 DEF NoSepInCode, TInv, TypeOK, Atoms, Positions
<1>8. CASE NoSepInText
  <2>1. /\ pos' \in 1 .. Len(inp) + 1 /\ cur_line' \in Nat /\ pos' > 1
        /\ Candidate \in Seq(Positions)
    BY <1>8, <1>0, ReadType DEF NoSepInText, Match, Positions
  <2>. QED
    BY <1>8, <2>1 DEF NoSepInText, TInv, TypeOK, Positions
<1>9. CASE EndOfFile
  <2>. DEFINE text == IF code THEN buffer ELSE buffer \o Remainder
              tail == IF code THEN Copies("code", Remainder) ELSE <<>>
  <2>1. Remainder \in Seq(Positions)
    <3>1. escape_next => pos - 1 \in Positions
      BY <1>0 DEF TInv, TypeOK, Positions
    <3>. QED
      BY <3>1 DEF Remainder, TInv, TypeOK
  <2>2. text \in Seq(Positions) /\ tail \in Seq(Atoms)
    BY <2>1, CopiesType DEF TInv, TypeOK, Kinds
  <2>3. builder' = builder \o tail \o Literal(text) /\ NoteNewlines(LiteralBreaks(text), cur_line)
    BY <1>9 DEF EndOfFile
  <2>. HIDE DEF text, tail
  <2>4. builder' \in Seq(Atoms)
    <3>1. builder \in Seq(Atoms) /\ Literal(text) \in Seq(Atoms)
      BY <2>2, LiteralType DEF TInv, TypeOK, Atoms
    <3>. QED
      BY <2>2, <2>3, <3>1
  <2>5. lm' \in Seq(Nat) /\ gen_line' \in Nat
    BY <2>2, <2>3, BreaksType, NoteType DEF TInv, TypeOK
  <2>. QED
    BY <1>9, <2>4, <2>5 DEF EndOfFile, TInv, TypeOK, Positions, Atoms
<1>10. CASE UNCHANGED vars
  BY <1>10 DEF vars, TInv, TypeOK, Positions
<1>. QED
  BY <1>1, <1>2, <1>3, <1>4, <1>5, <1>6, <1>7, <1>8, <1>9, <1>10 DEF Next

LEMMA TypeInvariance == Spec => []TInv
BY InitType, StepType, PTL DEF Spec

\* The types and ranges hold for every template and every delimiter.
THEOREM ScanType == Spec => []TypeOK
<1>1. TInv => TypeOK
  BY DEF TInv
<1>. QED
  BY <1>1, TypeInvariance, PTL
----------------------------------------------------------------------------
(* What the characters mean: runs of '\', and the delimiters before p.      *)

\* Exactly k characters '\' stand before p.
RunAt(p, k) ==
  /\ k \in 0 .. p - 1
  /\ \A q \in p - k .. p - 1 : inp[q] = "\\"
  /\ p - k = 1 \/ inp[p - k - 1] # "\\"

LEMMA RunUnique ==
  ASSUME NEW p \in Nat \ {0}, NEW k, NEW m, RunAt(p, k), RunAt(p, m)
  PROVE  k = m
<1>1. k \in 0 .. p - 1 /\ m \in 0 .. p - 1
  BY DEF RunAt
<1>2. ASSUME k < m PROVE FALSE
  <2>1. p - k - 1 \in p - m .. p - 1 /\ p - k # 1
    BY <1>1, <1>2
  <2>. QED
    BY <2>1 DEF RunAt
<1>3. ASSUME m < k PROVE FALSE
  <2>1. p - m - 1 \in p - k .. p - 1 /\ p - m # 1
    BY <1>1, <1>3
  <2>. QED
    BY <2>1 DEF RunAt
<1>. QED
  BY <1>1, <1>2, <1>3

LEMMA RunStep ==
  ASSUME NEW p \in Nat \ {0}, NEW k, RunAt(p, k)
  PROVE  RunAt(p + 1, IF inp[p] = "\\" THEN k + 1 ELSE 0)
<1>1. CASE inp[p] = "\\"
  BY <1>1 DEF RunAt
<1>2. CASE inp[p] # "\\"
  BY <1>2 DEF RunAt
<1>. QED
  BY <1>1, <1>2

LEMMA RunBack ==
  ASSUME NEW p \in Nat \ {0}, NEW k, RunAt(p, k), k > 0
  PROVE  p - 1 \in Nat \ {0} /\ inp[p - 1] = "\\" /\ RunAt(p - 1, k - 1)
<1>1. k \in 0 .. p - 1
  BY DEF RunAt
<1>2. p - 1 \in p - k .. p - 1
  BY <1>1
<1>. QED
  BY <1>1, <1>2 DEF RunAt

LEMMA EscapedByRun ==
  ASSUME NEW p \in Nat \ {0}, NEW k, RunAt(p, k)
  PROVE  IsEscaped(p) <=> k % 2 = 1
<1>1. k \in 0 .. p - 1
  BY DEF RunAt
<1>2. ASSUME IsEscaped(p) PROVE k % 2 = 1
  <2>1. PICK m \in 1 .. p - 1 : m % 2 = 1 /\ RunAt(p, m)
    BY <1>2 DEF IsEscaped, RunAt
  <2>. QED
    BY <2>1, RunUnique
<1>3. ASSUME k % 2 = 1 PROVE IsEscaped(p)
  <2>1. k \in 1 .. p - 1
    BY <1>1, <1>3
  <2>. QED
    BY <1>3, <2>1 DEF IsEscaped, RunAt
<1>. QED
  BY <1>2, <1>3

\* One more delimiter is one more toggle.
LEMMA ToggleCount ==
  ASSUME NEW p \in Nat \ {0}
  PROVE  InCode(p + 1) <=> (IF IsDelimiter(p) THEN ~InCode(p) ELSE InCode(p))
<1>. DEFINE D(b) == {q \in 1 .. b - 1 : IsDelimiter(q)}
<1>1. IsFiniteSet(D(p)) /\ p \notin D(p)
  <2>1. IsFiniteSet(1 .. p - 1) /\ D(p) \subseteq 1 .. p - 1
    BY FS_Interval
  <2>. QED
    BY <2>1, FS_Subset
<1>2. Cardinality(D(p)) \in Nat
  BY <1>1, FS_CardinalityType
<1>3. CASE IsDelimiter(p)
  <2>1. D(p + 1) = D(p) \cup {p}
    BY <1>3
  <2>2. Cardinality(D(p + 1)) = Cardinality(D(p)) + 1
    BY <1>1, <2>1, FS_AddElement
  <2>3. \A n \in Nat : (n + 1) % 2 = 1 <=> n % 2 # 1
    OBVIOUS
  <2>. QED
    BY <1>2, <1>3, <2>2, <2>3 DEF InCode
<1>4. CASE ~IsDelimiter(p)
  <2>1. D(p + 1) = D(p)
    BY <1>4
  <2>. QED
    BY <1>4, <2>1 DEF InCode
<1>. QED
  BY <1>3, <1>4
----------------------------------------------------------------------------
(* Which positions are where, and in which order.                          *)

In(s, a) == \E n \in 1 .. Len(s) : s[n] = a

CodeIn(b) == {p \in Positions : In(b, Atom("code", p))}

TextIn(b, t) == {p \in Positions : In(b, Atom("text", p)) \/ In(t, p)}

LEMMA InConcat ==
  ASSUME NEW S, NEW s \in Seq(S), NEW t \in Seq(S), NEW a
  PROVE  In(s \o t, a) <=> In(s, a) \/ In(t, a)
<1>1. Len(s) \in Nat /\ Len(t) \in Nat /\ Len(s \o t) = Len(s) + Len(t)
  OBVIOUS
<1>2. ASSUME In(s \o t, a) PROVE In(s, a) \/ In(t, a)
  <2>1. PICK n \in 1 .. Len(s \o t) : (s \o t)[n] = a
    BY <1>2 DEF In
  <2>2. CASE n <= Len(s)
    BY <1>1, <2>1, <2>2 DEF In
  <2>3. CASE n > Len(s)
    <3>1. n - Len(s) \in 1 .. Len(t) /\ t[n - Len(s)] = a
      BY <1>1, <2>1, <2>3
    <3>. QED
      BY <3>1 DEF In
  <2>. QED
    BY <1>1, <2>2, <2>3
<1>3. ASSUME In(s, a) PROVE In(s \o t, a)
  BY <1>1, <1>3 DEF In
<1>4. ASSUME In(t, a) PROVE In(s \o t, a)
  <2>1. PICK n \in 1 .. Len(t) : t[n] = a
    BY <1>4 DEF In
  <2>2. n + Len(s) \in 1 .. Len(s \o t) /\ (s \o t)[n + Len(s)] = a
    BY <1>1, <2>1
  <2>. QED
    BY <2>2 DEF In
<1>. QED
  BY <1>2, <1>3, <1>4

LEMMA InCopies ==
  ASSUME NEW ps \in Seq(Positions), NEW k \in Kinds, NEW h, NEW p
  PROVE  In(Copies(k, ps), Atom(h, p)) <=> h = k /\ In(ps, p)
<1>. DEFINE C == Copies(k, ps)
<1>1. Len(C) = Len(ps) /\ \A n \in 1 .. Len(ps) : C[n] = Atom(k, ps[n])
  BY CopiesType
<1>. HIDE DEF C
<1>2. \A q : Atom(k, q) = Atom(h, p) <=> h = k /\ q = p
  BY DEF Atom
<1>3. In(C, Atom(h, p)) <=> h = k /\ In(ps, p)
  BY <1>1, <1>2 DEF In
<1>. QED
  BY <1>3 DEF C

LEMMA InLiteral ==
  ASSUME NEW ps \in Seq(Positions), NEW h \in {"code", "text"}, NEW p
  PROVE  In(Literal(ps), Atom(h, p)) <=> h = "text" /\ In(ps, p)
<1>1. CASE ps = <<>>
  BY <1>1 DEF Literal, In
<1>2. CASE ps # <<>>
  <2>. DEFINE C == Copies("text", ps)
  <2>1. C \in Seq(Atoms) /\ (In(C, Atom(h, p)) <=> h = "text" /\ In(ps, p))
    BY CopiesType, InCopies DEF Kinds
  <2>. HIDE DEF C
  <2>2. <<Open>> \in Seq(Atoms) /\ <<Close>> \in Seq(Atoms) /\ <<Open>> \o C \in Seq(Atoms)
    BY <2>1, AddedType
  <2>3. Literal(ps) = (<<Open>> \o C) \o <<Close>>
    BY <1>2 DEF Literal, C
  <2>4. ~In(<<Open>>, Atom(h, p)) /\ ~In(<<Close>>, Atom(h, p))
    BY DEF In, Open, Close, Atom
  <2>5. \A a : In((<<Open>> \o C) \o <<Close>>, a) <=> In(<<Open>> \o C, a) \/ In(<<Close>>, a)
    BY <2>2, InConcat
  <2>6. \A a : In(<<Open>> \o C, a) <=> In(<<Open>>, a) \/ In(C, a)
    BY <2>1, <2>2, InConcat
  <2>. QED
    BY <2>1, <2>3, <2>4, <2>5, <2>6
<1>. QED
  BY <1>1, <1>2

Elems(ps) == {p \in Positions : In(ps, p)}

\* What each way to append does to the two sets.
LEMMA PlaceCode ==
  ASSUME NEW b \in Seq(Atoms), NEW t \in Seq(Positions), NEW ps \in Seq(Positions)
  PROVE  /\ b \o Copies("code", ps) \in Seq(Atoms)
         /\ CodeIn(b \o Copies("code", ps)) = CodeIn(b) \cup Elems(ps)
         /\ TextIn(b \o Copies("code", ps), t) = TextIn(b, t)
<1>. DEFINE C == Copies("code", ps)
<1>1. /\ C \in Seq(Atoms)
      /\ \A p \in Positions : (In(C, Atom("code", p)) <=> In(ps, p)) /\ ~In(C, Atom("text", p))
  BY CopiesType, InCopies DEF Kinds
<1>. HIDE DEF C
<1>2. \A a : In(b \o C, a) <=> In(b, a) \/ In(C, a)
  BY <1>1, InConcat
<1>. QED
  BY <1>1, <1>2 DEF CodeIn, TextIn, Elems, C

LEMMA PlaceText ==
  ASSUME NEW b \in Seq(Atoms), NEW t \in Seq(Positions), NEW ps \in Seq(Positions)
  PROVE  TextIn(b, t \o ps) = TextIn(b, t) \cup Elems(ps)
<1>1. \A p : In(t \o ps, p) <=> In(t, p) \/ In(ps, p)
  BY InConcat
<1>. QED
  BY <1>1 DEF TextIn, Elems

LEMMA PlaceLiteral ==
  ASSUME NEW b \in Seq(Atoms), NEW t \in Seq(Positions)
  PROVE  /\ b \o Literal(t) \in Seq(Atoms)
         /\ CodeIn(b \o Literal(t)) = CodeIn(b)
         /\ TextIn(b \o Literal(t), <<>>) = TextIn(b, t)
<1>. DEFINE C == Literal(t)
<1>1. /\ C \in Seq(Atoms)
      /\ \A p \in Positions : (In(C, Atom("text", p)) <=> In(t, p)) /\ ~In(C, Atom("code", p))
  BY LiteralType, InLiteral
<1>. HIDE DEF C
<1>2. \A a : In(b \o C, a) <=> In(b, a) \/ In(C, a)
  BY <1>1, InConcat
<1>3. \A p : ~In(<<>>, p)
  BY DEF In
<1>. QED
  BY <1>1, <1>2, <1>3 DEF CodeIn, TextIn, C

LEMMA PlaceNewline ==
  ASSUME NEW b \in Seq(Atoms), NEW t \in Seq(Positions)
  PROVE  /\ b \o <<Newline>> \in Seq(Atoms)
         /\ CodeIn(b \o <<Newline>>) = CodeIn(b)
         /\ TextIn(b \o <<Newline>>, t) = TextIn(b, t)
<1>1. <<Newline>> \in Seq(Atoms)
  BY AddedType
<1>2. \A p \in Positions : ~In(<<Newline>>, Atom("text", p)) /\ ~In(<<Newline>>, Atom("code", p))
  BY DEF In, Newline, Atom
<1>3. \A a : In(b \o <<Newline>>, a) <=> In(b, a) \/ In(<<Newline>>, a)
  BY <1>1, InConcat
<1>. QED
  BY <1>1, <1>2, <1>3 DEF CodeIn, TextIn

Rising(s) ==
  \A m, n \in 1 .. Len(s) : m < n /\ IsCopy(s[m]) /\ IsCopy(s[n]) => s[m].at < s[n].at

Climbs(ps) == \A m, n \in 1 .. Len(ps) : m < n => ps[m] < ps[n]

\* The chunk b and after it the text t keep the order, all of it before f.
Ordered(b, t, f) ==
  /\ Rising(b) /\ Climbs(t)
  /\ \A n \in 1 .. Len(b) : IsCopy(b[n]) => b[n].at \in Positions /\ b[n].at < f
  /\ \A n \in 1 .. Len(t) : t[n] < f
  /\ \A m \in 1 .. Len(b) : \A n \in 1 .. Len(t) : IsCopy(b[m]) => b[m].at < t[n]

LEMMA RisingConcat ==
  ASSUME NEW s \in Seq(Atoms), NEW t \in Seq(Atoms), Rising(s), Rising(t),
         \A m \in 1 .. Len(s) : \A n \in 1 .. Len(t) :
           IsCopy(s[m]) /\ IsCopy(t[n]) => s[m].at < t[n].at
  PROVE  Rising(s \o t)
<1>. SUFFICES ASSUME NEW m \in 1 .. Len(s \o t), NEW n \in 1 .. Len(s \o t), m < n,
                     IsCopy((s \o t)[m]), IsCopy((s \o t)[n])
              PROVE  (s \o t)[m].at < (s \o t)[n].at
  BY DEF Rising
<1>0. Len(s) \in Nat /\ Len(t) \in Nat /\ Len(s \o t) = Len(s) + Len(t)
  OBVIOUS
<1>1. \A k \in 1 .. Len(s \o t) : (s \o t)[k] = IF k <= Len(s) THEN s[k] ELSE t[k - Len(s)]
  OBVIOUS
<1>2. CASE n <= Len(s)
  BY <1>0, <1>1, <1>2 DEF Rising
<1>3. CASE m <= Len(s) /\ n > Len(s)
  <2>1. n - Len(s) \in 1 .. Len(t)
    BY <1>0, <1>3
  <2>. QED
    BY <1>0, <1>1, <1>3, <2>1
<1>4. CASE m > Len(s)
  <2>1. m - Len(s) \in 1 .. Len(t) /\ n - Len(s) \in 1 .. Len(t) /\ m - Len(s) < n - Len(s)
    BY <1>0, <1>4
  <2>. QED
    BY <1>0, <1>1, <1>4, <2>1 DEF Rising
<1>. QED
  BY <1>0, <1>2, <1>3, <1>4

\* Characters copied into the chunk while no text is pending.
LEMMA OrderCode ==
  ASSUME NEW b \in Seq(Atoms), NEW ps \in Seq(Positions), NEW f \in Nat, NEW g \in Nat,
         Ordered(b, <<>>, f), f <= g, Climbs(ps),
         \A n \in 1 .. Len(ps) : f <= ps[n] /\ ps[n] < g
  PROVE  Ordered(b \o Copies("code", ps), <<>>, g)
<1>. DEFINE C == Copies("code", ps)
<1>1. C \in Seq(Atoms) /\ Len(C) = Len(ps)
  BY CopiesType DEF Kinds
<1>2. \A n \in 1 .. Len(C) : C[n].at = ps[n] /\ ps[n] \in Positions
  BY <1>1, CopiesAt DEF Kinds
<1>. HIDE DEF C
<1>3. Rising(C)
  BY <1>1, <1>2 DEF Rising, Climbs
<1>4. \A m \in 1 .. Len(b) : IsCopy(b[m]) => b[m].at \in Positions /\ b[m].at < f
  BY DEF Ordered
<1>5. Rising(b \o C)
  <2>1. \A m \in 1 .. Len(b) : \A n \in 1 .. Len(C) :
          IsCopy(b[m]) /\ IsCopy(C[n]) => b[m].at < C[n].at
    BY <1>1, <1>2, <1>4 DEF Positions
  <2>. QED
    BY <1>1, <1>3, <2>1, RisingConcat DEF Ordered
<1>6. \A n \in 1 .. Len(b \o C) :
        IsCopy((b \o C)[n]) => (b \o C)[n].at \in Positions /\ (b \o C)[n].at < g
  <2>. SUFFICES ASSUME NEW n \in 1 .. Len(b \o C), IsCopy((b \o C)[n])
                PROVE  (b \o C)[n].at \in Positions /\ (b \o C)[n].at < g
    OBVIOUS
  <2>1. CASE n <= Len(b)
    BY <1>1, <1>4, <2>1 DEF Positions
  <2>2. CASE n > Len(b)
    <3>1. n - Len(b) \in 1 .. Len(C) /\ (b \o C)[n] = C[n - Len(b)]
      BY <1>1, <2>2
    <3>. QED
      BY <1>1, <1>2, <3>1
  <2>. QED
    BY <2>1, <2>2
<1>7. Ordered(b \o C, <<>>, g)
  BY <1>5, <1>6 DEF Ordered, Climbs
<1>. QED
  BY <1>7 DEF C

\* Characters added to the pending text.
LEMMA OrderText ==
  ASSUME NEW b \in Seq(Atoms), NEW t \in Seq(Positions), NEW ps \in Seq(Positions),
         NEW f \in Nat, NEW g \in Nat,
         Ordered(b, t, f), f <= g, Climbs(ps),
         \A n \in 1 .. Len(ps) : f <= ps[n] /\ ps[n] < g
  PROVE  Ordered(b, t \o ps, g)
<1>0. /\ Len(t) \in Nat /\ Len(ps) \in Nat /\ Len(t \o ps) = Len(t) + Len(ps)
      /\ \A n \in 1 .. Len(t) : t[n] \in Nat /\ t[n] < f
      /\ \A n \in 1 .. Len(ps) : ps[n] \in Nat
      /\ \A n \in 1 .. Len(b) : IsCopy(b[n]) => b[n].at \in Nat /\ b[n].at < f
  <2>1. /\ Len(t) \in Nat /\ Len(ps) \in Nat /\ Len(t \o ps) = Len(t) + Len(ps)
        /\ \A n \in 1 .. Len(t) : t[n] \in Nat
        /\ \A n \in 1 .. Len(ps) : ps[n] \in Nat
    BY DEF Positions
  <2>2. \A n \in 1 .. Len(b) : IsCopy(b[n]) => b[n].at \in Nat
    BY DEF Ordered, Positions
  <2>. QED
    BY <2>1, <2>2 DEF Ordered
<1>1. \A k \in 1 .. Len(t \o ps) :
        (t \o ps)[k] = IF k <= Len(t) THEN t[k] ELSE ps[k - Len(t)]
  OBVIOUS
<1>2. \A k \in 1 .. Len(t \o ps) : k > Len(t) => k - Len(t) \in 1 .. Len(ps)
  BY <1>0
<1>3. \A n \in 1 .. Len(t \o ps) : (t \o ps)[n] < g
  BY <1>0, <1>1, <1>2
<1>4. \A m \in 1 .. Len(b) : \A n \in 1 .. Len(t \o ps) : IsCopy(b[m]) => b[m].at < (t \o ps)[n]
  <2>. SUFFICES ASSUME NEW m \in 1 .. Len(b), NEW n \in 1 .. Len(t \o ps), IsCopy(b[m])
                PROVE  b[m].at < (t \o ps)[n]
    OBVIOUS
  <2>1. CASE n <= Len(t)
    <3>1. (t \o ps)[n] = t[n] /\ n \in 1 .. Len(t)
      BY <1>0, <1>1, <2>1
    <3>. QED
      BY <3>1 DEF Ordered
  <2>2. CASE n > Len(t)
    <3>1. n - Len(t) \in 1 .. Len(ps) /\ (t \o ps)[n] = ps[n - Len(t)]
      BY <1>0, <1>1, <1>2, <2>2
    <3>2. ps[n - Len(t)] \in Nat /\ f <= ps[n - Len(t)]
      BY <1>0, <3>1
    <3>3. b[m].at \in Nat /\ b[m].at < f
      BY <1>0
    <3>. QED
      BY <3>1, <3>2, <3>3
  <2>. QED
    BY <1>0, <2>1, <2>2
<1>5. Climbs(t \o ps)
  <2>. SUFFICES ASSUME NEW m \in 1 .. Len(t \o ps), NEW n \in 1 .. Len(t \o ps), m < n
                PROVE  (t \o ps)[m] < (t \o ps)[n]
    BY DEF Climbs
  <2>1. CASE n <= Len(t)
    <3>1. /\ (t \o ps)[m] = t[m] /\ (t \o ps)[n] = t[n]
          /\ m \in 1 .. Len(t) /\ n \in 1 .. Len(t)
      BY <1>0, <1>1, <2>1
    <3>. QED
      BY <3>1 DEF Ordered, Climbs
  <2>2. CASE m <= Len(t) /\ n > Len(t)
    <3>1. (t \o ps)[m] = t[m] /\ t[m] \in Nat /\ t[m] < f
      BY <1>0, <1>1, <2>2
    <3>2. n - Len(t) \in 1 .. Len(ps) /\ (t \o ps)[n] = ps[n - Len(t)]
      BY <1>0, <1>1, <1>2, <2>2
    <3>3. ps[n - Len(t)] \in Nat /\ f <= ps[n - Len(t)]
      BY <1>0, <3>2
    <3>. QED
      BY <3>1, <3>2, <3>3
  <2>3. CASE m > Len(t)
    <3>1. m - Len(t) < n - Len(t) /\ n > Len(t)
      BY <1>0, <2>3
    <3>2. /\ m - Len(t) \in 1 .. Len(ps) /\ n - Len(t) \in 1 .. Len(ps)
          /\ (t \o ps)[m] = ps[m - Len(t)] /\ (t \o ps)[n] = ps[n - Len(t)]
      BY <1>0, <1>1, <1>2, <2>3, <3>1
    <3>. QED
      BY <3>1, <3>2 DEF Climbs
  <2>. QED
    BY <1>0, <2>1, <2>2, <2>3
<1>6. \A n \in 1 .. Len(b) : IsCopy(b[n]) => b[n].at \in Positions /\ b[n].at < g
  BY <1>0 DEF Ordered
<1>. QED
  BY <1>3, <1>4, <1>5, <1>6 DEF Ordered

\* Atoms that are no copies do not disturb the order.
LEMMA OrderAdded ==
  ASSUME NEW b \in Seq(Atoms), NEW t \in Seq(Positions), NEW f \in Nat, NEW a \in Atoms,
         Ordered(b, t, f), ~IsCopy(a)
  PROVE  b \o <<a>> \in Seq(Atoms) /\ Ordered(b \o <<a>>, t, f)
<1>1. /\ b \o <<a>> \in Seq(Atoms)
      /\ Len(b) \in Nat
      /\ Len(b \o <<a>>) = Len(b) + 1
      /\ \A n \in 1 .. Len(b) : (b \o <<a>>)[n] = b[n]
      /\ (b \o <<a>>)[Len(b) + 1] = a
  OBVIOUS
<1>2. \A n \in 1 .. Len(b \o <<a>>) :
        IsCopy((b \o <<a>>)[n]) => n \in 1 .. Len(b) /\ (b \o <<a>>)[n] = b[n]
  BY <1>1
<1>. QED
  BY <1>1, <1>2 DEF Ordered, Rising

LEMMA OrderLater ==
  ASSUME NEW b \in Seq(Atoms), NEW t \in Seq(Positions), NEW f \in Nat, NEW g \in Nat,
         Ordered(b, t, f), f <= g
  PROVE  Ordered(b, t, g)
<1>1. \A n \in 1 .. Len(b) : IsCopy(b[n]) => b[n].at \in Positions /\ b[n].at < g
  BY DEF Ordered, Positions
<1>2. \A n \in 1 .. Len(t) : t[n] \in Nat /\ t[n] < f
  BY DEF Ordered, Positions
<1>3. \A n \in 1 .. Len(t) : t[n] < g
  BY <1>2
<1>. QED
  BY <1>1, <1>3 DEF Ordered

\* Flushing the pending text.
LEMMA OrderFlush ==
  ASSUME NEW b \in Seq(Atoms), NEW t \in Seq(Positions), NEW f \in Nat, Ordered(b, t, f)
  PROVE  Ordered(b \o Literal(t), <<>>, f)
<1>1. CASE t = <<>>
  BY <1>1 DEF Literal
<1>2. CASE t # <<>>
  <2>. DEFINE C == Copies("text", t)
              o == b \o <<Open>>
  <2>1. C \in Seq(Atoms) /\ Len(C) = Len(t)
    BY CopiesType DEF Kinds
  <2>3. \A n \in 1 .. Len(C) : C[n].at = t[n] /\ t[n] \in Positions /\ t[n] < f
    BY <2>1, CopiesAt DEF Kinds, Ordered
  <2>2. o \in Seq(Atoms) /\ Ordered(o, t, f)
    <3>1. ~IsCopy(Open)
      BY DEF IsCopy, Open, Atom
    <3>. QED
      BY <3>1, AddedType, OrderAdded
  <2>. HIDE DEF C, o
  <2>4. Rising(o \o C)
    <3>1. Rising(C)
      BY <2>1, <2>3 DEF Rising, Climbs, Ordered
    <3>2. \A m \in 1 .. Len(o) : \A n \in 1 .. Len(C) :
            IsCopy(o[m]) /\ IsCopy(C[n]) => o[m].at < C[n].at
      BY <2>1, <2>2, <2>3 DEF Ordered
    <3>. QED
      BY <2>1, <2>2, <3>1, <3>2, RisingConcat DEF Ordered
  <2>5. \A n \in 1 .. Len(o \o C) :
          IsCopy((o \o C)[n]) => (o \o C)[n].at \in Positions /\ (o \o C)[n].at < f
    <3>. SUFFICES ASSUME NEW n \in 1 .. Len(o \o C), IsCopy((o \o C)[n])
                  PROVE  (o \o C)[n].at \in Positions /\ (o \o C)[n].at < f
      OBVIOUS
    <3>1. CASE n <= Len(o)
      BY <2>1, <2>2, <3>1 DEF Ordered
    <3>2. CASE n > Len(o)
      <4>1. n - Len(o) \in 1 .. Len(C) /\ (o \o C)[n] = C[n - Len(o)]
        BY <2>1, <2>2, <3>2
      <4>. QED
        BY <2>1, <2>3, <4>1
    <3>. QED
      BY <2>2, <3>1, <3>2
  <2>6. Ordered(o \o C, <<>>, f)
    BY <2>4, <2>5 DEF Ordered, Climbs
  <2>7. Ordered((o \o C) \o <<Close>>, <<>>, f)
    <3>1. ~IsCopy(Close)
      BY DEF IsCopy, Close, Atom
    <3>2. o \o C \in Seq(Atoms) /\ <<>> \in Seq(Positions)
      BY <2>1, <2>2
    <3>. QED
      BY <2>6, <3>1, <3>2, AddedType, OrderAdded
  <2>8. (o \o C) \o <<Close>> = b \o Literal(t)
    <3>1. Literal(t) = (<<Open>> \o C) \o <<Close>>
      BY <1>2 DEF Literal, C
    <3>2. <<Open>> \in Seq(Atoms) /\ <<Close>> \in Seq(Atoms)
      BY AddedType
    <3>3. (b \o <<Open>>) \o C = b \o (<<Open>> \o C)
      BY <2>1, <3>2
    <3>4. (b \o (<<Open>> \o C)) \o <<Close>> = b \o ((<<Open>> \o C) \o <<Close>>)
      BY <2>1, <3>2
    <3>. QED
      BY <3>1, <3>3, <3>4 DEF o
  <2>. QED
    BY <2>7, <2>8
<1>. QED
  BY <1>1, <1>2
----------------------------------------------------------------------------
(* The invariant, for a delimiter of one character.                        *)

\* Everything before this position has been dealt with.
Front == IF escape_next /\ ~done THEN pos - 1 ELSE pos

ContentCode(f) == {p \in 1 .. f - 1 : IsContent(p) /\ InCode(p)}
ContentText(f) == {p \in 1 .. f - 1 : IsContent(p) /\ ~InCode(p)}

Quiet ==
  /\ match_buf = <<>>
  /\ code => buffer = <<>>
  /\ done => buffer = <<>> /\ pos = Len(inp) + 1

ModeKnown == code <=> InCode(pos)

RunKnown == ~done => \E k \in Nat : RunAt(pos, k) /\ (escape_next <=> k % 2 = 1)

Placed ==
  /\ Ordered(builder, buffer, Front)
  /\ CodeIn(builder) = ContentCode(Front)
  /\ TextIn(builder, buffer) = ContentText(Front)

SInv == TInv /\ Quiet /\ ModeKnown /\ RunKnown /\ Placed

LEMMA SameMeaning ==
  ASSUME inp' = inp /\ sep' = sep
  PROVE  /\ Positions' = Positions
         /\ \A p : (IsContent(p)' <=> IsContent(p)) /\ (InCode(p)' <=> InCode(p))
         /\ \A p, k : RunAt(p, k)' <=> RunAt(p, k)
<1>1. \A p : IsEscaped(p)' <=> IsEscaped(p)
  BY DEF IsEscaped
<1>2. \A p : IsDelimiter(p)' <=> IsDelimiter(p)
  BY <1>1 DEF IsDelimiter
<1>3. \A p : InCode(p)' <=> InCode(p)
  BY <1>2 DEF InCode
<1>4. \A p : IsEscape(p)' <=> IsEscape(p)
  BY <1>1, <1>3 DEF IsEscape
<1>5. \A p : IsContinuation(p)' <=> IsContinuation(p)
  BY <1>4 DEF IsContinuation
<1>. QED
  BY <1>2, <1>3, <1>4, <1>5 DEF IsContent, RunAt, Positions

\* What the next character is, seen from the state.
LEMMA NextChar ==
  ASSUME PlainDelimiter, SInv, ~done, pos \in Positions
  PROVE  /\ pos \in Nat \ {0}
         /\ IsDelimiter(pos) <=> inp[pos] = sep[1] /\ ~escape_next
         /\ \E k \in Nat : RunAt(pos + 1, k) /\ (inp[pos] = "\\" /\ ~escape_next <=> k % 2 = 1)
         /\ inp[pos] # "\\" /\ ~escape_next => (IsContent(pos) <=> inp[pos] # sep[1])
         /\ escape_next =>
              /\ pos - 1 \in Positions
              /\ InCode(pos - 1) <=> code
              /\ IsContent(pos - 1) <=> ~(inp[pos] = sep[1] \/ (inp[pos] = "\n" /\ ~code))
              /\ IsContent(pos) <=> ~(inp[pos] = "\n" /\ ~code)
<1>0. /\ Len(inp) \in Nat /\ pos \in 1 .. Len(inp) /\ pos \in Nat \ {0}
      /\ sep[1] # "\\" /\ sep[1] # "\n"
      /\ code <=> InCode(pos)
      /\ escape_next => pos > 1
  BY InpIsSeq DEF SInv, TInv, TypeOK, Positions, PlainDelimiter, ModeKnown
<1>1. PICK k \in Nat : RunAt(pos, k) /\ (escape_next <=> k % 2 = 1)
  BY DEF SInv, RunKnown
<1>2. IsEscaped(pos) <=> escape_next
  BY <1>0, <1>1, EscapedByRun
<1>3. IsDelimiter(pos) <=> inp[pos] = sep[1] /\ ~escape_next
  BY <1>2 DEF IsDelimiter
<1>4. \A n \in Nat : ((n + 1) % 2 = 1 <=> n % 2 # 1) /\ 0 % 2 # 1
  OBVIOUS
<1>5. \E m \in Nat : RunAt(pos + 1, m) /\ (inp[pos] = "\\" /\ ~escape_next <=> m % 2 = 1)
  <2>1. CASE inp[pos] = "\\"
    BY <1>0, <1>1, <1>4, <2>1, RunStep
  <2>2. CASE inp[pos] # "\\"
    BY <1>0, <1>1, <1>4, <2>2, RunStep
  <2>. QED
    BY <2>1, <2>2
<1>6. ASSUME k > 0
      PROVE  /\ pos - 1 \in Nat \ {0} /\ inp[pos - 1] = "\\"
             /\ IsEscaped(pos - 1) <=> ~escape_next
  <2>1. pos - 1 \in Nat \ {0} /\ inp[pos - 1] = "\\" /\ RunAt(pos - 1, k - 1)
    BY <1>0, <1>1, <1>6, RunBack
  <2>2. IsEscaped(pos - 1) <=> (k - 1) % 2 = 1
    BY <2>1, EscapedByRun
  <2>3. (k - 1) % 2 = 1 <=> k % 2 # 1
    BY <1>6
  <2>. QED
    BY <1>1, <2>1, <2>2, <2>3
<1>7. ~escape_next => ~IsContinuation(pos)
  <2>1. CASE k = 0
    BY <1>0, <1>1, <2>1 DEF RunAt, IsContinuation, IsEscape
  <2>2. CASE k > 0
    BY <1>6, <2>2 DEF IsContinuation, IsEscape
  <2>. QED
    BY <2>1, <2>2
<1>8. inp[pos] # "\\" /\ ~escape_next => (IsContent(pos) <=> inp[pos] # sep[1])
  BY <1>3, <1>7 DEF IsContent, IsEscape
<1>9. ASSUME escape_next
      PROVE  /\ pos - 1 \in Positions
             /\ InCode(pos - 1) <=> code
             /\ IsContent(pos - 1) <=> ~(inp[pos] = sep[1] \/ (inp[pos] = "\n" /\ ~code))
             /\ IsContent(pos) <=> ~(inp[pos] = "\n" /\ ~code)
  <2>1. k > 0
    BY <1>1, <1>4, <1>9
  <2>2. pos - 1 \in Nat \ {0} /\ inp[pos - 1] = "\\" /\ ~IsEscaped(pos - 1)
    BY <1>6, <1>9, <2>1
  <2>3. ~IsDelimiter(pos - 1) /\ ~IsContinuation(pos - 1)
    BY <1>0, <2>2 DEF IsDelimiter, IsContinuation
  <2>4. InCode(pos - 1) <=> InCode(pos)
    <3>1. (pos - 1) + 1 = pos
      BY <1>0
    <3>. QED
      BY <2>2, <2>3, <3>1, ToggleCount
  <2>5. IsEscape(pos - 1) <=> inp[pos] = sep[1] \/ (inp[pos] = "\n" /\ ~InCode(pos))
    <3>1. (pos - 1) + 1 = pos /\ pos - 1 < Len(inp)
      BY <1>0
    <3>. QED
      BY <2>2, <2>4, <3>1 DEF IsEscape
  <2>6. ~IsDelimiter(pos) /\ ~IsEscape(pos)
    BY <1>2, <1>9 DEF IsDelimiter, IsEscape
  <2>7. IsContinuation(pos) <=> inp[pos] = "\n" /\ ~InCode(pos)
    BY <1>0, <1>9, <2>5 DEF IsContinuation
  <2>8. pos - 1 \in Positions
    BY <1>0, <2>2 DEF Positions
  <2>. QED
    BY <1>0, <2>3, <2>4, <2>5, <2>6, <2>7, <2>8 DEF IsContent
<1>. QED
  BY <1>0, <1>3, <1>5, <1>8, <1>9

\* escape_next and code keep their meaning when a character is read.
LEMMA ReadMode ==
  ASSUME PlainDelimiter, SInv, ReadChar, inp' = inp /\ sep' = sep, ~done',
         code' <=> (IF inp[pos] = sep[1] /\ ~escape_next THEN ~code ELSE code),
         escape_next' <=> inp[pos] = "\\" /\ ~escape_next
  PROVE  ModeKnown' /\ RunKnown'
<1>1. ~done /\ pos \in Positions /\ pos' = pos + 1
  BY ReadType DEF SInv, ReadChar
<1>2. InCode(pos + 1) <=> (IF inp[pos] = sep[1] /\ ~escape_next THEN ~InCode(pos) ELSE InCode(pos))
  BY <1>1, NextChar, ToggleCount
<1>3. \E k \in Nat : RunAt(pos + 1, k) /\ (inp[pos] = "\\" /\ ~escape_next <=> k % 2 = 1)
  BY <1>1, NextChar
<1>4. ModeKnown'
  <2>1. InCode(pos)' <=> InCode(pos + 1)
    BY <1>1, SameMeaning
  <2>. QED
    BY <1>2, <2>1 DEF SInv, ModeKnown
<1>5. RunKnown'
  <2>1. \A k : RunAt(pos, k)' <=> RunAt(pos + 1, k)
    BY <1>1, SameMeaning
  <2>. QED
    BY <1>3, <2>1 DEF RunKnown
<1>. QED
  BY <1>4, <1>5

LEMMA InitSplit ==
  ASSUME PlainDelimiter, Init
  PROVE  SInv
<1>0. /\ pos = 1 /\ match_buf = <<>> /\ buffer = <<>> /\ builder = <<>>
      /\ Len(inp) \in Nat
      /\ ~code /\ ~escape_next /\ ~done
  BY InpIsSeq DEF Init
<1>1. TInv
  BY InitType
<1>2. Quiet
  BY <1>0 DEF Quiet
<1>3. ModeKnown
  <2>1. {q \in 1 .. pos - 1 : IsDelimiter(q)} = {}
    BY <1>0
  <2>2. Cardinality({q \in 1 .. pos - 1 : IsDelimiter(q)}) = 0
    BY <2>1, FS_EmptySet
  <2>. QED
    BY <1>0, <2>2 DEF ModeKnown, InCode
<1>4. RunKnown
  <2>1. RunAt(pos, 0)
    BY <1>0 DEF RunAt
  <2>. QED
    BY <1>0, <2>1 DEF RunKnown
<1>5. Placed
  BY <1>0 DEF Placed, Ordered, Rising, Climbs, CodeIn, TextIn, In, ContentCode, ContentText, Front
<1>. QED
  BY <1>1, <1>2, <1>3, <1>4, <1>5 DEF SInv

\* Characters copied to the chunk or to the text, from the front onwards.
LEMMA PlaceStep ==
  ASSUME SInv, inp' = inp /\ sep' = sep, NEW ps \in Seq(Positions), Climbs(ps),
         Front \in Nat, Front' \in Nat, Front <= Front',
         \A n \in 1 .. Len(ps) : Front <= ps[n] /\ ps[n] < Front',
         \/ /\ builder' = builder \o Copies("code", ps)
            /\ buffer = <<>> /\ buffer' = <<>>
            /\ ContentCode(Front') = ContentCode(Front) \cup Elems(ps)
            /\ ContentText(Front') = ContentText(Front)
         \/ /\ builder' = builder
            /\ buffer' = buffer \o ps
            /\ ContentCode(Front') = ContentCode(Front)
            /\ ContentText(Front') = ContentText(Front) \cup Elems(ps)
  PROVE  Placed'
<1>0. builder \in Seq(Atoms) /\ buffer \in Seq(Positions)
  BY DEF SInv, TInv, TypeOK, Atoms
<1>1. /\ Ordered(builder, buffer, Front)
      /\ CodeIn(builder) = ContentCode(Front)
      /\ TextIn(builder, buffer) = ContentText(Front)
  BY DEF SInv, Placed
<1>2. /\ Ordered(builder', buffer', Front')
      /\ CodeIn(builder') = ContentCode(Front')
      /\ TextIn(builder', buffer') = ContentText(Front')
  <2>1. CASE /\ builder' = builder \o Copies("code", ps)
             /\ buffer = <<>> /\ buffer' = <<>>
             /\ ContentCode(Front') = ContentCode(Front) \cup Elems(ps)
             /\ ContentText(Front') = ContentText(Front)
    BY <1>0, <1>1, <2>1, PlaceCode, OrderCode
  <2>2. CASE /\ builder' = builder
             /\ buffer' = buffer \o ps
             /\ ContentCode(Front') = ContentCode(Front)
             /\ ContentText(Front') = ContentText(Front) \cup Elems(ps)
    BY <1>0, <1>1, <2>2, PlaceText, OrderText
  <2>. QED
    BY <2>1, <2>2
<1>3. Positions' = Positions
  BY SameMeaning
<1>4. Ordered(builder, buffer, Front)'
  BY <1>2, <1>3 DEF Ordered
<1>5. CodeIn(builder)' = CodeIn(builder') /\ TextIn(builder, buffer)' = TextIn(builder', buffer')
  BY <1>3 DEF CodeIn, TextIn
<1>6. ContentCode(Front)' = ContentCode(Front') /\ ContentText(Front)' = ContentText(Front')
  BY SameMeaning DEF ContentCode, ContentText
<1>. QED
  BY <1>2, <1>4, <1>5, <1>6 DEF Placed

LEMMA PlaceEscaped ==
  ASSUME PlainDelimiter, SInv, ReadChar, escape_next, inp' = inp /\ sep' = sep,
         ~escape_next', ~done',
         code' <=> code,
         \/ code /\ builder' = builder \o Copies("code", Escaped) /\ buffer' = buffer
         \/ ~code /\ inp[pos] # "\n" /\ builder' = builder /\ buffer' = buffer \o Escaped
         \/ ~code /\ inp[pos] = "\n" /\ builder' = builder /\ buffer' = buffer
  PROVE  Placed'
<1>0. ~done /\ pos \in Positions /\ pos' = pos + 1 /\ Escaped \in Seq(Positions)
  BY ReadType DEF SInv, ReadChar
<1>1. /\ pos \in Nat \ {0}
      /\ pos - 1 \in Positions
      /\ InCode(pos - 1) <=> code
      /\ InCode(pos) <=> code
      /\ IsContent(pos - 1) <=> ~(inp[pos] = sep[1] \/ (inp[pos] = "\n" /\ ~code))
      /\ IsContent(pos) <=> ~(inp[pos] = "\n" /\ ~code)
  BY <1>0, NextChar DEF SInv, ModeKnown
<1>2. Front = pos - 1 /\ Front' = pos + 1
  BY <1>0 DEF Front
<1>3. Escaped = IF inp[pos] = sep[1] THEN <<pos>> ELSE <<pos - 1, pos>>
  <2>1. sep # <<>>
    <3>1. Len(sep) # Len(<<>>)
      BY DEF PlainDelimiter
    <3>. QED
      BY <3>1, Zenon
  <2>. QED
    BY <2>1 DEF Escaped, SuppressesDelim
<1>4. /\ Climbs(Escaped)
      /\ \A n \in 1 .. Len(Escaped) : Front <= Escaped[n] /\ Escaped[n] < Front'
  BY <1>1, <1>2, <1>3 DEF Climbs
<1>5. Elems(Escaped) = IF inp[pos] = sep[1] THEN {pos} ELSE {pos - 1, pos}
  BY <1>0, <1>1, <1>3 DEF Elems, In
<1>6. \A p : p \in 1 .. pos <=> p \in 1 .. pos - 2 \/ p = pos - 1 \/ p = pos
  BY <1>0, <1>1 DEF Positions
<1>7. CASE code
  <2>1. ContentCode(pos + 1) = ContentCode(pos - 1) \cup Elems(Escaped)
    BY <1>1, <1>5, <1>6, <1>7 DEF ContentCode
  <2>2. ContentText(pos + 1) = ContentText(pos - 1)
    BY <1>1, <1>6, <1>7 DEF ContentText
  <2>3. buffer = <<>>
    BY <1>7 DEF SInv, Quiet
  <2>4. /\ builder' = builder \o Copies("code", Escaped)
        /\ buffer = <<>> /\ buffer' = <<>>
        /\ ContentCode(Front') = ContentCode(Front) \cup Elems(Escaped)
        /\ ContentText(Front') = ContentText(Front)
    BY <1>2, <1>7, <2>1, <2>2, <2>3
  <2>5. Front \in Nat /\ Front' \in Nat /\ Front <= Front'
    BY <1>1, <1>2
  <2>. QED
    BY <1>0, <1>4, <2>4, <2>5, PlaceStep
<1>8. CASE ~code /\ inp[pos] # "\n"
  <2>1. ContentText(pos + 1) = ContentText(pos - 1) \cup Elems(Escaped)
    BY <1>1, <1>5, <1>6, <1>8 DEF ContentText
  <2>2. ContentCode(pos + 1) = ContentCode(pos - 1)
    BY <1>1, <1>6, <1>8 DEF ContentCode
  <2>3. /\ builder' = builder /\ buffer' = buffer \o Escaped
        /\ ContentText(Front') = ContentText(Front) \cup Elems(Escaped)
        /\ ContentCode(Front') = ContentCode(Front)
    BY <1>2, <1>8, <2>1, <2>2
  <2>4. Front \in Nat /\ Front' \in Nat /\ Front <= Front'
    BY <1>1, <1>2
  <2>. QED
    BY <1>0, <1>4, <2>3, <2>4, PlaceStep
<1>9. CASE ~code /\ inp[pos] = "\n"
  <2>1. ContentCode(pos + 1) = ContentCode(pos - 1)
    BY <1>1, <1>6, <1>9 DEF ContentCode
  <2>2. ContentText(pos + 1) = ContentText(pos - 1) \cup Elems(<<>>)
    BY <1>1, <1>6, <1>9 DEF ContentText, Elems, In
  <2>3. buffer \in Seq(Positions) /\ buffer \o <<>> = buffer
    BY DEF SInv, TInv, TypeOK
  <2>4. /\ builder' = builder
        /\ buffer' = buffer \o <<>>
        /\ ContentCode(Front') = ContentCode(Front)
        /\ ContentText(Front') = ContentText(Front) \cup Elems(<<>>)
    BY <1>2, <1>9, <2>1, <2>2, <2>3
  <2>5. <<>> \in Seq(Positions) /\ Climbs(<<>>) /\ Len(<<>>) = 0
    BY DEF Climbs
  <2>6. Front \in Nat /\ Front' \in Nat /\ Front <= Front'
    BY <1>1, <1>2
  <2>7. \A n \in 1 .. Len(<<>>) : Front <= <<>>[n] /\ <<>>[n] < Front'
    OBVIOUS
  <2>. QED
    BY <2>4, <2>5, <2>6, <2>7, PlaceStep
<1>. QED
  BY <1>7, <1>8, <1>9

\* One character is copied as it is.
LEMMA PlacePlain ==
  ASSUME PlainDelimiter, SInv, ReadChar, ~escape_next, inp[pos] # "\\", inp[pos] # sep[1],
         inp' = inp /\ sep' = sep, ~escape_next', ~done',
         \/ code /\ builder' = builder \o Copies("code", <<pos>>) /\ buffer' = buffer
         \/ ~code /\ builder' = builder /\ buffer' = buffer \o <<pos>>
  PROVE  Placed'
<1>0. ~done /\ pos \in Positions /\ pos' = pos + 1 /\ <<pos>> \in Seq(Positions)
  BY ReadType DEF SInv, ReadChar
<1>1. pos \in Nat \ {0} /\ IsContent(pos) /\ (InCode(pos) <=> code)
  BY <1>0, NextChar DEF SInv, ModeKnown
<1>2. Front = pos /\ Front' = pos + 1
  BY <1>0 DEF Front
<1>3. /\ Climbs(<<pos>>)
      /\ \A n \in 1 .. Len(<<pos>>) : Front <= <<pos>>[n] /\ <<pos>>[n] < Front'
  BY <1>1, <1>2 DEF Climbs
<1>4. Elems(<<pos>>) = {pos}
  BY <1>0 DEF Elems, In
<1>5. \A p : p \in 1 .. pos <=> p \in 1 .. pos - 1 \/ p = pos
  BY <1>1
<1>6. Front \in Nat /\ Front' \in Nat /\ Front <= Front'
  BY <1>1, <1>2
<1>7. CASE code
  <2>1. ContentCode(pos + 1) = ContentCode(pos) \cup Elems(<<pos>>)
    BY <1>1, <1>4, <1>5, <1>7 DEF ContentCode
  <2>2. ContentText(pos + 1) = ContentText(pos)
    BY <1>1, <1>5, <1>7 DEF ContentText
  <2>3. buffer = <<>>
    BY <1>7 DEF SInv, Quiet
  <2>4. /\ builder' = builder \o Copies("code", <<pos>>)
        /\ buffer = <<>> /\ buffer' = <<>>
        /\ ContentCode(Front') = ContentCode(Front) \cup Elems(<<pos>>)
        /\ ContentText(Front') = ContentText(Front)
    BY <1>2, <1>7, <2>1, <2>2, <2>3
  <2>. QED
    BY <1>0, <1>3, <1>6, <2>4, PlaceStep
<1>8. CASE ~code
  <2>1. ContentText(pos + 1) = ContentText(pos) \cup Elems(<<pos>>)
    BY <1>1, <1>4, <1>5, <1>8 DEF ContentText
  <2>2. ContentCode(pos + 1) = ContentCode(pos)
    BY <1>1, <1>5, <1>8 DEF ContentCode
  <2>3. /\ builder' = builder
        /\ buffer' = buffer \o <<pos>>
        /\ ContentCode(Front') = ContentCode(Front)
        /\ ContentText(Front') = ContentText(Front) \cup Elems(<<pos>>)
    BY <1>2, <1>8, <2>1, <2>2
  <2>. QED
    BY <1>0, <1>3, <1>6, <2>3, PlaceStep
<1>. QED
  BY <1>7, <1>8

\* A flush, possibly after other text, changes neither set nor the order.
LEMMA PlaceFlush ==
  ASSUME SInv, inp' = inp /\ sep' = sep, NEW b \in Seq(Atoms), NEW t \in Seq(Positions),
         Front' \in Nat,
         Ordered(b, t, Front'),
         CodeIn(b) = ContentCode(Front'), TextIn(b, t) = ContentText(Front'),
         builder' = b \o Literal(t), buffer' = <<>>
  PROVE  Placed'
<1>1. /\ Ordered(builder', buffer', Front')
      /\ CodeIn(builder') = ContentCode(Front')
      /\ TextIn(builder', buffer') = ContentText(Front')
  BY OrderFlush, PlaceLiteral
<1>2. Positions' = Positions
  BY SameMeaning
<1>3. Ordered(builder, buffer, Front)'
  BY <1>1, <1>2 DEF Ordered
<1>4. CodeIn(builder)' = CodeIn(builder') /\ TextIn(builder, buffer)' = TextIn(builder', buffer')
  BY <1>2 DEF CodeIn, TextIn
<1>5. ContentCode(Front)' = ContentCode(Front') /\ ContentText(Front)' = ContentText(Front')
  BY SameMeaning DEF ContentCode, ContentText
<1>. QED
  BY <1>1, <1>3, <1>4, <1>5 DEF Placed

LEMMA PlaceDelimiter ==
  ASSUME PlainDelimiter, SInv, WholeSep, inp[pos] = sep[1]
  PROVE  Placed'
<1>0. /\ ~done /\ pos \in Positions /\ pos' = pos + 1 /\ inp' = inp /\ sep' = sep
      /\ ~escape_next /\ ~escape_next' /\ ~done'
      /\ builder' = builder \o <<Newline>> \o Literal(buffer) /\ buffer' = <<>>
  BY ReadType DEF SInv, WholeSep, Match, ReadChar
<1>1. pos \in Nat \ {0} /\ ~IsContent(pos)
  <2>1. inp[pos] # "\\"
    BY DEF PlainDelimiter
  <2>. QED
    BY <1>0, <2>1, NextChar
<1>2. Front = pos /\ Front' = pos + 1
  BY <1>0 DEF Front
<1>3. ContentCode(pos + 1) = ContentCode(pos) /\ ContentText(pos + 1) = ContentText(pos)
  <2>1. \A p : p \in 1 .. pos <=> p \in 1 .. pos - 1 \/ p = pos
    BY <1>1
  <2>. QED
    BY <1>1, <2>1 DEF ContentCode, ContentText
<1>4. builder \in Seq(Atoms) /\ buffer \in Seq(Positions)
  BY DEF SInv, TInv, TypeOK, Atoms
<1>5. /\ builder \o <<Newline>> \in Seq(Atoms)
      /\ Ordered(builder \o <<Newline>>, buffer, pos)
  <2>1. ~IsCopy(Newline)
    BY DEF IsCopy, Newline, Atom
  <2>2. Ordered(builder, buffer, pos)
    BY <1>2 DEF SInv, Placed
  <2>. QED
    BY <1>1, <1>4, <2>1, <2>2, AddedType, OrderAdded
<1>6. Ordered(builder \o <<Newline>>, buffer, pos + 1)
  <2>1. pos \in Nat /\ pos + 1 \in Nat /\ pos <= pos + 1
    BY <1>1
  <2>. QED
    BY <1>4, <1>5, <2>1, OrderLater
<1>7. /\ CodeIn(builder \o <<Newline>>) = ContentCode(pos + 1)
      /\ TextIn(builder \o <<Newline>>, buffer) = ContentText(pos + 1)
  BY <1>2, <1>3, <1>4, PlaceNewline DEF SInv, Placed
<1>8. Front' \in Nat
  BY <1>1, <1>2
<1>9. /\ Ordered(builder \o <<Newline>>, buffer, Front')
      /\ CodeIn(builder \o <<Newline>>) = ContentCode(Front')
      /\ TextIn(builder \o <<Newline>>, buffer) = ContentText(Front')
  BY <1>2, <1>6, <1>7
<1>. QED
  BY <1>0, <1>4, <1>5, <1>8, <1>9, PlaceFlush

LEMMA PlaceEnd ==
  ASSUME PlainDelimiter, SInv, EndOfFile
  PROVE  Placed'
<1>0. /\ ~done /\ done' /\ pos = Len(inp) + 1 /\ pos' = pos /\ inp' = inp /\ sep' = sep
      /\ Len(inp) \in Nat /\ buffer' = <<>>
      /\ builder \in Seq(Atoms) /\ buffer \in Seq(Positions)
      /\ match_buf = <<>> /\ (code => buffer = <<>>)
      /\ sep[1] # "\\"
      /\ code <=> InCode(pos)
      /\ escape_next => pos > 1
  BY InpIsSeq
     DEF SInv, Quiet, TInv, TypeOK, EndOfFile, Atoms, PlainDelimiter, ModeKnown
<1>1. Front' = pos /\ (~escape_next => Front = pos) /\ (escape_next => Front = pos - 1)
  BY <1>0 DEF Front
<1>2. Remainder = IF escape_next THEN <<pos - 1>> ELSE <<>>
  BY <1>0 DEF Remainder
<1>3. Remainder \in Seq(Positions) /\ Climbs(Remainder)
  <2>1. escape_next => pos - 1 \in Positions
    BY <1>0 DEF Positions
  <2>. QED
    BY <1>2, <2>1 DEF Climbs
<1>4. \A n \in 1 .. Len(Remainder) : Front <= Remainder[n] /\ Remainder[n] < pos
  BY <1>0, <1>1, <1>2
<1>5. Elems(Remainder) = IF escape_next THEN {pos - 1} ELSE {}
  BY <1>0, <1>2 DEF Elems, In, Positions
<1>6. ASSUME escape_next
      PROVE  IsContent(pos - 1) /\ (InCode(pos - 1) <=> code)
  <2>1. PICK k \in Nat : RunAt(pos, k) /\ k % 2 = 1
    BY <1>0, <1>6 DEF SInv, RunKnown
  <2>2. k > 0
    BY <2>1
  <2>3. pos - 1 \in Nat \ {0} /\ inp[pos - 1] = "\\"
    BY <1>0, <2>1, <2>2, RunBack
  <2>4. ~IsDelimiter(pos - 1) /\ ~IsContinuation(pos - 1) /\ ~IsEscape(pos - 1)
    BY <1>0, <2>3 DEF IsDelimiter, IsContinuation, IsEscape
  <2>5. InCode(pos - 1) <=> InCode(pos)
    <3>1. (pos - 1) + 1 = pos
      BY <1>0
    <3>. QED
      BY <2>3, <2>4, <3>1, ToggleCount
  <2>. QED
    BY <1>0, <2>4, <2>5 DEF IsContent
<1>7. \A p : p \in 1 .. pos - 1 <=> p \in 1 .. Front - 1 \/ p \in Elems(Remainder)
  BY <1>0, <1>1, <1>5
<1>8. Front \in Nat /\ pos \in Nat /\ Front <= pos
  BY <1>0, <1>1
<1>9. /\ Ordered(builder, buffer, Front)
      /\ CodeIn(builder) = ContentCode(Front)
      /\ TextIn(builder, buffer) = ContentText(Front)
  BY DEF SInv, Placed
<1>10. \A p \in Elems(Remainder) : IsContent(p) /\ (InCode(p) <=> code)
  BY <1>5, <1>6
<1>11. CASE code
  <2>. DEFINE b == builder \o Copies("code", Remainder)
  <2>1. ContentCode(pos) = ContentCode(Front) \cup Elems(Remainder)
    BY <1>7, <1>10, <1>11 DEF ContentCode
  <2>2. ContentText(pos) = ContentText(Front)
    BY <1>7, <1>10, <1>11 DEF ContentText
  <2>3. b \in Seq(Atoms) /\ CodeIn(b) = ContentCode(pos) /\ TextIn(b, buffer) = ContentText(pos)
    BY <1>0, <1>3, <1>9, <2>1, <2>2, PlaceCode
  <2>4. Ordered(b, buffer, pos)
    BY <1>0, <1>3, <1>4, <1>8, <1>9, <1>11, OrderCode
  <2>5. builder' = b \o Literal(buffer)
    BY <1>11 DEF EndOfFile
  <2>. HIDE DEF b
  <2>. QED
    BY <1>0, <1>1, <1>8, <2>3, <2>4, <2>5, PlaceFlush
<1>12. CASE ~code
  <2>. DEFINE t == buffer \o Remainder
  <2>1. ContentCode(pos) = ContentCode(Front)
    BY <1>7, <1>10, <1>12 DEF ContentCode
  <2>2. ContentText(pos) = ContentText(Front) \cup Elems(Remainder)
    BY <1>7, <1>10, <1>12 DEF ContentText
  <2>3. t \in Seq(Positions) /\ CodeIn(builder) = ContentCode(pos) /\ TextIn(builder, t) = ContentText(pos)
    BY <1>0, <1>3, <1>9, <2>1, <2>2, PlaceText
  <2>4. Ordered(builder, t, pos)
    BY <1>0, <1>3, <1>4, <1>8, <1>9, OrderText
  <2>5. builder' = builder \o Literal(t)
    <3>1. builder' = builder \o <<>> \o Literal(t)
      BY <1>12 DEF EndOfFile
    <3>. QED
      BY <1>0, <3>1
  <2>. HIDE DEF t
  <2>. QED
    BY <1>0, <1>1, <1>8, <2>3, <2>4, <2>5, PlaceFlush
<1>. QED
  BY <1>11, <1>12

----------------------------------------------------------------------------

\* With one character, a delimiter is matched at once or not at all.
LEMMA OneCharacter ==
  ASSUME PlainDelimiter, SInv
  PROVE  /\ Candidate = <<pos>>
         /\ BeginsSep <=> inp[pos] = sep[1]
         /\ Len(Candidate) = Len(sep)
<1>1. Candidate = <<pos>>
  BY DEF SInv, Quiet, Candidate
<1>2. Len(Candidate) = 1 /\ Candidate[1] = pos /\ Len(sep) = 1
  BY <1>1 DEF PlainDelimiter
<1>3. BeginsSep <=> inp[pos] = sep[1]
  BY <1>2 DEF BeginsSep
<1>. QED
  BY <1>1, <1>2, <1>3

\* A call has one delimiter.
LEMMA SepFixed ==
  ASSUME [Next]_vars
  PROVE  sep' = sep
BY DEF Next, vars, EscapedInCode, LineContinuation, EscapedInText, Backslash,
       PartOfSep, WholeSep, NoSepInCode, NoSepInText, EndOfFile

LEMMA StepSplit ==
  ASSUME PlainDelimiter, SInv, [Next]_vars
  PROVE  SInv'
<1>0. TInv'
  BY StepType DEF SInv
<1>1. CASE EscapedInCode
  <2>1. /\ ReadChar /\ escape_next /\ code /\ inp' = inp /\ sep' = sep /\ ~escape_next' /\ ~done'
        /\ (code' <=> code) /\ buffer' = buffer
        /\ builder' = builder \o Copies("code", Escaped)
    BY <1>1 DEF EscapedInCode, CopyCode, ReadChar
  <2>2. Placed'
    BY <2>1, PlaceEscaped
  <2>3. ModeKnown' /\ RunKnown'
    BY <2>1, ReadMode
  <2>4. Quiet'
    BY <1>1, <2>1 DEF EscapedInCode, SInv, Quiet
  <2>. QED
    BY <1>0, <2>2, <2>3, <2>4 DEF SInv
<1>2. CASE LineContinuation
  <2>1. /\ ReadChar /\ escape_next /\ ~code /\ inp' = inp /\ sep' = sep /\ ~escape_next' /\ ~done'
        /\ (code' <=> code) /\ buffer' = buffer /\ builder' = builder /\ inp[pos] = "\n"
    BY <1>2 DEF LineContinuation, ReadChar
  <2>2. Placed'
    BY <2>1, PlaceEscaped
  <2>3. ModeKnown' /\ RunKnown'
    BY <2>1, ReadMode
  <2>4. Quiet'
    BY <1>2, <2>1 DEF LineContinuation, SInv, Quiet
  <2>. QED
    BY <1>0, <2>2, <2>3, <2>4 DEF SInv
<1>3. CASE EscapedInText
  <2>1. /\ ReadChar /\ escape_next /\ ~code /\ inp' = inp /\ sep' = sep /\ ~escape_next' /\ ~done'
        /\ (code' <=> code) /\ buffer' = buffer \o Escaped /\ builder' = builder
        /\ inp[pos] # "\n"
    BY <1>3 DEF EscapedInText, ReadChar
  <2>2. Placed'
    BY <2>1, PlaceEscaped
  <2>3. ModeKnown' /\ RunKnown'
    BY <2>1, ReadMode
  <2>4. Quiet'
    BY <1>3, <2>1 DEF EscapedInText, SInv, Quiet
  <2>. QED
    BY <1>0, <2>2, <2>3, <2>4 DEF SInv
<1>4. CASE Backslash
  <2>1. /\ ReadChar /\ ~escape_next /\ inp[pos] = "\\"
        /\ inp' = inp /\ sep' = sep /\ escape_next' /\ ~done'
        /\ (code' <=> code) /\ buffer' = buffer /\ builder' = builder
    BY <1>4 DEF Backslash, ReadChar
  <2>2. inp[pos] # sep[1]
    BY <2>1 DEF PlainDelimiter
  <2>3. ModeKnown' /\ RunKnown'
    BY <2>1, <2>2, ReadMode
  <2>4. Quiet'
    BY <1>4, <2>1 DEF Backslash, SInv, Quiet
  <2>5. Placed'
    <3>1. Front' = Front
      <4>1. pos \in Nat /\ pos' = pos + 1
        BY <2>1 DEF SInv, TInv, TypeOK, ReadChar
      <4>. QED
        BY <2>1, <4>1 DEF Front, ReadChar
    <3>2. /\ ContentCode(Front)' = ContentCode(Front)
          /\ ContentText(Front)' = ContentText(Front)
      BY <2>1, <3>1, SameMeaning DEF ContentCode, ContentText
    <3>3. /\ CodeIn(builder)' = CodeIn(builder)
          /\ TextIn(builder, buffer)' = TextIn(builder, buffer)
      BY <2>1, SameMeaning DEF CodeIn, TextIn
    <3>4. Ordered(builder, buffer, Front)' <=> Ordered(builder, buffer, Front)
      BY <2>1, <3>1, SameMeaning DEF Ordered
    <3>. QED
      BY <3>2, <3>3, <3>4 DEF SInv, Placed
  <2>. QED
    BY <1>0, <2>3, <2>4, <2>5 DEF SInv
<1>5. CASE PartOfSep
  BY <1>5, OneCharacter DEF PartOfSep, PlainDelimiter
<1>6. CASE WholeSep
  <2>1. /\ ReadChar /\ ~escape_next /\ inp[pos] # "\\" /\ inp[pos] = sep[1]
        /\ inp' = inp /\ sep' = sep /\ ~escape_next' /\ ~done' /\ buffer' = <<>> /\ match_buf' = <<>>
    BY <1>6, OneCharacter DEF WholeSep, Match, ReadChar
  <2>2. code' <=> ~code
    BY <1>6, Zenon DEF WholeSep
  <2>3. Placed'
    BY <1>6, <2>1, PlaceDelimiter
  <2>4. ModeKnown' /\ RunKnown'
    BY <2>1, <2>2, ReadMode
  <2>5. Quiet'
    BY <2>1 DEF Quiet
  <2>. QED
    BY <1>0, <2>3, <2>4, <2>5 DEF SInv
<1>7. CASE NoSepInCode
  <2>1. /\ ReadChar /\ ~escape_next /\ inp[pos] # "\\" /\ inp[pos] # sep[1]
        /\ inp' = inp /\ sep' = sep /\ ~escape_next' /\ ~done' /\ code /\ (code' <=> code)
        /\ builder' = builder \o Copies("code", <<pos>>) /\ buffer' = buffer
        /\ match_buf' = <<>>
    BY <1>7, OneCharacter DEF NoSepInCode, CopyCode, Match, ReadChar
  <2>2. Placed'
    BY <2>1, PlacePlain
  <2>3. ModeKnown' /\ RunKnown'
    BY <2>1, ReadMode
  <2>4. Quiet'
    BY <2>1 DEF SInv, Quiet
  <2>. QED
    BY <1>0, <2>2, <2>3, <2>4 DEF SInv
<1>8. CASE NoSepInText
  <2>1. /\ ReadChar /\ ~escape_next /\ inp[pos] # "\\" /\ inp[pos] # sep[1]
        /\ inp' = inp /\ sep' = sep /\ ~escape_next' /\ ~done' /\ ~code /\ (code' <=> code)
        /\ builder' = builder /\ buffer' = buffer \o <<pos>>
        /\ match_buf' = <<>>
    BY <1>8, OneCharacter DEF NoSepInText, Match, ReadChar
  <2>2. Placed'
    BY <2>1, PlacePlain
  <2>3. ModeKnown' /\ RunKnown'
    BY <2>1, ReadMode
  <2>4. Quiet'
    BY <2>1 DEF SInv, Quiet
  <2>. QED
    BY <1>0, <2>2, <2>3, <2>4 DEF SInv
<1>9. CASE EndOfFile
  <2>1. Placed'
    BY <1>9, PlaceEnd
  <2>2. /\ done' /\ pos = Len(inp) + 1 /\ pos' = pos /\ inp' = inp /\ sep' = sep /\ (code' <=> code)
        /\ buffer' = <<>> /\ match_buf' = <<>>
    BY <1>9, InpIsSeq DEF EndOfFile, SInv, TInv, TypeOK
  <2>3. Quiet' /\ RunKnown'
    BY <2>2 DEF Quiet, RunKnown
  <2>4. ModeKnown'
    BY <2>2, SameMeaning DEF SInv, ModeKnown
  <2>. QED
    BY <1>0, <2>1, <2>3, <2>4 DEF SInv
<1>10. CASE UNCHANGED vars
  <2>1. inp' = inp /\ sep' = sep /\ Front' = Front
    BY <1>10 DEF vars, Front
  <2>2. /\ ContentCode(Front)' = ContentCode(Front)
        /\ ContentText(Front)' = ContentText(Front)
    BY <2>1, SameMeaning DEF ContentCode, ContentText
  <2>3. Placed'
    BY <1>10, <2>1, <2>2, SameMeaning DEF vars, SInv, Placed, Ordered, CodeIn, TextIn
  <2>4. ModeKnown' /\ RunKnown'
    BY <1>10, <2>1, SameMeaning DEF vars, SInv, ModeKnown, RunKnown
  <2>5. Quiet'
    BY <1>10 DEF vars, SInv, Quiet
  <2>. QED
    BY <1>0, <2>3, <2>4, <2>5 DEF SInv
<1>. QED
  BY <1>1, <1>2, <1>3, <1>4, <1>5, <1>6, <1>7, <1>8, <1>9, <1>10 DEF Next

PInv == TInv /\ (PlainDelimiter => SInv)

LEMMA SplitInvariance == Spec => []PInv
<1>1. Init => PInv
  BY InitType, InitSplit DEF PInv
<1>2. PInv /\ [Next]_vars => PInv'
  <2>. SUFFICES ASSUME PInv, [Next]_vars PROVE PInv'
    OBVIOUS
  <2>1. TInv'
    BY StepType DEF PInv
  <2>2. sep' = sep
    BY SepFixed
  <2>3. PlainDelimiter' <=> PlainDelimiter
    BY <2>2 DEF PlainDelimiter
  <2>4. ASSUME PlainDelimiter PROVE SInv'
    BY <2>4, StepSplit DEF PInv
  <2>. QED
    BY <2>1, <2>3, <2>4 DEF PInv
<1>. QED
  BY <1>1, <1>2, PTL DEF Spec

LEMMA PlainInvariance == Spec => [](PlainDelimiter => SInv)
<1>1. PInv => (PlainDelimiter => SInv)
  BY DEF PInv
<1>. QED
  BY <1>1, SplitInvariance, PTL

\* For every template and every delimiter of one character, the finished
\* chunk holds exactly the characters of the template that are content, each
\* in the mode that the delimiters before it have set (main.c 218-255,
\* 270-284).
THEOREM ScanSplitAsMeant == Spec => []SplitAsMeant
<1>1. ASSUME SInv PROVE SplitAsMeant
  <2>. SUFFICES ASSUME done
                PROVE  {a \in {builder[n] : n \in 1 .. Len(builder)} : IsCopy(a)} =
                       {Atom(Mode(p), p) : p \in {q \in Positions : IsContent(q)}}
    BY DEF SplitAsMeant
  <2>1. /\ builder \in Seq(Atoms) /\ buffer = <<>> /\ pos = Len(inp) + 1
        /\ Len(inp) \in Nat /\ Front = pos
    BY <1>1, InpIsSeq DEF SInv, TInv, TypeOK, Quiet, Atoms, Front
  <2>2. /\ \A p \in Positions : In(builder, Atom("code", p)) <=> IsContent(p) /\ InCode(p)
        /\ \A p \in Positions : In(builder, Atom("text", p)) <=> IsContent(p) /\ ~InCode(p)
    <3>1. 1 .. Front - 1 = Positions
      BY <2>1 DEF Positions
    <3>2. \A p : ~In(buffer, p)
      BY <2>1 DEF In
    <3>. QED
      BY <1>1, <3>1, <3>2 DEF SInv, Placed, CodeIn, TextIn, ContentCode, ContentText
  <2>3. ASSUME NEW n \in 1 .. Len(builder), IsCopy(builder[n])
        PROVE  builder[n] \in {Atom(Mode(p), p) : p \in {q \in Positions : IsContent(q)}}
    <3>. DEFINE a == builder[n]
    <3>1. a \in Atoms /\ a.at \in Positions /\ a.kind \in {"code", "text"}
      BY <1>1, <2>1, <2>3 DEF SInv, Placed, Ordered, IsCopy
    <3>2. a = Atom(a.kind, a.at) /\ In(builder, a)
      BY <3>1 DEF Atoms, Atom, In
    <3>3. IsContent(a.at) /\ Mode(a.at) = a.kind
      BY <2>2, <3>1, <3>2 DEF Mode
    <3>. QED
      BY <3>1, <3>2, <3>3
  <2>4. ASSUME NEW p \in Positions, IsContent(p)
        PROVE  In(builder, Atom(Mode(p), p)) /\ IsCopy(Atom(Mode(p), p))
    BY <2>2, <2>4 DEF Mode, IsCopy, Atom
  <2>. QED
    BY <2>3, <2>4 DEF In
<1>2. (PlainDelimiter => SInv) => SplitAsMeant
  BY <1>1 DEF SplitAsMeant
<1>. QED
  BY <1>2, PlainInvariance, PTL

----------------------------------------------------------------------------
(* Templates without escapes, for every delimiter.                         *)

\* Everything before this position has been dealt with.
Dealt == pos - Len(match_buf)

\* What may begin a delimiter is what was read last.
Trailing ==
  /\ Dealt \in Nat \ {0}
  /\ \A n \in 1 .. Len(match_buf) : match_buf[n] = Dealt + n - 1

Pending ==
  /\ escape_next => match_buf = <<>>
  /\ Trailing
  /\ code => buffer = <<>>
  /\ done => buffer = <<>> /\ match_buf = <<>>

UInv == TInv /\ ~escape_next /\ Pending /\ Ordered(builder, buffer, Dealt)

LEMMA PendingFacts ==
  ASSUME TInv, Trailing
  PROVE  /\ match_buf \in Seq(Positions) /\ Len(match_buf) \in Nat
         /\ pos \in Nat \ {0} /\ Len(inp) \in Nat /\ pos <= Len(inp) + 1
         /\ Dealt \in Nat \ {0} /\ pos = Dealt + Len(match_buf)
         /\ Climbs(match_buf)
         /\ \A n \in 1 .. Len(match_buf) : Dealt <= match_buf[n] /\ match_buf[n] < pos
         /\ Elems(match_buf) = Dealt .. pos - 1
<1>1. /\ match_buf \in Seq(Positions) /\ Len(match_buf) \in Nat
      /\ pos \in Nat \ {0} /\ Len(inp) \in Nat /\ pos <= Len(inp) + 1
      /\ Dealt \in Nat \ {0} /\ pos = Dealt + Len(match_buf)
      /\ \A n \in 1 .. Len(match_buf) : match_buf[n] = Dealt + n - 1
  BY InpIsSeq DEF TInv, TypeOK, Trailing, Dealt
<1>2. /\ Climbs(match_buf)
      /\ \A n \in 1 .. Len(match_buf) : Dealt <= match_buf[n] /\ match_buf[n] < pos
  BY <1>1 DEF Climbs
<1>3. ASSUME NEW p \in Dealt .. pos - 1
      PROVE  p \in Elems(match_buf)
  <2>1. (p - Dealt) + 1 \in 1 .. Len(match_buf) /\ match_buf[(p - Dealt) + 1] = p
    BY <1>1
  <2>2. p \in Positions
    BY <1>1 DEF Positions
  <2>. QED
    BY <2>1, <2>2 DEF Elems, In
<1>4. ASSUME NEW p \in Elems(match_buf)
      PROVE  p \in Dealt .. pos - 1
  <2>1. PICK n \in 1 .. Len(match_buf) : match_buf[n] = p
    BY <1>4 DEF Elems, In
  <2>. QED
    BY <1>1, <2>1
<1>. QED
  BY <1>1, <1>2, <1>3, <1>4

\* The character that is read goes behind what is pending.
LEMMA CandidateFacts ==
  ASSUME TInv, Trailing, ReadChar
  PROVE  /\ Candidate \in Seq(Positions) /\ Candidate # <<>>
         /\ Len(Candidate) = Len(match_buf) + 1
         /\ Candidate[Len(Candidate)] = pos
         /\ \A n \in 1 .. Len(Candidate) : Candidate[n] = Dealt + n - 1
         /\ Climbs(Candidate)
         /\ \A n \in 1 .. Len(Candidate) : Dealt <= Candidate[n] /\ Candidate[n] < pos + 1
         /\ Elems(Candidate) = Dealt .. pos
<1>1. pos \in Positions /\ Candidate \in Seq(Positions)
  BY ReadType
<1>2. /\ match_buf \in Seq(Positions) /\ Len(match_buf) \in Nat
      /\ pos \in Nat \ {0} /\ Dealt \in Nat \ {0} /\ pos = Dealt + Len(match_buf)
      /\ Elems(match_buf) = Dealt .. pos - 1
      /\ \A n \in 1 .. Len(match_buf) : match_buf[n] = Dealt + n - 1
  BY PendingFacts DEF Trailing
<1>3. /\ Candidate # <<>>
      /\ Len(Candidate) = Len(match_buf) + 1
      /\ \A n \in 1 .. Len(match_buf) : Candidate[n] = match_buf[n]
      /\ Candidate[Len(match_buf) + 1] = pos
  <2>1. \A s \in Seq(Positions) : \A p \in Positions :
          /\ Append(s, p) # <<>> /\ Len(Append(s, p)) = Len(s) + 1
          /\ \A n \in 1 .. Len(s) : Append(s, p)[n] = s[n]
          /\ Append(s, p)[Len(s) + 1] = p
    OBVIOUS
  <2>. QED
    BY <1>1, <1>2, <2>1 DEF Candidate
<1>4. \A n \in 1 .. Len(Candidate) : Candidate[n] = Dealt + n - 1
  BY <1>2, <1>3
<1>5. /\ Climbs(Candidate)
      /\ \A n \in 1 .. Len(Candidate) : Dealt <= Candidate[n] /\ Candidate[n] < pos + 1
  BY <1>2, <1>3, <1>4 DEF Climbs
<1>6. ASSUME NEW p \in Dealt .. pos
      PROVE  p \in Elems(Candidate)
  <2>1. (p - Dealt) + 1 \in 1 .. Len(Candidate) /\ Candidate[(p - Dealt) + 1] = p
    BY <1>2, <1>3, <1>4
  <2>2. p \in Positions
    BY <1>1, <1>2 DEF Positions
  <2>. QED
    BY <2>1, <2>2 DEF Elems, In
<1>7. ASSUME NEW p \in Elems(Candidate)
      PROVE  p \in Dealt .. pos
  <2>1. PICK n \in 1 .. Len(Candidate) : Candidate[n] = p
    BY <1>7 DEF Elems, In
  <2>. QED
    BY <1>2, <1>3, <1>4, <2>1
<1>. QED
  BY <1>1, <1>3, <1>4, <1>5, <1>6, <1>7

\* Without a '\', the branches for what follows one are never taken.
LEMMA Branches ==
  ASSUME NoEscapes, TInv, ~escape_next, [Next]_vars
  PROVE  /\ PartOfSep \/ WholeSep \/ NoSepInCode \/ NoSepInText \/ EndOfFile \/ UNCHANGED vars
         /\ inp' = inp /\ sep' = sep /\ ~escape_next'
<1>1. ~EscapedInCode /\ ~LineContinuation /\ ~EscapedInText
  BY DEF EscapedInCode, LineContinuation, EscapedInText
<1>2. ASSUME Backslash PROVE FALSE
  <2>1. pos \in Positions /\ inp[pos] = "\\"
    BY <1>2, ReadType DEF Backslash
  <2>. QED
    BY <2>1 DEF NoEscapes
<1>3. PartOfSep \/ WholeSep \/ NoSepInCode \/ NoSepInText \/ EndOfFile \/ UNCHANGED vars
  BY <1>1, <1>2 DEF Next
<1>4. inp' = inp /\ sep' = sep /\ escape_next' = escape_next
  BY <1>3 DEF PartOfSep, WholeSep, NoSepInCode, NoSepInText, EndOfFile, vars
<1>. QED
  BY <1>3, <1>4

LEMMA OrderFixed ==
  ASSUME inp' = inp, NEW f, Ordered(builder', buffer', f), f = Dealt'
  PROVE  Ordered(builder, buffer, Dealt)'
<1>1. Positions' = Positions
  BY DEF Positions
<1>. QED
  BY <1>1 DEF Ordered

LEMMA StepPending ==
  ASSUME NoEscapes, UInv, [Next]_vars
  PROVE  Pending'
<1>0. /\ match_buf \in Seq(Positions) /\ Len(match_buf) \in Nat
      /\ pos \in Nat \ {0} /\ Len(inp) \in Nat /\ pos <= Len(inp) + 1
      /\ Dealt \in Nat \ {0} /\ pos = Dealt + Len(match_buf)
  BY PendingFacts DEF UInv, Pending
<1>1. /\ PartOfSep \/ WholeSep \/ NoSepInCode \/ NoSepInText \/ EndOfFile \/ UNCHANGED vars
      /\ ~escape_next'
  BY Branches DEF UInv
<1>2. CASE PartOfSep
  <2>1. /\ ReadChar /\ match_buf' = Candidate /\ pos' = pos + 1
        /\ buffer' = buffer /\ code' = code /\ done' = done /\ ~done
    BY <1>2 DEF PartOfSep, Match, ReadChar
  <2>2. Len(Candidate) = Len(match_buf) + 1
        /\ \A n \in 1 .. Len(Candidate) : Candidate[n] = Dealt + n - 1
    BY <2>1, CandidateFacts DEF UInv, Pending
  <2>3. Dealt' = Dealt
    BY <1>0, <2>1, <2>2 DEF Dealt
  <2>4. Trailing'
    BY <1>0, <2>1, <2>2, <2>3 DEF Trailing
  <2>. QED
    BY <1>1, <2>1, <2>4 DEF UInv, Pending
<1>3. CASE WholeSep \/ NoSepInCode \/ NoSepInText
  <2>1. /\ match_buf' = <<>> /\ pos' = pos + 1 /\ ~done'
        /\ code' => buffer' = <<>>
    BY <1>3 DEF WholeSep, NoSepInCode, NoSepInText, Match, ReadChar, UInv, Pending
  <2>2. Len(match_buf') = 0 /\ Dealt' = pos + 1
    BY <1>0, <2>1 DEF Dealt
  <2>3. Trailing'
    BY <1>0, <2>2 DEF Trailing
  <2>. QED
    BY <1>1, <2>1, <2>3 DEF Pending
<1>4. CASE EndOfFile
  <2>1. match_buf' = <<>> /\ buffer' = <<>> /\ pos' = pos
    BY <1>4 DEF EndOfFile
  <2>2. Len(match_buf') = 0 /\ Dealt' = pos
    BY <1>0, <2>1 DEF Dealt
  <2>3. Trailing'
    BY <1>0, <2>2 DEF Trailing
  <2>. QED
    BY <1>1, <2>1, <2>3 DEF Pending
<1>5. CASE UNCHANGED vars
  BY <1>5 DEF vars, UInv, Pending, Trailing, Dealt
<1>. QED
  BY <1>1, <1>2, <1>3, <1>4, <1>5

LEMMA StepUnescaped ==
  ASSUME NoEscapes, UInv, [Next]_vars
  PROVE  UInv'
<1>0. /\ match_buf \in Seq(Positions) /\ Len(match_buf) \in Nat
      /\ pos \in Nat \ {0} /\ Len(inp) \in Nat /\ pos <= Len(inp) + 1
      /\ Dealt \in Nat \ {0} /\ pos = Dealt + Len(match_buf)
      /\ Climbs(match_buf)
      /\ \A n \in 1 .. Len(match_buf) : Dealt <= match_buf[n] /\ match_buf[n] < pos
  BY PendingFacts DEF UInv, Pending
<1>1. /\ PartOfSep \/ WholeSep \/ NoSepInCode \/ NoSepInText \/ EndOfFile \/ UNCHANGED vars
      /\ inp' = inp /\ ~escape_next'
  BY Branches DEF UInv
<1>2. TInv' /\ Pending'
  BY StepType, StepPending DEF UInv
<1>3. builder \in Seq(Atoms) /\ buffer \in Seq(Positions) /\ Ordered(builder, buffer, Dealt)
  BY DEF UInv, TInv, TypeOK, Atoms
<1>4. pos \in Nat /\ pos + 1 \in Nat /\ Dealt \in Nat /\ Dealt <= pos /\ Dealt <= pos + 1
  BY <1>0
<1>5. CASE PartOfSep
  <2>1. ReadChar /\ match_buf' = Candidate /\ pos' = pos + 1
        /\ builder' = builder /\ buffer' = buffer
    BY <1>5 DEF PartOfSep, Match, ReadChar
  <2>2. Len(Candidate) = Len(match_buf) + 1
    BY <2>1, CandidateFacts DEF UInv, Pending
  <2>3. Dealt' = Dealt
    BY <1>0, <2>1, <2>2 DEF Dealt
  <2>4. Ordered(builder', buffer', Dealt)
    BY <1>3, <2>1
  <2>. QED
    BY <1>1, <1>2, <2>3, <2>4, OrderFixed DEF UInv
<1>6. CASE WholeSep
  <2>. DEFINE b == builder \o <<Newline>>
  <2>1. /\ builder' = b \o Literal(buffer) /\ buffer' = <<>>
        /\ match_buf' = <<>> /\ pos' = pos + 1
    BY <1>6 DEF WholeSep, Match, ReadChar
  <2>2. b \in Seq(Atoms) /\ Ordered(b, buffer, Dealt)
    <3>1. ~IsCopy(Newline)
      BY DEF IsCopy, Newline, Atom
    <3>. QED
      BY <1>3, <1>4, <3>1, AddedType, OrderAdded
  <2>. HIDE DEF b
  <2>3. Ordered(b, buffer, pos + 1)
    BY <1>3, <1>4, <2>2, OrderLater
  <2>4. Ordered(builder', buffer', pos + 1)
    BY <1>3, <1>4, <2>1, <2>2, <2>3, OrderFlush
  <2>5. Dealt' = pos + 1
    BY <1>0, <2>1 DEF Dealt
  <2>. QED
    BY <1>1, <1>2, <2>4, <2>5, OrderFixed DEF UInv
<1>7. CASE NoSepInCode \/ NoSepInText
  <2>1. ReadChar /\ match_buf' = <<>> /\ pos' = pos + 1
    BY <1>7 DEF NoSepInCode, NoSepInText, Match, ReadChar
  <2>2. /\ Candidate \in Seq(Positions) /\ Climbs(Candidate)
        /\ \A n \in 1 .. Len(Candidate) : Dealt <= Candidate[n] /\ Candidate[n] < pos + 1
    BY <2>1, CandidateFacts DEF UInv, Pending
  <2>3. Dealt' = pos + 1
    BY <1>0, <2>1 DEF Dealt
  <2>4. CASE NoSepInCode
    <3>1. builder' = builder \o Copies("code", Candidate) /\ buffer = <<>> /\ buffer' = <<>>
      BY <2>4 DEF NoSepInCode, CopyCode, UInv, Pending
    <3>2. Ordered(builder', buffer', pos + 1)
      BY <1>3, <1>4, <2>2, <3>1, OrderCode
    <3>. QED
      BY <1>1, <1>2, <2>3, <3>2, OrderFixed DEF UInv
  <2>5. CASE NoSepInText
    <3>1. builder' = builder /\ buffer' = buffer \o Candidate
      BY <2>5 DEF NoSepInText
    <3>2. Ordered(builder', buffer', pos + 1)
      BY <1>3, <1>4, <2>2, <3>1, OrderText
    <3>. QED
      BY <1>1, <1>2, <2>3, <3>2, OrderFixed DEF UInv
  <2>. QED
    BY <1>7, <2>4, <2>5
<1>8. CASE EndOfFile
  <2>1. Remainder = match_buf
    BY <1>0 DEF Remainder, UInv
  <2>2. match_buf' = <<>> /\ buffer' = <<>> /\ pos' = pos
    BY <1>8 DEF EndOfFile
  <2>3. Dealt' = pos
    BY <1>0, <2>2 DEF Dealt
  <2>4. CASE code
    <3>. DEFINE b == builder \o Copies("code", match_buf)
    <3>1. builder' = b \o Literal(<<>>) /\ buffer = <<>>
      BY <1>8, <2>1, <2>4 DEF EndOfFile, UInv, Pending
    <3>2. b \in Seq(Atoms) /\ Ordered(b, <<>>, pos)
      BY <1>0, <1>3, <1>4, <3>1, PlaceCode, OrderCode
    <3>. HIDE DEF b
    <3>3. Ordered(builder', buffer', pos)
      <4>1. <<>> \in Seq(Positions)
        OBVIOUS
      <4>2. Ordered(b \o Literal(<<>>), <<>>, pos)
        BY <1>4, <3>2, <4>1, OrderFlush
      <4>. QED
        BY <2>2, <3>1, <4>2
    <3>. QED
      BY <1>1, <1>2, <2>3, <3>3, OrderFixed DEF UInv
  <2>5. CASE ~code
    <3>. DEFINE t == buffer \o match_buf
    <3>1. builder' = builder \o <<>> \o Literal(t) /\ builder \o <<>> = builder
      BY <1>3, <1>8, <2>1, <2>5 DEF EndOfFile
    <3>2. t \in Seq(Positions) /\ Ordered(builder, t, pos)
      BY <1>0, <1>3, <1>4, OrderText
    <3>. HIDE DEF t
    <3>3. builder' = builder \o Literal(t)
      BY <3>1
    <3>4. Ordered(builder', buffer', pos)
      BY <1>3, <1>4, <2>2, <3>2, <3>3, OrderFlush
    <3>. QED
      BY <1>1, <1>2, <2>3, <3>4, OrderFixed DEF UInv
  <2>. QED
    BY <2>4, <2>5
<1>9. CASE UNCHANGED vars
  <2>1. builder' = builder /\ buffer' = buffer /\ Dealt' = Dealt
    BY <1>9 DEF vars, Dealt
  <2>2. Ordered(builder', buffer', Dealt)
    BY <1>3, <2>1
  <2>. QED
    BY <1>1, <1>2, <2>1, <2>2, OrderFixed DEF UInv
<1>. QED
  BY <1>1, <1>5, <1>6, <1>7, <1>8, <1>9

LEMMA InitUnescaped == Init => UInv
<1>. SUFFICES ASSUME Init PROVE UInv
  OBVIOUS
<1>1. /\ pos = 1 /\ match_buf = <<>> /\ buffer = <<>> /\ builder = <<>> /\ ~escape_next
  BY Zenon DEF Init
<1>2. TInv
  BY InitType
<1>3. Dealt = 1
  BY <1>1 DEF Dealt
<1>4. Pending
  BY <1>1, <1>3 DEF Pending, Trailing
<1>5. Ordered(builder, buffer, Dealt)
  BY <1>1 DEF Ordered, Rising, Climbs
<1>. QED
  BY <1>1, <1>2, <1>4, <1>5 DEF UInv

LEMMA UnescapedInvariance == Spec => [](NoEscapes => UInv)
<1>. DEFINE I == NoEscapes => UInv
<1>1. Init => I
  BY InitUnescaped
<1>2. I /\ [Next]_vars => I'
  <2>. SUFFICES ASSUME I, [Next]_vars PROVE I'
    OBVIOUS
  <2>1. inp' = inp
    BY DEF Next, EscapedInCode, LineContinuation, EscapedInText, Backslash, PartOfSep, WholeSep,
       NoSepInCode, NoSepInText, EndOfFile, vars
  <2>2. NoEscapes' <=> NoEscapes
    BY <2>1 DEF NoEscapes, Positions
  <2>3. ASSUME NoEscapes PROVE UInv'
    BY <2>3, StepUnescaped
  <2>. QED
    BY <2>2, <2>3
<1>. QED
  BY <1>1, <1>2, PTL DEF Spec

----------------------------------------------------------------------------
(* Delimiters that repeat one character, in a template without escapes.    *)

LEMMA Division ==
  ASSUME NEW n \in Nat \ {0}, NEW a \in Nat
  PROVE  a \div n \in Nat /\ a % n \in 0 .. n - 1 /\ a = n * (a \div n) + (a % n)
<1>1. a \div n \in Nat /\ a % n \in 0 .. n - 1
  OBVIOUS
<1>2. a = n * (a \div n) + (a % n)
  OBVIOUS
<1>. QED
  BY <1>1, <1>2

LEMMA QuotientAtLeast ==
  ASSUME NEW n \in Nat \ {0}, NEW a \in Nat, NEW q \in Nat, n * q <= a
  PROVE  q <= a \div n
<1>. DEFINE d == a \div n
            r == a % n
<1>1. d \in Nat /\ r \in 0 .. n - 1 /\ a = n * d + r
  BY Division
<1>. HIDE DEF d, r
<1>2. ASSUME d < q PROVE FALSE
  <2>1. d + 1 <= q
    BY <1>1, <1>2
  <2>2. n * (d + 1) <= n * q
    BY <1>1, <2>1
  <2>3. n * (d + 1) = n * d + n
    BY <1>1
  <2>. QED
    BY <1>1, <2>2, <2>3
<1>. QED
  BY <1>1, <1>2 DEF d

LEMMA QuotientIs ==
  ASSUME NEW n \in Nat \ {0}, NEW q \in Nat, NEW m \in 0 .. n - 1
  PROVE  (n * q + m) \div n = q
<1>. DEFINE a == n * q + m
            d == a \div n
            r == a % n
<1>0. a \in Nat /\ n * q \in Nat
  OBVIOUS
<1>1. d \in Nat /\ r \in 0 .. n - 1 /\ a = n * d + r
  BY <1>0, Division
<1>2. a = n * q + m
  OBVIOUS
<1>3. q <= d
  <2>1. n * q <= a
    BY <1>0
  <2>. HIDE DEF a
  <2>. QED
    BY <1>0, <2>1, QuotientAtLeast
<1>. HIDE DEF a, d, r
<1>4. ASSUME q < d PROVE FALSE
  <2>1. q + 1 <= d
    BY <1>1, <1>4
  <2>2. n * (q + 1) <= n * d
    BY <1>1, <2>1
  <2>3. n * (q + 1) = n * q + n
    BY <1>1
  <2>. QED
    BY <1>0, <1>1, <1>2, <2>2, <2>3
<1>. QED
  BY <1>1, <1>3, <1>4 DEF a, d

\* Exactly k of the delimiter's characters stand before p.
SepRunAt(p, k) ==
  /\ k \in 0 .. p - 1
  /\ \A q \in p - k .. p - 1 : inp[q] = sep[1]
  /\ p - k = 1 \/ inp[p - k - 1] # sep[1]

LEMMA SepRunStep ==
  ASSUME NEW p \in Nat \ {0}, NEW k, SepRunAt(p, k)
  PROVE  SepRunAt(p + 1, IF inp[p] = sep[1] THEN k + 1 ELSE 0)
<1>1. CASE inp[p] = sep[1]
  BY <1>1 DEF SepRunAt
<1>2. CASE inp[p] # sep[1]
  BY <1>2 DEF SepRunAt
<1>. QED
  BY <1>1, <1>2

LEMMA RunBeforeIs ==
  ASSUME NEW p \in Nat \ {0}, NEW j, SepRunAt(p, j), inp[p] = sep[1]
  PROVE  RunBefore(p) = j
<1>. DEFINE R == {a \in 1 .. p - 1 : \A q \in a .. p : inp[q] = sep[1]}
<1>1. j \in 0 .. p - 1
  BY DEF SepRunAt
<1>2. R = p - j .. p - 1
  <2>1. ASSUME NEW a \in p - j .. p - 1 PROVE a \in R
    BY <1>1, <2>1 DEF SepRunAt
  <2>2. ASSUME NEW a \in R PROVE a \in p - j .. p - 1
    <3>1. ASSUME a < p - j PROVE FALSE
      <4>1. p - j - 1 \in a .. p /\ p - j # 1
        BY <1>1, <2>2, <3>1
      <4>. QED
        BY <2>2, <4>1 DEF SepRunAt
    <3>. QED
      BY <1>1, <2>2, <3>1
  <2>. QED
    BY <2>1, <2>2
<1>3. Cardinality(p - j .. p - 1) = j
  <2>1. Cardinality(p - j .. p - 1) = IF p - j > p - 1 THEN 0 ELSE (p - 1) - (p - j) + 1
    BY <1>1, FS_Interval
  <2>. QED
    BY <1>1, <2>1
<1>. QED
  BY <1>2, <1>3 DEF RunBefore

\* All of the n positions after p continue its run, and the run may end there.
LEMMA RunAfterIs ==
  ASSUME NEW p \in Nat \ {0}, NEW n \in Nat, p + n <= Len(inp), Len(inp) \in Nat,
         \A q \in p .. p + n : inp[q] = sep[1]
  PROVE  /\ RunAfter(p) \in Nat /\ n <= RunAfter(p)
         /\ p + n = Len(inp) \/ inp[p + n + 1] # sep[1] => RunAfter(p) = n
<1>. DEFINE R == {b \in p + 1 .. Len(inp) : \A q \in p .. b : inp[q] = sep[1]}
<1>1. p + 1 .. p + n \in SUBSET R
  OBVIOUS
<1>2. IsFiniteSet(R)
  <2>1. R \in SUBSET (p + 1 .. Len(inp))
    OBVIOUS
  <2>. HIDE DEF R
  <2>2. p + 1 \in Int /\ Len(inp) \in Int
    OBVIOUS
  <2>3. IsFiniteSet(p + 1 .. Len(inp))
    BY <2>2, FS_Interval
  <2>. QED
    BY <2>1, <2>3, FS_Subset
<1>3. Cardinality(p + 1 .. p + n) = n
  <2>1. Cardinality(p + 1 .. p + n) = IF p + 1 > p + n THEN 0 ELSE (p + n) - (p + 1) + 1
    BY FS_Interval
  <2>. QED
    BY <2>1
<1>4. ASSUME p + n = Len(inp) \/ inp[p + n + 1] # sep[1]
      PROVE  R = p + 1 .. p + n
  <2>1. ASSUME NEW b \in R PROVE b <= p + n
    <3>1. ASSUME b > p + n PROVE FALSE
      <4>1. p + n + 1 \in p .. b /\ p + n # Len(inp)
        BY <2>1, <3>1
      <4>. QED
        BY <1>4, <2>1, <4>1
    <3>. QED
      BY <2>1, <3>1
  <2>. QED
    BY <1>1, <2>1
<1>. HIDE DEF R
<1>5. Cardinality(R) \in Nat /\ n <= Cardinality(R)
  BY <1>1, <1>2, <1>3, FS_Subset, FS_CardinalityType
<1>. QED
  BY <1>3, <1>4, <1>5 DEF RunAfter, R

\* The characters of a run that were dealt with, and those that are pending.
\* s is where the run begins, s + t the last position known to belong to it.
LEMMA RunPosition ==
  ASSUME NEW s \in Nat \ {0}, NEW t \in Nat, NEW p \in s .. s + t,
         s + t <= Len(inp), Len(inp) \in Nat,
         \A q \in s .. s + t : inp[q] = sep[1],
         s = 1 \/ inp[s - 1] # sep[1],
         Len(sep) \in Nat \ {0}, NEW d \in Nat
  PROVE  /\ (p - s) < Len(sep) * d /\ Len(sep) * d <= t + 1 => InDelimiter(p)
         /\ /\ s + t = Len(inp) \/ inp[s + t + 1] # sep[1]
            /\ Len(sep) * d <= p - s /\ t + 1 < Len(sep) * (d + 1)
            => ~InDelimiter(p)
<1>. DEFINE j == p - s
            n == t - j
            after == RunAfter(p)
            whole == RunBefore(p) + 1 + after
<1>1. /\ j \in Nat /\ n \in Nat /\ p \in Nat \ {0} /\ p + n = s + t /\ p - j = s
      /\ inp[p] = sep[1]
  OBVIOUS
<1>2. RunBefore(p) = j
  <2>1. SepRunAt(p, j)
    BY DEF SepRunAt
  <2>. QED
    BY <1>1, <2>1, RunBeforeIs
<1>3. /\ after \in Nat /\ n <= after
      /\ s + t = Len(inp) \/ inp[s + t + 1] # sep[1] => after = n
  <2>1. p + n <= Len(inp) /\ \A q \in p .. p + n : inp[q] = sep[1]
    BY <1>1
  <2>. HIDE DEF n
  <2>2. /\ RunAfter(p) \in Nat /\ n <= RunAfter(p)
        /\ p + n = Len(inp) \/ inp[p + n + 1] # sep[1] => RunAfter(p) = n
    BY <1>1, <2>1, RunAfterIs
  <2>. HIDE DEF j
  <2>3. p + n = s + t
    BY <1>1
  <2>. QED
    BY <2>2, <2>3
<1>. HIDE DEF after
<1>4. whole \in Nat /\ t + 1 <= whole /\ (after = n => whole = t + 1)
  <2>1. j + n = t /\ j \in Nat /\ n \in Nat
    BY <1>1
  <2>2. whole = j + 1 + after
    BY <1>2
  <2>3. after \in Nat /\ n <= after
    BY <1>3
  <2>. HIDE DEF j, n, whole
  <2>4. whole \in Nat /\ t + 1 <= whole
    BY <2>1, <2>2, <2>3
  <2>5. after = n => whole = t + 1
    BY <2>1, <2>2
  <2>. QED
    BY <2>4, <2>5
<1>5. InDelimiter(p) <=> j < Len(sep) * (whole \div Len(sep))
  BY <1>1, <1>2 DEF InDelimiter, after
<1>. HIDE DEF whole
<1>. DEFINE w == whole \div Len(sep)
<1>6. w \in Nat
  BY <1>4, Division
<1>7. ASSUME j < Len(sep) * d, Len(sep) * d <= t + 1
      PROVE  InDelimiter(p)
  <2>1. Len(sep) * d \in Nat /\ Len(sep) * d <= whole
    BY <1>4, <1>7
  <2>2. d <= w
    BY <1>4, <2>1, QuotientAtLeast
  <2>. HIDE DEF w
  <2>3. Len(sep) * d <= Len(sep) * w /\ Len(sep) * w \in Nat
    BY <1>6, <2>2
  <2>4. j < Len(sep) * w
    BY <1>1, <1>7, <2>1, <2>3
  <2>. QED
    BY <1>5, <2>4 DEF w
<1>8. ASSUME s + t = Len(inp) \/ inp[s + t + 1] # sep[1],
             Len(sep) * d <= j, t + 1 < Len(sep) * (d + 1)
      PROVE  ~InDelimiter(p)
  <2>1. whole = t + 1
    BY <1>3, <1>4, <1>8
  <2>2. Len(sep) * (d + 1) = Len(sep) * d + Len(sep) /\ Len(sep) * d \in Nat
    OBVIOUS
  <2>. DEFINE m == whole - Len(sep) * d
  <2>3. m \in 0 .. Len(sep) - 1 /\ whole = Len(sep) * d + m
    BY <1>1, <1>4, <1>8, <2>1, <2>2
  <2>. HIDE DEF m
  <2>4. w = d
    BY <2>3, QuotientIs
  <2>. HIDE DEF w
  <2>5. ~(j < Len(sep) * w)
    BY <1>1, <1>8, <2>2, <2>4
  <2>. QED
    BY <1>5, <2>5 DEF w
<1>. QED
  BY <1>7, <1>8

----------------------------------------------------------------------------

DelimitersTo(f) == {q \in 1 .. f - 1 : InDelimiter(q)}

CodeMeant(f) == {p \in 1 .. f - 1 : ~InDelimiter(p) /\ DelimitersBefore(p) % 2 = 1}
TextMeant(f) == {p \in 1 .. f - 1 : ~InDelimiter(p) /\ ~(DelimitersBefore(p) % 2 = 1)}

\* What is pending is what a whole number of delimiters leaves of the run.
RunLeft ==
  \E k, q \in Nat : SepRunAt(pos, k) /\ k = Len(sep) * q + Len(match_buf)

\* Whole delimiters have been dealt with, and code tells how many.
Toggled ==
  \E d \in Nat :
    /\ Cardinality(DelimitersTo(Dealt)) = Len(sep) * d
    /\ code <=> d % 2 = 1

Meant(b, t, f) == CodeIn(b) = CodeMeant(f) /\ TextIn(b, t) = TextMeant(f)

RInv ==
  /\ UInv
  /\ Len(match_buf) < Len(sep)
  /\ ~done => RunLeft
  /\ done => pos = Len(inp) + 1
  /\ Toggled
  /\ Meant(builder, buffer, Dealt)

LEMMA SameRuns ==
  ASSUME inp' = inp, sep' = sep
  PROVE  /\ Positions' = Positions
         /\ \A p, k : SepRunAt(p, k)' <=> SepRunAt(p, k)
         /\ \A f : DelimitersTo(f)' = DelimitersTo(f)
         /\ \A f : CodeMeant(f)' = CodeMeant(f) /\ TextMeant(f)' = TextMeant(f)
<1>1. \A p : InDelimiter(p)' <=> InDelimiter(p)
  BY DEF InDelimiter, RunBefore, RunAfter
<1>2. \A p : DelimitersBefore(p)' = DelimitersBefore(p)
  BY <1>1 DEF DelimitersBefore
<1>. QED
  BY <1>1, <1>2 DEF SepRunAt, DelimitersTo, CodeMeant, TextMeant, Positions

LEMMA MeantFixed ==
  ASSUME inp' = inp, sep' = sep, NEW f, Meant(builder', buffer', f), f = Dealt'
  PROVE  Meant(builder, buffer, Dealt)'
<1>1. \A b, t : CodeIn(b)' = CodeIn(b) /\ TextIn(b, t)' = TextIn(b, t)
  BY SameRuns DEF CodeIn, TextIn
<1>2. CodeIn(builder)' = CodeIn(builder') /\ TextIn(builder, buffer)' = TextIn(builder', buffer')
  BY SameRuns DEF CodeIn, TextIn
<1>3. CodeMeant(Dealt)' = CodeMeant(f) /\ TextMeant(Dealt)' = TextMeant(f)
  BY SameRuns DEF CodeMeant, TextMeant
<1>. QED
  BY <1>2, <1>3 DEF Meant

LEMMA DelimitersFinite ==
  ASSUME NEW f \in Nat \ {0}
  PROVE  IsFiniteSet(DelimitersTo(f)) /\ Cardinality(DelimitersTo(f)) \in Nat
<1>1. IsFiniteSet(1 .. f - 1) /\ DelimitersTo(f) \in SUBSET (1 .. f - 1)
  BY FS_Interval DEF DelimitersTo
<1>. QED
  BY <1>1, FS_Subset, FS_CardinalityType

\* Characters that are part of no delimiter have the mode of the first one.
LEMMA PlainAhead ==
  ASSUME NEW f \in Nat \ {0}, NEW g \in Nat, f <= g,
         \A p \in f .. g - 1 : ~InDelimiter(p),
         Len(sep) \in Nat \ {0}, NEW d \in Nat,
         Cardinality(DelimitersTo(f)) = Len(sep) * d
  PROVE  /\ DelimitersTo(g) = DelimitersTo(f)
         /\ CodeMeant(g) = IF d % 2 = 1 THEN CodeMeant(f) \cup f .. g - 1 ELSE CodeMeant(f)
         /\ TextMeant(g) = IF d % 2 = 1 THEN TextMeant(f) ELSE TextMeant(f) \cup f .. g - 1
<1>1. \A p \in f .. g : DelimitersTo(p) = DelimitersTo(f)
  BY DEF DelimitersTo
<1>2. \A p \in f .. g - 1 : DelimitersBefore(p) = d
  <2>1. (Len(sep) * d + 0) \div Len(sep) = d
    BY QuotientIs
  <2>2. Len(sep) * d + 0 = Len(sep) * d
    OBVIOUS
  <2>. QED
    <3>1. \A p : DelimitersBefore(p) = Cardinality(DelimitersTo(p)) \div Len(sep)
      BY DEF DelimitersBefore, DelimitersTo
    <3>2. \A p \in f .. g - 1 : p \in f .. g
      OBVIOUS
    <3>. QED
      BY <1>1, <2>1, <2>2, <3>1, <3>2
<1>3. \A p : p \in 1 .. g - 1 <=> p \in 1 .. f - 1 \/ p \in f .. g - 1
  OBVIOUS
<1>4. g \in f .. g
  OBVIOUS
<1>. QED
  BY <1>1, <1>2, <1>3, <1>4 DEF CodeMeant, TextMeant

LEMMA DelimiterAhead ==
  ASSUME NEW f \in Nat \ {0}, NEW g \in Nat, f <= g,
         \A p \in f .. g - 1 : InDelimiter(p)
  PROVE  /\ Cardinality(DelimitersTo(g)) = Cardinality(DelimitersTo(f)) + (g - f)
         /\ CodeMeant(g) = CodeMeant(f)
         /\ TextMeant(g) = TextMeant(f)
<1>1. \A p : p \in 1 .. g - 1 <=> p \in 1 .. f - 1 \/ p \in f .. g - 1
  OBVIOUS
<1>2. CodeMeant(g) = CodeMeant(f) /\ TextMeant(g) = TextMeant(f)
  BY <1>1 DEF CodeMeant, TextMeant
<1>. DEFINE D == DelimitersTo(f)
            E == f .. g - 1
<1>3. DelimitersTo(g) = D \cup E /\ D \cap E = {}
  BY <1>1 DEF DelimitersTo
<1>4. IsFiniteSet(D) /\ Cardinality(D) \in Nat
  BY DelimitersFinite
<1>5. IsFiniteSet(E) /\ Cardinality(E) = g - f
  <2>1. /\ IsFiniteSet(f .. g - 1)
        /\ Cardinality(f .. g - 1) = IF f > g - 1 THEN 0 ELSE (g - 1) - f + 1
    BY FS_Interval
  <2>. QED
    BY <2>1
<1>. HIDE DEF D, E
<1>6. Cardinality(D \cup E) = Cardinality(D) + Cardinality(E) - Cardinality(D \cap E)
  BY <1>4, <1>5, FS_Union
<1>7. Cardinality(D \cap E) = 0
  BY <1>3, FS_EmptySet
<1>. QED
  BY <1>2, <1>3, <1>4, <1>5, <1>6, <1>7 DEF D

LEMMA RunFacts ==
  ASSUME RepeatsOneCharacter, RInv
  PROVE  /\ Len(sep) \in Nat \ {0}
         /\ match_buf \in Seq(Positions) /\ Len(match_buf) \in Nat
         /\ pos \in Nat \ {0} /\ Len(inp) \in Nat /\ pos <= Len(inp) + 1
         /\ Dealt \in Nat \ {0} /\ pos = Dealt + Len(match_buf)
         /\ builder \in Seq(Atoms) /\ buffer \in Seq(Positions)
<1>1. Len(sep) \in Nat \ {0}
  <2>1. sep \in Seq(STRING) /\ sep # <<>>
    BY SepsAssumption DEF RInv, UInv, TInv, TypeOK, RepeatsOneCharacter
  <2>. QED
    BY <2>1
<1>2. builder \in Seq(Atoms) /\ buffer \in Seq(Positions)
  BY DEF RInv, UInv, TInv, TypeOK, Atoms
<1>. QED
  BY <1>1, <1>2, PendingFacts DEF RInv, UInv, Pending

LEMMA BeginsIff ==
  ASSUME RepeatsOneCharacter, RInv, ReadChar
  PROVE  BeginsSep <=> inp[pos] = sep[1]
<1>1. /\ Len(Candidate) = Len(match_buf) + 1
      /\ \A n \in 1 .. Len(Candidate) : Candidate[n] = Dealt + n - 1
  BY CandidateFacts DEF RInv, UInv, Pending
<1>2. /\ Len(sep) \in Nat \ {0} /\ Len(match_buf) \in Nat
      /\ pos \in Nat \ {0} /\ Dealt \in Nat \ {0} /\ pos = Dealt + Len(match_buf)
      /\ Len(match_buf) < Len(sep)
  BY RunFacts DEF RInv
<1>3. \A q \in Dealt .. pos - 1 : inp[q] = sep[1]
  <2>1. PICK k, q \in Nat : SepRunAt(pos, k) /\ k = Len(sep) * q + Len(match_buf)
    BY DEF RInv, ReadChar, RunLeft
  <2>2. Len(sep) * q \in Nat
    BY <1>2
  <2>3. Len(match_buf) <= k
    BY <1>2, <2>1, <2>2
  <2>. QED
    BY <1>2, <2>1, <2>3 DEF SepRunAt
<1>4. \A n \in 1 .. Len(sep) : sep[n] = sep[1]
  BY DEF RepeatsOneCharacter
<1>5. ASSUME inp[pos] = sep[1] PROVE BeginsSep
  <2>1. ASSUME NEW n \in 1 .. Len(Candidate) PROVE inp[Candidate[n]] = sep[n]
    <3>1. Candidate[n] \in Dealt .. pos /\ n \in 1 .. Len(sep)
      BY <1>1, <1>2
    <3>2. inp[Candidate[n]] = sep[1]
      BY <1>2, <1>3, <1>5, <3>1
    <3>. QED
      BY <1>4, <3>1, <3>2
  <2>. QED
    BY <1>1, <1>2, <2>1 DEF BeginsSep
<1>6. ASSUME BeginsSep PROVE inp[pos] = sep[1]
  <2>1. /\ Len(match_buf) + 1 \in 1 .. Len(Candidate) /\ Len(match_buf) + 1 \in 1 .. Len(sep)
        /\ Candidate[Len(match_buf) + 1] = pos
    BY <1>1, <1>2
  <2>. QED
    BY <1>4, <1>6, <2>1 DEF BeginsSep
<1>. QED
  BY <1>5, <1>6

\* What follows the last whole delimiter of a run is no delimiter, if the run
\* ends here.
LEMMA LeftOver ==
  ASSUME RepeatsOneCharacter, RInv, ~done,
         pos = Len(inp) + 1 \/ inp[pos] # sep[1],
         NEW p \in Dealt .. pos - 1
  PROVE  ~InDelimiter(p)
<1>1. PICK k, q \in Nat : SepRunAt(pos, k) /\ k = Len(sep) * q + Len(match_buf)
  BY DEF RInv, RunLeft
<1>2. /\ Len(sep) \in Nat \ {0} /\ Len(match_buf) \in Nat /\ Len(inp) \in Nat
      /\ pos \in Nat \ {0} /\ Dealt \in Nat \ {0} /\ pos = Dealt + Len(match_buf)
      /\ Len(match_buf) < Len(sep) /\ pos <= Len(inp) + 1
  BY RunFacts DEF RInv
<1>3. /\ Len(sep) * q \in Nat /\ Len(sep) * (q + 1) = Len(sep) * q + Len(sep)
      /\ k \in 0 .. pos - 1
  BY <1>1, <1>2 DEF SepRunAt
<1>. DEFINE s == pos - k
            t == k - 1
<1>4. /\ s \in Nat \ {0} /\ t \in Nat /\ s + t = pos - 1 /\ s + t + 1 = pos /\ p \in s .. s + t
      /\ Len(sep) * q <= p - s /\ t + 1 < Len(sep) * (q + 1)
  BY <1>1, <1>2, <1>3
<1>5. /\ \A i \in s .. s + t : inp[i] = sep[1]
      /\ s = 1 \/ inp[s - 1] # sep[1]
  BY <1>1, <1>4 DEF SepRunAt
<1>. HIDE DEF s, t
<1>6. s + t = Len(inp) \/ inp[s + t + 1] # sep[1]
  <2>1. pos = Len(inp) + 1 => s + t = Len(inp)
    BY <1>2, <1>4
  <2>. QED
    BY <1>4, <2>1
<1>7. s + t <= Len(inp)
  BY <1>2, <1>4
<1>. QED
  BY <1>2, <1>4, <1>5, <1>6, <1>7, RunPosition

\* The characters of the delimiter that has just been completed.
LEMMA Completed ==
  ASSUME RepeatsOneCharacter, RInv, ReadChar, inp[pos] = sep[1],
         Len(match_buf) + 1 = Len(sep), NEW p \in Dealt .. pos
  PROVE  InDelimiter(p)
<1>1. PICK k, q \in Nat : SepRunAt(pos, k) /\ k = Len(sep) * q + Len(match_buf)
  BY DEF RInv, RunLeft, ReadChar
<1>2. /\ Len(sep) \in Nat \ {0} /\ Len(match_buf) \in Nat /\ Len(inp) \in Nat
      /\ pos \in Nat \ {0} /\ Dealt \in Nat \ {0} /\ pos = Dealt + Len(match_buf)
      /\ pos <= Len(inp)
  BY RunFacts DEF ReadChar
<1>3. /\ Len(sep) * q \in Nat /\ Len(sep) * (q + 1) = Len(sep) * q + Len(sep)
      /\ k \in 0 .. pos - 1
  BY <1>1, <1>2 DEF SepRunAt
<1>. DEFINE s == pos - k
<1>4. /\ s \in Nat \ {0} /\ s + k = pos /\ p \in s .. s + k /\ q + 1 \in Nat
      /\ p - s < Len(sep) * (q + 1) /\ Len(sep) * (q + 1) <= k + 1
  BY <1>1, <1>2, <1>3
<1>5. /\ \A i \in s .. s + k : inp[i] = sep[1]
      /\ s = 1 \/ inp[s - 1] # sep[1]
  <2>1. \A i \in s .. s + k : i \in s .. pos - 1 \/ i = pos
    <3>1. s \in Nat /\ k \in Nat /\ s + k = pos
      BY <1>4
    <3>. HIDE DEF s
    <3>. QED
      BY <3>1
  <2>. QED
    BY <1>1, <2>1 DEF SepRunAt
<1>6. s + k <= Len(inp)
  BY <1>2, <1>4
<1>. HIDE DEF s
<1>. QED
  BY <1>2, <1>4, <1>5, <1>6, RunPosition

\* Characters of no delimiter are copied in the mode they have.
LEMMA RunsCopied ==
  ASSUME RepeatsOneCharacter, RInv, NEW g \in Nat, Dealt <= g,
         \A p \in Dealt .. g - 1 : ~InDelimiter(p),
         NEW ps \in Seq(Positions), Elems(ps) = Dealt .. g - 1
  PROVE  /\ Cardinality(DelimitersTo(g)) = Cardinality(DelimitersTo(Dealt))
         /\ code => Meant(builder \o Copies("code", ps), <<>>, g)
         /\ ~code => Meant(builder, buffer \o ps, g)
<1>1. PICK d \in Nat : /\ Cardinality(DelimitersTo(Dealt)) = Len(sep) * d
                       /\ code <=> d % 2 = 1
  BY DEF RInv, Toggled
<1>2. /\ Len(sep) \in Nat \ {0} /\ Dealt \in Nat \ {0}
      /\ builder \in Seq(Atoms) /\ buffer \in Seq(Positions)
  BY RunFacts
<1>3. /\ DelimitersTo(g) = DelimitersTo(Dealt)
      /\ CodeMeant(g) = IF d % 2 = 1 THEN CodeMeant(Dealt) \cup Dealt .. g - 1 ELSE CodeMeant(Dealt)
      /\ TextMeant(g) = IF d % 2 = 1 THEN TextMeant(Dealt) ELSE TextMeant(Dealt) \cup Dealt .. g - 1
  BY <1>1, <1>2, PlainAhead
<1>4. CodeIn(builder) = CodeMeant(Dealt) /\ TextIn(builder, buffer) = TextMeant(Dealt)
  BY DEF RInv, Meant
<1>5. ASSUME code PROVE Meant(builder \o Copies("code", ps), <<>>, g)
  <2>1. buffer = <<>>
    BY <1>5 DEF RInv, UInv, Pending
  <2>2. /\ CodeIn(builder \o Copies("code", ps)) = CodeIn(builder) \cup Elems(ps)
        /\ TextIn(builder \o Copies("code", ps), buffer) = TextIn(builder, buffer)
    BY <1>2, PlaceCode
  <2>. QED
    BY <1>1, <1>3, <1>4, <1>5, <2>1, <2>2 DEF Meant
<1>6. ASSUME ~code PROVE Meant(builder, buffer \o ps, g)
  <2>1. TextIn(builder, buffer \o ps) = TextIn(builder, buffer) \cup Elems(ps)
    BY <1>2, PlaceText
  <2>. QED
    BY <1>1, <1>3, <1>4, <1>6, <2>1 DEF Meant
<1>. QED
  BY <1>3, <1>5, <1>6

LEMMA MeantFlush ==
  ASSUME NEW b \in Seq(Atoms), NEW t \in Seq(Positions), NEW g, Meant(b, t, g)
  PROVE  Meant(b \o Literal(t), <<>>, g)
BY PlaceLiteral DEF Meant

LEMMA ToggledSame ==
  ASSUME Toggled, inp' = inp, sep' = sep, code' = code,
         Cardinality(DelimitersTo(Dealt')) = Cardinality(DelimitersTo(Dealt))
  PROVE  Toggled'
<1>1. DelimitersTo(Dealt)' = DelimitersTo(Dealt')
  BY SameRuns DEF DelimitersTo
<1>. QED
  BY <1>1 DEF Toggled

LEMMA StepRuns ==
  ASSUME RepeatsOneCharacter, NoEscapes, RInv, [Next]_vars
  PROVE  RInv'
<1>0. /\ Len(sep) \in Nat \ {0}
      /\ match_buf \in Seq(Positions) /\ Len(match_buf) \in Nat
      /\ pos \in Nat \ {0} /\ Len(inp) \in Nat /\ pos <= Len(inp) + 1
      /\ Dealt \in Nat \ {0} /\ pos = Dealt + Len(match_buf)
      /\ builder \in Seq(Atoms) /\ buffer \in Seq(Positions)
      /\ Len(match_buf) < Len(sep)
  BY RunFacts DEF RInv
<1>1. /\ PartOfSep \/ WholeSep \/ NoSepInCode \/ NoSepInText \/ EndOfFile \/ UNCHANGED vars
      /\ inp' = inp /\ sep' = sep
  BY Branches DEF RInv, UInv
<1>2. UInv'
  BY StepUnescaped DEF RInv
<1>3. /\ Toggled /\ Meant(builder, buffer, Dealt)
      /\ code => buffer = <<>>
  BY DEF RInv, UInv, Pending
<1>4. ASSUME ReadChar
      PROVE  \E k, q \in Nat :
               /\ k = Len(sep) * q + Len(match_buf)
               /\ SepRunAt(pos + 1, IF inp[pos] = sep[1] THEN k + 1 ELSE 0)
  <2>1. PICK k, q \in Nat : SepRunAt(pos, k) /\ k = Len(sep) * q + Len(match_buf)
    BY <1>4 DEF RInv, RunLeft, ReadChar
  <2>. QED
    BY <1>0, <2>1, SepRunStep
<1>5. CASE PartOfSep
  <2>1. /\ ReadChar /\ match_buf' = Candidate /\ pos' = pos + 1 /\ BeginsSep
        /\ Len(Candidate) < Len(sep) /\ ~done /\ ~done' /\ code' = code
        /\ builder' = builder /\ buffer' = buffer
    BY <1>5 DEF PartOfSep, Match, ReadChar
  <2>2. Len(Candidate) = Len(match_buf) + 1
    BY <2>1, CandidateFacts DEF RInv, UInv, Pending
  <2>3. Dealt' = Dealt
    BY <1>0, <2>1, <2>2 DEF Dealt
  <2>4. RunLeft'
    <3>1. inp[pos] = sep[1]
      BY <2>1, BeginsIff
    <3>2. PICK k, q \in Nat : k = Len(sep) * q + Len(match_buf) /\ SepRunAt(pos + 1, k + 1)
      BY <1>4, <2>1, <3>1
    <3>3. k + 1 = Len(sep) * q + Len(Candidate)
      BY <1>0, <2>2, <3>2
    <3>4. SepRunAt(pos, k + 1)'
      BY <1>1, <2>1, <3>2, SameRuns DEF SepRunAt
    <3>. QED
      BY <1>1, <2>1, <3>3, <3>4 DEF RunLeft
  <2>5. Toggled'
    BY <1>1, <1>3, <2>1, <2>3, ToggledSame
  <2>6. Meant(builder, buffer, Dealt)'
    BY <1>1, <1>3, <2>1, <2>3, MeantFixed
  <2>. QED
    BY <1>1, <1>2, <2>1, <2>4, <2>5, <2>6 DEF RInv
<1>6. CASE WholeSep
  <2>. DEFINE b == builder \o <<Newline>>
  <2>1. /\ ReadChar /\ match_buf' = <<>> /\ pos' = pos + 1 /\ BeginsSep
        /\ Len(Candidate) = Len(sep) /\ ~done /\ ~done' /\ (code' <=> ~code)
        /\ builder' = b \o Literal(buffer) /\ buffer' = <<>>
    BY <1>6 DEF WholeSep, Match, ReadChar
  <2>2. inp[pos] = sep[1] /\ Len(match_buf) + 1 = Len(sep)
    BY <2>1, BeginsIff, CandidateFacts DEF RInv, UInv, Pending
  <2>3. Len(match_buf') = 0 /\ Dealt' = pos + 1 /\ (pos + 1) - Dealt = Len(sep)
    <3>1. Len(match_buf') = 0 /\ Dealt' = pos + 1
      BY <1>0, <2>1 DEF Dealt
    <3>2. pos \in Nat /\ Dealt \in Nat /\ Len(match_buf) \in Nat /\ Len(sep) \in Nat
          /\ pos = Dealt + Len(match_buf) /\ Len(match_buf) + 1 = Len(sep)
      BY <1>0, <2>2
    <3>3. (pos + 1) - Dealt = Len(sep)
      BY <3>2
    <3>. QED
      BY <3>1, <3>3
  <2>4. \A p \in Dealt .. pos : InDelimiter(p)
    BY <2>1, <2>2, Completed
  <2>5. /\ Cardinality(DelimitersTo(pos + 1)) =
             Cardinality(DelimitersTo(Dealt)) + ((pos + 1) - Dealt)
        /\ CodeMeant(pos + 1) = CodeMeant(Dealt)
        /\ TextMeant(pos + 1) = TextMeant(Dealt)
    <3>1. pos + 1 \in Nat /\ Dealt <= pos + 1 /\ (pos + 1) - 1 = pos
      BY <1>0
    <3>2. \A p \in Dealt .. (pos + 1) - 1 : InDelimiter(p)
      BY <2>4, <3>1
    <3>. QED
      BY <1>0, <3>1, <3>2, DelimiterAhead
  <2>6. RunLeft'
    <3>1. PICK k, q \in Nat : k = Len(sep) * q + Len(match_buf) /\ SepRunAt(pos + 1, k + 1)
      BY <1>4, <2>1, <2>2
    <3>2. k + 1 = Len(sep) * (q + 1) + 0 /\ k + 1 \in Nat /\ q + 1 \in Nat
      BY <1>0, <2>2, <3>1
    <3>3. SepRunAt(pos, k + 1)'
      BY <1>1, <2>1, <3>1, SameRuns DEF SepRunAt
    <3>. QED
      BY <1>1, <2>3, <3>2, <3>3 DEF RunLeft
  <2>7. Toggled'
    <3>1. PICK d \in Nat : /\ Cardinality(DelimitersTo(Dealt)) = Len(sep) * d
                           /\ code <=> d % 2 = 1
      BY <1>3 DEF Toggled
    <3>2. Cardinality(DelimitersTo(pos + 1)) = Len(sep) * (d + 1) /\ d + 1 \in Nat
      <4>1. Len(sep) * (d + 1) = Len(sep) * d + Len(sep)
        BY <1>0
      <4>. QED
        BY <2>3, <2>5, <3>1, <4>1
    <3>3. code' <=> (d + 1) % 2 = 1
      <4>1. (d + 1) % 2 = 1 <=> d % 2 # 1
        OBVIOUS
      <4>. QED
        BY <2>1, <3>1, <4>1
    <3>4. DelimitersTo(Dealt)' = DelimitersTo(pos + 1)
      BY <1>1, <2>3, SameRuns DEF DelimitersTo
    <3>. QED
      BY <1>1, <3>2, <3>3, <3>4 DEF Toggled
  <2>8. Meant(builder, buffer, Dealt)'
    <3>1. b \in Seq(Atoms) /\ CodeIn(b) = CodeIn(builder) /\ TextIn(b, buffer) = TextIn(builder, buffer)
      BY <1>0, PlaceNewline
    <3>. HIDE DEF b
    <3>2. Meant(b, buffer, pos + 1)
      BY <1>3, <2>5, <3>1 DEF Meant
    <3>3. Meant(builder', buffer', pos + 1)
      BY <1>0, <2>1, <3>1, <3>2, MeantFlush
    <3>. QED
      BY <1>1, <2>3, <3>3, MeantFixed
  <2>. QED
    BY <1>0, <1>1, <1>2, <2>1, <2>3, <2>6, <2>7, <2>8 DEF RInv
<1>7. CASE NoSepInCode \/ NoSepInText
  <2>1. /\ ReadChar /\ match_buf' = <<>> /\ pos' = pos + 1 /\ ~BeginsSep
        /\ ~done /\ ~done' /\ code' = code
    BY <1>7 DEF NoSepInCode, NoSepInText, Match, ReadChar
  <2>2. inp[pos] # sep[1]
    BY <2>1, BeginsIff
  <2>3. Len(match_buf') = 0 /\ Dealt' = pos + 1 /\ pos + 1 \in Nat /\ Dealt <= pos + 1
        /\ (pos + 1) - 1 = pos
    BY <1>0, <2>1 DEF Dealt
  <2>4. \A p \in Dealt .. (pos + 1) - 1 : ~InDelimiter(p)
    <3>1. ~InDelimiter(pos)
      BY <2>2 DEF InDelimiter
    <3>2. \A p \in Dealt .. pos - 1 : ~InDelimiter(p)
      BY <2>1, <2>2, LeftOver
    <3>. QED
      BY <1>0, <3>1, <3>2
  <2>5. Candidate \in Seq(Positions) /\ Elems(Candidate) = Dealt .. (pos + 1) - 1
    BY <2>1, <2>3, CandidateFacts DEF RInv, UInv, Pending
  <2>6. /\ Cardinality(DelimitersTo(pos + 1)) = Cardinality(DelimitersTo(Dealt))
        /\ code => Meant(builder \o Copies("code", Candidate), <<>>, pos + 1)
        /\ ~code => Meant(builder, buffer \o Candidate, pos + 1)
    BY <2>3, <2>4, <2>5, RunsCopied
  <2>7. Meant(builder', buffer', pos + 1)
    BY <1>3, <1>7, <2>6 DEF NoSepInCode, NoSepInText, CopyCode
  <2>8. Meant(builder, buffer, Dealt)'
    BY <1>1, <2>3, <2>7, MeantFixed
  <2>9. Toggled'
    BY <1>1, <1>3, <2>1, <2>3, <2>6, ToggledSame
  <2>10. RunLeft'
    <3>1. SepRunAt(pos + 1, 0)
      BY <1>4, <2>1, <2>2
    <3>2. 0 = Len(sep) * 0 + 0
      BY <1>0
    <3>3. SepRunAt(pos, 0)'
      BY <1>1, <2>1, <3>1, SameRuns DEF SepRunAt
    <3>. QED
      BY <1>1, <2>3, <3>2, <3>3 DEF RunLeft
  <2>. QED
    BY <1>0, <1>1, <1>2, <2>1, <2>3, <2>8, <2>9, <2>10 DEF RInv
<1>8. CASE EndOfFile
  <2>1. /\ match_buf' = <<>> /\ buffer' = <<>> /\ pos' = pos /\ done' /\ ~done
        /\ code' = code /\ Remainder = match_buf
    BY <1>0, <1>8 DEF EndOfFile, Remainder, RInv, UInv
  <2>2. pos = Len(inp) + 1
    BY <1>0, <1>8 DEF EndOfFile
  <2>3. Len(match_buf') = 0 /\ Dealt' = pos /\ pos \in Nat /\ Dealt <= pos
    BY <1>0, <2>1 DEF Dealt
  <2>4. \A p \in Dealt .. pos - 1 : ~InDelimiter(p)
    BY <2>1, <2>2, LeftOver
  <2>5. Elems(match_buf) = Dealt .. pos - 1
    BY PendingFacts DEF RInv, UInv, Pending
  <2>6. /\ Cardinality(DelimitersTo(pos)) = Cardinality(DelimitersTo(Dealt))
        /\ code => Meant(builder \o Copies("code", match_buf), <<>>, pos)
        /\ ~code => Meant(builder, buffer \o match_buf, pos)
    BY <1>0, <2>3, <2>4, <2>5, RunsCopied
  <2>7. Meant(builder', buffer', pos)
    <3>1. CASE code
      <4>. DEFINE b == builder \o Copies("code", match_buf)
      <4>1. builder' = b \o Literal(<<>>)
        BY <1>3, <1>8, <2>1, <3>1 DEF EndOfFile
      <4>2. b \in Seq(Atoms) /\ <<>> \in Seq(Positions)
        BY <1>0, PlaceCode
      <4>3. Meant(b, <<>>, pos)
        BY <2>6, <3>1
      <4>. HIDE DEF b
      <4>4. Meant(b \o Literal(<<>>), <<>>, pos)
        BY <4>2, <4>3, MeantFlush
      <4>. QED
        BY <2>1, <4>1, <4>4
    <3>2. CASE ~code
      <4>. DEFINE t == buffer \o match_buf
      <4>1. builder' = builder \o <<>> \o Literal(t) /\ builder \o <<>> = builder
        BY <1>0, <1>8, <2>1, <3>2 DEF EndOfFile
      <4>2. t \in Seq(Positions)
        BY <1>0
      <4>3. Meant(builder, t, pos)
        BY <2>6, <3>2
      <4>. HIDE DEF t
      <4>4. Meant(builder \o Literal(t), <<>>, pos)
        BY <1>0, <4>2, <4>3, MeantFlush
      <4>. QED
        BY <2>1, <4>1, <4>4
    <3>. QED
      BY <3>1, <3>2
  <2>8. Meant(builder, buffer, Dealt)'
    BY <1>1, <2>3, <2>7, MeantFixed
  <2>9. Toggled'
    BY <1>1, <1>3, <2>1, <2>3, <2>6, ToggledSame
  <2>. QED
    BY <1>0, <1>1, <1>2, <2>1, <2>2, <2>3, <2>8, <2>9 DEF RInv
<1>9. CASE UNCHANGED vars
  <2>1. Dealt' = Dealt /\ builder' = builder /\ buffer' = buffer /\ match_buf' = match_buf
        /\ code' = code /\ pos' = pos /\ done' = done
    BY <1>9 DEF vars, Dealt
  <2>2. Toggled' /\ Meant(builder, buffer, Dealt)'
    BY <1>1, <1>3, <2>1, ToggledSame, MeantFixed
  <2>3. RunLeft' <=> RunLeft
    BY <1>1, <2>1, SameRuns DEF RunLeft, SepRunAt
  <2>. QED
    BY <1>1, <1>2, <2>1, <2>2, <2>3 DEF RInv
<1>. QED
  BY <1>1, <1>5, <1>6, <1>7, <1>8, <1>9

LEMMA InitRuns ==
  ASSUME RepeatsOneCharacter, Init
  PROVE  RInv
<1>1. UInv
  BY InitUnescaped
<1>2. /\ pos = 1 /\ match_buf = <<>> /\ buffer = <<>> /\ builder = <<>> /\ ~done /\ ~code
  BY Zenon DEF Init
<1>3. Len(sep) \in Nat \ {0} /\ Len(match_buf) = 0 /\ Dealt = 1
  <2>1. sep \in Seq(STRING) /\ sep # <<>>
    BY SepsAssumption DEF Init, RepeatsOneCharacter
  <2>. QED
    BY <1>2, <2>1 DEF Dealt
<1>4. RunLeft
  <2>1. SepRunAt(pos, 0)
    BY <1>2 DEF SepRunAt
  <2>2. 0 = Len(sep) * 0 + Len(match_buf)
    BY <1>3
  <2>. QED
    BY <2>1, <2>2 DEF RunLeft
<1>5. Toggled
  <2>1. DelimitersTo(Dealt) = {}
    BY <1>3 DEF DelimitersTo
  <2>2. Cardinality(DelimitersTo(Dealt)) = Len(sep) * 0 /\ ~(0 % 2 = 1)
    BY <1>3, <2>1, FS_EmptySet
  <2>. QED
    BY <1>2, <2>2 DEF Toggled
<1>6. Meant(builder, buffer, Dealt)
  BY <1>2, <1>3 DEF Meant, CodeIn, TextIn, In, CodeMeant, TextMeant
<1>. QED
  BY <1>1, <1>2, <1>3, <1>4, <1>5, <1>6 DEF RInv

LEMMA RunsInvariance == Spec => [](RepeatsOneCharacter /\ NoEscapes => RInv)
<1>. DEFINE I == RepeatsOneCharacter /\ NoEscapes => RInv
<1>1. Init => I
  BY InitRuns
<1>2. I /\ [Next]_vars => I'
  <2>. SUFFICES ASSUME I, [Next]_vars PROVE I'
    OBVIOUS
  <2>1. inp' = inp /\ sep' = sep
    BY SepFixed DEF Next, EscapedInCode, LineContinuation, EscapedInText, Backslash, PartOfSep,
       WholeSep, NoSepInCode, NoSepInText, EndOfFile, vars
  <2>2. (NoEscapes' <=> NoEscapes) /\ (RepeatsOneCharacter' <=> RepeatsOneCharacter)
    BY <2>1 DEF NoEscapes, Positions, RepeatsOneCharacter
  <2>3. ASSUME RepeatsOneCharacter, NoEscapes PROVE RInv'
    BY <2>3, StepRuns
  <2>. QED
    BY <2>2, <2>3
<1>. QED
  BY <1>1, <1>2, PTL DEF Spec

\* The three buffers, one after the other, are in order.
LEMMA WholeInOrder ==
  ASSUME TInv, NEW f \in Nat, Ordered(builder, buffer, f), Climbs(match_buf),
         \A n \in 1 .. Len(match_buf) : f <= match_buf[n]
  PROVE  InOrder
<1>. DEFINE C == Copies("text", buffer)
            D == Copies("text", match_buf)
<1>1. builder \in Seq(Atoms) /\ buffer \in Seq(Positions) /\ match_buf \in Seq(Positions)
  BY DEF TInv, TypeOK, Atoms
<1>2. /\ C \in Seq(Atoms) /\ Len(C) = Len(buffer)
      /\ \A n \in 1 .. Len(C) : C[n].at = buffer[n] /\ buffer[n] \in Positions
  BY <1>1, CopiesType, CopiesAt DEF Kinds
<1>3. /\ D \in Seq(Atoms) /\ Len(D) = Len(match_buf)
      /\ \A n \in 1 .. Len(D) : D[n].at = match_buf[n] /\ match_buf[n] \in Positions
  BY <1>1, CopiesType, CopiesAt DEF Kinds
<1>4. Whole = (builder \o C) \o D
  BY DEF Whole
<1>. HIDE DEF C, D
<1>. DEFINE b == builder \o C
<1>5. b \in Seq(Atoms) /\ Rising(b)
  <2>1. Rising(C)
    BY <1>2 DEF Rising, Ordered, Climbs
  <2>2. \A m \in 1 .. Len(builder) : \A n \in 1 .. Len(C) :
          IsCopy(builder[m]) /\ IsCopy(C[n]) => builder[m].at < C[n].at
    BY <1>2 DEF Ordered
  <2>. QED
    BY <1>1, <1>2, <2>1, <2>2, RisingConcat DEF Ordered
<1>6. \A m \in 1 .. Len(b) : IsCopy(b[m]) => b[m].at \in Positions /\ b[m].at < f
  <2>1. ASSUME NEW m \in 1 .. Len(b), IsCopy(b[m])
        PROVE  b[m].at \in Positions /\ b[m].at < f
    <3>0. builder \in Seq(Atoms) /\ C \in Seq(Atoms)
      BY <1>1, <1>2
    <3>1. Len(b) = Len(builder) + Len(C) /\ Len(builder) \in Nat /\ Len(C) \in Nat
      BY <3>0
    <3>2. CASE m <= Len(builder)
      <4>1. b[m] = builder[m] /\ m \in 1 .. Len(builder)
        BY <1>1, <1>2, <3>1, <3>2
      <4>. QED
        BY <2>1, <4>1 DEF Ordered
    <3>3. CASE m > Len(builder)
      <4>1. b[m] = C[m - Len(builder)] /\ m - Len(builder) \in 1 .. Len(C)
        BY <1>1, <1>2, <3>1, <3>3
      <4>. QED
        BY <1>2, <4>1 DEF Ordered
    <3>. QED
      BY <3>1, <3>2, <3>3
  <2>. QED
    BY <2>1
<1>. HIDE DEF b
<1>7. Rising(b \o D)
  <2>1. Rising(D)
    BY <1>3 DEF Rising, Climbs
  <2>2. \A m \in 1 .. Len(b) : \A n \in 1 .. Len(D) :
          IsCopy(b[m]) /\ IsCopy(D[n]) => b[m].at < D[n].at
    BY <1>3, <1>6 DEF Positions
  <2>. QED
    BY <1>3, <1>5, <2>1, <2>2, RisingConcat
<1>. QED
  BY <1>4, <1>7 DEF InOrder, Rising, b

\* For every template and every delimiter of one character, and for every
\* delimiter if there is no '\' in the template, the loop of tmg_expand never
\* reorders or repeats a character on its way through match_buf, buffer and
\* builder (main.c 215-284).
THEOREM ScanOrderKept == Spec => []OrderKept
<1>1. ASSUME SInv PROVE InOrder
  <2>1. /\ match_buf = <<>> /\ Ordered(builder, buffer, Front) /\ TInv
    BY <1>1 DEF SInv, Quiet, Placed
  <2>2. Front \in Nat
    BY <2>1 DEF Front, TInv, TypeOK
  <2>. QED
    BY <2>1, <2>2, WholeInOrder DEF Climbs
<1>2. ASSUME UInv PROVE InOrder
  <2>1. /\ TInv /\ Ordered(builder, buffer, Dealt) /\ Dealt \in Nat /\ Climbs(match_buf)
        /\ \A n \in 1 .. Len(match_buf) : Dealt <= match_buf[n]
    BY <1>2, PendingFacts DEF UInv, Pending
  <2>. QED
    BY <2>1, WholeInOrder
<1>3. (PlainDelimiter => SInv) /\ (NoEscapes => UInv) => OrderKept
  BY <1>1, <1>2 DEF OrderKept
<1>. QED
  BY <1>3, PlainInvariance, UnescapedInvariance, PTL

\* For every template without a '\' and every delimiter that repeats one
\* character, the loop of tmg_expand cuts each run of that character into
\* delimiters from its beginning on, copies what is left of it, and gives all
\* characters the mode the delimiters before them have set
\* (main.c 242-268, 277-284).
THEOREM ScanSplitAtRuns == Spec => []SplitAtRuns
<1>1. ASSUME RInv, done
      PROVE  /\ InOrder
             /\ {a \in {builder[n] : n \in 1 .. Len(builder)} : IsCopy(a)} =
                {Atom(IF DelimitersBefore(p) % 2 = 1 THEN "code" ELSE "text", p) :
                   p \in {q \in Positions : ~InDelimiter(q)}}
  <2>1. /\ TInv /\ Ordered(builder, buffer, Dealt) /\ Dealt \in Nat /\ Climbs(match_buf)
        /\ \A n \in 1 .. Len(match_buf) : Dealt <= match_buf[n]
        /\ buffer = <<>> /\ match_buf = <<>> /\ Dealt = pos - Len(match_buf)
        /\ pos = Len(inp) + 1 /\ Len(inp) \in Nat /\ builder \in Seq(Atoms)
    BY <1>1, PendingFacts DEF RInv, UInv, Pending, Dealt, TInv, TypeOK, Atoms
  <2>2. InOrder
    BY <2>1, WholeInOrder
  <2>3. 1 .. Dealt - 1 = Positions
    BY <2>1 DEF Positions
  <2>. DEFINE odd(p) == DelimitersBefore(p) % 2 = 1
              mode(p) == IF odd(p) THEN "code" ELSE "text"
  <2>4. /\ \A p \in Positions : In(builder, Atom("code", p)) <=> ~InDelimiter(p) /\ odd(p)
        /\ \A p \in Positions : In(builder, Atom("text", p)) <=> ~InDelimiter(p) /\ ~odd(p)
    <3>1. \A p : ~In(buffer, p)
      BY <2>1 DEF In
    <3>. QED
      BY <1>1, <2>3, <3>1 DEF RInv, Meant, CodeIn, TextIn, CodeMeant, TextMeant
  <2>. HIDE DEF odd
  <2>5. ASSUME NEW n \in 1 .. Len(builder), IsCopy(builder[n])
        PROVE  builder[n] \in {Atom(mode(p), p) : p \in {q \in Positions : ~InDelimiter(q)}}
    <3>. DEFINE a == builder[n]
    <3>1. a \in Atoms /\ a.at \in Positions /\ a.kind \in {"code", "text"}
      BY <2>1, <2>5 DEF Ordered, IsCopy
    <3>2. a = Atom(a.kind, a.at) /\ In(builder, a)
      BY <3>1 DEF Atoms, Atom, In
    <3>3. ~InDelimiter(a.at) /\ mode(a.at) = a.kind
      BY <2>4, <3>1, <3>2
    <3>. QED
      BY <3>1, <3>2, <3>3
  <2>6. ASSUME NEW p \in Positions, ~InDelimiter(p)
        PROVE  In(builder, Atom(mode(p), p)) /\ IsCopy(Atom(mode(p), p))
    BY <2>4, <2>6 DEF IsCopy, Atom
  <2>7. {a \in {builder[n] : n \in 1 .. Len(builder)} : IsCopy(a)} =
        {Atom(mode(p), p) : p \in {q \in Positions : ~InDelimiter(q)}}
    BY <2>5, <2>6 DEF In
  <2>. QED
    BY <2>2, <2>7 DEF odd
<1>2. (RepeatsOneCharacter /\ NoEscapes => RInv) => SplitAtRuns
  BY <1>1 DEF SplitAtRuns
<1>. QED
  BY <1>2, RunsInvariance, PTL
----------------------------------------------------------------------------
(* Lines of the chunk.                                                     *)

OwnLine(b) ==
  \A n \in 2 .. Len(b) : b[n].kind = "open" => EndsLine(b[n - 1])

LineEnded(b) == b = <<>> \/ EndsLine(b[Len(b)])

LEMMA OwnLineConcat ==
  ASSUME NEW b \in Seq(Atoms), NEW c \in Seq(Atoms), OwnLine(b), OwnLine(c),
         c = <<>> \/ c[1].kind # "open" \/ LineEnded(b)
  PROVE  b \o c \in Seq(Atoms) /\ OwnLine(b \o c)
<1>. DEFINE d == b \o c
<1>0. /\ Len(b) \in Nat /\ Len(c) \in Nat /\ Len(d) = Len(b) + Len(c) /\ d \in Seq(Atoms)
      /\ \A n \in 1 .. Len(b) : d[n] = b[n]
      /\ \A n \in 1 .. Len(c) : d[Len(b) + n] = c[n]
  OBVIOUS
<1>. HIDE DEF d
<1>1. ASSUME NEW n \in 2 .. Len(d), d[n].kind = "open" PROVE EndsLine(d[n - 1])
  <2>1. CASE n <= Len(b)
    <3>1. n \in 2 .. Len(b) /\ n \in 1 .. Len(b) /\ n - 1 \in 1 .. Len(b)
      BY <1>0, <2>1
    <3>2. d[n] = b[n] /\ d[n - 1] = b[n - 1]
      BY <1>0, <3>1
    <3>. QED
      BY <1>1, <3>1, <3>2 DEF OwnLine
  <2>2. CASE n = Len(b) + 1
    <3>1. Len(b) \in 1 .. Len(b) /\ 1 \in 1 .. Len(c) /\ n - 1 = Len(b)
      BY <1>0, <2>2
    <3>2. d[n] = c[1] /\ d[n - 1] = b[Len(b)] /\ c # <<>> /\ b # <<>>
      BY <1>0, <2>2, <3>1
    <3>. QED
      BY <1>1, <3>2 DEF LineEnded
  <2>3. CASE n > Len(b) + 1
    <3>. DEFINE k == n - Len(b)
    <3>1. k \in 2 .. Len(c) /\ k - 1 \in 1 .. Len(c) /\ k \in 1 .. Len(c)
          /\ n = Len(b) + k /\ n - 1 = Len(b) + (k - 1)
      BY <1>0, <2>3
    <3>. HIDE DEF k
    <3>2. d[n] = c[k] /\ d[n - 1] = c[k - 1]
      BY <1>0, <3>1
    <3>. QED
      BY <1>1, <3>1, <3>2 DEF OwnLine
  <2>. QED
    BY <1>0, <2>1, <2>2, <2>3
<1>. QED
  BY <1>0, <1>1 DEF OwnLine, d

LEMMA OwnLineCopies ==
  ASSUME NEW ps \in Seq(Positions), NEW k \in {"code", "text"}
  PROVE  /\ Copies(k, ps) \in Seq(Atoms) /\ OwnLine(Copies(k, ps))
         /\ Copies(k, ps) # <<>> => Copies(k, ps)[1].kind # "open"
<1>. DEFINE C == Copies(k, ps)
<1>1. C \in Seq(Atoms) /\ Len(C) = Len(ps) /\ \A n \in 1 .. Len(ps) : C[n] = Atom(k, ps[n])
  BY CopiesType DEF Kinds
<1>2. \A q : Atom(k, q).kind # "open"
  BY DEF Atom
<1>. HIDE DEF C
<1>3. \A n \in 1 .. Len(C) : C[n].kind # "open"
  BY <1>1, <1>2
<1>. QED
  BY <1>1, <1>3 DEF OwnLine, C

LEMMA OwnLineAtom ==
  ASSUME NEW a \in Atoms
  PROVE  <<a>> \in Seq(Atoms) /\ OwnLine(<<a>>)
BY DEF OwnLine

\* What a delimiter, and the end of the text, write.
LEMMA OwnLineLiteral ==
  ASSUME NEW b \in Seq(Atoms), NEW ps \in Seq(Positions), OwnLine(b), LineEnded(b)
  PROVE  OwnLine(b \o Literal(ps)) /\ LineEnded(b \o Literal(ps))
<1>1. CASE ps = <<>>
  <2>1. b \o Literal(ps) = b
    BY <1>1 DEF Literal
  <2>. QED
    BY <2>1
<1>2. CASE ps # <<>>
  <2>. DEFINE C == Copies("text", ps)
              o == b \o <<Open>>
              oC == o \o C
  <2>1. o \in Seq(Atoms) /\ OwnLine(o)
    BY AddedType, OwnLineAtom, OwnLineConcat
  <2>. HIDE DEF o
  <2>2. C \in Seq(Atoms) /\ OwnLine(C) /\ (C # <<>> => C[1].kind # "open")
    BY OwnLineCopies
  <2>. HIDE DEF C
  <2>3. oC \in Seq(Atoms) /\ OwnLine(oC)
    BY <2>1, <2>2, OwnLineConcat
  <2>. HIDE DEF oC
  <2>4. <<Close>>[1].kind # "open" /\ EndsLine(Close)
    BY DEF Close, Atom, EndsLine
  <2>5. oC \o <<Close>> \in Seq(Atoms) /\ OwnLine(oC \o <<Close>>)
    BY <2>3, <2>4, AddedType, OwnLineAtom, OwnLineConcat
  <2>6. LineEnded(oC \o <<Close>>)
    <3>1. Len(oC \o <<Close>>) = Len(oC) + 1 /\ (oC \o <<Close>>)[Len(oC) + 1] = Close
      BY <2>3, AddedType
    <3>. QED
      BY <2>4, <3>1 DEF LineEnded
  <2>7. oC \o <<Close>> = b \o Literal(ps)
    <3>1. Literal(ps) = (<<Open>> \o C) \o <<Close>>
      BY <1>2 DEF Literal, C
    <3>2. <<Open>> \in Seq(Atoms) /\ <<Close>> \in Seq(Atoms)
      BY AddedType
    <3>3. (b \o <<Open>>) \o C = b \o (<<Open>> \o C)
      BY <2>2, <3>2
    <3>4. (b \o (<<Open>> \o C)) \o <<Close>> = b \o ((<<Open>> \o C) \o <<Close>>)
      BY <2>2, <3>2
    <3>. QED
      BY <3>1, <3>3, <3>4 DEF o, oC
  <2>. QED
    BY <2>5, <2>6, <2>7
<1>. QED
  BY <1>1, <1>2

\* Text mode begins at the beginning of a line, and adds nothing to the chunk.
LineInv ==
  /\ OwnLine(builder)
  /\ code => buffer = <<>>
  /\ ~code /\ ~done => LineEnded(builder)

LEMMA LineSame ==
  ASSUME LineInv, inp' = inp, builder' = builder, code' = code, done' = done,
         code => buffer' = buffer
  PROVE  LineInv'
<1>1. OwnLine(builder)' = OwnLine(builder) /\ LineEnded(builder)' = LineEnded(builder)
  BY DEF OwnLine, LineEnded, EndsLine
<1>. QED
  BY <1>1 DEF LineInv

LEMMA LineCode ==
  ASSUME TInv, LineInv, code, inp' = inp, NEW ps \in Seq(Positions),
         builder' = builder \o Copies("code", ps), code' = code, buffer' = buffer
  PROVE  LineInv'
<1>1. OwnLine(builder \o Copies("code", ps))
  <2>1. builder \in Seq(Atoms)
    BY DEF TInv, TypeOK, Atoms
  <2>. QED
    BY <2>1, OwnLineCopies, OwnLineConcat DEF LineInv
<1>2. OwnLine(builder)'
  <2>1. \A b : OwnLine(b)' <=> OwnLine(b)
    BY DEF OwnLine, EndsLine
  <2>2. OwnLine(builder')
    BY <1>1
  <2>. QED
    BY <2>2 DEF OwnLine, EndsLine
<1>. QED
  BY <1>2 DEF LineInv

LEMMA StepLines ==
  ASSUME TInv, LineInv, [Next]_vars
  PROVE  LineInv'
<1>0. builder \in Seq(Atoms) /\ buffer \in Seq(Positions) /\ match_buf \in Seq(Positions)
  BY DEF TInv, TypeOK, Atoms
<1>1. CASE EscapedInCode
  <2>1. ReadChar /\ escape_next /\ code /\ inp' = inp /\ CopyCode(Escaped, cur_line')
        /\ code' = code /\ buffer' = buffer
    BY <1>1 DEF EscapedInCode
  <2>. QED
    BY <2>1, ReadType, LineCode DEF CopyCode
<1>2. CASE LineContinuation \/ Backslash \/ PartOfSep
  BY <1>2, LineSame DEF LineContinuation, Backslash, PartOfSep
<1>3. CASE EscapedInText \/ NoSepInText
  BY <1>3, LineSame DEF EscapedInText, NoSepInText
<1>4. CASE WholeSep
  <2>. DEFINE b == builder \o <<Newline>>
  <2>1. b \in Seq(Atoms) /\ OwnLine(b) /\ LineEnded(b)
    <3>1. <<Newline>>[1].kind # "open" /\ EndsLine(Newline)
      BY DEF Newline, Atom, EndsLine
    <3>2. b \in Seq(Atoms) /\ OwnLine(b)
      BY <1>0, <3>1, AddedType, OwnLineAtom, OwnLineConcat DEF LineInv
    <3>3. Len(b) = Len(builder) + 1 /\ b[Len(builder) + 1] = Newline
      BY <1>0, AddedType
    <3>. QED
      BY <3>1, <3>2, <3>3 DEF LineEnded
  <2>2. builder' = b \o Literal(buffer) /\ buffer' = <<>> /\ inp' = inp
    BY <1>4 DEF WholeSep
  <2>. HIDE DEF b
  <2>3. OwnLine(b \o Literal(buffer)) /\ LineEnded(b \o Literal(buffer))
    BY <1>0, <2>1, OwnLineLiteral
  <2>4. OwnLine(builder)' /\ LineEnded(builder)'
    BY <2>2, <2>3 DEF OwnLine, LineEnded, EndsLine
  <2>. QED
    BY <2>2, <2>4 DEF LineInv
<1>5. CASE NoSepInCode
  <2>1. ReadChar /\ code /\ inp' = inp /\ CopyCode(Candidate, cur_line')
        /\ code' = code /\ buffer' = buffer
    BY <1>5 DEF NoSepInCode, Match
  <2>. QED
    BY <2>1, ReadType, LineCode DEF CopyCode
<1>6. CASE EndOfFile
  <2>1. inp' = inp /\ done' /\ buffer' = <<>> /\ ~done
    BY <1>6 DEF EndOfFile
  <2>2. Remainder \in Seq(Positions)
    <3>1. escape_next => pos - 1 \in Positions
      BY InpIsSeq DEF TInv, TypeOK, Positions
    <3>. QED
      BY <3>1 DEF Remainder, TInv, TypeOK
  <2>3. CASE code
    <3>1. builder' = builder \o Copies("code", Remainder) \o Literal(<<>>)
      BY <1>6, <2>3 DEF EndOfFile, LineInv
    <3>2. OwnLine(builder \o Copies("code", Remainder))
      BY <1>0, <2>2, OwnLineCopies, OwnLineConcat DEF LineInv
    <3>3. builder' = builder \o Copies("code", Remainder)
      BY <1>0, <2>2, <3>1, OwnLineCopies DEF Literal
    <3>4. OwnLine(builder)'
      BY <2>1, <3>2, <3>3 DEF OwnLine, EndsLine
    <3>. QED
      BY <2>1, <3>4 DEF LineInv
  <2>4. CASE ~code
    <3>. DEFINE t == buffer \o Remainder
    <3>1. builder' = builder \o <<>> \o Literal(t)
      BY <1>6, <2>4 DEF EndOfFile
    <3>2. t \in Seq(Positions)
      BY <1>0, <2>2
    <3>. HIDE DEF t
    <3>3. builder' = builder \o Literal(t)
      BY <1>0, <3>1
    <3>4. OwnLine(builder \o Literal(t))
      BY <1>0, <2>1, <2>4, <3>2, OwnLineLiteral DEF LineInv
    <3>5. OwnLine(builder)'
      BY <2>1, <3>3, <3>4 DEF OwnLine, EndsLine
    <3>. QED
      BY <2>1, <3>5 DEF LineInv
  <2>. QED
    BY <2>3, <2>4
<1>7. CASE UNCHANGED vars
  BY <1>7, LineSame DEF vars
<1>. QED
  BY <1>1, <1>2, <1>3, <1>4, <1>5, <1>6, <1>7 DEF Next

\* For every template and every delimiter, a print statement begins a line of
\* the chunk: the code before it cannot swallow it (main.c 247-255, 270-284).
THEOREM ScanOwnLine == Spec => []PrintsOnTheirOwnLine
<1>1. Init => LineInv
  BY DEF Init, LineInv, OwnLine, LineEnded
<1>2. TInv /\ LineInv /\ [Next]_vars => LineInv'
  BY StepLines
<1>3. LineInv => PrintsOnTheirOwnLine
  BY DEF LineInv, OwnLine, PrintsOnTheirOwnLine
<1>. QED
  BY <1>1, <1>2, <1>3, TypeInvariance, PTL DEF Spec

----------------------------------------------------------------------------
(* The line map.                                                           *)

\* The atoms of b that end a line, and how many they are.
EndsIn(b) == {m \in 1 .. Len(b) : EndsLine(b[m])}

Ends(b) == Cardinality(EndsIn(b))

LEMMA EndsType ==
  ASSUME NEW b \in Seq(Atoms)
  PROVE  IsFiniteSet(EndsIn(b)) /\ Ends(b) \in Nat
<1>1. IsFiniteSet(1 .. Len(b)) /\ EndsIn(b) \in SUBSET (1 .. Len(b))
  BY FS_Interval DEF EndsIn
<1>2. IsFiniteSet(EndsIn(b))
  BY <1>1, FS_Subset
<1>. QED
  BY <1>2, FS_CardinalityType DEF Ends

LEMMA ShiftCount ==
  ASSUME NEW T \in SUBSET Nat, IsFiniteSet(T), NEW k \in Nat
  PROVE  IsFiniteSet({k + m : m \in T}) /\ Cardinality({k + m : m \in T}) = Cardinality(T)
<1>. DEFINE U == {k + m : m \in T}
            g == [m \in T |-> k + m]
<1>1. g \in Bijection(T, U)
  <2>1. g \in [T -> U]
    OBVIOUS
  <2>2. \A m, n \in T : g[m] = g[n] => m = n
    OBVIOUS
  <2>3. \A u \in U : \E m \in T : g[m] = u
    OBVIOUS
  <2>. HIDE DEF g, U
  <2>. QED
    BY <2>1, <2>2, <2>3, Zenon DEF Bijection, Injection, Surjection, IsInjective
<1>2. ExistsBijection(T, U)
  <2>. HIDE DEF g, U
  <2>. QED
    BY <1>1 DEF ExistsBijection
<1>. HIDE DEF g, U
<1>3. IsFiniteSet(U) /\ Cardinality(U) = Cardinality(T)
  BY <1>2, FS_Bijection
<1>. QED
  BY <1>3 DEF U

LEMMA EndsConcat ==
  ASSUME NEW b \in Seq(Atoms), NEW c \in Seq(Atoms)
  PROVE  b \o c \in Seq(Atoms) /\ Ends(b \o c) = Ends(b) + Ends(c)
<1>. DEFINE d == b \o c
            k == Len(b)
            U == {k + m : m \in EndsIn(c)}
<1>0. /\ k \in Nat /\ Len(c) \in Nat /\ Len(d) = k + Len(c) /\ d \in Seq(Atoms)
      /\ \A n \in 1 .. k : d[n] = b[n]
      /\ \A n \in 1 .. Len(c) : d[k + n] = c[n]
  OBVIOUS
<1>1. EndsIn(b) \subseteq 1 .. k /\ EndsIn(c) \subseteq 1 .. Len(c)
  BY DEF EndsIn
<1>. HIDE DEF d, k
<1>2. IsFiniteSet(U) /\ Cardinality(U) = Ends(c)
  <2>1. EndsIn(c) \in SUBSET Nat /\ IsFiniteSet(EndsIn(c))
    BY <1>1, EndsType
  <2>. QED
    BY <1>0, <2>1, ShiftCount DEF Ends
<1>3. EndsIn(d) = EndsIn(b) \cup U
  <2>1. ASSUME NEW n \in EndsIn(d) PROVE n \in EndsIn(b) \cup U
    <3>1. n \in 1 .. Len(d) /\ EndsLine(d[n])
      BY <2>1 DEF EndsIn
    <3>2. CASE n <= k
      <4>1. n \in 1 .. Len(b) /\ EndsLine(b[n])
        BY <1>0, <3>1, <3>2 DEF k
      <4>. QED
        BY <4>1 DEF EndsIn
    <3>3. CASE n > k
      <4>1. n - k \in 1 .. Len(c) /\ n = k + (n - k)
        BY <1>0, <3>1, <3>3
      <4>2. EndsLine(c[n - k])
        BY <1>0, <3>1, <4>1
      <4>3. n - k \in EndsIn(c)
        BY <4>1, <4>2 DEF EndsIn
      <4>. QED
        BY <4>1, <4>3
    <3>. QED
      BY <1>0, <3>1, <3>2, <3>3
  <2>2. ASSUME NEW n \in EndsIn(b) PROVE n \in EndsIn(d)
    <3>1. n \in 1 .. k /\ EndsLine(b[n])
      BY <2>2 DEF EndsIn, k
    <3>2. n \in 1 .. Len(d) /\ EndsLine(d[n])
      BY <1>0, <3>1
    <3>. QED
      BY <3>2 DEF EndsIn
  <2>3. ASSUME NEW m \in EndsIn(c) PROVE k + m \in EndsIn(d)
    <3>1. m \in 1 .. Len(c) /\ EndsLine(c[m])
      BY <2>3 DEF EndsIn
    <3>2. k + m \in 1 .. Len(d) /\ EndsLine(d[k + m])
      BY <1>0, <3>1
    <3>. QED
      BY <3>2 DEF EndsIn
  <2>. HIDE DEF EndsIn
  <2>. QED
    BY <2>1, <2>2, <2>3
<1>4. EndsIn(b) \cap U = {}
  <2>1. \A m \in EndsIn(c) : k + m \notin 1 .. k
    BY <1>0, <1>1
  <2>. QED
    BY <1>1, <2>1
<1>5. Cardinality(EndsIn(d)) = Cardinality(EndsIn(b)) + Cardinality(U)
  <2>1. IsFiniteSet(EndsIn(b)) /\ Ends(b) \in Nat /\ Ends(c) \in Nat
    BY EndsType
  <2>. HIDE DEF U
  <2>2. Cardinality(EndsIn(b) \cup U)
          = Cardinality(EndsIn(b)) + Cardinality(U) - Cardinality(EndsIn(b) \cap U)
    BY <1>2, <2>1, FS_Union
  <2>3. Cardinality(EndsIn(b) \cap U) = 0
    BY <1>4, FS_EmptySet
  <2>. QED
    BY <1>2, <1>3, <2>1, <2>2, <2>3 DEF Ends
<1>. QED
  BY <1>0, <1>2, <1>5 DEF Ends, d

LEMMA EndsCopies ==
  ASSUME NEW ps \in Seq(Positions), NEW k \in {"code", "text"}
  PROVE  Copies(k, ps) \in Seq(Atoms) /\ Ends(Copies(k, ps)) = Breaks(ps)
<1>. DEFINE C == Copies(k, ps)
<1>1. C \in Seq(Atoms) /\ Len(C) = Len(ps) /\ \A n \in 1 .. Len(ps) : C[n] = Atom(k, ps[n])
  BY CopiesType DEF Kinds
<1>2. \A q : EndsLine(Atom(k, q)) <=> inp[q] = "\n"
  BY DEF Atom, EndsLine, IsCopy
<1>. HIDE DEF C
<1>3. \A n \in 1 .. Len(ps) : EndsLine(C[n]) <=> inp[ps[n]] = "\n"
  BY <1>1, <1>2
<1>4. EndsIn(C) = {n \in 1 .. Len(ps) : inp[ps[n]] = "\n"}
  BY <1>1, <1>3, Zenon DEF EndsIn
<1>. QED
  BY <1>1, <1>4, Zenon DEF Ends, Breaks, C

LEMMA EndsAtom ==
  ASSUME NEW a \in Atoms
  PROVE  <<a>> \in Seq(Atoms) /\ Ends(<<a>>) = IF EndsLine(a) THEN 1 ELSE 0
<1>1. Len(<<a>>) = 1 /\ <<a>>[1] = a /\ <<a>> \in Seq(Atoms)
  OBVIOUS
<1>2. EndsIn(<<a>>) = IF EndsLine(a) THEN {1} ELSE {}
  <2>1. 1 .. Len(<<a>>) = {1}
    BY <1>1
  <2>2. \A m \in 1 .. Len(<<a>>) : EndsLine(<<a>>[m]) <=> EndsLine(a)
    BY <1>1, <2>1
  <2>3. EndsIn(<<a>>) = {m \in {1} : EndsLine(a)}
    BY <2>1, <2>2, Zenon DEF EndsIn
  <2>. QED
    BY <2>3
<1>. QED
  BY <1>1, <1>2, FS_EmptySet, FS_Singleton DEF Ends

LEMMA EndsLiteral ==
  ASSUME NEW ps \in Seq(Positions)
  PROVE  /\ Literal(ps) \in Seq(Atoms) /\ Ends(Literal(ps)) = LiteralBreaks(ps)
         /\ \A n \in 1 .. Len(Literal(ps)) : Literal(ps)[n].kind # "code"
<1>1. CASE ps = <<>>
  <2>1. EndsIn(<<>>) = {}
    BY DEF EndsIn
  <2>2. Ends(<<>>) = 0
    BY <2>1, FS_EmptySet DEF Ends
  <2>. QED
    BY <1>1, <2>2 DEF Literal, LiteralBreaks
<1>2. CASE ps # <<>>
  <2>. DEFINE C == Copies("text", ps)
  <2>1. C \in Seq(Atoms) /\ Ends(C) = Breaks(ps) /\ Breaks(ps) \in Nat
    BY EndsCopies, BreaksType
  <2>2. \A n \in 1 .. Len(C) : C[n].kind # "code"
    <3>1. Len(C) = Len(ps) /\ \A n \in 1 .. Len(ps) : C[n] = Atom("text", ps[n])
      BY CopiesType DEF Kinds
    <3>2. \A q : Atom("text", q).kind # "code"
      BY DEF Atom
    <3>. HIDE DEF C
    <3>. QED
      BY <3>1, <3>2
  <2>. HIDE DEF C
  <2>3. ~EndsLine(Open) /\ EndsLine(Close) /\ Open.kind # "code" /\ Close.kind # "code"
    BY DEF Open, Close, Atom, EndsLine, IsCopy
  <2>4. /\ <<Open>> \in Seq(Atoms) /\ Ends(<<Open>>) = 0
        /\ <<Close>> \in Seq(Atoms) /\ Ends(<<Close>>) = 1
    BY <2>3, AddedType, EndsAtom
  <2>5. <<Open>> \o C \in Seq(Atoms) /\ Ends(<<Open>> \o C) = Breaks(ps)
    <3>1. /\ <<Open>> \o C \in Seq(Atoms)
          /\ Ends(<<Open>> \o C) = Ends(<<Open>>) + Ends(C)
      BY <2>1, <2>4, EndsConcat
    <3>2. Ends(<<Open>>) + Ends(C) = Breaks(ps)
      BY <2>1, <2>4
    <3>. QED
      BY <3>1, <3>2
  <2>. DEFINE o == <<Open>> \o C
  <2>6. \A n \in 1 .. Len(o) : o[n].kind # "code"
    <3>1. /\ Len(o) = 1 + Len(C) /\ Len(C) \in Nat /\ o[1] = Open
          /\ \A n \in 1 .. Len(C) : o[1 + n] = C[n]
      BY <2>1, <2>4
    <3>. HIDE DEF o
    <3>2. ASSUME NEW n \in 1 .. Len(o) PROVE n = 1 \/ (n - 1 \in 1 .. Len(C) /\ n = 1 + (n - 1))
      BY <3>1
    <3>. QED
      BY <2>2, <2>3, <3>1, <3>2
  <2>. HIDE DEF o
  <2>7. o \o <<Close>> \in Seq(Atoms) /\ Ends(o \o <<Close>>) = Breaks(ps) + 1
    BY <2>4, <2>5, EndsConcat DEF o
  <2>8. Literal(ps) = o \o <<Close>>
    BY <1>2 DEF Literal, C, o
  <2>9. \A n \in 1 .. Len(o \o <<Close>>) : (o \o <<Close>>)[n].kind # "code"
    <3>1. /\ Len(o \o <<Close>>) = Len(o) + 1 /\ Len(o) \in Nat
          /\ (o \o <<Close>>)[Len(o) + 1] = Close
          /\ \A n \in 1 .. Len(o) : (o \o <<Close>>)[n] = o[n]
      BY <2>4, <2>5 DEF o
    <3>2. \A n \in 1 .. Len(o \o <<Close>>) : n \in 1 .. Len(o) \/ n = Len(o) + 1
      BY <3>1
    <3>. QED
      BY <2>3, <2>6, <3>1, <3>2
  <2>. QED
    BY <1>2, <2>7, <2>8, <2>9 DEF LiteralBreaks
<1>. QED
  BY <1>1, <1>2


EscapeKnown == escape_next => inp[pos - 1] = "\\"

Unbroken(ps) == \A n \in 1 .. Len(ps) : inp[ps[n]] # "\n"

Counted == Len(lm) = gen_line /\ gen_line = 1 + Ends(builder)

MapInv == EscapeKnown /\ Unbroken(match_buf) /\ Counted

LEMMA BreaksNone ==
  ASSUME NEW ps \in Seq(Positions)
  PROVE  Unbroken(ps) <=> Breaks(ps) = 0
<1>. DEFINE T == {n \in 1 .. Len(ps) : inp[ps[n]] = "\n"}
<1>1. IsFiniteSet(T)
  <2>1. IsFiniteSet(1 .. Len(ps)) /\ T \in SUBSET (1 .. Len(ps))
    BY FS_Interval
  <2>. HIDE DEF T
  <2>. QED
    BY <2>1, FS_Subset
<1>2. Unbroken(ps) <=> T = {}
  BY DEF Unbroken
<1>3. Cardinality(T) = 0 <=> T = {}
  BY <1>1, FS_EmptySet
<1>. QED
  BY <1>2, <1>3 DEF Breaks

LEMMA EndsSame ==
  ASSUME inp' = inp
  PROVE  /\ \A b : Ends(b)' = Ends(b)
         /\ \A ps : Unbroken(ps)' <=> Unbroken(ps)
BY DEF Ends, EndsIn, EndsLine, Unbroken

LEMMA CountedNext ==
  ASSUME TInv, Counted, inp' = inp, NEW n \in Nat, NEW line, NoteNewlines(n, line),
         Ends(builder') = Ends(builder) + n
  PROVE  Counted'
<1>1. builder \in Seq(Atoms) /\ Len(lm) \in Nat /\ gen_line \in Nat /\ Ends(builder) \in Nat
  <2>1. builder \in Seq(Atoms)
    BY DEF TInv, TypeOK, Atoms
  <2>. QED
    BY <2>1, EndsType DEF TInv, TypeOK
<1>2. gen_line' = gen_line + n /\ Len(lm') = Len(lm) + n
  <2>. DEFINE x == [k \in 1 .. n |-> line]
  <2>1. Len(x) = n
    OBVIOUS
  <2>2. lm' = lm \o x /\ gen_line' = gen_line + n
    BY DEF NoteNewlines
  <2>3. x \in Seq({line}) /\ lm \in Seq(Nat)
    BY DEF TInv, TypeOK
  <2>. HIDE DEF x
  <2>4. Len(lm \o x) = Len(lm) + Len(x)
    BY <2>3
  <2>. QED
    BY <2>1, <2>2, <2>4
<1>3. gen_line' = 1 + Ends(builder')
  BY <1>1, <1>2 DEF Counted
<1>4. Ends(builder)' = Ends(builder')
  BY DEF Ends, EndsIn, EndsLine
<1>. QED
  BY <1>1, <1>2, <1>3, <1>4 DEF Counted

LEMMA CountedSame ==
  ASSUME Counted, inp' = inp, builder' = builder, lm' = lm, gen_line' = gen_line
  PROVE  Counted'
BY DEF Counted, Ends, EndsIn, EndsLine

LEMMA CountedCode ==
  ASSUME TInv, Counted, inp' = inp, NEW ps \in Seq(Positions), NEW line, CopyCode(ps, line)
  PROVE  Counted'
<1>1. builder \in Seq(Atoms)
  BY DEF TInv, TypeOK, Atoms
<1>2. Copies("code", ps) \in Seq(Atoms) /\ Ends(Copies("code", ps)) = Breaks(ps)
      /\ Breaks(ps) \in Nat
  BY EndsCopies, BreaksType
<1>3. Ends(builder \o Copies("code", ps)) = Ends(builder) + Ends(Copies("code", ps))
  BY <1>1, <1>2, EndsConcat
<1>. QED
  BY <1>2, <1>3, CountedNext DEF CopyCode

\* The chunk of a delimiter or of the end of the file.
LEMMA EndsDelimiter ==
  ASSUME NEW b \in Seq(Atoms), NEW ps \in Seq(Positions)
  PROVE  /\ b \o <<Newline>> \in Seq(Atoms)
         /\ Ends(b \o <<Newline>> \o Literal(ps)) = Ends(b) + (1 + LiteralBreaks(ps))
         /\ Ends(b \o Literal(ps)) = Ends(b) + LiteralBreaks(ps)
<1>1. EndsLine(Newline) /\ Newline \in Atoms
  BY AddedType DEF EndsLine, Newline, Atom
<1>2. <<Newline>> \in Seq(Atoms) /\ Ends(<<Newline>>) = 1
  BY <1>1, EndsAtom
<1>3. /\ Literal(ps) \in Seq(Atoms) /\ Ends(Literal(ps)) = LiteralBreaks(ps)
      /\ LiteralBreaks(ps) \in Nat /\ Ends(b) \in Nat
  BY EndsLiteral, BreaksType, EndsType
<1>4. b \o <<Newline>> \in Seq(Atoms) /\ Ends(b \o <<Newline>>) = Ends(b) + Ends(<<Newline>>)
  BY <1>2, EndsConcat
<1>. DEFINE c == b \o <<Newline>>
<1>. HIDE DEF c
<1>5. Ends(c \o Literal(ps)) = Ends(c) + Ends(Literal(ps))
  BY <1>3, <1>4, EndsConcat DEF c
<1>6. Ends(b \o Literal(ps)) = Ends(b) + Ends(Literal(ps))
  BY <1>3, EndsConcat
<1>. QED
  BY <1>2, <1>3, <1>4, <1>5, <1>6 DEF c

LEMMA RemainderUnbroken ==
  ASSUME TInv, EscapeKnown, Unbroken(match_buf)
  PROVE  Remainder \in Seq(Positions) /\ Breaks(Remainder) = 0
<1>1. /\ match_buf \in Seq(Positions)
      /\ escape_next => pos - 1 \in Positions /\ inp[pos - 1] = "\\"
  BY InpIsSeq DEF TInv, TypeOK, Positions, EscapeKnown
<1>2. CASE escape_next
  <2>1. Remainder = <<pos - 1>> \o match_buf /\ Remainder \in Seq(Positions)
    BY <1>1, <1>2 DEF Remainder
  <2>2. /\ Len(Remainder) = 1 + Len(match_buf) /\ Remainder[1] = pos - 1
        /\ \A n \in 1 .. Len(match_buf) : Remainder[1 + n] = match_buf[n]
        /\ Len(match_buf) \in Nat
    BY <1>1, <1>2, <2>1
  <2>3. ASSUME NEW n \in 1 .. Len(Remainder) PROVE inp[Remainder[n]] # "\n"
    <3>1. CASE n = 1
      BY <1>1, <1>2, <2>2, <3>1
    <3>2. CASE n # 1
      <4>1. n - 1 \in 1 .. Len(match_buf) /\ n = 1 + (n - 1)
        BY <2>2, <3>2
      <4>2. Remainder[n] = match_buf[n - 1]
        BY <2>2, <4>1
      <4>. QED
        BY <4>1, <4>2 DEF Unbroken
    <3>. QED
      BY <3>1, <3>2
  <2>. QED
    BY <2>1, <2>3, BreaksNone DEF Unbroken
<1>3. CASE ~escape_next
  <2>1. Remainder = match_buf
    BY <1>1, <1>3 DEF Remainder
  <2>. QED
    BY <1>1, <2>1, BreaksNone
<1>. QED
  BY <1>2, <1>3

LEMMA EndCounted ==
  ASSUME TInv, MapInv, EndOfFile
  PROVE  Counted'
<1>. DEFINE text == IF code THEN buffer ELSE buffer \o Remainder
            tail == IF code THEN Copies("code", Remainder) ELSE <<>>
            b == builder \o tail
<1>1. /\ builder' = builder \o tail \o Literal(text)
      /\ NoteNewlines(LiteralBreaks(text), cur_line) /\ inp' = inp
  BY DEF EndOfFile
<1>2. Remainder \in Seq(Positions) /\ Breaks(Remainder) = 0
  BY RemainderUnbroken DEF MapInv
<1>3. builder \in Seq(Atoms) /\ buffer \in Seq(Positions)
  BY DEF TInv, TypeOK, Atoms
<1>4. text \in Seq(Positions)
  BY <1>2, <1>3
<1>5. b \in Seq(Atoms) /\ Ends(b) = Ends(builder)
  <2>1. CASE code
    <3>. DEFINE C == Copies("code", Remainder)
    <3>1. C \in Seq(Atoms) /\ Ends(C) = 0 /\ Ends(builder) \in Nat
      BY <1>2, <1>3, EndsCopies, EndsType
    <3>2. b = builder \o C
      BY <2>1
    <3>. HIDE DEF C, b
    <3>3. builder \o C \in Seq(Atoms) /\ Ends(builder \o C) = Ends(builder) + Ends(C)
      BY <1>3, <3>1, EndsConcat
    <3>. QED
      BY <3>1, <3>2, <3>3
  <2>2. CASE ~code
    BY <1>3, <2>2
  <2>. QED
    BY <2>1, <2>2
<1>. HIDE DEF text, tail, b
<1>6. Ends(b \o Literal(text)) = Ends(b) + LiteralBreaks(text) /\ LiteralBreaks(text) \in Nat
  BY <1>4, <1>5, EndsDelimiter, BreaksType
<1>7. Ends(builder') = Ends(builder) + LiteralBreaks(text)
  BY <1>1, <1>5, <1>6 DEF b
<1>. QED
  BY <1>1, <1>6, <1>7, CountedNext DEF MapInv

LEMMA StepMap ==
  ASSUME TInv, NoBreakInSep, MapInv, [Next]_vars
  PROVE  MapInv'
<1>0. /\ builder \in Seq(Atoms) /\ buffer \in Seq(Positions) /\ match_buf \in Seq(Positions)
      /\ LiteralBreaks(buffer) \in Nat /\ pos \in Nat
  BY BreaksType DEF TInv, TypeOK, Atoms
<1>1. inp' = inp
  BY DEF Next, EscapedInCode, LineContinuation, EscapedInText, Backslash, PartOfSep, WholeSep,
     NoSepInCode, NoSepInText, EndOfFile, vars
<1>2. EscapeKnown'
  <2>1. CASE Backslash
    <3>1. pos' - 1 = pos /\ inp[pos] = "\\"
      BY <1>0, <2>1 DEF Backslash, ReadChar
    <3>. QED
      BY <1>1, <3>1 DEF EscapeKnown
  <2>2. CASE EndOfFile \/ UNCHANGED vars
    BY <2>2 DEF EndOfFile, vars, MapInv, EscapeKnown
  <2>3. CASE ~escape_next'
    BY <2>3 DEF EscapeKnown
  <2>. QED
    BY <2>1, <2>2, <2>3 DEF Next, EscapedInCode, LineContinuation, EscapedInText, PartOfSep,
       WholeSep, NoSepInCode, NoSepInText, Match
<1>3. Unbroken(match_buf)'
  <2>1. CASE match_buf' = match_buf
    BY <1>1, <2>1 DEF MapInv, Unbroken
  <2>2. CASE match_buf' = <<>>
    BY <2>2 DEF Unbroken
  <2>3. CASE PartOfSep
    <3>1. Unbroken(Candidate)
      BY <2>3 DEF PartOfSep, BeginsSep, NoBreakInSep, Unbroken
    <3>. QED
      BY <1>1, <2>3, <3>1 DEF PartOfSep, Unbroken
  <2>. QED
    BY <2>1, <2>2, <2>3 DEF Next, EscapedInCode, LineContinuation, EscapedInText, Backslash,
       WholeSep, NoSepInCode, NoSepInText, EndOfFile, vars
<1>4. Counted'
  <2>1. CASE EscapedInCode
    BY <2>1, <1>1, ReadType, CountedCode DEF EscapedInCode, MapInv
  <2>2. CASE NoSepInCode
    BY <2>2, <1>1, ReadType, CountedCode DEF NoSepInCode, Match, MapInv
  <2>3. CASE WholeSep
    <3>1. /\ builder' = builder \o <<Newline>> \o Literal(buffer)
          /\ NoteNewlines(1 + LiteralBreaks(buffer), cur_line')
      BY <2>3 DEF WholeSep
    <3>2. Ends(builder') = Ends(builder) + (1 + LiteralBreaks(buffer))
      BY <1>0, <3>1, EndsDelimiter
    <3>. QED
      BY <1>0, <1>1, <3>1, <3>2, CountedNext DEF MapInv
  <2>4. CASE EndOfFile
    BY <2>4, EndCounted
  <2>5. CASE LineContinuation \/ EscapedInText \/ Backslash \/ PartOfSep \/ NoSepInText
             \/ UNCHANGED vars
    BY <1>1, <2>5, CountedSame DEF LineContinuation, EscapedInText, Backslash, PartOfSep,
       NoSepInText, vars, MapInv
  <2>. QED
    BY <2>1, <2>2, <2>3, <2>4, <2>5 DEF Next
<1>. QED
  BY <1>2, <1>3, <1>4 DEF MapInv

LEMMA InitMap == Init => MapInv
<1>. SUFFICES ASSUME Init PROVE MapInv
  OBVIOUS
<1>1. EndsIn(<<>>) = {}
  BY DEF EndsIn
<1>2. Ends(<<>>) = 0
  BY <1>1, FS_EmptySet DEF Ends
<1>3. builder = <<>> /\ match_buf = <<>> /\ ~escape_next /\ lm = <<1>> /\ gen_line = 1
  BY Zenon DEF Init
<1>. QED
  BY <1>2, <1>3 DEF MapInv, EscapeKnown, Unbroken, Counted

LEMMA MapInvariance == Spec => [](NoBreakInSep => MapInv)
<1>. DEFINE I == TInv /\ (NoBreakInSep => MapInv)
<1>1. Init => I
  BY InitType, InitMap
<1>2. I /\ [Next]_vars => I'
  <2>. SUFFICES ASSUME I, [Next]_vars PROVE I'
    OBVIOUS
  <2>1. NoBreakInSep' <=> NoBreakInSep
    BY SepFixed DEF NoBreakInSep
  <2>2. ASSUME NoBreakInSep PROVE MapInv'
    BY <2>2, StepMap
  <2>. QED
    BY <2>1, <2>2, StepType
<1>. QED
  BY <1>1, <1>2, PTL DEF Spec

\* For every template, and every delimiter without line breaks, the line map
\* has one entry for each line of the chunk (main.c 63-75, 218-284).
THEOREM ScanLineMap == Spec => [](NoBreakInSep => LineMapAligned)
<1>1. ASSUME TInv, MapInv PROVE LineMapAligned
  <2>1. Len(builder) \in Nat
    BY <1>1 DEF TInv, TypeOK
  <2>2. Len(builder) + 1 - 1 = Len(builder)
    BY <2>1
  <2>3. ChunkLine(Len(builder) + 1) = 1 + Ends(builder)
    BY <2>2 DEF ChunkLine, Ends, EndsIn
  <2>. QED
    BY <1>1, <2>3 DEF MapInv, Counted, LineMapAligned
<1>. QED
  BY <1>1, MapInvariance, TypeInvariance, PTL


\* The line of the chunk that b[n] is on.
LineOf(b, n) == 1 + Cardinality({m \in 1 .. n - 1 : EndsLine(b[m])})

\* Each copied character of b has its line in the map l.
ExactIn(b, l) ==
  \A n \in 1 .. Len(b) :
    b[n].kind = "code" =>
      LineOf(b, n) \in 1 .. Len(l) /\ l[LineOf(b, n)] = TemplateLine(b[n].at)

\* The current line of the chunk has the one of the next character.
HereKnown ==
  /\ cur_line = TemplateLine(pos)
  /\ code => lm[gen_line] = cur_line

CodeInv == ExactIn(builder, lm) /\ HereKnown

LEMMA TemplateLineStep ==
  ASSUME NEW p \in Nat \ {0}
  PROVE  /\ TemplateLine(p) \in Nat
         /\ TemplateLine(p + 1) = IF inp[p] = "\n" THEN TemplateLine(p) + 1 ELSE TemplateLine(p)
<1>. DEFINE D(b) == {q \in 1 .. b - 1 : inp[q] = "\n"}
<1>1. IsFiniteSet(D(p)) /\ p \notin D(p)
  <2>1. IsFiniteSet(1 .. p - 1) /\ D(p) \subseteq 1 .. p - 1
    BY FS_Interval
  <2>. QED
    BY <2>1, FS_Subset
<1>2. Cardinality(D(p)) \in Nat
  BY <1>1, FS_CardinalityType
<1>5. TemplateLine(p) = 1 + Cardinality(D(p)) /\ TemplateLine(p + 1) = 1 + Cardinality(D(p + 1))
  BY DEF TemplateLine
<1>3. CASE inp[p] = "\n"
  <2>1. D(p + 1) = D(p) \cup {p}
    BY <1>3
  <2>2. Cardinality(D(p + 1)) = Cardinality(D(p)) + 1
    BY <1>1, <2>1, FS_AddElement
  <2>. HIDE DEF D
  <2>. QED
    BY <1>2, <1>3, <1>5, <2>2
<1>4. CASE inp[p] # "\n"
  <2>1. D(p + 1) = D(p)
    BY <1>4
  <2>. HIDE DEF D
  <2>. QED
    BY <1>2, <1>4, <1>5, <2>1
<1>. QED
  BY <1>3, <1>4

LEMMA LineOfOld ==
  ASSUME NEW b \in Seq(Atoms), NEW c \in Seq(Atoms), NEW n \in 1 .. Len(b)
  PROVE  (b \o c)[n] = b[n] /\ n \in 1 .. Len(b \o c) /\ LineOf(b \o c, n) = LineOf(b, n)
<1>. DEFINE d == b \o c
<1>1. Len(b) \in Nat /\ n \in 1 .. Len(d) /\ \A m \in 1 .. Len(b) : d[m] = b[m]
  OBVIOUS
<1>. HIDE DEF d
<1>2. \A m \in 1 .. n - 1 : EndsLine(d[m]) <=> EndsLine(b[m])
  BY <1>1
<1>3. {m \in 1 .. n - 1 : EndsLine(d[m])} = {m \in 1 .. n - 1 : EndsLine(b[m])}
  BY <1>2, Zenon
<1>. QED
  BY <1>1, <1>3 DEF LineOf, d

LEMMA LineOfNew ==
  ASSUME NEW b \in Seq(Atoms), NEW c \in Seq(Atoms), NEW n \in 1 .. Len(c),
         \A m \in 1 .. n - 1 : ~EndsLine(c[m])
  PROVE  (b \o c)[Len(b) + n] = c[n] /\ LineOf(b \o c, Len(b) + n) = 1 + Ends(b)
<1>. DEFINE d == b \o c
            k == Len(b)
<1>1. /\ k \in Nat /\ Len(c) \in Nat
      /\ \A m \in 1 .. k : d[m] = b[m]
      /\ \A m \in 1 .. Len(c) : d[k + m] = c[m]
  OBVIOUS
<1>. HIDE DEF d, k
<1>2. ASSUME NEW m \in 1 .. (k + n) - 1, EndsLine(d[m])
      PROVE  m \in 1 .. k /\ EndsLine(b[m])
  <2>1. ~(m > k)
    <3>1. ASSUME m > k PROVE FALSE
      <4>1. m - k \in 1 .. n - 1 /\ m - k \in 1 .. Len(c) /\ m = k + (m - k)
        BY <1>1, <3>1
      <4>. QED
        BY <1>1, <1>2, <4>1
    <3>. QED
      BY <3>1
  <2>2. m \in 1 .. k
    BY <1>1, <2>1
  <2>. QED
    BY <1>1, <1>2, <2>2
<1>3. ASSUME NEW m \in 1 .. k, EndsLine(b[m])
      PROVE  m \in 1 .. (k + n) - 1 /\ EndsLine(d[m])
  BY <1>1, <1>3
<1>4. {m \in 1 .. (k + n) - 1 : EndsLine(d[m])} = {m \in 1 .. k : EndsLine(b[m])}
  BY <1>2, <1>3, Zenon
<1>5. LineOf(d, k + n) = 1 + Ends(b)
  <2>. DEFINE W == {m \in 1 .. (k + n) - 1 : EndsLine(d[m])}
  <2>1. EndsIn(b) = {m \in 1 .. k : EndsLine(b[m])}
    BY DEF EndsIn, k
  <2>2. LineOf(d, k + n) = 1 + Cardinality(W)
    BY DEF LineOf
  <2>3. W = EndsIn(b)
    BY <1>4, <2>1
  <2>. HIDE DEF W
  <2>. QED
    BY <2>2, <2>3 DEF Ends
<1>6. d[k + n] = c[n]
  BY <1>1
<1>. QED
  BY <1>5, <1>6, Zenon DEF d, k

\* What is added behind the copied characters leaves their lines alone.
LEMMA ExactAdded ==
  ASSUME NEW b \in Seq(Atoms), NEW c \in Seq(Atoms), NEW l \in Seq(Nat), NEW x \in Seq(Nat),
         ExactIn(b, l), \A n \in 1 .. Len(c) : c[n].kind # "code"
  PROVE  b \o c \in Seq(Atoms) /\ l \o x \in Seq(Nat) /\ ExactIn(b \o c, l \o x)
<1>1. /\ Len(b) \in Nat /\ Len(c) \in Nat /\ b \o c \in Seq(Atoms) /\ l \o x \in Seq(Nat)
      /\ Len(b \o c) = Len(b) + Len(c)
      /\ \A n \in 1 .. Len(c) : (b \o c)[Len(b) + n] = c[n]
  OBVIOUS
<1>2. /\ Len(l) \in Nat /\ Len(l \o x) >= Len(l)
      /\ \A n \in 1 .. Len(l) : (l \o x)[n] = l[n] /\ n \in 1 .. Len(l \o x)
  OBVIOUS
<1>3. ASSUME NEW n \in 1 .. Len(b \o c), (b \o c)[n].kind = "code"
      PROVE  /\ LineOf(b \o c, n) \in 1 .. Len(l \o x)
             /\ (l \o x)[LineOf(b \o c, n)] = TemplateLine((b \o c)[n].at)
  <2>1. n \in 1 .. Len(b)
    <3>1. ASSUME n > Len(b) PROVE FALSE
      <4>1. n - Len(b) \in 1 .. Len(c) /\ n = Len(b) + (n - Len(b))
        BY <1>1, <3>1
      <4>. QED
        BY <1>1, <1>3, <4>1
    <3>. QED
      BY <1>1, <3>1
  <2>2. (b \o c)[n] = b[n] /\ LineOf(b \o c, n) = LineOf(b, n)
    BY <2>1, LineOfOld
  <2>3. LineOf(b, n) \in 1 .. Len(l) /\ l[LineOf(b, n)] = TemplateLine(b[n].at)
    BY <1>3, <2>1, <2>2 DEF ExactIn
  <2>. QED
    BY <1>2, <2>2, <2>3
<1>. QED
  BY <1>1, <1>3 DEF ExactIn

\* Characters of the current line, of which only the last may end it.
LEMMA ExactCode ==
  ASSUME NEW b \in Seq(Atoms), NEW l \in Seq(Nat), NEW x \in Seq(Nat),
         NEW ps \in Seq(Positions), ExactIn(b, l), Len(l) = 1 + Ends(b),
         \A n \in 1 .. Len(ps) : TemplateLine(ps[n]) = l[Len(l)],
         \A n \in 1 .. Len(ps) - 1 : inp[ps[n]] # "\n"
  PROVE  ExactIn(b \o Copies("code", ps), l \o x)
<1>. DEFINE c == Copies("code", ps)
<1>0. c \in Seq(Atoms) /\ Len(c) = Len(ps) /\ Len(ps) \in Nat
  BY CopiesType DEF Kinds
<1>5. \A n \in 1 .. Len(ps) :
        c[n].at = ps[n] /\ (EndsLine(c[n]) <=> inp[ps[n]] = "\n")
  <2>1. \A n \in 1 .. Len(ps) : c[n] = Atom("code", ps[n])
    BY CopiesType DEF Kinds
  <2>2. \A q : Atom("code", q).at = q /\ (EndsLine(Atom("code", q)) <=> inp[q] = "\n")
    BY DEF Atom, EndsLine, IsCopy
  <2>. HIDE DEF c
  <2>. QED
    BY <2>1, <2>2
<1>. HIDE DEF c
<1>1. /\ Len(b) \in Nat /\ Len(c) \in Nat
      /\ Len(b \o c) = Len(b) + Len(c)
  <2>1. \A u, v \in Seq(Atoms) : Len(u) \in Nat /\ Len(u \o v) = Len(u) + Len(v)
    OBVIOUS
  <2>. QED
    BY <1>0, <2>1
<1>2. /\ Len(l) \in Nat /\ Len(l \o x) >= Len(l) /\ Len(l) >= 1
      /\ \A n \in 1 .. Len(l) : (l \o x)[n] = l[n] /\ n \in 1 .. Len(l \o x)
  <2>1. Ends(b) \in Nat
    BY EndsType
  <2>. QED
    BY <2>1
<1>3. \A n \in 1 .. Len(c) - 1 : ~EndsLine(c[n])
  <2>1. \A n \in 1 .. Len(c) - 1 : n \in 1 .. Len(ps) /\ n \in 1 .. Len(ps) - 1
    BY <1>0
  <2>. QED
    BY <1>5, <2>1
<1>4. ASSUME NEW n \in 1 .. Len(b \o c), (b \o c)[n].kind = "code"
      PROVE  /\ LineOf(b \o c, n) \in 1 .. Len(l \o x)
             /\ (l \o x)[LineOf(b \o c, n)] = TemplateLine((b \o c)[n].at)
  <2>1. CASE n \in 1 .. Len(b)
    <3>1. (b \o c)[n] = b[n] /\ LineOf(b \o c, n) = LineOf(b, n)
      BY <1>0, <2>1, LineOfOld
    <3>2. LineOf(b, n) \in 1 .. Len(l) /\ l[LineOf(b, n)] = TemplateLine(b[n].at)
      BY <1>4, <2>1, <3>1 DEF ExactIn
    <3>. QED
      BY <1>2, <3>1, <3>2
  <2>2. CASE n > Len(b)
    <3>. DEFINE k == n - Len(b)
    <3>1. k \in 1 .. Len(c) /\ n = Len(b) + k /\ k \in 1 .. Len(ps)
      BY <1>0, <1>1, <2>2
    <3>. HIDE DEF k
    <3>2. \A m \in 1 .. k - 1 : ~EndsLine(c[m])
      BY <1>1, <1>3, <3>1
    <3>3. (b \o c)[n] = c[k] /\ LineOf(b \o c, n) = Len(l)
      BY <1>0, <3>1, <3>2, LineOfNew
    <3>4. c[k].at = ps[k] /\ TemplateLine(ps[k]) = l[Len(l)]
      BY <1>5, <3>1
    <3>5. Len(l) \in 1 .. Len(l)
      BY <1>2
    <3>. QED
      BY <1>2, <3>1, <3>3, <3>4, <3>5
  <2>. QED
    BY <1>1, <2>1, <2>2
<1>. QED
  BY <1>4 DEF ExactIn, c

LEMMA ExactFixed ==
  ASSUME inp' = inp
  PROVE  /\ ExactIn(builder, lm)' <=> ExactIn(builder', lm')
         /\ \A p : TemplateLine(p)' = TemplateLine(p)
BY DEF ExactIn, LineOf, TemplateLine, EndsLine

LEMMA Noted ==
  ASSUME lm \in Seq(Nat), gen_line \in Nat, Len(lm) = gen_line,
         NEW n \in Nat, NEW line \in Nat, NoteNewlines(n, line)
  PROVE  /\ lm' = lm \o [k \in 1 .. n |-> line] /\ [k \in 1 .. n |-> line] \in Seq(Nat)
         /\ n = 0 => lm' = lm /\ gen_line' = gen_line
         /\ n > 0 => lm'[gen_line'] = line
<1>. DEFINE x == [k \in 1 .. n |-> line]
<1>1. x \in Seq(Nat) /\ Len(x) = n /\ \A k \in 1 .. n : x[k] = line
  OBVIOUS
<1>2. lm' = lm \o x /\ gen_line' = gen_line + n
  BY DEF NoteNewlines
<1>3. ASSUME n = 0 PROVE lm' = lm /\ gen_line' = gen_line
  <2>1. x = <<>>
    BY <1>3
  <2>. QED
    BY <1>2, <1>3, <2>1
<1>4. ASSUME n > 0 PROVE lm'[gen_line'] = line
  <2>. HIDE DEF x
  <2>1. n \in 1 .. Len(x) /\ x[n] = line
    BY <1>1, <1>4
  <2>2. (lm \o x)[Len(lm) + n] = x[n]
    BY <1>1, <2>1
  <2>. QED
    BY <1>2, <2>1, <2>2
<1>. QED
  BY <1>1, <1>2, <1>3, <1>4 DEF x


\* What holds of the chunk and the map between two characters.
LEMMA MapFacts ==
  ASSUME TInv, MapInv
  PROVE  /\ builder \in Seq(Atoms) /\ buffer \in Seq(Positions)
         /\ lm \in Seq(Nat) /\ gen_line \in Nat /\ cur_line \in Nat
         /\ Len(lm) = gen_line /\ Len(lm) = 1 + Ends(builder)
BY DEF TInv, TypeOK, Atoms, MapInv, Counted

\* The line after the character that is read.
LEMMA ReadLine ==
  ASSUME TInv, HereKnown, ReadChar
  PROVE  /\ pos \in Positions /\ pos \in Nat \ {0} /\ pos' = pos + 1 /\ cur_line' \in Nat
         /\ cur_line' = TemplateLine(pos') /\ inp' = inp =>
              cur_line' = TemplateLine(pos)'
         /\ cur_line' = TemplateLine(pos + 1)
         /\ inp[pos] # "\n" => cur_line' = cur_line
<1>1. pos \in Positions /\ pos' = pos + 1 /\ cur_line' \in Nat
  BY ReadType
<1>2. pos \in Nat \ {0}
  BY <1>1, InpIsSeq DEF Positions, TInv, TypeOK
<1>3. TemplateLine(pos + 1) = IF inp[pos] = "\n" THEN TemplateLine(pos) + 1 ELSE TemplateLine(pos)
  BY <1>2, TemplateLineStep
<1>4. cur_line' = TemplateLine(pos + 1) /\ (inp[pos] # "\n" => cur_line' = cur_line)
  BY <1>3 DEF HereKnown, ReadChar
<1>. QED
  BY <1>1, <1>2, <1>4 DEF TemplateLine

\* A copy of one or two characters of the current line into the chunk.
LEMMA CodeCopied ==
  ASSUME TInv, MapInv, CodeInv, code, inp' = inp, code' = code, ReadChar,
         NEW ps \in Seq(Positions), CopyCode(ps, cur_line'), ps # <<>>, ps[Len(ps)] = pos,
         \A n \in 1 .. Len(ps) : TemplateLine(ps[n]) = cur_line,
         \A n \in 1 .. Len(ps) - 1 : inp[ps[n]] # "\n"
  PROVE  CodeInv'
<1>. DEFINE x == [k \in 1 .. Breaks(ps) |-> cur_line']
<1>0. /\ builder \in Seq(Atoms) /\ lm \in Seq(Nat) /\ gen_line \in Nat
      /\ Len(lm) = gen_line /\ Len(lm) = 1 + Ends(builder)
  BY MapFacts
<1>1. /\ pos \in Nat \ {0} /\ cur_line' \in Nat /\ cur_line' = TemplateLine(pos + 1)
      /\ pos' = pos + 1 /\ (inp[pos] # "\n" => cur_line' = cur_line)
  BY ReadLine DEF CodeInv
<1>2. /\ lm' = lm \o x /\ x \in Seq(Nat)
      /\ Breaks(ps) = 0 => lm' = lm /\ gen_line' = gen_line
      /\ Breaks(ps) > 0 => lm'[gen_line'] = cur_line'
  <2>1. Breaks(ps) \in Nat /\ NoteNewlines(Breaks(ps), cur_line')
    BY BreaksType DEF CopyCode
  <2>. QED
    BY <1>0, <1>1, <2>1, Noted
<1>. HIDE DEF x
<1>3. ExactIn(builder, lm)'
  <2>1. lm[Len(lm)] = cur_line
    BY <1>0 DEF CodeInv, HereKnown
  <2>2. ExactIn(builder \o Copies("code", ps), lm \o x)
    BY <1>0, <1>2, <2>1, ExactCode DEF CodeInv
  <2>3. ExactIn(builder', lm')
    BY <1>2, <2>2 DEF CopyCode
  <2>. QED
    BY <2>3, ExactFixed
<1>4. lm'[gen_line'] = cur_line'
  <2>1. Len(ps) \in Nat /\ Len(ps) \in 1 .. Len(ps)
    BY DEF Positions
  <2>2. CASE Breaks(ps) = 0
    <3>1. inp[pos] # "\n"
      BY <2>1, <2>2, BreaksNone DEF Unbroken
    <3>2. lm' = lm /\ gen_line' = gen_line
      BY <1>2, <2>2
    <3>3. lm[gen_line] = cur_line /\ cur_line' = cur_line
      BY <1>1, <3>1 DEF CodeInv, HereKnown
    <3>. QED
      BY <3>2, <3>3
  <2>3. CASE Breaks(ps) # 0
    <3>1. Breaks(ps) \in Nat
      BY BreaksType
    <3>2. Breaks(ps) > 0
      BY <2>3, <3>1
    <3>. QED
      BY <1>2, <3>2, Zenon
  <2>. QED
    BY <2>2, <2>3
<1>5. cur_line' = TemplateLine(pos)'
  BY <1>1 DEF TemplateLine
<1>. QED
  BY <1>3, <1>4, <1>5 DEF CodeInv, HereKnown

\* Steps in text that leave the chunk alone.
LEMMA CodeSame ==
  ASSUME TInv, CodeInv, inp' = inp, builder' = builder, lm' = lm, gen_line' = gen_line,
         ReadChar, code => inp[pos] # "\n", code' = code
  PROVE  CodeInv'
<1>1. /\ pos' = pos + 1 /\ cur_line' = TemplateLine(pos + 1)
      /\ inp[pos] # "\n" => cur_line' = cur_line
  BY ReadLine DEF CodeInv
<1>2. cur_line' = TemplateLine(pos)'
  BY <1>1 DEF TemplateLine
<1>3. ExactIn(builder, lm)'
  BY ExactFixed DEF CodeInv
<1>. QED
  BY <1>1, <1>2, <1>3 DEF CodeInv, HereKnown

LEMMA CodeDelimiter ==
  ASSUME TInv, MapInv, CodeInv, WholeSep
  PROVE  CodeInv'
<1>. DEFINE n == 1 + LiteralBreaks(buffer)
            x == [k \in 1 .. n |-> cur_line']
            b == builder \o <<Newline>>
<1>0. /\ builder \in Seq(Atoms) /\ buffer \in Seq(Positions) /\ lm \in Seq(Nat)
      /\ gen_line \in Nat /\ Len(lm) = gen_line
  BY MapFacts
<1>1. /\ builder' = builder \o <<Newline>> \o Literal(buffer)
      /\ NoteNewlines(n, cur_line') /\ inp' = inp /\ ReadChar
  BY DEF WholeSep, Match
<1>2. pos' = pos + 1 /\ cur_line' = TemplateLine(pos + 1) /\ cur_line' \in Nat
  BY <1>1, ReadLine DEF CodeInv
<1>3. n \in Nat /\ n > 0
  BY <1>0, BreaksType
<1>. HIDE DEF n
<1>4. lm' = lm \o x /\ x \in Seq(Nat) /\ lm'[gen_line'] = cur_line'
  BY <1>0, <1>1, <1>2, <1>3, Noted
<1>. HIDE DEF x
<1>5. b \in Seq(Atoms) /\ ExactIn(b, lm)
  <2>1. <<Newline>> \in Seq(Atoms) /\ \A k \in 1 .. Len(<<Newline>>) : <<Newline>>[k].kind # "code"
    BY AddedType DEF Newline, Atom
  <2>2. /\ <<>> \in Seq(Nat) /\ lm \o <<>> = lm
    BY <1>0
  <2>3. b \in Seq(Atoms) /\ ExactIn(b, lm \o <<>>)
    BY <1>0, <2>1, <2>2, ExactAdded DEF CodeInv
  <2>. QED
    BY <2>2, <2>3
<1>. HIDE DEF b
<1>6. ExactIn(b \o Literal(buffer), lm \o x)
  <2>1. /\ Literal(buffer) \in Seq(Atoms)
        /\ \A k \in 1 .. Len(Literal(buffer)) : Literal(buffer)[k].kind # "code"
    BY <1>0, EndsLiteral
  <2>. QED
    BY <1>0, <1>4, <1>5, <2>1, ExactAdded
<1>7. ExactIn(builder, lm)'
  <2>1. ExactIn(builder', lm')
    BY <1>1, <1>4, <1>6 DEF b
  <2>. QED
    BY <1>1, <2>1, ExactFixed
<1>8. cur_line' = TemplateLine(pos)'
  BY <1>1, <1>2 DEF TemplateLine
<1>. QED
  BY <1>4, <1>7, <1>8 DEF CodeInv, HereKnown

\* What is pending is on the line of the next character.
LEMMA PendingLine ==
  ASSUME TInv, Trailing, Unbroken(match_buf), NEW p \in Dealt .. pos
  PROVE  TemplateLine(p) = TemplateLine(pos)
<1>1. /\ pos \in Nat \ {0} /\ Dealt \in Nat \ {0} /\ pos = Dealt + Len(match_buf)
      /\ Len(match_buf) \in Nat
      /\ \A n \in 1 .. Len(match_buf) : match_buf[n] = Dealt + n - 1
  BY PendingFacts DEF Trailing
<1>2. \A q \in Dealt .. pos - 1 : inp[q] # "\n"
  <2>1. ASSUME NEW q \in Dealt .. pos - 1 PROVE inp[q] # "\n"
    <3>1. (q - Dealt) + 1 \in 1 .. Len(match_buf) /\ match_buf[(q - Dealt) + 1] = q
      BY <1>1
    <3>. QED
      BY <3>1 DEF Unbroken
  <2>. QED
    BY <2>1
<1>3. {q \in 1 .. p - 1 : inp[q] = "\n"} = {q \in 1 .. pos - 1 : inp[q] = "\n"}
  <2>1. \A q : q \in 1 .. pos - 1 <=> q \in 1 .. p - 1 \/ q \in p .. pos - 1
    BY <1>1
  <2>2. \A q \in p .. pos - 1 : q \in Dealt .. pos - 1
    BY <1>1
  <2>. QED
    BY <1>2, <2>1, <2>2
<1>. QED
  BY <1>3 DEF TemplateLine

LEMMA CodeEnd ==
  ASSUME TInv, MapInv, CodeInv, Pending, EndOfFile
  PROVE  CodeInv'
<1>0. /\ builder \in Seq(Atoms) /\ buffer \in Seq(Positions) /\ lm \in Seq(Nat)
      /\ gen_line \in Nat /\ Len(lm) = gen_line /\ cur_line \in Nat
      /\ Len(lm) = 1 + Ends(builder)
  BY MapFacts
<1>1. /\ inp' = inp /\ pos' = pos /\ cur_line' = cur_line /\ code' = code
  BY DEF EndOfFile
<1>2. Remainder \in Seq(Positions) /\ Breaks(Remainder) = 0
  BY RemainderUnbroken DEF MapInv
<1>3. cur_line' = TemplateLine(pos)'
  BY <1>1 DEF TemplateLine, CodeInv, HereKnown
<1>4. CASE code
  <2>. DEFINE C == Copies("code", Remainder)
  <2>1. /\ builder' = builder \o C \o Literal(<<>>)
        /\ NoteNewlines(LiteralBreaks(<<>>), cur_line)
    BY <1>4 DEF EndOfFile, Pending
  <2>2. LiteralBreaks(<<>>) = 0 /\ Literal(<<>>) = <<>>
    BY DEF LiteralBreaks, Literal
  <2>3. lm' = lm /\ gen_line' = gen_line
    <3>1. NoteNewlines(0, cur_line) /\ 0 \in Nat
      BY <2>1, <2>2
    <3>. HIDE DEF C
    <3>. QED
      BY <1>0, <3>1, Noted
  <2>4. \A n \in 1 .. Len(Remainder) : TemplateLine(Remainder[n]) = lm[Len(lm)]
    <3>1. lm[Len(lm)] = TemplateLine(pos)
      BY <1>0, <1>4 DEF CodeInv, HereKnown
    <3>2. CASE ~escape_next
      <4>1. Remainder = match_buf
        BY <3>2, PendingFacts DEF Remainder, Pending
      <4>2. \A n \in 1 .. Len(match_buf) : match_buf[n] \in Dealt .. pos
        BY PendingFacts DEF Pending, Trailing
      <4>. QED
        BY <3>1, <4>1, <4>2, PendingLine DEF Pending, MapInv
    <3>3. CASE escape_next
      <4>1. /\ Len(Remainder) = 1 /\ Remainder[1] = pos - 1
            /\ pos - 1 \in Nat \ {0} /\ inp[pos - 1] = "\\" /\ pos \in Nat
        BY <3>3 DEF Remainder, Pending, TInv, TypeOK, MapInv, EscapeKnown
      <4>2. TemplateLine((pos - 1) + 1) = TemplateLine(pos - 1)
        BY <4>1, TemplateLineStep
      <4>3. (pos - 1) + 1 = pos
        BY <4>1
      <4>. QED
        BY <3>1, <4>1, <4>2, <4>3
    <3>. QED
      BY <3>2, <3>3
  <2>5. \A n \in 1 .. Len(Remainder) - 1 : inp[Remainder[n]] # "\n"
    BY <1>2, BreaksNone DEF Unbroken
  <2>6. ExactIn(builder \o C, lm \o <<>>)
    <3>1. <<>> \in Seq(Nat) /\ ExactIn(builder, lm)
      BY DEF CodeInv
    <3>. QED
      BY <1>0, <1>2, <2>4, <2>5, <3>1, ExactCode
  <2>7. C \in Seq(Atoms)
    BY <1>2, CopiesType DEF Kinds
  <2>. HIDE DEF C
  <2>8. builder' = builder \o C /\ lm \o <<>> = lm
    BY <1>0, <2>1, <2>2, <2>7
  <2>9. ExactIn(builder', lm')
    BY <2>3, <2>6, <2>8
  <2>. QED
    BY <1>1, <1>3, <1>4, <2>3, <2>9, ExactFixed DEF CodeInv, HereKnown
<1>5. CASE ~code
  <2>. DEFINE t == buffer \o Remainder
              n == LiteralBreaks(t)
              x == [k \in 1 .. n |-> cur_line]
  <2>1. builder' = builder \o <<>> \o Literal(t) /\ NoteNewlines(n, cur_line)
    BY <1>5 DEF EndOfFile
  <2>2. t \in Seq(Positions)
    BY <1>0, <1>2
  <2>. HIDE DEF t
  <2>3. n \in Nat
    BY <2>2, BreaksType
  <2>. HIDE DEF n
  <2>4. lm' = lm \o x /\ x \in Seq(Nat)
    BY <1>0, <2>1, <2>3, Noted
  <2>. HIDE DEF x
  <2>5. /\ Literal(t) \in Seq(Atoms)
        /\ \A k \in 1 .. Len(Literal(t)) : Literal(t)[k].kind # "code"
    BY <2>2, EndsLiteral
  <2>6. ExactIn(builder \o Literal(t), lm \o x)
    BY <1>0, <2>4, <2>5, ExactAdded DEF CodeInv
  <2>7. builder' = builder \o Literal(t)
    BY <1>0, <2>1
  <2>8. ExactIn(builder', lm')
    BY <2>4, <2>6, <2>7
  <2>. QED
    BY <1>1, <1>3, <1>5, <2>8, ExactFixed DEF CodeInv, HereKnown
<1>. QED
  BY <1>4, <1>5

LEMMA StepCode ==
  ASSUME TInv, MapInv, NoBreakInSep, Pending, CodeInv, [Next]_vars
  PROVE  CodeInv'
<1>1. CASE EscapedInCode
  <2>1. /\ ReadChar /\ escape_next /\ code /\ code' = code /\ inp' = inp
        /\ CopyCode(Escaped, cur_line')
    BY <1>1 DEF EscapedInCode
  <2>2. pos \in Nat /\ pos - 1 \in Nat \ {0} /\ Escaped \in Seq(Positions)
    BY <2>1, ReadType DEF TInv, TypeOK
  <2>3. TemplateLine(pos) = cur_line /\ TemplateLine(pos - 1) = cur_line
    <3>1. inp[pos - 1] # "\n"
      BY <2>1 DEF MapInv, EscapeKnown
    <3>2. TemplateLine((pos - 1) + 1) = TemplateLine(pos - 1)
      BY <2>2, <3>1, TemplateLineStep
    <3>3. (pos - 1) + 1 = pos
      BY <2>2
    <3>. QED
      BY <3>2, <3>3 DEF CodeInv, HereKnown
  <2>4. /\ Escaped # <<>> /\ Escaped[Len(Escaped)] = pos
        /\ \A n \in 1 .. Len(Escaped) : TemplateLine(Escaped[n]) = cur_line
        /\ \A n \in 1 .. Len(Escaped) - 1 : inp[Escaped[n]] # "\n"
    <3>1. inp[pos - 1] # "\n"
      BY <2>1 DEF MapInv, EscapeKnown
    <3>2. CASE Escaped = <<pos>>
      <4>1. Len(Escaped) = 1 /\ Escaped[1] = pos
        BY <3>2
      <4>. QED
        BY <2>3, <3>2, <4>1
    <3>3. CASE Escaped = <<pos - 1, pos>>
      <4>1. Len(Escaped) = 2 /\ Escaped[1] = pos - 1 /\ Escaped[2] = pos
        BY <3>3
      <4>. QED
        BY <2>3, <3>1, <3>3, <4>1
    <3>. QED
      BY <3>2, <3>3 DEF Escaped
  <2>. QED
    BY <2>1, <2>2, <2>4, CodeCopied
<1>2. CASE NoSepInCode
  <2>1. /\ ReadChar /\ code /\ code' = code /\ inp' = inp
        /\ CopyCode(Candidate, cur_line')
    BY <1>2 DEF NoSepInCode, Match
  <2>2. /\ Candidate \in Seq(Positions) /\ Candidate # <<>>
        /\ Len(Candidate) = Len(match_buf) + 1 /\ Candidate[Len(Candidate)] = pos
        /\ \A n \in 1 .. Len(Candidate) : Dealt <= Candidate[n] /\ Candidate[n] < pos + 1
        /\ Len(match_buf) \in Nat /\ Dealt \in Nat /\ pos \in Nat
        /\ \A n \in 1 .. Len(Candidate) - 1 : Candidate[n] = match_buf[n]
    <3>1. /\ Candidate \in Seq(Positions) /\ Candidate # <<>>
          /\ Len(Candidate) = Len(match_buf) + 1 /\ Candidate[Len(Candidate)] = pos
          /\ \A n \in 1 .. Len(Candidate) : Dealt <= Candidate[n] /\ Candidate[n] < pos + 1
          /\ \A n \in 1 .. Len(Candidate) : Candidate[n] = Dealt + n - 1
      BY <2>1, CandidateFacts DEF Pending
    <3>2. Len(match_buf) \in Nat /\ Dealt \in Nat /\ pos \in Nat
      BY PendingFacts DEF Pending
    <3>3. \A n \in 1 .. Len(Candidate) - 1 : Candidate[n] = match_buf[n]
      BY <3>1, <3>2 DEF Pending, Trailing
    <3>. QED
      BY <3>1, <3>2, <3>3
  <2>3. \A n \in 1 .. Len(Candidate) - 1 : inp[Candidate[n]] # "\n"
    BY <2>2 DEF MapInv, Unbroken
  <2>4. ASSUME NEW n \in 1 .. Len(Candidate) PROVE TemplateLine(Candidate[n]) = cur_line
    <3>1. Candidate[n] \in Positions
      BY <2>2
    <3>2. Candidate[n] \in Dealt .. pos
      BY <2>2, <3>1 DEF Positions
    <3>. QED
      BY <3>2, PendingLine DEF Pending, MapInv, CodeInv, HereKnown
  <2>. QED
    BY <2>1, <2>2, <2>3, <2>4, CodeCopied
<1>3. CASE WholeSep
  BY <1>3, CodeDelimiter
<1>4. CASE EndOfFile
  BY <1>4, CodeEnd
<1>5. CASE LineContinuation \/ EscapedInText \/ NoSepInText
  BY <1>5, CodeSame DEF LineContinuation, EscapedInText, NoSepInText, Match
<1>6. CASE Backslash
  BY <1>6, CodeSame DEF Backslash
<1>7. CASE PartOfSep
  <2>1. ReadChar /\ BeginsSep /\ Len(Candidate) = Len(match_buf) + 1
        /\ Candidate[Len(Candidate)] = pos
    BY <1>7, CandidateFacts DEF PartOfSep, Match, Pending
  <2>2. Len(Candidate) \in 1 .. Len(Candidate) /\ Len(Candidate) \in 1 .. Len(sep)
    <3>1. Len(match_buf) \in Nat /\ Len(sep) \in Nat /\ Len(Candidate) < Len(sep)
      BY <1>7, PendingFacts, SepsAssumption DEF PartOfSep, Pending, TInv, TypeOK
    <3>. QED
      BY <2>1, <3>1
  <2>3. inp[pos] # "\n"
    BY <2>1, <2>2 DEF BeginsSep, NoBreakInSep
  <2>. QED
    BY <1>7, <2>1, <2>3, CodeSame DEF PartOfSep
<1>8. CASE UNCHANGED vars
  BY <1>8, ExactFixed DEF vars, CodeInv, HereKnown, TemplateLine
<1>. QED
  BY <1>1, <1>2, <1>3, <1>4, <1>5, <1>6, <1>7, <1>8 DEF Next

LEMMA InitCode == Init => CodeInv
<1>. SUFFICES ASSUME Init PROVE CodeInv
  OBVIOUS
<1>1. builder = <<>> /\ cur_line = 1 /\ pos = 1 /\ ~code
  BY Zenon DEF Init
<1>2. {q \in 1 .. 1 - 1 : inp[q] = "\n"} = {}
  OBVIOUS
<1>3. TemplateLine(1) = 1
  BY <1>2, FS_EmptySet DEF TemplateLine
<1>. QED
  BY <1>1, <1>3 DEF CodeInv, ExactIn, HereKnown

\* For every template and every delimiter of one character, and for every
\* delimiter without line breaks if there is no '\' in the template, an error
\* in a code block is reported for the line of the template it is on
\* (main.c 63-104, 218-284).
THEOREM ScanCodeLine == Spec => []CodeLineExact
<1>. DEFINE P == PlainDelimiter \/ (NoBreakInSep /\ NoEscapes)
            I == P => TInv /\ MapInv /\ NoBreakInSep /\ Pending
            J == P => CodeInv
<1>1. Spec => []I
  <2>1. PlainDelimiter => NoBreakInSep
    BY DEF PlainDelimiter, NoBreakInSep
  <2>2. UInv => Pending
    BY DEF UInv
  <2>3. SInv => Pending
    <3>. SUFFICES ASSUME SInv PROVE Pending
      OBVIOUS
    <3>1. match_buf = <<>> /\ (code => buffer = <<>>) /\ (done => buffer = <<>>)
          /\ pos \in Nat \ {0}
      BY DEF SInv, Quiet, TInv, TypeOK
    <3>2. Dealt = pos
      BY <3>1 DEF Dealt
    <3>. QED
      BY <3>1, <3>2 DEF Pending, Trailing
  <2>. QED
    BY <2>1, <2>2, <2>3, TypeInvariance, MapInvariance, PlainInvariance,
       UnescapedInvariance, PTL
<1>2. Init => J
  BY InitCode
<1>3. I /\ J /\ [Next]_vars => J'
  <2>. SUFFICES ASSUME I, J, [Next]_vars PROVE J'
    OBVIOUS
  <2>1. inp' = inp /\ sep' = sep
    BY SepFixed DEF Next, EscapedInCode, LineContinuation, EscapedInText, Backslash, PartOfSep,
       WholeSep, NoSepInCode, NoSepInText, EndOfFile, vars
  <2>2. P' <=> P
    BY <2>1 DEF PlainDelimiter, NoBreakInSep, NoEscapes, Positions
  <2>3. ASSUME P PROVE CodeInv'
    BY <2>3, StepCode
  <2>. QED
    BY <2>2, <2>3
<1>4. I /\ J => CodeLineExact
  <2>. SUFFICES ASSUME TInv, CodeInv PROVE CodeLineExact
    BY DEF CodeLineExact
  <2>1. ASSUME NEW n \in DOMAIN builder, builder[n].kind = "code"
        PROVE  OrigLine(ChunkLine(n)) = TemplateLine(builder[n].at)
    <3>1. n \in 1 .. Len(builder)
      BY <2>1 DEF TInv, TypeOK
    <3>2. ChunkLine(n) = LineOf(builder, n)
      BY DEF ChunkLine, LineOf
    <3>3. /\ ChunkLine(n) \in 1 .. Len(lm)
          /\ lm[ChunkLine(n)] = TemplateLine(builder[n].at)
      BY <2>1, <3>1, <3>2 DEF CodeInv, ExactIn
    <3>4. Len(lm) \in Nat
      BY DEF TInv, TypeOK
    <3>. QED
      BY <3>3, <3>4 DEF OrigLine
  <2>. QED
    BY <2>1 DEF CodeLineExact
<1>. QED
  BY <1>1, <1>2, <1>3, <1>4, PTL DEF Spec

=============================================================================
