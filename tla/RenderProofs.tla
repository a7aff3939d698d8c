---------------------------- MODULE RenderProofs ----------------------------
(***************************************************************************)
(* The coroutine engine keeps its promises for any strings, files and      *)
(* depth: its invariants, and that it implements Printing.                 *)
(***************************************************************************)
EXTENDS Render, ListTheorems, SequenceTheorems

(* Strings.                                                                *)

LEMMA CStringType ==
  ASSUME NEW p \in Seq(Byte)
  PROVE  CString(p) \in Seq(Byte)
<1>1. CASE \E n \in 1 .. Len(p) : p[n] = Nul
  <2>. DEFINE k == CHOOSE n \in 1 .. Len(p) :
                     p[n] = Nul /\ \A m \in 1 .. n - 1 : p[m] # Nul
              T == {n \in 1 .. Len(p) : p[n] = Nul}
  <2>1. PICK n \in T : \A m \in T : n <= m
    <3>1. T \subseteq Nat /\ T # {}
      BY <1>1
    <3>. HIDE DEF T
    <3>. QED
      BY <3>1, SmallestElement
  <2>2. n \in 1 .. Len(p) /\ p[n] = Nul /\ \A m \in 1 .. n - 1 : p[m] # Nul
    BY <2>1
  <2>3. k \in 1 .. Len(p)
    BY <2>2
  <2>. HIDE DEF k
  <2>4. SubSeq(p, 1, k - 1) \in Seq(Byte)
    BY <2>3
  <2>. QED
    BY <1>1, <2>4 DEF CString, k
<1>2. CASE ~ \E n \in 1 .. Len(p) : p[n] = Nul
  BY <1>2 DEF CString
<1>. QED
  BY <1>1, <1>2

Values == Pieces \cup {NonString}

LEMMA TextOfType ==
  ASSUME NEW v \in Values
  PROVE  TextOf(v) \in Seq(Byte)
<1>1. CASE v = NonString
  BY <1>1 DEF TextOf
<1>2. CASE v # NonString
  <2>1. v \in Seq(Byte)
    BY <1>2, BytesAssumption DEF Values
  <2>. QED
    BY <1>2, <2>1, CStringType DEF TextOf
<1>. QED
  BY <1>1, <1>2

TextsOf(vals) == [n \in DOMAIN vals |-> TextOf(vals[n])]

LEMMA TextsOfType ==
  ASSUME NEW vals \in Seq(Values)
  PROVE  TextsOf(vals) \in Seq(Seq(Byte))
<1>1. \A n \in 1 .. Len(vals) : TextOf(vals[n]) \in Seq(Byte)
  BY TextOfType
<1>. QED
  BY <1>1 DEF TextsOf

LEMMA TextsType ==
  ASSUME NEW vals \in Seq(Values)
  PROVE  Texts(vals) \in Seq(Byte)
BY TextsOfType, FlattenType DEF Texts, TextsOf

LEMMA TextsEmpty == Texts(<<>>) = <<>>
<1>1. TextsOf(<<>>) = <<>>
  BY DEF TextsOf
<1>. QED
  BY <1>1, FlattenEmpty DEF Texts, TextsOf

LEMMA TextsAppend ==
  ASSUME NEW vals \in Seq(Values), NEW v \in Values
  PROVE  Texts(Append(vals, v)) = Texts(vals) \o TextOf(v)
<1>1. TextsOf(Append(vals, v)) = Append(TextsOf(vals), TextOf(v))
  <2>1. \A n \in 1 .. Len(vals) + 1 :
          Append(vals, v)[n] = IF n = Len(vals) + 1 THEN v ELSE vals[n]
    OBVIOUS
  <2>2. /\ DOMAIN Append(vals, v) = 1 .. Len(vals) + 1
        /\ DOMAIN vals = 1 .. Len(vals) /\ Len(vals) \in Nat
    OBVIOUS
  <2>. DEFINE A == TextsOf(vals)
  <2>3. A = [n \in 1 .. Len(vals) |-> TextOf(vals[n])] /\ Len(A) = Len(vals)
    BY <2>2 DEF TextsOf
  <2>4. Append(A, TextOf(v)) =
          [n \in 1 .. Len(vals) + 1 |-> IF n = Len(vals) + 1 THEN TextOf(v) ELSE TextOf(vals[n])]
    BY <2>2, <2>3
  <2>. QED
    BY <2>1, <2>2, <2>4 DEF TextsOf
<1>2. TextsOf(vals) \in Seq(Seq(Byte)) /\ TextOf(v) \in Seq(Byte)
  BY TextsOfType, TextOfType
<1>. QED
  BY <1>1, <1>2, FlattenAppend DEF Texts, TextsOf

\* One and several values.
LEMMA TextsFew ==
  ASSUME NEW p \in Pieces, NEW q \in Pieces
  PROVE  /\ Texts(<<NonString>>) = <<>>
         /\ Texts(<<p>>) = CString(p)
         /\ Texts(<<p, NonString, q>>) = CString(p) \o CString(q)
<1>1. /\ p \in Values /\ q \in Values /\ NonString \in Values
      /\ TextOf(p) = CString(p) /\ TextOf(q) = CString(q) /\ TextOf(NonString) = <<>>
  BY BytesAssumption DEF Values, TextOf
<1>2. CString(p) \in Seq(Byte) /\ CString(q) \in Seq(Byte)
  BY <1>1, TextOfType
<1>3. /\ <<>> \in Seq(Values) /\ <<p>> \in Seq(Values) /\ <<p, NonString>> \in Seq(Values)
      /\ <<NonString>> = Append(<<>>, NonString) /\ <<p>> = Append(<<>>, p)
      /\ <<p, NonString>> = Append(<<p>>, NonString)
      /\ <<p, NonString, q>> = Append(<<p, NonString>>, q)
  BY <1>1
<1>4. Texts(<<NonString>>) = <<>> \o <<>> /\ Texts(<<p>>) = <<>> \o CString(p)
  BY <1>1, <1>3, TextsAppend, TextsEmpty
<1>5. Texts(<<p>>) = CString(p)
  BY <1>2, <1>4
<1>6. Texts(<<p, NonString>>) = CString(p) \o <<>>
  BY <1>1, <1>3, <1>5, TextsAppend
<1>7. Texts(<<p, NonString>>) = CString(p)
  BY <1>2, <1>6
<1>8. Texts(<<p, NonString, q>>) = CString(p) \o CString(q)
  BY <1>1, <1>3, <1>7, TextsAppend
<1>9. <<>> \o <<>> = <<>>
  OBVIOUS
<1>. QED
  BY <1>4, <1>5, <1>8, <1>9

\* What a template says grows by what it prints.
LEMMA SaidMore ==
  ASSUME NEW said \in Seq(Pieces), NEW p \in Pieces, NEW q \in Pieces
  PROVE  /\ Texts(said \o <<p>>) = Texts(said) \o CString(p)
         /\ Texts(said \o <<p, q>>) = Texts(said) \o (CString(p) \o CString(q))
         /\ said \o <<p>> \in Seq(Pieces) /\ said \o <<p, q>> \in Seq(Pieces)
<1>1. /\ p \in Values /\ q \in Values /\ said \in Seq(Values)
      /\ TextOf(p) = CString(p) /\ TextOf(q) = CString(q)
  BY BytesAssumption DEF Values, TextOf
<1>2. /\ CString(p) \in Seq(Byte) /\ CString(q) \in Seq(Byte) /\ Texts(said) \in Seq(Byte)
  BY <1>1, TextOfType, TextsType
<1>3. /\ said \o <<p>> = Append(said, p) /\ said \o <<p, q>> = Append(Append(said, p), q)
      /\ Append(said, p) \in Seq(Values)
      /\ said \o <<p>> \in Seq(Pieces) /\ said \o <<p, q>> \in Seq(Pieces)
  BY <1>1
<1>4. Texts(Append(said, p)) = Texts(said) \o CString(p)
  BY <1>1, TextsAppend
<1>5. Texts(Append(Append(said, p), q)) = (Texts(said) \o CString(p)) \o CString(q)
  BY <1>1, <1>3, <1>4, TextsAppend
<1>6. (Texts(said) \o CString(p)) \o CString(q) = Texts(said) \o (CString(p) \o CString(q))
  BY <1>2, ConcatAssociative
<1>. QED
  BY <1>3, <1>4, <1>5, <1>6

----------------------------------------------------------------------------
(* The stack.                                                              *)

\* A call collects what its template says, and only render has a file.
FrameOK(f) ==
  /\ f.kind = "render" => f.to \in Files
  /\ f.kind = "render_string" => f.to = NoFile
  /\ f.kind \in Templates => f.text \o Texts(f.vals) = Texts(f.said)

\* The script is at the bottom and nowhere else.
StackOK(s) ==
  /\ s \in Seq(Frames) /\ s # <<>> /\ s[1].kind = "script"
  /\ \A n \in 1 .. Len(s) : FrameOK(s[n]) /\ (n # 1 => s[n].kind # "script")

LEMMA Facts ==
  ASSUME NEW s \in Seq(Frames), s # <<>>
  PROVE  /\ Len(s) \in Nat \ {0} /\ Len(s) \in 1 .. Len(s) /\ 1 \in 1 .. Len(s)
         /\ Last(s) = s[Len(s)] /\ Last(s) \in Frames
         /\ Front(s) \in Seq(Frames) /\ Len(Front(s)) = Len(s) - 1
         /\ \A n \in 1 .. Len(s) - 1 : Front(s)[n] = s[n]
<1>. HIDE DEF Frames
<1>1. Len(s) \in Nat \ {0}
  OBVIOUS
<1>2. Len(s) \in 1 .. Len(s) /\ 1 \in 1 .. Len(s)
  BY <1>1
<1>3. s[Len(s)] \in Frames
  BY <1>2
<1>4. /\ SubSeq(s, 1, Len(s) - 1) \in Seq(Frames) /\ Len(SubSeq(s, 1, Len(s) - 1)) = Len(s) - 1
      /\ \A n \in 1 .. Len(s) - 1 : SubSeq(s, 1, Len(s) - 1)[n] = s[n]
  <2>1. 1 \in 1 .. Len(s) + 1 /\ Len(s) - 1 \in 1 - 1 .. Len(s)
    BY <1>1
  <2>. DEFINE t == SubSeq(s, 1, Len(s) - 1)
  <2>2. /\ t \in Seq(Frames) /\ Len(t) = IF 1 <= Len(s) - 1 THEN Len(s) - 1 - 1 + 1 ELSE 0
        /\ \A i \in 1 .. Len(s) - 1 - 1 + 1 : t[i] = s[1 + i - 1]
    BY <2>1, SubSeqProperties
  <2>. HIDE DEF t
  <2>3. Len(t) = Len(s) - 1
    <3>. DEFINE k == Len(s)
    <3>1. k \in Nat /\ k # 0 /\ Len(t) = IF 1 <= k - 1 THEN k - 1 - 1 + 1 ELSE 0
      BY <1>1, <2>2
    <3>. HIDE DEF k
    <3>2. k - 1 - 1 + 1 = k - 1 /\ (~(1 <= k - 1) => k - 1 = 0)
      BY <3>1
    <3>3. Len(t) = k - 1
      BY <3>1, <3>2
    <3>. QED
      BY <3>3 DEF k
  <2>4. \A i \in 1 .. Len(s) - 1 : i \in 1 .. Len(s) - 1 - 1 + 1 /\ 1 + i - 1 = i
    BY <1>1
  <2>5. \A i \in 1 .. Len(s) - 1 : t[i] = s[i]
    BY <2>2, <2>4
  <2>. QED
    BY <2>2, <2>3, <2>5 DEF t
<1>. QED
  BY <1>1, <1>2, <1>3, <1>4 DEF Last, Front

\* A thread is resumed for the first time.
LEMMA PushOK ==
  ASSUME NEW s, StackOK(s), NEW f \in Frames, FrameOK(f), f.kind # "script"
  PROVE  StackOK(Append(s, f)) /\ Append(s, f)[1] = s[1] /\ Last(Append(s, f)) = f
<1>1. s \in Seq(Frames) /\ s # <<>> /\ Len(s) \in Nat \ {0}
  BY DEF StackOK
<1>. HIDE DEF Frames
<1>2. /\ Append(s, f) \in Seq(Frames) /\ Len(Append(s, f)) = Len(s) + 1
      /\ Append(s, f) # <<>> /\ Append(s, f)[Len(s) + 1] = f
      /\ \A i \in 1 .. Len(s) : Append(s, f)[i] = s[i]
  BY <1>1, AppendIs
<1>. DEFINE t == Append(s, f)
<1>. HIDE DEF t
<1>3. StackOK(t) /\ t[1] = s[1] /\ t[Len(t)] = f
  BY <1>1, <1>2 DEF StackOK, t
<1>. QED
  BY <1>3 DEF Last, t

\* The top thread ends.
LEMMA PopOK ==
  ASSUME NEW s, StackOK(s), Last(s).kind # "script"
  PROVE  StackOK(Front(s)) /\ Front(s)[1] = s[1] /\ Len(s) > 1
<1>1. s \in Seq(Frames) /\ s # <<>>
  BY DEF StackOK
<1>2. /\ Len(s) \in Nat \ {0} /\ Len(s) \in 1 .. Len(s) /\ 1 \in 1 .. Len(s)
      /\ Last(s) = s[Len(s)]
      /\ Front(s) \in Seq(Frames) /\ Len(Front(s)) = Len(s) - 1
      /\ \A n \in 1 .. Len(s) - 1 : Front(s)[n] = s[n]
  BY <1>1, Facts
<1>3. Len(s) > 1
  BY <1>2 DEF StackOK
<1>. DEFINE t == Front(s)
<1>. HIDE DEF t
<1>4. /\ t \in Seq(Frames) /\ Len(t) = Len(s) - 1 /\ t # <<>>
      /\ \A n \in 1 .. Len(s) - 1 : t[n] = s[n]
  BY <1>2, <1>3 DEF t
<1>. QED
  BY <1>2, <1>3, <1>4 DEF StackOK, t

\* The top thread changes.
LEMMA TopOK ==
  ASSUME NEW s, StackOK(s), NEW f \in Frames, FrameOK(f), f.kind = Last(s).kind
  PROVE  /\ StackOK([s EXCEPT ![Len(s)] = f])
         /\ Last(s).kind # "script" => [s EXCEPT ![Len(s)] = f][1] = s[1]
         /\ Last(s).kind = "script" => Len(s) = 1 /\ [s EXCEPT ![Len(s)] = f][1] = f
<1>1. s \in Seq(Frames) /\ s # <<>>
  BY DEF StackOK
<1>2. /\ Len(s) \in Nat \ {0} /\ Len(s) \in 1 .. Len(s) /\ 1 \in 1 .. Len(s)
      /\ Last(s) = s[Len(s)]
  BY <1>1, Facts
<1>. DEFINE t == [s EXCEPT ![Len(s)] = f]
<1>3. /\ t \in Seq(Frames) /\ Len(t) = Len(s) /\ t # <<>> /\ t[Len(s)] = f
      /\ \A n \in 1 .. Len(s) : n # Len(s) => t[n] = s[n]
  BY <1>1, <1>2
<1>. HIDE DEF t
<1>4. StackOK(t)
  BY <1>2, <1>3 DEF StackOK
<1>5. Last(s).kind # "script" => t[1] = s[1]
  BY <1>2, <1>3 DEF StackOK
<1>6. Last(s).kind = "script" => Len(s) = 1 /\ t[1] = f
  BY <1>2, <1>3 DEF StackOK
<1>. QED
  BY <1>4, <1>5, <1>6 DEF t

\* A frame whose template prints in a coroutine.
LEMMA LostOK ==
  ASSUME NEW s, StackOK(s), NEW n \in 1 .. Len(s)
  PROVE  /\ StackOK([s EXCEPT ![n].lost = TRUE])
         /\ [s EXCEPT ![n].lost = TRUE][1].said = s[1].said
         /\ Last([s EXCEPT ![n].lost = TRUE]).kind = Last(s).kind
         /\ Len([s EXCEPT ![n].lost = TRUE]) = Len(s)
<1>1. s \in Seq(Frames) /\ s # <<>>
  BY DEF StackOK
<1>2. /\ Len(s) \in Nat \ {0} /\ Len(s) \in 1 .. Len(s) /\ 1 \in 1 .. Len(s)
  BY <1>1, Facts
<1>. DEFINE g == [s[n] EXCEPT !.lost = TRUE]
            t == [s EXCEPT ![n].lost = TRUE]
<1>3. s[n] \in Frames
  BY <1>1
<1>4. /\ g \in Frames /\ g.kind = s[n].kind /\ g.to = s[n].to /\ g.vals = s[n].vals
      /\ g.text = s[n].text /\ g.said = s[n].said
  BY <1>3 DEF Frames
<1>5. FrameOK(g)
  BY <1>4 DEF FrameOK, StackOK
<1>6. t = [s EXCEPT ![n] = g]
  OBVIOUS
<1>. HIDE DEF g, t
<1>7. /\ t \in Seq(Frames) /\ Len(t) = Len(s) /\ t # <<>> /\ t[n] = g
      /\ \A m \in 1 .. Len(s) : m # n => t[m] = s[m]
  BY <1>1, <1>2, <1>4, <1>6
<1>8. StackOK(t) /\ t[1].said = s[1].said /\ t[Len(t)].kind = s[Len(s)].kind
  BY <1>2, <1>4, <1>5, <1>7 DEF StackOK
<1>. QED
  BY <1>7, <1>8 DEF t, Last

----------------------------------------------------------------------------
(* What the actions do to the top thread.                                  *)

RInv ==
  /\ StackOK(stack)
  /\ stdout \in Seq(Byte)
  /\ files \in [Files -> Contents]
  /\ last \in [ok : BOOLEAN, text : Seq(Byte), said : Seq(Pieces)]
  /\ exit \in {"none", "success", "failure"}
  /\ PrintsDelivered

LEMMA NewFrame ==
  ASSUME NEW kind \in Templates \cup {"script", "coroutine"}, NEW to \in Files \cup {NoFile},
         kind = "render" => to \in Files, kind = "render_string" => to = NoFile
  PROVE  Frame(kind, to) \in Frames /\ FrameOK(Frame(kind, to)) /\ Frame(kind, to).kind = kind
<1>1. /\ <<>> \in Seq(Pieces \cup {NonString}) /\ <<>> \in Seq(Byte) /\ <<>> \in Seq(Pieces)
      /\ <<>> \o <<>> = <<>>
  OBVIOUS
<1>2. Frame(kind, to) \in Frames
  BY <1>1 DEF Frame, Frames
<1>3. FrameOK(Frame(kind, to))
  BY <1>1, TextsEmpty DEF Frame, FrameOK
<1>. QED
  BY <1>2, <1>3 DEF Frame

LEMMA TopFacts ==
  ASSUME RInv
  PROVE  /\ stack \in Seq(Frames) /\ Len(stack) \in 1 .. Len(stack) /\ Top = stack[Len(stack)]
         /\ Top \in Frames /\ FrameOK(Top) /\ (Top.kind = "script" => Len(stack) = 1)
<1>1. stack \in Seq(Frames) /\ stack # <<>>
  BY DEF RInv, StackOK
<1>2. /\ Len(stack) \in Nat \ {0} /\ Len(stack) \in 1 .. Len(stack)
      /\ Last(stack) = stack[Len(stack)] /\ Last(stack) \in Frames
  BY <1>1, Facts
<1>. QED
  BY <1>1, <1>2 DEF RInv, StackOK, Top

\* A template whose values are collected has the text of what it has said.
LEMMA TopText ==
  ASSUME RInv, Top.kind \in Templates, Top.vals = <<>>
  PROVE  Top.text = Texts(Top.said) /\ Top.text \in Seq(Byte)
<1>1. Top.text \o Texts(Top.vals) = Texts(Top.said) /\ Top.text \in Seq(Byte)
  BY TopFacts DEF FrameOK, Frames
<1>. QED
  BY <1>1, TextsEmpty

\* The top thread becomes f.
Becomes(f) ==
  /\ f \in Frames /\ FrameOK(f) /\ f.kind = Top.kind /\ f.to = Top.to
  /\ stack' = [stack EXCEPT ![Len(stack)] = f]

LEMMA TmgPrintBecomes ==
  ASSUME RInv, NEW p \in Pieces, TmgPrint(p)
  PROVE  \E f : Becomes(f) /\ Texts(f.said) = Texts(Top.said) \o CString(p)
<1>. DEFINE f == [Top EXCEPT !.said = @ \o <<p>>, !.vals = <<p>>]
<1>1. /\ Top \in Frames /\ Top = stack[Len(stack)] /\ Len(stack) \in 1 .. Len(stack)
      /\ stack \in Seq(Frames)
  BY TopFacts
<1>2. Top.kind \in Templates /\ Top.vals = <<>>
  BY DEF TmgPrint, Saying, LuaRuns, InTemplate
<1>3. Top.text = Texts(Top.said)
  BY <1>2, TopText
<1>4. /\ Texts(Top.said \o <<p>>) = Texts(Top.said) \o CString(p)
      /\ Top.said \o <<p>> \in Seq(Pieces) /\ Texts(<<p>>) = CString(p)
      /\ <<p>> \in Seq(Pieces \cup {NonString})
  <2>1. Top.said \in Seq(Pieces)
    BY <1>1 DEF Frames
  <2>2. /\ Texts(Top.said \o <<p>>) = Texts(Top.said) \o CString(p)
        /\ Top.said \o <<p>> \in Seq(Pieces)
    BY <2>1, SaidMore
  <2>3. Texts(<<p>>) = CString(p)
    BY TextsFew
  <2>4. <<p>> \in Seq(Pieces \cup {NonString})
    OBVIOUS
  <2>. QED
    BY <2>2, <2>3, <2>4
<1>5. /\ f \in Frames /\ f.kind = Top.kind /\ f.to = Top.to
      /\ f.text = Top.text /\ f.vals = <<p>> /\ f.said = Top.said \o <<p>>
  BY <1>1, <1>4 DEF Frames
<1>6. stack' = [stack EXCEPT ![Len(stack)] = f]
  BY <1>1 DEF TmgPrint, Said
<1>. HIDE DEF f
<1>7. FrameOK(f)
  <2>1. FrameOK(Top)
    BY TopFacts
  <2>. QED
    BY <2>1, <1>3, <1>4, <1>5 DEF FrameOK
<1>. QED
  BY <1>4, <1>5, <1>6, <1>7 DEF Becomes

LEMMA YieldSeveralBecomes ==
  ASSUME RInv, NEW p \in Pieces, NEW q \in Pieces, YieldSeveral(p, q)
  PROVE  \E f : Becomes(f) /\ Texts(f.said) = Texts(Top.said) \o (CString(p) \o CString(q))
<1>. DEFINE f == [Top EXCEPT !.said = @ \o <<p, q>>, !.vals = <<p, NonString, q>>]
<1>1. /\ Top \in Frames /\ Top = stack[Len(stack)] /\ Len(stack) \in 1 .. Len(stack)
      /\ stack \in Seq(Frames)
  BY TopFacts
<1>2. Top.kind \in Templates /\ Top.vals = <<>>
  BY DEF YieldSeveral, Saying, LuaRuns, InTemplate
<1>3. Top.text = Texts(Top.said)
  BY <1>2, TopText
<1>4. /\ Texts(Top.said \o <<p, q>>) = Texts(Top.said) \o (CString(p) \o CString(q))
      /\ Top.said \o <<p, q>> \in Seq(Pieces)
      /\ Texts(<<p, NonString, q>>) = CString(p) \o CString(q)
      /\ <<p, NonString, q>> \in Seq(Pieces \cup {NonString})
  <2>1. Top.said \in Seq(Pieces)
    BY <1>1 DEF Frames
  <2>2. /\ Texts(Top.said \o <<p, q>>) = Texts(Top.said) \o (CString(p) \o CString(q))
        /\ Top.said \o <<p, q>> \in Seq(Pieces)
    BY <2>1, SaidMore
  <2>3. Texts(<<p, NonString, q>>) = CString(p) \o CString(q)
    BY TextsFew
  <2>4. <<p, NonString, q>> \in Seq(Pieces \cup {NonString})
    OBVIOUS
  <2>. QED
    BY <2>2, <2>3, <2>4
<1>5. /\ f \in Frames /\ f.kind = Top.kind /\ f.to = Top.to
      /\ f.text = Top.text /\ f.vals = <<p, NonString, q>> /\ f.said = Top.said \o <<p, q>>
  BY <1>1, <1>4 DEF Frames
<1>6. stack' = [stack EXCEPT ![Len(stack)] = f]
  BY <1>1 DEF YieldSeveral, Said
<1>. HIDE DEF f
<1>7. FrameOK(f)
  <2>1. FrameOK(Top)
    BY TopFacts
  <2>. QED
    BY <2>1, <1>3, <1>4, <1>5 DEF FrameOK
<1>. QED
  BY <1>4, <1>5, <1>6, <1>7 DEF Becomes

LEMMA PrintNonStringBecomes ==
  ASSUME RInv, PrintNonString
  PROVE  \E f : Becomes(f) /\ f.text \o Texts(f.vals) = Top.text \o Texts(Top.vals)
<1>. DEFINE f == [Top EXCEPT !.vals = <<NonString>>]
<1>1. /\ Top \in Frames /\ Top = stack[Len(stack)] /\ Len(stack) \in 1 .. Len(stack)
      /\ stack \in Seq(Frames) /\ FrameOK(Top)
  BY TopFacts
<1>2. Top.vals = <<>>
  BY DEF PrintNonString, LuaRuns
<1>3. <<NonString>> \in Seq(Pieces \cup {NonString}) /\ Texts(<<NonString>>) = <<>>
  <2>1. NonString \in Values /\ <<>> \in Seq(Values)
    BY DEF Values
  <2>2. Texts(Append(<<>>, NonString)) = Texts(<<>>) \o TextOf(NonString)
    BY <2>1, TextsAppend
  <2>3. <<>> \o <<>> = <<>> /\ Append(<<>>, NonString) = <<NonString>>
    OBVIOUS
  <2>. QED
    BY <2>2, <2>3, TextsEmpty DEF TextOf
<1>4. /\ f \in Frames /\ f.kind = Top.kind /\ f.to = Top.to
      /\ f.text = Top.text /\ f.vals = <<NonString>> /\ f.said = Top.said
  BY <1>1, <1>3 DEF Frames
<1>5. stack' = [stack EXCEPT ![Len(stack)] = f]
  BY <1>1 DEF PrintNonString
<1>. HIDE DEF f
<1>6. FrameOK(f) /\ f.text \o Texts(f.vals) = Top.text \o Texts(Top.vals)
  BY <1>1, <1>2, <1>3, <1>4, TextsEmpty DEF FrameOK
<1>. QED
  BY <1>4, <1>5, <1>6 DEF Becomes

LEMMA CollectBecomes ==
  ASSUME RInv, Collect
  PROVE  \E f : Becomes(f) /\ f.said = Top.said /\ f.text \o Texts(f.vals) = Top.text \o Texts(Top.vals)
<1>. DEFINE f == [Top EXCEPT !.text = @ \o Texts(Top.vals), !.vals = <<>>]
<1>1. /\ Top \in Frames /\ Top = stack[Len(stack)] /\ Len(stack) \in 1 .. Len(stack)
      /\ stack \in Seq(Frames) /\ FrameOK(Top)
  BY TopFacts
<1>2. Top.text \in Seq(Byte) /\ Texts(Top.vals) \in Seq(Byte)
  <2>1. Top.vals \in Seq(Values) /\ Top.text \in Seq(Byte)
    BY <1>1 DEF Frames, Values
  <2>. QED
    BY <2>1, TextsType
<1>3. /\ Top.text \o Texts(Top.vals) \in Seq(Byte)
      /\ (Top.text \o Texts(Top.vals)) \o <<>> = Top.text \o Texts(Top.vals)
      /\ <<>> \in Seq(Pieces \cup {NonString})
  BY <1>2
<1>4. /\ f \in Frames /\ f.kind = Top.kind /\ f.to = Top.to
      /\ f.text = Top.text \o Texts(Top.vals) /\ f.vals = <<>> /\ f.said = Top.said
  BY <1>1, <1>3 DEF Frames
<1>5. stack' = [stack EXCEPT ![Len(stack)] = f]
  BY <1>1 DEF Collect
<1>. HIDE DEF f
<1>6. FrameOK(f) /\ f.text \o Texts(f.vals) = Top.text \o Texts(Top.vals)
  BY <1>1, <1>3, <1>4, TextsEmpty DEF FrameOK
<1>. QED
  BY <1>4, <1>5, <1>6 DEF Becomes

\* The main thread is that of the script.
LEMMA LPrintBecomes ==
  ASSUME RInv, NEW p \in Pieces, MainThread, IoWrite(p)
  PROVE  Top.kind = "script" /\ \E f : Becomes(f)
<1>. DEFINE f == [Top EXCEPT !.said = @ \o <<p>>]
<1>1. /\ Top \in Frames /\ Top = stack[Len(stack)] /\ Len(stack) \in 1 .. Len(stack)
      /\ stack \in Seq(Frames) /\ FrameOK(Top)
  BY TopFacts
<1>2. Top.said \o <<p>> \in Seq(Pieces)
  <2>1. Top.said \in Seq(Pieces)
    BY <1>1 DEF Frames
  <2>. QED
    BY <2>1
<1>3. /\ f \in Frames /\ f.kind = Top.kind /\ f.to = Top.to /\ f.said = Top.said \o <<p>>
  BY <1>1, <1>2 DEF Frames
<1>4. stack' = [stack EXCEPT ![Len(stack)] = f]
  BY <1>1 DEF IoWrite, Said
<1>5. Top.kind = "script"
  BY <1>1 DEF MainThread, RInv, StackOK
<1>. HIDE DEF f
<1>6. FrameOK(f)
  BY <1>3, <1>5 DEF FrameOK, Templates
<1>. QED
  BY <1>3, <1>4, <1>5, <1>6 DEF Becomes

LEMMA BecomesOK ==
  ASSUME RInv, NEW f, Becomes(f)
  PROVE  /\ StackOK(stack')
         /\ Top.kind # "script" => stack'[1] = stack[1]
         /\ Top.kind = "script" => stack'[1] = f /\ stack[1] = Top
<1>1. StackOK(stack) /\ f \in Frames /\ FrameOK(f) /\ f.kind = Last(stack).kind
  BY DEF RInv, Becomes, Top
<1>2. /\ StackOK([stack EXCEPT ![Len(stack)] = f])
      /\ Last(stack).kind # "script" => [stack EXCEPT ![Len(stack)] = f][1] = stack[1]
      /\ Last(stack).kind = "script" =>
           Len(stack) = 1 /\ [stack EXCEPT ![Len(stack)] = f][1] = f
  BY <1>1, TopOK
<1>3. stack' = [stack EXCEPT ![Len(stack)] = f]
  BY DEF Becomes
<1>4. StackOK(stack')
  BY <1>2, <1>3, Zenon
<1>5. Top.kind # "script" => stack'[1] = stack[1]
  BY <1>2, <1>3 DEF Top
<1>6. Top.kind = "script" => stack'[1] = f /\ stack[1] = Top
  BY <1>2, <1>3 DEF Top, Last
<1>. QED
  BY <1>4, <1>5, <1>6

\* Some thread below a coroutine is not one.
LEMMA OwnerType ==
  ASSUME RInv
  PROVE  Owner \in 1 .. Len(stack)
<1>. DEFINE T == {k \in 0 .. Len(stack) - 1 : stack[Len(stack) - k].kind # "coroutine"}
<1>1. Len(stack) \in Nat \ {0} /\ stack[1].kind = "script"
  BY DEF RInv, StackOK
<1>2. T \subseteq Nat /\ Len(stack) - 1 \in T
  BY <1>1
<1>3. PICK k \in T : \A j \in T : k <= j
  <2>1. T \subseteq Nat /\ T # {}
    BY <1>2
  <2>. HIDE DEF T
  <2>. QED
    BY <2>1, SmallestElement
<1>4. IsOwner(Len(stack) - k) /\ Len(stack) - k \in 1 .. Len(stack)
  <2>1. k \in 0 .. Len(stack) - 1 /\ stack[Len(stack) - k].kind # "coroutine"
    BY <1>3
  <2>2. ASSUME NEW m \in Len(stack) - k + 1 .. Len(stack)
        PROVE  stack[m].kind = "coroutine"
    <3>1. /\ Len(stack) - m \in 0 .. Len(stack) - 1 /\ ~(k <= Len(stack) - m)
          /\ Len(stack) - (Len(stack) - m) = m
      BY <1>1, <2>1, <2>2
    <3>2. Len(stack) - m \notin T
      BY <1>3, <3>1
    <3>. QED
      BY <3>1, <3>2
  <2>. QED
    BY <1>1, <2>1, <2>2 DEF IsOwner
<1>. QED
  BY <1>4 DEF Owner

\* The top thread, when it is not the script, ends.
LEMMA FrontOK ==
  ASSUME RInv, Top.kind # "script", stack' = Front(stack)
  PROVE  StackOK(stack') /\ stack'[1] = stack[1]
<1>1. StackOK(Front(stack)) /\ Front(stack)[1] = stack[1]
  BY PopOK DEF RInv, Top
<1>. QED
  BY <1>1, Zenon

LEMMA AppendOK ==
  ASSUME RInv, NEW kind \in Templates \cup {"coroutine"}, NEW to \in Files \cup {NoFile},
         kind = "render" => to \in Files, kind = "render_string" => to = NoFile,
         stack' = Append(stack, Frame(kind, to))
  PROVE  StackOK(stack') /\ stack'[1] = stack[1] /\ Last(stack') = Frame(kind, to)
<1>. DEFINE f == Frame(kind, to)
<1>1. f \in Frames /\ FrameOK(f) /\ f.kind # "script"
  BY NewFrame DEF Templates
<1>. HIDE DEF f
<1>2. StackOK(stack) /\ stack' = Append(stack, f)
  BY DEF RInv, f
<1>3. StackOK(Append(stack, f)) /\ Append(stack, f)[1] = stack[1] /\ Last(Append(stack, f)) = f
  BY <1>1, <1>2, PushOK
<1>. QED
  BY <1>2, <1>3, Zenon DEF f

LEMMA LostInCoroutine ==
  ASSUME RInv, PrintInCoroutine
  PROVE  StackOK(stack') /\ stack'[1].said = stack[1].said
<1>. DEFINE t == [stack EXCEPT ![Owner].lost = TRUE]
<1>1. Owner \in 1 .. Len(stack)
  BY OwnerType
<1>2. StackOK(stack) /\ Last(stack).kind = "coroutine"
  BY DEF RInv, PrintInCoroutine, InCoroutine, Top
<1>3. StackOK(t) /\ t[1].said = stack[1].said /\ Last(t).kind = Last(stack).kind
  BY <1>1, <1>2, LostOK
<1>4. stack' = Front(t)
  BY DEF PrintInCoroutine
<1>. HIDE DEF t
<1>5. StackOK(Front(t)) /\ Front(t)[1] = t[1]
  BY <1>2, <1>3, PopOK
<1>6. StackOK(stack')
  BY <1>4, <1>5, Zenon
<1>. QED
  BY <1>3, <1>4, <1>5, <1>6

\* What a successful call returns.
LEMMA SucceededOK ==
  ASSUME RInv, Top.kind \in Templates, Top.vals = <<>>
  PROVE  /\ Succeeded \in [ok : BOOLEAN, text : Seq(Byte), said : Seq(Pieces)]
         /\ Succeeded.text = Texts(Succeeded.said)
<1>1. Top.text = Texts(Top.said) /\ Top.text \in Seq(Byte)
  BY TopText
<1>2. Top.said \in Seq(Pieces)
  BY TopFacts DEF Frames
<1>. QED
  BY <1>1, <1>2 DEF Succeeded

----------------------------------------------------------------------------
(* The invariant.                                                          *)

Outcome == [ok : BOOLEAN, text : Seq(Byte), said : Seq(Pieces)]

\* The script has printed nothing, and the last call is unchanged, has
\* failed, or has returned what its template has said.
LEMMA QuietStep ==
  ASSUME RInv, StackOK(stack'), stdout' = stdout,
         files' \in [Files -> Contents], exit' \in {"none", "success", "failure"},
         last' = last \/ (last' \in Outcome /\ (last'.ok => last'.text = Texts(last'.said)))
  PROVE  RInv'
<1>1. last \in Outcome /\ (last.ok => last.text = Texts(last.said))
  BY DEF RInv, PrintsDelivered, Outcome
<1>2. last' \in Outcome /\ (last'.ok => last'.text = Texts(last'.said))
  BY <1>1
<1>3. stdout' \in Seq(Byte)
  BY DEF RInv
<1>. QED
  BY <1>2, <1>3 DEF RInv, PrintsDelivered, Outcome

LEMMA FailedOK == Failed \in Outcome /\ ~Failed.ok
BY DEF Failed, Outcome

LEMMA InvInit == Init => RInv
<1>. SUFFICES ASSUME Init PROVE RInv
  OBVIOUS
<1>. DEFINE f == Frame("script", NoFile)
<1>1. f \in Frames /\ FrameOK(f) /\ f.kind = "script" /\ f.said = <<>>
  BY NewFrame DEF Templates, Frame
<1>2. stack = <<f>> /\ files = Start /\ stdout = <<>> /\ last = Failed /\ exit = "none"
  BY DEF Init
<1>. HIDE DEF f
<1>3. StackOK(stack) /\ stack[1] = f
  BY <1>1, <1>2 DEF StackOK
<1>4. stdout \in Seq(Byte)
  BY <1>2
<1>5. files \in [Files -> Contents]
  BY <1>2, FilesAssumption DEF Contents
<1>. QED
  BY <1>2, <1>3, <1>4, <1>5, FailedOK DEF RInv, PrintsDelivered, Outcome

LEMMA InvNext == RInv /\ [Next]_vars => RInv'
<1>. SUFFICES ASSUME RInv, [Next]_vars PROVE RInv'
  OBVIOUS
<1>0. /\ StackOK(stack) /\ files \in [Files -> Contents] /\ last \in Outcome
      /\ exit \in {"none", "success", "failure"}
  BY DEF RInv, Outcome
<1>1. CASE CallFails
  BY <1>0, <1>1, FailedOK, QuietStep DEF CallFails
<1>2. CASE Call
  <2>1. UNCHANGED <<files, stdout, last, exit>>
    BY <1>2 DEF Call
  <2>2. StackOK(stack') /\ stack'[1] = stack[1]
    <3>1. CASE \E to \in Files : stack' = Append(stack, Frame("render", to))
      <4>1. PICK to \in Files : stack' = Append(stack, Frame("render", to))
        BY <3>1
      <4>2. /\ "render" \in Templates \cup {"coroutine"} /\ to \in Files \cup {NoFile}
            /\ ("render" = "render" => to \in Files) /\ ("render" = "render_string" => to = NoFile)
        BY DEF Templates
      <4>. QED
        BY <4>1, <4>2, AppendOK
    <3>2. CASE stack' = Append(stack, Frame("render_string", NoFile))
      <4>1. /\ "render_string" \in Templates \cup {"coroutine"} /\ NoFile \in Files \cup {NoFile}
            /\ ("render_string" = "render" => NoFile \in Files)
            /\ ("render_string" = "render_string" => NoFile = NoFile)
        BY DEF Templates
      <4>. QED
        BY <3>2, <4>1, AppendOK
    <3>. QED
      BY <1>2, <3>1, <3>2 DEF Call
  <2>. QED
    BY <1>0, <2>1, <2>2, QuietStep
<1>3. ASSUME NEW p \in Pieces, TmgPrint(p) PROVE RInv'
  <2>1. UNCHANGED <<files, stdout, last, exit>> /\ Top.kind # "script"
    BY <1>3 DEF TmgPrint, InTemplate, Templates
  <2>2. PICK f : Becomes(f)
    BY <1>3, TmgPrintBecomes
  <2>3. StackOK(stack') /\ stack'[1] = stack[1]
    BY <2>1, <2>2, BecomesOK
  <2>. QED
    BY <1>0, <2>1, <2>3, QuietStep
<1>4. ASSUME NEW p \in Pieces, MainThread, IoWrite(p) PROVE RInv'
  <2>1. UNCHANGED <<files, last, exit>> /\ stdout' = stdout \o p
    BY <1>4 DEF IoWrite
  <2>2. PICK f : Becomes(f)
    BY <1>4, LPrintBecomes
  <2>3. Top.kind = "script"
    BY <1>4, LPrintBecomes
  <2>4. StackOK(stack')
    BY <2>2, <2>3, BecomesOK
  <2>5. stdout' \in Seq(Byte)
    <3>1. stdout \in Seq(Byte) /\ p \in Seq(Byte)
      BY BytesAssumption DEF RInv
    <3>. QED
      BY <2>1, <3>1
  <2>. QED
    BY <2>1, <2>4, <2>5 DEF RInv, PrintsDelivered
<1>5. ASSUME NEW p \in Pieces, NEW q \in Pieces, YieldSeveral(p, q) PROVE RInv'
  <2>1. UNCHANGED <<files, stdout, last, exit>> /\ Top.kind # "script"
    BY <1>5 DEF YieldSeveral, InTemplate, Templates
  <2>2. PICK f : Becomes(f)
    BY <1>5, YieldSeveralBecomes
  <2>3. StackOK(stack') /\ stack'[1] = stack[1]
    BY <2>1, <2>2, BecomesOK
  <2>. QED
    BY <1>0, <2>1, <2>3, QuietStep
<1>6. CASE PrintNonString
  <2>1. UNCHANGED <<files, stdout, last, exit>> /\ Top.kind # "script"
    BY <1>6 DEF PrintNonString, InTemplate, Templates
  <2>2. PICK f : Becomes(f)
    BY <1>6, PrintNonStringBecomes
  <2>3. StackOK(stack') /\ stack'[1] = stack[1]
    BY <2>1, <2>2, BecomesOK
  <2>. QED
    BY <1>0, <2>1, <2>3, QuietStep
<1>7. CASE Resume
  <2>1. UNCHANGED <<files, stdout, last, exit>> /\ stack' = Append(stack, Frame("coroutine", NoFile))
    BY <1>7 DEF Resume
  <2>2. /\ "coroutine" \in Templates \cup {"coroutine"} /\ NoFile \in Files \cup {NoFile}
        /\ ("coroutine" = "render" => NoFile \in Files)
        /\ ("coroutine" = "render_string" => NoFile = NoFile)
    OBVIOUS
  <2>3. StackOK(stack') /\ stack'[1] = stack[1]
    BY <2>1, <2>2, AppendOK
  <2>. QED
    BY <1>0, <2>1, <2>3, QuietStep
<1>8. CASE PrintInCoroutine
  <2>1. UNCHANGED <<files, stdout, last, exit>>
    BY <1>8 DEF PrintInCoroutine
  <2>2. StackOK(stack') /\ stack'[1].said = stack[1].said
    BY <1>8, LostInCoroutine
  <2>. QED
    BY <1>0, <2>1, <2>2, QuietStep
<1>9. CASE LeaveCoroutine
  <2>1. /\ UNCHANGED <<files, stdout, last, exit>>
        /\ Top.kind # "script" /\ stack' = Front(stack)
    BY <1>9 DEF LeaveCoroutine, InCoroutine
  <2>2. StackOK(stack') /\ stack'[1] = stack[1]
    BY <2>1, FrontOK
  <2>. QED
    BY <1>0, <2>1, <2>2, QuietStep
<1>10. CASE Collect
  <2>1. UNCHANGED <<files, stdout, last, exit>>
    BY <1>10 DEF Collect
  <2>2. PICK f : Becomes(f) /\ f.said = Top.said
    BY <1>10, CollectBecomes
  <2>3. StackOK(stack') /\ stack'[1].said = stack[1].said
    BY <2>2, BecomesOK
  <2>. QED
    BY <1>0, <2>1, <2>3, QuietStep
<1>11. CASE ReturnString
  <2>1. /\ UNCHANGED <<files, stdout, exit>> /\ last' = Succeeded
        /\ Top.kind # "script" /\ Top.kind \in Templates /\ Top.vals = <<>> /\ stack' = Front(stack)
    BY <1>11 DEF ReturnString, LuaRuns, Templates
  <2>2. StackOK(stack') /\ stack'[1] = stack[1]
    BY <2>1, FrontOK
  <2>3. last' \in Outcome /\ last'.text = Texts(last'.said)
    BY <2>1, SucceededOK DEF Outcome
  <2>. QED
    BY <1>0, <2>1, <2>2, <2>3, QuietStep
<1>12. CASE WriteOutput
  <2>1. /\ UNCHANGED <<stdout, exit>> /\ last' = Succeeded
        /\ Top.kind # "script" /\ Top.kind \in Templates /\ Top.vals = <<>> /\ stack' = Front(stack)
        /\ files' = [files EXCEPT ![Top.to] = IF Top.to \in Full THEN <<>> ELSE Top.text]
    BY <1>12 DEF WriteOutput, LuaRuns, Templates
  <2>2. StackOK(stack') /\ stack'[1] = stack[1]
    BY <2>1, FrontOK
  <2>3. last' \in Outcome /\ last'.text = Texts(last'.said)
    BY <2>1, SucceededOK DEF Outcome
  <2>4. files' \in [Files -> Contents]
    <3>1. <<>> \in Seq(Byte) /\ Top.text \in Seq(Byte)
      BY <2>1, TopText
    <3>. QED
      BY <1>0, <2>1, <3>1 DEF Contents
  <2>. QED
    BY <1>0, <2>1, <2>2, <2>3, <2>4, QuietStep
<1>13. CASE CreateFails
  <2>1. /\ UNCHANGED <<files, stdout, exit>> /\ last' = Failed
        /\ Top.kind # "script" /\ stack' = Front(stack)
    BY <1>13 DEF CreateFails
  <2>2. StackOK(stack') /\ stack'[1] = stack[1]
    BY <2>1, FrontOK
  <2>. QED
    BY <1>0, <2>1, <2>2, FailedOK, QuietStep
<1>14. CASE TemplateError
  <2>1. /\ UNCHANGED <<files, stdout, exit>> /\ last' = Failed
        /\ Top.kind # "script" /\ stack' = Front(stack)
    BY <1>14 DEF TemplateError, InTemplate, Templates
  <2>2. StackOK(stack') /\ stack'[1] = stack[1]
    BY <2>1, FrontOK
  <2>. QED
    BY <1>0, <2>1, <2>2, FailedOK, QuietStep
<1>15. CASE Exit
  <2>1. UNCHANGED <<stack, files, stdout, last>> /\ exit' \in {"success", "failure"}
    BY <1>15 DEF Exit
  <2>. QED
    BY <1>0, <2>1, QuietStep
<1>16. CASE UNCHANGED vars
  BY <1>0, <1>16, QuietStep DEF vars
<1>17. ASSUME NEW p \in Pieces, LPrint(p) PROVE RInv'
  BY <1>3, <1>4, <1>8, <1>17 DEF LPrint
<1>. QED
  BY <1>1, <1>2, <1>3, <1>4, <1>5, <1>6, <1>7, <1>8, <1>9, <1>10, <1>11, <1>12, <1>13,
     <1>14, <1>15, <1>16, <1>17 DEF Next

LEMMA InvType == RInv => TypeOK
<1>. SUFFICES ASSUME RInv PROVE TypeOK
  OBVIOUS
<1>1. stack \in Seq(Frames) /\ stack # <<>> /\ stack[1].kind = "script"
  BY DEF RInv, StackOK
<1>. QED
  BY <1>1 DEF RInv, TypeOK

LEMMA InvAlways == Spec => []RInv
BY InvInit, InvNext, PTL DEF Spec

\* The stack of threads always has the build script at the bottom, and every
\* variable its type, at any depth and for any strings (main.c 291-372).
THEOREM RenderType == Spec => []TypeOK
BY InvAlways, InvType, PTL

\* What a successful render or render_string delivers is what its template has
\* printed, complete and in order, however calls nest (main.c 291-372).
THEOREM RenderDelivers == Spec => []PrintsDelivered
<1>1. RInv => PrintsDelivered
  BY DEF RInv
<1>. QED
  BY <1>1, InvAlways, PTL


----------------------------------------------------------------------------
(* The engine implements Printing.                                         *)

ACall == [to : Files \cup {NoFile}, text : Seq(Byte)]

LEMMA CallOfType ==
  ASSUME NEW f \in Frames
  PROVE  CallOf(f) \in Seq(ACall)
<1>1. f.text \in Seq(Byte) /\ f.vals \in Seq(Values) /\ f.to \in Files \cup {NoFile}
  BY DEF Frames, Values
<1>2. Texts(f.vals) \in Seq(Byte)
  BY <1>1, TextsType
<1>3. f.text \o Texts(f.vals) \in Seq(Byte)
  BY <1>1, <1>2
<1>4. [to |-> f.to, text |-> f.text \o Texts(f.vals)] \in ACall
  BY <1>1, <1>3 DEF ACall
<1>. HIDE DEF ACall
<1>. QED
  BY <1>4 DEF CallOf

CallsOf(frames) == [n \in DOMAIN frames |-> CallOf(frames[n])]

LEMMA CallsOfType ==
  ASSUME NEW s \in Seq(Frames)
  PROVE  CallsOf(s) \in Seq(Seq(ACall))
<1>. HIDE DEF Frames, ACall
<1>1. \A n \in 1 .. Len(s) : CallOf(s[n]) \in Seq(ACall)
  BY CallOfType
<1>. QED
  BY <1>1 DEF CallsOf

LEMMA CallsType ==
  ASSUME NEW s \in Seq(Frames)
  PROVE  Calls(s) \in Seq(ACall)
BY CallsOfType, FlattenType DEF Calls, CallsOf

LEMMA NoCalls == Calls(<<>>) = <<>>
<1>1. [n \in DOMAIN <<>> |-> CallOf(<<>>[n])] = <<>>
  OBVIOUS
<1>. QED
  BY <1>1, FlattenEmpty DEF Calls

LEMMA CallsAppend ==
  ASSUME NEW s \in Seq(Frames), NEW f \in Frames
  PROVE  Calls(Append(s, f)) = Calls(s) \o CallOf(f)
<1>. HIDE DEF Frames, ACall
<1>1. CallsOf(Append(s, f)) = Append(CallsOf(s), CallOf(f))
  <2>1. \A n \in 1 .. Len(s) + 1 :
          Append(s, f)[n] = IF n = Len(s) + 1 THEN f ELSE s[n]
    OBVIOUS
  <2>2. /\ DOMAIN Append(s, f) = 1 .. Len(s) + 1
        /\ DOMAIN s = 1 .. Len(s) /\ Len(s) \in Nat
    OBVIOUS
  <2>. DEFINE A == CallsOf(s)
  <2>3. A = [n \in 1 .. Len(s) |-> CallOf(s[n])] /\ Len(A) = Len(s)
    BY <2>2 DEF CallsOf
  <2>4. Append(A, CallOf(f)) =
          [n \in 1 .. Len(s) + 1 |-> IF n = Len(s) + 1 THEN CallOf(f) ELSE CallOf(s[n])]
    BY <2>2, <2>3
  <2>. QED
    BY <2>1, <2>2, <2>4 DEF CallsOf
<1>2. CallsOf(s) \in Seq(Seq(ACall)) /\ CallOf(f) \in Seq(ACall)
  BY CallsOfType, CallOfType
<1>. QED
  BY <1>1, <1>2, FlattenAppend DEF Calls, CallsOf

\* Stacks of the same calls.
LEMMA CallsSame ==
  ASSUME NEW s \in Seq(Frames), NEW t \in Seq(Frames), Len(s) = Len(t),
         \A n \in 1 .. Len(s) : CallOf(s[n]) = CallOf(t[n])
  PROVE  Calls(s) = Calls(t)
<1>. HIDE DEF Frames
<1>1. CallsOf(s) = CallsOf(t)
  BY DEF CallsOf
<1>. QED
  BY <1>1 DEF Calls, CallsOf

\* A stack is its top thread on the others.
LEMMA TopApart ==
  ASSUME NEW s \in Seq(Frames), s # <<>>, NEW f \in Frames
  PROVE  /\ s = Append(Front(s), Last(s))
         /\ [s EXCEPT ![Len(s)] = f] = Append(Front(s), f)
         /\ Front(s) \in Seq(Frames) /\ Last(s) \in Frames
<1>. HIDE DEF Frames
<1>1. /\ Len(s) \in Nat \ {0} /\ Len(s) \in 1 .. Len(s)
      /\ Last(s) = s[Len(s)] /\ Last(s) \in Frames
      /\ Front(s) \in Seq(Frames) /\ Len(Front(s)) = Len(s) - 1
      /\ \A n \in 1 .. Len(s) - 1 : Front(s)[n] = s[n]
  BY Facts
<1>. DEFINE r == Front(s)
            a == Append(r, Last(s))
            b == Append(r, f)
            t == [s EXCEPT ![Len(s)] = f]
<1>. HIDE DEF r
<1>2. r \in Seq(Frames) /\ Len(r) = Len(s) - 1 /\ \A n \in 1 .. Len(s) - 1 : r[n] = s[n]
  BY <1>1 DEF r
<1>3. /\ a \in Seq(Frames) /\ Len(a) = Len(r) + 1 /\ a[Len(r) + 1] = Last(s)
      /\ \A i \in 1 .. Len(r) : a[i] = r[i]
  BY <1>1, <1>2, AppendIs
<1>4. /\ b \in Seq(Frames) /\ Len(b) = Len(r) + 1 /\ b[Len(r) + 1] = f
      /\ \A i \in 1 .. Len(r) : b[i] = r[i]
  BY <1>1, <1>2, AppendIs
<1>5. /\ t \in Seq(Frames) /\ Len(t) = Len(s) /\ t[Len(s)] = f
      /\ \A n \in 1 .. Len(s) : n # Len(s) => t[n] = s[n]
  BY <1>1
<1>6. /\ Len(r) + 1 = Len(s)
      /\ \A n \in 1 .. Len(s) : n # Len(s) => n \in 1 .. Len(r) /\ n \in 1 .. Len(s) - 1
  BY <1>1, <1>2
<1>. HIDE DEF a, b, t
<1>7. Len(s) = Len(a) /\ \A n \in 1 .. Len(s) : s[n] = a[n]
  BY <1>1, <1>2, <1>3, <1>6
<1>8. Len(t) = Len(b) /\ \A n \in 1 .. Len(t) : t[n] = b[n]
  BY <1>1, <1>2, <1>4, <1>5, <1>6
<1>9. s = a
  BY <1>3, <1>7, SeqEqual
<1>10. t = b
  BY <1>4, <1>5, <1>8, SeqEqual
<1>. QED
  BY <1>1, <1>9, <1>10 DEF a, b, t, r

\* One call at the end of others.
LEMMA OneCall ==
  ASSUME NEW a \in Seq(ACall), NEW x \in ACall
  PROVE  /\ a \o <<x>> # <<>> /\ Len(a \o <<x>>) = Len(a) + 1
         /\ P!Front(a \o <<x>>) = a /\ P!Last(a \o <<x>>) = x
         /\ a \o <<x>> = Append(a, x)
<1>. HIDE DEF ACall
<1>. DEFINE c == Append(a, x)
<1>1. a \o <<x>> = c
  OBVIOUS
<1>2. /\ c \in Seq(ACall) /\ Len(c) = Len(a) + 1 /\ Len(a) \in Nat /\ c # <<>>
      /\ c[Len(a) + 1] = x
      /\ \A i \in 1 .. Len(a) : c[i] = a[i]
  BY AppendIs
<1>3. SubSeq(c, 1, Len(a)) = a
  OBVIOUS
<1>. HIDE DEF c
<1>4. Len(c) - 1 = Len(a)
  BY <1>2
<1>5. P!Front(c) = a
  BY <1>3, <1>4 DEF P!Front
<1>6. P!Last(c) = x
  BY <1>2 DEF P!Last
<1>. QED
  BY <1>1, <1>2, <1>5, <1>6 DEF c

\* The call of the top thread comes after those of the others.
LEMMA TopCall ==
  ASSUME NEW s \in Seq(Frames), s # <<>>
  PROVE  Calls(s) = Calls(Front(s)) \o CallOf(Last(s)) /\ Calls(Front(s)) \in Seq(ACall)
<1>1. Last(s) \in Frames
  BY Facts
<1>2. s = Append(Front(s), Last(s)) /\ Front(s) \in Seq(Frames)
  BY <1>1, TopApart
<1>. DEFINE r == Front(s)
            f == Last(s)
<1>. HIDE DEF r, f
<1>3. r \in Seq(Frames) /\ f \in Frames /\ s = Append(r, f)
  BY <1>1, <1>2 DEF r, f
<1>4. Calls(s) = Calls(r) \o CallOf(f) /\ Calls(r) \in Seq(ACall)
  BY <1>3, CallsAppend, CallsType
<1>. QED
  BY <1>4 DEF r, f

\* A thread that runs no template is none.
LEMMA NoCall ==
  ASSUME NEW s \in Seq(Frames), s # <<>>, Last(s).kind \notin Templates
  PROVE  Calls(Front(s)) = Calls(s)
<1>1. CallOf(Last(s)) = <<>>
  BY DEF CallOf
<1>2. Calls(s) = Calls(Front(s)) \o <<>> /\ Calls(Front(s)) \in Seq(ACall)
  BY <1>1, TopCall
<1>. HIDE DEF ACall
<1>. QED
  BY <1>2

\* The call of a template that runs, and its text.
TopACall == [to |-> Top.to, text |-> Top.text \o Texts(Top.vals)]

LEMMA TemplateCall ==
  ASSUME RInv, Top.kind \in Templates
  PROVE  /\ TopACall \in ACall /\ Calls(Front(stack)) \in Seq(ACall)
         /\ Calls(stack) = Calls(Front(stack)) \o <<TopACall>>
<1>1. stack \in Seq(Frames) /\ stack # <<>> /\ Top \in Frames
  BY TopFacts DEF RInv, StackOK
<1>2. Calls(stack) = Calls(Front(stack)) \o CallOf(Top) /\ Calls(Front(stack)) \in Seq(ACall)
  BY <1>1, TopCall DEF Top
<1>3. CallOf(Top) = <<TopACall>>
  BY DEF CallOf, TopACall
<1>4. TopACall \in ACall
  <2>1. Top.text \in Seq(Byte) /\ Top.vals \in Seq(Values) /\ Top.to \in Files \cup {NoFile}
    BY <1>1 DEF Frames, Values
  <2>2. Top.text \o Texts(Top.vals) \in Seq(Byte)
    <3>1. Texts(Top.vals) \in Seq(Byte)
      BY <2>1, TextsType
    <3>. QED
      BY <2>1, <3>1
  <2>. QED
    BY <2>1, <2>2 DEF TopACall, ACall
<1>. QED
  BY <1>2, <1>3, <1>4

\* The top thread changes.
LEMMA CallsBecome ==
  ASSUME RInv, NEW f, Becomes(f)
  PROVE  Calls(stack') = Calls(Front(stack)) \o CallOf(f)
<1>1. stack \in Seq(Frames) /\ stack # <<>> /\ f \in Frames
  BY DEF RInv, StackOK, Becomes
<1>2. stack' = Append(Front(stack), f)
  <2>1. [stack EXCEPT ![Len(stack)] = f] = Append(Front(stack), f)
    BY <1>1, TopApart
  <2>. QED
    BY <2>1, Zenon DEF Becomes
<1>3. Front(stack) \in Seq(Frames)
  BY <1>1, TopApart
<1>4. Calls(Append(Front(stack), f)) = Calls(Front(stack)) \o CallOf(f)
  BY <1>1, <1>3, CallsAppend
<1>. QED
  BY <1>2, <1>4

\* Text is printed.
LEMMA Grows ==
  ASSUME RInv, Top.kind \in Templates, NEW f, Becomes(f), NEW u \in Seq(Byte),
         Texts(f.said) = Texts(Top.said) \o u, UNCHANGED <<files, last, stdout>>
  PROVE  P!Grow
<1>. DEFINE r == Calls(Front(stack))
            x == TopACall
            y == [to |-> f.to, text |-> f.text \o Texts(f.vals)]
<1>1. /\ FrameOK(Top) /\ FrameOK(f) /\ f.kind \in Templates /\ f.to = Top.to /\ Top \in Frames
      /\ Texts(Top.said) \in Seq(Byte)
  <2>1. Top \in Frames /\ FrameOK(Top)
    BY TopFacts
  <2>2. Top.said \in Seq(Values)
    BY <2>1, BytesAssumption DEF Frames, Values
  <2>. QED
    BY <2>1, <2>2, TextsType DEF Becomes
<1>2. x.text = Texts(Top.said) /\ y.text = Texts(Top.said) \o u /\ y.to = x.to
  BY <1>1 DEF FrameOK, TopACall
<1>3. x \in ACall /\ r \in Seq(ACall) /\ Calls(stack) = r \o <<x>>
  BY TemplateCall
<1>4. y \in ACall
  <2>1. y.text \in Seq(Byte)
    <3>. DEFINE v == Texts(Top.said)
    <3>. HIDE DEF v
    <3>1. v \in Seq(Byte) /\ y.text = v \o u
      BY <1>1, <1>2 DEF v
    <3>2. v \o u \in Seq(Byte)
      BY <3>1
    <3>. QED
      BY <3>1, <3>2
  <2>. QED
    BY <1>1, <2>1 DEF ACall, Frames
<1>5. Calls(stack') = r \o <<y>>
  <2>1. CallOf(f) = <<y>>
    BY <1>1 DEF CallOf
  <2>. QED
    BY <2>1, CallsBecome
<1>. HIDE DEF r, x, y
<1>6. /\ r \o <<x>> # <<>> /\ Len(r \o <<x>>) = Len(r) + 1
      /\ P!Front(r \o <<x>>) = r /\ P!Last(r \o <<x>>) = x
  BY <1>3, OneCall
<1>7. /\ Len(r \o <<y>>) = Len(r) + 1
      /\ P!Front(r \o <<y>>) = r /\ P!Last(r \o <<y>>) = y
  BY <1>3, <1>4, OneCall
<1>8. P!IsPrefix(x.text, y.text) /\ y.text \in Seq(Byte)
  <2>. DEFINE v == Texts(Top.said)
  <2>. HIDE DEF v
  <2>1. v \in Seq(Byte)
    BY <1>1 DEF v
  <2>2. Len(v) <= Len(v \o u) /\ SubSeq(v, 1, Len(v)) = SubSeq(v \o u, 1, Len(v)) /\ v \o u \in Seq(Byte)
    BY <2>1
  <2>. QED
    BY <1>2, <2>2 DEF P!IsPrefix, v
<1>. QED
  BY <1>2, <1>3, <1>5, <1>6, <1>7, <1>8 DEF P!Grow

\* The text of the call stays, and so do the files and the last result.
LEMMA Stutters ==
  ASSUME Calls(stack') = Calls(stack), UNCHANGED <<files, last, stdout>>
  PROVE  UNCHANGED P!vars
BY DEF P!vars

\* A call ends.
LEMMA Ends ==
  ASSUME RInv, Top.kind \in Templates, Top.vals = <<>>, stack' = Front(stack)
  PROVE  /\ Calls(stack) # <<>> /\ Calls(stack') = P!Front(Calls(stack))
         /\ P!Last(Calls(stack)).to = Top.to /\ P!Last(Calls(stack)).text = Top.text
<1>. DEFINE r == Calls(Front(stack))
            x == TopACall
<1>1. x \in ACall /\ r \in Seq(ACall) /\ Calls(stack) = r \o <<x>>
  BY TemplateCall
<1>2. x.to = Top.to /\ x.text = Top.text
  <2>1. Top.text \in Seq(Byte) /\ Top.text \o <<>> = Top.text
    <3>1. Top.text \in Seq(Byte)
      BY TopText
    <3>. QED
      BY <3>1
  <2>. QED
    BY <2>1, TextsEmpty DEF TopACall
<1>3. Calls(stack') = r
  OBVIOUS
<1>. HIDE DEF r, x
<1>4. /\ r \o <<x>> # <<>> /\ P!Front(r \o <<x>>) = r /\ P!Last(r \o <<x>>) = x
  BY <1>1, OneCall
<1>. QED
  BY <1>1, <1>2, <1>3, <1>4

\* The script calls nothing while it runs itself.
LEMMA ScriptAlone ==
  ASSUME stack \in Seq(Frames), StackOK(stack), Len(stack) = 1
  PROVE  Calls(stack) = <<>>
<1>1. stack = Append(<<>>, stack[1]) /\ <<>> \in Seq(Frames) /\ stack[1] \in Frames
  <2>. HIDE DEF Frames
  <2>. QED
    OBVIOUS
<1>2. CallOf(stack[1]) = <<>>
  BY DEF StackOK, CallOf, Templates
<1>3. Calls(stack) = Calls(<<>>) \o <<>>
  BY <1>1, <1>2, CallsAppend
<1>4. Calls(<<>>) = <<>>
  BY NoCalls
<1>5. <<>> \o <<>> = <<>>
  OBVIOUS
<1>. QED
  BY <1>3, <1>4, <1>5

\* Every step of the engine is a step of Printing, or none of it.
LEMMA StepImplements == RInv /\ [Next]_vars => [P!Next]_P!vars
<1>. SUFFICES ASSUME RInv, [Next]_vars PROVE P!Next \/ UNCHANGED P!vars
  OBVIOUS
<1>0. stack \in Seq(Frames) /\ stack # <<>> /\ StackOK(stack)
  BY DEF RInv, StackOK
<1>1. CASE CallFails
  <2>1. P!Reject
    BY <1>1 DEF CallFails, Failed, P!Reject, P!Failure
  <2>. QED
    BY <2>1 DEF P!Next
<1>2. CASE Call
  <2>1. UNCHANGED <<files, last, stdout>>
    BY <1>2 DEF Call
  <2>2. ASSUME NEW kind \in Templates, NEW to \in Files \cup {NoFile},
               kind = "render" => to \in Files, kind = "render_string" => to = NoFile,
               stack' = Append(stack, Frame(kind, to))
        PROVE  P!Begin
    <3>. DEFINE f == Frame(kind, to)
                x == [to |-> to, text |-> <<>>]
    <3>1. f \in Frames
      BY <2>2, NewFrame
    <3>2. CallOf(f) = <<x>>
      <4>1. <<>> \o <<>> = <<>>
        OBVIOUS
      <4>. QED
        BY <4>1, TextsEmpty DEF CallOf, Frame
    <3>3. Calls(stack') = Calls(stack) \o CallOf(f)
      <4>1. Calls(Append(stack, f)) = Calls(stack) \o CallOf(f)
        BY <1>0, <3>1, CallsAppend
      <4>. QED
        BY <2>2, <4>1
    <3>4. x \in ACall /\ Calls(stack) \in Seq(ACall)
      <4>1. Calls(stack) \in Seq(ACall)
        BY <1>0, CallsType
      <4>. QED
        BY <4>1 DEF ACall
    <3>. HIDE DEF x
    <3>5. Calls(stack) \o <<x>> = Append(Calls(stack), x)
      BY <3>4, OneCall
    <3>6. Calls(stack') = Append(Calls(stack), [to |-> to, text |-> <<>>])
      BY <3>2, <3>3, <3>5 DEF x
    <3>. QED
      BY <2>1, <3>6 DEF P!Begin
  <2>3. P!Begin
    <3>1. CASE \E to \in Files : stack' = Append(stack, Frame("render", to))
      <4>1. PICK to \in Files : stack' = Append(stack, Frame("render", to))
        BY <3>1
      <4>2. /\ "render" \in Templates /\ to \in Files \cup {NoFile}
            /\ ("render" = "render" => to \in Files) /\ ("render" = "render_string" => to = NoFile)
        BY DEF Templates
      <4>. QED
        BY <2>2, <4>1, <4>2
    <3>2. CASE stack' = Append(stack, Frame("render_string", NoFile))
      <4>1. /\ "render_string" \in Templates /\ NoFile \in Files \cup {NoFile}
            /\ ("render_string" = "render" => NoFile \in Files)
            /\ ("render_string" = "render_string" => NoFile = NoFile)
        BY DEF Templates
      <4>. QED
        BY <2>2, <3>2, <4>1
    <3>. QED
      BY <1>2, <3>1, <3>2 DEF Call
  <2>. QED
    BY <2>3 DEF P!Next
<1>3. ASSUME NEW p \in Pieces, TmgPrint(p) PROVE P!Next
  <2>1. UNCHANGED <<files, last, stdout>> /\ Top.kind \in Templates
    BY <1>3 DEF TmgPrint, InTemplate
  <2>2. PICK f : Becomes(f) /\ Texts(f.said) = Texts(Top.said) \o CString(p)
    BY <1>3, TmgPrintBecomes
  <2>3. CString(p) \in Seq(Byte)
    BY BytesAssumption, CStringType
  <2>4. P!Grow
    BY <2>1, <2>2, <2>3, Grows
  <2>. QED
    BY <2>4 DEF P!Next
<1>4. ASSUME NEW p \in Pieces, MainThread, IoWrite(p) PROVE P!Next
  <2>1. UNCHANGED <<files, last>> /\ stdout' = stdout \o p
    BY <1>4 DEF IoWrite
  <2>2. PICK f : Becomes(f)
    BY <1>4, LPrintBecomes
  <2>3. CallOf(f) = <<>> /\ CallOf(Top) = <<>> /\ Top.kind = "script"
    BY <1>4, <2>2, LPrintBecomes DEF Becomes, CallOf, Templates
  <2>4. Calls(stack') = Calls(stack)
    BY <1>0, <2>2, <2>3, CallsBecome, TopCall DEF Top
  <2>5. Calls(stack) = <<>>
    BY <1>0, <1>4, <2>3, ScriptAlone DEF MainThread
  <2>6. /\ stdout \in Seq(Byte) /\ stdout' \in Seq(Byte)
        /\ P!IsPrefix(stdout, stdout')
    <3>1. stdout \in Seq(Byte) /\ p \in Seq(Byte)
      BY BytesAssumption DEF RInv
    <3>2. /\ Len(stdout) <= Len(stdout \o p) /\ stdout \o p \in Seq(Byte)
          /\ SubSeq(stdout, 1, Len(stdout)) = SubSeq(stdout \o p, 1, Len(stdout))
      BY <3>1
    <3>. QED
      BY <2>1, <3>1, <3>2 DEF P!IsPrefix
  <2>7. P!Write
    BY <2>1, <2>4, <2>5, <2>6 DEF P!Write
  <2>. QED
    BY <2>7 DEF P!Next
<1>5. ASSUME NEW p \in Pieces, NEW q \in Pieces, YieldSeveral(p, q) PROVE P!Next
  <2>1. UNCHANGED <<files, last, stdout>> /\ Top.kind \in Templates
    BY <1>5 DEF YieldSeveral, InTemplate
  <2>2. PICK f : Becomes(f) /\ Texts(f.said) = Texts(Top.said) \o (CString(p) \o CString(q))
    BY <1>5, YieldSeveralBecomes
  <2>3. CString(p) \o CString(q) \in Seq(Byte)
    <3>1. CString(p) \in Seq(Byte) /\ CString(q) \in Seq(Byte)
      BY BytesAssumption, CStringType
    <3>. QED
      BY <3>1
  <2>4. P!Grow
    BY <2>1, <2>2, <2>3, Grows
  <2>. QED
    BY <2>4 DEF P!Next
<1>6. ASSUME NEW f, Becomes(f), f.text \o Texts(f.vals) = Top.text \o Texts(Top.vals),
             UNCHANGED <<files, last, stdout>>
      PROVE  UNCHANGED P!vars
  <2>1. CallOf(f) = CallOf(Top)
    BY <1>6 DEF CallOf, Becomes
  <2>2. Calls(stack') = Calls(stack)
    BY <1>0, <1>6, <2>1, CallsBecome, TopCall DEF Top
  <2>. QED
    BY <1>6, <2>2, Stutters
<1>7. CASE PrintNonString
  <2>1. UNCHANGED <<files, last, stdout>>
    BY <1>7 DEF PrintNonString
  <2>. QED
    BY <1>6, <1>7, <2>1, PrintNonStringBecomes
<1>8. CASE Resume
  <2>. DEFINE f == Frame("coroutine", NoFile)
  <2>1. UNCHANGED <<files, last, stdout>> /\ stack' = Append(stack, f)
    BY <1>8 DEF Resume
  <2>2. f \in Frames /\ CallOf(f) = <<>>
    BY NewFrame DEF Templates, CallOf, Frame
  <2>. HIDE DEF f
  <2>3. Calls(Append(stack, f)) = Calls(stack) \o <<>> /\ Calls(stack) \in Seq(ACall)
    BY <1>0, <2>2, CallsAppend, CallsType
  <2>4. Calls(stack) \o <<>> = Calls(stack)
    <3>. HIDE DEF ACall
    <3>. QED
      BY <2>3
  <2>. QED
    BY <2>1, <2>3, <2>4, Stutters
<1>9. CASE PrintInCoroutine
  <2>. DEFINE t == [stack EXCEPT ![Owner].lost = TRUE]
  <2>1. UNCHANGED <<files, last, stdout>> /\ stack' = Front(t) /\ Last(stack).kind = "coroutine"
    BY <1>9 DEF PrintInCoroutine, InCoroutine, Top
  <2>2. Owner \in 1 .. Len(stack)
    BY OwnerType
  <2>3. StackOK(t) /\ Last(t).kind = Last(stack).kind /\ Len(t) = Len(stack)
    BY <1>0, <2>2, LostOK
  <2>4. \A n \in 1 .. Len(stack) : CallOf(stack[n]) = CallOf(t[n])
    <3>1. \A n \in 1 .. Len(stack) : stack[n] \in Frames
      <4>. HIDE DEF Frames
      <4>. QED
        BY <1>0
    <3>2. \A n \in 1 .. Len(stack) :
            /\ t[n].kind = stack[n].kind /\ t[n].to = stack[n].to
            /\ t[n].text = stack[n].text /\ t[n].vals = stack[n].vals
      BY <1>0, <3>1 DEF Frames
    <3>. HIDE DEF t
    <3>. QED
      BY <3>2 DEF CallOf
  <2>. HIDE DEF t
  <2>5. t \in Seq(Frames) /\ t # <<>> /\ Last(t).kind \notin Templates
    BY <2>1, <2>3 DEF StackOK, Templates
  <2>6. Calls(stack) = Calls(t)
    BY <1>0, <2>3, <2>4, <2>5, CallsSame
  <2>7. Calls(Front(t)) = Calls(t)
    BY <2>5, NoCall
  <2>. QED
    BY <2>1, <2>6, <2>7, Stutters
<1>10. CASE LeaveCoroutine
  <2>1. UNCHANGED <<files, last, stdout>> /\ stack' = Front(stack) /\ Last(stack).kind \notin Templates
    BY <1>10 DEF LeaveCoroutine, InCoroutine, Top, Templates
  <2>2. Calls(Front(stack)) = Calls(stack)
    BY <1>0, <2>1, NoCall
  <2>. QED
    BY <2>1, <2>2, Stutters
<1>11. CASE Collect
  <2>1. UNCHANGED <<files, last, stdout>>
    BY <1>11 DEF Collect
  <2>. QED
    BY <1>6, <1>11, <2>1, CollectBecomes
<1>12. CASE ReturnString
  <2>1. /\ UNCHANGED <<files, stdout>> /\ last' = Succeeded /\ stack' = Front(stack)
        /\ Top.kind = "render_string" /\ Top.kind \in Templates /\ Top.vals = <<>>
    BY <1>12 DEF ReturnString, LuaRuns, Templates
  <2>2. Top.to = NoFile
    BY <2>1, TopFacts DEF FrameOK
  <2>3. P!Deliver
    BY <2>1, <2>2, Ends DEF P!Deliver, P!Success, Succeeded
  <2>. QED
    BY <2>3 DEF P!Next
<1>13. CASE WriteOutput
  <2>1. /\ last' = Succeeded /\ stack' = Front(stack)
        /\ files' = [files EXCEPT ![Top.to] = IF Top.to \in Full THEN <<>> ELSE Top.text]
        /\ UNCHANGED stdout
        /\ Top.kind = "render" /\ Top.kind \in Templates /\ Top.vals = <<>>
    BY <1>13 DEF WriteOutput, LuaRuns, Templates
  <2>2. Top.to # NoFile
    BY <2>1, TopFacts, FilesAssumption DEF FrameOK
  <2>3. P!Deliver
    BY <2>1, <2>2, Ends DEF P!Deliver, P!Success, Succeeded
  <2>. QED
    BY <2>3 DEF P!Next
<1>14. ASSUME Top.kind \in Templates, Top.vals = <<>>, stack' = Front(stack), last' = Failed,
              UNCHANGED <<files, stdout>>
       PROVE  P!Next
  <2>1. P!Fail
    BY <1>14, Ends DEF P!Fail, P!Failure, Failed
  <2>. QED
    BY <2>1 DEF P!Next
<1>15. CASE CreateFails
  BY <1>14, <1>15 DEF CreateFails, LuaRuns, Templates
<1>16. CASE TemplateError
  BY <1>14, <1>16 DEF TemplateError, LuaRuns, InTemplate
<1>17. CASE Exit
  BY <1>17, Stutters DEF Exit
<1>18. CASE UNCHANGED vars
  BY <1>18, Stutters DEF vars
<1>19. ASSUME NEW p \in Pieces, LPrint(p) PROVE P!Next \/ UNCHANGED P!vars
  BY <1>3, <1>4, <1>9, <1>19 DEF LPrint
<1>. QED
  BY <1>1, <1>2, <1>3, <1>4, <1>5, <1>7, <1>8, <1>9, <1>10, <1>11, <1>12, <1>13, <1>15,
     <1>16, <1>17, <1>18, <1>19 DEF Next

LEMMA InitImplements == Init => P!Init
<1>. SUFFICES ASSUME Init PROVE P!Init
  OBVIOUS
<1>. DEFINE f == Frame("script", NoFile)
<1>1. f \in Frames /\ CallOf(f) = <<>>
  BY NewFrame DEF Templates, CallOf, Frame
<1>. HIDE DEF f
<1>2. Calls(<<>>) = <<>>
  BY NoCalls
<1>3. Calls(stack) = <<>>
  <2>1. stack = <<f>>
    BY DEF Init, f
  <2>2. <<>> \in Seq(Frames) /\ Append(<<>>, f) = <<f>> /\ <<>> \o <<>> = <<>>
    OBVIOUS
  <2>3. Calls(Append(<<>>, f)) = Calls(<<>>) \o CallOf(f)
    BY <1>1, <2>2, CallsAppend
  <2>. QED
    BY <1>1, <1>2, <2>1, <2>2, <2>3
<1>. QED
  BY <1>3 DEF Init, Failed, P!Init, P!Failure

\* The engine implements Printing: texts of nested calls do not mix, a failed
\* call leaves no trace, and a successful one delivers exactly its text to its
\* caller or its file, for any strings, files and depth (main.c 291-372).
THEOREM RenderImplements == Spec => ImplementsPrinting
<1>1. Init => P!Init
  BY InitImplements
<1>2. RInv /\ [Next]_vars => [P!Next]_P!vars
  BY StepImplements
<1>3. Spec => []RInv
  BY InvAlways
<1>. QED
  BY <1>1, <1>2, <1>3, PTL DEF Spec, ImplementsPrinting, P!Spec
=============================================================================
