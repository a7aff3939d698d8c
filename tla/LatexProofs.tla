----------------------------- MODULE LatexProofs -----------------------------
(***************************************************************************)
(* Proofs about the LaTeX generator.                                       *)
(*                                                                         *)
(* The files, for every way of rendering trees, every TeX and any number   *)
(* of writes: a .log is about a document that was written before.          *)
(*                                                                         *)
(* The texts, for every tree.  A text is read as a walk, token by token,   *)
(* through the places in a line (Lay), and Goes(A, B) are the texts that   *)
(* lead from each place of A to one of B.  Each kind of node is in such a  *)
(* set if its children are, and the trees are taken node by node, from the *)
(* leaves to the root.                                                     *)
(*                                                                         *)
(* What TeX sees of them.  Says(m) are the texts in which TeX sees m       *)
(* wherever in a document they stand; it is closed under one text after    *)
(* another, and space says nothing.  What each kind of node renders to     *)
(* says what it stands for if that is so of its children, and the trees    *)
(* are taken from the leaves to the root again, now only the nodes that    *)
(* are reached from the root.                                              *)
(***************************************************************************)
EXTENDS LatexDoc, ListTheorems, SequenceTheorems, TLAPS

\* The files are records of these fields.
Shapes ==
  /\ tex \in [of : Nat, ok : BOOLEAN]
  /\ log \in [of : Nat, errors : BOOLEAN]
  /\ run \in [started : BOOLEAN, ok : BOOLEAN]
  /\ ret \in [ok : BOOLEAN, about : Nat]

FilesInv == Shapes /\ log.of <= tex.of /\ ret.about <= tex.of

LEMMA FilesInvInit == FilesInit => FilesInv
BY DEF FilesInit, NoFile, NoRun, FilesInv, Shapes

LEMMA WriteKeeps ==
  ASSUME FilesInv, WriteFile
  PROVE  FilesInv'
<1>. USE DEF FilesInv, Shapes, WriteFile
<1>1. tex' \in [of : Nat, ok : BOOLEAN] /\ tex.of <= tex'.of
  <2>1. CASE tex' = tex
    BY <2>1
  <2>2. CASE \E whole \in BOOLEAN : tex' = [of |-> tex.of + 1, ok |-> whole /\ Accepted(node)]
    <3>1. PICK whole \in BOOLEAN : tex' = [of |-> tex.of + 1, ok |-> whole /\ Accepted(node)]
      BY <2>2
    <3>2. (whole /\ Accepted(node)) \in BOOLEAN
      OBVIOUS
    <3>. QED
      BY <3>1, <3>2
  <2>. QED
    BY <2>1, <2>2
<1>. QED
  BY <1>1

LEMMA EngineKeeps ==
  ASSUME FilesInv, Engine
  PROVE  FilesInv'
<1>. USE DEF FilesInv, Shapes, Engine
<1>1. CASE run' \in [started : BOOLEAN, ok : {FALSE}] /\ UNCHANGED log
  BY <1>1
<1>2. CASE /\ run' = [started |-> TRUE, ok |-> tex.ok]
           /\ log' = [of |-> tex.of, errors |-> ~tex.ok]
  BY <1>2
<1>3. CASE /\ run' = [started |-> TRUE, ok |-> FALSE]
           /\ log' = [of |-> tex.of, errors |-> FALSE]
  BY <1>3
<1>4. CASE /\ log.of = tex.of
           /\ run' = [started |-> TRUE, ok |-> ~log.errors] /\ UNCHANGED log
  BY <1>4
<1>. QED
  BY <1>1, <1>2, <1>3, <1>4

LEMMA CollectKeeps ==
  ASSUME FilesInv, Collect
  PROVE  FilesInv'
<1>. USE DEF FilesInv, Shapes, Collect
<1>. DEFINE About == IF ~run.ok /\ log.errors THEN log.of ELSE tex.of
<1>1. About \in Nat /\ About <= tex.of
  OBVIOUS
<1>2. ret' = [ok |-> run.ok, about |-> About]
  OBVIOUS
<1>. HIDE DEF About
<1>3. ret' \in [ok : BOOLEAN, about : Nat] /\ ret'.about <= tex.of
  BY <1>1, <1>2
<1>4. run' \in [started : BOOLEAN, ok : BOOLEAN]
  BY DEF NoRun
<1>. QED
  BY <1>1, <1>2, <1>3, <1>4

LEMMA FilesInvStep ==
  ASSUME FilesInv, [FilesNext]_<<node, filevars>>
  PROVE  FilesInv'
<1>1. CASE WriteFile
  BY <1>1, WriteKeeps
<1>2. CASE Engine
  BY <1>2, EngineKeeps
<1>3. CASE Collect
  BY <1>3, CollectKeeps
<1>4. CASE UNCHANGED filevars
  BY <1>4 DEF filevars, FilesInv, Shapes
<1>. QED
  BY <1>1, <1>2, <1>3, <1>4 DEF FilesNext, Script

LEMMA FilesInvariant == FilesSpec => []FilesInv
<1>1. FilesInit => FilesInv
  BY FilesInvInit
<1>2. FilesInv /\ [FilesNext]_<<node, filevars>> => FilesInv'
  BY FilesInvStep
<1>. QED
  BY <1>1, <1>2, PTL DEF FilesSpec

\* Types: whatever is written and compiled, a .log and what L.compile reports
\* are about a document that was written (latex.lua 675-743).
THEOREM FilesType == FilesSpec => []FilesTypeOK
<1>1. FilesInv => FilesTypeOK
  BY DEF FilesInv, Shapes, FilesTypeOK
<1>. QED
  BY <1>1, FilesInvariant, PTL

\* For every way of rendering trees, a tree that L.render raises an error for
\* leaves the file that is there as it was (latex.lua 676-677).
THEOREM FilesRaised == FilesSpec => RaisedLeavesFile
<1>1. ASSUME [FilesNext]_<<node, filevars>>
      PROVE  [~Renders(node) => UNCHANGED tex]_<<node, filevars>>
  <2>1. CASE WriteFile
    BY <2>1 DEF WriteFile
  <2>2. CASE Engine \/ Collect
    BY <2>2 DEF Engine, Collect
  <2>3. CASE UNCHANGED filevars
    BY <2>3 DEF filevars
  <2>. QED
    BY <1>1, <2>1, <2>2, <2>3 DEF FilesNext, Script
<1>. QED
  BY <1>1, PTL DEF FilesSpec, RaisedLeavesFile

----------------------------------------------------------------------------
(* Where the tokens of a text lead in a line.                              *)

\* The tokens of the renderer itself.
Words ==
  {Newline, Space, Indent, "%", "\\%", "[", "opt", "]", "{", "}", "\\\\", "\\item", "\\cmd",
   "\\section", "\\label", "\\caption", "\\rule", "\\centering", "\\includegraphics",
   "\\resizebox", "\\documentclass", "\\title", "\\author", "\\date", "\\maketitle",
   "\\tableofcontents", "\\bib", " & ", "\\begin{env}", "\\end{env}", "\\begin{list}", "\\end{list}", "\\begin{math}", "\\end{math}",
   "\\begin{verbatim}", "\\end{verbatim}", "\\begin{tabular}", "\\end{tabular}",
   "\\begin{float}", "\\end{float}", "\\begin{document}", "\\end{document}"}

Token == Chars \cup Raw \cup Words

\* What a token makes of the place in a line: at its start, behind the start
\* of a group or cell, or further on.  A text of which only spaces have been seen, and
\* not what was before it, is fresh.
Lay(q, x) ==
  CASE x = Newline -> IF q = "fresh" THEN "fresh" ELSE "line"
    [] x = Space -> IF q = "fresh" THEN "fresh" ELSE "mid"
    [] x = Indent -> IF q = "mid" THEN "bad" ELSE q
    [] x \in {"{", "[", " & "} -> "open"
    [] x = "\\item" -> IF q = "line" THEN "mid" ELSE "bad"
    [] OTHER -> "mid"

Known == {"line", "open", "mid"}

Fresh == {"line", "open", "mid", "fresh"}

Before == {"line", "open"}

FreshBefore == {"line", "open", "fresh"}

Begun == {"line"}

\* The n tokens of s lead from q to one of B.
Walks(s, n, q, B) ==
  \E f : /\ f[0] = q /\ f[n] \in B
         /\ \A i \in 0 .. n : f[i] \in Fresh
         /\ \A i \in 1 .. n : f[i] = Lay(f[i - 1], s[i])

\* The texts that lead from every place of A to one of B.
Goes(A, B) == {s \in Seq(Token) : \A q \in A : Walks(s, Len(s), q, B)}

\* h is f up to m, and then g.
EndsWith(h, f, m, g, n) ==
  (\A i \in 0 .. m : h[i] = f[i]) /\ (\A i \in 0 .. n : h[m + i] = g[i])

LEMMA EndToEnd ==
  ASSUME NEW m \in Nat, NEW n \in Nat, NEW f, NEW g, f[m] = g[0]
  PROVE  \E h : EndsWith(h, f, m, g, n)
<1>. DEFINE h == [i \in 0 .. m + n |-> IF i <= m THEN f[i] ELSE g[i - m]]
<1>1. \A i \in 0 .. m : h[i] = f[i]
  OBVIOUS
<1>2. ASSUME NEW i \in 0 .. n PROVE h[m + i] = g[i]
  <2>1. m + i \in 0 .. m + n /\ (m + i) - m = i /\ (m + i <= m => i = 0)
    OBVIOUS
  <2>. QED
    BY <2>1
<1>. HIDE DEF h
<1>. QED
  BY <1>1, <1>2 DEF EndsWith

LEMMA GoesConcat ==
  ASSUME NEW A, NEW B, NEW C, NEW s \in Goes(A, B), NEW t \in Goes(B, C)
  PROVE  s \o t \in Goes(A, C)
<1>1. s \in Seq(Token) /\ t \in Seq(Token)
  BY DEF Goes
<1>2. /\ s \o t \in Seq(Token) /\ Len(s \o t) = Len(s) + Len(t)
      /\ Len(s) \in Nat /\ Len(t) \in Nat
      /\ \A i \in 1 .. Len(s) : (s \o t)[i] = s[i]
      /\ \A i \in Len(s) + 1 .. Len(s) + Len(t) : (s \o t)[i] = t[i - Len(s)]
  BY <1>1, JoinedSeqIs
<1>3. PICK m, n : m = Len(s) /\ n = Len(t)
  OBVIOUS
<1>4. PICK u : u = s \o t
  OBVIOUS
<1>5. m \in Nat /\ n \in Nat
  BY <1>2, <1>3
<1>6. ASSUME NEW q \in A
      PROVE  Walks(u, m + n, q, C)
  <2>1. PICK f : /\ f[0] = q /\ f[m] \in B
                 /\ \A i \in 0 .. m : f[i] \in Fresh
                 /\ \A i \in 1 .. m : f[i] = Lay(f[i - 1], s[i])
    <3>1. Walks(s, m, q, B)
      BY <1>3 DEF Goes
    <3>. QED
      BY <3>1 DEF Walks
  <2>2. PICK g : /\ g[0] = f[m] /\ g[n] \in C
                 /\ \A i \in 0 .. n : g[i] \in Fresh
                 /\ \A i \in 1 .. n : g[i] = Lay(g[i - 1], t[i])
    <3>1. Walks(t, n, f[m], C)
      BY <1>3, <2>1 DEF Goes
    <3>. QED
      BY <3>1 DEF Walks
  <2>3. PICK h : /\ \A i \in 0 .. m : h[i] = f[i]
                 /\ \A i \in 0 .. n : h[m + i] = g[i]
    <3>1. f[m] = g[0]
      BY <2>2
    <3>2. \E h : EndsWith(h, f, m, g, n)
      BY <1>5, <3>1, EndToEnd
    <3>. QED
      BY <3>2 DEF EndsWith
  <2>4. h[0] = q
    BY <1>5, <2>1, <2>3
  <2>5. h[m + n] \in C
    BY <1>5, <2>2, <2>3
  <2>6. ASSUME NEW i \in 0 .. m + n PROVE h[i] \in Fresh
    <3>1. CASE i <= m
      BY <1>5, <2>1, <2>3, <3>1
    <3>2. CASE i > m
      <4>1. i - m \in 0 .. n /\ i = m + (i - m)
        BY <1>5, <3>2
      <4>. QED
        BY <2>2, <2>3, <4>1
    <3>. QED
      BY <1>5, <3>1, <3>2
  <2>7. ASSUME NEW i \in 1 .. m + n PROVE h[i] = Lay(h[i - 1], u[i])
    <3>1. CASE i <= m
      <4>1. i \in 1 .. m /\ i \in 0 .. m /\ i - 1 \in 0 .. m
        BY <1>5, <3>1
      <4>. QED
        BY <1>2, <1>3, <1>4, <2>1, <2>3, <4>1
    <3>2. CASE i > m
      <4>. DEFINE j == i - m
      <4>1. /\ j \in 1 .. n /\ j \in 0 .. n /\ j - 1 \in 0 .. n
            /\ i = m + j /\ i - 1 = m + (j - 1) /\ i \in m + 1 .. m + n
        BY <1>5, <3>2
      <4>2. u[i] = t[j]
        BY <1>2, <1>3, <1>4, <4>1
      <4>3. g[j] = Lay(g[j - 1], t[j])
        BY <2>2, <4>1
      <4>. HIDE DEF j
      <4>4. h[i] = g[j] /\ h[i - 1] = g[j - 1]
        BY <2>3, <4>1
      <4>. QED
        BY <4>2, <4>3, <4>4
    <3>. QED
      BY <1>5, <3>1, <3>2
  <2>. QED
    BY <2>4, <2>5, <2>6, <2>7 DEF Walks
<1>7. u \in Seq(Token) /\ Len(u) = m + n
  BY <1>2, <1>3, <1>4
<1>8. u \in Goes(A, C)
  BY <1>6, <1>7 DEF Goes
<1>. QED
  BY <1>4, <1>8

LEMMA GoesEmpty ==
  ASSUME NEW A, A \subseteq Fresh
  PROVE  <<>> \in Goes(A, A)
<1>1. <<>> \in Seq(Token) /\ Len(<<>>) = 0
  OBVIOUS
<1>2. ASSUME NEW q \in A
      PROVE  Walks(<<>>, 0, q, A)
  <2>. DEFINE f == [i \in {0} |-> q]
  <2>1. f[0] = q
    OBVIOUS
  <2>. HIDE DEF f
  <2>2. (\A i \in 0 .. 0 : i = 0) /\ (\A i \in 1 .. 0 : FALSE)
    OBVIOUS
  <2>. QED
    BY <2>1, <2>2 DEF Walks
<1>. QED
  BY <1>1, <1>2 DEF Goes

\* One token.
LEMMA GoesOne ==
  ASSUME NEW A, NEW B, NEW x \in Token, A \subseteq Fresh, B \subseteq Fresh,
         \A q \in A : Lay(q, x) \in B
  PROVE  <<x>> \in Goes(A, B)
<1>. DEFINE s == <<x>>
<1>1. s \in Seq(Token) /\ Len(s) = 1 /\ s[1] = x
  OBVIOUS
<1>. HIDE DEF s
<1>2. ASSUME NEW q \in A
      PROVE  Walks(s, 1, q, B)
  <2>. DEFINE f == [i \in {0, 1} |-> IF i = 0 THEN q ELSE Lay(q, x)]
  <2>1. f[0] = q /\ f[1] = Lay(q, x)
    OBVIOUS
  <2>. HIDE DEF f
  <2>2. (\A i \in 0 .. 1 : i = 0 \/ i = 1) /\ (\A i \in 1 .. 1 : i = 1) /\ 1 - 1 = 0
    OBVIOUS
  <2>3. q \in Fresh /\ Lay(q, x) \in Fresh /\ Lay(q, x) \in B
    OBVIOUS
  <2>. HIDE DEF s
  <2>. QED
    BY <1>1, <2>1, <2>2, <2>3 DEF Walks
<1>3. s \in Goes(A, B)
  BY <1>1, <1>2 DEF Goes
<1>. QED
  BY <1>3 DEF s

\* A text goes further if it may begin at fewer places or end at more.
LEMMA GoesFrom ==
  ASSUME NEW A, NEW B, NEW C, NEW D, C \subseteq A, B \subseteq D
  PROVE  Goes(A, B) \subseteq Goes(C, D)
BY DEF Goes, Walks

LEMMA GoesBoth ==
  ASSUME NEW A, NEW B, NEW C, NEW s \in Goes(A, C), s \in Goes(B, C)
  PROVE  s \in Goes(A \cup B, C)
BY DEF Goes

----------------------------------------------------------------------------
(* Pieces and what is glued of them.                                       *)

Kinds ==
  {"nil", "function", "rule", "text", "verbatim", "raw", "mathenv", "frag", "par", "plain",
   "items", "item", "cmd", "list", "env", "sec", "tabular", "table", "figure", "document"}

Piece == [t : Kinds, s : Seq(Token), block : BOOLEAN]

\* The pieces that are not left out, and those with a separator before them.
Kept(ps) == {i \in DOMAIN ps : ps[i].block \/ ps[i].s # <<>>}

Parted(ps) ==
  {i \in Kept(ps) : \E j \in Kept(ps) : /\ j < i /\ (ps[i].block \/ ps[j].block)
                                        /\ \A k \in Kept(ps) : k <= j \/ k >= i}

Glued(ps, bsep) == [i \in DOMAIN ps |-> (IF i \in Parted(ps) THEN bsep ELSE <<>>) \o ps[i].s]

LEMMA GlueIs ==
  ASSUME NEW ps, NEW bsep
  PROVE  /\ Glue(ps, bsep).s = FlattenSeq(Glued(ps, bsep))
         /\ Glue(ps, bsep).block = \E i \in Kept(ps) : ps[i].block
BY DEF Glue, Glued, Kept, Parted

LEMMA GluedIs ==
  ASSUME NEW ps \in Seq(Piece), NEW bsep \in Seq(Token)
  PROVE  /\ Glued(ps, bsep) \in Lists(Token) /\ Len(Glued(ps, bsep)) = Len(ps)
         /\ Len(ps) \in Nat /\ DOMAIN ps = 1 .. Len(ps)
         /\ \A i \in 1 .. Len(ps) :
              /\ ps[i] \in Piece /\ ps[i].s \in Seq(Token) /\ ps[i].block \in BOOLEAN
              /\ i \in Parted(ps) => Glued(ps, bsep)[i] = bsep \o ps[i].s
              /\ i \notin Parted(ps) => Glued(ps, bsep)[i] = ps[i].s
<1>1. /\ Len(ps) \in Nat /\ DOMAIN ps = 1 .. Len(ps)
      /\ \A i \in 1 .. Len(ps) : ps[i] \in Piece
  BY IsSeq
<1>2. \A i \in 1 .. Len(ps) : ps[i].s \in Seq(Token) /\ ps[i].block \in BOOLEAN
  BY <1>1 DEF Piece
<1>. DEFINE g == Glued(ps, bsep)
<1>3. /\ DOMAIN g = 1 .. Len(ps) /\ g = [i \in DOMAIN g |-> g[i]]
      /\ \A i \in 1 .. Len(ps) : g[i] = (IF i \in Parted(ps) THEN bsep ELSE <<>>) \o ps[i].s
  BY <1>1, Zenon DEF Glued
<1>. HIDE DEF g
<1>4. ASSUME NEW i \in 1 .. Len(ps)
      PROVE  /\ i \in Parted(ps) => g[i] = bsep \o ps[i].s
             /\ i \notin Parted(ps) => g[i] = ps[i].s
             /\ g[i] \in Seq(Token)
  <2>1. ps[i].s \in Seq(Token)
    BY <1>2
  <2>2. <<>> \o ps[i].s = ps[i].s
    BY <2>1, NoText
  <2>3. bsep \o ps[i].s \in Seq(Token)
    BY <2>1, ConcatType
  <2>. QED
    BY <1>3, <2>1, <2>2, <2>3, Zenon
<1>5. g \in Lists(Token) /\ Len(g) = Len(ps)
  <2>. DEFINE T == Seq(Token)
  <2>1. \A i \in 1 .. Len(ps) : g[i] \in T
    BY <1>4
  <2>. HIDE DEF T
  <2>2. g \in Seq(T) /\ Len(g) = Len(ps)
    BY <1>1, <1>3, <2>1, SeqIs
  <2>. QED
    BY <2>2 DEF Lists, T
<1>. QED
  BY <1>1, <1>2, <1>4, <1>5 DEF g

\* A separator is written before every block but the first piece, and before
\* what follows a block.
LEMMA PartedIs ==
  ASSUME NEW ps \in Seq(Piece), NEW i \in 1 .. Len(ps)
  PROVE  /\ i \in Parted(ps) => /\ i \in Kept(ps)
                                /\ \E j \in Kept(ps) : j \in 1 .. i - 1 /\ (ps[i].block \/ ps[j].block)
         /\ i \in Kept(ps) /\ ps[i].block /\ (\E j \in 1 .. i - 1 : j \in Kept(ps)) => i \in Parted(ps)
<1>1. Len(ps) \in Nat /\ DOMAIN ps = 1 .. Len(ps)
  BY IsSeq
<1>2. ASSUME i \in Parted(ps)
      PROVE  \E j \in Kept(ps) : j \in 1 .. i - 1 /\ (ps[i].block \/ ps[j].block)
  <2>1. PICK j \in Kept(ps) : j < i /\ (ps[i].block \/ ps[j].block)
    BY <1>2 DEF Parted
  <2>2. j \in 1 .. i - 1
    BY <1>1, <2>1 DEF Kept
  <2>. QED
    BY <2>1, <2>2
<1>3. ASSUME i \in Kept(ps), ps[i].block, NEW j \in 1 .. i - 1, j \in Kept(ps)
      PROVE  i \in Parted(ps)
  <2>. DEFINE T == Kept(ps) \cap 1 .. i - 1
  <2>1. T \subseteq 0 .. i /\ T # {} /\ i \in Nat
    BY <1>1, <1>3
  <2>. HIDE DEF T
  <2>2. PICK k \in T : \A l \in T : k >= l
    BY <2>1, GreatestElement
  <2>3. k \in Kept(ps) /\ k < i
    BY <2>2 DEF T
  <2>4. ASSUME NEW l \in Kept(ps) PROVE l <= k \/ l >= i
    <3>1. l \in 1 .. Len(ps)
      BY <1>1 DEF Kept
    <3>2. l < i => l \in T
      BY <1>1, <3>1 DEF T
    <3>3. l < i => k >= l
      BY <2>2, <3>2
    <3>4. k \in Nat /\ l \in Nat
      BY <2>2, <3>1 DEF T
    <3>. QED
      BY <3>1, <3>3, <3>4
  <2>. QED
    BY <1>3, <2>3, <2>4 DEF Parted
<1>. QED
  BY <1>2, <1>3 DEF Parted

\* Pieces of which the blocks begin at places of A, and the others anywhere,
\* and a separator that leads to A.
LEMMA GlueGoes ==
  ASSUME NEW ps \in Seq(Piece), NEW A, NEW N, A \subseteq N, N \subseteq Fresh,
         NEW bsep \in Goes(N, A),
         \A i \in 1 .. Len(ps) : /\ ps[i].block => ps[i].s \in Goes(A, N)
                                 /\ ~ps[i].block => ps[i].s \in Goes(N, N)
  PROVE  Glue(ps, bsep).s \in Goes(A, N)
<1>. DEFINE xs == Glued(ps, bsep)
<1>. DEFINE some(i) == \E k \in 1 .. i : k \in Kept(ps)
<1>. DEFINE G == [i \in 0 .. Len(ps) |-> IF some(i) THEN Goes(A, N) ELSE {<<>>}]
<1>0. bsep \in Seq(Token)
  BY DEF Goes
<1>1. /\ xs \in Lists(Token) /\ Len(xs) = Len(ps)
      /\ Len(ps) \in Nat /\ DOMAIN ps = 1 .. Len(ps)
      /\ \A i \in 1 .. Len(ps) :
           /\ ps[i] \in Piece /\ ps[i].s \in Seq(Token) /\ ps[i].block \in BOOLEAN
           /\ i \in Parted(ps) => xs[i] = bsep \o ps[i].s
           /\ i \notin Parted(ps) => xs[i] = ps[i].s
  BY <1>0, GluedIs
<1>. HIDE DEF xs
<1>2. /\ \A i \in 0 .. Len(ps) : some(i) => G[i] = Goes(A, N)
      /\ \A i \in 0 .. Len(ps) : ~some(i) => G[i] = {<<>>}
  OBVIOUS
<1>3. Goes(N, N) \subseteq Goes(A, N)
  BY GoesFrom
<1>4. <<>> \in G[0]
  <2>1. ~some(0) /\ 0 \in 0 .. Len(ps)
    BY <1>1
  <2>. QED
    BY <1>2, <2>1
<1>. HIDE DEF G
<1>5. ASSUME NEW i \in 1 .. Len(ps), NEW a \in G[i - 1] \cap Seq(Token)
      PROVE  a \o xs[i] \in G[i]
  <2>0. i - 1 \in 0 .. Len(ps) /\ i \in 0 .. Len(ps) /\ i \in 1 .. i /\ 1 .. i - 1 \subseteq 1 .. i
        /\ \A k \in 1 .. i : k = i \/ k \in 1 .. i - 1
    BY <1>1
  <2>1. ps[i].s \in Goes(A, N)
    BY <1>1, <1>3
  <2>2. ps[i].s \in Seq(Token)
    BY <1>1
  <2>3. CASE i \notin Kept(ps)
    <3>1. ps[i].s = <<>>
      BY <1>1, <2>3 DEF Kept
    <3>2. i \notin Parted(ps)
      BY <2>3 DEF Parted
    <3>3. a \o xs[i] = a
      BY <1>1, <3>1, <3>2, NoText
    <3>4. some(i) <=> some(i - 1)
      BY <2>0, <2>3
    <3>5. G[i] = G[i - 1]
      BY <1>2, <2>0, <3>4
    <3>. QED
      BY <3>3, <3>5
  <2>4. CASE i \in Kept(ps) /\ ~some(i - 1)
    <3>1. a = <<>>
      BY <1>2, <2>0, <2>4
    <3>2. i \notin Parted(ps)
      BY <2>4, PartedIs
    <3>3. a \o xs[i] = ps[i].s
      BY <1>1, <2>2, <3>1, <3>2, NoText
    <3>4. some(i)
      BY <2>0, <2>4
    <3>. QED
      BY <1>2, <2>0, <2>1, <3>3, <3>4
  <2>5. CASE i \in Kept(ps) /\ some(i - 1)
    <3>1. a \in Goes(A, N)
      BY <1>2, <2>0, <2>5
    <3>2. xs[i] \in Goes(N, N)
      <4>1. CASE i \in Parted(ps)
        <5>1. bsep \o ps[i].s \in Goes(N, N)
          BY <2>1, GoesConcat
        <5>2. xs[i] = bsep \o ps[i].s
          BY <1>1, <4>1
        <5>. QED
          BY <5>1, <5>2
      <4>2. CASE i \notin Parted(ps)
        <5>1. ~ps[i].block
          BY <2>5, <4>2, PartedIs
        <5>. QED
          BY <1>1, <4>2, <5>1
      <4>. QED
        BY <4>1, <4>2
    <3>3. some(i)
      BY <2>0, <2>4, <2>5
    <3>4. a \o xs[i] \in Goes(A, N)
      BY <3>1, <3>2, GoesConcat
    <3>. QED
      BY <1>2, <2>0, <3>3, <3>4
  <2>. QED
    BY <2>3, <2>4, <2>5
<1>6. FlattenSeq(xs) \in G[Len(ps)]
  BY <1>1, <1>4, <1>5, FlattenThrough
<1>7. <<>> \in Goes(A, N)
  <2>1. <<>> \in Goes(A, A)
    BY GoesEmpty
  <2>. QED
    BY <2>1, GoesFrom
<1>8. FlattenSeq(xs) \in Goes(A, N)
  <2>1. Len(ps) \in 0 .. Len(ps)
    BY <1>1
  <2>. QED
    BY <1>2, <1>6, <1>7, <2>1
<1>. QED
  BY <1>8, GlueIs DEF xs

\* If there are no blocks, no separator is written.
LEMMA GlueFlat ==
  ASSUME NEW ps \in Seq(Piece), NEW N, N \subseteq Fresh, NEW bsep \in Seq(Token),
         \A i \in 1 .. Len(ps) : ~ps[i].block /\ ps[i].s \in Goes(N, N)
  PROVE  Glue(ps, bsep).s \in Goes(N, N)
<1>. DEFINE xs == Glued(ps, bsep)
<1>. DEFINE G == [i \in 0 .. Len(ps) |-> Goes(N, N)]
<1>1. /\ xs \in Lists(Token) /\ Len(xs) = Len(ps)
      /\ Len(ps) \in Nat /\ DOMAIN ps = 1 .. Len(ps)
      /\ \A i \in 1 .. Len(ps) :
           /\ ps[i] \in Piece /\ ps[i].s \in Seq(Token) /\ ps[i].block \in BOOLEAN
           /\ i \in Parted(ps) => xs[i] = bsep \o ps[i].s
           /\ i \notin Parted(ps) => xs[i] = ps[i].s
  BY GluedIs
<1>. HIDE DEF xs
<1>2. \A i \in 0 .. Len(ps) : G[i] = Goes(N, N)
  OBVIOUS
<1>. HIDE DEF G
<1>3. <<>> \in G[0]
  <2>1. <<>> \in Goes(N, N) /\ 0 \in 0 .. Len(ps)
    BY <1>1, GoesEmpty
  <2>. QED
    BY <1>2, <2>1
<1>4. ASSUME NEW i \in 1 .. Len(ps), NEW a \in G[i - 1] \cap Seq(Token)
      PROVE  a \o xs[i] \in G[i]
  <2>1. i \notin Parted(ps)
    <3>1. SUFFICES ASSUME i \in Parted(ps) PROVE FALSE
      OBVIOUS
    <3>2. PICK j \in Kept(ps) : j \in 1 .. i - 1 /\ (ps[i].block \/ ps[j].block)
      BY <3>1, PartedIs
    <3>3. j \in 1 .. Len(ps)
      BY <1>1, <3>2
    <3>. QED
      BY <3>2, <3>3
  <2>2. i - 1 \in 0 .. Len(ps) /\ i \in 0 .. Len(ps)
    BY <1>1
  <2>3. a \in Goes(N, N) /\ xs[i] \in Goes(N, N)
    BY <1>1, <1>2, <2>1, <2>2
  <2>4. a \o xs[i] \in Goes(N, N)
    BY <2>3, GoesConcat
  <2>. QED
    BY <1>2, <2>2, <2>4
<1>5. FlattenSeq(xs) \in G[Len(ps)]
  BY <1>1, <1>3, <1>4, FlattenThrough
<1>6. Len(ps) \in 0 .. Len(ps)
  BY <1>1
<1>. QED
  BY <1>2, <1>5, <1>6, GlueIs DEF xs

----------------------------------------------------------------------------
(* The tokens of the renderer, indentation, and what is stripped.          *)

LEMMA Places ==
  /\ Begun \subseteq Before /\ Begun \subseteq Known /\ Begun \subseteq Fresh
  /\ Begun \subseteq FreshBefore /\ Before \subseteq Known /\ Before \subseteq Fresh
  /\ Before \subseteq FreshBefore /\ Known \subseteq Fresh /\ FreshBefore \subseteq Fresh
  /\ Begun \subseteq Begun /\ Before \subseteq Before /\ Known \subseteq Known
  /\ Fresh \subseteq Fresh /\ FreshBefore \subseteq FreshBefore
BY DEF Begun, Before, Known, Fresh, FreshBefore

\* One text after another that leads to where it may begin.
LEMMA GoesThen ==
  ASSUME NEW A, NEW B, NEW C, NEW D, B \subseteq C, NEW s \in Goes(A, B), NEW t \in Goes(C, D)
  PROVE  s \o t \in Goes(A, D)
<1>1. s \in Goes(A, C)
  BY GoesFrom, A \subseteq A
<1>. QED
  BY <1>1, GoesConcat

\* The texts that stand anywhere, those of blocks, and those that begin a line.
Inside == Goes(Known, Known) \cap Goes(Fresh, Fresh)

Blocks == Goes(Before, Known) \cap Goes(FreshBefore, Fresh)

OnLines == Goes(Begun, Known)

LEMMA Narrower ==
  /\ Goes(Fresh, Known) \subseteq Inside /\ Goes(FreshBefore, Known) \subseteq Blocks
  /\ Goes(Fresh, Known) \subseteq Goes(Known, Known)
  /\ Goes(Fresh, Known) \subseteq Goes(FreshBefore, Known)
  /\ Inside \subseteq Blocks /\ Blocks \subseteq OnLines
<1>1. /\ Goes(Fresh, Known) \subseteq Goes(Known, Known)
      /\ Goes(Fresh, Known) \subseteq Goes(Fresh, Fresh)
  BY Places, GoesFrom
<1>2. /\ Goes(FreshBefore, Known) \subseteq Goes(Before, Known)
      /\ Goes(FreshBefore, Known) \subseteq Goes(FreshBefore, Fresh)
  BY Places, GoesFrom
<1>3. /\ Goes(Known, Known) \subseteq Goes(Before, Known)
      /\ Goes(Fresh, Fresh) \subseteq Goes(FreshBefore, Fresh)
  BY Places, GoesFrom
<1>4. Goes(Before, Known) \subseteq Goes(Begun, Known)
  BY Places, GoesFrom
<1>5. Goes(Fresh, Known) \subseteq Goes(FreshBefore, Known)
  BY Places, GoesFrom
<1>. QED
  BY <1>1, <1>2, <1>3, <1>4, <1>5 DEF Inside, Blocks, OnLines

\* Where the tokens of the renderer lead.
LEMMA WordGoes ==
  ASSUME NEW x \in Token, x \notin {Newline, Space, Indent, "\\item"}
  PROVE  <<x>> \in Goes(Fresh, Known)
<1>1. \A q \in Fresh : Lay(q, x) \in Known
  BY DEF Lay, Fresh, Known
<1>. QED
  BY <1>1, Places, GoesOne

LEMMA WordsGo ==
  /\ <<"[">> \in Goes(Fresh, Known) /\ <<"]">> \in Goes(Fresh, Known)
  /\ <<"opt">> \in Goes(Fresh, Known) /\ <<"}">> \in Goes(Fresh, Known)
  /\ <<"%">> \in Goes(Fresh, Known) /\ <<"\\\\">> \in Goes(Fresh, Known)
  /\ <<"\\cmd">> \in Goes(Fresh, Known) /\ <<"\\section">> \in Goes(Fresh, Known)
  /\ <<"\\label">> \in Goes(Fresh, Known) /\ <<"\\caption">> \in Goes(Fresh, Known)
  /\ <<"\\rule">> \in Goes(Fresh, Known) /\ <<"\\centering">> \in Goes(Fresh, Known)
  /\ <<"\\includegraphics">> \in Goes(Fresh, Known) /\ <<"\\resizebox">> \in Goes(Fresh, Known)
  /\ <<"\\documentclass">> \in Goes(Fresh, Known) /\ <<"\\title">> \in Goes(Fresh, Known)
  /\ <<"\\author">> \in Goes(Fresh, Known) /\ <<"\\date">> \in Goes(Fresh, Known)
  /\ <<"\\maketitle">> \in Goes(Fresh, Known) /\ <<"\\bib">> \in Goes(Fresh, Known)
  /\ <<"\\tableofcontents">> \in Goes(Fresh, Known)
  /\ <<"\\begin{env}">> \in Goes(Fresh, Known) /\ <<"\\end{env}">> \in Goes(Fresh, Known)
  /\ <<"\\begin{list}">> \in Goes(Fresh, Known) /\ <<"\\end{list}">> \in Goes(Fresh, Known)
  /\ <<"\\begin{math}">> \in Goes(Fresh, Known) /\ <<"\\end{math}">> \in Goes(Fresh, Known)
  /\ <<"\\begin{verbatim}">> \in Goes(Fresh, Known)
  /\ <<"\\end{verbatim}">> \in Goes(Fresh, Known)
  /\ <<"\\begin{tabular}">> \in Goes(Fresh, Known)
  /\ <<"\\end{tabular}">> \in Goes(Fresh, Known)
  /\ <<"\\begin{float}">> \in Goes(Fresh, Known) /\ <<"\\end{float}">> \in Goes(Fresh, Known)
  /\ <<"\\begin{document}">> \in Goes(Fresh, Known)
  /\ <<"\\end{document}">> \in Goes(Fresh, Known)
<1>. DEFINE W == Words \ {Newline, Space, Indent, "\\item"}
<1>1. \A x \in W : <<x>> \in Goes(Fresh, Known)
  <2>1. \A x \in W : x \in Token /\ x \notin {Newline, Space, Indent, "\\item"}
    BY DEF Token
  <2>. HIDE DEF W
  <2>. QED
    BY <2>1, WordGoes
<1>2. /\ "[" \in W /\ "]" \in W /\ "opt" \in W /\ "}" \in W /\ "%" \in W /\ "\\\\" \in W
      /\ "\\cmd" \in W /\ "\\section" \in W /\ "\\label" \in W /\ "\\caption" \in W
      /\ "\\rule" \in W /\ "\\centering" \in W /\ "\\includegraphics" \in W
      /\ "\\resizebox" \in W /\ "\\documentclass" \in W /\ "\\title" \in W
  BY DEF Words, Newline, Space, Indent
<1>3. /\ "\\author" \in W /\ "\\date" \in W /\ "\\tableofcontents" \in W
      /\ "\\maketitle" \in W /\ "\\bib" \in W /\ "\\begin{env}" \in W /\ "\\end{env}" \in W
      /\ "\\begin{list}" \in W /\ "\\end{list}" \in W /\ "\\begin{math}" \in W
      /\ "\\end{math}" \in W /\ "\\begin{verbatim}" \in W /\ "\\end{verbatim}" \in W
      /\ "\\begin{tabular}" \in W /\ "\\end{tabular}" \in W /\ "\\begin{float}" \in W
      /\ "\\end{float}" \in W /\ "\\begin{document}" \in W /\ "\\end{document}" \in W
  BY DEF Words, Newline, Space, Indent
<1>. HIDE DEF W
<1>. QED
  BY <1>1, <1>2, <1>3

LEMMA SpacesGo ==
  /\ Line \in Goes(Known, Begun) /\ Blank \in Goes(Known, Begun)
  /\ Line \in Goes(Fresh, FreshBefore) /\ Blank \in Goes(Fresh, FreshBefore)
  /\ Line \in Goes(Known, Before) /\ Blank \in Goes(Known, Before)
  /\ <<Space>> \in Goes(Known, Known)
  /\ <<"{">> \in Goes(Fresh, Before) /\ <<"[">> \in Goes(Fresh, Before)
  /\ <<" & ">> \in Goes(Fresh, Before)
  /\ <<"\\item">> \in Goes(Begun, Known)
  /\ \A A \in SUBSET FreshBefore : <<Indent>> \in Goes(A, A)
<1>0. Newline \in Token /\ Space \in Token /\ Indent \in Token /\ "\\item" \in Token
      /\ "{" \in Token /\ "[" \in Token /\ " & " \in Token
  BY DEF Token, Words
<1>1. Line \in Goes(Known, Begun)
  <2>1. \A q \in Known : Lay(q, Newline) \in Begun
    BY DEF Lay, Known, Begun, Newline, Space, Indent
  <2>. QED
    BY <1>0, <2>1, Places, GoesOne DEF Line
<1>2. Line \in Goes(Fresh, FreshBefore)
  <2>1. \A q \in Fresh : Lay(q, Newline) \in FreshBefore
    BY DEF Lay, Fresh, FreshBefore, Newline, Space, Indent
  <2>. QED
    BY <1>0, <2>1, Places, GoesOne DEF Line
<1>3. Blank = Line \o Line
  BY DEF Blank, Line
<1>4. Line \o Line \in Goes(Known, Begun)
  BY <1>1, Places, GoesThen
<1>5. Line \o Line \in Goes(Fresh, FreshBefore)
  BY <1>2, Places, GoesThen
<1>6. Goes(Known, Begun) \subseteq Goes(Known, Before)
  BY Places, GoesFrom
<1>7. <<Space>> \in Goes(Known, Known)
  <2>1. \A q \in Known : Lay(q, Space) \in Known
    BY DEF Lay, Known, Newline, Space, Indent
  <2>. QED
    BY <1>0, <2>1, Places, GoesOne
<1>8. /\ <<"{">> \in Goes(Fresh, Before) /\ <<"[">> \in Goes(Fresh, Before)
      /\ <<" & ">> \in Goes(Fresh, Before)
  <2>1. \A q \in Fresh :
          Lay(q, "{") \in Before /\ Lay(q, "[") \in Before /\ Lay(q, " & ") \in Before
    BY DEF Lay, Before, Newline, Space, Indent
  <2>. QED
    BY <1>0, <2>1, Places, GoesOne
<1>9. <<"\\item">> \in Goes(Begun, Known)
  <2>1. \A q \in Begun : Lay(q, "\\item") \in Known
    BY DEF Lay, Begun, Known, Newline, Space, Indent
  <2>. QED
    BY <1>0, <2>1, Places, GoesOne
<1>10. ASSUME NEW A \in SUBSET FreshBefore PROVE <<Indent>> \in Goes(A, A)
  <2>1. \A q \in A : Lay(q, Indent) \in A
    BY DEF Lay, FreshBefore, Newline, Space, Indent
  <2>. QED
    BY <1>0, <2>1, Places, GoesOne
<1>. QED
  BY <1>1, <1>2, <1>3, <1>4, <1>5, <1>6, <1>7, <1>8, <1>9, <1>10

\* A text of which every token leads from A to A.
LEMMA GoesAll ==
  ASSUME NEW A, A \subseteq Fresh, NEW s \in Seq(Token),
         \A i \in 1 .. Len(s) : \A q \in A : Lay(q, s[i]) \in A
  PROVE  s \in Goes(A, A)
<1>1. Len(s) \in Nat
  OBVIOUS
<1>2. ASSUME NEW q \in A PROVE Walks(s, Len(s), q, A)
  <2>. DEFINE S == {n \in 0 .. Len(s) : Walks(s, n, q, A)}
  <2>1. 0 \in S
    <3>1. Walks(s, 0, q, A)
      <4>. DEFINE f == [i \in {0} |-> q]
      <4>1. f[0] = q
        OBVIOUS
      <4>2. (\A i \in 0 .. 0 : i = 0) /\ (\A i \in 1 .. 0 : FALSE)
        OBVIOUS
      <4>. HIDE DEF f
      <4>. QED
        BY <4>1, <4>2 DEF Walks
    <3>. QED
      BY <1>1, <3>1
  <2>2. ASSUME NEW n \in 1 .. Len(s), n - 1 \in S PROVE n \in S
    <3>1. PICK f : /\ f[0] = q /\ f[n - 1] \in A
                   /\ \A i \in 0 .. n - 1 : f[i] \in Fresh
                   /\ \A i \in 1 .. n - 1 : f[i] = Lay(f[i - 1], s[i])
      BY <2>2 DEF Walks
    <3>. DEFINE h == [i \in 0 .. n |-> IF i < n THEN f[i] ELSE Lay(f[n - 1], s[n])]
    <3>2. /\ \A i \in 0 .. n - 1 : h[i] = f[i]
          /\ h[n] = Lay(f[n - 1], s[n])
      BY <1>1
    <3>3. h[n] \in A
      BY <3>1, <3>2
    <3>. HIDE DEF h
    <3>4. h[0] = q
      <4>1. 0 \in 0 .. n - 1
        BY <1>1
      <4>. QED
        BY <3>1, <3>2, <4>1
    <3>5. \A i \in 0 .. n : h[i] \in Fresh
      <4>1. \A i \in 0 .. n : i = n \/ i \in 0 .. n - 1
        BY <1>1
      <4>. QED
        BY <3>1, <3>2, <3>3, <4>1
    <3>6. ASSUME NEW i \in 1 .. n PROVE h[i] = Lay(h[i - 1], s[i])
      <4>1. CASE i = n
        <5>1. n - 1 \in 0 .. n - 1
          BY <1>1
        <5>. QED
          BY <3>2, <4>1, <5>1
      <4>2. CASE i # n
        <5>1. i \in 1 .. n - 1 /\ i \in 0 .. n - 1 /\ i - 1 \in 0 .. n - 1
          BY <1>1, <4>2
        <5>. QED
          BY <3>1, <3>2, <5>1
      <4>. QED
        BY <4>1, <4>2
    <3>7. Walks(s, n, q, A)
      BY <3>3, <3>4, <3>5, <3>6 DEF Walks
    <3>. QED
      BY <1>1, <3>7
  <2>3. Len(s) \in S
    <3>. HIDE DEF S
    <3>1. \A n \in 1 .. Len(s) : n - 1 \in S => n \in S
      BY <2>2
    <3>2. \A n \in 0 .. Len(s) : n \in S
      BY <1>1, <2>1, <3>1, Upward
    <3>. QED
      BY <1>1, <3>2
  <2>. QED
    BY <2>3
<1>. QED
  BY <1>2 DEF Goes

\* Characters stand anywhere.
LEMMA CharsInside ==
  ASSUME NEW s \in Seq(Token), \A i \in 1 .. Len(s) : s[i] \notin {Indent, "\\item"}
  PROVE  s \in Inside
<1>1. ASSUME NEW i \in 1 .. Len(s)
      PROVE  /\ \A q \in Known : Lay(q, s[i]) \in Known
             /\ \A q \in Fresh : Lay(q, s[i]) \in Fresh
  BY DEF Lay, Known, Fresh
<1>2. s \in Goes(Known, Known)
  BY <1>1, Places, GoesAll
<1>3. s \in Goes(Fresh, Fresh)
  BY <1>1, Places, GoesAll
<1>. QED
  BY <1>2, <1>3 DEF Inside

LEMMA PadGoes ==
  ASSUME NEW ctx, ctx.indent \in BOOLEAN, ctx.depth \in Nat, NEW A \in SUBSET FreshBefore
  PROVE  Pad(ctx) \in Goes(A, A)
<1>1. PICK n \in Nat : n = IF ctx.indent THEN ctx.depth ELSE 0
  OBVIOUS
<1>2. Pad(ctx) = [i \in 1 .. n |-> Indent]
  BY <1>1 DEF Pad
<1>. DEFINE s == [i \in 1 .. n |-> Indent]
<1>3. Indent \in Token
  BY DEF Token, Words
<1>4. s \in Seq(Token) /\ Len(s) = n /\ \A i \in 1 .. n : s[i] = Indent
  BY <1>3
<1>5. \A q \in A : Lay(q, Indent) \in A
  BY DEF Lay, FreshBefore, Newline, Space, Indent
<1>. HIDE DEF s
<1>6. s \in Goes(A, A)
  BY <1>4, <1>5, Places, GoesAll
<1>. QED
  BY <1>2, <1>6 DEF s

\* What is left of a text without the spaces at its beginning stands anywhere.
LEMMA StripGoes ==
  ASSUME NEW s \in Blocks
  PROVE  Strip(s) \in Goes(Known, Known)
<1>0. s \in Seq(Token) /\ Len(s) \in Nat /\ DOMAIN s = 1 .. Len(s)
  <2>1. s \in Seq(Token)
    BY DEF Blocks, Goes
  <2>. QED
    BY <2>1, IsSeq
<1>. DEFINE first == {i \in DOMAIN s : s[i] \notin Spaces}
<1>1. CASE first = {}
  <2>1. Strip(s) = <<>>
    BY <1>1 DEF Strip
  <2>. QED
    BY <2>1, Places, GoesEmpty
<1>2. CASE first # {}
  <2>. DEFINE m == CHOOSE i \in first : \A j \in first : i <= j
  <2>1. Strip(s) = SubSeq(s, m, Len(s))
    BY <1>2 DEF Strip
  <2>2. m \in first /\ \A j \in first : m <= j
    <3>1. first \subseteq Nat
      BY <1>0
    <3>. HIDE DEF first
    <3>2. \E i \in first : \A j \in first : i <= j
      BY <1>2, <3>1, SmallestElement
    <3>. QED
      BY <3>2
  <2>. HIDE DEF m
  <2>3. /\ m \in 1 .. Len(s) /\ s[m] \notin Spaces
        /\ \A i \in 1 .. m - 1 : s[i] \in Spaces
    BY <1>0, <2>2
  <2>. HIDE DEF first
  <2>. DEFINE n == Len(s) - m + 1
  <2>4. PICK u : u = SubSeq(s, m, Len(s))
    OBVIOUS
  <2>5. /\ n \in Nat /\ m - 1 \in Nat /\ n >= 1 /\ u \in Seq(Token) /\ Len(u) = n
        /\ \A i \in 1 .. n : u[i] = s[m - 1 + i]
    <3>1. s \in Seq(Token) /\ Len(s) \in Nat /\ m \in 1 .. Len(s)
      BY <1>0, <2>3
    <3>2. /\ u \in Seq(Token) /\ Len(u) = Len(s) - m + 1
          /\ \A i \in 1 .. Len(s) - m + 1 : u[i] = s[m - 1 + i]
      BY ONLY <3>1, <2>4
    <3>. QED
      BY <3>1, <3>2
  <2>6. PICK f : /\ f[0] = "fresh"
                 /\ \A i \in 0 .. Len(s) : f[i] \in Fresh
                 /\ \A i \in 1 .. Len(s) : f[i] = Lay(f[i - 1], s[i])
    <3>1. s \in Goes(FreshBefore, Fresh) /\ "fresh" \in FreshBefore
      BY DEF Blocks, FreshBefore
    <3>2. Walks(s, Len(s), "fresh", Fresh)
      BY <3>1 DEF Goes
    <3>. QED
      BY <3>2 DEF Walks
  <2>7. f[m - 1] = "fresh"
    <3>. DEFINE S == {i \in 0 .. m - 1 : f[i] = "fresh"}
    <3>1. 0 \in S
      BY <2>5, <2>6
    <3>2. ASSUME NEW i \in 1 .. m - 1, i - 1 \in S PROVE i \in S
      <4>1. i \in 1 .. Len(s) /\ s[i] \in Spaces /\ f[i - 1] = "fresh"
        BY <1>0, <2>3, <3>2
      <4>2. f[i] = Lay("fresh", s[i])
        BY <2>6, <4>1
      <4>3. Lay("fresh", s[i]) = "fresh"
        BY <4>1 DEF Lay, Spaces, Newline, Space, Indent
      <4>. QED
        BY <2>5, <4>2, <4>3
    <3>3. m - 1 \in S
      <4>. HIDE DEF S
      <4>1. \A i \in 0 .. m - 1 : i \in S
        BY <2>5, <3>1, <3>2, Upward
      <4>. QED
        BY <2>5, <4>1
    <3>. QED
      BY <3>3
  <2>8. ASSUME NEW q \in Known PROVE Walks(u, n, q, Known)
    <3>. DEFINE h == [i \in 0 .. n |-> IF i = 0 THEN q ELSE f[m - 1 + i]]
    <3>1. h[0] = q /\ \A i \in 1 .. n : h[i] = f[m - 1 + i]
      BY <2>5
    <3>. HIDE DEF h
    <3>2. \A i \in 1 .. n : h[i] \in Fresh
      <4>1. \A i \in 1 .. n : m - 1 + i \in 0 .. Len(s)
        BY <1>0, <2>3
      <4>. QED
        BY <2>6, <3>1, <4>1
    <3>3. h[1] = Lay(h[0], u[1])
      <4>1. 1 \in 1 .. n /\ m - 1 + 1 = m /\ m \in 1 .. Len(s) /\ m \in 0 .. Len(s)
        BY <1>0, <2>3, <2>5
      <4>2. h[1] = Lay("fresh", s[m]) /\ h[1] \in Fresh
        BY <2>6, <2>7, <3>1, <3>2, <4>1
      <4>3. u[1] = s[m]
        BY <2>5, <4>1
      <4>4. Lay("fresh", s[m]) \in Fresh => Lay("fresh", s[m]) = Lay(q, s[m])
        BY <2>3 DEF Lay, Spaces, Fresh
      <4>. QED
        BY <3>1, <4>2, <4>3, <4>4
    <3>4. ASSUME NEW i \in 2 .. n PROVE h[i] = Lay(h[i - 1], u[i])
      <4>1. /\ i \in 1 .. n /\ i - 1 \in 1 .. n /\ m - 1 + i \in 1 .. Len(s)
            /\ (m - 1 + i) - 1 = m - 1 + (i - 1)
        BY <1>0, <2>3, <2>5
      <4>2. u[i] = s[m - 1 + i]
        BY <2>5, <4>1
      <4>3. f[m - 1 + i] = Lay(f[m - 1 + (i - 1)], s[m - 1 + i])
        BY <2>6, <4>1
      <4>. QED
        BY <3>1, <4>1, <4>2, <4>3
    <3>5. \A i \in 1 .. n : h[i] = Lay(h[i - 1], u[i])
      <4>1. \A i \in 1 .. n : i = 1 \/ i \in 2 .. n
        BY <2>5
      <4>. QED
        BY <3>3, <3>4, <4>1
    <3>6. \A i \in 0 .. n : h[i] \in Known
      <4>. DEFINE S == {i \in 0 .. n : h[i] \in Known}
      <4>1. 0 \in S
        BY <2>5, <3>1
      <4>2. ASSUME NEW i \in 1 .. n, i - 1 \in S PROVE i \in S
        <5>1. h[i - 1] \in Known /\ h[i] \in Fresh /\ h[i] = Lay(h[i - 1], u[i])
          BY <3>2, <3>5, <4>2
        <5>2. h[i] \in Known
          BY <5>1 DEF Lay, Known, Fresh
        <5>. QED
          BY <2>5, <5>2
      <4>3. \A i \in 0 .. n : i \in S
        <5>. HIDE DEF S
        <5>. QED
          BY <2>5, <4>1, <4>2, Upward
      <4>. QED
        BY <4>3
    <3>7. h[n] \in Known /\ \A i \in 0 .. n : h[i] \in Fresh
      BY <2>5, <3>6, Places
    <3>. QED
      BY <3>1, <3>5, <3>7 DEF Walks
  <2>9. u \in Goes(Known, Known)
    BY <2>5, <2>8 DEF Goes
  <2>. QED
    BY <2>1, <2>4, <2>9
<1>. QED
  BY <1>1, <1>2

----------------------------------------------------------------------------
(* Pieces of texts that go where they should, and lines that are joined.   *)

GoodPieces == {p \in Piece : (p.block => p.s \in Blocks) /\ (~p.block => p.s \in Inside)}

LinePieces == {p \in Piece : (p.block => p.s \in OnLines) /\ (~p.block => p.s \in Inside)}

LEMMA PiecesAre == GoodPieces \subseteq LinePieces /\ GoodPieces \subseteq Piece /\ LinePieces \subseteq Piece
BY Narrower DEF GoodPieces, LinePieces

\* Children without items among them.
LEMMA GlueBlocks ==
  ASSUME NEW ps \in Seq(GoodPieces), NEW bsep \in {Blank, Line}
  PROVE  /\ Glue(ps, bsep).s \in Blocks
         /\ ~Glue(ps, bsep).block => Glue(ps, bsep).s \in Inside
<1>1. ps \in Seq(Piece)
  BY PiecesAre, SeqWider
<1>2. \A i \in 1 .. Len(ps) : ps[i] \in GoodPieces
  BY IsSeq
<1>3. \A i \in 1 .. Len(ps) : /\ ps[i].block \in BOOLEAN
                              /\ ps[i].block => ps[i].s \in Blocks
                              /\ ~ps[i].block => ps[i].s \in Inside
  BY <1>2 DEF GoodPieces, Piece
<1>4. Glue(ps, bsep).s \in Goes(Before, Known)
  <2>1. \A i \in 1 .. Len(ps) : /\ ps[i].block => ps[i].s \in Goes(Before, Known)
                                /\ ~ps[i].block => ps[i].s \in Goes(Known, Known)
    BY <1>3 DEF Inside, Blocks
  <2>2. bsep \in Goes(Known, Before)
    BY SpacesGo
  <2>. QED
    BY <1>1, <2>1, <2>2, Places, GlueGoes
<1>5. Glue(ps, bsep).s \in Goes(FreshBefore, Fresh)
  <2>1. \A i \in 1 .. Len(ps) : /\ ps[i].block => ps[i].s \in Goes(FreshBefore, Fresh)
                                /\ ~ps[i].block => ps[i].s \in Goes(Fresh, Fresh)
    BY <1>3 DEF Inside, Blocks
  <2>2. bsep \in Goes(Fresh, FreshBefore)
    BY SpacesGo
  <2>. QED
    BY <1>1, <2>1, <2>2, Places, GlueGoes
<1>6. ASSUME ~Glue(ps, bsep).block PROVE Glue(ps, bsep).s \in Inside
  <2>1. \A i \in 1 .. Len(ps) : ~ps[i].block
    <3>1. \A i \in Kept(ps) : ~ps[i].block
      BY <1>6, GlueIs
    <3>2. \A i \in 1 .. Len(ps) : ps[i].block => i \in Kept(ps)
      BY <1>1, IsSeq DEF Kept
    <3>. QED
      BY <3>1, <3>2
  <2>2. bsep \in Seq(Token)
    BY SpacesGo DEF Goes
  <2>3. Glue(ps, bsep).s \in Goes(Known, Known)
    BY <1>1, <1>3, <2>1, <2>2, Places, GlueFlat DEF Inside
  <2>4. Glue(ps, bsep).s \in Goes(Fresh, Fresh)
    BY <1>1, <1>3, <2>1, <2>2, Places, GlueFlat DEF Inside
  <2>. QED
    BY <2>3, <2>4 DEF Inside
<1>. QED
  BY <1>4, <1>5, <1>6 DEF Blocks

LEMMA GlueLines ==
  ASSUME NEW ps \in Seq(LinePieces), NEW bsep \in {Blank, Line}
  PROVE  Glue(ps, bsep).s \in OnLines
<1>1. ps \in Seq(Piece)
  BY PiecesAre, SeqWider
<1>2. \A i \in 1 .. Len(ps) : ps[i] \in LinePieces
  BY IsSeq
<1>3. \A i \in 1 .. Len(ps) : /\ ps[i].block => ps[i].s \in Goes(Begun, Known)
                              /\ ~ps[i].block => ps[i].s \in Goes(Known, Known)
  BY <1>2 DEF LinePieces, OnLines, Inside
<1>4. bsep \in Goes(Known, Begun)
  BY SpacesGo
<1>. QED
  BY <1>1, <1>3, <1>4, Places, GlueGoes DEF OnLines

LEMMA FlattenGoes ==
  ASSUME NEW A, A \subseteq Fresh, NEW xs \in Lists(Token),
         \A i \in 1 .. Len(xs) : xs[i] \in Goes(A, A)
  PROVE  FlattenSeq(xs) \in Goes(A, A)
<1>. DEFINE G == [i \in 0 .. Len(xs) |-> Goes(A, A)]
<1>1. Len(xs) \in Nat
  BY DEF Lists
<1>2. \A i \in 0 .. Len(xs) : G[i] = Goes(A, A)
  OBVIOUS
<1>. HIDE DEF G
<1>3. <<>> \in G[0] /\ Len(xs) \in 0 .. Len(xs)
  <2>1. 0 \in 0 .. Len(xs) /\ Len(xs) \in 0 .. Len(xs)
    BY <1>1
  <2>. QED
    BY <1>2, <2>1, GoesEmpty
<1>4. ASSUME NEW i \in 1 .. Len(xs), NEW a \in G[i - 1] \cap Seq(Token)
      PROVE  a \o xs[i] \in G[i]
  <2>1. i - 1 \in 0 .. Len(xs) /\ i \in 0 .. Len(xs)
    BY <1>1
  <2>2. a \in Goes(A, A) /\ xs[i] \in Goes(A, A)
    BY <1>2, <2>1
  <2>3. a \o xs[i] \in Goes(A, A)
    BY <2>2, GoesConcat
  <2>. QED
    BY <1>2, <2>1, <2>3
<1>5. FlattenSeq(xs) \in G[Len(xs)]
  BY <1>3, <1>4, FlattenThrough
<1>. QED
  BY <1>2, <1>3, <1>5

\* Texts that are joined, each from where the separator leads to.
LEMMA JoinIs ==
  ASSUME NEW X, NEW seqs \in Lists(X), NEW sep \in Seq(X)
  PROVE  \E xs \in Lists(X) :
           /\ Len(xs) = Len(seqs) /\ Join(seqs, sep) = FlattenSeq(xs)
           /\ \A i \in 1 .. Len(xs) : xs[i] = IF i = 1 THEN seqs[i] ELSE sep \o seqs[i]
<1>. DEFINE T == Seq(X)
<1>. DEFINE g == [i \in DOMAIN seqs |-> IF i = 1 THEN seqs[i] ELSE sep \o seqs[i]]
<1>1. /\ Len(seqs) \in Nat /\ DOMAIN seqs = 1 .. Len(seqs)
      /\ \A i \in 1 .. Len(seqs) : seqs[i] \in T
  <2>1. seqs \in Seq(T)
    BY DEF Lists
  <2>. HIDE DEF T
  <2>. QED
    BY <2>1, IsSeq
<1>2. Join(seqs, sep) = FlattenSeq(g)
  BY DEF Join
<1>3. /\ DOMAIN g = 1 .. Len(seqs) /\ g = [i \in DOMAIN g |-> g[i]]
      /\ \A i \in 1 .. Len(seqs) : g[i] = IF i = 1 THEN seqs[i] ELSE sep \o seqs[i]
  BY <1>1, Zenon
<1>4. \A i \in 1 .. Len(seqs) : g[i] \in T
  <2>1. \A a \in T : sep \o a \in T
    BY ConcatType
  <2>. HIDE DEF g, T
  <2>. QED
    BY <1>1, <1>3, <2>1
<1>. HIDE DEF g, T
<1>5. g \in Seq(T) /\ Len(g) = Len(seqs)
  BY <1>1, <1>3, <1>4, SeqIs
<1>6. g \in Lists(X)
  BY <1>5 DEF T, Lists
<1>. QED
  BY <1>2, <1>3, <1>5, <1>6

LEMMA JoinGoes ==
  ASSUME NEW seqs \in Lists(Token), NEW A, NEW B, NEW sep \in Goes(Known, B), Len(seqs) # 0,
         seqs[1] \in Goes(A, Known),
         \A i \in 1 .. Len(seqs) : i # 1 => seqs[i] \in Goes(B, Known)
  PROVE  Join(seqs, sep) \in Goes(A, Known)
<1>0. sep \in Seq(Token) /\ Len(seqs) \in Nat
  BY DEF Goes, Lists
<1>1. PICK xs \in Lists(Token) :
        /\ Len(xs) = Len(seqs) /\ Join(seqs, sep) = FlattenSeq(xs)
        /\ \A i \in 1 .. Len(xs) : xs[i] = IF i = 1 THEN seqs[i] ELSE sep \o seqs[i]
  BY <1>0, JoinIs
<1>. DEFINE G == [i \in 0 .. Len(xs) |-> IF i = 0 THEN {<<>>} ELSE Goes(A, Known)]
<1>2. /\ <<>> \in G[0] /\ G[0] = {<<>>} /\ G[Len(xs)] = Goes(A, Known)
      /\ \A i \in 1 .. Len(xs) : G[i] = Goes(A, Known)
  BY <1>0, <1>1
<1>. HIDE DEF G
<1>3. ASSUME NEW i \in 1 .. Len(xs), NEW a \in G[i - 1] \cap Seq(Token)
      PROVE  a \o xs[i] \in G[i]
  <2>1. CASE i = 1
    <3>1. a = <<>> /\ xs[i] = seqs[1]
      BY <1>1, <1>2, <2>1
    <3>2. seqs[1] \in Seq(Token)
      BY DEF Goes
    <3>3. a \o xs[i] = seqs[1]
      BY <3>1, <3>2, NoText
    <3>. QED
      BY <1>2, <3>3
  <2>2. CASE i # 1
    <3>1. i - 1 \in 1 .. Len(xs) /\ i \in 1 .. Len(seqs)
      BY <1>0, <1>1, <2>2
    <3>2. a \in Goes(A, Known) /\ xs[i] = sep \o seqs[i] /\ seqs[i] \in Goes(B, Known)
      BY <1>1, <1>2, <2>2, <3>1
    <3>3. sep \o seqs[i] \in Goes(Known, Known)
      BY <3>2, GoesConcat
    <3>4. a \o xs[i] \in Goes(A, Known)
      BY <3>2, <3>3, GoesConcat
    <3>. QED
      BY <1>2, <3>4
  <2>. QED
    BY <2>1, <2>2
<1>4. FlattenSeq(xs) \in G[Len(xs)]
  BY <1>2, <1>3, FlattenThrough
<1>. QED
  BY <1>1, <1>2, <1>4

\* Lists of the lines of a block.
LinesFrom(A) == {seqs \in Seq(OnLines) : Len(seqs) # 0 /\ seqs[1] \in Goes(A, Known)}

LEMMA JoinLines ==
  ASSUME NEW A, NEW seqs \in LinesFrom(A), NEW sep \in Goes(Known, Begun)
  PROVE  Join(seqs, sep) \in Goes(A, Known)
<1>1. seqs \in Seq(OnLines) /\ Len(seqs) # 0 /\ seqs[1] \in Goes(A, Known)
  BY DEF LinesFrom
<1>2. \A i \in 1 .. Len(seqs) : seqs[i] \in Goes(Begun, Known)
  BY <1>1, IsSeq DEF OnLines
<1>3. seqs \in Lists(Token)
  <2>1. OnLines \subseteq Seq(Token)
    BY DEF OnLines, Goes
  <2>. QED
    BY <1>1, <2>1, SeqWider DEF Lists
<1>. QED
  BY <1>1, <1>2, <1>3, JoinGoes

LEMMA LinesMore ==
  ASSUME NEW A, NEW s \in LinesFrom(A), NEW t \in Seq(OnLines)
  PROVE  s \o t \in LinesFrom(A)
<1>. DEFINE T == OnLines
<1>1. s \in Seq(T) /\ Len(s) # 0 /\ s[1] \in Goes(A, Known) /\ t \in Seq(T)
  BY DEF LinesFrom
<1>. HIDE DEF T
<1>2. s \o t \in Seq(T) /\ Len(s \o t) # 0 /\ (s \o t)[1] = s[1]
  BY <1>1
<1>. QED
  BY <1>1, <1>2 DEF LinesFrom, T

LEMMA LinesOne ==
  ASSUME NEW A, Begun \subseteq A, NEW s \in Goes(A, Known)
  PROVE  <<s>> \in LinesFrom(A) /\ s \in OnLines
<1>1. s \in OnLines
  BY GoesFrom, Places DEF OnLines
<1>2. <<s>> \in Seq(OnLines) /\ Len(<<s>>) = 1 /\ <<s>>[1] = s
  BY <1>1
<1>. QED
  BY <1>1, <1>2 DEF LinesFrom

----------------------------------------------------------------------------
(* The parts of a node: children, groups, the line of an item.             *)

\* The contexts that the nodes of a tree are rendered in, when of is what they
\* render to.
Context(tree, of) == [tree : {tree}, of : {of}, indent : BOOLEAN, depth : Nat]

\* At the places of P, of has pieces of S.
Yields(of, P, S) == \A k \in P : \A d \in BOOLEAN, e \in Nat : of[k][d][e] \in Seq(S)

LEMMA ContextIs ==
  ASSUME NEW tree, NEW of, NEW ctx \in Context(tree, of)
  PROVE  /\ ctx.tree = tree /\ ctx.of = of /\ ctx.indent \in BOOLEAN /\ ctx.depth \in Nat
         /\ \A k \in Nat : Deeper(ctx, k) \in Context(tree, of)
BY DEF Context, Deeper

LEMMA ContextPad ==
  ASSUME NEW tree, NEW of, NEW ctx \in Context(tree, of), NEW A \in SUBSET FreshBefore
  PROVE  Pad(ctx) \in Goes(A, A)
BY ContextIs, PadGoes

LEMMA PiecesType ==
  ASSUME NEW tree, NEW of, NEW ctx \in Context(tree, of), NEW P, NEW S, Yields(of, P, S),
         NEW kids \in Seq(P)
  PROVE  Pieces(kids, ctx) \in Seq(S)
<1>. DEFINE g == [i \in DOMAIN kids |-> ctx.of[kids[i]][ctx.indent][ctx.depth]]
<1>1. Pieces(kids, ctx) = FlattenSeq(g)
  BY DEF Pieces
<1>. DEFINE T == Seq(S)
<1>2. DOMAIN g = DOMAIN kids /\ g = [i \in DOMAIN g |-> g[i]]
  BY Zenon
<1>3. \A i \in 1 .. Len(kids) : g[i] = of[kids[i]][ctx.indent][ctx.depth] /\ kids[i] \in P
  <2>1. \A i \in 1 .. Len(kids) : g[i] = ctx.of[kids[i]][ctx.indent][ctx.depth] /\ kids[i] \in P
    BY IsSeq
  <2>2. ctx.of = of
    BY ContextIs
  <2>. HIDE DEF g
  <2>. QED
    BY <2>1, <2>2
<1>. HIDE DEF g
<1>4. \A i \in 1 .. Len(kids) : g[i] \in T
  <2>1. ctx.indent \in BOOLEAN /\ ctx.depth \in Nat
    BY ContextIs
  <2>. QED
    BY <1>3, <2>1 DEF Yields
<1>. HIDE DEF T
<1>5. g \in Seq(T)
  BY <1>2, <1>4, MapIs
<1>. QED
  BY <1>1, <1>5, FlattenType DEF T

LEMMA ChildrenGo ==
  ASSUME NEW tree, NEW of, NEW ctx \in Context(tree, of), NEW P, Yields(of, P, GoodPieces),
         NEW kids \in Seq(P), NEW bsep \in {Blank, Line}
  PROVE  /\ Children(kids, ctx, bsep).s \in Blocks
         /\ ~Children(kids, ctx, bsep).block => Children(kids, ctx, bsep).s \in Inside
<1>1. Pieces(kids, ctx) \in Seq(GoodPieces)
  BY PiecesType
<1>. QED
  BY <1>1, GlueBlocks DEF Children

LEMMA InlineGoes ==
  ASSUME NEW tree, NEW of, NEW ctx \in Context(tree, of), NEW P, Yields(of, P, GoodPieces),
         NEW kids \in Seq(P)
  PROVE  Inline(kids, ctx) \in Blocks
BY ChildrenGo DEF Inline

LEMMA ChildrenOnLines ==
  ASSUME NEW tree, NEW of, NEW ctx \in Context(tree, of), NEW P, Yields(of, P, LinePieces),
         NEW kids \in Seq(P), NEW bsep \in {Blank, Line}
  PROVE  Children(kids, ctx, bsep).s \in OnLines
<1>1. Pieces(kids, ctx) \in Seq(LinePieces)
  BY PiecesType
<1>. QED
  BY <1>1, GlueLines DEF Children

\* A text in braces, or in brackets.
LEMMA BracesGo ==
  ASSUME NEW s \in Blocks
  PROVE  /\ <<"{">> \o s \o <<"}">> \in Goes(Fresh, Known)
         /\ <<"[">> \o s \o <<"]">> \in Goes(Fresh, Known)
<1>0. s \in Goes(Before, Known)
  BY DEF Blocks
<1>1. <<"{">> \o s \in Goes(Fresh, Known) /\ <<"[">> \o s \in Goes(Fresh, Known)
  BY <1>0, SpacesGo, Places, GoesThen
<1>. QED
  BY <1>1, WordsGo, Places, GoesThen

LEMMA GroupGoes ==
  ASSUME NEW tree, NEW of, NEW ctx \in Context(tree, of), NEW P, Yields(of, P, GoodPieces),
         NEW kids \in Seq(P)
  PROVE  Group(kids, ctx) \in Goes(Fresh, Known)
<1>1. Inline(kids, ctx) \in Blocks
  BY InlineGoes
<1>. QED
  BY <1>1, BracesGo DEF Group

LEMMA GroupsGo ==
  ASSUME NEW tree, NEW of, NEW ctx \in Context(tree, of), NEW P, Yields(of, P, GoodPieces),
         NEW args \in Seq(P)
  PROVE  Groups(args, ctx) \in Goes(Known, Known)
<1>. DEFINE g == [i \in DOMAIN args |-> Group(<<args[i]>>, ctx)]
<1>1. Groups(args, ctx) = FlattenSeq(g)
  BY DEF Groups
<1>2. DOMAIN g = DOMAIN args /\ g = [i \in DOMAIN g |-> g[i]]
  BY Zenon
<1>3. \A i \in 1 .. Len(args) : g[i] = Group(<<args[i]>>, ctx) /\ <<args[i]>> \in Seq(P)
  BY IsSeq, OneKid
<1>. HIDE DEF g
<1>4. \A i \in 1 .. Len(args) : g[i] \in Goes(Known, Known)
  BY <1>3, GroupGoes, Narrower
<1>. DEFINE T == Goes(Known, Known)
<1>. HIDE DEF T
<1>5. g \in Seq(T) /\ Len(g) = Len(args)
  <2>1. \A i \in 1 .. Len(args) : g[i] \in T
    BY <1>4 DEF T
  <2>. QED
    BY <1>2, <2>1, MapIs
<1>6. g \in Lists(Token)
  <2>1. T \subseteq Seq(Token)
    BY DEF T, Goes
  <2>. QED
    BY <1>5, <2>1, SeqWider DEF Lists
<1>. QED
  BY <1>1, <1>4, <1>5, <1>6, Places, FlattenGoes

LEMMA EnvArgsGo ==
  ASSUME NEW tree, NEW of, NEW ctx \in Context(tree, of), NEW P, Yields(of, P, GoodPieces),
         NEW args \in Seq(P),
         \A k \in P : tree[k].t = "text" => tree[k].s \in Inside
  PROVE  EnvArgs(args, ctx) \in Goes(Known, Known)
<1>. DEFINE h(k) == IF ctx.tree[k].t = "text" THEN <<"{">> \o ctx.tree[k].s \o <<"}">>
                    ELSE Group(<<k>>, ctx)
<1>. DEFINE g == [i \in DOMAIN args |-> h(args[i])]
<1>0. ctx.tree = tree
  BY ContextIs
<1>1. EnvArgs(args, ctx) = FlattenSeq(g)
  BY DEF EnvArgs
<1>2. DOMAIN g = DOMAIN args /\ g = [i \in DOMAIN g |-> g[i]]
  BY Zenon
<1>3. \A i \in 1 .. Len(args) : g[i] = h(args[i]) /\ args[i] \in P
  BY IsSeq
<1>. HIDE DEF g
<1>4. ASSUME NEW k \in P PROVE h(k) \in Goes(Known, Known)
  <2>1. CASE tree[k].t = "text"
    <3>1. tree[k].s \in Blocks
      BY <2>1, Narrower
    <3>. QED
      BY <1>0, <2>1, <3>1, BracesGo, Narrower
  <2>2. CASE tree[k].t # "text"
    <3>1. <<k>> \in Seq(P)
      BY OneKid
    <3>2. Group(<<k>>, ctx) \in Goes(Fresh, Known)
      BY <3>1, GroupGoes
    <3>. QED
      BY <1>0, <2>2, <3>2, Narrower
  <2>. QED
    BY <2>1, <2>2
<1>. DEFINE T == Goes(Known, Known)
<1>5. \A i \in 1 .. Len(args) : g[i] \in T
  BY <1>3, <1>4
<1>. HIDE DEF T
<1>6. g \in Seq(T) /\ Len(g) = Len(args)
  BY <1>2, <1>5, MapIs
<1>7. g \in Lists(Token)
  <2>1. T \subseteq Seq(Token)
    BY DEF T, Goes
  <2>. QED
    BY <1>6, <2>1, SeqWider DEF Lists
<1>. QED
  BY <1>1, <1>5, <1>6, <1>7, Places, FlattenGoes DEF T

LEMMA OptsGo ==
  ASSUME NEW b \in BOOLEAN
  PROVE  Opts(b) \in Goes(Known, Known)
<1>1. <<"[", "opt", "]">> = (<<"[">> \o <<"opt">>) \o <<"]">>
  OBVIOUS
<1>2. <<"[">> \o <<"opt">> \in Goes(Fresh, Known)
  BY WordsGo, Places, GoesThen
<1>3. (<<"[">> \o <<"opt">>) \o <<"]">> \in Goes(Fresh, Known)
  <2>1. <<"]">> \in Goes(Fresh, Known)
    BY WordsGo
  <2>. QED
    BY <1>2, <2>1, Places, GoesThen
<1>4. <<>> \in Goes(Known, Known)
  BY Places, GoesEmpty
<1>. QED
  BY <1>1, <1>3, <1>4, Narrower DEF Opts

LEMMA TermGoes ==
  ASSUME NEW tree, NEW of, NEW ctx \in Context(tree, of), NEW P, Yields(of, P, GoodPieces),
         NEW term \in Seq(P)
  PROVE  Term(term, ctx) \in Goes(Known, Known)
<1>1. <<>> \in Goes(Known, Known)
  BY Places, GoesEmpty
<1>. QED
  BY <1>1, InlineGoes, BracesGo, Narrower DEF Term

LEMMA ItemLineGoes ==
  ASSUME NEW tree, NEW of, NEW ctx \in Context(tree, of), NEW P, Yields(of, P, GoodPieces),
         NEW term \in Seq(P), NEW body \in Goes(Known, Known)
  PROVE  ItemLine(term, body, ctx) \in OnLines
<1>. DEFINE a == Term(term, ctx)
<1>. DEFINE b == IF body = <<>> THEN <<>> ELSE <<Space>> \o body
<1>0. <<>> \in Goes(Known, Known)
  BY Places, GoesEmpty
<1>1. a \in Goes(Known, Known)
  BY TermGoes
<1>2. b \in Goes(Known, Known)
  BY <1>0, SpacesGo, Places, GoesThen
<1>3. ItemLine(term, body, ctx) = <<"\\item">> \o a \o b
  BY DEF ItemLine
<1>. HIDE DEF a, b
<1>4. <<"\\item">> \o a \in Goes(Begun, Known)
  BY <1>1, SpacesGo, GoesConcat
<1>5. <<"\\item">> \o a \o b \in Goes(Begun, Known)
  BY <1>2, <1>4, GoesConcat
<1>. QED
  BY <1>3, <1>5 DEF OnLines

----------------------------------------------------------------------------
(* The kinds of nodes.                                                     *)

LEMMA CmdGoes ==
  ASSUME NEW tree, NEW of, NEW ctx \in Context(tree, of), NEW P, Yields(of, P, GoodPieces),
         NEW n, n.opts \in BOOLEAN, n.kids \in Seq(P)
  PROVE  Cmd(n, ctx) \in Inside
<1>1. <<"\\cmd">> \o Opts(n.opts) \in Goes(Fresh, Known)
  BY WordsGo, OptsGo, GoesConcat
<1>2. Groups(n.kids, ctx) \in Goes(Known, Known)
  BY GroupsGo
<1>3. <<"\\cmd">> \o Opts(n.opts) \o Groups(n.kids, ctx) \in Goes(Fresh, Known)
  BY <1>1, <1>2, GoesConcat
<1>. QED
  BY <1>3, Narrower DEF Cmd

LEMMA EnvGoes ==
  ASSUME NEW tree, NEW of, NEW ctx \in Context(tree, of), NEW P, Yields(of, P, GoodPieces),
         NEW Q, Yields(of, Q, LinePieces),
         \A k \in P : tree[k].t = "text" => tree[k].s \in Inside,
         NEW n, n.opts \in BOOLEAN, n.args \in Seq(P), n.kids \in Seq(Q)
  PROVE  Env(n, ctx) \in Goes(FreshBefore, Known)
<1>. DEFINE ps == Pieces(n.kids, ctx)
            items == \E i \in DOMAIN ps : ps[i].t = "item"
            p == IF items THEN Pad(ctx) ELSE <<>>
            body == IF items THEN Children(n.kids, Deeper(ctx, 1), Line).s
                    ELSE Inline(n.kids, ctx)
            more == IF body = <<>> THEN <<>> ELSE Line \o body
<1>1. Env(n, ctx) = p \o <<"\\begin{env}">> \o Opts(n.opts) \o EnvArgs(n.args, ctx)
                      \o more \o Line \o p \o <<"\\end{env}">>
  BY DEF Env
<1>2. p \in Goes(FreshBefore, FreshBefore) /\ p \in Goes(Begun, Begun)
  BY ContextPad, Places, GoesEmpty
<1>3. body \in OnLines
  <2>1. Deeper(ctx, 1) \in Context(tree, of)
    BY ContextIs
  <2>2. Children(n.kids, Deeper(ctx, 1), Line).s \in OnLines
    BY <2>1, ChildrenOnLines
  <2>3. Children(n.kids, ctx, Blank).s \in OnLines
    BY ChildrenOnLines
  <2>. QED
    BY <2>2, <2>3 DEF Inline
<1>. HIDE DEF p, body
<1>4. more \in Goes(Known, Known)
  <2>1. Line \o body \in Goes(Known, Known)
    BY <1>3, SpacesGo, GoesConcat DEF OnLines
  <2>. QED
    BY <2>1, Places, GoesEmpty
<1>. HIDE DEF more
<1>5. p \o <<"\\begin{env}">> \in Goes(FreshBefore, Known)
  <2>1. <<"\\begin{env}">> \in Goes(Fresh, Known)
    BY WordsGo
  <2>. QED
    BY <1>2, <2>1, Places, GoesThen
<1>6. p \o <<"\\begin{env}">> \o Opts(n.opts) \in Goes(FreshBefore, Known)
  BY <1>5, OptsGo, GoesConcat
<1>7. p \o <<"\\begin{env}">> \o Opts(n.opts) \o EnvArgs(n.args, ctx) \in Goes(FreshBefore, Known)
  <2>1. EnvArgs(n.args, ctx) \in Goes(Known, Known)
    BY EnvArgsGo
  <2>. QED
    BY <1>6, <2>1, GoesConcat
<1>8. PICK a \in Goes(FreshBefore, Known) :
        a = p \o <<"\\begin{env}">> \o Opts(n.opts) \o EnvArgs(n.args, ctx)
  BY <1>7
<1>9. a \o more \in Goes(FreshBefore, Known)
  BY <1>4, GoesConcat
<1>10. a \o more \o Line \in Goes(FreshBefore, Begun)
  BY <1>9, SpacesGo, GoesConcat
<1>11. a \o more \o Line \o p \in Goes(FreshBefore, Begun)
  BY <1>2, <1>10, GoesConcat
<1>12. a \o more \o Line \o p \o <<"\\end{env}">> \in Goes(FreshBefore, Known)
  <2>1. <<"\\end{env}">> \in Goes(Fresh, Known)
    BY WordsGo
  <2>2. PICK b \in Goes(FreshBefore, Begun) : b = a \o more \o Line \o p
    BY <1>11
  <2>3. b \o <<"\\end{env}">> \in Goes(FreshBefore, Known)
    BY <2>1, Places, GoesThen
  <2>. QED
    BY <2>2, <2>3
<1>. QED
  BY <1>1, <1>8, <1>12

LEMMA ItemGoes ==
  ASSUME NEW tree, NEW of, NEW ctx \in Context(tree, of), NEW P, Yields(of, P, GoodPieces),
         NEW n, n.term \in Seq(P), n.kids \in Seq(P)
  PROVE  Item(n, ctx) \in OnLines
<1>1. Deeper(ctx, 1) \in Context(tree, of)
  BY ContextIs
<1>2. Children(n.kids, Deeper(ctx, 1), Line).s \in Blocks
  BY <1>1, ChildrenGo
<1>3. PICK body \in Goes(Known, Known) : body = Strip(Children(n.kids, Deeper(ctx, 1), Line).s)
  BY <1>2, StripGoes
<1>4. ItemLine(n.term, body, ctx) \in Goes(Begun, Known)
  BY ItemLineGoes DEF OnLines
<1>5. Pad(ctx) \in Goes(Begun, Begun)
  BY ContextPad, Places
<1>6. Pad(ctx) \o ItemLine(n.term, body, ctx) \in Goes(Begun, Known)
  BY <1>4, <1>5, GoesConcat
<1>. QED
  BY <1>3, <1>6 DEF Item, OnLines

LEMMA SectionGoes ==
  ASSUME NEW tree, NEW of, NEW ctx \in Context(tree, of), NEW P, Yields(of, P, GoodPieces),
         NEW n, n.label \in BOOLEAN, n.short \in Seq(P), n.title \in Seq(P), n.kids \in Seq(P)
  PROVE  Section(n, ctx) \in Goes(Fresh, Known)
<1>. DEFINE body == Inline(n.kids, ctx)
            label == IF n.label THEN Line \o <<"\\label">> ELSE <<>>
            more == IF body = <<>> THEN <<>> ELSE Blank \o body
<1>1. Section(n, ctx) = <<"\\section">> \o Term(n.short, ctx) \o Group(n.title, ctx) \o label
                          \o more
  BY DEF Section
<1>2. body \in Goes(Begun, Known)
  BY InlineGoes, Narrower DEF OnLines
<1>. HIDE DEF body
<1>3. <<>> \in Goes(Known, Known)
  BY Places, GoesEmpty
<1>4. label \in Goes(Known, Known)
  <2>1. <<"\\label">> \in Goes(Fresh, Known) /\ Line \in Goes(Known, Begun)
    BY WordsGo, SpacesGo
  <2>2. Line \o <<"\\label">> \in Goes(Known, Known)
    BY <2>1, Places, GoesThen
  <2>. QED
    BY <1>3, <2>2
<1>5. more \in Goes(Known, Known)
  <2>1. Blank \o body \in Goes(Known, Known)
    BY <1>2, SpacesGo, GoesConcat
  <2>. QED
    BY <1>3, <2>1
<1>. HIDE DEF label, more
<1>6. PICK a \in Goes(Fresh, Known) : a = <<"\\section">> \o Term(n.short, ctx)
  <2>1. <<"\\section">> \in Goes(Fresh, Known) /\ Term(n.short, ctx) \in Goes(Known, Known)
    BY WordsGo, TermGoes
  <2>. QED
    BY <2>1, GoesConcat
<1>7. PICK b \in Goes(Fresh, Known) : b = a \o Group(n.title, ctx)
  <2>1. Group(n.title, ctx) \in Goes(Fresh, Known)
    BY GroupGoes
  <2>. QED
    BY <2>1, Places, GoesThen
<1>8. PICK c \in Goes(Fresh, Known) : c = b \o label
  BY <1>4, <1>7, GoesConcat
<1>9. c \o more \in Goes(Fresh, Known)
  BY <1>5, <1>8, GoesConcat
<1>. QED
  BY <1>1, <1>6, <1>7, <1>8, <1>9

LEMMA VerbatimGoes ==
  ASSUME NEW n, n.s \in Inside
  PROVE  Verbatim(n) \in Goes(Fresh, Known)
<1>1. /\ <<"\\begin{verbatim}", Newline>> = <<"\\begin{verbatim}">> \o Line
      /\ <<Newline, "\\end{verbatim}">> = Line \o <<"\\end{verbatim}">>
  BY TwoWords DEF Line
<1>2. /\ <<"\\begin{verbatim}">> \in Goes(Fresh, Known) /\ <<"\\end{verbatim}">> \in Goes(Fresh, Known)
      /\ Line \in Goes(Known, Begun)
  BY WordsGo, SpacesGo
<1>3. <<"\\begin{verbatim}">> \o Line \in Goes(Fresh, Begun)
  BY <1>2, GoesConcat
<1>4. Line \o <<"\\end{verbatim}">> \in Goes(Known, Known)
  BY <1>2, Places, GoesThen
<1>5. PICK a \in Goes(Fresh, Begun), b \in Goes(Known, Known) :
        a = <<"\\begin{verbatim}", Newline>> /\ b = <<Newline, "\\end{verbatim}">>
  BY <1>1, <1>3, <1>4
<1>6. n.s \in Goes(Known, Known)
  BY DEF Inside
<1>7. a \o n.s \in Goes(Fresh, Known)
  BY <1>6, Places, GoesThen
<1>8. a \o n.s \o b \in Goes(Fresh, Known)
  BY <1>7, GoesConcat
<1>. QED
  BY <1>5, <1>8 DEF Verbatim

\* A word at the beginning of a line, indented.
LEMMA PaddedGoes ==
  ASSUME NEW tree, NEW of, NEW ctx \in Context(tree, of), NEW s \in Goes(Fresh, Known)
  PROVE  Pad(ctx) \o s \in Goes(FreshBefore, Known) /\ Pad(ctx) \o s \in OnLines
<1>1. Pad(ctx) \in Goes(FreshBefore, FreshBefore) /\ Pad(ctx) \in Goes(Begun, Begun)
  BY ContextPad, Places
<1>2. Pad(ctx) \o s \in Goes(FreshBefore, Known) /\ Pad(ctx) \o s \in Goes(Begun, Known)
  BY <1>1, Places, GoesThen
<1>. QED
  BY <1>2 DEF OnLines

----------------------------------------------------------------------------
(* The items of a list.                                                    *)

\* One round of the loop that makes the items of a list.
Added(items, i, kids, tree) ==
  LET c == tree[kids[i]]
  IN  IF c.t = "list" /\ i > 1
      THEN [items EXCEPT ![Len(items)].parts = Append(@, kids[i])]
      ELSE Append(items, IF c.t \in {"plain", "item"}
                         THEN [term |-> c.term, parts |-> c.kids]
                         ELSE [term |-> <<>>, parts |-> <<kids[i]>>])

Adds(f, n, kids, tree) ==
  f[0] = <<>> /\ \A i \in 1 .. n : f[i] = Added(f[i - 1], i, kids, tree)

LEMMA AddsExist ==
  ASSUME NEW kids, NEW tree, NEW n \in Nat
  PROVE  \E f : Adds(f, n, kids, tree)
<1>. DEFINE S == {i \in Nat : \E f : Adds(f, i, kids, tree)}
<1>1. 0 \in S
  <2>. DEFINE f == [i \in {0} |-> <<>>]
  <2>1. f[0] = <<>>
    OBVIOUS
  <2>. HIDE DEF f
  <2>2. Adds(f, 0, kids, tree)
    BY <2>1 DEF Adds
  <2>. QED
    BY <2>2
<1>2. ASSUME NEW i \in S PROVE i + 1 \in S
  <2>1. PICK f : f[0] = <<>> /\ \A j \in 1 .. i : f[j] = Added(f[j - 1], j, kids, tree)
    BY DEF Adds
  <2>. DEFINE h == [j \in 0 .. i + 1 |-> IF j <= i THEN f[j] ELSE Added(f[i], i + 1, kids, tree)]
  <2>2. i \in Nat
    OBVIOUS
  <2>3. (\A j \in 0 .. i : h[j] = f[j]) /\ h[i + 1] = Added(f[i], i + 1, kids, tree)
    BY <2>2
  <2>. HIDE DEF h
  <2>4. ASSUME NEW j \in 1 .. i + 1 PROVE h[j] = Added(h[j - 1], j, kids, tree)
    <3>1. CASE j = i + 1
      <4>1. i \in 0 .. i /\ j - 1 = i
        BY <2>2, <3>1
      <4>. QED
        BY <2>3, <3>1, <4>1
    <3>2. CASE j # i + 1
      <4>1. j \in 1 .. i /\ j \in 0 .. i /\ j - 1 \in 0 .. i
        BY <2>2, <3>2
      <4>. QED
        BY <2>1, <2>3, <4>1
    <3>. QED
      BY <3>1, <3>2
  <2>5. h[0] = <<>>
    <3>1. 0 \in 0 .. i
      BY <2>2
    <3>. QED
      BY <2>1, <2>3, <3>1
  <2>6. Adds(h, i + 1, kids, tree)
    BY <2>4, <2>5 DEF Adds
  <2>. QED
    BY <2>2, <2>6
<1>3. S = Nat
  <2>. HIDE DEF S
  <2>1. S \subseteq Nat
    BY DEF S
  <2>. QED
    BY <1>1, <1>2, <2>1, SetInduction
<1>. QED
  BY <1>3

LEMMA ItemsAre ==
  ASSUME NEW kids, NEW tree, Len(kids) \in Nat
  PROVE  \E f : Adds(f, Len(kids), kids, tree) /\ Items(kids, tree) = f[Len(kids)]
<1>. DEFINE Is(f) == f = [i \in 0 .. Len(kids) |->
                            IF i = 0 THEN <<>> ELSE Added(f[i - 1], i, kids, tree)]
<1>1. \E f : Is(f)
  <2>1. PICK g : g[0] = <<>> /\ \A i \in 1 .. Len(kids) : g[i] = Added(g[i - 1], i, kids, tree)
    BY AddsExist DEF Adds
  <2>. DEFINE f == [i \in 0 .. Len(kids) |-> g[i]]
  <2>2. \A i \in 0 .. Len(kids) : f[i] = IF i = 0 THEN <<>> ELSE Added(f[i - 1], i, kids, tree)
    <3>1. \A i \in 0 .. Len(kids) : f[i] = g[i]
      OBVIOUS
    <3>2. \A i \in 0 .. Len(kids) : i = 0 \/ (i \in 1 .. Len(kids) /\ i - 1 \in 0 .. Len(kids))
      OBVIOUS
    <3>. HIDE DEF f
    <3>. QED
      BY <2>1, <3>1, <3>2
  <2>3. f = [i \in 0 .. Len(kids) |-> f[i]]
    OBVIOUS
  <2>4. Is(f)
    <3>. HIDE DEF f
    <3>. QED
      BY <2>2, <2>3
  <2>. QED
    BY <2>4
<1>2. PICK f : f = (CHOOSE g : Is(g)) /\ Is(f)
  BY <1>1
<1>3. Items(kids, tree) = f[Len(kids)]
  BY <1>2 DEF Items, Added
<1>4. \A i \in 0 .. Len(kids) : f[i] = IF i = 0 THEN <<>> ELSE Added(f[i - 1], i, kids, tree)
  <2>. DEFINE g == [i \in 0 .. Len(kids) |->
                      IF i = 0 THEN <<>> ELSE Added(f[i - 1], i, kids, tree)]
  <2>1. f = g
    BY <1>2
  <2>2. \A i \in 0 .. Len(kids) : g[i] = IF i = 0 THEN <<>> ELSE Added(f[i - 1], i, kids, tree)
    OBVIOUS
  <2>. QED
    BY <2>1, <2>2, Zenon
<1>5. Adds(f, Len(kids), kids, tree)
  <2>1. 0 \in 0 .. Len(kids) /\ \A i \in 1 .. Len(kids) : i \in 0 .. Len(kids) /\ i # 0
    OBVIOUS
  <2>. QED
    BY <1>4, <2>1 DEF Adds
<1>. QED
  BY <1>3, <1>5

\* The items of a list whose children are places of Q, if what their terms and
\* texts are made of is places of P.
ItemParts(P) == [term : Seq(P), parts : Seq(P)]

LEMMA AddedType ==
  ASSUME NEW tree, NEW P, NEW T, T = ItemParts(P), NEW items \in Seq(T), NEW kids, NEW i \in Nat,
         i > 1 => Len(items) # 0, tree[kids[i]].t # "item" => kids[i] \in P,
         tree[kids[i]].t \in {"plain", "item"} =>
           tree[kids[i]].term \in Seq(P) /\ tree[kids[i]].kids \in Seq(P)
  PROVE  Added(items, i, kids, tree) \in Seq(T) /\ Len(Added(items, i, kids, tree)) # 0
<1>. DEFINE c == tree[kids[i]]
<1>0. Len(items) \in Nat /\ \A j \in 1 .. Len(items) : items[j] \in T
  BY IsSeq
<1>1. CASE c.t = "list" /\ i > 1
  <2>1. Len(items) \in 1 .. Len(items) /\ kids[i] \in P
    BY <1>0, <1>1
  <2>2. items[Len(items)] \in T
    BY <1>0, <2>1
  <2>. DEFINE x == [items[Len(items)] EXCEPT !.parts = Append(@, kids[i])]
  <2>3. x \in T
    <3>1. \A s \in Seq(P) : Append(s, kids[i]) \in Seq(P)
      BY <2>1
    <3>. QED
      BY <2>2, <3>1 DEF ItemParts
  <2>4. Added(items, i, kids, tree) = [items EXCEPT ![Len(items)] = x]
    BY <1>1 DEF Added
  <2>. HIDE DEF x
  <2>. QED
    BY <1>0, <2>1, <2>3, <2>4
<1>2. CASE ~(c.t = "list" /\ i > 1)
  <2>. DEFINE x == IF c.t \in {"plain", "item"} THEN [term |-> c.term, parts |-> c.kids]
                   ELSE [term |-> <<>>, parts |-> <<kids[i]>>]
  <2>1. x \in T
    <3>1. CASE c.t \in {"plain", "item"}
      BY <3>1 DEF ItemParts
    <3>2. CASE c.t \notin {"plain", "item"}
      <4>1. <<kids[i]>> \in Seq(P) /\ <<>> \in Seq(P)
        BY <3>2, OneKid
      <4>. QED
        BY <3>2, <4>1 DEF ItemParts
    <3>. QED
      BY <3>1, <3>2
  <2>2. Added(items, i, kids, tree) = Append(items, x)
    BY <1>2 DEF Added
  <2>. HIDE DEF x
  <2>. QED
    BY <2>1, <2>2
<1>. QED
  BY <1>1, <1>2

LEMMA ItemsType ==
  ASSUME NEW tree, NEW P, NEW Q, NEW kids \in Seq(Q),
         \A k \in Q : /\ tree[k].t # "item" => k \in P
                      /\ tree[k].t \in {"plain", "item"} =>
                           tree[k].term \in Seq(P) /\ tree[k].kids \in Seq(P)
  PROVE  Items(kids, tree) \in Seq(ItemParts(P))
<1>. DEFINE T == ItemParts(P)
<1>1. Len(kids) \in Nat /\ \A i \in 1 .. Len(kids) : kids[i] \in Q
  BY IsSeq
<1>2. PICK f : Adds(f, Len(kids), kids, tree) /\ Items(kids, tree) = f[Len(kids)]
  BY <1>1, ItemsAre
<1>. HIDE DEF T
<1>. DEFINE S == {i \in 0 .. Len(kids) : f[i] \in Seq(T) /\ (i # 0 => Len(f[i]) # 0)}
<1>3. 0 \in S
  <2>1. f[0] = <<>> /\ <<>> \in Seq(T) /\ 0 \in 0 .. Len(kids)
    BY <1>1, <1>2 DEF Adds
  <2>. QED
    BY <2>1
<1>4. ASSUME NEW i \in 1 .. Len(kids), i - 1 \in S PROVE i \in S
  <2>1. /\ f[i] = Added(f[i - 1], i, kids, tree) /\ f[i - 1] \in Seq(T) /\ kids[i] \in Q
        /\ i \in Nat /\ (i > 1 => Len(f[i - 1]) # 0) /\ i \in 0 .. Len(kids)
    BY <1>1, <1>2, <1>4 DEF Adds
  <2>2. Added(f[i - 1], i, kids, tree) \in Seq(T) /\ Len(Added(f[i - 1], i, kids, tree)) # 0
    BY <2>1, AddedType DEF T
  <2>. QED
    BY <2>1, <2>2
<1>5. Len(kids) \in S
  <2>. HIDE DEF S
  <2>1. \A i \in 0 .. Len(kids) : i \in S
    BY <1>1, <1>3, <1>4, Upward
  <2>. QED
    BY <1>1, <2>1
<1>. QED
  BY <1>2, <1>5 DEF T

----------------------------------------------------------------------------
(* Lists and tables.                                                       *)

LEMMA ListGoes ==
  ASSUME NEW tree, NEW of, NEW ctx \in Context(tree, of), NEW P, Yields(of, P, GoodPieces),
         NEW Q,
         \A k \in Q : /\ tree[k].t # "item" => k \in P
                      /\ tree[k].t \in {"plain", "item"} =>
                           tree[k].term \in Seq(P) /\ tree[k].kids \in Seq(P),
         NEW n, n.opts \in BOOLEAN, n.kids \in Seq(Q)
  PROVE  List(n, ctx) \in Goes(FreshBefore, Known)
<1>. DEFINE p == Pad(ctx)
            Row(it) == Pad(Deeper(ctx, 1))
                         \o ItemLine(it.term, Strip(Children(it.parts, Deeper(ctx, 2), Line).s), ctx)
            items == Items(n.kids, ctx.tree)
            rows == [i \in DOMAIN items |-> Row(items[i])]
            top == p \o <<"\\begin{list}">> \o Opts(n.opts)
            end == p \o <<"\\end{list}">>
<1>1. List(n, ctx) = Join(<<top>> \o rows \o <<end>>, Line)
  BY DEF List
<1>2. items \in Seq(ItemParts(P))
  <2>1. ctx.tree = tree
    BY ContextIs
  <2>2. Items(n.kids, tree) \in Seq(ItemParts(P))
    BY ItemsType
  <2>. QED
    BY <2>1, <2>2
<1>3. ASSUME NEW it \in ItemParts(P) PROVE Row(it) \in OnLines
  <2>1. it.term \in Seq(P) /\ it.parts \in Seq(P)
    BY DEF ItemParts
  <2>2. Deeper(ctx, 1) \in Context(tree, of) /\ Deeper(ctx, 2) \in Context(tree, of)
    BY ContextIs
  <2>3. Children(it.parts, Deeper(ctx, 2), Line).s \in Blocks
    BY <2>1, <2>2, ChildrenGo
  <2>4. PICK body \in Goes(Known, Known) : body = Strip(Children(it.parts, Deeper(ctx, 2), Line).s)
    BY <2>3, StripGoes
  <2>5. ItemLine(it.term, body, ctx) \in Goes(Begun, Known)
    BY <2>1, ItemLineGoes DEF OnLines
  <2>6. Pad(Deeper(ctx, 1)) \in Goes(Begun, Begun)
    BY <2>2, ContextPad, Places
  <2>7. Pad(Deeper(ctx, 1)) \o ItemLine(it.term, body, ctx) \in Goes(Begun, Known)
    BY <2>5, <2>6, GoesConcat
  <2>. QED
    BY <2>4, <2>7 DEF OnLines
<1>. HIDE DEF Row, items
<1>4. rows \in Seq(OnLines)
  <2>1. DOMAIN rows = DOMAIN items /\ rows = [i \in DOMAIN rows |-> rows[i]]
    BY Zenon
  <2>2. \A i \in 1 .. Len(items) : rows[i] = Row(items[i]) /\ items[i] \in ItemParts(P)
    BY <1>2, IsSeq
  <2>. HIDE DEF rows
  <2>3. \A i \in 1 .. Len(items) : rows[i] \in OnLines
    BY <1>3, <2>2
  <2>. QED
    BY <1>2, <2>1, <2>3, MapIs
<1>. HIDE DEF rows
<1>5. top \in Goes(FreshBefore, Known) /\ end \in Goes(FreshBefore, Known)
  <2>1. <<"\\begin{list}">> \in Goes(Fresh, Known) /\ <<"\\end{list}">> \in Goes(Fresh, Known)
    BY WordsGo
  <2>2. /\ p \o <<"\\begin{list}">> \in Goes(FreshBefore, Known)
        /\ p \o <<"\\end{list}">> \in Goes(FreshBefore, Known)
    BY <2>1, PaddedGoes
  <2>. QED
    BY <2>2, OptsGo, GoesConcat
<1>. HIDE DEF top, end
<1>6. <<top>> \in LinesFrom(FreshBefore) /\ <<end>> \in Seq(OnLines)
  <2>1. <<top>> \in LinesFrom(FreshBefore) /\ <<end>> \in LinesFrom(FreshBefore)
    BY <1>5, Places, LinesOne
  <2>. QED
    BY <2>1 DEF LinesFrom
<1>7. <<top>> \o rows \in LinesFrom(FreshBefore)
  BY <1>4, <1>6, LinesMore
<1>8. <<top>> \o rows \o <<end>> \in LinesFrom(FreshBefore)
  BY <1>6, <1>7, LinesMore
<1>9. Join(<<top>> \o rows \o <<end>>, Line) \in Goes(FreshBefore, Known)
  BY <1>8, SpacesGo, JoinLines
<1>. QED
  BY <1>1, <1>9

LEMMA LinesTwo ==
  ASSUME NEW A, Begun \subseteq A, NEW s \in Goes(A, Known), NEW t \in OnLines
  PROVE  <<s, t>> \in LinesFrom(A)
<1>1. <<s>> \in LinesFrom(A)
  BY LinesOne
<1>2. <<t>> \in Seq(OnLines)
  OBVIOUS
<1>3. <<s>> \o <<t>> \in LinesFrom(A)
  BY <1>1, <1>2, LinesMore
<1>. QED
  BY <1>3, TwoWords

LEMMA NoLines == <<>> \in Seq(OnLines) /\ <<>> \in OnLines
<1>1. <<>> \in Goes(Begun, Begun)
  BY Places, GoesEmpty
<1>. QED
  BY <1>1, Places, GoesFrom DEF OnLines

\* Lines that may be none.
LEMMA JoinAny ==
  ASSUME NEW seqs \in Seq(OnLines), NEW sep \in Goes(Known, Begun)
  PROVE  Join(seqs, sep) \in OnLines
<1>1. CASE seqs = <<>>
  <2>1. Join(<<>>, sep) = FlattenSeq(<<>>)
    BY DEF Join
  <2>. QED
    BY <1>1, <2>1, FlattenEmpty, NoLines
<1>2. CASE seqs # <<>>
  <2>. DEFINE T == OnLines
  <2>1. seqs \in Seq(T) /\ Len(seqs) # 0 /\ seqs[1] \in T
    BY <1>2
  <2>2. seqs \in LinesFrom(Begun)
    BY <2>1 DEF LinesFrom, OnLines
  <2>. QED
    BY <2>2, JoinLines DEF OnLines
<1>. QED
  BY <1>1, <1>2

LEMMA FourGo ==
  ASSUME NEW A, NEW B, NEW C, NEW D, NEW E, NEW x, NEW y, NEW z, NEW w,
         <<x>> \in Goes(A, B), <<y>> \in Goes(B, C), <<z>> \in Goes(C, D), <<w>> \in Goes(D, E)
  PROVE  <<x, y, z, w>> \in Goes(A, E)
<1>1. <<x>> \o <<y>> \in Goes(A, C)
  BY GoesConcat
<1>2. <<z>> \o <<w>> \in Goes(C, E)
  BY GoesConcat
<1>3. <<x, y>> \in Goes(A, C) /\ <<z, w>> \in Goes(C, E)
  BY <1>1, <1>2, TwoWords
<1>4. PICK a \in Goes(A, C), b \in Goes(C, E) : a = <<x, y>> /\ b = <<z, w>>
  BY <1>3
<1>5. a \o b \in Goes(A, E)
  BY GoesConcat
<1>6. a \o b = <<x, y, z, w>>
  BY <1>4, FourWords
<1>. QED
  BY <1>5, <1>6

\* The cells of a row of a table.
LEMMA RowGoes ==
  ASSUME NEW tree, NEW of, NEW ctx \in Context(tree, of), NEW P, Yields(of, P, GoodPieces),
         NEW cells \in Seq(P)
  PROVE  RowStr(cells, ctx) \in OnLines
<1>. DEFINE g == [i \in DOMAIN cells |-> Inline(<<cells[i]>>, ctx)]
            row == Join(g, <<" & ">>)
            end == <<Space, "\\\\">>
<1>1. end \in Goes(Known, Known)
  <2>1. <<Space>> \in Goes(Known, Known) /\ <<"\\\\">> \in Goes(Fresh, Known)
    BY SpacesGo, WordsGo
  <2>2. <<Space>> \o <<"\\\\">> \in Goes(Known, Known)
    BY <2>1, Places, GoesThen
  <2>. QED
    BY <2>2, TwoWords
<1>2. DOMAIN g = DOMAIN cells /\ g = [i \in DOMAIN g |-> g[i]]
  BY Zenon
<1>3. \A i \in 1 .. Len(cells) : g[i] = Inline(<<cells[i]>>, ctx) /\ cells[i] \in P
  <2>1. \A i \in DOMAIN cells : g[i] = Inline(<<cells[i]>>, ctx)
    BY Zenon
  <2>. QED
    BY <2>1, IsSeq
<1>4. RowStr(cells, ctx) = row \o end
  BY DEF RowStr
<1>. HIDE DEF g, end
<1>5. \A i \in 1 .. Len(cells) : g[i] \in Blocks
  <2>1. \A k \in P : Inline(<<k>>, ctx) \in Blocks
    BY OneKid, InlineGoes
  <2>. QED
    BY <1>3, <2>1
<1>6. g \in Seq(Blocks) /\ Len(g) = Len(cells)
  BY <1>2, <1>5, MapIs
<1>7. CASE Len(g) = 0
  <2>1. g = <<>>
    BY <1>6, <1>7
  <2>2. row = <<>>
    <3>1. Join(<<>>, <<" & ">>) = FlattenSeq(<<>>)
      BY DEF Join
    <3>. QED
      BY <2>1, <3>1, FlattenEmpty
  <2>3. end \in Seq(Token)
    BY <1>1 DEF Goes
  <2>4. row \o end = end
    BY <2>2, <2>3, NoText
  <2>. QED
    BY <1>1, <1>4, <2>4, Places, GoesFrom DEF OnLines
<1>8. CASE Len(g) # 0
  <2>1. g \in Lists(Token)
    <3>1. Blocks \subseteq Seq(Token)
      BY DEF Blocks, Goes
    <3>. QED
      BY <1>6, <3>1, SeqWider DEF Lists
  <2>2. \A i \in 1 .. Len(g) : g[i] \in Goes(Before, Known)
    BY <1>5, <1>6 DEF Blocks
  <2>3. Len(g) \in Nat
    BY <1>6
  <2>4. g[1] \in Goes(Before, Known)
    BY <1>8, <2>2, <2>3
  <2>5. <<" & ">> \in Goes(Known, Before)
    BY SpacesGo, Places, GoesFrom
  <2>. HIDE DEF row
  <2>6. row \in Goes(Before, Known)
    BY <1>8, <2>1, <2>2, <2>4, <2>5, JoinGoes DEF row
  <2>7. row \o end \in Goes(Before, Known)
    BY <1>1, <2>6, GoesConcat
  <2>. QED
    BY <1>4, <2>7, Places, GoesFrom DEF OnLines
<1>. QED
  BY <1>7, <1>8

\* The cells of rows are places of P.
Tabled(tree, P) == \A k \in P : Cells(tree[k]) \in Seq(P)

\* The lines of a table.
LEMMA RowsGo ==
  ASSUME NEW tree, NEW of, NEW ctx \in Context(tree, of), NEW P, Yields(of, P, GoodPieces),
         Tabled(tree, P),
         NEW n, n.header \in Seq(P), n.rows \in Seq(P)
  PROVE  Rows(n, ctx) \in Goes(FreshBefore, Known)
<1>. DEFINE p == Pad(ctx)
            p1 == Pad(Deeper(ctx, 1))
            rule == p1 \o <<"\\rule">>
            cell(k) == p1 \o RowStr(Cells(ctx.tree[k]), ctx)
            top == p \o <<"\\begin{tabular}">>
            head == IF n.header = <<>> THEN <<>> ELSE <<cell(n.header[1]), rule>>
            rows == [i \in DOMAIN n.rows |->
                       IF ctx.tree[n.rows[i]].t = "rule" THEN rule ELSE cell(n.rows[i])]
            end == p \o <<"\\end{tabular}">>
<1>1. Rows(n, ctx) = Join(<<top, rule>> \o head \o rows \o <<rule, end>>, Line)
  BY DEF Rows
<1>2. Deeper(ctx, 1) \in Context(tree, of)
  BY ContextIs
<1>3. rule \in Goes(FreshBefore, Known) /\ rule \in OnLines
  BY <1>2, WordsGo, PaddedGoes
<1>4. /\ top \in Goes(FreshBefore, Known) /\ end \in OnLines
  BY WordsGo, PaddedGoes
<1>5. ASSUME NEW k \in P PROVE cell(k) \in OnLines
  <2>1. Cells(ctx.tree[k]) \in Seq(P)
    <3>1. ctx.tree = tree
      BY ContextIs
    <3>2. Cells(tree[k]) \in Seq(P)
      BY DEF Tabled
    <3>. QED
      BY <3>1, <3>2
  <2>2. RowStr(Cells(ctx.tree[k]), ctx) \in Goes(Begun, Known)
    BY <2>1, RowGoes DEF OnLines
  <2>3. p1 \in Goes(Begun, Begun)
    BY <1>2, ContextPad, Places
  <2>4. p1 \o RowStr(Cells(ctx.tree[k]), ctx) \in Goes(Begun, Known)
    BY <2>2, <2>3, GoesConcat
  <2>. QED
    BY <2>4 DEF OnLines
<1>. HIDE DEF cell, rule, top, end
<1>6. head \in Seq(OnLines)
  <2>1. CASE n.header = <<>>
    BY <2>1, NoLines
  <2>2. CASE n.header # <<>>
    <3>1. n.header[1] \in P
      BY <2>2
    <3>2. cell(n.header[1]) \in OnLines
      BY <1>5, <3>1
    <3>. QED
      BY <1>3, <2>2, <3>2
  <2>. QED
    BY <2>1, <2>2
<1>7. rows \in Seq(OnLines)
  <2>1. DOMAIN rows = DOMAIN n.rows /\ rows = [i \in DOMAIN rows |-> rows[i]]
    BY Zenon
  <2>2. \A i \in 1 .. Len(n.rows) : /\ rows[i] = rule \/ rows[i] = cell(n.rows[i])
                                    /\ n.rows[i] \in P
    BY IsSeq
  <2>. HIDE DEF rows
  <2>3. \A i \in 1 .. Len(n.rows) : rows[i] \in OnLines
    BY <1>3, <1>5, <2>2
  <2>. QED
    BY <2>1, <2>3, MapIs
<1>8. <<rule, end>> \in Seq(OnLines)
  BY <1>3, <1>4
<1>. HIDE DEF head, rows
<1>9. <<top, rule>> \in LinesFrom(FreshBefore)
  BY <1>3, <1>4, Places, LinesTwo
<1>10. <<top, rule>> \o head \in LinesFrom(FreshBefore)
  BY <1>6, <1>9, LinesMore
<1>11. <<top, rule>> \o head \o rows \in LinesFrom(FreshBefore)
  BY <1>7, <1>10, LinesMore
<1>12. <<top, rule>> \o head \o rows \o <<rule, end>> \in LinesFrom(FreshBefore)
  BY <1>8, <1>11, LinesMore
<1>13. Join(<<top, rule>> \o head \o rows \o <<rule, end>>, Line) \in Goes(FreshBefore, Known)
  BY <1>12, SpacesGo, JoinLines
<1>. QED
  BY <1>1, <1>13

LEMMA TabularGoes ==
  ASSUME NEW tree, NEW of, NEW ctx \in Context(tree, of), NEW P, Yields(of, P, GoodPieces),
         Tabled(tree, P),
         NEW n, n.resize \in BOOLEAN, n.header \in Seq(P), n.rows \in Seq(P)
  PROVE  Tabular(n, ctx) \in Goes(FreshBefore, Known)
<1>1. Deeper(ctx, 1) \in Context(tree, of)
  BY ContextIs
<1>2. Rows(n, ctx) \in Goes(FreshBefore, Known)
  BY RowsGo
<1>3. Rows(n, Deeper(ctx, 1)) \in Goes(FreshBefore, Known)
  BY <1>1, RowsGo
<1>4. <<"\\resizebox", "{", "%", Newline>> \in Goes(Fresh, Begun)
  <2>1. <<"\\resizebox">> \in Goes(Fresh, Known) /\ <<"{">> \in Goes(Fresh, Before)
        /\ <<"%">> \in Goes(Fresh, Known) /\ <<Newline>> \in Goes(Known, Begun)
    BY WordsGo, SpacesGo DEF Line
  <2>2. <<"{">> \in Goes(Known, Before) /\ <<"%">> \in Goes(Before, Known)
    BY <2>1, Places, GoesFrom
  <2>. QED
    BY <2>1, <2>2, FourGo
<1>5. PICK w \in Goes(Fresh, Begun) : w = <<"\\resizebox", "{", "%", Newline>>
  BY <1>4
<1>6. Pad(ctx) \in Goes(FreshBefore, FreshBefore) /\ Pad(ctx) \in Goes(Begun, Begun)
  BY ContextPad, Places
<1>7. Pad(ctx) \o w \in Goes(FreshBefore, Begun)
  BY <1>6, Places, GoesThen
<1>8. Pad(ctx) \o w \o Rows(n, Deeper(ctx, 1)) \in Goes(FreshBefore, Known)
  BY <1>3, <1>7, Places, GoesThen
<1>9. PICK v \in Goes(FreshBefore, Known) : v = Pad(ctx) \o w \o Rows(n, Deeper(ctx, 1))
  BY <1>8
<1>10. v \o Line \in Goes(FreshBefore, Begun)
  BY SpacesGo, GoesConcat
<1>11. v \o Line \o Pad(ctx) \in Goes(FreshBefore, Begun)
  BY <1>6, <1>10, GoesConcat
<1>12. v \o Line \o Pad(ctx) \o <<"}">> \in Goes(FreshBefore, Known)
  <2>1. <<"}">> \in Goes(Fresh, Known)
    BY WordsGo
  <2>2. PICK u \in Goes(FreshBefore, Begun) : u = v \o Line \o Pad(ctx)
    BY <1>11
  <2>3. u \o <<"}">> \in Goes(FreshBefore, Known)
    BY <2>1, Places, GoesThen
  <2>. QED
    BY <2>2, <2>3
<1>. QED
  BY <1>2, <1>5, <1>9, <1>12 DEF Tabular

LEMMA FloatGoes ==
  ASSUME NEW tree, NEW of, NEW ctx \in Context(tree, of), NEW P, Yields(of, P, GoodPieces),
         NEW n, n.caption \in Seq(P), n.label \in BOOLEAN, NEW body \in OnLines,
         NEW above \in BOOLEAN
  PROVE  Float(n, ctx, body, above) \in Goes(FreshBefore, Known)
<1>. DEFINE p == Pad(ctx)
            p1 == Pad(Deeper(ctx, 1))
            text == IF n.caption = <<>> THEN <<>>
                    ELSE <<p1 \o <<"\\caption">> \o Group(n.caption, ctx)>>
            label == IF n.label THEN <<p1 \o <<"\\label">> >> ELSE <<>>
            caption == text \o label
            first == p \o <<"\\begin{float}", "[", "opt", "]">>
            second == p1 \o <<"\\centering">>
            inner == IF above THEN caption \o <<body>> ELSE <<body>> \o caption
            end == p \o <<"\\end{float}">>
<1>1. Float(n, ctx, body, above) = Join(<<first, second>> \o inner \o <<end>>, Line)
  BY DEF Float
<1>2. Deeper(ctx, 1) \in Context(tree, of)
  BY ContextIs
<1>3. second \in OnLines /\ end \in OnLines
  BY <1>2, WordsGo, PaddedGoes
<1>4. first \in Goes(FreshBefore, Known)
  <2>1. <<"\\begin{float}">> \in Goes(Fresh, Known) /\ <<"[">> \in Goes(Fresh, Known)
        /\ <<"opt">> \in Goes(Fresh, Known) /\ <<"]">> \in Goes(Fresh, Known)
    BY WordsGo
  <2>2. <<"[">> \in Goes(Known, Known) /\ <<"opt">> \in Goes(Known, Known)
        /\ <<"]">> \in Goes(Known, Known)
    BY <2>1, Narrower
  <2>5. <<"\\begin{float}", "[", "opt", "]">> \in Goes(Fresh, Known)
    BY <2>1, <2>2, FourGo
  <2>. QED
    BY <2>5, PaddedGoes
<1>5. text \in Seq(OnLines)
  <2>1. <<"\\caption">> \in Goes(Fresh, Known) /\ Group(n.caption, ctx) \in Goes(Fresh, Known)
    BY WordsGo, GroupGoes
  <2>2. p1 \o <<"\\caption">> \in Goes(Begun, Known)
    BY <1>2, <2>1, PaddedGoes DEF OnLines
  <2>3. p1 \o <<"\\caption">> \o Group(n.caption, ctx) \in Goes(Begun, Known)
    BY <2>1, <2>2, Places, GoesThen
  <2>4. p1 \o <<"\\caption">> \o Group(n.caption, ctx) \in OnLines
    BY <2>3 DEF OnLines
  <2>. QED
    BY <2>4, OneKid, NoLines
<1>6. label \in Seq(OnLines)
  <2>1. <<"\\label">> \in Goes(Fresh, Known)
    BY WordsGo
  <2>2. p1 \o <<"\\label">> \in OnLines
    BY <1>2, <2>1, PaddedGoes
  <2>. QED
    BY <2>2, OneKid, NoLines
<1>. HIDE DEF first, second, end, text, label
<1>7. caption \in Seq(OnLines)
  BY <1>5, <1>6, ConcatType
<1>8. inner \in Seq(OnLines)
  <2>1. <<body>> \in Seq(OnLines)
    BY OneKid
  <2>. HIDE DEF caption
  <2>2. caption \o <<body>> \in Seq(OnLines) /\ <<body>> \o caption \in Seq(OnLines)
    BY <1>7, <2>1, ConcatType
  <2>. QED
    BY <2>2
<1>. HIDE DEF inner
<1>9. <<first, second>> \in LinesFrom(FreshBefore)
  BY <1>3, <1>4, Places, LinesTwo
<1>10. <<first, second>> \o inner \in LinesFrom(FreshBefore)
  BY <1>8, <1>9, LinesMore
<1>11. <<first, second>> \o inner \o <<end>> \in LinesFrom(FreshBefore)
  <2>1. <<end>> \in Seq(OnLines)
    BY <1>3, OneKid
  <2>. QED
    BY <1>10, <2>1, LinesMore
<1>12. Join(<<first, second>> \o inner \o <<end>>, Line) \in Goes(FreshBefore, Known)
  BY <1>11, SpacesGo, JoinLines
<1>. QED
  BY <1>1, <1>12

----------------------------------------------------------------------------
(* Mathematics, documents, strings.                                        *)

LEMMA TableGoes ==
  ASSUME NEW tree, NEW of, NEW ctx \in Context(tree, of), NEW P, Yields(of, P, GoodPieces),
         Tabled(tree, P),
         NEW n, n.resize \in BOOLEAN, n.header \in Seq(P), n.rows \in Seq(P),
         n.caption \in Seq(P), n.label \in BOOLEAN, NEW above \in BOOLEAN
  PROVE  Float(n, ctx, Tabular(n, Deeper(ctx, 1)), above) \in Goes(FreshBefore, Known)
<1>1. PICK deeper \in Context(tree, of) : deeper = Deeper(ctx, 1)
  BY ContextIs
<1>2. Tabular(n, deeper) \in Goes(FreshBefore, Known)
  BY TabularGoes
<1>3. PICK body \in OnLines : body = Tabular(n, Deeper(ctx, 1))
  BY <1>1, <1>2, Narrower
<1>4. Float(n, ctx, body, above) \in Goes(FreshBefore, Known)
  BY FloatGoes
<1>. QED
  BY <1>3, <1>4

\* Raw text and the lines of mathematics.
LEMMA RawGoes ==
  ASSUME NEW x \in Raw
  PROVE  <<x>> \in Goes(Fresh, Known)
<1>1. x \in Token /\ x \notin {Newline, Space, Indent, "\\item"}
  BY TokensAssumption DEF Token, Marks, Spaces
<1>. QED
  BY <1>1, WordGoes

LEMMA MathEnvGoes ==
  ASSUME NEW tree, NEW of, NEW ctx \in Context(tree, of),
         NEW n, n.label \in BOOLEAN, n.eq \in BOOLEAN, n.s \in Seq(Raw)
  PROVE  MathEnv(n, ctx) \in Goes(FreshBefore, Known)
<1>. DEFINE p == Pad(ctx)
            row(x) == p \o <<Indent, x>>
            rows == [i \in DOMAIN n.s |-> row(n.s[i])]
            lines == IF ~n.label THEN rows
                     ELSE IF n.eq \/ rows = <<>> THEN <<row("\\label")>> \o rows
                     ELSE [rows EXCEPT ![1] = @ \o <<Space, "\\label">>]
            sep == IF n.eq THEN Line ELSE <<Space, "\\\\", Newline>>
            inner == Join(lines, sep)
<1>1. MathEnv(n, ctx) = p \o <<"\\begin{math}", Newline>> \o inner \o Line \o p \o <<"\\end{math}">>
  BY DEF MathEnv
<1>2. p \in Goes(FreshBefore, FreshBefore) /\ p \in Goes(Begun, Begun)
  BY ContextPad, Places
<1>3. ASSUME NEW x, <<x>> \in Goes(Fresh, Known) PROVE row(x) \in OnLines
  <2>1. <<Indent>> \in Goes(Begun, Begun)
    BY SpacesGo, Places
  <2>2. <<Indent>> \o <<x>> \in Goes(Begun, Known)
    BY <1>3, <2>1, Places, GoesThen
  <2>3. <<Indent, x>> \in Goes(Begun, Known)
    BY <2>2, TwoWords
  <2>4. p \o <<Indent, x>> \in Goes(Begun, Known)
    BY <1>2, <2>3, GoesConcat
  <2>. QED
    BY <2>4 DEF OnLines
<1>. HIDE DEF p, row
<1>4. rows \in Seq(OnLines)
  <2>1. DOMAIN rows = DOMAIN n.s /\ rows = [i \in DOMAIN rows |-> rows[i]]
    BY Zenon
  <2>2. \A i \in 1 .. Len(n.s) : rows[i] = row(n.s[i]) /\ n.s[i] \in Raw
    BY IsSeq
  <2>. HIDE DEF rows
  <2>3. \A i \in 1 .. Len(n.s) : rows[i] \in OnLines
    BY <1>3, <2>2, RawGoes
  <2>. QED
    BY <2>1, <2>3, MapIs
<1>. HIDE DEF rows
<1>5. lines \in Seq(OnLines)
  <2>1. <<row("\\label")>> \in Seq(OnLines)
    BY <1>3, WordsGo, OneKid
  <2>2. <<row("\\label")>> \o rows \in Seq(OnLines)
    BY <1>4, <2>1, ConcatType
  <2>3. ASSUME rows # <<>> PROVE [rows EXCEPT ![1] = @ \o <<Space, "\\label">>] \in Seq(OnLines)
    <3>1. <<Space>> \o <<"\\label">> \in Goes(Known, Known)
      <4>1. <<Space>> \in Goes(Known, Known) /\ <<"\\label">> \in Goes(Fresh, Known)
        BY SpacesGo, WordsGo
      <4>. QED
        BY <4>1, Places, GoesThen
    <3>2. <<Space, "\\label">> \in Goes(Known, Known)
      BY <3>1, TwoWords
    <3>3. rows[1] \in OnLines
      BY <1>4, <2>3
    <3>4. PICK y : y = rows[1] \o <<Space, "\\label">>
      OBVIOUS
    <3>5. y \in OnLines
      BY <3>2, <3>3, <3>4, GoesConcat DEF OnLines
    <3>6. [rows EXCEPT ![1] = @ \o <<Space, "\\label">>] = [rows EXCEPT ![1] = y]
      BY <3>4
    <3>. DEFINE T == OnLines
    <3>. HIDE DEF T
    <3>7. rows \in Seq(T) /\ y \in T
      BY <1>4, <3>5 DEF T
    <3>8. [rows EXCEPT ![1] = y] \in Seq(T)
      BY <2>3, <3>7
    <3>. QED
      BY <3>6, <3>8 DEF T
  <2>. QED
    BY <1>4, <2>2, <2>3
<1>. HIDE DEF lines
<1>6. sep \in Goes(Known, Begun)
  <2>1. <<Space>> \in Goes(Known, Known) /\ <<"\\\\">> \in Goes(Fresh, Known)
        /\ <<Newline>> \in Goes(Known, Begun) /\ Line \in Goes(Known, Begun)
    BY SpacesGo, WordsGo DEF Line
  <2>2. <<"\\\\">> \in Goes(Known, Known)
    BY <2>1, Places, GoesFrom
  <2>3. <<Space, "\\\\">> \in Goes(Known, Known)
    <3>1. <<Space>> \o <<"\\\\">> \in Goes(Known, Known)
      BY <2>1, <2>2, GoesConcat
    <3>. QED
      BY <3>1, TwoWords
  <2>4. <<Space, "\\\\">> \o <<Newline>> = <<Space, "\\\\", Newline>>
    <3>1. \E a, b : a = <<Space, "\\\\">> /\ b = <<Newline>>
      OBVIOUS
    <3>. QED
      BY <3>1, ThreeWords
  <2>5. <<Space, "\\\\">> \o <<Newline>> \in Goes(Known, Begun)
    BY <2>1, <2>3, GoesConcat
  <2>. QED
    BY <2>1, <2>4, <2>5
<1>. HIDE DEF sep
<1>7. inner \in Goes(Begun, Known)
  BY <1>5, <1>6, JoinAny DEF OnLines
<1>. HIDE DEF inner
<1>8. <<"\\begin{math}", Newline>> \in Goes(Fresh, Begun)
  <2>1. <<"\\begin{math}">> \in Goes(Fresh, Known) /\ Line \in Goes(Known, Begun)
    BY WordsGo, SpacesGo
  <2>2. <<"\\begin{math}">> \o Line \in Goes(Fresh, Begun)
    BY <2>1, GoesConcat
  <2>. QED
    BY <2>2, TwoWords DEF Line
<1>9. PICK w \in Goes(Fresh, Begun) : w = <<"\\begin{math}", Newline>>
  BY <1>8
<1>10. p \o w \in Goes(FreshBefore, Begun)
  BY <1>2, Places, GoesThen
<1>11. p \o w \o inner \in Goes(FreshBefore, Known)
  BY <1>7, <1>10, GoesConcat
<1>12. PICK v \in Goes(FreshBefore, Known) : v = p \o w \o inner
  BY <1>11
<1>13. v \o Line \in Goes(FreshBefore, Begun)
  BY SpacesGo, GoesConcat
<1>14. v \o Line \o p \in Goes(FreshBefore, Begun)
  BY <1>2, <1>13, GoesConcat
<1>15. v \o Line \o p \o <<"\\end{math}">> \in Goes(FreshBefore, Known)
  <2>1. <<"\\end{math}">> \in Goes(Fresh, Known)
    BY WordsGo
  <2>2. PICK u \in Goes(FreshBefore, Begun) : u = v \o Line \o p
    BY <1>14
  <2>3. u \o <<"\\end{math}">> \in Goes(FreshBefore, Known)
    BY <2>1, Places, GoesThen
  <2>. QED
    BY <2>2, <2>3
<1>. QED
  BY <1>1, <1>9, <1>12, <1>15

LEMMA TitleLineGoes ==
  ASSUME NEW tree, NEW of, NEW ctx \in Context(tree, of), NEW P, Yields(of, P, GoodPieces),
         NEW word, <<word>> \in Goes(Fresh, Known), NEW kids \in Seq(P)
  PROVE  TitleLine(word, kids, ctx) \in Goes(Known, Known)
<1>1. Group(kids, ctx) \in Goes(Fresh, Known)
  BY GroupGoes
<1>2. Line \o <<word>> \in Goes(Known, Known)
  BY SpacesGo, Places, GoesThen
<1>3. Line \o <<word>> \o Group(kids, ctx) \in Goes(Known, Known)
  BY <1>1, <1>2, Places, GoesThen
<1>4. <<>> \in Goes(Known, Known)
  BY Places, GoesEmpty
<1>. QED
  BY <1>3, <1>4 DEF TitleLine

LEMMA DocumentGoes ==
  ASSUME NEW tree, NEW of, NEW ctx \in Context(tree, of), NEW P, Yields(of, P, GoodPieces),
         NEW n, n.bib \in BOOLEAN, n.maketitle \in BOOLEAN, n.toc \in BOOLEAN,
         n.title \in Seq(P), n.author \in Seq(P), n.date \in Seq(P), n.kids \in Seq(P)
  PROVE  Document(n, ctx) \in Goes(Fresh, Known)
<1>. DEFINE body == Inline(n.kids, ctx)
            title == TitleLine("\\title", n.title, ctx)
            author == TitleLine("\\author", n.author, ctx)
            date == TitleLine("\\date", n.date, ctx)
            head == <<"\\documentclass">> \o title \o author \o date
            a == IF n.title # <<>> /\ n.maketitle THEN << <<"\\maketitle">> >> ELSE <<>>
            t == IF n.toc THEN << <<"\\tableofcontents">> >> ELSE <<>>
            b == IF body = <<>> THEN <<>> ELSE <<body>>
            c == IF n.bib THEN << <<"\\bib">> >> ELSE <<>>
            parts == a \o t \o b \o c
            begin == <<"\\begin{document}">>
            end == <<"\\end{document}">>
<1>1. Document(n, ctx) = Join(<<head, begin>> \o parts \o <<end>>, Blank)
  BY DEF Document
<1>2. body \in OnLines
  BY InlineGoes, Narrower
<1>. HIDE DEF body
<1>3. title \in Goes(Known, Known) /\ author \in Goes(Known, Known) /\ date \in Goes(Known, Known)
  BY WordsGo, TitleLineGoes
<1>. HIDE DEF title, author, date
<1>4. head \in Goes(Fresh, Known)
  <2>1. PICK v \in Goes(Fresh, Known) : v = <<"\\documentclass">> \o title
    BY <1>3, WordsGo, GoesConcat
  <2>2. PICK w \in Goes(Fresh, Known) : w = v \o author
    BY <1>3, GoesConcat
  <2>3. w \o date \in Goes(Fresh, Known)
    BY <1>3, GoesConcat
  <2>. QED
    BY <2>1, <2>2, <2>3
<1>5. ASSUME NEW s, s \in Goes(Fresh, Known) PROVE s \in OnLines /\ <<s>> \in Seq(OnLines)
  BY <1>5, Narrower, OneKid
<1>6. begin \in OnLines /\ <<end>> \in Seq(OnLines)
  BY <1>5, WordsGo
<1>7. /\ a \in Seq(OnLines) /\ t \in Seq(OnLines)
      /\ c \in Seq(OnLines) /\ b \in Seq(OnLines)
  BY <1>2, <1>5, WordsGo, NoLines, OneKid
<1>. HIDE DEF a, t, b, c, head, begin, end
<1>8. parts \in Seq(OnLines)
  BY <1>7, ConcatType
<1>. HIDE DEF parts
<1>9. <<head, begin>> \in LinesFrom(Fresh)
  BY <1>4, <1>6, Places, LinesTwo
<1>10. <<head, begin>> \o parts \in LinesFrom(Fresh)
  BY <1>8, <1>9, LinesMore
<1>11. <<head, begin>> \o parts \o <<end>> \in LinesFrom(Fresh)
  BY <1>6, <1>10, LinesMore
<1>12. Join(<<head, begin>> \o parts \o <<end>>, Blank) \in Goes(Fresh, Known)
  BY <1>11, SpacesGo, JoinLines
<1>. QED
  BY <1>1, <1>12

LEMMA EscapeGoes ==
  ASSUME NEW s \in Seq(Chars)
  PROVE  Escape(s) \in Inside /\ s \in Inside
<1>0. Len(s) \in Nat /\ DOMAIN s = 1 .. Len(s) /\ \A i \in 1 .. Len(s) : s[i] \in Chars
  BY IsSeq
<1>. DEFINE g == [i \in DOMAIN s |-> IF s[i] = "%" THEN "\\%" ELSE s[i]]
<1>1. DOMAIN g = DOMAIN s /\ g = [i \in DOMAIN g |-> g[i]]
      /\ \A i \in 1 .. Len(s) : g[i] = "\\%" \/ g[i] = s[i]
  BY <1>0, Zenon
<1>. HIDE DEF g
<1>2. "\\%" \in Token /\ Chars \subseteq Token
  BY DEF Token, Words
<1>3. \A x \in Chars : x \notin {Indent, "\\item"}
  BY TokensAssumption DEF Marks
<1>4. "\\%" \notin {Indent, "\\item"}
  BY DEF Indent
<1>5. \A i \in 1 .. Len(s) : g[i] \in Token /\ g[i] \notin {Indent, "\\item"}
  BY <1>0, <1>1, <1>2, <1>3, <1>4
<1>6. g \in Seq(Token) /\ Len(g) = Len(s)
  BY <1>1, <1>5, MapIs
<1>7. g \in Inside
  BY <1>5, <1>6, CharsInside
<1>8. s \in Seq(Token)
  BY <1>2, SeqWider
<1>9. s \in Inside
  BY <1>0, <1>3, <1>8, CharsInside
<1>. QED
  BY <1>7, <1>9 DEF Escape, g

----------------------------------------------------------------------------
(* Every node goes where it should if its children do.                     *)

\* A node whose children are places of P, or of Q where there may be items.
MadeOf(n, P, Q) ==
  /\ n.t \in Kinds
  /\ n.t \in {"text", "verbatim"} => n.s \in Seq(Chars)
  /\ n.t = "raw" => n.s \in Seq(Raw) /\ n.block \in BOOLEAN
  /\ n.t = "mathenv" => n.s \in Seq(Raw) /\ n.eq \in BOOLEAN /\ n.label \in BOOLEAN
  /\ n.t \in {"frag", "par", "plain", "item", "cmd", "sec", "document"} => n.kids \in Seq(P)
  /\ n.t \in {"items", "list", "env"} => n.kids \in Seq(Q)
  /\ n.t \in {"plain", "item"} => n.term \in Seq(P)
  /\ n.t \in {"cmd", "list", "env"} => n.opts \in BOOLEAN
  /\ n.t = "env" => n.args \in Seq(P)
  /\ n.t \in {"sec", "document"} => n.title \in Seq(P)
  /\ n.t = "sec" => n.short \in Seq(P)
  /\ n.t \in {"sec", "table", "figure"} => n.label \in BOOLEAN
  /\ n.t \in {"tabular", "table"} =>
       n.resize \in BOOLEAN /\ n.header \in Seq(P) /\ n.rows \in Seq(P)
  /\ n.t \in {"table", "figure"} => n.caption \in Seq(P)
  /\ n.t = "document" =>
       /\ n.author \in Seq(P) /\ n.date \in Seq(P)
       /\ n.bib \in BOOLEAN /\ n.maketitle \in BOOLEAN /\ n.toc \in BOOLEAN

\* The places P of a tree have no items; those of Q may.
Grown(tree, P, Q) ==
  \A k \in Q : MadeOf(tree[k], P, Q) /\ (k \in P <=> tree[k].t \notin Itemed)

LEMMA OnePiece ==
  ASSUME NEW p \in GoodPieces
  PROVE  <<p>> \in Seq(GoodPieces)
OBVIOUS

LEMMA BlockPiece ==
  ASSUME NEW t \in Kinds, NEW s \in Blocks
  PROVE  <<[t |-> t, s |-> s, block |-> TRUE]>> \in Seq(GoodPieces)
<1>1. s \in Seq(Token)
  BY DEF Blocks, Goes
<1>. QED
  BY <1>1, OnePiece DEF GoodPieces, Piece

LEMMA AnyPiece ==
  ASSUME NEW t \in Kinds, NEW s \in Blocks, NEW b \in BOOLEAN, ~b => s \in Inside
  PROVE  <<[t |-> t, s |-> s, block |-> b]>> \in Seq(GoodPieces)
<1>1. s \in Seq(Token)
  BY DEF Blocks, Goes
<1>. QED
  BY <1>1, OnePiece DEF GoodPieces, Piece

LEMMA OneGoes ==
  ASSUME NEW tree, NEW of, NEW ctx \in Context(tree, of), NEW P, NEW Q, P \subseteq Q,
         Grown(tree, P, Q),
         Yields(of, P, GoodPieces), Yields(of, Q, LinePieces), NEW n, MadeOf(n, P, Q),
         n.t = "list" => \A k \in ToSet(n.kids) : tree[k].t # "items"
  PROVE  /\ n.t \notin Itemed => One(n, ctx) \in Seq(GoodPieces)
         /\ n.t \in Itemed => One(n, ctx) \in Seq(LinePieces)
<1>0. \A k \in P : tree[k].t = "text" => tree[k].s \in Inside
  BY EscapeGoes DEF Grown, MadeOf
<1>1. \A k \in Q : /\ tree[k].t \notin Itemed => k \in P
                   /\ tree[k].t \in {"plain", "item"} =>
                        tree[k].term \in Seq(P) /\ tree[k].kids \in Seq(P)
  BY DEF Grown, MadeOf
<1>6. Tabled(tree, P)
  BY <1>1 DEF Cells, Tabled
<1>7. n.t \in Itemed <=> n.t = "item" \/ n.t = "items"
  BY DEF Itemed
<1>2. n.t \in Kinds
  BY DEF MadeOf
<1>3. ASSUME NEW s, s \in Goes(FreshBefore, Known)
      PROVE  <<[t |-> n.t, s |-> s, block |-> TRUE]>> \in Seq(GoodPieces)
  BY <1>2, <1>3, Narrower, BlockPiece
<1>4. ASSUME NEW s, s \in Goes(Fresh, Known)
      PROVE  <<[t |-> n.t, s |-> s, block |-> TRUE]>> \in Seq(GoodPieces)
  BY <1>2, <1>4, Narrower, BlockPiece
<1>5. ASSUME NEW s, s \in Inside, NEW b \in BOOLEAN
      PROVE  <<[t |-> n.t, s |-> s, block |-> b]>> \in Seq(GoodPieces)
  BY <1>2, <1>5, Narrower, AnyPiece
<1>10. CASE n.t = "plain"
  <2>1. One(n, ctx) = Pieces(n.kids, ctx)
    BY <1>10 DEF One
  <2>2. n.kids \in Seq(P)
    BY <1>10 DEF MadeOf
  <2>. QED
    BY <1>7, <1>10, <2>1, <2>2, PiecesType
<1>9. CASE n.t = "items"
  <2>1. One(n, ctx) = Pieces(n.kids, ctx)
    BY <1>9 DEF One
  <2>2. n.kids \in Seq(Q)
    BY <1>9 DEF MadeOf
  <2>. QED
    BY <1>9, <2>1, <2>2, PiecesType DEF Itemed
<1>11. CASE n.t = "text"
  <2>1. One(n, ctx) = <<[t |-> n.t, s |-> Escape(n.s), block |-> FALSE]>>
    BY <1>11 DEF One
  <2>2. n.s \in Seq(Chars)
    BY <1>11 DEF MadeOf
  <2>. QED
    BY <1>5, <1>11, <1>7, <2>1, <2>2, EscapeGoes
<1>12. CASE n.t = "raw"
  <2>1. One(n, ctx) = <<[t |-> n.t, s |-> n.s, block |-> n.block]>>
    BY <1>12 DEF One
  <2>2. n.s \in Seq(Raw) /\ n.block \in BOOLEAN
    BY <1>12 DEF MadeOf
  <2>3. n.s \in Inside
    <3>1. Raw \subseteq Token /\ \A x \in Raw : x \notin {Indent, "\\item"}
      BY TokensAssumption DEF Token, Marks
    <3>2. n.s \in Seq(Token) /\ \A i \in 1 .. Len(n.s) : n.s[i] \in Raw
      BY <2>2, <3>1, SeqWider, IsSeq
    <3>. QED
      BY <3>1, <3>2, CharsInside
  <2>. QED
    BY <1>5, <1>12, <1>7, <2>1, <2>2, <2>3
<1>13. CASE n.t = "rule"
  <2>1. One(n, ctx) = <<[t |-> n.t, s |-> <<"\\rule">>, block |-> TRUE]>>
    BY <1>13 DEF One
  <2>. QED
    BY <1>4, <1>13, <1>7, <2>1, WordsGo
<1>14. CASE n.t = "frag"
  <2>. DEFINE f == Children(n.kids, ctx, Blank)
  <2>1. One(n, ctx) = <<[t |-> n.t, s |-> f.s, block |-> f.block]>>
    BY <1>14 DEF One
  <2>2. n.kids \in Seq(P)
    BY <1>14 DEF MadeOf
  <2>3. f.s \in Blocks /\ (~f.block => f.s \in Inside)
    BY <2>2, ChildrenGo
  <2>4. f.block \in BOOLEAN
    BY DEF Children, Glue
  <2>. HIDE DEF f
  <2>. QED
    BY <1>7, <1>2, <1>14, <2>1, <2>3, <2>4, AnyPiece
<1>15. CASE n.t = "par"
  <2>1. One(n, ctx) = <<[t |-> n.t, s |-> Inline(n.kids, ctx), block |-> TRUE]>>
    BY <1>15 DEF One
  <2>2. n.kids \in Seq(P)
    BY <1>15 DEF MadeOf
  <2>3. Inline(n.kids, ctx) \in Blocks
    BY <2>2, InlineGoes
  <2>4. <<[t |-> n.t, s |-> Inline(n.kids, ctx), block |-> TRUE]>> \in Seq(GoodPieces)
    BY <1>2, <2>3, BlockPiece
  <2>. QED
    BY <1>7, <1>15, <2>1, <2>4
<1>16. CASE n.t = "cmd"
  <2>1. One(n, ctx) = <<[t |-> n.t, s |-> Cmd(n, ctx), block |-> FALSE]>>
    BY <1>16 DEF One
  <2>2. n.kids \in Seq(P) /\ n.opts \in BOOLEAN
    BY <1>16 DEF MadeOf
  <2>3. Cmd(n, ctx) \in Inside
    BY <2>2, CmdGoes
  <2>4. <<[t |-> n.t, s |-> Cmd(n, ctx), block |-> FALSE]>> \in Seq(GoodPieces)
    BY <1>5, <2>3
  <2>. QED
    BY <1>7, <1>16, <2>1, <2>4
<1>17. CASE n.t = "env"
  <2>1. One(n, ctx) = <<[t |-> n.t, s |-> Env(n, ctx), block |-> TRUE]>>
    BY <1>17 DEF One
  <2>2. n.kids \in Seq(Q) /\ n.args \in Seq(P) /\ n.opts \in BOOLEAN
    BY <1>17 DEF MadeOf
  <2>3. Env(n, ctx) \in Goes(FreshBefore, Known)
    BY <1>0, <2>2, EnvGoes
  <2>. QED
    BY <1>3, <1>17, <1>7, <2>1, <2>3
<1>18. CASE n.t = "item"
  <2>1. One(n, ctx) = <<[t |-> n.t, s |-> Item(n, ctx), block |-> TRUE]>>
    BY <1>18 DEF One
  <2>2. n.kids \in Seq(P) /\ n.term \in Seq(P)
    BY <1>18 DEF MadeOf
  <2>3. Item(n, ctx) \in OnLines
    BY <2>2, ItemGoes
  <2>4. [t |-> n.t, s |-> Item(n, ctx), block |-> TRUE] \in LinePieces
    <3>1. Item(n, ctx) \in Seq(Token)
      BY <2>3 DEF OnLines, Goes
    <3>. QED
      BY <1>2, <2>3, <3>1 DEF LinePieces, Piece
  <2>. QED
    BY <1>18, <2>1, <2>4, OneKid DEF Itemed
<1>19. CASE n.t = "sec"
  <2>1. One(n, ctx) = <<[t |-> n.t, s |-> Section(n, ctx), block |-> TRUE]>>
    BY <1>19 DEF One
  <2>2. n.kids \in Seq(P) /\ n.short \in Seq(P) /\ n.title \in Seq(P) /\ n.label \in BOOLEAN
    BY <1>19 DEF MadeOf
  <2>3. Section(n, ctx) \in Goes(Fresh, Known)
    BY <2>2, SectionGoes
  <2>. QED
    BY <1>4, <1>19, <1>7, <2>1, <2>3
<1>20. CASE n.t = "list"
  <2>1. One(n, ctx) = <<[t |-> n.t, s |-> List(n, ctx), block |-> TRUE]>>
    BY <1>20 DEF One
  <2>2. n.kids \in Seq(Q) /\ n.opts \in BOOLEAN
    BY <1>20 DEF MadeOf
  <2>. DEFINE L == {k \in Q : tree[k].t # "items"}
  <2>4. \A k \in L : /\ tree[k].t # "item" => k \in P
                     /\ tree[k].t \in {"plain", "item"} =>
                          tree[k].term \in Seq(P) /\ tree[k].kids \in Seq(P)
    BY <1>1 DEF Itemed
  <2>5. n.kids \in Seq(L)
    <3>1. ToSet(n.kids) \subseteq L
      BY <1>20, <2>2, IsSeq DEF ToSet
    <3>. HIDE DEF L
    <3>. QED
      BY <2>2, <3>1, SeqWithin
  <2>. HIDE DEF L
  <2>3. List(n, ctx) \in Goes(FreshBefore, Known)
    BY <2>2, <2>4, <2>5, ListGoes
  <2>. QED
    BY <1>3, <1>20, <1>7, <2>1, <2>3
<1>21. CASE n.t = "mathenv"
  <2>1. One(n, ctx) = <<[t |-> n.t, s |-> MathEnv(n, ctx), block |-> TRUE]>>
    BY <1>21 DEF One
  <2>2. n.s \in Seq(Raw) /\ n.eq \in BOOLEAN /\ n.label \in BOOLEAN
    BY <1>21 DEF MadeOf
  <2>3. MathEnv(n, ctx) \in Goes(FreshBefore, Known)
    BY <2>2, MathEnvGoes
  <2>. QED
    BY <1>3, <1>21, <1>7, <2>1, <2>3
<1>22. CASE n.t = "verbatim"
  <2>1. One(n, ctx) = <<[t |-> n.t, s |-> Verbatim(n), block |-> TRUE]>>
    BY <1>22 DEF One
  <2>2. n.s \in Seq(Chars)
    BY <1>22 DEF MadeOf
  <2>3. Verbatim(n) \in Goes(Fresh, Known)
    BY <2>2, EscapeGoes, VerbatimGoes
  <2>. QED
    BY <1>4, <1>22, <1>7, <2>1, <2>3
<1>23. CASE n.t = "tabular"
  <2>1. One(n, ctx) = <<[t |-> n.t, s |-> Tabular(n, ctx), block |-> TRUE]>>
    BY <1>23 DEF One
  <2>2. n.resize \in BOOLEAN /\ n.header \in Seq(P) /\ n.rows \in Seq(P)
    BY <1>23 DEF MadeOf
  <2>3. Tabular(n, ctx) \in Goes(FreshBefore, Known)
    BY <1>6, <2>2, TabularGoes
  <2>. QED
    BY <1>3, <1>23, <1>7, <2>1, <2>3
<1>24. CASE n.t = "table"
  <2>1. One(n, ctx) = <<[t |-> n.t, block |-> TRUE,
                         s |-> Float(n, ctx, Tabular(n, Deeper(ctx, 1)), TRUE)]>>
    BY <1>24 DEF One
  <2>2. /\ n.resize \in BOOLEAN /\ n.header \in Seq(P) /\ n.rows \in Seq(P)
        /\ n.caption \in Seq(P) /\ n.label \in BOOLEAN
    BY <1>24 DEF MadeOf
  <2>3. Float(n, ctx, Tabular(n, Deeper(ctx, 1)), TRUE) \in Goes(FreshBefore, Known)
    <3>1. ASSUME NEW above \in BOOLEAN
          PROVE  Float(n, ctx, Tabular(n, Deeper(ctx, 1)), above) \in Goes(FreshBefore, Known)
      BY <1>6, <2>2, TableGoes
    <3>. QED
      BY <3>1
  <2>. QED
    BY <1>3, <1>24, <1>7, <2>1, <2>3
<1>25. CASE n.t = "figure"
  <2>1. One(n, ctx) = <<[t |-> n.t, block |-> TRUE,
                         s |-> Float(n, ctx, Pad(Deeper(ctx, 1)) \o <<"\\includegraphics">>, FALSE)]>>
    BY <1>25 DEF One
  <2>2. n.caption \in Seq(P) /\ n.label \in BOOLEAN
    BY <1>25 DEF MadeOf
  <2>3. Deeper(ctx, 1) \in Context(tree, of)
    BY ContextIs
  <2>4. PICK body \in OnLines : body = Pad(Deeper(ctx, 1)) \o <<"\\includegraphics">>
    BY <2>3, WordsGo, PaddedGoes
  <2>5. Float(n, ctx, body, FALSE) \in Goes(FreshBefore, Known)
    BY <2>2, FloatGoes
  <2>. QED
    BY <1>3, <1>25, <1>7, <2>1, <2>4, <2>5
<1>26. CASE n.t = "document"
  <2>1. One(n, ctx) = <<[t |-> n.t, s |-> Document(n, ctx), block |-> TRUE]>>
    BY <1>26 DEF One
  <2>2. /\ n.kids \in Seq(P) /\ n.title \in Seq(P) /\ n.author \in Seq(P) /\ n.date \in Seq(P)
        /\ n.bib \in BOOLEAN /\ n.maketitle \in BOOLEAN /\ n.toc \in BOOLEAN
    BY <1>26 DEF MadeOf
  <2>3. Document(n, ctx) \in Goes(Fresh, Known)
    BY <2>2, DocumentGoes
  <2>. QED
    BY <1>4, <1>26, <1>7, <2>1, <2>3
<1>27. CASE n.t \in {"nil", "function"}
  <2>1. One(n, ctx) = <<>>
    BY <1>27 DEF One
  <2>. QED
    BY <1>7, <1>27, <2>1
<1>. QED
  BY <1>2, <1>9, <1>10, <1>11, <1>12, <1>13, <1>14, <1>15, <1>16, <1>17, <1>18, <1>19, <1>20,
     <1>21, <1>22, <1>23, <1>24, <1>25, <1>26, <1>27 DEF Kinds, Itemed

----------------------------------------------------------------------------
(* The nodes of a tree, and what they render to.                           *)

LEMMA NodeFields ==
  ASSUME NEW n \in Node
  PROVE  /\ n.t \in Kinds
         /\ n.t \in {"text", "verbatim"} => n.s \in Seq(Chars)
         /\ n.t = "raw" => n.s \in Seq(Raw) /\ n.block \in BOOLEAN
         /\ n.t = "mathenv" => n.s \in Seq(Raw) /\ n.eq \in BOOLEAN /\ n.label \in BOOLEAN
         /\ n.t \in {"frag", "par", "plain", "items", "item", "cmd", "list", "env", "sec",
                     "document"} => n.kids \in Seq(Place)
         /\ n.t \in {"plain", "item"} => n.term \in Seq(Place)
         /\ n.t \in {"cmd", "list", "env"} => n.opts \in BOOLEAN
         /\ n.t = "env" => n.args \in Seq(Place)
         /\ n.t \in {"sec", "document"} => n.title \in Seq(Place)
         /\ n.t = "sec" => n.short \in Seq(Place)
         /\ n.t \in {"sec", "table", "figure"} => n.label \in BOOLEAN
         /\ n.t \in {"tabular", "table"} =>
              n.resize \in BOOLEAN /\ n.header \in Seq(Place) /\ n.rows \in Seq(Place)
         /\ n.t \in {"table", "figure"} => n.caption \in Seq(Place)
         /\ n.t = "document" =>
              /\ n.author \in Seq(Place) /\ n.date \in Seq(Place)
              /\ n.bib \in BOOLEAN /\ n.maketitle \in BOOLEAN /\ n.toc \in BOOLEAN
BY DEF Node, Kinds

LEMMA NodeHolds ==
  ASSUME NEW n \in Node
  PROVE  /\ n.t \in {"frag", "par", "plain", "items", "item", "cmd", "list", "env", "sec",
                     "document"} => ToSet(n.kids) \subseteq Holds(n)
         /\ n.t \in {"plain", "item"} => ToSet(n.term) \subseteq Holds(n)
         /\ n.t = "env" => ToSet(n.args) \subseteq Holds(n)
         /\ n.t \in {"sec", "document"} => ToSet(n.title) \subseteq Holds(n)
         /\ n.t = "sec" => ToSet(n.short) \subseteq Holds(n)
         /\ n.t = "document" => ToSet(n.author) \subseteq Holds(n) /\ ToSet(n.date) \subseteq Holds(n)
         /\ n.t \in {"tabular", "table"} =>
              ToSet(n.header) \subseteq Holds(n) /\ ToSet(n.rows) \subseteq Holds(n)
         /\ n.t \in {"table", "figure"} => ToSet(n.caption) \subseteq Holds(n)
BY DEF Node, Holds

LEMMA MadeOfMore ==
  ASSUME NEW n, NEW P, NEW Q, NEW V, NEW W, P \subseteq V, Q \subseteq W, MadeOf(n, P, Q)
  PROVE  MadeOf(n, V, W)
<1>1. Seq(P) \subseteq Seq(V) /\ Seq(Q) \subseteq Seq(W)
  BY SeqWider
<1>. QED
  BY <1>1 DEF MadeOf

\* Places of a tree, with what the nodes there hold.
Closed(tree, S) == S \subseteq DOMAIN tree /\ \A i \in S : Holds(tree[i]) \subseteq S

\* Those before i, and those of them that are no items.
Earlier(S, i) == {k \in S : k < i}

Proper(tree, S, i) == {k \in S : k < i /\ tree[k].t \notin Itemed}

LEMMA NodeMadeOf ==
  ASSUME NEW tree \in Trees, NEW S, Closed(tree, S), NEW i \in S
  PROVE  MadeOf(tree[i], Proper(tree, S, i), Earlier(S, i))
<1>. DEFINE n == tree[i]
            P == Proper(tree, S, i)
            Q == Earlier(S, i)
<1>1. /\ tree \in Seq(Node) /\ i \in DOMAIN tree
      /\ \A k \in Holds(n) : k < i /\ MayHold(n, k, tree[k].t)
  BY DEF Trees, Closed
<1>2. n \in Node
  BY <1>1, IsSeq
<1>3. \A k \in Holds(n) : k \in Q
  BY <1>1 DEF Closed, Earlier
<1>4. \A k \in Holds(n) : \/ k \in P
                          \/ n.t \in {"items", "list"}
                          \/ n.t = "env" /\ k \notin ToSet(n.args)
  <2>1. \A k \in Holds(n) : k \in S
    BY DEF Closed
  <2>. HIDE DEF n
  <2>. QED
    BY <1>1, <2>1 DEF MayHold, Proper
<1>. HIDE DEF n, P, Q
<1>5. n.t \in {"items", "list", "env"} => n.kids \in Seq(Q)
  <2>1. n.t \in {"items", "list", "env"} => n.kids \in Seq(Place) /\ ToSet(n.kids) \subseteq Q
    BY <1>2, <1>3, NodeFields, NodeHolds
  <2>. QED
    BY <2>1, SeqWithin
<1>6. ASSUME NEW s \in Seq(Place), ToSet(s) \subseteq Holds(n),
             n.t \notin {"items", "list", "env"} \/ (n.t = "env" /\ s = n.args)
      PROVE  s \in Seq(P)
  <2>1. ToSet(s) \subseteq P
    BY <1>4, <1>6
  <2>. QED
    BY <2>1, SeqWithin
<1>7. n.t \in {"frag", "par", "plain", "item", "cmd", "sec", "document"} => n.kids \in Seq(P)
  BY <1>2, <1>6, NodeFields, NodeHolds
<1>8. /\ n.t \in {"plain", "item"} => n.term \in Seq(P)
      /\ n.t = "env" => n.args \in Seq(P)
      /\ n.t \in {"sec", "document"} => n.title \in Seq(P)
      /\ n.t = "sec" => n.short \in Seq(P)
      /\ n.t = "document" => n.author \in Seq(P) /\ n.date \in Seq(P)
  BY <1>2, <1>6, NodeFields, NodeHolds
<1>9. /\ n.t \in {"tabular", "table"} => n.header \in Seq(P) /\ n.rows \in Seq(P)
      /\ n.t \in {"table", "figure"} => n.caption \in Seq(P)
  BY <1>2, <1>6, NodeFields, NodeHolds
<1>10. MadeOf(n, P, Q)
  BY <1>2, <1>5, <1>7, <1>8, <1>9, NodeFields DEF MadeOf
<1>. QED
  BY <1>10 DEF n, P, Q

LEMMA TreeGrown ==
  ASSUME NEW tree \in Trees, NEW S, Closed(tree, S), NEW i \in Nat
  PROVE  Grown(tree, Proper(tree, S, i), Earlier(S, i))
<1>0. \A k \in S : k \in Nat
  BY DEF Closed, Trees
<1>1. ASSUME NEW k \in Earlier(S, i)
      PROVE  MadeOf(tree[k], Proper(tree, S, i), Earlier(S, i))
  <2>1. k \in S /\ k < i
    BY DEF Earlier
  <2>2. Proper(tree, S, k) \subseteq Proper(tree, S, i) /\ Earlier(S, k) \subseteq Earlier(S, i)
    BY <1>0, <2>1 DEF Proper, Earlier
  <2>. QED
    BY <2>1, <2>2, NodeMadeOf, MadeOfMore
<1>2. \A k \in Earlier(S, i) : k \in Proper(tree, S, i) <=> tree[k].t \notin Itemed
  BY DEF Proper, Earlier
<1>. QED
  BY <1>1, <1>2 DEF Grown

\* A list holds no table of items.
LEMMA ListHolds ==
  ASSUME NEW tree \in Trees, NEW i \in DOMAIN tree, tree[i] \in Node, tree[i].t = "list"
  PROVE  \A k \in ToSet(tree[i].kids) : tree[k].t # "items"
<1>1. ToSet(tree[i].kids) \subseteq Holds(tree[i])
  BY NodeHolds
<1>. QED
  BY <1>1 DEF Trees, MayHold, Itemed

\* What the node at i renders to, if g is what those before it do.
NodeRenders(tree, i, g) ==
  [indent \in BOOLEAN |->
     [depth \in Nat |->
        One(tree[i], [tree |-> tree, of |-> [j \in 1 .. i - 1 |-> g[j]],
                      indent |-> indent, depth |-> depth])]]

LEMMA RendersSame ==
  ASSUME NEW tree, NEW i, NEW g, NEW h, \A j \in 1 .. i - 1 : g[j] = h[j]
  PROVE  NodeRenders(tree, i, g) = NodeRenders(tree, i, h)
<1>1. [j \in 1 .. i - 1 |-> g[j]] = [j \in 1 .. i - 1 |-> h[j]]
  OBVIOUS
<1>. QED
  BY <1>1 DEF NodeRenders

RendersTo(tree, g, n) == \A i \in 1 .. n : g[i] = NodeRenders(tree, i, g)

LEMMA RendersExist ==
  ASSUME NEW tree, NEW n \in Nat
  PROVE  \E g : RendersTo(tree, g, n)
<1>. DEFINE S == {i \in Nat : \E g : RendersTo(tree, g, i)}
<1>1. 0 \in S
  <2>1. \A i \in 1 .. 0 : FALSE
    OBVIOUS
  <2>2. RendersTo(tree, <<>>, 0)
    BY <2>1 DEF RendersTo
  <2>. QED
    BY <2>2
<1>2. ASSUME NEW i \in S PROVE i + 1 \in S
  <2>1. PICK g : RendersTo(tree, g, i)
    OBVIOUS
  <2>2. PICK m \in Nat : m = i + 1
    OBVIOUS
  <2>. DEFINE h == [j \in 1 .. m |-> IF j <= i THEN g[j] ELSE NodeRenders(tree, m, g)]
  <2>3. (\A j \in 1 .. i : h[j] = g[j]) /\ h[m] = NodeRenders(tree, m, g)
    BY <2>2
  <2>. HIDE DEF h
  <2>4. ASSUME NEW j \in 1 .. m PROVE h[j] = NodeRenders(tree, j, h)
    <3>1. \A k \in 1 .. j - 1 : k \in 1 .. i /\ g[k] = h[k]
      BY <2>2, <2>3
    <3>2. NodeRenders(tree, j, g) = NodeRenders(tree, j, h)
      BY <3>1, RendersSame
    <3>3. CASE j = m
      BY <2>3, <3>2, <3>3
    <3>4. CASE j # m
      <4>1. j \in 1 .. i
        BY <2>2, <3>4
      <4>. QED
        BY <2>1, <2>3, <3>2, <4>1 DEF RendersTo
    <3>. QED
      BY <3>3, <3>4
  <2>5. RendersTo(tree, h, m)
    BY <2>4 DEF RendersTo
  <2>. QED
    BY <2>2, <2>5
<1>3. S = Nat
  <2>. HIDE DEF S
  <2>1. S \subseteq Nat
    BY DEF S
  <2>. QED
    BY <1>1, <1>2, <2>1, SetInduction
<1>. QED
  BY <1>3

LEMMA RenderingIs ==
  ASSUME NEW tree, Len(tree) \in Nat, DOMAIN tree = 1 .. Len(tree)
  PROVE  RendersTo(tree, Rendering(tree), Len(tree))
<1>. DEFINE Is(f) == f = [i \in DOMAIN tree |-> NodeRenders(tree, i, f)]
<1>1. \E f : Is(f)
  <2>1. PICK g : RendersTo(tree, g, Len(tree))
    BY RendersExist
  <2>. DEFINE f == [i \in DOMAIN tree |-> g[i]]
  <2>2. \A i \in 1 .. Len(tree) : f[i] = g[i]
    OBVIOUS
  <2>3. f = [i \in DOMAIN f |-> f[i]] /\ DOMAIN f = DOMAIN tree
    OBVIOUS
  <2>. HIDE DEF f
  <2>4. ASSUME NEW i \in DOMAIN tree PROVE f[i] = NodeRenders(tree, i, f)
    <3>1. \A j \in 1 .. i - 1 : g[j] = f[j]
      BY <2>2
    <3>2. NodeRenders(tree, i, g) = NodeRenders(tree, i, f)
      BY <3>1, RendersSame
    <3>. QED
      BY <2>1, <2>2, <3>2 DEF RendersTo
  <2>. DEFINE h == [i \in DOMAIN tree |-> NodeRenders(tree, i, f)]
  <2>5. h = [i \in DOMAIN h |-> h[i]] /\ DOMAIN h = DOMAIN tree
        /\ \A i \in DOMAIN tree : h[i] = NodeRenders(tree, i, f)
    BY Zenon
  <2>6. h = f
    <3>. HIDE DEF h
    <3>. QED
      BY <2>3, <2>4, <2>5
  <2>. QED
    BY <2>6, Zenon
<1>2. PICK f : f = (CHOOSE g : Is(g)) /\ Is(f)
  BY <1>1
<1>3. Rendering(tree) = f
  BY <1>2 DEF Rendering, NodeRenders
<1>4. \A i \in DOMAIN tree : f[i] = NodeRenders(tree, i, f)
  <2>. DEFINE g == [i \in DOMAIN tree |-> NodeRenders(tree, i, f)]
  <2>1. f = g
    BY <1>2
  <2>2. \A i \in DOMAIN tree : g[i] = NodeRenders(tree, i, f)
    BY Zenon
  <2>. QED
    BY <2>1, <2>2, Zenon
<1>. QED
  BY <1>3, <1>4 DEF RendersTo

----------------------------------------------------------------------------
(* Every tree is laid out as it should be.                                 *)

LEMMA HeldFields ==
  ASSUME NEW n \in Node,
         NEW f \in {"term", "kids", "args", "title", "short", "author", "date", "caption",
                    "header", "rows"} \cap DOMAIN n
  PROVE  n[f] \in Seq(Place)
<1>1. CASE f \in {"term", "kids", "args"}
  BY <1>1 DEF Node
<1>2. CASE f = "title"
  <2>1. n.t \in {"sec", "document"}
    BY <1>2 DEF Node
  <2>2. n.title \in Seq(Place)
    BY <2>1, NodeFields
  <2>. QED
    BY <1>2, <2>2
<1>3. CASE f \in {"author", "date"}
  BY <1>3 DEF Node
<1>4. CASE f = "short"
  <2>1. n.t = "sec"
    BY <1>4 DEF Node
  <2>2. n.short \in Seq(Place)
    BY <2>1, NodeFields
  <2>. QED
    BY <1>4, <2>2
<1>5. CASE f = "caption"
  BY <1>5 DEF Node
<1>6. f \in {"header", "rows"} => n.t \in {"tabular", "table"}
  BY DEF Node
<1>7. CASE f = "header"
  <2>1. n.header \in Seq(Place)
    BY <1>6, <1>7, NodeFields
  <2>. QED
    BY <1>7, <2>1
<1>8. CASE f = "rows"
  <2>1. n.rows \in Seq(Place)
    BY <1>6, <1>8, NodeFields
  <2>. QED
    BY <1>8, <2>1
<1>. QED
  BY <1>1, <1>2, <1>3, <1>5, <1>7, <1>8, <1>4

LEMMA TreeIs ==
  ASSUME NEW tree \in Trees
  PROVE  /\ Len(tree) \in Nat \ {0} /\ DOMAIN tree = 1 .. Len(tree)
         /\ \A i \in 1 .. Len(tree) : tree[i] \in Node
         /\ Closed(tree, DOMAIN tree)
<1>1. tree \in Seq(Node) /\ tree # <<>>
  BY DEF Trees
<1>2. /\ Len(tree) \in Nat \ {0} /\ DOMAIN tree = 1 .. Len(tree)
      /\ \A i \in 1 .. Len(tree) : tree[i] \in Node
  <2>1. /\ Len(tree) \in Nat /\ DOMAIN tree = 1 .. Len(tree)
        /\ \A i \in 1 .. Len(tree) : tree[i] \in Node
    BY <1>1, IsSeq
  <2>2. Len(tree) # 0
    BY <1>1
  <2>. QED
    BY <2>1, <2>2
<1>3. ASSUME NEW i \in DOMAIN tree, NEW k \in Holds(tree[i]) PROVE k \in DOMAIN tree
  <2>1. k < i
    BY DEF Trees
  <2>2. k \in Place
    <3>1. tree[i] \in Node
      BY <1>2
    <3>2. tree[i].t \in Kinds
      BY <3>1, NodeFields
    <3>. DEFINE n == tree[i]
    <3>3. \E s \in Seq(Place) : k \in ToSet(s)
      <4>1. n \in Node
        BY <3>1
      <4>2. PICK f \in {"term", "kids", "args", "title", "short", "author", "date", "caption",
                      "header", "rows"} \cap DOMAIN n : k \in ToSet(n[f])
        BY DEF Holds
      <4>. HIDE DEF n
      <4>3. n[f] \in Seq(Place)
        BY <4>1, <4>2, HeldFields
      <4>. QED
        BY <4>2, <4>3
    <3>. QED
      BY <3>3 DEF ToSet
  <2>3. i \in 1 .. Len(tree) /\ k \in Nat /\ k >= 1
    BY <1>2, <2>2 DEF Place
  <2>. QED
    BY <1>2, <2>1, <2>3
<1>. QED
  BY <1>2, <1>3 DEF Closed

\* What is made of the nodes up to i.
NodeRendered(tree, i) ==
  \A d \in BOOLEAN, e \in Nat :
    /\ tree[i].t \notin Itemed => Rendering(tree)[i][d][e] \in Seq(GoodPieces)
    /\ Rendering(tree)[i][d][e] \in Seq(LinePieces)

LEMMA RenderingGoes ==
  ASSUME NEW tree \in Trees
  PROVE  \A i \in 1 .. Len(tree) : NodeRendered(tree, i)
<1>. DEFINE R == Rendering(tree)
            D == DOMAIN tree
<1>1. /\ Len(tree) \in Nat /\ DOMAIN tree = 1 .. Len(tree)
      /\ \A i \in 1 .. Len(tree) : tree[i] \in Node
      /\ Closed(tree, D)
  BY TreeIs
<1>2. \A i \in 1 .. Len(tree) : R[i] = NodeRenders(tree, i, R)
  BY <1>1, RenderingIs DEF RendersTo
<1>3. Seq(GoodPieces) \subseteq Seq(LinePieces)
  BY PiecesAre, SeqWider
<1>. DEFINE S == {i \in 0 .. Len(tree) : \A k \in 1 .. i : NodeRendered(tree, k)}
<1>4. 0 \in S
  BY <1>1
<1>5. ASSUME NEW i \in 1 .. Len(tree), i - 1 \in S PROVE i \in S
  <2>1. \A k \in 1 .. i - 1 : NodeRendered(tree, k)
    BY <1>5
  <2>. DEFINE of == [j \in 1 .. i - 1 |-> R[j]]
              P == Proper(tree, D, i)
              Q == Earlier(D, i)
  <2>2. \A k \in Q : k \in 1 .. i - 1 /\ of[k] = R[k]
    BY <1>1 DEF Earlier
  <2>3. P \subseteq Q /\ \A k \in P : tree[k].t \notin Itemed
    BY DEF Proper, Earlier
  <2>4. /\ MadeOf(tree[i], P, Q) /\ Grown(tree, P, Q)
        /\ tree[i].t = "list" => \A k \in ToSet(tree[i].kids) : tree[k].t # "items"
    <3>1. i \in D /\ i \in Nat
      BY <1>1
    <3>. QED
      BY <1>1, <3>1, NodeMadeOf, TreeGrown, ListHolds
  <2>5. ASSUME NEW d \in BOOLEAN, NEW e \in Nat
        PROVE  R[i][d][e] = One(tree[i], [tree |-> tree, of |-> of, indent |-> d, depth |-> e])
    <3>1. R[i] = NodeRenders(tree, i, R)
      BY <1>2
    <3>2. NodeRenders(tree, i, R)[d][e]
            = One(tree[i], [tree |-> tree, of |-> of, indent |-> d, depth |-> e])
      BY DEF NodeRenders
    <3>. QED
      BY <3>1, <3>2
  <2>. HIDE DEF of, P, Q, R
  <2>6. Yields(of, P, GoodPieces) /\ Yields(of, Q, LinePieces)
    BY <2>1, <2>2, <2>3 DEF Yields, NodeRendered, R
  <2>7. NodeRendered(tree, i)
    <3>. SUFFICES ASSUME NEW d \in BOOLEAN, NEW e \in Nat
                  PROVE  /\ tree[i].t \notin Itemed => R[i][d][e] \in Seq(GoodPieces)
                         /\ R[i][d][e] \in Seq(LinePieces)
      BY DEF NodeRendered, R
    <3>1. [tree |-> tree, of |-> of, indent |-> d, depth |-> e] \in Context(tree, of)
      BY DEF Context
    <3>2. PICK ctx \in Context(tree, of) :
            ctx = [tree |-> tree, of |-> of, indent |-> d, depth |-> e]
      BY <3>1
    <3>3. /\ tree[i].t \notin Itemed => One(tree[i], ctx) \in Seq(GoodPieces)
          /\ tree[i].t \in Itemed => One(tree[i], ctx) \in Seq(LinePieces)
      BY <2>3, <2>4, <2>6, OneGoes
    <3>. QED
      BY <1>3, <2>5, <3>2, <3>3
  <2>8. \A k \in 1 .. i : k = i \/ k \in 1 .. i - 1
    BY <1>1
  <2>. QED
    BY <1>1, <2>1, <2>7, <2>8
<1>6. \A i \in 0 .. Len(tree) : i \in S
  <2>. HIDE DEF S
  <2>. QED
    BY <1>1, <1>4, <1>5, Upward
<1>. QED
  BY <1>1, <1>6

LEMMA RenderGoes ==
  ASSUME NEW tree \in Trees, NEW d \in BOOLEAN
  PROVE  Render(tree, d) \in Goes(Begun, Known)
<1>1. Len(tree) \in 1 .. Len(tree)
  BY TreeIs
<1>2. Rendering(tree)[Len(tree)][d][0] \in Seq(LinePieces)
  <2>1. NodeRendered(tree, Len(tree))
    BY <1>1, RenderingGoes
  <2>. QED
    BY <2>1 DEF NodeRendered
<1>3. Glue(Rendering(tree)[Len(tree)][d][0], Blank).s \in OnLines
  BY <1>2, GlueLines
<1>. QED
  BY <1>3 DEF Render, OnLines

\* Indentation begins a line, a group or a cell, and an item a line.
Laid(s) ==
  /\ \A i \in DOMAIN s :
       s[i] = Indent => i = 1 \/ s[i - 1] \in {Newline, Indent, "{", "[", " & "}
  /\ \A i \in {k \in DOMAIN s : s[k] = "\\item"} :
       \E j \in 0 .. i - 1 :
         /\ j = 0 \/ s[j] = Newline
         /\ \A k \in j + 1 .. i - 1 : s[k] = Indent

\* The first n tokens of s end with a line break, or are none, but for
\* indentation.
AtStart(s, n) ==
  \E j \in 0 .. n : (j = 0 \/ s[j] = Newline) /\ \A k \in j + 1 .. n : s[k] = Indent

LEMMA GoesLaid ==
  ASSUME NEW s \in Goes(Begun, Known)
  PROVE  Laid(s)
<1>0. s \in Seq(Token)
  BY DEF Goes
<1>1. Len(s) \in Nat /\ DOMAIN s = 1 .. Len(s)
  BY <1>0, IsSeq
<1>2. PICK f : /\ f[0] = "line"
               /\ \A i \in 0 .. Len(s) : f[i] \in Fresh
               /\ \A i \in 1 .. Len(s) : f[i] = Lay(f[i - 1], s[i])
  <2>1. Walks(s, Len(s), "line", Known)
    BY DEF Goes, Begun
  <2>. QED
    BY <2>1 DEF Walks
<1>. DEFINE S == {i \in 0 .. Len(s) :
                    /\ f[i] \in Known
                    /\ f[i] = "line" => AtStart(s, i)
                    /\ f[i] \in Before => i = 0 \/ s[i] \in {Newline, Indent, "{", "[", " & "}}
<1>3. 0 \in S
  <2>1. AtStart(s, 0)
    <3>1. 0 \in 0 .. 0 /\ \A k \in 0 + 1 .. 0 : FALSE
      OBVIOUS
    <3>. QED
      BY <3>1 DEF AtStart
  <2>2. 0 \in 0 .. Len(s)
    BY <1>1
  <2>. QED
    BY <1>2, <2>1, <2>2 DEF Known
<1>4. ASSUME NEW i \in 1 .. Len(s), i - 1 \in S PROVE i \in S
  <2>1. /\ f[i] = Lay(f[i - 1], s[i]) /\ f[i] \in Fresh /\ f[i - 1] \in Known
        /\ f[i - 1] = "line" => AtStart(s, i - 1)
    <3>1. f[i - 1] \in Known /\ (f[i - 1] = "line" => AtStart(s, i - 1))
      BY <1>4, Zenon
    <3>2. i \in 0 .. Len(s)
      BY <1>1
    <3>. QED
      BY <1>2, <3>1, <3>2
  <2>2. f[i] \in Known
    BY <2>1 DEF Lay, Known, Fresh
  <2>3. f[i] = "line" => s[i] = Newline \/ (s[i] = Indent /\ f[i - 1] = "line")
    BY <2>1 DEF Lay
  <2>4. f[i] \in Before => s[i] \in {Newline, Indent, "{", "[", " & "}
    BY <2>1 DEF Lay, Before
  <2>5. ASSUME s[i] = Newline PROVE AtStart(s, i)
    <3>1. i \in 0 .. i /\ \A k \in i + 1 .. i : FALSE
      OBVIOUS
    <3>. QED
      BY <2>5, <3>1 DEF AtStart
  <2>6. ASSUME s[i] = Indent, AtStart(s, i - 1) PROVE AtStart(s, i)
    <3>1. PICK j \in 0 .. i - 1 : (j = 0 \/ s[j] = Newline) /\ \A k \in j + 1 .. i - 1 : s[k] = Indent
      BY <2>6 DEF AtStart
    <3>2. j \in 0 .. i /\ \A k \in j + 1 .. i : k \in j + 1 .. i - 1 \/ k = i
      OBVIOUS
    <3>. QED
      BY <2>6, <3>1, <3>2 DEF AtStart
  <2>7. i \in 0 .. Len(s)
    BY <1>1
  <2>. QED
    BY <2>1, <2>2, <2>3, <2>4, <2>5, <2>6, <2>7
<1>5. \A i \in 0 .. Len(s) : i \in S
  <2>. HIDE DEF S
  <2>. QED
    BY <1>1, <1>3, <1>4, Upward
<1>6. ASSUME NEW i \in DOMAIN s, s[i] = Indent
      PROVE  i = 1 \/ s[i - 1] \in {Newline, Indent, "{", "[", " & "}
  <2>1. i \in 1 .. Len(s) /\ i - 1 \in 0 .. Len(s) /\ i \in 0 .. Len(s) /\ (i - 1 = 0 => i = 1)
    BY <1>1
  <2>2. f[i - 1] \in Known /\ f[i] \in Fresh /\ f[i] = Lay(f[i - 1], Indent)
    BY <1>2, <1>5, <1>6, <2>1
  <2>3. f[i - 1] \in Before
    BY <2>2 DEF Lay, Known, Fresh, Before, Newline, Space, Indent
  <2>. QED
    BY <1>5, <2>1, <2>3
<1>7. ASSUME NEW i \in DOMAIN s, s[i] = "\\item"
      PROVE  AtStart(s, i - 1)
  <2>1. i \in 1 .. Len(s) /\ i - 1 \in 0 .. Len(s) /\ i \in 0 .. Len(s)
    BY <1>1
  <2>2. f[i - 1] \in Known /\ f[i] \in Fresh /\ f[i] = Lay(f[i - 1], "\\item")
    BY <1>2, <1>5, <1>7, <2>1
  <2>3. f[i - 1] = "line"
    BY <2>2 DEF Lay, Known, Fresh, Newline, Space, Indent
  <2>. QED
    BY <1>5, <2>1, <2>3
<1>. QED
  BY <1>6, <1>7 DEF Laid, AtStart

----------------------------------------------------------------------------
(* The constructors make trees.                                            *)

\* A node that holds what a tree has may be built next.
LEMMA TreeMore ==
  ASSUME NEW tree \in Trees, NEW n \in Node,
         \A k \in Holds(n) : k \in 1 .. Len(tree) /\ MayHold(n, k, tree[k].t)
  PROVE  /\ tree \o <<n>> \in Trees /\ Len(tree \o <<n>>) = Len(tree) + 1
         /\ (tree \o <<n>>)[Len(tree) + 1] = n
         /\ \A k \in 1 .. Len(tree) : (tree \o <<n>>)[k] = tree[k]
<1>1. tree \in Seq(Node) /\ Len(tree) \in Nat /\ DOMAIN tree = 1 .. Len(tree)
  BY TreeIs DEF Trees
<1>2. <<n>> \in Seq(Node) /\ Len(<<n>>) = 1 /\ <<n>>[1] = n
  OBVIOUS
<1>3. PICK one \in Seq(Node) : one = <<n>> /\ Len(one) = 1 /\ one[1] = n
  BY <1>2
<1>4. PICK u : u = tree \o one
  OBVIOUS
<1>5. /\ u \in Seq(Node) /\ Len(u) = Len(tree) + 1 /\ u[Len(tree) + 1] = n
      /\ \A k \in 1 .. Len(tree) : u[k] = tree[k]
  BY <1>1, <1>3, <1>4, JoinedSeqIs
<1>6. u # <<>> /\ DOMAIN u = 1 .. Len(u)
  BY <1>1, <1>5
<1>7. ASSUME NEW i \in DOMAIN u, NEW k \in Holds(u[i])
      PROVE  k < i /\ MayHold(u[i], k, u[k].t)
  <2>1. CASE i = Len(tree) + 1
    <3>1. k \in 1 .. Len(tree) /\ MayHold(n, k, tree[k].t)
      BY <1>5, <1>7, <2>1
    <3>. QED
      BY <1>1, <1>5, <2>1, <3>1
  <2>2. CASE i # Len(tree) + 1
    <3>1. i \in 1 .. Len(tree) /\ u[i] = tree[i]
      BY <1>1, <1>5, <1>6, <2>2
    <3>2. k < i /\ MayHold(tree[i], k, tree[k].t)
      BY <1>1, <1>7, <3>1 DEF Trees
    <3>3. k \in DOMAIN tree
      BY <1>1, <1>7, <3>1, TreeIs DEF Closed
    <3>. QED
      BY <1>1, <1>5, <3>1, <3>2, <3>3
  <2>. QED
    BY <2>1, <2>2
<1>8. u \in Trees
  BY <1>5, <1>6, <1>7 DEF Trees
<1>. QED
  BY <1>3, <1>4, <1>5, <1>8

LEMMA TreeTwo ==
  ASSUME NEW tree \in Trees, NEW m \in Node, NEW n \in Node, m.t \notin Itemed,
         \A k \in Holds(m) : k \in 1 .. Len(tree) /\ tree[k].t \notin Itemed,
         \A k \in Holds(n) : k = Len(tree) + 1 \/ (k \in 1 .. Len(tree) /\ MayHold(n, k, tree[k].t))
  PROVE  tree \o <<m, n>> \in Trees
<1>0. Len(tree) \in Nat
  BY TreeIs
<1>1. PICK u : u = tree \o <<m>>
  OBVIOUS
<1>2. /\ u \in Trees /\ Len(u) = Len(tree) + 1 /\ u[Len(tree) + 1] = m
      /\ \A k \in 1 .. Len(tree) : u[k] = tree[k]
  BY <1>1, TreeMore DEF MayHold
<1>3. \A k \in Holds(n) : k \in 1 .. Len(u) /\ MayHold(n, k, u[k].t)
  BY <1>0, <1>2 DEF MayHold
<1>4. u \o <<n>> \in Trees
  BY <1>2, <1>3, TreeMore
<1>5. tree \o <<m, n>> = u \o <<n>>
  <2>1. tree \in Seq(Node) /\ <<m>> \in Seq(Node) /\ <<n>> \in Seq(Node)
    BY DEF Trees
  <2>2. (tree \o <<m>>) \o <<n>> = tree \o (<<m>> \o <<n>>)
    BY <2>1, ConcatAssociative
  <2>. QED
    BY <1>1, <2>2, TwoWords
<1>. QED
  BY <1>4, <1>5

\* The places of a tree, and those of them that are no items.
Within(tree) == {k \in Place : k \in 1 .. Len(tree)}

Free(tree) == {k \in Within(tree) : tree[k].t \notin Itemed}

LEMMA KidsAre ==
  ASSUME node \in Trees, NEW kids \in Kids
  PROVE  /\ kids \in Seq(Within(node))
         /\ NoItem(kids) => kids \in Seq(Free(node))
<1>1. Len(node) \in Nat \ {0}
  BY TreeIs
<1>2. PICK pick \in Picks :
        /\ \A i \in DOMAIN pick : pick[i] <= Len(node)
        /\ kids = [i \in DOMAIN pick |-> IF pick[i] = 0 THEN Len(node) ELSE pick[i]]
  BY DEF Kids
<1>3. pick \in Seq(Nat)
  BY ScriptAssumption
<1>4. DOMAIN pick = 1 .. Len(pick) /\ Len(pick) \in Nat /\ \A i \in 1 .. Len(pick) : pick[i] \in Nat
  BY <1>3, IsSeq
<1>5. /\ DOMAIN kids = DOMAIN pick /\ kids = [i \in DOMAIN kids |-> kids[i]]
      /\ \A i \in DOMAIN pick : kids[i] = IF pick[i] = 0 THEN Len(node) ELSE pick[i]
  BY <1>2, Zenon
<1>6. \A i \in 1 .. Len(pick) : kids[i] \in Within(node)
  BY <1>1, <1>2, <1>4, <1>5 DEF Within, Place
<1>7. kids \in Seq(Within(node))
  BY <1>3, <1>5, <1>6, MapIs
<1>8. ASSUME NoItem(kids) PROVE kids \in Seq(Free(node))
  <2>1. \A i \in 1 .. Len(pick) : kids[i] \in Free(node)
    BY <1>4, <1>5, <1>6, <1>8 DEF NoItem, Free
  <2>. QED
    BY <1>3, <1>5, <2>1, MapIs
<1>. QED
  BY <1>7, <1>8

LEMMA ArrayIs ==
  ASSUME NEW T, NEW kids \in Seq(T)
  PROVE  Array(kids) \in Seq(T)
<1>1. Len(kids) \in Nat /\ DOMAIN kids = 1 .. Len(kids)
  BY IsSeq
<1>. DEFINE S == {0} \cup {i \in DOMAIN kids : node[kids[i]] # Hole}
<1>2. S \subseteq 0 .. Len(kids) /\ S # {}
  BY <1>1
<1>3. PICK m \in S : m = Max(S)
  <2>. HIDE DEF S
  <2>1. \E x \in S : \A y \in S : x >= y
    BY <1>1, <1>2, GreatestElement
  <2>. QED
    BY <2>1 DEF Max
<1>4. m \in 0 .. Len(kids)
  BY <1>2
<1>5. Array(kids) = SubSeq(kids, 1, m)
  BY <1>3 DEF Array
<1>. HIDE DEF S
<1>. QED
  BY <1>1, <1>4, <1>5

LEMMA KidsGiven ==
  ASSUME node \in Trees, NEW kids \in Kids
  PROVE  /\ kids \in Seq(Place) /\ Array(kids) \in Seq(Place)
         /\ ToSet(kids) \subseteq Within(node) /\ ToSet(Array(kids)) \subseteq Within(node)
         /\ NoItem(kids) => ToSet(kids) \subseteq Free(node) /\ ToSet(Array(kids)) \subseteq Free(node)
<1>1. \A s \in Seq(Within(node)) : s \in Seq(Place) /\ ToSet(s) \subseteq Within(node)
  <2>1. Within(node) \subseteq Place
    BY DEF Within
  <2>. QED
    BY <2>1, SeqWider, IsSeq DEF ToSet
<1>2. \A s \in Seq(Free(node)) : ToSet(s) \subseteq Free(node)
  BY IsSeq DEF ToSet
<1>3. kids \in Seq(Within(node)) /\ (NoItem(kids) => kids \in Seq(Free(node)))
  BY KidsAre
<1>4. Array(kids) \in Seq(Within(node)) /\ (NoItem(kids) => Array(kids) \in Seq(Free(node)))
  BY <1>3, ArrayIs
<1>. QED
  BY <1>1, <1>2, <1>3, <1>4

LEMMA SomeIs == Some \in {Text(s) : s \in Seq(Chars)} /\ <<"lr">> \in Seq(Chars) /\ <<>> \in Seq(Chars)
<1>1. "t" \in Chars /\ "%" \in Chars /\ "lr" \in Chars
  BY TokensAssumption
<1>2. ASSUME NEW b \in Chars, NEW c \in Chars PROVE <<b>> \in Seq(Chars) /\ <<b, c>> \in Seq(Chars)
  OBVIOUS
<1>3. PICK s \in Seq(Chars) : s = <<"t", "%">>
  BY <1>1, <1>2
<1>4. <<"lr">> \in Seq(Chars) /\ <<>> \in Seq(Chars)
  BY <1>1, <1>2
<1>. QED
  BY <1>3, <1>4 DEF Some

LEMMA TextIs ==
  ASSUME NEW s \in Seq(Chars)
  PROVE  Text(s) \in Node /\ Text(s).t \notin Itemed /\ Holds(Text(s)) = {}
BY DEF Text, Node, Holds, Itemed

\* One node, or a string and a node that may hold it.
LEMMA MakeOne ==
  ASSUME node \in Trees, NEW n \in Node, Holds(n) \subseteq Free(node)
  PROVE  node \o <<n>> \in Trees
<1>1. \A k \in Holds(n) : k \in 1 .. Len(node) /\ MayHold(n, k, node[k].t)
  BY DEF Free, Within, MayHold
<1>. QED
  BY <1>1, TreeMore

LEMMA MakeText ==
  ASSUME node \in Trees, NEW s \in Seq(Chars), NEW n \in Node, Holds(n) \subseteq Free(node) \cup {New}
  PROVE  node \o <<Text(s), n>> \in Trees
<1>1. \A k \in Holds(n) : k = Len(node) + 1 \/ (k \in 1 .. Len(node) /\ MayHold(n, k, node[k].t))
  BY DEF Free, Within, MayHold, New
<1>. QED
  BY <1>1, TextIs, TreeTwo

LEMMA MakeSome ==
  ASSUME node \in Trees, NEW n \in Node, Holds(n) \subseteq Free(node) \cup {New}
  PROVE  node \o <<Some, n>> \in Trees
BY SomeIs, MakeText

LEMMA NewIs ==
  ASSUME node \in Trees
  PROVE  <<New>> \in Seq(Place) /\ ToSet(<<New>>) = {New} /\ ToSet(<<>>) = {} /\ <<>> \in Seq(Place)
<1>1. New \in Place
  BY TreeIs DEF New, Place
<1>. QED
  BY <1>1 DEF ToSet

LEMMA HoldsOf ==
  /\ \A a, b : Holds([t |-> "plain", term |-> a, kids |-> b]) = ToSet(a) \cup ToSet(b)
  /\ \A a, b : Holds([t |-> "item", term |-> a, kids |-> b]) = ToSet(a) \cup ToSet(b)
  /\ \A a : Holds([t |-> "frag", kids |-> a]) = ToSet(a)
  /\ \A a : Holds([t |-> "par", kids |-> a]) = ToSet(a)
  /\ \A a, o : Holds([t |-> "cmd", opts |-> o, kids |-> a]) = ToSet(a)
  /\ \A a, o : Holds([t |-> "list", opts |-> o, kids |-> a]) = ToSet(a)
  /\ \A a, b, o : Holds([t |-> "env", opts |-> o, args |-> b, kids |-> a]) = ToSet(a) \cup ToSet(b)
  /\ \A a : Holds([t |-> "items", kids |-> a]) = ToSet(a)
  /\ \A a, b, c, l : Holds([t |-> "sec", label |-> l, short |-> c, title |-> b, kids |-> a])
                       = ToSet(a) \cup ToSet(b) \cup ToSet(c)
  /\ \A a, b, z : Holds([t |-> "tabular", resize |-> z, header |-> b, rows |-> a])
                    = ToSet(a) \cup ToSet(b)
  /\ \A a, b, c, z, l : Holds([t |-> "table", resize |-> z, header |-> b, rows |-> a,
                               caption |-> c, label |-> l]) = ToSet(a) \cup ToSet(b) \cup ToSet(c)
  /\ \A c, l : Holds([t |-> "figure", caption |-> c, label |-> l]) = ToSet(c)
  /\ \A a, b, c, d, x, y, z :
       Holds([t |-> "document", kids |-> a, title |-> b, author |-> c, date |-> d,
              maketitle |-> x, toc |-> y, bib |-> z])
         = ToSet(a) \cup ToSet(b) \cup ToSet(c) \cup ToSet(d)
BY DEF Holds

\* A table of children, and a node that holds it.
LEMMA MakeTable ==
  ASSUME node \in Trees, NEW a \in Seq(Place), ToSet(a) \subseteq Free(node),
         NEW n \in Node, Holds(n) \subseteq Free(node) \cup {New}
  PROVE  node \o <<Plain(<<>>, a), n>> \in Trees
<1>. DEFINE m == Plain(<<>>, a)
<1>1. m \in Node /\ m.t \notin Itemed
  <2>1. <<>> \in Seq(Place)
    OBVIOUS
  <2>. QED
    BY <2>1 DEF Plain, Node, Itemed
<1>2. Holds(m) = ToSet(a)
  <2>1. Holds(m) = ToSet(<<>>) \cup ToSet(a)
    BY HoldsOf DEF Plain
  <2>. QED
    BY <2>1, NewIs
<1>. HIDE DEF m
<1>3. \A k \in Holds(m) : k \in 1 .. Len(node) /\ node[k].t \notin Itemed
  BY <1>2 DEF Free, Within
<1>4. \A k \in Holds(n) : k = Len(node) + 1 \/ (k \in 1 .. Len(node) /\ MayHold(n, k, node[k].t))
  BY DEF Free, Within, MayHold, New
<1>5. node \o <<m, n>> \in Trees
  BY <1>1, <1>3, <1>4, TreeTwo
<1>. QED
  BY <1>5 DEF m

\* A constructor that has built a tree.
Made == node' \in Trees

LEMMA BuildMakes ==
  ASSUME NEW ns, Build(ns), node \o ns \in Trees
  PROVE  Made
BY DEF Build, Made

LEMMA PlainTableMakes ==
  ASSUME node \in Trees, PlainTable
  PROVE  Made
<1>1. PICK kids \in Kids :
        \/ NoItem(kids) /\ Build(<<Plain(<<>>, Array(kids))>>)
        \/ NoItem(kids) /\ Build(<<Some, Plain(<<New>>, Array(kids))>>)
        \/ ~NoItem(kids) /\ Build(<<[t |-> "items", kids |-> Array(kids)]>>)
  BY DEF PlainTable
<1>2. /\ Array(kids) \in Seq(Place) /\ ToSet(Array(kids)) \subseteq Within(node)
      /\ NoItem(kids) => ToSet(Array(kids)) \subseteq Free(node)
  BY <1>1, KidsGiven
<1>3. PICK a \in Seq(Place) : a = Array(kids)
  BY <1>2
<1>4. PICK b \in Seq(Place) : b = <<New>> /\ ToSet(b) = {New} /\ <<>> \in Seq(Place) /\ ToSet(<<>>) = {}
  BY NewIs
<1>5. CASE NoItem(kids)
  <2>1. Plain(<<>>, a) \in Node /\ Plain(b, a) \in Node
    BY <1>4 DEF Plain, Node
  <2>2. Holds(Plain(<<>>, a)) = ToSet(a) /\ Holds(Plain(b, a)) = ToSet(a) \cup {New}
    <3>1. /\ Holds(Plain(<<>>, a)) = ToSet(<<>>) \cup ToSet(a)
          /\ Holds(Plain(b, a)) = ToSet(b) \cup ToSet(a)
      BY HoldsOf DEF Plain
    <3>. QED
      BY <1>4, <3>1
  <2>3. node \o <<Plain(<<>>, a)>> \in Trees /\ node \o <<Some, Plain(b, a)>> \in Trees
    BY <1>2, <1>3, <1>5, <2>1, <2>2, MakeOne, MakeSome
  <2>. QED
    BY <1>1, <1>3, <1>4, <1>5, <2>3, BuildMakes
<1>6. CASE ~NoItem(kids)
  <2>. DEFINE n == [t |-> "items", kids |-> a]
  <2>1. n \in Node /\ n.t = "items" /\ Holds(n) = ToSet(a)
    BY HoldsOf DEF Node
  <2>2. Build(<<n>>)
    BY <1>1, <1>3, <1>6
  <2>. HIDE DEF n
  <2>3. \A k \in Holds(n) : k \in 1 .. Len(node) /\ MayHold(n, k, node[k].t)
    BY <1>2, <1>3, <2>1 DEF Within, MayHold
  <2>. QED
    BY <2>1, <2>2, <2>3, TreeMore, BuildMakes
<1>. QED
  BY <1>5, <1>6

LEMMA FragMakes ==
  ASSUME node \in Trees, Frag
  PROVE  Made
<1>1. PICK kids \in Kids : NoItem(kids) /\ Build(<<[t |-> "frag", kids |-> kids]>>)
  BY DEF Frag, Plainly
<1>2. kids \in Seq(Place) /\ ToSet(kids) \subseteq Free(node)
  BY <1>1, KidsGiven
<1>3. [t |-> "frag", kids |-> kids] \in Node
  BY <1>2 DEF Node
<1>. QED
  BY <1>1, <1>2, <1>3, HoldsOf, MakeOne, BuildMakes

LEMMA ParMakes ==
  ASSUME node \in Trees, Par
  PROVE  Made
<1>1. PICK kids \in Kids : NoItem(kids) /\ Build(<<[t |-> "par", kids |-> kids]>>)
  BY DEF Par, Plainly
<1>2. kids \in Seq(Place) /\ ToSet(kids) \subseteq Free(node)
  BY <1>1, KidsGiven
<1>3. [t |-> "par", kids |-> kids] \in Node
  BY <1>2 DEF Node
<1>. QED
  BY <1>1, <1>2, <1>3, HoldsOf, MakeOne, BuildMakes

LEMMA CommandMakes ==
  ASSUME node \in Trees, Command
  PROVE  Made
<1>1. PICK kids \in Kids :
        /\ NoItem(kids)
        /\ \/ Build(<<[t |-> "cmd", opts |-> TRUE, kids |-> kids]>>)
           \/ Build(<<Plain(<<>>, Array(kids)), [t |-> "cmd", opts |-> FALSE, kids |-> <<New>>]>>)
  BY DEF Command
<1>2. /\ kids \in Seq(Place) /\ ToSet(kids) \subseteq Free(node)
      /\ Array(kids) \in Seq(Place) /\ ToSet(Array(kids)) \subseteq Free(node)
  BY <1>1, KidsGiven
<1>3. CASE Build(<<[t |-> "cmd", opts |-> TRUE, kids |-> kids]>>)
  <2>1. [t |-> "cmd", opts |-> TRUE, kids |-> kids] \in Node
    BY <1>2 DEF Node
  <2>2. Holds([t |-> "cmd", opts |-> TRUE, kids |-> kids]) = ToSet(kids)
    BY HoldsOf
  <2>. QED
    BY <1>2, <1>3, <2>1, <2>2, MakeOne, BuildMakes
<1>4. CASE Build(<<Plain(<<>>, Array(kids)), [t |-> "cmd", opts |-> FALSE, kids |-> <<New>>]>>)
  <2>1. PICK a \in Seq(Place) : a = Array(kids)
    BY <1>2
  <2>2. PICK b \in Seq(Place) : b = <<New>> /\ ToSet(b) = {New} /\ <<>> \in Seq(Place) /\ ToSet(<<>>) = {}
    BY NewIs
  <2>. DEFINE n == [t |-> "cmd", opts |-> FALSE, kids |-> b]
  <2>3. n \in Node /\ Holds(n) = {New}
    BY <2>2, HoldsOf DEF Node
  <2>4. Build(<<Plain(<<>>, a), n>>)
    BY <1>4, <2>1, <2>2
  <2>. HIDE DEF n
  <2>5. node \o <<Plain(<<>>, a), n>> \in Trees
    BY <1>2, <2>1, <2>3, MakeTable
  <2>. QED
    BY <2>4, <2>5, BuildMakes
<1>. QED
  BY <1>1, <1>3, <1>4

LEMMA EnvironmentMakes ==
  ASSUME node \in Trees, Environment
  PROVE  Made
<1>1. PICK kids \in Kids \cup {Array(given) : given \in Kids} :
        \/ Build(<<[t |-> "env", opts |-> FALSE, args |-> <<>>, kids |-> kids]>>)
        \/ Build(<<Text(<<"lr">>), [t |-> "env", opts |-> TRUE, args |-> <<New>>, kids |-> kids]>>)
  BY DEF Environment
<1>2. kids \in Seq(Place) /\ ToSet(kids) \subseteq Within(node)
  BY KidsGiven
<1>3. PICK a, b : /\ a \in Seq(Place) /\ b \in Seq(Place) /\ a = <<>> /\ b = <<New>>
                  /\ ToSet(a) = {} /\ ToSet(b) = {New}
  BY NewIs
<1>4. Len(node) \in Nat
  BY TreeIs
<1>5. CASE Build(<<[t |-> "env", opts |-> FALSE, args |-> <<>>, kids |-> kids]>>)
  <2>. DEFINE n == [t |-> "env", opts |-> FALSE, args |-> a, kids |-> kids]
  <2>1. n \in Node
    BY <1>2, <1>3 DEF Node
  <2>2. Holds(n) = ToSet(kids) /\ n.t = "env" /\ ToSet(n.args) = {}
    <3>1. Holds(n) = ToSet(kids) \cup ToSet(a) /\ n.t = "env" /\ n.args = a
      BY HoldsOf
    <3>. QED
      BY <1>3, <3>1
  <2>3. Build(<<n>>)
    BY <1>3, <1>5
  <2>. HIDE DEF n
  <2>4. \A k \in Holds(n) : k \in 1 .. Len(node) /\ MayHold(n, k, node[k].t)
    BY <1>2, <2>2 DEF Within, MayHold
  <2>. QED
    BY <2>1, <2>3, <2>4, TreeMore, BuildMakes
<1>6. CASE Build(<<Text(<<"lr">>), [t |-> "env", opts |-> TRUE, args |-> <<New>>, kids |-> kids]>>)
  <2>. DEFINE n == [t |-> "env", opts |-> TRUE, args |-> b, kids |-> kids]
  <2>1. n \in Node
    BY <1>2, <1>3 DEF Node
  <2>2. Holds(n) = ToSet(kids) \cup {New} /\ n.t = "env" /\ ToSet(n.args) = {New}
    BY <1>3, HoldsOf
  <2>3. Build(<<Text(<<"lr">>), n>>)
    BY <1>3, <1>6
  <2>. HIDE DEF n
  <2>4. ASSUME NEW k \in Holds(n)
        PROVE  k = Len(node) + 1 \/ (k \in 1 .. Len(node) /\ MayHold(n, k, node[k].t))
    BY <1>2, <1>4, <2>2 DEF Within, MayHold, New
  <2>5. node \o <<Text(<<"lr">>), n>> \in Trees
    BY <2>1, <2>4, SomeIs, TextIs, TreeTwo
  <2>. QED
    BY <2>3, <2>5, BuildMakes
<1>. QED
  BY <1>1, <1>5, <1>6

LEMMA ItemNodeMakes ==
  ASSUME node \in Trees, ItemNode
  PROVE  Made
<1>. DEFINE n(kids) == node[kids[1]]
            own(kids) == Len(kids) = 1 /\ n(kids).t = "plain" /\ n(kids).term # <<>>
<1>1. PICK kids \in Kids :
        /\ NoItem(kids)
        /\ Build(<<[t |-> "item", term |-> IF own(kids) THEN n(kids).term ELSE <<>>,
                    kids |-> IF own(kids) THEN n(kids).kids ELSE kids]>>)
  BY DEF ItemNode, Plainly
<1>2. kids \in Seq(Place) /\ ToSet(kids) \subseteq Free(node) /\ kids \in Seq(Free(node))
  BY <1>1, KidsGiven, KidsAre
<1>. DEFINE a == IF own(kids) THEN n(kids).term ELSE <<>>
            b == IF own(kids) THEN n(kids).kids ELSE kids
<1>3. a \in Seq(Place) /\ b \in Seq(Place) /\ ToSet(a) \cup ToSet(b) \subseteq Free(node)
  <2>1. CASE ~own(kids)
    BY <1>2, <2>1, NewIs
  <2>2. CASE own(kids)
    <3>1. kids[1] \in Free(node)
      BY <1>2, <2>2, IsSeq
    <3>2. PICK i : i = kids[1]
      OBVIOUS
    <3>3. /\ i \in 1 .. Len(node) /\ i \in DOMAIN node /\ DOMAIN node = 1 .. Len(node)
          /\ node[i] \in Node /\ Len(node) \in Nat /\ Closed(node, DOMAIN node)
      BY <3>1, <3>2, TreeIs DEF Free, Within
    <3>4. node[i].t = "plain" /\ a = node[i].term /\ b = node[i].kids
      BY <2>2, <3>2
    <3>5. /\ node[i].term \in Seq(Place) /\ node[i].kids \in Seq(Place)
          /\ ToSet(node[i].term) \subseteq Holds(node[i]) /\ ToSet(node[i].kids) \subseteq Holds(node[i])
      BY <3>3, <3>4, NodeFields, NodeHolds
    <3>6. ASSUME NEW k \in Holds(node[i]) PROVE k \in Free(node)
      <4>1. k \in 1 .. Len(node) /\ k \in Place
        BY <3>3 DEF Closed, Place
      <4>2. MayHold(node[i], k, node[k].t)
        BY <3>3 DEF Trees
      <4>. QED
        BY <3>4, <4>1, <4>2 DEF MayHold, Free, Within, Itemed
    <3>. QED
      BY <3>4, <3>5, <3>6
  <2>. QED
    BY <2>1, <2>2
<1>4. Build(<<[t |-> "item", term |-> a, kids |-> b]>>)
  BY <1>1
<1>. HIDE DEF a, b
<1>5. [t |-> "item", term |-> a, kids |-> b] \in Node
  BY <1>3 DEF Node
<1>6. Holds([t |-> "item", term |-> a, kids |-> b]) \subseteq Free(node)
  BY <1>3, HoldsOf
<1>. QED
  BY <1>4, <1>5, <1>6, MakeOne, BuildMakes

LEMMA ListNodeMakes ==
  ASSUME node \in Trees, ListNode
  PROVE  Made
<1>1. PICK kids \in Kids : /\ \A i \in DOMAIN kids : node[kids[i]].t # "items"
                           /\ Build(<<[t |-> "list", opts |-> FALSE, kids |-> Array(kids)]>>)
  BY DEF ListNode
<1>2. Array(kids) \in Seq(Place) /\ ToSet(Array(kids)) \subseteq Within(node)
  BY KidsGiven
<1>5. \A k \in ToSet(Array(kids)) : node[k].t # "items"
  <2>. DEFINE T == {k \in Within(node) : node[k].t # "items"}
  <2>1. kids \in Seq(Within(node))
    BY KidsAre
  <2>2. ToSet(kids) \subseteq T
    BY <1>1, <2>1, IsSeq DEF ToSet
  <2>. HIDE DEF T
  <2>3. Array(kids) \in Seq(T)
    BY <2>1, <2>2, SeqWithin, ArrayIs
  <2>4. ToSet(Array(kids)) \subseteq T
    BY <2>3, IsSeq DEF ToSet
  <2>. QED
    BY <2>4 DEF T
<1>. DEFINE n == [t |-> "list", opts |-> FALSE, kids |-> Array(kids)]
<1>3. n \in Node /\ n.t = "list" /\ Holds(n) = ToSet(Array(kids))
  BY <1>2, HoldsOf DEF Node
<1>. HIDE DEF n
<1>4. \A k \in Holds(n) : k \in 1 .. Len(node) /\ MayHold(n, k, node[k].t)
  BY <1>2, <1>3, <1>5 DEF Within, MayHold, Itemed
<1>. QED
  BY <1>1, <1>3, <1>4, TreeMore, BuildMakes DEF n

LEMMA SectionNodeMakes ==
  ASSUME node \in Trees, SectionNode
  PROVE  Made
<1>1. PICK kids \in Kids :
        /\ NoItem(kids)
        /\ \/ Build(<<Some, [t |-> "sec", label |-> TRUE, short |-> <<New>>, title |-> <<New>>,
                             kids |-> kids]>>)
           \/ Build(<<[t |-> "sec", label |-> FALSE, short |-> <<>>, title |-> Array(kids),
                       kids |-> <<>>]>>)
  BY DEF SectionNode
<1>2. /\ kids \in Seq(Place) /\ ToSet(kids) \subseteq Free(node)
      /\ Array(kids) \in Seq(Place) /\ ToSet(Array(kids)) \subseteq Free(node)
  BY <1>1, KidsGiven
<1>3. PICK a, b : /\ a \in Seq(Place) /\ b \in Seq(Place) /\ a = <<>> /\ b = <<New>>
                  /\ ToSet(a) = {} /\ ToSet(b) = {New}
  BY NewIs
<1>. DEFINE m == [t |-> "sec", label |-> TRUE, short |-> b, title |-> b, kids |-> kids]
            n == [t |-> "sec", label |-> FALSE, short |-> a, title |-> Array(kids), kids |-> a]
<1>4. m \in Node /\ n \in Node
  BY <1>2, <1>3 DEF Node
<1>5. Holds(m) = ToSet(kids) \cup {New} /\ Holds(n) = ToSet(Array(kids))
  <2>1. Holds(m) = ToSet(kids) \cup ToSet(b) /\ Holds(n) = ToSet(a) \cup ToSet(Array(kids))
    BY HoldsOf
  <2>. HIDE DEF m, n
  <2>. QED
    BY <1>3, <2>1
<1>6. Build(<<Some, m>>) \/ Build(<<n>>)
  BY <1>1, <1>3
<1>. HIDE DEF m, n
<1>7. node \o <<Some, m>> \in Trees /\ node \o <<n>> \in Trees
  BY <1>2, <1>4, <1>5, MakeOne, MakeSome
<1>. QED
  BY <1>6, <1>7, BuildMakes

LEMMA TabularNodeMakes ==
  ASSUME node \in Trees, TabularNode
  PROVE  Made
<1>1. PICK kids \in Kids :
        /\ NoItem(kids)
        /\ \/ Build(<<[t |-> "tabular", resize |-> FALSE, header |-> <<>>, rows |-> Array(kids)]>>)
           \/ Build(<<Plain(<<>>, Array(kids)),
                      [t |-> "tabular", resize |-> TRUE, header |-> <<New>>, rows |-> <<New>>]>>)
  BY DEF TabularNode
<1>2. Array(kids) \in Seq(Place) /\ ToSet(Array(kids)) \subseteq Free(node)
  BY <1>1, KidsGiven
<1>3. PICK a, b : /\ a \in Seq(Place) /\ b \in Seq(Place) /\ a = <<>> /\ b = <<New>>
                  /\ ToSet(a) = {} /\ ToSet(b) = {New}
  BY NewIs
<1>. DEFINE m == [t |-> "tabular", resize |-> TRUE, header |-> b, rows |-> b]
            n == [t |-> "tabular", resize |-> FALSE, header |-> a, rows |-> Array(kids)]
<1>4. m \in Node /\ n \in Node
  BY <1>2, <1>3 DEF Node
<1>5. Holds(m) = {New} /\ Holds(n) = ToSet(Array(kids))
  <2>1. Holds(m) = ToSet(b) \cup ToSet(b) /\ Holds(n) = ToSet(Array(kids)) \cup ToSet(a)
    BY HoldsOf
  <2>. HIDE DEF m, n
  <2>. QED
    BY <1>3, <2>1
<1>6. Build(<<Plain(<<>>, Array(kids)), m>>) \/ Build(<<n>>)
  BY <1>1, <1>3
<1>. HIDE DEF m, n
<1>7. node \o <<Plain(<<>>, Array(kids)), m>> \in Trees /\ node \o <<n>> \in Trees
  BY <1>2, <1>4, <1>5, MakeOne, MakeTable
<1>. QED
  BY <1>6, <1>7, BuildMakes

LEMMA FloatNodeMakes ==
  ASSUME node \in Trees, FloatNode
  PROVE  Made
<1>1. PICK kids \in Kids :
        /\ NoItem(kids)
        /\ \/ Build(<<Some, [t |-> "table", resize |-> FALSE, header |-> <<>>, rows |-> Array(kids),
                             caption |-> <<New>>, label |-> TRUE]>>)
           \/ Build(<<[t |-> "figure", caption |-> kids, label |-> FALSE]>>)
  BY DEF FloatNode
<1>2. /\ kids \in Seq(Place) /\ ToSet(kids) \subseteq Free(node)
      /\ Array(kids) \in Seq(Place) /\ ToSet(Array(kids)) \subseteq Free(node)
  BY <1>1, KidsGiven
<1>3. PICK a, b : /\ a \in Seq(Place) /\ b \in Seq(Place) /\ a = <<>> /\ b = <<New>>
                  /\ ToSet(a) = {} /\ ToSet(b) = {New}
  BY NewIs
<1>. DEFINE m == [t |-> "table", resize |-> FALSE, header |-> a, rows |-> Array(kids),
                  caption |-> b, label |-> TRUE]
            n == [t |-> "figure", caption |-> kids, label |-> FALSE]
<1>4. m \in Node /\ n \in Node
  BY <1>2, <1>3 DEF Node
<1>5. Holds(m) = ToSet(Array(kids)) \cup {New} /\ Holds(n) = ToSet(kids)
  BY <1>3, HoldsOf
<1>6. Build(<<Some, m>>) \/ Build(<<n>>)
  BY <1>1, <1>3
<1>. HIDE DEF m, n
<1>7. node \o <<Some, m>> \in Trees /\ node \o <<n>> \in Trees
  BY <1>2, <1>4, <1>5, MakeOne, MakeSome
<1>. QED
  BY <1>6, <1>7, BuildMakes

LEMMA DocumentNodeMakes ==
  ASSUME node \in Trees, DocumentNode
  PROVE  Made
<1>1. PICK kids \in Kids, maketitle \in BOOLEAN :
        /\ Plainly(Array(kids))
        /\ \/ Build(<<Text(<<>>), [t |-> "document", kids |-> Array(kids), title |-> <<>>,
                                   author |-> <<>>, date |-> <<New>>, maketitle |-> TRUE,
                                   toc |-> TRUE, bib |-> FALSE]>>)
           \/ Build(<<Some, [t |-> "document", kids |-> Array(kids), title |-> <<New>>,
                             author |-> <<New>>, date |-> <<>>, maketitle |-> maketitle,
                             toc |-> FALSE, bib |-> TRUE]>>)
  BY DEF DocumentNode
<1>2. Array(kids) \in Seq(Place) /\ ToSet(Array(kids)) \subseteq Within(node)
  BY KidsGiven
<1>3. ToSet(Array(kids)) \subseteq Free(node)
  BY <1>1, <1>2 DEF Plainly, NoItem, ToSet, Free
<1>4. PICK a, b : /\ a \in Seq(Place) /\ b \in Seq(Place) /\ a = <<>> /\ b = <<New>>
                  /\ ToSet(a) = {} /\ ToSet(b) = {New}
  BY NewIs
<1>. DEFINE m == [t |-> "document", kids |-> Array(kids), title |-> b, author |-> b, date |-> a,
                  maketitle |-> maketitle, toc |-> FALSE, bib |-> TRUE]
            n == [t |-> "document", kids |-> Array(kids), title |-> a, author |-> a, date |-> b,
                  maketitle |-> TRUE, toc |-> TRUE, bib |-> FALSE]
<1>5. m \in Node /\ n \in Node
  BY <1>2, <1>4 DEF Node
<1>6. Holds(m) = ToSet(Array(kids)) \cup {New} /\ Holds(n) = ToSet(Array(kids)) \cup {New}
  <2>1. /\ Holds(m) = ToSet(Array(kids)) \cup ToSet(b) \cup ToSet(b) \cup ToSet(a)
        /\ Holds(n) = ToSet(Array(kids)) \cup ToSet(a) \cup ToSet(a) \cup ToSet(b)
    BY HoldsOf
  <2>. HIDE DEF m, n
  <2>. QED
    BY <1>4, <2>1
<1>7. Build(<<Some, m>>) \/ Build(<<Text(<<>>), n>>)
  BY <1>1, <1>4
<1>. HIDE DEF m, n
<1>8. node \o <<Some, m>> \in Trees /\ node \o <<Text(<<>>), n>> \in Trees
  BY <1>3, <1>5, <1>6, SomeIs, MakeText, MakeSome
<1>. QED
  BY <1>7, <1>8, BuildMakes

----------------------------------------------------------------------------
(* The script.                                                             *)

LEMMA ConstructBuilds ==
  ASSUME Construct
  PROVE  \E ns : Build(ns)
<1>1. CASE PlainTable \/ Frag \/ Par \/ Command
  BY <1>1 DEF PlainTable, Frag, Par, Command
<1>2. CASE Environment \/ ItemNode \/ ListNode
  BY <1>2 DEF Environment, ItemNode, ListNode
<1>3. CASE SectionNode \/ TabularNode \/ FloatNode \/ DocumentNode
  BY <1>3 DEF SectionNode, TabularNode, FloatNode, DocumentNode
<1>. QED
  BY <1>1, <1>2, <1>3 DEF Construct

LEMMA ConstructMakes ==
  ASSUME node \in Trees, Construct
  PROVE  Made
BY PlainTableMakes, FragMakes, ParMakes, CommandMakes, EnvironmentMakes, ItemNodeMakes,
   ListNodeMakes, SectionNodeMakes, TabularNodeMakes, FloatNodeMakes, DocumentNodeMakes DEF Construct

\* What L.render has returned, while there is one, is the text of the tree.
OutIsText ==
  out \in {<<>>, Error} \/ (Renderable(node) /\ \E indent \in BOOLEAN : out = Render(node, indent))

\* An engine runs on a file.
RunNeedsFile == run # NoRun => tex # NoFile

DocInv ==
  /\ node \in Trees /\ size \in 0 .. MaxSize /\ tex.of \in 0 .. MaxWrites
  /\ OutIsText /\ RunNeedsFile

LEMMA DocInvInit == Init => DocInv
<1>. SUFFICES ASSUME Init PROVE DocInv
  OBVIOUS
<1>1. node \in Trees /\ size \in 0 .. MaxSize /\ out = <<>>
  BY BoundsAssumption, ScriptAssumption DEF Init
<1>2. tex.of \in 0 .. MaxWrites /\ run = NoRun
  BY BoundsAssumption DEF Init, FilesInit, NoFile
<1>. QED
  BY <1>1, <1>2 DEF DocInv, OutIsText, RunNeedsFile

LEMMA DocInvStep ==
  ASSUME DocInv, [Next]_vars
  PROVE  DocInv'
<1>0. MaxSize \in Nat /\ MaxWrites \in Nat
  BY BoundsAssumption
<1>1. CASE Construct
  <2>1. PICK ns : Build(ns)
    BY <1>1, ConstructBuilds
  <2>2. node' \in Trees
    BY <1>1, ConstructMakes DEF DocInv, Made
  <2>3. size' \in 0 .. MaxSize
    BY <1>0, <2>1 DEF DocInv, Build
  <2>4. out' = <<>> /\ UNCHANGED <<tex, run>>
    BY <2>1 DEF Build, filevars
  <2>. QED
    BY <2>2, <2>3, <2>4 DEF DocInv, OutIsText, RunNeedsFile
<1>2. CASE LRender
  <2>1. UNCHANGED <<node, size, tex, run>>
    BY <1>2 DEF LRender, filevars
  <2>2. out' = Error \/ (Renderable(node) /\ \E indent \in BOOLEAN : out' = Render(node, indent))
    BY <1>2 DEF LRender
  <2>3. OutIsText'
    BY <2>1, <2>2 DEF OutIsText
  <2>. QED
    BY <2>1, <2>3 DEF DocInv, RunNeedsFile
<1>3. CASE LWrite
  <2>1. UNCHANGED <<node, size>> /\ out' \in {<<>>, Error}
    BY <1>3 DEF LWrite
  <2>2. WriteFile
    BY <1>3 DEF LWrite
  <2>3. tex'.of \in 0 .. MaxWrites
    <3>1. CASE tex' = tex
      BY <3>1 DEF DocInv
    <3>2. CASE tex' # tex
      <4>1. tex'.of = tex.of + 1 /\ tex.of < MaxWrites
        BY <2>2, <3>2 DEF WriteFile
      <4>. QED
        BY <1>0, <4>1 DEF DocInv
    <3>. QED
      BY <3>1, <3>2
  <2>4. run' = NoRun
    BY <2>2 DEF WriteFile
  <2>. QED
    BY <2>1, <2>3, <2>4 DEF DocInv, OutIsText, RunNeedsFile
<1>4. CASE NextDocument
  <2>1. node' \in Trees /\ size' \in 0 .. MaxSize /\ out' = <<>>
    BY <1>0, <1>4, ScriptAssumption DEF NextDocument
  <2>2. UNCHANGED <<tex, run>>
    BY <1>4 DEF NextDocument, filevars
  <2>. QED
    BY <2>1, <2>2 DEF DocInv, OutIsText, RunNeedsFile
<1>5. CASE LCompile
  <2>1. UNCHANGED <<node, size, out, tex>> /\ (tex # NoFile \/ run' = NoRun)
    BY <1>5 DEF LCompile, docvars, Engine, Collect
  <2>2. OutIsText'
    BY <2>1 DEF DocInv, OutIsText
  <2>. QED
    BY <2>1, <2>2 DEF DocInv, RunNeedsFile
<1>6. CASE UNCHANGED vars
  <2>1. UNCHANGED <<node, size, out, tex, run>>
    BY <1>6 DEF vars, docvars, filevars
  <2>2. OutIsText'
    BY <2>1 DEF DocInv, OutIsText
  <2>. QED
    BY <2>1, <2>2 DEF DocInv, RunNeedsFile
<1>. QED
  BY <1>1, <1>2, <1>3, <1>4, <1>5, <1>6 DEF Next

LEMMA DocInvariant == Spec => []DocInv
<1>1. Init => DocInv
  BY DocInvInit
<1>2. DocInv /\ [Next]_vars => DocInv'
  BY DocInvStep
<1>. QED
  BY <1>1, <1>2, PTL DEF Spec

\* Whatever trees a script builds and renders, what happens to the files is what
\* FilesSpec allows (latex.lua 675-743).
LEMMA DocFiles == Spec => FilesSpec
<1>1. Init => FilesInit
  BY DEF Init
<1>2. ASSUME DocInv, [Next]_vars
      PROVE  [FilesNext]_<<node, filevars>>
  <2>1. CASE Construct
    <3>1. PICK ns : Build(ns)
      BY <2>1, ConstructBuilds
    <3>2. UNCHANGED filevars /\ run = NoRun
      BY <1>2, <3>1 DEF DocInv, RunNeedsFile, Build
    <3>. QED
      BY <3>2 DEF FilesNext, Script
  <2>2. CASE LRender
    BY <2>2 DEF LRender, FilesNext, Script
  <2>3. CASE LWrite
    BY <2>3 DEF LWrite, FilesNext
  <2>4. CASE NextDocument
    BY <2>4 DEF NextDocument, FilesNext, Script
  <2>5. CASE LCompile
    BY <2>5 DEF LCompile, docvars, FilesNext
  <2>6. CASE UNCHANGED vars
    BY <2>6 DEF vars, docvars
  <2>. QED
    BY <1>2, <2>1, <2>2, <2>3, <2>4, <2>5, <2>6 DEF Next
<1>. QED
  BY <1>1, <1>2, DocInvariant, PTL DEF Spec, FilesSpec

LEMMA OutLaid ==
  ASSUME DocInv
  PROVE  Laid(out)
<1>1. Laid(<<>>)
  BY DEF Laid
<1>2. Laid(Error)
  <2>1. DOMAIN Error = {1} /\ Error[1] = "error"
    BY DEF Error
  <2>. QED
    BY <2>1 DEF Laid, Indent
<1>3. ASSUME NEW indent \in BOOLEAN, out = Render(node, indent)
      PROVE  Laid(out)
  BY <1>3, RenderGoes, GoesLaid DEF DocInv
<1>. QED
  BY <1>1, <1>2, <1>3 DEF DocInv, OutIsText

\* In the text of every tree, each \item is the first on its line but for
\* indentation (README.md 134-135, latex.lua 247-253, 395).
THEOREM DocItems == Spec => []ItemsOnOwnLine
<1>1. DocInv => ItemsOnOwnLine
  <2>. SUFFICES ASSUME DocInv PROVE ItemsOnOwnLine
    OBVIOUS
  <2>1. Laid(out)
    BY OutLaid
  <2>. QED
    BY <2>1 DEF Laid, ItemsOnOwnLine
<1>. QED
  BY <1>1, DocInvariant, PTL

\* Types: whatever is built, rendered, written and compiled, a .log and what
\* L.compile reports are about a document that was written, and what L.render
\* returns has indentation at the start of lines, groups and cells only (latex.lua
\* 115-118, 675-743).
THEOREM DocType == Spec => []TypeOK
<1>1. ASSUME DocInv, FilesTypeOK PROVE TypeOK
  <2>1. Laid(out)
    BY <1>1, OutLaid
  <2>2. \A i \in DOMAIN out :
          out[i] = Indent => i = 1 \/ out[i - 1] \in {Newline, Indent, "{", "[", " & "}
    BY <2>1 DEF Laid
  <2>3. size \in 0 .. MaxSize /\ tex.of <= MaxWrites
    BY <1>1, BoundsAssumption DEF DocInv
  <2>. QED
    BY <1>1, <2>2, <2>3 DEF TypeOK
<1>. QED
  BY <1>1, DocInvariant, DocFiles, FilesType, PTL

\* A tree that L.render raises an error for leaves the file that is there as it
\* was, whatever the script builds (latex.lua 676-677).
THEOREM DocRaised == Spec => RaisedLeavesFile
BY DocFiles, FilesRaised, PTL

----------------------------------------------------------------------------
(* What TeX reads in a text, token by token.                               *)

\* The states of TeX on its way through the first n tokens of s.
Course(f, r, s, n) == f[0] = r /\ \A i \in 1 .. n : f[i] = Read(f[i - 1], s[i])

\* TeX goes on from every token to the next.
LEMMA CourseExists ==
  ASSUME NEW r, NEW s, NEW n \in Nat
  PROVE  \E f : Course(f, r, s, n)
<1>. DEFINE S == {i \in Nat : \E f : Course(f, r, s, i)}
<1>1. 0 \in S
  <2>. DEFINE f == [i \in {0} |-> r]
  <2>1. f[0] = r
    OBVIOUS
  <2>. HIDE DEF f
  <2>2. Course(f, r, s, 0)
    BY <2>1 DEF Course
  <2>. QED
    BY <2>2
<1>2. ASSUME NEW i \in S PROVE i + 1 \in S
  <2>1. PICK f : f[0] = r /\ \A j \in 1 .. i : f[j] = Read(f[j - 1], s[j])
    BY DEF Course
  <2>. DEFINE h == [j \in 0 .. i + 1 |-> IF j <= i THEN f[j] ELSE Read(f[i], s[i + 1])]
  <2>2. i \in Nat
    OBVIOUS
  <2>3. (\A j \in 0 .. i : h[j] = f[j]) /\ h[i + 1] = Read(f[i], s[i + 1])
    BY <2>2
  <2>. HIDE DEF h
  <2>4. ASSUME NEW j \in 1 .. i + 1 PROVE h[j] = Read(h[j - 1], s[j])
    <3>1. CASE j = i + 1
      <4>1. i \in 0 .. i /\ j - 1 = i
        BY <2>2, <3>1
      <4>. QED
        BY <2>3, <3>1, <4>1
    <3>2. CASE j # i + 1
      <4>1. j \in 1 .. i /\ j \in 0 .. i /\ j - 1 \in 0 .. i
        BY <2>2, <3>2
      <4>. QED
        BY <2>1, <2>3, <4>1
    <3>. QED
      BY <3>1, <3>2
  <2>5. h[0] = r
    <3>1. 0 \in 0 .. i
      BY <2>2
    <3>. QED
      BY <2>1, <2>3, <3>1
  <2>6. Course(h, r, s, i + 1)
    BY <2>4, <2>5 DEF Course
  <2>. QED
    BY <2>2, <2>6
<1>3. S = Nat
  <2>. HIDE DEF S
  <2>1. S \subseteq Nat
    BY DEF S
  <2>. QED
    BY <1>1, <1>2, <2>1, SetInduction
<1>. QED
  BY <1>3

\* It does so in one way.
LEMMA CourseIsOne ==
  ASSUME NEW r, NEW s, NEW n \in Nat, NEW f, NEW g, Course(f, r, s, n), Course(g, r, s, n)
  PROVE  f[n] = g[n]
<1>. DEFINE S == {i \in 0 .. n : f[i] = g[i]}
<1>1. 0 \in S
  BY DEF Course
<1>2. ASSUME NEW i \in 1 .. n, i - 1 \in S PROVE i \in S
  <2>1. f[i] = Read(f[i - 1], s[i]) /\ g[i] = Read(g[i - 1], s[i]) /\ i \in 0 .. n
    BY DEF Course
  <2>. QED
    BY <1>2, <2>1
<1>3. n \in S
  <2>. HIDE DEF S
  <2>1. \A i \in 0 .. n : i \in S
    BY <1>1, <1>2, Upward
  <2>. QED
    BY <2>1
<1>. QED
  BY <1>3

\* Where it gets is what ReadAll gives.
LEMMA ReadAllIs ==
  ASSUME NEW r, NEW s, Len(s) \in Nat, NEW g, Course(g, r, s, Len(s))
  PROVE  ReadAll(r, s) = g[Len(s)]
<1>. DEFINE Is(f) == f = [i \in 0 .. Len(s) |-> IF i = 0 THEN r ELSE Read(f[i - 1], s[i])]
<1>1. \E f : Is(f)
  <2>. DEFINE f == [i \in 0 .. Len(s) |-> g[i]]
  <2>2. \A i \in 0 .. Len(s) : f[i] = IF i = 0 THEN r ELSE Read(f[i - 1], s[i])
    <3>1. \A i \in 0 .. Len(s) : f[i] = g[i]
      OBVIOUS
    <3>2. \A i \in 0 .. Len(s) : i = 0 \/ (i \in 1 .. Len(s) /\ i - 1 \in 0 .. Len(s))
      OBVIOUS
    <3>. HIDE DEF f
    <3>. QED
      BY <3>1, <3>2 DEF Course
  <2>3. f = [i \in 0 .. Len(s) |-> f[i]]
    OBVIOUS
  <2>4. Is(f)
    <3>. HIDE DEF f
    <3>. QED
      BY <2>2, <2>3
  <2>. QED
    BY <2>4
<1>2. PICK f : f = (CHOOSE h : Is(h)) /\ Is(f)
  BY <1>1
<1>3. ReadAll(r, s) = f[Len(s)]
  BY <1>2 DEF ReadAll
<1>4. \A i \in 0 .. Len(s) : f[i] = IF i = 0 THEN r ELSE Read(f[i - 1], s[i])
  <2>. DEFINE h == [i \in 0 .. Len(s) |-> IF i = 0 THEN r ELSE Read(f[i - 1], s[i])]
  <2>1. f = h
    BY <1>2
  <2>2. \A i \in 0 .. Len(s) : h[i] = IF i = 0 THEN r ELSE Read(f[i - 1], s[i])
    OBVIOUS
  <2>. QED
    BY <2>1, <2>2, Zenon
<1>5. Course(f, r, s, Len(s))
  <2>1. 0 \in 0 .. Len(s) /\ \A i \in 1 .. Len(s) : i \in 0 .. Len(s) /\ i # 0
    OBVIOUS
  <2>. QED
    BY <1>4, <2>1 DEF Course
<1>. QED
  BY <1>3, <1>5, CourseIsOne

\* No token, one token, and one text after another.
LEMMA ReadNone ==
  ASSUME NEW r
  PROVE  ReadAll(r, <<>>) = r
<1>1. Len(<<>>) = 0
  OBVIOUS
<1>2. PICK f : Course(f, r, <<>>, 0)
  BY CourseExists
<1>3. ReadAll(r, <<>>) = f[0]
  BY <1>1, <1>2, ReadAllIs
<1>. QED
  BY <1>2, <1>3 DEF Course

LEMMA ReadOne ==
  ASSUME NEW r, NEW x
  PROVE  ReadAll(r, <<x>>) = Read(r, x)
<1>1. Len(<<x>>) = 1 /\ <<x>>[1] = x
  OBVIOUS
<1>2. PICK s : s = <<x>>
  OBVIOUS
<1>3. PICK f : Course(f, r, s, 1)
  BY CourseExists
<1>4. ReadAll(r, s) = f[1]
  BY <1>1, <1>2, <1>3, ReadAllIs
<1>5. f[0] = r /\ f[1] = Read(f[1 - 1], s[1]) /\ 1 - 1 = 0
  BY <1>3 DEF Course
<1>6. f[1] = Read(r, s[1])
  BY <1>5
<1>. QED
  BY <1>1, <1>2, <1>4, <1>6

LEMMA ReadMore ==
  ASSUME NEW T, NEW s \in Seq(T), NEW t \in Seq(T), NEW r
  PROVE  ReadAll(r, s \o t) = ReadAll(ReadAll(r, s), t)
<1>1. /\ Len(s \o t) = Len(s) + Len(t) /\ Len(s) \in Nat /\ Len(t) \in Nat
      /\ \A i \in 1 .. Len(s) : (s \o t)[i] = s[i]
      /\ \A i \in Len(s) + 1 .. Len(s) + Len(t) : (s \o t)[i] = t[i - Len(s)]
  BY JoinedSeqIs
<1>2. PICK m \in Nat, n \in Nat, u \in {s \o t} : m = Len(s) /\ n = Len(t) /\ u = s \o t
  BY <1>1
<1>3. PICK f : Course(f, r, s, m)
  BY CourseExists
<1>4. f[m] = ReadAll(r, s)
  BY <1>2, <1>3, ReadAllIs
<1>5. PICK g : Course(g, f[m], t, n)
  BY CourseExists
<1>6. g[n] = ReadAll(f[m], t)
  BY <1>2, <1>5, ReadAllIs
<1>7. PICK h : EndsWith(h, f, m, g, n)
  <2>1. f[m] = g[0]
    BY <1>5 DEF Course
  <2>. QED
    BY <2>1, EndToEnd
<1>8. ASSUME NEW i \in 1 .. m + n PROVE h[i] = Read(h[i - 1], u[i])
  <2>1. CASE i <= m
    <3>1. i \in 1 .. m /\ i \in 0 .. m /\ i - 1 \in 0 .. m
      BY <2>1
    <3>2. u[i] = s[i]
      BY <1>1, <1>2, <3>1
    <3>3. h[i] = f[i] /\ h[i - 1] = f[i - 1]
      BY <1>7, <3>1 DEF EndsWith
    <3>. QED
      BY <1>3, <3>1, <3>2, <3>3 DEF Course
  <2>2. CASE i > m
    <3>1. PICK j \in 1 .. n : i = m + j
      <4>1. i - m \in 1 .. n /\ i = m + (i - m)
        BY <2>2
      <4>. QED
        BY <4>1
    <3>2. i \in m + 1 .. m + n /\ i - m = j /\ i - 1 = m + (j - 1) /\ j \in 0 .. n /\ j - 1 \in 0 .. n
      BY <3>1
    <3>3. u[i] = t[j]
      BY <1>1, <1>2, <3>2
    <3>4. h[i] = g[j] /\ h[i - 1] = g[j - 1]
      BY <1>7, <3>1, <3>2 DEF EndsWith
    <3>. QED
      BY <1>5, <3>3, <3>4 DEF Course
  <2>. QED
    BY <2>1, <2>2
<1>9. h[0] = r /\ h[m + n] = g[n]
  <2>1. 0 \in 0 .. m /\ n \in 0 .. n
    OBVIOUS
  <2>. QED
    BY <1>3, <1>7, <2>1 DEF EndsWith, Course
<1>10. Course(h, r, u, Len(u)) /\ Len(u) = m + n
  BY <1>1, <1>2, <1>8, <1>9 DEF Course
<1>11. ReadAll(r, u) = h[m + n]
  <2>1. m + n \in Nat
    OBVIOUS
  <2>. QED
    BY <1>10, <2>1, ReadAllIs
<1>. QED
  BY <1>2, <1>4, <1>6, <1>9, <1>11

----------------------------------------------------------------------------
(* Texts in which TeX sees the same wherever they stand.                   *)

\* What TeX may see.
Sight == Token \cup {"opt[", "opt]", "\\bad"}

\* In a text, behind the name of a control sequence that could go on if w.
Amid(e, b, n, w) == [seen |-> e, mode |-> "text", may |-> b, opts |-> n, word |-> w]

AtText(e, b, n) == Amid(e, b, n, FALSE)

\* What r becomes when y is seen.
Saw(r, y) ==
  [seen |-> Append(r.seen, y), mode |-> r.mode, may |-> y \in TakesOption, opts |-> r.opts,
   word |-> y = "\\cmd"]

\* The fields of a state in a text.
LEMMA AmidIs ==
  ASSUME NEW e, NEW b, NEW n, NEW w
  PROVE  /\ Amid(e, b, n, w).mode = "text" /\ Amid(e, b, n, w).word = w
         /\ Amid(e, b, n, w).may = b /\ Amid(e, b, n, w).opts = n
         /\ Amid(e, b, n, w).seen = e
         /\ \A k : [Amid(e, b, n, w) EXCEPT !.opts = k] = Amid(e, b, k, w)
         /\ \A k : [Amid(e, b, n, w) EXCEPT !.word = k] = Amid(e, b, n, k)
BY DEF Amid

\* What a state in a text becomes.
LEMMA SawIs ==
  ASSUME NEW e, NEW b, NEW n, NEW w, NEW y, NEW c, NEW v, (y \in TakesOption) = c,
         (y = "\\cmd") = v
  PROVE  Saw(Amid(e, b, n, w), y) = Amid(Append(e, y), c, n, v)
BY DEF Amid, Saw

\* The branches of Read in a text.
LEMMA ReadSees ==
  ASSUME NEW r, r.mode = "text"
  PROVE  /\ \A x : /\ x \notin Spaces \cup {"%", "\\%", "[", "]", "\\begin{verbatim}"}
                   /\ x \notin Letters \/ ~r.word
                   => Read(r, x) = Saw(r, x)
         /\ ~r.word => \A x \in Spaces : Read(r, x) = [r EXCEPT !.word = FALSE]
         /\ ~r.word => Read(r, "%") = [r EXCEPT !.mode = "comment"]
         /\ ~r.word => Read(r, "\\%") = Saw(r, "%")
         /\ r.may /\ "[" \notin Letters => Read(r, "[") = [Saw(r, "opt[") EXCEPT !.opts = @ + 1]
         /\ r.opts > 0 /\ ~r.word => Read(r, "]") = [Saw(r, "opt]") EXCEPT !.opts = @ - 1]
         /\ ~r.word => Read(r, "\\begin{verbatim}")
                         = [Saw(r, "\\begin{verbatim}") EXCEPT !.mode = "verbatim"]
<1>1. \A x \in {"%", "\\%", "[", "]", "\\begin{verbatim}"} : x \notin Spaces
  BY DEF Spaces, Newline, Space, Indent
<1>2. ASSUME NEW x, x \notin Spaces \cup {"%", "\\%", "[", "]", "\\begin{verbatim}"},
             x \notin Letters \/ ~r.word
      PROVE  Read(r, x) = Saw(r, x)
  BY <1>2 DEF Read, Saw
<1>3. ASSUME NEW x \in Spaces, ~r.word PROVE Read(r, x) = [r EXCEPT !.word = FALSE]
  <2>1. x \notin {"%", "\\%", "[", "]", "\\begin{verbatim}"}
    BY <1>1
  <2>. QED
    BY <1>3, <2>1 DEF Read
<1>4. ~r.word => Read(r, "%") = [r EXCEPT !.mode = "comment"]
  BY <1>1 DEF Read
<1>5. ~r.word => Read(r, "\\%") = Saw(r, "%")
  BY <1>1 DEF Read, Saw
<1>6. r.may /\ "[" \notin Letters => Read(r, "[") = [Saw(r, "opt[") EXCEPT !.opts = @ + 1]
  BY <1>1 DEF Read, Saw
<1>7. r.opts > 0 /\ ~r.word => Read(r, "]") = [Saw(r, "opt]") EXCEPT !.opts = @ - 1]
  BY <1>1 DEF Read, Saw
<1>8. ~r.word => Read(r, "\\begin{verbatim}")
                   = [Saw(r, "\\begin{verbatim}") EXCEPT !.mode = "verbatim"]
  BY <1>1 DEF Read, Saw
<1>. QED
  BY <1>2, <1>3, <1>4, <1>5, <1>6, <1>7, <1>8

\* The texts in which TeX sees m, wherever they stand.
Says(m) ==
  {s \in Seq(Token) :
     /\ m \in Seq(Sight)
     /\ \A e \in Seq(Sight), b \in BOOLEAN, n \in Nat :
          \E c \in BOOLEAN : ReadAll(AtText(e, b, n), s) = AtText(e \o m, c, n)}

\* What is said, and what says it.
LEMMA SaysType ==
  ASSUME NEW m, NEW s \in Says(m)
  PROVE  s \in Seq(Token) /\ m \in Seq(Sight)
BY DEF Says

\* The definition, as a rule.
LEMMA SaysIt ==
  ASSUME NEW m \in Seq(Sight), NEW s \in Seq(Token),
         \A e \in Seq(Sight), b \in BOOLEAN, n \in Nat :
           \E c \in BOOLEAN : ReadAll(AtText(e, b, n), s) = AtText(e \o m, c, n)
  PROVE  s \in Says(m)
BY DEF Says

\* No text says nothing.
LEMMA SaysNone == <<>> \in Says(<<>>)
<1>1. <<>> \in Seq(Sight) /\ <<>> \in Seq(Token) /\ \A e \in Seq(Sight) : e \o <<>> = e
  BY NoText
<1>2. ASSUME NEW e \in Seq(Sight), NEW b \in BOOLEAN, NEW n \in Nat
      PROVE  \E c \in BOOLEAN : ReadAll(AtText(e, b, n), <<>>) = AtText(e \o <<>>, c, n)
  BY <1>1, ReadNone
<1>. QED
  BY <1>1, <1>2, SaysIt

\* The same for what is seen.
LEMMA SightsGroup ==
  \A a, x, y \in Seq(Sight) : (a \o x) \o y = a \o (x \o y)
BY ONLY ConcatThree

\* One text after another says one thing after another.
LEMMA SaysMore ==
  ASSUME NEW m, NEW k, NEW s \in Says(m), NEW t \in Says(k)
  PROVE  s \o t \in Says(m \o k)
<1>1. /\ s \in Seq(Token) /\ t \in Seq(Token) /\ m \in Seq(Sight) /\ k \in Seq(Sight)
      /\ s \o t \in Seq(Token) /\ m \o k \in Seq(Sight)
  BY SaysType, ConcatType
<1>2. ASSUME NEW e \in Seq(Sight), NEW b \in BOOLEAN, NEW n \in Nat
      PROVE  \E c \in BOOLEAN : ReadAll(AtText(e, b, n), s \o t) = AtText(e \o (m \o k), c, n)
  <2>1. PICK c \in BOOLEAN : ReadAll(AtText(e, b, n), s) = AtText(e \o m, c, n)
    BY DEF Says
  <2>2. e \o m \in Seq(Sight)
    BY <1>1, ConcatType
  <2>3. PICK d \in BOOLEAN : ReadAll(AtText(e \o m, c, n), t) = AtText((e \o m) \o k, d, n)
    BY <2>2 DEF Says
  <2>4. (e \o m) \o k = e \o (m \o k)
    BY <1>1, SightsGroup
  <2>5. ReadAll(AtText(e, b, n), s \o t) = ReadAll(ReadAll(AtText(e, b, n), s), t)
    BY <1>1, ReadMore
  <2>. QED
    BY <2>1, <2>3, <2>4, <2>5
<1>. QED
  BY <1>1, <1>2, SaysIt

\* Nothing is seen in a text put before or after.
LEMMA SaysBetween ==
  ASSUME NEW m, NEW s \in Says(m), NEW t \in Says(<<>>)
  PROVE  s \o t \in Says(m) /\ t \o s \in Says(m)
<1>1. m \in Seq(Sight)
  BY SaysType
<1>2. m \o <<>> = m /\ <<>> \o m = m
  BY <1>1, NoText
<1>. QED
  BY <1>2, SaysMore

\* Nothing is seen where there is no text.
LEMMA SaysNothing ==
  ASSUME NEW m, <<>> \in Says(m)
  PROVE  m = <<>>
<1>1. m \in Seq(Sight) /\ <<>> \in Seq(Sight) /\ <<>> \o m = m
  BY SaysType, NoText
<1>2. PICK c \in BOOLEAN : ReadAll(AtText(<<>>, TRUE, 0), <<>>) = AtText(<<>> \o m, c, 0)
  BY <1>1 DEF Says
<1>3. AtText(<<>>, TRUE, 0) = AtText(m, c, 0)
  BY <1>1, <1>2, ReadNone
<1>4. AtText(<<>>, TRUE, 0).seen = <<>> /\ AtText(m, c, 0).seen = m
  BY DEF AtText, Amid
<1>. QED
  BY <1>3, <1>4, Zenon

LEMMA SaysOne ==
  ASSUME NEW x \in Token, NEW y \in Sight,
         \A e, b, n : \E c \in BOOLEAN : Read(AtText(e, b, n), x) = AtText(Append(e, y), c, n)
  PROVE  <<x>> \in Says(<<y>>)
<1>1. /\ <<x>> \in Seq(Token) /\ <<y>> \in Seq(Sight)
      /\ \A e \in Seq(Sight) : e \o <<y>> = Append(e, y)
  BY OneText
<1>2. ASSUME NEW e \in Seq(Sight), NEW b \in BOOLEAN, NEW n \in Nat
      PROVE  \E c \in BOOLEAN : ReadAll(AtText(e, b, n), <<x>>) = AtText(e \o <<y>>, c, n)
  <2>1. PICK c \in BOOLEAN : Read(AtText(e, b, n), x) = AtText(Append(e, y), c, n)
    OBVIOUS
  <2>2. ReadAll(AtText(e, b, n), <<x>>) = AtText(Append(e, y), c, n)
    BY <2>1, ReadOne
  <2>3. e \o <<y>> = Append(e, y)
    BY <1>1
  <2>. QED
    BY <2>2, <2>3
<1>. QED
  BY <1>1, <1>2, SaysIt

\* Space says nothing.
LEMMA SpaceSays ==
  ASSUME NEW x \in Spaces
  PROVE  <<x>> \in Says(<<>>)
<1>1. x \in Token
  BY DEF Spaces, Token, Words
<1>2. <<x>> \in Seq(Token) /\ <<>> \in Seq(Sight) /\ \A e \in Seq(Sight) : e \o <<>> = e
  BY <1>1, OneText, NoText
<1>3. ASSUME NEW e, NEW b, NEW n PROVE Read(AtText(e, b, n), x) = AtText(e, b, n)
  <2>1. AtText(e, b, n).mode = "text" /\ ~AtText(e, b, n).word
    BY DEF AtText, Amid
  <2>2. [AtText(e, b, n) EXCEPT !.word = FALSE] = AtText(e, b, n)
    <3>1. PICK w : w = FALSE
      OBVIOUS
    <3>2. [Amid(e, b, n, w) EXCEPT !.word = w] = Amid(e, b, n, w)
      BY AmidIs
    <3>. QED
      BY <3>1, <3>2, Zenon DEF AtText
  <2>. QED
    BY <2>1, <2>2, ReadSees
<1>4. ASSUME NEW e \in Seq(Sight), NEW b \in BOOLEAN, NEW n \in Nat
      PROVE  \E c \in BOOLEAN : ReadAll(AtText(e, b, n), <<x>>) = AtText(e \o <<>>, c, n)
  BY <1>2, <1>3, ReadOne
<1>. QED
  BY <1>2, <1>4, SaysIt

\* What is seen as it is.
Ordinary == Token \ (Spaces \cup {"%", "\\%", "[", "]", "\\cmd", "\\begin{verbatim}"})

\* What is seen of one token in a text.
LEMMA TextSees ==
  ASSUME NEW e, NEW b, NEW n
  PROVE  /\ AtText(e, b, n).mode = "text" /\ ~AtText(e, b, n).word
         /\ AtText(e, b, n).opts = n
         /\ \A y : y # "\\cmd" => \E c \in BOOLEAN : Saw(AtText(e, b, n), y) = AtText(Append(e, y), c, n)
<1>1. ASSUME NEW y, y # "\\cmd"
      PROVE  \E c \in BOOLEAN : Saw(AtText(e, b, n), y) = AtText(Append(e, y), c, n)
  <2>1. PICK c \in BOOLEAN : c = (y \in TakesOption)
    <3>1. (y \in TakesOption) \in BOOLEAN
      OBVIOUS
    <3>. QED
      BY <3>1, Zenon
  <2>2. (y = "\\cmd") = FALSE
    BY <1>1
  <2>3. Saw(AtText(e, b, n), y)
          = [seen |-> Append(e, y), mode |-> "text", may |-> y \in TakesOption, opts |-> n,
             word |-> y = "\\cmd"]
    BY DEF Saw, AtText, Amid
  <2>. QED
    BY <2>1, <2>2, <2>3, Zenon DEF AtText, Amid
<1>2. /\ AtText(e, b, n).mode = "text" /\ ~AtText(e, b, n).word
      /\ AtText(e, b, n).opts = n
  BY DEF AtText, Amid
<1>. QED
  BY <1>1, <1>2, Zenon

\* An ordinary token says itself,
LEMMA OrdinarySays ==
  ASSUME NEW x \in Ordinary
  PROVE  <<x>> \in Says(<<x>>)
<1>1. x \in Token /\ x \in Sight
  BY DEF Ordinary, Sight
<1>2. ASSUME NEW e, NEW b, NEW n
      PROVE  \E c \in BOOLEAN : Read(AtText(e, b, n), x) = AtText(Append(e, x), c, n)
  <2>1. Read(AtText(e, b, n), x) = Saw(AtText(e, b, n), x)
    <3>1. PICK r : r = AtText(e, b, n)
      OBVIOUS
    <3>2. r.mode = "text" /\ ~r.word
      BY <3>1, TextSees
    <3>. QED
      BY <3>1, <3>2, ReadSees DEF Ordinary
  <2>2. x # "\\cmd"
    BY DEF Ordinary
  <2>. QED
    BY <2>1, <2>2, TextSees
<1>. QED
  BY <1>1, <1>2, SaysOne

\* an escaped one what it stands for,
LEMMA PercentSays == <<"\\%">> \in Says(<<"%">>)
<1>1. "\\%" \in Token /\ "%" \in Sight
  BY DEF Token, Words, Sight
<1>2. ASSUME NEW e, NEW b, NEW n
      PROVE  \E c \in BOOLEAN : Read(AtText(e, b, n), "\\%") = AtText(Append(e, "%"), c, n)
  <2>1. Read(AtText(e, b, n), "\\%") = Saw(AtText(e, b, n), "%")
    <3>1. PICK r : r = AtText(e, b, n)
      OBVIOUS
    <3>2. r.mode = "text" /\ ~r.word
      BY <3>1, TextSees
    <3>. QED
      BY <3>1, <3>2, ReadSees
  <2>. QED
    BY <2>1, TextSees
<1>. QED
  BY <1>1, <1>2, SaysOne

\* and a comment nothing.
LEMMA CommentSays == <<"%", Newline>> \in Says(<<>>)
<1>0. "%" \in Token /\ Newline \in Token
  BY DEF Token, Words
<1>1. <<"%", Newline>> = <<"%">> \o <<Newline>> /\ <<"%">> \in Seq(Token) /\ <<Newline>> \in Seq(Token)
  BY <1>0, TwoWords, OneText
<1>2. /\ <<"%", Newline>> \in Seq(Token) /\ <<>> \in Seq(Sight)
      /\ \A e \in Seq(Sight) : e \o <<>> = e
  BY <1>1, ConcatType, NoText
<1>3. ASSUME NEW e, NEW b, NEW n
      PROVE  Read(Read(AtText(e, b, n), "%"), Newline) = AtText(e, b, n)
  <2>1. Read(AtText(e, b, n), "%") = [AtText(e, b, n) EXCEPT !.mode = "comment"]
    <3>1. PICK r : r = AtText(e, b, n)
      OBVIOUS
    <3>2. r.mode = "text" /\ ~r.word
      BY <3>1, TextSees
    <3>. QED
      BY <3>1, <3>2, ReadSees
  <2>2. PICK r : r = [seen |-> e, mode |-> "comment", may |-> b, opts |-> n, word |-> FALSE]
    OBVIOUS
  <2>3. Read(AtText(e, b, n), "%") = r
    <3>1. PICK w : w = FALSE
      OBVIOUS
    <3>2. [Amid(e, b, n, w) EXCEPT !.mode = "comment"]
            = [seen |-> e, mode |-> "comment", may |-> b, opts |-> n, word |-> w]
      BY DEF Amid
    <3>. QED
      BY <2>1, <2>2, <3>1, <3>2, Zenon DEF AtText
  <2>4. r.mode = "comment"
    BY <2>2
  <2>5. Read(r, Newline) = [r EXCEPT !.mode = "text"]
    BY <2>4 DEF Read
  <2>6. [r EXCEPT !.mode = "text"] = AtText(e, b, n)
    <3>1. PICK w : w = FALSE
      OBVIOUS
    <3>2. [[seen |-> e, mode |-> "comment", may |-> b, opts |-> n, word |-> w]
              EXCEPT !.mode = "text"]
            = [seen |-> e, mode |-> "text", may |-> b, opts |-> n, word |-> w]
      OBVIOUS
    <3>. QED
      BY <2>2, <3>1, <3>2, Zenon DEF AtText, Amid
  <2>. QED
    BY <2>3, <2>5, <2>6
<1>4. ASSUME NEW e \in Seq(Sight), NEW b \in BOOLEAN, NEW n \in Nat
      PROVE  \E c \in BOOLEAN : ReadAll(AtText(e, b, n), <<"%", Newline>>) = AtText(e \o <<>>, c, n)
  <2>1. ReadAll(AtText(e, b, n), <<"%", Newline>>)
          = ReadAll(ReadAll(AtText(e, b, n), <<"%">>), <<Newline>>)
    <3>. DEFINE x == <<"%">>
                y == <<Newline>>
    <3>1. x \in Seq(Token) /\ y \in Seq(Token) /\ <<"%", Newline>> = x \o y
      BY <1>1
    <3>. HIDE DEF x, y
    <3>2. ReadAll(AtText(e, b, n), x \o y) = ReadAll(ReadAll(AtText(e, b, n), x), y)
      BY <3>1, ReadMore
    <3>. QED
      BY <3>1, <3>2 DEF x, y
  <2>2. ReadAll(AtText(e, b, n), <<"%", Newline>>) = AtText(e, b, n)
    BY <1>3, <2>1, ReadOne
  <2>. QED
    BY <1>2, <2>2
<1>. QED
  BY <1>2, <1>4, SaysIt

----------------------------------------------------------------------------
(* Options, and the name of a command.                                     *)

\* A token that may have an option, and the brackets of one.
LEMMA HeadIsRead ==
  ASSUME NEW x \in TakesOption, NEW e, NEW b, NEW n
  PROVE  \E r : /\ Read(AtText(e, b, n), x) = r /\ r.mode = "text" /\ r.may
               /\ r.seen = Append(e, x) /\ r.opts = n
<1>1. x \notin Spaces \cup {"%", "\\%", "[", "]", "\\begin{verbatim}"}
  BY DEF TakesOption, Spaces, Newline, Space, Indent
<1>2. PICK r : r = AtText(e, b, n)
  OBVIOUS
<1>3. r.mode = "text" /\ ~r.word /\ r.opts = n /\ r.seen = e
  BY <1>2, TextSees DEF AtText, Amid
<1>4. Read(r, x) = Saw(r, x)
  BY <1>1, <1>3, ReadSees
<1>5. Saw(r, x).mode = r.mode /\ Saw(r, x).may /\ Saw(r, x).seen = Append(r.seen, x) /\ Saw(r, x).opts = r.opts
  BY DEF Saw
<1>. QED
  BY <1>2, <1>3, <1>4, <1>5

\* An event that is no command leaves TeX in the text.
LEMMA SawText ==
  ASSUME NEW r, r.mode = "text", NEW y, y # "\\cmd"
  PROVE  \E c \in BOOLEAN : Saw(r, y) = AtText(Append(r.seen, y), c, r.opts)
<1>1. PICK c \in BOOLEAN : c = (y \in TakesOption)
  <2>1. (y \in TakesOption) \in BOOLEAN
    OBVIOUS
  <2>. QED
    BY <2>1, Zenon
<1>2. (y = "\\cmd") = FALSE
  OBVIOUS
<1>3. Saw(r, y)
        = [seen |-> Append(r.seen, y), mode |-> r.mode, may |-> c, opts |-> r.opts, word |-> FALSE]
  BY <1>1, <1>2, Zenon DEF Saw
<1>. QED
  BY <1>3, Zenon DEF AtText, Amid

\* The options that are open.
LEMMA OptsIs ==
  ASSUME NEW e, NEW b, NEW n, NEW k
  PROVE  AtText(e, b, n).opts = n /\ [AtText(e, b, n) EXCEPT !.opts = k] = AtText(e, b, k)
<1>1. PICK w : w = FALSE
  OBVIOUS
<1>2. Amid(e, b, n, w).opts = n /\ [Amid(e, b, n, w) EXCEPT !.opts = k] = Amid(e, b, k, w)
  BY AmidIs
<1>. QED
  BY <1>1, <1>2, Zenon DEF AtText

\* A bracket opens an option where one may be,
LEMMA BracketIsRead ==
  ASSUME NEW r, r.mode = "text", r.may
  PROVE  \E c \in BOOLEAN : Read(r, "[") = AtText(Append(r.seen, "opt["), c, r.opts + 1)
<1>1. "[" \notin Letters
  BY TokensAssumption
<1>4. Read(r, "[") = [Saw(r, "opt[") EXCEPT !.opts = @ + 1]
  BY <1>1, ReadSees
<1>5. PICK c \in BOOLEAN : Saw(r, "opt[") = AtText(Append(r.seen, "opt["), c, r.opts)
  BY SawText
<1>6. PICK q : q = AtText(Append(r.seen, "opt["), c, r.opts)
  OBVIOUS
<1>7. q.opts = r.opts /\ \A k : [q EXCEPT !.opts = k] = AtText(Append(r.seen, "opt["), c, k)
  BY <1>6, OptsIs
<1>8. Read(r, "[") = [q EXCEPT !.opts = q.opts + 1]
  BY <1>4, <1>5, <1>6, Zenon
<1>. QED
  BY <1>7, <1>8

\* and one closes it.
LEMMA CloserIsRead ==
  ASSUME NEW e, NEW b, NEW n \in Nat
  PROVE  \E c \in BOOLEAN : Read(AtText(e, b, n + 1), "]") = AtText(Append(e, "opt]"), c, n)
<1>2. PICK r : r = AtText(e, b, n + 1)
  OBVIOUS
<1>3. r.mode = "text" /\ ~r.word /\ r.opts = n + 1 /\ r.seen = e
  BY <1>2, TextSees DEF AtText, Amid
<1>4. Read(r, "]") = [Saw(r, "opt]") EXCEPT !.opts = @ - 1]
  <2>1. r.opts > 0
    BY <1>3
  <2>. QED
    BY <1>3, <2>1, ReadSees
<1>5. PICK c \in BOOLEAN : Saw(r, "opt]") = AtText(Append(r.seen, "opt]"), c, r.opts)
  BY <1>3, SawText
<1>6. PICK q : q = AtText(Append(r.seen, "opt]"), c, r.opts)
  OBVIOUS
<1>7. q.opts = n + 1 /\ \A k : [q EXCEPT !.opts = k] = AtText(Append(r.seen, "opt]"), c, k)
  BY <1>3, <1>6, OptsIs
<1>8. Read(r, "]") = [q EXCEPT !.opts = q.opts - 1]
  BY <1>4, <1>5, <1>6, Zenon
<1>9. q.opts - 1 = n
  BY <1>7
<1>. QED
  BY <1>2, <1>3, <1>7, <1>8, <1>9

\* Two tokens are read one after the other.
LEMMA TwoRead ==
  ASSUME NEW x \in Token, NEW y \in Token, NEW r
  PROVE  /\ <<x, y>> \in Seq(Token)
         /\ ReadAll(r, <<x, y>>) = Read(Read(r, x), y)
<1>. DEFINE a == <<x>>
            b == <<y>>
<1>1. a \in Seq(Token) /\ b \in Seq(Token) /\ <<x, y>> = a \o b
  BY TwoWords, OneText
<1>2. ReadAll(r, a) = Read(r, x) /\ ReadAll(Read(r, x), b) = Read(Read(r, x), y)
  BY ReadOne
<1>. HIDE DEF a, b
<1>3. ReadAll(r, a \o b) = ReadAll(ReadAll(r, a), b) /\ a \o b \in Seq(Token)
  BY <1>1, ReadMore, ConcatType
<1>. QED
  BY <1>1, <1>2, <1>3

\* The name of a command ends with the brace behind it.
LEMMA CmdSays == <<"\\cmd", "{">> \in Says(<<"\\cmd", "{">>)
<1>1. "\\cmd" \in Token /\ "{" \in Token /\ "\\cmd" \in Sight /\ "{" \in Sight
  BY DEF Token, Words, Sight
<1>2. /\ <<"\\cmd", "{">> \in Seq(Token) /\ <<"\\cmd", "{">> \in Seq(Sight)
      /\ \A e \in Seq(Sight) : Append(Append(e, "\\cmd"), "{") = e \o <<"\\cmd", "{">>
      /\ \A r : ReadAll(r, <<"\\cmd", "{">>) = Read(Read(r, "\\cmd"), "{")
  BY <1>1, TwoRead, TwoSeen
<1>3. ASSUME NEW r, r.mode = "text"
      PROVE  \E c \in BOOLEAN : Read(r, "{") = AtText(Append(r.seen, "{"), c, r.opts)
  <2>1. /\ "{" \notin Spaces \cup {"%", "\\%", "[", "]", "\\begin{verbatim}"}
        /\ "{" \notin Letters
    BY TokensAssumption DEF Spaces, Newline, Space, Indent
  <2>2. Read(r, "{") = Saw(r, "{")
    BY <1>3, <2>1, ReadSees
  <2>. QED
    BY <1>3, <2>2, SawText
<1>4. ASSUME NEW e \in Seq(Sight), NEW b \in BOOLEAN, NEW n \in Nat
      PROVE  \E c \in BOOLEAN : ReadAll(AtText(e, b, n), <<"\\cmd", "{">>)
                                  = AtText(e \o <<"\\cmd", "{">>, c, n)
  <2>1. PICK r : /\ Read(AtText(e, b, n), "\\cmd") = r /\ r.mode = "text"
                 /\ r.seen = Append(e, "\\cmd") /\ r.opts = n
    <3>1. "\\cmd" \in TakesOption
      BY DEF TakesOption
    <3>. QED
      BY <3>1, HeadIsRead
  <2>2. PICK c \in BOOLEAN : Read(r, "{") = AtText(Append(r.seen, "{"), c, r.opts)
    BY <1>3, <2>1
  <2>. QED
    BY <1>2, <2>1, <2>2
<1>. QED
  BY <1>2, <1>4, SaysIt

\* An option behind a token that may have one says what is in it.
LEMMA OptionSays ==
  ASSUME NEW x \in TakesOption, NEW m, NEW s \in Says(m)
  PROVE  <<x, "[">> \o s \o <<"]">> \in Says(<<x, "opt[">> \o m \o <<"opt]">>)
<1>1. /\ x \in Token /\ x \in Sight /\ "[" \in Token /\ "]" \in Token
      /\ "opt[" \in Sight /\ "opt]" \in Sight
  BY DEF TakesOption, Token, Words, Sight
<1>2. PICK u, v, z, y : u = <<x, "[">> /\ v = <<"]">> /\ z = <<x, "opt[">> /\ y = <<"opt]">>
  OBVIOUS
<1>3. /\ u \in Seq(Token) /\ \A r : ReadAll(r, u) = Read(Read(r, x), "[")
  BY <1>1, <1>2, TwoRead
<1>4. /\ z \in Seq(Sight) /\ \A e \in Seq(Sight) : Append(Append(e, x), "opt[") = e \o z
  BY <1>1, <1>2, TwoSeen
<1>5. /\ v \in Seq(Token) /\ \A r : ReadAll(r, v) = Read(r, "]")
  BY <1>1, <1>2, OneText, ReadOne
<1>6. /\ y \in Seq(Sight) /\ \A e \in Seq(Sight) : Append(e, "opt]") = e \o y
  BY <1>1, <1>2, OneText
<1>7. s \in Seq(Token) /\ m \in Seq(Sight)
  BY SaysType
<1>8. u \o s \in Seq(Token) /\ u \o s \o v \in Seq(Token) /\ z \o m \in Seq(Sight) /\ z \o m \o y \in Seq(Sight)
  BY <1>3, <1>4, <1>5, <1>6, <1>7, ConcatType
<1>9. ASSUME NEW e \in Seq(Sight), NEW b \in BOOLEAN, NEW n \in Nat
      PROVE  \E c \in BOOLEAN : ReadAll(AtText(e, b, n), u \o s \o v) = AtText(e \o (z \o m \o y), c, n)
  <2>1. PICK a \in BOOLEAN : ReadAll(AtText(e, b, n), u) = AtText(e \o z, a, n + 1)
    <3>1. PICK r : /\ Read(AtText(e, b, n), x) = r /\ r.mode = "text" /\ r.may
                   /\ r.seen = Append(e, x) /\ r.opts = n
      BY HeadIsRead
    <3>2. PICK a \in BOOLEAN : Read(r, "[") = AtText(Append(r.seen, "opt["), a, r.opts + 1)
      BY <3>1, BracketIsRead
    <3>3. Append(Append(e, x), "opt[") = e \o z
      BY <1>4
    <3>4. ReadAll(AtText(e, b, n), u) = Read(r, "[")
      BY <1>3, <3>1
    <3>5. Read(r, "[") = AtText(e \o z, a, n + 1)
      BY <3>1, <3>2, <3>3, Zenon
    <3>. QED
      BY <3>4, <3>5
  <2>2. e \o z \in Seq(Sight) /\ n + 1 \in Nat
    BY <1>4, ConcatType
  <2>3. PICK c \in BOOLEAN : ReadAll(AtText(e \o z, a, n + 1), s) = AtText((e \o z) \o m, c, n + 1)
    BY <2>2 DEF Says
  <2>4. (e \o z) \o m \in Seq(Sight)
    BY <1>7, <2>2, ConcatType
  <2>5. PICK d \in BOOLEAN :
          ReadAll(AtText((e \o z) \o m, c, n + 1), v) = AtText(((e \o z) \o m) \o y, d, n)
    <3>1. PICK d \in BOOLEAN : Read(AtText((e \o z) \o m, c, n + 1), "]")
                                 = AtText(Append((e \o z) \o m, "opt]"), d, n)
      BY CloserIsRead
    <3>. QED
      BY <1>5, <1>6, <2>4, <3>1
  <2>6. ((e \o z) \o m) \o y = e \o (z \o m \o y)
    <3>1. (e \o z) \o m = e \o (z \o m) /\ (e \o (z \o m)) \o y = e \o ((z \o m) \o y)
      <4>1. /\ e \in Seq(Sight) /\ z \in Seq(Sight) /\ m \in Seq(Sight) /\ y \in Seq(Sight)
            /\ z \o m \in Seq(Sight)
        BY <1>4, <1>6, <1>7, <1>8
      <4>2. (e \o z) \o m = e \o (z \o m)
        BY ONLY <4>1, SightsGroup
      <4>3. (e \o (z \o m)) \o y = e \o ((z \o m) \o y)
        BY ONLY <4>1, SightsGroup
      <4>. QED
        BY ONLY <4>2, <4>3
    <3>. QED
      BY <3>1
  <2>7. ReadAll(AtText(e, b, n), u \o s \o v)
          = ReadAll(ReadAll(ReadAll(AtText(e, b, n), u), s), v)
    <3>1. \A r : ReadAll(r, (u \o s) \o v) = ReadAll(ReadAll(r, u \o s), v)
      BY <1>5, <1>8, ReadMore
    <3>2. \A r : ReadAll(r, u \o s) = ReadAll(ReadAll(r, u), s)
      BY <1>3, <1>7, ReadMore
    <3>. QED
      BY <3>1, <3>2
  <2>. QED
    BY <2>1, <2>3, <2>5, <2>6, <2>7
<1>10. u \o s \o v \in Says(z \o m \o y)
  BY <1>8, <1>9, SaysIt
<1>. QED
  BY <1>2, <1>10

----------------------------------------------------------------------------
(* Strings and raw text.                                                   *)

\* A text whose tokens each say what they stand for.
LEMMA EachSays ==
  ASSUME NEW s \in Seq(Token), NEW ms \in Lists(Sight), Len(ms) = Len(s),
         \A i \in 1 .. Len(s) : <<s[i]>> \in Says(ms[i])
  PROVE  s \in Says(FlattenSeq(ms))
<1>0. Len(s) \in Nat
  BY IsSeq
<1>1. PICK f : /\ f[0] = <<>> /\ f[Len(ms)] = FlattenSeq(ms)
               /\ \A i \in 1 .. Len(ms) : f[i] = f[i - 1] \o ms[i]
  BY FlattenSteps
<1>2. PICK p : /\ p[0] = <<>> /\ p[Len(s)] = s
               /\ \A i \in 1 .. Len(s) : p[i] = p[i - 1] \o <<s[i]>>
  <2>. DEFINE p == [i \in 0 .. Len(s) |-> SubSeq(s, 1, i)]
  <2>1. \A i \in 0 .. Len(s) : p[i] = SubSeq(s, 1, i)
    OBVIOUS
  <2>2. /\ 0 \in 0 .. Len(s) /\ Len(s) \in 0 .. Len(s)
        /\ \A i \in 1 .. Len(s) : i \in 0 .. Len(s) /\ i - 1 \in 0 .. Len(s)
    BY <1>0
  <2>. HIDE DEF p
  <2>3. /\ SubSeq(s, 1, 0) = <<>> /\ SubSeq(s, 1, Len(s)) = s
        /\ \A i \in 1 .. Len(s) : SubSeq(s, 1, i) = SubSeq(s, 1, i - 1) \o <<s[i]>>
    BY PrefixIs
  <2>4. /\ p[0] = <<>> /\ p[Len(s)] = s
        /\ \A i \in 1 .. Len(s) : p[i] = p[i - 1] \o <<s[i]>>
    BY <2>1, <2>2, <2>3, Zenon
  <2>. QED
    BY <2>4
<1>. DEFINE S == {i \in 0 .. Len(s) : p[i] \in Says(f[i])}
<1>3. 0 \in S
  <2>1. 0 \in 0 .. Len(s)
    BY <1>0
  <2>. QED
    BY <1>1, <1>2, <2>1, SaysNone
<1>4. ASSUME NEW i \in 1 .. Len(s), i - 1 \in S PROVE i \in S
  <2>1. i \in 0 .. Len(s) /\ p[i - 1] \in Says(f[i - 1])
    BY <1>0, <1>4
  <2>2. p[i] = p[i - 1] \o <<s[i]>> /\ f[i] = f[i - 1] \o ms[i]
    BY <1>1, <1>2
  <2>3. p[i - 1] \o <<s[i]>> \in Says(f[i - 1] \o ms[i])
    BY <2>1, SaysMore
  <2>. QED
    BY <2>1, <2>2, <2>3
<1>5. Len(s) \in S
  <2>. HIDE DEF S
  <2>1. \A i \in 0 .. Len(s) : i \in S
    BY <1>0, <1>3, <1>4, Upward
  <2>. QED
    BY <1>0, <2>1
<1>. QED
  BY <1>1, <1>2, <1>5

\* Ordinary tokens say themselves.
LEMMA OrdinaryText ==
  ASSUME NEW s \in Seq(Ordinary)
  PROVE  s \in Says(s)
<1>0. Ordinary \subseteq Token /\ Ordinary \subseteq Sight
  BY DEF Ordinary, Sight
<1>1. s \in Seq(Token) /\ s \in Seq(Sight) /\ Len(s) \in Nat /\ \A i \in 1 .. Len(s) : s[i] \in Ordinary
  BY <1>0, SeqWider, IsSeq
<1>. DEFINE ms == [i \in DOMAIN s |-> <<s[i]>>]
            T == Seq(Sight)
<1>2. DOMAIN ms = DOMAIN s /\ ms = [i \in DOMAIN ms |-> ms[i]]
  BY Zenon
<1>3. \A i \in 1 .. Len(s) : ms[i] = <<s[i]>>
  BY <1>1
<1>. HIDE DEF ms
<1>4. \A i \in 1 .. Len(s) : ms[i] \in T
  BY <1>0, <1>1, <1>3, OneText
<1>. HIDE DEF T
<1>5. ms \in Seq(T) /\ Len(ms) = Len(s)
  BY <1>2, <1>4, MapIs
<1>6. ms \in Lists(Sight)
  BY <1>5 DEF Lists, T
<1>7. FlattenSeq(ms) = s
  BY <1>1, <1>3, <1>5, <1>6, FlattenSingles
<1>8. s \in Says(FlattenSeq(ms))
  <2>1. \A i \in 1 .. Len(s) : <<s[i]>> \in Says(ms[i])
    BY <1>1, <1>3, OrdinarySays
  <2>. QED
    BY <1>1, <1>5, <1>6, <2>1, EachSays
<1>. QED
  BY <1>7, <1>8

\* A string, with its special characters escaped or, if it has none, as it is.
LEMMA StringSays ==
  ASSUME NEW s \in Seq(Chars), ToSet(s) \cap {"[", "]"} = {}
  PROVE  /\ Escape(s) \in Says(Seen(s))
         /\ "%" \notin ToSet(s) => s \in Says(Seen(s))
<1>0. Chars \subseteq Token /\ Chars \subseteq Sight /\ "\\%" \in Token
  BY DEF Token, Sight, Words
<1>1. /\ s \in Seq(Token) /\ Len(s) \in Nat /\ DOMAIN s = 1 .. Len(s)
      /\ \A i \in 1 .. Len(s) : s[i] \in Chars /\ s[i] \in ToSet(s)
  BY <1>0, SeqWider, IsSeq DEF ToSet
<1>. DEFINE ms == [i \in DOMAIN s |-> IF s[i] \in Spaces THEN <<>> ELSE <<s[i]>>]
            es == [i \in DOMAIN s |-> IF s[i] = "%" THEN "\\%" ELSE s[i]]
            T == Seq(Sight)
<1>2. /\ DOMAIN ms = DOMAIN s /\ ms = [i \in DOMAIN ms |-> ms[i]]
      /\ DOMAIN es = DOMAIN s /\ es = [i \in DOMAIN es |-> es[i]]
      /\ Seen(s) = FlattenSeq(ms) /\ Escape(s) = es
  BY Zenon DEF Seen, Escape
<1>3. \A i \in 1 .. Len(s) : /\ s[i] \in Spaces => ms[i] = <<>>
                             /\ s[i] \notin Spaces => ms[i] = <<s[i]>>
                             /\ s[i] = "%" => es[i] = "\\%"
                             /\ s[i] # "%" => es[i] = s[i]
  BY <1>1
<1>. HIDE DEF ms, es
<1>4. ASSUME NEW i \in 1 .. Len(s) PROVE ms[i] \in T /\ es[i] \in Token
  <2>1. s[i] \in Sight /\ s[i] \in Token
    BY <1>0, <1>1
  <2>2. <<>> \in T /\ <<s[i]>> \in T
    BY <2>1, OneText, NoText
  <2>. HIDE DEF T
  <2>3. ms[i] \in T
    BY <1>3, <2>2
  <2>4. es[i] \in Token
    BY <1>0, <1>3, <2>1
  <2>. QED
    BY <2>3, <2>4
<1>. HIDE DEF T
<1>5. ms \in Seq(T) /\ Len(ms) = Len(s) /\ es \in Seq(Token) /\ Len(es) = Len(s)
  BY <1>1, <1>2, <1>4, MapIs
<1>6. ms \in Lists(Sight)
  BY <1>5 DEF Lists, T
<1>7. ASSUME NEW i \in 1 .. Len(s)
      PROVE  /\ <<es[i]>> \in Says(ms[i])
             /\ s[i] # "%" => <<s[i]>> \in Says(ms[i])
  <2>1. CASE s[i] = "%"
    <3>1. "%" \notin Spaces
      BY DEF Spaces, Newline, Space, Indent
    <3>. QED
      BY <1>3, <2>1, <3>1, PercentSays
  <2>2. CASE s[i] \in Spaces
    <3>1. s[i] # "%"
      BY <2>2 DEF Spaces, Newline, Space, Indent
    <3>. QED
      BY <1>3, <2>2, <3>1, SpaceSays
  <2>3. CASE s[i] \notin Spaces /\ s[i] # "%"
    <3>1. s[i] \in Ordinary
      BY <1>0, <1>1, <2>3, TokensAssumption DEF Ordinary, Marks
    <3>. QED
      BY <1>3, <2>3, <3>1, OrdinarySays
  <2>. QED
    BY <2>1, <2>2, <2>3
<1>8. Escape(s) \in Says(Seen(s))
  BY <1>2, <1>5, <1>6, <1>7, EachSays
<1>9. ASSUME "%" \notin ToSet(s) PROVE s \in Says(Seen(s))
  <2>1. \A i \in 1 .. Len(s) : <<s[i]>> \in Says(ms[i])
    BY <1>1, <1>7, <1>9
  <2>. QED
    BY <1>1, <1>2, <1>5, <1>6, <2>1, EachSays
<1>. QED
  BY <1>8, <1>9

----------------------------------------------------------------------------
(* Verbatim text.                                                          *)

\* In a verbatim, where everything is kept but its end.
InVerbatim(e, b, n) == [seen |-> e, mode |-> "verbatim", may |-> b, opts |-> n, word |-> FALSE]

Verbal == Token \ {"\\end{verbatim}"}

LEMMA VerbatimReads ==
  ASSUME NEW e, NEW b, NEW n
  PROVE  /\ \A x : x # "\\end{verbatim}" =>
               Read(InVerbatim(e, b, n), x) = InVerbatim(Append(e, x), b, n)
         /\ Read(InVerbatim(e, b, n), "\\end{verbatim}")
              = AtText(Append(e, "\\end{verbatim}"), b, n)
<1>1. PICK w : w = FALSE
  OBVIOUS
<1>2. PICK r : r = [seen |-> e, mode |-> "verbatim", may |-> b, opts |-> n, word |-> w]
  OBVIOUS
<1>3. r = InVerbatim(e, b, n)
  BY <1>1, <1>2, Zenon DEF InVerbatim
<1>4. r.mode = "verbatim"
  BY <1>2
<1>5. ASSUME NEW x
      PROVE  Read(r, x) = [seen |-> Append(e, x), may |-> b, opts |-> n, word |-> w,
                           mode |-> IF x = "\\end{verbatim}" THEN "text" ELSE "verbatim"]
  <2>1. Read(r, x) = [r EXCEPT !.seen = Append(@, x),
                               !.mode = IF x = "\\end{verbatim}" THEN "text" ELSE @]
    BY <1>4 DEF Read
  <2>. QED
    BY <1>2, <2>1
<1>6. ASSUME NEW x, x # "\\end{verbatim}"
      PROVE  Read(r, x) = InVerbatim(Append(e, x), b, n)
  <2>1. Read(r, x) = [seen |-> Append(e, x), mode |-> "verbatim", may |-> b, opts |-> n, word |-> w]
    BY <1>5, <1>6
  <2>. QED
    BY <1>1, <2>1, Zenon DEF InVerbatim
<1>7. Read(r, "\\end{verbatim}") = AtText(Append(e, "\\end{verbatim}"), b, n)
  <2>1. Read(r, "\\end{verbatim}")
          = [seen |-> Append(e, "\\end{verbatim}"), mode |-> "text", may |-> b, opts |-> n, word |-> w]
    BY <1>5
  <2>. QED
    BY <1>1, <2>1, Zenon DEF AtText, Amid
<1>. QED
  BY <1>3, <1>6, <1>7

\* A text without the end of a verbatim is seen as it is in one.
LEMMA VerbalIsKept ==
  ASSUME NEW s \in Seq(Verbal), NEW e \in Seq(Sight), NEW b, NEW n
  PROVE  ReadAll(InVerbatim(e, b, n), s) = InVerbatim(e \o s, b, n)
<1>0. Verbal \subseteq Sight
  BY DEF Verbal, Sight
<1>1. s \in Seq(Sight) /\ Len(s) \in Nat /\ \A i \in 1 .. Len(s) : s[i] \in Verbal
  BY <1>0, SeqWider, IsSeq
<1>. DEFINE p(i) == SubSeq(s, 1, i)
            g == [i \in 0 .. Len(s) |-> InVerbatim(e \o p(i), b, n)]
<1>2. /\ p(0) = <<>> /\ p(Len(s)) = s
      /\ \A i \in 1 .. Len(s) : p(i) = p(i - 1) \o <<s[i]>>
      /\ \A i \in 0 .. Len(s) : p(i) \in Seq(Sight)
  BY <1>1, PrefixIs
<1>. HIDE DEF p
<1>3. \A i \in 0 .. Len(s) : g[i] = InVerbatim(e \o p(i), b, n)
  BY Zenon
<1>. HIDE DEF g
<1>4. ASSUME NEW i \in 1 .. Len(s) PROVE g[i] = Read(g[i - 1], s[i])
  <2>1. i \in 0 .. Len(s) /\ i - 1 \in 0 .. Len(s)
    BY <1>1
  <2>2. /\ p(i - 1) \in Seq(Sight) /\ <<s[i]>> \in Seq(Sight) /\ e \o p(i - 1) \in Seq(Sight)
        /\ \A d \in Seq(Sight) : d \o <<s[i]>> = Append(d, s[i])
    BY <1>0, <1>1, <1>2, <2>1, OneText, ConcatType
  <2>3. e \o p(i) = Append(e \o p(i - 1), s[i])
    <3>1. p(i) = p(i - 1) \o <<s[i]>>
      BY <1>2
    <3>2. (e \o p(i - 1)) \o <<s[i]>> = e \o (p(i - 1) \o <<s[i]>>)
      BY <2>2, SightsGroup
    <3>. QED
      BY <2>2, <3>1, <3>2
  <2>4. s[i] # "\\end{verbatim}"
    BY <1>1 DEF Verbal
  <2>5. g[i] = InVerbatim(e \o p(i), b, n) /\ g[i - 1] = InVerbatim(e \o p(i - 1), b, n)
    BY <1>3, <2>1
  <2>6. PICK d : d = e \o p(i - 1)
    OBVIOUS
  <2>7. Read(InVerbatim(d, b, n), s[i]) = InVerbatim(Append(d, s[i]), b, n)
    <3>2. \A y : y # "\\end{verbatim}" =>
               Read(InVerbatim(d, b, n), y) = InVerbatim(Append(d, y), b, n)
      BY VerbatimReads
    <3>. QED
      BY <2>4, <3>2
  <2>. QED
    BY <2>3, <2>5, <2>6, <2>7
<1>5. Course(g, InVerbatim(e, b, n), s, Len(s))
  <2>1. 0 \in 0 .. Len(s) /\ e \o <<>> = e
    BY <1>1, NoText
  <2>. QED
    BY <1>2, <1>3, <1>4, <2>1 DEF Course
<1>6. ReadAll(InVerbatim(e, b, n), s) = g[Len(s)]
  BY <1>1, <1>5, ReadAllIs
<1>7. Len(s) \in 0 .. Len(s)
  BY <1>1
<1>. QED
  BY <1>2, <1>3, <1>6, <1>7

\* How a verbatim begins.
LEMMA AmidKept ==
  ASSUME NEW e, NEW b, NEW n, NEW w
  PROVE  [Amid(e, b, n, w) EXCEPT !.mode = "verbatim"]
           = [seen |-> e, mode |-> "verbatim", may |-> b, opts |-> n, word |-> w]
BY DEF Amid

\* Its first token is read so.
LEMMA VerbatimOpens ==
  ASSUME NEW e, NEW b, NEW n
  PROVE  \E c \in BOOLEAN : Read(AtText(e, b, n), "\\begin{verbatim}")
                              = InVerbatim(Append(e, "\\begin{verbatim}"), c, n)
<1>1. PICK w : w = FALSE
  OBVIOUS
<1>2. PICK r : r = AtText(e, b, n)
  OBVIOUS
<1>3. r.mode = "text" /\ ~r.word /\ r.seen = e /\ r.opts = n
  BY <1>2, TextSees DEF AtText, Amid
<1>4. Read(r, "\\begin{verbatim}") = [Saw(r, "\\begin{verbatim}") EXCEPT !.mode = "verbatim"]
  BY <1>3, ReadSees
<1>5. PICK c \in BOOLEAN : Saw(r, "\\begin{verbatim}") = AtText(Append(e, "\\begin{verbatim}"), c, n)
  BY <1>3, SawText
<1>6. PICK q, d : q = Amid(d, c, n, w) /\ d = Append(e, "\\begin{verbatim}")
  OBVIOUS
<1>7. [Amid(d, c, n, w) EXCEPT !.mode = "verbatim"]
        = [seen |-> d, mode |-> "verbatim", may |-> c, opts |-> n, word |-> w]
  BY AmidKept
<1>8. Saw(r, "\\begin{verbatim}") = q
  BY <1>1, <1>5, <1>6, Zenon DEF AtText
<1>. QED
  BY <1>1, <1>2, <1>4, <1>6, <1>7, <1>8, Zenon DEF InVerbatim

\* A verbatim says its text, and its lines (latex.lua 455-457).
LEMMA VerbatimSays ==
  ASSUME NEW n, n.s \in Seq(Chars)
  PROVE  Verbatim(n) \in Says(<<"\\begin{verbatim}", Newline>> \o n.s \o <<Newline, "\\end{verbatim}">>)
<1>0. /\ "\\begin{verbatim}" \in Token /\ "\\end{verbatim}" \in Token /\ Newline \in Verbal
      /\ Chars \subseteq Verbal /\ Verbal \subseteq Token /\ Token \subseteq Sight
  BY TokensAssumption DEF Token, Words, Verbal, Marks, Newline, Sight
<1>1. PICK a, l, z, s :
        a = <<"\\begin{verbatim}">> /\ l = <<Newline>> /\ z = <<"\\end{verbatim}">> /\ s = n.s
  OBVIOUS
<1>2. /\ <<"\\begin{verbatim}", Newline>> = a \o l
      /\ <<Newline, "\\end{verbatim}">> = l \o z
  BY <1>1, TwoWords
<1>3. /\ a \in Seq(Token) /\ z \in Seq(Token) /\ l \in Seq(Verbal) /\ s \in Seq(Verbal)
  BY <1>0, <1>1, OneText, SeqWider
<1>4. l \in Seq(Token) /\ s \in Seq(Token) /\ l \o s \in Seq(Verbal) /\ (l \o s) \o l \in Seq(Verbal)
  BY <1>0, <1>3, SeqWider, ConcatType
<1>5. PICK t : t = (l \o s) \o l
  OBVIOUS
<1>6. t \in Seq(Verbal) /\ t \in Seq(Token) /\ a \o t \in Seq(Token) /\ (a \o t) \o z \in Seq(Token)
  BY <1>0, <1>3, <1>4, <1>5, SeqWider, ConcatType
<1>7. (a \o l) \o s \o (l \o z) = (a \o t) \o z
  <2>0. \A x, y, v \in Seq(Token) : (x \o y) \o v = x \o (y \o v)
    BY ONLY ConcatThree
  <2>1. (a \o l) \o s = a \o (l \o s) /\ a \o l \in Seq(Token) /\ (l \o s) \in Seq(Token)
    BY <1>3, <1>4, <2>0, ConcatType
  <2>2. (a \o (l \o s)) \o (l \o z) = ((a \o (l \o s)) \o l) \o z
    <3>1. a \o (l \o s) \in Seq(Token)
      BY <1>3, <2>1, ConcatType
    <3>. QED
      BY <1>3, <1>4, <2>0, <3>1, Zenon
  <2>3. (a \o (l \o s)) \o l = a \o t
    BY <1>3, <1>4, <1>5, <2>0, <2>1, Zenon
  <2>. QED
    BY <2>1, <2>2, <2>3
<1>8. PICK m : m = (a \o t) \o z
  OBVIOUS
<1>9. /\ a \in Seq(Sight) /\ t \in Seq(Sight) /\ z \in Seq(Sight) /\ m \in Seq(Token) /\ m \in Seq(Sight)
      /\ a \o t \in Seq(Sight)
  BY <1>0, <1>3, <1>6, <1>8, SeqWider
<1>10. ASSUME NEW e \in Seq(Sight), NEW b \in BOOLEAN, NEW k \in Nat
       PROVE  \E c \in BOOLEAN : ReadAll(AtText(e, b, k), m) = AtText(e \o m, c, k)
  <2>1. PICK c \in BOOLEAN : ReadAll(AtText(e, b, k), a) = InVerbatim(e \o a, c, k)
    <3>1. PICK c \in BOOLEAN : Read(AtText(e, b, k), "\\begin{verbatim}")
                                 = InVerbatim(Append(e, "\\begin{verbatim}"), c, k)
      BY VerbatimOpens
    <3>2. e \o a = Append(e, "\\begin{verbatim}")
      BY <1>0, <1>1, OneText
    <3>3. ReadAll(AtText(e, b, k), a) = Read(AtText(e, b, k), "\\begin{verbatim}")
      BY <1>1, ReadOne
    <3>. QED
      BY <3>1, <3>2, <3>3
  <2>2. e \o a \in Seq(Sight) /\ (e \o a) \o t \in Seq(Sight)
    BY <1>9, ConcatType
  <2>3. ReadAll(InVerbatim(e \o a, c, k), t) = InVerbatim((e \o a) \o t, c, k)
    BY <1>6, <2>2, VerbalIsKept
  <2>4. ReadAll(InVerbatim((e \o a) \o t, c, k), z) = AtText(((e \o a) \o t) \o z, c, k)
    <3>1. Append((e \o a) \o t, "\\end{verbatim}") = ((e \o a) \o t) \o z
      <4>1. "\\end{verbatim}" \in Sight
        BY <1>0
      <4>2. \A d \in Seq(Sight) : d \o z = Append(d, "\\end{verbatim}")
        BY <1>1, <4>1, OneText
      <4>. QED
        BY <2>2, <4>2
    <3>2. \A r : ReadAll(r, z) = Read(r, "\\end{verbatim}")
      BY <1>1, ReadOne
    <3>. QED
      BY <3>1, <3>2, VerbatimReads
  <2>5. ((e \o a) \o t) \o z = e \o m
    <3>0. /\ e \in Seq(Sight) /\ a \in Seq(Sight) /\ t \in Seq(Sight) /\ z \in Seq(Sight)
          /\ a \o t \in Seq(Sight)
      BY <1>9
    <3>1. (e \o a) \o t = e \o (a \o t)
      BY <3>0, SightsGroup, Zenon
    <3>2. (e \o (a \o t)) \o z = e \o ((a \o t) \o z)
      BY <3>0, SightsGroup, Zenon
    <3>. QED
      BY <1>8, <3>1, <3>2
  <2>6. \A r : ReadAll(r, m) = ReadAll(ReadAll(ReadAll(r, a), t), z)
    <3>1. \A r : ReadAll(r, (a \o t) \o z) = ReadAll(ReadAll(r, a \o t), z)
      BY <1>3, <1>6, ReadMore
    <3>2. \A r : ReadAll(r, a \o t) = ReadAll(ReadAll(r, a), t)
      BY <1>3, <1>6, ReadMore
    <3>. QED
      BY <1>8, <3>1, <3>2
  <2>. QED
    BY <2>1, <2>3, <2>4, <2>5, <2>6
<1>11. m \in Says(m)
  BY <1>9, <1>10, SaysIt
<1>. QED
  BY <1>1, <1>2, <1>7, <1>8, <1>11 DEF Verbatim

----------------------------------------------------------------------------
(* Lists of texts and pieces, and what is glued or joined of them.         *)

\* The lists of texts that say ks, one by one.
Saying(ss, ks) ==
  /\ ks \in Lists(Sight) /\ Len(ks) = Len(ss)
  /\ \A i \in 1 .. Len(ss) : ss[i] \in Says(ks[i])

\* Lists of texts that say m together, and pieces that do.
LinesSay(m) == {ss \in Lists(Token) : \E ks : Saying(ss, ks) /\ FlattenSeq(ks) = m}

\* Texts put together say together what each says.
LEMMA FlattenSays ==
  ASSUME NEW xs \in Lists(Token), NEW ks, Saying(xs, ks)
  PROVE  FlattenSeq(xs) \in Says(FlattenSeq(ks))
<1>1. /\ ks \in Lists(Sight) /\ Len(xs) = Len(ks) /\ Len(xs) \in Nat
      /\ \A i \in 1 .. Len(xs) : xs[i] \in Says(ks[i])
  BY DEF Saying, Lists
<1>2. PICK g : /\ g[0] = <<>> /\ g[Len(ks)] = FlattenSeq(ks)
               /\ \A i \in 1 .. Len(ks) : g[i] = g[i - 1] \o ks[i]
  BY <1>1, FlattenSteps
<1>. DEFINE G == [i \in 0 .. Len(xs) |-> Says(g[i])]
<1>3. \A i \in 0 .. Len(xs) : G[i] = Says(g[i])
  OBVIOUS
<1>. HIDE DEF G
<1>4. <<>> \in G[0]
  BY <1>1, <1>2, <1>3, SaysNone
<1>5. ASSUME NEW i \in 1 .. Len(xs), NEW a \in G[i - 1] \cap Seq(Token)
      PROVE  a \o xs[i] \in G[i]
  <2>1. i \in 0 .. Len(xs) /\ i - 1 \in 0 .. Len(xs)
    BY <1>1
  <2>2. a \in Says(g[i - 1]) /\ xs[i] \in Says(ks[i])
    BY <1>1, <1>3, <2>1
  <2>3. a \o xs[i] \in Says(g[i - 1] \o ks[i])
    BY <2>2, SaysMore
  <2>4. g[i] = g[i - 1] \o ks[i]
    BY <1>1, <1>2
  <2>. QED
    BY <1>3, <2>1, <2>3, <2>4
<1>6. FlattenSeq(xs) \in G[Len(xs)]
  BY <1>4, <1>5, FlattenThrough
<1>7. Len(xs) \in 0 .. Len(xs)
  BY <1>1
<1>. QED
  BY <1>1, <1>2, <1>3, <1>6, <1>7

\* What a list of texts says is seen.
LEMMA SayingType ==
  ASSUME NEW m, NEW ss \in LinesSay(m)
  PROVE  ss \in Lists(Token) /\ m \in Seq(Sight)
<1>1. PICK ks : Saying(ss, ks) /\ FlattenSeq(ks) = m
  BY DEF LinesSay
<1>. QED
  BY <1>1, FlattenType DEF LinesSay, Saying, Lists

\* No text,
LEMMA NoLineSays == <<>> \in LinesSay(<<>>)
<1>1. <<>> \in Lists(Token) /\ <<>> \in Lists(Sight) /\ Len(<<>>) = 0
  BY NoText DEF Lists
<1>2. Saying(<<>>, <<>>)
  BY <1>1 DEF Saying
<1>. QED
  BY <1>1, <1>2, FlattenEmpty DEF LinesSay

\* one text,
LEMMA LineSays ==
  ASSUME NEW m, NEW s \in Says(m)
  PROVE  <<s>> \in LinesSay(m)
<1>1. s \in Seq(Token) /\ m \in Seq(Sight)
  BY SaysType
<1>2. <<s>> \in Lists(Token) /\ <<m>> \in Lists(Sight) /\ FlattenSeq(<<m>>) = m
  BY <1>1, FlattenOne
<1>3. Len(<<s>>) = 1 /\ Len(<<m>>) = 1 /\ <<s>>[1] = s /\ <<m>>[1] = m
  OBVIOUS
<1>4. Saying(<<s>>, <<m>>)
  <2>1. PICK a, b : a = <<s>> /\ b = <<m>>
    OBVIOUS
  <2>2. \A i \in 1 .. 1 : i = 1
    OBVIOUS
  <2>. QED
    BY <1>2, <1>3, <2>1, <2>2 DEF Saying
<1>. QED
  BY <1>2, <1>4 DEF LinesSay

\* and lists of texts one after the other.
LEMMA LinesSayMore ==
  ASSUME NEW m, NEW k, NEW s \in LinesSay(m), NEW t \in LinesSay(k)
  PROVE  s \o t \in LinesSay(m \o k)
<1>1. PICK ks : Saying(s, ks) /\ FlattenSeq(ks) = m
  BY DEF LinesSay
<1>2. PICK ls : Saying(t, ls) /\ FlattenSeq(ls) = k
  BY DEF LinesSay
<1>. DEFINE T == Seq(Token)
            U == Seq(Sight)
<1>3. s \in Seq(T) /\ t \in Seq(T) /\ ks \in Seq(U) /\ ls \in Seq(U)
  BY <1>1, <1>2 DEF Saying, LinesSay, Lists
<1>. HIDE DEF T, U
<1>4. PICK u, v : u = s \o t /\ v = ks \o ls
  OBVIOUS
<1>5. /\ u \in Seq(T) /\ Len(u) = Len(s) + Len(t) /\ Len(s) \in Nat /\ Len(t) \in Nat
      /\ \A i \in 1 .. Len(s) : u[i] = s[i]
      /\ \A i \in Len(s) + 1 .. Len(s) + Len(t) : u[i] = t[i - Len(s)]
  BY <1>3, <1>4, JoinedSeqIs
<1>6. /\ v \in Seq(U) /\ Len(v) = Len(s) + Len(t)
      /\ \A i \in 1 .. Len(s) : v[i] = ks[i]
      /\ \A i \in Len(s) + 1 .. Len(s) + Len(t) : v[i] = ls[i - Len(s)]
  <2>1. Len(ks) = Len(s) /\ Len(ls) = Len(t)
    BY <1>1, <1>2 DEF Saying
  <2>. QED
    <3>1. /\ v \in Seq(U) /\ Len(v) = Len(ks) + Len(ls)
          /\ \A i \in 1 .. Len(ks) : v[i] = ks[i]
          /\ \A i \in Len(ks) + 1 .. Len(ks) + Len(ls) : v[i] = ls[i - Len(ks)]
      BY <1>3, <1>4, JoinedSeqIs
    <3>. QED
      BY <2>1, <3>1
<1>7. ASSUME NEW i \in 1 .. Len(u) PROVE u[i] \in Says(v[i])
  <2>1. CASE i \in 1 .. Len(s)
    BY <1>1, <1>5, <1>6, <2>1 DEF Saying
  <2>2. CASE i \notin 1 .. Len(s)
    <3>1. i \in Len(s) + 1 .. Len(s) + Len(t) /\ i - Len(s) \in 1 .. Len(t)
      BY <1>5, <2>2
    <3>2. t[i - Len(s)] \in Says(ls[i - Len(s)])
      BY <1>2, <3>1 DEF Saying
    <3>. QED
      BY <1>5, <1>6, <3>1, <3>2
  <2>. QED
    BY <2>1, <2>2
<1>8. Saying(u, v) /\ u \in Lists(Token)
  BY <1>5, <1>6, <1>7 DEF Saying, Lists, T, U
<1>9. FlattenSeq(v) = m \o k
  BY <1>1, <1>2, <1>4, FlattenConcat DEF Saying
<1>. QED
  BY <1>4, <1>8, <1>9 DEF LinesSay

\* Texts with separators that say nothing.
LEMMA SaysApart ==
  ASSUME NEW m, NEW ss \in LinesSay(m), NEW sep \in Says(<<>>), NEW xs \in Lists(Token),
         Len(xs) = Len(ss), \A i \in 1 .. Len(ss) : xs[i] = ss[i] \/ xs[i] = sep \o ss[i]
  PROVE  FlattenSeq(xs) \in Says(m)
<1>1. PICK ks : Saying(ss, ks) /\ FlattenSeq(ks) = m
  BY DEF LinesSay
<1>2. \A i \in 1 .. Len(ss) : xs[i] \in Says(ks[i])
  BY <1>1, SaysBetween DEF Saying
<1>3. Saying(xs, ks)
  BY <1>1, <1>2 DEF Saying
<1>. QED
  BY <1>1, <1>3, FlattenSays

\* The separators say nothing.
LEMMA SpacesSay == Line \in Says(<<>>) /\ Blank \in Says(<<>>)
<1>1. Line \in Says(<<>>)
  BY SpaceSays DEF Line, Spaces
<1>2. Blank = Line \o Line
  BY TwoWords DEF Blank, Line
<1>. QED
  BY <1>1, <1>2, SaysBetween

\* Joined by such a separator, texts say what they say.
LEMMA JoinSays ==
  ASSUME NEW m, NEW ss \in LinesSay(m), NEW sep \in Says(<<>>)
  PROVE  Join(ss, sep) \in Says(m)
<1>1. ss \in Lists(Token) /\ sep \in Seq(Token)
  BY SayingType, SaysType
<1>2. PICK xs \in Lists(Token) :
        /\ Len(xs) = Len(ss) /\ Join(ss, sep) = FlattenSeq(xs)
        /\ \A i \in 1 .. Len(xs) : xs[i] = IF i = 1 THEN ss[i] ELSE sep \o ss[i]
  BY <1>1, JoinIs
<1>3. \A i \in 1 .. Len(ss) : xs[i] = ss[i] \/ xs[i] = sep \o ss[i]
  BY <1>2
<1>. QED
  BY <1>2, <1>3, SaysApart

\* Pieces that say m together.
Texts(ps) == [i \in DOMAIN ps |-> ps[i].s]

Tells(m) == {ps \in Seq(Piece) : Texts(ps) \in LinesSay(m)}

\* Texts joined by a separator that says something.
LEMMA JoinBoth ==
  ASSUME NEW xs \in Lists(Token), NEW ks, Saying(xs, ks), NEW k, NEW sep \in Says(k)
  PROVE  Join(xs, sep) \in Says(Join(ks, k))
<1>1. /\ ks \in Lists(Sight) /\ Len(xs) = Len(ks) /\ \A i \in 1 .. Len(xs) : xs[i] \in Says(ks[i])
  BY DEF Saying
<1>2. sep \in Seq(Token) /\ k \in Seq(Sight)
  BY SaysType
<1>3. PICK ys \in Lists(Token) :
        /\ Len(ys) = Len(xs) /\ Join(xs, sep) = FlattenSeq(ys)
        /\ \A i \in 1 .. Len(ys) : ys[i] = IF i = 1 THEN xs[i] ELSE sep \o xs[i]
  BY <1>2, JoinIs
<1>4. PICK ls \in Lists(Sight) :
        /\ Len(ls) = Len(ks) /\ Join(ks, k) = FlattenSeq(ls)
        /\ \A i \in 1 .. Len(ls) : ls[i] = IF i = 1 THEN ks[i] ELSE k \o ks[i]
  BY <1>1, <1>2, JoinIs
<1>5. ASSUME NEW i \in 1 .. Len(ys) PROVE ys[i] \in Says(ls[i])
  <2>1. i \in 1 .. Len(xs) /\ i \in 1 .. Len(ls) /\ xs[i] \in Says(ks[i])
    BY <1>1, <1>3, <1>4
  <2>2. sep \o xs[i] \in Says(k \o ks[i])
    BY <2>1, SaysMore
  <2>. QED
    BY <1>3, <1>4, <2>1, <2>2
<1>6. Saying(ys, ls)
  BY <1>1, <1>3, <1>4, <1>5 DEF Saying
<1>7. FlattenSeq(ys) \in Says(FlattenSeq(ls))
  BY <1>6, FlattenSays
<1>. QED
  BY <1>3, <1>4, <1>7, Zenon

\* The texts of pieces.
LEMMA TextsAre ==
  ASSUME NEW ps \in Seq(Piece)
  PROVE  /\ Texts(ps) \in Lists(Token) /\ Len(Texts(ps)) = Len(ps)
         /\ \A i \in 1 .. Len(ps) : Texts(ps)[i] = ps[i].s
<1>. DEFINE T == Seq(Token)
            g == Texts(ps)
<1>1. /\ Len(ps) \in Nat /\ DOMAIN ps = 1 .. Len(ps) /\ \A i \in 1 .. Len(ps) : ps[i] \in Piece
  BY IsSeq
<1>2. \A i \in 1 .. Len(ps) : ps[i].s \in T
  BY <1>1 DEF Piece
<1>3. DOMAIN g = DOMAIN ps /\ g = [i \in DOMAIN g |-> g[i]] /\ \A i \in DOMAIN ps : g[i] = ps[i].s
  BY Zenon DEF Texts
<1>. HIDE DEF g, T
<1>4. g \in Seq(T) /\ Len(g) = Len(ps)
  BY <1>1, <1>2, <1>3, MapIs
<1>. QED
  BY <1>1, <1>3, <1>4 DEF g, T, Lists

\* What is glued of pieces says what they do: what is left out says nothing.
LEMMA GlueSays ==
  ASSUME NEW m, NEW ps \in Tells(m), NEW bsep \in Says(<<>>)
  PROVE  Glue(ps, bsep).s \in Says(m)
<1>1. ps \in Seq(Piece) /\ Texts(ps) \in LinesSay(m) /\ bsep \in Seq(Token)
  BY SaysType DEF Tells
<1>2. /\ Len(Texts(ps)) = Len(ps)
      /\ \A i \in 1 .. Len(ps) : Texts(ps)[i] = ps[i].s
  BY <1>1, TextsAre
<1>3. /\ Glued(ps, bsep) \in Lists(Token) /\ Len(Glued(ps, bsep)) = Len(ps)
      /\ \A i \in 1 .. Len(ps) : /\ i \in Parted(ps) => Glued(ps, bsep)[i] = bsep \o ps[i].s
                                 /\ i \notin Parted(ps) => Glued(ps, bsep)[i] = ps[i].s
  BY <1>1, GluedIs
<1>4. PICK ss, xs : ss = Texts(ps) /\ xs = Glued(ps, bsep)
  OBVIOUS
<1>5. FlattenSeq(xs) \in Says(m)
  <2>1. \A i \in 1 .. Len(ss) : xs[i] = ss[i] \/ xs[i] = bsep \o ss[i]
    BY <1>2, <1>3, <1>4
  <2>. QED
    BY <1>1, <1>2, <1>3, <1>4, <2>1, SaysApart
<1>. QED
  BY <1>4, <1>5, GlueIs

\* What pieces say is seen.
LEMMA TellsType ==
  ASSUME NEW m, NEW ps \in Tells(m)
  PROVE  ps \in Seq(Piece) /\ m \in Seq(Sight)
BY SayingType DEF Tells

\* No piece,
LEMMA TellsNone == <<>> \in Tells(<<>>)
<1>1. Texts(<<>>) = <<>>
  <2>1. <<>> \in Seq(Piece)
    BY NoText
  <2>2. PICK g : g = Texts(<<>>)
    OBVIOUS
  <2>3. g \in Lists(Token) /\ Len(g) = Len(<<>>)
    BY <2>1, <2>2, TextsAre
  <2>. DEFINE T == Seq(Token)
  <2>4. g \in Seq(T) /\ Len(g) = 0
    BY <2>3 DEF Lists
  <2>. HIDE DEF T
  <2>. QED
    BY <2>2, <2>4
<1>. QED
  BY <1>1, NoLineSays, NoText DEF Tells

\* one piece,
LEMMA TellsOne ==
  ASSUME NEW m, NEW s \in Says(m), NEW t \in Kinds, NEW b \in BOOLEAN
  PROVE  <<[t |-> t, s |-> s, block |-> b]>> \in Tells(m)
<1>1. PICK p \in Piece : p = [t |-> t, s |-> s, block |-> b] /\ p.s = s
  <2>1. s \in Seq(Token)
    BY SaysType
  <2>2. PICK p : p = [t |-> t, s |-> s, block |-> b]
    OBVIOUS
  <2>3. p \in Piece /\ p.s = s
    BY <2>1, <2>2 DEF Piece
  <2>. QED
    BY <2>2, <2>3
<1>2. PICK ps \in Seq(Piece) : ps = <<p>> /\ Len(ps) = 1 /\ ps[1] = p
  <2>1. <<p>> \in Seq(Piece) /\ Len(<<p>>) = 1 /\ <<p>>[1] = p
    OBVIOUS
  <2>. QED
    BY <2>1
<1>3. Texts(ps) = <<s>>
  <2>1. PICK g : g = Texts(ps)
    OBVIOUS
  <2>2. g \in Lists(Token) /\ Len(g) = 1 /\ g[1] = s
    <3>1. g \in Lists(Token) /\ Len(g) = Len(ps) /\ \A i \in 1 .. Len(ps) : g[i] = ps[i].s
      BY ONLY <2>1, TextsAre, ps \in Seq(Piece)
    <3>2. 1 \in 1 .. Len(ps) /\ ps[1].s = s
      BY <1>1, <1>2
    <3>3. g[1] = s
      BY <3>1, <3>2
    <3>. QED
      BY <1>2, <3>1, <3>3
  <2>. DEFINE T == Seq(Token)
  <2>3. g \in Seq(T)
    BY <2>2 DEF Lists
  <2>. HIDE DEF T
  <2>4. g = <<s>>
    BY <2>2, <2>3
  <2>. QED
    BY <2>1, <2>4
<1>4. <<s>> \in LinesSay(m)
  BY LineSays
<1>. QED
  BY <1>1, <1>2, <1>3, <1>4 DEF Tells

\* the texts of one list after another,
LEMMA TextsMore ==
  ASSUME NEW ps \in Seq(Piece), NEW qs \in Seq(Piece)
  PROVE  Texts(ps \o qs) = Texts(ps) \o Texts(qs)
<1>. DEFINE T == Seq(Token)
<1>1. PICK u \in Seq(Piece) : u = ps \o qs
  BY ConcatType
<1>2. /\ Len(u) = Len(ps) + Len(qs) /\ Len(ps) \in Nat /\ Len(qs) \in Nat
      /\ \A i \in 1 .. Len(ps) : u[i] = ps[i]
      /\ \A i \in Len(ps) + 1 .. Len(ps) + Len(qs) : u[i] = qs[i - Len(ps)]
  BY <1>1, JoinedSeqIs
<1>3. PICK a, b, c : a = Texts(ps) /\ b = Texts(qs) /\ c = Texts(u)
  OBVIOUS
<1>4. /\ a \in Seq(T) /\ b \in Seq(T) /\ c \in Seq(T)
      /\ Len(a) = Len(ps) /\ Len(b) = Len(qs) /\ Len(c) = Len(u)
      /\ \A i \in 1 .. Len(ps) : a[i] = ps[i].s
      /\ \A i \in 1 .. Len(qs) : b[i] = qs[i].s
      /\ \A i \in 1 .. Len(u) : c[i] = u[i].s
  BY <1>1, <1>3, TextsAre DEF Lists
<1>. HIDE DEF T
<1>5. PICK d : d = a \o b
  OBVIOUS
<1>6. /\ d \in Seq(T) /\ Len(d) = Len(a) + Len(b)
      /\ \A i \in 1 .. Len(a) : d[i] = a[i]
      /\ \A i \in Len(a) + 1 .. Len(a) + Len(b) : d[i] = b[i - Len(a)]
  <2>1. a \in Seq(T) /\ b \in Seq(T)
    BY <1>4
  <2>2. /\ a \o b \in Seq(T) /\ Len(a \o b) = Len(a) + Len(b)
        /\ \A i \in 1 .. Len(a) : (a \o b)[i] = a[i]
        /\ \A i \in Len(a) + 1 .. Len(a) + Len(b) : (a \o b)[i] = b[i - Len(a)]
    BY <2>1, JoinedSeqIs
  <2>. QED
    BY <1>5, <2>2
<1>7. ASSUME NEW i \in 1 .. Len(d) PROVE d[i] = c[i]
  <2>1. CASE i <= Len(ps)
    <3>1. i \in 1 .. Len(ps) /\ i \in 1 .. Len(u) /\ i \in 1 .. Len(a)
      BY <1>2, <1>4, <1>6, <2>1
    <3>2. d[i] = ps[i].s
      BY <1>4, <1>6, <3>1
    <3>3. c[i] = ps[i].s
      BY <1>2, <1>4, <3>1
    <3>. QED
      BY <3>2, <3>3
  <2>2. CASE i > Len(ps)
    <3>1. /\ i \in Len(ps) + 1 .. Len(ps) + Len(qs) /\ i - Len(ps) \in 1 .. Len(qs)
          /\ i \in 1 .. Len(u) /\ i \in Len(a) + 1 .. Len(a) + Len(b) /\ Len(a) = Len(ps)
      BY <1>2, <1>4, <1>6, <2>2
    <3>2. d[i] = b[i - Len(ps)]
      BY <1>6, <3>1
    <3>3. c[i] = qs[i - Len(ps)].s
      BY <1>2, <1>4, <3>1
    <3>. QED
      BY <1>4, <3>1, <3>2, <3>3
  <2>. QED
    BY <1>2, <2>1, <2>2
<1>8. d = c
  <2>1. d \in Seq(T) /\ c \in Seq(T) /\ Len(d) = Len(c)
    BY <1>2, <1>4, <1>6
  <2>. QED
    BY <1>7, <2>1, SeqEqual
<1>. QED
  BY <1>1, <1>3, <1>5, <1>8

\* and one list of pieces after another.
LEMMA TellsMore ==
  ASSUME NEW m, NEW k, NEW ps \in Tells(m), NEW qs \in Tells(k)
  PROVE  ps \o qs \in Tells(m \o k)
<1>1. ps \in Seq(Piece) /\ qs \in Seq(Piece) /\ ps \o qs \in Seq(Piece)
  BY TellsType, ConcatType
<1>2. Texts(ps) \in LinesSay(m) /\ Texts(qs) \in LinesSay(k)
  BY DEF Tells
<1>3. PICK a \in LinesSay(m), b \in LinesSay(k) : a = Texts(ps) /\ b = Texts(qs)
  BY <1>2
<1>4. a \o b \in LinesSay(m \o k)
  BY LinesSayMore
<1>5. Texts(ps \o qs) = a \o b
  BY <1>1, <1>3, TextsMore
<1>. QED
  BY <1>1, <1>4, <1>5 DEF Tells

\* Texts made from a sequence say together what each says.
LEMMA MapSays ==
  ASSUME NEW T, NEW s \in Seq(T), NEW g, NEW h, MapOf(g, s), MapOf(h, s),
         \A i \in 1 .. Len(s) : g[i] \in Says(h[i])
  PROVE  /\ g \in LinesSay(FlattenSeq(h)) /\ FlattenSeq(g) \in Says(FlattenSeq(h))
         /\ g \in Lists(Token) /\ h \in Lists(Sight) /\ Len(g) = Len(s) /\ Len(h) = Len(s)
<1>. DEFINE U == Seq(Token)
            V == Seq(Sight)
<1>1. \A i \in 1 .. Len(s) : g[i] \in U /\ h[i] \in V
  BY SaysType
<1>. HIDE DEF U, V
<1>2. g \in Seq(U) /\ Len(g) = Len(s) /\ h \in Seq(V) /\ Len(h) = Len(s)
  <2>1. g \in Seq(U) /\ Len(g) = Len(s)
    BY <1>1, MapIs DEF MapOf
  <2>2. h \in Seq(V) /\ Len(h) = Len(s)
    BY <1>1, MapIs DEF MapOf
  <2>. QED
    BY <2>1, <2>2
<1>3. g \in Lists(Token) /\ h \in Lists(Sight)
  BY <1>2 DEF Lists, U, V
<1>4. Saying(g, h)
  BY <1>2, <1>3 DEF Saying
<1>5. FlattenSeq(g) \in Says(FlattenSeq(h))
  BY <1>3, <1>4, FlattenSays
<1>. QED
  BY <1>2, <1>3, <1>4, <1>5 DEF LinesSay

\* The same for pieces.
LEMMA MapTells ==
  ASSUME NEW T, NEW s \in Seq(T), NEW g, NEW h, MapOf(g, s), MapOf(h, s),
         \A i \in 1 .. Len(s) : g[i] \in Tells(h[i])
  PROVE  FlattenSeq(g) \in Tells(FlattenSeq(h))
<1>. DEFINE U == Seq(Piece)
            V == Seq(Sight)
<1>1. \A i \in 1 .. Len(s) : g[i] \in U /\ h[i] \in V
  BY TellsType
<1>. HIDE DEF U, V
<1>2. g \in Seq(U) /\ Len(g) = Len(s) /\ h \in Seq(V) /\ Len(h) = Len(s) /\ Len(s) \in Nat
  <2>1. g \in Seq(U) /\ Len(g) = Len(s)
    BY <1>1, MapIs DEF MapOf
  <2>2. h \in Seq(V) /\ Len(h) = Len(s)
    BY <1>1, MapIs DEF MapOf
  <2>. QED
    BY <2>1, <2>2, IsSeq
<1>3. g \in Lists(Piece) /\ h \in Lists(Sight)
  BY <1>2 DEF Lists, U, V
<1>4. PICK f : /\ f[0] = <<>> /\ f[Len(h)] = FlattenSeq(h)
               /\ \A i \in 0 .. Len(h) : f[i] \in Seq(Sight)
               /\ \A i \in 1 .. Len(h) : f[i] = f[i - 1] \o h[i]
  BY <1>3, FlattenSteps
<1>. DEFINE G == [i \in 0 .. Len(s) |-> Tells(f[i])]
<1>5. \A i \in 0 .. Len(s) : G[i] = Tells(f[i])
  OBVIOUS
<1>. HIDE DEF G
<1>6. <<>> \in G[0]
  BY <1>2, <1>4, <1>5, TellsNone
<1>7. ASSUME NEW i \in 1 .. Len(g), NEW a \in G[i - 1] \cap Seq(Piece)
      PROVE  a \o g[i] \in G[i]
  <2>1. i \in 1 .. Len(s) /\ i \in 0 .. Len(s) /\ i - 1 \in 0 .. Len(s)
    BY <1>2
  <2>2. a \in Tells(f[i - 1]) /\ g[i] \in Tells(h[i])
    BY <1>5, <2>1
  <2>3. a \o g[i] \in Tells(f[i - 1] \o h[i])
    BY <2>2, TellsMore
  <2>4. f[i] = f[i - 1] \o h[i]
    BY <1>2, <1>4, <2>1
  <2>. QED
    BY <1>5, <2>1, <2>3, <2>4
<1>8. FlattenSeq(g) \in G[Len(g)]
  BY <1>3, <1>6, <1>7, FlattenThrough
<1>9. Len(s) \in 0 .. Len(s)
  BY <1>2
<1>. QED
  BY <1>2, <1>4, <1>5, <1>8, <1>9

\* Spaces, at the beginning of a text or everywhere in it.
LEMMA SpaceReads ==
  ASSUME NEW x \in Spaces, NEW e, NEW b, NEW n
  PROVE  Read(AtText(e, b, n), x) = AtText(e, b, n)
<1>1. AtText(e, b, n).mode = "text" /\ ~AtText(e, b, n).word
  BY DEF AtText, Amid
<1>2. [AtText(e, b, n) EXCEPT !.word = FALSE] = AtText(e, b, n)
  <2>1. PICK w : w = FALSE
    OBVIOUS
  <2>2. [Amid(e, b, n, w) EXCEPT !.word = w] = Amid(e, b, n, w)
    BY AmidIs
  <2>. QED
    BY <2>1, <2>2, Zenon DEF AtText
<1>. QED
  BY <1>1, <1>2, ReadSees

\* Space leaves the state of TeX in a text as it is.
LEMMA SpacesRead ==
  ASSUME NEW s \in Seq(Spaces), NEW e, NEW b, NEW n
  PROVE  ReadAll(AtText(e, b, n), s) = AtText(e, b, n)
<1>1. Len(s) \in Nat /\ \A i \in 1 .. Len(s) : s[i] \in Spaces
  BY IsSeq
<1>2. PICK r : r = AtText(e, b, n) /\ \A x \in Spaces : Read(r, x) = r
  BY SpaceReads
<1>. DEFINE g == [i \in 0 .. Len(s) |-> r]
<1>3. \A i \in 0 .. Len(s) : g[i] = r
  OBVIOUS
<1>. HIDE DEF g
<1>4. Course(g, r, s, Len(s))
  <2>1. 0 \in 0 .. Len(s) /\ \A i \in 1 .. Len(s) : i \in 0 .. Len(s) /\ i - 1 \in 0 .. Len(s)
    BY <1>1
  <2>. QED
    BY <1>1, <1>2, <1>3, <2>1 DEF Course
<1>5. Len(s) \in 0 .. Len(s)
  BY <1>1
<1>. QED
  BY <1>1, <1>2, <1>3, <1>4, <1>5, ReadAllIs

\* Space is among the tokens.
LEMMA SpacesAre == Spaces \subseteq Token
BY DEF Spaces, Token, Words

\* A text of spaces says nothing.
LEMMA SilentText ==
  ASSUME NEW s \in Seq(Spaces)
  PROVE  s \in Says(<<>>)
<1>1. s \in Seq(Token) /\ <<>> \in Seq(Sight) /\ \A e \in Seq(Sight) : e \o <<>> = e
  BY SpacesAre, SeqWider, NoText
<1>2. ASSUME NEW e \in Seq(Sight), NEW b \in BOOLEAN, NEW n \in Nat
      PROVE  \E c \in BOOLEAN : ReadAll(AtText(e, b, n), s) = AtText(e \o <<>>, c, n)
  BY <1>1, SpacesRead
<1>. QED
  BY <1>1, <1>2, SaysIt

\* Indentation says nothing.
LEMMA PadSays ==
  ASSUME NEW ctx, ctx.indent \in BOOLEAN, ctx.depth \in Nat
  PROVE  Pad(ctx) \in Says(<<>>)
<1>. DEFINE k == IF ctx.indent THEN ctx.depth ELSE 0
            g == [i \in 1 .. k |-> Indent]
<1>1. k \in Nat
  OBVIOUS
<1>2. Pad(ctx) = g /\ DOMAIN g = 1 .. k /\ g = [i \in DOMAIN g |-> g[i]]
  BY Zenon DEF Pad
<1>3. \A i \in 1 .. k : g[i] \in Spaces
  BY DEF Spaces
<1>. HIDE DEF k, g
<1>4. g \in Seq(Spaces)
  BY <1>1, <1>2, <1>3, SeqIs
<1>. QED
  BY <1>2, <1>4, SilentText

----------------------------------------------------------------------------
(* What is stripped from an item, words, and options.                      *)

\* What Strip leaves, and what it drops.
LEMMA StripIs ==
  ASSUME NEW s \in Seq(Token)
  PROVE  Strip(s) \in Seq(Token) /\ \E p \in Seq(Spaces) : s = p \o Strip(s)
<1>0. /\ Len(s) \in Nat /\ DOMAIN s = 1 .. Len(s) /\ s = [i \in DOMAIN s |-> s[i]]
  OBVIOUS
<1>. DEFINE first == {i \in DOMAIN s : s[i] \notin Spaces}
<1>1. CASE first = {}
  <2>1. Strip(s) = <<>>
    BY <1>1 DEF Strip
  <2>2. \A i \in 1 .. Len(s) : s[i] \in Spaces
    BY <1>0, <1>1
  <2>3. s \in Seq(Spaces)
    BY <1>0, <2>2, SeqIs
  <2>4. s = s \o <<>> /\ <<>> \in Seq(Token)
    BY NoText
  <2>. QED
    BY <2>1, <2>3, <2>4, Zenon
<1>2. CASE first # {}
  <2>. DEFINE m == CHOOSE i \in first : \A j \in first : i <= j
  <2>1. Strip(s) = SubSeq(s, m, Len(s))
    BY <1>2 DEF Strip
  <2>2. m \in first /\ \A j \in first : m <= j
    <3>1. first \subseteq Nat
      BY <1>0
    <3>. HIDE DEF first
    <3>2. \E i \in first : \A j \in first : i <= j
      BY <1>2, <3>1, SmallestElement
    <3>. QED
      BY <3>2
  <2>. HIDE DEF m
  <2>3. m \in 1 .. Len(s) /\ \A i \in 1 .. m - 1 : s[i] \in Spaces
    BY <1>0, <2>2
  <2>. HIDE DEF first
  <2>4. PICK p, u : p = SubSeq(s, 1, m - 1) /\ u = SubSeq(s, m, Len(s))
    OBVIOUS
  <2>5. /\ p \in Seq(Token) /\ u \in Seq(Token) /\ Len(p) = m - 1 /\ Len(u) = Len(s) - m + 1
        /\ \A i \in 1 .. m - 1 : p[i] = s[i]
        /\ \A i \in 1 .. Len(s) - m + 1 : u[i] = s[m - 1 + i]
    BY <2>3, <2>4, CutIs
  <2>6. p \in Seq(Spaces)
    <3>1. Len(p) \in Nat /\ DOMAIN p = 1 .. Len(p) /\ p = [i \in DOMAIN p |-> p[i]]
      BY <2>5
    <3>2. \A i \in 1 .. Len(p) : p[i] \in Spaces
      BY <2>3, <2>5
    <3>. QED
      BY <3>1, <3>2, SeqIs
  <2>7. PICK d : d = p \o u
    OBVIOUS
  <2>8. /\ d \in Seq(Token) /\ Len(d) = Len(p) + Len(u)
        /\ \A i \in 1 .. Len(p) : d[i] = p[i]
        /\ \A i \in Len(p) + 1 .. Len(p) + Len(u) : d[i] = u[i - Len(p)]
    <3>1. /\ p \o u \in Seq(Token) /\ Len(p \o u) = Len(p) + Len(u)
          /\ \A i \in 1 .. Len(p) : (p \o u)[i] = p[i]
          /\ \A i \in Len(p) + 1 .. Len(p) + Len(u) : (p \o u)[i] = u[i - Len(p)]
      <4>1. p \in Seq(Token) /\ u \in Seq(Token)
        BY <2>5
      <4>. QED
        BY <4>1, JoinedSeqIs
    <3>. QED
      BY <2>7, <3>1
  <2>9. Len(d) = Len(s)
    BY <1>0, <2>3, <2>5, <2>8
  <2>10. ASSUME NEW i \in 1 .. Len(s) PROVE s[i] = d[i]
    <3>1. CASE i <= m - 1
      BY <1>0, <2>3, <2>5, <2>8, <3>1
    <3>2. CASE i > m - 1
      <4>1. /\ i \in Len(p) + 1 .. Len(p) + Len(u) /\ i - Len(p) \in 1 .. Len(s) - m + 1
            /\ m - 1 + (i - Len(p)) = i
        <5>1. Len(s) \in Nat /\ m \in 1 .. Len(s) /\ Len(p) = m - 1 /\ Len(u) = Len(s) - m + 1
          BY <1>0, <2>3, <2>5
        <5>. QED
          BY <3>2, <5>1
      <4>. QED
        BY <2>5, <2>8, <4>1
    <3>. QED
      BY <1>0, <2>3, <3>1, <3>2
  <2>11. s = d
    BY <2>8, <2>9, <2>10, SeqEqual
  <2>. QED
    BY <2>1, <2>4, <2>5, <2>6, <2>7, <2>11
<1>. QED
  BY <1>1, <1>2

\* A text says the same without its leading space.
LEMMA StripSays ==
  ASSUME NEW m, NEW s \in Says(m)
  PROVE  Strip(s) \in Says(m)
<1>1. s \in Seq(Token) /\ m \in Seq(Sight)
  BY SaysType
<1>2. PICK u \in Seq(Token) : u = Strip(s)
  BY <1>1, StripIs
<1>3. PICK p \in Seq(Spaces) : s = p \o u
  BY <1>1, <1>2, StripIs
<1>4. p \in Seq(Token)
  BY SpacesAre, SeqWider
<1>5. ASSUME NEW e \in Seq(Sight), NEW b \in BOOLEAN, NEW n \in Nat
      PROVE  \E c \in BOOLEAN : ReadAll(AtText(e, b, n), u) = AtText(e \o m, c, n)
  <2>1. PICK c \in BOOLEAN : ReadAll(AtText(e, b, n), s) = AtText(e \o m, c, n)
    BY DEF Says
  <2>2. ReadAll(AtText(e, b, n), p \o u) = ReadAll(ReadAll(AtText(e, b, n), p), u)
    BY <1>4, ReadMore
  <2>3. ReadAll(AtText(e, b, n), p) = AtText(e, b, n)
    BY SpacesRead
  <2>. QED
    BY <1>3, <2>1, <2>2, <2>3
<1>6. u \in Says(m)
  BY <1>1, <1>5, SaysIt
<1>. QED
  BY <1>2, <1>6

\* The words of the renderer that TeX sees as they are.
PlainWords == Words \ (Spaces \cup {"%", "\\%", "[", "]", "\\cmd", "\\begin{verbatim}"})

LEMMA WordsSay ==
  /\ \A x \in PlainWords : <<x>> \in Says(<<x>>)
  /\ <<"{">> \in Says(<<"{">>) /\ <<"}">> \in Says(<<"}">>) /\ <<"opt">> \in Says(<<"opt">>)
<1>1. \A x \in PlainWords : x \in Ordinary
  BY DEF PlainWords, Ordinary, Token
<1>2. "{" \in PlainWords /\ "}" \in PlainWords /\ "opt" \in PlainWords
  BY DEF PlainWords, Words, Spaces, Newline, Space, Indent
<1>3. \A x \in PlainWords : <<x>> \in Says(<<x>>)
  BY <1>1, OrdinarySays
<1>. QED
  BY <1>2, <1>3

\* A token with an option that says m.
LEMMA OptionApart ==
  ASSUME NEW x \in TakesOption, NEW m, NEW s \in Says(m)
  PROVE  <<x>> \o (<<"[">> \o s \o <<"]">>) \in Says(<<x>> \o (<<"opt[">> \o m \o <<"opt]">>))
<1>1. /\ x \in Token /\ x \in Sight /\ "[" \in Token /\ "]" \in Token
      /\ "opt[" \in Sight /\ "opt]" \in Sight
  BY DEF TakesOption, Token, Words, Sight
<1>2. /\ <<x>> \in Seq(Token) /\ <<"[">> \in Seq(Token) /\ <<"]">> \in Seq(Token)
      /\ <<x>> \in Seq(Sight) /\ <<"opt[">> \in Seq(Sight) /\ <<"opt]">> \in Seq(Sight)
  BY <1>1, OneText
<1>3. s \in Seq(Token) /\ m \in Seq(Sight)
  BY SaysType
<1>4. <<x, "[">> \o s \o <<"]">> = <<x>> \o (<<"[">> \o s \o <<"]">>)
  <2>1. <<x, "[">> = <<x>> \o <<"[">>
    BY TwoWords
  <2>2. ((<<x>> \o <<"[">>) \o s) \o <<"]">> = <<x>> \o ((<<"[">> \o s) \o <<"]">>)
    BY <1>2, <1>3, ConcatFour
  <2>. QED
    BY <2>1, <2>2, Zenon
<1>5. <<x, "opt[">> \o m \o <<"opt]">> = <<x>> \o (<<"opt[">> \o m \o <<"opt]">>)
  <2>1. <<x, "opt[">> = <<x>> \o <<"opt[">>
    BY TwoWords
  <2>2. ((<<x>> \o <<"opt[">>) \o m) \o <<"opt]">> = <<x>> \o ((<<"opt[">> \o m) \o <<"opt]">>)
    BY <1>2, <1>3, ConcatFour
  <2>. QED
    BY <2>1, <2>2, Zenon
<1>6. <<x, "[">> \o s \o <<"]">> \in Says(<<x, "opt[">> \o m \o <<"opt]">>)
  BY OptionSays
<1>. QED
  BY <1>4, <1>5, <1>6, Zenon

\* The options of a command or environment.
LEMMA OptsSay ==
  ASSUME NEW x \in TakesOption, NEW b \in BOOLEAN, x # "\\cmd" \/ b
  PROVE  <<x>> \o Opts(b) \in Says(<<x>> \o (IF b THEN Option ELSE <<>>))
<1>1. CASE b
  <2>1. <<x>> \o (<<"[">> \o <<"opt">> \o <<"]">>)
          \in Says(<<x>> \o (<<"opt[">> \o <<"opt">> \o <<"opt]">>))
    BY WordsSay, OptionApart
  <2>2. <<"[", "opt", "]">> = <<"[">> \o <<"opt">> \o <<"]">>
    OBVIOUS
  <2>3. Option = <<"opt[">> \o <<"opt">> \o <<"opt]">>
    BY DEF Option
  <2>4. Opts(b) = <<"[", "opt", "]">> /\ (IF b THEN Option ELSE <<>>) = Option
    BY <1>1 DEF Opts
  <2>. QED
    BY <2>1, <2>2, <2>3, <2>4, Zenon
<1>2. CASE ~b
  <2>1. x \in PlainWords
    BY <1>2 DEF PlainWords, TakesOption, Words, Spaces, Newline, Space, Indent
  <2>2. <<x>> \in Says(<<x>>)
    BY <2>1, WordsSay
  <2>3. <<x>> \in Seq(Token) /\ <<x>> \in Seq(Sight)
    BY <2>2, SaysType
  <2>4. <<x>> \o Opts(b) = <<x>> /\ <<x>> \o (IF b THEN Option ELSE <<>>) = <<x>>
    BY <1>2, <2>3, NoText DEF Opts
  <2>. QED
    BY <2>2, <2>4, Zenon
<1>. QED
  BY <1>1, <1>2

----------------------------------------------------------------------------
(* What the parts of a node say: children, groups, the line of an item.    *)

\* What the nodes at the places of Q render to says what mean gives for them,
\* and strings mean what is seen of them.
Speaks(tree, of, mean, Q) ==
  \A k \in Q : /\ \A d \in BOOLEAN, e \in Nat : of[k][d][e] \in Tells(mean[k])
               /\ tree[k].t = "text" =>
                    /\ tree[k].s \in Seq(Chars) /\ ToSet(tree[k].s) \cap {"[", "]"} = {}
                    /\ mean[k] = Seen(tree[k].s)

\* The pieces of children say what the children stand for.
LEMMA PiecesTell ==
  ASSUME NEW tree, NEW of, NEW ctx \in Context(tree, of), NEW mean, NEW Q,
         Speaks(tree, of, mean, Q), NEW kids \in Seq(Q)
  PROVE  Pieces(kids, ctx) \in Tells(Meanings(kids, mean))
<1>. DEFINE g == [i \in DOMAIN kids |-> ctx.of[kids[i]][ctx.indent][ctx.depth]]
            h == [i \in DOMAIN kids |-> mean[kids[i]]]
<1>1. Pieces(kids, ctx) = FlattenSeq(g) /\ Meanings(kids, mean) = FlattenSeq(h)
  BY DEF Pieces, Meanings
<1>2. MapOf(g, kids) /\ MapOf(h, kids)
  BY Zenon DEF MapOf
<1>3. \A i \in 1 .. Len(kids) : /\ g[i] = ctx.of[kids[i]][ctx.indent][ctx.depth]
                                /\ h[i] = mean[kids[i]] /\ kids[i] \in Q
  BY IsSeq
<1>. HIDE DEF g, h
<1>4. ctx.of = of /\ ctx.indent \in BOOLEAN /\ ctx.depth \in Nat
  BY ContextIs
<1>5. \A i \in 1 .. Len(kids) : g[i] \in Tells(h[i])
  <2>1. ASSUME NEW i \in 1 .. Len(kids) PROVE g[i] \in Tells(h[i])
    <3>1. kids[i] \in Q /\ g[i] = of[kids[i]][ctx.indent][ctx.depth] /\ h[i] = mean[kids[i]]
      BY <1>3, <1>4
    <3>2. of[kids[i]][ctx.indent][ctx.depth] \in Tells(mean[kids[i]])
      BY <1>4, <3>1, Zenon DEF Speaks
    <3>. QED
      BY <3>1, <3>2
  <2>. QED
    BY <2>1
<1>6. FlattenSeq(g) \in Tells(FlattenSeq(h))
  BY <1>2, <1>5, MapTells
<1>. QED
  BY <1>1, <1>6

\* So does what is glued of them.
LEMMA ChildrenSay ==
  ASSUME NEW tree, NEW of, NEW ctx \in Context(tree, of), NEW mean, NEW Q,
         Speaks(tree, of, mean, Q), NEW kids \in Seq(Q)
  PROVE  /\ \A bsep \in {Blank, Line} : Children(kids, ctx, bsep).s \in Says(Meanings(kids, mean))
         /\ Inline(kids, ctx) \in Says(Meanings(kids, mean))
<1>1. Pieces(kids, ctx) \in Tells(Meanings(kids, mean))
  BY PiecesTell
<1>2. \A bsep \in {Blank, Line} : Children(kids, ctx, bsep).s \in Says(Meanings(kids, mean))
  BY <1>1, SpacesSay, GlueSays DEF Children
<1>. QED
  BY <1>2 DEF Inline

\* A text in braces.
LEMMA BracesSay ==
  ASSUME NEW m, NEW s \in Says(m)
  PROVE  <<"{">> \o s \o <<"}">> \in Says(<<"{">> \o m \o <<"}">>)
<1>1. <<"{">> \o s \in Says(<<"{">> \o m)
  BY WordsSay, SaysMore
<1>. QED
  BY <1>1, WordsSay, SaysMore

\* A group says what its children do, in braces (latex.lua 153).
LEMMA GroupSays ==
  ASSUME NEW tree, NEW of, NEW ctx \in Context(tree, of), NEW mean, NEW Q,
         Speaks(tree, of, mean, Q), NEW kids \in Seq(Q)
  PROVE  Group(kids, ctx) \in Says(Braces(kids, mean))
<1>1. Inline(kids, ctx) \in Says(Meanings(kids, mean))
  BY ChildrenSay
<1>. QED
  BY <1>1, BracesSay DEF Group, Braces

\* The arguments of a command.
LEMMA GroupsSay ==
  ASSUME NEW tree, NEW of, NEW ctx \in Context(tree, of), NEW mean, NEW Q,
         Speaks(tree, of, mean, Q), NEW args \in Seq(Q)
  PROVE  Groups(args, ctx) \in Says(Arguments(args, mean))
<1>. DEFINE g == [i \in DOMAIN args |-> Group(<<args[i]>>, ctx)]
            h == [i \in DOMAIN args |-> Braces(<<args[i]>>, mean)]
<1>1. Groups(args, ctx) = FlattenSeq(g) /\ Arguments(args, mean) = FlattenSeq(h)
  BY DEF Groups, Arguments
<1>2. MapOf(g, args) /\ MapOf(h, args)
  BY Zenon DEF MapOf
<1>3. \A i \in 1 .. Len(args) : /\ g[i] = Group(<<args[i]>>, ctx)
                                /\ h[i] = Braces(<<args[i]>>, mean) /\ <<args[i]>> \in Seq(Q)
  BY IsSeq, OneKid
<1>. HIDE DEF g, h
<1>4. \A i \in 1 .. Len(args) : g[i] \in Says(h[i])
  BY <1>3, GroupSays
<1>5. FlattenSeq(g) \in Says(FlattenSeq(h))
  BY <1>2, <1>4, MapSays
<1>. QED
  BY <1>1, <1>5

\* What one child stands for.
LEMMA MeaningsOne ==
  ASSUME NEW k, NEW mean, mean[k] \in Seq(Sight)
  PROVE  Meanings(<<k>>, mean) = mean[k]
<1>. DEFINE h == [i \in DOMAIN <<k>> |-> mean[<<k>>[i]]]
<1>1. Meanings(<<k>>, mean) = FlattenSeq(h)
  BY DEF Meanings
<1>2. h = <<mean[k]>>
  OBVIOUS
<1>. HIDE DEF h
<1>3. FlattenSeq(<<mean[k]>>) = mean[k]
  BY FlattenOne
<1>. QED
  BY <1>1, <1>2, <1>3, Zenon

\* The arguments of an environment, of which a string is raw: without
\* comments in it, it says what it does escaped.
LEMMA EnvArgsSay ==
  ASSUME NEW tree, NEW of, NEW ctx \in Context(tree, of), NEW mean, NEW Q,
         Speaks(tree, of, mean, Q), NEW args \in Seq(Q),
         \A k \in ToSet(args) : tree[k].t = "text" => "%" \notin ToSet(tree[k].s)
  PROVE  EnvArgs(args, ctx) \in Says(Arguments(args, mean))
<1>. DEFINE a(k) == IF ctx.tree[k].t = "text" THEN <<"{">> \o ctx.tree[k].s \o <<"}">>
                    ELSE Group(<<k>>, ctx)
            g == [i \in DOMAIN args |-> a(args[i])]
            h == [i \in DOMAIN args |-> Braces(<<args[i]>>, mean)]
<1>0. ctx.tree = tree
  BY ContextIs
<1>1. EnvArgs(args, ctx) = FlattenSeq(g) /\ Arguments(args, mean) = FlattenSeq(h)
  BY DEF EnvArgs, Arguments
<1>2. MapOf(g, args) /\ MapOf(h, args)
  BY Zenon DEF MapOf
<1>3. \A i \in 1 .. Len(args) : /\ g[i] = a(args[i])
                                /\ h[i] = Braces(<<args[i]>>, mean)
                                /\ args[i] \in Q /\ args[i] \in ToSet(args)
  BY IsSeq DEF ToSet
<1>. HIDE DEF g, h
<1>4. ASSUME NEW k \in Q, k \in ToSet(args) PROVE a(k) \in Says(Braces(<<k>>, mean))
  <2>1. CASE tree[k].t = "text"
    <3>1. /\ tree[k].s \in Seq(Chars) /\ ToSet(tree[k].s) \cap {"[", "]"} = {}
          /\ mean[k] = Seen(tree[k].s) /\ "%" \notin ToSet(tree[k].s)
      BY <1>4, <2>1 DEF Speaks
    <3>2. tree[k].s \in Says(mean[k])
      BY <3>1, StringSays
    <3>3. <<"{">> \o tree[k].s \o <<"}">> \in Says(<<"{">> \o mean[k] \o <<"}">>)
      BY <3>2, BracesSay
    <3>4. Braces(<<k>>, mean) = <<"{">> \o mean[k] \o <<"}">>
      <4>1. mean[k] \in Seq(Sight)
        BY <3>2, SaysType
      <4>. QED
        BY <4>1, MeaningsOne DEF Braces
    <3>. QED
      BY <1>0, <2>1, <3>3, <3>4
  <2>2. CASE tree[k].t # "text"
    <3>1. <<k>> \in Seq(Q)
      BY OneKid
    <3>2. Group(<<k>>, ctx) \in Says(Braces(<<k>>, mean))
      BY <3>1, GroupSays
    <3>. QED
      BY <1>0, <2>2, <3>2
  <2>. QED
    BY <2>1, <2>2
<1>. HIDE DEF a
<1>5. \A i \in 1 .. Len(args) : g[i] \in Says(h[i])
  BY <1>3, <1>4
<1>6. FlattenSeq(g) \in Says(FlattenSeq(h))
  BY <1>2, <1>5, MapSays
<1>. QED
  BY <1>1, <1>6

\* Space before a text, and what comes only with a text that is not empty.
LEMMA SaysAfter ==
  ASSUME NEW m, NEW s \in Says(m), NEW p \in Says(<<>>)
  PROVE  (IF s = <<>> THEN <<>> ELSE p \o s) \in Says(m)
<1>1. CASE s = <<>>
  BY <1>1
<1>2. CASE s # <<>>
  BY <1>2, SaysBetween
<1>. QED
  BY <1>1, <1>2

\* The words after which a term stands.
TermWords == {"\\item", "\\section"}

\* A term is said as an option.
LEMMA TermSays ==
  ASSUME NEW tree, NEW of, NEW ctx \in Context(tree, of), NEW mean, NEW Q,
         Speaks(tree, of, mean, Q), NEW term \in Seq(Q), NEW x \in TermWords
  PROVE  <<x>> \o Term(term, ctx) \in Says(<<x>> \o TermMeaning(term, mean))
<1>1. CASE term = <<>>
  <2>1. x \in PlainWords
    BY DEF TermWords, PlainWords, Words, Spaces, Newline, Space, Indent
  <2>2. <<x>> \in Says(<<x>>)
    BY <2>1, WordsSay
  <2>3. <<x>> \o <<>> \in Says(<<x>> \o <<>>)
    BY <2>2, SaysNone, SaysMore
  <2>. QED
    BY <1>1, <2>3 DEF Term, TermMeaning
<1>2. CASE term # <<>>
  <2>1. Inline(term, ctx) \in Says(Meanings(term, mean)) /\ x \in TakesOption
    BY ChildrenSay DEF TakesOption, TermWords
  <2>2. <<x>> \o (<<"[">> \o Inline(term, ctx) \o <<"]">>)
          \in Says(<<x>> \o (<<"opt[">> \o Meanings(term, mean) \o <<"opt]">>))
    BY <2>1, OptionApart
  <2>. QED
    BY <1>2, <2>2 DEF Term, TermMeaning
<1>. QED
  BY <1>1, <1>2

\* The line of an item says its term as an option, and its text.
LEMMA ItemLineSays ==
  ASSUME NEW tree, NEW of, NEW ctx \in Context(tree, of), NEW mean, NEW Q,
         Speaks(tree, of, mean, Q), NEW term \in Seq(Q), NEW parts, NEW body,
         body \in Says(Meanings(parts, mean))
  PROVE  ItemLine(term, body, ctx) \in Says(ItemMeaning(term, parts, mean))
<1>. DEFINE a == Term(term, ctx)
            b == IF body = <<>> THEN <<>> ELSE <<Space>> \o body
            c == TermMeaning(term, mean)
<1>1. /\ ItemLine(term, body, ctx) = <<"\\item">> \o a \o b
      /\ ItemMeaning(term, parts, mean) = <<"\\item">> \o c \o Meanings(parts, mean)
  BY DEF ItemLine, ItemMeaning
<1>2. b \in Says(Meanings(parts, mean))
  <2>1. Space \in Spaces
    BY DEF Spaces
  <2>2. <<Space>> \in Says(<<>>)
    BY <2>1, SpaceSays
  <2>. QED
    BY <2>2, SaysAfter
<1>3. <<"\\item">> \o a \in Says(<<"\\item">> \o c)
  <2>1. "\\item" \in TermWords
    BY DEF TermWords
  <2>. QED
    BY <2>1, TermSays
<1>. HIDE DEF a, b, c
<1>4. <<"\\item">> \o a \o b \in Says(<<"\\item">> \o c \o Meanings(parts, mean))
  BY <1>2, <1>3, SaysMore
<1>. QED
  BY <1>1, <1>4

----------------------------------------------------------------------------
(* What items stand for.                                                   *)

\* What mean gives at the places of Q is seen.
Means(mean, Q) == \A k \in Q : mean[k] \in Seq(Sight)

\* What nodes say is seen.
LEMMA SpeaksMeans ==
  ASSUME NEW tree, NEW of, NEW mean, NEW Q, Speaks(tree, of, mean, Q)
  PROVE  Means(mean, Q)
<1>1. ASSUME NEW k \in Q PROVE mean[k] \in Seq(Sight)
  <2>1. PICK c : c = TRUE
    OBVIOUS
  <2>2. c \in BOOLEAN /\ 0 \in Nat
    BY <2>1
  <2>3. of[k][c][0] \in Tells(mean[k])
    BY <2>2, Zenon DEF Speaks
  <2>. QED
    BY <2>3, TellsType
<1>. QED
  BY <1>1 DEF Means

\* What children stand for is seen.
LEMMA MeaningsType ==
  ASSUME NEW mean, NEW Q, Means(mean, Q), NEW kids \in Seq(Q)
  PROVE  Meanings(kids, mean) \in Seq(Sight)
<1>. DEFINE g == [i \in DOMAIN kids |-> mean[kids[i]]]
            V == Seq(Sight)
<1>1. Meanings(kids, mean) = FlattenSeq(g) /\ MapOf(g, kids)
  BY Zenon DEF Meanings, MapOf
<1>2. \A i \in 1 .. Len(kids) : g[i] = mean[kids[i]] /\ kids[i] \in Q
  BY IsSeq
<1>. HIDE DEF g, V
<1>3. \A i \in 1 .. Len(kids) : g[i] \in V
  BY <1>2 DEF Means, V
<1>4. g \in Seq(V)
  BY <1>1, <1>3, MapIs DEF MapOf
<1>. QED
  BY <1>1, <1>4, FlattenType DEF V

\* What a term stands for is seen.
LEMMA TermMeaningType ==
  ASSUME NEW mean, NEW Q, Means(mean, Q), NEW term \in Seq(Q)
  PROVE  TermMeaning(term, mean) \in Seq(Sight)
<1>1. Meanings(term, mean) \in Seq(Sight)
  BY MeaningsType
<1>2. <<"opt[">> \in Seq(Sight) /\ <<"opt]">> \in Seq(Sight) /\ <<>> \in Seq(Sight)
  BY OneText, NoText DEF Sight, Token, Words
<1>3. <<"opt[">> \o Meanings(term, mean) \o <<"opt]">> \in Seq(Sight)
  BY <1>1, <1>2, ConcatType
<1>. QED
  BY <1>2, <1>3 DEF TermMeaning

\* What children stand for with one more.
LEMMA MeaningsAppend ==
  ASSUME NEW mean, NEW Q, Means(mean, Q), NEW kids \in Seq(Q), NEW k \in Q
  PROVE  Meanings(Append(kids, k), mean) = Meanings(kids, mean) \o mean[k]
<1>1. PICK more \in Seq(Q) :
        /\ more = Append(kids, k) /\ Len(more) = Len(kids) + 1 /\ Len(kids) \in Nat
        /\ more[Len(kids) + 1] = k /\ \A i \in 1 .. Len(kids) : more[i] = kids[i]
  <2>1. PICK more : more = Append(kids, k)
    OBVIOUS
  <2>. QED
    BY <2>1, AppendIs
<1>. DEFINE g == [i \in DOMAIN kids |-> mean[kids[i]]]
            h == [i \in DOMAIN more |-> mean[more[i]]]
            V == Seq(Sight)
<1>2. /\ Meanings(kids, mean) = FlattenSeq(g) /\ MapOf(g, kids)
      /\ Meanings(more, mean) = FlattenSeq(h) /\ MapOf(h, more)
  BY Zenon DEF Meanings, MapOf
<1>3. /\ \A i \in 1 .. Len(kids) : g[i] = mean[kids[i]] /\ kids[i] \in Q
      /\ \A i \in 1 .. Len(kids) + 1 : h[i] = mean[more[i]]
  BY <1>1, IsSeq
<1>. HIDE DEF g, h, V
<1>4. /\ \A i \in 1 .. Len(kids) : g[i] \in V /\ h[i] = g[i]
      /\ h[Len(kids) + 1] = mean[k] /\ mean[k] \in V
  <2>1. \A i \in 1 .. Len(kids) : i \in 1 .. Len(kids) + 1 /\ Len(kids) + 1 \in 1 .. Len(kids) + 1
    BY <1>1
  <2>2. Len(kids) + 1 \in 1 .. Len(kids) + 1
    BY <1>1
  <2>3. ASSUME NEW i \in 1 .. Len(kids) PROVE g[i] \in V /\ h[i] = g[i]
    BY <1>1, <1>3, <2>1 DEF Means, V
  <2>4. h[Len(kids) + 1] = mean[k] /\ mean[k] \in V
    BY <1>1, <1>3, <2>2 DEF Means, V
  <2>. QED
    BY <2>3, <2>4
<1>5. h = Append(g, mean[k]) /\ g \in Seq(V)
  BY <1>1, <1>2, <1>4, MapAppend
<1>6. FlattenSeq(Append(g, mean[k])) = FlattenSeq(g) \o mean[k]
  BY <1>4, <1>5, FlattenAppend DEF V
<1>. QED
  BY <1>1, <1>2, <1>5, <1>6

\* What an item stands for is seen.
LEMMA ItemMeaningType ==
  ASSUME NEW mean, NEW Q, Means(mean, Q), NEW term \in Seq(Q), NEW parts \in Seq(Q)
  PROVE  ItemMeaning(term, parts, mean) \in Seq(Sight)
<1>1. Meanings(parts, mean) \in Seq(Sight)
  BY MeaningsType
<1>2. <<"\\item">> \in Seq(Sight)
  BY OneText DEF Sight, Token, Words
<1>. DEFINE c == TermMeaning(term, mean)
<1>3. c \in Seq(Sight)
  BY TermMeaningType
<1>4. ItemMeaning(term, parts, mean) = <<"\\item">> \o c \o Meanings(parts, mean)
  BY DEF ItemMeaning
<1>. HIDE DEF c
<1>. QED
  BY <1>1, <1>2, <1>3, <1>4, ConcatType

\* Text that is added to an item goes on its meaning.
LEMMA ItemMeaningMore ==
  ASSUME NEW mean, NEW Q, Means(mean, Q), NEW term \in Seq(Q), NEW parts \in Seq(Q), NEW k \in Q
  PROVE  ItemMeaning(term, Append(parts, k), mean) = ItemMeaning(term, parts, mean) \o mean[k]
<1>6. \A x, y, z \in Seq(Sight) : (x \o y) \o z = x \o (y \o z)
  BY SightsGroup
<1>1. Meanings(parts, mean) \in Seq(Sight) /\ mean[k] \in Seq(Sight)
  BY MeaningsType DEF Means
<1>2. <<"\\item">> \in Seq(Sight)
  BY OneText DEF Sight, Token, Words
<1>. DEFINE c == TermMeaning(term, mean)
<1>3. c \in Seq(Sight)
  BY TermMeaningType
<1>4. \A ks : ItemMeaning(term, ks, mean) = <<"\\item">> \o c \o Meanings(ks, mean)
  BY DEF ItemMeaning
<1>. HIDE DEF c
<1>5. <<"\\item">> \o c \in Seq(Sight)
  BY <1>2, <1>3, ConcatType
<1>7. ((<<"\\item">> \o c) \o Meanings(parts, mean)) \o mean[k]
        = (<<"\\item">> \o c) \o (Meanings(parts, mean) \o mean[k])
  BY <1>1, <1>5, <1>6
<1>8. Meanings(Append(parts, k), mean) = Meanings(parts, mean) \o mean[k]
  BY MeaningsAppend
<1>. QED
  BY <1>4, <1>7, <1>8, Zenon

\* What items stand for, one after another.
ItemsMeaning(items, mean) ==
  FlattenSeq([i \in DOMAIN items |-> ItemMeaning(items[i].term, items[i].parts, mean)])

\* What items stand for with one more.
LEMMA ItemsAppend ==
  ASSUME NEW mean, NEW Q, Means(mean, Q), NEW items \in Seq(ItemParts(Q)), NEW x \in ItemParts(Q)
  PROVE  ItemsMeaning(Append(items, x), mean)
           = ItemsMeaning(items, mean) \o ItemMeaning(x.term, x.parts, mean)
<1>. DEFINE T == ItemParts(Q)
            V == Seq(Sight)
<1>0. \A y \in T : ItemMeaning(y.term, y.parts, mean) \in V
  BY ItemMeaningType DEF ItemParts
<1>. HIDE DEF T, V
<1>1. PICK more \in Seq(T) :
        /\ more = Append(items, x) /\ Len(more) = Len(items) + 1 /\ Len(items) \in Nat
        /\ more[Len(items) + 1] = x /\ \A i \in 1 .. Len(items) : more[i] = items[i]
  <2>1. PICK more : more = Append(items, x)
    OBVIOUS
  <2>2. items \in Seq(T) /\ x \in T
    BY DEF T
  <2>. QED
    BY <2>1, <2>2, AppendIs
<1>. DEFINE g == [i \in DOMAIN items |-> ItemMeaning(items[i].term, items[i].parts, mean)]
            h == [i \in DOMAIN more |-> ItemMeaning(more[i].term, more[i].parts, mean)]
<1>2. /\ ItemsMeaning(items, mean) = FlattenSeq(g) /\ MapOf(g, items)
      /\ ItemsMeaning(more, mean) = FlattenSeq(h) /\ MapOf(h, more)
  BY Zenon DEF ItemsMeaning, MapOf
<1>3. items \in Seq(T) /\ x \in T
  BY DEF T
<1>4. /\ \A i \in 1 .. Len(items) :
           g[i] = ItemMeaning(items[i].term, items[i].parts, mean) /\ items[i] \in T
      /\ \A i \in 1 .. Len(items) + 1 : h[i] = ItemMeaning(more[i].term, more[i].parts, mean)
  <2>1. DOMAIN items = 1 .. Len(items) /\ \A i \in 1 .. Len(items) : items[i] \in T
    BY <1>3, IsSeq
  <2>2. DOMAIN more = 1 .. Len(items) + 1
    BY <1>1, IsSeq
  <2>. QED
    BY <2>1, <2>2
<1>. HIDE DEF g, h
<1>5. PICK y \in V : y = ItemMeaning(x.term, x.parts, mean)
  BY <1>0, <1>3
<1>6. ASSUME NEW i \in 1 .. Len(items) PROVE g[i] \in V /\ h[i] = g[i]
  <2>1. i \in 1 .. Len(items) + 1
    BY <1>1
  <2>2. g[i] = ItemMeaning(items[i].term, items[i].parts, mean) /\ items[i] \in T
    BY <1>4
  <2>3. h[i] = ItemMeaning(items[i].term, items[i].parts, mean)
    BY <1>1, <1>4, <2>1
  <2>. QED
    BY <1>0, <2>2, <2>3
<1>7. h[Len(items) + 1] = y
  <2>1. Len(items) + 1 \in 1 .. Len(items) + 1
    BY <1>1
  <2>. QED
    BY <1>1, <1>4, <1>5, <2>1
<1>8. h = Append(g, y) /\ g \in Seq(V)
  BY <1>1, <1>2, <1>3, <1>6, <1>7, MapAppend
<1>9. FlattenSeq(Append(g, y)) = FlattenSeq(g) \o y
  BY <1>8, FlattenAppend DEF V
<1>. QED
  BY <1>1, <1>2, <1>5, <1>8, <1>9

\* What items stand for is seen.
LEMMA ItemsMeaningType ==
  ASSUME NEW mean, NEW Q, Means(mean, Q), NEW items \in Seq(ItemParts(Q))
  PROVE  ItemsMeaning(items, mean) \in Seq(Sight)
<1>. DEFINE T == ItemParts(Q)
            V == Seq(Sight)
            g == [i \in DOMAIN items |-> ItemMeaning(items[i].term, items[i].parts, mean)]
<1>0. \A y \in T : ItemMeaning(y.term, y.parts, mean) \in V
  BY ItemMeaningType DEF ItemParts
<1>1. items \in Seq(T) /\ DOMAIN items = 1 .. Len(items) /\ \A i \in 1 .. Len(items) : items[i] \in T
  <2>. HIDE DEF T
  <2>1. items \in Seq(T)
    BY DEF T
  <2>. QED
    BY <2>1, IsSeq
<1>. HIDE DEF T, V
<1>2. ItemsMeaning(items, mean) = FlattenSeq(g) /\ MapOf(g, items)
  BY Zenon DEF ItemsMeaning, MapOf
<1>3. \A i \in 1 .. Len(items) : g[i] \in V
  BY <1>0, <1>1
<1>. HIDE DEF g
<1>4. g \in Seq(V)
  BY <1>1, <1>2, <1>3, MapIs DEF MapOf
<1>. QED
  BY <1>2, <1>4, FlattenType DEF V

\* What a child of a list stands for.
KidMeaning(i, kids, tree, of) ==
  LET c == tree[kids[i]]
  IN  IF c.t = "list" /\ i > 1 THEN of[kids[i]]
      ELSE IF c.t \in {"plain", "item"} THEN ItemMeaning(c.term, c.kids, of)
      ELSE ItemMeaning(<<>>, <<kids[i]>>, of)

\* The children of a list are places of Q, and so are those of its items.
Listed(tree, Q) ==
  \A k \in Q : tree[k].t \in {"plain", "item"} =>
                 tree[k].term \in Seq(Q) /\ tree[k].kids \in Seq(Q)

\* A child of a list that is added to its items adds what it stands for: as
\* an item of its own, or to the last one.
LEMMA AddedMeans ==
  ASSUME NEW tree, NEW Q, Listed(tree, Q), NEW mean, Means(mean, Q),
         NEW items \in Seq(ItemParts(Q)), NEW kids, NEW i \in Nat, kids[i] \in Q,
         i > 1 => Len(items) # 0
  PROVE  ItemsMeaning(Added(items, i, kids, tree), mean)
           = ItemsMeaning(items, mean) \o KidMeaning(i, kids, tree, mean)
<1>. DEFINE c == tree[kids[i]]
            T == ItemParts(Q)
<1>1. CASE c.t = "list" /\ i > 1
  <2>0. items \in Seq(T) /\ Len(items) # 0
    BY <1>1
  <2>1. PICK f \in Seq(T) :
          /\ items = Append(f, items[Len(items)]) /\ items[Len(items)] \in T
          /\ \A y \in T : [items EXCEPT ![Len(items)] = y] = Append(f, y)
    <3>. HIDE DEF T
    <3>. QED
      BY <2>0, LastIs
  <2>2. PICK x \in T : x = items[Len(items)]
    BY <2>1
  <2>3. x.term \in Seq(Q) /\ x.parts \in Seq(Q)
    BY DEF ItemParts
  <2>4. PICK y \in T : /\ y = [x EXCEPT !.parts = Append(@, kids[i])]
                       /\ y.term = x.term /\ y.parts = Append(x.parts, kids[i])
    <3>1. Append(x.parts, kids[i]) \in Seq(Q)
      BY <2>3, AppendIs
    <3>2. PICK y : y = [x EXCEPT !.parts = Append(@, kids[i])]
      OBVIOUS
    <3>3. y \in T /\ y.term = x.term /\ y.parts = Append(x.parts, kids[i])
      BY <3>1, <3>2 DEF ItemParts
    <3>. QED
      BY <3>2, <3>3
  <2>5. Added(items, i, kids, tree) = [items EXCEPT ![Len(items)] = y]
    <3>1. Added(items, i, kids, tree) = [items EXCEPT ![Len(items)].parts = Append(@, kids[i])]
      BY <1>1 DEF Added
    <3>. QED
      BY <2>2, <2>4, <3>1
  <2>6. Added(items, i, kids, tree) = Append(f, y)
    BY <2>1, <2>5
  <2>7. /\ ItemsMeaning(Append(f, y), mean)
             = ItemsMeaning(f, mean) \o ItemMeaning(y.term, y.parts, mean)
        /\ ItemsMeaning(Append(f, x), mean)
             = ItemsMeaning(f, mean) \o ItemMeaning(x.term, x.parts, mean)
    BY ItemsAppend
  <2>8. ItemMeaning(y.term, y.parts, mean) = ItemMeaning(x.term, x.parts, mean) \o mean[kids[i]]
    <3>1. ItemMeaning(x.term, Append(x.parts, kids[i]), mean)
            = ItemMeaning(x.term, x.parts, mean) \o mean[kids[i]]
      BY <2>3, ItemMeaningMore
    <3>. QED
      BY <2>4, <3>1, Zenon
  <2>9. (ItemsMeaning(f, mean) \o ItemMeaning(x.term, x.parts, mean)) \o mean[kids[i]]
          = ItemsMeaning(f, mean) \o (ItemMeaning(x.term, x.parts, mean) \o mean[kids[i]])
    <3>1. /\ ItemsMeaning(f, mean) \in Seq(Sight) /\ mean[kids[i]] \in Seq(Sight)
          /\ ItemMeaning(x.term, x.parts, mean) \in Seq(Sight)
      BY <2>3, ItemsMeaningType, ItemMeaningType DEF Means
    <3>. QED
      BY <3>1, SightsGroup
  <2>10. KidMeaning(i, kids, tree, mean) = mean[kids[i]]
    BY <1>1 DEF KidMeaning
  <2>11. items = Append(f, x)
    BY <2>1, <2>2
  <2>. QED
    BY <2>6, <2>7, <2>8, <2>9, <2>10, <2>11, Zenon
<1>2. CASE ~(c.t = "list" /\ i > 1)
  <2>. DEFINE x == IF c.t \in {"plain", "item"} THEN [term |-> c.term, parts |-> c.kids]
                   ELSE [term |-> <<>>, parts |-> <<kids[i]>>]
  <2>1. /\ x \in T
        /\ ItemMeaning(x.term, x.parts, mean) = KidMeaning(i, kids, tree, mean)
    <3>1. CASE c.t \in {"plain", "item"}
      BY <1>2, <3>1 DEF ItemParts, Listed, KidMeaning
    <3>2. CASE c.t \notin {"plain", "item"}
      <4>1. <<kids[i]>> \in Seq(Q) /\ <<>> \in Seq(Q)
        BY OneKid, NoText
      <4>. QED
        BY <1>2, <3>2, <4>1 DEF ItemParts, KidMeaning
    <3>. QED
      BY <3>1, <3>2
  <2>2. Added(items, i, kids, tree) = Append(items, x)
    BY <1>2 DEF Added
  <2>. HIDE DEF x
  <2>3. ItemsMeaning(Append(items, x), mean)
          = ItemsMeaning(items, mean) \o ItemMeaning(x.term, x.parts, mean)
    BY <2>1, ItemsAppend
  <2>. QED
    BY <2>1, <2>2, <2>3
<1>. QED
  BY <1>1, <1>2

----------------------------------------------------------------------------
(* A list says what its children do.                                       *)

\* What a child of a list stands for is seen.
LEMMA KidMeaningType ==
  ASSUME NEW tree, NEW Q, Listed(tree, Q), NEW mean, Means(mean, Q), NEW kids, NEW i, kids[i] \in Q
  PROVE  KidMeaning(i, kids, tree, mean) \in Seq(Sight)
<1>. DEFINE c == tree[kids[i]]
<1>1. CASE c.t = "list" /\ i > 1
  BY <1>1 DEF KidMeaning, Means
<1>2. CASE ~(c.t = "list" /\ i > 1) /\ c.t \in {"plain", "item"}
  <2>1. c.term \in Seq(Q) /\ c.kids \in Seq(Q)
    BY <1>2 DEF Listed
  <2>2. KidMeaning(i, kids, tree, mean) = ItemMeaning(c.term, c.kids, mean)
    BY <1>2 DEF KidMeaning
  <2>. QED
    BY <2>1, <2>2, ItemMeaningType
<1>3. CASE ~(c.t = "list" /\ i > 1) /\ c.t \notin {"plain", "item"}
  <2>1. <<kids[i]>> \in Seq(Q) /\ <<>> \in Seq(Q)
    BY OneKid, NoText
  <2>2. KidMeaning(i, kids, tree, mean) = ItemMeaning(<<>>, <<kids[i]>>, mean)
    BY <1>3 DEF KidMeaning
  <2>3. ItemMeaning(<<>>, <<kids[i]>>, mean) \in Seq(Sight)
    BY <2>1, ItemMeaningType
  <2>. QED
    BY <2>2, <2>3, Zenon
<1>. QED
  BY <1>1, <1>2, <1>3

\* The items of a list stand for what its children do.
LEMMA ItemsMean ==
  ASSUME NEW tree, NEW Q, Listed(tree, Q), NEW mean, Means(mean, Q), NEW kids \in Seq(Q)
  PROVE  /\ Items(kids, tree) \in Seq(ItemParts(Q))
         /\ ItemsMeaning(Items(kids, tree), mean) = ListMeaning(kids, tree, mean)
<1>. DEFINE T == ItemParts(Q)
            V == Seq(Sight)
            h == [i \in DOMAIN kids |-> KidMeaning(i, kids, tree, mean)]
<1>1. Len(kids) \in Nat /\ \A i \in 1 .. Len(kids) : kids[i] \in Q
  BY IsSeq
<1>2. ListMeaning(kids, tree, mean) = FlattenSeq(h) /\ MapOf(h, kids)
  BY Zenon DEF ListMeaning, KidMeaning, MapOf
<1>3. \A i \in 1 .. Len(kids) : h[i] = KidMeaning(i, kids, tree, mean)
  BY IsSeq
<1>. HIDE DEF h, T, V
<1>4. h \in Seq(V) /\ Len(h) = Len(kids)
  <2>1. \A i \in 1 .. Len(kids) : h[i] \in V
    BY <1>1, <1>3, KidMeaningType DEF V
  <2>. QED
    BY <1>2, <2>1, MapIs DEF MapOf
<1>5. PICK f : Adds(f, Len(kids), kids, tree) /\ Items(kids, tree) = f[Len(kids)]
  BY <1>1, ItemsAre
<1>6. PICK g : /\ g[0] = <<>> /\ g[Len(h)] = FlattenSeq(h)
               /\ \A i \in 1 .. Len(h) : g[i] = g[i - 1] \o h[i]
  <2>1. h \in Lists(Sight)
    BY <1>4 DEF Lists, V
  <2>. QED
    BY <2>1, FlattenSteps
<1>. DEFINE S == {i \in 0 .. Len(kids) : /\ f[i] \in Seq(T) /\ (i # 0 => Len(f[i]) # 0)
                                         /\ ItemsMeaning(f[i], mean) = g[i]}
<1>7. 0 \in S
  <2>1. f[0] = <<>> /\ <<>> \in Seq(T) /\ 0 \in 0 .. Len(kids)
    BY <1>1, <1>5, NoText DEF Adds
  <2>2. ItemsMeaning(<<>>, mean) = <<>>
    <3>1. [i \in DOMAIN <<>> |-> ItemMeaning(<<>>[i].term, <<>>[i].parts, mean)] = <<>>
      OBVIOUS
    <3>. QED
      BY <3>1, FlattenEmpty DEF ItemsMeaning
  <2>3. ItemsMeaning(f[0], mean) = g[0]
    BY <1>6, <2>1, <2>2, Zenon
  <2>. QED
    BY <2>1, <2>3
<1>8. ASSUME NEW i \in 1 .. Len(kids), i - 1 \in S PROVE i \in S
  <2>1. /\ f[i] = Added(f[i - 1], i, kids, tree) /\ f[i - 1] \in Seq(T) /\ kids[i] \in Q
        /\ i \in Nat /\ (i > 1 => Len(f[i - 1]) # 0) /\ i \in 0 .. Len(kids)
        /\ ItemsMeaning(f[i - 1], mean) = g[i - 1]
    BY <1>1, <1>5, <1>8 DEF Adds
  <2>2. Added(f[i - 1], i, kids, tree) \in Seq(T) /\ Len(Added(f[i - 1], i, kids, tree)) # 0
    BY <2>1, AddedType DEF T, Listed
  <2>3. ItemsMeaning(Added(f[i - 1], i, kids, tree), mean)
          = ItemsMeaning(f[i - 1], mean) \o KidMeaning(i, kids, tree, mean)
    <3>1. PICK items \in Seq(ItemParts(Q)) : items = f[i - 1]
      BY <2>1 DEF T
    <3>2. i > 1 => Len(items) # 0
      BY <2>1, <3>1
    <3>3. ItemsMeaning(Added(items, i, kids, tree), mean)
            = ItemsMeaning(items, mean) \o KidMeaning(i, kids, tree, mean)
      BY <2>1, <3>2, AddedMeans
    <3>. QED
      BY <3>1, <3>3
  <2>4. g[i] = g[i - 1] \o KidMeaning(i, kids, tree, mean)
    BY <1>3, <1>4, <1>6
  <2>5. ItemsMeaning(f[i], mean) = g[i]
    BY <2>1, <2>3, <2>4
  <2>. QED
    BY <2>1, <2>2, <2>5
<1>9. Len(kids) \in S
  <2>. HIDE DEF S
  <2>1. \A i \in 0 .. Len(kids) : i \in S
    BY <1>1, <1>7, <1>8, Upward
  <2>. QED
    BY <1>1, <2>1
<1>10. f[Len(kids)] \in Seq(T) /\ ItemsMeaning(f[Len(kids)], mean) = g[Len(kids)]
  BY <1>9
<1>. QED
  BY <1>2, <1>4, <1>5, <1>6, <1>10 DEF T

\* The indentation of a context says nothing.
LEMMA PadSilent ==
  ASSUME NEW tree, NEW of, NEW ctx \in Context(tree, of)
  PROVE  Pad(ctx) \in Says(<<>>)
BY ContextIs, PadSays

\* A token indented, with what follows it.
LEMMA PaddedSays ==
  ASSUME NEW p \in Says(<<>>), NEW x, NEW u \in Seq(Token), NEW m,
         <<x>> \in Seq(Token), <<x>> \o u \in Says(m)
  PROVE  p \o <<x>> \o u \in Says(m)
<1>1. p \o (<<x>> \o u) \in Says(m)
  BY SaysBetween
<1>2. p \in Seq(Token)
  BY SaysType
<1>3. (p \o <<x>>) \o u = p \o (<<x>> \o u)
  BY <1>2, ConcatThree
<1>. QED
  BY <1>1, <1>3

\* A text that is indented says the same.
LEMMA PaddedWord ==
  ASSUME NEW tree, NEW of, NEW ctx \in Context(tree, of), NEW m, NEW s \in Says(m)
  PROVE  Pad(ctx) \o s \in Says(m)
BY PadSilent, SaysBetween

\* The text of an item of a list, without its leading space.
LEMMA ItemRowSays ==
  ASSUME NEW tree, NEW of, NEW ctx \in Context(tree, of), NEW mean, NEW Q,
         Speaks(tree, of, mean, Q), NEW term \in Seq(Q), NEW parts \in Seq(Q), NEW k \in Nat
  PROVE  ItemLine(term, Strip(Children(parts, Deeper(ctx, k), Line).s), ctx)
           \in Says(ItemMeaning(term, parts, mean))
<1>1. Deeper(ctx, k) \in Context(tree, of)
  BY ContextIs
<1>2. Children(parts, Deeper(ctx, k), Line).s \in Says(Meanings(parts, mean))
  BY <1>1, ChildrenSay
<1>3. Strip(Children(parts, Deeper(ctx, k), Line).s) \in Says(Meanings(parts, mean))
  BY <1>2, StripSays
<1>. QED
  BY <1>3, ItemLineSays

\* What TeX should see of a list, and of an environment.
ListEvents(n, tree, mean) ==
  <<"\\begin{list}">> \o (IF n.opts THEN Option ELSE <<>>)
    \o ListMeaning(n.kids, tree, mean) \o <<"\\end{list}">>

\* A list says what its children do as items (latex.lua 371-399).
LEMMA ListSays ==
  ASSUME NEW tree, NEW of, NEW ctx \in Context(tree, of), NEW mean, NEW Q,
         Speaks(tree, of, mean, Q), Listed(tree, Q), NEW n, n.opts \in BOOLEAN, n.kids \in Seq(Q)
  PROVE  List(n, ctx) \in Says(ListEvents(n, tree, mean))
<1>. DEFINE p == Pad(ctx)
            Row(it) == Pad(Deeper(ctx, 1))
                         \o ItemLine(it.term, Strip(Children(it.parts, Deeper(ctx, 2), Line).s), ctx)
            items == Items(n.kids, ctx.tree)
            rows == [i \in DOMAIN items |-> Row(items[i])]
            h == [i \in DOMAIN items |-> ItemMeaning(items[i].term, items[i].parts, mean)]
            top == p \o <<"\\begin{list}">> \o Opts(n.opts)
            end == p \o <<"\\end{list}">>
            some == IF n.opts THEN Option ELSE <<>>
<1>1. List(n, ctx) = Join(<<top>> \o rows \o <<end>>, Line)
  BY DEF List
<1>2. /\ items \in Seq(ItemParts(Q)) /\ FlattenSeq(h) = ListMeaning(n.kids, tree, mean)
  <2>1. ctx.tree = tree
    BY ContextIs
  <2>2. Means(mean, Q)
    BY SpeaksMeans
  <2>3. /\ Items(n.kids, tree) \in Seq(ItemParts(Q))
        /\ ItemsMeaning(Items(n.kids, tree), mean) = ListMeaning(n.kids, tree, mean)
    BY <2>2, ItemsMean
  <2>. QED
    BY <2>1, <2>3 DEF ItemsMeaning
<1>3. ASSUME NEW it \in ItemParts(Q)
      PROVE  Row(it) \in Says(ItemMeaning(it.term, it.parts, mean))
  <2>1. it.term \in Seq(Q) /\ it.parts \in Seq(Q)
    BY DEF ItemParts
  <2>2. Deeper(ctx, 1) \in Context(tree, of) /\ 2 \in Nat
    BY ContextIs
  <2>3. ItemLine(it.term, Strip(Children(it.parts, Deeper(ctx, 2), Line).s), ctx)
          \in Says(ItemMeaning(it.term, it.parts, mean))
    BY <2>1, <2>2, ItemRowSays
  <2>. QED
    BY <2>2, <2>3, PaddedWord
<1>. HIDE DEF Row, items
<1>4. rows \in LinesSay(FlattenSeq(h))
  <2>1. MapOf(rows, items) /\ MapOf(h, items)
    BY Zenon DEF MapOf
  <2>2. \A i \in 1 .. Len(items) :
          /\ rows[i] = Row(items[i]) /\ items[i] \in ItemParts(Q)
          /\ h[i] = ItemMeaning(items[i].term, items[i].parts, mean)
    BY <1>2, IsSeq
  <2>. HIDE DEF rows, h
  <2>3. \A i \in 1 .. Len(items) : rows[i] \in Says(h[i])
    BY <1>3, <2>2
  <2>. QED
    BY <1>2, <2>1, <2>3, MapSays
<1>. HIDE DEF rows, h
<1>5. top \in Says(<<"\\begin{list}">> \o some)
  <2>1. "\\begin{list}" \in TakesOption
    BY DEF TakesOption
  <2>2. <<"\\begin{list}">> \o Opts(n.opts) \in Says(<<"\\begin{list}">> \o some)
    BY <2>1, OptsSay
  <2>3. <<"\\begin{list}">> \in Seq(Token) /\ Opts(n.opts) \in Seq(Token)
    <3>1. "\\begin{list}" \in Token
      BY DEF Token, Words
    <3>. QED
      BY <3>1, OneText, OptsGo DEF Goes
  <2>. QED
    BY <2>2, <2>3, PadSilent, PaddedSays
<1>6. end \in Says(<<"\\end{list}">>)
  <2>1. "\\end{list}" \in PlainWords
    BY DEF PlainWords, Words, Spaces, Newline, Space, Indent
  <2>. QED
    BY <2>1, WordsSay, PaddedWord
<1>. HIDE DEF top, end, some
<1>7. <<top>> \o rows \in LinesSay((<<"\\begin{list}">> \o some) \o FlattenSeq(h))
  BY <1>4, <1>5, LineSays, LinesSayMore
<1>8. (<<top>> \o rows) \o <<end>>
        \in LinesSay(((<<"\\begin{list}">> \o some) \o FlattenSeq(h)) \o <<"\\end{list}">>)
  BY <1>6, <1>7, LineSays, LinesSayMore
<1>9. Join(<<top>> \o rows \o <<end>>, Line)
        \in Says(((<<"\\begin{list}">> \o some) \o FlattenSeq(h)) \o <<"\\end{list}">>)
  BY <1>8, SpacesSay, JoinSays
<1>. QED
  BY <1>1, <1>2, <1>9, Zenon DEF some, ListEvents

----------------------------------------------------------------------------
(* Commands.                                                               *)

\* A token with what opens and closes a text behind it.
LEMMA PairSays ==
  ASSUME NEW a, NEW b, NEW c, NEW m, NEW s \in Says(m), After(a, b) \in Says(After(a, b)),
         c \in Says(c), a \in Seq(Token), b \in Seq(Token), a \in Seq(Sight), b \in Seq(Sight)
  PROVE  After(a, After(After(b, s), c)) \in Says(After(a, After(After(b, m), c)))
<1>1. /\ s \in Seq(Token) /\ m \in Seq(Sight) /\ c \in Seq(Token) /\ c \in Seq(Sight)
  BY SaysType
<1>2. After(After(After(a, b), s), c) = After(a, After(After(b, s), c))
  BY <1>1, AfterPair
<1>3. After(After(After(a, b), m), c) = After(a, After(After(b, m), c))
  BY <1>1, AfterPair
<1>4. After(After(After(a, b), s), c) \in Says(After(After(After(a, b), m), c))
  BY SaysMore DEF After
<1>. QED
  BY <1>2, <1>3, <1>4, Zenon

\* A command without options, whose name ends with the brace behind it.
LEMMA CmdGroupSays ==
  ASSUME NEW m, NEW s \in Says(m)
  PROVE  <<"\\cmd">> \o (<<"{">> \o s \o <<"}">>) \in Says(<<"\\cmd">> \o (<<"{">> \o m \o <<"}">>))
<1>1. /\ "\\cmd" \in Token /\ "\\cmd" \in Sight
      /\ "{" \in Token /\ "{" \in Sight
  BY DEF Token, Words, Sight
<1>2. /\ <<"\\cmd">> \in Seq(Token) /\ <<"\\cmd">> \in Seq(Sight)
      /\ <<"{">> \in Seq(Token) /\ <<"{">> \in Seq(Sight)
  BY <1>1, OneText
<1>3. <<"\\cmd", "{">> \in Says(<<"\\cmd", "{">>) /\ <<"}">> \in Says(<<"}">>)
  BY CmdSays, WordsSay
<1>4. <<"\\cmd", "{">> = After(<<"\\cmd">>, <<"{">>)
  BY TwoWords DEF After
<1>5. PICK w, o, c : w = <<"\\cmd">> /\ o = <<"{">> /\ c = <<"}">>
  OBVIOUS
<1>6. After(w, After(After(o, s), c)) \in Says(After(w, After(After(o, m), c)))
  BY <1>2, <1>3, <1>4, <1>5, PairSays
<1>. QED
  BY <1>5, <1>6, Zenon DEF After

\* A token before texts of which the first says something only behind it.
LEMMA HeadSays ==
  ASSUME NEW x, <<x>> \in Seq(Token), <<x>> \in Seq(Sight), NEW xs, NEW ks, Saying(xs, ks),
         xs \in Lists(Token), Len(xs) # 0, <<x>> \o xs[1] \in Says(<<x>> \o ks[1])
  PROVE  <<x>> \o FlattenSeq(xs) \in Says(<<x>> \o FlattenSeq(ks))
<1>0. \A a, b, c \in Seq(Token) : (a \o b) \o c = a \o (b \o c)
  BY ONLY ConcatThree
<1>1. /\ ks \in Lists(Sight) /\ Len(xs) = Len(ks) /\ Len(xs) \in Nat
      /\ \A i \in 1 .. Len(xs) : xs[i] \in Says(ks[i])
  BY DEF Saying, Lists
<1>2. PICK g : /\ g[0] = <<>> /\ g[Len(ks)] = FlattenSeq(ks)
               /\ \A i \in 0 .. Len(ks) : g[i] \in Seq(Sight)
               /\ \A i \in 1 .. Len(ks) : g[i] = g[i - 1] \o ks[i]
  BY <1>1, FlattenSteps
<1>3. \A i \in 1 .. Len(xs) : xs[i] \in Seq(Token) /\ ks[i] \in Seq(Sight)
  BY <1>1, SaysType
<1>. DEFINE G == [i \in 0 .. Len(xs) |->
                    IF i = 0 THEN {<<>>}
                    ELSE {a \in Seq(Token) : <<x>> \o a \in Says(<<x>> \o g[i])}]
<1>4. /\ G[0] = {<<>>}
      /\ \A i \in 1 .. Len(xs) : G[i] = {a \in Seq(Token) : <<x>> \o a \in Says(<<x>> \o g[i])}
  BY <1>1
<1>. HIDE DEF G
<1>5. <<>> \in G[0]
  BY <1>4
<1>6. ASSUME NEW i \in 1 .. Len(xs), NEW a \in G[i - 1] \cap Seq(Token)
      PROVE  a \o xs[i] \in G[i]
  <2>1. xs[i] \in Seq(Token) /\ ks[i] \in Seq(Sight) /\ xs[i] \in Says(ks[i]) /\ g[i] = g[i - 1] \o ks[i]
    BY <1>1, <1>2, <1>3
  <2>2. a \o xs[i] \in Seq(Token)
    BY <2>1, ConcatType
  <2>3. CASE i = 1
    <3>1. a = <<>> /\ g[i - 1] = <<>>
      BY <1>2, <1>4, <2>3
    <3>2. a \o xs[i] = xs[1] /\ g[i] = ks[1]
      BY <2>1, <2>3, <3>1, NoText
    <3>. QED
      BY <1>4, <2>2, <3>2
  <2>4. CASE i # 1
    <3>1. i - 1 \in 1 .. Len(xs) /\ i - 1 \in 0 .. Len(ks)
      BY <1>1, <2>4
    <3>2. <<x>> \o a \in Says(<<x>> \o g[i - 1])
      BY <1>4, <3>1
    <3>3. (<<x>> \o a) \o xs[i] \in Says((<<x>> \o g[i - 1]) \o ks[i])
      BY <2>1, <3>2, SaysMore
    <3>4. (<<x>> \o a) \o xs[i] = <<x>> \o (a \o xs[i])
      <4>1. <<x>> \in Seq(Token) /\ a \in Seq(Token) /\ xs[i] \in Seq(Token)
        BY <2>1
      <4>. QED
        BY <1>0, <4>1, Zenon
    <3>5. (<<x>> \o g[i - 1]) \o ks[i] = <<x>> \o (g[i - 1] \o ks[i])
      <4>1. g[i - 1] \in Seq(Sight)
        BY <1>2, <3>1
      <4>. QED
        BY <2>1, <4>1, SightsGroup
    <3>6. <<x>> \o (a \o xs[i]) \in Says(<<x>> \o g[i])
      BY <2>1, <3>3, <3>4, <3>5, Zenon
    <3>. QED
      BY <1>4, <2>2, <3>6
  <2>. QED
    BY <2>3, <2>4
<1>7. FlattenSeq(xs) \in G[Len(xs)]
  BY <1>5, <1>6, FlattenThrough
<1>8. Len(xs) \in 1 .. Len(xs)
  BY <1>1
<1>. QED
  BY <1>1, <1>2, <1>4, <1>7, <1>8

\* A command says its arguments (latex.lua 158-160).
LEMMA CmdIsSaid ==
  ASSUME NEW tree, NEW of, NEW ctx \in Context(tree, of), NEW mean, NEW Q,
         Speaks(tree, of, mean, Q), NEW n, n.opts \in BOOLEAN, n.kids \in Seq(Q), n.kids # <<>>
  PROVE  Cmd(n, ctx) \in Says(<<"\\cmd">> \o (IF n.opts THEN Option ELSE <<>>)
                                \o Arguments(n.kids, mean))
<1>1. Groups(n.kids, ctx) \in Says(Arguments(n.kids, mean))
  BY GroupsSay
<1>2. CASE n.opts
  <2>1. "\\cmd" \in TakesOption
    BY DEF TakesOption
  <2>2. <<"\\cmd">> \o Opts(n.opts) \in Says(<<"\\cmd">> \o (IF n.opts THEN Option ELSE <<>>))
    BY <1>2, <2>1, OptsSay
  <2>. QED
    BY <1>1, <2>2, SaysMore DEF Cmd
<1>3. CASE ~n.opts
  <2>. DEFINE kids == n.kids
              g == [i \in DOMAIN kids |-> Group(<<kids[i]>>, ctx)]
              h == [i \in DOMAIN kids |-> Braces(<<kids[i]>>, mean)]
  <2>1. Groups(n.kids, ctx) = FlattenSeq(g) /\ Arguments(n.kids, mean) = FlattenSeq(h)
    BY DEF Groups, Arguments
  <2>2. MapOf(g, kids) /\ MapOf(h, kids)
    BY Zenon DEF MapOf
  <2>3. /\ \A i \in 1 .. Len(kids) : /\ g[i] = Group(<<kids[i]>>, ctx)
                                     /\ h[i] = Braces(<<kids[i]>>, mean) /\ <<kids[i]>> \in Seq(Q)
        /\ kids \in Seq(Q) /\ 1 \in 1 .. Len(kids)
    <3>1. kids \in Seq(Q) /\ Len(kids) # 0 /\ Len(kids) \in Nat
      OBVIOUS
    <3>2. DOMAIN kids = 1 .. Len(kids) /\ \A i \in 1 .. Len(kids) : kids[i] \in Q
      BY <3>1, IsSeq
    <3>. QED
      BY <3>1, <3>2, OneKid
  <2>. HIDE DEF g, h
  <2>4. ASSUME NEW i \in 1 .. Len(kids) PROVE g[i] \in Says(h[i])
    <3>1. PICK one \in Seq(Q) : one = <<kids[i]>>
      BY <2>3
    <3>2. Group(one, ctx) \in Says(Braces(one, mean))
      BY GroupSays
    <3>. QED
      BY <2>3, <3>1, <3>2, Zenon
  <2>5. /\ g \in Lists(Token) /\ h \in Lists(Sight) /\ Len(g) = Len(kids) /\ Len(h) = Len(kids)
    <3>. HIDE DEF kids
    <3>. QED
      BY <2>2, <2>3, <2>4, MapSays
  <2>6. Saying(g, h)
    BY <2>4, <2>5 DEF Saying
  <2>7. <<"\\cmd">> \o g[1] \in Says(<<"\\cmd">> \o h[1])
    <3>1. Inline(<<kids[1]>>, ctx) \in Says(Meanings(<<kids[1]>>, mean))
      BY <2>3, ChildrenSay
    <3>. QED
      BY <2>3, <3>1, CmdGroupSays DEF Group, Braces
  <2>8. /\ <<"\\cmd">> \in Seq(Token) /\ <<"\\cmd">> \in Seq(Sight)
    BY OneText DEF Token, Words, Sight
  <2>9. <<"\\cmd">> \o FlattenSeq(g) \in Says(<<"\\cmd">> \o FlattenSeq(h))
    <3>1. Len(g) # 0
      BY <2>3, <2>5
    <3>. QED
      BY <2>5, <2>6, <2>7, <2>8, <3>1, HeadSays
  <2>10. /\ <<"\\cmd">> \o Opts(n.opts) = <<"\\cmd">>
         /\ <<"\\cmd">> \o (IF n.opts THEN Option ELSE <<>>) = <<"\\cmd">>
    BY <1>3, <2>8, NoText DEF Opts
  <2>. QED
    BY <2>1, <2>9, <2>10, Zenon DEF Cmd
<1>. QED
  BY <1>2, <1>3

----------------------------------------------------------------------------
(* Environments, items and sections.                                       *)

\* Words that open a line of the text.
LEMMA TakersSay ==
  ASSUME NEW x \in TakesOption \ {"\\cmd"}
  PROVE  <<x>> \in Says(<<x>>)
<1>1. x \in PlainWords
  BY DEF PlainWords, TakesOption, Words, Spaces, Newline, Space, Indent
<1>. QED
  BY <1>1, WordsSay

\* A line that opens an environment, with its options.
LEMMA BeginSays ==
  ASSUME NEW p \in Says(<<>>), NEW x \in TakesOption \ {"\\cmd"}, NEW b \in BOOLEAN
  PROVE  p \o <<x>> \o Opts(b) \in Says(<<x>> \o (IF b THEN Option ELSE <<>>))
<1>1. <<x>> \o Opts(b) \in Says(<<x>> \o (IF b THEN Option ELSE <<>>))
  BY OptsSay
<1>2. <<x>> \in Seq(Token) /\ Opts(b) \in Seq(Token)
  BY TakersSay, SaysType, OptsGo DEF Goes
<1>. QED
  BY <1>1, <1>2, PaddedSays

EnvEvents(n, mean) ==
  <<"\\begin{env}">> \o (IF n.opts THEN Option ELSE <<>>)
    \o Arguments(n.args, mean) \o Meanings(n.kids, mean) \o <<"\\end{env}">>

\* An environment says its arguments and its children (latex.lua 184-198).
LEMMA EnvSays ==
  ASSUME NEW tree, NEW of, NEW ctx \in Context(tree, of), NEW mean, NEW Q,
         Speaks(tree, of, mean, Q), NEW n, n.opts \in BOOLEAN, n.kids \in Seq(Q), n.args \in Seq(Q),
         \A k \in ToSet(n.args) : tree[k].t = "text" => "%" \notin ToSet(tree[k].s)
  PROVE  Env(n, ctx) \in Says(EnvEvents(n, mean))
<1>. DEFINE ps == Pieces(n.kids, ctx)
            items == \E i \in DOMAIN ps : ps[i].t = "item"
            p == IF items THEN Pad(ctx) ELSE <<>>
            body == IF items THEN Children(n.kids, Deeper(ctx, 1), Line).s ELSE Inline(n.kids, ctx)
            more == IF body = <<>> THEN <<>> ELSE Line \o body
<1>1. Env(n, ctx) = p \o <<"\\begin{env}">> \o Opts(n.opts) \o EnvArgs(n.args, ctx)
                      \o more \o Line \o p \o <<"\\end{env}">>
  BY DEF Env
<1>. HIDE DEF ps, items
<1>2. p \in Says(<<>>)
  BY PadSilent, SaysNone
<1>3. body \in Says(Meanings(n.kids, mean))
  <2>1. Deeper(ctx, 1) \in Context(tree, of)
    BY ContextIs
  <2>2. Children(n.kids, Deeper(ctx, 1), Line).s \in Says(Meanings(n.kids, mean))
    BY <2>1, ChildrenSay
  <2>3. Inline(n.kids, ctx) \in Says(Meanings(n.kids, mean))
    BY ChildrenSay
  <2>. QED
    BY <2>2, <2>3
<1>. HIDE DEF p, body
<1>4. more \in Says(Meanings(n.kids, mean))
  BY <1>3, SpacesSay, SaysAfter
<1>. HIDE DEF more
<1>5. p \o <<"\\begin{env}">> \o Opts(n.opts)
        \in Says(<<"\\begin{env}">> \o (IF n.opts THEN Option ELSE <<>>))
  <2>1. "\\begin{env}" \in TakesOption \ {"\\cmd"}
    BY DEF TakesOption
  <2>. QED
    BY <1>2, <2>1, BeginSays
<1>6. PICK a, c : /\ a = p \o <<"\\begin{env}">> \o Opts(n.opts)
                  /\ c = <<"\\begin{env}">> \o (IF n.opts THEN Option ELSE <<>>)
  OBVIOUS
<1>7. EnvArgs(n.args, ctx) \in Says(Arguments(n.args, mean))
  BY EnvArgsSay
<1>8. <<"\\end{env}">> \in Says(<<"\\end{env}">>)
  <2>1. "\\end{env}" \in PlainWords
    BY DEF PlainWords, Words, Spaces, Newline, Space, Indent
  <2>. QED
    BY <2>1, WordsSay
<1>9. a \o EnvArgs(n.args, ctx) \in Says(c \o Arguments(n.args, mean))
  BY <1>5, <1>6, <1>7, SaysMore
<1>10. a \o EnvArgs(n.args, ctx) \o more \in Says(c \o Arguments(n.args, mean) \o Meanings(n.kids, mean))
  BY <1>4, <1>9, SaysMore
<1>11. a \o EnvArgs(n.args, ctx) \o more \o Line \o p
         \in Says(c \o Arguments(n.args, mean) \o Meanings(n.kids, mean))
  BY <1>2, <1>10, SpacesSay, SaysBetween
<1>12. a \o EnvArgs(n.args, ctx) \o more \o Line \o p \o <<"\\end{env}">>
         \in Says(c \o Arguments(n.args, mean) \o Meanings(n.kids, mean) \o <<"\\end{env}">>)
  BY <1>8, <1>11, SaysMore
<1>. QED
  BY <1>1, <1>6, <1>12, Zenon DEF EnvEvents

\* An item says its term and its children (latex.lua 249-253).
LEMMA ItemSays ==
  ASSUME NEW tree, NEW of, NEW ctx \in Context(tree, of), NEW mean, NEW Q,
         Speaks(tree, of, mean, Q), NEW n, n.term \in Seq(Q), n.kids \in Seq(Q)
  PROVE  Item(n, ctx) \in Says(ItemMeaning(n.term, n.kids, mean))
<1>1. ItemLine(n.term, Strip(Children(n.kids, Deeper(ctx, 1), Line).s), ctx)
        \in Says(ItemMeaning(n.term, n.kids, mean))
  <2>1. 1 \in Nat
    OBVIOUS
  <2>. QED
    BY <2>1, ItemRowSays
<1>. QED
  BY <1>1, PaddedWord DEF Item

\* A label on a line of its own.
LEMMA LabelSays ==
  ASSUME NEW b \in BOOLEAN
  PROVE  (IF b THEN Line \o <<"\\label">> ELSE <<>>) \in Says(IF b THEN <<"\\label">> ELSE <<>>)
<1>1. "\\label" \in PlainWords
  BY DEF PlainWords, Words, Spaces, Newline, Space, Indent
<1>2. Line \o <<"\\label">> \in Says(<<"\\label">>)
  BY <1>1, WordsSay, SpacesSay, SaysBetween
<1>. QED
  BY <1>2, SaysNone

\* A section says its title and its children (latex.lua 336-344).
LEMMA SectionSays ==
  ASSUME NEW tree, NEW of, NEW ctx \in Context(tree, of), NEW mean, NEW Q,
         Speaks(tree, of, mean, Q), NEW n, n.short \in Seq(Q), n.title \in Seq(Q),
         n.kids \in Seq(Q), n.label \in BOOLEAN
  PROVE  Section(n, ctx) \in Says(<<"\\section">> \o TermMeaning(n.short, mean)
                                    \o Braces(n.title, mean)
                                    \o (IF n.label THEN <<"\\label">> ELSE <<>>)
                                    \o Meanings(n.kids, mean))
<1>. DEFINE body == Inline(n.kids, ctx)
            more == IF body = <<>> THEN <<>> ELSE Blank \o body
            label == IF n.label THEN Line \o <<"\\label">> ELSE <<>>
            a == <<"\\section">> \o Term(n.short, ctx)
            c == <<"\\section">> \o TermMeaning(n.short, mean)
<1>1. Section(n, ctx) = a \o Group(n.title, ctx) \o label \o more
  BY DEF Section
<1>2. more \in Says(Meanings(n.kids, mean))
  <2>1. body \in Says(Meanings(n.kids, mean))
    BY ChildrenSay
  <2>. HIDE DEF body
  <2>. QED
    BY <2>1, SpacesSay, SaysAfter
<1>3. a \in Says(c)
  <2>1. "\\section" \in TermWords
    BY DEF TermWords
  <2>. QED
    BY <2>1, TermSays
<1>4. label \in Says(IF n.label THEN <<"\\label">> ELSE <<>>)
  BY LabelSays
<1>5. Group(n.title, ctx) \in Says(Braces(n.title, mean))
  BY GroupSays
<1>. HIDE DEF label, more, a, c
<1>6. a \o Group(n.title, ctx) \in Says(c \o Braces(n.title, mean))
  BY <1>3, <1>5, SaysMore
<1>7. a \o Group(n.title, ctx) \o label
        \in Says(c \o Braces(n.title, mean) \o (IF n.label THEN <<"\\label">> ELSE <<>>))
  BY <1>4, <1>6, SaysMore
<1>8. a \o Group(n.title, ctx) \o label \o more
        \in Says(c \o Braces(n.title, mean)
                   \o (IF n.label THEN <<"\\label">> ELSE <<>>) \o Meanings(n.kids, mean))
  BY <1>2, <1>7, SaysMore
<1>. QED
  BY <1>1, <1>8 DEF c

----------------------------------------------------------------------------
(* Tables and floats.                                                      *)

\* Two lines say one thing after the other.
LEMMA TwoLines ==
  ASSUME NEW m, NEW k, NEW s \in Says(m), NEW t \in Says(k)
  PROVE  <<s, t>> \in LinesSay(m \o k)
<1>1. <<s>> \in LinesSay(m) /\ <<t>> \in LinesSay(k)
  BY LineSays
<1>2. <<s>> \o <<t>> \in LinesSay(m \o k)
  BY <1>1, LinesSayMore
<1>. QED
  BY <1>2, TwoWords, Zenon

\* Two tokens that say themselves.
LEMMA TwoSay ==
  ASSUME NEW x, NEW y, <<x>> \in Says(<<x>>), <<y>> \in Says(<<y>>)
  PROVE  <<x, y>> \in Says(<<x, y>>)
<1>1. <<x>> \o <<y>> \in Says(<<x>> \o <<y>>)
  BY SaysMore
<1>. QED
  BY <1>1, TwoWords, Zenon

\* The end of a row.
LEMMA RowEndSays == <<Space, "\\\\">> \in Says(<<"\\\\">>)
<1>1. <<"\\\\">> \in Says(<<"\\\\">>)
  <2>1. "\\\\" \in TakesOption \ {"\\cmd"}
    BY DEF TakesOption
  <2>. QED
    BY <2>1, TakersSay
<1>2. <<Space>> \in Says(<<>>)
  <2>1. Space \in Spaces
    BY DEF Spaces
  <2>2. <<Space>> \in Seq(Spaces)
    BY <2>1, OneText
  <2>. QED
    BY <2>2, SilentText
<1>3. <<Space>> \o <<"\\\\">> \in Says(<<"\\\\">>)
  BY <1>1, <1>2, SaysBetween
<1>. QED
  BY <1>3, TwoWords, Zenon

\* What stands between two cells.
LEMMA CellEndSays == <<" & ">> \in Says(<<" & ">>)
<1>1. " & " \in PlainWords
  BY DEF PlainWords, Words, Spaces, Newline, Space, Indent
<1>. QED
  BY <1>1, WordsSay

\* Cells say what stands in them, one after another.
LEMMA CellsSay ==
  ASSUME NEW tree, NEW of, NEW ctx \in Context(tree, of), NEW mean, NEW Q,
         Speaks(tree, of, mean, Q), NEW cells \in Seq(Q)
  PROVE  RowStr(cells, ctx) \in Says(RowMeaning(cells, mean))
<1>. DEFINE g == [i \in DOMAIN cells |-> Inline(<<cells[i]>>, ctx)]
            h == [i \in DOMAIN cells |-> mean[cells[i]]]
<1>1. /\ RowStr(cells, ctx) = Join(g, <<" & ">>) \o <<Space, "\\\\">>
      /\ RowMeaning(cells, mean) = Join(h, <<" & ">>) \o <<"\\\\">>
  BY DEF RowStr, RowMeaning
<1>2. MapOf(g, cells) /\ MapOf(h, cells)
  BY Zenon DEF MapOf
<1>3. \A i \in 1 .. Len(cells) :
        g[i] = Inline(<<cells[i]>>, ctx) /\ h[i] = mean[cells[i]] /\ cells[i] \in Q
  BY IsSeq
<1>. HIDE DEF g, h
<1>4. ASSUME NEW k \in Q PROVE Inline(<<k>>, ctx) \in Says(mean[k])
  <2>1. mean[k] \in Seq(Sight)
    BY SpeaksMeans DEF Means
  <2>2. <<k>> \in Seq(Q)
    BY OneKid
  <2>3. Inline(<<k>>, ctx) \in Says(Meanings(<<k>>, mean))
    BY <2>2, ChildrenSay
  <2>. QED
    BY <2>1, <2>3, MeaningsOne
<1>5. \A i \in 1 .. Len(cells) : g[i] \in Says(h[i])
  BY <1>3, <1>4
<1>6. g \in Lists(Token) /\ h \in Lists(Sight) /\ Len(g) = Len(cells) /\ Len(h) = Len(cells)
  BY <1>2, <1>5, MapSays
<1>7. Saying(g, h)
  BY <1>5, <1>6 DEF Saying
<1>8. Join(g, <<" & ">>) \in Says(Join(h, <<" & ">>))
  BY <1>6, <1>7, CellEndSays, JoinBoth
<1>. QED
  BY <1>1, <1>8, RowEndSays, SaysMore

RowLine(k, ctx) == Pad(Deeper(ctx, 1)) \o RowStr(Cells(ctx.tree[k]), ctx)

\* A row of a table says its cells.
LEMMA RowSays ==
  ASSUME NEW tree, NEW of, NEW ctx \in Context(tree, of), NEW mean, NEW Q,
         Speaks(tree, of, mean, Q), Tabled(tree, Q), NEW k \in Q
  PROVE  RowLine(k, ctx) \in Says(RowMeaning(Cells(tree[k]), mean))
<1>1. ctx.tree = tree /\ Deeper(ctx, 1) \in Context(tree, of)
  BY ContextIs
<1>2. Cells(tree[k]) \in Seq(Q)
  BY DEF Tabled
<1>3. RowStr(Cells(tree[k]), ctx) \in Says(RowMeaning(Cells(tree[k]), mean))
  BY <1>2, CellsSay
<1>. QED
  BY <1>1, <1>3, PaddedWord DEF RowLine

RuleLine(ctx) == Pad(Deeper(ctx, 1)) \o <<"\\rule">>

\* A rule.
LEMMA RuleSays ==
  ASSUME NEW tree, NEW of, NEW ctx \in Context(tree, of)
  PROVE  RuleLine(ctx) \in Says(<<"\\rule">>)
<1>1. "\\rule" \in PlainWords
  BY DEF PlainWords, Words, Spaces, Newline, Space, Indent
<1>2. Deeper(ctx, 1) \in Context(tree, of)
  BY ContextIs
<1>. QED
  BY <1>1, <1>2, WordsSay, PaddedWord DEF RuleLine

\* The rows of a table.
LEMMA TableRowsSay ==
  ASSUME NEW tree, NEW of, NEW ctx \in Context(tree, of), NEW mean, NEW Q,
         Speaks(tree, of, mean, Q), Tabled(tree, Q), NEW kids \in Seq(Q)
  PROVE  [i \in DOMAIN kids |-> IF tree[kids[i]].t = "rule" THEN RuleLine(ctx) ELSE RowLine(kids[i], ctx)]
           \in LinesSay(RowsMeaning(kids, tree, mean))
<1>. DEFINE g == [i \in DOMAIN kids |-> IF tree[kids[i]].t = "rule" THEN RuleLine(ctx) ELSE RowLine(kids[i], ctx)]
            h == [i \in DOMAIN kids |-> IF tree[kids[i]].t = "rule" THEN <<"\\rule">>
                                        ELSE RowMeaning(Cells(tree[kids[i]]), mean)]
<1>1. RowsMeaning(kids, tree, mean) = FlattenSeq(h)
  BY DEF RowsMeaning
<1>2. MapOf(g, kids) /\ MapOf(h, kids)
  BY Zenon DEF MapOf
<1>3. \A i \in 1 .. Len(kids) :
        /\ g[i] = IF tree[kids[i]].t = "rule" THEN RuleLine(ctx) ELSE RowLine(kids[i], ctx)
        /\ h[i] = IF tree[kids[i]].t = "rule" THEN <<"\\rule">> ELSE RowMeaning(Cells(tree[kids[i]]), mean)
        /\ kids[i] \in Q
  BY IsSeq
<1>. HIDE DEF g, h
<1>4. ASSUME NEW i \in 1 .. Len(kids) PROVE g[i] \in Says(h[i])
  <2>1. PICK k \in Q : k = kids[i]
    BY <1>3
  <2>2. RowLine(k, ctx) \in Says(RowMeaning(Cells(tree[k]), mean))
    BY RowSays
  <2>3. RuleLine(ctx) \in Says(<<"\\rule">>)
    BY RuleSays
  <2>4. CASE tree[k].t = "rule"
    <3>1. g[i] = RuleLine(ctx) /\ h[i] = <<"\\rule">>
      BY <1>3, <2>1, <2>4
    <3>. QED
      BY <2>3, <3>1, Zenon
  <2>5. CASE tree[k].t # "rule"
    <3>1. g[i] = RowLine(k, ctx) /\ h[i] = RowMeaning(Cells(tree[k]), mean)
      BY <1>3, <2>1, <2>5
    <3>. QED
      BY <2>2, <3>1, Zenon
  <2>. QED
    BY <2>4, <2>5
<1>5. g \in LinesSay(FlattenSeq(h))
  BY <1>2, <1>4, MapSays
<1>. QED
  BY <1>1, <1>5 DEF g

\* What TeX should see of a table that is not resized.
InnerMeaning(n, tree, mean) ==
  <<"\\begin{tabular}", "\\rule">>
    \o (IF n.header = <<>> THEN <<>> ELSE RowMeaning(Cells(tree[n.header[1]]), mean) \o <<"\\rule">>)
    \o RowsMeaning(n.rows, tree, mean) \o <<"\\rule", "\\end{tabular}">>

\* The header of a table.
LEMMA HeaderSays ==
  ASSUME NEW tree, NEW of, NEW ctx \in Context(tree, of), NEW mean, NEW Q,
         Speaks(tree, of, mean, Q), Tabled(tree, Q), NEW n, n.header \in Seq(Q)
  PROVE  (IF n.header = <<>> THEN <<>> ELSE <<RowLine(n.header[1], ctx), RuleLine(ctx)>>)
           \in LinesSay(IF n.header = <<>> THEN <<>>
                        ELSE RowMeaning(Cells(tree[n.header[1]]), mean) \o <<"\\rule">>)
<1>1. CASE n.header = <<>>
  BY <1>1, NoLineSays
<1>2. CASE n.header # <<>>
  <2>1. PICK k \in Q : k = n.header[1]
    BY <1>2
  <2>2. RowLine(k, ctx) \in Says(RowMeaning(Cells(tree[k]), mean))
    BY RowSays
  <2>3. RuleLine(ctx) \in Says(<<"\\rule">>)
    BY RuleSays
  <2>4. <<RowLine(k, ctx), RuleLine(ctx)>>
          \in LinesSay(RowMeaning(Cells(tree[k]), mean) \o <<"\\rule">>)
    BY <2>2, <2>3, TwoLines
  <2>. QED
    BY <1>2, <2>1, <2>4, Zenon
<1>. QED
  BY <1>1, <1>2

\* A table says its header and its rows.
LEMMA RowsSay ==
  ASSUME NEW tree, NEW of, NEW ctx \in Context(tree, of), NEW mean, NEW Q,
         Speaks(tree, of, mean, Q), Tabled(tree, Q), NEW n, n.header \in Seq(Q), n.rows \in Seq(Q)
  PROVE  Rows(n, ctx) \in Says(InnerMeaning(n, tree, mean))
<1>. DEFINE p == Pad(ctx)
            top == p \o <<"\\begin{tabular}">>
            rule == RuleLine(ctx)
            header == IF n.header = <<>> THEN <<>> ELSE <<RowLine(n.header[1], ctx), RuleLine(ctx)>>
            kids == n.rows
            rows == [i \in DOMAIN kids |-> IF tree[kids[i]].t = "rule" THEN RuleLine(ctx)
                                           ELSE RowLine(kids[i], ctx)]
            end == p \o <<"\\end{tabular}">>
            h == IF n.header = <<>> THEN <<>>
                 ELSE RowMeaning(Cells(tree[n.header[1]]), mean) \o <<"\\rule">>
<1>1. Rows(n, ctx) = Join(<<top, rule>> \o header \o rows \o <<rule, end>>, Line)
  <2>1. ctx.tree = tree
    BY ContextIs
  <2>. QED
    BY <2>1, Zenon DEF Rows, RowLine, RuleLine
<1>2. InnerMeaning(n, tree, mean)
        = <<"\\begin{tabular}", "\\rule">> \o h \o RowsMeaning(kids, tree, mean)
            \o <<"\\rule", "\\end{tabular}">>
  BY DEF InnerMeaning
<1>3. header \in LinesSay(h)
  BY HeaderSays
<1>4. rows \in LinesSay(RowsMeaning(kids, tree, mean))
  BY TableRowsSay
<1>5. "\\begin{tabular}" \in PlainWords /\ "\\end{tabular}" \in PlainWords
  BY DEF PlainWords, Words, Spaces, Newline, Space, Indent
<1>6. top \in Says(<<"\\begin{tabular}">>) /\ end \in Says(<<"\\end{tabular}">>)
  BY <1>5, WordsSay, PaddedWord
<1>7. rule \in Says(<<"\\rule">>)
  BY RuleSays
<1>. HIDE DEF p, top, rule, header, rows, end, h, kids
<1>8. <<top, rule>> \in LinesSay(<<"\\begin{tabular}", "\\rule">>)
  <2>1. <<top, rule>> \in LinesSay(<<"\\begin{tabular}">> \o <<"\\rule">>)
    BY <1>6, <1>7, TwoLines
  <2>. QED
    BY <2>1, TwoWords, Zenon
<1>9. <<rule, end>> \in LinesSay(<<"\\rule", "\\end{tabular}">>)
  <2>1. <<rule, end>> \in LinesSay(<<"\\rule">> \o <<"\\end{tabular}">>)
    BY <1>6, <1>7, TwoLines
  <2>. QED
    BY <2>1, TwoWords, Zenon
<1>10. <<top, rule>> \o header \in LinesSay(<<"\\begin{tabular}", "\\rule">> \o h)
  BY <1>3, <1>8, LinesSayMore
<1>11. <<top, rule>> \o header \o rows
         \in LinesSay(<<"\\begin{tabular}", "\\rule">> \o h \o RowsMeaning(kids, tree, mean))
  BY <1>4, <1>10, LinesSayMore
<1>12. <<top, rule>> \o header \o rows \o <<rule, end>>
         \in LinesSay(<<"\\begin{tabular}", "\\rule">> \o h \o RowsMeaning(kids, tree, mean)
                        \o <<"\\rule", "\\end{tabular}">>)
  BY <1>9, <1>11, LinesSayMore
<1>13. Rows(n, ctx)
         \in Says(<<"\\begin{tabular}", "\\rule">> \o h \o RowsMeaning(kids, tree, mean)
                    \o <<"\\rule", "\\end{tabular}">>)
  BY <1>1, <1>12, SpacesSay, JoinSays
<1>. QED
  BY <1>2, <1>13

\* Two tokens that say nothing behind two that do.
LEMMA SilentPair ==
  ASSUME NEW x, NEW y, NEW z, NEW w, NEW m, <<x, y>> \in Says(m), <<z, w>> \in Says(<<>>)
  PROVE  <<x, y, z, w>> \in Says(m)
<1>1. PICK a \in Says(m), b \in Says(<<>>) : a = <<x, y>> /\ b = <<z, w>>
  OBVIOUS
<1>2. a \o b = <<x, y, z, w>>
  BY <1>1, FourWords
<1>3. a \o b \in Says(m)
  BY SaysBetween
<1>. QED
  BY <1>2, <1>3, Zenon

\* So does one that is resized (latex.lua 503-510).
LEMMA TabularSays ==
  ASSUME NEW tree, NEW of, NEW ctx \in Context(tree, of), NEW mean, NEW Q,
         Speaks(tree, of, mean, Q), Tabled(tree, Q), NEW n, n.header \in Seq(Q),
         n.rows \in Seq(Q), n.resize \in BOOLEAN
  PROVE  Tabular(n, ctx) \in Says(TableMeaning(n, tree, mean))
<1>1. TableMeaning(n, tree, mean)
        = IF n.resize THEN <<"\\resizebox", "{">> \o InnerMeaning(n, tree, mean) \o <<"}">>
          ELSE InnerMeaning(n, tree, mean)
  BY DEF TableMeaning, InnerMeaning
<1>2. CASE ~n.resize
  BY <1>1, <1>2, RowsSay DEF Tabular
<1>3. CASE n.resize
  <2>1. "\\resizebox" \in PlainWords
    BY DEF PlainWords, Words, Spaces, Newline, Space, Indent
  <2>2. <<"\\resizebox", "{">> \in Says(<<"\\resizebox", "{">>)
    BY <2>1, WordsSay, TwoSay
  <2>3. <<"\\resizebox", "{", "%", Newline>> \in Says(<<"\\resizebox", "{">>)
    BY <2>2, CommentSays, SilentPair
  <2>4. Deeper(ctx, 1) \in Context(tree, of)
    BY ContextIs
  <2>5. Rows(n, Deeper(ctx, 1)) \in Says(InnerMeaning(n, tree, mean))
    BY <2>4, RowsSay
  <2>6. Pad(ctx) \o <<"\\resizebox", "{", "%", Newline>> \in Says(<<"\\resizebox", "{">>)
    BY <2>3, PaddedWord
  <2>7. Pad(ctx) \o <<"\\resizebox", "{", "%", Newline>> \o Rows(n, Deeper(ctx, 1))
          \in Says(<<"\\resizebox", "{">> \o InnerMeaning(n, tree, mean))
    BY <2>5, <2>6, SaysMore
  <2>8. Pad(ctx) \o <<"\\resizebox", "{", "%", Newline>> \o Rows(n, Deeper(ctx, 1)) \o Line \o Pad(ctx)
          \in Says(<<"\\resizebox", "{">> \o InnerMeaning(n, tree, mean))
    BY <2>7, SpacesSay, PadSilent, SaysBetween
  <2>9. Pad(ctx) \o <<"\\resizebox", "{", "%", Newline>> \o Rows(n, Deeper(ctx, 1)) \o Line \o Pad(ctx)
          \o <<"}">> \in Says(<<"\\resizebox", "{">> \o InnerMeaning(n, tree, mean) \o <<"}">>)
    BY <2>8, WordsSay, SaysMore
  <2>10. Tabular(n, ctx)
           = Pad(ctx) \o <<"\\resizebox", "{", "%", Newline>> \o Rows(n, Deeper(ctx, 1)) \o Line
               \o Pad(ctx) \o <<"}">>
    BY <1>3 DEF Tabular
  <2>11. TableMeaning(n, tree, mean) = <<"\\resizebox", "{">> \o InnerMeaning(n, tree, mean) \o <<"}">>
    BY <1>1, <1>3
  <2>. QED
    BY <2>9, <2>10, <2>11, Zenon
<1>. QED
  BY <1>2, <1>3

\* The first line of a float, with its option.
LEMMA FloatBegins ==
  ASSUME NEW p \in Says(<<>>)
  PROVE  p \o <<"\\begin{float}", "[", "opt", "]">> \in Says(<<"\\begin{float}">> \o Option)
<1>1. PICK c \in BOOLEAN : c
  OBVIOUS
<1>2. "\\begin{float}" \in TakesOption /\ "\\begin{float}" # "\\cmd"
  BY DEF TakesOption
<1>3. <<"\\begin{float}">> \o Opts(c) \in Says(<<"\\begin{float}">> \o (IF c THEN Option ELSE <<>>))
  BY <1>2, OptsSay
<1>4. Opts(c) = <<"[", "opt", "]">> /\ (IF c THEN Option ELSE <<>>) = Option
  BY <1>1 DEF Opts
<1>5. <<"\\begin{float}", "[", "opt", "]">> = <<"\\begin{float}">> \o <<"[", "opt", "]">>
  BY OneAndThree, Zenon
<1>6. <<"\\begin{float}", "[", "opt", "]">> \in Says(<<"\\begin{float}">> \o Option)
  BY <1>3, <1>4, <1>5, Zenon
<1>. QED
  BY <1>6, SaysBetween

\* The lines of a caption and a label.
LEMMA CaptionSays ==
  ASSUME NEW tree, NEW of, NEW ctx \in Context(tree, of), NEW mean, NEW Q,
         Speaks(tree, of, mean, Q), NEW n, n.caption \in Seq(Q), n.label \in BOOLEAN,
         NEW p \in Says(<<>>)
  PROVE  (IF n.caption = <<>> THEN <<>> ELSE <<p \o <<"\\caption">> \o Group(n.caption, ctx)>>)
           \o (IF n.label THEN <<p \o <<"\\label">> >> ELSE <<>>)
         \in LinesSay(CaptionMeaning(n, mean))
<1>. DEFINE a == IF n.caption = <<>> THEN <<>> ELSE <<p \o <<"\\caption">> \o Group(n.caption, ctx)>>
            b == IF n.label THEN <<p \o <<"\\label">> >> ELSE <<>>
            ma == IF n.caption = <<>> THEN <<>> ELSE <<"\\caption">> \o Braces(n.caption, mean)
            mb == IF n.label THEN <<"\\label">> ELSE <<>>
<1>1. CaptionMeaning(n, mean) = ma \o mb
  BY DEF CaptionMeaning
<1>2. "\\caption" \in PlainWords /\ "\\label" \in PlainWords
  BY DEF PlainWords, Words, Spaces, Newline, Space, Indent
<1>3. p \o <<"\\caption">> \o Group(n.caption, ctx) \in Says(<<"\\caption">> \o Braces(n.caption, mean))
  <2>1. Group(n.caption, ctx) \in Says(Braces(n.caption, mean))
    BY GroupSays
  <2>2. p \o <<"\\caption">> \in Says(<<"\\caption">>)
    BY <1>2, WordsSay, SaysBetween
  <2>. QED
    BY <2>1, <2>2, SaysMore
<1>4. a \in LinesSay(ma)
  <2>1. CASE n.caption = <<>>
    BY <2>1, NoLineSays
  <2>2. CASE n.caption # <<>>
    BY <1>3, <2>2, LineSays
  <2>. QED
    BY <2>1, <2>2
<1>5. b \in LinesSay(mb)
  <2>1. CASE ~n.label
    BY <2>1, NoLineSays
  <2>2. CASE n.label
    <3>1. p \o <<"\\label">> \in Says(<<"\\label">>)
      BY <1>2, WordsSay, SaysBetween
    <3>. QED
      BY <2>2, <3>1, LineSays
  <2>. QED
    BY <2>1, <2>2
<1>6. a \o b \in LinesSay(ma \o mb)
  <2>. HIDE DEF a, b, ma, mb
  <2>. QED
    BY <1>4, <1>5, LinesSayMore
<1>. QED
  BY <1>1, <1>6

\* A float says its caption, its label and its body (latex.lua 554-597).
LEMMA FloatSays ==
  ASSUME NEW tree, NEW of, NEW ctx \in Context(tree, of), NEW mean, NEW Q,
         Speaks(tree, of, mean, Q), NEW n, n.caption \in Seq(Q), n.label \in BOOLEAN,
         NEW k, NEW body \in Says(k), NEW top \in BOOLEAN
  PROVE  Float(n, ctx, body, top)
           \in Says((<<"\\begin{float}">> \o Option \o <<"\\centering">>)
                      \o (IF top THEN CaptionMeaning(n, mean) \o k ELSE k \o CaptionMeaning(n, mean))
                      \o <<"\\end{float}">>)
<1>. DEFINE p == Pad(ctx)
            p1 == Pad(Deeper(ctx, 1))
            begin == p \o <<"\\begin{float}", "[", "opt", "]">>
            center == p1 \o <<"\\centering">>
            caption == (IF n.caption = <<>> THEN <<>>
                        ELSE <<p1 \o <<"\\caption">> \o Group(n.caption, ctx)>>)
                         \o (IF n.label THEN <<p1 \o <<"\\label">> >> ELSE <<>>)
            within == IF top THEN caption \o <<body>> ELSE <<body>> \o caption
            end == p \o <<"\\end{float}">>
            m == CaptionMeaning(n, mean)
            w == IF top THEN m \o k ELSE k \o m
            x == <<"\\begin{float}">> \o Option
<1>1. Float(n, ctx, body, top) = Join(<<begin, center>> \o within \o <<end>>, Line)
  BY Zenon DEF Float
<1>2. p \in Says(<<>>) /\ p1 \in Says(<<>>)
  BY ContextIs, PadSilent
<1>3. "\\centering" \in PlainWords /\ "\\end{float}" \in PlainWords
  BY DEF PlainWords, Words, Spaces, Newline, Space, Indent
<1>4. caption \in LinesSay(m)
  <2>. HIDE DEF p, p1
  <2>. QED
    BY <1>2, CaptionSays
<1>. HIDE DEF caption, m
<1>5. within \in LinesSay(w)
  <2>1. <<body>> \in LinesSay(k)
    BY LineSays
  <2>. QED
    BY <1>4, <2>1, LinesSayMore
<1>. HIDE DEF p, p1, within, w
<1>6. begin \in Says(x)
  BY <1>2, FloatBegins
<1>7. center \in Says(<<"\\centering">>) /\ end \in Says(<<"\\end{float}">>)
  BY <1>2, <1>3, WordsSay, SaysBetween
<1>. HIDE DEF begin, center, end, x
<1>8. <<begin, center>> \in LinesSay(x \o <<"\\centering">>)
  BY <1>6, <1>7, TwoLines
<1>9. <<begin, center>> \o within \in LinesSay((x \o <<"\\centering">>) \o w)
  BY <1>5, <1>8, LinesSayMore
<1>10. <<begin, center>> \o within \o <<end>>
         \in LinesSay((x \o <<"\\centering">>) \o w \o <<"\\end{float}">>)
  BY <1>7, <1>9, LineSays, LinesSayMore
<1>11. Float(n, ctx, body, top) \in Says((x \o <<"\\centering">>) \o w \o <<"\\end{float}">>)
  BY <1>1, <1>10, SpacesSay, JoinSays
<1>. QED
  BY <1>11 DEF x, w, m

----------------------------------------------------------------------------
(* Mathematics.                                                            *)

\* Joined by nothing.
LEMMA JoinNone ==
  ASSUME NEW X, NEW ss \in Lists(X)
  PROVE  Join(ss, <<>>) = FlattenSeq(ss)
<1>1. PICK e \in Seq(X) : e = <<>> /\ \A a \in Seq(X) : e \o a = a
  <2>1. <<>> \in Seq(X) /\ \A a \in Seq(X) : <<>> \o a = a
    BY NoText
  <2>. QED
    BY <2>1
<1>2. PICK xs \in Lists(X) :
        /\ Len(xs) = Len(ss) /\ Join(ss, e) = FlattenSeq(xs)
        /\ \A i \in 1 .. Len(xs) : xs[i] = IF i = 1 THEN ss[i] ELSE e \o ss[i]
  BY JoinIs
<1>. DEFINE T == Seq(X)
<1>3. xs \in Seq(T) /\ ss \in Seq(T)
  BY DEF Lists
<1>4. \A a \in T : e \o a = a
  BY <1>1
<1>. HIDE DEF T
<1>5. \A i \in 1 .. Len(xs) : xs[i] = ss[i]
  <2>1. \A i \in 1 .. Len(ss) : ss[i] \in T
    BY <1>3, IsSeq
  <2>. QED
    BY <1>2, <1>4, <2>1
<1>6. xs = ss
  BY <1>2, <1>3, <1>5, SeqEqual
<1>. QED
  BY <1>1, <1>2, <1>6, Zenon

\* One text is joined to itself.
LEMMA JoinOne ==
  ASSUME NEW X, NEW x \in Seq(X), NEW sep \in Seq(X)
  PROVE  Join(<<x>>, sep) = x
<1>. DEFINE T == Seq(X)
<1>0. <<x>> \in Lists(X)
  BY FlattenOne
<1>1. PICK xs \in Lists(X) :
        /\ Len(xs) = Len(<<x>>) /\ Join(<<x>>, sep) = FlattenSeq(xs)
        /\ \A i \in 1 .. Len(xs) : xs[i] = IF i = 1 THEN <<x>>[i] ELSE sep \o <<x>>[i]
  BY <1>0, JoinIs
<1>2. Len(<<x>>) = 1 /\ <<x>>[1] = x
  OBVIOUS
<1>3. xs \in Seq(T) /\ Len(xs) = 1 /\ xs[1] = x
  BY <1>1, <1>2 DEF Lists
<1>. HIDE DEF T
<1>4. xs = <<x>>
  BY <1>3
<1>. QED
  BY <1>1, <1>4, FlattenOne

\* Of no text, nothing is joined.
LEMMA JoinEmpty ==
  ASSUME NEW X, NEW sep \in Seq(X)
  PROVE  Join(<<>>, sep) = <<>>
<1>. DEFINE T == Seq(X)
<1>0. <<>> \in Lists(X)
  BY NoText DEF Lists
<1>1. PICK xs \in Lists(X) : Len(xs) = Len(<<>>) /\ Join(<<>>, sep) = FlattenSeq(xs)
  BY <1>0, JoinIs
<1>2. xs \in Seq(T) /\ Len(xs) = 0
  BY <1>1 DEF Lists
<1>. HIDE DEF T
<1>3. xs = <<>>
  BY <1>2
<1>. QED
  BY <1>1, <1>3, FlattenEmpty

\* A line of mathematics, and the lines of an environment.
MathRow(p, x) == p \o <<Indent, x>>

MathRows(n, p) == [i \in DOMAIN n.s |-> MathRow(p, n.s[i])]

MathLines(n, p) ==
  IF ~n.label THEN MathRows(n, p)
  ELSE IF n.eq \/ MathRows(n, p) = <<>> THEN <<MathRow(p, "\\label")>> \o MathRows(n, p)
  ELSE [MathRows(n, p) EXCEPT ![1] = @ \o <<Space, "\\label">>]

\* What TeX should see in them.
MathLabel(n) == IF n.label THEN <<"\\label">> ELSE <<>>

MathEvents(n) ==
  [i \in DOMAIN n.s |-> <<n.s[i]>> \o (IF i = 1 /\ ~n.eq THEN MathLabel(n) ELSE <<>>)]

\* A line of mathematics says itself.
LEMMA RawSays ==
  ASSUME NEW x \in Raw
  PROVE  <<x>> \in Says(<<x>>)
<1>1. x \in Token /\ x \in Ordinary
  BY TokensAssumption DEF Ordinary, Token, Marks, Spaces
<1>. QED
  BY <1>1, OrdinarySays

\* It does so indented.
LEMMA MathRowSays ==
  ASSUME NEW p \in Says(<<>>), NEW x, <<x>> \in Says(<<x>>)
  PROVE  MathRow(p, x) \in Says(<<x>>)
<1>1. <<Indent>> \in Says(<<>>)
  <2>1. Indent \in Spaces
    BY DEF Spaces
  <2>2. <<Indent>> \in Seq(Spaces)
    BY <2>1, OneText
  <2>. QED
    BY <2>2, SilentText
<1>2. <<Indent>> \o <<x>> \in Says(<<x>>)
  BY <1>1, SaysBetween
<1>3. <<Indent, x>> \in Says(<<x>>)
  BY <1>2, TwoWords, Zenon
<1>. QED
  BY <1>3, SaysBetween DEF MathRow

\* A label, on a line of its own or at the end of one.
LEMMA LabelRowSays ==
  ASSUME NEW p \in Says(<<>>)
  PROVE  MathRow(p, "\\label") \in Says(<<"\\label">>) /\ <<Space, "\\label">> \in Says(<<"\\label">>)
<1>1. "\\label" \in PlainWords
  BY DEF PlainWords, Words, Spaces, Newline, Space, Indent
<1>2. <<"\\label">> \in Says(<<"\\label">>)
  BY <1>1, WordsSay
<1>3. <<Space>> \in Says(<<>>)
  <2>1. Space \in Spaces
    BY DEF Spaces
  <2>2. <<Space>> \in Seq(Spaces)
    BY <2>1, OneText
  <2>. QED
    BY <2>2, SilentText
<1>4. <<Space>> \o <<"\\label">> \in Says(<<"\\label">>)
  BY <1>2, <1>3, SaysBetween
<1>5. <<Space, "\\label">> \in Says(<<"\\label">>)
  BY <1>4, TwoWords, Zenon
<1>. QED
  BY <1>2, <1>5, MathRowSays

\* The lines and what they say, one by one.
LEMMA MathRowsAre ==
  ASSUME NEW n, n.s \in Seq(Raw), NEW p \in Says(<<>>)
  PROVE  /\ MapOf(MathRows(n, p), n.s) /\ MapOf(MathEvents(n), n.s)
         /\ \A i \in 1 .. Len(n.s) :
              /\ MathRows(n, p)[i] \in Says(<<n.s[i]>>)
              /\ MathEvents(n)[i]
                   = <<n.s[i]>> \o (IF i = 1 /\ ~n.eq THEN MathLabel(n) ELSE <<>>)
              /\ <<n.s[i]>> \in Seq(Sight)
<1>1. MapOf(MathRows(n, p), n.s) /\ MapOf(MathEvents(n), n.s)
  BY Zenon DEF MapOf, MathRows, MathEvents
<1>2. \A i \in 1 .. Len(n.s) :
        /\ n.s[i] \in Raw /\ MathRows(n, p)[i] = MathRow(p, n.s[i])
        /\ MathEvents(n)[i] = <<n.s[i]>> \o (IF i = 1 /\ ~n.eq THEN MathLabel(n) ELSE <<>>)
  BY IsSeq DEF MathRows, MathEvents
<1>3. ASSUME NEW i \in 1 .. Len(n.s)
      PROVE  MathRows(n, p)[i] \in Says(<<n.s[i]>>) /\ <<n.s[i]>> \in Seq(Sight)
  <2>1. PICK x \in Raw : x = n.s[i]
    BY <1>2
  <2>2. MathRow(p, x) \in Says(<<x>>)
    BY RawSays, MathRowSays
  <2>3. <<x>> \in Seq(Sight)
    BY <2>2, SaysType
  <2>. QED
    BY <1>2, <2>1, <2>2, <2>3
<1>. QED
  BY <1>1, <1>2, <1>3

\* The lines of an equation, the first of which is its label.
LEMMA EqLinesSay ==
  ASSUME NEW n, n.s \in Seq(Raw), n.label \in BOOLEAN, n.eq, NEW p \in Says(<<>>)
  PROVE  Join(MathLines(n, p), Line) \in Says(MathLabel(n) \o Join(MathEvents(n), <<>>))
<1>. DEFINE g == MathRows(n, p)
            h == MathEvents(n)
<1>1. /\ MapOf(g, n.s) /\ MapOf(h, n.s)
      /\ \A i \in 1 .. Len(n.s) : g[i] \in Says(<<n.s[i]>>) /\ h[i] = <<n.s[i]>>
  <2>1. ASSUME NEW i \in 1 .. Len(n.s) PROVE g[i] \in Says(<<n.s[i]>>) /\ h[i] = <<n.s[i]>>
    <3>1. /\ g[i] \in Says(<<n.s[i]>>) /\ <<n.s[i]>> \in Seq(Sight)
          /\ h[i] = <<n.s[i]>> \o (IF i = 1 /\ ~n.eq THEN MathLabel(n) ELSE <<>>)
      BY MathRowsAre
    <3>2. PICK w \in Seq(Sight) : w = <<n.s[i]>>
      BY <3>1
    <3>3. w \o <<>> = w
      BY NoText
    <3>4. h[i] = w \o <<>>
      BY <3>1, <3>2
    <3>. QED
      BY <3>1, <3>2, <3>3, <3>4
  <2>. QED
    BY <2>1, MathRowsAre
<1>. HIDE DEF g, h
<1>2. g \in LinesSay(FlattenSeq(h)) /\ h \in Lists(Sight)
  <2>1. \A i \in 1 .. Len(n.s) : g[i] \in Says(h[i])
    BY <1>1
  <2>. QED
    BY <1>1, <2>1, MapSays
<1>3. Join(h, <<>>) = FlattenSeq(h)
  BY <1>2, JoinNone
<1>4. CASE n.label
  <2>1. MathLines(n, p) = <<MathRow(p, "\\label")>> \o g
    BY <1>4 DEF MathLines, g
  <2>2. <<MathRow(p, "\\label")>> \in LinesSay(<<"\\label">>)
    BY LabelRowSays, LineSays
  <2>3. MathLines(n, p) \in LinesSay(<<"\\label">> \o FlattenSeq(h))
    BY <1>2, <2>1, <2>2, LinesSayMore
  <2>4. Join(MathLines(n, p), Line) \in Says(<<"\\label">> \o FlattenSeq(h))
    BY <2>3, SpacesSay, JoinSays
  <2>5. MathLabel(n) = <<"\\label">>
    BY <1>4 DEF MathLabel
  <2>. QED
    BY <1>3, <2>4, <2>5, Zenon DEF h
<1>5. CASE ~n.label
  <2>1. MathLines(n, p) = g
    BY <1>5 DEF MathLines, g
  <2>2. Join(MathLines(n, p), Line) \in Says(FlattenSeq(h))
    BY <1>2, <2>1, SpacesSay, JoinSays
  <2>3. <<>> \o FlattenSeq(h) = FlattenSeq(h)
    BY <2>2, SaysType, NoText
  <2>4. MathLabel(n) = <<>>
    BY <1>5 DEF MathLabel
  <2>. QED
    BY <1>3, <2>2, <2>3, <2>4, Zenon DEF h
<1>. QED
  BY <1>4, <1>5

\* The lines of an align that has none.
LEMMA NoLinesMean ==
  ASSUME NEW n, n.s = <<>>, n.label \in BOOLEAN, ~n.eq, NEW p \in Says(<<>>), NEW sep \in Seq(Token),
         NEW k \in Seq(Sight)
  PROVE  Join(MathLines(n, p), sep) \in Says(MathLabel(n) \o Join(MathEvents(n), k))
<1>1. MathRows(n, p) = <<>> /\ MathEvents(n) = <<>>
  <2>1. n.s \in Seq(Raw) /\ Len(n.s) = 0
    OBVIOUS
  <2>2. MapOf(MathRows(n, p), n.s) /\ MapOf(MathEvents(n), n.s)
    BY <2>1, MathRowsAre
  <2>. DEFINE T == Says(<<>>)
              V == Seq(Sight)
  <2>3. PICK g, h : g = MathRows(n, p) /\ h = MathEvents(n)
    OBVIOUS
  <2>. HIDE DEF T, V
  <2>4. /\ MapOf(g, n.s) /\ MapOf(h, n.s)
        /\ \A i \in 1 .. Len(n.s) : g[i] \in T /\ h[i] \in V
    BY <2>1, <2>2, <2>3
  <2>5. g \in Seq(T) /\ Len(g) = 0 /\ h \in Seq(V) /\ Len(h) = 0
    BY <2>1, <2>4, MapIs DEF MapOf
  <2>. QED
    BY <2>3, <2>5
<1>2. Join(<<>>, k) = <<>> /\ Join(<<>>, sep) = <<>>
  BY JoinEmpty
<1>3. CASE n.label
  <2>1. PICK u \in Says(<<"\\label">>) : u = MathRow(p, "\\label")
    BY LabelRowSays
  <2>2. <<u>> \o <<>> = <<u>>
    <3>1. <<u>> \in Seq({u})
      OBVIOUS
    <3>. QED
      BY <3>1, NoText
  <2>3. MathLines(n, p) = <<u>>
    BY <1>1, <1>3, <2>1, <2>2, Zenon DEF MathLines
  <2>4. Join(<<u>>, sep) = u
    BY SaysType, JoinOne
  <2>5. <<"\\label">> \o <<>> = <<"\\label">>
    BY <2>1, SaysType, NoText
  <2>6. MathLabel(n) = <<"\\label">>
    BY <1>3 DEF MathLabel
  <2>. QED
    BY <1>1, <1>2, <2>3, <2>4, <2>5, <2>6, Zenon
<1>4. CASE ~n.label
  <2>1. MathLines(n, p) = <<>> /\ MathLabel(n) = <<>>
    BY <1>1, <1>4 DEF MathLines, MathLabel
  <2>2. <<>> \o <<>> = <<>>
    BY NoText
  <2>. QED
    BY <1>1, <1>2, <2>1, <2>2, SaysNone, Zenon
<1>. QED
  BY <1>3, <1>4

\* What stands between the lines of an align.
LEMMA MathSepSays == <<Space, "\\\\", Newline>> \in Says(<<"\\\\">>)
<1>1. PICK u \in Says(<<"\\\\">>) : u = <<Space, "\\\\">>
  BY RowEndSays
<1>2. PICK v \in Says(<<>>) : v = <<Newline>>
  BY SpacesSay DEF Line
<1>3. u \o v \in Says(<<"\\\\">>)
  BY SaysBetween
<1>4. u \o v = <<Space, "\\\\", Newline>>
  BY <1>1, <1>2, ThreeWords
<1>. QED
  BY <1>3, <1>4

\* The lines of an align, the first of which ends with its label.
LEMMA AlignLinesSay ==
  ASSUME NEW n, n.s \in Seq(Raw), n.s # <<>>, n.label \in BOOLEAN, ~n.eq, NEW p \in Says(<<>>)
  PROVE  Join(MathLines(n, p), <<Space, "\\\\", Newline>>) \in Says(Join(MathEvents(n), <<"\\\\">>))
<1>. DEFINE g == MathRows(n, p)
            h == MathEvents(n)
            L == MathLines(n, p)
<1>1. /\ MapOf(g, n.s) /\ MapOf(h, n.s)
      /\ \A i \in 1 .. Len(n.s) : /\ g[i] \in Says(<<n.s[i]>>) /\ <<n.s[i]>> \in Seq(Sight)
                                  /\ h[i] = <<n.s[i]>> \o (IF i = 1 THEN MathLabel(n) ELSE <<>>)
  BY MathRowsAre
<1>2. PICK y : y = g[1] \o <<Space, "\\label">>
  OBVIOUS
<1>3. L = IF n.label THEN [g EXCEPT ![1] = y] ELSE g
  <2>1. 1 \in 1 .. Len(n.s)
    OBVIOUS
  <2>2. DOMAIN g = 1 .. Len(n.s)
    BY <1>1, IsSeq DEF MapOf
  <2>3. g # <<>>
    BY <2>1, <2>2
  <2>. HIDE DEF g
  <2>. QED
    BY <1>2, <2>3 DEF MathLines, g
<1>. HIDE DEF g, h, L
<1>4. /\ MapOf(L, n.s)
      /\ \A i \in 1 .. Len(n.s) : L[i] = IF n.label /\ i = 1 THEN y ELSE g[i]
  <2>1. PICK f : f = WithFirst(g, y)
    OBVIOUS
  <2>2. /\ MapOf(f, n.s) /\ f[1] = y /\ \A i \in 1 .. Len(n.s) : i # 1 => f[i] = g[i]
    BY <1>1, <2>1, ChangedOne
  <2>. QED
    BY <1>1, <1>3, <2>1, <2>2 DEF WithFirst
<1>5. ASSUME NEW i \in 1 .. Len(n.s) PROVE L[i] \in Says(h[i])
  <2>1. PICK w \in Seq(Sight) : w = <<n.s[i]>> /\ g[i] \in Says(w)
    BY <1>1
  <2>2. h[i] = w \o (IF i = 1 THEN MathLabel(n) ELSE <<>>)
    BY <1>1, <2>1
  <2>3. w \o <<>> = w
    BY NoText
  <2>4. CASE i = 1 /\ n.label
    <3>1. L[i] = y /\ h[i] = w \o <<"\\label">>
      BY <1>4, <2>2, <2>4 DEF MathLabel
    <3>2. PICK u \in Says(<<"\\label">>) : u = <<Space, "\\label">>
      BY LabelRowSays
    <3>3. g[i] \o u \in Says(w \o <<"\\label">>)
      BY <2>1, SaysMore
    <3>. QED
      BY <1>2, <2>4, <3>1, <3>2, <3>3
  <2>5. CASE i # 1 \/ ~n.label
    <3>1. L[i] = g[i]
      BY <1>4, <2>5
    <3>2. h[i] = w
      BY <2>2, <2>3, <2>5 DEF MathLabel
    <3>. QED
      BY <2>1, <3>1, <3>2
  <2>. QED
    BY <2>4, <2>5
<1>6. /\ L \in Lists(Token) /\ h \in Lists(Sight) /\ Len(L) = Len(n.s) /\ Len(h) = Len(n.s)
  BY <1>1, <1>4, <1>5, MapSays
<1>7. Saying(L, h)
  BY <1>5, <1>6 DEF Saying
<1>8. Join(L, <<Space, "\\\\", Newline>>) \in Says(Join(h, <<"\\\\">>))
  BY <1>6, <1>7, MathSepSays, JoinBoth
<1>. QED
  BY <1>8 DEF L, h

MathSep(n) == IF n.eq THEN Line ELSE <<Space, "\\\\", Newline>>

MathFirst(n) == IF n.eq \/ n.s = <<>> THEN MathLabel(n) ELSE <<>>

MathBody(n) == Join(MathEvents(n), IF n.eq THEN <<>> ELSE <<"\\\\">>)

\* What mathematics says is seen.
LEMMA MathType ==
  ASSUME NEW n, n.s \in Seq(Raw), n.label \in BOOLEAN, n.eq \in BOOLEAN
  PROVE  MathFirst(n) \in Seq(Sight) /\ MathBody(n) \in Seq(Sight)
<1>1. MathLabel(n) \in Seq(Sight) /\ <<>> \in Seq(Sight) /\ <<"\\\\">> \in Seq(Sight)
  <2>1. <<"\\label">> \in Seq(Sight) /\ <<"\\\\">> \in Seq(Sight)
    BY LabelRowSays, SaysNone, MathSepSays, SaysType
  <2>. QED
    BY <2>1, NoText DEF MathLabel
<1>2. MathEvents(n) \in Lists(Sight)
  <2>1. <<>> \in Says(<<>>)
    BY SaysNone
  <2>2. PICK p \in Says(<<>>) : TRUE
    BY <2>1
  <2>3. /\ MapOf(MathEvents(n), n.s)
        /\ \A i \in 1 .. Len(n.s) :
              /\ MathEvents(n)[i]
                   = <<n.s[i]>> \o (IF i = 1 /\ ~n.eq THEN MathLabel(n) ELSE <<>>)
              /\ <<n.s[i]>> \in Seq(Sight)
    BY <2>2, MathRowsAre
  <2>. DEFINE T == Seq(Sight)
  <2>4. \A i \in 1 .. Len(n.s) : MathEvents(n)[i] \in T
    <3>1. \A a, b \in T : a \o b \in T
      BY ConcatType
    <3>. HIDE DEF T
    <3>2. <<>> \in T /\ MathLabel(n) \in T /\ \A i \in 1 .. Len(n.s) : <<n.s[i]>> \in T
      BY <1>1, <2>3 DEF T
    <3>3. ASSUME NEW i \in 1 .. Len(n.s) PROVE MathEvents(n)[i] \in T
      <4>1. PICK a \in T : a = <<n.s[i]>>
        BY <3>2
      <4>2. PICK b \in T : b = IF i = 1 /\ ~n.eq THEN MathLabel(n) ELSE <<>>
        BY <3>2
      <4>3. MathEvents(n)[i] = a \o b
        BY <2>3, <4>1, <4>2
      <4>. QED
        BY <3>1, <4>3
    <3>. QED
      BY <3>3
  <2>5. PICK h : h = MathEvents(n)
    OBVIOUS
  <2>. HIDE DEF T
  <2>6. MapOf(h, n.s) /\ \A i \in 1 .. Len(n.s) : h[i] \in T
    BY <2>3, <2>4, <2>5
  <2>7. h \in Seq(T)
    BY <2>6, MapIs DEF MapOf
  <2>. QED
    BY <2>5, <2>7 DEF T, Lists
<1>3. PICK k \in Seq(Sight) : k = IF n.eq THEN <<>> ELSE <<"\\\\">>
  BY <1>1
<1>4. Join(MathEvents(n), k) \in Seq(Sight)
  <2>1. PICK xs \in Lists(Sight) : Join(MathEvents(n), k) = FlattenSeq(xs)
    BY <1>2, JoinIs
  <2>. QED
    BY <2>1, FlattenType DEF Lists
<1>. QED
  BY <1>1, <1>3, <1>4 DEF MathFirst, MathBody

\* The lines of both.
LEMMA MathLinesSay ==
  ASSUME NEW n, n.s \in Seq(Raw), n.label \in BOOLEAN, n.eq \in BOOLEAN, NEW p \in Says(<<>>)
  PROVE  Join(MathLines(n, p), MathSep(n)) \in Says(MathFirst(n) \o MathBody(n))
<1>1. CASE n.eq
  <2>1. Join(MathLines(n, p), Line) \in Says(MathLabel(n) \o Join(MathEvents(n), <<>>))
    BY <1>1, EqLinesSay
  <2>. QED
    BY <1>1, <2>1 DEF MathSep, MathFirst, MathBody
<1>2. CASE ~n.eq /\ n.s = <<>>
  <2>1. PICK sep \in Seq(Token) : sep = <<Space, "\\\\", Newline>>
    BY MathSepSays, SaysType
  <2>2. PICK k \in Seq(Sight) : k = <<"\\\\">>
    BY MathSepSays, SaysType
  <2>3. Join(MathLines(n, p), sep) \in Says(MathLabel(n) \o Join(MathEvents(n), k))
    BY <1>2, NoLinesMean
  <2>. QED
    BY <1>2, <2>1, <2>2, <2>3 DEF MathSep, MathFirst, MathBody
<1>3. CASE ~n.eq /\ n.s # <<>>
  <2>1. Join(MathLines(n, p), <<Space, "\\\\", Newline>>) \in Says(Join(MathEvents(n), <<"\\\\">>))
    BY <1>3, AlignLinesSay
  <2>2. MathFirst(n) = <<>> /\ MathBody(n) = Join(MathEvents(n), <<"\\\\">>)
        /\ MathSep(n) = <<Space, "\\\\", Newline>>
    BY <1>3 DEF MathSep, MathFirst, MathBody
  <2>3. <<>> \o MathBody(n) = MathBody(n)
    BY MathType, NoText
  <2>. QED
    BY <2>1, <2>2, <2>3
<1>. QED
  BY <1>1, <1>2, <1>3

\* Mathematics says its label and its lines (latex.lua 419-434).
LEMMA MathEnvSays ==
  ASSUME NEW tree, NEW of, NEW ctx \in Context(tree, of),
         NEW n, n.s \in Seq(Raw), n.label \in BOOLEAN, n.eq \in BOOLEAN
  PROVE  MathEnv(n, ctx) \in Says(MathMeaning(n))
<1>1. PICK p \in Says(<<>>) : p = Pad(ctx)
  BY PadSilent
<1>2. PICK inner \in Says(MathFirst(n) \o MathBody(n)) : inner = Join(MathLines(n, p), MathSep(n))
  BY MathLinesSay
<1>3. "\\begin{math}" \in PlainWords /\ "\\end{math}" \in PlainWords
  BY DEF PlainWords, Words, Spaces, Newline, Space, Indent
<1>4. PICK a \in Says(<<"\\begin{math}">>) : a = <<"\\begin{math}", Newline>>
  <2>1. <<"\\begin{math}">> \in Says(<<"\\begin{math}">>) /\ <<Newline>> \in Says(<<>>)
    BY <1>3, WordsSay, SpacesSay DEF Line
  <2>2. <<"\\begin{math}">> \o <<Newline>> \in Says(<<"\\begin{math}">>)
    BY <2>1, SaysBetween
  <2>3. <<"\\begin{math}">> \o <<Newline>> = <<"\\begin{math}", Newline>>
    BY TwoWords
  <2>. QED
    BY <2>2, <2>3
<1>5. PICK z \in Says(<<"\\end{math}">>) : z = <<"\\end{math}">>
  BY <1>3, WordsSay
<1>6. MathEnv(n, ctx) = p \o a \o inner \o Line \o p \o z
  <2>1. MathEnv(n, ctx) = p \o <<"\\begin{math}", Newline>> \o Join(MathLines(n, p), MathSep(n))
                            \o Line \o p \o <<"\\end{math}">>
    BY <1>1, Zenon DEF MathEnv, MathLines, MathRows, MathRow, MathSep
  <2>. QED
    BY <1>2, <1>4, <1>5, <2>1, Zenon
<1>7. PICK b, f, m, e : /\ b = <<"\\begin{math}">> /\ f = MathFirst(n) /\ m = MathBody(n)
                        /\ e = <<"\\end{math}">>
  OBVIOUS
<1>8. p \o a \o inner \o Line \o p \o z \in Says(b \o (f \o m) \o e)
  <2>1. p \o a \in Says(b)
    BY <1>7, SaysBetween
  <2>2. PICK u \in Says(b) : u = p \o a
    BY <2>1
  <2>3. u \o inner \in Says(b \o (f \o m))
    BY <1>7, SaysMore
  <2>4. PICK v \in Says(b \o (f \o m)) : v = u \o inner
    BY <2>3
  <2>5. v \o Line \in Says(b \o (f \o m))
    BY SpacesSay, SaysBetween
  <2>6. PICK w \in Says(b \o (f \o m)) : w = v \o Line
    BY <2>5
  <2>7. w \o p \in Says(b \o (f \o m))
    BY SaysBetween
  <2>8. PICK x \in Says(b \o (f \o m)) : x = w \o p
    BY <2>7
  <2>9. x \o z \in Says(b \o (f \o m) \o e)
    BY <1>7, SaysMore
  <2>. QED
    BY <2>2, <2>4, <2>6, <2>8, <2>9
<1>9. b \o (f \o m) = (b \o f) \o m
  <2>1. b \in Seq(Sight) /\ f \in Seq(Sight) /\ m \in Seq(Sight)
    BY <1>7, MathType, SaysType
  <2>. QED
    BY <2>1, SightsGroup
<1>10. MathMeaning(n) = ((b \o f) \o m) \o e
  BY <1>7, Zenon DEF MathMeaning, MathFirst, MathBody, MathEvents, MathLabel
<1>. QED
  BY <1>6, <1>8, <1>9, <1>10

----------------------------------------------------------------------------
(* Floats and documents.                                                   *)

\* What a caption says is seen.
LEMMA CaptionType ==
  ASSUME NEW tree, NEW of, NEW ctx \in Context(tree, of), NEW mean, NEW Q,
         Speaks(tree, of, mean, Q), NEW n, n.caption \in Seq(Q), n.label \in BOOLEAN
  PROVE  CaptionMeaning(n, mean) \in Seq(Sight)
<1>1. PICK p \in Says(<<>>) : p = Pad(ctx)
  BY PadSilent
<1>2. (IF n.caption = <<>> THEN <<>> ELSE <<p \o <<"\\caption">> \o Group(n.caption, ctx)>>)
           \o (IF n.label THEN <<p \o <<"\\label">> >> ELSE <<>>)
         \in LinesSay(CaptionMeaning(n, mean))
  BY CaptionSays
<1>. QED
  BY <1>2, SayingType

\* What the first lines of a float say is seen.
LEMMA FloatHeadType ==
  /\ <<"\\begin{float}">> \o Option \in Seq(Sight)
  /\ <<"\\begin{float}">> \o Option \o <<"\\centering">> \in Seq(Sight)
  /\ <<"\\centering">> \in Seq(Sight)
<1>1. <<>> \in Says(<<>>)
  BY SaysNone
<1>2. <<"\\begin{float}">> \o Option \in Seq(Sight)
  BY <1>1, FloatBegins, SaysType
<1>3. <<"\\centering">> \in Seq(Sight)
  <2>1. "\\centering" \in PlainWords
    BY DEF PlainWords, Words, Spaces, Newline, Space, Indent
  <2>. QED
    BY <2>1, WordsSay, SaysType
<1>4. PICK a, b \in Seq(Sight) : a = <<"\\begin{float}">> \o Option /\ b = <<"\\centering">>
  BY <1>2, <1>3
<1>5. a \o b \in Seq(Sight)
  BY ConcatType
<1>. QED
  BY <1>2, <1>3, <1>4, <1>5

\* A table in a float has its caption on top,
LEMMA TableSays ==
  ASSUME NEW tree, NEW of, NEW ctx \in Context(tree, of), NEW mean, NEW Q,
         Speaks(tree, of, mean, Q), Tabled(tree, Q), NEW n, n.caption \in Seq(Q),
         n.label \in BOOLEAN, n.header \in Seq(Q), n.rows \in Seq(Q), n.resize \in BOOLEAN
  PROVE  Float(n, ctx, Tabular(n, Deeper(ctx, 1)), TRUE)
           \in Says(<<"\\begin{float}">> \o Option \o <<"\\centering">>
                      \o CaptionMeaning(n, mean) \o TableMeaning(n, tree, mean)
                      \o <<"\\end{float}">>)
<1>1. PICK deep \in Context(tree, of) : deep = Deeper(ctx, 1)
  BY ContextIs
<1>0. Tabular(n, deep) \in Says(TableMeaning(n, tree, mean))
  BY TabularSays
<1>2. PICK k \in Seq(Sight) : k = TableMeaning(n, tree, mean)
  BY <1>0, SaysType
<1>10. PICK body \in Says(k) : body = Tabular(n, Deeper(ctx, 1))
  BY <1>0, <1>1, <1>2
<1>3. PICK a, c \in Seq(Sight) :
        a = <<"\\begin{float}">> \o Option \o <<"\\centering">> /\ c = CaptionMeaning(n, mean)
  BY CaptionType, FloatHeadType
<1>4. PICK top \in BOOLEAN : top
  OBVIOUS
<1>5. Float(n, ctx, body, top)
           \in Says((<<"\\begin{float}">> \o Option \o <<"\\centering">>)
                      \o (IF top THEN CaptionMeaning(n, mean) \o k ELSE k \o CaptionMeaning(n, mean))
                      \o <<"\\end{float}">>)
  BY FloatSays
<1>6. Float(n, ctx, body, TRUE) \in Says(a \o (c \o k) \o <<"\\end{float}">>)
  <2>1. top = TRUE
    BY <1>4
  <2>. QED
    BY <1>3, <1>5, <2>1, Zenon
<1>7. a \o (c \o k) = (a \o c) \o k
  BY SightsGroup
<1>. QED
  BY <1>2, <1>3, <1>10, <1>6, <1>7, Zenon

\* a figure below.
LEMMA FigureSays ==
  ASSUME NEW tree, NEW of, NEW ctx \in Context(tree, of), NEW mean, NEW Q,
         Speaks(tree, of, mean, Q), NEW n, n.caption \in Seq(Q), n.label \in BOOLEAN
  PROVE  Float(n, ctx, Pad(Deeper(ctx, 1)) \o <<"\\includegraphics">>, FALSE)
           \in Says(<<"\\begin{float}">> \o Option \o <<"\\centering", "\\includegraphics">>
                      \o CaptionMeaning(n, mean) \o <<"\\end{float}">>)
<1>1. PICK deep \in Context(tree, of) : deep = Deeper(ctx, 1)
  BY ContextIs
<1>0. <<"\\includegraphics">> \in Says(<<"\\includegraphics">>)
  <2>1. "\\includegraphics" \in PlainWords
    BY DEF PlainWords, Words, Spaces, Newline, Space, Indent
  <2>. QED
    BY <2>1, WordsSay
<1>2. PICK k \in Seq(Sight) : k = <<"\\includegraphics">>
  BY <1>0, SaysType
<1>10. PICK body \in Says(k) : body = Pad(Deeper(ctx, 1)) \o <<"\\includegraphics">>
  <2>1. k \in Says(k)
    BY <1>0, <1>2
  <2>2. Pad(deep) \o k \in Says(k)
    BY <2>1, PaddedWord
  <2>. QED
    BY <1>1, <1>2, <2>2
<1>3. PICK a, b, c \in Seq(Sight) :
        /\ a = <<"\\begin{float}">> \o Option /\ b = <<"\\centering">>
        /\ c = CaptionMeaning(n, mean)
  BY CaptionType, FloatHeadType
<1>4. PICK top \in BOOLEAN : ~top
  OBVIOUS
<1>5. Float(n, ctx, body, top)
           \in Says((<<"\\begin{float}">> \o Option \o <<"\\centering">>)
                      \o (IF top THEN CaptionMeaning(n, mean) \o k ELSE k \o CaptionMeaning(n, mean))
                      \o <<"\\end{float}">>)
  BY FloatSays
<1>6. Float(n, ctx, body, FALSE) \in Says((a \o b) \o (k \o c) \o <<"\\end{float}">>)
  <2>1. top = FALSE
    BY <1>4
  <2>. QED
    BY <1>3, <1>5, <2>1, Zenon
<1>7. (a \o b) \o (k \o c) = (a \o (b \o k)) \o c
  <2>1. \A x, y \in Seq(Sight) : After(x, y) \in Seq(Sight)
    BY AfterGroups
  <2>2. After(After(a, b), After(k, c)) = After(After(a, After(b, k)), c)
    <3>1. After(After(a, b), After(k, c)) = After(a, After(b, After(k, c)))
      BY <2>1, AfterGroups
    <3>2. After(b, After(k, c)) = After(After(b, k), c)
      BY AfterGroups
    <3>3. After(a, After(After(b, k), c)) = After(After(a, After(b, k)), c)
      BY <2>1, AfterGroups
    <3>. QED
      BY <3>1, <3>2, <3>3
  <2>. QED
    BY <2>2, Zenon DEF After
<1>8. b \o k = <<"\\centering", "\\includegraphics">>
  BY <1>2, <1>3, TwoWords
<1>. QED
  BY <1>2, <1>3, <1>10, <1>6, <1>7, <1>8, Zenon

\* A line of the preamble of a document.
LEMMA TitleSays ==
  ASSUME NEW tree, NEW of, NEW ctx \in Context(tree, of), NEW mean, NEW Q,
         Speaks(tree, of, mean, Q), NEW kids \in Seq(Q),
         NEW word \in {"\\title", "\\author", "\\date"}
  PROVE  TitleLine(word, kids, ctx) \in Says(TitleMeaning(word, kids, mean))
<1>1. CASE kids = <<>>
  BY <1>1, SaysNone DEF TitleLine, TitleMeaning
<1>2. CASE kids # <<>>
  <2>1. word \in PlainWords
    BY DEF PlainWords, Words, Spaces, Newline, Space, Indent
  <2>2. PICK a \in Says(<<word>>) : a = <<word>>
    BY <2>1, WordsSay
  <2>3. PICK g \in Says(Braces(kids, mean)) : g = Group(kids, ctx)
    BY GroupSays
  <2>4. PICK u \in Says(<<word>>) : u = Line \o a
    BY SpacesSay, SaysBetween
  <2>5. u \o g \in Says(<<word>> \o Braces(kids, mean))
    BY SaysMore
  <2>. QED
    BY <1>2, <2>2, <2>3, <2>4, <2>5, Zenon DEF TitleLine, TitleMeaning
<1>. QED
  BY <1>1, <1>2

\* A line that may be missing.
LEMMA MaybeLine ==
  ASSUME NEW b \in BOOLEAN, NEW m, NEW s \in Says(m)
  PROVE  (IF b THEN <<s>> ELSE <<>>) \in LinesSay(IF b THEN m ELSE <<>>)
BY LineSays, NoLineSays

\* A line that is left out if it is empty: what it would say is nothing.
LEMMA FullLine ==
  ASSUME NEW m, NEW s \in Says(m)
  PROVE  (IF s = <<>> THEN <<>> ELSE <<s>>) \in LinesSay(m)
<1>1. CASE s = <<>>
  <2>1. m = <<>>
    BY <1>1, SaysNothing
  <2>. QED
    BY <1>1, <2>1, NoLineSays
<1>2. CASE s # <<>>
  BY <1>2, LineSays
<1>. QED
  BY <1>1, <1>2

\* Four texts after one.
LEMMA FourAfter ==
  ASSUME NEW a \in Seq(Sight), NEW b \in Seq(Sight), NEW c \in Seq(Sight), NEW d \in Seq(Sight),
         NEW e \in Seq(Sight)
  PROVE  After(a, After(After(After(b, c), d), e)) = After(After(After(After(a, b), c), d), e)
<1>1. PICK bc \in Seq(Sight) : bc = After(b, c)
  BY AfterGroups
<1>2. PICK bd \in Seq(Sight) : bd = After(bc, d)
  BY AfterGroups
<1>3. After(a, After(bd, e)) = After(After(a, bd), e)
  BY AfterGroups
<1>4. After(a, bd) = After(After(a, bc), d)
  BY <1>2, AfterGroups
<1>5. After(a, bc) = After(After(a, b), c)
  BY <1>1, AfterGroups
<1>. QED
  BY <1>1, <1>2, <1>3, <1>4, <1>5, Zenon

\* A document says its title, its children and its bibliography
\* (latex.lua 609-649).
LEMMA DocumentSays ==
  ASSUME NEW tree, NEW of, NEW ctx \in Context(tree, of), NEW mean, NEW Q,
         Speaks(tree, of, mean, Q), NEW n, n.title \in Seq(Q), n.author \in Seq(Q),
         n.date \in Seq(Q), n.kids \in Seq(Q), n.maketitle \in BOOLEAN, n.toc \in BOOLEAN,
         n.bib \in BOOLEAN
  PROVE  Document(n, ctx)
           \in Says(<<"\\documentclass">> \o TitleMeaning("\\title", n.title, mean)
                      \o TitleMeaning("\\author", n.author, mean)
                      \o TitleMeaning("\\date", n.date, mean) \o <<"\\begin{document}">>
                      \o (IF n.title # <<>> /\ n.maketitle THEN <<"\\maketitle">> ELSE <<>>)
                      \o (IF n.toc THEN <<"\\tableofcontents">> ELSE <<>>)
                      \o Meanings(n.kids, mean) \o (IF n.bib THEN <<"\\bib">> ELSE <<>>)
                      \o <<"\\end{document}">>)
<1>1. /\ "\\documentclass" \in PlainWords /\ "\\begin{document}" \in PlainWords
      /\ "\\maketitle" \in PlainWords /\ "\\tableofcontents" \in PlainWords
      /\ "\\bib" \in PlainWords /\ "\\end{document}" \in PlainWords
  BY DEF PlainWords, Words, Spaces, Newline, Space, Indent
<1>2. PICK c, b, m, o, i, e :
        /\ c = <<"\\documentclass">> /\ b = <<"\\begin{document}">> /\ m = <<"\\maketitle">>
        /\ o = <<"\\tableofcontents">> /\ i = <<"\\bib">> /\ e = <<"\\end{document}">>
  OBVIOUS
<1>3. /\ c \in Says(c) /\ b \in Says(b) /\ m \in Says(m) /\ o \in Says(o) /\ i \in Says(i)
      /\ e \in Says(e)
  BY <1>1, <1>2, WordsSay
<1>4. PICK t, a, d : /\ t = TitleMeaning("\\title", n.title, mean)
                     /\ a = TitleMeaning("\\author", n.author, mean)
                     /\ d = TitleMeaning("\\date", n.date, mean)
  OBVIOUS
<1>5. PICK u \in Says(t), au \in Says(a), da \in Says(d) :
        /\ u = TitleLine("\\title", n.title, ctx) /\ au = TitleLine("\\author", n.author, ctx)
        /\ da = TitleLine("\\date", n.date, ctx)
  BY <1>4, TitleSays
<1>6. PICK k : k = Meanings(n.kids, mean)
  OBVIOUS
<1>7. PICK body \in Says(k) : body = Inline(n.kids, ctx)
  BY <1>6, ChildrenSay
<1>8. PICK head \in Says(((c \o t) \o a) \o d) : head = ((c \o u) \o au) \o da
  <2>1. PICK p \in Says(c \o t) : p = c \o u
    BY <1>3, SaysMore
  <2>2. PICK q \in Says((c \o t) \o a) : q = p \o au
    BY SaysMore
  <2>3. q \o da \in Says(((c \o t) \o a) \o d)
    BY SaysMore
  <2>. QED
    BY <2>1, <2>2, <2>3
<1>9. PICK x \in LinesSay((((c \o t) \o a) \o d) \o b) : x = <<head, b>>
  BY <1>3, TwoLines
<1>10. PICK y, ym : /\ y = (IF n.title # <<>> /\ n.maketitle THEN <<m>> ELSE <<>>)
                    /\ ym = (IF n.title # <<>> /\ n.maketitle THEN m ELSE <<>>)
                    /\ y \in LinesSay(ym)
  <2>1. PICK q \in BOOLEAN : q = (n.title # <<>> /\ n.maketitle)
    OBVIOUS
  <2>2. (IF q THEN <<m>> ELSE <<>>) \in LinesSay(IF q THEN m ELSE <<>>)
    BY <1>3, MaybeLine
  <2>. QED
    BY <2>1, <2>2
<1>11. PICK v, vm : /\ v = (IF n.toc THEN <<o>> ELSE <<>>) /\ vm = (IF n.toc THEN o ELSE <<>>)
                    /\ v \in LinesSay(vm)
  BY <1>3, MaybeLine
<1>12. PICK z \in LinesSay(k) : z = (IF body = <<>> THEN <<>> ELSE <<body>>)
  BY FullLine
<1>13. PICK w, wm : /\ w = (IF n.bib THEN <<i>> ELSE <<>>) /\ wm = (IF n.bib THEN i ELSE <<>>)
                    /\ w \in LinesSay(wm)
  BY <1>3, MaybeLine
<1>14. PICK last \in LinesSay(e) : last = <<e>>
  BY <1>3, LineSays
<1>15. PICK f : f = (((c \o t) \o a) \o d) \o b
  OBVIOUS
<1>16. x \o (((y \o v) \o z) \o w) \o last \in LinesSay((f \o (((ym \o vm) \o k) \o wm)) \o e)
  <2>1. PICK yv \in LinesSay(ym \o vm) : yv = y \o v
    BY <1>10, <1>11, LinesSayMore
  <2>2. PICK yz \in LinesSay((ym \o vm) \o k) : yz = yv \o z
    BY LinesSayMore
  <2>3. PICK yw \in LinesSay(((ym \o vm) \o k) \o wm) : yw = yz \o w
    BY <1>13, LinesSayMore
  <2>4. PICK xw \in LinesSay(f \o (((ym \o vm) \o k) \o wm)) : xw = x \o yw
    BY <1>15, LinesSayMore
  <2>5. xw \o last \in LinesSay((f \o (((ym \o vm) \o k) \o wm)) \o e)
    BY LinesSayMore
  <2>. QED
    BY <2>1, <2>2, <2>3, <2>4, <2>5
<1>17. Join(x \o (((y \o v) \o z) \o w) \o last, Blank)
         \in Says((f \o (((ym \o vm) \o k) \o wm)) \o e)
  BY <1>16, SpacesSay, JoinSays
<1>18. Document(n, ctx) = Join(x \o (((y \o v) \o z) \o w) \o last, Blank)
  BY <1>2, <1>5, <1>7, <1>8, <1>9, <1>10, <1>11, <1>12, <1>13, <1>14, Zenon DEF Document
<1>19. f \o (((ym \o vm) \o k) \o wm) = (((f \o ym) \o vm) \o k) \o wm
  <2>1. /\ f \in Seq(Sight) /\ ym \in Seq(Sight) /\ vm \in Seq(Sight) /\ k \in Seq(Sight)
        /\ wm \in Seq(Sight)
    BY <1>9, <1>10, <1>11, <1>12, <1>13, <1>15, SayingType
  <2>2. After(f, After(After(After(ym, vm), k), wm)) = After(After(After(After(f, ym), vm), k), wm)
    BY <2>1, FourAfter
  <2>. QED
    BY <2>2, Zenon DEF After
<1>20. ((((f \o ym) \o vm) \o k) \o wm) \o e
         = <<"\\documentclass">> \o TitleMeaning("\\title", n.title, mean)
             \o TitleMeaning("\\author", n.author, mean)
             \o TitleMeaning("\\date", n.date, mean) \o <<"\\begin{document}">>
             \o (IF n.title # <<>> /\ n.maketitle THEN <<"\\maketitle">> ELSE <<>>)
             \o (IF n.toc THEN <<"\\tableofcontents">> ELSE <<>>)
             \o Meanings(n.kids, mean) \o (IF n.bib THEN <<"\\bib">> ELSE <<>>)
             \o <<"\\end{document}">>
  BY <1>2, <1>4, <1>6, <1>10, <1>11, <1>13, <1>15, Zenon
<1>. QED
  BY <1>17, <1>18, <1>19, <1>20

----------------------------------------------------------------------------
(* Every node says what it stands for if its children do.                  *)

\* What Unambiguous asks of a node.
Clear(tree, n) ==
  /\ n.t = "text" => ToSet(n.s) \cap {"[", "]"} = {}
  /\ n.t = "cmd" => n.kids # <<>>
  /\ n.t = "env" => \A k \in ToSet(n.args) : tree[k].t = "text" => "%" \notin ToSet(tree[k].s)

\* Every kind of node.
LEMMA OneSays ==
  ASSUME NEW tree, NEW of, NEW ctx \in Context(tree, of), NEW mean, NEW Q,
         Speaks(tree, of, mean, Q), Listed(tree, Q), Tabled(tree, Q), NEW n, MadeOf(n, Q, Q),
         Clear(tree, n)
  PROVE  One(n, ctx) \in Tells(OneMeaning(n, tree, mean))
<1>1. n.t \in Kinds
  BY DEF MadeOf
<1>2. ASSUME NEW m, NEW s \in Says(m), NEW b \in BOOLEAN
      PROVE  <<[t |-> n.t, s |-> s, block |-> b]>> \in Tells(m)
  BY <1>1, TellsOne
<1>3. CASE n.t \in {"plain", "items"}
  <2>1. One(n, ctx) = Pieces(n.kids, ctx) /\ OneMeaning(n, tree, mean) = Meanings(n.kids, mean)
    BY <1>3 DEF One, OneMeaning
  <2>2. n.kids \in Seq(Q)
    BY <1>3 DEF MadeOf
  <2>3. Pieces(n.kids, ctx) \in Tells(Meanings(n.kids, mean))
    BY <2>2, PiecesTell
  <2>. QED
    BY <2>1, <2>3
<1>4. CASE n.t = "raw"
  <2>1. One(n, ctx) = <<[t |-> n.t, s |-> n.s, block |-> n.block]>>
        /\ OneMeaning(n, tree, mean) = n.s
    BY <1>4 DEF One, OneMeaning
  <2>2. n.s \in Seq(Raw) /\ n.block \in BOOLEAN
    BY <1>4 DEF MadeOf
  <2>3. Raw \subseteq Ordinary
    BY TokensAssumption DEF Ordinary, Token, Marks, Spaces
  <2>4. n.s \in Says(n.s)
    BY <2>2, <2>3, SeqWider, OrdinaryText
  <2>. QED
    BY <1>2, <2>1, <2>2, <2>4
<1>5. CASE n.t = "frag"
  <2>. DEFINE f == Children(n.kids, ctx, Blank)
  <2>1. One(n, ctx) = <<[t |-> n.t, s |-> f.s, block |-> f.block]>>
        /\ OneMeaning(n, tree, mean) = Meanings(n.kids, mean)
    BY <1>5 DEF One, OneMeaning
  <2>2. n.kids \in Seq(Q)
    BY <1>5 DEF MadeOf
  <2>3. f.s \in Says(Meanings(n.kids, mean))
    BY <2>2, ChildrenSay
  <2>4. f.block \in BOOLEAN
    BY DEF Children, Glue
  <2>. HIDE DEF f
  <2>. QED
    BY <1>2, <2>1, <2>3, <2>4
<1>6. CASE n.t = "text"
  <2>1. n.s \in Seq(Chars)
    BY <1>6 DEF MadeOf
  <2>2. PICK m : m = Seen(n.s)
    OBVIOUS
  <2>3. PICK s : s = Escape(n.s)
    OBVIOUS
  <2>4. s \in Says(m)
    <3>1. Escape(n.s)
            \in Says(Seen(n.s))
      BY <1>6, <2>1, StringSays DEF Clear
    <3>. QED
      BY <2>2, <2>3, <3>1, Zenon
  <2>5. PICK b \in BOOLEAN : b = FALSE
    OBVIOUS
  <2>6. One(n, ctx) = <<[t |-> n.t, s |-> s, block |-> b]>> /\ OneMeaning(n, tree, mean) = m
    BY <1>6, <2>2, <2>3, <2>5 DEF One, OneMeaning
  <2>. QED
    BY <1>2, <2>4, <2>6
<1>7. CASE n.t = "rule"
  <2>1. "\\rule" \in PlainWords
    BY DEF PlainWords, Words, Spaces, Newline, Space, Indent
  <2>2. PICK s : s = <<"\\rule">>
    OBVIOUS
  <2>3. s \in Says(s)
    BY <2>1, <2>2, WordsSay
  <2>4. PICK b \in BOOLEAN : b = TRUE
    OBVIOUS
  <2>5. One(n, ctx) = <<[t |-> n.t, s |-> s, block |-> b]>> /\ OneMeaning(n, tree, mean) = s
    BY <1>7, <2>2, <2>4 DEF One, OneMeaning
  <2>. QED
    BY <1>2, <2>3, <2>5
<1>8. CASE n.t = "cmd"
  <2>1. n.kids \in Seq(Q) /\ n.opts \in BOOLEAN
    BY <1>8 DEF MadeOf
  <2>2. PICK m : m = <<"\\cmd">> \o (IF n.opts THEN Option ELSE <<>>) \o Arguments(n.kids, mean)
    OBVIOUS
  <2>3. PICK s : s = Cmd(n, ctx)
    OBVIOUS
  <2>4. s \in Says(m)
    <3>1. Cmd(n, ctx)
            \in Says(<<"\\cmd">> \o (IF n.opts THEN Option ELSE <<>>) \o Arguments(n.kids, mean))
      BY <1>8, <2>1, CmdIsSaid DEF Clear
    <3>. QED
      BY <2>2, <2>3, <3>1, Zenon
  <2>5. PICK b \in BOOLEAN : b = FALSE
    OBVIOUS
  <2>6. One(n, ctx) = <<[t |-> n.t, s |-> s, block |-> b]>> /\ OneMeaning(n, tree, mean) = m
    BY <1>8, <2>2, <2>3, <2>5 DEF One, OneMeaning
  <2>. QED
    BY <1>2, <2>4, <2>6
<1>9. CASE n.t = "env"
  <2>1. n.kids \in Seq(Q) /\ n.args \in Seq(Q) /\ n.opts \in BOOLEAN
    BY <1>9 DEF MadeOf
  <2>2. PICK m : m = <<"\\begin{env}">> \o (IF n.opts THEN Option ELSE <<>>)
                          \o Arguments(n.args, mean) \o Meanings(n.kids, mean) \o <<"\\end{env}">>
    OBVIOUS
  <2>3. PICK s : s = Env(n, ctx)
    OBVIOUS
  <2>4. s \in Says(m)
    <3>0. \A k \in ToSet(n.args) : tree[k].t = "text" => "%" \notin ToSet(tree[k].s)
      BY <1>9 DEF Clear
    <3>1. Env(n, ctx) \in Says(EnvEvents(n, mean))
      BY <2>1, <3>0, EnvSays
    <3>2. m = EnvEvents(n, mean)
      BY <2>2, Zenon DEF EnvEvents
    <3>. QED
      BY <2>3, <3>1, <3>2, Zenon
  <2>5. PICK b \in BOOLEAN : b = TRUE
    OBVIOUS
  <2>6. One(n, ctx) = <<[t |-> n.t, s |-> s, block |-> b]>> /\ OneMeaning(n, tree, mean) = m
    BY <1>9, <2>2, <2>3, <2>5 DEF One, OneMeaning
  <2>. QED
    BY <1>2, <2>4, <2>6
<1>10. CASE n.t = "item"
  <2>1. n.kids \in Seq(Q) /\ n.term \in Seq(Q)
    BY <1>10 DEF MadeOf
  <2>2. PICK m : m = ItemMeaning(n.term, n.kids, mean)
    OBVIOUS
  <2>3. PICK s : s = Item(n, ctx)
    OBVIOUS
  <2>4. s \in Says(m)
    <3>1. Item(n, ctx)
            \in Says(ItemMeaning(n.term, n.kids, mean))
      BY <2>1, ItemSays
    <3>. QED
      BY <2>2, <2>3, <3>1, Zenon
  <2>5. PICK b \in BOOLEAN : b = TRUE
    OBVIOUS
  <2>6. One(n, ctx) = <<[t |-> n.t, s |-> s, block |-> b]>> /\ OneMeaning(n, tree, mean) = m
    BY <1>10, <2>2, <2>3, <2>5 DEF One, OneMeaning
  <2>. QED
    BY <1>2, <2>4, <2>6
<1>11. CASE n.t = "sec"
  <2>1. n.kids \in Seq(Q) /\ n.title \in Seq(Q) /\ n.short \in Seq(Q) /\ n.label \in BOOLEAN
    BY <1>11 DEF MadeOf
  <2>2. PICK m : m = <<"\\section">> \o TermMeaning(n.short, mean) \o Braces(n.title, mean)
                          \o (IF n.label THEN <<"\\label">> ELSE <<>>) \o Meanings(n.kids, mean)
    OBVIOUS
  <2>3. PICK s : s = Section(n, ctx)
    OBVIOUS
  <2>4. s \in Says(m)
    <3>1. Section(n, ctx)
            \in Says(<<"\\section">> \o TermMeaning(n.short, mean) \o Braces(n.title, mean)
                          \o (IF n.label THEN <<"\\label">> ELSE <<>>) \o Meanings(n.kids, mean))
      BY <2>1, SectionSays
    <3>. QED
      BY <2>2, <2>3, <3>1, Zenon
  <2>5. PICK b \in BOOLEAN : b = TRUE
    OBVIOUS
  <2>6. One(n, ctx) = <<[t |-> n.t, s |-> s, block |-> b]>> /\ OneMeaning(n, tree, mean) = m
    BY <1>11, <2>2, <2>3, <2>5 DEF One, OneMeaning
  <2>. QED
    BY <1>2, <2>4, <2>6
<1>12. CASE n.t = "list"
  <2>1. n.kids \in Seq(Q) /\ n.opts \in BOOLEAN
    BY <1>12 DEF MadeOf
  <2>2. PICK m : m = <<"\\begin{list}">> \o (IF n.opts THEN Option ELSE <<>>)
                          \o ListMeaning(n.kids, tree, mean) \o <<"\\end{list}">>
    OBVIOUS
  <2>3. PICK s : s = List(n, ctx)
    OBVIOUS
  <2>4. s \in Says(m)
    <3>1. List(n, ctx) \in Says(ListEvents(n, tree, mean))
      BY <2>1, ListSays
    <3>2. m = ListEvents(n, tree, mean)
      BY <2>2, Zenon DEF ListEvents
    <3>. QED
      BY <2>3, <3>1, <3>2, Zenon
  <2>5. PICK b \in BOOLEAN : b = TRUE
    OBVIOUS
  <2>6. One(n, ctx) = <<[t |-> n.t, s |-> s, block |-> b]>> /\ OneMeaning(n, tree, mean) = m
    BY <1>12, <2>2, <2>3, <2>5 DEF One, OneMeaning
  <2>. QED
    BY <1>2, <2>4, <2>6
<1>13. CASE n.t = "mathenv"
  <2>1. n.s \in Seq(Raw) /\ n.eq \in BOOLEAN /\ n.label \in BOOLEAN
    BY <1>13 DEF MadeOf
  <2>2. PICK m : m = MathMeaning(n)
    OBVIOUS
  <2>3. PICK s : s = MathEnv(n, ctx)
    OBVIOUS
  <2>4. s \in Says(m)
    <3>1. MathEnv(n, ctx)
            \in Says(MathMeaning(n))
      BY <2>1, MathEnvSays
    <3>. QED
      BY <2>2, <2>3, <3>1, Zenon
  <2>5. PICK b \in BOOLEAN : b = TRUE
    OBVIOUS
  <2>6. One(n, ctx) = <<[t |-> n.t, s |-> s, block |-> b]>> /\ OneMeaning(n, tree, mean) = m
    BY <1>13, <2>2, <2>3, <2>5 DEF One, OneMeaning
  <2>. QED
    BY <1>2, <2>4, <2>6
<1>14. CASE n.t = "verbatim"
  <2>1. n.s \in Seq(Chars)
    BY <1>14 DEF MadeOf
  <2>2. PICK m : m = <<"\\begin{verbatim}", Newline>> \o n.s \o <<Newline, "\\end{verbatim}">>
    OBVIOUS
  <2>3. PICK s : s = Verbatim(n)
    OBVIOUS
  <2>4. s \in Says(m)
    <3>1. Verbatim(n)
            \in Says(<<"\\begin{verbatim}", Newline>> \o n.s \o <<Newline, "\\end{verbatim}">>)
      BY <2>1, VerbatimSays
    <3>. QED
      BY <2>2, <2>3, <3>1, Zenon
  <2>5. PICK b \in BOOLEAN : b = TRUE
    OBVIOUS
  <2>6. One(n, ctx) = <<[t |-> n.t, s |-> s, block |-> b]>> /\ OneMeaning(n, tree, mean) = m
    BY <1>14, <2>2, <2>3, <2>5 DEF One, OneMeaning
  <2>. QED
    BY <1>2, <2>4, <2>6
<1>15. CASE n.t = "tabular"
  <2>1. n.resize \in BOOLEAN /\ n.header \in Seq(Q) /\ n.rows \in Seq(Q)
    BY <1>15 DEF MadeOf
  <2>2. PICK m : m = TableMeaning(n, tree, mean)
    OBVIOUS
  <2>3. PICK s : s = Tabular(n, ctx)
    OBVIOUS
  <2>4. s \in Says(m)
    <3>1. Tabular(n, ctx)
            \in Says(TableMeaning(n, tree, mean))
      BY <2>1, TabularSays
    <3>. QED
      BY <2>2, <2>3, <3>1, Zenon
  <2>5. PICK b \in BOOLEAN : b = TRUE
    OBVIOUS
  <2>6. One(n, ctx) = <<[t |-> n.t, s |-> s, block |-> b]>> /\ OneMeaning(n, tree, mean) = m
    BY <1>15, <2>2, <2>3, <2>5 DEF One, OneMeaning
  <2>. QED
    BY <1>2, <2>4, <2>6
<1>16. CASE n.t = "table"
  <2>1. /\ n.resize \in BOOLEAN /\ n.header \in Seq(Q) /\ n.rows \in Seq(Q)
        /\ n.caption \in Seq(Q) /\ n.label \in BOOLEAN
    BY <1>16 DEF MadeOf
  <2>2. PICK m : m = <<"\\begin{float}">> \o Option \o <<"\\centering">>
                          \o CaptionMeaning(n, mean) \o TableMeaning(n, tree, mean)
                          \o <<"\\end{float}">>
    OBVIOUS
  <2>3. PICK s : s = Float(n, ctx, Tabular(n, Deeper(ctx, 1)), TRUE)
    OBVIOUS
  <2>4. s \in Says(m)
    <3>1. Float(n, ctx, Tabular(n, Deeper(ctx, 1)), TRUE)
            \in Says(<<"\\begin{float}">> \o Option \o <<"\\centering">>
                          \o CaptionMeaning(n, mean) \o TableMeaning(n, tree, mean)
                          \o <<"\\end{float}">>)
      BY <2>1, TableSays
    <3>. QED
      BY <2>2, <2>3, <3>1, Zenon
  <2>5. PICK b \in BOOLEAN : b = TRUE
    OBVIOUS
  <2>6. One(n, ctx) = <<[t |-> n.t, s |-> s, block |-> b]>> /\ OneMeaning(n, tree, mean) = m
    BY <1>16, <2>2, <2>3, <2>5 DEF One, OneMeaning
  <2>. QED
    BY <1>2, <2>4, <2>6
<1>17. CASE n.t = "figure"
  <2>1. n.caption \in Seq(Q) /\ n.label \in BOOLEAN
    BY <1>17 DEF MadeOf
  <2>2. PICK m : m = <<"\\begin{float}">> \o Option \o <<"\\centering", "\\includegraphics">>
                          \o CaptionMeaning(n, mean) \o <<"\\end{float}">>
    OBVIOUS
  <2>3. PICK s : s = Float(n, ctx, Pad(Deeper(ctx, 1)) \o <<"\\includegraphics">>, FALSE)
    OBVIOUS
  <2>4. s \in Says(m)
    <3>1. Float(n, ctx, Pad(Deeper(ctx, 1)) \o <<"\\includegraphics">>, FALSE)
            \in Says(<<"\\begin{float}">> \o Option \o <<"\\centering", "\\includegraphics">>
                          \o CaptionMeaning(n, mean) \o <<"\\end{float}">>)
      BY <2>1, FigureSays
    <3>. QED
      BY <2>2, <2>3, <3>1, Zenon
  <2>5. PICK b \in BOOLEAN : b = TRUE
    OBVIOUS
  <2>6. One(n, ctx) = <<[t |-> n.t, s |-> s, block |-> b]>> /\ OneMeaning(n, tree, mean) = m
    BY <1>17, <2>2, <2>3, <2>5 DEF One, OneMeaning
  <2>. QED
    BY <1>2, <2>4, <2>6
<1>18. CASE n.t = "document"
  <2>1. /\ n.kids \in Seq(Q) /\ n.title \in Seq(Q) /\ n.author \in Seq(Q) /\ n.date \in Seq(Q)
        /\ n.maketitle \in BOOLEAN /\ n.toc \in BOOLEAN /\ n.bib \in BOOLEAN
    BY <1>18 DEF MadeOf
  <2>2. PICK m : m = <<"\\documentclass">> \o TitleMeaning("\\title", n.title, mean)
                          \o TitleMeaning("\\author", n.author, mean)
                          \o TitleMeaning("\\date", n.date, mean) \o <<"\\begin{document}">>
                          \o (IF n.title # <<>> /\ n.maketitle THEN <<"\\maketitle">> ELSE <<>>)
                          \o (IF n.toc THEN <<"\\tableofcontents">> ELSE <<>>)
                          \o Meanings(n.kids, mean) \o (IF n.bib THEN <<"\\bib">> ELSE <<>>)
                          \o <<"\\end{document}">>
    OBVIOUS
  <2>3. PICK s : s = Document(n, ctx)
    OBVIOUS
  <2>4. s \in Says(m)
    <3>1. Document(n, ctx)
            \in Says(<<"\\documentclass">> \o TitleMeaning("\\title", n.title, mean)
                          \o TitleMeaning("\\author", n.author, mean)
                          \o TitleMeaning("\\date", n.date, mean) \o <<"\\begin{document}">>
                          \o (IF n.title # <<>> /\ n.maketitle THEN <<"\\maketitle">> ELSE <<>>)
                          \o (IF n.toc THEN <<"\\tableofcontents">> ELSE <<>>)
                          \o Meanings(n.kids, mean) \o (IF n.bib THEN <<"\\bib">> ELSE <<>>)
                          \o <<"\\end{document}">>)
      BY <2>1, DocumentSays
    <3>. QED
      BY <2>2, <2>3, <3>1, Zenon
  <2>5. PICK b \in BOOLEAN : b = TRUE
    OBVIOUS
  <2>6. One(n, ctx) = <<[t |-> n.t, s |-> s, block |-> b]>> /\ OneMeaning(n, tree, mean) = m
    BY <1>18, <2>2, <2>3, <2>5 DEF One, OneMeaning
  <2>. QED
    BY <1>2, <2>4, <2>6
<1>19. CASE n.t = "par"
  <2>1. n.kids \in Seq(Q)
    BY <1>19 DEF MadeOf
  <2>2. PICK m : m = Meanings(n.kids, mean)
    OBVIOUS
  <2>3. PICK s : s = Inline(n.kids, ctx)
    OBVIOUS
  <2>4. s \in Says(m)
    <3>1. Inline(n.kids, ctx)
            \in Says(Meanings(n.kids, mean))
      BY <2>1, ChildrenSay
    <3>. QED
      BY <2>2, <2>3, <3>1, Zenon
  <2>5. PICK b \in BOOLEAN : b = TRUE
    OBVIOUS
  <2>6. One(n, ctx) = <<[t |-> n.t, s |-> s, block |-> b]>> /\ OneMeaning(n, tree, mean) = m
    BY <1>19, <2>2, <2>3, <2>5 DEF One, OneMeaning
  <2>. QED
    BY <1>2, <2>4, <2>6
<1>20. CASE n.t \in {"nil", "function"}
  <2>1. One(n, ctx) = <<>> /\ OneMeaning(n, tree, mean) = <<>>
    BY <1>20 DEF One, OneMeaning
  <2>. QED
    BY <2>1, TellsNone
<1>. QED
  BY <1>1, <1>3, <1>4, <1>5, <1>6, <1>7, <1>8, <1>9, <1>10, <1>11, <1>12, <1>13, <1>14, <1>15, <1>16, <1>17, <1>18, <1>19, <1>20 DEF Kinds

----------------------------------------------------------------------------
(* What a tree stands for, and what is reached in it.                      *)

\* What the node at i stands for, if g is what those before it do.
NodeMeans(tree, i, g) == OneMeaning(tree[i], tree, [j \in 1 .. i - 1 |-> g[j]])

\* What a node stands for depends on those before it only.
LEMMA MeansSame ==
  ASSUME NEW tree, NEW i, NEW g, NEW h, \A j \in 1 .. i - 1 : g[j] = h[j]
  PROVE  NodeMeans(tree, i, g) = NodeMeans(tree, i, h)
<1>1. [j \in 1 .. i - 1 |-> g[j]] = [j \in 1 .. i - 1 |-> h[j]]
  OBVIOUS
<1>. QED
  BY <1>1 DEF NodeMeans

MeansTo(tree, g, n) == \A i \in 1 .. n : g[i] = NodeMeans(tree, i, g)

\* What the nodes stand for, one after the other.
LEMMA MeansExist ==
  ASSUME NEW tree, NEW n \in Nat
  PROVE  \E g : MeansTo(tree, g, n)
<1>. DEFINE S == {i \in Nat : \E g : MeansTo(tree, g, i)}
<1>1. 0 \in S
  <2>1. \A i \in 1 .. 0 : FALSE
    OBVIOUS
  <2>2. MeansTo(tree, <<>>, 0)
    BY <2>1 DEF MeansTo
  <2>. QED
    BY <2>2
<1>2. ASSUME NEW i \in S PROVE i + 1 \in S
  <2>1. PICK g : MeansTo(tree, g, i)
    OBVIOUS
  <2>2. PICK m \in Nat : m = i + 1
    OBVIOUS
  <2>. DEFINE h == [j \in 1 .. m |-> IF j <= i THEN g[j] ELSE NodeMeans(tree, m, g)]
  <2>3. (\A j \in 1 .. i : h[j] = g[j]) /\ h[m] = NodeMeans(tree, m, g)
    BY <2>2
  <2>. HIDE DEF h
  <2>4. ASSUME NEW j \in 1 .. m PROVE h[j] = NodeMeans(tree, j, h)
    <3>1. \A k \in 1 .. j - 1 : k \in 1 .. i /\ g[k] = h[k]
      BY <2>2, <2>3
    <3>2. NodeMeans(tree, j, g) = NodeMeans(tree, j, h)
      BY <3>1, MeansSame
    <3>3. CASE j = m
      BY <2>3, <3>2, <3>3
    <3>4. CASE j # m
      <4>1. j \in 1 .. i
        BY <2>2, <3>4
      <4>. QED
        BY <2>1, <2>3, <3>2, <4>1 DEF MeansTo
    <3>. QED
      BY <3>3, <3>4
  <2>5. MeansTo(tree, h, m)
    BY <2>4 DEF MeansTo
  <2>. QED
    BY <2>2, <2>5
<1>3. S = Nat
  <2>. HIDE DEF S
  <2>1. S \subseteq Nat
    BY DEF S
  <2>. QED
    BY <1>1, <1>2, <2>1, SetInduction
<1>. QED
  BY <1>3

\* Meaning is what the root stands for.
LEMMA MeaningIs ==
  ASSUME NEW tree, Len(tree) \in Nat, DOMAIN tree = 1 .. Len(tree)
  PROVE  \E f : MeansTo(tree, f, Len(tree)) /\ Meaning(tree) = f[Len(tree)]
<1>. DEFINE Is(f) == f = [i \in DOMAIN tree |-> NodeMeans(tree, i, f)]
<1>1. \E f : Is(f)
  <2>1. PICK g : MeansTo(tree, g, Len(tree))
    BY MeansExist
  <2>. DEFINE f == [i \in DOMAIN tree |-> g[i]]
  <2>2. \A i \in 1 .. Len(tree) : f[i] = g[i]
    OBVIOUS
  <2>3. f = [i \in DOMAIN f |-> f[i]] /\ DOMAIN f = DOMAIN tree
    OBVIOUS
  <2>. HIDE DEF f
  <2>4. ASSUME NEW i \in DOMAIN tree PROVE f[i] = NodeMeans(tree, i, f)
    <3>1. \A j \in 1 .. i - 1 : g[j] = f[j]
      BY <2>2
    <3>2. NodeMeans(tree, i, g) = NodeMeans(tree, i, f)
      BY <3>1, MeansSame
    <3>. QED
      BY <2>1, <2>2, <3>2 DEF MeansTo
  <2>. DEFINE h == [i \in DOMAIN tree |-> NodeMeans(tree, i, f)]
  <2>5. h = [i \in DOMAIN h |-> h[i]] /\ DOMAIN h = DOMAIN tree
        /\ \A i \in DOMAIN tree : h[i] = NodeMeans(tree, i, f)
    BY Zenon
  <2>6. h = f
    <3>. HIDE DEF h
    <3>. QED
      BY <2>3, <2>4, <2>5
  <2>. QED
    BY <2>6, Zenon
<1>2. PICK f : f = (CHOOSE g : Is(g)) /\ Is(f)
  BY <1>1
<1>3. Meaning(tree) = f[Len(tree)]
  BY <1>2 DEF Meaning, NodeMeans
<1>4. \A i \in DOMAIN tree : f[i] = NodeMeans(tree, i, f)
  <2>. DEFINE g == [i \in DOMAIN tree |-> NodeMeans(tree, i, f)]
  <2>1. f = g
    BY <1>2
  <2>2. \A i \in DOMAIN tree : g[i] = NodeMeans(tree, i, f)
    BY Zenon
  <2>. QED
    BY <2>1, <2>2, Zenon
<1>. QED
  BY <1>3, <1>4 DEF MeansTo

\* What is reached from the node at i, if g is what is from those it holds.
NodeReaches(tree, i, g) == {i} \cup UNION {g[k] : k \in Holds(tree[i])}

\* What is reached from a node depends on those it holds only.
LEMMA ReachesSame ==
  ASSUME NEW tree, NEW i, NEW g, NEW h, \A j \in Holds(tree[i]) : g[j] = h[j]
  PROVE  NodeReaches(tree, i, g) = NodeReaches(tree, i, h)
<1>1. {g[k] : k \in Holds(tree[i])} = {h[k] : k \in Holds(tree[i])}
  OBVIOUS
<1>. QED
  BY <1>1 DEF NodeReaches

ReachesTo(tree, g, n) == \A i \in 1 .. n : g[i] = NodeReaches(tree, i, g)

\* A node holds nodes before it.
LEMMA HeldBefore ==
  ASSUME NEW tree \in Trees, NEW i \in 1 .. Len(tree), NEW k \in Holds(tree[i])
  PROVE  k \in 1 .. i - 1
<1>1. i \in DOMAIN tree /\ Len(tree) \in Nat /\ DOMAIN tree = 1 .. Len(tree)
  BY TreeIs
<1>2. k < i
  BY <1>1 DEF Trees
<1>3. k \in 1 .. Len(tree)
  BY <1>1, TreeIs DEF Closed
<1>. QED
  BY <1>1, <1>2, <1>3

\* What is reached from the nodes, one after the other.
LEMMA ReachesExist ==
  ASSUME NEW tree \in Trees
  PROVE  \E g : ReachesTo(tree, g, Len(tree))
<1>0. Len(tree) \in Nat
  BY TreeIs
<1>. DEFINE S == {i \in 0 .. Len(tree) : \E g : ReachesTo(tree, g, i)}
<1>1. 0 \in S
  <2>1. \A i \in 1 .. 0 : FALSE
    OBVIOUS
  <2>2. ReachesTo(tree, <<>>, 0)
    BY <2>1 DEF ReachesTo
  <2>. QED
    BY <1>0, <2>2
<1>2. ASSUME NEW m \in 1 .. Len(tree), m - 1 \in S PROVE m \in S
  <2>1. PICK g : ReachesTo(tree, g, m - 1)
    BY <1>2
  <2>. DEFINE h == [j \in 1 .. m |-> IF j <= m - 1 THEN g[j] ELSE NodeReaches(tree, m, g)]
  <2>3. (\A j \in 1 .. m - 1 : h[j] = g[j]) /\ h[m] = NodeReaches(tree, m, g)
    BY <1>0
  <2>. HIDE DEF h
  <2>4. ASSUME NEW j \in 1 .. m PROVE h[j] = NodeReaches(tree, j, h)
    <3>0. j \in 1 .. Len(tree)
      BY <1>0
    <3>1. \A k \in Holds(tree[j]) : g[k] = h[k]
      <4>1. \A k \in Holds(tree[j]) : k \in 1 .. j - 1
        BY <3>0, HeldBefore
      <4>2. \A k \in 1 .. j - 1 : k \in 1 .. m - 1
        BY <1>0
      <4>. QED
        BY <2>3, <4>1, <4>2
    <3>2. NodeReaches(tree, j, g) = NodeReaches(tree, j, h)
      BY <3>1, ReachesSame
    <3>3. CASE j = m
      BY <2>3, <3>2, <3>3
    <3>4. CASE j # m
      <4>1. j \in 1 .. m - 1
        BY <1>0, <3>4
      <4>. QED
        BY <2>1, <2>3, <3>2, <4>1 DEF ReachesTo
    <3>. QED
      BY <3>3, <3>4
  <2>5. ReachesTo(tree, h, m)
    BY <2>4 DEF ReachesTo
  <2>. QED
    BY <1>0, <2>5
<1>3. \A i \in 0 .. Len(tree) : i \in S
  <2>. HIDE DEF S
  <2>. QED
    BY <1>0, <1>1, <1>2, Upward
<1>. QED
  BY <1>0, <1>3

\* Reach is what is reached from the root.
LEMMA ReachIs ==
  ASSUME NEW tree \in Trees
  PROVE  \E f : ReachesTo(tree, f, Len(tree)) /\ Reach(tree) = f[Len(tree)]
<1>0. Len(tree) \in Nat /\ DOMAIN tree = 1 .. Len(tree)
  BY TreeIs
<1>. DEFINE Is(f) == f = [i \in DOMAIN tree |-> NodeReaches(tree, i, f)]
<1>1. \E f : Is(f)
  <2>1. PICK g : ReachesTo(tree, g, Len(tree))
    BY ReachesExist
  <2>. DEFINE f == [i \in DOMAIN tree |-> g[i]]
  <2>2. \A i \in 1 .. Len(tree) : f[i] = g[i]
    BY <1>0
  <2>3. f = [i \in DOMAIN f |-> f[i]] /\ DOMAIN f = DOMAIN tree
    OBVIOUS
  <2>. HIDE DEF f
  <2>4. ASSUME NEW i \in DOMAIN tree PROVE f[i] = NodeReaches(tree, i, f)
    <3>1. \A j \in Holds(tree[i]) : g[j] = f[j]
      <4>1. \A j \in Holds(tree[i]) : j \in 1 .. i - 1
        BY <1>0, HeldBefore
      <4>. QED
        BY <1>0, <2>2, <4>1
    <3>2. NodeReaches(tree, i, g) = NodeReaches(tree, i, f)
      BY <3>1, ReachesSame
    <3>. QED
      BY <1>0, <2>1, <2>2, <3>2 DEF ReachesTo
  <2>. DEFINE h == [i \in DOMAIN tree |-> NodeReaches(tree, i, f)]
  <2>5. h = [i \in DOMAIN h |-> h[i]] /\ DOMAIN h = DOMAIN tree
        /\ \A i \in DOMAIN tree : h[i] = NodeReaches(tree, i, f)
    BY Zenon
  <2>6. h = f
    <3>. HIDE DEF h
    <3>. QED
      BY <2>3, <2>4, <2>5
  <2>. QED
    BY <2>6, Zenon
<1>2. PICK f : f = (CHOOSE g : Is(g)) /\ Is(f)
  BY <1>1
<1>3. Reach(tree) = f[Len(tree)]
  BY <1>2 DEF Reach, NodeReaches
<1>4. \A i \in DOMAIN tree : f[i] = NodeReaches(tree, i, f)
  <2>. DEFINE g == [i \in DOMAIN tree |-> NodeReaches(tree, i, f)]
  <2>1. f = g
    BY <1>2
  <2>2. \A i \in DOMAIN tree : g[i] = NodeReaches(tree, i, f)
    BY Zenon
  <2>. QED
    BY <2>1, <2>2, Zenon
<1>. QED
  BY <1>0, <1>3, <1>4 DEF ReachesTo

\* The root is reached, and what is reached with every node.
LEMMA ReachClosed ==
  ASSUME NEW tree \in Trees
  PROVE  Closed(tree, Reach(tree)) /\ Len(tree) \in Reach(tree)
<1>0. Len(tree) \in Nat \ {0} /\ DOMAIN tree = 1 .. Len(tree)
  BY TreeIs
<1>1. PICK f : ReachesTo(tree, f, Len(tree)) /\ Reach(tree) = f[Len(tree)]
  BY ReachIs
<1>. DEFINE Good(i) == i \in f[i] /\ Closed(tree, f[i])
            S == {i \in 0 .. Len(tree) : \A k \in 1 .. i : Good(k)}
<1>2. 0 \in S
  BY <1>0
<1>3. ASSUME NEW i \in 1 .. Len(tree), i - 1 \in S PROVE i \in S
  <2>1. \A k \in 1 .. i - 1 : Good(k)
    BY <1>3
  <2>2. f[i] = {i} \cup UNION {f[k] : k \in Holds(tree[i])}
    BY <1>1 DEF ReachesTo, NodeReaches
  <2>3. \A k \in Holds(tree[i]) : k \in f[k] /\ Closed(tree, f[k])
    BY <2>1, HeldBefore
  <2>4. i \in f[i]
    BY <2>2
  <2>5. f[i] \subseteq DOMAIN tree
    BY <1>0, <2>2, <2>3 DEF Closed
  <2>6. ASSUME NEW j \in f[i] PROVE Holds(tree[j]) \subseteq f[i]
    <3>1. CASE j = i
      BY <2>2, <2>3, <3>1
    <3>2. CASE j # i
      <4>1. PICK k \in Holds(tree[i]) : j \in f[k]
        BY <2>2, <3>2
      <4>2. Holds(tree[j]) \subseteq f[k]
        BY <2>3, <4>1 DEF Closed
      <4>. QED
        BY <2>2, <4>2
    <3>. QED
      BY <3>1, <3>2
  <2>7. Good(i)
    BY <2>4, <2>5, <2>6 DEF Closed
  <2>. HIDE DEF Good
  <2>8. \A k \in 1 .. i : k = i \/ k \in 1 .. i - 1
    BY <1>0
  <2>. QED
    BY <1>0, <2>1, <2>7, <2>8
<1>4. \A i \in 0 .. Len(tree) : i \in S
  <2>. HIDE DEF S
  <2>. QED
    BY <1>0, <1>2, <1>3, Upward
<1>. QED
  BY <1>0, <1>1, <1>4

----------------------------------------------------------------------------
(* Every tree says what it stands for.                                     *)

\* The items of a list and the rows of a table hold places before it.
LEMMA MadeOfListed ==
  ASSUME NEW tree, NEW Q, \A k \in Q : MadeOf(tree[k], Q, Q)
  PROVE  Listed(tree, Q) /\ Tabled(tree, Q)
<1>1. \A k \in Q : tree[k].t \in {"plain", "item"} =>
                     tree[k].term \in Seq(Q) /\ tree[k].kids \in Seq(Q)
  BY DEF MadeOf
<1>2. <<>> \in Seq(Q)
  BY NoText
<1>. QED
  BY <1>1, <1>2 DEF Listed, Tabled, Cells

\* The pieces of the node at i say what it stands for.
NodeSpeaks(tree, f, i) == \A d \in BOOLEAN, e \in Nat : Rendering(tree)[i][d][e] \in Tells(f[i])

\* Every node that is reached says what it stands for.
LEMMA RenderingSays ==
  ASSUME NEW tree \in Trees, Unambiguous(tree), NEW f, MeansTo(tree, f, Len(tree))
  PROVE  \A i \in 1 .. Len(tree) : i \in Reach(tree) => NodeSpeaks(tree, f, i)
<1>. DEFINE R == Rendering(tree)
            D == Reach(tree)
<1>1. /\ Len(tree) \in Nat /\ DOMAIN tree = 1 .. Len(tree)
      /\ Closed(tree, D)
  BY TreeIs, ReachClosed
<1>2. \A i \in 1 .. Len(tree) : R[i] = NodeRenders(tree, i, R)
  BY <1>1, RenderingIs DEF RendersTo
<1>3. \A i \in D : Clear(tree, tree[i])
  BY DEF Unambiguous, Clear
<1>. DEFINE S == {i \in 0 .. Len(tree) : \A k \in 1 .. i : k \in D => NodeSpeaks(tree, f, k)}
<1>4. 0 \in S
  BY <1>1
<1>5. ASSUME NEW i \in 1 .. Len(tree), i - 1 \in S PROVE i \in S
  <2>1. \A k \in 1 .. i - 1 : k \in D => NodeSpeaks(tree, f, k)
    BY <1>5
  <2>2. ASSUME i \in D PROVE NodeSpeaks(tree, f, i)
    <3>. DEFINE of == [j \in 1 .. i - 1 |-> R[j]]
                mean == [j \in 1 .. i - 1 |-> f[j]]
                Q == Earlier(D, i)
    <3>1. \A k \in Q : k \in D /\ k \in 1 .. i - 1 /\ of[k] = R[k] /\ mean[k] = f[k]
      BY <1>1 DEF Earlier, Closed
    <3>2. MadeOf(tree[i], Q, Q)
      <4>1. Proper(tree, D, i) \subseteq Q
        BY DEF Proper, Earlier
      <4>2. MadeOf(tree[i], Proper(tree, D, i), Q)
        BY <1>1, <2>2, NodeMadeOf
      <4>. QED
        BY <4>1, <4>2, MadeOfMore
    <3>3. \A k \in Q : MadeOf(tree[k], Q, Q)
      <4>1. Grown(tree, Proper(tree, D, i), Q)
        <5>1. i \in Nat
          BY <1>1
        <5>. QED
          BY <1>1, <5>1, TreeGrown
      <4>2. Proper(tree, D, i) \subseteq Q
        BY DEF Proper, Earlier
      <4>3. \A k \in Q : MadeOf(tree[k], Proper(tree, D, i), Q)
        BY <4>1 DEF Grown
      <4>. QED
        BY <4>2, <4>3, MadeOfMore
    <3>4. Listed(tree, Q) /\ Tabled(tree, Q)
      BY <3>3, MadeOfListed
    <3>5. ASSUME NEW d \in BOOLEAN, NEW e \in Nat
          PROVE  R[i][d][e] = One(tree[i], [tree |-> tree, of |-> of, indent |-> d, depth |-> e])
      <4>1. R[i] = NodeRenders(tree, i, R)
        BY <1>2
      <4>2. NodeRenders(tree, i, R)[d][e]
              = One(tree[i], [tree |-> tree, of |-> of, indent |-> d, depth |-> e])
        BY DEF NodeRenders
      <4>. QED
        BY <4>1, <4>2
    <3>6. f[i] = OneMeaning(tree[i], tree, mean)
      BY DEF MeansTo, NodeMeans
    <3>. HIDE DEF of, mean, Q, R, D
    <3>7. Speaks(tree, of, mean, Q)
      <4>1. \A k \in Q : \A d \in BOOLEAN, e \in Nat : of[k][d][e] \in Tells(mean[k])
        BY <2>1, <3>1 DEF NodeSpeaks, R
      <4>2. ASSUME NEW k \in Q, tree[k].t = "text"
            PROVE  /\ tree[k].s \in Seq(Chars) /\ ToSet(tree[k].s) \cap {"[", "]"} = {}
                   /\ mean[k] = Seen(tree[k].s)
        <5>1. tree[k].s \in Seq(Chars)
          BY <3>3, <4>2 DEF MadeOf
        <5>2. ToSet(tree[k].s) \cap {"[", "]"} = {}
          BY <1>3, <3>1, <4>2 DEF Clear
        <5>3. f[k] = OneMeaning(tree[k], tree, [j \in 1 .. k - 1 |-> f[j]])
          <6>1. k \in 1 .. Len(tree)
            BY <1>1, <3>1
          <6>. QED
            BY <6>1 DEF MeansTo, NodeMeans
        <5>4. OneMeaning(tree[k], tree, [j \in 1 .. k - 1 |-> f[j]]) = Seen(tree[k].s)
          BY <4>2 DEF OneMeaning
        <5>. QED
          BY <3>1, <5>1, <5>2, <5>3, <5>4
      <4>. QED
        BY <4>1, <4>2 DEF Speaks
    <3>. SUFFICES ASSUME NEW d \in BOOLEAN, NEW e \in Nat
                  PROVE  R[i][d][e] \in Tells(f[i])
      BY DEF NodeSpeaks, R
    <3>8. [tree |-> tree, of |-> of, indent |-> d, depth |-> e] \in Context(tree, of)
      BY DEF Context
    <3>9. PICK ctx \in Context(tree, of) :
            ctx = [tree |-> tree, of |-> of, indent |-> d, depth |-> e]
      BY <3>8
    <3>10. Clear(tree, tree[i])
      BY <1>3, <2>2
    <3>11. One(tree[i], ctx) \in Tells(OneMeaning(tree[i], tree, mean))
      BY <3>2, <3>4, <3>7, <3>10, OneSays
    <3>. QED
      BY <3>5, <3>6, <3>9, <3>11
  <2>8. \A k \in 1 .. i : k = i \/ k \in 1 .. i - 1
    BY <1>1
  <2>. QED
    BY <1>1, <2>1, <2>2, <2>8
<1>6. \A i \in 0 .. Len(tree) : i \in S
  <2>. HIDE DEF S
  <2>. QED
    BY <1>1, <1>4, <1>5, Upward
<1>. QED
  BY <1>1, <1>6

\* So does the text of a tree.
LEMMA RenderSays ==
  ASSUME NEW tree \in Trees, Unambiguous(tree), NEW d \in BOOLEAN
  PROVE  Render(tree, d) \in Says(Meaning(tree))
<1>1. Len(tree) \in 1 .. Len(tree) /\ Len(tree) \in Nat /\ DOMAIN tree = 1 .. Len(tree)
  BY TreeIs
<1>2. PICK f : MeansTo(tree, f, Len(tree)) /\ Meaning(tree) = f[Len(tree)]
  BY <1>1, MeaningIs
<1>3. NodeSpeaks(tree, f, Len(tree))
  BY <1>1, <1>2, ReachClosed, RenderingSays
<1>4. Rendering(tree)[Len(tree)][d][0] \in Tells(f[Len(tree)])
  BY <1>3 DEF NodeSpeaks
<1>5. PICK ps, m : ps = Rendering(tree)[Len(tree)][d][0] /\ m = f[Len(tree)] /\ ps \in Tells(m)
  BY <1>4
<1>6. Glue(ps, Blank).s \in Says(m)
  BY <1>5, SpacesSay, GlueSays
<1>. QED
  BY <1>2, <1>5, <1>6 DEF Render

\* What a text says is what is read in it.
LEMMA SaidIsRead ==
  ASSUME NEW m, NEW s \in Says(m)
  PROVE  Reads(s) = m
<1>1. m \in Seq(Sight) /\ <<>> \o m = m /\ <<>> \in Seq(Sight)
  BY SaysType, NoText
<1>2. PICK b \in BOOLEAN : b = FALSE
  OBVIOUS
<1>3. PICK n \in Nat : n = 0
  OBVIOUS
<1>4. PICK e \in Seq(Sight) : e = <<>> /\ e \o m = m
  BY <1>1
<1>5. PICK c \in BOOLEAN : ReadAll(AtText(e, b, n), s) = AtText(m, c, n)
  <2>1. \E c \in BOOLEAN : ReadAll(AtText(e, b, n), s) = AtText(e \o m, c, n)
    BY DEF Says
  <2>. QED
    BY <1>4, <2>1
<1>6. AtText(m, c, n).seen = m
  BY DEF AtText, Amid
<1>7. AtText(e, b, n) = [seen |-> <<>>, mode |-> "text", may |-> FALSE, opts |-> 0, word |-> FALSE]
  BY <1>2, <1>3, <1>4 DEF AtText, Amid
<1>. QED
  BY <1>5, <1>6, <1>7 DEF Reads

\* TeX sees in the text of a tree what the tree stands for, whatever the
\* script has built: strings, groups, options, items and their lists, tables,
\* mathematics and documents (latex.lua 57-659, README.md 122).
THEOREM DocReadsBack == Spec => []ReadsBack
<1>1. DocInv => ReadsBack
  <2>. SUFFICES ASSUME DocInv, Rendered, Unambiguous(node)
                PROVE  Reads(out) = Meaning(node)
    BY DEF ReadsBack
  <2>1. PICK indent \in BOOLEAN : out = Render(node, indent)
    BY DEF DocInv, OutIsText, Rendered
  <2>2. node \in Trees
    BY DEF DocInv
  <2>3. Render(node, indent) \in Says(Meaning(node))
    BY <2>2, RenderSays
  <2>. QED
    BY <2>1, <2>3, SaidIsRead
<1>. QED
  BY <1>1, DocInvariant, PTL

==============================================================================
