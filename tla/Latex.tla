-------------------------------- MODULE Latex --------------------------------
(***************************************************************************)
(* The rendering of lib/latex.lua: what L.render makes of a tree of nodes. *)
(* The text is a sequence of tokens: a character of a Lua string, a        *)
(* control sequence, a bracket, a line break, two spaces of indentation.   *)
(* Names, options and widths, which are copied as they are, are one token. *)
(*                                                                         *)
(* A tree is the sequence of its nodes in the order in which they were     *)
(* built, the root at its end; a child is a place in it, before that of    *)
(* the node that holds it, as Lua tables hold references.  A node is a     *)
(* record; t is its kind, _t in the code.  A child that may be missing,    *)
(* such as the term of an item, is a sequence of at most one.              *)
(***************************************************************************)
EXTENDS Naturals, Sequences, SequencesExt

Newline == "\n"
Blank == <<Newline, Newline>>
Line == <<Newline>>
Space == " "
Indent == "  "

Spaces == {Newline, Space, Indent}

Text(s) == [t |-> "text", s |-> s]
Plain(term, kids) == [t |-> "plain", term |-> term, kids |-> kids]

\* What stands for nil among children, and for a value that is no child.
Hole == [t |-> "nil"]
Odd == [t |-> "function"]

\* The places that a node holds.
Holds(n) ==
  UNION {ToSet(n[f]) : f \in {"term", "kids", "args", "title", "short", "author", "date",
                               "caption", "header", "rows"} \cap DOMAIN n}

\* The places of a tree that are reached from its root.
Reach(tree) ==
  LET reach[i \in DOMAIN tree] == {i} \cup UNION {reach[k] : k \in Holds(tree[i])}
  IN  reach[Len(tree)]

\* Joined by a separator, as by table.concat.
Join(seqs, sep) ==
  FlattenSeq([i \in DOMAIN seqs |-> IF i = 1 THEN seqs[i] ELSE sep \o seqs[i]])

----------------------------------------------------------------------------
(* Rendering.  A context is that of the code, indent and depth, with the   *)
(* tree and what its nodes render to: of[k] is a function of indent and    *)
(* depth whose values are sequences of pieces, the text of a node and      *)
(* whether it is a block.                                                  *)

\* escape: one pass over the characters; what stands for a special one is not
\* looked at again.
Escape(s) == [i \in DOMAIN s |-> IF s[i] = "%" THEN "\\%" ELSE s[i]]

Opts(some) == IF some THEN <<"[", "opt", "]">> ELSE <<>>

Pad(ctx) == [i \in 1 .. (IF ctx.indent THEN ctx.depth ELSE 0) |-> Indent]
Deeper(ctx, k) == [ctx EXCEPT !.depth = @ + k]

\* Defect: the text of an item is taken as it is.
StripNothing(s) == s

\* gsub("^%s+", "").
Strip(s) ==
  LET first == {i \in DOMAIN s : s[i] \notin Spaces}
  IN  IF first = {} THEN <<>>
      ELSE SubSeq(s, CHOOSE i \in first : \A j \in first : i <= j, Len(s))

\* Whether flatten, render_one and row_str, for which a row is a list of cells,
\* find nothing to raise an error about.
Renderable(tree) ==
  \A i \in Reach(tree) :
    /\ tree[i].t \notin {"nil", "function"}
    /\ tree[i].t \in {"tabular", "table"} =>
         /\ \A k \in ToSet(tree[i].header) : tree[k].t = "plain"
         /\ \A k \in ToSet(tree[i].rows) : tree[k].t \in {"plain", "rule"}

\* The pieces of children; those of a plain table are those of its children.
Pieces(kids, ctx) ==
  FlattenSeq([i \in DOMAIN kids |-> ctx.of[kids[i]][ctx.indent][ctx.depth]])

\* Defects: only one of the neighbours is looked at.
GlueAfterBlock(ps, bsep) ==
  LET kept == {i \in DOMAIN ps : ps[i].block \/ ps[i].s # <<>>}
      apart == {i \in kept : \E j \in kept : /\ j < i /\ ps[j].block
                                             /\ \A k \in kept : k <= j \/ k >= i}
  IN  [s |-> FlattenSeq([i \in DOMAIN ps |-> (IF i \in apart THEN bsep ELSE <<>>) \o ps[i].s]),
       block |-> \E i \in kept : ps[i].block]

GlueBeforeBlock(ps, bsep) ==
  LET kept == {i \in DOMAIN ps : ps[i].block \/ ps[i].s # <<>>}
      apart == {i \in kept : ps[i].block /\ \E j \in kept : j < i}
  IN  [s |-> FlattenSeq([i \in DOMAIN ps |-> (IF i \in apart THEN bsep ELSE <<>>) \o ps[i].s]),
       block |-> \E i \in kept : ps[i].block]

\* render_children: a piece that is empty and no block is left out; bsep
\* stands between two pieces of which one is a block.
Glue(ps, bsep) ==
  LET kept == {i \in DOMAIN ps : ps[i].block \/ ps[i].s # <<>>}
      apart == {i \in kept : \E j \in kept : /\ j < i /\ (ps[i].block \/ ps[j].block)
                                             /\ \A k \in kept : k <= j \/ k >= i}
  IN  [s |-> FlattenSeq([i \in DOMAIN ps |-> (IF i \in apart THEN bsep ELSE <<>>) \o ps[i].s]),
       block |-> \E i \in kept : ps[i].block]

Children(kids, ctx, bsep) == Glue(Pieces(kids, ctx), bsep)

Inline(kids, ctx) == Children(kids, ctx, Blank).s

Group(kids, ctx) == <<"{">> \o Inline(kids, ctx) \o <<"}">>

Groups(args, ctx) == FlattenSeq([i \in DOMAIN args |-> Group(<<args[i]>>, ctx)])

\* The mandatory arguments of an environment: a string is raw here.
EnvArgs(args, ctx) ==
  FlattenSeq([i \in DOMAIN args |->
                LET a == ctx.tree[args[i]]
                IN  IF a.t = "text" THEN <<"{">> \o a.s \o <<"}">> ELSE Group(<<args[i]>>, ctx)])

\* The term of an item or the short title of a section.
Term(term, ctx) == IF term = <<>> THEN <<>> ELSE <<"[">> \o Inline(term, ctx) \o <<"]">>

\* \item with its term and the text that follows it on the line.
ItemLine(term, body, ctx) ==
  <<"\\item">> \o Term(term, ctx) \o (IF body = <<>> THEN <<>> ELSE <<Space>> \o body)

Cmd(n, ctx) == <<"\\cmd">> \o Opts(n.opts) \o Groups(n.kids, ctx)

Env(n, ctx) ==
  LET ps == Pieces(n.kids, ctx)
      items == \E i \in DOMAIN ps : ps[i].t = "item"
      p == IF items THEN Pad(ctx) ELSE <<>>
      body == IF items THEN Children(n.kids, Deeper(ctx, 1), Line).s
              ELSE Inline(n.kids, ctx)
  IN  p \o <<"\\begin{env}">> \o Opts(n.opts) \o EnvArgs(n.args, ctx)
        \o (IF body = <<>> THEN <<>> ELSE Line \o body)
        \o Line \o p \o <<"\\end{env}">>

Item(n, ctx) ==
  Pad(ctx) \o ItemLine(n.term, Strip(Children(n.kids, Deeper(ctx, 1), Line).s), ctx)

Section(n, ctx) ==
  LET body == Inline(n.kids, ctx)
  IN  <<"\\section">> \o Term(n.short, ctx) \o Group(n.title, ctx)
        \o (IF n.label THEN Line \o <<"\\label">> ELSE <<>>)
        \o (IF body = <<>> THEN <<>> ELSE Blank \o body)

\* Defect: a nested list is an item of its own.
ItemsApart(kids, tree) ==
  [i \in DOMAIN kids |->
     LET c == tree[kids[i]]
     IN  IF c.t \in {"plain", "item"} THEN [term |-> c.term, parts |-> c.kids]
         ELSE [term |-> <<>>, parts |-> <<kids[i]>>]]

\* The items of a list: a list that follows an item is part of it.
Items(kids, tree) ==
  LET items[i \in 0 .. Len(kids)] ==
        IF i = 0 THEN <<>>
        ELSE LET c == tree[kids[i]]
             IN  IF c.t = "list" /\ i > 1
                 THEN [items[i - 1] EXCEPT ![Len(items[i - 1])].parts = Append(@, kids[i])]
                 ELSE Append(items[i - 1], IF c.t \in {"plain", "item"}
                                           THEN [term |-> c.term, parts |-> c.kids]
                                           ELSE [term |-> <<>>, parts |-> <<kids[i]>>])
  IN  items[Len(kids)]

List(n, ctx) ==
  LET p == Pad(ctx)
      Row(it) == Pad(Deeper(ctx, 1))
                   \o ItemLine(it.term, Strip(Children(it.parts, Deeper(ctx, 2), Line).s), ctx)
      items == Items(n.kids, ctx.tree)
  IN  Join(<<p \o <<"\\begin{list}">> \o Opts(n.opts)>>
             \o [i \in DOMAIN items |-> Row(items[i])]
             \o <<p \o <<"\\end{list}">> >>, Line)

\* The label of an equation is a line of its own, that of an align is part of
\* its first line.
MathEnv(n, ctx) ==
  LET p == Pad(ctx)
      rows == [i \in DOMAIN n.s |-> p \o <<Indent, n.s[i]>>]
      lines == IF ~n.label THEN rows
               ELSE IF n.eq \/ rows = <<>> THEN <<p \o <<Indent, "\\label">> >> \o rows
               ELSE [rows EXCEPT ![1] = @ \o <<Space, "\\label">>]
  IN  p \o <<"\\begin{math}", Newline>>
        \o Join(lines, IF n.eq THEN Line ELSE <<Space, "\\\\", Newline>>)
        \o Line \o p \o <<"\\end{math}">>

Verbatim(n) == <<"\\begin{verbatim}", Newline>> \o n.s \o <<Newline, "\\end{verbatim}">>

\* The cells of a row; what is no list raises an error, see Renderable.
Cells(n) == IF n.t = "plain" THEN n.kids ELSE <<>>

\* row_str: the text of a row.
RowStr(cells, ctx) ==
  Join([i \in DOMAIN cells |-> Inline(<<cells[i]>>, ctx)], <<" & ">>)
    \o <<Space, "\\\\">>

\* A table that is not resized.
Rows(n, ctx) ==
  LET p == Pad(ctx)
      p1 == Pad(Deeper(ctx, 1))
      rule == p1 \o <<"\\rule">>
      row(k) == p1 \o RowStr(Cells(ctx.tree[k]), ctx)
  IN  Join(<<p \o <<"\\begin{tabular}">>, rule>>
             \o (IF n.header = <<>> THEN <<>> ELSE <<row(n.header[1]), rule>>)
             \o [i \in DOMAIN n.rows |->
                   IF ctx.tree[n.rows[i]].t = "rule" THEN rule ELSE row(n.rows[i])]
             \o <<rule, p \o <<"\\end{tabular}">> >>, Line)

Tabular(n, ctx) ==
  IF ~n.resize THEN Rows(n, ctx)
  ELSE Pad(ctx) \o <<"\\resizebox", "{", "%", Newline>> \o Rows(n, Deeper(ctx, 1))
         \o Line \o Pad(ctx) \o <<"}">>

\* float_lines: table has its caption on top, figure below.
Float(n, ctx, body, top) ==
  LET p == Pad(ctx)
      p1 == Pad(Deeper(ctx, 1))
      caption == (IF n.caption = <<>> THEN <<>>
                  ELSE <<p1 \o <<"\\caption">> \o Group(n.caption, ctx)>>)
                   \o (IF n.label THEN <<p1 \o <<"\\label">> >> ELSE <<>>)
  IN  Join(<<p \o <<"\\begin{float}", "[", "opt", "]">>, p1 \o <<"\\centering">> >>
             \o (IF top THEN caption \o <<body>> ELSE <<body>> \o caption)
             \o <<p \o <<"\\end{float}">> >>, Line)

\* A line of the preamble, if the document has what stands in it.
TitleLine(word, kids, ctx) == IF kids = <<>> THEN <<>> ELSE Line \o <<word>> \o Group(kids, ctx)

\* A date that is false is an empty one.
Document(n, ctx) ==
  LET body == Inline(n.kids, ctx)
      head == <<"\\documentclass">> \o TitleLine("\\title", n.title, ctx)
                \o TitleLine("\\author", n.author, ctx) \o TitleLine("\\date", n.date, ctx)
      parts == (IF n.title # <<>> /\ n.maketitle THEN << <<"\\maketitle">> >> ELSE <<>>)
                 \o (IF n.toc THEN << <<"\\tableofcontents">> >> ELSE <<>>)
                 \o (IF body = <<>> THEN <<>> ELSE <<body>>)
                 \o (IF n.bib THEN << <<"\\bib">> >> ELSE <<>>)
  IN  Join(<<head, <<"\\begin{document}">> >> \o parts \o << <<"\\end{document}">> >>, Blank)

\* render_one, and the part of flatten for a plain table: the pieces of a node.
One(n, ctx) ==
  LET piece(s, block) == << [t |-> n.t, s |-> s, block |-> block] >>
      frag == Children(n.kids, ctx, Blank)
  IN  CASE n.t \in {"plain", "items"} -> Pieces(n.kids, ctx)
        [] n.t = "text" -> piece(Escape(n.s), FALSE)
        [] n.t = "raw" -> piece(n.s, n.block)
        [] n.t = "rule" -> piece(<<"\\rule">>, TRUE)
        [] n.t = "frag" -> piece(frag.s, frag.block)
        [] n.t = "par" -> piece(Inline(n.kids, ctx), TRUE)
        [] n.t = "cmd" -> piece(Cmd(n, ctx), FALSE)
        [] n.t = "env" -> piece(Env(n, ctx), TRUE)
        [] n.t = "item" -> piece(Item(n, ctx), TRUE)
        [] n.t = "sec" -> piece(Section(n, ctx), TRUE)
        [] n.t = "list" -> piece(List(n, ctx), TRUE)
        [] n.t = "mathenv" -> piece(MathEnv(n, ctx), TRUE)
        [] n.t = "verbatim" -> piece(Verbatim(n), TRUE)
        [] n.t = "tabular" -> piece(Tabular(n, ctx), TRUE)
        [] n.t = "table" -> piece(Float(n, ctx, Tabular(n, Deeper(ctx, 1)), TRUE), TRUE)
        [] n.t = "figure" ->
             piece(Float(n, ctx, Pad(Deeper(ctx, 1)) \o <<"\\includegraphics">>, FALSE), TRUE)
        [] n.t = "document" -> piece(Document(n, ctx), TRUE)
        [] OTHER -> <<>>  \* excluded by Renderable

\* The nodes of a tree, each rendered from those before it.
Rendering(tree) ==
  LET of[i \in DOMAIN tree] ==
        [indent \in BOOLEAN |->
           [depth \in Nat |->
              One(tree[i], [tree |-> tree, of |-> [j \in 1 .. i - 1 |-> of[j]],
                            indent |-> indent, depth |-> depth])]]
  IN  of

\* L.render of a node, a string or a list.
Render(tree, indent) == Glue(Rendering(tree)[Len(tree)][indent][0], Blank).s
=============================================================================
