------------------------------ MODULE LatexDoc ------------------------------
(***************************************************************************)
(* A script that uses lib/latex.lua: it builds a tree with the             *)
(* constructors, each of which takes what was built before as its          *)
(* children, renders it, writes it to a file and compiles that with        *)
(* L.compile, again and again.  What is rendered is compared with what TeX *)
(* reads: Reads gives the events TeX sees in a text, Meaning those that    *)
(* the tree stands for.  The steps on the files are those of LatexFiles.   *)
(***************************************************************************)
EXTENDS Latex, LatexFiles, Integers

CONSTANTS
  Starts,   \* the trees a script begins with
  Picks,    \* how the children of a constructor are chosen: 0 is the root
  Chars,    \* the characters of strings
  Letters,  \* those that go on a control sequence
  Raw,      \* what raw text and lines of mathematics are made of
  MaxSize,  \* bound on the constructors nested in a document
  MaxFile   \* and in one that is written to the file

ASSUME BoundsAssumption == MaxSize \in Nat /\ MaxFile \in Nat /\ MaxWrites \in Nat

\* The tokens of the renderer that are neither characters nor raw text.
Marks ==
  {Indent, " & ", "\\%", "\\item", "\\cmd", "\\begin{verbatim}", "\\end{verbatim}"}

ASSUME TokensAssumption ==
  /\ Letters \subseteq Chars /\ {"t", "%", "lr"} \subseteq Chars /\ Chars \cap Marks = {}
  /\ Raw \cap (Marks \cup Spaces \cup {"%", "[", "]"}) = {}
  /\ Letters \cap {"[", "{"} = {}

Place == Nat \ {0}

\* What the constructors make; items is a plain table with items in it.
Node ==
  [t : {"nil", "function", "rule"}]
    \cup [t : {"text", "verbatim"}, s : Seq(Chars)]
    \cup [t : {"raw"}, s : Seq(Raw), block : BOOLEAN]
    \cup [t : {"mathenv"}, eq : BOOLEAN, label : BOOLEAN, s : Seq(Raw)]
    \cup [t : {"frag", "par", "items"}, kids : Seq(Place)]
    \cup [t : {"plain", "item"}, term : Seq(Place), kids : Seq(Place)]
    \cup [t : {"cmd", "list"}, opts : BOOLEAN, kids : Seq(Place)]
    \cup [t : {"env"}, opts : BOOLEAN, args : Seq(Place), kids : Seq(Place)]
    \cup [t : {"sec"}, label : BOOLEAN, short : Seq(Place), title : Seq(Place), kids : Seq(Place)]
    \cup [t : {"tabular"}, resize : BOOLEAN, header : Seq(Place), rows : Seq(Place)]
    \cup [t : {"table"}, resize : BOOLEAN, header : Seq(Place), rows : Seq(Place),
          caption : Seq(Place), label : BOOLEAN]
    \cup [t : {"figure"}, caption : Seq(Place), label : BOOLEAN]
    \cup [t : {"document"}, kids : Seq(Place), title : Seq(Place), author : Seq(Place),
          date : Seq(Place), maketitle : BOOLEAN, toc : BOOLEAN, bib : BOOLEAN]

\* Items, and tables of items.
Itemed == {"item", "items"}

\* Items are the children of lists, environments and tables in those.
MayHold(n, k, kind) ==
  kind \in Itemed =>
    \/ n.t = "items" \/ (n.t = "env" /\ k \notin ToSet(n.args))
    \/ n.t = "list" /\ kind = "item"

\* A node holds what was built before it; LaTeX takes an \item only in a list.
Trees ==
  {tree \in Seq(Node) \ {<<>>} :
     \A i \in DOMAIN tree :
       \A k \in Holds(tree[i]) : k < i /\ MayHold(tree[i], k, tree[k].t)}

ASSUME ScriptAssumption == Starts \subseteq Trees /\ Picks \subseteq Seq(Nat)

VARIABLES
  size,  \* the constructors nested in node
  out    \* what L.render has last returned: the text, <<"error">> if it raised

docvars == <<node, size, out>>
vars == <<docvars, filevars>>

Init == node \in Starts /\ size = 0 /\ out = <<>> /\ FilesInit

----------------------------------------------------------------------------
(* The constructors.  The script has built the nodes of the tree node, the *)
(* root last, and may give any of them to a constructor.                   *)

\* The children of a constructor.
Kids ==
  {[i \in DOMAIN pick |-> IF pick[i] = 0 THEN Len(node) ELSE pick[i]] :
     pick \in {q \in Picks : \A i \in DOMAIN q : q[i] <= Len(node)}}

\* The place of the node that is built next.
New == Len(node) + 1

\* A constructor has built the nodes ns.  (A bound: later documents are those
\* of Starts.)
Build(ns) ==
  /\ size < MaxSize /\ tex = NoFile
  /\ node' = node \o ns
  /\ size' = size + 1
  /\ out' = <<>>
  /\ UNCHANGED filevars

\* pack and check_holes raise for a child that is nil.
Whole(kids) == \A i \in DOMAIN kids : node[kids[i]] # Hole

\* No child is an item, or a table of items: those are for lists and
\* environments.
NoItem(kids) == \A i \in DOMAIN kids : node[kids[i]].t \notin Itemed
Plainly(kids) == Whole(kids) /\ NoItem(kids)

\* The array of a Lua table: what is nil at its end is not part of it.
Array(kids) ==
  SubSeq(kids, 1, Max({0} \cup {i \in DOMAIN kids : node[kids[i]] # Hole}))

\* A title, caption or term of a script is one string.
Some == Text(<<"t", "%">>)

\* A table of children, which keeps a nil that is not its last.
PlainTable ==
  \E kids \in Kids :
    \/ NoItem(kids) /\ Build(<<Plain(<<>>, Array(kids))>>)
    \/ NoItem(kids) /\ Build(<<Some, Plain(<<New>>, Array(kids))>>)
    \/ ~NoItem(kids) /\ Build(<<[t |-> "items", kids |-> Array(kids)]>>)

Frag == \E kids \in Kids : Plainly(kids) /\ Build(<<[t |-> "frag", kids |-> kids]>>)

Par == \E kids \in Kids : Plainly(kids) /\ Build(<<[t |-> "par", kids |-> kids]>>)

\* L.cmd, and L.bf and the like, which make one argument of all children, a
\* table that is looked at when it is rendered.
Command ==
  \E kids \in Kids :
    /\ NoItem(kids)
    /\ \/ Whole(kids) /\ Build(<<[t |-> "cmd", opts |-> TRUE, kids |-> kids]>>)
       \/ Build(<<Plain(<<>>, Array(kids)), [t |-> "cmd", opts |-> FALSE, kids |-> <<New>>]>>)

\* L.env; written as one table it has the children that are in its array.
Environment ==
  \E kids \in Kids \cup {Array(given) : given \in Kids} :
    /\ Whole(kids)
    /\ \/ Build(<<[t |-> "env", opts |-> FALSE, args |-> <<>>, kids |-> kids]>>)
       \/ Build(<<Text(<<"lr">>), [t |-> "env", opts |-> TRUE, args |-> <<New>>, kids |-> kids]>>)

\* L.item: a single table with a term is the item.
ItemNode ==
  \E kids \in Kids :
    LET n == node[kids[1]]
        own == Len(kids) = 1 /\ n.t = "plain" /\ n.term # <<>>
    IN  /\ Plainly(kids) /\ (own => Whole(n.kids))
        /\ Build(<<[t |-> "item", term |-> IF own THEN n.term ELSE <<>>,
                    kids |-> IF own THEN n.kids ELSE kids]>>)

ListNode ==
  \E kids \in Kids :
    /\ Whole(Array(kids)) /\ \A i \in DOMAIN kids : node[kids[i]].t # "items"
    /\ Build(<<[t |-> "list", opts |-> FALSE, kids |-> Array(kids)]>>)

\* A section: the children are its content or its title, a table that is
\* looked at when it is rendered.
SectionNode ==
  \E kids \in Kids :
    /\ NoItem(kids)
    /\ \/ /\ Whole(kids)
          /\ Build(<<Some, [t |-> "sec", label |-> TRUE, short |-> <<New>>, title |-> <<New>>,
                            kids |-> kids]>>)
       \/ Build(<<[t |-> "sec", label |-> FALSE, short |-> <<>>, title |-> Array(kids),
                   kids |-> <<>>]>>)

\* L.tabular: the children are its rows, or the cells of its header and its row.
TabularNode ==
  \E kids \in Kids :
    /\ NoItem(kids)
    /\ \/ Build(<<[t |-> "tabular", resize |-> FALSE, header |-> <<>>, rows |-> Array(kids)]>>)
       \/ Build(<<Plain(<<>>, Array(kids)),
                  [t |-> "tabular", resize |-> TRUE, header |-> <<New>>, rows |-> <<New>>]>>)

\* L.table and L.figure.
FloatNode ==
  \E kids \in Kids :
    /\ NoItem(kids)
    /\ \/ Build(<<Some, [t |-> "table", resize |-> FALSE, header |-> <<>>, rows |-> Array(kids),
                         caption |-> <<New>>, label |-> TRUE]>>)
       \/ /\ Len(kids) = 1 /\ Whole(kids)
          /\ Build(<<[t |-> "figure", caption |-> kids, label |-> FALSE]>>)

DocumentNode ==
  \E kids \in Kids :
    /\ Plainly(Array(kids))
    /\ \/ Build(<<Text(<<>>), [t |-> "document", kids |-> Array(kids), title |-> <<>>,
                               author |-> <<>>, date |-> <<New>>, maketitle |-> TRUE,
                               toc |-> TRUE, bib |-> FALSE]>>)
       \/ \E maketitle \in BOOLEAN :
            Build(<<Some, [t |-> "document", kids |-> Array(kids), title |-> <<New>>,
                           author |-> <<New>>, date |-> <<>>, maketitle |-> maketitle,
                           toc |-> FALSE, bib |-> TRUE]>>)

Construct ==
  \/ PlainTable \/ Frag \/ Par \/ Command \/ Environment \/ ItemNode \/ ListNode
  \/ SectionNode \/ TabularNode \/ FloatNode \/ DocumentNode

----------------------------------------------------------------------------
(* Output.                                                                 *)

Error == <<"error">>

\* L.render, tostring and L.print: the text, or an error that is raised.  (A
\* bound: once there is a file, only L.write renders.)
LRender ==
  /\ tex = NoFile
  /\ \E indent \in BOOLEAN :
       out' = IF Renderable(node) THEN Render(node, indent) ELSE Error
  /\ UNCHANGED <<node, size, filevars>>

\* TeX stops at a control sequence it does not know.
Takes(s) == "\\bad" \notin ToSet(s)

TakenByTeX(tree) == Takes(Render(tree, TRUE))

\* L.write, with the error it may raise.
LWrite ==
  /\ size <= MaxFile
  /\ WriteFile
  /\ out' = IF Renderable(node) THEN <<>> ELSE Error
  /\ UNCHANGED <<node, size>>

\* The script goes on to another document.
NextDocument ==
  /\ tex # NoFile /\ run = NoRun
  /\ node' \in Starts /\ size' = 0 /\ out' = <<>>
  /\ UNCHANGED filevars

\* L.compile, in two steps.
LCompile == (Engine \/ Collect) /\ UNCHANGED docvars

Next == Construct \/ LRender \/ LWrite \/ NextDocument \/ LCompile

Spec == Init /\ [][Next]_vars

----------------------------------------------------------------------------
(* What the tree stands for, and what TeX reads.                           *)

Option == <<"opt[", "opt", "opt]">>

\* The characters of a string; TeX does not count spaces.
Seen(s) == FlattenSeq([i \in DOMAIN s |-> IF s[i] \in Spaces THEN <<>> ELSE <<s[i]>>])

\* of[k] is what the node at k stands for.
Meanings(kids, of) == FlattenSeq([i \in DOMAIN kids |-> of[kids[i]]])

Braces(kids, of) == <<"{">> \o Meanings(kids, of) \o <<"}">>

Arguments(kids, of) == FlattenSeq([i \in DOMAIN kids |-> Braces(<<kids[i]>>, of)])

TermMeaning(term, of) ==
  IF term = <<>> THEN <<>> ELSE <<"opt[">> \o Meanings(term, of) \o <<"opt]">>

ItemMeaning(term, parts, of) == <<"\\item">> \o TermMeaning(term, of) \o Meanings(parts, of)

\* A child of a list is an item, but for a list after another child.
ListMeaning(kids, tree, of) ==
  FlattenSeq([i \in DOMAIN kids |->
                LET c == tree[kids[i]]
                IN  IF c.t = "list" /\ i > 1 THEN of[kids[i]]
                    ELSE IF c.t \in {"plain", "item"} THEN ItemMeaning(c.term, c.kids, of)
                    ELSE ItemMeaning(<<>>, <<kids[i]>>, of)])

CaptionMeaning(n, of) ==
  (IF n.caption = <<>> THEN <<>> ELSE <<"\\caption">> \o Braces(n.caption, of))
    \o (IF n.label THEN <<"\\label">> ELSE <<>>)

RowMeaning(cells, of) ==
  Join([i \in DOMAIN cells |-> of[cells[i]]], <<" & ">>) \o <<"\\\\">>

RowsMeaning(kids, tree, of) ==
  FlattenSeq([i \in DOMAIN kids |->
                IF tree[kids[i]].t = "rule" THEN <<"\\rule">>
                ELSE RowMeaning(Cells(tree[kids[i]]), of)])

TableMeaning(n, tree, of) ==
  LET inner == <<"\\begin{tabular}", "\\rule">>
                 \o (IF n.header = <<>> THEN <<>>
                     ELSE RowMeaning(Cells(tree[n.header[1]]), of) \o <<"\\rule">>)
                 \o RowsMeaning(n.rows, tree, of) \o <<"\\rule", "\\end{tabular}">>
  IN  IF n.resize THEN <<"\\resizebox", "{">> \o inner \o <<"}">> ELSE inner

MathMeaning(n) ==
  LET label == IF n.label THEN <<"\\label">> ELSE <<>>
      rows == Join([i \in DOMAIN n.s |-> <<n.s[i]>>
                                           \o (IF i = 1 /\ ~n.eq THEN label ELSE <<>>)],
                   IF n.eq THEN <<>> ELSE <<"\\\\">>)
  IN  <<"\\begin{math}">> \o (IF n.eq \/ n.s = <<>> THEN label ELSE <<>>) \o rows
        \o <<"\\end{math}">>

TitleMeaning(word, kids, of) == IF kids = <<>> THEN <<>> ELSE <<word>> \o Braces(kids, of)

\* The events that TeX should see for a node.
OneMeaning(n, tree, of) ==
  CASE n.t = "text" -> Seen(n.s)
    [] n.t = "raw" -> n.s
    [] n.t = "rule" -> <<"\\rule">>
    [] n.t \in {"plain", "items", "frag", "par"} -> Meanings(n.kids, of)
    [] n.t = "cmd" -> <<"\\cmd">> \o (IF n.opts THEN Option ELSE <<>>) \o Arguments(n.kids, of)
    [] n.t = "env" -> <<"\\begin{env}">> \o (IF n.opts THEN Option ELSE <<>>)
                        \o Arguments(n.args, of) \o Meanings(n.kids, of) \o <<"\\end{env}">>
    [] n.t = "item" -> ItemMeaning(n.term, n.kids, of)
    [] n.t = "list" -> <<"\\begin{list}">> \o (IF n.opts THEN Option ELSE <<>>)
                         \o ListMeaning(n.kids, tree, of) \o <<"\\end{list}">>
    [] n.t = "sec" -> <<"\\section">> \o TermMeaning(n.short, of) \o Braces(n.title, of)
                        \o (IF n.label THEN <<"\\label">> ELSE <<>>) \o Meanings(n.kids, of)
    [] n.t = "mathenv" -> MathMeaning(n)
    [] n.t = "verbatim" ->
         <<"\\begin{verbatim}", Newline>> \o n.s \o <<Newline, "\\end{verbatim}">>
    [] n.t = "tabular" -> TableMeaning(n, tree, of)
    [] n.t = "table" -> <<"\\begin{float}">> \o Option \o <<"\\centering">>
                          \o CaptionMeaning(n, of) \o TableMeaning(n, tree, of)
                          \o <<"\\end{float}">>
    [] n.t = "figure" -> <<"\\begin{float}">> \o Option \o <<"\\centering", "\\includegraphics">>
                           \o CaptionMeaning(n, of) \o <<"\\end{float}">>
    [] n.t = "document" ->
         <<"\\documentclass">> \o TitleMeaning("\\title", n.title, of)
           \o TitleMeaning("\\author", n.author, of) \o TitleMeaning("\\date", n.date, of)
           \o <<"\\begin{document}">>
           \o (IF n.title # <<>> /\ n.maketitle THEN <<"\\maketitle">> ELSE <<>>)
           \o (IF n.toc THEN <<"\\tableofcontents">> ELSE <<>>)
           \o Meanings(n.kids, of) \o (IF n.bib THEN <<"\\bib">> ELSE <<>>) \o <<"\\end{document}">>
    [] OTHER -> <<>>

Meaning(tree) ==
  LET of[i \in DOMAIN tree] == OneMeaning(tree[i], tree, [j \in 1 .. i - 1 |-> of[j]])
  IN  of[Len(tree)]

\* After these TeX looks for an optional argument, beyond spaces.
TakesOption ==
  {"\\item", "\\\\", "\\cmd", "\\section", "\\begin{env}", "\\begin{list}", "\\begin{float}"}

\* One token.  In a verbatim everything is kept; a comment ends with its line;
\* spaces do not count, but for ending the name of a control sequence.
Read(r, x) ==
  LET event(y) == [seen |-> Append(r.seen, y), mode |-> r.mode, may |-> y \in TakesOption,
                   opts |-> r.opts, word |-> y = "\\cmd"]
  IN  CASE r.mode = "verbatim" ->
             [r EXCEPT !.seen = Append(@, x), !.mode = IF x = "\\end{verbatim}" THEN "text" ELSE @]
        [] r.mode = "comment" -> [r EXCEPT !.mode = IF x = Newline THEN "text" ELSE @]
        [] OTHER ->
             CASE x \in Spaces -> [r EXCEPT !.word = FALSE]
               [] x = "%" -> [r EXCEPT !.mode = "comment"]
               [] x = "\\%" -> event("%")
               [] x = "[" /\ r.may -> [event("opt[") EXCEPT !.opts = @ + 1]
               [] x = "]" /\ r.opts > 0 -> [event("opt]") EXCEPT !.opts = @ - 1]
               [] x = "\\begin{verbatim}" -> [event(x) EXCEPT !.mode = "verbatim"]
               [] x \in Letters /\ r.word -> event("\\bad")
               [] OTHER -> event(x)

\* The state of TeX after a text.
ReadAll(r, s) ==
  LET after[i \in 0 .. Len(s)] == IF i = 0 THEN r ELSE Read(after[i - 1], s[i])
  IN  after[Len(s)]

\* The events TeX sees in a text.
Reads(s) ==
  ReadAll([seen |-> <<>>, mode |-> "text", may |-> FALSE, opts |-> 0, word |-> FALSE], s).seen
----------------------------------------------------------------------------

\* Strings without brackets, commands with an argument at least, and no
\* comments in the arguments of an environment, where a string is raw.
Unambiguous(tree) ==
  \A i \in Reach(tree) :
    LET n == tree[i]
    IN  /\ n.t = "text" => ToSet(n.s) \cap {"[", "]"} = {}
        /\ n.t = "cmd" => n.kids # <<>>
        /\ n.t = "env" => \A k \in ToSet(n.args) : tree[k].t = "text" => "%" \notin ToSet(tree[k].s)

Rendered == out \notin {<<>>, Error}

\* Types; indentation begins a line, a group or a cell.
TypeOK ==
  /\ size \in 0 .. MaxSize
  /\ \A i \in DOMAIN out :
       out[i] = Indent => i = 1 \/ out[i - 1] \in {Newline, Indent, "{", "[", " & "}
  /\ FilesTypeOK /\ tex.of <= MaxWrites

\* TeX sees in the text of a tree what the tree stands for: strings as they
\* are (README.md 122), groups, environments, items with the lists nested in
\* them, verbatim text unchanged (latex.lua 57-659), if no string has a
\* bracket, which TeX may take for that of an option, and no command is
\* without an argument, whose name would go on in the text after it.
ReadsBack == Rendered /\ Unambiguous(node) => Reads(out) = Meaning(node)

\* Every \item is the first on its line but for indentation (README.md
\* 134-135, latex.lua 247-253, 395).
ItemsOnOwnLine ==
  \A i \in {k \in DOMAIN out : out[k] = "\\item"} :
    \E j \in 0 .. i - 1 :
      /\ j = 0 \/ out[j] = Newline
      /\ \A k \in j + 1 .. i - 1 : out[k] = Indent

\* An \item stands in the group or environment that token i is in.
InItems(i) ==
  LET ends(what) == {"\\" \o what \o e : e \in {"{env}", "{list}", "{tabular}", "{float}"}}
      count(k, ys) == Cardinality({j \in 1 .. k : out[j] \in ys})
      depth[k \in 0 .. Len(out)] ==
        count(k, {"{"} \cup ends("begin")) - count(k, {"}"} \cup ends("end"))
  IN  \E k \in DOMAIN out :
        /\ out[k] = "\\item" /\ depth[k] = depth[i]
        /\ \A m \in (k .. i) \cup (i .. k) : depth[m] >= depth[i]

\* The text of a par shares its paragraph with no other (latex.lua 112-113,
\* 147): between it and any character before or after it is a blank line, or
\* a group or environment begins or ends.  Beside an \item, where blocks are
\* separated by one line break, it does.
ParagraphsApart ==
  LET letters == {i \in DOMAIN out : out[i] \in Letters}
  IN  \A i, j \in letters :
        /\ i < j /\ "p" \in {out[i], out[j]}
        /\ \A k \in i + 1 .. j - 1 : out[k] \in Spaces
        /\ ~InItems(i)
        => Cardinality({k \in i + 1 .. j - 1 : out[k] = Newline}) >= 2

=============================================================================
