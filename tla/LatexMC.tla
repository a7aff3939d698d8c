------------------------------ MODULE LatexMC ------------------------------
(* Strings of one character and nodes without children, and what goes       *)
(* before or after a child: nothing, a string, a paragraph, a list, nil.    *)
EXTENDS LatexDoc

\* What a script has at hand: nil, a string, a paragraph, a list.
MCStock ==
  <<Hole, Text(<<"b">>), Text(<<"p">>), [t |-> "par", kids |-> <<3>>],
    [t |-> "list", opts |-> FALSE, kids |-> <<2>>]>>

MCPicks == {<<0>>, <<2, 0, 5>>, <<4, 0, 2>>, <<0, 1>>, <<1, 0, 1>>}

MCList(kids) == [t |-> "list", opts |-> FALSE, kids |-> kids]

\* What nests deeper than the constructors of the run: a list in a list, an
\* item with a term, a table to be resized.
MCTrees ==
  {<<Text(<<"a">>), MCList(<<4>>), Plain(<<>>, <<>>), MCList(<<8>>), MCList(<<6, 7, 9>>)>>,
   <<Text(<<"a">>), [t |-> "item", term |-> <<6>>, kids |-> <<5, 2>>]>>,
   <<Text(<<"a">>), [t |-> "rule"],
     Plain(<<>>, <<6, 4, 2>>),
     [t |-> "tabular", resize |-> TRUE, header |-> <<8>>, rows |-> <<8, 7, 8>>]>>}

MCLeaves ==
  {Text(<<"%">>), Text(<<"[">>), Text(<<>>), Odd, [t |-> "par", kids |-> <<3>>],
   [t |-> "verbatim", s |-> <<Space, "%", Newline, Newline, "[">>],
   [t |-> "raw", s |-> <<"\\bad">>, block |-> FALSE],
   [t |-> "raw", s |-> <<"\\newpage">>, block |-> TRUE],
   [t |-> "cmd", opts |-> FALSE, kids |-> <<>>],
   [t |-> "mathenv", eq |-> TRUE, label |-> TRUE, s |-> <<"x">>],
   [t |-> "mathenv", eq |-> FALSE, label |-> TRUE, s |-> <<"x", "y">>]}

MCStarts == {MCStock \o tree : tree \in MCTrees \cup {<<leaf>> : leaf \in MCLeaves}}

MCLetters == {"a", "b", "p", "t"}
MCChars == MCLetters \cup {"%", "[", "lr", Space, Newline}
MCRaw == {"\\bad", "\\newpage", "x", "y"}
=============================================================================
