------------------------------- MODULE MainMC -------------------------------
(* All short values of TMG_LIB_PATH with a script that does not load, all   *)
(* short command lines, and a script that uses find_lib with directories    *)
(* "a" and "b" and one whose paths do not fit.                              *)
EXTENDS Main

Input(a, e) == [argv |-> a, env |-> e]

MCInputs ==
  {Input(<<"tmg", "missing">>, e) : e \in BoundedSeq({"a", "/", ":"}, 6)}
  \cup {Input(<<"tmg">> \o a, <<>>) : a \in BoundedSeq({"s", "-v", "x"}, 3)}
  \cup {Input(<<>>, <<>>)}
  \cup {Input(<<"tmg", "s">>, <<"a", ":", "l", "l", "l", "/">>)}

MCTemplate(d) == [dir |-> <<d>>, form |-> "?.lua"]

MCOldPath  == <<[dir |-> <<".">>, form |-> "?.lua"]>>
MCOldCPath == <<[dir |-> <<".">>, form |-> "?.so"]>>

MCNames == {<<"x">>, <<"y", "/", "x">>, <<"lib", "x", ".so">>, <<"/", "x">>,
            <<"y", "/">>, <<"y", "y", "/", "x">>}

MCLibFiles == {<<"a", "/", "lib", "x", ".so">>, <<"a", "/", "x", ".so">>,
               <<"b", "/", "x", ".so">>, <<"b", "/", "y", "/", "x", ".so">>, <<"/", "x">>}

MCEntries == {<<"b">>, NotString}
=============================================================================
