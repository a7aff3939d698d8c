------------------------------- MODULE ScanMC -------------------------------
(* Templates over the characters the loop tells apart, for the default      *)
(* delimiter and for the one that README.md:140 recommends for LaTeX; "x"   *)
(* stands for all other characters.                                         *)
EXTENDS Scan, SequencesExt

MCSeps == {<<"%">>, <<"@", "@">>}

Over(c) == BoundedSeq({c, "\\", "\n", "x"}, 6)

MCTemplates == Over("%") \cup Over("@")
=============================================================================
