--------------------------- MODULE LongBracketMC ---------------------------
(* All texts over the characters the loop and the lexer tell apart.         *)
EXTENDS LongBracket, SequencesExt

MCChar == {"]", "=", "x", "\n", "\r"}

\* With brackets only, long enough for two overlapping closers of level 2;
\* with line breaks, shorter.
MCTexts == BoundedSeq({"]", "=", "x"}, 7) \cup BoundedSeq(MCChar, 4)
=============================================================================
