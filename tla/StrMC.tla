------------------------------- MODULE StrMC -------------------------------
(* Instances of Str: an int of 5 bits keeps every wrap-around in reach.     *)
EXTENDS Str

MCPlain == 1 .. 7
MCOther == {-1, 1, 2, 3, 12}
MCChunks == {0, 1, 2, 5, 11}
=============================================================================
