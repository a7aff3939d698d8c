------------------------------ MODULE RenderMC ------------------------------
(* Two strings, one of them with a NUL inside, and two files: a template,   *)
(* which may be rendered over itself, and one to be made on a full device.  *)
EXTENDS Render

CONSTANTS a, b, zero, tmpl, full

MCByte == {a, b, zero}
MCPieces == {<<a>>, <<b, zero, a>>}
MCFiles == {tmpl, full}
MCStart == [f \in MCFiles |-> IF f = tmpl THEN <<a, b>> ELSE Absent]
MCFull == {full}
=============================================================================
