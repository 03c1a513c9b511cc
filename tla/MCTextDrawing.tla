---------------------------- MODULE MCTextDrawing ----------------------------
(* Instance of TextDrawing for TLC: two renderers, those of two filters in *)
(* one process or one of which replaces the other, and texts that take no, *)
(* one or two callbacks.                                                   *)
EXTENDS TextDrawing

CONSTANTS r1, r2

MCRenderers == {r1, r2}
MCCallbacks == 0 .. 2
==============================================================================
