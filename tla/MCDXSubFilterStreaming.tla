----------------------- MODULE MCDXSubFilterStreaming -----------------------
(* Instances of DXSubFilterStreaming for TLC: two segments farther apart   *)
(* than the search looks, lines of two texts.         *)
EXTENDS DXSubFilterStreaming

CONSTANTS line, other

MCLines == {line, other}
MCStrip == [l \in MCLines |-> l]
MCTimes == {0, 1000}
MCNever == -1
MCHeadNodes == {<<-7, -7>>}
=============================================================================
