------------------------ MODULE MCSRTSubtitleRenderer ------------------------
(* Instances of SRTSubtitleRenderer for TLC.  The times lie closer and     *)
(* farther apart than the 100 units the search looks around a frame.       *)
EXTENDS SRTSubtitleRenderer, TLC

CONSTANTS tagged, stripped

MCLines == {tagged, stripped}
MCStrip == [l \in MCLines |-> stripped]
MCTimes == {0, 60, 1000}
MCTimes4 == {0, 60, 1000, 1060}
MCNever == -1
(* Memory that looks like no span of the instance, and like one that       *)
(* covers every frame.                                                     *)
MCHeadNodes == {<<-7, -7>>, <<-1, 5000>>}
MCOtherMemory == {<<-7, -7>>}
=============================================================================
