------------------------------ MODULE MCPlayback ------------------------------
(* Constants of the instance of Playback that TLC checks. *)
EXTENDS Playback

Frame(start, stop, kind) == [start |-> start, stop |-> stop, kind |-> kind]

(* Two frames, of which the last is long enough for the end to need a      *)
(* timer; a frame that stops before it starts and one without times; a     *)
(* frame of a type that is refused.                                        *)
First == Frame(0, 1, "timed")
Last == Frame(1, 2, "timed")
MCStreams ==
  { <<First, Last>>,
    <<Frame(1, 0, "timed"), Frame(0, 0, "untimed")>>,
    <<Frame(0, 1, "refused"), Last>> }
=============================================================================
