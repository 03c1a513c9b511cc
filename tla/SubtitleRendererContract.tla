----------------------- MODULE SubtitleRendererContract -----------------------
(***************************************************************************)
(* What ISubtitleRenderer (source/subtitlecore/ISubtitleRenderer.h:39-83)  *)
(* promises the filter in a playback that runs forward: a frame is a       *)
(* promise of a number of pictures followed by just that many, and what is *)
(* on screen stays there while it is active.  How lines are stored,        *)
(* searched and cached is the business of a renderer.                      *)
(***************************************************************************)
EXTENDS Integers, FiniteSets

CONSTANTS Times, Never

VARIABLES
  lines,     \* the subtitles the renderer has been given
  now,       \* the time of the last frame, Never before the first
  promised,  \* the number of pictures of the frame
  waiting,   \* the pictures have been promised and not been asked for
  screen     \* the pictures of the frame, each with the entry it is of

vars == <<lines, now, promised, waiting, screen>>

Active(e, t) == e.StartTime <= t /\ t <= e.EndTime

Init ==
  /\ lines = {} /\ now = Never
  /\ promised = 0 /\ waiting = FALSE /\ screen = {}

(* A line is parsed before a frame reaches it, or turned down. *)
Provide ==
  /\ ~waiting
  /\ lines \subseteq lines'
  /\ \A e \in lines' \ lines : now < e.StartTime
  /\ UNCHANGED <<now, promised, waiting, screen>>

Clear ==
  /\ ~waiting
  /\ lines' = {} /\ now' = Never
  /\ promised' = 0 /\ screen' = {}
  /\ UNCHANGED waiting

(* A promise of none ends the frame. *)
Promise(t) ==
  /\ ~waiting /\ now <= t
  /\ now' = t
  /\ promised' \in Nat
  /\ waiting' = (promised' > 0)
  /\ IF waiting'
     THEN UNCHANGED screen
     ELSE screen' = {} /\ \A p \in screen : ~Active(p.entry, t)
  /\ UNCHANGED lines

Show ==
  /\ waiting /\ waiting' = FALSE
  /\ Cardinality(screen') = promised
  /\ \A p \in screen' : p.entry \in lines /\ Active(p.entry, now)
  /\ \A p \in screen : Active(p.entry, now) => p \in screen'
  /\ UNCHANGED <<lines, now, promised>>

Next == Provide \/ Clear \/ (\E t \in Times : Promise(t)) \/ Show

Spec == Init /\ [][Next]_vars
=============================================================================
