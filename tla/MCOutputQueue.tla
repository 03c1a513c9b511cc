---------------------------- MODULE MCOutputQueue -----------------------------
(* Constants of the instance of OutputQueue that TLC checks. *)
EXTENDS OutputQueue

(* Batches of two: sent when the list runs out or when full, with and      *)
(* without a worker and the optimisation.  Without a worker a batch that   *)
(* is not exact breaks an assertion of ReceiveMultiple.                    *)
MCModes == {m \in Mode : (~m.queued => m.exact /\ ~m.opt)}

(* A flush that the optimisation cut short may leave m_evFlushComplete set *)
(* for a later Reset to find.                                              *)
MCResetModes == {m \in MCModes : ~m.opt}
=============================================================================
