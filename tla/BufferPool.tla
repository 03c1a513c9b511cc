------------------------------ MODULE BufferPool ------------------------------
(***************************************************************************)
(* What IMemAllocator promises the pins that share an allocator: a number  *)
(* of buffers is agreed while none is used, they are handed out only while *)
(* the pool is open and each to one user at a time, and a pool that was    *)
(* closed can be opened again before its buffers have come back.  How the  *)
(* free ones are kept and how a caller waits is the allocator's business.  *)
(***************************************************************************)
EXTENDS Integers

VARIABLES
  agreed,  \* how many buffers the pins have agreed on
  size,    \* how many there are
  open,    \* buffers may be taken
  out      \* the buffers in use

vars == <<agreed, size, open, out>>

Init ==
  /\ agreed = 0 /\ size = 0
  /\ open = FALSE /\ out = {}

Agree ==
  /\ ~open /\ out = {}
  /\ agreed' \in Nat
  /\ UNCHANGED <<size, open, out>>

(* Memory may run short, with the pool left smaller and closed. *)
Resize ==
  /\ ~open /\ out = {}
  /\ size' \in Nat
  /\ UNCHANGED <<agreed, open, out>>

Open ==
  /\ ~open /\ open' = TRUE
  /\ agreed > 0 /\ size' = agreed
  /\ out # {} => size' = size
  /\ UNCHANGED <<agreed, out>>

Close ==
  /\ open /\ open' = FALSE
  /\ UNCHANGED <<agreed, size, out>>

Take ==
  /\ open
  /\ \E b \in (1 .. size) \ out : out' = out \cup {b}
  /\ UNCHANGED <<agreed, size, open>>

Give ==
  /\ \E b \in out : out' = out \ {b}
  /\ UNCHANGED <<agreed, size, open>>

Next == Agree \/ Resize \/ Open \/ Close \/ Take \/ Give

Spec == Init /\ [][Next]_vars
==============================================================================
