------------------------------- MODULE PinLink -------------------------------
(***************************************************************************)
(* A connection between an output and an input pin, and how the base       *)
(* classes make and break it (CBasePin, CBaseOutputPin and CBaseInputPin   *)
(* of lib/dshowbaseclasses/source/amfilter.cpp).                           *)
(*                                                                         *)
(* Each pin has a pointer to the other, the output pin one more to its     *)
(* IMemInputPin, and both one to the allocator they have agreed on.  A     *)
(* link is a record of these pointers, of the references that are counted  *)
(* on the pins and the allocators, and of the allocators committed; an     *)
(* operator returns the link that a call leaves.  A call may fail wherever *)
(* it asks a filter or the memory: "fails" holds the points of a call at   *)
(* which it does.                                                          *)
(***************************************************************************)
EXTENDS Integers

(* Made by the input pin, or by the output pin. *)
Allocators == {"theirs", "own"}

Counted == {"output", "input"} \cup Allocators

Link ==
  [connector : BOOLEAN,     \* the output pin's m_Connected is the input pin
   receiver : BOOLEAN,      \* the input pin's m_Connected is the output pin
   m_pInputPin : BOOLEAN,   \* the output pin's is the input pin
   outAllocator : Allocators \cup {"none"},   \* the output pin's m_pAllocator
   inAllocator : Allocators \cup {"none"},    \* the input pin's m_pAllocator
   refs : [Counted -> Int], committed : SUBSET Allocators]

NoLink ==
  [connector |-> FALSE, receiver |-> FALSE, m_pInputPin |-> FALSE,
   outAllocator |-> "none", inAllocator |-> "none",
   refs |-> [o \in Counted |-> 0], committed |-> {}]

AddRef(l, object) == [l EXCEPT !.refs[object] = @ + 1]
Release(l, object) == [l EXCEPT !.refs[object] = @ - 1]

-----------------------------------------------------------------------------
(* Breaking: a pin decommits the allocator it gives back.                  *)
BreakOutput(l) ==
  LET freed == IF l.outAllocator = "none" THEN l
               ELSE Release([l EXCEPT !.outAllocator = "none", !.committed = @ \ {l.outAllocator}],
                            l.outAllocator)
  IN  IF l.m_pInputPin THEN Release([freed EXCEPT !.m_pInputPin = FALSE], "input") ELSE freed

BreakInput(l) ==
  IF l.inAllocator = "none" THEN l
  ELSE Release([l EXCEPT !.inAllocator = "none", !.committed = @ \ {l.inAllocator}], l.inAllocator)

DisconnectOutput(l) ==
  IF l.connector THEN Release([BreakOutput(l) EXCEPT !.connector = FALSE], "input") ELSE l

DisconnectInput(l) ==
  IF l.receiver THEN Release([BreakInput(l) EXCEPT !.receiver = FALSE], "output") ELSE l

-----------------------------------------------------------------------------
(* ReceiveConnection of the input pin.                                     *)
Accepts(l, fails) == ~l.receiver /\ fails \cap {"type", "complete"} = {}

ReceiveConnection(l, fails) ==
  IF l.receiver THEN l
  ELSE IF "type" \in fails THEN BreakInput(l)
  ELSE LET connected == AddRef([l EXCEPT !.receiver = TRUE], "output")
       IN  IF "complete" \in fails
           THEN BreakInput(Release([connected EXCEPT !.receiver = FALSE], "output"))
           ELSE connected

-----------------------------------------------------------------------------
(* The allocator.  The input pin makes its own when it has none.           *)
GetAllocator(l) ==
  LET made == IF l.inAllocator # "none" THEN l
              ELSE AddRef([l EXCEPT !.inAllocator = "theirs"], "theirs")
  IN  AddRef([made EXCEPT !.outAllocator = made.inAllocator], made.inAllocator)

InitAllocator(l) == AddRef([l EXCEPT !.outAllocator = "own"], "own")

NotifyAllocator(l) ==
  LET held == AddRef([l EXCEPT !.inAllocator = l.outAllocator], l.outAllocator)
  IN  IF l.inAllocator = "none" THEN held ELSE Release(held, l.inAllocator)

GiveBack(l) == Release([l EXCEPT !.outAllocator = "none"], l.outAllocator)

(* Mutant: an allocator that does not suit is not given back. *)
TryAllocator_Keeps(l, suits) ==
  IF suits THEN NotifyAllocator(l) ELSE [l EXCEPT !.outAllocator = "none"]

(* DecideBufferSize and NotifyAllocator succeed on it, or it is given back.*)
TryAllocator(l, suits) == IF suits THEN NotifyAllocator(l) ELSE GiveBack(l)

DecideAllocator(l, fails) ==
  LET first == IF "get" \in fails THEN l
               ELSE TryAllocator(GetAllocator(l), "theirs" \notin fails)
  IN  IF first.outAllocator # "none" \/ "init" \in fails THEN first
      ELSE TryAllocator(InitAllocator(first), "own" \notin fails)

-----------------------------------------------------------------------------
(* CheckConnect of the output pin. *)
CheckConnect(l) == AddRef([l EXCEPT !.m_pInputPin = TRUE], "input")

GiveUp(l) ==
  LET broken == BreakOutput(l)
  IN  IF l.connector THEN Release([broken EXCEPT !.connector = FALSE], "input") ELSE broken

(* Mutant: the input pin is left connected when no allocator is agreed on. *)
AttemptConnection_NoDisconnect(l, fails) ==
  IF "interface" \in fails THEN BreakOutput(l)
  ELSE LET looking == AddRef([CheckConnect(l) EXCEPT !.connector = TRUE], "input")
           received == ReceiveConnection(looking, fails)
           completed == IF "filter" \in fails THEN received ELSE DecideAllocator(received, fails)
       IN  IF ~Accepts(l, fails) THEN GiveUp(received)
           ELSE IF completed.outAllocator = "none" THEN GiveUp(completed)
           ELSE completed

(* The output pin looks connected while it asks the input pin to connect;  *)
(* the filter completes the connection and the allocator is decided on, or *)
(* all is undone, on the input pin by its Disconnect.                      *)
AttemptConnection(l, fails) ==
  IF "interface" \in fails THEN BreakOutput(l)
  ELSE LET looking == AddRef([CheckConnect(l) EXCEPT !.connector = TRUE], "input")
           received == ReceiveConnection(looking, fails)
           completed == IF "filter" \in fails THEN received ELSE DecideAllocator(received, fails)
       IN  IF ~Accepts(l, fails) THEN GiveUp(received)
           ELSE IF completed.outAllocator = "none" THEN GiveUp(DisconnectInput(completed))
           ELSE completed

(* An attempt may fail at one point, or for want of an allocator at two. *)
AllocatorFails == {{}} \cup {{a} : a \in {"get", "theirs"}}
                       \cup {{a, b} : a \in {"get", "theirs"}, b \in {"init", "own"}}
Failures == AllocatorFails \cup {{p} : p \in {"interface", "type", "complete", "filter"}}

-----------------------------------------------------------------------------
(* Active and Inactive, of pins that are connected. *)
ActiveOutput(l) == IF l.connector THEN [l EXCEPT !.committed = @ \cup {l.outAllocator}] ELSE l
InactiveOutput(l) == IF l.connector THEN [l EXCEPT !.committed = @ \ {l.outAllocator}] ELSE l
InactiveInput(l) == IF l.receiver THEN [l EXCEPT !.committed = @ \ {l.inAllocator}] ELSE l

-----------------------------------------------------------------------------
Whole(l) == l.connector /\ l.receiver
Half(l) == l.connector # l.receiver

One(pointer) == IF pointer THEN 1 ELSE 0

(* As many references are counted as there are pointers. *)
Balanced(l) ==
  /\ l.refs["output"] = One(l.receiver)
  /\ l.refs["input"] = One(l.connector) + One(l.m_pInputPin)
  /\ \A a \in Allocators : l.refs[a] = One(l.outAllocator = a) + One(l.inAllocator = a)

(* A pin holds what it needs of the other exactly while it is connected,   *)
(* and both hold one allocator.                                            *)
Sound(l) ==
  /\ Balanced(l)
  /\ l.m_pInputPin <=> l.connector
  /\ l.outAllocator # "none" <=> l.connector
  /\ ~l.receiver => l.inAllocator = "none"
  /\ Whole(l) => l.inAllocator = l.outAllocator
  /\ l.committed \subseteq {l.outAllocator, l.inAllocator}
=============================================================================
