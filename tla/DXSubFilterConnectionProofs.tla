--------------------- MODULE DXSubFilterConnectionProofs ---------------------
(* Proofs about the connections of DXSubFilterConnection, for any media     *)
(* types and any order of what the manager does.                            *)
EXTENDS DXSubFilterConnection, SequenceTheorems, TLAPS

(* A link whose references are counted right, whatever is connected. *)
Counts(l) == l \in Link /\ Balanced(l)

(* Links that differ in their references at most. *)
SamePointers(l, k) ==
  /\ k.connector = l.connector /\ k.receiver = l.receiver /\ k.m_pInputPin = l.m_pInputPin
  /\ k.outAllocator = l.outAllocator /\ k.inAllocator = l.inAllocator
  /\ k.committed = l.committed

-----------------------------------------------------------------------------
LEMMA AddRefLemma ==
  ASSUME NEW l \in Link, NEW o \in Counted
  PROVE  /\ AddRef(l, o) \in Link
         /\ SamePointers(l, AddRef(l, o))
         /\ \A p \in Counted : AddRef(l, o).refs[p] = IF p = o THEN l.refs[p] + 1 ELSE l.refs[p]
<1>1. /\ AddRef(l, o) = [l EXCEPT !.refs = [l.refs EXCEPT ![o] = @ + 1]]
      /\ [l.refs EXCEPT ![o] = @ + 1] \in [Counted -> Int]
  BY DEF AddRef, Link
<1>2. \A r \in [Counted -> Int] :
        [l EXCEPT !.refs = r] \in Link /\ SamePointers(l, [l EXCEPT !.refs = r])
        /\ [l EXCEPT !.refs = r].refs = r
  BY DEF Link, SamePointers
<1>3. \A p \in Counted : [l.refs EXCEPT ![o] = @ + 1][p] = IF p = o THEN l.refs[p] + 1 ELSE l.refs[p]
  BY DEF Link
<1> QED BY <1>1, <1>2, <1>3

LEMMA ReleaseLemma ==
  ASSUME NEW l \in Link, NEW o \in Counted
  PROVE  /\ Release(l, o) \in Link
         /\ SamePointers(l, Release(l, o))
         /\ \A p \in Counted : Release(l, o).refs[p] = IF p = o THEN l.refs[p] - 1 ELSE l.refs[p]
<1>1. /\ Release(l, o) = [l EXCEPT !.refs = [l.refs EXCEPT ![o] = @ - 1]]
      /\ [l.refs EXCEPT ![o] = @ - 1] \in [Counted -> Int]
  BY DEF Release, Link
<1>2. \A r \in [Counted -> Int] :
        [l EXCEPT !.refs = r] \in Link /\ SamePointers(l, [l EXCEPT !.refs = r])
        /\ [l EXCEPT !.refs = r].refs = r
  BY DEF Link, SamePointers
<1>3. \A p \in Counted : [l.refs EXCEPT ![o] = @ - 1][p] = IF p = o THEN l.refs[p] - 1 ELSE l.refs[p]
  BY DEF Link
<1> QED BY <1>1, <1>2, <1>3

-----------------------------------------------------------------------------
LEMMA BreakOutputLemma ==
  ASSUME NEW l, Counts(l)
  PROVE  /\ Counts(BreakOutput(l))
         /\ BreakOutput(l).connector = l.connector
         /\ BreakOutput(l).receiver = l.receiver
         /\ BreakOutput(l).inAllocator = l.inAllocator
         /\ BreakOutput(l).outAllocator = "none"
         /\ ~BreakOutput(l).m_pInputPin
         /\ BreakOutput(l).committed = l.committed \ {l.outAllocator}
<1> DEFINE freed == IF l.outAllocator = "none" THEN l
                    ELSE Release([l EXCEPT !.outAllocator = "none",
                                           !.committed = @ \ {l.outAllocator}], l.outAllocator)
<1>1. /\ freed \in Link /\ Balanced(freed)
      /\ freed.connector = l.connector /\ freed.receiver = l.receiver
      /\ freed.m_pInputPin = l.m_pInputPin /\ freed.inAllocator = l.inAllocator
      /\ freed.outAllocator = "none" /\ freed.committed = l.committed \ {l.outAllocator}
  <2>1. CASE l.outAllocator = "none"
    BY <2>1 DEF Counts, Link, Allocators
  <2>2. CASE l.outAllocator # "none"
    <3> DEFINE k == [l EXCEPT !.outAllocator = "none", !.committed = @ \ {l.outAllocator}]
    <3>1. /\ k \in Link /\ l.outAllocator \in Allocators /\ l.outAllocator \in Counted
          /\ k.connector = l.connector /\ k.receiver = l.receiver
          /\ k.m_pInputPin = l.m_pInputPin /\ k.inAllocator = l.inAllocator
          /\ k.outAllocator = "none" /\ k.committed = l.committed \ {l.outAllocator}
          /\ k.refs = l.refs
      BY <2>2 DEF Counts, Link, Counted
    <3> HIDE DEF k
    <3>2. /\ Release(k, l.outAllocator) \in Link
          /\ SamePointers(k, Release(k, l.outAllocator))
          /\ \A p \in Counted : Release(k, l.outAllocator).refs[p] =
               IF p = l.outAllocator THEN l.refs[p] - 1 ELSE l.refs[p]
      BY <3>1, ReleaseLemma
    <3>3. Balanced(Release(k, l.outAllocator))
      BY <3>1, <3>2 DEF Counts, Balanced, SamePointers, Counted, Allocators, One, Link
    <3> QED BY <2>2, <3>1, <3>2, <3>3 DEF SamePointers, k
  <2> QED BY <2>1, <2>2
<1> HIDE DEF freed
<1>2. CASE l.m_pInputPin
  <2> DEFINE k == [freed EXCEPT !.m_pInputPin = FALSE]
  <2>1. /\ k \in Link /\ "input" \in Counted
        /\ k.connector = l.connector /\ k.receiver = l.receiver
        /\ ~k.m_pInputPin /\ k.inAllocator = l.inAllocator
        /\ k.outAllocator = "none" /\ k.committed = l.committed \ {l.outAllocator}
        /\ k.refs = freed.refs
    BY <1>1 DEF Link, Counted
  <2> HIDE DEF k
  <2>2. /\ Release(k, "input") \in Link
        /\ SamePointers(k, Release(k, "input"))
        /\ \A p \in Counted : Release(k, "input").refs[p] =
             IF p = "input" THEN freed.refs[p] - 1 ELSE freed.refs[p]
    BY <2>1, ReleaseLemma
  <2>3. Balanced(Release(k, "input"))
    BY <1>1, <1>2, <2>1, <2>2 DEF Balanced, SamePointers, Counted, Allocators, One, Link
  <2>4. BreakOutput(l) = Release(k, "input")
    BY <1>2 DEF BreakOutput, k, freed
  <2> QED BY <2>1, <2>2, <2>3, <2>4 DEF SamePointers, Counts
<1>3. CASE ~l.m_pInputPin
  <2>1. BreakOutput(l) = freed
    BY <1>3 DEF BreakOutput, freed
  <2> QED BY <1>1, <1>3, <2>1 DEF Counts
<1> QED BY <1>2, <1>3 DEF Counts, Link

LEMMA BreakInputLemma ==
  ASSUME NEW l, Counts(l)
  PROVE  /\ Counts(BreakInput(l))
         /\ BreakInput(l).connector = l.connector
         /\ BreakInput(l).receiver = l.receiver
         /\ BreakInput(l).m_pInputPin = l.m_pInputPin
         /\ BreakInput(l).outAllocator = l.outAllocator
         /\ BreakInput(l).inAllocator = "none"
         /\ BreakInput(l).committed = l.committed \ {l.inAllocator}
<1>1. CASE l.inAllocator = "none"
  BY <1>1 DEF Counts, Link, Allocators, BreakInput
<1>2. CASE l.inAllocator # "none"
  <2> DEFINE k == [l EXCEPT !.inAllocator = "none", !.committed = @ \ {l.inAllocator}]
  <2>1. /\ k \in Link /\ l.inAllocator \in Allocators /\ l.inAllocator \in Counted
        /\ k.connector = l.connector /\ k.receiver = l.receiver
        /\ k.m_pInputPin = l.m_pInputPin /\ k.outAllocator = l.outAllocator
        /\ k.inAllocator = "none" /\ k.committed = l.committed \ {l.inAllocator}
        /\ k.refs = l.refs
    BY <1>2 DEF Counts, Link, Counted
  <2> HIDE DEF k
  <2>2. /\ Release(k, l.inAllocator) \in Link
        /\ SamePointers(k, Release(k, l.inAllocator))
        /\ \A p \in Counted : Release(k, l.inAllocator).refs[p] =
             IF p = l.inAllocator THEN l.refs[p] - 1 ELSE l.refs[p]
    BY <2>1, ReleaseLemma
  <2>3. Balanced(Release(k, l.inAllocator))
    BY <2>1, <2>2 DEF Counts, Balanced, SamePointers, Counted, Allocators, One, Link
  <2>4. BreakInput(l) = Release(k, l.inAllocator)
    BY <1>2 DEF BreakInput, k
  <2> QED BY <2>1, <2>2, <2>3, <2>4 DEF SamePointers, Counts
<1> QED BY <1>1, <1>2

(* The pointer to the other pin is dropped, and with it a reference. *)
LEMMA DropConnectorLemma ==
  ASSUME NEW l, Counts(l), l.connector
  PROVE  LET d == Release([l EXCEPT !.connector = FALSE], "input")
         IN  /\ Counts(d) /\ ~d.connector
             /\ d.receiver = l.receiver /\ d.m_pInputPin = l.m_pInputPin
             /\ d.outAllocator = l.outAllocator /\ d.inAllocator = l.inAllocator
             /\ d.committed = l.committed
<1> DEFINE k == [l EXCEPT !.connector = FALSE]
<1>1. /\ k \in Link /\ "input" \in Counted /\ ~k.connector /\ k.receiver = l.receiver
      /\ k.m_pInputPin = l.m_pInputPin /\ k.outAllocator = l.outAllocator
      /\ k.inAllocator = l.inAllocator /\ k.committed = l.committed /\ k.refs = l.refs
  BY DEF Counts, Link, Counted
<1> HIDE DEF k
<1>2. /\ Release(k, "input") \in Link
      /\ SamePointers(k, Release(k, "input"))
      /\ \A p \in Counted : Release(k, "input").refs[p] =
           IF p = "input" THEN l.refs[p] - 1 ELSE l.refs[p]
  BY <1>1, ReleaseLemma
<1>3. Balanced(Release(k, "input"))
  BY <1>1, <1>2 DEF Counts, Balanced, SamePointers, Counted, Allocators, One, Link
<1> QED BY <1>1, <1>2, <1>3 DEF SamePointers, Counts, k

LEMMA DropReceiverLemma ==
  ASSUME NEW l, Counts(l), l.receiver
  PROVE  LET d == Release([l EXCEPT !.receiver = FALSE], "output")
         IN  /\ Counts(d) /\ ~d.receiver
             /\ d.connector = l.connector /\ d.m_pInputPin = l.m_pInputPin
             /\ d.outAllocator = l.outAllocator /\ d.inAllocator = l.inAllocator
             /\ d.committed = l.committed
<1> DEFINE k == [l EXCEPT !.receiver = FALSE]
<1>1. /\ k \in Link /\ "output" \in Counted /\ ~k.receiver /\ k.connector = l.connector
      /\ k.m_pInputPin = l.m_pInputPin /\ k.outAllocator = l.outAllocator
      /\ k.inAllocator = l.inAllocator /\ k.committed = l.committed /\ k.refs = l.refs
  BY DEF Counts, Link, Counted
<1> HIDE DEF k
<1>2. /\ Release(k, "output") \in Link
      /\ SamePointers(k, Release(k, "output"))
      /\ \A p \in Counted : Release(k, "output").refs[p] =
           IF p = "output" THEN l.refs[p] - 1 ELSE l.refs[p]
  BY <1>1, ReleaseLemma
<1>3. Balanced(Release(k, "output"))
  BY <1>1, <1>2 DEF Counts, Balanced, SamePointers, Counted, Allocators, One, Link
<1> QED BY <1>1, <1>2, <1>3 DEF SamePointers, Counts, k

LEMMA DisconnectLemma ==
  ASSUME NEW l \in Link, Sound(l)
  PROVE  /\ DisconnectOutput(l) \in Link /\ Sound(DisconnectOutput(l))
         /\ ~DisconnectOutput(l).connector /\ DisconnectOutput(l).receiver = l.receiver
         /\ DisconnectOutput(l).committed \subseteq l.committed
         /\ DisconnectInput(l) \in Link /\ Sound(DisconnectInput(l))
         /\ ~DisconnectInput(l).receiver /\ DisconnectInput(l).connector = l.connector
         /\ DisconnectInput(l).committed \subseteq l.committed
<1> USE BreakOutputLemma, BreakInputLemma, DropConnectorLemma, DropReceiverLemma DEF Sound, Counts, Whole
<1>1. /\ DisconnectOutput(l) \in Link /\ Sound(DisconnectOutput(l))
      /\ ~DisconnectOutput(l).connector /\ DisconnectOutput(l).receiver = l.receiver
      /\ DisconnectOutput(l).committed \subseteq l.committed
  <2>1. CASE l.connector
    BY <2>1 DEF DisconnectOutput
  <2>2. CASE ~l.connector
    BY <2>2 DEF DisconnectOutput
  <2> QED BY <2>1, <2>2
<1>2. /\ DisconnectInput(l) \in Link /\ Sound(DisconnectInput(l))
      /\ ~DisconnectInput(l).receiver /\ DisconnectInput(l).connector = l.connector
      /\ DisconnectInput(l).committed \subseteq l.committed
  <2>1. CASE l.receiver
    BY <2>1 DEF DisconnectInput
  <2>2. CASE ~l.receiver
    BY <2>2 DEF DisconnectInput
  <2> QED BY <2>1, <2>2
<1> QED BY <1>1, <1>2

-----------------------------------------------------------------------------
(* What the pins hold of each other, but not of an allocator. *)
SamePins(l, k) ==
  /\ k.connector = l.connector /\ k.receiver = l.receiver /\ k.m_pInputPin = l.m_pInputPin
  /\ k.committed = l.committed

LEMMA GiveBackLemma ==
  ASSUME NEW l, Counts(l), l.outAllocator # "none"
  PROVE  /\ Counts(GiveBack(l)) /\ SamePins(l, GiveBack(l))
         /\ GiveBack(l).outAllocator = "none" /\ GiveBack(l).inAllocator = l.inAllocator
<1> DEFINE k == [l EXCEPT !.outAllocator = "none"]
<1>1. /\ k \in Link /\ l.outAllocator \in Counted \cap Allocators /\ SamePins(l, k)
      /\ k.outAllocator = "none" /\ k.inAllocator = l.inAllocator /\ k.refs = l.refs
  BY DEF Counts, Link, Counted, SamePins
<1> HIDE DEF k
<1>2. /\ Release(k, l.outAllocator) \in Link
      /\ SamePointers(k, Release(k, l.outAllocator))
      /\ \A p \in Counted : Release(k, l.outAllocator).refs[p] =
           IF p = l.outAllocator THEN l.refs[p] - 1 ELSE l.refs[p]
  BY <1>1, ReleaseLemma
<1>3. Balanced(Release(k, l.outAllocator))
  BY <1>1, <1>2 DEF Counts, Balanced, SamePins, SamePointers, Counted, Allocators, One, Link
<1> QED BY <1>1, <1>2, <1>3 DEF SamePins, SamePointers, Counts, GiveBack, k

LEMMA InitAllocatorLemma ==
  ASSUME NEW l, Counts(l), l.outAllocator = "none"
  PROVE  /\ Counts(InitAllocator(l)) /\ SamePins(l, InitAllocator(l))
         /\ InitAllocator(l).outAllocator = "own" /\ InitAllocator(l).inAllocator = l.inAllocator
<1> DEFINE k == [l EXCEPT !.outAllocator = "own"]
<1>1. /\ k \in Link /\ "own" \in Counted \cap Allocators /\ SamePins(l, k)
      /\ k.outAllocator = "own" /\ k.inAllocator = l.inAllocator /\ k.refs = l.refs
  BY DEF Counts, Link, Counted, Allocators, SamePins
<1> HIDE DEF k
<1>2. /\ AddRef(k, "own") \in Link
      /\ SamePointers(k, AddRef(k, "own"))
      /\ \A p \in Counted : AddRef(k, "own").refs[p] = IF p = "own" THEN l.refs[p] + 1 ELSE l.refs[p]
  BY <1>1, AddRefLemma
<1>3. Balanced(AddRef(k, "own"))
  BY <1>1, <1>2 DEF Counts, Balanced, SamePins, SamePointers, Counted, Allocators, One, Link
<1> QED BY <1>1, <1>2, <1>3 DEF SamePins, SamePointers, Counts, InitAllocator, k

LEMMA NotifyAllocatorLemma ==
  ASSUME NEW l, Counts(l), l.outAllocator # "none"
  PROVE  /\ Counts(NotifyAllocator(l)) /\ SamePins(l, NotifyAllocator(l))
         /\ NotifyAllocator(l).outAllocator = l.outAllocator
         /\ NotifyAllocator(l).inAllocator = l.outAllocator
<1> DEFINE k == [l EXCEPT !.inAllocator = l.outAllocator]
           held == AddRef(k, l.outAllocator)
<1>1. /\ k \in Link /\ l.outAllocator \in Counted \cap Allocators /\ SamePins(l, k)
      /\ k.outAllocator = l.outAllocator /\ k.inAllocator = l.outAllocator /\ k.refs = l.refs
  BY DEF Counts, Link, Counted, SamePins
<1> HIDE DEF k
<1>2. /\ held \in Link /\ SamePointers(k, held)
      /\ \A p \in Counted : held.refs[p] = IF p = l.outAllocator THEN l.refs[p] + 1 ELSE l.refs[p]
  BY <1>1, AddRefLemma
<1> HIDE DEF held
<1>3. CASE l.inAllocator = "none"
  <2>1. Balanced(held)
    BY <1>1, <1>2, <1>3 DEF Counts, Balanced, SamePins, SamePointers, Counted, Allocators, One, Link
  <2>2. NotifyAllocator(l) = held
    BY <1>3 DEF NotifyAllocator, held, k
  <2> QED BY <1>1, <1>2, <2>1, <2>2 DEF SamePins, SamePointers, Counts
<1>4. CASE l.inAllocator # "none"
  <2>1. l.inAllocator \in Counted \cap Allocators
    BY <1>4 DEF Counts, Link, Counted
  <2>2. /\ Release(held, l.inAllocator) \in Link
        /\ SamePointers(held, Release(held, l.inAllocator))
        /\ \A p \in Counted : Release(held, l.inAllocator).refs[p] =
             IF p = l.inAllocator THEN held.refs[p] - 1 ELSE held.refs[p]
    BY <1>2, <2>1, ReleaseLemma
  <2>3. Balanced(Release(held, l.inAllocator))
    BY <1>1, <1>2, <1>4, <2>1, <2>2
       DEF Counts, Balanced, SamePins, SamePointers, Counted, Allocators, One, Link
  <2>4. NotifyAllocator(l) = Release(held, l.inAllocator)
    BY <1>4 DEF NotifyAllocator, held, k
  <2> QED BY <1>1, <1>2, <2>2, <2>3, <2>4 DEF SamePins, SamePointers, Counts
<1> QED BY <1>3, <1>4

LEMMA GetAllocatorLemma ==
  ASSUME NEW l, Counts(l), l.outAllocator = "none"
  PROVE  /\ Counts(GetAllocator(l)) /\ SamePins(l, GetAllocator(l))
         /\ GetAllocator(l).outAllocator # "none"
<1> DEFINE made == IF l.inAllocator # "none" THEN l
                   ELSE AddRef([l EXCEPT !.inAllocator = "theirs"], "theirs")
           k == [made EXCEPT !.outAllocator = made.inAllocator]
<1>1. /\ Counts(made) /\ SamePins(l, made)
      /\ made.outAllocator = "none" /\ made.inAllocator # "none"
  <2>1. CASE l.inAllocator # "none"
    BY <2>1 DEF SamePins
  <2>2. CASE l.inAllocator = "none"
    <3> DEFINE j == [l EXCEPT !.inAllocator = "theirs"]
    <3>1. /\ j \in Link /\ "theirs" \in Counted \cap Allocators /\ SamePins(l, j)
          /\ j.inAllocator = "theirs" /\ j.outAllocator = "none" /\ j.refs = l.refs
      BY DEF Counts, Link, Counted, Allocators, SamePins
    <3> HIDE DEF j
    <3>2. /\ AddRef(j, "theirs") \in Link
          /\ SamePointers(j, AddRef(j, "theirs"))
          /\ \A p \in Counted : AddRef(j, "theirs").refs[p] =
               IF p = "theirs" THEN l.refs[p] + 1 ELSE l.refs[p]
      BY <3>1, AddRefLemma
    <3>3. Balanced(AddRef(j, "theirs"))
      BY <2>2, <3>1, <3>2 DEF Counts, Balanced, SamePins, SamePointers, Counted, Allocators, One, Link
    <3> QED BY <2>2, <3>1, <3>2, <3>3 DEF SamePins, SamePointers, Counts, j
  <2> QED BY <2>1, <2>2
<1> HIDE DEF made
<1>2. /\ k \in Link /\ made.inAllocator \in Counted \cap Allocators /\ SamePins(made, k)
      /\ k.outAllocator = made.inAllocator /\ k.inAllocator = made.inAllocator /\ k.refs = made.refs
  BY <1>1 DEF Counts, Link, Counted, SamePins
<1> HIDE DEF k
<1>3. /\ AddRef(k, made.inAllocator) \in Link
      /\ SamePointers(k, AddRef(k, made.inAllocator))
      /\ \A p \in Counted : AddRef(k, made.inAllocator).refs[p] =
           IF p = made.inAllocator THEN made.refs[p] + 1 ELSE made.refs[p]
  BY <1>2, AddRefLemma
<1>4. Balanced(AddRef(k, made.inAllocator))
  BY <1>1, <1>2, <1>3 DEF Counts, Balanced, SamePins, SamePointers, Counted, Allocators, One, Link
<1>5. GetAllocator(l) = AddRef(k, made.inAllocator)
  BY DEF GetAllocator, made, k
<1> QED BY <1>1, <1>2, <1>3, <1>4, <1>5 DEF SamePins, SamePointers, Counts

(* DecideAllocator ends with one allocator at both pins, or none at the     *)
(* output pin.                                                             *)
LEMMA DecideAllocatorLemma ==
  ASSUME NEW l, Counts(l), l.outAllocator = "none", NEW fails
  PROVE  LET d == DecideAllocator(l, fails)
         IN  /\ Counts(d) /\ SamePins(l, d)
             /\ d.outAllocator = "none" \/ d.inAllocator = d.outAllocator
<1> DEFINE first == IF "get" \in fails THEN l
                    ELSE TryAllocator(GetAllocator(l), "theirs" \notin fails)
<1>1. ASSUME NEW k, Counts(k), k.outAllocator # "none", NEW suits \in BOOLEAN
      PROVE  /\ Counts(TryAllocator(k, suits)) /\ SamePins(k, TryAllocator(k, suits))
             /\ \/ TryAllocator(k, suits).outAllocator = "none"
                \/ TryAllocator(k, suits).inAllocator = TryAllocator(k, suits).outAllocator
  <2>1. CASE suits
    <3>1. TryAllocator(k, suits) = NotifyAllocator(k)
      BY <2>1 DEF TryAllocator
    <3> QED BY <1>1, <3>1, NotifyAllocatorLemma
  <2>2. CASE ~suits
    <3>1. TryAllocator(k, suits) = GiveBack(k)
      BY <2>2 DEF TryAllocator
    <3> QED BY <1>1, <3>1, GiveBackLemma
  <2> QED BY <1>1, <2>1, <2>2
<1>2. /\ Counts(first) /\ SamePins(l, first)
      /\ first.outAllocator = "none" \/ first.inAllocator = first.outAllocator
  <2>1. CASE "get" \in fails
    BY <2>1 DEF SamePins
  <2>2. CASE "get" \notin fails
    <3>1. first = TryAllocator(GetAllocator(l), "theirs" \notin fails)
      BY <2>2
    <3>2. /\ Counts(GetAllocator(l)) /\ SamePins(l, GetAllocator(l))
          /\ GetAllocator(l).outAllocator # "none"
      BY GetAllocatorLemma
    <3> QED BY <1>1, <3>1, <3>2 DEF SamePins
  <2> QED BY <2>1, <2>2
<1> HIDE DEF first
<1>3. CASE first.outAllocator # "none" \/ "init" \in fails
  <2>1. DecideAllocator(l, fails) = first
    BY <1>3 DEF DecideAllocator, first
  <2> QED BY <1>2, <2>1
<1>4. CASE ~(first.outAllocator # "none" \/ "init" \in fails)
  <2>1. DecideAllocator(l, fails) = TryAllocator(InitAllocator(first), "own" \notin fails)
    BY <1>4 DEF DecideAllocator, first
  <2>2. /\ Counts(InitAllocator(first)) /\ SamePins(first, InitAllocator(first))
        /\ InitAllocator(first).outAllocator # "none"
    BY <1>2, <1>4, InitAllocatorLemma
  <2> DEFINE k == InitAllocator(first)
             t == TryAllocator(k, "own" \notin fails)
  <2> HIDE DEF k
  <2>3. /\ Counts(t) /\ SamePins(k, t)
        /\ t.outAllocator = "none" \/ t.inAllocator = t.outAllocator
    BY <1>1, <2>2 DEF k
  <2>4. /\ SamePins(l, t) /\ DecideAllocator(l, fails) = t
    BY <1>2, <2>1, <2>2, <2>3 DEF SamePins, k
  <2> QED BY <2>3, <2>4
<1> QED BY <1>3, <1>4

-----------------------------------------------------------------------------
(* What the output pin holds while it asks the input pin to connect.       *)
LEMMA LookingLemma ==
  ASSUME NEW l, Counts(l), ~l.connector, ~l.m_pInputPin
  PROVE  LET k == AddRef([CheckConnect(l) EXCEPT !.connector = TRUE], "input")
         IN  /\ Counts(k) /\ k.connector /\ k.m_pInputPin /\ k.receiver = l.receiver
             /\ k.outAllocator = l.outAllocator /\ k.inAllocator = l.inAllocator
             /\ k.committed = l.committed
<1> DEFINE i == [l EXCEPT !.m_pInputPin = TRUE]
           j == [CheckConnect(l) EXCEPT !.connector = TRUE]
           Rest(k) == /\ k.receiver = l.receiver /\ k.m_pInputPin
                      /\ k.outAllocator = l.outAllocator /\ k.inAllocator = l.inAllocator
                      /\ k.committed = l.committed
<1>1. i \in Link /\ i.connector = l.connector /\ Rest(i) /\ i.refs = l.refs /\ "input" \in Counted
  BY DEF Counts, Link, Counted
<1>2. /\ CheckConnect(l) \in Link /\ Rest(CheckConnect(l))
      /\ \A p \in Counted : CheckConnect(l).refs[p] = IF p = "input" THEN l.refs[p] + 1 ELSE l.refs[p]
  <2> HIDE DEF i
  <2>1. CheckConnect(l) = AddRef(i, "input")
    BY DEF CheckConnect, i
  <2> QED BY <1>1, <2>1, AddRefLemma DEF SamePointers
<1>3. j \in Link /\ j.connector /\ Rest(j) /\ j.refs = CheckConnect(l).refs
  BY <1>2 DEF Link
<1> HIDE DEF j
<1>4. /\ AddRef(j, "input") \in Link /\ SamePointers(j, AddRef(j, "input"))
      /\ \A p \in Counted : AddRef(j, "input").refs[p] =
           IF p = "input" THEN j.refs[p] + 1 ELSE j.refs[p]
  BY <1>1, <1>3, AddRefLemma
<1>5. Rest(AddRef(j, "input")) /\ AddRef(j, "input").connector
  BY <1>3, <1>4 DEF SamePointers
<1> HIDE DEF i
<1>6. Balanced(AddRef(j, "input"))
  BY <1>1, <1>2, <1>3, <1>4, <1>5 DEF Counts, Balanced, Counted, Allocators, One, Link
<1> QED BY <1>4, <1>5, <1>6 DEF Counts, j

(* The input pin accepts, or keeps nothing of the connection. *)
LEMMA ReceiveLemma ==
  ASSUME NEW l, Counts(l), NEW fails
  PROVE  LET r == ReceiveConnection(l, fails)
         IN  /\ Counts(r) /\ r.connector = l.connector /\ r.m_pInputPin = l.m_pInputPin
             /\ r.outAllocator = l.outAllocator /\ r.committed \subseteq l.committed
             /\ (r.receiver <=> l.receiver \/ Accepts(l, fails))
             /\ l.receiver => r = l
             /\ ~r.receiver => r.inAllocator = "none"
             /\ r.receiver => r.inAllocator = l.inAllocator
<1> DEFINE k == [l EXCEPT !.receiver = TRUE]
           connected == AddRef(k, "output")
           dropped == Release([connected EXCEPT !.receiver = FALSE], "output")
<1>1. CASE l.receiver
  BY <1>1 DEF ReceiveConnection, Counts, Link, Accepts
<1>2. CASE ~l.receiver /\ "type" \in fails
  <2>1. ReceiveConnection(l, fails) = BreakInput(l) /\ ~Accepts(l, fails)
    BY <1>2 DEF ReceiveConnection, Accepts
  <2> QED BY <1>2, <2>1, BreakInputLemma
<1>3. ASSUME ~l.receiver
      PROVE  /\ Counts(connected) /\ connected.receiver
             /\ connected.connector = l.connector /\ connected.m_pInputPin = l.m_pInputPin
             /\ connected.outAllocator = l.outAllocator /\ connected.inAllocator = l.inAllocator
             /\ connected.committed = l.committed
  <2>1. /\ k \in Link /\ "output" \in Counted /\ k.connector = l.connector /\ k.receiver
        /\ k.m_pInputPin = l.m_pInputPin /\ k.outAllocator = l.outAllocator
        /\ k.inAllocator = l.inAllocator /\ k.committed = l.committed /\ k.refs = l.refs
    BY DEF Counts, Link, Counted
  <2> HIDE DEF k
  <2>2. /\ AddRef(k, "output") \in Link /\ SamePointers(k, AddRef(k, "output"))
        /\ \A p \in Counted : AddRef(k, "output").refs[p] =
             IF p = "output" THEN l.refs[p] + 1 ELSE l.refs[p]
    BY <2>1, AddRefLemma
  <2>3. /\ connected \in Link /\ connected.receiver
        /\ connected.connector = l.connector /\ connected.m_pInputPin = l.m_pInputPin
        /\ connected.outAllocator = l.outAllocator /\ connected.inAllocator = l.inAllocator
        /\ connected.committed = l.committed
        /\ \A p \in Counted : connected.refs[p] = IF p = "output" THEN l.refs[p] + 1 ELSE l.refs[p]
    BY <2>1, <2>2 DEF SamePointers
  <2> HIDE DEF connected
  <2>4. Balanced(connected)
    BY <1>3, <2>3 DEF Counts, Balanced, Counted, Allocators, One, Link
  <2> QED BY <2>3, <2>4 DEF Counts
<1>4. CASE ~l.receiver /\ "type" \notin fails /\ "complete" \notin fails
  <2>1. ReceiveConnection(l, fails) = connected /\ Accepts(l, fails)
    BY <1>4 DEF ReceiveConnection, Accepts
  <2>2. /\ Counts(connected) /\ connected.receiver
        /\ connected.connector = l.connector /\ connected.m_pInputPin = l.m_pInputPin
        /\ connected.outAllocator = l.outAllocator /\ connected.inAllocator = l.inAllocator
        /\ connected.committed = l.committed
    BY <1>3, <1>4
  <2> HIDE DEF connected
  <2> QED BY <1>4, <2>1, <2>2
<1>5. CASE ~l.receiver /\ "type" \notin fails /\ "complete" \in fails
  <2>1. ReceiveConnection(l, fails) = BreakInput(dropped) /\ ~Accepts(l, fails)
    BY <1>5 DEF ReceiveConnection, Accepts
  <2>3. /\ Counts(connected) /\ connected.receiver
        /\ connected.connector = l.connector /\ connected.m_pInputPin = l.m_pInputPin
        /\ connected.outAllocator = l.outAllocator /\ connected.committed = l.committed
    BY <1>3, <1>5
  <2> HIDE DEF connected
  <2>2. /\ Counts(dropped) /\ ~dropped.receiver
        /\ dropped.connector = l.connector /\ dropped.m_pInputPin = l.m_pInputPin
        /\ dropped.outAllocator = l.outAllocator /\ dropped.committed = l.committed
    BY <2>3, DropReceiverLemma
  <2> HIDE DEF dropped
  <2>4. /\ Counts(BreakInput(dropped)) /\ ~BreakInput(dropped).receiver
        /\ BreakInput(dropped).connector = l.connector
        /\ BreakInput(dropped).m_pInputPin = l.m_pInputPin
        /\ BreakInput(dropped).outAllocator = l.outAllocator
        /\ BreakInput(dropped).inAllocator = "none"
        /\ BreakInput(dropped).committed \subseteq l.committed
    BY <2>2, BreakInputLemma
  <2> QED BY <1>5, <2>1, <2>4
<1> QED BY <1>1, <1>2, <1>4, <1>5

(* The output pin gives up: it holds nothing any more. *)
LEMMA GiveUpLemma ==
  ASSUME NEW l, Counts(l)
  PROVE  /\ Counts(GiveUp(l)) /\ ~GiveUp(l).connector /\ ~GiveUp(l).m_pInputPin
         /\ GiveUp(l).outAllocator = "none" /\ GiveUp(l).receiver = l.receiver
         /\ GiveUp(l).inAllocator = l.inAllocator /\ GiveUp(l).committed \subseteq l.committed
<1> DEFINE broken == BreakOutput(l)
<1>1. /\ Counts(broken) /\ broken.connector = l.connector /\ broken.receiver = l.receiver
      /\ broken.inAllocator = l.inAllocator /\ broken.outAllocator = "none"
      /\ ~broken.m_pInputPin /\ broken.committed \subseteq l.committed
  BY BreakOutputLemma
<1>2. GiveUp(l) = IF l.connector THEN Release([broken EXCEPT !.connector = FALSE], "input") ELSE broken
  BY DEF GiveUp
<1> HIDE DEF broken
<1> QED BY <1>1, <1>2, DropConnectorLemma

(* Whatever fails, an attempt leaves a sound link, connected at both ends  *)
(* or, of what it found, at no end more.                                   *)
LEMMA AttemptLemma ==
  ASSUME NEW l \in Link, Sound(l), ~l.connector, l.committed = {}, NEW fails
  PROVE  LET a == AttemptConnection(l, fails)
         IN  /\ a \in Link /\ Sound(a) /\ a.committed = {}
             /\ a.connector => /\ a.receiver /\ Accepts(l, fails)
                               /\ "interface" \notin fails /\ "filter" \notin fails
             /\ ~a.connector => (a.receiver <=> l.receiver)
<1> DEFINE looking == AddRef([CheckConnect(l) EXCEPT !.connector = TRUE], "input")
           received == ReceiveConnection(looking, fails)
           completed == IF "filter" \in fails THEN received ELSE DecideAllocator(received, fails)
           Result(a) == /\ a \in Link /\ Sound(a) /\ a.committed = {}
                        /\ a.connector => /\ a.receiver /\ Accepts(l, fails)
                                          /\ "interface" \notin fails /\ "filter" \notin fails
                        /\ ~a.connector => (a.receiver <=> l.receiver)
<1>1. Counts(l) /\ ~l.m_pInputPin /\ l.outAllocator = "none"
  BY DEF Counts, Sound
<1>2. CASE "interface" \in fails
  <2>1. AttemptConnection(l, fails) = BreakOutput(l)
    BY <1>2 DEF AttemptConnection
  <2>2. Result(BreakOutput(l))
    BY <1>1, BreakOutputLemma DEF Sound, Counts, Whole
  <2> QED BY <2>1, <2>2
<1>3. CASE "interface" \notin fails
  <2>1. /\ Counts(looking) /\ looking.connector /\ looking.m_pInputPin
        /\ (looking.receiver <=> l.receiver)
        /\ looking.outAllocator = "none" /\ looking.inAllocator = l.inAllocator
        /\ looking.committed = {}
    BY <1>1, LookingLemma
  <2>2. AttemptConnection(l, fails) =
          IF ~Accepts(l, fails) THEN GiveUp(received)
          ELSE IF completed.outAllocator = "none" THEN GiveUp(DisconnectInput(completed))
          ELSE completed
    BY <1>3 DEF AttemptConnection
  <2>3. Accepts(looking, fails) <=> Accepts(l, fails)
    BY <2>1 DEF Accepts
  <2> HIDE DEF looking
  <2>4. /\ Counts(received) /\ received.connector /\ received.m_pInputPin
        /\ received.outAllocator = "none" /\ received.committed = {}
        /\ (received.receiver <=> l.receiver \/ Accepts(l, fails))
        /\ ~received.receiver => received.inAllocator = "none"
    BY <2>1, <2>3, ReceiveLemma
  <2> HIDE DEF received
  <2>5. CASE ~Accepts(l, fails)
    <3> DEFINE a == GiveUp(received)
    <3>1. /\ Counts(a) /\ ~a.connector /\ ~a.m_pInputPin /\ a.outAllocator = "none"
          /\ (a.receiver <=> received.receiver) /\ a.inAllocator = received.inAllocator
          /\ a.committed = {}
      BY <2>4, GiveUpLemma
    <3> HIDE DEF a
    <3>2. Result(a)
      BY <2>4, <2>5, <3>1 DEF Sound, Counts, Whole
    <3> QED BY <2>2, <2>5, <3>2 DEF a
  <2>6. CASE Accepts(l, fails)
    <3>1. /\ Counts(completed) /\ completed.connector /\ completed.m_pInputPin
          /\ completed.committed = {} /\ completed.receiver
          /\ completed.outAllocator = "none" \/ completed.inAllocator = completed.outAllocator
          /\ "filter" \in fails => completed.outAllocator = "none"
      <4>1. CASE "filter" \in fails
        BY <2>4, <2>6, <4>1
      <4>2. CASE "filter" \notin fails
        <5> DEFINE d == DecideAllocator(received, fails)
        <5>1. /\ Counts(d) /\ SamePins(received, d)
              /\ d.outAllocator = "none" \/ d.inAllocator = d.outAllocator
          BY <2>4, DecideAllocatorLemma
        <5>2. completed = d
          BY <4>2
        <5> HIDE DEF d, completed
        <5> QED BY <2>4, <2>6, <4>2, <5>1, <5>2 DEF SamePins
      <4> QED BY <4>1, <4>2
    <3> HIDE DEF completed
    <3>2. CASE completed.outAllocator # "none"
      <4>1. Result(completed)
        BY <1>3, <2>6, <3>1, <3>2 DEF Sound, Counts, Whole
      <4> QED BY <2>2, <2>6, <3>2, <4>1
    <3>3. CASE completed.outAllocator = "none"
      <4> DEFINE b == BreakInput(completed)
                 d == DisconnectInput(completed)
                 a == GiveUp(d)
      <4>1. Counts(b) /\ b.receiver /\ b.connector /\ b.committed = {} /\ b.inAllocator = "none"
        BY <3>1, BreakInputLemma
      <4>2. d = Release([b EXCEPT !.receiver = FALSE], "output")
        BY <3>1 DEF DisconnectInput
      <4> HIDE DEF b
      <4>3. Counts(d) /\ ~d.receiver /\ d.committed = {} /\ d.inAllocator = "none"
        BY <4>1, <4>2, DropReceiverLemma
      <4> HIDE DEF d
      <4>4. /\ Counts(a) /\ ~a.connector /\ ~a.m_pInputPin /\ a.outAllocator = "none"
            /\ ~a.receiver /\ a.inAllocator = "none" /\ a.committed = {}
        BY <4>3, GiveUpLemma
      <4> HIDE DEF a
      <4>5. Result(a)
        BY <2>6, <4>4 DEF Sound, Counts, Whole, Accepts
      <4> QED BY <2>2, <2>6, <3>3, <4>5 DEF a, d
    <3> QED BY <3>2, <3>3
  <2> QED BY <2>5, <2>6
<1> QED BY <1>2, <1>3

-----------------------------------------------------------------------------
(* A step of the manager, in any order, or a change of the formats. *)
Step == Next \/ \E f, g \in Formats : FormatChange(f, g)

(* While frames flow only what an output pin holds is committed, and       *)
(* downstream of the filter only if it is active.  The output pin is not   *)
(* connected while types are tried.                                        *)
ConnectionInv ==
  /\ upstream \in Link /\ Sound(upstream)
  /\ downstream \in Link /\ Sound(downstream)
  /\ m_State = "Stopped" => upstream.committed = {} /\ downstream.committed = {}
  /\ m_State = "Running" => /\ upstream.committed \subseteq {upstream.outAllocator}
                            /\ downstream.committed \subseteq {downstream.outAllocator}
                            /\ downstream.committed = {} \/ upstream.receiver
  /\ agreeing # "no" => m_State = "Stopped" /\ ~downstream.connector

LEMMA ConnectionInit == Init => ConnectionInv
<1> SUFFICES ASSUME Init PROVE ConnectionInv
  OBVIOUS
<1>1. NoLink \in Link /\ NoLink.committed = {} /\ ~NoLink.connector
  BY DEF NoLink, Link, Counted, Allocators
<1>2. Sound(NoLink)
  BY DEF NoLink, Sound, Balanced, One, Whole, Counted, Allocators
<1> QED BY <1>1, <1>2 DEF Init, ConnectionInv

(* An attempt at the input, whatever comes of it. *)
LEMMA AttemptInputLemma ==
  ASSUME NEW l \in Link, Sound(l), ~l.connector, l.committed = {},
         NEW f, NEW fails, AttemptInput(l, f, fails)
  PROVE  /\ upstream' \in Link /\ Sound(upstream') /\ upstream'.committed = {}
         /\ Half(upstream') => l.receiver
         /\ upstream'.receiver => \/ l.receiver /\ ~upstream'.connector
                                  \/ inputType' = f /\ m_InputVideoType' = f
<1>1. upstream' = AttemptConnection(l, fails)
  BY DEF AttemptInput
<1>2. /\ upstream' \in Link /\ Sound(upstream') /\ upstream'.committed = {}
      /\ upstream'.connector => /\ upstream'.receiver /\ Accepts(l, fails)
                                /\ "interface" \notin fails /\ "filter" \notin fails
      /\ ~upstream'.connector => (upstream'.receiver <=> l.receiver)
  BY <1>1, AttemptLemma
<1>3. upstream'.connector => inputType' = f /\ m_InputVideoType' = f
  BY <1>2 DEF AttemptInput, Accepts
<1>4. Half(upstream') => l.receiver
  BY <1>2 DEF Half, Link
<1> QED BY <1>2, <1>3, <1>4

(* What every attempt at the output does to the link. *)
LEMMA TryTypeLemma ==
  ASSUME ConnectionInv, NEW f, TryType(f)
  PROVE  \E fails \in Failures :
           /\ Attempted(f, fails)
           /\ downstream' \in Link /\ Sound(downstream') /\ downstream'.committed = {}
           /\ Half(downstream') => downstream.receiver /\ ~downstream.connector
           /\ downstream'.connector => /\ upstream.receiver /\ DecideBufferSize(f)
                                       /\ \/ ConnectOutputSame(f, fails)
                                          \/ ConnectOutputOther(f, fails)
           /\ \/ ConnectOutputSame(f, fails) \/ ConnectOutputOther(f, fails)
              \/ UNCHANGED <<m_State, inputType, m_InputVideoType, setup, reconnects>>
<1>1. PICK fails \in Failures :
        /\ ~upstream.receiver => "interface" \in fails
        /\ \/ CannotConnect(f, fails) \/ DownstreamRefuses(f, fails)
           \/ ConnectOutputSame(f, fails) \/ ConnectOutputOther(f, fails)
           \/ ReconnectRefused(f, fails)
        /\ downstream'.connector => DecideBufferSize(f)
  BY DEF TryType
<1>2. Attempted(f, fails)
  BY <1>1 DEF CannotConnect, DownstreamRefuses, ConnectOutputSame, ConnectOutputOther, ReconnectRefused
<1>3. /\ downstream \in Link /\ Sound(downstream) /\ ~downstream.connector
      /\ downstream.committed = {}
  BY DEF ConnectionInv, TryType, NextType
<1>4. /\ downstream' \in Link /\ Sound(downstream') /\ downstream'.committed = {}
      /\ downstream'.connector => /\ downstream'.receiver /\ Accepts(downstream, fails)
                                  /\ "interface" \notin fails /\ "filter" \notin fails
      /\ ~downstream'.connector => (downstream'.receiver <=> downstream.receiver)
  BY <1>2, <1>3, AttemptLemma DEF Attempted
<1>5. Half(downstream') => downstream.receiver /\ ~downstream.connector
  BY <1>3, <1>4 DEF Half, Link
<1>6. \/ ConnectOutputSame(f, fails) \/ ConnectOutputOther(f, fails)
      \/ UNCHANGED <<m_State, inputType, m_InputVideoType, setup, reconnects>>
  BY <1>1 DEF CannotConnect, DownstreamRefuses, ReconnectRefused, types
<1>7. downstream'.connector => ConnectOutputSame(f, fails) \/ ConnectOutputOther(f, fails)
  BY <1>1, <1>4 DEF CannotConnect, DownstreamRefuses, ReconnectRefused
<1> QED BY <1>1, <1>2, <1>4, <1>5, <1>6, <1>7

LEMMA LinkStepLemma ==
  ASSUME ConnectionInv, Step \/ UNCHANGED vars
  PROVE  /\ ConnectionInv'
         /\ Half(upstream') => Half(upstream) \/ Whole(upstream)
         /\ Half(downstream') => Half(downstream) \/ Whole(downstream)
<1> DEFINE Kept == /\ Half(upstream') => Half(upstream) \/ Whole(upstream)
                   /\ Half(downstream') => Half(downstream) \/ Whole(downstream)
<1> USE DEF ConnectionInv
<1>0. Step \/ UNCHANGED vars => ConnectionInv' /\ Kept
  <2>1. CASE UNCHANGED <<upstream, downstream, m_State, agreeing>>
    BY <2>1
  <2>2. ASSUME NEW f \in Formats, ConnectInput(f) PROVE ConnectionInv' /\ Kept
    <3>1. /\ upstream \in Link /\ Sound(upstream) /\ ~upstream.connector /\ upstream.committed = {}
          /\ \E fails \in Failures : AttemptInput(upstream, f, fails)
      BY <2>2 DEF ConnectInput, Idle
    <3>2. /\ upstream' \in Link /\ Sound(upstream') /\ upstream'.committed = {}
          /\ Half(upstream') => upstream.receiver
      BY <3>1, AttemptInputLemma
    <3>3. UNCHANGED <<downstream, m_State, agreeing>>
      BY <2>2 DEF ConnectInput, enumeration
    <3> QED BY <2>2, <3>1, <3>2, <3>3 DEF Half, Whole, Link, ConnectInput, Idle
  <2>3. CASE DisconnectUpstream
    <3>1. /\ upstream' \in Link /\ Sound(upstream') /\ upstream'.committed \subseteq upstream.committed
          /\ upstream.connector \/ upstream.receiver
      BY <2>3, DisconnectLemma DEF DisconnectUpstream
    <3>2. UNCHANGED <<downstream, m_State, agreeing>> /\ m_State = "Stopped" /\ agreeing = "no"
      BY <2>3 DEF DisconnectUpstream, enumeration, Idle
    <3> QED BY <3>1, <3>2 DEF Half, Whole, Link
  <2>4. CASE DisconnectDownstream
    <3>1. /\ downstream' \in Link /\ Sound(downstream')
          /\ downstream'.committed \subseteq downstream.committed
          /\ downstream.connector \/ downstream.receiver
      BY <2>4, DisconnectLemma DEF DisconnectDownstream
    <3>2. UNCHANGED <<upstream, m_State, agreeing>> /\ m_State = "Stopped" /\ agreeing = "no"
      BY <2>4 DEF DisconnectDownstream, enumeration, Idle
    <3> QED BY <3>1, <3>2 DEF Half, Whole, Link
  <2>5. CASE Reconnect
    <3>1. UNCHANGED <<downstream, m_State, agreeing>> /\ m_State = "Stopped" /\ agreeing = "no"
      BY <2>5 DEF Reconnect, enumeration, Idle
    <3>2. CASE Whole(upstream)
      <4> DEFINE apart == DisconnectInput(DisconnectOutput(upstream))
      <4>1. \E fails \in Failures : AttemptInput(apart, Head(reconnects), fails)
        BY <2>5, <3>2 DEF Reconnect
      <4>2. /\ apart \in Link /\ Sound(apart) /\ ~apart.connector /\ ~apart.receiver
            /\ apart.committed = {}
        BY <3>1, DisconnectLemma
      <4> HIDE DEF apart
      <4>3. /\ upstream' \in Link /\ Sound(upstream') /\ upstream'.committed = {} /\ ~Half(upstream')
        BY <4>1, <4>2, AttemptInputLemma
      <4> QED BY <3>1, <4>3
    <3>3. CASE ~Whole(upstream)
      BY <2>5, <3>1, <3>3 DEF Reconnect
    <3> QED BY <3>2, <3>3
  <2>6. ASSUME NEW f \in Formats, TryType(f) PROVE ConnectionInv' /\ Kept
    <3>1. /\ downstream' \in Link /\ Sound(downstream') /\ downstream'.committed = {}
          /\ Half(downstream') => downstream.receiver /\ ~downstream.connector
          /\ UNCHANGED upstream
          /\ agreeing' # "no" => ~downstream'.connector /\ m_State' # "Crashed"
          /\ m_State' \in {m_State, "Crashed"}
      <4>1. PICK fails \in Failures :
              /\ Attempted(f, fails)
              /\ downstream' \in Link /\ Sound(downstream') /\ downstream'.committed = {}
              /\ Half(downstream') => downstream.receiver /\ ~downstream.connector
              /\ \/ ConnectOutputSame(f, fails) \/ ConnectOutputOther(f, fails)
                 \/ UNCHANGED <<m_State, inputType, m_InputVideoType, setup, reconnects>>
        BY <2>6, TryTypeLemma
      <4>2. m_State' \in {m_State, "Crashed"}
        BY <4>1 DEF ConnectOutputSame, ConnectOutputOther, SetUp
      <4> QED BY <4>1, <4>2 DEF Attempted
    <3>2. m_State = "Stopped" /\ upstream.committed = {}
      BY <2>6 DEF TryType, NextType
    <3> QED BY <3>1, <3>2 DEF Half, Whole, Link
  <2>7. CASE ConnectOutput
    BY <2>7 DEF ConnectOutput, Idle, links
  <2>8. CASE TheirTypesTried
    BY <2>8 DEF TheirTypesTried, links
  <2>9. CASE NoTypeAgreed
    BY <2>9 DEF NoTypeAgreed, links
  <2>10. CASE Run
    <3>1. /\ upstream.committed = {} /\ downstream.committed = {} /\ UNCHANGED agreeing /\ agreeing = "no"
          /\ m_State' = "Running" /\ upstream' = ActiveOutput(upstream)
          /\ downstream' = IF upstream.receiver THEN ActiveOutput(downstream) ELSE downstream
      BY <2>10 DEF Run, Idle, enumeration
    <3>2. \A l \in Link : Sound(l) /\ l.committed = {} =>
            /\ ActiveOutput(l) \in Link /\ Sound(ActiveOutput(l))
            /\ ActiveOutput(l).committed \subseteq {ActiveOutput(l).outAllocator}
            /\ ActiveOutput(l).connector = l.connector /\ ActiveOutput(l).receiver = l.receiver
      BY DEF ActiveOutput, Link, Sound, Balanced, Whole
    <3> QED BY <3>1, <3>2 DEF Half, Whole
  <2>11. CASE Stop
    <3> DEFINE Same(l, k) == /\ k \in Link /\ Sound(k) /\ k.committed \subseteq l.committed
                             /\ k.connector = l.connector /\ k.receiver = l.receiver
                             /\ k.outAllocator = l.outAllocator
    <3>1. \A l \in Link : Sound(l) => Same(l, InactiveInput(l))
      BY DEF InactiveInput, Link, Sound, Balanced, Whole
    <3>2. \A l \in Link : Sound(l) =>
            /\ Same(l, InactiveOutput(l))
            /\ l.connector => InactiveOutput(l).committed = l.committed \ {l.outAllocator}
      BY DEF InactiveOutput, Link, Sound, Balanced, Whole
    <3> DEFINE active == upstream.receiver /\ downstream.connector
               up == IF active THEN InactiveInput(upstream) ELSE upstream
               down == IF active THEN InactiveOutput(downstream) ELSE downstream
    <3>3. /\ upstream' = InactiveOutput(up) /\ downstream' = InactiveInput(down)
          /\ m_State = "Running" /\ m_State' = "Stopped" /\ UNCHANGED agreeing
      BY <2>11 DEF Stop, enumeration
    <3>4. Same(upstream, up) /\ Same(downstream, down)
      BY <3>1, <3>2
    <3>5. down.committed = {}
      BY <3>2, <3>3 DEF Sound, Link, Allocators
    <3> HIDE DEF up, down
    <3>6. Same(upstream, upstream') /\ Same(downstream, downstream')
      BY <3>1, <3>2, <3>3, <3>4
    <3>7. upstream'.committed = {}
      BY <3>2, <3>3, <3>4, <3>6 DEF Sound, Link, Allocators
    <3>8. downstream'.committed = {}
      BY <3>1, <3>3, <3>4, <3>5
    <3> QED BY <3>3, <3>6, <3>7, <3>8 DEF Half, Whole
  <2> QED
    BY <2>1, <2>2, <2>3, <2>4, <2>5, <2>6, <2>7, <2>8, <2>9, <2>10, <2>11
       DEF Step, Next, ConnectSubtitle, DisconnectSubtitle, FormatChange, vars, links, enumeration
<1> QED BY <1>0

LEMMA BuilderTakesSteps == [Next]_vars \/ [BuilderNext]_vars => Step \/ UNCHANGED vars
<1>1. Next => Step
  BY DEF Step
<1>2. BuilderNext => Step
  BY DEF BuilderNext, BuilderStep, Step, Next
<1> QED BY <1>1, <1>2

LEMMA ConnectionInvHolds == (Spec => []ConnectionInv) /\ (BuilderSpec => []ConnectionInv)
<1>1. ConnectionInv /\ [Next]_vars => ConnectionInv'
  BY LinkStepLemma, BuilderTakesSteps
<1>2. ConnectionInv /\ [BuilderNext]_vars => ConnectionInv'
  BY LinkStepLemma, BuilderTakesSteps
<1>3. Spec => []ConnectionInv
  BY <1>1, ConnectionInit, PTL DEF Spec
<1>4. BuilderSpec => []ConnectionInv
  BY <1>2, ConnectionInit, PTL DEF BuilderSpec
<1> QED BY <1>3, <1>4

(* Wherever attempts fail and in whatever order a manager connects and     *)
(* disconnects, no pin keeps anything of a connection that is gone (the    *)
(* failure paths of AttemptConnection and DecideAllocator).                *)
THEOREM ConnectionIsSound ==
  (Spec => []ConnectionSound) /\ (BuilderSpec => []ConnectionSound)
<1>1. ConnectionInv => ConnectionSound
  BY DEF ConnectionInv, ConnectionSound
<1>2. Spec => []ConnectionSound
  BY <1>1, ConnectionInvHolds, PTL
<1>3. BuilderSpec => []ConnectionSound
  BY <1>1, ConnectionInvHolds, PTL
<1> QED BY <1>2, <1>3

(* An attempt never leaves one of the two pins connected alone, in         *)
(* whatever order a manager connects and disconnects.                      *)
THEOREM AttemptsAreWhole ==
  (Spec => BothOrNeither) /\ (BuilderSpec => BothOrNeither)
<1> DEFINE Kept == /\ Half(upstream') => Half(upstream) \/ Whole(upstream)
                   /\ Half(downstream') => Half(downstream) \/ Whole(downstream)
<1>1. ConnectionInv /\ [Next]_vars => [Kept]_vars
  BY LinkStepLemma, BuilderTakesSteps
<1>2. ConnectionInv /\ [BuilderNext]_vars => [Kept]_vars
  BY LinkStepLemma, BuilderTakesSteps
<1>3. Spec => [][Kept]_vars
  BY <1>1, ConnectionInvHolds, PTL DEF Spec
<1>4. BuilderSpec => [][Kept]_vars
  BY <1>2, ConnectionInvHolds, PTL DEF BuilderSpec
<1> QED BY <1>3, <1>4 DEF BothOrNeither

-----------------------------------------------------------------------------
(* The type the input has once all reconnections asked for are made. *)
Target == IF reconnects = << >> THEN inputType ELSE Last(reconnects)

SetUpFor(f) ==
  /\ m_uAlignedBufferLength = SampleSize[f]
  /\ m_Strides = ComputeStrides(f, outputType)
  /\ m_pSubPicBlender = AssignSubPicBlender(f)
  /\ Subtype[outputType] = Subtype[f]

(* While the output is connected everything is set up for the type the     *)
(* input is to have; what is set up by attempts that fail is no matter.    *)
SetupInv ==
  /\ reconnects \in Seq(Formats)
  /\ m_InputVideoType = inputType
  /\ m_State = "Running" => reconnects = << >>
  /\ agreeing # "no" => Target = inputType
  /\ downstream.connector /\ m_State # "Crashed" =>
       /\ m_SubtitleRenderer = CreateSubtitleRenderer(m_CurrentSubtitleType)
       /\ upstream.receiver => SetUpFor(Target)

LEMMA LastOfTail ==
  ASSUME NEW S, NEW s \in Seq(S), s # << >>
  PROVE  Last(s) = IF Tail(s) = << >> THEN Head(s) ELSE Last(Tail(s))
<1>1. /\ Len(s) \in Nat \ {0} /\ Tail(s) \in Seq(S) /\ Len(Tail(s)) = Len(s) - 1
      /\ \A i \in 1 .. Len(Tail(s)) : Tail(s)[i] = s[i + 1]
  BY EmptySeq, HeadTailProperties
<1>2. Head(s) = s[1]
  BY <1>1, SubSeqFull, HeadTailOfSubSeq
<1>3. CASE Tail(s) = << >>
  <2> DEFINE t == Tail(s)
             n == Len(s)
  <2>1. Len(t) = 0 /\ Len(t) = n - 1 /\ n \in Nat
    BY <1>1, <1>3, EmptySeq
  <2> HIDE DEF t, n
  <2>2. n = 1
    BY <2>1
  <2> QED BY <1>2, <1>3, <2>2 DEF Last, n
<1>4. CASE Tail(s) # << >>
  <2>1. Len(Tail(s)) \in Nat \ {0}
    BY <1>1, <1>4, EmptySeq
  <2>2. Tail(s)[Len(Tail(s))] = s[Len(s)]
    BY <1>1, <2>1
  <2> QED BY <1>4, <2>2 DEF Last
<1> QED BY <1>3, <1>4

LEMMA SetupStepLemma ==
  ASSUME ConnectionInv, SetupInv, BuilderNext \/ UNCHANGED vars
  PROVE  SetupInv'
<1>1. CASE UNCHANGED vars
  BY <1>1 DEF SetupInv, SetUpFor, Target, vars, links, types, setup, subtitles, enumeration
<1>2. ASSUME NEW f \in Formats, ConnectInput(f), ~downstream.connector, reconnects = << >>
      PROVE  SetupInv'
  <2>1. UNCHANGED <<downstream, m_State, reconnects, agreeing>> /\ agreeing = "no"
    BY <1>2 DEF ConnectInput, enumeration, Idle
  <2>2. m_InputVideoType' = inputType'
    BY <1>2 DEF ConnectInput, AttemptInput, SetupInv
  <2> QED BY <1>2, <2>1, <2>2 DEF SetupInv
<1>3. CASE DisconnectUpstream /\ ~downstream.connector /\ reconnects = << >>
  BY <1>3 DEF DisconnectUpstream, SetupInv, types, enumeration, Idle, Target
<1>4. CASE DisconnectDownstream
  <2>1. downstream'.connector => downstream.connector
    BY <1>4, DisconnectLemma DEF DisconnectDownstream, ConnectionInv
  <2> QED BY <1>4, <2>1
          DEF DisconnectDownstream, SetupInv, SetUpFor, Target, types, setup, subtitles, enumeration, Idle
<1>5. ASSUME NEW t \in SubtitleType, ConnectSubtitle(t), ~downstream.connector PROVE SetupInv'
  BY <1>5 DEF ConnectSubtitle, SetupInv, Target, links, types, enumeration
<1>6. CASE DisconnectSubtitle /\ ~downstream.connector
  BY <1>6 DEF DisconnectSubtitle, SetupInv, Target, links, types, enumeration
<1>7. CASE ConnectOutput /\ reconnects = << >>
  BY <1>7 DEF ConnectOutput, SetupInv, Target, SetUpFor, links, types, setup, subtitles
<1>8. CASE TheirTypesTried
  BY <1>8 DEF TheirTypesTried, SetupInv, Target, SetUpFor, links, types, setup, subtitles
<1>9. CASE NoTypeAgreed
  BY <1>9 DEF NoTypeAgreed, SetupInv, Target, SetUpFor, links, types, setup, subtitles
<1>10. ASSUME NEW f \in Formats, TryType(f) PROVE SetupInv'
  <2>1. PICK fails \in Failures :
          /\ Attempted(f, fails)
          /\ downstream'.connector => /\ upstream.receiver /\ DecideBufferSize(f)
                                      /\ \/ ConnectOutputSame(f, fails)
                                         \/ ConnectOutputOther(f, fails)
          /\ \/ ConnectOutputSame(f, fails) \/ ConnectOutputOther(f, fails)
             \/ UNCHANGED <<m_State, inputType, m_InputVideoType, setup, reconnects>>
    BY <1>10, TryTypeLemma
  <2>2. /\ agreeing # "no" /\ ~downstream.connector /\ m_State = "Stopped" /\ Target = inputType
        /\ reconnects \in Seq(Formats) /\ m_InputVideoType = inputType
    BY <1>10 DEF TryType, NextType, ConnectionInv, SetupInv
  <2>3. UNCHANGED <<upstream, m_CurrentSubtitleType>>
    BY <2>1 DEF Attempted, subtitles
  <2>4. CASE ConnectOutputSame(f, fails)
    <3>1. /\ f = inputType /\ outputType' = f /\ inputType' = f /\ m_InputVideoType' = f
          /\ reconnects' = reconnects /\ SetUp(f, f) /\ m_State' \in {"Stopped", "Crashed"}
      BY <2>2, <2>4 DEF ConnectOutputSame, SetUp
    <3>2. Target' = f
      BY <2>2, <3>1 DEF Target
    <3> QED BY <2>1, <2>2, <2>3, <3>1, <3>2 DEF SetupInv, SetUpFor, SetUp
  <2>5. CASE ConnectOutputOther(f, fails)
    <3>1. /\ outputType' = f /\ inputType' = f /\ m_InputVideoType' = f
          /\ reconnects' = Append(reconnects, f) /\ SetUp(f, f) /\ m_State' \in {"Stopped", "Crashed"}
      BY <2>2, <2>5 DEF ConnectOutputOther, SetUp
    <3>2. reconnects' \in Seq(Formats) /\ Target' = f
      BY <2>2, <3>1 DEF Target, Last
    <3> QED BY <2>1, <2>2, <2>3, <3>1, <3>2 DEF SetupInv, SetUpFor, SetUp
  <2>6. CASE UNCHANGED <<m_State, inputType, m_InputVideoType, setup, reconnects>> /\ ~downstream'.connector
    BY <2>2, <2>3, <2>6 DEF SetupInv, Target
  <2> QED BY <2>1, <2>4, <2>5, <2>6
<1>11. CASE Reconnect /\ ~Half(upstream)
  <2>1. /\ UNCHANGED <<downstream, m_State, agreeing, outputType, m_CurrentSubtitleType, setup>>
        /\ m_State = "Stopped" /\ agreeing = "no"
        /\ reconnects \in Seq(Formats) /\ reconnects # << >> /\ reconnects' = Tail(reconnects)
    BY <1>11 DEF Reconnect, enumeration, Idle, subtitles, SetupInv
  <2>2. reconnects' \in Seq(Formats)
    BY <2>1
  <2>3. CASE Whole(upstream)
    <3> DEFINE apart == DisconnectInput(DisconnectOutput(upstream))
    <3>1. PICK fails \in Failures : AttemptInput(apart, Head(reconnects), fails)
      BY <1>11, <2>3 DEF Reconnect
    <3>2. /\ apart \in Link /\ Sound(apart) /\ ~apart.connector /\ ~apart.receiver
          /\ apart.committed = {}
      BY <2>1, DisconnectLemma DEF ConnectionInv
    <3> HIDE DEF apart
    <3>3. upstream'.receiver => inputType' = Head(reconnects)
      BY <3>1, <3>2, AttemptInputLemma
    <3>4. m_InputVideoType' = inputType'
      BY <3>1 DEF AttemptInput, SetupInv
    <3>5. upstream'.receiver => Target' = Last(reconnects) /\ Last(reconnects) = Target
      BY <2>1, <3>3, LastOfTail DEF Target
    <3>6. upstream.receiver
      BY <2>3 DEF Whole
    <3> QED BY <2>1, <2>2, <3>4, <3>5, <3>6 DEF SetupInv, SetUpFor, setup
  <2>4. CASE ~Whole(upstream)
    <3>1. ~upstream.receiver /\ UNCHANGED <<upstream, inputType, m_InputVideoType>>
      BY <1>11, <2>4 DEF Whole, Half, Reconnect, ConnectionInv, Link
    <3> QED BY <2>1, <2>2, <3>1 DEF SetupInv, setup
  <2> QED BY <2>3, <2>4
<1>12. CASE Run
  <2>1. /\ m_State = "Stopped" /\ m_State' = "Running" /\ reconnects = << >>
        /\ UNCHANGED <<types, setup, reconnects, agreeing, m_CurrentSubtitleType>>
        /\ upstream' = ActiveOutput(upstream)
        /\ downstream' = IF upstream.receiver THEN ActiveOutput(downstream) ELSE downstream
    BY <1>12 DEF Run, Idle, enumeration, subtitles
  <2>2. \A l \in Link : /\ ActiveOutput(l).connector = l.connector
                        /\ ActiveOutput(l).receiver = l.receiver
    BY DEF ActiveOutput, Link
  <2> QED BY <2>1, <2>2 DEF SetupInv, SetUpFor, Target, types, setup, ConnectionInv
<1>13. CASE Stop
  <2>1. \A l \in Link :
          /\ InactiveInput(l) \in Link /\ InactiveOutput(l) \in Link
          /\ InactiveInput(l).connector = l.connector /\ InactiveInput(l).receiver = l.receiver
          /\ InactiveOutput(l).connector = l.connector /\ InactiveOutput(l).receiver = l.receiver
    BY DEF InactiveInput, InactiveOutput, Link
  <2>2. /\ m_State = "Running" /\ m_State' = "Stopped"
        /\ UNCHANGED <<types, setup, reconnects, agreeing, m_CurrentSubtitleType>>
        /\ upstream' \in {InactiveOutput(upstream), InactiveOutput(InactiveInput(upstream))}
        /\ downstream' \in {InactiveInput(downstream), InactiveInput(InactiveOutput(downstream))}
    BY <1>13 DEF Stop, enumeration, subtitles
  <2>3. upstream'.receiver = upstream.receiver /\ downstream'.connector = downstream.connector
    BY <2>1, <2>2 DEF ConnectionInv
  <2> QED BY <2>2, <2>3 DEF SetupInv, SetUpFor, Target, types, setup
<1>14. ASSUME NEW f \in Formats, NEW g \in Formats, FormatChange(f, g), SameFrame(f, g)
       PROVE  SetupInv'
  <2>1. /\ m_State = "Running" /\ reconnects = << >> /\ downstream.connector /\ upstream.receiver
        /\ m_InputVideoType = inputType /\ SetUpFor(inputType)
        /\ m_SubtitleRenderer = CreateSubtitleRenderer(m_CurrentSubtitleType)
    BY <1>14 DEF FormatChange, Streaming, Whole, SetupInv, Target
  <2>2. /\ outputType' = f /\ inputType' = g /\ m_InputVideoType' = g /\ m_Strides' = ComputeStrides(g, f)
        /\ UNCHANGED <<m_State, upstream, downstream, m_CurrentSubtitleType, m_SubtitleRenderer,
                       m_uAlignedBufferLength, m_pSubPicBlender, reconnects, agreeing>>
    BY <1>14, <2>1 DEF FormatChange, links, subtitles, enumeration
  <2>3. /\ Subtype[f] = Subtype[g] /\ Subtype[g] = Subtype[inputType]
        /\ SampleSize[g] = SampleSize[inputType]
    BY <1>14, <2>1 DEF SameFrame, SetUpFor
  <2>4. SetUpFor(g)' /\ Target' = g
    BY <2>1, <2>2, <2>3 DEF SetUpFor, Target, AssignSubPicBlender
  <2> QED BY <2>1, <2>2, <2>4 DEF SetupInv
<1> QED BY <1>1, <1>2, <1>3, <1>4, <1>5, <1>6, <1>7, <1>8, <1>9, <1>10, <1>11, <1>12, <1>13, <1>14
        DEF BuilderNext, BuilderStep

LEMMA SetupInvHolds == BuilderSpec => []SetupInv
<1>1. Init => SetupInv
  BY DEF Init, SetupInv, Target, NoLink
<1>2. ConnectionInv /\ SetupInv /\ [BuilderNext]_vars => SetupInv'
  BY SetupStepLemma
<1> QED BY <1>1, <1>2, ConnectionInvHolds, PTL DEF BuilderSpec

(* Through failed attempts and late reconnections, for any list of types:  *)
(* every frame fits the buffer, the strides and the blender set up in      *)
(* CompleteConnect (dxsubfilter.cpp:164-246, 448, 474).                    *)
THEOREM FramesFit == BuilderSpec => []FrameFits
<1>1. SetupInv => FrameFits
  BY DEF SetupInv, SetUpFor, Target, FrameFits, FormatsMatch, Streaming, Whole
<1> QED BY <1>1, SetupInvHolds, PTL

(* The renderer that lines and frames reach is one for the subtitles now    *)
(* connected (dxsubfilter.cpp:164-246, SubtitleInputPin.cpp).               *)
THEOREM RendererIsCurrent == BuilderSpec => []RendererCurrent
<1>1. SetupInv => RendererCurrent
  BY DEF SetupInv, RendererCurrent, Streaming, Whole
<1> QED BY <1>1, SetupInvHolds, PTL

-----------------------------------------------------------------------------
LEMMA CorrectLemma ==
  ASSUME NEW f \in Formats, NEW s \in ToSet(EightBit) \cup ToSet(SixteenBit)
  PROVE  /\ CorrectVideoMediaType(f, s) \in Formats
         /\ Frame[CorrectVideoMediaType(f, s)] = Frame[f]
BY ConnectionAssumption DEF CorrectVideoMediaType

(* The subtypes offered to an input of the type f, and what is offered. *)
Subtypes(f) == IF Is16Bit(f) THEN SixteenBit \o EightBit ELSE EightBit

LEMMA SubtypesLemma ==
  ASSUME NEW f
  PROVE  /\ Len(Subtypes(f)) \in Nat
         /\ \A i \in 1 .. Len(Subtypes(f)) : Subtypes(f)[i] \in ToSet(EightBit) \cup ToSet(SixteenBit)
         /\ \A s \in ToSet(EightBit) \cup (IF Is16Bit(f) THEN ToSet(SixteenBit) ELSE {}) :
              \E i \in 1 .. Len(Subtypes(f)) : Subtypes(f)[i] = s
<1>1. /\ EightBit \in Seq(STRING) /\ SixteenBit \in Seq(STRING)
      /\ Len(EightBit) \in Nat /\ Len(SixteenBit) \in Nat
      /\ DOMAIN EightBit = 1 .. Len(EightBit) /\ DOMAIN SixteenBit = 1 .. Len(SixteenBit)
  BY ConnectionAssumption, LenProperties
<1>2. CASE ~Is16Bit(f)
  BY <1>1, <1>2 DEF Subtypes, ToSet
<1>3. CASE Is16Bit(f)
  <2> DEFINE both == SixteenBit \o EightBit
  <2>1. /\ Len(both) = Len(SixteenBit) + Len(EightBit)
        /\ \A i \in 1 .. Len(both) :
             both[i] = IF i <= Len(SixteenBit) THEN SixteenBit[i] ELSE EightBit[i - Len(SixteenBit)]
    BY <1>1, ConcatProperties
  <2>2. Subtypes(f) = both
    BY <1>3 DEF Subtypes
  <2> HIDE DEF both
  <2>3. \A i \in 1 .. Len(both) : both[i] \in ToSet(EightBit) \cup ToSet(SixteenBit)
    <3> TAKE i \in 1 .. Len(both)
    <3>1. CASE i <= Len(SixteenBit)
      BY <1>1, <2>1, <3>1 DEF ToSet
    <3>2. CASE i > Len(SixteenBit)
      <4>1. i - Len(SixteenBit) \in 1 .. Len(EightBit)
        BY <1>1, <2>1, <3>2
      <4> QED BY <1>1, <2>1, <3>2, <4>1 DEF ToSet
    <3> QED BY <1>1, <2>1, <3>1, <3>2
  <2>4. \A s \in ToSet(SixteenBit) : \E i \in 1 .. Len(both) : both[i] = s
    BY <1>1, <2>1 DEF ToSet
  <2>5. \A s \in ToSet(EightBit) : \E i \in 1 .. Len(both) : both[i] = s
    <3> TAKE s \in ToSet(EightBit)
    <3>1. PICK j \in 1 .. Len(EightBit) : s = EightBit[j]
      BY <1>1 DEF ToSet
    <3>2. /\ Len(SixteenBit) + j \in 1 .. Len(both) /\ Len(SixteenBit) + j > Len(SixteenBit)
          /\ Len(SixteenBit) + j - Len(SixteenBit) = j
      BY <1>1, <2>1
    <3> QED BY <1>1, <2>1, <3>1, <3>2
  <2> QED BY <1>1, <1>3, <2>1, <2>2, <2>3, <2>4, <2>5
<1> QED BY <1>2, <1>3

TypesInv ==
  /\ m_InputVideoType = inputType
  /\ inputType \in Formats \cup {None} /\ (upstream.receiver => inputType \in Formats)
  /\ m_Position \in Nat /\ untried \subseteq Formats

(* What is yet to be tried of the output pin's types is at the position of *)
(* the enumerator or after it.                                             *)
TriedInv ==
  /\ TypesInv /\ AllTried
  /\ agreeing # "own" => untried = {}
  /\ agreeing = "own" =>
       \A u \in untried : \E p \in Nat : p >= m_Position /\ u = GetMediaType(p)

LEMMA GetMediaTypeLemma ==
  ASSUME TypesInv, NEW p \in Nat
  PROVE  /\ GetMediaType(p) = None <=> ~upstream.receiver \/ p > Len(Subtypes(m_InputVideoType))
         /\ GetMediaType(p) # None => /\ GetMediaType(p) \in Formats
                                      /\ Frame[GetMediaType(p)] = Frame[m_InputVideoType]
<1>1. Len(Subtypes(m_InputVideoType)) \in Nat
  BY SubtypesLemma
<1>2. GetMediaType(p) = IF ~upstream.receiver \/ p > Len(Subtypes(m_InputVideoType)) THEN None
        ELSE IF p = 0 THEN m_InputVideoType
        ELSE CorrectVideoMediaType(m_InputVideoType, Subtypes(m_InputVideoType)[p])
  BY DEF GetMediaType, Subtypes
<1>3. CASE ~upstream.receiver \/ p > Len(Subtypes(m_InputVideoType))
  BY <1>2, <1>3
<1>4. CASE ~(~upstream.receiver \/ p > Len(Subtypes(m_InputVideoType)))
  <2>1. m_InputVideoType \in Formats /\ None \notin Formats
    BY <1>4, ConnectionAssumption DEF TypesInv
  <2>2. CASE p = 0
    BY <1>2, <1>4, <2>1, <2>2
  <2>3. CASE p # 0
    <3>1. p \in 1 .. Len(Subtypes(m_InputVideoType))
      BY <1>1, <1>4, <2>3
    <3>2. Subtypes(m_InputVideoType)[p] \in ToSet(EightBit) \cup ToSet(SixteenBit)
      BY <3>1, SubtypesLemma
    <3> QED BY <1>2, <1>4, <2>1, <2>3, <3>2, CorrectLemma
  <2> QED BY <2>2, <2>3
<1> QED BY <1>3, <1>4

LEMMA OfferedLemma ==
  ASSUME TypesInv, NEW u \in Offered
  PROVE  u \in Formats /\ \E p \in Nat : u = GetMediaType(p)
<1>1. upstream.receiver /\ m_InputVideoType \in Formats
  BY DEF Offered, TypesInv
<1>2. CASE u = m_InputVideoType
  <2>1. u = GetMediaType(0)
    BY <1>1, <1>2, SubtypesLemma DEF GetMediaType, Subtypes
  <2> QED BY <1>1, <1>2, <2>1
<1>3. CASE u # m_InputVideoType
  <2>1. PICK s \in ToSet(EightBit) \cup (IF Is16Bit(m_InputVideoType) THEN ToSet(SixteenBit) ELSE {}) :
          u = CorrectVideoMediaType(m_InputVideoType, s)
    BY <1>1, <1>3 DEF Offered
  <2>2. PICK i \in 1 .. Len(Subtypes(m_InputVideoType)) : Subtypes(m_InputVideoType)[i] = s
    BY <2>1, SubtypesLemma
  <2>3. i \in Nat /\ i # 0 /\ ~(i > Len(Subtypes(m_InputVideoType)))
    BY <2>2, SubtypesLemma
  <2>4. u = GetMediaType(i)
    BY <1>1, <2>1, <2>2, <2>3 DEF GetMediaType, Subtypes
  <2>5. u \in Formats
    BY <1>1, <2>1, CorrectLemma
  <2> QED BY <2>3, <2>4, <2>5
<1> QED BY <1>2, <1>3

(* An attempt that leaves the list as it was leaves the types after it. *)
LEMMA SameListLemma ==
  ASSUME TypesInv, TypesInv', UNCHANGED upstream, NEW p \in Nat, p # 0,
         Is16Bit(m_InputVideoType') = Is16Bit(m_InputVideoType),
         m_InputVideoType' = m_InputVideoType \/ Frame[m_InputVideoType'] = Frame[m_InputVideoType]
  PROVE  GetMediaType(p)' = GetMediaType(p)
<1>1. \A s : CorrectVideoMediaType(m_InputVideoType', s) = CorrectVideoMediaType(m_InputVideoType, s)
  BY DEF CorrectVideoMediaType
<1> QED BY <1>1 DEF GetMediaType

LEMMA TriedStepLemma ==
  ASSUME ConnectionInv, TriedInv, reconnects \in Seq(Formats), Step \/ UNCHANGED vars
  PROVE  TriedInv'
<1> USE DEF TriedInv, AllTried
<1>1. CASE UNCHANGED <<upstream, m_InputVideoType, inputType, enumeration>>
  BY <1>1 DEF TypesInv, enumeration, GetMediaType
<1>2. ASSUME /\ agreeing = "no" /\ agreeing' = "no" /\ UNCHANGED <<m_Position, untried>>
             /\ m_InputVideoType' = inputType'
             /\ inputType' \in Formats \cup {None} /\ (upstream'.receiver => inputType' \in Formats)
      PROVE  TriedInv'
  BY <1>2 DEF TypesInv
<1>3. ASSUME NEW f \in Formats, ConnectInput(f) PROVE TriedInv'
  <2>1. PICK fails \in Failures : AttemptInput(upstream, f, fails)
    BY <1>3 DEF ConnectInput
  <2>2. /\ agreeing = "no" /\ UNCHANGED enumeration /\ m_State = "Stopped" /\ ~upstream.connector
    BY <1>3 DEF ConnectInput, Idle
  <2>3. upstream'.receiver => \/ upstream.receiver /\ ~upstream'.connector
                              \/ inputType' = f /\ m_InputVideoType' = f
    BY <2>1, <2>2, AttemptInputLemma DEF ConnectionInv
  <2>4. \/ inputType' = f /\ m_InputVideoType' = f
        \/ UNCHANGED <<inputType, m_InputVideoType>>
    BY <2>1 DEF AttemptInput
  <2> QED BY <1>2, <2>2, <2>3, <2>4 DEF TypesInv, enumeration
<1>4. CASE DisconnectUpstream
  <2>1. upstream'.receiver => upstream.receiver
    BY <1>4, DisconnectLemma DEF DisconnectUpstream, ConnectionInv
  <2> QED BY <1>2, <1>4, <2>1 DEF DisconnectUpstream, Idle, types, enumeration, TypesInv
<1>5. CASE Reconnect
  <2>1. /\ agreeing = "no" /\ UNCHANGED enumeration /\ m_State = "Stopped"
        /\ Head(reconnects) \in Formats
    BY <1>5, HeadTailProperties DEF Reconnect, Idle
  <2>2. CASE Whole(upstream)
    <3> DEFINE apart == DisconnectInput(DisconnectOutput(upstream))
    <3>1. PICK fails \in Failures : AttemptInput(apart, Head(reconnects), fails)
      BY <1>5, <2>2 DEF Reconnect
    <3>2. /\ apart \in Link /\ Sound(apart) /\ ~apart.connector /\ ~apart.receiver
          /\ apart.committed = {}
      BY <2>1, DisconnectLemma DEF ConnectionInv
    <3> HIDE DEF apart
    <3>3. upstream'.receiver => inputType' = Head(reconnects)
      BY <3>1, <3>2, AttemptInputLemma
    <3>4. \/ inputType' = Head(reconnects) /\ m_InputVideoType' = Head(reconnects)
          \/ UNCHANGED <<inputType, m_InputVideoType>>
      BY <3>1 DEF AttemptInput
    <3> QED BY <1>2, <2>1, <3>3, <3>4 DEF TypesInv, enumeration
  <2>3. CASE ~Whole(upstream)
    BY <1>1, <1>5, <2>3 DEF Reconnect
  <2> QED BY <2>2, <2>3
<1>6. ASSUME NEW f \in Formats, TryType(f) PROVE TriedInv'
  <2>1. PICK fails \in Failures :
          /\ Attempted(f, fails)
          /\ \/ ConnectOutputSame(f, fails) \/ ConnectOutputOther(f, fails)
             \/ UNCHANGED <<m_State, inputType, m_InputVideoType, setup, reconnects>>
    BY <1>6, TryTypeLemma
  <2>2. /\ UNCHANGED upstream /\ agreeing # "no"
        /\ agreeing' \in {"no", agreeing}
        /\ m_Position' = IF agreeing' = "own" THEN m_Position + 1 ELSE 0
        /\ untried' = IF agreeing' = "own" /\ Is16Bit(m_InputVideoType') = Is16Bit(m_InputVideoType)
                      THEN untried \ {f} ELSE {}
        /\ agreeing = "own" => f = GetMediaType(m_Position)
    BY <1>6, <2>1 DEF Attempted, TryType, NextType
  <2>3. \/ inputType' = f /\ m_InputVideoType' = f
        \/ UNCHANGED <<inputType, m_InputVideoType>>
    BY <2>1 DEF ConnectOutputSame, ConnectOutputOther, TypesInv
  <2>4. TypesInv'
    BY <2>2, <2>3 DEF TypesInv
  <2>5. ASSUME agreeing' = "own", NEW u \in untried'
        PROVE  \E p \in Nat : p >= m_Position' /\ u = GetMediaType(p)'
    <3>1. /\ agreeing = "own" /\ u \in untried /\ u # f /\ m_Position \in Nat
          /\ Is16Bit(m_InputVideoType') = Is16Bit(m_InputVideoType)
      BY <2>2, <2>5 DEF TypesInv
    <3>2. PICK p \in Nat : p >= m_Position /\ u = GetMediaType(p)
      BY <3>1
    <3>3. p >= m_Position + 1 /\ p # 0
      BY <2>2, <3>1, <3>2
    <3>4. m_InputVideoType' = m_InputVideoType \/ Frame[m_InputVideoType'] = Frame[m_InputVideoType]
      <4>1. f # None
        BY ConnectionAssumption
      <4> QED BY <2>2, <2>3, <3>1, <4>1, GetMediaTypeLemma
    <3>5. GetMediaType(p)' = GetMediaType(p)
      BY <2>2, <2>4, <3>1, <3>3, <3>4, SameListLemma
    <3> QED BY <2>2, <2>5, <3>2, <3>3, <3>5
  <2> QED BY <2>2, <2>4, <2>5
<1>7. CASE ConnectOutput
  BY <1>7 DEF ConnectOutput, TypesInv, links, types
<1>8. CASE TheirTypesTried
  <2>1. /\ UNCHANGED <<upstream, inputType, m_InputVideoType>> /\ agreeing' = "own"
        /\ m_Position' = 0 /\ untried' = Offered
    BY <1>8 DEF TheirTypesTried, links, types
  <2>2. \A p : GetMediaType(p)' = GetMediaType(p)
    BY <2>1 DEF GetMediaType
  <2>3. Offered \subseteq Formats /\ \A u \in Offered : \E p \in Nat : u = GetMediaType(p)
    BY OfferedLemma
  <2>4. \A u \in untried' : \E p \in Nat : p >= m_Position' /\ u = GetMediaType(p)'
    BY <2>1, <2>2, <2>3
  <2> QED BY <2>1, <2>3, <2>4 DEF TypesInv
<1>9. CASE NoTypeAgreed
  <2>1. /\ agreeing = "own" /\ GetMediaType(m_Position) = None /\ agreeing' = "no"
        /\ UNCHANGED <<upstream, inputType, m_InputVideoType, m_Position, untried>>
    BY <1>9 DEF NoTypeAgreed, links, types
  <2>2. m_Position \in Nat /\ Len(Subtypes(m_InputVideoType)) \in Nat
    BY SubtypesLemma DEF TypesInv
  <2>3. ASSUME NEW u \in untried PROVE FALSE
    <3>1. PICK p \in Nat : p >= m_Position /\ u = GetMediaType(p)
      BY <2>1
    <3>2. u # None
      BY ConnectionAssumption DEF TypesInv
    <3>3. upstream.receiver /\ ~(p > Len(Subtypes(m_InputVideoType)))
      BY <3>1, <3>2, GetMediaTypeLemma
    <3>4. m_Position > Len(Subtypes(m_InputVideoType))
      BY <2>1, <2>2, <3>3, GetMediaTypeLemma
    <3> QED BY <2>2, <3>1, <3>3, <3>4
  <2>4. untried = {}
    BY <2>3
  <2> QED BY <2>1, <2>4 DEF TypesInv
<1>10. CASE Run \/ Stop
  <2>1. \A l \in Link : /\ ActiveOutput(l).receiver = l.receiver
                        /\ InactiveInput(l) \in Link /\ InactiveInput(l).receiver = l.receiver
                        /\ InactiveOutput(l).receiver = l.receiver
    BY DEF ActiveOutput, InactiveInput, InactiveOutput, Link
  <2>2. /\ UNCHANGED <<types, enumeration>>
        /\ upstream' \in {ActiveOutput(upstream), InactiveOutput(upstream),
                          InactiveOutput(InactiveInput(upstream))}
    BY <1>10 DEF Run, Stop
  <2>3. upstream'.receiver = upstream.receiver
    BY <2>1, <2>2 DEF ConnectionInv
  <2>4. \A p : GetMediaType(p)' = GetMediaType(p)
    BY <2>2, <2>3 DEF GetMediaType, types
  <2> QED BY <2>2, <2>3, <2>4 DEF TypesInv, types, enumeration
<1>11. ASSUME NEW f \in Formats, NEW g \in Formats, FormatChange(f, g) PROVE TriedInv'
  <2>1. agreeing = "no"
    BY <1>11 DEF FormatChange, Streaming, ConnectionInv
  <2> QED BY <1>2, <1>11, <2>1 DEF FormatChange, TypesInv, enumeration
<1> QED
  BY <1>1, <1>3, <1>4, <1>5, <1>6, <1>7, <1>8, <1>9, <1>10, <1>11
     DEF Step, Next, DisconnectDownstream, ConnectSubtitle, DisconnectSubtitle, vars, links, types

(* Types are given up on only when the list has been gone through, though  *)
(* attempts that fail late change the type it is made from                 *)
(* (dxsubfilter.cpp:307-383).                                              *)
THEOREM AllAreTried == BuilderSpec => []AllTried
<1>1. Init => TriedInv
  BY DEF Init, TriedInv, TypesInv, AllTried, NoLink
<1>2. ConnectionInv /\ SetupInv /\ TriedInv /\ [BuilderNext]_vars => TriedInv'
  BY TriedStepLemma, BuilderTakesSteps DEF SetupInv
<1>3. TriedInv => AllTried
  BY DEF TriedInv
<1> QED BY <1>1, <1>2, <1>3, ConnectionInvHolds, SetupInvHolds, PTL DEF BuilderSpec

-----------------------------------------------------------------------------
LEMMA SetUpTypesLemma ==
  ASSUME NEW f \in Formats, NEW out \in Formats, SetUp(f, out)
  PROVE  /\ m_uAlignedBufferLength' \in Nat
         /\ m_Strides' \in (Formats \cup {None}) \X (Formats \cup {None})
         /\ m_pSubPicBlender' \in {None, "NV12", "YV12"}
         /\ m_SubtitleRenderer' \in {None, "NONE", "SRT"}
         /\ m_State' \in {m_State, "Crashed"}
<1>1. SampleSize[f] \in Nat
  BY ConnectionAssumption
<1>2. /\ AssignSubPicBlender(f) \in {None, "NV12", "YV12"}
      /\ CreateSubtitleRenderer(m_CurrentSubtitleType) \in {None, "NONE", "SRT"}
  BY DEF AssignSubPicBlender, CreateSubtitleRenderer
<1> QED BY <1>1, <1>2 DEF SetUp, ComputeStrides

LEMMA TypeStepLemma ==
  ASSUME TypeOK, ConnectionInv', SetupInv, SetupInv', TriedInv', ConnectionInv, BuilderNext
  PROVE  TypeOK'
<1>1. /\ upstream' \in Link /\ downstream' \in Link /\ reconnects' \in Seq(Formats)
      /\ inputType' \in Formats \cup {None} /\ m_InputVideoType' = inputType'
      /\ m_Position' \in Nat /\ untried' \subseteq Formats
  BY DEF ConnectionInv, SetupInv, TriedInv, TypesInv
<1> DEFINE Rest == /\ embedded \in BOOLEAN /\ m_bExternalSubtitlesLoaded \in BOOLEAN
                   /\ m_State \in {"Stopped", "Running", "Crashed"}
                   /\ outputType \in Formats \cup {None}
                   /\ subtitle \in BOOLEAN
                   /\ m_CurrentSubtitleType \in SubtitleType
                   /\ m_SubtitleRenderer \in {None, "NONE", "SRT"}
                   /\ m_uAlignedBufferLength \in Nat
                   /\ m_Strides \in (Formats \cup {None}) \X (Formats \cup {None})
                   /\ m_pSubPicBlender \in {None, "NV12", "YV12"}
                   /\ agreeing \in {"no", "given", "theirs", "own"}
<1>2. Rest
  BY DEF TypeOK
<1>3. CASE \E f \in Formats : TryType(f)
  <2>1. PICK f \in Formats : TryType(f)
    BY <1>3
  <2>2. PICK fails \in Failures :
          /\ \/ CannotConnect(f, fails) \/ DownstreamRefuses(f, fails)
             \/ ConnectOutputSame(f, fails) \/ ConnectOutputOther(f, fails)
             \/ ReconnectRefused(f, fails)
    BY <2>1 DEF TryType
  <2>3. /\ UNCHANGED <<embedded, m_bExternalSubtitlesLoaded, subtitle, m_CurrentSubtitleType>>
        /\ agreeing' \in {"no", agreeing}
    BY <2>2 DEF CannotConnect, DownstreamRefuses, ConnectOutputSame, ConnectOutputOther,
                ReconnectRefused, Attempted, fixed, subtitles
  <2>4. outputType' \in {f, outputType}
    BY <2>2 DEF CannotConnect, DownstreamRefuses, ConnectOutputSame, ConnectOutputOther,
                ReconnectRefused, types
  <2>5. SetUp(f, f) \/ UNCHANGED <<m_State, setup>>
    BY <2>2 DEF CannotConnect, DownstreamRefuses, ConnectOutputSame, ConnectOutputOther,
                ReconnectRefused, SetupInv
  <2>6. /\ m_uAlignedBufferLength' \in Nat
        /\ m_Strides' \in (Formats \cup {None}) \X (Formats \cup {None})
        /\ m_pSubPicBlender' \in {None, "NV12", "YV12"}
        /\ m_SubtitleRenderer' \in {None, "NONE", "SRT"}
        /\ m_State' \in {"Stopped", "Running", "Crashed"}
    <3>1. CASE SetUp(f, f)
      BY <1>2, <3>1, SetUpTypesLemma
    <3>2. CASE UNCHANGED <<m_State, setup>>
      BY <1>2, <3>2 DEF setup
    <3> QED BY <2>5, <3>1, <3>2
  <2>7. Rest'
    BY <1>2, <2>3, <2>4, <2>6
  <2> QED BY <1>1, <2>7 DEF TypeOK
<1>4. CASE \E f, g \in Formats : FormatChange(f, g)
  <2>1. Rest'
    BY <1>1, <1>2, <1>4 DEF FormatChange, ComputeStrides, fixed, subtitles, enumeration
  <2> QED BY <1>1, <2>1 DEF TypeOK
<1>5. CASE \/ \E t \in SubtitleType : ConnectSubtitle(t)
           \/ DisconnectSubtitle
  <2>1. Rest'
    BY <1>2, <1>5 DEF ConnectSubtitle, DisconnectSubtitle, fixed, types, setup, enumeration, SubtitleType
  <2> QED BY <1>1, <2>1 DEF TypeOK
<1>6. CASE \/ \E f \in Formats : ConnectInput(f)
           \/ DisconnectUpstream \/ DisconnectDownstream \/ Reconnect
  <2>1. Rest'
    BY <1>2, <1>6 DEF ConnectInput, DisconnectUpstream, DisconnectDownstream, Reconnect,
                      fixed, types, subtitles, setup, enumeration
  <2> QED BY <1>1, <2>1 DEF TypeOK
<1>7. CASE ConnectOutput \/ TheirTypesTried \/ NoTypeAgreed \/ Run \/ Stop
  <2>1. Rest'
    BY <1>2, <1>7 DEF ConnectOutput, TheirTypesTried, NoTypeAgreed, Run, Stop,
                      fixed, types, subtitles, setup, enumeration
  <2> QED BY <1>1, <2>1 DEF TypeOK
<1> QED BY <1>3, <1>4, <1>5, <1>6, <1>7 DEF BuilderNext, BuilderStep

(* Every variable of the connection keeps its type. *)
THEOREM ConnectionTypes == BuilderSpec => []TypeOK
<1> DEFINE Inv == ConnectionInv /\ SetupInv /\ TriedInv /\ TypeOK
<1>1. Init => Inv
  <2>1. Init => TypeOK
    <3> SUFFICES ASSUME Init PROVE TypeOK
      OBVIOUS
    <3>1. m_bExternalSubtitlesLoaded \in BOOLEAN /\ m_CurrentSubtitleType \in SubtitleType
      <4>1. PICK loaded \in AfterLoading :
              m_bExternalSubtitlesLoaded = loaded[1] /\ m_CurrentSubtitleType = loaded[2]
        BY DEF Init
      <4>2. \A l \in {<<FALSE, "NONE">>, <<FALSE, "VOBSUB">>} :
              l[1] \in BOOLEAN /\ l[2] \in SubtitleType
        <5> TAKE l \in {<<FALSE, "NONE">>, <<FALSE, "VOBSUB">>}
        <5>1. CASE l = <<FALSE, "NONE">>
          BY <5>1 DEF SubtitleType
        <5>2. CASE l = <<FALSE, "VOBSUB">>
          BY <5>2 DEF SubtitleType
        <5> QED BY <5>1, <5>2
      <4>3. \A l \in {TRUE} \X (SubtitleType \ {"NONE"}) : l[1] \in BOOLEAN /\ l[2] \in SubtitleType
        <5> TAKE l \in {TRUE} \X (SubtitleType \ {"NONE"})
        <5>1. l[1] \in {TRUE} /\ l[2] \in SubtitleType \ {"NONE"}
          OBVIOUS
        <5> QED BY <5>1
      <4> QED BY <4>1, <4>2, <4>3 DEF AfterLoading
    <3>2. upstream \in Link /\ downstream \in Link
      BY ConnectionInit DEF ConnectionInv
    <3>3. << >> \in Seq(Formats) /\ <<None, None>> \in (Formats \cup {None}) \X (Formats \cup {None})
      OBVIOUS
    <3> QED BY <3>1, <3>2, <3>3 DEF Init, TypeOK
  <2> QED BY <2>1, ConnectionInit DEF Init, SetupInv, Target, TriedInv, TypesInv, AllTried, NoLink
<1>2. Inv /\ [BuilderNext]_vars => Inv'
  <2>1. CASE UNCHANGED vars
    <3>1. TypeOK => TypeOK'
      BY <2>1 DEF TypeOK, vars, fixed, links, types, subtitles, setup, enumeration
    <3> QED BY <2>1, <3>1, LinkStepLemma, SetupStepLemma, TriedStepLemma DEF SetupInv
  <2>2. CASE BuilderNext
    <3>1. ConnectionInv /\ SetupInv /\ TriedInv => ConnectionInv' /\ SetupInv' /\ TriedInv'
      BY <2>2, LinkStepLemma, SetupStepLemma, TriedStepLemma, BuilderTakesSteps DEF SetupInv
    <3> QED BY <2>2, <3>1, TypeStepLemma
  <2> QED BY <2>1, <2>2
<1> QED BY <1>1, <1>2, PTL DEF BuilderSpec
=============================================================================
