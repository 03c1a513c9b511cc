-------------------------- MODULE MemAllocatorProofs --------------------------
(***************************************************************************)
(* What TLAPS proves of MemAllocator, for any number of threads and        *)
(* buffers: its safety invariants, and that it is a pool of buffers.       *)
(***************************************************************************)
EXTENDS MemAllocator, FiniteSetTheorems, TLAPS

(* What a call under way knows of its sample and its thread. *)
Calls ==
  \A c \in Threads :
    /\ pSample[c] # NoSample <=> pc[c] \in {"got", "releasing", "final"}
    /\ pSample[c] # NoSample => pSample[c] \notin holds[c]
    /\ pc[c] \in {"got", "final"} => With(pSample[c]) = {c}
    /\ pc[c] = "releasing" /\ lRef[c] = 1 => CountedBy(pSample[c]) = {c}
    /\ bRelease[c] => pc[c] \in {"notify", "decommitted"}
    /\ pc[c] \in {"waiting", "woken", "decommitted"} => c \in owners

(* The samples that are out and those in the list are all there are. *)
Accounted ==
  /\ \A s \in OutSamples : s <= m_lAllocated
  /\ \A i \in DOMAIN m_lFree : m_lFree[i] <= m_lAllocated
  /\ Len(m_lFree) + Cardinality(OutSamples) = m_lAllocated

InUse == m_bCommitted \/ m_bDecommitInProgress

Phases ==
  /\ ~(m_bCommitted /\ m_bDecommitInProgress)
  /\ m_bDecommitInProgress => OutSamples # {}
  /\ OutSamples # {} => InUse
  /\ InUse => m_lCount > 0 /\ ~m_bChanged
  /\ m_lCount > 0 /\ ~m_bChanged /\ m_cAllocatorRef > 0 => m_lAllocated = m_lCount
  /\ ~m_bCommitted => m_lWaiting = 0

(* What a step does to the samples that are out. *)
Kept == OutSamples' = OutSamples
Taken == \E s \in (1 .. m_lAllocated) \ OutSamples : OutSamples' = OutSamples \cup {s}
Given == \E s \in OutSamples : OutSamples' = OutSamples \ {s}

Releasing == {c \in Threads : bRelease[c]}

(* The allocator has a reference to itself while it is in use, which the   *)
(* call that completes a decommit gives up at its end.                     *)
References ==
  m_cAllocatorRef = Cardinality(owners) + (IF InUse THEN 1 ELSE 0) + Cardinality(Releasing)

AllocatorInv ==
  TypeOK /\ Calls /\ SampleOnce /\ Accounted /\ Phases /\ References /\ NoLostWakeup

-----------------------------------------------------------------------------
(* What is used of the cardinality of a set of threads or of samples. *)
Counts(T) ==
  \A S \in SUBSET T :
    /\ Cardinality(S) \in Nat
    /\ Cardinality(S) = 0 <=> S = {}
    /\ \A x \in T \ S : Cardinality(S \cup {x}) = Cardinality(S) + 1
    /\ \A x \in S : Cardinality(S \ {x}) = Cardinality(S) - 1
    /\ \A x \in S : Cardinality(S) = 1 => S = {x}

LEMMA FiniteCounts == ASSUME NEW T, IsFiniteSet(T) PROVE Counts(T)
<1> SUFFICES ASSUME NEW S \in SUBSET T
             PROVE  /\ Cardinality(S) \in Nat
                    /\ Cardinality(S) = 0 <=> S = {}
                    /\ \A x \in T \ S : Cardinality(S \cup {x}) = Cardinality(S) + 1
                    /\ \A x \in S : Cardinality(S \ {x}) = Cardinality(S) - 1
                    /\ \A x \in S : Cardinality(S) = 1 => S = {x}
  BY DEF Counts
<1>1. IsFiniteSet(S)
  BY FS_Subset
<1>2. Cardinality(S) \in Nat /\ (Cardinality(S) = 0 <=> S = {})
  BY <1>1, FS_CardinalityType, FS_EmptySet
<1>3. \A x \in T \ S : Cardinality(S \cup {x}) = Cardinality(S) + 1
  BY <1>1, FS_AddElement
<1>4. ASSUME NEW x \in S
      PROVE  /\ Cardinality(S \ {x}) = Cardinality(S) - 1
             /\ Cardinality(S) = 1 => S = {x}
  <2>1. Cardinality(S \ {x}) = Cardinality(S) - 1 /\ IsFiniteSet(S \ {x})
    BY <1>1, FS_RemoveElement
  <2>2. Cardinality(S) = 1 => S \ {x} = {}
    BY <2>1, FS_EmptySet
  <2> QED BY <2>1, <2>2
<1> QED BY <1>2, <1>3, <1>4

LEMMA ThreadCounts == Counts(Threads)
BY FiniteCounts, AllocatorAssumption

LEMMA SampleCounts == Counts(Samples)
BY FiniteCounts, FS_Interval, AllocatorAssumption DEF Samples

LEMMA SetTypes ==
  /\ \A s : With(s) \in SUBSET Threads /\ CountedBy(s) \in SUBSET Threads
  /\ OutSamples \in SUBSET Samples /\ OutSamples' \in SUBSET Samples
  /\ Releasing \in SUBSET Threads
BY DEF With, CountedBy, OutSamples, Releasing

(* A step that takes no sample from one place to another. *)
LEMMA SamplesStay ==
  ASSUME TypeOK, SampleOnce, Accounted,
         UNCHANGED <<m_lFree, m_lAllocated, m_cRef>>,
         \A s \in Samples : With(s)' = With(s) /\ CountedBy(s)' = CountedBy(s)
  PROVE  SampleOnce' /\ Accounted' /\ OutSamples' = OutSamples
<1>1. OutSamples' = OutSamples
  BY DEF OutSamples
<1>2. \A i \in DOMAIN m_lFree : m_lFree[i] \in Samples
  BY DEF TypeOK
<1>3. SampleOnce'
  BY <1>2, Zenon DEF SampleOnce
<1>4. Accounted'
  BY <1>1 DEF Accounted
<1> QED BY <1>1, <1>3, <1>4

(* The list is complete when no sample is out. *)
LEMMA NoneOut == ASSUME TypeOK, Accounted PROVE AllFree <=> OutSamples = {}
<1>1. Cardinality(OutSamples) \in Nat /\ (Cardinality(OutSamples) = 0 <=> OutSamples = {})
  BY SampleCounts, SetTypes DEF Counts
<1>2. Len(m_lFree) \in Nat /\ m_lAllocated \in Nat
  BY DEF TypeOK
<1> QED BY <1>1, <1>2 DEF Accounted, AllFree

LEMMA AllocatorInvInit == Init => AllocatorInv
<1> SUFFICES ASSUME Init PROVE AllocatorInv
  OBVIOUS
<1>1. TypeOK
  <2>1. Cardinality(Threads) \in Nat
    BY ThreadCounts DEF Counts
  <2>2. m_bChanged \in BOOLEAN /\ m_bCommitted \in BOOLEAN /\ m_bDecommitInProgress \in BOOLEAN
    BY Zenon DEF Init
  <2>3. m_lFree \in Seq(Samples)
    BY DEF Init
  <2>4. /\ m_lCount \in 0 .. MaxBuffers /\ m_lAllocated \in 0 .. MaxBuffers
        /\ m_lWaiting \in Nat /\ m_hSem \in Nat /\ polls \in Nat /\ m_cAllocatorRef \in Nat
    BY <2>1, AllocatorAssumption DEF Init
  <2>5. /\ m_cRef \in [Samples -> Nat] /\ owners \subseteq Threads
        /\ pc \in [Threads -> {"idle", "waiting", "woken", "got", "releasing", "final",
                              "notify", "decommitted"}]
        /\ pSample \in [Threads -> Samples \cup {NoSample}] /\ lRef \in [Threads -> Nat]
        /\ holds \in [Threads -> SUBSET Samples]
    BY DEF Init
  <2>6. bRelease \in [Threads -> BOOLEAN]
    BY Zenon DEF Init
  <2> QED BY <2>2, <2>3, <2>4, <2>5, <2>6, Zenon DEF TypeOK
<1>2. \A s \in Samples : With(s) = {} /\ CountedBy(s) = {}
  BY DEF Init, With, CountedBy
<1>3. OutSamples = {} /\ Releasing = {} /\ Waiting = {}
  BY <1>2 DEF Init, OutSamples, Releasing, Waiting
<1>4. Cardinality({}) = 0
  BY FS_EmptySet
<1>5. Calls
  BY DEF Init, Calls, NoSample
<1>6. SampleOnce
  <2>1. DOMAIN m_lFree = {}
    BY DEF Init
  <2> QED BY <1>2, <1>4, <2>1 DEF Init, SampleOnce
<1>7. Accounted /\ Phases
  BY <1>3, <1>4 DEF Init, Accounted, Phases, InUse
<1>8. References /\ NoLostWakeup
  <2>1. Cardinality(Threads) \in Nat
    BY ThreadCounts DEF Counts
  <2> QED BY <1>3, <1>4, <2>1 DEF Init, References, InUse, NoLostWakeup
<1> QED BY <1>1, <1>5, <1>6, <1>7, <1>8 DEF AllocatorInv

-----------------------------------------------------------------------------
(* The steps that take no sample from one place to another. *)
LEMMA GetBufferNoWaitInv ==
  ASSUME NEW c \in Threads, AllocatorInv, GetBufferNoWait(c)
  PROVE  AllocatorInv' /\ Kept
<1> USE DEF AllocatorInv, Kept
<1>1. TypeOK'
  BY DEF GetBufferNoWait, TypeOK, properties, state, life, calls
<1>2. \A s \in Samples : With(s)' = With(s) /\ CountedBy(s)' = CountedBy(s)
  BY DEF GetBufferNoWait, calls, With, CountedBy
<1>3. Waiting' = Waiting /\ Releasing' = Releasing
  BY DEF GetBufferNoWait, calls, Waiting, Releasing
<1>4. SampleOnce' /\ Accounted' /\ OutSamples' = OutSamples
  BY <1>2, SamplesStay DEF GetBufferNoWait, properties
<1>5. Calls'
  BY <1>2 DEF GetBufferNoWait, Calls, calls, life, TypeOK
<1>6. Phases' /\ References'
  BY <1>3, <1>4 DEF GetBufferNoWait, Phases, References, InUse, properties, state, life, Ready
<1>7. NoLostWakeup'
  <2>1. Cardinality(Waiting) \in Nat
    BY ThreadCounts DEF Counts, Waiting
  <2> QED BY <1>3, <2>1 DEF GetBufferNoWait, NoLostWakeup, TypeOK
<1> QED BY <1>1, <1>4, <1>5, <1>6, <1>7

LEMMA SetPropertiesInv ==
  ASSUME NEW c \in Threads, NEW n \in 1 .. MaxBuffers, AllocatorInv, SetProperties(c, n)
  PROVE  AllocatorInv' /\ Kept
<1> USE DEF AllocatorInv, Kept
<1>1. TypeOK'
  BY DEF SetProperties, TypeOK, state, signal, life, calls
<1>2. \A s \in Samples : With(s)' = With(s) /\ CountedBy(s)' = CountedBy(s)
  BY DEF SetProperties, calls, With, CountedBy
<1>3. Waiting' = Waiting /\ Releasing' = Releasing
  BY DEF SetProperties, calls, Waiting, Releasing
<1>4. SampleOnce' /\ Accounted' /\ OutSamples' = OutSamples
  BY <1>2, SamplesStay DEF SetProperties
<1>5. Calls'
  BY <1>2 DEF SetProperties, Calls, calls, life, TypeOK
<1>6. OutSamples = {}
  BY NoneOut DEF SetProperties
<1>7. Phases' /\ References'
  BY <1>3, <1>4, <1>6 DEF SetProperties, Phases, References, InUse, state, signal, life
<1>8. NoLostWakeup'
  BY <1>3 DEF SetProperties, NoLostWakeup, signal
<1> QED BY <1>1, <1>4, <1>5, <1>7, <1>8

LEMMA WaitInv ==
  ASSUME NEW c \in Threads, AllocatorInv, WaitForSingleObject(c)
  PROVE  AllocatorInv' /\ Kept
<1> USE DEF AllocatorInv, Kept
<1>1. TypeOK'
  BY DEF WaitForSingleObject, TypeOK, properties, state, life
<1>2. \A s \in Samples : With(s)' = With(s) /\ CountedBy(s)' = CountedBy(s)
  BY DEF WaitForSingleObject, With, CountedBy, TypeOK
<1>3. Waiting' = Waiting \ {c} /\ c \in Waiting /\ Releasing' = Releasing
  BY DEF WaitForSingleObject, Waiting, Releasing, TypeOK
<1>4. SampleOnce' /\ Accounted' /\ OutSamples' = OutSamples
  BY <1>2, SamplesStay DEF WaitForSingleObject, properties
<1>5. Calls'
  BY <1>2 DEF WaitForSingleObject, Calls, life, TypeOK
<1>6. Phases' /\ References'
  BY <1>3, <1>4 DEF WaitForSingleObject, Phases, References, InUse, properties, state, life
<1>7. NoLostWakeup'
  <2>1. /\ Cardinality(Waiting) \in Nat
        /\ Cardinality(Waiting \ {c}) = Cardinality(Waiting) - 1
    BY <1>3, ThreadCounts DEF Counts, Waiting
  <2>2. Cardinality(Waiting)' = Cardinality(Waiting) - 1
    BY <1>3, <2>1
  <2>3. m_lWaiting \in Nat /\ m_hSem \in Nat /\ polls \in Nat
    BY DEF TypeOK
  <2>4. m_lWaiting + m_hSem = Cardinality(Waiting) + polls
    BY DEF NoLostWakeup
  <2> QED BY <2>1, <2>2, <2>3, <2>4 DEF WaitForSingleObject, NoLostWakeup
<1> QED BY <1>1, <1>4, <1>5, <1>6, <1>7

(* The section of GetBuffer, when it is entered and when it is tried again. *)
LEMMA SectionInv ==
  ASSUME NEW c \in Threads, AllocatorInv, m_bCommitted,
         c \in owners, pc[c] \in {"idle", "woken"},
         TakeSample(c) \/ SetWaiting(c),
         UNCHANGED <<properties, state, m_cRef, life, lRef, bRelease, holds>>
  PROVE  AllocatorInv' /\ (Kept \/ Taken)
<1> USE DEF AllocatorInv, Kept
<1>1. pSample[c] = NoSample /\ c \notin Waiting
  BY DEF Calls, Waiting
<1>2. Releasing' = Releasing
  BY DEF Releasing
<1>3. CASE SetWaiting(c)
  <2>1. TypeOK'
    BY <1>3 DEF SetWaiting, TypeOK, properties, state, life
  <2>2. \A s \in Samples : With(s)' = With(s) /\ CountedBy(s)' = CountedBy(s)
    BY <1>3 DEF SetWaiting, With, CountedBy, TypeOK
  <2>3. Waiting' = Waiting \cup {c}
    BY <1>3 DEF SetWaiting, Waiting, TypeOK
  <2>4. SampleOnce' /\ Accounted' /\ OutSamples' = OutSamples
    BY <1>3, <2>2, SamplesStay DEF SetWaiting, properties
  <2>5. Calls'
    BY <1>1, <1>3, <2>2 DEF SetWaiting, Calls, life, TypeOK
  <2>6. Phases' /\ References'
    BY <1>2, <1>3, <2>4 DEF SetWaiting, Phases, References, InUse, properties, state, life
  <2>7. NoLostWakeup'
    <3>1. /\ Cardinality(Waiting) \in Nat
          /\ Cardinality(Waiting \cup {c}) = Cardinality(Waiting) + 1
      BY <1>1, ThreadCounts DEF Counts, Waiting
    <3>2. Cardinality(Waiting)' = Cardinality(Waiting) + 1
      BY <2>3, <3>1
    <3>3. m_lWaiting \in Nat /\ m_hSem \in Nat /\ polls \in Nat
      BY DEF TypeOK
    <3>4. m_lWaiting + m_hSem = Cardinality(Waiting) + polls
      BY DEF NoLostWakeup
    <3> QED BY <1>3, <3>1, <3>2, <3>3, <3>4 DEF SetWaiting, NoLostWakeup
  <2> QED BY <2>1, <2>4, <2>5, <2>6, <2>7
<1>4. CASE TakeSample(c)
  <2>a. Head(m_lFree) \in Samples
    BY <1>4 DEF TakeSample, TypeOK
  <2>b. PICK s \in Samples : s = Head(m_lFree)
    BY <2>a
  <2>1. /\ s = m_lFree[1] /\ m_lFree \in Seq(Samples) /\ 1 \in DOMAIN m_lFree
        /\ Tail(m_lFree) \in Seq(Samples) /\ Len(Tail(m_lFree)) = Len(m_lFree) - 1
        /\ \A i \in DOMAIN Tail(m_lFree) :
             i + 1 \in DOMAIN m_lFree /\ Tail(m_lFree)[i] = m_lFree[i + 1] /\ i + 1 # 1
    BY <1>4, <2>b DEF TakeSample, TypeOK
  <2>2. TypeOK'
    BY <1>4, <2>1 DEF TakeSample, TypeOK, properties, state, signal, life
  <2>3. /\ With(s) = {} /\ With(s)' = {c}
        /\ \A t \in Samples \ {s} : With(t)' = With(t)
        /\ \A t \in Samples : CountedBy(t)' = CountedBy(t)
    <3>1. With(s) = {}
      BY <2>1 DEF SampleOnce
    <3>3. \A d \in Threads \ {c} : pc'[d] = pc[d] /\ pSample'[d] = pSample[d]
      BY <1>4 DEF TakeSample, TypeOK
    <3>4. pc'[c] = "got" /\ pSample'[c] = s /\ holds' = holds
      BY <1>4, <2>b DEF TakeSample, TypeOK
    <3>2. c \notin With(s) /\ s # NoSample
      BY <2>1, <3>1 DEF Samples, NoSample
    <3>5. ASSUME NEW t \in Samples, NEW d \in Threads
          PROVE  d \in With(t)' <=> d \in With(t) \/ (d = c /\ t = s)
      <4>1. pc[c] \notin {"got", "releasing", "final"}
        OBVIOUS
      <4> QED BY <3>3, <3>4, <4>1 DEF With
    <3>7. With(s)' = {c} /\ \A t \in Samples \ {s} : With(t)' = With(t)
      <4>1. \A t \in Samples : With(t) \subseteq Threads /\ With(t)' \subseteq Threads
        BY DEF With
      <4> QED BY <2>1, <3>1, <3>5, <4>1
    <3>6. \A t \in Samples : CountedBy(t)' = CountedBy(t)
      BY <1>1, <3>3, <3>4 DEF CountedBy
    <3> QED BY <3>1, <3>6, <3>7
  <2>4. OutSamples' = OutSamples \cup {s} /\ s \notin OutSamples
    <3>1. \A t \in Samples : t \in OutSamples' <=> t \in OutSamples \/ t = s
      BY <2>1, <2>3 DEF OutSamples
    <3>2. s \notin OutSamples
      BY <2>3 DEF OutSamples
    <3> QED BY <2>1, <3>1, <3>2, SetTypes
  <2>5. SampleOnce'
    BY <1>4, <2>1, <2>3 DEF SampleOnce, TakeSample
  <2>6. Accounted'
    <3>1. /\ Cardinality(OutSamples) \in Nat
          /\ Cardinality(OutSamples \cup {s}) = Cardinality(OutSamples) + 1
      BY <2>1, <2>4, SampleCounts, SetTypes DEF Counts
    <3>2. Len(m_lFree) \in Nat /\ m_lAllocated \in Nat
      BY DEF TypeOK
    <3>3. m_lFree' = Tail(m_lFree) /\ m_lAllocated' = m_lAllocated
      BY <1>4 DEF TakeSample, properties
    <3>4. Cardinality(OutSamples)' = Cardinality(OutSamples) + 1
      BY <2>4, <3>1
    <3>5. Len(m_lFree') + Cardinality(OutSamples)' = m_lAllocated'
      BY <2>1, <3>1, <3>2, <3>3, <3>4 DEF Accounted
    <3>6. \A i \in DOMAIN m_lFree' : m_lFree'[i] <= m_lAllocated'
      BY <2>1, <3>3 DEF Accounted
    <3>7. \A t \in OutSamples' : t <= m_lAllocated'
      BY <2>1, <2>4, <3>3 DEF Accounted
    <3> QED BY <3>5, <3>6, <3>7 DEF Accounted
  <2>7. Calls'
    BY <1>4, <2>1, <2>b, <2>3 DEF TakeSample, Calls, life, TypeOK, With, NoSample, Samples
  <2>8. Phases' /\ References'
    BY <1>2, <1>4, <2>4 DEF TakeSample, Phases, References, InUse, properties, state, life,
                            signal
  <2>9. NoLostWakeup'
    <3>1. Waiting' = Waiting
      BY <1>4, <1>1 DEF TakeSample, Waiting, TypeOK
    <3> QED BY <1>4, <3>1 DEF TakeSample, NoLostWakeup, signal
  <2>10. Taken
    BY <2>1, <2>4 DEF Taken, Accounted, Samples
  <2> QED BY <2>2, <2>5, <2>6, <2>7, <2>8, <2>9, <2>10
<1> QED BY <1>3, <1>4

LEMMA GetBufferInv ==
  ASSUME NEW c \in Threads, AllocatorInv, GetBuffer(c)
  PROVE  AllocatorInv' /\ (Kept \/ Taken)
BY SectionInv DEF GetBuffer, Ready

LEMMA TryAgainInv ==
  ASSUME NEW c \in Threads, AllocatorInv, TryAgain(c)
  PROVE  AllocatorInv' /\ (Kept \/ Taken)
<1> USE DEF AllocatorInv, Kept
<1>1. c \in owners
  BY DEF TryAgain, Calls
<1>2. CASE m_bCommitted
  BY <1>1, <1>2, SectionInv DEF TryAgain
<1>3. CASE ~m_bCommitted
  <2>1. TypeOK'
    BY <1>3 DEF TryAgain, TypeOK, properties, state, life, signal
  <2>2. \A s \in Samples : With(s)' = With(s) /\ CountedBy(s)' = CountedBy(s)
    BY <1>3 DEF TryAgain, With, CountedBy, TypeOK
  <2>3. Waiting' = Waiting /\ Releasing' = Releasing
    BY <1>3 DEF TryAgain, Waiting, Releasing, TypeOK
  <2>4. SampleOnce' /\ Accounted' /\ OutSamples' = OutSamples
    BY <1>3, <2>2, SamplesStay DEF TryAgain, properties
  <2>5. Calls'
    BY <1>3, <2>2 DEF TryAgain, Calls, life, TypeOK
  <2>6. Phases' /\ References' /\ NoLostWakeup'
    BY <1>3, <2>3, <2>4 DEF TryAgain, Phases, References, InUse, properties, state, life,
                            signal, NoLostWakeup
  <2> QED BY <2>1, <2>4, <2>5, <2>6
<1> QED BY <1>2, <1>3

-----------------------------------------------------------------------------
(* The steps of a sample from one thread to another and back to the list.  *)
LEMMA GotBufferInv ==
  ASSUME NEW c \in Threads, AllocatorInv, GotBuffer(c)
  PROVE  AllocatorInv' /\ Kept
<1> USE DEF AllocatorInv, Kept
<1>1. pSample[c] \in Samples /\ With(pSample[c]) = {c} /\ pSample[c] \notin holds[c]
  BY DEF GotBuffer, Calls, TypeOK
<1>2. PICK s \in Samples : s = pSample[c]
  BY <1>1
<1>3. TypeOK'
  BY <1>2 DEF GotBuffer, TypeOK, properties, state, signal, life
<1>4. /\ pc'[c] = "idle" /\ pSample'[c] = NoSample /\ holds'[c] = holds[c] \cup {s}
      /\ \A d \in Threads \ {c} :
           pc'[d] = pc[d] /\ pSample'[d] = pSample[d] /\ holds'[d] = holds[d]
  BY <1>2 DEF GotBuffer, TypeOK
<1>5. pc[c] = "got"
  BY DEF GotBuffer
<1>6. \A t \in Samples : With(t)' = With(t)
  BY <1>2, <1>4, <1>5 DEF With
<1>7. CountedBy(s) = {} /\ CountedBy(s)' = {c}
  BY <1>1, <1>2, <1>4, <1>5 DEF CountedBy, With
<1>8. \A t \in Samples \ {s} : CountedBy(t)' = CountedBy(t)
  BY <1>2, <1>4, <1>5 DEF CountedBy
<1>9. SampleOnce'
  <2>1. m_cRef'[s] = 1 /\ \A t \in Samples \ {s} : m_cRef'[t] = m_cRef[t]
    BY <1>2 DEF GotBuffer, TypeOK
  <2>2. Cardinality({c}) = 1
    BY FS_Singleton
  <2>3. \A t \in Samples : m_cRef'[t] = Cardinality(CountedBy(t))'
    BY <1>7, <1>8, <2>1, <2>2 DEF SampleOnce
  <2>4. m_lFree' = m_lFree /\ \A i \in DOMAIN m_lFree : m_lFree[i] \in Samples \ {s}
    <3>1. With(s) # {} /\ m_lFree' = m_lFree
      BY <1>1, <1>2 DEF GotBuffer
    <3>2. \A i \in DOMAIN m_lFree : m_lFree[i] \in Samples
      BY DEF TypeOK
    <3>3. \A i \in DOMAIN m_lFree : With(m_lFree[i]) = {}
      BY DEF SampleOnce
    <3> QED BY <3>1, <3>2, <3>3
  <2> QED BY <1>6, <2>1, <2>3, <2>4 DEF SampleOnce
<1>10. OutSamples' = OutSamples /\ Releasing' = Releasing /\ Waiting' = Waiting
  BY <1>4, <1>5, <1>6 DEF OutSamples, Releasing, Waiting, GotBuffer
<1>11. Accounted'
  BY <1>10 DEF Accounted, GotBuffer, properties
<1>12. Calls'
  <2> SUFFICES ASSUME NEW d \in Threads
               PROVE  /\ (pSample[d] # NoSample)' <=> pc'[d] \in {"got", "releasing", "final"}
                      /\ pSample'[d] # NoSample => pSample'[d] \notin holds'[d]
                      /\ pc'[d] \in {"got", "final"} => With(pSample[d])' = {d}
                      /\ pc'[d] = "releasing" /\ lRef'[d] = 1 => CountedBy(pSample[d])' = {d}
                      /\ bRelease'[d] => pc'[d] \in {"notify", "decommitted"}
                      /\ pc'[d] \in {"waiting", "woken", "decommitted"} => d \in owners'
    BY Zenon DEF Calls
  <2>1. bRelease' = bRelease /\ lRef' = lRef /\ owners' = owners
    BY DEF GotBuffer, life
  <2>2. CASE d = c
    BY <1>4, <1>5, <2>1, <2>2 DEF Calls
  <2>3. CASE d # c
    <3>1. pc[d] \in {"got", "releasing", "final"} => pSample[d] \in Samples
      BY DEF Calls, TypeOK
    <3>2. pc[d] \in {"got", "releasing", "final"} => pSample[d] # s
      BY <1>1, <1>2, <2>3 DEF With
    <3> QED BY <1>4, <1>6, <1>8, <2>1, <2>3, <3>1, <3>2 DEF Calls
  <2> QED BY <2>2, <2>3
<1>13. Phases' /\ References' /\ NoLostWakeup'
  BY <1>10 DEF GotBuffer, Phases, References, InUse, NoLostWakeup, properties, state, life,
               signal
<1> QED BY <1>3, <1>9, <1>10, <1>11, <1>12, <1>13

LEMMA PassOnInv ==
  ASSUME NEW c \in Threads, NEW d \in Threads, NEW s \in holds[c], AllocatorInv,
         PassOn(c, d, s)
  PROVE  AllocatorInv' /\ Kept
<1> USE DEF AllocatorInv, Kept
<1>1. s \in Samples
  BY DEF TypeOK
<1>2. TypeOK'
  BY <1>1 DEF PassOn, TypeOK, properties, state, signal, life
<1>3. /\ pc' = pc /\ pSample' = pSample /\ holds'[d] = holds[d] \cup {s}
      /\ \A e \in Threads \ {d} : holds'[e] = holds[e]
      /\ pc[d] = "idle" /\ s \notin holds[d]
  BY DEF PassOn, TypeOK
<1>4. /\ \A t \in Samples \ {s} : With(t)' = With(t) /\ CountedBy(t)' = CountedBy(t)
      /\ With(s)' = With(s) \cup {d} /\ CountedBy(s)' = CountedBy(s) \cup {d}
      /\ d \notin CountedBy(s) /\ c \in With(s)
  BY <1>1, <1>3 DEF With, CountedBy
<1>5. SampleOnce'
  <2>1. m_cRef'[s] = m_cRef[s] + 1 /\ \A t \in Samples \ {s} : m_cRef'[t] = m_cRef[t]
    BY <1>1 DEF PassOn, TypeOK
  <2>2. Cardinality(CountedBy(s) \cup {d}) = Cardinality(CountedBy(s)) + 1
    BY <1>4, ThreadCounts, SetTypes DEF Counts
  <2>3. \A t \in Samples : m_cRef'[t] = Cardinality(CountedBy(t))'
    BY <1>1, <1>4, <2>1, <2>2 DEF SampleOnce
  <2>4. m_lFree' = m_lFree /\ \A i \in DOMAIN m_lFree : m_lFree[i] \in Samples \ {s}
    BY <1>4 DEF PassOn, SampleOnce, TypeOK
  <2> QED BY <1>4, <2>1, <2>3, <2>4 DEF SampleOnce
<1>6. OutSamples' = OutSamples /\ Releasing' = Releasing /\ Waiting' = Waiting
  <2>1. \A t \in Samples : With(t)' = {} <=> With(t) = {}
    BY <1>4
  <2> QED BY <2>1 DEF OutSamples, Releasing, Waiting, PassOn
<1>7. Accounted'
  BY <1>6 DEF Accounted, PassOn, properties
<1>8. Calls'
  <2> SUFFICES ASSUME NEW e \in Threads
               PROVE  /\ (pSample[e] # NoSample)' <=> pc'[e] \in {"got", "releasing", "final"}
                      /\ pSample'[e] # NoSample => pSample'[e] \notin holds'[e]
                      /\ pc'[e] \in {"got", "final"} => With(pSample[e])' = {e}
                      /\ pc'[e] = "releasing" /\ lRef'[e] = 1 => CountedBy(pSample[e])' = {e}
                      /\ bRelease'[e] => pc'[e] \in {"notify", "decommitted"}
                      /\ pc'[e] \in {"waiting", "woken", "decommitted"} => e \in owners'
    BY Zenon DEF Calls
  <2>1. bRelease' = bRelease /\ lRef' = lRef /\ owners' = owners
    BY DEF PassOn, life
  <2>2. pc[e] \in {"got", "releasing", "final"} => pSample[e] \in Samples
    BY DEF Calls, TypeOK
  <2>3. pc[e] \in {"got", "final"} => pSample[e] # s
    <3>1. pc[c] = "idle"
      BY DEF PassOn
    <3> QED BY <1>4, <3>1 DEF Calls
  <2>4. pc[e] = "releasing" /\ lRef[e] = 1 => pSample[e] # s
    <3>1. pc[c] = "idle" /\ c \in CountedBy(s)
      BY DEF PassOn, CountedBy
    <3> QED BY <3>1 DEF Calls
  <2>5. pSample'[e] # NoSample => pSample'[e] \notin holds'[e]
    BY <1>3 DEF Calls
  <2> QED BY <1>3, <1>4, <2>1, <2>2, <2>3, <2>4, <2>5 DEF Calls
<1>9. Phases' /\ References' /\ NoLostWakeup'
  BY <1>6 DEF PassOn, Phases, References, InUse, NoLostWakeup, properties, state, life, signal
<1> QED BY <1>2, <1>5, <1>6, <1>7, <1>8, <1>9

LEMMA ReleaseInv ==
  ASSUME NEW c \in Threads, NEW s \in holds[c], AllocatorInv, Release(c, s)
  PROVE  AllocatorInv' /\ Kept
<1> USE DEF AllocatorInv, Kept
<1>1. s \in Samples /\ s # NoSample
  BY DEF TypeOK, Samples, NoSample
<1>2. TypeOK'
  BY <1>1 DEF Release, TypeOK, properties, state, signal, life
<1>3. /\ pc'[c] = "releasing" /\ pSample'[c] = s /\ holds'[c] = holds[c] \ {s}
      /\ lRef'[c] = m_cRef[s] /\ pc[c] = "idle"
      /\ \A d \in Threads \ {c} : /\ pc'[d] = pc[d] /\ pSample'[d] = pSample[d]
                                 /\ holds'[d] = holds[d] /\ lRef'[d] = lRef[d]
  BY DEF Release, TypeOK
<1>4. \A t \in Samples : With(t)' = With(t) /\ CountedBy(t)' = CountedBy(t)
  BY <1>1, <1>3 DEF With, CountedBy
<1>5. SampleOnce' /\ Accounted' /\ OutSamples' = OutSamples
  BY <1>4, SamplesStay DEF Release, properties
<1>6. Releasing' = Releasing /\ Waiting' = Waiting
  BY <1>3 DEF Releasing, Waiting, Release
<1>7. Calls'
  <2> SUFFICES ASSUME NEW d \in Threads
               PROVE  /\ (pSample[d] # NoSample)' <=> pc'[d] \in {"got", "releasing", "final"}
                      /\ pSample'[d] # NoSample => pSample'[d] \notin holds'[d]
                      /\ pc'[d] \in {"got", "final"} => With(pSample[d])' = {d}
                      /\ pc'[d] = "releasing" /\ lRef'[d] = 1 => CountedBy(pSample[d])' = {d}
                      /\ bRelease'[d] => pc'[d] \in {"notify", "decommitted"}
                      /\ pc'[d] \in {"waiting", "woken", "decommitted"} => d \in owners'
    BY Zenon DEF Calls
  <2>1. bRelease' = bRelease /\ owners' = owners
    BY DEF Release, life
  <2>2. CASE d = c
    <3>1. c \in CountedBy(s) /\ m_cRef[s] = Cardinality(CountedBy(s))
      BY <1>1 DEF CountedBy, SampleOnce
    <3>2. m_cRef[s] = 1 => CountedBy(s) = {c}
      <4>1. CountedBy(s) \in SUBSET Threads
        BY SetTypes
      <4>2. Cardinality(CountedBy(s)) = 1 => CountedBy(s) = {c}
        BY <3>1, <4>1, ThreadCounts DEF Counts
      <4> QED BY <3>1, <4>2
    <3>3. lRef'[c] = 1 => CountedBy(pSample[c])' = {c}
      BY <1>1, <1>3, <1>4, <3>2
    <3>4. bRelease'[c] => pc'[c] \in {"notify", "decommitted"}
      BY <1>3, <2>1 DEF Calls
    <3> QED BY <1>1, <1>3, <2>2, <3>3, <3>4
  <2>3. CASE d # c
    <3>1. pc[d] \in {"got", "releasing", "final"} => pSample[d] \in Samples
      BY DEF Calls, TypeOK
    <3> QED BY <1>3, <1>4, <2>1, <2>3, <3>1 DEF Calls
  <2> QED BY <2>2, <2>3
<1>8. Phases' /\ References' /\ NoLostWakeup'
  BY <1>5, <1>6 DEF Release, Phases, References, InUse, NoLostWakeup, properties, state, life,
                    signal
<1> QED BY <1>2, <1>5, <1>7, <1>8

LEMMA DecrementInv ==
  ASSUME NEW c \in Threads, AllocatorInv, Decrement(c)
  PROVE  AllocatorInv' /\ Kept
<1> USE DEF AllocatorInv, Kept
<1>1. pSample[c] \in Samples /\ pSample[c] \notin holds[c] /\ pc[c] = "releasing"
  BY DEF Decrement, Calls, TypeOK
<1>2. PICK s \in Samples : s = pSample[c]
  BY <1>1
<1>3. PICK n : n = (IF lRef[c] = 1 THEN 0 ELSE m_cRef[s] - 1)
  OBVIOUS
<1>4. Decremented(c, n)
  BY <1>2, <1>3 DEF Decrement
<1>5. /\ c \in CountedBy(s) /\ m_cRef[s] = Cardinality(CountedBy(s))
      /\ lRef[c] = 1 => CountedBy(s) = {c}
  BY <1>1, <1>2 DEF CountedBy, SampleOnce, Calls
<1>6. n = Cardinality(CountedBy(s) \ {c}) /\ n \in Nat /\ (n = 0 <=> CountedBy(s) \ {c} = {})
  <2>1. CountedBy(s) \in SUBSET Threads /\ CountedBy(s) \ {c} \in SUBSET Threads
    BY SetTypes
  <2>2. /\ Cardinality(CountedBy(s) \ {c}) = Cardinality(CountedBy(s)) - 1
        /\ Cardinality(CountedBy(s)) \in Nat
    BY <1>5, <2>1, ThreadCounts DEF Counts
  <2>3. /\ Cardinality(CountedBy(s) \ {c}) \in Nat
        /\ Cardinality(CountedBy(s) \ {c}) = 0 <=> CountedBy(s) \ {c} = {}
    BY <2>1, ThreadCounts DEF Counts
  <2> QED BY <1>3, <1>5, <2>2, <2>3
<1>7. /\ holds' = holds /\ m_cRef' = [m_cRef EXCEPT ![s] = n]
      /\ pc'[c] = (IF n = 0 THEN "final" ELSE "idle")
      /\ pSample'[c] = (IF n = 0 THEN s ELSE NoSample)
      /\ \A d \in Threads \ {c} : /\ pc'[d] = pc[d] /\ pSample'[d] = pSample[d]
                                 /\ lRef'[d] = lRef[d]
  BY <1>2, <1>4 DEF Decremented, TypeOK
<1>8. TypeOK'
  BY <1>2, <1>4, <1>6 DEF Decremented, TypeOK, properties, state, signal, life
<1>9. /\ CountedBy(s)' = CountedBy(s) \ {c}
      /\ \A t \in Samples \ {s} : CountedBy(t)' = CountedBy(t)
  BY <1>1, <1>2, <1>7 DEF CountedBy
<1>10. \A t \in Samples \ {s} : With(t)' = With(t)
  BY <1>1, <1>2, <1>7 DEF With
<1>11. CountedBy(s) \subseteq With(s) /\ CountedBy(s)' \subseteq With(s)'
  BY DEF CountedBy, With
<1>12. \A d \in Threads : pc[d] \in {"got", "final"} => pSample[d] # s
  BY <1>1, <1>5, <1>11 DEF Calls
<1>13. n = 0 => With(s)' = {c}
  <2>1. ASSUME n = 0, NEW d \in Threads \ {c} PROVE d \notin With(s)'
    <3>1. d \notin CountedBy(s)
      BY <1>6, <2>1
    <3> QED BY <1>7, <1>12, <3>1 DEF With, CountedBy
  <2>2. n = 0 => c \in With(s)'
    BY <1>7 DEF With
  <2>3. With(s)' \subseteq Threads
    BY DEF With
  <2> QED BY <2>1, <2>2, <2>3
<1>14. With(s) # {} /\ With(s)' # {}
  BY <1>5, <1>6, <1>9, <1>11, <1>13
<1>15. OutSamples' = OutSamples /\ Releasing' = Releasing /\ Waiting' = Waiting
  <2>1. \A t \in Samples : With(t)' = {} <=> With(t) = {}
    BY <1>10, <1>14
  <2>2. OutSamples' = OutSamples
    BY <2>1 DEF OutSamples
  <2> QED BY <1>1, <1>4, <1>7, <2>2 DEF Releasing, Waiting, Decremented
<1>16. SampleOnce'
  <2>1. m_cRef'[s] = n /\ \A t \in Samples \ {s} : m_cRef'[t] = m_cRef[t]
    BY <1>7 DEF TypeOK
  <2>2. \A t \in Samples : m_cRef'[t] = Cardinality(CountedBy(t))'
    BY <1>6, <1>9, <2>1 DEF SampleOnce
  <2>3. m_lFree' = m_lFree /\ \A i \in DOMAIN m_lFree : m_lFree[i] \in Samples
    BY <1>4 DEF Decremented, TypeOK
  <2>4. \A i \in DOMAIN m_lFree : With(m_lFree[i]) = {} /\ m_cRef[m_lFree[i]] = 0
    BY DEF SampleOnce
  <2>5. \A i \in DOMAIN m_lFree : m_lFree[i] # s
    BY <1>14, <2>4
  <2> QED BY <1>10, <2>1, <2>2, <2>3, <2>4, <2>5 DEF SampleOnce
<1>17. Accounted'
  BY <1>4, <1>15 DEF Accounted, Decremented, properties
<1>18. Calls'
  <2> SUFFICES ASSUME NEW d \in Threads
               PROVE  /\ (pSample[d] # NoSample)' <=> pc'[d] \in {"got", "releasing", "final"}
                      /\ pSample'[d] # NoSample => pSample'[d] \notin holds'[d]
                      /\ pc'[d] \in {"got", "final"} => With(pSample[d])' = {d}
                      /\ pc'[d] = "releasing" /\ lRef'[d] = 1 => CountedBy(pSample[d])' = {d}
                      /\ bRelease'[d] => pc'[d] \in {"notify", "decommitted"}
                      /\ pc'[d] \in {"waiting", "woken", "decommitted"} => d \in owners'
    BY Zenon DEF Calls
  <2>1. bRelease' = bRelease /\ owners' = owners
    BY <1>4 DEF Decremented, life
  <2>2. CASE d = c
    BY <1>1, <1>2, <1>7, <1>13, <2>1, <2>2 DEF Calls, Samples, NoSample
  <2>3. CASE d # c
    <3>1. pc[d] \in {"got", "releasing", "final"} => pSample[d] \in Samples
      BY DEF Calls, TypeOK
    <3>2. pc[d] = "releasing" /\ lRef[d] = 1 => pSample[d] # s
      BY <1>5, <2>3 DEF Calls
    <3> QED BY <1>7, <1>9, <1>10, <1>12, <2>1, <2>3, <3>1, <3>2 DEF Calls
  <2> QED BY <2>2, <2>3
<1>19. Phases' /\ References' /\ NoLostWakeup'
  BY <1>4, <1>15 DEF Decremented, Phases, References, InUse, NoLostWakeup, properties, state,
                     life, signal
<1> QED BY <1>8, <1>15, <1>16, <1>17, <1>18, <1>19

LEMMA ReleaseBufferInv ==
  ASSUME NEW c \in Threads, AllocatorInv, ReleaseBuffer(c)
  PROVE  AllocatorInv' /\ Given
<1> USE DEF AllocatorInv, Given
<1>1. /\ pSample[c] \in Samples /\ pSample[c] \notin holds[c] /\ pc[c] = "final"
      /\ With(pSample[c]) = {c}
  BY DEF ReleaseBuffer, Calls, TypeOK
<1>2. PICK s \in Samples : s = pSample[c]
  BY <1>1
<1>3. /\ holds' = holds /\ pc'[c] = "notify" /\ pSample'[c] = NoSample /\ lRef' = lRef
      /\ \A d \in Threads \ {c} : /\ pc'[d] = pc[d] /\ pSample'[d] = pSample[d]
                                 /\ bRelease'[d] = bRelease[d]
      /\ bRelease'[c] = CompletesDecommit
  BY DEF ReleaseBuffer, TypeOK
<1>4. \A d \in Threads : s \notin holds[d] /\ (pSample[d] = s => d = c)
  BY <1>1, <1>2 DEF With, Calls, TypeOK
<1>5. With(s)' = {} /\ \A t \in Samples \ {s} : With(t)' = With(t)
  <2>1. s # NoSample
    BY DEF Samples, NoSample
  <2> QED BY <1>1, <1>2, <1>3, <1>4, <2>1 DEF With
<1>6. \A t \in Samples : CountedBy(t)' = CountedBy(t)
  BY <1>1, <1>3 DEF CountedBy
<1>7. OutSamples' = OutSamples \ {s} /\ s \in OutSamples
  <2>1. \A t \in Samples : t \in OutSamples' <=> t \in OutSamples /\ t # s
    BY <1>5 DEF OutSamples
  <2>2. s \in OutSamples
    BY <1>1, <1>2 DEF OutSamples
  <2> QED BY <2>1, <2>2, SetTypes
<1>8. /\ m_lFree' \in Seq(Samples) /\ Len(m_lFree') = Len(m_lFree) + 1 /\ m_lFree'[1] = s
      /\ \A i \in DOMAIN m_lFree' : i # 1 => i - 1 \in DOMAIN m_lFree /\ m_lFree'[i] = m_lFree[i - 1]
      /\ DOMAIN m_lFree' = 1 .. (Len(m_lFree) + 1)
  <2>1. m_lFree' = <<s>> \o m_lFree
    BY <1>2 DEF ReleaseBuffer
  <2> QED BY <2>1 DEF TypeOK
<1>9. TypeOK'
  <2>1. CompletesDecommit \in BOOLEAN
    BY Zenon DEF CompletesDecommit
  <2>2. m_bDecommitInProgress' \in BOOLEAN /\ bRelease' \in [Threads -> BOOLEAN]
    BY <2>1 DEF ReleaseBuffer, TypeOK
  <2>3. m_hSem' \in Nat /\ m_lWaiting' \in Nat /\ polls' \in Nat
    BY DEF ReleaseBuffer, NotifySample, TypeOK
  <2> QED BY <1>8, <2>2, <2>3 DEF ReleaseBuffer, TypeOK, properties, life
<1>10. CountedBy(s) = {}
  BY <1>1, <1>4, <1>2 DEF CountedBy
<1>11. SampleOnce'
  <2>1. m_cRef' = m_cRef /\ m_cRef[s] = 0
    BY <1>10, FS_EmptySet DEF ReleaseBuffer, SampleOnce
  <2>2. \A t \in Samples : m_cRef'[t] = Cardinality(CountedBy(t))'
    BY <1>6, <2>1 DEF SampleOnce
  <2>3. \A i \in DOMAIN m_lFree : /\ With(m_lFree[i]) = {} /\ m_cRef[m_lFree[i]] = 0
                               /\ m_lFree[i] \in Samples \ {s}
    <3>1. With(s) # {}
      BY <1>1, <1>2
    <3>2. \A i \in DOMAIN m_lFree : m_lFree[i] \in Samples
      BY DEF TypeOK
    <3>3. \A i \in DOMAIN m_lFree : With(m_lFree[i]) = {} /\ m_cRef[m_lFree[i]] = 0
      BY DEF SampleOnce
    <3> QED BY <3>1, <3>2, <3>3
  <2>4. \A i \in DOMAIN m_lFree' : With(m_lFree[i])' = {} /\ m_cRef'[m_lFree'[i]] = 0
    BY <1>5, <1>8, <2>1, <2>3
  <2>5. \A i, j \in DOMAIN m_lFree : m_lFree[i] = m_lFree[j] => i = j
    BY DEF SampleOnce
  <2>6. \A i, j \in DOMAIN m_lFree' : m_lFree'[i] = m_lFree'[j] => i = j
    BY <1>8, <2>3, <2>5
  <2> QED BY <2>2, <2>4, <2>6 DEF SampleOnce
<1>12. /\ Cardinality(OutSamples)' = Cardinality(OutSamples) - 1
       /\ Cardinality(OutSamples) \in Nat
  BY <1>7, SampleCounts, SetTypes DEF Counts
<1>13. Accounted'
  <2>1. m_lAllocated' = m_lAllocated /\ m_lAllocated \in Nat /\ Len(m_lFree) \in Nat
    BY DEF ReleaseBuffer, properties, TypeOK
  <2>2. Len(m_lFree') + Cardinality(OutSamples)' = m_lAllocated'
    BY <1>8, <1>12, <2>1 DEF Accounted
  <2>3. \A i \in DOMAIN m_lFree' : m_lFree'[i] <= m_lAllocated'
    BY <1>7, <1>8, <2>1 DEF Accounted
  <2> QED BY <1>7, <2>1, <2>2, <2>3 DEF Accounted
<1>14. CompletesDecommit <=> m_bDecommitInProgress /\ OutSamples' = {}
  <2>1. OutSamples' \in SUBSET Samples
    BY SetTypes
  <2>2. Cardinality(OutSamples)' = 0 <=> OutSamples' = {}
    BY <2>1, SampleCounts DEF Counts
  <2> QED BY <1>12, <2>2 DEF CompletesDecommit, Accounted, TypeOK
<1>15. Phases'
  <2>1. InUse' <=> InUse /\ ~CompletesDecommit
    BY DEF InUse, ReleaseBuffer, Phases, CompletesDecommit
  <2>2. OutSamples' # {} => InUse /\ ~CompletesDecommit
    BY <1>7, <1>14 DEF Phases
  <2>3. m_bDecommitInProgress' => OutSamples' # {}
    BY <1>14 DEF ReleaseBuffer
  <2> QED BY <2>1, <2>2, <2>3 DEF Phases, ReleaseBuffer, NotifySample, properties, life
<1>16. References'
  <2>1. c \notin Releasing
    BY <1>1 DEF Releasing, Calls
  <2>2. Cardinality(Releasing) \in Nat /\ Cardinality(Releasing \cup {c}) = Cardinality(Releasing) + 1
    BY <2>1, ThreadCounts, SetTypes DEF Counts
  <2>3. owners' = owners /\ m_cAllocatorRef' = m_cAllocatorRef /\ Cardinality(owners) \in Nat
    BY ThreadCounts DEF ReleaseBuffer, life, Counts, TypeOK
  <2>4. CASE CompletesDecommit
    <3>1. Releasing' = Releasing \cup {c}
      BY <1>3, <2>4 DEF Releasing
    <3>2. InUse /\ ~InUse'
      BY <2>4 DEF InUse, ReleaseBuffer, Phases, CompletesDecommit
    <3> QED BY <2>2, <2>3, <3>1, <3>2 DEF References
  <2>5. CASE ~CompletesDecommit
    <3>1. Releasing' = Releasing
      BY <1>3, <2>1, <2>5 DEF Releasing
    <3>2. InUse' <=> InUse
      BY <2>5 DEF InUse, ReleaseBuffer
    <3> QED BY <2>3, <3>1, <3>2 DEF References
  <2> QED BY <2>4, <2>5
<1>17. NoLostWakeup'
  <2>1. Waiting' = Waiting
    BY <1>1, <1>3 DEF Waiting
  <2>2. m_lWaiting \in Nat /\ m_hSem \in Nat
    BY DEF TypeOK
  <2> QED BY <2>1, <2>2 DEF NoLostWakeup, ReleaseBuffer, NotifySample
<1>18. Calls'
  <2> SUFFICES ASSUME NEW d \in Threads
               PROVE  /\ (pSample[d] # NoSample)' <=> pc'[d] \in {"got", "releasing", "final"}
                      /\ pSample'[d] # NoSample => pSample'[d] \notin holds'[d]
                      /\ pc'[d] \in {"got", "final"} => With(pSample[d])' = {d}
                      /\ pc'[d] = "releasing" /\ lRef'[d] = 1 => CountedBy(pSample[d])' = {d}
                      /\ bRelease'[d] => pc'[d] \in {"notify", "decommitted"}
                      /\ pc'[d] \in {"waiting", "woken", "decommitted"} => d \in owners'
    BY Zenon DEF Calls
  <2>1. owners' = owners
    BY DEF ReleaseBuffer, life
  <2>2. CASE d = c
    BY <1>3, <2>1, <2>2 DEF Calls
  <2>3. CASE d # c
    <3>1. pc[d] \in {"got", "releasing", "final"} => pSample[d] \in Samples \ {s}
      BY <1>4, <2>3 DEF Calls, TypeOK
    <3> QED BY <1>3, <1>5, <1>6, <2>1, <2>3, <3>1 DEF Calls
  <2> QED BY <2>2, <2>3
<1> QED BY <1>7, <1>9, <1>11, <1>13, <1>15, <1>16, <1>17, <1>18

-----------------------------------------------------------------------------
(* The life of the allocator and the phases of its use. *)

(* A reference that was there is given up, and with the last one what the  *)
(* allocator has.                                                          *)
LEMMA AllocatorReleased ==
  ASSUME AllocatorInv, ReleaseAllocator, m_cAllocatorRef > 0, References', Waiting' = Waiting,
         owners' \subseteq Threads, UNCHANGED <<m_lCount, m_bChanged, state, signal, m_cRef>>,
         \A s \in Samples : With(s)' = With(s) /\ CountedBy(s)' = CountedBy(s)
  PROVE  /\ SampleOnce' /\ Accounted' /\ Phases' /\ NoLostWakeup'
         /\ m_lFree' \in Seq(Samples) /\ m_lAllocated' \in 0 .. MaxBuffers
         /\ m_cAllocatorRef' \in Nat
<1> USE DEF AllocatorInv
<1>1. m_cAllocatorRef' = m_cAllocatorRef - 1 /\ m_cAllocatorRef' \in Nat
  BY DEF ReleaseAllocator, TypeOK
<1>2. OutSamples' = OutSamples /\ (InUse' <=> InUse)
  BY DEF OutSamples, InUse, state
<1>3. \A t \in Samples : m_cRef'[t] = Cardinality(CountedBy(t))'
  BY DEF SampleOnce
<1>4. CASE m_cAllocatorRef = 1
  <2>1. m_lFree' = <<>> /\ m_lAllocated' = 0 /\ Len(m_lFree') = 0 /\ DOMAIN m_lFree' = {}
    BY <1>4 DEF ReleaseAllocator
  <2>2. ~InUse
    <3>1. Cardinality(owners') \in Nat
      BY ThreadCounts DEF Counts
    <3>2. Cardinality(Releasing') \in Nat
      BY ThreadCounts DEF Counts, Releasing
    <3> QED BY <1>1, <1>2, <1>4, <3>1, <3>2 DEF References
  <2>3. OutSamples' = {} /\ Cardinality(OutSamples') = 0
    BY <1>2, <2>2, FS_EmptySet DEF Phases
  <2>4. SampleOnce'
    BY <1>3, <2>1 DEF SampleOnce
  <2>5. Accounted'
    BY <2>1, <2>3 DEF Accounted
  <2>6. Phases' /\ NoLostWakeup'
    BY <1>1, <1>2, <1>4, <2>1, <2>3 DEF Phases, InUse, NoLostWakeup, state, signal
  <2> QED BY <1>1, <2>1, <2>4, <2>5, <2>6, AllocatorAssumption
<1>5. CASE m_cAllocatorRef # 1
  <2>1. UNCHANGED <<m_lFree, m_lAllocated>>
    BY <1>5 DEF ReleaseAllocator
  <2>2. SampleOnce' /\ Accounted'
    BY <2>1, SamplesStay
  <2>3. Phases' /\ NoLostWakeup'
    BY <1>2, <2>1 DEF Phases, InUse, NoLostWakeup, state, signal
  <2> QED BY <1>1, <2>1, <2>2, <2>3 DEF TypeOK
<1> QED BY <1>4, <1>5

LEMMA EndReleaseBufferInv ==
  ASSUME NEW c \in Threads, AllocatorInv, EndReleaseBuffer(c)
  PROVE  AllocatorInv' /\ Kept
<1> USE DEF AllocatorInv, Kept
<1>1. /\ pc[c] \in {"notify", "decommitted"} /\ pc'[c] = "idle" /\ ~bRelease'[c]
      /\ pSample' = pSample /\ holds' = holds /\ lRef' = lRef /\ owners' = owners
      /\ \A d \in Threads \ {c} : pc'[d] = pc[d] /\ bRelease'[d] = bRelease[d]
  BY DEF EndReleaseBuffer, TypeOK
<1>2. \A s \in Samples : With(s)' = With(s) /\ CountedBy(s)' = CountedBy(s)
  BY <1>1 DEF With, CountedBy
<1>3. Waiting' = Waiting /\ Releasing' = Releasing \ {c}
  BY <1>1 DEF Waiting, Releasing
<1>4. OutSamples' = OutSamples /\ (InUse' <=> InUse)
  BY <1>2 DEF OutSamples, InUse, EndReleaseBuffer, state
<1>5. Calls'
  <2> SUFFICES ASSUME NEW d \in Threads
               PROVE  /\ (pSample[d] # NoSample)' <=> pc'[d] \in {"got", "releasing", "final"}
                      /\ pSample'[d] # NoSample => pSample'[d] \notin holds'[d]
                      /\ pc'[d] \in {"got", "final"} => With(pSample[d])' = {d}
                      /\ pc'[d] = "releasing" /\ lRef'[d] = 1 => CountedBy(pSample[d])' = {d}
                      /\ bRelease'[d] => pc'[d] \in {"notify", "decommitted"}
                      /\ pc'[d] \in {"waiting", "woken", "decommitted"} => d \in owners'
    BY Zenon DEF Calls
  <2>1. pSample[c] = NoSample
    BY <1>1 DEF Calls
  <2>2. CASE d = c
    BY <1>1, <2>1, <2>2 DEF Calls
  <2>3. CASE d # c
    <3>1. pc[d] \in {"got", "releasing", "final"} => pSample[d] \in Samples
      BY DEF Calls, TypeOK
    <3> QED BY <1>1, <1>2, <2>3, <3>1 DEF Calls
  <2> QED BY <2>2, <2>3
<1>6. CASE bRelease[c]
  <2>1. ReleaseAllocator /\ c \in Releasing
    BY <1>6 DEF EndReleaseBuffer, Releasing
  <2>2. /\ Cardinality(Releasing') = Cardinality(Releasing) - 1
        /\ Cardinality(Releasing) \in Nat /\ Cardinality(Releasing') \in Nat
        /\ Cardinality(owners) \in Nat
    <3>1. Releasing \in SUBSET Threads /\ Releasing' \in SUBSET Threads /\ owners \in SUBSET Threads
      BY DEF Releasing, TypeOK
    <3> QED BY <1>3, <2>1, <3>1, ThreadCounts DEF Counts
  <2>3. m_cAllocatorRef' = m_cAllocatorRef - 1
    BY <2>1 DEF ReleaseAllocator
  <2>4. References' /\ m_cAllocatorRef > 0
    BY <1>1, <1>4, <2>2, <2>3 DEF References
  <2>5. /\ SampleOnce' /\ Accounted' /\ Phases' /\ NoLostWakeup'
        /\ m_lFree' \in Seq(Samples) /\ m_lAllocated' \in 0 .. MaxBuffers
        /\ m_cAllocatorRef' \in Nat
    BY <1>1, <1>2, <1>3, <2>1, <2>4, AllocatorReleased DEF EndReleaseBuffer, TypeOK
  <2>6. TypeOK'
    BY <2>5 DEF EndReleaseBuffer, TypeOK, state, signal
  <2> QED BY <1>4, <1>5, <2>4, <2>5, <2>6
<1>7. CASE ~bRelease[c]
  <2>1. UNCHANGED <<m_cAllocatorRef, m_lFree, m_lAllocated>>
    BY <1>7 DEF EndReleaseBuffer
  <2>2. Releasing' = Releasing
    BY <1>3, <1>7 DEF Releasing
  <2>3. TypeOK'
    BY <2>1 DEF EndReleaseBuffer, TypeOK, state, signal
  <2>4. SampleOnce' /\ Accounted'
    BY <1>2, <2>1, SamplesStay DEF EndReleaseBuffer
  <2>5. Phases' /\ References' /\ NoLostWakeup'
    BY <1>1, <1>3, <1>4, <2>1, <2>2 DEF EndReleaseBuffer, Phases, References, InUse,
                                        NoLostWakeup, state, signal
  <2> QED BY <1>4, <1>5, <2>3, <2>4, <2>5
<1> QED BY <1>6, <1>7

LEMMA DisconnectInv ==
  ASSUME NEW c \in Threads, AllocatorInv, Disconnect(c)
  PROVE  AllocatorInv' /\ Kept
<1> USE DEF AllocatorInv, Kept
<1>1. /\ c \in owners /\ pc[c] = "idle" /\ owners' = owners \ {c} /\ ReleaseAllocator
      /\ UNCHANGED <<pc, pSample, lRef, bRelease, holds>>
  BY DEF Disconnect, Ready, calls
<1>2. \A s \in Samples : With(s)' = With(s) /\ CountedBy(s)' = CountedBy(s)
  BY <1>1 DEF With, CountedBy
<1>3. Waiting' = Waiting /\ Releasing' = Releasing
  BY <1>1 DEF Waiting, Releasing
<1>4. /\ Cardinality(owners') = Cardinality(owners) - 1
      /\ Cardinality(owners) \in Nat /\ Cardinality(owners') \in Nat
      /\ Cardinality(Releasing) \in Nat
  <2>1. Releasing \in SUBSET Threads /\ owners \in SUBSET Threads /\ owners' \in SUBSET Threads
    BY <1>1 DEF Releasing, TypeOK
  <2> QED BY <1>1, <2>1, ThreadCounts DEF Counts
<1>5. References' /\ m_cAllocatorRef > 0
  <2>1. m_cAllocatorRef' = m_cAllocatorRef - 1 /\ (InUse' <=> InUse)
    BY <1>1 DEF ReleaseAllocator, InUse, Disconnect, state
  <2> QED BY <1>3, <1>4, <2>1 DEF References
<1>6. /\ SampleOnce' /\ Accounted' /\ Phases' /\ NoLostWakeup'
      /\ m_lFree' \in Seq(Samples) /\ m_lAllocated' \in 0 .. MaxBuffers
      /\ m_cAllocatorRef' \in Nat
  BY <1>1, <1>2, <1>3, <1>5, AllocatorReleased DEF Disconnect, TypeOK
<1>7. TypeOK'
  BY <1>1, <1>6 DEF Disconnect, TypeOK, state, signal
<1>8. Calls'
  <2> SUFFICES ASSUME NEW d \in Threads
               PROVE  /\ (pSample[d] # NoSample)' <=> pc'[d] \in {"got", "releasing", "final"}
                      /\ pSample'[d] # NoSample => pSample'[d] \notin holds'[d]
                      /\ pc'[d] \in {"got", "final"} => With(pSample[d])' = {d}
                      /\ pc'[d] = "releasing" /\ lRef'[d] = 1 => CountedBy(pSample[d])' = {d}
                      /\ bRelease'[d] => pc'[d] \in {"notify", "decommitted"}
                      /\ pc'[d] \in {"waiting", "woken", "decommitted"} => d \in owners'
    BY Zenon DEF Calls
  <2>1. pc[d] \in {"got", "releasing", "final"} => pSample[d] \in Samples
    BY DEF Calls, TypeOK
  <2> QED BY <1>1, <1>2, <2>1 DEF Calls
<1>9. OutSamples' = OutSamples
  BY <1>2 DEF OutSamples
<1> QED BY <1>5, <1>6, <1>7, <1>8, <1>9

LEMMA DecommitInv ==
  ASSUME NEW c \in Threads, AllocatorInv, Decommit(c)
  PROVE  AllocatorInv' /\ Kept
<1> USE DEF AllocatorInv, Kept
<1>1. /\ c \in owners /\ pc[c] = "idle" /\ pc'[c] = "decommitted" /\ InUse
      /\ pSample' = pSample /\ holds' = holds /\ lRef' = lRef /\ owners' = owners
      /\ \A d \in Threads \ {c} : pc'[d] = pc[d] /\ bRelease'[d] = bRelease[d]
      /\ bRelease'[c] <=> ~m_bDecommitInProgress'
      /\ ~m_bCommitted' /\ m_bDecommitInProgress' \in BOOLEAN
  <2>1. m_bDecommitInProgress' <=> Len(m_lFree) < m_lAllocated
    BY DEF Decommit
  <2>2. ~m_bCommitted' /\ m_bDecommitInProgress' \in BOOLEAN
    BY <2>1 DEF Decommit
  <2>3. bRelease' = [bRelease EXCEPT ![c] = ~m_bDecommitInProgress']
    BY Zenon DEF Decommit
  <2>4. bRelease'[c] <=> ~m_bDecommitInProgress'
    BY <2>3 DEF TypeOK
  <2>5. \A d \in Threads \ {c} : pc'[d] = pc[d] /\ bRelease'[d] = bRelease[d]
    BY <2>3 DEF Decommit, TypeOK
  <2> QED BY <2>2, <2>4, <2>5 DEF Decommit, Ready, TypeOK, InUse, life
<1>2. \A s \in Samples : With(s)' = With(s) /\ CountedBy(s)' = CountedBy(s)
  BY <1>1 DEF With, CountedBy
<1>3. Waiting' = Waiting
  BY <1>1 DEF Waiting
<1>4. SampleOnce' /\ Accounted' /\ OutSamples' = OutSamples
  BY <1>2, SamplesStay DEF Decommit, properties
<1>5. m_bDecommitInProgress' <=> OutSamples # {}
  <2>1. Cardinality(OutSamples) \in Nat /\ (Cardinality(OutSamples) = 0 <=> OutSamples = {})
    BY SampleCounts, SetTypes DEF Counts
  <2>2. Len(m_lFree) \in Nat /\ m_lAllocated \in Nat
    BY DEF TypeOK
  <2>3. m_bDecommitInProgress' <=> Len(m_lFree) < m_lAllocated
    BY DEF Decommit
  <2>4. Len(m_lFree) + Cardinality(OutSamples) = m_lAllocated
    BY DEF Accounted
  <2> QED BY <2>1, <2>2, <2>3, <2>4
<1>6. TypeOK'
  <2>1. m_hSem' \in Nat /\ m_lWaiting' \in Nat /\ polls' \in Nat
    BY DEF Decommit, NotifyOfDecommit, NotifySample, TypeOK
  <2>2. bRelease' \in [Threads -> BOOLEAN]
    BY <1>1 DEF Decommit, TypeOK
  <2>3. m_bCommitted' \in BOOLEAN
    BY Zenon DEF Decommit
  <2> QED BY <1>1, <2>1, <2>2, <2>3 DEF Decommit, TypeOK, properties, life
<1>7. Phases'
  BY <1>1, <1>4, <1>5 DEF Phases, InUse, Decommit, NotifyOfDecommit, NotifySample, properties, life
<1>8. References'
  <2>1. c \notin Releasing
    BY <1>1 DEF Releasing, Calls
  <2>2. Cardinality(Releasing) \in Nat /\ Cardinality(Releasing \cup {c}) = Cardinality(Releasing) + 1
    BY <2>1, ThreadCounts, SetTypes DEF Counts
  <2>3. m_cAllocatorRef' = m_cAllocatorRef /\ Cardinality(owners) \in Nat
    BY ThreadCounts DEF Decommit, life, Counts, TypeOK
  <2>4. CASE m_bDecommitInProgress'
    <3>1. Releasing' = Releasing /\ InUse'
      BY <1>1, <2>1, <2>4 DEF Releasing, InUse
    <3> QED BY <1>1, <2>3, <3>1 DEF References
  <2>5. CASE ~m_bDecommitInProgress'
    <3>1. Releasing' = Releasing \cup {c} /\ ~InUse'
      BY <1>1, <2>5 DEF Releasing, InUse
    <3> QED BY <1>1, <2>2, <2>3, <3>1 DEF References
  <2> QED BY <2>4, <2>5
<1>9. NoLostWakeup'
  <2>1. m_lWaiting \in Nat /\ m_hSem \in Nat
    BY DEF TypeOK
  <2> QED BY <1>3, <2>1 DEF NoLostWakeup, Decommit, NotifyOfDecommit, NotifySample
<1>10. Calls'
  <2> SUFFICES ASSUME NEW d \in Threads
               PROVE  /\ (pSample[d] # NoSample)' <=> pc'[d] \in {"got", "releasing", "final"}
                      /\ pSample'[d] # NoSample => pSample'[d] \notin holds'[d]
                      /\ pc'[d] \in {"got", "final"} => With(pSample[d])' = {d}
                      /\ pc'[d] = "releasing" /\ lRef'[d] = 1 => CountedBy(pSample[d])' = {d}
                      /\ bRelease'[d] => pc'[d] \in {"notify", "decommitted"}
                      /\ pc'[d] \in {"waiting", "woken", "decommitted"} => d \in owners'
    BY Zenon DEF Calls
  <2>1. CASE d = c
    BY <1>1, <2>1 DEF Calls
  <2>2. CASE d # c
    <3>1. pc[d] \in {"got", "releasing", "final"} => pSample[d] \in Samples
      BY DEF Calls, TypeOK
    <3> QED BY <1>1, <1>2, <2>2, <3>1 DEF Calls
  <2> QED BY <2>1, <2>2
<1> QED BY <1>4, <1>6, <1>7, <1>8, <1>9, <1>10

LEMMA CommitInv ==
  ASSUME NEW c \in Threads, AllocatorInv, Commit(c)
  PROVE  AllocatorInv' /\ Kept
<1> USE DEF AllocatorInv, Kept
<1>1. /\ c \in owners /\ ~m_bCommitted
      /\ UNCHANGED <<m_lWaiting, m_hSem, polls, owners, pc, pSample, lRef, bRelease, holds>>
  BY DEF Commit, Ready, signal, calls
<1>2. \A s \in Samples : With(s)' = With(s) /\ CountedBy(s)' = CountedBy(s)
  BY <1>1 DEF With, CountedBy
<1>3. Waiting' = Waiting /\ Releasing' = Releasing /\ OutSamples' = OutSamples
  BY <1>1, <1>2 DEF Waiting, Releasing, OutSamples
<1>4. Calls'
  <2> SUFFICES ASSUME NEW d \in Threads
               PROVE  /\ (pSample[d] # NoSample)' <=> pc'[d] \in {"got", "releasing", "final"}
                      /\ pSample'[d] # NoSample => pSample'[d] \notin holds'[d]
                      /\ pc'[d] \in {"got", "final"} => With(pSample[d])' = {d}
                      /\ pc'[d] = "releasing" /\ lRef'[d] = 1 => CountedBy(pSample[d])' = {d}
                      /\ bRelease'[d] => pc'[d] \in {"notify", "decommitted"}
                      /\ pc'[d] \in {"waiting", "woken", "decommitted"} => d \in owners'
    BY Zenon DEF Calls
  <2>1. pc[d] \in {"got", "releasing", "final"} => pSample[d] \in Samples
    BY DEF Calls, TypeOK
  <2> QED BY <1>1, <1>2, <2>1 DEF Calls
<1>5. /\ Cardinality(owners) \in Nat /\ Cardinality(owners) # 0 /\ Cardinality(Releasing) \in Nat
  <2>1. Releasing \in SUBSET Threads /\ owners \in SUBSET Threads
    BY DEF Releasing, TypeOK
  <2> QED BY <1>1, <2>1, ThreadCounts DEF Counts
<1>6. m_lWaiting = 0 /\ m_cAllocatorRef > 0
  BY <1>1, <1>5 DEF Phases, References
<1>7. NoLostWakeup'
  BY <1>1, <1>3, <1>6 DEF NoLostWakeup
<1>8. CASE CancelDecommit
  <2>1. TypeOK'
    BY <1>1, <1>8 DEF CancelDecommit, TypeOK, properties
  <2>2. SampleOnce' /\ Accounted'
    BY <1>2, <1>8, SamplesStay DEF CancelDecommit, properties
  <2>3. InUse /\ InUse'
    BY <1>8 DEF CancelDecommit, InUse
  <2>4. Phases' /\ References'
    BY <1>1, <1>3, <1>8, <2>3 DEF CancelDecommit, Phases, References, InUse, properties
  <2> QED BY <1>3, <1>4, <1>7, <2>1, <2>2, <2>4
<1>9. CASE AllocAgain
  <2>1. TypeOK'
    BY <1>1, <1>9 DEF AllocAgain, TypeOK, properties
  <2>2. SampleOnce' /\ Accounted'
    BY <1>2, <1>9, SamplesStay DEF AllocAgain, properties
  <2>3. ~InUse /\ InUse' /\ ~m_bDecommitInProgress'
    BY <1>1, <1>9 DEF AllocAgain, InUse
  <2>4. Phases'
    BY <1>1, <1>3, <1>6, <1>9, <2>3 DEF AllocAgain, Phases, InUse, properties
  <2>5. References'
    BY <1>1, <1>3, <1>5, <1>9, <2>3 DEF AllocAgain, References
  <2> QED BY <1>3, <1>4, <1>7, <2>1, <2>2, <2>4, <2>5
<1>10. ASSUME NEW k \in 0 .. m_lCount, Alloc(k) PROVE AllocatorInv' /\ Kept
  <2>1. OutSamples = {} /\ ~InUse /\ ~m_bDecommitInProgress /\ ~m_bDecommitInProgress'
    BY <1>1, <1>10 DEF Alloc, Phases, InUse
  <2>2. k \in Nat /\ k <= MaxBuffers /\ m_lCount \in Nat
    BY AllocatorAssumption DEF TypeOK
  <2>3. /\ m_lFree' \in Seq(Samples) /\ Len(m_lFree') = k /\ m_lAllocated' = k
        /\ DOMAIN m_lFree' = 1 .. k /\ \A i \in 1 .. k : m_lFree'[i] = k + 1 - i
        /\ m_cRef' = [s \in Samples |-> 0] /\ m_lCount' = m_lCount
    BY <1>10, <2>2, AllocatorAssumption DEF Alloc, Samples
  <2>4. /\ m_bCommitted' <=> k = m_lCount
        /\ m_bChanged' <=> k # m_lCount
        /\ m_cAllocatorRef' = m_cAllocatorRef + (IF k = m_lCount THEN 1 ELSE 0)
        /\ m_lCount > 0
    <3>1. m_bChanged /\ m_lCount > 0 /\ m_cAllocatorRef \in Nat
      BY <1>10 DEF Alloc, TypeOK
    <3>2. CASE k = m_lCount
      BY <1>10, <3>1, <3>2 DEF Alloc
    <3>3. CASE k # m_lCount
      <4>1. UNCHANGED <<m_bChanged, m_bCommitted, m_cAllocatorRef>>
        BY <1>10, <3>3 DEF Alloc
      <4> QED BY <1>1, <3>1, <3>3, <4>1
    <3> QED BY <3>2, <3>3
  <2>5. TypeOK'
    <3>1. m_bChanged' \in BOOLEAN /\ m_bCommitted' \in BOOLEAN
      BY <1>10, Zenon DEF Alloc, TypeOK
    <3>2. m_cAllocatorRef' \in Nat /\ m_lAllocated' \in 0 .. MaxBuffers
      <4>1. m_cAllocatorRef \in Nat
        BY DEF TypeOK
      <4> QED BY <2>2, <2>3, <2>4, <4>1, AllocatorAssumption
    <3>3. m_bDecommitInProgress' \in BOOLEAN
      BY <1>10 DEF Alloc, TypeOK
    <3>4. m_cRef' \in [Samples -> Nat]
      BY <2>3
    <3> QED BY <1>1, <2>3, <3>1, <3>2, <3>3, <3>4 DEF TypeOK
  <2>6. \A t \in Samples : With(t)' = {} /\ CountedBy(t)' = {}
    BY <1>2, <2>1 DEF OutSamples, With, CountedBy
  <2>7. SampleOnce'
    <3>1. \A i \in 1 .. k : m_lFree'[i] \in Samples
      BY <2>3
    <3>2. \A i, j \in 1 .. k : m_lFree'[i] = m_lFree'[j] => i = j
      BY <2>2, <2>3
    <3>3. \A t \in Samples : m_cRef'[t] = Cardinality(CountedBy(t))' /\ m_cRef'[t] = 0
      BY <2>3, <2>6, FS_EmptySet
    <3>4. \A i \in 1 .. k : With(m_lFree[i])' = {} /\ m_cRef'[m_lFree'[i]] = 0
      BY <2>6, <3>1, <3>3
    <3> QED BY <2>3, <3>2, <3>3, <3>4 DEF SampleOnce
  <2>8. Accounted'
    <3>1. Cardinality(OutSamples)' = 0 /\ OutSamples' = {}
      BY <1>3, <2>1, FS_EmptySet
    <3> QED BY <2>2, <2>3, <3>1 DEF Accounted
  <2>9. Phases'
    <3>1. InUse' <=> k = m_lCount
      BY <2>1, <2>4 DEF InUse
    <3>2. m_lWaiting' = 0 /\ OutSamples' = {}
      BY <1>1, <1>3, <1>6, <2>1
    <3> QED BY <2>1, <2>3, <2>4, <3>1, <3>2 DEF Phases
  <2>10. References'
    <3>1. InUse' <=> k = m_lCount
      BY <2>1, <2>4 DEF InUse
    <3>2. m_cAllocatorRef = Cardinality(owners) + Cardinality(Releasing)
      BY <1>5, <2>1 DEF References
    <3>3. Cardinality(owners)' = Cardinality(owners) /\ Cardinality(Releasing)' = Cardinality(Releasing)
      BY <1>1, <1>3
    <3> QED BY <1>5, <2>4, <3>1, <3>2, <3>3 DEF References
  <2> QED BY <1>3, <1>4, <1>7, <2>5, <2>7, <2>8, <2>9, <2>10
<1> QED BY <1>8, <1>9, <1>10 DEF Commit

-----------------------------------------------------------------------------
LEMMA AllocatorInvStep == AllocatorInv /\ [Next]_vars => AllocatorInv'
<1> SUFFICES ASSUME AllocatorInv, [Next]_vars PROVE AllocatorInv'
  OBVIOUS
<1>1. CASE UNCHANGED vars
  BY <1>1 DEF vars, properties, state, signal, life, calls, AllocatorInv, TypeOK, Calls,
              SampleOnce, Accounted, Phases, References, NoLostWakeup, With, CountedBy,
              OutSamples, InUse, Releasing, Waiting
<1>2. ASSUME NEW c \in Threads, GetBuffer(c) \/ GetBufferNoWait(c) PROVE AllocatorInv'
  BY <1>2, GetBufferInv, GetBufferNoWaitInv
<1>3. ASSUME NEW c \in Threads, InCall(c) PROVE AllocatorInv'
  BY <1>3, WaitInv, TryAgainInv, GotBufferInv, DecrementInv, ReleaseBufferInv,
     EndReleaseBufferInv DEF InCall
<1>4. ASSUME NEW c \in Threads, NEW d \in Threads, NEW s \in holds[c], PassOn(c, d, s)
      PROVE  AllocatorInv'
  BY <1>4, PassOnInv
<1>5. ASSUME NEW c \in Threads, NEW s \in holds[c], Release(c, s) PROVE AllocatorInv'
  BY <1>5, ReleaseInv
<1>6. ASSUME NEW c \in Threads, NEW n \in 1 .. MaxBuffers, SetProperties(c, n)
      PROVE  AllocatorInv'
  BY <1>6, SetPropertiesInv
<1>7. ASSUME NEW c \in Threads, Commit(c) \/ Decommit(c) \/ Disconnect(c) PROVE AllocatorInv'
  BY <1>7, CommitInv, DecommitInv, DisconnectInv
<1> QED BY <1>1, <1>2, <1>3, <1>4, <1>5, <1>6, <1>7 DEF Next

LEMMA AllocatorInvAlways == Spec => []AllocatorInv
BY AllocatorInvInit, AllocatorInvStep, PTL DEF Spec

(* The samples, the counts and the calls under way keep their types. *)
THEOREM AllocatorTypeOK == Spec => []TypeOK
<1>1. AllocatorInv => TypeOK
  BY DEF AllocatorInv
<1> QED BY <1>1, AllocatorInvAlways, PTL

(* The lazy signalling of the allocator (amfilter.h:1390-1426) loses no    *)
(* wakeup, for any number of threads and samples, with decommits and polls *)
(* in between.                                                             *)
THEOREM AllocatorNoLostWakeup == Spec => []NoLostWakeup
<1>1. AllocatorInv => NoLostWakeup
  BY DEF AllocatorInv
<1> QED BY <1>1, AllocatorInvAlways, PTL

(* No sample is lost, handed out twice or put back twice, though its count *)
(* is changed outside of the section.                                      *)
THEOREM AllocatorSampleOnce == Spec => []SampleOnce
<1>1. AllocatorInv => SampleOnce
  BY DEF AllocatorInv
<1> QED BY <1>1, AllocatorInvAlways, PTL

(* The allocator outlives its samples and its calls, but for the end of a  *)
(* ReleaseBuffer.                                                          *)
THEOREM AllocatorAliveWhileOut == Spec => []AliveWhileOut
<1>1. AllocatorInv => AliveWhileOut
  <2> SUFFICES ASSUME AllocatorInv, m_cAllocatorRef = 0
               PROVE  /\ OutSamples = {} /\ ~m_bCommitted
                      /\ \A c \in Threads : pc[c] = "idle" \/ (pc[c] = "notify" /\ ~bRelease[c])
    BY DEF AliveWhileOut
  <2> USE DEF AllocatorInv
  <2>1. /\ Cardinality(owners) \in Nat /\ Cardinality(Releasing) \in Nat
        /\ Cardinality(owners) = 0 <=> owners = {}
        /\ Cardinality(Releasing) = 0 <=> Releasing = {}
    <3>1. Releasing \in SUBSET Threads /\ owners \in SUBSET Threads
      BY DEF Releasing, TypeOK
    <3> QED BY <3>1, ThreadCounts DEF Counts
  <2>2. owners = {} /\ Releasing = {} /\ ~InUse
    BY <2>1 DEF References
  <2>3. OutSamples = {} /\ ~m_bCommitted
    BY <2>2 DEF Phases, InUse
  <2>4. ASSUME NEW c \in Threads
        PROVE  pc[c] = "idle" \/ (pc[c] = "notify" /\ ~bRelease[c])
    <3>1. pc[c] \notin {"waiting", "woken", "decommitted"} /\ ~bRelease[c]
      BY <2>2 DEF Calls, Releasing
    <3>2. pc[c] \notin {"got", "releasing", "final"}
      <4>1. pc[c] \in {"got", "releasing", "final"} => pSample[c] \in OutSamples
        BY DEF Calls, TypeOK, OutSamples, With
      <4> QED BY <2>3, <4>1
    <3> QED BY <3>1, <3>2 DEF TypeOK
  <2> QED BY <2>3, <2>4
<1> QED BY <1>1, AllocatorInvAlways, PTL

-----------------------------------------------------------------------------
(* Every step is one of the pool, or none. *)
LEMMA PoolStep == AllocatorInv /\ [Next]_vars => [Pool!Next]_(Pool!vars)
<1> SUFFICES ASSUME AllocatorInv, [Next]_vars PROVE Pool!Next \/ UNCHANGED Pool!vars
  BY DEF Pool!vars
<1> DEFINE Same == UNCHANGED <<m_lCount, m_lAllocated, m_bCommitted>>
<1>1. /\ m_lCount \in Nat /\ m_lAllocated \in Nat
      /\ OutSamples # {} => InUse
  BY DEF AllocatorInv, TypeOK, Phases
<1>2. Kept /\ Same => UNCHANGED Pool!vars
  BY DEF Kept, Pool!vars
<1>3. CASE UNCHANGED vars
  <2>1. Kept
    BY <1>3 DEF vars, calls, Kept, OutSamples, With
  <2> QED BY <1>2, <1>3, <2>1 DEF vars, properties, state
<1>4. ASSUME NEW c \in Threads, GetBuffer(c) \/ TryAgain(c) PROVE Pool!Next \/ UNCHANGED Pool!vars
  <2>1. Kept \/ Taken
    BY <1>4, GetBufferInv, TryAgainInv
  <2>2. Same
    BY <1>4 DEF GetBuffer, TryAgain, properties, state
  <2>3. Taken => m_bCommitted
    <3>1. CASE ~m_bCommitted
      <4>1. TryAgain(c)
        BY <1>4, <3>1 DEF GetBuffer
      <4>2. Kept
        <5>1. \A s \in Samples : With(s)' = With(s)
          BY <3>1, <4>1 DEF TryAgain, With, AllocatorInv, TypeOK
        <5> QED BY <5>1 DEF Kept, OutSamples
      <4> QED BY <4>2 DEF Kept, Taken
    <3> QED BY <3>1
  <2> QED BY <1>2, <2>1, <2>2, <2>3 DEF Taken, Pool!Next, Pool!Take
<1>5. ASSUME NEW c \in Threads, ReleaseBuffer(c) PROVE Pool!Next
  <2>1. Given
    BY <1>5, ReleaseBufferInv
  <2> QED BY <1>5, <2>1 DEF Given, ReleaseBuffer, properties, Pool!Next, Pool!Give
<1>6. ASSUME NEW c \in Threads,
             \/ GetBufferNoWait(c) \/ WaitForSingleObject(c) \/ GotBuffer(c) \/ Decrement(c)
             \/ \E s \in holds[c] : Release(c, s)
             \/ \E d \in Threads, s \in holds[c] : PassOn(c, d, s)
      PROVE  UNCHANGED Pool!vars
  <2>1. Kept
    BY <1>6, GetBufferNoWaitInv, WaitInv, GotBufferInv, DecrementInv, ReleaseInv, PassOnInv
  <2>2. Same
    BY <1>6 DEF GetBufferNoWait, WaitForSingleObject, GotBuffer, Decrement, Decremented, Release,
                PassOn, properties, state
  <2> QED BY <1>2, <2>1, <2>2
<1>7. ASSUME NEW c \in Threads, EndReleaseBuffer(c) \/ Disconnect(c)
      PROVE  Pool!Next \/ UNCHANGED Pool!vars
  <2>1. Kept /\ AllocatorInv'
    BY <1>7, EndReleaseBufferInv, DisconnectInv
  <2>2. UNCHANGED <<m_lCount, m_bCommitted, m_bDecommitInProgress>>
    BY <1>7 DEF EndReleaseBuffer, Disconnect, state
  <2>3. CASE m_lAllocated' = m_lAllocated
    BY <1>2, <2>1, <2>2, <2>3
  <2>4. CASE m_lAllocated' # m_lAllocated
    <3>1. m_lAllocated' = 0 /\ m_cAllocatorRef' = 0
      BY <1>7, <2>4 DEF EndReleaseBuffer, Disconnect, ReleaseAllocator
    <3>2. ~m_bCommitted /\ OutSamples = {}
      <4>1. Cardinality(owners') \in Nat /\ Cardinality(Releasing') \in Nat
        <5>1. Releasing' \in SUBSET Threads /\ owners' \in SUBSET Threads
          BY <2>1 DEF Releasing, AllocatorInv, TypeOK
        <5> QED BY <5>1, ThreadCounts DEF Counts
      <4>2. ~InUse'
        BY <2>1, <3>1, <4>1 DEF AllocatorInv, References
      <4> QED BY <1>1, <2>2, <4>2 DEF InUse
    <3> QED BY <2>1, <2>2, <3>1, <3>2 DEF Kept, Pool!Next, Pool!Resize
  <2> QED BY <2>3, <2>4
<1>8. ASSUME NEW c \in Threads, NEW n \in 1 .. MaxBuffers, SetProperties(c, n) PROVE Pool!Next
  <2>1. Kept
    BY <1>8, SetPropertiesInv
  <2>2. OutSamples = {} /\ n \in Nat
    BY <1>8, NoneOut DEF SetProperties, AllocatorInv
  <2> QED BY <1>8, <2>1, <2>2 DEF Kept, SetProperties, state, Pool!Next, Pool!Agree
<1>9. ASSUME NEW c \in Threads, Decommit(c) PROVE Pool!Next \/ UNCHANGED Pool!vars
  <2>1. Kept /\ UNCHANGED <<m_lCount, m_lAllocated>> /\ ~m_bCommitted' /\ m_bCommitted' = FALSE
    BY <1>9, DecommitInv DEF Decommit, properties
  <2>2. CASE m_bCommitted
    BY <2>1, <2>2 DEF Kept, Pool!Next, Pool!Close
  <2>3. CASE ~m_bCommitted
    <3>1. m_bCommitted = FALSE
      BY <2>3, Zenon DEF AllocatorInv, TypeOK
    <3> QED BY <1>2, <2>1, <3>1
  <2> QED BY <2>2, <2>3
<1>10. ASSUME NEW c \in Threads, Commit(c) PROVE Pool!Next
  <2>1. Kept /\ AllocatorInv' /\ ~m_bCommitted
    BY <1>10, CommitInv DEF Commit
  <2>2. CASE CancelDecommit \/ AllocAgain
    <3>1. /\ m_bCommitted' = TRUE /\ UNCHANGED <<m_lCount, m_lAllocated>>
      BY <2>2 DEF CancelDecommit, AllocAgain, properties
    <3>2. m_lCount > 0 /\ m_lAllocated = m_lCount
      <4>1. m_cAllocatorRef > 0
        <5>1. Cardinality(owners) \in Nat /\ Cardinality(Releasing) \in Nat /\ Cardinality(owners) # 0
          <6>1. Releasing \in SUBSET Threads /\ owners \in SUBSET Threads /\ c \in owners
            BY <1>10 DEF Releasing, AllocatorInv, TypeOK, Commit, Ready
          <6> QED BY <6>1, ThreadCounts DEF Counts
        <5> QED BY <5>1 DEF AllocatorInv, References
      <4> QED BY <2>2, <4>1 DEF CancelDecommit, AllocAgain, AllocatorInv, Phases, InUse
    <3> QED BY <2>1, <3>1, <3>2 DEF Kept, Pool!Next, Pool!Open
  <2>3. ASSUME NEW k \in 0 .. m_lCount, Alloc(k) PROVE Pool!Next
    <3>1. OutSamples = {} /\ m_lAllocated' = k /\ k \in Nat /\ m_lCount' = m_lCount /\ m_lCount > 0
      BY <1>1, <2>1, <2>3 DEF Alloc, InUse
    <3>2. CASE k = m_lCount
      <4>1. m_bCommitted' = TRUE
        BY <2>3, <3>2 DEF Alloc
      <4> QED BY <2>1, <3>1, <3>2, <4>1 DEF Kept, Pool!Next, Pool!Open
    <3>3. CASE k # m_lCount
      <4>1. m_bCommitted' = m_bCommitted
        BY <2>3, <3>3 DEF Alloc
      <4> QED BY <2>1, <3>1, <4>1 DEF Kept, Pool!Next, Pool!Resize
    <3> QED BY <3>2, <3>3
  <2> QED BY <1>10, <2>2, <2>3 DEF Commit
<1> QED BY <1>3, <1>4, <1>5, <1>6, <1>7, <1>8, <1>9, <1>10 DEF Next, InCall

(* The allocator, with all its signalling and counting, is a pool that is  *)
(* resized only while none of its buffers is used and hands each to one    *)
(* user at a time: what the pins rely on (BufferPool).                     *)
THEOREM AllocatorImplementsPool == Spec => ImplementsPool
<1>1. Init => Pool!Init
  <2>1. Init => OutSamples = {}
    BY DEF Init, OutSamples, With
  <2> QED BY <2>1 DEF Init, Pool!Init
<1>2. AllocatorInv /\ [Next]_vars => [Pool!Next]_(Pool!vars)
  BY PoolStep
<1> QED BY <1>1, <1>2, AllocatorInvAlways, PTL DEF Spec, ImplementsPool, Pool!Spec
==============================================================================
