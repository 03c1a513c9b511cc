----------------------------- MODULE MemAllocator -----------------------------
(***************************************************************************)
(* CMemAllocator with its samples (CBaseAllocator, CMediaSample): the pool *)
(* that holds the frames and lines in transit between two filters.  The    *)
(* threads that use it take samples, pass them on and release them while   *)
(* others commit, decommit and resize the pool.  What is done under the    *)
(* allocator's critical section is one step; what a call does before it    *)
(* and after it are steps of their own.                                    *)
(*                                                                         *)
(* A sample is its place in the block of memory.  Sizes, alignment and     *)
(* timestamps are left out: a request is a number of buffers, and Alloc    *)
(* may fail for want of memory or for a bad size.  Nobody in this          *)
(* repository calls SetNotify.                                             *)
(***************************************************************************)
EXTENDS Integers, Sequences, FiniteSets

CONSTANTS
  Threads,     \* the threads that use the allocator
  MaxBuffers,  \* bound: buffers that a call of SetProperties asks for
  MaxPolls     \* bound: calls of GetBuffer with AM_GBF_NOWAIT that fail

ASSUME AllocatorAssumption ==
  /\ IsFiniteSet(Threads) /\ Threads # {}
  /\ MaxBuffers \in Nat \ {0} /\ MaxPolls \in Nat

Samples == 1 .. MaxBuffers
NoSample == 0

VARIABLES
  m_lCount,               \* how many buffers we have agreed to provide
  m_lAllocated,           \* how many there are
  m_bChanged,             \* SetProperties was called since the last Alloc
  m_lFree,                \* the free ones, the last released first
  m_bCommitted,
  m_bDecommitInProgress,
  m_lWaiting,             \* calls that wait and have not been notified
  m_hSem,                 \* the count of the semaphore
  m_cRef,                 \* the count of each sample
  owners,                 \* the threads that hold a reference to the allocator
  m_cAllocatorRef,        \* its count; at 0 it is deleted
  pc,                     \* where each thread is
  pSample,                \* the sample its call is about
  lRef,                   \* the count its Release has read
  bRelease,               \* its call will release the allocator
  holds,                  \* the samples it has been given and not released
  polls                   \* history: calls that left m_lWaiting raised

properties == <<m_lCount, m_lAllocated, m_bChanged>>
state == <<m_bCommitted, m_bDecommitInProgress>>
signal == <<m_lWaiting, m_hSem, polls>>
life == <<owners, m_cAllocatorRef>>
calls == <<pc, pSample, lRef, bRelease, holds>>
vars == <<properties, m_lFree, state, signal, m_cRef, life, calls>>

Init ==
  /\ m_lCount = 0 /\ m_lAllocated = 0 /\ m_bChanged = FALSE
  /\ m_lFree = <<>>
  /\ m_bCommitted = FALSE /\ m_bDecommitInProgress = FALSE
  /\ m_lWaiting = 0 /\ m_hSem = 0 /\ polls = 0
  /\ m_cRef = [s \in Samples |-> 0]
  /\ owners = Threads /\ m_cAllocatorRef = Cardinality(Threads)
  /\ pc = [c \in Threads |-> "idle"]
  /\ pSample = [c \in Threads |-> NoSample] /\ lRef = [c \in Threads |-> 0]
  /\ bRelease = [c \in Threads |-> FALSE]
  /\ holds = [c \in Threads |-> {}]

(* Between two calls, with a reference that allows another. *)
Ready(c) == pc[c] = "idle" /\ c \in owners

(* The list has every sample; a call may say so of a list to come. *)
AllFree == Len(m_lFree) = m_lAllocated

-----------------------------------------------------------------------------
(* GetBuffer, its section: a sample, or a wait that has been announced.    *)
(* With AM_GBF_NOWAIT it is announced, too, but nobody is going to wait.   *)
TakeSample(c) ==
  /\ m_lFree # <<>>
  /\ pSample' = [pSample EXCEPT ![c] = Head(m_lFree)]
  /\ m_lFree' = Tail(m_lFree)
  /\ pc' = [pc EXCEPT ![c] = "got"]
  /\ UNCHANGED signal

(* Mutant: the wait is announced after the section. *)
SetWaiting_Late(c) ==
  /\ m_lFree = <<>>
  /\ m_lWaiting' = m_lWaiting
  /\ pc' = [pc EXCEPT ![c] = "waiting"]
  /\ UNCHANGED <<m_hSem, polls, m_lFree, pSample>>

SetWaiting(c) ==
  /\ m_lFree = <<>>
  /\ m_lWaiting' = m_lWaiting + 1
  /\ pc' = [pc EXCEPT ![c] = "waiting"]
  /\ UNCHANGED <<m_hSem, polls, m_lFree, pSample>>

GetBuffer(c) ==
  /\ Ready(c) /\ m_bCommitted
  /\ TakeSample(c) \/ SetWaiting(c)
  /\ UNCHANGED <<properties, state, m_cRef, life, lRef, bRelease, holds>>

GetBufferNoWait(c) ==
  /\ Ready(c) /\ m_bCommitted
  /\ m_lFree = <<>> /\ polls < MaxPolls
  /\ m_lWaiting' = m_lWaiting + 1 /\ polls' = polls + 1
  /\ UNCHANGED <<m_hSem, properties, m_lFree, state, m_cRef, life, calls>>

WaitForSingleObject(c) ==
  /\ pc[c] = "waiting" /\ m_hSem > 0
  /\ m_hSem' = m_hSem - 1
  /\ pc' = [pc EXCEPT ![c] = "woken"]
  /\ UNCHANGED <<m_lWaiting, polls, properties, m_lFree, state, m_cRef, life,
                 pSample, lRef, bRelease, holds>>

(* The section once more; the pool may have been decommitted, and another  *)
(* may have come first.                                                    *)
TryAgain(c) ==
  /\ pc[c] = "woken"
  /\ IF m_bCommitted
     THEN TakeSample(c) \/ SetWaiting(c)
     ELSE /\ pc' = [pc EXCEPT ![c] = "idle"]
          /\ UNCHANGED <<signal, m_lFree, pSample>>
  /\ UNCHANGED <<properties, state, m_cRef, life, lRef, bRelease, holds>>

(* The count is set outside of the section. *)
GotBuffer(c) ==
  /\ pc[c] = "got"
  /\ m_cRef' = [m_cRef EXCEPT ![pSample[c]] = 1]
  /\ holds' = [holds EXCEPT ![c] = @ \cup {pSample[c]}]
  /\ pc' = [pc EXCEPT ![c] = "idle"] /\ pSample' = [pSample EXCEPT ![c] = NoSample]
  /\ UNCHANGED <<properties, m_lFree, state, signal, life, lRef, bRelease>>

-----------------------------------------------------------------------------
(* A sample is delivered to a filter that keeps it for a thread of its own. *)
PassOn(c, d, s) ==
  /\ pc[c] = "idle" /\ s \in holds[c]
  /\ pc[d] = "idle" /\ s \notin holds[d]
  /\ m_cRef' = [m_cRef EXCEPT ![s] = @ + 1]
  /\ holds' = [holds EXCEPT ![d] = @ \cup {s}]
  /\ UNCHANGED <<properties, m_lFree, state, signal, life, pc, pSample, lRef, bRelease>>

(* CMediaSample::Release reads the count, *)
Release(c, s) ==
  /\ pc[c] = "idle" /\ s \in holds[c]
  /\ lRef' = [lRef EXCEPT ![c] = m_cRef[s]]
  /\ pSample' = [pSample EXCEPT ![c] = s]
  /\ holds' = [holds EXCEPT ![c] = @ \ {s}]
  /\ pc' = [pc EXCEPT ![c] = "releasing"]
  /\ UNCHANGED <<properties, m_lFree, state, signal, m_cRef, life, bRelease>>

Decremented(c, n) ==
  /\ m_cRef' = [m_cRef EXCEPT ![pSample[c]] = n]
  /\ pc' = [pc EXCEPT ![c] = IF n = 0 THEN "final" ELSE "idle"]
  /\ pSample' = [pSample EXCEPT ![c] = IF n = 0 THEN @ ELSE NoSample]
  /\ lRef' = [lRef EXCEPT ![c] = 0]
  /\ UNCHANGED <<properties, m_lFree, state, signal, life, bRelease, holds>>

(* Mutant: no InterlockedDecrement. *)
Decrement_Plain(c) ==
  /\ pc[c] = "releasing"
  /\ Decremented(c, lRef[c] - 1)

(* and clears it if it was 1, without the interlocked instruction that any *)
(* other count is decremented by.                                          *)
Decrement(c) ==
  /\ pc[c] = "releasing"
  /\ Decremented(c, IF lRef[c] = 1 THEN 0 ELSE m_cRef[pSample[c]] - 1)

(***************************************************************************)
(* CBaseAllocator::ReleaseBuffer, its section: the sample is free, those   *)
(* who wait are told so, and the last one completes a decommit.            *)
(***************************************************************************)
NotifySample ==
  /\ m_hSem' = m_hSem + m_lWaiting /\ m_lWaiting' = 0
  /\ UNCHANGED polls

(* Mutant: a decommit is completed by any sample. *)
CompletesDecommit_Any == m_bDecommitInProgress

CompletesDecommit == m_bDecommitInProgress /\ Len(m_lFree) + 1 = m_lAllocated

ReleaseBuffer(c) ==
  /\ pc[c] = "final"
  /\ m_lFree' = <<pSample[c]>> \o m_lFree
  /\ NotifySample
  /\ m_bDecommitInProgress' = (m_bDecommitInProgress /\ ~CompletesDecommit)
  /\ bRelease' = [bRelease EXCEPT ![c] = CompletesDecommit]
  /\ pc' = [pc EXCEPT ![c] = "notify"] /\ pSample' = [pSample EXCEPT ![c] = NoSample]
  /\ UNCHANGED <<properties, m_bCommitted, m_cRef, life, lRef, holds>>

(* With the last reference the destructor finds nothing to decommit and    *)
(* deletes the samples.                                                    *)
ReleaseAllocator ==
  /\ m_cAllocatorRef' = m_cAllocatorRef - 1
  /\ IF m_cAllocatorRef = 1
     THEN m_lFree' = <<>> /\ m_lAllocated' = 0
     ELSE UNCHANGED <<m_lFree, m_lAllocated>>

(* After the section m_pNotify is read, and the allocator is released if   *)
(* the decommit is complete.                                               *)
EndReleaseBuffer(c) ==
  /\ pc[c] \in {"notify", "decommitted"}
  /\ IF bRelease[c]
     THEN ReleaseAllocator
     ELSE UNCHANGED <<m_cAllocatorRef, m_lFree, m_lAllocated>>
  /\ bRelease' = [bRelease EXCEPT ![c] = FALSE]
  /\ pc' = [pc EXCEPT ![c] = "idle"]
  /\ UNCHANGED <<m_lCount, m_bChanged, state, signal, m_cRef, owners, pSample, lRef, holds>>

-----------------------------------------------------------------------------
(* Mutant: the samples in use are not looked at. *)
SetProperties_InUse(c, n) ==
  /\ Ready(c) /\ ~m_bCommitted
  /\ m_lCount' = n /\ m_bChanged' = TRUE
  /\ UNCHANGED <<m_lAllocated, m_lFree, state, signal, m_cRef, life, calls>>

SetProperties(c, n) ==
  /\ Ready(c) /\ ~m_bCommitted /\ AllFree
  /\ m_lCount' = n /\ m_bChanged' = TRUE
  /\ UNCHANGED <<m_lAllocated, m_lFree, state, signal, m_cRef, life, calls>>

(***************************************************************************)
(* Commit cancels a decommit under way, whose reference to the allocator   *)
(* becomes its own, or calls Alloc, which keeps the samples it has, or     *)
(* frees them and makes others.  Of these it may make only k: the memory   *)
(* has run out, and the next Alloc frees them.                             *)
(***************************************************************************)
CancelDecommit ==
  /\ m_bDecommitInProgress
  /\ m_bCommitted' = TRUE /\ m_bDecommitInProgress' = FALSE
  /\ UNCHANGED <<properties, m_lFree, m_cRef, m_cAllocatorRef>>

AllocAgain ==
  /\ ~m_bDecommitInProgress
  /\ m_lCount > 0 /\ ~m_bChanged
  /\ m_bCommitted' = TRUE /\ m_cAllocatorRef' = m_cAllocatorRef + 1
  /\ UNCHANGED <<properties, m_lFree, m_cRef, m_bDecommitInProgress>>

Alloc(k) ==
  /\ ~m_bDecommitInProgress
  /\ m_lCount > 0 /\ m_bChanged
  /\ m_lFree' = [i \in 1 .. k |-> k + 1 - i] /\ m_lAllocated' = k
  /\ m_cRef' = [s \in Samples |-> 0]
  /\ IF k = m_lCount
     THEN /\ m_bChanged' = FALSE /\ m_bCommitted' = TRUE
          /\ m_cAllocatorRef' = m_cAllocatorRef + 1
     ELSE UNCHANGED <<m_bChanged, m_bCommitted, m_cAllocatorRef>>
  /\ UNCHANGED <<m_lCount, m_bDecommitInProgress>>

Commit(c) ==
  /\ Ready(c) /\ ~m_bCommitted
  /\ \/ CancelDecommit
     \/ AllocAgain
     \/ \E k \in 0 .. m_lCount : Alloc(k)
  /\ UNCHANGED <<signal, owners, calls>>

(* Mutant: those who wait are not told. *)
NotifyOfDecommit_None == UNCHANGED signal

NotifyOfDecommit == NotifySample

(* Those who wait are told in any case, so that their calls fail. *)
Decommit(c) ==
  /\ Ready(c) /\ (m_bCommitted \/ m_bDecommitInProgress)
  /\ m_bCommitted' = FALSE
  /\ m_bDecommitInProgress' = (Len(m_lFree) < m_lAllocated)
  /\ bRelease' = [bRelease EXCEPT ![c] = ~m_bDecommitInProgress']
  /\ NotifyOfDecommit
  /\ pc' = [pc EXCEPT ![c] = "decommitted"]
  /\ UNCHANGED <<properties, m_lFree, m_cRef, life, pSample, lRef, holds>>

(* A pin is disconnected: its reference goes, whatever it still holds. *)
Disconnect(c) ==
  /\ Ready(c)
  /\ owners' = owners \ {c}
  /\ ReleaseAllocator
  /\ UNCHANGED <<m_lCount, m_bChanged, state, signal, m_cRef, calls>>

InCall(c) ==
  \/ WaitForSingleObject(c) \/ TryAgain(c) \/ GotBuffer(c)
  \/ Decrement(c) \/ ReleaseBuffer(c) \/ EndReleaseBuffer(c)

Next ==
  \E c \in Threads :
    \/ GetBuffer(c) \/ GetBufferNoWait(c) \/ InCall(c)
    \/ \E d \in Threads, s \in holds[c] : PassOn(c, d, s)
    \/ \E s \in holds[c] : Release(c, s)
    \/ \E n \in 1 .. MaxBuffers : SetProperties(c, n)
    \/ Commit(c) \/ Decommit(c) \/ Disconnect(c)

(* A call once begun goes on; no thread need ever begin one. *)
Spec == Init /\ [][Next]_vars /\ \A c \in Threads : WF_vars(InCall(c))

-----------------------------------------------------------------------------
(* Every variable has its type. *)
TypeOK ==
  /\ m_lCount \in 0 .. MaxBuffers /\ m_lAllocated \in 0 .. MaxBuffers
  /\ m_bChanged \in BOOLEAN
  /\ m_lFree \in Seq(Samples)
  /\ m_bCommitted \in BOOLEAN /\ m_bDecommitInProgress \in BOOLEAN
  /\ m_lWaiting \in Nat /\ m_hSem \in Nat /\ polls \in Nat
  /\ m_cRef \in [Samples -> Nat]
  /\ owners \subseteq Threads /\ m_cAllocatorRef \in Nat
  /\ pc \in [Threads -> {"idle", "waiting", "woken", "got", "releasing", "final", "notify",
                         "decommitted"}]
  /\ pSample \in [Threads -> Samples \cup {NoSample}] /\ lRef \in [Threads -> Nat]
  /\ bRelease \in [Threads -> BOOLEAN]
  /\ holds \in [Threads -> SUBSET Samples]

Waiting == {c \in Threads : pc[c] = "waiting"}

(* amfilter.h:1415-1425: no call waits while there is a free sample and    *)
(* nothing to wake it; each one that waits has either been announced or is *)
(* counted by the semaphore.  The comment's (2) has an equality there,     *)
(* which holds but for the calls with AM_GBF_NOWAIT, each of which leaves  *)
(* one wakeup too many behind for good.                                    *)
NoLostWakeup ==
  /\ m_lFree # <<>> => m_lWaiting = 0
  /\ m_lWaiting + m_hSem = Cardinality(Waiting) + polls

(* A thread has the sample: it is about to get it, was given it or is      *)
(* about to return it.                                                     *)
With(s) ==
  {c \in Threads : s \in holds[c] \/ (pc[c] \in {"got", "releasing", "final"} /\ pSample[c] = s)}

(* It has a reference, which its Release may be about to give up. *)
CountedBy(s) ==
  {c \in Threads : s \in holds[c] \/ (pc[c] = "releasing" /\ pSample[c] = s)}

OutSamples == {s \in Samples : With(s) # {}}

(* Every sample is in one place: in the free list, once, or with threads   *)
(* that have as many references to it as it counts, of which the last to   *)
(* be released puts it back.                                               *)
SampleOnce ==
  /\ \A i, j \in DOMAIN m_lFree : m_lFree[i] = m_lFree[j] => i = j
  /\ \A i \in DOMAIN m_lFree : With(m_lFree[i]) = {} /\ m_cRef[m_lFree[i]] = 0
  /\ \A s \in Samples : m_cRef[s] = Cardinality(CountedBy(s))

(* The comment at amfilter.cpp:3351-3362: a sample has no reference to its *)
(* allocator, but the allocator is not deleted while a sample is out, its  *)
(* last release is under way or a call is being made, though every pin may *)
(* have been disconnected.  The one exception is a ReleaseBuffer that has  *)
(* left its section with nothing more to do than to read m_pNotify.        *)
AliveWhileOut ==
  m_cAllocatorRef = 0 =>
    /\ OutSamples = {} /\ ~m_bCommitted
    /\ \A c \in Threads : pc[c] = "idle" \/ (pc[c] = "notify" /\ ~bRelease[c])

(* A call that waits for a sample when the pool is decommitted returns,    *)
(* unless the pool is committed once more.                                 *)
DecommitReturns ==
  \A c \in Threads : pc[c] = "waiting" /\ ~m_bCommitted ~> pc[c] # "waiting" \/ m_bCommitted

Pool == INSTANCE BufferPool WITH
  agreed <- m_lCount, size <- m_lAllocated, open <- m_bCommitted, out <- OutSamples

(* The allocator is a pool of buffers: see BufferPool. *)
ImplementsPool == Pool!Spec

(* What amfilter.cpp:3359-3364 says, and the code does not keep: the       *)
(* allocator holds "an addref on our behalf" until "we have finished with  *)
(* this", so that no ReleaseBuffer is under way on one that is deleted.    *)
ReleaseFindsAllocator ==
  m_cAllocatorRef = 0 => \A c \in Threads : pc[c] # "notify"
==============================================================================
