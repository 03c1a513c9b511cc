----------------------------- MODULE OutputQueue ------------------------------
(***************************************************************************)
(* COutputQueue: what an output pin puts between its filter and the next   *)
(* one.  A source thread gives it samples, new segments and the end of the *)
(* stream; a control thread flushes and resets it and ends its life; a     *)
(* worker of its own delivers, or, without one (not queued), the source    *)
(* thread does.  Downstream may keep a delivery for as long as it likes    *)
(* unless it is flushing or stopped.                                       *)
(*                                                                         *)
(* Samples are numbered in the order in which the source makes them.  What *)
(* is done under the queue's critical section (m_cs) without a call to     *)
(* downstream is one step, except for the worker's loop, a step per pass.  *)
(* Not modelled: m_hEventPop, which nobody sets here, and an AddTail that  *)
(* runs out of memory.                                                     *)
(***************************************************************************)
EXTENDS Integers, Sequences, FiniteSets

CONSTANTS
  Modes,        \* the modes the queue is made in, see Mode
  m_lBatchSize, \* samples in a full batch
  Marks,        \* the calls without a sample that the source makes
  ResetModes,   \* the modes in which the control thread calls Reset
  InFlight,     \* the calls that may be under way when a flush begins
  MaxSamples,   \* bound: samples the source makes
  MaxQueued     \* bound: entries in the list before another mark or reset

Mode == [queued : BOOLEAN, exact : BOOLEAN, opt : BOOLEAN]

ASSUME OutputQueueAssumption ==
  /\ Modes \subseteq Mode
  /\ m_lBatchSize \in Nat \ {0}
  /\ Marks \subseteq {"SendAnyway", "EOS", "NewSegment"}
  /\ ResetModes \subseteq Modes
  /\ InFlight \subseteq Marks \cup {"Receive"}
  /\ MaxSamples \in Nat /\ MaxQueued \in Nat

Samples == 1 .. MaxSamples

(* What a place of the list holds besides a sample. *)
NULL == 0
PACKET == -1        \* the parameters of a new segment
SEND_PACKET == -2
EOS_PACKET == -3
RESET_PACKET == -4
NEW_SEGMENT == -5
Entries == Samples \cup {PACKET, SEND_PACKET, EOS_PACKET, RESET_PACKET, NEW_SEGMENT}

VARIABLES
  mode,             \* IsQueued(), m_bBatchExact, m_bFlushingOpt
  m_List,           \* entries waiting
  m_ppSamples,      \* the batch, m_nBatched long
  m_bFlushing, m_bFlushed, m_bTerminate,
  m_hr,             \* the sticky result: "ok", "false" or "error"
  m_lWaiting, m_hSem,  \* the worker has announced its wait; the semaphore
  m_evFlushComplete,
  m_cs,             \* who holds the critical section between two steps
  worker,           \* where the worker is
  pSample,          \* the entry that ended its loop
  sending,          \* the batch it is to deliver
  source,           \* where the source thread is
  call,             \* its call
  hand,             \* the samples of its call not yet taken
  control,          \* where the control thread is
  downstream,       \* "open", "flushing" or "stopped"
  made,             \* history: samples made so far
  released,         \* history: how often each was released
  fence             \* history: samples made before the last flush ended

queue == <<m_List, m_ppSamples>>
flags == <<m_bFlushing, m_bFlushed, m_bTerminate>>
signals == <<m_lWaiting, m_hSem, m_evFlushComplete>>
workerVars == <<worker, pSample, sending>>
sourceVars == <<source, call, hand>>
outer == <<control, downstream>>
history == <<made, released, fence>>
vars == <<mode, queue, flags, m_hr, signals, m_cs, workerVars, sourceVars, outer, history>>

Init ==
  /\ mode \in Modes
  /\ m_List = <<>> /\ m_ppSamples = <<>>
  /\ m_bFlushing = FALSE /\ m_bFlushed = TRUE /\ m_bTerminate = FALSE
  /\ m_hr = "ok"
  /\ m_lWaiting = 0 /\ m_hSem = 0 /\ m_evFlushComplete = FALSE
  /\ m_cs = "free"
  /\ worker = IF mode.queued THEN "section" ELSE "none"
  /\ pSample = NULL /\ sending = <<>>
  /\ source = "idle" /\ call = "none" /\ hand = <<>>
  /\ control = "idle" /\ downstream = "open"
  /\ made = 0 /\ released = [n \in Samples |-> 0] /\ fence = 0

IsSpecialSample(e) == e < NULL

Elements(s) == {s[i] : i \in 1 .. Len(s)}

(* IMediaSample::Release on each sample of some sequences. *)
Release(s) ==
  released' = [n \in Samples |->
                 IF n \in Elements(s) THEN released[n] + 1 ELSE released[n]]

(* Mutant: m_nBatched is not reset. *)
FreeSamples_KeepsCount ==
  /\ Release(m_List \o m_ppSamples)
  /\ m_List' = <<>> /\ UNCHANGED m_ppSamples

FreeSamples ==
  /\ Release(m_List \o m_ppSamples)
  /\ m_List' = <<>> /\ m_ppSamples' = <<>>

(* Wakes the worker if it has announced its wait. *)
NotifyThread ==
  /\ m_hSem' = m_hSem + m_lWaiting
  /\ m_lWaiting' = 0

-----------------------------------------------------------------------------
(* The source thread.  Its filter starts no call while it is flushed, reset *)
(* or taken down, but a call begun before may still be on its way.         *)
MayCall == source = "idle" /\ control = "idle" /\ downstream = "open"

StartReceive(count) ==
  /\ MayCall /\ made + count <= MaxSamples
  /\ hand' = [i \in 1 .. count |-> made + i] /\ made' = made + count
  /\ source' = "called" /\ call' = "Receive"
  /\ UNCHANGED <<mode, queue, flags, m_hr, signals, m_cs, workerVars, outer,
                 released, fence>>

(* NewSegment looks at m_hr before it takes the critical section. *)
StartMark(mark) ==
  /\ MayCall /\ Len(m_List) < MaxQueued
  /\ mark = "NewSegment" => m_hr = "ok"
  /\ source' = "called" /\ call' = mark
  /\ UNCHANGED <<mode, queue, flags, m_hr, signals, m_cs, workerVars, hand,
                 outer, history>>

Returned == source' = "idle" /\ call' = "none" /\ hand' = <<>>

(* ReceiveMultiple refuses what comes after an error or in a flush. *)
Refuse ==
  /\ source = "called" /\ call = "Receive" /\ m_cs = "free"
  /\ m_hr # "ok"
  /\ Release(hand) /\ Returned
  /\ UNCHANGED <<mode, queue, flags, m_hr, signals, m_cs, workerVars, outer, made, fence>>

(* ReceiveMultiple with a worker.  In exact mode it is woken for a full    *)
(* batch only.  Mutant: only what is in the list counts.                   *)
ReceiveQueued_ListOnly ==
  /\ source = "called" /\ call = "Receive" /\ m_cs = "free"
  /\ mode.queued /\ m_hr = "ok"
  /\ m_bFlushed' = FALSE
  /\ m_List' = m_List \o hand /\ Returned
  /\ IF ~mode.exact \/ Len(m_List') >= m_lBatchSize
     THEN NotifyThread ELSE UNCHANGED <<m_hSem, m_lWaiting>>
  /\ UNCHANGED <<mode, m_ppSamples, m_bFlushing, m_bTerminate, m_hr,
                 m_evFlushComplete, m_cs, workerVars, outer, history>>

(* Mutant: AddHead where AddTail is meant. *)
ReceiveQueued_AddsFirst ==
  /\ source = "called" /\ call = "Receive" /\ m_cs = "free"
  /\ mode.queued /\ m_hr = "ok"
  /\ m_bFlushed' = FALSE
  /\ m_List' = hand \o m_List /\ Returned
  /\ IF ~mode.exact \/ Len(m_ppSamples) + Len(m_List') >= m_lBatchSize
     THEN NotifyThread ELSE UNCHANGED <<m_hSem, m_lWaiting>>
  /\ UNCHANGED <<mode, m_ppSamples, m_bFlushing, m_bTerminate, m_hr,
                 m_evFlushComplete, m_cs, workerVars, outer, history>>

ReceiveQueued ==
  /\ source = "called" /\ call = "Receive" /\ m_cs = "free"
  /\ mode.queued /\ m_hr = "ok"
  /\ m_bFlushed' = FALSE
  /\ m_List' = m_List \o hand /\ Returned
  /\ IF ~mode.exact \/ Len(m_ppSamples) + Len(m_List') >= m_lBatchSize
     THEN NotifyThread ELSE UNCHANGED <<m_hSem, m_lWaiting>>
  /\ UNCHANGED <<mode, m_ppSamples, m_bFlushing, m_bTerminate, m_hr,
                 m_evFlushComplete, m_cs, workerVars, outer, history>>

(* SendAnyway, EOS and NewSegment with a worker: EOS asks for m_hr, the    *)
(* others do not, or not any more.                                         *)
MarkQueued ==
  /\ source = "called" /\ call \in Marks /\ m_cs = "free" /\ mode.queued
  /\ IF call = "EOS" /\ m_hr # "ok"
     THEN UNCHANGED <<m_List, m_bFlushed, m_hSem, m_lWaiting>>
     ELSE /\ m_List' = m_List \o CASE call = "SendAnyway" -> <<SEND_PACKET>>
                                   [] call = "EOS" -> <<EOS_PACKET>>
                                   [] call = "NewSegment" -> <<NEW_SEGMENT, PACKET>>
          /\ m_bFlushed' = IF call = "EOS" THEN FALSE ELSE m_bFlushed
          /\ NotifyThread
  /\ Returned
  /\ UNCHANGED <<mode, m_ppSamples, m_bFlushing, m_bTerminate, m_hr,
                 m_evFlushComplete, m_cs, workerVars, outer, history>>

(* The same calls without a worker.  The section is kept while downstream  *)
(* has the batch.                                                          *)
EnterDirect ==
  /\ source = "called" /\ m_cs = "free" /\ ~mode.queued
  /\ call = "Receive" => m_hr = "ok"
  /\ m_cs' = "source" /\ source' = "batching"
  /\ m_bFlushed' = IF m_hr = "ok" /\ (call = "Receive" \/ mode.exact \/ call = "SendAnyway")
                   THEN FALSE ELSE m_bFlushed
  /\ UNCHANGED <<mode, queue, m_bFlushing, m_bTerminate, m_hr, signals,
                 workerVars, call, hand, outer, history>>

BatchDirect ==
  /\ source = "batching" /\ hand # <<>>
  /\ m_ppSamples' = Append(m_ppSamples, Head(hand)) /\ hand' = Tail(hand)
  /\ source' = IF Len(m_ppSamples') = m_lBatchSize THEN "delivering" ELSE "batching"
  /\ UNCHANGED <<mode, m_List, flags, m_hr, signals, m_cs, workerVars, call, outer, history>>

(* What is left of a batch goes on before a mark: SendAnyway, which EOS and *)
(* NewSegment call in exact mode only, and which does nothing after an      *)
(* error.                                                                   *)
SendsRest ==
  /\ call \in Marks /\ (call = "SendAnyway" \/ mode.exact)
  /\ m_hr = "ok" /\ m_ppSamples # <<>>

SendAnyway ==
  /\ source = "batching" /\ SendsRest
  /\ source' = "delivering"
  /\ UNCHANGED <<mode, queue, flags, m_hr, signals, m_cs, workerVars, call,
                 hand, outer, history>>

(* Downstream answers; one that is not open refuses.  After an error the   *)
(* rest of the samples is released without it.                             *)
Answers == IF downstream = "open" THEN {"ok", "error"} ELSE {"error"}

DeliverDirect ==
  /\ source = "delivering"
  /\ m_hr' \in IF m_hr = "ok" THEN Answers ELSE {m_hr}
  /\ Release(m_ppSamples) /\ m_ppSamples' = <<>>
  /\ source' = "batching"
  /\ UNCHANGED <<mode, m_List, flags, signals, m_cs, workerVars, call, hand,
                 outer, made, fence>>

ReturnDirect ==
  /\ source = "batching" /\ hand = <<>> /\ ~SendsRest
  /\ m_bFlushed' = IF call = "EOS" /\ m_hr = "ok" THEN FALSE ELSE m_bFlushed
  /\ m_cs' = "free" /\ Returned
  /\ UNCHANGED <<mode, queue, m_bFlushing, m_bTerminate, m_hr, signals,
                 workerVars, outer, history>>

-----------------------------------------------------------------------------
(* The worker.  Each pass of its inner loop begins with the two flags; it  *)
(* keeps the section from pass to pass.                                    *)
InLoop == worker = "section" /\ m_cs \in {"free", "worker"}

Terminate ==
  /\ InLoop /\ m_bTerminate
  /\ FreeSamples
  /\ worker' = "done" /\ m_cs' = "free"
  /\ UNCHANGED <<mode, flags, m_hr, signals, pSample, sending, sourceVars,
                 outer, made, fence>>

(* In a flush everything is freed, and the list being empty the worker     *)
(* waits.                                                                  *)
Flush ==
  /\ InLoop /\ ~m_bTerminate /\ m_bFlushing
  /\ FreeSamples /\ m_evFlushComplete' = TRUE
  /\ m_lWaiting' = m_lWaiting + 1 /\ worker' = "waiting" /\ m_cs' = "free"
  /\ UNCHANGED <<mode, flags, m_hr, m_hSem, pSample, sending, sourceVars,
                 outer, made, fence>>

Deliverable == InLoop /\ ~m_bTerminate /\ ~m_bFlushing

(* The loop ends with an entry, or none, and takes the batch with it. *)
LeaveWith(entry, batch) ==
  /\ pSample' = entry /\ sending' = batch /\ m_ppSamples' = <<>>
  /\ worker' = "sending" /\ m_cs' = "free"

AddToBatch ==
  /\ Deliverable /\ m_List # <<>> /\ Head(m_List) \in Samples
  /\ m_List' = Tail(m_List)
  /\ LET batch == Append(m_ppSamples, Head(m_List))
     IN  IF Len(batch) = m_lBatchSize
         THEN LeaveWith(Head(m_List), batch)
         ELSE /\ m_ppSamples' = batch /\ m_cs' = "worker"
              /\ UNCHANGED <<worker, pSample, sending>>
  /\ UNCHANGED <<mode, flags, m_hr, signals, sourceVars, outer, history>>

PrepareToWait ==
  /\ Deliverable /\ m_List = <<>>
  /\ mode.exact \/ m_ppSamples = <<>>
  /\ m_lWaiting' = m_lWaiting + 1 /\ worker' = "waiting" /\ m_cs' = "free"
  /\ UNCHANGED <<mode, queue, flags, m_hr, m_hSem, m_evFlushComplete, pSample,
                 sending, sourceVars, outer, history>>

SendPartial ==
  /\ Deliverable /\ m_List = <<>>
  /\ ~mode.exact /\ m_ppSamples # <<>>
  /\ LeaveWith(NULL, m_ppSamples)
  /\ UNCHANGED <<mode, m_List, flags, m_hr, signals, sourceVars, outer, history>>

TakeSpecial ==
  /\ Deliverable /\ m_List # <<>> /\ IsSpecialSample(Head(m_List))
  /\ IF Head(m_List) = SEND_PACKET /\ m_ppSamples = <<>>
     THEN /\ m_List' = Tail(m_List) /\ m_cs' = "worker"
          /\ UNCHANGED <<m_ppSamples, worker, pSample, sending>>
     ELSE /\ m_List' = IF Head(m_List) = NEW_SEGMENT THEN Tail(Tail(m_List)) ELSE Tail(m_List)
          /\ LeaveWith(Head(m_List), m_ppSamples)
  /\ UNCHANGED <<mode, flags, m_hr, signals, sourceVars, outer, history>>

Wait ==
  /\ worker = "waiting" /\ m_hSem > 0
  /\ m_hSem' = m_hSem - 1 /\ worker' = "section"
  /\ UNCHANGED <<mode, queue, flags, m_hr, m_lWaiting, m_evFlushComplete, m_cs,
                 pSample, sending, sourceVars, outer, history>>

(* Outside of the section m_hr decides whether the batch goes downstream.  *)
Send ==
  /\ worker = "sending" /\ sending # <<>> /\ m_hr = "ok"
  /\ worker' = "delivering"
  /\ UNCHANGED <<mode, queue, flags, m_hr, signals, m_cs, pSample, sending,
                 sourceVars, outer, history>>

Drop ==
  /\ worker = "sending" /\ sending # <<>> /\ m_hr # "ok"
  /\ Release(sending) /\ sending' = <<>>
  /\ UNCHANGED <<mode, queue, flags, m_hr, signals, m_cs, worker, pSample,
                 sourceVars, outer, made, fence>>

(* The answer does not overwrite that of a flush.  Mutant: it does. *)
Deliver_Overwrites ==
  /\ worker = "delivering" /\ m_cs = "free"
  /\ m_hr' \in Answers
  /\ Release(sending) /\ sending' = <<>> /\ worker' = "sending"
  /\ UNCHANGED <<mode, queue, flags, signals, m_cs, pSample, sourceVars, outer,
                 made, fence>>

Deliver ==
  /\ worker = "delivering" /\ m_cs = "free"
  /\ m_hr' \in IF m_hr = "ok" THEN Answers ELSE {m_hr}
  /\ Release(sending) /\ sending' = <<>> /\ worker' = "sending"
  /\ UNCHANGED <<mode, queue, flags, signals, m_cs, pSample, sourceVars, outer,
                 made, fence>>

(* EndOfStream and NewSegment change nothing here; a reset is reported. *)
Packet ==
  /\ worker = "sending" /\ sending = <<>> /\ pSample # RESET_PACKET
  /\ worker' = "section" /\ pSample' = NULL
  /\ UNCHANGED <<mode, queue, flags, m_hr, signals, m_cs, sending, sourceVars,
                 outer, history>>

ResetPacket ==
  /\ worker = "sending" /\ sending = <<>> /\ pSample = RESET_PACKET
  /\ m_hr' = "ok"
  /\ worker' = "reporting" /\ pSample' = NULL
  /\ UNCHANGED <<mode, queue, flags, signals, m_cs, sending, sourceVars, outer, history>>

ReportReset ==
  /\ worker = "reporting"
  /\ m_evFlushComplete' = TRUE /\ worker' = "section"
  /\ UNCHANGED <<mode, queue, flags, m_hr, m_lWaiting, m_hSem, m_cs, pSample,
                 sending, sourceVars, outer, history>>

-----------------------------------------------------------------------------
(* The control thread.  With a worker BeginFlush goes downstream after its *)
(* section, without one before it, as the source thread may hold the       *)
(* section while downstream blocks.                                        *)
Refusing == IF m_hr = "ok" THEN "false" ELSE m_hr

MayFlush ==
  control = "idle" /\ downstream = "open" /\ call \in InFlight \cup {"none"}

BeginFlushQueued ==
  /\ MayFlush /\ mode.queued /\ m_cs = "free"
  /\ m_bFlushing' = TRUE /\ m_hr' = Refusing
  /\ IF m_bFlushed /\ mode.opt
     THEN control' = "flushing" /\ UNCHANGED signals
     ELSE /\ control' = "beginning"
          /\ m_evFlushComplete' = FALSE /\ NotifyThread
  /\ UNCHANGED <<mode, queue, m_bFlushed, m_bTerminate, m_cs, workerVars,
                 sourceVars, downstream, history>>

BeginFlushDownstream ==
  /\ control = "beginning"
  /\ downstream' = "flushing" /\ control' = "flushing"
  /\ UNCHANGED <<mode, queue, flags, m_hr, signals, m_cs, workerVars, sourceVars, history>>

BeginFlushDownstreamFirst ==
  /\ MayFlush /\ ~mode.queued
  /\ downstream' = "flushing" /\ control' = "entering"
  /\ UNCHANGED <<mode, queue, flags, m_hr, signals, m_cs, workerVars, sourceVars, history>>

BeginFlushDirect ==
  /\ control = "entering" /\ m_cs = "free"
  /\ m_bFlushing' = TRUE /\ m_hr' = Refusing /\ control' = "flushing"
  /\ UNCHANGED <<mode, queue, m_bFlushed, m_bTerminate, signals, m_cs,
                 workerVars, sourceVars, downstream, history>>

(* The caller has guaranteed that no sample arrives before EndFlush        *)
(* returns: calls begun before the flush have returned.                    *)
EndFlush ==
  /\ control = "flushing" /\ source = "idle" /\ m_cs = "free"
  /\ IF mode.opt /\ m_bFlushed /\ mode.queued
     THEN m_bFlushing' = FALSE /\ m_hr' = "ok" /\ control' = "idle" /\ fence' = made
     ELSE control' = "syncing" /\ UNCHANGED <<m_bFlushing, m_hr, fence>>
  /\ UNCHANGED <<mode, queue, m_bFlushed, m_bTerminate, signals, m_cs,
                 workerVars, sourceVars, downstream, made, released>>

(* Mutant: it does not wait for the worker. *)
EndFlushSync_NoWait ==
  /\ control = "syncing"
  /\ IF mode.queued
     THEN UNCHANGED <<queue, released, m_evFlushComplete>>
     ELSE m_cs = "free" /\ FreeSamples /\ UNCHANGED m_evFlushComplete
  /\ control' = "ending"
  /\ UNCHANGED <<mode, flags, m_hr, m_lWaiting, m_hSem, m_cs, workerVars,
                 sourceVars, downstream, made, fence>>

EndFlushSync ==
  /\ control = "syncing"
  /\ IF mode.queued
     THEN /\ m_evFlushComplete /\ m_evFlushComplete' = FALSE
          /\ UNCHANGED <<queue, released>>
     ELSE m_cs = "free" /\ FreeSamples /\ UNCHANGED m_evFlushComplete
  /\ control' = "ending"
  /\ UNCHANGED <<mode, flags, m_hr, m_lWaiting, m_hSem, m_cs, workerVars,
                 sourceVars, downstream, made, fence>>

EndFlushDownstream ==
  /\ control = "ending"
  /\ m_bFlushing' = FALSE /\ m_bFlushed' = TRUE
  /\ downstream' = "open" /\ fence' = made
  /\ control' = "reopening"
  /\ UNCHANGED <<mode, queue, m_bTerminate, m_hr, signals, m_cs, workerVars,
                 sourceVars, made, released>>

EndFlushReturn ==
  /\ control = "reopening"
  /\ m_hr' = "ok" /\ control' = "idle"
  /\ UNCHANGED <<mode, queue, flags, signals, m_cs, workerVars, sourceVars,
                 downstream, history>>

Reset ==
  /\ mode \in ResetModes /\ control = "idle" /\ downstream = "open"
  /\ IF mode.queued
     THEN /\ m_cs = "free" /\ Len(m_List) < MaxQueued
          /\ m_List' = Append(m_List, RESET_PACKET) /\ NotifyThread
          /\ control' = "resetting" /\ UNCHANGED m_hr
     ELSE m_hr' = "ok" /\ UNCHANGED <<m_List, m_lWaiting, m_hSem, control>>
  /\ UNCHANGED <<mode, m_ppSamples, flags, m_evFlushComplete, m_cs, workerVars,
                 sourceVars, downstream, history>>

ResetReturn ==
  /\ control = "resetting" /\ m_evFlushComplete
  /\ m_evFlushComplete' = FALSE /\ control' = "idle"
  /\ UNCHANGED <<mode, queue, flags, m_hr, m_lWaiting, m_hSem, m_cs,
                 workerVars, sourceVars, downstream, history>>

(* The destructor, once the filter graph has stopped the filters           *)
(* downstream and the source thread is gone.                               *)
StopDownstream ==
  /\ control = "idle" /\ source = "idle" /\ downstream = "open"
  /\ downstream' = "stopped" /\ control' = "deleting"
  /\ UNCHANGED <<mode, queue, flags, m_hr, signals, m_cs, workerVars, sourceVars, history>>

(* Mutant: the worker is not told. *)
Destroy_Silent ==
  /\ control = "deleting"
  /\ IF mode.queued
     THEN /\ m_cs = "free"
          /\ m_bTerminate' = TRUE /\ m_hr' = "false" /\ UNCHANGED <<m_hSem, m_lWaiting>>
          /\ control' = "joining" /\ UNCHANGED <<queue, released>>
     ELSE /\ FreeSamples /\ control' = "deleted"
          /\ UNCHANGED <<m_bTerminate, m_hr, m_hSem, m_lWaiting>>
  /\ UNCHANGED <<mode, m_bFlushing, m_bFlushed, m_evFlushComplete, m_cs,
                 workerVars, sourceVars, downstream, made, fence>>

Destroy ==
  /\ control = "deleting"
  /\ IF mode.queued
     THEN /\ m_cs = "free"
          /\ m_bTerminate' = TRUE /\ m_hr' = "false" /\ NotifyThread
          /\ control' = "joining" /\ UNCHANGED <<queue, released>>
     ELSE /\ FreeSamples /\ control' = "deleted"
          /\ UNCHANGED <<m_bTerminate, m_hr, m_hSem, m_lWaiting>>
  /\ UNCHANGED <<mode, m_bFlushing, m_bFlushed, m_evFlushComplete, m_cs,
                 workerVars, sourceVars, downstream, made, fence>>

Join ==
  /\ control = "joining" /\ worker = "done"
  /\ control' = "deleted"
  /\ UNCHANGED <<mode, queue, flags, m_hr, signals, m_cs, workerVars,
                 sourceVars, downstream, history>>

-----------------------------------------------------------------------------
InCall == Refuse \/ ReceiveQueued \/ MarkQueued \/ EnterDirect \/ BatchDirect
          \/ SendAnyway \/ ReturnDirect
InLoopStep == Terminate \/ Flush \/ AddToBatch \/ PrepareToWait \/ SendPartial \/ TakeSpecial
InWorker == InLoopStep \/ Wait \/ Send \/ Drop \/ Packet \/ ResetPacket \/ ReportReset
InControl == BeginFlushDownstream \/ BeginFlushDirect \/ EndFlush \/ EndFlushSync
             \/ EndFlushDownstream \/ EndFlushReturn \/ ResetReturn \/ Destroy \/ Join

Next ==
  \/ \E count \in 1 .. 2 : StartReceive(count)
  \/ \E mark \in Marks : StartMark(mark)
  \/ InCall \/ DeliverDirect
  \/ InWorker \/ Deliver
  \/ BeginFlushQueued \/ BeginFlushDownstreamFirst \/ Reset \/ StopDownstream
  \/ InControl

(* Every thread inside of the queue is scheduled, and a flush or an end    *)
(* once begun goes on; downstream answers for certain if it is flushing or *)
(* stopped.                                                                *)
Fairness ==
  /\ WF_vars(InCall) /\ WF_vars(InWorker) /\ WF_vars(InControl)
  /\ WF_vars(downstream # "open" /\ (DeliverDirect \/ Deliver))

Spec == Init /\ [][Next]_vars /\ Fairness

-----------------------------------------------------------------------------
TypeOK ==
  /\ mode \in Modes
  /\ m_List \in Seq(Entries) /\ m_ppSamples \in Seq(Samples)
  /\ Len(m_ppSamples) < m_lBatchSize \/ source = "delivering"
  /\ m_bFlushing \in BOOLEAN /\ m_bFlushed \in BOOLEAN /\ m_bTerminate \in BOOLEAN
  /\ m_hr \in {"ok", "false", "error"}
  /\ m_lWaiting \in 0 .. 1 /\ m_hSem \in 0 .. 1 /\ m_evFlushComplete \in BOOLEAN
  /\ m_cs \in {"free", "worker", "source"}
  /\ worker \in {"none", "section", "waiting", "sending", "delivering", "reporting", "done"}
  /\ pSample \in Entries \cup {NULL} /\ sending \in Seq(Samples)
  /\ source \in {"idle", "called", "batching", "delivering"}
  /\ call \in Marks \cup {"none", "Receive"} /\ hand \in Seq(Samples)
  /\ control \in {"idle", "beginning", "entering", "flushing", "syncing", "ending",
                  "reopening", "resetting", "deleting", "joining", "deleted"}
  /\ downstream \in {"open", "flushing", "stopped"}
  /\ made \in 0 .. MaxSamples /\ fence \in 0 .. made
  /\ released \in [Samples -> Nat]

Times(n, s) == Cardinality({i \in 1 .. Len(s) : s[i] = n})

(* Every sample that the source has made is in one place, once, or has     *)
(* been released, once: through batches cut by marks, flushes that meet a  *)
(* delivery under way and errors of downstream (the Release loops of       *)
(* ThreadProc and ReceiveMultiple, FreeSamples); and when the destructor   *)
(* has joined the worker nothing is left unreleased.                       *)
EachSampleOnce ==
  /\ \A n \in Samples :
       released[n] + Times(n, m_List) + Times(n, m_ppSamples) + Times(n, sending)
         + Times(n, hand) = (IF n <= made THEN 1 ELSE 0)
  /\ control = "deleted" => \A n \in 1 .. made : released[n] = 1

(* Nothing made before a flush ended goes downstream after it, and what    *)
(* goes downstream is known to have gone: the assertions on m_bFlushed     *)
(* around the delivery, on which the next flush's short way out relies.    *)
NothingOld ==
  /\ worker = "delivering" => ~m_bFlushed /\ \A n \in Elements(sending) : n > fence
  /\ source = "delivering" => \A n \in Elements(m_ppSamples) : n > fence

(* Of two samples the later made stands behind the other. *)
Ordered(s) ==
  \A i, j \in 1 .. Len(s) : i < j /\ {s[i], s[j]} \subseteq Samples => s[i] < s[j]

(* What is on its way is in the order in which it was made, from the batch *)
(* under delivery back to the call that has just come: what is delivered   *)
(* next was made before all that waits, although a batch is filled over    *)
(* several passes of ThreadProc's loop, or calls of ReceiveMultiple, and   *)
(* a mark cuts it short.                                                   *)
InOrder == Ordered(sending \o m_ppSamples \o m_List \o hand)

(* Samples go downstream as a stream: in their order, and none of those    *)
(* before a flush after it.                                                *)
StreamKept == NothingOld /\ InOrder

(* Reset finds m_evFlushComplete set only by the worker that has taken its *)
(* RESET_PACKET and cleared m_hr: flush and reset share the one event.     *)
ResetReported ==
  control = "resetting" /\ m_evFlushComplete =>
    RESET_PACKET \notin Elements(m_List) \cup {pSample}

(* A worker that waits is counted by m_lWaiting or by the semaphore, and   *)
(* while nobody has woken it there is nothing for it to do: no mark, no    *)
(* full batch, no end, no flush that EndFlush would wait for (m_lWaiting,  *)
(* NotifyThread and the notices of every call).                            *)
NoLostWakeup ==
  /\ m_lWaiting + m_hSem = (IF worker = "waiting" THEN 1 ELSE 0)
  /\ m_lWaiting = 1 =>
       /\ ~m_bTerminate
       /\ m_List # <<>> => mode.exact /\ Elements(m_List) \subseteq Samples
       /\ Len(m_ppSamples) + Len(m_List) < m_lBatchSize
       /\ control = "syncing" => m_evFlushComplete

(* The semaphore and the event say what they are meant to: what a waiting  *)
(* worker or a waiting Reset is there for neither passes unnoticed nor is  *)
(* reported before it has happened.                                        *)
SignalsSound == NoLostWakeup /\ ResetReported

Flushing == {"beginning", "entering", "flushing", "syncing", "ending", "reopening"}

(* A flush once begun ends, whatever downstream was doing with a batch, and *)
(* so does the destructor: EndFlush's wait for the worker's event and the   *)
(* wait for the thread to finish are answered.                              *)
Returns ==
  /\ control \in Flushing ~> control = "idle"
  /\ control \in {"deleting", "joining"} ~> control = "deleted"
=============================================================================
