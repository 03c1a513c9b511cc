----------------------------- MODULE BaseRenderer -----------------------------
(***************************************************************************)
(* CBaseRenderer and its CRendererInputPin: a source thread brings one     *)
(* sample at a time and waits in Receive until it is due; a control thread *)
(* stops, pauses, runs and flushes; a timer reports the end of the stream; *)
(* a window may take the picture away.  The clock is ReferenceClock.       *)
(*                                                                         *)
(* The control thread holds m_InterfaceLock throughout a command, and      *)
(* m_RendererLock besides while BeginFlush waits for Receive.  What is     *)
(* done under one of the locks without a wait is one step of that thread,  *)
(* unless the others could see the difference: the source thread's reads   *)
(* and writes of m_State, m_dwAdvise and m_bInReceive outside of the locks *)
(* are steps of their own.                                                 *)
(*                                                                         *)
(* A sample is its number in the stream, 0 is NULL.  External: what the    *)
(* derived class does with a sample, that the pin is connected, that there *)
(* is a clock, when timers can be had, and which types its SetMediaType    *)
(* refuses.  Not modelled: EC_REPAINT, media positions, quality messages,  *)
(* and that GetTime stands still after a correction backward, for which    *)
(* Deltas has none.                                                        *)
(***************************************************************************)
EXTENDS ReferenceClock, Sequences, FiniteSetsExt

CONSTANTS
  Streams,       \* the streams a source may bring
  DeliveryWait,  \* TIMEOUT_DELIVERYWAIT in ticks
  TimerIds       \* names for multimedia timers

m_RenderEvent == "m_RenderEvent"
NULL == 0
Sample == [start : Nat, stop : Nat, kind : {"timed", "untimed", "refused"}]

ASSUME RendererConstants ==
  /\ \A s \in Streams : s \in Seq(Sample)
  /\ DeliveryWait \in Nat /\ Deltas \subseteq Nat
  /\ TimerIds \subseteq Nat \ {0}
  /\ Handles = {m_RenderEvent}

VARIABLES
  stream,
  noTimer,            \* external: no multimedia timer is to be had
  m_State, m_bStreaming, m_tStart,
  m_pMediaSample, m_SignalTime,
  m_dwAdvise,         \* the cookie of the clock, or 0
  m_ThreadSignal, m_evComplete, m_bInReceive,
  m_bEOS, m_bEOSDelivered,
  m_EndOfStreamTimer, \* the timer's name, or 0
  timers,             \* the timers that run: their names and what is left
  callback,           \* the timer whose callback is running, or 0
  m_bAbort, m_bFlushing, m_bRunTimeError,
  receive, pSample, hr,        \* the source thread: where, with what, result
  control, oldState, killed,   \* the control thread; the timer it kills
  stale,              \* history: pSample is from before a flush or a stop
  overtaken           \* history: a Run overtook a sample that had come due

flow == <<m_State, m_bStreaming, m_tStart>>
pending == <<m_pMediaSample, m_SignalTime>>
events == <<m_ThreadSignal, m_evComplete>>
ending == <<m_bEOS, m_bEOSDelivered, m_EndOfStreamTimer, timers>>
refusals == <<m_bAbort, m_bFlushing, m_bRunTimeError>>
sourceVars == <<receive, pSample, hr>>
controlVars == <<control, oldState, killed>>
renderHistory == <<stale, overtaken>>
rendererVars == <<stream, noTimer, flow, pending, m_dwAdvise, events, m_bInReceive, ending,
                  callback, refusals, sourceVars, controlVars, renderHistory>>

RendererInit ==
  /\ stream \in Streams /\ noTimer = FALSE
  /\ m_State = "Stopped" /\ m_bStreaming = FALSE /\ m_tStart = 0
  /\ m_pMediaSample = NULL /\ m_SignalTime = 0 /\ m_dwAdvise = 0
  /\ m_ThreadSignal = FALSE /\ m_evComplete = TRUE /\ m_bInReceive = FALSE
  /\ m_bEOS = FALSE /\ m_bEOSDelivered = FALSE
  /\ m_EndOfStreamTimer = 0 /\ timers = {} /\ callback = 0
  /\ m_bAbort = FALSE /\ m_bFlushing = FALSE /\ m_bRunTimeError = FALSE
  /\ receive = "none" /\ pSample = NULL /\ hr = "none"
  /\ control = "none" /\ oldState = "Stopped" /\ killed = 0
  /\ stale = FALSE /\ overtaken = FALSE

InterfaceFree == control = "none"
RendererFree == control # "flushing"

-----------------------------------------------------------------------------
(* What several handlers do.                                               *)

CheckStreaming == m_State # "Stopped" /\ ~m_bFlushing /\ ~m_bRunTimeError

(* GetSampleTimes refuses a sample that ends before it starts. *)
WellTimed(n) == stream[n].kind = "untimed" \/ stream[n].start <= stream[n].stop

(* ScheduleSample of a sample that is not refused: now if it has no times, *)
(* otherwise an advise for the start.                                      *)
ScheduleSample(n, start) ==
  IF stream[n].kind = "untimed"
  THEN /\ signalled' = signalled \cup {m_RenderEvent}
       /\ UNCHANGED <<advises, m_ev, m_dwAdvise>>
  ELSE LET taken == {a.cookie : a \in advises} \cup {m_dwAdvise}
           cookie == Min((1 .. Cardinality(taken) + 1) \ taken)
       IN /\ AdviseTime(cookie, start + stream[n].start, m_RenderEvent)
          /\ m_dwAdvise' = cookie
          /\ UNCHANGED signalled

(* Mutant: m_RenderEvent stays as it is. *)
CancelNotification_KeepsEvent ==
  /\ Unadvise(m_dwAdvise) /\ m_dwAdvise' = 0
  /\ UNCHANGED signalled

CancelNotification ==
  /\ Unadvise(m_dwAdvise) /\ m_dwAdvise' = 0
  /\ signalled' = signalled \ {m_RenderEvent}

(* Mutant: the sample stays. *)
ClearPendingSample_Keeps == UNCHANGED m_pMediaSample

ClearPendingSample == m_pMediaSample' = NULL

(* NotifyEndOfStream sends EC_COMPLETE unless the state has changed. *)
NotifyEndOfStream(streaming) ==
  /\ m_bEOSDelivered' = (m_bEOSDelivered \/ streaming)
  /\ m_EndOfStreamTimer' = 0
  /\ UNCHANGED timers

(* SendEndOfStream: when the last sample ends, or now if that is near or   *)
(* CompatibleTimeSetEvent fails.  The parameters are what the caller has   *)
(* set before.  Mutant: it does not wait.                                  *)
SendEndOfStream_NoWait(eos, streaming, start, timer) ==
  IF ~eos \/ m_bEOSDelivered \/ timer # 0
  THEN m_EndOfStreamTimer' = timer /\ UNCHANGED <<m_bEOSDelivered, timers>>
  ELSE NotifyEndOfStream(streaming)

SendEndOfStream(eos, streaming, start, timer) ==
  LET delay == start + m_SignalTime - m_rtPrivateTime
  IN IF ~eos \/ m_bEOSDelivered \/ timer # 0
     THEN m_EndOfStreamTimer' = timer /\ UNCHANGED <<m_bEOSDelivered, timers>>
     ELSE IF delay < DeliveryWait \/ noTimer
     THEN NotifyEndOfStream(streaming)
     ELSE LET id == Min(TimerIds \ {t.id : t \in timers})
          IN /\ m_EndOfStreamTimer' = id
             /\ timers' = timers \cup {[id |-> id, left |-> delay]}
             /\ UNCHANGED m_bEOSDelivered

(* timeKillEvent has returned: its callback is not running. *)
Killed == callback = 0 \/ callback # killed

Kill ==
  IF killed = 0 THEN UNCHANGED <<m_EndOfStreamTimer, timers>>
  ELSE /\ m_EndOfStreamTimer' = 0
       /\ timers' = {t \in timers : t.id # killed}

-----------------------------------------------------------------------------
(* The source thread in CRendererInputPin::Receive.                        *)
Return(result) == receive' = "none" /\ pSample' = NULL /\ hr' = result

BeginReceive(n) ==
  /\ receive = "none"
  /\ receive' = "prepare" /\ pSample' = n /\ stale' = FALSE
  /\ UNCHANGED <<clockVars, stream, noTimer, flow, pending, m_dwAdvise, events,
                 m_bInReceive, ending, callback, refusals, hr, controlVars, overtaken>>

(* PrepareReceive: m_bInReceive stays FALSE if it fails.                   *)
Accepts == CheckStreaming /\ stream[pSample].kind # "refused"

PrepareReceive ==
  /\ receive = "prepare" /\ InterfaceFree
  /\ IF ~Accepts
     THEN /\ receive' = "failed"
          /\ UNCHANGED <<clockVars, pending, m_dwAdvise, m_evComplete, m_bInReceive,
                         pSample, hr>>
     ELSE IF m_pMediaSample # NULL \/ m_bEOS \/ m_bAbort
     THEN /\ m_evComplete' = TRUE /\ receive' = "failed"
          /\ UNCHANGED <<clockVars, pending, m_dwAdvise, m_bInReceive, pSample, hr>>
     ELSE IF m_bStreaming /\ ~WellTimed(pSample)
     THEN /\ Return("ok")
          /\ UNCHANGED <<clockVars, pending, m_dwAdvise, m_evComplete, m_bInReceive>>
     ELSE /\ IF m_bStreaming THEN ScheduleSample(pSample, m_tStart)
             ELSE UNCHANGED <<advises, m_ev, signalled, m_dwAdvise>>
          /\ m_SignalTime' = stream[pSample].stop
          /\ m_pMediaSample' = pSample
          /\ m_bInReceive' = TRUE
          /\ receive' = "prepared"
          /\ UNCHANGED <<m_rtPrivateTime, threadVars, m_evComplete, pSample, hr>>
  /\ UNCHANGED <<stream, noTimer, flow, m_ThreadSignal, ending, callback, refusals,
                 controlVars, renderHistory>>

(* The state is read without a lock. *)
CheckPaused ==
  /\ receive = "prepared"
  /\ IF m_State = "Paused" THEN m_bInReceive' = FALSE /\ receive' = "first"
     ELSE UNCHANGED m_bInReceive /\ receive' = "wait"
  /\ UNCHANGED <<clockVars, stream, noTimer, flow, pending, m_dwAdvise, events, ending,
                 callback, refusals, pSample, hr, controlVars, renderHistory>>

(* OnReceiveFirstSample, unless stopped meanwhile. *)
ReceiveFirstSample ==
  /\ receive = "first" /\ InterfaceFree
  /\ IF m_State = "Stopped" THEN Return("ok") /\ UNCHANGED m_bInReceive
     ELSE receive' = "ready" /\ m_bInReceive' = TRUE /\ UNCHANGED <<pSample, hr>>
  /\ UNCHANGED <<clockVars, stream, noTimer, flow, pending, m_dwAdvise, events, ending,
                 callback, refusals, controlVars, renderHistory>>

(* Mutant: the state change is not completed. *)
FirstReady_Silent ==
  /\ receive = "ready"
  /\ receive' = "wait"
  /\ UNCHANGED <<clockVars, stream, noTimer, flow, pending, m_dwAdvise, events,
                 m_bInReceive, ending, callback, refusals, pSample, hr, controlVars,
                 renderHistory>>

FirstReady ==
  /\ receive = "ready"
  /\ m_evComplete' = TRUE
  /\ receive' = "wait"
  /\ UNCHANGED <<clockVars, stream, noTimer, flow, pending, m_dwAdvise, m_ThreadSignal,
                 m_bInReceive, ending, callback, refusals, pSample, hr, controlVars,
                 renderHistory>>

(* WaitForRenderTime: m_ThreadSignal goes before m_RenderEvent, which      *)
(* resets itself.                                                          *)
Released ==
  /\ receive = "wait" /\ m_ThreadSignal
  /\ m_bInReceive' = FALSE
  /\ Return("ok")
  /\ UNCHANGED <<clockVars, stream, noTimer, flow, pending, m_dwAdvise, events, ending,
                 callback, refusals, controlVars, renderHistory>>

ComesDue ==
  /\ receive = "wait" /\ ~m_ThreadSignal /\ m_RenderEvent \in signalled
  /\ signalled' = signalled \ {m_RenderEvent}
  /\ receive' = "due"
  /\ UNCHANGED <<m_rtPrivateTime, advises, m_ev, threadVars, stream, noTimer, flow, pending,
                 m_dwAdvise, events, m_bInReceive, ending, callback, refusals, pSample, hr,
                 controlVars, renderHistory>>

(* Without a lock: SignalTimerFired, PrepareRender, m_bInReceive. *)
SignalTimerFired ==
  /\ receive = "due"
  /\ m_dwAdvise' = 0 /\ m_bInReceive' = FALSE
  /\ receive' = "render"
  /\ UNCHANGED <<clockVars, stream, noTimer, flow, pending, events, ending, callback,
                 refusals, pSample, hr, controlVars, renderHistory>>

Draws ==
  /\ receive = "render" /\ InterfaceFree
  /\ m_State # "Stopped" /\ m_bStreaming /\ m_pMediaSample # NULL

(* The rest of Receive, under both locks: Render draws if streaming.       *)
Render ==
  /\ receive = "render" /\ InterfaceFree
  /\ IF m_State = "Stopped"
     THEN UNCHANGED <<m_pMediaSample, ending, m_dwAdvise, advises, signalled>>
     ELSE /\ ClearPendingSample
          /\ SendEndOfStream(m_bEOS, m_bStreaming, m_tStart, m_EndOfStreamTimer)
          /\ CancelNotification
          /\ UNCHANGED m_bEOS
  /\ Return("ok")
  /\ UNCHANGED <<m_rtPrivateTime, m_ev, threadVars, stream, noTimer, flow, m_SignalTime,
                 events, m_bInReceive, callback, refusals, controlVars, renderHistory>>

(* CRendererInputPin::Receive after a failure: the first one is reported,  *)
(* together with the end of the stream.                                    *)
ReportError ==
  /\ receive = "failed" /\ InterfaceFree
  /\ IF m_State # "Stopped" /\ ~m_bFlushing /\ ~m_bAbort /\ ~m_bRunTimeError
     THEN /\ m_bRunTimeError' = TRUE
          /\ IF m_bStreaming /\ ~m_bEOSDelivered THEN NotifyEndOfStream(TRUE)
             ELSE UNCHANGED <<m_bEOSDelivered, m_EndOfStreamTimer, timers>>
     ELSE UNCHANGED <<m_bRunTimeError, m_bEOSDelivered, m_EndOfStreamTimer, timers>>
  /\ Return("error")
  /\ UNCHANGED <<clockVars, stream, noTimer, flow, pending, m_dwAdvise, events,
                 m_bInReceive, m_bEOS, callback, m_bAbort, m_bFlushing, controlVars,
                 renderHistory>>

(* CRendererInputPin::EndOfStream. *)
Waiting == m_pMediaSample # NULL

EndOfStream ==
  /\ receive = "none" /\ InterfaceFree
  /\ IF ~CheckStreaming THEN UNCHANGED <<ending, m_evComplete>>
     ELSE /\ m_bEOS' = TRUE
          /\ IF Waiting
             THEN UNCHANGED <<m_evComplete, m_bEOSDelivered, m_EndOfStreamTimer, timers>>
             ELSE /\ m_evComplete' = TRUE
                  /\ IF m_bStreaming
                     THEN SendEndOfStream(TRUE, TRUE, m_tStart, m_EndOfStreamTimer)
                     ELSE UNCHANGED <<m_bEOSDelivered, m_EndOfStreamTimer, timers>>
  /\ UNCHANGED <<clockVars, stream, noTimer, flow, pending, m_dwAdvise, m_ThreadSignal,
                 m_bInReceive, callback, refusals, sourceVars, controlVars, renderHistory>>

-----------------------------------------------------------------------------
(* The timer's thread.                                                     *)
TimerFires ==
  /\ callback = 0
  /\ \E t \in timers :
       /\ t.left = 0
       /\ callback' = t.id /\ timers' = timers \ {t}
  /\ UNCHANGED <<clockVars, stream, noTimer, flow, pending, m_dwAdvise, events,
                 m_bInReceive, m_bEOS, m_bEOSDelivered, m_EndOfStreamTimer, refusals,
                 sourceVars, controlVars, renderHistory>>

(* Mutant: the timer stays set. *)
TimerCallback_KeepsTimer ==
  /\ callback # 0 /\ RendererFree
  /\ SendEndOfStream(m_bEOS, m_bStreaming, m_tStart, m_EndOfStreamTimer)
  /\ callback' = 0
  /\ UNCHANGED <<clockVars, stream, noTimer, flow, pending, m_dwAdvise, events,
                 m_bInReceive, m_bEOS, refusals, sourceVars, controlVars, renderHistory>>

TimerCallback ==
  /\ callback # 0 /\ RendererFree
  /\ IF m_EndOfStreamTimer # 0
     THEN SendEndOfStream(m_bEOS, m_bStreaming, m_tStart, 0)
     ELSE UNCHANGED <<m_bEOSDelivered, m_EndOfStreamTimer, timers>>
  /\ callback' = 0
  /\ UNCHANGED <<clockVars, stream, noTimer, flow, pending, m_dwAdvise, events,
                 m_bInReceive, m_bEOS, refusals, sourceVars, controlVars, renderHistory>>

(* The window's thread: OnDisplayChange. *)
OnDisplayChange ==
  /\ RendererFree /\ ~m_bAbort
  /\ m_bAbort' = TRUE /\ ClearPendingSample
  /\ UNCHANGED <<clockVars, stream, noTimer, flow, m_SignalTime, m_dwAdvise, events,
                 m_bInReceive, ending, callback, m_bFlushing, m_bRunTimeError, sourceVars,
                 controlVars, renderHistory>>

-----------------------------------------------------------------------------
(* The control thread.  Stop: CBaseFilter::Stop with Inactive,             *)
(* StopStreaming.                                                          *)
Stop ==
  /\ control = "none" /\ m_State # "Stopped"
  /\ m_bRunTimeError' = FALSE /\ ClearPendingSample
  /\ m_State' = "Stopped"
  /\ m_bStreaming' = FALSE /\ m_bEOSDelivered' = FALSE
  /\ stale' = TRUE
  /\ control' = "stopped"
  /\ UNCHANGED <<clockVars, stream, noTimer, m_tStart, m_SignalTime, m_dwAdvise, events,
                 m_bInReceive, m_bEOS, m_EndOfStreamTimer, timers, callback, m_bAbort,
                 m_bFlushing, sourceVars, oldState, killed, overtaken>>

(* Stop, SourceThreadCanWait(FALSE).  Mutant: the source thread waits on.  *)
StopRelease_KeepsWaiting ==
  /\ control = "stopped"
  /\ killed' = m_EndOfStreamTimer
  /\ control' = "stopKill"
  /\ UNCHANGED <<clockVars, stream, noTimer, flow, pending, m_dwAdvise, events,
                 m_bInReceive, ending, callback, refusals, sourceVars, oldState,
                 renderHistory>>

StopRelease ==
  /\ control = "stopped"
  /\ m_ThreadSignal' = TRUE
  /\ killed' = m_EndOfStreamTimer
  /\ control' = "stopKill"
  /\ UNCHANGED <<clockVars, stream, noTimer, flow, pending, m_dwAdvise, m_evComplete,
                 m_bInReceive, ending, callback, refusals, sourceVars, oldState,
                 renderHistory>>

(* Stop, ResetEndOfStream, CancelNotification, Ready. *)
StopReset ==
  /\ control = "stopKill" /\ Killed
  /\ Kill /\ killed' = 0
  /\ m_bEOS' = FALSE /\ m_bEOSDelivered' = FALSE /\ m_SignalTime' = 0
  /\ CancelNotification
  /\ m_evComplete' = TRUE
  /\ control' = "stopWait"
  /\ UNCHANGED <<m_rtPrivateTime, m_ev, threadVars, stream, noTimer, flow, m_pMediaSample,
                 m_ThreadSignal, m_bInReceive, callback, refusals, sourceVars, oldState,
                 renderHistory>>

(* Stop, WaitForReceiveToComplete. *)
StopDone ==
  /\ control = "stopWait" /\ ~m_bInReceive
  /\ m_bAbort' = FALSE
  /\ control' = "none"
  /\ UNCHANGED <<clockVars, stream, noTimer, flow, pending, m_dwAdvise, events,
                 m_bInReceive, ending, callback, m_bFlushing, m_bRunTimeError, sourceVars,
                 oldState, killed, renderHistory>>

(* Pause, or the Pause inside Run.                                         *)
Pause(next) ==
  /\ control = "none" /\ m_State # "Paused"
  /\ m_State' = "Paused" /\ oldState' = m_State
  /\ m_bStreaming' = FALSE /\ m_bEOSDelivered' = FALSE
  /\ m_ThreadSignal' = FALSE
  /\ CancelNotification
  /\ killed' = m_EndOfStreamTimer
  /\ control' = next
  /\ UNCHANGED <<m_rtPrivateTime, m_ev, threadVars, stream, noTimer, m_tStart, pending,
                 m_evComplete, m_bInReceive, m_bEOS, m_EndOfStreamTimer, timers, callback,
                 refusals, sourceVars, renderHistory>>

(* Pause, the rest: CompleteStateChange.  Run goes on from there. *)
PauseDone ==
  /\ control \in {"pauseKill", "runKill"} /\ Killed
  /\ Kill /\ killed' = 0
  /\ IF oldState = "Stopped" THEN m_bAbort' = FALSE /\ ClearPendingSample
     ELSE UNCHANGED <<m_bAbort, m_pMediaSample>>
  /\ m_evComplete' = (m_bEOS \/ (m_pMediaSample # NULL /\ oldState # "Stopped"))
  /\ control' = IF control = "runKill" THEN "run" ELSE "none"
  /\ UNCHANGED <<clockVars, stream, noTimer, flow, m_SignalTime, m_dwAdvise, m_ThreadSignal,
                 m_bInReceive, m_bEOS, m_bEOSDelivered, callback, m_bFlushing,
                 m_bRunTimeError, sourceVars, oldState, renderHistory>>

(* Pause in Paused: CompleteStateChange alone. *)
PauseAgain ==
  /\ control = "none" /\ m_State = "Paused"
  /\ m_evComplete' = (m_bEOS \/ m_pMediaSample # NULL)
  /\ UNCHANGED <<clockVars, stream, noTimer, flow, pending, m_dwAdvise, m_ThreadSignal,
                 m_bInReceive, ending, callback, refusals, sourceVars, controlVars,
                 renderHistory>>

(* StartStreaming.                                                         *)
(* Mutant: the sample that waits is not scheduled.                         *)
StartStreaming_NoSchedule(tStart) ==
  /\ UNCHANGED <<advises, m_ev, signalled, m_dwAdvise>>
  /\ IF m_pMediaSample = NULL THEN SendEndOfStream(m_bEOS, TRUE, tStart, m_EndOfStreamTimer)
     ELSE UNCHANGED <<m_bEOSDelivered, m_EndOfStreamTimer, timers>>

StartStreaming(tStart) ==
  IF m_pMediaSample = NULL
  THEN /\ SendEndOfStream(m_bEOS, TRUE, tStart, m_EndOfStreamTimer)
       /\ UNCHANGED <<advises, m_ev, signalled, m_dwAdvise>>
  ELSE /\ IF WellTimed(m_pMediaSample) THEN ScheduleSample(m_pMediaSample, tStart)
          ELSE /\ signalled' = signalled \cup {m_RenderEvent}
               /\ UNCHANGED <<advises, m_ev, m_dwAdvise>>
       /\ UNCHANGED <<m_bEOSDelivered, m_EndOfStreamTimer, timers>>

(* Run from Paused, or the rest of a Run from Stopped: its Ready came      *)
(* before the Pause.                                                       *)
Run(tStart) ==
  /\ \/ control = "none" /\ m_State = "Paused" /\ m_evComplete' = TRUE /\ UNCHANGED m_bAbort
     \/ control = "run" /\ m_bAbort' = FALSE /\ UNCHANGED m_evComplete
  /\ m_State' = "Running" /\ m_tStart' = tStart /\ m_bStreaming' = TRUE
  /\ m_ThreadSignal' = FALSE
  /\ StartStreaming(tStart)
  /\ overtaken' = (overtaken \/ receive \in {"due", "render"})
  /\ control' = "none"
  /\ UNCHANGED <<m_rtPrivateTime, threadVars, stream, noTimer, pending, m_bInReceive,
                 m_bEOS, callback, m_bFlushing, m_bRunTimeError, sourceVars, oldState,
                 killed, stale>>

(* BeginFlush, up to the wait for Receive, under both locks. *)
BeginFlush ==
  /\ control = "none" /\ ~m_bFlushing
  /\ m_bFlushing' = TRUE
  /\ m_evComplete' = (m_evComplete /\ m_State # "Paused")
  /\ m_ThreadSignal' = TRUE
  /\ CancelNotification /\ ClearPendingSample
  /\ stale' = TRUE
  /\ control' = "flushing"
  /\ UNCHANGED <<m_rtPrivateTime, m_ev, threadVars, stream, noTimer, flow, m_SignalTime,
                 m_bInReceive, ending, callback, m_bAbort, m_bRunTimeError, sourceVars,
                 oldState, killed, overtaken>>

(* Receive is over: ResetEndOfStream, no longer under m_RendererLock. *)
FlushWaited ==
  /\ control = "flushing" /\ ~m_bInReceive
  /\ killed' = m_EndOfStreamTimer
  /\ control' = "flushKill"
  /\ UNCHANGED <<clockVars, stream, noTimer, flow, pending, m_dwAdvise, events,
                 m_bInReceive, ending, callback, refusals, sourceVars, oldState,
                 renderHistory>>

FlushReset ==
  /\ control = "flushKill" /\ Killed
  /\ Kill /\ killed' = 0
  /\ m_bEOS' = FALSE /\ m_bEOSDelivered' = FALSE /\ m_SignalTime' = 0
  /\ control' = "none"
  /\ UNCHANGED <<clockVars, stream, noTimer, flow, m_pMediaSample, m_dwAdvise, events,
                 m_bInReceive, callback, refusals, sourceVars, oldState, renderHistory>>

EndFlush ==
  /\ control = "none" /\ m_bFlushing
  /\ m_ThreadSignal' = FALSE
  /\ m_bFlushing' = FALSE /\ m_bRunTimeError' = FALSE
  /\ UNCHANGED <<clockVars, stream, noTimer, flow, pending, m_dwAdvise, m_evComplete,
                 m_bInReceive, ending, callback, m_bAbort, sourceVars, controlVars,
                 renderHistory>>
=============================================================================
