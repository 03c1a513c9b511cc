------------------------------- MODULE Playback -------------------------------
(***************************************************************************)
(* A graph of a pulling source (PullPin) and a renderer (BaseRenderer) on  *)
(* one clock (ReferenceClock), under a graph manager.                      *)
(*                                                                         *)
(* External: the parser between the two, which hands each chunk on in      *)
(* Receive with the times it has in `stream`, and passes EndOfStream,      *)
(* BeginFlush and EndFlush on; the manager, which has one command at a     *)
(* time carried out, by the renderer before the source.                    *)
(***************************************************************************)
EXTENDS BaseRenderer

CONSTANTS
  Chunks,       \* the number of chunks of the file, a frame each
  Positions,    \* the chunks it is sought to, or the end
  MaxEvents     \* bound: commands of the manager and what else may happen

ASSUME PlaybackAssumption ==
  /\ Chunks \in Nat \ {0} /\ Positions \subseteq 1 .. Chunks + 1
  /\ \A s \in Streams : Len(s) = Chunks

VARIABLES
  m_bSync, pullState, pullStart, m_hThread,
  m_EventSend, m_dwParam, m_EventComplete,
  committed, readerFlushing, outstanding, worker, tCurrent, caller,
  manager,    \* what the manager waits for
  goal,       \* where it seeks to
  happened    \* how many commands it has given, and what else has happened

Pull == INSTANCE PullPin WITH m_State <- pullState, m_tStart <- pullStart

pullVars == <<m_bSync, pullState, pullStart, m_hThread, m_EventSend, m_dwParam, m_EventComplete,
              committed, readerFlushing, outstanding, worker, tCurrent, caller>>
managerVars == <<manager, goal, happened>>
vars == <<clockVars, rendererVars, pullVars, managerVars>>

Init ==
  /\ ClockInit /\ RendererInit /\ Pull!PullInit
  /\ manager = "idle" /\ goal = 1 /\ happened = 0

-----------------------------------------------------------------------------
(* The source thread: the worker, and the renderer's Receive inside it.    *)
InPull == UNCHANGED <<clockVars, rendererVars, managerVars>>
InRenderer == UNCHANGED <<pullVars, managerVars>>

Deliver ==
  /\ worker = "deliver" /\ receive = "none" /\ hr = "none"
  /\ BeginReceive(Pull!Delivering)
  /\ InRenderer

Delivered ==
  /\ receive = "none" /\ hr # "none"
  /\ Pull!Delivered(hr = "ok")
  /\ hr' = "none"
  /\ UNCHANGED <<clockVars, stream, noTimer, flow, pending, m_dwAdvise, events,
                 m_bInReceive, ending, callback, refusals, receive, pSample, controlVars,
                 renderHistory, managerVars>>

DeliverEndOfStream == EndOfStream /\ Pull!EndProcess /\ UNCHANGED managerVars

PullStep ==
  /\ \/ Pull!GetRequest \/ Pull!EndOfLoop \/ Pull!SyncRead \/ Pull!QueueSample
     \/ Pull!EndOfQueue \/ Pull!CleanupCancelled
     \/ Pull!ReaderRefuses /\ Pull!ReadFails
  /\ InPull

(* A chunk that was requested arrives: the reader may never answer. *)
ChunkArrives == Pull!Collect /\ InPull

ReceiveStep ==
  /\ \/ PrepareReceive \/ CheckPaused \/ ReceiveFirstSample \/ FirstReady
     \/ Released \/ ComesDue \/ SignalTimerFired \/ Render \/ ReportError
  /\ InRenderer

SourceStep == Deliver \/ Delivered \/ DeliverEndOfStream \/ PullStep \/ ReceiveStep

-----------------------------------------------------------------------------
(* The manager.  Each command goes to the renderer first.                  *)
Begin(what) ==
  /\ manager = "idle" /\ happened < MaxEvents
  /\ manager' = what /\ happened' = happened + 1

(* A start time that is now, or that of the run before. *)
StartTimes == {m_rtPrivateTime, m_tStart} \ {0}

(* Bound: the clock stops at MaxTime, so Run is given only with time left  *)
(* to play everything, and no time is lost while it begins or while a      *)
(* timer runs.                                                             *)
Horizon == Max({0} \cup {stream[n].stop : n \in 1 .. Chunks})
TimeLeft(tStart) == tStart + Horizon <= MaxTime

Idle == control = "none" /\ caller = "none"

BeginStop == Begin("stop") /\ Stop /\ UNCHANGED <<pullVars, goal>>

(* Inactive of the source's pin: StopThread. *)
StopSource ==
  /\ manager = "stop" /\ Idle
  /\ Pull!BeginReaderFlush("TM_Exit")
  /\ manager' = "finish"
  /\ UNCHANGED <<clockVars, rendererVars, goal, happened>>

BeginPause ==
  /\ m_State # "Stopped" \/ ~m_hThread
  /\ Begin("start") /\ (Pause("pauseKill") \/ PauseAgain)
  /\ UNCHANGED <<pullVars, goal>>

BeginRun ==
  /\ Begin("start")
  /\ \/ \E tStart \in StartTimes : TimeLeft(tStart) /\ Run(tStart)
     \/ m_State = "Stopped" /\ TimeLeft(m_rtPrivateTime) /\ Pause("runKill")
  /\ UNCHANGED <<pullVars, goal>>

(* Run from Stopped, after its Pause. *)
ContinueRun ==
  /\ manager = "start" /\ control = "run"
  /\ \E tStart \in StartTimes : Run(tStart)
  /\ UNCHANGED <<pullVars, managerVars>>

(* Active of the source's pin, unless it is active. *)
StartSource ==
  /\ manager = "start" /\ Idle
  /\ IF m_hThread THEN UNCHANGED pullVars ELSE Pull!StartThread(pullStart)
  /\ manager' = "finish"
  /\ UNCHANGED <<clockVars, rendererVars, goal, happened>>

(* Seek: BeginFlush, PauseThread, EndFlush, StartThread. *)
BeginSeek ==
  /\ pullState = "TM_Start"
  /\ Begin("flush") /\ BeginFlush
  /\ goal' \in Positions
  /\ UNCHANGED pullVars

SeekPause ==
  /\ manager = "flush" /\ Idle
  /\ Pull!BeginReaderFlush("TM_Pause")
  /\ manager' = "paused"
  /\ UNCHANGED <<clockVars, rendererVars, goal, happened>>

SeekEndFlush ==
  /\ manager = "paused" /\ Idle
  /\ EndFlush
  /\ manager' = "restart"
  /\ UNCHANGED <<pullVars, goal, happened>>

SeekStart ==
  /\ manager = "restart" /\ Idle
  /\ Pull!StartThread(goal)
  /\ manager' = "finish" /\ goal' = 1
  /\ UNCHANGED <<clockVars, rendererVars, happened>>

SeekWhileStopped ==
  /\ Begin("finish")
  /\ \E position \in Positions : Pull!SeekIdle(position)
  /\ UNCHANGED <<clockVars, rendererVars, goal>>

Finish ==
  /\ manager = "finish" /\ Idle
  /\ manager' = "idle"
  /\ UNCHANGED <<clockVars, rendererVars, pullVars, goal, happened>>

CallStep == (Pull!CallFlushed \/ Pull!Replied \/ Pull!Close) /\ InPull

ControlStep ==
  /\ \/ StopRelease \/ StopReset \/ StopDone \/ PauseDone \/ FlushWaited \/ FlushReset
  /\ InRenderer

NewCommand == BeginStop \/ BeginPause \/ BeginRun \/ BeginSeek \/ SeekWhileStopped

ManagerStep ==
  \/ StopSource \/ ContinueRun \/ StartSource \/ SeekPause \/ SeekEndFlush \/ SeekStart
  \/ Finish \/ CallStep \/ ControlStep

-----------------------------------------------------------------------------
(* Time, and the threads of the clock and of the timer.                    *)
ClockStep == (Wake \/ Advise) /\ UNCHANGED <<rendererVars, pullVars, managerVars>>

BeginningRun == control \in {"runKill", "run"}

TimePasses ==
  /\ Tick /\ (BeginningRun => TimeLeft(m_rtPrivateTime'))
  /\ timers' = {[t EXCEPT !.left = IF @ > 0 THEN @ - 1 ELSE 0] : t \in timers}
  /\ UNCHANGED <<stream, noTimer, flow, pending, m_dwAdvise, events, m_bInReceive, m_bEOS,
                 m_bEOSDelivered, m_EndOfStreamTimer, callback, refusals, sourceVars,
                 controlVars, renderHistory, pullVars, managerVars>>

TimerStep == (TimerFires \/ TimerCallback) /\ InRenderer

(* What else may happen: the clock is corrected, the display changes, the  *)
(* source cannot read, the system runs out of timers or has some again.    *)
(* Bound: the clock reaches what is advised, though the thread oversleeps. *)
Correction ==
  /\ \E delta \in Deltas : SetTimeDelta(delta)
  /\ BeginningRun => TimeLeft(m_rtPrivateTime')
  /\ \A t \in timers : m_rtPrivateTime' + t.left <= MaxTime
  /\ \A a \in advises : a.time + unnoticed' <= MaxTime
  /\ UNCHANGED <<rendererVars, pullVars>>

TimersChange ==
  /\ noTimer' = ~noTimer
  /\ UNCHANGED <<clockVars, stream, flow, pending, m_dwAdvise, events, m_bInReceive, ending,
                 callback, refusals, sourceVars, controlVars, renderHistory, pullVars>>

Trouble ==
  /\ happened < MaxEvents /\ happened' = happened + 1
  /\ \/ Correction
     \/ OnDisplayChange /\ UNCHANGED pullVars
     \/ Pull!ReadFails /\ UNCHANGED <<clockVars, rendererVars>>
     \/ TimersChange
  /\ UNCHANGED <<manager, goal>>

Next ==
  \/ SourceStep \/ ChunkArrives \/ NewCommand \/ ManagerStep \/ ClockStep \/ TimePasses \/ TimerStep
  \/ Trouble

Fairness ==
  /\ WF_vars(SourceStep) /\ WF_vars(ManagerStep)
  /\ WF_vars(ClockStep) /\ WF_vars(TimePasses) /\ WF_vars(TimerStep)

Spec == Init /\ [][Next]_vars /\ Fairness

-----------------------------------------------------------------------------
TypeOK ==
  /\ ClockTypeOK
  /\ m_State \in {"Stopped", "Paused", "Running"}
  /\ noTimer \in BOOLEAN
  /\ m_pMediaSample \in 0 .. Chunks /\ pSample \in 0 .. Chunks
  /\ m_EndOfStreamTimer \in TimerIds \cup {0}
  /\ {t.id : t \in timers} \subseteq TimerIds
  /\ outstanding \in 0 .. 2 /\ tCurrent \in 1 .. Chunks + 1

(* A frame is drawn at its time or later, however it is paused, run and    *)
(* sought and the clock put forward (renbase.cpp:917-970) -- unless a      *)
(* Pause and a Run came between the moment its time had come and the       *)
(* drawing: it is then scheduled once more and drawn nevertheless, and the *)
(* second advise may be forgotten and fire for the next frame.             *)
NotEarly ==
  [][Draws /\ receive' = "none" =>
       \/ stream[m_pMediaSample].kind = "untimed" \/ ~WellTimed(m_pMediaSample)
       \/ m_rtPrivateTime + Lead >= m_tStart + stream[m_pMediaSample].start
       \/ overtaken]_vars

(* What was delivered before a seek or a stop is not drawn once it has     *)
(* begun (renbase.cpp:407-443, 706-710).                                   *)
NothingStale == Draws => ~stale

(* EC_COMPLETE says that the stream has been played to its end: the source *)
(* has handed over everything, nothing waits to be drawn, and the last     *)
(* frame is over or nearly so (renbase.cpp:1255-1293) -- unless no timer   *)
(* can be had, when it comes as soon as everything was drawn.  An error    *)
(* reports it as well.  A frame whose times are out of order has no end:   *)
(* it is dropped before m_SignalTime is set (renbase.cpp:1094-1102).       *)
EndTime == IF pullStart <= Chunks /\ WellTimed(Chunks) THEN stream[Chunks].stop ELSE 0

CompleteAtEnd ==
  [][m_bEOSDelivered' /\ ~m_bEOSDelivered =>
       \/ m_bRunTimeError'
       \/ /\ tCurrent > Chunks /\ outstanding = 0
          /\ m_pMediaSample' = NULL
          /\ noTimer \/ m_rtPrivateTime + DeliveryWait > m_tStart' + EndTime]_vars

(* Stop, Pause, Run and Seek return (renbase.cpp:150-153, 277-279).        *)
CommandsReturn == manager # "idle" ~> manager = "idle"

(* While running, whoever waits in Receive gets its frame drawn or is let  *)
(* go, and the end of the stream is reported.  Once the display has        *)
(* changed (m_bAbort) a waiter may be left waiting until the graph is      *)
(* stopped (renbase.cpp:1488-1492).                                        *)
PlaysOn ==
  /\ receive = "wait" /\ m_bStreaming ~> receive # "wait" \/ ~m_bStreaming \/ m_bAbort
  /\ m_bEOS /\ m_bStreaming ~> m_bEOSDelivered \/ ~m_bEOS \/ ~m_bStreaming

(* A pause is completed by a frame or by the end of the stream             *)
(* (renbase.cpp:323-326, 335-337), unless the source gave up or the        *)
(* picture was taken away.                                                 *)
GivenUp == worker = "request" /\ ~m_EventSend /\ ~m_bEOS

PauseCompletes ==
  WF_vars(ChunkArrives) =>
  (m_State = "Paused" /\ ~m_evComplete /\ manager = "idle"
    ~> m_evComplete \/ m_State # "Paused" \/ manager # "idle" \/ GivenUp \/ m_bAbort)
=============================================================================
