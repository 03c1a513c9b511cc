---------------------------- MODULE PlaybackProofs ----------------------------
(***************************************************************************)
(* The thread of the reference clock oversleeps an advise by the           *)
(* negligible corrections at most, for all clients (ClockSpec).  Playback  *)
(* implements the clock: whatever the renderer, the source, the manager    *)
(* and the timer do, to the clock they are clients.  So the same is true   *)
(* of the advises of the renderer.                                         *)
(*                                                                         *)
(* NoOversleep is not inductive: between the moment the thread has read    *)
(* the time and the moment it works out its wait, the clock may be         *)
(* corrected.  Unless that has set m_ev, it was negligible and is counted  *)
(* in unnoticed, or nothing was advised then, and what is advised later is *)
(* a new head.                                                             *)
(*                                                                         *)
(* Then the graph itself, for every stream and every number of chunks.     *)
(* Its inductive invariant, PlaybackInv, says what each of the manager's   *)
(* thread, the source thread and the timer may rely on while another is    *)
(* at work:                                                                *)
(*   ProtocolInv   which command and which request go with which state     *)
(*   CountInv      how far the chunks have been requested and handed over  *)
(*   SampleInv     which chunk Receive and the renderer hold               *)
(*   ScheduleInv   one advise at most, at the start of the sample held     *)
(*   EndInv        what m_SignalTime and m_bEOS say of the end             *)
(* From it follow NothingStale, NotEarly and CompleteAtEnd.                *)
(***************************************************************************)
EXTENDS Playback, TLAPS

TimeStillRight ==
  advising /\ ~m_ev => m_rtPrivateTime <= rtNow + unnoticed \/ advises = {}

ClockInv == ClockTypeOK /\ NoOversleep /\ TimeStillRight

-----------------------------------------------------------------------------
(* A client's call. *)
LEMMA ClientKeeps ==
  ASSUME ClockInv, Client
  PROVE ClockInv'
<1> USE DEF ClockInv, ClockTypeOK
<1>1. UNCHANGED <<m_rtPrivateTime, dwWait, advising, rtNow, unnoticed>>
  BY DEF Client, threadVars
<1>2. CASE \E cookie \in Nat, time \in Nat, event \in Handles :
             AdviseTime(cookie, time, event) /\ UNCHANGED signalled
  <2>1. PICK cookie \in Nat, time \in Nat, event \in Handles :
          AdviseTime(cookie, time, event) /\ UNCHANGED signalled
    BY <1>2
  <2>2. cookie \in Nat \ {0}
    BY <2>1 DEF AdviseTime
  <2> DEFINE new == [cookie |-> cookie, time |-> time, notify |-> event]
  <2>3. new \in Packets
    BY <2>1, <2>2 DEF Packets
  <2>4. /\ advises' = advises \cup {new}
        /\ m_ev' = (m_ev \/ \A a \in advises : a.time >= time)
    BY <2>1 DEF AdviseTime, AddAdvisePacket
  <2>5. ClockTypeOK'
    BY <1>1, <2>1, <2>3, <2>4 DEF threadVars
  <2>6. NoOversleep'
    <3> SUFFICES ASSUME ~advising, ~m_ev', NEW a \in advises'
                 PROVE dwWait # INFINITE /\ m_rtPrivateTime + dwWait <= a.time + unnoticed
      BY <1>1 DEF NoOversleep
    <3>1. PICK b \in advises : ~(b.time >= time) /\ ~m_ev
      BY <2>4
    <3>2. dwWait # INFINITE /\ m_rtPrivateTime + dwWait <= b.time + unnoticed
      BY <3>1 DEF NoOversleep
    <3>3. CASE a \in advises
      BY <3>1, <3>3 DEF NoOversleep
    <3>4. CASE a = new
      <4>1. b.time \in Nat /\ a.time = time
        BY <3>1, <3>4 DEF Packets
      <4> QED
        BY <3>1, <3>2, <4>1, <2>1 DEF INFINITE
    <3> QED
      BY <2>4, <3>3, <3>4
  <2>7. TimeStillRight'
    BY <1>1, <2>4 DEF TimeStillRight
  <2> QED
    BY <2>5, <2>6, <2>7
<1>3. CASE /\ advises' \subseteq advises /\ UNCHANGED m_ev
           /\ signalled' \subseteq signalled \cup Handles
  <2>1. ClockTypeOK'
    BY <1>1, <1>3
  <2>2. NoOversleep'
    BY <1>1, <1>3 DEF NoOversleep
  <2>3. TimeStillRight'
    BY <1>1, <1>3 DEF TimeStillRight
  <2> QED
    BY <2>1, <2>2, <2>3
<1> QED
  BY <1>2, <1>3 DEF Client, Unadvise

(* Every step of the clock. *)
LEMMA ClockStepKeeps ==
  ASSUME ClockInv, [ClockNext]_clockVars
  PROVE ClockInv'
<1> USE ClockAssumption DEF ClockInv, ClockTypeOK
<1>1. CASE Wake
  <2>1. /\ advising' = TRUE /\ m_ev' = FALSE /\ rtNow' = m_rtPrivateTime /\ unnoticed' = 0
        /\ UNCHANGED <<m_rtPrivateTime, advises, dwWait, signalled>>
    BY <1>1 DEF Wake
  <2>2. m_rtPrivateTime \in Nat /\ m_rtPrivateTime <= m_rtPrivateTime + 0 /\ 0 \in Int
    OBVIOUS
  <2>3. ClockTypeOK'
    BY <2>1, <2>2
  <2>4. NoOversleep' /\ TimeStillRight'
    BY <2>1, <2>2 DEF NoOversleep, TimeStillRight
  <2> QED
    BY <2>3, <2>4
<1>2. CASE Advise
  <2> DEFINE due == {a \in advises : a.time <= rtNow + Lead}
             left == advises \ due
  <2>1. /\ advising /\ advising' = FALSE /\ rtNow' = 0
        /\ advises' = left /\ UNCHANGED <<m_rtPrivateTime, m_ev, unnoticed>>
        /\ signalled' = signalled \cup {a.notify : a \in due}
    BY <1>2 DEF Advise
  <2>2. signalled' \subseteq Handles
    BY <2>1 DEF Packets
  <2>3. CASE left = {} /\ dwWait' = INFINITE
    BY <2>1, <2>2, <2>3 DEF NoOversleep, TimeStillRight, INFINITE
  <2>4. ASSUME NEW head \in left, \A a \in left : head.time <= a.time,
               dwWait' = head.time - rtNow
        PROVE ClockInv'
    <3>1. head.time \in Nat /\ head.time > rtNow + Lead
      BY <2>4 DEF Packets
    <3>2. dwWait' \in Nat
      BY <2>4, <3>1
    <3>3. ClockTypeOK'
      BY <2>1, <2>2, <3>2
    <3>4. ASSUME ~m_ev, NEW a \in left
          PROVE dwWait' # INFINITE /\ m_rtPrivateTime + dwWait' <= a.time + unnoticed
      <4>1. a.time \in Nat /\ head.time <= a.time
        BY <2>4, <3>4 DEF Packets
      <4>2. m_rtPrivateTime <= rtNow + unnoticed
        BY <2>1, <2>4, <3>4 DEF TimeStillRight
      <4> QED
        BY <2>4, <3>1, <3>2, <4>1, <4>2 DEF INFINITE
    <3> QED
      BY <2>1, <3>3, <3>4 DEF NoOversleep, TimeStillRight
  <2> QED
    BY <1>2, <2>3, <2>4 DEF Advise
<1>3. CASE Tick
  <2>1. /\ ~advising /\ ~m_ev
        /\ UNCHANGED <<advises, m_ev, advising, rtNow, unnoticed, signalled>>
        /\ m_rtPrivateTime' = m_rtPrivateTime + 1 /\ m_rtPrivateTime' \in 1 .. MaxTime
    BY <1>3 DEF Tick
  <2>2. CASE dwWait = INFINITE /\ dwWait' = INFINITE
    <3>1. advises = {}
      BY <2>1, <2>2 DEF NoOversleep
    <3> QED
      BY <2>1, <2>2, <3>1 DEF NoOversleep, TimeStillRight
  <2>3. CASE dwWait \in Nat \ {0} /\ dwWait' = dwWait - 1
    <3>1. m_rtPrivateTime' + dwWait' = m_rtPrivateTime + dwWait /\ dwWait' \in Nat
      BY <2>1, <2>3
    <3>2. dwWait' # INFINITE
      BY <3>1 DEF INFINITE
    <3> QED
      BY <2>1, <3>1, <3>2 DEF NoOversleep, TimeStillRight
  <2> QED
    BY <1>3, <2>2, <2>3 DEF Tick
<1>4. CASE Client
  BY <1>4, ClientKeeps
<1>5. ASSUME NEW delta \in Deltas, SetTimeDelta(delta)
      PROVE ClockInv'
  <2>1. /\ m_rtPrivateTime' = m_rtPrivateTime + delta /\ m_rtPrivateTime' \in 1 .. MaxTime
        /\ unnoticed' = IF delta > Negligible THEN unnoticed ELSE unnoticed + delta
        /\ m_ev' = (m_ev \/ (delta > Negligible /\ advises # {}))
        /\ UNCHANGED <<advises, dwWait, advising, rtNow, signalled>>
    BY <1>5 DEF SetTimeDelta, Correct
  <2>2. delta \in Int
    BY <1>5
  <2>3. ClockTypeOK'
    BY <2>1, <2>2
  <2>4. NoOversleep'
    <3> SUFFICES ASSUME ~advising, ~m_ev', NEW a \in advises
                 PROVE dwWait # INFINITE /\ m_rtPrivateTime' + dwWait <= a.time + unnoticed'
      BY <2>1 DEF NoOversleep
    <3>1. ~m_ev /\ unnoticed' = unnoticed + delta
      BY <2>1
    <3>2. /\ dwWait # INFINITE /\ m_rtPrivateTime + dwWait <= a.time + unnoticed
          /\ a.time \in Nat
      BY <3>1 DEF NoOversleep, Packets
    <3> QED
      BY <2>1, <2>2, <3>1, <3>2 DEF INFINITE
  <2>5. TimeStillRight'
    <3> SUFFICES ASSUME advising, ~m_ev', advises # {}
                 PROVE m_rtPrivateTime' <= rtNow + unnoticed'
      BY <2>1 DEF TimeStillRight
    <3>1. ~m_ev /\ unnoticed' = unnoticed + delta
      BY <2>1
    <3>2. m_rtPrivateTime <= rtNow + unnoticed
      BY <3>1 DEF TimeStillRight
    <3> QED
      BY <2>1, <2>2, <3>1, <3>2
  <2> QED
    BY <2>3, <2>4, <2>5
<1>6. CASE UNCHANGED clockVars
  BY <1>6 DEF clockVars, threadVars, NoOversleep, TimeStillRight
<1> QED
  BY <1>1, <1>2, <1>3, <1>4, <1>5, <1>6 DEF ClockNext

(* Initially nothing is advised. *)
LEMMA ClockInitial == ClockInit => ClockInv
<1> SUFFICES ASSUME ClockInit PROVE ClockInv
  OBVIOUS
<1>1. 1 \in 1 .. MaxTime /\ 0 \in Int
  BY ClockAssumption
<1>2. ClockTypeOK
  BY <1>1 DEF ClockInit, ClockTypeOK
<1> QED
  BY <1>2 DEF ClockInit, ClockInv, NoOversleep, TimeStillRight

(* AdviseThread sleeps past the time of an advise by no more than what it  *)
(* is on purpose not told of: the corrections of up to Negligible since it *)
(* read the time.  That is so whatever clients add and take away, and      *)
(* however the clock is put forward or back (schedule.cpp:211,             *)
(* refclock.cpp:306-313).                                                  *)
THEOREM ClockNeverOversleeps == ClockSpec => []NoOversleep
<1>1. ClockInit => ClockInv
  BY ClockInitial
<1>2. ClockInv /\ [ClockNext]_clockVars => ClockInv'
  BY ClockStepKeeps
<1>3. ClockInv => NoOversleep
  BY DEF ClockInv
<1> QED
  BY <1>1, <1>2, <1>3, PTL DEF ClockSpec

-----------------------------------------------------------------------------
clientOnly == <<m_rtPrivateTime, threadVars>>

(* Setting or resetting m_RenderEvent. *)
LEMMA EventIsClient ==
  ASSUME UNCHANGED clientOnly, UNCHANGED <<advises, m_ev>>,
         signalled' \in {signalled, signalled \cup {m_RenderEvent}, signalled \ {m_RenderEvent}}
  PROVE Client
BY RendererConstants DEF Client, clientOnly

(* Asking to be woken for a frame is a step of a client of the clock. *)
LEMMA ScheduleIsClient ==
  ASSUME NEW n, NEW start, UNCHANGED clientOnly, ScheduleSample(n, start)
  PROVE Client
<1>1. CASE stream[n].kind = "untimed"
  BY <1>1, EventIsClient DEF ScheduleSample
<1>2. CASE stream[n].kind # "untimed"
  <2>1. PICK cookie : AdviseTime(cookie, start + stream[n].start, m_RenderEvent)
                      /\ UNCHANGED signalled
    BY <1>2 DEF ScheduleSample
  <2>2. cookie \in Nat /\ start + stream[n].start \in Nat
    BY <2>1 DEF AdviseTime
  <2>3. m_RenderEvent \in Handles
    BY RendererConstants
  <2> QED
    BY <2>1, <2>2, <2>3 DEF Client, clientOnly
<1> QED
  BY <1>1, <1>2

(* Taking the advise away is one, too. *)
LEMMA CancelIsClient ==
  ASSUME UNCHANGED clientOnly, UNCHANGED m_ev, CancelNotification
  PROVE Client
<1>1. advises' = {a \in advises : a.cookie # m_dwAdvise}
      /\ signalled' = signalled \ {m_RenderEvent}
  BY DEF CancelNotification, Unadvise
<1>2. CASE m_dwAdvise \in {a.cookie : a \in advises}
  BY <1>1, <1>2 DEF Client, Unadvise, clientOnly
<1>3. CASE m_dwAdvise \notin {a.cookie : a \in advises}
  <2>1. advises' = advises
    BY <1>1, <1>3
  <2> QED
    BY <1>1, <2>1, EventIsClient
<1> QED
  BY <1>2, <1>3

(* And so is asking for the waiting frame when the filter runs. *)
LEMMA StartStreamingIsClient ==
  ASSUME NEW start, UNCHANGED clientOnly, StartStreaming(start)
  PROVE Client
<1>1. CASE UNCHANGED <<advises, m_ev, signalled>>
  BY <1>1, EventIsClient
<1>2. CASE ScheduleSample(m_pMediaSample, start)
  BY <1>2, ScheduleIsClient
<1>3. CASE signalled' = signalled \cup {m_RenderEvent} /\ UNCHANGED <<advises, m_ev>>
  BY <1>3, EventIsClient
<1> QED
  BY <1>1, <1>2, <1>3 DEF StartStreaming

-----------------------------------------------------------------------------
(* Every step of the graph is a step of the clock or leaves it alone. *)
LEMMA PlaybackStepIsClockStep == [Next]_vars => [ClockNext]_clockVars
<1> SUFFICES ASSUME [Next]_vars PROVE Client \/ ClockNext \/ UNCHANGED clockVars
  BY DEF ClockNext
<1> USE DEF clientOnly
<1>1. CASE SourceStep
  <2>1. CASE PrepareReceive
    <3>1. UNCHANGED clientOnly \/ UNCHANGED clockVars
      BY <2>1 DEF PrepareReceive, Return, clockVars, threadVars
    <3>2. CASE /\ UNCHANGED clientOnly
               /\ \/ ScheduleSample(pSample, m_tStart)
                  \/ UNCHANGED <<advises, m_ev, signalled, m_dwAdvise>>
      BY <3>2, ScheduleIsClient, EventIsClient
    <3> QED
      BY <2>1, <3>2 DEF PrepareReceive, clockVars
  <2>2. CASE ComesDue
    BY <2>2, EventIsClient DEF ComesDue
  <2>3. CASE Render
    <3>1. CASE CancelNotification
      BY <2>3, <3>1, CancelIsClient DEF Render
    <3>2. CASE UNCHANGED <<advises, signalled>>
      BY <2>3, <3>2, EventIsClient DEF Render
    <3> QED
      BY <2>3, <3>1, <3>2 DEF Render
  <2>4. CASE CheckPaused \/ ReceiveFirstSample \/ FirstReady \/ Released
              \/ SignalTimerFired \/ ReportError
    BY <2>4 DEF CheckPaused, ReceiveFirstSample, FirstReady, Released, SignalTimerFired,
                ReportError
  <2>5. CASE Deliver \/ Delivered \/ DeliverEndOfStream \/ PullStep
    BY <2>5 DEF Deliver, BeginReceive, Delivered, DeliverEndOfStream, EndOfStream,
                PullStep, InPull
  <2> QED
    BY <1>1, <2>1, <2>2, <2>3, <2>4, <2>5 DEF SourceStep, ReceiveStep
<1>2. CASE ChunkArrives
  BY <1>2 DEF ChunkArrives, InPull
<1>3. CASE NewCommand
  <2>1. CASE BeginStop
    BY <2>1 DEF BeginStop, Stop
  <2>2. ASSUME NEW next, Pause(next)
        PROVE Client
    BY <2>2, CancelIsClient DEF Pause
  <2>3. CASE BeginPause
    BY <2>2, <2>3 DEF BeginPause, PauseAgain
  <2>4. ASSUME NEW tStart, Run(tStart)
        PROVE Client
    BY <2>4, StartStreamingIsClient DEF Run
  <2>5. CASE BeginRun
    BY <2>2, <2>4, <2>5 DEF BeginRun
  <2>6. CASE BeginSeek
    BY <2>6, CancelIsClient DEF BeginSeek, BeginFlush
  <2>7. CASE SeekWhileStopped
    BY <2>7 DEF SeekWhileStopped
  <2> QED
    BY <1>3, <2>1, <2>3, <2>5, <2>6, <2>7 DEF NewCommand
<1>4. CASE ManagerStep
  <2>1. CASE ContinueRun
    BY <2>1, StartStreamingIsClient DEF ContinueRun, Run
  <2>2. CASE StopReset
    BY <2>2, CancelIsClient DEF StopReset
  <2>3. CASE StopRelease \/ StopDone \/ PauseDone \/ FlushWaited \/ FlushReset
    BY <2>3 DEF StopRelease, StopDone, PauseDone, FlushWaited, FlushReset
  <2>4. CASE StopSource \/ StartSource \/ SeekPause \/ SeekEndFlush \/ SeekStart
              \/ Finish \/ CallStep
    BY <2>4 DEF StopSource, StartSource, SeekPause, SeekEndFlush, EndFlush, SeekStart,
                Finish, CallStep, InPull
  <2> QED
    BY <1>4, <2>1, <2>2, <2>3, <2>4 DEF ManagerStep, ControlStep
<1>5. CASE ClockStep
  BY <1>5 DEF ClockStep, ClockNext
<1>6. CASE TimePasses
  BY <1>6 DEF TimePasses, ClockNext
<1>7. CASE TimerStep
  BY <1>7 DEF TimerStep, TimerFires, TimerCallback
<1>8. CASE Trouble
  <2>1. CASE Correction
    BY <2>1 DEF Correction, ClockNext
  <2>2. CASE OnDisplayChange
    BY <2>2 DEF OnDisplayChange
  <2> QED
    BY <1>8, <2>1, <2>2 DEF Trouble, TimersChange
<1>9. CASE UNCHANGED vars
  BY <1>9 DEF vars
<1> QED
  BY <1>1, <1>2, <1>3, <1>4, <1>5, <1>6, <1>7, <1>8, <1>9 DEF Next

(* The renderer (renbase.cpp), the source (pullpin.cpp) and what surrounds *)
(* them use the clock (refclock.cpp, schedule.cpp) as any client may.      *)
THEOREM PlaybackImplementsClock == Spec => ClockSpec
<1>1. Init => ClockInit
  BY DEF Init
<1>2. [Next]_vars => [ClockNext]_clockVars
  BY PlaybackStepIsClockStep
<1> QED
  BY <1>1, <1>2, PTL DEF Spec, ClockSpec

(* In the whole graph no advise is slept through for longer than the clock *)
(* was corrected by negligible amounts meanwhile (schedule.cpp:211,        *)
(* refclock.cpp:306-313).                                                  *)
THEOREM PlaybackNeverOversleeps == Spec => []NoOversleep
BY PlaybackImplementsClock, ClockNeverOversleeps, PTL

-----------------------------------------------------------------------------
(* What holds between the manager, the caller's requests and the source    *)
(* thread.  Receive runs while the source delivers; a request is replied   *)
(* to once, and a pause only when the source is at rest.                   *)

Stopping == caller \in {"stop", "stopping", "closing"}
Asked == caller \in {"starting", "pausing", "stopping"}
AtRest == worker \in {"cleanup", "request"}

RequestInv ==
  /\ receive # "none" \/ hr # "none" => worker = "deliver"
  /\ receive # "none" => hr = "none"
  /\ ~m_hThread => worker = "none"
  /\ m_EventSend \/ m_EventComplete => Asked
  /\ ~(m_EventSend /\ m_EventComplete)
  /\ m_dwParam \in {"TM_Start", "TM_Pause", "TM_Exit"}
  /\ caller \in {"none", "starting", "pause", "pausing", "stop", "stopping", "closing"}
  /\ caller = "starting" /\ m_EventSend => AtRest
  /\ caller = "pausing" /\ m_EventSend => m_dwParam = "TM_Pause"
  /\ caller = "pausing" /\ m_EventComplete => AtRest
  /\ pullState = "TM_Start" => m_hThread
  /\ caller \in {"stopping", "closing"} => pullState = "TM_Exit"

(* The manager has a renderer that is stopped stop the source, one that is *)
(* flushed pause it, and goes on only when it is at rest.                  *)
CommandInv ==
  /\ manager \in {"idle", "stop", "start", "flush", "paused", "restart", "finish"}
  /\ manager = "stop" => m_State = "Stopped"
  /\ Stopping => manager = "finish" /\ m_State = "Stopped"
  /\ manager \in {"start", "flush", "paused", "restart"} => m_State # "Stopped"
  /\ m_bFlushing <=> manager \in {"flush", "paused"}
  /\ caller \in {"pause", "pausing"} => manager = "paused"
  /\ (manager = "paused" /\ caller = "none") \/ manager = "restart" => AtRest
  /\ manager = "restart" => caller = "none"
  /\ caller = "starting" => manager = "finish" /\ m_State # "Stopped"
  /\ m_State = "Stopped" => manager = "stop" \/ Stopping \/ ~m_hThread
  /\ control \in {"stopped", "stopKill", "stopWait"} => manager = "stop"
  /\ control \in {"flushing", "flushKill"} => manager = "flush"
  /\ control \in {"pauseKill", "runKill", "run"} => manager = "start" /\ m_State = "Paused"
  /\ m_bStreaming <=> m_State = "Running"
  /\ m_hThread => \/ pullState = "TM_Start" \/ caller \in {"stopping", "closing"}
                  \/ manager \in {"paused", "restart"}

(* Not inductive by itself: what is stale in Receive meets a renderer that *)
(* refuses it, until it has left.                                          *)
StaleInv ==
  stale /\ receive # "none" => m_pMediaSample = NULL /\ (m_State = "Stopped" \/ m_bFlushing)

ProtocolInv == RequestInv /\ CommandInv /\ StaleInv

(* Every step keeps the protocol of requests. *)
LEMMA RequestKept ==
  ASSUME ProtocolInv, [Next]_vars
  PROVE RequestInv'
<1> USE DEF ProtocolInv, RequestInv, Asked, AtRest
<1> DEFINE Alone == UNCHANGED <<receive, hr, pullVars>>
<1>0. Alone => RequestInv'
  BY DEF pullVars
<1>1. CASE SourceStep
  <2>1. CASE Deliver
    BY <2>1 DEF Deliver, BeginReceive, InRenderer, pullVars
  <2>2. CASE Delivered
    BY <2>2 DEF Delivered, Pull!Delivered, Pull!workerOnly, Pull!request, Pull!progress
  <2>3. CASE DeliverEndOfStream
    BY <2>3 DEF DeliverEndOfStream, EndOfStream, sourceVars, Pull!EndProcess,
                Pull!workerOnly, Pull!request, Pull!progress
  <2>4. CASE PullStep
    BY <2>4 DEF PullStep, InPull, rendererVars, sourceVars, Pull!GetRequest,
                Pull!EndOfLoop, Pull!SyncRead, Pull!QueueSample, Pull!EndOfQueue,
                Pull!CleanupCancelled, Pull!ReadFails, Pull!Reply, Pull!workerOnly,
                Pull!request, Pull!progress
  <2>5. CASE ReceiveStep
    BY <2>5 DEF ReceiveStep, InRenderer, pullVars, PrepareReceive, CheckPaused,
                ReceiveFirstSample, FirstReady, Released, ComesDue, SignalTimerFired,
                Render, ReportError, Return
  <2> QED
    BY <1>1, <2>1, <2>2, <2>3, <2>4, <2>5 DEF SourceStep
<1>2. CASE ChunkArrives
  BY <1>2 DEF ChunkArrives, InPull, rendererVars, sourceVars, Pull!Collect,
              Pull!workerOnly, Pull!request, Pull!progress
<1>3. CASE NewCommand
  <2>1. CASE BeginStop
    BY <2>1, <1>0 DEF BeginStop, Stop, sourceVars
  <2>2. CASE BeginPause
    BY <2>2, <1>0 DEF BeginPause, Pause, PauseAgain, sourceVars
  <2>3. CASE BeginRun
    BY <2>3, <1>0 DEF BeginRun, Run, Pause, sourceVars
  <2>4. CASE BeginSeek
    BY <2>4, <1>0 DEF BeginSeek, BeginFlush, sourceVars
  <2>5. CASE SeekWhileStopped
    BY <2>5 DEF SeekWhileStopped, rendererVars, sourceVars, Pull!SeekIdle, Pull!request,
                Pull!progress
  <2> QED
    BY <1>3, <2>1, <2>2, <2>3, <2>4, <2>5 DEF NewCommand
<1>4. CASE ManagerStep
  <2>1. CASE StopSource \/ SeekPause
    BY <2>1 DEF StopSource, SeekPause, rendererVars, sourceVars, Pull!BeginReaderFlush,
                Pull!request, Pull!progress
  <2>2. CASE StartSource
    BY <2>2 DEF StartSource, rendererVars, sourceVars, Pull!StartThread, Pull!CallWorker,
                pullVars, Pull!progress
  <2>3. CASE SeekStart
    BY <2>3 DEF SeekStart, rendererVars, sourceVars, Pull!StartThread, Pull!CallWorker,
                Pull!progress, CommandInv
  <2>4. CASE ContinueRun
    BY <2>4, <1>0 DEF ContinueRun, Run, sourceVars
  <2>5. CASE SeekEndFlush
    BY <2>5, <1>0 DEF SeekEndFlush, EndFlush, sourceVars
  <2>6. CASE Finish
    BY <2>6, <1>0 DEF Finish, rendererVars, sourceVars
  <2>7. CASE CallStep
    BY <2>7 DEF CallStep, InPull, rendererVars, sourceVars, Pull!CallFlushed, Pull!Replied,
                Pull!Close, Pull!CallWorker, Pull!request, Pull!progress
  <2>8. CASE ControlStep
    BY <2>8, <1>0 DEF ControlStep, InRenderer, StopRelease, StopReset, StopDone, PauseDone,
                      FlushWaited, FlushReset, sourceVars
  <2> QED
    BY <1>4, <2>1, <2>2, <2>3, <2>4, <2>5, <2>6, <2>7, <2>8 DEF ManagerStep
<1>5. CASE ClockStep \/ TimePasses \/ TimerStep
  BY <1>5, <1>0 DEF ClockStep, TimePasses, TimerStep, TimerFires, TimerCallback,
                    InRenderer, rendererVars, sourceVars
<1>6. CASE Trouble
  <2>1. CASE Correction \/ TimersChange \/ (OnDisplayChange /\ UNCHANGED pullVars)
    BY <2>1, <1>0 DEF Correction, TimersChange, OnDisplayChange, rendererVars, sourceVars
  <2>2. CASE Pull!ReadFails /\ UNCHANGED <<clockVars, rendererVars>>
    BY <2>2 DEF Pull!ReadFails, rendererVars, sourceVars, Pull!workerOnly, Pull!request,
                Pull!progress
  <2> QED
    BY <1>6, <2>1, <2>2 DEF Trouble
<1>7. CASE UNCHANGED vars
  BY <1>7, <1>0 DEF vars, rendererVars, sourceVars
<1> QED
  BY <1>1, <1>2, <1>3, <1>4, <1>5, <1>6, <1>7 DEF Next

(* Every step keeps the protocol of commands. *)
LEMMA CommandKept ==
  ASSUME ProtocolInv, [Next]_vars
  PROVE CommandInv'
<1> USE DEF ProtocolInv, RequestInv, CommandInv, Asked, Stopping, AtRest
<1> DEFINE Alone == UNCHANGED <<manager, m_State, m_bStreaming, m_bFlushing, control>>
           Pulls == UNCHANGED <<worker, caller, m_hThread, pullState>>
<1>0. Alone /\ Pulls => CommandInv'
  OBVIOUS
<1>1. CASE SourceStep
  <2>1. CASE Deliver
    BY <2>1, <1>0 DEF Deliver, BeginReceive, InRenderer, pullVars, managerVars, flow,
                      refusals, controlVars
  <2>2. CASE Delivered
    BY <2>2 DEF Delivered, Pull!Delivered, Pull!workerOnly, managerVars, flow, refusals,
                controlVars
  <2>3. CASE DeliverEndOfStream
    BY <2>3 DEF DeliverEndOfStream, EndOfStream, Pull!EndProcess, Pull!workerOnly,
                managerVars, flow, refusals, controlVars
  <2>4. CASE PullStep
    <3>1. Alone
      BY <2>4 DEF PullStep, InPull, rendererVars, managerVars, flow, refusals, controlVars
    <3> QED
      BY <2>4, <3>1 DEF PullStep, Pull!GetRequest, Pull!EndOfLoop, Pull!SyncRead,
                        Pull!QueueSample, Pull!EndOfQueue, Pull!CleanupCancelled,
                        Pull!ReadFails, Pull!Reply, Pull!workerOnly
  <2>5. CASE ReceiveStep
    BY <2>5, <1>0 DEF ReceiveStep, InRenderer, pullVars, PrepareReceive, CheckPaused,
                      ReceiveFirstSample, FirstReady, Released, ComesDue, SignalTimerFired,
                      Render, ReportError, managerVars, flow, refusals, controlVars
  <2> QED
    BY <1>1, <2>1, <2>2, <2>3, <2>4, <2>5 DEF SourceStep
<1>2. CASE ChunkArrives
  BY <1>2 DEF ChunkArrives, InPull, rendererVars, Pull!Collect, Pull!workerOnly,
              managerVars, flow, refusals, controlVars
<1>3. CASE NewCommand
  <2>1. CASE BeginStop
    BY <2>1 DEF BeginStop, Begin, Stop, pullVars
  <2>2. CASE BeginPause
    BY <2>2 DEF BeginPause, Begin, Pause, PauseAgain, pullVars, flow, refusals, controlVars
  <2>3. CASE BeginRun
    BY <2>3 DEF BeginRun, Begin, Run, Pause, pullVars, refusals
  <2>4. CASE BeginSeek
    BY <2>4 DEF BeginSeek, Begin, BeginFlush, pullVars, flow
  <2>5. CASE SeekWhileStopped
    BY <2>5 DEF SeekWhileStopped, Begin, rendererVars, Pull!SeekIdle, flow, refusals,
                controlVars
  <2> QED
    BY <1>3, <2>1, <2>2, <2>3, <2>4, <2>5 DEF NewCommand
<1>4. CASE ManagerStep
  <2>1. CASE StopSource \/ SeekPause
    BY <2>1 DEF StopSource, SeekPause, Idle, rendererVars, Pull!BeginReaderFlush, flow,
                refusals, controlVars
  <2>2. CASE StartSource
    BY <2>2 DEF StartSource, Idle, rendererVars, Pull!StartThread, Pull!CallWorker,
                pullVars, flow, refusals, controlVars
  <2>3. CASE SeekStart
    BY <2>3 DEF SeekStart, Idle, rendererVars, Pull!StartThread, Pull!CallWorker, flow,
                refusals, controlVars
  <2>4. CASE ContinueRun
    BY <2>4 DEF ContinueRun, Run, pullVars, managerVars
  <2>5. CASE SeekEndFlush
    BY <2>5 DEF SeekEndFlush, Idle, EndFlush, pullVars, flow, controlVars
  <2>6. CASE Finish
    BY <2>6 DEF Finish, Idle, rendererVars, pullVars, flow, refusals, controlVars
  <2>7. CASE CallStep
    BY <2>7 DEF CallStep, InPull, rendererVars, managerVars, Pull!CallFlushed,
                Pull!CallWorker, Pull!Replied, Pull!Close, flow, refusals, controlVars
  <2>8. CASE ControlStep
    BY <2>8 DEF ControlStep, InRenderer, pullVars, managerVars, StopRelease, StopReset,
                StopDone, PauseDone, FlushWaited, FlushReset, flow, refusals
  <2> QED
    BY <1>4, <2>1, <2>2, <2>3, <2>4, <2>5, <2>6, <2>7, <2>8 DEF ManagerStep
<1>5. CASE ClockStep \/ TimePasses \/ TimerStep
  BY <1>5, <1>0 DEF ClockStep, TimePasses, TimerStep, TimerFires, TimerCallback,
                    InRenderer, rendererVars, pullVars, managerVars, flow, refusals,
                    controlVars
<1>6. CASE Trouble
  <2>1. CASE Correction \/ TimersChange \/ (OnDisplayChange /\ UNCHANGED pullVars)
    BY <1>6, <2>1, <1>0 DEF Trouble, Correction, TimersChange, OnDisplayChange,
                            rendererVars, pullVars, flow, refusals, controlVars
  <2>2. CASE Pull!ReadFails /\ UNCHANGED <<clockVars, rendererVars>>
    BY <1>6, <2>2 DEF Trouble, Pull!ReadFails, rendererVars, Pull!workerOnly, flow,
                      refusals, controlVars
  <2> QED
    BY <1>6, <2>1, <2>2 DEF Trouble
<1>7. CASE UNCHANGED vars
  BY <1>7, <1>0 DEF vars, rendererVars, pullVars, managerVars, flow, refusals, controlVars
<1> QED
  BY <1>1, <1>2, <1>3, <1>4, <1>5, <1>6, <1>7 DEF Next

(* Every step keeps what is stale from being drawn. *)
LEMMA StaleKept ==
  ASSUME ProtocolInv, [Next]_vars
  PROVE StaleInv'
<1> USE DEF ProtocolInv, StaleInv
<1> DEFINE Alone == UNCHANGED <<stale, receive, m_pMediaSample, m_State, m_bFlushing>>
<1>0. Alone => StaleInv'
  OBVIOUS
<1>1. CASE SourceStep
  <2>1. CASE Deliver
    BY <2>1 DEF Deliver, BeginReceive
  <2>2. CASE Delivered \/ DeliverEndOfStream
    BY <2>2, <1>0 DEF Delivered, DeliverEndOfStream, EndOfStream, sourceVars,
                      renderHistory, pending, flow, refusals
  <2>4. CASE PullStep
    BY <2>4, <1>0 DEF PullStep, InPull, rendererVars, sourceVars, renderHistory, pending,
                      flow, refusals
  <2>5. CASE PrepareReceive
    BY <2>5 DEF PrepareReceive, Accepts, CheckStreaming, Return, renderHistory, flow,
                refusals, pending
  <2>6. CASE Render
    BY <2>6 DEF Render, ClearPendingSample, Return, renderHistory, flow, refusals
  <2>7. CASE CheckPaused \/ ReceiveFirstSample \/ FirstReady \/ Released \/ ComesDue
    \/ SignalTimerFired \/ ReportError
    BY <2>7 DEF CheckPaused, ReceiveFirstSample, FirstReady, Released, ComesDue,
                SignalTimerFired, ReportError, Return, renderHistory, pending, flow,
                refusals
  <2> QED
    BY <1>1, <2>1, <2>2, <2>4, <2>5, <2>6, <2>7 DEF SourceStep, ReceiveStep
<1>2. CASE ChunkArrives
  BY <1>2, <1>0 DEF ChunkArrives, InPull, rendererVars, sourceVars, renderHistory, pending,
                    flow, refusals
<1>3. CASE NewCommand
  <2>1. CASE BeginStop
    BY <2>1 DEF BeginStop, Stop, ClearPendingSample, pullVars
  <2>2. CASE BeginPause \/ BeginRun
    <3>1. manager = "idle" /\ control = "none" /\ UNCHANGED pullVars
      BY <2>2 DEF BeginPause, BeginRun, Begin, Run, Pause, PauseAgain, CommandInv
    <3>2. stale /\ receive # "none" => FALSE
      BY <3>1 DEF CommandInv, RequestInv, Stopping
    <3> QED
      BY <2>2, <3>2 DEF BeginPause, BeginRun, Run, Pause, PauseAgain, sourceVars,
                        renderHistory
  <2>4. CASE BeginSeek
    BY <2>4 DEF BeginSeek, BeginFlush, ClearPendingSample, pullVars, flow
  <2>5. CASE SeekWhileStopped
    BY <2>5, <1>0 DEF SeekWhileStopped, rendererVars, sourceVars, renderHistory, pending,
                      flow, refusals
  <2> QED
    BY <1>3, <2>1, <2>2, <2>4, <2>5 DEF NewCommand
<1>4. CASE ManagerStep
  <2>1. CASE StopSource \/ SeekPause \/ StartSource \/ SeekStart \/ Finish \/ CallStep
    BY <2>1, <1>0 DEF StopSource, SeekPause, StartSource, SeekStart, Finish, CallStep,
                      InPull, rendererVars, sourceVars, renderHistory, pending, flow,
                      refusals
  <2>4. CASE ContinueRun
    BY <2>4 DEF ContinueRun, Run, sourceVars, renderHistory, pending, CommandInv
  <2>5. CASE SeekEndFlush
    BY <2>5 DEF SeekEndFlush, Idle, EndFlush, sourceVars, renderHistory, CommandInv,
                RequestInv, AtRest
  <2>8. CASE ControlStep
    <3>1. CASE PauseDone
      BY <3>1 DEF PauseDone, ClearPendingSample, flow, sourceVars, renderHistory,
                  CommandInv
    <3>2. CASE StopRelease \/ StopReset \/ StopDone \/ FlushWaited \/ FlushReset
      BY <3>2, <1>0 DEF StopRelease, StopReset, StopDone, FlushWaited, FlushReset, flow,
                        refusals, sourceVars, renderHistory, pending
    <3> QED
      BY <2>8, <3>1, <3>2 DEF ControlStep
  <2> QED
    BY <1>4, <2>1, <2>4, <2>5, <2>8 DEF ManagerStep
<1>5. CASE ClockStep \/ TimePasses \/ TimerStep
  BY <1>5, <1>0 DEF ClockStep, TimePasses, TimerStep, TimerFires, TimerCallback,
                    InRenderer, rendererVars, sourceVars, renderHistory, pending, flow,
                    refusals
<1>6. CASE Trouble
  <2>1. CASE Correction \/ TimersChange
             \/ (Pull!ReadFails /\ UNCHANGED <<clockVars, rendererVars>>)
    BY <2>1, <1>0 DEF Correction, TimersChange, rendererVars, sourceVars, renderHistory,
                      pending, flow, refusals
  <2>2. CASE OnDisplayChange
    BY <2>2 DEF OnDisplayChange, ClearPendingSample, sourceVars, renderHistory, flow
  <2> QED
    BY <1>6, <2>1, <2>2 DEF Trouble
<1>7. CASE UNCHANGED vars
  BY <1>7, <1>0 DEF vars, rendererVars, sourceVars, renderHistory, pending, flow, refusals
<1> QED
  BY <1>1, <1>2, <1>3, <1>4, <1>5, <1>6, <1>7 DEF Next

-----------------------------------------------------------------------------
(* The chunks: those requested and those handed over. *)
Handed == tCurrent - outstanding - 1
CountInv ==
  /\ outstanding \in 0 .. 2
  /\ tCurrent \in 1 .. Chunks + 1 /\ pullStart \in 1 .. Chunks + 1 /\ goal \in 1 .. Chunks + 1
  /\ worker \notin {"queue", "collect", "deliver", "cleanup"} => outstanding = 0
  /\ worker = "queue" => outstanding = 1
  /\ worker = "collect" => outstanding >= 1
  /\ worker = "deliver" => outstanding <= 1 /\ Handed >= pullStart
  /\ worker = "end" => tCurrent > Chunks
  /\ worker \in {"loop", "queue", "collect", "end"} => Handed >= pullStart - 1

(* Every step keeps the count of the chunks. *)
LEMMA CountKept ==
  ASSUME ProtocolInv, CountInv, [Next]_vars
  PROVE CountInv'
<1> USE PlaybackAssumption DEF CountInv, Handed
<1> DEFINE Alone == UNCHANGED <<outstanding, tCurrent, pullStart, worker, goal>>
<1>0. Alone => CountInv'
  OBVIOUS
<1>1. CASE SourceStep
  <2>1. CASE Deliver \/ ReceiveStep
    BY <2>1, <1>0 DEF Deliver, ReceiveStep, InRenderer, pullVars, managerVars
  <2>2. CASE Delivered
    BY <2>2 DEF Delivered, Pull!Delivered, Pull!workerOnly, Pull!progress, managerVars
  <2>3. CASE DeliverEndOfStream
    BY <2>3 DEF DeliverEndOfStream, EndOfStream, Pull!EndProcess, Pull!workerOnly,
                Pull!progress, managerVars
  <2>4. CASE PullStep
    <3>1. goal' = goal
      BY <2>4 DEF PullStep, InPull, managerVars
    <3>2. CASE Pull!GetRequest
      BY <3>1, <3>2 DEF Pull!GetRequest, Pull!workerOnly, ProtocolInv, RequestInv
    <3>3. CASE Pull!EndOfLoop \/ Pull!EndOfQueue \/ Pull!CleanupCancelled \/ Pull!ReadFails
      BY <3>1, <3>3 DEF Pull!EndOfLoop, Pull!EndOfQueue, Pull!CleanupCancelled,
                        Pull!ReadFails, Pull!workerOnly, Pull!progress
    <3>4. CASE Pull!SyncRead \/ Pull!QueueSample
      BY <3>1, <3>4 DEF Pull!SyncRead, Pull!QueueSample, Pull!workerOnly
    <3> QED
      BY <2>4, <3>2, <3>3, <3>4 DEF PullStep
  <2> QED
    BY <1>1, <2>1, <2>2, <2>3, <2>4 DEF SourceStep
<1>2. CASE ChunkArrives
  BY <1>2 DEF ChunkArrives, InPull, Pull!Collect, Pull!workerOnly, managerVars
<1>3. CASE NewCommand
  <2>1. CASE BeginStop \/ BeginPause \/ BeginRun
    BY <2>1, <1>0 DEF BeginStop, BeginPause, BeginRun, pullVars
  <2>4. CASE BeginSeek
    BY <2>4 DEF BeginSeek, pullVars
  <2>5. CASE SeekWhileStopped
    <3>1. ~m_hThread /\ worker = "none"
      BY <2>5 DEF SeekWhileStopped, Begin, Pull!SeekIdle, ProtocolInv, CommandInv,
                  RequestInv
    <3>2. PICK position \in Positions : Pull!SeekIdle(position)
      BY <2>5 DEF SeekWhileStopped
    <3> QED
      BY <2>5, <3>1, <3>2 DEF SeekWhileStopped, Pull!SeekIdle, Pull!progress
  <2> QED
    BY <1>3, <2>1, <2>4, <2>5 DEF NewCommand
<1>4. CASE ManagerStep
  <2>1. CASE StopSource \/ SeekPause \/ Finish \/ ContinueRun \/ SeekEndFlush \/ ControlStep
    BY <2>1, <1>0 DEF StopSource, SeekPause, Pull!BeginReaderFlush, Pull!progress, Finish,
                      ContinueRun, SeekEndFlush, ControlStep, InRenderer, pullVars,
                      managerVars
  <2>2. CASE StartSource
    BY <2>2 DEF StartSource, Pull!StartThread, Pull!progress, pullVars, ProtocolInv,
                RequestInv
  <2>3. CASE SeekStart
    <3>1. AtRest
      BY <2>3 DEF SeekStart, ProtocolInv, CommandInv
    <3> QED
      BY <2>3, <3>1 DEF SeekStart, Pull!StartThread, Pull!progress, AtRest, ProtocolInv,
                        RequestInv
  <2>7. CASE CallStep
    BY <2>7 DEF CallStep, InPull, managerVars, Pull!CallFlushed, Pull!Replied, Pull!Close,
                Pull!CallWorker, Pull!progress
  <2> QED
    BY <1>4, <2>1, <2>2, <2>3, <2>7 DEF ManagerStep
<1>5. CASE ClockStep \/ TimePasses \/ TimerStep
  BY <1>5, <1>0 DEF ClockStep, TimePasses, TimerStep, InRenderer, pullVars, managerVars
<1>6. CASE Trouble
  BY <1>0, <1>6 DEF Trouble, Correction, TimersChange, pullVars, Pull!ReadFails,
                    Pull!workerOnly, Pull!progress
<1>7. CASE UNCHANGED vars
  BY <1>7, <1>0 DEF vars, pullVars, managerVars
<1> QED
  BY <1>1, <1>2, <1>3, <1>4, <1>5, <1>6, <1>7 DEF Next

(* The samples: the one in Receive is the chunk handed over last. *)
SampleInv ==
  /\ stream \in Streams /\ m_tStart \in Nat /\ m_SignalTime \in Nat
  /\ receive # "none" => pSample = Handed
  /\ m_pMediaSample \in 0 .. Chunks

(* A chunk has times. *)
LEMMA SampleNumbers ==
  ASSUME stream \in Streams, NEW n \in 1 .. Chunks
  PROVE  stream[n] \in Sample
<1>1. stream \in Seq(Sample) /\ Len(stream) = Chunks
  BY PlaybackAssumption, RendererConstants
<1> QED
  BY <1>1

(* What Receive is given is a chunk. *)
LEMMA HandedIsSample ==
  ASSUME RequestInv, CountInv, receive # "none"
  PROVE Handed \in 1 .. Chunks
BY PlaybackAssumption DEF RequestInv, CountInv, Handed

(* Every step keeps the samples. *)
LEMMA SampleKept ==
  ASSUME ProtocolInv, CountInv, SampleInv, ClockTypeOK, [Next]_vars
  PROVE SampleInv'
<1> USE DEF SampleInv, Handed
<1> DEFINE Alone == UNCHANGED <<stream, m_tStart, m_SignalTime, receive, pSample,
     m_pMediaSample>>
           Pulls == UNCHANGED <<tCurrent, outstanding>>
<1>0. Alone /\ Pulls => SampleInv'
  OBVIOUS
<1>12. /\ Alone /\ receive = "none" => SampleInv'
  OBVIOUS
<1>1. CASE SourceStep
  <2>1. CASE Deliver
    BY <2>1 DEF Deliver, BeginReceive, InRenderer, pullVars, Pull!Delivering, flow, pending
  <2>2. CASE Delivered
    BY <2>2, <1>12 DEF Delivered, flow, pending
  <2>3. CASE DeliverEndOfStream
    BY <2>3, <1>12 DEF DeliverEndOfStream, EndOfStream, sourceVars, flow, pending
  <2>4. CASE PullStep
    <3>1. Alone
      BY <2>4 DEF PullStep, InPull, rendererVars, sourceVars, flow, pending
    <3>2. worker # "deliver"
      BY <2>4 DEF PullStep, Pull!GetRequest, Pull!EndOfLoop, Pull!SyncRead,
                  Pull!QueueSample, Pull!EndOfQueue, Pull!CleanupCancelled, Pull!ReadFails
    <3> QED
      BY <3>1, <3>2, <1>12 DEF ProtocolInv, RequestInv
  <2>5. CASE ReceiveStep
    <3>1. Pulls
      BY <2>5 DEF ReceiveStep, InRenderer, pullVars
    <3>2. CASE PrepareReceive
      <4>1. pSample \in 1 .. Chunks
        BY <3>2, HandedIsSample DEF PrepareReceive, ProtocolInv
      <4>2. stream[pSample].stop \in Nat
        BY <4>1, SampleNumbers DEF Sample
      <4> QED
        BY <3>1, <3>2, <4>1, <4>2 DEF PrepareReceive, flow, pending, Return
    <3>3. CASE Render
      BY <3>3, PlaybackAssumption DEF Render, ClearPendingSample, Return, flow, NULL
    <3>4. CASE CheckPaused \/ ReceiveFirstSample \/ FirstReady \/ Released \/ ComesDue
                \/ SignalTimerFired \/ ReportError
      BY <3>1, <3>4 DEF CheckPaused, ReceiveFirstSample, FirstReady, Released, ComesDue,
                        SignalTimerFired, ReportError, Return, pending, flow
    <3> QED
      BY <2>5, <3>2, <3>3, <3>4 DEF ReceiveStep
  <2> QED
    BY <1>1, <2>1, <2>2, <2>3, <2>4, <2>5 DEF SourceStep
<1>2. CASE ChunkArrives
  <2>1. Alone /\ worker # "deliver"
    BY <1>2 DEF ChunkArrives, InPull, rendererVars, sourceVars, flow, pending, Pull!Collect
  <2> QED
    BY <2>1, <1>12 DEF ProtocolInv, RequestInv
<1>3. CASE NewCommand \/ ManagerStep
  <2>1. Pulls
    BY <1>3 DEF NewCommand, ManagerStep, BeginStop, BeginPause, BeginRun, BeginSeek,
                SeekWhileStopped, StopSource, ContinueRun, StartSource, SeekPause,
                SeekEndFlush, SeekStart, Finish, CallStep, ControlStep, InRenderer,
                pullVars, Pull!BeginReaderFlush, Pull!StartThread, Pull!SeekIdle,
                Pull!CallFlushed, Pull!Replied, Pull!Close, Pull!progress
  <2>2. \A tStart \in StartTimes : tStart \in Nat
    BY DEF StartTimes, ClockTypeOK
  <2>3. NULL \in 0 .. Chunks /\ 0 \in Nat
    BY PlaybackAssumption DEF NULL
  <2>4. CASE BeginStop
    BY <2>1, <2>3, <2>4 DEF BeginStop, Stop, ClearPendingSample, sourceVars
  <2>5. CASE BeginPause \/ BeginRun \/ ContinueRun
    BY <2>1, <2>2, <2>5 DEF BeginPause, BeginRun, ContinueRun, Pause, PauseAgain, Run,
                            sourceVars, flow, pending
  <2>6. CASE BeginSeek
    BY <2>1, <2>3, <2>6 DEF BeginSeek, BeginFlush, ClearPendingSample, sourceVars, flow
  <2>7. CASE ControlStep
    BY <2>1, <2>3, <2>7 DEF ControlStep, StopRelease, StopReset, StopDone, PauseDone,
                            FlushWaited, FlushReset, ClearPendingSample, sourceVars, flow,
                            pending
  <2>8. CASE SeekWhileStopped \/ StopSource \/ StartSource \/ SeekPause \/ SeekEndFlush
    \/ SeekStart \/ Finish \/ CallStep
    BY <2>1, <2>8, <1>0 DEF SeekWhileStopped, StopSource, StartSource, SeekPause,
                            SeekEndFlush, EndFlush, SeekStart, Finish, CallStep, InPull,
                            rendererVars, sourceVars, flow, pending
  <2> QED
    BY <1>3, <2>4, <2>5, <2>6, <2>7, <2>8 DEF NewCommand, ManagerStep
<1>5. CASE ClockStep \/ TimePasses \/ TimerStep
  BY <1>5, <1>0 DEF ClockStep, TimePasses, TimerStep, TimerFires, TimerCallback,
                    InRenderer, pullVars, rendererVars, sourceVars, flow, pending
<1>6. CASE Trouble
  <2>1. Pulls
    BY <1>6 DEF Trouble, Correction, TimersChange, pullVars, Pull!ReadFails, Pull!progress
  <2>2. CASE OnDisplayChange
    BY <2>1, <2>2, PlaybackAssumption DEF OnDisplayChange, ClearPendingSample, NULL,
                                          sourceVars, flow
  <2>3. CASE Correction \/ TimersChange \/ UNCHANGED rendererVars
    BY <2>1, <2>3, <1>0 DEF Correction, TimersChange, rendererVars, sourceVars, flow,
                            pending
  <2> QED
    BY <1>6, <2>2, <2>3 DEF Trouble
<1>7. CASE UNCHANGED vars
  BY <1>7, <1>0 DEF vars, rendererVars, pullVars, sourceVars, flow, pending
<1> QED
  BY <1>1, <1>2, <1>3, <1>5, <1>6, <1>7 DEF Next

-----------------------------------------------------------------------------
(* Schedules.  Unless a Run overtook a sample that had come due, there is  *)
(* one advise at most, the one of m_dwAdvise; none is left, and the event  *)
(* is not set, when a new sample may be scheduled; and once the advise has *)
(* fired the sample is due.                                                *)
Quiet == advises = {} /\ m_RenderEvent \notin signalled
Unscheduled == m_State # "Stopped" /\ (~m_bStreaming \/ (m_pMediaSample = NULL /\ ~m_bAbort))
Rendering == receive \in {"due", "render"}
Fired == Rendering \/ m_RenderEvent \in signalled
StartTime == m_tStart + stream[m_pMediaSample].start
ComeDue ==
  \/ stream[m_pMediaSample].kind = "untimed" \/ ~WellTimed(m_pMediaSample)
  \/ m_rtPrivateTime + Lead >= StartTime

NoticeInv ==
  /\ \A a \in advises : a.cookie = m_dwAdvise /\ advises = {a}
  /\ Fired => advises = {}
  /\ Rendering => m_RenderEvent \notin signalled
  /\ Unscheduled => Quiet

DueInv ==
  m_bStreaming /\ m_pMediaSample # NULL =>
    /\ Fired => ComeDue
    /\ \A a \in advises : a.time >= StartTime

ScheduleInv ==
  /\ advising => rtNow <= m_rtPrivateTime
  /\ ~overtaken => NoticeInv /\ DueInv

(* After CancelNotification nothing is advised. *)
LEMMA CancelQuiets ==
  ASSUME NoticeInv, CancelNotification
  PROVE /\ Quiet' /\ advises' = {} /\ m_RenderEvent \notin signalled'
BY DEF NoticeInv, CancelNotification, Unadvise, Quiet

(* ScheduleSample asks for one advise, at the start of the sample, or sets *)
(* the event if the sample has no times.                                   *)
LEMMA ScheduleNotifies ==
  ASSUME Quiet, SampleInv, NEW n \in 1 .. Chunks, NEW start \in Nat, ScheduleSample(n, start)
  PROVE  /\ \A a \in advises' : a.cookie = m_dwAdvise' /\ advises' = {a}
         /\ m_RenderEvent \in signalled' => advises' = {} /\ stream[n].kind = "untimed"
         /\ \A a \in advises' : a.time = start + stream[n].start
<1>1. CASE stream[n].kind = "untimed"
  BY <1>1 DEF ScheduleSample, Quiet
<1>2. CASE stream[n].kind # "untimed"
  <2>1. PICK cookie : /\ AdviseTime(cookie, start + stream[n].start, m_RenderEvent)
                      /\ m_dwAdvise' = cookie
                      /\ UNCHANGED signalled
    BY <1>2 DEF ScheduleSample
  <2>2. advises' = {[cookie |-> cookie, time |-> start + stream[n].start,
       notify |-> m_RenderEvent]}
    BY <2>1 DEF AdviseTime, AddAdvisePacket, Quiet
  <2> QED
    BY <2>1, <2>2 DEF Quiet
<1> QED
  BY <1>1, <1>2

(* What is due stays due, as time goes on. *)
LEMMA DueStays ==
  ASSUME SampleInv, ClockTypeOK, m_rtPrivateTime' \in Nat, m_rtPrivateTime' >= m_rtPrivateTime,
         m_pMediaSample # NULL, UNCHANGED <<stream, m_pMediaSample, m_tStart>>
  PROVE  StartTime' = StartTime /\ StartTime \in Nat /\ (ComeDue => ComeDue')
<1>1. stream[m_pMediaSample].start \in Nat
  BY SampleNumbers, PlaybackAssumption DEF SampleInv, NULL, Sample
<1>2. StartTime' = StartTime /\ StartTime \in Nat
  BY <1>1 DEF StartTime, SampleInv
<1> QED
  BY <1>1, <1>2, ClockAssumption DEF ComeDue, WellTimed, ClockTypeOK

seen == <<advises, m_dwAdvise, signalled, m_State, m_bStreaming, m_pMediaSample, m_bAbort,
     m_tStart, stream>>

(* A step that touches neither the schedule nor the sample. *)
LEMMA ScheduleAlone ==
  ASSUME ScheduleInv, SampleInv, ClockTypeOK, m_rtPrivateTime' \in Nat,
       m_rtPrivateTime' >= m_rtPrivateTime,
         UNCHANGED <<seen, overtaken>>, Rendering' => Rendering,
         advising' => rtNow' <= m_rtPrivateTime'
  PROVE ScheduleInv'
<1> SUFFICES ASSUME ~overtaken, ~overtaken' PROVE NoticeInv' /\ DueInv'
  BY DEF ScheduleInv, seen
<1>1. NoticeInv /\ DueInv
  BY DEF ScheduleInv
<1>2. NoticeInv'
  BY <1>1 DEF NoticeInv, Fired, Unscheduled, Quiet, seen
<1>3. ASSUME m_bStreaming, m_pMediaSample # NULL PROVE ComeDue \/ ~Fired'
  BY <1>1, <1>3 DEF DueInv, Fired, seen
<1>4. DueInv'
  BY <1>1, <1>3, DueStays DEF DueInv, Fired, seen
<1> QED
  BY <1>2, <1>4

(* The clock goes forward only. *)
LEMMA TimeForward ==
  ASSUME ClockTypeOK, [ClockNext]_clockVars, advising => rtNow <= m_rtPrivateTime
  PROVE  /\ m_rtPrivateTime' \in Nat /\ m_rtPrivateTime' >= m_rtPrivateTime
         /\ advising' => rtNow' <= m_rtPrivateTime'
<1> USE DEF ClockTypeOK
<1>1. CASE Wake
  BY <1>1 DEF Wake
<1>2. CASE Advise
  BY <1>2 DEF Advise
<1>3. CASE Tick
  BY <1>3 DEF Tick
<1>4. CASE Client
  BY <1>4 DEF Client, threadVars
<1>5. ASSUME NEW delta \in Deltas, SetTimeDelta(delta)
      PROVE  /\ m_rtPrivateTime' \in Nat /\ m_rtPrivateTime' >= m_rtPrivateTime
             /\ advising' => rtNow' <= m_rtPrivateTime'
  BY <1>5, RendererConstants DEF SetTimeDelta, Correct
<1>6. CASE UNCHANGED clockVars
  BY <1>6 DEF clockVars, threadVars
<1> QED
  BY <1>1, <1>2, <1>3, <1>4, <1>5, <1>6 DEF ClockNext

(* What was overtaken stays so. *)
LEMMA OvertakenStays ==
  ASSUME [Next]_vars, overtaken
  PROVE overtaken'
<1> USE DEF renderHistory
<1>1. CASE SourceStep \/ ChunkArrives
  BY <1>1 DEF SourceStep, ChunkArrives, Deliver, BeginReceive, Delivered,
              DeliverEndOfStream, EndOfStream, PullStep, InPull, rendererVars, ReceiveStep,
              PrepareReceive, CheckPaused, ReceiveFirstSample, FirstReady, Released,
              ComesDue, SignalTimerFired, Render, ReportError
<1>2. CASE NewCommand \/ ManagerStep
  BY <1>2 DEF NewCommand, BeginStop, Stop, BeginPause, Pause, PauseAgain, BeginRun, Run,
              BeginSeek, BeginFlush, SeekWhileStopped, rendererVars, ManagerStep,
              StopSource, ContinueRun, StartSource, SeekPause, SeekEndFlush, EndFlush,
              SeekStart, Finish, CallStep, InPull, ControlStep, StopRelease, StopReset,
              StopDone, PauseDone, FlushWaited, FlushReset
<1>3. CASE ClockStep \/ TimePasses \/ TimerStep \/ Trouble \/ UNCHANGED vars
  BY <1>3 DEF ClockStep, TimePasses, TimerStep, TimerFires, TimerCallback, Trouble,
              Correction, TimersChange, OnDisplayChange, rendererVars, vars
<1> QED
  BY <1>1, <1>2, <1>3 DEF Next

(* Every step keeps the schedule. *)
LEMMA ScheduleKept ==
  ASSUME ProtocolInv, CountInv, SampleInv, ClockTypeOK, ScheduleInv, [Next]_vars
  PROVE ScheduleInv'
<1> DEFINE Alone == UNCHANGED <<seen, overtaken>>
<1>1. /\ m_rtPrivateTime' \in Nat /\ m_rtPrivateTime' >= m_rtPrivateTime
      /\ advising' => rtNow' <= m_rtPrivateTime'
  BY TimeForward, PlaybackStepIsClockStep DEF ScheduleInv
<1>2. Alone /\ (Rendering' => Rendering) => ScheduleInv'
  BY <1>1, ScheduleAlone
<1>3. SUFFICES ASSUME ~overtaken, ~overtaken', ~(Alone /\ (Rendering' => Rendering))
               PROVE NoticeInv' /\ DueInv'
  BY <1>1, <1>2, OvertakenStays DEF ScheduleInv
<1>4. NoticeInv /\ DueInv
  BY <1>3 DEF ScheduleInv
<1>5. CASE SourceStep
  <2>1. CASE Deliver \/ Delivered \/ DeliverEndOfStream \/ PullStep
    <3>1. Alone
      BY <2>1 DEF Deliver, BeginReceive, Delivered, DeliverEndOfStream, EndOfStream,
                  PullStep, InPull, clockVars, threadVars, rendererVars, flow, pending,
                  refusals, renderHistory, seen
    <3>2. Rendering' => Rendering
      BY <2>1 DEF Deliver, BeginReceive, Delivered, DeliverEndOfStream, EndOfStream,
                  PullStep, InPull, rendererVars, sourceVars, Rendering
    <3> QED
      BY <3>1, <3>2, <1>3
  <2>2. CASE PrepareReceive
    <3>1. pSample \in 1 .. Chunks /\ m_tStart \in Nat
      BY <2>2, HandedIsSample DEF PrepareReceive, ProtocolInv, SampleInv
    <3>2. /\ ~Rendering'
          /\ UNCHANGED <<m_State, m_bStreaming, m_bAbort, m_tStart, stream, overtaken>>
      BY <2>2 DEF PrepareReceive, Return, Rendering, flow, refusals, renderHistory
    <3>3. CASE UNCHANGED <<advises, m_dwAdvise, signalled, m_pMediaSample>>
      BY <1>3, <3>2, <3>3 DEF seen
    <3>4. CASE /\ Accepts /\ m_pMediaSample = NULL /\ ~m_bAbort
               /\ IF m_bStreaming THEN ScheduleSample(pSample, m_tStart)
                  ELSE UNCHANGED <<advises, m_ev, signalled, m_dwAdvise>>
               /\ m_pMediaSample' = pSample
      <4>1. Quiet
        BY <1>4, <3>4 DEF NoticeInv, Unscheduled, Accepts, CheckStreaming
      <4>2. CASE ~m_bStreaming
        BY <1>4, <3>2, <3>4, <4>1, <4>2 DEF NoticeInv, DueInv, Fired, Unscheduled, Quiet
      <4>3. CASE m_bStreaming
        <5>1. /\ \A a \in advises' : a.cookie = m_dwAdvise' /\ advises' = {a}
              /\ m_RenderEvent \in signalled' =>
                   advises' = {} /\ stream[pSample].kind = "untimed"
              /\ \A a \in advises' : a.time = m_tStart + stream[pSample].start
          BY <3>1, <3>4, <4>1, <4>3, ScheduleNotifies
        <5>2. pSample # NULL /\ StartTime' = m_tStart + stream[pSample].start
          /\ StartTime' \in Nat
          BY <3>1, <3>2, <3>4, SampleNumbers DEF NULL, StartTime, SampleInv, Sample
        <5>3. NoticeInv'
          BY <3>2, <3>4, <4>3, <5>1, <5>2 DEF NoticeInv, Fired, Unscheduled
        <5>4. DueInv'
          BY <3>2, <3>4, <5>1, <5>2 DEF DueInv, Fired, ComeDue
        <5> QED
          BY <5>3, <5>4
      <4> QED
        BY <4>2, <4>3
    <3> QED
      BY <2>2, <3>3, <3>4 DEF PrepareReceive, clockVars, threadVars, pending
  <2>3. CASE CheckPaused \/ ReceiveFirstSample \/ FirstReady \/ Released
    \/ SignalTimerFired \/ ReportError
    <3>1. CASE SignalTimerFired
      <4>1. advises' = {} /\ signalled' = signalled /\ Rendering
        BY <3>1, <1>4 DEF SignalTimerFired, NoticeInv, Fired, Rendering, clockVars
      <4>2. UNCHANGED <<m_rtPrivateTime, m_State, m_bStreaming, m_pMediaSample, m_bAbort,
           m_tStart, stream>>
        BY <3>1 DEF SignalTimerFired, clockVars, flow, pending, refusals
      <4> QED
        BY <1>4, <4>1, <4>2 DEF NoticeInv, DueInv, Fired, Unscheduled, Quiet, ComeDue,
                                WellTimed, StartTime
    <3>2. CASE CheckPaused \/ ReceiveFirstSample \/ FirstReady \/ Released \/ ReportError
      <4>1. Alone
        BY <3>2 DEF CheckPaused, ReceiveFirstSample, FirstReady, Released, ReportError,
                    clockVars, threadVars, flow, pending, refusals, renderHistory, seen
      <4>2. ~Rendering'
        BY <3>2 DEF CheckPaused, ReceiveFirstSample, FirstReady, Released, ReportError,
                    Return, Rendering
      <4> QED
        BY <1>3, <4>1, <4>2
    <3> QED
      BY <2>3, <3>1, <3>2
  <2>4. CASE ComesDue
    <3>1. /\ Fired /\ advises = {} /\ advises' = {} /\ signalled' = signalled \ {m_RenderEvent}
          /\ UNCHANGED <<m_rtPrivateTime, m_State, m_bStreaming, m_pMediaSample, m_bAbort,
               m_tStart, stream>>
      BY <1>4, <2>4 DEF ComesDue, NoticeInv, Fired, flow, pending, refusals
    <3> QED
      BY <1>4, <3>1 DEF NoticeInv, DueInv, Fired, Unscheduled, Quiet, ComeDue, WellTimed,
                        StartTime
  <2>5. CASE Render
    <3>1. CASE m_State = "Stopped"
      BY <1>3, <2>5, <3>1 DEF Render, Return, Rendering, seen, flow, refusals,
                              renderHistory
    <3>2. CASE m_State # "Stopped"
      <4>1. Quiet' /\ m_pMediaSample' = NULL /\ ~Rendering'
        BY <1>4, <2>5, <3>2, CancelQuiets DEF Render, ClearPendingSample, Return, Rendering
      <4> QED
        BY <4>1 DEF NoticeInv, DueInv, Fired, Quiet
    <3> QED
      BY <3>1, <3>2
  <2> QED
    BY <1>5, <2>1, <2>2, <2>3, <2>4, <2>5 DEF SourceStep, ReceiveStep
<1>6. CASE ChunkArrives
  BY <1>3, <1>6 DEF ChunkArrives, InPull, clockVars, rendererVars, sourceVars, Rendering,
                    flow, pending, refusals, renderHistory, seen
<1>7. ASSUME NEW tStart \in StartTimes, Run(tStart)
      PROVE  NoticeInv' /\ DueInv'
  <2>1. /\ m_State = "Paused" /\ ~m_bStreaming /\ Quiet /\ tStart \in Nat
    <3>1. m_State = "Paused" /\ ~m_bStreaming
      BY <1>7 DEF Run, ProtocolInv, CommandInv
    <3> QED
      BY <1>4, <3>1 DEF NoticeInv, Unscheduled, StartTimes, ClockTypeOK, SampleInv
  <2>2. /\ ~Rendering /\ ~Rendering'
        /\ m_tStart' = tStart /\ m_bStreaming' = TRUE
        /\ UNCHANGED <<stream, m_pMediaSample, m_rtPrivateTime>>
    BY <1>3, <1>7 DEF Run, Rendering, sourceVars, pending
  <2>3. CASE m_pMediaSample = NULL
    BY <1>4, <1>7, <2>1, <2>2, <2>3 DEF Run, StartStreaming, NoticeInv, DueInv, Fired,
                                        Quiet
  <2>4. CASE m_pMediaSample # NULL /\ ~WellTimed(m_pMediaSample)
    <3>1. UNCHANGED advises /\ UNCHANGED m_dwAdvise
      BY <1>7, <2>4 DEF Run, StartStreaming
    <3>2. ~WellTimed(m_pMediaSample)'
      BY <2>2, <2>4 DEF WellTimed
    <3> QED
      BY <2>1, <2>2, <2>4, <3>1, <3>2 DEF NoticeInv, DueInv, Fired, Quiet, ComeDue,
                                          Unscheduled
  <2>5. CASE m_pMediaSample # NULL /\ WellTimed(m_pMediaSample)
    <3>1. m_pMediaSample \in 1 .. Chunks
      BY <2>5, PlaybackAssumption DEF SampleInv, NULL
    <3>2. /\ \A a \in advises' : a.cookie = m_dwAdvise' /\ advises' = {a}
          /\ m_RenderEvent \in signalled' =>
               advises' = {} /\ stream[m_pMediaSample].kind = "untimed"
          /\ \A a \in advises' : a.time = tStart + stream[m_pMediaSample].start
      BY <1>7, <2>1, <2>5, <3>1, ScheduleNotifies DEF Run, StartStreaming
    <3>3. StartTime' = tStart + stream[m_pMediaSample].start /\ StartTime' \in Nat
      BY <2>1, <2>2, <3>1, SampleNumbers DEF StartTime, SampleInv, Sample
    <3> QED
      BY <2>2, <2>5, <3>2, <3>3 DEF NoticeInv, DueInv, Fired, ComeDue, Unscheduled
  <2> QED
    BY <2>3, <2>4, <2>5
<1>8. ASSUME NEW next, Pause(next)
      PROVE  NoticeInv' /\ DueInv'
  <2>1. Quiet' /\ ~m_bStreaming' /\ UNCHANGED receive
    BY <1>4, <1>8, CancelQuiets DEF Pause, sourceVars
  <2> QED
    BY <1>4, <2>1, <1>8 DEF NoticeInv, DueInv, Fired, Quiet, Rendering
<1>9. CASE NewCommand
  <2>1. CASE BeginStop
    <3>1. m_State' = "Stopped" /\ ~m_bStreaming' /\ UNCHANGED <<receive, advises,
         m_dwAdvise, signalled>>
      BY <2>1 DEF BeginStop, Stop, clockVars, sourceVars
    <3> QED
      BY <1>4, <3>1 DEF NoticeInv, DueInv, Fired, Unscheduled, Rendering
  <2>2. CASE BeginPause \/ BeginRun
    <3>1. CASE PauseAgain
      BY <1>3, <3>1 DEF PauseAgain, clockVars, sourceVars, flow, pending, refusals,
                        renderHistory, Rendering, seen
    <3> QED
      BY <1>7, <1>8, <2>2, <3>1 DEF BeginPause, BeginRun
  <2>3. CASE BeginSeek
    <3>1. Quiet' /\ m_pMediaSample' = NULL /\ UNCHANGED receive
      BY <1>4, <2>3, CancelQuiets DEF BeginSeek, BeginFlush, ClearPendingSample, sourceVars
    <3> QED
      BY <3>1 DEF NoticeInv, DueInv, Fired, Quiet
  <2>4. CASE SeekWhileStopped
    BY <1>3, <2>4 DEF SeekWhileStopped, clockVars, rendererVars, sourceVars, Rendering,
                      flow, pending, refusals, renderHistory, seen
  <2> QED
    BY <1>9, <2>1, <2>2, <2>3, <2>4 DEF NewCommand
<1>10. CASE ManagerStep
  <2>1. CASE ContinueRun
    BY <1>7, <2>1 DEF ContinueRun
  <2>2. CASE StopReset
    <3>1. Quiet' /\ UNCHANGED <<receive, m_State, m_bStreaming>> /\ m_State = "Stopped"
      BY <1>4, <2>2, CancelQuiets DEF StopReset, sourceVars, flow, ProtocolInv, CommandInv
    <3> QED
      BY <3>1 DEF NoticeInv, DueInv, Fired, Quiet, Unscheduled, ProtocolInv, CommandInv
  <2>3. CASE StopDone
    <3>1. m_State = "Stopped" /\ ~m_bStreaming
      BY <2>3 DEF StopDone, ProtocolInv, CommandInv
    <3>2. UNCHANGED <<receive, m_State, m_bStreaming, advises, m_dwAdvise, signalled>>
      BY <2>3 DEF StopDone, clockVars, sourceVars, flow
    <3> QED
      BY <1>4, <3>1, <3>2 DEF NoticeInv, DueInv, Fired, Rendering, Unscheduled
  <2>4. CASE PauseDone
    <3>1. m_State = "Paused" /\ ~m_bStreaming
      BY <2>4 DEF PauseDone, ProtocolInv, CommandInv
    <3>2. UNCHANGED <<receive, m_State, m_bStreaming, advises, m_dwAdvise, signalled>>
      BY <2>4 DEF PauseDone, clockVars, sourceVars, flow
    <3> QED
      BY <1>4, <3>1, <3>2 DEF NoticeInv, DueInv, Fired, Rendering, Unscheduled, Quiet
  <2>5. CASE StopRelease \/ FlushWaited \/ FlushReset \/ StopSource \/ StartSource \/ SeekPause
             \/ SeekEndFlush \/ SeekStart \/ Finish \/ CallStep
    BY <1>3, <2>5 DEF StopRelease, FlushWaited, FlushReset, StopSource, StartSource,
                      SeekPause, SeekEndFlush, EndFlush, SeekStart, Finish, CallStep,
                      InPull, clockVars, rendererVars, sourceVars, Rendering, flow,
                      pending, refusals, renderHistory, seen
  <2> QED
    BY <1>10, <2>1, <2>2, <2>3, <2>4, <2>5 DEF ManagerStep, ControlStep
<1>11. CASE ClockStep
  <2>1. UNCHANGED <<m_dwAdvise, receive, m_State, m_bStreaming, m_pMediaSample, m_bAbort,
       m_tStart, stream>>
    BY <1>11 DEF ClockStep, rendererVars, sourceVars, flow, pending, refusals
  <2>2. CASE Wake
    BY <1>3, <1>11, <2>2 DEF ClockStep, Wake, rendererVars, sourceVars, flow, pending,
                             refusals, renderHistory, seen, Rendering
  <2>3. CASE Advise
    <3> DEFINE due == {a \in advises : a.time <= rtNow + Lead}
    <3>1. /\ rtNow \in Nat /\ rtNow <= m_rtPrivateTime
          /\ m_rtPrivateTime' = m_rtPrivateTime /\ m_rtPrivateTime \in Nat
      BY <2>3 DEF Advise, ScheduleInv, ClockTypeOK
    <3>2. /\ advises' = advises \ due
          /\ signalled' = signalled \cup {a.notify : a \in due}
      BY <2>3 DEF Advise
    <3>3. CASE due = {}
      <4>1. advises' = advises /\ signalled' = signalled
        BY <3>2, <3>3
      <4> QED
        BY <1>3, <1>11, <2>1, <4>1 DEF ClockStep, rendererVars, renderHistory, seen,
                                       Rendering
    <3>4. CASE due # {}
      <4>1. PICK b \in due : TRUE
        BY <3>4
      <4>2. advises = {b} /\ ~Fired /\ ~Unscheduled
        BY <1>4, <4>1 DEF NoticeInv, Quiet
      <4>3. advises' = {}
        BY <3>2, <4>1, <4>2
      <4>4. ~Rendering' /\ ~Unscheduled'
        BY <1>11, <2>1, <4>2 DEF Fired, Rendering, Unscheduled
      <4>5. ASSUME m_bStreaming', m_pMediaSample' # NULL
            PROVE  ComeDue'
        <5>1. b.time >= StartTime /\ b.time <= rtNow + Lead /\ b.time \in Nat
          BY <1>4, <2>1, <4>1, <4>5 DEF DueInv, ClockTypeOK, Packets
        <5>2. StartTime' = StartTime /\ StartTime \in Nat
          BY <1>1, <2>1, <4>5, DueStays
        <5> QED
          BY <3>1, <5>1, <5>2, ClockAssumption DEF ComeDue
      <4> QED
        BY <4>3, <4>4, <4>5 DEF NoticeInv, DueInv
    <3> QED
      BY <3>3, <3>4
  <2> QED
    BY <1>11, <2>2, <2>3 DEF ClockStep
<1>12. CASE TimePasses \/ TimerStep
  BY <1>3, <1>12 DEF TimePasses, Tick, TimerStep, TimerFires, TimerCallback, clockVars,
                     threadVars, flow, pending, refusals, sourceVars, renderHistory,
                     Rendering, seen
<1>13. CASE Trouble
  <2>1. CASE Correction \/ TimersChange
    BY <1>3, <2>1 DEF Correction, TimersChange, SetTimeDelta, Correct, clockVars,
                      rendererVars, flow, pending, refusals, sourceVars, renderHistory,
                      Rendering, seen
  <2>2. CASE OnDisplayChange
    <3>1. m_pMediaSample' = NULL /\ m_bAbort' /\ UNCHANGED <<receive, advises, signalled,
         m_dwAdvise, m_State, m_bStreaming>>
      BY <2>2 DEF OnDisplayChange, ClearPendingSample, clockVars, flow, sourceVars
    <3> QED
      BY <1>4, <3>1 DEF NoticeInv, DueInv, Fired, Rendering, Unscheduled, Quiet
  <2>3. CASE UNCHANGED <<clockVars, rendererVars>>
    BY <1>3, <2>3 DEF clockVars, rendererVars, flow, pending, refusals, sourceVars,
                      renderHistory, Rendering, seen
  <2> QED
    BY <1>13, <2>1, <2>2, <2>3 DEF Trouble
<1>14. CASE UNCHANGED vars
  BY <1>3, <1>14 DEF vars, clockVars, rendererVars, flow, pending, refusals, sourceVars,
                     renderHistory, Rendering, seen
<1> QED
  BY <1>5, <1>6, <1>9, <1>10, <1>11, <1>12, <1>13, <1>14 DEF Next

-----------------------------------------------------------------------------
(* The end of the stream.  m_SignalTime is the end of the last frame once  *)
(* that has been handed over to a renderer in play, and m_bEOS is set only *)
(* between then and the next command that moves the source.                *)
InPlay == m_State # "Stopped" /\ ~m_bFlushing
LastHanded ==
  /\ Handed = Chunks
  /\ \/ worker \in {"loop", "queue", "collect", "end"}
     \/ worker = "deliver" /\ (hr = "ok" \/ receive \notin {"none", "prepare", "failed"})

AtEnd ==
  /\ tCurrent > Chunks /\ outstanding = 0
  /\ AtRest /\ ~m_EventSend /\ caller \in {"none", "starting"} /\ pullState = "TM_Start"
  /\ manager \notin {"paused", "restart"}
  /\ manager = "stop" => control \in {"stopped", "stopKill"}
  /\ manager = "flush" => control \in {"flushing", "flushKill"}

EndInv ==
  /\ hr \in {"none", "ok", "error"}
  /\ m_bEOS => AtEnd
  /\ m_EndOfStreamTimer # 0 => m_bEOS /\ m_pMediaSample = NULL
  /\ control \in {"stopKill", "flushKill"} /\ killed = 0 => m_EndOfStreamTimer = 0
  /\ m_bEOS \/ (InPlay /\ LastHanded) => EndTime <= m_SignalTime

(* The end is a time. *)
LEMMA EndTimeType ==
  ASSUME SampleInv, CountInv
  PROVE EndTime \in Nat
<1>1. Chunks \in 1 .. Chunks
  BY PlaybackAssumption
<1>2. stream[Chunks] \in Sample
  BY <1>1, SampleNumbers DEF SampleInv
<1> QED
  BY <1>2 DEF EndTime, Sample

pullEnd == <<outstanding, tCurrent, pullStart, worker, m_EventSend, caller, pullState>>
commandEnd == <<manager, control, killed, m_State, m_bFlushing>>
renderEnd == <<stream, m_SignalTime, m_pMediaSample, m_bEOS, m_EndOfStreamTimer>>

(* A step that touches nothing of this. *)
LEMMA EndAlone ==
  ASSUME EndInv, UNCHANGED <<pullEnd, commandEnd, renderEnd, receive, hr>>
  PROVE EndInv'
BY DEF EndInv, AtEnd, AtRest, InPlay, LastHanded, Handed, EndTime, WellTimed, pullEnd,
       commandEnd, renderEnd

(* The steps of the source thread. *)
LEMMA EndKeptSource ==
  ASSUME ProtocolInv, CountInv, SampleInv, EndInv, SourceStep \/ ChunkArrives
  PROVE EndInv'
<1> USE PlaybackAssumption
<1>0. EndTime \in Nat
  BY EndTimeType
<1>1. CASE Deliver
  <2>1. UNCHANGED <<pullEnd, commandEnd, renderEnd, hr>> /\ receive' = "prepare"
    /\ worker = "deliver" /\ hr = "none"
    BY <1>1 DEF Deliver, BeginReceive, InRenderer, pullVars, managerVars, controlVars,
                flow, refusals, pending, ending, pullEnd, commandEnd, renderEnd
  <2> QED
    BY <2>1 DEF EndInv, AtEnd, AtRest, InPlay, LastHanded, Handed, EndTime, WellTimed,
                pullEnd, commandEnd, renderEnd
<1>2. CASE Delivered
  <2>1. UNCHANGED <<commandEnd, renderEnd, receive, outstanding, tCurrent, pullStart,
       m_EventSend, caller, pullState>>
    BY <1>2 DEF Delivered, Pull!Delivered, Pull!workerOnly, Pull!request, Pull!progress,
                managerVars, controlVars, flow, refusals, pending, ending, commandEnd,
                renderEnd
  <2>2. worker = "deliver" /\ receive = "none" /\ hr' = "none"
    /\ worker' = IF hr = "ok" THEN IF outstanding = 0 THEN "loop" ELSE "queue" ELSE "cleanup"
    BY <1>2 DEF Delivered, Pull!Delivered
  <2> QED
    BY <2>1, <2>2 DEF EndInv, AtEnd, AtRest, InPlay, LastHanded, Handed, EndTime,
                      WellTimed, commandEnd, renderEnd
<1>3. CASE DeliverEndOfStream
  <2>1. UNCHANGED <<commandEnd, stream, m_SignalTime, m_pMediaSample, receive, hr,
       outstanding, tCurrent, pullStart, m_EventSend, caller, pullState>>
    BY <1>3 DEF DeliverEndOfStream, EndOfStream, Pull!EndProcess, Pull!workerOnly,
                Pull!request, Pull!progress, managerVars, controlVars, sourceVars, flow,
                refusals, pending, commandEnd
  <2>2. worker = "end" /\ worker' = "cleanup" /\ receive = "none" /\ control = "none"
    BY <1>3 DEF DeliverEndOfStream, EndOfStream, InterfaceFree, Pull!EndProcess
  <2>3. Handed = Chunks /\ tCurrent > Chunks /\ outstanding = 0
    BY <2>2 DEF CountInv, Handed
  <2>4. CASE ~InPlay \/ m_bRunTimeError
    <3>1. UNCHANGED renderEnd
      BY <1>3, <2>4, <2>1 DEF DeliverEndOfStream, EndOfStream, CheckStreaming, InPlay,
                              ending, renderEnd
    <3> QED
      BY <2>1, <2>2, <3>1 DEF EndInv, AtEnd, AtRest, InPlay, LastHanded, Handed, EndTime,
                              WellTimed, commandEnd, renderEnd
  <2>5. CASE InPlay /\ ~m_bRunTimeError
    <3>1. m_bEOS' = TRUE /\ \/ UNCHANGED m_EndOfStreamTimer
                            \/ m_pMediaSample = NULL
      BY <1>3, <2>5 DEF DeliverEndOfStream, EndOfStream, CheckStreaming, InPlay, Waiting
    <3>2. AtEnd'
      BY <2>1, <2>2, <2>3, <2>5 DEF AtEnd, AtRest, InPlay, ProtocolInv, RequestInv,
                                    CommandInv, Asked, Stopping, commandEnd
    <3> QED
      BY <2>1, <2>2, <2>3, <2>5, <3>1, <3>2 DEF EndInv, InPlay, LastHanded, Handed,
         EndTime, WellTimed, commandEnd
  <2> QED
    BY <2>4, <2>5
<1>4. CASE PullStep \/ ChunkArrives
  <2>1. UNCHANGED <<commandEnd, renderEnd, receive, hr, pullStart, caller, pullState>>
    BY <1>4 DEF PullStep, ChunkArrives, InPull, rendererVars, managerVars, sourceVars,
                controlVars, flow, refusals, pending, ending, commandEnd, renderEnd,
                Pull!GetRequest, Pull!EndOfLoop, Pull!SyncRead, Pull!QueueSample,
                Pull!EndOfQueue, Pull!CleanupCancelled, Pull!ReadFails, Pull!Collect,
                Pull!workerOnly
  <2>2. worker # "deliver" /\ receive = "none" /\ hr = "none"
    BY <1>4 DEF PullStep, ChunkArrives, ProtocolInv, RequestInv, Pull!GetRequest,
                Pull!EndOfLoop, Pull!SyncRead, Pull!QueueSample, Pull!EndOfQueue,
                Pull!CleanupCancelled, Pull!ReadFails, Pull!Collect
  <2>3. m_bEOS => AtEnd'
    BY <1>4, <2>1 DEF EndInv, AtEnd, AtRest, commandEnd, PullStep, ChunkArrives,
                      Pull!GetRequest, Pull!EndOfLoop, Pull!SyncRead, Pull!QueueSample,
                      Pull!EndOfQueue, Pull!CleanupCancelled, Pull!ReadFails, Pull!Collect,
                      Pull!workerOnly, Pull!progress, Pull!request
  <2>4. LastHanded' => LastHanded \/ pullStart > Chunks
    <3>1. CASE Pull!GetRequest
      BY <2>1, <2>2, <3>1 DEF Pull!GetRequest, Pull!workerOnly, ProtocolInv, RequestInv,
                              CountInv, LastHanded, Handed
    <3>2. CASE Pull!EndOfLoop \/ Pull!SyncRead \/ Pull!QueueSample \/ Pull!EndOfQueue
      \/ Pull!Collect
      BY <2>1, <2>2, <3>2 DEF Pull!EndOfLoop, Pull!SyncRead, Pull!QueueSample,
                              Pull!EndOfQueue, Pull!Collect, CountInv, LastHanded, Handed,
                              Pull!progress
    <3>3. CASE Pull!CleanupCancelled \/ Pull!ReadFails
      BY <2>1, <2>2, <3>3 DEF Pull!CleanupCancelled, Pull!ReadFails, LastHanded
    <3> QED
      BY <1>4, <3>1, <3>2, <3>3 DEF PullStep, ChunkArrives
  <2>5. EndTime' = EndTime /\ (pullStart > Chunks => EndTime = 0)
    BY <2>1 DEF EndTime, WellTimed, CountInv, renderEnd
  <2> QED
    BY <1>0, <2>1, <2>3, <2>4, <2>5 DEF EndInv, InPlay, SampleInv, commandEnd, renderEnd
<1>5. CASE ReceiveStep
  <2>1. UNCHANGED <<pullEnd, manager>> /\ worker = "deliver" /\ ~m_bEOS
    BY <1>5 DEF ReceiveStep, InRenderer, pullVars, managerVars, PrepareReceive,
                CheckPaused, ReceiveFirstSample, FirstReady, Released, ComesDue,
                SignalTimerFired, Render, ReportError, ProtocolInv, RequestInv, EndInv,
                AtEnd, AtRest, pullEnd
  <2>2. CASE PrepareReceive
    <3>1. UNCHANGED <<commandEnd, stream, m_bEOS, m_EndOfStreamTimer>>
      BY <2>1, <2>2 DEF PrepareReceive, flow, refusals, controlVars, ending, commandEnd
    <3>2. pSample = Handed /\ Handed \in 1 .. Chunks
      BY <2>2, HandedIsSample DEF PrepareReceive, SampleInv, ProtocolInv
    <3>3. \/ receive' = "failed" /\ UNCHANGED <<m_SignalTime, hr, m_pMediaSample>>
          \/ m_SignalTime' = stream[pSample].stop /\ UNCHANGED hr
          \/ ~WellTimed(pSample) /\ UNCHANGED <<m_SignalTime, m_pMediaSample>> /\ hr' = "ok"
      BY <2>2 DEF PrepareReceive, pending, Return
    <3>4. LastHanded' => Handed = Chunks /\ (receive' # "failed" \/ hr' = "ok")
      BY <2>1 DEF LastHanded, Handed, pullEnd
    <3>5. stream[pSample].stop \in Nat /\ hr # "ok"
      BY <2>2, <3>2, SampleNumbers DEF SampleInv, Sample, PrepareReceive, EndInv,
                                       ProtocolInv, RequestInv
    <3>6. LastHanded' => EndTime' <= m_SignalTime'
      BY <2>1, <3>1, <3>2, <3>3, <3>4, <3>5 DEF EndTime, WellTimed, SampleInv, pullEnd
    <3>7. m_EndOfStreamTimer' = 0
      BY <2>1, <3>1 DEF EndInv
    <3> QED
      BY <2>1, <3>1, <3>3, <3>6, <3>7 DEF EndInv
  <2>3. CASE ~PrepareReceive
    <3>1. UNCHANGED <<commandEnd, stream, m_SignalTime, m_bEOS>>
      BY <1>5, <2>1, <2>3 DEF ReceiveStep, CheckPaused, ReceiveFirstSample, FirstReady,
                              Released, ComesDue, SignalTimerFired, Render, ReportError,
                              flow, refusals, controlVars, pending, ending, commandEnd
    <3>2. m_EndOfStreamTimer' = 0
      <4>1. m_EndOfStreamTimer = 0
        BY <2>1 DEF EndInv
      <4>2. CASE Render
        BY <2>1, <4>1, <4>2 DEF Render, SendEndOfStream, ending
      <4> QED
        BY <1>5, <2>3, <4>1, <4>2 DEF ReceiveStep, CheckPaused, ReceiveFirstSample,
                                      FirstReady, Released, ComesDue, SignalTimerFired,
                                      ReportError, NotifyEndOfStream, ending
    <3>3. InPlay /\ LastHanded' => LastHanded
      BY <1>5, <2>1, <2>3 DEF ReceiveStep, CheckPaused, ReceiveFirstSample, FirstReady,
                              Released, ComesDue, SignalTimerFired, Render, ReportError,
                              Return, LastHanded, Handed, InPlay, pullEnd
    <3>4. hr' \in {"none", "ok", "error"}
      BY <1>5, <2>3 DEF ReceiveStep, CheckPaused, ReceiveFirstSample, FirstReady, Released,
                        ComesDue, SignalTimerFired, Render, ReportError, Return, EndInv
    <3> QED
      BY <2>1, <3>1, <3>2, <3>3, <3>4 DEF EndInv, InPlay, EndTime, WellTimed, commandEnd,
                                          pullEnd
  <2> QED
    BY <2>2, <2>3
<1> QED
  BY <1>1, <1>2, <1>3, <1>4, <1>5 DEF SourceStep

(* The steps of the manager. *)
LEMMA EndKeptCommand ==
  ASSUME ProtocolInv, CountInv, SampleInv, EndInv, NewCommand \/ ManagerStep
  PROVE EndInv'
<1> USE PlaybackAssumption
<1>1. UNCHANGED <<outstanding, tCurrent, stream, receive, hr>>
  BY DEF NewCommand, BeginStop, Stop, BeginPause, Pause, PauseAgain, BeginRun, Run,
         BeginSeek, BeginFlush, SeekWhileStopped, ManagerStep, StopSource, ContinueRun,
         StartSource, SeekPause, SeekEndFlush, EndFlush, SeekStart, Finish, CallStep,
         InPull, ControlStep, InRenderer, StopRelease, StopReset, StopDone, PauseDone,
         FlushWaited, FlushReset, rendererVars, sourceVars, pullVars,
         Pull!BeginReaderFlush, Pull!StartThread, Pull!SeekIdle, Pull!CallFlushed,
         Pull!Replied, Pull!Close, Pull!progress
<1>2. ASSUME UNCHANGED <<m_SignalTime, m_bEOS, pullStart, worker>>,
            InPlay' => InPlay \/ ~LastHanded
      PROVE  (m_bEOS \/ (InPlay /\ LastHanded))' => EndTime' <= m_SignalTime'
  BY <1>1, <1>2 DEF EndInv, LastHanded, Handed, EndTime, WellTimed
<1>3. CASE BeginStop
  <2>1. UNCHANGED <<pullVars, m_SignalTime, m_bEOS, m_EndOfStreamTimer>>
    /\ manager' = "stop" /\ control' = "stopped"
        /\ m_State' = "Stopped" /\ m_pMediaSample' = NULL
    BY <1>3 DEF BeginStop, Begin, Stop, ClearPendingSample
  <2> QED
    BY <1>1, <2>1 DEF EndInv, AtEnd, AtRest, InPlay, EndTime, WellTimed, pullVars
<1>4. ASSUME manager \in {"idle", "start"}, manager' = "start",
            control \in {"none", "run"}, UNCHANGED pullVars,
             PauseAgain \/ (\E next : Pause(next) /\ next \notin {"stopKill", "flushKill"})
               \/ (\E tStart \in StartTimes : Run(tStart))
      PROVE  EndInv'
  <2>1. UNCHANGED <<m_SignalTime, m_bEOS, m_bFlushing, m_pMediaSample>>
    /\ control' \notin {"stopKill", "flushKill"}
    BY <1>4 DEF PauseAgain, Pause, Run, pending, ending, refusals, controlVars
  <2>2. m_State = "Stopped" => ~(m_bEOS \/ LastHanded)
    BY <1>4 DEF ProtocolInv, RequestInv, CommandInv, Stopping, EndInv, AtEnd, AtRest,
                LastHanded
  <2>3. m_EndOfStreamTimer' # 0 => m_bEOS' /\ m_pMediaSample' = NULL
    <3>1. ASSUME NEW tStart \in StartTimes, Run(tStart), m_pMediaSample = NULL
          PROVE  m_EndOfStreamTimer' # 0 => m_bEOS
      BY <3>1 DEF Run, StartStreaming, SendEndOfStream, NotifyEndOfStream, EndInv
    <3> QED
      BY <1>4, <2>1, <3>1 DEF PauseAgain, Pause, Run, StartStreaming, ending, EndInv
  <2>4. m_bEOS => AtEnd'
    BY <1>1, <1>4 DEF EndInv, AtEnd, AtRest, pullVars
  <2> QED
    BY <1>1, <1>2, <1>4, <2>1, <2>2, <2>3, <2>4 DEF EndInv, InPlay, pullVars
<1>5. CASE BeginPause \/ BeginRun
  BY <1>4, <1>5 DEF BeginPause, BeginRun, Begin, Pause, PauseAgain, Run, ProtocolInv,
                    CommandInv
<1>6. CASE BeginSeek
  <2>1. UNCHANGED <<pullVars, m_SignalTime, m_bEOS, m_EndOfStreamTimer>>
    /\ manager' = "flush" /\ control' = "flushing"
        /\ m_bFlushing' /\ m_pMediaSample' = NULL
    BY <1>6 DEF BeginSeek, Begin, BeginFlush, ClearPendingSample, ending
  <2> QED
    BY <1>1, <2>1 DEF EndInv, AtEnd, AtRest, InPlay, EndTime, WellTimed, pullVars
<1>7. CASE SeekWhileStopped \/ StartSource \/ SeekStart
  <2>1. UNCHANGED <<rendererVars, m_SignalTime, m_bEOS, m_EndOfStreamTimer, m_pMediaSample,
       control, killed>>
    BY <1>7 DEF SeekWhileStopped, StartSource, SeekStart, rendererVars, pending, ending,
                controlVars
  <2>2. CASE UNCHANGED pullVars /\ StartSource
    BY <1>1, <1>2, <2>1, <2>2 DEF StartSource, EndInv, AtEnd, AtRest, InPlay, pullVars,
                                  rendererVars, flow, refusals
  <2>3. CASE ~(UNCHANGED pullVars /\ StartSource)
    <3>1. ~m_bEOS /\ worker' \in {"none", "request", "cleanup"}
      BY <1>7, <2>3 DEF SeekWhileStopped, Begin, StartSource, SeekStart, Pull!SeekIdle,
                        Pull!StartThread, Pull!progress, ProtocolInv, RequestInv,
                        CommandInv, EndInv, AtEnd, AtRest
    <3> QED
      BY <1>1, <2>1, <3>1 DEF EndInv, LastHanded, Idle, SeekWhileStopped, StartSource,
                              SeekStart
  <2> QED
    BY <2>2, <2>3
<1>8. CASE StopSource \/ SeekPause \/ Finish \/ CallStep
  <2>1. UNCHANGED <<m_SignalTime, m_bEOS, m_EndOfStreamTimer, m_pMediaSample, control,
       killed, m_State, m_bFlushing, pullStart>>
    BY <1>8 DEF StopSource, SeekPause, Finish, CallStep, InPull, rendererVars, pending,
                ending, controlVars, flow, refusals, Pull!BeginReaderFlush,
                Pull!CallFlushed, Pull!Replied, Pull!Close, pullVars
  <2>2. LastHanded' => LastHanded
    BY <1>1, <1>8 DEF StopSource, SeekPause, Finish, CallStep, Pull!BeginReaderFlush,
                      Pull!CallFlushed, Pull!Replied, Pull!Close, pullVars, LastHanded,
                      Handed
  <2>3. m_bEOS => AtEnd'
    <3>1. CASE StopSource \/ SeekPause
      BY <3>1 DEF StopSource, SeekPause, Idle, EndInv, AtEnd
    <3>2. CASE Finish
      BY <3>2, <1>1 DEF Finish, EndInv, AtEnd, AtRest, pullVars
    <3>3. CASE CallStep
      BY <3>3, <1>1 DEF CallStep, Pull!CallFlushed, Pull!Replied, Pull!Close, EndInv,
                        AtEnd, AtRest, InPull, rendererVars, controlVars, managerVars
    <3> QED
      BY <1>8, <3>1, <3>2, <3>3
  <2> QED
    BY <1>1, <2>1, <2>2, <2>3 DEF EndInv, InPlay, EndTime, WellTimed
<1>9. CASE ContinueRun
  BY <1>4, <1>9 DEF ContinueRun, managerVars, Run
<1>10. CASE SeekEndFlush
  <2>1. UNCHANGED <<pullVars, m_SignalTime, m_bEOS, m_EndOfStreamTimer, m_pMediaSample,
       control, killed>>
    BY <1>10 DEF SeekEndFlush, EndFlush, pending, ending, controlVars
  <2>2. ~m_bEOS /\ ~LastHanded
    BY <1>10 DEF SeekEndFlush, Idle, EndInv, AtEnd, AtRest, ProtocolInv, CommandInv,
                 LastHanded
  <2> QED
    BY <1>1, <2>1, <2>2 DEF EndInv, LastHanded, Handed, pullVars, SeekEndFlush, Idle
<1>11. CASE ControlStep
  <2>1. UNCHANGED <<pullVars, manager, m_State, m_bFlushing>>
    BY <1>11 DEF ControlStep, InRenderer, managerVars, StopRelease, StopReset, StopDone,
                 PauseDone, FlushWaited, FlushReset, flow, refusals
  <2>2. CASE StopReset \/ FlushReset
    <3>1. ~m_bEOS' /\ control' \notin {"stopKill", "flushKill"} /\ ~InPlay
      BY <2>2 DEF StopReset, FlushReset, ProtocolInv, CommandInv, InPlay
    <3>2. m_EndOfStreamTimer' = 0
      BY <2>2 DEF StopReset, FlushReset, Kill, EndInv
    <3> QED
      BY <1>1, <2>1, <3>1, <3>2 DEF EndInv, InPlay
  <2>3. CASE StopRelease \/ FlushWaited
    <3>1. /\ UNCHANGED <<m_SignalTime, m_bEOS, m_EndOfStreamTimer, m_pMediaSample>>
          /\ killed' = m_EndOfStreamTimer
          /\ manager \in {"stop", "flush"}
          /\ control' = IF manager = "stop" THEN "stopKill" ELSE "flushKill"
      BY <2>3 DEF StopRelease, FlushWaited, pending, ending, ProtocolInv, CommandInv
    <3>2. m_bEOS => AtEnd'
      BY <1>1, <2>1, <3>1 DEF EndInv, AtEnd, AtRest, pullVars
    <3> QED
      BY <1>1, <1>2, <2>1, <3>1, <3>2 DEF EndInv, InPlay, pullVars
  <2>4. CASE StopDone \/ PauseDone
    <3>1. /\ UNCHANGED <<m_SignalTime, m_bEOS>> /\ control' \notin {"stopKill", "flushKill"}
          /\ m_pMediaSample' \in {m_pMediaSample, NULL}
          /\ m_EndOfStreamTimer' \in {m_EndOfStreamTimer, 0}
      BY <2>4 DEF StopDone, PauseDone, Kill, ClearPendingSample, pending, ending
    <3>2. m_bEOS => AtEnd'
      BY <1>1, <2>1, <2>4, <3>1 DEF EndInv, AtEnd, AtRest, pullVars, StopDone, PauseDone,
                                    ProtocolInv, CommandInv
    <3> QED
      BY <1>1, <1>2, <2>1, <3>1, <3>2 DEF EndInv, InPlay, pullVars
  <2> QED
    BY <1>11, <2>2, <2>3, <2>4 DEF ControlStep
<1> QED
  BY <1>3, <1>5, <1>6, <1>7, <1>8, <1>9, <1>10, <1>11 DEF NewCommand, ManagerStep

(* Every step keeps the end. *)
LEMMA EndKept ==
  ASSUME ProtocolInv, CountInv, SampleInv, EndInv, [Next]_vars
  PROVE EndInv'
<1>1. CASE SourceStep \/ ChunkArrives
  BY <1>1, EndKeptSource
<1>2. CASE NewCommand \/ ManagerStep
  BY <1>2, EndKeptCommand
<1>3. CASE ClockStep \/ TimePasses \/ (TimerFires /\ InRenderer)
  BY <1>3, EndAlone DEF ClockStep, TimePasses, TimerFires, InRenderer, rendererVars,
                        pullVars, managerVars, sourceVars, flow, refusals, pending, ending,
                        controlVars, pullEnd, commandEnd, renderEnd
<1>4. CASE TimerCallback /\ InRenderer
  <2>1. UNCHANGED <<pullEnd, commandEnd, stream, m_SignalTime, m_pMediaSample, m_bEOS,
       receive, hr>>
    BY <1>4 DEF TimerCallback, InRenderer, pullVars, managerVars, sourceVars, flow,
                refusals, pending, controlVars, pullEnd, commandEnd
  <2>2. CASE UNCHANGED m_EndOfStreamTimer
    BY <2>1, <2>2, EndAlone DEF renderEnd
  <2>3. CASE m_EndOfStreamTimer # 0
    BY <2>1, <2>3 DEF EndInv, AtEnd, AtRest, InPlay, LastHanded, Handed, EndTime,
                      WellTimed, pullEnd, commandEnd
  <2> QED
    BY <1>4, <2>2, <2>3 DEF TimerCallback
<1>5. CASE Trouble
  <2>1. CASE Correction \/ TimersChange
    BY <1>5, <2>1, EndAlone DEF Trouble, Correction, TimersChange, rendererVars, pullVars,
                                sourceVars, flow, refusals, pending, ending, controlVars,
                                pullEnd, commandEnd, renderEnd
  <2>2. CASE OnDisplayChange /\ UNCHANGED pullVars
    <3>1. UNCHANGED <<pullEnd, commandEnd, stream, m_SignalTime, m_EndOfStreamTimer,
         m_bEOS, receive, hr>> /\ m_pMediaSample' = NULL
      BY <1>5, <2>2 DEF Trouble, OnDisplayChange, ClearPendingSample, pullVars, sourceVars,
                        flow, ending, controlVars, pullEnd, commandEnd
    <3> QED
      BY <3>1 DEF EndInv, AtEnd, AtRest, InPlay, LastHanded, Handed, EndTime, WellTimed,
                  pullEnd, commandEnd
  <2>3. CASE Pull!ReadFails /\ UNCHANGED <<clockVars, rendererVars>>
    <3>1. UNCHANGED <<commandEnd, renderEnd, hr>> /\ worker' = "cleanup" /\ ~m_bEOS
      BY <1>5, <2>3 DEF Trouble, Pull!ReadFails, rendererVars, sourceVars, flow, refusals,
                        pending, ending, controlVars, commandEnd, renderEnd, EndInv, AtEnd,
                        AtRest
    <3> QED
      BY <3>1 DEF EndInv, LastHanded, commandEnd, renderEnd
  <2> QED
    BY <1>5, <2>1, <2>2, <2>3 DEF Trouble
<1>6. CASE UNCHANGED vars
  BY <1>6, EndAlone DEF vars, rendererVars, pullVars, managerVars, sourceVars, flow,
                        refusals, pending, ending, controlVars, pullEnd, commandEnd,
                        renderEnd
<1> QED
  BY <1>1, <1>2, <1>3, <1>4, <1>5, <1>6 DEF Next, TimerStep

CompletesRight ==
  m_bEOSDelivered' /\ ~m_bEOSDelivered =>
    \/ m_bRunTimeError'
    \/ /\ tCurrent > Chunks /\ outstanding = 0
       /\ m_pMediaSample' = NULL
       /\ noTimer \/ m_rtPrivateTime + DeliveryWait > m_tStart' + EndTime

(* SendEndOfStream completes only near the end, if there are timers. *)
LEMMA SendsInTime ==
  ASSUME NEW eos, NEW streaming, NEW start \in Nat, NEW timer, m_rtPrivateTime \in Nat,
       m_SignalTime \in Nat,
         EndTime \in Nat, eos => EndTime <= m_SignalTime,
         SendEndOfStream(eos, streaming, start, timer), m_bEOSDelivered' # m_bEOSDelivered
  PROVE eos /\ (noTimer \/ m_rtPrivateTime + DeliveryWait > start + EndTime)
BY RendererConstants DEF SendEndOfStream

(* Every step that completes does so at the end. *)
LEMMA CompletionStep ==
  ASSUME ProtocolInv, CountInv, SampleInv, ClockTypeOK, EndInv, [Next]_vars
  PROVE CompletesRight
<1> SUFFICES ASSUME m_bEOSDelivered', ~m_bEOSDelivered PROVE CompletesRight
  BY DEF CompletesRight
<1>1. EndTime \in Nat /\ m_rtPrivateTime \in Nat /\ m_SignalTime \in Nat /\ m_tStart \in Nat
  BY EndTimeType DEF ClockTypeOK, SampleInv
<1>2. m_bEOS => tCurrent > Chunks /\ outstanding = 0 /\ EndTime <= m_SignalTime
  BY DEF EndInv, AtEnd
<1>3. CASE SourceStep
  <2>1. CASE Render
    BY <2>1 DEF Render, SendEndOfStream, EndInv, AtEnd, AtRest, ProtocolInv, RequestInv,
                ending
  <2>2. CASE ReportError
    BY <2>2 DEF ReportError, CompletesRight
  <2>3. CASE DeliverEndOfStream
    <3>1. /\ SendEndOfStream(TRUE, TRUE, m_tStart, m_EndOfStreamTimer)
          /\ m_pMediaSample = NULL /\ UNCHANGED <<m_pMediaSample, m_tStart>>
          /\ InPlay /\ worker = "end"
      BY <2>3 DEF DeliverEndOfStream, EndOfStream, Waiting, CheckStreaming, InPlay,
                  Pull!EndProcess, pending, flow, ending
    <3>2. tCurrent > Chunks /\ outstanding = 0 /\ LastHanded
      BY <3>1, PlaybackAssumption DEF CountInv, LastHanded, Handed
    <3>3. EndTime <= m_SignalTime
      BY <3>1, <3>2 DEF EndInv
    <3> QED
      BY <1>1, <3>1, <3>2, <3>3, SendsInTime DEF CompletesRight
  <2>4. CASE Deliver \/ Delivered \/ PullStep \/ PrepareReceive \/ CheckPaused
    \/ ReceiveFirstSample \/ FirstReady
             \/ Released \/ ComesDue \/ SignalTimerFired
    BY <2>4 DEF Deliver, BeginReceive, Delivered, PullStep, InPull, rendererVars,
                PrepareReceive, CheckPaused, ReceiveFirstSample, FirstReady, Released,
                ComesDue, SignalTimerFired, ending
  <2> QED
    BY <1>3, <2>1, <2>2, <2>3, <2>4 DEF SourceStep, ReceiveStep
<1>4. ASSUME NEW tStart \in StartTimes, Run(tStart)
      PROVE  CompletesRight
  <2>1. tStart \in Nat
    BY <1>1 DEF StartTimes
  <2>2. m_pMediaSample' = m_pMediaSample /\ m_tStart' = tStart
    BY <1>4 DEF Run, pending
  <2>3. m_pMediaSample = NULL /\ SendEndOfStream(m_bEOS, TRUE, tStart, m_EndOfStreamTimer)
    BY <1>4 DEF Run, StartStreaming
  <2> QED
    BY <1>1, <1>2, <2>1, <2>2, <2>3, SendsInTime DEF CompletesRight
<1>5. CASE NewCommand
  BY <1>4, <1>5 DEF NewCommand, BeginStop, Stop, BeginPause, Pause, PauseAgain, BeginRun,
                    BeginSeek, BeginFlush, SeekWhileStopped, rendererVars, ending
<1>6. CASE ManagerStep
  BY <1>4, <1>6 DEF ManagerStep, StopSource, ContinueRun, StartSource, SeekPause,
                    SeekEndFlush, EndFlush, SeekStart, Finish, CallStep, InPull,
                    ControlStep, StopRelease, StopReset, StopDone, PauseDone, FlushWaited,
                    FlushReset, rendererVars, ending
<1>7. CASE TimerCallback
  <2>1. m_EndOfStreamTimer # 0 /\ SendEndOfStream(m_bEOS, m_bStreaming, m_tStart, 0)
    BY <1>7 DEF TimerCallback
  <2>2. m_pMediaSample = NULL /\ UNCHANGED <<m_pMediaSample, m_tStart>>
    BY <1>7, <2>1 DEF TimerCallback, EndInv, pending, flow
  <2> QED
    BY <1>1, <1>2, <2>1, <2>2, SendsInTime DEF CompletesRight
<1>8. CASE ChunkArrives \/ ClockStep \/ TimePasses \/ TimerFires \/ Trouble \/ UNCHANGED vars
  BY <1>8 DEF ChunkArrives, InPull, ClockStep, TimePasses, TimerFires, Trouble, Correction,
              TimersChange, OnDisplayChange, rendererVars, vars, ending
<1> QED
  BY <1>3, <1>5, <1>6, <1>7, <1>8 DEF Next, TimerStep

-----------------------------------------------------------------------------
(* The inductive invariant of the whole graph. *)
PlaybackInv ==
  ClockTypeOK /\ ProtocolInv /\ CountInv /\ SampleInv /\ ScheduleInv /\ EndInv

(* Nothing is handed over, advised or ended at first. *)
LEMMA PlaybackInitial == Init => PlaybackInv
<1> SUFFICES ASSUME Init PROVE PlaybackInv
  OBVIOUS
<1> USE DEF Init, ClockInit, RendererInit, Pull!PullInit
<1>1. ClockTypeOK
  <2>1. 1 \in 1 .. MaxTime /\ 0 \in Int
    BY ClockAssumption
  <2> QED
    BY <2>1 DEF ClockTypeOK
<1>2. ProtocolInv
  BY DEF ProtocolInv, RequestInv, CommandInv, StaleInv, Asked, Stopping, AtRest
<1>3. CountInv /\ SampleInv
  BY PlaybackAssumption DEF CountInv, SampleInv, Handed, NULL
<1>4. ScheduleInv
  BY DEF ScheduleInv, NoticeInv, DueInv, Fired, Rendering, Unscheduled, Quiet
<1>5. EndInv
  BY DEF EndInv, LastHanded
<1> QED
  BY <1>1, <1>2, <1>3, <1>4, <1>5 DEF PlaybackInv

(* Every step keeps the invariant. *)
LEMMA PlaybackKept ==
  ASSUME ClockInv, PlaybackInv, [Next]_vars
  PROVE PlaybackInv'
<1> USE DEF PlaybackInv
<1>1. ClockTypeOK'
  BY PlaybackStepIsClockStep, ClockStepKeeps DEF ClockInv
<1>2. ProtocolInv'
  BY RequestKept, CommandKept, StaleKept DEF ProtocolInv
<1>3. CountInv' /\ SampleInv'
  BY CountKept, SampleKept
<1>4. ScheduleInv' /\ EndInv'
  BY ScheduleKept, EndKept
<1> QED
  BY <1>1, <1>2, <1>3, <1>4

(* The invariant of the graph and of its clock. *)
THEOREM PlaybackInvariant == Spec => [](ClockInv /\ PlaybackInv)
<1>1. Init => ClockInv /\ PlaybackInv
  BY ClockInitial, PlaybackInitial DEF Init
<1>2. ClockInv /\ PlaybackInv /\ [Next]_vars => (ClockInv /\ PlaybackInv)'
  BY PlaybackKept, PlaybackStepIsClockStep, ClockStepKeeps
<1> QED
  BY <1>1, <1>2, PTL DEF Spec

(* What was delivered before a seek or a stop is not drawn once it has     *)
(* begun (renbase.cpp:407-443, 706-710), whatever the two threads do.      *)
THEOREM PlaybackNothingStale == Spec => []NothingStale
<1>1. PlaybackInv => NothingStale
  BY DEF PlaybackInv, ProtocolInv, StaleInv, NothingStale, Draws
<1> QED
  BY <1>1, PlaybackInvariant, PTL

(* No frame is drawn before its time (renbase.cpp:917-970), in every       *)
(* stream, at every length of the lead and however the clock is put        *)
(* forward, unless a Run overtook it.  That the clock is not put back is   *)
(* assumed (RendererConstants).                                            *)
THEOREM PlaybackNotEarly == Spec => NotEarly
<1> DEFINE Timely ==
      Draws /\ receive' = "none" =>
         \/ stream[m_pMediaSample].kind = "untimed" \/ ~WellTimed(m_pMediaSample)
         \/ m_rtPrivateTime + Lead >= m_tStart + stream[m_pMediaSample].start
         \/ overtaken
<1>1. PlaybackInv => Timely
  BY DEF PlaybackInv, ScheduleInv, DueInv, Fired, Rendering, ComeDue, StartTime, Draws
<1>2. PlaybackInv => [Timely]_vars
  BY <1>1
<1> QED
  BY <1>2, PlaybackInvariant, PTL DEF NotEarly

(* EC_COMPLETE comes only when all has been handed over, nothing waits to  *)
(* be drawn and the last frame is over or nearly so, unless an error is    *)
(* reported with it; where no timer can be had it does not wait for the    *)
(* end of the last frame (renbase.cpp:1255-1293).                          *)
THEOREM PlaybackCompletesAtEnd == Spec => CompleteAtEnd
<1>1. PlaybackInv /\ [Next]_vars => [CompletesRight]_vars
  BY CompletionStep DEF PlaybackInv
<1> QED
  BY <1>1, PlaybackInvariant, PTL DEF Spec, CompleteAtEnd, CompletesRight
=============================================================================
