------------------------ MODULE DXSubFilterStreaming ------------------------
(***************************************************************************)
(* CDXSubFilter while the graph plays: the threads that call into it, the  *)
(* locks m_csFilter and m_csReceive, the flush flags of its two input pins *)
(* and the one renderer behind them.                                       *)
(*                                                                         *)
(* video     the upstream thread of the video pin: NewSegment, Receive and *)
(*           under it Transform and the delivery to the downstream filter  *)
(* subtitle  the upstream thread of the subtitle pin: NewSegment, Receive  *)
(* app       the filter graph manager: Pause, Stop                         *)
(* seeker    the upstream filter's seek: BeginFlush, EndFlush              *)
(*                                                                         *)
(* A label of pc names what the thread is about to do; the four labels of  *)
(* InRenderer are those of a call of the renderer that has not returned.   *)
(* The filters around this one are external, modelled by what DirectShow   *)
(* has them do: the manager stops the downstream filter before this one    *)
(* and the upstream filter after it, upstream joins its two threads in the *)
(* middle of a flush and sends NewSegment first on each pin when it starts *)
(* them, and a stopped or flushing downstream filter returns its buffers   *)
(* and any Receive blocked in it.  Pause and Run do not differ here.       *)
(***************************************************************************)
EXTENDS Integers, Sequences, FiniteSets

CONSTANTS Lines, Strip, Times, Never, HeadNodes, MaxPerStart, MaxPictures,
          Buffers,   \* the size of the output allocator
          MaxSeeks,  \* bound: seeks of a behaviour
          MaxLines   \* bound: lines the subtitle pin receives in a segment

ASSUME StreamingAssumption ==
  /\ Buffers \in Nat \ {0} /\ MaxSeeks \in Nat /\ MaxLines \in Nat
  /\ MaxPerStart \in Nat /\ MaxPictures \in Nat
  /\ Strip \in [Lines -> Lines] /\ HeadNodes \subseteq Int \X Int
  /\ Times # {} /\ Times \subseteq Int /\ Never \in Int /\ \A t \in Times : Never < t

VARIABLES
  m_SubtitleMap, m_SubtitleTimeSpans, m_ValidSubtitleTimes, m_RenderedSubtitles,
  headNode, pending, count, clock, out,  \* the renderer
  pc,
  m_csFilter, m_csReceive,   \* the owner of each lock, or "none"
  m_State,                   \* of the filter
  m_bFlushing,               \* of each input pin
  m_rtStart, m_tStart,       \* segment start kept by the filter, by the subtitle pin
  rtNow, subpicCount,        \* Transform's locals
  committed, free, held,     \* output allocator, its free list, buffers kept downstream
  inputCommitted,            \* the video pin's allocator hands out buffers
  playing, downFlushing,     \* downstream is not stopped; it is flushing
  upstream,                  \* "stopped", "running", or "halted" for a flush
  newSegment,                \* the pins still to be sent NewSegment
  segment,                   \* where upstream's segment starts
  seeks, lines,              \* counters of the two bounds
  crashed                    \* undefined behaviour has ended the process

Renderer == INSTANCE SRTSubtitleRenderer

renderer == <<m_SubtitleMap, m_SubtitleTimeSpans, m_ValidSubtitleTimes,
              m_RenderedSubtitles, headNode, pending, count, clock, out>>
locks == <<m_csFilter, m_csReceive>>
starts == <<m_rtStart, m_tStart>>
frame == <<rtNow, subpicCount>>
buffers == <<committed, free, held>>
downstream == <<playing, downFlushing>>
source == <<inputCommitted, upstream, newSegment, segment, seeks, lines>>
vars == <<renderer, pc, locks, m_State, m_bFlushing, starts, frame, buffers,
          downstream, source, crashed>>

Init ==
  /\ Renderer!SRTInit
  /\ pc = [t \in {"video", "subtitle", "app", "seeker"} |-> "idle"]
  /\ m_csFilter = "none" /\ m_csReceive = "none"
  /\ m_State = "Stopped"
  /\ m_bFlushing = [p \in {"video", "subtitle"} |-> FALSE]
  /\ segment \in Times
  /\ m_rtStart = segment /\ m_tStart = segment
  /\ rtNow = segment /\ subpicCount = 0
  /\ committed = FALSE /\ free = Buffers /\ held = 0
  /\ inputCommitted = FALSE
  /\ playing = FALSE /\ downFlushing = FALSE
  /\ upstream = "stopped" /\ newSegment = {}
  /\ seeks = 0 /\ lines = 0
  /\ crashed = FALSE

-----------------------------------------------------------------------------
Go(t, from, to) == pc[t] = from /\ pc' = [pc EXCEPT ![t] = to]

InRenderer ==
  {t \in {"video", "subtitle"} :
     pc[t] \in {"counting", "picturing", "parsing", "invalidating"}}

(* A call into the renderer.  Two calls at a time have no defined outcome: *)
(* the process may die, or go on as if they had come one by one.           *)
Enter(t, from, to) ==
  /\ Go(t, from, to)
  /\ crashed' \in IF InRenderer = {} THEN {FALSE} ELSE BOOLEAN

-----------------------------------------------------------------------------
(* The video thread.  CTransformInputPin::Receive holds m_csReceive from   *)
(* the check to the return from downstream; NewSegment holds no lock.      *)
VideoNewSegment ==
  /\ pc["video"] = "idle" /\ upstream = "running" /\ "video" \in newSegment
  /\ m_rtStart' = segment
  /\ newSegment' = newSegment \ {"video"}
  /\ UNCHANGED <<renderer, pc, locks, m_State, m_bFlushing, m_tStart, frame, buffers,
                 downstream, inputCommitted, upstream, segment, seeks, lines, crashed>>

(* Upstream has a sample from the video pin's allocator to send. *)
VideoReceive ==
  /\ upstream = "running" /\ "video" \notin newSegment /\ inputCommitted
  /\ Go("video", "idle", "locking")
  /\ UNCHANGED <<renderer, locks, m_State, m_bFlushing, starts, frame, buffers,
                 downstream, source, crashed>>

LockReceive ==
  /\ Go("video", "locking", "checking")
  /\ m_csReceive = "none" /\ m_csReceive' = "video"
  /\ UNCHANGED <<renderer, m_csFilter, m_State, m_bFlushing, starts, frame, buffers,
                 downstream, source, crashed>>

CheckStreaming ==
  /\ IF m_bFlushing["video"] \/ m_State = "Stopped"
     THEN Go("video", "checking", "idle") /\ m_csReceive' = "none"
     ELSE Go("video", "checking", "allocating") /\ UNCHANGED m_csReceive
  /\ UNCHANGED <<renderer, m_csFilter, m_State, m_bFlushing, starts, frame, buffers,
                 downstream, source, crashed>>

(* InitializeOutputSample waits for a buffer until the allocator has one *)
(* or is decommitted.                                                    *)
GetBuffer ==
  /\ \/ /\ ~committed
        /\ Go("video", "allocating", "idle")
        /\ m_csReceive' = "none"
        /\ UNCHANGED free
     \/ /\ committed /\ free > 0
        /\ Go("video", "allocating", "transforming")
        /\ free' = free - 1
        /\ UNCHANGED m_csReceive
  /\ UNCHANGED <<renderer, m_csFilter, m_State, m_bFlushing, starts, frame, committed,
                 held, downstream, source, crashed>>

Transform ==
  /\ Enter("video", "transforming", "counting")
  /\ rtNow' = m_rtStart
  /\ UNCHANGED <<renderer, locks, m_State, m_bFlushing, starts, subpicCount, buffers,
                 downstream, source>>

Count ==
  /\ Renderer!GetSubtitlePictureCount(rtNow)
  /\ subpicCount' = count'
  /\ Go("video", "counting", IF count' > 0 THEN "counted" ELSE "delivering")
  /\ UNCHANGED <<locks, m_State, m_bFlushing, starts, rtNow, buffers, downstream,
                 source, crashed>>

AskPictures ==
  /\ Enter("video", "counted", "picturing")
  /\ UNCHANGED <<renderer, locks, m_State, m_bFlushing, starts, frame, buffers,
                 downstream, source>>

Pictures ==
  /\ Renderer!GetSubtitlePicture(rtNow)
  /\ Go("video", "picturing", "blending")
  /\ UNCHANGED <<locks, m_State, m_bFlushing, starts, frame, buffers, downstream,
                 source, crashed>>

(* The array has subpicCount elements, nullptr where no picture was stored *)
(* and dangling where Invalidate has freed the picture since; pictures     *)
(* more than that were stored past its end.                                *)
Blend ==
  /\ Go("video", "blending", "delivering")
  /\ crashed' \in IF Cardinality(out) = subpicCount THEN {FALSE} ELSE BOOLEAN
  /\ UNCHANGED <<renderer, locks, m_State, m_bFlushing, starts, frame, buffers,
                 downstream, source>>

Deliver ==
  /\ Go("video", "delivering", "downstream")
  /\ UNCHANGED <<renderer, locks, m_State, m_bFlushing, starts, frame, buffers,
                 downstream, source, crashed>>

(* Downstream's Receive returns; it may have kept the buffer. *)
Delivered ==
  /\ Go("video", "downstream", "idle")
  /\ m_csReceive' = "none"
  /\ \/ free' = free + 1 /\ UNCHANGED held
     \/ playing /\ ~downFlushing /\ held' = held + 1 /\ UNCHANGED free
  /\ UNCHANGED <<renderer, m_csFilter, m_State, m_bFlushing, starts, frame, committed,
                 downstream, source, crashed>>

VideoStep ==
  \/ VideoNewSegment \/ LockReceive \/ CheckStreaming \/ GetBuffer \/ Transform
  \/ Count \/ AskPictures \/ Pictures \/ Blend \/ Deliver

-----------------------------------------------------------------------------
(* The subtitle thread.  CSubtitleInputPin takes no lock in any of these,  *)
(* and Receive gives up only if CBaseInputPin::Receive FAILED: CheckStrea- *)
(* ming looks at the flush flag first and then answers S_FALSE, not a      *)
(* failure, in the Stopped state too.                                      *)
SubtitleNewSegment ==
  /\ upstream = "running" /\ "subtitle" \in newSegment
  /\ Enter("subtitle", "idle", "invalidating")
  /\ UNCHANGED <<renderer, locks, m_State, m_bFlushing, starts, frame, buffers,
                 downstream, source>>

(* Mutant: NewSegment keeps what the renderer has. *)
SubtitleInvalidate_Skipped ==
  /\ Go("subtitle", "invalidating", "invalidated")
  /\ UNCHANGED <<renderer, locks, m_State, m_bFlushing, starts, frame, buffers,
                 downstream, source, crashed>>

SubtitleInvalidate ==
  /\ Renderer!Invalidate
  /\ Go("subtitle", "invalidating", "invalidated")
  /\ UNCHANGED <<locks, m_State, m_bFlushing, starts, frame, buffers, downstream,
                 source, crashed>>

SubtitleSegmentStart ==
  /\ Go("subtitle", "invalidated", "idle")
  /\ m_tStart' = segment
  /\ newSegment' = newSegment \ {"subtitle"}
  /\ UNCHANGED <<renderer, locks, m_State, m_bFlushing, m_rtStart, frame, buffers,
                 downstream, inputCommitted, upstream, segment, seeks, lines, crashed>>

SubtitleReceive ==
  /\ upstream = "running" /\ "subtitle" \notin newSegment /\ lines < MaxLines
  /\ m_bFlushing["subtitle"] \/ m_State # "Stopped"
  /\ Go("subtitle", "idle", "accepted")
  /\ lines' = lines + 1
  /\ UNCHANGED <<renderer, locks, m_State, m_bFlushing, starts, frame, buffers,
                 downstream, inputCommitted, upstream, newSegment, segment, seeks, crashed>>

AskParse ==
  /\ Enter("subtitle", "accepted", "parsing")
  /\ UNCHANGED <<renderer, locks, m_State, m_bFlushing, starts, frame, buffers,
                 downstream, source>>

Parse ==
  /\ \E l \in Lines : Renderer!ParseLine(l, m_tStart, m_tStart)
  /\ Go("subtitle", "parsing", "idle")
  /\ UNCHANGED <<locks, m_State, m_bFlushing, starts, frame, buffers, downstream,
                 source, crashed>>

SubtitleStep ==
  SubtitleNewSegment \/ SubtitleInvalidate \/ SubtitleSegmentStart \/ AskParse \/ Parse

-----------------------------------------------------------------------------
(* The manager's Pause: downstream first, then this filter, then upstream. *)
Pause ==
  /\ m_State = "Stopped"
  /\ Go("app", "idle", "pauseLock")
  /\ playing' = TRUE
  /\ UNCHANGED <<renderer, locks, m_State, m_bFlushing, starts, frame, buffers,
                 downFlushing, source, crashed>>

PauseLock ==
  /\ Go("app", "pauseLock", "pauseReceive")
  /\ m_csFilter = "none" /\ m_csFilter' = "app"
  /\ UNCHANGED <<renderer, m_csReceive, m_State, m_bFlushing, starts, frame, buffers,
                 downstream, source, crashed>>

(* StartStreaming, which does nothing, under m_csReceive. *)
PauseReceive ==
  /\ Go("app", "pauseReceive", "pauseActive")
  /\ m_csReceive = "none"
  /\ UNCHANGED <<renderer, locks, m_State, m_bFlushing, starts, frame, buffers,
                 downstream, source, crashed>>

(* CBaseFilter::Pause: the output pin commits its allocator. *)
PauseActive ==
  /\ Go("app", "pauseActive", "pauseUpstream")
  /\ committed' = TRUE
  /\ m_State' = "Paused"
  /\ m_csFilter' = "none"
  /\ UNCHANGED <<renderer, m_csReceive, m_bFlushing, starts, frame, free, held,
                 downstream, source, crashed>>

PauseUpstream ==
  /\ Go("app", "pauseUpstream", "idle")
  /\ inputCommitted' = TRUE
  /\ upstream' = "running"
  /\ newSegment' = {"video", "subtitle"}
  /\ lines' = 0
  /\ UNCHANGED <<renderer, locks, m_State, m_bFlushing, starts, frame, buffers,
                 downstream, segment, seeks, crashed>>

(* The manager's Stop, in the same order. *)
Stop ==
  /\ m_State = "Paused"
  /\ Go("app", "idle", "stopLock")
  /\ playing' = FALSE
  /\ free' = free + held /\ held' = 0
  /\ UNCHANGED <<renderer, locks, m_State, m_bFlushing, starts, frame, committed,
                 downFlushing, source, crashed>>

StopLock ==
  /\ Go("app", "stopLock", "stopInput")
  /\ m_csFilter = "none" /\ m_csFilter' = "app"
  /\ UNCHANGED <<renderer, m_csReceive, m_State, m_bFlushing, starts, frame, buffers,
                 downstream, source, crashed>>

(* Mutant: Stop goes for m_csReceive with the input pin still committed. *)
StopInput_Committed ==
  /\ Go("app", "stopInput", "stopReceive")
  /\ m_bFlushing' = [m_bFlushing EXCEPT !["video"] = FALSE]
  /\ UNCHANGED <<renderer, locks, m_State, starts, frame, buffers, downstream,
                 source, crashed>>

(* CBaseInputPin::Inactive of the video pin; nothing calls the subtitle    *)
(* pin's.                                                                  *)
StopInput ==
  /\ Go("app", "stopInput", "stopReceive")
  /\ m_bFlushing' = [m_bFlushing EXCEPT !["video"] = FALSE]
  /\ inputCommitted' = FALSE
  /\ UNCHANGED <<renderer, locks, m_State, starts, frame, buffers, downstream,
                 upstream, newSegment, segment, seeks, lines, crashed>>

(* Mutant: Stop does not wait for Receive. *)
StopReceive_NoLock ==
  /\ Go("app", "stopReceive", "stopOutput")
  /\ UNCHANGED <<renderer, locks, m_State, m_bFlushing, starts, frame, buffers,
                 downstream, source, crashed>>

StopReceive ==
  /\ Go("app", "stopReceive", "stopOutput")
  /\ m_csReceive = "none" /\ m_csReceive' = "app"
  /\ UNCHANGED <<renderer, m_csFilter, m_State, m_bFlushing, starts, frame, buffers,
                 downstream, source, crashed>>

StopOutput ==
  /\ Go("app", "stopOutput", "stopUpstream")
  /\ committed' = FALSE
  /\ m_State' = "Stopped"
  /\ m_csFilter' = "none" /\ m_csReceive' = "none"
  /\ UNCHANGED <<renderer, m_bFlushing, starts, frame, free, held, downstream,
                 source, crashed>>

(* Upstream does not stop in the middle of a seek of its own. *)
StopUpstream ==
  /\ pc["seeker"] = "idle"
  /\ Go("app", "stopUpstream", "stopJoin")
  /\ upstream' = "stopped"
  /\ UNCHANGED <<renderer, locks, m_State, m_bFlushing, starts, frame, buffers,
                 downstream, inputCommitted, newSegment, segment, seeks, lines, crashed>>

StopJoin ==
  /\ Go("app", "stopJoin", "idle")
  /\ pc["video"] = "idle" /\ pc["subtitle"] = "idle"
  /\ UNCHANGED <<renderer, locks, m_State, m_bFlushing, starts, frame, buffers,
                 downstream, source, crashed>>

(* What the manager does once it has begun. *)
AppStep ==
  \/ PauseLock \/ PauseReceive \/ PauseActive \/ PauseUpstream
  \/ StopLock \/ StopInput \/ StopReceive \/ StopOutput \/ StopUpstream \/ StopJoin

-----------------------------------------------------------------------------
(* A seek: flush both pins, join the two threads, end the flush of both. *)
Seek ==
  /\ upstream = "running" /\ seeks < MaxSeeks
  /\ Go("seeker", "idle", "flushVideo")
  /\ seeks' = seeks + 1
  /\ UNCHANGED <<renderer, locks, m_State, m_bFlushing, starts, frame, buffers,
                 downstream, inputCommitted, upstream, newSegment, segment, lines, crashed>>

(* Mutant: BeginFlush waits for Receive to return. *)
BeginFlushVideo_Waits ==
  /\ Go("seeker", "flushVideo", "flushDownstream")
  /\ m_csFilter = "none" /\ m_csFilter' = "seeker"
  /\ m_csReceive = "none"
  /\ m_bFlushing' = [m_bFlushing EXCEPT !["video"] = TRUE]
  /\ UNCHANGED <<renderer, m_csReceive, m_State, starts, frame, buffers, downstream,
                 source, crashed>>

BeginFlushVideo ==
  /\ Go("seeker", "flushVideo", "flushDownstream")
  /\ m_csFilter = "none" /\ m_csFilter' = "seeker"
  /\ m_bFlushing' = [m_bFlushing EXCEPT !["video"] = TRUE]
  /\ UNCHANGED <<renderer, m_csReceive, m_State, starts, frame, buffers, downstream,
                 source, crashed>>

DeliverBeginFlush ==
  /\ Go("seeker", "flushDownstream", "flushSubtitle")
  /\ downFlushing' = TRUE
  /\ free' = free + held /\ held' = 0
  /\ m_csFilter' = "none"
  /\ UNCHANGED <<renderer, m_csReceive, m_State, m_bFlushing, starts, frame, committed,
                 playing, source, crashed>>

(* The subtitle pin's BeginFlush goes no further than CBaseInputPin's. *)
BeginFlushSubtitle ==
  /\ Go("seeker", "flushSubtitle", "join")
  /\ m_csFilter = "none"
  /\ m_bFlushing' = [m_bFlushing EXCEPT !["subtitle"] = TRUE]
  /\ UNCHANGED <<renderer, locks, m_State, starts, frame, buffers, downstream,
                 source, crashed>>

Halt ==
  /\ upstream = "running" /\ pc["seeker"] = "join"
  /\ upstream' = "halted"
  /\ UNCHANGED <<renderer, pc, locks, m_State, m_bFlushing, starts, frame, buffers,
                 downstream, inputCommitted, newSegment, segment, seeks, lines, crashed>>

Join ==
  /\ upstream = "halted"
  /\ Go("seeker", "join", "endVideo")
  /\ pc["video"] = "idle" /\ pc["subtitle"] = "idle"
  /\ UNCHANGED <<renderer, locks, m_State, m_bFlushing, starts, frame, buffers,
                 downstream, source, crashed>>

(* Downstream's EndFlush, then CBaseInputPin::EndFlush, under m_csFilter. *)
EndFlushVideo ==
  /\ Go("seeker", "endVideo", "endSubtitle")
  /\ m_csFilter = "none"
  /\ downFlushing' = FALSE
  /\ m_bFlushing' = [m_bFlushing EXCEPT !["video"] = FALSE]
  /\ UNCHANGED <<renderer, locks, m_State, starts, frame, buffers, playing, source,
                 crashed>>

EndFlushSubtitle ==
  /\ Go("seeker", "endSubtitle", "restart")
  /\ m_csFilter = "none"
  /\ m_bFlushing' = [m_bFlushing EXCEPT !["subtitle"] = FALSE]
  /\ UNCHANGED <<renderer, locks, m_State, starts, frame, buffers, downstream, source,
                 crashed>>

Restart ==
  /\ Go("seeker", "restart", "idle")
  /\ segment' \in Times
  /\ upstream' = "running"
  /\ newSegment' = {"video", "subtitle"}
  /\ lines' = 0
  /\ UNCHANGED <<renderer, locks, m_State, m_bFlushing, starts, frame, buffers,
                 downstream, inputCommitted, seeks, crashed>>

SeekerStep ==
  \/ BeginFlushVideo \/ DeliverBeginFlush \/ BeginFlushSubtitle \/ Halt \/ Join
  \/ EndFlushVideo \/ EndFlushSubtitle \/ Restart

-----------------------------------------------------------------------------
(* The downstream filter lets go of a buffer it kept. *)
ReleaseBuffer ==
  /\ held > 0
  /\ free' = free + 1 /\ held' = held - 1
  /\ UNCHANGED <<renderer, pc, locks, m_State, m_bFlushing, starts, frame, committed,
                 downstream, source, crashed>>

Gone == crashed /\ UNCHANGED vars

Next ==
  \/ /\ ~crashed
     /\ \/ VideoStep \/ VideoReceive \/ Delivered
        \/ SubtitleStep \/ SubtitleReceive
        \/ AppStep \/ Pause \/ Stop
        \/ SeekerStep \/ Seek
        \/ ReleaseBuffer
  \/ Gone

(***************************************************************************)
(* Threads inside a call are scheduled.  Nothing obliges upstream to send, *)
(* the user to issue commands, or a downstream filter that neither stops   *)
(* nor flushes to return from Receive: a paused video renderer does not.   *)
(***************************************************************************)
Fairness ==
  /\ WF_vars(~crashed /\ VideoStep)
  /\ WF_vars(~crashed /\ (~playing \/ downFlushing) /\ Delivered)
  /\ WF_vars(~crashed /\ SubtitleStep)
  /\ WF_vars(~crashed /\ AppStep)
  /\ WF_vars(~crashed /\ SeekerStep)

Spec == Init /\ [][Next]_vars /\ Fairness

-----------------------------------------------------------------------------
(* Every variable has its type; the output allocator has its buffers.     *)
TypeOK ==
  /\ Renderer!TypeOK
  /\ DOMAIN pc = {"video", "subtitle", "app", "seeker"}
  /\ m_csFilter \in {"none", "app", "seeker"}
  /\ m_csReceive \in {"none", "video", "app"}
  /\ m_State \in {"Stopped", "Paused"}
  /\ m_bFlushing \in [{"video", "subtitle"} -> BOOLEAN]
  /\ {m_rtStart, m_tStart, rtNow, segment} \subseteq Times
  /\ subpicCount \in Nat
  /\ committed \in BOOLEAN /\ free \in 0 .. Buffers /\ held \in 0 .. Buffers
  /\ inputCommitted \in BOOLEAN /\ playing \in BOOLEAN /\ downFlushing \in BOOLEAN
  /\ upstream \in {"stopped", "running", "halted"}
  /\ newSegment \subseteq {"video", "subtitle"}
  /\ seeks \in 0 .. MaxSeeks /\ lines \in 0 .. MaxLines
  /\ crashed \in BOOLEAN

(* Once Stop has returned no frame is in the filter: none is transformed,  *)
(* holds an output buffer or is in the downstream filter's Receive, and    *)
(* the output allocator hands out no more, whatever Receive and flush were *)
(* doing when Stop was called (transfrm.cpp:466-471).                      *)
StoppedIsQuiet ==
  m_State = "Stopped" =>
    ~committed /\ pc["video"] \in {"idle", "locking", "checking"}

(* From the subtitle pin's NewSegment to the next one the renderer holds   *)
(* lines and pictures of the new segment only: none that came in during    *)
(* the flush, and none a frame was being drawn with meanwhile.             *)
NoOldLines ==
  "subtitle" \notin newSegment =>
    /\ \A t \in Times \ {segment} : m_SubtitleMap[t] = << >>
    /\ \A p \in m_RenderedSubtitles : p.entry.StartTime = segment

(* Stop and Pause return, also when a frame is blocked downstream or waits *)
(* for a buffer, and also during a seek.                                   *)
StopReturns == pc["app"] # "idle" ~> pc["app"] = "idle" \/ crashed

(* A seek gets through its flush, also when a frame is blocked downstream, *)
(* which only the flush itself or a Stop can end.                          *)
SeekReturns == pc["seeker"] # "idle" ~> pc["seeker"] = "idle" \/ crashed

(* ISubtitleRenderer.h:26-27: renderers are not thread-safe, each thread   *)
(* should own its renderer.                                                *)
OneThreadInRenderer == Cardinality(InRenderer) <= 1
=============================================================================
