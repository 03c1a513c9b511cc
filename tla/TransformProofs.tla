---------------------------- MODULE TransformProofs ----------------------------
(***************************************************************************)
(* The filter's work on a frame.                                           *)
(*                                                                         *)
(* 1. Its threads (DXSubFilterStreaming), for any lines, times, buffers    *)
(* and seeks: Stop leaves no frame in the filter, a line of an old segment *)
(* is not kept, no output buffer is lost, and the renderer's containers    *)
(* stay consistent however the two threads' calls interleave.              *)
(*                                                                         *)
(* 2. The bytes (FrameComposition), for every size of the frame, all       *)
(* pictures and every length of the output's rows.  First the arithmetic:  *)
(* for every premultiplied colour and every byte the blending with 16-bit  *)
(* tables and casts gives what the arithmetic without a width gives, and   *)
(* that is a byte.  Then the addresses: a buffer is a row after a row, and *)
(* no two sites share an address.  On these rest the two invariants:       *)
(* nothing strays (FrameInv), and each byte of the aligned buffer is the   *)
(* one of the layers blended so far (ComposedInv).                         *)
(***************************************************************************)
EXTENDS DXSubFilterStreaming, FrameComposition, WellFoundedInduction, TLAPS

Threads == {"video", "subtitle", "app", "seeker"}

(* Each thread has a label, and no other. *)
Labelled == pc = [t \in Threads |-> pc[t]]

(* A video thread past m_csReceive holds it until Receive returns, and so  *)
(* does the manager's while it stops the output pin.                       *)
QuietInv ==
  /\ Labelled
  /\ pc["video"] \notin {"idle", "locking"} => m_csReceive = "video"
  /\ pc["app"] = "stopOutput" => m_csReceive = "app"
  /\ StoppedIsQuiet

LEMMA GoLemma ==
  ASSUME NEW t \in Threads, NEW from, NEW to, Labelled, Go(t, from, to)
  PROVE  /\ Labelled'
         /\ pc[t] = from /\ pc'[t] = to
         /\ \A u \in Threads \ {t} : pc'[u] = pc[u]
BY DEF Go, Labelled

LEMMA QuietInit == Init => QuietInv
<1> SUFFICES ASSUME Init PROVE QuietInv
  OBVIOUS
<1> QED BY DEF Init, QuietInv, StoppedIsQuiet, Threads, Labelled

(* What a step that does not concern the invariant leaves alone. *)
quiet == <<m_csReceive, m_State, committed>>

LEMMA VideoQuiet ==
  ASSUME QuietInv, VideoStep \/ VideoReceive \/ Delivered
  PROVE  QuietInv'
<1> USE DEF QuietInv, StoppedIsQuiet, locks, buffers
<1>1. CASE VideoNewSegment
  BY <1>1 DEF VideoNewSegment, Labelled
<1>2. CASE VideoReceive
  <2>1. Labelled' /\ pc'["video"] = "locking" /\ pc'["app"] = pc["app"]
    BY <1>2, GoLemma DEF VideoReceive, Threads
  <2> QED BY <1>2, <2>1 DEF VideoReceive
<1>3. CASE LockReceive
  <2>1. /\ Labelled' /\ pc'["video"] = "checking"
        /\ pc'["app"] = pc["app"]
    BY <1>3, GoLemma DEF LockReceive, Threads
  <2> QED BY <1>3, <2>1 DEF LockReceive
<1>4. CASE CheckStreaming
  <2>1. /\ Labelled' /\ pc["video"] = "checking" /\ pc'["app"] = pc["app"]
        /\ \/ pc'["video"] = "idle" /\ m_csReceive' = "none"
           \/ /\ pc'["video"] = "allocating" /\ UNCHANGED m_csReceive
              /\ m_State # "Stopped"
    BY <1>4, GoLemma DEF CheckStreaming, Threads
  <2> QED BY <1>4, <2>1 DEF CheckStreaming
<1>5. CASE GetBuffer
  <2>1. /\ Labelled' /\ pc["video"] = "allocating" /\ pc'["app"] = pc["app"]
        /\ \/ pc'["video"] = "idle" /\ m_csReceive' = "none"
           \/ pc'["video"] = "transforming" /\ UNCHANGED m_csReceive
    BY <1>5, GoLemma DEF GetBuffer, Threads
  <2> QED BY <1>5, <2>1 DEF GetBuffer
<1>6. CASE Transform \/ Count \/ AskPictures \/ Pictures \/ Blend \/ Deliver
  <2>1. /\ Labelled' /\ pc'["app"] = pc["app"]
        /\ pc["video"] \notin {"idle", "locking", "checking"}
    <3>1. CASE Transform
      BY <3>1, GoLemma DEF Transform, Enter, Threads
    <3>2. CASE Count
      <4>1. IF count' > 0 THEN Go("video", "counting", "counted")
                          ELSE Go("video", "counting", "delivering")
        BY <3>2 DEF Count
      <4> QED BY <4>1, GoLemma DEF Threads
    <3>3. CASE AskPictures
      BY <3>3, GoLemma DEF AskPictures, Enter, Threads
    <3>4. CASE Pictures
      BY <3>4, GoLemma DEF Pictures, Threads
    <3>5. CASE Blend
      BY <3>5, GoLemma DEF Blend, Threads
    <3>6. CASE Deliver
      BY <3>6, GoLemma DEF Deliver, Threads
    <3> QED BY <1>6, <3>1, <3>2, <3>3, <3>4, <3>5, <3>6
  <2>2. UNCHANGED quiet
    BY <1>6 DEF Transform, Count, AskPictures, Pictures, Blend, Deliver, quiet
  <2> QED BY <2>1, <2>2 DEF quiet
<1>7. CASE Delivered
  <2>1. /\ Labelled' /\ pc["video"] = "downstream"
        /\ pc'["video"] = "idle" /\ pc'["app"] = pc["app"]
    BY <1>7, GoLemma DEF Delivered, Threads
  <2> QED BY <1>7, <2>1 DEF Delivered
<1> QED BY <1>1, <1>2, <1>3, <1>4, <1>5, <1>6, <1>7 DEF VideoStep

(* The subtitle thread and a seek take neither m_csReceive nor a buffer. *)
LEMMA OthersQuiet ==
  ASSUME QuietInv, SubtitleStep \/ SubtitleReceive \/ SeekerStep \/ Seek \/ ReleaseBuffer
  PROVE  QuietInv'
<1> USE DEF locks, buffers
<1>1. UNCHANGED quiet
  BY DEF SubtitleStep, SubtitleReceive, SubtitleNewSegment, SubtitleInvalidate, SubtitleSegmentStart,
         AskParse, Parse, SeekerStep, Seek, BeginFlushVideo, DeliverBeginFlush, BeginFlushSubtitle,
         Halt, Join, EndFlushVideo, EndFlushSubtitle, Restart, ReleaseBuffer, quiet
<1>2. /\ Labelled'
      /\ pc'["video"] = pc["video"] /\ pc'["app"] = pc["app"]
  <2> USE DEF QuietInv
  <2>1. CASE SubtitleNewSegment \/ AskParse
    BY <2>1, GoLemma DEF SubtitleNewSegment, AskParse, Enter, Threads
  <2>2. CASE SubtitleInvalidate \/ SubtitleSegmentStart \/ Parse
    BY <2>2, GoLemma DEF SubtitleInvalidate, SubtitleSegmentStart, Parse, Threads
  <2>3. CASE SubtitleReceive
    BY <2>3, GoLemma DEF SubtitleReceive, Threads
  <2>4. CASE BeginFlushVideo \/ DeliverBeginFlush \/ BeginFlushSubtitle \/ Join
    BY <2>4, GoLemma DEF BeginFlushVideo, DeliverBeginFlush, BeginFlushSubtitle, Join, Threads
  <2>5. CASE EndFlushVideo \/ EndFlushSubtitle \/ Restart \/ Seek
    BY <2>5, GoLemma DEF EndFlushVideo, EndFlushSubtitle, Restart, Seek, Threads
  <2>6. CASE Halt \/ ReleaseBuffer
    BY <2>6 DEF Halt, ReleaseBuffer, Labelled
  <2> QED BY <2>1, <2>2, <2>3, <2>4, <2>5, <2>6 DEF SubtitleStep, SeekerStep
<1> QED BY <1>1, <1>2 DEF quiet, QuietInv, StoppedIsQuiet

LEMMA ManagerQuiet ==
  ASSUME QuietInv, AppStep \/ Pause \/ Stop
  PROVE  QuietInv'
<1> USE DEF QuietInv, StoppedIsQuiet, locks, buffers
<1>1. CASE StopReceive
  <2>1. Labelled' /\ pc'["app"] = "stopOutput" /\ pc'["video"] = pc["video"]
    BY <1>1, GoLemma DEF StopReceive, Threads
  <2> QED BY <1>1, <2>1 DEF StopReceive
<1>2. CASE StopOutput
  <2>1. /\ Labelled' /\ pc["app"] = "stopOutput"
        /\ pc'["app"] = "stopUpstream" /\ pc'["video"] = pc["video"]
    BY <1>2, GoLemma DEF StopOutput, Threads
  <2>2. pc["video"] \in {"idle", "locking"}
    BY <2>1
  <2> QED BY <1>2, <2>1, <2>2 DEF StopOutput
<1>3. CASE PauseActive
  <2>1. /\ Labelled' /\ pc'["app"] = "pauseUpstream"
        /\ pc'["video"] = pc["video"]
    BY <1>3, GoLemma DEF PauseActive, Threads
  <2> QED BY <1>3, <2>1 DEF PauseActive
<1>4. CASE \/ PauseLock \/ PauseReceive \/ PauseUpstream \/ Pause
           \/ StopLock \/ StopInput \/ StopUpstream \/ StopJoin \/ Stop
  <2>1. /\ Labelled' /\ pc'["app"] # "stopOutput"
        /\ pc'["video"] = pc["video"]
    BY <1>4, GoLemma DEF PauseLock, PauseReceive, PauseUpstream, Pause, StopLock, StopInput,
                          StopUpstream, StopJoin, Stop, Threads
  <2>2. UNCHANGED quiet
    BY <1>4 DEF PauseLock, PauseReceive, PauseUpstream, Pause, StopLock, StopInput,
                StopUpstream, StopJoin, Stop, quiet
  <2> QED BY <2>1, <2>2 DEF quiet
<1> QED BY <1>1, <1>2, <1>3, <1>4 DEF AppStep

(* Once Stop has returned no frame is in the filter, and none is let in,   *)
(* whatever Receive and flush were doing when it was called.               *)
THEOREM StreamingStoppedIsQuiet == Spec => []StoppedIsQuiet
<1>1. Init => QuietInv
  BY QuietInit
<1>2. QuietInv /\ [Next]_vars => QuietInv'
  <2>1. ASSUME QuietInv, UNCHANGED vars PROVE QuietInv'
    BY <2>1 DEF vars, locks, buffers, QuietInv, StoppedIsQuiet, Labelled
  <2> QED BY <2>1, VideoQuiet, OthersQuiet, ManagerQuiet DEF Next, Gone
<1>3. QuietInv => StoppedIsQuiet
  BY DEF QuietInv
<1> QED BY <1>1, <1>2, <1>3, PTL DEF Spec

-----------------------------------------------------------------------------
Emptied == (\A t \in Times : m_SubtitleMap[t] = << >>) /\ m_RenderedSubtitles = {}

(* Between the renderer's Invalidate and the pin's note of the new start   *)
(* a frame may ask for pictures, of a store that is empty.                 *)
LinesInv ==
  /\ Labelled
  /\ m_SubtitleMap \in [Times -> Seq(Renderer!Entry)]
  /\ segment \in Times /\ m_tStart \in Times
  /\ \A t \in Times : \A i \in 1 .. Len(m_SubtitleMap[t]) : m_SubtitleMap[t][i].StartTime = t
  /\ "subtitle" \notin newSegment => m_tStart = segment
  /\ NoOldLines
  /\ pc["subtitle"] = "invalidated" => Emptied

(* What the invariant looks at. *)
kept == <<m_SubtitleMap, m_RenderedSubtitles, m_tStart>>

LEMMA KeptLines ==
  ASSUME LinesInv, Labelled', UNCHANGED kept,
         pc'["subtitle"] = "invalidated" => pc["subtitle"] = "invalidated",
         \/ UNCHANGED <<segment, newSegment>>
         \/ UNCHANGED segment /\ newSegment' = newSegment \ {"video"}
         \/ segment' \in Times /\ newSegment' = {"video", "subtitle"}
  PROVE  LinesInv'
BY DEF LinesInv, NoOldLines, Emptied, kept

LEMMA LinesInit == Init => LinesInv
<1> SUFFICES ASSUME Init PROVE LinesInv
  OBVIOUS
<1>1. m_SubtitleMap = [t \in Times |-> << >>] /\ m_RenderedSubtitles = {}
  BY DEF Init, Renderer!SRTInit
<1>2. Labelled /\ pc["subtitle"] = "idle"
  BY DEF Init, Threads, Labelled
<1> QED BY <1>1, <1>2 DEF Init, LinesInv, NoOldLines

(* A line goes where the segment starts, once the pin knows it. *)
LEMMA ParseKeepsLines ==
  ASSUME LinesInv, Parse
  PROVE  LinesInv'
<1> USE DEF LinesInv
<1>1. PICK l \in Lines : Renderer!ParseLine(l, m_tStart, m_tStart)
  BY DEF Parse
<1>2. Labelled' /\ pc'["subtitle"] = "idle"
  BY GoLemma DEF Parse, Threads
<1>3. UNCHANGED <<m_RenderedSubtitles, m_tStart, segment, newSegment>>
  BY <1>1 DEF Parse, Renderer!ParseLine, Renderer!cache, starts, source
<1>4. CASE UNCHANGED m_SubtitleMap
  BY <1>2, <1>3, <1>4 DEF NoOldLines
<1>5. CASE m_SubtitleMap' # m_SubtitleMap
  <2> DEFINE e == [Text |-> Strip[l], StartTime |-> m_tStart, EndTime |-> m_tStart]
  <2>1. m_SubtitleMap' = [m_SubtitleMap EXCEPT ![m_tStart] = Append(@, e)]
    BY <1>1, <1>5 DEF Renderer!ParseLine, Renderer!store
  <2>2. e \in Renderer!Entry /\ e.StartTime = m_tStart
    BY StreamingAssumption DEF Renderer!Entry
  <2> HIDE DEF e
  <2>3. m_SubtitleMap'[m_tStart] = Append(m_SubtitleMap[m_tStart], e)
    BY <2>1
  <2>4. \A t \in Times \ {m_tStart} : m_SubtitleMap'[t] = m_SubtitleMap[t]
    BY <2>1
  <2>5. m_SubtitleMap[m_tStart] \in Seq(Renderer!Entry)
    OBVIOUS
  <2>6. m_SubtitleMap'[m_tStart] \in Seq(Renderer!Entry)
    BY <2>2, <2>3, <2>5
  <2>7. m_SubtitleMap' \in [Times -> Seq(Renderer!Entry)]
    BY <2>1, <2>3, <2>6
  <2>8. \A i \in 1 .. Len(m_SubtitleMap'[m_tStart]) : m_SubtitleMap'[m_tStart][i].StartTime = m_tStart
    BY <2>2, <2>3, <2>5
  <2>9. \A t \in Times : \A i \in 1 .. Len(m_SubtitleMap'[t]) : m_SubtitleMap'[t][i].StartTime = t
    BY <2>4, <2>8
  <2> QED BY <1>2, <1>3, <2>4, <2>7, <2>9 DEF NoOldLines
<1> QED BY <1>4, <1>5

(* A picture drawn is of a line in the store. *)
LEMMA PicturesKeepLines ==
  ASSUME LinesInv, Pictures
  PROVE  LinesInv'
<1> USE DEF LinesInv
<1>1. /\ Labelled' /\ pc'["subtitle"] = pc["subtitle"]
      /\ UNCHANGED <<m_SubtitleMap, m_tStart, segment, newSegment>>
  BY GoLemma DEF Pictures, Renderer!GetSubtitlePicture, Renderer!store, Threads, starts, source
<1>2. ASSUME NEW p \in m_RenderedSubtitles', p \notin m_RenderedSubtitles
      PROVE  \E t \in Times : \E i \in 1 .. Len(m_SubtitleMap[t]) : p.entry = m_SubtitleMap[t][i]
  <2>1. p \in Renderer!Render(Renderer!Drawings(Renderer!Undrawn(rtNow)), rtNow)
    BY <1>2 DEF Pictures, Renderer!GetSubtitlePicture, Renderer!Cached
  <2>2. PICK d \in Renderer!Drawings(Renderer!Undrawn(rtNow)) :
          p.entry = Renderer!EntriesAt(d[1][1])[d[2]]
    <3>1. \E d \in Renderer!Drawings(Renderer!Undrawn(rtNow)) : \E slot, copy :
            p = [entry |-> Renderer!EntriesAt(d[1][1])[d[2]], span |-> d[1], index |-> d[2],
                 slot |-> slot, copy |-> copy]
      BY <2>1, Zenon DEF Renderer!Render
    <3> QED BY <3>1
  <2>3. d[2] \in 1 .. MaxPerStart /\ d[2] <= Len(Renderer!EntriesAt(d[1][1]))
    BY <2>2 DEF Renderer!Drawings
  <2>4. d[1][1] \in Times
    BY <2>3 DEF Renderer!EntriesAt
  <2>5. Renderer!EntriesAt(d[1][1]) = m_SubtitleMap[d[1][1]]
    BY <2>4 DEF Renderer!EntriesAt
  <2>6. m_SubtitleMap[d[1][1]] \in Seq(Renderer!Entry)
    BY <2>4
  <2>7. Len(m_SubtitleMap[d[1][1]]) \in Nat /\ d[2] \in Int
    BY <2>3, <2>6, StreamingAssumption
  <2>8. d[2] \in 1 .. Len(m_SubtitleMap[d[1][1]])
    BY <2>3, <2>5, <2>7, StreamingAssumption
  <2> QED BY <2>2, <2>4, <2>5, <2>8
<1>3. NoOldLines'
  <2> SUFFICES ASSUME "subtitle" \notin newSegment, NEW p \in m_RenderedSubtitles'
               PROVE  p.entry.StartTime = segment
    BY <1>1 DEF NoOldLines
  <2>1. CASE p \in m_RenderedSubtitles
    BY <2>1 DEF NoOldLines
  <2>2. CASE p \notin m_RenderedSubtitles
    <3>1. PICK t \in Times : \E i \in 1 .. Len(m_SubtitleMap[t]) : p.entry = m_SubtitleMap[t][i]
      BY <1>2, <2>2
    <3>2. t = segment
      BY <3>1 DEF NoOldLines
    <3> QED BY <3>1, <3>2
  <2> QED BY <2>1, <2>2
<1>4. ASSUME Emptied PROVE Emptied'
  <2>1. \A p \in m_RenderedSubtitles' : FALSE
    BY <1>2, <1>4 DEF Emptied
  <2> QED BY <1>1, <1>4, <2>1 DEF Emptied
<1> QED BY <1>1, <1>3, <1>4

(* NewSegment of the subtitle pin. *)
LEMMA NewSegmentKeepsLines ==
  ASSUME LinesInv, SubtitleNewSegment \/ SubtitleInvalidate \/ SubtitleSegmentStart
  PROVE  LinesInv'
<1>1. CASE SubtitleNewSegment
  <2>1. Labelled' /\ pc'["subtitle"] = "invalidating"
    BY <1>1, GoLemma DEF SubtitleNewSegment, Enter, Threads, LinesInv
  <2> QED BY <1>1, <2>1, KeptLines DEF SubtitleNewSegment, kept, renderer, starts, source
<1>2. CASE SubtitleInvalidate
  <2>1. Labelled'
    BY <1>2, GoLemma DEF SubtitleInvalidate, Threads, LinesInv
  <2>2. m_SubtitleMap' = [t \in Times |-> << >>] /\ m_RenderedSubtitles' = {}
    BY <1>2 DEF SubtitleInvalidate, Renderer!Invalidate
  <2>3. UNCHANGED <<m_tStart, segment, newSegment>>
    BY <1>2 DEF SubtitleInvalidate, starts, source
  <2> QED BY <2>1, <2>2, <2>3 DEF LinesInv, NoOldLines, Emptied
<1>3. CASE SubtitleSegmentStart
  <2>1. Labelled' /\ pc["subtitle"] = "invalidated" /\ pc'["subtitle"] = "idle"
    BY <1>3, GoLemma DEF SubtitleSegmentStart, Threads, LinesInv
  <2>2. Emptied
    BY <2>1 DEF LinesInv
  <2>3. UNCHANGED <<m_SubtitleMap, m_RenderedSubtitles, segment>> /\ m_tStart' = segment
    BY <1>3 DEF SubtitleSegmentStart, renderer
  <2> QED BY <2>1, <2>2, <2>3 DEF LinesInv, NoOldLines, Emptied
<1> QED BY <1>1, <1>2, <1>3

LEMMA OthersKeepLines ==
  ASSUME LinesInv,
         \/ VideoNewSegment \/ VideoReceive \/ LockReceive \/ CheckStreaming \/ GetBuffer
         \/ Transform \/ Count \/ AskPictures \/ Blend \/ Deliver \/ Delivered
         \/ AskParse \/ SubtitleReceive \/ AppStep \/ Pause \/ Stop
         \/ SeekerStep \/ Seek \/ ReleaseBuffer
  PROVE  LinesInv'
<1>1. Labelled
  BY DEF LinesInv
<1>2. CASE VideoNewSegment
  BY <1>1, <1>2, KeptLines DEF VideoNewSegment, kept, renderer, Labelled
<1>3. CASE VideoReceive \/ LockReceive \/ CheckStreaming \/ GetBuffer \/ Delivered
  <2>1. Labelled' /\ pc'["subtitle"] = pc["subtitle"]
    BY <1>1, <1>3, GoLemma DEF VideoReceive, LockReceive, CheckStreaming, GetBuffer, Delivered, Threads
  <2>2. UNCHANGED <<kept, segment, newSegment>>
    BY <1>3 DEF VideoReceive, LockReceive, CheckStreaming, GetBuffer, Delivered, kept,
                renderer, starts, source
  <2> QED BY <2>1, <2>2, KeptLines
<1>4. CASE Transform \/ AskPictures \/ Blend \/ Deliver
  <2>1. Labelled' /\ pc'["subtitle"] = pc["subtitle"]
    BY <1>1, <1>4, GoLemma DEF Transform, AskPictures, Blend, Deliver, Enter, Threads
  <2>2. UNCHANGED <<kept, segment, newSegment>>
    BY <1>4 DEF Transform, AskPictures, Blend, Deliver, kept, renderer, starts, source
  <2> QED BY <2>1, <2>2, KeptLines
<1>5. CASE Count
  <2>1. Labelled' /\ pc'["subtitle"] = pc["subtitle"]
    <3>1. IF count' > 0 THEN Go("video", "counting", "counted")
                        ELSE Go("video", "counting", "delivering")
      BY <1>5 DEF Count
    <3> QED BY <1>1, <3>1, GoLemma DEF Threads
  <2>2. UNCHANGED <<kept, segment, newSegment>>
    BY <1>5 DEF Count, Renderer!GetSubtitlePictureCount, Renderer!store, kept, starts, source
  <2> QED BY <2>1, <2>2, KeptLines
<1>6. CASE AskParse \/ SubtitleReceive
  <2>1. Labelled' /\ pc'["subtitle"] \in {"parsing", "accepted"}
    BY <1>1, <1>6, GoLemma DEF AskParse, SubtitleReceive, Enter, Threads
  <2>2. UNCHANGED <<kept, segment, newSegment>>
    BY <1>6 DEF AskParse, SubtitleReceive, kept, renderer, starts, source
  <2> QED BY <2>1, <2>2, KeptLines
<1>7. CASE AppStep \/ Pause \/ Stop
  <2>1. Labelled' /\ pc'["subtitle"] = pc["subtitle"]
    BY <1>1, <1>7, GoLemma
    DEF AppStep, PauseLock, PauseReceive, PauseActive, PauseUpstream, Pause, StopLock, StopInput,
        StopReceive, StopOutput, StopUpstream, StopJoin, Stop, Threads
  <2>2. UNCHANGED <<kept, segment>> /\ newSegment' \in {newSegment, {"video", "subtitle"}}
    BY <1>7
    DEF AppStep, PauseLock, PauseReceive, PauseActive, PauseUpstream, Pause, StopLock, StopInput,
        StopReceive, StopOutput, StopUpstream, StopJoin, Stop, kept, renderer, starts, source
  <2>3. segment \in Times
    BY DEF LinesInv
  <2> QED BY <2>1, <2>2, <2>3, KeptLines
<1>8. CASE Halt \/ ReleaseBuffer
  BY <1>1, <1>8, KeptLines DEF Halt, ReleaseBuffer, kept, renderer, starts, source, Labelled
<1>9. CASE BeginFlushVideo \/ DeliverBeginFlush \/ BeginFlushSubtitle \/ Join
  <2>1. Labelled' /\ pc'["subtitle"] = pc["subtitle"]
    BY <1>1, <1>9, GoLemma DEF BeginFlushVideo, DeliverBeginFlush, BeginFlushSubtitle, Join, Threads
  <2>2. UNCHANGED <<kept, segment, newSegment>>
    BY <1>9 DEF BeginFlushVideo, DeliverBeginFlush, BeginFlushSubtitle, Join, kept, renderer,
                starts, source
  <2> QED BY <2>1, <2>2, KeptLines
<1>10. CASE EndFlushVideo \/ EndFlushSubtitle \/ Restart \/ Seek
  <2>1. Labelled' /\ pc'["subtitle"] = pc["subtitle"]
    BY <1>1, <1>10, GoLemma DEF EndFlushVideo, EndFlushSubtitle, Restart, Seek, Threads
  <2>2. /\ UNCHANGED kept
        /\ \/ UNCHANGED <<segment, newSegment>>
           \/ segment' \in Times /\ newSegment' = {"video", "subtitle"}
    BY <1>10 DEF EndFlushVideo, EndFlushSubtitle, Restart, Seek, kept, renderer, starts, source
  <2> QED BY <2>1, <2>2, KeptLines
<1> QED BY <1>2, <1>3, <1>4, <1>5, <1>6, <1>7, <1>8, <1>9, <1>10 DEF SeekerStep

(* From the subtitle pin's NewSegment to the next one the renderer holds   *)
(* nothing of an earlier segment, whatever Transform does to it meanwhile. *)
THEOREM StreamingNoOldLines == Spec => []NoOldLines
<1>1. Init => LinesInv
  BY LinesInit
<1>2. LinesInv /\ [Next]_vars => LinesInv'
  <2>1. ASSUME LinesInv, UNCHANGED vars PROVE LinesInv'
    BY <2>1, KeptLines DEF vars, kept, renderer, starts, source, LinesInv, Labelled
  <2> QED BY <2>1, ParseKeepsLines, PicturesKeepLines, NewSegmentKeepsLines, OthersKeepLines
          DEF Next, Gone, VideoStep, SubtitleStep
<1>3. LinesInv => NoOldLines
  BY DEF LinesInv
<1> QED BY <1>1, <1>2, <1>3, PTL DEF Spec

-----------------------------------------------------------------------------
(***************************************************************************)
(* The renderer behind the threads.  What SRTSubtitleRendererProofs says   *)
(* of its operations in any order holds here too: Transform makes its two  *)
(* calls at a time the pins choose, a line or an Invalidate may come       *)
(* between them, and the store and the cache are consistent all the same.  *)
(* Besides, every buffer of the output allocator is free, kept downstream  *)
(* or in the hands of the video thread.                                    *)
(***************************************************************************)
RendererProofs == INSTANCE SRTSubtitleRendererProofs

(* The renderer's constants are what its proofs assume. *)
LEMMA RendererAssumed == RendererProofs!RendererAssumption
BY StreamingAssumption DEF RendererProofs!RendererAssumption

(* The calls that the filter makes are those the proofs are about. *)
LEMMA SameParseLine ==
  ASSUME NEW l, NEW start, NEW end, Renderer!ParseLine(l, start, end)
  PROVE  RendererProofs!ParseLine(l, start, end)
BY DEF Renderer!ParseLine, Renderer!IsDuplicate, Renderer!cache, Renderer!store,
       RendererProofs!ParseLine, RendererProofs!IsDuplicate, RendererProofs!cache,
       RendererProofs!store

(* The same of Invalidate. *)
LEMMA SameInvalidate ==
  ASSUME Renderer!Invalidate
  PROVE  RendererProofs!Invalidate
BY DEF Renderer!Invalidate, RendererProofs!Invalidate

(* Both count alike. *)
LEMMA SameCardinality ==
  ASSUME NEW S
  PROVE  /\ Renderer!Cardinality(S) = Cardinality(S)
         /\ RendererProofs!Cardinality(S) = Cardinality(S)
BY DEF Cardinality, Renderer!Cardinality, RendererProofs!Cardinality

(* The same of what is drawn for a set of spans. *)
LEMMA SameDrawings ==
  ASSUME NEW spans
  PROVE  Renderer!Drawings(spans) = RendererProofs!Drawings(spans)
BY DEF Renderer!Drawings, Renderer!EntriesAt, RendererProofs!Drawings, RendererProofs!EntriesAt

(* The same of the count. *)
LEMMA SameCount ==
  ASSUME NEW t, Renderer!GetSubtitlePictureCount(t)
  PROVE  RendererProofs!GetSubtitlePictureCount(t)
<1>1. Renderer!Found(t) = RendererProofs!Found(t)
  BY DEF Renderer!Found, Renderer!Walked, Renderer!Walk, Renderer!Above, Renderer!IsBegin,
         Renderer!Before, Renderer!Covers, RendererProofs!Found, RendererProofs!Walked,
         RendererProofs!Walk, RendererProofs!Above, RendererProofs!IsBegin,
         RendererProofs!Before, RendererProofs!Covers
<1>2. Renderer!ValidAt(t) = RendererProofs!ValidAt(t)
  BY <1>1 DEF Renderer!ValidAt, RendererProofs!ValidAt
<1>3. Renderer!Drawings(Renderer!ValidAt(t)) = RendererProofs!Drawings(RendererProofs!ValidAt(t))
  BY <1>2, SameDrawings
<1> QED
  BY <1>2, <1>3, SameCardinality DEF Renderer!GetSubtitlePictureCount, Renderer!store,
                            RendererProofs!GetSubtitlePictureCount, RendererProofs!store

(* The same of the pictures. *)
LEMMA SamePictures ==
  ASSUME NEW t, Renderer!GetSubtitlePicture(t)
  PROVE  RendererProofs!GetSubtitlePicture(t)
<1>1. Renderer!Cached(t) = RendererProofs!Cached(t)
  BY DEF Renderer!Cached, Renderer!Covers, Renderer!SpanOf, RendererProofs!Cached,
         RendererProofs!Covers, RendererProofs!SpanOf
<1>2. Renderer!Undrawn(t) = RendererProofs!Undrawn(t)
  BY <1>1 DEF Renderer!Undrawn, Renderer!SpanOf, RendererProofs!Undrawn, RendererProofs!SpanOf
<1>3. ASSUME NEW D PROVE Renderer!Render(D, t) = RendererProofs!Render(D, t)
  <2>1. ASSUME NEW d PROVE Renderer!Rank(d, D) = RendererProofs!Rank(d, D)
    <3>1. \A c \in D : Renderer!DrawnBefore(c, d) = RendererProofs!DrawnBefore(c, d)
      BY DEF Renderer!DrawnBefore, Renderer!Before, RendererProofs!DrawnBefore,
             RendererProofs!Before
    <3>2. {c \in D : Renderer!DrawnBefore(c, d)} = {c \in D : RendererProofs!DrawnBefore(c, d)}
      BY <3>1
    <3> QED
      BY <3>2, SameCardinality DEF Renderer!Rank, RendererProofs!Rank
  <2>2. ASSUME NEW d PROVE Renderer!EntriesAt(d) = RendererProofs!EntriesAt(d)
    BY DEF Renderer!EntriesAt, RendererProofs!EntriesAt
  <2> DEFINE pic(d) ==
               [entry |-> RendererProofs!EntriesAt(d[1][1])[d[2]], span |-> d[1],
                index |-> d[2],
                slot |-> Cardinality(RendererProofs!Cached(t)) + RendererProofs!Rank(d, D),
                copy |-> Cardinality({p \in RendererProofs!Cached(t) :
                                        p.span = d[1] /\ p.index = d[2]})]
  <2>3. Renderer!Render(D, t) = {pic(d) : d \in D}
    BY <1>1, <2>1, <2>2, SameCardinality, Zenon DEF Renderer!Render
  <2>4. RendererProofs!Render(D, t) = {pic(d) : d \in D}
    BY SameCardinality, Zenon DEF RendererProofs!Render
  <2> QED
    BY <2>3, <2>4
<1>4. Renderer!Render(Renderer!Drawings(Renderer!Undrawn(t)), t)
        = RendererProofs!Render(RendererProofs!Drawings(RendererProofs!Undrawn(t)), t)
  BY <1>2, <1>3, SameDrawings
<1>5. {Renderer!SpanOf(p.entry) : p \in Renderer!Cached(t)}
        = {RendererProofs!SpanOf(p.entry) : p \in RendererProofs!Cached(t)}
  BY <1>1 DEF Renderer!SpanOf, RendererProofs!SpanOf
<1>6. m_RenderedSubtitles'
        = RendererProofs!Cached(t) \cup
            RendererProofs!Render(RendererProofs!Drawings(RendererProofs!Undrawn(t)), t)
  BY <1>1, <1>4 DEF Renderer!GetSubtitlePicture
<1>7. m_ValidSubtitleTimes'
        = m_ValidSubtitleTimes \cup {RendererProofs!SpanOf(p.entry) : p \in RendererProofs!Cached(t)}
  BY <1>5 DEF Renderer!GetSubtitlePicture
<1>8. /\ Cardinality(RendererProofs!Cached(t)) < MaxPictures
      /\ out' = m_RenderedSubtitles' /\ pending' = FALSE
      /\ UNCHANGED <<RendererProofs!store, headNode, count, clock>>
  BY <1>1, SameCardinality DEF Renderer!GetSubtitlePicture, Renderer!store,
                               RendererProofs!store
<1> QED
  BY <1>6, <1>7, <1>8, SameCardinality DEF RendererProofs!GetSubtitlePicture

(* The output buffer a frame is written to, until Receive returns. *)
Writing ==
  {"transforming", "counting", "counted", "picturing", "blending", "delivering", "downstream"}

(* Each buffer of the output allocator is free, kept downstream or with the *)
(* video thread: GetBuffer and the last Release are in pairs on every path. *)
BuffersAccounted == free + held + (IF pc["video"] \in Writing THEN 1 ELSE 0) = Buffers

(* The types of what the threads share beside the renderer. *)
FlagsInv ==
  /\ Labelled
  /\ m_csFilter \in {"none", "app", "seeker"} /\ m_csReceive \in {"none", "video", "app"}
  /\ m_State \in {"Stopped", "Paused"}
  /\ m_bFlushing \in [{"video", "subtitle"} -> BOOLEAN]
  /\ committed \in BOOLEAN /\ inputCommitted \in BOOLEAN
  /\ playing \in BOOLEAN /\ downFlushing \in BOOLEAN
  /\ upstream \in {"stopped", "running", "halted"}
  /\ newSegment \subseteq {"video", "subtitle"}
  /\ seeks \in 0 .. MaxSeeks /\ lines \in 0 .. MaxLines
  /\ crashed \in BOOLEAN

(* What the threads keep between two steps to ask the renderer with. *)
FrameTimes == m_rtStart \in Times /\ m_tStart \in Times /\ rtNow \in Times /\ segment \in Times

(* The inductive invariant of this section. *)
SharedInv ==
  /\ FlagsInv /\ FrameTimes
  /\ RendererProofs!StoreInv /\ subpicCount \in Nat
  /\ free \in Nat /\ held \in Nat /\ BuffersAccounted

(* At first all buffers are free. *)
LEMMA SharedAtStart == Init => SharedInv
<1> SUFFICES ASSUME Init PROVE SharedInv
  OBVIOUS
<1> USE DEF Init
<1>1. RendererProofs!StoreInv
  <2>1. RendererProofs!SRTInit
    BY DEF Renderer!SRTInit, RendererProofs!SRTInit
  <2> QED
    BY <2>1, RendererAssumed, RendererProofs!InitStoreInv
<1>2. Labelled
  BY DEF Labelled, Threads
<1>3. seeks \in 0 .. MaxSeeks /\ lines \in 0 .. MaxLines
  BY StreamingAssumption
<1>4. FlagsInv /\ FrameTimes
  BY <1>2, <1>3 DEF FlagsInv, FrameTimes
<1>5. BuffersAccounted /\ free \in Nat /\ held \in Nat
  BY StreamingAssumption DEF BuffersAccounted, Writing
<1> QED
  BY <1>1, <1>4, <1>5 DEF SharedInv

(* Whatever a thread does, it does to the renderer by its operations. *)
LEMMA RendererKept ==
  ASSUME SharedInv, Next
  PROVE  RendererProofs!StoreInv' /\ subpicCount' \in Nat
<1> USE DEF SharedInv, FrameTimes
<1>1. CASE Parse
  <2>1. PICK l \in Lines : Renderer!ParseLine(l, m_tStart, m_tStart)
    BY <1>1 DEF Parse
  <2> DEFINE sp == <<m_tStart, m_tStart>>
  <2>2. sp \in RendererProofs!Span /\ RendererProofs!ParseLine(l, sp[1], sp[2])
    BY <2>1, SameParseLine DEF RendererProofs!Span
  <2>3. RendererProofs!StoreInv'
    BY <2>2, RendererAssumed, RendererProofs!ParseLineStoreInv
  <2> QED
    BY <1>1, <2>3 DEF Parse, frame
<1>2. CASE SubtitleInvalidate
  BY <1>2, SameInvalidate, RendererAssumed, RendererProofs!InvalidateStoreInv
  DEF SubtitleInvalidate, frame
<1>3. CASE Count
  <2>1. RendererProofs!StoreInv'
    BY <1>3, SameCount, RendererAssumed, RendererProofs!CountStoreInv DEF Count
  <2> QED
    BY <1>3, <2>1 DEF Count, RendererProofs!StoreInv, RendererProofs!TypeOK
<1>4. CASE Pictures
  BY <1>4, SamePictures, RendererAssumed, RendererProofs!PictureStoreInv DEF Pictures, frame
<1>5. CASE UNCHANGED <<renderer, subpicCount>>
  <2>1. UNCHANGED RendererProofs!vars
    BY <1>5 DEF renderer, RendererProofs!vars, RendererProofs!store, RendererProofs!cache
  <2> QED
    BY <1>5, <2>1, RendererAssumed, RendererProofs!UnchangedStoreInv
<1>6. CASE \/ VideoNewSegment \/ VideoReceive \/ LockReceive \/ CheckStreaming \/ GetBuffer
           \/ Transform \/ AskPictures \/ Blend \/ Deliver \/ Delivered
  BY <1>5, <1>6 DEF VideoNewSegment, VideoReceive, LockReceive, CheckStreaming, GetBuffer,
                    Transform, AskPictures, Blend, Deliver, Delivered, frame
<1>7. CASE SubtitleNewSegment \/ SubtitleSegmentStart \/ SubtitleReceive \/ AskParse
  BY <1>5, <1>7 DEF SubtitleNewSegment, SubtitleSegmentStart, SubtitleReceive, AskParse, frame
<1>8. CASE AppStep \/ Pause \/ Stop
  BY <1>5, <1>8
  DEF AppStep, PauseLock, PauseReceive, PauseActive, PauseUpstream, Pause, StopLock, StopInput,
      StopReceive, StopOutput, StopUpstream, StopJoin, Stop, frame
<1>9. CASE SeekerStep \/ Seek \/ ReleaseBuffer
  BY <1>5, <1>9
  DEF SeekerStep, BeginFlushVideo, DeliverBeginFlush, BeginFlushSubtitle, Halt, Join,
      EndFlushVideo, EndFlushSubtitle, Restart, Seek, ReleaseBuffer, frame
<1>10. CASE Gone
  BY <1>5, <1>10 DEF Gone, vars, frame
<1> QED
  BY <1>1, <1>2, <1>3, <1>4, <1>6, <1>7, <1>8, <1>9, <1>10
  DEF Next, VideoStep, SubtitleStep

(* A buffer is taken by GetBuffer and given back by Receive's end, or is   *)
(* kept downstream.                                                        *)
LEMMA BuffersKept ==
  ASSUME SharedInv, Next
  PROVE  free' \in Nat /\ held' \in Nat /\ BuffersAccounted'
<1> USE DEF SharedInv, FlagsInv
<1>0. Buffers \in Nat
  BY StreamingAssumption
<1>1. CASE UNCHANGED <<free, held>> /\ (pc'["video"] \in Writing <=> pc["video"] \in Writing)
  BY <1>1 DEF BuffersAccounted
<1>2. CASE GetBuffer
  <2>1. CASE committed /\ free > 0 /\ Go("video", "allocating", "transforming") /\ free' = free - 1
    <3>1. pc["video"] = "allocating" /\ pc'["video"] = "transforming"
      BY <2>1, GoLemma DEF Threads
    <3>2. held' = held
      BY <1>2 DEF GetBuffer
    <3> QED
      BY <2>1, <3>1, <3>2 DEF BuffersAccounted, Writing
  <2>2. CASE Go("video", "allocating", "idle") /\ UNCHANGED free
    <3>1. pc["video"] = "allocating" /\ pc'["video"] = "idle"
      BY <2>2, GoLemma DEF Threads
    <3>2. held' = held
      BY <1>2 DEF GetBuffer
    <3> QED
      BY <1>1, <2>2, <3>1, <3>2 DEF Writing
  <2> QED
    BY <1>2, <2>1, <2>2 DEF GetBuffer
<1>3. CASE Delivered
  <2>1. pc["video"] = "downstream" /\ pc'["video"] = "idle"
    BY <1>3, GoLemma DEF Delivered, Threads
  <2>2. \/ free' = free + 1 /\ held' = held
        \/ held' = held + 1 /\ free' = free
    BY <1>3 DEF Delivered
  <2> QED
    BY <2>1, <2>2 DEF BuffersAccounted, Writing
<1>4. CASE VideoReceive \/ LockReceive
  BY <1>1, <1>4, GoLemma DEF VideoReceive, LockReceive, Threads, Writing, buffers
<1>5. CASE CheckStreaming
  <2>1. pc["video"] = "checking" /\ pc'["video"] \in {"idle", "allocating"}
    BY <1>5, GoLemma DEF CheckStreaming, Threads
  <2> QED
    BY <1>1, <1>5, <2>1 DEF CheckStreaming, Writing, buffers
<1>6. CASE Transform \/ AskPictures \/ Pictures \/ Blend \/ Deliver
  BY <1>1, <1>6, GoLemma DEF Transform, AskPictures, Pictures, Blend, Deliver, Enter, Threads,
                          Writing, buffers
<1>7. CASE Count
  <2>1. IF count' > 0 THEN Go("video", "counting", "counted")
                      ELSE Go("video", "counting", "delivering")
    BY <1>7 DEF Count
  <2>2. pc["video"] = "counting" /\ pc'["video"] \in {"counted", "delivering"}
    BY <2>1, GoLemma DEF Threads
  <2> QED
    BY <1>1, <1>7, <2>2 DEF Count, Writing, buffers
<1>8. CASE VideoNewSegment \/ Gone
  BY <1>1, <1>8 DEF VideoNewSegment, Gone, vars, buffers
<1>9. CASE SubtitleStep \/ SubtitleReceive
  <2>1. pc'["video"] = pc["video"]
    BY <1>9, GoLemma DEF SubtitleStep, SubtitleNewSegment, SubtitleInvalidate, SubtitleSegmentStart,
                      SubtitleReceive, AskParse, Parse, Enter, Threads
  <2>2. UNCHANGED <<free, held>>
    BY <1>9 DEF SubtitleStep, SubtitleNewSegment, SubtitleInvalidate, SubtitleSegmentStart,
                SubtitleReceive, AskParse, Parse, buffers
  <2> QED
    BY <1>1, <2>1, <2>2
<1>10. CASE AppStep \/ Pause
  <2>1. pc'["video"] = pc["video"]
    BY <1>10, GoLemma
    DEF AppStep, PauseLock, PauseReceive, PauseActive, PauseUpstream, Pause, StopLock, StopInput,
        StopReceive, StopOutput, StopUpstream, StopJoin, Threads
  <2>2. UNCHANGED <<free, held>>
    BY <1>10
    DEF AppStep, PauseLock, PauseReceive, PauseActive, PauseUpstream, Pause, StopLock, StopInput,
        StopReceive, StopOutput, StopUpstream, StopJoin, buffers
  <2> QED
    BY <1>1, <2>1, <2>2
<1>11. CASE Stop \/ DeliverBeginFlush
  <2>1. pc'["video"] = pc["video"]
    BY <1>11, GoLemma DEF Stop, DeliverBeginFlush, Threads
  <2>2. free' = free + held /\ held' = 0
    BY <1>11 DEF Stop, DeliverBeginFlush
  <2> QED
    BY <2>1, <2>2 DEF BuffersAccounted
<1>12. CASE \/ BeginFlushVideo \/ BeginFlushSubtitle \/ Halt \/ Join
            \/ EndFlushVideo \/ EndFlushSubtitle \/ Restart \/ Seek
  <2>1. pc'["video"] = pc["video"]
    BY <1>12, GoLemma DEF BeginFlushVideo, BeginFlushSubtitle, Halt, Join, EndFlushVideo,
                       EndFlushSubtitle, Restart, Seek, Threads
  <2>2. UNCHANGED <<free, held>>
    BY <1>12 DEF BeginFlushVideo, BeginFlushSubtitle, Halt, Join, EndFlushVideo, EndFlushSubtitle,
                 Restart, Seek, buffers
  <2> QED
    BY <1>1, <2>1, <2>2
<1>13. CASE ReleaseBuffer
  BY <1>13 DEF ReleaseBuffer, BuffersAccounted
<1> QED
  BY <1>2, <1>3, <1>4, <1>5, <1>6, <1>7, <1>8, <1>9, <1>10, <1>11, <1>12, <1>13
  DEF Next, VideoStep, SeekerStep

(* The times of the segment, of its two notes and of the frame. *)
LEMMA FrameTimesKept ==
  ASSUME SharedInv, Next
  PROVE  FrameTimes'
<1> USE DEF SharedInv, FrameTimes, starts, source, frame
<1>1. CASE VideoStep \/ VideoReceive \/ Delivered
  BY <1>1 DEF VideoStep, VideoNewSegment, VideoReceive, LockReceive, CheckStreaming, GetBuffer,
              Transform, Count, AskPictures, Pictures, Blend, Deliver, Delivered
<1>2. CASE SubtitleStep \/ SubtitleReceive
  BY <1>2 DEF SubtitleStep, SubtitleNewSegment, SubtitleInvalidate, SubtitleSegmentStart,
              SubtitleReceive, AskParse, Parse
<1>3. CASE AppStep \/ Pause \/ Stop
  BY <1>3
  DEF AppStep, PauseLock, PauseReceive, PauseActive, PauseUpstream, Pause, StopLock, StopInput,
      StopReceive, StopOutput, StopUpstream, StopJoin, Stop
<1>4. CASE SeekerStep \/ Seek \/ ReleaseBuffer \/ Gone
  BY <1>4
  DEF SeekerStep, BeginFlushVideo, DeliverBeginFlush, BeginFlushSubtitle, Halt, Join,
      EndFlushVideo, EndFlushSubtitle, Restart, Seek, ReleaseBuffer, Gone, vars
<1> QED
  BY <1>1, <1>2, <1>3, <1>4 DEF Next

(* Locks, flags and counters. *)
LEMMA FlagsKept ==
  ASSUME SharedInv, Next
  PROVE  FlagsInv'
<1>0. MaxSeeks \in Nat /\ MaxLines \in Nat
  BY StreamingAssumption
<1> USE DEF SharedInv, FlagsInv
<1>1. CASE VideoStep \/ VideoReceive \/ Delivered
  <2>1. Labelled'
    <3>1. CASE Count
      <4>1. IF count' > 0 THEN Go("video", "counting", "counted")
                          ELSE Go("video", "counting", "delivering")
        BY <3>1 DEF Count
      <4> QED
        BY <4>1, GoLemma DEF Threads
    <3>2. CASE VideoNewSegment
      BY <3>2 DEF VideoNewSegment, Labelled
    <3> QED
      BY <1>1, <3>1, <3>2, GoLemma
      DEF VideoStep, VideoReceive, LockReceive, CheckStreaming, GetBuffer, Transform, AskPictures,
          Pictures, Blend, Deliver, Delivered, Enter, Threads
  <2>2. /\ m_csReceive' \in {m_csReceive, "none", "video"}
        /\ UNCHANGED <<m_csFilter, m_State, m_bFlushing, committed, downstream, inputCommitted,
                       upstream, seeks, lines>>
        /\ newSegment' \subseteq newSegment /\ crashed' \in {crashed, TRUE, FALSE}
    BY <1>1 DEF VideoStep, VideoNewSegment, VideoReceive, LockReceive, CheckStreaming, GetBuffer,
                Transform, Count, AskPictures, Pictures, Blend, Deliver, Delivered, Enter,
                locks, buffers, source
  <2> QED
    BY <2>1, <2>2 DEF downstream
<1>2. CASE SubtitleStep \/ SubtitleReceive
  <2>1. Labelled'
    BY <1>2, GoLemma
    DEF SubtitleStep, SubtitleNewSegment, SubtitleInvalidate, SubtitleSegmentStart,
        SubtitleReceive, AskParse, Parse, Enter, Threads
  <2>2. /\ UNCHANGED <<m_csFilter, m_csReceive, m_State, m_bFlushing, committed, downstream,
                       inputCommitted, upstream, seeks>>
        /\ newSegment' \subseteq newSegment /\ crashed' \in {crashed, TRUE, FALSE}
        /\ lines' = lines \/ (lines < MaxLines /\ lines' = lines + 1)
    BY <1>2 DEF SubtitleStep, SubtitleNewSegment, SubtitleInvalidate, SubtitleSegmentStart,
                SubtitleReceive, AskParse, Parse, Enter, locks, buffers, source
  <2>3. lines' \in 0 .. MaxLines
    BY <1>0, <2>2
  <2> QED
    BY <2>1, <2>2, <2>3 DEF downstream
<1>3. CASE AppStep \/ Pause \/ Stop
  <2>1. Labelled'
    BY <1>3, GoLemma
    DEF AppStep, PauseLock, PauseReceive, PauseActive, PauseUpstream, Pause, StopLock, StopInput,
        StopReceive, StopOutput, StopUpstream, StopJoin, Stop, Threads
  <2>2. /\ m_csFilter' \in {m_csFilter, "none", "app"}
        /\ m_csReceive' \in {m_csReceive, "none", "app"}
        /\ m_State' \in {m_State, "Stopped", "Paused"}
        /\ m_bFlushing' \in {m_bFlushing, [m_bFlushing EXCEPT !["video"] = FALSE]}
        /\ committed' \in {committed, TRUE, FALSE} /\ playing' \in {playing, TRUE, FALSE}
        /\ inputCommitted' \in {inputCommitted, TRUE, FALSE}
        /\ upstream' \in {upstream, "running", "stopped"}
        /\ newSegment' \in {newSegment, {"video", "subtitle"}} /\ lines' \in {lines, 0}
        /\ UNCHANGED <<downFlushing, seeks, crashed>>
    BY <1>3
    DEF AppStep, PauseLock, PauseReceive, PauseActive, PauseUpstream, Pause, StopLock, StopInput,
        StopReceive, StopOutput, StopUpstream, StopJoin, Stop, locks, buffers, downstream, source
  <2>3. lines' \in 0 .. MaxLines /\ seeks' \in 0 .. MaxSeeks
    BY <1>0, <2>2
  <2>4. m_bFlushing' \in [{"video", "subtitle"} -> BOOLEAN]
    BY <2>2
  <2>5. /\ m_csFilter' \in {"none", "app", "seeker"} /\ m_csReceive' \in {"none", "video", "app"}
        /\ m_State' \in {"Stopped", "Paused"}
    BY <2>2
  <2>6. /\ committed' \in BOOLEAN /\ inputCommitted' \in BOOLEAN /\ playing' \in BOOLEAN
        /\ downFlushing' \in BOOLEAN /\ crashed' \in BOOLEAN
    BY <2>2
  <2>7. upstream' \in {"stopped", "running", "halted"} /\ newSegment' \subseteq {"video", "subtitle"}
    BY <2>2
  <2> QED
    BY <2>1, <2>3, <2>4, <2>5, <2>6, <2>7
<1>4. CASE SeekerStep \/ Seek
  <2>1. Labelled'
    <3>1. CASE Halt
      BY <3>1 DEF Halt, Labelled
    <3> QED
      BY <1>4, <3>1, GoLemma
      DEF SeekerStep, BeginFlushVideo, DeliverBeginFlush, BeginFlushSubtitle, Join, EndFlushVideo,
          EndFlushSubtitle, Restart, Seek, Threads
  <2>2. /\ m_csFilter' \in {m_csFilter, "none", "seeker"}
        /\ \/ UNCHANGED m_bFlushing
           \/ \E p \in {"video", "subtitle"}, b \in BOOLEAN :
                m_bFlushing' = [m_bFlushing EXCEPT ![p] = b]
        /\ downFlushing' \in {downFlushing, TRUE, FALSE}
        /\ upstream' \in {upstream, "running", "halted"}
        /\ newSegment' \in {newSegment, {"video", "subtitle"}} /\ lines' \in {lines, 0}
        /\ seeks' = seeks \/ (seeks < MaxSeeks /\ seeks' = seeks + 1)
        /\ UNCHANGED <<m_csReceive, m_State, committed, playing, inputCommitted, crashed>>
    BY <1>4
    DEF SeekerStep, BeginFlushVideo, DeliverBeginFlush, BeginFlushSubtitle, Halt, Join,
        EndFlushVideo, EndFlushSubtitle, Restart, Seek, locks, buffers, downstream, source
  <2>3. lines' \in 0 .. MaxLines /\ seeks' \in 0 .. MaxSeeks
    BY <1>0, <2>2
  <2>4. m_bFlushing' \in [{"video", "subtitle"} -> BOOLEAN]
    BY <2>2
  <2>5. /\ m_csFilter' \in {"none", "app", "seeker"} /\ m_csReceive' \in {"none", "video", "app"}
        /\ m_State' \in {"Stopped", "Paused"}
    BY <2>2
  <2>6. /\ committed' \in BOOLEAN /\ inputCommitted' \in BOOLEAN /\ playing' \in BOOLEAN
        /\ downFlushing' \in BOOLEAN /\ crashed' \in BOOLEAN
    BY <2>2
  <2>7. upstream' \in {"stopped", "running", "halted"} /\ newSegment' \subseteq {"video", "subtitle"}
    BY <2>2
  <2> QED
    BY <2>1, <2>3, <2>4, <2>5, <2>6, <2>7
<1>5. CASE ReleaseBuffer \/ Gone
  BY <1>5 DEF ReleaseBuffer, Gone, vars, locks, buffers, downstream, source, Labelled
<1> QED
  BY <1>1, <1>2, <1>3, <1>4, <1>5 DEF Next

(* The shared state is as it should be in every state. *)
LEMMA SharedAlways == Spec => []SharedInv
<1>1. ASSUME SharedInv, UNCHANGED vars PROVE SharedInv'
  <2>1. Gone \/ ~crashed
    BY <1>1 DEF Gone
  <2>2. RendererProofs!StoreInv'
    <3>1. UNCHANGED RendererProofs!vars
      BY <1>1 DEF vars, renderer, RendererProofs!vars, RendererProofs!store, RendererProofs!cache
    <3> QED
      BY <1>1, <3>1, RendererAssumed, RendererProofs!UnchangedStoreInv DEF SharedInv
  <2> QED
    BY <1>1, <2>2 DEF vars, locks, starts, frame, buffers, downstream, source, SharedInv,
                      FlagsInv, FrameTimes, BuffersAccounted, Labelled
<1>2. SharedInv /\ [Next]_vars => SharedInv'
  BY <1>1, RendererKept, BuffersKept, FrameTimesKept, FlagsKept DEF SharedInv
<1> QED
  BY <1>2, SharedAtStart, PTL DEF Spec

(* No output buffer is lost: each is free, kept downstream or taken for    *)
(* the frame that the video thread has (transfrm.cpp:268-330), whatever    *)
(* flushes and stops come between.                                         *)
THEOREM StreamingBuffersAccounted == Spec => []BuffersAccounted
<1>1. SharedInv => BuffersAccounted
  BY DEF SharedInv
<1> QED
  BY <1>1, SharedAlways, PTL

(* Whatever the two threads do to the renderer they share, in whatever     *)
(* order, its two containers agree and nothing it has drawn outlives its   *)
(* line - unless two calls at a time end the process.                      *)
THEOREM StreamingStoreConsistent == Spec => [](Renderer!StoreConsistent /\ Renderer!CacheFromStore)
<1>1. SharedInv => Renderer!StoreConsistent /\ Renderer!CacheFromStore
  BY DEF SharedInv, RendererProofs!StoreInv, RendererProofs!StoreConsistent,
         RendererProofs!CacheFromStore, RendererProofs!SpanOf, RendererProofs!EntriesAt,
         Renderer!StoreConsistent, Renderer!CacheFromStore, Renderer!SpanOf, Renderer!EntriesAt
<1> QED
  BY <1>1, SharedAlways, PTL

(* Every variable of the streaming filter has its type. *)
THEOREM StreamingTypeOK == Spec => []TypeOK
<1>1. ASSUME SharedInv PROVE TypeOK
  <2>1. Renderer!TypeOK
    BY <1>1 DEF SharedInv, RendererProofs!StoreInv, RendererProofs!TypeOK, RendererProofs!Entry,
                RendererProofs!Span, RendererProofs!Picture, Renderer!TypeOK, Renderer!Entry,
                Renderer!Span, Renderer!Picture
  <2>2. free \in 0 .. Buffers /\ held \in 0 .. Buffers
    BY <1>1, StreamingAssumption DEF SharedInv, BuffersAccounted
  <2> QED
    BY <1>1, <2>1, <2>2 DEF SharedInv, FlagsInv, FrameTimes, TypeOK, Threads, Labelled
<1> QED
  BY <1>1, SharedAlways, PTL

-----------------------------------------------------------------------------
(* A picture's weight and the frame's: what the product of a byte and the  *)
(* rest of an alpha can be.                                                *)
LEMMA Weighted ==
  ASSUME NEW d \in Byte, NEW w \in Byte
  PROVE  d * w \in Int /\ 0 <= d * w /\ d * w <= 255 * w
<1>1. d \in Int /\ w \in Int /\ 0 <= d /\ d <= 255 /\ 0 <= w BY DEF Byte
<1>2. 0 <= d * w /\ d * w \in Int BY <1>1
<1>3. 0 <= (255 - d) * w BY <1>1
<1>4. (255 - d) * w = 255 * w - d * w BY <1>1
<1> QED BY <1>1, <1>2, <1>3, <1>4

(* The tables hold their entries, but for those of green in luma that do   *)
(* not fit in a short and come out 65536 too small.                        *)
LEMMA Tables ==
  ASSUME NEW i \in Byte
  PROVE  /\ Table(77, i) = 77 * i /\ Table(29, i) = 29 * i
         /\ Table(-37, i) = -37 * i /\ Table(-74, i) = -74 * i /\ Table(111, i) = 111 * i
         /\ Table(112, i) = 112 * i /\ Table(-94, i) = -94 * i /\ Table(-18, i) = -18 * i
         /\ Table(150, i) \in {150 * i, 150 * i - 65536}
<1>1. i \in Int /\ 0 <= i /\ i <= 255 BY DEF Byte
<1> QED BY <1>1 DEF Table, Short

(* Luma of a premultiplied colour is at most its alpha. *)
LEMMA LumaWithinAlpha ==
  ASSUME NEW c \in Premultiplied
  PROVE  Luma(c) \in 0 .. c.a
<1>1. /\ c.r \in Int /\ c.g \in Int /\ c.b \in Int /\ c.a \in Int
      /\ 0 <= c.r /\ c.r <= c.a /\ 0 <= c.g /\ c.g <= c.a /\ 0 <= c.b /\ c.b <= c.a
      /\ c.a <= 255
  BY DEF Premultiplied, Colour, Byte
<1>2. 77 * c.r + 150 * c.g + 29 * c.b + 128 \in 128 .. 256 * c.a + 128 BY <1>1
<1> DEFINE s == 77 * c.r + 150 * c.g + 29 * c.b + 128
<1>3. s \in 128 .. 256 * c.a + 128 => s \div 256 \in 0 .. c.a BY <1>1
<1> QED BY <1>2, <1>3 DEF Luma

(* The overflow of the green table does no harm: a multiple of 65536 lost  *)
(* before the shift is a multiple of 256 lost after it.                    *)
LEMMA LumaUpToBytes ==
  ASSUME NEW c \in Premultiplied
  PROVE  ConvertBGRAToYBT601(c) \in {Luma(c), Luma(c) - 256}
<1>1. c.r \in Byte /\ c.g \in Byte /\ c.b \in Byte BY DEF Premultiplied, Colour
<1>2. c.r \in Int /\ c.g \in Int /\ c.b \in Int BY <1>1 DEF Byte
<1>3. /\ Table(77, c.r) = 77 * c.r /\ Table(29, c.b) = 29 * c.b
      /\ Table(150, c.g) \in {150 * c.g, 150 * c.g - 65536}
  BY <1>1, Tables
<1>4. CASE Table(150, c.g) = 150 * c.g
  BY <1>3, <1>4 DEF ConvertBGRAToYBT601, Luma
<1>5. CASE Table(150, c.g) = 150 * c.g - 65536
  <2> DEFINE s == 77 * c.r + 150 * c.g + 29 * c.b + 128
  <2>1. s \in Int BY <1>2
  <2>2. (s - 65536) \div 256 = (s \div 256) - 256 BY <2>1
  <2>3. Table(77, c.r) + Table(150, c.g) + Table(29, c.b) + 128 = s - 65536
    BY <1>2, <1>3, <1>5
  <2> QED BY <2>2, <2>3 DEF ConvertBGRAToYBT601, Luma
<1> QED BY <1>3, <1>4, <1>5

(* What is stored for luma is the picture's luma over the frame's byte, for *)
(* every premultiplied colour: neither the short tables nor the cast to a   *)
(* byte loses anything (SubPicBlender.h:101-108, SubPicBlender.cpp:107-111). *)
THEOREM LumaExact ==
  ASSUME NEW c \in Premultiplied, NEW d \in Byte
  PROVE  BlendLuma(c, d) = LumaOver(c, d) /\ LumaOver(c, d) \in Byte
<1>1. c.a \in Int /\ 0 <= c.a /\ c.a <= 255 BY DEF Premultiplied, Colour, Byte
<1>2. 255 - c.a \in Byte BY <1>1 DEF Byte
<1> DEFINE q == d * (255 - c.a)
<1>3. q \in Int /\ 0 <= q /\ q <= 255 * (255 - c.a) BY <1>2, Weighted
<1>4. q \div 256 \in Int /\ 0 <= q \div 256 /\ q \div 256 <= 255 - c.a
  <2> HIDE DEF q
  <2> QED BY <1>1, <1>3
<1>5. Luma(c) \in 0 .. c.a BY LumaWithinAlpha
<1>6. LumaOver(c, d) = Luma(c) + q \div 256 BY DEF LumaOver
<1>7. LumaOver(c, d) \in Byte
  <2> HIDE DEF q
  <2> QED BY <1>1, <1>4, <1>5, <1>6 DEF Byte
<1>8. ConvertBGRAToYBT601(c) \in {Luma(c), Luma(c) - 256} BY LumaUpToBytes
<1>9. BlendLuma(c, d) = (ConvertBGRAToYBT601(c) + q \div 256) % 256
  BY DEF BlendLuma, ToByte, AlphaBlend
<1>10. BlendLuma(c, d) = LumaOver(c, d)
  <2> HIDE DEF q
  <2> QED BY <1>1, <1>4, <1>5, <1>6, <1>7, <1>8, <1>9 DEF Byte
<1> QED BY <1>7, <1>10

(* The chroma of a premultiplied colour is at most half of its alpha, and  *)
(* the tables of both planes give it.                                      *)
LEMMA ChromaWithinAlpha ==
  ASSUME NEW c \in Premultiplied
  PROVE  /\ U(c) \in Int /\ -c.a <= 2 * U(c) /\ 2 * U(c) <= c.a
         /\ V(c) \in Int /\ -c.a <= 2 * V(c) /\ 2 * V(c) <= c.a
         /\ ConvertBGRAToUBT601(c) = U(c)
         /\ ConvertBGRAToVBT601(c) = V(c)
<1>1. /\ c.r \in Int /\ c.g \in Int /\ c.b \in Int /\ c.a \in Int
      /\ 0 <= c.r /\ c.r <= c.a /\ 0 <= c.g /\ c.g <= c.a /\ 0 <= c.b /\ c.b <= c.a
      /\ c.a <= 255
  BY DEF Premultiplied, Colour, Byte
<1>2. c.r \in Byte /\ c.g \in Byte /\ c.b \in Byte BY DEF Premultiplied, Colour
<1> DEFINE u == -37 * c.r - 74 * c.g + 111 * c.b + 128
           v == 112 * c.r - 94 * c.g - 18 * c.b + 128
<1>3. /\ u \in Int /\ -111 * c.a + 128 <= u /\ u <= 111 * c.a + 128
      /\ v \in Int /\ -112 * c.a + 128 <= v /\ v <= 112 * c.a + 128
  BY <1>1
<1>4. u \div 256 \in Int /\ -c.a <= 2 * (u \div 256) /\ 2 * (u \div 256) <= c.a
  <2> HIDE DEF u
  <2> QED BY <1>1, <1>3
<1>5. v \div 256 \in Int /\ -c.a <= 2 * (v \div 256) /\ 2 * (v \div 256) <= c.a
  <2> HIDE DEF v
  <2> QED BY <1>1, <1>3
<1>6. U(c) = u \div 256 /\ V(c) = v \div 256 BY DEF U, V
<1>7. ConvertBGRAToUBT601(c) = u \div 256
  <2>1. /\ Table(-37, c.r) = -37 * c.r /\ Table(-74, c.g) = -74 * c.g
        /\ Table(111, c.b) = 111 * c.b
    BY <1>2, Tables
  <2>2. Table(-37, c.r) + Table(-74, c.g) + Table(111, c.b) + 128 = u BY <1>1, <2>1
  <2> QED BY <2>2 DEF ConvertBGRAToUBT601
<1>8. ConvertBGRAToVBT601(c) = v \div 256
  <2>1. /\ Table(112, c.r) = 112 * c.r /\ Table(-94, c.g) = -94 * c.g
        /\ Table(-18, c.b) = -18 * c.b
    BY <1>2, Tables
  <2>2. Table(112, c.r) + Table(-94, c.g) + Table(-18, c.b) + 128 = v BY <1>1, <2>1
  <2> QED BY <2>2 DEF ConvertBGRAToVBT601
<1> QED BY <1>4, <1>5, <1>6, <1>7, <1>8

(* Two chromas within their alphas over a byte of the frame give a byte.   *)
LEMMA ChromaOverIsByte ==
  ASSUME NEW a1 \in Byte, NEW a2 \in Byte, NEW d \in Byte,
         NEW u1 \in Int, NEW u2 \in Int,
         -a1 <= 2 * u1, 2 * u1 <= a1, -a2 <= 2 * u2, 2 * u2 <= a2
  PROVE  ChromaOver(u1, u2, a1, a2, d) \in Byte
<1> DEFINE fA == (a1 + a2) \div 2
           fU == (u1 + u2) \div 2
           q == (d - 128) * (255 - fA)
<1>1. a1 \in 0 .. 255 /\ a2 \in 0 .. 255 /\ d \in 0 .. 255 BY DEF Byte
<1>2. 255 - fA \in Byte BY <1>1 DEF Byte
<1>3. fA \in 0 .. 255 BY <1>1
<1>4. d * (255 - fA) \in Int /\ 0 <= d * (255 - fA) /\ d * (255 - fA) <= 255 * (255 - fA)
  <2> HIDE DEF fA
  <2> QED BY <1>2, Weighted
<1>5. q = d * (255 - fA) - 128 * (255 - fA)
  <2> HIDE DEF fA
  <2> QED BY <1>1, <1>3
<1>6. q \in Int /\ -128 * (255 - fA) <= q /\ q <= 127 * (255 - fA)
  <2> DEFINE p == d * (255 - fA)
  <2> HIDE DEF fA, q, p
  <2>1. p \in Int /\ 0 <= p /\ p <= 255 * (255 - fA) BY <1>4 DEF p
  <2>2. q = p - 128 * (255 - fA) BY <1>5 DEF p
  <2> QED BY <1>3, <2>1, <2>2
<1>7. fU \in Int /\ 128 + fU + q \div 256 \in 0 .. 255
  <2> HIDE DEF q
  <2> QED BY <1>1, <1>6
<1> QED BY <1>7 DEF ChromaOver, Byte

(* What is stored for chroma is the mean of the two pixels over the        *)
(* frame's byte, for every two premultiplied colours: although only the    *)
(* upper end is clamped, nothing below 0 is ever cast                      *)
(* (SubPicBlender.cpp:182-205 and 324-347).                                *)
THEOREM ChromaExact ==
  ASSUME NEW c1 \in Premultiplied, NEW c2 \in Premultiplied, NEW d \in Byte
  PROVE  /\ BlendChroma(ConvertBGRAToUBT601(c1), ConvertBGRAToUBT601(c2), c1.a, c2.a, d)
              = ChromaOver(U(c1), U(c2), c1.a, c2.a, d)
         /\ BlendChroma(ConvertBGRAToVBT601(c1), ConvertBGRAToVBT601(c2), c1.a, c2.a, d)
              = ChromaOver(V(c1), V(c2), c1.a, c2.a, d)
         /\ ChromaOver(U(c1), U(c2), c1.a, c2.a, d) \in Byte
         /\ ChromaOver(V(c1), V(c2), c1.a, c2.a, d) \in Byte
<1>1. c1.a \in Byte /\ c2.a \in Byte BY DEF Premultiplied, Colour
<1>2. ChromaOver(U(c1), U(c2), c1.a, c2.a, d) \in Byte
  BY <1>1, ChromaWithinAlpha, ChromaOverIsByte
<1>3. ChromaOver(V(c1), V(c2), c1.a, c2.a, d) \in Byte
  BY <1>1, ChromaWithinAlpha, ChromaOverIsByte
<1>4. ASSUME NEW a1 \in Byte, NEW a2 \in Byte,
             NEW u1 \in Int, NEW u2 \in Int,
             ChromaOver(u1, u2, a1, a2, d) \in Byte
      PROVE  BlendChroma(u1, u2, a1, a2, d) = ChromaOver(u1, u2, a1, a2, d)
  <2> DEFINE q == ((d - 128) * (255 - (a1 + a2) \div 2)) \div 256
             f == (u1 + u2) \div 2
  <2>1. 128 + f + q \in Byte BY <1>4 DEF ChromaOver
  <2>2. f \in Int BY <1>4
  <2>3. q \in Int
    <3>1. (a1 + a2) \div 2 \in Int BY DEF Byte
    <3>2. d \in Int BY DEF Byte
    <3>3. (d - 128) * (255 - (a1 + a2) \div 2) \in Int BY <3>1, <3>2
    <3> QED BY <3>3
  <2> HIDE DEF q, f
  <2>4. ToByte(min_nb(f + q + 128, 255)) = 128 + f + q
    BY <2>1, <2>2, <2>3 DEF ToByte, min_nb, Byte
  <2> QED BY <2>4 DEF BlendChroma, ChromaOver, q, f
<1> QED BY <1>1, <1>2, <1>3, <1>4, ChromaWithinAlpha

-----------------------------------------------------------------------------
(***************************************************************************)
(* Where the bytes are.  A buffer is a row after a row: each site has a    *)
(* row and a place in it, whatever the length of the rows.                 *)
(***************************************************************************)
LengthOf(f, w, i) ==
  IF f = "YV12" /\ i >= H THEN w \div 2 ELSE BytesPerPixel(f) * w

StartOf(f, w, i) ==
  IF f = "YV12" /\ i >= H THEN w * H + (w \div 2) * (i - H) ELSE BytesPerPixel(f) * w * i

Rows(f) ==
  CASE f = "NV12" -> H + H \div 2
    [] f = "YV12" -> 2 * H
    [] OTHER -> RowsOfBytes(f)

RowOf(f, site) ==
  CASE site[1] = "U" /\ f = "YV12" -> H + H \div 2 + site[3]
    [] site[1] = "V" \/ (site[1] = "U" /\ f = "NV12") -> H + site[3]
    [] OTHER -> site[3]

PlaceIn(f, site) ==
  CASE site[1] = "U" /\ f = "NV12" -> 2 * site[2]
    [] site[1] = "V" /\ f = "NV12" -> 2 * site[2] + 1
    [] OTHER -> site[2]

AllFormats == Planar \cup SixteenBit \cup {"YUY2", "AYUV"}
Width(w) == w \in Nat /\ w >= W /\ w % 2 = 0

(* What is twice or four times a number, divided again. *)
LEMMA Halves ==
  ASSUME NEW n \in Nat
  PROVE  (2 * n) \div 2 = n /\ (4 * n) \div 4 = n
OBVIOUS

(* Half of what is even. *)
LEMMA EvenHalf ==
  ASSUME NEW n \in Nat, n % 2 = 0
  PROVE  n \div 2 \in Nat /\ n = 2 * (n \div 2)
OBVIOUS

(* The sizes of the frame and of the outputs, and the formats. *)
LEMMA SizeFacts ==
  /\ W \in Nat \ {0} /\ H \in Nat \ {0}
  /\ H \div 2 \in Nat /\ H = 2 * (H \div 2)
  /\ \A w : Width(w) => w \in Nat /\ w \div 2 \in Nat /\ w = 2 * (w \div 2) /\ w > 0
  /\ Width(W)
  /\ \A w \in OutWidths : Width(w)
  /\ Formats \subseteq AllFormats
BY FrameCompositionAssumption, EvenHalf DEF Width, AllFormats

(* A longer list of rows has its later ones behind. *)
LEMMA Products ==
  ASSUME NEW a \in Nat, NEW b \in Nat, NEW c \in Nat
  PROVE  /\ a * b \in Nat
         /\ b < c => a * b + a <= a * c
         /\ b <= c => a * b <= a * c
<1>1. a * b \in Nat
  OBVIOUS
<1>2. ASSUME b <= c PROVE a * b <= a * c
  <2>1. PICK d \in Nat : c = b + d
    BY <1>2
  <2>2. a * c = a * b + a * d /\ a * d \in Nat
    BY <2>1
  <2> QED
    BY <1>1, <2>2
<1>3. ASSUME b < c PROVE a * b + a <= a * c
  <2>1. PICK d \in Nat : c = b + 1 + d
    <3>1. c - b - 1 \in Nat /\ c = b + 1 + (c - b - 1)
      BY <1>3
    <3> QED
      BY <3>1
  <2>2. a * c = a * b + a + a * d /\ a * d \in Nat
    BY <2>1
  <2> QED
    BY <1>1, <2>2
<1> QED
  BY <1>1, <1>2, <1>3

(* Each row ends before the next begins. *)
LEMMA RowsFollow ==
  ASSUME NEW f \in AllFormats, NEW w, Width(w), NEW i \in Nat, NEW j \in Nat, i < j
  PROVE  /\ StartOf(f, w, i) \in Nat /\ LengthOf(f, w, i) \in Nat
         /\ StartOf(f, w, i) + LengthOf(f, w, i) <= StartOf(f, w, j)
<1>1. w \in Nat /\ w \div 2 \in Nat /\ w = 2 * (w \div 2) /\ H \in Nat
  BY SizeFacts
<1> DEFINE b == BytesPerPixel(f) * w
<1>2. b \in Nat
  BY <1>1 DEF BytesPerPixel
<1>3. CASE f # "YV12" \/ j < H
  <2>1. StartOf(f, w, i) = b * i /\ LengthOf(f, w, i) = b /\ StartOf(f, w, j) = b * j
    BY <1>1, <1>3 DEF StartOf, LengthOf
  <2> HIDE DEF b
  <2> QED
    BY <1>2, <2>1, Products
<1>4. CASE f = "YV12" /\ j >= H
  <2> DEFINE u == w \div 2
  <2>1. b = w
    BY <1>1, <1>4 DEF BytesPerPixel, Planar
  <2>2. StartOf(f, w, j) = w * H + u * (j - H) /\ j - H \in Nat
    BY <1>1, <1>4 DEF StartOf
  <2>3. CASE i >= H
    <3>1. StartOf(f, w, i) = w * H + u * (i - H) /\ LengthOf(f, w, i) = u /\ i - H \in Nat
      BY <1>1, <1>4, <2>3 DEF StartOf, LengthOf
    <3>2. u * (i - H) + u <= u * (j - H) /\ u * (i - H) \in Nat /\ u * (j - H) \in Nat
      /\ w * H \in Nat
      BY <1>1, <2>2, <3>1, Products
    <3> DEFINE A == u * (i - H)
               B == w * H
               C == u * (j - H)
    <3>3. /\ StartOf(f, w, i) = B + A /\ LengthOf(f, w, i) = u /\ StartOf(f, w, j) = B + C
          /\ A + u <= C /\ A \in Nat /\ B \in Nat /\ C \in Nat /\ u \in Nat
      BY <1>1, <2>2, <3>1, <3>2
    <3> HIDE DEF A, B, C, u
    <3> QED
      BY <3>3
  <2>4. CASE i < H
    <3>1. StartOf(f, w, i) = w * i /\ LengthOf(f, w, i) = w
      BY <1>1, <1>4, <2>1, <2>4 DEF StartOf, LengthOf
    <3>2. w * i + w <= w * H /\ w * i \in Nat /\ w * H \in Nat /\ u * (j - H) \in Nat
      BY <1>1, <2>2, <2>4, Products
    <3> DEFINE A == w * i
               B == w * H
               C == u * (j - H)
    <3>3. /\ StartOf(f, w, i) = A /\ LengthOf(f, w, i) = w /\ StartOf(f, w, j) = B + C
          /\ A + w <= B /\ A \in Nat /\ B \in Nat /\ C \in Nat /\ w \in Nat
      BY <1>1, <2>2, <3>1, <3>2
    <3> HIDE DEF A, B, C
    <3> QED
      BY <3>3
  <2> QED
    BY <1>1, <2>3, <2>4
<1> QED
  BY <1>1, <1>3, <1>4

(* All rows are in a buffer of the size that CorrectVideoMediaType sets. *)
LEMMA RowsFit ==
  ASSUME NEW f \in AllFormats, NEW w, Width(w)
  PROVE  /\ Rows(f) \in Nat \ {0} /\ SizeImage(f, w) \in Nat
         /\ StartOf(f, w, Rows(f)) <= SizeImage(f, w)
<1>1. w \in Nat /\ w \div 2 \in Nat /\ w = 2 * (w \div 2)
      /\ H \in Nat \ {0} /\ H \div 2 \in Nat /\ H = 2 * (H \div 2)
  BY SizeFacts
<1> DEFINE h == H \div 2
           v == w \div 2
<1>2. CASE f = "NV12"
  <2>1. Rows(f) = H + h /\ StartOf(f, w, H + h) = w * (H + h) /\ SizeImage(f,
       w) = (H * w * 3) \div 2
    BY <1>1, <1>2 DEF Rows, StartOf, SizeImage, Planar, BytesPerPixel
  <2>2. H * w * 3 = 2 * (w * h * 3) /\ w * h * 3 \in Nat /\ w * (H + h) = w * h * 3
    <3> HIDE DEF h
    <3> QED
      BY <1>1 DEF h
  <2> QED
    BY <1>1, <2>1, <2>2, Halves
<1>3. CASE f = "YV12"
  <2>1. Rows(f) = 2 * H /\ StartOf(f, w, 2 * H) = w * H + v * (2 * H - H)
        /\ SizeImage(f, w) = (H * w * 3) \div 2
    BY <1>1, <1>3 DEF Rows, StartOf, SizeImage, Planar
  <2>2. H * w * 3 = 2 * (H * v * 3) /\ H * v * 3 \in Nat /\ w * H + v * (2 * H - H) = H * v * 3
    <3> HIDE DEF v
    <3> QED
      BY <1>1 DEF v
  <2> QED
    BY <1>1, <2>1, <2>2, Halves
<1>4. CASE f \in {"P010", "P016"}
  <2>1. Rows(f) = H + h /\ StartOf(f, w, H + h) = 2 * w * (H + h) /\ SizeImage(f, w) = H * w * 3
    BY <1>1, <1>4 DEF Rows, RowsOfBytes, StartOf, SizeImage, Planar, BytesPerPixel
  <2>2. H * w * 3 = 2 * w * (H + h) /\ H * w * 3 \in Nat
    <3> HIDE DEF h
    <3> QED
      BY <1>1 DEF h
  <2> QED
    BY <1>1, <2>1, <2>2
<1>5. CASE f \in {"P210", "P216"}
  <2>1. Rows(f) = 2 * H /\ StartOf(f, w, 2 * H) = 2 * w * (2 * H) /\ SizeImage(f, w) = H * w * 4
    BY <1>1, <1>5 DEF Rows, RowsOfBytes, StartOf, SizeImage, Planar, BytesPerPixel
  <2> QED
    BY <1>1, <2>1
<1>6. CASE f \in {"YUY2", "AYUV"}
  <2>1. Rows(f) = H /\ StartOf(f, w, H) = (IF f = "AYUV" THEN 4 ELSE 2) * w * H
        /\ SizeImage(f, w) = H * w * (IF f = "AYUV" THEN 4 ELSE 2)
    BY <1>1, <1>6 DEF Rows, RowsOfBytes, StartOf, SizeImage, Planar, BytesPerPixel
  <2> QED
    BY <1>1, <1>6, <2>1
<1> QED
  BY <1>2, <1>3, <1>4, <1>5, <1>6 DEF AllFormats, Planar, SixteenBit

(* No two rows share an address. *)
LEMMA RowsApart ==
  ASSUME NEW f \in AllFormats, NEW w, Width(w), NEW i \in Nat, NEW j \in Nat,
         NEW a \in 0 .. LengthOf(f, w, i) - 1, NEW b \in 0 .. LengthOf(f, w, j) - 1,
         StartOf(f, w, i) + a = StartOf(f, w, j) + b
  PROVE  i = j /\ a = b
<1>1. /\ i < j => StartOf(f, w, i) + LengthOf(f, w, i) <= StartOf(f, w, j)
      /\ j < i => StartOf(f, w, j) + LengthOf(f, w, j) <= StartOf(f, w, i)
      /\ StartOf(f, w, i) \in Nat /\ LengthOf(f, w, i) \in Nat
      /\ StartOf(f, w, j) \in Nat /\ LengthOf(f, w, j) \in Nat
  <2>1. i < i + 1 /\ j < j + 1 /\ i + 1 \in Nat /\ j + 1 \in Nat
    OBVIOUS
  <2> QED
    BY <2>1, RowsFollow
<1>2. i = j
  BY <1>1
<1> QED
  BY <1>1, <1>2

(* The sites of a planar format, by plane, and of the others. *)
LEMMA SiteFacts ==
  ASSUME NEW f \in AllFormats, NEW site \in Sites(f)
  PROVE  /\ site = <<site[1], site[2], site[3]>> /\ site[2] \in Nat /\ site[3] \in Nat
         /\ \/ f \in Planar /\ site[1] = "Y" /\ site[2] < W /\ site[3] < H
            \/ f \in Planar /\ site[1] \in {"U", "V"} /\ site[2] < W \div 2
              /\ site[3] < H \div 2
            \/ /\ f \notin Planar /\ site[1] = "rows"
               /\ site[2] < BytesPerPixel(f) * W /\ site[3] < RowsOfBytes(f)
<1>1. W \in Nat /\ H \in Nat /\ W \div 2 \in Nat /\ H \div 2 \in Nat
  BY SizeFacts
<1>2. BytesPerPixel(f) * W \in Nat /\ RowsOfBytes(f) \in Nat
  BY <1>1 DEF BytesPerPixel, RowsOfBytes
<1>3. CASE f \in Planar
  <2>1. site \in {"Y"} \X (0 .. W - 1) \X (0 .. H - 1)
        \/ site \in {"U", "V"} \X (0 .. W \div 2 - 1) \X (0 .. H \div 2 - 1)
    BY <1>3 DEF Sites
  <2> QED
    BY <1>1, <1>3, <2>1
<1>4. CASE f \notin Planar
  <2>1. site \in {"rows"} \X (0 .. BytesPerPixel(f) * W - 1) \X (0 .. RowsOfBytes(f) - 1)
    BY <1>4 DEF Sites
  <2> HIDE DEF Sites
  <2> DEFINE m == BytesPerPixel(f) * W
             n == RowsOfBytes(f)
  <2>2. site[1] = "rows" /\ site[2] \in 0 .. m - 1 /\ site[3] \in 0 .. n - 1
        /\ site = <<site[1], site[2], site[3]>> /\ m \in Nat /\ n \in Nat
    BY <1>2, <2>1
  <2> HIDE DEF m, n
  <2>3. site[2] \in Nat /\ site[3] \in Nat /\ site[2] < m /\ site[3] < n
    BY <2>2
  <2> QED
    BY <1>4, <2>2, <2>3 DEF m, n
<1> QED
  BY <1>3, <1>4

(* Every site is in a row. *)
LEMMA SitesInRows ==
  ASSUME NEW f \in AllFormats, NEW w, Width(w), NEW site \in Sites(f)
  PROVE  /\ RowOf(f, site) \in 0 .. Rows(f) - 1
         /\ PlaceIn(f, site) \in 0 .. LengthOf(f, W, RowOf(f, site)) - 1
         /\ AddressOf(f, w, site) = StartOf(f, w, RowOf(f, site)) + PlaceIn(f, site)
<1>1. /\ W \in Nat /\ W \div 2 \in Nat /\ W = 2 * (W \div 2)
      /\ w \in Nat /\ w \div 2 \in Nat /\ w = 2 * (w \div 2)
      /\ H \in Nat /\ H \div 2 \in Nat /\ H = 2 * (H \div 2)
  BY SizeFacts
<1> DEFINE c == site[1]
           x == site[2]
           y == site[3]
           h == H \div 2
           v == w \div 2
<1>2. x \in Nat /\ y \in Nat
  BY SiteFacts
<1>3. CASE f \in Planar /\ c = "Y"
  <2>1. x < W /\ y < H
    BY <1>3, SiteFacts DEF Planar
  <2>2. RowOf(f, site) = y /\ PlaceIn(f, site) = x
    BY <1>3 DEF RowOf, PlaceIn
  <2>3. Rows(f) \in Nat /\ Rows(f) >= H
    BY <1>1, <1>3 DEF Rows, Planar
  <2>4. LengthOf(f, W, y) = W /\ StartOf(f, w, y) = w * y /\ AddressOf(f, w, site) = w * y + x
    <3>1. BytesPerPixel(f) = 1 /\ ~ (y >= H)
      BY <1>1, <1>2, <1>3, <2>1 DEF BytesPerPixel, Planar
    <3>2. LengthOf(f, W, y) = 1 * W /\ StartOf(f, w, y) = 1 * w * y
      BY <3>1 DEF LengthOf, StartOf
    <3>3. 1 * W = W /\ 1 * w * y = w * y
      BY <1>1, <1>2
    <3>4. AddressOf(f, w, site) = w * y + x
      BY <1>3 DEF AddressOf
    <3> QED
      BY <3>2, <3>3, <3>4
  <2> QED
    BY <1>1, <1>2, <2>1, <2>2, <2>3, <2>4
<1>4. CASE f = "NV12" /\ c \in {"U", "V"}
  <2>1. x < W \div 2 /\ y < h
    BY <1>4, SiteFacts DEF Planar
  <2>2. RowOf(f, site) = H + y /\ PlaceIn(f, site) = 2 * x + (IF c = "U" THEN 0 ELSE 1)
    BY <1>1, <1>2, <1>4 DEF RowOf, PlaceIn
  <2>3. Rows(f) = H + h
    BY <1>4 DEF Rows
  <2>4. LengthOf(f, W, H + y) = W /\ StartOf(f, w, H + y) = w * (H + y)
        /\ AddressOf(f, w, site) = w * H + w * y + 2 * x + (IF c = "U" THEN 0 ELSE 1)
    BY <1>1, <1>2, <1>4 DEF LengthOf, StartOf, AddressOf, BytesPerPixel, Planar
  <2>5. w * (H + y) = w * H + w * y /\ w * H \in Nat /\ w * y \in Nat
    <3>1. w \in Nat /\ H \in Nat /\ y \in Nat
      BY <1>1, <1>2
    <3> HIDE DEF y
    <3> QED
      BY <3>1
  <2> QED
    BY <1>1, <1>2, <2>1, <2>2, <2>3, <2>4, <2>5
<1>5. CASE f = "YV12" /\ c \in {"U", "V"}
  <2>1. x < W \div 2 /\ y < h
    BY <1>5, SiteFacts DEF Planar
  <2>2. RowOf(f, site) = H + (IF c = "U" THEN h ELSE 0) + y /\ PlaceIn(f, site) = x
    BY <1>1, <1>2, <1>5 DEF RowOf, PlaceIn
  <2>3. Rows(f) = 2 * H
    BY <1>5 DEF Rows
  <2>4. LengthOf(f, W, H + y) = W \div 2 /\ LengthOf(f, W, H + h + y) = W \div 2
        /\ StartOf(f, w, H + y) = w * H + v * y
        /\ StartOf(f, w, H + h + y) = w * H + v * (h + y)
    BY <1>1, <1>2, <1>5 DEF LengthOf, StartOf
  <2>5. AddressOf(f, w, site) =
          w * H + (IF c = "U" THEN (w * H) \div 4 ELSE 0) + v * y + x
    BY <1>1, <1>2, <1>5 DEF AddressOf
  <2>6. (w * H) \div 4 = v * h
    <3>1. w * H = 4 * (v * h) /\ v * h \in Nat
      <4> HIDE DEF v, h
      <4> QED
        BY <1>1 DEF v, h
    <3> QED
      BY <3>1, Halves
  <2>7. v * (h + y) = v * h + v * y /\ v * h \in Nat /\ v * y \in Nat /\ w * H \in Nat
    <3> HIDE DEF v, h
    <3> QED
      BY <1>1, <1>2 DEF v, h
  <2>8. CASE c = "U"
    <3>1. RowOf(f, site) = H + h + y
      BY <2>2, <2>8
    <3> QED
      BY <1>1, <1>2, <2>1, <2>2, <2>3, <2>4, <2>5, <2>6, <2>7, <2>8, <3>1
  <2>9. CASE c = "V"
    <3>1. RowOf(f, site) = H + y
      BY <1>1, <1>2, <2>2, <2>9
    <3> QED
      BY <1>1, <1>2, <2>1, <2>2, <2>3, <2>4, <2>5, <2>9, <3>1
  <2> QED
    BY <1>5, <2>8, <2>9
<1>6. CASE f \notin Planar
  <2>1. c = "rows" /\ x < BytesPerPixel(f) * W /\ y < RowsOfBytes(f)
    BY <1>6, SiteFacts
  <2>2. RowOf(f, site) = y /\ PlaceIn(f, site) = x /\ Rows(f) = RowsOfBytes(f)
    BY <1>6, <2>1 DEF RowOf, PlaceIn, Rows, Planar
  <2>3. LengthOf(f, W, y) = BytesPerPixel(f) * W /\ StartOf(f, w, y) = BytesPerPixel(f) * w * y
        /\ AddressOf(f, w, site) = BytesPerPixel(f) * w * y + x
    BY <1>6, <2>1 DEF LengthOf, StartOf, AddressOf, Planar
  <2>4. BytesPerPixel(f) * W \in Nat /\ RowsOfBytes(f) \in Nat
    BY <1>1 DEF BytesPerPixel, RowsOfBytes
  <2> QED
    BY <1>2, <2>1, <2>2, <2>3, <2>4
<1> QED
  <2>1. f \in Planar => c \in {"Y", "U", "V"}
    BY SiteFacts
  <2> QED
    BY <1>3, <1>4, <1>5, <1>6, <2>1 DEF Planar

(* No two sites have the same place in the same row. *)
LEMMA SitesApart ==
  ASSUME NEW f \in AllFormats, NEW s \in Sites(f), NEW t \in Sites(f),
         RowOf(f, s) = RowOf(f, t), PlaceIn(f, s) = PlaceIn(f, t)
  PROVE  s = t
<1>1. H \in Nat /\ H \div 2 \in Nat
  BY SizeFacts
<1>2. /\ s = <<s[1], s[2], s[3]>> /\ s[2] \in Nat /\ s[3] \in Nat
      /\ t = <<t[1], t[2], t[3]>> /\ t[2] \in Nat /\ t[3] \in Nat
  BY SiteFacts
<1>3. CASE f \notin Planar
  <2>1. s[1] = "rows" /\ t[1] = "rows"
    BY <1>3, SiteFacts
  <2> QED
    BY <1>2, <2>1 DEF RowOf, PlaceIn
<1>4. CASE f \in Planar
  <2>1. /\ (s[1] = "Y" /\ s[3] < H) \/ (s[1] \in {"U", "V"} /\ s[3] < H \div 2)
        /\ (t[1] = "Y" /\ t[3] < H) \/ (t[1] \in {"U", "V"} /\ t[3] < H \div 2)
    BY <1>4, SiteFacts
  <2>2. CASE f = "NV12"
    BY <1>1, <1>2, <2>1, <2>2 DEF RowOf, PlaceIn
  <2>3. CASE f = "YV12"
    BY <1>1, <1>2, <2>1, <2>3 DEF RowOf, PlaceIn
  <2> QED
    BY <1>4, <2>2, <2>3 DEF Planar
<1> QED
  BY <1>3, <1>4

(* A row of the output is at least as long as the input's. *)
LEMMA RowsGrow ==
  ASSUME NEW f \in AllFormats, NEW w, Width(w), NEW i
  PROVE  LengthOf(f, W, i) <= LengthOf(f, w, i) /\ LengthOf(f, W, i) \in Nat
         /\ LengthOf(f, w, i) \in Nat
BY SizeFacts DEF LengthOf, BytesPerPixel, Width

(* Every site has an address of its own, inside of the buffer. *)
LEMMA AddressesApart ==
  ASSUME NEW f \in AllFormats, NEW w, Width(w), NEW s \in Sites(f)
  PROVE  /\ AddressOf(f, w, s) \in 0 .. SizeImage(f, w) - 1
         /\ \A t \in Sites(f) : AddressOf(f, w, s) = AddressOf(f, w, t) => s = t
<1>1. \A i \in Nat : LengthOf(f, W, i) <= LengthOf(f, w, i) /\ LengthOf(f, W, i) \in Nat
                     /\ LengthOf(f, w, i) \in Nat
  BY RowsGrow
<1> DEFINE Row(t) == RowOf(f, t)
           Place(t) == PlaceIn(f, t)
<1>2. ASSUME NEW t \in Sites(f)
      PROVE  /\ Row(t) \in 0 .. Rows(f) - 1 /\ Row(t) \in Nat
             /\ Place(t) \in 0 .. LengthOf(f, w, Row(t)) - 1
             /\ AddressOf(f, w, t) = StartOf(f, w, Row(t)) + Place(t)
  <2>1. /\ Row(t) \in 0 .. Rows(f) - 1
        /\ Place(t) \in 0 .. LengthOf(f, W, Row(t)) - 1
        /\ AddressOf(f, w, t) = StartOf(f, w, Row(t)) + Place(t)
    BY SitesInRows
  <2>2. Row(t) \in Nat
    BY <2>1, RowsFit
  <2> HIDE DEF Row, Place
  <2> QED
    BY <1>1, <2>1, <2>2
<1>3. AddressOf(f, w, s) \in 0 .. SizeImage(f, w) - 1
  <2>1. /\ StartOf(f, w, Row(s)) \in Nat /\ LengthOf(f, w, Row(s)) \in Nat
        /\ StartOf(f, w, Row(s)) + LengthOf(f, w, Row(s)) <= StartOf(f, w, Rows(f))
    <3>1. Row(s) < Rows(f) /\ Rows(f) \in Nat
      BY <1>2, RowsFit
    <3> QED
      BY <1>2, <3>1, RowsFollow
  <2>2. StartOf(f, w, Rows(f)) <= SizeImage(f, w) /\ SizeImage(f, w) \in Nat
    BY RowsFit
  <2>3. StartOf(f, w, Rows(f)) \in Nat
    <3>1. Rows(f) \in Nat /\ Rows(f) + 1 \in Nat /\ Rows(f) < Rows(f) + 1
      BY RowsFit
    <3> QED
      BY <3>1, RowsFollow
  <2> HIDE DEF Row, Place
  <2> QED
    BY <1>2, <2>1, <2>2, <2>3
<1>4. ASSUME NEW t \in Sites(f), AddressOf(f, w, s) = AddressOf(f, w, t)
      PROVE  s = t
  <2>1. Row(s) = Row(t) /\ Place(s) = Place(t)
    BY <1>2, <1>4, RowsApart
  <2> QED
    BY <2>1, SitesApart
<1> QED
  BY <1>3, <1>4

(* An input frame has every site's byte at the site's address. *)
LEMMA InputSites ==
  ASSUME NEW f \in Formats
  PROVE  /\ DOMAIN InputFrame[f] = 0 .. SizeImage(f, W) - 1
         /\ \A s \in Sites(f) :
              InputFrame[f][AddressOf(f, W, s)] = [site |-> s, byte |-> FrameByte[s]]
<1>1. f \in AllFormats /\ Width(W)
  BY SizeFacts
<1> DEFINE At0(address) == CHOOSE s \in Sites(f) : AddressOf(f, W, s) = address
<1>2. InputFrame[f] = [address \in 0 .. SizeImage(f, W) - 1 |->
                         [site |-> At0(address), byte |-> FrameByte[At0(address)]]]
  BY DEF InputFrame
<1>3. ASSUME NEW s \in Sites(f)
      PROVE  InputFrame[f][AddressOf(f, W, s)] = [site |-> s, byte |-> FrameByte[s]]
  <2>1. /\ AddressOf(f, W, s) \in 0 .. SizeImage(f, W) - 1
        /\ \A t \in Sites(f) : AddressOf(f, W, s) = AddressOf(f, W, t) => s = t
    BY <1>1, AddressesApart
  <2>2. At0(AddressOf(f, W, s)) = s
    BY <2>1
  <2> QED
    BY <1>2, <2>1, <2>2
<1> QED
  BY <1>2, <1>3

-----------------------------------------------------------------------------
(* CopyBuffer's rows are the format's rows.                                *)
Measured ==
  /\ format \in Formats /\ outWidth \in OutWidths
  /\ stride = ComputeStrides(format, outWidth)

(* A product divided by a factor. *)
LEMMA Quotient ==
  ASSUME NEW a \in Nat \ {0}, NEW b \in Nat
  PROVE  (a * b) \div a = b
<1> DEFINE q == (a * b) \div a
<1>1. q \in Int /\ a * q <= a * b /\ a * b < a * q + a
  OBVIOUS
<1>2. q \in Nat
  <2>1. a * b >= 0
    OBVIOUS
  <2>2. ASSUME q < 0 PROVE FALSE
    <3>1. a * (q + 1) <= 0 /\ a * (q + 1) = a * q + a
      BY <1>1, <2>2
    <3> QED
      BY <1>1, <2>1, <3>1
  <2> QED
    BY <1>1, <2>2
<1> HIDE DEF q
<1>3. /\ b < q => a * b + a <= a * q
      /\ q < b => a * q + a <= a * b
  BY <1>2, Products
<1>4. a * b \in Nat /\ a * q \in Nat /\ a \in Nat /\ a > 0
  BY <1>2
<1>5. ~ (b < q) /\ ~ (q < b)
  <2> DEFINE A == a * b
             B == a * q
  <2>1. A \in Nat /\ B \in Nat /\ B <= A /\ A < B + a
        /\ (b < q => A + a <= B) /\ (q < b => B + a <= A)
    BY <1>1, <1>3, <1>4
  <2> HIDE DEF A, B
  <2> QED
    BY <1>4, <2>1
<1>6. q = b
  BY <1>2, <1>5
<1> QED
  BY <1>6 DEF q

(* RowAt and RowsToCopy give the rows of the format, input's and output's. *)
LEMMA RowsAreCopied ==
  ASSUME Measured
  PROVE  /\ RowsToCopy = Rows(format)
         /\ \A i \in 0 .. Rows(format) - 1 :
              RowAt(i) = [from |-> StartOf(format, W, i), to |-> StartOf(format, outWidth, i),
                          length |-> LengthOf(format, W, i)]
<1> DEFINE o == outWidth
           h == H \div 2
           u == W \div 2
           v == o \div 2
<1>1. /\ format \in AllFormats /\ stride = ComputeStrides(format, o)
      /\ W \in Nat \ {0} /\ u \in Nat \ {0} /\ W = 2 * u
      /\ o \in Nat \ {0} /\ v \in Nat /\ o = 2 * v
      /\ H \in Nat \ {0} /\ h \in Nat /\ H = 2 * h
  BY SizeFacts DEF Measured
<1> HIDE DEF o, h, u, v
<1>2. CASE format \in SixteenBit
  <2>1. stride.inY = W * 2 /\ stride.outY = o * 2 /\ BytesPerPixel(format) = 2
    BY <1>1, <1>2 DEF ComputeStrides, SixteenBit, Planar, BytesPerPixel
  <2>2. RowsToCopy = Rows(format)
    <3>1. CASE format \in {"P010", "P016"}
      <4>1. Rows(format) = H + h /\ SizeImage(format, W) = H * W * 3
        <5>1. format = "P010" \/ format = "P016"
          BY <3>1
        <5> QED
          BY <5>1 DEF Rows, RowsOfBytes, SizeImage, Planar, h
      <4>2. H * W * 3 = (W * 2) * (H + h) /\ W * 2 \in Nat \ {0} /\ H + h \in Nat
        BY <1>1
      <4>3. RowsToCopy = (H * W * 3) \div (W * 2)
        BY <1>2, <2>1, <4>1 DEF RowsToCopy
      <4> QED
        BY <4>1, <4>2, <4>3, Quotient
    <3>2. CASE format \in {"P210", "P216"}
      <4>1. Rows(format) = 2 * H /\ SizeImage(format, W) = H * W * 4
        <5>1. format = "P210" \/ format = "P216"
          BY <3>2
        <5> QED
          BY <5>1 DEF Rows, RowsOfBytes, SizeImage, Planar
      <4>2. H * W * 4 = (W * 2) * (2 * H) /\ W * 2 \in Nat \ {0} /\ 2 * H \in Nat
        BY <1>1
      <4>3. RowsToCopy = (H * W * 4) \div (W * 2)
        BY <1>2, <2>1, <4>1 DEF RowsToCopy
      <4> QED
        BY <4>1, <4>2, <4>3, Quotient
    <3> QED
      BY <1>2, <3>1, <3>2 DEF SixteenBit
  <2>3. ASSUME NEW i \in 0 .. Rows(format) - 1
        PROVE  RowAt(i) = [from |-> StartOf(format, W, i), to |-> StartOf(format, o, i),
                           length |-> LengthOf(format, W, i)]
    <3>1. StartOf(format, W, i) = 2 * W * i /\ StartOf(format, o, i) = 2 * o * i
          /\ LengthOf(format, W, i) = 2 * W
      BY <1>2, <2>1 DEF StartOf, LengthOf, SixteenBit
    <3>2. RowAt(i) = [from |-> W * 2 * i, to |-> o * 2 * i, length |-> W * 2]
      BY <1>2, <2>1 DEF RowAt
    <3>3. W * 2 * i = 2 * W * i /\ o * 2 * i = 2 * o * i /\ W * 2 = 2 * W
      BY <1>1
    <3> QED
      BY <3>1, <3>2, <3>3
  <2> QED
    BY <2>2, <2>3 DEF o
<1>3. CASE format \in {"YUY2", "AYUV"}
  <2> DEFINE k == BytesPerPixel(format)
  <2>1. k \in Nat /\ stride.inY = W * k /\ stride.outY = o * k /\ stride.inUV = 1
        /\ format \notin SixteenBit
    BY <1>1, <1>3 DEF ComputeStrides, SixteenBit, Planar, BytesPerPixel
  <2>2. Rows(format) = H /\ RowsToCopy = H
    <3>1. Rows(format) = H /\ SizeImage(format, W) = H * W * k
      BY <1>3 DEF Rows, RowsOfBytes, SizeImage, BytesPerPixel, Planar
    <3>2. RowsToCopy = H + (H * W * k - W * k * H) \div 1
      BY <2>1, <3>1 DEF RowsToCopy, ChromaRowsToCopy
    <3> HIDE DEF k
    <3>3. H * W * k = W * k * H /\ H * W * k \in Nat
      BY <1>1, <2>1
    <3>4. (H * W * k - W * k * H) \div 1 = 0
      BY <3>3
    <3> QED
      BY <1>1, <3>1, <3>2, <3>4
  <2>3. ASSUME NEW i \in 0 .. Rows(format) - 1
        PROVE  RowAt(i) = [from |-> StartOf(format, W, i), to |-> StartOf(format, o, i),
                           length |-> LengthOf(format, W, i)]
    <3>1. StartOf(format, W, i) = k * W * i /\ StartOf(format, o, i) = k * o * i
          /\ LengthOf(format, W, i) = k * W /\ i \in Nat /\ i < H
      BY <1>1, <1>3, <2>2 DEF StartOf, LengthOf
    <3>2. RowAt(i) = [from |-> W * k * i, to |-> o * k * i, length |-> W * k]
      BY <2>1, <3>1 DEF RowAt
    <3> HIDE DEF k
    <3>3. W * k * i = k * W * i /\ o * k * i = k * o * i /\ W * k = k * W
      BY <1>1, <2>1, <3>1
    <3> QED
      BY <3>1, <3>2, <3>3
  <2> QED
    BY <2>2, <2>3 DEF o
<1>4. CASE format = "NV12"
  <2>1. stride.inY = W * 1 /\ stride.outY = o * 1 /\ stride.inUV = W * 1 /\ stride.outUV = o * 1
        /\ format \notin SixteenBit /\ BytesPerPixel(format) = 1
    BY <1>1, <1>4 DEF ComputeStrides, SixteenBit, Planar, BytesPerPixel
  <2>2. W * 1 = W /\ o * 1 = o
    BY <1>1
  <2>3. Rows(format) = H + h /\ RowsToCopy = H + h
    <3>1. Rows(format) = H + h /\ SizeImage(format, W) = (H * W * 3) \div 2
      BY <1>4 DEF Rows, SizeImage, Planar, h
    <3>2. H * W * 3 = 2 * (W * h * 3) /\ W * h * 3 \in Nat /\ W * h * 3 - W * H = W * h
      BY <1>1
    <3>3. (H * W * 3) \div 2 - W * H = W * h
      BY <3>2, Halves
    <3>4. (W * h) \div W = h
      BY <1>1, Quotient
    <3> QED
      BY <2>1, <2>2, <3>1, <3>3, <3>4 DEF RowsToCopy, ChromaRowsToCopy
  <2>4. ASSUME NEW i \in 0 .. Rows(format) - 1
        PROVE  RowAt(i) = [from |-> StartOf(format, W, i), to |-> StartOf(format, o, i),
                           length |-> LengthOf(format, W, i)]
    <3>1. i \in Nat
      BY <1>1, <2>3
    <3>2. StartOf(format, W, i) = W * i /\ StartOf(format, o, i) = o * i
          /\ LengthOf(format, W, i) = W
      BY <1>1, <1>4, <2>1, <3>1 DEF StartOf, LengthOf
    <3>3. W * H + W * (i - H) = W * i /\ o * H + o * (i - H) = o * i
      BY <1>1, <3>1
    <3> QED
      BY <2>1, <2>2, <3>2, <3>3 DEF RowAt
  <2> QED
    BY <2>3, <2>4 DEF o
<1>5. CASE format = "YV12"
  <2>1. stride.inY = W * 1 /\ stride.outY = o * 1 /\ stride.inUV = (W * 1) \div 2
        /\ stride.outUV = (o * 1) \div 2
        /\ format \notin SixteenBit /\ BytesPerPixel(format) = 1
    BY <1>1, <1>5 DEF ComputeStrides, SixteenBit, Planar, BytesPerPixel
  <2>2. W * 1 = W /\ o * 1 = o /\ (W * 1) \div 2 = u /\ (o * 1) \div 2 = v
    BY <1>1 DEF u, v
  <2>3. Rows(format) = 2 * H /\ RowsToCopy = 2 * H
    <3>1. Rows(format) = 2 * H /\ SizeImage(format, W) = (H * W * 3) \div 2
      BY <1>5 DEF Rows, SizeImage, Planar
    <3>2. H * W * 3 = 2 * (u * H * 3) /\ u * H * 3 \in Nat /\ u * H * 3 - W * H = u * H
      BY <1>1
    <3>3. (H * W * 3) \div 2 - W * H = u * H
      BY <3>2, Halves
    <3>4. (u * H) \div u = H
      BY <1>1, Quotient
    <3>5. RowsToCopy = H + H
      BY <2>1, <2>2, <3>1, <3>3, <3>4 DEF RowsToCopy, ChromaRowsToCopy
    <3> QED
      BY <1>1, <3>1, <3>5
  <2>4. ASSUME NEW i \in 0 .. Rows(format) - 1
        PROVE  RowAt(i) = [from |-> StartOf(format, W, i), to |-> StartOf(format, o, i),
                           length |-> LengthOf(format, W, i)]
    <3>1. i \in Nat
      BY <1>1, <2>3
    <3>2. CASE i < H
      <4>1. ~ (i >= H)
        BY <1>1, <3>1, <3>2
      <4>2. StartOf(format, W, i) = 1 * W * i /\ StartOf(format, o, i) = 1 * o * i
            /\ LengthOf(format, W, i) = 1 * W
        BY <2>1, <4>1 DEF StartOf, LengthOf
      <4>3. 1 * W * i = W * i /\ 1 * o * i = o * i /\ 1 * W = W
        BY <1>1, <3>1
      <4> QED
        BY <2>1, <2>2, <3>2, <4>2, <4>3 DEF RowAt
    <3>3. CASE i >= H
      <4>1. ~ (i < H)
        BY <1>1, <3>1, <3>3
      <4>2. StartOf(format, W, i) = W * H + u * (i - H) /\ LengthOf(format, W, i) = u
            /\ StartOf(format, o, i) = o * H + v * (i - H)
        BY <1>5, <3>3 DEF StartOf, LengthOf, u, v
      <4> QED
        BY <2>1, <2>2, <4>1, <4>2 DEF RowAt
    <3> QED
      BY <1>1, <3>1, <3>2, <3>3
  <2> QED
    BY <2>3, <2>4 DEF o
<1> QED
  BY <1>1, <1>2, <1>3, <1>4, <1>5 DEF AllFormats, Planar, SixteenBit

-----------------------------------------------------------------------------
(***************************************************************************)
(* The places of a picture's bytes.                                        *)
(***************************************************************************)
LumaSite(p, x, y) == <<"Y", p.x + x, p.y + y>>
ChromaSite(p, plane, x, y) == <<plane, p.x \div 2 + x, p.y \div 2 + y>>

(* What the renderer asserts of a picture. *)
LEMMA PictureFacts ==
  ASSUME NEW p \in SubtitlePictures
  PROVE  /\ p.x \in Nat /\ p.y \in Nat /\ p.w \in Nat \ {0} /\ p.h \in Nat \ {0}
         /\ p.stride \in Nat /\ p.w <= p.stride
         /\ p.x + p.w <= W /\ p.y + p.h <= H
         /\ DOMAIN p.data = 0 .. p.stride * p.h - 1
         /\ \A i \in DOMAIN p.data : p.data[i] \in Premultiplied
<1>1. IsPicture(p)
  BY FrameCompositionAssumption
<1> DEFINE n == p.stride * p.h - 1
<1>2. p.data \in [0 .. n -> Premultiplied]
  BY <1>1 DEF IsPicture
<1> HIDE DEF n
<1>3. DOMAIN p.data = 0 .. n /\ \A i \in 0 .. n : p.data[i] \in Premultiplied
  BY <1>2
<1>4. DOMAIN p.data = 0 .. p.stride * p.h - 1
  BY <1>3 DEF n
<1>5. \A i \in DOMAIN p.data : p.data[i] \in Premultiplied
  BY <1>3
<1> QED
  BY <1>1, <1>4, <1>5 DEF IsPicture

(* A place of the data, by its column and its line. *)
LEMMA InData ==
  ASSUME NEW p \in SubtitlePictures, NEW x \in Nat, NEW y \in Nat, x < p.w, y < p.h
  PROVE  p.stride * y + x \in DOMAIN p.data
<1>1. /\ p.stride \in Nat /\ p.h \in Nat /\ p.w \in Nat /\ p.w <= p.stride
      /\ DOMAIN p.data = 0 .. p.stride * p.h - 1
  BY PictureFacts
<1> DEFINE A == p.stride * y
           B == p.stride * p.h
<1>2. A + p.stride <= B /\ A \in Nat /\ B \in Nat
  BY <1>1, Products
<1>3. DOMAIN p.data = 0 .. B - 1
  BY <1>1
<1> HIDE DEF A, B
<1>4. A + x \in DOMAIN p.data
  <2>1. p.stride \in Nat /\ p.w \in Nat /\ p.w <= p.stride
    BY <1>1
  <2>2. A + x \in 0 .. B - 1
    BY <1>2, <2>1
  <2> QED
    BY <1>3, <2>2
<1> QED
  BY <1>4 DEF A

(* A byte of luma of a picture in the frame. *)
LEMMA LumaPlaces ==
  ASSUME NEW p \in SubtitlePictures, format \in Planar,
         NEW x \in 0 .. p.w - 1, NEW y \in LumaRows(p)
  PROVE  /\ LumaSite(p, x, y) \in Sites(format)
         /\ LumaAddress(p, x, y) = AddressOf(format, W, LumaSite(p, x, y))
         /\ p.stride * y + x \in DOMAIN p.data
<1>1. /\ p.x \in Nat /\ p.y \in Nat /\ p.w \in Nat /\ p.h \in Nat
      /\ p.x + p.w <= W /\ p.y + p.h <= H /\ W \in Nat /\ H \in Nat
  BY PictureFacts, SizeFacts
<1>2. x \in Nat /\ x < p.w /\ y \in Nat /\ y < p.h
  BY <1>1 DEF LumaRows
<1>3. p.stride * y + x \in DOMAIN p.data
  BY <1>2, InData
<1>4. LumaSite(p, x, y) \in Sites(format)
  <2>1. p.x + x \in 0 .. W - 1 /\ p.y + y \in 0 .. H - 1
    BY <1>1, <1>2
  <2> QED
    BY <2>1 DEF LumaSite, Sites
<1>5. LumaAddress(p, x, y) = AddressOf(format, W, LumaSite(p, x, y))
  <2>1. AddressOf(format, W, LumaSite(p, x, y)) = W * (p.y + y) + (p.x + x)
    BY DEF AddressOf, LumaSite
  <2>2. W * (p.y + y) \in Nat
    BY <1>1, <1>2
  <2> QED
    BY <1>1, <1>2, <2>1, <2>2 DEF LumaAddress
<1> QED
  BY <1>3, <1>4, <1>5

(* A byte of chroma. *)
LEMMA ChromaPlaces ==
  ASSUME NEW p \in SubtitlePictures, format \in Planar, NEW plane \in {"U", "V"},
         NEW x \in ChromaColumns(p), NEW y \in ChromaRows(p)
  PROVE  /\ ChromaSite(p, plane, x, y) \in Sites(format)
         /\ ChromaAddress(p, plane, x, y) = AddressOf(format, W, ChromaSite(p, plane, x, y))
         /\ p.stride * (2 * y) + 2 * x \in DOMAIN p.data
         /\ p.stride * (2 * y + 1) + 2 * x \in DOMAIN p.data
         /\ p.stride * (2 * y) + 2 * x + p.stride = p.stride * (2 * y + 1) + 2 * x
<1>1. /\ p.x \in Nat /\ p.y \in Nat /\ p.w \in Nat \ {0} /\ p.h \in Nat \ {0}
      /\ p.x + p.w <= W /\ p.y + p.h <= H /\ W \in Nat /\ H \in Nat /\ p.stride \in Nat
  BY PictureFacts, SizeFacts
<1> DEFINE i == p.x \div 2
           j == p.y \div 2
           u == W \div 2
           h == H \div 2
<1>2. /\ x \in Nat /\ 2 * x + 2 <= p.w - 1 /\ y \in Nat /\ 2 * y + 2 <= p.h - 1
      /\ i \in Nat /\ 2 * i <= p.x /\ j \in Nat /\ 2 * j <= p.y
  BY <1>1 DEF ChromaColumns, ChromaRows
<1>3. u \in Nat /\ W = 2 * u /\ h \in Nat /\ H = 2 * h
  BY SizeFacts
<1>4. p.stride * (2 * y) + 2 * x \in DOMAIN p.data
  /\ p.stride * (2 * y + 1) + 2 * x \in DOMAIN p.data
  <2>1. 2 * x \in Nat /\ 2 * y \in Nat /\ 2 * y + 1 \in Nat
        /\ 2 * x < p.w /\ 2 * y < p.h /\ 2 * y + 1 < p.h
    BY <1>1, <1>2
  <2> QED
    BY <2>1, InData
<1>5. p.stride * (2 * y) + 2 * x + p.stride = p.stride * (2 * y + 1) + 2 * x
  BY <1>1, <1>2
<1>6. ChromaSite(p, plane, x, y) \in Sites(format)
  <2> HIDE DEF i, j, u, h
  <2>1. i + x \in 0 .. u - 1 /\ j + y \in 0 .. h - 1
    BY <1>1, <1>2, <1>3
  <2> QED
    BY <2>1 DEF ChromaSite, Sites, i, j, u, h
<1>7. ChromaAddress(p, plane, x, y) = AddressOf(format, W, ChromaSite(p, plane, x, y))
  <2> DEFINE a == i + x
             l == j + y
  <2>1. /\ ChromaSite(p, plane, x, y) = <<plane, a, l>> /\ a \in Nat /\ l \in Nat
        /\ x + i = a /\ a * 2 = 2 * a
    BY <1>2 DEF ChromaSite
  <2> HIDE DEF a, l, i, j, u
  <2>2. CASE format = "NV12"
    <3>1. ChromaAddress(p, plane, x, y) = W * H + W * l + a * 2 + (IF plane = "U" THEN 0 ELSE 1)
      BY <2>1, <2>2 DEF ChromaAddress, i, j, l
    <3>2. AddressOf(format, W, <<plane, a, l>>)
            = W * H + W * l + 2 * a + (IF plane = "U" THEN 0 ELSE 1)
      <4>1. W * H + W * l + 2 * a + 0 = W * H + W * l + 2 * a
        BY <1>1, <2>1
      <4> QED
        BY <2>2, <4>1 DEF AddressOf
    <3> QED
      BY <2>1, <3>1, <3>2
  <2>3. CASE format = "YV12"
    <3>1. ChromaAddress(p, plane, x, y)
            = W * H + (IF plane = "U" THEN (W * H) \div 4 ELSE 0) + u * l + a
      BY <2>1, <2>3 DEF ChromaAddress, i, j, l, u
    <3>2. AddressOf(format, W, <<plane, a, l>>)
            = W * H + (IF plane = "U" THEN (W * H) \div 4 ELSE 0) + u * l + a
      <4>1. W * H + 0 + u * l + a = W * H + u * l + a
        BY <1>1, <1>3, <2>1
      <4> QED
        BY <2>3, <4>1 DEF AddressOf, u
    <3> QED
      BY <2>1, <3>1, <3>2
  <2> QED
    BY <2>2, <2>3 DEF Planar
<1> QED
  BY <1>4, <1>5, <1>6, <1>7

-----------------------------------------------------------------------------
(***************************************************************************)
(* The frame while Transform works on it: the buffers have the size of the *)
(* format, the rows still to be blended are rows of the first picture, and *)
(* nothing has strayed.                                                    *)
(***************************************************************************)
FirstHas(pictures, luma, chroma) ==
  IF pictures = <<>> THEN luma = {} /\ chroma = {}
  ELSE luma \subseteq LumaRows(Head(pictures)) /\ chroma \subseteq ChromaRows(Head(pictures))

Steps == {"idle", "blending", "copying", "done"}

FrameInv ==
  /\ Measured
  /\ step \in Steps
  /\ row \in 0 .. Rows(format)
  /\ step \in {"idle", "blending"} => row = 0
  /\ subpics \in Seq(SubtitlePictures)
  /\ subpics # <<>> => step = "blending" /\ format \in Planar
  /\ FirstHas(subpics, lumaRows, chromaRows)
  /\ step # "idle" => /\ DOMAIN pBuffer = 0 .. SizeImage(format, W) - 1
                      /\ DOMAIN pOut = 0 .. SizeImage(format, outWidth) - 1
  /\ InsideBuffers

(* The pictures that StartFrame takes are a sequence of pictures. *)
LEMMA PictureListsAreSequences ==
  ASSUME NEW pictures \in PictureLists
  PROVE  pictures \in Seq(SubtitlePictures)
<1>1. PICK n \in 0 .. MaxSubpics : pictures \in [1 .. n -> SubtitlePictures]
  BY DEF PictureLists
<1>2. n \in Nat
  BY FrameCompositionAssumption
<1> QED
  BY <1>1, <1>2

(* The filter as it is connected. *)
LEMMA FrameInvAtStart == FrameInit => FrameInv
<1> SUFFICES ASSUME FrameInit PROVE FrameInv
  OBVIOUS
<1>1. Measured
  BY FrameCompositionAssumption DEF FrameInit, Measured
<1>2. row \in 0 .. Rows(format)
  <2>1. format \in AllFormats /\ Width(W)
    BY <1>1, SizeFacts DEF Measured
  <2>2. Rows(format) \in Nat
    BY <2>1, RowsFit
  <2> QED
    BY <2>2 DEF FrameInit
<1> QED
  BY <1>1, <1>2 DEF FrameInit, FrameInv, FirstHas, Steps, InsideBuffers

(* A new frame has buffers of the size of its format. *)
LEMMA FrameStart ==
  ASSUME FrameInv, NEW width \in OutWidths, NEW pictures \in PictureLists,
         StartFrame(width, pictures)
  PROVE  FrameInv'
<1>1. Measured'
  BY DEF FrameInv, Measured, StartFrame
<1>2. pictures \in Seq(SubtitlePictures)
  BY PictureListsAreSequences
<1>3. FirstHas(subpics, lumaRows, chromaRows)'
  BY DEF FirstHas, StartFrame, FirstRows
<1>4. (DOMAIN pBuffer = 0 .. SizeImage(format, W) - 1)'
  BY InputSites DEF FrameInv, Measured, StartFrame
<1>5. (DOMAIN pOut = 0 .. SizeImage(format, outWidth) - 1)'
  <2> DEFINE D == 0 .. SizeImage(format, width) - 1
  <2>1. pOut' = [address \in D |-> Blank] /\ format' = format /\ outWidth' = width
    BY DEF StartFrame
  <2> HIDE DEF D
  <2>2. DOMAIN pOut' = D
    BY <2>1
  <2> QED
    BY <2>1, <2>2 DEF D, SizeImage
<1>6. (row \in 0 .. Rows(format))'
  <2>1. format \in AllFormats /\ Width(W)
    BY SizeFacts DEF FrameInv, Measured
  <2>2. Rows(format) \in Nat
    BY <2>1, RowsFit
  <2>3. row' = 0 /\ Rows(format)' = Rows(format)
    BY DEF StartFrame, Rows, RowsOfBytes
  <2> QED
    BY <2>2, <2>3
<1>7. /\ step' = "blending" /\ strayed' = strayed /\ subpics' = pictures /\ format' = format
      /\ row' = 0 /\ (format \in Planar \/ pictures = <<>>)
  BY DEF StartFrame
<1> QED
  BY <1>1, <1>2, <1>3, <1>4, <1>5, <1>6, <1>7 DEF FrameInv, Steps, InsideBuffers

(* The first picture, while there is one. *)
LEMMA FirstPicture ==
  ASSUME FrameInv, subpics # <<>>
  PROVE  /\ Head(subpics) \in SubtitlePictures /\ format \in Planar /\ format \in Formats
         /\ format \in AllFormats /\ Width(W) /\ Tail(subpics) \in Seq(SubtitlePictures)
         /\ lumaRows \subseteq LumaRows(Head(subpics))
         /\ chromaRows \subseteq ChromaRows(Head(subpics))
         /\ DOMAIN pBuffer = 0 .. SizeImage(format, W) - 1
<1>1. subpics \in Seq(SubtitlePictures) /\ format \in Planar /\ step # "idle"
  BY DEF FrameInv
<1>2. Head(subpics) \in SubtitlePictures /\ Tail(subpics) \in Seq(SubtitlePictures)
  BY <1>1
<1>3. format \in Formats /\ format \in AllFormats /\ Width(W)
  BY SizeFacts DEF FrameInv, Measured
<1> QED
  BY <1>1, <1>2, <1>3 DEF FrameInv, FirstHas

(* A row of luma keeps inside of the buffer and the data. *)
LEMMA FrameLuma ==
  ASSUME FrameInv, NEW y, BlendLumaRow(y)
  PROVE  FrameInv'
<1> DEFINE p == Head(subpics)
           written == {LumaAddress(p, x, y) : x \in 0 .. p.w - 1}
           read == {p.stride * y + x : x \in 0 .. p.w - 1}
<1>1. subpics # <<>> /\ y \in lumaRows /\ step = "blending"
  BY DEF FrameInv, FirstHas, BlendLumaRow
<1>2. /\ p \in SubtitlePictures /\ format \in Planar /\ format \in AllFormats /\ Width(W)
      /\ y \in LumaRows(p) /\ DOMAIN pBuffer = 0 .. SizeImage(format, W) - 1
  BY <1>1, FirstPicture
<1>3. written \subseteq DOMAIN pBuffer /\ read \subseteq DOMAIN p.data
  <2>1. ASSUME NEW x \in 0 .. p.w - 1
        PROVE  LumaAddress(p, x, y) \in DOMAIN pBuffer /\ p.stride * y + x \in DOMAIN p.data
    BY <1>2, LumaPlaces, AddressesApart
  <2> QED
    BY <2>1
<1>4. /\ strayed' = (strayed \/ ~ (/\ written \subseteq DOMAIN pBuffer
                                 /\ read \subseteq DOMAIN p.data))
      /\ DOMAIN pBuffer' = DOMAIN pBuffer /\ lumaRows' = lumaRows \ {y}
      /\ UNCHANGED <<format, outWidth, stride, pOut, subpics, chromaRows, row, step>>
  BY Zenon DEF BlendLumaRow
<1>5. ~ strayed'
  BY <1>3, <1>4 DEF FrameInv, InsideBuffers
<1> HIDE DEF written, read, p
<1> QED
  BY <1>4, <1>5 DEF FrameInv, Measured, FirstHas, InsideBuffers, Rows, RowsOfBytes, SizeImage

(* So does a row of chroma. *)
LEMMA FrameChroma ==
  ASSUME FrameInv, NEW y, BlendChromaRow(y)
  PROVE  FrameInv'
<1> DEFINE p == Head(subpics)
           places == {"U", "V"} \X ChromaColumns(p)
           written == {ChromaAddress(p, place[1], place[2], y) : place \in places}
           upper(x) == p.stride * (2 * y) + 2 * x
           read == {upper(x) : x \in ChromaColumns(p)}
                     \cup {upper(x) + p.stride : x \in ChromaColumns(p)}
<1>1. subpics # <<>> /\ y \in chromaRows /\ step = "blending"
  BY DEF FrameInv, FirstHas, BlendChromaRow
<1>2. /\ p \in SubtitlePictures /\ format \in Planar /\ format \in AllFormats /\ Width(W)
      /\ y \in ChromaRows(p) /\ DOMAIN pBuffer = 0 .. SizeImage(format, W) - 1
  BY <1>1, FirstPicture
<1>3. written \subseteq DOMAIN pBuffer
  <2>1. ASSUME NEW plane \in {"U", "V"}, NEW x \in ChromaColumns(p)
        PROVE  ChromaAddress(p, plane, x, y) \in DOMAIN pBuffer
    BY <1>2, ChromaPlaces, AddressesApart
  <2>2. \A place \in places : place[1] \in {"U", "V"} /\ place[2] \in ChromaColumns(p)
    OBVIOUS
  <2> HIDE DEF p
  <2> QED
    BY <2>1, <2>2
<1>4. read \subseteq DOMAIN p.data
  <2>1. ASSUME NEW x \in ChromaColumns(p)
        PROVE  upper(x) \in DOMAIN p.data /\ upper(x) + p.stride \in DOMAIN p.data
    BY <1>2, ChromaPlaces
  <2> QED
    BY <2>1
<1>5. /\ strayed' = (strayed \/ ~ (/\ written \subseteq DOMAIN pBuffer
                                 /\ read \subseteq DOMAIN p.data))
      /\ DOMAIN pBuffer' = DOMAIN pBuffer /\ chromaRows' = chromaRows \ {y}
      /\ UNCHANGED <<format, outWidth, stride, pOut, subpics, lumaRows, row, step>>
  BY Zenon DEF BlendChromaRow
<1>6. ~ strayed'
  BY <1>3, <1>4, <1>5 DEF FrameInv, InsideBuffers
<1> HIDE DEF written, read, p
<1> QED
  BY <1>5, <1>6 DEF FrameInv, Measured, FirstHas, InsideBuffers, Rows, RowsOfBytes, SizeImage

(* The next picture comes with its own rows. *)
LEMMA FramePicture ==
  ASSUME FrameInv, NextPicture
  PROVE  FrameInv'
<1>1. subpics # <<>> /\ Tail(subpics) \in Seq(SubtitlePictures) /\ format \in Planar
  BY FirstPicture DEF NextPicture
<1>2. FirstHas(subpics, lumaRows, chromaRows)'
  BY DEF FirstHas, NextPicture, FirstRows
<1>3. /\ subpics' = Tail(subpics) /\ step = "blending"
      /\ UNCHANGED <<format, outWidth, stride, pBuffer, pOut, row, step, strayed>>
  BY DEF NextPicture
<1> QED
  BY <1>1, <1>2, <1>3 DEF FrameInv, Measured, InsideBuffers, Rows, RowsOfBytes, SizeImage

(* A copied row keeps inside of both buffers. *)
LEMMA FrameCopy ==
  ASSUME FrameInv, CopyRow
  PROVE  FrameInv'
<1> DEFINE r == RowAt(row)
           written == r.to .. r.to + r.length - 1
           read == r.from .. r.from + r.length - 1
<1>1. /\ Measured /\ step = "copying" /\ format \in AllFormats /\ Width(W) /\ Width(outWidth)
      /\ DOMAIN pBuffer = 0 .. SizeImage(format, W) - 1
      /\ DOMAIN pOut = 0 .. SizeImage(format, outWidth) - 1
  BY SizeFacts DEF FrameInv, Measured, CopyRow
<1>2. row \in Nat /\ row < Rows(format) /\ Rows(format) \in Nat
  <2>1. row \in 0 .. Rows(format) /\ row < RowsToCopy /\ RowsToCopy = Rows(format)
    BY <1>1, RowsAreCopied DEF FrameInv, CopyRow
  <2>2. Rows(format) \in Nat
    BY <1>1, RowsFit
  <2> QED
    BY <2>1, <2>2
<1> DEFINE start(w) == StartOf(format, w, row)
           long == LengthOf(format, W, row)
<1>3. r.from = start(W) /\ r.to = start(outWidth) /\ r.length = long
  BY <1>1, <1>2, RowsAreCopied
<1>4. ASSUME NEW w, Width(w)
      PROVE  start(w) .. start(w) + long - 1 \subseteq 0 .. SizeImage(format, w) - 1
  <2>1. /\ start(w) \in Nat /\ LengthOf(format, w, row) \in Nat /\ long \in Nat
        /\ start(w) + LengthOf(format, w, row) <= StartOf(format, w, Rows(format))
    BY <1>1, <1>2, <1>4, RowsFollow
  <2>2. long <= LengthOf(format, w, row)
    BY <1>1, <1>4, RowsGrow
  <2>3. StartOf(format, w, Rows(format)) <= SizeImage(format, w) /\ SizeImage(format, w) \in Nat
        /\ StartOf(format, w, Rows(format)) \in Nat
    <3>1. Rows(format) + 1 \in Nat /\ Rows(format) < Rows(format) + 1
      BY <1>2
    <3> QED
      BY <1>1, <1>2, <1>4, <3>1, RowsFit, RowsFollow
  <2> HIDE DEF start, long
  <2> QED
    BY <2>1, <2>2, <2>3
<1>5. written \subseteq DOMAIN pOut /\ read \subseteq DOMAIN pBuffer
  BY <1>1, <1>3, <1>4
<1>6. /\ strayed' = (strayed \/ ~ (/\ written \subseteq DOMAIN pOut
                                 /\ read \subseteq DOMAIN pBuffer))
      /\ DOMAIN pOut' = DOMAIN pOut /\ row' = row + 1
      /\ UNCHANGED <<format, outWidth, stride, pBuffer, subpics, lumaRows, chromaRows, step>>
  BY Zenon DEF CopyRow
<1>7. ~ strayed'
  BY <1>5, <1>6 DEF FrameInv, InsideBuffers
<1>8. row' \in 0 .. Rows(format)
  BY <1>2, <1>6
<1> HIDE DEF written, read, r, start, long
<1> QED
  BY <1>1, <1>6, <1>7, <1>8
       DEF FrameInv, Measured, FirstHas, InsideBuffers, Rows, RowsOfBytes, SizeImage

(* The steps that leave the buffers alone, or give them away. *)
LEMMA FrameRest ==
  ASSUME FrameInv, Blended \/ Copied \/ Return \/ UNCHANGED frameVars
  PROVE  FrameInv'
<1>1. CASE Blended
  BY <1>1 DEF Blended, FrameInv, Measured, FirstHas, InsideBuffers, Rows, RowsOfBytes,
       SizeImage, Steps
<1>2. CASE Copied
  BY <1>2 DEF Copied, FrameInv, Measured, FirstHas, InsideBuffers, Rows, RowsOfBytes,
       SizeImage, Steps
<1>3. CASE Return
  <2>1. Rows(format) \in Nat
    <3>1. format \in AllFormats /\ Width(W)
      BY SizeFacts DEF FrameInv, Measured
    <3> QED
      BY <3>1, RowsFit
  <2>2. row' \in 0 .. Rows(format)
    BY <1>3, <2>1 DEF Return
  <2>3. subpics = <<>>
    BY <1>3 DEF FrameInv, Return
  <2> QED
    BY <1>3, <2>2, <2>3
    DEF Return, FrameInv, Measured, FirstHas, InsideBuffers, Rows, RowsOfBytes, SizeImage, Steps
<1>4. CASE UNCHANGED frameVars
  BY <1>4 DEF frameVars, FrameInv, Measured, FirstHas, InsideBuffers, Rows, RowsOfBytes, SizeImage
<1> QED
  BY <1>1, <1>2, <1>3, <1>4

(* The invariant holds after every step. *)
LEMMA FrameInvKept == FrameInv /\ [FrameNext]_frameVars => FrameInv'
<1> SUFFICES ASSUME FrameInv, [FrameNext]_frameVars PROVE FrameInv'
  OBVIOUS
<1>1. ASSUME NEW width \in OutWidths, NEW pictures \in PictureLists, StartFrame(width, pictures)
      PROVE  FrameInv'
  BY <1>1, FrameStart
<1>2. ASSUME NEW y \in 0 .. H - 1, BlendLumaRow(y) \/ BlendChromaRow(y)
      PROVE  FrameInv'
  BY <1>2, FrameLuma, FrameChroma
<1>3. ASSUME NextPicture \/ CopyRow \/ Blended \/ Copied \/ Return \/ UNCHANGED frameVars
      PROVE  FrameInv'
  BY <1>3, FramePicture, FrameCopy, FrameRest
<1> QED
  BY <1>1, <1>2, <1>3 DEF FrameNext

(* However the rows of the pictures are blended, whichever picture lies     *)
(* wherever in the frame, and however long the rows of the output are: no   *)
(* row of a picture is read or written outside of its data and the aligned  *)
(* buffer, and CopyBuffer keeps inside of both buffers                      *)
(* (SubPicBlender.cpp:86-352, DXSubFilter.cpp:505-541).                     *)
THEOREM NothingStrays == FrameSpec => []InsideBuffers
<1>1. FrameInit => FrameInv
  BY FrameInvAtStart
<1>2. FrameInv /\ [FrameNext]_frameVars => FrameInv'
  BY FrameInvKept
<1>3. FrameInv => InsideBuffers
  BY DEF FrameInv
<1> QED
  BY <1>1, <1>2, <1>3, PTL DEF FrameSpec

-----------------------------------------------------------------------------
(***************************************************************************)
(* The frame as a viewer should see it, picture by picture.                *)
(***************************************************************************)

(* A set of numbers that is not empty has a least one. *)
LEMMA LeastOf ==
  ASSUME NEW T, T \subseteq Nat, T # {}
  PROVE  \E n \in T : \A m \in T : n <= m
<1> DEFINE R == OpToRel(<, Nat)
<1>1. IsWellFoundedOn(R, Nat)
  BY NatLessThanWellFounded
<1> HIDE DEF R
<1>2. PICK x \in T : \A y \in T : ~ (<<y, x>> \in R)
  BY <1>1, WFMin
<1>3. \A a, b \in Nat : b < a => <<b, a>> \in R
  BY DEF R, OpToRel
<1>4. \A y \in T : ~ (y < x)
  BY <1>2, <1>3
<1>5. \A y \in T : x <= y
  <2> TAKE y \in T
  <2>1. x \in Nat /\ y \in Nat
    OBVIOUS
  <2> QED
    BY <2>1, <1>4
<1> QED
  BY <1>5

(* Layers is what its definition says: there is such a function. *)
LEMMA LayersRecursion ==
  ASSUME NEW pictures \in Seq(SubtitlePictures), NEW site
  PROVE  Layers(pictures, site) =
           [n \in 0 .. Len(pictures) |->
              IF n = 0 THEN FrameByte[site]
              ELSE Under(pictures[n], site, Layers(pictures, site)[n - 1])]
<1> DEFINE Step(f, n) == IF n = 0 THEN FrameByte[site] ELSE Under(pictures[n], site, f[n - 1])
           Is(f, k) == f = [n \in 0 .. k |-> Step(f, n)]
           T == {k \in Nat : \A f : ~ Is(f, k)}
<1>1. ASSUME T # {} PROVE FALSE
  <2>1. PICK k \in T : \A m \in T : k <= m
    <3>1. T \subseteq Nat
      OBVIOUS
    <3> HIDE DEF T
    <3> QED
      BY <1>1, <3>1, LeastOf
  <2>2. k \in Nat /\ \A f : ~ Is(f, k)
    OBVIOUS
  <2>3. CASE k = 0
    <3> DEFINE f0 == [n \in 0 .. 0 |-> FrameByte[site]]
    <3>1. f0 = [n \in 0 .. 0 |-> Step(f0, n)]
      OBVIOUS
    <3>2. Is(f0, k)
      BY <2>3, <3>1
    <3> QED
      BY <2>2, <3>2
  <2>4. CASE k # 0
    <3>1. k - 1 \in Nat /\ k - 1 \notin T
      <4>1. k - 1 \in Nat /\ ~ (k <= k - 1)
        BY <2>2, <2>4
      <4> HIDE DEF T
      <4> QED
        BY <2>1, <4>1
    <3>2. PICK g : Is(g, k - 1)
      BY <3>1
    <3> DEFINE f == [n \in 0 .. k |-> IF n = k THEN Step(g, k) ELSE g[n]]
    <3>3. \A n \in 0 .. k - 1 : f[n] = g[n]
      BY <2>2
    <3>4. \A n \in 0 .. k - 1 : g[n] = Step(g, n)
      <4> HIDE DEF Step
      <4> QED
        BY <3>2
    <3>5. \A n \in 0 .. k : f[n] = Step(f, n)
      <4> TAKE n \in 0 .. k
      <4>1. Step(f, n) = Step(g, n)
        <5>1. n # 0 => f[n - 1] = g[n - 1]
          <6>1. n # 0 => n - 1 \in 0 .. k - 1
            BY <2>2
          <6> HIDE DEF f
          <6> QED
            BY <3>3, <6>1
        <5> HIDE DEF f
        <5> QED
          BY <5>1
      <4>2. f[n] = Step(g, n)
        <5>1. CASE n = k
          <6> HIDE DEF Step
          <6> QED
            BY <5>1
        <5>2. CASE n # k
          <6>1. n \in 0 .. k - 1
            BY <2>2, <5>2
          <6> HIDE DEF Step, f
          <6> QED
            BY <3>3, <3>4, <6>1
        <5> QED
          BY <5>1, <5>2
      <4> QED
        BY <4>1, <4>2
    <3>6. f = [n \in 0 .. k |-> f[n]]
      OBVIOUS
    <3>7. Is(f, k)
      <4> HIDE DEF Step, f
      <4> QED
        BY <3>5, <3>6
    <3> HIDE DEF Is
    <3> QED
      BY <2>2, <3>7
  <2> QED
    BY <2>3, <2>4
<1>2. Len(pictures) \in Nat
  OBVIOUS
<1>3. \E f : Is(f, Len(pictures))
  BY <1>1, <1>2
<1>4. Layers(pictures, site) = CHOOSE f : Is(f, Len(pictures))
  BY DEF Layers
<1>5. Is(Layers(pictures, site), Len(pictures))
  <2> HIDE DEF Is
  <2> QED
    BY <1>3, <1>4
<1> QED
  BY <1>5

(* A layer is the one below it under its picture. *)
LEMMA LayersStep ==
  ASSUME NEW pictures \in Seq(SubtitlePictures), NEW site
  PROVE  /\ Layers(pictures, site)[0] = FrameByte[site]
         /\ \A n \in 1 .. Len(pictures) :
              Layers(pictures, site)[n] = Under(pictures[n], site, Layers(pictures,
                   site)[n - 1])
<1> DEFINE L == Layers(pictures, site)
           N == Len(pictures)
<1>1. N \in Nat
  OBVIOUS
<1>2. L = [n \in 0 .. N |-> IF n = 0 THEN FrameByte[site] ELSE Under(pictures[n], site,
     L[n - 1])]
  BY LayersRecursion
<1> HIDE DEF L, N
<1>3. 0 \in 0 .. N /\ \A n \in 1 .. N : n \in 0 .. N /\ n # 0
  BY <1>1
<1>4. L[0] = FrameByte[site] /\ \A n \in 1 .. N : L[n] = Under(pictures[n], site, L[n - 1])
  BY <1>2, <1>3
<1> QED
  BY <1>4 DEF L, N

(* The place in a picture of a site that it covers. *)
LEMMA CoveredLuma ==
  ASSUME NEW p \in SubtitlePictures, NEW f \in Formats, NEW site \in Sites(f),
         Covers(p, site), site[1] = "Y"
  PROVE  /\ f \in Planar /\ site[2] - p.x \in 0 .. p.w - 1 /\ site[3] - p.y \in LumaRows(p)
         /\ site = LumaSite(p, site[2] - p.x, site[3] - p.y)
<1>1. /\ p.x \in Nat /\ p.y \in Nat /\ p.w \in Nat /\ p.h \in Nat
  BY PictureFacts
<1>2. /\ f \in Planar /\ site = <<site[1], site[2], site[3]>>
      /\ site[2] \in Nat /\ site[3] \in Nat
  BY SiteFacts, SizeFacts
<1> DEFINE x == site[2]
           y == site[3]
<1>3. x \in p.x .. p.x + p.w - 1 /\ y \in p.y .. p.y + p.h - 1
  BY DEF Covers
<1> HIDE DEF x, y
<1>4. /\ x - p.x \in 0 .. p.w - 1 /\ y - p.y \in 0 .. p.h - 1
      /\ p.x + (x - p.x) = x /\ p.y + (y - p.y) = y
  BY <1>1, <1>3
<1> QED
  BY <1>2, <1>4 DEF LumaSite, LumaRows, x, y

(* The same for chroma. *)
LEMMA CoveredChroma ==
  ASSUME NEW p \in SubtitlePictures, NEW f \in Formats, NEW site \in Sites(f),
         Covers(p, site), site[1] # "Y"
  PROVE  /\ f \in Planar /\ site[1] \in {"U", "V"}
         /\ site[2] - p.x \div 2 \in ChromaColumns(p) /\ site[3] - p.y \div 2 \in ChromaRows(p)
         /\ site = ChromaSite(p, site[1], site[2] - p.x \div 2, site[3] - p.y \div 2)
<1>1. p.x \in Nat /\ p.y \in Nat
  BY PictureFacts
<1>2. /\ site = <<site[1], site[2], site[3]>> /\ site[2] \in Nat /\ site[3] \in Nat
      /\ site[1] \in {"U", "V"} => f \in Planar
  BY SiteFacts, SizeFacts
<1>3. site[1] \in {"U", "V"}
  BY DEF Covers
<1> DEFINE x == site[2]
           y == site[3]
           i == p.x \div 2
           j == p.y \div 2
<1>4. x - i \in 0 .. (p.w - 1) \div 2 - 1 /\ y - j \in 0 .. (p.h - 1) \div 2 - 1
  BY <1>3 DEF Covers
<1>5. i \in Nat /\ j \in Nat
  BY <1>1
<1>6. i + (x - i) = x /\ j + (y - j) = y
  <2> HIDE DEF i, j
  <2> QED
    BY <1>2, <1>5
<1> QED
  BY <1>2, <1>3, <1>4, <1>6 DEF ChromaSite, ChromaColumns, ChromaRows

(* A picture over a byte gives a byte, and what the blender stores. *)
LEMMA OverLuma ==
  ASSUME NEW p \in SubtitlePictures, NEW f \in Formats, NEW site \in Sites(f), NEW d \in Byte,
         Covers(p, site), site[1] = "Y"
  PROVE  /\ Over(p, site, d) \in Byte
         /\ Over(p, site, d)
              = BlendLuma(Pixel(p, p.stride * (site[3] - p.y) + (site[2] - p.x)), d)
<1> DEFINE x == site[2] - p.x
           y == site[3] - p.y
           i == p.stride * y + x
<1>1. x \in 0 .. p.w - 1 /\ y \in LumaRows(p)
  BY CoveredLuma
<1>2. i \in DOMAIN p.data
  <2>1. x \in Nat /\ y \in Nat /\ x < p.w /\ y < p.h
    BY <1>1, PictureFacts DEF LumaRows
  <2> QED
    BY <2>1, InData
<1>3. p.data[i] \in Premultiplied /\ Pixel(p, i) = p.data[i]
  BY <1>2, PictureFacts DEF Pixel
<1>4. Over(p, site, d) = LumaOver(p.data[i], d)
  BY DEF Over
<1> HIDE DEF i
<1>5. BlendLuma(p.data[i], d) = LumaOver(p.data[i], d) /\ LumaOver(p.data[i], d) \in Byte
  BY <1>3, LumaExact
<1>6. Over(p, site, d) \in Byte /\ Over(p, site, d) = BlendLuma(Pixel(p, i), d)
  BY <1>3, <1>4, <1>5
<1> QED
  BY <1>6 DEF i

(* What BlendChromaRow stores for a column of a row. *)
ChromaByte(p, plane, x, y, d) ==
  LET c1 == Pixel(p, p.stride * (2 * y) + 2 * x)
      c2 == Pixel(p, p.stride * (2 * y) + 2 * x + p.stride)
  IN  IF plane = "U"
      THEN BlendChroma(ConvertBGRAToUBT601(c1), ConvertBGRAToUBT601(c2), c1.a, c2.a, d)
      ELSE BlendChroma(ConvertBGRAToVBT601(c1), ConvertBGRAToVBT601(c2), c1.a, c2.a, d)

(* The same for the two pixels of a byte of chroma. *)
LEMMA OverChroma ==
  ASSUME NEW p \in SubtitlePictures, NEW f \in Formats, NEW site \in Sites(f), NEW d \in Byte,
         Covers(p, site), site[1] # "Y", f = format
  PROVE  /\ Over(p, site, d) \in Byte
         /\ Over(p, site, d)
              = ChromaByte(p, site[1], site[2] - p.x \div 2, site[3] - p.y \div 2, d)
<1> DEFINE x == site[2] - p.x \div 2
           y == site[3] - p.y \div 2
           i == p.stride * (2 * y) + 2 * x
           j == p.stride * (2 * y + 1) + 2 * x
           c1 == p.data[i]
           c2 == p.data[j]
<1>1. x \in ChromaColumns(p) /\ y \in ChromaRows(p) /\ site[1] \in {"U", "V"}
  /\ format \in Planar
  BY CoveredChroma
<1>2. i \in DOMAIN p.data /\ j \in DOMAIN p.data /\ i + p.stride = j
  <2> HIDE DEF x, y
  <2> QED
    BY <1>1, ChromaPlaces
<1>3. Over(p, site, d) = IF site[1] = "U" THEN ChromaOver(U(c1), U(c2), c1.a, c2.a, d)
                         ELSE ChromaOver(V(c1), V(c2), c1.a, c2.a, d)
  <2>1. site[1] = "U" \/ site[1] = "V"
    BY <1>1
  <2> QED
    BY <2>1 DEF Over
<1>4. /\ c1 \in Premultiplied /\ c2 \in Premultiplied
      /\ Pixel(p, i) = c1 /\ Pixel(p, i + p.stride) = c2
  <2> HIDE DEF i, j
  <2> QED
    BY <1>2, PictureFacts DEF Pixel
<1>5. ChromaByte(p, site[1], x, y, d) =
        IF site[1] = "U"
        THEN BlendChroma(ConvertBGRAToUBT601(c1), ConvertBGRAToUBT601(c2), c1.a, c2.a, d)
        ELSE BlendChroma(ConvertBGRAToVBT601(c1), ConvertBGRAToVBT601(c2), c1.a, c2.a, d)
  <2>1. ChromaByte(p, site[1], x, y, d) =
          IF site[1] = "U"
          THEN BlendChroma(ConvertBGRAToUBT601(Pixel(p, i)), ConvertBGRAToUBT601(Pixel(p,
               i + p.stride)),
                           Pixel(p, i).a, Pixel(p, i + p.stride).a, d)
          ELSE BlendChroma(ConvertBGRAToVBT601(Pixel(p, i)), ConvertBGRAToVBT601(Pixel(p,
               i + p.stride)),
                           Pixel(p, i).a, Pixel(p, i + p.stride).a, d)
    BY DEF ChromaByte
  <2> HIDE DEF c1, c2, i, x, y
  <2> QED
    BY <1>4, <2>1
<1> HIDE DEF c1, c2, x, y
<1>6. /\ Over(p, site, d) \in Byte
      /\ Over(p, site, d) = ChromaByte(p, site[1], x, y, d)
  <2> DEFINE u1 == ConvertBGRAToUBT601(c1)
             u2 == ConvertBGRAToUBT601(c2)
             v1 == ConvertBGRAToVBT601(c1)
             v2 == ConvertBGRAToVBT601(c2)
  <2>1. /\ BlendChroma(u1, u2, c1.a, c2.a, d) = ChromaOver(U(c1), U(c2), c1.a, c2.a, d)
        /\ BlendChroma(v1, v2, c1.a, c2.a, d) = ChromaOver(V(c1), V(c2), c1.a, c2.a, d)
        /\ ChromaOver(U(c1), U(c2), c1.a, c2.a, d) \in Byte
        /\ ChromaOver(V(c1), V(c2), c1.a, c2.a, d) \in Byte
    <3>1. c1 \in Premultiplied /\ c2 \in Premultiplied
      BY <1>4
    <3> QED
      BY <3>1, ChromaExact
  <2>2. ChromaByte(p, site[1], x, y, d) =
          IF site[1] = "U" THEN BlendChroma(u1, u2, c1.a, c2.a, d)
          ELSE BlendChroma(v1, v2, c1.a, c2.a, d)
    BY <1>5
  <2> HIDE DEF u1, u2, v1, v2
  <2> QED
    BY <1>3, <2>1, <2>2
<1> QED
  BY <1>6 DEF x, y

(* Every byte of every layer is a byte. *)
LEMMA LayersAreBytes ==
  ASSUME NEW pictures \in Seq(SubtitlePictures), format \in Formats, NEW site \in Sites(format)
  PROVE  \A n \in 0 .. Len(pictures) : Layers(pictures, site)[n] \in Byte
<1> DEFINE L == Layers(pictures, site)
           N == Len(pictures)
           T == {n \in 0 .. N : L[n] \notin Byte}
<1>1. /\ N \in Nat /\ L[0] = FrameByte[site]
      /\ \A n \in 1 .. N : L[n] = Under(pictures[n], site, L[n - 1])
  BY LayersStep
<1>2. FrameByte[site] \in Byte
  BY FrameByteAssumption
<1> HIDE DEF L
<1>3. ASSUME T # {} PROVE FALSE
  <2>1. PICK n \in T : \A m \in T : n <= m
    <3>1. T \subseteq Nat
      BY <1>1
    <3> HIDE DEF T
    <3> QED
      BY <1>3, <3>1, LeastOf
  <2>2. n \in 0 .. N /\ L[n] \notin Byte
    OBVIOUS
  <2>3. n \in 1 .. N /\ n - 1 \in 0 .. N /\ ~ (n <= n - 1)
    BY <1>1, <1>2, <2>2
  <2>4. n - 1 \notin T
    <3> HIDE DEF T
    <3> QED
      BY <2>1, <2>3
  <2>5. L[n - 1] \in Byte
    BY <2>3, <2>4
  <2>6. L[n] = Under(pictures[n], site, L[n - 1])
    BY <1>1, <2>3
  <2>7. pictures[n] \in SubtitlePictures
    BY <2>3
  <2>8. Under(pictures[n], site, L[n - 1]) \in Byte
    BY <2>5, <2>7, OverLuma, OverChroma DEF Under
  <2> QED
    BY <2>2, <2>6, <2>8
<1> QED
  BY <1>3 DEF L

-----------------------------------------------------------------------------
(***************************************************************************)
(* How far the blending and the copying are: a byte is the one of the      *)
(* pictures before the first, and of the first as well when it covers the  *)
(* site and has no such row left; the output has the rows before row.      *)
(***************************************************************************)
Depth == Len(shown) - Len(subpics)

Remaining ==
  /\ shown \in Seq(SubtitlePictures) /\ Len(subpics) <= Len(shown)
  /\ \A i \in 1 .. Len(subpics) : subpics[i] = shown[Depth + i]

Before(site) == Layers(shown, site)[Depth]

RowDone(p, site, luma, chroma) ==
  IF site[1] = "Y" THEN site[3] - p.y \notin luma ELSE site[3] - p.y \div 2 \notin chroma

Current(site) ==
  IF subpics # <<>> /\ Covers(Head(subpics), site)
     /\ RowDone(Head(subpics), site, lumaRows, chromaRows)
  THEN Over(Head(subpics), site, Before(site)) ELSE Before(site)

SitesInv ==
  step # "idle" =>
    /\ Remaining
    /\ \A site \in Sites(format) :
         pBuffer[AddressOf(format, W, site)] = [site |-> site, byte |-> Current(site)]

CopyInv ==
  /\ step \in {"copying", "done"} =>
       \A site \in Sites(format) : RowOf(format, site) < row =>
         At(pOut, AddressOf(format, outWidth, site)) = pBuffer[AddressOf(format, W, site)]
  /\ step = "done" => row = Rows(format)

ComposedInv == FrameInv /\ SitesInv /\ CopyInv

(* What the invariant says of a frame that is done. *)
LEMMA ComposedAtEnd == ComposedInv => Composed
<1> SUFFICES ASSUME ComposedInv, step = "done", NEW site \in Sites(format)
             PROVE  At(pOut, AddressOf(format, outWidth, site))
                      = [site |-> site, byte |-> Seen(shown, site)]
  BY DEF Composed
<1>1. format \in AllFormats /\ Width(W) /\ row = Rows(format) /\ subpics = <<>>
  BY SizeFacts DEF ComposedInv, FrameInv, Measured, CopyInv
<1>2. RowOf(format, site) < row
  <2>1. RowOf(format, site) \in 0 .. Rows(format) - 1 /\ Rows(format) \in Nat
    BY <1>1, SitesInRows, RowsFit
  <2> QED
    BY <1>1, <2>1
<1>3. At(pOut, AddressOf(format, outWidth, site)) = pBuffer[AddressOf(format, W, site)]
  BY <1>2 DEF ComposedInv, CopyInv
<1>4. pBuffer[AddressOf(format, W, site)] = [site |-> site, byte |-> Current(site)]
  BY DEF ComposedInv, SitesInv
<1>5. Current(site) = Seen(shown, site)
  <2>1. Len(shown) \in Nat /\ Len(subpics) = 0
    BY <1>1 DEF ComposedInv, SitesInv, Remaining
  <2>2. Depth = Len(shown)
    BY <2>1 DEF Depth
  <2> QED
    BY <1>1, <2>2 DEF Current, Before, Seen
<1> QED
  BY <1>3, <1>4, <1>5

(* What a row of luma does to the byte of a site. *)
LEMMA LumaEffect ==
  ASSUME FrameInv, NEW y, BlendLumaRow(y), NEW site \in Sites(format)
  PROVE  LET p == Head(subpics)
             a == AddressOf(format, W, site)
             i == p.stride * y + (site[2] - p.x)
         IN  pBuffer'[a] = IF site[1] = "Y" /\ Covers(p, site) /\ site[3] - p.y = y
                           THEN [pBuffer[a] EXCEPT !.byte = BlendLuma(Pixel(p, i), @)]
                           ELSE pBuffer[a]
<1> DEFINE p == Head(subpics)
           a == AddressOf(format, W, site)
           place == [x \in 0 .. p.w - 1 |-> LumaAddress(p, x, y)]
           column(address) == CHOOSE x \in 0 .. p.w - 1 : place[x] = address
           written == {place[x] : x \in 0 .. p.w - 1}
           x0 == site[2] - p.x
           i == p.stride * y + x0
           hit == site[1] = "Y" /\ Covers(p, site) /\ site[3] - p.y = y
<1>1. subpics # <<>> /\ y \in lumaRows
  BY DEF FrameInv, FirstHas, BlendLumaRow
<1>2. /\ p \in SubtitlePictures /\ format \in Planar /\ format \in Formats
      /\ format \in AllFormats /\ Width(W)
      /\ y \in LumaRows(p) /\ DOMAIN pBuffer = 0 .. SizeImage(format, W) - 1
  BY <1>1, FirstPicture
<1>3. a \in DOMAIN pBuffer /\ \A t \in Sites(format) : a = AddressOf(format, W, t) => site = t
  BY <1>2, AddressesApart
<1>4. pBuffer'[a] = IF a \in written
                    THEN [pBuffer[a] EXCEPT
                            !.byte = BlendLuma(Pixel(p, p.stride * y + column(a)), @)]
                    ELSE pBuffer[a]
  <2> DEFINE new(address) ==
               IF address \in written
               THEN [pBuffer[address] EXCEPT
                       !.byte = BlendLuma(Pixel(p, p.stride * y + column(address)), @)]
               ELSE pBuffer[address]
  <2>1. pBuffer' = [address \in DOMAIN pBuffer |-> new(address)]
    BY Zenon DEF BlendLumaRow
  <2> HIDE DEF new, a
  <2>2. pBuffer'[a] = new(a)
    BY <1>3, <2>1
  <2> QED
    BY <2>2 DEF new
<1>5. ASSUME NEW x \in 0 .. p.w - 1, place[x] = a
      PROVE  hit /\ x = x0
  <2>1. LumaSite(p, x, y) \in Sites(format) /\ LumaAddress(p, x, y) = AddressOf(format, W,
       LumaSite(p, x, y))
    BY <1>2, LumaPlaces
  <2>2. site = LumaSite(p, x, y)
    BY <1>3, <1>5, <2>1
  <2>3. site[1] = "Y" /\ site[2] = p.x + x /\ site[3] = p.y + y
    BY <2>2 DEF LumaSite
  <2>4. /\ p.x \in Nat /\ p.y \in Nat /\ p.w \in Nat /\ p.h \in Nat
        /\ y \in 0 .. p.h - 1
    BY <1>2, PictureFacts DEF LumaRows
  <2>5. Covers(p, site)
    <3>1. site[2] \in p.x .. p.x + p.w - 1 /\ site[3] \in p.y .. p.y + p.h - 1
      BY <2>3, <2>4
    <3> QED
      BY <2>3, <3>1 DEF Covers
  <2> QED
    BY <2>3, <2>4, <2>5
<1>6. ASSUME hit
      PROVE  x0 \in 0 .. p.w - 1 /\ place[x0] = a
  <2>1. x0 \in 0 .. p.w - 1 /\ site = LumaSite(p, x0, site[3] - p.y)
    BY <1>2, <1>6, CoveredLuma
  <2>2. site = LumaSite(p, x0, y)
    BY <1>6, <2>1
  <2> HIDE DEF x0
  <2>3. LumaAddress(p, x0, y) = AddressOf(format, W, LumaSite(p, x0, y))
    BY <1>2, <2>1, LumaPlaces
  <2> QED
    BY <2>1, <2>2, <2>3
<1>7. CASE hit
  <2>1. column(a) = x0
    <3> HIDE DEF a, place, x0, hit
    <3> QED
      BY <1>5, <1>6, <1>7
  <2>2. a \in written
    <3> HIDE DEF a, place, x0, hit
    <3> QED
      BY <1>6, <1>7
  <2> HIDE DEF a, column, written, hit, x0
  <2> QED
    BY <1>4, <1>7, <2>1, <2>2 DEF hit, a, x0
<1>8. CASE ~ hit
  <2>1. a \notin written
    <3> HIDE DEF a, place, x0, hit
    <3> QED
      BY <1>5, <1>8
  <2> HIDE DEF a, column, written
  <2> QED
    BY <1>4, <1>8, <2>1 DEF a
<1> QED
  BY <1>7, <1>8

(* What a row of chroma does to the byte of a site. *)
LEMMA ChromaEffect ==
  ASSUME FrameInv, NEW y, BlendChromaRow(y), NEW site \in Sites(format)
  PROVE  LET p == Head(subpics)
             a == AddressOf(format, W, site)
             x == site[2] - p.x \div 2
         IN  pBuffer'[a] =
               IF site[1] # "Y" /\ Covers(p, site) /\ site[3] - p.y \div 2 = y
               THEN [pBuffer[a] EXCEPT !.byte = ChromaByte(p, site[1], x, y, @)]
               ELSE pBuffer[a]
<1> DEFINE p == Head(subpics)
           a == AddressOf(format, W, site)
           places == {"U", "V"} \X ChromaColumns(p)
           address(place) == ChromaAddress(p, place[1], place[2], y)
           placeAt(b) == CHOOSE place \in places : address(place) = b
           written == {address(place) : place \in places}
           x0 == site[2] - p.x \div 2
           hit == site[1] # "Y" /\ Covers(p, site) /\ site[3] - p.y \div 2 = y
<1>1. subpics # <<>> /\ y \in chromaRows
  BY DEF FrameInv, FirstHas, BlendChromaRow
<1>2. /\ p \in SubtitlePictures /\ format \in Planar /\ format \in Formats
      /\ format \in AllFormats /\ Width(W)
      /\ y \in ChromaRows(p) /\ DOMAIN pBuffer = 0 .. SizeImage(format, W) - 1
  BY <1>1, FirstPicture
<1>3. a \in DOMAIN pBuffer /\ \A t \in Sites(format) : a = AddressOf(format, W, t) => site = t
  BY <1>2, AddressesApart
<1>4. pBuffer'[a] =
        IF a \in written
        THEN [pBuffer[a] EXCEPT !.byte = ChromaByte(p, placeAt(a)[1], placeAt(a)[2], y, @)]
        ELSE pBuffer[a]
  <2> DEFINE new(b) ==
               IF b \in written
               THEN [pBuffer[b] EXCEPT !.byte = ChromaByte(p, placeAt(b)[1], placeAt(b)[2],
                    y, @)]
               ELSE pBuffer[b]
  <2>1. pBuffer' = [b \in DOMAIN pBuffer |-> new(b)]
    BY Zenon DEF BlendChromaRow, ChromaByte
  <2> HIDE DEF new, a
  <2>2. pBuffer'[a] = new(a)
    BY <1>3, <2>1
  <2> QED
    BY <2>2 DEF new
<1>5. ASSUME NEW plane \in {"U", "V"}, NEW x \in ChromaColumns(p), ChromaAddress(p, plane,
     x, y) = a
      PROVE  hit /\ plane = site[1] /\ x = x0
  <2>1. /\ ChromaSite(p, plane, x, y) \in Sites(format)
        /\ ChromaAddress(p, plane, x, y) = AddressOf(format, W, ChromaSite(p, plane, x, y))
    BY <1>2, ChromaPlaces
  <2>2. site = ChromaSite(p, plane, x, y)
    BY <1>3, <1>5, <2>1
  <2> DEFINE i == p.x \div 2
             j == p.y \div 2
  <2>3. site[1] = plane /\ site[2] = i + x /\ site[3] = j + y
    BY <2>2 DEF ChromaSite
  <2>4. i \in Nat /\ j \in Nat /\ x \in Int /\ y \in Int
    <3>1. p.x \in Nat /\ p.y \in Nat
      BY <1>2, PictureFacts
    <3>2. i \in Nat /\ j \in Nat
      BY <3>1
    <3>3. x \in Int /\ y \in Int
      BY <1>2 DEF ChromaRows, ChromaColumns
    <3> QED
      BY <3>2, <3>3
  <2> HIDE DEF i, j
  <2>5. site[2] - i = x /\ site[3] - j = y
    BY <2>3, <2>4
  <2>6. Covers(p, site)
    BY <1>2, <2>3, <2>5 DEF Covers, ChromaRows, ChromaColumns, i, j
  <2> QED
    BY <2>3, <2>5, <2>6 DEF i, j
<1>6. ASSUME hit
      PROVE  /\ site[1] \in {"U", "V"} /\ x0 \in ChromaColumns(p)
             /\ ChromaAddress(p, site[1], x0, y) = a
  <2>1. /\ site[1] \in {"U", "V"} /\ x0 \in ChromaColumns(p)
        /\ site = ChromaSite(p, site[1], x0, site[3] - p.y \div 2)
    BY <1>2, <1>6, CoveredChroma
  <2>2. site = ChromaSite(p, site[1], x0, y)
    BY <1>6, <2>1
  <2> HIDE DEF x0
  <2>3. ChromaAddress(p, site[1], x0, y) = AddressOf(format, W, ChromaSite(p, site[1], x0, y))
    BY <1>2, <2>1, ChromaPlaces
  <2> QED
    BY <2>1, <2>2, <2>3
<1>7. \A place \in places :
        place[1] \in {"U", "V"} /\ place[2] \in ChromaColumns(p) /\ place = <<place[1],
             place[2]>>
  <2> HIDE DEF p
  <2> QED
    OBVIOUS
<1>8. CASE hit
  <2> DEFINE q == <<site[1], x0>>
  <2>1. q \in places /\ address(q) = a
    <3> HIDE DEF a, x0, hit
    <3> QED
      BY <1>6, <1>8
  <2>2. \A place \in places : address(place) = a => place = q
    <3> HIDE DEF a, x0, hit, p
    <3> QED
      BY <1>5, <1>7
  <2>3. placeAt(a) = q /\ a \in written
    <3> HIDE DEF a, places, address, q
    <3> QED
      BY <2>1, <2>2
  <2>4. q[1] = site[1] /\ q[2] = x0
    OBVIOUS
  <2> HIDE DEF a, placeAt, written, hit, x0, q
  <2> QED
    BY <1>4, <1>8, <2>3, <2>4 DEF hit, a, x0
<1>9. CASE ~ hit
  <2>1. a \notin written
    <3> HIDE DEF a, x0, hit, p
    <3> QED
      BY <1>5, <1>7, <1>9
  <2> HIDE DEF a, placeAt, written
  <2> QED
    BY <1>4, <1>9, <2>1 DEF a
<1> QED
  BY <1>8, <1>9

(* A new frame is the input, without a picture. *)
LEMMA SitesStart ==
  ASSUME NEW width \in OutWidths, NEW pictures \in PictureLists, FrameInv,
         StartFrame(width, pictures)
  PROVE  SitesInv'
<1>1. /\ format' = format /\ shown' = pictures /\ subpics' = pictures
      /\ pBuffer' = InputFrame[format] /\ FirstRows(pictures)
  BY DEF StartFrame
<1>2. format \in Formats /\ pictures \in Seq(SubtitlePictures) /\ Len(pictures) \in Nat
  BY PictureListsAreSequences DEF FrameInv, Measured
<1>3. Depth' = 0
  BY <1>1, <1>2 DEF Depth
<1>4. Remaining'
  BY <1>1, <1>2, <1>3 DEF Remaining, Depth
<1>5. ASSUME NEW site \in Sites(format)
      PROVE  pBuffer'[AddressOf(format, W, site)] = [site |-> site, byte |-> Current(site)']
  <2>1. pBuffer'[AddressOf(format, W, site)] = [site |-> site, byte |-> FrameByte[site]]
    BY <1>1, <1>2, InputSites
  <2>2. Before(site)' = FrameByte[site]
    <3>1. Before(site)' = Layers(pictures, site)[0]
      BY <1>1, <1>3 DEF Before
    <3> QED
      BY <1>2, <3>1, LayersStep
  <2>3. ASSUME pictures # <<>>, Covers(Head(pictures), site)
        PROVE  ~ RowDone(Head(pictures), site, lumaRows', chromaRows')
    <3>1. Head(pictures) \in SubtitlePictures
      BY <1>2, <2>3
    <3>2. lumaRows' = LumaRows(Head(pictures)) /\ chromaRows' = ChromaRows(Head(pictures))
      BY <1>1, <2>3 DEF FirstRows
    <3> QED
      BY <1>2, <2>3, <3>1, <3>2, CoveredLuma, CoveredChroma DEF RowDone
  <2>4. Current(site)' = FrameByte[site]
    BY <1>1, <2>2, <2>3 DEF Current
  <2> QED
    BY <2>1, <2>4
<1> QED
  BY <1>1, <1>4, <1>5 DEF SitesInv

(* The bytes so far are bytes. *)
LEMMA BeforeIsByte ==
  ASSUME FrameInv, SitesInv, step # "idle", NEW site \in Sites(format)
  PROVE  Before(site) \in Byte
<1>1. format \in Formats /\ shown \in Seq(SubtitlePictures) /\ subpics \in Seq(SubtitlePictures)
      /\ Len(subpics) <= Len(shown)
  BY DEF FrameInv, Measured, SitesInv, Remaining
<1>2. Depth \in 0 .. Len(shown)
  <2>1. Len(shown) \in Nat /\ Len(subpics) \in Nat
    BY <1>1
  <2> QED
    BY <1>1, <2>1 DEF Depth
<1> QED
  BY <1>1, <1>2, LayersAreBytes DEF Before

(* A row of luma puts the picture over the bytes of that row. *)
LEMMA SitesLuma ==
  ASSUME FrameInv, SitesInv, NEW y, BlendLumaRow(y)
  PROVE  SitesInv'
<1> DEFINE p == Head(subpics)
<1>1. /\ UNCHANGED <<format, shown, subpics, chromaRows, step>> /\ lumaRows' = lumaRows \ {y}
      /\ step = "blending" /\ y \in lumaRows
  BY DEF BlendLumaRow
<1>2. subpics # <<>>
  BY <1>1 DEF FrameInv, FirstHas
<1>3. Remaining'
  BY <1>1 DEF SitesInv, Remaining, Depth
<1>4. ASSUME NEW site \in Sites(format)
      PROVE  pBuffer'[AddressOf(format, W, site)] = [site |-> site, byte |-> Current(site)']
  <2> DEFINE a == AddressOf(format, W, site)
             d == Before(site)
             i == p.stride * y + (site[2] - p.x)
             hit == site[1] = "Y" /\ Covers(p, site) /\ site[3] - p.y = y
  <2>1. d \in Byte /\ p \in SubtitlePictures /\ format \in Formats
    BY <1>1, <1>2, BeforeIsByte, FirstPicture
  <2>2. pBuffer[a] = [site |-> site, byte |-> Current(site)]
    BY <1>1 DEF SitesInv
  <2>3. pBuffer'[a] = IF hit THEN [pBuffer[a] EXCEPT !.byte = BlendLuma(Pixel(p, i),
       @)] ELSE pBuffer[a]
    BY LumaEffect
  <2>4. Before(site)' = d
    BY <1>1 DEF Before, Depth
  <2>5. CASE hit
    <3>1. Current(site) = d /\ Current(site)' = Over(p, site, d)
      BY <1>1, <1>2, <2>4, <2>5 DEF Current, RowDone
    <3>2. Over(p, site, d) = BlendLuma(Pixel(p, i), d)
      <4>1. Over(p, site, d) = BlendLuma(Pixel(p,
           p.stride * (site[3] - p.y) + (site[2] - p.x)), d)
        BY <2>1, <2>5, OverLuma
      <4> QED
        BY <2>5, <4>1
    <3> HIDE DEF a, d, i, hit, p
    <3>3. pBuffer[a] = [site |-> site, byte |-> d]
      BY <2>2, <3>1
    <3>4. pBuffer'[a] = [pBuffer[a] EXCEPT !.byte = BlendLuma(Pixel(p, i), @)]
      BY <2>3, <2>5
    <3>5. pBuffer'[a] = [site |-> site, byte |-> BlendLuma(Pixel(p, i), d)]
      BY <3>3, <3>4
    <3>6. pBuffer'[a] = [site |-> site, byte |-> Current(site)']
      BY <3>1, <3>2, <3>5
    <3> QED
      BY <3>6 DEF a
  <2>6. CASE ~ hit
    <3>1. Covers(p, site) => (RowDone(p, site, lumaRows, chromaRows)
                                <=> RowDone(p, site, lumaRows', chromaRows'))
      BY <1>1, <2>6 DEF RowDone
    <3>2. Current(site)' = Current(site)
      BY <1>1, <1>2, <2>4, <3>1 DEF Current
    <3> QED
      BY <2>2, <2>3, <2>6, <3>2
  <2> QED
    BY <2>5, <2>6
<1> QED
  BY <1>1, <1>3, <1>4 DEF SitesInv

(* A row of chroma does so in both planes. *)
LEMMA SitesChroma ==
  ASSUME FrameInv, SitesInv, NEW y, BlendChromaRow(y)
  PROVE  SitesInv'
<1> DEFINE p == Head(subpics)
<1>1. /\ UNCHANGED <<format, shown, subpics, lumaRows, step>> /\ chromaRows' = chromaRows \ {y}
      /\ step = "blending" /\ y \in chromaRows
  BY DEF BlendChromaRow
<1>2. subpics # <<>>
  BY <1>1 DEF FrameInv, FirstHas
<1>3. Remaining'
  BY <1>1 DEF SitesInv, Remaining, Depth
<1>4. ASSUME NEW site \in Sites(format)
      PROVE  pBuffer'[AddressOf(format, W, site)] = [site |-> site, byte |-> Current(site)']
  <2> DEFINE a == AddressOf(format, W, site)
             d == Before(site)
             x == site[2] - p.x \div 2
             hit == site[1] # "Y" /\ Covers(p, site) /\ site[3] - p.y \div 2 = y
  <2>1. d \in Byte /\ p \in SubtitlePictures /\ format \in Formats
    BY <1>1, <1>2, BeforeIsByte, FirstPicture
  <2>2. pBuffer[a] = [site |-> site, byte |-> Current(site)]
    BY <1>1 DEF SitesInv
  <2>3. pBuffer'[a] = IF hit THEN [pBuffer[a] EXCEPT !.byte = ChromaByte(p, site[1], x, y, @)]
                      ELSE pBuffer[a]
    BY ChromaEffect
  <2>4. Before(site)' = d
    BY <1>1 DEF Before, Depth
  <2>5. CASE hit
    <3>1. Current(site) = d /\ Current(site)' = Over(p, site, d)
      BY <1>1, <1>2, <2>4, <2>5 DEF Current, RowDone
    <3>2. Over(p, site, d) = ChromaByte(p, site[1], x, y, d)
      <4>1. Over(p, site, d) = ChromaByte(p, site[1], x, site[3] - p.y \div 2, d)
        BY <2>1, <2>5, OverChroma
      <4> QED
        BY <2>5, <4>1
    <3> HIDE DEF a, d, x, hit, p
    <3>3. pBuffer[a] = [site |-> site, byte |-> d]
      BY <2>2, <3>1
    <3>4. pBuffer'[a] = [pBuffer[a] EXCEPT !.byte = ChromaByte(p, site[1], x, y, @)]
      BY <2>3, <2>5
    <3>5. pBuffer'[a] = [site |-> site, byte |-> ChromaByte(p, site[1], x, y, d)]
      BY <3>3, <3>4
    <3>6. pBuffer'[a] = [site |-> site, byte |-> Current(site)']
      BY <3>1, <3>2, <3>5
    <3> QED
      BY <3>6 DEF a
  <2>6. CASE ~ hit
    <3>1. Covers(p, site) => (RowDone(p, site, lumaRows, chromaRows)
                                <=> RowDone(p, site, lumaRows', chromaRows'))
      BY <1>1, <2>6 DEF RowDone
    <3>2. Current(site)' = Current(site)
      BY <1>1, <1>2, <2>4, <3>1 DEF Current
    <3> QED
      BY <2>2, <2>3, <2>6, <3>2
  <2> QED
    BY <2>5, <2>6
<1> QED
  BY <1>1, <1>3, <1>4 DEF SitesInv

(* A picture whose rows are all done is a layer. *)
LEMMA SitesPicture ==
  ASSUME FrameInv, SitesInv, NextPicture
  PROVE  SitesInv'
<1> DEFINE p == Head(subpics)
<1>1. /\ UNCHANGED <<format, shown, pBuffer, step>> /\ subpics' = Tail(subpics)
      /\ step = "blending" /\ subpics # <<>> /\ lumaRows = {} /\ chromaRows = {}
      /\ FirstRows(Tail(subpics))
  BY DEF NextPicture
<1>2. /\ shown \in Seq(SubtitlePictures) /\ subpics \in Seq(SubtitlePictures) /\ Tail(subpics) \in Seq(SubtitlePictures)
      /\ Len(subpics) \in Nat \ {0} /\ Len(shown) \in Nat /\ Len(subpics) <= Len(shown)
      /\ Len(Tail(subpics)) = Len(subpics) - 1 /\ format \in Formats
      /\ \A i \in 1 .. Len(subpics) - 1 : Tail(subpics)[i] = subpics[i + 1]
      /\ p = subpics[1]
  BY <1>1 DEF SitesInv, Remaining, FrameInv, Measured
<1>3. Depth \in 0 .. Len(shown) - 1 /\ Depth' = Depth + 1
  BY <1>1, <1>2 DEF Depth
<1>4. \A i \in 1 .. Len(subpics) : subpics[i] = shown[Depth + i]
  BY <1>1 DEF SitesInv, Remaining
<1>5. Remaining'
  <2>1. ASSUME NEW i \in 1 .. Len(subpics) - 1
        PROVE  Tail(subpics)[i] = shown[Depth + 1 + i]
    <3>1. i + 1 \in 1 .. Len(subpics) /\ Depth + (i + 1) = Depth + 1 + i
      BY <1>2, <1>3
    <3>2. subpics[i + 1] = shown[Depth + (i + 1)]
      BY <1>4, <3>1
    <3> QED
      BY <1>2, <3>1, <3>2
  <2>2. Len(Tail(subpics)) <= Len(shown)
    BY <1>2
  <2> QED
    BY <1>1, <1>2, <1>3, <2>1, <2>2 DEF Remaining
<1>6. ASSUME NEW site \in Sites(format)
      PROVE  pBuffer'[AddressOf(format, W, site)] = [site |-> site, byte |-> Current(site)']
  <2>1. pBuffer[AddressOf(format, W, site)] = [site |-> site, byte |-> Current(site)]
    BY <1>1 DEF SitesInv
  <2>2. Current(site) = Under(p, site, Before(site))
    BY <1>1 DEF Current, Under, RowDone
  <2>3. Before(site)' = Under(p, site, Before(site))
    <3>1. Before(site)' = Layers(shown, site)[Depth + 1]
      BY <1>1, <1>3 DEF Before
    <3>2. Depth + 1 \in 1 .. Len(shown) /\ Depth + 1 - 1 = Depth
      BY <1>2, <1>3
    <3>3. p = shown[Depth + 1]
      BY <1>2, <1>4
    <3>4. PICK n \in 1 .. Len(shown) : n = Depth + 1 /\ n - 1 = Depth
      <4>1. Depth \in Int
        BY <1>2, <1>3
      <4> HIDE DEF Depth
      <4> QED
        BY <3>2, <4>1
    <3>5. Layers(shown, site)[n] = Under(shown[n], site, Layers(shown, site)[n - 1])
      <4>1. shown \in Seq(SubtitlePictures)
        BY <1>2
      <4> QED
        BY <4>1, LayersStep
    <3>6. Before(site)' = Under(p, site, Layers(shown, site)[Depth])
      BY <3>1, <3>3, <3>4, <3>5
    <3> QED
      BY <3>6 DEF Before
  <2>4. ASSUME subpics' # <<>>, Covers(Head(subpics'), site)
        PROVE  ~ RowDone(Head(subpics'), site, lumaRows', chromaRows')
    <3> DEFINE q == Head(subpics')
    <3>1. q \in SubtitlePictures
      BY <1>1, <1>2, <2>4
    <3>2. lumaRows' = LumaRows(q) /\ chromaRows' = ChromaRows(q)
      BY <1>1, <2>4 DEF FirstRows
    <3> HIDE DEF q
    <3>3. Covers(q, site)
      BY <2>4 DEF q
    <3>4. ~ RowDone(q, site, lumaRows', chromaRows')
      BY <1>2, <3>1, <3>2, <3>3, CoveredLuma, CoveredChroma DEF RowDone
    <3> QED
      BY <3>4 DEF q
  <2>5. Current(site)' = Before(site)'
    BY <2>4 DEF Current
  <2> QED
    BY <1>1, <2>1, <2>2, <2>3, <2>5
<1> QED
  BY <1>1, <1>5, <1>6 DEF SitesInv

(* The other steps leave the aligned buffer alone, or give it away. *)
LEMMA SitesRest ==
  ASSUME SitesInv, Blended \/ CopyRow \/ Copied \/ Return \/ UNCHANGED frameVars
  PROVE  SitesInv'
<1>1. CASE Return
  BY <1>1 DEF Return, SitesInv
<1>2. CASE Blended \/ CopyRow \/ Copied \/ UNCHANGED frameVars
  <2>1. /\ UNCHANGED <<format, pBuffer, shown, subpics, lumaRows, chromaRows>>
        /\ step' # "idle" => step # "idle"
    BY <1>2 DEF Blended, CopyRow, Copied, frameVars
  <2> QED
    BY <2>1 DEF SitesInv, Remaining, Depth, Current, Before
<1> QED
  BY <1>1, <1>2

(* A copied row has the bytes of its sites, and leaves the rows before it. *)
LEMMA CopyOfRow ==
  ASSUME FrameInv, SitesInv, CopyInv, CopyRow
  PROVE  CopyInv'
<1> DEFINE r == RowAt(row)
           written == r.to .. r.to + r.length - 1
<1>1. /\ Measured /\ step = "copying" /\ step' = step
      /\ format \in AllFormats /\ Width(W) /\ Width(outWidth)
      /\ DOMAIN pBuffer = 0 .. SizeImage(format, W) - 1
      /\ DOMAIN pOut = 0 .. SizeImage(format, outWidth) - 1
      /\ UNCHANGED <<format, outWidth, pBuffer>> /\ row' = row + 1
  BY SizeFacts DEF FrameInv, Measured, CopyRow
<1>2. row \in Nat /\ row \in 0 .. Rows(format) - 1
  <2>1. row \in 0 .. Rows(format) /\ row < RowsToCopy /\ RowsToCopy = Rows(format)
    BY <1>1, RowsAreCopied DEF FrameInv, CopyRow
  <2>2. Rows(format) \in Nat
    BY <1>1, RowsFit
  <2> QED
    BY <2>1, <2>2
<1>3. /\ r.from = StartOf(format, W, row) /\ r.to = StartOf(format, outWidth, row)
      /\ r.length = LengthOf(format, W, row)
  BY <1>1, <1>2, RowsAreCopied
<1>4. pOut' = [a \in DOMAIN pOut |-> IF a \in written THEN At(pBuffer,
     r.from + (a - r.to)) ELSE pOut[a]]
  BY Zenon DEF CopyRow
<1>5. ASSUME NEW site \in Sites(format), RowOf(format, site) < row + 1
      PROVE  At(pOut', AddressOf(format, outWidth, site)) = pBuffer[AddressOf(format, W, site)]
  <2> DEFINE a == AddressOf(format, outWidth, site)
             b == AddressOf(format, W, site)
             n == RowOf(format, site)
             k == PlaceIn(format, site)
             target(i) == StartOf(format, outWidth, i)
             long(i) == LengthOf(format, outWidth, i)
             short(i) == LengthOf(format, W, i)
             in(i) == StartOf(format, W, i)
  <2>1. a \in DOMAIN pOut /\ b \in DOMAIN pBuffer
    BY <1>1, AddressesApart
  <2>2. n \in 0 .. Rows(format) - 1 /\ k \in 0 .. short(n) - 1 /\ a = target(n) + k
    /\ b = in(n) + k
    BY <1>1, SitesInRows
  <2>3. n \in Nat /\ Rows(format) \in Nat
    BY <1>1, <2>2, RowsFit
  <2>4. \A i \in Nat : /\ target(i) \in Nat /\ long(i) \in Nat /\ in(i) \in Nat /\ short(i) \in Nat
                       /\ short(i) <= long(i)
                       /\ \A j \in Nat : i < j => target(i) + long(i) <= target(j)
    <3> TAKE i \in Nat
    <3>1. i + 1 \in Nat /\ i < i + 1
      OBVIOUS
    <3>2. target(i) \in Nat /\ long(i) \in Nat /\ in(i) \in Nat /\ short(i) \in Nat
      BY <1>1, <3>1, RowsFollow
    <3>3. short(i) <= long(i)
      BY <1>1, RowsGrow
    <3>4. \A j \in Nat : i < j => target(i) + long(i) <= target(j)
      BY <1>1, RowsFollow
    <3> QED
      BY <3>2, <3>3, <3>4
  <2> HIDE DEF a, b, n, k, target, long, short, in, r
  <2>5. /\ r.from = in(row) /\ r.to = target(row) /\ r.length = short(row)
    BY <1>3 DEF in, target, short
  <2>6. At(pOut', a) = IF a \in written THEN At(pBuffer, r.from + (a - r.to)) ELSE pOut[a]
    <3> HIDE DEF written
    <3>1. a \in DOMAIN pOut'
      BY <1>4, <2>1
    <3>2. pOut'[a] = IF a \in written THEN At(pBuffer, r.from + (a - r.to)) ELSE pOut[a]
      BY <1>4, <2>1
    <3> QED
      BY <3>1, <3>2 DEF At
  <2>7. CASE n = row
    <3>1. a \in written /\ r.from + (a - r.to) = b
      <4>1. /\ target(row) \in Nat /\ in(row) \in Nat /\ short(row) \in Nat
            /\ k \in 0 .. short(row) - 1 /\ a = target(row) + k /\ b = in(row) + k
        BY <1>2, <2>2, <2>4, <2>7
      <4>2. a \in target(row) .. target(row) + short(row) - 1 /\ in(row) + (a - target(row)) = b
        BY <4>1
      <4> QED
        BY <2>5, <4>2
    <3>2. At(pBuffer, b) = pBuffer[b]
      BY <2>1 DEF At
    <3> HIDE DEF written
    <3>3. At(pOut', a) = pBuffer[b]
      BY <2>6, <3>1, <3>2
    <3> QED
      BY <3>3 DEF a, b
  <2>8. CASE n < row
    <3>1. a < target(row)
      BY <1>2, <2>2, <2>3, <2>4, <2>8
    <3>2. a \notin written
      BY <1>2, <2>4, <2>5, <3>1
    <3>3. At(pOut, a) = pBuffer[b]
      BY <1>1, <2>8 DEF CopyInv, a, b, n
    <3>4. At(pOut, a) = pOut[a]
      BY <2>1 DEF At
    <3> HIDE DEF written
    <3>5. At(pOut', a) = pBuffer[b]
      BY <2>6, <3>2, <3>3, <3>4
    <3> QED
      BY <3>5 DEF a, b
  <2> QED
    BY <1>2, <1>5, <2>3, <2>7, <2>8 DEF n
<1> QED
  BY <1>1, <1>5 DEF CopyInv

(* The other steps leave the output alone, or begin it. *)
LEMMA CopyRest ==
  ASSUME FrameInv, CopyInv,
         \/ \E width \in OutWidths, pictures \in PictureLists : StartFrame(width, pictures)
         \/ \E y \in 0 .. H - 1 : BlendLumaRow(y) \/ BlendChromaRow(y)
         \/ NextPicture \/ Blended \/ Copied \/ Return \/ UNCHANGED frameVars
  PROVE  CopyInv'
<1>1. CASE (\E width \in OutWidths, pictures \in PictureLists : StartFrame(width,
     pictures)) \/ Return
  BY <1>1 DEF StartFrame, Return, CopyInv
<1>2. CASE (\E y \in 0 .. H - 1 : BlendLumaRow(y) \/ BlendChromaRow(y)) \/ NextPicture
  BY <1>2 DEF BlendLumaRow, BlendChromaRow, NextPicture, CopyInv
<1>3. CASE Blended
  <2>1. step' = "copying" /\ row' = 0 /\ format' = format
    <3>1. row = 0
      BY <1>3 DEF Blended, FrameInv
    <3> QED
      BY <1>3, <3>1 DEF Blended
  <2>2. ASSUME NEW site \in Sites(format) PROVE ~ (RowOf(format, site) < 0)
    <3>1. format \in AllFormats /\ Width(W)
      BY SizeFacts DEF FrameInv, Measured
    <3>2. RowOf(format, site) \in 0 .. Rows(format) - 1 /\ Rows(format) \in Nat
      BY <3>1, SitesInRows, RowsFit
    <3> QED
      BY <3>2
  <2> QED
    BY <2>1, <2>2 DEF CopyInv
<1>4. CASE Copied
  <2>1. row = Rows(format)
    BY <1>4, RowsAreCopied DEF FrameInv, Copied
  <2>2. UNCHANGED <<format, outWidth, pBuffer, pOut, row>> /\ step = "copying"
    BY <1>4 DEF Copied
  <2> QED
    BY <2>1, <2>2 DEF CopyInv, Rows, RowsOfBytes
<1>5. CASE UNCHANGED frameVars
  BY <1>5 DEF frameVars, CopyInv, Rows, RowsOfBytes
<1> QED
  BY <1>1, <1>2, <1>3, <1>4, <1>5

(* Whatever pictures lie wherever over each other, in whatever order the   *)
(* rows are blended and however long the rows of the output: what          *)
(* Transform delivers has every byte of the format at its place, and it is *)
(* the input's under the pictures, without a wrap-around                   *)
(* (SubPicBlender.cpp:86-352, DXSubFilter.cpp:505-541).                    *)
THEOREM FramesAreComposed == FrameSpec => []Composed
<1>1. FrameInit => ComposedInv
  BY FrameInvAtStart DEF FrameInit, ComposedInv, SitesInv, CopyInv
<1>2. ComposedInv /\ [FrameNext]_frameVars => ComposedInv'
  <2> SUFFICES ASSUME ComposedInv, [FrameNext]_frameVars PROVE ComposedInv'
    OBVIOUS
  <2>1. FrameInv /\ SitesInv /\ CopyInv
    BY DEF ComposedInv
  <2>2. FrameInv'
    BY <2>1, FrameInvKept
  <2>3. SitesInv'
    <3>1. ASSUME NEW width \in OutWidths, NEW pictures \in PictureLists,
                 StartFrame(width, pictures)
          PROVE  SitesInv'
      BY <2>1, <3>1, SitesStart
    <3>2. ASSUME NEW y \in 0 .. H - 1, BlendLumaRow(y) \/ BlendChromaRow(y)
          PROVE  SitesInv'
      BY <2>1, <3>2, SitesLuma, SitesChroma
    <3>3. ASSUME NextPicture \/ CopyRow \/ Blended \/ Copied \/ Return \/ UNCHANGED frameVars
          PROVE  SitesInv'
      BY <2>1, <3>3, SitesPicture, SitesRest
    <3> QED
      BY <3>1, <3>2, <3>3 DEF FrameNext
  <2>4. CopyInv'
    BY <2>1, CopyOfRow, CopyRest DEF FrameNext
  <2> QED
    BY <2>2, <2>3, <2>4 DEF ComposedInv
<1> QED
  BY <1>1, <1>2, ComposedAtEnd, PTL DEF FrameSpec
=============================================================================
