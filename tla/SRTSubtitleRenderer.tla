------------------------- MODULE SRTSubtitleRenderer -------------------------
(***************************************************************************)
(* The subtitle store and the picture cache of SRTSubtitleRenderer         *)
(* (source/subtitlecore/SRTSubtitleRenderer.cpp): ParseLine fills the      *)
(* store, Invalidate empties it, and one video frame asks for its pictures *)
(* in two calls, GetSubtitlePictureCount and then GetSubtitlePicture.      *)
(*                                                                         *)
(* Text is a model value; what stripping the tags leaves of it is the      *)
(* constant function Strip.  A REFERENCE_TIME is an integer, a time span a *)
(* pair <<start, end>>.  The glyphs of a picture are left out; what is     *)
(* kept of its place on the screen is its slot, the number of pictures the *)
(* drawing origin had been moved past when it was drawn.                   *)
(***************************************************************************)
EXTENDS Integers, Sequences, FiniteSets

CONSTANTS
  Lines,        \* the texts a line can have, with tags or without
  Strip,        \* Strip[l] is the text ParseLine stores for the line l
  Times,        \* the times lines start and end at and frames are shown at
  Never,        \* before all of Times: no frame since the last Invalidate
  HeadNodes,    \* what the memory behind m_SubtitleTimeSpans.end() can hold
  MaxPerStart,  \* bound: lines stored for one start time
  MaxPictures   \* bound: pictures in the cache when a frame begins

ASSUME RendererAssumption ==
  /\ Strip \in [Lines -> Lines]
  /\ Times \subseteq Int
  /\ Never \in Int /\ \A t \in Times : Never < t
  /\ HeadNodes \subseteq Int \X Int
  /\ MaxPerStart \in Nat /\ MaxPictures \in Nat

VARIABLES
  m_SubtitleMap,        \* start time -> the entries stored for it
  m_SubtitleTimeSpans,  \* the spans of the entries
  m_ValidSubtitleTimes, \* the spans taken to be on screen
  m_RenderedSubtitles,  \* the cached pictures
  headNode,             \* the value *end() reads; never initialised or written
  pending,              \* a count was returned and its pictures not yet fetched
  count,                \* the last count returned
  clock,                \* history: the last rtNow since the last Invalidate
  out                   \* the pictures stored into the caller's array

store == <<m_SubtitleMap, m_SubtitleTimeSpans>>
cache == <<m_ValidSubtitleTimes, m_RenderedSubtitles>>
vars == <<store, cache, headNode, pending, count, clock, out>>

Span == Times \X Times
Entry == [Text : Lines, StartTime : Times, EndTime : Times]
SpanOf(e) == <<e.StartTime, e.EndTime>>

(***************************************************************************)
(* A node of the list m_RenderedSubtitles.  span and index are the valid   *)
(* span and the vector element that the render loop drew it for; copy      *)
(* tells it from the nodes that loop had put there for the same two.       *)
(***************************************************************************)
Picture == [entry : Entry, span : Int \X Int, index : Nat, slot : Nat, copy : Nat]

SRTInit ==
  /\ m_SubtitleMap = [t \in Times |-> << >>]
  /\ m_SubtitleTimeSpans = {}
  /\ m_ValidSubtitleTimes = {}
  /\ m_RenderedSubtitles = {}
  /\ headNode \in HeadNodes
  /\ pending = FALSE
  /\ count = 0
  /\ clock = Never
  /\ out = {}

-----------------------------------------------------------------------------
(* ParseLine compares the line as it came with the texts as they are       *)
(* stored; the end time plays no part in it.                               *)
IsDuplicate(line, start) ==
  \E i \in DOMAIN m_SubtitleMap[start] : m_SubtitleMap[start][i].Text = line

(* Mutant: the search set holds half-open spans. *)
ParseLine_HalfOpen(line, start, end) ==
  /\ ~IsDuplicate(line, start)
  /\ Len(m_SubtitleMap[start]) < MaxPerStart
  /\ m_SubtitleMap' = [m_SubtitleMap EXCEPT ![start] =
       Append(@, [Text |-> Strip[line], StartTime |-> start, EndTime |-> end])]
  /\ m_SubtitleTimeSpans' = m_SubtitleTimeSpans \cup {<<start, end + 1>>}
  /\ UNCHANGED <<cache, headNode, pending, count, clock, out>>

ParseLine(line, start, end) ==
  /\ IF IsDuplicate(line, start)
     THEN UNCHANGED store
     ELSE /\ Len(m_SubtitleMap[start]) < MaxPerStart
          /\ m_SubtitleMap' = [m_SubtitleMap EXCEPT ![start] =
               Append(@, [Text |-> Strip[line], StartTime |-> start, EndTime |-> end])]
          /\ m_SubtitleTimeSpans' = m_SubtitleTimeSpans \cup {<<start, end>>}
  /\ UNCHANGED <<cache, headNode, pending, count, clock, out>>

(* Mutant: the pictures already drawn are kept. *)
Invalidate_KeepsPictures ==
  /\ m_SubtitleMap' = [t \in Times |-> << >>]
  /\ m_SubtitleTimeSpans' = {}
  /\ m_ValidSubtitleTimes' = {}
  /\ count' = 0
  /\ clock' = Never
  /\ out' = {}
  /\ UNCHANGED <<m_RenderedSubtitles, headNode, pending>>

(* The list nodes the caller's array points to are gone as well. *)
Invalidate ==
  /\ m_SubtitleMap' = [t \in Times |-> << >>]
  /\ m_SubtitleTimeSpans' = {}
  /\ m_ValidSubtitleTimes' = {}
  /\ m_RenderedSubtitles' = {}
  /\ count' = 0
  /\ clock' = Never
  /\ out' = {}
  /\ UNCHANGED <<headNode, pending>>

-----------------------------------------------------------------------------
(* The order of std::set<std::pair<...>>. *)
Before(p, q) == p[1] < q[1] \/ (p[1] = q[1] /\ p[2] < q[2])

Covers(sp, t) == sp[1] <= t /\ t <= sp[2]

IsBegin(sp) == \A q \in m_SubtitleTimeSpans : ~Before(q, sp)

(* upper_bound(<<rtNow - 100, rtNow + 100>>) is the first of these; it is *)
(* end() if there are none.                                               *)
Above(t) == {sp \in m_SubtitleTimeSpans : Before(<<t - 100, t + 100>>, sp)}

(* The elements the backward loop can visit, from upper_bound's result    *)
(* down to the one after begin().                                         *)
Walk(t) == {sp \in m_SubtitleTimeSpans :
              ~IsBegin(sp) /\ \A q \in Above(t) : ~Before(q, sp)}

(* The loop starts AT the result, so it reads *end() when there is none   *)
(* above, and it stops at the first element that does not cover rtNow.    *)
Walked(t) ==
  IF Above(t) = {} /\ ~Covers(headNode, t)
  THEN {}
  ELSE {sp \in Walk(t) : \A q \in Walk(t) : ~Before(q, sp) => Covers(q, t)}
         \cup (IF Above(t) = {} THEN {headNode} ELSE {})

(* Mutant: begin() is not looked at by itself. *)
Found_NoBegin(t) == Walked(t)

Found(t) == Walked(t) \cup {sp \in m_SubtitleTimeSpans : IsBegin(sp) /\ Covers(sp, t)}

(* m_SubtitleMap[start], which is an empty vector for a key never stored.  *)
EntriesAt(start) == IF start \in Times THEN m_SubtitleMap[start] ELSE << >>

(* What the valid spans count for and are drawn for: all the entries with  *)
(* the start of a valid span, whatever their ends.                         *)
Drawings(spans) ==
  {d \in spans \X (1 .. MaxPerStart) : d[2] <= Len(EntriesAt(d[1][1]))}

(* Mutant: spans that are over stay valid. *)
ValidAt_Over(t) == m_ValidSubtitleTimes \cup Found(t)

(* With an empty store the stale spans are not looked for. *)
ValidAt(t) ==
  IF m_SubtitleTimeSpans = {}
  THEN m_ValidSubtitleTimes
  ELSE {sp \in m_ValidSubtitleTimes : ~(sp[2] < t)} \cup Found(t)

(* Transform does not ask for the pictures when there are none. *)
GetSubtitlePictureCount(t) ==
  /\ m_ValidSubtitleTimes' = ValidAt(t)
  /\ count' = Cardinality(Drawings(ValidAt(t)))
  /\ pending' = (count' > 0)
  /\ out' = IF count' > 0 THEN out ELSE {}
  /\ clock' = t
  /\ UNCHANGED <<store, m_RenderedSubtitles, headNode>>

-----------------------------------------------------------------------------
Cached(t) == {p \in m_RenderedSubtitles : Covers(SpanOf(p.entry), t)}

(* Mutant: the spans of cached pictures are not taken out. *)
Undrawn_All(t) == m_ValidSubtitleTimes

(* The spans the render loop draws: a valid span is passed over when some *)
(* cached picture has just that span.                                     *)
Undrawn(t) == m_ValidSubtitleTimes \ {SpanOf(p.entry) : p \in Cached(t)}

DrawnBefore(c, d) == Before(c[1], d[1]) \/ (c[1] = d[1] /\ c[2] < d[2])

Rank(d, D) == Cardinality({c \in D : DrawnBefore(c, d)})

(* RenderSRTSubtitleEntry for each drawing in the order of the loop.  The  *)
(* origin has first been moved once for every cached picture.              *)
Render(D, t) ==
  {[entry |-> EntriesAt(d[1][1])[d[2]], span |-> d[1], index |-> d[2],
    slot |-> Cardinality(Cached(t)) + Rank(d, D),
    copy |-> Cardinality({p \in Cached(t) : p.span = d[1] /\ p.index = d[2]})] : d \in D}

GetSubtitlePicture(t) ==
  /\ Cardinality(Cached(t)) < MaxPictures
  /\ m_RenderedSubtitles' = Cached(t) \cup Render(Drawings(Undrawn(t)), t)
  /\ out' = m_RenderedSubtitles'
  /\ m_ValidSubtitleTimes' = m_ValidSubtitleTimes \cup {SpanOf(p.entry) : p \in Cached(t)}
  /\ pending' = FALSE
  /\ UNCHANGED <<store, headNode, count, clock>>

-----------------------------------------------------------------------------
(* One thread owns the renderer and makes the two calls of a frame without *)
(* another call in between (ISubtitleRenderer.h:26-27, 73-83).             *)
Frame == \/ \E t \in Times : ~pending /\ GetSubtitlePictureCount(t)
         \/ pending /\ GetSubtitlePicture(clock)

SRTNext ==
  \/ Frame
  \/ \E l \in Lines, sp \in Span : ~pending /\ ParseLine(l, sp[1], sp[2])
  \/ ~pending /\ Invalidate

SRTSpec == SRTInit /\ [][SRTNext]_vars

(***************************************************************************)
(* The calls of a playback that runs forward: frames come in the order of  *)
(* their times until an Invalidate, a line comes before a frame reaches    *)
(* its start, lines with one start have one end, and no start is what the  *)
(* memory behind end() happens to hold.                                    *)
(***************************************************************************)
DeliveredAhead(sp) ==
  /\ clock < sp[1]
  /\ \A q \in m_SubtitleTimeSpans : q[1] = sp[1] => q = sp
  /\ sp[1] # headNode[1]

ForwardNext ==
  \/ \E t \in Times : ~pending /\ clock <= t /\ GetSubtitlePictureCount(t)
  \/ pending /\ GetSubtitlePicture(clock)
  \/ \E l \in Lines, sp \in Span :
       ~pending /\ DeliveredAhead(sp) /\ ParseLine(l, sp[1], sp[2])
  \/ ~pending /\ Invalidate

ForwardSpec == SRTInit /\ [][ForwardNext]_vars

-----------------------------------------------------------------------------
(* Every variable has its type. *)
TypeOK ==
  /\ m_SubtitleMap \in [Times -> Seq(Entry)]
  /\ m_SubtitleTimeSpans \subseteq Span
  /\ m_ValidSubtitleTimes \subseteq Int \X Int
  /\ m_RenderedSubtitles \subseteq Picture
  /\ headNode \in HeadNodes
  /\ pending \in BOOLEAN
  /\ count \in Nat
  /\ clock \in Times \cup {Never}
  /\ out \subseteq Picture

(* The two containers of the store agree: the search set holds exactly the *)
(* spans of the entries, and an entry is filed under its own start time.   *)
StoreConsistent ==
  /\ \A t \in Times : \A i \in DOMAIN m_SubtitleMap[t] :
       /\ m_SubtitleMap[t][i].StartTime = t
       /\ SpanOf(m_SubtitleMap[t][i]) \in m_SubtitleTimeSpans
  /\ \A sp \in m_SubtitleTimeSpans :
       \E i \in DOMAIN m_SubtitleMap[sp[1]] : SpanOf(m_SubtitleMap[sp[1]][i]) = sp

(* Whatever the order of frames, seeks and lines, no picture and no valid  *)
(* span outlives the line it stands for: nothing parsed before an          *)
(* Invalidate can be shown after it ("any data it has stored and/or        *)
(* processed should be cleared", ISubtitleRenderer.h:66-67).               *)
CacheFromStore ==
  /\ \A p \in m_RenderedSubtitles : /\ p.index \in DOMAIN EntriesAt(p.span[1])
                                     /\ EntriesAt(p.span[1])[p.index] = p.entry
  /\ m_ValidSubtitleTimes \subseteq m_SubtitleTimeSpans \cup {headNode}

(* In a forward playback the frame gets exactly as many pictures as the    *)
(* count promised: Transform blends every element of the array it sized    *)
(* by the count (dxsubfilter.cpp:483-492).                                 *)
PicturesMatchCount == ~pending => Cardinality(out) = count

(* In a forward playback every picture of a frame is of a line that is     *)
(* active at the time of the frame.                                        *)
OnTime == ~pending => \A p \in out : Covers(SpanOf(p.entry), clock)

(* In a forward playback a picture once handed out is handed out for every *)
(* later frame its line is active in, and it is the same picture: it is    *)
(* neither dropped nor drawn anew (SRTSubtitleRenderer.h:105).             *)
StaysOnScreen ==
  [][~pending' /\ clock' # Never =>
       \A p \in out : Covers(SpanOf(p.entry), clock') => p \in out']_vars

(* In a forward playback the first line of the store is shown in every     *)
(* frame of its span, since begin() is looked at by itself.                *)
FirstLineShown ==
  ~pending /\ clock # Never =>
    \A sp \in m_SubtitleTimeSpans :
      IsBegin(sp) /\ Covers(sp, clock) => \E p \in out : SpanOf(p.entry) = sp

(***************************************************************************)
(* The renderer seen through its interface: the containers of the store as *)
(* one set of entries.  clock, count and pending are what the caller sees. *)
(***************************************************************************)
StoredEntries ==
  UNION {{m_SubtitleMap[t][i] : i \in DOMAIN m_SubtitleMap[t]} : t \in Times}

Contract == INSTANCE SubtitleRendererContract WITH
  lines <- StoredEntries, now <- clock, promised <- count, waiting <- pending,
  screen <- out

(* In a forward playback the renderer does what its interface promises:    *)
(* each call is a step of the contract.                                    *)
ImplementsContract == Contract!Spec

(* What ISubtitleRenderer.h:73-78 says of the count, and the code does not *)
(* keep: that it is 0 means there are no subtitles for the current         *)
(* playback time.                                                          *)
ZeroMeansNone ==
  ~pending /\ clock # Never /\ count = 0 =>
    \A sp \in m_SubtitleTimeSpans : ~Covers(sp, clock)
=============================================================================
