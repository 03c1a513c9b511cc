---------------------- MODULE SRTSubtitleRendererProofs ----------------------
(***************************************************************************)
(* Theorems about SRTSubtitleRenderer for all texts, times and bounds:     *)
(* first for every sequence of calls, then for a playback that runs        *)
(* forward, where it implements its contract.                              *)
(***************************************************************************)
EXTENDS SRTSubtitleRenderer, FiniteSetTheorems, FunctionTheorems, SequenceTheorems, TLAPS

Finite ==
  /\ IsFiniteSet(m_SubtitleTimeSpans)
  /\ IsFiniteSet(m_ValidSubtitleTimes)
  /\ IsFiniteSet(m_RenderedSubtitles)

(* What each operation keeps, in whatever order they come. *)
StoreInv == TypeOK /\ Finite /\ StoreConsistent /\ CacheFromStore

(* What the two calls of a frame keep. *)
PendingHasTime == pending => clock \in Times

-----------------------------------------------------------------------------
(* What the search adds to the valid spans is stored spans and the value   *)
(* behind end(), finitely many of them.                                    *)
LEMMA ValidAtProperties ==
  ASSUME StoreInv, NEW t \in Times
  PROVE  /\ ValidAt(t) \subseteq m_SubtitleTimeSpans \cup {headNode}
         /\ ValidAt(t) \subseteq Int \X Int
         /\ IsFiniteSet(ValidAt(t))
<1>1. ValidAt(t) \subseteq m_SubtitleTimeSpans \cup {headNode}
  BY DEF StoreInv, CacheFromStore, ValidAt, Found, Walked, Walk
<1>2. IsFiniteSet(m_SubtitleTimeSpans \cup {headNode})
  BY FS_AddElement DEF StoreInv, Finite
<1>3. IsFiniteSet(ValidAt(t))
  BY <1>1, <1>2, FS_Subset
<1>4. m_SubtitleTimeSpans \cup {headNode} \subseteq Int \X Int
  BY RendererAssumption DEF StoreInv, TypeOK, Span
<1> QED BY <1>1, <1>3, <1>4

(* The drawings of finitely many spans are finitely many. *)
LEMMA DrawingsFinite ==
  ASSUME NEW spans, IsFiniteSet(spans)
  PROVE  /\ IsFiniteSet(Drawings(spans))
         /\ Cardinality(Drawings(spans)) \in Nat
<1>1. IsFiniteSet(1 .. MaxPerStart)
  BY FS_Interval, RendererAssumption
<1>2. IsFiniteSet(spans \X (1 .. MaxPerStart))
  BY <1>1, FS_Product
<1>3. IsFiniteSet(Drawings(spans))
  BY <1>2, FS_Subset DEF Drawings
<1> QED BY <1>3, FS_CardinalityType

(* An element of a drawing is an entry of the store. *)
LEMMA DrawingsProperties ==
  ASSUME TypeOK, NEW spans \in SUBSET (Int \X Int), NEW d \in Drawings(spans)
  PROVE  /\ d[1] \in spans /\ d[1] \in Int \X Int
         /\ d[2] \in Nat /\ d[2] \in DOMAIN EntriesAt(d[1][1])
         /\ EntriesAt(d[1][1])[d[2]] \in Entry
<1>1. /\ d \in spans \X (1 .. MaxPerStart)
      /\ d[2] <= Len(EntriesAt(d[1][1]))
  BY DEF Drawings
<1>2. EntriesAt(d[1][1]) \in Seq(Entry)
  BY DEF EntriesAt, TypeOK
<1>3. d[2] \in 1 .. MaxPerStart /\ d[1] \in spans
  BY <1>1
<1>4. d[2] \in 1 .. Len(EntriesAt(d[1][1]))
  BY <1>1, <1>2, <1>3, LenProperties, RendererAssumption
<1> QED BY <1>2, <1>3, <1>4, LenProperties, ElementOfSeq, RendererAssumption

(* What the render loop adds: one picture for each drawing. *)
LEMMA RenderProperties ==
  ASSUME StoreInv, NEW t \in Times,
         NEW D, D = Drawings(Undrawn(t))
  PROVE  /\ Render(D, t) \subseteq Picture
         /\ IsFiniteSet(Render(D, t))
         /\ \A p \in Render(D, t) :
              /\ <<p.span, p.index>> \in D
              /\ p.index \in DOMAIN EntriesAt(p.span[1])
              /\ EntriesAt(p.span[1])[p.index] = p.entry
         /\ \A d \in D : \E p \in Render(D, t) : p.span = d[1] /\ p.index = d[2]
         /\ \A p, q \in Render(D, t) : p.span = q.span /\ p.index = q.index => p = q
<1> DEFINE Pic(d) ==
     [entry |-> EntriesAt(d[1][1])[d[2]], span |-> d[1], index |-> d[2],
      slot |-> Cardinality(Cached(t)) + Rank(d, D),
      copy |-> Cardinality({p \in Cached(t) : p.span = d[1] /\ p.index = d[2]})]
<1>1. Render(D, t) = {Pic(d) : d \in D}
  BY DEF Render
<1>2. IsFiniteSet(Undrawn(t)) /\ Undrawn(t) \in SUBSET (Int \X Int)
  BY FS_Subset DEF Undrawn, StoreInv, Finite, TypeOK
<1>3. IsFiniteSet(D)
  BY <1>2, DrawingsFinite
<1>4. IsFiniteSet(Cached(t))
  BY FS_Subset DEF Cached, StoreInv, Finite
<1>5. ASSUME NEW d \in D
      PROVE  /\ Pic(d) \in Picture
             /\ <<Pic(d).span, Pic(d).index>> = d
             /\ Pic(d).index \in DOMAIN EntriesAt(Pic(d).span[1])
             /\ EntriesAt(Pic(d).span[1])[Pic(d).index] = Pic(d).entry
  <2>1. /\ d[1] \in Int \X Int /\ d[2] \in Nat
        /\ d[2] \in DOMAIN EntriesAt(d[1][1])
        /\ EntriesAt(d[1][1])[d[2]] \in Entry
    BY <1>2, DrawingsProperties DEF StoreInv
  <2>2. Rank(d, D) \in Nat
    <3>1. IsFiniteSet({c \in D : DrawnBefore(c, d)})
      BY <1>3, FS_Subset
    <3> QED BY <3>1, FS_CardinalityType DEF Rank
  <2>3. Cardinality(Cached(t)) \in Nat
    BY <1>4, FS_CardinalityType
  <2>4. Cardinality({p \in Cached(t) : p.span = d[1] /\ p.index = d[2]}) \in Nat
    <3>1. IsFiniteSet({p \in Cached(t) : p.span = d[1] /\ p.index = d[2]})
      BY <1>4, FS_Subset
    <3> QED BY <3>1, FS_CardinalityType
  <2>5. d = <<d[1], d[2]>>
    BY DEF Drawings
  <2>6. Cardinality(Cached(t)) + Rank(d, D) \in Nat
    BY <2>2, <2>3
  <2> HIDE DEF Pic
  <2>7. /\ Pic(d).span = d[1] /\ Pic(d).index = d[2]
        /\ Pic(d).entry = EntriesAt(d[1][1])[d[2]]
    BY DEF Pic
  <2>8. Pic(d) \in Picture
    BY <2>1, <2>4, <2>6 DEF Pic, Picture
  <2> QED BY <2>1, <2>5, <2>7, <2>8
<1>6. IsFiniteSet({Pic(d) : d \in D})
  <2> DEFINE f == [d \in D |-> Pic(d)]
  <2> HIDE DEF Pic
  <2>1. f \in Surjection(D, {Pic(d) : d \in D})
    BY DEF Surjection
  <2> QED BY <2>1, <1>3, FS_Surjection
<1> HIDE DEF Pic
<1>7. \A p \in Render(D, t) : p = Pic(<<p.span, p.index>>)
  BY <1>1, <1>5
<1>8. \A p, q \in Render(D, t) : p.span = q.span /\ p.index = q.index => p = q
  BY <1>7
<1>9. \A d \in D : \E p \in Render(D, t) : p.span = d[1] /\ p.index = d[2]
  <2>1. ASSUME NEW d \in D PROVE Pic(d).span = d[1] /\ Pic(d).index = d[2]
    BY DEF Pic
  <2> QED BY <1>1, <2>1
<1> QED BY <1>1, <1>5, <1>6, <1>8, <1>9

-----------------------------------------------------------------------------
LEMMA InitStoreInv == SRTInit => StoreInv
<1> SUFFICES ASSUME SRTInit PROVE StoreInv
  OBVIOUS
<1>1. << >> \in Seq(Entry) /\ DOMAIN << >> = {}
  OBVIOUS
<1>2. TypeOK
  BY <1>1 DEF SRTInit, TypeOK
<1>3. Finite
  BY FS_EmptySet DEF SRTInit, Finite
<1>4. StoreConsistent /\ CacheFromStore
  BY <1>1 DEF SRTInit, StoreConsistent, CacheFromStore
<1> QED BY <1>2, <1>3, <1>4 DEF StoreInv

(* What ParseLine does to the vector of a start time: the elements that    *)
(* were there stay where they are.                                         *)
LEMMA ParseLineAppends ==
  ASSUME TypeOK, NEW l \in Lines, NEW sp \in Span, ParseLine(l, sp[1], sp[2]),
         NEW t \in Times
  PROVE  /\ m_SubtitleMap'[t] \in Seq(Entry)
         /\ DOMAIN m_SubtitleMap[t] \subseteq DOMAIN m_SubtitleMap'[t]
         /\ \A i \in DOMAIN m_SubtitleMap[t] : m_SubtitleMap'[t][i] = m_SubtitleMap[t][i]
         /\ \A i \in DOMAIN m_SubtitleMap'[t] \ DOMAIN m_SubtitleMap[t] :
              /\ t = sp[1]
              /\ m_SubtitleMap'[t][i] =
                   [Text |-> Strip[l], StartTime |-> sp[1], EndTime |-> sp[2]]
              /\ m_SubtitleTimeSpans' = m_SubtitleTimeSpans \cup {sp}
         /\ \/ m_SubtitleTimeSpans' = m_SubtitleTimeSpans
            \/ /\ m_SubtitleTimeSpans' = m_SubtitleTimeSpans \cup {sp}
               /\ \E i \in DOMAIN m_SubtitleMap'[sp[1]] :
                    m_SubtitleMap'[sp[1]][i] =
                      [Text |-> Strip[l], StartTime |-> sp[1], EndTime |-> sp[2]]
<1> DEFINE e == [Text |-> Strip[l], StartTime |-> sp[1], EndTime |-> sp[2]]
<1>1. sp[1] \in Times /\ sp[2] \in Times /\ sp = <<sp[1], sp[2]>>
  BY DEF Span
<1>2. e \in Entry
  BY <1>1, RendererAssumption DEF Entry
<1>3. m_SubtitleMap[t] \in Seq(Entry) /\ m_SubtitleMap[sp[1]] \in Seq(Entry)
  BY <1>1 DEF TypeOK
<1>4. CASE IsDuplicate(l, sp[1])
  BY <1>3, <1>4 DEF ParseLine, store
<1>5. CASE ~IsDuplicate(l, sp[1])
  <2>1. /\ m_SubtitleMap' = [m_SubtitleMap EXCEPT ![sp[1]] = Append(@, e)]
        /\ m_SubtitleTimeSpans' = m_SubtitleTimeSpans \cup {sp}
    BY <1>1, <1>5 DEF ParseLine
  <2>2. m_SubtitleMap'[sp[1]] = Append(m_SubtitleMap[sp[1]], e)
    BY <2>1, <1>1 DEF TypeOK
  <2> HIDE DEF e
  <2>3. /\ m_SubtitleMap'[sp[1]] \in Seq(Entry)
        /\ Len(m_SubtitleMap'[sp[1]]) = Len(m_SubtitleMap[sp[1]]) + 1
        /\ \A i \in 1 .. Len(m_SubtitleMap[sp[1]]) :
             m_SubtitleMap'[sp[1]][i] = m_SubtitleMap[sp[1]][i]
        /\ m_SubtitleMap'[sp[1]][Len(m_SubtitleMap[sp[1]]) + 1] = e
    BY <2>2, <1>2, <1>3, AppendProperties
  <2>4. /\ DOMAIN m_SubtitleMap[sp[1]] = 1 .. Len(m_SubtitleMap[sp[1]])
        /\ DOMAIN m_SubtitleMap'[sp[1]] = 1 .. (Len(m_SubtitleMap[sp[1]]) + 1)
        /\ Len(m_SubtitleMap[sp[1]]) \in Nat
    BY <2>3, <1>3, LenProperties
  <2>5. \A i \in DOMAIN m_SubtitleMap'[sp[1]] \ DOMAIN m_SubtitleMap[sp[1]] :
          i = Len(m_SubtitleMap[sp[1]]) + 1
    BY <2>4
  <2>6. t # sp[1] => m_SubtitleMap'[t] = m_SubtitleMap[t]
    BY <2>1 DEF TypeOK
  <2>7. \E i \in DOMAIN m_SubtitleMap'[sp[1]] : m_SubtitleMap'[sp[1]][i] = e
    BY <2>3, <2>4
  <2>8. DOMAIN m_SubtitleMap[sp[1]] \subseteq DOMAIN m_SubtitleMap'[sp[1]]
    BY <2>4
  <2>9. CASE t = sp[1]
    BY <2>1, <2>3, <2>4, <2>5, <2>7, <2>8, <2>9 DEF e
  <2>10. CASE t # sp[1]
    BY <2>1, <2>6, <2>7, <1>3, <2>10 DEF e
  <2> QED BY <2>9, <2>10
<1> QED BY <1>4, <1>5

LEMMA ParseLineStoreInv ==
  ASSUME StoreInv, NEW l \in Lines, NEW sp \in Span, ParseLine(l, sp[1], sp[2])
  PROVE  StoreInv'
<1> USE DEF StoreInv
<1>0. sp[1] \in Times /\ sp[2] \in Times /\ sp = <<sp[1], sp[2]>>
  BY DEF Span
<1>1. m_SubtitleTimeSpans' \in {m_SubtitleTimeSpans, m_SubtitleTimeSpans \cup {sp}}
  BY <1>0, ParseLineAppends
<1>2. UNCHANGED <<cache, headNode, pending, count, clock, out>>
  BY DEF ParseLine
<1>3. TypeOK'
  <2>1. m_SubtitleMap' \in [Times -> Seq(Entry)]
    <3>1. m_SubtitleMap' = [t \in Times |-> m_SubtitleMap'[t]]
      BY DEF ParseLine, store, TypeOK
    <3> QED BY <3>1, ParseLineAppends
  <2> QED BY <1>1, <1>2, <2>1 DEF TypeOK, cache
<1>4. Finite'
  BY <1>1, <1>2, FS_AddElement DEF Finite, cache
<1>5. StoreConsistent'
  <2>1. ASSUME NEW t \in Times, NEW i \in DOMAIN m_SubtitleMap'[t]
        PROVE  /\ m_SubtitleMap'[t][i].StartTime = t
               /\ SpanOf(m_SubtitleMap'[t][i]) \in m_SubtitleTimeSpans'
    <3>0. /\ \A j \in DOMAIN m_SubtitleMap[t] : m_SubtitleMap'[t][j] = m_SubtitleMap[t][j]
          /\ i \notin DOMAIN m_SubtitleMap[t] =>
               /\ t = sp[1]
               /\ m_SubtitleMap'[t][i] =
                    [Text |-> Strip[l], StartTime |-> sp[1], EndTime |-> sp[2]]
               /\ m_SubtitleTimeSpans' = m_SubtitleTimeSpans \cup {sp}
      BY <2>1, ParseLineAppends
    <3>1. CASE i \in DOMAIN m_SubtitleMap[t]
      BY <3>0, <3>1, <1>1 DEF StoreConsistent
    <3>2. CASE i \notin DOMAIN m_SubtitleMap[t]
      BY <3>0, <3>2, <1>0 DEF SpanOf
    <3> QED BY <3>1, <3>2
  <2>2. ASSUME NEW q \in m_SubtitleTimeSpans'
        PROVE  \E i \in DOMAIN m_SubtitleMap'[q[1]] : SpanOf(m_SubtitleMap'[q[1]][i]) = q
    <3>1. CASE q \in m_SubtitleTimeSpans
      <4>1. q[1] \in Times
        BY <3>1 DEF TypeOK, Span
      <4>2. PICK i \in DOMAIN m_SubtitleMap[q[1]] : SpanOf(m_SubtitleMap[q[1]][i]) = q
        BY <3>1 DEF StoreConsistent
      <4> QED BY <4>1, <4>2, ParseLineAppends
    <3>2. CASE q \notin m_SubtitleTimeSpans
      <4>1. /\ q = sp
            /\ \E i \in DOMAIN m_SubtitleMap'[sp[1]] :
                 m_SubtitleMap'[sp[1]][i] =
                   [Text |-> Strip[l], StartTime |-> sp[1], EndTime |-> sp[2]]
        BY <3>2, <2>2, <1>0, ParseLineAppends
      <4> QED BY <4>1, <1>0 DEF SpanOf
    <3> QED BY <3>1, <3>2
  <2> QED BY <2>1, <2>2 DEF StoreConsistent
<1>6. CacheFromStore'
  <2>1. ASSUME NEW p \in m_RenderedSubtitles
        PROVE  /\ p.index \in DOMAIN EntriesAt(p.span[1])'
               /\ EntriesAt(p.span[1])'[p.index] = p.entry
    <3>1. CASE p.span[1] \in Times
      BY <3>1, ParseLineAppends DEF CacheFromStore, EntriesAt
    <3>2. CASE p.span[1] \notin Times
      BY <3>2 DEF CacheFromStore, EntriesAt
    <3> QED BY <3>1, <3>2
  <2> QED BY <1>1, <1>2, <2>1 DEF CacheFromStore, cache, EntriesAt
<1> QED BY <1>3, <1>4, <1>5, <1>6

LEMMA InvalidateStoreInv ==
  ASSUME StoreInv, Invalidate
  PROVE  StoreInv'
<1>1. << >> \in Seq(Entry) /\ DOMAIN << >> = {}
  OBVIOUS
<1>2. TypeOK'
  BY <1>1 DEF Invalidate, StoreInv, TypeOK
<1>3. Finite'
  BY FS_EmptySet DEF Invalidate, Finite
<1>4. StoreConsistent' /\ CacheFromStore'
  BY <1>1 DEF Invalidate, StoreConsistent, CacheFromStore
<1> QED BY <1>2, <1>3, <1>4 DEF StoreInv

LEMMA CountStoreInv ==
  ASSUME StoreInv, NEW t \in Times, GetSubtitlePictureCount(t)
  PROVE  StoreInv'
<1>1. UNCHANGED <<m_SubtitleMap, m_SubtitleTimeSpans, m_RenderedSubtitles, headNode>>
  BY DEF GetSubtitlePictureCount, store
<1>2. m_ValidSubtitleTimes' = ValidAt(t)
  BY DEF GetSubtitlePictureCount
<1>3. count' \in Nat
  BY ValidAtProperties, DrawingsFinite DEF GetSubtitlePictureCount
<1>4. TypeOK'
  BY <1>1, <1>2, <1>3, ValidAtProperties DEF GetSubtitlePictureCount, StoreInv, TypeOK
<1>5. Finite'
  BY <1>1, <1>2, ValidAtProperties DEF StoreInv, Finite
<1>6. StoreConsistent'
  BY <1>1 DEF StoreInv, StoreConsistent
<1>7. CacheFromStore'
  BY <1>1, <1>2, ValidAtProperties DEF StoreInv, CacheFromStore, EntriesAt
<1> QED BY <1>4, <1>5, <1>6, <1>7 DEF StoreInv

(* The span of a cached picture is a span of the store. *)
LEMMA CachedSpans ==
  ASSUME StoreInv, NEW p \in m_RenderedSubtitles
  PROVE  /\ p \in Picture
         /\ SpanOf(p.entry) \in m_SubtitleTimeSpans
         /\ p.entry.StartTime = p.span[1] /\ p.span[1] \in Times
<1>1. /\ p.index \in DOMAIN EntriesAt(p.span[1])
      /\ EntriesAt(p.span[1])[p.index] = p.entry
  BY DEF StoreInv, CacheFromStore
<1>2. DOMAIN << >> = {}
  OBVIOUS
<1>3. p.span[1] \in Times
  BY <1>1, <1>2 DEF EntriesAt
<1> QED BY <1>1, <1>3 DEF EntriesAt, StoreInv, StoreConsistent, TypeOK

LEMMA PictureStoreInv ==
  ASSUME StoreInv, NEW t \in Times, GetSubtitlePicture(t)
  PROVE  StoreInv'
<1> DEFINE D == Drawings(Undrawn(t))
<1>1. /\ UNCHANGED <<m_SubtitleMap, m_SubtitleTimeSpans, headNode, count, clock>>
      /\ m_RenderedSubtitles' = Cached(t) \cup Render(D, t)
      /\ out' = m_RenderedSubtitles'
      /\ m_ValidSubtitleTimes' = m_ValidSubtitleTimes \cup {SpanOf(p.entry) : p \in Cached(t)}
      /\ pending' = FALSE
  BY DEF GetSubtitlePicture, store
<1> HIDE DEF D
<1>2. /\ Render(D, t) \subseteq Picture
      /\ IsFiniteSet(Render(D, t))
      /\ \A p \in Render(D, t) : /\ p.index \in DOMAIN EntriesAt(p.span[1])
                                  /\ EntriesAt(p.span[1])[p.index] = p.entry
  BY RenderProperties DEF D
<1>3. Cached(t) \subseteq m_RenderedSubtitles /\ IsFiniteSet(Cached(t))
  BY FS_Subset DEF Cached, StoreInv, Finite
<1>4. {SpanOf(p.entry) : p \in Cached(t)} \subseteq m_SubtitleTimeSpans
  BY <1>3, CachedSpans
<1>5. m_SubtitleTimeSpans \subseteq Int \X Int
  BY RendererAssumption DEF StoreInv, TypeOK, Span
<1>6. TypeOK'
  BY <1>1, <1>2, <1>3, <1>4, <1>5 DEF StoreInv, TypeOK
<1>7. Finite'
  <2>1. IsFiniteSet(m_RenderedSubtitles')
    BY <1>1, <1>2, <1>3, FS_Union
  <2>2. IsFiniteSet({SpanOf(p.entry) : p \in Cached(t)})
    BY <1>4, FS_Subset DEF StoreInv, Finite
  <2>3. IsFiniteSet(m_ValidSubtitleTimes')
    BY <1>1, <2>2, FS_Union DEF StoreInv, Finite
  <2> QED BY <1>1, <2>1, <2>3 DEF StoreInv, Finite
<1>8. StoreConsistent'
  BY <1>1 DEF StoreInv, StoreConsistent
<1>9. CacheFromStore'
  BY <1>1, <1>2, <1>3, <1>4 DEF StoreInv, CacheFromStore, EntriesAt
<1> QED BY <1>6, <1>7, <1>8, <1>9 DEF StoreInv

(* The invariant looks at nothing but the renderer's variables. *)
LEMMA UnchangedStoreInv ==
  ASSUME StoreInv, UNCHANGED vars
  PROVE  StoreInv'
BY DEF vars, store, cache, StoreInv, TypeOK, Finite, StoreConsistent, CacheFromStore, EntriesAt

(* The renderer used by one thread, for which PendingHasTime holds. *)
LEMMA StoreInvInductive ==
  ASSUME StoreInv, PendingHasTime, [SRTNext]_vars
  PROVE  StoreInv' /\ PendingHasTime'
<1>1. ASSUME NEW t \in Times, GetSubtitlePictureCount(t) PROVE StoreInv' /\ PendingHasTime'
  BY <1>1, CountStoreInv DEF GetSubtitlePictureCount, PendingHasTime
<1>2. ASSUME pending, GetSubtitlePicture(clock) PROVE StoreInv' /\ PendingHasTime'
  BY <1>2, PictureStoreInv DEF GetSubtitlePicture, PendingHasTime
<1>3. ASSUME NEW l \in Lines, NEW sp \in Span, ParseLine(l, sp[1], sp[2])
      PROVE  StoreInv' /\ PendingHasTime'
  BY <1>3, ParseLineStoreInv DEF ParseLine, PendingHasTime
<1>4. ASSUME ~pending, Invalidate PROVE StoreInv' /\ PendingHasTime'
  BY <1>4, InvalidateStoreInv DEF Invalidate, PendingHasTime
<1>5. ASSUME UNCHANGED vars PROVE StoreInv' /\ PendingHasTime'
  BY <1>5, UnchangedStoreInv DEF vars, PendingHasTime
<1> QED BY <1>1, <1>2, <1>3, <1>4, <1>5 DEF SRTNext, Frame

LEMMA StoreInvAlways == SRTSpec => []StoreInv
<1>1. SRTInit => StoreInv /\ PendingHasTime
  BY InitStoreInv DEF SRTInit, PendingHasTime
<1> QED BY <1>1, StoreInvInductive, PTL DEF SRTSpec

(* In every state the variables have their types. *)
THEOREM SRTTypeOK == SRTSpec => []TypeOK
<1>1. StoreInv => TypeOK
  BY DEF StoreInv
<1> QED BY <1>1, StoreInvAlways, PTL

(* In every state the search set holds exactly the spans of the entries. *)
THEOREM SRTStoreConsistent == SRTSpec => []StoreConsistent
<1>1. StoreInv => StoreConsistent
  BY DEF StoreInv
<1> QED BY <1>1, StoreInvAlways, PTL

(* In every state the cached pictures and the valid spans are of lines     *)
(* parsed since the last Invalidate.                                       *)
THEOREM SRTCacheFromStore == SRTSpec => []CacheFromStore
<1>1. StoreInv => CacheFromStore
  BY DEF StoreInv
<1> QED BY <1>1, StoreInvAlways, PTL

-----------------------------------------------------------------------------
(***************************************************************************)
(* A playback that runs forward (ForwardSpec).                             *)
(*                                                                         *)
(* The pictures of a frame match its count because span and index number   *)
(* the cached pictures like the drawings the count adds up: no two         *)
(* pictures have the same (NumberedOnce), all the drawings of a valid span *)
(* have one once the frame is done (ValidDrawn), and a cached picture of   *)
(* an active line has its span among the valid ones (ActiveValid).         *)
(* Last, the renderer implements SubtitleRendererContract: ForwardInv says *)
(* what a step needs to know, its consequences what Show demands of the    *)
(* pictures.                                                               *)
(***************************************************************************)
OneEnd == \A p, q \in m_SubtitleTimeSpans : p[1] = q[1] => p = q

(* end() contributes nothing to a count, and vectors keep their bound. *)
HeadInert == \A sp \in m_SubtitleTimeSpans : sp[1] # headNode[1]
Bounded == \A t \in Times : Len(m_SubtitleMap[t]) <= MaxPerStart

EmptyStore == m_SubtitleTimeSpans = {} => m_ValidSubtitleTimes = {}

NothingBeforeFrame ==
  clock = Never => m_ValidSubtitleTimes = {} /\ m_RenderedSubtitles = {} /\ out = {}

ValidCoverNow == \A sp \in m_ValidSubtitleTimes : Covers(sp, clock)

DrawnForOwnSpan ==
  \A p \in m_RenderedSubtitles : p.span = SpanOf(p.entry) /\ p.span[1] <= clock

NumberedOnce ==
  \A p, q \in m_RenderedSubtitles : p.span = q.span /\ p.index = q.index => p = q

ActiveValid ==
  \A p \in m_RenderedSubtitles : Covers(p.span, clock) => p.span \in m_ValidSubtitleTimes

(* A span is drawn as a whole. *)
DrawnWhole ==
  \A p \in m_RenderedSubtitles : \A i \in DOMAIN EntriesAt(p.span[1]) :
    \E q \in m_RenderedSubtitles : q.span = p.span /\ q.index = i

ValidDrawn ==
  ~pending => \A d \in Drawings(m_ValidSubtitleTimes) :
    \E p \in m_RenderedSubtitles : p.span = d[1] /\ p.index = d[2]

CountIsDrawings == count = Cardinality(Drawings(m_ValidSubtitleTimes))

OutIsActive ==
  /\ out \subseteq m_RenderedSubtitles
  /\ ~pending => out = {p \in m_RenderedSubtitles : Covers(p.span, clock)}

FirstValid ==
  clock # Never => \A sp \in m_SubtitleTimeSpans :
    IsBegin(sp) /\ Covers(sp, clock) => sp \in m_ValidSubtitleTimes

ForwardInv ==
  /\ StoreInv /\ PendingHasTime
  /\ OneEnd /\ HeadInert /\ Bounded
  /\ EmptyStore /\ NothingBeforeFrame /\ ValidCoverNow
  /\ DrawnForOwnSpan /\ NumberedOnce /\ ActiveValid /\ DrawnWhole
  /\ ValidDrawn /\ CountIsDrawings /\ OutIsActive /\ FirstValid

-----------------------------------------------------------------------------
(* The entries that carry the start of a valid or cached span have that    *)
(* span, and none carries the start that end() happens to hold.            *)
LEMMA EntriesHaveTheSpan ==
  ASSUME ForwardInv, NEW sp \in m_SubtitleTimeSpans \cup {headNode},
         NEW i \in DOMAIN EntriesAt(sp[1])
  PROVE  /\ SpanOf(EntriesAt(sp[1])[i]) = sp
         /\ sp \in m_SubtitleTimeSpans
<1>1. DOMAIN << >> = {}
  OBVIOUS
<1>2. sp[1] \in Times /\ EntriesAt(sp[1]) = m_SubtitleMap[sp[1]]
  BY <1>1 DEF EntriesAt
<1> DEFINE e == m_SubtitleMap[sp[1]][i]
<1>3. e.StartTime = sp[1] /\ SpanOf(e) \in m_SubtitleTimeSpans
  BY <1>2 DEF ForwardInv, StoreInv, StoreConsistent
<1>4. SpanOf(e)[1] = sp[1]
  BY <1>3 DEF SpanOf
<1>5. sp # headNode \/ sp \in m_SubtitleTimeSpans
  BY <1>3, <1>4 DEF ForwardInv, HeadInert
<1>6. sp \in m_SubtitleTimeSpans
  BY <1>5
<1> QED BY <1>2, <1>3, <1>4, <1>6 DEF ForwardInv, OneEnd

(* A drawing of a span, as the count adds them up. *)
LEMMA DrawingOf ==
  ASSUME TypeOK, Bounded, NEW spans, NEW sp \in spans, NEW i \in DOMAIN EntriesAt(sp[1])
  PROVE  <<sp, i>> \in Drawings(spans)
<1>1. DOMAIN << >> = {}
  OBVIOUS
<1>2. sp[1] \in Times /\ EntriesAt(sp[1]) = m_SubtitleMap[sp[1]]
  BY <1>1 DEF EntriesAt
<1>3. m_SubtitleMap[sp[1]] \in Seq(Entry) /\ Len(m_SubtitleMap[sp[1]]) <= MaxPerStart
  BY <1>2 DEF TypeOK, Bounded
<1>4. i \in 1 .. Len(m_SubtitleMap[sp[1]]) /\ Len(m_SubtitleMap[sp[1]]) \in Nat
  BY <1>2, <1>3, LenProperties
<1>5. i \in 1 .. MaxPerStart /\ i <= Len(EntriesAt(sp[1]))
  BY <1>2, <1>3, <1>4, RendererAssumption
<1> QED BY <1>5 DEF Drawings

(* What is valid at the next frame: the spans that were and are not over,  *)
(* and whatever the search finds, all of them active.                      *)
LEMMA ValidAtForward ==
  ASSUME ForwardInv, NEW t \in Times, clock <= t
  PROVE  /\ \A sp \in ValidAt(t) : Covers(sp, t)
         /\ \A sp \in m_ValidSubtitleTimes : t <= sp[2] => sp \in ValidAt(t)
         /\ \A sp \in m_SubtitleTimeSpans :
              IsBegin(sp) /\ Covers(sp, t) => sp \in ValidAt(t)
<1>1. t \in Int /\ clock \in Int
  BY RendererAssumption DEF ForwardInv, StoreInv, TypeOK
<1>2. m_ValidSubtitleTimes \subseteq Int \X Int
  BY DEF ForwardInv, StoreInv, TypeOK
<1>3. m_SubtitleTimeSpans \subseteq Int \X Int
  BY RendererAssumption DEF ForwardInv, StoreInv, TypeOK, Span
<1>4. \A sp \in Int \X Int : ~Before(sp, sp)
  BY DEF Before
<1>5. \A sp \in Found(t) : Covers(sp, t)
  BY <1>3, <1>4 DEF Found, Walked, Walk
<1>6. \A sp \in m_ValidSubtitleTimes : ~(sp[2] < t) => Covers(sp, t)
  BY <1>1, <1>2 DEF ForwardInv, ValidCoverNow, Covers
<1>7. \A sp \in m_ValidSubtitleTimes : t <= sp[2] => ~(sp[2] < t)
  BY <1>1, <1>2
<1> QED BY <1>5, <1>6, <1>7 DEF ValidAt, Found, ForwardInv, EmptyStore

-----------------------------------------------------------------------------
LEMMA InitForwardInv == SRTInit => ForwardInv
<1> SUFFICES ASSUME SRTInit PROVE ForwardInv
  OBVIOUS
<1>1. Drawings({}) = {}
  BY DEF Drawings
<1>2. \A t \in Times : Len(m_SubtitleMap[t]) = 0
  BY DEF SRTInit
<1>3. Bounded
  BY <1>2, RendererAssumption DEF Bounded
<1>4. CountIsDrawings
  BY <1>1, FS_EmptySet DEF SRTInit, CountIsDrawings
<1>5. ValidDrawn
  BY <1>1 DEF SRTInit, ValidDrawn
<1> QED
  BY <1>3, <1>4, <1>5, InitStoreInv
  DEF SRTInit, ForwardInv, PendingHasTime, OneEnd, HeadInert, EmptyStore, NothingBeforeFrame, ValidCoverNow,
      DrawnForOwnSpan, NumberedOnce, ActiveValid, DrawnWhole, OutIsActive, FirstValid

LEMMA InvalidateForwardInv ==
  ASSUME ForwardInv, Invalidate, ~pending
  PROVE  ForwardInv'
<1>1. Drawings({})' = {}
  BY DEF Drawings
<1>2. \A t \in Times : Len(m_SubtitleMap'[t]) = 0
  BY DEF Invalidate
<1>3. Bounded'
  BY <1>2, RendererAssumption DEF Bounded
<1>4. CountIsDrawings'
  BY <1>1, FS_EmptySet DEF Invalidate, CountIsDrawings
<1>5. ValidDrawn'
  BY <1>1 DEF Invalidate, ValidDrawn
<1>6. StoreInv'
  BY InvalidateStoreInv DEF ForwardInv
<1> QED
  BY <1>3, <1>4, <1>5, <1>6
  DEF Invalidate, ForwardInv, PendingHasTime, OneEnd, HeadInert, EmptyStore, NothingBeforeFrame, ValidCoverNow,
      DrawnForOwnSpan, NumberedOnce, ActiveValid, DrawnWhole, OutIsActive, FirstValid

LEMMA CountForwardInv ==
  ASSUME ForwardInv, NEW t \in Times, ~pending, clock <= t, GetSubtitlePictureCount(t)
  PROVE  ForwardInv'
<1>1. /\ UNCHANGED <<m_SubtitleMap, m_SubtitleTimeSpans, m_RenderedSubtitles, headNode>>
      /\ m_ValidSubtitleTimes' = ValidAt(t)
      /\ count' = Cardinality(Drawings(ValidAt(t)))
      /\ pending' = (count' > 0)
      /\ out' = IF count' > 0 THEN out ELSE {}
      /\ clock' = t
  BY DEF GetSubtitlePictureCount, store
<1>2. StoreInv'
  BY CountStoreInv DEF ForwardInv
<1>3. t # Never /\ t \in Int /\ clock \in Int
  BY RendererAssumption DEF ForwardInv, StoreInv, TypeOK
<1>4. OneEnd' /\ HeadInert' /\ Bounded' /\ NumberedOnce'
  BY <1>1 DEF ForwardInv, OneEnd, HeadInert, Bounded, NumberedOnce
<1>5. DrawnWhole'
  BY <1>1 DEF ForwardInv, DrawnWhole, EntriesAt
<1>6. EmptyStore'
  BY <1>1 DEF ForwardInv, EmptyStore, ValidAt
<1>7. NothingBeforeFrame' /\ ValidCoverNow'
  BY <1>1, <1>3, ValidAtForward DEF NothingBeforeFrame, ValidCoverNow
<1>8. \A p \in m_RenderedSubtitles : p.span \in Int \X Int
  BY DEF ForwardInv, StoreInv, TypeOK, Picture
<1>9. DrawnForOwnSpan'
  BY <1>1, <1>3, <1>8 DEF ForwardInv, DrawnForOwnSpan
<1>10. ActiveValid'
  <2>1. ASSUME NEW p \in m_RenderedSubtitles, Covers(p.span, t)
        PROVE  p.span \in ValidAt(t)
    <3>1. Covers(p.span, clock) /\ t <= p.span[2]
      BY <2>1, <1>3, <1>8 DEF ForwardInv, DrawnForOwnSpan, Covers
    <3> QED BY <3>1, ValidAtForward DEF ForwardInv, ActiveValid
  <2> QED BY <2>1, <1>1 DEF ActiveValid
<1>11. \A spans : Drawings(spans)' = Drawings(spans)
  BY <1>1 DEF Drawings, EntriesAt
<1>12. CountIsDrawings'
  BY <1>1, <1>11 DEF CountIsDrawings
<1>13. ~pending' => Drawings(ValidAt(t)) = {}
  <2>1. IsFiniteSet(Drawings(ValidAt(t))) /\ count' \in Nat
    BY <1>1, ValidAtProperties, DrawingsFinite DEF ForwardInv
  <2>2. ~(count' > 0) => count' = 0
    BY <2>1
  <2>3. count' = 0 => Drawings(ValidAt(t)) = {}
    BY <1>1, <2>1, FS_EmptySet
  <2> QED BY <1>1, <2>2, <2>3, Zenon
<1>14. ValidDrawn'
  BY <1>1, <1>11, <1>13 DEF ValidDrawn
<1>15. OutIsActive'
  <2>1. ASSUME ~pending', NEW p \in m_RenderedSubtitles, Covers(p.span, t)
        PROVE  FALSE
    <3>1. p.span \in ValidAt(t)
      BY <2>1, <1>1, <1>10 DEF ActiveValid
    <3>2. p.index \in DOMAIN EntriesAt(p.span[1])
      BY DEF ForwardInv, StoreInv, CacheFromStore
    <3>3. <<p.span, p.index>> \in Drawings(ValidAt(t))
      BY <3>1, <3>2, DrawingOf DEF ForwardInv, StoreInv
    <3> QED BY <3>3, <2>1, <1>13
  <2>2. count' > 0 => out' \subseteq m_RenderedSubtitles
    BY <1>1 DEF ForwardInv, OutIsActive
  <2> QED BY <2>1, <2>2, <1>1 DEF OutIsActive
<1>16. FirstValid'
  BY <1>1, ValidAtForward DEF FirstValid, IsBegin
<1>17. PendingHasTime'
  BY <1>1 DEF PendingHasTime
<1> QED
  BY <1>2, <1>4, <1>5, <1>6, <1>7, <1>9, <1>10, <1>12, <1>14, <1>15, <1>16, <1>17
  DEF ForwardInv

-----------------------------------------------------------------------------
LEMMA PictureForwardInv ==
  ASSUME ForwardInv, pending, GetSubtitlePicture(clock)
  PROVE  ForwardInv'
<1> DEFINE D == Drawings(Undrawn(clock))
<1>1. /\ UNCHANGED <<m_SubtitleMap, m_SubtitleTimeSpans, headNode, count, clock>>
      /\ m_RenderedSubtitles' = Cached(clock) \cup Render(D, clock)
      /\ out' = m_RenderedSubtitles'
      /\ m_ValidSubtitleTimes' = m_ValidSubtitleTimes \cup {SpanOf(p.entry) : p \in Cached(clock)}
      /\ pending' = FALSE
  BY DEF GetSubtitlePicture, store
<1>2. clock \in Times /\ clock # Never
  BY RendererAssumption DEF ForwardInv, PendingHasTime
<1>3. StoreInv'
  BY <1>2, PictureStoreInv DEF ForwardInv
<1>4. Cached(clock) = {p \in m_RenderedSubtitles : Covers(p.span, clock)}
  BY DEF Cached, ForwardInv, DrawnForOwnSpan
<1>5. {SpanOf(p.entry) : p \in Cached(clock)} = {p.span : p \in Cached(clock)}
  BY <1>4 DEF ForwardInv, DrawnForOwnSpan
<1>6. {p.span : p \in Cached(clock)} \subseteq m_ValidSubtitleTimes
  BY <1>4 DEF ForwardInv, ActiveValid
<1>7. m_ValidSubtitleTimes' = m_ValidSubtitleTimes
  BY <1>1, <1>5, <1>6
<1>8. Undrawn(clock) = m_ValidSubtitleTimes \ {p.span : p \in Cached(clock)}
  BY <1>5 DEF Undrawn
<1>9. /\ \A p \in Render(D, clock) : /\ <<p.span, p.index>> \in D
                                     /\ p.index \in DOMAIN EntriesAt(p.span[1])
                                     /\ EntriesAt(p.span[1])[p.index] = p.entry
      /\ \A d \in D : \E p \in Render(D, clock) : p.span = d[1] /\ p.index = d[2]
      /\ \A p, q \in Render(D, clock) : p.span = q.span /\ p.index = q.index => p = q
  BY <1>2, RenderProperties DEF ForwardInv
<1>10. \A p \in Render(D, clock) : p.span \in Undrawn(clock)
  BY <1>9 DEF Drawings
<1> HIDE DEF D
<1>11. \A p \in m_RenderedSubtitles' : Covers(p.span, clock) /\ p.span \in m_ValidSubtitleTimes
  BY <1>1, <1>4, <1>6, <1>8, <1>10 DEF ForwardInv, ValidCoverNow
<1>12. \A p \in Render(D, clock) : p.span = SpanOf(p.entry)
  <2>1. ASSUME NEW p \in Render(D, clock)
        PROVE  p.span \in m_SubtitleTimeSpans \cup {headNode}
    BY <1>8, <1>10 DEF ForwardInv, StoreInv, CacheFromStore
  <2> QED BY <2>1, <1>9, EntriesHaveTheSpan
<1>13. OneEnd' /\ HeadInert' /\ Bounded' /\ EmptyStore' /\ ValidCoverNow'
  BY <1>1, <1>7 DEF ForwardInv, OneEnd, HeadInert, Bounded, EmptyStore, ValidCoverNow
<1>14. NothingBeforeFrame'
  BY <1>1, <1>2 DEF NothingBeforeFrame
<1>15. DrawnForOwnSpan'
  <2>1. \A p \in m_RenderedSubtitles' : p.span[1] <= clock
    BY <1>11 DEF Covers
  <2>2. \A p \in m_RenderedSubtitles' : p.span = SpanOf(p.entry)
    BY <1>1, <1>4, <1>12 DEF ForwardInv, DrawnForOwnSpan
  <2> QED BY <1>1, <2>1, <2>2 DEF DrawnForOwnSpan
<1>16. NumberedOnce'
  <2>1. \A p \in Cached(clock), q \in Render(D, clock) : p.span # q.span
    BY <1>8, <1>10
  <2>2. \A p, q \in Cached(clock) : p.span = q.span /\ p.index = q.index => p = q
    BY <1>4 DEF ForwardInv, NumberedOnce
  <2> QED BY <1>1, <1>9, <2>1, <2>2 DEF NumberedOnce
<1>17. ActiveValid'
  BY <1>1, <1>7, <1>11 DEF ActiveValid
<1>18. \A start : EntriesAt(start)' = EntriesAt(start)
  BY <1>1 DEF EntriesAt
<1>19. \A spans : Drawings(spans)' = Drawings(spans)
  BY <1>1 DEF Drawings, EntriesAt
<1>20. ASSUME NEW p \in Cached(clock), NEW i \in DOMAIN EntriesAt(p.span[1])
       PROVE  \E q \in m_RenderedSubtitles' : q.span = p.span /\ q.index = i
  <2>1. PICK q \in m_RenderedSubtitles : q.span = p.span /\ q.index = i
    BY <1>4 DEF ForwardInv, DrawnWhole
  <2> QED BY <2>1, <1>1, <1>4
<1>21. ASSUME NEW sp \in Undrawn(clock), NEW i \in DOMAIN EntriesAt(sp[1])
       PROVE  \E q \in m_RenderedSubtitles' : q.span = sp /\ q.index = i
  <2>1. <<sp, i>> \in D
    BY DrawingOf DEF ForwardInv, StoreInv, D
  <2> QED BY <2>1, <1>1, <1>9
<1>22. DrawnWhole'
  <2>1. ASSUME NEW p \in m_RenderedSubtitles', NEW i \in DOMAIN EntriesAt(p.span[1])
        PROVE  \E q \in m_RenderedSubtitles' : q.span = p.span /\ q.index = i
    BY <1>1, <1>10, <1>20, <1>21
  <2> QED BY <2>1, <1>18 DEF DrawnWhole
<1>23. ValidDrawn'
  <2>1. ASSUME NEW d \in Drawings(m_ValidSubtitleTimes)
        PROVE  \E q \in m_RenderedSubtitles' : q.span = d[1] /\ q.index = d[2]
    <3>1. d[1] \in m_ValidSubtitleTimes /\ d[2] \in DOMAIN EntriesAt(d[1][1])
      BY DrawingsProperties DEF ForwardInv, StoreInv, TypeOK
    <3>2. CASE d[1] \in Undrawn(clock)
      BY <3>1, <3>2, <1>21
    <3>3. CASE d[1] \notin Undrawn(clock)
      BY <3>1, <3>3, <1>8, <1>20
    <3> QED BY <3>2, <3>3
  <2> QED BY <2>1, <1>7, <1>19 DEF ValidDrawn
<1>24. CountIsDrawings'
  BY <1>1, <1>7, <1>19 DEF ForwardInv, CountIsDrawings
<1>25. OutIsActive'
  BY <1>1, <1>11 DEF OutIsActive
<1>26. FirstValid'
  BY <1>1, <1>7 DEF ForwardInv, FirstValid, IsBegin
<1>27. PendingHasTime'
  BY <1>1 DEF PendingHasTime
<1> QED
  BY <1>3, <1>13, <1>14, <1>15, <1>16, <1>17, <1>22, <1>23, <1>24, <1>25, <1>26, <1>27
  DEF ForwardInv

-----------------------------------------------------------------------------
LEMMA ParseLineForwardInv ==
  ASSUME ForwardInv, ~pending, NEW l \in Lines, NEW sp \in Span,
         DeliveredAhead(sp), ParseLine(l, sp[1], sp[2])
  PROVE  ForwardInv'
<1>1. UNCHANGED <<m_ValidSubtitleTimes, m_RenderedSubtitles, headNode, pending, count, clock, out>>
  BY DEF ParseLine, cache
<1>2. sp[1] \in Times /\ sp[2] \in Times /\ sp = <<sp[1], sp[2]>>
  BY DEF Span
<1>3. /\ clock < sp[1] /\ sp[1] # headNode[1] /\ sp[1] \in Int /\ clock \in Int
      /\ \A q \in m_SubtitleTimeSpans : q[1] = sp[1] => q = sp
  BY <1>2, RendererAssumption DEF DeliveredAhead, ForwardInv, StoreInv, TypeOK
<1>4. m_SubtitleTimeSpans' \in {m_SubtitleTimeSpans, m_SubtitleTimeSpans \cup {sp}}
  BY <1>2 DEF ParseLine, store
<1>5. \A start : start # sp[1] => EntriesAt(start)' = EntriesAt(start)
  BY <1>2 DEF ParseLine, store, EntriesAt, ForwardInv, StoreInv, TypeOK
<1>6. \A q \in m_ValidSubtitleTimes : q[1] # sp[1]
  <2>1. ASSUME NEW q \in m_ValidSubtitleTimes PROVE q[1] # sp[1]
    <3>1. q \in Int \X Int /\ q[1] <= clock
      BY DEF ForwardInv, StoreInv, TypeOK, ValidCoverNow, Covers
    <3> QED BY <3>1, <1>3
  <2> QED BY <2>1
<1>7. \A p \in m_RenderedSubtitles : p.span[1] # sp[1]
  <2>1. ASSUME NEW p \in m_RenderedSubtitles PROVE p.span[1] # sp[1]
    <3>1. p.span \in Int \X Int /\ p.span[1] <= clock
      BY DEF ForwardInv, StoreInv, TypeOK, Picture, DrawnForOwnSpan
    <3> QED BY <3>1, <1>3
  <2> QED BY <2>1
<1>8. Drawings(m_ValidSubtitleTimes)' = Drawings(m_ValidSubtitleTimes)
  <2>1. \A d \in m_ValidSubtitleTimes \X (1 .. MaxPerStart) :
          EntriesAt(d[1][1])' = EntriesAt(d[1][1])
    BY <1>5, <1>6
  <2> QED BY <2>1, <1>1 DEF Drawings
<1>9. StoreInv'
  BY ParseLineStoreInv DEF ForwardInv
<1>10. OneEnd'
  BY <1>3, <1>4 DEF ForwardInv, OneEnd
<1>11. HeadInert'
  BY <1>1, <1>3, <1>4 DEF ForwardInv, HeadInert
<1>12. Bounded'
  <2>1. ASSUME NEW t \in Times PROVE Len(m_SubtitleMap'[t]) <= MaxPerStart
    <3>1. CASE m_SubtitleMap'[t] = m_SubtitleMap[t]
      BY <3>1 DEF ForwardInv, Bounded
    <3>2. CASE m_SubtitleMap'[t] # m_SubtitleMap[t]
      <4> DEFINE e == [Text |-> Strip[l], StartTime |-> sp[1], EndTime |-> sp[2]]
      <4>1. /\ t = sp[1] /\ Len(m_SubtitleMap[t]) < MaxPerStart
            /\ m_SubtitleMap'[t] = Append(m_SubtitleMap[t], e)
        BY <3>2, <1>2 DEF ParseLine, store, ForwardInv, StoreInv, TypeOK
      <4>2. e \in Entry /\ m_SubtitleMap[t] \in Seq(Entry)
        BY <1>2, RendererAssumption DEF Entry, ForwardInv, StoreInv, TypeOK
      <4> HIDE DEF e
      <4>3. /\ Len(m_SubtitleMap'[t]) = Len(m_SubtitleMap[t]) + 1
            /\ Len(m_SubtitleMap[t]) \in Nat
        BY <4>1, <4>2, AppendProperties, LenProperties
      <4> QED BY <4>1, <4>3, RendererAssumption
    <3> QED BY <3>1, <3>2
  <2> QED BY <2>1 DEF Bounded
<1>13. EmptyStore'
  BY <1>1, <1>4 DEF ForwardInv, EmptyStore
<1>14. /\ NothingBeforeFrame' /\ ValidCoverNow' /\ DrawnForOwnSpan' /\ NumberedOnce'
       /\ ActiveValid' /\ OutIsActive' /\ PendingHasTime'
  BY <1>1 DEF ForwardInv, PendingHasTime, NothingBeforeFrame, ValidCoverNow, DrawnForOwnSpan, NumberedOnce,
              ActiveValid, OutIsActive
<1>15. DrawnWhole'
  BY <1>1, <1>5, <1>7 DEF ForwardInv, DrawnWhole
<1>16. ValidDrawn' /\ CountIsDrawings'
  BY <1>1, <1>8 DEF ForwardInv, ValidDrawn, CountIsDrawings
<1>17. FirstValid'
  <2>1. ~Covers(sp, clock)
    BY <1>3 DEF Covers
  <2>2. \A q \in m_SubtitleTimeSpans : IsBegin(q)' => IsBegin(q)
    BY <1>4 DEF IsBegin
  <2> QED BY <1>1, <1>4, <2>1, <2>2 DEF ForwardInv, FirstValid
<1> QED
  BY <1>9, <1>10, <1>11, <1>12, <1>13, <1>14, <1>15, <1>16, <1>17 DEF ForwardInv

LEMMA ForwardInvInductive ==
  ASSUME ForwardInv, [ForwardNext]_vars
  PROVE  ForwardInv'
<1>1. ASSUME NEW t \in Times, ~pending, clock <= t, GetSubtitlePictureCount(t)
      PROVE  ForwardInv'
  BY <1>1, CountForwardInv
<1>2. ASSUME pending, GetSubtitlePicture(clock) PROVE ForwardInv'
  BY <1>2, PictureForwardInv
<1>3. ASSUME NEW l \in Lines, NEW sp \in Span, ~pending, DeliveredAhead(sp),
             ParseLine(l, sp[1], sp[2])
      PROVE  ForwardInv'
  BY <1>3, ParseLineForwardInv
<1>4. ASSUME ~pending, Invalidate PROVE ForwardInv'
  BY <1>4, InvalidateForwardInv
<1>5. ASSUME UNCHANGED vars PROVE ForwardInv'
  <2>1. StoreInv' /\ PendingHasTime'
    BY <1>5, StoreInvInductive DEF ForwardInv
  <2> QED
    BY <1>5, <2>1
    DEF vars, store, cache, ForwardInv, OneEnd, HeadInert, Bounded, EmptyStore,
        NothingBeforeFrame, ValidCoverNow, DrawnForOwnSpan, NumberedOnce, ActiveValid, DrawnWhole,
        ValidDrawn, CountIsDrawings, OutIsActive, FirstValid, EntriesAt, Drawings, IsBegin
<1> QED BY <1>1, <1>2, <1>3, <1>4, <1>5 DEF ForwardNext

LEMMA ForwardInvAlways == ForwardSpec => []ForwardInv
<1> QED BY InitForwardInv, ForwardInvInductive, PTL DEF ForwardSpec

-----------------------------------------------------------------------------
(* Span and index number the pictures of a frame like the drawings its     *)
(* count added up.                                                         *)
LEMMA CountMatches == ASSUME ForwardInv PROVE PicturesMatchCount
<1> SUFFICES ASSUME ~pending PROVE Cardinality(out) = count
  BY DEF PicturesMatchCount
<1> DEFINE D == Drawings(m_ValidSubtitleTimes)
           f == [p \in out |-> <<p.span, p.index>>]
<1>1. out = {p \in m_RenderedSubtitles : Covers(p.span, clock)}
  BY DEF ForwardInv, OutIsActive
<1>2. \A p \in out : <<p.span, p.index>> \in D
  BY <1>1, DrawingOf DEF ForwardInv, StoreInv, CacheFromStore, ActiveValid
<1>3. \A p, q \in out : <<p.span, p.index>> = <<q.span, q.index>> => p = q
  BY <1>1 DEF ForwardInv, NumberedOnce
<1>4. ASSUME NEW d \in D PROVE \E p \in out : <<p.span, p.index>> = d
  <2>1. d = <<d[1], d[2]>> /\ d[1] \in m_ValidSubtitleTimes
    BY DEF Drawings
  <2>2. PICK p \in m_RenderedSubtitles : p.span = d[1] /\ p.index = d[2]
    BY DEF ForwardInv, ValidDrawn
  <2> QED BY <1>1, <2>1, <2>2 DEF ForwardInv, ValidCoverNow
<1> HIDE DEF D
<1>5. f \in Bijection(out, D)
  <2>1. f \in [out -> D] BY <1>2
  <2>2. IsInjective(f) BY <1>3 DEF IsInjective
  <2>3. \A d \in D : \E p \in out : f[p] = d BY <1>4
  <2> QED BY <2>1, <2>2, <2>3 DEF Bijection, Injection, Surjection
<1>6. IsFiniteSet(out)
  BY <1>1, FS_Subset DEF ForwardInv, StoreInv, Finite
<1>7. Cardinality(D) = Cardinality(out)
  BY <1>5, <1>6, FS_Bijection DEF ExistsBijection
<1> QED BY <1>7 DEF ForwardInv, CountIsDrawings, D

(* In a forward playback each frame gets exactly as many pictures as the   *)
(* count promised.                                                         *)
THEOREM ForwardPicturesMatchCount == ForwardSpec => []PicturesMatchCount
BY CountMatches, ForwardInvAlways, PTL

(* In a forward playback every picture of a frame is of an active line.    *)
THEOREM ForwardOnTime == ForwardSpec => []OnTime
<1>1. ForwardInv => OnTime
  BY DEF ForwardInv, OutIsActive, DrawnForOwnSpan, OnTime
<1> QED BY <1>1, ForwardInvAlways, PTL

(* In a forward playback the first line of the store is never missed.      *)
THEOREM ForwardFirstLineShown == ForwardSpec => []FirstLineShown
<1>1. ForwardInv => FirstLineShown
  <2> SUFFICES ASSUME ForwardInv, ~pending, clock # Never, NEW sp \in m_SubtitleTimeSpans,
                      IsBegin(sp), Covers(sp, clock)
               PROVE  \E p \in out : SpanOf(p.entry) = sp
    BY DEF FirstLineShown
  <2>1. sp \in m_ValidSubtitleTimes
    BY DEF ForwardInv, FirstValid
  <2>2. sp[1] \in Times
    BY DEF ForwardInv, StoreInv, TypeOK, Span
  <2>3. PICK i \in DOMAIN EntriesAt(sp[1]) : TRUE
    BY <2>2 DEF ForwardInv, StoreInv, StoreConsistent, EntriesAt
  <2>4. <<sp, i>> \in Drawings(m_ValidSubtitleTimes)
    BY <2>1, DrawingOf DEF ForwardInv, StoreInv
  <2>5. PICK p \in m_RenderedSubtitles : p.span = sp
    BY <2>4 DEF ForwardInv, ValidDrawn
  <2> QED BY <2>5 DEF ForwardInv, OutIsActive, DrawnForOwnSpan
<1> QED BY <1>1, ForwardInvAlways, PTL

(* In a forward playback a picture is handed out, the very same one, in    *)
(* every frame until its line is over.                                     *)
THEOREM ForwardStaysOnScreen == ForwardSpec => StaysOnScreen
<1> DEFINE Kept == ~pending' /\ clock' # Never =>
             \A p \in out : Covers(SpanOf(p.entry), clock') => p \in out'
<1>1. ForwardInv /\ ForwardInv' /\ [ForwardNext]_vars => [Kept]_vars
  <2> SUFFICES ASSUME ForwardInv, ForwardInv', ForwardNext, ~pending', clock' # Never,
                      NEW p \in out, Covers(SpanOf(p.entry), clock')
               PROVE  p \in out'
    OBVIOUS
  <2>1. p \in m_RenderedSubtitles
    BY DEF ForwardInv, OutIsActive
  <2>2. CASE \E t \in Times : GetSubtitlePictureCount(t)
    <3>1. m_RenderedSubtitles' = m_RenderedSubtitles
      BY <2>2 DEF GetSubtitlePictureCount
    <3> QED BY <2>1, <3>1 DEF ForwardInv, OutIsActive, DrawnForOwnSpan
  <2>3. CASE GetSubtitlePicture(clock)
    BY <2>1, <2>3 DEF GetSubtitlePicture, Cached
  <2>4. CASE \E l \in Lines, sp \in Span : ParseLine(l, sp[1], sp[2])
    BY <2>4 DEF ParseLine
  <2>5. CASE Invalidate
    BY <2>5 DEF Invalidate
  <2> QED BY <2>2, <2>3, <2>4, <2>5 DEF ForwardNext
<1>2. ForwardSpec => [][Kept]_vars
  BY <1>1, ForwardInvAlways, PTL DEF ForwardSpec
<1> QED BY <1>2 DEF StaysOnScreen

-----------------------------------------------------------------------------
(* Once a frame is done its pictures are as many as were counted. *)
LEMMA CountMatchesNext == ForwardInv' => PicturesMatchCount'
<1>1. ForwardInv => PicturesMatchCount
  BY CountMatches
<1> QED BY <1>1, PTL

(* A span as the renderer compares it, and as the contract does. *)
LEMMA ActiveIsCovered ==
  ASSUME NEW e, NEW t PROVE Contract!Active(e, t) <=> Covers(SpanOf(e), t)
BY DEF Contract!Active, Covers, SpanOf

(* A cached picture is of an entry that is still stored. *)
LEMMA PictureOfStored ==
  ASSUME StoreInv, NEW p \in m_RenderedSubtitles
  PROVE  p.entry \in StoredEntries
<1>1. p.index \in DOMAIN EntriesAt(p.span[1]) /\ EntriesAt(p.span[1])[p.index] = p.entry
  BY DEF StoreInv, CacheFromStore
<1>2. DOMAIN << >> = {}
  OBVIOUS
<1>3. p.span[1] \in Times /\ EntriesAt(p.span[1]) = m_SubtitleMap[p.span[1]]
  BY <1>1, <1>2 DEF EntriesAt
<1> QED BY <1>1, <1>3 DEF StoredEntries

PicturesStored == \A p \in m_RenderedSubtitles : p.entry \in StoredEntries

LEMMA PicturesOfStoredNext == ForwardInv' => PicturesStored'
<1>1. ForwardInv => PicturesStored
  BY PictureOfStored DEF ForwardInv, PicturesStored
<1> QED BY <1>1, PTL

-----------------------------------------------------------------------------
LEMMA InitContract == SRTInit => Contract!Init
<1> SUFFICES ASSUME SRTInit PROVE Contract!Init
  OBVIOUS
<1>1. ASSUME NEW t \in Times PROVE {m_SubtitleMap[t][i] : i \in DOMAIN m_SubtitleMap[t]} = {}
  BY DEF SRTInit
<1>2. StoredEntries = {}
  BY <1>1 DEF StoredEntries
<1> QED BY <1>2 DEF SRTInit, Contract!Init

LEMMA ParseLineProvides ==
  ASSUME ForwardInv, ~pending, NEW l \in Lines, NEW sp \in Span,
         DeliveredAhead(sp), ParseLine(l, sp[1], sp[2])
  PROVE  Contract!Provide
<1> DEFINE e == [Text |-> Strip[l], StartTime |-> sp[1], EndTime |-> sp[2]]
<1>1. UNCHANGED <<pending, count, clock, out>>
  BY DEF ParseLine, cache
<1>2. sp[1] \in Times /\ sp[2] \in Times /\ Strip[l] \in Lines /\ e \in Entry
  BY RendererAssumption DEF Span, Entry
<1> HIDE DEF e
<1>3. CASE UNCHANGED m_SubtitleMap
  BY <1>1, <1>3 DEF StoredEntries, Contract!Provide
<1>4. CASE m_SubtitleMap' = [m_SubtitleMap EXCEPT ![sp[1]] = Append(@, e)]
  <2>1. ASSUME NEW t \in Times
        PROVE  /\ DOMAIN m_SubtitleMap[t] \subseteq DOMAIN m_SubtitleMap'[t]
               /\ \A i \in DOMAIN m_SubtitleMap[t] : m_SubtitleMap'[t][i] = m_SubtitleMap[t][i]
               /\ \A i \in DOMAIN m_SubtitleMap'[t] :
                    i \in DOMAIN m_SubtitleMap[t] \/ m_SubtitleMap'[t][i] = e
    <3>1. m_SubtitleMap[t] \in Seq(Entry)
      BY DEF ForwardInv, StoreInv, TypeOK
    <3>2. m_SubtitleMap'[t] = IF t = sp[1] THEN Append(m_SubtitleMap[t], e) ELSE m_SubtitleMap[t]
      BY <1>2, <1>4 DEF ForwardInv, StoreInv, TypeOK
    <3> QED BY <1>2, <3>1, <3>2
  <2>2. StoredEntries \subseteq StoredEntries'
    BY <2>1 DEF StoredEntries
  <2>3. ASSUME NEW d \in StoredEntries', d \notin StoredEntries PROVE d = e
    <3>1. PICK t \in Times : \E i \in DOMAIN m_SubtitleMap'[t] : d = m_SubtitleMap'[t][i]
      BY DEF StoredEntries
    <3>2. PICK i \in DOMAIN m_SubtitleMap'[t] : d = m_SubtitleMap'[t][i]
      BY <3>1
    <3>3. i \in DOMAIN m_SubtitleMap[t] => d \in StoredEntries
      BY <2>1, <3>2 DEF StoredEntries
    <3> QED BY <2>1, <2>3, <3>2, <3>3
  <2>4. clock < e.StartTime
    BY DEF e, DeliveredAhead
  <2> QED BY <1>1, <2>2, <2>3, <2>4 DEF Contract!Provide
<1> QED BY <1>3, <1>4 DEF ParseLine, store, e

LEMMA InvalidateClears ==
  ASSUME ~pending, Invalidate PROVE Contract!Clear
<1>1. ASSUME NEW t \in Times PROVE {m_SubtitleMap'[t][i] : i \in DOMAIN m_SubtitleMap'[t]} = {}
  BY DEF Invalidate
<1>2. StoredEntries' = {}
  BY <1>1 DEF StoredEntries
<1> QED BY <1>2 DEF Invalidate, Contract!Clear

LEMMA CountPromises ==
  ASSUME ForwardInv, ForwardInv', NEW t \in Times, ~pending, clock <= t,
         GetSubtitlePictureCount(t)
  PROVE  Contract!Promise(t)
<1>1. /\ UNCHANGED <<m_SubtitleMap, m_RenderedSubtitles>>
      /\ pending' = (count' > 0)
      /\ out' = IF count' > 0 THEN out ELSE {}
      /\ clock' = t
  BY DEF GetSubtitlePictureCount, store
<1>2. count' \in Nat
  BY DEF ForwardInv, StoreInv, TypeOK
<1>3. StoredEntries' = StoredEntries
  BY <1>1 DEF StoredEntries
<1>4. ASSUME ~pending', NEW p \in out PROVE ~Contract!Active(p.entry, t)
  <2>1. p \in m_RenderedSubtitles' /\ p \notin out'
    BY <1>1, <1>4 DEF ForwardInv, OutIsActive
  <2>2. ~Covers(p.span, t) /\ p.span = SpanOf(p.entry)
    BY <1>1, <1>4, <2>1 DEF ForwardInv, OutIsActive, DrawnForOwnSpan
  <2> QED BY <2>2, ActiveIsCovered
<1> QED BY <1>1, <1>2, <1>3, <1>4 DEF Contract!Promise

LEMMA PictureShows ==
  ASSUME ForwardInv, ForwardInv', pending, GetSubtitlePicture(clock)
  PROVE  Contract!Show
<1>1. /\ UNCHANGED <<m_SubtitleMap, count, clock>>
      /\ out' = m_RenderedSubtitles'
      /\ Cached(clock) \subseteq m_RenderedSubtitles'
      /\ pending' = FALSE
  BY DEF GetSubtitlePicture, store
<1>2. StoredEntries' = StoredEntries
  BY <1>1 DEF StoredEntries
<1>3. PicturesMatchCount'
  BY CountMatchesNext
<1>4. Cardinality(out') = count
  BY <1>1, <1>3 DEF PicturesMatchCount
<1>5. \A p \in out' : p.entry \in StoredEntries'
  BY <1>1, PicturesOfStoredNext DEF PicturesStored
<1>6. \A p \in out' : Contract!Active(p.entry, clock)
  BY <1>1, ActiveIsCovered DEF ForwardInv, OutIsActive, DrawnForOwnSpan
<1>7. \A p \in out : Contract!Active(p.entry, clock) => p \in out'
  BY <1>1, ActiveIsCovered DEF ForwardInv, OutIsActive, Cached
<1>8. Contract!Cardinality(out') = Cardinality(out')
  BY DEF Contract!Cardinality, Cardinality
<1> QED BY <1>1, <1>2, <1>4, <1>5, <1>6, <1>7, <1>8 DEF Contract!Show

(* In a forward playback every call of the renderer is a step of the       *)
(* contract ISubtitleRenderer states, whatever the texts and times are.    *)
THEOREM ForwardImplementsContract == ForwardSpec => ImplementsContract
<1>1. ASSUME ForwardInv, ForwardInv', [ForwardNext]_vars
      PROVE  [Contract!Next]_(Contract!vars)
  <2>1. ASSUME NEW t \in Times, ~pending, clock <= t, GetSubtitlePictureCount(t)
        PROVE  Contract!Next
    BY <1>1, <2>1, CountPromises DEF Contract!Next
  <2>2. ASSUME pending, GetSubtitlePicture(clock) PROVE Contract!Next
    BY <1>1, <2>2, PictureShows DEF Contract!Next
  <2>3. ASSUME NEW l \in Lines, NEW sp \in Span, ~pending, DeliveredAhead(sp),
               ParseLine(l, sp[1], sp[2])
        PROVE  Contract!Next
    BY <1>1, <2>3, ParseLineProvides DEF Contract!Next
  <2>4. ASSUME ~pending, Invalidate PROVE Contract!Next
    BY <2>4, InvalidateClears DEF Contract!Next
  <2>5. CASE UNCHANGED vars
    BY <2>5 DEF vars, store, Contract!vars, StoredEntries
  <2> QED BY <1>1, <2>1, <2>2, <2>3, <2>4, <2>5 DEF ForwardNext
<1> QED
  BY <1>1, InitContract, ForwardInvAlways, PTL
  DEF ForwardSpec, ImplementsContract, Contract!Spec
=============================================================================
