-------------------------- MODULE OutputQueueProofs --------------------------
(***************************************************************************)
(* Safety of COutputQueue for any samples, batches and modes.              *)
(* Three invariants, each on top of those before it: where things are and   *)
(* what the signals mean (QueueInv), that a sample is in one place         *)
(* (OnceInv), and that what is further on was made before (OrderInv).      *)
(***************************************************************************)
EXTENDS OutputQueue, FiniteSetTheorems, SequenceTheorems, TLAPS

-----------------------------------------------------------------------------
(* Sequences of integers: how often one occurs, and whether it does. *)
LEMMA TimesType ==
  ASSUME NEW s \in Seq(Int), NEW n
  PROVE  Times(n, s) \in Nat /\ (Times(n, s) = 0 <=> n \notin Elements(s))
<1> DEFINE I == {i \in 1 .. Len(s) : s[i] = n}
<1>1. Len(s) \in Nat
  BY LenProperties
<1>2. IsFiniteSet(1 .. Len(s))
  BY <1>1, FS_Interval
<1>3. IsFiniteSet(I)
  BY <1>2, FS_Subset
<1>4. Cardinality(I) \in Nat /\ (Cardinality(I) = 0 <=> I = {})
  BY <1>3, FS_CardinalityType, FS_EmptySet
<1>5. I = {} <=> n \notin Elements(s)
  BY DEF Elements
<1> QED BY <1>4, <1>5 DEF Times

LEMMA TimesEmpty == \A n : Times(n, << >>) = 0 /\ Elements(<< >>) = {}
<1> TAKE n
<1>1. << >> \in Seq(Int) /\ Elements(<< >>) = {}
  BY DEF Elements
<1> QED BY <1>1, TimesType

LEMMA TimesUnit ==
  ASSUME NEW e \in Int, NEW n
  PROVE  Times(n, <<e>>) = (IF e = n THEN 1 ELSE 0) /\ Elements(<<e>>) = {e}
<1> DEFINE s == <<e>>
<1>1. s \in Seq(Int) /\ Len(s) = 1 /\ s[1] = e
  OBVIOUS
<1>2. Elements(s) = {e}
  BY <1>1 DEF Elements
<1>3. CASE e = n
  <2>1. {i \in 1 .. Len(s) : s[i] = n} = {1}
    BY <1>1, <1>3
  <2> QED BY <1>2, <1>3, <2>1, FS_Singleton DEF Times
<1>4. CASE e # n
  BY <1>1, <1>2, <1>4, TimesType
<1> QED BY <1>3, <1>4

LEMMA TimesConcat ==
  ASSUME NEW s \in Seq(Int), NEW t \in Seq(Int), NEW n
  PROVE  /\ Times(n, s \o t) = Times(n, s) + Times(n, t)
         /\ Elements(s \o t) = Elements(s) \cup Elements(t)
<1> DEFINE k == Len(s)
           l == Len(t)
           A == {i \in 1 .. k : s[i] = n}
           B == {i \in 1 .. l : t[i] = n}
           C == {i \in k + 1 .. k + l : (s \o t)[i] = n}
<1>1. /\ k \in Nat /\ l \in Nat /\ Len(s \o t) = k + l
      /\ \A i \in 1 .. k + l : (s \o t)[i] = IF i <= k THEN s[i] ELSE t[i - k]
  BY ConcatProperties, LenProperties
<1> HIDE DEF k, l
<1>shift. \A j \in 1 .. l : /\ j + k \in k + 1 .. k + l /\ j + k \in 1 .. k + l
                            /\ (s \o t)[j + k] = t[j]
  <2> TAKE j \in 1 .. l
  <2>1. j + k \in k + 1 .. k + l /\ j + k \in 1 .. k + l /\ ~(j + k <= k) /\ j + k - k = j
    BY <1>1
  <2> QED BY <1>1, <2>1
<1>2. IsFiniteSet(A) /\ IsFiniteSet(B)
  <2>1. IsFiniteSet(1 .. k) /\ IsFiniteSet(1 .. l)
    <3>1. k \in Int /\ l \in Int /\ 1 \in Int
      BY <1>1
    <3> QED BY <3>1, FS_Interval
  <2>2. A \in SUBSET (1 .. k) /\ B \in SUBSET (1 .. l)
    OBVIOUS
  <2> QED BY <2>1, <2>2, FS_Subset
<1>3. IsFiniteSet(C) /\ Cardinality(C) = Cardinality(B)
  <2> DEFINE f == [i \in B |-> i + k]
  <2>1. f \in [B -> C]
    BY <1>shift
  <2>2. \A i, j \in B : f[i] = f[j] => i = j
    BY <1>1
  <2>3. \A j \in C : j - k \in B /\ f[j - k] = j
    BY <1>1
  <2>4. f \in Bijection(B, C)
    <3> HIDE DEF f, B, C
    <3> QED BY <2>1, <2>2, <2>3 DEF Bijection, Injection, Surjection, IsInjective
  <2>5. ExistsBijection(B, C)
    BY <2>4 DEF ExistsBijection
  <2> QED BY <1>2, <2>5, FS_Bijection
<1>4. {i \in 1 .. Len(s \o t) : (s \o t)[i] = n} = A \cup C /\ A \cap C = {}
  BY <1>1
<1>5. Cardinality(A \cup C) = Cardinality(A) + Cardinality(C) - Cardinality(A \cap C)
  BY <1>2, <1>3, FS_Union
<1>6. Cardinality(A) \in Nat /\ Cardinality(C) \in Nat /\ Cardinality({}) = 0
  BY <1>2, <1>3, FS_CardinalityType, FS_EmptySet
<1>7. Cardinality(A \cup C) = Cardinality(A) + Cardinality(B)
  <2> HIDE DEF A, B, C
  <2>1. Cardinality(A \cap C) = 0
    BY <1>4, <1>6
  <2> QED BY <1>3, <1>5, <1>6, <2>1
<1>8. Elements(s \o t) = Elements(s) \cup Elements(t)
  <2>1. ASSUME NEW i \in 1 .. k PROVE i \in 1 .. k + l /\ (s \o t)[i] = s[i]
    BY <1>1
  <2>2. ASSUME NEW j \in 1 .. l PROVE j + k \in 1 .. k + l /\ (s \o t)[j + k] = t[j]
    BY <1>shift
  <2>3. ASSUME NEW i \in 1 .. k + l
        PROVE  (\E j \in 1 .. k : (s \o t)[i] = s[j]) \/ (\E j \in 1 .. l : (s \o t)[i] = t[j])
    <3>1. CASE i <= k
      BY <1>1, <3>1
    <3>2. CASE i > k
      <4>1. i - k \in 1 .. l /\ (s \o t)[i] = t[i - k]
        BY <1>1, <3>2
      <4> QED BY <4>1
    <3> QED BY <1>1, <3>1, <3>2
  <2>4. Elements(s \o t) \subseteq Elements(s) \cup Elements(t)
    BY <1>1, <2>3 DEF Elements, k, l
  <2>5. Elements(s) \cup Elements(t) \subseteq Elements(s \o t)
    <3>1. ASSUME NEW x \in Elements(s) PROVE x \in Elements(s \o t)
      BY <1>1, <2>1, <3>1 DEF Elements, k
    <3>2. ASSUME NEW x \in Elements(t) PROVE x \in Elements(s \o t)
      BY <1>1, <2>2, <3>2 DEF Elements, l
    <3> QED BY <3>1, <3>2
  <2> QED BY <2>4, <2>5
<1> QED BY <1>4, <1>7, <1>8 DEF Times, k, l

LEMMA TimesAppend ==
  ASSUME NEW s \in Seq(Int), NEW e \in Int, NEW n
  PROVE  /\ Times(n, Append(s, e)) = Times(n, s) + (IF e = n THEN 1 ELSE 0)
         /\ Elements(Append(s, e)) = Elements(s) \cup {e}
<1>1. Append(s, e) = s \o <<e>> /\ <<e>> \in Seq(Int)
  BY AppendIsConcat
<1>2. /\ Times(n, s \o <<e>>) = Times(n, s) + Times(n, <<e>>)
      /\ Elements(s \o <<e>>) = Elements(s) \cup Elements(<<e>>)
  BY <1>1, TimesConcat
<1>3. Times(n, <<e>>) = (IF e = n THEN 1 ELSE 0) /\ Elements(<<e>>) = {e}
  BY TimesUnit
<1> QED BY <1>1, <1>2, <1>3, Zenon

LEMMA TimesTail ==
  ASSUME NEW s \in Seq(Int), s # << >>, NEW n
  PROVE  /\ Times(n, s) = Times(n, Tail(s)) + (IF Head(s) = n THEN 1 ELSE 0)
         /\ Elements(s) = Elements(Tail(s)) \cup {Head(s)}
<1>1. Head(s) \in Int /\ Tail(s) \in Seq(Int)
  BY HeadTailProperties
<1>2. s = <<Head(s)>> \o Tail(s)
  <2>1. <<Head(s)>> \in Seq(Int) /\ Len(<<Head(s)>>) = 1
    BY <1>1
  <2>2. /\ <<Head(s)>> \o Tail(s) \in Seq(Int)
        /\ Len(<<Head(s)>> \o Tail(s)) = 1 + Len(Tail(s))
        /\ \A i \in 1 .. 1 + Len(Tail(s)) :
             (<<Head(s)>> \o Tail(s))[i] = IF i <= 1 THEN <<Head(s)>>[i] ELSE Tail(s)[i - 1]
    BY <1>1, <2>1, ConcatProperties
  <2>3. Len(s) \in Nat \ {0} /\ Len(Tail(s)) = Len(s) - 1 /\ Head(s) = s[1]
    BY EmptySeq, HeadTailProperties
  <2>4. \A i \in 1 .. Len(s) : s[i] = (<<Head(s)>> \o Tail(s))[i]
    <3> TAKE i \in 1 .. Len(s)
    <3>1. CASE i = 1
      BY <2>2, <2>3, <3>1
    <3>2. CASE i # 1
      <4>1. i - 1 \in 1 .. Len(Tail(s)) /\ i - 1 + 1 = i
        BY <2>3, <3>2
      <4>2. Tail(s)[i - 1] = s[i]
        BY <4>1, HeadTailProperties
      <4> QED BY <2>2, <2>3, <3>2, <4>2
    <3> QED BY <3>1, <3>2
  <2> QED BY <2>2, <2>3, <2>4, SeqEqual
<1>3. <<Head(s)>> \in Seq(Int)
  BY <1>1
<1>4. Times(n, Tail(s)) \in Nat
  BY <1>1, TimesType
<1>5. /\ Times(n, <<Head(s)>> \o Tail(s)) = Times(n, <<Head(s)>>) + Times(n, Tail(s))
      /\ Elements(<<Head(s)>> \o Tail(s)) = Elements(<<Head(s)>>) \cup Elements(Tail(s))
  BY <1>1, <1>3, TimesConcat
<1>6. Times(n, <<Head(s)>>) = (IF Head(s) = n THEN 1 ELSE 0) /\ Elements(<<Head(s)>>) = {Head(s)}
  BY <1>1, TimesUnit
<1>7. Times(n, s) = Times(n, <<Head(s)>>) + Times(n, Tail(s))
  BY <1>2, <1>5, Zenon
<1>8. Elements(s) = {Head(s)} \cup Elements(Tail(s))
  BY <1>2, <1>5, <1>6, Zenon
<1> DEFINE a == Times(n, Tail(s))
           b == Times(n, s)
<1>9. b = (IF Head(s) = n THEN 1 ELSE 0) + a /\ a \in Nat
  BY <1>4, <1>6, <1>7, Zenon
<1> HIDE DEF a, b
<1>10. b = a + (IF Head(s) = n THEN 1 ELSE 0)
  BY <1>9
<1> QED BY <1>8, <1>10, Zenon DEF a, b
-----------------------------------------------------------------------------
(* What the signals' soundness takes: no mark but EndOfStream is on its    *)
(* way when a flush begins, and no queue whose flushes may be cut short    *)
(* is reset.  Either could set m_evFlushComplete with nobody waiting.      *)
ResetsSafely ==
  InFlight \subseteq {"Receive", "EOS"} /\ \A m \in ResetModes : ~m.opt

(* The parameters of a new segment follow their entry. *)
Paired(list) ==
  \A i \in 1 .. Len(list) : list[i] = NEW_SEGMENT => i < Len(list) /\ list[i + 1] = PACKET

Typed ==
  /\ mode \in Mode
  /\ m_List \in Seq(Entries) /\ Paired(m_List)
  /\ m_ppSamples \in Seq(Samples) /\ sending \in Seq(Samples) /\ hand \in Seq(Samples)
  /\ m_lWaiting \in Nat /\ m_hSem \in Nat
  /\ made \in Nat /\ made <= MaxSamples /\ fence \in Nat /\ fence <= made
  /\ released \in [Samples -> Nat]

(* Where the threads can be, and what is then where. *)
Placed ==
  /\ ~mode.queued =>
       /\ worker = "none" /\ m_List = << >> /\ sending = << >>
       /\ m_lWaiting = 0 /\ m_hSem = 0 /\ m_evFlushComplete = FALSE
       /\ control \notin {"beginning", "resetting", "joining"}
  /\ mode.queued =>
       /\ worker # "none" /\ source \in {"idle", "called"} /\ control # "entering"
       /\ Len(m_ppSamples) < m_lBatchSize
  /\ source = "idle" => hand = << >> /\ call = "none"
  /\ control \in {"syncing", "ending", "reopening", "deleting", "joining", "deleted"} =>
       source = "idle"
  /\ worker \notin {"sending", "delivering"} => sending = << >>
  /\ worker = "delivering" => sending # << >>
  /\ worker = "done" => m_bTerminate /\ m_List = << >> /\ m_ppSamples = << >>
  /\ m_bTerminate => control \in {"joining", "deleted"}
  /\ control = "deleted" => worker \in {"none", "done"} /\ m_ppSamples = << >>

(* A flush with a worker that waits for it, and not one cut short. *)
Draining ==
  /\ mode.queued
  /\ \/ control \in {"beginning", "syncing"}
     \/ control = "flushing" /\ ~(mode.opt /\ m_bFlushed)

Drained == m_List = << >> /\ m_ppSamples = << >> /\ sending = << >>

(* In such a flush the worker has emptied the queue and waits when the     *)
(* event is set.                                                           *)
Flushes ==
  /\ m_bFlushing => control \in {"beginning", "flushing", "syncing", "ending"}
  /\ control \in {"beginning", "flushing", "syncing", "ending"} => m_bFlushing
  /\ control \in Flushing => call \in InFlight \cup {"none"}
  /\ mode.queued /\ control \in Flushing => m_hr # "ok"
  /\ Draining =>
       /\ m_lWaiting = 1 => m_evFlushComplete
       /\ m_evFlushComplete => m_lWaiting = 1 /\ Drained
  /\ control = "ending" =>
       Drained /\ (mode.queued => ~m_evFlushComplete /\ m_lWaiting = 1)
  /\ ~mode.opt /\ control \in {"idle", "reopening"} => ~m_evFlushComplete

(* The one RESET_PACKET is in one place until its reset is reported. *)
Resets ==
  /\ control = "resetting" => mode \in ResetModes /\ mode.queued
  /\ Times(RESET_PACKET, m_List) # 0 \/ pSample = RESET_PACKET \/ worker = "reporting"
       => control = "resetting" /\ ~m_evFlushComplete
  /\ Times(RESET_PACKET, m_List) <= 1
  /\ pSample = RESET_PACKET => Times(RESET_PACKET, m_List) = 0
  /\ worker = "reporting" => Times(RESET_PACKET, m_List) = 0 /\ pSample # RESET_PACKET

(* Samples in the queue are of this side of the flush, and m_bFlushed      *)
(* means there are none.                                                   *)
Fresh ==
  /\ mode.queued /\ m_bFlushed =>
       Elements(m_List) \cap Samples = {} /\ m_ppSamples = << >> /\ sending = << >>
  /\ \A n \in Samples :
       n \in Elements(m_List) \cup Elements(m_ppSamples) \cup Elements(sending) \cup Elements(hand)
         => n > fence

QueueInv ==
  ResetsSafely /\ Typed /\ Placed /\ NoLostWakeup /\ Flushes /\ Resets /\ Fresh
-----------------------------------------------------------------------------
LEMMA EntriesAreInts ==
  /\ Samples \subseteq Int /\ Entries \subseteq Int /\ Samples \subseteq Entries
  /\ \A n \in Samples : n # NULL /\ ~IsSpecialSample(n)
  /\ RESET_PACKET \in Int /\ RESET_PACKET \notin Samples /\ RESET_PACKET # NULL
BY OutputQueueAssumption
DEF Samples, Entries, IsSpecialSample, NULL, PACKET, SEND_PACKET, EOS_PACKET, RESET_PACKET, NEW_SEGMENT

LEMMA IntSequences ==
  ASSUME Typed
  PROVE  /\ m_List \in Seq(Int) /\ m_ppSamples \in Seq(Int)
         /\ sending \in Seq(Int) /\ hand \in Seq(Int)
BY EntriesAreInts, SeqMonotonic DEF Typed

LEMMA ElementsType ==
  ASSUME NEW S, NEW s \in Seq(S)
  PROVE  Elements(s) \subseteq S /\ (Elements(s) = {} <=> s = << >>)
<1>1. \A i \in 1 .. Len(s) : s[i] \in S
  BY ElementOfSeq
<1>2. Elements(s) \subseteq S
  BY <1>1 DEF Elements
<1>3. ASSUME s # << >> PROVE Elements(s) # {}
  <2>1. Len(s) \in Nat \ {0}
    BY <1>3, EmptySeq
  <2>2. 1 \in 1 .. Len(s)
    BY <2>1
  <2>3. s[1] \in Elements(s)
    BY <2>2 DEF Elements
  <2> QED BY <2>3
<1>4. Elements(<< >>) = {}
  BY TimesEmpty
<1> QED BY <1>2, <1>3, <1>4

LEMMA PairedConcat ==
  ASSUME NEW s \in Seq(Int), NEW t \in Seq(Int), Paired(s), Paired(t)
  PROVE  Paired(s \o t)
<1> DEFINE k == Len(s)
           l == Len(t)
           u == s \o t
<1>1. /\ k \in Nat /\ l \in Nat /\ Len(u) = k + l
      /\ \A i \in 1 .. k + l : u[i] = IF i <= k THEN s[i] ELSE t[i - k]
  BY ConcatProperties, LenProperties
<1>2. /\ \A i \in 1 .. k : s[i] = NEW_SEGMENT => i < k /\ s[i + 1] = PACKET
      /\ \A i \in 1 .. l : t[i] = NEW_SEGMENT => i < l /\ t[i + 1] = PACKET
  BY DEF Paired
<1> SUFFICES ASSUME NEW i \in 1 .. k + l, u[i] = NEW_SEGMENT
             PROVE  i < k + l /\ u[i + 1] = PACKET
  BY <1>1 DEF Paired
<1> HIDE DEF k, l, u
<1>3. CASE i <= k
  <2>1. i < k /\ s[i + 1] = PACKET
    BY <1>1, <1>2, <1>3
  <2> QED BY <1>1, <2>1
<1>4. CASE i > k
  <2>1. i - k \in 1 .. l /\ t[i - k] = NEW_SEGMENT
    BY <1>1, <1>4
  <2>2. i - k < l /\ t[(i - k) + 1] = PACKET
    BY <1>2, <2>1
  <2>3. /\ i + 1 \in 1 .. k + l /\ ~(i + 1 <= k) /\ (i + 1) - k = (i - k) + 1
    BY <1>1, <1>4, <2>2
  <2>4. u[i + 1] = t[(i + 1) - k]
    BY <1>1, <2>3
  <2> QED BY <1>1, <2>2, <2>3, <2>4
<1> QED BY <1>1, <1>3, <1>4

LEMMA PairedTail ==
  ASSUME NEW s \in Seq(Int), s # << >>, Paired(s)
  PROVE  /\ Paired(Tail(s))
         /\ Head(s) = NEW_SEGMENT => Tail(s) # << >> /\ Head(Tail(s)) = PACKET
<1>1. /\ Len(s) \in Nat \ {0} /\ Tail(s) \in Seq(Int) /\ Len(Tail(s)) = Len(s) - 1
      /\ \A i \in 1 .. Len(Tail(s)) : Tail(s)[i] = s[i + 1]
  BY EmptySeq, HeadTailProperties
<1>2. Paired(Tail(s))
  <2> SUFFICES ASSUME NEW i \in 1 .. Len(Tail(s)), Tail(s)[i] = NEW_SEGMENT
               PROVE  i < Len(Tail(s)) /\ Tail(s)[i + 1] = PACKET
    BY DEF Paired
  <2>1. i + 1 \in 1 .. Len(s) /\ s[i + 1] = NEW_SEGMENT
    BY <1>1
  <2>2. i + 1 < Len(s) /\ s[(i + 1) + 1] = PACKET
    BY <2>1 DEF Paired
  <2>3. i + 1 \in 1 .. Len(Tail(s))
    BY <1>1, <2>2
  <2> QED BY <1>1, <2>2, <2>3
<1>3. ASSUME Head(s) = NEW_SEGMENT PROVE Tail(s) # << >> /\ Head(Tail(s)) = PACKET
  <2>1. 1 \in 1 .. Len(s) /\ s[1] = NEW_SEGMENT
    BY <1>1, <1>3
  <2>2. 1 < Len(s) /\ s[1 + 1] = PACKET
    BY <2>1 DEF Paired
  <2>3. Len(Tail(s)) # 0 /\ 1 \in 1 .. Len(Tail(s))
    BY <1>1, <2>2
  <2>4. Tail(s)[1] = PACKET
    BY <1>1, <2>2, <2>3
  <2>5. Tail(s) # << >>
    <3>1. Len(<< >>) = 0
      BY EmptySeq
    <3> QED BY <2>3, <3>1, Zenon
  <2>6. Head(Tail(s)) = Tail(s)[1]
    BY <1>1, <2>5
  <2> QED BY <2>4, <2>5, <2>6
<1> QED BY <1>2, <1>3

(* Marks and samples keep a list paired. *)
LEMMA PairedAlone ==
  /\ Paired(<< >>) /\ Paired(<<NEW_SEGMENT, PACKET>>)
  /\ \A e \in Int : e # NEW_SEGMENT => Paired(<<e>>)
  /\ \A s \in Seq(Samples) : Paired(s)
<1>1. ASSUME NEW s \in Seq(Samples) PROVE Paired(s)
  <2>1. \A i \in 1 .. Len(s) : s[i] \in Samples
    BY ElementOfSeq
  <2>2. NEW_SEGMENT \notin Samples
    BY DEF Samples, NEW_SEGMENT
  <2> QED BY <2>1, <2>2 DEF Paired
<1>2. Paired(<<NEW_SEGMENT, PACKET>>)
  BY DEF Paired, NEW_SEGMENT, PACKET
<1> QED BY <1>1, <1>2 DEF Paired

-----------------------------------------------------------------------------
LEMMA QueueInit == ResetsSafely /\ Init => QueueInv
<1> SUFFICES ASSUME ResetsSafely, Init PROVE QueueInv
  OBVIOUS
<1>1. \A n : Times(n, << >>) = 0 /\ Elements(<< >>) = {} /\ Paired(<< >>) /\ Len(<< >>) = 0
  BY TimesEmpty, PairedAlone
<1>2. mode \in Mode
  BY OutputQueueAssumption DEF Init
<1>3. Typed /\ Fresh
  BY <1>1, <1>2, OutputQueueAssumption DEF Init, Typed, Fresh
<1>4. Placed /\ NoLostWakeup
  BY <1>1, OutputQueueAssumption DEF Init, Placed, NoLostWakeup
<1>5. Flushes /\ Resets
  BY <1>1 DEF Init, Flushes, Flushing, Draining, Resets, NULL, RESET_PACKET
<1> QED BY <1>3, <1>4, <1>5 DEF QueueInv

LEMMA StartReceiveKeeps ==
  ASSUME QueueInv, NEW n \in 1 .. 2, StartReceive(n)
  PROVE  QueueInv'
<1> USE DEF QueueInv, queue, flags, signals, workerVars, outer
<1>1. /\ hand' \in Seq(Samples)
      /\ \A e \in Elements(hand') : e > fence
  <2>1. hand' = [i \in 1 .. n |-> made + i] /\ made + n <= MaxSamples /\ made \in Nat
    BY DEF StartReceive, Typed
  <2>2. \A i \in 1 .. n : made + i \in Samples /\ made + i > fence
    BY <2>1, OutputQueueAssumption DEF Samples, Typed
  <2>3. hand' \in Seq(Samples)
    BY <2>1, <2>2
  <2>4. Len(hand') = n
    BY <2>1
  <2> QED BY <2>1, <2>2, <2>3, <2>4 DEF Elements
<1>2. Typed' /\ Fresh'
  BY <1>1 DEF StartReceive, Typed, Fresh
<1>3. Placed' /\ NoLostWakeup' /\ Flushes' /\ Resets'
  BY DEF StartReceive, MayCall, Placed, NoLostWakeup, Flushes, Flushing, Draining, Drained, Resets
<1> QED BY <1>2, <1>3

LEMMA StartMarkKeeps ==
  ASSUME QueueInv, NEW mark \in Marks, StartMark(mark)
  PROVE  QueueInv'
<1> USE DEF QueueInv, queue, flags, signals, workerVars, outer, history
<1>1. Typed' /\ Fresh' /\ Resets'
  BY DEF StartMark, Typed, Fresh, Resets
<1>2. Placed' /\ NoLostWakeup' /\ Flushes'
  BY DEF StartMark, MayCall, Placed, NoLostWakeup, Flushes, Flushing, Draining, Drained
<1> QED BY <1>1, <1>2

LEMMA RefuseKeeps ==
  ASSUME QueueInv, Refuse
  PROVE  QueueInv'
<1> USE DEF QueueInv, queue, flags, signals, workerVars, outer
<1>1. released' \in [Samples -> Nat]
  BY DEF Refuse, Release, Typed
<1>2. Typed' /\ Fresh' /\ Resets'
  BY <1>1, TimesEmpty DEF Refuse, Returned, Typed, Fresh, Resets
<1>3. Placed' /\ NoLostWakeup' /\ Flushes'
  BY DEF Refuse, Returned, Placed, NoLostWakeup, Flushes, Flushing, Draining, Drained
<1> QED BY <1>2, <1>3

LEMMA ReceiveQueuedKeeps ==
  ASSUME QueueInv, ReceiveQueued
  PROVE  QueueInv'
<1> USE DEF QueueInv, queue, flags, signals, workerVars, outer, history
<1>1. /\ m_List' \in Seq(Entries) /\ Paired(m_List')
      /\ Elements(m_List') = Elements(m_List) \cup Elements(hand)
      /\ Times(RESET_PACKET, m_List') = Times(RESET_PACKET, m_List)
      /\ Elements(hand) \subseteq Samples /\ Len(m_List') \in Nat
  <2>1. m_List' = m_List \o hand
    BY DEF ReceiveQueued
  <2>2. m_List \in Seq(Int) /\ hand \in Seq(Int) /\ hand \in Seq(Entries)
    BY IntSequences, EntriesAreInts, SeqMonotonic DEF Typed
  <2>3. m_List' \in Seq(Entries) /\ Len(m_List') \in Nat
    BY <2>1, <2>2, ConcatProperties, LenProperties DEF Typed
  <2>4. Elements(hand) \subseteq Samples /\ RESET_PACKET \notin Elements(hand)
    BY ElementsType, EntriesAreInts DEF Typed
  <2>5. Times(RESET_PACKET, hand) = 0 /\ Times(RESET_PACKET, m_List) \in Nat
    BY <2>2, <2>4, TimesType
  <2>6. Paired(m_List')
    BY <2>1, <2>2, PairedConcat, PairedAlone DEF Typed
  <2>7. Elements(m_List') = Elements(m_List) \cup Elements(hand)
        /\ Times(RESET_PACKET, m_List') = Times(RESET_PACKET, m_List) + Times(RESET_PACKET, hand)
    BY <2>1, <2>2, TimesConcat
  <2> QED BY <2>3, <2>4, <2>5, <2>6, <2>7
<1>2. /\ mode.queued /\ m_hr = "ok" /\ source = "called" /\ ~m_bFlushed'
      /\ source' = "idle" /\ call' = "none" /\ hand' = << >>
      /\ UNCHANGED <<mode, m_ppSamples, m_bFlushing, m_bTerminate, m_hr, m_evFlushComplete, m_cs,
                     workerVars, outer, history>>
      /\ \/ m_hSem' = m_hSem + m_lWaiting /\ m_lWaiting' = 0
         \/ /\ UNCHANGED <<m_hSem, m_lWaiting>>
            /\ mode.exact /\ ~(Len(m_ppSamples) + Len(m_List') >= m_lBatchSize)
  BY DEF ReceiveQueued, Returned, NotifyThread
<1>3. Typed' /\ Fresh' /\ Resets'
  BY <1>1, <1>2, TimesEmpty DEF Typed, Fresh, Resets
<1>4. Len(m_ppSamples) \in Nat /\ m_lBatchSize \in Nat
  BY LenProperties, OutputQueueAssumption DEF Typed
<1>5. control \notin Flushing
  BY <1>2 DEF Flushes
<1>6. Placed' /\ Flushes'
  BY <1>2, <1>5 DEF Placed, Flushes, Flushing, Draining, Drained
<1>7. NoLostWakeup'
  <2>1. m_lWaiting' = 1 => m_lWaiting = 1 /\ UNCHANGED <<m_hSem, m_lWaiting>>
    BY <1>2
  <2>2. m_lWaiting = 1 => Elements(m_List) \subseteq Samples
    BY TimesEmpty DEF NoLostWakeup
  <2> QED BY <1>1, <1>2, <1>4, <2>1, <2>2 DEF NoLostWakeup, Typed
<1> QED BY <1>3, <1>6, <1>7

(* In a flush only EndOfStream can be on its way, and does nothing. *)
LEMMA MarkQueuedKeeps ==
  ASSUME QueueInv, MarkQueued
  PROVE  QueueInv'
<1> USE DEF QueueInv, queue, flags, signals, workerVars, outer, history
<1>1. /\ mode.queued /\ source = "called" /\ call \in Marks
      /\ source' = "idle" /\ call' = "none" /\ hand' = << >>
      /\ UNCHANGED <<mode, m_ppSamples, m_bFlushing, m_bTerminate, m_hr, m_evFlushComplete, m_cs,
                     workerVars, outer, history>>
  BY DEF MarkQueued, Returned
<1>2. CASE UNCHANGED <<m_List, m_bFlushed, m_hSem, m_lWaiting>>
  <2>1. Typed' /\ Fresh' /\ Resets'
    BY <1>1, <1>2, TimesEmpty DEF Typed, Fresh, Resets
  <2>2. Placed' /\ NoLostWakeup' /\ Flushes'
    BY <1>1, <1>2 DEF Placed, NoLostWakeup, Flushes, Flushing, Draining, Drained
  <2> QED BY <2>1, <2>2
<1>3. CASE ~(call = "EOS" /\ m_hr # "ok")
  <2> DEFINE entry == CASE call = "SendAnyway" -> <<SEND_PACKET>>
                        [] call = "EOS" -> <<EOS_PACKET>>
                        [] call = "NewSegment" -> <<NEW_SEGMENT, PACKET>>
  <2>1. /\ m_List' = m_List \o entry
        /\ m_bFlushed' \in {FALSE, m_bFlushed}
        /\ m_hSem' = m_hSem + m_lWaiting /\ m_lWaiting' = 0
    BY <1>3 DEF MarkQueued, NotifyThread
  <2>2. /\ entry \in Seq(Int) /\ entry \in Seq(Entries) /\ Paired(entry)
        /\ Elements(entry) \cap Samples = {} /\ RESET_PACKET \notin Elements(entry)
    <3> USE DEF SEND_PACKET, EOS_PACKET, NEW_SEGMENT, PACKET, RESET_PACKET, Entries, Samples
    <3>1. CASE call = "SendAnyway"
      BY <3>1, PairedAlone, TimesUnit
    <3>2. CASE call = "EOS"
      BY <3>2, PairedAlone, TimesUnit
    <3>3. CASE call = "NewSegment"
      <4>1. entry = <<NEW_SEGMENT, PACKET>>
        BY <3>3
      <4>2. Elements(<<NEW_SEGMENT, PACKET>>) = {NEW_SEGMENT, PACKET}
        BY DEF Elements
      <4>3. <<NEW_SEGMENT, PACKET>> \in Seq(Int) /\ <<NEW_SEGMENT, PACKET>> \in Seq(Entries)
        OBVIOUS
      <4>4. {NEW_SEGMENT, PACKET} \cap Samples = {} /\ RESET_PACKET \notin {NEW_SEGMENT, PACKET}
        BY OutputQueueAssumption
      <4> HIDE DEF entry, NEW_SEGMENT, PACKET, RESET_PACKET, Samples, Entries
      <4> QED BY <4>1, <4>2, <4>3, <4>4, PairedAlone
    <3> QED BY <1>1, <3>1, <3>2, <3>3, OutputQueueAssumption
  <2> HIDE DEF entry
  <2>3. m_List \in Seq(Int) /\ Times(RESET_PACKET, m_List) \in Nat /\ Times(RESET_PACKET, entry) = 0
    BY <2>2, IntSequences, TimesType
  <2>4. /\ m_List' \in Seq(Entries) /\ Paired(m_List')
        /\ Elements(m_List') \cap Samples = Elements(m_List) \cap Samples
        /\ Times(RESET_PACKET, m_List') = Times(RESET_PACKET, m_List)
    <3>1. m_List' \in Seq(Entries)
      BY <2>1, <2>2, ConcatProperties DEF Typed
    <3>2. Paired(m_List')
      BY <2>1, <2>2, <2>3, PairedConcat DEF Typed
    <3>3. Elements(m_List \o entry) = Elements(m_List) \cup Elements(entry)
          /\ Times(RESET_PACKET, m_List \o entry) = Times(RESET_PACKET, m_List) + Times(RESET_PACKET, entry)
      BY <2>2, <2>3, TimesConcat
    <3> QED BY <2>1, <2>2, <2>3, <3>1, <3>2, <3>3
  <2>5. control \notin Flushing
    <3> SUFFICES ASSUME control \in Flushing PROVE FALSE
      OBVIOUS
    <3>1. call \in {"Receive", "EOS", "none"}
      BY DEF Flushes, ResetsSafely
    <3>2. call = "EOS"
      BY <1>1, <3>1, OutputQueueAssumption
    <3> QED BY <1>1, <1>3, <3>2 DEF Flushes
  <2>6. Typed' /\ Fresh' /\ Resets'
    <3>1. Typed' /\ Resets'
      BY <1>1, <2>1, <2>4 DEF Typed, Resets
    <3>2. \A n \in Samples : n \in Elements(m_List') <=> n \in Elements(m_List)
      BY <2>4
    <3>3. Elements(hand') = {}
      BY <1>1, TimesEmpty
    <3>4. UNCHANGED <<mode, m_ppSamples, sending, fence>>
      BY <1>1
    <3>5. m_bFlushed' => m_bFlushed
      BY <2>1
    <3>6. Elements(m_List') \cap Samples = Elements(m_List) \cap Samples
      BY <2>4
    <3>7. (mode.queued /\ m_bFlushed =>
             Elements(m_List) \cap Samples = {} /\ m_ppSamples = << >> /\ sending = << >>)'
      BY <3>4, <3>5, <3>6 DEF Fresh
    <3>8. ASSUME NEW n \in Samples,
                 n \in Elements(m_List') \cup Elements(m_ppSamples') \cup Elements(sending') \cup Elements(hand')
          PROVE  n > fence'
      BY <3>2, <3>3, <3>4, <3>8 DEF Fresh
    <3> QED BY <3>1, <3>7, <3>8 DEF Fresh
  <2>7. Placed' /\ Flushes'
    BY <1>1, <2>1, <2>5 DEF Placed, Flushes, Flushing, Draining, Drained
  <2>8. NoLostWakeup'
    BY <1>1, <2>1 DEF NoLostWakeup, Typed
  <2> QED BY <2>6, <2>7, <2>8
<1> QED BY <1>2, <1>3 DEF MarkQueued

(* Without a worker: steps of the source thread under the section. *)
LEMMA DirectKeeps ==
  ASSUME QueueInv, EnterDirect \/ BatchDirect \/ SendAnyway \/ DeliverDirect \/ ReturnDirect
  PROVE  QueueInv'
<1> USE DEF QueueInv, queue, flags, signals, workerVars, outer, history
<1>1. /\ ~mode.queued /\ source # "idle"
      /\ UNCHANGED <<mode, m_List, m_bFlushing, m_bTerminate, signals, workerVars, outer, made, fence>>
  BY DEF EnterDirect, BatchDirect, SendAnyway, DeliverDirect, ReturnDirect, Placed
<1>2. /\ source' = "idle" => call' = "none" /\ hand' = << >>
      /\ call' \in {call, "none"}
  BY DEF EnterDirect, BatchDirect, SendAnyway, DeliverDirect, ReturnDirect, Returned
<1>3. /\ m_ppSamples' \in Seq(Samples) /\ hand' \in Seq(Samples) /\ released' \in [Samples -> Nat]
      /\ Elements(m_ppSamples') \cup Elements(hand') \subseteq Elements(m_ppSamples) \cup Elements(hand)
  <2>1. CASE EnterDirect \/ SendAnyway
    BY <2>1 DEF EnterDirect, SendAnyway, Typed
  <2>2. CASE BatchDirect
    <3>1. /\ hand # << >> /\ UNCHANGED released
          /\ m_ppSamples' = Append(m_ppSamples, Head(hand)) /\ hand' = Tail(hand)
      BY <2>2 DEF BatchDirect
    <3>2. Head(hand) \in Samples /\ Tail(hand) \in Seq(Samples)
      BY <3>1, HeadTailProperties DEF Typed
    <3>3. m_ppSamples' \in Seq(Samples)
      BY <3>1, <3>2, AppendProperties DEF Typed
    <3>4. /\ Elements(Append(m_ppSamples, Head(hand))) = Elements(m_ppSamples) \cup {Head(hand)}
          /\ Elements(hand) = Elements(Tail(hand)) \cup {Head(hand)}
      <4>1. Head(hand) \in Int /\ m_ppSamples \in Seq(Int) /\ hand \in Seq(Int)
        BY <3>2, EntriesAreInts, IntSequences
      <4> QED BY <3>1, <4>1, TimesAppend, TimesTail
    <3> QED BY <3>1, <3>2, <3>3, <3>4 DEF Typed
  <2>3. CASE DeliverDirect
    <3>1. released' \in [Samples -> Nat]
      BY <2>3 DEF DeliverDirect, Release, Typed
    <3> QED BY <2>3, <3>1, TimesEmpty DEF DeliverDirect, Typed
  <2>4. CASE ReturnDirect
    BY <2>4 DEF ReturnDirect, Returned, Typed
  <2> QED BY <2>1, <2>2, <2>3, <2>4
<1>4. Typed' /\ Fresh' /\ Resets'
  BY <1>1, <1>3 DEF Typed, Fresh, Resets
<1>5. NoLostWakeup'
  BY <1>1 DEF NoLostWakeup, Placed
<1>6. control \notin {"syncing", "ending", "reopening", "deleting", "joining", "deleted"}
  BY <1>1 DEF Placed
<1>7. Placed' /\ Flushes'
  BY <1>1, <1>2, <1>6 DEF Placed, Flushes, Flushing, Draining
<1> QED BY <1>4, <1>5, <1>7

-----------------------------------------------------------------------------
LEMMA FreeSamplesFacts ==
  ASSUME Typed, FreeSamples
  PROVE  /\ released' \in [Samples -> Nat]
         /\ m_List' = << >> /\ m_ppSamples' = << >>
         /\ m_List' \in Seq(Entries) /\ Paired(m_List') /\ m_ppSamples' \in Seq(Samples)
         /\ Elements(m_List') = {} /\ Elements(m_ppSamples') = {}
         /\ Times(RESET_PACKET, m_List') = 0
<1>1. released' \in [Samples -> Nat]
  BY DEF FreeSamples, Release, Typed
<1> QED BY <1>1, TimesEmpty, PairedAlone DEF FreeSamples

LEMMA TerminateKeeps ==
  ASSUME QueueInv, Terminate
  PROVE  QueueInv'
<1> USE DEF QueueInv, flags, signals, sourceVars, outer
<1>1. /\ mode.queued /\ m_bTerminate /\ worker = "section" /\ worker' = "done"
      /\ UNCHANGED <<mode, flags, m_hr, signals, pSample, sending, sourceVars, outer, made, fence>>
      /\ sending = << >>
  BY DEF Terminate, InLoop, Placed
<1>2. FreeSamples
  BY DEF Terminate
<1>3. control \in {"joining", "deleted"} /\ worker \notin {"none", "done"}
  BY <1>1 DEF Placed
<1>4. Typed' /\ Fresh' /\ Resets'
  BY <1>1, <1>2, FreeSamplesFacts DEF Typed, Fresh, Resets
<1>5. Placed' /\ NoLostWakeup' /\ Flushes'
  BY <1>1, <1>2, <1>3, FreeSamplesFacts, EmptySeq, OutputQueueAssumption
  DEF Placed, NoLostWakeup, Flushes, Flushing, Draining, Drained, Typed
<1> QED BY <1>4, <1>5

LEMMA FlushKeeps ==
  ASSUME QueueInv, Flush
  PROVE  QueueInv'
<1> USE DEF QueueInv, flags, signals, sourceVars, outer
<1>1. /\ mode.queued /\ worker = "section" /\ worker' = "waiting" /\ ~m_bTerminate /\ m_bFlushing
      /\ m_evFlushComplete' = TRUE /\ m_lWaiting' = m_lWaiting + 1
      /\ UNCHANGED <<mode, flags, m_hr, m_hSem, pSample, sending, sourceVars, outer, made, fence>>
  BY DEF Flush, InLoop, Placed
<1>2. FreeSamples
  BY DEF Flush
<1>3. m_lWaiting = 0 /\ m_hSem = 0 /\ sending = << >>
  BY <1>1 DEF NoLostWakeup, Placed, Typed
<1>4. control \in {"beginning", "flushing", "syncing"}
  BY <1>1, <1>3 DEF Flushes
<1>5. Typed' /\ Fresh' /\ Resets'
  BY <1>1, <1>2, <1>3, <1>4, FreeSamplesFacts DEF Typed, Fresh, Resets
<1>6. Len(m_List') = 0 /\ Len(m_ppSamples') = 0
  BY <1>2, FreeSamplesFacts, EmptySeq
<1>7. Placed' /\ Flushes'
  BY <1>1, <1>2, <1>3, <1>4, <1>6, FreeSamplesFacts, OutputQueueAssumption
  DEF Placed, Flushes, Flushing, Draining, Drained
<1>8. NoLostWakeup'
  BY <1>1, <1>2, <1>3, <1>6, FreeSamplesFacts, OutputQueueAssumption DEF NoLostWakeup
<1> QED BY <1>5, <1>7, <1>8

(* What the head of the list leaves when it is taken. *)
LEMMA HeadTaken ==
  ASSUME Typed, m_List # << >>
  PROVE  /\ Head(m_List) \in Entries /\ Tail(m_List) \in Seq(Entries) /\ Paired(Tail(m_List))
         /\ Elements(m_List) = Elements(Tail(m_List)) \cup {Head(m_List)}
         /\ Times(RESET_PACKET, Tail(m_List)) \in Nat
         /\ Times(RESET_PACKET, m_List)
              = Times(RESET_PACKET, Tail(m_List)) + (IF Head(m_List) = RESET_PACKET THEN 1 ELSE 0)
<1>1. Head(m_List) \in Entries /\ Tail(m_List) \in Seq(Entries)
  BY HeadTailProperties DEF Typed
<1>2. m_List \in Seq(Int) /\ Tail(m_List) \in Seq(Int)
  BY <1>1, IntSequences, EntriesAreInts, SeqMonotonic
<1>3. Paired(Tail(m_List))
  BY <1>2, PairedTail DEF Typed
<1>4. Times(RESET_PACKET, Tail(m_List)) \in Nat
  BY <1>2, TimesType
<1> QED BY <1>1, <1>2, <1>3, <1>4, TimesTail

(* While the loop goes on nobody waits and no flush is under way. *)
LEMMA LoopFacts ==
  ASSUME QueueInv, Deliverable
  PROVE  /\ mode.queued /\ worker = "section" /\ sending = << >>
         /\ m_lWaiting = 0 /\ m_hSem = 0
         /\ control \notin {"beginning", "flushing", "syncing", "ending", "deleted"}
         /\ ~m_bTerminate /\ ~m_bFlushing
<1>1. worker = "section" /\ ~m_bTerminate /\ ~m_bFlushing
  BY DEF Deliverable, InLoop
<1> QED BY <1>1 DEF QueueInv, Placed, NoLostWakeup, Typed, Flushes

(* A pass of the loop, and its end: the batch and the entry taken from the *)
(* list, or left in it.                                                    *)
LEMMA LoopKeeps ==
  ASSUME QueueInv, Deliverable, worker' \in {"section", "sending"},
         UNCHANGED <<mode, flags, m_hr, signals, sourceVars, outer, history>>,
         m_List' \in Seq(Entries), Paired(m_List'),
         m_ppSamples' \in Seq(Samples), sending' \in Seq(Samples),
         Len(m_ppSamples') < m_lBatchSize, worker' = "section" => sending' = << >>,
         Elements(m_List') \subseteq Elements(m_List),
         Elements(m_ppSamples') \cup Elements(sending')
           \subseteq Elements(m_ppSamples) \cup Elements(m_List),
         /\ Times(RESET_PACKET, m_List') <= Times(RESET_PACKET, m_List)
         /\ Times(RESET_PACKET, m_List') \in Nat /\ Times(RESET_PACKET, m_List) \in Nat,
         pSample' # pSample /\ pSample' = RESET_PACKET =>
           Times(RESET_PACKET, m_List) = 1 /\ Times(RESET_PACKET, m_List') = 0
  PROVE  QueueInv'
<1> USE DEF QueueInv, flags, signals, sourceVars, outer, history
<1>1. Typed'
  BY DEF Typed
<1>2. Resets'
  BY LoopFacts DEF Resets
<1>3. NoLostWakeup' /\ Flushes'
  BY LoopFacts DEF NoLostWakeup, Flushes, Flushing, Draining
<1>4. Placed'
  BY LoopFacts DEF Placed
<1>5. Fresh'
  <2>1. ASSUME mode.queued, m_bFlushed
        PROVE  Elements(m_List') \cap Samples = {} /\ m_ppSamples' = << >> /\ sending' = << >>
    <3>1. Elements(m_List) \cap Samples = {} /\ Elements(m_ppSamples) = {}
      BY <2>1, TimesEmpty DEF Fresh
    <3>2. Elements(m_ppSamples') \subseteq Samples /\ Elements(sending') \subseteq Samples
      BY ElementsType
    <3>3. Elements(m_ppSamples') = {} /\ Elements(sending') = {}
      BY <3>1, <3>2
    <3> QED BY <3>1, <3>3, ElementsType
  <2> QED BY <2>1 DEF Fresh
<1> QED BY <1>1, <1>2, <1>3, <1>4, <1>5

LEMMA InLoopKeeps ==
  ASSUME QueueInv, AddToBatch \/ SendPartial \/ TakeSpecial
  PROVE  QueueInv'
<1> USE DEF QueueInv
<1>1. /\ m_List \in Seq(Entries) /\ m_ppSamples \in Seq(Samples)
      /\ m_List \in Seq(Int) /\ m_ppSamples \in Seq(Int)
      /\ Paired(m_List) /\ Times(RESET_PACKET, m_List) \in Nat
      /\ Len(m_ppSamples) \in Nat /\ m_lBatchSize \in Nat \ {0}
      /\ << >> \in Seq(Samples) /\ Len(<< >>) = 0 /\ Elements(<< >>) = {}
      /\ RESET_PACKET \notin Samples /\ RESET_PACKET # NULL
  BY IntSequences, TimesType, LenProperties, EmptySeq, TimesEmpty, EntriesAreInts,
     OutputQueueAssumption DEF Typed
<1>2. Deliverable /\ UNCHANGED <<mode, flags, m_hr, signals, sourceVars, outer, history>>
  BY DEF AddToBatch, SendPartial, TakeSpecial
<1>3. sending = << >> /\ Len(m_ppSamples) < m_lBatchSize
  BY <1>2, LoopFacts DEF Placed
<1>4. CASE AddToBatch
  <2> DEFINE batch == Append(m_ppSamples, Head(m_List))
  <2>1. m_List # << >> /\ Head(m_List) \in Samples /\ m_List' = Tail(m_List)
    BY <1>4 DEF AddToBatch
  <2>2. Head(m_List) \in Int
    BY <2>1, EntriesAreInts
  <2>3. /\ batch \in Seq(Samples) /\ Len(batch) = Len(m_ppSamples) + 1
        /\ Elements(batch) = Elements(m_ppSamples) \cup {Head(m_List)}
    BY <1>1, <2>1, <2>2, AppendProperties, TimesAppend
  <2>4. \/ /\ pSample' = Head(m_List) /\ sending' = batch /\ m_ppSamples' = << >>
           /\ worker' = "sending"
        \/ /\ Len(batch) # m_lBatchSize /\ m_ppSamples' = batch
           /\ UNCHANGED <<worker, pSample, sending>> /\ worker = "section"
    BY <1>4, <1>2, LoopFacts DEF AddToBatch, LeaveWith
  <2> HIDE DEF batch
  <2>5. Len(m_ppSamples') < m_lBatchSize
    BY <1>1, <1>3, <2>3, <2>4
  <2>6. /\ Elements(m_List') \subseteq Elements(m_List)
        /\ Elements(m_ppSamples') \cup Elements(sending')
             \subseteq Elements(m_ppSamples) \cup Elements(m_List)
    BY <1>1, <1>3, <2>1, <2>3, <2>4, HeadTaken
  <2>7. /\ m_List' \in Seq(Entries) /\ Paired(m_List')
        /\ Times(RESET_PACKET, m_List') \in Nat
        /\ Times(RESET_PACKET, m_List') <= Times(RESET_PACKET, m_List)
    BY <1>1, <2>1, HeadTaken
  <2>8. /\ m_ppSamples' \in Seq(Samples) /\ sending' \in Seq(Samples)
        /\ worker' \in {"section", "sending"}
        /\ worker' = "section" => sending' = << >>
        /\ ~(pSample' # pSample /\ pSample' = RESET_PACKET)
    BY <1>1, <1>3, <2>1, <2>3, <2>4
  <2> QED BY <1>1, <1>2, <2>5, <2>6, <2>7, <2>8, LoopKeeps
<1>5. CASE SendPartial
  <2>1. /\ UNCHANGED m_List /\ pSample' = NULL /\ sending' = m_ppSamples
        /\ m_ppSamples' = << >> /\ worker' = "sending"
    BY <1>5 DEF SendPartial, LeaveWith
  <2> QED BY <1>1, <1>2, <2>1, LoopKeeps
<1>6. CASE TakeSpecial
  <2>1. m_List # << >>
    BY <1>6 DEF TakeSpecial
  <2>2. CASE m_List' = Tail(m_List) /\ UNCHANGED <<m_ppSamples, worker, pSample, sending>>
    <3>1. worker = "section"
      BY <1>2, LoopFacts
    <3> QED BY <1>1, <1>2, <1>3, <2>1, <2>2, <3>1, HeadTaken, LoopKeeps
  <2>3. CASE /\ m_List' = Tail(m_List) /\ Head(m_List) # NEW_SEGMENT
             /\ LeaveWith(Head(m_List), m_ppSamples)
    <3>1. /\ pSample' = Head(m_List) /\ sending' = m_ppSamples /\ m_ppSamples' = << >>
          /\ worker' = "sending"
      BY <2>3 DEF LeaveWith
    <3>2. Head(m_List) = RESET_PACKET =>
            Times(RESET_PACKET, m_List) = 1 /\ Times(RESET_PACKET, m_List') = 0
      BY <1>1, <2>1, <2>3, HeadTaken DEF Resets
    <3> QED BY <1>1, <1>2, <2>1, <2>3, <3>1, <3>2, HeadTaken, LoopKeeps
  <2>4. CASE /\ m_List' = Tail(Tail(m_List)) /\ Head(m_List) = NEW_SEGMENT
             /\ LeaveWith(Head(m_List), m_ppSamples)
    <3> DEFINE rest == Tail(m_List)
    <3>1. /\ pSample' = NEW_SEGMENT /\ sending' = m_ppSamples /\ m_ppSamples' = << >>
          /\ worker' = "sending" /\ NEW_SEGMENT # RESET_PACKET
      BY <2>4 DEF LeaveWith, NEW_SEGMENT, RESET_PACKET
    <3>2. /\ rest # << >> /\ rest \in Seq(Entries) /\ rest \in Seq(Int) /\ Paired(rest)
          /\ Elements(rest) \subseteq Elements(m_List)
          /\ Times(RESET_PACKET, rest) \in Nat
          /\ Times(RESET_PACKET, rest) = Times(RESET_PACKET, m_List)
      <4>1. rest # << >>
        BY <1>1, <2>1, <2>4, PairedTail
      <4>2. rest \in Seq(Int)
        BY <2>1, HeadTaken, EntriesAreInts, SeqMonotonic
      <4> QED BY <1>1, <2>1, <2>4, <3>1, <4>1, <4>2, HeadTaken
    <3>3. /\ Tail(rest) \in Seq(Entries) /\ Tail(rest) \in Seq(Int) /\ Paired(Tail(rest))
      <4>1. Tail(rest) \in Seq(Entries) /\ Tail(rest) \in Seq(Int)
        BY <3>2, HeadTailProperties
      <4> QED BY <3>2, <4>1, PairedTail
    <3>4. /\ Elements(rest) = Elements(Tail(rest)) \cup {Head(rest)}
          /\ Times(RESET_PACKET, rest)
               = Times(RESET_PACKET, Tail(rest)) + (IF Head(rest) = RESET_PACKET THEN 1 ELSE 0)
          /\ Times(RESET_PACKET, Tail(rest)) \in Nat
      <4>1. Times(RESET_PACKET, Tail(rest)) \in Nat
        BY <3>3, TimesType
      <4> QED BY <3>2, <4>1, TimesTail
    <3>5. m_List' = Tail(rest)
      BY <2>4
    <3> HIDE DEF rest
    <3>6. /\ Elements(m_List') \subseteq Elements(m_List)
          /\ Times(RESET_PACKET, m_List') \in Nat
          /\ Times(RESET_PACKET, m_List') <= Times(RESET_PACKET, m_List)
      BY <3>2, <3>4, <3>5
    <3> QED BY <1>1, <1>2, <3>1, <3>3, <3>5, <3>6, LoopKeeps
  <2> QED BY <1>6, <2>2, <2>3, <2>4 DEF TakeSpecial
<1> QED BY <1>4, <1>5, <1>6

LEMMA PrepareToWaitKeeps ==
  ASSUME QueueInv, PrepareToWait
  PROVE  QueueInv'
<1> USE DEF QueueInv, queue, flags, sourceVars, outer, history
<1>1. /\ Deliverable /\ m_List = << >> /\ worker' = "waiting" /\ m_lWaiting' = m_lWaiting + 1
      /\ UNCHANGED <<mode, queue, flags, m_hr, m_hSem, m_evFlushComplete, pSample, sending,
                     sourceVars, outer, history>>
  BY DEF PrepareToWait
<1>2. Typed' /\ Fresh' /\ Resets'
  BY <1>1 DEF Typed, Fresh, Resets
<1>3. Placed' /\ Flushes'
  BY <1>1, LoopFacts DEF Placed, Flushes, Flushing, Draining
<1>4. NoLostWakeup'
  <2>1. Len(m_List) = 0 /\ Len(m_ppSamples) < m_lBatchSize /\ Len(m_ppSamples) \in Nat
    BY <1>1, LoopFacts, EmptySeq, LenProperties DEF Placed, Typed
  <2>2. Len(m_ppSamples) + Len(m_List) < m_lBatchSize
    BY <2>1, OutputQueueAssumption
  <2> QED BY <1>1, <2>2, LoopFacts DEF NoLostWakeup
<1> QED BY <1>2, <1>3, <1>4

LEMMA WaitKeeps ==
  ASSUME QueueInv, Wait
  PROVE  QueueInv'
<1> USE DEF QueueInv, queue, flags, sourceVars, outer, history
<1>1. /\ worker = "waiting" /\ m_hSem = 1 /\ m_lWaiting = 0 /\ m_hSem' = 0 /\ worker' = "section"
      /\ UNCHANGED <<mode, queue, flags, m_hr, m_lWaiting, m_evFlushComplete, pSample, sending,
                     sourceVars, outer, history>>
  BY DEF Wait, NoLostWakeup, Typed
<1>2. Typed' /\ Fresh' /\ Resets'
  BY <1>1 DEF Typed, Fresh, Resets
<1>3. Placed' /\ NoLostWakeup' /\ Flushes'
  BY <1>1 DEF Placed, NoLostWakeup, Flushes, Flushing, Draining, Drained
<1> QED BY <1>2, <1>3

(* The worker outside of the section, with its batch. *)
LEMMA OutsideKeeps ==
  ASSUME QueueInv, Send \/ Drop \/ Deliver
  PROVE  QueueInv'
<1> USE DEF QueueInv, queue, flags, signals, sourceVars, outer
<1>1. /\ worker \in {"sending", "delivering"} /\ worker' \in {"sending", "delivering"}
      /\ sending # << >> /\ sending' \in {sending, << >>}
      /\ worker' = "delivering" => sending' # << >>
      /\ m_hr # "ok" => m_hr' = m_hr
      /\ UNCHANGED <<mode, queue, flags, signals, pSample, sourceVars, outer, made, fence>>
  <2>1. CASE Send
    BY <2>1 DEF Send, history
  <2>2. CASE Drop
    BY <2>2 DEF Drop
  <2>3. CASE Deliver
    BY <2>3 DEF Deliver, Placed
  <2> QED BY <2>1, <2>2, <2>3
<1>2. released' \in [Samples -> Nat]
  <2>1. CASE Send
    BY <2>1 DEF Send, Typed, history
  <2>2. CASE Drop \/ Deliver
    <3>1. Release(sending)
      BY <2>2 DEF Drop, Deliver
    <3> QED BY <3>1 DEF Release, Typed
  <2> QED BY <2>1, <2>2
<1>3. mode.queued
  BY <1>1 DEF Placed
<1>4. ~Drained
  BY <1>1 DEF Drained
<1>5. sending' \in Seq(Samples) /\ Elements(sending') \subseteq Elements(sending)
  <2>1. CASE sending' = sending
    BY <2>1 DEF Typed
  <2>2. CASE sending' = << >>
    BY <2>2, TimesEmpty
  <2> QED BY <1>1, <2>1, <2>2
<1>6. Typed' /\ Resets'
  BY <1>1, <1>2, <1>5 DEF Typed, Resets
<1>7. Fresh'
  BY <1>1, <1>5 DEF Fresh
<1>8. NoLostWakeup' /\ Flushes'
  BY <1>1, <1>4 DEF NoLostWakeup, Flushes, Flushing, Draining
<1>9. Placed'
  BY <1>1 DEF Placed
<1> QED BY <1>6, <1>7, <1>8, <1>9

LEMMA PacketKeeps ==
  ASSUME QueueInv, Packet \/ ResetPacket \/ ReportReset
  PROVE  QueueInv'
<1> USE DEF QueueInv, queue, flags, signals, sourceVars, outer, history
<1>1. /\ worker \in {"sending", "reporting"} /\ worker' \in {"section", "reporting"}
      /\ sending = << >> /\ NULL # RESET_PACKET
      /\ UNCHANGED <<mode, queue, flags, m_lWaiting, m_hSem, sending, sourceVars, outer, history>>
  BY DEF Packet, ResetPacket, ReportReset, Placed, NULL, RESET_PACKET
<1>2. \/ /\ worker' = "section" /\ pSample' = NULL
         /\ UNCHANGED <<m_hr, m_evFlushComplete>>
      \/ /\ worker = "sending" /\ pSample = RESET_PACKET /\ worker' = "reporting"
         /\ pSample' = NULL /\ UNCHANGED m_evFlushComplete
      \/ /\ worker = "reporting" /\ worker' = "section" /\ m_evFlushComplete' = TRUE
         /\ UNCHANGED <<m_hr, pSample>>
  BY DEF Packet, ResetPacket, ReportReset
<1>3. Typed' /\ Fresh'
  BY <1>1 DEF Typed, Fresh
<1>4. Resets'
  BY <1>1, <1>2 DEF Resets
<1>5. NoLostWakeup'
  BY <1>1, <1>2 DEF NoLostWakeup
<1>6. Placed'
  BY <1>1, <1>2 DEF Placed
<1>7. Flushes'
  BY <1>1, <1>2 DEF Flushes, Flushing, Draining, Drained, Resets
<1> QED BY <1>3, <1>4, <1>5, <1>6, <1>7

-----------------------------------------------------------------------------
(* The control thread: none of these steps touches what is in the queue. *)
LEMMA FlushControlKeeps ==
  ASSUME QueueInv,
         BeginFlushQueued \/ BeginFlushDownstream \/ BeginFlushDownstreamFirst \/ BeginFlushDirect
  PROVE  QueueInv'
<1> USE DEF QueueInv, queue, flags, signals, workerVars, sourceVars, history
<1>1. /\ UNCHANGED <<mode, queue, m_bFlushed, m_bTerminate, workerVars, sourceVars, history>>
      /\ Refusing # "ok"
  BY DEF BeginFlushQueued, BeginFlushDownstream, BeginFlushDownstreamFirst, BeginFlushDirect, Refusing
<1>2. CASE BeginFlushQueued
  <2>1. /\ mode.queued /\ control = "idle" /\ call \in InFlight \cup {"none"}
        /\ m_bFlushing' = TRUE /\ m_hr' # "ok"
        /\ \/ /\ m_bFlushed /\ mode.opt /\ control' = "flushing"
              /\ UNCHANGED <<m_lWaiting, m_hSem, m_evFlushComplete>>
           \/ /\ control' = "beginning" /\ m_evFlushComplete' = FALSE
              /\ m_hSem' = m_hSem + m_lWaiting /\ m_lWaiting' = 0
    BY <1>1, <1>2 DEF BeginFlushQueued, MayFlush, NotifyThread
  <2>2. Typed' /\ Fresh' /\ Resets'
    BY <1>1, <2>1 DEF Typed, Fresh, Resets
  <2>3. Placed'
    BY <1>1, <2>1 DEF Placed
  <2>4. Flushes'
    BY <1>1, <2>1 DEF Flushes, Flushing, Draining
  <2>5. NoLostWakeup'
    BY <1>1, <2>1 DEF NoLostWakeup, Typed
  <2> QED BY <2>2, <2>3, <2>4, <2>5
<1>3. CASE BeginFlushDownstream
  <2>1. /\ control = "beginning" /\ control' = "flushing" /\ mode.queued
        /\ UNCHANGED <<m_bFlushing, m_hr, signals>>
    BY <1>3 DEF BeginFlushDownstream, Placed
  <2>2. Typed' /\ Fresh' /\ Resets'
    BY <1>1, <2>1 DEF Typed, Fresh, Resets
  <2>3. Placed' /\ NoLostWakeup' /\ Flushes'
    BY <1>1, <2>1 DEF Placed, NoLostWakeup, Flushes, Flushing, Draining, Drained
  <2> QED BY <2>2, <2>3
<1>4. CASE BeginFlushDownstreamFirst \/ BeginFlushDirect
  <2>1. /\ ~mode.queued /\ control \in {"idle", "entering"} /\ UNCHANGED signals
        /\ \/ control' = "entering" /\ call \in InFlight \cup {"none"} /\ UNCHANGED m_bFlushing
           \/ control = "entering" /\ control' = "flushing" /\ m_bFlushing' = TRUE
    BY <1>4 DEF BeginFlushDownstreamFirst, BeginFlushDirect, MayFlush, Placed
  <2>2. Typed' /\ Fresh' /\ Resets'
    BY <1>1, <2>1 DEF Typed, Fresh, Resets
  <2>3. Placed' /\ NoLostWakeup' /\ Flushes'
    BY <1>1, <2>1 DEF Placed, NoLostWakeup, Flushes, Flushing, Draining, Drained
  <2> QED BY <2>2, <2>3
<1> QED BY <1>2, <1>3, <1>4

LEMMA EndFlushKeeps ==
  ASSUME QueueInv, EndFlush \/ EndFlushSync \/ EndFlushDownstream \/ EndFlushReturn
  PROVE  QueueInv'
<1> USE DEF QueueInv, queue, flags, signals, workerVars, sourceVars, history
<1>1. UNCHANGED <<mode, m_bTerminate, m_lWaiting, m_hSem, workerVars, sourceVars, made>>
  BY DEF EndFlush, EndFlushSync, EndFlushDownstream, EndFlushReturn
<1>2. CASE EndFlush
  <2>1. /\ control = "flushing" /\ source = "idle"
        /\ UNCHANGED <<queue, m_bFlushed, released, m_evFlushComplete>>
    BY <1>2 DEF EndFlush
  <2>2. CASE /\ mode.opt /\ m_bFlushed /\ mode.queued
             /\ m_bFlushing' = FALSE /\ control' = "idle" /\ fence' = made
    <3>1. Typed' /\ Resets'
      BY <1>1, <2>1, <2>2 DEF Typed, Resets
    <3>2. Fresh'
      BY <1>1, <2>1, <2>2, TimesEmpty DEF Fresh, Placed
    <3>3. Placed' /\ NoLostWakeup' /\ Flushes'
      BY <1>1, <2>1, <2>2 DEF Placed, NoLostWakeup, Flushes, Flushing, Draining
    <3> QED BY <3>1, <3>2, <3>3
  <2>3. CASE /\ ~(mode.opt /\ m_bFlushed /\ mode.queued)
             /\ control' = "syncing" /\ UNCHANGED <<m_bFlushing, m_hr, fence>>
    <3>1. Typed' /\ Resets' /\ Fresh'
      BY <1>1, <2>1, <2>3 DEF Typed, Resets, Fresh
    <3>2. Placed' /\ NoLostWakeup' /\ Flushes'
      BY <1>1, <2>1, <2>3 DEF Placed, NoLostWakeup, Flushes, Flushing, Draining, Drained
    <3> QED BY <3>1, <3>2
  <2> QED BY <1>2, <2>2, <2>3 DEF EndFlush
<1>3. CASE EndFlushSync
  <2>1. /\ control = "syncing" /\ control' = "ending"
        /\ UNCHANGED <<flags, m_hr, fence>>
        /\ \/ /\ mode.queued /\ m_evFlushComplete /\ m_evFlushComplete' = FALSE
              /\ UNCHANGED <<queue, released>>
           \/ ~mode.queued /\ FreeSamples /\ UNCHANGED m_evFlushComplete
    BY <1>3 DEF EndFlushSync
  <2>2. CASE mode.queued
    <3>1. Typed' /\ Resets' /\ Fresh'
      BY <1>1, <2>1, <2>2 DEF Typed, Resets, Fresh
    <3>2. Placed' /\ NoLostWakeup' /\ Flushes'
      BY <1>1, <2>1, <2>2 DEF Placed, NoLostWakeup, Flushes, Flushing, Draining, Drained
    <3> QED BY <3>1, <3>2
  <2>3. CASE ~mode.queued
    <3>1. Typed' /\ Resets' /\ Fresh'
      BY <1>1, <2>1, <2>3, FreeSamplesFacts DEF Typed, Resets, Fresh
    <3>2. Placed' /\ NoLostWakeup' /\ Flushes'
      BY <1>1, <2>1, <2>3, FreeSamplesFacts DEF Placed, NoLostWakeup, Flushes, Flushing, Draining, Drained
    <3> QED BY <3>1, <3>2
  <2> QED BY <2>2, <2>3
<1>4. CASE EndFlushDownstream
  <2>1. /\ control = "ending" /\ control' = "reopening"
        /\ m_bFlushing' = FALSE /\ fence' = made
        /\ UNCHANGED <<queue, m_hr, signals, released>>
    BY <1>4 DEF EndFlushDownstream
  <2>2. Drained /\ hand = << >>
    BY <2>1 DEF Flushes, Placed
  <2>3. Typed' /\ Resets'
    BY <1>1, <2>1 DEF Typed, Resets
  <2>4. Fresh'
    BY <1>1, <2>1, <2>2, TimesEmpty DEF Fresh, Drained
  <2>5. Placed' /\ NoLostWakeup' /\ Flushes'
    BY <1>1, <2>1 DEF Placed, NoLostWakeup, Flushes, Flushing, Draining
  <2> QED BY <2>3, <2>4, <2>5
<1>5. CASE EndFlushReturn
  <2>1. /\ control = "reopening" /\ control' = "idle"
        /\ UNCHANGED <<queue, flags, signals, history>>
    BY <1>5 DEF EndFlushReturn
  <2>2. Typed' /\ Resets' /\ Fresh'
    BY <1>1, <2>1 DEF Typed, Resets, Fresh
  <2>3. Placed' /\ NoLostWakeup' /\ Flushes'
    BY <1>1, <2>1 DEF Placed, NoLostWakeup, Flushes, Flushing, Draining
  <2> QED BY <2>2, <2>3
<1> QED BY <1>2, <1>3, <1>4, <1>5

LEMMA ResetKeeps ==
  ASSUME QueueInv, Reset \/ ResetReturn
  PROVE  QueueInv'
<1> USE DEF QueueInv, queue, flags, signals, workerVars, sourceVars, history
<1>1. UNCHANGED <<mode, m_ppSamples, flags, workerVars, sourceVars, history>>
  BY DEF Reset, ResetReturn
<1>2. CASE Reset /\ mode.queued
  <2>1. /\ mode \in ResetModes /\ control = "idle" /\ control' = "resetting"
        /\ m_List' = Append(m_List, RESET_PACKET)
        /\ m_hSem' = m_hSem + m_lWaiting /\ m_lWaiting' = 0
        /\ UNCHANGED <<m_hr, m_evFlushComplete>>
    BY <1>2 DEF Reset, NotifyThread
  <2>2. ~m_evFlushComplete
    BY <2>1 DEF Flushes, ResetsSafely
  <2>3. /\ Times(RESET_PACKET, m_List) = 0 /\ pSample # RESET_PACKET /\ worker # "reporting"
    BY <2>1 DEF Resets
  <2>4. /\ m_List' \in Seq(Entries) /\ Paired(m_List')
        /\ Times(RESET_PACKET, m_List') = 1
        /\ Elements(m_List') = Elements(m_List) \cup {RESET_PACKET}
        /\ RESET_PACKET \notin Samples
    <3>1. /\ m_List \in Seq(Int) /\ RESET_PACKET \in Int /\ RESET_PACKET \notin Samples
          /\ RESET_PACKET \in Entries /\ RESET_PACKET # NEW_SEGMENT
      BY IntSequences, EntriesAreInts DEF Entries, RESET_PACKET, NEW_SEGMENT
    <3>2. m_List' = m_List \o <<RESET_PACKET>> /\ <<RESET_PACKET>> \in Seq(Int)
      BY <2>1, <3>1, AppendIsConcat
    <3>3. Paired(m_List')
      BY <3>1, <3>2, PairedConcat, PairedAlone DEF Typed
    <3>4. m_List' \in Seq(Entries)
      BY <2>1, <3>1, AppendProperties DEF Typed
    <3>5. /\ Times(RESET_PACKET, Append(m_List, RESET_PACKET))
               = Times(RESET_PACKET, m_List) + (IF RESET_PACKET = RESET_PACKET THEN 1 ELSE 0)
          /\ Elements(Append(m_List, RESET_PACKET)) = Elements(m_List) \cup {RESET_PACKET}
      BY <3>1, TimesAppend
    <3> QED BY <2>1, <2>3, <3>1, <3>3, <3>4, <3>5
  <2>5. Typed' /\ Resets'
    BY <1>1, <1>2, <2>1, <2>2, <2>3, <2>4 DEF Typed, Resets
  <2>6. Fresh'
    <3>1. \A n \in Samples : n \in Elements(m_List') <=> n \in Elements(m_List)
      BY <2>4
    <3>2. Elements(m_List') \cap Samples = Elements(m_List) \cap Samples
      BY <2>4
    <3> QED BY <1>1, <2>1, <3>1, <3>2 DEF Fresh
  <2>7. Placed' /\ Flushes'
    BY <1>1, <1>2, <2>1 DEF Placed, Flushes, Flushing, Draining
  <2>8. NoLostWakeup'
    BY <1>1, <2>1 DEF NoLostWakeup, Typed
  <2> QED BY <2>5, <2>6, <2>7, <2>8
<1>3. CASE Reset /\ ~mode.queued
  <2>1. control = "idle" /\ UNCHANGED <<m_List, signals, control>>
    BY <1>3 DEF Reset
  <2>2. Typed' /\ Resets' /\ Fresh'
    BY <1>1, <2>1 DEF Typed, Resets, Fresh
  <2>3. Placed' /\ NoLostWakeup' /\ Flushes'
    BY <1>1, <1>3, <2>1 DEF Placed, NoLostWakeup, Flushes, Flushing, Draining, Drained
  <2> QED BY <2>2, <2>3
<1>4. CASE ResetReturn
  <2>1. /\ control = "resetting" /\ m_evFlushComplete /\ m_evFlushComplete' = FALSE
        /\ control' = "idle" /\ UNCHANGED <<m_List, m_hr, m_lWaiting, m_hSem>>
    BY <1>4 DEF ResetReturn
  <2>2. Typed' /\ Resets' /\ Fresh'
    BY <1>1, <2>1 DEF Typed, Resets, Fresh
  <2>3. Placed' /\ NoLostWakeup' /\ Flushes'
    BY <1>1, <2>1 DEF Placed, NoLostWakeup, Flushes, Flushing, Draining
  <2> QED BY <2>2, <2>3
<1> QED BY <1>2, <1>3, <1>4

LEMMA EndKeeps ==
  ASSUME QueueInv, StopDownstream \/ Destroy \/ Join
  PROVE  QueueInv'
<1> USE DEF QueueInv, queue, flags, signals, workerVars, sourceVars, history
<1>1. UNCHANGED <<mode, m_bFlushing, m_bFlushed, m_evFlushComplete, workerVars, sourceVars, made, fence>>
  BY DEF StopDownstream, Destroy, Join
<1>2. CASE StopDownstream
  <2>1. /\ control = "idle" /\ source = "idle" /\ control' = "deleting"
        /\ UNCHANGED <<queue, m_bTerminate, m_hr, signals, released>>
    BY <1>2 DEF StopDownstream
  <2>2. Typed' /\ Resets' /\ Fresh'
    BY <1>1, <2>1 DEF Typed, Resets, Fresh
  <2>3. Placed' /\ NoLostWakeup' /\ Flushes'
    BY <1>1, <2>1 DEF Placed, NoLostWakeup, Flushes, Flushing, Draining
  <2> QED BY <2>2, <2>3
<1>3. CASE Destroy /\ mode.queued
  <2>1. /\ control = "deleting" /\ control' = "joining" /\ m_bTerminate' = TRUE
        /\ m_hSem' = m_hSem + m_lWaiting /\ m_lWaiting' = 0
        /\ UNCHANGED <<queue, released>>
    BY <1>3 DEF Destroy, NotifyThread
  <2>2. Typed' /\ Resets' /\ Fresh'
    BY <1>1, <2>1 DEF Typed, Resets, Fresh
  <2>3. Placed' /\ Flushes'
    BY <1>1, <1>3, <2>1 DEF Placed, Flushes, Flushing, Draining
  <2>4. NoLostWakeup'
    BY <1>1, <2>1 DEF NoLostWakeup, Typed
  <2> QED BY <2>2, <2>3, <2>4
<1>4. CASE Destroy /\ ~mode.queued
  <2>1. /\ control = "deleting" /\ control' = "deleted" /\ FreeSamples
        /\ UNCHANGED <<m_bTerminate, m_hr, m_hSem, m_lWaiting>>
    BY <1>4 DEF Destroy
  <2>2. Typed' /\ Resets' /\ Fresh'
    BY <1>1, <2>1, FreeSamplesFacts DEF Typed, Resets, Fresh
  <2>3. Placed' /\ NoLostWakeup' /\ Flushes'
    BY <1>1, <1>4, <2>1, FreeSamplesFacts DEF Placed, NoLostWakeup, Flushes, Flushing, Draining
  <2> QED BY <2>2, <2>3
<1>5. CASE Join
  <2>1. /\ control = "joining" /\ worker = "done" /\ control' = "deleted"
        /\ UNCHANGED <<queue, m_bTerminate, m_hr, signals, released>>
    BY <1>5 DEF Join
  <2>2. Typed' /\ Resets' /\ Fresh'
    BY <1>1, <2>1 DEF Typed, Resets, Fresh
  <2>3. Placed' /\ NoLostWakeup' /\ Flushes'
    BY <1>1, <2>1 DEF Placed, NoLostWakeup, Flushes, Flushing, Draining
  <2> QED BY <2>2, <2>3
<1> QED BY <1>2, <1>3, <1>4, <1>5

LEMMA QueueStepKeeps == QueueInv /\ [Next]_vars => QueueInv'
<1> SUFFICES ASSUME QueueInv, [Next]_vars PROVE QueueInv'
  OBVIOUS
<1>1. CASE \/ \E count \in 1 .. 2 : StartReceive(count)
           \/ \E mark \in Marks : StartMark(mark)
  BY <1>1, StartReceiveKeeps, StartMarkKeeps
<1>2. CASE InCall \/ DeliverDirect
  BY <1>2, RefuseKeeps, ReceiveQueuedKeeps, MarkQueuedKeeps, DirectKeeps DEF InCall
<1>3. CASE InWorker \/ Deliver
  BY <1>3, TerminateKeeps, FlushKeeps, InLoopKeeps, PrepareToWaitKeeps, WaitKeeps, OutsideKeeps,
     PacketKeeps DEF InWorker, InLoopStep
<1>4. CASE BeginFlushQueued \/ BeginFlushDownstreamFirst \/ Reset \/ StopDownstream \/ InControl
  BY <1>4, FlushControlKeeps, EndFlushKeeps, ResetKeeps, EndKeeps DEF InControl
<1>5. CASE UNCHANGED vars
  <2> USE <1>5 DEF vars, queue, flags, signals, workerVars, sourceVars, outer, history, QueueInv
  <2>1. Typed' /\ Fresh' /\ Resets'
    BY DEF Typed, Fresh, Resets
  <2>2. Placed' /\ NoLostWakeup' /\ Flushes'
    BY DEF Placed, NoLostWakeup, Flushes, Flushing, Draining, Drained
  <2> QED BY <2>1, <2>2
<1> QED BY <1>1, <1>2, <1>3, <1>4, <1>5 DEF Next

LEMMA QueueInvAlways == Spec /\ ResetsSafely => []QueueInv
<1>1. Init /\ ResetsSafely => QueueInv
  BY QueueInit
<1> QED BY <1>1, QueueStepKeeps, PTL DEF Spec

(* A waiting worker is never left with something to do, and a Reset is     *)
(* never told that it is done before it is, whatever the modes, batches    *)
(* and lengths of the queue: as long as no mark but EndOfStream is on its  *)
(* way when a flush begins, and no queue made for short flushes is reset.  *)
THEOREM QueueSignalsSound == Spec /\ ResetsSafely => []SignalsSound
<1>1. QueueInv => SignalsSound
  <2> SUFFICES ASSUME QueueInv, control = "resetting", m_evFlushComplete,
                      RESET_PACKET \in Elements(m_List)
               PROVE  FALSE
    BY DEF QueueInv, Resets, SignalsSound, ResetReported
  <2>1. Times(RESET_PACKET, m_List) # 0
    BY IntSequences, TimesType DEF QueueInv
  <2> QED BY <2>1 DEF QueueInv, Resets
<1> QED BY <1>1, QueueInvAlways, PTL

(* Nothing made before a flush ended goes downstream after it, and a       *)
(* delivery under way is known to be (outputq.cpp's assertions on          *)
(* m_bFlushed), for all modes, batches and lengths of the queue.           *)
THEOREM QueueNothingOld == Spec /\ ResetsSafely => []NothingOld
<1>1. QueueInv => NothingOld
  <2> SUFFICES ASSUME QueueInv PROVE NothingOld
    OBVIOUS
  <2>1. Elements(sending) \subseteq Samples /\ Elements(m_ppSamples) \subseteq Samples
    BY ElementsType DEF QueueInv, Typed
  <2>2. worker = "delivering" => mode.queued /\ ~m_bFlushed
    BY DEF QueueInv, Placed, Fresh
  <2> QED BY <2>1, <2>2 DEF NothingOld, QueueInv, Fresh
<1> QED BY <1>1, QueueInvAlways, PTL

-----------------------------------------------------------------------------
(* Where a sample can be.  A call that is not Receive has none in hand. *)
Places(n) ==
  Times(n, m_List) + Times(n, m_ppSamples) + Times(n, sending) + Times(n, hand)

OnceInv ==
  /\ \A n \in Samples : released[n] + Places(n) = (IF n <= made THEN 1 ELSE 0)
  /\ call # "Receive" => hand = << >>

LEMMA PlacesType ==
  ASSUME Typed, NEW n \in Samples
  PROVE  /\ Times(n, m_List) \in Nat /\ Times(n, m_ppSamples) \in Nat
         /\ Times(n, sending) \in Nat /\ Times(n, hand) \in Nat
         /\ released[n] \in Nat
BY IntSequences, TimesType DEF Typed

(* A sample that is there at most once is released as often as it is there. *)
LEMMA ReleaseCounts ==
  ASSUME Typed, NEW s \in Seq(Int), Release(s), NEW n \in Samples, Times(n, s) <= 1
  PROVE  released'[n] = released[n] + Times(n, s)
<1>1. Times(n, s) \in Nat /\ (Times(n, s) = 0 <=> n \notin Elements(s))
  BY TimesType
<1>2. released'[n] = (IF n \in Elements(s) THEN released[n] + 1 ELSE released[n])
  BY DEF Release
<1>3. released[n] \in Nat
  BY DEF Typed
<1> QED BY <1>1, <1>2, <1>3

LEMMA FreeCounts ==
  ASSUME Typed, OnceInv, FreeSamples, UNCHANGED <<sending, hand, made>>
  PROVE  OnceInv' \/ call' # call
<1> SUFFICES ASSUME call' = call PROVE OnceInv'
  OBVIOUS
<1> SUFFICES ASSUME NEW n \in Samples
             PROVE  released'[n] + Places(n)' = (IF n <= made THEN 1 ELSE 0)
  BY DEF OnceInv
<1>1. m_List \in Seq(Int) /\ m_ppSamples \in Seq(Int) /\ m_List \o m_ppSamples \in Seq(Int)
  BY IntSequences, ConcatProperties
<1>2. Times(n, m_List \o m_ppSamples) = Times(n, m_List) + Times(n, m_ppSamples)
  BY <1>1, TimesConcat
<1>3. Times(n, m_List) + Times(n, m_ppSamples) <= 1
  BY PlacesType DEF OnceInv, Places
<1>4. released'[n] = released[n] + Times(n, m_List \o m_ppSamples)
  <2>1. Times(n, m_List \o m_ppSamples) <= 1
    BY <1>2, <1>3
  <2>2. Release(m_List \o m_ppSamples)
    BY DEF FreeSamples
  <2> QED BY <1>1, <2>1, <2>2, ReleaseCounts
<1>5. Times(n, m_List') = 0 /\ Times(n, m_ppSamples') = 0
  BY TimesEmpty DEF FreeSamples
<1> QED BY <1>2, <1>4, <1>5, PlacesType DEF OnceInv, Places

(* A sequence of the queue is released and forgotten. *)
LEMMA ReleasedCounts ==
  ASSUME Typed, OnceInv, UNCHANGED <<m_List, made>>,
         \/ /\ Release(m_ppSamples) /\ m_ppSamples' = << >>
            /\ UNCHANGED <<sending, hand, call>>
         \/ /\ Release(sending) /\ sending' = << >>
            /\ UNCHANGED <<m_ppSamples, hand, call>>
         \/ /\ Release(hand) /\ hand' = << >>
            /\ UNCHANGED <<m_ppSamples, sending>>
  PROVE  OnceInv'
<1>1. call' # "Receive" => hand' = << >>
  BY DEF OnceInv
<1> SUFFICES ASSUME NEW n \in Samples
             PROVE  released'[n] + Places(n)' = (IF n <= made THEN 1 ELSE 0)
  BY <1>1 DEF OnceInv
<1>2. /\ m_ppSamples \in Seq(Int) /\ sending \in Seq(Int) /\ hand \in Seq(Int)
      /\ Times(n, << >>) = 0
  BY IntSequences, TimesEmpty
<1>3. Times(n, m_ppSamples) <= 1 /\ Times(n, sending) <= 1 /\ Times(n, hand) <= 1
  <2>1. released[n] + Places(n) <= 1
    BY DEF OnceInv
  <2> QED BY <2>1, PlacesType DEF Places
<1>4. CASE Release(m_ppSamples) /\ m_ppSamples' = << >> /\ UNCHANGED <<sending, hand>>
  <2>1. released'[n] = released[n] + Times(n, m_ppSamples)
    BY <1>2, <1>3, <1>4, ReleaseCounts
  <2> QED BY <1>2, <1>4, <2>1, PlacesType DEF OnceInv, Places
<1>5. CASE Release(sending) /\ sending' = << >> /\ UNCHANGED <<m_ppSamples, hand>>
  <2>1. released'[n] = released[n] + Times(n, sending)
    BY <1>2, <1>3, <1>5, ReleaseCounts
  <2> QED BY <1>2, <1>5, <2>1, PlacesType DEF OnceInv, Places
<1>6. CASE Release(hand) /\ hand' = << >> /\ UNCHANGED <<m_ppSamples, sending>>
  <2>1. released'[n] = released[n] + Times(n, hand)
    BY <1>2, <1>3, <1>6, ReleaseCounts
  <2> QED BY <1>2, <1>6, <2>1, PlacesType DEF OnceInv, Places
<1> QED BY <1>4, <1>5, <1>6

(* The samples change places, none comes or goes. *)
LEMMA MovedCounts ==
  ASSUME OnceInv, UNCHANGED <<released, made>>, \A n \in Samples : Places(n)' = Places(n),
         call' # "Receive" => hand' = << >>
  PROVE  OnceInv'
BY DEF OnceInv

LEMMA SourceCounts ==
  ASSUME QueueInv, OnceInv,
         \/ \E count \in 1 .. 2 : StartReceive(count)
         \/ \E mark \in Marks : StartMark(mark)
         \/ InCall \/ DeliverDirect
  PROVE  OnceInv'
<1> USE DEF QueueInv, queue, flags, signals, workerVars, sourceVars, history
<1>1. ASSUME NEW count \in 1 .. 2, StartReceive(count) PROVE OnceInv'
  <2>1. /\ hand = << >> /\ call' = "Receive"
        /\ hand' = [i \in 1 .. count |-> made + i] /\ made' = made + count
        /\ made \in Nat /\ UNCHANGED <<m_List, m_ppSamples, sending, released>>
    BY <1>1 DEF StartReceive, MayCall, Placed, Typed
  <2> SUFFICES ASSUME NEW n \in Samples
               PROVE  released'[n] + Places(n)' = (IF n <= made' THEN 1 ELSE 0)
    BY <2>1 DEF OnceInv
  <2>2. n \in Nat
    BY DEF Samples
  <2>3. Times(n, hand') = (IF made < n /\ n <= made + count THEN 1 ELSE 0)
    <3>1. CASE count = 1
      <4>1. hand' = <<made + 1>>
        BY <2>1, <3>1
      <4>2. Times(n, <<made + 1>>) = (IF made + 1 = n THEN 1 ELSE 0)
        BY <2>1, TimesUnit
      <4> QED BY <2>1, <2>2, <3>1, <4>1, <4>2
    <3>2. CASE count = 2
      <4>1. hand' = <<made + 1>> \o <<made + 2>>
        BY <2>1, <3>2
      <4>2. Times(n, <<made + 1>> \o <<made + 2>>) = Times(n, <<made + 1>>) + Times(n, <<made + 2>>)
        <5>1. <<made + 1>> \in Seq(Int) /\ <<made + 2>> \in Seq(Int)
          BY <2>1
        <5> QED BY <5>1, TimesConcat
      <4>3. /\ Times(n, <<made + 1>>) = (IF made + 1 = n THEN 1 ELSE 0)
            /\ Times(n, <<made + 2>>) = (IF made + 2 = n THEN 1 ELSE 0)
        BY <2>1, TimesUnit
      <4>4. Times(n, hand') = (IF made + 1 = n THEN 1 ELSE 0) + (IF made + 2 = n THEN 1 ELSE 0)
        BY <4>1, <4>2, <4>3, Zenon
      <4> QED BY <2>1, <2>2, <3>2, <4>4
    <3> QED BY <3>1, <3>2
  <2>4. Times(n, hand) = 0
    BY <2>1, TimesEmpty
  <2>5. released[n] + Places(n) = (IF n <= made THEN 1 ELSE 0)
    BY DEF OnceInv
  <2> QED BY <2>1, <2>2, <2>3, <2>4, <2>5, PlacesType DEF Places
<1>2. ASSUME NEW mark \in Marks, StartMark(mark) PROVE OnceInv'
  BY <1>2, MovedCounts DEF StartMark, MayCall, Placed, Places
<1>3. CASE Refuse
  BY <1>3, ReleasedCounts DEF Refuse, Returned
<1>4. CASE ReceiveQueued
  <2>1. /\ m_List' = m_List \o hand /\ hand' = << >>
        /\ UNCHANGED <<m_ppSamples, sending, released, made>>
    BY <1>4 DEF ReceiveQueued, Returned
  <2>2. ASSUME NEW n \in Samples PROVE Places(n)' = Places(n)
    <3>1. Times(n, m_List \o hand) = Times(n, m_List) + Times(n, hand)
      BY IntSequences, TimesConcat
    <3>2. Times(n, << >>) = 0
      BY TimesEmpty
    <3> QED BY <2>1, <3>1, <3>2, PlacesType DEF Places
  <2> QED BY <2>1, <2>2, MovedCounts
<1>5. CASE MarkQueued
  <2>1. /\ hand = << >> /\ hand' = << >> /\ call \in Marks
        /\ UNCHANGED <<m_ppSamples, sending, released, made>>
    BY <1>5, OutputQueueAssumption DEF MarkQueued, Returned, OnceInv
  <2>2. ASSUME NEW n \in Samples PROVE Times(n, m_List') = Times(n, m_List)
    <3>1. CASE UNCHANGED m_List
      BY <3>1
    <3>2. ASSUME NEW entry \in {<<SEND_PACKET>>, <<EOS_PACKET>>, <<NEW_SEGMENT, PACKET>>},
                 m_List' = m_List \o entry
          PROVE  Times(n, m_List') = Times(n, m_List)
      <4>1. entry \in Seq(Int) /\ n \notin Elements(entry)
        <5>1. n \notin {SEND_PACKET, EOS_PACKET, NEW_SEGMENT, PACKET}
          BY OutputQueueAssumption DEF Samples, SEND_PACKET, EOS_PACKET, NEW_SEGMENT, PACKET
        <5>2. {SEND_PACKET, EOS_PACKET, NEW_SEGMENT, PACKET} \subseteq Int
          BY DEF SEND_PACKET, EOS_PACKET, NEW_SEGMENT, PACKET
        <5>3. CASE entry \in {<<SEND_PACKET>>, <<EOS_PACKET>>}
          <6>1. PICK e \in {SEND_PACKET, EOS_PACKET} : entry = <<e>>
            BY <5>3
          <6>2. e \in Int /\ e # n
            BY <5>1, <5>2
          <6>3. Elements(<<e>>) = {e}
            BY <6>2, TimesUnit
          <6> HIDE DEF SEND_PACKET, EOS_PACKET
          <6> QED BY <6>1, <6>2, <6>3
        <5>4. CASE entry = <<NEW_SEGMENT, PACKET>>
          <6>1. Elements(<<NEW_SEGMENT, PACKET>>) = {NEW_SEGMENT, PACKET}
            BY DEF Elements
          <6>2. <<NEW_SEGMENT, PACKET>> \in Seq(Int)
            BY <5>2
          <6> QED BY <5>1, <5>4, <6>1, <6>2, Zenon
        <5> QED BY <5>3, <5>4
      <4>2. Times(n, entry) = 0
        BY <4>1, TimesType
      <4>3. Times(n, m_List \o entry) = Times(n, m_List) + Times(n, entry)
        BY <4>1, IntSequences, TimesConcat
      <4> QED BY <3>2, <4>2, <4>3, PlacesType
    <3>3. CASE call = "SendAnyway" /\ ~UNCHANGED m_List
      BY <1>5, <3>2, <3>3 DEF MarkQueued
    <3>4. CASE call = "EOS" /\ ~UNCHANGED m_List
      BY <1>5, <3>2, <3>4 DEF MarkQueued
    <3>5. CASE call = "NewSegment" /\ ~UNCHANGED m_List
      BY <1>5, <3>2, <3>5 DEF MarkQueued
    <3> QED BY <2>1, <3>1, <3>3, <3>4, <3>5, OutputQueueAssumption
  <2> QED BY <2>1, <2>2, MovedCounts DEF Places
<1>6. CASE EnterDirect \/ SendAnyway \/ ReturnDirect
  <2>1. /\ UNCHANGED <<m_List, m_ppSamples, sending, hand, released, made>>
        /\ call' = call \/ hand = << >>
    BY <1>6 DEF EnterDirect, SendAnyway, ReturnDirect, Returned
  <2> QED BY <2>1, MovedCounts DEF Places, OnceInv
<1>7. CASE BatchDirect
  <2>1. /\ hand # << >> /\ hand' = Tail(hand) /\ m_ppSamples' = Append(m_ppSamples, Head(hand))
        /\ UNCHANGED <<m_List, sending, released, made, call>>
    BY <1>7 DEF BatchDirect
  <2>2. ASSUME NEW n \in Samples PROVE Places(n)' = Places(n)
    <3>1. Times(n, hand) = Times(n, Tail(hand)) + (IF Head(hand) = n THEN 1 ELSE 0)
      BY <2>1, IntSequences, TimesTail
    <3>2. Head(hand) \in Int /\ Tail(hand) \in Seq(Int)
      BY <2>1, IntSequences, HeadTailProperties
    <3>3. Times(n, Append(m_ppSamples, Head(hand)))
            = Times(n, m_ppSamples) + (IF Head(hand) = n THEN 1 ELSE 0)
      BY <3>2, IntSequences, TimesAppend
    <3>4. Times(n, Tail(hand)) \in Nat
      BY <3>2, TimesType
    <3> QED BY <2>1, <3>1, <3>3, <3>4, PlacesType DEF Places
  <2> QED BY <2>1, <2>2, MovedCounts DEF OnceInv
<1>8. CASE DeliverDirect
  BY <1>8, ReleasedCounts DEF DeliverDirect
<1> QED BY <1>1, <1>2, <1>3, <1>4, <1>5, <1>6, <1>7, <1>8 DEF InCall

LEMMA WorkerCounts ==
  ASSUME QueueInv, OnceInv, InWorker \/ Deliver
  PROVE  OnceInv'
<1> USE DEF QueueInv, queue, flags, signals, workerVars, sourceVars, history
<1>1. CASE Terminate \/ Flush
  <2>1. FreeSamples /\ UNCHANGED <<sending, hand, made, call>>
    BY <1>1 DEF Terminate, Flush
  <2> QED BY <2>1, FreeCounts
<1>2. CASE AddToBatch
  <2> DEFINE batch == Append(m_ppSamples, Head(m_List))
  <2>1. /\ m_List # << >> /\ Head(m_List) \in Samples /\ m_List' = Tail(m_List)
        /\ sending = << >> /\ UNCHANGED <<hand, call, released, made>>
    BY <1>2, LoopFacts DEF AddToBatch
  <2>2. \/ sending' = batch /\ m_ppSamples' = << >>
        \/ m_ppSamples' = batch /\ UNCHANGED sending
    BY <1>2 DEF AddToBatch, LeaveWith
  <2>3. ASSUME NEW n \in Samples PROVE Places(n)' = Places(n)
    <3>1. Times(n, m_List) = Times(n, Tail(m_List)) + (IF Head(m_List) = n THEN 1 ELSE 0)
      BY <2>1, IntSequences, TimesTail
    <3>2. Tail(m_List) \in Seq(Int) /\ Head(m_List) \in Int
      BY <2>1, IntSequences, HeadTailProperties
    <3>3. Times(n, batch) = Times(n, m_ppSamples) + (IF Head(m_List) = n THEN 1 ELSE 0)
      BY <3>2, IntSequences, TimesAppend
    <3>4. Times(n, Tail(m_List)) \in Nat /\ Times(n, << >>) = 0
      BY <3>2, TimesType, TimesEmpty
    <3> HIDE DEF batch
    <3> QED BY <2>1, <2>2, <3>1, <3>3, <3>4, PlacesType DEF Places
  <2> QED BY <2>1, <2>3, MovedCounts DEF OnceInv
<1>3. CASE SendPartial
  <2>1. /\ UNCHANGED m_List /\ sending' = m_ppSamples /\ m_ppSamples' = << >>
        /\ sending = << >> /\ UNCHANGED <<hand, call, released, made>>
    BY <1>3, LoopFacts DEF SendPartial, LeaveWith
  <2>2. ASSUME NEW n \in Samples PROVE Places(n)' = Places(n)
    BY <2>1, PlacesType, TimesEmpty DEF Places
  <2> QED BY <2>1, <2>2, MovedCounts DEF OnceInv
<1>4. CASE TakeSpecial
  <2>1. /\ m_List # << >> /\ IsSpecialSample(Head(m_List)) /\ sending = << >>
        /\ UNCHANGED <<hand, call, released, made>>
        /\ \/ m_ppSamples' = m_ppSamples /\ sending' = sending
           \/ m_ppSamples' = << >> /\ sending' = m_ppSamples
        /\ \/ m_List' = Tail(m_List)
           \/ m_List' = Tail(Tail(m_List)) /\ Head(m_List) = NEW_SEGMENT
    BY <1>4, LoopFacts DEF TakeSpecial, LeaveWith
  <2>2. ASSUME NEW n \in Samples PROVE Times(n, m_List') = Times(n, m_List)
    <3> DEFINE rest == Tail(m_List)
    <3>1. /\ Head(m_List) # n /\ PACKET # n
      BY <2>1, EntriesAreInts DEF Samples, PACKET
    <3>2. Times(n, m_List) = Times(n, rest) + (IF Head(m_List) = n THEN 1 ELSE 0)
      BY <2>1, IntSequences, TimesTail
    <3>3. rest \in Seq(Int)
      BY <2>1, IntSequences, HeadTailProperties
    <3>4. Times(n, rest) \in Nat
      BY <3>3, TimesType
    <3>5. Times(n, rest) = Times(n, m_List)
      BY <3>1, <3>2, <3>4
    <3>6. ASSUME Head(m_List) = NEW_SEGMENT PROVE Times(n, Tail(rest)) = Times(n, rest)
      <4>1. rest # << >> /\ Head(rest) = PACKET
        BY <2>1, <3>6, IntSequences, PairedTail DEF Typed
      <4>2. Times(n, rest) = Times(n, Tail(rest)) + (IF Head(rest) = n THEN 1 ELSE 0)
        BY <3>3, <4>1, TimesTail
      <4>3. Tail(rest) \in Seq(Int)
        BY <3>3, <4>1, HeadTailProperties
      <4>4. Times(n, Tail(rest)) \in Nat
        BY <4>3, TimesType
      <4> QED BY <3>1, <4>1, <4>2, <4>4
    <3> QED BY <2>1, <3>5, <3>6
  <2>3. ASSUME NEW n \in Samples PROVE Places(n)' = Places(n)
    BY <2>1, <2>2, PlacesType, TimesEmpty DEF Places
  <2> QED BY <2>1, <2>3, MovedCounts DEF OnceInv
<1>5. CASE Drop \/ Deliver
  BY <1>5, ReleasedCounts DEF Drop, Deliver
<1>6. CASE PrepareToWait \/ Wait \/ Send \/ Packet \/ ResetPacket \/ ReportReset
  <2>1. UNCHANGED <<m_List, m_ppSamples, sending, hand, call, released, made>>
    BY <1>6 DEF PrepareToWait, Wait, Send, Packet, ResetPacket, ReportReset
  <2> QED BY <2>1, MovedCounts DEF Places, OnceInv
<1> QED BY <1>1, <1>2, <1>3, <1>4, <1>5, <1>6 DEF InWorker, InLoopStep

LEMMA ControlCounts ==
  ASSUME QueueInv, OnceInv,
         BeginFlushQueued \/ BeginFlushDownstreamFirst \/ Reset \/ StopDownstream \/ InControl
  PROVE  OnceInv'
<1> USE DEF QueueInv, queue, flags, signals, workerVars, sourceVars, history
<1>1. CASE \/ BeginFlushQueued \/ BeginFlushDownstreamFirst \/ BeginFlushDownstream
           \/ BeginFlushDirect \/ EndFlush \/ EndFlushDownstream \/ EndFlushReturn
           \/ ResetReturn \/ StopDownstream \/ Join
  <2>1. UNCHANGED <<m_List, m_ppSamples, sending, hand, call, released, made>>
    BY <1>1 DEF BeginFlushQueued, BeginFlushDownstreamFirst, BeginFlushDownstream,
                BeginFlushDirect, EndFlush, EndFlushDownstream, EndFlushReturn,
                ResetReturn, StopDownstream, Join
  <2> QED BY <2>1, MovedCounts DEF Places, OnceInv
<1>2. CASE EndFlushSync \/ Destroy
  <2>1. UNCHANGED <<sending, hand, call, made>>
    BY <1>2 DEF EndFlushSync, Destroy
  <2>2. CASE FreeSamples
    BY <2>1, <2>2, FreeCounts
  <2>3. CASE UNCHANGED <<m_List, m_ppSamples, released>>
    BY <2>1, <2>3, MovedCounts DEF Places, OnceInv
  <2> QED BY <1>2, <2>2, <2>3 DEF EndFlushSync, Destroy
<1>3. CASE Reset
  <2>1. /\ UNCHANGED <<m_ppSamples, sending, hand, call, released, made>>
        /\ m_List' = Append(m_List, RESET_PACKET) \/ UNCHANGED m_List
    BY <1>3 DEF Reset
  <2>2. ASSUME NEW n \in Samples PROVE Times(n, m_List') = Times(n, m_List)
    <3>1. RESET_PACKET \in Int /\ RESET_PACKET # n
      BY EntriesAreInts
    <3>2. Times(n, Append(m_List, RESET_PACKET))
            = Times(n, m_List) + (IF RESET_PACKET = n THEN 1 ELSE 0)
      BY <3>1, IntSequences, TimesAppend
    <3>3. CASE UNCHANGED m_List
      BY <3>3
    <3>4. CASE m_List' = Append(m_List, RESET_PACKET)
      BY <3>1, <3>2, <3>4, PlacesType
    <3> QED BY <2>1, <3>3, <3>4
  <2> QED BY <2>1, <2>2, MovedCounts DEF Places, OnceInv
<1> QED BY <1>1, <1>2, <1>3 DEF InControl

(* Every sample is in one place or released once, and none is left when    *)
(* the destructor is through, for any samples, batches, modes and marks    *)
(* (the Release loops of ThreadProc and ReceiveMultiple, FreeSamples).     *)
THEOREM QueueEachSampleOnce == Spec /\ ResetsSafely => []EachSampleOnce
<1>1. Init /\ ResetsSafely => OnceInv
  <2> SUFFICES ASSUME Init, NEW n \in Samples
               PROVE  released[n] + Places(n) = (IF n <= made THEN 1 ELSE 0)
    BY DEF OnceInv, Init
  <2>1. released[n] = 0 /\ made = 0 /\ ~(n <= 0)
    BY DEF Init, Samples
  <2> QED BY <2>1, TimesEmpty DEF Init, Places
<1>2. QueueInv /\ OnceInv /\ [Next]_vars => OnceInv'
  <2> SUFFICES ASSUME QueueInv, OnceInv, [Next]_vars PROVE OnceInv'
    OBVIOUS
  <2>1. CASE UNCHANGED vars
    BY <2>1, MovedCounts DEF vars, queue, workerVars, sourceVars, history, Places, OnceInv
  <2> QED BY <2>1, SourceCounts, WorkerCounts, ControlCounts DEF Next
<1>3. QueueInv /\ OnceInv => EachSampleOnce
  <2> SUFFICES ASSUME QueueInv, OnceInv PROVE EachSampleOnce
    OBVIOUS
  <2>1. ASSUME NEW n \in Samples
        PROVE  released[n] + Times(n, m_List) + Times(n, m_ppSamples) + Times(n, sending)
                 + Times(n, hand) = (IF n <= made THEN 1 ELSE 0)
    <3>1. released[n] + Places(n) = (IF n <= made THEN 1 ELSE 0)
      BY DEF OnceInv
    <3> QED BY <3>1, PlacesType DEF Places, QueueInv
  <2>2. ASSUME control = "deleted", NEW n \in 1 .. made PROVE released[n] = 1
    <3>1. n \in Samples /\ n <= made
      BY OutputQueueAssumption DEF QueueInv, Typed, Samples
    <3>2. m_List = << >> /\ m_ppSamples = << >> /\ sending = << >> /\ hand = << >>
      BY <2>2 DEF QueueInv, Placed
    <3>3. released[n] + Places(n) = 1
      BY <3>1 DEF OnceInv
    <3>4. Places(n) = 0
      BY <3>2, TimesEmpty DEF Places
    <3> QED BY <3>1, <3>3, <3>4, PlacesType DEF QueueInv
  <2> QED BY <2>1, <2>2 DEF EachSampleOnce
<1> QED BY <1>1, <1>2, <1>3, QueueInvAlways, PTL DEF Spec


-----------------------------------------------------------------------------
(***************************************************************************)
(* The order.  A step moves samples from the front of a place to the end   *)
(* of the one before it, drops some, or brings newer ones; none of this    *)
(* puts an earlier sample behind a later one.                              *)
(***************************************************************************)
SamplesOf(s) == Elements(s) \cap Samples

Before(s, t) == \A x \in SamplesOf(s), y \in SamplesOf(t) : x < y

(* InOrder place by place, and the next sample to be made is later yet. *)
OrderInv ==
  /\ Ordered(sending) /\ Ordered(m_ppSamples) /\ Ordered(m_List) /\ Ordered(hand)
  /\ Before(sending, m_ppSamples) /\ Before(sending, m_List) /\ Before(sending, hand)
  /\ Before(m_ppSamples, m_List) /\ Before(m_ppSamples, hand) /\ Before(m_List, hand)
  /\ \A n \in SamplesOf(sending) \cup SamplesOf(m_ppSamples) \cup SamplesOf(m_List) \cup SamplesOf(hand) :
       n <= made

(* Nothing and a single entry are in order. *)
LEMMA OrderedAlone ==
  /\ Ordered(<< >>) /\ SamplesOf(<< >>) = {}
  /\ \A e \in Int : Ordered(<<e>>) /\ SamplesOf(<<e>>) = {e} \cap Samples
<1>1. ASSUME NEW e \in Int PROVE Ordered(<<e>>) /\ SamplesOf(<<e>>) = {e} \cap Samples
  BY TimesUnit DEF Ordered, SamplesOf
<1> QED BY <1>1, TimesEmpty DEF Ordered, SamplesOf

(* Where two sequences in order may be put together. *)
LEMMA OrderedConcat ==
  ASSUME NEW s \in Seq(Int), NEW t \in Seq(Int)
  PROVE  /\ Ordered(s \o t) <=> Ordered(s) /\ Ordered(t) /\ Before(s, t)
         /\ SamplesOf(s \o t) = SamplesOf(s) \cup SamplesOf(t)
<1> DEFINE k == Len(s)
           l == Len(t)
           u == s \o t
<1>1. /\ k \in Nat /\ l \in Nat /\ Len(u) = k + l
      /\ \A i \in 1 .. k + l : u[i] = IF i <= k THEN s[i] ELSE t[i - k]
  BY ConcatProperties, LenProperties
<1>2. SamplesOf(u) = SamplesOf(s) \cup SamplesOf(t)
  BY TimesConcat DEF SamplesOf
<1>3. /\ SamplesOf(s) = {s[i] : i \in 1 .. k} \cap Samples
      /\ SamplesOf(t) = {t[i] : i \in 1 .. l} \cap Samples
  BY DEF SamplesOf, Elements
<1>4. \A j \in 1 .. l : j + k \in 1 .. k + l /\ ~(j + k <= k) /\ j + k - k = j
  BY <1>1
<1>5. /\ \A i \in 1 .. k : i \in 1 .. k + l /\ u[i] = s[i]
      /\ \A j \in 1 .. l : j + k \in 1 .. k + l /\ u[j + k] = t[j]
  BY <1>1, <1>4
<1>6. ASSUME Ordered(u) PROVE Ordered(s) /\ Ordered(t) /\ Before(s, t)
  <2>1. \A i, j \in 1 .. k + l : i < j /\ {u[i], u[j]} \subseteq Samples => u[i] < u[j]
    BY <1>1, <1>6 DEF Ordered
  <2> HIDE DEF k, l, u
  <2>2. \A i, j \in 1 .. k : i < j /\ {s[i], s[j]} \subseteq Samples => s[i] < s[j]
    BY <1>5, <2>1
  <2>3. \A i, j \in 1 .. l : i < j /\ {t[i], t[j]} \subseteq Samples => t[i] < t[j]
    <3> TAKE i, j \in 1 .. l
    <3>1. i + k \in 1 .. k + l /\ j + k \in 1 .. k + l /\ u[i + k] = t[i] /\ u[j + k] = t[j]
      BY <1>5
    <3>2. i < j => i + k < j + k
      BY <1>1
    <3> QED BY <2>1, <3>1, <3>2
  <2>4. \A i \in 1 .. k, j \in 1 .. l : {s[i], t[j]} \subseteq Samples => s[i] < t[j]
    <3> TAKE i \in 1 .. k, j \in 1 .. l
    <3>1. i \in 1 .. k + l /\ u[i] = s[i] /\ j + k \in 1 .. k + l /\ u[j + k] = t[j]
      BY <1>5
    <3>2. i < j + k
      BY <1>1
    <3> QED BY <2>1, <3>1, <3>2
  <2>5. Before(s, t)
    BY <1>3, <2>4 DEF Before
  <2> QED BY <2>2, <2>3, <2>5 DEF Ordered, k, l
<1>7. ASSUME Ordered(s), Ordered(t), Before(s, t) PROVE Ordered(u)
  <2>1. /\ \A i, j \in 1 .. k : i < j /\ {s[i], s[j]} \subseteq Samples => s[i] < s[j]
        /\ \A i, j \in 1 .. l : i < j /\ {t[i], t[j]} \subseteq Samples => t[i] < t[j]
    BY <1>7 DEF Ordered
  <2>2. \A i \in 1 .. k, j \in 1 .. l : {s[i], t[j]} \subseteq Samples => s[i] < t[j]
    BY <1>3, <1>7 DEF Before
  <2> SUFFICES ASSUME NEW i \in 1 .. k + l, NEW j \in 1 .. k + l, i < j,
                      {u[i], u[j]} \subseteq Samples
               PROVE  u[i] < u[j]
    BY <1>1 DEF Ordered
  <2> HIDE DEF k, l, u
  <2>3. CASE j <= k
    <3>1. i \in 1 .. k /\ j \in 1 .. k /\ u[i] = s[i] /\ u[j] = s[j]
      BY <1>1, <2>3
    <3> QED BY <2>1, <3>1
  <2>4. CASE i <= k /\ ~(j <= k)
    <3>1. i \in 1 .. k /\ j - k \in 1 .. l /\ u[i] = s[i] /\ u[j] = t[j - k]
      BY <1>1, <2>4
    <3> QED BY <2>2, <3>1
  <2>5. CASE ~(i <= k)
    <3>1. ~(j <= k) /\ i - k \in 1 .. l /\ j - k \in 1 .. l /\ i - k < j - k
      BY <1>1, <2>5
    <3>2. u[i] = t[i - k] /\ u[j] = t[j - k]
      BY <1>1, <2>5, <3>1
    <3> QED BY <2>1, <3>1, <3>2
  <2> QED BY <1>1, <2>3, <2>4, <2>5
<1> QED BY <1>2, <1>6, <1>7

(* A later sample may be added at the end. *)
LEMMA OrderedAppend ==
  ASSUME NEW s \in Seq(Int), NEW e \in Int, Ordered(s), Before(s, <<e>>)
  PROVE  /\ Ordered(Append(s, e))
         /\ SamplesOf(Append(s, e)) = SamplesOf(s) \cup ({e} \cap Samples)
<1>1. Append(s, e) = s \o <<e>> /\ <<e>> \in Seq(Int)
  BY AppendIsConcat
<1>2. Ordered(s \o <<e>>) /\ SamplesOf(s \o <<e>>) = SamplesOf(s) \cup SamplesOf(<<e>>)
  BY <1>1, OrderedAlone, OrderedConcat
<1> QED BY <1>1, <1>2, OrderedAlone, Zenon

(* The first entry is before what follows it. *)
LEMMA OrderedTail ==
  ASSUME NEW s \in Seq(Int), s # << >>, Ordered(s)
  PROVE  /\ Ordered(Tail(s))
         /\ SamplesOf(s) = SamplesOf(Tail(s)) \cup ({Head(s)} \cap Samples)
         /\ Before(<<Head(s)>>, Tail(s))
<1>1. /\ Len(s) \in Nat \ {0} /\ Head(s) = s[1] /\ Head(s) \in Int
      /\ Tail(s) \in Seq(Int) /\ Len(Tail(s)) = Len(s) - 1
      /\ \A i \in 1 .. Len(Tail(s)) : Tail(s)[i] = s[i + 1]
  BY EmptySeq, HeadTailProperties
<1>2. \A i, j \in 1 .. Len(s) : i < j /\ {s[i], s[j]} \subseteq Samples => s[i] < s[j]
  BY DEF Ordered
<1>3. \A i \in 1 .. Len(Tail(s)) : i + 1 \in 1 .. Len(s) /\ 1 < i + 1 /\ 1 \in 1 .. Len(s)
  BY <1>1
<1>4. Ordered(Tail(s))
  <2> SUFFICES ASSUME NEW i \in 1 .. Len(Tail(s)), NEW j \in 1 .. Len(Tail(s)), i < j,
                      {Tail(s)[i], Tail(s)[j]} \subseteq Samples
               PROVE  Tail(s)[i] < Tail(s)[j]
    BY DEF Ordered
  <2>1. i + 1 < j + 1 /\ Tail(s)[i] = s[i + 1] /\ Tail(s)[j] = s[j + 1]
    BY <1>1
  <2> QED BY <1>2, <1>3, <2>1
<1>5. Before(<<Head(s)>>, Tail(s))
  <2> SUFFICES ASSUME NEW x \in SamplesOf(<<Head(s)>>), NEW y \in SamplesOf(Tail(s))
               PROVE  x < y
    BY DEF Before
  <2>1. x = s[1] /\ x \in Samples
    BY <1>1, OrderedAlone
  <2>2. PICK i \in 1 .. Len(Tail(s)) : y = Tail(s)[i] /\ y \in Samples
    BY DEF SamplesOf, Elements
  <2>3. y = s[i + 1]
    BY <1>1, <2>2
  <2> QED BY <1>2, <1>3, <2>1, <2>2, <2>3
<1>6. SamplesOf(s) = SamplesOf(Tail(s)) \cup ({Head(s)} \cap Samples)
  BY TimesTail DEF SamplesOf
<1> QED BY <1>4, <1>5, <1>6

(* Samples may go from any place, as long as those left stay in order. *)
LEMMA FewerKeepOrder ==
  ASSUME OrderInv, made \in Int, made' \in Int, made <= made',
         Ordered(sending'), Ordered(m_ppSamples'), Ordered(m_List'), Ordered(hand'),
         SamplesOf(sending') \subseteq SamplesOf(sending),
         SamplesOf(m_ppSamples') \subseteq SamplesOf(m_ppSamples),
         SamplesOf(m_List') \subseteq SamplesOf(m_List),
         SamplesOf(hand') \subseteq SamplesOf(hand)
  PROVE  OrderInv'
<1>1. \A s : SamplesOf(s) \subseteq Int
  BY EntriesAreInts DEF SamplesOf
<1>2. /\ Before(sending', m_ppSamples') /\ Before(sending', m_List') /\ Before(sending', hand')
      /\ Before(m_ppSamples', m_List') /\ Before(m_ppSamples', hand') /\ Before(m_List', hand')
  BY DEF OrderInv, Before
<1>3. \A n \in SamplesOf(sending') \cup SamplesOf(m_ppSamples') \cup SamplesOf(m_List')
                 \cup SamplesOf(hand') : n <= made'
  BY <1>1 DEF OrderInv
<1> QED BY <1>2, <1>3 DEF OrderInv

(* What the steps of the source thread do to the places. *)
LEMMA SourceKeepsOrder ==
  ASSUME QueueInv, OrderInv,
         \/ \E count \in 1 .. 2 : StartReceive(count)
         \/ \E mark \in Marks : StartMark(mark)
         \/ InCall \/ DeliverDirect
  PROVE  OrderInv'
<1> USE DEF QueueInv, queue, flags, signals, workerVars, outer, history
<1>1. /\ m_List \in Seq(Int) /\ m_ppSamples \in Seq(Int) /\ hand \in Seq(Int)
      /\ \A s : SamplesOf(s) \subseteq Int
      /\ made \in Int /\ UNCHANGED sending
  <2>1. UNCHANGED sending
    BY DEF StartReceive, StartMark, InCall, Refuse, ReceiveQueued, MarkQueued, EnterDirect,
           BatchDirect, SendAnyway, ReturnDirect, DeliverDirect
  <2>2. \A s : SamplesOf(s) \subseteq Int
    BY EntriesAreInts DEF SamplesOf
  <2>3. made \in Int
    BY DEF Typed
  <2> QED BY <2>1, <2>2, <2>3, IntSequences
<1>2. CASE \E count \in 1 .. 2 : StartReceive(count)
  <2>1. PICK n \in 1 .. 2 : StartReceive(n)
    BY <1>2
  <2>2. /\ hand' = [i \in 1 .. n |-> made + i] /\ made' = made + n
        /\ UNCHANGED <<m_List, m_ppSamples>>
    BY <2>1 DEF StartReceive
  <2>3. /\ Len(hand') = n /\ \A i \in 1 .. n : hand'[i] = made + i
    BY <2>2
  <2>4. Ordered(hand')
    BY <1>1, <2>3 DEF Ordered
  <2>5. \A y \in SamplesOf(hand') : y > made /\ y <= made'
    <3> SUFFICES ASSUME NEW y \in SamplesOf(hand') PROVE y > made /\ y <= made'
      OBVIOUS
    <3>1. PICK i \in 1 .. n : y = made + i
      BY <2>3 DEF SamplesOf, Elements
    <3> QED BY <1>1, <2>2, <3>1
  <2>6. Before(sending, hand') /\ Before(m_ppSamples, hand') /\ Before(m_List, hand')
    BY <1>1, <2>5 DEF Before, OrderInv
  <2>7. \A n_1 \in SamplesOf(sending) \cup SamplesOf(m_ppSamples) \cup SamplesOf(m_List) : n_1 <= made'
    BY <1>1, <2>2 DEF OrderInv
  <2> QED BY <1>1, <2>2, <2>4, <2>5, <2>6, <2>7 DEF OrderInv
<1>3. CASE \E mark \in Marks : StartMark(mark)
  BY <1>1, <1>3, FewerKeepOrder DEF StartMark, OrderInv
<1>4. CASE Refuse \/ ReturnDirect
  <2>1. UNCHANGED <<m_List, m_ppSamples, made>> /\ hand' = << >>
    BY <1>4 DEF Refuse, ReturnDirect, Returned
  <2> QED BY <1>1, <2>1, OrderedAlone, FewerKeepOrder DEF OrderInv
<1>5. CASE ReceiveQueued
  <2>1. UNCHANGED <<m_ppSamples, made>> /\ hand' = << >> /\ m_List' = m_List \o hand
    BY <1>5 DEF ReceiveQueued, Returned
  <2>2. /\ Ordered(m_List \o hand)
        /\ SamplesOf(m_List \o hand) = SamplesOf(m_List) \cup SamplesOf(hand)
    BY <1>1, OrderedConcat DEF OrderInv
  <2>3. Ordered(m_List') /\ SamplesOf(m_List') = SamplesOf(m_List) \cup SamplesOf(hand)
    BY <2>1, <2>2
  <2>4. Ordered(hand') /\ SamplesOf(hand') = {}
    BY <2>1, OrderedAlone
  <2>5. Before(sending, m_List') /\ Before(m_ppSamples, m_List')
    BY <2>3 DEF OrderInv, Before
  <2>6. Before(sending, hand') /\ Before(m_ppSamples, hand') /\ Before(m_List', hand')
    BY <2>4 DEF Before
  <2> QED BY <1>1, <2>1, <2>3, <2>4, <2>5, <2>6 DEF OrderInv
<1>6. CASE MarkQueued
  <2>1. UNCHANGED <<m_ppSamples, made>> /\ hand' = << >>
    BY <1>6 DEF MarkQueued, Returned
  <2>2. CASE UNCHANGED m_List
    BY <1>1, <2>1, <2>2, OrderedAlone, FewerKeepOrder DEF OrderInv
  <2>3. CASE \E e \in {<<SEND_PACKET>>, <<EOS_PACKET>>, <<NEW_SEGMENT, PACKET>>} : m_List' = m_List \o e
    <3>1. PICK e \in {<<SEND_PACKET>>, <<EOS_PACKET>>, <<NEW_SEGMENT, PACKET>>} : m_List' = m_List \o e
      BY <2>3
    <3>2. e \in Seq(Int) /\ \A i \in 1 .. Len(e) : e[i] \notin Samples
      <4> USE OutputQueueAssumption DEF SEND_PACKET, EOS_PACKET, NEW_SEGMENT, PACKET, Samples
      <4>1. CASE e = <<SEND_PACKET>>
        BY <4>1
      <4>2. CASE e = <<EOS_PACKET>>
        BY <4>2
      <4>3. CASE e = <<NEW_SEGMENT, PACKET>>
        BY <4>3
      <4> QED BY <3>1, <4>1, <4>2, <4>3
    <3>3. Ordered(e) /\ SamplesOf(e) = {} /\ Before(m_List, e)
      BY <3>2 DEF Ordered, SamplesOf, Elements, Before
    <3>4. Ordered(m_List') /\ SamplesOf(m_List') = SamplesOf(m_List)
      <4>1. /\ Ordered(m_List \o e)
            /\ SamplesOf(m_List \o e) = SamplesOf(m_List) \cup SamplesOf(e)
        BY <1>1, <3>2, <3>3, OrderedConcat DEF OrderInv
      <4> QED BY <3>1, <3>3, <4>1
    <3> QED BY <1>1, <2>1, <3>4, OrderedAlone, FewerKeepOrder DEF OrderInv
  <2>4. call \in {"SendAnyway", "EOS", "NewSegment"}
    BY <1>6, OutputQueueAssumption DEF MarkQueued
  <2> QED BY <1>6, <2>2, <2>3, <2>4 DEF MarkQueued
<1>7. CASE EnterDirect \/ SendAnyway
  BY <1>1, <1>7, FewerKeepOrder DEF EnterDirect, SendAnyway, OrderInv
<1>8. CASE BatchDirect
  <2>1. /\ hand # << >> /\ m_ppSamples' = Append(m_ppSamples, Head(hand)) /\ hand' = Tail(hand)
        /\ UNCHANGED <<m_List, made>>
    BY <1>8 DEF BatchDirect
  <2>2. m_List = << >> /\ sending = << >>
    BY <1>8 DEF BatchDirect, Placed
  <2>3. Head(hand) \in Int
    BY <1>1, <2>1, HeadTailProperties
  <2>4. /\ Ordered(Tail(hand)) /\ SamplesOf(hand) = SamplesOf(Tail(hand)) \cup ({Head(hand)} \cap Samples)
        /\ Before(<<Head(hand)>>, Tail(hand))
        /\ SamplesOf(<<Head(hand)>>) = {Head(hand)} \cap Samples
    BY <1>1, <2>1, <2>3, OrderedTail, OrderedAlone DEF OrderInv
  <2>5. Before(m_ppSamples, <<Head(hand)>>)
    BY <2>4 DEF OrderInv, Before
  <2>6. /\ Ordered(m_ppSamples')
        /\ SamplesOf(m_ppSamples') = SamplesOf(m_ppSamples) \cup ({Head(hand)} \cap Samples)
    BY <1>1, <2>1, <2>3, <2>5, OrderedAppend DEF OrderInv
  <2>7. Before(m_ppSamples', hand')
    BY <2>1, <2>4, <2>6 DEF OrderInv, Before
  <2>8. SamplesOf(m_List') = {} /\ SamplesOf(sending') = {}
    BY <1>1, <2>1, <2>2, OrderedAlone
  <2>9. /\ Before(sending', m_ppSamples') /\ Before(sending', m_List') /\ Before(sending', hand')
        /\ Before(m_ppSamples', m_List') /\ Before(m_List', hand')
    BY <2>8 DEF Before
  <2>10. /\ Ordered(sending') /\ Ordered(m_List') /\ Ordered(hand')
    BY <1>1, <2>1, <2>4 DEF OrderInv
  <2>11. SamplesOf(hand') \cup SamplesOf(m_ppSamples') \subseteq SamplesOf(hand) \cup SamplesOf(m_ppSamples)
    BY <2>1, <2>4, <2>6
  <2>12. \A n \in SamplesOf(sending') \cup SamplesOf(m_ppSamples') \cup SamplesOf(m_List')
                   \cup SamplesOf(hand') : n <= made'
    BY <2>1, <2>8, <2>11 DEF OrderInv
  <2> QED BY <2>6, <2>7, <2>9, <2>10, <2>12 DEF OrderInv
<1>9. CASE DeliverDirect
  <2>1. UNCHANGED <<m_List, hand, made>> /\ m_ppSamples' = << >>
    BY <1>9 DEF DeliverDirect
  <2> QED BY <1>1, <2>1, OrderedAlone, FewerKeepOrder DEF OrderInv
<1> QED BY <1>2, <1>3, <1>4, <1>5, <1>6, <1>7, <1>8, <1>9 DEF InCall

(* The worker takes a batch along: it had none on its way, and what it     *)
(* takes goes before all that waits.                                       *)
LEMMA BatchKeepsOrder ==
  ASSUME OrderInv, sending = << >>, m_ppSamples' = << >>, UNCHANGED <<hand, made>>,
         Ordered(sending'), Ordered(m_List'), Before(sending', m_List'),
         SamplesOf(m_List') \subseteq SamplesOf(m_List),
         SamplesOf(sending') \subseteq SamplesOf(m_ppSamples) \cup SamplesOf(m_List)
  PROVE  OrderInv'
<1>1. Ordered(m_ppSamples') /\ SamplesOf(m_ppSamples') = {}
  BY OrderedAlone
<1>2. Ordered(hand') /\ SamplesOf(hand') = SamplesOf(hand) /\ made' = made
  BY DEF OrderInv
<1>3. Before(sending', hand') /\ Before(m_List', hand')
  BY <1>2 DEF OrderInv, Before
<1>4. Before(sending', m_ppSamples') /\ Before(m_ppSamples', m_List') /\ Before(m_ppSamples', hand')
  BY <1>1 DEF Before
<1>5. \A n \in SamplesOf(sending') \cup SamplesOf(m_ppSamples') \cup SamplesOf(m_List')
                 \cup SamplesOf(hand') : n <= made'
  BY <1>1, <1>2 DEF OrderInv
<1> QED BY <1>1, <1>2, <1>3, <1>4, <1>5 DEF OrderInv

(* What the worker's steps do. *)
LEMMA WorkerKeepsOrder ==
  ASSUME QueueInv, OrderInv, InWorker \/ Deliver
  PROVE  OrderInv'
<1> USE DEF QueueInv, queue, flags, signals, workerVars, sourceVars, outer, history
<1>1. /\ m_List \in Seq(Int) /\ m_ppSamples \in Seq(Int) /\ sending \in Seq(Int)
      /\ made \in Int /\ UNCHANGED <<hand, made>>
  <2>1. UNCHANGED <<hand, made>>
    BY DEF InWorker, InLoopStep, Terminate, Flush, AddToBatch, PrepareToWait, SendPartial, TakeSpecial,
           Wait, Send, Drop, Packet, ResetPacket, ReportReset, Deliver
  <2> QED BY <2>1, IntSequences DEF Typed
<1>2. InLoop => sending = << >>
  BY DEF InLoop, Placed
<1>3. CASE Terminate \/ Flush
  <2>1. m_List' = << >> /\ m_ppSamples' = << >> /\ UNCHANGED sending
    BY <1>3 DEF Terminate, Flush, FreeSamples
  <2> QED BY <1>1, <2>1, OrderedAlone, FewerKeepOrder DEF OrderInv
<1>4. CASE PrepareToWait \/ Wait \/ Send \/ Packet \/ ResetPacket \/ ReportReset
  <2>1. UNCHANGED <<m_List, m_ppSamples, sending>>
    BY <1>4 DEF PrepareToWait, Wait, Send, Packet, ResetPacket, ReportReset
  <2> QED BY <1>1, <2>1, FewerKeepOrder DEF OrderInv
<1>5. CASE Drop \/ Deliver
  <2>1. UNCHANGED <<m_List, m_ppSamples>> /\ sending' = << >>
    BY <1>5 DEF Drop, Deliver
  <2> QED BY <1>1, <2>1, OrderedAlone, FewerKeepOrder DEF OrderInv
<1>6. CASE AddToBatch
  <2> DEFINE first == Head(m_List)
             batch == Append(m_ppSamples, first)
  <2>1. /\ m_List # << >> /\ first \in Samples /\ m_List' = Tail(m_List) /\ sending = << >>
        /\ \/ m_ppSamples' = << >> /\ sending' = batch
           \/ m_ppSamples' = batch /\ UNCHANGED sending
    BY <1>2, <1>6 DEF AddToBatch, Deliverable, LeaveWith
  <2>2. first \in Int
    BY <1>1, <2>1, HeadTailProperties
  <2>3. /\ Ordered(Tail(m_List)) /\ SamplesOf(m_List) = SamplesOf(Tail(m_List)) \cup ({first} \cap Samples)
        /\ Before(<<first>>, Tail(m_List))
        /\ SamplesOf(<<first>>) = {first} \cap Samples
    BY <1>1, <2>1, <2>2, OrderedTail, OrderedAlone DEF OrderInv
  <2>4. Before(m_ppSamples, <<first>>)
    BY <2>3 DEF OrderInv, Before
  <2>5. Ordered(batch) /\ SamplesOf(batch) = SamplesOf(m_ppSamples) \cup ({first} \cap Samples)
    BY <1>1, <2>2, <2>4, OrderedAppend DEF OrderInv
  <2> HIDE DEF first, batch
  <2>6. /\ Before(batch, Tail(m_List))
        /\ SamplesOf(batch) \subseteq SamplesOf(m_ppSamples) \cup SamplesOf(m_List)
        /\ SamplesOf(Tail(m_List)) \subseteq SamplesOf(m_List)
    BY <2>3, <2>5 DEF OrderInv, Before
  <2>7. CASE m_ppSamples' = << >> /\ sending' = batch
    BY <1>1, <2>1, <2>3, <2>5, <2>6, <2>7, BatchKeepsOrder
  <2>8. CASE m_ppSamples' = batch /\ UNCHANGED sending
    <3>1. SamplesOf(sending') = {} /\ Ordered(sending')
      BY <2>1, <2>8, OrderedAlone
    <3>2. Ordered(m_ppSamples') /\ Ordered(m_List') /\ Ordered(hand')
      BY <1>1, <2>1, <2>3, <2>5, <2>8 DEF OrderInv
    <3>3. Before(sending', m_ppSamples') /\ Before(sending', m_List') /\ Before(sending', hand')
      BY <3>1 DEF Before
    <3>4. Before(m_ppSamples', m_List') /\ Before(m_ppSamples', hand') /\ Before(m_List', hand')
      BY <1>1, <2>1, <2>6, <2>8 DEF OrderInv, Before
    <3>5. \A n \in SamplesOf(sending') \cup SamplesOf(m_ppSamples') \cup SamplesOf(m_List')
                     \cup SamplesOf(hand') : n <= made'
      BY <1>1, <2>1, <2>6, <2>8, <3>1 DEF OrderInv
    <3> QED BY <3>1, <3>2, <3>3, <3>4, <3>5 DEF OrderInv
  <2> QED BY <2>1, <2>7, <2>8
<1>7. CASE SendPartial
  <2>1. sending = << >> /\ sending' = m_ppSamples /\ m_ppSamples' = << >> /\ UNCHANGED m_List
    BY <1>2, <1>7 DEF SendPartial, Deliverable, LeaveWith
  <2>2. Ordered(sending') /\ Ordered(m_List') /\ Before(sending', m_List')
    BY <2>1 DEF OrderInv
  <2>3. /\ SamplesOf(m_List') \subseteq SamplesOf(m_List)
        /\ SamplesOf(sending') \subseteq SamplesOf(m_ppSamples) \cup SamplesOf(m_List)
    BY <2>1
  <2> QED BY <1>1, <2>1, <2>2, <2>3, BatchKeepsOrder
<1>8. CASE TakeSpecial
  <2>1. /\ m_List # << >> /\ sending = << >>
        /\ m_List' \in {Tail(m_List), Tail(Tail(m_List))}
        /\ m_List' = Tail(m_List) \/ Head(m_List) = NEW_SEGMENT
        /\ \/ UNCHANGED <<m_ppSamples, sending>>
           \/ m_ppSamples' = << >> /\ sending' = m_ppSamples
    BY <1>2, <1>8 DEF TakeSpecial, Deliverable, LeaveWith
  <2>2. /\ Ordered(Tail(m_List)) /\ SamplesOf(Tail(m_List)) \subseteq SamplesOf(m_List)
        /\ Tail(m_List) \in Seq(Int)
    BY <1>1, <2>1, OrderedTail, HeadTailProperties DEF OrderInv
  <2>3. Head(m_List) = NEW_SEGMENT => Tail(m_List) # << >>
    BY <1>1, <2>1, PairedTail DEF Typed
  <2>4. Ordered(m_List') /\ SamplesOf(m_List') \subseteq SamplesOf(m_List)
    <3>1. CASE m_List' = Tail(m_List)
      BY <2>2, <3>1
    <3>2. CASE Head(m_List) = NEW_SEGMENT /\ m_List' = Tail(Tail(m_List))
      <4>1. /\ Ordered(Tail(Tail(m_List)))
            /\ SamplesOf(Tail(Tail(m_List))) \subseteq SamplesOf(Tail(m_List))
        BY <2>2, <2>3, <3>2, OrderedTail
      <4> QED BY <2>2, <3>2, <4>1
    <3> QED BY <2>1, <3>1, <3>2
  <2>5. CASE UNCHANGED <<m_ppSamples, sending>>
    BY <1>1, <2>4, <2>5, FewerKeepOrder DEF OrderInv
  <2>6. CASE m_ppSamples' = << >> /\ sending' = m_ppSamples
    <3>1. Ordered(sending') /\ Before(sending', m_List')
      BY <2>4, <2>6 DEF OrderInv, Before
    <3> QED BY <1>1, <2>1, <2>4, <2>6, <3>1, BatchKeepsOrder
  <2> QED BY <2>1, <2>5, <2>6
<1> QED BY <1>3, <1>4, <1>5, <1>6, <1>7, <1>8 DEF InWorker, InLoopStep

(* The control thread brings and moves no sample. *)
LEMMA ControlKeepsOrder ==
  ASSUME QueueInv, OrderInv,
         BeginFlushQueued \/ BeginFlushDownstreamFirst \/ Reset \/ StopDownstream \/ InControl
  PROVE  OrderInv'
<1> USE DEF QueueInv, queue, flags, signals, workerVars, sourceVars, history
<1>1. /\ made \in Int /\ UNCHANGED <<sending, hand, made>>
      /\ \/ UNCHANGED <<m_List, m_ppSamples>>
         \/ m_List' = << >> /\ m_ppSamples' = << >>
         \/ m_List' = Append(m_List, RESET_PACKET) /\ UNCHANGED m_ppSamples
  BY DEF BeginFlushQueued, BeginFlushDownstreamFirst, Reset, StopDownstream, InControl,
         BeginFlushDownstream, BeginFlushDirect, EndFlush, EndFlushSync, EndFlushDownstream,
         EndFlushReturn, ResetReturn, Destroy, Join, FreeSamples, Typed
<1>2. CASE UNCHANGED <<m_List, m_ppSamples>>
  BY <1>1, <1>2, FewerKeepOrder DEF OrderInv
<1>3. CASE m_List' = << >> /\ m_ppSamples' = << >>
  BY <1>1, <1>3, OrderedAlone, FewerKeepOrder DEF OrderInv
<1>4. CASE m_List' = Append(m_List, RESET_PACKET) /\ UNCHANGED m_ppSamples
  <2>1. RESET_PACKET \in Int /\ {RESET_PACKET} \cap Samples = {} /\ m_List \in Seq(Int)
    BY EntriesAreInts, IntSequences
  <2>2. Before(m_List, <<RESET_PACKET>>)
    BY <2>1, OrderedAlone DEF Before
  <2>3. Ordered(m_List') /\ SamplesOf(m_List') \subseteq SamplesOf(m_List)
    BY <1>4, <2>1, <2>2, OrderedAppend DEF OrderInv
  <2> QED BY <1>1, <1>4, <2>3, FewerKeepOrder DEF OrderInv
<1> QED BY <1>1, <1>2, <1>3, <1>4

(* Samples go downstream in the order in which they came, and none of      *)
(* those before a flush after it, whatever batches are cut short, dropped  *)
(* or met by a flush (ThreadProc, ReceiveMultiple, QueueSample).           *)
THEOREM QueueStreamKept == Spec /\ ResetsSafely => []StreamKept
<1>1. QueueInv /\ Init => OrderInv
  BY OrderedAlone DEF Init, OrderInv, Before
<1>2. QueueInv /\ OrderInv /\ [Next]_vars => OrderInv'
  <2> SUFFICES ASSUME QueueInv, OrderInv, [Next]_vars PROVE OrderInv'
    OBVIOUS
  <2>1. CASE UNCHANGED vars
    BY <2>1 DEF vars, queue, workerVars, sourceVars, history, OrderInv, Before
  <2>2. CASE Next
    BY <2>2, SourceKeepsOrder, WorkerKeepsOrder, ControlKeepsOrder DEF Next
  <2> QED BY <2>1, <2>2
<1>3. QueueInv /\ OrderInv => InOrder
  <2> SUFFICES ASSUME QueueInv, OrderInv PROVE InOrder
    OBVIOUS
  <2>1. /\ m_List \in Seq(Int) /\ m_ppSamples \in Seq(Int)
        /\ sending \in Seq(Int) /\ hand \in Seq(Int)
    BY IntSequences DEF QueueInv
  <2> DEFINE s == sending \o m_ppSamples
             t == s \o m_List
  <2>2. s \in Seq(Int) /\ t \in Seq(Int)
    BY <2>1, ConcatProperties
  <2>3. Ordered(s) /\ SamplesOf(s) = SamplesOf(sending) \cup SamplesOf(m_ppSamples)
    BY <2>1, OrderedConcat DEF OrderInv
  <2> HIDE DEF s
  <2>4. Ordered(t) /\ SamplesOf(t) = SamplesOf(s) \cup SamplesOf(m_List)
    <3>1. Before(s, m_List)
      BY <2>3 DEF OrderInv, Before
    <3> QED BY <2>1, <2>2, <2>3, <3>1, OrderedConcat DEF OrderInv
  <2> HIDE DEF t
  <2>5. Before(t, hand)
    BY <2>3, <2>4 DEF OrderInv, Before
  <2>6. Ordered(t \o hand)
    BY <2>1, <2>2, <2>4, <2>5, OrderedConcat DEF OrderInv
  <2> QED BY <2>6 DEF InOrder, s, t
<1>4. Spec /\ ResetsSafely => [](QueueInv /\ OrderInv)
  BY <1>1, <1>2, QueueInit, QueueStepKeeps, QueueInvAlways, PTL DEF Spec
<1>5. QueueInv /\ OrderInv /\ NothingOld => StreamKept
  BY <1>3 DEF StreamKept
<1> QED BY <1>4, <1>5, QueueNothingOld, PTL
=============================================================================
