-------------------------- MODULE SubtitleCoreProofs --------------------------
(***************************************************************************)
(* What TLAPS proves of two parts of the subtitle core: of TextDrawing,    *)
(* for any number of renderers and filters, callbacks and references, and  *)
(* of FilterConfiguration, the settings in the registry, for any number of *)
(* processes and settings.                                                 *)
(***************************************************************************)
EXTENDS TextDrawing, FilterConfiguration, TLAPS

(* An entry is drawn by a renderer that is alive, and only a collection's  *)
(* references are counted or held.                                         *)
Drawing ==
  \A r \in Renderers :
    /\ pc[r] # "idle" => life[r] = "alive"
    /\ pc[r] \notin {"idle", "drawing"} => r \in collections
    /\ pc[r] = "idle" => left[r] = 0 /\ held[r] = 0
    /\ r \notin collections => m_uRefCount[r] = 0 /\ held[r] = 0
    /\ r \in collections => life[r] # "unmade"
    /\ life[r] = "unmade" => drawn[r] = {}

(* What r's collection is owed: the renderer's reference, the layout's and, *)
(* once every callback of the entry has come, that of the first of them,    *)
(* which EndEntry is going to release.                                      *)
LastCallback(r) == pc[r] # "idle" /\ left[r] = 0
Owed(r) == 1 + held[r] + (IF LastCallback(r) THEN 1 ELSE 0)

(* The references of a collection cover what it is owed, and are no more   *)
(* than that if each entry took one callback.                              *)
CoveredOf(r) ==
  /\ 0 \notin drawn[r] => m_uRefCount[r] >= Owed(r)
  /\ drawn[r] \subseteq {1} => m_uRefCount[r] = Owed(r) /\ left[r] <= 1

Covered == \A r \in collections : life[r] = "alive" => CoveredOf(r)

(* The cache and the effects about to be rendered are those of renderers   *)
(* which the process has made.                                             *)
EffectsMade ==
  /\ m_RendererCache # None => life[m_RendererCache] # "unmade"
  /\ \A r \in Renderers :
       /\ m_pEffect[r] # None => life[m_pEffect[r]] # "unmade"
       /\ pc[r] = "rendering" => m_pEffect[r] # None
       /\ pc[r] = "returning" => m_RendererCache # None

DrawingInv == TypeOK /\ Drawing /\ Covered /\ PlainIsFreed /\ EffectsMade /\ SingleIsSound

-----------------------------------------------------------------------------
LEMMA DrawingInvInit == Init => DrawingInv
<1> SUFFICES ASSUME Init PROVE DrawingInv
  OBVIOUS
<1>1. ~undefined /\ undefined \in BOOLEAN
  BY Zenon DEF Init
<1>2. TypeOK
  BY <1>1 DEF Init, TypeOK
<1>3. Drawing /\ Covered /\ PlainIsFreed
  BY DEF Init, Drawing, Covered, PlainIsFreed
<1>4. EffectsMade
  BY DrawingAssumption DEF Init, EffectsMade
<1>5. SingleIsSound
  BY <1>1 DEF SingleIsSound
<1> QED BY <1>2, <1>3, <1>4, <1>5 DEF DrawingInv

(* The count stays a count, and is defined where it covers what is done.   *)
LEMMA AddRefEffect ==
  ASSUME TypeOK, NEW r \in Renderers, NEW n \in Nat, AddRef(r, n)
  PROVE  /\ m_uRefCount' \in [Renderers -> Nat]
         /\ undefined' \in BOOLEAN
         /\ m_uRefCount[r] > 0 \/ n = 0 => undefined' = undefined
<1>1. CASE m_uRefCount[r] > 0 \/ n = 0
  <2>1. m_uRefCount' = [m_uRefCount EXCEPT ![r] = @ + n] /\ undefined' = undefined
    BY <1>1 DEF AddRef
  <2>2. m_uRefCount' \in [Renderers -> Nat]
    BY <2>1 DEF TypeOK
  <2> QED BY <2>1, <2>2, Zenon DEF TypeOK
<1>2. CASE ~(m_uRefCount[r] > 0 \/ n = 0)
  <2>1. m_uRefCount' = m_uRefCount /\ undefined' = TRUE
    BY <1>2 DEF AddRef
  <2> QED BY <1>2, <2>1, Zenon DEF TypeOK
<1> QED BY <1>1, <1>2

LEMMA ReleaseEffect ==
  ASSUME TypeOK, NEW r \in Renderers, NEW n \in Nat, Release(r, n)
  PROVE  /\ m_uRefCount' \in [Renderers -> Nat]
         /\ undefined' \in BOOLEAN
         /\ m_uRefCount[r] >= n => undefined' = undefined
<1>1. CASE m_uRefCount[r] >= n
  <2>1. m_uRefCount' = [m_uRefCount EXCEPT ![r] = @ - n] /\ undefined' = undefined
    BY <1>1 DEF Release
  <2>2. m_uRefCount' \in [Renderers -> Nat]
    BY <1>1, <2>1 DEF TypeOK
  <2> QED BY <2>1, <2>2, Zenon DEF TypeOK
<1>2. CASE ~(m_uRefCount[r] >= n)
  <2>1. m_uRefCount' = m_uRefCount /\ undefined' = TRUE
    BY <1>2 DEF Release
  <2> QED BY <1>2, <2>1, Zenon DEF TypeOK
<1> QED BY <1>1, <1>2

(* Each step preserves the invariant. *)
LEMMA DrawingInvStep == DrawingInv /\ [Next]_vars => DrawingInv'
<1> SUFFICES ASSUME DrawingInv, [Next]_vars PROVE DrawingInv'
  OBVIOUS
<1> USE DrawingAssumption DEF DrawingInv
<1>1. CASE UNCHANGED vars
  BY <1>1 DEF vars, entry, TypeOK, Drawing, Covered, CoveredOf, Owed, LastCallback,
    PlainIsFreed,
    EffectsMade, SingleIsSound
<1>2. ASSUME ~undefined, NEW r \in Renderers, MakeRenderer(r)
      PROVE DrawingInv'
  <2>1. TypeOK'
    BY <1>2 DEF MakeRenderer, entry, TypeOK
  <2>2. Drawing'
    BY <1>2 DEF MakeRenderer, entry, Drawing, TypeOK
  <2>3. Covered'
    BY <1>2 DEF MakeRenderer, entry, Covered, CoveredOf, Owed, LastCallback, Drawing,
      TypeOK
  <2>4. PlainIsFreed'
    BY <1>2 DEF MakeRenderer, entry, PlainIsFreed, Covered, CoveredOf, Owed,
      LastCallback, Drawing, TypeOK
  <2>5. EffectsMade'
    BY <1>2 DEF MakeRenderer, entry, EffectsMade, Drawing, TypeOK
  <2>6. SingleIsSound'
    BY <1>2 DEF MakeRenderer, entry, SingleIsSound, EffectsMade, Covered, CoveredOf,
      Owed, LastCallback, Drawing, TypeOK
  <2> QED BY <2>1, <2>2, <2>3, <2>4, <2>5, <2>6
<1>3. ASSUME ~undefined, NEW r \in Renderers, DestroyRenderer(r)
      PROVE DrawingInv'
  <2> DEFINE k == IF r \in collections THEN 1 ELSE 0
  <2>0. /\ k \in Nat /\ Release(r, k)
        /\ m_uRefCount' \in [Renderers -> Nat] /\ undefined' \in BOOLEAN
    <3>1. k \in Nat /\ Release(r, k)
      BY <1>3 DEF DestroyRenderer, TypeOK
    <3> QED BY <3>1, ReleaseEffect
  <2>1. TypeOK'
    BY <1>3, <2>0 DEF DestroyRenderer, entry, TypeOK
  <2>2. Drawing'
    BY <1>3 DEF DestroyRenderer, Release, entry, Drawing, TypeOK
  <2>3. Covered'
    BY <1>3 DEF DestroyRenderer, Release, entry, Covered, CoveredOf, Owed,
      LastCallback, Drawing, TypeOK
  <2>4. PlainIsFreed'
    BY <1>3 DEF DestroyRenderer, Release, entry, PlainIsFreed, Covered, CoveredOf,
      Owed, LastCallback, Drawing, TypeOK
  <2>5. EffectsMade'
    BY <1>3 DEF DestroyRenderer, Release, entry, EffectsMade, Drawing, TypeOK
  <2>6. SingleIsSound'
    <3>1. CASE 0 \in drawn[r]
      BY <1>3, <3>1 DEF DestroyRenderer, entry, SingleIsSound, TypeOK
    <3>2. CASE 0 \notin drawn[r]
      <4>1. m_uRefCount[r] >= k
        BY <1>3, <3>2 DEF DestroyRenderer, Covered, CoveredOf, Owed, LastCallback,
          Drawing, TypeOK
      <4>2. ~undefined'
        BY <1>3, <2>0, <4>1, ReleaseEffect
      <4> QED BY <4>2 DEF SingleIsSound
    <3> QED BY <3>1, <3>2
  <2> QED BY <2>1, <2>2, <2>3, <2>4, <2>5, <2>6
<1>4. ASSUME ~undefined, NEW r \in Renderers, NEW n \in Callbacks, NEW h \in 0 .. MaxHeld,
             BeginEntry(r, n, h)
      PROVE DrawingInv'
  <2> DEFINE k == h
  <2>0. /\ k \in Nat /\ AddRef(r, k)
        /\ m_uRefCount' \in [Renderers -> Nat] /\ undefined' \in BOOLEAN
    <3>1. k \in Nat /\ AddRef(r, k)
      BY <1>4 DEF BeginEntry, TypeOK
    <3> QED BY <3>1, AddRefEffect
  <2>1. TypeOK'
    BY <1>4, <2>0 DEF BeginEntry, entry, TypeOK
  <2>2. Drawing'
    BY <1>4 DEF BeginEntry, AddRef, entry, Drawing, TypeOK
  <2>3. Covered'
    <3> SUFFICES ASSUME NEW s \in collections, life[s] = "alive"
                 PROVE  CoveredOf(s)'
      BY <1>4 DEF BeginEntry, Covered
    <3>1. CASE s # r
      BY <1>4, <3>1 DEF BeginEntry, AddRef, Covered, CoveredOf, Owed, LastCallback,
        Drawing, TypeOK
    <3>2. CASE s = r
      <4>1. /\ held[r] = 0 /\ pc'[r] = "drawing" /\ left'[r] = n /\ held'[r] = h
            /\ drawn'[r] = drawn[r] \cup {n} /\ n \in Nat
        BY <1>4 DEF BeginEntry, Drawing, TypeOK
      <4>2. 0 \notin drawn[r] => m_uRefCount[r] > 0 /\ m_uRefCount'[r] = m_uRefCount[r] + h
        BY <1>4, <3>2 DEF BeginEntry, AddRef, Covered, CoveredOf, Owed, LastCallback,
          Drawing, TypeOK
      <4>3. drawn[r] \subseteq {1} => m_uRefCount[r] = 1
        BY <1>4, <3>2 DEF BeginEntry, Covered, CoveredOf, Owed, LastCallback, Drawing,
          TypeOK
      <4>4. 0 \notin drawn'[r] => m_uRefCount'[r] >= Owed(r)'
        BY <3>2, <4>1, <4>2 DEF Owed, LastCallback, TypeOK
      <4>5. drawn'[r] \subseteq {1} => m_uRefCount'[r] = Owed(r)' /\ left'[r] <= 1
        BY <3>2, <4>1, <4>2, <4>3 DEF Owed, LastCallback, TypeOK
      <4> QED BY <3>2, <4>4, <4>5 DEF CoveredOf
    <3> QED BY <3>1, <3>2
  <2>4. PlainIsFreed'
    BY <1>4 DEF BeginEntry, AddRef, entry, PlainIsFreed, Covered, CoveredOf, Owed,
      LastCallback, Drawing, TypeOK
  <2>5. EffectsMade'
    BY <1>4 DEF BeginEntry, AddRef, entry, EffectsMade, Drawing, TypeOK
  <2>6. SingleIsSound'
    <3>1. CASE 0 \in drawn[r]
      BY <1>4, <3>1 DEF BeginEntry, entry, SingleIsSound, TypeOK
    <3>2. CASE 0 \notin drawn[r]
      <4>1. m_uRefCount[r] > 0 \/ k = 0
        BY <1>4, <3>2 DEF BeginEntry, Covered, CoveredOf, Owed, LastCallback, Drawing,
          TypeOK
      <4>2. ~undefined'
        BY <1>4, <2>0, <4>1, AddRefEffect
      <4> QED BY <4>2 DEF SingleIsSound
    <3> QED BY <3>1, <3>2
  <2> QED BY <2>1, <2>2, <2>3, <2>4, <2>5, <2>6
<1>5. ASSUME ~undefined, NEW r \in Renderers, DrawWithBrush(r)
      PROVE DrawingInv'
  <2>1. TypeOK'
    BY <1>5 DEF DrawWithBrush, entry, TypeOK
  <2>2. Drawing'
    BY <1>5 DEF DrawWithBrush, entry, Drawing, TypeOK
  <2>3. Covered'
    BY <1>5 DEF DrawWithBrush, entry, Covered, CoveredOf, Owed, LastCallback, Drawing,
      TypeOK
  <2>4. PlainIsFreed'
    BY <1>5 DEF DrawWithBrush, entry, PlainIsFreed, Covered, CoveredOf, Owed,
      LastCallback, Drawing, TypeOK
  <2>5. EffectsMade'
    BY <1>5 DEF DrawWithBrush, entry, EffectsMade, Drawing, TypeOK
  <2>6. SingleIsSound'
    BY <1>5 DEF DrawWithBrush, entry, SingleIsSound, EffectsMade, Covered, CoveredOf,
      Owed, LastCallback, Drawing, TypeOK
  <2> QED BY <2>1, <2>2, <2>3, <2>4, <2>5, <2>6
<1>6. ASSUME ~undefined, NEW r \in Renderers, QueryInterface(r)
      PROVE DrawingInv'
  <2> DEFINE k == 1
  <2>0. /\ k \in Nat /\ AddRef(r, k)
        /\ m_uRefCount' \in [Renderers -> Nat] /\ undefined' \in BOOLEAN
    <3>1. k \in Nat /\ AddRef(r, k)
      BY <1>6 DEF QueryInterface, TypeOK
    <3> QED BY <3>1, AddRefEffect
  <2>1. TypeOK'
    <3>1. left' \in [Renderers -> Nat]
      BY <1>6 DEF QueryInterface, TypeOK
    <3>2. pc' \in [Renderers ->
            {"idle", "drawing", "looking", "storing", "returning", "rendering"}]
      BY <1>6 DEF QueryInterface, TypeOK
    <3> QED BY <1>6, <2>0, <3>1, <3>2 DEF QueryInterface, TypeOK
  <2>2. Drawing'
    BY <1>6 DEF QueryInterface, AddRef, entry, Drawing, TypeOK
  <2>3. Covered'
    BY <1>6 DEF QueryInterface, AddRef, entry, Covered, CoveredOf, Owed, LastCallback,
      Drawing, TypeOK
  <2>4. PlainIsFreed'
    BY <1>6 DEF QueryInterface, AddRef, entry, PlainIsFreed, Covered, CoveredOf, Owed,
      LastCallback, Drawing, TypeOK
  <2>5. EffectsMade'
    BY <1>6 DEF QueryInterface, AddRef, entry, EffectsMade, Drawing, TypeOK
  <2>6. SingleIsSound'
    <3>1. CASE 0 \in drawn[r]
      BY <1>6, <3>1 DEF QueryInterface, entry, SingleIsSound, TypeOK
    <3>2. CASE 0 \notin drawn[r]
      <4>1. m_uRefCount[r] > 0 \/ k = 0
        BY <1>6, <3>2 DEF QueryInterface, Covered, CoveredOf, Owed, LastCallback,
          Drawing, TypeOK
      <4>2. ~undefined'
        BY <1>6, <2>0, <4>1, AddRefEffect
      <4> QED BY <4>2 DEF SingleIsSound
    <3> QED BY <3>1, <3>2
  <2> QED BY <2>1, <2>2, <2>3, <2>4, <2>5, <2>6
<1>7. ASSUME ~undefined, NEW r \in Renderers, Lookup(r)
      PROVE DrawingInv'
  <2>1. TypeOK'
    BY <1>7 DEF Lookup, Race, entry, TypeOK
  <2>2. Drawing'
    BY <1>7 DEF Lookup, Race, entry, Drawing, TypeOK
  <2>3. Covered'
    BY <1>7 DEF Lookup, Race, entry, Covered, CoveredOf, Owed, LastCallback, Drawing,
      TypeOK
  <2>4. PlainIsFreed'
    BY <1>7 DEF Lookup, Race, entry, PlainIsFreed, Covered, CoveredOf, Owed,
      LastCallback, Drawing, TypeOK
  <2>5. EffectsMade'
    BY <1>7 DEF Lookup, Race, entry, EffectsMade, Drawing, TypeOK
  <2>6. SingleIsSound'
    BY <1>7 DEF Lookup, Race, entry, SingleIsSound, EffectsMade, Covered, CoveredOf,
      Owed, LastCallback, Drawing, TypeOK
  <2> QED BY <2>1, <2>2, <2>3, <2>4, <2>5, <2>6
<1>8. ASSUME ~undefined, NEW r \in Renderers, Store(r)
      PROVE DrawingInv'
  <2>1. TypeOK'
    BY <1>8 DEF Store, Race, entry, TypeOK
  <2>2. Drawing'
    BY <1>8 DEF Store, Race, entry, Drawing, TypeOK
  <2>3. Covered'
    BY <1>8 DEF Store, Race, entry, Covered, CoveredOf, Owed, LastCallback, Drawing,
      TypeOK
  <2>4. PlainIsFreed'
    BY <1>8 DEF Store, Race, entry, PlainIsFreed, Covered, CoveredOf, Owed,
      LastCallback, Drawing, TypeOK
  <2>5. EffectsMade'
    BY <1>8 DEF Store, Race, entry, EffectsMade, Drawing, TypeOK
  <2>6. SingleIsSound'
    BY <1>8 DEF Store, Race, entry, SingleIsSound, EffectsMade, Covered, CoveredOf,
      Owed, LastCallback, Drawing, TypeOK
  <2> QED BY <2>1, <2>2, <2>3, <2>4, <2>5, <2>6
<1>9. ASSUME ~undefined, NEW r \in Renderers, Return(r)
      PROVE DrawingInv'
  <2>1. TypeOK'
    BY <1>9 DEF Return, Race, entry, TypeOK
  <2>2. Drawing'
    BY <1>9 DEF Return, Race, entry, Drawing, TypeOK
  <2>3. Covered'
    BY <1>9 DEF Return, Race, entry, Covered, CoveredOf, Owed, LastCallback, Drawing,
      TypeOK
  <2>4. PlainIsFreed'
    BY <1>9 DEF Return, Race, entry, PlainIsFreed, Covered, CoveredOf, Owed,
      LastCallback, Drawing, TypeOK
  <2>5. EffectsMade'
    BY <1>9 DEF Return, Race, entry, EffectsMade, Drawing, TypeOK
  <2>6. SingleIsSound'
    BY <1>9 DEF Return, Race, entry, SingleIsSound, EffectsMade, Covered, CoveredOf,
      Owed, LastCallback, Drawing, TypeOK
  <2> QED BY <2>1, <2>2, <2>3, <2>4, <2>5, <2>6
<1>10. ASSUME ~undefined, NEW r \in Renderers, RenderEffect(r)
      PROVE DrawingInv'
  <2>1. TypeOK'
    BY <1>10 DEF RenderEffect, Readable, entry, TypeOK
  <2>2. Drawing'
    BY <1>10 DEF RenderEffect, Readable, entry, Drawing, TypeOK
  <2>3. Covered'
    BY <1>10 DEF RenderEffect, Readable, entry, Covered, CoveredOf, Owed,
      LastCallback, Drawing, TypeOK
  <2>4. PlainIsFreed'
    BY <1>10 DEF RenderEffect, Readable, entry, PlainIsFreed, Covered, CoveredOf,
      Owed, LastCallback, Drawing, TypeOK
  <2>5. EffectsMade'
    BY <1>10 DEF RenderEffect, Readable, entry, EffectsMade, Drawing, TypeOK
  <2>6. SingleIsSound'
    <3> DEFINE s == m_pEffect[r]
    <3>1. s \in Renderers /\ life[s] # "unmade" /\ life[r] = "alive" /\ r \in collections
      BY <1>10 DEF RenderEffect, EffectsMade, Drawing, TypeOK
    <3>2. CASE s # r \/ 0 \in drawn[r]
      BY <1>10, <3>1, <3>2 DEF RenderEffect, SingleIsSound
    <3>3. CASE s = r /\ 0 \notin drawn[r]
      <4>1. Readable(s)
        BY <3>1, <3>3 DEF Readable, Covered, CoveredOf, Owed, LastCallback, Drawing,
          TypeOK
      <4>2. ~undefined'
        BY <1>10, <4>1 DEF RenderEffect
      <4> QED BY <4>2 DEF SingleIsSound
    <3> QED BY <3>2, <3>3
  <2> QED BY <2>1, <2>2, <2>3, <2>4, <2>5, <2>6
<1>11. ASSUME ~undefined, NEW r \in Renderers, EndEntry(r)
      PROVE DrawingInv'
  <2> DEFINE k == IF r \in collections THEN 1 + held[r] ELSE 0
  <2>0. /\ k \in Nat /\ Release(r, k)
        /\ m_uRefCount' \in [Renderers -> Nat] /\ undefined' \in BOOLEAN
    <3>1. k \in Nat /\ Release(r, k)
      BY <1>11 DEF EndEntry, TypeOK
    <3> QED BY <3>1, ReleaseEffect
  <2>1. TypeOK'
    BY <1>11, <2>0 DEF EndEntry, entry, TypeOK
  <2>2. Drawing'
    BY <1>11 DEF EndEntry, Release, entry, Drawing, TypeOK
  <2>3. Covered'
    BY <1>11 DEF EndEntry, Release, entry, Covered, CoveredOf, Owed, LastCallback,
      Drawing, TypeOK
  <2>4. PlainIsFreed'
    BY <1>11 DEF EndEntry, Release, entry, PlainIsFreed, Covered, CoveredOf, Owed,
      LastCallback, Drawing, TypeOK
  <2>5. EffectsMade'
    BY <1>11 DEF EndEntry, Release, entry, EffectsMade, Drawing, TypeOK
  <2>6. SingleIsSound'
    <3>1. CASE 0 \in drawn[r]
      BY <1>11, <3>1 DEF EndEntry, entry, SingleIsSound, TypeOK
    <3>2. CASE 0 \notin drawn[r]
      <4>1. m_uRefCount[r] >= k
        BY <1>11, <3>2 DEF EndEntry, Covered, CoveredOf, Owed, LastCallback, Drawing,
          TypeOK
      <4>2. ~undefined'
        BY <1>11, <2>0, <4>1, ReleaseEffect
      <4> QED BY <4>2 DEF SingleIsSound
    <3> QED BY <3>1, <3>2
  <2> QED BY <2>1, <2>2, <2>3, <2>4, <2>5, <2>6
<1> QED
  BY <1>1, <1>2, <1>3, <1>4, <1>5, <1>6, <1>7, <1>8, <1>9, <1>10, <1>11 DEF Next

LEMMA DrawingInvariant == Spec => []DrawingInv
BY DrawingInvInit, DrawingInvStep, PTL DEF Spec

-----------------------------------------------------------------------------
(* Type correctness. *)
THEOREM DrawingTypeOK == Spec => []TypeOK
<1>1. DrawingInv => TypeOK
  BY DEF DrawingInv
<1> QED BY <1>1, DrawingInvariant, PTL

(* A renderer that is alive and whose texts had a glyph each is never      *)
(* without its effects.                                                    *)
THEOREM DrawingHolderKeepsAlive == Spec => []HolderKeepsAlive
<1>1. DrawingInv => HolderKeepsAlive
  BY DEF DrawingInv, Covered, CoveredOf, Owed, TypeOK, HolderKeepsAlive
<1> QED BY <1>1, DrawingInvariant, PTL

(* Texts of one callback each leave no reference behind. *)
THEOREM DrawingPlainIsFreed == Spec => []PlainIsFreed
<1>1. DrawingInv => PlainIsFreed
  BY DEF DrawingInv
<1> QED BY <1>1, DrawingInvariant, PTL

(* One renderer whose texts had a glyph each has defined behaviour. *)
THEOREM DrawingSingleIsSound == Spec => []SingleIsSound
<1>1. DrawingInv => SingleIsSound
  BY DEF DrawingInv
<1> QED BY <1>1, DrawingInvariant, PTL

-----------------------------------------------------------------------------
(***************************************************************************)
(* The settings.  Processes read, write and remove them at once; each call *)
(* to the registry is a step.  What a process may rely on between two of   *)
(* its calls is what AgreesInv and KeptInv say.                            *)
(***************************************************************************)
Inside == {"reading", "sized", "writing"}

Places == {"out", "loaded", "gone", "opening", "creating", "removing"} \cup Inside
Calls ==
  [at : Places, leaving : BOOLEAN, again : BOOLEAN, handle : Nat, next : Names, sized : Values]

ConfigurationTypeOK ==
  /\ key \in Nat /\ keys \in Nat /\ stored \in [Names -> Values \cup {absent}]
  /\ main \in [Processes -> Calls]
  /\ config \in [Processes -> [Names -> Values]]
  /\ changed \in [Processes -> BOOLEAN]
  /\ unlucky \in BOOLEAN

(* There are no values where there is no key. *)
KeyInv == key = 0 => stored = NoValues

(* Unless its values were changed: a process in DllMain has the key that   *)
(* there is, and agrees with it as far as it has read or written, and      *)
(* altogether once it has written.                                         *)
Agrees(p) ==
  /\ main[p].at \in Inside => main[p].handle = key
  /\ main[p].at \in {"reading", "writing"} =>
       \A n \in Names : n < main[p].next => config[p][n] = stored[n]
  /\ main[p].at = "sized" => \A n \in Names : n # FontName => config[p][n] = stored[n]
  /\ main[p].at = "loaded" \/ (main[p].again /\ main[p].at # "writing") => config[p] = stored

AgreesInv == \A p \in Processes : ~changed[p] => Agrees(p)

(* A process loads again only after it has written, reads and writes with  *)
(* a key it opened, and sizes the font's name when that is next.           *)
PhaseInv ==
  \A p \in Processes :
    /\ main[p].at \in Inside => main[p].handle # 0
    /\ main[p].again => main[p].at \in {"opening", "reading", "sized"}
    /\ main[p].at = "sized" => main[p].next = FontName

Before(n) == \A m \in 1 .. n : before[m] # absent

(* Of the settings that are to be kept, a process has what was there       *)
(* before, as far as it has read, and all when it writes.                  *)
Keeps(p) ==
  /\ main[p].at \in Inside => main[p].handle = key
  /\ \A n \in Names : Before(n) =>
       /\ main[p].at \in {"reading", "sized"} /\ n < main[p].next => config[p][n] = before[n]
       /\ main[p].at \in {"creating", "writing"} => config[p][n] = before[n]
       /\ main[p].at = "sized" /\ n = FontName => main[p].sized = before[n]

KeptInv ==
  ~unlucky =>
    /\ \A n \in Names : Before(n) => stored[n] = before[n]
    /\ Before(1) => \A p \in Processes : Keeps(p)

ConfigurationInv == ConfigurationTypeOK /\ KeyInv /\ PhaseInv /\ AgreesInv /\ KeptInv

-----------------------------------------------------------------------------
(* At first no process has loaded the DLL. *)
LEMMA ConfigurationInitial == ConfigurationInit => ConfigurationInv
<1> SUFFICES ASSUME ConfigurationInit PROVE ConfigurationInv
  OBVIOUS
<1> USE FilterConfigurationAssumption
     DEF ConfigurationInit, Outside, NoValues, Defaults, Names, FontName
<1>1. ConfigurationTypeOK
  <2>1. Outside("out") \in Calls
    BY DEF Calls, Places
  <2>2. Defaults \in [Names -> Values] /\ stored \in [Names -> Values \cup {absent}]
    OBVIOUS
  <2>3. main \in [Processes -> Calls] /\ config \in [Processes -> [Names -> Values]]
    BY <2>1, <2>2
  <2>4. changed \in [Processes -> BOOLEAN]
    OBVIOUS
  <2>5. key \in Nat /\ keys \in Nat
    OBVIOUS
  <2>6. unlucky \in BOOLEAN
    OBVIOUS
  <2> HIDE DEF ConfigurationInit
  <2> QED
    BY <2>2, <2>3, <2>4, <2>5, <2>6 DEF ConfigurationTypeOK
<1>2. KeyInv /\ PhaseInv
  BY DEF KeyInv, PhaseInv, Inside
<1>3. AgreesInv
  <2>1. \A p \in Processes : main[p].at = "out" /\ ~main[p].again
    OBVIOUS
  <2> QED
    BY <2>1 DEF AgreesInv, Agrees, Inside
<1>4. KeptInv
  <2>1. ~Before(1) /\ \A n \in Names : ~Before(n)
    BY DEF Before
  <2> QED
    BY <2>1 DEF KeptInv
<1> QED
  BY <1>1, <1>2, <1>3, <1>4 DEF ConfigurationInv

(* A step of DllMain in process p takes it to call c. *)
Goes(p, c) ==
  /\ main' \in [Processes -> Calls] /\ main'[p] = c
  /\ \A q \in Processes : q # p => main'[q] = main[q]

LEMMA Gone ==
  ASSUME main \in [Processes -> Calls], NEW p \in Processes, NEW c \in Calls,
         main' = [main EXCEPT ![p] = c]
  PROVE  Goes(p, c)
BY DEF Goes

(* DllMain of p has returned, and the process uses the settings if it has  *)
(* the DLL. *)
Returns(p, settings) ==
  /\ \E where \in {"gone", "loaded"} : Goes(p, Outside(where))
  /\ main'[p].at = "loaded" => config'[p] = settings /\ changed' = changed
  /\ config' \in [Processes -> [Names -> Values]]
  /\ changed' \in [Processes -> BOOLEAN]
  /\ \A q \in Processes : q # p => config'[q] = config[q] /\ changed'[q] = changed[q]

LEMMA LeaveReturns ==
  ASSUME ConfigurationTypeOK, NEW p \in Processes, NEW settings \in [Names -> Values],
         Leave(p, settings)
  PROVE  Returns(p, settings)
<1> USE DEF ConfigurationTypeOK
<1>1. Outside("gone") \in Calls /\ Outside("loaded") \in Calls
  BY FilterConfigurationAssumption DEF Outside, Calls, Places, Names
<1>2. Defaults \in [Names -> Values]
  BY FilterConfigurationAssumption DEF Defaults
<1>3. CASE main[p].leaving
  <2>1. Goes(p, Outside("gone"))
    BY <1>1, <1>3, Gone DEF Leave
  <2>2. main'[p].at # "loaded"
    BY <2>1 DEF Goes, Outside
  <2> QED
    BY <1>2, <1>3, <2>1, <2>2 DEF Leave, Returns
<1>4. CASE ~main[p].leaving
  <2>1. Goes(p, Outside("loaded"))
    BY <1>1, <1>4, Gone DEF Leave
  <2> QED
    BY <1>4, <2>1 DEF Leave, Returns, Goes
<1> QED
  BY <1>3, <1>4

(* What a failure to load leads to. *)
Fails(p) ==
  \/ main[p].again /\ Returns(p, config[p])
  \/ ~main[p].again /\ Goes(p, [main[p] EXCEPT !.at = "creating"]) /\ UNCHANGED <<config,
       changed>>

LEMMA LoadFailsFails ==
  ASSUME ConfigurationTypeOK, NEW p \in Processes, LoadFails(p)
  PROVE  Fails(p)
<1> USE DEF ConfigurationTypeOK
<1>1. CASE main[p].again
  BY <1>1, LeaveReturns DEF LoadFails, Fails
<1>2. CASE ~main[p].again
  <2>1. [main[p] EXCEPT !.at = "creating"] \in Calls
    BY DEF Calls, Places
  <2>2. main' = [main EXCEPT ![p] = [main[p] EXCEPT !.at = "creating"]]
    BY <1>2 DEF LoadFails
  <2> QED
    BY <1>2, <2>1, <2>2, Gone DEF LoadFails, Fails
<1> QED
  BY <1>1, <1>2

(* What the steps of DllMain do. *)
LEMMA EnterGoes ==
  ASSUME ConfigurationTypeOK, NEW p \in Processes, Enter(p)
  PROVE  \E where \in {"opening", "removing"} :
           Goes(p, [main[p] EXCEPT !.leaving = At(p, "loaded"), !.at = where])
<1> USE DEF ConfigurationTypeOK
<1> DEFINE where == IF At(p, "loaded") /\ p \in Unregistering THEN "removing" ELSE "opening"
           c == [main[p] EXCEPT !.leaving = At(p, "loaded"), !.at = where]
<1>1. At(p, "loaded") \in BOOLEAN
  BY DEF At
<1>2. c \in Calls
  BY <1>1 DEF Calls, Places
<1>3. Goes(p, c)
  BY <1>2, Gone DEF Enter
<1> QED
  BY <1>3

LEMMA OpenGoes ==
  ASSUME ConfigurationTypeOK, NEW p \in Processes, Open(p)
  PROVE  \/ /\ key # 0 /\ UNCHANGED <<config, changed>>
            /\ Goes(p, [main[p] EXCEPT !.at = "reading", !.handle = key, !.next = 1])
         \/ key = 0 /\ Fails(p)
<1> USE DEF ConfigurationTypeOK
<1> DEFINE c == [main[p] EXCEPT !.at = "reading", !.handle = key, !.next = 1]
<1>1. c \in Calls
  <2>1. 1 \in Names /\ "reading" \in Places
    BY FilterConfigurationAssumption DEF Places, Inside, Names
  <2> QED
    BY <2>1 DEF Calls
<1>2. ASSUME key # 0
      PROVE Goes(p, c)
  BY <1>1, <1>2, Gone DEF Open
<1> QED
  BY <1>2, LoadFailsFails DEF Open

LEMMA ReadValueGoes ==
  ASSUME ConfigurationTypeOK, NEW p \in Processes, ReadValue(p)
  PROVE  LET n == main[p].next IN
         \/ /\ HasValue(p, n) /\ n < FontName /\ UNCHANGED <<unlucky, changed>>
            /\ config' = [config EXCEPT ![p][n] = stored[n]]
            /\ Goes(p, [main[p] EXCEPT !.next = n + 1])
         \/ (unlucky' \/ ~HasValue(p, n)) /\ Fails(p)
<1> USE DEF ConfigurationTypeOK
<1> DEFINE n == main[p].next
<1>1. n \in Names
  BY DEF Calls
<1>2. PICK small \in BOOLEAN :
         /\ unlucky' = (unlucky \/ small)
         /\ IF HasValue(p, n) /\ ~small
            THEN /\ config' = [config EXCEPT ![p][n] = stored[n]]
                 /\ main' = [main EXCEPT ![p].next = n + 1] /\ UNCHANGED changed
            ELSE LoadFails(p)
  BY DEF ReadValue
<1>3. n # FontName
  BY DEF ReadValue
<1>4. CASE HasValue(p, n) /\ ~small
  <2>1. n + 1 \in Names /\ n < FontName
    BY <1>1, <1>3, FilterConfigurationAssumption DEF Names, FontName
  <2>2. [main[p] EXCEPT !.next = n + 1] \in Calls
    BY <2>1 DEF Calls
  <2>3. Goes(p, [main[p] EXCEPT !.next = n + 1])
    BY <1>2, <1>4, <2>2, Gone
  <2> QED
    BY <1>2, <1>4, <2>1, <2>3
<1>5. CASE ~(HasValue(p, n) /\ ~small)
  BY <1>2, <1>5, LoadFailsFails
<1> QED
  BY <1>4, <1>5

LEMMA ReadFontSizeGoes ==
  ASSUME ConfigurationTypeOK, NEW p \in Processes, ReadFontSize(p)
  PROVE  \/ /\ HasValue(p, FontName) /\ UNCHANGED <<config, changed>>
            /\ Goes(p, [main[p] EXCEPT !.at = "sized", !.sized = stored[FontName]])
         \/ ~HasValue(p, FontName) /\ Fails(p)
<1> USE DEF ConfigurationTypeOK
<1>1. CASE HasValue(p, FontName)
  <2>1. stored[FontName] \in Values
    BY <1>1, FilterConfigurationAssumption DEF HasValue, FontName, Names
  <2>2. [main[p] EXCEPT !.at = "sized", !.sized = stored[FontName]] \in Calls
    BY <2>1 DEF Calls, Places, Inside
  <2> QED
    BY <1>1, <2>2, Gone DEF ReadFontSize
<1>2. CASE ~HasValue(p, FontName)
  BY <1>2, LoadFailsFails DEF ReadFontSize
<1> QED
  BY <1>1, <1>2

LEMMA ReadFontNameGoes ==
  ASSUME ConfigurationTypeOK, NEW p \in Processes, ReadFontName(p)
  PROVE  \/ /\ HasValue(p, FontName)
            /\ Returns(p, [config[p] EXCEPT ![FontName] = stored[FontName]])
         \/ /\ ~(HasValue(p, FontName) /\ main[p].sized = stored[FontName])
            /\ Fails(p)
<1> USE DEF ConfigurationTypeOK
<1>1. CASE HasValue(p, FontName) /\ (stored[FontName] = long => main[p].sized = long)
  <2>1. stored[FontName] \in Values
    BY <1>1, FilterConfigurationAssumption DEF HasValue, FontName, Names
  <2>2. [config[p] EXCEPT ![FontName] = stored[FontName]] \in [Names -> Values]
    BY <2>1
  <2> QED
    BY <1>1, <2>2, LeaveReturns DEF ReadFontName
<1>2. CASE ~(HasValue(p, FontName) /\ (stored[FontName] = long => main[p].sized = long))
  BY <1>2, LoadFailsFails DEF ReadFontName
<1> QED
  BY <1>1, <1>2

LEMMA CreateGoes ==
  ASSUME ConfigurationTypeOK, KeyInv, NEW p \in Processes, Create(p)
  PROVE  /\ Goes(p, [main[p] EXCEPT !.at = "writing", !.handle = key', !.next = 1])
         /\ key' \in Nat \ {0} /\ keys' \in Nat /\ (key # 0 => key' = key) /\ stored' = stored
<1> USE DEF ConfigurationTypeOK
<1>1. key' \in Nat \ {0} /\ keys' \in Nat /\ (key # 0 => key' = key) /\ stored' = stored
  BY DEF Create, KeyInv, registry
<1>2. [main[p] EXCEPT !.at = "writing", !.handle = key', !.next = 1] \in Calls
  <2>1. 1 \in Names /\ "writing" \in Places
    BY FilterConfigurationAssumption DEF Places, Inside, Names
  <2> QED
    BY <1>1, <2>1 DEF Calls
<1> QED
  BY <1>1, <1>2, Gone DEF Create

LEMMA WriteValueGoes ==
  ASSUME ConfigurationTypeOK, NEW p \in Processes, WriteValue(p)
  PROVE  LET n == main[p].next IN
         /\ \/ n < Settings /\ Goes(p, [main[p] EXCEPT !.next = n + 1])
            \/ n = Settings /\ Goes(p, [main[p] EXCEPT !.at = "opening", !.again = TRUE])
         /\ stored' \in [Names -> Values \cup {absent}]
         /\ main[p].handle = key => stored' = [stored EXCEPT ![n] = config[p][n]]
         /\ main[p].handle # key => stored' = stored
         /\ changed' \in [Processes -> BOOLEAN]
         /\ \A q \in Processes : ~changed'[q] => ~changed[q]
         /\ \A q \in Processes : q # p /\ InProcess(q) /\ ~changed'[q] => stored' = stored
<1> USE DEF ConfigurationTypeOK
<1> DEFINE n == main[p].next
<1>1. n \in Names
  BY DEF Calls
<1>2. \/ n < Settings /\ Goes(p, [main[p] EXCEPT !.next = n + 1])
      \/ n = Settings /\ Goes(p, [main[p] EXCEPT !.at = "opening", !.again = TRUE])
  <2>1. CASE n < Settings
    <3>0. n + 1 \in Names
      BY <1>1, <2>1, FilterConfigurationAssumption DEF Names
    <3>1. [main[p] EXCEPT !.next = n + 1] \in Calls
      BY <3>0 DEF Calls
    <3> QED
      BY <2>1, <3>1, Gone DEF WriteValue
  <2>2. CASE ~(n < Settings)
    <3>1. [main[p] EXCEPT !.at = "opening", !.again = TRUE] \in Calls
      BY DEF Calls, Places
    <3>2. n = Settings
      BY <1>1, <2>2, FilterConfigurationAssumption DEF Names
    <3> QED
      BY <2>2, <3>1, <3>2, Gone DEF WriteValue
  <2> QED
    BY <2>1, <2>2
<1>3. config[p][n] \in Values
  BY <1>1
<1>4. /\ stored' \in [Names -> Values \cup {absent}]
      /\ main[p].handle = key => stored' = [stored EXCEPT ![n] = config[p][n]]
      /\ main[p].handle # key => stored' = stored
  BY <1>1, <1>3 DEF WriteValue, Written
<1>5. /\ changed' \in [Processes -> BOOLEAN]
      /\ \A q \in Processes : ~changed'[q] => ~changed[q]
      /\ \A q \in Processes : q # p /\ InProcess(q) /\ ~changed'[q] => stored' = stored
  BY DEF WriteValue, Changes, InProcess
<1> QED
  BY <1>2, <1>4, <1>5

LEMMA RemoveGoes ==
  ASSUME ConfigurationTypeOK, NEW p \in Processes, Remove(p)
  PROVE  /\ Goes(p, Outside("gone"))
         /\ config' \in [Processes -> [Names -> Values]]
         /\ changed' \in [Processes -> BOOLEAN]
         /\ \A q \in Processes : q # p /\ InProcess(q) => changed'[q]
<1> USE DEF ConfigurationTypeOK
<1>1. Outside("gone") \in Calls
  BY FilterConfigurationAssumption DEF Outside, Calls, Places, Names
<1>2. Goes(p, Outside("gone"))
  BY <1>1, Gone DEF Remove
<1>3. Defaults \in [Names -> Values]
  BY FilterConfigurationAssumption DEF Defaults
<1>4. /\ changed' \in [Processes -> BOOLEAN]
      /\ \A q \in Processes : q # p /\ InProcess(q) => changed'[q]
  BY DEF Remove, InProcess
<1> QED
  BY <1>2, <1>3, <1>4 DEF Remove

-----------------------------------------------------------------------------
(* Every step keeps the type. *)
LEMMA ConfigurationTypeKept ==
  ASSUME ConfigurationTypeOK, KeyInv, [ConfigurationNext]_configurationVars
  PROVE  ConfigurationTypeOK'
<1> USE DEF ConfigurationTypeOK, registry, Goes
<1>1. ASSUME NEW p \in Processes, Enter(p)
      PROVE ConfigurationTypeOK'
  BY <1>1, EnterGoes DEF Enter
<1>2. ASSUME NEW p \in Processes, Fails(p)
      PROVE /\ main' \in [Processes -> Calls] /\ config' \in [Processes -> [Names -> Values]]
            /\ changed' \in [Processes -> BOOLEAN]
  BY <1>2 DEF Fails, Returns
<1>3. ASSUME NEW p \in Processes, Open(p)
      PROVE ConfigurationTypeOK'
  BY <1>2, <1>3, OpenGoes DEF Open
<1>4. ASSUME NEW p \in Processes, ReadValue(p)
      PROVE ConfigurationTypeOK'
  <2> DEFINE n == main[p].next
  <2>1. n \in Names /\ (HasValue(p, n) => stored[n] \in Values)
    BY DEF Calls, HasValue
  <2>2. HasValue(p,
       n) => [config EXCEPT ![p][n] = stored[n]] \in [Processes -> [Names -> Values]]
    BY <2>1
  <2>3. UNCHANGED registry /\ unlucky' \in BOOLEAN
    BY <1>4 DEF ReadValue
  <2> QED
    BY <1>2, <1>4, <2>2, <2>3, ReadValueGoes
<1>5. ASSUME NEW p \in Processes, ReadFontSize(p)
      PROVE ConfigurationTypeOK'
  BY <1>2, <1>5, ReadFontSizeGoes DEF ReadFontSize
<1>6. ASSUME NEW p \in Processes, ReadFontName(p)
      PROVE ConfigurationTypeOK'
  BY <1>2, <1>6, ReadFontNameGoes DEF ReadFontName, Returns
<1>7. ASSUME NEW p \in Processes, Create(p)
      PROVE ConfigurationTypeOK'
  BY <1>7, CreateGoes DEF Create
<1>8. ASSUME NEW p \in Processes, WriteValue(p)
      PROVE ConfigurationTypeOK'
  <2>1. main' \in [Processes -> Calls] /\ stored' \in [Names -> Values \cup {absent}]
        /\ changed' \in [Processes -> BOOLEAN]
    BY <1>8, WriteValueGoes
  <2> QED
    BY <1>8, <2>1 DEF WriteValue
<1>9. ASSUME NEW p \in Processes, Remove(p)
      PROVE ConfigurationTypeOK'
  <2>1. NoValues \in [Names -> Values \cup {absent}]
    BY DEF NoValues
  <2> QED
    BY <1>9, <2>1, RemoveGoes DEF Remove
<1>10. ASSUME NEW n \in Names, NEW v \in Values \cup {absent}, Edit(n, v)
       PROVE ConfigurationTypeOK'
  BY <1>10 DEF Edit, InProcess
<1>11. CASE UNCHANGED configurationVars
  BY <1>11 DEF configurationVars
<1> QED
  BY <1>1, <1>3, <1>4, <1>5, <1>6, <1>7, <1>8, <1>9, <1>10, <1>11 DEF ConfigurationNext

(* A key that is created or removed has no values. *)
LEMMA KeyKept ==
  ASSUME ConfigurationTypeOK, KeyInv, PhaseInv, [ConfigurationNext]_configurationVars
  PROVE  KeyInv'
<1> USE DEF KeyInv, registry
<1>1. ASSUME NEW p \in Processes, Create(p)
      PROVE KeyInv'
  BY <1>1, CreateGoes
<1>2. ASSUME NEW p \in Processes, WriteValue(p)
      PROVE KeyInv'
  <2>1. main[p].handle # 0
    BY <1>2 DEF WriteValue, At, PhaseInv, Inside
  <2> QED
    BY <1>2, <2>1, WriteValueGoes DEF WriteValue
<1> QED
  BY <1>1, <1>2
       DEF ConfigurationNext, Enter, Open, ReadValue, ReadFontSize, ReadFontName, Remove,
       Edit, configurationVars

(* Every step keeps the phases. *)
LEMMA PhaseKept ==
  ASSUME ConfigurationTypeOK, KeyInv, PhaseInv, [ConfigurationNext]_configurationVars
  PROVE  PhaseInv'
<1> USE DEF PhaseInv, Inside, At
<1> DEFINE Fine(c) == /\ c.at \in Inside => c.handle # 0
                      /\ c.again => c.at \in {"opening", "reading", "sized"}
                      /\ c.at = "sized" => c.next = FontName
<1>1. \A p \in Processes : main[p] \in Calls
  BY DEF ConfigurationTypeOK
<1>2. ASSUME NEW p \in Processes, NEW c, Goes(p, c), Fine(c)
      PROVE PhaseInv'
  BY <1>2 DEF Goes
<1>3. \A where \in {"gone", "loaded"} : Fine(Outside(where))
  BY DEF Outside
<1>4. ASSUME NEW p \in Processes, Fails(p)
      PROVE PhaseInv'
  <2>1. CASE main[p].again
    BY <1>2, <1>3, <1>4, <2>1 DEF Fails, Returns
  <2>2. CASE ~main[p].again
    <3>1. Fine([main[p] EXCEPT !.at = "creating"])
      BY <1>1, <2>2 DEF Calls
    <3> QED
      BY <1>2, <1>4, <2>2, <3>1 DEF Fails
  <2> QED
    BY <2>1, <2>2
<1>5. ASSUME NEW p \in Processes, Enter(p)
      PROVE PhaseInv'
  <2>1. ~main[p].again
    BY <1>5 DEF Enter
  <2>2. \A where \in {"opening", "removing"} :
          Fine([main[p] EXCEPT !.leaving = At(p, "loaded"), !.at = where])
    BY <1>1, <2>1 DEF Calls
  <2> QED
    BY <1>2, <1>5, <2>2, EnterGoes
<1>6. ASSUME NEW p \in Processes, Open(p)
      PROVE PhaseInv'
  <2>1. key # 0 => Fine([main[p] EXCEPT !.at = "reading", !.handle = key, !.next = 1])
    BY <1>1 DEF Calls
  <2> QED
    BY <1>2, <1>4, <1>6, <2>1, OpenGoes
<1>7. ASSUME NEW p \in Processes, ReadValue(p)
      PROVE PhaseInv'
  <2>1. Fine([main[p] EXCEPT !.next = main[p].next + 1])
    BY <1>1, <1>7 DEF Calls, ReadValue
  <2> QED
    BY <1>2, <1>4, <1>7, <2>1, ReadValueGoes
<1>8. ASSUME NEW p \in Processes, ReadFontSize(p)
      PROVE PhaseInv'
  <2>1. Fine([main[p] EXCEPT !.at = "sized", !.sized = stored[FontName]])
    BY <1>1, <1>8 DEF Calls, ReadFontSize
  <2> QED
    BY <1>2, <1>4, <1>8, <2>1, ReadFontSizeGoes
<1>9. ASSUME NEW p \in Processes, ReadFontName(p)
      PROVE PhaseInv'
  BY <1>2, <1>3, <1>4, <1>9, ReadFontNameGoes DEF Returns
<1>10. ASSUME NEW p \in Processes, Create(p)
       PROVE PhaseInv'
  <2>1. ~main[p].again /\ key' # 0
    BY <1>10, CreateGoes DEF Create
  <2>2. Fine([main[p] EXCEPT !.at = "writing", !.handle = key', !.next = 1])
    BY <1>1, <2>1 DEF Calls
  <2> QED
    BY <1>2, <1>10, <2>2, CreateGoes
<1>11. ASSUME NEW p \in Processes, WriteValue(p)
       PROVE PhaseInv'
  <2>1. Fine([main[p] EXCEPT !.next = main[p].next + 1])
        /\ Fine([main[p] EXCEPT !.at = "opening", !.again = TRUE])
    BY <1>1, <1>11 DEF Calls, WriteValue
  <2> QED
    BY <1>2, <1>11, <2>1, WriteValueGoes
<1>12. ASSUME NEW p \in Processes, Remove(p)
       PROVE PhaseInv'
  BY <1>2, <1>3, <1>12, RemoveGoes
<1>13. CASE (\E n \in Names, v \in Values \cup {absent} : Edit(n, v))
  \/ UNCHANGED configurationVars
  BY <1>13 DEF Edit, configurationVars
<1> QED
  BY <1>5, <1>6, <1>7, <1>8, <1>9, <1>10, <1>11, <1>12, <1>13 DEF ConfigurationNext

(* Every step keeps processes in agreement with the registry. *)
LEMMA AgreesKept ==
  ASSUME ConfigurationTypeOK, KeyInv, PhaseInv, AgreesInv, [ConfigurationNext]_configurationVars
  PROVE  AgreesInv'
<1> USE DEF AgreesInv, registry
<1>1. /\ \A p \in Processes : main[p] \in Calls /\ config[p] \in [Names -> Values]
      /\ stored \in [Names -> Values \cup {absent}] /\ FontName \in Names
      /\ FontName = Settings /\ Settings \in Nat /\ Names = 1 .. Settings
  BY FilterConfigurationAssumption DEF ConfigurationTypeOK, FontName, Names
<1>2. ASSUME NEW q \in Processes, main'[q] = main[q], config'[q] = config[q],
             ~changed[q], UNCHANGED <<key, stored>>
      PROVE  Agrees(q)'
  BY <1>2 DEF Agrees
<1>3. ASSUME NEW q \in Processes, main'[q] = main[q], ~InProcess(q)
      PROVE  PhaseInv => Agrees(q)'
  BY <1>3 DEF Agrees, Inside, InProcess, At, PhaseInv
<1>4. ASSUME NEW p \in Processes, \E where \in {"gone", "loaded"} : Goes(p, Outside(where)),
             main'[p].at = "loaded" => config'[p] = stored'
      PROVE  Agrees(p)'
  BY <1>4 DEF Agrees, Inside, Goes, Outside
<1>5. ASSUME NEW p \in Processes, Fails(p), main[p].at \in {"opening", "reading", "sized"},
             UNCHANGED <<key, stored>>
      PROVE  AgreesInv'
  <2>1. CASE main[p].again
    <3>1. Returns(p, config[p])
      BY <1>5, <2>1 DEF Fails
    <3>2. ~changed'[p] => Agrees(p)'
      <4>1. CASE main'[p].at = "loaded"
        BY <1>4, <1>5, <2>1, <3>1, <4>1 DEF Returns, Agrees
      <4>2. CASE main'[p].at # "loaded"
        BY <1>4, <3>1, <4>2 DEF Returns
      <4> QED
        BY <4>1, <4>2
    <3> QED
      BY <1>2, <1>5, <3>1, <3>2 DEF Returns, Goes
  <2>2. CASE ~main[p].again
    <3>1. Goes(p, [main[p] EXCEPT !.at = "creating"]) /\ UNCHANGED <<config, changed>>
      BY <1>5, <2>2 DEF Fails
    <3>2. Agrees(p)'
      BY <1>1, <2>2, <3>1 DEF Agrees, Goes, Calls, Inside
    <3> QED
      BY <1>2, <1>5, <3>1, <3>2 DEF Goes
  <2> QED
    BY <2>1, <2>2
<1>6. ASSUME NEW p \in Processes, Enter(p)
      PROVE AgreesInv'
  <2>1. PICK where \in {"opening", "removing"} :
          Goes(p, [main[p] EXCEPT !.leaving = At(p, "loaded"), !.at = where])
    BY <1>6, EnterGoes
  <2>2. ~main[p].again
    BY <1>6 DEF Enter, PhaseInv
  <2>3. Agrees(p)'
    BY <1>1, <2>1, <2>2 DEF Goes, Calls, Agrees, Inside
  <2>4. \A q \in Processes : q # p => changed'[q] = changed[q]
    BY <1>6 DEF Enter, ConfigurationTypeOK
  <2> QED
    BY <1>2, <1>6, <2>1, <2>3, <2>4 DEF Enter, Goes
<1>7. ASSUME NEW p \in Processes, Open(p)
      PROVE AgreesInv'
  <2>1. UNCHANGED <<key, stored>> /\ main[p].at = "opening"
    BY <1>7 DEF Open, At
  <2>2. CASE key = 0
    BY <1>5, <1>7, <2>1, <2>2, OpenGoes
  <2>3. CASE key # 0
    <3>1. Goes(p, [main[p] EXCEPT !.at = "reading", !.handle = key, !.next = 1])
          /\ UNCHANGED <<config, changed>>
      BY <1>7, <2>3, OpenGoes
    <3>2. ~changed[p] => Agrees(p)'
      BY <1>1, <2>1, <3>1 DEF Goes, Calls, Agrees, Inside
    <3> QED
      BY <1>2, <2>1, <3>1, <3>2 DEF Goes
  <2> QED
    BY <2>2, <2>3
<1>8. ASSUME NEW p \in Processes, ReadValue(p)
      PROVE AgreesInv'
  <2> DEFINE n == main[p].next
  <2>1. UNCHANGED <<key, stored>> /\ main[p].at = "reading" /\ n \in Names
    BY <1>1, <1>8 DEF ReadValue, At, Calls
  <2>2. CASE Fails(p)
    BY <1>5, <2>1, <2>2
  <2>3. CASE ~Fails(p)
    <3>1. /\ config' = [config EXCEPT ![p][n] = stored[n]] /\ changed' = changed
          /\ Goes(p, [main[p] EXCEPT !.next = n + 1])
      BY <1>8, <2>3, ReadValueGoes
    <3>2. /\ main'[p].at = "reading" /\ main'[p].next = n + 1
          /\ main'[p].handle = main[p].handle /\ main'[p].again = main[p].again
      BY <1>1, <2>1, <3>1 DEF Goes, Calls
    <3>3. /\ \A m \in Names : config'[p][m] = IF m = n THEN stored[n] ELSE config[p][m]
          /\ \A q \in Processes : q # p => config'[q] = config[q]
          /\ config'[p] = [config[p] EXCEPT ![n] = stored[n]]
      BY <2>1, <3>1 DEF ConfigurationTypeOK
    <3>4. ~changed[p] => Agrees(p)'
      <4> SUFFICES ASSUME ~changed[p] PROVE Agrees(p)'
        OBVIOUS
      <4>1. Agrees(p)
        OBVIOUS
      <4>2. ASSUME main[p].again
            PROVE  config'[p] = stored
        <5>1. config[p] = stored
          BY <2>1, <4>1, <4>2 DEF Agrees
        <5> QED
          BY <1>1, <2>1, <3>3, <5>1
      <4>3. ASSUME NEW m \in Names, m < n + 1
            PROVE  config'[p][m] = stored[m]
        BY <1>1, <2>1, <3>3, <4>1, <4>3 DEF Agrees
      <4> QED
        BY <2>1, <3>2, <4>1, <4>2, <4>3 DEF Agrees
    <3> QED
      BY <1>2, <2>1, <3>1, <3>3, <3>4 DEF Goes
  <2> QED
    BY <2>2, <2>3
<1>9. ASSUME NEW p \in Processes, ReadFontSize(p)
      PROVE AgreesInv'
  <2>1. UNCHANGED <<key, stored>> /\ main[p].at = "reading" /\ main[p].next = FontName
    BY <1>9 DEF ReadFontSize, At
  <2>2. CASE Fails(p)
    BY <1>5, <2>1, <2>2
  <2>3. CASE ~Fails(p)
    <3>1. /\ UNCHANGED <<config, changed>>
          /\ Goes(p, [main[p] EXCEPT !.at = "sized", !.sized = stored[FontName]])
      BY <1>9, <2>3, ReadFontSizeGoes
    <3>2. main'[p].at = "sized" /\ main'[p].again = main[p].again
          /\ main'[p].handle = main[p].handle
      BY <1>1, <3>1 DEF Goes, Calls
    <3>3. \A m \in Names : m # FontName => m < FontName
      BY <1>1
    <3>4. ~changed[p] => Agrees(p)'
      BY <2>1, <3>1, <3>2, <3>3 DEF Agrees, Inside
    <3> QED
      BY <1>2, <2>1, <3>1, <3>4 DEF Goes
  <2> QED
    BY <2>2, <2>3
<1>10. ASSUME NEW p \in Processes, ReadFontName(p)
       PROVE AgreesInv'
  <2>1. UNCHANGED <<key, stored>> /\ main[p].at = "sized"
    BY <1>10 DEF ReadFontName, At
  <2>2. CASE Fails(p)
    BY <1>5, <2>1, <2>2
  <2>3. CASE ~Fails(p)
    <3> DEFINE settings == [config[p] EXCEPT ![FontName] = stored[FontName]]
    <3>1. Returns(p, settings)
      BY <1>10, <2>3, ReadFontNameGoes
    <3>2. ASSUME main'[p].at = "loaded", ~changed'[p]
          PROVE  config'[p] = stored
      <4>1. config'[p] = settings /\ Agrees(p)
        BY <3>1, <3>2 DEF Returns
      <4>2. \A m \in Names : settings[m] = stored[m]
        BY <1>1, <2>1, <4>1 DEF Agrees
      <4> QED
        BY <1>1, <4>1, <4>2
    <3>3. ~changed'[p] => Agrees(p)'
      BY <1>4, <2>1, <3>1, <3>2 DEF Returns
    <3> QED
      BY <1>2, <2>1, <3>1, <3>3 DEF Returns, Goes
  <2> QED
    BY <2>2, <2>3
<1>11. ASSUME NEW p \in Processes, Create(p)
       PROVE AgreesInv'
  <2>1. /\ Goes(p, [main[p] EXCEPT !.at = "writing", !.handle = key', !.next = 1])
        /\ (key # 0 => key' = key) /\ stored' = stored /\ UNCHANGED <<config, changed>>
    BY <1>11, CreateGoes DEF Create
  <2>2. main'[p].at = "writing" /\ main'[p].handle = key' /\ main'[p].next = 1
    BY <1>1, <2>1 DEF Goes, Calls
  <2>3. Agrees(p)'
    BY <1>1, <2>2 DEF Agrees, Inside
  <2>4. ASSUME NEW q \in Processes, q # p, ~changed[q]
        PROVE  Agrees(q)'
    <3>1. main'[q] = main[q] /\ config'[q] = config[q]
      BY <2>1, <2>4 DEF Goes
    <3>2. main[q].at \in Inside => key # 0
      BY <2>4 DEF Agrees, PhaseInv
    <3> QED
      BY <2>1, <2>4, <3>1, <3>2 DEF Agrees
  <2> QED
    BY <2>1, <2>3, <2>4
<1>12. ASSUME NEW p \in Processes, WriteValue(p)
       PROVE AgreesInv'
  <2> DEFINE n == main[p].next
  <2>1. main[p].at = "writing" /\ n \in Names /\ UNCHANGED <<key, config>> /\ ~main[p].again
    BY <1>1, <1>12 DEF WriteValue, At, Calls, PhaseInv
  <2>2. ASSUME NEW q \in Processes, q # p, ~changed'[q]
        PROVE  Agrees(q)'
    <3>1. main'[q] = main[q] /\ config'[q] = config[q] /\ ~changed[q]
      BY <1>12, <2>1, <2>2, WriteValueGoes DEF Goes
    <3>2. InProcess(q) => stored' = stored
      BY <1>12, <2>2, WriteValueGoes
    <3> QED
      BY <1>2, <1>3, <2>1, <2>2, <3>1, <3>2
  <2>3. ASSUME ~changed'[p]
        PROVE  Agrees(p)'
    <3>1. Agrees(p) /\ main[p].handle = key
      BY <1>12, <2>1, <2>3, WriteValueGoes DEF Agrees, Inside
    <3>2. stored' = [stored EXCEPT ![n] = config[p][n]]
      BY <1>12, <3>1, WriteValueGoes
    <3>3. \A m \in Names : m < n + 1 => config'[p][m] = stored'[m]
      BY <1>1, <2>1, <3>1, <3>2 DEF Agrees
    <3>4. CASE Goes(p, [main[p] EXCEPT !.next = n + 1])
      <4>2. main'[p].at = "writing" /\ main'[p].handle = key /\ main'[p].next = n + 1
        BY <1>1, <2>1, <3>1, <3>4 DEF Goes, Calls
      <4> QED
        BY <2>1, <3>3, <4>2 DEF Agrees
    <3>5. CASE n = Settings /\ Goes(p, [main[p] EXCEPT !.at = "opening", !.again = TRUE])
      <4>2. main'[p].at = "opening"
        BY <1>1, <3>5 DEF Goes, Calls
      <4>3. \A m \in Names : config'[p][m] = stored'[m]
        BY <1>1, <3>3, <3>5
      <4>4. config'[p] = stored'
        BY <1>1, <2>1, <3>2, <4>3
      <4> QED
        BY <4>2, <4>4 DEF Agrees, Inside
    <3> QED
      BY <1>12, <3>4, <3>5, WriteValueGoes
  <2> QED
    BY <2>2, <2>3
<1>13. ASSUME NEW p \in Processes, Remove(p)
       PROVE AgreesInv'
  <2>1. Agrees(p)'
    BY <1>13, RemoveGoes DEF Goes, Outside, Agrees, Inside
  <2>2. ASSUME NEW q \in Processes, q # p, ~changed'[q]
        PROVE  Agrees(q)'
    BY <1>3, <1>13, <2>2, RemoveGoes DEF Goes
  <2> QED
    BY <2>1, <2>2
<1>14. ASSUME NEW n \in Names, NEW v \in Values \cup {absent}, Edit(n, v)
       PROVE AgreesInv'
  <2>1. ASSUME NEW q \in Processes, ~changed'[q]
        PROVE  Agrees(q)'
    BY <1>3, <1>14, <2>1 DEF Edit
  <2> QED
    BY <2>1
<1>15. CASE UNCHANGED configurationVars
  BY <1>2, <1>15 DEF configurationVars
<1> QED
  BY <1>6, <1>7, <1>8, <1>9, <1>10, <1>11, <1>12, <1>13, <1>14, <1>15 DEF ConfigurationNext

(* A prefix of settings: the shorter ones are kept with it. *)
LEMMA BeforeFirst ==
  ASSUME NEW n \in Names, Before(n), NEW m \in 1 .. n
  PROVE  Before(m) /\ Before(1) /\ before[m] # absent
BY FilterConfigurationAssumption DEF Before, Names

(* Every step keeps what was there before. *)
LEMMA KeptKept ==
  ASSUME ConfigurationTypeOK, KeyInv, PhaseInv, KeptInv, [ConfigurationNext]_configurationVars
  PROVE  KeptInv'
<1> USE DEF registry
<1> DEFINE Same == \A n \in Names : Before(n) => stored[n] = before[n]
<1>1. /\ \A p \in Processes : main[p] \in Calls /\ config[p] \in [Names -> Values]
      /\ stored \in [Names -> Values \cup {absent}] /\ FontName \in Names /\ 1 \in Names
      /\ FontName = Settings /\ Settings \in Nat /\ Names = 1 .. Settings
      /\ absent \notin Values
  BY FilterConfigurationAssumption DEF ConfigurationTypeOK, FontName, Names
<1>2. ASSUME UNCHANGED before
      PROVE  \A n : Before(n)' <=> Before(n)
  BY <1>2 DEF Before
<1>3. ASSUME NEW q \in Processes, main'[q] = main[q], config'[q] = config[q],
             UNCHANGED <<key, before>>, Keeps(q)
      PROVE  Keeps(q)'
  BY <1>2, <1>3 DEF Keeps
<1>4. ASSUME NEW q \in Processes,
             main'[q].at \in {"out", "loaded", "gone", "opening", "removing"}
      PROVE  Keeps(q)'
  BY <1>4 DEF Keeps, Inside
(* A step of p that leaves the registry alone. *)
<1>5. ASSUME NEW p \in Processes, UNCHANGED <<key, stored, before>>, unlucky => unlucky',
             \A q \in Processes : q # p => main'[q] = main[q] /\ config'[q] = config[q],
             ~unlucky' /\ Same /\ Before(1) /\ Keeps(p) => Keeps(p)'
      PROVE  KeptInv'
  <2> SUFFICES ASSUME ~unlucky' PROVE Same' /\ (Before(1)' => \A q \in Processes : Keeps(q)')
    BY DEF KeptInv
  <2>1. Same /\ (Before(1) => \A q \in Processes : Keeps(q))
    BY <1>5 DEF KeptInv
  <2>2. \A n : Before(n)' <=> Before(n)
    BY <1>2, <1>5
  <2> QED
    BY <1>3, <1>5, <2>1, <2>2
<1>6. ASSUME NEW p \in Processes, Fails(p), unlucky => unlucky',
             UNCHANGED <<key, stored, before>>,
             main[p].at \in {"opening", "reading", "sized"},
             ~unlucky' /\ Same /\ Before(1) /\ Keeps(p) =>
               \A n \in Names : Before(n) =>
                 /\ main[p].at \in {"reading", "sized"}
                 /\ n < main[p].next
      PROVE  KeptInv'
  <2>1. CASE main[p].again
    <3>1. Returns(p, config[p])
      BY <1>6, <2>1 DEF Fails
    <3>2. main'[p].at \in {"gone", "loaded"}
      BY <3>1 DEF Returns, Goes, Outside
    <3>3. Keeps(p)'
      BY <1>4, <3>2
    <3> QED
      BY <1>5, <1>6, <3>1, <3>3 DEF Returns, Goes
  <2>2. CASE ~main[p].again
    <3>1. Goes(p, [main[p] EXCEPT !.at = "creating"]) /\ UNCHANGED <<config, changed>>
      BY <1>6, <2>2 DEF Fails
    <3>2. main'[p].at = "creating"
      BY <1>1, <3>1 DEF Goes, Calls
    <3>3. ~unlucky' /\ Same /\ Before(1) /\ Keeps(p) => Keeps(p)'
      <4> SUFFICES ASSUME ~unlucky', Same, Before(1), Keeps(p) PROVE Keeps(p)'
        OBVIOUS
      <4>1. \A n \in Names : Before(n) => config[p][n] = before[n]
        BY <1>6 DEF Keeps
      <4>2. \A n : Before(n)' <=> Before(n)
        BY <1>2, <1>6
      <4> QED
        BY <1>6, <3>1, <3>2, <4>1, <4>2 DEF Keeps, Inside
    <3> QED
      BY <1>5, <1>6, <3>1, <3>3 DEF Goes
  <2> QED
    BY <2>1, <2>2
<1>7. ASSUME NEW p \in Processes, Enter(p)
      PROVE KeptInv'
  <2>1. PICK where \in {"opening", "removing"} :
          Goes(p, [main[p] EXCEPT !.leaving = At(p, "loaded"), !.at = where])
    BY <1>7, EnterGoes
  <2>2. main'[p].at \in {"opening", "removing"} /\ UNCHANGED <<key, stored, config, unlucky>>
    BY <1>1, <1>7, <2>1 DEF Goes, Calls, Enter
  <2>3. Keeps(p)'
    BY <1>4, <2>2
  <2>4. CASE InDllMain = {}
    <3>1. before' = stored
      BY <1>7, <2>4 DEF Enter
    <3>2. ASSUME NEW q \in Processes, q # p
          PROVE  Keeps(q)'
      <4>1. main'[q].at \in {"out", "loaded", "gone"}
        BY <2>1, <2>4, <3>2 DEF InDllMain, Goes
      <4> QED
        BY <1>4, <4>1
    <3> QED
      BY <2>2, <2>3, <3>1, <3>2 DEF KeptInv
  <2>5. CASE InDllMain # {}
    <3>1. UNCHANGED before
      BY <1>7, <2>5 DEF Enter
    <3> QED
      BY <1>5, <2>1, <2>2, <2>3, <3>1 DEF Goes
  <2> QED
    BY <2>4, <2>5
<1>8. ASSUME NEW p \in Processes, Open(p)
      PROVE KeptInv'
  <2>1. UNCHANGED <<key, stored, before, unlucky>> /\ main[p].at = "opening"
    BY <1>8 DEF Open, At
  <2>2. CASE key = 0
    <3>1. ASSUME Same PROVE ~Before(1)
      BY <1>1, <2>2, <3>1 DEF KeyInv, NoValues, Before
    <3> QED
      BY <1>6, <1>8, <2>1, <2>2, <3>1, OpenGoes
  <2>3. CASE key # 0
    <3>1. Goes(p, [main[p] EXCEPT !.at = "reading", !.handle = key, !.next = 1])
          /\ UNCHANGED config
      BY <1>8, <2>3, OpenGoes
    <3>2. main'[p].at = "reading" /\ main'[p].handle = key /\ main'[p].next = 1
      BY <1>1, <3>1 DEF Goes, Calls
    <3>3. Keeps(p)'
      BY <1>1, <2>1, <3>2 DEF Keeps
    <3> QED
      BY <1>5, <2>1, <3>1, <3>3 DEF Goes
  <2> QED
    BY <2>2, <2>3
<1>9. ASSUME NEW p \in Processes, ReadValue(p)
      PROVE KeptInv'
  <2> DEFINE n == main[p].next
  <2>1. /\ UNCHANGED <<key, stored, before>> /\ main[p].at = "reading" /\ n \in Names
        /\ unlucky => unlucky'
    BY <1>1, <1>9 DEF ReadValue, At, Calls
  <2>2. CASE unlucky'
    BY <2>2 DEF KeptInv
  <2>3. CASE ~unlucky' /\ ~HasValue(p, n) /\ Fails(p)
    <3>1. ASSUME Same, Keeps(p), NEW m \in Names, Before(m)
          PROVE  m < n
      <4>1. stored[n] = absent
        BY <2>1, <2>3, <3>1 DEF Keeps, HasValue, Inside
      <4>2. m >= n => Before(n) /\ before[n] # absent
        BY <1>1, <2>1, <3>1, BeforeFirst
      <4> QED
        BY <1>1, <2>1, <3>1, <4>1, <4>2
    <3> QED
      BY <1>6, <2>1, <2>3, <3>1
  <2>4. ASSUME HasValue(p, n), config' = [config EXCEPT ![p][n] = stored[n]],
               Goes(p, [main[p] EXCEPT !.next = n + 1])
        PROVE  KeptInv'
    <3>2. /\ main'[p].at = "reading" /\ main'[p].next = n + 1
      /\ main'[p].handle = main[p].handle
      BY <1>1, <2>1, <2>4 DEF Goes, Calls
    <3>3. /\ \A m \in Names : config'[p][m] = IF m = n THEN stored[n] ELSE config[p][m]
          /\ \A q \in Processes : q # p => config'[q] = config[q]
      BY <2>1, <2>4 DEF ConfigurationTypeOK
    <3>4. ASSUME Same, Keeps(p)
          PROVE  Keeps(p)'
      <4>1. ASSUME NEW m \in Names, Before(m), m < n + 1
            PROVE  config'[p][m] = before[m]
        <5>1. CASE m = n
          BY <3>3, <3>4, <4>1, <5>1
        <5>2. CASE m < n
          BY <1>1, <2>1, <3>3, <3>4, <4>1, <5>2 DEF Keeps
        <5> QED
          BY <1>1, <2>1, <4>1, <5>1, <5>2
      <4>2. \A m : Before(m)' <=> Before(m)
        BY <1>2, <2>1
      <4> QED
        BY <2>1, <3>2, <3>4, <4>1, <4>2 DEF Keeps, Inside
    <3> QED
      BY <1>5, <2>1, <2>4, <3>3, <3>4 DEF Goes
  <2> QED
    BY <1>9, <2>2, <2>3, <2>4, ReadValueGoes
<1>10. ASSUME NEW p \in Processes, ReadFontSize(p)
       PROVE KeptInv'
  <2>1. /\ UNCHANGED <<key, stored, before, unlucky>>
        /\ main[p].at = "reading" /\ main[p].next = FontName
    BY <1>10 DEF ReadFontSize, At
  <2>2. CASE ~HasValue(p, FontName)
    <3>1. ASSUME Same, Keeps(p), NEW m \in Names, Before(m)
          PROVE  m < FontName
      BY <1>1, <2>1, <2>2, <3>1, BeforeFirst DEF Keeps, HasValue, Inside
    <3> QED
      <4>1. Fails(p)
        BY <1>10, <2>2, ReadFontSizeGoes
      <4> QED
        BY <1>6, <2>1, <3>1, <4>1
  <2>3. CASE HasValue(p, FontName)
    <3>1. /\ UNCHANGED config
          /\ Goes(p, [main[p] EXCEPT !.at = "sized", !.sized = stored[FontName]])
      BY <1>10, <2>3, ReadFontSizeGoes
    <3>2. main'[p].at = "sized" /\ main'[p].sized = stored[FontName]
          /\ main'[p].handle = main[p].handle /\ main'[p].next = main[p].next
      BY <1>1, <3>1 DEF Goes, Calls
    <3>3. ASSUME Same, Keeps(p)
          PROVE  Keeps(p)'
      <4>1. \A m : Before(m)' <=> Before(m)
        BY <1>2, <2>1
      <4> QED
        BY <2>1, <3>1, <3>2, <3>3, <4>1 DEF Keeps, Inside
    <3> QED
      BY <1>5, <2>1, <3>1, <3>3 DEF Goes
  <2> QED
    BY <2>2, <2>3
<1>11. ASSUME NEW p \in Processes, ReadFontName(p)
       PROVE KeptInv'
  <2>1. /\ UNCHANGED <<key, stored, before, unlucky>>
        /\ main[p].at = "sized" /\ main[p].next = FontName
    BY <1>11 DEF ReadFontName, At, PhaseInv
  <2>2. CASE Fails(p) /\ ~(HasValue(p, FontName) /\ main[p].sized = stored[FontName])
    <3>1. ASSUME Same, Keeps(p), NEW m \in Names, Before(m)
          PROVE  m < FontName
      BY <1>1, <2>1, <2>2, <3>1, BeforeFirst DEF Keeps, HasValue, Inside
    <3> QED
      BY <1>6, <2>1, <2>2, <3>1
  <2>3. CASE Returns(p, [config[p] EXCEPT ![FontName] = stored[FontName]])
    <3>1. Keeps(p)'
      BY <1>4, <2>3 DEF Returns, Goes, Outside
    <3> QED
      BY <1>5, <2>1, <2>3, <3>1 DEF Returns, Goes
  <2> QED
    BY <1>11, <2>2, <2>3, ReadFontNameGoes
<1>12. ASSUME NEW p \in Processes, Create(p)
       PROVE KeptInv'
  <2>1. /\ Goes(p, [main[p] EXCEPT !.at = "writing", !.handle = key', !.next = 1])
        /\ (key # 0 => key' = key) /\ stored' = stored
        /\ UNCHANGED <<config, before, unlucky>> /\ main[p].at = "creating"
    BY <1>12, CreateGoes DEF Create, At
  <2>2. main'[p].at = "writing" /\ main'[p].handle = key'
    BY <1>1, <2>1 DEF Goes, Calls
  <2>3. CASE key = 0
    <3>1. ~unlucky => ~Before(1)
      BY <1>1, <2>3 DEF KeptInv, KeyInv, NoValues, Before
    <3> QED
      BY <1>2, <2>1, <3>1 DEF KeptInv
  <2>4. CASE key # 0
    <3>1. ASSUME Same, Keeps(p)
          PROVE  Keeps(p)'
      <4>1. \A m : Before(m)' <=> Before(m)
        BY <1>2, <2>1
      <4> QED
        BY <2>1, <2>2, <3>1, <4>1 DEF Keeps, Inside
    <3> QED
      BY <1>5, <2>1, <2>4, <3>1 DEF Goes
  <2> QED
    BY <2>3, <2>4
<1>13. ASSUME NEW p \in Processes, WriteValue(p)
       PROVE KeptInv'
  <2> DEFINE n == main[p].next
  <2>1. /\ main[p].at = "writing" /\ n \in Names
        /\ UNCHANGED <<key, config, before, unlucky>>
    BY <1>1, <1>13 DEF WriteValue, At, Calls
  <2> SUFFICES ASSUME ~unlucky, Before(1) PROVE Same' /\ \A q \in Processes : Keeps(q)'
    <3>1. \A m \in Names : Before(m) => Before(1)
      BY <1>1, BeforeFirst
    <3> QED
      BY <1>2, <2>1, <3>1 DEF KeptInv
  <2>2. Same /\ (\A q \in Processes : Keeps(q)) /\ \A m : Before(m)' <=> Before(m)
    BY <1>2, <2>1 DEF KeptInv
  <2>3. stored' = [stored EXCEPT ![n] = config[p][n]]
    BY <1>13, <2>1, <2>2, WriteValueGoes DEF Keeps, Inside
  <2>4. ASSUME NEW m \in Names, Before(m)
        PROVE  stored'[m] = before[m]
    <3>1. config[p][m] = before[m]
      BY <2>1, <2>2, <2>4 DEF Keeps
    <3>2. stored'[m] = IF m = n THEN config[p][n] ELSE stored[m]
      BY <1>1, <2>1, <2>3
    <3> QED
      BY <2>2, <2>4, <3>1, <3>2
  <2>5. Keeps(p)'
    <3>1. CASE Goes(p, [main[p] EXCEPT !.next = n + 1])
      <4>1. main'[p].at = "writing" /\ main'[p].handle = main[p].handle
        BY <1>1, <2>1, <3>1 DEF Goes, Calls
      <4> QED
        BY <2>1, <2>2, <4>1 DEF Keeps, Inside
    <3>2. CASE Goes(p, [main[p] EXCEPT !.at = "opening", !.again = TRUE])
      BY <1>1, <1>4, <3>2 DEF Goes, Calls
    <3> QED
      BY <1>13, <3>1, <3>2, WriteValueGoes
  <2>6. ASSUME NEW q \in Processes, q # p
        PROVE  Keeps(q)'
    <3>1. main'[q] = main[q]
      BY <1>13, <2>6, WriteValueGoes DEF Goes
    <3> QED
      BY <1>3, <2>1, <2>2, <3>1
  <2> QED
    BY <2>1, <2>2, <2>4, <2>5, <2>6
<1>14. ASSUME NEW p \in Processes, Remove(p)
       PROVE KeptInv'
  <2>1. before' = NoValues
    BY <1>14 DEF Remove
  <2>2. \A m \in Names : ~Before(m)'
    BY <1>1, <2>1 DEF Before, NoValues
  <2> QED
    BY <1>1, <2>2 DEF KeptInv
<1>15. ASSUME NEW n \in Names, NEW v \in Values \cup {absent}, Edit(n, v)
       PROVE KeptInv'
  <2>1. before' = stored' /\ UNCHANGED main /\ InDllMain = {}
    BY <1>15 DEF Edit
  <2>2. \A q \in Processes : Keeps(q)'
    BY <1>4, <2>1 DEF InDllMain
  <2> QED
    BY <2>1, <2>2 DEF KeptInv
<1>16. CASE UNCHANGED configurationVars
  BY <1>2, <1>3, <1>16 DEF configurationVars, KeptInv
<1> QED
  BY <1>7, <1>8, <1>9, <1>10, <1>11, <1>12, <1>13, <1>14, <1>15, <1>16 DEF ConfigurationNext

-----------------------------------------------------------------------------
(* The inductive invariant of the processes and the registry. *)
THEOREM ConfigurationInvariant == ConfigurationSpec => []ConfigurationInv
<1>1. ConfigurationInv /\ [ConfigurationNext]_configurationVars => ConfigurationInv'
  BY ConfigurationTypeKept, KeyKept, PhaseKept, AgreesKept, KeptKept DEF ConfigurationInv
<1> QED
  BY <1>1, ConfigurationInitial, PTL DEF ConfigurationSpec

(* However loading, writing and loading again went (dllmain.cpp:154-165),  *)
(* and whatever other processes did meanwhile, a process that has loaded   *)
(* the DLL uses what the registry holds, unless someone changed that since *)
(* it entered DllMain.                                                     *)
THEOREM ProcessesSettle == ConfigurationSpec => []Settled
<1>1. ConfigurationInv => Settled
  BY DEF ConfigurationInv, AgreesInv, Agrees, Settled, At
<1> QED
  BY <1>1, ConfigurationInvariant, PTL

(* A setting of the user that is stored with all those read before it      *)
(* survives any number of processes that load and write settings at once.  *)
THEOREM UserSettingsKept == ConfigurationSpec => []UserKept
<1>1. ConfigurationInv => UserKept
  BY DEF ConfigurationInv, KeptInv, UserKept, Before
<1> QED
  BY <1>1, ConfigurationInvariant, PTL
=============================================================================
