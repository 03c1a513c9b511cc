----------------------------- MODULE TextDrawing -----------------------------
(***************************************************************************)
(* How entries are drawn: SRTSubtitleRenderer::RenderSRTSubtitleEntry lays *)
(* out a text and has DirectWrite call CustomTextRenderer once for each    *)
(* run of glyphs, underline and strikethrough; each of these calls takes   *)
(* the effects the text was given and has every effect rendered by what    *)
(* DrawingEffectsRendererFactory returns for it.  The model keeps who owns *)
(* the effects collection, by its reference count, and whose effect is     *)
(* rendered.  Geometry and placement are left out.                         *)
(*                                                                         *)
(* A renderer is made when the output pin is connected and destroyed when  *)
(* the next takes its place.  It draws on one thread; renderers of several *)
(* filters may draw at one time, and share the factory and its cache.      *)
(* After undefined behaviour there are no more steps, except that a race   *)
(* or a read of what was freed may also go by without harm.                *)
(***************************************************************************)
EXTENDS Integers, FiniteSets

CONSTANTS
  Renderers,   \* every SRTSubtitleRenderer the process makes
  None,        \* a null pointer
  Callbacks,   \* how many callbacks a text can need: 0 for a text of no glyph
  MaxHeld,     \* bound: references a layout keeps to the effects of its text
  MaxRefs      \* bound: no entry is begun that could exceed it

ASSUME DrawingAssumption ==
  None \notin Renderers /\ Callbacks \subseteq Nat /\ MaxHeld \in Nat /\ MaxRefs \in Nat

VARIABLES
  life,             \* of each renderer: "unmade", "alive" or "gone"
  collections,      \* the renderers m_pGlobalDrawingEffects was made for
  m_uRefCount,      \* of their collections; one whose count is 0 is deleted
  m_RendererCache,  \* whose effect the cached OutlineFillEffectRenderer has
  pc,               \* where the thread of each renderer is
  left,             \* callbacks the entry being drawn still needs
  held,             \* references its layout keeps
  m_pEffect,        \* whose effect is about to be rendered
  undefined,        \* the behaviour of the program is no longer defined
  drawn             \* history: how many callbacks the entries drawn needed

entry == <<pc, left, held, m_pEffect, drawn>>
vars == <<life, collections, m_uRefCount, m_RendererCache, entry, undefined>>

Init ==
  /\ life = [r \in Renderers |-> "unmade"] /\ collections = {}
  /\ m_uRefCount = [r \in Renderers |-> 0]
  /\ m_RendererCache = None
  /\ pc = [r \in Renderers |-> "idle"]
  /\ left = [r \in Renderers |-> 0] /\ held = [r \in Renderers |-> 0]
  /\ m_pEffect = [r \in Renderers |-> None]
  /\ undefined = FALSE
  /\ drawn = [r \in Renderers |-> {}]

-----------------------------------------------------------------------------
(* The reference count of r's collection, n times.  The last reference     *)
(* deletes it, and the effects with it; a call on a deleted one is not     *)
(* defined.                                                                *)
AddRef(r, n) ==
  IF m_uRefCount[r] > 0 \/ n = 0
  THEN /\ m_uRefCount' = [m_uRefCount EXCEPT ![r] = @ + n]
       /\ UNCHANGED undefined
  ELSE /\ undefined' = TRUE
       /\ UNCHANGED m_uRefCount

Release(r, n) ==
  IF m_uRefCount[r] >= n
  THEN /\ m_uRefCount' = [m_uRefCount EXCEPT ![r] = @ - n]
       /\ UNCHANGED undefined
  ELSE /\ undefined' = TRUE
       /\ UNCHANGED m_uRefCount

(* A border of width 0 needs no effects. *)
MakeRenderer(r) ==
  /\ life[r] = "unmade"
  /\ life' = [life EXCEPT ![r] = "alive"]
  /\ \/ /\ collections' = collections \cup {r}
        /\ m_uRefCount' = [m_uRefCount EXCEPT ![r] = 1]
     \/ UNCHANGED <<collections, m_uRefCount>>
  /\ UNCHANGED <<m_RendererCache, entry, undefined>>

(* Mutant: destroyed while it draws. *)
DestroyRenderer_Drawing(r) ==
  /\ life[r] = "alive"
  /\ life' = [life EXCEPT ![r] = "gone"]
  /\ Release(r, IF r \in collections THEN 1 ELSE 0)
  /\ UNCHANGED <<collections, m_RendererCache, entry>>

(* The brushes go with the renderer, whoever still refers to the effects.  *)
DestroyRenderer(r) ==
  /\ life[r] = "alive" /\ pc[r] = "idle"
  /\ life' = [life EXCEPT ![r] = "gone"]
  /\ Release(r, IF r \in collections THEN 1 ELSE 0)
  /\ UNCHANGED <<collections, m_RendererCache, entry>>

-----------------------------------------------------------------------------
(* SetDrawingEffect over the whole text: how many references the layout    *)
(* keeps is up to DirectWrite, one at least unless the text is empty.      *)
BeginEntry(r, n, h) ==
  /\ life[r] = "alive" /\ pc[r] = "idle"
  /\ IF r \in collections THEN n > 0 => h > 0 ELSE h = 0
  /\ m_uRefCount[r] + n + h <= MaxRefs
  /\ AddRef(r, h)
  /\ pc' = [pc EXCEPT ![r] = "drawing"]
  /\ left' = [left EXCEPT ![r] = n]
  /\ held' = [held EXCEPT ![r] = h]
  /\ drawn' = [drawn EXCEPT ![r] = @ \cup {n}]
  /\ UNCHANGED <<life, collections, m_RendererCache, m_pEffect>>

(* A callback for a text without effects uses the context's brush. *)
DrawWithBrush(r) ==
  /\ pc[r] = "drawing" /\ left[r] > 0 /\ r \notin collections
  /\ left' = [left EXCEPT ![r] = @ - 1]
  /\ UNCHANGED <<life, collections, m_uRefCount, m_RendererCache, pc, held, m_pEffect,
                 undefined, drawn>>

(* Mutant: the collection is handed out without a reference. *)
QueryInterface_NoAddRef(r) ==
  /\ pc[r] = "drawing" /\ left[r] > 0 /\ r \in collections
  /\ left' = [left EXCEPT ![r] = @ - 1]
  /\ pc' = [pc EXCEPT ![r] = "looking"]
  /\ UNCHANGED <<life, collections, m_uRefCount, m_RendererCache, held, m_pEffect,
                 undefined, drawn>>

(* Every other callback asks for the collection and never releases it. *)
QueryInterface(r) ==
  /\ pc[r] = "drawing" /\ left[r] > 0 /\ r \in collections
  /\ AddRef(r, 1)
  /\ left' = [left EXCEPT ![r] = @ - 1]
  /\ pc' = [pc EXCEPT ![r] = "looking"]
  /\ UNCHANGED <<life, collections, m_RendererCache, held, m_pEffect, drawn>>

(***************************************************************************)
(* CreateEffectRenderer.  The lock is held only while the cache grows,     *)
(* which it does once, before anyone reads it.  The slot is a shared_ptr   *)
(* that is read and written without the lock.                              *)
(***************************************************************************)
Race(r, others) ==
  IF \E o \in Renderers \ {r} : pc[o] \in others
  THEN undefined' \in BOOLEAN ELSE UNCHANGED undefined

Lookup(r) ==
  /\ pc[r] = "looking"
  /\ pc' = [pc EXCEPT ![r] = IF m_RendererCache = None THEN "storing" ELSE "returning"]
  /\ Race(r, {"storing"})
  /\ UNCHANGED <<life, collections, m_uRefCount, m_RendererCache, left, held, m_pEffect,
                 drawn>>

Store(r) ==
  /\ pc[r] = "storing"
  /\ m_RendererCache' = r
  /\ pc' = [pc EXCEPT ![r] = "returning"]
  /\ Race(r, {"looking", "storing", "returning"})
  /\ UNCHANGED <<life, collections, m_uRefCount, left, held, m_pEffect, drawn>>

(* The slot is read again to be returned. *)
Return(r) ==
  /\ pc[r] = "returning"
  /\ m_pEffect' = [m_pEffect EXCEPT ![r] = m_RendererCache]
  /\ pc' = [pc EXCEPT ![r] = "rendering"]
  /\ Race(r, {"storing"})
  /\ UNCHANGED <<life, collections, m_uRefCount, m_RendererCache, left, held, drawn>>

(* Whether an effect and the brushes it points to can still be read. *)
Readable(r) == life[r] = "alive" /\ m_uRefCount[r] > 0

RenderEffect(r) ==
  /\ pc[r] = "rendering"
  /\ IF Readable(m_pEffect[r]) THEN UNCHANGED undefined ELSE undefined' \in BOOLEAN
  /\ pc' = [pc EXCEPT ![r] = "drawing"]
  /\ m_pEffect' = [m_pEffect EXCEPT ![r] = None]
  /\ UNCHANGED <<life, collections, m_uRefCount, m_RendererCache, left, held, drawn>>

(* Mutant: no release by hand. *)
EndEntry_LayoutOnly(r) ==
  /\ pc[r] = "drawing" /\ left[r] = 0
  /\ Release(r, held[r])
  /\ pc' = [pc EXCEPT ![r] = "idle"]
  /\ held' = [held EXCEPT ![r] = 0]
  /\ UNCHANGED <<life, collections, m_RendererCache, left, m_pEffect, drawn>>

(* The release by hand, then the layout's own. *)
EndEntry(r) ==
  /\ pc[r] = "drawing" /\ left[r] = 0
  /\ Release(r, IF r \in collections THEN 1 + held[r] ELSE 0)
  /\ pc' = [pc EXCEPT ![r] = "idle"]
  /\ held' = [held EXCEPT ![r] = 0]
  /\ UNCHANGED <<life, collections, m_RendererCache, left, m_pEffect, drawn>>

Next ==
  /\ ~undefined
  /\ \E r \in Renderers :
       \/ MakeRenderer(r) \/ DestroyRenderer(r)
       \/ \E n \in Callbacks, h \in 0 .. MaxHeld : BeginEntry(r, n, h)
       \/ DrawWithBrush(r) \/ QueryInterface(r)
       \/ Lookup(r) \/ Store(r) \/ Return(r) \/ RenderEffect(r)
       \/ EndEntry(r)

Spec == Init /\ [][Next]_vars

-----------------------------------------------------------------------------
(* Every variable has its type. *)
TypeOK ==
  /\ life \in [Renderers -> {"unmade", "alive", "gone"}]
  /\ collections \subseteq Renderers
  /\ m_uRefCount \in [Renderers -> Nat]
  /\ m_RendererCache \in Renderers \cup {None}
  /\ pc \in [Renderers ->
       {"idle", "drawing", "looking", "storing", "returning", "rendering"}]
  /\ left \in [Renderers -> Nat] /\ held \in [Renderers -> Nat]
  /\ m_pEffect \in [Renderers -> Renderers \cup {None}]
  /\ undefined \in BOOLEAN
  /\ drawn \in [Renderers -> SUBSET Nat]

(* A renderer that is alive has its effects collection (and so the effects *)
(* it draws with), however its entries are formatted, as long as each of   *)
(* their texts had a glyph: the reference that RenderSRTSubtitleEntry      *)
(* releases by hand is that of the first callback, not that of             *)
(* SetDrawingEffect, and without a callback it is the renderer's own.      *)
HolderKeepsAlive ==
  \A r \in collections : life[r] = "alive" /\ 0 \notin drawn[r] => m_uRefCount[r] > 0

(* The collection of a renderer that is gone is deleted if every text it   *)
(* drew took one callback.  (Each further one, of a second line or format  *)
(* or of an underline, leaves a reference behind for good.)                *)
PlainIsFreed ==
  \A r \in collections : life[r] = "gone" /\ drawn[r] \subseteq {1} => m_uRefCount[r] = 0

(* As long as the process has made one renderer and all texts had a glyph, *)
(* nothing freed is used and nothing races, through the cache of effect    *)
(* renderers either.                                                       *)
SingleIsSound ==
  undefined =>
    \/ \E r \in Renderers : 0 \in drawn[r]
    \/ \E r, s \in Renderers : r # s /\ life[r] # "unmade" /\ life[s] # "unmade"

(* What DrawingEffectRendererFactory.h:38 says, and the code does not keep: *)
(* CreateEffectRenderer returns a renderer "based upon the passed in       *)
(* CustomDrawingEffect", so that a text is drawn with its own effect.      *)
DrawsOwnEffect ==
  \A r \in Renderers : m_pEffect[r] \in {None, r}
==============================================================================
