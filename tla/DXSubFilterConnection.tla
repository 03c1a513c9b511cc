------------------------ MODULE DXSubFilterConnection ------------------------
(***************************************************************************)
(* How the three pins of CDXSubFilter are connected and what the filter    *)
(* sets up for the formats agreed on: the aligned buffer, the strides, the *)
(* blender and the subtitle renderer (source/dxsubfilter/dxsubfilter.cpp,  *)
(* SubtitleInputPin.cpp, the base classes' CBasePin and CEnumMediaTypes).  *)
(*                                                                         *)
(* A media type is one of Formats; of its fields the subtype and the size  *)
(* matter, and the frame that the rest describes.  A pin keeps its type    *)
(* when it is disconnected.  The other filters, whose pins are of the base *)
(* classes, and the filter graph manager are external: they may refuse any *)
(* type, and a reconnection the filter asks for is carried out later, in   *)
(* the order asked for (CBaseFilter::ReconnectPin "requests" it).          *)
(***************************************************************************)
EXTENDS Integers, Sequences, SequencesExt, SubtitleTypes, PinLink

CONSTANTS
  Formats,        \* video media types
  Subtype,        \* Subtype[f]: the subtype, "NV12", "YV12", ...
  Frame,          \* Frame[f]: what f says of the frame besides
  SampleSize,     \* SampleSize[f]: lSampleSize
  EightBit, SixteenBit,   \* the supported subtypes, in the order offered
  MaxReconnects   \* bound: reconnections waiting to be carried out

ASSUME ConnectionAssumption ==
  /\ Subtype \in [Formats -> STRING]
  /\ SampleSize \in [Formats -> Nat]
  /\ EightBit \in Seq(STRING) /\ SixteenBit \in Seq(STRING)
  /\ MaxReconnects \in Nat
  /\ None \notin Formats
  /\ \A f \in Formats, s \in ToSet(EightBit) \cup ToSet(SixteenBit) :
       \E g \in Formats : Subtype[g] = s /\ Frame[g] = Frame[f]

VARIABLES
  embedded,                    \* the graph's splitter has a subtitle stream
  m_bExternalSubtitlesLoaded,
  m_State,
  upstream, downstream,        \* the links of the video pins
  inputType, outputType,       \* m_mt of the video pins
  subtitle,                    \* the subtitle pin is connected
  m_CurrentSubtitleType, m_SubtitleRenderer,
  m_InputVideoType, m_uAlignedBufferLength, m_Strides, m_pSubPicBlender,
  reconnects,                  \* types the input pin is to be reconnected with
  agreeing,                    \* whose types Connect of the output pin tries
  m_Position,                  \* of the enumerator of the output pin's types
  untried                      \* history: types yet to be tried of the list gone through

fixed == <<embedded, m_bExternalSubtitlesLoaded>>
links == <<upstream, downstream>>
types == <<inputType, outputType, m_InputVideoType>>
subtitles == <<subtitle, m_CurrentSubtitleType>>
setup == <<m_SubtitleRenderer, m_uAlignedBufferLength, m_Strides, m_pSubPicBlender>>
enumeration == <<agreeing, m_Position, untried>>
vars == <<fixed, m_State, links, types, subtitles, setup, reconnects, enumeration>>

Is16Bit(f) == Subtype[f] \in ToSet(SixteenBit)

Init ==
  /\ embedded \in BOOLEAN
  /\ \E loaded \in AfterLoading :
       m_bExternalSubtitlesLoaded = loaded[1] /\ m_CurrentSubtitleType = loaded[2]
  /\ m_State = "Stopped"
  /\ upstream = NoLink /\ downstream = NoLink
  /\ inputType = None /\ outputType = None   \* a type that was never set
  /\ subtitle = FALSE
  /\ m_SubtitleRenderer = None
  /\ m_InputVideoType = None
  /\ m_uAlignedBufferLength = 0
  /\ m_Strides = <<None, None>>
  /\ m_pSubPicBlender = None
  /\ reconnects = << >>
  /\ agreeing = "no" /\ m_Position = 0 /\ untried = {}

-----------------------------------------------------------------------------
(* Whether any stream of the splitter found in the graph is subtitles. *)
CheckForEmbeddedSubtitles == embedded

CheckInputType(f) ==
  /\ m_bExternalSubtitlesLoaded \/ CheckForEmbeddedSubtitles
  /\ Subtype[f] \in ToSet(EightBit) \cup ToSet(SixteenBit)

(* The strides follow from the two types, whose widths, and the subtype of *)
(* one of which, they are computed from.                                   *)
ComputeStrides(in, out) == <<in, out>>

AssignSubPicBlender(f) == IF Subtype[f] \in {"NV12", "YV12"} THEN Subtype[f] ELSE None

(* Mutant: a renderer is made only if there is none yet. *)
SetUp_RendererOnce(f, out) ==
  /\ m_uAlignedBufferLength' = SampleSize[f]
  /\ m_Strides' = ComputeStrides(f, out)
  /\ m_pSubPicBlender' = AssignSubPicBlender(f)
  /\ m_SubtitleRenderer' = IF m_SubtitleRenderer # None THEN m_SubtitleRenderer
                           ELSE CreateSubtitleRenderer(m_CurrentSubtitleType)
  /\ m_State' = IF m_bExternalSubtitlesLoaded /\ m_SubtitleRenderer' = None
                THEN "Crashed" ELSE m_State

(* What both branches of CompleteConnect do for the output pin once the    *)
(* input has the type f.  An external script is handed to the renderer, if *)
(* need be through a null pointer, which ends the process.                 *)
SetUp(f, out) ==
  /\ m_uAlignedBufferLength' = SampleSize[f]
  /\ m_Strides' = ComputeStrides(f, out)
  /\ m_pSubPicBlender' = AssignSubPicBlender(f)
  /\ m_SubtitleRenderer' = CreateSubtitleRenderer(m_CurrentSubtitleType)
  /\ m_State' = IF m_bExternalSubtitlesLoaded /\ m_SubtitleRenderer' = None
                THEN "Crashed" ELSE m_State

-----------------------------------------------------------------------------
(* Connect holds m_csFilter while it tries one type after another, so no    *)
(* other pin is connected or disconnected meanwhile.                        *)
Idle == m_State = "Stopped" /\ agreeing = "no"

(* The upstream filter's output pin attempts a connection with the type f:  *)
(* the input pin takes the type before an allocator is decided on, and      *)
(* keeps it when there is none.                                             *)
AttemptInput(link, f, fails) ==
  /\ "type" \in fails <=> ~CheckInputType(f)
  /\ fails \cap {"complete", "filter"} = {}
  /\ upstream' = AttemptConnection(link, fails)
  /\ IF fails \cap {"interface", "type"} = {} /\ ~link.receiver
     THEN inputType' = f /\ m_InputVideoType' = f
     ELSE UNCHANGED <<inputType, m_InputVideoType>>

(* Nothing is set up yet, nor anew if the output pin is still connected.   *)
ConnectInput(f) ==
  /\ Idle /\ ~upstream.connector
  /\ \E fails \in Failures : AttemptInput(upstream, f, fails)
  /\ UNCHANGED <<fixed, m_State, downstream, outputType, subtitles, setup, reconnects, enumeration>>

(* A connection is broken by a Disconnect of either pin. *)
DisconnectUpstream ==
  /\ Idle
  /\ \/ upstream.receiver /\ upstream' = DisconnectInput(upstream)
     \/ upstream.connector /\ upstream' = DisconnectOutput(upstream)
  /\ UNCHANGED <<fixed, m_State, downstream, types, subtitles, setup, reconnects, enumeration>>

DisconnectDownstream ==
  /\ Idle
  /\ \/ downstream.receiver /\ downstream' = DisconnectInput(downstream)
     \/ downstream.connector /\ downstream' = DisconnectOutput(downstream)
  /\ UNCHANGED <<fixed, m_State, upstream, types, subtitles, setup, reconnects, enumeration>>

ConnectSubtitle(t) ==
  /\ Idle /\ ~subtitle /\ ~m_bExternalSubtitlesLoaded /\ CheckForEmbeddedSubtitles
  /\ subtitle' = TRUE
  /\ m_CurrentSubtitleType' = t
  /\ UNCHANGED <<fixed, m_State, links, types, setup, reconnects, enumeration>>

(* The type is dropped before the base class refuses the call of a filter  *)
(* that is not stopped.                                                    *)
DisconnectSubtitle ==
  /\ subtitle /\ agreeing = "no"
  /\ m_CurrentSubtitleType' = "NONE"
  /\ subtitle' = (m_State # "Stopped")
  /\ UNCHANGED <<fixed, m_State, links, types, setup, reconnects, enumeration>>

-----------------------------------------------------------------------------
(* Connect of the output pin, with a type given or with those of the other *)
(* pin and then the own ones: attempts until one succeeds or none is left. *)
ConnectOutput ==
  /\ Idle /\ ~downstream.connector
  /\ agreeing' \in {"given", "theirs"}
  /\ m_Position' = 0 /\ untried' = {}
  /\ UNCHANGED <<fixed, m_State, links, types, subtitles, setup, reconnects>>

(* The format f with another subtype, its size computed anew. *)
CorrectVideoMediaType(f, subtype) ==
  CHOOSE g \in Formats : Subtype[g] = subtype /\ Frame[g] = Frame[f]

(* Mutant: the subtypes are numbered from 1. *)
GetMediaType_FromOne(position) ==
  LET subtypes == IF Is16Bit(m_InputVideoType) THEN SixteenBit \o EightBit ELSE EightBit
  IN  IF ~upstream.receiver \/ position >= Len(subtypes) THEN None
      ELSE IF position = 0 THEN m_InputVideoType
      ELSE CorrectVideoMediaType(m_InputVideoType, subtypes[position + 1])

(* The types the output pin offers: the input's, then with each subtype,   *)
(* the 16-bit ones only to a 16-bit input, and first.                      *)
GetMediaType(position) ==
  LET subtypes == IF Is16Bit(m_InputVideoType) THEN SixteenBit \o EightBit ELSE EightBit
  IN  IF ~upstream.receiver \/ position > Len(subtypes) THEN None
      ELSE IF position = 0 THEN m_InputVideoType
      ELSE CorrectVideoMediaType(m_InputVideoType, subtypes[position])

(* The subtypes the filter's author would have offered for the input. *)
Offered ==
  IF ~upstream.receiver THEN {}
  ELSE {CorrectVideoMediaType(m_InputVideoType, s) :
          s \in ToSet(EightBit) \cup (IF Is16Bit(m_InputVideoType) THEN ToSet(SixteenBit) ELSE {})}
       \cup {m_InputVideoType}

TheirTypesTried ==
  /\ agreeing = "theirs"
  /\ agreeing' = "own" /\ m_Position' = 0 /\ untried' = Offered
  /\ UNCHANGED <<fixed, m_State, links, types, subtitles, setup, reconnects>>

NoTypeAgreed ==
  /\ agreeing = "own" /\ GetMediaType(m_Position) = None
  /\ agreeing' = "no"
  /\ UNCHANGED <<fixed, m_State, links, types, subtitles, setup, reconnects, m_Position, untried>>

(* The type that is tried next; the manager and the other pin have any. *)
NextType(f) ==
  /\ agreeing # "no"
  /\ agreeing = "own" => f = GetMediaType(m_Position)

(* The allocator of a connection is agreed on only for the input's subtype. *)
DecideBufferSize(f) == Subtype[f] = Subtype[m_InputVideoType']

(* How an attempt ends.  A failed one makes way for the next type, if it   *)
(* was not the type given.                                                 *)
Attempted(f, fails) ==
  /\ downstream' = AttemptConnection(downstream, fails)
  /\ agreeing' = IF downstream'.connector \/ m_State' = "Crashed" \/ agreeing = "given"
                 THEN "no" ELSE agreeing
  /\ m_Position' = IF agreeing' = "own" THEN m_Position + 1 ELSE 0
  /\ untried' = IF agreeing' = "own" /\ Is16Bit(m_InputVideoType') = Is16Bit(m_InputVideoType)
                THEN untried \ {f} ELSE {}
  /\ UNCHANGED <<fixed, upstream, subtitles>>

(* The input pin is not connected or the other pin is no IMemInputPin: the *)
(* type is not set.                                                        *)
CannotConnect(f, fails) ==
  /\ "interface" \in fails
  /\ UNCHANGED <<m_State, types, setup, reconnects>>
  /\ Attempted(f, fails)

(* The type is set before downstream is asked. *)
DownstreamRefuses(f, fails) ==
  /\ "interface" \notin fails /\ ~Accepts(downstream, fails)
  /\ outputType' = f
  /\ UNCHANGED <<m_State, inputType, m_InputVideoType, setup, reconnects>>
  /\ Attempted(f, fails)

Completes(fails) == fails \cap {"interface", "filter"} = {} /\ Accepts(downstream, fails)

(* DecideAllocator comes last: when it fails the pin is not connected, but *)
(* what CompleteConnect has done is not undone.                            *)
ConnectOutputSame(f, fails) ==
  /\ Completes(fails) /\ f = inputType
  /\ outputType' = f
  /\ UNCHANGED <<inputType, m_InputVideoType, reconnects>>
  /\ SetUp(m_InputVideoType, f)
  /\ Attempted(f, fails)

(* Mutant: the input pin takes the type but the filter's copy stays. *)
ConnectOutputOther_KeepsType(f, fails) ==
  /\ Completes(fails) /\ f # inputType /\ Len(reconnects) < MaxReconnects
  /\ outputType' = f
  /\ reconnects' = Append(reconnects, f)
  /\ inputType' = f /\ UNCHANGED m_InputVideoType
  /\ SetUp(m_InputVideoType, f)
  /\ Attempted(f, fails)

(* QueryAccept of the own pin answers S_FALSE for a type it would reject,  *)
(* which the code takes for success, so any type goes on to the request.   *)
ConnectOutputOther(f, fails) ==
  /\ Completes(fails) /\ f # inputType /\ Len(reconnects) < MaxReconnects
  /\ outputType' = f
  /\ reconnects' = Append(reconnects, f)
  /\ inputType' = f /\ m_InputVideoType' = f
  /\ SetUp(f, f)
  /\ Attempted(f, fails)

(* The request itself fails: the connection is given up. *)
ReconnectRefused(f, fails) ==
  /\ "filter" \in fails /\ f # inputType /\ Accepts(downstream, fails)
  /\ outputType' = f
  /\ UNCHANGED <<m_State, inputType, m_InputVideoType, setup, reconnects>>
  /\ Attempted(f, fails)

(* The manager breaks the input connection at both ends and makes it again *)
(* with the type asked for, or fails to; a pin that is not connected it    *)
(* leaves so.                                                              *)
Reconnect ==
  /\ reconnects # << >> /\ Idle
  /\ reconnects' = Tail(reconnects)
  /\ IF Whole(upstream)
     THEN \E fails \in Failures :
            AttemptInput(DisconnectInput(DisconnectOutput(upstream)), Head(reconnects), fails)
     ELSE UNCHANGED <<upstream, inputType, m_InputVideoType>>
  /\ UNCHANGED <<fixed, m_State, downstream, outputType, subtitles, setup, enumeration>>

-----------------------------------------------------------------------------
(* The graph's filters change their state together; the video filter's     *)
(* pins are activated only if both are connected.                          *)
Run ==
  /\ Idle /\ reconnects = << >>
  /\ m_State' = "Running"
  /\ upstream' = ActiveOutput(upstream)
  /\ downstream' = IF upstream.receiver THEN ActiveOutput(downstream) ELSE downstream
  /\ UNCHANGED <<fixed, types, subtitles, setup, reconnects, enumeration>>

(* Both ends of a link are made inactive, the filter's if both of its pins *)
(* are connected.                                                          *)
Stop ==
  LET active == upstream.receiver /\ downstream.connector
      ours(link, inactive) == IF active THEN inactive ELSE link
  IN  /\ m_State = "Running"
      /\ m_State' = "Stopped"
      /\ upstream' = InactiveOutput(ours(upstream, InactiveInput(upstream)))
      /\ downstream' = InactiveInput(ours(downstream, InactiveOutput(downstream)))
      /\ UNCHANGED <<fixed, types, subtitles, setup, reconnects, enumeration>>

Streaming == m_State = "Running" /\ Whole(upstream) /\ Whole(downstream)

(* Transform: the downstream filter's buffer comes with a type of its own, *)
(* or the upstream filter's sample does, which CBaseInputPin::Receive has   *)
(* checked.  The pins take the types and the strides are computed anew;     *)
(* buffer and blender are not.                                              *)
FormatChange(f, g) ==
  /\ Streaming
  /\ f # outputType \/ g # inputType
  /\ g # inputType => CheckInputType(g)
  /\ outputType' = f /\ inputType' = g
  /\ m_InputVideoType' = IF g = inputType THEN m_InputVideoType ELSE g
  /\ m_Strides' = ComputeStrides(m_InputVideoType', f)
  /\ UNCHANGED <<fixed, m_State, links, subtitles, m_SubtitleRenderer, m_uAlignedBufferLength,
                 m_pSubPicBlender, reconnects, enumeration>>

-----------------------------------------------------------------------------
(* Without an input connection CheckConnect fails; a buffer size that is   *)
(* refused is refused for either allocator.                                *)
TryType(f) ==
  /\ NextType(f)
  /\ \E fails \in Failures :
       /\ ~upstream.receiver => "interface" \in fails
       /\ \/ CannotConnect(f, fails) \/ DownstreamRefuses(f, fails)
          \/ ConnectOutputSame(f, fails) \/ ConnectOutputOther(f, fails)
          \/ ReconnectRefused(f, fails)
       /\ downstream'.connector => DecideBufferSize(f)

(* A manager that connects and disconnects in any order. *)
Next ==
  \/ \E f \in Formats : ConnectInput(f) \/ TryType(f)
  \/ ConnectOutput \/ TheirTypesTried \/ NoTypeAgreed
  \/ DisconnectUpstream \/ DisconnectDownstream \/ Reconnect
  \/ \E t \in SubtitleType : ConnectSubtitle(t)
  \/ DisconnectSubtitle
  \/ Run \/ Stop

Spec == Init /\ [][Next]_vars

(***************************************************************************)
(* A manager that connects and disconnects the inputs only while the       *)
(* output is not connected and no reconnection waits, and then disconnects *)
(* both ends of the video pin's connection, and neighbours that            *)
(* change no more than the stride while they stream: of a change of "the   *)
(* actual video type" the code says that it "can't handle that"            *)
(* (dxsubfilter.cpp:424-426).                                              *)
(***************************************************************************)
SameFrame(f, g) ==
  /\ Subtype[f] = Subtype[outputType]
  /\ Subtype[g] = Subtype[inputType] /\ SampleSize[g] = SampleSize[inputType]

BuilderStep ==
  \/ /\ ~downstream.connector /\ reconnects = << >>
     /\ \/ \E f \in Formats : ConnectInput(f)
        \/ \E t \in SubtitleType : ConnectSubtitle(t)
        \/ m_State = "Stopped" /\ DisconnectSubtitle
        \/ ConnectOutput
  \/ \E f \in Formats : TryType(f)
  \/ TheirTypesTried \/ NoTypeAgreed
  \/ DisconnectDownstream \/ Reconnect
  \/ Run \/ Stop
  \/ \E f, g \in Formats : FormatChange(f, g) /\ SameFrame(f, g)

BuilderNext ==
  \/ DisconnectUpstream /\ ~downstream.connector /\ reconnects = << >>
  \/ ~Half(upstream) /\ BuilderStep

BuilderSpec == Init /\ [][BuilderNext]_vars

-----------------------------------------------------------------------------
(* Every variable has its type. *)
TypeOK ==
  /\ embedded \in BOOLEAN /\ m_bExternalSubtitlesLoaded \in BOOLEAN
  /\ m_State \in {"Stopped", "Running", "Crashed"}
  /\ upstream \in Link /\ downstream \in Link
  /\ {inputType, outputType, m_InputVideoType} \subseteq Formats \cup {None}
  /\ subtitle \in BOOLEAN
  /\ m_CurrentSubtitleType \in SubtitleType
  /\ m_SubtitleRenderer \in {None, "NONE", "SRT"}
  /\ m_uAlignedBufferLength \in Nat
  /\ m_Strides \in (Formats \cup {None}) \X (Formats \cup {None})
  /\ m_pSubPicBlender \in {None, "NV12", "YV12"}
  /\ reconnects \in Seq(Formats)
  /\ agreeing \in {"no", "given", "theirs", "own"}
  /\ m_Position \in Nat /\ untried \subseteq Formats

(* The assertion of Transform, dxsubfilter.cpp:448, on every frame: the    *)
(* two video pins have one subtype.                                        *)
FormatsMatch == Streaming => Subtype[inputType] = Subtype[outputType]

(* Every frame fits what was set up for it, through failed attempts to     *)
(* connect the output and reconnections that come late: the pins have one  *)
(* subtype and the filter the input's type, the frame is as long as the    *)
(* buffer Transform copies it to (dxsubfilter.cpp:474-477), the strides    *)
(* are those of the two types and the blender is that of the subtype.      *)
FrameFits ==
  Streaming =>
    /\ FormatsMatch
    /\ m_InputVideoType = inputType
    /\ m_uAlignedBufferLength = SampleSize[m_InputVideoType]
    /\ m_Strides = ComputeStrides(inputType, outputType)
    /\ m_pSubPicBlender = AssignSubPicBlender(inputType)

(* Lines and frames reach a renderer for the type the subtitle pin has:    *)
(* the renderer made when the output was connected is not out of date.     *)
RendererCurrent ==
  Streaming => m_SubtitleRenderer = CreateSubtitleRenderer(m_CurrentSubtitleType)

(* What SubtitleInputPin.h:32-34 says, and the code does not keep: the     *)
(* pin's Disconnect and CompleteConnect "handle subtitle stream switching",*)
(* so that a frame is drawn by a renderer for the stream now connected.    *)
StreamSwitched ==
  Streaming /\ subtitle => m_SubtitleRenderer = CreateSubtitleRenderer(m_CurrentSubtitleType)

(* Wherever an attempt to connect fails, and whichever end of a connection *)
(* is broken first, no pin keeps a pointer, a reference or an allocator of *)
(* a connection that is gone, two connected pins have one allocator, and   *)
(* no allocator stays committed in a stopped graph.                        *)
ConnectionSound ==
  \A link \in {upstream, downstream} :
    /\ Sound(link)
    /\ m_State = "Stopped" => link.committed = {}

(* A pin is connected on one side only where a connection was made and one *)
(* of the two Disconnects has been called: an attempt that fails, be it    *)
(* after the input pin has accepted, leaves neither pin connected.         *)
BothOrNeither ==
  [][/\ Half(upstream') => Half(upstream) \/ Whole(upstream)
     /\ Half(downstream') => Half(downstream) \/ Whole(downstream)]_vars

(* The output pin gives up only when all types the filter supports for its *)
(* input have been tried, though attempts that fail late change the type   *)
(* its enumerator goes by.  Left out is an attempt that takes the filter   *)
(* from 16 bit to 8: the enumerator is not told that the list is another.  *)
AllTried == agreeing = "no" => untried = {}
=============================================================================
