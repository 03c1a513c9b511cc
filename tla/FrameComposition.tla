--------------------------- MODULE FrameComposition ---------------------------
(***************************************************************************)
(* What CDXSubFilter::Transform does to the bytes of a frame: the input is *)
(* copied to the aligned buffer, the pictures are blended into it one      *)
(* after the other (the rows of one picture in parallel, so in any order), *)
(* and the result is copied row by row to an output buffer that may have   *)
(* longer rows.  Buffers are functions from addresses to what is there: a  *)
(* byte and the place of the picture (its site) that it belongs to.        *)
(*                                                                         *)
(* The pictures lie inside of the frame, as the renderer asserts, and only *)
(* come with a format that has a blender.                                  *)
(***************************************************************************)
EXTENDS SubPicBlending, Sequences, FiniteSets

CONSTANTS
  Formats,     \* video subtypes of the connection
  W, H,        \* biWidth and biHeight of the input
  OutWidths,   \* widths that downstream gives its samples
  SubtitlePictures,    \* what the renderer may return
  FrameByte,   \* the bytes of an input frame, by site
  MaxSubpics, MaxFrames   \* bounds: pictures on a frame, frames

Planar == {"NV12", "YV12"}
SixteenBit == {"P010", "P016", "P210", "P216"}

(* A picture: its origin, its size, its row length in pixels and its data. *)
IsPicture(p) ==
  /\ p.x \in Nat /\ p.y \in Nat /\ p.w \in Nat \ {0} /\ p.h \in Nat \ {0}
  /\ p.stride \in Nat /\ p.stride >= p.w
  /\ p.data \in [0 .. p.stride * p.h - 1 -> Premultiplied]
  /\ p.x + p.w <= W /\ p.y + p.h <= H

ASSUME FrameCompositionAssumption ==
  /\ Formats \subseteq Planar \cup SixteenBit \cup {"YUY2", "AYUV"}
  /\ W \in Nat \ {0} /\ W % 2 = 0 /\ H \in Nat \ {0} /\ H % 2 = 0
  /\ \A w \in OutWidths : w \in Nat /\ w >= W /\ w % 2 = 0
  /\ W \in OutWidths
  /\ \A p \in SubtitlePictures : IsPicture(p)
  /\ MaxSubpics \in Nat /\ MaxFrames \in Nat

-----------------------------------------------------------------------------
(* Where the formats have their bytes: planes of luma and chroma, or, in   *)
(* the packed and the 16-bit formats, rows of bytes.                       *)
BytesPerPixel(format) ==
  CASE format \in Planar -> 1
    [] format = "AYUV" -> 4
    [] OTHER -> 2

RowsOfBytes(format) ==
  CASE format \in {"P010", "P016"} -> H + H \div 2
    [] format \in {"P210", "P216"} -> 2 * H
    [] OTHER -> H

Sites(format) ==
  IF format \in Planar
  THEN ({"Y"} \X (0 .. W - 1) \X (0 .. H - 1))
       \cup ({"U", "V"} \X (0 .. W \div 2 - 1) \X (0 .. H \div 2 - 1))
  ELSE {"rows"} \X (0 .. BytesPerPixel(format) * W - 1) \X (0 .. RowsOfBytes(format) - 1)

ASSUME FrameByteAssumption ==
  \A f \in Formats : \A site \in Sites(f) : FrameByte[site] \in Byte

(* The address of a site in a buffer whose rows are width pixels long. *)
AddressOf(format, width, site) ==
  LET x == site[2]  y == site[3]
  IN  CASE site[1] = "rows" -> BytesPerPixel(format) * width * y + x
        [] site[1] = "Y" -> width * y + x
        [] site[1] = "U" /\ format = "NV12" -> width * H + width * y + 2 * x
        [] site[1] = "V" /\ format = "NV12" -> width * H + width * y + 2 * x + 1
        [] site[1] = "V" /\ format = "YV12" -> width * H + (width \div 2) * y + x
        [] site[1] = "U" /\ format = "YV12" ->
             width * H + (width * H) \div 4 + (width \div 2) * y + x

(* CorrectVideoMediaType: biSizeImage, the size of the buffers. *)
SizeImage(format, width) ==
  CASE format \in {"P010", "P016"} -> H * width * 3
    [] format \in {"P210", "P216", "AYUV"} -> H * width * 4
    [] format \in Planar -> (H * width * 3) \div 2
    [] format = "YUY2" -> H * width * 2

(* An input frame, as upstream fills it. *)
InputFrame ==
  [format \in Formats |->
     [address \in 0 .. SizeImage(format, W) - 1 |->
        LET s == CHOOSE s \in Sites(format) : AddressOf(format, W, s) = address
        IN  [site |-> s, byte |-> FrameByte[s]]]]

(* ComputeStrides, for the input's format and size and the output's width. *)
ComputeStrides(format, width) ==
  LET y == CASE format \in SixteenBit \cup {"YUY2"} -> 2
             [] format = "AYUV" -> 4
             [] format \in Planar -> 1
  IN  [inY |-> W * y, outY |-> width * y,
       inUV |-> CASE format = "YV12" -> (W * y) \div 2
                  [] format \in {"YUY2", "AYUV"} -> 1
                  [] OTHER -> W * y,
       outUV |-> CASE format = "YV12" -> (width * y) \div 2
                   [] format \in {"YUY2", "AYUV"} -> 1
                   [] OTHER -> width * y]

VARIABLES
  format,       \* subtype of m_InputVideoType and of the output
  outWidth,     \* biWidth of the output type
  stride,       \* m_InputStrideY, m_OutputStrideY and the same for UV
  pBuffer,      \* m_pAlignedBuffer
  pOut,         \* the output sample's buffer
  shown,        \* the pictures of the frame
  subpics,      \* those still to be blended
  lumaRows,     \* rows of the first of them still to be blended
  chromaRows,
  row,          \* rows copied to the output
  step,         \* where Transform is
  frames,       \* history: frames begun
  strayed       \* history: an access went outside of a buffer

frameVars == <<format, outWidth, stride, pBuffer, pOut, shown, subpics, lumaRows,
          chromaRows, row, step, frames, strayed>>

(* CompleteConnect: input and output have one type. *)
FrameInit ==
  /\ format \in Formats /\ outWidth = W
  /\ stride = ComputeStrides(format, W)
  /\ pBuffer = <<>> /\ pOut = <<>>
  /\ shown = <<>> /\ subpics = <<>> /\ lumaRows = {} /\ chromaRows = {}
  /\ row = 0 /\ step = "idle" /\ frames = 0 /\ strayed = FALSE

Blank == [site |-> <<"none", 0, 0>>, byte |-> 0]

(* What is at an address; nothing known is there outside of the buffer. *)
At(buffer, address) ==
  IF address \in DOMAIN buffer THEN buffer[address] ELSE Blank

-----------------------------------------------------------------------------
(* The rows that operator() of the blender of either format visits.        *)
(* Mutant: a last single row has chroma too.                               *)
ChromaRows_Rounded(p) == 0 .. (p.h + 1) \div 2 - 1

LumaRows(p) == 0 .. p.h - 1
ChromaRows(p) == 0 .. (p.h - 1) \div 2 - 1
ChromaColumns(p) == 0 .. (p.w - 1) \div 2 - 1

FirstRows(pictures) ==
  /\ lumaRows' = IF pictures = <<>> THEN {} ELSE LumaRows(Head(pictures))
  /\ chromaRows' = IF pictures = <<>> THEN {} ELSE ChromaRows(Head(pictures))

(* Transform up to the blending.  Downstream may have given the sample a   *)
(* type of its own.                                                        *)
StartFrame(width, pictures) ==
  /\ step = "idle" /\ frames < MaxFrames
  /\ format \in Planar \/ pictures = <<>>
  /\ outWidth' = width
  /\ stride' = IF width # outWidth THEN ComputeStrides(format, width) ELSE stride
  /\ pBuffer' = InputFrame[format]
  /\ pOut' = [address \in 0 .. SizeImage(format, width) - 1 |-> Blank]
  /\ shown' = pictures /\ subpics' = pictures /\ FirstRows(pictures)
  /\ row' = 0 /\ frames' = frames + 1
  /\ step' = "blending"
  /\ UNCHANGED <<format, strayed>>

Pixel(p, index) == IF index \in DOMAIN p.data THEN p.data[index] ELSE Transparent

LumaAddress(p, x, y) == W * (p.y + y) + x + p.x

(* One row of luma. *)
BlendLumaRow(y) ==
  /\ step = "blending" /\ y \in lumaRows
  /\ LET p == Head(subpics)
         place == [x \in 0 .. p.w - 1 |-> LumaAddress(p, x, y)]
         column(address) == CHOOSE x \in 0 .. p.w - 1 : place[x] = address
         written == {place[x] : x \in 0 .. p.w - 1}
         read == {p.stride * y + x : x \in 0 .. p.w - 1}
     IN  /\ pBuffer' = [address \in DOMAIN pBuffer |->
              IF address \in written
              THEN [pBuffer[address] EXCEPT !.byte =
                      BlendLuma(Pixel(p, p.stride * y + column(address)), @)]
              ELSE pBuffer[address]]
         /\ strayed' = (strayed \/ ~(written \subseteq DOMAIN pBuffer /\ read \subseteq DOMAIN p.data))
  /\ lumaRows' = lumaRows \ {y}
  /\ UNCHANGED <<format, outWidth, stride, pOut, shown, subpics, chromaRows, row, step, frames>>

(* Where the chroma of a column and row goes: one plane of pairs in NV12,  *)
(* a plane of V and a plane of U in YV12.  Mutant: U comes first.          *)
ChromaAddress_USwapped(p, plane, x, y) ==
  LET column == x + p.x \div 2  line == p.y \div 2 + y
  IN  IF format = "NV12"
      THEN W * H + W * line + column * 2 + (IF plane = "U" THEN 0 ELSE 1)
      ELSE W * H + (IF plane = "V" THEN (W * H) \div 4 ELSE 0) + (W \div 2) * line + column

ChromaAddress(p, plane, x, y) ==
  LET column == x + p.x \div 2  line == p.y \div 2 + y
  IN  IF format = "NV12"
      THEN W * H + W * line + column * 2 + (IF plane = "U" THEN 0 ELSE 1)
      ELSE W * H + (IF plane = "U" THEN (W * H) \div 4 ELSE 0) + (W \div 2) * line + column

(* One row of chroma, after all rows of luma: each byte from the left two  *)
(* of four pixels.                                                         *)
BlendChromaRow(y) ==
  /\ step = "blending" /\ lumaRows = {} /\ y \in chromaRows
  /\ LET p == Head(subpics)
         places == {"U", "V"} \X ChromaColumns(p)
         address(place) == ChromaAddress(p, place[1], place[2], y)
         written == {address(place) : place \in places}
         upper(x) == p.stride * (2 * y) + 2 * x
         read == {upper(x) : x \in ChromaColumns(p)} \cup {upper(x) + p.stride : x \in ChromaColumns(p)}
         blended(place, d) ==
           LET c1 == Pixel(p, upper(place[2]))
               c2 == Pixel(p, upper(place[2]) + p.stride)
           IN  IF place[1] = "U"
               THEN BlendChroma(ConvertBGRAToUBT601(c1), ConvertBGRAToUBT601(c2), c1.a, c2.a, d)
               ELSE BlendChroma(ConvertBGRAToVBT601(c1), ConvertBGRAToVBT601(c2), c1.a, c2.a, d)
     IN  /\ pBuffer' = [a \in DOMAIN pBuffer |->
              IF a \in written
              THEN [pBuffer[a] EXCEPT !.byte =
                      blended(CHOOSE place \in places : address(place) = a, @)]
              ELSE pBuffer[a]]
         /\ strayed' = (strayed \/ ~(written \subseteq DOMAIN pBuffer /\ read \subseteq DOMAIN p.data))
  /\ chromaRows' = chromaRows \ {y}
  /\ UNCHANGED <<format, outWidth, stride, pOut, shown, subpics, lumaRows, row, step, frames>>

NextPicture ==
  /\ step = "blending" /\ subpics # <<>> /\ lumaRows = {} /\ chromaRows = {}
  /\ subpics' = Tail(subpics) /\ FirstRows(Tail(subpics))
  /\ UNCHANGED <<format, outWidth, stride, pBuffer, pOut, shown, row, step, frames, strayed>>

Blended ==
  /\ step = "blending" /\ subpics = <<>>
  /\ step' = "copying"
  /\ UNCHANGED <<format, outWidth, stride, pBuffer, pOut, shown, subpics,
                 lumaRows, chromaRows, row, frames, strayed>>

-----------------------------------------------------------------------------
(* CopyBuffer: the rows as memcpy takes them, first H of luma and then     *)
(* what the length of the data leaves; in the 16-bit formats all alike.    *)
ChromaRowsToCopy == (SizeImage(format, W) - stride.inY * H) \div stride.inUV

RowsToCopy ==
  IF format \in SixteenBit THEN SizeImage(format, W) \div stride.inY
  ELSE H + ChromaRowsToCopy

(* Source, target and length of a row. *)
RowAt(i) ==
  IF format \in SixteenBit \/ i < H
  THEN [from |-> stride.inY * i, to |-> stride.outY * i, length |-> stride.inY]
  ELSE [from |-> stride.inY * H + stride.inUV * (i - H),
        to |-> stride.outY * H + stride.outUV * (i - H), length |-> stride.inUV]

CopyRow ==
  /\ step = "copying" /\ row < RowsToCopy
  /\ LET r == RowAt(row)
         written == r.to .. r.to + r.length - 1
         read == r.from .. r.from + r.length - 1
     IN  /\ pOut' = [a \in DOMAIN pOut |->
                       IF a \in written THEN At(pBuffer, r.from + (a - r.to)) ELSE pOut[a]]
         /\ strayed' = (strayed \/ ~(written \subseteq DOMAIN pOut /\ read \subseteq DOMAIN pBuffer))
  /\ row' = row + 1
  /\ UNCHANGED <<format, outWidth, stride, pBuffer, shown, subpics, lumaRows,
                 chromaRows, step, frames>>

Copied ==
  /\ step = "copying" /\ row = RowsToCopy
  /\ step' = "done"
  /\ UNCHANGED <<format, outWidth, stride, pBuffer, pOut, shown, subpics,
                 lumaRows, chromaRows, row, frames, strayed>>

(* The sample goes downstream, and the next one comes. *)
Return ==
  /\ step = "done"
  /\ step' = "idle" /\ pBuffer' = <<>> /\ pOut' = <<>> /\ shown' = <<>> /\ row' = 0
  /\ UNCHANGED <<format, outWidth, stride, subpics, lumaRows, chromaRows, frames, strayed>>

PictureLists == UNION {[1 .. n -> SubtitlePictures] : n \in 0 .. MaxSubpics}

FrameNext ==
  \/ \E width \in OutWidths, pictures \in PictureLists : StartFrame(width, pictures)
  \/ \E y \in 0 .. H - 1 : BlendLumaRow(y) \/ BlendChromaRow(y)
  \/ NextPicture \/ Blended \/ CopyRow \/ Copied \/ Return

FrameSpec == FrameInit /\ [][FrameNext]_frameVars

-----------------------------------------------------------------------------
(* The frame as a viewer should see it: at each site the pictures that     *)
(* cover it, in their order, over the byte of the input.                   *)
Covers(p, site) ==
  LET x == site[2]  y == site[3]
  IN  CASE site[1] = "Y" -> x \in p.x .. p.x + p.w - 1 /\ y \in p.y .. p.y + p.h - 1
        [] site[1] \in {"U", "V"} ->
             /\ x - p.x \div 2 \in 0 .. (p.w - 1) \div 2 - 1
             /\ y - p.y \div 2 \in 0 .. (p.h - 1) \div 2 - 1
        [] OTHER -> FALSE

Over(p, site, d) ==
  LET x == site[2]  y == site[3]
      colour(i, j) == p.data[p.stride * j + i]
      top == colour(2 * (x - p.x \div 2), 2 * (y - p.y \div 2))
      below == colour(2 * (x - p.x \div 2), 2 * (y - p.y \div 2) + 1)
  IN  CASE site[1] = "Y" -> LumaOver(colour(x - p.x, y - p.y), d)
        [] site[1] = "U" -> ChromaOver(U(top), U(below), top.a, below.a, d)
        [] site[1] = "V" -> ChromaOver(V(top), V(below), top.a, below.a, d)

Under(p, site, d) == IF Covers(p, site) THEN Over(p, site, d) ELSE d

(* Under none, one, two, ... of the pictures. *)
Layers(pictures, site) ==
  LET byte[n \in 0 .. Len(pictures)] ==
        IF n = 0 THEN FrameByte[site] ELSE Under(pictures[n], site, byte[n - 1])
  IN  byte

Seen(pictures, site) == Layers(pictures, site)[Len(pictures)]

(* Every byte of the finished frame is where the format has it in rows of  *)
(* the output's length, belongs there, and is the input's under the        *)
(* pictures in their order, computed without a carry or a cast: blenders,  *)
(* ComputeStrides and CopyBuffer together.                                 *)
Composed ==
  step = "done" =>
    \A site \in Sites(format) :
      At(pOut, AddressOf(format, outWidth, site)) = [site |-> site, byte |-> Seen(shown, site)]

(* No row of a picture, no row of the frame reaches outside of the buffers *)
(* that were sized by CorrectVideoMediaType.                               *)
InsideBuffers == ~strayed
=============================================================================
