---------------------------- MODULE SubPicBlending -----------------------------
(***************************************************************************)
(* The arithmetic of SubPicBlender: how a pixel of a subtitle picture      *)
(* (premultiplied BGRA) changes the bytes of a frame (BT.601 YUV), with    *)
(* the tables of 16-bit entries and the casts to a byte as the code has    *)
(* them.                                                                   *)
(***************************************************************************)
EXTENDS Integers

Byte == 0 .. 255

(* A colour whose components are multiplied by its alpha: Direct2D draws   *)
(* the pictures in D2D1_ALPHA_MODE_PREMULTIPLIED.                          *)
Colour == [r : Byte, g : Byte, b : Byte, a : Byte]
Premultiplied == {c \in Colour : c.r <= c.a /\ c.g <= c.a /\ c.b <= c.a}

Transparent == [r |-> 0, g |-> 0, b |-> 0, a |-> 0]

(* What a short holds of an integer, and a byte of a short. *)
Short(i) == ((i + 32768) % 65536) - 32768
ToByte(i) == i % 256

(* A table of SubPicBlender(): entry i of coefficient k. *)
Table(k, i) == Short(k * i)

ConvertBGRAToYBT601(c) ==
  (Table(77, c.r) + Table(150, c.g) + Table(29, c.b) + 128) \div 256
ConvertBGRAToUBT601(c) ==
  (Table(-37, c.r) + Table(-74, c.g) + Table(111, c.b) + 128) \div 256
ConvertBGRAToVBT601(c) ==
  (Table(112, c.r) + Table(-94, c.g) + Table(-18, c.b) + 128) \div 256

AlphaBlend(d, a) == (d * a) \div 256

min_nb(x, y) == IF x < y THEN x ELSE y

(* A byte of the luma plane under a pixel. *)
BlendLuma(c, d) == ToByte(ConvertBGRAToYBT601(c) + AlphaBlend(d, 255 - c.a))

(* A byte of a chroma plane under two pixels, one below the other, of      *)
(* chroma u1 and u2 and alpha a1 and a2.                                   *)
BlendChroma(u1, u2, a1, a2, d) ==
  LET finalA == (a1 + a2) \div 2
      finalU == (u1 + u2) \div 2
      dstU == finalU + ((d - 128) * (255 - finalA)) \div 256 + 128
  IN  ToByte(min_nb(dstU, 255))

-----------------------------------------------------------------------------
(* What the arithmetic stands for, in integers without a width. *)
Luma(c) == (77 * c.r + 150 * c.g + 29 * c.b + 128) \div 256
U(c) == (-37 * c.r - 74 * c.g + 111 * c.b + 128) \div 256
V(c) == (112 * c.r - 94 * c.g - 18 * c.b + 128) \div 256

LumaOver(c, d) == Luma(c) + (d * (255 - c.a)) \div 256

ChromaOver(u1, u2, a1, a2, d) ==
  128 + (u1 + u2) \div 2 + ((d - 128) * (255 - (a1 + a2) \div 2)) \div 256
=============================================================================
