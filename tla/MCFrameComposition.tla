-------------------------- MODULE MCFrameComposition --------------------------
(* Constants of the instance of FrameComposition that TLC checks. *)
EXTENDS FrameComposition

White == [r |-> 255, g |-> 255, b |-> 255, a |-> 255]
Green == [r |-> 0, g |-> 230, b |-> 2, a |-> 230]
Blue == [r |-> 0, g |-> 0, b |-> 4, a |-> 4]
Red == [r |-> 129, g |-> 0, b |-> 3, a |-> 129]
Palette == <<White, Green, Blue, Red, Transparent>>

Picture(px, py, pw, ph, padding, shade) ==
  [x |-> px, y |-> py, w |-> pw, h |-> ph, stride |-> pw + padding,
   data |-> [i \in 0 .. (pw + padding) * ph - 1 |-> Palette[1 + ((i + shade) % 5)]]]

(* The whole frame; an odd origin; a corner with padded rows; one pixel.   *)
MCPictures ==
  {Picture(0, 0, 6, 4, 0, 0), Picture(1, 1, 4, 3, 0, 1),
   Picture(2, 1, 4, 3, 1, 3), Picture(5, 3, 1, 1, 0, 1)}

MCFormats == Planar \cup {"P010", "P216", "YUY2", "AYUV"}

(* Black, white and what lies between. *)
MCFrameByte ==
  [s \in UNION {Sites(f) : f \in Formats} |->
     <<0, 255, 128, 17, 200>>[1 + ((s[2] + 3 * s[3]) % 5)]]
=============================================================================
