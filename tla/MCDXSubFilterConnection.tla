---------------------- MODULE MCDXSubFilterConnection ----------------------
(* Instances of DXSubFilterConnection for TLC: two 8-bit subtypes and a     *)
(* 16-bit one, without a blender, each with two strides, and a subtype the  *)
(* input pin rejects.                                                       *)
EXTENDS DXSubFilterConnection

NV12 == {"nv12", "nv12stride"}
YV12 == {"yv12", "yv12stride"}
P010 == {"p010", "p010stride"}

MCEightBit == <<"NV12", "YV12">>
MCSixteenBit == <<"P010">>
MCFormats == NV12 \cup YV12 \cup P010 \cup {"rgb32"}
MCSubtype == [f \in MCFormats |->
  CASE f \in NV12 -> "NV12" [] f \in YV12 -> "YV12" [] f \in P010 -> "P010" [] f = "rgb32" -> "RGB32"]
MCFrame == [f \in MCFormats |->
  IF f \in {"nv12stride", "yv12stride", "p010stride"} THEN "wide" ELSE "plain"]
MCSampleSize == [f \in MCFormats |-> IF f \in P010 THEN 12 ELSE IF f = "rgb32" THEN 16 ELSE 6]
=============================================================================
