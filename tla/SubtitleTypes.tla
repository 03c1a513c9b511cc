---------------------------- MODULE SubtitleTypes ----------------------------
(* The subtitle formats and which renderer the factory makes for each       *)
(* (source/subtitlecore/SubtitleCoreEnumerations.h,                         *)
(* SubtitleRendererFactory.cpp).                                            *)

SubtitleType == {"NONE", "ASS", "SSA", "SRT", "VOBSUB"}

(* The extensions in the order they are tried in. *)
SubtitleFileExtensions == <<".ass", ".ssa", ".srt", ".idx">>

MapFileExtToSubtitleType ==
  [ext \in {".ass", ".ssa", ".srt", ".idx"} |->
     CASE ext = ".ass" -> "ASS" [] ext = ".srt" -> "SRT"
       [] ext = ".ssa" -> "SSA" [] ext = ".idx" -> "VOBSUB"]

(* A null pointer. *)
None == "none"

(* The factory knows one text format; for the others it returns nullptr.    *)
CreateSubtitleRenderer(type) == IF type \in {"SRT", "NONE"} THEN type ELSE None

(* The flag and the type that looking for external subtitles can leave: an  *)
(* .idx without its .sub takes back the flag, but not the type.             *)
AfterLoading ==
  {<<FALSE, "NONE">>, <<FALSE, "VOBSUB">>} \cup {TRUE} \X (SubtitleType \ {"NONE"})
==============================================================================
