------------------------------ MODULE SRTScript ------------------------------
(***************************************************************************)
(* External subtitles from the file to the renderer's text: CSubtitleInput-*)
(* Pin::LoadExternalSubtitles reads every file next to the video that has  *)
(* a subtitle extension, and each time the output pin is connected         *)
(* LoadSubtitleRenderer makes a renderer and hands it the script, which    *)
(* SRTSubtitleRenderer::ParseScript cuts into blocks and ParseLine strips  *)
(* of its tags.                                                            *)
(*                                                                         *)
(* A line of a script is a pair <<kind, value>>; the value of a text line  *)
(* is a sequence of items, each a character or a tag.  What a character is *)
(* and how a time is written are left out, and so is an opening bracket    *)
(* that is never closed.                                                   *)
(***************************************************************************)
EXTENDS Integers, Sequences, FiniteSets, FiniteSetsExt, SequencesExt, SubtitleTypes

CONSTANTS
  Values,      \* the characters, the names of tags and the times
  Directories  \* what can lie next to the video

VARIABLES
  directory,                   \* the files; never changes
  ext,                         \* LoadExternalSubtitles' i
  m_bExternalSubtitlesLoaded, m_CurrentSubtitleType, m_ExternalSubtitleScript,
  status,                      \* of the whole, see TypeOK
  i,                           \* ParseScript's
  entries                      \* what ParseLine was called with, and the text it made of it

pin == <<m_bExternalSubtitlesLoaded, m_CurrentSubtitleType, m_ExternalSubtitleScript>>
vars == <<directory, ext, pin, status, i, entries>>

-----------------------------------------------------------------------------
Char(c) == <<"char", c>>
Open(name) == <<"open", name>>
Close(name) == <<"close", name>>

Empty == <<"empty", << >>>>
Number == <<"number", << >>>>
Time(t) == <<"time", <<Char(t)>>>>
Text(items) == <<"text", items>>

IsTag(item) == item[1] # "char"
Newline == Char("newline")
Styles == {"b", "i", "u", "s"}

(***************************************************************************)
(* A directory has the files with a subtitle extension, each its lines and *)
(* whether the last of them is ended by a newline, whether it has a .sub,  *)
(* and the subtitles that a good .srt is written from, each a time and     *)
(* lines of text, with blanks empty lines after the last.                  *)
(***************************************************************************)
LinesOfBlock(block) ==
  <<Number, Time(block.time)>> \o [k \in DOMAIN block.text |-> Text(block.text[k])]

(* The lines of the first n subtitles, an empty line between two. *)
LinesOfFirst(blocks) ==
  LET lines[n \in 0 .. Len(blocks)] ==
        IF n = 0 THEN << >>
        ELSE lines[n - 1] \o (IF n = 1 THEN << >> ELSE <<Empty>>) \o LinesOfBlock(blocks[n])
  IN  lines

LinesOf(blocks, blanks) ==
  LinesOfFirst(blocks)[Len(blocks)] \o [k \in 1 .. blanks |-> Empty]

Items == {"char", "open", "close"} \X Values
LineTypes == {"empty", "number", "time", "text"}

ASSUME ValuesAssumption == Newline[2] \in Values

ASSUME DirectoryAssumption ==
  \A d \in Directories :
    /\ d.sub \in BOOLEAN /\ d.blanks \in Nat
    /\ d.blocks \in Seq([time : Values, text : Seq(Seq(Items)) \ {<< >>}])
    /\ \A x \in DOMAIN d.files :
         d.files[x].newline \in BOOLEAN /\ d.files[x].lines \in Seq(LineTypes \X Seq(Items))

(* getline reports eof for a line that is not ended, and the line is lost. *)
LinesRead(file) == IF file.newline THEN file.lines ELSE Front(file.lines)

Present(x) == x \in DOMAIN directory.files

-----------------------------------------------------------------------------
Init ==
  /\ directory \in Directories
  /\ ext = 1
  /\ m_bExternalSubtitlesLoaded = FALSE
  /\ m_CurrentSubtitleType = "NONE"
  /\ m_ExternalSubtitleScript = << >>
  /\ status = "loading"
  /\ i = 0
  /\ entries = << >>

(* Mutant: an .idx without its .sub takes back the type, not the flag. *)
TryExtension_ResetsType ==
  LET x == SubtitleFileExtensions[ext] IN
  /\ status = "loading" /\ ext <= Len(SubtitleFileExtensions)
  /\ ext' = ext + 1
  /\ IF Present(x)
     THEN /\ m_bExternalSubtitlesLoaded' = TRUE
          /\ m_CurrentSubtitleType' =
               IF x # ".idx" \/ directory.sub THEN MapFileExtToSubtitleType[x] ELSE "NONE"
          /\ m_ExternalSubtitleScript' =
               m_ExternalSubtitleScript \o LinesRead(directory.files[x])
     ELSE UNCHANGED pin
  /\ UNCHANGED <<directory, status, i, entries>>

(* One pass of LoadExternalSubtitles' loop, which no file found ends. *)
TryExtension ==
  LET x == SubtitleFileExtensions[ext] IN
  /\ status = "loading" /\ ext <= Len(SubtitleFileExtensions)
  /\ ext' = ext + 1
  /\ IF Present(x)
     THEN /\ m_bExternalSubtitlesLoaded' = (x # ".idx" \/ directory.sub)
          /\ m_CurrentSubtitleType' = MapFileExtToSubtitleType[x]
          /\ m_ExternalSubtitleScript' =
               m_ExternalSubtitleScript \o LinesRead(directory.files[x])
     ELSE UNCHANGED pin
  /\ UNCHANGED <<directory, status, i, entries>>

Loaded ==
  /\ status = "loading" /\ ext > Len(SubtitleFileExtensions)
  /\ status' = "ready"
  /\ UNCHANGED <<directory, ext, pin, i, entries>>

(* Also when the output is connected again.  A renderer the factory does    *)
(* not have is called through a null pointer.                               *)
LoadSubtitleRenderer ==
  /\ status \in {"ready", "parsed"}
  /\ status' = IF ~m_bExternalSubtitlesLoaded THEN "parsed"
               ELSE IF CreateSubtitleRenderer(m_CurrentSubtitleType) = None THEN "crashed"
               ELSE "parsing"
  /\ i' = 2
  /\ entries' = << >>
  /\ UNCHANGED <<directory, ext, pin>>

-----------------------------------------------------------------------------
(* Mutant: a closing tag is put on the stack like any other. *)
AtTag_NeverCloses(s, tag) ==
  [text    |-> s.text,
   runs    |-> IF Len(s.text) = s.from THEN s.runs
               ELSE s.runs \cup {[range  |-> (s.from + 1) .. Len(s.text),
                                  styles |-> ToSet(s.stack) \cap Styles]},
   stack   |-> Append(s.stack, tag[2]),
   from    |-> Len(s.text),
   defined |-> s.defined]

AtTag(s, tag) ==
  [text    |-> s.text,
   runs    |-> IF Len(s.text) = s.from THEN s.runs
               ELSE s.runs \cup {[range  |-> (s.from + 1) .. Len(s.text),
                                  styles |-> ToSet(s.stack) \cap Styles]},
   stack   |-> IF tag[1] = "open" THEN Append(s.stack, tag[2])
               ELSE IF s.stack = << >> THEN s.stack ELSE Front(s.stack),
   from    |-> Len(s.text),
   defined |-> s.defined /\ (tag[1] = "close" => s.stack # << >>)]

AtItem(s, item) ==
  IF IsTag(item) THEN AtTag(s, item) ELSE [s EXCEPT !.text = Append(@, item)]

(* After none, one, two, ... of the items of a line. *)
Stripping(line) ==
  LET after[n \in 0 .. Len(line)] ==
        IF n = 0 THEN [text |-> << >>, runs |-> {}, stack |-> << >>, from |-> 0, defined |-> TRUE]
        ELSE AtItem(after[n - 1], line[n])
  IN  after

Strip(line) ==
  LET s == Stripping(line)[Len(line)]
  IN  [text    |-> IF Len(s.text) = s.from + 1 THEN SubSeq(s.text, 1, s.from) ELSE s.text,
       runs    |-> s.runs,
       defined |-> s.defined]

(* Lines of text in one, with newlines between them. *)
Joined(text) ==
  LET line[n \in 0 .. Len(text) - 1] ==
        IF n = 0 THEN text[1] ELSE line[n - 1] \o <<Newline>> \o text[n + 1]
  IN  line[Len(text) - 1]

(* The lines of the script from j to k in one. *)
Merged(j, k) == Joined([n \in 1 .. k - j + 1 |-> m_ExternalSubtitleScript[j + n - 1][2]])

CheckLineIsTimestamp(line) == line[1] = "time"

(* The empty lines that can end the block whose time is in line j: the line *)
(* after the time is taken whatever it is.                                  *)
BlockEnds(j) ==
  {k \in j + 2 .. Len(m_ExternalSubtitleScript) : m_ExternalSubtitleScript[k] = Empty}

EntryAt(j, end) ==
  [time |-> m_ExternalSubtitleScript[j], line |-> Merged(j + 1, end - 1),
   shown |-> Strip(Merged(j + 1, end - 1))]

(* Mutant: the number of the next block is not skipped. *)
ParseBlock_NoNumber ==
  /\ status = "parsing" /\ i <= Len(m_ExternalSubtitleScript) /\ BlockEnds(i) # {}
  /\ LET end == Min(BlockEnds(i)) IN
     /\ entries' = Append(entries, EntryAt(i, end))
     /\ i' = end + 1
  /\ UNCHANGED <<directory, ext, pin, status>>

(* One pass of ParseScript's loop, up to the first empty line.  The time   *)
(* is computed from whatever line stands in its place; for an empty line   *)
(* that has no defined outcome, and for one that is no time it need not.   *)
ParseBlock ==
  /\ status = "parsing" /\ i <= Len(m_ExternalSubtitleScript) /\ BlockEnds(i) # {}
  /\ LET end == Min(BlockEnds(i)) IN
     \/ /\ m_ExternalSubtitleScript[i] # Empty
        /\ entries' = Append(entries, EntryAt(i, end))
        /\ i' = end + 2
        /\ UNCHANGED status
     \/ /\ ~CheckLineIsTimestamp(m_ExternalSubtitleScript[i]) \/ ~EntryAt(i, end).shown.defined
        /\ status' = "undefined"
        /\ UNCHANGED <<i, entries>>
  /\ UNCHANGED <<directory, ext, pin>>

(* The search for the empty line does not stop at the end of the script. *)
ParsePastEnd ==
  /\ status = "parsing" /\ i <= Len(m_ExternalSubtitleScript) /\ BlockEnds(i) = {}
  /\ status' = "undefined"
  /\ UNCHANGED <<directory, ext, pin, i, entries>>

ParseEnd ==
  /\ status = "parsing" /\ i > Len(m_ExternalSubtitleScript)
  /\ status' = "parsed"
  /\ UNCHANGED <<directory, ext, pin, i, entries>>

Next == TryExtension \/ Loaded \/ LoadSubtitleRenderer \/ ParseBlock \/ ParsePastEnd \/ ParseEnd

Spec == Init /\ [][Next]_vars
-----------------------------------------------------------------------------
(***************************************************************************)
(* What the tags of a line mean, without a stack: an opening tag and a     *)
(* closing one of its name match if the tags between them do.              *)
(***************************************************************************)
Depth(line, j, k) ==
  Cardinality({m \in j .. k : line[m][1] = "open"})
    - Cardinality({m \in j .. k : line[m][1] = "close"})

Match(line, j, k) ==
  /\ line[j] = Open(line[k][2]) /\ line[k] = Close(line[j][2])
  /\ Depth(line, j, k) = 0
  /\ \A m \in j .. k - 1 : Depth(line, j, m) > 0

Characters(line) == {k \in DOMAIN line : ~IsTag(line[k])}

Balanced(line) ==
  \A m \in DOMAIN line \ Characters(line) :
    \E j, k \in DOMAIN line : m \in {j, k} /\ j < k /\ Match(line, j, k)

StylesAt(line, p) ==
  {line[j][2] : j \in {m \in 1 .. p : \E k \in p .. Len(line) : m < k /\ Match(line, m, k)}}

(* The position in the text of the character at position p of the line. *)
PlaceOf(line, p) == Cardinality({k \in Characters(line) : k <= p})

(* A text has the characters of a line, in their order. *)
OnlyTagsLost(line, text) ==
  /\ Len(text) = Cardinality(Characters(line))
  /\ \A p \in Characters(line) : text[PlaceOf(line, p)] = line[p]

LoneLast(line) ==
  Len(line) \in Characters(line) /\ (Len(line) = 1 \/ Len(line) - 1 \notin Characters(line))

(* The scripts ParseScript is written for: one file, an empty line after   *)
(* every block and at most one more at the end, tags that are supported    *)
(* and closed, and no single character after the last of them.             *)
WellFormed ==
  /\ DOMAIN directory.files = {".srt"} /\ directory.blocks # << >>
  /\ directory.files[".srt"].lines = LinesOf(directory.blocks, directory.blanks)
  /\ directory.blanks - (IF directory.files[".srt"].newline THEN 0 ELSE 1) \in {1, 2}
  /\ \A b \in ToSet(directory.blocks) :
       LET line == Joined(b.text) IN
       /\ Balanced(line) /\ ~LoneLast(line)
       /\ \A k \in DOMAIN line \ Characters(line) : line[k][2] \in Styles

(* Every variable has its type, and a format range lies inside the text. *)
TypeOK ==
  /\ ext \in 1 .. Len(SubtitleFileExtensions) + 1
  /\ m_bExternalSubtitlesLoaded \in BOOLEAN
  /\ m_CurrentSubtitleType \in SubtitleType
  /\ \A k \in DOMAIN m_ExternalSubtitleScript :
       m_ExternalSubtitleScript[k][1] \in LineTypes
  /\ status \in {"loading", "ready", "parsing", "parsed", "crashed", "undefined"}
  /\ i \in Nat
  /\ \A k \in DOMAIN entries : \A run \in entries[k].shown.runs :
       run.range # {} /\ run.range \subseteq DOMAIN entries[k].shown.text

(* Looking for external subtitles ends in one of the states the pins are   *)
(* connected in.                                                           *)
LoadOutcome ==
  status # "loading" => <<m_bExternalSubtitlesLoaded, m_CurrentSubtitleType>> \in AfterLoading

(* Every subtitle of a well-formed script reaches ParseLine once, in order *)
(* and with its own time, whatever the number of lines in its block, and   *)
(* its text loses the tags and nothing else; each time it is loaded.       *)
EachSubtitleOnce ==
  WellFormed =>
    /\ status \notin {"crashed", "undefined"}
    /\ \A k \in DOMAIN entries :
         /\ k \in DOMAIN directory.blocks
         /\ entries[k].time = Time(directory.blocks[k].time)
         /\ OnlyTagsLost(Joined(directory.blocks[k].text), entries[k].shown.text)
    /\ status = "parsed" => Len(entries) = Len(directory.blocks)

(* In a well-formed script a character has the styles of the tags it       *)
(* stands between, and no others.                                          *)
StyledAsWritten ==
  WellFormed =>
    \A k \in DOMAIN entries :
      LET line == Joined(directory.blocks[k].text) IN
      \A p \in Characters(line) :
        UNION {run.styles : run \in {r \in entries[k].shown.runs : PlaceOf(line, p) \in r.range}}
          = StylesAt(line, p)

(* The assertion of ParseScript, SRTSubtitleRenderer.cpp:167, which several *)
(* files or a blank line too many break.                                   *)
TimestampsAsserted ==
  status = "parsing" /\ i <= Len(m_ExternalSubtitleScript) =>
    CheckLineIsTimestamp(m_ExternalSubtitleScript[i])
==============================================================================
