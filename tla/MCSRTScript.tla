----------------------------- MODULE MCSRTScript -----------------------------
(* Instances of SRTScript for TLC: one subtitle of one line with any text  *)
(* of up to five items, and two or three of one or two lines, with no,      *)
(* one, two or three empty lines at the end, the last ended or not, and    *)
(* alone or beside the other files.  And any four lines as a script.       *)
EXTENDS SRTScript

MCValues == {"a", "newline", "b", "i", "u", "s", "font", "t1", "t2"}

MCItems == {Char("a"), Open("b"), Close("b"), Open("i"), Close("i")}
MCTexts == UNION {[1 .. n -> MCItems] : n \in 1 .. 5}

MCFew == {<<Char("a"), Char("a")>>,
          <<Open("u"), Char("a"), Open("s"), Char("a"), Close("s"), Char("a"), Close("u")>>,
          <<Open("i"), Char("a"), Close("i")>>,
          <<Open("font"), Char("a"), Close("font"), Char("a"), Char("a")>>}
MCBlocks == [time : {"t1", "t2"}, text : {<<x>> : x \in MCFew} \cup (MCFew \X MCFew)]

MCDirectory(blocks, blanks, newline, others, sub) ==
  [files |-> [x \in {".srt"} \cup others |->
     IF x = ".srt" THEN [lines |-> LinesOf(blocks, blanks), newline |-> newline]
     ELSE [lines |-> <<Text(<<Char("a")>>), Text(<<Char("a")>>)>>, newline |-> TRUE]],
   sub |-> sub, blocks |-> blocks, blanks |-> blanks]

MCDirectories ==
  {MCDirectory(<<[time |-> "t1", text |-> <<x>>]>>, 1, TRUE, {}, FALSE) : x \in MCTexts}
  \cup {MCDirectory(<<b, c>>, 1, TRUE, {}, FALSE) : b, c \in MCBlocks}
  \cup {MCDirectory([k \in 1 .. n |-> [time |-> "t1", text |-> <<x, x>>]],
                    blanks, newline, others, sub) :
          n \in 1 .. 3, x \in MCFew, blanks \in 0 .. 3, newline \in BOOLEAN,
          others \in SUBSET {".ass", ".ssa", ".idx"}, sub \in BOOLEAN}
  \cup {[files |-> [x \in {".srt"} |-> [lines |-> lines, newline |-> TRUE]],
         sub |-> FALSE, blocks |-> << >>, blanks |-> 0] :
           lines \in [1 .. 4 -> {Empty, Number, Time("t1"), Text(<<Char("a"), Close("b")>>)}]}
  \cup {[files |-> << >>, sub |-> FALSE, blocks |-> << >>, blanks |-> 0],
        [files |-> [x \in {".idx"} |-> [lines |-> <<Text(<<Char("a")>>)>>, newline |-> TRUE]],
         sub |-> FALSE, blocks |-> << >>, blanks |-> 0]}
==============================================================================
