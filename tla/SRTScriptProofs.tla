---------------------------- MODULE SRTScriptProofs ----------------------------
(***************************************************************************)
(* Theorems about external subtitles (SRTScript), for any files, any       *)
(* number of subtitles and tags nested to any depth.                       *)
(*                                                                         *)
(* The functions defined step by step exist and are of their types         *)
(* (StepByStep), and what holds at first and is kept by a step holds all   *)
(* along (UpTo).  With these, for any line: after n of its items the text  *)
(* has the characters read so far (TextKept), the stack has the tags whose *)
(* depth has stayed above zero (StackKept), and the runs have the styles   *)
(* of the stack each character was read with (RunsKept).  If the tags are  *)
(* closed, that stack is the one of the tags that match around it          *)
(* (StylesMean).  And for any well-formed script: where each line of a     *)
(* subtitle stands (SubtitlePlace), so that ParseScript is at the next     *)
(* subtitle when it has made an entry for each before it (ScriptInv).      *)
(***************************************************************************)
EXTENDS SRTScript, FiniteSetTheorems, WellFoundedInduction, TLAPS

(* A set of numbers that is not empty has a least one. *)
LEMMA LeastOf ==
  ASSUME NEW T, T \subseteq Nat, T # {}
  PROVE  \E n \in T : \A m \in T : n <= m
<1> DEFINE R == OpToRel(<, Nat)
<1>1. IsWellFoundedOn(R, Nat)
  BY NatLessThanWellFounded
<1> HIDE DEF R
<1>2. PICK x \in T : \A y \in T : ~ (<<y, x>> \in R)
  BY <1>1, WFMin
<1>3. \A a, b \in Nat : b < a => <<b, a>> \in R
  BY DEF R, OpToRel
<1>4. \A y \in T : ~ (y < x)
  BY <1>2, <1>3
<1>5. \A y \in T : x <= y
  <2> TAKE y \in T
  <2>1. x \in Nat /\ y \in Nat
    OBVIOUS
  <2> QED
    BY <2>1, <1>4
<1> QED
  BY <1>5

(* A set that has 0, and the number after each one it has, has them all. *)
LEMMA UpTo ==
  ASSUME NEW k \in Nat, NEW T, 0 \in T, \A n \in 1 .. k : n - 1 \in T => n \in T
  PROVE  0 .. k \subseteq T
<1> DEFINE Missing == {n \in Nat : n <= k /\ n \notin T}
<1>1. ASSUME Missing # {} PROVE FALSE
  <2>1. PICK n \in Missing : \A m \in Missing : n <= m
    BY <1>1, LeastOf
  <2>2. n \in Nat /\ n <= k /\ n \notin T
    OBVIOUS
  <2>3. n \in 1 .. k /\ n - 1 \in Nat /\ ~ (n <= n - 1) /\ n - 1 <= k
    BY <2>2
  <2>4. n - 1 \in T
    BY <2>1, <2>3
  <2> QED
    BY <2>2, <2>3, <2>4
<1>2. \A n \in 0 .. k : n \in Nat /\ n <= k
  OBVIOUS
<1> QED
  BY <1>1, <1>2

(* A function from a first value and the steps from one to the next. *)
Transitions(k, S) == [1 .. k -> [S -> S]]

Stepwise(k, S, base, step) ==
  {f \in [0 .. k -> S] : f[0] = base /\ \A n \in 1 .. k : f[n] = step[n][f[n - 1]]}

(* A function that takes k steps, each given by a table, exists. *)
LEMMA StepByStep ==
  ASSUME NEW k \in Nat, NEW S, NEW base \in S, NEW step \in Transitions(k, S)
  PROVE  \E f : f \in Stepwise(k, S, base, step)
<1> USE DEF Transitions
<1> DEFINE Is(f, n) == f[0] = base /\ \A m \in 1 .. n : f[m] = step[m][f[m - 1]]
           T == {n \in 0 .. k : \E f \in [0 .. k -> S] : Is(f, n)}
<1>1. 0 \in T
  <2> DEFINE f == [n \in 0 .. k |-> base]
  <2>1. f \in [0 .. k -> S] /\ f[0] = base
    OBVIOUS
  <2>2. Is(f, 0)
    BY <2>1
  <2> HIDE DEF Is, f
  <2> QED
    BY <2>1, <2>2
<1>2. ASSUME NEW n \in 1 .. k, n - 1 \in T PROVE n \in T
  <2>1. PICK g \in [0 .. k -> S] : Is(g, n - 1)
    BY <1>2
  <2> DEFINE value == step[n][g[n - 1]]
             f == [g EXCEPT ![n] = value]
  <2>2. n - 1 \in 0 .. k /\ n \in 0 .. k /\ 0 \in 0 .. k /\ n # 0 /\ n \in Nat
    OBVIOUS
  <2>3. value \in S
    BY <2>2
  <2> HIDE DEF value
  <2>4. f \in [0 .. k -> S] /\ f[n] = value /\ \A m \in 0 .. k : m # n => f[m] = g[m]
    BY <2>2, <2>3
  <2> HIDE DEF f
  <2>5. f[0] = base
    BY <2>1, <2>2, <2>4
  <2>6. ASSUME NEW m \in 1 .. n PROVE f[m] = step[m][f[m - 1]]
    <3>1. m \in 0 .. k /\ m - 1 \in 0 .. k /\ m - 1 # n
      BY <2>2
    <3>2. CASE m = n
      BY <2>4, <3>1, <3>2 DEF value
    <3>3. CASE m # n
      <4>1. m \in 1 .. n - 1
        BY <3>3, <2>2
      <4> QED
        BY <2>1, <2>4, <3>1, <3>3, <4>1
    <3> QED
      BY <3>2, <3>3
  <2>7. Is(f, n)
    BY <2>5, <2>6
  <2> HIDE DEF Is
  <2> QED
    BY <2>2, <2>4, <2>7
<1> HIDE DEF T
<1>3. 0 .. k \subseteq T
  BY <1>1, <1>2, UpTo
<1>4. k \in T
  BY <1>3
<1> QED
  BY <1>4 DEF T, Stepwise

-----------------------------------------------------------------------------
(* The values a script is made of. *)
ScriptLines == LineTypes \X Seq(Items)
Subtitles == [time : Values, text : Seq(Seq(Items)) \ {<< >>}]
Strippings ==
  [text : Seq(Items), runs : SUBSET [range : SUBSET Nat, styles : SUBSET Styles],
   stack : Seq(Values), from : Nat, defined : BOOLEAN]

(* The elements of two sequences in one. *)
LEMMA Concatenation ==
  ASSUME NEW S, NEW s \in Seq(S), NEW t \in Seq(S)
  PROVE  /\ s \o t \in Seq(S) /\ Len(s \o t) = Len(s) + Len(t)
         /\ \A k \in 1 .. Len(s) : (s \o t)[k] = s[k]
         /\ \A k \in 1 .. Len(t) : (s \o t)[k + Len(s)] = t[k]
<1>1. s \o t \in Seq(S) /\ Len(s \o t) = Len(s) + Len(t)
  OBVIOUS
<1>2. Len(s) \in Nat /\ Len(t) \in Nat
  OBVIOUS
<1>3. \A k \in 1 .. Len(s) + Len(t) : (s \o t)[k] = IF k <= Len(s) THEN s[k] ELSE t[k - Len(s)]
  OBVIOUS
<1>4. ASSUME NEW k \in 1 .. Len(s) PROVE (s \o t)[k] = s[k]
  <2>1. k \in 1 .. Len(s) + Len(t) /\ k <= Len(s)
    BY <1>2
  <2> QED
    BY <1>3, <2>1
<1>5. ASSUME NEW k \in 1 .. Len(t) PROVE (s \o t)[k + Len(s)] = t[k]
  <2>1. /\ k + Len(s) \in 1 .. Len(s) + Len(t) /\ ~ (k + Len(s) <= Len(s))
        /\ k + Len(s) - Len(s) = k
    BY <1>2
  <2> QED
    BY <1>3, <2>1
<1> QED
  BY <1>1, <1>4, <1>5

(* All but the last element of a sequence. *)
LEMMA FrontFacts ==
  ASSUME NEW S, NEW s \in Seq(S), s # << >>
  PROVE  /\ Front(s) \in Seq(S) /\ Len(Front(s)) = Len(s) - 1
         /\ \A k \in 1 .. Len(s) - 1 : Front(s)[k] = s[k]
<1>1. Len(s) \in Nat \ {0}
  OBVIOUS
<1>2. SubSeq(s, 1, Len(s) - 1) = [k \in 1 .. Len(s) - 1 |-> s[k]]
  BY <1>1
<1> DEFINE t == [k \in 1 .. Len(s) - 1 |-> s[k]]
           N == Len(s) - 1
<1>3. N \in Nat /\ \A k \in 1 .. N : s[k] \in S
  BY <1>1
<1>4. t \in [1 .. N -> S]
  BY <1>3
<1> HIDE DEF N, t
<1>5. t \in Seq(S) /\ Len(t) = N
  BY <1>3, <1>4
<1> QED
  BY <1>2, <1>5 DEF Front, t, N

(* The empty line that ends a subtitle is a line of a script. *)
LEMMA EmptyIsLine == Empty \in ScriptLines
<1>1. << >> \in Seq(Items)
  OBVIOUS
<1> DEFINE value == << >>
<1> HIDE DEF value
<1>2. value \in Seq(Items)
  BY <1>1 DEF value
<1>3. <<"empty", value>> \in ScriptLines
  BY <1>2 DEF ScriptLines, LineTypes
<1> QED
  BY <1>3 DEF Empty, value

(* The lines of a subtitle are lines of a script. *)
LEMMA BlockLines ==
  ASSUME NEW block \in Subtitles
  PROVE  /\ LinesOfBlock(block) \in Seq(ScriptLines)
         /\ Len(LinesOfBlock(block)) = Len(block.text) + 2
         /\ LinesOfBlock(block)[1] = Number /\ LinesOfBlock(block)[2] = Time(block.time)
         /\ \A k \in 1 .. Len(block.text) : LinesOfBlock(block)[k + 2] = Text(block.text[k])
         /\ Len(block.text) \in Nat \ {0}
<1> DEFINE head == <<Number, Time(block.time)>>
           text == [k \in DOMAIN block.text |-> Text(block.text[k])]
           N == Len(block.text)
<1>1. block.time \in Values /\ block.text \in Seq(Seq(Items)) /\ block.text # << >>
  BY DEF Subtitles
<1>2. N \in Nat /\ N # 0 /\ DOMAIN block.text = 1 .. N
  BY <1>1
<1>3. Number \in ScriptLines /\ Time(block.time) \in ScriptLines
  <2>1. Number \in ScriptLines
    <3> DEFINE value == << >>
    <3>1. value \in Seq(Items)
      OBVIOUS
    <3> HIDE DEF value
    <3>2. <<"number", value>> \in ScriptLines
      BY <3>1 DEF ScriptLines, LineTypes
    <3> QED
      BY <3>2 DEF Number, value
  <2>2. Char(block.time) \in Items
    BY <1>1 DEF Char, Items
  <2>3. <<Char(block.time)>> \in Seq(Items)
    BY <2>2
  <2> DEFINE value == <<Char(block.time)>>
  <2> HIDE DEF value
  <2>4. value \in Seq(Items)
    BY <2>3 DEF value
  <2>5. <<"time", value>> \in ScriptLines
    BY <2>4 DEF ScriptLines, LineTypes
  <2> QED
    BY <2>1, <2>5 DEF Time, value
<1>4. \A x \in Seq(Items) : Text(x) \in ScriptLines
  BY DEF Text, ScriptLines, LineTypes
<1>5. \A k \in 1 .. N : text[k] = Text(block.text[k]) /\ text[k] \in ScriptLines
  BY <1>1, <1>2, <1>4
<1>6. text \in Seq(ScriptLines) /\ Len(text) = N
  <2>1. text = [k \in 1 .. N |-> text[k]]
    BY <1>2
  <2> HIDE DEF text
  <2>2. text \in [1 .. N -> ScriptLines]
    BY <1>5, <2>1
  <2> QED
    BY <1>2, <2>2
<1>7. head \in Seq(ScriptLines) /\ Len(head) = 2 /\ head[1] = Number /\ head[2] = Time(block.time)
  BY <1>3
<1>8. LinesOfBlock(block) = head \o text
  BY DEF LinesOfBlock
<1> HIDE DEF head, text, N
<1>9. /\ head \o text \in Seq(ScriptLines) /\ Len(head \o text) = N + 2
      /\ \A k \in 1 .. 2 : (head \o text)[k] = head[k]
      /\ \A k \in 1 .. N : (head \o text)[k + 2] = text[k]
  <2>1. text \in Seq(ScriptLines) /\ head \in Seq(ScriptLines)
    BY <1>6, <1>7
  <2>2. /\ head \o text \in Seq(ScriptLines) /\ Len(head \o text) = Len(head) + Len(text)
        /\ \A k \in 1 .. Len(head) : (head \o text)[k] = head[k]
        /\ \A k \in 1 .. Len(text) : (head \o text)[k + Len(head)] = text[k]
    BY <2>1, Concatenation
  <2> QED
    BY <1>2, <1>6, <1>7, <2>2
<1> QED
  BY <1>2, <1>5, <1>7, <1>8, <1>9 DEF N

(* LinesOfFirst is what its definition says: there is such a function. *)
LEMMA LinesOfFirstSteps ==
  ASSUME NEW blocks \in Seq(Subtitles)
  PROVE  /\ LinesOfFirst(blocks) \in [0 .. Len(blocks) -> Seq(ScriptLines)]
         /\ LinesOfFirst(blocks)[0] = << >>
         /\ \A n \in 1 .. Len(blocks) :
              LinesOfFirst(blocks)[n] =
                LinesOfFirst(blocks)[n - 1] \o (IF n = 1 THEN << >> ELSE <<Empty>>)
                  \o LinesOfBlock(blocks[n])
<1> DEFINE N == Len(blocks)
           S == Seq(ScriptLines)
           Step(x, n) == x \o (IF n = 1 THEN << >> ELSE <<Empty>>) \o LinesOfBlock(blocks[n])
           step == [n \in 1 .. N |-> [x \in S |-> Step(x, n)]]
           Is(f) == f = [n \in 0 .. N |-> IF n = 0 THEN << >> ELSE Step(f[n - 1], n)]
<1>1. N \in Nat /\ << >> \in S
  OBVIOUS
<1>2. \A x \in S, n \in 1 .. N : Step(x, n) \in S
  <2> TAKE x \in S, n \in 1 .. N
  <2>1. LinesOfBlock(blocks[n]) \in S
    BY BlockLines
  <2>2. Empty \in ScriptLines
    BY EmptyIsLine
  <2>3. (IF n = 1 THEN << >> ELSE <<Empty>>) \in S
    BY <2>2
  <2> DEFINE y == IF n = 1 THEN << >> ELSE <<Empty>>
             z == LinesOfBlock(blocks[n])
  <2> HIDE DEF y, z
  <2>4. x \o y \o z \in S
    BY <2>1, <2>3 DEF y, z
  <2> QED
    BY <2>4 DEF y, z
<1> HIDE DEF Step, S, N
<1>3. step \in Transitions(N, S)
  BY <1>2 DEF Transitions
<1>4. PICK f \in [0 .. N -> S] :
        f[0] = << >> /\ \A n \in 1 .. N : f[n] = step[n][f[n - 1]]
  <2> DEFINE base == << >>
  <2>1. base \in S
    BY <1>1
  <2> HIDE DEF step, base
  <2>2. \E f : f \in Stepwise(N, S, base, step)
    BY <1>1, <1>3, <2>1, StepByStep
  <2> QED
    BY <2>2 DEF base, Stepwise
<1>5. \A n \in 1 .. N : f[n - 1] \in S /\ f[n] = Step(f[n - 1], n)
  <2> TAKE n \in 1 .. N
  <2>1. n - 1 \in 0 .. N
    BY <1>1
  <2> QED
    BY <1>4, <2>1
<1>6. \A n \in 0 .. N : f[n] = IF n = 0 THEN << >> ELSE Step(f[n - 1], n)
  <2> TAKE n \in 0 .. N
  <2>1. n # 0 => n \in 1 .. N
    BY <1>1
  <2> QED
    BY <1>4, <1>5, <2>1
<1>7. Is(f)
  BY <1>6
<1>8. LinesOfFirst(blocks) = CHOOSE g : Is(g)
  BY DEF LinesOfFirst, Step, N
<1> DEFINE L == LinesOfFirst(blocks)
<1>9. Is(L)
  <2> HIDE DEF Is
  <2> QED
    BY <1>7, <1>8
<1> HIDE DEF L
<1>10. L[0] = << >> /\ \A n \in 1 .. N : L[n] = Step(L[n - 1], n)
  <2>1. 0 \in 0 .. N /\ \A n \in 1 .. N : n \in 0 .. N /\ n # 0
    BY <1>1
  <2> QED
    BY <1>9, <2>1
<1> DEFINE T == {n \in 0 .. N : L[n] \in S}
<1>11. 0 .. N \subseteq T
  <2>1. 0 \in T
    BY <1>1, <1>10
  <2>2. ASSUME NEW n \in 1 .. N, n - 1 \in T PROVE n \in T
    <3>1. n \in 0 .. N
      BY <1>1
    <3> QED
      BY <1>2, <1>10, <2>2, <3>1
  <2> HIDE DEF T
  <2> QED
    BY <1>1, <2>1, <2>2, UpTo
<1>12. L \in [0 .. N -> S]
  BY <1>9, <1>11
<1> QED
  BY <1>10, <1>12 DEF L, N, S, Step

(* The line break put between two lines of text is an item of text. *)
LEMMA NewlineIsItem == Newline \in Items
BY ValuesAssumption DEF Newline, Char, Items

(* Lines in one are a line. *)
LEMMA JoinedIsLine ==
  ASSUME NEW text \in Seq(Seq(Items)) \ {<< >>}
  PROVE  Joined(text) \in Seq(Items)
<1> DEFINE N == Len(text) - 1
           S == Seq(Items)
           Step(x, n) == x \o <<Newline>> \o text[n + 1]
           step == [n \in 1 .. N |-> [x \in S |-> Step(x, n)]]
           Is(f) == f = [n \in 0 .. N |-> IF n = 0 THEN text[1] ELSE Step(f[n - 1], n)]
<1>1. N \in Nat /\ text[1] \in S
  BY text # << >>, Len(text) # 0
<1>2. \A x \in S, n \in 1 .. N : Step(x, n) \in S
  <2> TAKE x \in S, n \in 1 .. N
  <2>1. text[n + 1] \in S
    BY <1>1
  <2>2. <<Newline>> \in S
    BY NewlineIsItem
  <2> DEFINE y == <<Newline>>
             z == text[n + 1]
  <2> HIDE DEF y, z
  <2>3. x \o y \o z \in S
    BY <2>1, <2>2 DEF y, z
  <2> QED
    BY <2>3 DEF y, z
<1>3. N + 1 = Len(text)
  BY <1>1
<1> DEFINE base == text[1]
<1> HIDE DEF Step, S, N, base
<1>4. step \in Transitions(N, S)
  BY <1>2 DEF Transitions
<1>5. base \in S
  BY <1>1 DEF base
<1>6. PICK f : f \in Stepwise(N, S, base, step)
  <2> HIDE DEF step
  <2> QED
    BY <1>1, <1>4, <1>5, StepByStep
<1>7. f \in [0 .. N -> S] /\ f[0] = base /\ \A n \in 1 .. N : f[n] = step[n][f[n - 1]]
  BY <1>6 DEF Stepwise
<1>8. \A n \in 1 .. N : f[n] = Step(f[n - 1], n)
  <2> TAKE n \in 1 .. N
  <2>1. n - 1 \in 0 .. N
    BY <1>1
  <2> QED
    BY <1>7, <2>1
<1>9. \A n \in 0 .. N : f[n] = IF n = 0 THEN base ELSE Step(f[n - 1], n)
  <2> TAKE n \in 0 .. N
  <2>1. n # 0 => n \in 1 .. N
    BY <1>1
  <2> QED
    BY <1>7, <1>8, <2>1
<1>10. Is(f)
  BY <1>7, <1>9 DEF base
<1> DEFINE J == CHOOSE g : Is(g)
<1>11. Joined(text) = J[N]
  BY DEF Joined, Step, N
<1>12. Is(J)
  <2> HIDE DEF Is
  <2> QED
    BY <1>10
<1> HIDE DEF J
<1>13. J[0] = base /\ \A n \in 1 .. N : J[n] = Step(J[n - 1], n)
  <2>1. 0 \in 0 .. N /\ \A n \in 1 .. N : n \in 0 .. N /\ n # 0
    BY <1>1
  <2> QED
    BY <1>12, <2>1 DEF base
<1> DEFINE T == {n \in 0 .. N : J[n] \in S}
<1>14. 0 .. N \subseteq T
  <2>1. 0 \in T
    BY <1>1, <1>5, <1>13
  <2>2. ASSUME NEW n \in 1 .. N, n - 1 \in T PROVE n \in T
    <3>1. n \in 0 .. N
      BY <1>1
    <3> QED
      BY <1>2, <1>13, <2>2, <3>1
  <2> HIDE DEF T
  <2> QED
    BY <1>1, <2>1, <2>2, UpTo
<1>15. J[N] \in S
  <2>1. N \in 0 .. N
    BY <1>1
  <2> QED
    BY <1>14, <2>1
<1> QED
  BY <1>11, <1>15 DEF S

Started == [text |-> << >>, runs |-> {}, stack |-> << >>, from |-> 0, defined |-> TRUE]
Runs == [range : SUBSET Nat, styles : SUBSET Styles]

(* Stripping stays in its type. *)
LEMMA AtItemType ==
  ASSUME NEW s \in Strippings, NEW item \in Items
  PROVE  AtItem(s, item) \in Strippings
<1>1. /\ s.text \in Seq(Items) /\ s.runs \in SUBSET Runs /\ s.stack \in Seq(Values)
      /\ s.from \in Nat /\ s.defined \in BOOLEAN
  BY DEF Strippings, Runs
<1>2. item[2] \in Values /\ item[1] \in {"char", "open", "close"}
  BY DEF Items
<1>3. s = [text |-> s.text, runs |-> s.runs, stack |-> s.stack, from |-> s.from,
           defined |-> s.defined]
  BY DEF Strippings
<1>4. CASE ~ IsTag(item)
  <2>1. AtItem(s, item) = [s EXCEPT !.text = Append(@, item)]
    BY <1>4 DEF AtItem
  <2>2. Append(s.text, item) \in Seq(Items)
    BY <1>1
  <2> QED
    BY <2>1, <2>2 DEF Strippings
<1>5. CASE IsTag(item)
  <2> DEFINE new == [range |-> (s.from + 1) .. Len(s.text), styles |-> ToSet(s.stack) \cap Styles]
             runs == IF Len(s.text) = s.from THEN s.runs ELSE s.runs \cup {new}
             stack == IF item[1] = "open" THEN Append(s.stack, item[2])
                      ELSE IF s.stack = << >> THEN s.stack ELSE Front(s.stack)
             defined == s.defined /\ (item[1] = "close" => s.stack # << >>)
  <2>1. new \in Runs
    <3>1. (s.from + 1) .. Len(s.text) \in SUBSET Nat
      BY <1>1
    <3>2. ToSet(s.stack) \cap Styles \in SUBSET Styles
      OBVIOUS
    <3> QED
      BY <3>1, <3>2 DEF Runs
  <2>2. runs \in SUBSET Runs
    <3> HIDE DEF new
    <3> QED
      BY <1>1, <2>1
  <2>3. stack \in Seq(Values)
    <3>1. s.stack # << >> => Front(s.stack) \in Seq(Values)
      BY <1>1, FrontFacts
    <3> QED
      BY <1>1, <1>2, <3>1
  <2>4. Len(s.text) \in Nat
    BY <1>1
  <2>5. defined \in BOOLEAN
    BY <1>1
  <2>6. AtItem(s, item) = [text |-> s.text, runs |-> runs, stack |-> stack,
                           from |-> Len(s.text), defined |-> defined]
    BY <1>5 DEF AtItem, AtTag
  <2> HIDE DEF runs, stack, defined
  <2> QED
    BY <1>1, <2>2, <2>3, <2>4, <2>5, <2>6 DEF Strippings, Runs
<1> QED
  BY <1>4, <1>5

(* Stripping is what its definition says, too. *)
LEMMA StrippingSteps ==
  ASSUME NEW line \in Seq(Items)
  PROVE  /\ Stripping(line) \in [0 .. Len(line) -> Strippings]
         /\ Stripping(line)[0] = Started
         /\ \A n \in 1 .. Len(line) :
              Stripping(line)[n] = AtItem(Stripping(line)[n - 1], line[n])
<1> DEFINE N == Len(line)
           S == Strippings
           step == [n \in 1 .. N |-> [x \in S |-> AtItem(x, line[n])]]
           Is(f) == f = [n \in 0 .. N |-> IF n = 0 THEN Started ELSE AtItem(f[n - 1], line[n])]
<1>1. N \in Nat
  OBVIOUS
<1>2. \A x \in S, n \in 1 .. N : AtItem(x, line[n]) \in S
  <2> TAKE x \in S, n \in 1 .. N
  <2>1. line[n] \in Items
    BY <1>1
  <2> QED
    BY <2>1, AtItemType
<1>3. Started \in S
  BY DEF Started, Strippings
<1> HIDE DEF S, N
<1>4. step \in Transitions(N, S)
  BY <1>2 DEF Transitions
<1>5. PICK f : f \in Stepwise(N, S, Started, step)
  <2> HIDE DEF step
  <2> QED
    BY <1>1, <1>3, <1>4, StepByStep
<1>6. f \in [0 .. N -> S] /\ f[0] = Started /\ \A n \in 1 .. N : f[n] = step[n][f[n - 1]]
  BY <1>5 DEF Stepwise
<1>7. \A n \in 1 .. N : f[n] = AtItem(f[n - 1], line[n])
  <2> TAKE n \in 1 .. N
  <2>1. n - 1 \in 0 .. N
    BY <1>1
  <2> QED
    BY <1>6, <2>1
<1>8. \A n \in 0 .. N : f[n] = IF n = 0 THEN Started ELSE AtItem(f[n - 1], line[n])
  <2> TAKE n \in 0 .. N
  <2>1. n # 0 => n \in 1 .. N
    BY <1>1
  <2> QED
    BY <1>6, <1>7, <2>1
<1>9. Is(f)
  BY <1>6, <1>8
<1> DEFINE J == Stripping(line)
<1>10. J = CHOOSE g : Is(g)
  BY DEF Stripping, N, Started
<1>11. Is(J)
  <2> HIDE DEF Is
  <2> QED
    BY <1>9, <1>10
<1> HIDE DEF J
<1>12. J[0] = Started /\ \A n \in 1 .. N : J[n] = AtItem(J[n - 1], line[n])
  <2>1. 0 \in 0 .. N /\ \A n \in 1 .. N : n \in 0 .. N /\ n # 0
    BY <1>1
  <2> QED
    BY <1>11, <2>1
<1> DEFINE T == {n \in 0 .. N : J[n] \in S}
<1>13. 0 .. N \subseteq T
  <2>1. 0 \in T
    BY <1>1, <1>3, <1>12
  <2>2. ASSUME NEW n \in 1 .. N, n - 1 \in T PROVE n \in T
    <3>1. n \in 0 .. N
      BY <1>1
    <3> QED
      BY <1>2, <1>12, <2>2, <3>1
  <2> HIDE DEF T
  <2> QED
    BY <1>1, <2>1, <2>2, UpTo
<1>14. J \in [0 .. N -> S]
  BY <1>11, <1>13
<1> QED
  BY <1>12, <1>14 DEF J, N, S

-----------------------------------------------------------------------------
(***************************************************************************)
(* Counting the items of a line.                                           *)
(***************************************************************************)
LEMMA OneMore ==
  ASSUME NEW T, NEW j \in Int, NEW n \in Int, j <= n
  PROVE  /\ IsFiniteSet((j .. n) \cap T)
         /\ Cardinality((j .. n - 1) \cap T) \in Nat
         /\ Cardinality((j .. n) \cap T) =
              Cardinality((j .. n - 1) \cap T) + (IF n \in T THEN 1 ELSE 0)
<1> DEFINE A == (j .. n - 1) \cap T
<1>1. n - 1 \in Int
  OBVIOUS
<1>2. IsFiniteSet(j .. n - 1) /\ IsFiniteSet(j .. n)
  BY <1>1, FS_Interval
<1>3. IsFiniteSet(A)
  BY <1>2, FS_Subset
<1>4. IsFiniteSet((j .. n) \cap T)
  BY <1>2, FS_Subset
<1>5. Cardinality(A) \in Nat
  BY <1>3, FS_CardinalityType
<1>6. j .. n = (j .. n - 1) \cup {n} /\ n \notin j .. n - 1
  OBVIOUS
<1>7. CASE n \in T
  <2>1. (j .. n) \cap T = A \cup {n} /\ n \notin A
    BY <1>6, <1>7
  <2>2. Cardinality(A \cup {n}) = IF n \in A THEN Cardinality(A) ELSE Cardinality(A) + 1
    BY <1>3, FS_AddElement
  <2> QED
    BY <1>4, <1>5, <1>7, <2>1, <2>2
<1>8. CASE n \notin T
  <2>1. (j .. n) \cap T = A
    BY <1>6, <1>8
  <2>2. Cardinality((j .. n) \cap T) = Cardinality(A)
    BY <2>1
  <2> HIDE DEF A
  <2>3. Cardinality((j .. n) \cap T) = Cardinality(A) + (IF n \in T THEN 1 ELSE 0)
    BY <1>5, <1>8, <2>2
  <2> QED
    BY <1>4, <1>5, <2>3 DEF A
<1> QED
  BY <1>7, <1>8

(* Nothing is counted in an empty range. *)
LEMMA NoneYet ==
  ASSUME NEW T, NEW j \in Int
  PROVE  Cardinality((j .. j - 1) \cap T) = 0
<1>1. (j .. j - 1) \cap T = {}
  OBVIOUS
<1> QED
  BY <1>1, FS_EmptySet

(* The place of a character is one after that of the one before it. *)
LEMMA Places ==
  ASSUME NEW line \in Seq(Items)
  PROVE  /\ PlaceOf(line, 0) = 0
         /\ \A n \in 0 .. Len(line) : PlaceOf(line, n) \in Nat
         /\ \A n \in 1 .. Len(line) :
              PlaceOf(line, n) = PlaceOf(line, n - 1) + (IF IsTag(line[n]) THEN 0 ELSE 1)
         /\ PlaceOf(line, Len(line)) = Cardinality(Characters(line))
<1> DEFINE N == Len(line)
           C == Characters(line)
<1>1. N \in Nat /\ DOMAIN line = 1 .. N
  OBVIOUS
<1>2. C \subseteq 1 .. N /\ \A n \in 1 .. N : n \in C <=> ~ IsTag(line[n])
  BY <1>1 DEF Characters
<1> HIDE DEF C, N
<1>3. \A n \in 0 .. N : {k \in C : k <= n} = (1 .. n) \cap C
  <2> TAKE n \in 0 .. N
  <2>1. \A k \in C : k \in Int /\ 1 <= k
    BY <1>1, <1>2
  <2>2. n \in Int
    BY <1>1
  <2> QED
    BY <2>1, <2>2
<1>4. \A n \in 0 .. N : PlaceOf(line, n) = Cardinality((1 .. n) \cap C)
  BY <1>3 DEF PlaceOf, C
<1>5. PlaceOf(line, 0) = 0
  <2>1. 1 \in Int /\ 1 - 1 = 0 /\ 0 \in 0 .. N
    BY <1>1
  <2>2. Cardinality((1 .. 1 - 1) \cap C) = 0
    BY <2>1, NoneYet
  <2> QED
    BY <1>4, <2>1, <2>2
<1>6. ASSUME NEW n \in 1 .. N
      PROVE  /\ PlaceOf(line, n - 1) \in Nat
             /\ PlaceOf(line, n) = PlaceOf(line, n - 1) + (IF IsTag(line[n]) THEN 0 ELSE 1)
  <2>1. n \in Int /\ 1 \in Int /\ 1 <= n /\ n \in 0 .. N /\ n - 1 \in 0 .. N
    BY <1>1
  <2>2. /\ Cardinality((1 .. n - 1) \cap C) \in Nat
        /\ Cardinality((1 .. n) \cap C) =
             Cardinality((1 .. n - 1) \cap C) + (IF n \in C THEN 1 ELSE 0)
    BY <2>1, OneMore
  <2>3. n \in C <=> ~ IsTag(line[n])
    BY <1>2
  <2> QED
    BY <1>4, <2>1, <2>2, <2>3
<1>7. ASSUME NEW n \in 0 .. N PROVE PlaceOf(line, n) \in Nat
  <2>1. CASE n = 0
    BY <1>5, <2>1
  <2>2. CASE n # 0
    <3>1. n \in 1 .. N
      BY <1>1, <2>2
    <3> QED
      BY <1>6, <3>1
  <2> QED
    BY <2>1, <2>2
<1>8. PlaceOf(line, N) = Cardinality(C)
  <2>1. N \in 0 .. N
    BY <1>1
  <2>2. (1 .. N) \cap C = C
    BY <1>2
  <2> QED
    BY <1>4, <2>1, <2>2
<1> QED
  BY <1>5, <1>6, <1>7, <1>8 DEF C, N

(* Of two places the one further on is not before the other. *)
LEMMA PlacesInOrder ==
  ASSUME NEW line \in Seq(Items), NEW n \in 0 .. Len(line), NEW p \in 0 .. n
  PROVE  PlaceOf(line, p) <= PlaceOf(line, n)
<1> DEFINE A == {k \in Characters(line) : k <= p}
           B == {k \in Characters(line) : k <= n}
<1>1. Len(line) \in Nat /\ DOMAIN line = 1 .. Len(line)
  OBVIOUS
<1>2. A \subseteq B /\ B \subseteq 1 .. Len(line)
  BY <1>1 DEF Characters
<1>3. IsFiniteSet(1 .. Len(line))
  BY <1>1, FS_Interval
<1> HIDE DEF A, B
<1>4. IsFiniteSet(B)
  BY <1>2, <1>3, FS_Subset
<1>5. Cardinality(A) <= Cardinality(B)
  BY <1>2, <1>4, FS_Subset
<1> QED
  BY <1>5 DEF A, B, PlaceOf

(* What an item adds to the depth. *)
Rise(item) == IF item[1] = "open" THEN 1 ELSE IF item[1] = "close" THEN -1 ELSE 0

(* The depth rises at an opening tag and falls at a closing one. *)
LEMMA Depths ==
  ASSUME NEW line \in Seq(Items), NEW j \in 1 .. Len(line), NEW n \in j .. Len(line)
  PROVE  /\ Depth(line, j, j - 1) = 0
         /\ Depth(line, j, n) \in Int /\ Depth(line, j, n - 1) \in Int
         /\ Depth(line, j, n) = Depth(line, j, n - 1) + Rise(line[n])
<1> DEFINE O == {m \in Int : line[m][1] = "open"}
           C == {m \in Int : line[m][1] = "close"}
<1>1. Len(line) \in Nat /\ j \in Int /\ n \in Int /\ j <= n
  OBVIOUS
<1>2. ASSUME NEW k \in Int
      PROVE  Depth(line, j, k) = Cardinality((j .. k) \cap O) - Cardinality((j .. k) \cap C)
  <2>1. /\ {m \in j .. k : line[m][1] = "open"} = (j .. k) \cap O
        /\ {m \in j .. k : line[m][1] = "close"} = (j .. k) \cap C
    BY <1>1
  <2> QED
    BY <2>1 DEF Depth
<1>3. n \in O <=> line[n][1] = "open"
  BY <1>1
<1>4. n \in C <=> line[n][1] = "close"
  BY <1>1
<1> HIDE DEF O, C
<1>5. Depth(line, j, j - 1) = 0
  <2>1. j - 1 \in Int
    BY <1>1
  <2>2. Cardinality((j .. j - 1) \cap O) = 0 /\ Cardinality((j .. j - 1) \cap C) = 0
    BY <1>1, NoneYet
  <2>3. Depth(line, j, j - 1) =
          Cardinality((j .. j - 1) \cap O) - Cardinality((j .. j - 1) \cap C)
    BY <1>2, <2>1
  <2> QED
    BY <2>2, <2>3
<1> DEFINE a == Cardinality((j .. n) \cap O)
           b == Cardinality((j .. n - 1) \cap O)
           c == Cardinality((j .. n) \cap C)
           d == Cardinality((j .. n - 1) \cap C)
<1>6. b \in Nat /\ a = b + (IF n \in O THEN 1 ELSE 0)
  BY <1>1, OneMore
<1>7. d \in Nat /\ c = d + (IF n \in C THEN 1 ELSE 0)
  BY <1>1, OneMore
<1>8. n - 1 \in Int
  BY <1>1
<1>9. Depth(line, j, n) = a - c /\ Depth(line, j, n - 1) = b - d
  BY <1>1, <1>2, <1>8
<1> HIDE DEF a, b, c, d
<1>10. n \in O => n \notin C
  BY <1>3, <1>4
<1>11. Rise(line[n]) = IF n \in O THEN 1 ELSE IF n \in C THEN -1 ELSE 0
  BY <1>3, <1>4 DEF Rise
<1> QED
  BY <1>5, <1>6, <1>7, <1>9, <1>10, <1>11

-----------------------------------------------------------------------------
(***************************************************************************)
(* ParseLine on any line, after its first n items.  First the text.        *)
(***************************************************************************)
TextInv(line, n) ==
  LET s == Stripping(line)[n] IN
  /\ Len(s.text) = PlaceOf(line, n)
  /\ \A p \in Characters(line) : p <= n => s.text[PlaceOf(line, p)] = line[p]
  /\ s.from \in 0 .. Len(s.text)
  /\ n = 0 \/ IsTag(line[n]) => s.from = Len(s.text)
  /\ n > 0 /\ ~ IsTag(line[n]) =>
       s.from < Len(s.text) /\ (Len(s.text) = s.from + 1 => n = 1 \/ IsTag(line[n - 1]))

(* What a character and what a tag do. *)
LEMMA CharacterStep ==
  ASSUME NEW line \in Seq(Items), NEW n \in 1 .. Len(line), ~ IsTag(line[n])
  PROVE  LET s == Stripping(line)[n - 1]
             t == Stripping(line)[n]
         IN  /\ s \in Strippings /\ t \in Strippings
             /\ t.text = Append(s.text, line[n])
             /\ t.runs = s.runs /\ t.stack = s.stack /\ t.from = s.from /\ t.defined = s.defined
<1> DEFINE s == Stripping(line)[n - 1]
           t == Stripping(line)[n]
<1>1. n - 1 \in 0 .. Len(line) /\ n \in 0 .. Len(line)
  OBVIOUS
<1>2. s \in Strippings /\ t \in Strippings /\ t = AtItem(s, line[n])
  BY <1>1, StrippingSteps
<1> HIDE DEF s, t
<1>3. t = [s EXCEPT !.text = Append(s.text, line[n])]
  BY <1>2 DEF AtItem
<1>4. /\ t.text = Append(s.text, line[n])
      /\ t.runs = s.runs /\ t.stack = s.stack /\ t.from = s.from /\ t.defined = s.defined
  BY <1>2, <1>3 DEF Strippings
<1> QED
  BY <1>2, <1>4 DEF s, t

(* A tag ends the run before it, and leaves the text as it is. *)
LEMMA TagStep ==
  ASSUME NEW line \in Seq(Items), NEW n \in 1 .. Len(line), IsTag(line[n])
  PROVE  LET s == Stripping(line)[n - 1]
             t == Stripping(line)[n]
         IN  /\ s \in Strippings /\ t \in Strippings
             /\ t.text = s.text /\ t.from = Len(s.text)
             /\ t.runs = IF Len(s.text) = s.from THEN s.runs
                         ELSE s.runs \cup {[range |-> (s.from + 1) .. Len(s.text),
                                            styles |-> ToSet(s.stack) \cap Styles]}
             /\ t.stack = IF line[n][1] = "open" THEN Append(s.stack, line[n][2])
                          ELSE IF s.stack = << >> THEN s.stack ELSE Front(s.stack)
             /\ t.defined = (s.defined /\ (line[n][1] = "close" => s.stack # << >>))
<1> DEFINE s == Stripping(line)[n - 1]
           t == Stripping(line)[n]
<1>1. n - 1 \in 0 .. Len(line) /\ n \in 0 .. Len(line)
  OBVIOUS
<1>2. s \in Strippings /\ t \in Strippings /\ t = AtItem(s, line[n])
  BY <1>1, StrippingSteps
<1> HIDE DEF s, t
<1>3. t = AtTag(s, line[n])
  BY <1>2 DEF AtItem
<1> QED
  BY <1>2, <1>3 DEF s, t, AtTag

(* The text so far is that of the characters so far, in their order. *)
LEMMA TextKept ==
  ASSUME NEW line \in Seq(Items), NEW n \in 0 .. Len(line)
  PROVE  TextInv(line, n)
<1> DEFINE N == Len(line)
           T == {m \in 0 .. N : TextInv(line, m)}
<1>1. N \in Nat /\ DOMAIN line = 1 .. N
  OBVIOUS
<1>2. Characters(line) \subseteq 1 .. N /\ \A p \in Characters(line) : ~ IsTag(line[p])
  BY <1>1 DEF Characters
<1>3. 0 \in T
  <2> DEFINE s == Stripping(line)[0]
  <2>1. s = Started
    BY StrippingSteps
  <2> HIDE DEF s
  <2>2. s.text = << >> /\ s.from = 0
    BY <2>1 DEF Started
  <2>3. PlaceOf(line, 0) = 0 /\ Len(s.text) = 0
    BY <2>2, Places
  <2>4. \A p \in Characters(line) : ~ (p <= 0)
    BY <1>1, <1>2
  <2>5. TextInv(line, 0)
    BY <2>2, <2>3, <2>4 DEF TextInv, s
  <2> QED
    BY <1>1, <2>5
<1>4. ASSUME NEW m \in 1 .. N, m - 1 \in T PROVE m \in T
  <2> DEFINE s == Stripping(line)[m - 1]
             t == Stripping(line)[m]
  <2>1. /\ m \in 0 .. N /\ m - 1 \in 0 .. N /\ m \in Nat /\ m > 0 /\ m # 0
        /\ (m - 1 > 0 <=> m # 1) /\ (m - 1 = 0 <=> m = 1)
    BY <1>1
  <2>2. /\ PlaceOf(line, m - 1) \in Nat /\ PlaceOf(line, m) \in Nat
        /\ PlaceOf(line, m) = PlaceOf(line, m - 1) + (IF IsTag(line[m]) THEN 0 ELSE 1)
    BY <2>1, Places
  <2>3. TextInv(line, m - 1)
    BY <1>4
  <2>4. /\ Len(s.text) = PlaceOf(line, m - 1)
        /\ \A p \in Characters(line) : p <= m - 1 => s.text[PlaceOf(line, p)] = line[p]
        /\ s.from \in 0 .. Len(s.text)
        /\ m - 1 = 0 \/ IsTag(line[m - 1]) => s.from = Len(s.text)
        /\ m - 1 > 0 /\ ~ IsTag(line[m - 1]) => s.from < Len(s.text)
    BY <2>3 DEF TextInv
  <2>5. CASE IsTag(line[m])
    <3>1. t.text = s.text /\ t.from = Len(s.text)
      BY <2>5, TagStep
    <3> HIDE DEF s, t
    <3>2. \A p \in Characters(line) : p <= m => p <= m - 1
      <4> TAKE p \in Characters(line)
      <4>1. p \in 1 .. N /\ p # m
        BY <1>2, <2>5
      <4> QED
        BY <1>1, <2>1, <4>1
    <3>3. /\ Len(t.text) = PlaceOf(line, m)
          /\ t.from \in 0 .. Len(t.text) /\ t.from = Len(t.text)
      BY <2>2, <2>4, <2>5, <3>1
    <3>4. \A p \in Characters(line) : p <= m => t.text[PlaceOf(line, p)] = line[p]
      BY <2>4, <3>1, <3>2
    <3>5. TextInv(line, m)
      BY <2>5, <3>3, <3>4 DEF TextInv, t
    <3> QED
      BY <2>1, <3>5
  <2>6. CASE ~ IsTag(line[m])
    <3>1. s \in Strippings /\ t.text = Append(s.text, line[m]) /\ t.from = s.from
      BY <2>6, CharacterStep
    <3> HIDE DEF s, t
    <3> DEFINE L == Len(s.text)
    <3>2. s.text \in Seq(Items) /\ line[m] \in Items
      BY <1>1, <3>1 DEF Strippings
    <3>3. /\ L \in Nat /\ Len(t.text) = L + 1 /\ t.text[L + 1] = line[m]
          /\ \A k \in 1 .. L : t.text[k] = s.text[k]
      BY <3>1, <3>2
    <3>4. L = PlaceOf(line, m - 1) /\ s.from \in 0 .. L
      BY <2>4
    <3> HIDE DEF L
    <3>5. Len(t.text) = PlaceOf(line, m) /\ PlaceOf(line, m) = L + 1
      BY <2>2, <2>6, <3>3, <3>4
    <3>6. ASSUME NEW p \in Characters(line), p <= m
          PROVE  t.text[PlaceOf(line, p)] = line[p]
      <4>1. CASE p = m
        BY <3>3, <3>5, <4>1
      <4>2. CASE p # m
        <5>1. p \in 1 .. N /\ p \in 0 .. m - 1 /\ p <= m - 1 /\ p - 1 \in 0 .. N
          BY <1>1, <1>2, <2>1, <3>6, <4>2
        <5>2. PlaceOf(line, p) <= L
          BY <2>1, <3>4, <5>1, PlacesInOrder
        <5>3. PlaceOf(line, p) = PlaceOf(line, p - 1) + 1 /\ PlaceOf(line, p - 1) \in Nat
          BY <1>2, <5>1, Places
        <5>4. PlaceOf(line, p) \in 1 .. L
          BY <3>3, <5>2, <5>3
        <5>5. s.text[PlaceOf(line, p)] = line[p]
          BY <2>4, <5>1
        <5> QED
          BY <3>3, <5>4, <5>5
      <4> QED
        BY <4>1, <4>2
    <3>7. t.from \in 0 .. Len(t.text) /\ t.from < Len(t.text)
      BY <3>1, <3>3, <3>4
    <3>8. ASSUME Len(t.text) = t.from + 1 PROVE m = 1 \/ IsTag(line[m - 1])
      <4>1. s.from = L
        BY <3>1, <3>3, <3>4, <3>8
      <4>2. ~ (s.from < L)
        BY <3>3, <4>1
      <4> QED
        BY <2>1, <2>4, <4>2 DEF L
    <3>9. TextInv(line, m)
      BY <2>1, <2>6, <3>5, <3>6, <3>7, <3>8 DEF TextInv, t
    <3> QED
      BY <2>1, <3>9
  <2> QED
    BY <2>5, <2>6
<1> HIDE DEF T
<1>5. 0 .. N \subseteq T
  BY <1>1, <1>3, <1>4, UpTo
<1>6. n \in T
  BY <1>5
<1> QED
  BY <1>6 DEF T

(***************************************************************************)
(* Then the stack: it has the opening tags whose depth has stayed above    *)
(* zero, the last with depth 1, the one below it with 2, ...               *)
(***************************************************************************)
StillOpen(line, j, n) ==
  line[j][1] = "open" /\ \A m \in j .. n : Depth(line, j, m) > 0

HasPositions(line, n, P) ==
  LET s == Stripping(line)[n] IN
  /\ P \in Seq(1 .. n) /\ Len(P) = Len(s.stack)
  /\ \A k \in 1 .. Len(P) :
       /\ s.stack[k] = line[P[k]][2] /\ StillOpen(line, P[k], n)
       /\ Depth(line, P[k], n) = Len(P) - k + 1
  /\ \A j \in 1 .. n : StillOpen(line, j, n) => \E k \in 1 .. Len(P) : P[k] = j

(* A tag that is open stays so until its depth is zero. *)
LEMMA StillOpenStep ==
  ASSUME NEW line \in Seq(Items), NEW n \in 1 .. Len(line), NEW j \in 1 .. n - 1
  PROVE  /\ Depth(line, j, n) \in Int /\ Depth(line, j, n - 1) \in Int
         /\ Depth(line, j, n) = Depth(line, j, n - 1) + Rise(line[n])
         /\ StillOpen(line, j, n) <=> StillOpen(line, j, n - 1) /\ Depth(line, j, n) > 0
<1>1. Len(line) \in Nat
  OBVIOUS
<1>2. j \in 1 .. Len(line) /\ n \in j .. Len(line)
  BY <1>1
<1>3. j .. n = (j .. n - 1) \cup {n}
  BY <1>1
<1> QED
  BY <1>2, <1>3, Depths DEF StillOpen

(* An opening tag is open at once. *)
LEMMA OpenAtOnce ==
  ASSUME NEW line \in Seq(Items), NEW n \in 1 .. Len(line)
  PROVE  /\ Depth(line, n, n) = Rise(line[n])
         /\ StillOpen(line, n, n) <=> line[n][1] = "open"
<1>1. Len(line) \in Nat /\ n \in n .. Len(line) /\ n \in Int
  OBVIOUS
<1>2. Depth(line, n, n) = Rise(line[n])
  <2>1. /\ Depth(line, n, n - 1) = 0 /\ Depth(line, n, n - 1) \in Int
        /\ Depth(line, n, n) = Depth(line, n, n - 1) + Rise(line[n])
    BY <1>1, Depths
  <2>2. Rise(line[n]) \in Int
    BY DEF Rise
  <2> QED
    BY <2>1, <2>2
<1>3. n .. n = {n}
  BY <1>1
<1> QED
  BY <1>2, <1>3 DEF StillOpen, Rise

(* The stack holds the tags still open, in the order they were opened. *)
LEMMA StackKept ==
  ASSUME NEW line \in Seq(Items), NEW n \in 0 .. Len(line)
  PROVE  \E P : HasPositions(line, n, P)
<1> DEFINE N == Len(line)
           T == {m \in 0 .. N : \E P : HasPositions(line, m, P)}
<1>1. N \in Nat /\ DOMAIN line = 1 .. N
  OBVIOUS
<1>2. 0 \in T
  <2> DEFINE s == Stripping(line)[0]
             P == << >>
  <2>1. s = Started
    BY StrippingSteps
  <2> HIDE DEF s
  <2>2. s.stack = << >>
    BY <2>1 DEF Started
  <2>3. P \in Seq(1 .. 0) /\ Len(P) = 0 /\ Len(P) = Len(s.stack)
    BY <2>2
  <2> HIDE DEF P
  <2>4. HasPositions(line, 0, P)
    BY <2>3 DEF HasPositions, s
  <2> QED
    BY <1>1, <2>4
<1>3. ASSUME NEW m \in 1 .. N, m - 1 \in T PROVE m \in T
  <2>1. m \in 0 .. N /\ m - 1 \in 0 .. N /\ m \in Nat
    BY <1>1
  <2> DEFINE s == Stripping(line)[m - 1]
             t == Stripping(line)[m]
  <2>2. PICK P : HasPositions(line, m - 1, P)
    BY <1>3
  <2> DEFINE L == Len(P)
  <2>3. /\ P \in Seq(1 .. m - 1) /\ L = Len(s.stack)
        /\ \A k \in 1 .. L :
             /\ s.stack[k] = line[P[k]][2] /\ StillOpen(line, P[k], m - 1)
             /\ Depth(line, P[k], m - 1) = L - k + 1
        /\ \A j \in 1 .. m - 1 : StillOpen(line, j, m - 1) => \E k \in 1 .. L : P[k] = j
    BY <2>2 DEF HasPositions
  <2>4. L \in Nat /\ \A k \in 1 .. L : P[k] \in 1 .. m - 1
    <3> DEFINE A == 1 .. m - 1
    <3>1. P \in Seq(A)
      BY <2>3
    <3> HIDE DEF A
    <3>2. L \in Nat /\ \A k \in 1 .. L : P[k] \in A
      BY <3>1
    <3> QED
      BY <3>2 DEF A
  <2>5. \A j \in 1 .. m - 1 :
          /\ Depth(line, j, m) \in Int /\ Depth(line, j, m - 1) \in Int
          /\ Depth(line, j, m) = Depth(line, j, m - 1) + Rise(line[m])
          /\ StillOpen(line, j, m) <=> StillOpen(line, j, m - 1) /\ Depth(line, j, m) > 0
    BY StillOpenStep
  <2>6. Depth(line, m, m) = Rise(line[m]) /\ (StillOpen(line, m, m) <=> line[m][1] = "open")
    BY OpenAtOnce
  <2>7. line[m][1] \in {"char", "open", "close"} /\ (IsTag(line[m]) <=> line[m][1] # "char")
    <3>1. line[m] \in Items
      BY <1>1
    <3> QED
      BY <3>1 DEF IsTag, Items
  <2>8. \A j \in 1 .. m : j \in 1 .. m - 1 \/ j = m
    BY <2>1
  <2>9. \A Q : Q \in Seq(1 .. m - 1) => Q \in Seq(1 .. m)
    <3>1. 1 .. m - 1 \subseteq 1 .. m
      BY <2>1
    <3> DEFINE A == 1 .. m - 1
               B == 1 .. m
    <3> HIDE DEF A, B
    <3>2. A \subseteq B
      BY <3>1 DEF A, B
    <3>3. \A Q : Q \in Seq(A) => Q \in Seq(B)
      BY <3>2
    <3> QED
      BY <3>3 DEF A, B
  <2>10. CASE line[m][1] = "char"
    <3>1. t.stack = s.stack
      BY <2>7, <2>10, CharacterStep
    <3>2. Rise(line[m]) = 0
      BY <2>10 DEF Rise
    <3> HIDE DEF s, t
    <3>3. \A k \in 1 .. L :
            /\ t.stack[k] = line[P[k]][2] /\ StillOpen(line, P[k], m)
            /\ Depth(line, P[k], m) = L - k + 1
      <4> TAKE k \in 1 .. L
      <4>1. P[k] \in 1 .. m - 1 /\ L \in Nat
        BY <2>4
      <4>2. /\ s.stack[k] = line[P[k]][2] /\ StillOpen(line, P[k], m - 1)
            /\ Depth(line, P[k], m - 1) = L - k + 1
        BY <2>3
      <4>3. Depth(line, P[k], m) = L - k + 1
        BY <2>5, <3>2, <4>1, <4>2
      <4> HIDE DEF L
      <4>4. Depth(line, P[k], m) > 0
        BY <4>1, <4>3
      <4> QED
        BY <2>5, <3>1, <4>1, <4>2, <4>3, <4>4
    <3>4. \A j \in 1 .. m : StillOpen(line, j, m) => \E k \in 1 .. L : P[k] = j
      BY <2>3, <2>5, <2>6, <2>8, <2>10
    <3>5. HasPositions(line, m, P)
      BY <2>3, <2>9, <3>1, <3>3, <3>4 DEF HasPositions, t
    <3> QED
      BY <2>1, <3>5
  <2>11. CASE line[m][1] = "open"
    <3>1. s \in Strippings /\ t.stack = Append(s.stack, line[m][2])
      BY <2>7, <2>11, TagStep
    <3>2. Rise(line[m]) = 1
      BY <2>11 DEF Rise
    <3> HIDE DEF s, t
    <3> DEFINE Q == Append(P, m)
    <3>3. s.stack \in Seq(Values)
      BY <3>1 DEF Strippings
    <3>4. /\ Len(t.stack) = L + 1 /\ t.stack[L + 1] = line[m][2]
          /\ \A k \in 1 .. L : t.stack[k] = s.stack[k]
      <4> DEFINE stack == s.stack
                 name == line[m][2]
      <4> HIDE DEF stack, name
      <4>1. Append(stack, name) = [k \in 1 .. Len(stack) + 1 |->
                                     IF k = Len(stack) + 1 THEN name ELSE stack[k]]
        BY <3>3 DEF stack
      <4>2. Len(stack) = L /\ t.stack = Append(stack, name)
        BY <2>3, <3>1 DEF stack, name
      <4> HIDE DEF L
      <4>3. L \in Nat
        BY <2>4 DEF L
      <4>4. t.stack = [k \in 1 .. L + 1 |-> IF k = L + 1 THEN name ELSE stack[k]]
        BY <4>1, <4>2
      <4>5. Len(t.stack) = L + 1
        BY <4>3, <4>4
      <4>6. t.stack[L + 1] = name /\ \A k \in 1 .. L : t.stack[k] = stack[k]
        BY <4>3, <4>4
      <4> QED
        BY <4>5, <4>6 DEF name, stack
    <3>5. /\ Q \in Seq(1 .. m) /\ Len(Q) = L + 1 /\ Q[L + 1] = m
          /\ \A k \in 1 .. L : Q[k] = P[k]
      <4>1. P \in Seq(1 .. m) /\ m \in 1 .. m
        BY <2>1, <2>3, <2>9
      <4> QED
        BY <4>1
    <3> DEFINE M == Len(Q)
    <3>6. M = L + 1 /\ M = Len(t.stack) /\ M \in Nat /\ L \in Nat
      BY <2>4, <3>4, <3>5
    <3> HIDE DEF Q, L, M
    <3>7. ASSUME NEW k \in 1 .. M
          PROVE  /\ t.stack[k] = line[Q[k]][2] /\ StillOpen(line, Q[k], m)
                 /\ Depth(line, Q[k], m) = M - k + 1
      <4>1. CASE k = M
        <5>1. M - k + 1 = 1
          BY <3>6, <4>1
        <5> QED
          BY <2>6, <2>11, <3>2, <3>4, <3>5, <3>6, <4>1, <5>1
      <4>2. CASE k # M
        <5>1. k \in 1 .. L
          BY <3>6, <4>2
        <5>2. P[k] \in 1 .. m - 1
          BY <2>4, <5>1 DEF L
        <5>3. Depth(line, P[k], m - 1) = L - k + 1 /\ StillOpen(line, P[k], m - 1)
              /\ s.stack[k] = line[P[k]][2]
          BY <2>3, <5>1 DEF L
        <5>4. Depth(line, P[k], m) = M - k + 1
          BY <2>5, <3>2, <3>6, <5>2, <5>3
        <5>5. Depth(line, P[k], m) > 0
          BY <3>6, <5>4
        <5>6. StillOpen(line, P[k], m)
          BY <2>5, <5>2, <5>3, <5>5
        <5> QED
          BY <3>4, <3>5, <5>1, <5>3, <5>4, <5>6
      <4> QED
        BY <4>1, <4>2
    <3>8. ASSUME NEW j \in 1 .. m, StillOpen(line, j, m) PROVE \E k \in 1 .. M : Q[k] = j
      <4>1. CASE j = m
        <5>1. M \in 1 .. M
          BY <3>6
        <5> QED
          BY <3>5, <3>6, <4>1, <5>1
      <4>2. CASE j # m
        <5>1. j \in 1 .. m - 1
          BY <2>8, <4>2
        <5>2. PICK k \in 1 .. L : P[k] = j
          BY <2>3, <2>5, <3>8, <5>1 DEF L
        <5>3. k \in 1 .. M
          BY <3>6
        <5> QED
          BY <3>5, <5>2, <5>3
      <4> QED
        BY <4>1, <4>2
    <3>9. HasPositions(line, m, Q)
      BY <3>5, <3>6, <3>7, <3>8 DEF HasPositions, t, M
    <3> QED
      BY <2>1, <3>9
  <2>12. CASE line[m][1] = "close"
    <3>1. s \in Strippings /\ t.stack = IF s.stack = << >> THEN s.stack ELSE Front(s.stack)
      BY <2>7, <2>12, TagStep
    <3>2. Rise(line[m]) = -1
      BY <2>12 DEF Rise
    <3> HIDE DEF s, t
    <3>3. s.stack \in Seq(Values)
      BY <3>1 DEF Strippings
    <3>4. CASE s.stack = << >>
      <4>1. L = 0 /\ t.stack = s.stack
        BY <2>3, <3>1, <3>4
      <4>2. ASSUME NEW j \in 1 .. m, StillOpen(line, j, m) PROVE FALSE
        BY <2>3, <2>5, <2>6, <2>8, <2>12, <4>1, <4>2
      <4>3. P \in Seq(1 .. m) /\ L = Len(t.stack)
        BY <2>3, <2>9, <4>1
      <4>4. \A k \in 1 .. L : FALSE
        BY <4>1
      <4>5. HasPositions(line, m, P)
        BY <4>2, <4>3, <4>4 DEF HasPositions, t
      <4> QED
        BY <2>1, <4>5
    <3>5. CASE s.stack # << >>
      <4> DEFINE Q == Front(P)
      <4>1. t.stack = Front(s.stack) /\ P # << >> /\ L # 0
        BY <2>3, <3>1, <3>3, <3>5
      <4>2. Len(t.stack) = L - 1 /\ \A k \in 1 .. L - 1 : t.stack[k] = s.stack[k]
        BY <2>3, <3>3, <3>5, <4>1, FrontFacts
      <4>3. /\ Q \in Seq(1 .. m - 1) /\ Len(Q) = L - 1
            /\ \A k \in 1 .. L - 1 : Q[k] = P[k]
        BY <2>3, <4>1, FrontFacts
      <4>4. Q \in Seq(1 .. m)
        BY <2>9, <4>3
      <4> HIDE DEF Q, L
      <4>5. L \in Nat /\ L # 0
        BY <2>4, <4>1 DEF L
      <4>6. ASSUME NEW k \in 1 .. L
            PROVE  /\ P[k] \in 1 .. m - 1 /\ Depth(line, P[k], m) = L - 1 - k + 1
                   /\ StillOpen(line, P[k], m) <=> k # L
                   /\ s.stack[k] = line[P[k]][2]
        <5>1. P[k] \in 1 .. m - 1
          BY <2>4 DEF L
        <5>2. Depth(line, P[k], m - 1) = L - k + 1 /\ StillOpen(line, P[k], m - 1)
              /\ s.stack[k] = line[P[k]][2]
          BY <2>3 DEF L
        <5>3. Depth(line, P[k], m) = L - 1 - k + 1
          BY <2>5, <3>2, <4>5, <5>1, <5>2
        <5>4. Depth(line, P[k], m) > 0 <=> k # L
          BY <4>5, <5>3
        <5> QED
          BY <2>5, <5>1, <5>2, <5>3, <5>4
      <4>7. \A k \in 1 .. L - 1 : k \in 1 .. L /\ k # L
        BY <4>5
      <4>8. ASSUME NEW j \in 1 .. m, StillOpen(line, j, m) PROVE \E k \in 1 .. L - 1 : Q[k] = j
        <5>1. j \in 1 .. m - 1
          BY <2>6, <2>8, <2>12, <4>8
        <5>2. PICK k \in 1 .. L : P[k] = j
          BY <2>3, <2>5, <4>8, <5>1 DEF L
        <5>3. k # L
          BY <4>6, <4>8, <5>2
        <5>4. k \in 1 .. L - 1
          BY <4>5, <5>3
        <5> QED
          BY <4>3, <5>2, <5>4
      <4>9. \A k \in 1 .. L - 1 :
              /\ t.stack[k] = line[Q[k]][2] /\ StillOpen(line, Q[k], m)
              /\ Depth(line, Q[k], m) = L - 1 - k + 1
        BY <4>2, <4>3, <4>6, <4>7
      <4>10. HasPositions(line, m, Q)
        BY <4>2, <4>3, <4>4, <4>8, <4>9 DEF HasPositions, t
      <4> QED
        BY <2>1, <4>10
    <3> QED
      BY <3>4, <3>5
  <2> QED
    BY <2>7, <2>10, <2>11, <2>12
<1> HIDE DEF T
<1>4. 0 .. N \subseteq T
  BY <1>1, <1>2, <1>3, UpTo
<1>5. n \in T
  BY <1>4
<1> QED
  BY <1>5 DEF T

(***************************************************************************)
(* And the runs: a character followed by a tag is in runs, which have the  *)
(* styles of the stack it was read with; after the last tag that stack is  *)
(* still there.                                                            *)
(***************************************************************************)
StylesRead(line, p) == ToSet(Stripping(line)[p].stack) \cap Styles

RunsInv(line, n) ==
  LET s == Stripping(line)[n] IN
  /\ \A run \in s.runs : run.range # {} /\ run.range \subseteq 1 .. s.from
  /\ \A p \in Characters(line) : p <= n =>
       /\ \A run \in s.runs : PlaceOf(line, p) \in run.range => run.styles = StylesRead(line, p)
       /\ PlaceOf(line, p) <= s.from => \E run \in s.runs : PlaceOf(line, p) \in run.range
       /\ PlaceOf(line, p) > s.from => s.stack = Stripping(line)[p].stack

(* A run has the styles its characters were read with. *)
LEMMA RunsKept ==
  ASSUME NEW line \in Seq(Items), NEW n \in 0 .. Len(line)
  PROVE  RunsInv(line, n)
<1> DEFINE N == Len(line)
           T == {m \in 0 .. N : RunsInv(line, m)}
<1>1. N \in Nat /\ DOMAIN line = 1 .. N
  OBVIOUS
<1>2. Characters(line) \subseteq 1 .. N /\ \A p \in Characters(line) : ~ IsTag(line[p])
  BY <1>1 DEF Characters
<1>3. 0 \in T
  <2> DEFINE s == Stripping(line)[0]
  <2>1. s = Started
    BY StrippingSteps
  <2> HIDE DEF s
  <2>2. s.runs = {}
    BY <2>1 DEF Started
  <2>3. \A p \in Characters(line) : ~ (p <= 0)
    BY <1>1, <1>2
  <2>4. RunsInv(line, 0)
    BY <2>2, <2>3 DEF RunsInv, s
  <2> QED
    BY <1>1, <2>4
<1>4. ASSUME NEW m \in 1 .. N, m - 1 \in T PROVE m \in T
  <2> DEFINE s == Stripping(line)[m - 1]
             t == Stripping(line)[m]
  <2>1. m \in 0 .. N /\ m - 1 \in 0 .. N /\ m \in Nat
    BY <1>1
  <2>2. RunsInv(line, m - 1)
    BY <1>4
  <2>3. /\ \A run \in s.runs : run.range # {} /\ run.range \subseteq 1 .. s.from
        /\ \A p \in Characters(line) : p <= m - 1 =>
             /\ \A run \in s.runs : PlaceOf(line, p) \in run.range =>
                                      run.styles = StylesRead(line, p)
             /\ PlaceOf(line, p) <= s.from => \E run \in s.runs : PlaceOf(line, p) \in run.range
             /\ PlaceOf(line, p) > s.from => s.stack = Stripping(line)[p].stack
    BY <2>2 DEF RunsInv
  <2>4. Len(s.text) = PlaceOf(line, m - 1) /\ s.from \in 0 .. Len(s.text)
    BY <2>1, TextKept DEF TextInv
  <2>5. PlaceOf(line, m - 1) \in Nat
    BY <2>1, Places
  <2>6. CASE IsTag(line[m])
    <3> DEFINE new == [range |-> (s.from + 1) .. Len(s.text),
                       styles |-> ToSet(s.stack) \cap Styles]
    <3>1. /\ t.from = Len(s.text)
          /\ t.runs = IF Len(s.text) = s.from THEN s.runs ELSE s.runs \cup {new}
      BY <2>6, TagStep
    <3> DEFINE L == Len(s.text)
               from == s.from
    <3>2. L \in Nat /\ from \in 0 .. L
      BY <2>4, <2>5
    <3>3. new.range = (from + 1) .. L /\ new.styles = ToSet(s.stack) \cap Styles
      OBVIOUS
    <3>4. /\ t.from = L /\ t.runs = IF L = from THEN s.runs ELSE s.runs \cup {new}
          /\ \A run \in s.runs : run.range # {} /\ run.range \subseteq 1 .. from
      BY <2>3, <3>1
    <3>5. L = PlaceOf(line, m - 1)
      BY <2>4
    <3> HIDE DEF s, t, new, L, from
    <3>6. ASSUME NEW run \in t.runs PROVE run.range # {} /\ run.range \subseteq 1 .. t.from
      <4>1. CASE run \in s.runs
        BY <3>2, <3>4, <4>1
      <4>2. CASE run \notin s.runs
        <5>1. L # from /\ run = new
          BY <3>4, <4>2
        <5>2. from + 1 \in (from + 1) .. L /\ (from + 1) .. L \subseteq 1 .. L
          BY <3>2, <5>1
        <5> QED
          BY <3>3, <3>4, <5>1, <5>2
      <4> QED
        BY <4>1, <4>2
    <3>7. ASSUME NEW p \in Characters(line), p <= m
          PROVE  /\ \A run \in t.runs : PlaceOf(line, p) \in run.range =>
                                          run.styles = StylesRead(line, p)
                 /\ PlaceOf(line, p) <= t.from =>
                      \E run \in t.runs : PlaceOf(line, p) \in run.range
                 /\ PlaceOf(line, p) > t.from => t.stack = Stripping(line)[p].stack
      <4> DEFINE place == PlaceOf(line, p)
      <4>1. p \in 1 .. N /\ p # m
        BY <1>2, <2>6
      <4>2. p \in 0 .. m - 1 /\ p <= m - 1 /\ p \in 0 .. N
        BY <1>1, <2>1, <3>7, <4>1
      <4>3. place \in Nat /\ place <= L
        BY <2>1, <3>5, <4>2, Places, PlacesInOrder
      <4>4. /\ \A run \in s.runs : place \in run.range => run.styles = StylesRead(line, p)
            /\ place <= from => \E run \in s.runs : place \in run.range
            /\ place > from => s.stack = Stripping(line)[p].stack
        BY <2>3, <4>2 DEF from
      <4> HIDE DEF place
      <4>5. CASE place <= from
        <5>1. place \notin (from + 1) .. L
          BY <3>2, <4>3, <4>5
        <5>2. \A run \in t.runs : place \in run.range => run \in s.runs
          BY <3>3, <3>4, <5>1
        <5>3. \E run \in t.runs : place \in run.range
          BY <3>4, <4>4, <4>5
        <5>4. ~ (place > t.from)
          BY <3>2, <3>4, <4>3
        <5> QED
          BY <4>4, <5>2, <5>3, <5>4 DEF place
      <4>6. CASE ~ (place <= from)
        <5>1. place \in (from + 1) .. L /\ L # from /\ place > from /\ ~ (place > t.from)
          BY <3>2, <3>4, <4>3, <4>6
        <5>2. new \in t.runs /\ place \in new.range
          BY <3>3, <3>4, <5>1
        <5>3. new.styles = StylesRead(line, p)
          BY <3>3, <4>4, <5>1 DEF StylesRead
        <5>4. \A run \in t.runs : place \in run.range => run.styles = StylesRead(line, p)
          BY <3>4, <4>4, <5>3
        <5> QED
          BY <5>1, <5>2, <5>4 DEF place
      <4> QED
        BY <4>5, <4>6
    <3>8. RunsInv(line, m)
      BY <3>6, <3>7 DEF RunsInv, t
    <3> QED
      BY <2>1, <3>8
  <2>7. CASE ~ IsTag(line[m])
    <3>1. t.runs = s.runs /\ t.stack = s.stack /\ t.from = s.from
      BY <2>7, CharacterStep
    <3>2. PlaceOf(line, m) = PlaceOf(line, m - 1) + 1
      BY <2>7, Places
    <3> DEFINE from == s.from
    <3>3. from \in Nat /\ PlaceOf(line, m) > from /\ PlaceOf(line, m) \notin 1 .. from
          /\ ~ (PlaceOf(line, m) <= from)
      BY <2>4, <2>5, <3>2
    <3> HIDE DEF s, t
    <3>4. ASSUME NEW p \in Characters(line), p <= m
          PROVE  /\ \A run \in t.runs : PlaceOf(line, p) \in run.range =>
                                          run.styles = StylesRead(line, p)
                 /\ PlaceOf(line, p) <= t.from =>
                      \E run \in t.runs : PlaceOf(line, p) \in run.range
                 /\ PlaceOf(line, p) > t.from => t.stack = Stripping(line)[p].stack
      <4>1. CASE p = m
        <5>1. \A run \in t.runs : PlaceOf(line, p) \notin run.range
          BY <2>3, <3>1, <3>3, <4>1
        <5>2. ~ (PlaceOf(line, p) <= t.from)
          BY <3>1, <3>3, <4>1
        <5> QED
          BY <4>1, <5>1, <5>2 DEF t
      <4>2. CASE p # m
        <5>1. p <= m - 1
          BY <1>1, <1>2, <2>1, <3>4, <4>2
        <5> QED
          BY <2>3, <3>1, <5>1
      <4> QED
        BY <4>1, <4>2
    <3>5. \A run \in t.runs : run.range # {} /\ run.range \subseteq 1 .. t.from
      BY <2>3, <3>1
    <3>6. RunsInv(line, m)
      BY <3>4, <3>5 DEF RunsInv, t
    <3> QED
      BY <2>1, <3>6
  <2> QED
    BY <2>6, <2>7
<1> HIDE DEF T
<1>5. 0 .. N \subseteq T
  BY <1>1, <1>3, <1>4, UpTo
<1>6. n \in T
  BY <1>5
<1> QED
  BY <1>6 DEF T

-----------------------------------------------------------------------------
(***************************************************************************)
(* ParseLine on a line whose tags are closed.                              *)
(***************************************************************************)

(* The tag that opens what another closes stands before it, and they match. *)
LEMMA Partners ==
  ASSUME NEW line \in Seq(Items), Balanced(line), NEW m \in 1 .. Len(line)
  PROVE  /\ line[m][1] = "open" => \E k \in m + 1 .. Len(line) : Match(line, m, k)
         /\ line[m][1] = "close" => \E j \in 1 .. m - 1 : Match(line, j, m)
<1>1. DOMAIN line = 1 .. Len(line) /\ Len(line) \in Nat
  OBVIOUS
<1>2. ASSUME line[m][1] # "char"
      PROVE  \E j, k \in 1 .. Len(line) : m \in {j, k} /\ j < k /\ Match(line, j, k)
  BY <1>1, <1>2 DEF Balanced, Characters, IsTag
<1>3. \A j, k \in 1 .. Len(line) : Match(line, j, k) => line[j][1] = "open" /\ line[k][1] = "close"
  BY DEF Match, Open, Close
<1>4. ASSUME line[m][1] = "open" PROVE \E k \in m + 1 .. Len(line) : Match(line, m, k)
  <2>1. PICK j, k \in 1 .. Len(line) : m \in {j, k} /\ j < k /\ Match(line, j, k)
    BY <1>2, <1>4
  <2>2. m = j
    BY <1>3, <1>4, <2>1
  <2>3. k \in m + 1 .. Len(line)
    BY <1>1, <2>1, <2>2
  <2> QED
    BY <2>1, <2>2, <2>3
<1>5. ASSUME line[m][1] = "close" PROVE \E j \in 1 .. m - 1 : Match(line, j, m)
  <2>1. PICK j, k \in 1 .. Len(line) : m \in {j, k} /\ j < k /\ Match(line, j, k)
    BY <1>2, <1>5
  <2>2. m = k
    BY <1>3, <1>5, <2>1
  <2>3. j \in 1 .. m - 1
    BY <1>1, <2>1, <2>2
  <2> QED
    BY <2>1, <2>2, <2>3
<1> QED
  BY <1>4, <1>5

(* A closing tag always finds something on the stack. *)
LEMMA NeverEmpty ==
  ASSUME NEW line \in Seq(Items), Balanced(line), NEW n \in 0 .. Len(line)
  PROVE  Stripping(line)[n].defined
<1> DEFINE N == Len(line)
           T == {m \in 0 .. N : Stripping(line)[m].defined}
<1>1. N \in Nat
  OBVIOUS
<1>2. 0 \in T
  <2>1. Stripping(line)[0].defined
    BY StrippingSteps DEF Started
  <2> QED
    BY <1>1, <2>1
<1>3. ASSUME NEW m \in 1 .. N, m - 1 \in T PROVE m \in T
  <2> DEFINE s == Stripping(line)[m - 1]
             t == Stripping(line)[m]
  <2>1. s.defined /\ m \in 0 .. N /\ m - 1 \in 0 .. N /\ m - 1 \in Int
    BY <1>1, <1>3
  <2>2. CASE ~ IsTag(line[m])
    <3>1. t.defined = s.defined
      BY <2>2, CharacterStep
    <3> HIDE DEF s
    <3> QED
      BY <2>1, <3>1
  <2>3. CASE IsTag(line[m])
    <3>1. t.defined = (s.defined /\ (line[m][1] = "close" => s.stack # << >>))
      BY <2>3, TagStep
    <3>2. ASSUME line[m][1] = "close" PROVE s.stack # << >>
      <4>1. PICK j \in 1 .. m - 1 : Match(line, j, m)
        BY <3>2, Partners
      <4>2. StillOpen(line, j, m - 1)
        BY <4>1 DEF Match, StillOpen, Open
      <4>3. PICK P : HasPositions(line, m - 1, P)
        BY <2>1, StackKept
      <4>4. Len(P) = Len(s.stack) /\ \E k \in 1 .. Len(P) : P[k] = j
        BY <4>2, <4>3 DEF HasPositions
      <4> HIDE DEF s
      <4>5. ASSUME s.stack = << >> PROVE FALSE
        <5>1. Len(P) = 0
          BY <4>4, <4>5
        <5> QED
          BY <4>4, <5>1
      <4> QED
        BY <4>5
    <3> HIDE DEF s, t
    <3>3. t.defined
      BY <2>1, <3>1, <3>2
    <3> QED
      BY <2>1, <3>3 DEF t
  <2> QED
    BY <2>2, <2>3
<1> HIDE DEF T
<1>4. 0 .. N \subseteq T
  BY <1>1, <1>2, <1>3, UpTo
<1>5. n \in T
  BY <1>4
<1> QED
  BY <1>5 DEF T

(* The styles a character is read with are those of the tags around it. *)
LEMMA StylesMean ==
  ASSUME NEW line \in Seq(Items), Balanced(line), NEW p \in Characters(line),
         \A k \in DOMAIN line \ Characters(line) : line[k][2] \in Styles
  PROVE  StylesRead(line, p) = StylesAt(line, p)
<1> DEFINE N == Len(line)
           s == Stripping(line)[p]
<1>1. N \in Nat /\ DOMAIN line = 1 .. N
  OBVIOUS
<1>2. p \in 1 .. N /\ p \in 0 .. N /\ p \in Nat /\ line[p][1] = "char"
  <2>1. p \in DOMAIN line /\ ~ IsTag(line[p])
    BY DEF Characters
  <2> QED
    BY <1>1, <2>1 DEF IsTag
<1>3. PICK P : HasPositions(line, p, P)
  BY <1>2, StackKept
<1>4. s.stack \in Seq(Values)
  BY <1>2, StrippingSteps DEF Strippings
<1> DEFINE L == Len(P)
<1>5. /\ L = Len(s.stack)
      /\ \A k \in 1 .. L : s.stack[k] = line[P[k]][2] /\ StillOpen(line, P[k], p)
      /\ \A j \in 1 .. p : StillOpen(line, j, p) => \E k \in 1 .. L : P[k] = j
  BY <1>3 DEF HasPositions
<1>6. \A k \in 1 .. L : P[k] \in 1 .. p
  <2> DEFINE A == 1 .. p
  <2>1. P \in Seq(A)
    BY <1>3 DEF HasPositions
  <2> HIDE DEF A
  <2>2. \A k \in 1 .. L : P[k] \in A
    BY <2>1
  <2> QED
    BY <2>2 DEF A
<1>7. DOMAIN s.stack = 1 .. L
  BY <1>4, <1>5
<1> HIDE DEF L
<1>8. ASSUME NEW k \in 1 .. L PROVE s.stack[k] \in StylesAt(line, p) /\ s.stack[k] \in Styles
  <2> DEFINE j == P[k]
  <2>1. j \in 1 .. p /\ j \in 1 .. N /\ line[j][1] = "open"
        /\ (\A m \in j .. p : Depth(line, j, m) > 0) /\ s.stack[k] = line[j][2]
    BY <1>1, <1>2, <1>5, <1>6 DEF StillOpen
  <2> HIDE DEF j, s
  <2>2. PICK e \in j + 1 .. N : Match(line, j, e)
    BY <2>1, Partners
  <2>3. e \in p .. N
    <3>1. e \in Int /\ j \in Int /\ j < e /\ e <= N
      BY <1>1, <2>1
    <3>2. ~ (e <= p)
      <4>1. Depth(line, j, e) = 0
        BY <2>2 DEF Match
      <4>2. ASSUME e <= p PROVE FALSE
        <5>1. e \in j .. p
          BY <1>2, <3>1, <4>2
        <5>2. Depth(line, j, e) > 0
          BY <2>1, <5>1
        <5> QED
          BY <4>1, <5>2
      <4> QED
        BY <4>2
    <3> QED
      BY <1>1, <1>2, <3>1, <3>2
  <2>4. j \in {m \in 1 .. p : \E q \in p .. Len(line) : m < q /\ Match(line, m, q)}
    <3>1. j < e
      BY <1>1, <2>1
    <3> QED
      BY <2>1, <2>2, <2>3, <3>1
  <2>5. s.stack[k] \in StylesAt(line, p)
    BY <2>1, <2>4 DEF StylesAt
  <2>6. j \in DOMAIN line \ Characters(line)
    BY <1>1, <2>1 DEF Characters, IsTag
  <2> QED
    BY <2>1, <2>5, <2>6
<1>9. ASSUME NEW style \in StylesAt(line, p)
      PROVE  style \in Styles /\ \E k \in 1 .. L : s.stack[k] = style
  <2>1. PICK j \in 1 .. p : /\ style = line[j][2]
                            /\ \E q \in p .. Len(line) : j < q /\ Match(line, j, q)
    BY <1>9 DEF StylesAt
  <2>2. PICK q \in p .. Len(line) : j < q /\ Match(line, j, q)
    BY <2>1
  <2>3. line[j][1] = "open" /\ line[q][1] = "close"
    BY <2>2 DEF Match, Open, Close
  <2>4. p # q
    BY <1>2, <2>3
  <2>5. \A m \in j .. p : m \in j .. q - 1
    BY <1>1, <1>2, <2>4
  <2>6. StillOpen(line, j, p)
    BY <2>2, <2>3, <2>5 DEF Match, StillOpen
  <2>7. PICK k \in 1 .. L : P[k] = j
    BY <1>5, <2>6 DEF L
  <2>8. s.stack[k] = line[j][2]
    BY <1>5, <2>7 DEF L
  <2>9. j \in DOMAIN line \ Characters(line)
    BY <1>1, <1>2, <2>3 DEF Characters, IsTag
  <2> HIDE DEF s
  <2> QED
    BY <2>1, <2>7, <2>8, <2>9
<1>10. ToSet(s.stack) = {s.stack[k] : k \in 1 .. L}
  BY <1>7 DEF ToSet
<1>11. StylesRead(line, p) = {s.stack[k] : k \in 1 .. L} \cap Styles
  BY <1>10 DEF StylesRead
<1> HIDE DEF s
<1> QED
  BY <1>8, <1>9, <1>11

(* At the end of the line nothing is on the stack. *)
LEMMA AllClosed ==
  ASSUME NEW line \in Seq(Items), Balanced(line)
  PROVE  Stripping(line)[Len(line)].stack = << >>
<1> DEFINE N == Len(line)
           s == Stripping(line)[N]
<1>1. N \in Nat /\ N \in 0 .. N
  OBVIOUS
<1>2. PICK P : HasPositions(line, N, P)
  BY <1>1, StackKept
<1>3. s.stack \in Seq(Values)
  BY <1>1, StrippingSteps DEF Strippings
<1>4. Len(P) = Len(s.stack) /\ \A k \in 1 .. Len(P) : StillOpen(line, P[k], N)
  BY <1>2 DEF HasPositions
<1>5. \A k \in 1 .. Len(P) : P[k] \in 1 .. N
  <2> DEFINE A == 1 .. N
  <2>1. P \in Seq(A)
    BY <1>2 DEF HasPositions
  <2> HIDE DEF A
  <2>2. \A k \in 1 .. Len(P) : P[k] \in A
    BY <2>1
  <2> QED
    BY <2>2 DEF A
<1> HIDE DEF s
<1>6. ASSUME s.stack # << >> PROVE FALSE
  <2>1. Len(s.stack) \in Nat \ {0}
    BY <1>3, <1>6
  <2>2. 1 \in 1 .. Len(P)
    BY <1>4, <2>1
  <2> DEFINE j == P[1]
  <2>3. j \in 1 .. N /\ StillOpen(line, j, N)
    BY <1>4, <1>5, <2>2
  <2> HIDE DEF j
  <2>4. PICK k \in j + 1 .. N : Match(line, j, k)
    BY <2>3, Partners DEF StillOpen
  <2>5. Depth(line, j, k) = 0
    BY <2>4 DEF Match
  <2>6. k \in j .. N
    BY <1>1, <2>3
  <2>7. Depth(line, j, k) > 0
    BY <2>3, <2>6 DEF StillOpen
  <2> QED
    BY <2>5, <2>7
<1> QED
  BY <1>6 DEF s

(* A run has characters, and they are characters of the text. *)
LEMMA RunsInside ==
  ASSUME NEW line \in Seq(Items), NEW run \in Strip(line).runs
  PROVE  run.range # {} /\ run.range \subseteq DOMAIN Strip(line).text
<1> DEFINE N == Len(line)
           s == Stripping(line)[N]
<1>1. N \in Nat /\ N \in 0 .. N
  OBVIOUS
<1>2. s.text \in Seq(Items) /\ s.from \in Nat
  BY <1>1, StrippingSteps DEF Strippings
<1>3. s.from \in 0 .. Len(s.text)
  BY <1>1, TextKept DEF TextInv
<1>4. /\ Strip(line).runs = s.runs
      /\ Strip(line).text = IF Len(s.text) = s.from + 1 THEN SubSeq(s.text, 1, s.from) ELSE s.text
  BY DEF Strip
<1>5. run.range # {} /\ run.range \subseteq 1 .. s.from
  BY <1>1, <1>4, RunsKept DEF RunsInv
<1> HIDE DEF s
<1>6. 1 .. s.from \subseteq DOMAIN Strip(line).text
  <2>1. CASE Len(s.text) = s.from + 1
    <3>1. DOMAIN SubSeq(s.text, 1, s.from) = 1 .. s.from
      BY <1>2, <1>3
    <3> QED
      BY <1>4, <2>1, <3>1
  <2>2. CASE Len(s.text) # s.from + 1
    <3>1. DOMAIN s.text = 1 .. Len(s.text) /\ 1 .. s.from \subseteq 1 .. Len(s.text)
      BY <1>2, <1>3
    <3> QED
      BY <1>4, <2>2, <3>1
  <2> QED
    BY <2>1, <2>2
<1> QED
  BY <1>5, <1>6

(* A line whose tags are closed and that has no single character after the *)
(* last of them loses its tags and nothing else, and each of its           *)
(* characters has the styles of the tags around it.                        *)
LEMMA StrippedWell ==
  ASSUME NEW line \in Seq(Items), Balanced(line), ~ LoneLast(line),
         \A k \in DOMAIN line \ Characters(line) : line[k][2] \in Styles
  PROVE  /\ Strip(line).defined /\ OnlyTagsLost(line, Strip(line).text)
         /\ \A p \in Characters(line) :
              UNION {run.styles : run \in {r \in Strip(line).runs : PlaceOf(line, p) \in r.range}}
                = StylesAt(line, p)
<1> DEFINE N == Len(line)
           s == Stripping(line)[N]
<1>1. N \in Nat /\ N \in 0 .. N /\ DOMAIN line = 1 .. N
  OBVIOUS
<1>2. /\ Strip(line).runs = s.runs /\ Strip(line).defined = s.defined
      /\ Strip(line).text = IF Len(s.text) = s.from + 1 THEN SubSeq(s.text, 1, s.from) ELSE s.text
  BY DEF Strip
<1>3. /\ Len(s.text) = PlaceOf(line, N)
      /\ \A p \in Characters(line) : p <= N => s.text[PlaceOf(line, p)] = line[p]
      /\ s.from \in 0 .. Len(s.text)
      /\ N = 0 \/ IsTag(line[N]) => s.from = Len(s.text)
      /\ N > 0 /\ ~ IsTag(line[N]) =>
           (Len(s.text) = s.from + 1 => N = 1 \/ IsTag(line[N - 1]))
  BY <1>1, TextKept DEF TextInv
<1>4. PlaceOf(line, N) = Cardinality(Characters(line)) /\ PlaceOf(line, N) \in Nat
  BY <1>1, Places
<1>5. \A p \in Characters(line) : p \in 1 .. N /\ p <= N /\ p \in 0 .. N
  BY <1>1 DEF Characters
<1>6. s.defined
  BY <1>1, NeverEmpty
<1>7. s.stack = << >>
  BY AllClosed
<1>8. /\ \A run \in s.runs : run.range \subseteq 1 .. s.from
      /\ \A p \in Characters(line) :
           /\ \A run \in s.runs : PlaceOf(line, p) \in run.range => run.styles = StylesRead(line, p)
           /\ PlaceOf(line, p) <= s.from => \E run \in s.runs : PlaceOf(line, p) \in run.range
           /\ PlaceOf(line, p) > s.from => s.stack = Stripping(line)[p].stack
  BY <1>1, <1>5, RunsKept DEF RunsInv
<1> HIDE DEF s
<1>9. Len(s.text) # s.from + 1
  <2>1. CASE N = 0 \/ IsTag(line[N])
    BY <1>3, <1>4, <2>1
  <2>2. CASE ~ (N = 0 \/ IsTag(line[N]))
    <3>1. N \in Characters(line) /\ N > 0
      BY <1>1, <2>2 DEF Characters
    <3>2. N # 1 /\ N - 1 \in Characters(line)
      BY <3>1 DEF LoneLast
    <3>3. ~ IsTag(line[N - 1])
      BY <3>2 DEF Characters
    <3> QED
      BY <1>3, <2>2, <3>1, <3>2, <3>3
  <2> QED
    BY <2>1, <2>2
<1>10. Strip(line).text = s.text
  BY <1>2, <1>9
<1>11. OnlyTagsLost(line, Strip(line).text)
  BY <1>3, <1>4, <1>5, <1>10 DEF OnlyTagsLost
<1>12. ASSUME NEW p \in Characters(line)
       PROVE  UNION {run.styles : run \in {r \in s.runs : PlaceOf(line, p) \in r.range}}
                = StylesAt(line, p)
  <2> DEFINE place == PlaceOf(line, p)
             around == {r \in s.runs : place \in r.range}
  <2>1. StylesRead(line, p) = StylesAt(line, p)
    BY StylesMean
  <2>2. \A run \in around : run.styles = StylesAt(line, p)
    BY <1>8, <2>1
  <2>3. place \in Nat /\ s.from \in Int
    BY <1>3, <1>4, <1>5, Places
  <2>4. CASE place <= s.from
    <3>1. around # {}
      BY <1>8, <2>4
    <3> HIDE DEF around
    <3>2. UNION {run.styles : run \in around} = StylesAt(line, p)
      BY <2>2, <3>1
    <3> QED
      BY <3>2 DEF around
  <2>5. CASE ~ (place <= s.from)
    <3>1. Stripping(line)[p].stack = << >>
      BY <1>7, <1>8, <2>3, <2>5
    <3>2. DOMAIN Stripping(line)[p].stack = {}
      BY <3>1
    <3>3. StylesAt(line, p) = {}
      BY <2>1, <3>2 DEF StylesRead, ToSet
    <3> HIDE DEF around
    <3>4. UNION {run.styles : run \in around} = StylesAt(line, p)
      BY <2>2, <3>3
    <3> QED
      BY <3>4 DEF around
  <2> QED
    BY <2>4, <2>5
<1> QED
  BY <1>2, <1>6, <1>11, <1>12

-----------------------------------------------------------------------------
(***************************************************************************)
(* A well-formed script, line by line.                                     *)
(***************************************************************************)

(* What the lines of one more subtitle are. *)
LEMMA OneMoreSubtitle ==
  ASSUME NEW blocks \in Seq(Subtitles), NEW n \in 1 .. Len(blocks)
  PROVE  LET L == LinesOfFirst(blocks)
             start == Len(L[n - 1]) + (IF n = 1 THEN 0 ELSE 1)
         IN  /\ L[n - 1] \in Seq(ScriptLines) /\ L[n] \in Seq(ScriptLines)
             /\ Len(L[n - 1]) \in Nat /\ Len(blocks[n].text) \in Nat \ {0}
             /\ Len(L[n]) = start + 2 + Len(blocks[n].text)
             /\ \A k \in 1 .. Len(L[n - 1]) : L[n][k] = L[n - 1][k]
             /\ n # 1 => L[n][Len(L[n - 1]) + 1] = Empty
             /\ L[n][start + 2] = Time(blocks[n].time)
             /\ \A k \in 1 .. Len(blocks[n].text) :
                  L[n][start + 2 + k] = Text(blocks[n].text[k])
<1> DEFINE a == LinesOfFirst(blocks)[n - 1]
           b == IF n = 1 THEN << >> ELSE <<Empty>>
           c == LinesOfBlock(blocks[n])
           x == LinesOfFirst(blocks)[n]
           sep == IF n = 1 THEN 0 ELSE 1
           T == Len(blocks[n].text)
<1>1. n - 1 \in 0 .. Len(blocks) /\ n \in 0 .. Len(blocks) /\ blocks[n] \in Subtitles
  OBVIOUS
<1>2. a \in Seq(ScriptLines) /\ x \in Seq(ScriptLines) /\ x = a \o b \o c
  BY <1>1, LinesOfFirstSteps
<1>3. /\ c \in Seq(ScriptLines) /\ Len(c) = T + 2 /\ c[2] = Time(blocks[n].time)
      /\ \A k \in 1 .. T : c[k + 2] = Text(blocks[n].text[k])
      /\ T \in Nat \ {0}
  BY <1>1, BlockLines
<1>4. b \in Seq(ScriptLines) /\ Len(b) = sep /\ (n # 1 => b[1] = Empty)
  BY EmptyIsLine
<1> HIDE DEF a, b, c, x, T
<1>5. /\ a \o b \in Seq(ScriptLines) /\ Len(a \o b) = Len(a) + sep
      /\ \A k \in 1 .. Len(a) : (a \o b)[k] = a[k]
      /\ \A k \in 1 .. sep : (a \o b)[k + Len(a)] = b[k]
  <2>1. a \in Seq(ScriptLines) /\ b \in Seq(ScriptLines)
    BY <1>2, <1>4
  <2>2. /\ a \o b \in Seq(ScriptLines) /\ Len(a \o b) = Len(a) + Len(b)
        /\ \A k \in 1 .. Len(a) : (a \o b)[k] = a[k]
        /\ \A k \in 1 .. Len(b) : (a \o b)[k + Len(a)] = b[k]
    BY <2>1, Concatenation
  <2>3. Len(b) = sep
    BY <1>4
  <2> DEFINE ab == a \o b
  <2> HIDE DEF sep, ab
  <2>4. /\ ab \in Seq(ScriptLines) /\ Len(ab) = Len(a) + Len(b)
        /\ \A k \in 1 .. Len(a) : ab[k] = a[k]
        /\ \A k \in 1 .. Len(b) : ab[k + Len(a)] = b[k]
    BY <2>2 DEF ab
  <2>5. /\ ab \in Seq(ScriptLines) /\ Len(ab) = Len(a) + sep
        /\ \A k \in 1 .. Len(a) : ab[k] = a[k]
        /\ \A k \in 1 .. sep : ab[k + Len(a)] = b[k]
    BY <2>3, <2>4
  <2> QED
    BY <2>5 DEF ab, sep
<1> DEFINE d == a \o b
<1>6. d \in Seq(ScriptLines) /\ x = d \o c
  BY <1>2, <1>5
<1> HIDE DEF d
<1>7. /\ Len(x) = Len(d) + T + 2
      /\ \A k \in 1 .. Len(d) : x[k] = d[k]
      /\ \A k \in 1 .. T + 2 : x[k + Len(d)] = c[k]
  <2>1. /\ Len(d \o c) = Len(d) + Len(c)
        /\ \A k \in 1 .. Len(d) : (d \o c)[k] = d[k]
        /\ \A k \in 1 .. Len(c) : (d \o c)[k + Len(d)] = c[k]
    <3>1. c \in Seq(ScriptLines) /\ d \in Seq(ScriptLines)
      BY <1>3, <1>6
    <3> QED
      BY <3>1, Concatenation
  <2>2. Len(d) \in Nat
    BY <1>6
  <2> QED
    BY <1>3, <1>6, <2>1, <2>2
<1>8. Len(a) \in Nat /\ Len(d) = Len(a) + sep
  BY <1>2, <1>5 DEF d
<1>9. \A k \in 1 .. Len(a) : x[k] = a[k]
  <2> TAKE k \in 1 .. Len(a)
  <2>1. k \in 1 .. Len(d)
    BY <1>8
  <2> QED
    BY <1>5, <1>7, <2>1 DEF d
<1>10. n # 1 => x[Len(a) + 1] = Empty
  <2> HAVE n # 1
  <2>1. 1 \in 1 .. sep /\ 1 + Len(a) = Len(a) + 1 /\ Len(a) + 1 \in 1 .. Len(d)
    BY <1>8
  <2>2. d[Len(a) + 1] = b[1]
    BY <1>5, <2>1 DEF d
  <2> QED
    BY <1>4, <1>7, <2>1, <2>2
<1>11. x[Len(d) + 2] = Time(blocks[n].time)
  <2>1. 2 \in 1 .. T + 2 /\ 2 + Len(d) = Len(d) + 2
    BY <1>3, <1>8
  <2>2. x[2 + Len(d)] = c[2]
    BY <1>7, <2>1
  <2> QED
    BY <1>3, <2>1, <2>2
<1>12. \A k \in 1 .. T : x[Len(d) + 2 + k] = Text(blocks[n].text[k])
  <2> TAKE k \in 1 .. T
  <2>1. T \in Nat /\ Len(d) \in Nat
    <3>1. sep \in Nat
      OBVIOUS
    <3> QED
      BY <1>3, <1>8, <3>1
  <2>3. k + 2 \in 1 .. T + 2 /\ k + 2 + Len(d) = Len(d) + 2 + k
    BY <2>1
  <2>2. x[k + 2 + Len(d)] = c[k + 2]
    BY <1>7, <2>3
  <2> QED
    BY <1>3, <2>3, <2>2
<1>13. Len(x) = Len(d) + 2 + T
  BY <1>3, <1>7, <1>8
<1> QED
  BY <1>2, <1>3, <1>8, <1>9, <1>10, <1>11, <1>12, <1>13 DEF a, x, T

(* The first subtitles of a script are at its beginning, and an empty line *)
(* follows them.                                                           *)
Begins(blocks, n, m) ==
  LET L == LinesOfFirst(blocks) IN
  /\ Len(L[n]) <= Len(L[m]) /\ \A k \in 1 .. Len(L[n]) : L[m][k] = L[n][k]
  /\ 1 <= n /\ n < m => Len(L[n]) < Len(L[m]) /\ L[m][Len(L[n]) + 1] = Empty

(* The lines of the first subtitles begin the lines of more of them. *)
LEMMA FirstAreFirst ==
  ASSUME NEW blocks \in Seq(Subtitles), NEW m \in 0 .. Len(blocks), NEW n \in 0 .. m
  PROVE  Begins(blocks, n, m)
<1> DEFINE N == Len(blocks)
           L == LinesOfFirst(blocks)
           T == {q \in 0 .. N : \A p \in 0 .. q : Begins(blocks, p, q)}
<1>1. N \in Nat
  OBVIOUS
<1>2. \A p \in 0 .. N : L[p] \in Seq(ScriptLines) /\ Len(L[p]) \in Nat
  <2> TAKE p \in 0 .. N
  <2>1. L[p] \in Seq(ScriptLines)
    BY LinesOfFirstSteps
  <2> HIDE DEF L
  <2> QED
    BY <2>1
<1>3. \A p \in 0 .. N : Begins(blocks, p, p)
  <2> TAKE p \in 0 .. N
  <2>1. Len(L[p]) <= Len(L[p]) /\ ~ (p < p)
    BY <1>1, <1>2
  <2> QED
    BY <2>1 DEF Begins
<1>4. 0 \in T
  BY <1>1, <1>3
<1>5. ASSUME NEW q \in 1 .. N, q - 1 \in T PROVE q \in T
  <2>1. q \in 0 .. N /\ q - 1 \in 0 .. N /\ q \in Nat
    BY <1>1
  <2> DEFINE lines == L[q]
             before == L[q - 1]
  <2>2. /\ Len(before) \in Nat /\ Len(lines) > Len(before)
        /\ \A k \in 1 .. Len(before) : lines[k] = before[k]
        /\ q # 1 => lines[Len(before) + 1] = Empty
    <3> DEFINE start == Len(before) + (IF q = 1 THEN 0 ELSE 1)
    <3>1. /\ Len(before) \in Nat /\ Len(blocks[q].text) \in Nat \ {0}
          /\ Len(lines) = start + 2 + Len(blocks[q].text)
          /\ \A k \in 1 .. Len(before) : lines[k] = before[k]
          /\ q # 1 => lines[Len(before) + 1] = Empty
      BY OneMoreSubtitle
    <3> DEFINE long == Len(blocks[q].text)
    <3> HIDE DEF before, lines, long
    <3>2. start \in Nat /\ start >= Len(before) /\ long \in Nat \ {0} /\ Len(lines) = start + 2 + long
      BY <3>1 DEF long
    <3> HIDE DEF start
    <3>4. Len(before) \in Nat
      BY <3>1
    <3> DEFINE x == Len(lines)
               y == Len(before)
    <3> HIDE DEF x, y
    <3>5. y \in Nat /\ start \in Nat /\ start >= y /\ long \in Nat /\ x = start + 2 + long
      BY <3>2, <3>4 DEF x, y
    <3>6. x > y
      BY <3>5
    <3>3. Len(lines) > Len(before)
      BY <3>6 DEF x, y
    <3> QED
      BY <3>1, <3>3
  <2>3. ASSUME NEW p \in 0 .. q PROVE Begins(blocks, p, q)
    <3>1. CASE p = q
      BY <1>3, <2>1, <3>1
    <3>2. CASE p # q
      <4>1. p \in 0 .. q - 1 /\ p \in 0 .. N /\ Len(L[p]) \in Nat
        BY <1>1, <1>2, <2>1, <3>2
      <4>2. Begins(blocks, p, q - 1)
        BY <1>5, <4>1
      <4>3. /\ Len(L[p]) <= Len(before) /\ \A k \in 1 .. Len(L[p]) : before[k] = L[p][k]
            /\ 1 <= p /\ p < q - 1 => Len(L[p]) < Len(before) /\ before[Len(L[p]) + 1] = Empty
        BY <4>2 DEF Begins
      <4> DEFINE first == L[p]
      <4> HIDE DEF L, before, lines, first
      <4>4. Len(first) \in Nat
        BY <4>1 DEF first
      <4>5. Len(first) <= Len(lines) /\ Len(first) < Len(lines)
        BY <2>2, <4>3, <4>4 DEF first
      <4>6. \A k \in 1 .. Len(first) : lines[k] = first[k]
        <5> TAKE k \in 1 .. Len(first)
        <5>1. k \in 1 .. Len(before)
          BY <2>2, <4>3, <4>4 DEF first
        <5> QED
          BY <2>2, <4>3, <5>1 DEF first
      <4>7. ASSUME 1 <= p PROVE lines[Len(first) + 1] = Empty
        <5>1. CASE p = q - 1
          BY <2>1, <2>2, <4>7, <5>1 DEF first, before
        <5>2. CASE p # q - 1
          <6>1. p < q - 1
            BY <2>1, <4>1, <5>2
          <6>2. Len(first) + 1 \in 1 .. Len(before) /\ before[Len(first) + 1] = Empty
            BY <2>2, <4>3, <4>4, <4>7, <6>1 DEF first
          <6> QED
            BY <2>2, <6>2
        <5> QED
          BY <5>1, <5>2
      <4> QED
        BY <4>5, <4>6, <4>7 DEF Begins, first, lines, L
    <3> QED
      BY <3>1, <3>2
  <2> QED
    BY <2>1, <2>3
<1> HIDE DEF T
<1>6. 0 .. N \subseteq T
  BY <1>1, <1>4, <1>5, UpTo
<1>7. m \in T
  BY <1>6
<1> QED
  BY <1>7 DEF T

(* Where the time of the subtitle after the n-th stands. *)
Begin(blocks, n) == Len(LinesOfFirst(blocks)[n]) + (IF n = 0 THEN 2 ELSE 3)

(* A script with the lines of the subtitles and one or two empty ones. *)
Written(script, blocks) ==
  LET all == LinesOfFirst(blocks)[Len(blocks)] IN
  /\ script \in Seq(ScriptLines) /\ Len(script) - Len(all) \in {1, 2}
  /\ \A k \in 1 .. Len(script) : script[k] = IF k <= Len(all) THEN all[k] ELSE Empty

(* Where the time, the text and the empty line of a subtitle stand. *)
LEMMA SubtitlePlace ==
  ASSUME NEW blocks \in Seq(Subtitles), NEW script, Written(script, blocks),
         NEW n \in 1 .. Len(blocks)
  PROVE  LET j == Begin(blocks, n - 1)
             T == Len(blocks[n].text)
         IN  /\ T \in Nat \ {0} /\ j \in Nat /\ j + T + 1 <= Len(script)
             /\ Len(script) \in Nat /\ Begin(blocks, n) = j + T + 3
             /\ script[j] = Time(blocks[n].time)
             /\ \A k \in 1 .. T : script[j + k] = Text(blocks[n].text[k])
             /\ script[j + T + 1] = Empty
<1> DEFINE N == Len(blocks)
           L == LinesOfFirst(blocks)
           all == L[N]
           here == L[n]
           before == L[n - 1]
           T == Len(blocks[n].text)
           sep == IF n = 1 THEN 0 ELSE 1
           j == Begin(blocks, n - 1)
<1>1. N \in Nat /\ N \in 0 .. N /\ n \in 0 .. N /\ n \in 1 .. N /\ n - 1 \in 0 .. N
  OBVIOUS
<1>2. /\ Len(before) \in Nat /\ T \in Nat \ {0} /\ here \in Seq(ScriptLines)
      /\ Len(here) = Len(before) + sep + 2 + T
      /\ here[Len(before) + sep + 2] = Time(blocks[n].time)
      /\ \A k \in 1 .. T : here[Len(before) + sep + 2 + k] = Text(blocks[n].text[k])
  BY OneMoreSubtitle
<1>3. /\ Len(here) <= Len(all) /\ \A k \in 1 .. Len(here) : all[k] = here[k]
      /\ n < N => Len(here) < Len(all) /\ all[Len(here) + 1] = Empty
  <2>1. Begins(blocks, n, N)
    BY <1>1, FirstAreFirst
  <2>2. 1 <= n
    BY <1>1
  <2> QED
    BY <2>1, <2>2 DEF Begins
<1>4. all \in Seq(ScriptLines)
  BY <1>1, LinesOfFirstSteps
<1>5. /\ script \in Seq(ScriptLines) /\ Len(script) - Len(all) \in {1, 2}
      /\ \A k \in 1 .. Len(script) : script[k] = IF k <= Len(all) THEN all[k] ELSE Empty
  BY DEF Written
<1>6. j = Len(before) + sep + 2
  <2>1. n - 1 = 0 <=> n = 1
    BY <1>1
  <2> DEFINE x == Len(before)
  <2>2. j = x + (IF n = 1 THEN 2 ELSE 3)
    BY <2>1 DEF Begin
  <2>3. x \in Nat
    BY <1>2
  <2> HIDE DEF x, j
  <2>4. j = x + sep + 2
    BY <2>2, <2>3
  <2> QED
    BY <2>4 DEF x
<1>7. Begin(blocks, n) = Len(here) + 3
  <2>1. n # 0
    BY <1>1
  <2>2. Begin(blocks, n) = Len(here) + (IF n = 0 THEN 2 ELSE 3)
    BY DEF Begin
  <2> HIDE DEF here
  <2> QED
    BY <2>1, <2>2
<1>8. sep \in {0, 1}
  OBVIOUS
<1> DEFINE a == Len(all)
           h == Len(here)
           s == Len(script)
           b == Len(before)
<1>9. a \in Nat /\ h \in Nat /\ s \in Nat /\ b \in Nat
  <2> HIDE DEF all, here, before
  <2>1. a \in Nat
    BY <1>4
  <2>2. h \in Nat
    <3>1. here \in Seq(ScriptLines)
      BY <1>2
    <3> QED
      BY <3>1
  <2>3. s \in Nat
    BY <1>5
  <2>4. b \in Nat
    BY <1>2
  <2> QED
    BY <2>1, <2>2, <2>3, <2>4
<1> HIDE DEF N, all, here, before, sep, j, T, a, h, s, b
<1>10. /\ T \in Nat \ {0} /\ h = b + sep + 2 + T /\ j = b + sep + 2 /\ h <= a
       /\ s - a \in {1, 2}
  BY <1>2, <1>3, <1>5, <1>6 DEF a, h, s, b
<1>11. /\ j \in Nat /\ h = j + T /\ j + T + 1 = h + 1 /\ h + 1 <= s /\ 1 <= j /\ a < s
  BY <1>8, <1>9, <1>10
<1>12. \A k \in 1 .. h : script[k] = here[k]
  <2> TAKE k \in 1 .. h
  <2>1. k \in 1 .. s /\ k <= a /\ k \in 1 .. h
    BY <1>9, <1>10, <1>11
  <2> QED
    BY <1>3, <1>5, <2>1 DEF s, a, h
<1>13. script[j] = Time(blocks[n].time)
  <2>1. j \in 1 .. h
    BY <1>9, <1>10, <1>11
  <2> QED
    BY <1>2, <1>6, <1>12, <2>1
<1>14. \A k \in 1 .. T : script[j + k] = Text(blocks[n].text[k])
  <2> TAKE k \in 1 .. T
  <2>1. j + k \in 1 .. h
    BY <1>9, <1>10, <1>11
  <2> QED
    BY <1>2, <1>6, <1>12, <2>1
<1>15. script[h + 1] = Empty
  <2>1. h + 1 \in 1 .. s
    BY <1>9, <1>11
  <2>2. CASE n < N
    <3>1. h + 1 <= a /\ all[h + 1] = Empty
      BY <1>3, <1>9, <2>2 DEF a, h
    <3> QED
      BY <1>5, <2>1, <3>1 DEF s, a
  <2>3. CASE ~ (n < N)
    <3>1. n = N
      BY <1>1, <2>3 DEF N
    <3>2. here = all
      BY <3>1 DEF here, all
    <3>3. ~ (h + 1 <= a)
      BY <1>9, <3>2 DEF h, a
    <3> QED
      BY <1>5, <2>1, <3>3 DEF s, a
  <2> QED
    BY <2>2, <2>3
<1>16. Begin(blocks, n) = j + T + 3
  BY <1>7, <1>10, <1>11 DEF h
<1> QED
  BY <1>9, <1>10, <1>11, <1>13, <1>14, <1>15, <1>16 DEF j, T, s

(* After the last subtitle there is no line that ParseScript would read. *)
LEMMA EndPlace ==
  ASSUME NEW blocks \in Seq(Subtitles), NEW script, Written(script, blocks), blocks # << >>
  PROVE  Begin(blocks, Len(blocks)) > Len(script)
<1> DEFINE N == Len(blocks)
           all == LinesOfFirst(blocks)[N]
<1>1. N \in Nat /\ N # 0 /\ N \in 0 .. N
  OBVIOUS
<1>2. all \in Seq(ScriptLines)
  BY <1>1, LinesOfFirstSteps
<1>3. script \in Seq(ScriptLines) /\ Len(script) - Len(all) \in {1, 2}
  BY DEF Written
<1>4. Begin(blocks, N) = Len(all) + 3
  BY <1>1 DEF Begin
<1> HIDE DEF all, N
<1>5. Len(all) \in Nat /\ Len(script) \in Nat
  BY <1>2, <1>3
<1>6. Len(all) + 3 > Len(script)
  BY <1>3, <1>5
<1> QED
  BY <1>4, <1>6 DEF N

(* What LoadExternalSubtitles makes of a well-formed script. *)
LEMMA WrittenRead ==
  ASSUME directory \in Directories, WellFormed
  PROVE  /\ directory.blocks \in Seq(Subtitles) /\ directory.blocks # << >>
         /\ Written(LinesRead(directory.files[".srt"]), directory.blocks)
<1> DEFINE blocks == directory.blocks
           N == Len(blocks)
           all == LinesOfFirst(blocks)[N]
           file == directory.files[".srt"]
           more == [k \in 1 .. directory.blanks |-> Empty]
<1>1. /\ ".srt" \in DOMAIN directory.files /\ blocks # << >>
      /\ file.lines = all \o more
      /\ directory.blanks - (IF file.newline THEN 0 ELSE 1) \in {1, 2}
  BY DEF WellFormed, LinesOf
<1>2. /\ directory.blanks \in Nat /\ blocks \in Seq(Subtitles)
      /\ file.newline \in BOOLEAN /\ file.lines \in Seq(ScriptLines)
  BY <1>1, DirectoryAssumption DEF Subtitles, ScriptLines
<1>3. all \in Seq(ScriptLines)
  <2>1. N \in 0 .. N
    BY <1>2
  <2> HIDE DEF blocks
  <2> QED
    BY <1>2, <2>1, LinesOfFirstSteps
<1> DEFINE B == directory.blanks
           lines == file.lines
<1>4. more \in Seq(ScriptLines) /\ Len(more) = B /\ \A k \in 1 .. B : more[k] = Empty
  <2>1. more \in [1 .. B -> ScriptLines]
    BY EmptyIsLine
  <2>2. \A k \in 1 .. B : more[k] = Empty
    OBVIOUS
  <2>3. B \in Nat
    BY <1>2
  <2> HIDE DEF more, B
  <2> QED
    BY <2>1, <2>2, <2>3
<1> HIDE DEF all, more, B
<1>5. /\ Len(all \o more) = Len(all) + Len(more)
      /\ \A k \in 1 .. Len(all) : (all \o more)[k] = all[k]
      /\ \A k \in 1 .. Len(more) : (all \o more)[k + Len(all)] = more[k]
  <2>1. all \in Seq(ScriptLines) /\ more \in Seq(ScriptLines)
    BY <1>3, <1>4
  <2> QED
    BY <2>1, Concatenation
<1> DEFINE a == Len(all)
           script == LinesRead(file)
<1>6. a \in Nat /\ B \in Nat /\ (B - (IF file.newline THEN 0 ELSE 1)) \in {1, 2}
  BY <1>1, <1>2, <1>3 DEF B
<1>7. /\ Len(lines) = a + B
      /\ \A k \in 1 .. a : lines[k] = all[k]
      /\ \A k \in 1 .. B : lines[k + a] = Empty
  <2> DEFINE both == all \o more
  <2>1. /\ Len(both) = Len(all) + Len(more)
        /\ \A k \in 1 .. Len(all) : both[k] = all[k]
        /\ \A k \in 1 .. Len(more) : both[k + Len(all)] = more[k]
    BY <1>5
  <2>2. lines = both
    BY <1>1
  <2> HIDE DEF both, lines
  <2> QED
    BY <1>4, <2>1, <2>2
<1> HIDE DEF a, script, lines, blocks
<1>8. \A k \in 1 .. a + B : lines[k] = IF k <= a THEN all[k] ELSE Empty
  <2> TAKE k \in 1 .. a + B
  <2>1. CASE k <= a
    <3>1. k \in 1 .. a
      BY <1>6, <2>1
    <3> QED
      BY <1>7, <2>1, <3>1
  <2>2. CASE ~ (k <= a)
    <3>1. k - a \in 1 .. B /\ k - a + a = k
      BY <1>6, <2>2
    <3> QED
      BY <1>7, <2>2, <3>1
  <2> QED
    BY <2>1, <2>2
<1>9. /\ script \in Seq(ScriptLines) /\ Len(script) - a \in {1, 2}
      /\ \A k \in 1 .. Len(script) : script[k] = IF k <= a THEN all[k] ELSE Empty
  <2>1. lines \in Seq(ScriptLines)
    BY <1>2 DEF lines
  <2>2. CASE file.newline
    <3>1. script = lines
      BY <2>2 DEF script, LinesRead, lines
    <3> QED
      BY <1>6, <1>7, <1>8, <2>1, <2>2, <3>1
  <2>3. CASE ~ file.newline
    <3>1. script = Front(lines)
      BY <2>3 DEF script, LinesRead, lines
    <3>2. B \in {2, 3}
      BY <1>6, <2>3
    <3>3. Len(lines) \in Nat /\ Len(lines) # 0
      BY <1>6, <1>7, <3>2
    <3>4. lines # << >>
      BY <3>3
    <3>5. /\ script \in Seq(ScriptLines) /\ Len(script) = Len(lines) - 1
          /\ \A k \in 1 .. Len(lines) - 1 : script[k] = lines[k]
      BY <2>1, <3>1, <3>4, FrontFacts
    <3>6. Len(script) = a + B - 1 /\ a + B - 1 - a \in {1, 2}
      BY <1>6, <1>7, <3>2, <3>5
    <3>7. \A k \in 1 .. Len(script) : k \in 1 .. a + B /\ script[k] = lines[k]
      BY <1>6, <1>7, <3>2, <3>5, <3>6
    <3>8. \A k \in 1 .. Len(script) : script[k] = IF k <= a THEN all[k] ELSE Empty
      BY <1>8, <3>7
    <3>9. Len(script) - a \in {1, 2}
      <4> DEFINE c == Len(script)
      <4>1. c = a + B - 1
        BY <3>6
      <4> HIDE DEF c
      <4>2. c - a \in {1, 2}
        BY <1>6, <3>2, <4>1
      <4> QED
        BY <4>2 DEF c
    <3> QED
      BY <3>5, <3>8, <3>9
  <2> QED
    BY <1>2, <2>2, <2>3
<1> QED
  BY <1>1, <1>2, <1>9 DEF Written, a, all, blocks, script

-----------------------------------------------------------------------------
(***************************************************************************)
(* The invariant: what is in the variables, and for a well-formed script   *)
(* that ParseScript stands at the time of the next subtitle when it has    *)
(* read as many as it has entries.                                         *)
(***************************************************************************)
Entries == [time : ScriptLines, line : Seq(Items), shown : {Strip(line) : line \in Seq(Items)}]

Entry(block) ==
  [time |-> Time(block.time), line |-> Joined(block.text), shown |-> Strip(Joined(block.text))]

TypeInv ==
  /\ directory \in Directories /\ m_ExternalSubtitleScript \in Seq(ScriptLines)
  /\ ext \in 1 .. Len(SubtitleFileExtensions) + 1
  /\ <<m_bExternalSubtitlesLoaded, m_CurrentSubtitleType>> \in AfterLoading
  /\ status \in {"loading", "ready", "parsing", "parsed", "crashed", "undefined"}
  /\ i \in Nat /\ (status = "parsing" => i >= 2)
  /\ entries \in Seq(Entries)

ReadInv ==
  LET blocks == directory.blocks IN
  /\ status \in {"loading", "ready", "parsing", "parsed"}
  /\ pin = IF status = "loading" /\ ext <= 3 THEN <<FALSE, "NONE", << >>>>
           ELSE <<TRUE, "SRT", LinesRead(directory.files[".srt"])>>
  /\ status \in {"loading", "ready"} => entries = << >>
  /\ Len(entries) <= Len(blocks)
  /\ \A k \in 1 .. Len(entries) : entries[k] = Entry(blocks[k])
  /\ status = "parsing" => i = Begin(blocks, Len(entries))
  /\ status = "parsed" => Len(entries) = Len(blocks)

ScriptInv == TypeInv /\ (WellFormed => ReadInv)

(* Min is the least number of a set. *)
LEMMA LeastIsMin ==
  ASSUME NEW S, S \subseteq Nat, S # {}
  PROVE  Min(S) \in S /\ \A n \in S : Min(S) <= n
<1>1. \E x \in S : \A y \in S : x <= y
  BY LeastOf
<1> QED
  BY <1>1 DEF Min

(* The extensions, one by one. *)
LEMMA Extensions ==
  /\ Len(SubtitleFileExtensions) = 4
  /\ SubtitleFileExtensions[1] = ".ass" /\ SubtitleFileExtensions[2] = ".ssa"
  /\ SubtitleFileExtensions[3] = ".srt" /\ SubtitleFileExtensions[4] = ".idx"
BY DEF SubtitleFileExtensions

(* What is read of a file are lines of a script. *)
LEMMA LinesReadType ==
  ASSUME directory \in Directories, NEW x, Present(x)
  PROVE  LinesRead(directory.files[x]) \in Seq(ScriptLines)
<1> DEFINE file == directory.files[x]
           lines == file.lines
<1>1. lines \in Seq(ScriptLines)
  BY DirectoryAssumption DEF Present, ScriptLines
<1>2. LinesRead(file) = IF file.newline THEN lines ELSE Front(lines)
  BY DEF LinesRead
<1> HIDE DEF lines, file
<1>3. CASE lines = << >>
  <2>1. SubSeq(lines, 1, 0 - 1) = << >>
    BY <1>3
  <2>2. Len(lines) - 1 = 0 - 1
    BY <1>3
  <2>3. Front(lines) = << >>
    BY <2>1, <2>2 DEF Front
  <2> QED
    BY <1>1, <1>2, <2>3 DEF file
<1>4. CASE lines # << >>
  BY <1>1, <1>2, <1>4, FrontFacts DEF file
<1> QED
  BY <1>3, <1>4

(* Whatever lines stand where a subtitle should, ParseLine makes an entry. *)
LEMMA EntryType ==
  ASSUME m_ExternalSubtitleScript \in Seq(ScriptLines),
         NEW j \in Nat, j >= 2, j <= Len(m_ExternalSubtitleScript), NEW end \in BlockEnds(j)
  PROVE  EntryAt(j, end) \in Entries
<1> DEFINE script == m_ExternalSubtitleScript
           N == Len(script)
           M == end - 1 - (j + 1) + 1
           text == [n \in 1 .. M |-> script[j + 1 + n - 1][2]]
<1>1. N \in Nat /\ end \in j + 2 .. N
  BY DEF BlockEnds
<1>2. M \in Nat /\ M # 0 /\ \A n \in 1 .. M : j + 1 + n - 1 \in 1 .. N
  BY <1>1
<1>3. \A k \in 1 .. N : script[k] \in ScriptLines
  BY <1>1
<1>4. \A line \in ScriptLines : line[2] \in Seq(Items)
  BY DEF ScriptLines
<1>5. \A n \in 1 .. M : text[n] \in Seq(Items)
  BY <1>2, <1>3, <1>4
<1>6. text = [n \in 1 .. M |-> text[n]]
  OBVIOUS
<1>7. script[j] \in ScriptLines
  BY <1>1, <1>3
<1>8. Merged(j + 1, end - 1) = Joined(text)
  BY DEF Merged
<1> HIDE DEF text, M, script
<1>9. text \in Seq(Seq(Items)) /\ text # << >>
  <2> DEFINE S == Seq(Items)
  <2> HIDE DEF S
  <2>1. text \in [1 .. M -> S]
    BY <1>5, <1>6 DEF S
  <2>2. text \in Seq(S) /\ Len(text) = M
    BY <1>2, <2>1
  <2>3. text # << >>
    BY <1>2, <2>2
  <2> QED
    BY <2>2, <2>3 DEF S
<1>10. Joined(text) \in Seq(Items)
  BY <1>9, JoinedIsLine
<1>11. EntryAt(j, end) = [time |-> script[j], line |-> Joined(text), shown |-> Strip(Joined(text))]
  BY <1>8 DEF EntryAt, script
<1> HIDE DEF ScriptLines
<1> QED
  BY <1>7, <1>10, <1>11 DEF Entries

(* The types are kept, by every script. *)
LEMMA TypeKept ==
  ASSUME TypeInv, [Next]_vars
  PROVE  TypeInv'
<1>1. /\ directory \in Directories /\ m_ExternalSubtitleScript \in Seq(ScriptLines)
      /\ ext \in 1 .. Len(SubtitleFileExtensions) + 1
      /\ <<m_bExternalSubtitlesLoaded, m_CurrentSubtitleType>> \in AfterLoading
      /\ status \in {"loading", "ready", "parsing", "parsed", "crashed", "undefined"}
      /\ i \in Nat /\ (status = "parsing" => i >= 2)
      /\ entries \in Seq(Entries)
  BY DEF TypeInv
<1>2. CASE TryExtension
  <2> DEFINE x == SubtitleFileExtensions[ext]
  <2>1. /\ status = "loading" /\ ext <= Len(SubtitleFileExtensions) /\ ext' = ext + 1
        /\ UNCHANGED <<directory, status, i, entries>>
        /\ IF Present(x)
           THEN /\ m_bExternalSubtitlesLoaded' = (x # ".idx" \/ directory.sub)
                /\ m_CurrentSubtitleType' = MapFileExtToSubtitleType[x]
                /\ m_ExternalSubtitleScript' =
                     m_ExternalSubtitleScript \o LinesRead(directory.files[x])
           ELSE UNCHANGED pin
    BY <1>2 DEF TryExtension
  <2>2. ext' \in 1 .. Len(SubtitleFileExtensions) + 1 /\ ext \in 1 .. 4
    BY <1>1, <2>1, Extensions
  <2>3. x \in {".ass", ".ssa", ".srt", ".idx"}
    <3>1. ext = 1 \/ ext = 2 \/ ext = 3 \/ ext = 4
      BY <2>2
    <3> QED
      BY <3>1, Extensions
  <2>4. CASE Present(x)
    <3>1. LinesRead(directory.files[x]) \in Seq(ScriptLines)
      BY <1>1, <2>4, LinesReadType
    <3> DEFINE a == m_ExternalSubtitleScript
               b == LinesRead(directory.files[x])
    <3> HIDE DEF a, b
    <3>2. a \o b \in Seq(ScriptLines)
      BY <1>1, <3>1, Concatenation DEF a, b
    <3>3. m_ExternalSubtitleScript' \in Seq(ScriptLines)
      BY <2>1, <2>4, <3>2 DEF a, b
    <3>4. directory.sub \in BOOLEAN
      BY <1>1, DirectoryAssumption
    <3>5. <<m_bExternalSubtitlesLoaded', m_CurrentSubtitleType'>> \in AfterLoading
      BY <2>1, <2>3, <2>4, <3>4 DEF AfterLoading, MapFileExtToSubtitleType, SubtitleType
    <3> QED
      BY <1>1, <2>1, <2>2, <3>3, <3>5 DEF TypeInv
  <2>5. CASE ~ Present(x)
    BY <1>1, <2>1, <2>2, <2>5 DEF TypeInv, pin
  <2> QED
    BY <2>4, <2>5
<1>3. CASE Loaded
  BY <1>1, <1>3 DEF Loaded, TypeInv, pin
<1>4. CASE LoadSubtitleRenderer
  <2>1. entries' = << >> /\ i' = 2 /\ status' \in {"parsed", "crashed", "parsing"}
        /\ UNCHANGED <<directory, ext, pin>>
    BY <1>4 DEF LoadSubtitleRenderer
  <2>2. entries' \in Seq(Entries)
    BY <2>1
  <2> QED
    BY <1>1, <2>1, <2>2 DEF TypeInv, pin
<1>5. CASE ParseBlock
  <2> DEFINE end == Min(BlockEnds(i))
  <2>1. /\ status = "parsing" /\ i <= Len(m_ExternalSubtitleScript) /\ BlockEnds(i) # {}
        /\ UNCHANGED <<directory, ext, pin>>
        /\ \/ entries' = Append(entries, EntryAt(i, end)) /\ i' = end + 2 /\ UNCHANGED status
           \/ status' = "undefined" /\ UNCHANGED <<i, entries>>
    BY <1>5 DEF ParseBlock
  <2>2. Len(m_ExternalSubtitleScript) \in Nat
    BY <1>1
  <2>3. BlockEnds(i) \subseteq i + 2 .. Len(m_ExternalSubtitleScript)
    BY DEF BlockEnds
  <2>4. BlockEnds(i) \subseteq Nat
    BY <1>1, <2>2, <2>3
  <2>5. end \in BlockEnds(i)
    BY <2>1, <2>4, LeastIsMin
  <2>6. EntryAt(i, end) \in Entries
    BY <1>1, <2>1, <2>5, EntryType
  <2>7. end \in Nat
    BY <2>4, <2>5
  <2> DEFINE entry == EntryAt(i, end)
  <2> HIDE DEF entry, end
  <2>8. Append(entries, entry) \in Seq(Entries)
    BY <1>1, <2>6 DEF entry
  <2>9. CASE entries' = Append(entries, entry) /\ i' = end + 2 /\ UNCHANGED status
    <3>1. i' \in Nat /\ i' >= 2
      BY <2>7, <2>9
    <3> QED
      BY <1>1, <2>1, <2>8, <2>9, <3>1 DEF TypeInv, pin
  <2>10. CASE status' = "undefined" /\ UNCHANGED <<i, entries>>
    BY <1>1, <2>1, <2>10 DEF TypeInv, pin
  <2> QED
    BY <2>1, <2>9, <2>10 DEF entry
<1>6. CASE ParsePastEnd
  BY <1>1, <1>6 DEF ParsePastEnd, TypeInv, pin
<1>7. CASE ParseEnd
  BY <1>1, <1>7 DEF ParseEnd, TypeInv, pin
<1>8. CASE UNCHANGED vars
  BY <1>1, <1>8 DEF vars, TypeInv, pin
<1> QED
  BY <1>2, <1>3, <1>4, <1>5, <1>6, <1>7, <1>8 DEF Next

(* The directory stays what it is. *)
LEMMA StaysWellFormed ==
  ASSUME [Next]_vars
  PROVE  directory' = directory /\ (WellFormed' <=> WellFormed)
<1>1. directory' = directory
  BY DEF Next, vars, TryExtension, Loaded, LoadSubtitleRenderer, ParseBlock, ParsePastEnd, ParseEnd
<1> QED
  BY <1>1 DEF WellFormed

(* A subtitle of a well-formed script. *)
LEMMA GoodLines ==
  ASSUME directory \in Directories, WellFormed, NEW k \in 1 .. Len(directory.blocks)
  PROVE  LET line == Joined(directory.blocks[k].text) IN
         /\ directory.blocks[k] \in Subtitles /\ line \in Seq(Items)
         /\ Balanced(line) /\ ~ LoneLast(line)
         /\ \A m \in DOMAIN line \ Characters(line) : line[m][2] \in Styles
<1>1. directory.blocks \in Seq(Subtitles)
  BY WrittenRead
<1> DEFINE blocks == directory.blocks
           block == blocks[k]
<1>2. k \in DOMAIN blocks /\ block \in Subtitles
  BY <1>1
<1>3. block \in ToSet(blocks)
  BY <1>2 DEF ToSet
<1>4. block.text \in Seq(Seq(Items)) \ {<< >>}
  BY <1>2 DEF Subtitles
<1> QED
  BY <1>2, <1>3, <1>4, JoinedIsLine DEF WellFormed

(* Where ParseScript stands, the next subtitle is found, and all of it. *)
LEMMA BlockFound ==
  ASSUME TypeInv, WellFormed, ReadInv, status = "parsing", i <= Len(m_ExternalSubtitleScript)
  PROVE  LET n == Len(entries) + 1
             end == Min(BlockEnds(i))
         IN  /\ n \in 1 .. Len(directory.blocks) /\ BlockEnds(i) # {}
             /\ CheckLineIsTimestamp(m_ExternalSubtitleScript[i])
             /\ m_ExternalSubtitleScript[i] # Empty
             /\ EntryAt(i, end) = Entry(directory.blocks[n])
             /\ EntryAt(i, end).shown.defined
             /\ end + 2 = Begin(directory.blocks, n)
<1> DEFINE blocks == directory.blocks
           script == m_ExternalSubtitleScript
           n == Len(entries) + 1
           N == Len(blocks)
           end == Min(BlockEnds(i))
<1>1. /\ directory \in Directories /\ i \in Nat /\ entries \in Seq(Entries)
      /\ script \in Seq(ScriptLines)
  BY DEF TypeInv
<1>2. /\ script = LinesRead(directory.files[".srt"]) /\ Len(entries) <= N
      /\ i = Begin(blocks, Len(entries))
  BY DEF ReadInv, pin
<1>3. blocks \in Seq(Subtitles) /\ blocks # << >> /\ Written(script, blocks)
  BY <1>1, <1>2, WrittenRead
<1>4. Begin(blocks, N) > Len(script)
  BY <1>3, EndPlace
<1>5. Len(entries) \in Nat /\ N \in Nat /\ Len(script) \in Nat
  BY <1>1, <1>3
<1>6. n \in 1 .. N /\ n - 1 = Len(entries)
  <2>1. Len(entries) # N
    BY <1>1, <1>2, <1>4, <1>5
  <2> HIDE DEF N
  <2> QED
    BY <1>2, <1>5, <2>1
<1> DEFINE T == Len(blocks[n].text)
           text == blocks[n].text
<1>7. /\ T \in Nat \ {0} /\ i + T + 1 <= Len(script)
      /\ Begin(blocks, n) = i + T + 3
      /\ script[i] = Time(blocks[n].time)
      /\ \A k \in 1 .. T : script[i + k] = Text(text[k])
      /\ script[i + T + 1] = Empty
  <2>1. i = Begin(blocks, n - 1)
    BY <1>2, <1>6
  <2> HIDE DEF blocks, script, n
  <2> QED
    BY <1>3, <1>6, <2>1, SubtitlePlace
<1>8. blocks[n] \in Subtitles /\ text \in Seq(Seq(Items)) /\ DOMAIN text = 1 .. T
  <2>1. blocks[n] \in Subtitles
    BY <1>3, <1>6
  <2>2. text \in Seq(Seq(Items))
    BY <2>1 DEF Subtitles
  <2> HIDE DEF text, T
  <2>3. DOMAIN text = 1 .. Len(text)
    BY <2>2
  <2> QED
    BY <2>1, <2>2, <2>3 DEF T, text
<1>9. BlockEnds(i) = {k \in i + 2 .. Len(script) : script[k] = Empty}
  BY DEF BlockEnds
<1>10. /\ i + T + 1 \in BlockEnds(i)
       /\ \A k \in BlockEnds(i) : i + T + 1 <= k
  <2> HIDE DEF script, T, text, n, blocks
  <2>1. i + T + 1 \in i + 2 .. Len(script)
    BY <1>1, <1>5, <1>7
  <2>2. i + T + 1 \in BlockEnds(i)
    BY <1>7, <1>9, <2>1
  <2>3. ASSUME NEW k \in BlockEnds(i) PROVE i + T + 1 <= k
    <3>1. k \in i + 2 .. Len(script) /\ script[k] = Empty
      BY <1>9
    <3>2. ASSUME ~ (i + T + 1 <= k) PROVE FALSE
      <4>1. k - i \in 1 .. T /\ i + (k - i) = k
        BY <1>1, <1>5, <1>7, <3>1, <3>2
      <4>2. script[k] = Text(text[k - i])
        BY <1>7, <4>1
      <4>3. Text(text[k - i])[1] = "text" /\ Empty[1] = "empty"
        BY DEF Text, Empty
      <4> QED
        BY <3>1, <4>2, <4>3
    <3> QED
      BY <3>2
  <2> QED
    BY <2>2, <2>3
<1>11. end = i + T + 1 /\ end \in Nat
  <2>1. BlockEnds(i) \subseteq Nat
    BY <1>1, <1>5, <1>9
  <2>2. end \in BlockEnds(i) /\ \A k \in BlockEnds(i) : end <= k
    BY <1>10, <2>1, LeastIsMin
  <2> HIDE DEF end, T
  <2>3. end <= i + T + 1 /\ i + T + 1 <= end /\ end \in Nat
    BY <1>10, <2>1, <2>2
  <2> QED
    BY <1>1, <1>7, <2>3
<1> DEFINE M == end - 1 - (i + 1) + 1
           merged == [k \in 1 .. M |-> script[i + 1 + k - 1][2]]
<1>12. Merged(i + 1, end - 1) = Joined(merged)
  BY DEF Merged
<1>13. merged = text
  <2> HIDE DEF script, T, text, end
  <2>1. M = T
    BY <1>1, <1>7, <1>11
  <2>2. \A k \in 1 .. T : i + 1 + k - 1 = i + k
    BY <1>1, <1>7
  <2>3. \A k \in 1 .. T : script[i + 1 + k - 1][2] = text[k]
    BY <1>7, <2>2 DEF Text
  <2> HIDE DEF M
  <2>4. merged = [k \in 1 .. T |-> text[k]]
    BY <2>1, <2>3
  <2>5. text = [k \in 1 .. T |-> text[k]]
    BY <1>8
  <2> QED
    BY <2>4, <2>5
<1>14. EntryAt(i, end) = Entry(blocks[n])
  <2> HIDE DEF merged, M
  <2> QED
    BY <1>7, <1>12, <1>13 DEF EntryAt, Entry
<1>15. EntryAt(i, end).shown.defined
  <2>1. Strip(Joined(text)).defined
    BY <1>1, <1>6, GoodLines, StrippedWell
  <2> HIDE DEF end, n, blocks
  <2>2. EntryAt(i, end).shown = Strip(Joined(text))
    BY <1>14 DEF Entry
  <2> QED
    BY <2>1, <2>2
<1>16. CheckLineIsTimestamp(script[i]) /\ script[i] # Empty
  <2>1. script[i][1] = "time" /\ Empty[1] = "empty"
    BY <1>7 DEF Time, Empty
  <2> QED
    BY <2>1 DEF CheckLineIsTimestamp
<1>17. end + 2 = Begin(blocks, n)
  <2> HIDE DEF end, n, blocks, T
  <2> QED
    BY <1>1, <1>7, <1>11
<1> QED
  BY <1>6, <1>10, <1>14, <1>15, <1>16, <1>17

(* In a well-formed script ParseScript goes from one subtitle to the next. *)
LEMMA ReadKept ==
  ASSUME TypeInv, WellFormed, ReadInv, [Next]_vars
  PROVE  ReadInv'
<1> DEFINE blocks == directory.blocks
           read == LinesRead(directory.files[".srt"])
<1>1. directory' = directory
  BY StaysWellFormed
<1>2. /\ status \in {"loading", "ready", "parsing", "parsed"}
      /\ pin = IF status = "loading" /\ ext <= 3 THEN <<FALSE, "NONE", << >>>>
               ELSE <<TRUE, "SRT", read>>
      /\ status \in {"loading", "ready"} => entries = << >>
      /\ Len(entries) <= Len(blocks)
      /\ \A k \in 1 .. Len(entries) : entries[k] = Entry(blocks[k])
      /\ status = "parsing" => i = Begin(blocks, Len(entries))
      /\ status = "parsed" => Len(entries) = Len(blocks)
  BY DEF ReadInv
<1>3. /\ directory \in Directories /\ ext \in 1 .. Len(SubtitleFileExtensions) + 1
      /\ m_ExternalSubtitleScript \in Seq(ScriptLines)
      /\ i \in Nat /\ entries \in Seq(Entries)
  BY DEF TypeInv
<1>4. blocks \in Seq(Subtitles) /\ Len(blocks) \in Nat
  BY <1>3, WrittenRead
<1> HIDE DEF read
<1>5. CASE TryExtension
  <2> DEFINE x == SubtitleFileExtensions[ext]
  <2>1. /\ status = "loading" /\ ext <= 4 /\ ext' = ext + 1
        /\ UNCHANGED <<directory, status, i, entries>>
        /\ IF Present(x)
           THEN /\ m_bExternalSubtitlesLoaded' = (x # ".idx" \/ directory.sub)
                /\ m_CurrentSubtitleType' = MapFileExtToSubtitleType[x]
                /\ m_ExternalSubtitleScript' =
                     m_ExternalSubtitleScript \o LinesRead(directory.files[x])
           ELSE UNCHANGED pin
    BY <1>5, Extensions DEF TryExtension
  <2>2. ext \in 1 .. 4
    BY <1>3, <2>1, Extensions
  <2>3. Present(x) <=> ext = 3
    <3>1. ext = 1 \/ ext = 2 \/ ext = 3 \/ ext = 4
      BY <2>2
    <3>2. x = ".srt" <=> ext = 3
      BY <3>1, Extensions
    <3>3. DOMAIN directory.files = {".srt"}
      BY DEF WellFormed
    <3> QED
      BY <3>2, <3>3 DEF Present
  <2>4. CASE ext = 3
    <3>1. x = ".srt" /\ Present(x)
      BY <2>3, <2>4, Extensions
    <3>2. pin = <<FALSE, "NONE", << >>>>
      BY <1>2, <2>1, <2>4
    <3>3. m_ExternalSubtitleScript = << >>
      BY <3>2 DEF pin
    <3>4. read \in Seq(ScriptLines)
      BY <1>3, <3>1, LinesReadType DEF read
    <3>5. << >> \o read = read
      BY <3>4
    <3>6. m_ExternalSubtitleScript' = read
      BY <2>1, <3>1, <3>3, <3>5 DEF read
    <3>7. m_bExternalSubtitlesLoaded' = TRUE /\ m_CurrentSubtitleType' = "SRT"
      BY <2>1, <3>1 DEF MapFileExtToSubtitleType
    <3>8. pin' = <<TRUE, "SRT", read>> /\ ~ (ext' <= 3)
      BY <2>1, <2>4, <3>6, <3>7 DEF pin
    <3>9. read' = read
      BY <1>1 DEF read, LinesRead
    <3> QED
      BY <1>1, <1>2, <2>1, <3>8, <3>9 DEF ReadInv, read
  <2>5. CASE ext # 3
    <3>1. pin' = pin /\ (ext' <= 3 <=> ext <= 3)
      BY <2>1, <2>2, <2>3, <2>5
    <3>2. read' = read
      BY <1>1 DEF read, LinesRead
    <3> QED
      BY <1>1, <1>2, <2>1, <3>1, <3>2 DEF ReadInv, read
  <2> QED
    BY <2>4, <2>5
<1>6. read' = read
  BY <1>1 DEF read, LinesRead
<1>7. CASE Loaded
  <2>1. /\ status = "loading" /\ ~ (ext <= 3) /\ status' = "ready"
        /\ UNCHANGED <<directory, ext, pin, i, entries>>
    BY <1>3, <1>7, Extensions DEF Loaded
  <2>2. pin' = <<TRUE, "SRT", read>>
    BY <1>2, <2>1
  <2> QED
    BY <1>1, <1>2, <1>6, <2>1, <2>2 DEF ReadInv, read
<1>8. CASE LoadSubtitleRenderer
  <2>1. status \in {"ready", "parsed"} /\ i' = 2 /\ entries' = << >>
        /\ UNCHANGED <<directory, ext, pin>>
        /\ status' = IF ~m_bExternalSubtitlesLoaded THEN "parsed"
                     ELSE IF CreateSubtitleRenderer(m_CurrentSubtitleType) = None THEN "crashed"
                     ELSE "parsing"
    BY <1>8 DEF LoadSubtitleRenderer
  <2>2. pin = <<TRUE, "SRT", read>> /\ pin' = <<TRUE, "SRT", read>>
    BY <1>2, <2>1
  <2>3. m_bExternalSubtitlesLoaded = TRUE /\ m_CurrentSubtitleType = "SRT"
    BY <2>2 DEF pin
  <2>4. status' = "parsing"
    BY <2>1, <2>3 DEF CreateSubtitleRenderer, None
  <2>5. Len(entries') = 0
    BY <2>1
  <2>6. Begin(blocks, 0) = 2
    <3>1. LinesOfFirst(blocks)[0] = << >>
      BY <1>4, LinesOfFirstSteps
    <3>2. Len(LinesOfFirst(blocks)[0]) = 0
      BY <3>1
    <3> QED
      BY <3>2 DEF Begin
  <2>7. 0 <= Len(blocks) /\ \A k \in 1 .. 0 : FALSE
    BY <1>4
  <2> QED
    BY <1>1, <1>6, <2>1, <2>2, <2>4, <2>5, <2>6, <2>7 DEF ReadInv, read
<1>9. CASE ParseBlock
  <2> DEFINE n == Len(entries) + 1
             end == Min(BlockEnds(i))
  <2>1. /\ status = "parsing" /\ i <= Len(m_ExternalSubtitleScript)
        /\ UNCHANGED <<directory, ext, pin>>
        /\ \/ /\ entries' = Append(entries, EntryAt(i, end))
              /\ i' = end + 2 /\ UNCHANGED status
           \/ /\ \/ ~CheckLineIsTimestamp(m_ExternalSubtitleScript[i])
                 \/ ~EntryAt(i, end).shown.defined
              /\ status' = "undefined"
    BY <1>9 DEF ParseBlock
  <2>2. /\ n \in 1 .. Len(blocks)
        /\ CheckLineIsTimestamp(m_ExternalSubtitleScript[i])
        /\ EntryAt(i, end) = Entry(blocks[n]) /\ EntryAt(i, end).shown.defined
        /\ end + 2 = Begin(blocks, n)
    BY <2>1, BlockFound
  <2> DEFINE entry == EntryAt(i, end)
  <2> HIDE DEF end, blocks, entry
  <2>3. entries' = Append(entries, entry) /\ i' = end + 2 /\ UNCHANGED status
    BY <2>1, <2>2 DEF entry
  <2>4. Len(entries) \in Nat
    BY <1>3
  <2>5. /\ Len(entries') = n /\ entries'[n] = entry
        /\ \A k \in 1 .. Len(entries) : entries'[k] = entries[k]
    BY <1>3, <2>3
  <2>6. ASSUME NEW k \in 1 .. Len(entries') PROVE entries'[k] = Entry(blocks[k])
    <3>1. CASE k = n
      BY <2>2, <2>5, <3>1 DEF entry
    <3>2. CASE k # n
      <4>1. k \in 1 .. Len(entries)
        BY <2>4, <2>5, <3>2
      <4> QED
        BY <1>2, <2>5, <4>1
    <3> QED
      BY <3>1, <3>2
  <2>7. i' = Begin(blocks, Len(entries')) /\ Len(entries') <= Len(blocks) /\ status' = "parsing"
    BY <1>4, <2>1, <2>2, <2>3, <2>4, <2>5
  <2>8. pin' = <<TRUE, "SRT", read>>
    BY <1>2, <2>1
  <2> QED
    BY <1>1, <1>6, <2>6, <2>7, <2>8 DEF ReadInv, read, blocks
<1>10. CASE ParsePastEnd
  <2>1. status = "parsing" /\ i <= Len(m_ExternalSubtitleScript) /\ BlockEnds(i) = {}
    BY <1>10 DEF ParsePastEnd
  <2> QED
    BY <2>1, BlockFound
<1>11. CASE ParseEnd
  <2>1. /\ status = "parsing" /\ i > Len(m_ExternalSubtitleScript) /\ status' = "parsed"
        /\ UNCHANGED <<directory, ext, pin, i, entries>>
    BY <1>11 DEF ParseEnd
  <2>2. pin = <<TRUE, "SRT", read>> /\ pin' = <<TRUE, "SRT", read>>
    BY <1>2, <2>1
  <2>3. ASSUME Len(entries) # Len(blocks) PROVE FALSE
    <3>1. m_ExternalSubtitleScript = read
      BY <2>2 DEF pin
    <3>2. Written(m_ExternalSubtitleScript, blocks)
      BY <1>3, <3>1, WrittenRead DEF read
    <3> DEFINE n == Len(entries) + 1
    <3>3. Len(entries) \in Nat
      BY <1>3
    <3>4. n \in 1 .. Len(blocks) /\ n - 1 = Len(entries)
      <4> HIDE DEF blocks
      <4> QED
        BY <1>2, <1>4, <2>3, <3>3
    <3>5. i = Begin(blocks, n - 1)
      BY <1>2, <2>1, <3>4
    <3> HIDE DEF blocks, n
    <3> DEFINE T == Len(blocks[n].text)
    <3>6. T \in Nat \ {0} /\ i + T + 1 <= Len(m_ExternalSubtitleScript)
      BY <1>4, <3>2, <3>4, <3>5, SubtitlePlace
    <3> HIDE DEF T
    <3>7. Len(m_ExternalSubtitleScript) \in Nat
      BY <1>3
    <3> QED
      BY <1>3, <2>1, <3>6, <3>7
  <2> QED
    BY <1>1, <1>2, <1>6, <2>1, <2>2, <2>3 DEF ReadInv, read
<1>12. CASE UNCHANGED vars
  <2>1. UNCHANGED <<directory, ext, pin, status, i, entries>>
    BY <1>12 DEF vars
  <2> QED
    BY <1>1, <1>2, <1>6, <2>1 DEF ReadInv, read
<1> QED
  BY <1>5, <1>7, <1>8, <1>9, <1>10, <1>11, <1>12 DEF Next

-----------------------------------------------------------------------------
(* Nothing has been loaded or parsed at first. *)
LEMMA InvAtStart ==
  ASSUME Init
  PROVE  ScriptInv
<1>1. /\ directory \in Directories /\ ext = 1 /\ m_bExternalSubtitlesLoaded = FALSE
      /\ m_CurrentSubtitleType = "NONE" /\ m_ExternalSubtitleScript = << >>
      /\ status = "loading" /\ i = 0 /\ entries = << >>
  BY DEF Init
<1>2. m_ExternalSubtitleScript \in Seq(ScriptLines) /\ entries \in Seq(Entries)
  BY <1>1
<1>3. TypeInv
  <2>1. <<m_bExternalSubtitlesLoaded, m_CurrentSubtitleType>> \in AfterLoading
    <3>1. <<FALSE, "NONE">> \in AfterLoading
      BY DEF AfterLoading
    <3> QED
      BY <1>1, <3>1
  <2>2. ext \in 1 .. Len(SubtitleFileExtensions) + 1 /\ i \in Nat
    BY <1>1, Extensions
  <2> QED
    BY <1>1, <1>2, <2>1, <2>2 DEF TypeInv
<1>4. ASSUME WellFormed PROVE ReadInv
  <2>1. directory.blocks \in Seq(Subtitles)
    BY <1>1, <1>4, WrittenRead
  <2>2. 0 <= Len(directory.blocks) /\ Len(entries) = 0 /\ \A k \in 1 .. 0 : FALSE
    BY <1>1, <2>1
  <2>3. pin = <<FALSE, "NONE", << >>>>
    BY <1>1, Zenon DEF pin
  <2>4. pin = IF status = "loading" /\ ext <= 3 THEN <<FALSE, "NONE", << >>>>
              ELSE <<TRUE, "SRT", LinesRead(directory.files[".srt"])>>
    <3>1. status = "loading" /\ ext <= 3
      BY <1>1
    <3> QED
      BY <2>3, <3>1
  <2>5. \A k \in 1 .. Len(entries) : entries[k] = Entry(directory.blocks[k])
    BY <2>2
  <2> QED
    BY <1>1, <2>2, <2>4, <2>5 DEF ReadInv
<1> QED
  BY <1>3, <1>4 DEF ScriptInv

(* Every step of loading and parsing keeps the invariant. *)
LEMMA InvKept ==
  ASSUME ScriptInv, [Next]_vars
  PROVE  ScriptInv'
<1>1. TypeInv'
  BY TypeKept DEF ScriptInv
<1>2. ASSUME WellFormed' PROVE ReadInv'
  BY <1>2, StaysWellFormed, ReadKept DEF ScriptInv
<1> QED
  BY <1>1, <1>2 DEF ScriptInv

(* The variables have their types, and where ParseScript stands in a       *)
(* well-formed script is told by the entries it has made.                  *)
THEOREM ScriptInvariant == Spec => []ScriptInv
<1>1. Init => ScriptInv
  BY InvAtStart
<1>2. ScriptInv /\ [Next]_vars => ScriptInv'
  BY InvKept
<1> QED
  BY <1>1, <1>2, PTL DEF Spec

(* TypeOK: whatever the files hold, the ranges ParseLine gives a format to *)
(* are not empty and lie in the text it keeps.                             *)
THEOREM ScriptTypes == Spec => []TypeOK
<1>1. ASSUME ScriptInv PROVE TypeOK
  <2>1. TypeInv
    BY <1>1 DEF ScriptInv
  <2>2. <<m_bExternalSubtitlesLoaded, m_CurrentSubtitleType>> \in AfterLoading
    BY <2>1 DEF TypeInv
  <2>3. m_bExternalSubtitlesLoaded \in BOOLEAN /\ m_CurrentSubtitleType \in SubtitleType
    BY <2>2 DEF AfterLoading, SubtitleType
  <2>4. \A k \in DOMAIN m_ExternalSubtitleScript : m_ExternalSubtitleScript[k][1] \in LineTypes
    <3>1. m_ExternalSubtitleScript \in Seq(ScriptLines)
      BY <2>1 DEF TypeInv
    <3>2. \A line \in ScriptLines : line[1] \in LineTypes
      BY DEF ScriptLines
    <3> QED
      BY <3>1, <3>2
  <2>5. ASSUME NEW k \in DOMAIN entries, NEW run \in entries[k].shown.runs
        PROVE  run.range # {} /\ run.range \subseteq DOMAIN entries[k].shown.text
    <3>1. entries \in Seq(Entries)
      BY <2>1 DEF TypeInv
    <3>2. entries[k] \in Entries
      BY <3>1
    <3>3. PICK line \in Seq(Items) : entries[k].shown = Strip(line)
      BY <3>2 DEF Entries
    <3> QED
      BY <2>5, <3>3, RunsInside
  <2> QED
    BY <2>1, <2>3, <2>4, <2>5 DEF TypeOK, TypeInv
<1> QED
  BY <1>1, ScriptInvariant, PTL

(* LoadOutcome: every set of files leaves one of the outcomes that the     *)
(* connecting of the pins starts from.                                     *)
THEOREM LoadingIsAsAssumed == Spec => []LoadOutcome
<1>1. ScriptInv => LoadOutcome
  BY DEF ScriptInv, TypeInv, LoadOutcome
<1> QED
  BY <1>1, ScriptInvariant, PTL

(* EachSubtitleOnce: for well-formed scripts of any length, ParseScript    *)
(* hands on each subtitle once and in order, and ParseLine takes nothing   *)
(* but the tags from its text.                                             *)
THEOREM SubtitlesAreRead == Spec => []EachSubtitleOnce
<1>1. ASSUME ScriptInv PROVE EachSubtitleOnce
  <2> SUFFICES ASSUME WellFormed
               PROVE  /\ status \notin {"crashed", "undefined"}
                      /\ \A k \in DOMAIN entries :
                           /\ k \in DOMAIN directory.blocks
                           /\ entries[k].time = Time(directory.blocks[k].time)
                           /\ OnlyTagsLost(Joined(directory.blocks[k].text), entries[k].shown.text)
                      /\ status = "parsed" => Len(entries) = Len(directory.blocks)
    BY DEF EachSubtitleOnce
  <2>1. TypeInv /\ ReadInv
    BY <1>1 DEF ScriptInv
  <2>2. directory \in Directories /\ entries \in Seq(Entries)
    BY <2>1 DEF TypeInv
  <2> DEFINE blocks == directory.blocks
  <2>3. blocks \in Seq(Subtitles)
    BY <2>2, WrittenRead
  <2>4. /\ status \in {"loading", "ready", "parsing", "parsed"}
        /\ Len(entries) <= Len(blocks)
        /\ \A k \in 1 .. Len(entries) : entries[k] = Entry(blocks[k])
        /\ status = "parsed" => Len(entries) = Len(blocks)
    BY <2>1 DEF ReadInv
  <2>5. ASSUME NEW k \in DOMAIN entries
        PROVE  /\ k \in DOMAIN blocks /\ entries[k].time = Time(blocks[k].time)
               /\ OnlyTagsLost(Joined(blocks[k].text), entries[k].shown.text)
    <3>1. k \in 1 .. Len(entries) /\ k \in 1 .. Len(blocks)
      BY <2>2, <2>3, <2>4
    <3>2. k \in DOMAIN blocks
      BY <2>3, <3>1
    <3>3. OnlyTagsLost(Joined(blocks[k].text), Strip(Joined(blocks[k].text)).text)
      BY <2>2, <3>1, GoodLines, StrippedWell
    <3>4. entries[k] = Entry(blocks[k])
      BY <2>4, <3>1
    <3> HIDE DEF blocks
    <3>5. entries[k].time = Time(blocks[k].time) /\ entries[k].shown = Strip(Joined(blocks[k].text))
      BY <3>4 DEF Entry
    <3> QED
      BY <3>2, <3>3, <3>5
  <2> QED
    BY <2>4, <2>5
<1> QED
  BY <1>1, ScriptInvariant, PTL

(* StyledAsWritten: however deep the tags are nested, the stack gives each *)
(* character the styles of the tags that match around it.                  *)
THEOREM StylesAreThoseWritten == Spec => []StyledAsWritten
<1>1. ASSUME ScriptInv PROVE StyledAsWritten
  <2> SUFFICES ASSUME WellFormed, NEW k \in DOMAIN entries,
                      NEW p \in Characters(Joined(directory.blocks[k].text))
               PROVE  LET line == Joined(directory.blocks[k].text) IN
                      UNION {run.styles : run \in {r \in entries[k].shown.runs :
                                                     PlaceOf(line, p) \in r.range}}
                        = StylesAt(line, p)
    BY DEF StyledAsWritten
  <2>1. TypeInv /\ ReadInv
    BY <1>1 DEF ScriptInv
  <2>2. directory \in Directories /\ entries \in Seq(Entries)
    BY <2>1 DEF TypeInv
  <2> DEFINE blocks == directory.blocks
             line == Joined(blocks[k].text)
  <2>3. blocks \in Seq(Subtitles)
    BY <2>2, WrittenRead
  <2>4. Len(entries) <= Len(blocks) /\ \A m \in 1 .. Len(entries) : entries[m] = Entry(blocks[m])
    BY <2>1 DEF ReadInv
  <2>5. k \in 1 .. Len(entries) /\ k \in 1 .. Len(blocks)
    BY <2>2, <2>3, <2>4
  <2>6. entries[k].shown = Strip(line)
    <3>1. entries[k] = Entry(blocks[k])
      BY <2>4, <2>5
    <3> HIDE DEF blocks
    <3> QED
      BY <3>1 DEF Entry
  <2>7. UNION {run.styles : run \in {r \in Strip(line).runs : PlaceOf(line, p) \in r.range}}
          = StylesAt(line, p)
    BY <2>2, <2>5, GoodLines, StrippedWell
  <2> QED
    BY <2>6, <2>7
<1> QED
  BY <1>1, ScriptInvariant, PTL

(* The assertion of ParseScript (TimestampsAsserted) holds for every       *)
(* well-formed script: where it fails, the script is not one.              *)
THEOREM AssertionHoldsIfWellFormed == Spec => [](WellFormed => TimestampsAsserted)
<1>1. ASSUME ScriptInv PROVE WellFormed => TimestampsAsserted
  BY <1>1, BlockFound DEF ScriptInv, TimestampsAsserted
<1> QED
  BY <1>1, ScriptInvariant, PTL
=============================================================================
