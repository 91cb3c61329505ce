-------------------------- MODULE ForthDriverProofs --------------------------
(***************************************************************************)
(* Proofs about the driver of the Forth interpreter, for buffers of any    *)
(* size, any files, and whatever the interpreter emits and returns.        *)
(***************************************************************************)
EXTENDS ForthDriver, SequenceTheorems, WellFoundedInduction, TLAPS

\* The buffer that the caller of f_run has given, and its limit.
BufferOf(c) == IF c = "load" THEN "load_buffer" ELSE "output_buffer"
LimitOf(c) == IF c = "load" THEN SIZE ELSE SIZE - 1

IsOut == out \in [buf : {"none", "load_buffer", "output_buffer"}, at : Nat, max : Nat]

\* There is room for a character in it.
Room(c) == out.buf = BufferOf(c) /\ out.max = LimitOf(c) /\ out.at < out.max

\* While the interpreter runs; a buffer that it leaves full is to be flushed.
Running ==
  /\ pc \in {"forth", "full"} =>
       /\ caller \in {"switch", "load", "tested"}
       /\ caller = "switch" => ~buffer_flushed
  /\ pc = "forth" => Room(caller)
  /\ pc = "full" => out.buf = BufferOf(caller) /\ out.at = out.max /\ out.max = LimitOf(caller)

\* Between two lines: the buffer goes on only if it has been given before, and
\* if it is not full.
Between ==
  /\ pc \in {"switch", "fgets"} =>
       /\ buffer_flushed => fresult = INPUT_DONE
       /\ ~buffer_flushed /\ fresult \in {YIELD, INPUT_DONE} => Room("switch")
  /\ pc = "fgets" => fresult = INPUT_DONE
  /\ pc = "load" =>
       /\ out.buf = "load_buffer" /\ out.max = SIZE
       /\ fresult = INPUT_DONE => Room("load")

BufferInv == IsOut /\ Running /\ Between

LEMMA InitBuffer == Init => BufferInv
BY DriverAssumption DEF Init, BufferInv, IsOut, Running, Between, Unset

LEMMA RoomAtStart == SIZE \in Nat /\ SIZE - 1 \in Nat /\ 0 < SIZE - 1
BY DriverAssumption

LEMMA InterpreterKeeps == ASSUME BufferInv, Interpreter PROVE BufferInv'
<1>1. SIZE \in Nat /\ SIZE - 1 \in Nat /\ 0 < SIZE - 1
  BY RoomAtStart
<1>2. IsOut /\ Running
  BY DEF BufferInv
<1>3. CASE Emit
  <2>1. /\ pc = "forth" /\ out' = [out EXCEPT !.at = @ + 1]
        /\ pc' = IF out.at + 1 = out.max THEN "full" ELSE "forth"
        /\ UNCHANGED <<fresult, caller, buffer_flushed>>
    BY <1>3 DEF Emit, session
  <2>2. /\ out.at \in Nat /\ out.max \in Nat /\ Room(caller)
        /\ caller \in {"switch", "load", "tested"} /\ (caller = "switch" => ~buffer_flushed)
    BY <1>2, <2>1 DEF IsOut, Running
  <2>3. out'.at = out.at + 1 /\ out'.max = out.max /\ out'.buf = out.buf /\ IsOut'
    BY <1>2, <2>1 DEF IsOut
  <2>4. pc' = "forth" => Room(caller)'
    BY <2>1, <2>2, <2>3 DEF Room, BufferOf, LimitOf
  <2>5. pc' = "full" => /\ out'.buf = BufferOf(caller') /\ out'.at = out'.max
                        /\ out'.max = LimitOf(caller')
    BY <2>1, <2>2, <2>3 DEF Room, BufferOf, LimitOf
  <2> QED BY <2>1, <2>2, <2>3, <2>4, <2>5 DEF BufferInv, Running, Between
<1>4. ASSUME NEW r, Returns(r), pc = "forth" \/ (pc = "full" /\ r = OUTPUT_FLUSH)
      PROVE  BufferInv'
  <2>1. /\ fresult' = r /\ pc' = caller /\ UNCHANGED <<out, caller, buffer_flushed>>
    BY <1>4 DEF Returns, session
  <2>2. /\ caller \in {"switch", "load", "tested"} /\ (caller = "switch" => ~buffer_flushed)
        /\ out.buf = BufferOf(caller) /\ out.max = LimitOf(caller)
        /\ r # OUTPUT_FLUSH => Room(caller)
    BY <1>2, <1>4 DEF Running, Room
  <2>3. YIELD # OUTPUT_FLUSH /\ INPUT_DONE # OUTPUT_FLUSH
    BY DEF YIELD, INPUT_DONE, OUTPUT_FLUSH
  <2>4. IsOut' /\ Running'
    BY <1>2, <2>1, <2>2 DEF IsOut, Running
  <2>5. Between'
    BY <2>1, <2>2, <2>3 DEF Between, Room, BufferOf, LimitOf
  <2> QED BY <2>4, <2>5 DEF BufferInv
<1> QED BY <1>3, <1>4 DEF Interpreter, BufferFull, LineEnds, PauseWithCode

\* A call of f_run with a buffer that begins anew.
LEMMA Begins ==
  ASSUME BufferInv, Into("output_buffer"), NEW c \in {"switch", "tested"}, Continue(c),
         c = "switch" => ~buffer_flushed'
  PROVE  BufferInv'
<1>1. out' = [buf |-> "output_buffer", at |-> 0, max |-> SIZE - 1]
  BY DEF Into, Whole
<1>2. pc' = "forth" /\ caller' = c
  BY DEF Continue
<1>3. IsOut' /\ Room(c)'
  BY <1>1, RoomAtStart DEF IsOut, Room, BufferOf, LimitOf
<1> QED BY <1>2, <1>3 DEF BufferInv, Running, Between, Room

\* ... or with the one there is.
LEMMA GoesOn ==
  ASSUME BufferInv, IntoTheSame, NEW c \in {"switch", "load"}, Continue(c), Room(c),
         c = "switch" => ~buffer_flushed'
  PROVE  BufferInv'
<1>1. out' = out /\ pc' = "forth" /\ caller' = c
  BY DEF IntoTheSame, Continue
<1>2. IsOut' /\ Room(c)'
  BY <1>1 DEF BufferInv, IsOut, Room
<1> QED BY <1>1, <1>2 DEF BufferInv, Running, Between, Room

LEMMA ExecuteKeeps == ASSUME BufferInv, executeForth PROVE BufferInv'
<1>1. IsOut /\ Between
  BY DEF BufferInv
<1>2. YIELD # INPUT_DONE /\ YIELD # OUTPUT_FLUSH /\ INPUT_DONE # OUTPUT_FLUSH
  BY DEF YIELD, INPUT_DONE, OUTPUT_FLUSH
<1>3. CASE Yielded
  <2>1. Room("switch") /\ ~buffer_flushed'
    BY <1>1, <1>2, <1>3 DEF Yielded, Between, session
  <2> QED BY <1>3, <2>1, GoesOn DEF Yielded
<1>4. CASE Flushed
  <2>1. ~buffer_flushed'
    BY <1>1, <1>2, <1>4 DEF Flushed, Between, session
  <2> QED BY <1>4, <2>1, Begins DEF Flushed
<1>5. CASE Failed
  BY <1>1, <1>5 DEF Failed, BufferInv, IsOut, Running, Between, output
<1>6. CASE Prompt
  <2>1. /\ pc = "switch" /\ pc' = "fgets" /\ fresult = INPUT_DONE /\ UNCHANGED <<fresult, out>>
        /\ buffer_flushed' = TRUE \/ UNCHANGED buffer_flushed
    BY <1>6 DEF Prompt
  <2> QED BY <1>1, <2>1 DEF BufferInv, IsOut, Running, Between, Room
<1>7. CASE GetLine
  <2>1. pc = "fgets" /\ Continue("switch") /\ ~buffer_flushed'
    BY <1>7 DEF GetLine
  <2>2. CASE buffer_flushed
    BY <1>7, <2>1, <2>2, Begins DEF GetLine
  <2>3. CASE ~buffer_flushed
    <3>1. Room("switch") /\ IntoTheSame
      BY <1>1, <1>7, <2>1, <2>3 DEF Between, GetLine
    <3> QED BY <2>1, <3>1, GoesOn
  <2> QED BY <2>2, <2>3
<1>8. CASE NextFile
  <2>1. /\ pc = "fgets" /\ pc' \in {"ended", "switch"}
        /\ UNCHANGED <<fresult, out, buffer_flushed>>
    BY <1>8 DEF NextFile, output
  <2> QED BY <1>1, <2>1 DEF BufferInv, IsOut, Running, Between, Room
<1> QED BY <1>3, <1>4, <1>5, <1>6, <1>7, <1>8 DEF executeForth

LEMMA StarterKeeps == ASSUME BufferInv, test2and4 PROVE BufferInv'
<1>1. IsOut /\ Between /\ SIZE \in Nat /\ 0 < SIZE
  BY RoomAtStart DEF BufferInv
<1>2. ASSUME pc' \in {"failed", "ended", "test"}, IsOut' PROVE BufferInv'
  BY <1>2 DEF BufferInv, Running, Between
<1>3. CASE LoadFindsNoFile \/ LoadFails \/ TestEnds
  <2>1. pc' \in {"failed", "ended"} /\ out' = out
    BY <1>3 DEF LoadFindsNoFile, LoadFails, TestEnds, Exit
  <2> QED BY <1>1, <1>2, <2>1 DEF IsOut
<1>4. CASE LoadOpens
  <2>1. /\ pc' = "load" /\ out' = [buf |-> "load_buffer", at |-> 0, max |-> SIZE]
    BY <1>4 DEF LoadOpens
  <2>2. IsOut' /\ Room("load")'
    BY <1>1, <2>1 DEF IsOut, Room, BufferOf, LimitOf
  <2> QED BY <2>1, <2>2 DEF BufferInv, Running, Between, Room
<1>5. CASE LoadGetsLine
  <2>1. Room("load")
    BY <1>1, <1>5 DEF LoadGetsLine, Between
  <2> QED BY <1>5, <2>1, GoesOn DEF LoadGetsLine
<1>6. CASE LoadFlushes
  <2>1. /\ pc = "load" /\ out' = [out EXCEPT !.at = 0] /\ pc' = "forth" /\ caller' = "load"
    BY <1>6 DEF LoadFlushes, Continue
  <2>2. out.buf = "load_buffer" /\ out.max = SIZE
    BY <1>1, <2>1 DEF Between
  <2>3. IsOut' /\ Room("load")'
    BY <1>1, <2>1, <2>2 DEF IsOut, Room, BufferOf, LimitOf
  <2> QED BY <2>1, <2>3 DEF BufferInv, Running, Between, Room
<1>7. CASE LoadEnds
  <2>1. pc' = "test" /\ IsOut'
    BY <1>7 DEF LoadEnds, Unset, IsOut
  <2> QED BY <1>2, <2>1
<1>8. CASE TestRuns
  BY <1>8, Begins DEF TestRuns
<1> QED BY <1>3, <1>4, <1>5, <1>6, <1>7, <1>8 DEF test2and4

LEMMA NextBuffer == BufferInv /\ [Next]_vars => BufferInv'
<1>1. ASSUME BufferInv, UNCHANGED vars PROVE BufferInv'
  BY <1>1 DEF vars, session, output, BufferInv, IsOut, Running, Between, Room
<1> QED BY <1>1, InterpreterKeeps, ExecuteKeeps, StarterKeeps DEF Next

\* For buffers of any size and whatever lines emit, over any number of lines
\* and files: no character and no terminator is written outside the buffer,
\* although its limit is only tested for equality (forth_embed.c:51-68).
THEOREM WritesInsideBuffer == Spec => []InsideBuffer
<1>1. BufferInv => InsideBuffer
  <2> SUFFICES ASSUME BufferInv PROVE InsideBuffer
    OBVIOUS
  <2>1. out.at \in Nat /\ out.max \in Nat /\ SIZE \in Nat /\ Running
    BY RoomAtStart DEF BufferInv, IsOut
  <2> QED BY <2>1 DEF InsideBuffer, Running, Room, BufferOf, LimitOf
<1> QED BY <1>1, InitBuffer, NextBuffer, PTL DEF Spec

-----------------------------------------------------------------------------
(* All lines in order, all output once and in order, up to a zero. *)

IsInput ==
  /\ lines \in Seq(Nat \cup {MISSING}) /\ argc \in Nat \ {0}
  /\ rest \in [1..argc -> Nat \cup {MISSING}]
  /\ \A i \in 1..argc : rest[i] <= lines[i]
  /\ currFile \in Nat /\ file \in Nat

\* What is still to read is in the file that is open and in those after it.
Reading ==
  /\ currFile <= argc /\ file \in {0, currFile}
  /\ currFile = argc => file = argc
  /\ \A i \in 1..argc : i < currFile \/ (i = currFile /\ file = 0) => rest[i] <= 0

InFiles == pc \in {"switch", "fgets"} \/ (pc \in {"forth", "full"} /\ caller = "switch")
InStarter == pc \in {"load_open", "load"} \/ (pc \in {"forth", "full"} /\ caller = "load")
InTest == pc = "tested" \/ (pc \in {"forth", "full"} /\ caller = "tested")

\* The starter is a file, and then one line.
InputInv ==
  /\ IsInput
  /\ InFiles => Reading
  /\ InStarter \/ pc = "test" => argc = 2 /\ rest[2] = 1
  /\ InTest => argc = 2 /\ rest[2] = 0
  /\ InTest \/ pc = "test" => rest[1] = 0

IsOutput ==
  /\ text \in Seq(Int) /\ printed \in Seq(Int)
  /\ left \in [emits : Nat, pauses : Nat] /\ left.emits <= EMITS
  /\ output_buffer \in [0..(SIZE - 1) -> Int]

\* Nobody has written to the buffer.
Untouched ==
  /\ text = <<>> /\ printed = <<>>
  /\ \A i \in 0..(SIZE - 1) : output_buffer[i] # NUL

\* Some line has been run, the buffer holds what has not been shown, ...
HoldsRest ==
  /\ rest # lines
  /\ out.at = Len(text)
  /\ \A i \in 0..(SIZE - 1) : i < out.at => output_buffer[i] = text[i + 1]

\* ... and when f_run has returned, a terminator behind it.
Pending ==
  /\ out.buf = "output_buffer" /\ out.at \in 0..(SIZE - 1)
  /\ HoldsRest
  /\ output_buffer[out.at] = NUL

OutputInv ==
  /\ IsOutput
  /\ pc \in {"forth", "full"} /\ caller # "load" => HoldsRest
  /\ pc = "switch" \/ (pc = "fgets" /\ file # stdin) =>
       IF buffer_flushed THEN Untouched /\ rest = lines ELSE Pending
  /\ pc = "fgets" /\ file = stdin => buffer_flushed /\ text = <<>>
  /\ pc = "tested" => Pending
  /\ InStarter \/ pc = "test" => Untouched

SessionInv == InputInv /\ OutputInv

LEMMA ConstantsOK ==
  /\ SIZE \in Nat /\ SIZE - 1 \in Nat /\ EMITS \in Nat /\ PAUSES \in Nat
  /\ Noise = -1 /\ NUL = 0 /\ MISSING = -1
BY DriverAssumption DEF Noise, NUL, MISSING

(* What is shown. *)

LEMMA Least ==
  ASSUME NEW S \in SUBSET Nat, S # {}
  PROVE  \E n \in S : \A m \in S : n <= m
<1>1. \E n \in S : \A m \in S : ~(<<m, n>> \in OpToRel(<, Nat))
  BY NatLessThanWellFounded, WFMin
<1>2. \A n \in Nat, m \in Nat : <<m, n>> \in OpToRel(<, Nat) <=> m < n
  BY DEF OpToRel
<1>3. PICK n \in S : \A m \in S : ~(m < n)
  BY <1>1, <1>2
<1>4. \A m \in S : n <= m
  BY <1>3
<1> QED BY <1>4

\* Of a sequence in a buffer, with a zero behind it, as much is printed as comes
\* before its first zero.
LEMMA PrintsCut ==
  ASSUME NEW k \in 0..(SIZE - 1), NEW s \in Seq(Int), Len(s) = k,
         NEW b \in [0..(SIZE - 1) -> Int], b[k] = NUL,
         \A i \in 0..(SIZE - 1) : i < k => b[i] = s[i + 1]
  PROVE  Text(b, Terminator(b)) = Promised!Cut(s) /\ Promised!Cut(s) \in Seq(Int)
<1> DEFINE Z == {i \in 0..k : b[i] = NUL}
<1>1. SIZE \in Nat /\ k \in Nat /\ DOMAIN b = 0..(SIZE - 1) /\ 0..k \subseteq 0..(SIZE - 1)
  BY ConstantsOK
<1>2. PICK n \in Z : \A m \in Z : n <= m
  <2>1. Z \in SUBSET Nat /\ k \in Z
    BY <1>1
  <2> HIDE DEF Z
  <2> QED BY <2>1, Least
<1>3. n \in 0..k /\ b[n] = NUL /\ \A i \in 0..(n - 1) : b[i] # NUL
  <2>1. ASSUME NEW i \in 0..(n - 1), b[i] = NUL PROVE FALSE
    <3>1. i \in 0..k /\ i < n
      BY <1>1, <1>2
    <3> QED BY <1>1, <1>2, <2>1, <3>1
  <2> QED BY <1>2, <2>1
<1>4. Terminator(b) = n
  <2>1. ASSUME NEW m \in DOMAIN b, b[m] = NUL, \A i \in 0..(m - 1) : b[i] # NUL PROVE m = n
    BY <1>1, <1>3, <2>1
  <2> QED BY <1>1, <1>3, <2>1 DEF Terminator
<1>5. \A i \in 1..k : s[i] = b[i - 1]
  <2> SUFFICES ASSUME NEW i \in 1..k PROVE s[i] = b[i - 1]
    OBVIOUS
  <2>1. i - 1 \in 0..(SIZE - 1) /\ i - 1 < k /\ (i - 1) + 1 = i
    BY <1>1
  <2>2. b[i - 1] = s[(i - 1) + 1]
    BY <2>1
  <2> QED BY <2>1, <2>2
<1>6. ASSUME NEW m \in 0..k
      PROVE  Promised!EndsAt(s, m) <=> (b[m] = NUL /\ \A i \in 0..(m - 1) : b[i] # NUL)
  <2>1. (m = Len(s) \/ s[m + 1] = NUL) <=> b[m] = NUL
    <3>1. CASE m = k
      BY <3>1
    <3>2. CASE m # k
      <4>1. m + 1 \in 1..k /\ (m + 1) - 1 = m
        BY <1>1, <3>2
      <4>2. s[m + 1] = b[m]
        BY <1>5, <4>1
      <4> QED BY <3>2, <4>2
    <3> QED BY <3>1, <3>2
  <2>2. (\A i \in 1..m : s[i] # NUL) <=> (\A i \in 0..(m - 1) : b[i] # NUL)
    <3>1. ASSUME \A i \in 1..m : s[i] # NUL, NEW j \in 0..(m - 1) PROVE b[j] # NUL
      <4>1. j + 1 \in 1..m /\ j + 1 \in 1..k /\ (j + 1) - 1 = j
        BY <1>1
      <4> QED BY <1>5, <3>1, <4>1
    <3>2. ASSUME \A i \in 0..(m - 1) : b[i] # NUL, NEW j \in 1..m PROVE s[j] # NUL
      <4>1. j - 1 \in 0..(m - 1) /\ j \in 1..k
        BY <1>1
      <4> QED BY <1>5, <3>2, <4>1
    <3> QED BY <3>1, <3>2
  <2> QED BY <2>1, <2>2 DEF Promised!EndsAt
<1>7. (CHOOSE m \in 0..Len(s) : Promised!EndsAt(s, m)) = n
  <2>1. Promised!EndsAt(s, n)
    BY <1>3, <1>6
  <2>2. ASSUME NEW m \in 0..k, Promised!EndsAt(s, m) PROVE m = n
    <3>1. b[m] = NUL /\ \A i \in 0..(m - 1) : b[i] # NUL
      BY <1>6, <2>2
    <3> QED BY <1>1, <1>3, <3>1
  <2> QED BY <1>3, <2>1, <2>2
<1>8. Promised!Cut(s) = [i \in 1..n |-> s[i]] /\ Promised!Cut(s) \in Seq(Int)
  <2>1. Promised!Cut(s) = SubSeq(s, 1, n)
    BY <1>7 DEF Promised!Cut
  <2>2. SubSeq(s, 1, n) = [i \in 1..n |-> s[i]] /\ SubSeq(s, 1, n) \in Seq(Int)
    BY <1>1, <1>3, SubSeqProperties
  <2> QED BY <2>1, <2>2
<1>9. Text(b, n) = [i \in 1..n |-> s[i]]
  <2>1. \A i \in 1..n : i \in 1..k
    BY <1>1, <1>3
  <2> QED BY <1>5, <2>1 DEF Text
<1> QED BY <1>4, <1>8, <1>9

LEMMA PrintsRest ==
  ASSUME IsOutput, Pending, PrintBuffer
  PROVE  /\ printed' = printed \o Promised!Cut(text) /\ printed' \in Seq(Int)
         /\ text' = <<>>
<1>1. /\ out.at \in 0..(SIZE - 1) /\ Len(text) = out.at /\ text \in Seq(Int)
      /\ output_buffer \in [0..(SIZE - 1) -> Int] /\ output_buffer[out.at] = NUL
      /\ \A i \in 0..(SIZE - 1) : i < out.at => output_buffer[i] = text[i + 1]
  BY DEF IsOutput, Pending, HoldsRest
<1>2. /\ Text(output_buffer, Terminator(output_buffer)) = Promised!Cut(text)
      /\ Promised!Cut(text) \in Seq(Int)
  BY <1>1, PrintsCut
<1>3. \E n \in DOMAIN output_buffer : output_buffer[n] = NUL
  BY <1>1
<1>4. printed' = printed \o Promised!Cut(text) /\ text' = <<>>
  BY <1>2, <1>3 DEF PrintBuffer
<1>5. printed \o Promised!Cut(text) \in Seq(Int)
  BY <1>2, ConcatProperties DEF IsOutput
<1> QED BY <1>4, <1>5

\* Before that, what it prints means nothing.
LEMMA PrintsNoise ==
  ASSUME IsOutput, Untouched, PrintBuffer
  PROVE  /\ printed = <<>> /\ printed' \in {printed, <<Noise>>} /\ printed' \in Seq(Int)
         /\ text = <<>> /\ text' = <<>>
<1>1. text = <<>> /\ printed = <<>> /\ DOMAIN output_buffer = 0..(SIZE - 1)
      /\ \A i \in DOMAIN output_buffer : output_buffer[i] # NUL
  BY DEF IsOutput, Untouched
<1>2. printed' \in {<<>>, <<>> \o <<Noise>>} /\ text' = <<>>
  BY <1>1 DEF PrintBuffer
<1>3. <<Noise>> \in Seq(Int)
  BY ConstantsOK
<1>4. <<>> \o <<Noise>> = <<Noise>>
  BY <1>3, ConcatEmptySeq
<1>5. printed' \in {printed, <<Noise>>} /\ <<>> \in Seq(Int)
  BY <1>1, <1>2, <1>4
<1>6. printed' \in Seq(Int)
  BY <1>1, <1>3, <1>5, Zenon
<1> QED BY <1>1, <1>2, <1>5, <1>6

\* When everything has been shown, nothing more is.
LEMMA CutOfNothing == ASSUME NEW s \in Seq(Int) PROVE s \o Promised!Cut(<<>>) = s
<1>1. Promised!Cut(<<>>) = <<>>
  <2>1. \A n \in 0..Len(<<>>) : n = 0 /\ Promised!EndsAt(<<>>, n)
    BY DEF Promised!EndsAt
  <2>2. (CHOOSE n \in 0..Len(<<>>) : Promised!EndsAt(<<>>, n)) = 0
    BY <2>1
  <2>3. SubSeq(<<>>, 1, 0) = <<>>
    OBVIOUS
  <2> QED BY <2>2, <2>3 DEF Promised!Cut
<1> QED BY <1>1, ConcatEmptySeq

(* What is run. *)

LEMMA InToRun ==
  ASSUME NEW i, NEW n
  PROVE  <<i, n>> \in ToRun <=>
           i \in 1..argc /\ n \in (lines[i] - rest[i] + 1)..lines[i]
BY DEF ToRun

LEMMA LinesToRun ==
  ASSUME NEW l \in ToRun
  PROVE  \E i \in 1..argc : \E n \in (lines[i] - rest[i] + 1)..lines[i] : l = <<i, n>>
BY DEF ToRun

\* The step that reads a line of file i runs the first of the lines to run.
LEMMA TakesLine ==
  ASSUME IsInput, NEW i \in 1..argc, rest[i] > 0,
         \A j \in 1..argc : j < i => rest[j] <= 0,
         rest' = [rest EXCEPT ![i] = @ - 1], UNCHANGED lines
  PROVE  LET l == <<i, lines[i] - rest[i] + 1>>
         IN  /\ l \in ToRun
             /\ \A m \in ToRun \ {l} : Promised!Before(l, m)
             /\ ToRun' = ToRun \ {l}
<1> DEFINE k == lines[i] - rest[i] + 1
           l == <<i, k>>
<1>1. /\ \A j \in 1..argc : lines[j] \in Int /\ rest[j] \in Int /\ rest[j] <= lines[j]
      /\ argc' = argc /\ lines' = lines /\ rest'[i] = rest[i] - 1
      /\ \A j \in 1..argc : j # i => rest'[j] = rest[j]
  BY ConstantsOK DEF IsInput, argc
<1>2. l \in ToRun
  BY <1>1, InToRun
<1>3. ASSUME NEW m \in ToRun \ {l} PROVE Promised!Before(l, m)
  <2>1. PICK j \in 1..argc : \E n \in (lines[j] - rest[j] + 1)..lines[j] : m = <<j, n>>
    BY <1>3, LinesToRun
  <2> PICK n \in (lines[j] - rest[j] + 1)..lines[j] : m = <<j, n>>
    BY <2>1
  <2>2. rest[j] > 0
    BY <1>1, <2>1
  <2>3. j >= i
    BY <1>1, <2>2
  <2>4. j = i => n # k
    BY <1>3
  <2>5. i < j \/ (i = j /\ k < n)
    BY <1>1, <2>1, <2>3, <2>4
  <2> QED BY <2>1, <2>5 DEF Promised!Before
<1>4. ASSUME NEW j, NEW n
      PROVE  <<j, n>> \in ToRun' <=> <<j, n>> \in ToRun /\ ~(j = i /\ n = k)
  <2>1. <<j, n>> \in ToRun' <=> j \in 1..argc /\ n \in (lines[j] - rest'[j] + 1)..lines[j]
    BY <1>1 DEF ToRun
  <2>2. CASE j \in 1..argc
    BY <1>1, <2>1, <2>2, InToRun
  <2>3. CASE j \notin 1..argc
    BY <2>1, <2>3, InToRun
  <2> QED BY <2>2, <2>3
<1>5. \A m \in ToRun \cup ToRun' : \E j, n : m = <<j, n>>
  BY DEF ToRun
<1>6. \A j, n : <<j, n>> \in ToRun' <=> <<j, n>> \in ToRun \ {l}
  BY <1>4
<1>7. ToRun' = ToRun \ {l}
  BY <1>5, <1>6
<1> QED BY <1>2, <1>3, <1>7

LEMMA NothingToRun ==
  ASSUME IsInput, \A i \in 1..argc : rest[i] <= 0 PROVE ToRun = {}
<1> SUFFICES ASSUME NEW l \in ToRun PROVE FALSE
  OBVIOUS
<1>1. PICK i \in 1..argc : \E n \in (lines[i] - rest[i] + 1)..lines[i] : l = <<i, n>>
  BY LinesToRun
<1>2. lines[i] \in Int /\ rest[i] \in Int /\ rest[i] <= 0
  BY ConstantsOK DEF IsInput, argc
<1> QED BY <1>1, <1>2

LEMMA LinesAreLines == ASSUME IsInput PROVE ToRun \in SUBSET (Nat \X Nat)
<1> SUFFICES ASSUME NEW l \in ToRun PROVE l \in Nat \X Nat
  OBVIOUS
<1>1. PICK i \in 1..argc : \E n \in (lines[i] - rest[i] + 1)..lines[i] : l = <<i, n>>
  BY LinesToRun
<1>2. lines[i] \in Int /\ rest[i] \in Int /\ rest[i] <= lines[i]
  BY ConstantsOK DEF IsInput, argc
<1> QED BY <1>1, <1>2 DEF IsInput

LEMMA SameToRun == ASSUME UNCHANGED <<lines, rest>> PROVE ToRun' = ToRun
BY DEF ToRun, argc

(* Both invariants together, and the step of the session, action by action. *)

\* What a step between two states that are not over may be.
LEMMA StepOfSession ==
  ASSUME ~Over, ~Over', UNCHANGED <<lines, rest>>,
         \/ UNCHANGED <<text, printed>>
         \/ /\ rest # lines
            /\ \E c \in (1..EMITS) \cup {NUL} : text' = Append(text, c)
            /\ UNCHANGED printed
         \/ rest = lines /\ printed = <<>> /\ printed' = <<Noise>> /\ UNCHANGED text
         \/ printed' = printed \o Promised!Cut(text) /\ text' = <<>>
  PROVE  [Promised!Next]_Promised!vars
BY SameToRun DEF Promised!Next, Promised!vars, Promised!Emit, Promised!ShowNoise,
                 Promised!Show, Promised!ShowBatch

LEMMA StepRunsLine ==
  ASSUME ~Over, ~Over', UNCHANGED <<text, printed>>, rest' # lines',
         NEW l \in ToRun, \A m \in ToRun \ {l} : Promised!Before(l, m), ToRun' = ToRun \ {l}
  PROVE  Promised!Next
BY DEF Promised!Next, Promised!RunLine

LEMMA StepFails ==
  ASSUME ~Over, pc' = "failed", UNCHANGED <<lines, rest, text, printed>>
  PROVE  Promised!Next
BY SameToRun DEF Over, Promised!Next, Promised!Fail

LEMMA StepEnds ==
  ASSUME ~Over, pc' = "ended", UNCHANGED <<lines, rest>>, ToRun = {},
         printed' = printed \o Promised!Cut(text), text' = <<>>
  PROVE  Promised!Next
BY SameToRun DEF Over, Promised!Next, Promised!End, Promised!ShowBatch

\* What is to be read stays as it is; the program goes on in the same part.
LEMMA InputStays ==
  ASSUME InputInv, UNCHANGED <<lines, rest, currFile, file>>,
         InFiles' => InFiles, InStarter' => InStarter, InTest' => InTest,
         pc' = "test" => InStarter /\ rest[1] = 0
  PROVE  InputInv'
<1>1. IsInput'
  BY DEF InputInv, IsInput, argc
<1>2. InFiles => Reading'
  BY DEF InputInv, Reading, argc
<1> QED BY <1>1, <1>2 DEF InputInv, argc

LEMMA EmitStep ==
  ASSUME BufferInv, SessionInv, Emit
  PROVE  SessionInv' /\ [Promised!Next]_Promised!vars
<1>1. /\ pc = "forth" /\ pc' \in {"forth", "full"} /\ UNCHANGED <<caller, printed>>
      /\ left' = [left EXCEPT !.emits = @ - 1] /\ left.emits > 0
      /\ out' = [out EXCEPT !.at = @ + 1]
      /\ UNCHANGED <<lines, rest, currFile, file, buffer_flushed>>
  BY DEF Emit, session
<1>2. /\ IsOut /\ caller \in {"switch", "load", "tested"} /\ out.buf = BufferOf(caller)
      /\ out.at \in Nat /\ out.at < out.max /\ out.max = LimitOf(caller) /\ out'.at = out.at + 1
  BY <1>1 DEF BufferInv, IsOut, Running, Room
<1>3. IsOutput /\ left.emits <= EMITS /\ left.emits \in Nat
  BY DEF SessionInv, OutputInv, IsOutput
<1>4. InputInv'
  BY <1>1, InputStays DEF SessionInv, InFiles, InStarter, InTest
<1>5. left' \in [emits : Nat, pauses : Nat] /\ left'.emits = left.emits - 1
  BY <1>1, <1>3 DEF IsOutput
<1>6. CASE caller = "load"
  <2>1. UNCHANGED <<text, output_buffer>> /\ InStarter
    BY <1>1, <1>2, <1>6 DEF Emit, BufferOf, InStarter
  <2>2. IsOutput'
    BY <1>1, <1>3, <1>5, <2>1, ConstantsOK DEF IsOutput
  <2>3. OutputInv'
    BY <1>1, <1>6, <2>1, <2>2 DEF SessionInv, OutputInv, Untouched, InStarter
  <2>4. [Promised!Next]_Promised!vars
    BY <1>1, <2>1, StepOfSession DEF Over
  <2> QED BY <1>4, <2>3, <2>4 DEF SessionInv
<1>7. CASE caller # "load"
  <2>1. PICK c \in {NUL, EMITS - left.emits + 1} :
          /\ text' = Append(text, c)
          /\ output_buffer' = [output_buffer EXCEPT ![out.at] = c]
    BY <1>1, <1>2, <1>7 DEF Emit, BufferOf
  <2>2. c \in (1..EMITS) \cup {NUL} /\ c \in Int
    <3>1. left.emits > 0 /\ EMITS \in Nat
      BY <1>1, ConstantsOK
    <3>2. EMITS - left.emits + 1 \in 1..EMITS
      BY <1>3, <3>1
    <3> QED BY <2>1, <3>2, ConstantsOK
  <2>3. HoldsRest /\ text \in Seq(Int) /\ output_buffer \in [0..(SIZE - 1) -> Int]
    BY <1>1, <1>3, <1>7 DEF SessionInv, OutputInv, IsOutput
  <2>4. out.at < SIZE - 1 /\ SIZE \in Nat
    BY <1>2, <1>7, ConstantsOK DEF LimitOf
  <2>5. /\ text' \in Seq(Int) /\ Len(text') = Len(text) + 1 /\ text'[Len(text) + 1] = c
        /\ \A i \in 1..Len(text) : text'[i] = text[i]
    BY <2>1, <2>2, <2>3, AppendProperties
  <2>6. IsOutput'
    <3>1. output_buffer' \in [0..(SIZE - 1) -> Int]
      BY <2>1, <2>2, <2>3
    <3>2. left'.emits <= EMITS
      BY <1>3, <1>5, ConstantsOK
    <3> QED BY <1>1, <1>3, <1>5, <2>5, <3>1, <3>2 DEF IsOutput
  <2>7. HoldsRest'
    <3>1. out.at = Len(text) /\ rest' # lines'
      BY <1>1, <2>3 DEF HoldsRest
    <3>2. ASSUME NEW i \in 0..(SIZE - 1), i < out.at + 1 PROVE output_buffer'[i] = text'[i + 1]
      <4>1. CASE i = out.at
        BY <2>1, <2>3, <2>5, <3>1, <4>1
      <4>2. CASE i # out.at
        <5>1. i < out.at /\ i + 1 \in 1..Len(text)
          BY <1>2, <3>1, <3>2, <4>2, ConstantsOK
        <5>2. output_buffer[i] = text[i + 1] /\ output_buffer'[i] = output_buffer[i]
          BY <2>1, <2>3, <4>2, <5>1 DEF HoldsRest
        <5> QED BY <2>5, <5>1, <5>2
      <4> QED BY <4>1, <4>2
    <3> QED BY <1>2, <2>5, <3>1, <3>2 DEF HoldsRest
  <2>8. OutputInv'
    BY <1>1, <1>2, <1>7, <2>6, <2>7 DEF OutputInv, InStarter
  <2>9. [Promised!Next]_Promised!vars
    BY <1>1, <2>1, <2>2, <2>3, StepOfSession DEF Over, HoldsRest
  <2> QED BY <1>4, <2>8, <2>9 DEF SessionInv
<1> QED BY <1>6, <1>7

LEMMA ReturnsStep ==
  ASSUME BufferInv, SessionInv, NEW r, Returns(r), pc \in {"forth", "full"},
         UNCHANGED left \/ (left.pauses > 0 /\ left' = [left EXCEPT !.pauses = @ - 1])
  PROVE  SessionInv' /\ [Promised!Next]_Promised!vars
<1>1. /\ pc' = caller /\ UNCHANGED <<caller, out, printed, text>>
      /\ UNCHANGED <<lines, rest, currFile, file, buffer_flushed>>
  BY DEF Returns, session
<1>2. /\ IsOut /\ caller \in {"switch", "load", "tested"} /\ out.buf = BufferOf(caller)
      /\ out.at \in Nat /\ out.at <= out.max /\ out.max = LimitOf(caller)
      /\ caller = "switch" => ~buffer_flushed
  BY DEF BufferInv, IsOut, Running, Room
<1>3. IsOutput
  BY DEF SessionInv, OutputInv
<1>4. InputInv'
  BY <1>1, <1>2, InputStays DEF SessionInv, InFiles, InStarter, InTest
<1>5. left' \in [emits : Nat, pauses : Nat] /\ left'.emits = left.emits
  BY <1>3 DEF IsOutput
<1>6. ~Over /\ ~Over'
  BY <1>1, <1>2 DEF Over
<1>7. [Promised!Next]_Promised!vars
  BY <1>1, <1>6, StepOfSession
<1>8. CASE caller = "load"
  <2>1. UNCHANGED output_buffer /\ InStarter
    BY <1>8 DEF Returns, InStarter
  <2>2. IsOutput'
    BY <1>1, <1>3, <1>5, <2>1 DEF IsOutput
  <2>3. OutputInv'
    BY <1>1, <1>8, <2>1, <2>2 DEF SessionInv, OutputInv, Untouched, InStarter
  <2> QED BY <1>4, <1>7, <2>3 DEF SessionInv
<1>9. CASE caller # "load"
  <2>1. output_buffer' = [output_buffer EXCEPT ![out.at] = NUL]
    BY <1>9 DEF Returns
  <2>2. HoldsRest
    BY <1>9 DEF SessionInv, OutputInv
  <2>3. out.at \in 0..(SIZE - 1)
    BY <1>2, <1>9, ConstantsOK DEF LimitOf
  <2>4. IsOutput'
    <3>1. output_buffer' \in [0..(SIZE - 1) -> Int]
      <4>1. output_buffer \in [0..(SIZE - 1) -> Int] /\ NUL \in Int
        BY <1>3, ConstantsOK DEF IsOutput
      <4> QED BY <2>1, <4>1
    <3> QED BY <1>1, <1>3, <1>5, <3>1 DEF IsOutput
  <2>5. output_buffer'[out.at] = NUL /\ \A i \in 0..(SIZE - 1) :
          i < out.at => output_buffer'[i] = output_buffer[i]
    BY <1>2, <1>3, <2>1, <2>3 DEF IsOutput
  <2>6. HoldsRest'
    BY <1>1, <2>2, <2>5 DEF HoldsRest
  <2>7. Pending'
    BY <1>1, <1>2, <1>9, <2>3, <2>5, <2>6 DEF Pending, BufferOf
  <2>8. OutputInv'
    BY <1>1, <1>2, <1>9, <2>4, <2>6, <2>7 DEF OutputInv, InStarter
  <2> QED BY <1>4, <1>7, <2>8 DEF SessionInv
<1> QED BY <1>8, <1>9

LEMMA InterpreterStep ==
  ASSUME BufferInv, SessionInv, Interpreter
  PROVE  SessionInv' /\ [Promised!Next]_Promised!vars
<1>1. CASE BufferFull
  BY <1>1, ReturnsStep DEF BufferFull
<1>2. CASE LineEnds
  BY <1>2, ReturnsStep DEF LineEnds
<1>3. CASE PauseWithCode
  BY <1>3, ReturnsStep DEF PauseWithCode
<1> QED BY <1>1, <1>2, <1>3, EmitStep DEF Interpreter

\* A buffer that begins anew, when everything has been shown.
LEMMA BeginsEmpty ==
  ASSUME text' = <<>>, out' = Whole("output_buffer"), rest' # lines'
  PROVE  HoldsRest'
<1>1. out'.at = 0 /\ Len(text') = 0
  BY DEF Whole
<1>2. \A i \in 0..(SIZE - 1) : ~(i < 0)
  BY ConstantsOK
<1> QED BY <1>1, <1>2 DEF HoldsRest

LEMMA LineRead ==
  ASSUME IsInput, NEW i \in 1..argc, rest[i] > 0, rest' = [rest EXCEPT ![i] = @ - 1],
         UNCHANGED <<lines, currFile, file>>
  PROVE  IsInput' /\ rest' # lines'
<1>1. argc' = argc /\ rest \in [1..argc -> Nat \cup {MISSING}] /\ lines[i] \in Int
  BY ConstantsOK DEF IsInput, argc
<1>2. rest[i] - 1 \in Nat
  BY <1>1, ConstantsOK
<1>3. rest' \in [1..argc -> Nat \cup {MISSING}]
  BY <1>1, <1>2
<1>4. \A j \in 1..argc : rest'[j] <= lines[j]
  <2> SUFFICES ASSUME NEW j \in 1..argc PROVE rest'[j] <= lines[j]
    OBVIOUS
  <2>1. rest[j] <= lines[j] /\ lines[j] \in Int /\ rest[j] \in Int
    BY ConstantsOK DEF IsInput, argc
  <2>2. rest'[j] = IF j = i THEN rest[i] - 1 ELSE rest[j]
    BY <1>1
  <2> QED BY <2>1, <2>2
<1>5. rest'[i] # lines'[i]
  <2>1. rest'[i] = rest[i] - 1 /\ rest[i] <= lines[i] /\ rest[i] \in Int /\ lines' = lines
    BY <1>1, ConstantsOK DEF IsInput
  <2> QED BY <1>1, <2>1
<1> QED BY <1>1, <1>3, <1>4, <1>5 DEF IsInput

\* The next file; after the last there is nothing to run and nothing to show.
LEMMA NextFileStep ==
  ASSUME BufferInv, SessionInv, NextFile
  PROVE  SessionInv' /\ [Promised!Next]_Promised!vars
<1>1. /\ pc = "fgets" /\ ~LineThere /\ currFile' = currFile + 1
      /\ file' = IF currFile' < argc /\ lines[currFile'] = MISSING THEN 0
                 ELSE IF currFile' <= argc THEN currFile' ELSE file
      /\ pc' = IF currFile' > argc THEN "ended" ELSE "switch"
      /\ UNCHANGED <<lines, rest, buffer_flushed, out, output_buffer, printed, text, left>>
  BY DEF NextFile, output
<1>2. IsInput /\ IsOutput /\ Reading
  BY <1>1 DEF SessionInv, InputInv, OutputInv, InFiles
<1>3. argc' = argc /\ argc \in Nat \ {0} /\ currFile \in 0..argc /\ stdin = argc
  BY <1>1, <1>2 DEF IsInput, Reading, argc, stdin
<1>4. \A i \in 1..argc : i <= currFile => rest[i] <= 0
  <2> SUFFICES ASSUME NEW i \in 1..argc, i <= currFile PROVE rest[i] <= 0
    OBVIOUS
  <2>1. CASE i < currFile \/ file = 0
    BY <1>2, <1>3, <2>1 DEF Reading
  <2>2. CASE i = currFile /\ file # 0
    <3>1. file = currFile /\ ~(rest[file] > 0) /\ rest[file] \in Int
      BY <1>1, <1>2, <1>3, <2>2, ConstantsOK DEF Reading, LineThere, IsInput
    <3> QED BY <2>2, <3>1
  <2> QED BY <1>3, <2>1, <2>2
<1>5. IsOutput'
  BY <1>1, <1>2 DEF IsOutput
<1>6. IsInput'
  BY <1>1, <1>2, <1>3 DEF IsInput, argc
<1>7. CASE currFile = argc
  <2>1. pc' = "ended" /\ ~Over
    BY <1>1, <1>3, <1>7 DEF Over
  <2>2. ToRun = {}
    BY <1>2, <1>3, <1>4, <1>7, NothingToRun
  <2>3. file = stdin /\ text = <<>>
    BY <1>1, <1>2, <1>3, <1>7 DEF Reading, SessionInv, OutputInv
  <2>4. printed' = printed \o Promised!Cut(text) /\ text' = <<>>
    <3>1. printed \o Promised!Cut(<<>>) = printed
      BY <1>2, CutOfNothing DEF IsOutput
    <3> QED BY <1>1, <2>3, <3>1
  <2>5. InputInv' /\ OutputInv'
    BY <1>5, <1>6, <2>1 DEF InputInv, OutputInv, InFiles, InStarter, InTest
  <2>6. Promised!Next
    BY <1>1, <2>1, <2>2, <2>4, StepEnds
  <2> QED BY <2>5, <2>6 DEF SessionInv
<1>8. CASE currFile < argc
  <2>1. pc' = "switch" /\ ~Over /\ ~Over' /\ currFile' <= argc
    BY <1>1, <1>3, <1>8 DEF Over
  <2>2. /\ file' \in {0, currFile'}
        /\ currFile' = argc => file' = argc
        /\ file' = 0 => rest[currFile'] <= 0
    <3>1. currFile' \in 1..argc /\ rest[currFile'] <= lines[currFile']
      BY <1>1, <1>2, <1>3, <1>8 DEF IsInput
    <3>2. rest[currFile'] \in Int /\ (lines[currFile'] = -1 => rest[currFile'] <= 0)
      BY <1>2, <3>1, ConstantsOK DEF IsInput
    <3>3. file' = IF currFile' < argc /\ lines[currFile'] = -1 THEN 0 ELSE currFile'
      BY <1>1, <2>1, ConstantsOK
    <3> QED BY <1>3, <2>1, <3>1, <3>2, <3>3
  <2>3. Reading'
    <3>1. \A i \in 1..argc : i < currFile' => rest[i] <= 0
      BY <1>1, <1>3, <1>4
    <3> QED BY <1>1, <1>3, <2>1, <2>2, <3>1 DEF Reading
  <2>4. InputInv'
    BY <1>6, <2>1, <2>3 DEF InputInv, InFiles, InStarter, InTest
  <2>5. file # stdin
    <3>1. file = currFile \/ file = 0
      BY <1>2 DEF Reading
    <3> QED BY <1>3, <1>8, <3>1
  <2>6. IF buffer_flushed' THEN Untouched' /\ rest' = lines' ELSE Pending'
    BY <1>1, <2>5 DEF SessionInv, OutputInv, Untouched, Pending, HoldsRest
  <2>7. OutputInv'
    BY <1>5, <2>1, <2>6 DEF OutputInv, InStarter
  <2>8. [Promised!Next]_Promised!vars
    BY <1>1, <2>1, StepOfSession
  <2> QED BY <2>4, <2>7, <2>8 DEF SessionInv
<1> QED BY <1>3, <1>7, <1>8

LEMMA ExecuteStep ==
  ASSUME BufferInv, SessionInv, executeForth
  PROVE  SessionInv' /\ [Promised!Next]_Promised!vars
<1>1. IsOut /\ Between /\ IsInput /\ IsOutput
  BY DEF BufferInv, SessionInv, InputInv, OutputInv
<1>2. YIELD # INPUT_DONE /\ YIELD # OUTPUT_FLUSH /\ INPUT_DONE # OUTPUT_FLUSH
  BY DEF YIELD, INPUT_DONE, OUTPUT_FLUSH
<1>3. ASSUME UNCHANGED <<output_buffer, left>>, text' = text \/ text' = <<>>,
             printed' = printed \/ printed' \in Seq(Int)
      PROVE  IsOutput'
  <2>1. <<>> \in Seq(Int)
    OBVIOUS
  <2>2. text' \in Seq(Int) /\ printed' \in Seq(Int)
    BY <1>1, <1>3, <2>1, Zenon DEF IsOutput
  <2> QED BY <1>1, <1>3, <2>2 DEF IsOutput
<1>4. CASE Yielded
  <2>1. /\ pc = "switch" /\ pc' = "forth" /\ caller' = "switch" /\ ~buffer_flushed
        /\ UNCHANGED <<lines, rest, currFile, file, out, output_buffer, printed, text, left>>
    BY <1>1, <1>2, <1>4 DEF Yielded, Continue, IntoTheSame, session, Between
  <2>2. InputInv'
    BY <2>1, InputStays DEF SessionInv, InFiles, InStarter, InTest
  <2>3. HoldsRest'
    BY <2>1 DEF SessionInv, OutputInv, Pending, HoldsRest
  <2>4. OutputInv'
    BY <1>3, <2>1, <2>3 DEF OutputInv, InStarter
  <2>5. [Promised!Next]_Promised!vars
    BY <2>1, StepOfSession DEF Over
  <2> QED BY <2>2, <2>4, <2>5 DEF SessionInv
<1>5. CASE Flushed
  <2>1. /\ pc = "switch" /\ pc' = "forth" /\ caller' = "switch" /\ ~buffer_flushed
        /\ PrintBuffer /\ out' = Whole("output_buffer")
        /\ UNCHANGED <<lines, rest, currFile, file, output_buffer, left>>
    BY <1>1, <1>2, <1>5 DEF Flushed, Continue, Into, session, Between
  <2>2. InputInv'
    BY <2>1, InputStays DEF SessionInv, InFiles, InStarter, InTest
  <2>3. Pending
    BY <2>1 DEF SessionInv, OutputInv
  <2>4. printed' = printed \o Promised!Cut(text) /\ printed' \in Seq(Int) /\ text' = <<>>
    BY <1>1, <2>1, <2>3, PrintsRest
  <2>5. HoldsRest'
    <3>1. rest' # lines'
      BY <2>1, <2>3 DEF Pending, HoldsRest
    <3> QED BY <2>1, <2>4, <3>1, BeginsEmpty
  <2>6. OutputInv'
    BY <1>3, <2>1, <2>4, <2>5 DEF OutputInv, InStarter
  <2>7. [Promised!Next]_Promised!vars
    BY <2>1, <2>4, StepOfSession DEF Over
  <2> QED BY <2>2, <2>6, <2>7 DEF SessionInv
<1>6. CASE Failed
  <2>1. /\ pc = "switch" /\ pc' = "failed"
        /\ UNCHANGED <<lines, rest, currFile, file, output_buffer, printed, text, left>>
    BY <1>6 DEF Failed, session, output
  <2>2. InputInv'
    BY <2>1, InputStays DEF SessionInv, InFiles, InStarter, InTest
  <2>3. OutputInv'
    BY <1>3, <2>1 DEF OutputInv, InStarter
  <2>4. Promised!Next
    BY <2>1, StepFails DEF Over
  <2> QED BY <2>2, <2>3, <2>4 DEF SessionInv
<1>7. CASE Prompt
  <2>1. /\ pc = "switch" /\ pc' = "fgets" /\ ~Over /\ ~Over'
        /\ UNCHANGED <<lines, rest, currFile, file, out, output_buffer, left>>
        /\ IF file = stdin THEN PrintBuffer /\ buffer_flushed' = TRUE
           ELSE UNCHANGED <<printed, text, buffer_flushed>>
    BY <1>7 DEF Prompt, Over
  <2>2. InputInv'
    BY <2>1, InputStays DEF SessionInv, InFiles, InStarter, InTest
  <2>3. IF buffer_flushed THEN Untouched /\ rest = lines ELSE Pending
    BY <2>1 DEF SessionInv, OutputInv
  <2>4. file' = stdin' <=> file = stdin
    BY <2>1 DEF stdin, argc
  <2>5. CASE file = stdin
    <3>1. /\ text' = <<>> /\ printed' \in Seq(Int)
          /\ \/ printed' = printed \o Promised!Cut(text)
             \/ rest = lines /\ printed = <<>> /\ text = <<>> /\ printed' \in {printed, <<Noise>>}
      BY <1>1, <2>1, <2>3, <2>5, PrintsRest, PrintsNoise
    <3>2. OutputInv'
      BY <1>3, <2>1, <2>4, <2>5, <3>1 DEF OutputInv, InStarter
    <3>3. [Promised!Next]_Promised!vars
      BY <2>1, <3>1, StepOfSession
    <3> QED BY <2>2, <3>2, <3>3 DEF SessionInv
  <2>6. CASE file # stdin
    <3>1. IF buffer_flushed' THEN Untouched' /\ rest' = lines' ELSE Pending'
      BY <2>1, <2>3, <2>6 DEF Untouched, Pending, HoldsRest
    <3>2. OutputInv'
      BY <1>3, <2>1, <2>4, <2>6, <3>1 DEF OutputInv, InStarter
    <3>3. [Promised!Next]_Promised!vars
      BY <2>1, <2>6, StepOfSession
    <3> QED BY <2>2, <3>2, <3>3 DEF SessionInv
  <2> QED BY <2>5, <2>6
<1>8. CASE GetLine
  <2>1. /\ pc = "fgets" /\ pc' = "forth" /\ caller' = "switch" /\ ~Over /\ ~Over'
        /\ file # 0 /\ rest[file] > 0 /\ rest' = [rest EXCEPT ![file] = @ - 1]
        /\ IF buffer_flushed THEN out' = Whole("output_buffer") ELSE UNCHANGED out
        /\ UNCHANGED <<lines, currFile, file, output_buffer, printed, text, left>>
    BY <1>8 DEF GetLine, LineThere, Continue, Into, IntoTheSame, Over
  <2>2. Reading /\ file = currFile /\ file \in 1..argc
    BY <1>1, <2>1 DEF SessionInv, InputInv, InFiles, Reading, IsInput
  <2>3. \A j \in 1..argc : j < file => rest[j] <= 0
    BY <2>2 DEF Reading
  <2>4. IsInput' /\ rest' # lines'
    BY <1>1, <2>1, <2>2, LineRead
  <2>5. [Promised!Next]_Promised!vars
    BY <1>1, <2>1, <2>2, <2>3, <2>4, TakesLine, StepRunsLine
  <2>6. InputInv'
    <3>1. argc' = argc /\ \A j \in 1..argc : j # file => rest'[j] = rest[j]
      BY <1>1, <2>1, <2>2 DEF IsInput, argc
    <3>2. Reading'
      BY <2>1, <2>2, <3>1 DEF Reading
    <3> QED BY <2>1, <2>4, <3>2 DEF InputInv, InFiles, InStarter, InTest
  <2>7. HoldsRest'
    <3>1. CASE buffer_flushed
      <4>1. text = <<>>
        BY <2>1, <3>1 DEF SessionInv, OutputInv, Untouched
      <4> QED BY <2>1, <2>4, <3>1, <4>1, BeginsEmpty
    <3>2. CASE ~buffer_flushed
      <4>1. Pending
        BY <2>1, <3>2 DEF SessionInv, OutputInv
      <4> QED BY <2>1, <2>4, <3>2, <4>1 DEF Pending, HoldsRest
    <3> QED BY <3>1, <3>2
  <2>8. OutputInv'
    BY <1>3, <2>1, <2>7 DEF OutputInv, InStarter
  <2> QED BY <2>5, <2>6, <2>8 DEF SessionInv
<1>9. CASE NextFile
  BY <1>9, NextFileStep
<1> QED BY <1>4, <1>5, <1>6, <1>7, <1>8, <1>9 DEF executeForth

LEMMA StarterStep ==
  ASSUME BufferInv, SessionInv, test2and4
  PROVE  SessionInv' /\ [Promised!Next]_Promised!vars
<1>1. IsInput /\ IsOutput /\ IsOut
  BY DEF BufferInv, SessionInv, InputInv, OutputInv
<1>2. ASSUME UNCHANGED <<output_buffer, left>>, text' = text \/ text' = <<>>,
             printed' = printed \/ printed' \in Seq(Int)
      PROVE  IsOutput'
  <2>1. <<>> \in Seq(Int)
    OBVIOUS
  <2>2. text' \in Seq(Int) /\ printed' \in Seq(Int)
    BY <1>1, <1>2, <2>1, Zenon DEF IsOutput
  <2> QED BY <1>1, <1>2, <2>2 DEF IsOutput
<1>3. ASSUME UNCHANGED <<output_buffer, printed, text>>, InStarter \/ pc = "test" PROVE Untouched'
  BY <1>3 DEF SessionInv, OutputInv, Untouched
<1>4. ASSUME ~Over, pc' = "failed", UNCHANGED <<session, output_buffer, printed, text, left>>
      PROVE  SessionInv' /\ [Promised!Next]_Promised!vars
  <2>1. InputInv'
    BY <1>4, InputStays DEF SessionInv, InFiles, InStarter, InTest, session
  <2>2. OutputInv'
    BY <1>2, <1>4 DEF OutputInv, InStarter
  <2> QED BY <1>4, <2>1, <2>2, StepFails DEF SessionInv, session
<1>5. CASE LoadFindsNoFile
  BY <1>4, <1>5 DEF LoadFindsNoFile, Exit, Over
<1>6. CASE LoadFails
  BY <1>4, <1>6 DEF LoadFails, Exit, Over
\* The steps that only go on within the starter.
<1>7. ASSUME ~Over, ~Over', InStarter, InStarter' \/ (pc' = "test" /\ rest[1] = 0),
             ~InFiles', ~InTest', pc' \notin {"full"}, pc' = "forth" => caller' = "load",
             UNCHANGED <<session, output_buffer, printed, text, left>>
      PROVE  SessionInv' /\ [Promised!Next]_Promised!vars
  <2>1. InputInv'
    <3>1. pc' = "test" => ~InStarter'
      BY DEF InStarter
    <3> QED BY <1>7, <3>1, InputStays DEF SessionInv, session
  <2>2. OutputInv'
    BY <1>2, <1>3, <1>7 DEF OutputInv, InStarter, InFiles, InTest
  <2>3. [Promised!Next]_Promised!vars
    BY <1>7, StepOfSession DEF session
  <2> QED BY <2>1, <2>2, <2>3 DEF SessionInv
<1>8. CASE LoadOpens
  BY <1>7, <1>8 DEF LoadOpens, Over, InFiles, InStarter, InTest
<1>9. CASE LoadFlushes
  BY <1>7, <1>9 DEF LoadFlushes, Continue, Over, InFiles, InStarter, InTest
<1>10. CASE LoadEnds
  BY <1>7, <1>10 DEF LoadEnds, Over, InFiles, InStarter, InTest
<1>11. CASE LoadGetsLine
  <2>1. /\ pc = "load" /\ pc' = "forth" /\ caller' = "load" /\ ~Over /\ ~Over'
        /\ rest[1] > 0 /\ rest' = [rest EXCEPT ![1] = @ - 1]
        /\ UNCHANGED <<lines, currFile, file, output_buffer, printed, text, left>>
    BY <1>11 DEF LoadGetsLine, Continue, Over
  <2>2. InStarter /\ argc = 2 /\ rest[2] = 1 /\ 1 \in 1..argc
    BY <2>1 DEF SessionInv, InputInv, InStarter
  <2>3. IsInput' /\ rest' # lines'
    BY <1>1, <2>1, <2>2, LineRead
  <2>4. [Promised!Next]_Promised!vars
    BY <1>1, <2>1, <2>2, <2>3, TakesLine, StepRunsLine
  <2>5. argc' = 2 /\ rest'[2] = 1
    BY <1>1, <2>1, <2>2 DEF IsInput, argc
  <2>6. InputInv'
    BY <2>1, <2>3, <2>5 DEF InputInv, InFiles, InStarter, InTest
  <2>7. OutputInv'
    BY <1>2, <1>3, <2>1, <2>2 DEF OutputInv, InStarter
  <2> QED BY <2>4, <2>6, <2>7 DEF SessionInv
<1>12. CASE TestRuns
  <2>1. /\ pc = "test" /\ pc' = "forth" /\ caller' = "tested" /\ ~Over /\ ~Over'
        /\ rest' = [rest EXCEPT ![2] = @ - 1] /\ out' = Whole("output_buffer")
        /\ UNCHANGED <<lines, currFile, file, output_buffer, printed, text, left>>
    BY <1>12 DEF TestRuns, Continue, Into, Over
  <2>2. argc = 2 /\ rest[2] > 0 /\ rest[2] = 1 /\ rest[1] = 0 /\ 2 \in 1..argc
    BY <2>1 DEF SessionInv, InputInv
  <2>3. IsInput' /\ rest' # lines'
    BY <1>1, <2>1, <2>2, LineRead
  <2>4. [Promised!Next]_Promised!vars
    <3>1. \A j \in 1..argc : j < 2 => rest[j] <= 0
      BY <2>2
    <3> QED BY <1>1, <2>1, <2>2, <2>3, <3>1, TakesLine, StepRunsLine
  <2>5. argc' = 2 /\ rest'[2] = 0 /\ rest'[1] = 0
    BY <1>1, <2>1, <2>2 DEF IsInput, argc
  <2>6. InputInv'
    BY <2>1, <2>3, <2>5 DEF InputInv, InFiles, InStarter, InTest
  <2>7. HoldsRest'
    <3>1. text' = <<>>
      BY <2>1 DEF SessionInv, OutputInv, Untouched
    <3> QED BY <2>1, <2>3, <3>1, BeginsEmpty
  <2>8. OutputInv'
    BY <1>2, <2>1, <2>7 DEF OutputInv, InStarter
  <2> QED BY <2>4, <2>6, <2>8 DEF SessionInv
<1>13. CASE TestEnds
  <2>1. /\ pc = "tested" /\ pc' \in {"ended", "failed"} /\ ~Over
        /\ UNCHANGED <<session, output_buffer, left>>
        /\ IF pc' = "ended" THEN PrintBuffer ELSE UNCHANGED <<printed, text>>
    BY <1>13 DEF TestEnds, Exit, Over
  <2>2. CASE pc' = "failed"
    BY <1>4, <2>1, <2>2
  <2>3. CASE pc' = "ended"
    <3>1. Pending /\ InTest /\ argc = 2 /\ rest[1] = 0 /\ rest[2] = 0
      BY <2>1 DEF SessionInv, OutputInv, InputInv, InTest
    <3>2. printed' = printed \o Promised!Cut(text) /\ printed' \in Seq(Int) /\ text' = <<>>
      BY <1>1, <2>1, <2>3, <3>1, PrintsRest
    <3>3. ToRun = {}
      <4>1. \A i \in 1..argc : rest[i] <= 0
        BY <3>1
      <4> QED BY <1>1, <4>1, NothingToRun
    <3>4. Promised!Next
      BY <2>1, <2>3, <3>2, <3>3, StepEnds DEF session
    <3>5. InputInv'
      BY <2>1, <2>3, InputStays DEF SessionInv, InFiles, InStarter, InTest, session
    <3>6. OutputInv'
      BY <1>2, <2>1, <2>3, <3>2 DEF OutputInv, InStarter
    <3> QED BY <3>4, <3>5, <3>6 DEF SessionInv
  <2> QED BY <2>1, <2>2, <2>3
<1> QED
  BY <1>5, <1>6, <1>8, <1>9, <1>10, <1>11, <1>12, <1>13 DEF test2and4

LEMMA InitSession == Init => SessionInv /\ Promised!Init
<1> SUFFICES ASSUME Init PROVE SessionInv /\ Promised!Init
  OBVIOUS
<1>1. /\ text = <<>> /\ printed = <<>> /\ rest = lines /\ currFile = 0 /\ file = 0
      /\ buffer_flushed = TRUE /\ output_buffer = [i \in 0..(SIZE - 1) |-> Noise]
      /\ left = [emits |-> EMITS, pauses |-> PAUSES]
      /\ pc \in {"switch", "load_open"}
  BY DEF Init
<1>2. /\ lines \in Seq(Nat \cup {MISSING}) /\ argc \in Nat \ {0}
      /\ pc = "load_open" => argc = 2 /\ lines[2] = 1
  <2>1. CASE pc = "switch" /\ lines \in CommandLines
    BY <2>1, DriverAssumption DEF argc
  <2>2. CASE pc = "load_open" /\ lines \in Starters
    <3>1. lines \in (Nat \cup {MISSING}) \X {1}
      BY <2>2, DriverAssumption
    <3> DEFINE a == lines[1]  b == lines[2]
    <3>2. lines = <<a, b>> /\ a \in Nat \cup {MISSING} /\ b = 1
      BY <3>1
    <3> HIDE DEF a, b
    <3>3. b \in Nat \cup {MISSING}
      BY <3>2
    <3>4. <<a, b>> \in Seq(Nat \cup {MISSING}) /\ Len(<<a, b>>) = 2 /\ <<a, b>>[2] = 1
      BY <3>2, <3>3
    <3> QED BY <2>2, <3>2, <3>4 DEF argc
  <2> QED BY <2>1, <2>2 DEF Init
<1>3. IsInput
  BY <1>1, <1>2, ConstantsOK DEF IsInput, argc
<1>4. InputInv
  BY <1>1, <1>2, <1>3 DEF InputInv, InFiles, Reading, InStarter, InTest
<1>5. IsOutput
  BY <1>1, ConstantsOK DEF IsOutput
<1>6. Untouched
  BY <1>1, ConstantsOK DEF Untouched
<1>7. OutputInv
  BY <1>1, <1>5, <1>6 DEF OutputInv, InStarter
<1>8. Promised!Init
  BY <1>1, <1>3, LinesAreLines DEF Promised!Init, Over
<1> QED BY <1>4, <1>7, <1>8 DEF SessionInv

LEMMA NextSession ==
  BufferInv /\ SessionInv /\ [Next]_vars => SessionInv' /\ [Promised!Next]_Promised!vars
<1> SUFFICES ASSUME BufferInv, SessionInv, [Next]_vars
             PROVE  SessionInv' /\ [Promised!Next]_Promised!vars
  OBVIOUS
<1>1. CASE UNCHANGED vars
  <2>1. InputInv'
    BY <1>1 DEF vars, session, output, SessionInv, InputInv, IsInput, InFiles, InStarter,
                InTest, Reading, argc
  <2>2. OutputInv'
    BY <1>1 DEF vars, session, output, SessionInv, OutputInv, IsOutput, InStarter,
                Untouched, Pending, HoldsRest, stdin, argc
  <2>3. UNCHANGED Promised!vars
    BY <1>1, SameToRun DEF vars, session, output, Promised!vars, Over
  <2> QED BY <2>1, <2>2, <2>3 DEF SessionInv
<1> QED BY <1>1, InterpreterStep, ExecuteStep, StarterStep DEF Next

\* For any files, buffers of any size and whatever the interpreter emits, zeros
\* too: all lines are run in order, and what they emit is printed once and in
\* order, however it is buffered over lines and files, up to the first zero of
\* each batch, unless the session fails; the unwritten buffer is printed at most
\* once, before the first line (jf_intepret.c:27-80).
THEOREM SessionRefinement == Spec => ImplementsSession
<1>1. Init => BufferInv /\ SessionInv
  BY InitBuffer, InitSession
<1>2. BufferInv /\ SessionInv /\ [Next]_vars => BufferInv' /\ SessionInv'
  BY NextBuffer, NextSession
<1>3. Init => Promised!Init
  BY InitSession
<1>4. BufferInv /\ SessionInv /\ [Next]_vars => [Promised!Next]_Promised!vars
  BY NextSession
<1> QED BY <1>1, <1>2, <1>3, <1>4, PTL DEF Spec, ImplementsSession, Promised!Spec
=============================================================================
