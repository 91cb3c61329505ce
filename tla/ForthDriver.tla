---------------------------- MODULE ForthDriver ----------------------------
(***************************************************************************)
(* The C programs around the Forth interpreter: executeForth, which runs   *)
(* the files of its command line and then the standard input, and          *)
(* load_starter_forth_at_path with test2and4 of paged_forth.c, which loads *)
(* one file and runs one string.  The interpreter, fcontinue, is reduced   *)
(* to its effects: it emits characters and returns with some result.  A    *)
(* file is the number of its lines.                                        *)
(***************************************************************************)
EXTENDS Integers, Sequences

CONSTANTS
  CommandLines,   \* what executeForth may be given: the files of argv and,
                  \* last, the standard input; MISSING is a file that is not there
  Starters,       \* the file that is loaded, and then the string
  SIZE,           \* bytes of an output buffer: 200
  EMITS, PAUSES   \* bounds: characters emitted, and results a line asks for

MISSING == -1

ASSUME DriverAssumption ==
  /\ SIZE \in Nat /\ SIZE > 1
  /\ EMITS \in Nat /\ PAUSES \in Nat
  /\ CommandLines \subseteq Seq(Nat \cup {MISSING}) \ {<<>>}
  /\ Starters \subseteq (Nat \cup {MISSING}) \X {1}

VARIABLES
  pc,               \* where the program is
  fresult,          \* what fcontinue returned
  caller,           \* where it returns to
  lines,            \* the input, file by file
  rest,             \* how many lines of each are not read yet
  currFile, file,   \* file 0 is NULL
  buffer_flushed,
  out,              \* output_current and output_max: buffer, position, limit
  output_buffer,
  printed,          \* history: what has been printed of it
  text,             \* history: what has been emitted to it and not been printed
  left              \* what is left of the bounds

session == <<lines, rest, currFile, file, buffer_flushed>>
output == <<out, output_buffer, printed, text>>
vars == <<pc, fresult, caller, session, output, left>>

YIELD == 1
INPUT_DONE == 2
ERROR == 3
OUTPUT_FLUSH == 4

NUL == 0
Noise == -1       \* a byte that nobody has written

argc == Len(lines)
stdin == argc

Unset == [buf |-> "none", at |-> 0, max |-> 0]
Whole(b) == [buf |-> b, at |-> 0, max |-> SIZE - 1]

Init ==
  /\ \/ pc = "switch" /\ lines \in CommandLines
     \/ pc = "load_open" /\ lines \in Starters
  /\ fresult = INPUT_DONE /\ caller = "nobody"
  /\ rest = lines
  /\ currFile = 0 /\ file = 0 /\ buffer_flushed = TRUE
  /\ out = Unset
  /\ output_buffer = [i \in 0..(SIZE - 1) |-> Noise]
  /\ printed = <<>> /\ text = <<>>
  /\ left = [emits |-> EMITS, pauses |-> PAUSES]

-----------------------------------------------------------------------------
(* fcontinue, reduced to its effects, and f_run around it. *)

\* f_run with an output buffer, or without.
Into(b) == out' = Whole(b)
IntoTheSame == UNCHANGED out

Continue(from) ==
  /\ pc' = "forth"
  /\ caller' = from
  /\ UNCHANGED fresult

\* EMIT of one character: a new one, or a zero, which is stored like any other.
Emit ==
  /\ pc = "forth"
  /\ left.emits > 0
  /\ left' = [left EXCEPT !.emits = @ - 1]
  /\ out' = [out EXCEPT !.at = @ + 1]
  /\ IF out.buf = "output_buffer"
     THEN \E c \in {NUL, EMITS - left.emits + 1} :
            /\ text' = Append(text, c)
            /\ output_buffer' = [output_buffer EXCEPT ![out.at] = c]
     ELSE UNCHANGED <<text, output_buffer>>
  /\ pc' = IF out.at + 1 = out.max THEN "full" ELSE "forth"
  /\ UNCHANGED <<fresult, caller, session, printed>>

\* fcontinue returns; f_run writes a terminator where the next character would go.
Returns(r) ==
  /\ fresult' = r
  /\ pc' = caller
  /\ output_buffer' = IF caller = "load" THEN output_buffer
                      ELSE [output_buffer EXCEPT ![out.at] = NUL]
  /\ UNCHANGED <<caller, session, out, printed, text>>

BufferFull == pc = "full" /\ Returns(OUTPUT_FLUSH) /\ UNCHANGED left

\* At the end of the line, or because it cannot be understood.
LineEnds == pc = "forth" /\ (Returns(INPUT_DONE) \/ Returns(ERROR)) /\ UNCHANGED left

\* The line itself asks for a result, with YIELD, FLUSH or PAUSE_WITH_CODE.
PauseWithCode ==
  /\ pc = "forth"
  /\ left.pauses > 0
  /\ \E r \in {YIELD, INPUT_DONE, OUTPUT_FLUSH, 5} : Returns(r)
  /\ left' = [left EXCEPT !.pauses = @ - 1]

Interpreter == Emit \/ BufferFull \/ LineEnds \/ PauseWithCode

-----------------------------------------------------------------------------
(* executeForth. *)

Text(b, n) == [i \in 1..n |-> b[i - 1]]
Terminator(b) == CHOOSE n \in DOMAIN b : b[n] = NUL /\ \A i \in 0..(n - 1) : b[i] # NUL

\* printf("%s", output_buffer) stops at the first zero, which f_run or the line
\* itself has written; nobody knows what it prints before the first f_run.
PrintBuffer ==
  /\ IF \E n \in DOMAIN output_buffer : output_buffer[n] = NUL
     THEN printed' = printed \o Text(output_buffer, Terminator(output_buffer))
     ELSE printed' \in {printed, printed \o <<Noise>>}
  /\ text' = <<>>

Yielded ==
  /\ pc = "switch" /\ fresult = YIELD
  /\ IntoTheSame
  /\ Continue("switch")
  /\ UNCHANGED <<session, output_buffer, printed, text, left>>

Flushed ==
  /\ pc = "switch" /\ fresult = OUTPUT_FLUSH
  /\ PrintBuffer
  /\ Into("output_buffer")
  /\ Continue("switch")
  /\ UNCHANGED <<session, output_buffer, left>>

\* The message is printed, but not what is in the buffer.
Failed ==
  /\ pc = "switch" /\ fresult \notin {YIELD, INPUT_DONE, OUTPUT_FLUSH}
  /\ pc' = "failed"
  /\ UNCHANGED <<fresult, caller, session, output, left>>

\* The inner loop: before each line of the standard input all output is shown ...
Prompt ==
  /\ pc = "switch" /\ fresult = INPUT_DONE
  /\ IF file = stdin THEN PrintBuffer /\ buffer_flushed' = TRUE
     ELSE UNCHANGED <<printed, text, buffer_flushed>>
  /\ pc' = "fgets"
  /\ UNCHANGED <<fresult, caller, lines, rest, currFile, file, out, output_buffer, left>>

LineThere == file # 0 /\ rest[file] > 0

\* Faulty variant: the buffer begins anew with each line.
GetLineAfresh ==
  /\ pc = "fgets" /\ LineThere
  /\ rest' = [rest EXCEPT ![file] = @ - 1]
  /\ Into("output_buffer")
  /\ buffer_flushed' = FALSE
  /\ Continue("switch")
  /\ UNCHANGED <<lines, currFile, file, output_buffer, printed, text, left>>

\* ... a line is run, and its output follows what is not flushed yet ...
GetLine ==
  /\ pc = "fgets" /\ LineThere
  /\ rest' = [rest EXCEPT ![file] = @ - 1]
  /\ IF buffer_flushed THEN Into("output_buffer") ELSE IntoTheSame
  /\ buffer_flushed' = FALSE
  /\ Continue("switch")
  /\ UNCHANGED <<lines, currFile, file, output_buffer, printed, text, left>>

\* Faulty variant: the same file is tried again if it cannot be opened.
NextFileInsists ==
  /\ pc = "fgets" /\ ~LineThere
  /\ currFile' = IF file = 0 /\ currFile > 0 THEN currFile ELSE currFile + 1
  /\ file' = IF currFile' < argc /\ lines[currFile'] = MISSING THEN 0
             ELSE IF currFile' <= argc THEN currFile' ELSE file
  /\ pc' = IF currFile' > argc THEN "ended" ELSE "switch"
  /\ UNCHANGED <<fresult, caller, lines, rest, buffer_flushed, output, left>>

\* ... and at the end of a file, or if it could not be opened, the next is tried.
NextFile ==
  /\ pc = "fgets" /\ ~LineThere
  /\ currFile' = currFile + 1
  /\ file' = IF currFile' < argc /\ lines[currFile'] = MISSING THEN 0
             ELSE IF currFile' <= argc THEN currFile' ELSE file
  /\ pc' = IF currFile' > argc THEN "ended" ELSE "switch"
  /\ UNCHANGED <<fresult, caller, lines, rest, buffer_flushed, output, left>>

executeForth == Yielded \/ Flushed \/ Failed \/ Prompt \/ GetLine \/ NextFile

-----------------------------------------------------------------------------
(* load_starter_forth_at_path, and test2and4 that calls it. *)

Exit(how) ==
  /\ pc' = how
  /\ UNCHANGED <<fresult, caller, session, output_buffer, left>>

LoadFindsNoFile ==
  /\ pc = "load_open" /\ lines[1] = MISSING
  /\ Exit("failed")
  /\ UNCHANGED <<out, printed, text>>

\* The limit is the end of the buffer: no terminator is written to it.
LoadOpens ==
  /\ pc = "load_open" /\ lines[1] # MISSING
  /\ out' = [buf |-> "load_buffer", at |-> 0, max |-> SIZE]
  /\ pc' = "load"
  /\ UNCHANGED <<fresult, caller, session, output_buffer, printed, text, left>>

LoadGetsLine ==
  /\ pc = "load" /\ fresult = INPUT_DONE /\ rest[1] > 0
  /\ rest' = [rest EXCEPT ![1] = @ - 1]
  /\ IntoTheSame
  /\ Continue("load")
  /\ UNCHANGED <<lines, currFile, file, buffer_flushed, output_buffer, printed, text, left>>

\* Faulty variant: a full buffer is not begun anew.
LoadFlushesNothing ==
  /\ pc = "load" /\ fresult = OUTPUT_FLUSH
  /\ IntoTheSame
  /\ Continue("load")
  /\ UNCHANGED <<session, output_buffer, printed, text, left>>

\* What the file prints is thrown away.
LoadFlushes ==
  /\ pc = "load" /\ fresult = OUTPUT_FLUSH
  /\ out' = [out EXCEPT !.at = 0]
  /\ Continue("load")
  /\ UNCHANGED <<session, output_buffer, printed, text, left>>

LoadFails ==
  /\ pc = "load" /\ fresult \notin {INPUT_DONE, OUTPUT_FLUSH}
  /\ Exit("failed")
  /\ UNCHANGED <<out, printed, text>>

\* The pointers are as before, and the local buffer goes.
LoadEnds ==
  /\ pc = "load" /\ fresult = INPUT_DONE /\ rest[1] = 0
  /\ out' = Unset
  /\ pc' = "test"
  /\ UNCHANGED <<fresult, caller, session, output_buffer, printed, text, left>>

TestRuns ==
  /\ pc = "test"
  /\ rest' = [rest EXCEPT ![2] = @ - 1]
  /\ Into("output_buffer")
  /\ Continue("tested")
  /\ UNCHANGED <<lines, currFile, file, buffer_flushed, output_buffer, printed, text, left>>

\* Only a run that has ended with the string is good.
TestEnds ==
  /\ pc = "tested"
  /\ IF fresult = INPUT_DONE THEN Exit("ended") /\ PrintBuffer
     ELSE Exit("failed") /\ UNCHANGED <<printed, text>>
  /\ UNCHANGED out

test2and4 ==
  \/ LoadFindsNoFile \/ LoadOpens \/ LoadGetsLine \/ LoadFlushes \/ LoadFails
  \/ LoadEnds \/ TestRuns \/ TestEnds

Over == pc \in {"ended", "failed"}

Next ==
  \/ Interpreter \/ executeForth \/ test2and4
  \/ Over /\ UNCHANGED vars

\* fgets waits for the user, who need not type anything.
Waiting == pc = "fgets" /\ file = stdin

\* The program runs, and every line that is run ends in some way.
Spec ==
  Init /\ [][Next]_vars /\ WF_vars(~Waiting /\ (Interpreter \/ executeForth \/ test2and4))

-----------------------------------------------------------------------------
\* The interpreter writes to a buffer that is there, and no character and no
\* terminator lies outside (forth_embed.c:51-57, :68): the only test there is
\* compares for equality with the limit.
InsideBuffer ==
  /\ pc = "forth" => /\ out.buf = IF caller = "load" THEN "load_buffer" ELSE "output_buffer"
                     /\ out.at < out.max
  /\ pc \in {"forth", "full"} => out.at + (IF caller = "load" THEN 0 ELSE 1) <= SIZE

\* The files that are there, then the standard input; or the starter, then the
\* string.
ToRun == UNION {{i} \X ((lines[i] - rest[i] + 1)..lines[i]) : i \in 1..argc}

\* All lines run in order, and all they emit is printed once and in order, also
\* when it is buffered over several lines and files, up to the first zero in what
\* is printed at a time, unless the session fails; a buffer that nobody has
\* written to is printed at most once, before the first line (jf_intepret.c:27-80).
Promised == INSTANCE ForthSession WITH
              Lines <- Nat \X Nat, Characters <- 1..EMITS,
              todo <- ToRun,
              begun <- (rest # lines),
              pending <- text,
              shown <- printed,
              over <- IF Over THEN pc ELSE "no"
ImplementsSession == Promised!Spec

\* Whatever files there are, the program comes to its end or asks the user.
EndsOrAsks == []<>(Over \/ Waiting)
=============================================================================
