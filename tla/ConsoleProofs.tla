---------------------------- MODULE ConsoleProofs ----------------------------
(***************************************************************************)
(* Proofs about the console of JOS, for any size of the screen and of the  *)
(* ring, any keyboard and any sequence of characters and codes.            *)
(***************************************************************************)
EXTENDS Console, SequenceTheorems, TLAPS

-----------------------------------------------------------------------------
(* The screen. *)

\* CRT_SIZE is a number of whole rows.
LEMMA ScreenSize == CRT_COLS \in Nat \ {0} /\ CRT_SIZE \in Nat /\ CRT_SIZE >= CRT_COLS
<1>1. CRT_ROWS \in Nat \ {0} /\ CRT_COLS \in Nat \ {0}
  BY ScreenAssumption
<1>2. CRT_ROWS * CRT_COLS \in Nat /\ CRT_ROWS * CRT_COLS >= CRT_COLS
  BY <1>1, SMT
<1> QED BY <1>1, <1>2 DEF CRT_SIZE

\* A screen whose cursor is before position n.
OnPage(s, n) ==
  /\ DOMAIN s = {"buf", "pos", "gone", "line"}
  /\ s.pos \in 0..(n - 1) /\ DOMAIN s.buf = Cells

LEMMA RowStarts ==
  ASSUME NEW p \in Nat
  PROVE  RowStart(p) \in 0..p
<1>1. CRT_COLS \in Nat \ {0}
  BY ScreenSize
<1>2. p % CRT_COLS \in 0..(CRT_COLS - 1) /\ p % CRT_COLS <= p
  BY <1>1, Z3
<1> QED BY <1>1, <1>2 DEF RowStart

LEMMA SentOnPage ==
  ASSUME NEW s, OnPage(s, CRT_SIZE), NEW c
  PROVE  OnPage(Sent(s, c), CRT_SIZE)
BY DEF OnPage, Sent

\* A character moves the cursor by a row at most.
LEMMA PlacedNear ==
  ASSUME NEW s, OnPage(s, CRT_SIZE), NEW c
  PROVE  OnPage(Placed(s, c), CRT_SIZE + CRT_COLS)
<1>1. CRT_COLS \in Nat \ {0} /\ CRT_SIZE \in Nat /\ CRT_SIZE >= CRT_COLS
  BY ScreenSize
<1>2. s.pos \in 0..(CRT_SIZE - 1) /\ DOMAIN s = {"buf", "pos", "gone", "line"} /\ DOMAIN s.buf = Cells
  BY DEF OnPage
<1> DEFINE t == Placed(s, c)
           down == RowStart(s.pos + CRT_COLS)
           start == RowStart(s.pos)
<1>3. start \in 0..(CRT_SIZE - 1) /\ down \in 0..(CRT_SIZE + CRT_COLS - 1)
  BY <1>1, <1>2, RowStarts
<1>4. t = CASE c = "BS" -> IF s.pos > 0 THEN [s EXCEPT !.pos = @ - 1, !.buf[s.pos - 1] = Blank] ELSE s
            [] c = "NL" -> [s EXCEPT !.pos = down]
            [] c = "CR" -> [s EXCEPT !.pos = start]
            [] OTHER    -> [s EXCEPT !.pos = @ + 1, !.buf[s.pos] = c]
  BY DEF Placed
<1> HIDE DEF t, down, start
<1>5. DOMAIN t = DOMAIN s /\ DOMAIN t.buf = Cells /\ t.pos \in 0..(CRT_SIZE + CRT_COLS - 1)
  <2>1. CASE c = "BS" /\ s.pos > 0
    <3>1. t = [s EXCEPT !.pos = @ - 1, !.buf[s.pos - 1] = Blank]
      BY <1>4, <2>1
    <3>2. DOMAIN t = DOMAIN s /\ DOMAIN t.buf = Cells /\ t.pos = s.pos - 1
      BY <1>2, <3>1
    <3> QED BY <1>1, <1>2, <2>1, <3>2
  <2>2. CASE c = "BS" /\ ~(s.pos > 0)
    <3>1. t = s
      BY <1>4, <2>2
    <3> QED BY <1>1, <1>2, <3>1
  <2>3. CASE c = "NL"
    <3>1. t = [s EXCEPT !.pos = down]
      BY <1>4, <2>3
    <3> QED BY <1>1, <1>2, <1>3, <3>1
  <2>4. CASE c = "CR"
    <3>1. t = [s EXCEPT !.pos = start]
      BY <1>4, <2>4
    <3> QED BY <1>1, <1>2, <1>3, <3>1
  <2>5. CASE c \notin {"BS", "NL", "CR"}
    <3>1. t = [s EXCEPT !.pos = @ + 1, !.buf[s.pos] = c]
      BY <1>4, <2>5
    <3>2. DOMAIN t = DOMAIN s /\ DOMAIN t.buf = Cells /\ t.pos = s.pos + 1
      BY <1>2, <3>1
    <3> QED BY <1>1, <1>2, <3>2
  <2> QED BY <2>1, <2>2, <2>3, <2>4, <2>5
<1> QED BY <1>1, <1>2, <1>5 DEF OnPage, t

\* One row up is then enough.
LEMMA ScrolledOnPage ==
  ASSUME NEW s, OnPage(s, CRT_SIZE + CRT_COLS)
  PROVE  OnPage(Scrolled(s), CRT_SIZE)
<1>1. CRT_COLS \in Nat \ {0} /\ CRT_SIZE \in Nat /\ CRT_SIZE >= CRT_COLS
  BY ScreenSize
<1>2. CASE s.pos < CRT_SIZE
  BY <1>1, <1>2 DEF Scrolled, OnPage
<1>3. CASE s.pos >= CRT_SIZE
  <2> DEFINE b == [i \in Cells |-> IF i + CRT_COLS < CRT_SIZE THEN s.buf[i + CRT_COLS] ELSE Blank]
             g == s.gone \o [i \in 1..CRT_COLS |-> s.buf[i - 1]]
  <2>1. DOMAIN b = Cells
    OBVIOUS
  <2>2. s.pos - CRT_COLS \in 0..(CRT_SIZE - 1) /\ ~(s.pos < CRT_SIZE)
    BY <1>1, <1>3 DEF OnPage
  <2>3. Scrolled(s) = [s EXCEPT !.buf = b, !.pos = s.pos - CRT_COLS, !.gone = g]
    BY <2>2 DEF Scrolled, OnPage
  <2> HIDE DEF b, g
  <2> QED BY <2>1, <2>2, <2>3 DEF OnPage
<1> QED BY <1>1, <1>2, <1>3 DEF OnPage

LEMMA PutOnPage ==
  ASSUME NEW s, OnPage(s, CRT_SIZE), NEW c
  PROVE  OnPage(Put(s, c), CRT_SIZE)
BY SentOnPage, PlacedNear, ScrolledOnPage DEF Put

LEMMA ConsPutcOnPage ==
  ASSUME NEW s, OnPage(s, CRT_SIZE), NEW c
  PROVE  OnPage(ConsPutc(s, c), CRT_SIZE)
<1>1. CASE c # "TAB"
  BY <1>1, PutOnPage DEF ConsPutc
<1>2. CASE c = "TAB"
  <2> DEFINE t == Put(Put(Put(Put(Put(Sent(s, c), Blank), Blank), Blank), Blank), Blank)
  <2>1. OnPage(t, CRT_SIZE)
    BY SentOnPage, PutOnPage
  <2> HIDE DEF t
  <2>2. Scrolled(t) = t
    BY <2>1, ScreenSize DEF Scrolled, OnPage
  <2> QED BY <1>2, <2>1, <2>2 DEF ConsPutc, t
<1> QED BY <1>1, <1>2

-----------------------------------------------------------------------------
(* The ring and the calls. *)

ScreenInv == OnPage(screen, CRT_SIZE)

IInv == ScreenInv /\ TypeOK

\* The loop of a call ends where the call does, or the next one begins.
LEMMA LoopEndsOK ==
  ASSUME TypeOK, at # "idle", NEW next \in {"kbd", "take"}, LoopEnds(next)
  PROVE  at' \in {"idle", "serial", "kbd", "take"} /\ (caller' = "nobody" <=> at' = "idle")
BY DEF TypeOK, LoopEnds

LEMMA StoredOK ==
  ASSUME TypeOK, NEW c, Stored(c)
  PROVE  /\ rpos' \in 0..(CONSBUFSIZE - 1) /\ wpos' \in 0..(CONSBUFSIZE - 1)
<1>1. CONSBUFSIZE \in Nat /\ CONSBUFSIZE > 1
  BY ConsoleAssumption
<1> QED BY <1>1 DEF TypeOK, Stored, cons

LEMMA NextIInv == IInv /\ [Next]_vars => IInv'
<1> SUFFICES ASSUME IInv, [Next]_vars PROVE IInv'
  OBVIOUS
<1>1. CONSBUFSIZE \in Nat /\ CONSBUFSIZE > 1
  BY ConsoleAssumption
<1>2. ScreenInv => CursorInside
  BY DEF ScreenInv, OnPage, CursorInside, Cells
<1>3. ASSUME UNCHANGED screen PROVE ScreenInv' /\ CursorInside'
  <2>1. ScreenInv' = ScreenInv /\ CursorInside' = CursorInside
    BY <1>3 DEF ScreenInv, CursorInside
  <2> QED BY <1>2, <2>1 DEF IInv
<1> USE DEF IInv, TypeOK, cons
<1>4. CASE DeviceStep
  BY <1>3, <1>4 DEF DeviceStep
<1>5. CASE ConsGetc \/ Getchar \/ SerialIntr \/ KbdIntr
  BY <1>3, <1>5 DEF ConsGetc, Getchar, SerialIntr, KbdIntr, Call
<1>6. CASE SerialProcData
  BY <1>3, <1>6, StoredOK DEF SerialProcData
<1>7. CASE SerialDone
  BY <1>3, <1>7, LoopEndsOK DEF SerialDone
<1>8. CASE KbdProcData
  <2> DEFINE c == Decoded(shift, Head(kbd).data).char
  <2>1. Stored(c) /\ UNCHANGED screen /\ UNCHANGED at /\ UNCHANGED caller
    BY <1>8 DEF KbdProcData
  <2> HIDE DEF c
  <2>2. rpos' \in 0..(CONSBUFSIZE - 1) /\ wpos' \in 0..(CONSBUFSIZE - 1)
    BY <2>1, StoredOK
  <2> QED BY <1>3, <2>1, <2>2
<1>9. CASE KbdDone
  BY <1>3, <1>9, LoopEndsOK DEF KbdDone
<1>10. CASE TakeChar
  BY <1>1, <1>3, <1>10 DEF TakeChar
<1>11. CASE NoChar
  BY <1>3, <1>11 DEF NoChar
<1>12. CASE Output
  <2>1. ScreenInv'
    BY <1>12, ConsPutcOnPage DEF Output, Cputchar, ScreenInv
  <2>2. CursorInside'
    BY <2>1 DEF ScreenInv, OnPage, CursorInside, Cells
  <2> QED BY <1>12, <2>1, <2>2 DEF Output, inputvars
<1>13. CASE UNCHANGED vars
  BY <1>3, <1>13 DEF vars, inputvars
<1> QED BY <1>4, <1>5, <1>6, <1>7, <1>8, <1>9, <1>10, <1>11, <1>12, <1>13 DEF Next, Step

\* After any text the cursor is on the screen, in the middle of a tab too, and
\* the positions of the ring are inside it (console.c:163-202, :400-427).
THEOREM ConsoleInside == Spec => []TypeOK
<1>1. Init => IInv
  <2> SUFFICES ASSUME Init PROVE IInv
    OBVIOUS
  <2>1. screen \in [buf : {[i \in Cells |-> "bios"]}, pos : Cursors, gone : {<<>>}, line : {<<>>}]
    BY DEF Init, CgaInit
  <2>2. DOMAIN screen = {"buf", "pos", "gone", "line"} /\ DOMAIN screen.buf = Cells
        /\ screen.pos \in Cells
    BY <2>1, ScreenAssumption
  <2>3. rpos = 0 /\ wpos = 0 /\ at = "idle" /\ caller = "nobody"
    BY DEF Init
  <2> QED BY <2>2, <2>3, ConsoleAssumption
          DEF IInv, ScreenInv, OnPage, TypeOK, CursorInside, Cells
<1>2. IInv => TypeOK
  BY DEF IInv
<1> QED BY <1>1, <1>2, NextIInv, PTL DEF Spec

-----------------------------------------------------------------------------
(* The ring is a queue. *)

Bytes == 0..255

\* Positions in the ring.
LEMMA Around ==
  ASSUME NEW a \in Int, NEW n \in Nat \ {0}
  PROVE  /\ a \in 0..(n - 1) => a % n = a
         /\ a \in n..(n + n - 1) => a % n = a - n
         /\ a \in (1 - n)..(-1) => a % n = a + n
<1>1. a \in 0..(n - 1) => a % n = a
  BY Z3
<1>2. a \in n..(n + n - 1) => a % n = a - n
  BY Z3
<1>3. a \in (1 - n)..(-1) => a % n = a + n
  BY Z3
<1> QED BY <1>1, <1>2, <1>3

\* What every table of the keyboard holds.
LEMMA TableOfBytes ==
  ASSUME NEW first \in Seq(Bytes), NEW others, \A p \in others : p[2] \in Bytes
  PROVE  Table(first, others) \in [Bytes -> Bytes]
<1>1. ASSUME NEW d \in Bytes, d < Len(first) PROVE first[d + 1] \in Bytes
  <2>1. Len(first) \in Nat /\ d + 1 \in 1..Len(first)
    BY <1>1 DEF Bytes
  <2> QED BY <2>1
<1>2. ASSUME NEW d, \E p \in others : p[1] = d
      PROVE  (CHOOSE p \in others : p[1] = d)[2] \in Bytes
  BY <1>2
<1>3. NO \in Bytes
  BY DEF NO, Bytes
<1>4. ASSUME NEW d \in Bytes
      PROVE  (IF d < Len(first) THEN first[d + 1]
              ELSE IF \E p \in others : p[1] = d THEN (CHOOSE p \in others : p[1] = d)[2]
              ELSE NO) \in Bytes
  BY <1>1, <1>2, <1>3
<1> QED BY <1>4 DEF Table, Bytes

LEMMA CharCodes ==
  /\ normalmap \in [Bytes -> Bytes] /\ shiftmap \in [Bytes -> Bytes]
  /\ ctlmap \in [Bytes -> Bytes]
<1>1. \A p \in CursorKeys : p[2] \in Bytes
  BY DEF CursorKeys, Bytes, KEY_DEL
<1>2. /\ \A p \in Keypad : p[2] \in Bytes
      /\ \A p \in CursorKeys \cup {<<151, KEY_HOME>>, <<181, 239>>} : p[2] \in Bytes
  BY <1>1 DEF Keypad, Bytes, KEY_HOME
<1>3. normalkeys \in Seq(Bytes)
  BY DEF normalkeys, Bytes, NO
<1>4. shiftkeys \in Seq(Bytes)
  BY DEF shiftkeys, Bytes, NO
<1>5. ctlkeys \in Seq(Bytes)
  BY DEF ctlkeys, Bytes, NO
<1> QED BY <1>2, <1>3, <1>4, <1>5, TableOfBytes DEF normalmap, shiftmap, ctlmap

\* Whatever was pressed before, a code is decoded to a byte, or to nothing.
LEMMA DecodedByte ==
  ASSUME NEW s, NEW data \in Bytes
  PROVE  Decoded(s, data).char \in Bytes
<1>1. ASSUME NEW t, NEW c \in Bytes PROVE Meaning(t, c).char = c
  BY DEF Meaning
<1>2. NO \in Bytes
  BY DEF NO, Bytes
<1>3. CASE data = 224
  BY <1>1, <1>2, <1>3 DEF Decoded
<1>4. CASE data # 224 /\ data >= 128
  BY <1>1, <1>2, <1>4 DEF Decoded, Released
<1>5. CASE data < 128
  <2> DEFINE d == IF "E0ESC" \in s THEN data + 128 ELSE data
             on == Toggled((s \ {"E0ESC"}) \cup shiftcode(d), d)
             c == charcode(on)[d]
  <2>1. d \in Bytes
    BY <1>5 DEF Bytes
  <2> HIDE DEF d
  <2>2. charcode(on) \in [Bytes -> Bytes]
    BY CharCodes DEF charcode
  <2> HIDE DEF on
  <2>3. c \in Bytes
    BY <2>1, <2>2
  <2> HIDE DEF c
  <2>4. (IF "CAPSLOCK" \in on THEN SwapCase(c) ELSE c) \in Bytes
    BY <2>3 DEF SwapCase, Bytes
  <2>5. Decoded(s, data) = Meaning(on, IF "CAPSLOCK" \in on THEN SwapCase(c) ELSE c)
    BY <1>5 DEF Decoded, Pressed, c, on, d, Bytes
  <2> QED BY <1>1, <2>4, <2>5
<1> QED BY <1>3, <1>4, <1>5 DEF Bytes

\* The ring holds bytes, and the devices bring bytes.
Datum == [data : Bytes, mouse : BOOLEAN, meant : Int]

RingInv ==
  /\ rpos \in 0..(CONSBUFSIZE - 1) /\ wpos \in 0..(CONSBUFSIZE - 1)
  /\ DOMAIN buf = 0..(CONSBUFSIZE - 1)
  /\ kbd \in Seq(Datum) /\ com \in Seq(Bytes)

WaitingQueue == [i \in 1..Waiting |-> buf[(rpos + i - 1) % CONSBUFSIZE]]

\* How many are waiting, and where.
LEMMA Ring ==
  ASSUME RingInv
  PROVE  /\ CONSBUFSIZE \in Nat /\ CONSBUFSIZE > 1
         /\ Waiting \in 0..(CONSBUFSIZE - 1)
         /\ Waiting = IF wpos >= rpos THEN wpos - rpos ELSE wpos - rpos + CONSBUFSIZE
         /\ \A i \in 1..CONSBUFSIZE :
              (rpos + i - 1) % CONSBUFSIZE =
                IF rpos + i - 1 < CONSBUFSIZE THEN rpos + i - 1 ELSE (rpos + i - 1) - CONSBUFSIZE
<1>1. CONSBUFSIZE \in Nat /\ CONSBUFSIZE > 1
  BY ConsoleAssumption
<1>2. Waiting = IF wpos >= rpos THEN wpos - rpos ELSE wpos - rpos + CONSBUFSIZE
  <2> DEFINE a == wpos - rpos
  <2>1. a \in Int /\ CONSBUFSIZE \in Nat \ {0}
        /\ (wpos >= rpos => a \in 0..(CONSBUFSIZE - 1))
        /\ (wpos < rpos => a \in (1 - CONSBUFSIZE)..(-1))
    BY <1>1 DEF RingInv
  <2> HIDE DEF a
  <2>2. /\ wpos >= rpos => a % CONSBUFSIZE = a
        /\ wpos < rpos => a % CONSBUFSIZE = a + CONSBUFSIZE
    BY <2>1, Around
  <2> QED BY <1>1, <2>2 DEF Waiting, a, RingInv
<1>3. ASSUME NEW i \in 1..CONSBUFSIZE
      PROVE  (rpos + i - 1) % CONSBUFSIZE =
               IF rpos + i - 1 < CONSBUFSIZE THEN rpos + i - 1 ELSE (rpos + i - 1) - CONSBUFSIZE
  <2> DEFINE a == rpos + i - 1
  <2>1. a \in Int /\ CONSBUFSIZE \in Nat \ {0}
        /\ (a < CONSBUFSIZE => a \in 0..(CONSBUFSIZE - 1))
        /\ (a >= CONSBUFSIZE => a \in CONSBUFSIZE..(CONSBUFSIZE + CONSBUFSIZE - 1))
    BY <1>1 DEF RingInv
  <2> HIDE DEF a
  <2>2. a % CONSBUFSIZE = IF a < CONSBUFSIZE THEN a ELSE a - CONSBUFSIZE
    BY <1>1, <2>1, Around
  <2> QED BY <2>2 DEF a
<1> QED BY <1>1, <1>2, <1>3 DEF RingInv

\* Sequences that are given element by element.
LEMMA Sequences1 ==
  ASSUME NEW n \in Nat, NEW f, f = [i \in 1..n |-> f[i]]
  PROVE  /\ Len(f) = n
         /\ \A c : Append(f, c) = [i \in 1..(n + 1) |-> IF i = n + 1 THEN c ELSE f[i]]
         /\ n = 0 => f = <<>>
         /\ n > 0 => /\ f # <<>> /\ Head(f) = f[1]
                     /\ Tail(f) = [i \in 1..(n - 1) |-> f[i + 1]]
<1> DEFINE S == {f[i] : i \in 1..n}
<1>1. f \in Seq(S)
  OBVIOUS
<1>2. Len(f) = n
  BY <1>1
<1>3. ASSUME NEW c PROVE Append(f, c) = [i \in 1..(n + 1) |-> IF i = n + 1 THEN c ELSE f[i]]
  <2>1. f \in Seq(S \cup {c})
    OBVIOUS
  <2> HIDE DEF S
  <2> QED BY <1>2, <2>1
<1>4. n = 0 => f = <<>>
  OBVIOUS
<1>5. n > 0 => /\ f # <<>> /\ Head(f) = f[1]
               /\ Tail(f) = [i \in 1..(n - 1) |-> f[i + 1]]
  <2> HIDE DEF S
  <2> QED BY <1>1, <1>2
<1> QED BY <1>2, <1>3, <1>4, <1>5

\* A character is stored: it is the last that waits, or the ring is empty again.
LEMMA StoredInQueue ==
  ASSUME RingInv, NEW c, c # 0, Stored(c)
  PROVE  /\ DOMAIN buf' = DOMAIN buf
         /\ WaitingQueue' = IF Len(WaitingQueue) + 1 < CONSBUFSIZE
                            THEN Append(WaitingQueue, c) ELSE <<>>
<1> DEFINE N == CONSBUFSIZE
           At(i) == IF rpos + i - 1 < N THEN rpos + i - 1 ELSE (rpos + i - 1) - N
<1>1. /\ N \in Nat /\ N > 1 /\ Waiting \in 0..(N - 1)
      /\ Waiting = IF wpos >= rpos THEN wpos - rpos ELSE wpos - rpos + N
      /\ \A i \in 1..N : (rpos + i - 1) % N = At(i)
  BY Ring
<1>2. /\ rpos \in 0..(N - 1) /\ wpos \in 0..(N - 1) /\ DOMAIN buf = 0..(N - 1)
  BY DEF RingInv
<1>3. /\ buf' = [buf EXCEPT ![wpos] = c] /\ rpos' = rpos
      /\ wpos' = IF wpos + 1 = N THEN 0 ELSE wpos + 1
  BY DEF Stored
<1>4. DOMAIN buf' = DOMAIN buf
  BY <1>3
<1>5. wpos' \in 0..(N - 1)
  BY <1>1, <1>2, <1>3
<1>6. Waiting' = IF Waiting + 1 < N THEN Waiting + 1 ELSE 0
  <2> DEFINE a == wpos' - rpos'
  <2>1. /\ a \in Int
        /\ (wpos' >= rpos' => a \in 0..(N - 1))
        /\ (wpos' < rpos' => a \in (1 - N)..(-1))
    BY <1>1, <1>2, <1>3, <1>5
  <2> HIDE DEF a
  <2>2. N \in Nat \ {0}
    BY <1>1
  <2>3. /\ wpos' >= rpos' => a % N = a
        /\ wpos' < rpos' => a % N = a + N
    BY <1>1, <2>1, <2>2, Around
  <2>4. Waiting' = a % N
    BY DEF Waiting, a
  <2> QED BY <1>1, <1>2, <1>3, <2>3, <2>4 DEF a
<1>7. WaitingQueue = [i \in 1..Waiting |-> WaitingQueue[i]]
  BY DEF WaitingQueue
<1>8. Len(WaitingQueue) = Waiting
  BY <1>1, <1>7, Sequences1
<1>9. CASE Waiting + 1 < N
  <2>1. Append(WaitingQueue, c) = [i \in 1..(Waiting + 1) |-> IF i = Waiting + 1 THEN c ELSE WaitingQueue[i]]
    BY <1>1, <1>7, Sequences1
  <2>2. WaitingQueue' = [i \in 1..(Waiting + 1) |-> buf'[(rpos + i - 1) % N]]
    BY <1>3, <1>6, <1>9 DEF WaitingQueue
  <2>3. ASSUME NEW i \in 1..(Waiting + 1)
        PROVE  buf'[(rpos + i - 1) % N] = IF i = Waiting + 1 THEN c ELSE WaitingQueue[i]
    <3>1. (rpos + i - 1) % N = At(i) /\ At(i) \in 0..(N - 1)
      BY <1>1, <1>2, <1>9
    <3>2. i = Waiting + 1 <=> At(i) = wpos
      BY <1>1, <1>2, <1>9
    <3>3. buf'[At(i)] = IF i = Waiting + 1 THEN c ELSE buf[At(i)]
      BY <1>2, <1>3, <3>1, <3>2
    <3>4. i # Waiting + 1 => WaitingQueue[i] = buf[At(i)]
      <4>1. i # Waiting + 1 => i \in 1..Waiting
        BY <1>1
      <4> QED BY <3>1, <4>1 DEF WaitingQueue
    <3> HIDE DEF At
    <3> QED BY <3>1, <3>3, <3>4
  <2>4. WaitingQueue' = Append(WaitingQueue, c)
    BY <2>1, <2>2, <2>3, Zenon
  <2> QED BY <1>4, <1>8, <1>9, <2>4
<1>10. CASE ~(Waiting + 1 < N)
  <2>1. WaitingQueue' = [i \in 1..0 |-> buf'[(rpos + i - 1) % N]]
    BY <1>3, <1>6, <1>10 DEF WaitingQueue
  <2>2. WaitingQueue' = <<>>
    BY <2>1
  <2> QED BY <1>4, <1>8, <1>10, <2>2
<1> QED BY <1>4, <1>9, <1>10

\* The first that waits is taken.
LEMMA TakenFromQueue ==
  ASSUME RingInv, rpos # wpos, UNCHANGED <<buf, wpos>>,
         rpos' = IF rpos + 1 = CONSBUFSIZE THEN 0 ELSE rpos + 1
  PROVE  WaitingQueue # <<>> /\ Head(WaitingQueue) = buf[rpos] /\ WaitingQueue' = Tail(WaitingQueue)
<1> DEFINE N == CONSBUFSIZE
           At(i) == IF rpos + i - 1 < N THEN rpos + i - 1 ELSE (rpos + i - 1) - N
<1>1. /\ N \in Nat /\ N > 1 /\ Waiting \in 0..(N - 1)
      /\ Waiting = IF wpos >= rpos THEN wpos - rpos ELSE wpos - rpos + N
      /\ \A i \in 1..N : (rpos + i - 1) % N = At(i)
  BY Ring
<1>2. /\ rpos \in 0..(N - 1) /\ wpos \in 0..(N - 1) /\ rpos' \in 0..(N - 1)
  BY <1>1 DEF RingInv
<1>3. Waiting > 0
  BY <1>1, <1>2
<1>4. Waiting' = Waiting - 1
  <2> DEFINE a == wpos' - rpos'
  <2>1. /\ a \in Int
        /\ (wpos' >= rpos' => a \in 0..(N - 1))
        /\ (wpos' < rpos' => a \in (1 - N)..(-1))
    BY <1>1, <1>2
  <2> HIDE DEF a
  <2>2. N \in Nat \ {0}
    BY <1>1
  <2>3. /\ wpos' >= rpos' => a % N = a
        /\ wpos' < rpos' => a % N = a + N
    BY <1>1, <2>1, <2>2, Around
  <2>4. Waiting' = a % N
    BY DEF Waiting, a
  <2> QED BY <1>1, <1>2, <2>3, <2>4 DEF a
<1>5. WaitingQueue = [i \in 1..Waiting |-> WaitingQueue[i]]
  BY DEF WaitingQueue
<1>6. /\ WaitingQueue # <<>> /\ Head(WaitingQueue) = WaitingQueue[1]
      /\ Tail(WaitingQueue) = [i \in 1..(Waiting - 1) |-> WaitingQueue[i + 1]]
  BY <1>1, <1>3, <1>5, Sequences1
<1>7. WaitingQueue[1] = buf[rpos]
  <2>1. 1 \in 1..Waiting /\ 1 \in 1..N /\ At(1) = rpos
    BY <1>1, <1>2, <1>3
  <2>2. (rpos + 1 - 1) % N = At(1)
    BY <1>1, <2>1
  <2> HIDE DEF At
  <2>3. WaitingQueue[1] = buf[(rpos + 1 - 1) % N]
    BY <2>1 DEF WaitingQueue
  <2> QED BY <2>1, <2>2, <2>3
<1>8. ASSUME NEW i \in 1..(Waiting - 1)
      PROVE  buf[(rpos' + i - 1) % N] = WaitingQueue[i + 1]
  <2>1. i \in 1..N /\ i + 1 \in 1..N /\ i + 1 \in 1..Waiting
    BY <1>1
  <2>2. At(i + 1) = IF rpos' + i - 1 < N THEN rpos' + i - 1 ELSE (rpos' + i - 1) - N
    BY <1>1, <1>2, <2>1
  <2>3. (rpos' + i - 1) % N = IF rpos' + i - 1 < N THEN rpos' + i - 1 ELSE (rpos' + i - 1) - N
    <3> DEFINE a == rpos' + i - 1
    <3>1. a \in Int /\ N \in Nat \ {0}
          /\ (a < N => a \in 0..(N - 1)) /\ (a >= N => a \in N..(N + N - 1))
      BY <1>1, <1>2, <2>1
    <3> HIDE DEF a
    <3>2. a \in 0..(N - 1) => a % N = a
      BY <3>1, Around
    <3>3. a \in N..(N + N - 1) => a % N = a - N
      BY <3>1, Around
    <3>4. a % N = IF a < N THEN a ELSE a - N
      BY <3>1, <3>2, <3>3
    <3> QED BY <3>4, Zenon DEF a
  <2>4. (rpos + (i + 1) - 1) % N = At(i + 1)
    BY <1>1, <2>1
  <2> HIDE DEF At
  <2>5. (rpos' + i - 1) % N = (rpos + (i + 1) - 1) % N
    BY <2>2, <2>3, <2>4
  <2>6. WaitingQueue[i + 1] = buf[(rpos + (i + 1) - 1) % N]
    BY <2>1 DEF WaitingQueue
  <2> QED BY <2>5, <2>6
<1>9. WaitingQueue' = [i \in 1..(Waiting - 1) |-> buf[(rpos' + i - 1) % N]]
  BY <1>4 DEF WaitingQueue
<1>10. WaitingQueue' = Tail(WaitingQueue)
  BY <1>6, <1>8, <1>9, Zenon
<1> QED BY <1>6, <1>7, <1>10

-----------------------------------------------------------------------------
(* What the devices bring. *)

LEMMA KeysBring ==
  ASSUME NEW k \in Keys, NEW on
  PROVE  /\ k.code \in Bytes /\ k.code + 128 \in Bytes /\ Typed(k, on) \in Int
         /\ Escape(k) \in Seq(Datum)
<1>1. k.code \in 0..127 /\ k.plain \in Bytes /\ k.shifted \in Bytes /\ k.control \in Bytes
  BY ConsoleAssumption DEF Bytes
<1>2. Typed(k, on) \in Int
  <2> DEFINE c == IF "CTL" \in on THEN k.control ELSE IF "SHIFT" \in on THEN k.shifted ELSE k.plain
  <2>1. c \in Int
    BY <1>1 DEF Bytes
  <2>2. Typed(k, on) = IF "CAPSLOCK" \in on THEN SwapCase(c) ELSE c
    BY DEF Typed
  <2> HIDE DEF c
  <2> QED BY <2>1, <2>2 DEF SwapCase
<1>3. Escape(k) \in Seq(Datum)
  <2>1. Code(224, NO) \in Datum
    BY DEF Code, Datum, Bytes, NO
  <2> HIDE DEF Code, Datum
  <2>2. <<Code(224, NO)>> \in Seq(Datum) /\ <<>> \in Seq(Datum)
    BY <2>1
  <2> QED BY <2>2 DEF Escape
<1>4. k.code \in Bytes /\ k.code + 128 \in Bytes
  BY <1>1 DEF Bytes
<1> QED BY <1>2, <1>3, <1>4, Zenon

LEMMA DevicesKeepRing ==
  ASSUME RingInv, DeviceStep
  PROVE  RingInv' /\ UNCHANGED Queue!vars
<1>1. UNCHANGED cons /\ UNCHANGED result
  BY DEF DeviceStep
<1>2. UNCHANGED <<buf, rpos, wpos>>
  BY <1>1 DEF cons
<1>3. kbd' \in Seq(Datum) /\ com' \in Seq(Bytes)
  <2>1. kbd \in Seq(Datum) /\ com \in Seq(Bytes)
    BY DEF RingInv
  <2>2. ASSUME NEW k \in Keys, PressKey(k) PROVE kbd' \in Seq(Datum) /\ com' = com
    <3> DEFINE on == IF k.flags \subseteq mods /\ k.flags \subseteq Toggles
                     THEN mods \ k.flags ELSE mods \cup k.flags
    <3>1. kbd' = kbd \o Escape(k) \o <<Code(k.code, Typed(k, on))>> /\ com' = com
      BY <2>2 DEF PressKey
    <3> HIDE DEF on
    <3>2. Code(k.code, Typed(k, on)) \in Datum
      <4>1. k.code \in Bytes /\ Typed(k, on) \in Int
        BY KeysBring
      <4> QED BY <4>1 DEF Code, Datum
    <3> QED BY <2>1, <3>1, <3>2, KeysBring
  <2>3. ASSUME NEW k \in Keys, ReleaseKey(k) PROVE kbd' \in Seq(Datum) /\ com' = com
    <3> DEFINE b == k.code + 128
    <3>1. kbd' = kbd \o Escape(k) \o <<Code(b, NO)>> /\ com' = com
      BY <2>3 DEF ReleaseKey
    <3>2. b \in Bytes /\ Escape(k) \in Seq(Datum)
      <4>1. Typed(k, {}) \in Int /\ b \in Bytes /\ Escape(k) \in Seq(Datum)
        BY KeysBring
      <4> QED BY <4>1
    <3> HIDE DEF b
    <3>3. Code(b, NO) \in Datum
      BY <3>2 DEF Code, Datum, NO
    <3> QED BY <2>1, <3>1, <3>2, <3>3
  <2>4. ASSUME MouseMoves PROVE kbd' \in Seq(Datum) /\ com' = com
    <3>1. kbd' = Append(kbd, [data |-> 8, mouse |-> TRUE, meant |-> NO]) /\ com' = com
      BY <2>4 DEF MouseMoves
    <3>2. [data |-> 8, mouse |-> TRUE, meant |-> NO] \in Datum
      BY DEF Datum, Bytes, NO
    <3> QED BY <2>1, <3>1, <3>2
  <2>5. ASSUME NEW c \in SerialChars, SerialArrives(c) PROVE kbd' = kbd /\ com' \in Seq(Bytes)
    BY <2>1, <2>5, ConsoleAssumption DEF SerialArrives, Bytes
  <2> QED BY <2>1, <2>2, <2>3, <2>4, <2>5 DEF DeviceStep
<1>4. RingInv'
  BY <1>2, <1>3 DEF RingInv
<1> QED BY <1>1, <1>2, <1>4 DEF Queue!vars, Waiting

-----------------------------------------------------------------------------
(* Every step is a step of the queue, or none. *)

LEMMA QueueIsWaiting ==
  /\ Queue!Next <=>
       \/ \E c \in 1..255 :
            /\ WaitingQueue' = IF Len(WaitingQueue) + 1 < CONSBUFSIZE
                               THEN Append(WaitingQueue, c) ELSE <<>>
            /\ UNCHANGED result
       \/ WaitingQueue # <<>> /\ WaitingQueue' = Tail(WaitingQueue) /\ result' = Head(WaitingQueue)
       \/ WaitingQueue = <<>> /\ result' = 0 /\ UNCHANGED WaitingQueue
  /\ UNCHANGED Queue!vars <=> UNCHANGED WaitingQueue /\ UNCHANGED result
BY DEF Queue!Next, Queue!Receive, Queue!Take, Queue!NothingThere, Queue!vars, WaitingQueue

\* A step that leaves ring and result alone.
LEMMA RingUnchanged ==
  ASSUME RingInv, UNCHANGED cons, UNCHANGED result
  PROVE  /\ UNCHANGED Queue!vars
         /\ kbd' \in Seq(Datum) /\ com' \in Seq(Bytes) => RingInv'
<1>1. UNCHANGED <<buf, rpos, wpos>>
  BY DEF cons
<1> QED BY <1>1, QueueIsWaiting DEF RingInv, WaitingQueue, Waiting

\* A byte of a device is received, if it is a character.
LEMMA RingStored ==
  ASSUME RingInv, NEW c \in Bytes, Stored(c), UNCHANGED result,
         kbd' \in Seq(Datum), com' \in Seq(Bytes)
  PROVE  RingInv' /\ [Queue!Next]_Queue!vars
<1>1. CASE c = 0
  <2>1. UNCHANGED cons
    BY <1>1 DEF Stored
  <2> QED BY <2>1, RingUnchanged
<1>2. CASE c # 0
  <2>1. RingInv'
    <3>1. DOMAIN buf' = DOMAIN buf
      BY <1>2, StoredInQueue
    <3>2. rpos' = rpos /\ wpos' = IF wpos + 1 = CONSBUFSIZE THEN 0 ELSE wpos + 1
      BY <1>2 DEF Stored
    <3> QED BY <3>1, <3>2, ConsoleAssumption DEF RingInv
  <2>2. c \in 1..255
    BY <1>2 DEF Bytes
  <2>3. WaitingQueue' = IF Len(WaitingQueue) + 1 < CONSBUFSIZE
                        THEN Append(WaitingQueue, c) ELSE <<>>
    BY <1>2, StoredInQueue
  <2>4. Queue!Next
    BY <2>2, <2>3, QueueIsWaiting
  <2> QED BY <2>1, <2>4
<1> QED BY <1>1, <1>2

LEMMA NextRing == RingInv /\ [Next]_vars => RingInv' /\ [Queue!Next]_Queue!vars
<1> SUFFICES ASSUME RingInv, [Next]_vars PROVE RingInv' /\ [Queue!Next]_Queue!vars
  OBVIOUS
<1>1. kbd \in Seq(Datum) /\ com \in Seq(Bytes)
  BY DEF RingInv
<1>2. CASE DeviceStep
  BY <1>2, DevicesKeepRing
<1>3. CASE ConsGetc \/ Getchar \/ SerialIntr \/ KbdIntr
  <2>1. UNCHANGED cons /\ UNCHANGED result /\ UNCHANGED devices
    BY <1>3 DEF ConsGetc, Getchar, SerialIntr, KbdIntr, Call
  <2> QED BY <1>1, <2>1, RingUnchanged DEF devices
<1>4. CASE SerialProcData
  <2>1. /\ com # <<>> /\ Stored(Head(com)) /\ com' = Tail(com)
        /\ UNCHANGED result /\ UNCHANGED kbd
    BY <1>4 DEF SerialProcData
  <2>2. Head(com) \in Bytes /\ com' \in Seq(Bytes)
    BY <1>1, <2>1
  <2> QED BY <1>1, <2>1, <2>2, RingStored
<1>5. CASE SerialDone \/ KbdDone
  <2>1. UNCHANGED cons /\ UNCHANGED result /\ UNCHANGED devices
    BY <1>5 DEF SerialDone, KbdDone
  <2> QED BY <1>1, <2>1, RingUnchanged DEF devices
<1>6. CASE KbdProcData
  <2> DEFINE c == Decoded(shift, Head(kbd).data).char
  <2>1. /\ kbd # <<>> /\ Stored(c) /\ kbd' = Tail(kbd)
        /\ UNCHANGED result /\ UNCHANGED com
    BY <1>6 DEF KbdProcData, CodeWaits
  <2>2. Head(kbd) \in Datum /\ kbd' \in Seq(Datum)
    BY <1>1, <2>1
  <2>3. c \in Bytes
    BY <2>2, DecodedByte DEF Datum
  <2> HIDE DEF c
  <2> QED BY <1>1, <2>1, <2>2, <2>3, RingStored
<1>7. CASE TakeChar
  <2>1. /\ rpos # wpos /\ result' = buf[rpos] /\ UNCHANGED <<buf, wpos>>
        /\ rpos' = IF rpos + 1 = CONSBUFSIZE THEN 0 ELSE rpos + 1
        /\ UNCHANGED devices
    BY <1>7 DEF TakeChar
  <2>2. RingInv'
    BY <1>1, <2>1, ConsoleAssumption DEF RingInv, devices
  <2>3. Queue!Next
    BY <2>1, TakenFromQueue, QueueIsWaiting
  <2> QED BY <2>2, <2>3
<1>8. CASE NoChar
  <2>1. rpos = wpos /\ UNCHANGED cons /\ UNCHANGED devices /\ (result' = 0 \/ UNCHANGED result)
    BY <1>8 DEF NoChar
  <2>2. WaitingQueue = <<>> /\ UNCHANGED WaitingQueue
    <3>1. Waiting = 0
      BY <2>1, Ring DEF RingInv
    <3> QED BY <2>1, <3>1 DEF WaitingQueue, Waiting, cons
  <2>3. Queue!Next \/ UNCHANGED Queue!vars
    BY <2>1, <2>2, QueueIsWaiting
  <2>4. RingInv'
    BY <1>1, <2>1 DEF RingInv, cons, devices
  <2> QED BY <2>3, <2>4
<1>9. CASE Output
  <2>1. UNCHANGED cons /\ UNCHANGED result /\ UNCHANGED devices
    BY <1>9 DEF Output, inputvars
  <2> QED BY <1>1, <2>1, RingUnchanged DEF devices
<1>10. CASE UNCHANGED vars
  <2>1. UNCHANGED cons /\ UNCHANGED result /\ UNCHANGED devices
    BY <1>10 DEF vars, inputvars
  <2> QED BY <1>1, <2>1, RingUnchanged DEF devices
<1> QED BY <1>2, <1>3, <1>4, <1>5, <1>6, <1>7, <1>8, <1>9, <1>10 DEF Next, Step

LEMMA InitRing == Init => RingInv /\ Queue!Init
<1> SUFFICES ASSUME Init PROVE RingInv /\ Queue!Init
  OBVIOUS
<1>1. /\ buf = [i \in 0..(CONSBUFSIZE - 1) |-> 0] /\ rpos = 0 /\ wpos = 0
      /\ kbd = <<>> /\ com = <<>> /\ result = 0
  BY DEF Init
<1>2. RingInv
  BY <1>1, ConsoleAssumption DEF RingInv
<1>3. Waiting = 0
  BY <1>1, <1>2, Ring
<1> QED BY <1>1, <1>2, <1>3 DEF Queue!Init

LEMMA RingInvariant == Spec => []RingInv
<1>1. Init => RingInv
  BY InitRing
<1>2. RingInv /\ [Next]_vars => RingInv'
  BY NextRing
<1> QED BY <1>1, <1>2, PTL DEF Spec

\* For a ring of any size and devices that bring anything: characters come out
\* in the order in which they went in, and are lost only all together, by the
\* one that finds the ring full (console.c:400-427).
THEOREM RingIsQueue == Spec => ImplementsInputQueue
<1> QED BY InitRing, NextRing, PTL DEF Spec, ImplementsInputQueue, Queue!Spec

-----------------------------------------------------------------------------
(* The screen is the end of a roll. *)

Glyphs == Chars \cup {"bios", Blank}

\* A screen whose cursor is before position n; whole rows have been scrolled away.
Rows(n) == \E k \in Nat : n = k * CRT_COLS
OnRoll(s, n) ==
  /\ s \in [buf : [Cells -> Glyphs], pos : 0..(n - 1), gone : Seq(Glyphs), line : Seq(Glyphs)]
  /\ Rows(Len(s.gone))

View(s) == s.gone \o [i \in 1..CRT_SIZE |-> s.buf[i - 1]]
Cursor(s) == Len(s.gone) + s.pos

LEMMA RowsNext ==
  ASSUME NEW n \in Nat, Rows(n)
  PROVE  Rows(n + CRT_COLS) /\ Rows(n + CRT_SIZE)
<1>1. PICK k \in Nat : n = k * CRT_COLS
  BY DEF Rows
<1>2. CRT_ROWS \in Nat /\ CRT_COLS \in Nat
  BY ScreenAssumption
<1> DEFINE C == CRT_COLS
           R == CRT_ROWS
<1>3. k * C + C = (k + 1) * C /\ k * C + R * C = (k + R) * C
  BY <1>2, Z3
<1>4. n + CRT_COLS = (k + 1) * CRT_COLS /\ n + CRT_SIZE = (k + CRT_ROWS) * CRT_COLS
  BY <1>1, <1>3 DEF CRT_SIZE
<1>5. k + 1 \in Nat /\ k + CRT_ROWS \in Nat
  BY <1>2
<1> QED BY <1>4, <1>5, Zenon DEF Rows

\* Whole rows change nothing within a row.
LEMMA RowsMod ==
  ASSUME NEW n \in Nat, Rows(n), NEW p \in Nat
  PROVE  (n + p) % CRT_COLS = p % CRT_COLS
<1>1. PICK k \in Nat : n = k * CRT_COLS
  BY DEF Rows
<1>2. CRT_COLS \in Nat \ {0}
  BY ScreenAssumption
<1> DEFINE C == CRT_COLS
           q == p \div C
           r == p % C
<1>3. q \in Nat /\ r \in 0..(C - 1) /\ p = q * C + r
  BY <1>2, Z3
<1> HIDE DEF q, r
<1>4. n + p = (k + q) * C + r
  BY <1>1, <1>2, <1>3, Z3
<1>5. ((k + q) * C + r) % C = r
  BY <1>2, <1>3, Z3
<1> QED BY <1>4, <1>5 DEF r

LEMMA ListOf ==
  ASSUME NEW S, NEW n \in Nat, NEW f \in [1..n -> S]
  PROVE  f \in Seq(S) /\ Len(f) = n
OBVIOUS

LEMMA ViewIs ==
  ASSUME NEW n \in Nat, NEW s, OnRoll(s, n)
  PROVE  /\ View(s) \in Seq(Glyphs)
         /\ Len(s.gone) \in Nat
         /\ Len(View(s)) = Len(s.gone) + CRT_SIZE
         /\ \A i \in 1..Len(View(s)) :
              View(s)[i] = IF i <= Len(s.gone) THEN s.gone[i] ELSE s.buf[i - Len(s.gone) - 1]
<1> DEFINE g == s.gone
           f == [i \in 1..CRT_SIZE |-> s.buf[i - 1]]
<1>1. CRT_SIZE \in Nat /\ g \in Seq(Glyphs) /\ s.buf \in [Cells -> Glyphs]
  BY ScreenSize DEF OnRoll
<1>2. f \in [1..CRT_SIZE -> Glyphs]
  BY <1>1 DEF Cells
<1>3. \A i \in 1..CRT_SIZE : f[i] = s.buf[i - 1]
  OBVIOUS
<1> HIDE DEF f, g
<1>4. f \in Seq(Glyphs) /\ Len(f) = CRT_SIZE
  BY <1>1, <1>2, ListOf
<1>5. /\ g \o f \in Seq(Glyphs) /\ Len(g \o f) = Len(g) + Len(f) /\ Len(g) \in Nat
      /\ \A i \in 1..(Len(g) + Len(f)) : (g \o f)[i] = IF i <= Len(g) THEN g[i] ELSE f[i - Len(g)]
  BY <1>1, <1>4, ConcatProperties, LenProperties
<1>6. ASSUME NEW i \in 1..(Len(g) + CRT_SIZE)
      PROVE  (g \o f)[i] = IF i <= Len(g) THEN g[i] ELSE s.buf[i - Len(g) - 1]
  <2>1. CASE i <= Len(g)
    BY <1>4, <1>5, <2>1
  <2>2. CASE ~(i <= Len(g))
    <3>1. i - Len(g) \in 1..CRT_SIZE
      BY <1>1, <1>5, <2>2
    <3>2. f[i - Len(g)] = s.buf[(i - Len(g)) - 1]
      BY <1>3, <3>1
    <3> QED BY <1>4, <1>5, <2>2, <3>2
  <2> QED BY <2>1, <2>2
<1> QED BY <1>4, <1>5, <1>6 DEF View, f, g

\* t shows what s does, but for `ink` in the cells from..to, and is as long as it
\* must be for the cursor p.
Shows(s, t, from, to, ink, p) ==
  /\ Cursor(t) = p
  /\ Len(View(t)) >= Len(View(s))
  /\ Len(View(t)) = Len(View(s)) \/ Len(View(t)) - CRT_COLS <= p
  /\ \A i \in 1..Len(View(t)) :
       View(t)[i] = IF i - 1 \in from..to THEN ink
                    ELSE IF i <= Len(View(s)) THEN View(s)[i] ELSE Blank

Rolls(s, t) ==
  /\ OnRoll(t, CRT_SIZE) /\ t.line = s.line /\ Cursor(t) = Cursor(s)
  /\ Len(View(t)) >= Len(View(s))
  /\ Len(View(t)) = Len(View(s)) \/ Len(View(t)) - CRT_COLS <= Cursor(s)
  /\ \A i \in 1..Len(View(t)) :
       View(t)[i] = IF i <= Len(View(s)) THEN View(s)[i] ELSE Blank

\* One row up loses nothing.
LEMMA ScrolledRolls ==
  ASSUME NEW s, OnRoll(s, CRT_SIZE + CRT_COLS)
  PROVE  Rolls(s, Scrolled(s))
<1> DEFINE t == Scrolled(s)
<1>1. CRT_COLS \in Nat \ {0} /\ CRT_SIZE \in Nat /\ CRT_SIZE >= CRT_COLS /\ CRT_SIZE + CRT_COLS \in Nat
  BY ScreenSize
<1>2. /\ s \in [buf : [Cells -> Glyphs], pos : 0..((CRT_SIZE + CRT_COLS) - 1), gone : Seq(Glyphs), line : Seq(Glyphs)]
      /\ Rows(Len(s.gone))
  BY DEF OnRoll
<1>3. /\ Len(s.gone) \in Nat /\ Len(View(s)) = Len(s.gone) + CRT_SIZE
      /\ \A i \in 1..Len(View(s)) :
           View(s)[i] = IF i <= Len(s.gone) THEN s.gone[i] ELSE s.buf[i - Len(s.gone) - 1]
  BY <1>1, ViewIs
<1>4. CASE s.pos < CRT_SIZE
  <2>1. t = s
    BY <1>4 DEF Scrolled
  <2>2. OnRoll(s, CRT_SIZE)
    BY <1>1, <1>2, <1>4 DEF OnRoll
  <2> QED BY <1>3, <2>1, <2>2 DEF Rolls
<1>5. CASE ~(s.pos < CRT_SIZE)
  <2> DEFINE b == [i \in Cells |-> IF i + CRT_COLS < CRT_SIZE THEN s.buf[i + CRT_COLS] ELSE Blank]
             f == [i \in 1..CRT_COLS |-> s.buf[i - 1]]
             g == s.gone \o f
  <2>1. t = [s EXCEPT !.buf = b, !.pos = s.pos - CRT_COLS, !.gone = g]
    BY <1>2, <1>5 DEF Scrolled
  <2>2. b \in [Cells -> Glyphs]
    BY <1>1, <1>2 DEF Cells, Glyphs
  <2>3. \A i \in Cells : b[i] = IF i + CRT_COLS < CRT_SIZE THEN s.buf[i + CRT_COLS] ELSE Blank
    OBVIOUS
  <2>4. f \in [1..CRT_COLS -> Glyphs] /\ \A i \in 1..CRT_COLS : f[i] = s.buf[i - 1]
    BY <1>1, <1>2 DEF Cells
  <2> HIDE DEF b, f
  <2>5. f \in Seq(Glyphs) /\ Len(f) = CRT_COLS
    BY <1>1, <2>4, ListOf
  <2>6. /\ g \in Seq(Glyphs) /\ Len(g) = Len(s.gone) + CRT_COLS
        /\ \A i \in 1..(Len(s.gone) + CRT_COLS) :
             g[i] = IF i <= Len(s.gone) THEN s.gone[i] ELSE f[i - Len(s.gone)]
    BY <1>2, <2>5, ConcatProperties
  <2> HIDE DEF g
  <2>7. Rows(Len(g))
    BY <1>2, <1>3, <2>6, RowsNext
  <2>8. s.pos - CRT_COLS \in 0..(CRT_SIZE - 1)
    BY <1>1, <1>2, <1>5
  <2>9. /\ t \in [buf : [Cells -> Glyphs], pos : 0..(CRT_SIZE - 1), gone : Seq(Glyphs), line : Seq(Glyphs)]
        /\ t.gone = g /\ t.buf = b /\ t.pos = s.pos - CRT_COLS /\ t.line = s.line
    BY <1>2, <2>1, <2>2, <2>6, <2>8
  <2>10. OnRoll(t, CRT_SIZE)
    BY <2>7, <2>9 DEF OnRoll
  <2> HIDE DEF t
  <2>11. /\ Len(View(t)) = Len(g) + CRT_SIZE
         /\ \A i \in 1..Len(View(t)) :
              View(t)[i] = IF i <= Len(g) THEN g[i] ELSE b[i - Len(g) - 1]
    BY <1>1, <2>9, <2>10, ViewIs
  <2>12. ASSUME NEW i \in 1..Len(View(t))
         PROVE  View(t)[i] = IF i <= Len(View(s)) THEN View(s)[i] ELSE Blank
    <3>1. CASE i <= Len(s.gone)
      BY <1>1, <1>3, <2>6, <2>11, <3>1
    <3>2. CASE i > Len(s.gone) /\ i <= Len(g)
      <4>1. i - Len(s.gone) \in 1..CRT_COLS /\ i \in 1..Len(View(s))
        BY <1>1, <1>3, <2>6, <2>11, <3>2
      <4>2. g[i] = s.buf[(i - Len(s.gone)) - 1]
        BY <1>3, <2>4, <2>6, <3>2, <4>1
      <4>3. View(t)[i] = g[i]
        BY <2>11, <3>2
      <4>4. View(s)[i] = s.buf[(i - Len(s.gone)) - 1]
        BY <1>3, <3>2, <4>1
      <4> QED BY <4>1, <4>2, <4>3, <4>4
    <3>3. CASE i > Len(g)
      <4> DEFINE j == i - Len(g) - 1
      <4>1. j \in Cells /\ j + CRT_COLS = i - Len(s.gone) - 1 /\ (j + CRT_COLS < CRT_SIZE <=> i <= Len(View(s)))
        BY <1>1, <1>3, <2>6, <2>11, <3>3 DEF Cells
      <4>2. b[j] = IF j + CRT_COLS < CRT_SIZE THEN s.buf[j + CRT_COLS] ELSE Blank
        BY <2>3, <4>1
      <4>3. View(t)[i] = b[j]
        BY <2>6, <2>11, <3>3, <1>3, <1>1
      <4> HIDE DEF j
      <4> QED BY <1>1, <1>3, <2>6, <3>3, <4>1, <4>2, <4>3
    <3> QED BY <1>1, <1>3, <2>6, <2>11, <3>1, <3>2, <3>3
  <2>13. /\ Cursor(t) = Cursor(s)
         /\ Len(View(t)) = Len(View(s)) + CRT_COLS
         /\ Len(View(t)) - CRT_COLS <= Cursor(s)
    <3>1. Cursor(t) = Len(g) + (s.pos - CRT_COLS) /\ Cursor(s) = Len(s.gone) + s.pos /\ s.pos \in Nat
      BY <1>1, <1>2, <2>9 DEF Cursor
    <3> QED BY <1>1, <1>3, <1>5, <2>6, <2>11, <3>1
  <2>14. Rolls(s, t)
    BY <1>1, <1>3, <2>9, <2>10, <2>12, <2>13 DEF Rolls
  <2> QED BY <2>14 DEF t
<1> QED BY <1>4, <1>5

Wrote(s, t, q, k, ink) == t = [s EXCEPT !.pos = q, !.buf[k] = ink]
Moved(s, t, q) == t = [s EXCEPT !.pos = q]

\* One cell is written, or none, and the cursor goes to q; then one row up if need be.
LEMMA CellShows ==
  ASSUME NEW s, OnRoll(s, CRT_SIZE), NEW k \in Cells, NEW ink \in Glyphs,
         NEW q \in 0..((CRT_SIZE + CRT_COLS) - 1), NEW t, Wrote(s, t, q, k, ink)
  PROVE  /\ OnRoll(Scrolled(t), CRT_SIZE) /\ Scrolled(t).line = s.line
         /\ Shows(s, Scrolled(t), Len(s.gone) + k, Len(s.gone) + k, ink, Len(s.gone) + q)
<1>1. CRT_COLS \in Nat \ {0} /\ CRT_SIZE \in Nat /\ CRT_SIZE + CRT_COLS \in Nat
  BY ScreenSize
<1>2. /\ s \in [buf : [Cells -> Glyphs], pos : 0..(CRT_SIZE - 1), gone : Seq(Glyphs), line : Seq(Glyphs)]
      /\ Rows(Len(s.gone))
  BY DEF OnRoll
<1> DEFINE b == [s.buf EXCEPT ![k] = ink]
<1>3. b \in [Cells -> Glyphs] /\ \A j \in Cells : b[j] = IF j = k THEN ink ELSE s.buf[j]
  BY <1>2
<1>4. t = [s EXCEPT !.pos = q, !.buf = b]
  BY <1>2 DEF Wrote
<1> HIDE DEF b
<1>5. /\ t \in [buf : [Cells -> Glyphs], pos : 0..((CRT_SIZE + CRT_COLS) - 1), gone : Seq(Glyphs), line : Seq(Glyphs)]
      /\ t.buf = b /\ t.gone = s.gone /\ t.line = s.line /\ t.pos = q
  BY <1>1, <1>2, <1>3, <1>4
<1>6. OnRoll(t, CRT_SIZE + CRT_COLS)
  BY <1>2, <1>5 DEF OnRoll
<1>7. /\ Len(s.gone) \in Nat /\ Len(View(s)) = Len(s.gone) + CRT_SIZE
      /\ \A i \in 1..Len(View(s)) :
           View(s)[i] = IF i <= Len(s.gone) THEN s.gone[i] ELSE s.buf[i - Len(s.gone) - 1]
  BY <1>1, ViewIs
<1>8. /\ Len(View(t)) = Len(s.gone) + CRT_SIZE
      /\ \A i \in 1..Len(View(t)) :
           View(t)[i] = IF i <= Len(s.gone) THEN s.gone[i] ELSE b[i - Len(s.gone) - 1]
  BY <1>1, <1>5, <1>6, ViewIs
<1>9. ASSUME NEW i \in 1..Len(View(t))
      PROVE  View(t)[i] = IF i - 1 = Len(s.gone) + k THEN ink ELSE View(s)[i]
  <2>1. CASE i <= Len(s.gone)
    BY <1>1, <1>7, <1>8, <2>1 DEF Cells
  <2>2. CASE ~(i <= Len(s.gone))
    <3> DEFINE n == Len(s.gone)
    <3>0. n \in Nat /\ i \in Int /\ i > n /\ i <= n + CRT_SIZE /\ k \in Int
      BY <1>1, <1>7, <1>8, <2>2 DEF Cells
    <3> HIDE DEF n
    <3>2. (i - n) - 1 \in Cells /\ (i - 1 = n + k <=> (i - n) - 1 = k)
      BY <1>1, <3>0 DEF Cells
    <3>1. (i - Len(s.gone)) - 1 \in Cells /\ (i - 1 = Len(s.gone) + k <=> (i - Len(s.gone)) - 1 = k)
      BY <3>2 DEF n
    <3> QED BY <1>3, <1>7, <1>8, <2>2, <3>1
  <2> QED BY <2>1, <2>2
<1>a. Rolls(t, Scrolled(t))
  BY <1>6, ScrolledRolls
<1>10. /\ OnRoll(Scrolled(t), CRT_SIZE) /\ Scrolled(t).line = t.line
       /\ Cursor(Scrolled(t)) = Cursor(t)
       /\ Len(View(Scrolled(t))) >= Len(View(t))
       /\ Len(View(Scrolled(t))) = Len(View(t)) \/ Len(View(Scrolled(t))) - CRT_COLS <= Cursor(t)
       /\ \A i \in 1..Len(View(Scrolled(t))) :
            View(Scrolled(t))[i] = IF i <= Len(View(t)) THEN View(t)[i] ELSE Blank
  BY <1>a DEF Rolls
<1>11. Cursor(t) = Len(s.gone) + q /\ Len(s.gone) + k < Len(View(s)) /\ Len(s.gone) + k \in Nat
  BY <1>1, <1>5, <1>7 DEF Cursor, Cells
<1>12. Len(View(Scrolled(t))) \in Nat
  BY <1>10, ViewIs, <1>1
<1>13. ASSUME NEW i \in 1..Len(View(Scrolled(t)))
       PROVE  View(Scrolled(t))[i] = IF i - 1 \in (Len(s.gone) + k)..(Len(s.gone) + k) THEN ink
                                     ELSE IF i <= Len(View(s)) THEN View(s)[i] ELSE Blank
  <2>1. i - 1 \in (Len(s.gone) + k)..(Len(s.gone) + k) <=> i - 1 = Len(s.gone) + k
    BY <1>11, <1>12
  <2>2. CASE i <= Len(View(t))
    BY <1>7, <1>8, <1>9, <1>10, <1>12, <2>1, <2>2
  <2>3. CASE ~(i <= Len(View(t)))
    BY <1>7, <1>8, <1>10, <1>11, <1>12, <2>1, <2>3
  <2> QED BY <2>2, <2>3
<1>14. Len(View(t)) = Len(View(s))
  BY <1>7, <1>8
<1> QED BY <1>5, <1>10, <1>11, <1>13, <1>14 DEF Shows

LEMMA MoveShows ==
  ASSUME NEW s, OnRoll(s, CRT_SIZE), NEW q \in 0..((CRT_SIZE + CRT_COLS) - 1), NEW ink,
         NEW t, Moved(s, t, q)
  PROVE  /\ OnRoll(Scrolled(t), CRT_SIZE) /\ Scrolled(t).line = s.line
         /\ Shows(s, Scrolled(t), 1, 0, ink, Len(s.gone) + q)
<1>1. CRT_COLS \in Nat \ {0} /\ CRT_SIZE \in Nat /\ CRT_SIZE + CRT_COLS \in Nat
  BY ScreenSize
<1>2. /\ s \in [buf : [Cells -> Glyphs], pos : 0..(CRT_SIZE - 1), gone : Seq(Glyphs), line : Seq(Glyphs)]
      /\ Rows(Len(s.gone))
  BY DEF OnRoll
<1>3. /\ t \in [buf : [Cells -> Glyphs], pos : 0..((CRT_SIZE + CRT_COLS) - 1), gone : Seq(Glyphs), line : Seq(Glyphs)]
      /\ t.buf = s.buf /\ t.gone = s.gone /\ t.line = s.line /\ t.pos = q
  BY <1>1, <1>2 DEF Moved
<1>4. OnRoll(t, CRT_SIZE + CRT_COLS)
  BY <1>2, <1>3 DEF OnRoll
<1>5. View(t) = View(s) /\ Cursor(t) = Len(s.gone) + q
  BY <1>3 DEF View, Cursor
<1>6. \A i : i - 1 \in 1..0 => FALSE
  BY SMT
<1>7. Rolls(t, Scrolled(t))
  BY <1>4, ScrolledRolls
<1> QED BY <1>3, <1>5, <1>6, <1>7 DEF Shows, Rolls

LEMMA SentShows ==
  ASSUME NEW s, OnRoll(s, CRT_SIZE), NEW c \in Glyphs
  PROVE  /\ OnRoll(Sent(s, c), CRT_SIZE) /\ Sent(s, c).line = Append(s.line, c)
         /\ View(Sent(s, c)) = View(s) /\ Sent(s, c).gone = s.gone
         /\ Sent(s, c).pos = s.pos /\ Sent(s, c).buf = s.buf
<1> DEFINE u == Sent(s, c)
           l == Append(s.line, c)
<1>1. /\ s \in [buf : [Cells -> Glyphs], pos : 0..(CRT_SIZE - 1), gone : Seq(Glyphs), line : Seq(Glyphs)]
      /\ Rows(Len(s.gone))
  BY DEF OnRoll
<1>2. l \in Seq(Glyphs)
  BY <1>1
<1>3. u = [s EXCEPT !.line = l]
  BY <1>1 DEF Sent
<1> HIDE DEF u, l
<1>4. /\ u \in [buf : [Cells -> Glyphs], pos : 0..(CRT_SIZE - 1), gone : Seq(Glyphs), line : Seq(Glyphs)]
      /\ u.line = l /\ u.gone = s.gone /\ u.pos = s.pos /\ u.buf = s.buf
  BY <1>1, <1>2, <1>3
<1>5. OnRoll(u, CRT_SIZE)
  BY <1>1, <1>4 DEF OnRoll
<1>6. View(u) = View(s)
  BY <1>4 DEF View
<1> QED BY <1>4, <1>5, <1>6 DEF u, l

-----------------------------------------------------------------------------
(* What each character shows. *)

LEMMA PlacedIs ==
  ASSUME NEW s, NEW c
  PROVE  /\ c \notin {"BS", "NL", "CR"} => Wrote(s, Placed(s, c), s.pos + 1, s.pos, c)
         /\ c = "BS" /\ s.pos > 0 => Wrote(s, Placed(s, c), s.pos - 1, s.pos - 1, Blank)
         /\ c = "BS" /\ ~(s.pos > 0) => Placed(s, c) = s
         /\ c = "NL" => Moved(s, Placed(s, c), RowStart(s.pos + CRT_COLS))
         /\ c = "CR" => Moved(s, Placed(s, c), RowStart(s.pos))
<1>1. c \notin {"BS", "NL", "CR"} => Wrote(s, Placed(s, c), s.pos + 1, s.pos, c)
  BY DEF Placed, Wrote
<1>2. c = "BS" /\ s.pos > 0 => Wrote(s, Placed(s, c), s.pos - 1, s.pos - 1, Blank)
  BY DEF Placed, Wrote
<1>3. c = "BS" /\ ~(s.pos > 0) => Placed(s, c) = s
  BY DEF Placed
<1>4. c = "NL" => Moved(s, Placed(s, c), RowStart(s.pos + CRT_COLS))
  BY DEF Placed, Moved
<1>5. c = "CR" => Moved(s, Placed(s, c), RowStart(s.pos))
  BY DEF Placed, Moved
<1> QED BY <1>1, <1>2, <1>3, <1>4, <1>5

LEMMA PutGlyph ==
  ASSUME NEW s, OnRoll(s, CRT_SIZE), NEW c \in Glyphs, c \notin {"BS", "NL", "CR"}
  PROVE  /\ OnRoll(Put(s, c), CRT_SIZE) /\ Put(s, c).line = Append(s.line, c)
         /\ Shows(s, Put(s, c), Cursor(s), Cursor(s), c, Cursor(s) + 1)
<1> DEFINE u == Sent(s, c)
           t == Placed(u, c)
<1>1. /\ OnRoll(u, CRT_SIZE) /\ u.line = Append(s.line, c) /\ View(u) = View(s) /\ u.gone = s.gone
      /\ u.pos = s.pos
  BY SentShows
<1>2. Put(s, c) = Scrolled(t)
  BY DEF Put
<1> HIDE DEF u
<1>3. Wrote(u, t, u.pos + 1, u.pos, c)
  BY PlacedIs
<1> HIDE DEF t
<1>4. u.pos \in 0..(CRT_SIZE - 1) /\ Len(s.gone) \in Nat
  BY <1>1, ViewIs, ScreenSize DEF OnRoll
<1>5. u.pos \in Cells /\ u.pos + 1 \in 0..((CRT_SIZE + CRT_COLS) - 1)
  BY <1>4, ScreenSize DEF Cells
<1>6. /\ OnRoll(Scrolled(t), CRT_SIZE) /\ Scrolled(t).line = u.line
      /\ Shows(u, Scrolled(t), Len(u.gone) + u.pos, Len(u.gone) + u.pos, c, Len(u.gone) + (u.pos + 1))
  BY <1>1, <1>3, <1>5, CellShows
<1>7. Len(u.gone) + u.pos = Cursor(s) /\ Len(u.gone) + (u.pos + 1) = Cursor(s) + 1
  BY <1>1, <1>4 DEF Cursor
<1>8. Shows(s, Scrolled(t), Cursor(s), Cursor(s), c, Cursor(s) + 1)
  BY <1>1, <1>6, <1>7 DEF Shows
<1> QED BY <1>1, <1>2, <1>6, <1>8

\* A backspace goes back and clears, but not beyond the top of the screen.
LEMMA PutBackspace ==
  ASSUME NEW s, OnRoll(s, CRT_SIZE), "BS" \in Glyphs
  PROVE  /\ OnRoll(Put(s, "BS"), CRT_SIZE) /\ Put(s, "BS").line = Append(s.line, "BS")
         /\ s.pos > 0 => Shows(s, Put(s, "BS"), Cursor(s) - 1, Cursor(s) - 1, Blank, Cursor(s) - 1)
         /\ s.pos = 0 => Shows(s, Put(s, "BS"), 1, 0, Blank, Cursor(s))
<1> DEFINE c == "BS"
           u == Sent(s, c)
           t == Placed(u, c)
<1>1. /\ OnRoll(u, CRT_SIZE) /\ u.line = Append(s.line, c) /\ View(u) = View(s) /\ u.gone = s.gone
      /\ u.pos = s.pos
  BY SentShows
<1>2. Put(s, c) = Scrolled(t)
  BY DEF Put
<1> HIDE DEF u
<1>3. /\ u.pos > 0 => Wrote(u, t, u.pos - 1, u.pos - 1, Blank)
      /\ ~(u.pos > 0) => t = u
  BY PlacedIs
<1> HIDE DEF t
<1>4. u.pos \in 0..(CRT_SIZE - 1) /\ Len(s.gone) \in Nat /\ Blank \in Glyphs
  BY <1>1, ViewIs, ScreenSize DEF OnRoll, Glyphs
<1>5. CASE s.pos > 0
  <2>1. u.pos - 1 \in Cells /\ u.pos - 1 \in 0..((CRT_SIZE + CRT_COLS) - 1)
    BY <1>1, <1>4, <1>5, ScreenSize DEF Cells
  <2>2. /\ OnRoll(Scrolled(t), CRT_SIZE) /\ Scrolled(t).line = u.line
        /\ Shows(u, Scrolled(t), Len(u.gone) + (u.pos - 1), Len(u.gone) + (u.pos - 1), Blank,
                 Len(u.gone) + (u.pos - 1))
    BY <1>1, <1>3, <1>4, <1>5, <2>1, CellShows
  <2>3. Len(u.gone) + (u.pos - 1) = Cursor(s) - 1
    BY <1>1, <1>4 DEF Cursor
  <2>4. Shows(s, Scrolled(t), Cursor(s) - 1, Cursor(s) - 1, Blank, Cursor(s) - 1)
    BY <1>1, <2>2, <2>3 DEF Shows
  <2> QED BY <1>1, <1>2, <1>5, <2>2, <2>4
<1>6. CASE s.pos = 0
  <2>1. Scrolled(t) = u
    BY <1>1, <1>3, <1>4, <1>6, ScreenSize DEF Scrolled
  <2>2. \A i : i - 1 \in 1..0 => FALSE
    BY SMT
  <2>3. Cursor(u) = Cursor(s) /\ Len(View(s)) \in Nat
    BY <1>1, ViewIs, ScreenSize DEF Cursor
  <2>4. Shows(s, u, 1, 0, Blank, Cursor(s))
    BY <1>1, <2>2, <2>3 DEF Shows
  <2> QED BY <1>1, <1>2, <1>6, <2>1, <2>4
<1> QED BY <1>1, <1>4, <1>5, <1>6

\* A newline and a return write nothing.
LEMMA PutMove ==
  ASSUME NEW s, OnRoll(s, CRT_SIZE), NEW c \in {"NL", "CR"}, c \in Glyphs
  PROVE  LET start == Cursor(s) - (Cursor(s) % CRT_COLS) IN
         /\ OnRoll(Put(s, c), CRT_SIZE) /\ Put(s, c).line = Append(s.line, c)
         /\ Shows(s, Put(s, c), 1, 0, c, IF c = "NL" THEN start + CRT_COLS ELSE start)
<1> DEFINE u == Sent(s, c)
           t == Placed(u, c)
           q == IF c = "NL" THEN RowStart(u.pos + CRT_COLS) ELSE RowStart(u.pos)
           start == Cursor(s) - (Cursor(s) % CRT_COLS)
<1>0. CRT_COLS \in Nat \ {0} /\ CRT_SIZE \in Nat /\ CRT_SIZE >= CRT_COLS
  BY ScreenSize
<1>1. /\ OnRoll(u, CRT_SIZE) /\ u.line = Append(s.line, c) /\ View(u) = View(s) /\ u.gone = s.gone
      /\ u.pos = s.pos
  BY SentShows
<1>2. Put(s, c) = Scrolled(t)
  BY DEF Put
<1> HIDE DEF u
<1>3. Moved(u, t, q)
  BY PlacedIs
<1> HIDE DEF t
<1>4. u.pos \in 0..(CRT_SIZE - 1) /\ Len(s.gone) \in Nat /\ Rows(Len(s.gone))
  BY <1>0, <1>1, ViewIs DEF OnRoll
<1>a. u.pos \in Nat /\ u.pos + CRT_COLS \in Nat
  BY <1>0, <1>4
<1>5. /\ RowStart(u.pos) \in 0..u.pos /\ RowStart(u.pos + CRT_COLS) \in 0..(u.pos + CRT_COLS)
  BY <1>a, RowStarts
<1>6. q \in 0..((CRT_SIZE + CRT_COLS) - 1)
  BY <1>0, <1>4, <1>5
<1>7. Len(u.gone) + q = IF c = "NL" THEN start + CRT_COLS ELSE start
  <2>0. Cursor(s) = Len(s.gone) + u.pos /\ u.gone = s.gone
    BY <1>1 DEF Cursor
  <2>a. (Len(s.gone) + u.pos) % CRT_COLS = u.pos % CRT_COLS
    BY <1>a, <1>4, RowsMod
  <2>1. Cursor(s) % CRT_COLS = u.pos % CRT_COLS /\ Cursor(s) = Len(u.gone) + u.pos
    BY <2>0, <2>a
  <2>2. Rows(CRT_COLS)
    <3>1. Rows(0)
      BY <1>0 DEF Rows
    <3>2. Rows(0 + CRT_COLS)
      BY <3>1, RowsNext
    <3> QED BY <1>0, <3>2
  <2>b. CRT_COLS \in Nat
    BY <1>0
  <2>3. (CRT_COLS + u.pos) % CRT_COLS = u.pos % CRT_COLS
    BY <1>a, <2>2, <2>b, RowsMod
  <2>4. u.pos + CRT_COLS = CRT_COLS + u.pos
    BY <1>0, <1>4
  <2> DEFINE m == u.pos % CRT_COLS
  <2>5. m \in Int
    BY <1>0, <1>4, Z3
  <2>6. RowStart(u.pos) = u.pos - m /\ RowStart(u.pos + CRT_COLS) = (u.pos + CRT_COLS) - m
        /\ start = (Len(u.gone) + u.pos) - m
    BY <2>1, <2>3, <2>4 DEF RowStart
  <2> HIDE DEF m, start
  <2>7. u.pos \in Int /\ Len(u.gone) \in Int /\ CRT_COLS \in Int
    BY <1>0, <1>1, <1>4
  <2> QED BY <1>1, <2>5, <2>6, <2>7
<1> HIDE DEF q
<1>8. /\ OnRoll(Scrolled(t), CRT_SIZE) /\ Scrolled(t).line = u.line
      /\ Shows(u, Scrolled(t), 1, 0, c, Len(u.gone) + q)
  BY <1>1, <1>3, <1>6, MoveShows
<1>9. Shows(s, Scrolled(t), 1, 0, c, Len(u.gone) + q)
  BY <1>1, <1>8 DEF Shows
<1> QED BY <1>1, <1>2, <1>7, <1>8, <1>9

\* n blanks after another, across any number of rows.
Blanks(s, t, n) ==
  OnRoll(t, CRT_SIZE) /\ Shows(s, t, Cursor(s), (Cursor(s) + n) - 1, Blank, Cursor(s) + n)

LEMMA MoreBlanks ==
  ASSUME NEW s, OnRoll(s, CRT_SIZE), NEW t, NEW n \in Nat, Blanks(s, t, n)
  PROVE  Blanks(s, Put(t, Blank), n + 1) /\ Put(t, Blank).line = Append(t.line, Blank)
<1> DEFINE u == Put(t, Blank)
           p == Cursor(s)
<1>1. OnRoll(t, CRT_SIZE) /\ Blank \in Glyphs /\ Blank \notin {"BS", "NL", "CR"}
  BY DEF Blanks, Glyphs, Blank
<1>2. OnRoll(u, CRT_SIZE) /\ u.line = Append(t.line, Blank)
      /\ Shows(t, u, Cursor(t), Cursor(t), Blank, Cursor(t) + 1)
  BY <1>1, PutGlyph
<1> HIDE DEF u
<1>3. p \in Nat /\ CRT_COLS \in Nat
  BY ViewIs, ScreenSize DEF OnRoll, Cursor
<1>4. Len(View(s)) \in Nat /\ Len(View(t)) \in Nat /\ Len(View(u)) \in Nat
  BY <1>1, <1>2, ViewIs, ScreenSize
<1> HIDE DEF p
<1>5. /\ Cursor(t) = p + n /\ Len(View(t)) >= Len(View(s))
      /\ Len(View(t)) = Len(View(s)) \/ Len(View(t)) - CRT_COLS <= p + n
      /\ \A i \in 1..Len(View(t)) :
           View(t)[i] = IF i - 1 \in p..((p + n) - 1) THEN Blank
                        ELSE IF i <= Len(View(s)) THEN View(s)[i] ELSE Blank
  BY DEF Blanks, Shows, p
<1>6. /\ Cursor(u) = (p + n) + 1 /\ Len(View(u)) >= Len(View(t))
      /\ Len(View(u)) = Len(View(t)) \/ Len(View(u)) - CRT_COLS <= (p + n) + 1
      /\ \A i \in 1..Len(View(u)) :
           View(u)[i] = IF i - 1 \in (p + n)..(p + n) THEN Blank
                        ELSE IF i <= Len(View(t)) THEN View(t)[i] ELSE Blank
  BY <1>2, <1>5 DEF Shows
<1>7. ASSUME NEW i \in 1..Len(View(u))
      PROVE  View(u)[i] = IF i - 1 \in p..((p + (n + 1)) - 1) THEN Blank
                          ELSE IF i <= Len(View(s)) THEN View(s)[i] ELSE Blank
  <2>1. CASE i - 1 = p + n
    BY <1>3, <1>4, <1>6, <2>1
  <2>2. CASE i - 1 # p + n /\ i <= Len(View(t))
    BY <1>3, <1>4, <1>5, <1>6, <2>2
  <2>3. CASE i - 1 # p + n /\ ~(i <= Len(View(t)))
    BY <1>3, <1>4, <1>5, <1>6, <2>3
  <2> QED BY <2>1, <2>2, <2>3
<1>8. /\ Cursor(u) = p + (n + 1) /\ Len(View(u)) >= Len(View(s))
      /\ Len(View(u)) = Len(View(s)) \/ Len(View(u)) - CRT_COLS <= p + (n + 1)
  BY <1>3, <1>4, <1>5, <1>6
<1>9. Shows(s, u, p, (p + (n + 1)) - 1, Blank, p + (n + 1))
  BY <1>7, <1>8 DEF Shows
<1> QED BY <1>2, <1>9 DEF Blanks, p, u

LEMMA LongerLine ==
  ASSUME NEW S, NEW l \in Seq(S), NEW m \in Seq(S), NEW b \in S
  PROVE  Append(l \o m, b) = l \o Append(m, b) /\ Append(m, b) \in Seq(S)
<1>1. <<b>> \in Seq(S) /\ l \o m \in Seq(S)
  BY ConcatProperties
<1>2. Append(l \o m, b) = (l \o m) \o <<b>> /\ Append(m, b) = m \o <<b>>
  BY <1>1, AppendIsConcat
<1>3. (l \o m) \o <<b>> = l \o (m \o <<b>>)
  BY <1>1, ConcatAssociative
<1>4. Append(m, b) \in Seq(S)
  BY AppendProperties
<1> QED BY <1>2, <1>3, <1>4

LEMMA LastCell ==
  ASSUME NEW S, NEW m \in Seq(S), NEW n \in Seq(S), NEW b \in S,
         Len(n) = Len(m) + 1, n[Len(n)] = b, \A i \in 1..Len(m) : n[i] = m[i]
  PROVE  Append(m, b) = n
<1>1. Append(m, b) \in Seq(S) /\ Len(Append(m, b)) = Len(n) /\ Len(m) \in Nat
  BY AppendProperties
<1>2. \A i \in 1..Len(Append(m, b)) : Append(m, b)[i] = n[i]
  BY <1>1, AppendProperties
<1> QED BY <1>1, <1>2, SeqEqual

LEMMA TabLine ==
  ASSUME NEW S, NEW l \in Seq(S), NEW a \in S, NEW b \in S
  PROVE  Append(Append(Append(Append(Append(Append(l, a), b), b), b), b), b)
           = l \o <<a, b, b, b, b, b>>
<1>1. Append(l, a) = l \o <<a>> /\ <<a>> \in Seq(S)
  BY AppendIsConcat
<1>2. Append(l \o <<a>>, b) = l \o <<a, b>> /\ <<a, b>> \in Seq(S)
  <2>1. Append(<<a>>, b) = <<a, b>>
    <3> DEFINE m == <<a>>
               n == <<a, b>>
    <3>1. /\ m \in Seq(S) /\ n \in Seq(S) /\ Len(n) = Len(m) + 1 /\ n[Len(n)] = b
          /\ \A i \in 1..Len(m) : n[i] = m[i]
      OBVIOUS
    <3> HIDE DEF m, n
    <3>2. Append(m, b) = n
      BY <3>1, LastCell
    <3> QED BY <3>2 DEF m, n
  <2> QED BY <1>1, <2>1, LongerLine
<1>3. Append(l \o <<a, b>>, b) = l \o <<a, b, b>> /\ <<a, b, b>> \in Seq(S)
  <2>1. Append(<<a, b>>, b) = <<a, b, b>>
    <3> DEFINE m == <<a, b>>
               n == <<a, b, b>>
    <3>1. /\ m \in Seq(S) /\ n \in Seq(S) /\ Len(n) = Len(m) + 1 /\ n[Len(n)] = b
          /\ \A i \in 1..Len(m) : n[i] = m[i]
      OBVIOUS
    <3> HIDE DEF m, n
    <3>2. Append(m, b) = n
      BY <3>1, LastCell
    <3> QED BY <3>2 DEF m, n
  <2> QED BY <1>2, <2>1, LongerLine
<1>4. Append(l \o <<a, b, b>>, b) = l \o <<a, b, b, b>> /\ <<a, b, b, b>> \in Seq(S)
  <2>1. Append(<<a, b, b>>, b) = <<a, b, b, b>>
    <3> DEFINE m == <<a, b, b>>
               n == <<a, b, b, b>>
    <3>1. /\ m \in Seq(S) /\ n \in Seq(S) /\ Len(n) = Len(m) + 1 /\ n[Len(n)] = b
          /\ \A i \in 1..Len(m) : n[i] = m[i]
      OBVIOUS
    <3> HIDE DEF m, n
    <3>2. Append(m, b) = n
      BY <3>1, LastCell
    <3> QED BY <3>2 DEF m, n
  <2> QED BY <1>3, <2>1, LongerLine
<1>5. Append(l \o <<a, b, b, b>>, b) = l \o <<a, b, b, b, b>> /\ <<a, b, b, b, b>> \in Seq(S)
  <2>1. Append(<<a, b, b, b>>, b) = <<a, b, b, b, b>>
    <3> DEFINE m == <<a, b, b, b>>
               n == <<a, b, b, b, b>>
    <3>1. /\ m \in Seq(S) /\ n \in Seq(S) /\ Len(n) = Len(m) + 1 /\ n[Len(n)] = b
          /\ \A i \in 1..Len(m) : n[i] = m[i]
      OBVIOUS
    <3> HIDE DEF m, n
    <3>2. Append(m, b) = n
      BY <3>1, LastCell
    <3> QED BY <3>2 DEF m, n
  <2> QED BY <1>4, <2>1, LongerLine
<1>6. Append(l \o <<a, b, b, b, b>>, b) = l \o <<a, b, b, b, b, b>>
  <2>1. Append(<<a, b, b, b, b>>, b) = <<a, b, b, b, b, b>>
    <3> DEFINE m == <<a, b, b, b, b>>
               n == <<a, b, b, b, b, b>>
    <3>1. /\ m \in Seq(S) /\ n \in Seq(S) /\ Len(n) = Len(m) + 1 /\ n[Len(n)] = b
          /\ \A i \in 1..Len(m) : n[i] = m[i]
      OBVIOUS
    <3> HIDE DEF m, n
    <3>2. Append(m, b) = n
      BY <3>1, LastCell
    <3> QED BY <3>2 DEF m, n
  <2> QED BY <1>5, <2>1, LongerLine
<1> QED BY <1>1, <1>2, <1>3, <1>4, <1>5, <1>6, Zenon

\* A tab is five blanks.
LEMMA PutTab ==
  ASSUME NEW s, OnRoll(s, CRT_SIZE), "TAB" \in Glyphs
  PROVE  /\ Blanks(s, ConsPutc(s, "TAB"), 5)
         /\ ConsPutc(s, "TAB").line
              = s.line \o <<"TAB", Blank, Blank, Blank, Blank, Blank>>
<1> DEFINE t0 == Sent(s, "TAB")
           t1 == Put(t0, Blank)
           t2 == Put(t1, Blank)
           t3 == Put(t2, Blank)
           t4 == Put(t3, Blank)
           t5 == Put(t4, Blank)
<1>1. ConsPutc(s, "TAB") = Scrolled(t5)
  BY DEF ConsPutc
<1>2. Blanks(s, t0, 0) /\ t0.line = Append(s.line, "TAB")
  <2>1. /\ OnRoll(t0, CRT_SIZE) /\ t0.line = Append(s.line, "TAB") /\ View(t0) = View(s)
        /\ t0.gone = s.gone /\ t0.pos = s.pos
    BY SentShows
  <2> HIDE DEF t0
  <2>2. Cursor(t0) = Cursor(s) /\ Cursor(s) \in Nat /\ Len(View(s)) \in Nat
    BY <2>1, ViewIs, ScreenSize DEF OnRoll, Cursor
  <2>3. Cursor(s) + 0 = Cursor(s) /\ \A i \in 1..Len(View(s)) : ~(i - 1 \in Cursor(s)..((Cursor(s) + 0) - 1))
    BY <2>2
  <2>4. Shows(s, t0, Cursor(s), (Cursor(s) + 0) - 1, Blank, Cursor(s) + 0)
    BY <2>1, <2>2, <2>3 DEF Shows
  <2> QED BY <2>1, <2>4 DEF Blanks
<1> HIDE DEF t0
<1>3. Blanks(s, t1, 1) /\ t1.line = Append(t0.line, Blank)
  <2>1. Blanks(s, t0, 0) /\ 0 \in Nat /\ 0 + 1 = 1
    BY <1>2
  <2>2. Blanks(s, t1, 0 + 1) /\ t1.line = Append(t0.line, Blank)
    BY <2>1, MoreBlanks, Zenon
  <2> QED BY <2>1, <2>2
<1> HIDE DEF t1
<1>4. Blanks(s, t2, 2) /\ t2.line = Append(t1.line, Blank)
  <2>1. Blanks(s, t1, 1) /\ 1 \in Nat /\ 1 + 1 = 2
    BY <1>3
  <2>2. Blanks(s, t2, 1 + 1) /\ t2.line = Append(t1.line, Blank)
    BY <2>1, MoreBlanks, Zenon
  <2> QED BY <2>1, <2>2
<1> HIDE DEF t2
<1>5. Blanks(s, t3, 3) /\ t3.line = Append(t2.line, Blank)
  <2>1. Blanks(s, t2, 2) /\ 2 \in Nat /\ 2 + 1 = 3
    BY <1>4
  <2>2. Blanks(s, t3, 2 + 1) /\ t3.line = Append(t2.line, Blank)
    BY <2>1, MoreBlanks, Zenon
  <2> QED BY <2>1, <2>2
<1> HIDE DEF t3
<1>6. Blanks(s, t4, 4) /\ t4.line = Append(t3.line, Blank)
  <2>1. Blanks(s, t3, 3) /\ 3 \in Nat /\ 3 + 1 = 4
    BY <1>5
  <2>2. Blanks(s, t4, 3 + 1) /\ t4.line = Append(t3.line, Blank)
    BY <2>1, MoreBlanks, Zenon
  <2> QED BY <2>1, <2>2
<1> HIDE DEF t4
<1>7. Blanks(s, t5, 5) /\ t5.line = Append(t4.line, Blank)
  <2>1. Blanks(s, t4, 4) /\ 4 \in Nat /\ 4 + 1 = 5
    BY <1>6
  <2>2. Blanks(s, t5, 4 + 1) /\ t5.line = Append(t4.line, Blank)
    BY <2>1, MoreBlanks, Zenon
  <2> QED BY <2>1, <2>2
<1> HIDE DEF t5
<1>8. Scrolled(t5) = t5
  BY <1>7, ScreenSize DEF Blanks, OnRoll, Scrolled
<1>9. t5.line = s.line \o <<"TAB", Blank, Blank, Blank, Blank, Blank>>
  <2>1. s.line \in Seq(Glyphs) /\ Blank \in Glyphs
    BY DEF OnRoll, Glyphs
  <2>2. t5.line = Append(Append(Append(Append(Append(Append(s.line, "TAB"), Blank), Blank), Blank),
                                Blank), Blank)
    BY <1>2, <1>3, <1>4, <1>5, <1>6, <1>7, Zenon
  <2> QED BY <2>1, <2>2, TabLine
<1> QED BY <1>1, <1>7, <1>8, <1>9

-----------------------------------------------------------------------------
(* Every character that is printed is typed on the roll. *)

\* The roll is as long as the row of the cursor asks.
LEMMA RollLength ==
  ASSUME NEW n \in Nat, Rows(n), NEW m \in Nat, Rows(m), NEW p \in Nat,
         p < m, n <= m, m = n \/ m - CRT_COLS <= p
  PROVE  m = IF ((p \div CRT_COLS) + 1) * CRT_COLS > n THEN ((p \div CRT_COLS) + 1) * CRT_COLS ELSE n
<1> DEFINE C == CRT_COLS
           q == p \div C
           r == p % C
<1>1. C \in Nat \ {0}
  BY ScreenAssumption
<1>2. q \in Nat /\ r \in 0..(C - 1) /\ p = q * C + r
  BY <1>1, Z3
<1>3. PICK k \in Nat : n = k * C
  BY DEF Rows
<1>4. PICK l \in Nat : m = l * C
  BY DEF Rows
<1> HIDE DEF q, r, C
<1>5. \A a, b \in Int : (a <= b => a * C <= b * C) /\ (a * C < b * C => a < b)
  BY <1>1, Z3
<1>6. (q + 1) * C = q * C + C /\ (l - 1) * C = l * C - C
      /\ q * C \in Int /\ l * C \in Int /\ k * C \in Int
  BY <1>1, <1>2, <1>3, <1>4, Z3
<1>7. q < l
  <2>1. q * C < l * C
    BY <1>1, <1>2, <1>4, <1>6
  <2> QED BY <1>2, <1>4, <1>5, <2>1
<1>8. (q + 1) * C <= m
  <2>1. q + 1 <= l /\ q + 1 \in Int /\ l \in Int
    BY <1>2, <1>4, <1>7
  <2> QED BY <1>4, <1>5, <2>1
<1>9. CASE m = n
  BY <1>1, <1>2, <1>6, <1>8, <1>9 DEF q, C
<1>10. CASE m # n
  <2>1. m - C <= p
    BY <1>10 DEF C
  <2>2. (l - 1) * C < (q + 1) * C
    BY <1>1, <1>2, <1>4, <1>6, <2>1
  <2>3. l - 1 < q + 1
    BY <1>2, <1>4, <1>5, <2>2
  <2>4. q + 1 = l
    BY <1>2, <1>4, <1>7, <2>3
  <2>5. (q + 1) * C = m
    BY <1>4, <2>4
  <2> QED BY <1>10, <2>5 DEF q, C
<1> QED BY <1>9, <1>10

LEMMA CursorInView ==
  ASSUME NEW s, OnRoll(s, CRT_SIZE)
  PROVE  Cursor(s) \in Nat /\ Cursor(s) < Len(View(s))
<1>1. Len(s.gone) \in Nat /\ Len(View(s)) = Len(s.gone) + CRT_SIZE /\ CRT_SIZE \in Nat
  BY ViewIs, ScreenSize
<1>2. s.pos \in 0..(CRT_SIZE - 1)
  BY DEF OnRoll
<1> QED BY <1>1, <1>2 DEF Cursor

LEMMA TypeFromShows ==
  ASSUME OnRoll(screen, CRT_SIZE), OnRoll(screen', CRT_SIZE), NEW c, NEW from \in Int, NEW to \in Int,
         Shows(screen, screen', from, to, Paper!Ink(c), Paper!Target(c)),
         \A i \in Int : i \in from..to <=> i \in Paper!Written(c),
         screen'.line = screen.line \o (IF c = "TAB" THEN <<c, Blank, Blank, Blank, Blank, Blank>>
                                        ELSE <<c>>)
  PROVE  Paper!Type(c)
<1> DEFINE roll == View(screen)
           next == View(screen')
           ink == Paper!Ink(c)
           p == Paper!Target(c)
           W == Paper!Written(c)
           row == (p \div CRT_COLS) + 1
           new == IF row * CRT_COLS > Len(roll) THEN row * CRT_COLS ELSE Len(roll)
<1>1. /\ roll \in Seq(Glyphs) /\ Len(roll) \in Nat /\ Len(roll) = Len(screen.gone) + CRT_SIZE
      /\ next \in Seq(Glyphs) /\ Len(next) \in Nat /\ Len(next) = Len(screen'.gone) + CRT_SIZE
      /\ Len(screen.gone) \in Nat /\ Len(screen'.gone) \in Nat
  BY ViewIs, ScreenSize
<1>2. Rows(Len(roll)) /\ Rows(Len(next))
  BY <1>1, RowsNext DEF OnRoll
<1>3. /\ Cursor(screen') = p /\ Len(next) >= Len(roll)
      /\ Len(next) = Len(roll) \/ Len(next) - CRT_COLS <= p
      /\ \A i \in 1..Len(next) :
           next[i] = IF i - 1 \in from..to THEN ink ELSE IF i <= Len(roll) THEN roll[i] ELSE Blank
  BY DEF Shows
<1>4. p \in Nat /\ p < Len(next)
  <2>1. Cursor(screen') \in Nat /\ Cursor(screen') < Len(next)
    BY CursorInView
  <2> QED BY <1>3, <2>1, Zenon
<1> HIDE DEF p, ink, W, roll, next
<1>5. Len(next) = new
  BY <1>1, <1>2, <1>3, <1>4, RollLength
<1>6. ASSUME NEW i \in 1..Len(next)
      PROVE  next[i] = IF i - 1 \in W THEN ink ELSE IF i <= Len(roll) THEN roll[i] ELSE Blank
  <2>1. i - 1 \in Int
    BY <1>1
  <2>2. i - 1 \in from..to <=> i - 1 \in W
    BY <2>1 DEF W
  <2> QED BY <1>3, <2>2
<1> HIDE DEF new
<1>7. next = [i \in 1..new |-> IF i - 1 \in W THEN ink ELSE IF i <= Len(roll) THEN roll[i] ELSE Blank]
  <2>1. next = [i \in 1..Len(next) |-> next[i]]
    BY <1>1
  <2> QED BY <1>5, <1>6, <2>1, Zenon
<1>8. Cursor(screen') = p
  BY <1>3
<1> QED BY <1>7, <1>8 DEF Paper!Type, View, Cursor, roll, next, ink, p, W, row, new

\* A character as the abstract terminal sees it.
LEMMA CputcharTypes ==
  ASSUME OnRoll(screen, CRT_SIZE), NEW c \in Chars, Cputchar(c)
  PROVE  OnRoll(screen', CRT_SIZE) /\ Paper!Type(c)
<1> DEFINE p == Cursor(screen)
           w == IF c = "TAB" THEN <<c, Blank, Blank, Blank, Blank, Blank>> ELSE <<c>>
<1>1. c \in Glyphs /\ Blank \in Glyphs
  BY DEF Glyphs
<1>2. screen' = ConsPutc(screen, c)
  BY DEF Cputchar
<1>3. /\ p = Len(screen.gone) + screen.pos /\ screen.pos \in 0..(CRT_SIZE - 1) /\ Len(screen.gone) \in Nat
      /\ p \in Nat /\ Len(View(screen)) = Len(screen.gone) + CRT_SIZE /\ CRT_SIZE \in Nat
      /\ CRT_COLS \in Nat \ {0} /\ screen.line \in Seq(Glyphs)
  BY ViewIs, ScreenSize DEF OnRoll, Cursor
<1>4. Paper!Top = Len(screen.gone)
  BY <1>3 DEF Paper!Top, View, CRT_SIZE
<1>5. Append(screen.line, c) = screen.line \o <<c>>
  BY <1>1, <1>3, AppendIsConcat
<1>6. c # "TAB" => screen' = Put(screen, c)
  BY <1>2 DEF ConsPutc
<1> HIDE DEF p
<1>7. CASE c = "TAB"
  <2>1. Paper!Target(c) = p + 5 /\ Paper!Written(c) = p..(Paper!Target(c) - 1) /\ Paper!Ink(c) = Blank
    BY <1>7 DEF Paper!Target, Paper!Written, Paper!Ink, p, Cursor
  <2>2. OnRoll(screen', CRT_SIZE) /\ Shows(screen, screen', p, (p + 5) - 1, Blank, p + 5)
        /\ screen'.line = screen.line \o w
    BY <1>1, <1>2, <1>7, PutTab DEF Blanks, p
  <2>3. (p + 5) - 1 \in Int /\ p \in Int
    BY <1>3
  <2>4. \A i \in Int : i \in p..((p + 5) - 1) <=> i \in Paper!Written(c)
    BY <2>1
  <2>5. Paper!Type(c)
    BY <2>1, <2>2, <2>3, <2>4, TypeFromShows
  <2> QED BY <2>2, <2>5
<1>8. CASE c \notin {"BS", "NL", "CR", "TAB"}
  <2>1. Paper!Target(c) = p + 1 /\ Paper!Written(c) = p..(Paper!Target(c) - 1) /\ Paper!Ink(c) = c
    BY <1>8 DEF Paper!Target, Paper!Written, Paper!Ink, p, Cursor
  <2>2. OnRoll(screen', CRT_SIZE) /\ Shows(screen, screen', p, p, c, p + 1)
        /\ screen'.line = screen.line \o w
    BY <1>1, <1>5, <1>6, <1>8, PutGlyph DEF p
  <2>3. \A i \in Int : i \in p..p <=> i \in Paper!Written(c)
    BY <1>3, <2>1
  <2>5. p \in Int /\ Shows(screen, screen', p, p, Paper!Ink(c), Paper!Target(c))
    BY <1>3, <2>1, <2>2
  <2>4. Paper!Type(c)
    BY <2>2, <2>3, <2>5, TypeFromShows
  <2> QED BY <2>2, <2>4
<1>9. CASE c = "BS"
  <2>1. /\ Paper!Target(c) = IF p > Len(screen.gone) THEN p - 1 ELSE p
        /\ Paper!Written(c) = Paper!Target(c)..(p - 1) /\ Paper!Ink(c) = Blank
    BY <1>4, <1>9 DEF Paper!Target, Paper!Written, Paper!Ink, p, Cursor
  <2>2. /\ OnRoll(screen', CRT_SIZE) /\ screen'.line = screen.line \o w
        /\ screen.pos > 0 => Shows(screen, screen', p - 1, p - 1, Blank, p - 1)
        /\ screen.pos = 0 => Shows(screen, screen', 1, 0, Blank, p)
    BY <1>1, <1>5, <1>6, <1>9, PutBackspace DEF p
  <2>3. CASE screen.pos > 0
    <3>1. Paper!Target(c) = p - 1 /\ p - 1 \in Int
      BY <1>3, <2>1, <2>3
    <3>2. \A i \in Int : i \in (p - 1)..(p - 1) <=> i \in Paper!Written(c)
      BY <2>1, <3>1
    <3>3. Paper!Type(c)
      BY <2>1, <2>2, <2>3, <3>1, <3>2, TypeFromShows
    <3> QED BY <2>2, <3>3
  <2>4. CASE screen.pos = 0
    <3>1. Paper!Target(c) = p
      BY <1>3, <2>1, <2>4
    <3>2. \A i \in Int : i \in 1..0 <=> i \in Paper!Written(c)
      BY <1>3, <2>1, <3>1
    <3>4. Shows(screen, screen', 1, 0, Paper!Ink(c), Paper!Target(c)) /\ 1 \in Int /\ 0 \in Int
      BY <2>1, <2>2, <2>4, <3>1
    <3>3. Paper!Type(c)
      BY <2>2, <3>2, <3>4, TypeFromShows
    <3> QED BY <2>2, <3>3
  <2> QED BY <1>3, <2>3, <2>4
<1>10. CASE c \in {"NL", "CR"}
  <2> DEFINE start == p - (p % CRT_COLS)
  <2>1. /\ Paper!Target(c) = IF c = "NL" THEN start + CRT_COLS ELSE start
        /\ Paper!Written(c) = {} /\ Paper!Ink(c) = c
    BY <1>10 DEF Paper!Target, Paper!Written, Paper!Ink, p, Cursor
  <2>2. /\ OnRoll(screen', CRT_SIZE) /\ screen'.line = screen.line \o w
        /\ Shows(screen, screen', 1, 0, c, IF c = "NL" THEN start + CRT_COLS ELSE start)
    BY <1>1, <1>5, <1>6, <1>10, PutMove DEF p
  <2> HIDE DEF start
  <2>3. \A i \in Int : i \in 1..0 <=> i \in Paper!Written(c)
    BY <2>1
  <2>5. Shows(screen, screen', 1, 0, Paper!Ink(c), Paper!Target(c)) /\ 1 \in Int /\ 0 \in Int
    BY <2>1, <2>2
  <2>4. Paper!Type(c)
    BY <2>2, <2>3, <2>5, TypeFromShows
  <2> QED BY <2>2, <2>4
<1> QED BY <1>7, <1>8, <1>9, <1>10

\* The screen is the end of an endless roll, for a screen of any size and any
\* text: scrolling loses, repeats and moves nothing, also in the middle of a tab
\* (console.c:163-225).
THEOREM ScreenIsTerminal == Spec => ImplementsTerminal
<1> DEFINE Seen == OnRoll(screen, CRT_SIZE)
<1>1. Init => Seen /\ Paper!Init
  <2> SUFFICES ASSUME Init PROVE Seen /\ Paper!Init
    OBVIOUS
  <2>1. screen \in [buf : {[i \in Cells |-> "bios"]}, pos : Cursors, gone : {<<>>}, line : {<<>>}]
    BY DEF Init, CgaInit
  <2>2. /\ screen \in [buf : [Cells -> Glyphs], pos : 0..(CRT_SIZE - 1), gone : Seq(Glyphs), line : Seq(Glyphs)]
        /\ screen.gone = <<>> /\ screen.line = <<>>
    <3> DEFINE b == [i \in Cells |-> "bios"]
    <3>1. b \in [Cells -> Glyphs] /\ <<>> \in Seq(Glyphs)
      BY DEF Glyphs
    <3>2. Cursors \subseteq 0..(CRT_SIZE - 1)
      BY ScreenAssumption DEF Cells
    <3> HIDE DEF b
    <3>3. screen \in [buf : {b}, pos : Cursors, gone : {<<>>}, line : {<<>>}]
      BY <2>1 DEF b
    <3> QED BY <3>1, <3>2, <3>3
  <2>3. Rows(Len(screen.gone))
    <3>1. Len(screen.gone) = 0 /\ 0 * CRT_COLS = 0
      BY <2>2, ScreenSize
    <3> QED BY <3>1 DEF Rows
  <2>4. Seen
    BY <2>2, <2>3 DEF OnRoll
  <2>5. Len(View(screen)) = CRT_SIZE /\ Cursor(screen) = screen.pos
    BY <2>2, <2>4, ViewIs, ScreenSize DEF Cursor
  <2>6. Paper!Init
    BY <2>2, <2>5, ScreenSize DEF Paper!Init, View, Cursor, CRT_SIZE
  <2> QED BY <2>4, <2>6
<1>2. Seen /\ [Next]_vars => Seen' /\ [Paper!Next]_(Paper!vars)
  <2> SUFFICES ASSUME Seen, [Next]_vars PROVE Seen' /\ [Paper!Next]_(Paper!vars)
    OBVIOUS
  <2>1. UNCHANGED screen \/ \E c \in Chars : Cputchar(c)
    BY DEF Next, vars, DeviceStep, ConsGetc, Getchar, SerialIntr, KbdIntr, Call, Step, SerialProcData,
           SerialDone, KbdProcData, KbdDone, TakeChar, NoChar, Output
  <2>2. CASE UNCHANGED screen
    BY <2>2 DEF Paper!vars
  <2>3. CASE \E c \in Chars : Cputchar(c)
    BY <2>3, CputcharTypes DEF Paper!Next
  <2> QED BY <2>1, <2>2, <2>3
<1> QED BY <1>1, <1>2, PTL DEF Spec, ImplementsTerminal, Paper!Spec

-----------------------------------------------------------------------------
(* What is typed is what was meant. *)

\* Code x, decoded in state a, leaves state b and types what was meant.  A byte
\* of the mouse is not decoded.
Reads1(x, a, b) ==
  IF x.mouse THEN b = a
  ELSE Decoded(a, x.data).shift = b /\ Decoded(a, x.data).char = x.meant

\* So do the codes of q one after the other, through the states st.
Through(st, q, a, b) ==
  /\ DOMAIN st = 0..Len(q) /\ st[0] = a /\ st[Len(q)] = b
  /\ \A i \in 1..Len(q) : Reads1(q[i], st[i - 1], st[i])

Reads(q, a, b) == \E st : Through(st, q, a, b)

\* The codes that wait lead from the state of the keyboard driver to the flags as
\* the user means them, and each of those that are held down has its key.
KeyInv ==
  /\ mods \subseteq Flags
  /\ \A f \in {"SHIFT", "CTL", "ALT"} : f \in mods => \E k \in held : f \in k.flags
  /\ Reads(kbd, shift, mods)
  /\ decoded.got = decoded.meant

LEMMA ReadsNothing ==
  ASSUME NEW a, NEW b
  PROVE  Reads(<<>>, a, b) <=> a = b
<1>1. ASSUME a = b PROVE Reads(<<>>, a, b)
  <2> DEFINE st == [i \in 0..0 |-> a]
  <2>1. Through(st, <<>>, a, b)
    BY <1>1 DEF Through
  <2> QED BY <2>1 DEF Reads
<1>2. ASSUME Reads(<<>>, a, b) PROVE a = b
  BY <1>2 DEF Reads, Through
<1> QED BY <1>1, <1>2

LEMMA ReadsMore ==
  ASSUME NEW q \in Seq(Datum), NEW x \in Datum, NEW a, NEW b, NEW c,
         Reads(q, a, b), Reads1(x, b, c)
  PROVE  Reads(Append(q, x), a, c)
<1> DEFINE n == Len(q)
           r == Append(q, x)
<1>1. PICK st : Through(st, q, a, b)
  BY DEF Reads
<1>2. /\ n \in Nat /\ Len(r) = n + 1 /\ r[n + 1] = x
      /\ \A i \in 1..n : r[i] = q[i]
  OBVIOUS
<1> DEFINE tt == [i \in 0..(n + 1) |-> IF i = n + 1 THEN c ELSE st[i]]
<1>3. st[0] = a /\ st[n] = b /\ \A i \in 1..n : Reads1(q[i], st[i - 1], st[i])
  BY <1>1 DEF Through
<1> HIDE DEF n, r
<1>4. DOMAIN tt = 0..(n + 1) /\ tt[n + 1] = c /\ \A i \in 0..n : tt[i] = st[i]
  BY <1>2
<1> HIDE DEF tt
<1>5. ASSUME NEW i \in 1..(n + 1) PROVE Reads1(r[i], tt[i - 1], tt[i])
  <2>1. CASE i = n + 1
    <3>1. i - 1 = n /\ n \in 0..n
      BY <1>2, <2>1
    <3> QED BY <1>2, <1>3, <1>4, <2>1, <3>1
  <2>2. CASE i # n + 1
    <3>1. i \in 1..n /\ i \in 0..n /\ i - 1 \in 0..n
      BY <1>2, <2>2
    <3> QED BY <1>2, <1>3, <1>4, <3>1
  <2> QED BY <2>1, <2>2
<1>6. tt[0] = a
  BY <1>2, <1>3, <1>4
<1>7. Through(tt, r, a, c)
  BY <1>2, <1>4, <1>5, <1>6 DEF Through
<1> QED BY <1>7 DEF Reads, r

LEMMA ReadsOne ==
  ASSUME NEW q \in Seq(Datum), q # <<>>, NEW a, NEW b, Reads(q, a, b), ~Head(q).mouse
  PROVE  /\ Decoded(a, Head(q).data).char = Head(q).meant
         /\ Reads(Tail(q), Decoded(a, Head(q).data).shift, b)
<1> DEFINE n == Len(q)
           r == Tail(q)
           s == Decoded(a, Head(q).data).shift
<1>1. PICK st : Through(st, q, a, b)
  BY DEF Reads
<1>2. /\ n \in Nat /\ n > 0 /\ Len(r) = n - 1 /\ Head(q) = q[1]
      /\ \A i \in 1..(n - 1) : r[i] = q[i + 1]
  OBVIOUS
<1>3. st[0] = a /\ st[n] = b /\ \A i \in 1..n : Reads1(q[i], st[i - 1], st[i])
  BY <1>1 DEF Through
<1> DEFINE tt == [i \in 0..(n - 1) |-> st[i + 1]]
<1>4. Reads1(Head(q), a, st[1])
  <2>1. 1 \in 1..n /\ 1 - 1 = 0
    BY <1>2
  <2>2. Reads1(q[1], st[1 - 1], st[1])
    BY <1>3, <2>1
  <2> QED BY <1>2, <1>3, <2>1, <2>2
<1>5. Decoded(a, Head(q).data).char = Head(q).meant /\ st[1] = s
  BY <1>4 DEF Reads1
<1> HIDE DEF n, r, s
<1>6. DOMAIN tt = 0..(n - 1) /\ \A i \in 0..(n - 1) : tt[i] = st[i + 1]
  OBVIOUS
<1> HIDE DEF tt
<1>7. ASSUME NEW i \in 1..(n - 1) PROVE Reads1(r[i], tt[i - 1], tt[i])
  <2>1. /\ i \in 0..(n - 1) /\ i - 1 \in 0..(n - 1) /\ (i - 1) + 1 = i /\ i + 1 \in 1..n
        /\ (i + 1) - 1 = i
    BY <1>2
  <2>2. Reads1(q[i + 1], st[(i + 1) - 1], st[i + 1])
    BY <1>3, <2>1
  <2>3. tt[i - 1] = st[i] /\ tt[i] = st[i + 1]
    BY <1>6, <2>1
  <2> QED BY <1>2, <2>1, <2>2, <2>3
<1>8. tt[0] = s /\ tt[n - 1] = b
  <2>1. 0 \in 0..(n - 1) /\ n - 1 \in 0..(n - 1) /\ 0 + 1 = 1 /\ (n - 1) + 1 = n
    BY <1>2
  <2> QED BY <1>3, <1>5, <1>6, <2>1
<1>9. Through(tt, r, s, b)
  BY <1>2, <1>6, <1>7, <1>8 DEF Through
<1> QED BY <1>5, <1>9 DEF Reads, r, s

\* A code sets flags, or switches one, or neither.
LEMMA CodeFlags ==
  ASSUME NEW d
  PROVE  /\ shiftcode(d) \subseteq {"SHIFT", "CTL", "ALT"}
         /\ togglecode(d) \subseteq Toggles
         /\ shiftcode(d) = {} \/ togglecode(d) = {}
         /\ \A t \in togglecode(d) : togglecode(d) = {t}
<1>1. /\ shiftcode(d) \subseteq {"SHIFT", "CTL", "ALT"}
      /\ shiftcode(d) # {} => d \in {29, 157, 42, 54, 56, 184}
  BY DEF shiftcode
<1>2. /\ togglecode(d) \subseteq Toggles
      /\ togglecode(d) # {} => d \in {58, 69, 70}
      /\ \A t \in togglecode(d) : togglecode(d) = {t}
  BY DEF togglecode, Toggles
<1> QED BY <1>1, <1>2

\* The state of the driver before the last code of a key.
Escaped(k, m) == IF k.extended THEN m \cup {"E0ESC"} ELSE m

\* The flags with key k pressed, or released, when they were m.
On(k, m) ==
  IF k.flags \subseteq m /\ k.flags \subseteq Toggles THEN m \ k.flags ELSE m \cup k.flags
Off(k, m) == m \ (k.flags \ Toggles)

LEMMA PressDecoded ==
  ASSUME NEW k \in Keys, InTables(k), NEW m \in SUBSET Flags
  PROVE  /\ Decoded(Escaped(k, m), k.code).shift = On(k, m)
         /\ Decoded(Escaped(k, m), k.code).char = Typed(k, On(k, m))
<1> DEFINE e == Escaped(k, m)
           d == IF k.extended THEN k.code + 128 ELSE k.code
           on == Toggled((e \ {"E0ESC"}) \cup shiftcode(d), d)
           c == charcode(on)[d]
<1>1. k.code \in 0..127 /\ k.extended \in BOOLEAN /\ k.flags \subseteq Flags
  BY ConsoleAssumption
<1>2. "E0ESC" \notin m /\ "E0ESC" \notin Flags
  BY DEF Flags
<1>3. ("E0ESC" \in e <=> k.extended) /\ e \ {"E0ESC"} = m
  BY <1>1, <1>2 DEF Escaped
<1>4. Decoded(e, k.code) = Meaning(on, IF "CAPSLOCK" \in on THEN SwapCase(c) ELSE c)
  <2>1. Decoded(e, k.code) = Pressed(e, k.code)
    BY <1>1 DEF Decoded
  <2> DEFINE f == IF "E0ESC" \in e THEN k.code + 128 ELSE k.code
  <2>2. f = d
    BY <1>3
  <2>3. LET o == Toggled((e \ {"E0ESC"}) \cup shiftcode(f), f) IN
        Pressed(e, k.code) =
          Meaning(o, IF "CAPSLOCK" \in o THEN SwapCase(charcode(o)[f]) ELSE charcode(o)[f])
    BY DEF Pressed
  <2> HIDE DEF d, e, f
  <2> QED BY <2>1, <2>2, <2>3
<1>5. /\ k.flags = shiftcode(d) \cup togglecode(d)
      /\ k.plain = normalmap[d] /\ k.shifted = shiftmap[d] /\ k.control = ctlmap[d]
  BY DEF InTables
<1> HIDE DEF e, d
<1>6. on = On(k, m)
  <2>1. on = ((m \cup shiftcode(d)) \ togglecode(d)) \cup (togglecode(d) \ (m \cup shiftcode(d)))
    BY <1>3 DEF Toggled
  <2>2. CASE shiftcode(d) = {} /\ togglecode(d) = {}
    BY <1>5, <2>1, <2>2 DEF On
  <2>3. CASE shiftcode(d) # {}
    <3>1. togglecode(d) = {} /\ k.flags = shiftcode(d) /\ ~(k.flags \subseteq Toggles)
      <4>1. \A f \in {"SHIFT", "CTL", "ALT"} : f \notin Toggles
        BY DEF Toggles
      <4> QED BY <1>5, <2>3, <4>1, CodeFlags
    <3> QED BY <2>1, <3>1 DEF On
  <2>4. CASE togglecode(d) # {}
    <3>1. shiftcode(d) = {} /\ k.flags = togglecode(d) /\ k.flags \subseteq Toggles
      BY <1>5, <2>4, CodeFlags
    <3>2. PICK t : togglecode(d) = {t}
      BY <2>4, CodeFlags
    <3> QED BY <2>1, <3>1, <3>2 DEF On
  <2> QED BY <2>2, <2>3, <2>4
<1> HIDE DEF on
<1>7. c = IF "CTL" \in on THEN k.control ELSE IF "SHIFT" \in on THEN k.shifted ELSE k.plain
  BY <1>5 DEF charcode
<1> HIDE DEF c
<1>8. Typed(k, on) = IF "CAPSLOCK" \in on THEN SwapCase(c) ELSE c
  BY <1>7 DEF Typed
<1>9. Decoded(e, k.code) = Meaning(on, Typed(k, on))
  BY <1>4, <1>8
<1>10. Meaning(on, Typed(k, on)).shift = on /\ Meaning(on, Typed(k, on)).char = Typed(k, on)
  BY DEF Meaning
<1> QED BY <1>6, <1>9, <1>10 DEF e

LEMMA ReleaseDecoded ==
  ASSUME NEW k \in Keys, InTables(k), NEW m \in SUBSET Flags
  PROVE  /\ Decoded(Escaped(k, m), k.code + 128).shift = Off(k, m)
         /\ Decoded(Escaped(k, m), k.code + 128).char = NO
<1> DEFINE e == Escaped(k, m)
           d == IF k.extended THEN k.code + 128 ELSE k.code
<1>1. k.code \in 0..127 /\ k.code # 96 /\ k.extended \in BOOLEAN
  BY ConsoleAssumption DEF InTables
<1>2. "E0ESC" \notin m
  BY DEF Flags
<1>3. ("E0ESC" \in e <=> k.extended) /\ e \ {"E0ESC"} = m
  BY <1>1, <1>2 DEF Escaped
<1>4. d = IF "E0ESC" \in e THEN k.code + 128 ELSE (k.code + 128) - 128
  BY <1>1, <1>3
<1>5. k.code + 128 # 224 /\ k.code + 128 >= 128
  BY <1>1
<1>6. k.flags = shiftcode(d) \cup togglecode(d)
  BY DEF InTables
<1> HIDE DEF e, d
<1>7. Decoded(e, k.code + 128) = Meaning(e \ (shiftcode(d) \cup {"E0ESC"}), NO)
  BY <1>4, <1>5 DEF Decoded, Released
<1>8. k.flags \ Toggles = shiftcode(d)
  <2>1. \A f \in {"SHIFT", "CTL", "ALT"} : f \notin Toggles
    BY DEF Toggles
  <2> QED BY <1>6, <2>1, CodeFlags
<1>9. e \ (shiftcode(d) \cup {"E0ESC"}) = Off(k, m)
  BY <1>3, <1>8 DEF Off
<1>10. ASSUME NEW s PROVE Meaning(s, NO).shift = s /\ Meaning(s, NO).char = NO
  BY DEF Meaning
<1> QED BY <1>7, <1>9, <1>10 DEF e

\* The codes that a key brings: an escape perhaps, and its own.
LEMMA ReadsKey ==
  ASSUME NEW k \in Keys, NEW q \in Seq(Datum), NEW a, NEW m \in SUBSET Flags, NEW b,
         NEW x \in Datum, Reads(q, a, m), Reads1(x, Escaped(k, m), b)
  PROVE  Reads(q \o Escape(k) \o <<x>>, a, b)
<1> DEFINE esc == Code(224, NO)
           r == Append(q, esc)
<1>1. esc \in Datum /\ ~esc.mouse /\ esc.data = 224 /\ esc.meant = NO
  BY DEF Code, Datum, Bytes, NO
<1>2. Decoded(m, 224) = Meaning(m \cup {"E0ESC"}, NO)
  BY DEF Decoded
<1>3. Reads1(esc, m, m \cup {"E0ESC"})
  BY <1>1, <1>2 DEF Reads1, Meaning
<1>4. Escape(k) = IF k.extended THEN <<esc>> ELSE <<>>
  BY DEF Escape
<1> HIDE DEF esc
<1>5. CASE k.extended
  <2>1. Reads(r, a, m \cup {"E0ESC"}) /\ r \in Seq(Datum)
    BY <1>1, <1>3, ReadsMore
  <2>2. q \o Escape(k) \o <<x>> = Append(r, x)
    BY <1>1, <1>4, <1>5
  <2> HIDE DEF r
  <2>3. Reads1(x, m \cup {"E0ESC"}, b)
    BY <1>5 DEF Escaped
  <2> QED BY <2>1, <2>2, <2>3, ReadsMore
<1>6. CASE ~k.extended
  <2>1. q \o Escape(k) \o <<x>> = Append(q, x)
    BY <1>4, <1>6
  <2>2. Reads1(x, m, b)
    BY <1>6 DEF Escaped
  <2> QED BY <2>1, <2>2, ReadsMore
<1> QED BY <1>5, <1>6

LEMMA DevicesKeepKeyInv ==
  ASSUME RingInv, KeyInv, DeviceStep, \A k \in Keys : InTables(k)
  PROVE  KeyInv'
<1>1. /\ kbd \in Seq(Datum) /\ mods \in SUBSET Flags /\ Reads(kbd, shift, mods)
      /\ UNCHANGED <<shift, decoded>> /\ decoded.got = decoded.meant
      /\ \A f \in {"SHIFT", "CTL", "ALT"} : f \in mods => \E k \in held : f \in k.flags
  BY DEF RingInv, KeyInv, DeviceStep
<1>2. ASSUME NEW k \in Keys, PressKey(k) PROVE KeyInv'
  <2> DEFINE on == On(k, mods)
  <2>1. /\ held' = held \cup {k} /\ mods' = on
        /\ kbd' = kbd \o Escape(k) \o <<Code(k.code, Typed(k, on))>>
    BY <1>2 DEF PressKey, On
  <2>2. k.flags \subseteq Flags
    BY ConsoleAssumption
  <2> DEFINE x == Code(k.code, Typed(k, on))
  <2>3. x \in Datum /\ ~x.mouse /\ x.data = k.code /\ x.meant = Typed(k, on)
    <3>1. k.code \in Bytes /\ Typed(k, on) \in Int
      BY KeysBring
    <3> QED BY <3>1 DEF Code, Datum
  <2>4. Reads1(x, Escaped(k, mods), on)
    <3>1. /\ Decoded(Escaped(k, mods), k.code).shift = on
          /\ Decoded(Escaped(k, mods), k.code).char = Typed(k, on)
      BY <1>1, PressDecoded
    <3> QED BY <2>3, <3>1 DEF Reads1
  <2> HIDE DEF x
  <2>5. Reads(kbd \o Escape(k) \o <<x>>, shift, on)
    BY <1>1, <2>3, <2>4, ReadsKey
  <2>6. Reads(kbd, shift, mods)'
    BY <1>1, <2>1, <2>5 DEF x, Reads, Through, Reads1
  <2>7. on \subseteq Flags
    BY <1>1, <2>2 DEF On
  <2>8. ASSUME NEW f \in {"SHIFT", "CTL", "ALT"}, f \in on
        PROVE  \E l \in held' : f \in l.flags
    <3>1. f \in mods \/ f \in k.flags
      BY <2>8 DEF On
    <3> QED BY <1>1, <2>1, <3>1
  <2> QED BY <1>1, <2>1, <2>6, <2>7, <2>8 DEF KeyInv
<1>3. ASSUME NEW k \in Keys, ReleaseKey(k) PROVE KeyInv'
  <2> DEFINE off == Off(k, mods)
             b == k.code + 128
             x == Code(b, NO)
  <2>1. held' = held \ {k} /\ mods' = off /\ kbd' = kbd \o Escape(k) \o <<x>>
    BY <1>3 DEF ReleaseKey, Off
  <2>2. x \in Datum /\ ~x.mouse /\ x.data = b /\ x.meant = NO
    <3>1. Typed(k, {}) \in Int /\ b \in Bytes
      BY KeysBring
    <3> HIDE DEF b
    <3> QED BY <3>1 DEF Code, Datum, NO
  <2>3. Reads1(x, Escaped(k, mods), off)
    <3>1. Decoded(Escaped(k, mods), b).shift = off /\ Decoded(Escaped(k, mods), b).char = NO
      BY <1>1, ReleaseDecoded
    <3> QED BY <2>2, <3>1 DEF Reads1
  <2> HIDE DEF x
  <2>4. Reads(kbd \o Escape(k) \o <<x>>, shift, off)
    BY <1>1, <2>2, <2>3, ReadsKey
  <2>5. Reads(kbd, shift, mods)'
    BY <1>1, <2>1, <2>4 DEF Reads, Through, Reads1
  <2>6. off \subseteq Flags
    BY <1>1 DEF Off
  <2>7. ASSUME NEW f \in {"SHIFT", "CTL", "ALT"}, f \in off
        PROVE  \E l \in held' : f \in l.flags
    <3>1. f \in mods /\ f \notin k.flags
      BY <2>7 DEF Off, Toggles
    <3>2. PICK l \in held : f \in l.flags
      BY <1>1, <3>1
    <3>3. l # k
      BY <3>1, <3>2
    <3> QED BY <2>1, <3>2, <3>3
  <2> QED BY <1>1, <2>1, <2>5, <2>6, <2>7 DEF KeyInv
<1>4. ASSUME MouseMoves PROVE KeyInv'
  <2> DEFINE x == [data |-> 8, mouse |-> TRUE, meant |-> NO]
  <2>1. kbd' = Append(kbd, x) /\ UNCHANGED <<held, mods>>
    BY <1>4 DEF MouseMoves
  <2>2. x \in Datum /\ Reads1(x, mods, mods)
    BY DEF Datum, Bytes, NO, Reads1
  <2> HIDE DEF x
  <2>3. Reads(Append(kbd, x), shift, mods)
    BY <1>1, <2>2, ReadsMore
  <2>4. Reads(kbd, shift, mods)'
    BY <1>1, <2>1, <2>3 DEF Reads, Through, Reads1
  <2> QED BY <1>1, <2>1, <2>4 DEF KeyInv
<1>5. ASSUME NEW c, SerialArrives(c) PROVE KeyInv'
  <2>1. UNCHANGED <<kbd, held, mods>>
    BY <1>5 DEF SerialArrives
  <2> QED BY <1>1, <2>1 DEF KeyInv, Reads, Through, Reads1
<1> QED BY <1>2, <1>3, <1>4, <1>5 DEF DeviceStep

LEMMA CodeKeepsKeyInv ==
  ASSUME RingInv, KeyInv, KbdProcData
  PROVE  KeyInv'
<1> DEFINE m == Decoded(shift, Head(kbd).data)
<1>1. /\ kbd # <<>> /\ ~Head(kbd).mouse /\ shift' = m.shift /\ kbd' = Tail(kbd)
      /\ decoded' = [got |-> m.char, meant |-> Head(kbd).meant] /\ UNCHANGED <<held, mods>>
  BY DEF KbdProcData, CodeWaits
<1>2. kbd \in Seq(Datum) /\ Reads(kbd, shift, mods)
  BY DEF RingInv, KeyInv
<1>3. m.char = Head(kbd).meant /\ Reads(Tail(kbd), m.shift, mods)
  BY <1>1, <1>2, ReadsOne
<1> HIDE DEF m
<1>4. Reads(kbd, shift, mods)'
  BY <1>1, <1>3 DEF Reads, Through, Reads1
<1>5. decoded'.got = decoded'.meant
  BY <1>1, <1>3
<1> QED BY <1>1, <1>4, <1>5 DEF KeyInv

LEMMA NextKeyInv ==
  ASSUME \A k \in Keys : InTables(k)
  PROVE  RingInv /\ KeyInv /\ [Next]_vars => KeyInv'
<1> SUFFICES ASSUME RingInv, KeyInv, [Next]_vars PROVE KeyInv'
  OBVIOUS
<1>1. ASSUME UNCHANGED <<shift, kbd, held, mods, decoded>> PROVE KeyInv'
  BY <1>1 DEF KeyInv, Reads, Through, Reads1
<1>2. CASE DeviceStep
  BY <1>2, DevicesKeepKeyInv
<1>3. CASE KbdProcData
  BY <1>3, CodeKeepsKeyInv
<1>4. CASE ConsGetc \/ Getchar \/ SerialIntr \/ KbdIntr
  BY <1>1, <1>4 DEF ConsGetc, Getchar, SerialIntr, KbdIntr, Call, devices
<1>5. CASE SerialProcData \/ SerialDone \/ KbdDone \/ TakeChar \/ NoChar
  BY <1>1, <1>5 DEF SerialProcData, SerialDone, KbdDone, TakeChar, NoChar, devices
<1>6. CASE Output \/ UNCHANGED vars
  BY <1>1, <1>6 DEF Output, vars, inputvars, devices
<1> QED BY <1>2, <1>3, <1>4, <1>5, <1>6 DEF Next, Step

\* Whatever keys are pressed and released in whatever order, and wherever the
\* driver has got to when they are: each code types what it was meant to when the
\* key went down, and no modifier outlasts its keys (console.c:331-364).
THEOREM KeysAreUnderstood ==
  ASSUME \A k \in Keys : InTables(k)
  PROVE  Spec => []DecodedAsTyped
<1>1. Init => KeyInv
  <2> SUFFICES ASSUME Init PROVE KeyInv
    OBVIOUS
  <2>1. kbd = <<>> /\ shift = {} /\ mods = {} /\ decoded = [got |-> NO, meant |-> NO]
    BY DEF Init
  <2>2. Reads(kbd, shift, mods)
    BY <2>1, ReadsNothing
  <2> QED BY <2>1, <2>2 DEF KeyInv
<1>2. RingInv /\ KeyInv /\ [Next]_vars => KeyInv'
  BY NextKeyInv
<1>3. KeyInv => DecodedAsTyped
  <2> SUFFICES ASSUME KeyInv PROVE DecodedAsTyped
    OBVIOUS
  <2>1. kbd = <<>> => shift = mods
    BY ReadsNothing DEF KeyInv
  <2> QED BY <2>1 DEF KeyInv, DecodedAsTyped
<1> QED BY <1>1, <1>2, <1>3, RingInvariant, PTL DEF Spec
=============================================================================
