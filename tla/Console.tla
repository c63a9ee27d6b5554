------------------------------- MODULE Console -------------------------------
(***************************************************************************)
(* Console input (project4/console.c): the keyboard's scan codes (kbd.c)   *)
(* and the serial line (uart.c) feed consoleintr(), which edits a line in  *)
(* the ring input, and processes read it with consoleread().               *)
(*                                                                         *)
(* A step is a section under cons.lock.  The echo on the screen and the    *)
(* serial line is left out.                                                *)
(***************************************************************************)
EXTENDS Naturals, Sequences, FiniteSets

CONSTANTS INPUT_BUF,   \* size of the ring
          Width,       \* the indices count modulo this, a multiple of INPUT_BUF
          Codes,       \* scan codes of the keyboard, without E0 and the release bit
          Serial,      \* characters that come over the serial line
          NREADERS,    \* processes that read
          ReadSize,    \* what each asks for
          MaxBytes,    \* bytes that the two devices deliver
          MaxReads     \* calls of consoleread() by each process

VARIABLES input,       \* the ring: buf, r, w, e
          shift,       \* the state of kbdgetc()
          down,        \* the modifier keys that are held down
          reader,      \* the readers: pc, n, killed, reads
          bytes,       \* bytes delivered so far
          line,        \* the line being edited, as a sequence
          lines        \* what was entered and not read yet, as a sequence

vars == <<input, shift, down, reader, bytes, line, lines>>

Reader == 1 .. NREADERS
NO == "no"
\* A key: its scan code and whether the keyboard sends E0 in front of it.
Modifiers == {<<FALSE, "ctl">>, <<TRUE, "ctl">>, <<FALSE, "lshift">>, <<FALSE, "rshift">>}

-----------------------------------------------------------------------------
(* kbdgetc()                                                               *)

shiftcode(ext, code) ==
  CASE code = "ctl" -> {"CTL"} [] code \in {"lshift", "rshift"} /\ ~ext -> {"SHIFT"} [] OTHER -> {}
togglecode(ext, code) == IF code = "capslock" /\ ~ext THEN {"CAPSLOCK"} ELSE {}

Letters == [a |-> <<"a", "A", "^A">>, d |-> <<"d", "D", "^D">>, u |-> <<"u", "U", "^U">>, p |-> <<"p", "P", "^P">>]
\* The entry of normalmap, shiftmap or ctlmap: level 1, 2 or 3.
charcode(level, ext, code) ==
  CASE code \in DOMAIN Letters /\ ~ext -> Letters[code][level]
    [] code = "enter" -> <<"\n", "\n", "\r">>[level]
    [] code = "backspace" /\ ~ext -> <<"^H", "^H", NO>>[level]
    [] OTHER -> NO
Level(sh) == IF "CTL" \in sh THEN 3 ELSE IF "SHIFT" \in sh THEN 2 ELSE 1
SwapCase(c) ==
  IF \E k \in DOMAIN Letters : c = Letters[k][1] THEN Letters[CHOOSE k \in DOMAIN Letters : c = Letters[k][1]][2]
  ELSE IF \E k \in DOMAIN Letters : c = Letters[k][2] THEN Letters[CHOOSE k \in DOMAIN Letters : c = Letters[k][2]][1]
  ELSE c

Symmetric(A, B) == (A \ B) \cup (B \ A)
Ext == "E0ESC" \in shift
Pressed(code) == Symmetric((shift \ {"E0ESC"}) \cup shiftcode(Ext, code), togglecode(Ext, code))
Released(code) == shift \ (shiftcode(Ext, code) \cup {"E0ESC"})
Char(sh, ext, code) ==
  LET c == charcode(Level(sh), ext, code) IN IF "CAPSLOCK" \in sh THEN SwapCase(c) ELSE c

-----------------------------------------------------------------------------
(* consoleintr(), for one character                                        *)

Slot(i) == i % INPUT_BUF
Held(i) == (i.e + Width - i.r) % Width
\* The characters from index a up to index b.
Ring(i, a, b) == [k \in 1 .. (b + Width - a) % Width |-> i.buf[Slot(a + k - 1)]]

\* The greatest of a set of numbers.
Most(S) == CHOOSE k \in S : \A j \in S : j <= k

\* The edit index after ^U: back over what is no newline, at most to w.
Erased(i) == {k \in 0 .. (i.e + Width - i.w) % Width : \A j \in 1 .. k : i.buf[Slot(i.e + Width - j)] # "\n"}
KillLine(i) == [i EXCEPT !.e = (@ + Width - Most(Erased(i))) % Width]

Room(i) == Held(i) < INPUT_BUF
\* Mutant: a full ring is not handed to the readers.
EntersNewline(i, c) == c \in {"\n", "^D"}
Enters(i, c) == c \in {"\n", "^D"} \/ Held(i) = INPUT_BUF
Newline(c) == IF c = "\r" THEN "\n" ELSE c
Put(i, c) == [i EXCEPT !.buf[Slot(i.e)] = c, !.e = (@ + 1) % Width]
Enter(i, c) == IF Enters(i, c) THEN [i EXCEPT !.w = i.e] ELSE i
Edited(i, c) ==
  CASE c = "^U" -> KillLine(i)
    [] c = "^H" -> IF i.e # i.w THEN [i EXCEPT !.e = (@ + Width - 1) % Width] ELSE i
    [] OTHER -> IF c \notin {NO, "^P"} /\ Room(i) THEN Enter(Put(i, Newline(c)), Newline(c)) ELSE i

Wakeup(q) == [p \in Reader |-> IF q[p].pc = "sleep" THEN [q[p] EXCEPT !.pc = "read"] ELSE q[p]]

\* The same edit on sequences: what a terminal promises.
Full == Len(lines) + Len(line) = INPUT_BUF
TypeChar(t, c) ==
  IF c \in {"\n", "^D"} \/ Len(lines) + Len(t) = INPUT_BUF THEN line' = <<>> /\ lines' = lines \o t
  ELSE line' = t /\ UNCHANGED lines
EditLine(c) ==
  CASE c = "^U" -> line' = <<>> /\ UNCHANGED lines
    [] c = "^H" -> line' = (IF line = <<>> THEN line ELSE SubSeq(line, 1, Len(line) - 1)) /\ UNCHANGED lines
    [] OTHER -> IF c \in {NO, "^P"} \/ Full THEN UNCHANGED <<line, lines>> ELSE TypeChar(Append(line, Newline(c)), Newline(c))

consoleintr(c) ==
  /\ input' = Edited(input, c)
  /\ reader' = IF input'.w # input.w THEN Wakeup(reader) ELSE reader
  /\ EditLine(c)

-----------------------------------------------------------------------------
(* The devices                                                             *)

Byte == bytes < MaxBytes /\ bytes' = bytes + 1

\* The keyboard sends E0, then the code; nothing comes in between.
KbdE0 ==
  /\ Byte /\ ~Ext
  /\ shift' = shift \cup {"E0ESC"}
  /\ UNCHANGED <<input, down, reader, line, lines>>
KbdPress(code) ==
  /\ Byte
  /\ shift' = Pressed(code)
  /\ down' = down \cup ({<<Ext, code>>} \cap Modifiers)
  /\ consoleintr(Char(shift', Ext, code))
KbdRelease(code) ==
  /\ Byte /\ <<Ext, code>> \in down
  /\ shift' = Released(code)
  /\ down' = down \ {<<Ext, code>>}
  /\ UNCHANGED <<input, reader, line, lines>>
uartintr(c) == ~Ext /\ Byte /\ consoleintr(c) /\ UNCHANGED <<shift, down>>

-----------------------------------------------------------------------------
(* consoleread()                                                           *)

\* Reading from ring i with n characters to go: ordinary characters, as many as
\* there are; then, if some are still to go, one that ends the line or the input.
Ordinary(i, n) ==
  {k \in 0 .. n : /\ k <= (i.w + Width - i.r) % Width
                  /\ \A j \in 1 .. k : i.buf[Slot(i.r + j - 1)] \notin {"\n", "^D"}}
Advanced(i, k) == [i EXCEPT !.r = (@ + k) % Width]
TakeEnd(i, n) ==
  CASE n = 0 -> [i |-> i, n |-> n, more |-> FALSE]
    [] n > 0 /\ i.r = i.w -> [i |-> i, n |-> n, more |-> TRUE]
    [] n > 0 /\ i.r # i.w /\ i.buf[Slot(i.r)] = "^D" ->
         [i |-> IF n < ReadSize THEN i ELSE Advanced(i, 1), n |-> n, more |-> FALSE]
    [] OTHER -> [i |-> Advanced(i, 1), n |-> n - 1, more |-> FALSE]
Take(i, n) == LET k == Most(Ordinary(i, n)) IN TakeEnd(Advanced(i, k), n - k)

ReadCall(p) ==
  /\ reader[p].pc = "user" /\ ~reader[p].killed /\ reader[p].reads < MaxReads
  /\ reader' = [reader EXCEPT ![p].pc = "read", ![p].n = ReadSize, ![p].reads = @ + 1]
  /\ UNCHANGED <<input, shift, down, bytes, line, lines>>

\* The reader holds cons.lock: it reads what there is, and returns or sleeps; one
\* that was killed returns -1 instead of sleeping.
Read(p) ==
  /\ reader[p].pc = "read" /\ ~(reader[p].killed /\ input.r = input.w)
  /\ LET t == Take(input, reader[p].n)
         sleeps == t.more /\ ~reader[p].killed
         k == (t.i.r + Width - input.r) % Width
     IN  /\ input' = t.i
         /\ lines' = SubSeq(lines, k + 1, Len(lines))
         /\ reader' = [reader EXCEPT ![p].pc = IF sleeps THEN "sleep" ELSE "user",
                                     ![p].n = IF sleeps THEN t.n ELSE 0]
  /\ UNCHANGED <<shift, down, bytes, line>>
ReadKilled(p) ==
  /\ reader[p].pc = "read" /\ reader[p].killed /\ input.r = input.w
  /\ reader' = [reader EXCEPT ![p].pc = "user", ![p].n = 0]
  /\ UNCHANGED <<input, shift, down, bytes, line, lines>>

Kill(p) ==
  /\ ~reader[p].killed
  /\ reader' = [reader EXCEPT ![p].killed = TRUE, ![p].pc = IF @ = "sleep" THEN "read" ELSE @]
  /\ UNCHANGED <<input, shift, down, bytes, line, lines>>

Init ==
  /\ input = [buf |-> [k \in 0 .. INPUT_BUF - 1 |-> NO], r |-> 0, w |-> 0, e |-> 0]
  /\ shift = {} /\ down = {} /\ bytes = 0 /\ line = <<>> /\ lines = <<>>
  /\ reader = [p \in Reader |-> [pc |-> "user", n |-> 0, killed |-> FALSE, reads |-> 0]]

Next ==
  \/ KbdE0 \/ \E code \in Codes : KbdPress(code) \/ KbdRelease(code)
  \/ \E c \in Serial : uartintr(c)
  \/ \E p \in Reader : ReadCall(p) \/ Read(p) \/ ReadKilled(p) \/ Kill(p)

Spec == Init /\ [][Next]_vars /\ \A p \in Reader : WF_vars(Read(p) \/ ReadKilled(p))

-----------------------------------------------------------------------------

\* The ring, whose indices wrap, holds exactly the characters that were entered and
\* not read, followed by the line being edited, in the order typed; a full ring has
\* been handed to the readers, nobody sleeps while there is something to read, and
\* a modifier is in force only while one of its keys is down.
InputInOrder ==
  /\ Ring(input, input.r, input.w) = lines
  /\ Ring(input, input.w, input.e) = line
  /\ Held(input) = INPUT_BUF => input.w = input.e
  /\ \A p \in Reader : reader[p].pc = "sleep" => input.r = input.w
  /\ \A m \in {"CTL", "SHIFT"} : m \in shift => \E k \in down : m \in shiftcode(k[1], k[2])
=============================================================================
