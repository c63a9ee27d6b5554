------------------------------- MODULE Rings -------------------------------
(***************************************************************************)
(* The two rings that programs and users see, side by side: the user-level *)
(* pipe (UPipe) and the console's input (Console).  They share no state.   *)
(* RingProofs proves their properties for the sizes of RingsAssumption, of *)
(* which MCComponents checks one choice.                                   *)
(***************************************************************************)
EXTENDS Integers

CONSTANTS USize, N, Writers, Readers, Calls,                          \* UPipe
          INPUT_BUF, CWidth, Codes, Serial, NREADERS, ReadSize,      \* Console
          MaxBytes, MaxReads

VARIABLES upipe, mutex, cv, up, usent, got,                          \* UPipe
          input, shift, down, reader, bytes, line, lines             \* Console

U == INSTANCE UPipe WITH Size <- USize, pipe <- upipe, sent <- usent
C == INSTANCE Console WITH Width <- CWidth

\* upipeex.c's use of the pipe: a call moves as much as divides the size, and a
\* process reads or writes.
Sized ==
  /\ N \in Nat \ {0} /\ USize \in Nat \ {0} /\ USize % N = 0
  /\ Writers \cap Readers = {}

\* The console's indices wrap at a multiple of the ring's size that is greater
\* than it (2^32 and 128).
ConSized ==
  /\ INPUT_BUF \in Nat \ {0} /\ CWidth \in Nat \ {0} /\ INPUT_BUF < CWidth /\ CWidth % INPUT_BUF = 0
  /\ ReadSize \in Nat

ASSUME RingsAssumption == Sized /\ ConSized

\* upipe_read() returns what upipe_write() put in, in order and once, with
\* several readers and writers (upipe.c).
BytesInOrder == U!BytesInOrder

\* consoleread() returns what was typed, edited and entered, in order and once,
\* while the ring is full and its indices wrap; and kbdgetc() believes a
\* modifier held only while one of its keys is (console.c, kbd.c).
InputInOrder == C!InputInOrder
=============================================================================
