----------------------------- MODULE AtomicDisk -----------------------------
(***************************************************************************)
(* What the log promises to file system calls: the blocks of a set of      *)
(* finished calls become durable together, never while a call is active,   *)
(* and a crash loses all that is not durable and nothing else.  Writing a  *)
(* block moves it to its next version, so that a lost, stale or repeated   *)
(* update shows.                                                           *)
(***************************************************************************)
EXTENDS Naturals

CONSTANTS Thread, Block,
          NVAL      \* versions are counted modulo NVAL

VARIABLES mem,      \* [Block -> version]: what a read returns
          dur,      \* [Block -> version]: what a read returns after a crash
          open      \* the calls between begin_op() and end_op()

Init ==
  /\ dur = [b \in Block |-> 0]
  /\ mem = dur
  /\ open = {}

Begin(t) == t \notin open /\ open' = open \cup {t} /\ UNCHANGED <<mem, dur>>

Write(t, b) ==
  /\ t \in open
  /\ mem' = [mem EXCEPT ![b] = (@ + 1) % NVAL]
  /\ UNCHANGED <<dur, open>>

End(t) == t \in open /\ open' = open \ {t} /\ UNCHANGED <<mem, dur>>

Commit == open = {} /\ dur' = mem /\ UNCHANGED <<mem, open>>

Crash == mem' = dur /\ open' = {} /\ UNCHANGED dur

Next ==
  \/ Commit \/ Crash
  \/ \E t \in Thread : Begin(t) \/ End(t) \/ \E b \in Block : Write(t, b)

Spec == Init /\ [][Next]_<<mem, dur, open>>
=============================================================================
