-------------------------------- MODULE UPipe --------------------------------
(***************************************************************************)
(* The user-level pipe (project4/upipe.c) in shared memory, used as        *)
(* upipeex.c uses it: every call moves the same number of bytes, which     *)
(* divides the size of the pipe.                                           *)
(*                                                                         *)
(* A step is what a process does between taking the mutex and giving it    *)
(* up.  cond_wait() gives up the mutex before it sleeps, and a             *)
(* cond_signal() in between is lost, as CondVar shows.                     *)
(***************************************************************************)
EXTENDS Naturals, Sequences, FiniteSets

CONSTANTS Size,       \* bytes in the pipe
          N,          \* bytes that each call moves
          Writers,    \* the processes that write
          Readers,    \* the processes that read
          Calls       \* calls that each of them makes

VARIABLES pipe,       \* read_index, write_index, count, data
          mutex,      \* whether the lock in the first shared page is free
          cv,         \* the lists of cvFull and cvEmpty
          up,         \* the processes: pc, i, calls
          sent,       \* bytes written so far
          got         \* the bytes read, in order

vars == <<pipe, mutex, cv, up, sent, got>>

User == Writers \cup Readers

Init ==
  /\ pipe = [read_index |-> 0, write_index |-> 0, count |-> 0, data |-> [k \in 0 .. Size - 1 |-> 0]]
  /\ mutex = "free" /\ cv = [full |-> <<>>, empty |-> <<>>]
  /\ up = [p \in User |-> [pc |-> "user", i |-> 0, calls |-> 0]]
  /\ sent = 0 /\ got = <<>>

Call(p) ==
  /\ up[p].pc = "user" /\ up[p].calls < Calls
  /\ up' = [up EXCEPT ![p].pc = "lock", ![p].i = 0, ![p].calls = @ + 1]
  /\ UNCHANGED <<pipe, mutex, cv, sent, got>>

\* lock_acquire(), at the start of a call and at the end of cond_wait().
Lock(p) ==
  /\ up[p].pc = "lock" /\ mutex = "free"
  /\ mutex' = "held" /\ up' = [up EXCEPT ![p].pc = "locked"]
  /\ UNCHANGED <<pipe, cv, sent, got>>

\* cond_signal(c): the first node goes; its process wakes if it sleeps already.
Signalled(c) == IF cv[c] = <<>> THEN {} ELSE {Head(cv[c])}
Woken(q, c) ==
  [p \in User |-> IF p \in Signalled(c) /\ q[p].pc = "sleep" THEN [q[p] EXCEPT !.pc = "lock"] ELSE q[p]]
Popped(c) == [cv EXCEPT ![c] = IF @ = <<>> THEN @ ELSE Tail(@)]

\* cond_signal(s) and then the mutex is released, at the end of the call or in
\* cond_wait(w).
Leave(p, s) ==
  /\ up' = Woken([up EXCEPT ![p].pc = "user"], s)
  /\ cv' = Popped(s) /\ mutex' = "free"
Await(p, s, w, i) ==
  /\ up' = Woken([up EXCEPT ![p].pc = "wait", ![p].i = i], s)
  /\ cv' = [Popped(s) EXCEPT ![w] = Append(@, p)] /\ mutex' = "free"
Sleep(p) ==
  /\ up[p].pc = "wait"
  /\ up' = [up EXCEPT ![p].pc = "sleep"]
  /\ UNCHANGED <<pipe, mutex, cv, sent, got>>

\* The bytes that fit, up to the n that are left; then the call ends or waits.
Fits(n) == IF n <= Size - pipe.count THEN n ELSE Size - pipe.count
Filled(k) ==
  [pipe EXCEPT !.write_index = @ + k, !.count = @ + k,
     !.data = [j \in DOMAIN @ |-> IF \E b \in 0 .. k - 1 : j = (pipe.write_index + b) % Size
                                  THEN sent + 1 + (CHOOSE b \in 0 .. k - 1 : j = (pipe.write_index + b) % Size)
                                  ELSE @[j]]]
upipe_write(p) ==
  /\ p \in Writers /\ up[p].pc = "locked"
  /\ LET k == Fits(N - up[p].i)
     IN  /\ pipe' = Filled(k) /\ sent' = sent + k
         /\ IF up[p].i + k = N THEN Leave(p, "empty") ELSE Await(p, "empty", "full", up[p].i + k)
  /\ UNCHANGED got

\* Mutant: a reader that was woken does not look again.
NothingNew(p) == up[p].i = 0 /\ pipe.read_index = pipe.write_index
Nothing(p) == pipe.read_index = pipe.write_index
upipe_read(p) ==
  /\ p \in Readers /\ up[p].pc = "locked"
  /\ IF Nothing(p) THEN Await(p, "full", "empty", 1) /\ UNCHANGED <<pipe, got>>
     ELSE /\ got' = got \o [b \in 1 .. N |-> pipe.data[(pipe.read_index + b - 1) % Size]]
          /\ pipe' = [pipe EXCEPT !.read_index = @ + N, !.count = @ - N]
          /\ Leave(p, "full")
  /\ UNCHANGED sent

Next == \E p \in User : Call(p) \/ Lock(p) \/ Sleep(p) \/ upipe_write(p) \/ upipe_read(p)
Spec == Init /\ [][Next]_vars

-----------------------------------------------------------------------------

\* The bytes that the readers get are the bytes that the writers put in, each once
\* and in order, and count is what lies between the two indices and never more than
\* the pipe holds: a woken reader or writer can rely on neither the signal nor the
\* order in which the mutex is passed on.
BytesInOrder ==
  /\ got = [k \in 1 .. Len(got) |-> k] /\ Len(got) <= sent
  /\ pipe.count <= Size /\ pipe.read_index + pipe.count = pipe.write_index
=============================================================================
