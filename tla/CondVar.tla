------------------------------- MODULE CondVar ------------------------------
(***************************************************************************)
(* Mutex locks and condition variables in shared memory                    *)
(* (project4/sysfile.c), for one mutex and one condition variable whose    *)
(* clients call cond_wait() and cond_signal() with the mutex, as upipe.c   *)
(* and condex.c do.                                                        *)
(*                                                                         *)
(* The spin lock inside the mutex and the one in every condition_node are  *)
(* explicit.  A condition_node lives on the kernel stack of its process    *)
(* while that is in cond_wait(), so it is named by the process.  sleep()   *)
(* is atomic (see SleepWakeup).                                            *)
(*                                                                         *)
(* kill() wakes both kinds of sleep.  The loop of lock_acquire() goes back *)
(* to sleep, but cond_wait() has no loop: the killed process leaves it     *)
(* with its node still in clist and with the mutex, and exits, with the    *)
(* mutex, on its way back to user space.                                   *)
(***************************************************************************)
EXTENDS Naturals, Sequences, FiniteSets

CONSTANTS Proc,     \* the processes that share the mutex
          Victims,  \* the processes that kill() is called for
          Nobody    \* a free spin lock; no node

ASSUME CondVarAssumption == Nobody \notin Proc /\ Victims \subseteq Proc

VARIABLES
  mlock,    \* Proc or Nobody: mlk->lock
  mvalue,   \* {0, 1}: mlk->value
  clist,    \* Seq(Proc): cv->clist
  nlock,    \* [Proc -> Proc or Nobody]: c_node.lock of the process's node
  node,     \* [Proc -> Proc or Nobody]: cond_signal()'s c_node
  waiting,  \* [Proc -> BOOLEAN]: its frame of cond_wait() exists
  killed,   \* [Proc -> BOOLEAN]
  pc        \* [Proc -> PC]

vars == <<mlock, mvalue, clist, nlock, node, waiting, killed, pc>>

PC == {"out", "acquire", "test", "asleep", "in", "release", "wake",
       "node", "presleep", "nodesleep", "nodewoken", "pop", "signal", "exited", "dead"}

TypeOK ==
  /\ mlock \in Proc \cup {Nobody}
  /\ mvalue \in {0, 1}
  /\ clist \in Seq(Proc)
  /\ nlock \in [Proc -> Proc \cup {Nobody}]
  /\ node \in [Proc -> Proc \cup {Nobody}]
  /\ waiting \in [Proc -> BOOLEAN]
  /\ killed \in [Proc -> BOOLEAN]
  /\ pc \in [Proc -> PC]

\* lock_init(mlk, 0); cond_init(cv).
Init ==
  /\ mlock = Nobody /\ mvalue = 0
  /\ clist = <<>>
  /\ nlock = [p \in Proc |-> Nobody]
  /\ node = [p \in Proc |-> Nobody]
  /\ waiting = [p \in Proc |-> FALSE]
  /\ killed = [p \in Proc |-> FALSE]
  /\ pc = [p \in Proc |-> "out"]

\* A system call: trap() sends a killed process to exit() instead.
Call(p, from, to) == ~killed[p] /\ pc[p] = from /\ pc' = [pc EXCEPT ![p] = to]

Step(p, from, to) == pc[p] = from /\ pc' = [pc EXCEPT ![p] = to]

-----------------------------------------------------------------------------
(* lock_acquire(mlk), called by a client or at the end of cond_wait()      *)

LockCall(p) ==
  /\ Call(p, "out", "acquire")
  /\ UNCHANGED <<mlock, mvalue, clist, nlock, node, waiting, killed>>

\* acquire(&mlk->lock), the first time or at the end of sleep().
LockEnter(p) ==
  /\ mlock = Nobody /\ mlock' = p
  /\ Step(p, "acquire", "test")
  /\ UNCHANGED <<mvalue, clist, nlock, node, waiting, killed>>

\* sleep(&mlk->value, &mlk->lock).
LockSleep(p) ==
  /\ mvalue = 1
  /\ Step(p, "test", "asleep")
  /\ mlock' = Nobody
  /\ UNCHANGED <<mvalue, clist, nlock, node, waiting, killed>>

\* Mutant: the value is not tested again after sleep().
LockTakeUntested(p) ==
  /\ Step(p, "test", "in")
  /\ mvalue' = 1
  /\ mlock' = Nobody
  /\ waiting' = [waiting EXCEPT ![p] = FALSE]
  /\ UNCHANGED <<clist, nlock, node, killed>>

\* mlk->value = 1; a cond_wait() that called returns.
LockTake(p) ==
  /\ mvalue = 0
  /\ Step(p, "test", "in")
  /\ mvalue' = 1
  /\ mlock' = Nobody
  /\ waiting' = [waiting EXCEPT ![p] = FALSE]
  /\ UNCHANGED <<clist, nlock, node, killed>>

-----------------------------------------------------------------------------
(* lock_release(mlk), called by a client or by cond_wait()                 *)

ReleaseCall(p) ==
  /\ mlock = Nobody /\ mlock' = p
  /\ Call(p, "in", "wake")
  /\ UNCHANGED <<mvalue, clist, nlock, node, waiting, killed>>

ReleaseInWait(p) ==
  /\ mlock = Nobody /\ mlock' = p
  /\ Step(p, "release", "wake")
  /\ UNCHANGED <<mvalue, clist, nlock, node, waiting, killed>>

\* Mutant: a cond_wait() in progress wakes nobody.
ReleaseQuiet(p) ==
  /\ pc[p] = "wake"
  /\ pc' = [q \in Proc |->
              IF q = p THEN IF waiting[p] THEN "node" ELSE "out"
              ELSE IF pc[q] = "asleep" /\ ~waiting[p] THEN "acquire" ELSE pc[q]]
  /\ mvalue' = 0
  /\ mlock' = Nobody
  /\ UNCHANGED <<clist, nlock, node, waiting, killed>>

\* wakeup(&mlk->value); mlk->value = 0; release(&mlk->lock).  A woken process
\* still needs mlk->lock, so wakeup() and what follows are one step for it.
Release(p) ==
  /\ pc[p] = "wake"
  /\ pc' = [q \in Proc |->
              IF q = p THEN IF waiting[p] THEN "node" ELSE "out"
              ELSE IF pc[q] = "asleep" THEN "acquire" ELSE pc[q]]
  /\ mvalue' = 0
  /\ mlock' = Nobody
  /\ UNCHANGED <<clist, nlock, node, waiting, killed>>

-----------------------------------------------------------------------------
(* cond_wait(cv, mlk)                                                      *)

\* list_push_back(&cv->clist, &c_node.elem), with the mutex.
Wait(p) ==
  /\ Call(p, "in", "release")
  /\ waiting' = [waiting EXCEPT ![p] = TRUE]
  /\ clist' = Append(clist, p)
  /\ UNCHANGED <<mlock, mvalue, nlock, node, killed>>

\* After lock_release(): acquire(&c_node.lock).
NodeEnter(p) ==
  /\ nlock[p] = Nobody /\ nlock' = [nlock EXCEPT ![p] = p]
  /\ Step(p, "node", "presleep")
  /\ UNCHANGED <<mlock, mvalue, clist, node, waiting, killed>>

\* sleep(&c_node.lock, &c_node.lock).
NodeSleep(p) ==
  /\ Step(p, "presleep", "nodesleep")
  /\ nlock' = [nlock EXCEPT ![p] = Nobody]
  /\ UNCHANGED <<mlock, mvalue, clist, node, waiting, killed>>

\* sleep() takes c_node.lock again and it is released; on to lock_acquire().
NodeReturn(p) ==
  /\ Step(p, "nodewoken", "acquire")
  /\ nlock[p] = Nobody
  /\ UNCHANGED <<mlock, mvalue, clist, nlock, node, waiting, killed>>

-----------------------------------------------------------------------------
(* cond_signal(cv)                                                         *)

\* Mutant: the node is read but not taken out of the list.
SignalPopKeeps(p) ==
  /\ clist # <<>>
  /\ Call(p, "in", "pop")
  /\ node' = [node EXCEPT ![p] = Head(clist)]
  /\ UNCHANGED <<mlock, mvalue, clist, nlock, waiting, killed>>

\* list_pop_front(); with an empty list cond_signal() returns and nothing
\* changes.
SignalPop(p) ==
  /\ clist # <<>>
  /\ Call(p, "in", "pop")
  /\ node' = [node EXCEPT ![p] = Head(clist)]
  /\ clist' = Tail(clist)
  /\ UNCHANGED <<mlock, mvalue, nlock, waiting, killed>>

\* acquire(&c_node->lock).
SignalEnter(p) ==
  /\ Step(p, "pop", "signal")
  /\ nlock[node[p]] = Nobody /\ nlock' = [nlock EXCEPT ![node[p]] = p]
  /\ UNCHANGED <<mlock, mvalue, clist, node, waiting, killed>>

\* Mutant: release(&c_node->lock) is missing.
SignalWakeKeepsLock(p) ==
  /\ pc[p] = "signal"
  /\ pc' = [pc EXCEPT ![p] = "in",
                      ![node[p]] = IF @ = "nodesleep" THEN "nodewoken" ELSE @]
  /\ node' = [node EXCEPT ![p] = Nobody]
  /\ UNCHANGED <<mlock, mvalue, clist, nlock, waiting, killed>>

\* wakeup(&c_node->lock); release(&c_node->lock).
SignalWake(p) ==
  /\ pc[p] = "signal"
  /\ pc' = [pc EXCEPT ![p] = "in",
                      ![node[p]] = IF @ = "nodesleep" THEN "nodewoken" ELSE @]
  /\ nlock' = [nlock EXCEPT ![node[p]] = Nobody]
  /\ node' = [node EXCEPT ![p] = Nobody]
  /\ UNCHANGED <<mlock, mvalue, clist, waiting, killed>>

-----------------------------------------------------------------------------
(* kill() and the exit that trap() makes of it.                            *)

\* Either sleep() returns early; neither caller looks at proc->killed.
Kill(p) ==
  /\ ~killed[p] /\ pc[p] # "exited"
  /\ killed' = [killed EXCEPT ![p] = TRUE]
  /\ pc' = [pc EXCEPT ![p] = CASE @ = "asleep" -> "acquire"
                               [] @ = "nodesleep" -> "nodewoken"
                               [] OTHER -> @]
  /\ UNCHANGED <<mlock, mvalue, clist, nlock, node, waiting>>

\* A process that has the mutex takes it to its grave.
Exit(p) ==
  /\ killed[p] /\ pc[p] \in {"out", "in"}
  /\ pc' = [pc EXCEPT ![p] = IF @ = "in" THEN "dead" ELSE "exited"]
  /\ UNCHANGED <<mlock, mvalue, clist, nlock, node, waiting, killed>>

-----------------------------------------------------------------------------
(* What a process executes once it is inside a call, and what it chooses.  *)

Kernel(p) ==
  \/ LockEnter(p) \/ LockSleep(p) \/ LockTake(p)
  \/ ReleaseInWait(p) \/ Release(p)
  \/ NodeEnter(p) \/ NodeSleep(p) \/ NodeReturn(p)
  \/ SignalEnter(p) \/ SignalWake(p)
  \/ Exit(p)

User(p) == LockCall(p) \/ ReleaseCall(p) \/ Wait(p) \/ SignalPop(p)

Next ==
  \/ \E p \in Proc : Kernel(p) \/ User(p)
  \/ \E p \in Victims : Kill(p)

Spec == Init /\ [][Next]_vars

\* A process that can run is scheduled again and again, and nobody keeps the
\* mutex for ever.
FairSpec ==
  Spec /\ \A p \in Proc : SF_vars(Kernel(p)) /\ SF_vars(ReleaseCall(p) \/ Wait(p))

-----------------------------------------------------------------------------
(* Properties.                                                             *)

\* The process has the mutex.
HasMutex(p) ==
  pc[p] \in {"in", "release", "pop", "signal", "dead"} \/ (pc[p] = "wake" /\ mvalue = 1)

\* The mutex of lock_acquire() and lock_release() excludes, through every
\* path that cond_wait() gives it up and takes it back on; clist, which has
\* no lock of its own, is thereby accessed by one process at a time.
MutexExcludes ==
  /\ \A p, q \in Proc : HasMutex(p) /\ HasMutex(q) => p = q
  /\ mvalue = 1 <=> \E p \in Proc : HasMutex(p)

\* Nobody sleeps on a mutex that is free.
MutexWaiterInformed ==
  (\E p \in Proc : pc[p] = "asleep") => mvalue = 1

\* condition_node is a local variable of cond_wait().  No list operation and no
\* cond_signal() meets one whose frame is gone: a node in hand, or in clist,
\* belongs to a frame that exists, and none is there twice.  The node that a
\* killed process leaves behind in clist is harmless only because that process
\* also has the mutex, never to release it.
NodesInScope ==
  /\ \A p \in Proc : node[p] # Nobody =>
       waiting[node[p]] /\ \A i \in DOMAIN clist : clist[i] # node[p]
  /\ \A i \in DOMAIN clist :
       waiting[clist[i]] \/ (killed[clist[i]] /\ pc[clist[i]] \in {"in", "dead"})
  /\ \A i, j \in DOMAIN clist : clist[i] = clist[j] => i = j

\* While somebody wants the mutex, after lock_acquire() or on its way out of
\* cond_wait(), it does not stay free: mutex, node lock and the two sleeps
\* never wait for each other.  (Which process gets it is left open: a woken
\* one can lose to newcomers for ever, and a killed one may keep it.)
MutexPassedOn ==
  (\E p \in Proc : pc[p] \in {"acquire", "test", "asleep", "nodewoken"})
     ~> (\E p \in Proc : HasMutex(p))

\* sleep()'s "we won't miss any wakeup": who sleeps in cond_wait() can still be
\* woken, because its node is in clist or in the hands of a cond_signal().
SleeperQueued ==
  \A p \in Proc : pc[p] = "nodesleep" =>
    \/ \E i \in DOMAIN clist : clist[i] = p
    \/ \E q \in Proc : node[q] = p
=============================================================================
