----------------------------- MODULE MutexSched -----------------------------
(***************************************************************************)
(* The mutex on the real scheduler: several CPUs, run queues and wait list  *)
(* threaded through the same next/prev fields of the tasks, preemption, and *)
(* the other way a task parks and is woken, sleep().  Sources:              *)
(* src/multi/{mutex,scheduler,signal}.c and src/wrappers/timer.c.           *)
(*                                                                         *)
(* Tasks are numbered; task c + 1 is the bootstrap task of CPU c, which     *)
(* never blocks.  Kernel code runs with interrupts off, so on a CPU it is   *)
(* atomic between calls of schedule(); mutex_unlock is split where it drops *)
(* m->guard before it queues the waiter it has made READY.                  *)
(***************************************************************************)
EXTENDS TaskLinks, SequencesExt, FiniteSets, Integers

CONSTANTS
  NumCpus,    \* cpus_active
  NumUsers    \* tasks that use the mutex and sleep

ASSUME SizesAssumption == NumCpus \in Nat \ {0} /\ NumUsers \in Nat

CPU   == 0 .. NumCpus - 1
Boot  == 1 .. NumCpus
Users == NumCpus + 1 .. NumCpus + NumUsers
Tasks == Boot \cup Users

\* task_t.home_cpu: tasks are dealt out round robin and never migrate.
Home(t) == (t - 1) % NumCpus

VARIABLES
  links,     \* next and prev of every task
  rq,        \* cpu_local_t.rq of every CPU
  mq,        \* m->wait_head and m->wait_tail
  locked,    \* m->locked
  owner,     \* m->owner
  state,     \* task_t.state
  at,        \* where each task is
  woken,     \* mutex_unlock's waiter, between guard and run queue
  sleepers,  \* each CPU's sleep queue, as a set: deadlines are abstracted
  current,   \* cpu_local_t.current
  insched    \* is the CPU inside schedule()?

mutexVars == <<mq, locked, owner>>
vars == <<links, rq, mutexVars, state, at, woken, sleepers, current, insched>>

\* The tasks have been created and queued in order; the bootstrap tasks run.
Init ==
  LET start == FoldLeft(
        LAMBDA a, t : [L  |-> EnqueueLinks(a.L, a.rq[Home(t)], t),
                       rq |-> [a.rq EXCEPT ![Home(t)] = EnqueueQ(@, t)]],
        [L |-> NoLinks(Tasks), rq |-> [c \in CPU |-> EmptyQ]],
        [i \in 1 .. NumUsers |-> NumCpus + i])
  IN /\ links = start.L
     /\ rq = start.rq
     /\ mq = EmptyQ /\ locked = 0 /\ owner = Nil
     /\ state = [t \in Tasks |-> IF t \in Boot THEN "RUNNING" ELSE "READY"]
     /\ at = [t \in Tasks |-> "out"]
     /\ woken = [t \in Tasks |-> Nil]
     /\ sleepers = [c \in CPU |-> {}]
     /\ current = [c \in CPU |-> c + 1]
     /\ insched = [c \in CPU |-> FALSE]

\* Task t is executing on its CPU, outside schedule().
Running(t) == current[Home(t)] = t /\ ~insched[Home(t)]

\* rq_enqueue_external
RqEnqueue(t) ==
  /\ links' = EnqueueLinks(links, rq[Home(t)], t)
  /\ rq' = [rq EXCEPT ![Home(t)] = EnqueueQ(@, t)]

-----------------------------------------------------------------------------
(* mutex_lock, mutex_unlock                                                *)

LockFree(t) ==
  /\ Running(t) /\ at[t] = "out" /\ locked = 0
  /\ locked' = 1
  /\ owner' = t
  /\ at' = [at EXCEPT ![t] = "in"]
  /\ UNCHANGED <<links, rq, mq, state, woken, sleepers, current, insched>>

\* Queue up, become BLOCKED and enter schedule().
LockPark(t) ==
  /\ Running(t) /\ at[t] = "out" /\ locked = 1
  /\ links' = EnqueueLinks(links, mq, t)
  /\ mq' = EnqueueQ(mq, t)
  /\ state' = [state EXCEPT ![t] = "BLOCKED"]
  /\ at' = [at EXCEPT ![t] = "parked"]
  /\ insched' = [insched EXCEPT ![Home(t)] = TRUE]
  /\ UNCHANGED <<rq, locked, owner, woken, sleepers, current>>

\* Variant: the mutex is released instead of handed over.
UnlockHandoffCleared(t) ==
  LET w == mq.head IN
  /\ Running(t) /\ at[t] = "in" /\ w # Nil
  /\ links' = DequeueLinks(links, mq)
  /\ mq' = DequeueQ(links, mq)
  /\ owner' = Nil /\ locked' = 0
  /\ state' = [state EXCEPT ![w] = "READY"]
  /\ at' = [at EXCEPT ![t] = "waking"]
  /\ woken' = [woken EXCEPT ![t] = w]
  /\ UNCHANGED <<rq, sleepers, current, insched>>

\* The section under m->guard when somebody waits.
UnlockHandoff(t) ==
  LET w == mq.head IN
  /\ Running(t) /\ at[t] = "in" /\ w # Nil
  /\ links' = DequeueLinks(links, mq)
  /\ mq' = DequeueQ(links, mq)
  /\ owner' = w
  /\ state' = [state EXCEPT ![w] = "READY"]
  /\ at' = [at EXCEPT ![t] = "waking"]
  /\ woken' = [woken EXCEPT ![t] = w]
  /\ UNCHANGED <<rq, locked, sleepers, current, insched>>

\* rq_enqueue_external(waiter), after the guard has been dropped.
UnlockWake(t) ==
  /\ Running(t) /\ at[t] = "waking"
  /\ RqEnqueue(woken[t])
  /\ at' = [at EXCEPT ![t] = "out"]
  /\ woken' = [woken EXCEPT ![t] = Nil]
  /\ UNCHANGED <<mutexVars, state, sleepers, current, insched>>

UnlockFree(t) ==
  /\ Running(t) /\ at[t] = "in" /\ mq.head = Nil
  /\ locked' = 0
  /\ owner' = Nil
  /\ at' = [at EXCEPT ![t] = "out"]
  /\ UNCHANGED <<links, rq, mq, state, woken, sleepers, current, insched>>

-----------------------------------------------------------------------------
(* sleep, the timer tick and schedule()                                    *)

Sleep(t) ==
  LET c == Home(t) IN
  /\ Running(t) /\ at[t] = "out"
  /\ sleepers' = [sleepers EXCEPT ![c] = @ \cup {t}]
  /\ state' = [state EXCEPT ![t] = "BLOCKED"]
  /\ at' = [at EXCEPT ![t] = "sleeping"]
  /\ insched' = [insched EXCEPT ![c] = TRUE]
  /\ UNCHANGED <<links, rq, mutexVars, woken, current>>

\* What waking the tasks of s, in that order, does to the links and the queue.
WakeAll(L, Q, s) ==
  FoldLeft(LAMBDA a, t : [L |-> EnqueueLinks(a.L, a.Q, t), Q |-> EnqueueQ(a.Q, t)],
           [L |-> L, Q |-> Q], s)

\* scheduler_tick: wake the sleepers whose deadline has passed, earliest
\* first, and call schedule() if the running task's slice is used up.
Tick(c) ==
  /\ ~insched[c] /\ at[current[c]] \in {"out", "in"}
  /\ \E expired \in SUBSET sleepers[c] : \E s \in SetToSeqs(expired) :
       LET after == WakeAll(links, rq[c], s) IN
       /\ links' = after.L
       /\ rq' = [rq EXCEPT ![c] = after.Q]
       /\ sleepers' = [sleepers EXCEPT ![c] = @ \ expired]
       /\ state' = [t \in Tasks |-> IF t \in expired THEN "READY" ELSE state[t]]
  /\ \E slice_over \in BOOLEAN : insched' = [insched EXCEPT ![c] = slice_over]
  /\ UNCHANGED <<mutexVars, at, woken, current>>

\* Where a task goes on when schedule() returns in it.
Resumed(t) ==
  CASE at[t] = "parked" -> "in"
    [] at[t] = "sleeping" -> "out"
    [] OTHER -> at[t]

\* Variant: the task queued last runs first.
ScheduleNewest(c) ==
  LET prev == current[c]
      next == rq[c].tail
      L    == RemoveLinks(links, rq[c], next)
      Q    == RemoveQ(links, rq[c], next)
      back == state[prev] = "RUNNING"
  IN /\ insched[c] /\ next # Nil
     /\ links' = IF back THEN EnqueueLinks(L, Q, prev) ELSE L
     /\ rq' = [rq EXCEPT ![c] = IF back THEN EnqueueQ(Q, prev) ELSE Q]
     /\ state' = [state EXCEPT ![prev] = IF back THEN "READY" ELSE @,
                               ![next] = "RUNNING"]
     /\ at' = [at EXCEPT ![next] = Resumed(next)]
     /\ current' = [current EXCEPT ![c] = next]
     /\ insched' = [insched EXCEPT ![c] = FALSE]
     /\ UNCHANGED <<mutexVars, woken, sleepers>>

\* schedule() with a task to switch to.  A prev that is still RUNNING is put
\* back at the tail; any other prev is left to its waker.
Schedule(c) ==
  LET prev == current[c]
      next == rq[c].head
      L    == DequeueLinks(links, rq[c])
      Q    == DequeueQ(links, rq[c])
      back == state[prev] = "RUNNING"
  IN /\ insched[c] /\ next # Nil
     /\ links' = IF back THEN EnqueueLinks(L, Q, prev) ELSE L
     /\ rq' = [rq EXCEPT ![c] = IF back THEN EnqueueQ(Q, prev) ELSE Q]
     /\ state' = [state EXCEPT ![prev] = IF back THEN "READY" ELSE @,
                               ![next] = "RUNNING"]
     /\ at' = [at EXCEPT ![next] = Resumed(next)]
     /\ current' = [current EXCEPT ![c] = next]
     /\ insched' = [insched EXCEPT ![c] = FALSE]
     /\ UNCHANGED <<mutexVars, woken, sleepers>>

\* schedule() with nothing else to run returns to a RUNNING prev.
ScheduleKeep(c) ==
  /\ insched[c] /\ rq[c].head = Nil /\ state[current[c]] = "RUNNING"
  /\ insched' = [insched EXCEPT ![c] = FALSE]
  /\ UNCHANGED <<links, rq, mutexVars, state, at, woken, sleepers, current>>

-----------------------------------------------------------------------------
(* A waker that does not look at what the task is parked on.               *)

\* signal_send, and task_exit's wake of a parent whose wait_target is 0
\* because it has not called waitpid yet: a BLOCKED task is made READY and
\* queued wherever it is parked.
WakeRegardless(t) ==
  /\ state[t] = "BLOCKED"
  /\ state' = [state EXCEPT ![t] = "READY"]
  /\ RqEnqueue(t)
  /\ UNCHANGED <<mutexVars, at, woken, sleepers, current, insched>>

-----------------------------------------------------------------------------

TaskStep(t) ==
  \/ LockFree(t) \/ LockPark(t)
  \/ UnlockHandoff(t) \/ UnlockWake(t) \/ UnlockFree(t)
  \/ Sleep(t)

Next ==
  \/ \E t \in Users : TaskStep(t)
  \/ \E c \in CPU : Tick(c) \/ Schedule(c) \/ ScheduleKeep(c)

Spec == Init /\ [][Next]_vars

\* The same with signals, or with children of the mutex users exiting.
SpecWithWakeRegardless == Init /\ [][Next \/ \E t \in Users : WakeRegardless(t)]_vars

\* Every holder releases the mutex and the timer keeps ticking; a task need
\* not take the mutex or sleep.
FairSpec ==
  /\ Spec
  /\ \A c \in CPU : WF_vars(Schedule(c) \/ ScheduleKeep(c)) /\ SF_vars(Tick(c) /\ insched'[c])
  /\ \A t \in Users : SF_vars(UnlockHandoff(t) \/ UnlockFree(t)) /\ WF_vars(UnlockWake(t))

-----------------------------------------------------------------------------
(* Properties                                                              *)

Bound == NumCpus + NumUsers + 1
RqSeq(c) == AsSeq(links, rq[c], Bound)
MqSeq == AsSeq(links, mq, Bound)

\* One pair of link fields is enough: the run queues and the wait list stay
\* doubly linked and disjoint, hold exactly the tasks that are READY (but for
\* one a mutex_unlock is about to queue) and the ones parked for the mutex.
ListsExact ==
  /\ \A c \in CPU : Linked(links, rq[c], RqSeq(c))
  /\ Linked(links, mq, MqSeq)
  /\ \A t \in Tasks :
       /\ t \in Range(MqSeq) <=> at[t] = "parked" /\ state[t] = "BLOCKED"
       /\ \A c \in CPU : t \in Range(RqSeq(c)) <=>
            /\ c = Home(t) /\ state[t] = "READY"
            /\ \A u \in Users : woken[u] # t

\* At most one task is between mutex_lock and mutex_unlock.
MutualExclusion ==
  \A t, u \in Tasks : at[t] = "in" /\ at[u] = "in" => t = u

\* The mutex on the intrusive lists implements the abstract mutex.
Abs == INSTANCE Mutex WITH
  Tasks   <- Users, NULL <- Nil,
  waiters <- MqSeq,
  state   <- [t \in Users |-> IF at[t] = "parked" THEN state[t] ELSE "RUNNING"],
  at      <- [t \in Users |-> IF at[t] \in {"in", "parked"} THEN at[t] ELSE "out"]
ImplementsMutex == Abs!Spec

\* Every mutex_lock returns, if every holder unlocks.
LockGranted == \A t \in Users : at[t] = "parked" ~> at[t] = "in"

\* With mutex, run queues and sleep queue sharing the links of a task, a task is on the one
\* list its state says, and every mutex_lock returns.
WaitersServed == []ListsExact /\ LockGranted
=============================================================================
