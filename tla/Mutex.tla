------------------------------- MODULE Mutex -------------------------------
(***************************************************************************)
(* The sleeping mutex of src/multi/mutex.c: what mutex_lock and             *)
(* mutex_unlock do to the lock word, the owner, the wait list and the run   *)
(* state of the tasks, with the scheduler reduced to "a READY task runs     *)
(* again some time later".  Each action is one section under m->guard.      *)
(* MutexSched adds the run queues, the CPUs and the intrusive lists.        *)
(***************************************************************************)
EXTENDS Naturals, Sequences

CONSTANT Tasks, NULL

ASSUME NullAssumption == NULL \notin Tasks

VARIABLES
  locked,    \* m->locked
  owner,     \* m->owner
  waiters,   \* m->wait_head .. m->wait_tail
  state,     \* task_t.state
  at         \* "out", "parked" inside mutex_lock, or "in": holding the mutex

vars == <<locked, owner, waiters, state, at>>

Init ==
  /\ locked = 0
  /\ owner = NULL
  /\ waiters = <<>>
  /\ state = [t \in Tasks |-> "RUNNING"]
  /\ at = [t \in Tasks |-> "out"]

\* mutex_lock finds the mutex free.
LockFree(t) ==
  /\ at[t] = "out" /\ locked = 0
  /\ locked' = 1
  /\ owner' = t
  /\ at' = [at EXCEPT ![t] = "in"]
  /\ UNCHANGED <<waiters, state>>

\* mutex_lock finds it taken, queues the task and parks it.
LockPark(t) ==
  /\ at[t] = "out" /\ locked = 1
  /\ waiters' = Append(waiters, t)
  /\ state' = [state EXCEPT ![t] = "BLOCKED"]
  /\ at' = [at EXCEPT ![t] = "parked"]
  /\ UNCHANGED <<locked, owner>>

\* schedule() returns inside mutex_lock, which returns without another look
\* at the mutex.
Resume(t) ==
  /\ at[t] = "parked" /\ state[t] = "READY"
  /\ state' = [state EXCEPT ![t] = "RUNNING"]
  /\ at' = [at EXCEPT ![t] = "in"]
  /\ UNCHANGED <<locked, owner, waiters>>

\* Variant: the lock word is cleared although the mutex is handed over.
UnlockHandoffCleared(t) ==
  /\ at[t] = "in" /\ waiters # <<>>
  /\ waiters' = Tail(waiters)
  /\ owner' = Head(waiters)
  /\ state' = [state EXCEPT ![Head(waiters)] = "READY"]
  /\ at' = [at EXCEPT ![t] = "out"]
  /\ locked' = 0

\* mutex_unlock hands the mutex, still locked, to the first waiter.
UnlockHandoff(t) ==
  /\ at[t] = "in" /\ waiters # <<>>
  /\ waiters' = Tail(waiters)
  /\ owner' = Head(waiters)
  /\ state' = [state EXCEPT ![Head(waiters)] = "READY"]
  /\ at' = [at EXCEPT ![t] = "out"]
  /\ UNCHANGED locked

\* mutex_unlock with nobody waiting.
UnlockFree(t) ==
  /\ at[t] = "in" /\ waiters = <<>>
  /\ locked' = 0
  /\ owner' = NULL
  /\ at' = [at EXCEPT ![t] = "out"]
  /\ UNCHANGED <<waiters, state>>

Next ==
  \E t \in Tasks :
    LockFree(t) \/ LockPark(t) \/ Resume(t) \/ UnlockHandoff(t) \/ UnlockFree(t)

Spec == Init /\ [][Next]_vars

-----------------------------------------------------------------------------

\* Every variable keeps its type.
TypeOK ==
  /\ locked \in {0, 1}
  /\ owner \in Tasks \cup {NULL}
  /\ waiters \in Seq(Tasks)
  /\ state \in [Tasks -> {"RUNNING", "BLOCKED", "READY"}]
  /\ at \in [Tasks -> {"out", "parked", "in"}]

\* At most one task is between mutex_lock and mutex_unlock, although a
\* resumed waiter never re-examines the lock word.
MutualExclusion ==
  \A t, u \in Tasks : at[t] = "in" /\ at[u] = "in" => t = u

\* The parked tasks are the queued ones, each queued once, plus at most the
\* one the mutex has been handed to; the owner is the task inside, or that one.
HandoffExact ==
  /\ \A i, j \in 1 .. Len(waiters) : waiters[i] = waiters[j] => i = j
  /\ \A i \in 1 .. Len(waiters) :
       at[waiters[i]] = "parked" /\ state[waiters[i]] = "BLOCKED"
  /\ \A t \in Tasks : at[t] = "parked" =>
       \/ state[t] = "BLOCKED" /\ \E i \in 1 .. Len(waiters) : waiters[i] = t
       \/ state[t] = "READY" /\ owner = t
  /\ \A t \in Tasks : at[t] = "in" => owner = t
  /\ owner # NULL => at[owner] # "out"
  /\ owner # NULL /\ at[owner] = "parked" => state[owner] = "READY"
  /\ locked = 1 <=> owner # NULL
  /\ waiters # <<>> => locked = 1

\* Nobody overtakes: mutex_lock succeeds at once only when nobody waits.
NoOvertaking ==
  [][\A t \in Tasks : at[t] = "out" /\ at'[t] = "in" => waiters = <<>>]_vars

\* What mutex_lock and mutex_unlock promise together: every section under m->guard leaves one
\* holder at most and the lock passed on exactly to a waiter that never looks at it again, and
\* lets nobody in ahead of a waiter.
MutexSound ==
  [][/\ MutualExclusion' /\ HandoffExact'
     /\ \A t \in Tasks : at[t] = "out" /\ at'[t] = "in" => waiters = <<>>]_vars
=============================================================================
