----------------------------- MODULE TaskLinks -----------------------------
(***************************************************************************)
(* The doubly linked task queues of the kernel.  A task_t has ONE pair of   *)
(* next/prev fields, used by the run queues (src/multi/scheduler.c), the    *)
(* mutex wait lists (src/multi/mutex.c), the pipe waiter queues             *)
(* (src/file_system/pipe.c) and the tty, pty, keyboard and mouse waiters    *)
(* (src/drivers/tty_ldisc.c), so a task can be on one of them at a time.    *)
(*                                                                         *)
(* L is the content of all next/prev fields, Q a head/tail pair.  Each      *)
(* operator gives the fields after the C function of the same purpose, with *)
(* its assignments in the order of the code: on a queue that is not         *)
(* well formed the result is the one the code computes.                     *)
(***************************************************************************)
EXTENDS Naturals, Sequences

Nil == 0     \* NULL

\* rq_init, mutex_init: an empty queue.
EmptyQ == [head |-> Nil, tail |-> Nil]

\* Fields of a set of tasks none of which is on a queue.
NoLinks(T) == [next |-> [t \in T |-> Nil], prev |-> [t \in T |-> Nil]]

\* A store through a possibly NULL pointer guarded by "if (ptr)".
StoreIf(f, ptr, v) == IF ptr = Nil THEN f ELSE [f EXCEPT ![ptr] = v]

\* rq_enqueue_locked, waiter_enqueue, ldisc_waiter_enqueue, mutex_lock's list
\* code: append t at the tail.
EnqueueLinks(L, Q, t) ==
  [next |-> StoreIf([L.next EXCEPT ![t] = Nil], Q.tail, t),
   prev |-> [L.prev EXCEPT ![t] = Q.tail]]

EnqueueQ(Q, t) == [head |-> IF Q.tail = Nil THEN t ELSE Q.head, tail |-> t]

\* rq_dequeue_locked, waiter_pop, ldisc_waiter_pop, mutex_unlock's list code:
\* take the head of a queue that has one.
DequeueLinks(L, Q) ==
  LET t == Q.head
      h == L.next[t]
  IN [next |-> [L.next EXCEPT ![t] = Nil],
      prev |-> [StoreIf(L.prev, h, Nil) EXCEPT ![t] = Nil]]

DequeueQ(L, Q) ==
  LET h == L.next[Q.head]
  IN [head |-> h, tail |-> IF h = Nil THEN Nil ELSE Q.tail]

\* waiter_remove_self, ldisc_waiter_remove: the early return for a task that
\* does not look queued.
LooksQueued(L, Q, t) == L.next[t] # Nil \/ L.prev[t] # Nil \/ Q.head = t

\* waiter_remove_self, ldisc_waiter_remove: splice t out.
RemoveLinks(L, Q, t) ==
  LET p  == L.prev[t]
      n  == L.next[t]
      nx == StoreIf(L.next, p, n)
      pv == StoreIf(L.prev, nx[t], p)
  IN IF LooksQueued(L, Q, t)
     THEN [next |-> [nx EXCEPT ![t] = Nil], prev |-> [pv EXCEPT ![t] = Nil]]
     ELSE L

\* Variant: a task that is alone on the queue is taken for one that is not on it.
RemoveQNotAlone(L, Q, t) ==
  LET p == L.prev[t]
      n == L.next[t]
  IN IF n # Nil \/ p # Nil
     THEN [head |-> IF p = Nil /\ Q.head = t THEN n ELSE Q.head,
           tail |-> IF n = Nil /\ Q.tail = t THEN p ELSE Q.tail]
     ELSE Q

RemoveQ(L, Q, t) ==
  LET p == L.prev[t]
      n == L.next[t]
  IN IF LooksQueued(L, Q, t)
     THEN [head |-> IF p = Nil /\ Q.head = t THEN n ELSE Q.head,
           tail |-> IF n = Nil /\ Q.tail = t THEN p ELSE Q.tail]
     ELSE Q

-----------------------------------------------------------------------------
(* What the fields mean.                                                   *)

\* The n tasks met by following next from t (fewer when the chain ends).
Walk(L, t, n) ==
  LET next[u \in DOMAIN L.next \cup {Nil}] == IF u = Nil THEN Nil ELSE L.next[u]
      w[k \in 1 .. n] == IF k = 1 THEN t ELSE next[w[k - 1]]
      Met(u) == u # Nil
  IN SelectSeq(w, Met)

\* The queue as a sequence of tasks of T, head first.
AsSeq(L, Q, n) == IF Q.head = Nil THEN <<>> ELSE Walk(L, Q.head, n)

\* Forward and backward links agree along s, and head and tail are its ends.
Linked(L, Q, s) ==
  /\ Q.head = IF s = <<>> THEN Nil ELSE s[1]
  /\ Q.tail = IF s = <<>> THEN Nil ELSE s[Len(s)]
  /\ \A i \in 1 .. Len(s) :
       /\ L.next[s[i]] = IF i = Len(s) THEN Nil ELSE s[i + 1]
       /\ L.prev[s[i]] = IF i = 1 THEN Nil ELSE s[i - 1]
  /\ \A i, j \in 1 .. Len(s) : s[i] = s[j] => i = j
=============================================================================
