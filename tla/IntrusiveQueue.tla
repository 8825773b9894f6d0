--------------------------- MODULE IntrusiveQueue ---------------------------
(***************************************************************************)
(* One intrusive task queue used the way its lock intends: a task is added  *)
(* only when it is on no queue.  waiter_remove_self may be called by any    *)
(* task that has been parked, whether or not it has been popped since.      *)
(***************************************************************************)
EXTENDS TaskLinks, FiniteSets

CONSTANT QTasks     \* positive naturals

ASSUME QTasksAssumption == QTasks \subseteq Nat \ {Nil} /\ IsFiniteSet(QTasks)

VARIABLES
  links,   \* the next and prev fields
  que,     \* head and tail
  parked   \* the tasks their own code believes to be on the queue

queueVars == <<links, que, parked>>

QueueInit ==
  /\ links = NoLinks(QTasks)
  /\ que = EmptyQ
  /\ parked = {}

\* A task parks itself.
Enqueue(t) ==
  /\ t \notin parked
  /\ links' = EnqueueLinks(links, que, t)
  /\ que' = EnqueueQ(que, t)
  /\ parked' = parked \cup {t}

\* A waker takes the head.
Dequeue ==
  /\ que.head # Nil
  /\ links' = DequeueLinks(links, que)
  /\ que' = DequeueQ(links, que)
  /\ parked' = parked \ {que.head}

\* A task that was woken splices itself out, if it is still queued.
RemoveSelf(t) ==
  /\ links' = RemoveLinks(links, que, t)
  /\ que' = RemoveQ(links, que, t)
  /\ parked' = parked \ {t}

\* waiter_drain_all: the whole chain is handed to the caller, which clears
\* each next field as it moves the task to its run queue.
DrainAll ==
  /\ que.head # Nil
  /\ links' = NoLinks(QTasks)
  /\ que' = EmptyQ
  /\ parked' = {}

QueueNext ==
  \/ \E t \in QTasks : Enqueue(t) \/ RemoveSelf(t)
  \/ Dequeue
  \/ DrainAll

QueueSpec == QueueInit /\ [][QueueNext]_queueVars

-----------------------------------------------------------------------------

\* The queue the links describe.
Queue == AsSeq(links, que, Cardinality(QTasks) + 1)

\* The queue operations keep the list a doubly linked list of exactly the
\* parked tasks, and leave no stale link in a task that is off it: the test
\* by which waiter_remove_self recognises a popped task stays exact.
WellFormed ==
  /\ Linked(links, que, Queue)
  /\ {Queue[i] : i \in DOMAIN Queue} = parked
  /\ \A t \in QTasks \ parked : links.next[t] = Nil /\ links.prev[t] = Nil

\* The queue code leaves no stale link, also when a popped task removes itself
\* (waiter_remove_self), and implements the FIFO queue: links that are not a
\* list of the parked tasks stand for no queue of tasks at all.
Fifo == INSTANCE FifoQueue WITH q <- IF WellFormed THEN Queue ELSE <<Nil>>, Tasks <- QTasks
QueueIsFifo == Fifo!Spec
=============================================================================
