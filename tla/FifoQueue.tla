----------------------------- MODULE FifoQueue -----------------------------
(***************************************************************************)
(* What a kernel task queue promises: tasks leave in the order they joined, *)
(* except that one may be taken out early and all may be taken at once.     *)
(***************************************************************************)
EXTENDS Sequences, SequencesExt

CONSTANT Tasks
VARIABLE q     \* the queue, head first

Init == q = <<>>

Enqueue(t)  == t \notin Range(q) /\ q' = Append(q, t)
Dequeue     == q # <<>> /\ q' = Tail(q)
Withdraw(t) == t \in Range(q) /\ q' = Remove(q, t)
DrainAll    == q # <<>> /\ q' = <<>>

Next ==
  \/ \E t \in Tasks : Enqueue(t) \/ Withdraw(t)
  \/ Dequeue
  \/ DrainAll

Spec == Init /\ [][Next]_q
=============================================================================
