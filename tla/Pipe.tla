------------------------------- MODULE Pipe -------------------------------
(***************************************************************************)
(* Pipes and FIFOs: src/file_system/pipe.c.  Readers and writers open a     *)
(* FIFO (or start with the two ends of an anonymous pipe), transfer bytes   *)
(* through the ring, park on its waiter queues and close.                   *)
(*                                                                         *)
(* Everything a call does between two calls of schedule() is under p->lock, *)
(* for opening and closing also under fifo_attach_lock, and is one step.    *)
(* The run queues are reduced to "a READY task runs again": MutexSched and  *)
(* IntrusiveQueue look at those.  Bytes are numbered in the order they are  *)
(* written to a pipe.                                                       *)
(***************************************************************************)
EXTENDS Naturals, Sequences, Functions, FiniteSets

CONSTANTS
  Readers, Writers,   \* the tasks using each side
  BufSize,            \* PIPE_BUF_SIZE
  MaxSize,            \* bound: largest read or write
  MaxBytes,           \* bound: bytes written to one pipe
  NumPipes,           \* bound: pipe_t allocations for the FIFO
  MaxOpens            \* bound: calls of fifo_open

ASSUME SizesAssumption ==
  /\ BufSize \in Nat \ {0} /\ MaxSize \in Nat \ {0}
  /\ MaxBytes \in Nat /\ NumPipes \in Nat \ {0}
  /\ MaxOpens \in Nat
  /\ IsFiniteSet(Readers) /\ IsFiniteSet(Writers) /\ Readers \cap Writers = {}

Tasks == Readers \cup Writers
Pipes == 1 .. NumPipes
NULL  == 0

VARIABLES
  fifo,    \* is this a FIFO (or an anonymous pipe)?
  inode,   \* inode->pipe
  pipe,    \* the pipe_t objects
  end,     \* each task's end->pipe: the pipe its file_t refers to
  opens,   \* calls of fifo_open so far
  pc,      \* what each task is doing
  todo,    \* bytes the current read or write still asks for
  state    \* task_t.state

vars == <<fifo, inode, pipe, end, opens, pc, todo, state>>

Fresh == [life |-> "unborn", head |-> 0, tail |-> 0,
          buf |-> [i \in 0 .. BufSize - 1 |-> 0],
          readers |-> 0, writers |-> 0,
          ever_readers |-> FALSE, ever_writers |-> FALSE,
          rwait |-> <<>>, wwait |-> <<>>]

\* pipe_alloc
PipeAlloc == [Fresh EXCEPT !.life = "live"]

\* pipe_create_pair: one file_t on each side.
InitAnonymous ==
  \E r \in Readers, w \in Writers :
    /\ fifo = FALSE
    /\ pipe = [p \in Pipes |->
         IF p = 1 THEN [PipeAlloc EXCEPT !.readers = 1, !.writers = 1] ELSE Fresh]
    /\ end = [t \in Tasks |-> IF t \in {r, w} THEN 1 ELSE NULL]
    /\ pc = [t \in Tasks |-> IF t \in {r, w} THEN "open" ELSE "new"]

InitFifo ==
  /\ fifo = TRUE
  /\ pipe = [p \in Pipes |-> Fresh]
  /\ end = [t \in Tasks |-> NULL]
  /\ pc = [t \in Tasks |-> "new"]

Init ==
  /\ InitAnonymous \/ InitFifo
  /\ inode = NULL
  /\ opens = 0
  /\ todo = [t \in Tasks |-> 0]
  /\ state = [t \in Tasks |-> "RUNNING"]

-----------------------------------------------------------------------------
(* The ring and the waiter queues.                                         *)

RingCount(P) == P.head - P.tail

RingSpace(P) == BufSize - RingCount(P)

Least(m, n) == IF m <= n THEN m ELSE n

\* The place of byte number k in the buffer.
Slot(k) == k % BufSize

\* ring_fill of n bytes behind byte number h: a slot receives the byte whose place it is.
Filled(buf, h, n) ==
  LET b(i) == CHOOSE k \in h .. h + BufSize - 1 : Slot(k) = i
  IN [i \in 0 .. BufSize - 1 |-> IF b(i) < h + n THEN b(i) ELSE buf[i]]

RingFill(P, n) == [P EXCEPT !.head = @ + n, !.buf = Filled(@, P.head, n)]

\* ring_drain of n bytes.
RingDrain(P, n) == [P EXCEPT !.tail = @ + n]

\* waiter_pop of each queue.
PopReader(P) == [P EXCEPT !.rwait = IF @ = <<>> THEN @ ELSE Tail(@)]
PopWriter(P) == [P EXCEPT !.wwait = IF @ = <<>> THEN @ ELSE Tail(@)]

\* waiter_drain_all of the queue on the other side than the caller's.
DrainPeers(P, side) ==
  IF side = "read" THEN [P EXCEPT !.wwait = <<>>] ELSE [P EXCEPT !.rwait = <<>>]

\* Everyone who left a queue between P and Q becomes READY.
Woken(P, Q) ==
  (Range(P.rwait) \ Range(Q.rwait)) \cup (Range(P.wwait) \ Range(Q.wwait))

Side(t) == IF t \in Readers THEN "read" ELSE "write"

\* Task t is running, or runs again after schedule().
CanRun(t) == state[t] \in {"RUNNING", "READY"}

\* waiter_remove_self: t is spliced out, wherever in the queue it is.
Unqueued(q, t) ==
  IF t \notin Range(q) THEN q
  ELSE LET at == CHOOSE i \in 1 .. Len(q) : q[i] = t
       IN [i \in 1 .. Len(q) - 1 |-> IF i < at THEN q[i] ELSE q[i + 1]]

\* The pipe t works on, once t holds p->lock and is off the waiter queues:
\* waiter_remove_self after schedule() returns.
Locked(t) ==
  LET P == pipe[end[t]]
  IN [P EXCEPT !.rwait = Unqueued(@, t), !.wwait = Unqueued(@, t)]

\* t leaves the critical section with the pipe in state P, at st.
Leave(t, P, st) ==
  /\ pipe' = [pipe EXCEPT ![end[t]] = P]
  /\ state' = [u \in Tasks |->
       IF u = t THEN st
       ELSE IF u \in Woken(pipe[end[t]], P) THEN "READY" ELSE state[u]]

\* waiter_enqueue of t on its side's queue.
Enqueue(P, t) ==
  IF Side(t) = "read" THEN [P EXCEPT !.rwait = Append(@, t)]
                      ELSE [P EXCEPT !.wwait = Append(@, t)]

-----------------------------------------------------------------------------
(* pipe_read                                                               *)

ReadCall(t, n) ==
  /\ pc[t] = "open" /\ t \in Readers /\ state[t] = "RUNNING"
  /\ pc' = [pc EXCEPT ![t] = "read"]
  /\ todo' = [todo EXCEPT ![t] = n]
  /\ UNCHANGED <<fifo, inode, pipe, end, opens, state>>

\* Data: take what there is and wake one writer.
ReadSome(t) ==
  LET P == Locked(t)
      n == Least(todo[t], RingCount(P))
  IN /\ pc[t] = "read" /\ CanRun(t) /\ RingCount(P) > 0
     /\ Leave(t, PopWriter(RingDrain(P, n)), "RUNNING")
     /\ pc' = [pc EXCEPT ![t] = "open"]
     /\ UNCHANGED <<fifo, inode, end, opens, todo>>

\* No data and no writers: end of file.
ReadEof(t) ==
  LET P == Locked(t) IN
  /\ pc[t] = "read" /\ CanRun(t) /\ RingCount(P) = 0 /\ P.writers = 0
  /\ Leave(t, P, "RUNNING")
  /\ pc' = [pc EXCEPT ![t] = "open"]
  /\ UNCHANGED <<fifo, inode, end, opens, todo>>

\* No data yet: park.
ReadPark(t) ==
  LET P == Locked(t) IN
  /\ pc[t] = "read" /\ CanRun(t) /\ RingCount(P) = 0 /\ P.writers > 0
  /\ Leave(t, Enqueue(P, t), "BLOCKED")
  /\ UNCHANGED <<fifo, inode, end, opens, pc, todo>>

-----------------------------------------------------------------------------
(* pipe_write                                                              *)

WriteCall(t, n) ==
  /\ pc[t] = "open" /\ t \in Writers /\ state[t] = "RUNNING"
  /\ pipe[end[t]].head + n <= MaxBytes
  /\ pc' = [pc EXCEPT ![t] = "write"]
  /\ todo' = [todo EXCEPT ![t] = n]
  /\ UNCHANGED <<fifo, inode, pipe, end, opens, state>>

\* Variant: looked at when the call begins, but not after a wakeup.
WriteBrokenOnEntry(t) ==
  LET P == Locked(t) IN
  /\ pc[t] = "write" /\ state[t] = "RUNNING" /\ P.readers = 0
  /\ Leave(t, P, "RUNNING")
  /\ pc' = [pc EXCEPT ![t] = "open"]
  /\ UNCHANGED <<fifo, inode, end, opens, todo>>

\* No readers left: -EPIPE (or a short count) and SIGPIPE to itself.
WriteBroken(t) ==
  LET P == Locked(t) IN
  /\ pc[t] = "write" /\ CanRun(t) /\ P.readers = 0
  /\ Leave(t, P, "RUNNING")
  /\ pc' = [pc EXCEPT ![t] = "open"]
  /\ UNCHANGED <<fifo, inode, end, opens, todo>>

\* Room: put in what fits, wake one reader, return when all is written.
WriteSome(t) ==
  LET P == Locked(t)
      n == Least(todo[t], RingSpace(P))
  IN /\ pc[t] = "write" /\ CanRun(t) /\ P.readers > 0 /\ RingSpace(P) > 0
     /\ Leave(t, PopReader(RingFill(P, n)), "RUNNING")
     /\ todo' = [todo EXCEPT ![t] = @ - n]
     /\ pc' = [pc EXCEPT ![t] = IF n = todo[t] THEN "open" ELSE "write"]
     /\ UNCHANGED <<fifo, inode, end, opens>>

\* Full: park.
WritePark(t) ==
  LET P == Locked(t) IN
  /\ pc[t] = "write" /\ CanRun(t) /\ P.readers > 0 /\ RingSpace(P) = 0
  /\ Leave(t, Enqueue(P, t), "BLOCKED")
  /\ UNCHANGED <<fifo, inode, end, opens, pc, todo>>

-----------------------------------------------------------------------------
(* pipe_close and fifo_open                                                *)

\* The counters after one file_t of a side is gone.
DropEnd(P, side) ==
  IF side = "read" THEN [P EXCEPT !.readers = IF @ > 0 THEN @ - 1 ELSE 0]
                   ELSE [P EXCEPT !.writers = IF @ > 0 THEN @ - 1 ELSE 0]

AddEnd(P, side) ==
  IF side = "read" THEN [P EXCEPT !.readers = @ + 1, !.ever_readers = TRUE]
                   ELSE [P EXCEPT !.writers = @ + 1, !.ever_writers = TRUE]

SideCount(P, side) == IF side = "read" THEN P.readers ELSE P.writers

Unused(P) == P.readers = 0 /\ P.writers = 0

\* pipe_free, and inode->pipe = NULL, when nobody uses the pipe any more.
FreeIfUnused(P) == IF Unused(P) THEN [P EXCEPT !.life = "freed"] ELSE P
Detach(P) == inode' = IF Unused(P) THEN NULL ELSE inode

\* Variant: only one of the tasks parked on the other side is woken.
CloseWakeOne(t) ==
  LET P == DropEnd(Locked(t), Side(t))
      Q == IF SideCount(P, Side(t)) = 0
           THEN IF Side(t) = "read" THEN PopWriter(P) ELSE PopReader(P) ELSE P
  IN /\ pc[t] = "open" /\ state[t] = "RUNNING"
     /\ Leave(t, FreeIfUnused(Q), "RUNNING")
     /\ Detach(P)
     /\ pc' = [pc EXCEPT ![t] = "closed"]
     /\ end' = [end EXCEPT ![t] = NULL]
     /\ UNCHANGED <<fifo, opens, todo>>

\* pipe_close: when a side empties, everyone parked on the other one is woken.
Close(t) ==
  LET P == DropEnd(Locked(t), Side(t))
      Q == IF SideCount(P, Side(t)) = 0 THEN DrainPeers(P, Side(t)) ELSE P
  IN /\ pc[t] = "open" /\ state[t] = "RUNNING"
     /\ Leave(t, FreeIfUnused(Q), "RUNNING")
     /\ Detach(Q)
     /\ pc' = [pc EXCEPT ![t] = "closed"]
     /\ end' = [end EXCEPT ![t] = NULL]
     /\ UNCHANGED <<fifo, opens, todo>>

\* fifo_open: has a peer ever been there?
PeerSeen(P, side) == IF side = "read" THEN P.ever_writers ELSE P.ever_readers

\* fifo_open up to the first schedule() or the end of its wait loop: attach a
\* pipe if there is none, count the new end, wake the peers parked for it.
OpenAttach(t) ==
  LET fresh == CHOOSE p \in Pipes : pipe[p].life = "unborn"
      p == IF inode = NULL THEN fresh ELSE inode
      P == DrainPeers(AddEnd(IF inode = NULL THEN PipeAlloc ELSE pipe[p], Side(t)),
                      Side(t))
      seen == PeerSeen(P, Side(t))
  IN /\ fifo
     /\ pc[t] \in {"new", "closed"} /\ opens < MaxOpens
     /\ opens' = opens + 1
     /\ inode = NULL => \E q \in Pipes : pipe[q].life = "unborn"
     /\ inode' = p
     /\ end' = [end EXCEPT ![t] = p]
     /\ pipe' = [pipe EXCEPT ![p] = IF seen THEN P ELSE Enqueue(P, t)]
     /\ state' = [u \in Tasks |->
          IF u = t THEN IF seen THEN "RUNNING" ELSE "BLOCKED"
          ELSE IF u \in Woken(pipe[p], P) THEN "READY" ELSE state[u]]
     /\ pc' = [pc EXCEPT ![t] = IF seen THEN "install" ELSE "opening"]
     /\ UNCHANGED <<fifo, todo>>

\* fifo_open resumes: go on if a peer has been there, park again otherwise.
OpenRetry(t) ==
  LET P == Locked(t)
      seen == PeerSeen(P, Side(t))
  IN /\ pc[t] = "opening" /\ state[t] = "READY"
     /\ IF seen THEN Leave(t, P, "RUNNING") ELSE Leave(t, Enqueue(P, t), "BLOCKED")
     /\ pc' = [pc EXCEPT ![t] = IF seen THEN "install" ELSE "opening"]
     /\ UNCHANGED <<fifo, inode, end, opens, todo>>

\* install_end, with the memory it needs.
OpenInstall(t) ==
  /\ pc[t] = "install"
  /\ pc' = [pc EXCEPT ![t] = "open"]
  /\ UNCHANGED <<fifo, inode, pipe, end, opens, todo, state>>

-----------------------------------------------------------------------------

Transfer(t) ==
  \/ ReadSome(t) \/ ReadEof(t) \/ ReadPark(t)
  \/ WriteBroken(t) \/ WriteSome(t) \/ WritePark(t)

Open(t) == OpenAttach(t) \/ OpenRetry(t) \/ OpenInstall(t)

TaskStep(t) ==
  \/ \E n \in 1 .. MaxSize : ReadCall(t, n) \/ WriteCall(t, n)
  \/ Transfer(t)
  \/ Open(t)
  \/ Close(t)

Next == \E t \in Tasks : TaskStep(t)
Spec == Init /\ [][Next]_vars

\* Task t's call in progress goes on.
Proceed(t) == Transfer(t) \/ OpenRetry(t) \/ OpenInstall(t)

\* A call in progress goes on when its task can run, and whoever has an end
\* open eventually closes it.
FairSpec ==
  /\ Spec
  /\ \A t \in Tasks : WF_vars(Proceed(t)) /\ SF_vars(Close(t))

-----------------------------------------------------------------------------
(* Properties                                                              *)

\* The bytes accepted from writers and not yet read are in the ring, in
\* order, wherever head and tail are: nothing is overwritten or lost.
BytesIntact ==
  \A p \in Pipes :
    /\ RingCount(pipe[p]) \in 0 .. BufSize
    /\ \A k \in pipe[p].tail .. pipe[p].head - 1 : pipe[p].buf[Slot(k)] = k

\* The counters agree with the ends in use, a pipe is freed exactly when its
\* last end is closed, and no task ever uses a freed pipe.
EndsCounted ==
  \A p \in Pipes :
    LET users == {t \in Tasks : end[t] = p} IN
    /\ pipe[p].readers = Cardinality(users \cap Readers)
    /\ pipe[p].writers = Cardinality(users \cap Writers)
    /\ pipe[p].life = "live" <=> users # {}
    /\ fifo /\ users # {} => inode = p

\* A side used by one task only, the case one wakeup per transfer is made for.
Alone(t) == Cardinality(IF Side(t) = "read" THEN Readers ELSE Writers) = 1

\* Nobody is parked past the event it waits for: a task parked in fifo_open
\* has never had a peer, and a writer that shares its side with no other is
\* parked only while the ring is full, a reader only while it is empty.
NobodyForgotten ==
  \A t \in Tasks : state[t] = "BLOCKED" =>
    LET P == pipe[end[t]] IN
    /\ t \in Range(P.rwait) \cup Range(P.wwait)
    /\ pc[t] = "opening" => ~PeerSeen(P, Side(t))
    /\ pc[t] = "read" /\ Alone(t) => RingCount(P) = 0
    /\ pc[t] = "write" /\ Alone(t) => RingSpace(P) = 0

\* A parked reader is never left behind by the last writer going away, nor a
\* writer by the last reader.
EndOfPeerSeen ==
  \A t \in Tasks : state[t] = "BLOCKED" =>
    LET P == pipe[end[t]] IN
    /\ pc[t] = "read" => P.writers > 0
    /\ pc[t] = "write" => P.readers > 0

\* Every read and every write returns, if every opener eventually closes.
\* (That needs MaxOpens: a writer that closes and opens again in time, for
\* ever, can keep a reader from seeing the end of file.)
CallsReturn ==
  \A t \in Tasks : pc[t] \in {"read", "write"} ~> pc[t] = "open"

\* Through opens, closes, transfers and reopenings of a FIFO (pipe_read, pipe_write,
\* pipe_close, fifo_open) bytes arrive once and in order, the end counts match the open
\* ends, and nobody stays parked past the byte, the space or the hangup it waits for.
PipeSound == BytesIntact /\ EndsCounted /\ NobodyForgotten /\ EndOfPeerSeen
=============================================================================
