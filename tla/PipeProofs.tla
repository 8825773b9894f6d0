------------------------------ MODULE PipeProofs ------------------------------
(* PipeSound for any number of readers and writers, any ring size, any number of
   FIFO generations and reopenings: src/file_system/pipe.c.

   BytesIntact and EndsCounted are about the pipe_t alone; what keeps a parked task
   from being forgotten needs the queues as well.  PInv adds that a task is in its
   side's queue of its own pipe exactly while it is BLOCKED (QueuesFit), that what it
   waits for has not happened (ParkedFit), what a task's stage says of its end and its
   side (StagesFit), and that inode->pipe is a live pipe (InodeFits).  PipeStep is the
   step every critical section is an instance of: the pipe goes from one state to
   another, whoever left a queue becomes READY, and the caller runs on or parks.     *)
EXTENDS Pipe, FiniteSetTheorems, TLAPS

\* A pipe_t: reader tasks park on rwait, writer tasks on wwait.
PipeRec ==
  [life : {"unborn", "live", "freed"}, head : Nat, tail : Nat,
   buf : [0 .. BufSize - 1 -> Nat], readers : Nat, writers : Nat,
   ever_readers : BOOLEAN, ever_writers : BOOLEAN,
   rwait : Seq(Readers), wwait : Seq(Writers)]

\* Where a task can be.
Stages == {"new", "opening", "install", "open", "read", "write", "closed"}

\* What the variables hold.
TypeOK ==
  /\ fifo \in BOOLEAN /\ inode \in {NULL} \cup Pipes
  /\ pipe \in [Pipes -> PipeRec]
  /\ end \in [Tasks -> {NULL} \cup Pipes]
  /\ opens \in Nat
  /\ pc \in [Tasks -> Stages]
  /\ todo \in [Tasks -> Nat]
  /\ state \in [Tasks -> {"RUNNING", "READY", "BLOCKED"}]

\* A task has an end exactly between fifo_open and pipe_close, reads or writes on its own
\* side, and gives up the CPU only inside a call that can park.
StagesFit ==
  \A t \in Tasks :
    /\ end[t] = NULL <=> pc[t] \in {"new", "closed"}
    /\ pc[t] = "read" => t \in Readers
    /\ pc[t] = "write" => t \in Writers
    /\ state[t] # "RUNNING" => pc[t] \in {"read", "write", "opening"}

\* A task is once, and in the queue of its side of its pipe, while BLOCKED, and in none otherwise:
\* waiter_enqueue, waiter_pop, waiter_drain_all and waiter_remove_self.
QueuesFit ==
  \A p \in Pipes :
    /\ IsInjective(pipe[p].rwait) /\ IsInjective(pipe[p].wwait)
    /\ \A t \in Readers : t \in Range(pipe[p].rwait) <=> state[t] = "BLOCKED" /\ end[t] = p
    /\ \A t \in Writers : t \in Range(pipe[p].wwait) <=> state[t] = "BLOCKED" /\ end[t] = p

\* What t, parked at stage c, waits for has not happened to P.
Waits(t, P, c) ==
  /\ c = "opening" => ~PeerSeen(P, Side(t))
  /\ c = "read" => P.writers > 0 /\ (Alone(t) => RingCount(P) = 0)
  /\ c = "write" => P.readers > 0 /\ (Alone(t) => RingSpace(P) = 0)

\* Whoever is parked waits for something that has not happened.
ParkedFit == \A t \in Tasks : state[t] = "BLOCKED" => Waits(t, pipe[end[t]], pc[t])

\* inode->pipe is cleared before the pipe is freed.
InodeFits == inode # NULL => fifo /\ pipe[inode].life = "live"

\* The inductive invariant.
PInv == TypeOK /\ StagesFit /\ QueuesFit /\ ParkedFit /\ BytesIntact /\ EndsCounted /\ InodeFits

-----------------------------------------------------------------------------
(* The ring. *)

\* Quotient and remainder.
LEMMA Division ==
  ASSUME NEW B \in Nat \ {0}, NEW a \in Nat
  PROVE  /\ a \div B \in Nat /\ a % B \in 0 .. B - 1
         /\ a = B * (a \div B) + (a % B)
  OBVIOUS

\* Different multiples of B are at least B apart.
LEMMA NoMultiple ==
  ASSUME NEW B \in Nat \ {0}, NEW p \in Nat, NEW q \in Nat, p < q
  PROVE  B * p + B <= B * q
<1>1. PICK d \in Nat : q = p + 1 + d
  <2> WITNESS q - p - 1 \in Nat
  <2> QED OBVIOUS
<1>2. B * q = B * p + B + B * d
  BY <1>1
<1>3. B * d \in Nat /\ B * p \in Nat
  OBVIOUS
<1> QED BY <1>2, <1>3

\* A remainder is what is left over a multiple.
LEMMA Remainder ==
  ASSUME NEW B \in Nat \ {0}, NEW q \in Nat, NEW i \in 0 .. B - 1
  PROVE  (B * q + i) % B = i
<1>0. B * q \in Nat
  OBVIOUS
<1>1. PICK a \in Nat : a = B * q + i
  BY <1>0
<1>2. a = B * (a \div B) + (a % B) /\ a \div B \in Nat /\ a % B \in 0 .. B - 1
  BY Zenon, Division
<1>3. PICK e \in Nat : e = a \div B
  BY Zenon, <1>2
<1>4. ~ (e < q)
  BY <1>1, <1>2, <1>3, NoMultiple
<1>5. ~ (q < e)
  BY <1>1, <1>2, <1>3, NoMultiple
<1>6. e = q
  BY <1>4, <1>5
<1> QED BY <1>1, <1>2, <1>3, <1>6

\* Two numbers less than B apart with the same remainder are equal.
LEMMA ModUnique ==
  ASSUME NEW B \in Nat \ {0}, NEW a \in Nat, NEW b \in Nat,
         a <= b, b < a + B, a % B = b % B
  PROVE  a = b
<1>1. PICK p \in Nat, q \in Nat, r \in 0 .. B - 1 : a = B * p + r /\ b = B * q + r
  <2>1. a = B * (a \div B) + (a % B) /\ b = B * (b \div B) + (a % B)
    BY Zenon, Division
  <2>2. a \div B \in Nat /\ b \div B \in Nat /\ a % B \in 0 .. B - 1
    BY Zenon, Division
  <2> QED BY Zenon, <2>1, <2>2
<1>2. ~ (p < q)
  BY <1>1, NoMultiple
<1>3. ~ (q < p)
  BY <1>1, NoMultiple
<1> QED BY <1>1, <1>2, <1>3

\* The remainder comes back after B.
LEMMA ModNext ==
  ASSUME NEW B \in Nat \ {0}, NEW a \in Nat
  PROVE  (a + B) % B = a % B
<1>1. PICK p \in Nat, r \in 0 .. B - 1 : a = B * p + r /\ r = a % B
  <2>1. a = B * (a \div B) + (a % B)
    BY Zenon, Division
  <2> QED BY Zenon, <2>1, Division
<1>2. a + B = B * (p + 1) + r
  BY <1>1
<1>3. (B * (p + 1) + r) % B = r
  BY Remainder
<1> QED BY Zenon, <1>1, <1>2, <1>3

\* Among B consecutive numbers there is one with each remainder.
LEMMA ModOf ==
  ASSUME NEW B \in Nat \ {0}, NEW h \in Nat, NEW i \in 0 .. B - 1
  PROVE  \E k \in h .. h + B - 1 : k % B = i
<1>1. PICK p \in Nat, r \in 0 .. B - 1 : h = B * p + r
  BY Zenon, Division
<1>2. CASE r <= i
  <2>1. B * p + i \in h .. h + B - 1
    BY <1>1, <1>2
  <2> QED BY Zenon, <2>1, Remainder
<1>3. CASE i < r
  <2>1. B * (p + 1) + i = B * p + B + i
    OBVIOUS
  <2>2. B * (p + 1) + i \in h .. h + B - 1
    BY <1>1, <1>3, <2>1
  <2>3. p + 1 \in Nat
    OBVIOUS
  <2> QED BY Zenon, <2>2, <2>3, Remainder
<1> QED BY <1>2, <1>3

\* A byte has a place in the ring, the one of the byte BufSize later.
LEMMA SlotFacts ==
  ASSUME NEW k \in Nat
  PROVE  Slot(k) \in 0 .. BufSize - 1 /\ Slot(k + BufSize) = Slot(k)
BY Zenon, SizesAssumption, Division, ModNext DEF Slot

\* Bytes less than BufSize apart do not share a place.
LEMMA SlotUnique ==
  ASSUME NEW h \in Nat, NEW a \in Nat, NEW b \in Nat, Slot(a) = Slot(b),
         h <= a, a < h + BufSize, h <= b, b < h + BufSize
  PROVE  a = b
<1>1. BufSize \in Nat \ {0} /\ b < a + BufSize /\ a < b + BufSize
  BY SizesAssumption
<1>2. a % BufSize = b % BufSize /\ b % BufSize = a % BufSize
  BY Zenon DEF Slot
<1>3. CASE a <= b
  BY <1>1, <1>2, <1>3, ModUnique, Zenon
<1>4. CASE b <= a
  <2>1. b = a
    BY <1>1, <1>2, <1>4, ModUnique, Zenon
  <2> QED BY <2>1, Zenon
<1> QED BY <1>3, <1>4

\* BytesIntact of one pipe.
RingOK(P) ==
  /\ RingCount(P) \in 0 .. BufSize
  /\ \A k \in P.tail .. P.head - 1 : P.buf[Slot(k)] = k

\* Byte k of l .. h + n - 1 is where it belongs once n bytes were put behind byte h: b is the
\* byte that ring_fill would put at its place.
LEMMA FillByte ==
  ASSUME NEW l \in Nat, NEW h \in Nat, NEW n \in Nat, l <= h, h + n <= l + BufSize,
         NEW k \in l .. h + n - 1, NEW b \in Nat, NEW old, k < h => old = k,
         h <= b, b < h + BufSize, Slot(b) = Slot(k)
  PROVE  k = IF b < h + n THEN b ELSE old
<1>1. BufSize \in Nat /\ k \in Nat
  BY SizesAssumption
<1>2. CASE k >= h
  <2>1. h <= k /\ k < h + BufSize
    BY <1>1, <1>2
  <2>2. b = k
    BY <1>1, <2>1, SlotUnique, Zenon
  <2> QED BY <1>1, <2>2
<1>3. CASE k < h
  <2>1. k + BufSize \in Nat /\ Slot(k + BufSize) = Slot(b)
    BY <1>1, SlotFacts
  <2>2. h <= k + BufSize /\ k + BufSize < h + BufSize
    BY <1>1, <1>3
  <2>3. k + BufSize = b
    BY <2>1, <2>2, SlotUnique, Zenon
  <2> QED BY <1>1, <1>3, <2>3
<1> QED BY <1>1, <1>2, <1>3

\* ring_fill leaves the bytes of the ring in place and adds n more.
LEMMA FilledBytes ==
  ASSUME NEW l \in Nat, NEW h \in Nat, NEW n \in Nat, l <= h, h + n <= l + BufSize,
         NEW old \in [0 .. BufSize - 1 -> Nat], \A k \in l .. h - 1 : old[Slot(k)] = k
  PROVE  /\ Filled(old, h, n) \in [0 .. BufSize - 1 -> Nat]
         /\ \A k \in l .. h + n - 1 : Filled(old, h, n)[Slot(k)] = k
<1> DEFINE b(i) == CHOOSE k \in h .. h + BufSize - 1 : Slot(k) = i
           new == [i \in 0 .. BufSize - 1 |-> IF b(i) < h + n THEN b(i) ELSE old[i]]
<1>1. BufSize \in Nat \ {0}
  BY Zenon, SizesAssumption
<1>2. \A i \in 0 .. BufSize - 1 : b(i) \in h .. h + BufSize - 1 /\ Slot(b(i)) = i
  BY Zenon, <1>1, ModOf DEF Slot
<1>3. Filled(old, h, n) = new
  BY Zenon DEF Filled
<1> HIDE DEF b
<1>4. /\ \A i \in 0 .. BufSize - 1 : new[i] = IF b(i) < h + n THEN b(i) ELSE old[i]
      /\ new \in [0 .. BufSize - 1 -> Nat]
  BY <1>1, <1>2
<1> HIDE DEF new
<1>5. ASSUME NEW k \in l .. h + n - 1 PROVE new[Slot(k)] = k
  <2>0. k \in Nat
    OBVIOUS
  <2>1. k \in Nat /\ Slot(k) \in 0 .. BufSize - 1
    BY <2>0, SlotFacts, Zenon
  <2>2. k < h => old[Slot(k)] = k
    BY <2>1
  <2>3. PICK a \in Nat : a = b(Slot(k)) /\ h <= a /\ a < h + BufSize /\ Slot(a) = Slot(k)
    BY <1>1, <1>2, <2>1
  <2>4. k = IF a < h + n THEN a ELSE old[Slot(k)]
    BY ZenonT(30), <2>2, <2>3, FillByte
  <2> QED BY Zenon, <1>4, <2>1, <2>3, <2>4
<1> QED BY Zenon, <1>3, <1>4, <1>5

\* What ring_space leaves room for.
LEMMA RoomFacts ==
  ASSUME NEW h \in Nat, NEW l \in Nat, NEW n \in Nat, NEW s \in Nat, h - l \in 0 .. s, n <= s - (h - l)
  PROVE  l <= h /\ h + n <= l + s
  OBVIOUS

\* ring_fill of no more than ring_space bytes overwrites nothing.
LEMMA FillIntact ==
  ASSUME NEW P \in PipeRec, RingOK(P), NEW n \in Nat, n <= RingSpace(P)
  PROVE  /\ RingFill(P, n) \in PipeRec
         /\ RingOK(RingFill(P, n))
<1>1. PICK h \in Nat, l \in Nat, old \in [0 .. BufSize - 1 -> Nat] :
        h = P.head /\ l = P.tail /\ old = P.buf
  BY Zenon DEF PipeRec
<1>2. BufSize \in Nat \ {0}
  BY Zenon, SizesAssumption
<1>3. /\ l <= h /\ h + n <= l + BufSize
      /\ \A k \in l .. h - 1 : old[Slot(k)] = k
  <2>1. \A k \in l .. h - 1 : old[Slot(k)] = k
    BY Zenon, <1>1 DEF RingOK
  <2>2. h - l \in 0 .. BufSize /\ n <= BufSize - (h - l)
    BY Zenon, <1>1 DEF RingOK, RingCount, RingSpace
  <2>3. l <= h /\ h + n <= l + BufSize
    BY Zenon, <1>2, <2>2, RoomFacts
  <2> QED BY Zenon, <2>1, <2>3
<1>m. PICK m \in Nat : m = h + n
  OBVIOUS
<1>4. PICK new : m = h + n /\ new = Filled(old, h, n)
  BY <1>m
<1>a. new \in [0 .. BufSize - 1 -> Nat] /\ \A k \in l .. m - 1 : new[Slot(k)] = k
  <2>1. /\ Filled(old, h, n) \in [0 .. BufSize - 1 -> Nat]
        /\ \A k \in l .. h + n - 1 : Filled(old, h, n)[Slot(k)] = k
    BY <1>3, FilledBytes, Zenon
  <2> QED BY <1>4, <2>1
<1>5. PICK Q : Q = [P EXCEPT !.head = m, !.buf = new]
  BY Zenon
<1>6. Q \in PipeRec /\ Q.head = m /\ Q.tail = l /\ Q.buf = new
  BY Zenon, <1>1, <1>a, <1>5 DEF PipeRec
<1>7. RingOK(Q)
  BY <1>2, <1>3, <1>4, <1>a, <1>6 DEF RingOK, RingCount
<1>8. RingFill(P, n) = Q
  BY Zenon, <1>1, <1>4, <1>5 DEF RingFill
<1> QED BY Zenon, <1>6, <1>7, <1>8

\* ring_drain of no more than ring_count bytes leaves the rest.
LEMMA DrainIntact ==
  ASSUME NEW P \in PipeRec, RingOK(P), NEW n \in Nat, n <= RingCount(P)
  PROVE  /\ RingDrain(P, n) \in PipeRec
         /\ RingOK(RingDrain(P, n))
<1>1. /\ BufSize \in Nat /\ P.head \in Nat /\ P.tail \in Nat /\ P.tail + n \in Nat
  BY SizesAssumption DEF PipeRec
<1>2. PICK m \in Nat : m = P.tail + n
  BY Zenon, <1>1
<1>3. PICK Q : Q = [P EXCEPT !.tail = m]
  BY Zenon
<1>4. Q \in PipeRec /\ Q.head = P.head /\ Q.tail = m /\ Q.buf = P.buf
  BY Zenon, <1>3 DEF PipeRec
<1>5. RingOK(Q)
  BY <1>1, <1>2, <1>4 DEF RingOK, RingCount
<1> QED BY Zenon, <1>2, <1>3, <1>4, <1>5 DEF RingDrain

-----------------------------------------------------------------------------
(* The waiter queues. *)

\* waiter_pop takes the head out of the queue and nobody else.
LEMMA TailFacts ==
  ASSUME NEW S, NEW q \in Seq(S), IsInjective(q), q # <<>>
  PROVE  /\ Tail(q) \in Seq(S) /\ IsInjective(Tail(q))
         /\ Range(Tail(q)) = Range(q) \ {Head(q)} /\ Head(q) \in Range(q)
<1>1. /\ Len(q) \in Nat \ {0} /\ Tail(q) \in Seq(S) /\ Len(Tail(q)) = Len(q) - 1
      /\ DOMAIN q = 1 .. Len(q) /\ DOMAIN Tail(q) = 1 .. Len(q) - 1
      /\ \A i \in 1 .. Len(q) - 1 : Tail(q)[i] = q[i + 1]
      /\ Head(q) = q[1]
  OBVIOUS
<1>2. IsInjective(Tail(q))
  BY <1>1 DEF IsInjective
<1>3. Head(q) \in Range(q)
  BY <1>1 DEF Range
<1>4. ASSUME NEW e PROVE e \in Range(Tail(q)) <=> e \in Range(q) /\ e # Head(q)
  <2>1. ASSUME e \in Range(Tail(q)) PROVE e \in Range(q) /\ e # Head(q)
    <3>1. PICK i \in 1 .. Len(q) - 1 : e = q[i + 1]
      BY Zenon, <1>1, <2>1 DEF Range
    <3> QED BY <1>1, <3>1 DEF Range, IsInjective
  <2>2. ASSUME e \in Range(q), e # Head(q) PROVE e \in Range(Tail(q))
    <3>1. PICK i \in 1 .. Len(q) : e = q[i]
      BY Zenon, <1>1, <2>2 DEF Range
    <3>2. i - 1 \in 1 .. Len(q) - 1 /\ Tail(q)[i - 1] = e
      BY <1>1, <2>2, <3>1
    <3> QED BY Zenon, <1>1, <3>2 DEF Range
  <2> QED BY Zenon, <2>1, <2>2
<1> QED BY Zenon, <1>1, <1>2, <1>3, <1>4

\* waiter_enqueue adds the task.
LEMMA AppendFacts ==
  ASSUME NEW S, NEW q \in Seq(S), IsInjective(q), NEW t \in S, t \notin Range(q)
  PROVE  /\ Append(q, t) \in Seq(S) /\ IsInjective(Append(q, t))
         /\ Range(Append(q, t)) = Range(q) \cup {t}
<1>1. /\ Len(q) \in Nat /\ Append(q, t) \in Seq(S)
      /\ DOMAIN q = 1 .. Len(q) /\ DOMAIN Append(q, t) = 1 .. Len(q) + 1
      /\ \A i \in 1 .. Len(q) + 1 : Append(q, t)[i] = IF i <= Len(q) THEN q[i] ELSE t
  OBVIOUS
<1>2. \A i \in 1 .. Len(q) : q[i] # t
  BY Zenon, <1>1 DEF Range
<1>3. IsInjective(Append(q, t))
  BY <1>1, <1>2 DEF IsInjective
<1>4. ASSUME NEW e PROVE e \in Range(Append(q, t)) <=> e \in Range(q) \/ e = t
  <2>1. Append(q, t)[Len(q) + 1] = t /\ Len(q) + 1 \in 1 .. Len(q) + 1
    BY <1>1
  <2> QED BY <1>1, <2>1 DEF Range
<1> QED BY Zenon, <1>1, <1>3, <1>4

\* Nobody is in an empty queue.
LEMMA EmptyFacts ==
  /\ IsInjective(<<>>) /\ Range(<<>>) = {}
  /\ \A S : <<>> \in Seq(S)
BY DEF IsInjective, Range

-----------------------------------------------------------------------------
(* What a step does to the queues and to the parked tasks. *)

\* Readers wait in one queue, writers in the other.
LEMMA QueueTypes ==
  ASSUME NEW P \in PipeRec
  PROVE  Range(P.rwait) \subseteq Readers /\ Range(P.wwait) \subseteq Writers
BY DEF PipeRec, Range

\* A task that is not BLOCKED is in no queue: waiter_remove_self has nothing to take out.
LEMMA LockedSame ==
  ASSUME PInv, NEW t \in Tasks, end[t] # NULL, state[t] # "BLOCKED"
  PROVE  /\ end[t] \in Pipes /\ pipe[end[t]] \in PipeRec
         /\ Locked(t) = pipe[end[t]]
<1>1. end[t] \in Pipes /\ pipe[end[t]] \in PipeRec
  BY Zenon DEF PInv, TypeOK
<1>2. PICK P \in PipeRec : P = pipe[end[t]]
  BY Zenon, <1>1
<1>3. t \notin Range(P.rwait) /\ t \notin Range(P.wwait)
  <2>1. Range(P.rwait) \subseteq Readers /\ Range(P.wwait) \subseteq Writers
    BY Zenon, QueueTypes
  <2>2. t \in Readers => t \notin Range(P.rwait)
    BY Zenon, <1>1, <1>2 DEF PInv, QueuesFit
  <2>3. t \in Writers => t \notin Range(P.wwait)
    BY Zenon, <1>1, <1>2 DEF PInv, QueuesFit
  <2> QED BY Zenon, <2>1, <2>2, <2>3
<1>4. Locked(t) = [P EXCEPT !.rwait = P.rwait, !.wwait = P.wwait]
  BY <1>2, <1>3, Zenon DEF Locked, Unqueued
<1>5. [P EXCEPT !.rwait = P.rwait, !.wwait = P.wwait] = P
  BY Zenon DEF PipeRec
<1> QED BY <1>1, <1>2, <1>4, <1>5, Zenon

\* A step of t may take tasks out of the queues, and t is in its queue afterwards if it parks.
QueueHyp(t, P, Q, st) ==
  /\ IsInjective(Q.rwait) /\ IsInjective(Q.wwait)
  /\ Range(Q.rwait) \subseteq Range(P.rwait) \cup {t}
  /\ Range(Q.wwait) \subseteq Range(P.wwait) \cup {t}
  /\ t \in Readers => (t \in Range(Q.rwait) <=> st = "BLOCKED")
  /\ t \in Writers => (t \in Range(Q.wwait) <=> st = "BLOCKED")

\* A step of t brings pipe p to Q and t to st, and wakes who left a queue.
Moves(t, p, Q, st) ==
  /\ pipe' = [pipe EXCEPT ![p] = Q]
  /\ state' = [u \in Tasks |-> IF u = t THEN st
                               ELSE IF u \in Woken(pipe[p], Q) THEN "READY" ELSE state[u]]
  /\ \A u \in Tasks \ {t} : end'[u] = end[u] /\ pc'[u] = pc[u]
  /\ st = "BLOCKED" => end'[t] = p

\* Who is parked after a step of t was so before, and on p is still in a queue.
StayParked(t, p, Q) ==
  \A u \in Tasks \ {t} : state'[u] = "BLOCKED" =>
    state[u] = "BLOCKED" /\ (end[u] = p => u \in Range(Q.rwait) \cup Range(Q.wwait))

\* The queues still hold exactly who is BLOCKED.
LEMMA QueueStep ==
  ASSUME PInv, NEW t \in Tasks, state[t] # "BLOCKED", NEW p \in Pipes, NEW Q \in PipeRec,
         NEW st, QueueHyp(t, pipe[p], Q, st), Moves(t, p, Q, st)
  PROVE  QueuesFit' /\ StayParked(t, p, Q)
<1> USE DEF Moves
<1>0. pipe[p] \in PipeRec /\ pipe'[p] = Q /\ \A q \in Pipes \ {p} : pipe'[q] = pipe[q]
  BY Zenon DEF PInv, TypeOK
<1>1. /\ Range(Q.rwait) \subseteq Readers /\ Range(Q.wwait) \subseteq Writers
      /\ Range(pipe[p].rwait) \subseteq Readers /\ Range(pipe[p].wwait) \subseteq Writers
      /\ Readers \cap Writers = {} /\ Tasks = Readers \cup Writers
  BY Zenon, <1>0, QueueTypes, SizesAssumption DEF Tasks
<1>2. ASSUME NEW u \in Tasks \ {t}, state'[u] = "BLOCKED"
      PROVE  /\ state[u] = "BLOCKED" /\ u \notin Woken(pipe[p], Q)
             /\ end[u] = p => (u \in Readers => u \in Range(Q.rwait)) /\ (u \in Writers => u \in Range(Q.wwait))
  <2>1. state[u] = "BLOCKED" /\ u \notin Woken(pipe[p], Q)
    BY Zenon, <1>2
  <2> QED BY Zenon, <1>1, <2>1 DEF Woken, PInv, QueuesFit
<1>3. ASSUME NEW u \in Tasks \ {t}, u \in Range(Q.rwait) \cup Range(Q.wwait)
      PROVE  state'[u] = "BLOCKED" /\ end[u] = p
  <2>1. CASE u \in Range(Q.rwait)
    <3>1. u \in Range(pipe[p].rwait) /\ u \in Readers /\ u \notin Writers
      BY Zenon, <1>1, <2>1 DEF QueueHyp
    <3>2. state[u] = "BLOCKED" /\ end[u] = p /\ u \notin Woken(pipe[p], Q)
      BY Zenon, <1>1, <2>1, <3>1 DEF Woken, PInv, QueuesFit
    <3> QED BY Zenon, <3>2
  <2>2. CASE u \in Range(Q.wwait)
    <3>1. u \in Range(pipe[p].wwait) /\ u \in Writers /\ u \notin Readers
      BY Zenon, <1>1, <2>2 DEF QueueHyp
    <3>2. state[u] = "BLOCKED" /\ end[u] = p /\ u \notin Woken(pipe[p], Q)
      BY Zenon, <1>1, <2>2, <3>1 DEF Woken, PInv, QueuesFit
    <3> QED BY Zenon, <3>2
  <2> QED BY Zenon, <1>3, <2>1, <2>2
<1>4. state'[t] = st
  BY Zenon
<1>5. ASSUME NEW q \in Pipes \ {p}, NEW u \in Tasks
      PROVE  state'[u] = "BLOCKED" /\ end'[u] = q <=> state[u] = "BLOCKED" /\ end[u] = q
  <2>1. CASE u = t
    BY Zenon, <1>4, <2>1
  <2>2. CASE u # t
    <3>1. ASSUME state[u] = "BLOCKED", end[u] = q PROVE u \notin Woken(pipe[p], Q)
      BY <1>1, <3>1 DEF Woken, PInv, QueuesFit
    <3> QED BY Zenon, <1>2, <2>2, <3>1
  <2> QED BY Zenon, <2>1, <2>2
<1>6. ASSUME NEW q \in Pipes
      PROVE  /\ IsInjective(pipe'[q].rwait) /\ IsInjective(pipe'[q].wwait)
             /\ \A u \in Readers : u \in Range(pipe'[q].rwait) <=> state'[u] = "BLOCKED" /\ end'[u] = q
             /\ \A u \in Writers : u \in Range(pipe'[q].wwait) <=> state'[u] = "BLOCKED" /\ end'[u] = q
  <2>1. CASE q = p
    <3>1. IsInjective(Q.rwait) /\ IsInjective(Q.wwait)
      BY Zenon DEF QueueHyp
    <3>2. ASSUME NEW u \in Tasks \ {t}, u \in Readers
          PROVE  u \in Range(Q.rwait) <=> state'[u] = "BLOCKED" /\ end'[u] = p
      BY Zenon, <1>2, <1>3, <3>2
    <3>3. ASSUME NEW u \in Tasks \ {t}, u \in Writers
          PROVE  u \in Range(Q.wwait) <=> state'[u] = "BLOCKED" /\ end'[u] = p
      BY Zenon, <1>2, <1>3, <3>3
    <3>4. /\ t \in Readers => (t \in Range(Q.rwait) <=> state'[t] = "BLOCKED" /\ end'[t] = p)
          /\ t \in Writers => (t \in Range(Q.wwait) <=> state'[t] = "BLOCKED" /\ end'[t] = p)
      BY Zenon, <1>4 DEF QueueHyp
    <3> QED BY <1>0, <1>1, <2>1, <3>1, <3>2, <3>3, <3>4
  <2>2. CASE q # p
    <3>1. pipe'[q] = pipe[q]
      BY Zenon, <1>0, <2>2
    <3>2. /\ IsInjective(pipe[q].rwait) /\ IsInjective(pipe[q].wwait)
          /\ \A u \in Readers : u \in Range(pipe[q].rwait) <=> state[u] = "BLOCKED" /\ end[u] = q
          /\ \A u \in Writers : u \in Range(pipe[q].wwait) <=> state[u] = "BLOCKED" /\ end[u] = q
      BY Zenon DEF PInv, QueuesFit
    <3>3. \A u \in Tasks : state'[u] = "BLOCKED" /\ end'[u] = q <=> state[u] = "BLOCKED" /\ end[u] = q
      BY Zenon, <1>5, <2>2
    <3> QED BY Zenon, <1>1, <3>1, <3>2, <3>3
  <2> QED BY Zenon, <2>1, <2>2
<1> QED BY Zenon, <1>1, <1>2, <1>6 DEF QueuesFit, StayParked

\* Nobody who stays in a queue of p waits for what Q says has happened.
ParkHyp(t, p, Q, st) ==
  /\ st = "BLOCKED" => Waits(t, Q, pc'[t])
  /\ \A u \in Tasks \ {t} :
       state[u] = "BLOCKED" /\ end[u] = p /\ u \in Range(Q.rwait) \cup Range(Q.wwait)
         => Waits(u, Q, pc[u])

\* Nobody is parked past what it waits for.
LEMMA ParkedStep ==
  ASSUME PInv, NEW t \in Tasks, NEW p \in Pipes, NEW Q, NEW st,
         Moves(t, p, Q, st), StayParked(t, p, Q), ParkHyp(t, p, Q, st)
  PROVE  ParkedFit'
<1> USE DEF Moves, StayParked, ParkHyp
<1> SUFFICES ASSUME NEW u \in Tasks, state'[u] = "BLOCKED"
             PROVE  Waits(u, pipe'[end'[u]], pc'[u])
  BY Zenon DEF ParkedFit, Waits, PeerSeen, Side, Alone, RingCount, RingSpace
<1>1. pipe'[p] = Q /\ \A q \in Pipes \ {p} : pipe'[q] = pipe[q]
  BY Zenon DEF PInv, TypeOK
<1>2. CASE u = t
  BY Zenon, <1>1, <1>2
<1>3. CASE u # t
  <2>1. state[u] = "BLOCKED" /\ end'[u] = end[u] /\ pc'[u] = pc[u]
    BY Zenon, <1>3
  <2>2. end[u] \in Pipes
    BY Zenon, <2>1 DEF PInv, TypeOK, StagesFit
  <2>3. CASE end[u] = p
    BY Zenon, <1>1, <1>3, <2>1, <2>3
  <2>4. CASE end[u] # p
    <3>1. Waits(u, pipe[end[u]], pc[u])
      BY Zenon, <2>1 DEF PInv, ParkedFit
    <3> QED BY <1>1, <2>1, <2>2, <2>4, <3>1
  <2> QED BY Zenon, <2>3, <2>4
<1> QED BY Zenon, <1>2, <1>3

\* The tasks with an end of p.
Users(p) == {t \in Tasks : end[t] = p}

\* EndsCounted of pipe p with the users U.
Counts(p, U) ==
  /\ pipe[p].readers = Cardinality(U \cap Readers)
  /\ pipe[p].writers = Cardinality(U \cap Writers)
  /\ pipe[p].life = "live" <=> U # {}
  /\ fifo /\ U # {} => inode = p

\* A task alone on its side is the only one of it.
LEMMA AloneFacts ==
  ASSUME NEW t \in Tasks, NEW u \in Tasks, Alone(u), t \in Readers <=> u \in Readers
  PROVE  t = u
<1>1. PICK S : S = (IF Side(u) = "read" THEN Readers ELSE Writers)
  BY Zenon
<1>2. IsFiniteSet(S) /\ t \in S /\ u \in S /\ Cardinality(S) = 1
  BY Zenon, <1>1, SizesAssumption DEF Alone, Side, Tasks
<1>3. \E x : S = {x}
  BY Zenon, <1>2, FS_Singleton
<1> QED BY <1>2, <1>3

\* A step of t brings t to stage c with end e.
Advances(t, c, e, st) ==
  /\ c \in Stages /\ pc' = [pc EXCEPT ![t] = c]
  /\ c = "read" => t \in Readers
  /\ c = "write" => t \in Writers
  /\ st = "BLOCKED" => c \in {"read", "write", "opening"}
  /\ e \in {NULL} \cup Pipes /\ end' = [end EXCEPT ![t] = e]
  /\ e = NULL <=> c \in {"new", "closed"}
  /\ todo' \in [Tasks -> Nat] /\ fifo' = fifo /\ opens' \in Nat /\ inode' \in {NULL} \cup Pipes

\* What every step with pipe p preserves, and that it leaves the other pipes alone.
Keeps(p, Q) ==
  /\ TypeOK' /\ StagesFit' /\ QueuesFit' /\ ParkedFit' /\ BytesIntact'
  /\ pipe'[p] = Q /\ \A q \in Pipes \ {p} : pipe'[q] = pipe[q]

\* A step of t with pipe p, whatever it does to the ends.
LEMMA PipeStep ==
  ASSUME PInv, NEW t \in Tasks, NEW p \in Pipes, state[t] # "BLOCKED",
         NEW Q \in PipeRec, NEW st \in {"RUNNING", "BLOCKED"}, Moves(t, p, Q, st),
         RingOK(Q), QueueHyp(t, pipe[p], Q, st), ParkHyp(t, p, Q, st),
         NEW c, NEW e, Advances(t, c, e, st)
  PROVE  Keeps(p, Q)
<1>1. /\ pc'[t] = c /\ \A u \in Tasks \ {t} : pc'[u] = pc[u]
      /\ end'[t] = e /\ \A u \in Tasks \ {t} : end'[u] = end[u]
  BY Zenon DEF PInv, TypeOK, Advances
<1>3. pipe'[p] = Q /\ \A q \in Pipes \ {p} : pipe'[q] = pipe[q]
  BY Zenon DEF PInv, TypeOK, Moves
<1>4. QueuesFit' /\ StayParked(t, p, Q)
  BY QueueStep, Zenon
<1>5. ParkedFit'
  BY <1>4, ParkedStep, Zenon
<1>6. state'[t] = st
  BY Zenon DEF Moves
<1>8. TypeOK'
  BY Zenon DEF PInv, TypeOK, Moves, Advances
<1>9. StagesFit'
  <2> SUFFICES ASSUME NEW u \in Tasks
               PROVE  /\ end'[u] = NULL <=> pc'[u] \in {"new", "closed"}
                      /\ pc'[u] = "read" => u \in Readers
                      /\ pc'[u] = "write" => u \in Writers
                      /\ state'[u] # "RUNNING" => pc'[u] \in {"read", "write", "opening"}
    BY Zenon DEF StagesFit
  <2>1. CASE u = t
    BY Zenon, <1>1, <1>6, <2>1 DEF Advances
  <2>2. CASE u # t
    <3>1. state'[u] # "RUNNING" => state[u] # "RUNNING"
      <4>1. u \in Woken(pipe[p], Q) => state[u] = "BLOCKED"
        BY ZenonT(30), QueueTypes DEF Woken, PInv, QueuesFit, TypeOK
      <4> QED BY Zenon, <2>2, <4>1 DEF Moves
    <3> QED BY Zenon, <1>1, <2>2, <3>1 DEF PInv, StagesFit
  <2> QED BY Zenon, <2>1, <2>2
<1>10. BytesIntact'
  <2> SUFFICES ASSUME NEW q \in Pipes PROVE RingOK(pipe'[q])
    BY Zenon DEF BytesIntact, RingOK, RingCount
  <2>1. CASE q = p
    BY Zenon, <1>3, <2>1
  <2>2. CASE q # p
    BY Zenon, <1>3, <2>2 DEF PInv, BytesIntact, RingOK
  <2> QED BY Zenon, <2>1, <2>2
<1> QED BY <1>3, <1>4, <1>5, <1>8, <1>9, <1>10, Zenon DEF Keeps

\* A step that leaves the ends as they are.
LEMMA TransferStep ==
  ASSUME PInv, NEW t \in Tasks, NEW p \in Pipes, end[t] = p, state[t] # "BLOCKED",
         NEW Q \in PipeRec, NEW st \in {"RUNNING", "BLOCKED"},
         Leave(t, Q, st), UNCHANGED <<fifo, inode, end, opens>>,
         Q.life = pipe[p].life, Q.readers = pipe[p].readers, Q.writers = pipe[p].writers,
         RingOK(Q), QueueHyp(t, pipe[p], Q, st), ParkHyp(t, p, Q, st),
         NEW c \in Stages \ {"new", "closed"}, pc' = [pc EXCEPT ![t] = c],
         c = "read" => t \in Readers, c = "write" => t \in Writers,
         st = "BLOCKED" => c \in {"read", "write", "opening"},
         todo' \in [Tasks -> Nat]
  PROVE  PInv'
<1>1. Moves(t, p, Q, st)
  BY Zenon DEF Leave, Moves, PInv, TypeOK
<1>2. Advances(t, c, p, st)
  <2>1. p # NULL
    BY SizesAssumption DEF Pipes, NULL
  <2>2. end' = [end EXCEPT ![t] = p] /\ opens' \in Nat /\ inode' \in {NULL} \cup Pipes
    BY Zenon DEF PInv, TypeOK
  <2> QED BY Zenon, <2>1, <2>2 DEF Advances
<1>b. Keeps(p, Q)
  BY <1>1, <1>2, PipeStep, Zenon
<1>3. pipe'[p] = Q /\ \A q \in Pipes \ {p} : pipe'[q] = pipe[q]
  BY <1>b, Zenon DEF Keeps
<1>11. EndsCounted'
  <2> SUFFICES ASSUME NEW q \in Pipes PROVE Counts(q, Users(q))'
    BY Zenon DEF EndsCounted, Counts, Users
  <2>1. /\ pipe'[q].life = pipe[q].life /\ pipe'[q].readers = pipe[q].readers
        /\ pipe'[q].writers = pipe[q].writers
    BY Zenon, <1>3
  <2>2. PICK U : U = Users(q)
    BY Zenon
  <2>3. Counts(q, U) /\ Users(q)' = U
    BY <2>2, Zenon DEF PInv, EndsCounted, Counts, Users
  <2> QED BY Zenon, <2>1, <2>3 DEF Counts
<1>12. InodeFits'
  <2>1. \A q \in Pipes : pipe'[q].life = pipe[q].life
    BY Zenon, <1>3
  <2> QED BY Zenon, <2>1 DEF PInv, InodeFits, TypeOK
<1> QED BY <1>b, <1>11, <1>12, Zenon DEF PInv, Keeps

-----------------------------------------------------------------------------
(* The steps. *)

\* t can run, so it is in no queue and holds the pipe as it is.
LEMMA Running ==
  ASSUME PInv, NEW t \in Tasks, end[t] # NULL, CanRun(t)
  PROVE  /\ state[t] # "BLOCKED" /\ end[t] \in Pipes /\ pipe[end[t]] \in PipeRec
         /\ Locked(t) = pipe[end[t]] /\ RingOK(pipe[end[t]])
         /\ IsInjective(pipe[end[t]].rwait) /\ IsInjective(pipe[end[t]].wwait)
         /\ t \notin Range(pipe[end[t]].rwait) /\ t \notin Range(pipe[end[t]].wwait)
<1>1. state[t] # "BLOCKED"
  BY Zenon DEF CanRun
<1>2. end[t] \in Pipes /\ pipe[end[t]] \in PipeRec /\ Locked(t) = pipe[end[t]]
  BY Zenon, <1>1, LockedSame
<1>3. RingOK(pipe[end[t]])
  BY Zenon, <1>2 DEF PInv, BytesIntact, RingOK
<1>4. IsInjective(pipe[end[t]].rwait) /\ IsInjective(pipe[end[t]].wwait)
  BY Zenon, <1>2 DEF PInv, QueuesFit
<1>5. t \notin Range(pipe[end[t]].rwait) /\ t \notin Range(pipe[end[t]].wwait)
  <2>1. t \in Readers => t \notin Range(pipe[end[t]].rwait)
    BY <1>1, <1>2 DEF PInv, QueuesFit
  <2>2. t \in Writers => t \notin Range(pipe[end[t]].wwait)
    BY Zenon, <1>1, <1>2 DEF PInv, QueuesFit
  <2> QED BY Zenon, <1>2, <2>1, <2>2, QueueTypes DEF Tasks
<1> QED BY Zenon, <1>1, <1>2, <1>3, <1>4, <1>5

\* The call ends, or goes on, with the pipe as it was.
LEMMA SameHyps ==
  ASSUME PInv, NEW t \in Tasks, end[t] # NULL, CanRun(t)
  PROVE  /\ QueueHyp(t, pipe[end[t]], pipe[end[t]], "RUNNING")
         /\ ParkHyp(t, end[t], pipe[end[t]], "RUNNING")
<1>1. QueueHyp(t, pipe[end[t]], pipe[end[t]], "RUNNING")
  BY Zenon, Running DEF QueueHyp
<1>2. ParkHyp(t, end[t], pipe[end[t]], "RUNNING")
  BY Zenon DEF PInv, ParkedFit, ParkHyp
<1> QED BY Zenon, <1>1, <1>2

\* t parks on its side's queue.
LEMMA ParkHyps ==
  ASSUME PInv, NEW t \in Tasks, end[t] # NULL, CanRun(t),
         Waits(t, pipe[end[t]], pc'[t])
  PROVE  /\ Enqueue(pipe[end[t]], t) \in PipeRec
         /\ RingOK(Enqueue(pipe[end[t]], t))
         /\ QueueHyp(t, pipe[end[t]], Enqueue(pipe[end[t]], t), "BLOCKED")
         /\ ParkHyp(t, end[t], Enqueue(pipe[end[t]], t), "BLOCKED")
         /\ Enqueue(pipe[end[t]], t).life = pipe[end[t]].life
         /\ Enqueue(pipe[end[t]], t).readers = pipe[end[t]].readers
         /\ Enqueue(pipe[end[t]], t).writers = pipe[end[t]].writers
<1>1. PICK P \in PipeRec : P = pipe[end[t]]
  BY Zenon, Running
<1>2. PICK Q : Q = Enqueue(P, t)
  BY Zenon
<1>3. /\ IsInjective(P.rwait) /\ IsInjective(P.wwait) /\ RingOK(P)
      /\ t \notin Range(P.rwait) /\ t \notin Range(P.wwait)
      /\ P.rwait \in Seq(Readers) /\ P.wwait \in Seq(Writers)
      /\ Readers \cap Writers = {} /\ (t \in Readers \/ t \in Writers)
  BY Zenon, <1>1, Running, SizesAssumption DEF PipeRec, Tasks
<1>4. /\ Q \in PipeRec
      /\ Q.rwait = (IF t \in Readers THEN Append(P.rwait, t) ELSE P.rwait)
      /\ Q.wwait = (IF t \in Readers THEN P.wwait ELSE Append(P.wwait, t))
      /\ Q.head = P.head /\ Q.tail = P.tail /\ Q.buf = P.buf /\ Q.life = P.life
      /\ Q.readers = P.readers /\ Q.writers = P.writers
      /\ Q.ever_readers = P.ever_readers /\ Q.ever_writers = P.ever_writers
  <2>1. CASE t \in Readers
    <3>1. Append(P.rwait, t) \in Seq(Readers)
      BY <1>3, <2>1
    <3>2. Q = [P EXCEPT !.rwait = Append(P.rwait, t)]
      BY Zenon, <1>2, <2>1 DEF Enqueue, Side
    <3> QED BY Zenon, <2>1, <3>1, <3>2 DEF PipeRec
  <2>2. CASE t \notin Readers
    <3>1. Append(P.wwait, t) \in Seq(Writers)
      BY <1>3, <2>2
    <3>2. Q = [P EXCEPT !.wwait = Append(P.wwait, t)]
      BY Zenon, <1>2, <2>2 DEF Enqueue, Side
    <3> QED BY Zenon, <2>2, <3>1, <3>2 DEF PipeRec
  <2> QED BY Zenon, <2>1, <2>2
<1>5. RingOK(Q)
  BY Zenon, <1>3, <1>4 DEF RingOK, RingCount
<1>6. QueueHyp(t, P, Q, "BLOCKED")
  <2>1. CASE t \in Readers
    <3>1. /\ IsInjective(Append(P.rwait, t))
          /\ Range(Append(P.rwait, t)) = Range(P.rwait) \cup {t}
      BY <1>3, <2>1, AppendFacts
    <3> QED BY Zenon, <1>3, <1>4, <2>1, <3>1 DEF QueueHyp
  <2>2. CASE t \notin Readers
    <3>1. /\ IsInjective(Append(P.wwait, t))
          /\ Range(Append(P.wwait, t)) = Range(P.wwait) \cup {t}
      BY <1>3, <2>2, AppendFacts
    <3> QED BY Zenon, <1>3, <1>4, <2>2, <3>1 DEF QueueHyp
  <2> QED BY Zenon, <2>1, <2>2
<1>7. ASSUME NEW u, NEW c PROVE Waits(u, Q, c) <=> Waits(u, P, c)
  BY Zenon, <1>4 DEF Waits, PeerSeen, RingCount, RingSpace
<1>8. ParkHyp(t, end[t], Q, "BLOCKED")
  BY Zenon, <1>1, <1>7 DEF ParkHyp, PInv, ParkedFit
<1> QED BY Zenon, <1>1, <1>2, <1>4, <1>5, <1>6, <1>8

\* A reader has taken bytes and wakes the first writer in the queue.
LEMMA PopWriterHyps ==
  ASSUME PInv, NEW t \in Readers, t \in Tasks, end[t] # NULL, CanRun(t),
         NEW D \in PipeRec, RingOK(D), NEW P, P = pipe[end[t]],
         D.rwait = P.rwait, D.wwait = P.wwait, D.life = P.life,
         D.readers = P.readers, D.writers = P.writers,
         D.ever_readers = P.ever_readers, D.ever_writers = P.ever_writers
  PROVE  /\ PopWriter(D) \in PipeRec /\ RingOK(PopWriter(D))
         /\ QueueHyp(t, P, PopWriter(D), "RUNNING") /\ ParkHyp(t, end[t], PopWriter(D), "RUNNING")
         /\ PopWriter(D).life = P.life /\ PopWriter(D).readers = P.readers /\ PopWriter(D).writers = P.writers
<1>1. /\ IsInjective(P.rwait) /\ IsInjective(P.wwait) /\ P \in PipeRec
      /\ t \notin Range(P.rwait) /\ t \notin Range(P.wwait)
      /\ P.rwait \in Seq(Readers) /\ P.wwait \in Seq(Writers)
      /\ Readers \cap Writers = {} /\ end[t] \in Pipes
  BY Zenon, Running, SizesAssumption DEF PipeRec, Tasks
<1>2. PICK rest : rest = (IF P.wwait = <<>> THEN P.wwait ELSE Tail(P.wwait))
  BY Zenon
<1>3. /\ rest \in Seq(Writers) /\ IsInjective(rest) /\ Range(rest) \subseteq Range(P.wwait)
      /\ rest # <<>> => \E h \in Range(P.wwait) : h \notin Range(rest)
  <2>1. CASE P.wwait = <<>>
    BY Zenon, <1>1, <1>2, <2>1
  <2>2. CASE P.wwait # <<>>
    BY Zenon, <1>1, <1>2, <2>2, TailFacts
  <2> QED BY Zenon, <2>1, <2>2
<1>4. PICK Q : Q = [D EXCEPT !.wwait = rest]
  BY Zenon
<1>5. PopWriter(D) = Q
  BY <1>2, <1>4, Zenon DEF PopWriter
<1>6. /\ Q \in PipeRec /\ Q.wwait = rest /\ Q.rwait = P.rwait
      /\ Q.head = D.head /\ Q.tail = D.tail /\ Q.buf = D.buf /\ Q.life = P.life
      /\ Q.readers = P.readers /\ Q.writers = P.writers
      /\ Q.ever_readers = P.ever_readers /\ Q.ever_writers = P.ever_writers
  BY Zenon, <1>3, <1>4 DEF PipeRec
<1>7. RingOK(Q)
  BY Zenon, <1>6 DEF RingOK, RingCount
<1>8. QueueHyp(t, P, Q, "RUNNING")
  BY Zenon, <1>1, <1>3, <1>6 DEF QueueHyp
<1>9. ASSUME NEW u \in Tasks \ {t}, state[u] = "BLOCKED", end[u] = end[t],
             u \in Range(Q.rwait) \cup Range(Q.wwait)
      PROVE  Waits(u, Q, pc[u])
  <2>1. Waits(u, P, pc[u])
    BY Zenon, <1>9 DEF PInv, ParkedFit
  <2>2. ~Alone(u)
    <3>1. SUFFICES ASSUME Alone(u) PROVE FALSE
      BY Zenon
    <3>2. CASE u \in Readers
      BY Zenon, <1>1, <1>9, <3>1, <3>2, AloneFacts
    <3>3. CASE u \in Writers
      <4>1. u \in Range(rest)
        BY Zenon, <1>1, <1>6, <1>9, <3>3, QueueTypes
      <4>2. PICK h \in Range(P.wwait) : h \notin Range(rest)
        BY Zenon, <1>3, <4>1, EmptyFacts
      <4>3. h \in Writers /\ h \in Tasks
        BY Zenon, <1>1, QueueTypes DEF Tasks
      <4> QED BY Zenon, <1>1, <1>9, <3>1, <3>3, <4>1, <4>2, <4>3, AloneFacts
    <3> QED BY Zenon, <3>2, <3>3 DEF Tasks
  <2> QED BY Zenon, <1>6, <2>1, <2>2 DEF Waits, PeerSeen
<1>10. ParkHyp(t, end[t], Q, "RUNNING")
  BY Zenon, <1>9 DEF ParkHyp
<1> QED BY Zenon, <1>5, <1>6, <1>7, <1>8, <1>10

\* A writer has put bytes and wakes the first reader in the queue.
LEMMA PopReaderHyps ==
  ASSUME PInv, NEW t \in Writers, t \in Tasks, end[t] # NULL, CanRun(t),
         NEW D \in PipeRec, RingOK(D), NEW P, P = pipe[end[t]],
         D.rwait = P.rwait, D.wwait = P.wwait, D.life = P.life,
         D.readers = P.readers, D.writers = P.writers,
         D.ever_readers = P.ever_readers, D.ever_writers = P.ever_writers
  PROVE  /\ PopReader(D) \in PipeRec /\ RingOK(PopReader(D))
         /\ QueueHyp(t, P, PopReader(D), "RUNNING") /\ ParkHyp(t, end[t], PopReader(D), "RUNNING")
         /\ PopReader(D).life = P.life /\ PopReader(D).readers = P.readers /\ PopReader(D).writers = P.writers
<1>1. /\ IsInjective(P.rwait) /\ IsInjective(P.wwait) /\ P \in PipeRec
      /\ t \notin Range(P.rwait) /\ t \notin Range(P.wwait)
      /\ P.rwait \in Seq(Readers) /\ P.wwait \in Seq(Writers)
      /\ Readers \cap Writers = {} /\ end[t] \in Pipes
  BY Zenon, Running, SizesAssumption DEF PipeRec, Tasks
<1>2. PICK rest : rest = (IF P.rwait = <<>> THEN P.rwait ELSE Tail(P.rwait))
  BY Zenon
<1>3. /\ rest \in Seq(Readers) /\ IsInjective(rest) /\ Range(rest) \subseteq Range(P.rwait)
      /\ rest # <<>> => \E h \in Range(P.rwait) : h \notin Range(rest)
  <2>1. CASE P.rwait = <<>>
    BY Zenon, <1>1, <1>2, <2>1
  <2>2. CASE P.rwait # <<>>
    BY Zenon, <1>1, <1>2, <2>2, TailFacts
  <2> QED BY Zenon, <2>1, <2>2
<1>4. PICK Q : Q = [D EXCEPT !.rwait = rest]
  BY Zenon
<1>5. PopReader(D) = Q
  BY <1>2, <1>4, Zenon DEF PopReader
<1>6. /\ Q \in PipeRec /\ Q.rwait = rest /\ Q.wwait = P.wwait
      /\ Q.head = D.head /\ Q.tail = D.tail /\ Q.buf = D.buf /\ Q.life = P.life
      /\ Q.readers = P.readers /\ Q.writers = P.writers
      /\ Q.ever_readers = P.ever_readers /\ Q.ever_writers = P.ever_writers
  BY Zenon, <1>3, <1>4 DEF PipeRec
<1>7. RingOK(Q)
  BY Zenon, <1>6 DEF RingOK, RingCount
<1>8. QueueHyp(t, P, Q, "RUNNING")
  BY Zenon, <1>1, <1>3, <1>6 DEF QueueHyp
<1>9. ASSUME NEW u \in Tasks \ {t}, state[u] = "BLOCKED", end[u] = end[t],
             u \in Range(Q.rwait) \cup Range(Q.wwait)
      PROVE  Waits(u, Q, pc[u])
  <2>1. Waits(u, P, pc[u])
    BY Zenon, <1>9 DEF PInv, ParkedFit
  <2>2. ~Alone(u)
    <3>1. SUFFICES ASSUME Alone(u) PROVE FALSE
      BY Zenon
    <3>2. CASE u \in Writers
      BY Zenon, <1>1, <1>9, <3>1, <3>2, AloneFacts
    <3>3. CASE u \in Readers
      <4>1. u \in Range(rest)
        BY Zenon, <1>1, <1>6, <1>9, <3>3, QueueTypes
      <4>2. PICK h \in Range(P.rwait) : h \notin Range(rest)
        BY Zenon, <1>3, <4>1, EmptyFacts
      <4>3. h \in Readers /\ h \in Tasks
        BY Zenon, <1>1, QueueTypes DEF Tasks
      <4> QED BY Zenon, <1>1, <1>9, <3>1, <3>3, <4>1, <4>2, <4>3, AloneFacts
    <3> QED BY Zenon, <3>2, <3>3 DEF Tasks
  <2> QED BY Zenon, <1>6, <2>1, <2>2 DEF Waits, PeerSeen
<1>10. ParkHyp(t, end[t], Q, "RUNNING")
  BY Zenon, <1>9 DEF ParkHyp
<1> QED BY Zenon, <1>5, <1>6, <1>7, <1>8, <1>10

\* Entering or leaving a call without touching the pipe.
LEMMA CallStep ==
  ASSUME PInv, NEW t \in Tasks, end[t] # NULL, state[t] = "RUNNING",
         NEW c \in Stages \ {"new", "closed"}, pc' = [pc EXCEPT ![t] = c],
         c = "read" => t \in Readers, c = "write" => t \in Writers,
         todo' \in [Tasks -> Nat], UNCHANGED <<fifo, inode, pipe, end, opens, state>>
  PROVE  PInv'
<1>1. CanRun(t)
  BY Zenon DEF CanRun
<1>2. PICK p \in Pipes, P \in PipeRec : p = end[t] /\ P = pipe[p]
  BY Zenon, <1>1, Running
<1>3. /\ RingOK(P) /\ QueueHyp(t, pipe[p], P, "RUNNING") /\ ParkHyp(t, p, P, "RUNNING")
      /\ state[t] # "BLOCKED"
  BY Zenon, <1>1, <1>2, Running, SameHyps
<1>4. Leave(t, P, "RUNNING")
  BY Zenon, <1>2 DEF Leave, Woken, PInv, TypeOK
<1> QED BY Zenon, <1>2, <1>3, <1>4, TransferStep

\* A call that finds nothing left to wait for: end of file, broken pipe, a peer that came.
LEMMA EndedStep ==
  ASSUME PInv, NEW t \in Tasks, end[t] # NULL, CanRun(t), Leave(t, Locked(t), "RUNNING"),
         NEW c \in {"open", "install"}, pc' = [pc EXCEPT ![t] = c],
         UNCHANGED <<fifo, inode, end, opens, todo>>
  PROVE  PInv'
<1>2. PICK p \in Pipes, P \in PipeRec : p = end[t] /\ P = pipe[p] /\ Locked(t) = P
  BY Zenon, Running
<1>3. /\ RingOK(P) /\ QueueHyp(t, pipe[p], P, "RUNNING") /\ ParkHyp(t, p, P, "RUNNING")
      /\ state[t] # "BLOCKED"
  BY Zenon, <1>2, Running, SameHyps
<1>4. todo' \in [Tasks -> Nat] /\ c \in Stages \ {"new", "closed"}
  BY Zenon DEF PInv, TypeOK, Stages
<1> QED BY Zenon, <1>2, <1>3, <1>4, TransferStep

\* A call that parks, again or for the first time.
LEMMA ParkStep ==
  ASSUME PInv, NEW t \in Tasks, end[t] # NULL, CanRun(t),
         NEW c \in {"read", "write", "opening"}, pc[t] = c, pc' = [pc EXCEPT ![t] = c],
         Waits(t, pipe[end[t]], c), Leave(t, Enqueue(Locked(t), t), "BLOCKED"),
         UNCHANGED <<fifo, inode, end, opens, todo>>
  PROVE  PInv'
<1>1. PICK p \in Pipes : p = end[t] /\ Locked(t) = pipe[p] /\ pc'[t] = c
  BY Zenon, Running DEF PInv, TypeOK
<1>2. PICK Q : Q = Enqueue(pipe[p], t)
  BY Zenon
<1>3. /\ Q \in PipeRec /\ RingOK(Q) /\ state[t] # "BLOCKED"
      /\ QueueHyp(t, pipe[p], Q, "BLOCKED") /\ ParkHyp(t, p, Q, "BLOCKED")
      /\ Q.life = pipe[p].life /\ Q.readers = pipe[p].readers /\ Q.writers = pipe[p].writers
  BY Zenon, <1>1, <1>2, Running, ParkHyps
<1>4. /\ todo' \in [Tasks -> Nat] /\ c \in Stages \ {"new", "closed"}
      /\ (c = "read" => t \in Readers) /\ (c = "write" => t \in Writers)
  BY Zenon DEF PInv, TypeOK, Stages, StagesFit
<1> QED BY Zenon, <1>1, <1>2, <1>3, <1>4, TransferStep

\* The least of two numbers.
LEMMA LeastFacts ==
  ASSUME NEW m \in Nat, NEW n \in Nat
  PROVE  Least(m, n) \in Nat /\ Least(m, n) <= m /\ Least(m, n) <= n
BY DEF Least

\* pipe_read with data in the ring.
LEMMA ReadSomeStep ==
  ASSUME PInv, NEW t \in Tasks, ReadSome(t)
  PROVE  PInv'
<1>1. /\ pc[t] = "read" /\ CanRun(t) /\ end[t] # NULL /\ t \in Readers
  BY Zenon DEF ReadSome, PInv, StagesFit
<1>2. PICK p \in Pipes, P \in PipeRec : /\ p = end[t] /\ P = pipe[p] /\ Locked(t) = P
                                       /\ RingOK(P) /\ state[t] # "BLOCKED"
  BY Zenon, <1>1, Running
<1>3. RingCount(P) \in Nat /\ todo[t] \in Nat
  BY <1>2, SizesAssumption DEF RingOK, PInv, TypeOK
<1>4. PICK n : n = Least(todo[t], RingCount(P))
  BY Zenon
<1>5. n \in Nat /\ n <= RingCount(P)
  BY Zenon, <1>3, <1>4, LeastFacts
<1>6. PICK D : D = RingDrain(P, n)
  BY Zenon
<1>7. D \in PipeRec /\ RingOK(D)
  BY Zenon, <1>2, <1>5, <1>6, DrainIntact
<1>8. /\ D.rwait = P.rwait /\ D.wwait = P.wwait /\ D.life = P.life
      /\ D.readers = P.readers /\ D.writers = P.writers
      /\ D.ever_readers = P.ever_readers /\ D.ever_writers = P.ever_writers
  BY Zenon, <1>6 DEF RingDrain, PipeRec
<1>9. PICK Q : Q = PopWriter(D)
  BY Zenon
<1>10. /\ Q \in PipeRec /\ RingOK(Q)
       /\ QueueHyp(t, P, Q, "RUNNING") /\ ParkHyp(t, p, Q, "RUNNING")
       /\ Q.life = P.life /\ Q.readers = P.readers /\ Q.writers = P.writers
  BY <1>1, <1>2, <1>7, <1>8, <1>9, PopWriterHyps
<1>11. /\ Leave(t, Q, "RUNNING") /\ pc' = [pc EXCEPT ![t] = "open"]
       /\ UNCHANGED <<fifo, inode, end, opens, todo>>
  BY Zenon, <1>2, <1>4, <1>6, <1>9 DEF ReadSome
<1>12. todo' \in [Tasks -> Nat] /\ "open" \in Stages \ {"new", "closed"}
  BY Zenon, <1>11 DEF PInv, TypeOK, Stages
<1> QED BY Zenon, <1>2, <1>10, <1>11, <1>12, TransferStep

\* pipe_write with room in the ring and readers left.
LEMMA WriteSomeStep ==
  ASSUME PInv, NEW t \in Tasks, WriteSome(t)
  PROVE  PInv'
<1>1. /\ pc[t] = "write" /\ CanRun(t) /\ end[t] # NULL /\ t \in Writers
  BY Zenon DEF WriteSome, PInv, StagesFit
<1>2. PICK p \in Pipes, P \in PipeRec : /\ p = end[t] /\ P = pipe[p] /\ Locked(t) = P
                                       /\ RingOK(P) /\ state[t] # "BLOCKED"
  BY Zenon, <1>1, Running
<1>3. RingSpace(P) \in Nat /\ todo[t] \in Nat
  BY <1>2, SizesAssumption DEF RingOK, RingSpace, PInv, TypeOK
<1>4. PICK n : n = Least(todo[t], RingSpace(P))
  BY Zenon
<1>5. n \in Nat /\ n <= RingSpace(P) /\ n <= todo[t]
  BY Zenon, <1>3, <1>4, LeastFacts
<1>6. PICK D : D = RingFill(P, n)
  BY Zenon
<1>7. D \in PipeRec /\ RingOK(D)
  BY <1>2, <1>5, <1>6, FillIntact, Zenon
<1>8. /\ D.rwait = P.rwait /\ D.wwait = P.wwait /\ D.life = P.life
      /\ D.readers = P.readers /\ D.writers = P.writers
      /\ D.ever_readers = P.ever_readers /\ D.ever_writers = P.ever_writers
  BY Zenon, <1>6 DEF RingFill, PipeRec
<1>9. PICK Q : Q = PopReader(D)
  BY Zenon
<1>10. /\ Q \in PipeRec /\ RingOK(Q)
       /\ QueueHyp(t, P, Q, "RUNNING") /\ ParkHyp(t, p, Q, "RUNNING")
       /\ Q.life = P.life /\ Q.readers = P.readers /\ Q.writers = P.writers
  BY <1>1, <1>2, <1>7, <1>8, <1>9, PopReaderHyps
<1>11. PICK c : c = IF n = todo[t] THEN "open" ELSE "write"
  BY Zenon
<1>12. /\ Leave(t, Q, "RUNNING") /\ pc' = [pc EXCEPT ![t] = c]
       /\ UNCHANGED <<fifo, inode, end, opens>> /\ todo' = [todo EXCEPT ![t] = @ - n]
  BY <1>2, <1>4, <1>6, <1>9, <1>11, Zenon DEF WriteSome
<1>13. todo' \in [Tasks -> Nat]
  BY <1>3, <1>5, <1>12 DEF PInv, TypeOK
<1>14. c \in Stages \ {"new", "closed"} /\ (c = "read" => t \in Readers) /\ (c = "write" => t \in Writers)
  BY Zenon, <1>1, <1>11 DEF Stages
<1> QED BY Zenon, <1>2, <1>10, <1>12, <1>13, <1>14, TransferStep

\* pipe_read, pipe_write, and fifo_open when it resumes.
LEMMA TransferKeeps ==
  ASSUME PInv, NEW t \in Tasks, Transfer(t) \/ OpenRetry(t)
  PROVE  PInv'
<1>1. ASSUME end[t] # NULL, CanRun(t)
      PROVE  Locked(t) = pipe[end[t]] /\ RingOK(pipe[end[t]]) /\ pipe[end[t]] \in PipeRec
  BY Zenon, <1>1, Running
<1>2. ASSUME pc[t] \in {"read", "write", "opening"} PROVE end[t] # NULL
  BY Zenon, <1>2 DEF PInv, StagesFit
<1>3. CASE ReadSome(t)
  BY Zenon, <1>3, ReadSomeStep
<1>4. CASE ReadEof(t)
  BY Zenon, <1>2, <1>4, EndedStep DEF ReadEof
<1>5. CASE ReadPark(t)
  <2>1. CanRun(t) /\ pc[t] = "read" /\ end[t] # NULL
    BY Zenon, <1>2, <1>5 DEF ReadPark
  <2>2. Waits(t, pipe[end[t]], "read")
    BY Zenon, <1>1, <1>5, <2>1 DEF ReadPark, Waits
  <2>3. pc' = [pc EXCEPT ![t] = "read"]
    BY Zenon, <1>5 DEF ReadPark, PInv, TypeOK
  <2> QED BY Zenon, <1>5, <2>1, <2>2, <2>3, ParkStep DEF ReadPark
<1>6. CASE WriteBroken(t)
  BY Zenon, <1>2, <1>6, EndedStep DEF WriteBroken
<1>7. CASE WriteSome(t)
  BY Zenon, <1>7, WriteSomeStep
<1>8. CASE WritePark(t)
  <2>1. CanRun(t) /\ pc[t] = "write" /\ end[t] # NULL
    BY Zenon, <1>2, <1>8 DEF WritePark
  <2>2. Waits(t, pipe[end[t]], "write")
    BY Zenon, <1>1, <1>8, <2>1 DEF WritePark, Waits
  <2>3. pc' = [pc EXCEPT ![t] = "write"]
    BY Zenon, <1>8 DEF WritePark, PInv, TypeOK
  <2> QED BY Zenon, <1>8, <2>1, <2>2, <2>3, ParkStep DEF WritePark
<1>9. CASE OpenRetry(t)
  <2>1. CanRun(t) /\ pc[t] = "opening" /\ end[t] # NULL
    BY Zenon, <1>2, <1>9 DEF OpenRetry, CanRun
  <2>2. CASE PeerSeen(Locked(t), Side(t))
    BY Zenon, <1>9, <2>1, <2>2, EndedStep DEF OpenRetry
  <2>3. CASE ~PeerSeen(Locked(t), Side(t))
    <3>1. Waits(t, pipe[end[t]], "opening")
      BY Zenon, <1>1, <2>1, <2>3 DEF Waits
    <3> QED BY Zenon, <1>9, <2>1, <2>3, <3>1, ParkStep DEF OpenRetry
  <2> QED BY Zenon, <2>2, <2>3
<1> QED BY Zenon, <1>3, <1>4, <1>5, <1>6, <1>7, <1>8, <1>9 DEF Transfer

-----------------------------------------------------------------------------
(* Closing and opening an end. *)

\* What closing does to the pipe: t's side loses an end, the waiters of the other
\* side go when that was the last one.
LEMMA CloseFacts ==
  ASSUME NEW t \in Tasks, NEW P \in PipeRec, NEW D, D = DropEnd(P, Side(t)),
         NEW E, E = IF SideCount(D, Side(t)) = 0 THEN DrainPeers(D, Side(t)) ELSE D,
         NEW F, F = FreeIfUnused(E),
         t \in Readers => P.readers > 0, t \in Writers => P.writers > 0
  PROVE  /\ F \in PipeRec /\ F.head = P.head /\ F.tail = P.tail /\ F.buf = P.buf
         /\ F.ever_readers = P.ever_readers /\ F.ever_writers = P.ever_writers
         /\ F.readers = (IF t \in Readers THEN P.readers - 1 ELSE P.readers)
         /\ F.writers = (IF t \in Writers THEN P.writers - 1 ELSE P.writers)
         /\ F.rwait = (IF t \in Writers /\ F.writers = 0 THEN <<>> ELSE P.rwait)
         /\ F.wwait = (IF t \in Readers /\ F.readers = 0 THEN <<>> ELSE P.wwait)
         /\ Unused(E) <=> F.readers = 0 /\ F.writers = 0
         /\ F.life = (IF Unused(E) THEN "freed" ELSE P.life)
<1>0. /\ P.readers \in Nat /\ P.writers \in Nat /\ (t \in Readers <=> t \notin Writers)
      /\ (Side(t) = "read" <=> t \in Readers)
  BY Zenon, SizesAssumption DEF PipeRec, Tasks, Side
<1>1. PICK r \in Nat, w \in Nat :
        /\ r = (IF t \in Readers THEN P.readers - 1 ELSE P.readers)
        /\ w = (IF t \in Writers THEN P.writers - 1 ELSE P.writers)
  BY <1>0
<1>2. D = [P EXCEPT !.readers = r, !.writers = w]
  <2>1. CASE t \in Readers
    BY Zenon, <1>0, <1>1, <2>1 DEF DropEnd, PipeRec
  <2>2. CASE t \notin Readers
    BY Zenon, <1>0, <1>1, <2>2 DEF DropEnd, PipeRec
  <2> QED BY Zenon, <2>1, <2>2
<1>3. /\ D \in PipeRec /\ D.readers = r /\ D.writers = w
      /\ D.head = P.head /\ D.tail = P.tail /\ D.buf = P.buf /\ D.life = P.life
      /\ D.ever_readers = P.ever_readers /\ D.ever_writers = P.ever_writers
      /\ D.rwait = P.rwait /\ D.wwait = P.wwait
  BY ZenonT(30), <1>2 DEF PipeRec
<1>4. PICK rq \in Seq(Readers), wq \in Seq(Writers) :
        /\ rq = (IF t \in Writers /\ w = 0 THEN <<>> ELSE P.rwait)
        /\ wq = (IF t \in Readers /\ r = 0 THEN <<>> ELSE P.wwait)
  BY Zenon, EmptyFacts DEF PipeRec
<1>5. E = [D EXCEPT !.rwait = rq, !.wwait = wq]
  <2>1. SideCount(D, Side(t)) = (IF t \in Readers THEN r ELSE w)
    BY Zenon, <1>0, <1>3 DEF SideCount
  <2>2. CASE t \in Readers
    BY ZenonT(30), <1>0, <1>3, <1>4, <2>1, <2>2 DEF DrainPeers, PipeRec
  <2>3. CASE t \notin Readers
    BY ZenonT(30), <1>0, <1>3, <1>4, <2>1, <2>3 DEF DrainPeers, PipeRec
  <2> QED BY Zenon, <2>2, <2>3
<1>6. /\ E \in PipeRec /\ E.readers = r /\ E.writers = w
      /\ E.head = P.head /\ E.tail = P.tail /\ E.buf = P.buf /\ E.life = P.life
      /\ E.ever_readers = P.ever_readers /\ E.ever_writers = P.ever_writers
      /\ E.rwait = rq /\ E.wwait = wq
  BY ZenonT(30), <1>3, <1>5 DEF PipeRec
<1>7. Unused(E) <=> r = 0 /\ w = 0
  BY Zenon, <1>6 DEF Unused
<1>8. PICK l \in {"unborn", "live", "freed"} : l = (IF Unused(E) THEN "freed" ELSE P.life)
  BY Zenon DEF PipeRec
<1>9. F = [E EXCEPT !.life = l]
  BY ZenonT(30), <1>6, <1>8 DEF FreeIfUnused, PipeRec
<1>10. /\ F \in PipeRec /\ F.readers = r /\ F.writers = w
       /\ F.head = P.head /\ F.tail = P.tail /\ F.buf = P.buf /\ F.life = l
       /\ F.ever_readers = P.ever_readers /\ F.ever_writers = P.ever_writers
       /\ F.rwait = rq /\ F.wwait = wq
  BY ZenonT(30), <1>6, <1>9 DEF PipeRec
<1> QED BY Zenon, <1>1, <1>4, <1>7, <1>8, <1>10

\* Users as the counters see them: a set of tasks, by sides.
LEMMA UsersFacts ==
  ASSUME NEW U \in SUBSET Tasks, NEW t \in Tasks
  PROVE  /\ IsFiniteSet(U \cap Readers) /\ IsFiniteSet(U \cap Writers)
         /\ Cardinality(U \cap Readers) \in Nat /\ Cardinality(U \cap Writers) \in Nat
         /\ U = {} <=> Cardinality(U \cap Readers) = 0 /\ Cardinality(U \cap Writers) = 0
<1>1. IsFiniteSet(U \cap Readers) /\ IsFiniteSet(U \cap Writers)
  BY Zenon, SizesAssumption, FS_Subset
<1>2. Cardinality(U \cap Readers) \in Nat /\ Cardinality(U \cap Writers) \in Nat
  BY Zenon, <1>1, FS_CardinalityType
<1>3. U = {} <=> U \cap Readers = {} /\ U \cap Writers = {}
  BY Zenon DEF Tasks
<1> QED BY Zenon, <1>1, <1>2, <1>3, FS_EmptySet

\* The counters when t leaves the users U.
LEMMA LeaverCount ==
  ASSUME NEW U \in SUBSET Tasks, NEW t \in U
  PROVE  /\ Cardinality((U \ {t}) \cap Readers)
              = (IF t \in Readers THEN Cardinality(U \cap Readers) - 1 ELSE Cardinality(U \cap Readers))
         /\ Cardinality((U \ {t}) \cap Writers)
              = (IF t \in Writers THEN Cardinality(U \cap Writers) - 1 ELSE Cardinality(U \cap Writers))
         /\ t \in Readers => Cardinality(U \cap Readers) > 0
         /\ t \in Writers => Cardinality(U \cap Writers) > 0
<1>1. /\ IsFiniteSet(U \cap Readers) /\ IsFiniteSet(U \cap Writers)
      /\ Cardinality(U \cap Readers) \in Nat /\ Cardinality(U \cap Writers) \in Nat
  BY Zenon, UsersFacts
<1>2. /\ (U \ {t}) \cap Readers = (U \cap Readers) \ {t}
      /\ (U \ {t}) \cap Writers = (U \cap Writers) \ {t}
  BY Zenon
<1>3. /\ t \in Readers => U \cap Readers # {}
      /\ t \in Writers => U \cap Writers # {}
  BY Zenon
<1>4. /\ t \in Readers => Cardinality(U \cap Readers) # 0
      /\ t \in Writers => Cardinality(U \cap Writers) # 0
  BY Zenon, <1>1, <1>3, FS_EmptySet
<1> QED BY <1>1, <1>2, <1>4, FS_RemoveElement

\* The counters when t joins the users U.
LEMMA JoinerCount ==
  ASSUME NEW U \in SUBSET Tasks, NEW t \in Tasks \ U
  PROVE  /\ Cardinality((U \cup {t}) \cap Readers)
              = (IF t \in Readers THEN Cardinality(U \cap Readers) + 1 ELSE Cardinality(U \cap Readers))
         /\ Cardinality((U \cup {t}) \cap Writers)
              = (IF t \in Writers THEN Cardinality(U \cap Writers) + 1 ELSE Cardinality(U \cap Writers))
<1>1. IsFiniteSet(U \cap Readers) /\ IsFiniteSet(U \cap Writers)
  BY Zenon, UsersFacts
<1>2. /\ (U \cup {t}) \cap Readers
            = (IF t \in Readers THEN (U \cap Readers) \cup {t} ELSE U \cap Readers)
      /\ (U \cup {t}) \cap Writers
            = (IF t \in Writers THEN (U \cap Writers) \cup {t} ELSE U \cap Writers)
  BY Zenon
<1>3. /\ Cardinality((U \cap Readers) \cup {t}) = Cardinality(U \cap Readers) + 1
      /\ Cardinality((U \cap Writers) \cup {t}) = Cardinality(U \cap Writers) + 1
  BY Zenon, <1>1, FS_AddElement
<1> QED BY Zenon, <1>2, <1>3

\* pipe_close: the last user frees the pipe, the last of a side wakes the other side.
LEMMA CloseStep ==
  ASSUME PInv, NEW t \in Tasks, Close(t)
  PROVE  PInv'
<1>1. pc[t] = "open" /\ end[t] # NULL /\ CanRun(t) /\ (t \in Readers <=> t \notin Writers)
  BY Zenon, SizesAssumption DEF Close, CanRun, PInv, StagesFit, Tasks
<1>2. PICK p \in Pipes, P \in PipeRec :
        /\ p = end[t] /\ P = pipe[p] /\ Locked(t) = P /\ RingOK(P) /\ state[t] # "BLOCKED"
        /\ IsInjective(P.rwait) /\ IsInjective(P.wwait)
        /\ t \notin Range(P.rwait) /\ t \notin Range(P.wwait)
  BY Zenon, <1>1, Running
<1>3. PICK U \in SUBSET Tasks : U = Users(p) /\ t \in U
  <2>1. Users(p) \in SUBSET Tasks /\ t \in Users(p)
    BY Zenon, <1>2 DEF Users
  <2> QED BY Zenon, <2>1
<1>l. /\ Cardinality((U \ {t}) \cap Readers)
           = (IF t \in Readers THEN Cardinality(U \cap Readers) - 1 ELSE Cardinality(U \cap Readers))
      /\ Cardinality((U \ {t}) \cap Writers)
           = (IF t \in Writers THEN Cardinality(U \cap Writers) - 1 ELSE Cardinality(U \cap Writers))
      /\ t \in Readers => Cardinality(U \cap Readers) > 0
      /\ t \in Writers => Cardinality(U \cap Writers) > 0
  BY <1>3, LeaverCount, Zenon
<1>4. Counts(p, U)
  BY <1>3, Zenon DEF PInv, EndsCounted, Counts, Users
<1>5. PICK D : D = DropEnd(P, Side(t))
  BY Zenon
<1>6. PICK E : E = IF SideCount(D, Side(t)) = 0 THEN DrainPeers(D, Side(t)) ELSE D
  BY Zenon
<1>7. PICK F : F = FreeIfUnused(E)
  BY Zenon
<1>8. /\ Leave(t, F, "RUNNING") /\ inode' = (IF Unused(E) THEN NULL ELSE inode)
      /\ pc' = [pc EXCEPT ![t] = "closed"] /\ end' = [end EXCEPT ![t] = NULL]
      /\ UNCHANGED <<fifo, opens, todo>>
  BY <1>2, <1>5, <1>6, <1>7, Zenon DEF Close, Detach
<1>9. (t \in Readers => P.readers > 0) /\ (t \in Writers => P.writers > 0)
  BY ZenonT(30), <1>2, <1>4, <1>l DEF Counts
<1>10. /\ F \in PipeRec /\ F.head = P.head /\ F.tail = P.tail /\ F.buf = P.buf
       /\ F.ever_readers = P.ever_readers /\ F.ever_writers = P.ever_writers
       /\ F.readers = (IF t \in Readers THEN P.readers - 1 ELSE P.readers)
       /\ F.writers = (IF t \in Writers THEN P.writers - 1 ELSE P.writers)
       /\ F.rwait = (IF t \in Writers /\ F.writers = 0 THEN <<>> ELSE P.rwait)
       /\ F.wwait = (IF t \in Readers /\ F.readers = 0 THEN <<>> ELSE P.wwait)
       /\ Unused(E) <=> F.readers = 0 /\ F.writers = 0
       /\ F.life = (IF Unused(E) THEN "freed" ELSE P.life)
  BY SMTT(30), <1>5, <1>6, <1>7, <1>9, CloseFacts
<1>11. RingOK(F)
  BY Zenon, <1>2, <1>10 DEF RingOK, RingCount
<1>12. QueueHyp(t, pipe[p], F, "RUNNING")
  BY Zenon, <1>2, <1>10, EmptyFacts DEF QueueHyp
<1>13. ParkHyp(t, p, F, "RUNNING")
  <2> SUFFICES ASSUME NEW u \in Tasks \ {t}, state[u] = "BLOCKED", end[u] = p,
                      u \in Range(F.rwait) \cup Range(F.wwait)
               PROVE  Waits(u, F, pc[u])
    BY Zenon DEF ParkHyp
  <2>1. Waits(u, P, pc[u]) /\ (pc[u] = "read" => u \in Readers) /\ (pc[u] = "write" => u \in Writers)
    BY Zenon, <1>2 DEF PInv, ParkedFit, StagesFit
  <2>2. Range(F.rwait) \subseteq Readers /\ Range(F.wwait) \subseteq Writers /\ Readers \cap Writers = {}
    BY Zenon, <1>10, QueueTypes, SizesAssumption
  <2>3. /\ u \in Readers => ~(t \in Writers /\ F.writers = 0)
        /\ u \in Writers => ~(t \in Readers /\ F.readers = 0)
    BY Zenon, <1>10, <2>2, EmptyFacts
  <2>4. F.readers \in Nat /\ F.writers \in Nat
    BY Zenon, <1>10 DEF PipeRec
  <2>5. RingCount(F) = RingCount(P) /\ RingSpace(F) = RingSpace(P) /\ (PeerSeen(F, Side(u)) <=> PeerSeen(P, Side(u)))
    BY Zenon, <1>10 DEF PeerSeen, RingCount, RingSpace
  <2>a. /\ pc[u] = "read" => u \in Readers /\ P.writers > 0
        /\ pc[u] = "write" => u \in Writers /\ P.readers > 0
    BY <2>1, Zenon DEF Waits
  <2>b. /\ F.readers = (IF t \in Readers THEN P.readers - 1 ELSE P.readers)
        /\ F.writers = (IF t \in Writers THEN P.writers - 1 ELSE P.writers)
    BY Zenon, <1>10
  <2>6. ASSUME pc[u] = "read" PROVE F.writers > 0
    <3>1. CASE t \in Writers
      BY SMTT(30), <2>a, <2>3, <2>4, <2>6, <3>1
    <3>2. CASE t \notin Writers
      BY Zenon, <2>a, <2>b, <2>6, <3>2
    <3> QED BY Zenon, <3>1, <3>2
  <2>7. ASSUME pc[u] = "write" PROVE F.readers > 0
    <3>1. CASE t \in Readers
      BY SMTT(30), <2>a, <2>3, <2>4, <2>7, <3>1
    <3>2. CASE t \notin Readers
      BY ZenonT(30), <2>a, <2>b, <2>7, <3>2
    <3> QED BY Zenon, <3>1, <3>2
  <2> QED BY ZenonT(30), <2>1, <2>5, <2>6, <2>7 DEF Waits
<1>14. Moves(t, p, F, "RUNNING")
  BY Zenon, <1>2, <1>8 DEF Leave, Moves, PInv, TypeOK
<1>15. Advances(t, "closed", NULL, "RUNNING")
  BY Zenon, <1>8 DEF Advances, Stages, PInv, TypeOK
<1>16. Keeps(p, F)
  BY ZenonT(30), <1>2, <1>10, <1>11, <1>12, <1>13, <1>14, <1>15, PipeStep
<1>17. pipe'[p] = F /\ (\A q \in Pipes \ {p} : pipe'[q] = pipe[q]) /\ p # NULL
  BY SMTT(30), <1>16, SizesAssumption DEF Keeps, Pipes, NULL
<1>18. /\ Users(p)' = U \ {t}
       /\ \A q \in Pipes \ {p} : Users(q)' = Users(q)
  BY SMTT(30), <1>2, <1>3, <1>8, <1>17 DEF Users, PInv, TypeOK, Pipes, NULL
<1>19. /\ F.readers = Cardinality((U \ {t}) \cap Readers)
       /\ F.writers = Cardinality((U \ {t}) \cap Writers)
  BY ZenonT(30), <1>2, <1>4, <1>l, <1>10 DEF Counts
<1>20. U \ {t} = {} <=> Unused(E)
  BY Zenon, <1>10, <1>19, UsersFacts
<1>21. EndsCounted'
  <2> SUFFICES ASSUME NEW q \in Pipes PROVE Counts(q, Users(q))'
    BY Zenon DEF EndsCounted, Counts, Users
  <2>1. CASE q = p
    <3>1. P.life = "live" /\ (fifo => inode = p)
      BY Zenon, <1>2, <1>3, <1>4 DEF Counts
    <3> QED BY ZenonT(30), <1>8, <1>10, <1>17, <1>18, <1>19, <1>20, <2>1, <3>1 DEF Counts
  <2>2. CASE q # p
    <3>1. PICK V : V = Users(q)
      BY Zenon
    <3>2. Counts(q, V) /\ pipe'[q] = pipe[q] /\ Users(q)' = V
      BY Zenon, <1>17, <1>18, <2>2, <3>1 DEF PInv, EndsCounted, Counts, Users
    <3>3. fifo => V = {}
      BY ZenonT(30), <1>3, <1>4, <2>2, <3>2 DEF Counts
    <3> QED BY Zenon, <1>8, <3>2, <3>3 DEF Counts
  <2> QED BY Zenon, <2>1, <2>2
<1>22. InodeFits'
  <2> SUFFICES ASSUME inode' # NULL PROVE fifo' /\ pipe'[inode'].life = "live"
    BY Zenon DEF InodeFits
  <2>1. ~Unused(E) /\ inode' = inode /\ fifo /\ pipe[inode].life = "live" /\ inode \in Pipes
    BY Zenon, <1>8 DEF PInv, InodeFits, TypeOK
  <2> QED BY SMTT(30), <1>2, <1>8, <1>10, <1>17, <2>1
<1> QED BY <1>16, <1>21, <1>22, Zenon DEF PInv, Keeps

\* What fifo_open does to the pipe B it finds or allocates: t's side gains an end, the
\* waiters of the other side go, and t joins its own queue unless a peer has been there.
LEMMA AttachFacts ==
  ASSUME NEW t \in Tasks, NEW B \in PipeRec,
         NEW P, P = DrainPeers(AddEnd(B, Side(t)), Side(t)),
         NEW S, S = IF PeerSeen(P, Side(t)) THEN P ELSE Enqueue(P, t)
  PROVE  /\ S \in PipeRec /\ S.head = B.head /\ S.tail = B.tail /\ S.buf = B.buf /\ S.life = B.life
         /\ PeerSeen(P, Side(t)) <=> PeerSeen(B, Side(t))
         /\ S.readers = (IF t \in Readers THEN B.readers + 1 ELSE B.readers)
         /\ S.writers = (IF t \in Readers THEN B.writers ELSE B.writers + 1)
         /\ S.ever_readers = (t \in Readers \/ B.ever_readers)
         /\ S.ever_writers = (t \notin Readers \/ B.ever_writers)
         /\ P.rwait = (IF t \in Readers THEN B.rwait ELSE <<>>)
         /\ P.wwait = (IF t \in Readers THEN <<>> ELSE B.wwait)
         /\ S.rwait = (IF t \in Readers /\ ~PeerSeen(B, Side(t)) THEN Append(P.rwait, t) ELSE P.rwait)
         /\ S.wwait = (IF t \notin Readers /\ ~PeerSeen(B, Side(t)) THEN Append(P.wwait, t) ELSE P.wwait)
<1>1. CASE t \in Readers
  <2>1. PICK n \in Nat : n = B.readers + 1
    BY DEF PipeRec
  <2>2. P = [B EXCEPT !.readers = n, !.ever_readers = TRUE, !.wwait = <<>>]
    BY Zenon, <1>1, <2>1 DEF DrainPeers, AddEnd, Side, PipeRec
  <2>3. /\ P \in PipeRec /\ P.head = B.head /\ P.tail = B.tail /\ P.buf = B.buf /\ P.life = B.life
        /\ P.readers = n /\ P.writers = B.writers /\ P.ever_readers = TRUE
        /\ P.ever_writers = B.ever_writers /\ P.rwait = B.rwait /\ P.wwait = <<>>
    <3>1. <<>> \in Seq(Writers)
      BY EmptyFacts
    <3> QED BY ZenonT(30), <2>2, <3>1 DEF PipeRec
  <2>4. PeerSeen(P, Side(t)) <=> PeerSeen(B, Side(t))
    BY Zenon, <1>1, <2>3 DEF PeerSeen, Side
  <2>5. PICK q : q = (IF PeerSeen(B, Side(t)) THEN P.rwait ELSE Append(P.rwait, t))
    BY Zenon
  <2>6. q \in Seq(Readers)
    BY <1>1, <2>3, <2>5 DEF PipeRec
  <2>7. S = [P EXCEPT !.rwait = q]
    BY Zenon, <1>1, <2>3, <2>4, <2>5 DEF Enqueue, Side, PipeRec
  <2>8. /\ S \in PipeRec /\ S.head = B.head /\ S.tail = B.tail /\ S.buf = B.buf /\ S.life = B.life
        /\ S.readers = n /\ S.writers = B.writers /\ S.ever_readers = TRUE
        /\ S.ever_writers = B.ever_writers /\ S.rwait = q /\ S.wwait = <<>>
    BY ZenonT(30), <2>3, <2>6, <2>7 DEF PipeRec
  <2>9. B.ever_writers \in BOOLEAN
    BY Zenon DEF PipeRec
  <2> QED BY ZenonT(30), <1>1, <2>1, <2>3, <2>4, <2>5, <2>8, <2>9
<1>2. CASE t \notin Readers
  <2>0. t \in Writers
    BY Zenon, <1>2 DEF Tasks
  <2>1. PICK n \in Nat : n = B.writers + 1
    BY DEF PipeRec
  <2>2. P = [B EXCEPT !.writers = n, !.ever_writers = TRUE, !.rwait = <<>>]
    BY Zenon, <1>2, <2>1 DEF DrainPeers, AddEnd, Side, PipeRec
  <2>3. /\ P \in PipeRec /\ P.head = B.head /\ P.tail = B.tail /\ P.buf = B.buf /\ P.life = B.life
        /\ P.readers = B.readers /\ P.writers = n /\ P.ever_readers = B.ever_readers
        /\ P.ever_writers = TRUE /\ P.rwait = <<>> /\ P.wwait = B.wwait
    <3>1. <<>> \in Seq(Readers)
      BY EmptyFacts
    <3> QED BY ZenonT(30), <2>2, <3>1 DEF PipeRec
  <2>4. PeerSeen(P, Side(t)) <=> PeerSeen(B, Side(t))
    BY Zenon, <1>2, <2>3 DEF PeerSeen, Side
  <2>5. PICK q : q = (IF PeerSeen(B, Side(t)) THEN P.wwait ELSE Append(P.wwait, t))
    BY Zenon
  <2>6. q \in Seq(Writers)
    BY <2>0, <2>3, <2>5 DEF PipeRec
  <2>7. S = [P EXCEPT !.wwait = q]
    BY ZenonT(30), <1>2, <2>3, <2>4, <2>5 DEF Enqueue, Side, PipeRec
  <2>8. /\ S \in PipeRec /\ S.head = B.head /\ S.tail = B.tail /\ S.buf = B.buf /\ S.life = B.life
        /\ S.readers = B.readers /\ S.writers = n /\ S.ever_readers = B.ever_readers
        /\ S.ever_writers = TRUE /\ S.rwait = <<>> /\ S.wwait = q
    BY SMTT(30), <2>3, <2>6, <2>7 DEF PipeRec
  <2>9. B.ever_readers \in BOOLEAN
    BY Zenon DEF PipeRec
  <2> QED BY Zenon, <1>2, <2>1, <2>3, <2>4, <2>5, <2>8, <2>9
<1> QED BY Zenon, <1>1, <1>2

\* A pipe nobody has used yet.
LEMMA EmptyPipe ==
  ASSUME NEW l \in {"unborn", "live"}, NEW n \in {0, 1}, NEW buf \in [0 .. BufSize - 1 -> Nat], NEW P,
         P = [life |-> l, head |-> 0, tail |-> 0, buf |-> buf, readers |-> n, writers |-> n,
              ever_readers |-> FALSE, ever_writers |-> FALSE, rwait |-> <<>>, wwait |-> <<>>]
  PROVE  P \in PipeRec /\ RingOK(P)
<1>1. <<>> \in Seq(Readers) /\ <<>> \in Seq(Writers)
  BY Zenon, EmptyFacts
<1>2. P \in PipeRec
  BY <1>1 DEF PipeRec
<1>3. RingOK(P)
  BY SizesAssumption DEF RingOK, RingCount
<1> QED BY Zenon, <1>2, <1>3

\* The pipe fifo_open works on: inode->pipe, or one that nobody uses or waits on.
LEMMA AttachBase ==
  ASSUME PInv, fifo, NEW p, NEW B,
         p = IF inode = NULL THEN CHOOSE q \in Pipes : pipe[q].life = "unborn" ELSE inode,
         inode = NULL => \E q \in Pipes : pipe[q].life = "unborn",
         B = IF inode = NULL THEN PipeAlloc ELSE pipe[p]
  PROVE  /\ p \in Pipes /\ B \in PipeRec /\ RingOK(B) /\ B.life = "live"
         /\ B.readers = Cardinality(Users(p) \cap Readers)
         /\ B.writers = Cardinality(Users(p) \cap Writers)
         /\ IsInjective(B.rwait) /\ IsInjective(B.wwait)
         /\ Range(B.rwait) = Range(pipe[p].rwait) /\ Range(B.wwait) = Range(pipe[p].wwait)
         /\ \A u \in Tasks : state[u] = "BLOCKED" /\ end[u] = p => Waits(u, B, pc[u])
         /\ \A q \in Pipes \ {p} : Users(q) = {}
<1>1. /\ p \in Pipes /\ (inode = NULL => pipe[p].life = "unborn")
      /\ (inode # NULL => p = inode /\ pipe[p].life = "live" /\ B = pipe[p])
  BY Zenon DEF PInv, TypeOK, InodeFits
<1>2. \A q \in Pipes : Counts(q, Users(q))
  BY Zenon DEF PInv, EndsCounted, Counts, Users
<1>3. \A q \in Pipes \ {p} : Users(q) = {}
  <2> SUFFICES ASSUME NEW q \in Pipes \ {p}, Users(q) # {} PROVE FALSE
    BY Zenon
  <2>1. inode = q
    BY Zenon, <1>2 DEF Counts
  <2> QED BY <1>1, <2>1, SizesAssumption DEF Pipes, NULL
<1>4. CASE inode # NULL
  <2>1. B \in PipeRec /\ RingOK(B) /\ IsInjective(B.rwait) /\ IsInjective(B.wwait)
    BY Zenon, <1>1, <1>4 DEF PInv, TypeOK, BytesIntact, RingOK, QueuesFit
  <2>2. \A u \in Tasks : state[u] = "BLOCKED" /\ end[u] = p => Waits(u, B, pc[u])
    BY Zenon, <1>1, <1>4 DEF PInv, ParkedFit
  <2> QED BY ZenonT(30), <1>1, <1>2, <1>3, <1>4, <2>1, <2>2 DEF Counts
<1>5. CASE inode = NULL
  <2>1. Users(p) = {}
    BY Zenon, <1>1, <1>2, <1>5 DEF Counts
  <2>2. \A u \in Tasks : end[u] # p
    BY ZenonT(30), <2>1 DEF Users
  <2>3. Range(pipe[p].rwait) = {} /\ Range(pipe[p].wwait) = {}
    <3>1. Range(pipe[p].rwait) \subseteq Readers /\ Range(pipe[p].wwait) \subseteq Writers
      BY Zenon, <1>1, QueueTypes DEF PInv, TypeOK
    <3> QED BY SMTT(30), <1>1, <2>2, <3>1 DEF PInv, QueuesFit, Tasks
  <2>4. PICK buf \in [0 .. BufSize - 1 -> Nat] : buf = [i \in 0 .. BufSize - 1 |-> 0]
    BY Zenon
  <2>5. B = [life |-> "live", head |-> 0, tail |-> 0, buf |-> buf, readers |-> 0, writers |-> 0,
             ever_readers |-> FALSE, ever_writers |-> FALSE, rwait |-> <<>>, wwait |-> <<>>]
    BY Zenon, <1>5, <2>4 DEF PipeAlloc, Fresh
  <2>a. PICK l \in {"unborn", "live"}, n \in {0, 1} :
          B = [life |-> l, head |-> 0, tail |-> 0, buf |-> buf, readers |-> n, writers |-> n,
               ever_readers |-> FALSE, ever_writers |-> FALSE, rwait |-> <<>>, wwait |-> <<>>]
    BY Zenon, <2>5
  <2>6. B \in PipeRec /\ RingOK(B)
    BY ZenonT(30), <2>4, <2>a, EmptyPipe
  <2>8. Cardinality({} \cap Readers) = 0 /\ Cardinality({} \cap Writers) = 0
    BY Zenon, FS_EmptySet
  <2>9. IsInjective(B.rwait) /\ IsInjective(B.wwait) /\ Range(B.rwait) = {} /\ Range(B.wwait) = {}
    BY SMTT(30), <2>5, EmptyFacts
  <2>10. B.life = "live" /\ B.readers = 0 /\ B.writers = 0
    BY <2>5
  <2>11. \A u \in Tasks : state[u] = "BLOCKED" /\ end[u] = p => Waits(u, B, pc[u])
    BY Zenon, <2>2
  <2>12. /\ B.readers = Cardinality(Users(p) \cap Readers)
         /\ B.writers = Cardinality(Users(p) \cap Writers)
    BY Zenon, <2>1, <2>8, <2>10
  <2> QED BY ZenonT(30), <1>1, <1>3, <2>3, <2>6, <2>9, <2>10, <2>11, <2>12
<1> QED BY Zenon, <1>4, <1>5

\* fifo_open up to its first wait.
LEMMA OpenAttachStep ==
  ASSUME PInv, NEW t \in Tasks, OpenAttach(t)
  PROVE  PInv'
<1>1. /\ fifo /\ pc[t] \in {"new", "closed"}
      /\ (inode = NULL => \E q \in Pipes : pipe[q].life = "unborn")
  BY Zenon DEF OpenAttach
<1>2. /\ end[t] = NULL /\ state[t] # "BLOCKED" /\ (t \in Readers <=> t \notin Writers)
  BY Zenon, <1>1, SizesAssumption DEF PInv, StagesFit, Tasks
<1>3. PICK p : p = IF inode = NULL THEN CHOOSE q \in Pipes : pipe[q].life = "unborn" ELSE inode
  OBVIOUS
<1>4. PICK B : B = IF inode = NULL THEN PipeAlloc ELSE pipe[p]
  BY Zenon
<1>5. /\ p \in Pipes /\ B \in PipeRec /\ RingOK(B) /\ B.life = "live"
      /\ B.readers = Cardinality(Users(p) \cap Readers)
      /\ B.writers = Cardinality(Users(p) \cap Writers)
      /\ IsInjective(B.rwait) /\ IsInjective(B.wwait)
      /\ Range(B.rwait) = Range(pipe[p].rwait) /\ Range(B.wwait) = Range(pipe[p].wwait)
      /\ \A u \in Tasks : state[u] = "BLOCKED" /\ end[u] = p => Waits(u, B, pc[u])
      /\ \A q \in Pipes \ {p} : Users(q) = {}
  BY ZenonT(30), <1>1, <1>3, <1>4, AttachBase
<1>6. PICK P : P = DrainPeers(AddEnd(B, Side(t)), Side(t))
  BY Zenon
<1>7. PICK S : S = IF PeerSeen(P, Side(t)) THEN P ELSE Enqueue(P, t)
  BY Zenon
<1>8. PICK st, c : /\ st = (IF PeerSeen(P, Side(t)) THEN "RUNNING" ELSE "BLOCKED")
                   /\ c = (IF PeerSeen(P, Side(t)) THEN "install" ELSE "opening")
  BY Zenon
<1>9. /\ opens' = opens + 1 /\ inode' = p /\ end' = [end EXCEPT ![t] = p]
      /\ pipe' = [pipe EXCEPT ![p] = S] /\ pc' = [pc EXCEPT ![t] = c]
      /\ state' = [u \in Tasks |-> IF u = t THEN st
                     ELSE IF u \in Woken(pipe[p], P) THEN "READY" ELSE state[u]]
      /\ UNCHANGED <<fifo, todo>>
  BY ZenonT(30), <1>3, <1>4, <1>6, <1>7, <1>8 DEF OpenAttach
<1>10. /\ S \in PipeRec /\ S.head = B.head /\ S.tail = B.tail /\ S.buf = B.buf /\ S.life = B.life
       /\ PeerSeen(P, Side(t)) <=> PeerSeen(B, Side(t))
       /\ S.readers = (IF t \in Readers THEN B.readers + 1 ELSE B.readers)
       /\ S.writers = (IF t \in Readers THEN B.writers ELSE B.writers + 1)
       /\ S.ever_readers = (t \in Readers \/ B.ever_readers)
       /\ S.ever_writers = (t \notin Readers \/ B.ever_writers)
       /\ P.rwait = (IF t \in Readers THEN B.rwait ELSE <<>>)
       /\ P.wwait = (IF t \in Readers THEN <<>> ELSE B.wwait)
       /\ S.rwait = (IF t \in Readers /\ ~PeerSeen(B, Side(t)) THEN Append(P.rwait, t) ELSE P.rwait)
       /\ S.wwait = (IF t \notin Readers /\ ~PeerSeen(B, Side(t)) THEN Append(P.wwait, t) ELSE P.wwait)
  BY SMTT(30), <1>5, <1>6, <1>7, AttachFacts
<1>11. /\ t \notin Range(B.rwait) /\ t \notin Range(B.wwait)
       /\ B.rwait \in Seq(Readers) /\ B.wwait \in Seq(Writers)
       /\ Range(B.rwait) \subseteq Readers /\ Range(B.wwait) \subseteq Writers
  <2>1. Range(B.rwait) \subseteq Readers /\ Range(B.wwait) \subseteq Writers
    BY Zenon, <1>5, QueueTypes
  <2> QED BY SMTT(30), <1>2, <1>5, <2>1 DEF PInv, QueuesFit, PipeRec
<1>12. RingOK(S)
  BY Zenon, <1>5, <1>10 DEF RingOK, RingCount
<1>13. /\ IsInjective(P.rwait) /\ IsInjective(P.wwait)
       /\ P.rwait \in Seq(Readers) /\ P.wwait \in Seq(Writers)
       /\ Range(P.rwait) \subseteq Range(B.rwait) /\ Range(P.wwait) \subseteq Range(B.wwait)
  BY ZenonT(30), <1>5, <1>10, <1>11, EmptyFacts
<1>14. /\ IsInjective(S.rwait) /\ IsInjective(S.wwait)
       /\ Range(S.rwait) = (IF t \in Readers /\ ~PeerSeen(B, Side(t)) THEN Range(P.rwait) \cup {t} ELSE Range(P.rwait))
       /\ Range(S.wwait) = (IF t \notin Readers /\ ~PeerSeen(B, Side(t)) THEN Range(P.wwait) \cup {t} ELSE Range(P.wwait))
  <2>1. /\ t \in Readers => IsInjective(Append(P.rwait, t)) /\ Range(Append(P.rwait, t)) = Range(P.rwait) \cup {t}
        /\ t \in Writers => IsInjective(Append(P.wwait, t)) /\ Range(Append(P.wwait, t)) = Range(P.wwait) \cup {t}
    BY SMTT(30), <1>11, <1>13, AppendFacts
  <2> QED BY ZenonT(30), <1>2, <1>10, <1>13, <2>1
<1>15. QueueHyp(t, pipe[p], S, st)
  BY ZenonT(30), <1>2, <1>5, <1>8, <1>10, <1>11, <1>13, <1>14 DEF QueueHyp
<1>16. Moves(t, p, S, st)
  <2>1. ASSUME NEW u \in Tasks \ {t} PROVE u \in Woken(pipe[p], P) <=> u \in Woken(pipe[p], S)
    BY Zenon, <1>14 DEF Woken
  <2>2. state' = [u \in Tasks |-> IF u = t THEN st
                     ELSE IF u \in Woken(pipe[p], S) THEN "READY" ELSE state[u]]
    BY Zenon, <1>9, <2>1
  <2>3. /\ \A u \in Tasks \ {t} : end'[u] = end[u] /\ pc'[u] = pc[u]
        /\ end'[t] = p
    BY Zenon, <1>9 DEF PInv, TypeOK
  <2> QED BY <1>9, <2>2, <2>3, Zenon DEF Moves
<1>17. ParkHyp(t, p, S, st)
  <2>1. pc'[t] = c
    BY Zenon, <1>9 DEF PInv, TypeOK
  <2>2. st = "BLOCKED" => Waits(t, S, pc'[t])
    BY ZenonT(30), <1>2, <1>8, <1>10, <2>1 DEF Waits, PeerSeen, Side
  <2>3. ASSUME NEW u \in Tasks \ {t}, state[u] = "BLOCKED", end[u] = p,
               u \in Range(S.rwait) \cup Range(S.wwait)
        PROVE  Waits(u, S, pc[u])
    <3>1. Waits(u, B, pc[u]) /\ (pc[u] = "read" => u \in Readers) /\ (pc[u] = "write" => u \in Writers)
      BY Zenon, <1>5, <2>3 DEF PInv, StagesFit
    <3>2. (u \in Readers <=> t \in Readers) /\ (u \in Readers <=> u \notin Writers)
      BY ZenonT(30), <1>2, <1>10, <1>11, <1>14, <2>3, EmptyFacts, SizesAssumption DEF Tasks
    <3>3. RingCount(S) = RingCount(B) /\ RingSpace(S) = RingSpace(B)
      BY Zenon, <1>10 DEF RingCount, RingSpace
    <3>4. PeerSeen(S, Side(u)) = PeerSeen(B, Side(u))
      BY Zenon, <1>5, <1>10, <3>2 DEF PeerSeen, Side, PipeRec
    <3>5. /\ u \in Readers => S.writers = B.writers
          /\ u \in Writers => S.readers = B.readers
      BY Zenon, <1>10, <3>2
    <3> QED BY ZenonT(30), <3>1, <3>3, <3>4, <3>5 DEF Waits
  <2> QED BY Zenon, <2>2, <2>3 DEF ParkHyp
<1>18. Advances(t, c, p, st)
  <2>1. p # NULL
    BY <1>5, SizesAssumption DEF Pipes, NULL
  <2>2. opens' \in Nat /\ todo' \in [Tasks -> Nat]
    BY <1>9 DEF PInv, TypeOK
  <2> QED BY ZenonT(30), <1>5, <1>8, <1>9, <2>1, <2>2 DEF Advances, Stages
<1>19. Keeps(p, S)
  <2>1. st \in {"RUNNING", "BLOCKED"}
    BY ZenonT(30), <1>8
  <2> QED BY ZenonT(30), <1>2, <1>5, <1>10, <1>12, <1>15, <1>16, <1>17, <1>18, <2>1, PipeStep
<1>20. pipe'[p] = S /\ (\A q \in Pipes \ {p} : pipe'[q] = pipe[q]) /\ p # NULL
  BY SMTT(30), <1>5, <1>19, SizesAssumption DEF Keeps, Pipes, NULL
<1>21. PICK U \in SUBSET Tasks : U = Users(p) /\ t \notin U
  <2>1. Users(p) \in SUBSET Tasks /\ t \notin Users(p)
    BY ZenonT(30), <1>2, <1>20 DEF Users
  <2> QED BY Zenon, <2>1
<1>22. /\ Users(p)' = U \cup {t}
       /\ \A q \in Pipes \ {p} : Users(q)' = Users(q)
  BY SMTT(30), <1>2, <1>5, <1>9, <1>20, <1>21 DEF Users, PInv, TypeOK, Pipes, NULL
<1>23. /\ S.readers = Cardinality((U \cup {t}) \cap Readers)
       /\ S.writers = Cardinality((U \cup {t}) \cap Writers)
  <2>1. /\ Cardinality((U \cup {t}) \cap Readers)
             = (IF t \in Readers THEN Cardinality(U \cap Readers) + 1 ELSE Cardinality(U \cap Readers))
        /\ Cardinality((U \cup {t}) \cap Writers)
             = (IF t \in Writers THEN Cardinality(U \cap Writers) + 1 ELSE Cardinality(U \cap Writers))
    BY ZenonT(30), <1>21, JoinerCount
  <2> QED BY ZenonT(30), <1>2, <1>5, <1>10, <1>21, <2>1
<1>24. EndsCounted'
  <2> SUFFICES ASSUME NEW q \in Pipes PROVE Counts(q, Users(q))'
    BY Zenon DEF EndsCounted, Counts, Users
  <2>1. CASE q = p
    BY ZenonT(30), <1>5, <1>9, <1>10, <1>20, <1>22, <1>23, <2>1 DEF Counts
  <2>2. CASE q # p
    <3>1. Counts(q, {}) /\ pipe'[q] = pipe[q] /\ Users(q)' = {}
      BY SMTT(30), <1>5, <1>20, <1>22, <2>2 DEF PInv, EndsCounted, Counts, Users
    <3> QED BY ZenonT(30), <3>1 DEF Counts
  <2> QED BY Zenon, <2>1, <2>2
<1>25. InodeFits'
  BY ZenonT(30), <1>1, <1>5, <1>9, <1>10, <1>20 DEF InodeFits
<1> QED BY <1>19, <1>24, <1>25, Zenon DEF PInv, Keeps

-----------------------------------------------------------------------------
(* The invariant. *)

\* The pipes there are at the start.
LEMMA FreshFacts ==
  ASSUME NEW P, P = Fresh \/ P = [PipeAlloc EXCEPT !.readers = 1, !.writers = 1]
  PROVE  /\ P \in PipeRec /\ RingOK(P) /\ P.rwait = <<>> /\ P.wwait = <<>>
         /\ P = Fresh => P.life = "unborn" /\ P.readers = 0 /\ P.writers = 0
         /\ P # Fresh => P.life = "live" /\ P.readers = 1 /\ P.writers = 1
<1>1. PICK buf \in [0 .. BufSize - 1 -> Nat] : buf = [i \in 0 .. BufSize - 1 |-> 0]
  BY Zenon
<1>2. PICK l \in {"unborn", "live"}, n \in {0, 1} :
        /\ P = [life |-> l, head |-> 0, tail |-> 0, buf |-> buf, readers |-> n, writers |-> n,
                ever_readers |-> FALSE, ever_writers |-> FALSE, rwait |-> <<>>, wwait |-> <<>>]
        /\ P = Fresh => l = "unborn" /\ n = 0
        /\ P # Fresh => l = "live" /\ n = 1
  <2>1. CASE P = Fresh
    BY Zenon, <1>1, <2>1 DEF Fresh
  <2>2. CASE P # Fresh
    BY Zenon, <1>1, <2>2 DEF Fresh, PipeAlloc
  <2> QED BY Zenon, <2>1, <2>2
<1>3. P \in PipeRec /\ RingOK(P)
  BY <1>1, <1>2, EmptyPipe, Zenon
<1> QED BY Zenon, <1>2, <1>3

\* A new pipe pair, or a FIFO nobody has opened.
LEMMA InitPInv ==
  ASSUME Init
  PROVE  PInv
<1>1. \A p \in Pipes : pipe[p] = Fresh \/ pipe[p] = [PipeAlloc EXCEPT !.readers = 1, !.writers = 1]
  BY ZenonT(30) DEF Init, InitAnonymous, InitFifo
<1>2. \A p \in Pipes :
        /\ pipe[p] \in PipeRec /\ RingOK(pipe[p]) /\ pipe[p].rwait = <<>> /\ pipe[p].wwait = <<>>
        /\ pipe[p] = Fresh => pipe[p].life = "unborn" /\ pipe[p].readers = 0 /\ pipe[p].writers = 0
        /\ pipe[p] # Fresh => pipe[p].life = "live" /\ pipe[p].readers = 1 /\ pipe[p].writers = 1
  BY Zenon, <1>1, FreshFacts
<1>3. /\ state \in [Tasks -> {"RUNNING"}] /\ inode = NULL /\ opens = 0 /\ todo \in [Tasks -> Nat]
  BY Zenon DEF Init
<1>4. 1 \in Pipes /\ 1 # NULL
  BY SizesAssumption DEF Pipes, NULL
<1>5. /\ fifo \in BOOLEAN /\ DOMAIN pipe = Pipes /\ pipe = [p \in Pipes |-> pipe[p]]
      /\ end \in [Tasks -> {NULL} \cup Pipes] /\ pc \in [Tasks -> Stages]
      /\ \A t \in Tasks : pc[t] \in {"new", "open"} /\ (end[t] = NULL <=> pc[t] = "new")
  <2>1. CASE InitFifo
    BY Zenon, <2>1 DEF InitFifo, Stages
  <2>2. CASE InitAnonymous
    BY Zenon, <1>4, <2>2 DEF InitAnonymous, Stages
  <2> QED BY Zenon, <2>1, <2>2 DEF Init
<1>6. TypeOK
  BY Zenon, <1>2, <1>3, <1>5 DEF TypeOK
<1>7. StagesFit /\ ParkedFit /\ InodeFits
  BY Zenon, <1>3, <1>5 DEF StagesFit, ParkedFit, InodeFits
<1>8. QueuesFit
  BY Zenon, <1>2, <1>3, EmptyFacts DEF QueuesFit, Tasks
<1>9. BytesIntact
  BY Zenon, <1>2 DEF BytesIntact, RingOK
<1>10. Cardinality({}) = 0
  BY Zenon, FS_EmptySet
<1>11. ASSUME NEW p \in Pipes PROVE Counts(p, Users(p))
  <2>1. CASE InitFifo
    <3>1. Users(p) = {} /\ pipe[p] = Fresh
      BY SMTT(30), <2>1, SizesAssumption DEF InitFifo, Users, Pipes, NULL
    <3>2. {} \cap Readers = {} /\ {} \cap Writers = {}
      BY Zenon
    <3> QED BY ZenonT(30), <1>2, <1>10, <3>1, <3>2 DEF Counts
  <2>2. CASE InitAnonymous
    <3>1. PICK r \in Readers, w \in Writers :
            /\ fifo = FALSE /\ end = [t \in Tasks |-> IF t \in {r, w} THEN 1 ELSE NULL]
            /\ pipe = [q \in Pipes |->
                 IF q = 1 THEN [PipeAlloc EXCEPT !.readers = 1, !.writers = 1] ELSE Fresh]
      BY Zenon, <2>2 DEF InitAnonymous
    <3>2. r \in Tasks /\ w \in Tasks /\ r \notin Writers /\ w \notin Readers
      BY Zenon, SizesAssumption DEF Tasks
    <3>3. CASE p = 1
      <4>1. Users(p) = {r, w}
        BY ZenonT(30), <1>4, <3>1, <3>2, <3>3 DEF Users
      <4>2. {r, w} \cap Readers = {r} /\ {r, w} \cap Writers = {w} /\ {r, w} # {}
        BY Zenon, <3>2
      <4>3. Cardinality({r}) = 1 /\ Cardinality({w}) = 1
        BY Zenon, FS_Singleton
      <4>4. pipe[p] # Fresh
        <5>1. pipe[p] = [PipeAlloc EXCEPT !.readers = 1, !.writers = 1]
          BY Zenon, <3>1, <3>3
        <5>2. pipe[p].life = "live"
          BY Zenon, <5>1 DEF Fresh, PipeAlloc
        <5>3. Fresh.life = "unborn"
          BY Zenon DEF Fresh
        <5> QED BY ZenonT(30), <5>2, <5>3
      <4>5. pipe[p].life = "live" /\ pipe[p].readers = 1 /\ pipe[p].writers = 1
        BY Zenon, <1>2, <4>4
      <4> QED BY ZenonT(30), <3>1, <4>1, <4>2, <4>3, <4>5 DEF Counts
    <3>4. CASE p # 1
      <4>1. Users(p) = {} /\ pipe[p] = Fresh
        BY SMTT(30), <3>1, <3>4, SizesAssumption DEF Users, Pipes, NULL
      <4>2. {} \cap Readers = {} /\ {} \cap Writers = {}
        BY Zenon
      <4> QED BY SMTT(30), <1>2, <1>10, <3>1, <4>1, <4>2 DEF Counts
    <3> QED BY Zenon, <3>3, <3>4
  <2> QED BY Zenon, <2>1, <2>2 DEF Init
<1>12. EndsCounted
  BY <1>11, Zenon DEF EndsCounted, Counts, Users
<1> QED BY ZenonT(30), <1>6, <1>7, <1>8, <1>9, <1>12 DEF PInv

\* Every step of every task preserves the invariant.
LEMMA NextPInv ==
  ASSUME PInv, [Next]_vars
  PROVE  PInv'
<1>1. ASSUME NEW t \in Tasks, TaskStep(t) PROVE PInv'
  <2>1. ASSUME NEW n \in 1 .. MaxSize, ReadCall(t, n) PROVE PInv'
    <3>1. /\ end[t] # NULL /\ state[t] = "RUNNING" /\ pc' = [pc EXCEPT ![t] = "read"] /\ t \in Readers
          /\ "read" \in Stages \ {"new", "closed"} /\ todo' \in [Tasks -> Nat]
          /\ UNCHANGED <<fifo, inode, pipe, end, opens, state>>
      BY <2>1, SizesAssumption DEF ReadCall, PInv, StagesFit, TypeOK, Stages
    <3> QED BY Zenon, <3>1, CallStep
  <2>2. ASSUME NEW n \in 1 .. MaxSize, WriteCall(t, n) PROVE PInv'
    <3>1. /\ end[t] # NULL /\ state[t] = "RUNNING" /\ pc' = [pc EXCEPT ![t] = "write"] /\ t \in Writers
          /\ "write" \in Stages \ {"new", "closed"} /\ todo' \in [Tasks -> Nat]
          /\ UNCHANGED <<fifo, inode, pipe, end, opens, state>>
      BY <2>2, SizesAssumption DEF WriteCall, PInv, StagesFit, TypeOK, Stages
    <3> QED BY Zenon, <3>1, CallStep
  <2>3. CASE OpenInstall(t)
    <3>1. /\ end[t] # NULL /\ state[t] = "RUNNING" /\ pc' = [pc EXCEPT ![t] = "open"]
          /\ "open" \in Stages \ {"new", "closed"} /\ todo' \in [Tasks -> Nat]
          /\ UNCHANGED <<fifo, inode, pipe, end, opens, state>>
      BY Zenon, <2>3 DEF OpenInstall, PInv, StagesFit, TypeOK, Stages
    <3> QED BY Zenon, <3>1, CallStep
  <2> QED BY ZenonT(30), <1>1, <2>1, <2>2, <2>3, TransferKeeps, CloseStep, OpenAttachStep DEF TaskStep, Open
<1>2. ASSUME UNCHANGED vars PROVE PInv'
  <2> USE <1>2 DEF vars, PInv
  <2>1. TypeOK' /\ StagesFit'
    BY ZenonT(30) DEF TypeOK, StagesFit
  <2>2. QueuesFit' /\ InodeFits'
    BY DEF QueuesFit, InodeFits
  <2>3. ParkedFit'
    BY Zenon DEF ParkedFit, Waits, PeerSeen, Side, Alone, RingCount, RingSpace
  <2>4. BytesIntact' /\ EndsCounted'
    BY Zenon DEF BytesIntact, EndsCounted, RingCount
  <2> QED BY ZenonT(30), <2>1, <2>2, <2>3, <2>4
<1> QED BY Zenon, <1>1, <1>2 DEF Next

\* The invariant says what PipeSound says.
LEMMA PInvSound ==
  ASSUME PInv
  PROVE  PipeSound
<1> SUFFICES ASSUME NEW t \in Tasks, state[t] = "BLOCKED"
             PROVE  /\ t \in Range(pipe[end[t]].rwait) \cup Range(pipe[end[t]].wwait)
                    /\ Waits(t, pipe[end[t]], pc[t])
  BY Zenon DEF PInv, PipeSound, NobodyForgotten, EndOfPeerSeen, Waits
<1>1. end[t] \in Pipes
  BY Zenon DEF PInv, StagesFit, TypeOK
<1> QED BY Zenon, <1>1 DEF PInv, QueuesFit, ParkedFit, Tasks

\* Through any opens, closes, transfers and reopenings of a FIFO or a pipe pair (pipe_read, pipe_write,
\* pipe_close, fifo_open), by any tasks in any order: no byte is overwritten or lost in the ring, the end
\* counters are the ends in use and the pipe is freed with the last one, and nobody is parked past the peer,
\* the byte, the space or the hangup it waits for.
THEOREM PipeIsSound == Spec => []PipeSound
<1>1. Init => PInv
  BY Zenon, InitPInv
<1>2. PInv /\ [Next]_vars => PInv'
  BY Zenon, NextPInv
<1>3. PInv => PipeSound
  BY Zenon, PInvSound
<1> QED BY <1>1, <1>2, <1>3, PTL DEF Spec
=============================================================================
