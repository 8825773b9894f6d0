---------------------------- MODULE VolumeProofs ----------------------------
(* A mounted volume: the mutex its cache is locked with (src/multi/mutex.c), the cache
   of its blocks (blocks_buffer.c), and the gate an unmount shuts (ext2_sb_ops.c). *)
EXTENDS Mutex, BufferCache, FsGate, FiniteSetTheorems, TLAPS

(* Mutual exclusion of src/multi/mutex.c for any number of tasks.

   mutex_lock returns from schedule() without looking at the mutex again,
   so mutual exclusion is not inductive: it needs to know that a parked
   READY task is the owner.  HandoffExact, which TLC checks too, says that
   and what it rests on; with the types it is inductive. *)

MutexInv == TypeOK /\ HandoffExact

\* An empty wait list, no owner and no parked task satisfy the invariant.
LEMMA InitMutexInv == Init => MutexInv
BY DEF Init, MutexInv, TypeOK, HandoffExact

\* Each section under m->guard, and a resumed waiter, preserve it.
LEMMA NextMutexInv == MutexInv /\ [Next]_vars => MutexInv'
<1> SUFFICES ASSUME MutexInv, [Next]_vars PROVE MutexInv'
  OBVIOUS
<1> USE NullAssumption
<1>1. ASSUME NEW t \in Tasks, LockFree(t) PROVE MutexInv'
  BY <1>1 DEF MutexInv, TypeOK, HandoffExact, LockFree
<1>2. ASSUME NEW t \in Tasks, LockPark(t) PROVE MutexInv'
  <2>1. TypeOK'
    BY <1>2 DEF MutexInv, TypeOK, LockPark
  <2>2. /\ Len(waiters') = Len(waiters) + 1
        /\ \A i \in 1 .. Len(waiters) : waiters'[i] = waiters[i]
        /\ waiters'[Len(waiters) + 1] = t
        /\ Len(waiters) \in Nat
    BY <1>2 DEF MutexInv, TypeOK, LockPark
  <2>3. \A i \in 1 .. Len(waiters) : waiters[i] # t
    BY <1>2 DEF MutexInv, TypeOK, HandoffExact, LockPark
  <2>4. HandoffExact'
    BY <1>2, <2>2, <2>3, SMTT(60) DEF MutexInv, TypeOK, HandoffExact, LockPark
  <2> QED BY <2>1, <2>4 DEF MutexInv
<1>3. ASSUME NEW t \in Tasks, Resume(t) PROVE MutexInv'
  BY <1>3, SMTT(60) DEF MutexInv, TypeOK, HandoffExact, Resume
<1>4. ASSUME NEW t \in Tasks, UnlockHandoff(t) PROVE MutexInv'
  <2>1. TypeOK'
    BY <1>4 DEF MutexInv, TypeOK, UnlockHandoff
  <2>2. /\ Len(waiters) \in Nat \ {0}
        /\ Len(waiters') = Len(waiters) - 1
        /\ \A i \in 1 .. Len(waiters) - 1 : waiters'[i] = waiters[i + 1]
        /\ Head(waiters) = waiters[1]
        /\ Head(waiters) \in Tasks
    BY <1>4 DEF MutexInv, TypeOK, UnlockHandoff
  <2> DEFINE w == Head(waiters)
  <2>w. /\ at[w] = "parked" /\ t # w /\ state' = [state EXCEPT ![w] = "READY"]
        /\ at' = [at EXCEPT ![t] = "out"] /\ owner' = w /\ locked' = locked
        /\ owner = t
    BY <1>4, <2>2 DEF MutexInv, TypeOK, HandoffExact, UnlockHandoff
  <2>a. /\ \A i, j \in 1 .. Len(waiters') : waiters'[i] = waiters'[j] => i = j
        /\ \A i \in 1 .. Len(waiters') : waiters'[i] # w
    <3>1. \A i, j \in 1 .. Len(waiters) : waiters[i] = waiters[j] => i = j
      BY DEF MutexInv, HandoffExact
    <3>2. ASSUME NEW i \in 1 .. Len(waiters')
          PROVE  i \in 1 .. Len(waiters) - 1 /\ i + 1 \in 1 .. Len(waiters) /\ 1 # i + 1
      BY <2>2, <3>2, SMTT(60)
    <3>3. ASSUME NEW i \in 1 .. Len(waiters'), NEW j \in 1 .. Len(waiters'),
                 waiters'[i] = waiters'[j]
          PROVE  i = j
      <4>1. waiters[i + 1] = waiters[j + 1]
        BY <2>2, <3>2, <3>3
      <4>2. i + 1 = j + 1
        BY <3>1, <3>2, <4>1
      <4> QED BY <4>2
    <3>4. ASSUME NEW i \in 1 .. Len(waiters') PROVE waiters'[i] # w
      <4>1. waiters[i + 1] # waiters[1]
        BY <2>2, <3>1, <3>2
      <4> QED BY <2>2, <3>2, <4>1
    <3> QED BY <3>3, <3>4, SMTT(60)
  <2> HIDE DEF w
  <2>b. \A i \in 1 .. Len(waiters') :
          at'[waiters'[i]] = "parked" /\ state'[waiters'[i]] = "BLOCKED"
    <3> SUFFICES ASSUME NEW i \in 1 .. Len(waiters')
                 PROVE  at'[waiters'[i]] = "parked" /\ state'[waiters'[i]] = "BLOCKED"
      OBVIOUS
    <3> DEFINE u == waiters[i + 1]
    <3>1. i \in 1 .. Len(waiters) - 1 /\ i + 1 \in 1 .. Len(waiters)
      BY <2>2
    <3>2. waiters'[i] = u /\ u # w
      BY <2>2, <2>a, <3>1
    <3>3. u \in Tasks /\ at[u] = "parked" /\ state[u] = "BLOCKED"
      BY <3>1 DEF MutexInv, TypeOK, HandoffExact
    <3> HIDE DEF u
    <3>4. u # t
      BY <1>4, <3>3, SMTT(60) DEF UnlockHandoff
    <3> QED BY <2>w, <3>2, <3>3, <3>4 DEF MutexInv, TypeOK
  <2>c. ASSUME NEW u \in Tasks, at'[u] = "parked"
        PROVE  \/ state'[u] = "BLOCKED" /\ \E i \in 1 .. Len(waiters') : waiters'[i] = u
               \/ state'[u] = "READY" /\ owner' = u
    <3>1. CASE u = w
      BY <2>1, <2>w, <3>1, SMTT(60) DEF MutexInv, TypeOK
    <3>2. CASE u # w
      <4>1. at[u] = "parked" /\ u # t
        BY <2>c, <2>w DEF MutexInv, TypeOK
      <4>2. PICK i \in 1 .. Len(waiters) : waiters[i] = u /\ state[u] = "BLOCKED"
        BY <4>1, <2>w DEF MutexInv, HandoffExact
      <4>3. i # 1
        BY <4>2, <2>2, <3>2, SMTT(60) DEF w
      <4>4. i - 1 \in 1 .. Len(waiters') /\ waiters'[i - 1] = u
        BY <4>2, <4>3, <2>2
      <4> QED BY <4>2, <4>4, <2>w, <3>2, SMTT(60) DEF MutexInv, TypeOK
    <3> QED BY <3>1, <3>2, SMTT(60)
  <2>d. /\ \A u \in Tasks : at'[u] = "in" => owner' = u
        /\ at'[owner'] # "out" /\ state'[owner'] = "READY"
        /\ owner' # NULL /\ locked' = 1
    BY <1>4, <2>2, <2>w, SMTT(60) DEF MutexInv, TypeOK, HandoffExact, w
  <2>3. HandoffExact'
    BY <2>a, <2>b, <2>c, <2>d, SMTT(60) DEF HandoffExact
  <2> QED BY <2>1, <2>3 DEF MutexInv
<1>5. ASSUME NEW t \in Tasks, UnlockFree(t) PROVE MutexInv'
  BY <1>5, SMTT(60) DEF MutexInv, TypeOK, HandoffExact, UnlockFree
<1>6. CASE UNCHANGED vars
  BY <1>6 DEF MutexInv, TypeOK, HandoffExact, vars
<1> QED BY <1>1, <1>2, <1>3, <1>4, <1>5, <1>6, SMTT(60) DEF Next

\* The lock word, the owner, the wait list and the run states of the tasks
\* agree after any sequence of mutex_lock and mutex_unlock calls.
THEOREM HandoffIsExact == Spec => [](TypeOK /\ HandoffExact)
<1>1. MutexInv => TypeOK /\ HandoffExact
  BY DEF MutexInv
<1> QED BY InitMutexInv, NextMutexInv, <1>1, PTL DEF Spec

\* Two tasks are never both between mutex_lock and mutex_unlock.
THEOREM MutexIsExclusive == Spec => []MutualExclusion
<1>1. MutexInv => MutualExclusion
  BY DEF MutexInv, HandoffExact, MutualExclusion
<1> QED BY InitMutexInv, NextMutexInv, <1>1, PTL DEF Spec

\* mutex_lock never succeeds at once while another task is queued.
THEOREM MutexIsFair == Spec => NoOvertaking
<1>1. MutexInv /\ [Next]_vars =>
        [\A t \in Tasks : at[t] = "out" /\ at'[t] = "in" => waiters = <<>>]_vars
  <2> SUFFICES ASSUME MutexInv, Next,
                      NEW t \in Tasks, at[t] = "out", at'[t] = "in"
               PROVE waiters = <<>>
    OBVIOUS
  <2>1. PICK u \in Tasks : LockFree(u) \/ LockPark(u) \/ Resume(u)
                             \/ UnlockHandoff(u) \/ UnlockFree(u)
    BY DEF Next
  <2>2. LockFree(u)
    BY <2>1 DEF MutexInv, TypeOK, LockFree, LockPark, Resume, UnlockHandoff, UnlockFree
  <2> QED BY <2>2 DEF MutexInv, HandoffExact, LockFree
<1> QED BY InitMutexInv, NextMutexInv, <1>1, PTL DEF Spec, NoOvertaking

\* Mutual exclusion, exact handoff and first come first served, for any set of tasks.
THEOREM MutexIsSound == Spec => MutexSound
<1>1. [](MutualExclusion /\ TypeOK /\ HandoffExact) /\ NoOvertaking => MutexSound
  <2>1. (MutualExclusion /\ HandoffExact)' /\
        [\A t \in Tasks : at[t] = "out" /\ at'[t] = "in" => waiters = <<>>]_vars =>
          [/\ MutualExclusion' /\ HandoffExact'
           /\ \A t \in Tasks : at[t] = "out" /\ at'[t] = "in" => waiters = <<>>]_vars
    OBVIOUS
  <2> QED BY <2>1, PTL DEF MutexSound, NoOvertaking
<1> QED BY HandoffIsExact, MutexIsExclusive, MutexIsFair, <1>1, PTL

-----------------------------------------------------------------------------
(* The block cache of src/file_system/blocks_buffer.c, for any number of
   tasks and blocks and any capacity: a buffer somebody holds stays, and an
   update whose bwrite has returned is not lost.

   The order of the LRU list decides only which node goes.  The argument is
   about the set of nodes: one per block and per buffer (Listed), with the
   callers that hold it counted (Pinned), and, with one system call at a
   time, a copy of every update either in a dirty buffer or on disk
   (Durable). *)

Node == [blk : Blocks, dirty : BOOLEAN, ref : Nat, buf : Frames]
Data == [block : Blocks \cup {NoBlock}, updates : SUBSET Callers]
CallerPc == {"out", "reading", "have", "changed", "holding"}

\* The types of the cache, the frames, the disk and the callers.
CacheTypeOK ==
  /\ capacity \in 1 .. MaxCapacity
  /\ smp \in BOOLEAN /\ lock_lost \in BOOLEAN /\ mounted \in BOOLEAN
  /\ lru \in Seq(Node)
  /\ content \in [Frames -> Data]
  /\ disk \in [Blocks -> Data]
  /\ pc \in [Callers -> CallerPc]
  /\ blk \in [Callers -> Blocks \cup {NoBlock}]
  /\ buf \in [Callers -> Frames \cup {0}]
  /\ written \in [Blocks -> SUBSET Callers]

\* The nodes of a list differ in their blocks and in their buffers.
Distinct(l) == \A i, j \in DOMAIN l : i # j => l[i].blk # l[j].blk /\ l[i].buf # l[j].buf

\* There is one node for each block in the cache, and no more than fit.
Listed == Distinct(lru) /\ Len(lru) <= capacity

Nodes == Range(lru)

\* Between bread and the end of its system call a caller's pointer is the
\* buffer of its block's node; with several CPUs, until its brelse.
Holds(t) == \E n \in Nodes : n.blk = blk[t] /\ n.buf = buf[t]
Holders(b) == {t \in Callers : pc[t] # "out" /\ blk[t] = b}

Pinned ==
  /\ \A t \in Callers : pc[t] # "out" => blk[t] \in Blocks /\ buf[t] \in Frames
  /\ \A t \in Callers : InSyscall(t) => Holds(t)
  /\ smp /\ mounted => \A t \in Callers : pc[t] # "out" => Holds(t)
  /\ smp => \A n \in Nodes : n.ref = Cardinality(Holders(n.blk))

\* One CPU is in one system call; a volume that is gone is in none.
Serial ==
  /\ ~smp => \A t, u \in Callers : InSyscall(t) /\ InSyscall(u) => t = u
  /\ ~mounted => lru = <<>> /\ \A t \in Callers : ~InSyscall(t)

\* A block is on disk with all its updates unless its node is dirty; a buffer
\* that has been read in holds them all, and that of a caller its own change.
Reading(b) == \E t \in Callers : pc[t] = "reading" /\ blk[t] = b

Durable ==
  /\ \A b \in Blocks : disk[b].block = b
  /\ \A b \in Blocks : ~Cached(b) \/ Reading(b) => written[b] \subseteq disk[b].updates
  /\ \A n \in Nodes : ~Reading(n.blk) =>
       /\ content[n.buf].block = n.blk
       /\ written[n.blk] \subseteq content[n.buf].updates
       /\ ~n.dirty => written[n.blk] \subseteq disk[n.blk].updates
  /\ \A t \in Callers : pc[t] = "changed" => t \in content[buf[t]].updates

\* The inductive invariant.
CInv == CacheTypeOK /\ Listed /\ Pinned /\ Serial /\ (~smp => Durable)

-----------------------------------------------------------------------------
(* Lists of nodes *)

\* In a list of distinct nodes the block, or the buffer, tells the node.
LEMMA OneNode ==
  ASSUME NEW l \in Seq(Node), Distinct(l), NEW m \in Range(l), NEW n \in Range(l),
         m.blk = n.blk \/ m.buf = n.buf
  PROVE  m = n
BY Zenon DEF Distinct, Range

\* DeleteNodeFromLRU takes one node out and keeps the others.
LEMMA UnlinkedNodes ==
  ASSUME NEW l \in Seq(Node), Distinct(l), NEW i \in DOMAIN l
  PROVE  /\ Unlinked(l, i) \in Seq(Node) /\ Distinct(Unlinked(l, i))
         /\ Len(Unlinked(l, i)) = Len(l) - 1
         /\ Range(Unlinked(l, i)) = Range(l) \ {l[i]}
<1> DEFINE u == Unlinked(l, i)
<1>1. u \in [1 .. Len(l) - 1 -> Node] BY DEF Unlinked
<1>2. u \in Seq(Node) /\ Len(u) = Len(l) - 1 /\ DOMAIN u = 1 .. Len(l) - 1 BY <1>1
<1>3. \A k \in DOMAIN u : u[k] = l[IF k < i THEN k ELSE k + 1] BY Zenon, <1>2 DEF Unlinked
<1>4. \A j, k \in DOMAIN l : l[j] = l[k] => j = k BY Zenon DEF Distinct
<1>5. Distinct(u)
  <2> HIDE DEF u
  <2> SUFFICES ASSUME NEW j \in DOMAIN u, NEW k \in DOMAIN u, j # k
      PROVE  u[j].blk # u[k].blk /\ u[j].buf # u[k].buf
    BY Zenon DEF Distinct
  <2> DEFINE s(x) == IF x < i THEN x ELSE x + 1
  <2>1. s(j) \in DOMAIN l /\ s(k) \in DOMAIN l /\ s(j) # s(k) BY <1>2
  <2>2. u[j] = l[s(j)] /\ u[k] = l[s(k)] BY Zenon, <1>3
  <2> HIDE DEF s
  <2> QED BY Zenon, <2>1, <2>2 DEF Distinct
<1>6. Range(u) \subseteq Range(l) \ {l[i]}
  <2> HIDE DEF u
  <2> QED BY <1>2, <1>3, <1>4 DEF Range
<1>7. ASSUME NEW n \in Range(l) \ {l[i]} PROVE n \in Range(u)
  <2> HIDE DEF u
  <2>1. PICK k \in DOMAIN l : n = l[k] /\ k # i BY Zenon DEF Range
  <2>2. CASE k < i BY <2>1, <2>2, <1>2, <1>3 DEF Range
  <2>3. CASE k > i
    <3>1. k - 1 \in DOMAIN u /\ u[k - 1] = l[k] BY <2>1, <2>3, <1>2, <1>3
    <3> QED BY Zenon, <3>1, <2>1 DEF Range
  <2> QED BY <2>1, <2>2, <2>3
<1> QED BY Zenon, <1>2, <1>5, <1>6, <1>7

\* AddNodeToLRUHead of a node for a new block with a new buffer.
LEMMA AppendedNodes ==
  ASSUME NEW l \in Seq(Node), Distinct(l), NEW n \in Node,
         \A m \in Range(l) : m.blk # n.blk /\ m.buf # n.buf
  PROVE  /\ Append(l, n) \in Seq(Node) /\ Distinct(Append(l, n))
         /\ Len(Append(l, n)) = Len(l) + 1
         /\ Range(Append(l, n)) = Range(l) \cup {n}
<1> DEFINE a == Append(l, n)
<1>1. a \in Seq(Node) /\ Len(a) = Len(l) + 1 /\ DOMAIN a = 1 .. Len(l) + 1 OBVIOUS
<1>2. a[Len(l) + 1] = n /\ \A k \in 1 .. Len(l) : a[k] = l[k] OBVIOUS
<1>3. \A k \in 1 .. Len(l) : l[k] \in Range(l) BY DEF Range
<1> HIDE DEF a
<1>4. Distinct(a) BY <1>1, <1>2, <1>3 DEF Distinct
<1>5. Range(a) = Range(l) \cup {n} BY <1>1, <1>2 DEF Range
<1> QED BY Zenon, <1>1, <1>4, <1>5 DEF a

\* SwitchNodeToLRUHead, with the node's flags or count changed.
LEMMA MovedNodes ==
  ASSUME NEW l \in Seq(Node), Distinct(l), NEW i \in DOMAIN l,
         NEW n \in Node, n.blk = l[i].blk, n.buf = l[i].buf
  PROVE  /\ ToHead(l, i, n) \in Seq(Node) /\ Distinct(ToHead(l, i, n))
         /\ Len(ToHead(l, i, n)) = Len(l)
         /\ Range(ToHead(l, i, n)) = (Range(l) \ {l[i]}) \cup {n}
<1> DEFINE u == Unlinked(l, i)
<1>1. u \in Seq(Node) /\ Distinct(u) /\ Len(u) = Len(l) - 1 /\ Range(u) = Range(l) \ {l[i]}
  BY Zenon, UnlinkedNodes
<1>2. l[i] \in Range(l) BY Zenon DEF Range
<1>3. \A m \in Range(u) : m.blk # n.blk /\ m.buf # n.buf BY Zenon, <1>1, <1>2, OneNode
<1>4. Len(l) \in Nat OBVIOUS
<1> HIDE DEF u
<1>5. /\ Append(u, n) \in Seq(Node) /\ Distinct(Append(u, n))
      /\ Len(Append(u, n)) = Len(u) + 1 /\ Range(Append(u, n)) = Range(u) \cup {n}
  BY Zenon, <1>1, <1>3, AppendedNodes
<1> QED BY <1>1, <1>4, <1>5 DEF ToHead, u

\* A node changed in place.
LEMMA ChangedNodes ==
  ASSUME NEW l \in Seq(Node), Distinct(l), NEW i \in DOMAIN l,
         NEW n \in Node, n.blk = l[i].blk, n.buf = l[i].buf,
         NEW e \in [DOMAIN l -> Node], \A k \in DOMAIN l : e[k] = IF k = i THEN n ELSE l[k]
  PROVE  /\ e \in Seq(Node) /\ Distinct(e) /\ Len(e) = Len(l)
         /\ Range(e) = (Range(l) \ {l[i]}) \cup {n}
<1>1. e \in Seq(Node) /\ Len(e) = Len(l) /\ DOMAIN e = DOMAIN l OBVIOUS
<1>2. \A k \in DOMAIN l : e[k] = IF k = i THEN n ELSE l[k] BY Zenon
<1>3. Distinct(e) BY <1>1, <1>2 DEF Distinct
<1>4. \A j, k \in DOMAIN l : l[j] = l[k] => j = k BY Zenon DEF Distinct
<1>5. Range(e) = (Range(l) \ {l[i]}) \cup {n} BY <1>1, <1>2, <1>4 DEF Range
<1> QED BY Zenon, <1>1, <1>3, <1>5

LEMMA NodesTyped ==
  ASSUME CacheTypeOK, NEW k \in Nodes
  PROVE  k \in Node /\ k.blk \in Blocks /\ k.buf \in Frames /\ k.ref \in Nat
<1>1. k \in Node BY DEF CacheTypeOK, Nodes, Range
<1> QED BY Zenon, <1>1 DEF Node

\* What the search of the hash chains finds.
LEMMA Search ==
  ASSUME CacheTypeOK, Listed, NEW b
  PROVE  /\ Cached(b) <=> \E n \in Nodes : n.blk = b
         /\ Cached(b) => /\ At(b) \in DOMAIN lru /\ lru[At(b)].blk = b
                         /\ lru[At(b)] \in Nodes /\ lru[At(b)] \in Node
<1>1. Cached(b) <=> \E n \in Nodes : n.blk = b BY Zenon DEF Cached, Nodes, Range
<1>2. ASSUME Cached(b) PROVE At(b) \in DOMAIN lru /\ lru[At(b)].blk = b BY Zenon, <1>2 DEF Cached, At
<1>3. \A i \in DOMAIN lru : lru[i] \in Nodes /\ lru[i] \in Node BY DEF CacheTypeOK, Nodes, Range
<1> QED BY Zenon, <1>1, <1>2, <1>3

\* There is a frame for a new buffer: one more than the cache may hold.
LEMMA FrameFree ==
  ASSUME CacheTypeOK, Listed
  PROVE  NewFrame \in Frames /\ \A n \in Nodes : n.buf # NewFrame
<1>1. \E f \in Frames : \A i \in DOMAIN lru : lru[i].buf # f
  <2> SUFFICES ASSUME \A f \in Frames : \E i \in DOMAIN lru : lru[i].buf = f PROVE FALSE BY Zenon
  <2> DEFINE pos == [f \in Frames |-> CHOOSE i \in DOMAIN lru : lru[i].buf = f]
  <2>1. pos \in [Frames -> 1 .. Len(lru)] BY SMTT(30) DEF CacheTypeOK
  <2>2. \A f \in Frames : lru[pos[f]].buf = f BY Zenon
  <2>3. Len(lru) \in Nat /\ Len(lru) < MaxCapacity + 1 BY CacheAssumption DEF CacheTypeOK, Listed
  <2>4. \A n \in Nat : IsFiniteSet(1 .. n) /\ Cardinality(1 .. n) = n
    <3> TAKE n \in Nat
    <3>1. IsFiniteSet(1 .. n) /\ Cardinality(1 .. n) = IF 1 > n THEN 0 ELSE n - 1 + 1 BY FS_Interval
    <3> QED BY <3>1
  <2> HIDE DEF pos
  <2>5. /\ IsFiniteSet(Frames) /\ IsFiniteSet(1 .. Len(lru))
        /\ Cardinality(1 .. Len(lru)) < Cardinality(Frames)
    BY <2>3, <2>4, CacheAssumption DEF Frames
  <2>6. \E f, g \in Frames : f # g /\ pos[f] = pos[g] BY <2>1, <2>5, FS_PigeonHole
  <2> QED BY Zenon, <2>2, <2>6
<1>2. NewFrame \in Frames /\ \A i \in DOMAIN lru : lru[i].buf # NewFrame BY Zenon, <1>1 DEF NewFrame
<1> QED BY Zenon, <1>2 DEF Nodes, Range

\* Counting callers.
LEMMA Counting ==
  ASSUME NEW S \in SUBSET Callers, NEW t \in Callers
  PROVE  /\ Cardinality(S) \in Nat
         /\ Cardinality(S) = 0 <=> S = {}
         /\ t \notin S => Cardinality(S \cup {t}) = Cardinality(S) + 1
         /\ t \in S => Cardinality(S \ {t}) = Cardinality(S) - 1
<1>1. IsFiniteSet(S) BY Zenon, CacheAssumption, FS_Subset
<1>2. Cardinality(S) \in Nat BY Zenon, <1>1, FS_CardinalityType
<1>3. Cardinality(S) = 0 <=> S = {} BY Zenon, <1>1, FS_EmptySet
<1>4. t \notin S => Cardinality(S \cup {t}) = Cardinality(S) + 1 BY Zenon, <1>1, FS_AddElement
<1>5. t \in S => Cardinality(S \ {t}) = Cardinality(S) - 1 BY Zenon, <1>1, FS_RemoveElement
<1> QED BY Zenon, <1>2, <1>3, <1>4, <1>5

-----------------------------------------------------------------------------
(* What the steps do to the set of nodes *)

\* Node m becomes n: the same block in the same buffer.
Replaced(m, n) ==
  /\ m \in Nodes /\ m \in Node /\ n \in Node /\ n.blk = m.blk /\ n.buf = m.buf
  /\ lru' \in Seq(Node) /\ Distinct(lru') /\ Len(lru') = Len(lru)
  /\ Nodes' = (Nodes \ {m}) \cup {n}

LEMMA ReplacedKeeps ==
  ASSUME CacheTypeOK, Listed, NEW m, NEW n, Replaced(m, n)
  PROVE  /\ capacity' = capacity => Listed'
         /\ lru # <<>>
         /\ \A k \in Nodes : k # m => k.blk # m.blk /\ k.buf # m.buf
         /\ \A b : Cached(b)' <=> Cached(b)
         /\ \A b, f : (\E k \in Nodes : k.blk = b /\ k.buf = f) =>
                        \E k \in Nodes' : k.blk = b /\ k.buf = f
<1>1. capacity' = capacity => Listed' BY Zenon DEF Replaced, Listed
<1>2. \A k \in Nodes : k # m => k.blk # m.blk /\ k.buf # m.buf
  BY Zenon, OneNode DEF Replaced, Listed, CacheTypeOK, Nodes
<1>3. \A b : Cached(b) <=> \E k \in Nodes : k.blk = b BY Zenon DEF Cached, Nodes, Range
<1>4. \A b : Cached(b)' <=> \E k \in Nodes' : k.blk = b BY Zenon DEF Cached, Nodes, Range
<1>5. \A b : Cached(b)' <=> Cached(b) BY Zenon, <1>3, <1>4 DEF Replaced
<1>6. \A b, f : (\E k \in Nodes : k.blk = b /\ k.buf = f) =>
                 \E k \in Nodes' : k.blk = b /\ k.buf = f
  BY Zenon DEF Replaced
<1>7. lru # <<>> BY DEF Replaced, Nodes, Range
<1> QED BY Zenon, <1>1, <1>2, <1>5, <1>6, <1>7

\* The node of a cached block moves to the head of the list.
LEMMA HeadReplaced ==
  ASSUME CacheTypeOK, Listed, NEW b, Cached(b), NEW n \in Node,
         n.blk = lru[At(b)].blk, n.buf = lru[At(b)].buf,
         lru' = ToHead(lru, At(b), n)
  PROVE  Replaced(lru[At(b)], n)
<1>1. At(b) \in DOMAIN lru /\ lru[At(b)] \in Nodes /\ lru[At(b)] \in Node BY Zenon, Search
<1> QED BY <1>1, MovedNodes DEF Replaced, CacheTypeOK, Listed, Nodes

\* The node of a cached block is changed where it is.
LEMMA PlaceReplaced ==
  ASSUME CacheTypeOK, Listed, NEW b, Cached(b), NEW n \in Node,
         n.blk = lru[At(b)].blk, n.buf = lru[At(b)].buf,
         lru' \in [DOMAIN lru -> Node],
         \A k \in DOMAIN lru : lru'[k] = IF k = At(b) THEN n ELSE lru[k]
  PROVE  Replaced(lru[At(b)], n)
<1>1. At(b) \in DOMAIN lru /\ lru[At(b)] \in Nodes /\ lru[At(b)] \in Node BY Zenon, Search
<1>2. lru \in Seq(Node) /\ Distinct(lru) BY Zenon DEF CacheTypeOK, Listed
<1>3. /\ lru' \in Seq(Node) /\ Distinct(lru') /\ Len(lru') = Len(lru)
      /\ Range(lru') = (Range(lru) \ {lru[At(b)]}) \cup {n}
  BY <1>1, <1>2, ChangedNodes
<1> QED BY Zenon, <1>1, <1>3 DEF Replaced, Nodes

\* What writing back a set of the cached nodes leaves on the disk.
LEMMA WrittenBack ==
  ASSUME CacheTypeOK, Listed, NEW N \in SUBSET Nodes
  PROVE  /\ WriteBack(N) \in [Blocks -> Data]
         /\ \A n \in N : n.dirty => WriteBack(N)[n.blk] = content[n.buf]
         /\ \A b \in Blocks : (\A n \in N : n.blk = b => ~n.dirty) => WriteBack(N)[b] = disk[b]
<1>1. N \subseteq Node BY DEF CacheTypeOK, Nodes, Range
<1>2. \A m, n \in N : m.blk = n.blk => m = n BY Zenon, OneNode DEF CacheTypeOK, Listed, Nodes
<1>3. \A n \in N : (CHOOSE k \in N : k.blk = n.blk) = n BY Zenon, <1>2
<1>4. \A n \in N : n.dirty => WriteBack(N)[n.blk] = content[n.buf]
  BY Zenon, <1>1, <1>3 DEF WriteBack, Node
<1>5. \A b \in Blocks : (\A n \in N : n.blk = b => ~n.dirty) => WriteBack(N)[b] = disk[b]
  BY Zenon DEF WriteBack
<1>6. ASSUME NEW b \in Blocks PROVE WriteBack(N)[b] \in Data
  <2>1. CASE \E n \in N : n.blk = b /\ n.dirty BY ZenonT(30), <2>1, <1>1, <1>4 DEF Node, CacheTypeOK
  <2>2. CASE \A n \in N : n.blk = b => ~n.dirty BY Zenon, <2>2, <1>5 DEF CacheTypeOK
  <2> QED BY Zenon, <2>1, <2>2
<1>7. WriteBack(N) \in [Blocks -> Data]
  <2>1. WriteBack(N) = [b \in Blocks |-> WriteBack(N)[b]] BY DEF WriteBack
  <2> QED BY Zenon, <2>1, <1>6
<1> QED BY Zenon, <1>4, <1>5, <1>7

\* With one system call at a time, what is written back is all there is.
LEMMA WrittenBackDurable ==
  ASSUME CacheTypeOK, Listed, Durable, NEW N \in SUBSET Nodes, \A b : ~Reading(b)
  PROVE  /\ \A b \in Blocks : WriteBack(N)[b].block = b
         /\ \A n \in N : written[n.blk] \subseteq WriteBack(N)[n.blk].updates
         /\ \A b \in Blocks : written[b] \subseteq disk[b].updates =>
                                written[b] \subseteq WriteBack(N)[b].updates
<1>1. Nodes \subseteq Node BY DEF CacheTypeOK, Nodes, Range
<1>2. \A n \in Nodes : /\ n.blk \in Blocks
                       /\ content[n.buf].block = n.blk
                       /\ written[n.blk] \subseteq content[n.buf].updates
                       /\ ~n.dirty => written[n.blk] \subseteq disk[n.blk].updates
  BY Zenon, <1>1 DEF Durable, Node
<1>3. \A n \in N : n.dirty => WriteBack(N)[n.blk] = content[n.buf] BY Zenon, WrittenBack
<1>4. \A b \in Blocks : (\A n \in N : n.blk = b => ~n.dirty) => WriteBack(N)[b] = disk[b]
  BY Zenon, WrittenBack
<1>5. \A b \in Blocks : disk[b].block = b BY Zenon DEF Durable
<1>6. \A m, n \in N : m.blk = n.blk => m = n BY Zenon, OneNode DEF CacheTypeOK, Listed, Nodes
<1>7. \A n \in N : ~n.dirty => WriteBack(N)[n.blk] = disk[n.blk] BY Zenon, <1>2, <1>4, <1>6
<1>8. \A b \in Blocks : WriteBack(N)[b] = disk[b] \/ \E n \in N : n.blk = b /\ n.dirty BY Zenon, <1>4
<1>9. \A b \in Blocks : WriteBack(N)[b].block = b BY <1>2, <1>3, <1>5, <1>8
<1>10. \A n \in N : written[n.blk] \subseteq WriteBack(N)[n.blk].updates BY Zenon, <1>2, <1>3, <1>7
<1> QED BY Zenon, <1>8, <1>9, <1>10

\* A node that is replaced loses nothing as long as it stays dirty.
LEMMA ReplacedDurable ==
  ASSUME CacheTypeOK, Durable, NEW m, NEW n, Replaced(m, n), m.dirty => n.dirty,
         content' = content, disk' = disk, written' = written,
         \A b : Reading(b)' <=> Reading(b), \A b : Cached(b)' <=> Cached(b),
         \A t \in Callers : pc'[t] = "changed" => t \in content[buf'[t]].updates
  PROVE  Durable'
<1>1. \A b \in Blocks : disk'[b].block = b BY Zenon DEF Durable
<1>2. \A b \in Blocks : ~Cached(b)' \/ Reading(b)' => written'[b] \subseteq disk'[b].updates
  BY Zenon DEF Durable
<1>3. ASSUME NEW k \in Nodes', ~Reading(k.blk)'
      PROVE  /\ content[k.buf].block = k.blk
             /\ written[k.blk] \subseteq content[k.buf].updates
             /\ ~k.dirty => written[k.blk] \subseteq disk[k.blk].updates
  <2>1. PICK j \in Nodes : j.blk = k.blk /\ j.buf = k.buf /\ (j.dirty => k.dirty)
    BY Zenon DEF Replaced
  <2> QED BY Zenon, <1>3, <2>1 DEF Durable
<1> QED BY Zenon, <1>1, <1>2, <1>3 DEF Durable

-----------------------------------------------------------------------------
(* The steps preserve the invariant *)

\* At the start nothing is cached.
LEMMA InitCInv == CacheInit => CInv
<1> SUFFICES ASSUME CacheInit PROVE CInv BY Zenon
<1> USE CacheAssumption DEF CacheInit
<1>1. Junk \in Data /\ \A b \in Blocks : Contents(b, {}) \in Data BY Zenon DEF Junk, Contents, Data
<1>2. CacheTypeOK
  <2>1. content \in [Frames -> Data] /\ disk \in [Blocks -> Data] BY Zenon, <1>1
  <2>2. pc \in [Callers -> CallerPc] /\ lru \in Seq(Node) BY DEF CallerPc
  <2>3. /\ blk \in [Callers -> Blocks \cup {NoBlock}] /\ buf \in [Callers -> Frames \cup {0}]
        /\ written \in [Blocks -> SUBSET Callers]
    BY Zenon
  <2> QED BY Zenon, <2>1, <2>2, <2>3 DEF CacheTypeOK
<1>3. Nodes = {} BY DEF Nodes, Range
<1>4. Listed BY DEF Listed, Distinct
<1>5. Pinned BY Zenon, <1>3 DEF Pinned, InSyscall
<1>6. Serial BY Zenon DEF Serial, InSyscall
<1>7. Durable BY Zenon, <1>3 DEF Durable, Contents
<1> QED BY Zenon, <1>2, <1>4, <1>5, <1>6, <1>7 DEF CInv

\* bread finds the block: one more holder.
LEMMA HitCInv ==
  ASSUME CInv, NEW t \in Callers, NEW b \in Blocks, BreadHit(t, b)
  PROVE  CInv'
<1> DEFINE m == lru[At(b)]
           n == [m EXCEPT !.ref = @ + 1]
<1> USE DEF CInv
<1>1. m \in Nodes /\ m \in Node /\ m.blk = b BY Zenon, Search DEF BreadHit
<1>2. n \in Node /\ n.blk = b /\ n.buf = m.buf /\ n.ref = m.ref + 1 /\ n.dirty = m.dirty BY <1>1 DEF Node
<1>3. Replaced(m, n) BY Zenon, <1>1, <1>2, HeadReplaced DEF BreadHit
<1>4. /\ pc[t] = "out" /\ MayRun(t) /\ pc' = [pc EXCEPT ![t] = "have"]
      /\ blk' = [blk EXCEPT ![t] = b] /\ buf' = [buf EXCEPT ![t] = m.buf]
      /\ capacity' = capacity /\ smp' = smp /\ content' = content /\ disk' = disk
      /\ lock_lost' = lock_lost /\ mounted' = mounted /\ written' = written
  BY Zenon DEF BreadHit, Hold, setup
<1> HIDE DEF m, n
<1>5. CacheTypeOK' BY Zenon, <1>1, <1>3, <1>4 DEF CacheTypeOK, Replaced, CallerPc, Node
<1>6. Listed' BY Zenon, <1>3, <1>4, ReplacedKeeps
<1>7. Pinned'
  <2>1. \A u \in Callers \ {t} : pc'[u] = pc[u] /\ blk'[u] = blk[u] /\ buf'[u] = buf[u]
    BY Zenon, <1>4 DEF CacheTypeOK
  <2>2. pc'[t] = "have" /\ blk'[t] = b /\ buf'[t] = m.buf BY Zenon, <1>4 DEF CacheTypeOK
  <2>3. \A u \in Callers \ {t} : Holds(u) => Holds(u)' BY <1>3, <2>1, ReplacedKeeps DEF Holds
  <2>4. Holds(t)' BY Zenon, <1>2, <1>3, <2>2 DEF Holds, Replaced
  <2>5. \A u \in Callers : pc'[u] # "out" => blk'[u] \in Blocks /\ buf'[u] \in Frames
    BY Zenon, <2>1, <2>2, <1>1 DEF Pinned, Node
  <2>6. Holders(b)' = Holders(b) \cup {t} /\ t \notin Holders(b) /\ Holders(b) \subseteq Callers
    BY Zenon, <2>1, <2>2, <1>4 DEF Holders
  <2>7. \A c : c # b => Holders(c)' = Holders(c) BY Zenon, <2>1, <2>2, <1>4 DEF Holders
  <2>8. ASSUME smp, NEW k \in Nodes' PROVE k.ref = Cardinality(Holders(k.blk)')
    <3>1. CASE k = n
      BY <3>1, <2>6, <2>8, <1>1, <1>2, Counting DEF Pinned
    <3>2. CASE k # n
      <4>1. k \in Nodes /\ k.blk # b BY Zenon, <3>2, <2>8, <1>1, <1>3, ReplacedKeeps DEF Replaced
      <4> QED BY Zenon, <4>1, <2>7, <2>8 DEF Pinned
    <3> QED BY Zenon, <3>1, <3>2
  <2> QED BY Zenon, <2>1, <2>2, <2>3, <2>4, <2>5, <2>8, <1>4 DEF Pinned, InSyscall
<1>8. Serial' BY ZenonT(30), <1>4 DEF Serial, MayRun, InSyscall, CacheTypeOK
<1>9. ASSUME ~smp PROVE Durable'
  <2>1. \A c : ~Reading(c) /\ ~Reading(c)' BY Zenon, <1>4, <1>9 DEF Reading, MayRun, InSyscall, CacheTypeOK
  <2>2. \A c : Cached(c)' <=> Cached(c) BY Zenon, <1>3, ReplacedKeeps
  <2>3. \A u \in Callers : pc'[u] # "changed"
    BY Zenon, <1>4, <1>9 DEF MayRun, InSyscall, CacheTypeOK
  <2> QED BY Zenon, <1>2, <1>3, <1>4, <1>9, <2>1, <2>2, <2>3, ReplacedDurable
<1> QED BY Zenon, <1>4, <1>5, <1>6, <1>7, <1>8, <1>9

\* bread does not find the block: some nodes nobody holds (none, or one) are
\* written back and go, and one for the block comes.
LEMMA MissEffect ==
  ASSUME CacheTypeOK, Listed, NEW t \in Callers, NEW b \in Blocks, BreadMiss(t, b)
  PROVE  \E d \in BOOLEAN, V \in SUBSET Nodes :
           /\ lru' \in Seq(Node) /\ Distinct(lru') /\ Len(lru') <= capacity
           /\ Nodes' = (Nodes \ V) \cup {[blk |-> b, dirty |-> d, ref |-> 1, buf |-> NewFrame]}
           /\ disk' = WriteBack(V) /\ \A v \in V : v.ref = 0
           /\ content' = [f \in Frames |-> IF \E n \in Nodes' : n.buf = f THEN content[f] ELSE Junk]
<1>1. NewFrame \in Frames /\ \A n \in Nodes : n.buf # NewFrame BY Zenon, FrameFree
<1> DEFINE node(d) == [blk |-> b, dirty |-> d, ref |-> 1, buf |-> NewFrame]
<1>2. PICK d \in BOOLEAN :
        /\ IF Len(lru) < capacity
           THEN lru' = Append(lru, node(d)) /\ disk' = disk
           ELSE \E i \in DOMAIN lru :
                  Victim(i) /\ Evict(i) /\ lru' = Append(Unlinked(lru, i), node(d))
        /\ Scrub(lru')
  BY Zenon DEF BreadMiss
<1> DEFINE n == node(d)
<1>3. n \in Node /\ n.blk = b /\ n.buf = NewFrame BY Zenon, <1>1 DEF Node
<1>4. \A k \in Nodes : k.blk # n.blk /\ k.buf # n.buf BY Zenon, <1>1, <1>3, Search DEF BreadMiss
<1>5. content' = [f \in Frames |-> IF \E k \in Nodes' : k.buf = f THEN content[f] ELSE Junk]
  <2>1. \A f : (\E i \in DOMAIN lru' : lru'[i].buf = f) <=> \E k \in Nodes' : k.buf = f
    BY Zenon DEF Nodes, Range
  <2> QED BY Zenon, <1>2, <2>1 DEF Scrub
<1>6. lru \in Seq(Node) /\ Distinct(lru) /\ Len(lru) <= capacity /\ Len(lru) \in Nat /\ capacity \in Nat
  BY CacheAssumption DEF CacheTypeOK, Listed
<1> HIDE DEF n
<1>7. CASE Len(lru) < capacity
  <2>1. lru' = Append(lru, n) /\ disk' = disk BY Zenon, <1>2, <1>7 DEF n
  <2>2. /\ Append(lru, n) \in Seq(Node) /\ Distinct(Append(lru, n))
        /\ Len(Append(lru, n)) = Len(lru) + 1 /\ Range(Append(lru, n)) = Range(lru) \cup {n}
    BY Zenon, <1>3, <1>4, <1>6, AppendedNodes DEF Nodes
  <2>3. /\ lru' \in Seq(Node) /\ Distinct(lru') /\ Len(lru') <= capacity
        /\ Nodes' = (Nodes \ {}) \cup {n}
    BY <1>6, <1>7, <2>1, <2>2 DEF Nodes
  <2>4. disk' = WriteBack({}) BY Zenon, <2>1 DEF WriteBack, CacheTypeOK
  <2> QED BY <2>3, <2>4, <1>5 DEF n
<1>8. CASE ~(Len(lru) < capacity)
  <2>1. PICK i \in DOMAIN lru : Victim(i) /\ Evict(i) /\ lru' = Append(Unlinked(lru, i), n)
    BY Zenon, <1>2, <1>8 DEF n
  <2> DEFINE u == Unlinked(lru, i)
  <2>2. /\ u \in Seq(Node) /\ Distinct(u) /\ Len(u) = Len(lru) - 1 /\ Range(u) = Nodes \ {lru[i]}
    BY Zenon, <1>6, UnlinkedNodes DEF Nodes
  <2> HIDE DEF u
  <2>3. /\ Append(u, n) \in Seq(Node) /\ Distinct(Append(u, n))
        /\ Len(Append(u, n)) = Len(u) + 1 /\ Range(Append(u, n)) = Range(u) \cup {n}
    BY Zenon, <1>3, <1>4, <2>2, AppendedNodes
  <2>4. /\ lru' \in Seq(Node) /\ Distinct(lru') /\ Len(lru') <= capacity
        /\ Nodes' = (Nodes \ {lru[i]}) \cup {n}
    BY <1>6, <2>1, <2>2, <2>3 DEF Nodes, u
  <2>5. lru[i] \in Nodes /\ lru[i].ref = 0 /\ disk' = WriteBack({lru[i]})
    BY Zenon, <2>1 DEF Nodes, Range, Victim, Evict
  <2> QED BY <2>4, <2>5, <1>5 DEF n
<1> QED BY Zenon, <1>7, <1>8

LEMMA MissCInv ==
  ASSUME CInv, NEW t \in Callers, NEW b \in Blocks, BreadMiss(t, b)
  PROVE  CInv'
<1> USE DEF CInv
<1>1. PICK d \in BOOLEAN, V \in SUBSET Nodes :
        /\ lru' \in Seq(Node) /\ Distinct(lru') /\ Len(lru') <= capacity
        /\ Nodes' = (Nodes \ V) \cup {[blk |-> b, dirty |-> d, ref |-> 1, buf |-> NewFrame]}
        /\ disk' = WriteBack(V) /\ \A v \in V : v.ref = 0
        /\ content' = [f \in Frames |-> IF \E n \in Nodes' : n.buf = f THEN content[f] ELSE Junk]
  BY Zenon, MissEffect
<1> DEFINE n == [blk |-> b, dirty |-> d, ref |-> 1, buf |-> NewFrame]
<1>2. NewFrame \in Frames /\ \A k \in Nodes : k.buf # NewFrame BY Zenon, FrameFree
<1>3. n \in Node /\ n.blk = b /\ n.buf = NewFrame /\ n.ref = 1 /\ Nodes' = (Nodes \ V) \cup {n}
  BY Zenon, <1>1, <1>2 DEF Node
<1>4. /\ pc[t] = "out" /\ MayRun(t) /\ mounted /\ pc' = [pc EXCEPT ![t] = "reading"]
      /\ blk' = [blk EXCEPT ![t] = b] /\ buf' = [buf EXCEPT ![t] = NewFrame]
      /\ capacity' = capacity /\ smp' = smp
      /\ lock_lost' = lock_lost /\ mounted' = mounted /\ written' = written
  BY ZenonT(30) DEF BreadMiss, Hold, setup, MayRun
<1>5. \A k \in Nodes : k.blk # b /\ k \in Node BY Search DEF BreadMiss, CacheTypeOK, Nodes, Range
<1> HIDE DEF n
<1>6. \A u \in Callers \ {t} : pc'[u] = pc[u] /\ blk'[u] = blk[u] /\ buf'[u] = buf[u]
  BY Zenon, <1>4 DEF CacheTypeOK
<1>7. pc'[t] = "reading" /\ blk'[t] = b /\ buf'[t] = NewFrame BY Zenon, <1>4 DEF CacheTypeOK
<1>8. CacheTypeOK'
  <2>1. disk' \in [Blocks -> Data] BY Zenon, <1>1, WrittenBack
  <2>2. content' \in [Frames -> Data]
    <3>1. Junk \in Data BY Zenon DEF Junk, Contents, Data
    <3> QED BY Zenon, <1>1, <3>1 DEF CacheTypeOK
  <2> QED BY Zenon, <1>1, <1>2, <1>4, <2>1, <2>2 DEF CacheTypeOK, CallerPc
<1>9. Listed' BY Zenon, <1>1, <1>4 DEF Listed
<1>10. Pinned'
  <2>1. \A u \in Callers : pc'[u] # "out" => blk'[u] \in Blocks /\ buf'[u] \in Frames
    BY Zenon, <1>2, <1>6, <1>7 DEF Pinned
  <2>2. ASSUME smp PROVE \A v \in V : \A u \in Callers : pc[u] # "out" => blk[u] # v.blk
    <3> TAKE v \in V
    <3>1. Cardinality(Holders(v.blk)) = 0 BY Zenon, <1>1, <2>2 DEF Pinned
    <3>2. Holders(v.blk) = {}  BY Zenon, <3>1, Counting DEF Holders
    <3> QED BY Zenon, <3>2 DEF Holders
  <2>3. ASSUME NEW u \in Callers, u # t, Holds(u), pc[u] # "out", smp \/ InSyscall(u) PROVE Holds(u)'
    <3>1. smp BY Zenon, <2>3, <1>4 DEF MayRun
    <3>2. PICK k \in Nodes : k.blk = blk[u] /\ k.buf = buf[u] BY Zenon, <2>3 DEF Holds
    <3>3. k \notin V BY Zenon, <2>2, <2>3, <3>1, <3>2
    <3> QED BY Zenon, <1>3, <1>6, <2>3, <3>2, <3>3 DEF Holds
  <2>4. Holds(t)' BY Zenon, <1>3, <1>7 DEF Holds
  <2>5. \A c : c # b => Holders(c)' = Holders(c) BY Zenon, <1>4, <1>6, <1>7 DEF Holders
  <2>6. ASSUME smp PROVE Cardinality(Holders(b)') = 1
    <3>1. \A u \in Callers : pc[u] # "out" => blk[u] # b BY Zenon, <1>4, <1>5, <2>6 DEF Pinned, Holds
    <3>2. Holders(b)' = {} \cup {t} BY Zenon, <1>6, <1>7, <3>1 DEF Holders
    <3>3. {} \in SUBSET Callers BY Zenon
    <3>4. Cardinality({}) = 0 /\ Cardinality({} \cup {t}) = Cardinality({}) + 1
      BY <3>3, Counting, Zenon
    <3> QED BY <3>2, <3>4
  <2>7. ASSUME smp, NEW k \in Nodes' PROVE k.ref = Cardinality(Holders(k.blk)')
    <3>1. CASE k = n BY Zenon, <3>1, <2>6, <2>7, <1>3
    <3>2. CASE k \in Nodes BY Zenon, <3>2, <2>5, <2>7, <1>5 DEF Pinned
    <3> QED BY Zenon, <3>1, <3>2, <1>3
  <2> QED BY Zenon, <2>1, <2>3, <2>4, <2>7, <1>4, <1>6, <1>7 DEF Pinned, InSyscall
<1>11. Serial' BY Zenon, <1>4 DEF Serial, MayRun, InSyscall, CacheTypeOK
<1>12. ASSUME ~smp PROVE Durable'
  <2>1. \A c : ~Reading(c) BY Zenon, <1>4, <1>12 DEF Reading, MayRun, InSyscall
  <2>2. \A c : Reading(c)' <=> c = b
    BY <1>4, <1>6, <1>7, <1>12 DEF Reading, MayRun, InSyscall
  <2>3. \A c \in Blocks : disk'[c].block = c BY Zenon, <1>1, <1>12, <2>1, WrittenBackDurable
  <2>4. \A c \in Blocks : ~Cached(c) \/ c = b => written[c] \subseteq disk[c].updates
    BY Zenon, <1>12, Search DEF Durable, BreadMiss
  <2>5. \A v \in V : written[v.blk] \subseteq disk'[v.blk].updates
    BY Zenon, <1>1, <1>12, <2>1, WrittenBackDurable
  <2>6. \A c \in Blocks : written[c] \subseteq disk[c].updates => written[c] \subseteq disk'[c].updates
    BY Zenon, <1>1, <1>12, <2>1, WrittenBackDurable
  <2>7. \A c : Cached(c)' <=> \E k \in Nodes' : k.blk = c BY Zenon DEF Cached, Nodes, Range
  <2>8. \A c : Cached(c) <=> \E k \in Nodes : k.blk = c BY Zenon DEF Cached, Nodes, Range
  <2>9. ASSUME NEW c \in Blocks, ~Cached(c)' \/ Reading(c)'
        PROVE  written[c] \subseteq disk'[c].updates
    <3>1. CASE c = b \/ ~Cached(c) BY Zenon, <3>1, <2>4, <2>6
    <3>2. CASE c # b /\ Cached(c)
      <4>1. PICK k \in Nodes : k.blk = c BY Zenon, <3>2, <2>8
      <4>2. k \in V BY Zenon, <4>1, <3>2, <2>2, <2>7, <2>9, <1>3
      <4> QED BY Zenon, <4>1, <4>2, <2>5
    <3> QED BY Zenon, <3>1, <3>2
  <2>10. ASSUME NEW k \in Nodes', ~Reading(k.blk)'
         PROVE  /\ content'[k.buf].block = k.blk
                /\ written[k.blk] \subseteq content'[k.buf].updates
                /\ ~k.dirty => written[k.blk] \subseteq disk'[k.blk].updates
    <3>1. k \in Nodes /\ k.blk \in Blocks /\ k.buf \in Frames BY Zenon, <2>2, <2>10, <1>3, <1>5 DEF Node
    <3>2. content'[k.buf] = content[k.buf] BY Zenon, <1>1, <2>10, <3>1
    <3> QED BY Zenon, <3>1, <3>2, <2>1, <2>6, <1>12 DEF Durable
  <2>11. \A u \in Callers : pc'[u] # "changed" BY <1>4, <1>6, <1>7, <1>12 DEF MayRun, InSyscall
  <2> QED BY Zenon, <2>3, <2>9, <2>10, <2>11, <1>4 DEF Durable
<1> QED BY Zenon, <1>4, <1>8, <1>9, <1>10, <1>11, <1>12

\* Nobody starts or ends holding anything when a caller goes on with what it
\* holds.
LEMMA HoldersKept ==
  ASSUME CacheTypeOK, NEW t \in Callers, pc[t] # "out", NEW p \in CallerPc \ {"out"},
         pc' = [pc EXCEPT ![t] = p], blk' = blk, buf' = buf
  PROVE  /\ \A u \in Callers : pc'[u] = "out" <=> pc[u] = "out"
         /\ \A b : Holders(b)' = Holders(b)
         /\ Nodes' = Nodes => \A u \in Callers : Holds(u) => Holds(u)'
<1>1. \A u \in Callers : pc'[u] = "out" <=> pc[u] = "out" BY Zenon DEF CacheTypeOK
<1>2. \A b : Holders(b)' = Holders(b) BY Zenon, <1>1 DEF Holders
<1>3. Nodes' = Nodes => \A u \in Callers : Holds(u) => Holds(u)' BY Zenon DEF Holds
<1> QED BY Zenon, <1>1, <1>2, <1>3

\* The disk is read into a new buffer, and a caller changes or looks at its.
LEMMA BufferCInv ==
  ASSUME CInv, NEW t \in Callers, BreadFill(t) \/ Change(t) \/ Look(t)
  PROVE  CInv'
<1> USE DEF CInv
<1>1. PICK p \in {"have", "changed", "holding"} : pc' = [pc EXCEPT ![t] = p]
  BY Zenon DEF BreadFill, Change, Look
<1>2. /\ pc[t] \in {"reading", "have"} /\ lru' = lru /\ disk' = disk /\ blk' = blk /\ buf' = buf
      /\ capacity' = capacity /\ smp' = smp
      /\ lock_lost' = lock_lost /\ mounted' = mounted /\ written' = written
  BY Zenon DEF BreadFill, Change, Look, setup
<1>3. Nodes' = Nodes BY Zenon, <1>2 DEF Nodes
<1>4. blk[t] \in Blocks /\ buf[t] \in Frames /\ Holds(t) BY Zenon, <1>2 DEF Pinned, InSyscall
<1>5. PICK n \in Nodes : n.blk = blk[t] /\ n.buf = buf[t] BY Zenon, <1>4 DEF Holds
<1>6. /\ content' \in [Frames -> Data]
      /\ \A f \in Frames \ {buf[t]} : content'[f] = content[f]
  <2>1. CASE BreadFill(t) BY Zenon, <2>1, <1>4 DEF BreadFill, CacheTypeOK
  <2>2. CASE Change(t)
    <3>1. content' = [content EXCEPT ![buf[t]].updates = @ \cup {t}] BY Zenon, <2>2 DEF Change
    <3>2. content[buf[t]] \in Data BY Zenon, <1>4 DEF CacheTypeOK
    <3>3. [content[buf[t]] EXCEPT !.updates = @ \cup {t}] \in Data BY Zenon, <3>2 DEF Data
    <3> QED BY Zenon, <3>1, <3>3, <1>4 DEF CacheTypeOK
  <2>3. CASE Look(t) BY Zenon, <2>3 DEF Look, CacheTypeOK
  <2> QED BY Zenon, <2>1, <2>2, <2>3
<1>7. CacheTypeOK' BY Zenon, <1>1, <1>2, <1>6 DEF CacheTypeOK, CallerPc
<1>8. Listed' BY Zenon, <1>2 DEF Listed
<1>9. Pinned'
  <2>1. /\ \A u \in Callers : pc'[u] = "out" <=> pc[u] = "out"
        /\ \A b : Holders(b)' = Holders(b)
        /\ \A u \in Callers : Holds(u) => Holds(u)'
    BY Zenon, <1>1, <1>2, <1>3, HoldersKept DEF CallerPc
  <2>2. \A u \in Callers : InSyscall(u)' => InSyscall(u) BY Zenon, <1>1, <1>2 DEF InSyscall, CacheTypeOK
  <2> QED BY Zenon, <2>1, <2>2, <1>2, <1>3 DEF Pinned
<1>10. Serial' BY Zenon, <1>1, <1>2 DEF Serial, InSyscall, CacheTypeOK
<1>11. ASSUME ~smp PROVE Durable'
  <2>1. \A u \in Callers \ {t} : ~InSyscall(u) BY Zenon, <1>2, <1>11 DEF Serial, InSyscall
  <2>2. \A u \in Callers \ {t} : pc'[u] = pc[u] BY Zenon, <1>1 DEF CacheTypeOK
  <2>3. pc'[t] = p BY Zenon, <1>1 DEF CacheTypeOK
  <2>4. \A b : ~Reading(b)' BY Zenon, <2>1, <2>2, <2>3 DEF Reading, InSyscall
  <2>5. \A b : b # blk[t] => ~Reading(b) BY Zenon, <2>1 DEF Reading, InSyscall
  <2>6. \A b : Cached(b)' <=> Cached(b) BY Zenon, <1>2 DEF Cached
  <2>7. /\ content'[n.buf].block = n.blk
        /\ written[n.blk] \subseteq content'[n.buf].updates
        /\ ~n.dirty => written[n.blk] \subseteq disk[n.blk].updates
    <3>1. CASE BreadFill(t)
      <4>1. Reading(n.blk) BY Zenon, <3>1, <1>5 DEF BreadFill, Reading
      <4>2. content'[n.buf] = disk[n.blk] BY Zenon, <3>1, <1>4, <1>5 DEF BreadFill, CacheTypeOK
      <4> QED BY Zenon, <4>1, <4>2, <1>4, <1>5, <1>11 DEF Durable
    <3>2. CASE Change(t) \/ Look(t)
      <4>1. ~Reading(n.blk) BY Zenon, <3>2, <2>1 DEF Reading, InSyscall, Change, Look
      <4>2. content[n.buf] \in Data BY Zenon, <1>4, <1>5 DEF CacheTypeOK
      <4>3. /\ content'[n.buf].block = content[n.buf].block
            /\ content[n.buf].updates \subseteq content'[n.buf].updates
        BY <3>2, <1>4, <1>5, <4>2 DEF Change, Look, CacheTypeOK, Data
      <4> QED BY Zenon, <4>1, <4>3, <1>11 DEF Durable
    <3> QED BY Zenon, <3>1, <3>2
  <2>8. ASSUME NEW k \in Nodes, k # n
        PROVE  /\ content'[k.buf].block = k.blk
               /\ written[k.blk] \subseteq content'[k.buf].updates
               /\ ~k.dirty => written[k.blk] \subseteq disk[k.blk].updates
    <3>1. k.blk # n.blk /\ k.buf # n.buf BY Zenon, <2>8, OneNode DEF CacheTypeOK, Listed, Nodes
    <3>2. k.buf \in Frames BY Zenon, <2>8, NodesTyped
    <3> QED BY ZenonT(30), <3>1, <3>2, <2>5, <2>8, <1>5, <1>6, <1>11 DEF Durable
  <2>9. ASSUME NEW u \in Callers, pc'[u] = "changed" PROVE u \in content'[buf'[u]].updates
    <3>1. u = t /\ Change(t) BY SMTT(30), <2>1, <2>2, <2>3, <2>9, <1>1 DEF InSyscall, BreadFill, Look, CacheTypeOK
    <3>2. content[buf[t]] \in Data BY Zenon, <1>4 DEF CacheTypeOK
    <3> QED BY ZenonT(30), <3>1, <3>2, <1>2, <1>4 DEF Change, CacheTypeOK, Data
  <2> QED BY ZenonT(30), <1>2, <1>3, <1>11, <2>4, <2>6, <2>7, <2>8, <2>9 DEF Durable
<1> QED BY Zenon, <1>2, <1>7, <1>8, <1>9, <1>10, <1>11

\* bwrite marks the node its caller holds.
LEMMA WriteCInv ==
  ASSUME CInv, NEW t \in Callers, Bwrite(t)
  PROVE  CInv'
<1> DEFINE b == blk[t]
           m == lru[At(b)]
           n == [m EXCEPT !.dirty = TRUE]
<1> USE DEF CInv
<1>1. /\ pc[t] = "changed" /\ pc' = [pc EXCEPT ![t] = "holding"]
      /\ written' = [written EXCEPT ![b] = @ \cup {t}]
      /\ content' = content /\ disk' = disk /\ blk' = blk /\ buf' = buf
      /\ capacity' = capacity /\ smp' = smp /\ lock_lost' = lock_lost /\ mounted' = mounted
  BY Zenon DEF Bwrite, setup
<1>2. b \in Blocks /\ Holds(t) BY Zenon, <1>1 DEF Pinned, InSyscall
<1>3. Cached(b) BY Zenon, <1>2, Search DEF Holds
<1>4. m \in Nodes /\ m \in Node /\ m.blk = b BY Zenon, <1>3, Search
<1>5. n \in Node /\ n.blk = b /\ n.buf = m.buf /\ n.ref = m.ref /\ n.dirty BY Zenon, <1>4 DEF Node
<1>6. Replaced(m, n) BY Zenon, <1>3, <1>4, <1>5, HeadReplaced DEF Bwrite
<1>7. buf[t] = m.buf BY Zenon, <1>2, <1>4, OneNode DEF Holds, CacheTypeOK, Listed, Nodes
<1> HIDE DEF m, n
<1>8. CacheTypeOK' BY Zenon, <1>1, <1>2, <1>6 DEF CacheTypeOK, Replaced, CallerPc
<1>9. Listed' BY Zenon, <1>1, <1>6, ReplacedKeeps
<1>10. Pinned'
  <2>1. /\ \A u \in Callers : pc'[u] = "out" <=> pc[u] = "out"
        /\ \A c : Holders(c)' = Holders(c)
    BY Zenon, <1>1, HoldersKept DEF CallerPc
  <2>2. \A u \in Callers : InSyscall(u)' => InSyscall(u) BY Zenon, <1>1 DEF InSyscall, CacheTypeOK
  <2>3. \A u \in Callers : Holds(u) => Holds(u)' BY <1>1, <1>6, ReplacedKeeps DEF Holds
  <2>4. ASSUME smp PROVE \A k \in Nodes' : k.ref = Cardinality(Holders(k.blk))
    BY ZenonT(30), <1>4, <1>5, <1>6, <2>4 DEF Pinned, Replaced
  <2> QED BY Zenon, <2>1, <2>2, <2>3, <2>4, <1>1 DEF Pinned
<1>11. Serial' BY <1>1, <1>6, ReplacedKeeps DEF Serial, InSyscall, CacheTypeOK
<1>12. ASSUME ~smp PROVE Durable'
  <2>1. \A u \in Callers \ {t} : ~InSyscall(u) BY Zenon, <1>1, <1>12 DEF Serial, InSyscall
  <2>2. \A u \in Callers : ~InSyscall(u)' BY Zenon, <1>1, <2>1 DEF InSyscall, CacheTypeOK
  <2>3. \A c : ~Reading(c) /\ ~Reading(c)' BY Zenon, <1>1, <2>1, <2>2 DEF Reading, InSyscall
  <2>4. \A c : Cached(c)' <=> Cached(c) BY Zenon, <1>6, ReplacedKeeps
  <2>5. \A c \in Blocks : c # b => written'[c] = written[c] BY ZenonT(30), <1>1, <1>2 DEF CacheTypeOK
  <2>6. /\ content[m.buf].block = b
        /\ written'[b] \subseteq content[m.buf].updates
    BY SMTT(30), <1>1, <1>2, <1>4, <1>7, <1>12, <2>3 DEF Durable, CacheTypeOK
  <2>7. \A c \in Blocks : ~Cached(c)' => written'[c] \subseteq disk'[c].updates
    BY ZenonT(30), <1>1, <1>3, <1>12, <2>4, <2>5 DEF Durable
  <2>8. ASSUME NEW k \in Nodes'
        PROVE  /\ content[k.buf].block = k.blk
               /\ written'[k.blk] \subseteq content[k.buf].updates
               /\ ~k.dirty => written'[k.blk] \subseteq disk[k.blk].updates
    <3>1. CASE k = n BY Zenon, <3>1, <1>5, <2>6
    <3>2. CASE k # n
      <4>1. k \in Nodes /\ k.blk # b BY SMTT(30), <3>2, <2>8, <1>4, <1>6, ReplacedKeeps DEF Replaced
      <4>2. k.blk \in Blocks BY Zenon, <4>1, NodesTyped
      <4> QED BY ZenonT(30), <4>1, <4>2, <2>3, <2>5, <1>12 DEF Durable
    <3> QED BY Zenon, <3>1, <3>2
  <2> QED BY ZenonT(30), <1>1, <1>12, <2>2, <2>3, <2>7, <2>8 DEF Durable, InSyscall
<1> QED BY Zenon, <1>1, <1>8, <1>9, <1>10, <1>11, <1>12

\* brelse: one holder less.
LEMMA ReleaseCInv ==
  ASSUME CInv, NEW t \in Callers, Brelse(t)
  PROVE  CInv'
<1> USE DEF CInv
<1> PICK b : b = blk[t] BY Zenon
<1> DEFINE m == lru[At(b)]
           n == Unpin(m)
<1>1. /\ pc[t] = "holding" /\ MayRun(t) /\ mounted /\ pc' = [pc EXCEPT ![t] = "out"]
      /\ blk' = [blk EXCEPT ![t] = NoBlock] /\ buf' = [buf EXCEPT ![t] = 0]
      /\ content' = content /\ disk' = disk /\ written' = written
      /\ capacity' = capacity /\ smp' = smp /\ lock_lost' = lock_lost /\ mounted' = mounted
  BY Zenon DEF Brelse, Hold, setup, MayRun
<1>2. b \in Blocks BY Zenon, <1>1 DEF Pinned
<1>3. \A u \in Callers \ {t} : pc'[u] = pc[u] /\ blk'[u] = blk[u] /\ buf'[u] = buf[u]
  BY Zenon, <1>1 DEF CacheTypeOK
<1>4. pc'[t] = "out" BY Zenon, <1>1 DEF CacheTypeOK
<1>5. ASSUME Cached(b)
      PROVE  /\ Replaced(m, n) /\ m.blk = b /\ n.blk = b /\ n.dirty = m.dirty
             /\ n.ref = IF m.ref > 0 THEN m.ref - 1 ELSE m.ref
  <2>1. At(b) \in DOMAIN lru /\ m \in Node /\ m.blk = b BY Zenon, <1>5, Search
  <2>2. /\ n \in Node /\ n.blk = b /\ n.buf = m.buf /\ n.dirty = m.dirty
        /\ n.ref = IF m.ref > 0 THEN m.ref - 1 ELSE m.ref
    BY <2>1 DEF Unpin, Node
  <2>3. lru' = [lru EXCEPT ![At(b)] = n] BY Zenon, <1>5 DEF Brelse
  <2> HIDE DEF n
  <2>4. /\ lru' \in [DOMAIN lru -> Node]
        /\ \A k \in DOMAIN lru : lru'[k] = IF k = At(b) THEN n ELSE lru[k]
    BY <2>1, <2>2, <2>3 DEF CacheTypeOK
  <2>5. Replaced(m, n) BY Zenon, <1>5, <2>1, <2>2, <2>4, PlaceReplaced
  <2> QED BY Zenon, <2>1, <2>2, <2>5
<1>6. ASSUME ~Cached(b) PROVE lru' = lru /\ Nodes' = Nodes BY Zenon, <1>6 DEF Brelse, Nodes
<1> HIDE DEF m, n
<1>7. CacheTypeOK'
  <2>1. lru' \in Seq(Node) BY Zenon, <1>5, <1>6 DEF Replaced, CacheTypeOK
  <2> QED BY Zenon, <2>1, <1>1 DEF CacheTypeOK, CallerPc
<1>8. Listed' BY Zenon, <1>1, <1>5, <1>6, ReplacedKeeps DEF Listed
<1>9. Pinned'
  <2>1. \A u \in Callers \ {t} : Holds(u) => Holds(u)'
    <3>1. CASE Cached(b) BY SMTT(30), <3>1, <1>3, <1>5, ReplacedKeeps DEF Holds
    <3>2. CASE ~Cached(b) BY Zenon, <3>2, <1>3, <1>6 DEF Holds
    <3> QED BY ZenonT(30), <3>1, <3>2
  <2>2. \A c : c # b => Holders(c)' = Holders(c) BY Zenon, <1>3, <1>4 DEF Holders
  <2>3. Holders(b)' = Holders(b) \ {t} /\ t \in Holders(b) /\ Holders(b) \subseteq Callers
    BY Zenon, <1>1, <1>3, <1>4 DEF Holders
  <2>4. ASSUME smp, NEW k \in Nodes' PROVE k.ref = Cardinality(Holders(k.blk)')
    <3>1. Cached(b) BY Zenon, <1>1, <2>4, Search DEF Pinned, Holds
    <3>2. CASE k = n
      <4>1. m.ref = Cardinality(Holders(b)) BY Zenon, <1>5, <2>4, <3>1 DEF Pinned, Replaced
      <4>2. /\ Cardinality(Holders(b)) \in Nat /\ Cardinality(Holders(b)) # 0
            /\ Cardinality(Holders(b) \ {t}) = Cardinality(Holders(b)) - 1
        BY ZenonT(30), <2>3, Counting
      <4>3. k.ref = m.ref - 1 BY <3>1, <3>2, <4>1, <4>2, <1>5
      <4>4. Holders(k.blk)' = Holders(b) \ {t} BY Zenon, <3>1, <3>2, <1>5, <2>3
      <4> QED BY Zenon, <4>1, <4>2, <4>3, <4>4
    <3>3. CASE k # n
      <4>1. k \in Nodes /\ k.blk # b BY <3>1, <3>3, <2>4, <1>5, ReplacedKeeps DEF Replaced
      <4> QED BY Zenon, <4>1, <2>2, <2>4 DEF Pinned
    <3> QED BY Zenon, <3>2, <3>3
  <2> QED BY Zenon, <2>1, <2>4, <1>1, <1>3, <1>4 DEF Pinned, InSyscall
<1>10. Serial' BY Zenon, <1>1, <1>3, <1>4 DEF Serial, InSyscall
<1>11. ASSUME ~smp PROVE Durable'
  <2>1. \A u \in Callers : ~InSyscall(u) /\ ~InSyscall(u)'
    BY Zenon, <1>1, <1>3, <1>4, <1>11 DEF MayRun, InSyscall
  <2>2. \A c : ~Reading(c) /\ ~Reading(c)' BY Zenon, <2>1 DEF Reading, InSyscall
  <2>3. \A u \in Callers : pc'[u] # "changed" BY Zenon, <2>1 DEF InSyscall
  <2>4. CASE Cached(b)
    <3>1. \A c : Cached(c)' <=> Cached(c) BY Zenon, <1>5, <2>4, ReplacedKeeps
    <3> QED BY Zenon, <1>1, <1>5, <1>11, <2>2, <2>3, <2>4, <3>1, ReplacedDurable
  <2>5. CASE ~Cached(b)
    <3>1. \A c : Cached(c)' <=> Cached(c) BY Zenon, <1>6, <2>5 DEF Cached
    <3> QED BY Zenon, <1>1, <1>6, <1>11, <2>2, <2>3, <2>5, <3>1 DEF Durable
  <2> QED BY Zenon, <2>4, <2>5
<1> QED BY Zenon, <1>1, <1>7, <1>8, <1>9, <1>10, <1>11

\* Some nodes N are written back and marked clean.
LEMMA FlushCInv ==
  ASSUME CInv, NEW N \in SUBSET Nodes, disk' = WriteBack(N),
         lru' \in Seq(Node), Distinct(lru'), Len(lru') = Len(lru),
         Nodes' = (Nodes \ N) \cup {Cleaned(k) : k \in N},
         mounted, smp \/ \A u \in Callers : ~InSyscall(u),
         UNCHANGED <<setup, content, lock_lost, mounted, pc, blk, buf, written>>
  PROVE  CInv'
<1> USE DEF CInv
<1>1. /\ content' = content /\ written' = written /\ pc' = pc /\ blk' = blk /\ buf' = buf
      /\ capacity' = capacity /\ smp' = smp /\ lock_lost' = lock_lost /\ mounted' = mounted
  BY Zenon DEF setup
<1>2. \A k \in Nodes : /\ Cleaned(k).blk = k.blk /\ Cleaned(k).buf = k.buf
                       /\ Cleaned(k).ref = k.ref /\ ~Cleaned(k).dirty
  <2> TAKE k \in Nodes
  <2>1. k \in Node BY Zenon, NodesTyped
  <2> QED BY Zenon, <2>1 DEF Cleaned, Node
<1>3. \A k \in Nodes' : \E j \in Nodes :
        k.blk = j.blk /\ k.buf = j.buf /\ k.ref = j.ref /\ (k = j \/ (j \in N /\ ~k.dirty))
  BY Zenon, <1>2
<1>4. \A j \in Nodes : \E k \in Nodes' : k.blk = j.blk /\ k.buf = j.buf
  <2> TAKE j \in Nodes
  <2>1. CASE j \in N
    <3>1. Cleaned(j) \in Nodes' BY Zenon, <2>1
    <3> QED BY Zenon, <3>1, <1>2
  <2>2. CASE j \notin N BY Zenon, <2>2
  <2> QED BY Zenon, <2>1, <2>2
<1>5. CacheTypeOK'
  <2>1. disk' \in [Blocks -> Data] BY Zenon, WrittenBack
  <2> QED BY Zenon, <2>1, <1>1 DEF CacheTypeOK
<1>6. Listed' BY Zenon, <1>1 DEF Listed
<1>7. Pinned'
  <2>1. \A u \in Callers : Holds(u) => Holds(u)' BY <1>1, <1>4 DEF Holds
  <2>2. \A b : Holders(b)' = Holders(b) BY ZenonT(30), <1>1 DEF Holders
  <2>3. smp => \A k \in Nodes' : k.ref = Cardinality(Holders(k.blk)) BY <1>3 DEF Pinned
  <2> QED BY ZenonT(30), <1>1, <2>1, <2>2, <2>3 DEF Pinned, InSyscall
<1>8. Serial' BY <1>1 DEF Serial, InSyscall
<1>9. ASSUME ~smp PROVE Durable'
  <2>1. \A b : ~Reading(b) /\ ~Reading(b)' BY Zenon, <1>1, <1>9 DEF Reading, InSyscall
  <2>2. /\ \A b \in Blocks : disk'[b].block = b
        /\ \A n \in N : written[n.blk] \subseteq disk'[n.blk].updates
        /\ \A b \in Blocks : written[b] \subseteq disk[b].updates => written[b] \subseteq disk'[b].updates
    BY Zenon, <1>9, <2>1, WrittenBackDurable
  <2>3. \A b : Cached(b) <=> \E k \in Nodes : k.blk = b BY Zenon DEF Cached, Nodes, Range
  <2>4. \A b : Cached(b)' <=> \E k \in Nodes' : k.blk = b BY Zenon DEF Cached, Nodes, Range
  <2>5. \A b \in Blocks : ~Cached(b)' => written[b] \subseteq disk'[b].updates
    <3> TAKE b \in Blocks
    <3>1. ~Cached(b)' => ~Cached(b) BY Zenon, <1>4, <2>3, <2>4
    <3> QED BY ZenonT(30), <1>9, <2>2, <3>1 DEF Durable
  <2>6. ASSUME NEW k \in Nodes'
        PROVE  /\ content[k.buf].block = k.blk
               /\ written[k.blk] \subseteq content[k.buf].updates
               /\ ~k.dirty => written[k.blk] \subseteq disk'[k.blk].updates
    <3>1. PICK j \in Nodes : k.blk = j.blk /\ k.buf = j.buf /\ (k = j \/ (j \in N /\ ~k.dirty))
      BY Zenon, <1>3, <2>6
    <3>2. j.blk \in Blocks BY Zenon, NodesTyped
    <3>3. /\ content[j.buf].block = j.blk
          /\ written[j.blk] \subseteq content[j.buf].updates
          /\ ~j.dirty => written[j.blk] \subseteq disk[j.blk].updates
      BY Zenon, <1>9, <2>1 DEF Durable
    <3>4. ~k.dirty => written[k.blk] \subseteq disk'[k.blk].updates
      BY ZenonT(30), <2>2, <3>1, <3>2, <3>3
    <3> QED BY Zenon, <3>1, <3>3, <3>4
  <2> QED BY ZenonT(30), <1>1, <1>9, <2>1, <2>2, <2>5, <2>6 DEF Durable, InSyscall
<1> QED BY Zenon, <1>1, <1>5, <1>6, <1>7, <1>8, <1>9

\* bflush and bflush_all.
LEMMA BflushCInv ==
  ASSUME CInv, NEW t \in Callers, Bflush(t) \/ BflushAll(t)
  PROVE  CInv'
<1> USE DEF CInv
<1>1. /\ mounted /\ (smp \/ \A u \in Callers : ~InSyscall(u))
      /\ UNCHANGED <<setup, content, lock_lost, mounted, pc, blk, buf, written>>
  BY Zenon DEF Bflush, BflushAll, MayRun, InSyscall
<1>2. lru \in Seq(Node) /\ Distinct(lru) BY Zenon DEF CacheTypeOK, Listed
<1>3. CASE Bflush(t)
  <2> DEFINE m == lru[At(blk[t])]
  <2>1. Cached(blk[t]) BY Zenon, <1>3 DEF Bflush
  <2>2. m \in Nodes /\ m \in Node BY Zenon, <2>1, Search
  <2>3. Cleaned(m) \in Node /\ Cleaned(m).blk = m.blk /\ Cleaned(m).buf = m.buf
    BY Zenon, <2>2 DEF Cleaned, Node
  <2>4. Replaced(m, Cleaned(m)) BY Zenon, <1>3, <2>1, <2>3, HeadReplaced DEF Bflush
  <2>5. disk' = WriteBack({m}) BY Zenon, <1>3 DEF Bflush
  <2> HIDE DEF m
  <2>6. /\ lru' \in Seq(Node) /\ Distinct(lru') /\ Len(lru') = Len(lru)
        /\ Nodes' = (Nodes \ {m}) \cup {Cleaned(k) : k \in {m}}
    BY Zenon, <2>4 DEF Replaced
  <2> QED BY Zenon, <1>1, <2>2, <2>5, <2>6, FlushCInv
<1>4. CASE BflushAll(t)
  <2>1. lru' = [i \in DOMAIN lru |-> Cleaned(lru[i])] /\ disk' = WriteBack(Nodes)
    BY Zenon, <1>4 DEF BflushAll, Nodes
  <2>2. \A k \in Node : Cleaned(k) \in Node /\ Cleaned(k).blk = k.blk /\ Cleaned(k).buf = k.buf
    BY Zenon DEF Cleaned, Node
  <2>3. lru' \in Seq(Node) /\ Len(lru') = Len(lru) /\ DOMAIN lru' = DOMAIN lru BY <1>2, <2>1, <2>2
  <2>4. \A i \in DOMAIN lru : lru[i] \in Node /\ lru'[i] = Cleaned(lru[i]) BY SMTT(30), <1>2, <2>1
  <2>5. Distinct(lru') BY <1>2, <2>2, <2>3, <2>4 DEF Distinct
  <2>6. Nodes' = (Nodes \ Nodes) \cup {Cleaned(k) : k \in Nodes} BY Zenon, <2>3, <2>4 DEF Nodes, Range
  <2> QED BY Zenon, <1>1, <2>1, <2>3, <2>5, <2>6, FlushCInv
<1> QED BY Zenon, <1>3, <1>4

\* binvalidate, with one system call at a time: node, buffer and updates go.
LEMMA InvalidateCInv ==
  ASSUME CInv, NEW t \in Callers, NEW b \in Blocks, Binvalidate(t, b)
  PROVE  CInv'
<1> DEFINE m == lru[At(b)]
<1> USE DEF CInv
<1>1. /\ ~smp /\ mounted /\ lru' = Unlinked(lru, At(b)) /\ Scrub(lru')
      /\ written' = [written EXCEPT ![b] = {}]
      /\ disk' = disk /\ pc' = pc /\ blk' = blk /\ buf' = buf
      /\ capacity' = capacity /\ smp' = smp /\ lock_lost' = lock_lost /\ mounted' = mounted
  BY Zenon DEF Binvalidate, MayRun, setup
<1>2. \A u \in Callers : ~InSyscall(u) BY Zenon, <1>1 DEF Binvalidate, MayRun, InSyscall
<1>3. At(b) \in DOMAIN lru /\ m \in Nodes /\ m.blk = b BY Zenon, Search DEF Binvalidate
<1>4. /\ lru' \in Seq(Node) /\ Distinct(lru') /\ Len(lru') = Len(lru) - 1
      /\ Nodes' = Nodes \ {m}
  BY Zenon, <1>1, <1>3, UnlinkedNodes DEF CacheTypeOK, Listed, Nodes
<1>5. content' = [f \in Frames |-> IF \E k \in Nodes' : k.buf = f THEN content[f] ELSE Junk]
  <2>1. \A f : (\E i \in DOMAIN lru' : lru'[i].buf = f) <=> \E k \in Nodes' : k.buf = f
    BY Zenon DEF Nodes, Range
  <2> QED BY Zenon, <1>1, <2>1 DEF Scrub
<1> HIDE DEF m
<1>6. CacheTypeOK'
  <2>1. Junk \in Data BY Zenon DEF Junk, Contents, Data
  <2>2. content' \in [Frames -> Data] BY Zenon, <1>5, <2>1 DEF CacheTypeOK
  <2> QED BY Zenon, <2>2, <1>1, <1>4 DEF CacheTypeOK
<1>7. Listed'
  <2>1. Len(lru) \in Nat /\ capacity \in Nat BY CacheAssumption DEF CacheTypeOK
  <2> QED BY SMTT(30), <2>1, <1>1, <1>4 DEF Listed
<1>8. Pinned' BY Zenon, <1>1, <1>2 DEF Pinned, InSyscall
<1>9. Serial' BY Zenon, <1>1 DEF Serial, InSyscall
<1>10. Durable'
  <2>1. \A c : ~Reading(c) /\ ~Reading(c)' BY Zenon, <1>1, <1>2 DEF Reading, InSyscall
  <2>2. \A c : Cached(c) <=> \E k \in Nodes : k.blk = c BY Zenon DEF Cached, Nodes, Range
  <2>3. \A c : Cached(c)' <=> \E k \in Nodes' : k.blk = c BY Zenon DEF Cached, Nodes, Range
  <2>4. written'[b] = {} /\ \A c \in Blocks : c # b => written'[c] = written[c] BY Zenon, <1>1 DEF CacheTypeOK
  <2>5. \A c \in Blocks : ~Cached(c)' => written'[c] \subseteq disk'[c].updates
    BY ZenonT(30), <1>1, <1>3, <1>4, <2>2, <2>3, <2>4 DEF Durable
  <2>6. ASSUME NEW k \in Nodes'
        PROVE  /\ content'[k.buf].block = k.blk
               /\ written'[k.blk] \subseteq content'[k.buf].updates
               /\ ~k.dirty => written'[k.blk] \subseteq disk'[k.blk].updates
    <3>1. k \in Nodes /\ k # m BY Zenon, <1>4, <2>6
    <3>2. k.blk \in Blocks /\ k.buf \in Frames BY Zenon, <3>1, NodesTyped
    <3>3. k.blk # b BY Zenon, <3>1, <1>3, OneNode DEF CacheTypeOK, Listed, Nodes
    <3>4. content'[k.buf] = content[k.buf] BY Zenon, <1>5, <2>6, <3>2
    <3> QED BY ZenonT(30), <1>1, <2>1, <2>4, <3>1, <3>2, <3>3, <3>4 DEF Durable
  <2> QED BY ZenonT(30), <1>1, <1>2, <2>1, <2>5, <2>6 DEF Durable, InSyscall
<1> QED BY Zenon, <1>6, <1>7, <1>8, <1>9, <1>10

\* bclean_all: everything is written back and goes.
LEMMA CleanCInv == CInv /\ BcleanAll => CInv'
<1> SUFFICES ASSUME CInv, BcleanAll PROVE CInv' BY Zenon
<1> USE DEF CInv
<1>1. /\ disk' = WriteBack(Nodes) /\ lru' = <<>> /\ Scrub(lru') /\ mounted' = FALSE
      /\ pc' = pc /\ blk' = blk /\ buf' = buf /\ written' = written
      /\ capacity' = capacity /\ smp' = smp /\ lock_lost' = lock_lost
      /\ \A u \in Callers : ~InSyscall(u)
  BY Zenon DEF BcleanAll, Nodes, setup
<1>2. Nodes' = {} BY <1>1 DEF Nodes, Range
<1>3. CacheTypeOK'
  <2>1. Junk \in Data BY Zenon DEF Junk, Contents, Data
  <2>2. content' \in [Frames -> Data] BY Zenon, <1>1, <2>1 DEF CacheTypeOK, Scrub
  <2>3. disk' \in [Blocks -> Data] BY Zenon, <1>1, WrittenBack
  <2>4. lru' \in Seq(Node) BY <1>1
  <2> QED BY Zenon, <1>1, <2>2, <2>3, <2>4 DEF CacheTypeOK
<1>4. Listed'
  <2>1. capacity \in Nat BY CacheAssumption DEF CacheTypeOK
  <2> QED BY <1>1, <2>1 DEF Listed, Distinct
<1>5. Pinned' BY Zenon, <1>1, <1>2 DEF Pinned, InSyscall
<1>6. Serial' BY Zenon, <1>1 DEF Serial, InSyscall
<1>7. ASSUME ~smp PROVE Durable'
  <2>1. \A c : ~Reading(c) /\ ~Reading(c)' BY Zenon, <1>1 DEF Reading, InSyscall
  <2>2. /\ \A b \in Blocks : disk'[b].block = b
        /\ \A n \in Nodes : written[n.blk] \subseteq disk'[n.blk].updates
        /\ \A b \in Blocks : written[b] \subseteq disk[b].updates => written[b] \subseteq disk'[b].updates
    BY Zenon, <1>1, <1>7, <2>1, WrittenBackDurable
  <2>3. \A b : Cached(b) <=> \E k \in Nodes : k.blk = b BY Zenon DEF Cached, Nodes, Range
  <2>4. \A b \in Blocks : written[b] \subseteq disk'[b].updates BY Zenon, <1>7, <2>2, <2>3 DEF Durable
  <2> QED BY Zenon, <1>1, <1>2, <2>1, <2>2, <2>4 DEF Durable, InSyscall
<1> QED BY Zenon, <1>1, <1>3, <1>4, <1>5, <1>6, <1>7

\* Every step preserves the invariant.
LEMMA NextCInv == CInv /\ [CacheNext]_cacheVars => CInv'
<1> SUFFICES ASSUME CInv, [CacheNext]_cacheVars PROVE CInv' BY Zenon
<1>1. ASSUME UNCHANGED <<capacity, smp, lru, content, disk, mounted, pc, blk, buf, written>>,
             lock_lost' \in BOOLEAN
      PROVE  CInv'
  <2> USE <1>1 DEF CInv
  <2>1. CacheTypeOK' BY Zenon DEF CacheTypeOK
  <2>2. Listed' BY Zenon DEF Listed
  <2>3. Pinned' BY Zenon DEF Pinned, Nodes, Holds, Holders, InSyscall
  <2>4. Serial' BY Zenon DEF Serial, InSyscall
  <2>5. ~smp => Durable' BY ZenonT(30) DEF Durable, Nodes, Reading, Cached
  <2> QED BY Zenon, <2>1, <2>2, <2>3, <2>4, <2>5
<1>2. CASE UNCHANGED cacheVars BY Zenon, <1>1, <1>2 DEF cacheVars, setup, CInv, CacheTypeOK
<1>3. CASE BcleanAll BY Zenon, <1>3, CleanCInv
<1>4. ASSUME NEW t \in Callers, NEW b \in Blocks, BreadAllBusy(t, b) PROVE CInv'
  BY Zenon, <1>1, <1>4 DEF BreadAllBusy, setup
<1>5. ASSUME NEW t \in Callers, TaskStep(t) PROVE CInv'
  BY Zenon, <1>4, <1>5, HitCInv, MissCInv, BufferCInv, WriteCInv, ReleaseCInv, BflushCInv, InvalidateCInv
     DEF TaskStep
<1> QED BY Zenon, <1>2, <1>3, <1>5 DEF CacheNext

-----------------------------------------------------------------------------
\* What bwrite has accepted survives evictions, flushes, truncations of other
\* blocks and unmounting, for every set of callers and blocks and every
\* capacity, with one system call at a time.
THEOREM UpdatesSurvive == CacheSpec => []NoUpdateLost
<1>1. CInv => NoUpdateLost
  <2> SUFFICES ASSUME CInv, ~smp, NEW b \in Blocks
      PROVE LET now == IF Cached(b) /\ \A t \in Callers : pc[t] = "reading" => blk[t] # b
                       THEN content[lru[At(b)].buf] ELSE disk[b]
            IN  now.block = b /\ written[b] \subseteq now.updates
    BY ZenonT(30) DEF NoUpdateLost
  <2>1. CASE Cached(b) /\ ~Reading(b)
    <3>1. lru[At(b)] \in Nodes /\ lru[At(b)].blk = b BY Zenon, <2>1, Search DEF CInv
    <3> QED BY <2>1, <3>1 DEF CInv, Durable, Reading
  <2>2. CASE ~Cached(b) \/ Reading(b) BY Zenon, <2>2 DEF CInv, Durable, Reading
  <2> QED BY Zenon, <2>1, <2>2
<1> QED BY <1>1, InitCInv, NextCInv, PTL DEF CacheSpec

\* On several CPUs a buffer is neither freed nor reused while somebody holds
\* it, no block is cached twice, and every reference count is the number of
\* holders, for every set of callers and blocks and every capacity.
THEOREM BuffersHeld == CacheSpec => []CacheShared
<1>1. CInv => HoldersKeepBuffer
  <2> SUFFICES ASSUME CInv, smp, mounted, NEW t \in Callers, pc[t] # "out"
      PROVE Cached(blk[t]) /\ lru[At(blk[t])].buf = buf[t]
    BY Zenon DEF HoldersKeepBuffer
  <2>1. PICK n \in Nodes : n.blk = blk[t] /\ n.buf = buf[t] BY Zenon DEF CInv, Pinned, Holds
  <2>2. Cached(blk[t]) BY Zenon, <2>1, Search DEF CInv
  <2>3. lru[At(blk[t])] \in Nodes /\ lru[At(blk[t])].blk = blk[t] BY Zenon, <2>2, Search DEF CInv
  <2> QED BY Zenon, <2>1, <2>2, <2>3, OneNode DEF CInv, CacheTypeOK, Listed, Nodes
<1>2. CInv => CacheExact
  <2> SUFFICES ASSUME CInv, smp PROVE CacheExact BY Zenon DEF CacheExact
  <2>1. \A i \in DOMAIN lru : lru[i] \in Nodes BY Zenon DEF Nodes, Range
  <2>2. \A i \in DOMAIN lru : lru[i].ref = Cardinality(Holders(lru[i].blk)) BY Zenon, <2>1 DEF CInv, Pinned
  <2> QED BY Zenon, <2>2 DEF CacheExact, CInv, Listed, Distinct, Holders
<1>3. CInv => CacheShared BY Zenon, <1>1, <1>2 DEF CacheShared
<1> QED BY <1>3, InitCInv, NextCInv, PTL DEF CacheSpec

-----------------------------------------------------------------------------
(* Unmounting the root volume (src/file_system/ext2/ext2_sb_ops.c, vfs.c),
   for any number of tasks and operations: what is on disk at the end is
   all they did, marked valid.

   UnmountClean speaks of the end only.  GateExact says that io_inflight
   counts the calls inside, also the ones the shutdown NMI stopped, and
   that the gate is shut from the drain on; Durable follows the newest
   version of the data, and from the drain on that of the superblock,
   through the cache to the disk. *)

VolState == {"none", "valid", "error"}

\* The types of the superblock, the volume, the cache, the disk and the tasks.
GateTypeOK ==
  /\ sb \in [life : {"none", "mounted", "freed"}, unmounting : BOOLEAN, inflight : Nat]
  /\ vol \in [state : VolState, ver : Nat]
  /\ cache \in [sblk : [dirty : BOOLEAN, state : VolState, ver : Nat],
                data : [dirty : BOOLEAN, ver : Nat],
                flusher : Proc \cup {"um", "none"}]
  /\ media \in [state : VolState, sbVer : Nat, dataVer : Nat]
  /\ op \in [Proc -> {"idle", "in", "sync", "halted", "halted_in", "halted_lock"}]
  /\ um \in {"idle", "sync", "unmount", "drain", "sync2", "clean", "gone"}

\* The calls past fs_io_begin.
Inside == {p \in Proc : op[p] \in {"in", "halted_in"}}

\* io_inflight counts them; the gate is shut from the drain on, and nobody is
\* inside once it has been seen at 0.
GateExact ==
  /\ sb.inflight = Cardinality(Inside)
  /\ um # "idle" => sb.life # "none"
  /\ sb.life = "none" => Inside = {}
  /\ um \in {"drain", "sync2", "clean", "gone"} => sb.unmounting
  /\ cache.flusher = "um" => um \in {"sync", "sync2"}
  /\ GateDrained

\* The newest data is in the cache while it is dirty and on disk otherwise,
\* and after the drain the same holds of the superblock, marked valid.
GateDurable ==
  /\ sb.life = "none" => media.sbVer = media.dataVer /\ ~cache.sblk.dirty /\ ~cache.data.dirty
  /\ sb.life # "none" => (IF cache.data.dirty THEN cache.data.ver ELSE media.dataVer) = vol.ver
  /\ um \in {"sync2", "clean"} =>
       /\ vol.state = "valid"
       /\ (IF cache.sblk.dirty THEN cache.sblk.ver ELSE media.sbVer) = vol.ver
       /\ (IF cache.sblk.dirty THEN cache.sblk.state ELSE media.state) = "valid"
  /\ um = "gone" => ~cache.sblk.dirty /\ ~cache.data.dirty
  /\ UnmountDurable

GateInv == GateTypeOK /\ GateExact /\ GateDurable

\* The calls inside are finitely many.
LEMMA InsideFinite == IsFiniteSet(Inside) /\ Cardinality(Inside) \in Nat
BY GateAssumption, FS_Subset, FS_CardinalityType DEF Inside

\* Before the mount nothing is inside and nothing is dirty.
LEMMA InitGateInv == GateInit => GateInv
<1> SUFFICES ASSUME GateInit PROVE GateInv
  OBVIOUS
<1>1. GateTypeOK
  BY SMTT(30) DEF GateInit, GateTypeOK, VolState, Clean
<1>2. Inside = {}
  BY SMTT(30) DEF GateInit, Inside
<1>3. GateExact
  BY SMTT(30), <1>2, FS_EmptySet DEF GateInit, GateExact, GateDrained
<1>4. GateDurable
  BY DEF GateInit, GateDurable, UnmountDurable, Clean
<1> QED BY <1>1, <1>3, <1>4 DEF GateInv

\* fs_io_begin and fs_io_end move a call across the gate.
LEMMA CrossIInv ==
  ASSUME GateInv, NEW p \in Proc, fs_io_begin(p) \/ fs_io_end(p)
  PROVE  GateInv'
<1> USE GateAssumption DEF GateInv
<1>1. CASE fs_io_begin(p)
  <2> USE <1>1 DEF fs_io_begin
  <2>1. GateTypeOK' BY DEF GateTypeOK
  <2>2. Inside' = Inside \cup {p} /\ p \notin Inside
    BY DEF Inside, GateTypeOK
  <2>3. Cardinality(Inside') = Cardinality(Inside) + 1
    BY Zenon, <2>2, InsideFinite, FS_AddElement
  <2>4. GateExact' BY <2>3 DEF GateTypeOK, GateExact, GateDrained
  <2>5. GateDurable' BY DEF GateTypeOK, GateDurable, UnmountDurable
  <2> QED BY SMTT(30), <2>1, <2>4, <2>5
<1>2. CASE fs_io_end(p)
  <2> USE <1>2 DEF fs_io_end
  <2>1. GateTypeOK' BY DEF GateTypeOK
  <2>2. Inside' = Inside \ {p} /\ p \in Inside
    BY DEF Inside, GateTypeOK
  <2>3. Cardinality(Inside') = Cardinality(Inside) - 1 /\ Cardinality(Inside) > 0
    BY SMTT(30), <2>2, InsideFinite, FS_RemoveElement, FS_EmptySet
  <2>4. GateExact' BY <2>2, <2>3 DEF GateTypeOK, GateExact, GateDrained
  <2>5. GateDurable' BY DEF GateTypeOK, GateDurable, UnmountDurable
  <2> QED BY SMTT(30), <2>1, <2>4, <2>5
<1> QED BY <1>1, <1>2

\* A call changes the volume; SysSync and the NMI need no gate.
LEMMA ProcIInv ==
  ASSUME GateInv, NEW p \in Proc, Modify(p) \/ SysSync(p) \/ NMIHandler(p)
  PROVE  GateInv'
<1> USE GateAssumption DEF GateInv, CopyInternalToSbExt
<1>1. CASE Modify(p)
  <2> USE <1>1 DEF Modify
  <2>0. /\ vol.ver \in Nat /\ vol' = [state |-> vol.state, ver |-> vol.ver + 1]
        /\ cache' = [sblk |-> cache.sblk, data |-> [dirty |-> TRUE, ver |-> vol.ver + 1],
                     flusher |-> cache.flusher]
    BY Zenon DEF GateTypeOK
  <2>1. GateTypeOK'
    <3>1. vol' \in [state : VolState, ver : Nat]
      BY <2>0 DEF GateTypeOK
    <3>2. cache.sblk \in [dirty : BOOLEAN, state : VolState, ver : Nat] /\ cache.flusher \in Proc \cup {"um", "none"}
      BY DEF GateTypeOK
    <3>3. [dirty |-> TRUE, ver |-> vol.ver + 1] \in [dirty : BOOLEAN, ver : Nat]
      BY <2>0
    <3> QED BY ZenonT(30), <2>0, <3>1, <3>2, <3>3 DEF GateTypeOK
  <2>2. Inside' = Inside /\ p \in Inside BY DEF Inside, GateTypeOK
  <2>3. GateExact' BY <2>0, <2>2 DEF GateExact, GateDrained
  <2>4. GateDurable' BY <2>0, <2>2 DEF GateDurable, UnmountDurable, GateExact, GateDrained
  <2> QED BY <2>1, <2>3, <2>4
<1>2. CASE SysSync(p)
  <2> USE <1>2 DEF SysSync
  <2>1. GateTypeOK' BY Zenon DEF GateTypeOK, VolState
  <2>2. Inside' = Inside BY DEF Inside, GateTypeOK
  <2>3. GateExact' BY Zenon, <2>2 DEF GateTypeOK, GateExact, GateDrained, Inside
  <2>4. GateDurable' BY DEF GateTypeOK, GateExact, GateDrained, GateDurable, UnmountDurable
  <2> QED BY SMTT(30), <2>1, <2>3, <2>4
<1>3. CASE NMIHandler(p)
  <2> USE <1>3 DEF NMIHandler
  <2>1. GateTypeOK' BY DEF GateTypeOK, VolState
  <2>2. Inside' = Inside BY DEF Inside, GateTypeOK
  <2>3. GateExact' BY SMTT(30), <2>2 DEF GateTypeOK, GateExact, GateDrained, Inside
  <2>4. GateDurable' BY DEF GateTypeOK, GateExact, GateDrained, GateDurable, UnmountDurable
  <2> QED BY SMTT(30), <2>1, <2>3, <2>4
<1> QED BY <1>1, <1>2, <1>3

\* bflush_all, whoever calls it.
LEMMA FlushIInv ==
  ASSUME GateInv, FlushStep
  PROVE  GateInv'
<1> USE GateAssumption DEF GateInv, Flushing
<1>1. CASE EXT2WriteBlocks
  <2> USE <1>1 DEF EXT2WriteBlocks
  <2>0. /\ cache.sblk \in [dirty : BOOLEAN, state : VolState, ver : Nat]
        /\ cache.data \in [dirty : BOOLEAN, ver : Nat]
        /\ cache = [sblk |-> cache.sblk, data |-> cache.data, flusher |-> cache.flusher]
    BY DEF GateTypeOK
  <2>1. CASE /\ cache.sblk.dirty
             /\ media' = [media EXCEPT !.state = cache.sblk.state, !.sbVer = cache.sblk.ver]
             /\ cache' = [cache EXCEPT !.sblk.dirty = FALSE]
    <3>1. cache' = [sblk |-> [cache.sblk EXCEPT !.dirty = FALSE], data |-> cache.data,
                    flusher |-> cache.flusher]
      BY Zenon, <2>0, <2>1
    <3>2. [cache.sblk EXCEPT !.dirty = FALSE] \in [dirty : BOOLEAN, state : VolState, ver : Nat]
      BY Zenon, <2>0
    <3>3. media' \in [state : VolState, sbVer : Nat, dataVer : Nat]
      BY Zenon, <2>0, <2>1 DEF GateTypeOK
    <3>4. GateTypeOK' BY <3>1, <3>2, <3>3 DEF GateTypeOK
    <3>5. Inside' = Inside BY DEF Inside
    <3>6. GateExact' BY <3>1, <3>5 DEF GateExact, GateDrained
    <3>7. /\ media'.state = cache.sblk.state /\ media'.sbVer = cache.sblk.ver
          /\ media'.dataVer = media.dataVer /\ ~cache'.sblk.dirty /\ cache'.data = cache.data
      BY <2>0, <2>1, <3>1 DEF GateTypeOK
    <3>8. GateDurable' BY SMTT(30), <2>1, <3>7 DEF GateDurable, UnmountDurable
    <3> QED BY <3>4, <3>6, <3>8
  <2>2. CASE /\ cache.data.dirty
             /\ media' = [media EXCEPT !.dataVer = cache.data.ver]
             /\ cache' = [cache EXCEPT !.data.dirty = FALSE]
    <3>1. cache' = [sblk |-> cache.sblk, data |-> [cache.data EXCEPT !.dirty = FALSE],
                    flusher |-> cache.flusher]
      BY Zenon, <2>0, <2>2
    <3>2. [cache.data EXCEPT !.dirty = FALSE] \in [dirty : BOOLEAN, ver : Nat]
      BY Zenon, <2>0
    <3>3. media' \in [state : VolState, sbVer : Nat, dataVer : Nat]
      BY <2>0, <2>2 DEF GateTypeOK
    <3>4. GateTypeOK' BY <3>1, <3>2, <3>3 DEF GateTypeOK
    <3>5. Inside' = Inside BY DEF Inside
    <3>6. GateExact' BY <3>1, <3>5 DEF GateExact, GateDrained
    <3>7. /\ media'.state = media.state /\ media'.sbVer = media.sbVer
          /\ media'.dataVer = cache.data.ver /\ ~cache'.data.dirty /\ cache'.sblk = cache.sblk
      BY SMTT(30), <2>0, <2>2, <3>1 DEF GateTypeOK
    <3>8. GateDurable' BY <2>2, <3>7 DEF GateDurable, UnmountDurable
    <3> QED BY <3>4, <3>6, <3>8
  <2> QED BY <2>1, <2>2
<1>2. CASE bflush_end
  <2> USE <1>2 DEF bflush_end
  <2>1. GateTypeOK' BY DEF GateTypeOK, VolState
  <2>2. Inside' = Inside BY DEF Inside, GateTypeOK
  <2>3. GateExact' BY Zenon, <2>2 DEF GateTypeOK, GateExact, GateDrained, Inside
  <2>4. GateDurable' BY DEF GateTypeOK, GateExact, GateDrained, GateDurable, UnmountDurable
  <2> QED BY SMTT(30), <2>1, <2>3, <2>4
<1>3. ASSUME NEW f \in Proc \cup {"um"}, bflush_start(f) PROVE GateInv'
  <2> USE <1>3 DEF bflush_start, Flushers
  <2>1. GateTypeOK' BY DEF GateTypeOK, VolState
  <2>2. Inside' = Inside BY DEF Inside, GateTypeOK
  <2>3. GateExact' BY <2>2 DEF GateTypeOK, GateExact, GateDrained, Inside
  <2>4. GateDurable' BY DEF GateTypeOK, GateExact, GateDrained, GateDurable, UnmountDurable
  <2> QED BY <2>1, <2>3, <2>4
<1> QED BY <1>1, <1>2, <1>3 DEF FlushStep

\* vfs_mount_root and vfs_unmount_root.
LEMMA MountIInv ==
  ASSUME GateInv, EXT2Mount \/ UmountStep
  PROVE  GateInv'
<1> USE GateAssumption DEF GateInv, CopyInternalToSbExt
<1>1. CASE EXT2Mount
  <2> USE <1>1 DEF EXT2Mount
  <2>1. GateTypeOK' BY DEF GateTypeOK, VolState
  <2>2. Inside' = Inside BY DEF Inside, GateTypeOK
  <2>3. GateExact' BY Zenon, <2>2, FS_EmptySet DEF GateTypeOK, GateExact, GateDrained, Inside
  <2>4. GateDurable' BY DEF GateTypeOK, GateExact, GateDrained, GateDurable, UnmountDurable
  <2> QED BY SMTT(30), <2>1, <2>3, <2>4
<1>2. CASE vfs_unmount_root
  <2> USE <1>2 DEF vfs_unmount_root
  <2>1. GateTypeOK' BY Zenon DEF GateTypeOK, VolState
  <2>2. Inside' = Inside BY DEF Inside, GateTypeOK
  <2>3. GateExact' BY <2>2 DEF GateTypeOK, GateExact, GateDrained, Inside
  <2>4. GateDurable' BY DEF GateTypeOK, GateExact, GateDrained, GateDurable, UnmountDurable
  <2> QED BY SMTT(30), <2>1, <2>3, <2>4
<1>3. CASE EXT2Umount
  <2> USE <1>3 DEF EXT2Umount
  <2>1. GateTypeOK' BY ZenonT(30) DEF GateTypeOK, VolState
  <2>2. Inside' = Inside BY DEF Inside, GateTypeOK
  <2>3. GateExact' BY <2>2 DEF GateTypeOK, GateExact, GateDrained, Inside
  <2>4. GateDurable' BY DEF GateTypeOK, GateExact, GateDrained, GateDurable, UnmountDurable
  <2> QED BY <2>1, <2>3, <2>4
<1>4. CASE Drained
  <2> USE <1>4 DEF Drained
  <2>1. GateTypeOK' BY Zenon DEF GateTypeOK, VolState
  <2>2. Inside' = Inside BY DEF Inside, GateTypeOK
  <2>e. Inside = {}
    BY Zenon, InsideFinite, FS_EmptySet DEF GateExact
  <2>3. GateExact' BY <2>2, <2>e DEF GateTypeOK, GateExact, GateDrained, Inside
  <2>4. GateDurable' BY DEF GateTypeOK, GateExact, GateDrained, GateDurable, UnmountDurable
  <2> QED BY SMTT(30), <2>1, <2>3, <2>4
<1>5. CASE bclean_all
  <2> USE <1>5 DEF bclean_all
  <2>1. GateTypeOK' BY ZenonT(30) DEF GateTypeOK, VolState
  <2>2. Inside' = Inside BY DEF Inside, GateTypeOK
  <2>3. GateExact' BY <2>2 DEF GateTypeOK, GateExact, GateDrained, Inside
  <2>4. GateDurable' BY DEF GateTypeOK, GateExact, GateDrained, GateDurable, UnmountDurable
  <2> QED BY SMTT(30), <2>1, <2>3, <2>4
<1> QED BY SMTT(30), <1>1, <1>2, <1>3, <1>4, <1>5 DEF UmountStep

LEMMA NextGateInv == GateInv /\ [GateNext]_gateVars => GateInv'
<1> SUFFICES ASSUME GateInv, [GateNext]_gateVars PROVE GateInv'
  OBVIOUS
<1>1. CASE GateNext
  BY SMTT(30), <1>1, CrossIInv, ProcIInv, FlushIInv, MountIInv DEF GateNext
<1>2. CASE UNCHANGED gateVars
  BY <1>2 DEF GateInv, GateTypeOK, GateExact, GateDrained, Inside, GateDurable, UnmountDurable, gateVars
<1> QED BY <1>1, <1>2

\* EXT2Umount frees the volume under nobody's feet, and an unmounted volume has
\* on disk, marked valid, everything the calls did, for every number of tasks.
THEOREM UnmountIsClean == GateSpec => []UnmountClean
<1>1. GateInv => UnmountClean
  BY Zenon DEF GateInv, GateExact, GateDurable, UnmountClean
<1> QED BY InitGateInv, NextGateInv, <1>1, PTL DEF GateSpec

=============================================================================
