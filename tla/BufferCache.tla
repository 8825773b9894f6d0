---------------------------- MODULE BufferCache ----------------------------
(***************************************************************************)
(* The disk block cache (src/file_system/blocks_buffer.c) and how the file   *)
(* system uses it: a task reads a block in, changes the buffer, marks it    *)
(* dirty and releases it, or (EXT2Write) keeps its reference until the file *)
(* is flushed.  Every operation holds buffer_cache.lock, except that bread  *)
(* reads the disk into a new buffer after it has unlocked.                  *)
(*                                                                         *)
(* The contents of a block are the updates applied to it, one per task.  A  *)
(* buffer is a page frame; one that is not in use has no contents.    *)
(* The hash chains are reduced to the search they implement.  No node stays *)
(* in a chain with is_valid clear, so bread never reuses one and bclean     *)
(* finds nothing.                                                           *)
(***************************************************************************)
EXTENDS Naturals, Sequences, Functions, FiniteSets

CONSTANTS
  Callers, Blocks, NoBlock,
  MaxCapacity  \* bound: BUFFER_CACHE_CAP is at most this

ASSUME CacheAssumption == MaxCapacity \in Nat \ {0} /\ NoBlock \notin Blocks /\ IsFiniteSet(Callers)

\* bread allocates the new buffer before it frees an old one.
Frames == 1 .. MaxCapacity + 1

VARIABLES
  capacity,    \* BUFFER_CACHE_CAP
  smp,         \* do system calls of different tasks overlap?
  lru,         \* the nodes, from lru_tail (oldest) to lru_head
  content,         \* contents of the page frames
  disk,        \* contents of the blocks on disk
  lock_lost,      \* buffer_cache.lock is never released again
  mounted,
  pc, blk, buf,   \* of a task: where it is, its block, the pointer it got
  written      \* updates whose bwrite has returned, per block

setup == <<capacity, smp>>     \* chosen at the start
cacheVars == <<setup, lru, content, disk, lock_lost, mounted, pc, blk, buf, written>>

Contents(b, us) == [block |-> b, updates |-> us]
Junk == Contents(NoBlock, {})     \* a frame nobody has filled

CacheInit ==
  /\ capacity \in 1 .. MaxCapacity
  /\ smp \in BOOLEAN
  /\ lru = <<>>
  /\ content = [f \in Frames |-> Junk]
  /\ disk = [b \in Blocks |-> Contents(b, {})]
  /\ lock_lost = FALSE /\ mounted = TRUE
  /\ pc = [t \in Callers |-> "out"]
  /\ blk = [t \in Callers |-> NoBlock]
  /\ buf = [t \in Callers |-> 0]
  /\ written = [b \in Blocks |-> {}]

-----------------------------------------------------------------------------
Cached(b) == \E i \in DOMAIN lru : lru[i].blk = b
At(b) == CHOOSE i \in DOMAIN lru : lru[i].blk = b

\* AddKernelPages, and what RemoveKernelPages leaves in the frames not in l.
NewFrame == CHOOSE f \in Frames : \A i \in DOMAIN lru : lru[i].buf # f
Scrub(l) == content' = [f \in Frames |-> IF \E i \in DOMAIN l : l[i].buf = f THEN content[f] ELSE Junk]

\* The list without the node at i.
Unlinked(l, i) == [k \in 1 .. Len(l) - 1 |-> l[IF k < i THEN k ELSE k + 1]]

\* SwitchNodeToLRUHead, after the node at i has become n.
ToHead(l, i, n) == Append(Unlinked(l, i), n)

\* EXT2WriteBlocks of the dirty ones of a set of nodes.
WriteBack(nodes) ==
  [b \in Blocks |->
     IF \E n \in nodes : n.blk = b /\ n.dirty
     THEN content[(CHOOSE n \in nodes : n.blk = b).buf] ELSE disk[b]]

InSyscall(t) == pc[t] \in {"reading", "have", "changed"}

\* With one CPU a system call that finds the lock free runs to its end: the
\* disk is polled with interrupts off.
MayRun(t) == mounted /\ (smp \/ \A u \in Callers \ {t} : ~InSyscall(u))

-----------------------------------------------------------------------------
(* bread *)

Hold(t, b, f) ==
  /\ blk' = [blk EXCEPT ![t] = b]
  /\ buf' = [buf EXCEPT ![t] = f]

BreadHit(t, b) ==
  /\ pc[t] = "out" /\ MayRun(t) /\ ~lock_lost /\ Cached(b)
  /\ LET n == lru[At(b)] IN
     /\ lru' = ToHead(lru, At(b), [n EXCEPT !.ref = @ + 1])
     /\ Hold(t, b, n.buf)
  /\ pc' = [pc EXCEPT ![t] = "have"]
  /\ UNCHANGED <<setup, content, disk, lock_lost, mounted, written>>

\* Variant: the least recently used node goes, referenced or not.
VictimAnyRef(i) == i = 1

\* The oldest node nobody holds.
Victim(i) == lru[i].ref = 0 /\ \A j \in 1 .. i - 1 : lru[j].ref > 0

\* Variant: a victim is dropped without being written back.
EvictNoWrite(i) == disk' = disk

Evict(i) == disk' = WriteBack({lru[i]})

\* A miss, up to the unlock.  is_dirty of a new node is whatever kmalloc's
\* memory holds.
BreadMiss(t, b) ==
  /\ pc[t] = "out" /\ MayRun(t) /\ ~lock_lost /\ ~Cached(b)
  /\ \E d \in BOOLEAN :
       LET node == [blk |-> b, dirty |-> d, ref |-> 1, buf |-> NewFrame] IN
       /\ IF Len(lru) < capacity
          THEN lru' = Append(lru, node) /\ disk' = disk
          ELSE \E i \in DOMAIN lru :
                 Victim(i) /\ Evict(i) /\ lru' = Append(Unlinked(lru, i), node)
       /\ Scrub(lru')
  /\ Hold(t, b, NewFrame)
  /\ pc' = [pc EXCEPT ![t] = "reading"]
  /\ UNCHANGED <<setup, lock_lost, mounted, written>>

\* Every node is referenced: bread returns NULL and keeps the lock.
BreadAllBusy(t, b) ==
  /\ pc[t] = "out" /\ MayRun(t) /\ ~lock_lost /\ ~Cached(b)
  /\ Len(lru) = capacity /\ \A i \in DOMAIN lru : lru[i].ref > 0
  /\ lock_lost' = TRUE
  /\ UNCHANGED <<setup, lru, content, disk, mounted, pc, blk, buf, written>>

\* EXT2ReadBlocks, without the lock.
BreadFill(t) ==
  /\ pc[t] = "reading"
  /\ content' = [content EXCEPT ![buf[t]] = disk[blk[t]]]
  /\ pc' = [pc EXCEPT ![t] = "have"]
  /\ UNCHANGED <<setup, lru, disk, lock_lost, mounted, blk, buf, written>>

-----------------------------------------------------------------------------
(* The caller between bread and brelse *)

\* It changes the buffer it was given ...
Change(t) ==
  /\ pc[t] = "have" /\ t \notin written[blk[t]]
  /\ content' = [content EXCEPT ![buf[t]].updates = @ \cup {t}]
  /\ pc' = [pc EXCEPT ![t] = "changed"]
  /\ UNCHANGED <<setup, lru, disk, lock_lost, mounted, blk, buf, written>>

\* ... or only reads it.
Look(t) ==
  /\ pc[t] = "have"
  /\ pc' = [pc EXCEPT ![t] = "holding"]
  /\ UNCHANGED <<setup, lru, content, disk, lock_lost, mounted, blk, buf, written>>

\* bwrite, which finds the node by number.
Bwrite(t) ==
  /\ pc[t] = "changed" /\ ~lock_lost
  /\ lru' = IF Cached(blk[t])
             THEN LET i == At(blk[t]) IN ToHead(lru, i, [lru[i] EXCEPT !.dirty = TRUE])
             ELSE lru
  /\ written' = [written EXCEPT ![blk[t]] = @ \cup {t}]
  /\ pc' = [pc EXCEPT ![t] = "holding"]
  /\ UNCHANGED <<setup, content, disk, lock_lost, mounted, blk, buf>>

\* What brelse does to the node.
Unpin(n) == [n EXCEPT !.ref = IF @ > 0 THEN @ - 1 ELSE @]

Brelse(t) ==
  /\ pc[t] = "holding" /\ MayRun(t) /\ ~lock_lost
  /\ lru' = IF Cached(blk[t]) THEN [lru EXCEPT ![At(blk[t])] = Unpin(@)] ELSE lru
  /\ Hold(t, NoBlock, 0)
  /\ pc' = [pc EXCEPT ![t] = "out"]
  /\ UNCHANGED <<setup, content, disk, lock_lost, mounted, written>>

-----------------------------------------------------------------------------
(* Flushing and dropping blocks *)

Cleaned(n) == [n EXCEPT !.dirty = FALSE]

\* bflush of the block a task still holds (EXT2Flush), which moves the node.
Bflush(t) ==
  /\ pc[t] = "holding" /\ MayRun(t) /\ ~lock_lost /\ Cached(blk[t])
  /\ LET i == At(blk[t]) IN
     /\ disk' = WriteBack({lru[i]})
     /\ lru' = ToHead(lru, i, Cleaned(lru[i]))
  /\ UNCHANGED <<setup, content, lock_lost, mounted, pc, blk, buf, written>>

\* bflush_all
BflushAll(t) ==
  /\ pc[t] = "out" /\ MayRun(t) /\ ~lock_lost
  /\ disk' = WriteBack(Range(lru))
  /\ lru' = [i \in DOMAIN lru |-> Cleaned(lru[i])]
  /\ UNCHANGED <<setup, content, lock_lost, mounted, pc, blk, buf, written>>

\* binvalidate of a block that is being freed: node and buffer go, held or
\* not, and what was written to the block does not matter any more.  Left out
\* with several CPUs, where it takes the buffer from whoever is using it.
Binvalidate(t, b) ==
  /\ ~smp /\ pc[t] = "out" /\ MayRun(t) /\ ~lock_lost /\ Cached(b)
  /\ lru' = Unlinked(lru, At(b))
  /\ Scrub(lru')
  /\ written' = [written EXCEPT ![b] = {}]
  /\ UNCHANGED <<setup, disk, lock_lost, mounted, pc, blk, buf>>

\* bclean_all on the way out of EXT2Umount, once no call is in flight.
BcleanAll ==
  /\ mounted /\ ~lock_lost /\ lru # <<>> /\ \A t \in Callers : ~InSyscall(t)
  /\ disk' = WriteBack(Range(lru))
  /\ lru' = <<>>
  /\ Scrub(lru')
  /\ mounted' = FALSE
  /\ UNCHANGED <<setup, lock_lost, pc, blk, buf, written>>

-----------------------------------------------------------------------------
TaskStep(t) ==
  \/ \E b \in Blocks : BreadHit(t, b) \/ BreadMiss(t, b) \/ BreadAllBusy(t, b) \/ Binvalidate(t, b)
  \/ BreadFill(t) \/ Change(t) \/ Look(t) \/ Bwrite(t) \/ Brelse(t) \/ Bflush(t) \/ BflushAll(t)

CacheNext == BcleanAll \/ \E t \in Callers : TaskStep(t)
CacheSpec == CacheInit /\ [][CacheNext]_cacheVars

-----------------------------------------------------------------------------
\* An update whose bwrite has returned is never lost: it is in the cached
\* buffer of its block while there is one and on disk otherwise, through
\* evictions, flushes, truncations of other blocks and unmounting.  This is
\* so with one system call at a time; on several CPUs a hit may be given a
\* buffer that bread is still reading from the disk.
NoUpdateLost ==
  ~smp => \A b \in Blocks :
    LET now == IF Cached(b) /\ \A t \in Callers : pc[t] = "reading" => blk[t] # b
               THEN content[lru[At(b)].buf] ELSE disk[b]
    IN  now.block = b /\ written[b] \subseteq now.updates

\* Between bread and brelse a task's pointer is the buffer of its block, on
\* every CPU: no eviction frees or reuses a buffer somebody holds.
HoldersKeepBuffer ==
  smp /\ mounted => \A t \in Callers : pc[t] # "out" => Cached(blk[t]) /\ lru[At(blk[t])].buf = buf[t]

\* On several CPUs the cache holds one node per block and one buffer per node,
\* never more than its capacity, and a node's ref_count is the number of its
\* holders: a reference that is not given back would pin the node for good.
CacheExact ==
  smp =>
    /\ Len(lru) <= capacity
    /\ \A i, j \in DOMAIN lru : i # j => lru[i].blk # lru[j].blk /\ lru[i].buf # lru[j].buf
    /\ \A i \in DOMAIN lru :
         lru[i].ref = Cardinality({t \in Callers : pc[t] # "out" /\ blk[t] = lru[i].blk})

\* Overlapping bread and brelse on several CPUs: nobody's buffer is evicted under it, no
\* block is cached twice, and the reference counts are the holders'.
CacheShared == HoldersKeepBuffer /\ CacheExact
=============================================================================
