------------------------------ MODULE MCMemory ------------------------------
(***************************************************************************)
(* Locks, queues, the allocators and the block cache for TLC, one at a      *)
(* time: part says which one a behaviour is about, and the others stay in   *)
(* an initial state.                                                        *)
(***************************************************************************)
EXTENDS Mutex, IntrusiveQueue, KernelBuddy, Slab, AddrSpace, BufferCache, TLC

VARIABLE part

Parts == {"mutex", "queue", "buddy", "slab", "space", "cache"}

allVars == <<part, vars, queueVars, buddyVars, slabVars, asVars, cacheVars>>

\* A part that does not move starts in one of its initial states.
MCInit ==
  /\ part \in Parts
  /\ Init /\ QueueInit /\ BuddyInit /\ SlabInit
  /\ AsInit /\ (part # "space" => hog = {})
  /\ CacheInit /\ (part # "cache" => capacity = 1 /\ smp = FALSE)

MCNext ==
  /\ UNCHANGED part
  /\ \/ part = "mutex" /\ Next /\ UNCHANGED <<queueVars, buddyVars, slabVars, asVars, cacheVars>>
     \/ part = "queue" /\ QueueNext /\ UNCHANGED <<vars, buddyVars, slabVars, asVars, cacheVars>>
     \/ part = "buddy" /\ BuddyNext /\ UNCHANGED <<vars, queueVars, slabVars, asVars, cacheVars>>
     \/ part = "slab" /\ SlabNext /\ UNCHANGED <<vars, queueVars, buddyVars, asVars, cacheVars>>
     \/ part = "space" /\ AsNext /\ UNCHANGED <<vars, queueVars, buddyVars, slabVars, cacheVars>>
     \/ part = "cache" /\ CacheNext /\ UNCHANGED <<vars, queueVars, buddyVars, slabVars, asVars>>

\* Where a part may stop: after an error of the code, at the bound on the calls, and with
\* the volume unmounted or the cache lock lost.
MCStop ==
  /\ \/ part = "slab" /\ "collided" \in smark
     \/ part = "space" /\ acalls = MaxCalls
     \/ part = "cache" /\ (~mounted \/ lock_lost)
  /\ UNCHANGED allVars

MCSpec == MCInit /\ [][MCNext \/ MCStop]_allVars

-----------------------------------------------------------------------------
\* Callers and blocks of the cache are interchangeable.
Symmetry == Permutations(Callers) \cup Permutations(Blocks)

\* With overlapping calls only the list, the references and the lock are
\* looked at, and they evolve independently of what is in the buffers and on
\* disk.  With one call at a time it does not matter in which frame a buffer
\* is: the call under way, if any, uses the frame of its cached block.
CacheView ==
  IF smp
  THEN <<setup, lru, lock_lost, mounted, pc, blk, buf, written>>
  ELSE <<setup, [i \in DOMAIN lru |-> <<[lru[i] EXCEPT !.buf = 0], content[lru[i].buf]>>],
         disk, lock_lost, mounted, pc, blk, written>>

\* What stays in its initial state need not be told apart.
View ==
  <<part, CASE part = "mutex" -> vars
            [] part = "queue" -> queueVars
            [] part = "buddy" -> buddyVars
            [] part = "slab"  -> slabVars
            [] part = "space" -> asVars
            [] part = "cache" -> CacheView>>
=============================================================================
