--------------------------------- MODULE Slab ---------------------------------
(* The slab allocator (slab_alloc.c), one cache used by several CPUs.  The cache's
   lock covers the search for a slot and the bookkeeping of a free, and nothing else:
   kfree looks for the slab of a pointer without it, walking the full and the partial
   list side by side while they change, and AddSlabW advances curr_addr and pushes
   the new slab without it.  The lists are linked through the slabs, so a walk may
   step from one list into another.                                               *)
EXTENDS Integers, FiniteSets, Sequences, FiniteSetsExt

CONSTANTS SlabCpu,
          NSlabs,     \* bound on slabs (headers are numbered from curr_addr)
          NSlots      \* slots of a slab

Null == 0
Header == 1 .. NSlabs
Lists == {"empty", "partial", "full"}

VARIABLES head,      \* heads of the three lists
          nxt,       \* next of each header
          bits,      \* bitmap of each header: the slots in use
          curr_addr, \* the next header
          pages,     \* which run of pages each header's slots are (a number per AddKernelPages)
          given,     \* history: the slots handed out and not given to kfree, as <<pages, slot>>
          sc,        \* per CPU: what it is doing
          smark      \* what has happened (not in the code)

slabVars == <<head, nxt, bits, curr_addr, pages, given, sc, smark>>

Idle == [pc |-> "idle", ptr |-> <<0, 0>>, p1 |-> Null, p2 |-> Null, new |-> Null, seen |-> 0]

FreeCount(h) == NSlots - Cardinality(bits[h])
NewRun == Max({pages[h] : h \in Header}) + 1

\* InitSlabAlloc: one empty slab
SlabInit ==
  /\ head = [l \in Lists |-> IF l = "empty" THEN 1 ELSE Null]
  /\ nxt = [h \in Header |-> Null]
  /\ bits = [h \in Header |-> {}]
  /\ curr_addr = 2
  /\ pages = [h \in Header |-> IF h = 1 THEN 1 ELSE 0]
  /\ given = {}
  /\ sc = [c \in SlabCpu |-> Idle]
  /\ smark = {}

\* the slabs that can be reached from p
RECURSIVE ReachFrom(_, _)
ReachFrom(p, seen) == IF p = Null \/ p \in seen THEN seen ELSE ReachFrom(nxt[p], seen \cup {p})
OnList(l) == ReachFrom(head[l], {})

\* DeleteSlab, as the new head and the new links
Pred(h, p) == {q \in ReachFrom(h, {}) : nxt[q] = p}
DeleteSlab(h, p) == [head |-> IF h = p THEN nxt[p] ELSE h,
                     nxt  |-> IF h = p \/ Pred(h, p) = {} THEN nxt
                              ELSE [nxt EXCEPT ![CHOOSE q \in Pred(h, p) : TRUE] = nxt[p]]]

\* p leaves one list for the front of another
Move(p, from, to) ==
  LET d == DeleteSlab(head[from], p)
  IN /\ head' = [head EXCEPT ![from] = d.head, ![to] = p]
     /\ nxt' = [d.nxt EXCEPT ![p] = head[to]]

-----------------------------------------------------------------------------
(* kmalloc *)

\* mutant: the bit is flipped only in a slab that keeps a free slot
TakePartial_last(p, s) ==
  IF FreeCount(p) = 1 THEN Move(p, "partial", "full") /\ UNCHANGED bits
  ELSE bits' = [bits EXCEPT ![p] = @ \cup {s}] /\ UNCHANGED <<head, nxt>>

TakePartial(p, s) ==
  /\ bits' = [bits EXCEPT ![p] = @ \cup {s}]
  /\ IF FreeCount(p) = 1 THEN Move(p, "partial", "full") ELSE UNCHANGED <<head, nxt>>

NoRoom(p) == IF p = Null THEN TRUE ELSE FreeCount(p) = 0

\* SearchCache under the lock: the first partial slab, else the first empty one; the slot, or none
SearchCache(c, found, notFound) ==
  LET p == head["partial"]
      e == head["empty"]
  IN \/ /\ ~NoRoom(p)
        /\ LET s == Min((0 .. NSlots - 1) \ bits[p])
           IN TakePartial(p, s) /\ given' = given \cup {<<pages[p], s>>}
        /\ sc' = [sc EXCEPT ![c] = found]
     \/ /\ NoRoom(p) /\ e # Null
        /\ bits' = [bits EXCEPT ![e] = {0}]
        /\ Move(e, "empty", "partial")
        /\ given' = given \cup {<<pages[e], 0>>}
        /\ sc' = [sc EXCEPT ![c] = found]
     \/ /\ NoRoom(p) /\ e = Null
        /\ sc' = [sc EXCEPT ![c] = notFound]
        /\ UNCHANGED <<head, nxt, bits, given>>

\* once two CPUs have used one header nothing can be said: no call starts after that
kmalloc(c) ==
  /\ sc[c].pc = "idle" /\ "collided" \notin smark
  /\ \/ head["partial"] # Null \/ head["empty"] # Null
     \/ curr_addr + Cardinality({d \in SlabCpu : sc[d].pc \notin {"idle", "walk", "free", "again"}}) <= NSlabs
  /\ SearchCache(c, Idle, [Idle EXCEPT !.pc = "pages"])
  /\ UNCHANGED <<curr_addr, pages, smark>>

kmallocAgain(c) ==
  /\ sc[c].pc = "again"
  /\ SearchCache(c, Idle, Idle)
  /\ UNCHANGED <<curr_addr, pages, smark>>

\* AddSlabW, without the lock: the pages, the header, and the list each read, then written
AddKernelPages(c) ==
  /\ sc[c].pc = "pages"
  /\ sc' = [sc EXCEPT ![c] = [@ EXCEPT !.pc = "header", !.seen = curr_addr]]
  /\ UNCHANGED <<head, nxt, bits, curr_addr, pages, given, smark>>

AddSlab(c) ==
  /\ sc[c].pc = "header" /\ sc[c].seen \in Header
  /\ curr_addr' = sc[c].seen + 1
  /\ pages' = [pages EXCEPT ![sc[c].seen] = NewRun]
  /\ bits' = [bits EXCEPT ![sc[c].seen] = {}]
  /\ sc' = [sc EXCEPT ![c] = [@ EXCEPT !.pc = "push", !.new = sc[c].seen, !.seen = head["empty"]]]
  /\ smark' = smark \cup (IF \E d \in SlabCpu \ {c} : sc[d].pc \in {"header", "push"} THEN {"collided"} ELSE {})
  /\ UNCHANGED <<head, nxt, given>>

PushEmpty(c) ==
  /\ sc[c].pc = "push"
  /\ nxt' = [nxt EXCEPT ![sc[c].new] = sc[c].seen]
  /\ head' = [head EXCEPT !["empty"] = sc[c].new]
  /\ smark' = smark \cup (IF head["empty"] # sc[c].seen THEN {"collided"} ELSE {})
  /\ sc' = [sc EXCEPT ![c] = [Idle EXCEPT !.pc = "again"]]
  /\ UNCHANGED <<bits, curr_addr, pages, given>>

-----------------------------------------------------------------------------
(* kfree *)

kfree(c, ptr) ==
  /\ sc[c].pc = "idle" /\ "collided" \notin smark /\ ptr \in given
  /\ given' = given \ {ptr}
  /\ sc' = [sc EXCEPT ![c] = [Idle EXCEPT !.pc = "walk", !.ptr = ptr, !.p1 = head["full"], !.p2 = head["partial"]]]
  /\ UNCHANGED <<head, nxt, bits, curr_addr, pages, smark>>

Holds(h, ptr) == h # Null /\ pages[h] = ptr[1]

\* one pair of steps of SearchSlab; at the end of both lists the call returns without freeing
SearchSlab(c) ==
  LET k == sc[c]
      step(p) == IF p = Null THEN Null ELSE nxt[p]
  IN /\ k.pc = "walk"
     /\ IF Holds(k.p1, k.ptr) THEN sc' = [sc EXCEPT ![c].pc = "free"] /\ UNCHANGED smark
        ELSE IF Holds(k.p2, k.ptr) THEN sc' = [sc EXCEPT ![c].pc = "free", ![c].p1 = k.p2] /\ UNCHANGED smark
        ELSE IF k.p1 = Null /\ k.p2 = Null
        THEN sc' = [sc EXCEPT ![c] = Idle] /\ smark' = smark \cup {"missed"}
        ELSE sc' = [sc EXCEPT ![c].p1 = step(k.p1), ![c].p2 = step(k.p2)] /\ UNCHANGED smark
     /\ UNCHANGED <<head, nxt, bits, curr_addr, pages, given>>

\* under the lock, on the slab the search found
GiveBack(p, s) ==
  /\ bits' = [bits EXCEPT ![p] = IF s \in @ THEN @ \ {s} ELSE @ \cup {s}]
  /\ IF FreeCount(p) = 0 THEN Move(p, "full", "partial")
     ELSE IF FreeCount(p) + 1 = NSlots THEN Move(p, "partial", "empty")
     ELSE UNCHANGED <<head, nxt>>

kfreeLocked(c) ==
  /\ sc[c].pc = "free"
  /\ GiveBack(sc[c].p1, sc[c].ptr[2])
  /\ sc' = [sc EXCEPT ![c] = Idle]
  /\ UNCHANGED <<curr_addr, pages, given, smark>>

SlabNext ==
  \E c \in SlabCpu :
    \/ kmalloc(c) \/ kmallocAgain(c) \/ AddKernelPages(c) \/ AddSlab(c) \/ PushEmpty(c)
    \/ (\E ptr \in given : kfree(c, ptr)) \/ SearchSlab(c) \/ kfreeLocked(c)

SlabSpec == SlabInit /\ [][SlabNext]_slabVars

-----------------------------------------------------------------------------
(* Properties. *)

Made == {h \in Header : h < curr_addr}
Freeing == {sc[c].ptr : c \in {d \in SlabCpu : sc[d].pc \in {"walk", "free"}}}

\* A slot is marked in its slab's bitmap while somebody has it, and from the kfree of it until the
\* lock is taken; the only slots marked for nobody are those whose slab kfree walked past while
\* the lists changed.  So no slot is handed out twice, and none is lost otherwise.
BitsMatchOwners ==
  "collided" \notin smark =>
  LET used == UNION {{<<pages[h], s>> : s \in bits[h]} : h \in Made}
  IN given \cup Freeing \subseteq used /\ ("missed" \notin smark => used = given \cup Freeing)

\* Every slab is on the list its bitmap says: on the partial list between the first slot taken and
\* the last, so that SearchCache, which looks only at the first partial slab, finds a slot there.
ListsMatchBits ==
  "collided" \notin smark =>
  /\ \A h \in OnList("partial") : FreeCount(h) \in 1 .. NSlots - 1
  /\ \A h \in OnList("empty") : FreeCount(h) = NSlots
  /\ \A h \in OnList("full") : FreeCount(h) = 0
  /\ \A h \in Made : h \in UNION {OnList(l) : l \in Lists} \/ \E c \in SlabCpu : sc[c].new = h

\* Two CPUs in kmalloc and kfree at once lose no slot and give none out twice, and every slab
\* is on the list where SearchCache expects it.
SlabExact == BitsMatchOwners /\ ListsMatchBits
=============================================================================
