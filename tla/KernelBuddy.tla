---------------------------- MODULE KernelBuddy ----------------------------
(***************************************************************************)
(* The kernel's buddy allocator: kernel_request_buddy, kernel_free_buddy,   *)
(* AddToBuddyAlloc and the shadow table of src/allocaters/buddy_alloc.c.    *)
(*                                                                         *)
(* Addresses and orders are in pages: page a stands for the address         *)
(* a * PAGE_SIZE and order k for the code's order PAGE_SIZE_LOG2 + k.       *)
(* kernel_buddy_lock is held from the first access of a call to the last,   *)
(* so a call is one step.  The free lists, threaded through the free pages  *)
(* themselves, are sequences.                                               *)
(***************************************************************************)
EXTENDS Integers, Sequences, SequencesExt, FiniteSets, FiniteSetsExt

CONSTANTS
  Base,      \* kshadow_base_pfn; the shadow table itself is the first pages
  Start,     \* first page of the pool, after the shadow table
  End,       \* first page after the pool and after the shadowed range
  MaxOrder   \* MAX_ORDER - PAGE_SIZE_LOG2

ASSUME PoolAssumption ==
  /\ Base \in Nat \ {0} /\ Start \in Nat /\ End \in Nat /\ MaxOrder \in Nat \ {0}
  /\ Base <= Start /\ Start < End

Orders == 0 .. MaxOrder - 1
Shadowed == Base .. End - 1          \* kshadow_in_range
Pool == Start .. End - 1

None    == [kind |-> "none", order |-> 0]   \* shadow byte 0
Free(k) == [kind |-> "free", order |-> k]
Used(k) == [kind |-> "used", order |-> k]

VARIABLES
  heads,    \* kernel_inline_heads: the free list of each order
  mask,     \* kernel_nonempty_mask, as the set of its bits
  shadow,   \* kshadow
  owned     \* what the callers hold: block address -> order

buddyVars == <<heads, mask, shadow, owned>>

\* The block of order k that holds page a, and its buddy (address ^ 2^k).
Align(a, k) == (a \div 2^k) * 2^k
Buddy(a, k) == IF (a \div 2^k) % 2 = 0 THEN a + 2^k ELSE a - 2^k

\* inline_push
Push(h, k, a) == [h EXCEPT ![k] = <<a>> \o @]

\* The mask that fits the lists.
MaskOf(h) == {k \in Orders : h[k] # <<>>}

\* What the pushes, pops and removes that turn the lists into h do to the mask:
\* a list that is touched sets or clears its own bit, the others keep theirs.
UpdateMask(h) ==
  mask' = {k \in Orders : IF h[k] = heads[k] THEN k \in mask ELSE h[k] # <<>>}

-----------------------------------------------------------------------------
(* AddToBuddyAlloc: cut [start, start + size) into aligned blocks, each the  *)
(* largest that its start is aligned to and that still fits.                *)

CutOrder(s) == Max({k \in 0 .. End : s % 2^k = 0 /\ 2^k <= End - s})

\* The blocks <<address, order>>, lowest address first.
CutFrom ==
  LET f[s \in Start .. End] ==
        IF s = End THEN <<>>
        ELSE <<<<s, CutOrder(s)>>>> \o f[s + 2^CutOrder(s)]
  IN f[Start]

BuddyInit ==
  LET blocks == Range(CutFrom)
      h == FoldLeft(LAMBDA acc, b : Push(acc, b[2], b[1]),
                    [k \in Orders |-> <<>>], CutFrom)
  IN /\ heads = h
     /\ mask = MaskOf(h)
     /\ shadow = [a \in Shadowed |->
          IF \E b \in blocks : b[1] = a
          THEN Free((CHOOSE b \in blocks : b[1] = a)[2]) ELSE None]
     /\ owned = [a \in {} |-> 0]

-----------------------------------------------------------------------------
(* kernel_request_buddy                                                    *)

\* BiggestBit, plus one unless the size is a power of two.
OrderFor(size) == CHOOSE k \in 0 .. size : 2^k >= size /\ \A j \in 0 .. k - 1 : 2^j < size

\* No list of a sufficient order: NULL, nothing changes.
RequestFails(size) ==
  /\ \/ OrderFor(size) >= MaxOrder
     \/ {k \in mask : k >= OrderFor(size)} = {}
  /\ UNCHANGED buddyVars

\* Pop the head of the smallest sufficient order and give back the upper
\* half at each order on the way down.
Request(size) ==
  LET order == OrderFor(size)
      curr  == Min({k \in mask : k >= order})
      block == Head(heads[curr])
      split == order .. curr - 1
      h == [k \in Orders |->
              IF k = curr THEN Tail(heads[k])
              ELSE IF k \in split THEN <<Buddy(block, k)>> \o heads[k]
              ELSE heads[k]]
  IN /\ order < MaxOrder /\ \E k \in mask : k >= order
     /\ heads' = h
     /\ UpdateMask(h)
     /\ shadow' = [a \in Shadowed |->
          IF a = block THEN Used(order)
          ELSE IF \E k \in split : a = Buddy(block, k)
               THEN Free(CHOOSE k \in split : a = Buddy(block, k))
               ELSE shadow[a]]
     /\ owned' = [a \in DOMAIN owned \cup {block} |->
                    IF a = block THEN order ELSE owned[a]]

-----------------------------------------------------------------------------
(* kernel_free_buddy                                                       *)

\* Variant: the buddy's order is not compared.
CanMergeAnyOrder(a, k) ==
  LET b == Buddy(Align(a, k), k) IN
  /\ k + 1 < MaxOrder
  /\ b \in Shadowed
  /\ shadow[b].kind = "free"

\* May the block of order k around a be merged with its buddy?  The buddy
\* lies outside every block merged so far, so the shadow is still the old one.
CanMerge(a, k) ==
  LET b == Buddy(Align(a, k), k) IN
  /\ k + 1 < MaxOrder
  /\ b \in Shadowed
  /\ shadow[b] = Free(k)
  /\ b \in Range(heads[k])

\* The order at which merging the block of the given order stops.
TopOrder(a, order) == Min({k \in order .. MaxOrder - 1 : ~CanMerge(a, k)})

\* Coalesce upward while the buddy is free and of the same order, clearing
\* the shadow of the upper half each time, and push the result.
FreeBlock(a) ==
  LET order  == shadow[a].order
      top    == TopOrder(a, order)
      merged == order .. top - 1
      h == [k \in Orders |->
              IF k \in merged THEN Remove(heads[k], Buddy(Align(a, k), k))
              ELSE IF k = top THEN <<Align(a, top)>> \o heads[k]
              ELSE heads[k]]
  IN /\ a \in Shadowed /\ shadow[a].kind = "used"
     /\ heads' = h
     /\ UpdateMask(h)
     /\ shadow' = [b \in Shadowed |->
          IF b = Align(a, top) THEN Free(top)
          ELSE IF \E k \in merged : b = Align(a, k + 1) + 2^k THEN None
          ELSE shadow[b]]
     /\ owned' = [b \in DOMAIN owned \ {a} |-> owned[b]]

\* Anything else (an address outside the range, inside a block, or already
\* free) is ignored.
FreeIgnored(a) ==
  /\ a \in Shadowed => shadow[a].kind # "used"
  /\ UNCHANGED buddyVars

-----------------------------------------------------------------------------

BuddyNext ==
  \/ \E size \in 1 .. End - Start : Request(size) \/ RequestFails(size)
  \/ \E a \in Base - 1 .. End : FreeBlock(a) \/ FreeIgnored(a)

BuddySpec == BuddyInit /\ [][BuddyNext]_buddyVars

-----------------------------------------------------------------------------
(* Properties                                                              *)

HeadsOf(kind) == {a \in Shadowed : shadow[a].kind = kind}
BlockHeads == HeadsOf("free") \cup HeadsOf("used")

\* The pages of the block that the shadow says starts at a.
PagesOf(a) == a .. a + 2^(shadow[a].order) - 1

\* The blocks the shadow describes tile the pool: every page of it is in
\* exactly one block, every block is aligned to its size, and none reaches
\* out of the pool, whatever was requested and freed (double frees and stray
\* addresses included).
Tiling ==
  /\ \A a \in BlockHeads : a % 2^(shadow[a].order) = 0 /\ PagesOf(a) \subseteq Pool
  /\ \A p \in Pool : Cardinality({a \in BlockHeads : p \in PagesOf(a)}) = 1

\* What VerifyKernelBuddyShadow tests, and the rule in the comment on
\* kernel_nonempty_mask: each free list holds exactly the heads the shadow
\* marks free at that order, once, and its mask bit is set iff it is not empty.
ListsMatchShadow ==
  /\ \A k \in Orders :
       /\ Range(heads[k]) = {a \in Shadowed : shadow[a] = Free(k)}
       /\ IsInjective(heads[k])
       /\ k \in mask <=> heads[k] # <<>>
  /\ \A a \in HeadsOf("free") : shadow[a].order \in Orders

\* A caller keeps the block it was given until it frees it: used blocks are
\* exactly the ones handed out, at the size handed out.
OwnersKeepBlocks ==
  /\ DOMAIN owned = HeadsOf("used")
  /\ \A a \in DOMAIN owned : shadow[a].order = owned[a]

\* Freeing coalesces completely: no two free buddies are left side by side,
\* so when everything has been freed the pool is back in its initial blocks.
FullyCoalesced ==
  /\ \A a \in HeadsOf("free") :
       LET k == shadow[a].order IN
       k + 1 < MaxOrder /\ Buddy(a, k) \in Shadowed => shadow[Buddy(a, k)] # Free(k)
  /\ DOMAIN owned = {} =>
       {<<a, shadow[a].order>> : a \in BlockHeads} = Range(CutFrom)

\* After any sequence of requests and frees (kernel_request_buddy, kernel_free_buddy) the
\* blocks tile the pool, shadow, lists and mask tell the same story, nobody's block was given
\* away, and what can be merged is merged.
PoolExact == Tiling /\ ListsMatchShadow /\ OwnersKeepBlocks /\ FullyCoalesced
=============================================================================
