---------------------------- MODULE TlbShootdown ----------------------------
(***************************************************************************)
(* Unmapping a page and the cross-CPU TLB invalidation that follows it      *)
(* (src/paging/paging.c: unmap_page_in, RemovePage, tlb_flush_remote,       *)
(* TlbShootdownHandler), on a machine whose CPUs are all online.            *)
(*                                                                         *)
(* A CPU that unmaps runs with interrupts off from the page-table update    *)
(* until the unmap returns, and so does the handler: a latched IPI is taken *)
(* only by a CPU that is running ordinary code.  The page tables are        *)
(* reduced to the set of pages that are present; paging_lock covers exactly *)
(* the update of that set, which is one step.                               *)
(***************************************************************************)
EXTENDS Naturals

CONSTANTS
  NumCpus,     \* cpus_active
  Page, None

CPU == 0 .. NumCpus - 1

ASSUME CpuAssumption ==
  /\ NumCpus \in Nat \ {0}
  /\ None \notin Page \cup CPU

VARIABLES
  present,      \* pages whose page-table entry is present
  tlb,          \* pages each CPU has cached
  lock,         \* shootdown.lock: the CPU that holds it, or None
  addr,         \* shootdown.addr
  pending,      \* shootdown.pending, as a set of cpu_index
  ipi,          \* CPUs whose LAPIC has latched the shootdown vector
  at_cpu, arg,      \* where a CPU is inside an unmap, and the page it unmaps
  handling      \* the address TlbShootdownHandler has read, or None

shootdown == <<lock, addr, pending>>
cpuVars == <<at_cpu, arg, handling>>
tlbVars == <<present, tlb, shootdown, ipi, cpuVars>>

TlbInit ==
  /\ present = Page
  /\ tlb = [c \in CPU |-> {}]
  /\ lock = None /\ addr = None /\ pending = {} /\ ipi = {}
  /\ at_cpu = [c \in CPU |-> "run"]
  /\ arg = [c \in CPU |-> None]
  /\ handling = [c \in CPU |-> None]

\* The CPU runs ordinary code with interrupts enabled.
Ordinary(c) == at_cpu[c] = "run" /\ handling[c] = None

-----------------------------------------------------------------------------
\* The hardware page walk: an access caches the entry of a present page.
Access(c, a) ==
  /\ Ordinary(c) /\ a \in present
  /\ tlb' = [tlb EXCEPT ![c] = @ \cup {a}]
  /\ UNCHANGED <<present, shootdown, ipi, cpuVars>>

\* map_page_to_virt_in, where it finds the entry empty.
Map(c, a) ==
  /\ Ordinary(c) /\ a \notin present
  /\ present' = present \cup {a}
  /\ UNCHANGED <<tlb, shootdown, ipi, cpuVars>>

\* unmap_page_in and RemovePage up to the release of paging_lock.
Unmap(c, a) ==
  /\ Ordinary(c) /\ a \in present
  /\ present' = present \ {a}
  /\ at_cpu' = [at_cpu EXCEPT ![c] = "local"]
  /\ arg' = [arg EXCEPT ![c] = a]
  /\ UNCHANGED <<tlb, shootdown, ipi, handling>>

-----------------------------------------------------------------------------
(* tlb_flush_remote *)

GotoCpu(c, l) == at_cpu' = [at_cpu EXCEPT ![c] = l]

\* Variant: the mask keeps the CPU's own bit.
OnlineMaskWithSelf(c) == 0 .. NumCpus - 1

\* online_cpu_mask_excluding_self
OnlineMask(c) == (0 .. NumCpus - 1) \ {c}

\* The unmap returns.
Return(c) == GotoCpu(c, "run") /\ arg' = [arg EXCEPT ![c] = None]

\* Invalidate locally; the flush is over at once when nobody else is online.
FlushLocal(c) ==
  /\ at_cpu[c] = "local"
  /\ tlb' = [tlb EXCEPT ![c] = @ \ {arg[c]}]
  /\ IF OnlineMask(c) = {} THEN Return(c) ELSE GotoCpu(c, "lock") /\ UNCHANGED arg
  /\ UNCHANGED <<present, shootdown, ipi, handling>>

\* spin_lock, then the address.
FlushLock(c) ==
  /\ at_cpu[c] = "lock" /\ lock = None
  /\ lock' = c
  /\ addr' = arg[c]
  /\ GotoCpu(c, "publish")
  /\ UNCHANGED <<present, tlb, pending, ipi, arg, handling>>

FlushPublish(c) ==
  /\ at_cpu[c] = "publish"
  /\ pending' = OnlineMask(c)
  /\ GotoCpu(c, "send")
  /\ UNCHANGED <<present, tlb, lock, addr, ipi, arg, handling>>

\* SendIpiAllExcludingSelf: a LAPIC that has the vector latched already keeps
\* a single request.
FlushSend(c) ==
  /\ at_cpu[c] = "send"
  /\ ipi' = ipi \cup (CPU \ {c})
  /\ GotoCpu(c, "wait")
  /\ UNCHANGED <<present, tlb, shootdown, arg, handling>>

\* Variant: the initiator does not wait for the acknowledgements.
FlushDoneEarly(c) ==
  /\ at_cpu[c] = "wait"
  /\ lock' = None
  /\ Return(c)
  /\ UNCHANGED <<present, tlb, addr, pending, ipi, handling>>

\* Every awaited CPU has answered: unlock and return from the unmap.
FlushDone(c) ==
  /\ at_cpu[c] = "wait" /\ pending = {}
  /\ lock' = None
  /\ Return(c)
  /\ UNCHANGED <<present, tlb, addr, pending, ipi, handling>>

-----------------------------------------------------------------------------
(* TlbShootdownHandler *)

ShootdownEnter(c) ==
  /\ c \in ipi /\ Ordinary(c)
  /\ ipi' = ipi \ {c}
  /\ handling' = [handling EXCEPT ![c] = addr]
  /\ UNCHANGED <<present, tlb, shootdown, at_cpu, arg>>

ShootdownAck(c) ==
  /\ handling[c] # None
  /\ tlb' = [tlb EXCEPT ![c] = @ \ {handling[c]}]
  /\ pending' = pending \ {c}
  /\ handling' = [handling EXCEPT ![c] = None]
  /\ UNCHANGED <<present, lock, addr, ipi, at_cpu, arg>>

-----------------------------------------------------------------------------
Shootdown(c) == ShootdownEnter(c) \/ ShootdownAck(c)

Flush(c) ==
  \/ FlushLocal(c) \/ FlushLock(c)
  \/ FlushPublish(c) \/ FlushSend(c) \/ FlushDone(c)

PagingStep(c) == \E a \in Page : Access(c, a) \/ Map(c, a) \/ Unmap(c, a)

TlbNext == \E c \in CPU : PagingStep(c) \/ Flush(c) \/ Shootdown(c)
TlbSpec == TlbInit /\ [][TlbNext]_tlbVars

\* Every CPU keeps executing and takes the interrupts it has latched: the
\* handler is enabled whenever the CPU is not itself inside an unmap.
TlbFairSpec ==
  TlbSpec /\ \A c \in CPU : WF_tlbVars(Flush(c)) /\ SF_tlbVars(ShootdownEnter(c)) /\ WF_tlbVars(ShootdownAck(c))

-----------------------------------------------------------------------------
\* c has unmapped a and its flush has yet to reach CPU d.
StillToFlush(c, a, d) ==
  /\ arg[c] = a
  /\ IF c = d THEN at_cpu[c] = "local"
     ELSE \/ at_cpu[c] \in {"local", "lock", "publish", "send"}
          \/ at_cpu[c] = "wait" /\ d \in pending

\* A CPU has a page cached that is no longer mapped only while the unmap of
\* that page has still to reach it: when unmap_page_in or RemovePage returns,
\* and as soon as a CPU's bit is cleared in shootdown.pending, the stale
\* entry is gone, however several flushes, late interrupts and remappings of
\* the same page interleave.
NoStaleEntry ==
  \A d \in CPU : \A a \in tlb[d] \ present : \E c \in CPU : StillToFlush(c, a, d)

\* Every unmap returns, each awaited CPU taking the IPI and clearing its bit,
\* unless another CPU is unmapping too: then each may wait, interrupts off,
\* for the other.
FlushReturns ==
  \A c \in CPU :
    at_cpu[c] = "local" ~> (at_cpu[c] = "run" \/ \E d \in CPU \ {c} : at_cpu[d] # "run")
=============================================================================
