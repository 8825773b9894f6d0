----------------------------- MODULE MCDevices -----------------------------
(***************************************************************************)
(* What waits for an interrupt, for TLC: a TLB flush for the other CPUs and *)
(* a disk command for the device.  part says which one a behaviour is       *)
(* about; the other stays in its initial state.                             *)
(***************************************************************************)
EXTENDS TlbShootdown, Ahci

VARIABLE part

MCInit == part \in {"tlb", "ahci"} /\ TlbInit /\ Init

MCNext ==
  /\ UNCHANGED part
  /\ \/ part = "tlb" /\ TlbNext /\ UNCHANGED vars
     \/ part = "ahci" /\ Next /\ UNCHANGED tlbVars

\* The fairness of TlbFairSpec and of FairSpec, each asked of its own part.
MCFairness ==
  /\ \A c \in CPU :
       /\ WF_tlbVars(part = "tlb" /\ Flush(c))
       /\ SF_tlbVars(part = "tlb" /\ ShootdownEnter(c))
       /\ WF_tlbVars(part = "tlb" /\ ShootdownAck(c))
  /\ WF_vars(part = "ahci" /\ Handler)
  /\ \A t \in Tasks :
       /\ WF_vars(part = "ahci" /\ (Poll(t) \/ Block(t) \/ Leave(t)))
       /\ WF_vars(part = "ahci" /\ DeviceComplete(t))

MCSpec == MCInit /\ [][MCNext]_<<part, tlbVars, vars>> /\ MCFairness
=============================================================================
