-------------------------------- MODULE Ahci --------------------------------
(***************************************************************************)
(* Command slots of one AHCI port (src/drivers/ahci_driver.c): reserving    *)
(* and issuing a slot, waiting for it, and the interrupt handler.           *)
(*                                                                         *)
(* During boot the one submitter is the bootstrap task, which runs with     *)
(* interrupts on and so takes the blocking path of ahci_wait_completion.    *)
(* Its processor is also the one the disk interrupt is routed to.  Once     *)
(* user tasks exist, disk I/O happens inside system calls, which run with   *)
(* interrupts off and take the polling path, on the other processors, at    *)
(* the same time as the handler.                                            *)
(*                                                                         *)
(* The device is modelled from the registers the driver uses: it completes  *)
(* an issued command by clearing its bit in CI; after a task file error it  *)
(* processes nothing further and CI keeps its bits.                         *)
(***************************************************************************)
EXTENDS Naturals, FiniteSets

CONSTANTS
  Pollers,     \* the tasks that do disk I/O in system calls
  NumSlots,    \* cmd_list_size
  MaxCmds,     \* bound: commands a task submits
  BootTask, NULL

ASSUME AhciAssumption ==
  NumSlots \in Nat /\ MaxCmds \in Nat /\ BootTask \notin Pollers /\ NULL \notin Pollers \cup {BootTask}

Tasks == Pollers \cup {BootTask}
Slots == 0 .. NumSlots - 1

VARIABLES
  ci,          \* port->ci: the slots the device has yet to complete
  port_is,     \* port->is, reduced to {"done", "tfe"}
  hba_is,      \* this port's bit of hba->is: the interrupt line
  halted,      \* the device has stopped after an error
  issued,      \* st->issued_mask
  done, error, waiter,   \* st->completions[slot]
  pc, slot,    \* where a task is in AhciCommand / AhciFlush, and its slot
  cmds,        \* commands a task has submitted
  fate,        \* of a task's last command: "none", "flying", "completed", "failed"
  hpc, hbits, completed  \* AhciHandler: its position, port_is and completed

device == <<ci, port_is, hba_is, halted>>
completions == <<done, error, waiter>>
task == <<pc, slot, cmds>>
handler == <<hpc, hbits, completed>>
vars == <<device, issued, completions, task, fate, handler>>

Init ==
  /\ ci = {} /\ port_is = {} /\ hba_is = 0 /\ halted = 0
  /\ issued = {}
  /\ done = [s \in Slots |-> 0]
  /\ error = [s \in Slots |-> 0]
  /\ waiter = [s \in Slots |-> NULL]
  /\ pc = [t \in Tasks |-> "idle"]
  /\ slot = [t \in Tasks |-> 0]
  /\ cmds = [t \in Tasks |-> 0]
  /\ fate = [t \in Tasks |-> "none"]
  /\ hpc = "idle" /\ hbits = {} /\ completed = {}

Goto(t, l) == pc' = [pc EXCEPT ![t] = l]

-----------------------------------------------------------------------------
(* Submission: AhciCommand and AhciFlush up to the release of st->lock.     *)

\* The boot task is done with the disk before the first user task starts,
\* and does not run while the handler occupies its processor.
MaySubmit(t) ==
  /\ pc[t] = "idle" /\ cmds[t] < MaxCmds
  /\ IF t = BootTask THEN hpc = "idle"
     ELSE pc[BootTask] = "idle" /\ cmds[BootTask] = MaxCmds

\* in_use of ahci_reserve_slot_locked (sact stays 0: no queued commands).
InUse == ci \cup issued

\* Variant: the completion record keeps what its last user left.
ReserveKeep(s) ==
  /\ issued' = issued \cup {s}
  /\ UNCHANGED completions

Reserve(s) ==
  /\ issued' = issued \cup {s}
  /\ done' = [done EXCEPT ![s] = 0]
  /\ error' = [error EXCEPT ![s] = 0]
  /\ waiter' = [waiter EXCEPT ![s] = NULL]

FirstFree(s) == s \in Slots \ InUse /\ 0 .. s - 1 \subseteq InUse

Submit(t) ==
  /\ MaySubmit(t)
  /\ \E s \in Slots :
       /\ FirstFree(s)
       /\ Reserve(s)
       /\ slot' = [slot EXCEPT ![t] = s]
       /\ ci' = ci \cup {s}
  /\ cmds' = [cmds EXCEPT ![t] = @ + 1]
  /\ fate' = [fate EXCEPT ![t] = "flying"]
  /\ Goto(t, IF t = BootTask THEN "wait" ELSE "poll")
  /\ UNCHANGED <<port_is, hba_is, halted, handler>>

\* "No free command slot found!": the command fails without being issued.
SubmitNoSlot(t) ==
  /\ MaySubmit(t) /\ Slots \subseteq InUse
  /\ cmds' = [cmds EXCEPT ![t] = @ + 1]
  /\ UNCHANGED <<device, issued, completions, pc, slot, fate, handler>>

-----------------------------------------------------------------------------
(* ahci_wait_completion, polling *)

\* The command is still in flight: look at the error bit next.
PollBusy(t) ==
  /\ pc[t] = "poll" /\ slot[t] \in ci
  /\ Goto(t, "check")
  /\ UNCHANGED <<device, issued, completions, slot, cmds, fate, handler>>

PollGone(t) ==
  /\ pc[t] = "poll" /\ slot[t] \notin ci
  /\ Goto(t, "clear_ok")
  /\ UNCHANGED <<device, issued, completions, slot, cmds, fate, handler>>

PollCheck(t) ==
  /\ pc[t] = "check"
  /\ Goto(t, IF "tfe" \in port_is THEN "clear_err" ELSE "poll")
  /\ UNCHANGED <<device, issued, completions, slot, cmds, fate, handler>>

\* Give the slot up under st->lock and return 0 or -1.
PollReturn(t) ==
  /\ pc[t] \in {"clear_ok", "clear_err"}
  /\ issued' = issued \ {slot[t]}
  /\ Goto(t, IF pc[t] = "clear_ok" THEN "returned_0" ELSE "returned_-1")
  /\ UNCHANGED <<device, completions, slot, cmds, fate, handler>>

(* ahci_wait_completion, blocking: the section under c->guard *)
BlockWait(t) ==
  /\ pc[t] = "wait" /\ hpc = "idle"
  /\ IF done[slot[t]] = 1
     THEN waiter' = waiter /\ Goto(t, "woken")
     ELSE waiter' = [waiter EXCEPT ![slot[t]] = t] /\ Goto(t, "parked")
  /\ UNCHANGED <<device, issued, done, error, slot, cmds, fate, handler>>

BlockReturn(t) ==
  /\ pc[t] = "woken" /\ hpc = "idle"
  /\ Goto(t, IF error[slot[t]] = 0 THEN "returned_0" ELSE "returned_-1")
  /\ UNCHANGED <<device, issued, completions, slot, cmds, fate, handler>>

Leave(t) ==
  /\ pc[t] \in {"returned_0", "returned_-1"}
  /\ Goto(t, "idle")
  /\ UNCHANGED <<device, issued, completions, slot, cmds, fate, handler>>

-----------------------------------------------------------------------------
(* AhciHandler, on the boot task's processor *)

\* hba->is and port->is are read.
HandlerEnter ==
  /\ hpc = "idle" /\ hba_is = 1
  /\ hbits' = port_is
  /\ hpc' = "snapshot"
  /\ UNCHANGED <<device, issued, completions, task, fate, completed>>

\* The section under st->lock.
HandlerSnapshot ==
  /\ hpc = "snapshot"
  /\ completed' = issued \ ci
  /\ issued' = issued \cap ci
  /\ hpc' = "finish"
  /\ UNCHANGED <<device, completions, task, fate, hbits>>

\* Variant: the waiter is left in place and nobody is made READY.
HandlerFinishNoWake(s) ==
  /\ hpc = "finish" /\ s \in completed
  /\ completed' = completed \ {s}
  /\ done' = [done EXCEPT ![s] = 1]
  /\ error' = [error EXCEPT ![s] = IF "tfe" \in hbits THEN 1 ELSE 0]
  /\ UNCHANGED <<device, issued, waiter, pc, slot, cmds, fate, hpc, hbits>>

\* One completed slot, in index order, under c->guard.
HandlerFinish(s) ==
  /\ hpc = "finish" /\ s \in completed /\ \A r \in completed : s <= r
  /\ completed' = completed \ {s}
  /\ done' = [done EXCEPT ![s] = 1]
  /\ error' = [error EXCEPT ![s] = IF "tfe" \in hbits THEN 1 ELSE 0]
  /\ waiter' = [waiter EXCEPT ![s] = NULL]
  /\ pc' = IF waiter[s] = NULL THEN pc ELSE [pc EXCEPT ![waiter[s]] = "woken"]
  /\ UNCHANGED <<device, issued, slot, cmds, fate, hpc, hbits>>

\* The bits that were read are written back: they are cleared, also where the
\* device has set them again meanwhile.
HandlerClear ==
  /\ hpc = "finish" /\ completed = {}
  /\ port_is' = port_is \ hbits
  /\ hba_is' = 0
  /\ hpc' = "idle"
  /\ UNCHANGED <<ci, halted, issued, completions, task, fate, hbits, completed>>

-----------------------------------------------------------------------------
(* The device *)

InFlight(t) == fate[t] = "flying"

DeviceComplete(t) ==
  /\ InFlight(t) /\ halted = 0
  /\ ci' = ci \ {slot[t]}
  /\ port_is' = port_is \cup {"done"}
  /\ hba_is' = 1
  /\ fate' = [fate EXCEPT ![t] = "completed"]
  /\ UNCHANGED <<halted, issued, completions, task, handler>>

DeviceFail(t) ==
  /\ InFlight(t) /\ halted = 0
  /\ halted' = 1
  /\ port_is' = port_is \cup {"tfe"}
  /\ hba_is' = 1
  /\ fate' = [fate EXCEPT ![t] = "failed"]
  /\ UNCHANGED <<ci, issued, completions, task, handler>>

-----------------------------------------------------------------------------
Poll(t) == PollBusy(t) \/ PollGone(t) \/ PollCheck(t) \/ PollReturn(t)
Block(t) == BlockWait(t) \/ BlockReturn(t)
TaskStep(t) == Submit(t) \/ SubmitNoSlot(t) \/ Poll(t) \/ Block(t) \/ Leave(t)

Handler ==
  \/ HandlerEnter \/ HandlerSnapshot \/ HandlerClear
  \/ \E s \in Slots : HandlerFinish(s)

Next ==
  \/ Handler
  \/ \E t \in Tasks : TaskStep(t) \/ DeviceComplete(t) \/ DeviceFail(t)

Spec == Init /\ [][Next]_vars

\* The handler runs when the line is raised, a polling task keeps polling
\* (the bounded number of commands keeps its slot from being reused for
\* ever), and the device processes what it is given until it fails.
FairSpec ==
  /\ Spec
  /\ WF_vars(Handler)
  /\ \A t \in Tasks : WF_vars(Poll(t) \/ Block(t) \/ Leave(t)) /\ WF_vars(DeviceComplete(t))

-----------------------------------------------------------------------------
\* The device never has two tasks' commands in one slot, although issued_mask
\* is cleared both by the polling task and by the handler, and a late poller
\* may clear the bit of the task that has the slot after it: no command table
\* is rewritten under a command in flight, nor under one given up after an error.
SlotExclusive ==
  \A t, u \in Tasks :
    t # u /\ fate[t] \in {"flying", "failed"} /\ fate[u] \in {"flying", "failed"}
      => slot[t] # slot[u]

\* AhciCommand reports success only for a command the device has completed:
\* neither a record left over from the slot's previous user nor the state of
\* the slot's next user is mistaken for the task's own completion.
SuccessIsReal == \A t \in Tasks : pc[t] = "returned_0" => fate[t] = "completed"

\* Every command returns to its submitter, whoever takes the slot back first
\* and whoever has it next, unless the port fails.  (After an error a polling
\* task may go on for ever: the handler clears the error bit, perhaps before
\* the task has looked at it, and the failed slot stays in CI.)
CommandReturns == \A t \in Tasks : InFlight(t) ~> pc[t] = "idle" \/ halted = 1

\* However polling task, blocked task and interrupt handler take finished slots back, a slot
\* carries one command at a time and success is reported for a finished command only.
SlotsExact == SlotExclusive /\ SuccessIsReal
=============================================================================
