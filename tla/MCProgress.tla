----------------------------- MODULE MCProgress -----------------------------
(***************************************************************************)
(* The parts of which something must eventually happen, for TLC, one at a   *)
(* time: part says which one a behaviour is about, and the others stay in   *)
(* an initial state.                                                        *)
(***************************************************************************)
EXTENDS MutexSched, FsGate, Signals, TermLoop, ShellJobs

VARIABLE part

Parts == {"sched", "gate", "signals", "loop", "jobs"}

allVars == <<part, vars, gateVars, sigVars, loopVars, jobVars>>

\* A part that does not move starts in one of its initial states.
MCInit ==
  /\ part \in Parts
  /\ Init /\ SigInit /\ JobInit
  /\ GateInit /\ (part # "gate" => media.state = "valid")
  /\ LoopInit /\ (part # "loop" => ~echo)

MCNext ==
  /\ UNCHANGED part
  /\ \/ part = "sched" /\ Next /\ UNCHANGED <<gateVars, sigVars, loopVars, jobVars>>
     \/ part = "gate" /\ GateNext /\ UNCHANGED <<vars, sigVars, loopVars, jobVars>>
     \/ part = "signals" /\ SigNext /\ UNCHANGED <<vars, gateVars, loopVars, jobVars>>
     \/ part = "loop" /\ LoopNext /\ UNCHANGED <<vars, gateVars, sigVars, jobVars>>
     \/ part = "jobs" /\ JobNext /\ UNCHANGED <<vars, gateVars, sigVars, loopVars>>

\* All but the mutex may stop: a halted CPU, a task that is gone, nothing typed.
MCStop == part # "sched" /\ UNCHANGED allVars

\* The fairness of FairSpec, GateSpec, SigSpec, LoopSpec and JobSpec, each
\* asked of its own part.  Only the holder of the mutex can unlock it, so it
\* is enough to ask it of the tasks together; of LoopSpec only the key
\* reader's send_event needs to be more than weakly fair.
SchedFair ==
  /\ \A c \in CPU :
       /\ WF_vars(part = "sched" /\ (Schedule(c) \/ ScheduleKeep(c)))
       /\ SF_vars(part = "sched" /\ Tick(c) /\ insched'[c])
  /\ SF_vars(part = "sched" /\ \E t \in Users : UnlockHandoff(t) \/ UnlockFree(t))
  /\ \A t \in Users : WF_vars(part = "sched" /\ UnlockWake(t))

GateFair ==
  /\ \A p \in Proc : WF_gateVars(part = "gate" /\ fs_io_end(p))
  /\ SF_gateVars(part = "gate" /\ (EXT2Umount \/ Drained \/ bclean_all \/ bflush_start("um")))
  /\ WF_gateVars(part = "gate" /\ (EXT2WriteBlocks \/ bflush_end))

SigFair ==
  /\ WF_sigVars(part = "signals" /\ irq_handler)
  /\ WF_sigVars(part = "signals" /\ signal_sigreturn)

LoopFair ==
  /\ WF_loopVars(part = "loop" /\ KbdChild) /\ WF_loopVars(part = "loop" /\ PtyChild)
  /\ WF_loopVars(part = "loop" /\ BlinkChild) /\ WF_loopVars(part = "loop" /\ Killed)
  /\ WF_loopVars(part = "loop" /\ RenderLoop) /\ WF_loopVars(part = "loop" /\ WritePty)
  /\ \A c \in Child : WF_loopVars(part = "loop" /\ send_event(c))
  /\ SF_loopVars(part = "loop" /\ send_event("kbd"))

JobFair ==
  /\ WF_jobVars(part = "jobs" /\ OpenPipe) /\ WF_jobVars(part = "jobs" /\ PipesOpen)
  /\ WF_jobVars(part = "jobs" /\ Fork) /\ WF_jobVars(part = "jobs" /\ ParentSetpgid)
  /\ WF_jobVars(part = "jobs" /\ GiveTerminal) /\ WF_jobVars(part = "jobs" /\ CloseEnds)
  /\ WF_jobVars(part = "jobs" /\ Wait) /\ WF_jobVars(part = "jobs" /\ Reclaim)
  /\ WF_jobVars(part = "jobs" /\ ForkFailed)
  /\ \A k \in Stages :
       /\ WF_jobVars(part = "jobs" /\ ChildGroup(k)) /\ WF_jobVars(part = "jobs" /\ ChildExec(k))
       /\ WF_jobVars(part = "jobs" /\ ProgramEnds(k))

MCSpec ==
  /\ MCInit /\ [][MCNext \/ MCStop]_allVars
  /\ SchedFair /\ GateFair /\ SigFair /\ LoopFair /\ JobFair
=============================================================================
