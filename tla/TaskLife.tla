------------------------------ MODULE TaskLife ------------------------------
(***************************************************************************)
(* The life of a task: fork, spawn, preemption, exit, waitpid and reaping,  *)
(* on several CPUs (src/multi/{scheduler,fork,waitpid,user_task}.c and      *)
(* SpawnHandler of src/interrupts/syscall_handler.c).                       *)
(*                                                                         *)
(* Kernel code runs with interrupts off, so on one CPU it is interrupted    *)
(* only where it calls schedule(); what interleaves is code of different    *)
(* CPUs.  A step is therefore one critical section, or one unlocked access  *)
(* to a field another CPU may be changing (cur->parent, prev->state).       *)
(*                                                                         *)
(* A task is named by its pid.  Pids are never reused; a freed task_t keeps *)
(* its last bytes (kfree does not clear them), so what a CPU reads from a   *)
(* freed task here is what it reads until the slab hands the slot out       *)
(* again.  Task 0 stands for the bootstrap task of whichever CPU it is on:  *)
(* it never blocks, so no CPU ever idles inside schedule().                 *)
(***************************************************************************)
EXTENDS Integers, Sequences, Functions

CONSTANTS
  NumCpus,         \* cpus_active
  MaxPid,          \* bound: pids handed out in one behaviour
  OrphansAllowed   \* may a task exit while it still has children?

ASSUME NumCpusAssumption == NumCpus \in Nat \ {0}
ASSUME MaxPidAssumption == MaxPid \in Nat \ {0}
ASSUME OrphansAssumption == OrphansAllowed \in BOOLEAN

CPU  == 0 .. NumCpus - 1
PID  == 1 .. MaxPid
Boot == 0        \* the bootstrap task of a CPU
NULL == 0        \* no task: a NULL parent, an empty reap slot, a free lock

VARIABLES
  life,          \* task_t allocation: "unborn", "live" or "freed"
  state,         \* task_t.state
  parent,        \* task_t.parent
  home,          \* task_t.home_cpu
  wait_target,   \* task_t.wait_target, 0 for any child
  pc,            \* where in the kernel each task is
  arg,           \* the waitpid target, the zombie claimed or the task spawned
  current,       \* cpu_local_t.current
  rq,            \* cpu_local_t.rq, head first
  pending_reap,  \* cpu_local_t.pending_reap
  cpc,           \* is the CPU in its task, inside schedule(), or halted?
  stack,         \* the task whose kernel stack the CPU is running on
  zombies,       \* the zombie list, head first
  zlock,         \* zombie_list_lock: its holder when held across steps
  next_assign    \* next_assign_cpu

taskVars == <<life, state, parent, home, wait_target, pc, arg>>
cpuVars  == <<current, rq, pending_reap, cpc, stack>>
vars     == <<taskVars, cpuVars, zombies, zlock, next_assign>>

States == {"NEW", "READY", "RUNNING", "BLOCKED", "ZOMBIE"}
Pcs    == {"user", "w_take", "w_has", "w_park", "w_free", "w_free_ie",
           "sp_parent", "x_check", "x_list", "x_wake", "dead"}

-----------------------------------------------------------------------------
(* Run queues and the tasks list.                                          *)

\* The task whose code CPU c is executing, outside schedule().
Running(c, t) == cpc[c] = "task" /\ current[c] = t

\* rq_enqueue_external: append to the queue of the task's home CPU.
RqEnqueueExternal(q, t) == [q EXCEPT ![home[t]] = Append(@, t)]

\* The tasks on the global tasks list.
TasksList == {t \in PID : life[t] = "live"}

\* task_has_children
TaskHasChildren(p, target) ==
  \E t \in TasksList : parent[t] = p /\ target \in {0, t}

\* The zombies zombie_list_take_locked(p, target) would stop at.
ZombieMatches(p, target) ==
  {i \in DOMAIN zombies : parent[zombies[i]] = p /\ target \in {0, zombies[i]}}

\* The first of them, as an index into the list.
FirstZombie(p, target, i) ==
  i \in ZombieMatches(p, target) /\ \A j \in ZombieMatches(p, target) : i <= j

\* Return from a syscall, or from schedule(), to user mode.
Return(t) == pc' = [pc EXCEPT ![t] = "user"]

-----------------------------------------------------------------------------
(* Creating tasks.                                                         *)

\* alloc_pid's choice of pid: the counter never goes back.
NextPid(t) == life[t] = "unborn" /\ \A u \in 1 .. t - 1 : life[u] # "unborn"

\* alloc_blank_task followed by rq_enqueue_external, with the parent given.
\* Nothing can observe the child between the two: it is on no queue yet and
\* its parent field is either NULL or this running task.
CreateTask(t, p) ==
  LET h == next_assign IN
  /\ life'  = [life EXCEPT ![t] = "live"]
  /\ state' = [state EXCEPT ![t] = "READY"]
  /\ parent' = [parent EXCEPT ![t] = p]
  /\ home'  = [home EXCEPT ![t] = h]
  /\ rq'    = [rq EXCEPT ![h] = Append(@, t)]
  /\ next_assign' = (next_assign + 1) % NumCpus

\* do_fork: the child is fully built, parent included, before it is enqueued.
DoFork(c, t) ==
  /\ Running(c, t) /\ pc[t] = "user"
  /\ \E n \in PID : NextPid(n) /\ CreateTask(n, t)
  /\ UNCHANGED <<wait_target, pc, arg, current, pending_reap, cpc, stack,
                 zombies, zlock>>

\* SpawnHandler up to create_user_task: the new task is runnable, and may
\* run on another CPU, while its parent is still NULL.
SpawnCreate(c, t) ==
  /\ Running(c, t) /\ pc[t] = "user"
  /\ \E n \in PID : NextPid(n) /\ CreateTask(n, NULL) /\ arg' = [arg EXCEPT ![t] = n]
  /\ pc'  = [pc EXCEPT ![t] = "sp_parent"]
  /\ UNCHANGED <<wait_target, current, pending_reap, cpc, stack, zombies, zlock>>

\* SpawnHandler: t->parent = parent, after the fd table has been copied.
SpawnSetParent(c, t) ==
  /\ Running(c, t) /\ pc[t] = "sp_parent"
  /\ parent' = [parent EXCEPT ![arg[t]] = t]
  /\ Return(t)
  /\ UNCHANGED <<life, state, home, wait_target, arg, cpuVars, zombies, zlock,
                 next_assign>>

-----------------------------------------------------------------------------
(* schedule()                                                              *)

\* free_dead_task, as far as the task tree goes: off the tasks list, kfreed.
FreeDeadTask(t) == life' = [life EXCEPT ![t] = "freed"]

\* drain_pending_reap: a corpse whose parent is alive is left alone.
DrainPendingReap(c) ==
  LET dead == pending_reap[c]
      keep == parent[dead] # NULL /\ state[parent[dead]] # "ZOMBIE"
  IN /\ pending_reap' = [pending_reap EXCEPT ![c] = NULL]
     /\ IF dead = NULL \/ keep THEN UNCHANGED life ELSE FreeDeadTask(dead)

\* prev->state == TASK_STATE_RUNNING; the bootstrap task's always is.
WantsCpu(c) == current[c] # Boot => state[current[c]] = "RUNNING"

\* schedule() from its entry to cpu->current = next.  prev goes back on the
\* queue only if it still wants the CPU; a BLOCKED or READY prev has been, or
\* will be, enqueued by whoever wakes it.
SchedulePick(c) ==
  LET prev  == current[c]
      wants == WantsCpu(c)
      queue == IF wants THEN Append(Tail(rq[c]), prev) ELSE Tail(rq[c])
      next  == Head(rq[c])
      st    == IF wants /\ prev # Boot
               THEN [state EXCEPT ![prev] = "READY"] ELSE state
  IN /\ cpc[c] = "sched" /\ rq[c] # <<>>
     /\ DrainPendingReap(c)
     /\ rq'      = [rq EXCEPT ![c] = queue]
     /\ state'   = IF next = Boot THEN st ELSE [st EXCEPT ![next] = "RUNNING"]
     /\ current' = [current EXCEPT ![c] = next]
     /\ cpc'     = [cpc EXCEPT ![c] = "switch"]
     /\ UNCHANGED <<parent, home, wait_target, pc, arg, stack, zombies, zlock,
                    next_assign>>

\* schedule() with an empty queue: a prev that still wants the CPU keeps it.
\* (A parked prev would wait here for a wakeup; the bootstrap task makes that
\* impossible.)
ScheduleKeep(c) ==
  /\ cpc[c] = "sched" /\ rq[c] = <<>>
  /\ WantsCpu(c)
  /\ DrainPendingReap(c)
  /\ cpc' = [cpc EXCEPT ![c] = "task"]
  /\ UNCHANGED <<state, parent, home, wait_target, pc, arg, current, rq, stack,
                 zombies, zlock, next_assign>>

\* Variant: every exiting prev goes to the reap slot, parent or not.
ContextSwitchReapAll(c) ==
  LET prev == stack[c] IN
  /\ cpc[c] = "switch"
  /\ pending_reap' =
       IF prev # Boot /\ state[prev] = "ZOMBIE"
       THEN [pending_reap EXCEPT ![c] = prev] ELSE pending_reap
  /\ stack' = [stack EXCEPT ![c] = current[c]]
  /\ cpc'   = [cpc EXCEPT ![c] = "task"]
  /\ UNCHANGED <<taskVars, current, rq, zombies, zlock, next_assign>>

\* The tail of schedule(): an exiting prev without a parent goes to the reap
\* slot, and context_switch leaves its stack.
ContextSwitch(c) ==
  LET prev == stack[c] IN
  /\ cpc[c] = "switch"
  /\ pending_reap' =
       IF prev # Boot /\ state[prev] = "ZOMBIE" /\ parent[prev] = NULL
       THEN [pending_reap EXCEPT ![c] = prev] ELSE pending_reap
  /\ stack' = [stack EXCEPT ![c] = current[c]]
  /\ cpc'   = [cpc EXCEPT ![c] = "task"]
  /\ UNCHANGED <<taskVars, current, rq, zombies, zlock, next_assign>>

\* The timer interrupt when the slice is used up: scheduler_tick calls
\* schedule().  Interrupts are on in user mode, in the bootstrap task, and in
\* do_waitpid once the recheck has found a zombie (it executes sti there).
Tick(c) ==
  /\ cpc[c] = "task"
  /\ current[c] # Boot => pc[current[c]] \in {"user", "w_free_ie"}
  /\ cpc' = [cpc EXCEPT ![c] = "sched"]
  /\ UNCHANGED <<taskVars, current, rq, pending_reap, stack, zombies, zlock,
                 next_assign>>

-----------------------------------------------------------------------------
(* waitpid                                                                 *)

\* do_waitpid entry, with a target pid or 0 for any child.
WaitEnter(c, t, target) ==
  /\ Running(c, t) /\ pc[t] = "user"
  /\ pc'  = [pc EXCEPT ![t] = "w_take"]
  /\ arg' = [arg EXCEPT ![t] = target]
  /\ UNCHANGED <<life, state, parent, home, wait_target, cpuVars, zombies,
                 zlock, next_assign>>

\* The list l without its i-th entry.
Unlinked(l, i) == [k \in 1 .. Len(l) - 1 |-> l[IF k < i THEN k ELSE k + 1]]

\* Unlink the first matching zombie and remember it for free_dead_task.
Claim(t, next) ==
  \E i \in DOMAIN zombies :
    /\ FirstZombie(t, arg[t], i)
    /\ zombies' = Unlinked(zombies, i)
    /\ arg' = [arg EXCEPT ![t] = zombies[i]]
    /\ pc'  = [pc EXCEPT ![t] = next]

\* zombie_list_take, the fast path.
WaitTake(c, t) ==
  /\ Running(c, t) /\ pc[t] = "w_take" /\ zlock = NULL
  /\ IF ZombieMatches(t, arg[t]) # {}
     THEN Claim(t, "w_free")
     ELSE pc' = [pc EXCEPT ![t] = "w_has"] /\ UNCHANGED <<zombies, arg>>
  /\ UNCHANGED <<life, state, parent, home, wait_target, cpuVars, zlock,
                 next_assign>>

\* Variant: park without asking whether there is a child at all.
WaitHasChildrenUnchecked(c, t) ==
  /\ Running(c, t) /\ pc[t] = "w_has"
  /\ pc' = [pc EXCEPT ![t] = "w_park"]
  /\ UNCHANGED <<life, state, parent, home, wait_target, arg, cpuVars, zombies,
                 zlock, next_assign>>

\* task_has_children: -ECHILD when there is nothing to wait for.
WaitHasChildren(c, t) ==
  /\ Running(c, t) /\ pc[t] = "w_has"
  /\ pc' = [pc EXCEPT ![t] = IF TaskHasChildren(t, arg[t]) THEN "w_park" ELSE "user"]
  /\ UNCHANGED <<life, state, parent, home, wait_target, arg, cpuVars, zombies,
                 zlock, next_assign>>

\* Variant: park without the recheck under the lock.
WaitParkNoRecheck(c, t) ==
  /\ Running(c, t) /\ pc[t] = "w_park" /\ zlock = NULL
  /\ wait_target' = [wait_target EXCEPT ![t] = arg[t]]
  /\ state' = [state EXCEPT ![t] = "BLOCKED"]
  /\ pc'    = [pc EXCEPT ![t] = "w_take"]
  /\ cpc'   = [cpc EXCEPT ![c] = "sched"]
  /\ UNCHANGED <<life, parent, home, arg, current, rq, pending_reap, stack,
                 zombies, zlock, next_assign>>

\* Recheck and park under zombie_list_lock, then call schedule().
WaitPark(c, t) ==
  /\ Running(c, t) /\ pc[t] = "w_park" /\ zlock = NULL
  /\ IF ZombieMatches(t, arg[t]) # {}
     THEN Claim(t, "w_free_ie") /\ UNCHANGED <<state, wait_target, cpc>>
     ELSE /\ wait_target' = [wait_target EXCEPT ![t] = arg[t]]
          /\ state' = [state EXCEPT ![t] = "BLOCKED"]
          /\ pc'    = [pc EXCEPT ![t] = "w_take"]
          /\ cpc'   = [cpc EXCEPT ![c] = "sched"]
          /\ UNCHANGED <<zombies, arg>>
  /\ UNCHANGED <<life, parent, home, current, rq, pending_reap, stack, zlock,
                 next_assign>>

\* free_dead_task of the claimed zombie, and return of its pid.
WaitFree(c, t) ==
  /\ Running(c, t) /\ pc[t] \in {"w_free", "w_free_ie"}
  /\ FreeDeadTask(arg[t])
  /\ Return(t)
  /\ UNCHANGED <<state, parent, home, wait_target, arg, cpuVars, zombies, zlock,
                 next_assign>>

-----------------------------------------------------------------------------
(* task_exit                                                               *)

\* Detach the children and become a ZOMBIE.  Once the children are detached
\* nobody reads this task's state, so the two form one step.
ExitDetach(c, t) ==
  /\ Running(c, t) /\ pc[t] = "user"
  /\ OrphansAllowed \/ ~TaskHasChildren(t, 0)
  /\ parent' = [u \in PID |-> IF u \in TasksList /\ parent[u] = t THEN NULL ELSE parent[u]]
  /\ state' = [state EXCEPT ![t] = "ZOMBIE"]
  /\ pc'    = [pc EXCEPT ![t] = "x_check"]
  /\ UNCHANGED <<life, home, wait_target, arg, cpuVars, zombies, zlock, next_assign>>

\* The unlocked test for a live parent; without one, straight to schedule().
ExitCheckParent(c, t) ==
  /\ Running(c, t) /\ pc[t] = "x_check"
  /\ IF parent[t] # NULL /\ state[parent[t]] # "ZOMBIE"
     THEN pc' = [pc EXCEPT ![t] = "x_list"] /\ UNCHANGED cpc
     ELSE /\ pc'  = [pc EXCEPT ![t] = "dead"]
          /\ cpc' = [cpc EXCEPT ![c] = "sched"]
  /\ UNCHANGED <<life, state, parent, home, wait_target, arg, current, rq,
                 pending_reap, stack, zombies, zlock, next_assign>>

\* Take zombie_list_lock and link the corpse.
ExitLink(c, t) ==
  /\ Running(c, t) /\ pc[t] = "x_list" /\ zlock = NULL
  /\ zlock'   = t
  /\ zombies' = <<t>> \o zombies
  /\ pc'      = [pc EXCEPT ![t] = "x_wake"]
  /\ UNCHANGED <<life, state, parent, home, wait_target, arg, cpuVars, next_assign>>

\* Variant: only a wait for exactly this pid is woken.
WakesParentByPid(p, t) == state[p] = "BLOCKED" /\ wait_target[p] = t

\* Does the exit of t wake its parent p?
WakesParent(p, t) == state[p] = "BLOCKED" /\ wait_target[p] \in {0, t}

\* Wake a parent parked on this pid or on any child, unlock, schedule().
\* The parent pointer is read again here: if the parent has exited since
\* ExitCheckParent it is NULL, and the dereference stops the CPU.
ExitWake(c, t) ==
  LET p == parent[t]
      wake == WakesParent(p, t)
  IN /\ Running(c, t) /\ pc[t] = "x_wake"
     /\ IF p = NULL
        THEN /\ cpc' = [cpc EXCEPT ![c] = "halted"]
             /\ UNCHANGED <<state, pc, rq, zlock>>
        ELSE /\ state' = IF wake THEN [state EXCEPT ![p] = "READY"] ELSE state
             /\ rq'    = IF wake THEN RqEnqueueExternal(rq, p) ELSE rq
             /\ zlock' = NULL
             /\ pc'    = [pc EXCEPT ![t] = "dead"]
             /\ cpc'   = [cpc EXCEPT ![c] = "sched"]
     /\ UNCHANGED <<life, parent, home, wait_target, arg, current, pending_reap,
                    stack, zombies, next_assign>>

-----------------------------------------------------------------------------

Init ==
  \E h \in CPU :
    /\ life   = [t \in PID |-> IF t = 1 THEN "live" ELSE "unborn"]
    /\ state  = [t \in PID |-> IF t = 1 THEN "READY" ELSE "NEW"]
    /\ parent = [t \in PID |-> NULL]
    /\ home   = [t \in PID |-> h]
    /\ wait_target = [t \in PID |-> 0]
    /\ pc     = [t \in PID |-> "user"]
    /\ arg    = [t \in PID |-> 0]
    /\ current = [c \in CPU |-> Boot]
    /\ rq      = [c \in CPU |-> IF c = h THEN <<1>> ELSE <<>>]
    /\ pending_reap = [c \in CPU |-> NULL]
    /\ cpc     = [c \in CPU |-> "task"]
    /\ stack   = [c \in CPU |-> Boot]
    /\ zombies = <<>>
    /\ zlock   = NULL
    /\ next_assign = (h + 1) % NumCpus

Wait(c, t) ==
  \/ \E target \in 0 .. MaxPid : WaitEnter(c, t, target)
  \/ WaitTake(c, t)
  \/ WaitHasChildren(c, t)
  \/ WaitPark(c, t)
  \/ WaitFree(c, t)

Exit(c, t) ==
  \/ ExitDetach(c, t)
  \/ ExitCheckParent(c, t)
  \/ ExitLink(c, t)
  \/ ExitWake(c, t)

Schedule(c) == SchedulePick(c) \/ ScheduleKeep(c) \/ ContextSwitch(c)

CpuStep(c) ==
  \/ Schedule(c)
  \/ Tick(c)
  \/ \E t \in PID : DoFork(c, t) \/ Wait(c, t) \/ Exit(c, t)

Spawn(c, t) == SpawnCreate(c, t) \/ SpawnSetParent(c, t)

Next == \E c \in CPU : CpuStep(c)
Spec == Init /\ [][Next]_vars

\* A task inside a system call executes its next step.
SyscallStep(c, t) ==
  \/ WaitTake(c, t) \/ WaitHasChildren(c, t) \/ WaitPark(c, t) \/ WaitFree(c, t)
  \/ ExitCheckParent(c, t) \/ ExitLink(c, t) \/ ExitWake(c, t)

\* A task that gets the CPU again and again inside a system call gets on with
\* it, schedule() completes, and a timer interrupt held off by system calls
\* stays pending until user mode is reached again.  What user code does, and
\* whether it ever does anything, is left open.
FairSpec ==
  /\ Spec
  /\ \A c \in CPU : /\ WF_vars(Schedule(c))
                   /\ SF_vars(Tick(c))
                   /\ \A t \in PID : SF_vars(SyscallStep(c, t))

\* The same system with the spawn system call.
NextWithSpawn == \E c \in CPU : CpuStep(c) \/ \E t \in PID : Spawn(c, t)
SpecWithSpawn == Init /\ [][NextWithSpawn]_vars

-----------------------------------------------------------------------------
(* Properties.                                                             *)

\* Every variable keeps its type.
TypeOK ==
  /\ life \in [PID -> {"unborn", "live", "freed"}]
  /\ state \in [PID -> States]
  /\ parent \in [PID -> PID \cup {NULL}]
  /\ home \in [PID -> CPU]
  /\ wait_target \in [PID -> 0 .. MaxPid]
  /\ pc \in [PID -> Pcs]
  /\ arg \in [PID -> 0 .. MaxPid]
  /\ current \in [CPU -> PID \cup {Boot}]
  /\ rq \in [CPU -> Seq(PID \cup {Boot})]
  /\ pending_reap \in [CPU -> PID \cup {NULL}]
  /\ cpc \in [CPU -> {"task", "sched", "switch", "halted"}]
  /\ stack \in [CPU -> PID \cup {Boot}]
  /\ zombies \in Seq(PID)
  /\ zlock \in PID \cup {NULL}
  /\ next_assign \in CPU

\* t is in waitpid, parked, and child z is one it waits for.
WaitsFor(p, z) ==
  /\ state[p] = "BLOCKED"
  /\ parent[z] = p
  /\ wait_target[p] \in {0, z}

\* The wait/wake handshake loses no wakeup: when a parent is parked in
\* do_waitpid and a child it waits for is on the zombie list, that child is
\* still inside task_exit's critical section and about to wake it.
NoLostWakeup ==
  \A i \in DOMAIN zombies : \A p \in PID :
    WaitsFor(p, zombies[i]) => zlock = zombies[i]

\* A child that task_exit has not yet handed over, or has just linked.
StillToCome(z) ==
  /\ life[z] = "live"
  /\ pc[z] # "dead"

\* A child that was already dead when SpawnHandler stored its parent: nobody
\* was told of its exit, and nobody will be.
ExitedUnparented(z) == pc[z] = "dead" /\ z \notin Range(zombies)

\* A parked parent always has a child whose exit will wake it: do_waitpid
\* never blocks a task that no future event can revive.  The one way to get
\* there is a spawned child that exits before SpawnHandler has set its parent.
ParkedHasChild ==
  \A p \in PID : state[p] = "BLOCKED" =>
    \E z \in PID : WaitsFor(p, z) /\ (StillToCome(z) \/ ExitedUnparented(z))

\* No task is lost or duplicated by schedule() racing with wakeups: exactly
\* the READY tasks are queued, each once, on their home CPU, and a RUNNING
\* task is its home CPU's current one.
RunQueuesExact ==
  \A t \in PID :
    /\ \A c \in CPU :
         IF state[t] = "READY" /\ c = home[t]
         THEN \E i \in DOMAIN rq[c] : {k \in DOMAIN rq[c] : rq[c][k] = t} = {i}
         ELSE t \notin Range(rq[c])
    /\ state[t] = "RUNNING" => current[home[t]] = t

\* The places that still refer to the corpse t and will free it or hand it out.
Holders(t) ==
       {<<"listed", i>> : i \in {k \in DOMAIN zombies : zombies[k] = t}}
  \cup {<<"in slot", c>> : c \in {d \in CPU : pending_reap[d] = t}}
  \cup {<<"claimed", p>> :
          p \in {q \in PID : pc[q] \in {"w_free", "w_free_ie"} /\ arg[q] = t}}

\* A dead task is freed once: no corpse is on both the zombie list and a reap
\* slot, or in either after waitpid has claimed it, and none is after kfree.
CorpseHeldOnce ==
  \A t \in PID :
    /\ \A x, y \in Holders(t) : x = y
    /\ life[t] = "freed" => Holders(t) = {}

\* No corpse is forgotten: once a dead task is off every CPU's stack, the
\* zombie list, a reap slot or a waitpid holds it until it is freed.
NoCorpseLost ==
  \A t \in PID :
    (pc[t] = "dead" /\ life[t] = "live" /\ \A c \in CPU : stack[c] # t)
      => Holders(t) # {}

\* free_dead_task is only called on a task that is running on no CPU.
FreedNotRunning ==
  \A t \in PID : life[t] = "freed" => \A c \in CPU : stack[c] # t

\* p is scanning or parked in do_waitpid, and z would satisfy it.
InWait(p, z) ==
  /\ pc[p] \in {"w_take", "w_has", "w_park"}
  /\ parent[z] = p
  /\ arg[p] \in {0, z}

\* waitpid delivers: when a child a task waits for has become a zombie, the
\* task's do_waitpid eventually returns to user mode.
WaitReturns ==
  \A p, z \in PID :
    (z \in Range(zombies) /\ InWait(p, z)) ~> pc[p] = "user"

\* Nobody is forgotten: a task is runnable and in its run queue, or on a CPU, or parked in
\* waitpid with a child left that will wake it (task_enqueue, schedule, do_waitpid).
TasksReachable == RunQueuesExact /\ ParkedHasChild

\* From exit to kfree a corpse is in exactly one of zombie list, reap slot and claiming
\* waitpid (task_exit, scheduler_tick, do_waitpid): it is neither freed twice nor leaked.
CorpseHeldExactlyOnce == CorpseHeldOnce /\ NoCorpseLost
=============================================================================
