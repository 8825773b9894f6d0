--------------------------- MODULE TaskLifeProofs ---------------------------
(* Tasks from birth to exit, for any number of CPUs and pids: the run queues, and on top
   of them the handshake of task_exit with do_waitpid.                           *)
EXTENDS TaskLife, TLAPS

(* The run queues of schedule(), proved for any number of CPUs and tasks
   and with every way of creating one: a task that can run is queued once,
   on its home CPU, or is that CPU's current task, whatever the order in
   which wakeups by other CPUs and the switch away from a task happen. *)

\* x is in the list l.
Contains(l, x) == \E i \in 1 .. Len(l) : l[i] = x

\* A pid that has not been handed out belongs to a task nothing has touched.
Unborn == \A t \in PID : life[t] = "unborn" => state[t] = "NEW"

\* A CPU's current task lives on that CPU.  Outside schedule() it is running
\* or exiting; inside, it may have been parked and woken again.
Placed ==
  \A c \in CPU : current[c] # Boot =>
    /\ home[current[c]] = c
    /\ state[current[c]] # "NEW"
    /\ cpc[c] # "sched" => state[current[c]] \in {"RUNNING", "ZOMBIE"}

\* A queue holds exactly the READY tasks of its CPU, nothing twice, and the
\* bootstrap task only while another one is current.
Queues ==
  \A c \in CPU :
    /\ IsInjective(rq[c])
    /\ Contains(rq[c], Boot) => current[c] # Boot
    /\ \A t \in PID : Contains(rq[c], t) <=> state[t] = "READY" /\ home[t] = c

\* A RUNNING task is its home CPU's current one.
OnCpu == \A t \in PID : state[t] = "RUNNING" => current[home[t]] = t

\* The inductive invariant.
QInv == TypeOK /\ Unborn /\ Placed /\ Queues /\ OnCpu

-----------------------------------------------------------------------------
(* Sequences without duplicates.                                           *)

\* rq_enqueue: what a queue contains after an append.
LEMMA AppendQueue ==
  ASSUME NEW S, NEW q \in Seq(S), NEW x \in S
  PROVE  /\ Append(q, x) \in Seq(S)
         /\ \A y : Contains(Append(q, x), y) <=> Contains(q, y) \/ y = x
         /\ IsInjective(q) /\ ~Contains(q, x) => IsInjective(Append(q, x))
<1> DEFINE a == Append(q, x)
<1>1. /\ Len(q) \in Nat /\ DOMAIN q = 1 .. Len(q)
      /\ a \in Seq(S) /\ Len(a) = Len(q) + 1 /\ DOMAIN a = 1 .. Len(q) + 1
      /\ \A i \in 1 .. Len(q) : a[i] = q[i]
      /\ a[Len(q) + 1] = x
  OBVIOUS
<1> HIDE DEF a
<1>2. \A y : Contains(a, y) <=> Contains(q, y) \/ y = x
  BY <1>1 DEF Contains
<1>3. IsInjective(q) /\ ~Contains(q, x) => IsInjective(a)
  BY <1>1 DEF Contains, IsInjective
<1> QED BY Zenon, <1>1, <1>2, <1>3 DEF a

\* rq_pick: what a queue contains once its head is taken.
LEMMA TailQueue ==
  ASSUME NEW S, NEW q \in Seq(S), q # <<>>, IsInjective(q)
  PROVE  /\ Head(q) \in S /\ Tail(q) \in Seq(S)
         /\ Contains(q, Head(q))
         /\ IsInjective(Tail(q))
         /\ \A y : Contains(Tail(q), y) <=> Contains(q, y) /\ y # Head(q)
<1> DEFINE r == Tail(q)
           h == Head(q)
<1>1. /\ Len(q) \in Nat \ {0} /\ DOMAIN q = 1 .. Len(q)
      /\ r \in Seq(S) /\ Len(r) = Len(q) - 1 /\ DOMAIN r = 1 .. Len(q) - 1
      /\ \A i \in 1 .. Len(q) - 1 : r[i] = q[i + 1]
      /\ h = q[1] /\ h \in S
  OBVIOUS
<1> HIDE DEF r, h
<1>2. Contains(q, h)
  BY <1>1 DEF Contains
<1>3. IsInjective(r)
  <2> SUFFICES ASSUME NEW i \in 1 .. Len(q) - 1, NEW j \in 1 .. Len(q) - 1, r[i] = r[j]
               PROVE  i = j
    BY Zenon, <1>1 DEF IsInjective
  <2>1. i + 1 \in DOMAIN q /\ j + 1 \in DOMAIN q /\ q[i + 1] = q[j + 1]
    BY <1>1
  <2>2. i + 1 = j + 1
    BY Zenon, <2>1 DEF IsInjective
  <2> QED BY <2>2
<1>4. ASSUME NEW y, Contains(r, y) PROVE Contains(q, y) /\ y # h
  <2>1. PICK i \in 1 .. Len(q) - 1 : r[i] = y
    BY Zenon, <1>1, <1>4 DEF Contains
  <2>2. i + 1 \in 1 .. Len(q) /\ i + 1 # 1 /\ q[i + 1] = y
    BY <1>1, <2>1
  <2> QED BY <1>1, <2>2 DEF Contains, IsInjective
<1>5. ASSUME NEW y, Contains(q, y), y # h PROVE Contains(r, y)
  <2>1. PICK i \in 1 .. Len(q) : q[i] = y
    BY Zenon, <1>5 DEF Contains
  <2>2. i - 1 \in 1 .. Len(q) - 1 /\ r[i - 1] = y
    BY <1>1, <1>5, <2>1
  <2> QED BY Zenon, <1>1, <2>2 DEF Contains
<1> QED BY Zenon, <1>1, <1>2, <1>3, <1>4, <1>5 DEF r, h

\* Claim: what a list contains once its i-th entry is unlinked.
LEMMA UnlinkedQueue ==
  ASSUME NEW S, NEW s \in Seq(S), NEW i \in DOMAIN s
  PROVE  /\ Unlinked(s, i) \in Seq(S)
         /\ \A y : Contains(Unlinked(s, i), y) => Contains(s, y)
         /\ IsInjective(s) =>
              /\ IsInjective(Unlinked(s, i))
              /\ \A y : Contains(Unlinked(s, i), y) <=> Contains(s, y) /\ y # s[i]
<1> DEFINE r == Unlinked(s, i)
           at(k) == IF k < i THEN k ELSE k + 1
<1>1. i \in 1 .. Len(s) /\ Len(s) \in Nat /\ DOMAIN s = 1 .. Len(s)
  OBVIOUS
<1>2. \A k \in 1 .. Len(s) - 1 : at(k) \in DOMAIN s /\ at(k) # i /\ s[at(k)] \in S
  BY <1>1
<1>3. \A j, k \in 1 .. Len(s) - 1 : at(j) = at(k) => j = k
  BY <1>1
<1>4. \A m \in 1 .. Len(s) : m # i => \E k \in 1 .. Len(s) - 1 : at(k) = m
  <2> SUFFICES ASSUME NEW m \in 1 .. Len(s), m # i
               PROVE  \E k \in 1 .. Len(s) - 1 : at(k) = m
    BY Zenon
  <2>1. CASE m < i
    BY <1>1, <2>1
  <2>2. CASE m > i
    <3>1. m - 1 \in 1 .. Len(s) - 1 /\ at(m - 1) = m
      BY <1>1, <2>2
    <3> QED BY Zenon, <3>1
  <2> QED BY <1>1, <2>1, <2>2
<1>5. r = [k \in 1 .. Len(s) - 1 |-> s[at(k)]]
  BY Zenon DEF Unlinked
<1> HIDE DEF at
<1>6. r \in Seq(S) /\ Len(r) = Len(s) - 1 /\ DOMAIN r = 1 .. Len(s) - 1
  <2>1. r \in [1 .. Len(s) - 1 -> S] /\ Len(s) - 1 \in Nat
    BY <1>1, <1>2, <1>5
  <2> HIDE DEF r
  <2> QED BY <2>1
<1>7. \A k \in 1 .. Len(s) - 1 : r[k] = s[at(k)]
  BY Zenon, <1>5
<1> HIDE DEF r
<1>8. IsInjective(s) => IsInjective(r)
  BY ZenonT(30), <1>2, <1>3, <1>6, <1>7 DEF IsInjective
<1>9. ASSUME NEW y, Contains(r, y) PROVE Contains(s, y) /\ (IsInjective(s) => y # s[i])
  BY Zenon, <1>1, <1>2, <1>6, <1>7, <1>9 DEF Contains, IsInjective
<1>10. ASSUME NEW y, Contains(s, y), y # s[i] PROVE Contains(r, y)
  BY ZenonT(30), <1>1, <1>4, <1>6, <1>7, <1>10 DEF Contains
<1> QED BY Zenon, <1>6, <1>8, <1>9, <1>10 DEF r

-----------------------------------------------------------------------------
\* drain_pending_reap keeps the types and makes no task unborn again.
LEMMA DrainTypes ==
  ASSUME TypeOK, NEW c \in CPU, DrainPendingReap(c)
  PROVE  /\ life' \in [PID -> {"unborn", "live", "freed"}]
         /\ pending_reap' \in [CPU -> PID \cup {NULL}]
         /\ \A t \in PID : life[t] # "unborn" => life'[t] # "unborn"
BY ZenonT(30) DEF TypeOK, DrainPendingReap, FreeDeadTask

\* Claiming a zombie shortens the list and only moves the claiming task.
LEMMA ClaimEffect ==
  ASSUME TypeOK, NEW t \in PID, NEW next \in Pcs, Claim(t, next)
  PROVE  /\ zombies' \in Seq(PID)
         /\ arg' \in [PID -> 0 .. MaxPid]
         /\ pc' = [pc EXCEPT ![t] = next]
<1> PICK i \in DOMAIN zombies :
      /\ zombies' = Unlinked(zombies, i)
      /\ arg' = [arg EXCEPT ![t] = zombies[i]]
      /\ pc'  = [pc EXCEPT ![t] = next]
  BY Zenon DEF Claim
<1>1. zombies \in Seq(PID) /\ arg \in [PID -> 0 .. MaxPid]
  BY Zenon DEF TypeOK
<1>2. zombies[i] \in 0 .. MaxPid
  BY <1>1, MaxPidAssumption, SMTT(60) DEF PID
<1>3. zombies' \in Seq(PID)
  BY Zenon, <1>1, UnlinkedQueue
<1> QED BY Zenon, <1>1, <1>2, <1>3

\* alloc_blank_task keeps the types.
LEMMA CreateTypes ==
  ASSUME TypeOK, NEW n \in PID, NEW p \in PID \cup {NULL}, CreateTask(n, p)
  PROVE  /\ life' \in [PID -> {"unborn", "live", "freed"}]
         /\ state' \in [PID -> States]
         /\ parent' \in [PID -> PID \cup {NULL}]
         /\ home' \in [PID -> CPU]
         /\ rq' \in [CPU -> Seq(PID \cup {Boot})]
         /\ next_assign' \in CPU
<1>1. (next_assign + 1) % NumCpus \in CPU
  <2>1. next_assign \in Nat
    BY DEF CPU, TypeOK
  <2> QED BY <2>1, NumCpusAssumption DEF CPU
<1>2. rq' \in [CPU -> Seq(PID \cup {Boot})]
  <2>1. Append(rq[next_assign], n) \in Seq(PID \cup {Boot})
    BY SMTT(60) DEF TypeOK
  <2> QED BY Zenon, <2>1 DEF TypeOK, CreateTask
<1>3. life' \in [PID -> {"unborn", "live", "freed"}] /\ state' \in [PID -> States]
  BY Zenon DEF TypeOK, CreateTask, States
<1> QED BY <1>1, <1>2, <1>3, Zenon DEF TypeOK, CreateTask

\* Every step keeps every variable in its type.
LEMMA NextTypeOK == TypeOK /\ [NextWithSpawn]_vars => TypeOK'
<1> SUFFICES ASSUME TypeOK, [NextWithSpawn]_vars PROVE TypeOK'
  BY Zenon
<1> USE NumCpusAssumption, MaxPidAssumption DEF Boot, NULL
<1>1. CASE UNCHANGED vars
  BY Zenon, <1>1 DEF TypeOK, vars, taskVars, cpuVars
<1>2. ASSUME NEW c \in CPU, SchedulePick(c) PROVE TypeOK'
  <2>1. rq[c] \in Seq(PID \cup {Boot}) /\ rq[c] # <<>> /\ current[c] \in PID \cup {Boot}
    BY Zenon, <1>2 DEF TypeOK, SchedulePick
  <2>2. Head(rq[c]) \in PID \cup {Boot} /\ Tail(rq[c]) \in Seq(PID \cup {Boot})
    BY <2>1
  <2>3. rq' \in [CPU -> Seq(PID \cup {Boot})]
    BY <2>1, <2>2, <1>2, SMTT(60) DEF TypeOK, SchedulePick
  <2>4. state' \in [PID -> States]
    BY <2>1, <2>2, <1>2, Zenon DEF TypeOK, SchedulePick, States
  <2>5. DrainPendingReap(c)
    BY Zenon, <1>2 DEF SchedulePick
  <2> QED BY <2>2, <2>3, <2>4, <2>5, DrainTypes, <1>2, Zenon DEF TypeOK, SchedulePick
<1>3. ASSUME NEW c \in CPU, ScheduleKeep(c) PROVE TypeOK'
  <2>1. DrainPendingReap(c)
    BY Zenon, <1>3 DEF ScheduleKeep
  <2> QED BY Zenon, <2>1, DrainTypes, <1>3 DEF TypeOK, ScheduleKeep
<1>4. ASSUME NEW c \in CPU, ContextSwitch(c) PROVE TypeOK'
  BY <1>4, SMTT(60) DEF TypeOK, ContextSwitch, taskVars
<1>5. ASSUME NEW c \in CPU, Tick(c) PROVE TypeOK'
  BY Zenon, <1>5 DEF TypeOK, Tick, taskVars
<1>6. ASSUME NEW c \in CPU, NEW t \in PID, DoFork(c, t) PROVE TypeOK'
  <2> PICK n \in PID : CreateTask(n, t)
    BY Zenon, <1>6 DEF DoFork
  <2> QED BY <1>6, CreateTypes, Zenon DEF TypeOK, DoFork
<1>7. ASSUME NEW c \in CPU, NEW t \in PID, Wait(c, t) PROVE TypeOK'
  <2> USE DEF cpuVars
  <2>1. ASSUME NEW target \in 0 .. MaxPid, WaitEnter(c, t, target) PROVE TypeOK'
    BY <2>1, SMTT(60) DEF TypeOK, WaitEnter, Pcs
  <2>2. CASE WaitTake(c, t)
    <3>1. CASE Claim(t, "w_free")
      <4>1. "w_free" \in Pcs
        BY Zenon DEF Pcs
      <4>2. /\ zombies' \in Seq(PID) /\ arg' \in [PID -> 0 .. MaxPid]
            /\ pc' = [pc EXCEPT ![t] = "w_free"]
        BY <3>1, <4>1, ClaimEffect, SMTT(60)
      <4> QED BY <2>2, <4>1, <4>2, Zenon DEF TypeOK, WaitTake
    <3>2. CASE pc' = [pc EXCEPT ![t] = "w_has"] /\ UNCHANGED <<zombies, arg>>
      BY <2>2, <3>2, SMTT(60) DEF TypeOK, WaitTake, Pcs
    <3> QED BY <2>2, <3>1, <3>2, SMTT(60) DEF WaitTake
  <2>3. CASE WaitHasChildren(c, t)
    BY <2>3, SMTT(60) DEF TypeOK, WaitHasChildren, Pcs
  <2>4. CASE WaitPark(c, t)
    <3>1. CASE Claim(t, "w_free_ie") /\ UNCHANGED <<state, wait_target, cpc>>
      <4>1. "w_free_ie" \in Pcs
        BY Zenon DEF Pcs
      <4>2. /\ zombies' \in Seq(PID) /\ arg' \in [PID -> 0 .. MaxPid]
            /\ pc' = [pc EXCEPT ![t] = "w_free_ie"]
        BY <3>1, <4>1, ClaimEffect, SMTT(60)
      <4> QED BY <2>4, <3>1, <4>1, <4>2, Zenon DEF TypeOK, WaitPark
    <3>2. CASE ZombieMatches(t, arg[t]) = {}
      <4>1. /\ wait_target' = [wait_target EXCEPT ![t] = arg[t]]
            /\ state' = [state EXCEPT ![t] = "BLOCKED"]
            /\ pc'    = [pc EXCEPT ![t] = "w_take"]
            /\ cpc'   = [cpc EXCEPT ![c] = "sched"]
            /\ UNCHANGED <<zombies, arg, life, parent, home, current, rq,
                           pending_reap, stack, zlock, next_assign>>
        BY Zenon, <2>4, <3>2 DEF WaitPark
      <4> QED BY Zenon, <4>1 DEF TypeOK, Pcs, States
    <3> QED BY Zenon, <2>4, <3>1, <3>2 DEF WaitPark
  <2>5. CASE WaitFree(c, t)
    BY <2>5, Zenon DEF TypeOK, WaitFree, FreeDeadTask, Return, Pcs
  <2> QED BY <1>7, <2>1, <2>2, <2>3, <2>4, <2>5, SMTT(60) DEF Wait
<1>8. ASSUME NEW c \in CPU, NEW t \in PID, Exit(c, t) PROVE TypeOK'
  <2> USE DEF cpuVars
  <2>1. CASE ExitDetach(c, t)
    BY Zenon, <2>1 DEF TypeOK, ExitDetach, Pcs, States
  <2>2. CASE ExitCheckParent(c, t)
    BY <2>2, ZenonT(60) DEF TypeOK, ExitCheckParent, Pcs
  <2>3. CASE ExitLink(c, t)
    <3>1. zombies' \in Seq(PID)
      BY <2>3 DEF TypeOK, ExitLink
    <3> QED BY <2>3, <3>1, Zenon DEF TypeOK, ExitLink, Pcs
  <2>4. CASE ExitWake(c, t)
    <3>1. CASE parent[t] = NULL
      BY <2>4, <3>1, Zenon DEF TypeOK, ExitWake
    <3>2. CASE parent[t] # NULL
      <4>1. parent[t] \in PID /\ home[parent[t]] \in CPU
        BY Zenon, <3>2 DEF TypeOK
      <4>2. rq' \in [CPU -> Seq(PID \cup {Boot})]
        <5>1. Append(rq[home[parent[t]]], parent[t]) \in Seq(PID \cup {Boot})
          BY <4>1 DEF TypeOK
        <5> QED BY <2>4, <3>2, <4>1, <5>1, ZenonT(60) DEF TypeOK, ExitWake, RqEnqueueExternal
      <4> QED BY <2>4, <3>2, <4>1, <4>2, ZenonT(60) DEF TypeOK, ExitWake, Pcs, States
    <3> QED BY Zenon, <3>1, <3>2
  <2> QED BY Zenon, <1>8, <2>1, <2>2, <2>3, <2>4 DEF Exit
<1>9. ASSUME NEW c \in CPU, NEW t \in PID, Spawn(c, t) PROVE TypeOK'
  <2>1. CASE SpawnCreate(c, t)
    <3>1. PICK n \in PID : CreateTask(n, NULL) /\ arg' = [arg EXCEPT ![t] = n]
      BY Zenon, <2>1 DEF SpawnCreate
    <3>2. arg' \in [PID -> 0 .. MaxPid]
      <4>1. n \in 0 .. MaxPid
        BY DEF PID
      <4> QED BY Zenon, <3>1, <4>1 DEF TypeOK
    <3>3. pc' \in [PID -> Pcs]
      BY <2>1, Zenon DEF TypeOK, SpawnCreate, Pcs
    <3> QED BY <2>1, <3>1, <3>2, <3>3, CreateTypes, Zenon DEF TypeOK, SpawnCreate
  <2>2. CASE SpawnSetParent(c, t)
    BY <2>2, Zenon DEF TypeOK, SpawnSetParent, Return, Pcs, cpuVars
  <2> QED BY Zenon, <1>9, <2>1, <2>2 DEF Spawn
<1> QED BY <1>1, <1>2, <1>3, <1>4, <1>5, <1>6, <1>7, <1>8, <1>9, SMTT(60)
       DEF NextWithSpawn, CpuStep, Schedule


-----------------------------------------------------------------------------
\* Every state the kernel starts in satisfies the invariant.
LEMMA InitQInv == Init => QInv
<1> SUFFICES ASSUME Init PROVE QInv
  BY Zenon
<1> USE NumCpusAssumption, MaxPidAssumption DEF CPU, PID, Boot, NULL
<1> PICK h \in CPU : 
       /\ life   = [t \in PID |-> IF t = 1 THEN "live" ELSE "unborn"]
       /\ state  = [t \in PID |-> IF t = 1 THEN "READY" ELSE "NEW"]
       /\ parent = [t \in PID |-> NULL]
       /\ home   = [t \in PID |-> h]
       /\ wait_target = [t \in PID |-> 0]
       /\ pc     = [t \in PID |-> "user"]
       /\ arg    = [t \in PID |-> 0]
       /\ current = [c \in CPU |-> Boot]
       /\ rq      = [c \in CPU |-> IF c = h THEN <<1>> ELSE <<>>]
       /\ pending_reap = [c \in CPU |-> NULL]
       /\ cpc     = [c \in CPU |-> "task"]
       /\ stack   = [c \in CPU |-> Boot]
       /\ zombies = <<>>
       /\ zlock   = NULL
       /\ next_assign = (h + 1) % NumCpus
  BY Zenon DEF Init
<1>1. TypeOK
  <2>1. rq \in [CPU -> Seq(PID \cup {Boot})]
    <3>1. <<1>> \in Seq(PID \cup {Boot}) /\ <<>> \in Seq(PID \cup {Boot})
      OBVIOUS
    <3> QED BY <3>1, Zenon
  <2>2. next_assign \in CPU /\ home \in [PID -> CPU]
    OBVIOUS
  <2> HIDE DEF CPU, PID
  <2>3. 0 \in 0 .. MaxPid
    OBVIOUS
  <2> QED BY <2>1, <2>2, <2>3, SMTT(60) DEF TypeOK, States, Pcs
<1>2. Unborn /\ Placed /\ OnCpu
  BY Zenon DEF Unborn, Placed, OnCpu
<1>3. Queues
  <2>1. IsInjective(<<1>>) /\ IsInjective(<<>>)
    BY DEF IsInjective
  <2>2. \A t : ~Contains(<<>>, t)
    BY DEF Contains
  <2>3. \A t : Contains(<<1>>, t) <=> t = 1
    BY DEF Contains
  <2> QED BY <2>1, <2>2, <2>3 DEF Queues
<1> QED BY Zenon, <1>1, <1>2, <1>3 DEF QInv

\* A step that leaves the queues alone, moves no task between CPUs and takes
\* tasks only from running or exiting to parked or exiting keeps the queues.
LEMMA QuietQueues ==
  ASSUME QInv, UNCHANGED <<rq, current, home>>,
         \A u \in PID : life'[u] = "unborn" => life[u] = "unborn",
         \A u \in PID : \/ state'[u] = state[u]
                        \/ /\ state[u] \in {"RUNNING", "ZOMBIE"}
                           /\ state'[u] \in {"BLOCKED", "ZOMBIE"},
         \A d \in CPU : current[d] # Boot /\ cpc'[d] # "sched"
                          => state'[current[d]] \in {"RUNNING", "ZOMBIE"}
  PROVE  Unborn' /\ Placed' /\ Queues' /\ OnCpu'
<1> USE DEF QInv
<1>1. Unborn'
  BY Zenon DEF Unborn
<1>2. Placed'
  <2>1. \A d \in CPU : current[d] \in PID \cup {Boot}
    BY Zenon DEF TypeOK
  <2> QED BY ZenonT(30), <2>1 DEF Placed
<1>3. Queues'
  BY DEF Queues
<1>4. OnCpu'
  BY Zenon DEF OnCpu
<1> QED BY Zenon, <1>1, <1>2, <1>3, <1>4

\* A new task goes on one queue, which did not hold it: its pid is new.
LEMMA CreateQueues ==
  ASSUME QInv, NEW n \in PID, NEW p \in PID \cup {NULL}, NextPid(n), CreateTask(n, p),
         UNCHANGED <<current, cpc>>
  PROVE  Unborn' /\ Placed' /\ Queues' /\ OnCpu'
<1> USE DEF QInv
<1> DEFINE h == next_assign
<1>1. /\ h \in CPU /\ n # Boot
      /\ life' = [life EXCEPT ![n] = "live"] /\ state' = [state EXCEPT ![n] = "READY"]
      /\ home' = [home EXCEPT ![n] = h] /\ rq' = [rq EXCEPT ![h] = Append(@, n)]
  BY DEF CreateTask, TypeOK, PID, Boot
<1>2. state[n] = "NEW"
  BY Zenon DEF NextPid, Unborn
<1> HIDE DEF h
<1>3. Unborn'
  BY Zenon, <1>1 DEF Unborn, TypeOK
<1>4. Placed'
  <2>1. \A d \in CPU : current[d] \in PID \cup {Boot} /\ current[d] # n
    BY Zenon, <1>1, <1>2 DEF TypeOK, Placed
  <2> QED BY Zenon, <1>1, <2>1 DEF Placed, TypeOK
<1>5. OnCpu'
  BY Zenon, <1>1, <1>2 DEF OnCpu, TypeOK
<1>6. Queues'
  <2> SUFFICES ASSUME NEW d \in CPU
               PROVE  /\ IsInjective(rq'[d])
                      /\ Contains(rq'[d], Boot) => current[d] # Boot
                      /\ \A t \in PID : Contains(rq'[d], t) <=> state'[t] = "READY" /\ home'[t] = d
    BY Zenon DEF Queues
  <2>1. ~Contains(rq[d], n)
    BY Zenon, <1>2 DEF Queues
  <2>2. /\ IsInjective(rq[d]) /\ rq[d] \in Seq(PID \cup {Boot})
        /\ Contains(rq[d], Boot) => current[d] # Boot
        /\ \A t \in PID : Contains(rq[d], t) <=> state[t] = "READY" /\ home[t] = d
    BY Zenon DEF Queues, TypeOK
  <2>3. \A t \in PID : /\ state'[t] = IF t = n THEN "READY" ELSE state[t]
                       /\ home'[t] = IF t = n THEN h ELSE home[t]
    BY Zenon, <1>1 DEF TypeOK
  <2>4. CASE d = h
    <3>1. rq'[d] = Append(rq[d], n)
      BY Zenon, <1>1, <2>4 DEF TypeOK
    <3>2. /\ IsInjective(rq'[d])
          /\ \A y : Contains(rq'[d], y) <=> Contains(rq[d], y) \/ y = n
      BY <2>1, <2>2, <3>1, AppendQueue
    <3> QED BY Zenon, <1>1, <2>2, <2>3, <2>4, <3>2
  <2>5. CASE d # h
    <3>1. rq'[d] = rq[d]
      BY Zenon, <1>1, <2>5 DEF TypeOK
    <3> QED BY Zenon, <1>2, <2>2, <2>3, <2>5, <3>1
  <2> QED BY Zenon, <2>4, <2>5
<1> QED BY Zenon, <1>3, <1>4, <1>5, <1>6

\* schedule() takes the head of its queue and puts prev back only if prev still
\* wants the CPU.  A prev that was parked and has been woken since is already
\* queued: it is not RUNNING, so it is not queued again.
LEMMA PickQueues ==
  ASSUME QInv, NEW c \in CPU, SchedulePick(c)
  PROVE  Unborn' /\ Placed' /\ Queues' /\ OnCpu'
<1> USE DEF QInv
<1> DEFINE prev == current[c]
           next == Head(rq[c])
           rest == Tail(rq[c])
           wants == WantsCpu(c)
<1>1. /\ cpc[c] = "sched" /\ rq[c] # <<>> /\ DrainPendingReap(c)
      /\ rq' = [rq EXCEPT ![c] = IF wants THEN Append(rest, prev) ELSE rest]
      /\ current' = [current EXCEPT ![c] = next]
      /\ cpc' = [cpc EXCEPT ![c] = "switch"]
      /\ home' = home
  BY Zenon DEF SchedulePick
<1>2. state' = LET st == IF wants /\ prev # Boot THEN [state EXCEPT ![prev] = "READY"] ELSE state
               IN  IF next = Boot THEN st ELSE [st EXCEPT ![next] = "RUNNING"]
  BY Zenon DEF SchedulePick
<1>3. /\ prev \in PID \cup {Boot} /\ rq[c] \in Seq(PID \cup {Boot}) /\ Boot \notin PID
      /\ IsInjective(rq[c])
  BY DEF TypeOK, Queues, PID, Boot
<1>4. /\ next \in PID \cup {Boot} /\ rest \in Seq(PID \cup {Boot}) /\ IsInjective(rest)
      /\ Contains(rq[c], next)
      /\ \A y : Contains(rest, y) <=> Contains(rq[c], y) /\ y # next
  BY Zenon, <1>1, <1>3, TailQueue
<1>5. wants <=> prev = Boot \/ state[prev] = "RUNNING"
  BY Zenon DEF WantsCpu
<1>6. /\ next # Boot => state[next] = "READY" /\ home[next] = c
      /\ next = Boot => prev # Boot
  BY Zenon, <1>4 DEF Queues
<1>7. wants => prev # next
  BY Zenon, <1>5, <1>6
<1>8. \A t \in PID : state'[t] = IF t = next THEN "RUNNING"
                                 ELSE IF wants /\ t = prev THEN "READY" ELSE state[t]
  BY <1>2, <1>3, <1>4, <1>7 DEF TypeOK
<1>9. \A d \in CPU : /\ current'[d] = IF d = c THEN next ELSE current[d]
                     /\ cpc'[d] = IF d = c THEN "switch" ELSE cpc[d]
                     /\ rq'[d] = IF d # c THEN rq[d]
                                 ELSE IF wants THEN Append(rest, prev) ELSE rest
  BY Zenon, <1>1 DEF TypeOK
<1>10. prev # Boot => home[prev] = c
  BY Zenon DEF Placed
<1> HIDE DEF prev, next, rest, wants
<1>11. Unborn'
  <2>1. \A t \in PID : life'[t] = "unborn" => life[t] = "unborn"
    BY Zenon, <1>1, DrainTypes
  <2>2. \A t \in PID : state[t] = "NEW" => t # next /\ ~(wants /\ t = prev)
    BY Zenon, <1>3, <1>5, <1>6
  <2> QED BY Zenon, <1>8, <2>1, <2>2 DEF Unborn
<1>12. Placed'
  <2> SUFFICES ASSUME NEW d \in CPU, current'[d] # Boot
               PROVE  /\ home[current'[d]] = d /\ state'[current'[d]] # "NEW"
                      /\ cpc'[d] # "sched" => state'[current'[d]] \in {"RUNNING", "ZOMBIE"}
    BY Zenon, <1>1 DEF Placed
  <2>1. CASE d = c
    BY Zenon, <1>4, <1>6, <1>8, <1>9, <2>1
  <2>2. CASE d # c
    <3>1. current'[d] = current[d] /\ cpc'[d] = cpc[d] /\ current[d] \in PID
      BY Zenon, <1>9, <2>2 DEF TypeOK
    <3>2. /\ home[current[d]] = d /\ state[current[d]] # "NEW"
          /\ cpc[d] # "sched" => state[current[d]] \in {"RUNNING", "ZOMBIE"}
      BY Zenon, <3>1 DEF Placed
    <3>3. current[d] # next /\ current[d] # prev
      BY Zenon, <1>3, <1>6, <1>10, <2>2, <3>1, <3>2
    <3> QED BY Zenon, <1>8, <3>1, <3>2, <3>3
  <2> QED BY Zenon, <2>1, <2>2
<1>13. OnCpu'
  <2> SUFFICES ASSUME NEW t \in PID, state'[t] = "RUNNING" PROVE current'[home[t]] = t
    BY Zenon, <1>1 DEF OnCpu
  <2>1. CASE t = next
    BY Zenon, <1>3, <1>6, <1>9, <2>1
  <2>2. CASE t # next
    <3>1. state[t] = "RUNNING" /\ ~(wants /\ t = prev)
      BY Zenon, <1>8, <2>2
    <3>2. home[t] \in CPU /\ current[home[t]] = t
      BY Zenon, <3>1 DEF OnCpu, TypeOK
    <3>3. home[t] # c
      BY Zenon, <1>5, <3>1, <3>2 DEF prev
    <3> QED BY Zenon, <1>9, <3>2, <3>3
  <2> QED BY Zenon, <2>1, <2>2
<1>14. Queues'
  <2> SUFFICES ASSUME NEW d \in CPU
               PROVE  /\ IsInjective(rq'[d])
                      /\ Contains(rq'[d], Boot) => current'[d] # Boot
                      /\ \A t \in PID : Contains(rq'[d], t) <=> state'[t] = "READY" /\ home[t] = d
    BY Zenon, <1>1 DEF Queues
  <2>1. /\ IsInjective(rq[d])
        /\ Contains(rq[d], Boot) => current[d] # Boot
        /\ \A t \in PID : Contains(rq[d], t) <=> state[t] = "READY" /\ home[t] = d
    BY Zenon DEF Queues
  <2>2. CASE d # c
    <3>1. rq'[d] = rq[d] /\ current'[d] = current[d]
      BY Zenon, <1>9, <2>2
    <3>2. \A t \in PID : home[t] = d => t # next /\ t # prev
      BY Zenon, <1>3, <1>6, <1>10, <2>2
    <3> QED BY Zenon, <1>8, <2>1, <3>1, <3>2
  <2>3. CASE d = c /\ ~wants
    <3>1. rq'[d] = rest /\ current'[d] = next
      BY Zenon, <1>9, <2>3
    <3> QED BY Zenon, <1>4, <1>8, <2>1, <2>3, <3>1
  <2>4. CASE d = c /\ wants
    <3>1. rq'[d] = Append(rest, prev) /\ current'[d] = next
      BY Zenon, <1>9, <2>4
    <3>2. ~Contains(rest, prev)
      BY Zenon, <1>3, <1>4, <1>5, <2>1, <2>4 DEF prev
    <3>3. /\ IsInjective(rq'[d])
          /\ \A y : Contains(rq'[d], y) <=> Contains(rest, y) \/ y = prev
      BY <1>3, <1>4, <3>1, <3>2, AppendQueue
    <3>4. Contains(rq'[d], Boot) => next # Boot
      BY Zenon, <1>4, <1>7, <2>4, <3>3
    <3>5. ASSUME NEW t \in PID
          PROVE  Contains(rq'[d], t) <=> state'[t] = "READY" /\ home[t] = d
      BY Zenon, <1>3, <1>4, <1>7, <1>8, <1>10, <2>1, <2>4, <3>3
    <3> QED BY Zenon, <3>1, <3>3, <3>4, <3>5
  <2> QED BY Zenon, <2>2, <2>3, <2>4
<1> QED BY Zenon, <1>11, <1>12, <1>13, <1>14

\* A parked parent is on no queue; the exit that wakes it queues it once.
LEMMA WakeQueues ==
  ASSUME QInv, NEW p \in PID, state[p] = "BLOCKED",
         state' = [state EXCEPT ![p] = "READY"], rq' = RqEnqueueExternal(rq, p),
         UNCHANGED <<life, home, current>>, NEW c \in CPU,
         cpc' = [cpc EXCEPT ![c] = "sched"]
  PROVE  Unborn' /\ Placed' /\ Queues' /\ OnCpu'
<1> USE DEF QInv
<1>1. /\ home[p] \in CPU /\ p # Boot
      /\ \A t \in PID : state'[t] = IF t = p THEN "READY" ELSE state[t]
      /\ \A d \in CPU : rq'[d] = IF d = home[p] THEN Append(rq[d], p) ELSE rq[d]
      /\ \A d \in CPU : cpc'[d] # "sched" => cpc[d] # "sched"
  <2>1. home[p] \in CPU /\ p # Boot
    <3>1. p # Boot
      BY DEF PID, Boot
    <3> QED BY Zenon, <3>1 DEF TypeOK
  <2>2. \A t \in PID : state'[t] = IF t = p THEN "READY" ELSE state[t]
    BY Zenon DEF TypeOK
  <2>3. \A d \in CPU : rq'[d] = IF d = home[p] THEN Append(rq[d], p) ELSE rq[d]
    BY Zenon, <2>1 DEF TypeOK, RqEnqueueExternal
  <2>4. \A d \in CPU : cpc'[d] # "sched" => cpc[d] # "sched"
    BY Zenon DEF TypeOK
  <2> QED BY Zenon, <2>1, <2>2, <2>3, <2>4
<1>2. Unborn' /\ OnCpu'
  BY <1>1 DEF Unborn, OnCpu
<1>3. Placed'
  <2>1. \A d \in CPU : current[d] \in PID \cup {Boot}
    BY Zenon DEF TypeOK
  <2> QED BY <1>1, <2>1 DEF Placed
<1>4. Queues'
  <2> SUFFICES ASSUME NEW d \in CPU
               PROVE  /\ IsInjective(rq'[d])
                      /\ Contains(rq'[d], Boot) => current[d] # Boot
                      /\ \A t \in PID : Contains(rq'[d], t) <=> state'[t] = "READY" /\ home[t] = d
    BY Zenon DEF Queues
  <2>1. /\ IsInjective(rq[d]) /\ rq[d] \in Seq(PID \cup {Boot})
        /\ Contains(rq[d], Boot) => current[d] # Boot
        /\ \A t \in PID : Contains(rq[d], t) <=> state[t] = "READY" /\ home[t] = d
    BY Zenon DEF Queues, TypeOK
  <2>2. CASE d = home[p]
    <3>1. /\ IsInjective(rq'[d])
          /\ \A y : Contains(rq'[d], y) <=> Contains(rq[d], y) \/ y = p
      BY <1>1, <2>1, <2>2, AppendQueue
    <3> QED BY <1>1, <2>1, <2>2, <3>1
  <2>3. CASE d # home[p]
    BY <1>1, <2>1, <2>3
  <2> QED BY Zenon, <2>2, <2>3
<1> QED BY Zenon, <1>2, <1>3, <1>4

-----------------------------------------------------------------------------
\* Every step of every CPU keeps the invariant.
LEMMA NextQInv == QInv /\ [NextWithSpawn]_vars => QInv'
<1> SUFFICES ASSUME QInv, [NextWithSpawn]_vars PROVE Unborn' /\ Placed' /\ Queues' /\ OnCpu'
  BY Zenon, NextTypeOK DEF QInv
<1>0. /\ TypeOK
      /\ \A d \in CPU : current[d] \in PID \cup {Boot}
      /\ \A d \in CPU : current[d] # Boot /\ cpc[d] # "sched"
                          => state[current[d]] \in {"RUNNING", "ZOMBIE"}
      /\ \A d, e \in CPU : current[d] # Boot /\ current[d] = current[e] => d = e
      /\ Boot \notin PID
  <2>1. Boot \notin PID
    BY DEF PID, Boot
  <2>2. TypeOK /\ Placed
    BY Zenon DEF QInv
  <2>3. \A d \in CPU : current[d] \in PID \cup {Boot}
    BY Zenon, <2>2 DEF TypeOK
  <2> QED BY <2>1, <2>2, <2>3 DEF Placed
<1>1. CASE UNCHANGED vars
  BY Zenon, <1>0, <1>1, QuietQueues DEF vars, taskVars, cpuVars
<1>2. ASSUME NEW c \in CPU, ScheduleKeep(c) PROVE Unborn' /\ Placed' /\ Queues' /\ OnCpu'
  <2>1. \A t \in PID : life'[t] = "unborn" => life[t] = "unborn"
    BY Zenon, <1>0, <1>2, DrainTypes DEF ScheduleKeep
  <2>2. UNCHANGED <<state, rq, current, home>> /\ cpc' = [cpc EXCEPT ![c] = "task"]
    BY Zenon, <1>2 DEF ScheduleKeep
  <2>3. current[c] # Boot => state[current[c]] = "RUNNING"
    BY Zenon, <1>2 DEF ScheduleKeep, WantsCpu
  <2>4. \A d \in CPU : cpc'[d] = IF d = c THEN "task" ELSE cpc[d]
    BY Zenon, <1>0, <2>2 DEF TypeOK
  <2> QED BY ZenonT(30), <1>0, <2>1, <2>2, <2>3, <2>4, QuietQueues
<1>3. ASSUME NEW c \in CPU, ContextSwitch(c) \/ Tick(c)
      PROVE  Unborn' /\ Placed' /\ Queues' /\ OnCpu'
  <2>1. UNCHANGED <<life, state, rq, current, home>>
    BY Zenon, <1>3 DEF ContextSwitch, Tick, taskVars
  <2>2. \A d \in CPU : cpc'[d] # "sched" => cpc[d] # "sched"
    BY ZenonT(30), <1>0, <1>3 DEF ContextSwitch, Tick, TypeOK
  <2> QED BY Zenon, <1>0, <2>1, <2>2, QuietQueues
<1>4. ASSUME NEW c \in CPU, NEW t \in PID, DoFork(c, t) \/ SpawnCreate(c, t)
      PROVE  Unborn' /\ Placed' /\ Queues' /\ OnCpu'
  <2>1. \E n \in PID, p \in PID \cup {NULL} : NextPid(n) /\ CreateTask(n, p)
    BY Zenon, <1>4 DEF DoFork, SpawnCreate
  <2>2. UNCHANGED <<current, cpc>>
    BY Zenon, <1>4 DEF DoFork, SpawnCreate
  <2> QED BY Zenon, <2>1, <2>2, CreateQueues
<1>5. ASSUME NEW c \in CPU, NEW t \in PID, SpawnSetParent(c, t)
      PROVE  Unborn' /\ Placed' /\ Queues' /\ OnCpu'
  BY Zenon, <1>0, <1>5, QuietQueues DEF SpawnSetParent, cpuVars
<1>6. ASSUME NEW c \in CPU, NEW t \in PID, Wait(c, t)
      PROVE  Unborn' /\ Placed' /\ Queues' /\ OnCpu'
  <2>1. /\ UNCHANGED <<rq, current, home>> /\ Running(c, t)
        /\ \/ UNCHANGED <<state, cpc>>
           \/ /\ state' = [state EXCEPT ![t] = "BLOCKED"]
              /\ cpc' = [cpc EXCEPT ![c] = "sched"]
    BY <1>6, Zenon DEF Wait, WaitEnter, WaitTake, WaitHasChildren, WaitPark, WaitFree, cpuVars
  <2>2. \A u \in PID : life'[u] = "unborn" => life[u] = "unborn"
    BY <1>0, <1>6, Zenon DEF Wait, WaitEnter, WaitTake, WaitHasChildren, WaitPark, WaitFree,
                             FreeDeadTask, TypeOK
  <2>3. CASE UNCHANGED <<state, cpc>>
    BY Zenon, <1>0, <2>1, <2>2, <2>3, QuietQueues
  <2>4. CASE /\ state' = [state EXCEPT ![t] = "BLOCKED"]
             /\ cpc' = [cpc EXCEPT ![c] = "sched"]
    <3>1. current[c] = t /\ state[t] \in {"RUNNING", "ZOMBIE"}
      BY Zenon, <1>0, <2>1 DEF Running
    <3>2. /\ \A u \in PID : state'[u] = IF u = t THEN "BLOCKED" ELSE state[u]
          /\ \A d \in CPU : cpc'[d] = IF d = c THEN "sched" ELSE cpc[d]
      BY Zenon, <1>0, <2>4 DEF TypeOK
    <3> QED BY Zenon, <1>0, <2>1, <2>2, <3>1, <3>2, QuietQueues
  <2> QED BY Zenon, <2>1, <2>3, <2>4
<1>7. ASSUME NEW c \in CPU, NEW t \in PID, Exit(c, t)
      PROVE  Unborn' /\ Placed' /\ Queues' /\ OnCpu'
  <2>1. /\ UNCHANGED <<life, current, home>> /\ Running(c, t)
    BY <1>7, Zenon DEF Exit, ExitDetach, ExitCheckParent, ExitLink, ExitWake, cpuVars
  <2>2. current[c] = t /\ state[t] \in {"RUNNING", "ZOMBIE"}
    BY Zenon, <1>0, <2>1 DEF Running
  <2>3. CASE ExitDetach(c, t)
    <3>1. /\ UNCHANGED <<rq, cpc>>
          /\ \A u \in PID : state'[u] = IF u = t THEN "ZOMBIE" ELSE state[u]
      BY Zenon, <1>0, <2>3 DEF ExitDetach, cpuVars, TypeOK
    <3> QED BY Zenon, <1>0, <2>1, <2>2, <3>1, QuietQueues
  <2>4. CASE UNCHANGED <<rq, state>> /\ \A d \in CPU : cpc'[d] # "sched" => cpc[d] # "sched"
    BY Zenon, <1>0, <2>1, <2>4, QuietQueues
  <2>5. CASE ExitCheckParent(c, t) \/ ExitLink(c, t)
    BY <1>0, <2>4, <2>5, SMTT(20) DEF ExitCheckParent, ExitLink, cpuVars, TypeOK
  <2>6. CASE ExitWake(c, t)
    <3> DEFINE p == parent[t]
    <3>1. CASE p = NULL
      BY Zenon, <1>0, <2>1, <2>4, <2>6, <3>1 DEF ExitWake, Running, TypeOK
    <3>2. CASE p # NULL /\ ~WakesParent(p, t)
      BY Zenon, <1>0, <2>4, <2>6, <3>2 DEF ExitWake, TypeOK
    <3>3. CASE p # NULL /\ WakesParent(p, t)
      <4>1. /\ p \in PID /\ state[p] = "BLOCKED"
            /\ state' = [state EXCEPT ![p] = "READY"] /\ rq' = RqEnqueueExternal(rq, p)
            /\ cpc' = [cpc EXCEPT ![c] = "sched"]
        BY <1>0, <2>6, <3>3, SMTT(20) DEF ExitWake, WakesParent, TypeOK
      <4> QED BY Zenon, <2>1, <4>1, WakeQueues
    <3> QED BY Zenon, <3>1, <3>2, <3>3
  <2> QED BY Zenon, <1>7, <2>3, <2>5, <2>6 DEF Exit
<1> QED BY Zenon, <1>1, <1>2, <1>3, <1>4, <1>5, <1>6, <1>7, PickQueues
       DEF NextWithSpawn, CpuStep, Schedule, Spawn

\* The invariant holds in every state of every behaviour.
LEMMA AlwaysQInv == SpecWithSpawn => []QInv
BY InitQInv, NextQInv, PTL DEF SpecWithSpawn

\* For any number of CPUs and of tasks, created by fork or by spawn, every field
\* of every task_t and cpu_local_t stays in its type; in particular the
\* round-robin counter always names a CPU that exists.
THEOREM TaskLifeTyped == SpecWithSpawn => []TypeOK
<1>1. QInv => TypeOK
  BY Zenon DEF QInv
<1> QED BY <1>1, AlwaysQInv, PTL

\* For any number of CPUs and of tasks, schedule() racing with the wakeups of
\* task_exit neither loses nor duplicates a task: exactly the READY ones are
\* queued, once, on their home CPU, and a RUNNING one is on its CPU.
THEOREM NoTaskLost == SpecWithSpawn => []RunQueuesExact
<1>1. QInv => RunQueuesExact
  <2> SUFFICES ASSUME QInv, NEW t \in PID, NEW c \in CPU
               PROVE  IF state[t] = "READY" /\ c = home[t]
                      THEN \E i \in DOMAIN rq[c] : {k \in DOMAIN rq[c] : rq[c][k] = t} = {i}
                      ELSE t \notin Range(rq[c])
    BY Zenon DEF RunQueuesExact, QInv, OnCpu
  <2>1. /\ rq[c] \in Seq(PID \cup {Boot}) /\ IsInjective(rq[c])
        /\ Contains(rq[c], t) <=> state[t] = "READY" /\ home[t] = c
    BY Zenon DEF QInv, TypeOK, Queues
  <2> QED BY <2>1 DEF Contains, IsInjective, Range
<1> QED BY <1>1, AlwaysQInv, PTL

-----------------------------------------------------------------------------
(* The wait/wake handshake between task_exit and do_waitpid, proved for any
   number of CPUs and tasks: no wakeup is lost, and nobody waits for a
   child that will not come. *)

ExitPcs == {"x_check", "x_list", "x_wake", "dead"}
FreePcs == {"w_free", "w_free_ie"}

\* p has unlinked the corpse z and is about to free it.
Claims(p, z) == pc[p] \in FreePcs /\ arg[p] = z

\* zombie_list_lock is held across steps exactly by the task that is between
\* linking itself and waking its parent.
LockHolder == \A t \in PID : pc[t] = "x_wake" <=> zlock = t

\* A task is a ZOMBIE from its first step in task_exit on.
Dying == \A t \in PID : state[t] = "ZOMBIE" <=> pc[t] \in ExitPcs

\* A CPU stays on a task's stack until schedule() has switched, and an exiting
\* task calls schedule() only at the end of task_exit.
Stacks ==
  \A c \in CPU :
    /\ cpc[c] # "switch" => stack[c] = current[c]
    /\ stack[c] # Boot =>
         /\ home[stack[c]] = c
         /\ state[stack[c]] # "NEW"
         /\ cpc[c] \in {"sched", "switch"} /\ state[stack[c]] = "ZOMBIE"
              => pc[stack[c]] = "dead"

\* What is listed, in a reap slot or claimed has come to the end of task_exit.
Corpses ==
  /\ \A z \in PID : Contains(zombies, z) => pc[z] \in {"x_wake", "dead"}
  /\ \A c \in CPU : pending_reap[c] # NULL => pc[pending_reap[c]] = "dead"
  /\ \A p \in PID : pc[p] \in FreePcs =>
       arg[p] \in PID /\ parent[arg[p]] = p /\ pc[arg[p]] = "dead"

\* A task being spawned has no parent yet, and one spawner.
Spawned ==
  \A t \in PID : pc[t] = "sp_parent" =>
    /\ arg[t] \in PID /\ parent[arg[t]] = NULL /\ state[arg[t]] # "NEW"
    /\ \A u \in PID : pc[u] = "sp_parent" /\ arg[u] = arg[t] => u = t

\* Between task_has_children and parking, the child that was found stays.
HasChild == \A p \in PID : pc[p] = "w_park" => TaskHasChildren(p, arg[p])

\* NoLostWakeup and ParkedHasChild, with the zombie list as a set.
Told ==
  \A p, z \in PID : Contains(zombies, z) /\ WaitsFor(p, z) => zlock = z

Expects(p, z) ==
  /\ WaitsFor(p, z)
  /\ StillToCome(z) \/ (pc[z] = "dead" /\ ~Contains(zombies, z))

Parked == \A p \in PID : state[p] = "BLOCKED" => \E z \in PID : Expects(p, z)

\* The inductive invariant, on top of that of the run queues.
Handshake ==
  LockHolder /\ Dying /\ Stacks /\ Corpses /\ Spawned /\ HasChild /\ Told /\ Parked

IInv == QInv /\ Handshake

-----------------------------------------------------------------------------
\* No pid is the number that stands for the bootstrap task and for NULL.
LEMMA PidNotNull == Boot = NULL /\ NULL \notin PID
BY DEF PID, Boot, NULL

\* The invariant holds when the kernel starts.
LEMMA InitIInv == Init => IInv
<1> SUFFICES ASSUME Init PROVE Handshake
  BY Zenon, InitQInv DEF IInv
<1>1. PICK h \in CPU :
        /\ life   = [t \in PID |-> IF t = 1 THEN "live" ELSE "unborn"]
        /\ state  = [t \in PID |-> IF t = 1 THEN "READY" ELSE "NEW"]
        /\ pc     = [t \in PID |-> "user"]
        /\ current = [c \in CPU |-> Boot] /\ stack = [c \in CPU |-> Boot]
        /\ pending_reap = [c \in CPU |-> NULL]
        /\ zombies = <<>> /\ zlock = NULL
  BY Zenon DEF Init
<1>2. \A z : ~Contains(zombies, z)
  BY <1>1 DEF Contains
<1>3. LockHolder /\ Dying
  BY Zenon, <1>1, PidNotNull DEF LockHolder, Dying, ExitPcs
<1>4. Stacks
  BY Zenon, <1>1 DEF Stacks
<1>5. Corpses
  BY Zenon, <1>1, <1>2 DEF Corpses, FreePcs
<1>6. Spawned /\ HasChild
  BY Zenon, <1>1 DEF Spawned, HasChild
<1>7. Told /\ Parked
  BY Zenon, <1>1, <1>2 DEF Told, Parked
<1> QED BY Zenon, <1>3, <1>4, <1>5, <1>6, <1>7 DEF Handshake

\* A task that executes is on one CPU only, its own, and on its own stack.
LEMMA RunningAlone ==
  ASSUME IInv, NEW c \in CPU, NEW t \in PID, Running(c, t)
  PROVE  /\ cpc[c] = "task" /\ current[c] = t /\ stack[c] = t /\ home[t] = c
         /\ state[t] \in {"RUNNING", "ZOMBIE"}
         /\ \A d \in CPU : current[d] = t \/ stack[d] = t => d = c
<1>1. cpc[c] = "task" /\ current[c] = t /\ t # Boot
  BY Zenon, PidNotNull DEF Running
<1>2. home[t] = c /\ state[t] \in {"RUNNING", "ZOMBIE"}
  BY Zenon, <1>1 DEF IInv, QInv, Placed
<1>3. stack[c] = t
  BY Zenon, <1>1 DEF IInv, Handshake, Stacks
<1>4. \A d \in CPU : current[d] = t \/ stack[d] = t => home[t] = d
  BY <1>1 DEF IInv, QInv, Placed, Handshake, Stacks
<1> QED BY Zenon, <1>1, <1>2, <1>3, <1>4

\* A step of a system call leaves every other CPU's stack as it is.
LEMMA CallStacks ==
  ASSUME IInv, NEW c \in CPU, NEW t \in PID, Running(c, t),
         UNCHANGED <<stack, current, home>>,
         \A u \in PID \ {t} : /\ pc'[u] = pc[u]
                              /\ state'[u] = "ZOMBIE" => state[u] = "ZOMBIE",
         \A u \in PID : state'[u] = "NEW" => state[u] = "NEW",
         \A d \in CPU \ {c} : cpc'[d] = cpc[d],
         \/ cpc'[c] \in {"task", "halted"}
         \/ cpc'[c] = "sched" /\ (state'[t] = "ZOMBIE" => pc'[t] = "dead")
  PROVE  Stacks'
<1> SUFFICES ASSUME NEW d \in CPU
             PROVE  /\ cpc'[d] # "switch" => stack[d] = current[d]
                    /\ stack[d] # Boot =>
                         /\ home[stack[d]] = d
                         /\ state'[stack[d]] # "NEW"
                         /\ cpc'[d] \in {"sched", "switch"} /\ state'[stack[d]] = "ZOMBIE"
                              => pc'[stack[d]] = "dead"
  BY Zenon DEF Stacks
<1>1. /\ cpc[d] # "switch" => stack[d] = current[d]
      /\ stack[d] # Boot =>
           /\ home[stack[d]] = d
           /\ state[stack[d]] # "NEW"
           /\ cpc[d] \in {"sched", "switch"} /\ state[stack[d]] = "ZOMBIE"
                => pc[stack[d]] = "dead"
  BY Zenon DEF IInv, Handshake, Stacks
<1>2. stack[d] \in PID \cup {Boot}
  BY Zenon DEF IInv, QInv, TypeOK
<1>3. stack[d] = t <=> d = c
  BY RunningAlone
<1>4. CASE d = c
  <2>1. cpc[c] = "task" /\ t # Boot
    BY Zenon, RunningAlone, PidNotNull
  <2> QED BY Zenon, <1>1, <1>3, <1>4, <2>1
<1>5. CASE d # c
  BY Zenon, <1>1, <1>2, <1>3, <1>5
<1> QED BY Zenon, <1>4, <1>5

\* The steps of schedule() and of the timer move no task inside its system
\* call, wake and park nobody, and free only corpses that no parent waits for.
LEMMA SchedulerKeeps ==
  ASSUME IInv, UNCHANGED <<pc, arg, parent, wait_target, zombies, zlock>>,
         \A u \in PID : \/ state'[u] = state[u]
                        \/ {state[u], state'[u]} \subseteq {"READY", "RUNNING"},
         \A u \in PID : life'[u] = life[u] \/
           (pc[u] = "dead" /\ (parent[u] = NULL \/ state[parent[u]] = "ZOMBIE")),
         \A d \in CPU : \/ pending_reap'[d] \in {NULL, pending_reap[d]}
                        \/ pc[pending_reap'[d]] = "dead"
  PROVE  LockHolder' /\ Dying' /\ Corpses' /\ Spawned' /\ HasChild' /\ Told' /\ Parked'
<1> USE PidNotNull DEF IInv, Handshake
<1>1. \A u \in PID : \A s \in {"ZOMBIE", "BLOCKED", "NEW"} : state'[u] = s <=> state[u] = s
  BY Zenon
<1>2. LockHolder'
  BY Zenon DEF LockHolder
<1>3. Dying'
  BY Zenon, <1>1 DEF Dying
<1>4. Corpses'
  BY DEF Corpses
<1>5. Spawned'
  BY <1>1 DEF Spawned
<1>6. HasChild'
  <2> SUFFICES ASSUME NEW p \in PID, pc[p] = "w_park"
               PROVE  \E z \in PID : life'[z] = "live" /\ parent[z] = p /\ arg[p] \in {0, z}
    BY DEF HasChild, TaskHasChildren, TasksList
  <2>1. PICK z \in PID : life[z] = "live" /\ parent[z] = p /\ arg[p] \in {0, z}
    BY Zenon DEF HasChild, TaskHasChildren, TasksList
  <2>2. state[p] # "ZOMBIE"
    BY Zenon DEF Dying, ExitPcs
  <2> QED BY ZenonT(30), <2>1, <2>2
<1>7. Told'
  BY Zenon, <1>1 DEF Told, WaitsFor
<1>8. Parked'
  <2> SUFFICES ASSUME NEW p \in PID, state'[p] = "BLOCKED" PROVE \E z \in PID : Expects(p, z)'
    BY Zenon DEF Parked
  <2>1. PICK z \in PID : Expects(p, z)
    BY Zenon, <1>1 DEF Parked
  <2>2. Expects(p, z)'
    BY Zenon, <2>1, <1>1 DEF Expects, WaitsFor, StillToCome
  <2> QED BY Zenon, <2>2
<1> QED BY Zenon, <1>2, <1>3, <1>4, <1>5, <1>6, <1>7, <1>8

\* drain_pending_reap empties the slot and frees at most the corpse in it, and
\* that one only when it has no parent to wait for it.
LEMMA DrainEffect ==
  ASSUME IInv, NEW c \in CPU, DrainPendingReap(c)
  PROVE  /\ \A d \in CPU : pending_reap'[d] = IF d = c THEN NULL ELSE pending_reap[d]
         /\ \A u \in PID : \/ life'[u] = life[u]
                           \/ /\ u = pending_reap[c] /\ life'[u] = "freed" /\ pc[u] = "dead"
                              /\ parent[u] = NULL \/ state[parent[u]] = "ZOMBIE"
         /\ \A u \in PID : u = pending_reap[c] /\ parent[u] = NULL => life'[u] = "freed"
<1> USE PidNotNull DEF IInv, QInv
<1> DEFINE dead == pending_reap[c]
           keep == parent[dead] # NULL /\ state[parent[dead]] # "ZOMBIE"
<1>1. /\ pending_reap' = [pending_reap EXCEPT ![c] = NULL]
      /\ IF dead = NULL \/ keep THEN life' = life ELSE life' = [life EXCEPT ![dead] = "freed"]
  BY Zenon DEF DrainPendingReap, FreeDeadTask
<1>2. dead \in PID \cup {NULL} /\ (dead # NULL => pc[dead] = "dead")
  BY Zenon DEF TypeOK, Handshake, Corpses
<1>3. \A d \in CPU : pending_reap'[d] = IF d = c THEN NULL ELSE pending_reap[d]
  BY Zenon, <1>1 DEF TypeOK
<1>4. \A u \in PID : life'[u] = IF u = dead /\ ~keep THEN "freed" ELSE life[u]
  BY <1>1, <1>2 DEF TypeOK
<1> QED BY Zenon, <1>2, <1>3, <1>4

\* schedule() and the timer keep the handshake.
LEMMA ScheduleKeeps ==
  ASSUME IInv, NEW c \in CPU, Schedule(c) \/ Tick(c)
  PROVE  Handshake'
<1> USE PidNotNull DEF IInv
<1>0. /\ TypeOK /\ Stacks /\ stack[c] \in PID \cup {Boot} /\ current[c] \in PID \cup {Boot}
      /\ \A d \in CPU : stack[d] \in PID \cup {Boot}
  BY Zenon DEF QInv, TypeOK, Handshake
<1>1. CASE SchedulePick(c)
  <2> DEFINE prev == current[c]
             next == Head(rq[c])
  <2>1. /\ cpc[c] = "sched" /\ rq[c] # <<>> /\ DrainPendingReap(c)
        /\ current' = [current EXCEPT ![c] = next]
        /\ cpc' = [cpc EXCEPT ![c] = "switch"]
        /\ UNCHANGED <<parent, home, wait_target, pc, arg, stack, zombies, zlock>>
    BY Zenon, <1>1 DEF SchedulePick
  <2>2. next # Boot => next \in PID /\ state[next] = "READY"
    <3>1. rq[c] \in Seq(PID \cup {Boot}) /\ IsInjective(rq[c])
      BY ZenonT(30) DEF QInv, TypeOK, Queues
    <3>2. next \in PID \cup {Boot} /\ Contains(rq[c], next)
      BY Zenon, <2>1, <3>1, TailQueue
    <3> QED BY Zenon, <3>2 DEF QInv, Queues
  <2>3. \A u \in PID : \/ state'[u] = state[u]
                       \/ {state[u], state'[u]} \subseteq {"READY", "RUNNING"}
    <3>1. state' = LET st == IF WantsCpu(c) /\ prev # Boot
                             THEN [state EXCEPT ![prev] = "READY"] ELSE state
                   IN  IF next = Boot THEN st ELSE [st EXCEPT ![next] = "RUNNING"]
      BY Zenon, <1>1 DEF SchedulePick
    <3>2. WantsCpu(c) /\ prev # Boot => state[prev] = "RUNNING"
      BY Zenon DEF WantsCpu
    <3> HIDE DEF next, prev
    <3> QED BY Zenon, <1>0, <2>2, <3>1, <3>2 DEF TypeOK
  <2>4. Stacks'
    <3> HIDE DEF next
    <3> SUFFICES ASSUME NEW d \in CPU
                 PROVE  /\ cpc'[d] # "switch" => stack[d] = current'[d]
                        /\ stack[d] # Boot =>
                             /\ home[stack[d]] = d
                             /\ state'[stack[d]] # "NEW"
                             /\ cpc'[d] \in {"sched", "switch"} /\ state'[stack[d]] = "ZOMBIE"
                                  => pc[stack[d]] = "dead"
      BY Zenon, <2>1 DEF Stacks
    <3>1. /\ cpc'[d] = IF d = c THEN "switch" ELSE cpc[d]
          /\ current'[d] = IF d = c THEN next ELSE current[d]
      BY Zenon, <1>0, <2>1 DEF TypeOK
    <3> QED BY <1>0, <2>1, <2>3, <3>1 DEF Stacks
  <2>5. /\ \A u \in PID : life'[u] = life[u] \/
             (pc[u] = "dead" /\ (parent[u] = NULL \/ state[parent[u]] = "ZOMBIE"))
        /\ \A d \in CPU : pending_reap'[d] \in {NULL, pending_reap[d]}
    BY ZenonT(30), <2>1, DrainEffect
  <2> QED BY Zenon, <2>1, <2>3, <2>4, <2>5, SchedulerKeeps DEF Handshake
<1>2. CASE ScheduleKeep(c)
  <2>1. /\ cpc[c] = "sched" /\ DrainPendingReap(c) /\ cpc' = [cpc EXCEPT ![c] = "task"]
        /\ UNCHANGED <<state, parent, home, wait_target, pc, arg, current, stack, zombies, zlock>>
    BY Zenon, <1>2 DEF ScheduleKeep
  <2>2. \A d \in CPU : cpc'[d] = IF d = c THEN "task" ELSE cpc[d]
    BY Zenon, <1>0, <2>1 DEF TypeOK
  <2>3. Stacks'
    BY <1>0, <2>1, <2>2 DEF Stacks
  <2>4. /\ \A u \in PID : life'[u] = life[u] \/
             (pc[u] = "dead" /\ (parent[u] = NULL \/ state[parent[u]] = "ZOMBIE"))
        /\ \A d \in CPU : pending_reap'[d] \in {NULL, pending_reap[d]}
    BY ZenonT(30), <2>1, DrainEffect
  <2> QED BY Zenon, <2>1, <2>3, <2>4, SchedulerKeeps DEF Handshake
<1>3. CASE ContextSwitch(c)
  <2> DEFINE prev == stack[c]
  <2>1. /\ cpc[c] = "switch"
        /\ pending_reap' = IF prev # Boot /\ state[prev] = "ZOMBIE" /\ parent[prev] = NULL
                           THEN [pending_reap EXCEPT ![c] = prev] ELSE pending_reap
        /\ stack' = [stack EXCEPT ![c] = current[c]]
        /\ cpc' = [cpc EXCEPT ![c] = "task"]
        /\ UNCHANGED <<life, state, parent, home, wait_target, pc, arg, current, zombies, zlock>>
    BY Zenon, <1>3 DEF ContextSwitch, taskVars
  <2>2. \A d \in CPU : /\ cpc'[d] = IF d = c THEN "task" ELSE cpc[d]
                       /\ stack'[d] = IF d = c THEN current[c] ELSE stack[d]
    BY Zenon, <1>0, <2>1 DEF TypeOK
  <2>3. Stacks'
    BY <1>0, <2>1, <2>2 DEF Stacks, QInv, Placed
  <2>4. \A d \in CPU : \/ pending_reap'[d] \in {NULL, pending_reap[d]}
                       \/ pc[pending_reap'[d]] = "dead"
    BY <1>0, <2>1 DEF Stacks, TypeOK
  <2> QED BY Zenon, <2>1, <2>3, <2>4, SchedulerKeeps DEF Handshake
<1>4. CASE Tick(c)
  <2>1. /\ cpc[c] = "task" /\ cpc' = [cpc EXCEPT ![c] = "sched"]
        /\ current[c] # Boot => pc[current[c]] \in {"user", "w_free_ie"}
        /\ UNCHANGED <<life, state, parent, home, wait_target, pc, arg, current, pending_reap,
                       stack, zombies, zlock>>
    BY Zenon, <1>4 DEF Tick, taskVars
  <2>2. \A d \in CPU : cpc'[d] = IF d = c THEN "sched" ELSE cpc[d]
    BY ZenonT(30), <1>0, <2>1 DEF TypeOK
  <2>3. current[c] # Boot => state[current[c]] # "ZOMBIE"
    BY ZenonT(30), <1>0, <2>1 DEF Handshake, Dying, ExitPcs
  <2>4. Stacks'
    BY <1>0, <2>1, <2>2, <2>3 DEF Stacks
  <2> QED BY Zenon, <2>1, <2>4, SchedulerKeeps DEF Handshake
<1> QED BY Zenon, <1>1, <1>2, <1>3, <1>4 DEF Schedule

\* Creating a task keeps the handshake: its pid is that of no zombie, of nobody's
\* child and of no task a CPU is on.
LEMMA CreateKeeps ==
  ASSUME IInv, NEW c \in CPU, NEW t \in PID, DoFork(c, t) \/ SpawnCreate(c, t)
  PROVE  Handshake'
<1> USE PidNotNull DEF IInv, Handshake
<1>0. Running(c, t) /\ pc[t] = "user"
  BY Zenon DEF DoFork, SpawnCreate
<1>1. PICK n \in PID :
        /\ NextPid(n)
        /\ \/ CreateTask(n, t) /\ UNCHANGED <<pc, arg>>
           \/ /\ CreateTask(n, NULL)
              /\ arg' = [arg EXCEPT ![t] = n] /\ pc' = [pc EXCEPT ![t] = "sp_parent"]
  BY Zenon DEF DoFork, SpawnCreate
<1>2. UNCHANGED <<wait_target, current, pending_reap, cpc, stack, zombies, zlock>>
  BY Zenon DEF DoFork, SpawnCreate
<1>3. state[n] = "NEW" /\ life[n] = "unborn" /\ n # t /\ pc[n] \notin ExitPcs
  <2>1. state[n] = "NEW" /\ life[n] = "unborn"
    BY Zenon, <1>1 DEF NextPid, QInv, Unborn
  <2>2. state[t] \in {"RUNNING", "ZOMBIE"}
    BY Zenon, <1>0, RunningAlone
  <2> QED BY Zenon, <2>1, <2>2 DEF Dying
<1>4. \A u \in PID : /\ state'[u] = IF u = n THEN "READY" ELSE state[u]
                     /\ life'[u] = IF u = n THEN "live" ELSE life[u]
                     /\ u # n => parent'[u] = parent[u] /\ home'[u] = home[u]
  BY Zenon, <1>1 DEF CreateTask, QInv, TypeOK
<1>5. \/ UNCHANGED <<pc, arg>>
      \/ /\ parent'[n] = NULL
         /\ \A u \in PID : /\ pc'[u] = IF u = t THEN "sp_parent" ELSE pc[u]
                           /\ arg'[u] = IF u = t THEN n ELSE arg[u]
  BY Zenon, <1>1 DEF CreateTask, QInv, TypeOK
<1>6. \A u \in PID : pc[u] # "user" => pc'[u] = pc[u] /\ arg'[u] = arg[u]
  BY Zenon, <1>0, <1>5
<1>7. \A u \in PID : pc'[u] = pc[u] \/ (pc[u] = "user" /\ pc'[u] = "sp_parent" /\ u = t)
  BY Zenon, <1>0, <1>5
<1>8. LockHolder'
  BY Zenon, <1>2, <1>6, <1>7 DEF LockHolder
<1>9. Dying'
  BY ZenonT(30), <1>3, <1>4, <1>7 DEF Dying, ExitPcs
<1>10. Stacks'
  <2>1. \A d \in CPU : stack[d] \in PID \cup {Boot} /\ stack[d] # n
    BY SMTT(30), <1>3 DEF QInv, TypeOK, Stacks
  <2> QED BY <1>2, <1>4, <1>6, <2>1 DEF Stacks
<1>11. Corpses'
  <2>1. \A z \in PID : Contains(zombies, z) => pc'[z] \in {"x_wake", "dead"}
    BY Zenon, <1>6 DEF Corpses
  <2>2. \A d \in CPU : pending_reap[d] # NULL => pc'[pending_reap[d]] = "dead"
    <3>1. \A d \in CPU : pending_reap[d] \in PID \cup {NULL}
      BY Zenon DEF QInv, TypeOK
    <3> QED BY <1>6, <3>1 DEF Corpses
  <2>3. \A p \in PID : pc'[p] \in FreePcs =>
          arg'[p] \in PID /\ parent'[arg'[p]] = p /\ pc'[arg'[p]] = "dead"
    BY <1>3, <1>4, <1>6, <1>7 DEF Corpses, FreePcs, ExitPcs
  <2> QED BY Zenon, <1>2, <2>1, <2>2, <2>3 DEF Corpses
<1>12. Spawned'
  <2>1. \A u \in PID : pc[u] = "sp_parent" => arg[u] \in PID /\ arg[u] # n
    BY Zenon, <1>3 DEF Spawned
  <2>2. CASE UNCHANGED <<pc, arg>>
    BY <1>4, <2>1, <2>2 DEF Spawned
  <2>3. CASE /\ parent'[n] = NULL
             /\ \A u \in PID : /\ pc'[u] = IF u = t THEN "sp_parent" ELSE pc[u]
                               /\ arg'[u] = IF u = t THEN n ELSE arg[u]
    BY <1>4, <2>1, <2>3 DEF Spawned
  <2> QED BY Zenon, <1>5, <2>2, <2>3
<1>13. HasChild'
  <2> SUFFICES ASSUME NEW p \in PID, pc'[p] = "w_park"
               PROVE  \E z \in PID : life'[z] = "live" /\ parent'[z] = p /\ arg'[p] \in {0, z}
    BY Zenon DEF HasChild, TaskHasChildren, TasksList
  <2>1. pc[p] = "w_park" /\ arg'[p] = arg[p]
    BY Zenon, <1>6, <1>7
  <2>2. PICK z \in PID : life[z] = "live" /\ parent[z] = p /\ arg[p] \in {0, z}
    BY Zenon, <2>1 DEF HasChild, TaskHasChildren, TasksList
  <2> QED BY Zenon, <1>3, <1>4, <2>1, <2>2
<1>14. Told'
  <2>1. \A z \in PID : Contains(zombies, z) => z # n
    BY Zenon, <1>3 DEF Corpses, ExitPcs
  <2> QED BY Zenon, <1>2, <1>4, <2>1 DEF Told, WaitsFor
<1>15. Parked'
  <2> SUFFICES ASSUME NEW p \in PID, state'[p] = "BLOCKED" PROVE \E z \in PID : Expects(p, z)'
    BY Zenon DEF Parked
  <2>1. PICK z \in PID : Expects(p, z)
    BY Zenon, <1>4 DEF Parked
  <2>2. z # n
    BY Zenon, <1>3, <2>1 DEF Expects, StillToCome, ExitPcs
  <2>3. Expects(p, z)'
    BY Zenon, <1>2, <1>4, <1>6, <1>7, <2>1, <2>2 DEF Expects, WaitsFor, StillToCome
  <2> QED BY Zenon, <2>3
<1> QED BY Zenon, <1>8, <1>9, <1>10, <1>11, <1>12, <1>13, <1>14, <1>15

\* SpawnHandler's late store of the parent keeps the handshake: the child had
\* none, and the new parent is running, so it is not waiting for anybody.
LEMMA SetParentKeeps ==
  ASSUME IInv, NEW c \in CPU, NEW t \in PID, SpawnSetParent(c, t)
  PROVE  Handshake'
<1> USE PidNotNull DEF IInv, Handshake
<1> DEFINE n == arg[t]
<1>1. /\ Running(c, t) /\ pc[t] = "sp_parent"
      /\ parent' = [parent EXCEPT ![n] = t] /\ pc' = [pc EXCEPT ![t] = "user"]
      /\ UNCHANGED <<life, state, home, wait_target, arg, current, pending_reap, cpc, stack,
                     zombies, zlock>>
  BY Zenon DEF SpawnSetParent, Return, cpuVars
<1>2. n \in PID /\ parent[n] = NULL
  BY Zenon, <1>1 DEF Spawned
<1> HIDE DEF n
<1>3. \A u \in PID : /\ parent'[u] = IF u = n THEN t ELSE parent[u]
                     /\ pc'[u] = IF u = t THEN "user" ELSE pc[u]
  BY Zenon, <1>1, <1>2 DEF QInv, TypeOK
<1>4. /\ state[t] \in {"RUNNING", "ZOMBIE"} /\ cpc[c] = "task"
      /\ \A d \in CPU : stack[d] = t => d = c
  BY <1>1, RunningAlone
<1>5. LockHolder' /\ Dying'
  BY <1>1, <1>3 DEF LockHolder, Dying, ExitPcs
<1>6. Stacks'
  BY Zenon, <1>1, <1>3, <1>4, CallStacks
<1>7. Corpses'
  <2>1. \A z \in PID : Contains(zombies, z) => pc'[z] \in {"x_wake", "dead"}
    BY <1>1, <1>3 DEF Corpses
  <2>2. \A d \in CPU : pending_reap[d] # NULL => pc'[pending_reap[d]] = "dead"
    BY SMTT(30), <1>1, <1>3 DEF Corpses, QInv, TypeOK
  <2>3. \A p \in PID : pc'[p] \in FreePcs =>
          arg[p] \in PID /\ parent'[arg[p]] = p /\ pc'[arg[p]] = "dead"
    BY <1>1, <1>2, <1>3 DEF Corpses, FreePcs
  <2> QED BY <1>1, <2>1, <2>2, <2>3 DEF Corpses
<1>8. Spawned'
  BY <1>1, <1>3 DEF Spawned, n
<1>9. HasChild'
  BY <1>1, <1>2, <1>3 DEF HasChild, TaskHasChildren, TasksList
<1>10. Told'
  BY <1>1, <1>3, <1>4 DEF Told, WaitsFor
<1>11. Parked'
  <2> SUFFICES ASSUME NEW p \in PID, state[p] = "BLOCKED" PROVE \E z \in PID : Expects(p, z)'
    BY Zenon, <1>1 DEF Parked
  <2>1. PICK z \in PID : Expects(p, z)
    BY Zenon DEF Parked
  <2>2. Expects(p, z)'
    BY <1>1, <1>2, <1>3, <2>1 DEF Expects, WaitsFor, StillToCome
  <2> QED BY Zenon, <2>2
<1> QED BY Zenon, <1>5, <1>6, <1>7, <1>8, <1>9, <1>10, <1>11

-----------------------------------------------------------------------------
\* A claim takes a child's corpse off the list and remembers it.
LEMMA ClaimTakes ==
  ASSUME TypeOK, NEW t \in PID, NEW q, Claim(t, q)
  PROVE  \E z \in PID :
           /\ Contains(zombies, z) /\ parent[z] = t
           /\ \A u \in PID : /\ arg'[u] = IF u = t THEN z ELSE arg[u]
                             /\ pc'[u] = IF u = t THEN q ELSE pc[u]
           /\ \A y \in PID : Contains(zombies', y) => Contains(zombies, y)
           /\ IsInjective(zombies) =>
                /\ IsInjective(zombies')
                /\ \A y \in PID : Contains(zombies', y) <=> Contains(zombies, y) /\ y # z
<1>1. PICK i \in DOMAIN zombies :
        /\ FirstZombie(t, arg[t], i)
        /\ zombies' = Unlinked(zombies, i)
        /\ arg' = [arg EXCEPT ![t] = zombies[i]]
        /\ pc'  = [pc EXCEPT ![t] = q]
  BY Zenon DEF Claim
<1>2. zombies \in Seq(PID) /\ DOMAIN zombies = 1 .. Len(zombies) /\ zombies[i] \in PID
  BY DEF TypeOK
<1>3. Contains(zombies, zombies[i]) /\ parent[zombies[i]] = t
  BY Zenon, <1>1, <1>2 DEF Contains, FirstZombie, ZombieMatches
<1>4. \A u \in PID : /\ arg'[u] = IF u = t THEN zombies[i] ELSE arg[u]
                     /\ pc'[u] = IF u = t THEN q ELSE pc[u]
  BY Zenon, <1>1 DEF TypeOK
<1>5. \A y \in PID : Contains(zombies', y) => Contains(zombies, y)
  BY Zenon, <1>1, <1>2, UnlinkedQueue
<1>6. IsInjective(zombies) =>
        /\ IsInjective(zombies')
        /\ \A y \in PID : Contains(zombies', y) <=> Contains(zombies, y) /\ y # zombies[i]
  BY Zenon, <1>1, <1>2, UnlinkedQueue
<1> QED BY Zenon, <1>2, <1>3, <1>4, <1>5, <1>6

\* When no listed zombie matches, none of the caller's children it waits for is
\* on the list.
LEMMA NoMatch ==
  ASSUME NEW t, NEW a, ZombieMatches(t, a) = {}, TypeOK
  PROVE  \A z \in PID : Contains(zombies, z) /\ parent[z] = t => a \notin {0, z}
<1>1. DOMAIN zombies = 1 .. Len(zombies)
  BY DEF TypeOK
<1> QED BY Zenon, <1>1 DEF ZombieMatches, Contains

\* The steps of do_waitpid that neither claim nor park: entry, finding nothing
\* listed, looking for children, and freeing the child that was claimed.
LEMMA WaitMoveKeeps ==
  ASSUME IInv, NEW c \in CPU, NEW t \in PID, Running(c, t),
         pc[t] \notin ExitPcs, pc[t] # "sp_parent",
         NEW q \in {"user", "w_take", "w_has", "w_park"},
         \A u \in PID : pc'[u] = IF u = t THEN q ELSE pc[u],
         \A u \in PID \ {t} : arg'[u] = arg[u],
         \A u \in PID : life'[u] = life[u] \/ (pc[u] = "dead" /\ parent[u] = t),
         UNCHANGED <<state, parent, home, wait_target, current, pending_reap, cpc, stack,
                     zombies, zlock>>,
         q = "w_park" => TaskHasChildren(t, arg[t])'
  PROVE  Handshake'
<1> USE PidNotNull DEF IInv, Handshake
<1>1. cpc[c] = "task"
  BY Zenon, RunningAlone
<1>2. LockHolder' /\ Dying'
  BY DEF LockHolder, Dying, ExitPcs
<1>3. Stacks'
  BY Zenon, <1>1, CallStacks
<1>4. Corpses'
  <2>1. \A z \in PID : pc[z] \in ExitPcs => pc'[z] = pc[z]
    BY Zenon
  <2>2. \A d \in CPU : pending_reap[d] \in PID \cup {NULL}
    BY Zenon DEF QInv, TypeOK
  <2> QED BY <2>1, <2>2 DEF Corpses, FreePcs, ExitPcs
<1>5. Spawned'
  BY DEF Spawned
<1>6. HasChild'
  <2> SUFFICES ASSUME NEW p \in PID \ {t}, pc[p] = "w_park"
               PROVE  \E z \in PID : life'[z] = "live" /\ parent[z] = p /\ arg[p] \in {0, z}
    BY DEF HasChild, TaskHasChildren, TasksList
  <2>1. PICK z \in PID : life[z] = "live" /\ parent[z] = p /\ arg[p] \in {0, z}
    BY Zenon DEF HasChild, TaskHasChildren, TasksList
  <2> QED BY Zenon, <2>1
<1>7. Told'
  BY Zenon DEF Told, WaitsFor
<1>8. Parked'
  <2> SUFFICES ASSUME NEW p \in PID, state[p] = "BLOCKED" PROVE \E z \in PID : Expects(p, z)'
    BY Zenon DEF Parked
  <2>1. PICK z \in PID : Expects(p, z)
    BY Zenon DEF Parked
  <2>2. Expects(p, z)'
    BY Zenon, <2>1 DEF Expects, WaitsFor, StillToCome, ExitPcs
  <2> QED BY Zenon, <2>2
<1> QED BY Zenon, <1>2, <1>3, <1>4, <1>5, <1>6, <1>7, <1>8

\* Claiming a zombie under the lock: it is a child of the caller, and has left
\* task_exit's critical section.
LEMMA ClaimKeeps ==
  ASSUME IInv, NEW c \in CPU, NEW t \in PID, Running(c, t),
         pc[t] \in {"w_take", "w_park"}, zlock = NULL,
         NEW q \in FreePcs, Claim(t, q),
         UNCHANGED <<life, state, parent, home, wait_target, current, pending_reap, cpc,
                     stack, zlock>>
  PROVE  Handshake'
<1> USE PidNotNull DEF IInv, Handshake
<1>1. TypeOK /\ cpc[c] = "task"
  BY ZenonT(30), RunningAlone DEF QInv
<1>2. PICK z \in PID :
        /\ Contains(zombies, z) /\ parent[z] = t
        /\ \A u \in PID : /\ arg'[u] = IF u = t THEN z ELSE arg[u]
                          /\ pc'[u] = IF u = t THEN q ELSE pc[u]
        /\ \A y \in PID : Contains(zombies', y) => Contains(zombies, y)
  BY SMTT(30), <1>1, ClaimTakes
<1>3. pc[z] = "dead"
  BY ZenonT(30), <1>2 DEF Corpses, LockHolder
<1>4. LockHolder' /\ Dying'
  BY Zenon, <1>2 DEF LockHolder, Dying, ExitPcs, FreePcs
<1>5. Stacks'
  BY Zenon, <1>1, <1>2, CallStacks
<1>6. Corpses'
  <2>1. \A u \in PID : pc[u] \in ExitPcs => pc'[u] = pc[u]
    BY Zenon, <1>2 DEF ExitPcs
  <2>2. \A d \in CPU : pending_reap[d] \in PID \cup {NULL}
    BY Zenon DEF QInv, TypeOK
  <2>3. \A u \in PID : Contains(zombies', u) => pc'[u] \in {"x_wake", "dead"}
    BY Zenon, <1>2, <2>1 DEF Corpses, ExitPcs
  <2>4. \A d \in CPU : pending_reap'[d] # NULL => pc'[pending_reap'[d]] = "dead"
    BY ZenonT(30), <2>1, <2>2 DEF Corpses, ExitPcs
  <2>5. \A p \in PID : pc'[p] \in FreePcs =>
          arg'[p] \in PID /\ parent'[arg'[p]] = p /\ pc'[arg'[p]] = "dead"
    BY <1>2, <1>3, <2>1 DEF Corpses, ExitPcs
  <2> QED BY Zenon, <2>3, <2>4, <2>5 DEF Corpses
<1>7. Spawned'
  BY <1>2 DEF Spawned, FreePcs
<1>8. HasChild'
  BY <1>2 DEF HasChild, TaskHasChildren, TasksList, FreePcs
<1>9. Told'
  BY Zenon, <1>2 DEF Told, WaitsFor
<1>10. Parked'
  <2> SUFFICES ASSUME NEW p \in PID, state[p] = "BLOCKED" PROVE \E y \in PID : Expects(p, y)'
    BY Zenon DEF Parked
  <2>1. PICK y \in PID : Expects(p, y)
    BY Zenon DEF Parked
  <2>2. Expects(p, y)'
    BY Zenon, <1>2, <2>1 DEF Expects, WaitsFor, StillToCome, FreePcs
  <2> QED BY Zenon, <2>2
<1> QED BY Zenon, <1>4, <1>5, <1>6, <1>7, <1>8, <1>9, <1>10

\* Parking under the lock with nothing listed: the child that was found is still
\* there and not on the list, so either its exit is still to come or it ended
\* before its parent was set.
LEMMA ParkKeeps ==
  ASSUME IInv, NEW c \in CPU, NEW t \in PID, Running(c, t), pc[t] = "w_park",
         ZombieMatches(t, arg[t]) = {},
         wait_target' = [wait_target EXCEPT ![t] = arg[t]],
         state' = [state EXCEPT ![t] = "BLOCKED"],
         pc' = [pc EXCEPT ![t] = "w_take"],
         cpc' = [cpc EXCEPT ![c] = "sched"],
         UNCHANGED <<life, parent, home, arg, current, pending_reap, stack, zombies, zlock>>
  PROVE  Handshake'
<1> USE PidNotNull DEF IInv, Handshake
<1>1. /\ \A u \in PID : /\ wait_target'[u] = IF u = t THEN arg[t] ELSE wait_target[u]
                        /\ state'[u] = IF u = t THEN "BLOCKED" ELSE state[u]
                        /\ pc'[u] = IF u = t THEN "w_take" ELSE pc[u]
      /\ \A d \in CPU : cpc'[d] = IF d = c THEN "sched" ELSE cpc[d]
  BY Zenon DEF QInv, TypeOK
<1>2. state[t] # "NEW" /\ state[t] # "BLOCKED"
  BY ZenonT(30), RunningAlone
<1>3. \A z \in PID : Contains(zombies, z) /\ parent[z] = t => arg[t] \notin {0, z}
  BY Zenon, NoMatch DEF QInv
<1>4. LockHolder' /\ Dying'
  BY <1>1 DEF LockHolder, Dying, ExitPcs
<1>5. Stacks'
  BY SMTT(30), <1>1, CallStacks
<1>6. Corpses'
  <2>1. \A u \in PID : pc[u] \in ExitPcs => pc'[u] = pc[u]
    BY ZenonT(30), <1>1 DEF ExitPcs
  <2>2. \A d \in CPU : pending_reap[d] \in PID \cup {NULL}
    BY Zenon DEF QInv, TypeOK
  <2> QED BY <1>1, <2>1, <2>2 DEF Corpses, FreePcs, ExitPcs
<1>7. Spawned'
  BY <1>1 DEF Spawned
<1>8. HasChild'
  BY <1>1 DEF HasChild, TaskHasChildren, TasksList
<1>9. Told'
  BY <1>1, <1>3 DEF Told, WaitsFor
<1>10. Parked'
  <2> SUFFICES ASSUME NEW p \in PID, state'[p] = "BLOCKED" PROVE \E z \in PID : Expects(p, z)'
    BY Zenon DEF Parked
  <2>1. CASE p = t
    <3>1. PICK z \in PID : life[z] = "live" /\ parent[z] = t /\ arg[t] \in {0, z}
      BY Zenon DEF HasChild, TaskHasChildren, TasksList
    <3>2. Expects(t, z)'
      BY <1>1, <1>3, <3>1 DEF Expects, WaitsFor, StillToCome
    <3> QED BY Zenon, <2>1, <3>2
  <2>2. CASE p # t
    <3>1. PICK z \in PID : Expects(p, z)
      BY Zenon, <1>1, <2>2 DEF Parked
    <3>2. Expects(p, z)'
      BY <1>1, <2>2, <3>1 DEF Expects, WaitsFor, StillToCome
    <3> QED BY Zenon, <3>2
  <2> QED BY Zenon, <2>1, <2>2
<1> QED BY Zenon, <1>4, <1>5, <1>6, <1>7, <1>8, <1>9, <1>10

\* do_waitpid keeps the handshake.
LEMMA WaitKeeps ==
  ASSUME IInv, NEW c \in CPU, NEW t \in PID, Wait(c, t)
  PROVE  Handshake'
<1> USE DEF cpuVars
<1>0. TypeOK
  BY ZenonT(30) DEF IInv, QInv
<1>1. ASSUME NEW target \in 0 .. MaxPid, WaitEnter(c, t, target) PROVE Handshake'
  <2>1. /\ \A u \in PID : pc'[u] = IF u = t THEN "w_take" ELSE pc[u]
        /\ \A u \in PID \ {t} : arg'[u] = arg[u]
    BY Zenon, <1>0, <1>1 DEF WaitEnter, TypeOK
  <2> QED BY <1>1, <2>1, WaitMoveKeeps DEF WaitEnter, ExitPcs
<1>2. CASE WaitTake(c, t)
  <2>1. CASE Claim(t, "w_free")
    BY Zenon, <1>2, <2>1, ClaimKeeps DEF WaitTake, FreePcs
  <2>2. CASE pc' = [pc EXCEPT ![t] = "w_has"] /\ UNCHANGED <<zombies, arg>>
    <3>1. \A u \in PID : pc'[u] = IF u = t THEN "w_has" ELSE pc[u]
      BY Zenon, <1>0, <2>2 DEF TypeOK
    <3> QED BY ZenonT(30), <1>2, <2>2, <3>1, WaitMoveKeeps DEF WaitTake, ExitPcs
  <2> QED BY Zenon, <1>2, <2>1, <2>2 DEF WaitTake
<1>3. CASE WaitHasChildren(c, t)
  <2> DEFINE q == IF TaskHasChildren(t, arg[t]) THEN "w_park" ELSE "user"
  <2>1. \A u \in PID : pc'[u] = IF u = t THEN q ELSE pc[u]
    BY Zenon, <1>0, <1>3 DEF WaitHasChildren, TypeOK
  <2>2. q = "w_park" => TaskHasChildren(t, arg[t])'
    BY Zenon, <1>3 DEF WaitHasChildren, TaskHasChildren, TasksList
  <2>3. q \in {"user", "w_park"}
    BY Zenon
  <2> HIDE DEF q
  <2> QED BY <1>3, <2>1, <2>2, <2>3, WaitMoveKeeps DEF WaitHasChildren, ExitPcs
<1>4. CASE WaitPark(c, t)
  <2>1. CASE ZombieMatches(t, arg[t]) # {}
    BY Zenon, <1>4, <2>1, ClaimKeeps DEF WaitPark, FreePcs
  <2>2. CASE ZombieMatches(t, arg[t]) = {}
    BY Zenon, <1>4, <2>2, ParkKeeps DEF WaitPark
  <2> QED BY Zenon, <2>1, <2>2
<1>5. CASE WaitFree(c, t)
  <2>1. arg[t] \in PID /\ pc[arg[t]] = "dead" /\ parent[arg[t]] = t
    BY Zenon, <1>5 DEF WaitFree, IInv, Handshake, Corpses, FreePcs
  <2>2. /\ \A u \in PID : pc'[u] = IF u = t THEN "user" ELSE pc[u]
        /\ \A u \in PID : life'[u] = IF u = arg[t] THEN "freed" ELSE life[u]
    BY Zenon, <1>0, <1>5, <2>1 DEF WaitFree, Return, FreeDeadTask, TypeOK
  <2> QED BY Zenon, <1>5, <2>1, <2>2, WaitMoveKeeps DEF WaitFree, ExitPcs
<1> QED BY Zenon, <1>1, <1>2, <1>3, <1>4, <1>5 DEF Wait

-----------------------------------------------------------------------------
\* Becoming a ZOMBIE and detaching the children: nobody parked has this running
\* task for a parent, because it is itself the parent and not parked.
LEMMA DetachKeeps ==
  ASSUME IInv, NEW c \in CPU, NEW t \in PID, ExitDetach(c, t)
  PROVE  Handshake'
<1> USE PidNotNull DEF IInv, Handshake
<1>1. /\ Running(c, t) /\ pc[t] = "user"
      /\ UNCHANGED <<life, home, wait_target, arg, current, pending_reap, cpc, stack, zombies,
                     zlock>>
  BY Zenon DEF ExitDetach, cpuVars
<1>2. \A u \in PID :
        /\ parent'[u] = IF life[u] = "live" /\ parent[u] = t THEN NULL ELSE parent[u]
        /\ state'[u] = IF u = t THEN "ZOMBIE" ELSE state[u]
        /\ pc'[u] = IF u = t THEN "x_check" ELSE pc[u]
  BY Zenon DEF ExitDetach, TasksList, QInv, TypeOK
<1>3. cpc[c] = "task" /\ state[t] \in {"RUNNING", "ZOMBIE"}
  BY Zenon, <1>1, RunningAlone
<1>4. LockHolder' /\ Dying'
  BY ZenonT(30), <1>1, <1>2 DEF LockHolder, Dying, ExitPcs
<1>5. Stacks'
  BY Zenon, <1>1, <1>2, <1>3, CallStacks
<1>6. Corpses'
  <2>1. \A u \in PID : pc[u] = "x_wake" \/ pc[u] = "dead" => pc'[u] = pc[u]
    BY Zenon, <1>1, <1>2
  <2>2. \A d \in CPU : pending_reap[d] \in PID \cup {NULL}
    BY ZenonT(30) DEF QInv, TypeOK
  <2>3. \A p \in PID : pc'[p] \in FreePcs =>
          arg[p] \in PID /\ parent'[arg[p]] = p /\ pc'[arg[p]] = "dead"
    BY SMTT(60), <1>1, <1>2, <2>1 DEF Corpses, FreePcs
  <2> QED BY <1>1, <2>1, <2>2, <2>3 DEF Corpses
<1>7. Spawned'
  BY <1>1, <1>2 DEF Spawned
<1>8. HasChild'
  BY <1>1, <1>2 DEF HasChild, TaskHasChildren, TasksList
<1>9. Told'
  BY ZenonT(30), <1>1, <1>2 DEF Told, WaitsFor
<1>10. Parked'
  <2> SUFFICES ASSUME NEW p \in PID, state'[p] = "BLOCKED" PROVE \E z \in PID : Expects(p, z)'
    BY Zenon DEF Parked
  <2>1. PICK z \in PID : Expects(p, z)
    BY Zenon, <1>2 DEF Parked
  <2>2. p # t
    BY Zenon, <1>2
  <2>3. Expects(p, z)'
    BY Zenon, <1>1, <1>2, <2>1, <2>2 DEF Expects, WaitsFor, StillToCome
  <2> QED BY Zenon, <2>3
<1> QED BY Zenon, <1>4, <1>5, <1>6, <1>7, <1>8, <1>9, <1>10

\* The test for a live parent: a parked parent is alive, so its child goes on
\* to the zombie list.
LEMMA CheckKeeps ==
  ASSUME IInv, NEW c \in CPU, NEW t \in PID, ExitCheckParent(c, t)
  PROVE  Handshake'
<1> USE PidNotNull DEF IInv, Handshake
<1> DEFINE alive == parent[t] # NULL /\ state[parent[t]] # "ZOMBIE"
<1>1. /\ Running(c, t) /\ pc[t] = "x_check"
      /\ UNCHANGED <<life, state, parent, home, wait_target, arg, current, pending_reap, stack,
                     zombies, zlock>>
  BY Zenon DEF ExitCheckParent
<1>2. /\ \A u \in PID : pc'[u] = IF u # t THEN pc[u] ELSE IF alive THEN "x_list" ELSE "dead"
      /\ \A d \in CPU : cpc'[d] = IF d = c /\ ~alive THEN "sched" ELSE cpc[d]
  BY SMTT(60) DEF ExitCheckParent, QInv, TypeOK
<1>3. cpc[c] = "task"
  BY Zenon, <1>1, RunningAlone
<1>4. \A p \in PID : state[p] = "BLOCKED" /\ parent[t] = p => alive
  BY Zenon
<1> HIDE DEF alive
<1>5. LockHolder' /\ Dying'
  BY Zenon, <1>1, <1>2 DEF LockHolder, Dying, ExitPcs
<1>6. Stacks'
  BY Zenon, <1>1, <1>2, <1>3, CallStacks
<1>7. Corpses'
  <2>1. \A u \in PID : pc[u] = "x_wake" \/ pc[u] = "dead" => pc'[u] = pc[u]
    BY Zenon, <1>1, <1>2
  <2>2. \A d \in CPU : pending_reap[d] \in PID \cup {NULL}
    BY Zenon DEF QInv, TypeOK
  <2>3. \A p \in PID : pc'[p] \in FreePcs =>
          arg[p] \in PID /\ parent[arg[p]] = p /\ pc'[arg[p]] = "dead"
    BY SMTT(60), <1>1, <1>2, <2>1 DEF Corpses, FreePcs
  <2> QED BY SMTT(60), <1>1, <2>1, <2>2, <2>3 DEF Corpses
<1>8. Spawned'
  BY <1>1, <1>2 DEF Spawned
<1>9. HasChild'
  BY <1>1, <1>2 DEF HasChild, TaskHasChildren, TasksList
<1>10. Told'
  BY Zenon, <1>1 DEF Told, WaitsFor
<1>11. Parked'
  <2> SUFFICES ASSUME NEW p \in PID, state[p] = "BLOCKED" PROVE \E z \in PID : Expects(p, z)'
    BY Zenon, <1>1 DEF Parked
  <2>1. PICK z \in PID : Expects(p, z)
    BY Zenon DEF Parked
  <2>2. Expects(p, z)'
    BY Zenon, <1>1, <1>2, <1>4, <2>1 DEF Expects, WaitsFor, StillToCome
  <2> QED BY Zenon, <2>2
<1> QED BY Zenon, <1>5, <1>6, <1>7, <1>8, <1>9, <1>10, <1>11

\* Linking a corpse puts exactly it on the list.
LEMMA LinkQueue ==
  ASSUME NEW S, NEW s \in Seq(S), NEW x \in S
  PROVE  /\ \A y : Contains(<<x>> \o s, y) <=> y = x \/ Contains(s, y)
         /\ IsInjective(s) /\ ~Contains(s, x) => IsInjective(<<x>> \o s)
<1> DEFINE r == <<x>> \o s
<1>1. <<x>> \in Seq(S) /\ Len(<<x>>) = 1 /\ <<x>>[1] = x
  OBVIOUS
<1>2. Len(s) \in Nat /\ DOMAIN s = 1 .. Len(s)
  OBVIOUS
<1>3. /\ r \in Seq(S) /\ Len(r) = 1 + Len(s)
      /\ \A i \in 1 .. 1 + Len(s) : r[i] = IF i <= 1 THEN <<x>>[i] ELSE s[i - 1]
  BY <1>1, <1>2
<1>4. DOMAIN r = 1 .. 1 + Len(s)
  BY <1>3
<1>5. r[1] = x /\ \A k \in 1 .. Len(s) : r[k + 1] = s[k]
  BY <1>1, <1>2, <1>3
<1>6. \A i \in 1 .. 1 + Len(s) : i = 1 \/ (i - 1 \in 1 .. Len(s) /\ r[i] = s[i - 1])
  BY <1>2, <1>3
<1> HIDE DEF r
<1>7. ASSUME NEW y, Contains(r, y) PROVE y = x \/ Contains(s, y)
  BY ZenonT(30), <1>3, <1>5, <1>6, <1>7 DEF Contains
<1>8. Contains(r, x)
  BY <1>2, <1>3, <1>5 DEF Contains
<1>9. ASSUME NEW y, Contains(s, y) PROVE Contains(r, y)
  <2>1. PICK k \in 1 .. Len(s) : s[k] = y
    BY Zenon, <1>9 DEF Contains
  <2>2. k + 1 \in 1 .. Len(r) /\ r[k + 1] = y
    BY <1>2, <1>3, <1>5, <2>1
  <2> QED BY Zenon, <2>2 DEF Contains
<1>10. ASSUME IsInjective(s), ~Contains(s, x) PROVE IsInjective(r)
  <2> SUFFICES ASSUME NEW i \in 1 .. 1 + Len(s), NEW j \in 1 .. 1 + Len(s), r[i] = r[j]
               PROVE  i = j
    BY Zenon, <1>4 DEF IsInjective
  <2>1. \A k \in 1 .. Len(s) : s[k] # x
    BY Zenon, <1>10 DEF Contains
  <2>2. CASE i = 1 \/ j = 1
    BY Zenon, <1>5, <1>6, <2>1, <2>2
  <2>3. CASE i # 1 /\ j # 1
    <3>1. i - 1 \in DOMAIN s /\ j - 1 \in DOMAIN s /\ s[i - 1] = s[j - 1]
      BY Zenon, <1>2, <1>6, <2>3
    <3>2. i - 1 = j - 1
      BY Zenon, <1>10, <3>1 DEF IsInjective
    <3> QED BY <3>2
  <2> QED BY Zenon, <2>2, <2>3
<1> QED BY Zenon, <1>7, <1>8, <1>9, <1>10 DEF r

\* Linking the corpse: the lock was free, so nobody is parked on a listed
\* zombie, and from now on the lock names the new one.
LEMMA LinkKeeps ==
  ASSUME IInv, NEW c \in CPU, NEW t \in PID, ExitLink(c, t)
  PROVE  Handshake'
<1> USE PidNotNull DEF IInv, Handshake
<1>1. /\ Running(c, t) /\ pc[t] = "x_list" /\ zlock = NULL /\ zlock' = t
      /\ zombies' = <<t>> \o zombies
      /\ UNCHANGED <<life, state, parent, home, wait_target, arg, current, pending_reap, cpc,
                     stack>>
  BY Zenon DEF ExitLink, cpuVars
<1>2. \A u \in PID : pc'[u] = IF u = t THEN "x_wake" ELSE pc[u]
  BY Zenon DEF ExitLink, QInv, TypeOK
<1>3. cpc[c] = "task"
  BY Zenon, <1>1, RunningAlone
<1>4. \A z \in PID : Contains(zombies', z) <=> z = t \/ Contains(zombies, z)
  <2>1. zombies \in Seq(PID)
    BY Zenon DEF QInv, TypeOK
  <2> QED BY ZenonT(30), <1>1, <2>1, LinkQueue
<1>5. LockHolder' /\ Dying'
  BY Zenon, <1>1, <1>2 DEF LockHolder, Dying, ExitPcs
<1>6. Stacks'
  BY Zenon, <1>1, <1>2, <1>3, CallStacks
<1>7. Corpses'
  <2>1. \A u \in PID : pc[u] = "x_wake" \/ pc[u] = "dead" => pc'[u] = pc[u]
    BY Zenon, <1>1, <1>2
  <2>2. \A d \in CPU : pending_reap[d] \in PID \cup {NULL}
    BY Zenon DEF QInv, TypeOK
  <2>3. \A p \in PID : pc'[p] \in FreePcs =>
          arg[p] \in PID /\ parent[arg[p]] = p /\ pc'[arg[p]] = "dead"
    BY ZenonT(30), <1>1, <1>2, <2>1 DEF Corpses, FreePcs
  <2>4. \A z \in PID : Contains(zombies', z) => pc'[z] \in {"x_wake", "dead"}
    BY Zenon, <1>2, <1>4, <2>1 DEF Corpses
  <2>5. \A d \in CPU : pending_reap'[d] # NULL => pc'[pending_reap'[d]] = "dead"
    BY ZenonT(30), <1>1, <2>1, <2>2 DEF Corpses
  <2> QED BY Zenon, <1>1, <2>3, <2>4, <2>5 DEF Corpses
<1>8. Spawned'
  BY <1>1, <1>2 DEF Spawned
<1>9. HasChild'
  BY <1>1, <1>2 DEF HasChild, TaskHasChildren, TasksList
<1>10. Told'
  BY Zenon, <1>1, <1>4 DEF Told, WaitsFor
<1>11. Parked'
  <2> SUFFICES ASSUME NEW p \in PID, state[p] = "BLOCKED" PROVE \E z \in PID : Expects(p, z)'
    BY Zenon, <1>1 DEF Parked
  <2>1. PICK z \in PID : Expects(p, z)
    BY Zenon DEF Parked
  <2>2. Expects(p, z)'
    BY Zenon, <1>1, <1>2, <1>4, <2>1 DEF Expects, WaitsFor, StillToCome
  <2> QED BY Zenon, <2>2
<1> QED BY Zenon, <1>5, <1>6, <1>7, <1>8, <1>9, <1>10, <1>11

\* Waking the parent and leaving task_exit: the one parent that may be parked
\* for this task has been made READY before the lock is released.
LEMMA WakeKeeps ==
  ASSUME IInv, NEW c \in CPU, NEW t \in PID, ExitWake(c, t)
  PROVE  Handshake'
<1> USE PidNotNull DEF IInv, Handshake
<1> DEFINE p == parent[t]
           wake == WakesParent(p, t)
<1>1. /\ Running(c, t) /\ pc[t] = "x_wake" /\ zlock = t
      /\ UNCHANGED <<life, parent, home, wait_target, arg, current, pending_reap, stack,
                     zombies>>
  BY Zenon DEF ExitWake, LockHolder
<1>2. cpc[c] = "task" /\ state[t] \in {"RUNNING", "ZOMBIE"}
  BY Zenon, <1>1, RunningAlone
<1>3. CASE p = NULL
  <2>1. UNCHANGED <<state, pc, zlock>> /\ cpc' = [cpc EXCEPT ![c] = "halted"]
    BY Zenon, <1>3 DEF ExitWake
  <2>2. \A d \in CPU : cpc'[d] = IF d = c THEN "halted" ELSE cpc[d]
    BY Zenon, <2>1 DEF QInv, TypeOK
  <2>3. Stacks'
    BY Zenon, <1>1, <2>1, <2>2, CallStacks
  <2>4. LockHolder' /\ Dying' /\ Corpses' /\ Spawned' /\ HasChild' /\ Told' /\ Parked'
    BY Zenon, <1>1, <2>1, SchedulerKeeps
  <2> QED BY Zenon, <2>3, <2>4
<1>4. CASE p # NULL
  <2>1. /\ state' = IF wake THEN [state EXCEPT ![p] = "READY"] ELSE state
        /\ zlock' = NULL /\ pc' = [pc EXCEPT ![t] = "dead"]
        /\ cpc' = [cpc EXCEPT ![c] = "sched"]
    BY Zenon, <1>4 DEF ExitWake
  <2>2. p \in PID /\ (wake <=> state[p] = "BLOCKED" /\ wait_target[p] \in {0, t})
    BY Zenon, <1>4 DEF QInv, TypeOK, WakesParent
  <2> HIDE DEF wake
  <2>3. /\ \A u \in PID : /\ state'[u] = IF u = p /\ wake THEN "READY" ELSE state[u]
                          /\ pc'[u] = IF u = t THEN "dead" ELSE pc[u]
        /\ \A d \in CPU : cpc'[d] = IF d = c THEN "sched" ELSE cpc[d]
    BY Zenon, <2>1, <2>2 DEF QInv, TypeOK
  <2>4. LockHolder' /\ Dying'
    BY <1>1, <2>1, <2>2, <2>3 DEF LockHolder, Dying, ExitPcs
  <2>5. Stacks'
    BY Zenon, <1>1, <1>2, <2>3, CallStacks
  <2>6. Corpses'
    <3>1. \A u \in PID : pc[u] = "x_wake" \/ pc[u] = "dead" => pc'[u] \in {pc[u], "dead"}
      BY Zenon, <2>3
    <3>2. \A d \in CPU : pending_reap[d] \in PID \cup {NULL}
      BY Zenon DEF QInv, TypeOK
    <3>3. \A q \in PID : pc'[q] \in FreePcs =>
            arg[q] \in PID /\ parent[arg[q]] = q /\ pc'[arg[q]] = "dead"
      BY Zenon, <1>1, <2>3, <3>1 DEF Corpses, FreePcs
    <3> QED BY ZenonT(30), <1>1, <3>1, <3>2, <3>3 DEF Corpses
  <2>7. Spawned'
    BY SMTT(30), <1>1, <2>2, <2>3 DEF Spawned
  <2>8. HasChild'
    BY <1>1, <2>3 DEF HasChild, TaskHasChildren, TasksList
  <2>9. ASSUME NEW q \in PID, NEW z \in PID, state'[q] = "BLOCKED", WaitsFor(q, z)
        PROVE  z # t
    BY Zenon, <2>2, <2>3, <2>9 DEF WaitsFor
  <2>10. Told'
    <3> SUFFICES ASSUME NEW q \in PID, NEW z \in PID, Contains(zombies, z), WaitsFor(q, z)'
                 PROVE  FALSE
      BY Zenon, <1>1 DEF Told
    <3>1. WaitsFor(q, z) /\ state'[q] = "BLOCKED"
      BY Zenon, <1>1, <2>2, <2>3 DEF WaitsFor
    <3>2. zlock = z
      BY Zenon, <3>1 DEF Told
    <3> QED BY Zenon, <1>1, <2>9, <3>1, <3>2
  <2>11. Parked'
    <3> SUFFICES ASSUME NEW q \in PID, state'[q] = "BLOCKED" PROVE \E z \in PID : Expects(q, z)'
      BY Zenon DEF Parked
    <3>1. PICK z \in PID : Expects(q, z)
      BY Zenon, <2>2, <2>3 DEF Parked
    <3>2. z # t
      BY Zenon, <2>9, <3>1 DEF Expects
    <3>3. Expects(q, z)'
      BY Zenon, <1>1, <2>2, <2>3, <3>1, <3>2 DEF Expects, WaitsFor, StillToCome
    <3> QED BY Zenon, <3>3
  <2> QED BY Zenon, <2>4, <2>5, <2>6, <2>7, <2>8, <2>10, <2>11
<1> QED BY Zenon, <1>3, <1>4

-----------------------------------------------------------------------------
\* The invariant is inductive.
LEMMA NextIInv == IInv /\ [NextWithSpawn]_vars => IInv'
<1> SUFFICES ASSUME IInv, [NextWithSpawn]_vars PROVE Handshake'
  BY Zenon, NextQInv DEF IInv
<1>1. CASE UNCHANGED vars
  <2>1. Stacks'
    BY Zenon, <1>1 DEF IInv, Handshake, Stacks, vars, taskVars, cpuVars
  <2>2. LockHolder' /\ Dying' /\ Corpses' /\ Spawned' /\ HasChild' /\ Told' /\ Parked'
    BY Zenon, <1>1, SchedulerKeeps DEF vars, taskVars, cpuVars
  <2> QED BY Zenon, <2>1, <2>2 DEF Handshake
<1>2. ASSUME NEW c \in CPU, NEW t \in PID, Exit(c, t) PROVE Handshake'
  BY Zenon, <1>2, DetachKeeps, CheckKeeps, LinkKeeps, WakeKeeps DEF Exit
<1> QED BY Zenon, <1>1, <1>2, ScheduleKeeps, CreateKeeps, SetParentKeeps, WaitKeeps
       DEF NextWithSpawn, CpuStep, Spawn

\* The invariant holds in every state of every behaviour.
LEMMA AlwaysIInv == SpecWithSpawn => []IInv
BY InitIInv, NextIInv, PTL DEF SpecWithSpawn

\* The zombie list as a sequence and as a set.
LEMMA ListedZombies ==
  ASSUME TypeOK
  PROVE  /\ \A i \in DOMAIN zombies : zombies[i] \in PID /\ Contains(zombies, zombies[i])
         /\ \A z : z \in Range(zombies) <=> Contains(zombies, z)
<1>1. DOMAIN zombies = 1 .. Len(zombies) /\ zombies \in [1 .. Len(zombies) -> PID]
  BY DEF TypeOK
<1> QED BY Zenon, <1>1 DEF Contains, Range

\* For any number of CPUs and of tasks, with parents that may exit at any time
\* and children created by fork or by spawn, task_exit and do_waitpid lose no
\* wakeup: a parent parked for a child on the zombie list is about to be woken
\* by that child.
THEOREM WakeupsNotLost == SpecWithSpawn => []NoLostWakeup
<1>1. IInv => NoLostWakeup
  BY Zenon, ListedZombies DEF IInv, QInv, Handshake, Told, NoLostWakeup
<1> QED BY <1>1, AlwaysIInv, PTL

\* Under the same conditions every task can still be reached: the runnable ones
\* are where schedule() looks for them, and a parent parked in do_waitpid has a
\* child whose exit will wake it, but for one that ended before SpawnHandler
\* gave it its parent.
THEOREM NobodyUnreachable == SpecWithSpawn => []TasksReachable
<1>1. IInv => ParkedHasChild
  <2> SUFFICES ASSUME IInv, NEW p \in PID, state[p] = "BLOCKED"
               PROVE  \E z \in PID : WaitsFor(p, z) /\ (StillToCome(z) \/ ExitedUnparented(z))
    BY Zenon DEF ParkedHasChild
  <2>1. PICK z \in PID : Expects(p, z)
    BY Zenon DEF IInv, Handshake, Parked
  <2>2. TypeOK
    BY Zenon DEF IInv, QInv
  <2> QED BY Zenon, <2>1, <2>2, ListedZombies DEF Expects, ExitedUnparented
<1>2. RunQueuesExact /\ ParkedHasChild => TasksReachable
  BY Zenon DEF TasksReachable
<1> QED BY <1>1, <1>2, NoTaskLost, AlwaysIInv, PTL

=============================================================================
