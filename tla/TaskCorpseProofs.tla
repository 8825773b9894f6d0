-------------------------- MODULE TaskCorpseProofs --------------------------
(***************************************************************************)
(* What becomes of a task that has exited, for any number of CPUs and       *)
(* tasks, while parents outlive their children and nobody spawns: a corpse  *)
(* is always in exactly one of the zombie list, a reap slot and the waitpid *)
(* that claimed it, and so is freed once.                                   *)
(*                                                                         *)
(* Which of the three it is depends on its parent: with one, task_exit has  *)
(* listed it before its CPU switches away; without, only its CPU's reap     *)
(* slot will know it, and must be empty when the CPU needs it.              *)
(***************************************************************************)
EXTENDS TaskLifeProofs

\* Only corpses are freed, a live child's parent is not exiting, and a task
\* on its way to the zombie list has a parent.
Family ==
  \A t \in PID :
    /\ life[t] = "freed" => pc[t] = "dead"
    /\ life[t] = "live" /\ parent[t] # NULL => state[parent[t]] # "ZOMBIE"
    /\ pc[t] \in {"x_list", "x_wake"} => parent[t] # NULL
    /\ pc[t] # "sp_parent"

\* A corpse with a parent is listed or claimed, never both ...
ChildHeld ==
  /\ IsInjective(zombies)
  /\ \A z \in PID :
       /\ Contains(zombies, z) => life[z] = "live" /\ parent[z] # NULL
       /\ \A p \in PID : Claims(p, z) => life[z] = "live" /\ ~Contains(zombies, z)
       /\ pc[z] = "x_wake" => Contains(zombies, z)
       /\ pc[z] = "dead" /\ life[z] = "live" /\ parent[z] # NULL
            => Contains(zombies, z) \/ Claims(parent[z], z)

\* ... and one without is on its CPU's stack or in that CPU's reap slot, which
\* is empty whenever the CPU is about to use it.
OrphanHeld ==
  /\ \A c \in CPU :
       /\ pending_reap[c] # NULL =>
            /\ life[pending_reap[c]] = "live" /\ parent[pending_reap[c]] = NULL
            /\ home[pending_reap[c]] = c /\ stack[c] # pending_reap[c]
       /\ cpc[c] = "switch" =>
            /\ pending_reap[c] = NULL
            /\ current[c] # Boot => state[current[c]] = "RUNNING"
  /\ \A z \in PID : parent[z] = NULL =>
       /\ life[z] = "freed" => stack[home[z]] # z
       /\ pc[z] = "dead" /\ life[z] = "live"
            => stack[home[z]] = z \/ pending_reap[home[z]] = z

CInv == Family /\ ChildHeld /\ OrphanHeld

-----------------------------------------------------------------------------
(* Corpses, while parents outlive their children and nobody spawns.        *)

\* Nobody has died when the kernel starts.
LEMMA InitCInv == Init => CInv
<1> SUFFICES ASSUME Init PROVE CInv
  BY Zenon
<1>1. PICK h \in CPU :
        /\ life   = [t \in PID |-> IF t = 1 THEN "live" ELSE "unborn"]
        /\ parent = [t \in PID |-> NULL]
        /\ pc     = [t \in PID |-> "user"]
        /\ cpc    = [c \in CPU |-> "task"]
        /\ pending_reap = [c \in CPU |-> NULL]
        /\ zombies = <<>>
  BY Zenon DEF Init
<1>2. IsInjective(zombies) /\ \A z : ~Contains(zombies, z)
  BY <1>1 DEF Contains, IsInjective
<1>3. Family
  BY Zenon, <1>1 DEF Family
<1>4. ChildHeld
  BY Zenon, <1>1, <1>2 DEF ChildHeld, Claims, FreePcs
<1>5. OrphanHeld
  BY Zenon, <1>1 DEF OrphanHeld
<1> QED BY Zenon, <1>3, <1>4, <1>5 DEF CInv

\* A task that has a CPU or is in task_exit has not been freed.
LEMMA RunningLive ==
  ASSUME IInv, CInv, NEW c \in CPU, NEW t \in PID, Running(c, t), pc[t] # "dead"
  PROVE  life[t] = "live"
<1>1. state[t] # "NEW"
  BY Zenon, RunningAlone
<1>2. life[t] \in {"unborn", "live", "freed"}
  BY Zenon DEF IInv, QInv, TypeOK
<1> QED BY Zenon, <1>1, <1>2 DEF IInv, QInv, Unborn, CInv, Family

\* A step of a system call that frees nothing and leaves the zombie list alone.
LEMMA CallHeld ==
  ASSUME IInv, CInv, NEW c \in CPU, NEW t \in PID, Running(c, t),
         NEW q, \A u \in PID : pc'[u] = IF u = t THEN q ELSE pc[u],
         \A u \in PID \ {t} : arg'[u] = arg[u],
         \A u \in PID : parent'[u] = parent[u],
         UNCHANGED <<life, home, current, pending_reap, stack, zombies>>,
         pc[t] \notin FreePcs, pc[t] # "dead", q \notin FreePcs, q # "sp_parent",
         \A d \in CPU : cpc'[d] = "switch" => cpc[d] = "switch",
         \A u \in PID \ {t} : /\ state'[u] = "ZOMBIE" => state[u] = "ZOMBIE"
                              /\ state[u] = "RUNNING" => state'[u] = "RUNNING",
         state'[t] = "ZOMBIE" => state[t] = "ZOMBIE" \/ ~TaskHasChildren(t, 0),
         q \in {"x_list", "x_wake"} => parent[t] # NULL,
         q = "x_wake" \/ (q = "dead" /\ parent[t] # NULL) => Contains(zombies, t)
  PROVE  CInv'
<1> USE PidNotNull DEF CInv
<1>1. /\ cpc[c] = "task" /\ current[c] = t /\ stack[c] = t /\ home[t] = c
      /\ \A d \in CPU : current[d] = t => d = c
  BY RunningAlone
<1>2. Family'
  <2> SUFFICES ASSUME NEW u \in PID
               PROVE  /\ life[u] = "freed" => pc'[u] = "dead"
                      /\ life[u] = "live" /\ parent[u] # NULL => state'[parent[u]] # "ZOMBIE"
                      /\ pc'[u] \in {"x_list", "x_wake"} => parent[u] # NULL
                      /\ pc'[u] # "sp_parent"
    BY DEF Family
  <2>1. parent[u] # NULL => parent[u] \in PID
    BY DEF IInv, QInv, TypeOK
  <2>2. life[t] = "live"
    BY Zenon, RunningLive
  <2> QED BY <2>1, <2>2 DEF Family, TaskHasChildren, TasksList
<1>3. ChildHeld'
  <2>1. \A p, z \in PID : Claims(p, z)' <=> Claims(p, z)
    BY Zenon DEF Claims
  <2>2. \A z \in PID : parent[z] # NULL => parent[z] \in PID
    BY DEF IInv, QInv, TypeOK
  <2>3. \A z \in PID : parent[z] # NULL => (Claims(parent[z], z)' <=> Claims(parent[z], z))
    BY Zenon, <2>1, <2>2
  <2> QED BY <2>1, <2>3 DEF ChildHeld
<1>4. OrphanHeld'
  <2>1. \A d \in CPU : pending_reap[d] \in PID \cup {NULL} /\ current[d] \in PID \cup {Boot}
    BY Zenon DEF IInv, QInv, TypeOK
  <2>2. \A d \in CPU : cpc'[d] = "switch" =>
          /\ pending_reap[d] = NULL
          /\ current[d] # Boot => state'[current[d]] = "RUNNING"
    BY <1>1, <2>1 DEF OrphanHeld
  <2>3. \A z \in PID : parent[z] = NULL =>
          /\ life[z] = "freed" => stack[home[z]] # z
          /\ pc'[z] = "dead" /\ life[z] = "live" => stack[home[z]] = z \/ pending_reap[home[z]] = z
    BY <1>1 DEF OrphanHeld
  <2> QED BY <2>1, <2>2, <2>3 DEF OrphanHeld
<1> QED BY Zenon, <1>2, <1>3, <1>4

\* Claiming moves a corpse from the list to its parent.
LEMMA ClaimHeld ==
  ASSUME IInv, CInv, NEW c \in CPU, NEW t \in PID, Running(c, t),
         pc[t] \in {"w_take", "w_park"}, zlock = NULL,
         NEW q \in FreePcs, Claim(t, q),
         UNCHANGED <<life, state, parent, home, current, pending_reap, cpc, stack>>
  PROVE  CInv'
<1> USE PidNotNull DEF CInv
<1>1. TypeOK
  BY Zenon DEF IInv, QInv
<1>2. PICK z \in PID :
        /\ Contains(zombies, z) /\ parent[z] = t
        /\ \A u \in PID : /\ arg'[u] = IF u = t THEN z ELSE arg[u]
                          /\ pc'[u] = IF u = t THEN q ELSE pc[u]
        /\ IsInjective(zombies')
        /\ \A y \in PID : Contains(zombies', y) <=> Contains(zombies, y) /\ y # z
  BY <1>1, ClaimTakes DEF ChildHeld
<1>3. pc[z] \in ExitPcs /\ z # t
  BY Zenon, <1>2 DEF IInv, Handshake, Corpses, ExitPcs
<1>4. \A p, y \in PID : Claims(p, y)' <=> Claims(p, y) \/ (p = t /\ y = z)
  BY Zenon, <1>2 DEF Claims, FreePcs
<1>5. Family'
  BY Zenon, <1>2 DEF Family, FreePcs
<1>6. ChildHeld'
  <2>1. IsInjective(zombies')
    BY Zenon, <1>2
  <2> SUFFICES ASSUME NEW y \in PID
               PROVE  /\ Contains(zombies', y) => life[y] = "live" /\ parent[y] # NULL
                      /\ \A p \in PID : Claims(p, y)' => life[y] = "live" /\ ~Contains(zombies', y)
                      /\ pc'[y] = "x_wake" => Contains(zombies', y)
                      /\ pc'[y] = "dead" /\ life[y] = "live" /\ parent[y] # NULL
                           => Contains(zombies', y) \/ Claims(parent[y], y)'
    BY Zenon, <2>1 DEF ChildHeld
  <2>2. Contains(zombies', y) => life[y] = "live" /\ parent[y] # NULL
    BY Zenon, <1>2 DEF ChildHeld
  <2>3. \A p \in PID : Claims(p, y)' => life[y] = "live" /\ ~Contains(zombies', y)
    BY ZenonT(30), <1>2, <1>4 DEF ChildHeld
  <2>4. pc'[y] = "x_wake" => Contains(zombies', y)
    <3>1. pc[z] # "x_wake"
      BY Zenon, <1>2 DEF IInv, Handshake, LockHolder
    <3> QED BY Zenon, <1>2, <3>1 DEF ChildHeld, FreePcs
  <2>5. pc'[y] = "dead" /\ life[y] = "live" /\ parent[y] # NULL
          => Contains(zombies', y) \/ Claims(parent[y], y)'
    <3>1. parent[y] # NULL => parent[y] \in PID
      BY Zenon, <1>1 DEF TypeOK
    <3>2. parent[y] # NULL => (Claims(parent[y], y)' <=> Claims(parent[y], y) \/ (parent[y] = t /\ y = z))
      BY Zenon, <1>4, <3>1
    <3> QED BY Zenon, <1>2, <3>2 DEF ChildHeld, FreePcs
  <2> QED BY Zenon, <2>2, <2>3, <2>4, <2>5
<1>7. OrphanHeld'
  BY <1>2 DEF OrphanHeld, FreePcs
<1> QED BY Zenon, <1>5, <1>6, <1>7

\* free_dead_task in do_waitpid: the caller held the only claim.
LEMMA FreeHeld ==
  ASSUME IInv, CInv, NEW c \in CPU, NEW t \in PID, WaitFree(c, t)
  PROVE  CInv'
<1> USE PidNotNull DEF CInv
<1> DEFINE z == arg[t]
<1>1. /\ pc[t] \in FreePcs
      /\ life' = [life EXCEPT ![z] = "freed"] /\ pc' = [pc EXCEPT ![t] = "user"]
      /\ UNCHANGED <<state, parent, home, arg, current, pending_reap, cpc, stack, zombies>>
  BY Zenon DEF WaitFree, FreeDeadTask, Return, cpuVars, FreePcs
<1>2. z \in PID /\ parent[z] = t /\ pc[z] = "dead"
  BY Zenon, <1>1 DEF IInv, Handshake, Corpses
<1>3. Claims(t, z)
  BY Zenon, <1>1 DEF Claims
<1> HIDE DEF z
<1>4. \A u \in PID : /\ life'[u] = IF u = z THEN "freed" ELSE life[u]
                     /\ pc'[u] = IF u = t THEN "user" ELSE pc[u]
  BY Zenon, <1>1, <1>2 DEF IInv, QInv, TypeOK
<1>5. z # t
  BY Zenon, <1>1, <1>2 DEF FreePcs
<1>6. \A p, y \in PID : Claims(p, y)' <=> Claims(p, y) /\ p # t
  BY <1>1, <1>4 DEF Claims, FreePcs
<1>7. \A p, y \in PID : Claims(p, y) => parent[y] = p
  BY Zenon DEF IInv, Handshake, Corpses, Claims
<1>8. Family'
  BY <1>1, <1>2, <1>4, <1>5 DEF Family, FreePcs
<1>9. ChildHeld'
  <2> SUFFICES ASSUME NEW y \in PID
               PROVE  /\ Contains(zombies, y) => life'[y] = "live" /\ parent[y] # NULL
                      /\ \A p \in PID : Claims(p, y)' => life'[y] = "live" /\ ~Contains(zombies, y)
                      /\ pc'[y] = "x_wake" => Contains(zombies, y)
                      /\ pc'[y] = "dead" /\ life'[y] = "live" /\ parent[y] # NULL
                           => Contains(zombies, y) \/ Claims(parent[y], y)'
    BY Zenon, <1>1 DEF ChildHeld
  <2>1. Contains(zombies, y) => life'[y] = "live" /\ parent[y] # NULL
    BY Zenon, <1>2, <1>3, <1>4 DEF ChildHeld
  <2>2. \A p \in PID : Claims(p, y)' => life'[y] = "live" /\ ~Contains(zombies, y)
    BY <1>2, <1>4, <1>6, <1>7 DEF ChildHeld
  <2>3. pc'[y] = "x_wake" => Contains(zombies, y)
    BY Zenon, <1>4 DEF ChildHeld
  <2>4. pc'[y] = "dead" /\ life'[y] = "live" /\ parent[y] # NULL
          => Contains(zombies, y) \/ Claims(parent[y], y)'
    <3>1. parent[y] # NULL => parent[y] \in PID
      BY Zenon DEF IInv, QInv, TypeOK
    <3>2. Claims(t, y) => y = z
      BY Zenon DEF Claims, z
    <3>3. parent[y] # NULL => (Claims(parent[y], y)' <=> Claims(parent[y], y) /\ parent[y] # t)
      BY Zenon, <1>1, <1>6, <3>1
    <3> QED BY Zenon, <1>4, <3>2, <3>3 DEF ChildHeld
  <2> QED BY Zenon, <2>1, <2>2, <2>3, <2>4
<1>10. OrphanHeld'
  <2>1. \A d \in CPU : pending_reap[d] \in PID \cup {NULL}
    BY Zenon DEF IInv, QInv, TypeOK
  <2>2. \A d \in CPU : pending_reap[d] # NULL => pending_reap[d] # z
    BY <1>2 DEF OrphanHeld
  <2> QED BY <1>1, <1>2, <1>4, <2>1, <2>2 DEF OrphanHeld
<1> QED BY Zenon, <1>8, <1>9, <1>10

\* do_waitpid keeps every corpse in its one place.
LEMMA WaitHeld ==
  ASSUME IInv, CInv, NEW c \in CPU, NEW t \in PID, Wait(c, t)
  PROVE  CInv'
<1> USE DEF cpuVars
<1>0. TypeOK
  BY Zenon DEF IInv, QInv
<1>1. ASSUME NEW target \in 0 .. MaxPid, WaitEnter(c, t, target) PROVE CInv'
  <2>1. /\ \A u \in PID : pc'[u] = IF u = t THEN "w_take" ELSE pc[u]
        /\ \A u \in PID \ {t} : arg'[u] = arg[u]
    BY Zenon, <1>0, <1>1 DEF WaitEnter, TypeOK
  <2> QED BY <1>1, <2>1, CallHeld DEF WaitEnter, FreePcs
<1>2. CASE WaitTake(c, t)
  <2>1. CASE Claim(t, "w_free")
    BY Zenon, <1>2, <2>1, ClaimHeld DEF WaitTake, FreePcs
  <2>2. CASE pc' = [pc EXCEPT ![t] = "w_has"] /\ UNCHANGED <<zombies, arg>>
    <3>1. \A u \in PID : pc'[u] = IF u = t THEN "w_has" ELSE pc[u]
      BY Zenon, <1>0, <2>2 DEF TypeOK
    <3> QED BY ZenonT(30), <1>2, <2>2, <3>1, CallHeld DEF WaitTake, FreePcs
  <2> QED BY Zenon, <1>2, <2>1, <2>2 DEF WaitTake
<1>3. CASE WaitHasChildren(c, t)
  <2> DEFINE q == IF TaskHasChildren(t, arg[t]) THEN "w_park" ELSE "user"
  <2>1. \A u \in PID : pc'[u] = IF u = t THEN q ELSE pc[u]
    BY Zenon, <1>0, <1>3 DEF WaitHasChildren, TypeOK
  <2>2. q \in {"user", "w_park"}
    BY Zenon
  <2> HIDE DEF q
  <2> QED BY <1>3, <2>1, <2>2, CallHeld DEF WaitHasChildren, FreePcs
<1>4. CASE WaitPark(c, t)
  <2>1. CASE ZombieMatches(t, arg[t]) # {}
    BY Zenon, <1>4, <2>1, ClaimHeld DEF WaitPark, FreePcs
  <2>2. CASE ZombieMatches(t, arg[t]) = {}
    <3>1. /\ Running(c, t) /\ pc[t] = "w_park"
          /\ state' = [state EXCEPT ![t] = "BLOCKED"] /\ pc' = [pc EXCEPT ![t] = "w_take"]
          /\ cpc' = [cpc EXCEPT ![c] = "sched"]
          /\ UNCHANGED <<zombies, arg, life, parent, home, current, pending_reap, stack>>
      BY Zenon, <1>4, <2>2 DEF WaitPark
    <3>2. /\ \A u \in PID : /\ pc'[u] = IF u = t THEN "w_take" ELSE pc[u]
                            /\ state'[u] = IF u = t THEN "BLOCKED" ELSE state[u]
          /\ \A d \in CPU : cpc'[d] = "switch" => cpc[d] = "switch"
      BY Zenon, <1>0, <3>1 DEF TypeOK
    <3> QED BY <3>1, <3>2, CallHeld DEF FreePcs
  <2> QED BY Zenon, <2>1, <2>2
<1> QED BY Zenon, <1>1, <1>2, <1>3, <1>4, FreeHeld DEF Wait

\* task_exit brings a corpse to the place that is to free it.
LEMMA ExitHeld ==
  ASSUME OrphansAllowed = FALSE, IInv, CInv, NEW c \in CPU, NEW t \in PID, Exit(c, t)
  PROVE  CInv'
<1> USE PidNotNull DEF cpuVars
<1>0. TypeOK /\ Family /\ ChildHeld
  BY Zenon DEF IInv, QInv, CInv
<1>1. CASE ExitDetach(c, t)
  <2>1. /\ Running(c, t) /\ pc[t] = "user" /\ ~TaskHasChildren(t, 0)
        /\ UNCHANGED <<life, home, arg, current, pending_reap, cpc, stack, zombies>>
    BY Zenon, <1>1 DEF ExitDetach
  <2>2. \A u \in PID : /\ parent'[u] = parent[u]
                       /\ state'[u] = IF u = t THEN "ZOMBIE" ELSE state[u]
                       /\ pc'[u] = IF u = t THEN "x_check" ELSE pc[u]
    BY Zenon, <1>0, <1>1, <2>1 DEF ExitDetach, TypeOK, TaskHasChildren, TasksList
  <2> QED BY <2>1, <2>2, CallHeld DEF FreePcs
<1>2. CASE ExitCheckParent(c, t)
  <2>1. /\ Running(c, t) /\ pc[t] = "x_check"
        /\ UNCHANGED <<life, state, parent, home, arg, current, pending_reap, stack, zombies>>
    BY Zenon, <1>2 DEF ExitCheckParent
  <2>2. parent[t] # NULL => state[parent[t]] # "ZOMBIE"
    BY Zenon, <1>0, <2>1, RunningLive DEF Family
  <2> DEFINE q == IF parent[t] # NULL THEN "x_list" ELSE "dead"
  <2>3. /\ \A u \in PID : pc'[u] = IF u = t THEN q ELSE pc[u]
        /\ \A d \in CPU : cpc'[d] = "switch" => cpc[d] = "switch"
    BY Zenon, <1>0, <1>2, <2>2 DEF ExitCheckParent, TypeOK
  <2>4. /\ q \in {"x_list", "dead"} /\ (q = "x_list" <=> parent[t] # NULL)
    BY Zenon
  <2> HIDE DEF q
  <2> QED BY <2>1, <2>3, <2>4, CallHeld DEF FreePcs
<1>3. CASE ExitWake(c, t)
  <2> DEFINE p == parent[t]
  <2>1. /\ Running(c, t) /\ pc[t] = "x_wake" /\ p \in PID /\ Contains(zombies, t)
        /\ UNCHANGED <<life, parent, home, arg, current, pending_reap, stack, zombies>>
    BY <1>0, <1>3 DEF ExitWake, Family, ChildHeld, TypeOK
  <2>2. /\ state' = IF WakesParent(p, t) THEN [state EXCEPT ![p] = "READY"] ELSE state
        /\ pc' = [pc EXCEPT ![t] = "dead"] /\ cpc' = [cpc EXCEPT ![c] = "sched"]
    BY Zenon, <1>3, <2>1 DEF ExitWake
  <2>3. /\ \A u \in PID : /\ state'[u] = IF u = p /\ WakesParent(p, t) THEN "READY" ELSE state[u]
                          /\ pc'[u] = IF u = t THEN "dead" ELSE pc[u]
        /\ \A d \in CPU : cpc'[d] = "switch" => cpc[d] = "switch"
    BY Zenon, <1>0, <2>1, <2>2 DEF TypeOK
  <2>4. WakesParent(p, t) => state[p] = "BLOCKED"
    BY Zenon DEF WakesParent
  <2> HIDE DEF p
  <2>5. \A u \in PID : /\ state'[u] = "ZOMBIE" => state[u] = "ZOMBIE"
                       /\ state[u] = "RUNNING" => state'[u] = "RUNNING"
    BY Zenon, <2>3, <2>4
  <2> QED BY <2>1, <2>3, <2>5, CallHeld DEF FreePcs
<1>4. CASE ExitLink(c, t)
  <2>1. /\ Running(c, t) /\ pc[t] = "x_list" /\ zombies' = <<t>> \o zombies
        /\ UNCHANGED <<life, state, parent, home, arg, current, pending_reap, cpc, stack>>
    BY Zenon, <1>4 DEF ExitLink
  <2>2. \A u \in PID : pc'[u] = IF u = t THEN "x_wake" ELSE pc[u]
    BY Zenon, <1>0, <1>4 DEF ExitLink, TypeOK
  <2>3. ~Contains(zombies, t) /\ \A p \in PID : ~Claims(p, t)
    BY Zenon, <2>1 DEF IInv, Handshake, Corpses, Claims
  <2>4. IsInjective(zombies') /\ \A z \in PID : Contains(zombies', z) <=> z = t \/ Contains(zombies, z)
    BY Zenon, <1>0, <2>1, <2>3, LinkQueue DEF TypeOK, ChildHeld
  <2>5. life[t] = "live" /\ parent[t] # NULL
    BY Zenon, <1>0, <2>1, RunningLive DEF Family
  <2>6. \A p, z \in PID : Claims(p, z)' <=> Claims(p, z)
    BY Zenon, <2>1, <2>2 DEF Claims, FreePcs
  <2>7. Family'
    BY Zenon, <1>0, <2>1, <2>2, <2>5 DEF Family
  <2>8. ChildHeld'
    <3>1. \A z \in PID : parent[z] # NULL => (Claims(parent[z], z)' <=> Claims(parent[z], z))
      BY Zenon, <1>0, <2>1, <2>6 DEF TypeOK
    <3> QED BY Zenon, <1>0, <2>1, <2>2, <2>3, <2>4, <2>5, <2>6, <3>1 DEF ChildHeld
  <2>9. OrphanHeld'
    BY <2>1, <2>2 DEF OrphanHeld, CInv
  <2> QED BY Zenon, <2>7, <2>8, <2>9 DEF CInv
<1> QED BY Zenon, <1>1, <1>2, <1>3, <1>4 DEF Exit

\* A new child is nobody's corpse, and its parent is running.
LEMMA ForkHeld ==
  ASSUME IInv, CInv, NEW c \in CPU, NEW t \in PID, DoFork(c, t)
  PROVE  CInv'
<1> USE PidNotNull DEF CInv
<1>1. /\ Running(c, t) /\ pc[t] = "user"
      /\ UNCHANGED <<pc, arg, current, pending_reap, cpc, stack, zombies>>
  BY Zenon DEF DoFork
<1>2. PICK n \in PID : NextPid(n) /\ CreateTask(n, t)
  BY Zenon DEF DoFork
<1>3. state[n] = "NEW" /\ pc[n] \notin ExitPcs
  BY Zenon, <1>2 DEF NextPid, IInv, QInv, Unborn, Handshake, Dying
<1>4. \A u \in PID : /\ state'[u] = IF u = n THEN "READY" ELSE state[u]
                     /\ life'[u] = IF u = n THEN "live" ELSE life[u]
                     /\ parent'[u] = IF u = n THEN t ELSE parent[u]
                     /\ u # n => home'[u] = home[u]
  BY Zenon, <1>2 DEF CreateTask, IInv, QInv, TypeOK
<1>5. state[t] # "ZOMBIE" /\ state[t] # "NEW"
  BY Zenon, <1>1, RunningAlone DEF IInv, Handshake, Dying, ExitPcs
<1>6. Family'
  <2>1. \A u \in PID : parent[u] # NULL => parent[u] \in PID
    BY Zenon DEF IInv, QInv, TypeOK
  <2> QED BY <1>1, <1>3, <1>4, <1>5, <2>1 DEF Family, ExitPcs
<1>7. ChildHeld'
  <2>1. \A p, z \in PID : Claims(p, z)' <=> Claims(p, z)
    BY Zenon, <1>1 DEF Claims
  <2>2. \A p \in PID : ~Claims(p, n)
    BY <1>3 DEF IInv, Handshake, Corpses, Claims, ExitPcs
  <2>3. ~Contains(zombies, n)
    BY Zenon, <1>3 DEF IInv, Handshake, Corpses, ExitPcs
  <2>4. \A z \in PID : z # n /\ parent[z] # NULL => (Claims(parent[z], z)' <=> Claims(parent[z], z))
    BY Zenon, <1>1, <1>4 DEF Claims
  <2> QED BY ZenonT(30), <1>1, <1>3, <1>4, <2>1, <2>2, <2>3, <2>4 DEF ChildHeld, ExitPcs
<1>8. OrphanHeld'
  <2>1. \A d \in CPU : /\ pending_reap[d] \in PID \cup {NULL} /\ pending_reap[d] # n
                       /\ current[d] \in PID \cup {Boot} /\ current[d] # n
    BY SMTT(30), <1>3 DEF IInv, QInv, TypeOK, Handshake, Corpses, ExitPcs, Placed
  <2> QED BY <1>1, <1>3, <1>4, <2>1 DEF OrphanHeld
<1> QED BY Zenon, <1>6, <1>7, <1>8

\* schedule() and the timer: a corpse without a parent goes from the stack to
\* the empty reap slot, and from there is freed on the next pass.
LEMMA ScheduleHeld ==
  ASSUME IInv, CInv, IInv', NEW c \in CPU, Schedule(c) \/ Tick(c)
  PROVE  CInv'
<1> USE PidNotNull DEF CInv
<1>0. /\ TypeOK
      /\ \A d \in CPU : /\ pending_reap[d] \in PID \cup {NULL} /\ stack[d] \in PID \cup {Boot}
                        /\ current[d] \in PID \cup {Boot}
      /\ \A u \in PID : parent[u] # NULL => parent[u] \in PID
  BY Zenon DEF IInv, QInv, TypeOK
<1>1. CASE SchedulePick(c) \/ ScheduleKeep(c)
  <2>1. /\ cpc[c] = "sched" /\ DrainPendingReap(c)
        /\ UNCHANGED <<parent, home, pc, arg, stack, zombies>>
    BY Zenon, <1>1 DEF SchedulePick, ScheduleKeep
  <2>2. \A u \in PID : state'[u] = "ZOMBIE" <=> state[u] = "ZOMBIE"
    BY Zenon, <2>1 DEF IInv, Handshake, Dying
  <2>3. /\ \A d \in CPU : pending_reap'[d] = IF d = c THEN NULL ELSE pending_reap[d]
        /\ \A u \in PID : life'[u] = IF u = pending_reap[c] THEN "freed" ELSE life[u]
        /\ \A u \in PID : life'[u] = life[u] \/ pc[u] = "dead"
    BY <1>0, <2>1, DrainEffect DEF OrphanHeld
  <2>4. \A p, z \in PID : Claims(p, z)' <=> Claims(p, z)
    BY Zenon, <2>1 DEF Claims
  <2>5. Family'
    BY <1>0, <2>1, <2>2, <2>3 DEF Family
  <2>6. ChildHeld'
    <3>1. \A z \in PID : parent[z] # NULL =>
            life'[z] = life[z] /\ (Claims(parent[z], z)' <=> Claims(parent[z], z))
      BY <1>0, <2>1, <2>3, <2>4 DEF OrphanHeld
    <3>2. \A p, z \in PID : Claims(p, z) => parent[z] = p
      BY Zenon DEF IInv, Handshake, Corpses, Claims
    <3> QED BY SMTT(30), <2>1, <2>3, <2>4, <3>1, <3>2 DEF ChildHeld
  <2>7. \A d \in CPU : cpc'[d] = "switch" /\ current'[d] # Boot => state'[current'[d]] = "RUNNING"
    <3> SUFFICES ASSUME NEW d \in CPU, cpc'[d] = "switch", current'[d] # Boot
                 PROVE  state'[current'[d]] # "ZOMBIE"
      BY Zenon DEF IInv, QInv, Placed
    <3>1. current'[d] \in PID
      BY ZenonT(30) DEF IInv, QInv, TypeOK
    <3>2. CASE d # c
      <4>1. current'[d] = current[d] /\ cpc[d] = "switch"
        BY Zenon, <1>0, <1>1, <3>2 DEF SchedulePick, ScheduleKeep, TypeOK
      <4> QED BY Zenon, <2>2, <3>1, <4>1 DEF OrphanHeld
    <3>3. CASE d = c
      <4>1. SchedulePick(c) /\ current'[c] = Head(rq[c]) /\ rq[c] # <<>>
        BY Zenon, <1>0, <1>1, <3>3 DEF SchedulePick, ScheduleKeep, TypeOK
      <4>2. rq[c] \in Seq(PID \cup {Boot}) /\ IsInjective(rq[c])
        BY SMTT(30) DEF IInv, QInv, TypeOK, Queues
      <4>3. Contains(rq[c], Head(rq[c]))
        BY Zenon, <4>1, <4>2, TailQueue
      <4>4. state[current'[c]] = "READY"
        BY <3>1, <3>3, <4>1, <4>3 DEF IInv, QInv, Queues
      <4> QED BY Zenon, <2>2, <3>1, <3>3, <4>4
    <3> QED BY Zenon, <3>2, <3>3
  <2>8. \A d \in CPU : cpc'[d] = "switch" => d = c \/ cpc[d] = "switch"
    BY Zenon, <1>0, <1>1 DEF SchedulePick, ScheduleKeep, TypeOK
  <2>9. OrphanHeld'
    <3>1. \A d \in CPU : pending_reap'[d] # NULL =>
            /\ life'[pending_reap'[d]] = "live" /\ parent[pending_reap'[d]] = NULL
            /\ home[pending_reap'[d]] = d /\ stack[d] # pending_reap'[d]
      BY <1>0, <2>3 DEF OrphanHeld
    <3>2. \A d \in CPU : cpc'[d] = "switch" => pending_reap'[d] = NULL
      BY SMTT(30), <2>3, <2>8 DEF OrphanHeld
    <3>3. \A z \in PID : parent[z] = NULL =>
            /\ life'[z] = "freed" => stack[home[z]] # z
            /\ pc[z] = "dead" /\ life'[z] = "live"
                 => stack[home[z]] = z \/ pending_reap'[home[z]] = z
      <4>1. \A z \in PID : home[z] \in CPU
        BY Zenon, <1>0 DEF TypeOK
      <4> QED BY <2>3, <4>1 DEF OrphanHeld
    <3> QED BY Zenon, <2>1, <2>7, <3>1, <3>2, <3>3 DEF OrphanHeld
  <2> QED BY Zenon, <2>5, <2>6, <2>9
<1>2. CASE ContextSwitch(c)
  <2> DEFINE prev == stack[c]
             slot == prev # Boot /\ state[prev] = "ZOMBIE" /\ parent[prev] = NULL
  <2>1. /\ cpc[c] = "switch"
        /\ pending_reap' = IF slot THEN [pending_reap EXCEPT ![c] = prev] ELSE pending_reap
        /\ stack' = [stack EXCEPT ![c] = current[c]]
        /\ cpc' = [cpc EXCEPT ![c] = "task"]
        /\ UNCHANGED <<life, state, parent, home, pc, arg, current, zombies>>
    BY Zenon, <1>2 DEF ContextSwitch, taskVars
  <2>2. /\ pending_reap[c] = NULL
        /\ current[c] # Boot => state[current[c]] = "RUNNING"
    BY Zenon, <2>1 DEF OrphanHeld
  <2>3. slot => prev \in PID /\ pc[prev] = "dead" /\ home[prev] = c /\ prev # current[c]
    BY Zenon, <1>0, <2>1, <2>2 DEF IInv, Handshake, Stacks
  <2>4. slot => life[prev] = "live"
    <3>1. slot => life[prev] # "unborn" /\ life[prev] \in {"unborn", "live", "freed"}
      BY Zenon, <1>0, <2>3 DEF IInv, QInv, Unborn, TypeOK
    <3> QED BY Zenon, <2>3, <3>1 DEF OrphanHeld
  <2>5. \A d \in CPU : /\ cpc'[d] = IF d = c THEN "task" ELSE cpc[d]
                       /\ stack'[d] = IF d = c THEN current[c] ELSE stack[d]
                       /\ pending_reap'[d] = IF d = c /\ slot THEN prev ELSE pending_reap[d]
    BY Zenon, <1>0, <2>1 DEF TypeOK
  <2>6. \A z \in PID : home[z] \in CPU
    BY Zenon, <1>0 DEF TypeOK
  <2>7. Family' /\ ChildHeld'
    BY Zenon, <2>1 DEF Family, ChildHeld, Claims
  <2>8. prev # Boot /\ state[prev] # "ZOMBIE" => pc[prev] # "dead"
    BY Zenon, <1>0 DEF IInv, Handshake, Dying, ExitPcs
  <2>9. \A d \in CPU : current[d] # Boot /\ state[current[d]] = "RUNNING" => pc[current[d]] # "dead"
    BY Zenon, <1>0 DEF IInv, Handshake, Dying, ExitPcs
  <2> HIDE DEF slot
  <2>10. \A d \in CPU : pending_reap'[d] # NULL =>
           /\ life[pending_reap'[d]] = "live" /\ parent[pending_reap'[d]] = NULL
           /\ home[pending_reap'[d]] = d /\ stack'[d] # pending_reap'[d]
    BY <2>2, <2>3, <2>4, <2>5 DEF OrphanHeld, slot
  <2>11. \A d \in CPU : cpc'[d] = "switch" =>
           /\ pending_reap'[d] = NULL
           /\ current[d] # Boot => state[current[d]] = "RUNNING"
    BY <2>5 DEF OrphanHeld
  <2>12. ASSUME NEW z \in PID, parent[z] = NULL
         PROVE  /\ life[z] = "freed" => stack'[home[z]] # z
                /\ pc[z] = "dead" /\ life[z] = "live"
                     => stack'[home[z]] = z \/ pending_reap'[home[z]] = z
    <3>1. life[z] = "freed" => pc[z] = "dead"
      BY Zenon DEF Family
    <3>2. /\ life[z] = "freed" => stack[home[z]] # z
          /\ pc[z] = "dead" /\ life[z] = "live"
               => stack[home[z]] = z \/ pending_reap[home[z]] = z
      BY Zenon, <2>12 DEF OrphanHeld
    <3>3. CASE home[z] # c
      BY Zenon, <2>5, <2>6, <3>2, <3>3
    <3>4. CASE home[z] = c
      BY SMTT(30), <2>2, <2>5, <2>8, <2>9, <2>12, <3>1, <3>2, <3>4 DEF slot
    <3> QED BY Zenon, <3>3, <3>4
  <2>13. OrphanHeld'
    BY <2>1, <2>10, <2>11, <2>12 DEF OrphanHeld
  <2> QED BY Zenon, <2>7, <2>13
<1>3. CASE Tick(c)
  <2>1. /\ cpc' = [cpc EXCEPT ![c] = "sched"]
        /\ UNCHANGED <<life, state, parent, home, pc, arg, current, pending_reap, stack, zombies>>
    BY Zenon, <1>3 DEF Tick, taskVars
  <2>2. \A d \in CPU : cpc'[d] = "switch" => cpc[d] = "switch"
    BY Zenon, <1>0, <2>1 DEF TypeOK
  <2>3. Family' /\ ChildHeld'
    BY Zenon, <2>1 DEF Family, ChildHeld, Claims
  <2>4. OrphanHeld'
    BY <2>1, <2>2 DEF OrphanHeld
  <2> QED BY Zenon, <2>3, <2>4
<1> QED BY Zenon, <1>1, <1>2, <1>3 DEF Schedule

\* Every step of the system without spawn keeps corpses where they belong.
LEMMA NextCInv ==
  ASSUME OrphansAllowed = FALSE
  PROVE  IInv /\ CInv /\ [Next]_vars => IInv' /\ CInv'
<1> SUFFICES ASSUME IInv, CInv, [Next]_vars PROVE IInv' /\ CInv'
  BY Zenon
<1>1. IInv'
  BY Zenon, NextIInv DEF Next, NextWithSpawn
<1>2. CASE UNCHANGED vars
  <2>1. Family' /\ ChildHeld'
    BY Zenon, <1>2 DEF CInv, Family, ChildHeld, Claims, vars, taskVars
  <2>2. OrphanHeld'
    BY Zenon, <1>2 DEF CInv, OrphanHeld, vars, taskVars, cpuVars
  <2> QED BY Zenon, <1>1, <2>1, <2>2 DEF CInv
<1>3. ASSUME NEW c \in CPU, CpuStep(c) PROVE CInv'
  BY Zenon, <1>1, <1>3, ScheduleHeld, ForkHeld, WaitHeld, ExitHeld DEF CpuStep
<1> QED BY Zenon, <1>1, <1>2, <1>3 DEF Next

\* What the invariant says of the number of places that hold a corpse.
LEMMA HeldOnce ==
  ASSUME IInv, CInv
  PROVE  CorpseHeldExactlyOnce
<1> USE PidNotNull DEF CInv
<1> SUFFICES ASSUME NEW t \in PID
             PROVE  /\ \A x, y \in Holders(t) : x = y
                    /\ life[t] = "freed" => Holders(t) = {}
                    /\ (pc[t] = "dead" /\ life[t] = "live" /\ \A c \in CPU : stack[c] # t)
                         => Holders(t) # {}
  BY Zenon DEF CorpseHeldExactlyOnce, CorpseHeldOnce, NoCorpseLost
<1> DEFINE A == {i \in DOMAIN zombies : zombies[i] = t}
           B == {c \in CPU : pending_reap[c] = t}
           D == {p \in PID : pc[p] \in {"w_free", "w_free_ie"} /\ arg[p] = t}
<1>1. Holders(t) = {<<"listed", i>> : i \in A} \cup {<<"in slot", c>> : c \in B}
                     \cup {<<"claimed", p>> : p \in D}
  BY Zenon DEF Holders
<1>2. /\ Contains(zombies, t) <=> A # {}
      /\ \A i, j \in A : i = j
  <2>1. zombies \in Seq(PID) /\ IsInjective(zombies)
    BY Zenon DEF IInv, QInv, TypeOK, ChildHeld
  <2> QED BY <2>1 DEF Contains, IsInjective
<1>3. home[t] \in CPU /\ (parent[t] # NULL => parent[t] \in PID) /\ t # NULL
  BY Zenon DEF IInv, QInv, TypeOK
<1>4. B = IF pending_reap[home[t]] = t THEN {home[t]} ELSE {}
  BY <1>3 DEF OrphanHeld
<1>5. \A p \in PID : p \in D <=> Claims(p, t)
  BY Zenon DEF Claims, FreePcs
<1>6. \A p \in PID : Claims(p, t) => parent[t] = p
  BY Zenon DEF IInv, Handshake, Corpses, Claims
<1> DEFINE k == parent[t] # NULL /\ Claims(parent[t], t)
<1>7. D = IF k THEN {parent[t]} ELSE {}
  BY Zenon, <1>3, <1>5, <1>6
<1>8. /\ Contains(zombies, t) => life[t] = "live" /\ parent[t] # NULL /\ ~k
      /\ k => life[t] = "live" /\ parent[t] # NULL
      /\ pending_reap[home[t]] = t => life[t] = "live" /\ parent[t] = NULL
  BY <1>3 DEF ChildHeld, OrphanHeld
<1>9. pc[t] = "dead" /\ life[t] = "live" /\ (\A c \in CPU : stack[c] # t)
        => Contains(zombies, t) \/ k \/ pending_reap[home[t]] = t
  BY <1>3 DEF ChildHeld, OrphanHeld
<1> HIDE DEF A, B, D, k
<1>10. /\ A # {} => B = {} /\ D = {} /\ life[t] = "live"
       /\ B # {} => D = {} /\ life[t] = "live"
       /\ D # {} => life[t] = "live"
       /\ \A c, d \in B : c = d
       /\ \A p, q \in D : p = q
  BY Zenon, <1>2, <1>4, <1>7, <1>8
<1>11. A \cup B \cup D = {} => ~Contains(zombies, t) /\ ~k /\ pending_reap[home[t]] # t
  BY Zenon, <1>2, <1>4, <1>7
<1>12. \A x, y \in Holders(t) : x = y
  BY Zenon, <1>1, <1>2, <1>10
<1>13. life[t] = "freed" => Holders(t) = {}
  BY Zenon, <1>1, <1>10
<1>14. A # {} \/ B # {} \/ D # {} => Holders(t) # {}
  BY Zenon, <1>1
<1> QED BY Zenon, <1>9, <1>11, <1>12, <1>13, <1>14

\* While parents outlive their children, and for any number of CPUs and of
\* tasks, a corpse is from task_exit to kfree in exactly one of the zombie list,
\* its CPU's reap slot and the waitpid that claimed it: drain_pending_reap and
\* do_waitpid neither free a task twice nor forget one.
THEOREM CorpsesFreedOnce ==
  ASSUME OrphansAllowed = FALSE
  PROVE  Spec => []CorpseHeldExactlyOnce
<1>1. Init => IInv /\ CInv
  BY Zenon, InitIInv, InitCInv
<1>2. IInv /\ CInv => CorpseHeldExactlyOnce
  BY Zenon, HeldOnce
<1> QED BY <1>1, <1>2, NextCInv, PTL DEF Spec

=============================================================================
