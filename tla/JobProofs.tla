----------------------------- MODULE JobProofs -----------------------------
(* What the shell and the programs it starts rely on: the process group of a
   pipeline (user/sh.c) and the context a signal handler returns to (signal.c).  *)
EXTENDS ShellJobs, Signals, TLAPS

(* The pipelines of the shell (user/sh.c), for any number of stages: every
   stage is in the pipeline's process group when the terminal is handed
   over, and nothing is left behind when the prompt comes back.

   Both are about what the shell has done so far, in whatever order the
   stages run.  Forked says which stages exist at each point of
   run_pipeline, and Grouped that all but the one just forked are in the
   leader's group: the shell's own setpgid has put them there even if they
   have not run yet. *)

ShellPc == {"prompt", "pipes", "fork", "group", "give", "close", "wait", "failed"}
PipeEnd == Nat \X {"r", "w"}

StagePc == {"none", "forked", "grouped", "running", "zombie"}
Shell == [pc : ShellPc, n : 0 .. StagesMax, next : Nat, ends : SUBSET PipeEnd, leader : {0, 1}]
Stage == [pc : StagePc, pgid : Nat, ends : SUBSET PipeEnd, dfl : BOOLEAN]

\* The types of the shell and of its stages.
JobTypeOK ==
  /\ sh \in Shell
  /\ stage \in [Stages -> Stage]
  /\ fg \in {0, 1}

\* The stages that may exist, the position of the shell among them, and
\* whose the terminal is, at each point of run_pipeline.
Forked ==
  /\ sh.pc \in {"prompt", "pipes"} => \A k \in Stages : stage[k].pc = "none"
  /\ sh.pc = "prompt" => sh.ends = {}
  /\ sh.pc \in {"pipes", "fork", "group", "failed"} => sh.next \in 1 .. sh.n
  /\ sh.pc \in {"fork", "failed"} => \A k \in Stages : stage[k].pc # "none" => k < sh.next
  /\ sh.pc = "group" => \A k \in Stages : stage[k].pc # "none" => k <= sh.next
  /\ sh.pc \in {"give", "close"} => \A k \in Stages : stage[k].pc # "none" => k <= sh.n
  /\ sh.pc = "wait" => \A k \in Stages : stage[k].pc # "none" => sh.next <= k /\ k <= sh.n
  /\ sh.pc \notin {"close", "wait"} => fg = ShellPid

\* The first stage leads; every stage but one just forked is in its group.
Grouped ==
  /\ sh.pc \in {"fork", "failed"} /\ sh.next > 1 => sh.leader = 1
  /\ sh.pc \in {"group", "give", "close"} => sh.leader = 1
  /\ \A k \in Stages : stage[k].pc # "none" =>
       sh.leader = 1 /\ (stage[k].pgid = 1 \/ (sh.pc = "group" /\ k = sh.next))

JobInv == JobTypeOK /\ Forked /\ Grouped

\* The shell at its first prompt.
LEMMA InitJobInv == JobInit => JobInv
BY JobAssumption DEF JobInit, JobInv, JobTypeOK, Forked, Grouped, AtPrompt, NoStage, Shell,
                     ShellPc, Stage, StagePc, ShellPid, Stages

\* exec_one and the part of run_pipeline before the first fork.
LEMMA ReadIInv ==
  ASSUME JobInv, (\E line : ReadLine(line)) \/ exec_one \/ OpenPipe \/ PipesOpen
  PROVE  JobInv'
<1> USE JobAssumption DEF JobInv, ShellPid, Stages
<1>1. ASSUME NEW line, ReadLine(line) PROVE JobInv'
  <2> USE <1>1 DEF ReadLine
  <2>1. JobTypeOK' BY Zenon DEF JobTypeOK, Shell, ShellPc, Stage, StagePc, Forked
  <2>2. Forked' BY Zenon DEF JobTypeOK, Shell, Stage, Forked
  <2>3. Grouped' BY Zenon DEF JobTypeOK, Shell, Stage, Forked, Grouped
  <2> QED BY Zenon, <2>1, <2>2, <2>3
<1>2. CASE exec_one
  <2>1. PICK n \in 0 .. StagesMax :
          sh' = IF n = 0 THEN sh ELSE [AtPrompt EXCEPT !.pc = "pipes", !.n = n]
    BY Zenon, <1>2 DEF exec_one
  <2>2. CASE n = 0
    BY Zenon, <1>2, <2>1, <2>2 DEF exec_one, JobTypeOK, Forked, Grouped
  <2>3. CASE n # 0
    <3>1. sh' = [pc |-> "pipes", n |-> n, next |-> 1, ends |-> {}, leader |-> 0]
      BY Zenon, <2>1, <2>3 DEF AtPrompt
    <3>2. JobTypeOK'
      BY Zenon, <1>2, <3>1 DEF exec_one, JobTypeOK, Shell, ShellPc
    <3>3. sh'.pc = "pipes" /\ sh'.next = 1 /\ sh'.n = n /\ 1 \in 1 .. n
      BY <2>3, <3>1
    <3>4. Forked' /\ Grouped'
      BY Zenon, <1>2, <3>3 DEF exec_one, Forked, Grouped
    <3> QED BY Zenon, <3>2, <3>4
  <2> QED BY Zenon, <2>2, <2>3
<1>3. CASE OpenPipe
  <2>1. CASE sh' = [sh EXCEPT !.ends = @ \cup Ends(sh.next), !.next = @ + 1]
    <3>1. Ends(sh.next) \subseteq PipeEnd /\ sh.next + 1 \in Nat /\ sh.next + 1 \in 1 .. sh.n
      BY <1>3 DEF OpenPipe, Ends, PipeEnd, JobTypeOK, Shell, Forked
    <3>2. /\ sh' \in Shell /\ sh'.pc = "pipes" /\ sh'.next = sh.next + 1 /\ sh'.n = sh.n
          /\ sh'.leader = sh.leader
      BY Zenon, <1>3, <2>1, <3>1 DEF OpenPipe, JobTypeOK, Shell
    <3> QED BY Zenon, <1>3, <3>1, <3>2 DEF OpenPipe, JobTypeOK, Forked, Grouped
  <2>2. CASE sh' = AtPrompt
    <3>1. /\ sh' \in Shell /\ sh'.pc = "prompt" /\ sh'.ends = {}
      BY <2>2 DEF AtPrompt, Shell, ShellPc
    <3> QED BY Zenon, <1>3, <3>1 DEF OpenPipe, JobTypeOK, Forked, Grouped
  <2> QED BY Zenon, <1>3, <2>1, <2>2 DEF OpenPipe
<1>4. CASE PipesOpen
  <2> USE <1>4 DEF PipesOpen
  <2>1. JobTypeOK' BY Zenon DEF JobTypeOK, Shell, ShellPc, Stage, StagePc, Forked
  <2>2. Forked' BY DEF JobTypeOK, Shell, Stage, Forked
  <2>3. Grouped' BY DEF JobTypeOK, Shell, Stage, Forked, Grouped
  <2> QED BY Zenon, <2>1, <2>2, <2>3
<1> QED BY Zenon, <1>1, <1>2, <1>3, <1>4

\* fork, setpgid, tcsetpgrp, close and waitpid in the shell.
LEMMA ShellIInv ==
  ASSUME JobInv, Fork \/ ParentSetpgid \/ GiveTerminal \/ CloseEnds \/ Wait \/ Reclaim \/ ForkFailed
  PROVE  JobInv'
<1> USE JobAssumption DEF JobInv, ShellPid, Stages
<1>1. CASE Fork
  <2>0. sh.next \in Stages /\ sh.next \in Nat
    BY <1>1 DEF Fork, JobTypeOK, Shell, Forked
  <2>1. CASE /\ stage' = [stage EXCEPT ![sh.next] = [NoStage EXCEPT !.pc = "forked", !.ends = sh.ends]]
             /\ sh' = [sh EXCEPT !.pc = "group", !.leader = IF sh.next = 1 THEN 1 ELSE @]
    <3>1. [NoStage EXCEPT !.pc = "forked", !.ends = sh.ends] \in Stage
      BY Zenon DEF NoStage, Stage, StagePc, JobTypeOK, Shell
    <3>2. /\ sh' \in Shell /\ sh'.pc = "group" /\ sh'.next = sh.next /\ sh'.n = sh.n
          /\ sh'.leader = IF sh.next = 1 THEN 1 ELSE sh.leader
      BY Zenon, <2>1 DEF JobTypeOK, Shell, ShellPc
    <3>3. sh'.leader = 1
      BY <1>1, <2>0, <3>2 DEF Fork, Forked, Grouped
    <3>4. JobTypeOK'
      BY Zenon, <1>1, <2>1, <3>1, <3>2 DEF Fork, JobTypeOK
    <3>5. Forked'
      BY <1>1, <2>0, <2>1, <3>2 DEF Fork, JobTypeOK, Forked
    <3>6. Grouped'
      BY Zenon, <1>1, <2>0, <2>1, <3>2, <3>3 DEF Fork, JobTypeOK, Grouped
    <3> QED BY Zenon, <3>4, <3>5, <3>6
  <2>2. CASE sh' = [sh EXCEPT !.pc = "failed", !.ends = {}] /\ UNCHANGED stage
    <3>1. /\ sh' \in Shell /\ sh'.pc = "failed" /\ sh'.next = sh.next /\ sh'.n = sh.n
          /\ sh'.leader = sh.leader
      BY Zenon, <2>2 DEF JobTypeOK, Shell, ShellPc
    <3> QED BY Zenon, <1>1, <2>2, <3>1 DEF Fork, JobTypeOK, Forked, Grouped
  <2> QED BY Zenon, <1>1, <2>1, <2>2 DEF Fork
<1>2. CASE ParentSetpgid
  <2> USE <1>2 DEF ParentSetpgid
  <2>1. JobTypeOK'
    <3>1. sh.next \in Stages /\ sh.leader \in Nat /\ sh.next + 1 \in Nat
      BY DEF JobTypeOK, Shell, Forked
    <3>2. [stage[sh.next] EXCEPT !.pgid = sh.leader] \in Stage
      BY Zenon, <3>1 DEF JobTypeOK, Stage
    <3>3. stage' \in [Stages -> Stage]
      BY Zenon, <3>1, <3>2 DEF JobTypeOK
    <3>4. sh' \in Shell
      BY Zenon, <3>1 DEF JobTypeOK, Shell, ShellPc
    <3> QED BY Zenon, <3>3, <3>4 DEF JobTypeOK
  <2>2. Forked' BY DEF JobTypeOK, Shell, Stage, Forked
  <2>3. Grouped' BY DEF JobTypeOK, Shell, Stage, Forked, Grouped
  <2> QED BY Zenon, <2>1, <2>2, <2>3
<1>3. CASE GiveTerminal
  <2> USE <1>3 DEF GiveTerminal
  <2>1. JobTypeOK' BY Zenon DEF JobTypeOK, Shell, ShellPc, Stage, StagePc, Forked
  <2>2. Forked' BY Zenon DEF JobTypeOK, Shell, Stage, Forked
  <2>3. Grouped' BY Zenon DEF JobTypeOK, Shell, Stage, Forked, Grouped
  <2> QED BY Zenon, <2>1, <2>2, <2>3
<1>4. CASE CloseEnds
  <2> USE <1>4 DEF CloseEnds
  <2>1. JobTypeOK' BY Zenon DEF JobTypeOK, Shell, ShellPc, Stage, StagePc, Forked
  <2>2. Forked' BY DEF JobTypeOK, Shell, Stage, Forked
  <2>3. Grouped' BY Zenon DEF JobTypeOK, Shell, Stage, Forked, Grouped
  <2> QED BY Zenon, <2>1, <2>2, <2>3
<1>5. CASE Wait
  <2> USE <1>5 DEF Wait, NoStage
  <2>1. JobTypeOK'
    <3>1. NoStage \in Stage
      BY Zenon DEF NoStage, Stage, StagePc
    <3>2. sh' \in Shell
      BY DEF JobTypeOK, Shell
    <3> QED BY Zenon, <3>1, <3>2 DEF JobTypeOK
  <2>2. Forked' BY DEF JobTypeOK, Shell, Stage, Forked
  <2>3. Grouped' BY Zenon DEF JobTypeOK, Shell, Stage, Forked, Grouped
  <2> QED BY Zenon, <2>1, <2>2, <2>3
<1>6. CASE Reclaim
  <2> USE <1>6 DEF Reclaim, AtPrompt
  <2>1. JobTypeOK' BY DEF JobTypeOK, Shell, ShellPc, Stage, StagePc, Forked
  <2>2. Forked' BY DEF JobTypeOK, Shell, Stage, Forked
  <2>3. Grouped' BY DEF JobTypeOK, Shell, Stage, Forked, Grouped
  <2> QED BY Zenon, <2>1, <2>2, <2>3
<1>7. CASE ForkFailed
  <2> USE <1>7 DEF ForkFailed
  <2>1. JobTypeOK'
    <3>1. sh.next - 1 \in 0 .. StagesMax
      BY DEF JobTypeOK, Shell, Forked
    <3>2. sh' \in Shell
      BY Zenon, <3>1 DEF JobTypeOK, Shell, ShellPc
    <3> QED BY Zenon, <3>2 DEF JobTypeOK
  <2>2. Forked' BY DEF JobTypeOK, Shell, Stage, Forked
  <2>3. Grouped' BY Zenon DEF JobTypeOK, Shell, Stage, Forked, Grouped
  <2> QED BY Zenon, <2>1, <2>2, <2>3
<1> QED BY Zenon, <1>1, <1>2, <1>3, <1>4, <1>5, <1>6, <1>7

\* A stage that Ctrl+C ends stays in its group.
LEMMA KilledStage ==
  ASSUME NEW s \in Stage
  PROVE  /\ [s EXCEPT !.pc = "zombie", !.ends = {}] \in Stage
         /\ [s EXCEPT !.pc = "zombie", !.ends = {}].pgid = s.pgid
  BY Zenon DEF Stage, StagePc

\* What the stages do on their own, and Ctrl+C.
LEMMA StageIInv ==
  ASSUME JobInv, CtrlC \/ \E k \in Stages : ChildGroup(k) \/ ChildExec(k) \/ ProgramEnds(k)
  PROVE  JobInv'
<1> USE JobAssumption DEF JobInv, ShellPid
<1>1. CASE CtrlC
  <2>1. sh' = sh /\ fg' = fg /\ stage' = [k \in Stages |-> stage'[k]]
    BY Zenon, <1>1 DEF CtrlC
  <2>2. \A k \in Stages :
          \/ stage'[k] = stage[k]
          \/ /\ stage[k].pc \in {"grouped", "running"}
             /\ stage'[k] = [stage[k] EXCEPT !.pc = "zombie", !.ends = {}]
    BY Zenon, <1>1 DEF CtrlC
  <2>3. \A k \in Stages : stage[k] \in Stage
    BY Zenon DEF JobTypeOK
  <2>4. \A k \in Stages :
          /\ stage'[k] \in Stage /\ stage'[k].pgid = stage[k].pgid
          /\ stage[k].pc = "none" => stage'[k].pc = "none"
    <3> TAKE k \in Stages
    <3>1. CASE stage'[k] = stage[k]
      BY Zenon, <3>1, <2>3
    <3>2. CASE stage[k].pc \in {"grouped", "running"} /\ stage'[k] = [stage[k] EXCEPT !.pc = "zombie", !.ends = {}]
      <4>1. stage[k].pc # "none"
        BY Zenon, <3>2
      <4>2. /\ [stage[k] EXCEPT !.pc = "zombie", !.ends = {}] \in Stage
            /\ [stage[k] EXCEPT !.pc = "zombie", !.ends = {}].pgid = stage[k].pgid
        BY Zenon, <2>3, KilledStage
      <4> QED BY Zenon, <3>2, <4>1, <4>2
    <3> QED BY Zenon, <3>1, <3>2, <2>2
  <2>5. JobTypeOK'
    <3>1. stage' \in [Stages -> Stage]
      BY Zenon, <2>1, <2>4
    <3>2. sh' \in Shell /\ fg' \in {0, 1}
      BY Zenon, <2>1 DEF JobTypeOK
    <3> QED BY Zenon, <3>1, <3>2 DEF JobTypeOK
  <2>6. Forked'
    BY Zenon, <2>1, <2>4 DEF Forked
  <2>7. Grouped'
    BY Zenon, <2>1, <2>4 DEF Grouped
  <2> QED BY Zenon, <2>5, <2>6, <2>7
<1>2. ASSUME NEW k \in Stages, ChildGroup(k) PROVE JobInv'
  <2> DEFINE g == IF k = 1 THEN k ELSE sh.leader
             r == [stage[k] EXCEPT !.pgid = g, !.pc = "grouped", !.dfl = TRUE]
  <2>1. stage[k] \in Stage /\ stage[k].pc = "forked"
    BY Zenon, <1>2 DEF ChildGroup, JobTypeOK
  <2>2. sh.leader = 1
    BY Zenon, <2>1 DEF Grouped
  <2>3. g = 1
    BY Zenon, <2>2
  <2>4. stage' = [stage EXCEPT ![k] = r] /\ UNCHANGED <<sh, fg>>
    BY Zenon, <1>2, <2>1 DEF ChildGroup, JobTypeOK, Stage
  <2> HIDE DEF g
  <2>5. r \in Stage /\ r.pc = "grouped" /\ r.pgid = 1
    BY Zenon, <2>1, <2>3 DEF Stage, StagePc
  <2> HIDE DEF r
  <2>6. JobTypeOK' BY Zenon, <2>4, <2>5 DEF JobTypeOK
  <2>7. /\ stage'[k] = r
        /\ \A j \in Stages : j # k => stage'[j] = stage[j]
    BY Zenon, <2>4 DEF JobTypeOK
  <2>8. Forked' BY Zenon, <2>1, <2>4, <2>5, <2>7 DEF Forked
  <2>9. Grouped' BY ZenonT(30), <2>1, <2>4, <2>5, <2>7 DEF Grouped
  <2> QED BY Zenon, <2>6, <2>8, <2>9
<1>3. ASSUME NEW k \in Stages, ChildExec(k) PROVE JobInv'
  <2> USE <1>3 DEF ChildExec, Kept
  <2>1. JobTypeOK' BY DEF JobTypeOK, Shell, ShellPc, Stage, StagePc, Forked
  <2>2. Forked' BY Zenon DEF JobTypeOK, Shell, Stage, Forked
  <2>3. Grouped' BY DEF JobTypeOK, Shell, Stage, Forked, Grouped
  <2> QED BY Zenon, <2>1, <2>2, <2>3
<1>4. ASSUME NEW k \in Stages, ProgramEnds(k) PROVE JobInv'
  <2> USE <1>4 DEF ProgramEnds
  <2>1. JobTypeOK' BY DEF JobTypeOK, Shell, ShellPc, Stage, StagePc, Forked
  <2>2. Forked' BY Zenon DEF JobTypeOK, Shell, Stage, Forked
  <2>3. Grouped' BY DEF JobTypeOK, Shell, Stage, Forked, Grouped
  <2> QED BY Zenon, <2>1, <2>2, <2>3
<1> QED BY Zenon, <1>1, <1>2, <1>3, <1>4

LEMMA NextJobInv == JobInv /\ [JobNext]_jobVars => JobInv'
<1> SUFFICES ASSUME JobInv, [JobNext]_jobVars PROVE JobInv'
  BY Zenon
<1>1. CASE JobNext
  BY Zenon, <1>1, ReadIInv, ShellIInv, StageIInv DEF JobNext
<1>2. CASE UNCHANGED jobVars
  BY <1>2 DEF JobInv, JobTypeOK, Forked, Grouped, jobVars
<1> QED BY Zenon, <1>1, <1>2

\* For pipelines of any length, whichever fork fails and in whatever order the
\* shell and the stages run: with the terminal handed over, every stage is in
\* the foreground group, and the prompt finds no stage, no pipe end and no
\* terminal left behind.
THEOREM JobsAreContained == JobSpec => []JobsContained
<1>1. JobInv => JobsContained
  BY Zenon DEF JobInv, JobTypeOK, Forked, Grouped, JobsContained, PromptClean, GroupWhole, ShellPid
<1> QED BY InitJobInv, NextJobInv, <1>1, PTL DEF JobSpec

-----------------------------------------------------------------------------
(* Signals, for a stack of any size, any number of signals and any nesting of handlers.
   ContextsIntact compares each saved frame with the activation it belongs to.
   That no later push reaches it needs the places: Nest says that every activation, with
   its words, its return address and the frame it was entered through, lies below
   everything of the ones before it, and that rsp is where the last one ends.
   TopStep, FrameStep and ReturnStep are the three ways the stack changes.       *)

\* The task's signal state.
TaskRec == [state : {"user", "reading", "dead", "astray"}, img : {"old", "new"}, pending : SUBSET Sig,
            actions : [Sig -> {SIG_DFL, SIG_IGN, Bare, "old", "new"}]]
\* An activation: main, a handler, or a handler that has returned into the restorer.
ActRec == [code : {"main", "handler", Restorer}, rax : Int, words : Nat, base : Nat]

\* where rsp is while activation a runs
Rsp(a) == a.base - a.words + (IF a.code = Restorer THEN 1 ELSE 0)
\* The registers of activation a.
Context(a) == Regs(a.code, a.rax, Rsp(a))

\* activation k of a as it lies on the stack
Lies(st, a, k) ==
  /\ (k = 1) <=> (a[k].code = "main")
  /\ k = 1 => a[k].base = StackTop + 1
  /\ k > 1 => a[k].base % 2 = 1
  /\ a[k].words < a[k].base
  /\ a[k].code = Restorer => a[k].words = 0
  /\ a[k].code = "handler" => st[a[k].base] = Return
  /\ \A i \in 1 .. a[k].words : st[a[k].base - i] = Word(k, i)

\* The frame under activation k holds the context it interrupted.
Saved(st, a, k) == st[a[k].base + 1] = Frame(Context(a[k - 1]))

\* Activation k starts below what activation j has on the stack, its frame included.
Below(a, j, k) == a[k].base + 1 < a[j].base - a[j].words

\* The activations lie on the stack one below the other, each with its frame, its return address and its words.
Nest(r, st, a) ==
  /\ a \in Seq(ActRec) /\ Len(a) >= 1
  /\ DOMAIN st = 1 .. StackTop /\ st = [s \in 1 .. StackTop |-> st[s]]
  /\ r = Context(a[Len(a)])
  /\ \A k \in 1 .. Len(a) : Lies(st, a, k)
  /\ \A k \in 2 .. Len(a) : Saved(st, a, k)
  /\ \A k \in 1 .. Len(a) : \A j \in 1 .. k - 1 : Below(a, j, k)

\* The inductive invariant.
SigInv == sigTask \in TaskRec /\ (Alive => Nest(uregs, ustack, acts))

-----------------------------------------------------------------------------

\* The frame goes below rsp, aligned.
LEMMA SlotFacts ==
  ASSUME NEW rsp \in Nat
  PROVE  /\ FrameSlot(rsp) \in Int /\ FrameSlot(rsp) < rsp /\ FrameSlot(rsp) >= rsp - 2
         /\ FrameSlot(rsp) % 2 = 0
  BY DEF FrameSlot

\* The words of an activation are on the stack,
LEMMA WordSlot ==
  ASSUME NEW B \in Nat, NEW W \in Nat, W < B, B <= StackTop + 1, NEW i \in 1 .. W
  PROVE  B - i \in 1 .. StackTop
  BY SigAssumption

\* above whatever is below it.
LEMMA WordAbove ==
  ASSUME NEW B \in Nat, NEW W \in Nat, NEW x \in Int, x < B - W, NEW i \in 1 .. W
  PROVE  B - i > x
  OBVIOUS

\* An activation is not below itself.
LEMMA SelfAbove ==
  ASSUME NEW B \in Nat, NEW W \in Nat
  PROVE  B - W >= B - W /\ B + 1 >= B - W /\ B >= B - W
  OBVIOUS

\* An activation that starts lower ends lower.
LEMMA HigherAbove ==
  ASSUME NEW B \in Nat, NEW W \in Nat, NEW C \in Nat, NEW V \in Nat, C + 1 < B - W
  PROVE  B - W >= C - V /\ B + 1 >= C - V /\ B >= C - V
  OBVIOUS

\* What lies under the first activation is on the stack.
LEMMA UnderTop ==
  ASSUME NEW B \in Nat, NEW W \in Nat, W < B, NEW V \in Nat, B + 1 < (StackTop + 1) - V
  PROVE  B <= StackTop + 1 /\ B \in 1 .. StackTop /\ B + 1 \in 1 .. StackTop
  BY SigAssumption

\* The first activation starts above the stack.
LEMMA TopItself == StackTop + 1 <= StackTop + 1
  BY SigAssumption

\* A word of an activation is no lower than the last activation ends.
LEMMA WordHigh ==
  ASSUME NEW B \in Nat, NEW W \in Nat, NEW C \in Nat, NEW V \in Nat, NEW i \in 1 .. W,
         B - W >= C - V
  PROVE  B - i >= C - V
  OBVIOUS

\* A slot under the last activation is under every one,
LEMMA UnderAll ==
  ASSUME NEW x \in Int, NEW B \in Nat, NEW W \in Nat, NEW C \in Nat, NEW V \in Nat,
         x < C - V, B - W >= C - V
  PROVE  x < B - W
  OBVIOUS

\* under the first slot of each,
LEMMA UnderBase ==
  ASSUME NEW x \in Int, NEW B \in Nat, NEW W \in Nat, x < B - W
  PROVE  B > x /\ B + 1 > x
  OBVIOUS

\* and on the stack.
LEMMA SlotInside ==
  ASSUME NEW x \in Int, x >= 2, NEW B \in Nat, NEW W \in Nat, B <= StackTop + 1, x < B - W
  PROVE  x \in 1 .. StackTop /\ x - 1 \in 1 .. StackTop
  BY SigAssumption

\* The restorer has popped its address: two below rsp is under its activation.
LEMMA UnderRestorer ==
  ASSUME NEW B \in Nat
  PROVE  (B + 1) - 2 < B - 0
  OBVIOUS

\* A push goes to the slot under rsp.
LEMMA PushRoom ==
  ASSUME NEW B \in Nat, NEW W \in Nat, B <= StackTop + 1, B - W > 1
  PROVE  B - W - 1 \in 1 .. StackTop /\ W + 1 < B
  BY SigAssumption

\* A word is no lower than the last one,
LEMMA WordNotLower ==
  ASSUME NEW B \in Nat, NEW W \in Nat, NEW i \in 1 .. W
  PROVE  B - i >= B - W
  OBVIOUS

\* and one more word is one slot lower.
LEMMA OneLower ==
  ASSUME NEW B \in Nat, NEW W \in Nat
  PROVE  B - (W + 1) + 0 = (B - W) - 1
  OBVIOUS

\* Where an activation is, and that the last one is the lowest.
LEMMA Places ==
  ASSUME NEW r, NEW st, NEW a, Nest(r, st, a), NEW k \in 1 .. Len(a)
  PROVE  /\ a[k].base \in Nat /\ a[k].words \in Nat /\ a[k].words < a[k].base
         /\ a[k].base <= StackTop + 1
         /\ k # 1 => a[k].base \in 1 .. StackTop /\ a[k].base + 1 \in 1 .. StackTop
         /\ a[k].base - a[k].words >= a[Len(a)].base - a[Len(a)].words
         /\ a[k].base + 1 >= a[Len(a)].base - a[Len(a)].words
         /\ a[k].base >= a[Len(a)].base - a[Len(a)].words
<1> PICK n : n = Len(a) BY Zenon
<1>0. n \in Nat /\ n >= 1 /\ k \in Nat BY DEF Nest
<1>1. a[k] \in ActRec /\ a[1] \in ActRec /\ a[n] \in ActRec BY <1>0 DEF Nest
<1>2. /\ a[k].base \in Nat /\ a[k].words \in Nat /\ a[1].base \in Nat /\ a[1].words \in Nat
      /\ a[n].base \in Nat /\ a[n].words \in Nat
  BY Zenon, <1>1 DEF ActRec
<1>3. a[1].base = StackTop + 1 BY <1>0 DEF Nest, Lies
<1>4. k # 1 => a[k].base + 1 < a[1].base - a[1].words BY <1>0 DEF Nest, Below
<1>5. k # n => a[n].base + 1 < a[k].base - a[k].words BY <1>0 DEF Nest, Below
<1>6. a[k].words < a[k].base BY Zenon, <1>0 DEF Nest, Lies
<1>7. /\ a[k].base <= StackTop + 1
      /\ k # 1 => a[k].base \in 1 .. StackTop /\ a[k].base + 1 \in 1 .. StackTop
  <2>1. CASE k = 1
    BY Zenon, <2>1, <1>3, TopItself
  <2>2. CASE k # 1
    <3>1. a[k].base + 1 < (StackTop + 1) - a[1].words BY Zenon, <2>2, <1>3, <1>4
    <3> QED BY Zenon, <3>1, <1>2, <1>6, UnderTop
  <2> QED BY Zenon, <2>1, <2>2
<1>8. /\ a[k].base - a[k].words >= a[n].base - a[n].words
      /\ a[k].base + 1 >= a[n].base - a[n].words
      /\ a[k].base >= a[n].base - a[n].words
  <2>1. CASE k = n
    <3>1. /\ a[n].base - a[n].words >= a[n].base - a[n].words
          /\ a[n].base + 1 >= a[n].base - a[n].words
          /\ a[n].base >= a[n].base - a[n].words
      BY Zenon, <1>2, SelfAbove
    <3> QED BY Zenon, <2>1, <3>1
  <2>2. CASE k # n
    <3>1. a[n].base + 1 < a[k].base - a[k].words BY Zenon, <2>2, <1>5
    <3> QED BY Zenon, <3>1, <1>2, HigherAbove
  <2> QED BY Zenon, <2>1, <2>2
<1> QED BY Zenon, <1>2, <1>6, <1>7, <1>8

\* The last activation old becomes b: only the stack below it has changed, and b's words are there.
TopFits(st, st2, n, old, b) ==
  /\ b.base = old.base /\ b.words < b.base /\ (b.code = Restorer => b.words = 0)
  /\ b.code = old.code \/ (old.code = "handler" /\ b.code = Restorer)
  /\ DOMAIN st2 = 1 .. StackTop /\ st2 = [s \in 1 .. StackTop |-> st2[s]]
  /\ \A s \in 1 .. StackTop : s >= old.base - old.words => st2[s] = st[s]
  /\ \A i \in 1 .. b.words : st2[b.base - i] = Word(n, i)

\* The last element of a sequence is replaced.
LEMMA TopSeq ==
  ASSUME NEW S, NEW a \in Seq(S), NEW b \in S, Len(a) >= 1
  PROVE  /\ [a EXCEPT ![Len(a)] = b] \in Seq(S) /\ Len([a EXCEPT ![Len(a)] = b]) = Len(a)
         /\ [a EXCEPT ![Len(a)] = b][Len(a)] = b
         /\ \A k \in 1 .. Len(a) : k # Len(a) => [a EXCEPT ![Len(a)] = b][k] = a[k]
  OBVIOUS

\* The last activation pushes, pops, returns into the restorer or gets the result of a call.
LEMMA TopStep ==
  ASSUME NEW r, NEW st, NEW a, Nest(r, st, a), NEW b \in ActRec, NEW st2,
         TopFits(st, st2, Len(a), a[Len(a)], b)
  PROVE  Nest(Context(b), st2, [a EXCEPT ![Len(a)] = b])
<1>a. /\ b.base = a[Len(a)].base /\ b.words < b.base /\ (b.code = Restorer => b.words = 0)
      /\ b.code = a[Len(a)].code \/ (a[Len(a)].code = "handler" /\ b.code = Restorer)
      /\ DOMAIN st2 = 1 .. StackTop /\ st2 = [s \in 1 .. StackTop |-> st2[s]]
      /\ \A s \in 1 .. StackTop : s >= a[Len(a)].base - a[Len(a)].words => st2[s] = st[s]
      /\ \A i \in 1 .. b.words : st2[b.base - i] = Word(Len(a), i)
  BY Zenon DEF TopFits
<1> PICK c : c = [a EXCEPT ![Len(a)] = b] BY Zenon
<1>0. /\ a \in Seq(ActRec) /\ Len(a) \in Nat /\ Len(a) >= 1 /\ DOMAIN a = 1 .. Len(a)
      /\ \A k \in 1 .. Len(a) : a[k] \in ActRec
      /\ Len(a) \in 1 .. Len(a)
  BY DEF Nest
<1>1. /\ c \in Seq(ActRec) /\ Len(c) = Len(a) /\ c[Len(a)] = b
      /\ \A k \in 1 .. Len(a) : k # Len(a) => c[k] = a[k]
  BY ZenonT(30), <1>0, TopSeq
<1>3. ASSUME NEW k \in 1 .. Len(a) PROVE Lies(st2, c, k)
  <2>1. Lies(st, a, k) BY Zenon DEF Nest
  <2>2. CASE k = Len(a)
    <3>1. c[k] = b BY Zenon, <2>2, <1>1
    <3>2. b.code = "handler" => st2[b.base] = Return
      <4> SUFFICES ASSUME b.code = "handler" PROVE st2[b.base] = Return BY Zenon
      <4>1. a[k].code = "handler" /\ st[a[k].base] = Return /\ k # 1 BY Zenon, <1>a, <2>1, <2>2 DEF Lies, Restorer
      <4>3. a[k].base \in 1 .. StackTop BY Zenon, <4>1, Places
      <4>4. a[k].base >= a[Len(a)].base - a[Len(a)].words BY Zenon, Places
      <4> QED BY Zenon, <1>a, <4>1, <4>3, <4>4, <2>2
    <3> QED BY Zenon, <1>a, <3>1, <3>2, <2>1, <2>2, <1>0 DEF Lies, Restorer
  <2>3. CASE k # Len(a)
    <3>1. c[k] = a[k] BY Zenon, <2>3, <1>1
    <3>3. a[k].code = "handler" => st2[a[k].base] = Return
      <4> SUFFICES ASSUME a[k].code = "handler" PROVE st2[a[k].base] = Return BY Zenon
      <4>1. st[a[k].base] = Return /\ k # 1 BY Zenon, <2>1 DEF Lies
      <4>3. a[k].base \in 1 .. StackTop BY Zenon, <4>1, Places
      <4>4. a[k].base >= a[Len(a)].base - a[Len(a)].words BY Zenon, Places
      <4> QED BY Zenon, <1>a, <4>1, <4>3, <4>4
    <3>4. ASSUME NEW i \in 1 .. a[k].words PROVE st2[a[k].base - i] = Word(k, i)
      <4>1. st[a[k].base - i] = Word(k, i) BY Zenon, <2>1 DEF Lies
      <4>2. a[k].base - i \in 1 .. StackTop
        <5>1. a[k].base \in Nat /\ a[k].words \in Nat /\ a[k].words < a[k].base /\ a[k].base <= StackTop + 1 BY Zenon, Places
        <5> QED BY Zenon, <5>1, WordSlot, SigAssumption
      <4>3. a[k].base - i >= a[Len(a)].base - a[Len(a)].words
        <5>1. /\ a[k].base \in Nat /\ a[k].words \in Nat
              /\ a[k].base - a[k].words >= a[Len(a)].base - a[Len(a)].words BY Zenon, Places
        <5>2. a[Len(a)].base \in Nat /\ a[Len(a)].words \in Nat BY Zenon, Places, <1>0
        <5> QED BY Zenon, <5>1, <5>2, WordHigh
      <4> QED BY Zenon, <1>a, <4>1, <4>2, <4>3
    <3> QED BY Zenon, <3>1, <3>3, <3>4, <2>1 DEF Lies
  <2> QED BY Zenon, <2>2, <2>3
<1>4. ASSUME NEW k \in 2 .. Len(a) PROVE Saved(st2, c, k)
  <2>1. Saved(st, a, k) BY Zenon DEF Nest
  <2>2. c[k].base = a[k].base /\ c[k - 1] = a[k - 1] BY <1>a, <1>0, <1>1
  <2>3. k \in 1 .. Len(a) /\ k # 1 BY <1>0
  <2>4. a[k].base + 1 \in 1 .. StackTop BY Zenon, <2>3, Places
  <2>5. a[k].base + 1 >= a[Len(a)].base - a[Len(a)].words BY Zenon, <2>3, Places
  <2> QED BY Zenon, <1>a, <2>1, <2>2, <2>4, <2>5 DEF Saved
<1>5. ASSUME NEW k \in 1 .. Len(a), NEW j \in 1 .. k - 1 PROVE Below(c, j, k)
  <2>1. Below(a, j, k) BY Zenon DEF Nest
  <2>2. c[k].base = a[k].base /\ c[j] = a[j] BY <1>a, <1>0, <1>1
  <2> QED BY Zenon, <2>1, <2>2 DEF Below
<1> QED BY Zenon, <1>a, <1>0, <1>1, <1>3, <1>4, <1>5 DEF Nest

\* A frame is pushed and a handler entered: the signal delivery of signal_deliver_on_return.
LEMMA FrameStep ==
  ASSUME NEW r, NEW st, NEW a, Nest(r, st, a), FrameSlot(r.rsp) >= 2
  PROVE  Nest(Regs("handler", r.rax, FrameSlot(r.rsp) - 1),
              [st EXCEPT ![FrameSlot(r.rsp)] = Frame(r), ![FrameSlot(r.rsp) - 1] = Return],
              Append(a, Activation("handler", r.rax, FrameSlot(r.rsp) - 1)))
<1> PICK n : n = Len(a) BY Zenon
<1> PICK slot : slot = FrameSlot(r.rsp) BY Zenon
<1> PICK b : b = Activation("handler", r.rax, slot - 1) BY Zenon
<1> PICK c : c = Append(a, b) BY Zenon
<1> PICK st2 : st2 = [st EXCEPT ![slot] = Frame(r), ![slot - 1] = Return] BY Zenon
<1>0. /\ a \in Seq(ActRec) /\ n \in Nat /\ n >= 1 /\ DOMAIN a = 1 .. n
      /\ \A k \in 1 .. n : a[k] \in ActRec
  BY DEF Nest
<1>1. r = Context(a[n]) /\ Lies(st, a, n) /\ DOMAIN st = 1 .. StackTop BY <1>0 DEF Nest
<1>2. \A k \in 1 .. n : a[k].base \in Nat /\ a[k].words \in Nat /\ a[k].base <= StackTop + 1 /\ a[k].words < a[k].base
  BY Zenon, Places
<1>3. r.rsp = Rsp(a[n]) /\ r.rax = a[n].rax /\ r.code = a[n].code BY Zenon, <1>1 DEF Context, Regs
<1>4. slot \in Int /\ slot >= 2 /\ slot % 2 = 0 /\ slot < a[n].base - a[n].words
  <2>1. r.rsp \in Nat BY <1>3, <1>2, <1>0 DEF Rsp
  <2>2. CASE a[n].code # Restorer 
    <3>1. r.rsp = a[n].base - a[n].words + 0 BY Zenon, <2>2, <1>3 DEF Rsp
    <3>2. a[n].base \in Nat /\ a[n].words \in Nat BY <1>2, <1>0
    <3>3. r.rsp = a[n].base - a[n].words BY <3>1, <3>2
    <3>4. slot \in Int /\ slot % 2 = 0 /\ slot < r.rsp BY Zenon, <2>1, SlotFacts
    <3> QED BY Zenon, <3>3, <3>4
  <2>3. CASE a[n].code = Restorer
    <3>1. a[n].words = 0 /\ n # 1 /\ a[n].base % 2 = 1 BY <2>3, <1>1, <1>0 DEF Lies, Restorer
    <3>2. r.rsp = a[n].base + 1 BY <3>1, <2>3, <1>3, <1>2, <1>0 DEF Rsp
    <3>3. a[n].base \in Nat BY <1>2, <1>0
    <3>4. r.rsp - 1 = a[n].base BY <3>2, <3>3
    <3>5. slot = r.rsp - 2 BY Zenon, <3>1, <3>4 DEF FrameSlot
    <3>6. slot \in Int /\ slot % 2 = 0 BY Zenon, <2>1, SlotFacts
    <3>7. slot < a[n].base - a[n].words BY Zenon, <3>1, <3>2, <3>3, <3>5, UnderRestorer
    <3> QED BY Zenon, <3>6, <3>7
  <2> QED BY Zenon, <2>2, <2>3
<1>5. \A k \in 1 .. n : slot < a[k].base - a[k].words
  <2> SUFFICES ASSUME NEW k \in 1 .. n PROVE slot < a[k].base - a[k].words BY Zenon
  <2>1. a[k].base - a[k].words >= a[n].base - a[n].words BY Zenon, Places
  <2>2. a[k].base \in Nat /\ a[k].words \in Nat /\ a[n].base \in Nat /\ a[n].words \in Nat BY <1>2, <1>0
  <2> QED BY Zenon, <2>1, <2>2, <1>4, UnderAll
<1>6. slot \in 1 .. StackTop /\ slot - 1 \in 1 .. StackTop
  <2>1. a[n].base \in Nat /\ a[n].words \in Nat /\ a[n].base <= StackTop + 1 BY <1>2, <1>0
  <2> QED BY Zenon, <2>1, <1>4, SlotInside
<1>7. /\ DOMAIN st2 = 1 .. StackTop /\ st2 = [s \in 1 .. StackTop |-> st2[s]]
      /\ st2[slot] = Frame(r) /\ st2[slot - 1] = Return
      /\ \A s \in 1 .. StackTop : s > slot => st2[s] = st[s]
  <2>0. st = [s \in 1 .. StackTop |-> st[s]] BY Zenon DEF Nest
  <2>1. st2 = [s \in 1 .. StackTop |-> IF s = slot - 1 THEN Return ELSE IF s = slot THEN Frame(r) ELSE st[s]]
    BY Zenon, <2>0, <1>6, <1>4
  <2>2. slot # slot - 1 /\ \A s \in 1 .. StackTop : s > slot => s # slot /\ s # slot - 1 BY <1>4
  <2> QED BY Zenon, <2>1, <2>2, <1>6
<1>8. b \in ActRec /\ b.code = "handler" /\ b.base = slot - 1 /\ b.words = 0 /\ b.rax = r.rax
  <2>1. r.rax \in Int BY SMTT(30), <1>3, <1>0 DEF ActRec
  <2> QED BY <2>1, <1>4 DEF ActRec, Activation
<1>9. /\ c \in Seq(ActRec) /\ Len(c) = n + 1 /\ c[n + 1] = b
      /\ \A k \in 1 .. n : c[k] = a[k]
  BY <1>0, <1>8
<1>10. ASSUME NEW k \in 1 .. n + 1 PROVE Lies(st2, c, k)
  <2>1. CASE k = n + 1
    <3>1. (slot - 1) % 2 = 1 BY <1>4
    <3>2. c[k] = b /\ k # 1 /\ k > 1 BY <2>1, <1>9, <1>0
    <3> QED BY SMTT(30), <3>1, <3>2, <1>8, <1>7, <1>4 DEF Lies, Restorer
  <2>2. CASE k # n + 1
    <3>0. k \in 1 .. n /\ c[k] = a[k] BY <2>2, <1>9, <1>0
    <3>1. Lies(st, a, k) BY Zenon, <3>0 DEF Nest
    <3>2. a[k].base \in Nat /\ a[k].words \in Nat /\ a[k].base <= StackTop + 1 /\ slot < a[k].base - a[k].words
      BY Zenon, <3>0, <1>2, <1>5
    <3>3. a[k].code = "handler" => st2[a[k].base] = Return
      <4> SUFFICES ASSUME a[k].code = "handler" PROVE st2[a[k].base] = Return BY Zenon
      <4>1. st[a[k].base] = Return /\ k # 1 BY Zenon, <3>1 DEF Lies
      <4>3. a[k].base \in 1 .. StackTop BY Zenon, <4>1, <3>0, Places
      <4>4. a[k].base > slot BY Zenon, <3>2, <1>4, UnderBase
      <4> QED BY Zenon, <4>1, <4>3, <4>4, <1>7
    <3>4. ASSUME NEW i \in 1 .. a[k].words PROVE st2[a[k].base - i] = Word(k, i)
      <4>1. st[a[k].base - i] = Word(k, i) BY Zenon, <3>1 DEF Lies
      <4>2. a[k].words < a[k].base BY Zenon, <3>1 DEF Lies
      <4>3. a[k].base - i \in 1 .. StackTop BY Zenon, <4>2, <3>2, WordSlot, SigAssumption
      <4>4. a[k].base - i > slot BY Zenon, <3>2, WordAbove, <1>4
      <4> QED BY Zenon, <4>1, <4>3, <4>4, <1>7
    <3> QED BY Zenon, <3>0, <3>1, <3>3, <3>4 DEF Lies
  <2> QED BY ZenonT(30), <2>1, <2>2
<1>11. ASSUME NEW k \in 2 .. n + 1 PROVE Saved(st2, c, k)
  <2>1. CASE k = n + 1
    <3>1. c[k].base + 1 = slot /\ c[k - 1] = a[n] BY <2>1, <1>9, <1>8, <1>4, <1>0
    <3> QED BY Zenon, <3>1, <1>7, <1>1 DEF Saved
  <2>2. CASE k # n + 1
    <3>0. k \in 2 .. n /\ c[k] = a[k] /\ c[k - 1] = a[k - 1] BY <2>2, <1>9, <1>0
    <3>1. Saved(st, a, k) BY Zenon, <3>0 DEF Nest
    <3>2. k \in 1 .. n /\ k # 1 BY <3>0, <1>0
    <3>3. a[k].base + 1 \in 1 .. StackTop BY Zenon, <3>2, Places
    <3>4. a[k].base \in Nat /\ a[k].words \in Nat /\ slot < a[k].base - a[k].words BY Zenon, <1>5, <1>2, <3>2
    <3>5. a[k].base + 1 > slot BY Zenon, <3>4, <1>4, UnderBase
    <3> QED BY Zenon, <3>0, <3>1, <3>3, <3>5, <1>7 DEF Saved
  <2> QED BY Zenon, <2>1, <2>2
<1>12. ASSUME NEW k \in 1 .. n + 1, NEW j \in 1 .. k - 1 PROVE Below(c, j, k)
  <2>1. CASE k = n + 1
    <3>1. c[k].base + 1 = slot /\ c[j] = a[j] /\ j \in 1 .. n BY <2>1, <1>9, <1>8, <1>4, <1>0
    <3> QED BY Zenon, <3>1, <1>5 DEF Below
  <2>2. CASE k # n + 1
    <3>0. k \in 1 .. n /\ c[k] = a[k] /\ c[j] = a[j] BY <2>2, <1>9, <1>0
    <3>1. Below(a, j, k) BY Zenon, <3>0 DEF Nest
    <3> QED BY Zenon, <3>0, <3>1 DEF Below
  <2> QED BY Zenon, <2>1, <2>2
<1>13. Regs("handler", r.rax, slot - 1) = Context(c[n + 1])
  <2>1. Rsp(b) = slot - 1 BY <1>8, <1>4 DEF Rsp, Restorer
  <2> QED BY Zenon, <2>1, <1>8, <1>9 DEF Context
<1>14. Nest(Regs("handler", r.rax, slot - 1), st2, c)
  <2>1. Len(c) = n + 1 /\ Len(c) >= 1 BY <1>9, <1>0
  <2>2. \A k \in 1 .. Len(c) : Lies(st2, c, k) BY Zenon, <2>1, <1>10
  <2>3. \A k \in 2 .. Len(c) : Saved(st2, c, k) BY Zenon, <2>1, <1>11
  <2>4. \A k \in 1 .. Len(c) : \A j \in 1 .. k - 1 : Below(c, j, k) BY Zenon, <2>1, <1>12
  <2>5. Regs("handler", r.rax, slot - 1) = Context(c[Len(c)]) BY Zenon, <2>1, <1>13
  <2> QED BY Zenon, <2>1, <2>2, <2>3, <2>4, <2>5, <1>7, <1>9 DEF Nest
<1> QED BY Zenon, <1>14

\* The restorer's sigreturn brings back the context below.
LEMMA ReturnStep ==
  ASSUME NEW r, NEW st, NEW a, Nest(r, st, a), r.code = Restorer
  PROVE  Nest(st[r.rsp].regs, st, SubSeq(a, 1, Len(a) - 1))
<1> PICK n : n = Len(a) BY Zenon
<1> PICK c : c = SubSeq(a, 1, n - 1) BY Zenon
<1>0. /\ a \in Seq(ActRec) /\ n \in Nat /\ n >= 1 /\ DOMAIN a = 1 .. n
      /\ \A k \in 1 .. n : a[k] \in ActRec
  BY DEF Nest
<1>1. r = Context(a[n]) /\ Lies(st, a, n) BY <1>0 DEF Nest
<1>2. a[n].code = Restorer /\ a[n].words = 0 /\ n # 1 /\ a[n].base \in Nat
  BY <1>0, <1>1 DEF Context, Regs, Lies, Restorer, ActRec
<1>3. r.rsp = a[n].base + 1 BY <1>1, <1>2 DEF Context, Regs, Rsp
<1>4. Saved(st, a, n) BY <1>0, <1>2 DEF Nest
<1>5. st[r.rsp].regs = Context(a[n - 1]) BY <1>3, <1>4 DEF Saved, Frame
<1>6. c \in Seq(ActRec) /\ Len(c) = n - 1 /\ \A k \in 1 .. n - 1 : c[k] = a[k] BY <1>0, <1>2
<1>7. \A k \in 1 .. n - 1 : Lies(st, c, k)
  <2> SUFFICES ASSUME NEW k \in 1 .. n - 1 PROVE Lies(st, c, k) BY Zenon
  <2>1. c[k] = a[k] /\ Lies(st, a, k) BY <1>0, <1>6 DEF Nest
  <2> QED BY Zenon, <2>1 DEF Lies
<1>8. \A k \in 2 .. n - 1 : Saved(st, c, k)
  <2> SUFFICES ASSUME NEW k \in 2 .. n - 1 PROVE Saved(st, c, k) BY Zenon
  <2>1. c[k] = a[k] /\ c[k - 1] = a[k - 1] /\ Saved(st, a, k) BY <1>0, <1>6 DEF Nest
  <2> QED BY Zenon, <2>1 DEF Saved
<1>9. \A k \in 1 .. n - 1 : \A j \in 1 .. k - 1 : Below(c, j, k)
  <2> SUFFICES ASSUME NEW k \in 1 .. n - 1, NEW j \in 1 .. k - 1 PROVE Below(c, j, k) BY Zenon
  <2>1. c[k] = a[k] /\ c[j] = a[j] /\ Below(a, j, k) BY <1>0, <1>6 DEF Nest
  <2> QED BY Zenon, <2>1 DEF Below
<1>10. c[n - 1] = a[n - 1] /\ n - 1 >= 1 BY <1>6, <1>0, <1>2
<1> QED BY Zenon, <1>5, <1>6, <1>7, <1>8, <1>9, <1>10 DEF Nest

\* A new image starts with main alone on the stack.
LEMMA FreshStack ==
  Nest(Regs("main", 0, StackTop + 1), [s \in 1 .. StackTop |-> Unused], <<Activation("main", 0, StackTop + 1)>>)
<1> PICK b : b = Activation("main", 0, StackTop + 1) BY Zenon
<1> PICK st : st = [s \in 1 .. StackTop |-> Unused] BY Zenon
<1>1. b \in ActRec /\ b.words = 0 /\ b.base = StackTop + 1 /\ b.code = "main" /\ b.rax = 0
  BY SigAssumption DEF Activation, ActRec
<1>2. <<b>> \in Seq(ActRec) /\ Len(<<b>>) = 1 /\ <<b>>[1] = b BY <1>1
<1>3. Context(b) = Regs("main", 0, StackTop + 1) BY <1>1, SigAssumption DEF Context, Rsp, Restorer
<1>4. Lies(st, <<b>>, 1) BY <1>1, <1>2, SigAssumption DEF Lies, Restorer
<1>5. Nest(Regs("main", 0, StackTop + 1), st, <<b>>) BY <1>2, <1>3, <1>4 DEF Nest
<1> QED BY Zenon, <1>5

\* The invariant after a step, from its parts.
LEMMA InvPrime ==
  ASSUME sigTask' \in TaskRec, Nest(uregs', ustack', acts')
  PROVE  SigInv'
  BY Zenon DEF SigInv, Nest, Lies, Saved, Below

\* the outcome in which a handler starts
Enters(o, r, st) ==
  /\ ~(FrameSlot(r.rsp) < 2) /\ o.enters = TRUE
  /\ o.regs = Regs("handler", r.rax, FrameSlot(r.rsp) - 1)
  /\ o.stack = [st EXCEPT ![FrameSlot(r.rsp)] = Frame(r), ![FrameSlot(r.rsp) - 1] = Return]

\* signal_deliver_on_return: no signal, the end of the task, or a handler entered; at most the lowest pending signal is taken.
LEMMA Outcomes ==
  ASSUME NEW t \in TaskRec, NEW r, NEW st, NEW o, o = signal_deliver_on_return(t, r, st)
  PROVE  /\ o.task \in TaskRec
         /\ o.task.pending = t.pending \/ o.task.pending = t.pending \ {Min(t.pending)}
         /\ \/ o.task.state \in {"dead", "astray"}
            \/ o.enters = FALSE /\ o.regs = r /\ o.stack = st
            \/ Enters(o, r, st)
<1> PICK s : s = Min(t.pending) BY Zenon
<1> PICK rest : rest = TakeLowest(t) BY Zenon
<1> PICK d : d = Disposition(t, s) BY Zenon
<1>1. rest \in TaskRec /\ rest.pending = t.pending \ {s} BY Zenon DEF TaskRec, TakeLowest
<1>2. PICK dead : dead = [rest EXCEPT !.state = "dead"] BY Zenon
<1>3. PICK astray : astray = [rest EXCEPT !.state = "astray"] BY Zenon
<1>4. /\ dead \in TaskRec /\ dead.pending = rest.pending /\ dead.state = "dead"
      /\ astray \in TaskRec /\ astray.pending = rest.pending /\ astray.state = "astray"
  BY Zenon, <1>1, <1>2, <1>3 DEF TaskRec
<1>5. \/ o = Outcome(t, r, st, FALSE) \/ o = Outcome(rest, r, st, FALSE)
      \/ o = Outcome(dead, r, st, FALSE) \/ o = Outcome(astray, r, st, FALSE)
      \/ o = PushFrame(rest, r, st, s)
  BY Zenon, <1>2, <1>3 DEF signal_deliver_on_return, SIG_DFL, SIG_IGN, Bare
<1>6. \/ PushFrame(rest, r, st, s) = Outcome(dead, r, st, FALSE)
      \/ /\ ~(FrameSlot(r.rsp) < 2)
         /\ PushFrame(rest, r, st, s)
              = Outcome(rest, Regs("handler", r.rax, FrameSlot(r.rsp) - 1),
                        [st EXCEPT ![FrameSlot(r.rsp)] = Frame(r), ![FrameSlot(r.rsp) - 1] = Return], TRUE)
  BY Zenon, <1>2 DEF PushFrame
<1>7. CASE o = Outcome(t, r, st, FALSE) BY <1>7 DEF Outcome
<1>8. CASE o = Outcome(rest, r, st, FALSE) BY <1>8, <1>1 DEF Outcome
<1>9. CASE o = Outcome(dead, r, st, FALSE) BY <1>9, <1>1, <1>4 DEF Outcome
<1>10. CASE o = Outcome(astray, r, st, FALSE) BY <1>10, <1>1, <1>4 DEF Outcome
<1>11. CASE /\ ~(FrameSlot(r.rsp) < 2)
            /\ o = Outcome(rest, Regs("handler", r.rax, FrameSlot(r.rsp) - 1),
                           [st EXCEPT ![FrameSlot(r.rsp)] = Frame(r), ![FrameSlot(r.rsp) - 1] = Return], TRUE)
  BY <1>11, <1>1 DEF Outcome, Enters
<1> QED BY Zenon, <1>5, <1>6, <1>7, <1>8, <1>9, <1>10, <1>11

\* A return to user mode keeps the invariant, whatever signal_deliver_on_return does.
LEMMA Delivered ==
  ASSUME NEW t \in TaskRec, NEW r, NEW st, NEW a, Nest(r, st, a), ReturnTo(t, r, st, a)
  PROVE  SigInv'
<1> PICK o : o = signal_deliver_on_return(t, r, st) BY Zenon
<1>1. /\ sigTask' = o.task /\ uregs' = o.regs /\ ustack' = o.stack
      /\ acts' = IF o.enters THEN Append(a, Activation("handler", r.rax, o.regs.rsp)) ELSE a
  BY Zenon DEF ReturnTo
<1>2. sigTask' \in TaskRec BY Zenon, <1>1, Outcomes
<1>3. CASE o.task.state \in {"dead", "astray"}
  <2>1. ~Alive' BY Zenon, <1>1, <1>3 DEF Alive
  <2> QED BY Zenon, <2>1, <1>2 DEF SigInv
<1>4. CASE o.enters = FALSE /\ o.regs = r /\ o.stack = st
  <2>1. uregs' = r /\ ustack' = st /\ acts' = a BY Zenon, <1>1, <1>4
  <2>2. Nest(uregs', ustack', acts') BY Zenon, <2>1
  <2> QED BY Zenon, <2>2, <1>2, InvPrime
<1>5. CASE Enters(o, r, st)
  <2>1. o.enters = TRUE /\ o.regs.rsp = FrameSlot(r.rsp) - 1 BY <1>5 DEF Regs, Enters
  <2>2. r.rsp \in Nat
    <3>1. Len(a) \in 1 .. Len(a) /\ r = Context(a[Len(a)]) BY DEF Nest
    <3>2. a[Len(a)].base \in Nat /\ a[Len(a)].words \in Nat /\ a[Len(a)].words < a[Len(a)].base BY Zenon, <3>1, Places
    <3> QED BY <3>1, <3>2 DEF Context, Regs, Rsp
  <2>3. FrameSlot(r.rsp) >= 2 BY <2>2, <1>5, SlotFacts DEF Enters
  <2>4. acts' = Append(a, Activation("handler", r.rax, FrameSlot(r.rsp) - 1)) 
    <3>1. acts' = Append(a, Activation("handler", r.rax, o.regs.rsp)) BY <1>1, <2>1, Zenon
    <3> QED BY <3>1, <2>1, Zenon
  <2>5. Nest(uregs', ustack', acts')
    <3>1. /\ uregs' = Regs("handler", r.rax, FrameSlot(r.rsp) - 1)
          /\ ustack' = [st EXCEPT ![FrameSlot(r.rsp)] = Frame(r), ![FrameSlot(r.rsp) - 1] = Return]
      BY <1>1, <1>5, Zenon DEF Enters
    <3>2. Nest(Regs("handler", r.rax, FrameSlot(r.rsp) - 1),
               [st EXCEPT ![FrameSlot(r.rsp)] = Frame(r), ![FrameSlot(r.rsp) - 1] = Return],
               Append(a, Activation("handler", r.rax, FrameSlot(r.rsp) - 1)))
      BY <2>3, FrameStep, Zenon
    <3> QED BY <3>1, <3>2, <2>4, Zenon
  <2> QED BY Zenon, <2>5, <1>2, InvPrime
<1> QED BY Zenon, <1>3, <1>4, <1>5, Outcomes

\* a system call's result, in the frame and in the activation
LEMMA ResultStep ==
  ASSUME NEW r, NEW st, NEW a, Nest(r, st, a), NEW x \in Int
  PROVE  Nest([r EXCEPT !.rax = x], st, [a EXCEPT ![Len(a)] = [a[Len(a)] EXCEPT !.rax = x]])
<1> PICK n : n = Len(a) BY Zenon
<1> PICK b : b = [a[n] EXCEPT !.rax = x] BY Zenon
<1>1. n \in Nat /\ n >= 1 /\ a[n] \in ActRec /\ Lies(st, a, n) /\ r = Context(a[n]) BY DEF Nest
<1>2. b \in ActRec /\ b.base = a[n].base /\ b.words = a[n].words /\ b.code = a[n].code /\ b.rax = x
  BY Zenon, <1>1 DEF ActRec
<1>3. [r EXCEPT !.rax = x] = Context(b) BY <1>1, <1>2 DEF Context, Regs, Rsp
<1>4. DOMAIN st = 1 .. StackTop /\ st = [s \in 1 .. StackTop |-> st[s]] BY Zenon DEF Nest
<1>5. b.words < b.base /\ (b.code = Restorer => b.words = 0) /\ \A i \in 1 .. b.words : st[b.base - i] = Word(n, i)
  BY Zenon, <1>1, <1>2 DEF Lies
<1>6. TopFits(st, st, n, a[n], b) BY Zenon, <1>2, <1>4, <1>5 DEF TopFits
<1>7. Nest(Context(b), st, [a EXCEPT ![n] = b]) BY Zenon, <1>2, <1>6, TopStep
<1> QED BY Zenon, <1>3, <1>7

\* The invariant holds at the start of the program.
LEMMA InitSigInv == SigInit => SigInv
<1> SUFFICES ASSUME SigInit PROVE SigInv BY Zenon
<1>1. sigTask \in TaskRec BY Zenon DEF SigInit, TaskRec
<1> QED BY Zenon, <1>1, FreshStack DEF SigInit, SigInv

\* A system call that returns x keeps the invariant.
LEMMA CallStep ==
  ASSUME SigInv, Alive, NEW t \in TaskRec, NEW x \in Int,
         ReturnTo(t, [uregs EXCEPT !.rax = x], ustack, TopBecomes([Top EXCEPT !.rax = x]))
  PROVE  SigInv'
<1>1. Nest(uregs, ustack, acts) BY Zenon DEF SigInv
<1>2. Nest([uregs EXCEPT !.rax = x], ustack, TopBecomes([Top EXCEPT !.rax = x])) BY Zenon, <1>1, ResultStep DEF TopBecomes, Top
<1> QED BY Zenon, <1>2, Delivered

\* So does a push,
LEMMA PushStep == SigInv /\ Push => SigInv'
<1> SUFFICES ASSUME SigInv, Push PROVE SigInv' BY Zenon
<1> PICK n : n = Len(acts) BY Zenon
<1> PICK b : b = [acts[n] EXCEPT !.words = @ + 1] BY Zenon
<1> PICK st2 : st2 = [ustack EXCEPT ![uregs.rsp - 1] = Word(n, acts[n].words + 1)] BY Zenon
<1>0. Nest(uregs, ustack, acts) /\ uregs.code # Restorer /\ uregs.rsp > 1 BY Zenon DEF SigInv, Push, InUser, Alive
<1>1. n \in Nat /\ n >= 1 /\ acts[n] \in ActRec /\ Lies(ustack, acts, n) /\ uregs = Context(acts[n]) BY <1>0 DEF Nest
<1>2. DOMAIN ustack = 1 .. StackTop /\ ustack = [s \in 1 .. StackTop |-> ustack[s]] BY Zenon, <1>0 DEF Nest
<1> PICK B : B = acts[n].base BY Zenon
<1> PICK W : W = acts[n].words BY Zenon
<1>3. B \in Nat /\ W \in Nat /\ B <= StackTop + 1 BY <1>0, <1>1, Places
<1>4. acts[n].code # Restorer /\ uregs.rsp = B - W
  <2>1. acts[n].code = uregs.code /\ uregs.rsp = Rsp(acts[n]) BY Zenon, <1>1 DEF Context, Regs
  <2> QED BY <2>1, <1>0, <1>3 DEF Rsp
<1>5. b \in ActRec /\ b.base = B /\ b.words = W + 1 /\ b.code = acts[n].code /\ b.rax = acts[n].rax BY <1>1 DEF ActRec
<1>6. B - W - 1 \in 1 .. StackTop /\ W + 1 < B BY Zenon, <1>3, <1>4, <1>0, PushRoom
<1>7. /\ DOMAIN st2 = 1 .. StackTop /\ st2 = [s \in 1 .. StackTop |-> st2[s]]
      /\ st2[B - W - 1] = Word(n, W + 1)
      /\ \A s \in 1 .. StackTop : s # B - W - 1 => st2[s] = ustack[s]
  BY Zenon, <1>2, <1>4, <1>6
<1>8. \A s \in 1 .. StackTop : s >= B - W => st2[s] = ustack[s] BY SMTT(30), <1>7, <1>3
<1>9. ASSUME NEW i \in 1 .. b.words PROVE st2[B - i] = Word(n, i)
  <2>1. CASE i = W + 1
    <3>1. B - i = B - W - 1 BY <2>1, <1>3
    <3> QED BY Zenon, <3>1, <2>1, <1>7
  <2>2. CASE i # W + 1
    <3>1. i \in 1 .. W BY <2>2, <1>5, <1>3
    <3>2. ustack[B - i] = Word(n, i) /\ W < B BY Zenon, <3>1, <1>1 DEF Lies
    <3>3. B - i \in 1 .. StackTop BY Zenon, <3>1, <3>2, <1>3, WordSlot
    <3>4. B - i >= B - W BY Zenon, <3>1, <1>3, WordNotLower
    <3> QED BY Zenon, <3>2, <3>3, <3>4, <1>8
  <2> QED BY Zenon, <2>1, <2>2
<1>10. Nest(Context(b), st2, [acts EXCEPT ![n] = b])
  <2>1. b.base = acts[n].base /\ b.words < b.base /\ b.code = acts[n].code /\ b.code # Restorer
    BY Zenon, <1>4, <1>5, <1>6
  <2>2. \A s \in 1 .. StackTop : s >= acts[n].base - acts[n].words => st2[s] = ustack[s]
    BY Zenon, <1>8
  <2>3. \A i \in 1 .. b.words : st2[b.base - i] = Word(n, i)
    BY Zenon, <1>5, <1>9
  <2>4. TopFits(ustack, st2, n, acts[n], b) BY Zenon, <2>1, <2>2, <2>3, <1>7 DEF TopFits
  <2> QED BY Zenon, <2>4, <1>0, <1>5, TopStep
<1>11. /\ uregs' = [uregs EXCEPT !.rsp = @ - 1] /\ ustack' = st2 /\ acts' = [acts EXCEPT ![n] = b] /\ sigTask' = sigTask
  BY Zenon DEF Push, TopBecomes, Top
<1>12. uregs' = Context(b)
  <2>1. Rsp(b) = B - (W + 1) + 0 BY Zenon, <1>4, <1>5 DEF Rsp
  <2>2. Rsp(b) = uregs.rsp - 1 BY ZenonT(30), <2>1, <1>3, <1>4, OneLower
  <2>3. uregs = Regs(acts[n].code, acts[n].rax, uregs.rsp) BY Zenon, <1>1 DEF Context, Regs
  <2> QED BY <2>2, <2>3, <1>11, <1>5 DEF Context, Regs
<1>13. Nest(uregs', ustack', acts') BY Zenon, <1>10, <1>11, <1>12
<1> QED BY Zenon, <1>13, <1>11, InvPrime DEF SigInv

\* a pop,
LEMMA PopStep == SigInv /\ Pop => SigInv'
<1> SUFFICES ASSUME SigInv, Pop PROVE SigInv' BY Zenon
<1> PICK n : n = Len(acts) BY Zenon
<1> PICK b : b = [acts[n] EXCEPT !.words = @ - 1] BY Zenon
<1>0. Nest(uregs, ustack, acts) /\ acts[n].words > 0 BY Zenon DEF SigInv, Pop, InUser, Alive, Top
<1>1. n \in Nat /\ n >= 1 /\ acts[n] \in ActRec /\ Lies(ustack, acts, n) /\ uregs = Context(acts[n]) BY <1>0 DEF Nest
<1>2. DOMAIN ustack = 1 .. StackTop /\ ustack = [s \in 1 .. StackTop |-> ustack[s]] BY Zenon, <1>0 DEF Nest
<1> PICK B : B = acts[n].base BY Zenon
<1> PICK W : W = acts[n].words BY Zenon
<1>3. B \in Nat /\ W \in Nat /\ W > 0 /\ W < B BY <1>0, <1>1, Places
<1>4. acts[n].code # Restorer BY <1>1, <1>3 DEF Lies
<1>5. b \in ActRec /\ b.base = B /\ b.words = W - 1 /\ b.code = acts[n].code /\ b.rax = acts[n].rax BY <1>1, <1>3 DEF ActRec
<1>6. W - 1 < B /\ \A i \in 1 .. W - 1 : i \in 1 .. W BY <1>3
<1>7. \A i \in 1 .. b.words : ustack[b.base - i] = Word(n, i) BY ZenonT(30), <1>1, <1>5, <1>6 DEF Lies
<1>8. Nest(Context(b), ustack, [acts EXCEPT ![n] = b])
  <2>1. TopFits(ustack, ustack, n, acts[n], b) BY Zenon, <1>2, <1>4, <1>5, <1>6, <1>7 DEF TopFits
  <2> QED BY Zenon, <2>1, <1>0, <1>5, TopStep
<1>9. /\ uregs' = [uregs EXCEPT !.rsp = @ + 1] /\ ustack' = ustack /\ acts' = [acts EXCEPT ![n] = b] /\ sigTask' = sigTask
  BY Zenon DEF Pop, TopBecomes, Top
<1>10. uregs' = Context(b)
  <2>1. Rsp(b) = B - (W - 1) + 0 /\ Rsp(acts[n]) = B - W + 0 BY Zenon, <1>4, <1>5 DEF Rsp
  <2>2. uregs = Regs(acts[n].code, acts[n].rax, Rsp(acts[n])) BY Zenon, <1>1 DEF Context
  <2>3. Rsp(b) = Rsp(acts[n]) + 1 BY <2>1, <1>3
  <2> QED BY Zenon, <2>2, <2>3, <1>9, <1>5 DEF Context, Regs
<1>11. Nest(uregs', ustack', acts') BY Zenon, <1>8, <1>9, <1>10
<1> QED BY Zenon, <1>11, <1>9, InvPrime DEF SigInv

\* and the return of a handler.
LEMMA RetStep == SigInv /\ HandlerRet => SigInv'
<1> SUFFICES ASSUME SigInv, HandlerRet PROVE SigInv' BY Zenon
<1> PICK n : n = Len(acts) BY Zenon
<1> PICK b : b = [acts[n] EXCEPT !.code = Restorer] BY Zenon
<1>0. Nest(uregs, ustack, acts) /\ uregs.code = "handler" /\ acts[n].words = 0 BY Zenon DEF SigInv, HandlerRet, InUser, Alive, Top
<1>1. n \in Nat /\ n >= 1 /\ acts[n] \in ActRec /\ Lies(ustack, acts, n) /\ uregs = Context(acts[n]) BY <1>0 DEF Nest
<1>2. DOMAIN ustack = 1 .. StackTop /\ ustack = [s \in 1 .. StackTop |-> ustack[s]] BY Zenon, <1>0 DEF Nest
<1> PICK B : B = acts[n].base BY Zenon
<1>3. B \in Nat /\ B > 0 BY <1>0, <1>1, Places
<1>4. acts[n].code = "handler" /\ uregs.rsp = B
  <2>1. acts[n].code = uregs.code /\ uregs.rsp = Rsp(acts[n]) BY Zenon, <1>1 DEF Context, Regs
  <2> QED BY <2>1, <1>0, <1>3 DEF Rsp, Restorer
<1>5. b \in ActRec /\ b.base = B /\ b.words = 0 /\ b.code = Restorer /\ b.rax = acts[n].rax BY Zenon, <1>0, <1>1 DEF ActRec
<1>6. Nest(Context(b), ustack, [acts EXCEPT ![n] = b])
  <2>1. TopFits(ustack, ustack, n, acts[n], b) BY <1>2, <1>3, <1>4, <1>5 DEF TopFits
  <2> QED BY Zenon, <2>1, <1>0, <1>5, TopStep
<1>7. ustack[uregs.rsp] = Return BY Zenon, <1>1, <1>4 DEF Lies
<1>8. /\ uregs' = [uregs EXCEPT !.code = Restorer, !.rsp = @ + 1] /\ ustack' = ustack
      /\ acts' = [acts EXCEPT ![n] = b] /\ sigTask' = sigTask
  BY Zenon, <1>7 DEF HandlerRet, TopBecomes, Top
<1>9. uregs' = Context(b)
  <2>1. Rsp(b) = B + 1 BY <1>3, <1>5 DEF Rsp
  <2>2. uregs = Regs("handler", acts[n].rax, B) BY Zenon, <1>1, <1>4 DEF Context, Regs
  <2>3. uregs' = Regs(Restorer, acts[n].rax, B + 1) BY Zenon, <2>2, <1>8 DEF Regs
  <2> QED BY Zenon, <2>1, <2>3, <1>5 DEF Context
<1>10. Nest(uregs', ustack', acts') BY Zenon, <1>6, <1>8, <1>9
<1> QED BY Zenon, <1>10, <1>8, InvPrime DEF SigInv

\* Every step keeps it.
LEMMA NextSigInv == SigInv /\ [SigNext]_sigVars => SigInv'
<1> SUFFICES ASSUME SigInv, [SigNext]_sigVars PROVE SigInv' BY Zenon
<1>0. sigTask \in TaskRec BY Zenon DEF SigInv
<1>1. ASSUME NEW s \in Sig, signal_send(s) PROVE SigInv'
  <2>1. sigTask' \in TaskRec /\ sigTask'.state = sigTask.state BY Zenon, <1>0, <1>1 DEF signal_send, TaskRec
  <2>2. uregs' = uregs /\ ustack' = ustack /\ acts' = acts BY Zenon, <1>1 DEF signal_send
  <2> QED BY Zenon, <2>1, <2>2 DEF SigInv, Alive, Nest, Lies, Saved, Below
<1>2. ASSUME NEW s \in Sig, NEW a \in Action(sigTask.img), signal_install(s, a) PROVE SigInv'
  <2>1. [sigTask EXCEPT !.actions[s] = a] \in TaskRec
    BY Zenon, <1>0 DEF TaskRec, Action
  <2> QED BY <1>2, <2>1, CallStep DEF signal_install, InUser, Alive
<1>3. ASSUME NEW ret \in {7}, Syscall(ret) PROVE SigInv'
  BY <1>0, <1>3, CallStep DEF Syscall, InUser, Alive
<1>4. CASE ReadBlocks
  <2>1. sigTask' \in TaskRec /\ Alive BY Zenon, <1>0, <1>4 DEF ReadBlocks, TaskRec, InUser, Alive
  <2>2. uregs' = uregs /\ ustack' = ustack /\ acts' = acts BY Zenon, <1>4 DEF ReadBlocks
  <2> QED BY Zenon, <2>1, <2>2 DEF SigInv, Nest, Lies, Saved, Below
<1>5. CASE ReadReturns
  <2>1. [sigTask EXCEPT !.state = "user"] \in TaskRec /\ Alive BY Zenon, <1>0, <1>5 DEF ReadReturns, TaskRec, Alive
  <2> QED BY <1>5, <2>1, CallStep DEF ReadReturns
<1>6. CASE irq_handler
  <2>1. Nest(uregs, ustack, acts) BY Zenon, <1>6 DEF irq_handler, SigInv, InUser, Alive
  <2> QED BY Zenon, <1>0, <1>6, <2>1, Delivered DEF irq_handler
<1>7. CASE ExecHandler
  <2>1. [sigTask EXCEPT !.img = "new"] \in TaskRec BY Zenon, <1>0 DEF TaskRec
  <2> QED BY Zenon, <1>7, <2>1, FreshStack, Delivered DEF ExecHandler
<1>8. CASE signal_sigreturn
  <2>1. Nest(uregs, ustack, acts) /\ uregs.code = Restorer BY Zenon, <1>8 DEF signal_sigreturn, SigInv, InUser, Alive
  <2>2. uregs' = ustack[uregs.rsp].regs /\ ustack' = ustack /\ acts' = SubSeq(acts, 1, Len(acts) - 1) /\ sigTask' = sigTask
    BY Zenon, <1>8 DEF signal_sigreturn
  <2>3. Nest(uregs', ustack', acts') BY Zenon, <2>1, <2>2, ReturnStep
  <2> QED BY Zenon, <1>0, <2>2, <2>3, InvPrime
<1>9. CASE ExecptionHandler
  <2>1. sigTask' \in TaskRec /\ sigTask'.state = "dead" BY Zenon, <1>0, <1>9 DEF ExecptionHandler, TaskRec
  <2> QED BY Zenon, <2>1 DEF SigInv, Alive
<1>10. CASE UNCHANGED sigVars
  <2>1. sigTask' = sigTask /\ uregs' = uregs /\ ustack' = ustack /\ acts' = acts BY Zenon, <1>10 DEF sigVars
  <2> QED BY Zenon, <2>1 DEF SigInv, Alive, Nest, Lies, Saved, Below
<1> QED BY Zenon, <1>1, <1>2, <1>3, <1>4, <1>5, <1>6, <1>7, <1>8, <1>9, <1>10, PushStep, PopStep, RetStep DEF SigNext

\* It says that contexts are intact.
LEMMA SigInvIntact == SigInv => ContextsIntact
<1> SUFFICES ASSUME SigInv, Alive PROVE ContextsIntact BY Zenon DEF ContextsIntact
<1> PICK n : n = Len(acts) BY Zenon
<1>0. Nest(uregs, ustack, acts) BY Zenon DEF SigInv
<1>1. n \in Nat /\ n >= 1 /\ uregs = Context(acts[n]) BY <1>0 DEF Nest
<1>2. uregs.code = Top.code /\ uregs.rax = Top.rax BY Zenon, <1>1 DEF Top, Context, Regs
<1>3. \A k \in 1 .. n : \A i \in 1 .. acts[k].words : ustack[acts[k].base - i] = Word(k, i) BY Zenon, <1>0 DEF Nest, Lies
<1>4. ASSUME NEW k \in 1 .. n - 1
      PROVE LET saved == ustack[acts[k + 1].base + 1]
            IN /\ saved.kind = "frame" /\ saved.regs.code = acts[k].code
               /\ saved.regs.rsp = acts[k].base - acts[k].words + (IF acts[k].code = Restorer THEN 1 ELSE 0)
               /\ acts[k].code = "main" => saved.regs.rax = acts[k].rax
  <2>1. k + 1 \in 2 .. n /\ k + 1 - 1 = k BY <1>1
  <2>2. Saved(ustack, acts, k + 1) BY Zenon, <1>0, <2>1 DEF Nest
  <2>3. ustack[acts[k + 1].base + 1] = Frame(Context(acts[k])) BY <2>1, <2>2 DEF Saved
  <2> QED BY <2>3 DEF Frame, Context, Regs, Rsp
<1> QED BY Zenon, <1>2, <1>3, <1>4 DEF ContextsIntact

\* ContextsIntact, for a stack of any size and any number of signals and calls: however handlers
\* nest, every context signal_deliver_on_return has saved is on the user stack unchanged until
\* sigreturn takes it back, and the words of every activation with it.
THEOREM ContextsStayIntact == SigSpec => []ContextsIntact
<1>1. SigSpec => []SigInv BY InitSigInv, NextSigInv, PTL DEF SigSpec
<1> QED BY <1>1, SigInvIntact, PTL

\* A return to user mode takes the lowest pending signal, or none.
LEMMA ReturnTakes ==
  ASSUME NEW t \in TaskRec, NEW r, NEW st, NEW a, ReturnTo(t, r, st, a)
  PROVE  sigTask'.pending = t.pending \/ sigTask'.pending = t.pending \ {Min(t.pending)}
<1> PICK o : o = signal_deliver_on_return(t, r, st) BY Zenon
<1>1. sigTask' = o.task BY Zenon DEF ReturnTo
<1> QED BY Zenon, <1>1, Outcomes

\* The safety half of SignalsTaken, for any number of signals: a pending signal goes only by being
\* the lowest one when a return to user mode takes it (signal_deliver_on_return), or with the task.
THEOREM SignalsTakenInOrder == SigSpec => TakenInOrder
<1> DEFINE LowestOrNone == \/ sigTask.pending \subseteq sigTask'.pending
                   \/ sigTask'.pending = sigTask.pending \ {Min(sigTask.pending)}
<1>1. ASSUME SigInv, SigNext PROVE LowestOrNone
  <2>0. sigTask \in TaskRec BY Zenon, <1>1 DEF SigInv
  <2>1. ASSUME NEW s \in Sig, signal_send(s) PROVE LowestOrNone BY Zenon, <2>0, <2>1 DEF signal_send, TaskRec
  <2>2. ASSUME NEW s \in Sig, NEW a \in Action(sigTask.img), signal_install(s, a) PROVE LowestOrNone
    <3>1. PICK t : t = [sigTask EXCEPT !.actions[s] = a] BY Zenon
    <3>2. t \in TaskRec /\ t.pending = sigTask.pending
      BY Zenon, <2>0, <3>1 DEF TaskRec, Action
    <3> QED BY Zenon, <2>2, <3>1, <3>2, ReturnTakes DEF signal_install
  <2>3. ASSUME NEW ret \in {7}, Syscall(ret) PROVE LowestOrNone BY Zenon, <2>0, <2>3, ReturnTakes DEF Syscall
  <2>4. CASE ReadReturns
    <3>1. PICK t : t = [sigTask EXCEPT !.state = "user"] BY Zenon
    <3>2. t \in TaskRec /\ t.pending = sigTask.pending BY Zenon, <2>0, <3>1 DEF TaskRec
    <3> QED BY Zenon, <2>4, <3>1, <3>2, ReturnTakes DEF ReadReturns
  <2>5. CASE irq_handler BY Zenon, <2>0, <2>5, ReturnTakes DEF irq_handler
  <2>6. CASE ExecHandler
    <3>1. PICK t : t = [sigTask EXCEPT !.img = "new"] BY Zenon
    <3>2. t \in TaskRec /\ t.pending = sigTask.pending BY Zenon, <2>0, <3>1 DEF TaskRec
    <3> QED BY Zenon, <2>6, <3>1, <3>2, ReturnTakes DEF ExecHandler
  <2>7. CASE ReadBlocks \/ ExecptionHandler BY Zenon, <2>0, <2>7 DEF ReadBlocks, ExecptionHandler, TaskRec
  <2>8. CASE HandlerRet BY Zenon, <2>0, <2>8 DEF HandlerRet, TaskRec
  <2>9. CASE Push \/ Pop \/ signal_sigreturn BY Zenon, <2>9 DEF Push, Pop, signal_sigreturn
  <2> QED BY Zenon, <1>1, <2>1, <2>2, <2>3, <2>4, <2>5, <2>6, <2>7, <2>8, <2>9 DEF SigNext
<1>2. SigSpec => []SigInv BY InitSigInv, NextSigInv, PTL DEF SigSpec
<1> QED BY <1>1, <1>2, PTL DEF SigSpec, TakenInOrder

=============================================================================
