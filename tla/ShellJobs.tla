------------------------------- MODULE ShellJobs -------------------------------
(* How the shell (user/sh.c) parses a line and runs a pipeline: the pipes, the forked
   stages that arrange their ends, the process group both sides put a stage in, the
   terminal handed over and taken back, and the waits.  A simple command is a pipeline of
   one stage (run_simple takes the same steps as run_pipeline with n = 1).  The shell and
   the stages are processes and interleave at system calls; stage k's pid is k and the
   shell's 0.  Pipe k leads from stage k to stage k+1.                                 *)
EXTENDS Integers, Sequences, FiniteSets

CONSTANTS ArgvMax,   \* ARGV_MAX_
          StagesMax, \* STAGES_MAX
          MaxToks    \* bound on the tokens of a line

ASSUME JobAssumption == ArgvMax \in Nat /\ StagesMax \in Nat /\ MaxToks \in Nat

Token == {"w", "|", "<", ">", ">>"}
ShellPid == 0
Stages == 1..StagesMax

VARIABLES toks,    \* the tokens of the line being parsed
          sh,      \* the shell: pc, n, next (stage or pipe), ends it holds, leader_pgid
          stage,   \* each stage's process: pc, pgid, ends, dfl (SIGINT at its default)
          fg,      \* the terminal's foreground process group
          leaked   \* a pipe() failed with earlier pipes open (not in the code)

jobVars == <<toks, sh, stage, fg, leaked>>

NoStage == [pc |-> "none", pgid |-> ShellPid, ends |-> {}, dfl |-> FALSE]
AtPrompt == [pc |-> "prompt", n |-> 0, next |-> 1, ends |-> {}, leader |-> 0]

JobInit ==
  /\ toks = <<>> /\ sh = AtPrompt /\ stage = [k \in Stages |-> NoStage]
  /\ fg = ShellPid /\ leaked = FALSE

-----------------------------------------------------------------------------
(* parse_pipeline. *)

NewStage == [argc |-> 0, in |-> "none", out |-> "none"]
Parsing == [stages |-> <<NewStage>>, err |-> FALSE, redir |-> "none"]

\* one token; redir: the redirection whose filename is due
ParseToken(p, tok) ==
  LET s == Len(p.stages)
      st == p.stages[s]
  IN CASE p.err -> p
       [] p.redir # "none" ->
            IF tok # "w" THEN [p EXCEPT !.err = TRUE]
            ELSE IF p.redir = "<" THEN [p EXCEPT !.stages[s].in = "<", !.redir = "none"]
            ELSE [p EXCEPT !.stages[s].out = p.redir, !.redir = "none"]
       [] tok = "w" -> IF st.argc >= ArgvMax - 1 THEN [p EXCEPT !.err = TRUE]
                       ELSE [p EXCEPT !.stages[s].argc = @ + 1]
       [] tok = "|" -> IF st.argc = 0 \/ s >= StagesMax THEN [p EXCEPT !.err = TRUE]
                       ELSE [p EXCEPT !.stages = Append(@, NewStage)]
       [] OTHER -> [p EXCEPT !.redir = tok]

\* mutant: both redirections are looked at from the second stage on
Conflict_second(stages) ==
  LET n == Len(stages)
  IN (\E j \in 2..n : stages[j].in # "none") \/ (\E j \in 2..(n - 1) : stages[j].out # "none")

\* the redirections against the positions of the pipes
Conflict(stages) ==
  LET n == Len(stages)
  IN (\E j \in 2..n : stages[j].in # "none") \/ (\E j \in 1..(n - 1) : stages[j].out # "none")

\* parse_pipeline: the stages, or none
parse_pipeline(line) ==
  LET upTo[k \in 0..Len(line)] == IF k = 0 THEN Parsing ELSE ParseToken(upTo[k - 1], line[k])
      p == upTo[Len(line)]
  IN IF p.err \/ p.redir # "none" \/ p.stages[Len(p.stages)].argc = 0 \/ Conflict(p.stages) THEN <<>>
     ELSE p.stages

\* exec_one: tokens to run; a line that does not parse brings the prompt again
\* (the array of stages has room for every line that parses: ParseAgrees)
ReadLine(line) ==
  /\ sh.pc = "prompt" /\ toks = <<>>
  /\ toks' = line
  /\ UNCHANGED <<sh, stage, fg, leaked>>

exec_one ==
  /\ sh.pc = "prompt" /\ toks # <<>>
  /\ \E n \in 0..StagesMax :
       /\ n = Len(parse_pipeline(toks))
       /\ sh' = IF n = 0 THEN sh ELSE [AtPrompt EXCEPT !.pc = "pipes", !.n = n]
  /\ toks' = <<>>
  /\ UNCHANGED <<stage, fg, leaked>>

-----------------------------------------------------------------------------
(* run_pipeline, the shell's side. *)

Ends(k) == {<<k, "r">>, <<k, "w">>}

\* sys_pipe; when one fails the shell goes back to the prompt with the others open
OpenPipe ==
  /\ sh.pc = "pipes" /\ sh.next < sh.n
  /\ \/ sh' = [sh EXCEPT !.ends = @ \cup Ends(sh.next), !.next = @ + 1] /\ UNCHANGED leaked
     \/ sh' = AtPrompt /\ leaked' = (leaked \/ sh.ends # {})
  /\ UNCHANGED <<toks, stage, fg>>

PipesOpen ==
  /\ sh.pc = "pipes" /\ sh.next = sh.n
  /\ sh' = [sh EXCEPT !.pc = "fork", !.next = 1]
  /\ UNCHANGED <<toks, stage, fg, leaked>>

\* sys_fork of the next stage: the child has the shell's descriptors and its SIG_IGN
Fork ==
  /\ sh.pc = "fork"
  /\ \/ /\ stage' = [stage EXCEPT ![sh.next] = [NoStage EXCEPT !.pc = "forked", !.ends = sh.ends]]
        /\ sh' = [sh EXCEPT !.pc = "group", !.leader = IF sh.next = 1 THEN 1 ELSE @]
     \/ /\ sh' = [sh EXCEPT !.pc = "failed", !.ends = {}]
        /\ UNCHANGED stage
  /\ UNCHANGED <<toks, fg, leaked>>

\* sys_setpgid(pid, leader_pgid), the parent's duplicate of the child's call
ParentSetpgid ==
  /\ sh.pc = "group"
  /\ stage' = [stage EXCEPT ![sh.next].pgid = sh.leader]
  /\ sh' = IF sh.next = sh.n THEN [sh EXCEPT !.pc = "give"] ELSE [sh EXCEPT !.pc = "fork", !.next = @ + 1]
  /\ UNCHANGED <<toks, fg, leaked>>

\* give_terminal_to(leader_pgid); then every pipe end is closed
GiveTerminal ==
  /\ sh.pc = "give"
  /\ fg' = sh.leader
  /\ sh' = [sh EXCEPT !.pc = "close"]
  /\ UNCHANGED <<toks, stage, leaked>>

CloseEnds ==
  /\ sh.pc = "close"
  /\ sh' = [sh EXCEPT !.pc = "wait", !.ends = {}, !.next = 1]
  /\ UNCHANGED <<toks, stage, fg, leaked>>

\* sys_waitpid of one stage after the other
Wait ==
  /\ sh.pc = "wait" /\ sh.next <= sh.n
  /\ stage[sh.next].pc = "zombie"
  /\ stage' = [stage EXCEPT ![sh.next] = NoStage]
  /\ sh' = [sh EXCEPT !.next = @ + 1]
  /\ UNCHANGED <<toks, fg, leaked>>

Reclaim ==
  /\ sh.pc = "wait" /\ sh.next > sh.n
  /\ fg' = ShellPid /\ sh' = AtPrompt
  /\ UNCHANGED <<toks, stage, leaked>>

\* mutant: the stages already started are not waited for
ForkFailed_leaves ==
  /\ sh.pc = "failed"
  /\ sh' = AtPrompt
  /\ UNCHANGED <<toks, stage, fg, leaked>>

\* fork failed at stage i: its ends are closed, the stages before it are waited for, and
\* the terminal was never given away
ForkFailed ==
  /\ sh.pc = "failed"
  /\ sh' = [sh EXCEPT !.pc = "wait", !.n = sh.next - 1, !.next = 1]
  /\ UNCHANGED <<toks, stage, fg, leaked>>

-----------------------------------------------------------------------------
(* The stages. *)

\* sys_setpgid(0, leader_pgid) and sys_signal(SIGINT, SIG_DFL); leader_pgid is the
\* child's copy, 0 in the first
ChildGroup(k) ==
  /\ stage[k].pc = "forked"
  /\ stage' = [stage EXCEPT ![k].pgid = IF k = 1 THEN k ELSE sh.leader, ![k].pc = "grouped", ![k].dfl = TRUE]
  /\ UNCHANGED <<toks, sh, fg, leaked>>

\* mutant: the inherited ends stay open
Kept_all(k) == stage[k].ends

\* the ends dup2 has put on 0 and 1; all others are closed
Kept(k) == stage[k].ends \cap {<<k - 1, "r">>, <<k, "w">>}

\* dup2 and close of the pipe ends, apply_redirs, exec: the program runs, or the stage exits
ChildExec(k) ==
  /\ stage[k].pc = "grouped"
  /\ \E pc \in {"running", "zombie"} :
       stage' = [stage EXCEPT ![k].pc = pc, ![k].ends = IF pc = "running" THEN Kept(k) ELSE {}]
  /\ UNCHANGED <<toks, sh, fg, leaked>>

Holders(e) == {k \in Stages : e \in stage[k].ends} \cup (IF e \in sh.ends THEN {ShellPid} ELSE {})

\* a program that reads its input to the end: it exits when nobody can write any more
ProgramEnds(k) ==
  /\ stage[k].pc = "running"
  /\ <<k - 1, "r">> \in stage[k].ends => Holders(<<k - 1, "w">>) = {}
  /\ stage' = [stage EXCEPT ![k].pc = "zombie", ![k].ends = {}]
  /\ UNCHANGED <<toks, sh, fg, leaked>>

\* Ctrl+C: SIGINT to the foreground group ends the stages that have it at its default
CtrlC ==
  LET hit == {k \in Stages : stage[k].pc \in {"grouped", "running"} /\ stage[k].pgid = fg /\ stage[k].dfl}
  IN /\ hit # {}
     /\ stage' = [k \in Stages |-> IF k \in hit THEN [stage[k] EXCEPT !.pc = "zombie", !.ends = {}]
                                   ELSE stage[k]]
     /\ UNCHANGED <<toks, sh, fg, leaked>>

JobNext ==
  \/ \E n \in 1..MaxToks : \E line \in [1..n -> Token] : ReadLine(line)
  \/ exec_one \/ OpenPipe \/ PipesOpen \/ Fork \/ ParentSetpgid \/ GiveTerminal \/ CloseEnds
  \/ Wait \/ Reclaim \/ ForkFailed \/ CtrlC
  \/ \E k \in Stages : ChildGroup(k) \/ ChildExec(k) \/ ProgramEnds(k)

\* the scheduler runs every process that can; programs end once their input has
JobFairness ==
  /\ WF_jobVars(OpenPipe) /\ WF_jobVars(PipesOpen) /\ WF_jobVars(Fork) /\ WF_jobVars(ParentSetpgid)
  /\ WF_jobVars(GiveTerminal) /\ WF_jobVars(CloseEnds) /\ WF_jobVars(Wait) /\ WF_jobVars(Reclaim)
  /\ WF_jobVars(ForkFailed)
  /\ \A k \in Stages :
       WF_jobVars(ChildGroup(k)) /\ WF_jobVars(ChildExec(k)) /\ WF_jobVars(ProgramEnds(k))

JobSpec == JobInit /\ [][JobNext]_jobVars /\ JobFairness

-----------------------------------------------------------------------------
(* The grammar a line has to follow. *)
Groups(line) ==
  LET bars == <<0>> \o SelectSeq([i \in 1..Len(line) |-> i], LAMBDA i : line[i] = "|") \o <<Len(line) + 1>>
  IN [g \in 1..(Len(bars) - 1) |-> SubSeq(line, bars[g] + 1, bars[g + 1] - 1)]
Redirection == {"<", ">", ">>"}
Words(g) == {i \in 1..Len(g) : g[i] = "w" /\ (i = 1 \/ g[i - 1] \notin Redirection)}
Valid(line) ==
  LET gs == Groups(line)
  IN /\ Len(gs) <= StagesMax
     /\ \A j \in 1..Len(gs) :
          /\ Cardinality(Words(gs[j])) \in 1..(ArgvMax - 1)
          /\ \A i \in 1..Len(gs[j]) :
               gs[j][i] \in Redirection => /\ i < Len(gs[j]) /\ gs[j][i + 1] = "w"
                                           /\ IF gs[j][i] = "<" THEN j = 1 ELSE j = Len(gs)

\* parse_pipeline takes exactly the lines of the grammar (each stage has a command and at
\* most ARGV_MAX_ - 1 words, each redirection a filename, stdin redirected only in the
\* first stage and stdout only in the last) and finds the stages and words that are there.
ParseAgrees ==
  LET p == parse_pipeline(toks)
  IN toks # <<>> =>
       IF Valid(toks)
       THEN /\ Len(p) = Len(Groups(toks))
            /\ \A j \in 1..Len(p) : p[j].argc = Cardinality(Words(Groups(toks)[j]))
       ELSE p = <<>>

\* Back at the prompt the terminal is the shell's, no stage is left running or unreaped,
\* and no pipe end is open in the shell, on the paths where fork failed half way too
\* (when pipe failed half way the pipes before it stay open: leaked).
PromptClean ==
  sh.pc = "prompt" => fg = ShellPid /\ sh.ends = {} /\ \A k \in Stages : stage[k].pc = "none"

\* Once the terminal is the pipeline's, every stage that lives is in its group, whichever
\* of parent and child made the call first: Ctrl+C reaches all of them and not the shell.
GroupWhole ==
  fg # ShellPid => \A k \in Stages : stage[k].pc # "none" => stage[k].pgid = fg

\* A pipeline of programs that read to the end of their input ends, and the prompt comes
\* back: no process keeps a write end that a reader waits for.
PromptReturns == sh.pc # "prompt" ~> sh.pc = "prompt"

\* A pipeline stays in its group while it has the terminal and leaves nothing behind at the
\* prompt, whichever fork fails and in whatever order shell and stages run (run_pipeline).
JobsContained == PromptClean /\ GroupWhole
=============================================================================
