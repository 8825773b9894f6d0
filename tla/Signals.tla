------------------------------- MODULE Signals --------------------------------
(* Signals to one user task (multi/signal.c): sent by any CPU, delivered one at a
   time when the task returns to ring 3 from a system call or an interrupt, by
   saving the trap frame on the user stack and entering the handler, and undone by
   SIGRETURN.  The user stack is memory: the program pushes and pops words on it,
   and a frame goes wherever rsp is when the signal lands, in the middle of a
   handler or of the restorer too.  `acts` is the history of activations the
   program believes in; the code keeps no such list.                            *)
EXTENDS Integers, Sequences, FiniteSets, FiniteSetsExt

CONSTANTS Sig,          \* signal numbers in use
          SIGKILL,
          NotFatal,     \* SIGCHLD, SIGCONT: the default action is nothing
          StackTop,     \* slots of the user stack, one trap frame or one word each
          MaxSends,     \* bound on the signals sent
          MaxWork       \* bound on the program's own system calls, words and execs

ASSUME SigAssumption == StackTop \in Nat

SIG_DFL == "dfl"
SIG_IGN == "ign"
Bare    == "bare"       \* a handler installed without a restorer
Action(img) == {SIG_DFL, SIG_IGN, Bare, img}   \* the name of an image is a handler of it

VARIABLES sigTask,   \* state, image, pending_signals, signal_actions
          uregs,     \* the frame the task runs with: code, rax, rsp
          ustack,    \* the user stack's slots
          acts,      \* history: the interrupted activations and the running one
          sent,      \* signals sent so far
          work

sigVars == <<sigTask, uregs, ustack, acts, sent, work>>

Restorer == "restorer"
\* a slot of the stack
Unused == [kind |-> "unused"]
Return == [kind |-> "return"]
Word(k, i) == [kind |-> "word", of |-> k, nth |-> i]
Frame(r) == [kind |-> "frame", regs |-> r]
Regs(code, rax, rsp) == [code |-> code, rax |-> rax, rsp |-> rsp]
\* words: how many the activation has on the stack, below base, the rsp it began with
Activation(code, rax, base) == [code |-> code, rax |-> rax, words |-> 0, base |-> base]

SigInit ==
  /\ sigTask = [state |-> "user", img |-> "old", pending |-> {}, actions |-> [s \in Sig |-> SIG_DFL]]
  /\ uregs = Regs("main", 0, StackTop + 1)
  /\ ustack = [a \in 1 .. StackTop |-> Unused]
  /\ acts = <<Activation("main", 0, StackTop + 1)>>
  /\ sent = 0 /\ work = 0

-----------------------------------------------------------------------------
(* Delivery. *)

\* what a return to ring 3 does: the task, its registers, its stack, and whether a handler starts
Outcome(t, r, st, enters) == [task |-> t, regs |-> r, stack |-> st, enters |-> enters]

default_terminates(s) == s \notin NotFatal

\* the frame at the next even slot below rsp, and the restorer's address under it
FrameSlot(rsp) == IF (rsp - 1) % 2 = 0 THEN rsp - 1 ELSE rsp - 2

\* mutant: the frame takes the slot rsp points at
PushFrame_at_rsp(t, r, st, s) ==
  LET slot == IF r.rsp > StackTop THEN FrameSlot(r.rsp) ELSE r.rsp
  IN IF slot < 2 THEN Outcome([t EXCEPT !.state = "dead"], r, st, FALSE)
     ELSE Outcome(t, Regs("handler", r.rax, slot - 1),
                  [st EXCEPT ![slot] = Frame(r), ![slot - 1] = Return], TRUE)

\* no room on mapped pages: the task is ended instead of faulting in ring 0
PushFrame(t, r, st, s) ==
  LET slot == FrameSlot(r.rsp)
  IN IF slot < 2 THEN Outcome([t EXCEPT !.state = "dead"], r, st, FALSE)
     ELSE Outcome(t, Regs("handler", r.rax, slot - 1),
                  [st EXCEPT ![slot] = Frame(r), ![slot - 1] = Return], TRUE)

\* SIGKILL is uncatchable
Disposition(t, s) == IF s = SIGKILL THEN "kill" ELSE t.actions[s]

\* mutant: the signals that were not delivered are forgotten
TakeLowest_all(t) == [t EXCEPT !.pending = {}]

TakeLowest(t) == [t EXCEPT !.pending = @ \ {Min(@)}]

signal_deliver_on_return(t, r, st) ==
  IF t.pending = {} THEN Outcome(t, r, st, FALSE)
  ELSE LET s == Min(t.pending)
           rest == TakeLowest(t)
           d == Disposition(t, s)
       IN CASE d \in {"kill", Bare} -> Outcome([rest EXCEPT !.state = "dead"], r, st, FALSE)
            [] d = SIG_IGN -> Outcome(rest, r, st, FALSE)
            [] d = SIG_DFL -> Outcome(IF default_terminates(s) THEN [rest EXCEPT !.state = "dead"] ELSE rest,
                                      r, st, FALSE)
            \* a handler the task installed before execve is an address of the old image
            [] d # t.img /\ d \notin {"kill", Bare, SIG_IGN, SIG_DFL} ->
                 Outcome([rest EXCEPT !.state = "astray"], r, st, FALSE)
            [] OTHER -> PushFrame(rest, r, st, s)

ReturnTo(t, r, st, a) ==
  LET o == signal_deliver_on_return(t, r, st)
  IN /\ sigTask' = o.task /\ uregs' = o.regs /\ ustack' = o.stack
     /\ acts' = IF o.enters THEN Append(a, Activation("handler", r.rax, o.regs.rsp)) ELSE a

-----------------------------------------------------------------------------
(* Steps. *)

InUser == sigTask.state = "user"
TopBecomes(a) == [acts EXCEPT ![Len(acts)] = a]
Top == acts[Len(acts)]

\* another CPU; a task that waits is made ready, and waits again where the wait does not look
signal_send(s) ==
  /\ sent < MaxSends /\ sigTask.state # "dead"
  /\ sigTask' = [sigTask EXCEPT !.pending = @ \cup {s}]
  /\ sent' = sent + 1
  /\ UNCHANGED <<uregs, ustack, acts, work>>

signal_install(s, a) ==
  /\ InUser /\ uregs.code # Restorer /\ s # SIGKILL /\ work < MaxWork
  /\ ReturnTo([sigTask EXCEPT !.actions[s] = a], [uregs EXCEPT !.rax = 0], ustack,
              TopBecomes([Top EXCEPT !.rax = 0]))
  /\ work' = work + 1 /\ UNCHANGED sent

\* any other system call: its result is in the frame before a signal is looked for
Syscall(ret) ==
  /\ InUser /\ uregs.code # Restorer /\ work < MaxWork
  /\ ReturnTo(sigTask, [uregs EXCEPT !.rax = ret], ustack, TopBecomes([Top EXCEPT !.rax = ret]))
  /\ work' = work + 1 /\ UNCHANGED sent

\* a read that blocks does not look at pending signals: it sleeps again until there is data
ReadBlocks ==
  /\ InUser /\ uregs.code # Restorer /\ work < MaxWork
  /\ sigTask' = [sigTask EXCEPT !.state = "reading"]
  /\ work' = work + 1 /\ UNCHANGED <<uregs, ustack, acts, sent>>

ReadReturns ==
  /\ sigTask.state = "reading"
  /\ ReturnTo([sigTask EXCEPT !.state = "user"], [uregs EXCEPT !.rax = 1], ustack, TopBecomes([Top EXCEPT !.rax = 1]))
  /\ UNCHANGED <<sent, work>>

\* the timer, and every other interrupt taken in ring 3
irq_handler ==
  /\ InUser /\ sigTask.pending # {}
  /\ ReturnTo(sigTask, uregs, ustack, acts)
  /\ UNCHANGED <<sent, work>>

ExecHandler ==
  /\ InUser /\ uregs.code # Restorer /\ sigTask.img = "old" /\ work < MaxWork
  /\ ReturnTo([sigTask EXCEPT !.img = "new"], Regs("main", 0, StackTop + 1), [a \in 1 .. StackTop |-> Unused],
              <<Activation("main", 0, StackTop + 1)>>)
  /\ work' = work + 1 /\ UNCHANGED sent

\* ring 3 itself
Push ==
  /\ InUser /\ uregs.code # Restorer /\ uregs.rsp > 1 /\ work < MaxWork
  /\ ustack' = [ustack EXCEPT ![uregs.rsp - 1] = Word(Len(acts), Top.words + 1)]
  /\ uregs' = [uregs EXCEPT !.rsp = @ - 1]
  /\ acts' = TopBecomes([Top EXCEPT !.words = @ + 1])
  /\ work' = work + 1 /\ UNCHANGED <<sigTask, sent>>

Pop ==
  /\ InUser /\ Top.words > 0
  /\ uregs' = [uregs EXCEPT !.rsp = @ + 1]
  /\ acts' = TopBecomes([Top EXCEPT !.words = @ - 1])
  /\ UNCHANGED <<sigTask, ustack, sent, work>>

\* the handler's RET pops whatever address is there
HandlerRet ==
  /\ InUser /\ uregs.code = "handler" /\ Top.words = 0
  /\ IF ustack[uregs.rsp] = Return
     THEN uregs' = [uregs EXCEPT !.code = Restorer, !.rsp = @ + 1] /\ UNCHANGED sigTask
     ELSE sigTask' = [sigTask EXCEPT !.state = "astray"] /\ UNCHANGED uregs
  /\ acts' = TopBecomes([Top EXCEPT !.code = Restorer])
  /\ UNCHANGED <<ustack, sent, work>>

\* IRETQ straight to the saved context: no signal is looked for on this way back
signal_sigreturn ==
  /\ InUser /\ uregs.code = Restorer
  /\ uregs' = ustack[uregs.rsp].regs
  /\ acts' = SubSeq(acts, 1, Len(acts) - 1)
  /\ UNCHANGED <<sigTask, ustack, sent, work>>

\* a fault in ring 3 ends the task
ExecptionHandler ==
  /\ InUser /\ uregs.rsp = 1
  /\ sigTask' = [sigTask EXCEPT !.state = "dead"]
  /\ UNCHANGED <<uregs, ustack, acts, sent, work>>

SigNext ==
  \/ \E s \in Sig : signal_send(s) \/ (\E a \in Action(sigTask.img) : signal_install(s, a))
  \/ (\E ret \in {7} : Syscall(ret)) \/ ReadBlocks \/ ReadReturns \/ irq_handler \/ ExecHandler
  \/ Push \/ Pop \/ HandlerRet \/ signal_sigreturn \/ ExecptionHandler

\* the timer interrupts ring 3 for ever, and a CPU runs the code between two interrupts
SigFairness == WF_sigVars(irq_handler) /\ WF_sigVars(signal_sigreturn)

SigSpec == SigInit /\ [][SigNext]_sigVars /\ SigFairness

-----------------------------------------------------------------------------
(* Properties. *)

Alive == sigTask.state \in {"user", "reading"}

\* A handler, nested in whatever it interrupted, gives every activation back its own context:
\* the running registers are the running activation's, each interrupted one has its registers
\* (a system call's result included) in the frame under it, and no frame has landed on a word
\* that an activation had pushed and not yet popped.
ContextsIntact ==
  Alive =>
  /\ uregs.code = Top.code
  /\ Top.code = "main" => uregs.rax = Top.rax
  /\ \A k \in 1 .. Len(acts) : \A i \in 1 .. acts[k].words : ustack[acts[k].base - i] = Word(k, i)
  /\ \A k \in 1 .. Len(acts) - 1 :
       LET saved == ustack[acts[k + 1].base + 1]
       IN /\ saved.kind = "frame" /\ saved.regs.code = acts[k].code
          /\ saved.regs.rsp = acts[k].base - acts[k].words + (IF acts[k].code = Restorer THEN 1 ELSE 0)
          /\ acts[k].code = "main" => saved.regs.rax = acts[k].rax

\* A signal that was sent is not lost: it stays pending until a return to ring 3 has taken it,
\* and each return takes one, the lowest (signal_deliver_on_return).
TakenInOrder ==
  [][Alive /\ sigTask'.state = "user" /\ sigTask.pending # {} =>
       \/ sigTask.pending \subseteq sigTask'.pending
       \/ sigTask'.pending = sigTask.pending \ {Min(sigTask.pending)}]_sigVars

\* SIGKILL ends the task whatever handlers it has installed, however deep it is in them and
\* whatever was sent before, unless it sleeps in a read, which no signal interrupts.
KillEnds == (SIGKILL \in sigTask.pending) ~> ~InUser

\* Signals are taken one per return to ring 3 and lowest first, none is lost on the way, and
\* SIGKILL ends the task however many others are pending or being handled.
SignalsTaken == TakenInOrder /\ KillEnds
=============================================================================
