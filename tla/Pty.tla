---------------------------------- MODULE Pty ----------------------------------
(* One pseudo-terminal pair (pty.c) and its line discipline (tty_ldisc.c).  The
   terminal program holds the master: one task reads what is to be shown (Render),
   one writes what the user types (Pump).  The tasks in Slave read and write
   /dev/pts/N.  Each loop iteration of a call runs under p->lock and is one step;
   a task that was taken off a wait queue after the lock was released is still
   BLOCKED until its waker gets to it ("waking").  m2s holds what a reader can tell
   apart, "c" or "nl"; of s2m only the number of bytes matters.                   *)
EXTENDS Integers, Sequences, FiniteSets, SequencesExt

CONSTANTS Slave, Render, Pump,
          PtyBuf,     \* PTY_BUF_SIZE
          ReadSizes,  \* sizes of the slave's reads
          MaxInput    \* bound on the bytes typed and the calls of the slaves

PtyTask == Slave \cup {Render, Pump}
Byte == {"c", "nl", "bs", "int"}

VARIABLES m2s, s2m,   \* the rings: bytes for the slave, number of bytes for the master
          tflags,     \* the flags ICANON and ECHO (set together), TRUE: cooked
          ends,       \* master_open, slave_open, slave_ever_opened, locked and the slave files open
          waiters,    \* s_read_waiter, m_read_waiter, s_write_waiter
          tcall,      \* each task's call: pc, op, the size left or the byte typed, whether it slept
          pending,    \* tasks with a pending signal
          quirk,      \* what has happened (not in the code)
          budget      \* calls left

ptyVars == <<m2s, s2m, tflags, ends, waiters, tcall, pending, quirk, budget>>

Out == [pc |-> "out", op |-> "none", n |-> 0, slept |-> FALSE]

PtyInit ==
  /\ m2s = <<>> /\ s2m = 0 /\ tflags = TRUE
  /\ ends = [master |-> TRUE, slave |-> FALSE, ever |-> FALSE, locked |-> TRUE, files |-> 0]
  /\ waiters = [sread |-> <<>>, mread |-> <<>>, swrite |-> <<>>]
  /\ tcall = [t \in PtyTask |-> Out]
  /\ pending = {} /\ quirk = {} /\ budget = MaxInput

Queue(op) == CASE op = "sread" -> "sread" [] op = "mread" -> "mread" [] OTHER -> "swrite"

-----------------------------------------------------------------------------
(* The line discipline. *)

\* ldisc_drain: cooked, nothing before there is a newline, then up to it; raw, what there is
ldisc_drain(ring, cooked, size) ==
  LET line == IF cooked THEN SelectInSeq(ring, LAMBDA x : x = "nl") ELSE Len(ring)
  IN IF line < size THEN line ELSE size

ldisc_push(ring, b) == IF Len(ring) >= PtyBuf THEN ring ELSE Append(ring, b)

\* the rule of ldisc_input for waking a reader
wakes(b, cooked) == IF cooked THEN b = "nl" ELSE TRUE

\* ldisc_input: the ring, the echoed byte if any, whether a reader is woken and the signal
ldisc_input(b, cooked) ==
  CASE b = "int" -> [ring |-> m2s, echo |-> FALSE, wake |-> FALSE, sig |-> TRUE]
    [] b = "bs" /\ cooked ->
         [ring |-> IF m2s = <<>> THEN m2s ELSE Front(m2s), echo |-> m2s # <<>>, wake |-> FALSE, sig |-> FALSE]
    [] OTHER -> [ring |-> ldisc_push(m2s, b), echo |-> cooked, wake |-> wakes(b, cooked), sig |-> FALSE]

\* ldisc_waiter_pop: the task at the head, the queue without it, the calls with it in state pc
Popped(q) == IF waiters[q] = <<>> THEN {} ELSE {Head(waiters[q])}
Rest(q) == IF waiters[q] = <<>> THEN <<>> ELSE Tail(waiters[q])
Moved(calls, T, pc) == [t \in PtyTask |-> IF t \in T /\ calls[t].pc = "parked" THEN [calls[t] EXCEPT !.pc = pc] ELSE calls[t]]

-----------------------------------------------------------------------------
(* The tasks. *)

Without(t) == [q \in DOMAIN waiters |-> SelectSeq(waiters[q], LAMBDA x : x # t)]
LeaveCall(calls, t) == [calls EXCEPT ![t] = Out]
TaskRuns(t, op) == tcall[t].pc = "run" /\ tcall[t].op = op

EnterCall(t, op, n) ==
  /\ tcall[t].pc = "out" /\ t \notin pending /\ budget > 0
  /\ tcall' = [tcall EXCEPT ![t] = [pc |-> "run", op |-> op, n |-> n, slept |-> FALSE]]
  /\ budget' = budget - 1
  /\ UNCHANGED <<m2s, s2m, tflags, ends, waiters, pending, quirk>>

\* on the queue, BLOCKED, schedule(); a task that runs again takes itself off the queue first
Park(calls, w, t) ==
  /\ tcall' = [calls EXCEPT ![t].pc = "parked", ![t].slept = TRUE]
  /\ waiters' = [w EXCEPT ![Queue(calls[t].op)] = Append(@, t)]

\* a writer or a master reader that wakes with a signal pending ends its call
GivesUp(t) == tcall[t].slept /\ t \in pending

\* does not look at pending signals: it sleeps again
pty_slave_read(t) ==
  LET n == ldisc_drain(m2s, tflags, tcall[t].n)
  IN /\ TaskRuns(t, "sread")
     /\ IF n > 0 \/ ~ends.master
        THEN /\ m2s' = SubSeq(m2s, n + 1, Len(m2s))
             /\ tcall' = LeaveCall(tcall, t) /\ waiters' = Without(t)
             /\ quirk' = IF n > 0 /\ (IF tflags THEN m2s[n] # "nl" ELSE n < Len(m2s))
                         THEN quirk \cup {"partial"} ELSE quirk
        ELSE Park(tcall, Without(t), t) /\ UNCHANGED <<m2s, quirk>>
     /\ UNCHANGED <<s2m, tflags, ends, pending, budget>>

\* fills the ring, wakes one master reader, and sleeps if there is more to write
pty_slave_write(t) ==
  LET space == PtyBuf - s2m
      put == IF tcall[t].n < space THEN tcall[t].n ELSE space
      calls == IF put = 0 THEN tcall ELSE [Moved(tcall, Popped("mread"), "run") EXCEPT ![t].n = @ - put]
      w == IF put = 0 THEN Without(t) ELSE [Without(t) EXCEPT !.mread = Rest("mread")]
  IN /\ TaskRuns(t, "swrite")
     /\ IF GivesUp(t) \/ ~ends.master
        THEN /\ tcall' = LeaveCall(tcall, t) /\ waiters' = Without(t)
             /\ quirk' = IF GivesUp(t) THEN quirk \cup {"gave_up"} ELSE quirk
             /\ pending' = IF GivesUp(t) THEN pending ELSE pending \cup {t}    \* SIGPIPE
             /\ UNCHANGED s2m
        ELSE /\ s2m' = s2m + put
             /\ IF calls[t].n = 0 THEN tcall' = LeaveCall(calls, t) /\ waiters' = w ELSE Park(calls, w, t)
             /\ UNCHANGED <<quirk, pending>>
     /\ UNCHANGED <<m2s, tflags, ends, budget>>

\* drains and wakes one writer; end of file when the slave was opened and is closed
pty_master_read(t) ==
  /\ TaskRuns(t, "mread")
  /\ IF GivesUp(t) \/ (s2m = 0 /\ ends.ever /\ ~ends.slave)
     THEN tcall' = LeaveCall(tcall, t) /\ waiters' = Without(t) /\ UNCHANGED s2m
     ELSE IF s2m > 0
     THEN /\ s2m' = IF tcall[t].n < s2m THEN s2m - tcall[t].n ELSE 0
          /\ tcall' = LeaveCall(Moved(tcall, Popped("swrite"), "waking"), t)
          /\ waiters' = [Without(t) EXCEPT !.swrite = Rest("swrite")]
     ELSE Park(tcall, Without(t), t) /\ UNCHANGED s2m
  /\ UNCHANGED <<m2s, tflags, ends, pending, quirk, budget>>

\* the echo of the byte needs room in s2m; Ctrl+C is not echoed
EchoWaits(b) == tflags /\ b # "int" /\ s2m = PtyBuf

\* one typed byte through the line discipline
pty_master_write(t) ==
  LET b == tcall[t].n
      r == ldisc_input(b, tflags)
      echoed == IF r.echo THEN Moved(tcall, Popped("mread"), "run") ELSE tcall
      calls == IF r.wake THEN Moved(echoed, Popped("sread"), "run") ELSE echoed
  IN /\ TaskRuns(t, "mwrite")
     /\ IF GivesUp(t) \/ (tcall[t].slept /\ ~ends.slave)
        THEN /\ tcall' = LeaveCall(tcall, t) /\ waiters' = Without(t) /\ quirk' = quirk \cup {"gave_up"}
             /\ UNCHANGED <<m2s, s2m, pending>>
        ELSE IF EchoWaits(b)
        THEN Park(tcall, Without(t), t) /\ UNCHANGED <<m2s, s2m, quirk, pending>>
        ELSE /\ m2s' = r.ring
             /\ s2m' = IF r.echo /\ s2m < PtyBuf THEN s2m + 1 ELSE s2m
             /\ tcall' = LeaveCall(IF r.sig THEN Moved(calls, Slave, "run") ELSE calls, t)
             /\ pending' = IF r.sig THEN pending \cup Slave ELSE pending
             /\ waiters' = [Without(t) EXCEPT !.mread = IF r.echo THEN Rest("mread") ELSE @,
                                              !.sread = IF r.wake THEN Rest("sread") ELSE @]
             /\ quirk' = quirk \cup (IF r.echo /\ s2m = PtyBuf THEN {"echo_lost"} ELSE {})
                               \cup (IF tcall[t].slept /\ ~r.echo THEN {"silent"} ELSE {})
     /\ UNCHANGED <<tflags, ends, budget>>

\* the waker gets to w->state = TASK_STATE_READY
Wake(t) ==
  /\ tcall[t].pc = "waking"
  /\ tcall' = [tcall EXCEPT ![t].pc = "run"]
  /\ UNCHANGED <<m2s, s2m, tflags, ends, waiters, pending, quirk, budget>>

\* a signal from elsewhere (SIGALRM, SIGWINCH, kill) makes a BLOCKED task READY; one that its
\* waker has in hand is put on a run queue twice
signal_send(t) ==
  /\ tcall[t].pc # "out" /\ t \notin pending /\ budget > 0
  /\ pending' = pending \cup {t}
  /\ tcall' = IF tcall[t].pc \in {"parked", "waking"} THEN [tcall EXCEPT ![t].pc = "run"] ELSE tcall
  /\ quirk' = IF tcall[t].pc = "waking" THEN quirk \cup {"twice"} ELSE quirk
  /\ budget' = budget - 1
  /\ UNCHANGED <<m2s, s2m, tflags, ends, waiters>>

\* the return from the call: a handler runs, or the default action ends the task
\* (another takes its place) and throws the group's output away (pty_drop_fg_output)
Deliver(t) ==
  /\ tcall[t].pc = "out" /\ t \in pending
  /\ pending' = pending \ {t}
  /\ UNCHANGED <<m2s, s2m, tflags, ends, waiters, tcall, quirk, budget>>

pty_drop_fg_output(t) ==
  /\ t \in Slave /\ tcall[t].pc = "out" /\ t \in pending
  /\ pending' = pending \ {t}
  /\ s2m' = 0
  /\ tcall' = Moved(tcall, Range(waiters.swrite), "waking")
  /\ waiters' = [waiters EXCEPT !.swrite = <<>>]
  /\ UNCHANGED <<m2s, tflags, ends, quirk, budget>>

-----------------------------------------------------------------------------
(* The ends. *)

\* TIOCSPTLCK, by the terminal program before it starts the shell
pty_master_ioctl ==
  /\ ends.locked /\ ends.master
  /\ ends' = [ends EXCEPT !.locked = FALSE]
  /\ UNCHANGED <<m2s, s2m, tflags, waiters, tcall, pending, quirk, budget>>

\* TTY_IOCTL_SET_RAW and SET_COOKED: no reader is woken
pty_slave_ioctl ==
  /\ ends.files > 0 /\ budget > 0
  /\ tflags' = ~tflags /\ quirk' = quirk \cup {"reflagged"} /\ budget' = budget - 1
  /\ UNCHANGED <<m2s, s2m, ends, waiters, tcall, pending>>

pty_slave_open ==
  /\ ~ends.locked /\ ends.files < 2 /\ budget > 0
  /\ ends' = [ends EXCEPT !.slave = TRUE, !.ever = TRUE, !.files = @ + 1]
  /\ tcall' = Moved(tcall, Popped("mread"), "waking")
  /\ waiters' = [waiters EXCEPT !.mread = Rest("mread")]
  /\ budget' = budget - 1
  /\ UNCHANGED <<m2s, s2m, tflags, pending, quirk>>

\* mutant: nobody is told
pty_slave_close_quiet ==
  /\ ends.files > 0
  /\ ends.files = 1 => \A t \in Slave : tcall[t].pc = "out"
  /\ ends' = [ends EXCEPT !.slave = FALSE, !.files = @ - 1]
  /\ UNCHANGED <<m2s, s2m, tflags, waiters, tcall, pending, quirk, budget>>

\* the close of one of the slave's files, also when another is open
pty_slave_close ==
  /\ ends.files > 0
  /\ ends.files = 1 => \A t \in Slave : tcall[t].pc = "out"
  /\ ends' = [ends EXCEPT !.slave = FALSE, !.files = @ - 1]
  /\ tcall' = Moved(tcall, Popped("mread"), "waking")
  /\ waiters' = [waiters EXCEPT !.mread = Rest("mread")]
  /\ UNCHANGED <<m2s, s2m, tflags, pending, quirk, budget>>

WritersToWake == Range(waiters.swrite)

\* one reader and every writer; the slot is wiped if the slave is closed already
pty_master_close ==
  /\ ends.master /\ tcall[Render].pc = "out" /\ tcall[Pump].pc = "out"
  /\ ends' = [ends EXCEPT !.master = FALSE]
  /\ tcall' = Moved(tcall, Popped("sread") \cup WritersToWake, "waking")
  /\ IF ends.slave
     THEN /\ waiters' = [waiters EXCEPT !.sread = Rest("sread"),
                                        !.swrite = SelectSeq(@, LAMBDA x : x \notin WritersToWake)]
          /\ UNCHANGED <<m2s, s2m, tflags>>
     ELSE /\ waiters' = [q \in DOMAIN waiters |-> <<>>]
          /\ m2s' = <<>> /\ s2m' = 0 /\ tflags' = FALSE
  /\ UNCHANGED <<pending, quirk, budget>>

PtyNext ==
  \/ \E t \in Slave :
       \/ ends.files > 0 /\ \E n \in ReadSizes : EnterCall(t, "sread", n)
       \/ ends.files > 0 /\ \E n \in {1, PtyBuf + 1} : EnterCall(t, "swrite", n)
       \/ pty_slave_read(t) \/ pty_slave_write(t) \/ pty_drop_fg_output(t)
  \/ ends.master /\ EnterCall(Render, "mread", PtyBuf)
  \/ ends.master /\ \E b \in Byte : EnterCall(Pump, "mwrite", b)
  \/ pty_master_read(Render) \/ pty_master_write(Pump)
  \/ \E t \in PtyTask : Wake(t) \/ signal_send(t) \/ Deliver(t)
  \/ pty_master_ioctl \/ pty_slave_ioctl \/ pty_slave_open \/ pty_slave_close \/ pty_master_close

PtySpec == PtyInit /\ [][PtyNext]_ptyVars

-----------------------------------------------------------------------------
(* Properties. *)

Awake(ops) == \E t \in PtyTask : tcall[t].pc \in {"run", "waking"} /\ tcall[t].op \in ops
ParkedIn(op) == {t \in PtyTask : tcall[t].pc = "parked" /\ tcall[t].op = op}

\* pty_master_read wakes one writer per drain, slave or echo.  That is enough: while writers
\* sleep, either there are bytes for another drain or a writer is on its way that will
\* leave some, unless a woken writer left without writing (a signal, or a key with no echo).
WritersNotStranded ==
  ParkedIn("swrite") \cup ParkedIn("mwrite") # {} =>
    s2m > 0 \/ Awake({"swrite", "mwrite"}) \/ quirk \cap {"gave_up", "silent"} # {}

\* A slave reader sleeps only while there is nothing for it: when a line is complete (raw: when
\* there is a byte) a reader is on its way, unless the mode was changed under it or another
\* reader took a part of the line (ldisc_input wakes one per newline, ioctl none).
ReadersServed ==
  ParkedIn("sread") # {} /\ ldisc_drain(m2s, tflags, 1) > 0 =>
    Awake({"sread"}) \/ quirk \cap {"reflagged", "partial"} # {}

\* The terminal program never sleeps in a read while output waits to be shown or
\* the slave is gone: every path that adds output or closes the slave wakes it.
RenderNotStuck ==
  ParkedIn("mread") # {} => s2m = 0 /\ (ends.ever => ends.slave)

\* The check for room that pty_master_write makes before each byte holds when the byte
\* is echoed: ldisc_push never drops an echo.
EchoKept == "echo_lost" \notin quirk

\* Ctrl+C is never behind a full ring: the program that floods the terminal can be stopped.
CtrlCPasses == \A t \in ParkedIn("mwrite") : tcall[t].n # "int"

\* After the master is closed no slave writer sleeps: pty_master_close releases all of them
\* and a later write fails.
WritersReleased == ~ends.master => ParkedIn("swrite") = {}

\* Nobody sleeps on a pty past what it waits for - reader, writer, terminal program or
\* keyboard, through full rings, signals and the close of either end - and no echo is lost.
PtyDelivers ==
  WritersNotStranded /\ ReadersServed /\ RenderNotStuck /\ EchoKept /\ CtrlCPasses /\ WritersReleased
=============================================================================
