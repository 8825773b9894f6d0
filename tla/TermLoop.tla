-------------------------------- MODULE TermLoop --------------------------------
(* The processes of the terminal emulator (user/term.c) and what they wait for: the
   children that read the keyboard, the shell's output and the clock and send fixed-size
   frames into one pipe, the parent that takes the frames and writes the keys to the pty,
   and the foreground program that fills the pty's output ring.  The pipe and the pty are
   the ones of Pipe and Pty, reduced to their contents: a blocked call goes on when there
   is room or data for it.  Mouse frames are like blink frames and are left out.        *)
EXTENDS Integers, Sequences, SequencesExt

CONSTANTS FrameBytes,  \* sizeof(term_event_t)
          EvPipe,      \* PIPE_BUF_SIZE, a multiple of FrameBytes
          OutRing,     \* PTY_BUF_SIZE of the ring s2m, in frames' worth of output
          MaxKeys      \* bound on the keys typed

ASSUME WholeFrames == EvPipe % FrameBytes = 0

Child == {"kbd", "pty", "blink"}
KeyCode == {"x", "int"}  \* an ordinary key and Ctrl+C
NoKey == "none"

VARIABLES kring,    \* the keys in /dev/kbd
          hand,     \* each child: the key of the frame it is sending and the bytes left
          epipe,    \* the bytes in the event pipe
          parent,   \* the parent: reading with the bytes got so far, or writing a key
          s2m_used, \* output in the ring s2m
          echo,     \* the mode of the line discipline while this is going on
          program,  \* the foreground program: "runs", "signalled" or "gone"
          typedKeys, deliveredKeys,  \* keys typed, and taken by the line discipline
          redraw_needed, winches     \* the flag of winch_handler; signals so far

loopVars == <<kring, hand, epipe, parent, s2m_used, echo, program, typedKeys, deliveredKeys,
              redraw_needed, winches>>

NoFrame == [key |-> NoKey, left |-> 0]
Reading(got) == [pc |-> "read", got |-> got, key |-> NoKey]

LoopInit ==
  /\ kring = <<>> /\ hand = [c \in Child |-> NoFrame] /\ epipe = <<>>
  /\ parent = Reading(<<>>)
  /\ s2m_used = 0 /\ echo \in BOOLEAN /\ program = "runs"
  /\ typedKeys = <<>> /\ deliveredKeys = <<>>
  /\ redraw_needed = FALSE /\ winches = 0

-----------------------------------------------------------------------------
\* the user
TypeKey(k) ==
  /\ Len(typedKeys) < MaxKeys
  /\ kring' = Append(kring, k) /\ typedKeys' = Append(typedKeys, k)
  /\ UNCHANGED <<hand, epipe, parent, s2m_used, echo, program, deliveredKeys, redraw_needed, winches>>

\* kbd_child, pty_child and blink_child get what their next frame is about
KbdChild ==
  /\ hand["kbd"].left = 0 /\ kring # <<>>
  /\ hand' = [hand EXCEPT !["kbd"] = [key |-> Head(kring), left |-> FrameBytes]]
  /\ kring' = Tail(kring)
  /\ UNCHANGED <<epipe, parent, s2m_used, echo, program, typedKeys, deliveredKeys, redraw_needed, winches>>

PtyChild ==
  /\ hand["pty"].left = 0 /\ s2m_used > 0
  /\ s2m_used' = s2m_used - 1
  /\ hand' = [hand EXCEPT !["pty"] = [key |-> NoKey, left |-> FrameBytes]]
  /\ UNCHANGED <<kring, epipe, parent, echo, program, typedKeys, deliveredKeys, redraw_needed, winches>>

BlinkChild ==
  /\ hand["blink"].left = 0
  /\ hand' = [hand EXCEPT !["blink"] = [key |-> NoKey, left |-> FrameBytes]]
  /\ UNCHANGED <<kring, epipe, parent, s2m_used, echo, program, typedKeys, deliveredKeys, redraw_needed, winches>>

\* the part of a write that fits (ring_fill)
Chunk(space, left) == IF left < space THEN left ELSE space

\* send_event: one turn of the loop, in pipe_write
send_event(c) ==
  LET h == hand[c]
      n == Chunk(EvPipe - Len(epipe), h.left)
  IN /\ h.left > 0 /\ Len(epipe) < EvPipe
     /\ epipe' = epipe \o [i \in 1..n |-> [by |-> c, key |-> h.key, pos |-> FrameBytes - h.left + i]]
     /\ hand' = [hand EXCEPT ![c] = IF n = h.left THEN NoFrame ELSE [h EXCEPT !.left = @ - n]]
     /\ UNCHANGED <<kring, parent, s2m_used, echo, program, typedKeys, deliveredKeys, redraw_needed, winches>>

-----------------------------------------------------------------------------
(* The parent. *)

\* what pipe_read can return when the pipe holds n bytes: a signal resumes a blocked
\* reader, which finds the pipe as it was and sleeps again
pipe_read(n) == IF n > 0 THEN {"data"} ELSE {}

\* the frame read: a key goes to the pty, output and blinks are painted (module Term)
HandleFrame(f) ==
  parent' = IF f[1].by = "kbd" THEN [pc |-> "write", got |-> <<>>, key |-> f[1].key]
            ELSE Reading(<<>>)

\* read_exact and the render loop; EINTR at a frame's beginning is where the flag of
\* winch_handler is looked at
RenderLoop ==
  /\ parent.pc = "read"
  /\ \E r \in pipe_read(Len(epipe)) :
       IF r = "EINTR" THEN redraw_needed' = FALSE /\ UNCHANGED <<epipe, parent>>
       ELSE LET want == FrameBytes - Len(parent.got)
                n == Chunk(Len(epipe), want)
                got == parent.got \o SubSeq(epipe, 1, n)
            IN /\ epipe' = SubSeq(epipe, n + 1, Len(epipe))
               /\ IF Len(got) < FrameBytes THEN parent' = Reading(got) ELSE HandleFrame(got)
               /\ UNCHANGED redraw_needed
  /\ UNCHANGED <<kring, hand, s2m_used, echo, program, typedKeys, deliveredKeys, winches>>

\* mutant: room for the echo is asked for also when nothing is echoed
EchoRoom_always(k) == k = "int" \/ s2m_used < OutRing

\* pty_master_write's wait before it takes a key
EchoRoom(k) == ~echo \/ k = "int" \/ s2m_used < OutRing

\* sys_write(ptmx): the line discipline takes the key, or makes the signal of it
WritePty ==
  /\ parent.pc = "write" /\ EchoRoom(parent.key)
  /\ deliveredKeys' = Append(deliveredKeys, parent.key)
  /\ s2m_used' = IF echo /\ parent.key # "int" THEN s2m_used + 1 ELSE s2m_used
  /\ program' = IF parent.key = "int" /\ program = "runs" /\ echo THEN "signalled" ELSE program
  /\ parent' = Reading(<<>>)
  /\ UNCHANGED <<kring, hand, epipe, echo, typedKeys, redraw_needed, winches>>

\* winch_handler, run in the parent when the kernel makes its console the active one
Winch ==
  /\ winches < 1
  /\ winches' = winches + 1 /\ redraw_needed' = TRUE
  /\ UNCHANGED <<kring, hand, epipe, parent, s2m_used, echo, program, typedKeys, deliveredKeys>>

\* pty_slave_write of the program, a flood; killed, it leaves the ring empty (pty_drop_fg_output)
Flood ==
  /\ program = "runs" /\ s2m_used < OutRing
  /\ s2m_used' = s2m_used + 1
  /\ UNCHANGED <<kring, hand, epipe, parent, echo, program, typedKeys, deliveredKeys, redraw_needed, winches>>

Killed ==
  /\ program = "signalled"
  /\ program' = "gone" /\ s2m_used' = 0
  /\ UNCHANGED <<kring, hand, epipe, parent, echo, typedKeys, deliveredKeys, redraw_needed, winches>>

LoopNext ==
  \/ \E k \in KeyCode : TypeKey(k)
  \/ KbdChild \/ PtyChild \/ BlinkChild
  \/ \E c \in Child : send_event(c)
  \/ RenderLoop \/ WritePty \/ Winch \/ Flood \/ Killed

\* every process runs when it can; the wait queues of the pipe and of the ring are first
\* in first out, so a writer that finds room again and again gets some
LoopFairness ==
  /\ WF_loopVars(KbdChild) /\ WF_loopVars(PtyChild) /\ WF_loopVars(BlinkChild) /\ WF_loopVars(Killed)
  /\ WF_loopVars(RenderLoop) /\ SF_loopVars(WritePty)
  /\ \A c \in Child : SF_loopVars(send_event(c))

LoopSpec == LoopInit /\ [][LoopNext]_loopVars /\ LoopFairness

-----------------------------------------------------------------------------

\* The parent never puts a frame together from the bytes of two: send_event's comment
\* fears that writers blocked together could desynchronise the stream, but the pipe's size
\* is a multiple of the frame's and every read and write moves whole frames.
FramesWhole ==
  /\ parent.got = <<>>
  /\ Len(epipe) % FrameBytes = 0
  /\ \A i \in 1..Len(epipe) :
       /\ epipe[i].pos = ((i - 1) % FrameBytes) + 1
       /\ epipe[i].pos > 1 => epipe[i].by = epipe[i - 1].by

\* While the line discipline does not echo (the shell's editor), every key typed reaches
\* it in the end, however much the program writes: no circle of waits goes through the
\* parent's write.
KeysArrive ==
  \A n \in 1..MaxKeys : (~echo /\ Len(typedKeys) >= n) ~> (Len(deliveredKeys) >= n)

\* pty.c:429 "Ctrl+C must NOT block here when s2m is full, otherwise term's input pump can't
\* deliver the SIGINT that frees the ring in the first place": a Ctrl+C typed at a program
\* that floods its terminal is delivered.
CtrlCDelivered ==
  (\E i \in 1..Len(typedKeys) : typedKeys[i] = "int")
    ~> (\E i \in 1..Len(deliveredKeys) : deliveredKeys[i] = "int")

\* Three writers share the event pipe (send_event, read_exact): no frame is torn apart, and
\* with echo off every key gets through whatever output there is.
EventsArrive == []FramesWhole /\ KeysArrive
=============================================================================
