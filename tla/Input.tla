--------------------------------- MODULE Input ---------------------------------
(* The input devices: the keyboard interrupt (irq_handler.c) with its modifier
   latches, and the exclusive devices /dev/kbd (kbd_dev.c) and /dev/mouse
   (mouse_dev.c), two rings with blocking readers.  The interrupts run with
   interrupts off on one CPU; open, read and close run on others and meet them at
   the devices' locks.  KeyboardHandler tests kbd_dev_active without the lock, so
   the test and the push are two steps.  A scancode is a key with what the keys did
   when it was sent; a mouse byte carries the packet it belongs to.               *)
EXTENDS Integers, Sequences, FiniteSets, SequencesExt

CONSTANTS Reader,     \* tasks sharing the open devices
          RingSize,   \* KBD_RING_SIZE and MOUSE_RING_SIZE
          TermSizes,  \* sizes of reads, in entries
          ByteSpan,   \* 2^8, the values of a byte
          MaxTyped,   \* bound on the key events
          MaxPackets  \* bound on the packets of the mouse

Devices == {"kbd", "mouse"}
Modifier == {"alt", "ctrl", "shift"}
Keys == Modifier \cup {"f1", "a", "up"}  \* up: sent with the prefix E0

VARIABLES held,    \* the keys pressed
          wire,    \* scancodes the keyboard has sent and IRQ1 not yet taken
          latch,   \* alt_pressed, ctrl_pressed, shift_pressed and extended
          irq1,    \* the scancode KeyboardHandler is about to push, or none
          console, \* the last key KeyboardHandler gave to tty_input_byte
          unit,    \* the device at work: the two share no state
          dev,     \* its open, ring and waiters
          rdr,     \* each reader: "out", "asleep" or "ready", and the size it asked for
          packet,  \* the packet the mouse is sending: its bytes still to come
          asm,     \* pkt and phase
          fate,    \* what has happened (not in the code)
          typed, moved   \* key events and packets so far

inputVars == <<held, wire, latch, irq1, console, unit, dev, rdr, packet, asm, fate, typed, moved>>
keyVars == <<held, wire, latch, irq1, console, typed, unit>>
mouseVars == <<packet, asm, moved>>

NoCode == [key |-> "none"]

InputInit ==
  /\ held = {} /\ wire = <<>> /\ irq1 = NoCode /\ console = NoCode
  /\ latch = [k \in Modifier \cup {"extended"} |-> FALSE]
  /\ unit \in Devices
  /\ dev = [open |-> FALSE, ring |-> <<>>, waiters |-> <<>>]
  /\ rdr = [r \in Reader |-> [pc |-> "out", size |-> 0]]
  /\ packet = <<>> /\ asm = <<>>
  /\ fate = {} /\ typed = 0 /\ moved = 0

-----------------------------------------------------------------------------
(* The rings. *)

\* kbd_dev_input, and enqueue_event with the wake-up after it: an entry a full ring has
\* no room for is dropped, the first waiter is woken either way (a waiter a signal has
\* already made ready is put on the run queue a second time)
RingInput(x) ==
  LET w == IF dev.waiters = <<>> THEN {} ELSE {Head(dev.waiters)}
  IN /\ dev' = [dev EXCEPT !.ring = IF Len(@) < RingSize THEN Append(@, x) ELSE @,
                           !.waiters = IF w = {} THEN @ ELSE Tail(@)]
     /\ rdr' = [r \in Reader |-> IF r \in w THEN [rdr[r] EXCEPT !.pc = "ready"] ELSE rdr[r]]
     /\ fate' = fate \cup {"twice" : r \in {r \in w : rdr[r].pc = "ready"}}

\* one turn of the loop of kbd_read and mouse_read, in the waiter list or not: take what
\* is there, up to the size, or go to sleep at the tail of the list
Attempt(r, size) ==
  LET others == SelectSeq(dev.waiters, LAMBDA x : x # r)
      n == IF Len(dev.ring) < size THEN Len(dev.ring) ELSE size
  IN IF n > 0
     THEN /\ dev' = [dev EXCEPT !.ring = SubSeq(@, n + 1, Len(@)), !.waiters = others]
          /\ rdr' = [rdr EXCEPT ![r] = [pc |-> "out", size |-> 0]]
     ELSE /\ dev' = [dev EXCEPT !.waiters = Append(others, r)]
          /\ rdr' = [rdr EXCEPT ![r] = [pc |-> "asleep", size |-> size]]

DevRead(r, size) ==
  /\ dev.open /\ rdr[r].pc = "out"
  /\ Attempt(r, size)
  /\ UNCHANGED <<keyVars, mouseVars, fate>>

DevRetry(r) ==
  /\ rdr[r].pc = "ready"
  /\ Attempt(r, rdr[r].size)
  /\ UNCHANGED <<keyVars, mouseVars, fate>>

\* a signal makes a sleeping reader ready and leaves it in the list
Resume(r) ==
  /\ rdr[r].pc = "asleep"
  /\ rdr' = [rdr EXCEPT ![r].pc = "ready"]
  /\ UNCHANGED <<dev, keyVars, mouseVars, fate>>

\* kbd_open and mouse_open: EBUSY while it is open
DevOpen ==
  /\ ~dev.open
  /\ dev' = [dev EXCEPT !.open = TRUE]
  /\ UNCHANGED <<rdr, keyVars, mouseVars, fate>>

\* kbd_close and mouse_close, when the last file is closed: no task is in a read
DevClose ==
  /\ dev.open
  /\ \A r \in Reader : rdr[r].pc = "out"
  /\ dev' = [dev EXCEPT !.open = FALSE, !.ring = <<>>]
  /\ asm' = <<>>
  /\ fate' = IF asm = <<>> THEN fate ELSE fate \cup {"cut"}
  /\ UNCHANGED <<rdr, keyVars, packet, moved>>

-----------------------------------------------------------------------------
(* The keyboard. *)

\* the hardware: a key goes down or up; up is sent as E0 and its code
KeyEvent(k) ==
  LET release == k \in held
      code == [key |-> k, release |-> release, alt |-> "alt" \in held]
  IN /\ unit = "kbd" /\ typed < MaxTyped /\ Len(wire) < 2
     /\ held' = IF release THEN held \ {k} ELSE held \cup {k}
     /\ wire' = wire \o (IF k = "up" THEN <<[code EXCEPT !.key = "E0"], code>> ELSE <<code>>)
     /\ typed' = typed + 1
     /\ UNCHANGED <<latch, irq1, console, unit, dev, rdr, mouseVars, fate>>

\* the latches KeyboardHandler sets before it looks at /dev/kbd
TrackAlt(c) ==
  IF c.key = "alt" THEN [latch EXCEPT !.alt = ~c.release, !.extended = FALSE]
  ELSE [latch EXCEPT !.extended = (c.key = "E0")]

\* alt with F1..F6 switches the console and is eaten
Hotkey(c) == latch.alt /\ c.key = "f1" /\ ~c.release /\ ~latch.extended

\* the console's turn: ctrl and shift are latches, a release is nothing, the others are
\* typed (which characters the modifiers make of them is not kept)
ConsoleKey(c) ==
  IF c.key \in {"ctrl", "shift"}
  THEN latch' = [TrackAlt(c) EXCEPT ![c.key] = ~c.release] /\ UNCHANGED console
  ELSE /\ latch' = TrackAlt(c)
       /\ console' = IF c.key \in {"E0", "alt"} \/ c.release THEN console
                     ELSE c

\* KeyboardHandler up to its test of kbd_dev_active
KeyboardHandler ==
  /\ wire # <<>> /\ irq1 = NoCode
  /\ wire' = Tail(wire)
  /\ LET c == Head(wire)
         kept == dev.open
     IN IF Hotkey(c) THEN latch' = TrackAlt(c) /\ UNCHANGED <<irq1, console, fate>>
        ELSE IF kept THEN /\ latch' = TrackAlt(c) /\ irq1' = c /\ UNCHANGED console
                          /\ fate' = fate \cup {m \in {"ctrl", "shift"} : m = c.key}
        ELSE ConsoleKey(c) /\ irq1' = NoCode /\ fate' = fate \ {m \in {"ctrl", "shift"} : m = c.key}
  /\ UNCHANGED <<held, unit, dev, rdr, mouseVars, typed>>

\* kbd_dev_input, which does not look at kbd.open again
KbdPush ==
  /\ irq1 # NoCode
  /\ RingInput([code |-> irq1, late |-> ~dev.open])
  /\ irq1' = NoCode
  /\ UNCHANGED <<held, wire, latch, console, unit, mouseVars, typed>>

-----------------------------------------------------------------------------
(* The mouse. *)

\* the hardware: a report of a movement dx (9 bits, two's complement), sent as three
\* bytes; bit 3 is set in the first and can be anything in the others
MouseMoves(dx, over, bit3) ==
  /\ unit = "mouse" /\ moved < MaxPackets /\ packet = <<>>
  /\ LET b(i) == [of |-> moved, pos |-> i, bit3 |-> i = 0 \/ bit3,
                  sign |-> dx < 0, over |-> over, low |-> dx % ByteSpan, dx |-> dx]
     IN packet' = <<b(0), b(1), b(2)>>
  /\ moved' = moved + 1
  /\ UNCHANGED <<keyVars, dev, rdr, asm, fate>>

\* decode_packet: the sign of the first byte extends the second to 16 bits
decode_packet(pkt) ==
  LET raw == pkt[2].low + (IF pkt[1].sign THEN ByteSpan * ByteSpan - ByteSpan ELSE 0)
      dx == IF raw >= (ByteSpan * ByteSpan) \div 2 THEN raw - ByteSpan * ByteSpan ELSE raw
  IN [pkt |-> pkt, dx |-> dx]

\* mutant: bit 3 is asked of every byte
OutOfPhase_always(b) == ~b.bit3

\* a byte that cannot start a packet where one is expected
OutOfPhase(b) == asm = <<>> /\ ~b.bit3

\* feed_byte: the third byte completes the packet, one with an overflow bit is dropped
feed_byte ==
  /\ packet # <<>>
  /\ packet' = Tail(packet)
  /\ LET b == Head(packet)
         pkt == Append(asm, b)
     IN IF OutOfPhase(b) THEN UNCHANGED <<asm, dev, rdr, fate>>
        ELSE IF Len(pkt) < 3 THEN asm' = pkt /\ UNCHANGED <<dev, rdr, fate>>
        ELSE /\ asm' = <<>>
             /\ IF pkt[1].over THEN UNCHANGED <<dev, rdr, fate>>
                ELSE RingInput(decode_packet(pkt))
  /\ UNCHANGED <<keyVars, moved>>

-----------------------------------------------------------------------------
\* after a double enqueue the run queue's links are not known: the behaviours end there
InputNext ==
  /\ "twice" \notin fate
  /\ \/ \E r \in Reader, n \in TermSizes : DevRead(r, n)
     \/ \E r \in Reader : DevRetry(r) \/ Resume(r)
     \/ DevOpen \/ DevClose
     \/ \E k \in Keys : KeyEvent(k)
     \/ KeyboardHandler \/ KbdPush
     \/ \E dx \in (-ByteSpan)..(ByteSpan - 1), over \in BOOLEAN, bit3 \in BOOLEAN :
          MouseMoves(dx, over, bit3)
     \/ feed_byte

InputSpec == InputInit /\ [][InputNext]_inputVars

-----------------------------------------------------------------------------
\* While a reader sleeps on a device, at least as many readers are up and about to look
\* at the ring as it holds entries: each entry kbd_dev_input or enqueue_event adds wakes
\* its own reader, so nobody sleeps on input that no one is coming for.
SleepersCovered ==
  (\E r \in Reader : rdr[r].pc = "asleep")
    => Cardinality({r \in Reader : rdr[r].pc = "ready"}) >= Len(dev.ring)

\* When no scancode is on its way, alt_pressed says whether the key is down whoever owns
\* the keyboard; ctrl and shift do too, unless the key moved while /dev/kbd was open
\* (KeyboardHandler hands those scancodes over before it reaches the latches).
LatchesFollowKeys ==
  wire = <<>> => \A m \in Modifier \ fate : latch[m] = (m \in held)

\* Alt+F1 belongs to the kernel: an F1 pressed while alt was down reaches neither
\* /dev/kbd nor the console, also when the device is opened or closed between the two keys.
HotkeyEaten ==
  LET Stray(c) == c.key = "f1" /\ ~c.release /\ c.alt
  IN /\ ~Stray(console)
     /\ unit = "kbd" => \A i \in 1..Len(dev.ring) : ~Stray(dev.ring[i].code)

\* kbd_close empties the ring, so an opener finds nothing of its predecessor's, apart from
\* a scancode whose interrupt had tested kbd_dev_active before the close.
KbdStartsFresh ==
  unit = "kbd" /\ ~dev.open => \A i \in 1..Len(dev.ring) : dev.ring[i].late

\* An event is made of the three bytes of one report and has the movement the report
\* stated, unless a close threw away the beginning of a packet that was under way
\* (mouse_close resets phase, and the next byte with bit 3 set starts a packet).
EventsAreReports ==
  unit = "mouse" /\ "cut" \notin fate =>
    \A i \in 1..Len(dev.ring) :
      LET e == dev.ring[i]
      IN /\ \A j \in 1..3 : e.pkt[j].pos = j - 1 /\ e.pkt[j].of = e.pkt[1].of
         /\ e.dx = e.pkt[1].dx

\* What readers, console and latches get is what keyboard and mouse sent, while /dev/kbd and
\* /dev/mouse are opened, read by two tasks and closed between any two interrupts.
InputFaithful == SleepersCovered /\ LatchesFollowKeys /\ HotkeyEaten /\ KbdStartsFresh /\ EventsAreReports
=============================================================================
