---------------------------------- MODULE Term ----------------------------------
(* What the terminal emulator (user/term.c) paints: the cells of the text, and over
   them the caret, the mouse pointer and the selection, each with a record of what is
   painted so that an event repaints only what changes.  A frame of output is a
   sequence of decoded commands; colours are left out, so a cell of the framebuffer
   shows a character plain, inverse, or hidden under the caret's block.  Cells are
   numbered row by row, as sel_anchor and sel_head do.                             *)
EXTENDS Integers, Sequences, SequencesExt

CONSTANTS TRows, TCols,  \* term_rows, term_cols
          TLead          \* commands that a frame of two commands can begin with

TCells == 0..(TRows * TCols - 1)
TChar == {" ", "x"}
Command == {"x", "nl", "cr", "bs", "tab", "up", "down", "right", "left", "home", "eod", "all", "eol"}

VARIABLE t  \* the emulator's variables and the framebuffer

termVars == <<t>>

Shown(ch, style) == [ch |-> ch, style |-> style]
Hidden == [vis |-> FALSE, lo |-> 0, hi |-> 0]
NoPtr == [vis |-> FALSE, pos |-> 0]

-----------------------------------------------------------------------------
(* Painting.  Each operator takes the state of the emulator and returns it. *)

blit_cell(s, i) == [s EXCEPT !.fb[i] = Shown(s.cells[i], "plain")]
blit_inverted(s, i) == [s EXCEPT !.fb[i] = Shown(s.cells[i], "inverse")]
Blit(s, I) == [s EXCEPT !.fb = [i \in TCells |-> IF i \in I THEN Shown(s.cells[i], "plain") ELSE @[i]]]

Bare(s) == [s EXCEPT !.caret = NoPtr, !.sp = Hidden, !.pp = NoPtr]

\* clear_screen
clear_screen(s) ==
  Bare([s EXCEPT !.cells = [i \in TCells |-> " "], !.fb = [i \in TCells |-> Shown(" ", "plain")]])

\* sel_logical
sel_logical(s) ==
  IF ~s.sel.have THEN Hidden
  ELSE LET a == s.sel.anchor  h == s.sel.head
       IN [vis |-> TRUE, lo |-> IF a < h THEN a ELSE h, hi |-> IF a < h THEN h ELSE a]

Selected(sp, i) == sp.vis /\ i >= sp.lo /\ i <= sp.hi
PointedAt(s, i) == s.pp.vis /\ s.pp.pos = i
CaretAt(s, i) == s.caret.vis /\ s.caret.pos = i

\* the cell as the painted selection and pointer want it (caret_redraw's restore)
Restore(s, i) ==
  IF PointedAt(s, i) # Selected(s.sp, i) THEN blit_inverted(s, i) ELSE blit_cell(s, i)

\* caret_redraw
caret_redraw(s) ==
  LET here == s.row * TCols + s.col
      off == IF s.caret.vis THEN Restore(s, s.caret.pos) ELSE s
  IN IF s.col >= TCols THEN s
     ELSE IF ~s.blink THEN [off EXCEPT !.caret = NoPtr]
     ELSE IF CaretAt(s, here) THEN s
     ELSE [off EXCEPT !.fb[here] = Shown(s.cells[here], "block"),
                      !.caret = [vis |-> TRUE, pos |-> here]]

\* reconcile_selection: repaint what leaves the painted range and what enters it
reconcile_selection(s) ==
  LET now == sel_logical(s)
  IN [s EXCEPT !.sp = now,
        !.fb = [i \in TCells |->
                  IF Selected(s.sp, i) /\ ~Selected(now, i) THEN Shown(s.cells[i], "plain")
                  ELSE IF Selected(now, i) /\ ~Selected(s.sp, i) THEN Shown(s.cells[i], "inverse")
                  ELSE @[i]]]

\* reconcile_pointer: restore the old cell, paint the new one; the caret hides both
PointerOff(s) ==
  LET i == s.pp.pos
  IN IF ~s.pp.vis \/ CaretAt(s, i) THEN s
     ELSE IF Selected(s.sp, i) THEN blit_inverted(s, i) ELSE blit_cell(s, i)

reconcile_pointer(s) ==
  LET o == PointerOff(s)
      n == IF CaretAt(o, o.mp) THEN o
           ELSE IF Selected(o.sp, o.mp) THEN blit_cell(o, o.mp) ELSE blit_inverted(o, o.mp)
  IN [n EXCEPT !.pp = [vis |-> TRUE, pos |-> n.mp]]

\* overlays_full_repaint
overlays_full_repaint(s) ==
  caret_redraw(reconcile_pointer(reconcile_selection([s EXCEPT !.sp = Hidden, !.pp = NoPtr])))

-----------------------------------------------------------------------------
(* The text. *)

ShiftUp(f, blank) == [i \in TCells |-> IF i + TCols \in TCells THEN f[i + TCols] ELSE blank]

\* mutant: the overlays are scrolled with the text
Uncover_none(s) == s

\* the cells under overlays, repainted as text before the pixels are moved
Uncover(s) ==
  Blit(s, {i \in TCells : CaretAt(s, i) \/ PointedAt(s, i) \/ Selected(s.sp, i)})

\* term_scroll_one: the selection is dropped
term_scroll_one(s) ==
  LET u == Uncover(s)
  IN Bare([u EXCEPT !.cells = ShiftUp(u.cells, " "),
                    !.fb = ShiftUp(u.fb, Shown(" ", "plain")),
                    !.sel.have = FALSE])

\* newline
newline(s) ==
  IF s.row + 1 >= TRows THEN [term_scroll_one(s) EXCEPT !.col = 0, !.row = TRows - 1]
  ELSE [s EXCEPT !.col = 0, !.row = @ + 1]

\* put_glyph_at_cursor: past the right margin (a tab can leave the column there) the cell
\* written is the next row's first, or behind the buffer, and nothing is drawn
put_glyph_at_cursor(s, ch) ==
  LET i == s.row * TCols + s.col
  IN IF s.col >= TCols THEN [s EXCEPT !.missed = TRUE]
     ELSE blit_cell([s EXCEPT !.cells[i] = ch], i)

\* the erased cells become blank and are drawn
Erase(s, I) == Blit([s EXCEPT !.cells = [i \in TCells |-> IF i \in I THEN " " ELSE @[i]]], I)

ToEol(s) == {i \in TCells : i \div TCols = s.row /\ i % TCols >= s.col}

\* the tab of vt_input_byte: blanks up to the next stop, not past the margin
TermTab(s) ==
  LET stop == ((s.col + 4) \div 4) * 4
      next == IF stop > TCols THEN TCols ELSE stop
  IN [Erase(s, {i \in ToEol(s) : i % TCols < next}) EXCEPT !.col = next]

\* vt_input_byte and dispatch_csi, one command
vt_input_byte(s, c) ==
  CASE c = "nl"   -> newline(s)
    [] c = "cr"   -> [s EXCEPT !.col = 0]
    [] c = "bs"   -> IF s.col = 0 THEN s
                     ELSE Erase([s EXCEPT !.col = @ - 1], {s.row * TCols + s.col - 1})
    [] c = "tab"  -> TermTab(s)
    [] c = "up"   -> [s EXCEPT !.row = IF @ > 1 THEN @ - 1 ELSE 0]
    [] c = "down" -> [s EXCEPT !.row = IF @ + 1 >= TRows THEN TRows - 1 ELSE @ + 1]
    [] c = "right" -> [s EXCEPT !.col = IF @ + 1 >= TCols THEN TCols - 1 ELSE @ + 1]
    [] c = "left" -> [s EXCEPT !.col = IF @ > 1 THEN @ - 1 ELSE 0]
    [] c = "home" -> [s EXCEPT !.row = 0, !.col = 0]
    [] c = "eod"  -> Erase(s, ToEol(s) \cup {i \in TCells : i \div TCols > s.row})
    [] c = "all"  -> [clear_screen(s) EXCEPT !.row = 0, !.col = 0]
    [] c = "eol"  -> Erase(s, ToEol(s))
    [] OTHER -> LET p == put_glyph_at_cursor(s, c)
                IN IF p.col + 1 >= TCols THEN newline(p) ELSE [p EXCEPT !.col = @ + 1]

-----------------------------------------------------------------------------
(* The events of the render loop. *)

\* _start: a cleared screen with the pointer in the middle
TermInit ==
  t = overlays_full_repaint(
        [cells |-> [i \in TCells |-> " "], fb |-> [i \in TCells |-> Shown(" ", "plain")],
         row |-> 0, col |-> 0, caret |-> NoPtr, sp |-> Hidden, pp |-> NoPtr,
         mp |-> (TRows * TCols) \div 2, sel |-> [have |-> FALSE, anchor |-> 0, head |-> 0],
         pressed |-> FALSE, blink |-> TRUE, missed |-> FALSE])

\* EV_PTY
TermOutput(frame) ==
  LET s == FoldLeft(vt_input_byte, t, frame)
  IN t' = overlays_full_repaint([s EXCEPT !.blink = TRUE])

\* handle_mouse: the selection after an event at cell i with the button up or down
Drag(i, down) ==
  IF down /\ ~t.pressed THEN [have |-> TRUE, anchor |-> i, head |-> i]
  ELSE IF down THEN [t.sel EXCEPT !.head = i, !.have = TRUE]
  ELSE IF t.pressed /\ t.sel.anchor = t.sel.head THEN [t.sel EXCEPT !.have = FALSE]
  ELSE t.sel

\* EV_MOUSE: repaint when the pointer's cell or the selection changed
TermMouse(i, down) ==
  LET sel == Drag(i, down)
      s == [t EXCEPT !.mp = i, !.sel = sel, !.pressed = down]
      moved == i # t.mp \/ sel.have # t.sel.have \/ (sel.have /\ sel # t.sel)
  IN t' = IF moved THEN reconcile_pointer(reconcile_selection(s)) ELSE s

\* EV_BLINK
TermBlink == t' = caret_redraw([t EXCEPT !.blink = ~@])

Frames == {<<c>> : c \in Command} \cup (TLead \X Command)

\* past a write behind the margin the cells are not known: the behaviours end there
TermNext ==
  /\ ~t.missed
  /\ \/ \E frame \in Frames : TermOutput(frame)
     \/ \E i \in TCells, down \in BOOLEAN : TermMouse(i, down)
     \/ TermBlink

TermSpec == TermInit /\ [][TermNext]_termVars

-----------------------------------------------------------------------------
\* After every event each cell shows its character, inverse exactly when one of the
\* logical selection and the pointer covers it, and only the caret's cell can be a block:
\* repainting differences leaves no ghost of an overlay and loses none, whatever order of
\* output, mouse and blinks got it there.  (The caret's own cell may show its text: output
\* and selections are painted over the block and the caret comes back with the next blink.)
ScreenIsComposed ==
  ~t.missed =>
    \A i \in TCells :
      /\ t.fb[i].ch = t.cells[i]
      /\ ~CaretAt(t, i) =>
           t.fb[i].style = IF (i = t.mp) # Selected(sel_logical(t), i) THEN "inverse" ELSE "plain"
=============================================================================
