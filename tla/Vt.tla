---------------------------------- MODULE Vt ----------------------------------
(* The virtual terminals (vt.c) and the framebuffer they share (fb_console.c).  A
   byte changes the terminal's cells under its lock and, if the terminal was seen
   to be the active one, the same cells of the screen; vt_switch_to takes only the
   lock of the terminal it shows.  A writer is therefore two steps, the cells and
   the screen.  A cell is "x" or " ": colours, and SGR, which only sets them, are
   left out.  A parameter is 0, 1, 2 or 9 for anything longer than a digit.  The
   task that maps /dev/fb (fb_dev.c) paints terminal 0 itself.                    *)
EXTENDS Integers, Sequences, FiniteSets, TLC

CONSTANTS VtId,       \* the terminals; the first is shown at boot
          FirstVt, Rows, Cols, VtMaxParams,
          FbTask,     \* tasks that may open /dev/fb
          MaxBytes    \* bound on the bytes written and the calls on /dev/fb

Glyph == {"x", " "}
Input == {"x", "nl", "cr", "bs", "tab", "esc", "bracket", "digit1", "digit2", "semi", "H", "J", "K", "m"}
Cells == [(0 .. Rows - 1) \X (0 .. Cols - 1) -> Glyph]
Blank == [p \in (0 .. Rows - 1) \X (0 .. Cols - 1) |-> " "]

Nobody == "nobody"

VARIABLES vts,     \* each terminal: cells, row, col, parser state, params, has_param
          active,  \* active_vt
          screen,  \* what the framebuffer shows
          blit,    \* per terminal: the screen update its writer is about to make, with its lock held
          fbdev,   \* fb_owner, and the open files of /dev/fb, each the set of tasks that hold it
          vmark,   \* what has happened (not in the code)
          nbytes

vtVars == <<vts, active, screen, blit, fbdev, vmark, nbytes>>

NoBlit == [busy |-> FALSE, cells |-> <<>>]

VtInit ==
  /\ vts = [v \in VtId |-> [cells |-> Blank, row |-> 0, col |-> 0, pstate |-> "ground",
                           params |-> <<>>, n |-> 0, has |-> FALSE]]
  /\ active = FirstVt
  /\ screen = Blank
  /\ blit = [v \in VtId |-> NoBlit]
  /\ fbdev = [owner |-> Nobody, files |-> {}]
  /\ vmark = {} /\ nbytes = 0

-----------------------------------------------------------------------------
(* One byte: the new terminal, the cells to blit, and whether a write missed the grid. *)

Result(vt, draw, miss) == [vt |-> vt, draw |-> draw, miss |-> miss]

\* cell_at: the index may be a cell of the next row, or behind the last one
At(row, col) == <<row + col \div Cols, col % Cols>>
InGrid(row, col) == At(row, col) \in DOMAIN Blank

\* the blit of a cell outside the visible columns is refused
Drawn(row, col, g) == IF col < Cols THEN <<row, col>> :> g ELSE <<>>

put_glyph(vt, row, col, g) ==
  Result(IF InGrid(row, col) THEN [vt EXCEPT !.cells[At(row, col)] = g] ELSE vt,
         Drawn(row, col, g), ~InGrid(row, col) \/ col >= Cols)

scroll_one(vt) ==
  LET up == [p \in DOMAIN Blank |-> IF p[1] = Rows - 1 THEN " " ELSE vt.cells[<<p[1] + 1, p[2]>>]]
  IN Result([vt EXCEPT !.cells = up], up, FALSE)

newline_locked(vt) ==
  IF vt.row + 1 >= Rows
  THEN LET s == scroll_one(vt) IN [s EXCEPT !.vt.col = 0, !.vt.row = Rows - 1]
  ELSE Result([vt EXCEPT !.col = 0, !.row = @ + 1], <<>>, FALSE)

\* one thing after the other
Then(a, b) == Result(b.vt, b.draw @@ a.draw, a.miss \/ b.miss)

\* a byte of text: the glyph, then a new line when the row is full
PutChar(vt) ==
  LET put == put_glyph(vt, vt.row, vt.col, "x")
      moved == [put EXCEPT !.vt.col = @ + 1]
  IN IF moved.vt.col >= Cols THEN Then(moved, newline_locked(moved.vt)) ELSE moved

\* blanks up to the next multiple of four; at the right margin the cursor stays behind the row
Tab(vt) ==
  LET stop == 4 * (vt.col \div 4 + 1)
      next == IF stop > Cols THEN Cols ELSE stop
      span == {<<vt.row, c>> : c \in vt.col .. next - 1}
      cells == [p \in DOMAIN Blank |-> IF p \in span THEN " " ELSE vt.cells[p]]
  IN Result([vt EXCEPT !.cells = cells, !.col = IF vt.col < next THEN next ELSE @],
            [p \in span |-> " "], FALSE)

Backspace(vt) ==
  IF vt.col = 0 THEN Result(vt, <<>>, FALSE)
  ELSE LET put == put_glyph([vt EXCEPT !.col = @ - 1], vt.row, vt.col - 1, " ") IN put

Ground(vt, c) ==
  CASE c = "esc" -> Result([vt EXCEPT !.pstate = "esc"], <<>>, FALSE)
    [] c = "nl"  -> newline_locked(vt)
    [] c = "cr"  -> Result([vt EXCEPT !.col = 0], <<>>, FALSE)
    [] c = "bs"  -> Backspace(vt)
    [] c = "tab" -> Tab(vt)
    [] OTHER     -> PutChar(vt)

\* param_or, of a parameter list that is zero where nothing was given
param_or(vt, idx, def) == IF idx > vt.n THEN def ELSE vt.params[idx]

Clip(n, max) == IF n = 0 THEN 1 ELSE IF n > max THEN max ELSE n

dispatch_csi(vt, final) ==
  LET g == [vt EXCEPT !.pstate = "ground"]
  IN CASE final = "H" -> Result([g EXCEPT !.row = Clip(param_or(vt, 1, 1), Rows) - 1,
                                          !.col = Clip(param_or(vt, 2, 1), Cols) - 1], <<>>, FALSE)
       [] final = "J" /\ param_or(vt, 1, 0) = 2 ->
            Result([g EXCEPT !.cells = Blank, !.row = 0, !.col = 0], Blank, FALSE)
       [] final = "K" /\ param_or(vt, 1, 0) = 0 ->
            LET span == {<<vt.row, c>> : c \in vt.col .. Cols - 1}
            IN Result([g EXCEPT !.cells = [p \in DOMAIN Blank |-> IF p \in span THEN " " ELSE vt.cells[p]]],
                      [p \in span |-> " "], FALSE)
       [] OTHER -> Result(g, <<>>, FALSE)

\* ";" closes a parameter, an empty one too while there is room
Semi(vt) == [vt EXCEPT !.n = IF vt.has \/ @ < VtMaxParams THEN @ + 1 ELSE @, !.has = FALSE]

Csi(vt, c) ==
  CASE c \in {"digit1", "digit2"} ->
         Result(IF vt.n < VtMaxParams
                THEN [vt EXCEPT !.params[vt.n + 1] = IF @ >= 1 THEN 9 ELSE IF c = "digit1" THEN 1 ELSE 2, !.has = TRUE]
                ELSE vt, <<>>, FALSE)
    [] c = "semi" -> Result(Semi(vt), <<>>, FALSE)
    [] c \in {"x", "H", "J", "K", "m", "bracket"} ->
         dispatch_csi(IF vt.has THEN [vt EXCEPT !.n = @ + 1] ELSE vt, c)
    [] OTHER -> Result(vt, <<>>, FALSE)

Step(vt, c) ==
  CASE vt.pstate = "ground" -> Ground(vt, c)
    [] vt.pstate = "esc" ->
         Result(IF c = "bracket"
                THEN [vt EXCEPT !.pstate = "csi", !.n = 0, !.has = FALSE, !.params = [i \in 1 .. VtMaxParams |-> 0]]
                ELSE [vt EXCEPT !.pstate = "ground"], <<>>, FALSE)
    [] OTHER -> Csi(vt, c)

-----------------------------------------------------------------------------
(* Writers and the switch. *)

vt_write_byte(v, c) ==
  LET r == Step(vts[v], c)
  IN /\ ~blit[v].busy /\ nbytes < MaxBytes
     /\ vts' = [vts EXCEPT ![v] = r.vt]
     /\ blit' = [blit EXCEPT ![v] = [busy |-> TRUE, cells |-> IF v = active THEN r.draw ELSE <<>>]]
     /\ vmark' = vmark \cup (IF r.miss THEN {"missed"} ELSE {})
                       \cup (IF r.vt.col = Cols THEN {"margin"} ELSE {})
     /\ nbytes' = nbytes + 1
     /\ UNCHANGED <<active, screen, fbdev>>

fb_blit_cell(v) ==
  /\ blit[v].busy
  /\ screen' = [p \in DOMAIN screen |-> IF p \in DOMAIN blit[v].cells THEN blit[v].cells[p] ELSE screen[p]]
  /\ blit' = [blit EXCEPT ![v] = NoBlit]
  /\ UNCHANGED <<vts, active, fbdev, vmark, nbytes>>

\* mutant: only the cells that are not blank are drawn over the old screen
fb_redraw_cells_over(v) == [p \in DOMAIN screen |-> IF vts[v].cells[p] = " " THEN screen[p] ELSE vts[v].cells[p]]

fb_redraw_cells(v) == vts[v].cells

\* the owner of /dev/fb is asked (SIGWINCH) to repaint terminal 0 itself
vt_switch_to(v) ==
  /\ v # active /\ ~blit[v].busy
  /\ active' = v
  /\ LET owned == v = FirstVt /\ fbdev.owner # Nobody
     IN /\ screen' = IF owned THEN screen ELSE fb_redraw_cells(v)
        /\ vmark' = vmark \cup (IF blit[active].cells # <<>> THEN {"crossed"} ELSE {})
                          \cup (IF owned THEN {"handed over"} ELSE {})
  /\ UNCHANGED <<vts, blit, fbdev, nbytes>>

FbCall(fb) == nbytes < MaxBytes /\ nbytes' = nbytes + 1 /\ fbdev' = fb /\ UNCHANGED <<vts, active, screen, blit>>

fb_dev_open(t) == FbCall([fbdev EXCEPT !.files = @ \cup {{t}}]) /\ UNCHANGED vmark

fb_dev_mmap_phys(t) ==
  /\ \E f \in fbdev.files : t \in f
  /\ FbCall([fbdev EXCEPT !.owner = t])
  /\ UNCHANGED vmark

\* a child inherits the file
FbFork(t, c) ==
  /\ t # c /\ {t} \in fbdev.files
  /\ FbCall([fbdev EXCEPT !.files = (@ \ {{t}}) \cup {{t, c}}])
  /\ vmark' = vmark \cup {"shared"}

\* the last close of a file, whoever opened it, forgets the owner
fb_dev_close(fb, t) == [fb EXCEPT !.owner = Nobody]

FbClose(t, f) ==
  /\ f \in fbdev.files /\ t \in f
  /\ LET rest == [fbdev EXCEPT !.files = (@ \ {f}) \cup (IF f = {t} THEN {} ELSE {f \ {t}})]
     IN FbCall(IF f = {t} THEN fb_dev_close(rest, t) ELSE rest)
  /\ UNCHANGED vmark

VtNext ==
  \/ \E v \in VtId : (\E c \in Input : vt_write_byte(v, c)) \/ fb_blit_cell(v) \/ vt_switch_to(v)
  \/ \E t \in FbTask : fb_dev_open(t) \/ fb_dev_mmap_phys(t) \/ (\E c \in FbTask : FbFork(t, c))
                       \/ (\E f \in fbdev.files : FbClose(t, f))

VtSpec == VtInit /\ [][VtNext]_vtVars

-----------------------------------------------------------------------------
(* Properties. *)

\* The screen shows the cells of the active terminal once its writer is done, whatever was
\* written to the others and in whatever order they were shown (vt_switch_to, vt_write_byte).
\* Three things excuse it: the owner of /dev/fb was asked to paint, a switch overtook a writer
\* that had already found its terminal active, or a glyph missed its row after a tab.
ScreenShowsActive ==
  ~blit[active].busy /\ vmark \cap {"crossed", "missed", "handed over"} = {} => screen = vts[active].cells

\* The cursor is in the grid, so that the next glyph goes to a cell of its row (put_glyph does
\* not check); only a tab that reaches the right margin leaves it behind the last column.
CursorInGrid ==
  \A v \in VtId : vts[v].row < Rows /\ (vts[v].col < Cols \/ "margin" \in vmark)

\* No sequence of digits and semicolons makes the parser count more parameters than it has
\* room for: param_or and apply_sgr stay inside params[].
ParamsInBounds == \A v \in VtId : vts[v].n <= VtMaxParams

\* The task vt_switch_to signals still has /dev/fb open, so that it is a task and it can paint;
\* a file shared with a child may outlive its owner.
OwnerHoldsFb ==
  fbdev.owner # Nobody /\ "shared" \notin vmark => \E f \in fbdev.files : fbdev.owner \in f

\* The screen, the cursors, the escape parser and the owner of /dev/fb stay consistent while
\* terminals are written to, switched and handed to a program (vt_write_byte, vt_switch_to).
VtConsistent == ScreenShowsActive /\ CursorInGrid /\ ParamsInBounds /\ OwnerHoldsFb
=============================================================================
