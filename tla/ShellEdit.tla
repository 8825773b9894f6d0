------------------------------- MODULE ShellEdit -------------------------------
(* The shell's line editor and its history (user/sh.c): the buffer, what the editor
   makes the terminal show, the ring of old lines and the file they are kept in.  A
   stroke is a whole key: the escape sequences of the arrows arrive byte by byte, with
   nothing between their bytes.  Of the terminal the model has the cells from the prompt's
   row on, wide and high enough that nothing wraps or scrolls, and the sequences the
   editor sends (as user/term.c carries them out: a backspace erases, CSI E is not known). *)
EXTENDS Integers, Sequences, FiniteSets, SequencesExt

CONSTANTS LineCap,      \* LINE_MAX_
          HistMax,      \* HIST_MAX
          PromptWidth,  \* prompt_visible_width
          HistFiles,    \* contents of /home/.sh_history at the start
          MaxStrokes    \* bound on the strokes

Letter == {"x", "y"}
Nl == "nl"
EditKey == Letter \cup {Nl, "enter", "bs", "left", "right", "up", "down", "home", "end"}

VARIABLES ed,      \* line, cur, cur_row, hist_view, saved_live
          hist,    \* entries, hist_head, hist_count
          hfile,   \* the lines of HIST_FILE
          scr,     \* the terminal: cells, row, col
          askew,   \* an operation the editor repaints wrongly has happened (not in the code)
          unsaved, \* a line could not be appended to the file (not in the code)
          strokes

editVars == <<ed, hist, hfile, scr, askew, unsaved, strokes>>

-----------------------------------------------------------------------------
(* The terminal. *)

ScrRow == 0..(LineCap - 1)
ScrCol == 0..(PromptWidth + LineCap)

PromptCells ==
  [r \in ScrRow |-> [c \in ScrCol |-> IF r = 0 /\ c < PromptWidth THEN "p" ELSE " "]]
Prompted == [cells |-> PromptCells, row |-> 0, col |-> PromptWidth]

Monus(a, b) == IF a > b THEN a - b ELSE 0

Cr(s) == [s EXCEPT !.col = 0]
CrLf(s) == [s EXCEPT !.col = 0, !.row = @ + 1]
Left(s, n) == [s EXCEPT !.col = Monus(@, n)]
Right(s, n) == [s EXCEPT !.col = @ + n]
Up(s, n) == [s EXCEPT !.row = Monus(@, n)]
Bs(s) == IF s.col = 0 THEN s ELSE [s EXCEPT !.cells[s.row][s.col - 1] = " ", !.col = @ - 1]
ClearEol(s) == [s EXCEPT !.cells[s.row] = [c \in ScrCol |-> IF c >= s.col THEN " " ELSE @[c]]]
ClearEod(s) ==
  [ClearEol(s) EXCEPT !.cells = [r \in ScrRow |-> IF r > s.row THEN [c \in ScrCol |-> " "] ELSE @[r]]]

\* a character, or a newline of a multi-line buffer as emit("\r\n")
EmitChar(s, ch) == IF ch = Nl THEN CrLf(s)
                   ELSE [s EXCEPT !.cells[s.row][s.col] = ch, !.col = @ + 1]
Emit(s, chars) == FoldLeft(EmitChar, s, chars)

Newlines(chars) == Cardinality({i \in 1..Len(chars) : chars[i] = Nl})

\* the column of buffer position cur (cursor_left and last_nl_before's target_col)
ColumnOf(line, cur) ==
  LET before == SubSeq(line, 1, cur)
  IN IF Newlines(before) = 0 THEN PromptWidth + cur
     ELSE cur - SelectLastInSeq(before, LAMBDA ch : ch = Nl)

\* mutant: the column a deletion leaves behind is not erased
redraw_tail_keeps(s, line, cur) ==
  LET tail == SubSeq(line, cur + 1, Len(line))
  IN Left(Emit(s, tail), Len(tail))

\* redraw_tail
redraw_tail(s, line, cur) ==
  LET tail == SubSeq(line, cur + 1, Len(line))
  IN Left(ClearEol(Emit(s, tail)), Len(tail))

\* redraw_multiline
redraw_multiline(s, line, cur, prev_cur_row) ==
  LET shown == Emit(ClearEod(Right(Up(Cr(s), prev_cur_row), PromptWidth)), line)
      tail == SubSeq(line, cur + 1, Len(line))
  IN IF Newlines(tail) = 0 THEN Left(shown, Len(tail))
     ELSE Right(Cr(Up(shown, Newlines(tail))), ColumnOf(line, cur))

-----------------------------------------------------------------------------
(* The history ring. *)

EmptyHist == [entries |-> [i \in 0..(HistMax - 1) |-> <<>>], head |-> 0, count |-> 0]

\* hist_add: not an empty line, not the last one again
hist_add(h, line) ==
  IF line = <<>> \/ (h.count > 0 /\ h.entries[(h.head - 1 + HistMax) % HistMax] = line) THEN h
  ELSE [entries |-> [h.entries EXCEPT ![h.head] = line],
        head |-> (h.head + 1) % HistMax,
        count |-> IF h.count < HistMax THEN h.count + 1 ELSE h.count]

\* hist_get: defined for 1 <= back <= hist_count
hist_get(h, back) == h.entries[(h.head - back + HistMax * 2) % HistMax]

\* hist_load
hist_load(lines) == FoldLeft(hist_add, EmptyHist, lines)

Recall(h) == [k \in 1..h.count |-> hist_get(h, k)]

-----------------------------------------------------------------------------
(* read_line_edit. *)

Fresh == [line |-> <<>>, cur |-> 0, cur_row |-> 0, view |-> 0, saved |-> <<>>]

EditInit ==
  /\ hfile \in HistFiles /\ hist = hist_load(hfile)
  /\ ed = Fresh /\ scr = Prompted
  /\ askew = FALSE /\ unsaved = FALSE /\ strokes = 0

Before == SubSeq(ed.line, 1, ed.cur)
After == SubSeq(ed.line, ed.cur + 1, Len(ed.line))

\* a stroke that changes the editor and the screen; wrong: the editor does not repaint
\* this case as the buffer now is
Stroke(e, s, wrong) ==
  /\ ed' = e
  /\ askew' = (askew \/ wrong)
  /\ scr' = IF askew \/ wrong THEN Prompted ELSE s
  /\ UNCHANGED <<hist, hfile, unsaved>>

Nothing == Stroke(ed, scr, FALSE)

InsertLetter(ch) ==
  LET line == Before \o <<ch>> \o After
  IN IF Len(ed.line) >= LineCap - 1 THEN Nothing
     ELSE Stroke([ed EXCEPT !.line = line, !.cur = @ + 1],
                 redraw_tail(EmitChar(scr, ch), line, ed.cur + 1), Newlines(After) > 0)

\* the soft newline: what follows the cursor stays on the row above
InsertNewline ==
  IF Len(ed.line) >= LineCap - 1 THEN Nothing
  ELSE Stroke([ed EXCEPT !.line = Before \o <<Nl>> \o After, !.cur = @ + 1, !.cur_row = @ + 1],
              CrLf(scr), After # <<>>)

RubOut ==
  LET line == Front(Before) \o After
      e == [ed EXCEPT !.line = line, !.cur = @ - 1]
  IN IF ed.cur = 0 THEN Nothing
     ELSE IF Last(Before) = Nl
     THEN Stroke([e EXCEPT !.cur_row = @ - 1], redraw_multiline(scr, line, e.cur, ed.cur_row), FALSE)
     ELSE Stroke(e, redraw_tail(Bs(scr), line, e.cur), Newlines(After) > 0)

MoveLeft ==
  IF ed.cur = 0 THEN Nothing
  ELSE IF Last(Before) = Nl
  THEN Stroke([ed EXCEPT !.cur = @ - 1, !.cur_row = @ - 1],
              Right(Cr(Up(scr, 1)), ColumnOf(ed.line, ed.cur - 1)), FALSE)
  ELSE Stroke([ed EXCEPT !.cur = @ - 1], Left(scr, 1), FALSE)

\* across a newline the editor sends CSI E
MoveRight ==
  IF After = <<>> THEN Nothing
  ELSE IF Head(After) = Nl THEN Stroke([ed EXCEPT !.cur = @ + 1, !.cur_row = @ + 1], scr, TRUE)
  ELSE Stroke([ed EXCEPT !.cur = @ + 1], Right(scr, 1), FALSE)

\* the line of the history, or the live one, takes the place of the buffer; cur_row is 0
\* also when that line has newlines
Replace(e, line) ==
  Stroke([e EXCEPT !.line = line, !.cur = Len(line), !.cur_row = 0],
         redraw_multiline(scr, line, Len(line), ed.cur_row), Newlines(line) > 0)

Older ==
  IF ed.view + 1 > hist.count THEN Nothing
  ELSE Replace([ed EXCEPT !.view = @ + 1, !.saved = IF ed.view = 0 THEN ed.line ELSE @],
               hist_get(hist, ed.view + 1))

Newer ==
  IF ed.view = 0 THEN Nothing
  ELSE Replace([ed EXCEPT !.view = @ - 1],
               IF ed.view = 1 THEN ed.saved ELSE hist_get(hist, ed.view - 1))

Home == Stroke([ed EXCEPT !.cur = 0], Left(scr, ed.cur), Newlines(Before) > 0)
End == Stroke([ed EXCEPT !.cur = Len(ed.line)], Right(scr, Len(After)), Newlines(After) > 0)

\* main's test that hist_add has added the line
Added(old, new) == new.head # old.head \/ new.count # old.count

\* the segments of the buffer between its newlines
Segments(line) ==
  LET marks == <<0>> \o SelectSeq([i \in 1..Len(line) |-> i], LAMBDA i : line[i] = Nl) \o <<Len(line) + 1>>
  IN [k \in 1..(Len(marks) - 1) |-> SubSeq(line, marks[k] + 1, marks[k + 1] - 1)]

\* Enter: each segment is recorded and run, and there is a new prompt; saves: the file
\* could be opened
Enter(saves) ==
  LET step(acc, seg) ==
        LET h == hist_add(acc.hist, seg)
        IN [hist |-> h,
            file |-> IF saves /\ Added(acc.hist, h) THEN Append(acc.file, seg) ELSE acc.file]
      done == FoldLeft(step, [hist |-> hist, file |-> hfile], Segments(ed.line))
  IN /\ hist' = done.hist /\ hfile' = done.file
     /\ unsaved' = (unsaved \/ (~saves /\ done.hist # hist))
     /\ ed' = Fresh /\ scr' = Prompted /\ askew' = FALSE

EditStroke(k) ==
  CASE k \in Letter -> InsertLetter(k)
    [] k = Nl -> InsertNewline
    [] k = "bs" -> RubOut
    [] k = "left" -> MoveLeft
    [] k = "right" -> MoveRight
    [] k = "up" -> Older
    [] k = "down" -> Newer
    [] k = "home" -> Home
    [] k = "end" -> End
    [] k = "enter" -> \E saves \in BOOLEAN : Enter(saves)

EditNext == \E k \in EditKey : strokes < MaxStrokes /\ strokes' = strokes + 1 /\ EditStroke(k)

EditSpec == EditInit /\ [][EditNext]_editVars

-----------------------------------------------------------------------------
\* The terminal shows the prompt and the buffer, row by row, with the cursor at position
\* cur, and cur_row is the cursor's row: the incremental repaints of read_line_edit add up
\* to the whole line, until an operation in a line with soft newlines that they do not
\* provide for (inserting, deleting or jumping across one, or recalling such a line).
ScreenShowsLine ==
  ~askew =>
    /\ scr = [Emit(Prompted, ed.line) EXCEPT !.row = Newlines(Before), !.col = ColumnOf(ed.line, ed.cur)]
    /\ ed.cur_row = Newlines(Before)

\* A shell started now would recall the lines this one recalls, in the same order: main
\* appends to HIST_FILE exactly what hist_add takes, and hist_load drops again what the
\* ring has dropped - unless an append failed.
HistoryReloads == ~unsaved => Recall(hist_load(hfile)) = Recall(hist)

\* What the editor shows is what it holds, and what it remembers is what a new shell would
\* load, after any sequence of keys (read_line_edit, hist_add, hist_persist_append).
EditorFaithful == ScreenShowsLine /\ HistoryReloads
=============================================================================
