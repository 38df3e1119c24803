------------------------------ MODULE TextEdit ------------------------------
(***************************************************************************)
(* The engine of the text editor (kshell/tedit/Text.cpp, TextEngine.cpp):  *)
(* the lines, the cursor in the window, and what is drawn.  An editor      *)
(* is a record [data, x, y, lpos, view_y, y_max, scr]; each operation      *)
(* takes one and returns the next.                                         *)
(*                                                                         *)
(* view_x is left out: x_line only ever lowers it, so it stays 0, and a    *)
(* line longer than the screen runs into the next row.  virtual_whitespace *)
(* is false and nothing sets it.                                           *)
(***************************************************************************)
EXTENDS TextLine, TextScreen

Size(ed) == Len(ed.data)
Row0(ed) == ed.view_y + ed.y                \* the cursor's line, from 0
LineAt(ed, n) == ed.data[n + 1]
CursorLine(ed) == LineAt(ed, Row0(ed))

\* Text::get makes the text long enough.
Got(ed, n) ==
  IF n < Size(ed) THEN ed
  ELSE [ed EXCEPT !.data = @ \o [i \in 1 .. n + 1 - Size(ed) |-> NewLine]]

-----------------------------------------------------------------------------
(* Drawing.                                                                *)

ShowCursor(ed) == [ed EXCEPT !.scr = Move(@, ed.x, ed.y)]

\* at: a row and the line it shows.
DrawLine(scr, at) ==
  IF at.line.len = 0 THEN scr ELSE write_sn(Move(scr, 0, at.row), CharsIn(at.line))

redraw_line(ed, i) ==
  ShowCursor([ed EXCEPT !.scr =
     DrawLine(fill_line_multi(@, i, i + 1, Blank), [row |-> i, line |-> LineAt(ed, i + ed.view_y)])])

\* The rows of the window, without the menu's.
Rows(ed) == {i \in 0 .. ed.y_max : i + ed.view_y < Size(ed)}

\* Drawing the window ends: no tab of its lines runs off the last row.
Drawable(ed) ==
  \A i \in Rows(ed) :
    ~FixedHangs(Move(ed.scr, 0, i), CharsIn(LineAt(ed, i + ed.view_y)))

\* What the rows of the window show; a row behind the text, as much as an empty line.
Window(ed) ==
  [i \in 1 .. ed.y_max + 1 |->
     [row |-> i - 1,
      line |-> IF i - 1 \in Rows(ed) THEN LineAt(ed, i - 1 + ed.view_y) ELSE NewLine]]

redraw_full(ed) ==
  ShowCursor([ed EXCEPT !.scr =
    FoldLeft(DrawLine, fill_line_multi(@, 0, ed.y_max + 1, Blank), Window(ed))])

-----------------------------------------------------------------------------
(* The cursor.  lpos is the column that moving up and down aims at; -1 is  *)
(* the end of the line.                                                    *)

Smaller(a, b) == IF a < b THEN a ELSE b

\* x_line
Aimed(ed) ==
  IF Row0(ed) >= Size(ed) THEN [ed EXCEPT !.x = 0]
  ELSE [ed EXCEPT !.x = IF ed.lpos > -1 THEN Smaller(CursorLine(ed).len, ed.lpos)
                        ELSE CursorLine(ed).len]

\* y_plus, at the bottom of the window scrolls; on the last line goes to its end.
y_plus(ed) ==
  IF Row0(ed) < Size(ed) - 1
  THEN IF ed.y < ed.y_max THEN ShowCursor(Aimed([ed EXCEPT !.y = @ + 1]))
       ELSE redraw_full(Aimed([ed EXCEPT !.view_y = @ + 1]))
  ELSE ShowCursor(Aimed([ed EXCEPT !.lpos = -1]))

y_minus(ed) ==
  IF ed.y > 0 THEN ShowCursor(Aimed([ed EXCEPT !.y = @ - 1]))
  ELSE IF ed.view_y > 0 THEN redraw_full(Aimed([ed EXCEPT !.view_y = @ - 1]))
  ELSE ShowCursor([ed EXCEPT !.x = 0])

AimHere(ed) == ShowCursor([ed EXCEPT !.lpos = ed.x])

\* x_plus, at the end of a line goes to the start of the next.
x_plus(ed) ==
  IF Row0(ed) < Size(ed) /\ CursorLine(ed).len > ed.x
  THEN AimHere([ed EXCEPT !.x = @ + 1])
  ELSE IF Row0(ed) < Size(ed) - 1
  THEN IF ed.y < ed.y_max THEN AimHere([ed EXCEPT !.x = 0, !.y = @ + 1])
       ELSE AimHere(redraw_full([ed EXCEPT !.x = 0, !.view_y = @ + 1]))
  ELSE AimHere(ed)

\* x_minus, at the start of a line goes to the end of the one above, but does
\* not scroll to it.
x_minus(ed) ==
  IF ed.x > 0 THEN AimHere([ed EXCEPT !.x = @ - 1])
  ELSE IF ed.y > 0 THEN AimHere(Aimed([ed EXCEPT !.y = @ - 1, !.lpos = -1]))
  ELSE AimHere(ed)

-----------------------------------------------------------------------------
(* Changing the text.                                                      *)

write(ed0, c) ==
  LET ed == Got(ed0, Row0(ed0))
      typed == [ed EXCEPT !.data[Row0(ed) + 1] = insert(@, c, ed.x)]
  IN  IF ed.x < CursorLine(ed).len THEN redraw_line(x_plus(typed), ed.y)
      ELSE x_plus([typed EXCEPT !.scr = write_c(@, c)])

\* fault: the cursor goes to the end of the joined line
joinAfter(ed) ==
  LET n == Row0(ed)
      both == [ed EXCEPT !.data[n] = append(@, LineAt(ed, n))]
  IN  redraw_full(Aimed(y_minus([both EXCEPT !.lpos = both.data[n].len,
                                             !.data = RemoveAt(@, n + 1)])))

\* The line under the cursor joins the one above it.
join(ed) ==
  LET n == Row0(ed)
      joined == [ed EXCEPT !.data[n] = append(@, LineAt(ed, n)), !.lpos = ed.data[n].len]
  IN  redraw_full(Aimed(y_minus([joined EXCEPT !.data = RemoveAt(@, n + 1)])))

\* TextEngine's erase, the key \b.
erase_key(ed) ==
  IF ed.x > 0
  THEN LET left == x_minus(ed)
       IN  redraw_line([left EXCEPT !.data[Row0(left) + 1] = erase(@, left.x)], left.y)
  ELSE IF ed.y = 0 THEN ed
  ELSE IF Row0(ed) < Size(ed) THEN join(ed)
  ELSE y_minus([ed EXCEPT !.lpos = -1])

newline_key(ed0) ==
  LET ed == Got(ed0, Row0(ed0))
      n == Row0(ed) + 1
      head == SplitHead(ed.data[n], ed.x)
      tail == SplitTail(ed.data[n], ed.x)
  IN  redraw_full(y_plus([ed EXCEPT !.data = InsertAt([@ EXCEPT ![n] = head], n + 1, tail),
                                    !.lpos = 0]))

\* init, over a text that has been loaded.
Opened(data, scr, y_max) ==
  redraw_full([data |-> data, x |-> 0, y |-> 0, lpos |-> 0, view_y |-> 0,
               y_max |-> y_max, scr |-> scr])

set_offset(ed, off) ==
  LET set == [ed EXCEPT !.y_max = YMax - off]
  IN  IF ed.y = set.y_max + 1 THEN y_minus(set) ELSE set

-----------------------------------------------------------------------------
(* Files: a line ends with LineFeed.                                       *)

\* save
FileOf(data) == FlattenSeq([n \in DOMAIN data |-> CString(data[n]) \o <<LineFeed>>])

\* The tab's loop appends the tab itself until the next tab stop.
TabAgain(l, i) == insert(l, Tab, l.len)
Tabs(l) == FoldLeft(TabAgain, l, [i \in 1 .. TabEnd(l.len) - l.len |-> i])

\* One character of the file that is loaded, into line i of the text.
LoadChar(text, c) ==
  LET here == IF text.i < Len(text.data) THEN text.data ELSE Append(text.data, NewLine)
  IN  CASE c = LineFeed -> [data |-> here, i |-> text.i + 1]
        [] c = Tab -> [data |-> [here EXCEPT ![text.i + 1] = Tabs(@)], i |-> text.i]
        [] OTHER -> [data |-> [here EXCEPT ![text.i + 1] = insert(@, c, @.len)], i |-> text.i]

\* The byte that fgetc may return behind the end is left out: with it the text is
\* that of another file.
Loaded(file) == FoldLeft(LoadChar, [data |-> <<>>, i |-> 0], file).data
=============================================================================
