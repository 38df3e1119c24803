----------------------------- MODULE TextScreen -----------------------------
(***************************************************************************)
(* The VGA text screen (drivers/textmode/x86_screen.cpp) as operators on   *)
(* a screen [cells, x, y]: each takes a screen and returns the next one.   *)
(* Colours are left out.  A string is a sequence of characters; of the     *)
(* ANSI codes, which only write_s knows, clear-screen and clear-line are   *)
(* here, as characters of their own.                                       *)
(***************************************************************************)
EXTENDS Integers, SequencesExt

CONSTANTS
  XLen, YLen,                            \* columns and rows: 80 and 25
  TabStop,                               \* 4
  Blank, LineFeed, Tab, Back, ClearScreen, ClearLine

ASSUME ScreenAssumption ==
  /\ XLen \in Nat \ {0} /\ YLen \in Nat \ {0} /\ TabStop \in Nat \ {0}
  /\ XLen % TabStop = 0
  /\ \A c, d \in 1 .. 6 :
       LET special == <<Blank, LineFeed, Tab, Back, ClearScreen, ClearLine>>
       IN  special[c] = special[d] => c = d

XMax == XLen - 1
YMax == YLen - 1
PosLen == XLen * YLen
PosMax == PosLen - 1
Pos == 0 .. PosMax

vga_xy(x, y) == y * XLen + x

Empty == [p \in Pos |-> Blank]

\* move: the position a screen's cursor is put at, clamped to the last cell.
At(scr, pos) ==
  LET p == IF pos > PosMax THEN PosMax ELSE pos
  IN  [scr EXCEPT !.x = p % XLen, !.y = p \div XLen]

Clamp(n, most) == IF n <= 0 THEN 0 ELSE IF n > most THEN most ELSE n

Move(scr, x, y) == At(scr, vga_xy(Clamp(x, XMax), Clamp(y, YMax)))

clear == [cells |-> Empty, x |-> 0, y |-> 0]

\* Rows first .. last-1 filled with c; the cursor is left alone.
fill_line_multi(scr, first, last, c) ==
  [scr EXCEPT !.cells =
     [p \in Pos |-> IF p \div XLen \in first .. last - 1 THEN c ELSE @[p]]]

clear_line(scr, line) == At(fill_line_multi(scr, line, line + 1, Blank), line * XLen)

\* fault: the last row is not cleared
ScrolledDirty(cells) ==
  [p \in Pos |-> IF p + XLen <= PosMax THEN cells[p + XLen] ELSE cells[p]]

\* scroll(1)
Scrolled(cells) ==
  [p \in Pos |-> IF p + XLen <= PosMax THEN cells[p + XLen] ELSE Blank]

newline(scr) ==
  IF scr.y # YMax THEN [scr EXCEPT !.x = 0, !.y = @ + 1]
  ELSE [scr EXCEPT !.x = 0, !.cells = Scrolled(@)]

\* write_c of a printable character.  After the last cell of the screen the
\* cursor stays there: y becomes YLen and update_cursor brings it back.
write_c(scr, c) ==
  CASE c = LineFeed -> newline(scr)
    [] c = Back -> IF scr.x > 0 THEN [scr EXCEPT !.x = @ - 1]
                   ELSE [scr EXCEPT !.y = Clamp(@ - 1, YMax)]
    [] OTHER -> LET put == [scr EXCEPT !.cells[vga_xy(scr.x, scr.y)] = c]
                IN  At(put, vga_xy(scr.x, scr.y) + 1)

-----------------------------------------------------------------------------
(* write_s and write_sn: the position is a local variable that only some   *)
(* cases carry over to x and y.  "hangs" is the tab that runs off the last *)
(* row: the column it tests is clamped, so its loop does not end.          *)

PutText(w, c) ==
  IF w.pos = PosMax
  THEN [w EXCEPT !.scr.cells = [Scrolled(@) EXCEPT ![vga_xy(0, YMax)] = c],
                 !.pos = vga_xy(0, YMax) + 1]
  ELSE [w EXCEPT !.scr.cells[w.pos] = c, !.pos = @ + 1]

TabEnd(pos) == (pos \div TabStop + 1) * TabStop

PutTab(w) ==
  LET filled == [p \in Pos |-> IF p \in w.pos .. TabEnd(w.pos) - 1 THEN Blank
                               ELSE w.scr.cells[p]]
  IN  IF TabEnd(w.pos) > PosMax THEN [w EXCEPT !.scr.cells = filled, !.hangs = TRUE]
      ELSE [w EXCEPT !.scr.cells = filled, !.pos = TabEnd(@)]

PutNewline(w) ==
  LET next == newline([w.scr EXCEPT !.x = w.pos % XLen, !.y = w.pos \div XLen])
  IN  [w EXCEPT !.scr = next, !.pos = vga_xy(next.x, next.y)]

Put(w, c) ==
  IF w.hangs THEN w
  ELSE CASE c = LineFeed -> PutNewline(w)
         [] c = Back -> [w EXCEPT !.pos = IF @ > 0 THEN @ - 1 ELSE 0]
         [] c = Tab -> PutTab(w)
         [] c = ClearScreen -> [w EXCEPT !.scr = clear]
         [] c = ClearLine -> [w EXCEPT !.scr = clear_line(@, @.y)]
         [] OTHER -> PutText(w, c)

Written(scr, s) ==
  FoldLeft(Put, [scr |-> scr, pos |-> vga_xy(scr.x, scr.y), hangs |-> FALSE], s)

write_s(scr, s) == At(Written(scr, s).scr, Written(scr, s).pos)

Hangs(scr, s) == Written(scr, s).hangs

\* write_sn: without the scroll, so text stops at the last cell.
PutFixed(w, c) ==
  IF w.hangs \/ w.pos > PosMax THEN w
  ELSE CASE c = LineFeed -> PutNewline(w)
         [] c = Back -> [w EXCEPT !.pos = IF @ > 0 THEN @ - 1 ELSE 0]
         [] c = Tab -> PutTab(w)
         [] OTHER -> [w EXCEPT !.scr.cells[w.pos] = c, !.pos = @ + 1]

Fixed(scr, s) ==
  FoldLeft(PutFixed, [scr |-> scr, pos |-> vga_xy(scr.x, scr.y), hangs |-> FALSE], s)

write_sn(scr, s) == At(Fixed(scr, s).scr, Fixed(scr, s).pos)

FixedHangs(scr, s) == Fixed(scr, s).hangs

-----------------------------------------------------------------------------
Row(scr, y) == [i \in 1 .. XLen |-> scr.cells[vga_xy(i - 1, y)]]

\* What is seen of a string: its characters without blanks and line feeds.
Visible(s) ==
  LET seen[i \in 0 .. Len(s)] ==
        IF i = 0 THEN <<>>
        ELSE IF s[i] \in {Blank, LineFeed} THEN seen[i - 1] ELSE Append(seen[i - 1], s[i])
  IN  seen[Len(s)]

\* What is on the screen, read row by row.
Shown(scr) == Visible([i \in 1 .. PosLen |-> scr.cells[i - 1]])
=============================================================================
