------------------------------- MODULE Console -------------------------------
(***************************************************************************)
(* The line editors on the text screen: after every key the shell and      *)
(* k_gets draw their line again, and between two lines a command prints.   *)
(* Their limits (77, and 78-x in k_gets) are what keeps the drawing from   *)
(* running into the next row, and from scrolling at the last row.          *)
(***************************************************************************)
EXTENDS LineEdit, TextScreen

CONSTANTS
  Mark,        \* the prompt's '#'
  Outputs      \* what a command may print, as strings

ASSUME ConsoleAssumption ==
  /\ LineFeed = Newline
  /\ Cap = XLen - 3
  /\ Mark \notin {Blank, Newline}

VARIABLES
  scr,        \* the screen
  line, x0,   \* where the line is drawn: its row, and the column of k_gets' text
  begun,      \* history: the screen when the line was begun
  said        \* history: the characters written before the line, without blanks

screen == <<scr, line, x0, begun, said>>

\* kshell.cpp:318-324
DrawShell(s, y, buf, at) ==
  Move(write_s(write_c(write_c(clear_line(s, y), Mark), Blank), String(buf)), at + 2, y)

\* klib.cpp:126-128
DrawGets(s, x, y, buf, at) == Move(write_s(Move(s, x, y), String(buf)), x + at, y)

\* What the editor draws after a key.  Deleting clears the last character's cell.
Redraw ==
  scr' = CASE editor = "kshell" -> DrawShell(scr, line, cmdbuf', ptrpos')
           [] editor = "k_gets" /\ cmdsize' < cmdsize ->
                DrawGets(write_c(Move(scr, x0 + cmdsize', line), Blank),
                         x0, line, cmdbuf', ptrpos')
           [] OTHER -> DrawGets(scr, x0, line, cmdbuf', ptrpos')

\* A new line on the screen that the output has left.
Begin(after) ==
  /\ begun' = after
  /\ line' = after.y
  /\ IF editor = "kshell"
     THEN x0' = 0 /\ scr' = DrawShell(after, after.y, cmdbuf', 0)
     ELSE x0' = after.x /\ scr' = DrawGets(after, after.x, after.y, cmdbuf', 0)

LineText == (IF editor = "kshell" THEN <<Mark>> ELSE <<>>) \o Visible(String(cmdbuf))

\* The history is kept as far back as the screen reaches.
Remember(s) ==
  LET n == Len(Shown(begun'))
  IN  said' = IF Len(s) < n THEN s ELSE SubSeq(s, Len(s) - n + 1, Len(s))

ConsoleInit ==
  /\ Init
  /\ line = 0 /\ x0 = 0 /\ said = <<>>
  /\ begun = clear
  /\ scr = IF editor = "kshell" THEN DrawShell(begun, 0, cmdbuf, 0) ELSE begun

Key ==
  /\ Left \/ Right \/ Backspace \/ \E c \in Chars : Type(c)
  /\ Redraw
  /\ UNCHANGED <<line, x0, begun, said>>

\* Enter in the shell: the command prints after a line feed, and one follows.
Execute(out) ==
  /\ ShellEnter
  /\ Begin(write_c(write_s(write_c(scr, LineFeed), out), LineFeed))
  /\ Remember(said \o LineText \o Visible(out))

Cls ==
  /\ ShellEnter
  /\ Begin(clear)
  /\ Remember(<<>>)

\* k_gets ends its line with a line feed; the program prints, and reads again.
Return(out) ==
  /\ GetsEnter
  /\ LET after == write_s(write_c(scr, LineFeed), out)
     IN  after.x + Cap <= XLen - 2 /\ Begin(after)
  /\ Remember(said \o LineText \o Visible(out))

ConsoleNext ==
  \/ Key \/ Cls
  \/ \E out \in Outputs : Execute(out) \/ Return(out)

ConsoleSpec == ConsoleInit /\ [][ConsoleNext]_<<vars, screen>>

-----------------------------------------------------------------------------
(* Properties.                                                             *)

\* Whatever was typed, deleted and entered before, the string in the buffer is
\* as long as the editor thinks, and the byte in front of the buffer is not
\* written.  The row of the line shows that string and nothing else, with the
\* cursor where the next character goes; no other row has changed since the line
\* was begun (kshell.cpp:318-364, klib.cpp:126-172).
LineShown ==
  LET left == IF editor = "kshell" THEN <<Mark, Blank>>
              ELSE SubSeq(Row(begun, line), 1, x0)
      shown == left \o String(cmdbuf)
  IN  /\ TypeOK /\ Len(String(cmdbuf)) = cmdsize /\ cmdbuf[-1] = Other
      /\ Row(scr, line) = [i \in 1 .. XLen |-> IF i <= Len(shown) THEN shown[i] ELSE Blank]
      /\ scr.x = Len(left) + ptrpos /\ scr.y = line
      /\ \A y \in 0 .. YMax \ {line} : Row(scr, y) = Row(begun, y)

\* The screen shows the end of all that was written, in order and with nothing
\* missing or twice, however it was cut into rows and scrolled.
TranscriptShown == IsSuffix(Shown(scr), said \o LineText)
=============================================================================
