------------------------------- MODULE TEdit -------------------------------
(***************************************************************************)
(* The text editor: the main loop (tedit_main.cpp) with its two states,    *)
(* text and menu, the menu's own states (MenuEngine.cpp), and the engine   *)
(* of TextEdit.  One action per key of IOLayer::get_key.                   *)
(*                                                                         *)
(* The name of the file is left out: saving works or fails.  A key after   *)
(* which the window cannot be drawn to its end (Drawable) is never done    *)
(* with: it is no step.                                                    *)
(***************************************************************************)
EXTENDS TextEdit

CONSTANTS
  Typed,       \* printable characters
  Bar,         \* what the menu's row shows
  NoFile,
  Files,       \* contents of the files that are opened
  MaxChars,    \* bound: characters in the text
  MaxLines,    \* bound: lines in the text
  Wide,        \* lines may be wider than the screen
  Again        \* the editor is started again after it was left

ASSUME TEditAssumption ==
  /\ {Bar, Nul, Other, Tab, Back, LineFeed} \cap (Typed \cup {Blank}) = {}
  /\ Tab \notin {Nul, Other}
  /\ YLen > 1          \* the last row is the menu's
  /\ MaxChars \in Nat /\ MaxLines \in Nat /\ Wide \in BOOLEAN /\ Again \in BOOLEAN

VARIABLES
  ed,           \* TextEngine's variables, the text and the screen
  do_loop,
  in_menu,
  state,        \* MenuEngine's; it and fullscreen outlive a session
  fullscreen,
  saved,        \* what the last key saved, or NoFile
  joined,       \* history: lines were joined in this session
  tabbed        \* history: the file of this session had a tab

editorVars == <<ed, do_loop, in_menu, state, fullscreen, saved, joined, tabbed>>

-----------------------------------------------------------------------------
(* The screen after a key: tedit_main.cpp:52-67.                           *)

\* MenuEngine::draw.  A question keeps the cursor.
DrawMenu(e, focused, st) ==
  LET bar == [e EXCEPT !.scr = fill_line_multi(@, YMax, YLen, Bar)]
  IN  IF focused /\ st # "none" THEN [bar EXCEPT !.scr = Move(@, XMax, YMax)]
      ELSE ShowCursor(bar)

Show(e, menu, st, full) == IF menu \/ ~full THEN DrawMenu(e, menu, st) ELSE e

Session(file) ==
  DrawMenu(Opened(Loaded(file), clear, YMax - 1), FALSE, "none")

\* The session with this file gets as far as its first key.
Begins(file) == Drawable(Session(file))

EditorInit ==
  /\ \E f \in Files : Begins(f) /\ ed = Session(f) /\ tabbed = (Tab \in Range(f))
  /\ do_loop = TRUE /\ in_menu = FALSE /\ state = "none" /\ fullscreen = FALSE
  /\ saved = NoFile /\ joined = FALSE

-----------------------------------------------------------------------------
(* Keys for the text.                                                      *)

InText == do_loop /\ ~in_menu

Edit(e) ==
  /\ InText /\ Drawable(e)
  /\ ed' = Show(e, FALSE, state, fullscreen)
  /\ saved' = NoFile
  /\ UNCHANGED <<do_loop, in_menu, state, fullscreen, tabbed>>

TotalLen == FoldLeft(LAMBDA n, l : n + l.len, 0, ed.data)

CursorLen == IF Row0(ed) < Size(ed) THEN CursorLine(ed).len ELSE 0

\* The line under the cursor has room for n more characters.
Fits(n) == TotalLen + n <= MaxChars /\ (Wide \/ CursorLen + n <= XMax)

ArrowUp == Edit(y_minus(ed)) /\ UNCHANGED joined
ArrowDown == Edit(y_plus(ed)) /\ UNCHANGED joined
ArrowLeft == Edit(x_minus(ed)) /\ UNCHANGED joined
ArrowRight == Edit(x_plus(ed)) /\ UNCHANGED joined

TypeChar(c) == Fits(1) /\ Edit(write(ed, c)) /\ UNCHANGED joined

\* The tab's loop writes blanks until the next tab stop.
BlankAgain(e, i) == write(e, Blank)

TypeTab ==
  LET n == TabEnd(ed.x) - ed.x
  IN  /\ Fits(n)
      /\ Edit(FoldLeft(BlankAgain, ed, [i \in 1 .. n |-> i]))
      /\ UNCHANGED joined

Joins == ed.x = 0 /\ ed.y > 0 /\ Row0(ed) < Size(ed)

BackspaceKey ==
  /\ Joins /\ ~Wide => LineAt(ed, Row0(ed) - 1).len + CursorLen <= XMax
  /\ Edit(erase_key(ed))
  /\ joined' = (joined \/ Joins)

Enter == Size(ed) < MaxLines /\ Edit(newline_key(ed)) /\ UNCHANGED joined

Alt ==
  /\ InText
  /\ in_menu' = TRUE
  /\ ed' = Show(ed, TRUE, state, fullscreen)
  /\ saved' = NoFile
  /\ UNCHANGED <<do_loop, state, fullscreen, joined, tabbed>>

-----------------------------------------------------------------------------
(* Keys for the menu: it stays open, in state st, ...                      *)

InMenu == do_loop /\ in_menu

Stay(st) ==
  /\ InMenu
  /\ state' = st
  /\ ed' = Show(ed, TRUE, st, fullscreen)
  /\ saved' = NoFile
  /\ UNCHANGED <<do_loop, in_menu, fullscreen, joined, tabbed>>

\* fault: the text the menu has covered is not drawn again
LeaveCovered(e, full) ==
  /\ InMenu /\ Drawable(e)
  /\ in_menu' = FALSE /\ state' = "none" /\ fullscreen' = full
  /\ ed' = Show(e, FALSE, "none", full)
  /\ UNCHANGED <<do_loop, joined, tabbed>>

\* ... or closes, and a text that fills the screen is drawn again.
Leave(e, full) ==
  /\ InMenu /\ Drawable(e)
  /\ in_menu' = FALSE /\ state' = "none" /\ fullscreen' = full
  /\ ed' = Show(IF full THEN redraw_full(e) ELSE e, FALSE, "none", full)
  /\ UNCHANGED <<do_loop, joined, tabbed>>

MenuAlt == state = "none" /\ Leave(ed, fullscreen) /\ saved' = NoFile

KeyS == state = "none" /\ Stay("saving")
KeyQ == state = "none" /\ Stay("quitconfirm")

KeyF ==
  /\ state = "none"
  /\ Leave(set_offset(ed, IF fullscreen THEN 1 ELSE 0), ~fullscreen)
  /\ saved' = NoFile

Save ==
  /\ state = "saving"
  /\ saved' = FileOf(ed.data)
  /\ Leave(ed, fullscreen)

\* fopen fails: the question stays.
SaveFails == state = "saving" /\ Stay("saving")

Cancel == state # "none" /\ Leave(ed, fullscreen) /\ saved' = NoFile

\* The loop ends; the menu keeps its state.
Quit ==
  /\ InMenu /\ state = "quitconfirm"
  /\ do_loop' = FALSE /\ in_menu' = FALSE
  /\ ed' = [ed EXCEPT !.scr = clear]
  /\ saved' = NoFile
  /\ UNCHANGED <<state, fullscreen, joined, tabbed>>

\* tedit_main again: the text is drawn and the menu, full screen or not.
Start(file) ==
  /\ Again /\ ~do_loop /\ Begins(file)
  /\ do_loop' = TRUE /\ in_menu' = FALSE /\ joined' = FALSE
  /\ ed' = Session(file) /\ tabbed' = (Tab \in Range(file))
  /\ saved' = NoFile
  /\ UNCHANGED <<state, fullscreen>>

-----------------------------------------------------------------------------
TextKey ==
  \/ ArrowUp \/ ArrowDown \/ ArrowLeft \/ ArrowRight
  \/ \E c \in Typed : TypeChar(c)
  \/ TypeTab \/ BackspaceKey \/ Enter \/ Alt

MenuKey ==
  \/ MenuAlt \/ KeyS \/ KeyQ \/ KeyF
  \/ Save \/ SaveFails \/ Cancel \/ Quit

EditorNext == TextKey \/ MenuKey \/ \E f \in Files : Start(f)

EditorSpec == EditorInit /\ [][EditorNext]_editorVars

-----------------------------------------------------------------------------
(* What the theorems suppose of the files.                                 *)

\* Characters that the loader keeps.
FileChars == Typed \cup {Blank, LineFeed, Tab}
TextFiles == Files \subseteq Seq(FileChars)

\* Without tabs, lines fit on the screen with the cursor behind them.
NarrowFiles ==
  \A f \in Files : Tab \in Range(f) \/ \A n \in 1 .. Len(Loaded(f)) : Loaded(f)[n].len <= XMax

-----------------------------------------------------------------------------
(* Properties.                                                             *)

Padded(s) == [i \in 1 .. XLen |-> IF i <= Len(s) THEN s[i] ELSE Blank]

\* x_line (TextEngine.cpp:51-69) counts columns as if each character had one: the
\* window shows the lines it is over, and the cursor is on its place in them.
AlwaysShowsText ==
  do_loop =>
    /\ \A i \in 0 .. ed.y_max :
         (in_menu /\ i = YMax)
           \/ Row(ed.scr, i) =
                Padded(IF i \in Rows(ed) THEN CharsIn(LineAt(ed, i + ed.view_y)) ELSE <<>>)
    /\ ~in_menu => ed.scr.x = ed.x /\ ed.scr.y = ed.y /\ ed.y <= ed.y_max

\* It is so in a session whose file had no tab, through typing inside a line, joining,
\* splitting, scrolling, and the menu coming and going over the last row.
ScreenShowsText == ~tabbed => AlwaysShowsText

\* A text, line by line.
TextOf(data) == FlattenSeq([n \in DOMAIN data |-> CharsIn(data[n]) \o <<LineFeed>>])

\* What is saved is the text, unless lines were joined.
SavesTextUnlessJoined ==
  [][Save /\ ~joined => saved' = TextOf(ed.data)]_editorVars

\* TextLine.h:32 "size excluding null terminator": behind its characters a line has
\* its terminator, so that what fputs saves is the text.
Terminated == \A n \in DOMAIN ed.data : CString(ed.data[n]) = CharsIn(ed.data[n])

\* Loading what was saved gives the same lines.
LoadsWhatWasSaved ==
  LET again == Loaded(TextOf(ed.data))
  IN  [n \in DOMAIN ed.data |-> CharsIn(ed.data[n])] = [n \in DOMAIN again |-> CharsIn(again[n])]

\* MenuEngine.cpp:58 "S - Save, Q - Quit, F - Fullscreen" is what Alt opens.
MenuOpensAtTop == [][~in_menu /\ in_menu' => state' = "none"]_editorVars

\* Keys do to the text what an editor promises.
Lines(e, from, to) == TextOf(SubSeq(e.data, from, to))

Before(e) == IF Size(e) = 0 THEN <<>>
             ELSE Lines(e, 1, Row0(e)) \o SubSeq(CharsIn(CursorLine(e)), 1, e.x)

After(e) == IF Size(e) = 0 THEN <<>>
            ELSE LET below == Lines(e, Row0(e) + 2, Size(e))
                 IN  SubSeq(CharsIn(CursorLine(e)), e.x + 1, CursorLine(e).len)
                     \o SubSeq(<<LineFeed>> \o below, 1, Len(below))

Promise == INSTANCE Document WITH
  Typed <- Typed \cup {LineFeed}, before <- Before(ed), after <- After(ed)

DocumentSpec == Promise!Spec
=============================================================================
