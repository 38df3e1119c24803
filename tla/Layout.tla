------------------------------- MODULE Layout -------------------------------
(***************************************************************************)
(* Scan code set 1 as the driver's tables have it (ps2/layout.cpp): a      *)
(* scancode, or one after the prefix E0, to a keycode [key, up].           *)
(* In both tables the release of a key is its press plus 0x80.             *)
(***************************************************************************)
EXTENDS Integers, Sequences, TLC

Pressed(k) == [key |-> k, up |-> FALSE]
Released(k) == [key |-> k, up |-> TRUE]
KEY_INVALID == Pressed("INVALID")

\* 0x01 .. 0x53
Typewriter == <<
  "ESC", "1", "2", "3", "4", "5", "6", "7", "8", "9", "0", "MINUS", "EQUALS", "BACKSPACE",
  "TAB", "Q", "W", "E", "R", "T", "Y", "U", "I", "O", "P", "LEFT_BRACKET", "RIGHT_BRACKET",
  "ENTER", "LEFT_CONTROL", "A", "S", "D", "F", "G", "H", "J", "K", "L", "SEMICOLON",
  "SINGLE_QUOTE", "BACKTICK", "LEFT_SHIFT", "BACKSLASH", "Z", "X", "C", "V", "B", "N", "M",
  "COMMA", "DOT", "SLASH", "RIGHT_SHIFT", "KP_STAR", "LEFT_ALT", "SPACE", "CAPSLOCK",
  "F1", "F2", "F3", "F4", "F5", "F6", "F7", "F8", "F9", "F10", "NUM_LOCK", "SCROLL_LOCK",
  "KP_7", "KP_8", "KP_9", "KP_MINUS", "KP_4", "KP_5", "KP_6", "KP_PLUS", "KP_1", "KP_2",
  "KP_3", "KP_0", "KP_DOT" >>

Main == [i \in DOMAIN Typewriter |-> Typewriter[i]] @@ 87 :> "F11" @@ 88 :> "F12"

\* After E0; 0x51, page down, is another DOWN.
Extra ==
  28 :> "KP_ENTER" @@ 29 :> "RIGHT_CONTROL" @@ 53 :> "KP_SLASH" @@ 56 :> "RIGHT_ALT"
  @@ 71 :> "HOME" @@ 72 :> "UP" @@ 73 :> "PGUP" @@ 75 :> "LEFT" @@ 77 :> "RIGHT"
  @@ 79 :> "END" @@ 80 :> "DOWN" @@ 81 :> "DOWN" @@ 82 :> "INSERT" @@ 83 :> "DELETE"
  @@ 91 :> "LEFT_CMD" @@ 92 :> "RIGHT_CMD" @@ 93 :> "APPS"
  @@ 94 :> "ACPI_POWER" @@ 95 :> "ACPI_SLEEP" @@ 99 :> "ACPI_WAKE"

InTable(table, byte) ==
  IF byte % 128 \in DOMAIN table THEN [key |-> table[byte % 128], up |-> byte >= 128]
  ELSE KEY_INVALID

\* Bytes from 0xE0 and from 0xEE on are outside the tables.
keycodes(byte) == IF byte < 224 THEN InTable(Main, byte) ELSE KEY_INVALID
keycodes_extra1(byte) == IF byte < 238 THEN InTable(Extra, byte) ELSE KEY_INVALID

\* Keys whose keycode is an ASCII character (keycodes.h): the typewriter's up to SPACE.
AsciiKeys ==
  {Typewriter[i] : i \in 1 .. 57} \ {"LEFT_CONTROL", "LEFT_SHIFT", "RIGHT_SHIFT", "KP_STAR", "LEFT_ALT"}

\* Those that convert_ascii gives another character under Shift.
ShiftKeys ==
  AsciiKeys \ {"ESC", "BACKSPACE", "TAB", "ENTER", "BACKTICK", "BACKSLASH", "SPACE"}

ShiftMods == {"LEFT_SHIFT", "RIGHT_SHIFT"}
ControlMods == {"LEFT_CONTROL", "RIGHT_CONTROL"}
Modifiers == ShiftMods \cup ControlMods \cup {"LEFT_ALT", "RIGHT_ALT"}
=============================================================================
