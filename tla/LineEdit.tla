------------------------------ MODULE LineEdit ------------------------------
(***************************************************************************)
(* The two line editors of the kernel: the prompt of the kernel shell and  *)
(* k_gets, with which fgets reads the keyboard.  Both keep the line as a C *)
(* string in a buffer and move its tail with memmove; they differ in what  *)
(* Enter does.                                                             *)
(*                                                                         *)
(* The buffer has the byte in front of it as index -1.  The cursor is      *)
(* unsigned: one step left of 0 is Wrap-1, and a memmove of a negative     *)
(* length runs over all memory, after which nothing is modelled.           *)
(***************************************************************************)
EXTENDS Integers, Sequences, StringBytes

CONSTANTS
  Chars,     \* the characters typed
  Newline,
  Cap,       \* most characters of a line: 77, or szmax in k_gets
  Wrap,      \* 2^8 in the shell, 2^32 in k_gets
  Careful    \* the user deletes only right of a character, and ends a line
             \* for k_gets only at its end

ASSUME LineEditAssumption ==
  /\ Cap \in Nat \ {0} /\ Wrap \in Nat /\ Wrap > Cap + 1
  /\ Careful \in BOOLEAN
  /\ Chars \cap {Nul, Newline, Other} = {}
  /\ Newline # Nul /\ Newline # Other

VARIABLES
  editor,   \* which of the two loops reads the keys
  cmdbuf, cmdsize, ptrpos,
  entered,  \* the last line handed over
  wild      \* memory has been overrun

vars == <<editor, cmdbuf, cmdsize, ptrpos, entered, wild>>

Index == -1 .. Cap + 1

Init ==
  /\ editor \in {"kshell", "k_gets"}
  /\ cmdbuf = [i \in Index |-> IF i = -1 THEN Other ELSE Nul]
  /\ cmdsize = 0 /\ ptrpos = 0
  /\ entered = <<>> /\ wild = FALSE

\* memmove(&b[to], &b[from], n)
Moved(b, to, from, n) ==
  [i \in Index |-> IF i \in to .. to + n - 1 THEN b[i - to + from] ELSE b[i]]

\* The C string at the start of a buffer.
String(b) ==
  LET end == CHOOSE i \in 0 .. Cap + 1 :
               (b[i] = Nul \/ i = Cap + 1) /\ \A j \in 0 .. i - 1 : b[j] # Nul
  IN  [i \in 1 .. end |-> b[i - 1]]

\* The tail is moved only when the cursor is not at the end.
Overruns == ptrpos > cmdsize

Smash == wild' = TRUE /\ UNCHANGED <<editor, cmdbuf, cmdsize, ptrpos, entered>>

Right ==
  /\ ~wild /\ ptrpos < cmdsize
  /\ ptrpos' = ptrpos + 1
  /\ UNCHANGED <<editor, cmdbuf, cmdsize, entered, wild>>

Left ==
  /\ ~wild /\ ptrpos > 0
  /\ ptrpos' = ptrpos - 1
  /\ UNCHANGED <<editor, cmdbuf, cmdsize, entered, wild>>

Backspace ==
  /\ ~wild /\ cmdsize > 0
  /\ Careful => ptrpos > 0
  /\ IF Overruns THEN Smash
     ELSE /\ cmdbuf' = [Moved(cmdbuf, ptrpos - 1, ptrpos, cmdsize - ptrpos)
                          EXCEPT ![cmdsize - 1] = Nul]
          /\ ptrpos' = (ptrpos - 1) % Wrap
          /\ cmdsize' = cmdsize - 1
          /\ UNCHANGED <<editor, entered, wild>>

\* fault: the tail is moved without its last character
InsertedShort(c) ==
  [Moved(cmdbuf, ptrpos + 1, ptrpos, cmdsize - ptrpos - 1)
     EXCEPT ![ptrpos] = c, ![cmdsize + 1] = Nul]

\* fault: the string is not terminated again
InsertedOpen(c) ==
  [Moved(cmdbuf, ptrpos + 1, ptrpos, cmdsize - ptrpos) EXCEPT ![ptrpos] = c]

\* The line with a character inserted at the cursor
Inserted(c) ==
  [Moved(cmdbuf, ptrpos + 1, ptrpos, cmdsize - ptrpos)
     EXCEPT ![ptrpos] = c, ![cmdsize + 1] = Nul]

\* fault: the limit is the size of the buffer, not one less
RoomOneMore == cmdsize <= Cap

HasRoom == cmdsize < Cap

Type(c) ==
  /\ ~wild /\ HasRoom
  /\ IF Overruns THEN Smash
     ELSE /\ cmdbuf' = Inserted(c)
          /\ ptrpos' = ptrpos + 1
          /\ cmdsize' = cmdsize + 1
          /\ UNCHANGED <<editor, entered, wild>>

HandOver(line, rest) ==
  /\ entered' = line
  /\ cmdbuf' = rest
  /\ cmdsize' = 0 /\ ptrpos' = 0
  /\ UNCHANGED <<editor, wild>>

\* The shell runs the command and clears the line.
ShellEnter ==
  /\ editor = "kshell" /\ ~wild
  /\ HandOver(String(cmdbuf), [cmdbuf EXCEPT ![0] = Nul])

\* k_gets makes room for the newline at the cursor but does not store it;
\* in a full line it stores it at the end.  The caller's next call starts
\* with an empty string.
GetsEnter ==
  /\ editor = "k_gets" /\ ~wild
  /\ Careful => ptrpos = cmdsize
  /\ IF HasRoom /\ Overruns THEN Smash
     ELSE LET line == IF HasRoom THEN Inserted(cmdbuf[ptrpos])
                      ELSE [cmdbuf EXCEPT ![Cap] = Newline, ![Cap + 1] = Nul]
          IN  HandOver(String(line), [line EXCEPT ![0] = Nul])

Next ==
  \/ Left \/ Right \/ Backspace \/ ShellEnter \/ GetsEnter
  \/ \E c \in Chars : Type(c)

Spec == Init /\ [][Next]_vars

-----------------------------------------------------------------------------
\* Properties

TypeOK ==
  /\ editor \in {"kshell", "k_gets"}
  /\ cmdbuf \in [Index -> Chars \cup {Nul, Newline, Other}]
  /\ cmdsize \in 0 .. Cap /\ ptrpos \in 0 .. Wrap - 1
  /\ wild \in BOOLEAN

\* kshell.cpp:313-314 says of both cmdsize and ptrpos: "0-77".
PtrInRange == ptrpos \in 0 .. Cap

\* lua.c:388-409 reads "a line from the standard input" with fgets: what is
\* handed over is the text as it was shown.
Text == String(cmdbuf)

HandsOverText ==
  [][entered' # entered =>
       entered' \in {Text, Text \o <<Newline>>}]_vars

\* Keys do to the text and the cursor what a line editor promises.
Edited == INSTANCE Line WITH
  before <- [i \in 1 .. ptrpos |-> cmdbuf[i - 1]],
  after <- [i \in 1 .. cmdsize - ptrpos |-> cmdbuf[ptrpos + i - 1]]

LineSpec == Edited!Spec
=============================================================================
