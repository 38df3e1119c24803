---------------------------- MODULE CommandLine ----------------------------
(***************************************************************************)
(* A command of the kernel shell: kshell_execute finds it, cmd_parse cuts  *)
(* the line into words and quoted strings, one character at a time, and    *)
(* tedit opens the file its only argument names, by way of String::explode *)
(* and VFSRoot::resolveFilePath.  Nothing creates a folder, so a path of   *)
(* more than one piece names no file.                                      *)
(*                                                                         *)
(* Strings are sequences of characters; start and i count from 0.          *)
(***************************************************************************)
EXTENDS Integers, FiniteSets, SequencesExt

CONSTANTS
  Chars,                          \* ordinary characters
  Blank, Quote, Backslash, Slash,
  escape_char,                    \* what a character means after a backslash
  Commands,                       \* the names in the table of commands
  Lines,                          \* what is entered
  filename_max,                   \* 40
  null,                           \* the end of argv
  NotYet, Refused, Fault          \* no name: not looked up, none, the kernel halts

Alphabet == Chars \cup {Blank, Quote, Backslash, Slash}

ASSUME CommandLineAssumption ==
  /\ Cardinality({Blank, Quote, Backslash, Slash}) = 4
  /\ Chars \cap {Blank, Quote, Backslash, Slash} = {}
  /\ Lines \subseteq Seq(Alphabet) /\ Alphabet \subseteq DOMAIN escape_char
  /\ \A n \in Commands : n # <<>> /\ n \in Seq(Alphabet \ {Blank, Quote})
  /\ filename_max \in Nat
  /\ Cardinality({null, NotYet, Refused, Fault}) = 4
  /\ \A x \in {null, NotYet, Refused, Fault} : x \notin Seq(Alphabet \cup Range(escape_char))

VARIABLES
  cmd, i,               \* the line and the next character
  start, sz,            \* the word being read
  reading_string, reading_escape, str,
  data,                 \* the arguments
  opened                \* what the path led to: a name, Refused or Fault

cmdVars == <<cmd, i, start, sz, reading_string, reading_escape, str, data, opened>>

Idle == cmd = <<>>
Done == data # <<>> /\ Last(data) = null
Reading == ~Idle /\ ~Done /\ i < Len(cmd)

c == cmd[i + 1]

strndup(from, n) == SubSeq(cmd, from + 1, from + n)

Fresh ==
  /\ i' = 0 /\ start' = 0 /\ sz' = 0
  /\ reading_string' = FALSE /\ reading_escape' = FALSE /\ str' = <<>>
  /\ data' = <<>> /\ opened' = NotYet

CmdInit ==
  /\ cmd = <<>> /\ i = 0 /\ start = 0 /\ sz = 0
  /\ reading_string = FALSE /\ reading_escape = FALSE /\ str = <<>>
  /\ data = <<>> /\ opened = NotYet

\* The line up to its first blank
Name(line) ==
  LET n == SelectInSeq(line, LAMBDA x : x = Blank)
  IN  IF n = 0 THEN line ELSE SubSeq(line, 1, n - 1)

\* kshell_execute.  A line with any other name does nothing.
Execute(line) ==
  /\ Idle /\ line # <<>> /\ Name(line) \in Commands
  /\ cmd' = line
  /\ Fresh

\* The command ends; the shell reads the next line.
Return ==
  /\ Done /\ opened # Fault
  /\ cmd' = <<>>
  /\ Fresh

-----------------------------------------------------------------------------
(* cmd_parse, a character at a time.                                       *)

Step == i' = i + 1 /\ UNCHANGED <<cmd, opened>>

EscapedStays ==                                       \* fault: never reset
  /\ Reading /\ reading_escape
  /\ str' = Append(str, escape_char[c])
  /\ Step /\ UNCHANGED <<start, sz, reading_string, reading_escape, data>>

Escaped ==
  /\ Reading /\ reading_escape
  /\ str' = Append(str, escape_char[c])
  /\ reading_escape' = FALSE
  /\ Step /\ UNCHANGED <<start, sz, reading_string, data>>

InString == Reading /\ ~reading_escape /\ reading_string

EndString ==
  /\ InString /\ c = Quote
  /\ data' = Append(data, str) /\ str' = <<>>
  /\ reading_string' = FALSE
  /\ Step /\ UNCHANGED <<start, sz, reading_escape>>

StartEscape ==
  /\ InString /\ c = Backslash
  /\ reading_escape' = TRUE
  /\ Step /\ UNCHANGED <<start, sz, reading_string, str, data>>

StringChar ==
  /\ InString /\ c \notin {Quote, Backslash}
  /\ str' = Append(str, c)
  /\ Step /\ UNCHANGED <<start, sz, reading_string, reading_escape, data>>

InWords == Reading /\ ~reading_escape /\ ~reading_string

\* The word that ends here, if there is one
WithWord == IF sz > 0 THEN Append(data, strndup(start, sz)) ELSE data

\* A quote starts a string also right behind a word.
Separator ==
  /\ InWords /\ c \in {Blank, Quote}
  /\ data' = WithWord /\ sz' = 0
  /\ reading_string' = (c = Quote)
  /\ Step /\ UNCHANGED <<start, reading_escape, str>>

WordChar ==
  /\ InWords /\ c \notin {Blank, Quote}
  /\ start' = IF sz = 0 THEN i ELSE start
  /\ sz' = sz + 1
  /\ Step /\ UNCHANGED <<reading_string, reading_escape, str, data>>

\* A string that was not closed is dropped.
End ==
  /\ ~Idle /\ ~Done /\ i = Len(cmd)
  /\ data' = Append(WithWord, null)
  /\ UNCHANGED <<cmd, i, start, sz, reading_string, reading_escape, str, opened>>

-----------------------------------------------------------------------------
(* The path of a file.                                                     *)

\* String::substr, which does not use start for more than the length
substr(d, from, n) ==
  IF from > Len(d) THEN <<>> ELSE SubSeq(d, 1, IF n < Len(d) - from THEN n ELSE Len(d) - from)

ScanFromZero(d, s, k) ==                              \* fault: start stays 0
  IF d[k + 1] # Slash THEN [s EXCEPT !.piece = TRUE]
  ELSE IF s.piece THEN [s EXCEPT !.piece = FALSE, !.vec = Append(@, substr(d, 0, k))]
  ELSE s

\* The character at k in String::explode's loop
Scan(d, s, k) ==
  IF d[k + 1] # Slash
  THEN [s EXCEPT !.piece = TRUE, !.start = IF s.piece THEN @ ELSE k]
  ELSE IF s.piece
  THEN [s EXCEPT !.piece = FALSE, !.vec = Append(@, substr(d, s.start, k - s.start))]
  ELSE s

\* String::explode by '/'
Explode(d) ==
  LET end == FoldLeftDomain(LAMBDA s, k : Scan(d, s, k - 1),
                            [piece |-> FALSE, start |-> 0, vec |-> <<>>], d)
  IN  IF end.piece THEN Append(end.vec, substr(d, end.start, Len(d) - end.start))
      ELSE end.vec

\* VFSRoot::resolveFilePath.  For a path of no pieces size()-1 wraps, and the
\* loop reads the first element of a vector that has none.
resolveFilePath(path) ==
  IF path # <<>> /\ Last(path) = Slash THEN Refused
  ELSE IF Explode(path) = <<>> THEN Fault
  ELSE IF Len(Explode(path)) > 1 THEN Refused
  ELSE Explode(path)[1]

argc == Len(data) - 1

\* What tedit opens: nothing for a name that is too long.
Looked(path) == IF Len(path) > filename_max THEN Refused ELSE resolveFilePath(path)

\* tedit_main
OpenFile ==
  /\ Done /\ opened = NotYet /\ argc = 2
  /\ opened' = Looked(data[2])
  /\ UNCHANGED <<cmd, i, start, sz, reading_string, reading_escape, str, data>>

CmdNext ==
  \/ \E line \in Lines : Execute(line)
  \/ Escaped \/ EndString \/ StartEscape \/ StringChar
  \/ Separator \/ WordChar \/ End
  \/ OpenFile \/ Return

CmdSpec == CmdInit /\ [][CmdNext]_cmdVars

-----------------------------------------------------------------------------
(* Properties.  What cmd_parse should find is stated by cutting the line   *)
(* into tokens: blanks, words, and strings between quotes.                 *)

\* The place of k in the order of S
Nth(S, k) == Cardinality({j \in S : j <= k})

\* The character at k follows an odd number of backslashes in the token.
Behind(t, k) ==
  (Cardinality({j \in 2 .. k - 1 : \A m \in j .. k - 1 : t[m] = Backslash}) % 2) = 1

Closing(t) == {k \in 2 .. Len(t) : t[k] = Quote /\ ~Behind(t, k)}

IsWord(t) == \A k \in DOMAIN t : t[k] \notin {Blank, Quote}
IsString(t) == t[1] = Quote /\ Closing(t) = {Len(t)}
IsOpen(t) == t[1] = Quote /\ Closing(t) = {}
IsArg(t) == IsWord(t) \/ IsString(t)

\* The places of a string's characters that stand for one of its value
Kept(t) == {k \in 2 .. Len(t) - 1 : t[k] # Backslash \/ Behind(t, k)}

Gives(t, v) ==
  IF IsWord(t) THEN v = t
  ELSE /\ Len(v) = Cardinality(Kept(t))
       /\ \A k \in Kept(t) :
            v[Nth(Kept(t), k)] = IF Behind(t, k) THEN escape_char[t[k]] ELSE t[k]

\* The token that begins at k, when tokens begin at the places in "cuts"
TokenAt(line, cuts, k) ==
  LET later == {j \in cuts : j > k}
  IN  SubSeq(line, k, IF later = {} THEN Len(line) ELSE Min(later) - 1)

Args(line, cuts) == {k \in cuts : IsArg(TokenAt(line, cuts, k))}

\* Two words are not neighbours, and only the last token may be a string not closed.
WellCut(line, cuts) ==
  /\ 1 \in cuts
  /\ \A k \in cuts :
       LET t == TokenAt(line, cuts, k)
           next == k + Len(t)
       IN  /\ t = <<Blank>> \/ IsArg(t) \/ (IsOpen(t) /\ next > Len(line))
           /\ (IsWord(t) /\ next \in cuts) => ~IsWord(TokenAt(line, cuts, next))

\* A command gets the words and the strings of its line, in order, with the
\* escapes replaced: no word runs on into its neighbour, no state is left over
\* from a string or an escape before, and the command's own name comes first
\* (kshell.cpp:153-195, 208-230).
WordsParsed ==
  Done =>
    /\ \E cuts \in SUBSET DOMAIN cmd :
         LET args == Args(cmd, cuts)
         IN  /\ WellCut(cmd, cuts)
             /\ Len(data) = Cardinality(args) + 1
             /\ \A k \in args : Gives(TokenAt(cmd, cuts, k), data[Nth(args, k)])
    /\ data[1] = Name(cmd)

\* The runs of a path between separators
PathRuns(p) ==
  {r \in (DOMAIN p) \X (DOMAIN p) :
     /\ r[1] <= r[2] /\ \A k \in r[1] .. r[2] : p[k] # Slash
     /\ r[1] = 1 \/ p[r[1] - 1] = Slash
     /\ r[2] = Len(p) \/ p[r[2] + 1] = Slash}

\* A path of one piece that does not end in a separator and is not longer than the
\* editor takes leads to a file whose name is as long as the piece, and is the piece
\* where no separator is before it; only the empty path halts the kernel, and every
\* other one is refused (string.cpp:153-194, vfs.cpp:32-47, tedit_main.cpp:17-23).
OnePieceOpens ==
  opened # NotYet =>
    LET path == data[2]
        one == /\ PathRuns(path) # {} /\ Cardinality(PathRuns(path)) = 1 /\ Last(path) # Slash
               /\ Len(path) <= filename_max
    IN  /\ opened = Fault <=> path = <<>>
        /\ opened \notin {Fault, Refused} <=> one
        /\ one => \A r \in PathRuns(path) :
                    /\ Len(opened) = r[2] - r[1] + 1
                    /\ r[1] = 1 => opened = path

-----------------------------------------------------------------------------
\* string.h:54 "substr(size_t start,size_t len)": the name of a file is the
\* piece of the path.
NameIsPiece ==
  opened \notin {NotYet, Fault, Refused} =>
    \A r \in PathRuns(data[2]) : opened = SubSeq(data[2], r[1], r[2])

\* A quote that was opened and not closed still gives the command its text.
NothingDropped == Done => ~reading_string
=============================================================================
