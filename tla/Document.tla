------------------------------ MODULE Document ------------------------------
(***************************************************************************)
(* What a text editor promises: a text with a cursor in it.  A key changes *)
(* the text only at the cursor, or moves the cursor.                       *)
(***************************************************************************)
EXTENDS Sequences, Naturals

CONSTANTS Typed, Blank

VARIABLES before, after

vars == <<before, after>>

Init == before = <<>>

Insert(c) == before' = Append(before, c) /\ UNCHANGED after

Indent ==
  /\ \E n \in 1 .. Len(before') : before' = before \o [i \in 1 .. n |-> Blank]
  /\ UNCHANGED after

Delete ==
  /\ before # <<>>
  /\ before' = SubSeq(before, 1, Len(before) - 1)
  /\ UNCHANGED after

MoveCursor == before' \o after' = before \o after

Open == before' = <<>>

Next == (\E c \in Typed : Insert(c)) \/ Indent \/ Delete \/ MoveCursor \/ Open

Spec == Init /\ [][Next]_vars
=============================================================================
