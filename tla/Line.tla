-------------------------------- MODULE Line --------------------------------
(***************************************************************************)
(* What a line editor promises: a text with a cursor in it, to which keys  *)
(* do what they say, and which Enter hands over as it stands.  A full line *)
(* may be handed over with a newline.                                      *)
(***************************************************************************)
EXTENDS Integers, Sequences

CONSTANTS Chars, Newline

VARIABLES before, after, entered

vars == <<before, after, entered>>

Init == before = <<>> /\ after = <<>> /\ entered = <<>>

Insert(c) == before' = Append(before, c) /\ UNCHANGED <<after, entered>>

Delete ==
  /\ before # <<>>
  /\ before' = SubSeq(before, 1, Len(before) - 1)
  /\ UNCHANGED <<after, entered>>

Left ==
  /\ before # <<>>
  /\ before' = SubSeq(before, 1, Len(before) - 1)
  /\ after' = <<before[Len(before)]>> \o after
  /\ UNCHANGED entered

Right ==
  /\ after # <<>>
  /\ before' = Append(before, Head(after))
  /\ after' = Tail(after)
  /\ UNCHANGED entered

Enter ==
  /\ entered' \in {before \o after, before \o after \o <<Newline>>}
  /\ before' = <<>> /\ after' = <<>>

Next == (\E c \in Chars : Insert(c)) \/ Delete \/ Left \/ Right \/ Enter

Spec == Init /\ [][Next]_vars
=============================================================================
