---------------------------- MODULE PageOwnership ----------------------------
(***************************************************************************)
(* What the memory manager promises: every frame is available, belongs to  *)
(* exactly one block, or is out of the clients' reach for good.  A block   *)
(* is a run of contiguous frames taken from the available ones; giving it  *)
(* back makes exactly those frames available again.                        *)
(***************************************************************************)
EXTENDS Integers, FiniteSets

CONSTANTS Pages, MaxAlloc

VARIABLES
  open,     \* the manager has been set up
  avail,    \* frames nobody owns
  blocks    \* [id, frames] of the blocks clients own

vars == <<open, avail, blocks>>

Ids == {b.id : b \in blocks}

Init == open = FALSE /\ avail = {} /\ blocks = {}

Open ==
  /\ ~open /\ open'
  /\ avail' \in SUBSET Pages
  /\ UNCHANGED blocks

Take(id, S) ==
  /\ open
  /\ id \notin Ids
  /\ S \subseteq avail
  /\ avail' = avail \ S
  /\ blocks' = blocks \cup {[id |-> id, frames |-> S]}
  /\ UNCHANGED open

Give(b) ==
  /\ open
  /\ avail' = avail \cup b.frames
  /\ blocks' = blocks \ {b}
  /\ UNCHANGED open

\* An allocation that fails half way may keep its frames for ever.
Lose(S) ==
  /\ open
  /\ S \subseteq avail
  /\ avail' = avail \ S
  /\ UNCHANGED <<open, blocks>>

Next ==
  \/ Open
  \/ \E p \in Pages, n \in 1 .. MaxAlloc :
       Lose(p .. p + n - 1) \/ \E id \in Pages : Take(id, p .. p + n - 1)
  \/ \E b \in blocks : Give(b)

Spec == Init /\ [][Next]_vars
=============================================================================
