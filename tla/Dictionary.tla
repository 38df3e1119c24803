------------------------------ MODULE Dictionary ------------------------------
(***************************************************************************)
(* What a table of owned objects promises: a key has at most one object,   *)
(* an operation changes the key it names and no other, and an object lives *)
(* exactly as long as some key has it.                                     *)
(***************************************************************************)
CONSTANTS Keys, Objects

VARIABLES
  entry,    \* key -> its object, for the keys that have one
  live      \* objects created and not destroyed

vars == <<entry, live>>

Values(e) == {e[k] : k \in DOMAIN e}

Init == entry = [k \in {} |-> k] /\ live = {}

Put(k, o) ==
  /\ o \notin live
  /\ entry' = [j \in DOMAIN entry \cup {k} |-> IF j = k THEN o ELSE entry[j]]
  /\ live' = Values(entry')

Drop(k) ==
  /\ entry' = [j \in DOMAIN entry \ {k} |-> entry[j]]
  /\ live' = Values(entry')

\* The object goes from one key to another that had none.
Move(k, l) ==
  /\ k \in DOMAIN entry /\ l \notin DOMAIN entry
  /\ entry' = [j \in (DOMAIN entry \ {k}) \cup {l} |->
                 IF j = l THEN entry[k] ELSE entry[j]]
  /\ UNCHANGED live

Next ==
  \/ \E k \in Keys, o \in Objects : Put(k, o)
  \/ \E k \in Keys : Drop(k)
  \/ \E k, l \in Keys : Move(k, l)

Spec == Init /\ [][Next]_vars
=============================================================================
