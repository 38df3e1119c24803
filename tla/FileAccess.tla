------------------------------ MODULE FileAccess ------------------------------
(***************************************************************************)
(* What the C streams promise about files: a file is opened by one stream  *)
(* at a time; only the stream that has it open for writing changes its     *)
(* bytes; no other call than remove makes a file disappear, and none does  *)
(* while a stream has it open.                                             *)
(***************************************************************************)
EXTENDS Sequences

CONSTANTS Names, Bytes

VARIABLES
  bytes,     \* name -> contents, for the names of files
  readers,   \* names of the files opened for reading only
  writers    \* names of the files opened for writing

vars == <<bytes, readers, writers>>

Names0 == DOMAIN bytes

Init == bytes = [n \in {} |-> <<>>] /\ readers = {} /\ writers = {}

With(n, s) == [m \in Names0 \cup {n} |-> IF m = n THEN s ELSE bytes[m]]

Free(n) == n \notin readers \cup writers

OpenRead(n) ==
  /\ n \in Names0 /\ Free(n)
  /\ readers' = readers \cup {n}
  /\ UNCHANGED <<bytes, writers>>

\* The contents are kept, or cut to nothing (a new file has none).
OpenWrite(n) ==
  /\ Free(n)
  /\ \/ bytes' = With(n, <<>>)
     \/ n \in Names0 /\ bytes' = bytes
  /\ writers' = writers \cup {n}
  /\ UNCHANGED readers

Change(n) ==
  /\ n \in writers /\ n \in Names0
  /\ DOMAIN bytes' = Names0 /\ bytes'[n] \in Seq(Bytes)
  /\ \A m \in Names0 \ {n} : bytes'[m] = bytes[m]
  /\ UNCHANGED <<readers, writers>>

Close(n) ==
  /\ readers' = readers \ {n} /\ writers' = writers \ {n}
  /\ UNCHANGED bytes

Remove(n) ==
  /\ Free(n)
  /\ bytes' = [m \in Names0 \ {n} |-> bytes[m]]
  /\ UNCHANGED <<readers, writers>>

Rename(n, m) ==
  /\ n \in Names0 /\ m \notin Names0 /\ Free(n)
  /\ bytes' = [l \in (Names0 \ {n}) \cup {m} |-> IF l = m THEN bytes[n] ELSE bytes[l]]
  /\ UNCHANGED <<readers, writers>>

Next ==
  \/ \E n \in Names : \/ OpenRead(n) \/ OpenWrite(n) \/ Change(n)
                      \/ Close(n) \/ Remove(n)
  \/ \E n, m \in Names : Rename(n, m)

Spec == Init /\ [][Next]_vars
=============================================================================
