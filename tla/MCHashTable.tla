----------------------------- MODULE MCHashTable -----------------------------
(* Hash functions for TLC.                                                   *)
EXTENDS HashTable

CONSTANTS k1, k2, k3, k4

\* At most two keys per bucket, and three keys in one (k_hash_s skips the first
\* character, so all names of one character share a bucket).
PairsCollide == [k \in Keys |-> IF k \in {k1, k2} THEN 0 ELSE 1]

ThreeCollide == [k \in Keys |-> 0]
=============================================================================
