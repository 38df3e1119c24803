------------------------------ MODULE HashTable ------------------------------
(***************************************************************************)
(* include/util/hash_table.h over include/util/vector.h, as its two users  *)
(* drive it: the kernel environment (setenv, unsetenv) and the folders of  *)
(* the RAM file system (create, remove and rename of an entry).            *)
(*                                                                         *)
(* Each bucket is a Vector of entries [k, v]; v is the object a UniquePtr  *)
(* owns, or None.  An object leaves "live" when the UniquePtr that owns it *)
(* is destroyed; destroying one that is dead already is undefined: "ub".   *)
(***************************************************************************)
EXTENDS Integers, Sequences, FiniteSets

CONSTANTS
  Keys, Objects,
  None,          \* a null UniquePtr
  BucketOf       \* KEY_HASH(k) % N

Buckets == {BucketOf[k] : k \in Keys}

ASSUME TableAssumption == None \notin Objects /\ DOMAIN BucketOf = Keys

VARIABLES
  ht,      \* the buckets
  live,    \* objects created and not destroyed
  ub       \* an object was destroyed twice

vars == <<ht, live, ub>>

Init == ht = [b \in Buckets |-> <<>>] /\ live = {} /\ ub = FALSE

-----------------------------------------------------------------------------
(* Lookup, in the first entry of the bucket that has the key.              *)

Places(t, k) == {i \in DOMAIN t[BucketOf[k]] : t[BucketOf[k]][i].k = k}

Has(t, k) == Places(t, k) # {}

First(t, k) == CHOOSE i \in Places(t, k) : \A j \in Places(t, k) : i <= j

Find(t, k) == IF Has(t, k) THEN t[BucketOf[k]][First(t, k)].v ELSE None

-----------------------------------------------------------------------------
(* Update.                                                                 *)

\* set: replace the value of the entry with the key, or append an entry.
SetValue(t, k, v) ==
  IF Has(t, k) THEN [t EXCEPT ![BucketOf[k]][First(t, k)].v = v]
  ELSE [t EXCEPT ![BucketOf[k]] = Append(@, [k |-> k, v |-> v])]

EraseNoMove(s, first, last) == SubSeq(s, 1, Len(s) - (last - first))   \* fault

\* Vector::erase of elements first .. last-1 (from 0): memmove moves as many
\* elements down as were removed, not as many as follow them.
Erase(s, first, last) ==
  LET count == last - first
  IN [i \in 1 .. Len(s) - count |->
        IF i \in first + 1 .. last THEN s[i + count] ELSE s[i]]

\* The entry unset removes; its destructor runs first.
EraseKey(t, k) ==
  LET i == First(t, k) IN [t EXCEPT ![BucketOf[k]] = Erase(@, i - 1, i)]

Destroy(o) ==
  /\ live' = live \ {o}
  /\ ub' = (ub \/ o \notin live \cup {None})

-----------------------------------------------------------------------------
(* The operations of the table's users.                                    *)

\* createFile, createFolder: only a key that has no entry; and setenv without
\* overwrite, by way of at() and its new entry.
Create(k, o) ==
  /\ ~Has(ht, k) /\ o \notin live
  /\ ht' = SetValue(ht, k, o)
  /\ live' = live \cup {o}
  /\ UNCHANGED ub

OverwriteLeaks(k, o) ==                               \* fault: the old one is kept
  /\ o \notin live /\ Has(ht, k)
  /\ ht' = SetValue(ht, k, o)
  /\ live' = live \cup {o}
  /\ UNCHANGED ub

\* setenv with overwrite: the old value is destroyed as the new one is assigned.
Overwrite(k, o) ==
  /\ o \notin live /\ Has(ht, k)
  /\ ht' = SetValue(ht, k, o)
  /\ live' = (live \ {Find(ht, k)}) \cup {o}
  /\ ub' = (ub \/ Find(ht, k) \notin live \cup {None})

\* unsetenv, removeFolder: erase destroys the entry.
Unset(k) ==
  /\ Has(ht, k)
  /\ Destroy(Find(ht, k))
  /\ ht' = EraseKey(ht, k)

\* removeFile: the object is moved out of its entry, the entry erased with its
\* null pointer, the object destroyed at the end.
RemoveFile(k) ==
  /\ Has(ht, k)
  /\ LET o == Find(ht, k) IN
       /\ ht' = EraseKey(SetValue(ht, k, None), k)
       /\ Destroy(o)

RenameInPlace(k, l) ==                                \* fault: left in its bucket
  /\ Has(ht, k) /\ ~Has(ht, l)
  /\ ht' = [ht EXCEPT ![BucketOf[k]][First(ht, k)].k = l]
  /\ UNCHANGED <<live, ub>>

\* renameFile, renameFolder
Rename(k, l) ==
  /\ Has(ht, k) /\ ~Has(ht, l)
  /\ LET o == Find(ht, k) IN
       ht' = SetValue(EraseKey(SetValue(ht, k, None), k), l, o)
  /\ UNCHANGED <<live, ub>>

Next ==
  \/ \E k \in Keys, o \in Objects : Create(k, o) \/ Overwrite(k, o)
  \/ \E k \in Keys : Unset(k) \/ RemoveFile(k)
  \/ \E k, l \in Keys : Rename(k, l)

Spec == Init /\ [][Next]_vars

-----------------------------------------------------------------------------
(* Properties.                                                             *)

Slots == UNION {{b} \X DOMAIN ht[b] : b \in Buckets}

ValueAt(s) == ht[s[1]][s[2]].v

\* Type invariant: entries in the bucket of their key.
TypeOK ==
  /\ DOMAIN ht = Buckets
  /\ \A b \in Buckets : \A i \in DOMAIN ht[b] :
       /\ ht[b][i].k \in Keys /\ BucketOf[ht[b][i].k] = b
       /\ ht[b][i].v \in Objects \cup {None}
  /\ live \subseteq Objects /\ ub \in BOOLEAN

\* Every live object is owned by exactly one entry: whatever was removed, renamed
\* or overwritten around it, none is lost and none is about to be destroyed twice.
OwnedOnce ==
  /\ TypeOK
  /\ \A o \in live : Cardinality({s \in Slots : ValueAt(s) = o}) = 1
  /\ ~ub

\* The table is a dictionary: each operation does to its key what it should, and
\* nothing to the keys that share the bucket.
Promise == INSTANCE Dictionary WITH
  entry <- [k \in {j \in Keys : Has(ht, j)} |-> Find(ht, k)]

DictionarySpec == Promise!Spec

-----------------------------------------------------------------------------
\* hash_table.h:100 "if found return pointer, else null": what find returns for a
\* key is an object that still exists.
FindReturnsLive == \A k \in Keys : Find(ht, k) \in live \cup {None}
=============================================================================
