--------------------------- MODULE Lookup_proofs ---------------------------
(***************************************************************************)
(* What a name leads to.  First the hash table, where commands, variables  *)
(* and files are kept by name (HashTable): it keeps every object exactly   *)
(* once, and is the dictionary it is used as, as long as no bucket gets a  *)
(* third entry: Vector::erase moves too few elements down when two or more *)
(* follow the one removed.  SetValue and EraseKey are characterised by     *)
(* what a lookup finds afterwards; the invariant is about lookups only.    *)
(*                                                                         *)
(* Then the command line (CommandLine): the arguments a command gets are   *)
(* the words and strings of its line, and the file an argument names is    *)
(* its only piece, for every table of commands and every line.  In order:  *)
(*   places in an order, tokens, and what a character adds to the tokens;  *)
(*   the invariant: the tokens so far, with the last one in progress;      *)
(*   the fold of String::explode, and the runs it counts.                  *)
(***************************************************************************)
EXTENDS HashTable, CommandLine, SequenceTheorems, FiniteSetTheorems, WellFoundedInduction, TLAPS


Entry == [k : Keys, v : Objects \cup {None}]

\* A table whose entries are in their buckets, with no key twice.
Table(t) ==
  /\ t \in [Buckets -> Seq(Entry)]
  /\ \A b \in Buckets : \A p \in 1 .. Len(t[b]) :
       /\ BucketOf[t[b][p].k] = b
       /\ \A j \in 1 .. Len(t[b]) : t[b][p].k = t[b][j].k => p = j

\* No bucket has three entries.
AtMostTwo == \A b \in Buckets : Len(ht[b]) <= 2

\* No three keys share a bucket.
NoThreeCollide ==
  \A p, j, l \in Keys :
    BucketOf[p] = BucketOf[j] /\ BucketOf[j] = BucketOf[l] => p = j \/ j = l \/ p = l

-----------------------------------------------------------------------------
(* Lookup.                                                                 *)

LEMMA BucketType ==
  ASSUME NEW t, Table(t), NEW k \in Keys
  PROVE  /\ BucketOf[k] \in Buckets
         /\ t[BucketOf[k]] \in Seq(Entry)
         /\ Len(t[BucketOf[k]]) \in Nat
         /\ DOMAIN t[BucketOf[k]] = 1 .. Len(t[BucketOf[k]])
  <1>1. BucketOf[k] \in Buckets
    BY DEF Buckets
  <1>2. t[BucketOf[k]] \in Seq(Entry)
    BY <1>1 DEF Table
  <1> QED BY <1>1, <1>2, LenProperties

\* An entry with key k is the one that a lookup of k finds.
LEMMA FoundAt ==
  ASSUME NEW t, Table(t), NEW b \in Buckets, NEW p \in 1 .. Len(t[b])
  PROVE  LET k == t[b][p].k IN
           /\ k \in Keys /\ BucketOf[k] = b
           /\ Has(t, k) /\ First(t, k) = p /\ Find(t, k) = t[b][p].v
           /\ Places(t, k) = {p}
  <1> DEFINE k == t[b][p].k
  <1>1. t[b] \in Seq(Entry) /\ t[b][p] \in Entry /\ DOMAIN t[b] = 1 .. Len(t[b])
    BY ElementOfSeq, LenProperties DEF Table
  <1>2. k \in Keys /\ BucketOf[k] = b
    BY <1>1 DEF Table, Entry
  <1>3. Places(t, k) = {p}
    BY <1>1, <1>2 DEF Places, Table
  <1>4. First(t, k) = p
    BY <1>3 DEF First
  <1> QED BY <1>2, <1>3, <1>4 DEF Has, Find

\* A key that is found is found in an entry of its bucket.
LEMMA HasPlace ==
  ASSUME NEW t, Table(t), NEW k \in Keys, Has(t, k)
  PROVE  /\ First(t, k) \in 1 .. Len(t[BucketOf[k]])
         /\ t[BucketOf[k]][First(t, k)].k = k
         /\ Find(t, k) = t[BucketOf[k]][First(t, k)].v
         /\ Find(t, k) \in Objects \cup {None}
  <1>1. PICK p \in 1 .. Len(t[BucketOf[k]]) : t[BucketOf[k]][p].k = k
    BY BucketType DEF Has, Places
  <1>2. First(t, k) = p
    BY <1>1, FoundAt, BucketType
  <1>3. t[BucketOf[k]][p] \in Entry
    BY BucketType, ElementOfSeq
  <1> QED BY <1>1, <1>2, <1>3 DEF Find, Entry

\* A lookup is decided by the bucket of the key alone.
LEMMA SameBucket ==
  ASSUME NEW t, NEW u, NEW k \in Keys, t[BucketOf[k]] = u[BucketOf[k]]
  PROVE  Has(t, k) = Has(u, k) /\ Find(t, k) = Find(u, k)
  BY DEF Has, Find, First, Places

\* When an entry with the key is there, a lookup finds it; otherwise nothing.
LEMMA Lookup ==
  ASSUME NEW t, Table(t), NEW k \in Keys
  PROVE  /\ \A p \in 1 .. Len(t[BucketOf[k]]) :
              t[BucketOf[k]][p].k = k => Has(t, k) /\ Find(t, k) = t[BucketOf[k]][p].v
         /\ Has(t, k) => \E p \in 1 .. Len(t[BucketOf[k]]) : t[BucketOf[k]][p].k = k
         /\ ~Has(t, k) => Find(t, k) = None
  BY FoundAt, BucketType, HasPlace DEF Find

-----------------------------------------------------------------------------
(* SetValue.                                                               *)

\* Replacing the value of an entry.
LEMMA ReplaceFacts ==
  ASSUME NEW t, Table(t), NEW k \in Keys, Has(t, k), NEW v \in Objects \cup {None}
  PROVE  LET u == SetValue(t, k, v) IN
           /\ Table(u)
           /\ \A b \in Buckets : Len(u[b]) = Len(t[b])
           /\ \A j \in Keys : Has(u, j) <=> Has(t, j)
           /\ \A j \in Keys : Find(u, j) = IF j = k THEN v ELSE Find(t, j)
  <1> DEFINE b == BucketOf[k]
             f == First(t, k)
             u == SetValue(t, k, v)
             e == [t[b][f] EXCEPT !.v = v]
  <1>1. /\ b \in Buckets /\ t[b] \in Seq(Entry) /\ f \in 1 .. Len(t[b])
        /\ t[b][f].k = k /\ t[b][f] \in Entry
    BY BucketType, HasPlace, ElementOfSeq
  <1>2. e \in Entry /\ e.k = k /\ e.v = v
    BY <1>1 DEF Entry
  <1>3. u = [t EXCEPT ![b] = [t[b] EXCEPT ![f] = e]]
    BY DEF SetValue
  <1>4. /\ [t[b] EXCEPT ![f] = e] \in Seq(Entry)
        /\ Len([t[b] EXCEPT ![f] = e]) = Len(t[b])
        /\ \A p \in 1 .. Len(t[b]) :
             [t[b] EXCEPT ![f] = e][p] = IF p = f THEN e ELSE t[b][p]
    BY <1>1, <1>2, ExceptSeq
  <1>5. /\ u \in [Buckets -> Seq(Entry)]
        /\ u[b] = [t[b] EXCEPT ![f] = e]
        /\ \A q \in Buckets \ {b} : u[q] = t[q]
    <2> HIDE DEF b, f, u, e
    <2> DEFINE s == [t[b] EXCEPT ![f] = e]
    <2>1. t \in [Buckets -> Seq(Entry)] /\ s \in Seq(Entry) /\ u = [t EXCEPT ![b] = s]
      BY <1>3, <1>4 DEF Table
    <2> HIDE DEF s
    <2>2. u \in [Buckets -> Seq(Entry)] /\ u[b] = s /\ \A q \in Buckets \ {b} : u[q] = t[q]
      BY <1>1, <2>1
    <2> QED BY <2>2 DEF s
  <1>6. \A q \in Buckets : /\ Len(u[q]) = Len(t[q])
                           /\ \A p \in 1 .. Len(t[q]) : u[q][p].k = t[q][p].k
    BY <1>1, <1>2, <1>4, <1>5
  <1>7. Table(u)
    <2> HIDE DEF u
    <2> QED BY <1>5, <1>6 DEF Table
  <1>8. ASSUME NEW j \in Keys
        PROVE  (Has(u, j) <=> Has(t, j)) /\ Find(u, j) = IF j = k THEN v ELSE Find(t, j)
    <2> HIDE DEF b, f, u, e
    <2>1. BucketOf[j] \in Buckets
      BY DEF Buckets
    <2>2. CASE BucketOf[j] # b
      <3>1. u[BucketOf[j]] = t[BucketOf[j]]
        BY <2>1, <2>2, <1>5
      <3>2. j # k
        BY <2>2 DEF b
      <3> QED BY <3>1, <3>2, SameBucket
    <2>3. CASE BucketOf[j] = b
      <3>1. Has(u, j) <=> Has(t, j)
        <4> DEFINE q == BucketOf[j]
        <4>1. \A s : Table(s) => (Has(s, j) <=> \E p \in 1 .. Len(s[q]) : s[q][p].k = j)
          BY Lookup
        <4>2. Len(u[q]) = Len(t[q]) /\ \A p \in 1 .. Len(t[q]) : u[q][p].k = t[q][p].k
          BY <1>6, <2>1
        <4> HIDE DEF q
        <4> QED BY <4>1, <4>2, <1>7
      <3>2. ASSUME NEW p \in 1 .. Len(t[b]), t[b][p].k = j
            PROVE  Find(u, j) = IF j = k THEN v ELSE Find(t, j)
        <4>1. Find(u, j) = u[b][p].v /\ Find(t, j) = t[b][p].v
          <5>1. p \in 1 .. Len(u[b]) /\ u[b][p].k = j
            BY <3>2, <1>1, <1>6
          <5>2. Find(u, j) = u[b][p].v
            BY <5>1, <2>3, <1>7, Lookup
          <5>3. Find(t, j) = t[b][p].v
            BY <3>2, <2>3, Lookup
          <5> QED BY <5>2, <5>3
        <4>2. p = f <=> j = k
          BY <3>2, <1>1 DEF Table
        <4> QED BY <4>1, <4>2, <1>2, <1>4, <1>5
      <3>3. CASE ~Has(t, j)
        <4>1. Find(u, j) = None /\ Find(t, j) = None
          BY <3>1, <3>3, <1>7, Lookup
        <4>2. j # k
          BY <3>3
        <4> QED BY <3>1, <4>1, <4>2
      <3>4. CASE Has(t, j)
        <4>1. PICK p \in 1 .. Len(t[b]) : t[b][p].k = j
          BY <3>4, <2>3, Lookup
        <4> QED BY <3>1, <4>1, <3>2
      <3> QED BY <3>1, <3>3, <3>4
    <2> QED BY <2>2, <2>3
  <1> QED BY <1>6, <1>7, <1>8

\* Appending an entry for a key that has none.
LEMMA AppendFacts ==
  ASSUME NEW t, Table(t), NEW k \in Keys, ~Has(t, k), NEW v \in Objects \cup {None}
  PROVE  LET u == SetValue(t, k, v) IN
           /\ Table(u)
           /\ \A j \in Keys : Has(u, j) <=> Has(t, j) \/ j = k
           /\ \A j \in Keys : Find(u, j) = IF j = k THEN v ELSE Find(t, j)
  <1> DEFINE b == BucketOf[k]
             u == SetValue(t, k, v)
             e == [k |-> k, v |-> v]
             s == Append(t[b], e)
  <1>1. b \in Buckets /\ t[b] \in Seq(Entry) /\ Len(t[b]) \in Nat
    BY BucketType
  <1>2. e \in Entry /\ e.k = k /\ e.v = v
    BY DEF Entry
  <1>3. /\ s \in Seq(Entry) /\ Len(s) = Len(t[b]) + 1
        /\ s[Len(t[b]) + 1] = e
        /\ \A p \in 1 .. Len(t[b]) : s[p] = t[b][p]
    BY <1>1, <1>2, AppendProperties
  <1>4. \A p \in 1 .. Len(t[b]) : t[b][p].k # k
    BY Lookup
  <1>5. u = [t EXCEPT ![b] = s]
    BY DEF SetValue
  <1> HIDE DEF b, u, e, s
  <1>6. /\ u \in [Buckets -> Seq(Entry)] /\ u[b] = s
        /\ \A q \in Buckets \ {b} : u[q] = t[q]
    BY <1>1, <1>3, <1>5 DEF Table
  <1>7. Table(u)
    <2>1. ASSUME NEW q \in Buckets, NEW p \in 1 .. Len(u[q]), NEW j \in 1 .. Len(u[q])
          PROVE  BucketOf[u[q][p].k] = q /\ (u[q][p].k = u[q][j].k => p = j)
      <3>1. CASE q # b
        BY <3>1, <2>1, <1>6 DEF Table
      <3>2. CASE q = b
        <4>1. p = Len(t[b]) + 1 \/ p \in 1 .. Len(t[b])
          BY <1>1, <1>3, <1>6, <3>2
        <4>2. j = Len(t[b]) + 1 \/ j \in 1 .. Len(t[b])
          BY <1>1, <1>3, <1>6, <3>2
        <4>3. BucketOf[k] = b
          BY DEF b
        <4> QED BY <4>1, <4>2, <4>3, <3>2, <1>1, <1>2, <1>3, <1>4, <1>6 DEF Table
      <3> QED BY <3>1, <3>2
    <2> QED BY <2>1, <1>6 DEF Table
  <1>8. ASSUME NEW j \in Keys
        PROVE  /\ Has(u, j) <=> Has(t, j) \/ j = k
               /\ Find(u, j) = IF j = k THEN v ELSE Find(t, j)
    <2>1. BucketOf[j] \in Buckets
      BY DEF Buckets
    <2>2. CASE BucketOf[j] # b
      <3>1. u[BucketOf[j]] = t[BucketOf[j]]
        BY <2>1, <2>2, <1>6
      <3>2. j # k
        BY <2>2 DEF b
      <3> QED BY <3>1, <3>2, SameBucket
    <2>3. CASE j = k
      <3>1. Len(t[b]) + 1 \in 1 .. Len(u[BucketOf[j]]) /\ u[BucketOf[j]][Len(t[b]) + 1] = e
        BY <1>1, <1>3, <1>6, <2>3 DEF b
      <3> QED BY <3>1, <2>3, <1>2, <1>7, Lookup
    <2>4. CASE BucketOf[j] = b /\ j # k
      <3>1. \A p \in 1 .. Len(t[b]) : p \in 1 .. Len(u[b]) /\ u[b][p] = t[b][p]
        BY <1>1, <1>3, <1>6
      <3>2. CASE Has(t, j)
        <4>1. PICK p \in 1 .. Len(t[b]) : t[b][p].k = j
          BY <2>4, <3>2, Lookup
        <4>2. Find(t, j) = t[b][p].v
          BY <2>4, <4>1, Lookup
        <4>3. Has(u, j) /\ Find(u, j) = u[b][p].v
          BY <2>4, <3>1, <4>1, <1>7, Lookup
        <4> QED BY <2>4, <3>1, <3>2, <4>1, <4>2, <4>3
      <3>3. CASE ~Has(t, j)
        <4>1. ~Has(u, j)
          <5> SUFFICES ASSUME Has(u, j) PROVE FALSE
            OBVIOUS
          <5>1. PICK p \in 1 .. Len(u[b]) : u[b][p].k = j
            BY <2>4, <1>7, Lookup
          <5>2. p \in 1 .. Len(t[b])
            BY <5>1, <2>4, <1>1, <1>2, <1>3, <1>6
          <5> QED BY <5>1, <5>2, <3>1, <3>3, <2>4, Lookup
        <4>2. Find(u, j) = None /\ Find(t, j) = None
          BY <4>1, <3>3, <1>7, Lookup
        <4> QED BY <4>1, <4>2, <3>3, <2>4
      <3> QED BY <3>2, <3>3
    <2> QED BY <2>2, <2>3, <2>4
  <1> QED BY <1>7, <1>8 DEF u

-----------------------------------------------------------------------------
(* EraseKey.                                                               *)

\* In a bucket of at most two entries the memmove leaves the other one.
LEMMA ErasePair ==
  ASSUME NEW s \in Seq(Entry), Len(s) <= 2, NEW p \in 1 .. Len(s)
  PROVE  /\ Erase(s, p - 1, p) \in Seq(Entry)
         /\ Len(Erase(s, p - 1, p)) = Len(s) - 1
         /\ Len(s) = 2 => Erase(s, p - 1, p)[1] = s[3 - p]
  <1> DEFINE u == Erase(s, p - 1, p)
  <1>1. Len(s) \in Nat /\ p \in Nat
    BY LenProperties
  <1>2. u = [j \in 1 .. Len(s) - 1 |-> IF j = p THEN s[j + 1] ELSE s[j]]
    BY <1>1 DEF Erase
  <1>3. \A j \in 1 .. Len(s) - 1 : u[j] = (IF j = p THEN s[j + 1] ELSE s[j]) /\ u[j] \in Entry
    BY <1>1, <1>2, ElementOfSeq
  <1>4. u \in Seq(Entry) /\ Len(u) = Len(s) - 1
    <2>1. u = [j \in 1 .. Len(s) - 1 |-> u[j]]
      BY <1>2
    <2> QED BY <2>1, <1>1, <1>3, IsASeq
  <1> QED BY <1>1, <1>3, <1>4

\* What a lookup finds once the entry of k is erased.
LEMMA EraseFacts ==
  ASSUME NEW t, Table(t), \A b \in Buckets : Len(t[b]) <= 2, NEW k \in Keys, Has(t, k)
  PROVE  LET u == EraseKey(t, k) IN
           /\ Table(u)
           /\ \A j \in Keys : Has(u, j) <=> Has(t, j) /\ j # k
           /\ \A j \in Keys : j # k => Find(u, j) = Find(t, j)
  <1> DEFINE b == BucketOf[k]
             f == First(t, k)
             u == EraseKey(t, k)
             s == Erase(t[b], f - 1, f)
  <1>1. /\ b \in Buckets /\ t[b] \in Seq(Entry) /\ Len(t[b]) \in Nat
        /\ f \in 1 .. Len(t[b]) /\ t[b][f].k = k
    BY BucketType, HasPlace
  <1>2. /\ s \in Seq(Entry) /\ Len(s) = Len(t[b]) - 1 /\ Len(t[b]) <= 2
        /\ Len(t[b]) = 2 => s[1] = t[b][3 - f]
    BY <1>1, ErasePair
  <1>3. u = [t EXCEPT ![b] = s]
    BY DEF EraseKey
  <1> HIDE DEF b, u, f, s
  <1>4. /\ u \in [Buckets -> Seq(Entry)] /\ u[b] = s
        /\ \A q \in Buckets \ {b} : u[q] = t[q]
    BY <1>1, <1>2, <1>3 DEF Table
  <1>l. \/ Len(t[b]) = 1 /\ Len(s) = 0 /\ f = 1
        \/ Len(t[b]) = 2 /\ Len(s) = 1 /\ f \in {1, 2} /\ 3 - f \in {1, 2} /\ 3 - f # f
    <2> DEFINE n == Len(t[b])
    <2>1. n \in Nat /\ f \in 1 .. n /\ n <= 2 /\ Len(s) = n - 1
      BY <1>1, <1>2
    <2> HIDE DEF n
    <2>2. n = 1 \/ n = 2
      BY <2>1
    <2>3. CASE n = 1
      BY <2>1, <2>3 DEF n
    <2>4. CASE n = 2
      BY <2>1, <2>4 DEF n
    <2> QED BY <2>2, <2>3, <2>4
  <1>5. Table(u)
    <2>1. ASSUME NEW q \in Buckets, NEW p \in 1 .. Len(u[q]), NEW j \in 1 .. Len(u[q])
          PROVE  BucketOf[u[q][p].k] = q /\ (u[q][p].k = u[q][j].k => p = j)
      <3>1. CASE q # b
        BY <3>1, <2>1, <1>4 DEF Table
      <3>2. CASE q = b
        <4>0. Len(u[q]) = Len(s)
          BY <1>4, <3>2
        <4>1. p = 1 /\ j = 1 /\ Len(t[b]) = 2 /\ 3 - f \in 1 .. Len(t[b])
          <5>1. CASE Len(s) = 0
            BY <5>1, <4>0
          <5>2. CASE Len(s) = 1 /\ Len(t[b]) = 2 /\ 3 - f \in {1, 2}
            BY <5>2, <4>0
          <5> QED BY <1>l, <5>1, <5>2
        <4>2. u[q][p] = t[b][3 - f] /\ p = j
          BY <1>2, <1>4, <3>2, <4>1
        <4>3. \A m \in 1 .. Len(t[b]) : BucketOf[t[b][m].k] = b
          BY <1>1 DEF Table
        <4>4. BucketOf[t[b][3 - f].k] = b
          BY <4>1, <4>3
        <4> QED BY <3>2, <4>2, <4>4
      <3> QED BY <3>1, <3>2
    <2> QED BY <2>1, <1>4 DEF Table
  <1>6. ASSUME NEW j \in Keys
        PROVE  /\ Has(u, j) <=> Has(t, j) /\ j # k
               /\ j # k => Find(u, j) = Find(t, j)
    <2>1. BucketOf[j] \in Buckets
      BY DEF Buckets
    <2>2. CASE BucketOf[j] # b
      <3>1. u[BucketOf[j]] = t[BucketOf[j]]
        BY <2>1, <2>2, <1>4
      <3>2. j # k
        BY <2>2 DEF b
      <3> QED BY <3>1, <3>2, SameBucket
    <2>3. CASE BucketOf[j] = b
      <3>1. ASSUME Has(u, j)
            PROVE  Has(t, j) /\ j # k /\ Find(u, j) = Find(t, j)
        <4>1. PICK p \in 1 .. Len(u[b]) : u[b][p].k = j
          BY <2>3, <3>1, <1>5, Lookup
        <4>2. p = 1 /\ 3 - f \in 1 .. Len(t[b]) /\ u[b][p] = t[b][3 - f] /\ 3 - f # f
          BY <4>1, <1>2, <1>4, <1>l
        <4>3. Find(u, j) = u[b][p].v
          BY <4>1, <2>3, <1>5, Lookup
        <4>4. Has(t, j) /\ Find(t, j) = t[b][3 - f].v
          BY <4>1, <4>2, <2>3, Lookup
        <4>5. j # k
          BY <4>1, <4>2, <1>1 DEF Table
        <4> QED BY <4>2, <4>3, <4>4, <4>5
      <3>2. ASSUME Has(t, j), j # k
            PROVE  Has(u, j)
        <4>1. PICK p \in 1 .. Len(t[b]) : t[b][p].k = j
          BY <2>3, <3>2, Lookup
        <4>2. 1 \in 1 .. Len(u[b]) /\ u[b][1] = t[b][p]
          <5>1. p # f
            BY <4>1, <3>2, <1>1
          <5>2. Len(t[b]) = 2 /\ Len(s) = 1 /\ p = 3 - f
            <6>1. CASE Len(t[b]) = 1 /\ f = 1
              BY <6>1, <5>1
            <6>2. CASE Len(t[b]) = 2 /\ Len(s) = 1 /\ f \in {1, 2}
              BY <6>2, <5>1
            <6> QED BY <1>l, <6>1, <6>2
          <5>3. s[1] = t[b][p] /\ u[b] = s
            BY <5>2, <1>2, <1>4
          <5>4. 1 \in 1 .. Len(s)
            BY <5>2
          <5> QED BY <5>3, <5>4
        <4> QED BY <4>1, <4>2, <2>3, <1>5, Lookup
      <3>3. CASE Has(u, j)
        BY <3>1, <3>3
      <3>4. CASE ~Has(u, j)
        <4>1. Find(u, j) = None
          BY <3>4, <1>5, Lookup
        <4>2. j # k => ~Has(t, j) /\ Find(t, j) = None
          BY <3>2, <3>4, Lookup
        <4> QED BY <3>2, <3>4, <4>1, <4>2
      <3> QED BY <3>3, <3>4
    <2> QED BY <2>2, <2>3
  <1> QED BY <1>5, <1>6 DEF u

-----------------------------------------------------------------------------
(* The invariant.                                                          *)

\* Every entry owns an object that lives, no two the same one, and every live
\* object has its entry.
Owned ==
  /\ Table(ht) /\ live \subseteq Objects /\ ub = FALSE
  /\ \A k \in Keys : Has(ht, k) => Find(ht, k) \in live
  /\ \A k, l \in Keys : Has(ht, k) /\ Has(ht, l) /\ Find(ht, k) = Find(ht, l) => k = l
  /\ \A o \in live : \E k \in Keys : Has(ht, k) /\ Find(ht, k) = o

LEMMA OwnedStart == Init => Owned
  <1> SUFFICES ASSUME Init PROVE Owned
    OBVIOUS
  <1>1. ht = [b \in Buckets |-> <<>>] /\ live = {} /\ ub = FALSE
    BY DEF Init
  <1>2. \A b \in Buckets : ht[b] = <<>> /\ Len(ht[b]) = 0
    BY <1>1, EmptySeq
  <1>3. Table(ht)
    BY <1>1, <1>2, EmptySeq DEF Table
  <1>4. \A k \in Keys : ~Has(ht, k)
    BY <1>2, <1>3, Lookup DEF Buckets
  <1> QED BY <1>1, <1>3, <1>4 DEF Owned

\* create: a key without an entry gets a new object.
LEMMA CreateOwned ==
  ASSUME Owned, NEW k \in Keys, NEW o \in Objects, Create(k, o)
  PROVE  /\ Owned' /\ live' = live \cup {o}
         /\ \A j \in Keys : Has(ht', j) <=> Has(ht, j) \/ j = k
         /\ \A j \in Keys : Find(ht', j) = IF j = k THEN o ELSE Find(ht, j)
  <1>1. /\ Table(ht) /\ ~Has(ht, k) /\ o \notin live /\ ht' = SetValue(ht, k, o)
        /\ live' = live \cup {o} /\ ub' = ub
    BY DEF Owned, Create
  <1>2. /\ Table(ht')
        /\ \A j \in Keys : Has(ht', j) <=> Has(ht, j) \/ j = k
        /\ \A j \in Keys : Find(ht', j) = IF j = k THEN o ELSE Find(ht, j)
    BY <1>1, AppendFacts
  <1> QED BY <1>1, <1>2 DEF Owned

\* setenv over an old value: the old object dies, the new one takes its place.
LEMMA OverwriteOwned ==
  ASSUME Owned, NEW k \in Keys, NEW o \in Objects, Overwrite(k, o)
  PROVE  /\ Owned' /\ live' = (live \ {Find(ht, k)}) \cup {o} /\ Has(ht, k)
         /\ \A j \in Keys : Has(ht', j) <=> Has(ht, j)
         /\ \A j \in Keys : Find(ht', j) = IF j = k THEN o ELSE Find(ht, j)
  <1>1. /\ Table(ht) /\ Has(ht, k) /\ o \notin live /\ ht' = SetValue(ht, k, o)
        /\ live' = (live \ {Find(ht, k)}) \cup {o} /\ Find(ht, k) \in live
        /\ ub' = (ub \/ Find(ht, k) \notin live \cup {None})
    BY DEF Owned, Overwrite
  <1>2. /\ Table(ht')
        /\ \A j \in Keys : Has(ht', j) <=> Has(ht, j)
        /\ \A j \in Keys : Find(ht', j) = IF j = k THEN o ELSE Find(ht, j)
    BY <1>1, ReplaceFacts
  <1>3. ub' = FALSE /\ live' \subseteq Objects
    BY <1>1 DEF Owned
  <1> QED BY <1>1, <1>2, <1>3 DEF Owned

\* A key that loses its entry, and the object with it.
LEMMA DropOwned ==
  ASSUME Owned, NEW k \in Keys, Has(ht, k), Table(ht'), Destroy(Find(ht, k)),
         \A j \in Keys : Has(ht', j) <=> Has(ht, j) /\ j # k,
         \A j \in Keys : j # k => Find(ht', j) = Find(ht, j)
  PROVE  Owned'
  <1>1. Find(ht, k) \in live /\ live' = live \ {Find(ht, k)}
    BY DEF Owned, Destroy
  <1>2. ub' = FALSE
    BY <1>1 DEF Owned, Destroy
  <1> QED BY <1>1, <1>2 DEF Owned

\* unsetenv, removeFolder
LEMMA UnsetOwned ==
  ASSUME Owned, AtMostTwo, NEW k \in Keys, Unset(k)
  PROVE  /\ Owned' /\ live' = live \ {Find(ht, k)} /\ Has(ht, k)
         /\ \A j \in Keys : Has(ht', j) <=> Has(ht, j) /\ j # k
         /\ \A j \in Keys : j # k => Find(ht', j) = Find(ht, j)
  <1>1. /\ Table(ht) /\ Has(ht, k) /\ Destroy(Find(ht, k)) /\ ht' = EraseKey(ht, k)
        /\ \A b \in Buckets : Len(ht[b]) <= 2
    BY DEF Owned, Unset, AtMostTwo
  <1>2. /\ Table(ht')
        /\ \A j \in Keys : Has(ht', j) <=> Has(ht, j) /\ j # k
        /\ \A j \in Keys : j # k => Find(ht', j) = Find(ht, j)
    BY <1>1, EraseFacts
  <1>3. Owned'
    BY <1>1, <1>2, DropOwned
  <1> QED BY <1>1, <1>2, <1>3 DEF Destroy

\* A table whose entry of k was emptied and then erased.
LEMMA EmptiedFacts ==
  ASSUME NEW t, Table(t), \A b \in Buckets : Len(t[b]) <= 2, NEW k \in Keys, Has(t, k)
  PROVE  LET u == EraseKey(SetValue(t, k, None), k) IN
           /\ Table(u)
           /\ \A j \in Keys : Has(u, j) <=> Has(t, j) /\ j # k
           /\ \A j \in Keys : j # k => Find(u, j) = Find(t, j)
  <1> DEFINE m == SetValue(t, k, None)
             u == EraseKey(m, k)
  <1>1. /\ Table(m) /\ \A b \in Buckets : Len(m[b]) = Len(t[b])
        /\ \A j \in Keys : Has(m, j) <=> Has(t, j)
        /\ \A j \in Keys : Find(m, j) = IF j = k THEN None ELSE Find(t, j)
    BY ReplaceFacts
  <1>2. \A b \in Buckets : Len(m[b]) <= 2
    BY <1>1
  <1>3. /\ Table(u)
        /\ \A j \in Keys : Has(u, j) <=> Has(m, j) /\ j # k
        /\ \A j \in Keys : j # k => Find(u, j) = Find(m, j)
    <2> HIDE DEF m
    <2> QED BY <1>1, <1>2, EraseFacts
  <1> QED BY <1>1, <1>3

\* removeFile
LEMMA RemoveFileOwned ==
  ASSUME Owned, AtMostTwo, NEW k \in Keys, RemoveFile(k)
  PROVE  /\ Owned' /\ live' = live \ {Find(ht, k)} /\ Has(ht, k)
         /\ \A j \in Keys : Has(ht', j) <=> Has(ht, j) /\ j # k
         /\ \A j \in Keys : j # k => Find(ht', j) = Find(ht, j)
  <1>1. /\ Table(ht) /\ Has(ht, k) /\ Destroy(Find(ht, k))
        /\ ht' = EraseKey(SetValue(ht, k, None), k)
        /\ \A b \in Buckets : Len(ht[b]) <= 2
    BY DEF Owned, RemoveFile, AtMostTwo
  <1>2. /\ Table(ht')
        /\ \A j \in Keys : Has(ht', j) <=> Has(ht, j) /\ j # k
        /\ \A j \in Keys : j # k => Find(ht', j) = Find(ht, j)
    BY <1>1, EmptiedFacts
  <1>3. Owned'
    BY <1>1, <1>2, DropOwned
  <1> QED BY <1>1, <1>2, <1>3 DEF Destroy

\* renameFile, renameFolder: the object changes keys and stays alive.
LEMMA RenameOwned ==
  ASSUME Owned, AtMostTwo, NEW k \in Keys, NEW l \in Keys, Rename(k, l)
  PROVE  /\ Owned' /\ live' = live /\ Has(ht, k) /\ ~Has(ht, l)
         /\ \A j \in Keys : Has(ht', j) <=> (Has(ht, j) /\ j # k) \/ j = l
         /\ \A j \in Keys : j # k => Find(ht', j) = IF j = l THEN Find(ht, k) ELSE Find(ht, j)
  <1> DEFINE m == EraseKey(SetValue(ht, k, None), k)
  <1>1. /\ Table(ht) /\ Has(ht, k) /\ ~Has(ht, l) /\ Find(ht, k) \in Objects
        /\ ht' = SetValue(m, l, Find(ht, k)) /\ UNCHANGED <<live, ub>>
        /\ \A b \in Buckets : Len(ht[b]) <= 2
    BY DEF Owned, Rename, AtMostTwo
  <1>2. /\ Table(m)
        /\ \A j \in Keys : Has(m, j) <=> Has(ht, j) /\ j # k
        /\ \A j \in Keys : j # k => Find(m, j) = Find(ht, j)
    BY <1>1, EmptiedFacts
  <1> HIDE DEF m
  <1>3. /\ Table(ht')
        /\ \A j \in Keys : Has(ht', j) <=> Has(m, j) \/ j = l
        /\ \A j \in Keys : Find(ht', j) = IF j = l THEN Find(ht, k) ELSE Find(m, j)
    BY <1>1, <1>2, AppendFacts
  <1>4. /\ \A j \in Keys : Has(ht', j) <=> (Has(ht, j) /\ j # k) \/ j = l
        /\ \A j \in Keys : j # k => Find(ht', j) = IF j = l THEN Find(ht, k) ELSE Find(ht, j)
    BY <1>2, <1>3
  <1>5. k # l
    BY <1>1
  <1>6. Owned'
    BY <1>1, <1>3, <1>4, <1>5 DEF Owned
  <1> QED BY <1>1, <1>4, <1>6

\* While no bucket has a third entry, every operation keeps every object owned.
LEMMA OwnedStep == Owned /\ AtMostTwo /\ [Next]_vars => Owned'
  <1> SUFFICES ASSUME Owned, AtMostTwo, [Next]_vars PROVE Owned'
    OBVIOUS
  <1>1. ASSUME NEW k \in Keys, NEW o \in Objects, Create(k, o) PROVE Owned'
    BY <1>1, CreateOwned
  <1>2. ASSUME NEW k \in Keys, NEW o \in Objects, Overwrite(k, o) PROVE Owned'
    BY <1>2, OverwriteOwned
  <1>3. ASSUME NEW k \in Keys, Unset(k) PROVE Owned'
    BY <1>3, UnsetOwned
  <1>4. ASSUME NEW k \in Keys, RemoveFile(k) PROVE Owned'
    BY <1>4, RemoveFileOwned
  <1>5. ASSUME NEW k \in Keys, NEW l \in Keys, Rename(k, l) PROVE Owned'
    BY <1>5, RenameOwned
  <1>6. CASE UNCHANGED vars
    BY <1>6 DEF vars, Owned
  <1> QED BY <1>1, <1>2, <1>3, <1>4, <1>5, <1>6 DEF Next

\* The slots that hold a live object are exactly one.
LEMMA OwnedIsOnce == Owned => OwnedOnce
  <1> SUFFICES ASSUME Owned PROVE OwnedOnce
    OBVIOUS
  <1>1. Table(ht) /\ live \subseteq Objects /\ ub = FALSE
    BY DEF Owned
  <1>2. ASSUME NEW b \in Buckets
        PROVE  /\ DOMAIN ht[b] = 1 .. Len(ht[b])
               /\ \A p \in DOMAIN ht[b] :
                    /\ ht[b][p].k \in Keys /\ BucketOf[ht[b][p].k] = b
                    /\ ht[b][p].v \in Objects \cup {None}
    <2>1. ht[b] \in Seq(Entry)
      BY <1>1 DEF Table
    <2>2. DOMAIN ht[b] = 1 .. Len(ht[b]) /\ \A p \in 1 .. Len(ht[b]) : ht[b][p] \in Entry
      BY <2>1, LenProperties, ElementOfSeq
    <2> QED BY <1>1, <2>2 DEF Table, Entry
  <1>3. TypeOK
    BY <1>1, <1>2 DEF TypeOK, Table
  <1>4. ASSUME NEW o \in live
        PROVE  Cardinality({s \in Slots : ValueAt(s) = o}) = 1
    <2>1. PICK k \in Keys : Has(ht, k) /\ Find(ht, k) = o
      BY DEF Owned
    <2> DEFINE slot == <<BucketOf[k], First(ht, k)>>
    <2>2. slot \in Slots /\ ValueAt(slot) = o
      <3>1. /\ BucketOf[k] \in Buckets /\ First(ht, k) \in DOMAIN ht[BucketOf[k]]
            /\ ht[BucketOf[k]][First(ht, k)].v = o
        BY <1>1, <2>1, HasPlace, BucketType
      <3> QED BY <3>1 DEF Slots, ValueAt
    <2>3. ASSUME NEW s \in Slots, ValueAt(s) = o PROVE s = slot
      <3>0. PICK b \in Buckets : s \in {b} \X DOMAIN ht[b]
        BY DEF Slots
      <3>1. PICK p \in DOMAIN ht[b] : s = <<b, p>>
        BY <3>0
      <3>2. ht[b][p].v = o /\ p \in 1 .. Len(ht[b])
        BY <3>1, <2>3, <1>2 DEF ValueAt
      <3> DEFINE l == ht[b][p].k
      <3>3. /\ l \in Keys /\ BucketOf[l] = b /\ Has(ht, l)
            /\ First(ht, l) = p /\ Find(ht, l) = o
        BY <1>1, <3>2, FoundAt
      <3>4. l = k
        BY <2>1, <3>3 DEF Owned
      <3> QED BY <3>1, <3>3, <3>4
    <2>4. {s \in Slots : ValueAt(s) = o} = {slot}
      BY <2>2, <2>3
    <2> QED BY <2>4, FS_Singleton
  <1> QED BY <1>1, <1>3, <1>4 DEF OwnedOnce

-----------------------------------------------------------------------------
(* The theorems.                                                           *)

\* If no three keys share a bucket, no bucket ever has three entries.
LEMMA PairsStayPairs == ASSUME NoThreeCollide, Owned PROVE AtMostTwo
  <1> SUFFICES ASSUME NEW b \in Buckets, ~(Len(ht[b]) <= 2) PROVE FALSE
    BY DEF AtMostTwo
  <1>1. Table(ht) /\ Len(ht[b]) \in Nat
    BY LenProperties DEF Owned, Table
  <1>2. 1 \in 1 .. Len(ht[b]) /\ 2 \in 1 .. Len(ht[b]) /\ 3 \in 1 .. Len(ht[b])
    BY <1>1
  <1>3. \A p \in {1, 2, 3} : ht[b][p].k \in Keys /\ BucketOf[ht[b][p].k] = b
    BY <1>1, <1>2, FoundAt
  <1>4. \A p, j \in {1, 2, 3} : ht[b][p].k = ht[b][j].k => p = j
    BY <1>1, <1>2 DEF Table
  <1> DEFINE x == ht[b][1].k
             y == ht[b][2].k
             z == ht[b][3].k
  <1>5. x \in Keys /\ y \in Keys /\ z \in Keys /\ BucketOf[x] = b /\ BucketOf[y] = b /\ BucketOf[z] = b
    BY <1>3
  <1>6. x # y /\ y # z /\ x # z
    BY <1>4
  <1> HIDE DEF x, y, z
  <1> QED BY <1>5, <1>6 DEF NoThreeCollide

\* Whatever keys there are and wherever they hash to, as long as no bucket gets a
\* third entry every live object is owned by exactly one entry of the table,
\* across all overwrites, removals and renames, and none is destroyed twice.
THEOREM OwnershipHolds == Spec /\ []AtMostTwo => []OwnedOnce
  <1> QED BY OwnedStart, OwnedStep, OwnedIsOnce, PTL DEF Spec

\* The same from an assumption about the hash function alone.
THEOREM OwnershipOfPairs == ASSUME NoThreeCollide PROVE Spec => []OwnedOnce
  <1>1. Owned => AtMostTwo
    BY PairsStayPairs
  <1> QED BY <1>1, OwnedStart, OwnedStep, OwnedIsOnce, PTL DEF Spec

\* The abstract value of the table.
Entries(t) == [k \in {j \in Keys : Has(t, j)} |-> Find(t, k)]

\* An object lives exactly as long as some key has it.
LEMMA LiveIsValues ==
  ASSUME Owned PROVE live = Promise!Values(Entries(ht))
  BY DEF Owned, Entries, Promise!Values

\* Each operation of the code is the operation of the dictionary on its key.
LEMMA DictionaryStep ==
  Owned /\ AtMostTwo /\ [Next]_vars => [Promise!Next]_(Promise!vars)
  <1> SUFFICES ASSUME Owned, AtMostTwo, [Next]_vars PROVE [Promise!Next]_(Promise!vars)
    OBVIOUS
  <1>v. live' = Promise!Values(Entries(ht'))
    <2>1. Owned'
      BY OwnedStep
    <2> QED BY <2>1, LiveIsValues DEF Owned, Entries, Promise!Values
  <1>1. ASSUME NEW k \in Keys, NEW o \in Objects, Create(k, o) PROVE Promise!Put(k, o)
    <2>1. Entries(ht') = [j \in DOMAIN Entries(ht) \cup {k} |-> IF j = k THEN o ELSE Entries(ht)[j]]
      BY <1>1, CreateOwned DEF Entries
    <2> QED BY <1>1, <1>v, <2>1 DEF Promise!Put, Create, Entries
  <1>2. ASSUME NEW k \in Keys, NEW o \in Objects, Overwrite(k, o) PROVE Promise!Put(k, o)
    <2>1. Entries(ht') = [j \in DOMAIN Entries(ht) \cup {k} |-> IF j = k THEN o ELSE Entries(ht)[j]]
      BY <1>2, OverwriteOwned DEF Entries
    <2> QED BY <1>2, <1>v, <2>1 DEF Promise!Put, Overwrite, Entries
  <1>3. ASSUME NEW k \in Keys, Unset(k) PROVE Promise!Drop(k)
    <2>1. Entries(ht') = [j \in DOMAIN Entries(ht) \ {k} |-> Entries(ht)[j]]
      BY <1>3, UnsetOwned DEF Entries
    <2> QED BY <1>v, <2>1 DEF Promise!Drop, Entries
  <1>4. ASSUME NEW k \in Keys, RemoveFile(k) PROVE Promise!Drop(k)
    <2>1. Entries(ht') = [j \in DOMAIN Entries(ht) \ {k} |-> Entries(ht)[j]]
      BY <1>4, RemoveFileOwned DEF Entries
    <2> QED BY <1>v, <2>1 DEF Promise!Drop, Entries
  <1>5. ASSUME NEW k \in Keys, NEW l \in Keys, Rename(k, l) PROVE Promise!Move(k, l)
    <2>1. Entries(ht') = [j \in (DOMAIN Entries(ht) \ {k}) \cup {l} |->
                            IF j = l THEN Entries(ht)[k] ELSE Entries(ht)[j]]
      BY <1>5, RenameOwned DEF Entries
    <2> QED BY <1>5, <2>1, RenameOwned DEF Promise!Move, Entries
  <1>6. CASE UNCHANGED vars
    BY <1>6 DEF vars, Promise!vars
  <1> QED BY <1>1, <1>2, <1>3, <1>4, <1>5, <1>6 DEF Next, Promise!Next

\* As long as no bucket gets a third entry the table is a dictionary: an operation
\* changes what its own key finds, and nothing that another key finds.
THEOREM IsDictionary == Spec /\ []AtMostTwo => DictionarySpec
  <1>1. Init => Promise!Init
    <2> SUFFICES ASSUME Init PROVE Promise!Init
      OBVIOUS
    <2>1. \A k \in Keys : ~Has(ht, k)
      <3>1. Table(ht) /\ \A k \in Keys : Len(ht[BucketOf[k]]) = 0
        BY OwnedStart, EmptySeq DEF Init, Owned, Buckets
      <3> QED BY <3>1, Lookup
    <2>2. {j \in Keys : Has(ht, j)} = {}
      BY <2>1
    <2> QED BY <2>2 DEF Init, Promise!Init
  <1> QED BY <1>1, OwnedStart, OwnedStep, DictionaryStep, PTL
          DEF Spec, DictionarySpec, Promise!Spec


-----------------------------------------------------------------------------
(* Places in an order.                                                     *)

LEMMA NthIs ==
  ASSUME NEW n \in Nat, NEW S \in SUBSET (1 .. n)
  PROVE  /\ IsFiniteSet(S) /\ Cardinality(S) \in Nat
         /\ \A k \in S : Nth(S, k) \in 1 .. Cardinality(S)
  <1>1. IsFiniteSet(1 .. n)
    BY FS_Interval
  <1>2. IsFiniteSet(S)
    BY <1>1, FS_Subset
  <1>3. Cardinality(S) \in Nat
    BY <1>2, FS_CardinalityType
  <1>4. ASSUME NEW k \in S PROVE Nth(S, k) \in 1 .. Cardinality(S)
    <2> DEFINE T == {j \in S : j <= k}
    <2>1. T \in SUBSET S /\ k \in T
      OBVIOUS
    <2> HIDE DEF T
    <2>2. IsFiniteSet(T) /\ Cardinality(T) <= Cardinality(S)
      BY <1>2, <2>1, FS_Subset
    <2>3. Cardinality(T) \in Nat /\ Cardinality(T) # 0
      BY <2>1, <2>2, FS_CardinalityType, FS_EmptySet
    <2>4. Nth(S, k) = Cardinality(T)
      BY DEF Nth, T
    <2> QED BY <1>3, <2>2, <2>3, <2>4
  <1> QED BY <1>2, <1>3, <1>4

LEMMA NthAdd ==
  ASSUME NEW n \in Nat, NEW S \in SUBSET (1 .. n), NEW m \in Nat, m > n
  PROVE  /\ Cardinality(S \cup {m}) = Cardinality(S) + 1
         /\ \A k \in S : Nth(S \cup {m}, k) = Nth(S, k)
         /\ Nth(S \cup {m}, m) = Cardinality(S) + 1
  <1>1. IsFiniteSet(S) /\ m \notin S /\ \A j \in S : j \in Nat /\ j <= m
    <2>1. \A j \in S : j \in 1 .. n
      OBVIOUS
    <2>2. IsFiniteSet(S)
      BY NthIs
    <2> QED BY <2>1, <2>2
  <1>2. Cardinality(S \cup {m}) = Cardinality(S) + 1
    BY <1>1, FS_AddElement
  <1>3. ASSUME NEW k \in S PROVE Nth(S \cup {m}, k) = Nth(S, k)
    <2>1. {j \in S \cup {m} : j <= k} = {j \in S : j <= k}
      OBVIOUS
    <2> QED BY <2>1 DEF Nth
  <1>4. {j \in S \cup {m} : j <= m} = S \cup {m}
    <2>1. \A j \in S \cup {m} : j <= m
      BY <1>1
    <2> QED BY <2>1
  <1> QED BY <1>2, <1>3, <1>4 DEF Nth

\* The last of S takes the last place.
LEMMA NthLast ==
  ASSUME NEW n \in Nat, NEW S \in SUBSET (1 .. n), NEW l \in S, \A k \in S : k <= l
  PROVE  /\ Cardinality(S) = Cardinality(S \ {l}) + 1
         /\ Nth(S, l) = Cardinality(S)
         /\ \A k \in S \ {l} : Nth(S, k) = Nth(S \ {l}, k)
  <1>1. S \ {l} \in SUBSET (1 .. l - 1) /\ l - 1 \in Nat /\ l > l - 1 /\ l \in Nat
    OBVIOUS
  <1>2. (S \ {l}) \cup {l} = S
    OBVIOUS
  <1> DEFINE T == S \ {l}
  <1> HIDE DEF T
  <1>3. T \in SUBSET (1 .. l - 1)
    BY <1>1 DEF T
  <1>4. /\ Cardinality(T \cup {l}) = Cardinality(T) + 1
        /\ \A k \in T : Nth(T \cup {l}, k) = Nth(T, k)
        /\ Nth(T \cup {l}, l) = Cardinality(T) + 1
    BY <1>1, <1>3, NthAdd
  <1>5. T \cup {l} = S
    BY <1>2 DEF T
  <1> QED BY <1>4, <1>5 DEF T

-----------------------------------------------------------------------------
(* A token and its next character.                                         *)

LEMMA BehindKept ==
  ASSUME NEW t \in Seq(Alphabet), NEW c1 \in Alphabet, NEW k \in 2 .. Len(t) + 1
  PROVE  Behind(Append(t, c1), k) = Behind(t, k)
  <1> DEFINE u == Append(t, c1)
  <1>1. \A m \in 1 .. Len(t) : u[m] = t[m]
    OBVIOUS
  <1> HIDE DEF u
  <1>2. \A j \in 2 .. k - 1 : \A m \in j .. k - 1 : m \in 1 .. Len(t)
    OBVIOUS
  <1>3. {j \in 2 .. k - 1 : \A m \in j .. k - 1 : u[m] = Backslash}
        = {j \in 2 .. k - 1 : \A m \in j .. k - 1 : t[m] = Backslash}
    BY <1>1, <1>2
  <1> QED BY <1>3 DEF Behind, u

\* A backslash that is behind one itself escapes nothing.
LEMMA BehindNext ==
  ASSUME NEW t \in Seq(Alphabet), t # <<>>, NEW c1 \in Alphabet
  PROVE  Behind(Append(t, c1), Len(t) + 2)
         <=> (c1 = Backslash /\ ~Behind(t, Len(t) + 1))
  <1> DEFINE u == Append(t, c1)
             n == Len(t)
             S == {j \in 2 .. n : \A m \in j .. n : t[m] = Backslash}
             T == {j \in 2 .. n + 1 : \A m \in j .. n + 1 : u[m] = Backslash}
  <1>1. n \in Nat /\ n >= 1 /\ u[n + 1] = c1 /\ \A m \in 1 .. n : u[m] = t[m]
    OBVIOUS
  <1>2. Behind(u, n + 2) <=> (Cardinality(T) % 2) = 1
    <2> HIDE DEF u, n
    <2>1. (n + 2) - 1 = n + 1
      BY <1>1
    <2>2. {j \in 2 .. (n + 2) - 1 : \A m \in j .. (n + 2) - 1 : u[m] = Backslash} = T
      BY <2>1
    <2>3. Behind(u, n + 2) <=>
            (Cardinality({j \in 2 .. (n + 2) - 1 : \A m \in j .. (n + 2) - 1 : u[m] = Backslash}) % 2) = 1
      BY DEF Behind
    <2> QED BY <2>2, <2>3
  <1>3. Behind(t, n + 1) <=> (Cardinality(S) % 2) = 1
    <2> HIDE DEF n
    <2>1. (n + 1) - 1 = n
      BY <1>1
    <2>2. {j \in 2 .. (n + 1) - 1 : \A m \in j .. (n + 1) - 1 : t[m] = Backslash} = S
      BY <2>1
    <2>3. Behind(t, n + 1) <=>
            (Cardinality({j \in 2 .. (n + 1) - 1 : \A m \in j .. (n + 1) - 1 : t[m] = Backslash}) % 2) = 1
      BY DEF Behind
    <2> QED BY <2>2, <2>3
  <1> HIDE DEF u, n
  <1>4. CASE c1 # Backslash
    <2>1. \A j \in 2 .. n + 1 : n + 1 \in j .. n + 1
      BY <1>1
    <2>2. T = {}
      BY <1>1, <1>4, <2>1
    <2>3. Cardinality(T) = 0
      BY <2>2, FS_EmptySet
    <2> HIDE DEF T
    <2>4. ~((Cardinality(T) % 2) = 1)
      BY <2>3
    <2> QED BY <1>2, <1>4, <2>4 DEF u, n
  <1>5. CASE c1 = Backslash
    <2>1. ASSUME NEW j \in 2 .. n
          PROVE  (\A m \in j .. n + 1 : u[m] = Backslash) <=> (\A m \in j .. n : t[m] = Backslash)
      <3>1. j .. n + 1 = (j .. n) \cup {n + 1} /\ \A m \in j .. n : m \in 1 .. n
        BY <1>1
      <3> QED BY <1>1, <1>5, <3>1
    <2>2. n + 1 \in T
      <3>1. n + 1 \in 2 .. n + 1 /\ \A m \in n + 1 .. n + 1 : m = n + 1
        BY <1>1
      <3> QED BY <1>1, <1>5, <3>1
    <2>3. 2 .. n + 1 = (2 .. n) \cup {n + 1}
      BY <1>1
    <2>4. T = S \cup {n + 1}
      BY <2>1, <2>2, <2>3
    <2>5. S \in SUBSET (1 .. n)
      BY <1>1
    <2> HIDE DEF S, T
    <2>6. Cardinality(T) = Cardinality(S) + 1 /\ Cardinality(S) \in Nat
      <3>1. n + 1 \in Nat /\ n + 1 > n
        BY <1>1
      <3> QED BY <1>1, <2>4, <2>5, <3>1, NthAdd, NthIs
    <2>7. \A x \in Nat : ((x + 1) % 2 = 1) <=> ~(x % 2 = 1)
      OBVIOUS
    <2>8. ((Cardinality(T) % 2) = 1) <=> ~((Cardinality(S) % 2) = 1)
      BY <2>6, <2>7
    <2> QED BY <1>2, <1>3, <1>5, <2>8 DEF u, n
  <1> QED BY <1>4, <1>5

\* What a string stands for before it is closed
KeptSoFar(t) == {k \in 2 .. Len(t) : t[k] # Backslash \/ Behind(t, k)}

Meant(t, k) == IF Behind(t, k) THEN escape_char[t[k]] ELSE t[k]

GivesSoFar(t, v) ==
  /\ Len(v) = Cardinality(KeptSoFar(t))
  /\ \A k \in KeptSoFar(t) : v[Nth(KeptSoFar(t), k)] = Meant(t, k)

LEMMA TokenGrows ==
  ASSUME NEW t \in Seq(Alphabet), t # <<>>, NEW c1 \in Alphabet
  PROVE  LET u == Append(t, c1)
             n == Len(t) + 1
         IN  /\ u \in Seq(Alphabet) /\ Len(u) = n /\ u[1] = t[1] /\ u # <<>>
             /\ IsWord(u) <=> (IsWord(t) /\ c1 \notin {Blank, Quote})
             /\ Closing(u) = Closing(t) \cup IF c1 = Quote /\ ~Behind(t, n) THEN {n} ELSE {}
             /\ Kept(u) = KeptSoFar(t)
             /\ KeptSoFar(u) = KeptSoFar(t) \cup IF c1 # Backslash \/ Behind(t, n) THEN {n} ELSE {}
             /\ \A k \in 2 .. n : Behind(u, k) = Behind(t, k)
             /\ \A k \in KeptSoFar(t) : Meant(u, k) = Meant(t, k)
             /\ Meant(u, n) = IF Behind(t, n) THEN escape_char[c1] ELSE c1
  <1> DEFINE u == Append(t, c1)
             n == Len(t) + 1
  <1>1. /\ u \in Seq(Alphabet) /\ Len(u) = n /\ u[1] = t[1] /\ u # <<>>
        /\ u[n] = c1 /\ \A m \in 1 .. n - 1 : u[m] = t[m]
        /\ DOMAIN u = 1 .. n /\ DOMAIN t = 1 .. n - 1 /\ n \in Nat /\ n >= 2
    OBVIOUS
  <1>2. \A k \in 2 .. n : Behind(u, k) = Behind(t, k)
    BY BehindKept
  <1>a. Len(t) = n - 1
    OBVIOUS
  <1> HIDE DEF u, n
  <1>3. 1 .. n = (1 .. n - 1) \cup {n} /\ 2 .. n = (2 .. n - 1) \cup {n} /\ n \notin 2 .. n - 1
    BY <1>1
  <1>4. IsWord(u) <=> (IsWord(t) /\ c1 \notin {Blank, Quote})
    BY <1>1, <1>3 DEF IsWord
  <1>5. \A k \in 2 .. n - 1 : k \in 1 .. n - 1 /\ k \in 2 .. n /\ u[k] = t[k] /\ Behind(u, k) = Behind(t, k)
    BY <1>1, <1>2
  <1>6. n \in 2 .. n /\ Behind(u, n) = Behind(t, n)
    BY <1>1, <1>2
  <1>7. Closing(u) = Closing(t) \cup IF c1 = Quote /\ ~Behind(t, n) THEN {n} ELSE {}
    BY <1>1, <1>a, <1>3, <1>5, <1>6 DEF Closing
  <1>8. Kept(u) = KeptSoFar(t)
    BY <1>1, <1>a, <1>5 DEF Kept, KeptSoFar
  <1>9. KeptSoFar(u) = KeptSoFar(t) \cup IF c1 # Backslash \/ Behind(t, n) THEN {n} ELSE {}
    BY <1>1, <1>a, <1>3, <1>5, <1>6 DEF KeptSoFar
  <1>10. \A k \in KeptSoFar(t) : Meant(u, k) = Meant(t, k)
    BY <1>a, <1>5 DEF KeptSoFar, Meant
  <1>11. Meant(u, n) = IF Behind(t, n) THEN escape_char[c1] ELSE c1
    BY <1>1, <1>6 DEF Meant
  <1> QED BY <1>1, <1>2, <1>4, <1>7, <1>8, <1>9, <1>10, <1>11 DEF u, n

LEMMA KeptGrows ==
  ASSUME NEW t \in Seq(Alphabet), t # <<>>, NEW c1 \in Alphabet, NEW S, NEW v \in Seq(S),
         GivesSoFar(t, v), c1 # Backslash \/ Behind(t, Len(t) + 1),
         NEW x \in S, x = IF Behind(t, Len(t) + 1) THEN escape_char[c1] ELSE c1
  PROVE  GivesSoFar(Append(t, c1), Append(v, x))
  <1> DEFINE u == Append(t, c1)
             n == Len(t) + 1
             K == KeptSoFar(t)
  <1>1. /\ KeptSoFar(u) = K \cup {n} /\ \A k \in K : Meant(u, k) = Meant(t, k)
        /\ Meant(u, n) = x
    BY TokenGrows
  <1>2. K \in SUBSET (1 .. Len(t)) /\ Len(t) \in Nat /\ n \in Nat /\ n > Len(t)
    BY DEF KeptSoFar
  <1> HIDE DEF u, n, K
  <1>3. /\ Cardinality(K \cup {n}) = Cardinality(K) + 1
        /\ \A k \in K : Nth(K \cup {n}, k) = Nth(K, k)
        /\ Nth(K \cup {n}, n) = Cardinality(K) + 1
    BY <1>2, NthAdd
  <1>4. Cardinality(K) \in Nat /\ \A k \in K : Nth(K, k) \in 1 .. Cardinality(K)
    BY <1>2, NthIs
  <1>5. Len(v) = Cardinality(K) /\ \A k \in K : v[Nth(K, k)] = Meant(t, k)
    BY DEF GivesSoFar, K
  <1> DEFINE w == Append(v, x)
  <1>6. Len(w) = Len(v) + 1 /\ w[Len(v) + 1] = x /\ \A j \in 1 .. Len(v) : w[j] = v[j]
    OBVIOUS
  <1> HIDE DEF w
  <1>7. ASSUME NEW k \in K \cup {n} PROVE w[Nth(K \cup {n}, k)] = Meant(u, k)
    <2>1. CASE k = n
      BY <2>1, <1>1, <1>3, <1>5, <1>6
    <2>2. CASE k \in K
      BY <2>2, <1>1, <1>3, <1>4, <1>5, <1>6
    <2> QED BY <2>1, <2>2
  <1>8. GivesSoFar(u, w)
    BY <1>1, <1>3, <1>5, <1>6, <1>7 DEF GivesSoFar
  <1> QED BY <1>8 DEF u, w

LEMMA SkipGrows ==
  ASSUME NEW t \in Seq(Alphabet), t # <<>>, NEW v, GivesSoFar(t, v), ~Behind(t, Len(t) + 1),
         Backslash \in Alphabet
  PROVE  GivesSoFar(Append(t, Backslash), v)
  <1> DEFINE c1 == Backslash
  <1>1. c1 \in Alphabet /\ ~(c1 # Backslash \/ Behind(t, Len(t) + 1))
    OBVIOUS
  <1> HIDE DEF c1
  <1>2. /\ KeptSoFar(Append(t, c1))
           = KeptSoFar(t) \cup IF c1 # Backslash \/ Behind(t, Len(t) + 1) THEN {Len(t) + 1} ELSE {}
        /\ \A k \in KeptSoFar(t) : Meant(Append(t, c1), k) = Meant(t, k)
    BY <1>1, TokenGrows
  <1>3. KeptSoFar(Append(t, c1)) = KeptSoFar(t)
    BY <1>1, <1>2
  <1>4. GivesSoFar(Append(t, c1), v)
    BY <1>2, <1>3 DEF GivesSoFar
  <1> QED BY <1>4 DEF c1

\* The quote that ends a string
LEMMA StringEnds ==
  ASSUME NEW t \in Seq(Alphabet), t # <<>>, t[1] = Quote, Closing(t) = {},
         NEW v, GivesSoFar(t, v), ~Behind(t, Len(t) + 1), Quote \in Alphabet
  PROVE  LET u == Append(t, Quote)
         IN  IsString(u) /\ ~IsWord(u) /\ Gives(u, v)
  <1> DEFINE u == Append(t, Quote)
             n == Len(t) + 1
  <1>1. /\ Len(u) = n /\ u[1] = Quote /\ Closing(u) = {n} /\ Kept(u) = KeptSoFar(t)
        /\ ~IsWord(u) /\ \A k \in KeptSoFar(t) : Meant(u, k) = Meant(t, k)
    BY TokenGrows
  <1> QED BY <1>1 DEF IsString, Gives, GivesSoFar, Meant

-----------------------------------------------------------------------------
(* The tokens of a line and of the line with one more character.           *)

LEMMA NatLeast ==
  ASSUME NEW S \in SUBSET Nat, S # {}
  PROVE  \E m \in S : \A k \in S : m <= k
  <1>1. IsWellFoundedOn(OpToRel(<, Nat), Nat)
    BY NatLessThanWellFounded
  <1>2. PICK m \in S : \A k \in S : ~(<<k, m>> \in OpToRel(<, Nat))
    BY <1>1, WFMin
  <1>3. \A k \in S : ~(k < m)
    BY <1>2 DEF OpToRel
  <1> QED BY <1>3

LEMMA OneElement ==
  ASSUME NEW S, NEW s \in Seq(S), Len(s) = 1
  PROVE  s = <<s[1]>>
  <1>1. s[1] \in S
    BY ElementOfSeq, SMTT(30)
  <1> DEFINE t == <<s[1]>>
  <1>2. t \in Seq(S) /\ Len(t) = 1 /\ t[1] = s[1]
    BY <1>1
  <1> HIDE DEF t
  <1>3. \A i1 \in 1 .. Len(s) : s[i1] = t[i1]
    BY <1>2
  <1>4. s = t
    BY <1>2, <1>3, SeqEqual
  <1> QED BY <1>4 DEF t

LEMMA OnePiece ==
  ASSUME NEW S, NEW s \in Seq(S), NEW n \in 1 .. Len(s)
  PROVE  SubSeq(s, n, n) = <<s[n]>>
  <1> DEFINE t == SubSeq(s, n, n)
  <1>1. t \in Seq(S) /\ Len(t) = 1
    OBVIOUS
  <1>2. t[1] = s[n]
    OBVIOUS
  <1> HIDE DEF t
  <1>3. t = <<s[n]>>
    BY <1>1, <1>2, OneElement
  <1> QED BY <1>3 DEF t

\* The token of a line of n characters that begins at k ends at e.
Ends(cuts, n, k, e) ==
  /\ e \in k .. n
  /\ \A j \in cuts : j <= k \/ j > e
  /\ e = n \/ e + 1 \in cuts

LEMMA EndsGives ==
  ASSUME NEW line \in Seq(Alphabet), NEW cuts \in SUBSET (1 .. Len(line)),
         NEW k \in 1 .. Len(line), NEW e, Ends(cuts, Len(line), k, e)
  PROVE  TokenAt(line, cuts, k) = SubSeq(line, k, e)
  <1> DEFINE later == {j \in cuts : j > k}
             n == Len(line)
  <1>1. n \in Nat /\ \A j \in cuts : j \in 1 .. n
    OBVIOUS
  <1> HIDE DEF n
  <1>2. e \in k .. n /\ (\A j \in cuts : j <= k \/ j > e) /\ (e = n \/ e + 1 \in cuts)
    BY DEF Ends, n
  <1>3. CASE later = {}
    <2>1. e = n
      <3>1. e + 1 \in cuts => e + 1 \in later
        BY <1>1, <1>2 DEF n
      <3> QED BY <1>2, <1>3, <3>1
    <2> QED BY <1>3, <2>1 DEF TokenAt, n
  <1>4. CASE later # {}
    <2>1. PICK j \in cuts : j > k
      BY <1>4
    <2>2. e # n /\ e + 1 \in later
      BY <1>1, <1>2, <2>1 DEF n
    <2>3. \A m \in later : e + 1 <= m
      BY <1>1, <1>2 DEF n
    <2>4. \A m \in later : m \in Nat
      BY <1>1
    <2> HIDE DEF later
    <2>5. \A m \in later : (\A y \in later : m <= y) => m = e + 1
      BY <2>2, <2>3, <2>4, <1>2
    <2>6. Min(later) = e + 1
      BY <2>2, <2>3, <2>5 DEF Min
    <2>7. Min(later) - 1 = e
      BY <2>6, <1>2 DEF n
    <2> QED BY <1>4, <2>7 DEF TokenAt, later
  <1> QED BY <1>3, <1>4

LEMMA EndsExist ==
  ASSUME NEW n \in Nat, NEW cuts \in SUBSET (1 .. n), NEW k \in 1 .. n
  PROVE  \E e : Ends(cuts, n, k, e)
  <1> DEFINE later == {j \in cuts : j > k}
  <1>1. \A j \in cuts : j \in 1 .. n
    OBVIOUS
  <1>2. CASE later = {}
    <2>1. Ends(cuts, n, k, n)
      BY <1>1, <1>2 DEF Ends
    <2> QED BY <2>1
  <1>3. CASE later # {}
    <2>1. later \in SUBSET Nat
      <3>1. \A j \in later : j \in Nat
        BY <1>1
      <3> QED BY <3>1
    <2> HIDE DEF later
    <2>2. PICK m \in later : \A j \in later : m <= j
      BY <1>3, <2>1, NatLeast
    <2>3. m \in cuts /\ m > k /\ m \in 1 .. n /\ \A j \in cuts : j > k => m <= j
      BY <1>1, <2>2 DEF later
    <2>4. Ends(cuts, n, k, m - 1)
      BY <1>1, <2>3 DEF Ends
    <2> QED BY <2>4
  <1> QED BY <1>2, <1>3

LEMMA TokenIs ==
  ASSUME NEW line \in Seq(Alphabet), NEW cuts \in SUBSET (1 .. Len(line)), NEW k \in cuts
  PROVE  LET t == TokenAt(line, cuts, k)
         IN  /\ t \in Seq(Alphabet) /\ t # <<>> /\ k + Len(t) \in 2 .. Len(line) + 1
             /\ t[1] = line[k]
             /\ k + Len(t) \in cuts \/ k + Len(t) = Len(line) + 1
             /\ (\A j \in cuts : j <= k) => k + Len(t) = Len(line) + 1
             /\ \A j \in cuts : j > k => k + Len(t) \in cuts
  <1> DEFINE n == Len(line)
  <1>1. n \in Nat /\ k \in 1 .. n /\ \A j \in cuts : j \in 1 .. n
    OBVIOUS
  <1>2. PICK e : Ends(cuts, n, k, e)
    BY <1>1, EndsExist
  <1>3. e \in k .. n /\ (\A j \in cuts : j <= k \/ j > e) /\ (e = n \/ e + 1 \in cuts)
    BY <1>2 DEF Ends
  <1>4. \A j \in k .. e : line[j] \in Alphabet
    BY <1>1, <1>3
  <1> DEFINE t == SubSeq(line, k, e)
  <1>5. t \in Seq(Alphabet) /\ Len(t) = e - k + 1 /\ t[1] = line[k]
    <2>1. k \in Int /\ e \in Int /\ k <= e /\ 1 \in 1 .. e - k + 1 /\ k + 1 - 1 = k
      BY <1>1, <1>3
    <2>2. /\ t \in Seq(Alphabet)
          /\ Len(t) = IF k <= e THEN e - k + 1 ELSE 0
          /\ \A j \in 1 .. e - k + 1 : t[j] = line[k + j - 1]
      BY <1>4, <2>1, SubSeqProperties
    <2> HIDE DEF t
    <2> QED BY <2>1, <2>2
  <1>6. TokenAt(line, cuts, k) = t
    BY <1>1, <1>2, EndsGives
  <1> HIDE DEF t
  <1>7. t # <<>> /\ k + Len(t) = e + 1
    BY <1>1, <1>3, <1>5
  <1> HIDE DEF n
  <1>8. /\ k + Len(t) \in 2 .. n + 1
        /\ k + Len(t) \in cuts \/ k + Len(t) = n + 1
        /\ (\A j \in cuts : j <= k) => k + Len(t) = n + 1
        /\ \A j \in cuts : j > k => k + Len(t) \in cuts
    BY <1>1, <1>3, <1>7
  <1> QED BY <1>5, <1>6, <1>7, <1>8 DEF n

\* The line's next character begins a token.
LEMMA TokenNew ==
  ASSUME NEW line \in Seq(Alphabet), NEW cuts \in SUBSET (1 .. Len(line)), NEW c1 \in Alphabet
  PROVE  LET line2 == Append(line, c1)
             n == Len(line) + 1
             cuts2 == cuts \cup {n}
         IN  /\ line2 \in Seq(Alphabet) /\ Len(line2) = n /\ cuts2 \in SUBSET (1 .. n)
             /\ \A k \in cuts : TokenAt(line2, cuts2, k) = TokenAt(line, cuts, k)
             /\ TokenAt(line2, cuts2, n) = <<c1>>
  <1> DEFINE line2 == Append(line, c1)
             n == Len(line) + 1
             cuts2 == cuts \cup {n}
  <1>1. line2 \in Seq(Alphabet) /\ Len(line2) = n /\ n \in Nat /\ n >= 1 /\ Len(line) = n - 1
    OBVIOUS
  <1>2. \A j \in cuts : j \in 1 .. n - 1
    OBVIOUS
  <1>a. line2[n] = c1 /\ \A j \in 1 .. n - 1 : line2[j] = line[j]
    OBVIOUS
  <1>b. cuts \in SUBSET (1 .. n - 1)
    BY <1>2
  <1> HIDE DEF n, line2
  <1>3. cuts2 \in SUBSET (1 .. n)
    BY <1>1, <1>2
  <1>4. ASSUME NEW k \in cuts PROVE TokenAt(line2, cuts2, k) = TokenAt(line, cuts, k)
    <2>0. k \in 1 .. n - 1 /\ k \in 1 .. n /\ n - 1 \in Nat
      BY <1>1, <1>2
    <2>1. PICK e : Ends(cuts, n - 1, k, e)
      BY <1>b, <2>0, EndsExist
    <2>2. Ends(cuts2, n, k, e)
      BY <1>1, <2>0, <2>1 DEF Ends
    <2> HIDE DEF cuts2
    <2>3. TokenAt(line2, cuts2, k) = SubSeq(line2, k, e)
      BY <1>1, <1>3, <2>0, <2>2, EndsGives
    <2>4. TokenAt(line, cuts, k) = SubSeq(line, k, e)
      BY <1>1, <1>b, <2>0, <2>1, EndsGives
    <2>5. SubSeq(line2, k, e) = SubSeq(line, k, e)
      <3>1. e \in k .. n - 1
        BY <2>1 DEF Ends
      <3>2. \A j \in k .. e : line2[j] = line[j]
        BY <1>a, <2>0, <3>1
      <3> QED BY <1>1, <2>0, <3>1, <3>2
    <2> QED BY <2>3, <2>4, <2>5
  <1>5. TokenAt(line2, cuts2, n) = <<c1>>
    <2>1. n \in 1 .. n
      BY <1>1
    <2>2. Ends(cuts2, n, n, n)
      BY <1>1, <1>2 DEF Ends
    <2> HIDE DEF cuts2
    <2>3. TokenAt(line2, cuts2, n) = SubSeq(line2, n, n)
      BY <1>1, <1>3, <2>1, <2>2, EndsGives
    <2>4. SubSeq(line2, n, n) = <<c1>>
      BY <1>1, <1>a, <2>1, OnePiece
    <2> QED BY <2>3, <2>4
  <1> QED BY <1>1, <1>3, <1>4, <1>5 DEF n, line2

\* The line's next character belongs to its last token.
LEMMA TokenOld ==
  ASSUME NEW line \in Seq(Alphabet), NEW cuts \in SUBSET (1 .. Len(line)), NEW c1 \in Alphabet,
         NEW l \in cuts, \A j \in cuts : j <= l
  PROVE  LET line2 == Append(line, c1)
         IN  /\ line2 \in Seq(Alphabet) /\ Len(line2) = Len(line) + 1
             /\ cuts \in SUBSET (1 .. Len(line) + 1)
             /\ \A k \in cuts \ {l} : TokenAt(line2, cuts, k) = TokenAt(line, cuts, k)
             /\ TokenAt(line2, cuts, l) = Append(TokenAt(line, cuts, l), c1)
  <1> DEFINE line2 == Append(line, c1)
             n == Len(line) + 1
  <1>1. line2 \in Seq(Alphabet) /\ Len(line2) = n /\ n \in Nat /\ n >= 1 /\ Len(line) = n - 1
    OBVIOUS
  <1>2. \A j \in cuts : j \in 1 .. n - 1
    OBVIOUS
  <1>a. line2[n] = c1 /\ \A j \in 1 .. n - 1 : line2[j] = line[j]
    OBVIOUS
  <1>b. cuts \in SUBSET (1 .. n - 1)
    BY <1>2
  <1> HIDE DEF n, line2
  <1>3. cuts \in SUBSET (1 .. n)
    BY <1>1, <1>2
  <1>4. ASSUME NEW k \in cuts \ {l} PROVE TokenAt(line2, cuts, k) = TokenAt(line, cuts, k)
    <2>0. k \in 1 .. n - 1 /\ k \in 1 .. n /\ n - 1 \in Nat /\ k < l /\ l \in 1 .. n - 1
      BY <1>1, <1>2
    <2>1. PICK e : Ends(cuts, n - 1, k, e)
      BY <1>b, <2>0, EndsExist
    <2>2. Ends(cuts, n, k, e)
      BY <1>1, <2>0, <2>1 DEF Ends
    <2>3. TokenAt(line2, cuts, k) = SubSeq(line2, k, e)
      BY <1>1, <1>3, <2>0, <2>2, EndsGives
    <2>4. TokenAt(line, cuts, k) = SubSeq(line, k, e)
      BY <1>1, <1>b, <2>0, <2>1, EndsGives
    <2>5. SubSeq(line2, k, e) = SubSeq(line, k, e)
      <3>1. e \in k .. n - 1
        BY <2>1 DEF Ends
      <3>2. \A j \in k .. e : line2[j] = line[j]
        BY <1>a, <2>0, <3>1
      <3> QED BY <1>1, <2>0, <3>1, <3>2
    <2> QED BY <2>3, <2>4, <2>5
  <1>5. TokenAt(line2, cuts, l) = Append(TokenAt(line, cuts, l), c1)
    <2>0. l \in 1 .. n - 1 /\ l \in 1 .. n
      BY <1>1, <1>2
    <2>1. Ends(cuts, n, l, n)
      BY <1>1, <1>2, <2>0 DEF Ends
    <2>2. Ends(cuts, n - 1, l, n - 1)
      BY <1>1, <1>2, <2>0 DEF Ends
    <2>3. TokenAt(line2, cuts, l) = SubSeq(line2, l, n)
      BY <1>1, <1>3, <2>0, <2>1, EndsGives
    <2>4. TokenAt(line, cuts, l) = SubSeq(line, l, n - 1)
      BY <1>1, <1>b, <2>0, <2>2, EndsGives
    <2>5. SubSeq(line2, l, n) = Append(SubSeq(line, l, n - 1), c1)
      <3>1. \A j \in l .. n - 1 : line2[j] = line[j]
        BY <1>a, <2>0
      <3> QED BY <1>1, <1>a, <2>0, <3>1
    <2> QED BY <2>3, <2>4, <2>5
  <1> QED BY <1>1, <1>3, <1>4, <1>5 DEF n, line2

-----------------------------------------------------------------------------
(* What is read of the line, cut into tokens: the last begins at l.        *)

CutSoFar(line, cuts, l) ==
  /\ line \in Seq(Alphabet) /\ cuts \in SUBSET (1 .. Len(line))
  /\ line # <<>> => 1 \in cuts /\ l \in cuts /\ \A k \in cuts : k <= l
  /\ \A k \in cuts \ {l} : TokenAt(line, cuts, k) = <<Blank>> \/ IsArg(TokenAt(line, cuts, k))
  /\ \A k \in cuts : LET next == k + Len(TokenAt(line, cuts, k))
                     IN  (IsWord(TokenAt(line, cuts, k)) /\ next \in cuts)
                           => ~IsWord(TokenAt(line, cuts, next))

\* d has the values of the tokens in args, in order.
Got(line, cuts, args, d) ==
  /\ Len(d) = Cardinality(args)
  /\ \A k \in args : Gives(TokenAt(line, cuts, k), d[Nth(args, k)])

\* Every token so far is complete, and d has them.
Ready(line, cuts, l, d) ==
  /\ CutSoFar(line, cuts, l) /\ Got(line, cuts, Args(line, cuts), d)
  /\ line # <<>> => TokenAt(line, cuts, l) = <<Blank>> \/ IsArg(TokenAt(line, cuts, l))

Between(line, cuts, l, d) ==
  /\ Ready(line, cuts, l, d)
  /\ line # <<>> => ~IsWord(TokenAt(line, cuts, l))

InWord(line, cuts, l, d) ==
  /\ line # <<>> /\ CutSoFar(line, cuts, l) /\ Got(line, cuts, Args(line, cuts) \ {l}, d)
  /\ IsWord(TokenAt(line, cuts, l))

\* A string has begun; s is its value so far.
InText(line, cuts, l, d, escaping, s) ==
  LET t == TokenAt(line, cuts, l)
  IN  /\ line # <<>> /\ CutSoFar(line, cuts, l) /\ Got(line, cuts, Args(line, cuts), d)
      /\ t[1] = Quote /\ Closing(t) = {}
      /\ escaping <=> Behind(t, Len(t) + 1)
      /\ GivesSoFar(t, s)

LEMMA FourApart ==
  ASSUME NEW x1, NEW x2, NEW x3, NEW x4, Cardinality({x1, x2, x3, x4}) = 4
  PROVE  x1 # x2 /\ x1 # x3 /\ x1 # x4 /\ x2 # x3 /\ x2 # x4 /\ x3 # x4
  <1> DEFINE A == {x1, x2}
             B == {x3, x4}
  <1>1. IsFiniteSet({x1}) /\ IsFiniteSet({x3}) /\ Cardinality({x1}) = 1 /\ Cardinality({x3}) = 1
    BY FS_Singleton
  <1>2. A = {x1} \cup {x2} /\ B = {x3} \cup {x4} /\ A \cup B = {x1, x2, x3, x4}
    OBVIOUS
  <1>3. /\ IsFiniteSet(A) /\ Cardinality(A) = IF x2 \in {x1} THEN 1 ELSE 2
        /\ IsFiniteSet(B) /\ Cardinality(B) = IF x4 \in {x3} THEN 1 ELSE 2
    BY <1>1, <1>2, FS_AddElement
  <1> HIDE DEF A, B
  <1>u. Cardinality(A \cup B) = Cardinality(A) + Cardinality(B) - Cardinality(A \cap B)
    BY <1>3, FS_Union
  <1>i. IsFiniteSet(A \cap B)
    BY <1>3, FS_Intersection
  <1>4. /\ 4 = Cardinality(A) + Cardinality(B) - Cardinality(A \cap B)
        /\ IsFiniteSet(A \cap B) /\ Cardinality(A \cap B) \in Nat
    BY <1>2, <1>u, <1>i, FS_CardinalityType
  <1>5. x2 \notin {x1} /\ x4 \notin {x3} /\ Cardinality(A \cap B) = 0
    BY <1>3, <1>4
  <1>6. A \cap B = {}
    BY <1>4, <1>5, FS_EmptySet
  <1> QED BY <1>5, <1>6 DEF A, B

LEMMA Symbols ==
  /\ Blank \in Alphabet /\ Quote \in Alphabet /\ Backslash \in Alphabet
  /\ Blank # Quote /\ Backslash # Quote
  <1>1. Blank # Quote /\ Backslash # Quote
    BY CommandLineAssumption, FourApart
  <1> QED BY <1>1 DEF Alphabet

\* A token of one character
LEMMA FirstOfToken ==
  ASSUME NEW c1 \in Alphabet
  PROVE  LET t == <<c1>>
         IN  /\ t \in Seq(Alphabet) /\ Len(t) = 1 /\ t[1] = c1 /\ Closing(t) = {}
             /\ IsWord(t) <=> c1 \notin {Blank, Quote}
             /\ IsArg(t) <=> c1 \notin {Blank, Quote}
             /\ ~Behind(t, 2) /\ GivesSoFar(t, <<>>)
             /\ t = <<Blank>> <=> c1 = Blank
  <1> DEFINE t == <<c1>>
  <1>1. t \in Seq(Alphabet) /\ Len(t) = 1 /\ t[1] = c1 /\ DOMAIN t = 1 .. 1
    OBVIOUS
  <1>2. t = <<Blank>> <=> c1 = Blank
    OBVIOUS
  <1> HIDE DEF t
  <1>3. 2 .. 1 = {} /\ 2 .. 0 = {} /\ (2 - 1 = 1) /\ 1 .. 1 = {1} /\ 1 - 1 = 0
    OBVIOUS
  <1>4. Closing(t) = {} /\ KeptSoFar(t) = {}
    BY <1>1, <1>3 DEF Closing, KeptSoFar
  <1>5. IsWord(t) <=> c1 \notin {Blank, Quote}
    BY <1>1, <1>3 DEF IsWord
  <1>6. ~IsString(t)
    BY <1>1, <1>4 DEF IsString
  <1>7. ~Behind(t, 2)
    <2>1. {j \in 2 .. 2 - 1 : \A m \in j .. 2 - 1 : t[m] = Backslash} = {}
      BY <1>3
    <2>2. Cardinality({j \in 2 .. 2 - 1 : \A m \in j .. 2 - 1 : t[m] = Backslash}) = 0
      BY <2>1, FS_EmptySet
    <2>3. Behind(t, 2) <=> (0 % 2) = 1
      BY <2>2 DEF Behind
    <2> QED BY <2>3
  <1>8. GivesSoFar(t, <<>>)
    BY <1>4, FS_EmptySet DEF GivesSoFar
  <1> QED BY <1>1, <1>2, <1>4, <1>5, <1>6, <1>7, <1>8 DEF IsArg, t

LEMMA ArgsIn ==
  ASSUME NEW line, NEW cuts
  PROVE  Args(line, cuts) \in SUBSET cuts
  BY DEF Args

\* The last token is complete, and v is its value.
LEMMA ArgEnds ==
  ASSUME NEW line, line # <<>>, NEW cuts, NEW l, NEW S, NEW d \in Seq(S),
         CutSoFar(line, cuts, l), Got(line, cuts, Args(line, cuts) \ {l}, d),
         IsArg(TokenAt(line, cuts, l)), NEW v \in S, Gives(TokenAt(line, cuts, l), v)
  PROVE  Ready(line, cuts, l, Append(d, v))
  <1> DEFINE t == TokenAt(line, cuts, l)
             args == Args(line, cuts)
             n == Len(line)
             d2 == Append(d, v)
  <1>1. /\ line # <<>> /\ CutSoFar(line, cuts, l) /\ Got(line, cuts, args \ {l}, d)
        /\ IsArg(t) /\ Gives(t, v)
    OBVIOUS
  <1>2. line \in Seq(Alphabet) /\ cuts \in SUBSET (1 .. n) /\ l \in cuts /\ \A k \in cuts : k <= l
    BY <1>1 DEF CutSoFar
  <1>3. n \in Nat
    BY <1>2
  <1>4. l \in args
    BY <1>1, <1>2 DEF Args
  <1>5. args \in SUBSET (1 .. n) /\ \A k \in args : k <= l
    BY <1>2, ArgsIn
  <1>6. Len(d2) = Len(d) + 1 /\ d2[Len(d) + 1] = v /\ \A j \in 1 .. Len(d) : d2[j] = d[j]
    OBVIOUS
  <1> HIDE DEF args, n, d2, t
  <1>7. /\ Cardinality(args) = Cardinality(args \ {l}) + 1
        /\ Nth(args, l) = Cardinality(args)
        /\ \A k \in args \ {l} : Nth(args, k) = Nth(args \ {l}, k)
    BY <1>3, <1>4, <1>5, NthLast
  <1>8. args \ {l} \in SUBSET (1 .. n)
    BY <1>5
  <1>9. \A k \in args \ {l} : Nth(args \ {l}, k) \in 1 .. Cardinality(args \ {l})
    BY <1>3, <1>8, NthIs
  <1>10. Len(d) = Cardinality(args \ {l})
         /\ \A k \in args \ {l} : Gives(TokenAt(line, cuts, k), d[Nth(args \ {l}, k)])
    BY <1>1 DEF Got
  <1>11. ASSUME NEW k \in args PROVE Gives(TokenAt(line, cuts, k), d2[Nth(args, k)])
    <2>1. CASE k = l
      <3>1. d2[Nth(args, k)] = v
        BY <2>1, <1>6, <1>7, <1>10
      <3> QED BY <2>1, <3>1, <1>1 DEF t
    <2>2. CASE k # l
      <3>1. d2[Nth(args, k)] = d[Nth(args \ {l}, k)]
        BY <2>2, <1>6, <1>7, <1>9, <1>10
      <3> QED BY <2>2, <3>1, <1>10
    <2> QED BY <2>1, <2>2
  <1>12. Got(line, cuts, args, d2)
    BY <1>6, <1>7, <1>10, <1>11 DEF Got
  <1> QED BY <1>1, <1>12 DEF Ready, args, d2, t

\* The next character begins a token.
LEMMA CutBegins ==
  ASSUME NEW line, NEW cuts, NEW l, NEW d, Ready(line, cuts, l, d), NEW c1 \in Alphabet,
         c1 \in {Blank, Quote} \/ Between(line, cuts, l, d)
  PROVE  LET line2 == Append(line, c1)
             n == Len(line2)
             cuts2 == cuts \cup {n}
         IN  /\ line2 # <<>> /\ CutSoFar(line2, cuts2, n) /\ n = Len(line) + 1
             /\ TokenAt(line2, cuts2, n) = <<c1>>
             /\ Got(line2, cuts2, Args(line, cuts), d)
             /\ Args(line2, cuts2) = Args(line, cuts) \cup IF IsArg(<<c1>>) THEN {n} ELSE {}
             /\ n \notin Args(line, cuts)
  <1> DEFINE line2 == Append(line, c1)
             n == Len(line) + 1
             cuts2 == cuts \cup {n}
             args == Args(line, cuts)
  <1>1. /\ CutSoFar(line, cuts, l) /\ Got(line, cuts, args, d)
        /\ line # <<>> => TokenAt(line, cuts, l) = <<Blank>> \/ IsArg(TokenAt(line, cuts, l))
    BY DEF Ready
  <1>2. /\ line \in Seq(Alphabet) /\ cuts \in SUBSET (1 .. Len(line))
        /\ line # <<>> => 1 \in cuts /\ l \in cuts /\ \A k \in cuts : k <= l
    BY <1>1 DEF CutSoFar
  <1>3. n = Len(line2) /\ Len(line) \in Nat /\ n \in Nat /\ line2 # <<>>
    <2>1. Len(line2) = Len(line) + 1 /\ Len(line) \in Nat
      BY <1>2
    <2>2. line2 # <<>>
      <3>1. Len(<<>>) = 0
        OBVIOUS
      <3> QED BY <2>1, <3>1
    <2> QED BY <2>1, <2>2
  <1>4. /\ line2 \in Seq(Alphabet) /\ cuts2 \in SUBSET (1 .. n)
        /\ \A k \in cuts : TokenAt(line2, cuts2, k) = TokenAt(line, cuts, k)
        /\ TokenAt(line2, cuts2, n) = <<c1>>
    BY <1>2, TokenNew
  <1>5. \A k \in cuts : k \in 1 .. Len(line)
    BY <1>2
  <1>6. IsWord(<<c1>>) <=> c1 \notin {Blank, Quote}
    BY FirstOfToken
  <1> DEFINE T(k) == TokenAt(line, cuts, k)
             T2(k) == TokenAt(line2, cuts2, k)
  <1>7. n \notin cuts /\ n \in cuts2 /\ \A k \in cuts : k < n /\ k \in cuts2
    BY <1>3, <1>5
  <1>8. \A k \in cuts2 \ {n} : k \in cuts
    OBVIOUS
  <1>9. 1 \in cuts2
    <2>1. CASE line = <<>>
      <3>1. n = 1
        BY <1>3, <2>1
      <3> QED BY <3>1
    <2>2. CASE line # <<>>
      BY <1>2, <2>2
    <2> QED BY <2>1, <2>2
  <1>10. \A k \in cuts2 \ {n} : T2(k) = <<Blank>> \/ IsArg(T2(k))
    <2> SUFFICES ASSUME NEW k \in cuts PROVE T2(k) = <<Blank>> \/ IsArg(T2(k))
      BY <1>8
    <2>1. line # <<>>
      BY <1>2
    <2>2. T(k) = <<Blank>> \/ IsArg(T(k))
      <3>1. CASE k = l
        BY <2>1, <3>1, <1>1
      <3>2. CASE k # l
        BY <3>2, <1>1 DEF CutSoFar
      <3> QED BY <3>1, <3>2
    <2> QED BY <2>2, <1>4
  <1>11. ASSUME NEW k \in cuts2, IsWord(T2(k)), k + Len(T2(k)) \in cuts2
         PROVE  ~IsWord(T2(k + Len(T2(k))))
    <2>1. CASE k = n
      <3>1. k + Len(T2(k)) = n + 1
        BY <2>1, <1>3, <1>4
      <3>2. n + 1 \notin cuts2
        BY <1>3, <1>7
      <3> QED BY <1>11, <3>1, <3>2
    <2>2. CASE k # n
      <3>1. k \in cuts /\ T2(k) = T(k)
        BY <2>2, <1>4
      <3>2. k + Len(T(k)) \in 2 .. Len(line) + 1
            /\ (k + Len(T(k)) \in cuts \/ k + Len(T(k)) = Len(line) + 1)
            /\ (\A j \in cuts : j > k => k + Len(T(k)) \in cuts)
        BY <1>2, <3>1, TokenIs
      <3>3. CASE k + Len(T(k)) \in cuts
        <4>1. ~IsWord(T(k + Len(T(k))))
          BY <3>1, <3>3, <1>1, <1>11 DEF CutSoFar
        <4>2. T2(k + Len(T(k))) = T(k + Len(T(k)))
          BY <3>3, <1>4
        <4> QED BY <3>1, <4>1, <4>2
      <3>4. CASE k + Len(T(k)) \notin cuts
        <4>1. k + Len(T(k)) = n
          BY <3>2, <3>4, <1>3
        <4>2. line # <<>> /\ l \in cuts /\ k <= l /\ k \in Nat /\ l \in Nat
          <5>1. k \in 1 .. Len(line)
            BY <1>5, <3>1
          <5>2. line # <<>>
            BY <5>1
          <5>3. l \in cuts /\ k <= l
            BY <1>2, <3>1, <5>2
          <5>4. l \in 1 .. Len(line)
            BY <1>5, <5>3
          <5> QED BY <5>1, <5>2, <5>3, <5>4
        <4>3. k = l
          BY <3>2, <3>4, <4>2
        <4>4. ~Between(line, cuts, l, d)
          BY <1>11, <3>1, <4>2, <4>3 DEF Between
        <4>5. ~IsWord(<<c1>>)
          BY <4>4, <1>6
        <4> QED BY <3>1, <4>1, <4>5, <1>4
      <3> QED BY <3>3, <3>4
    <2> QED BY <2>1, <2>2
  <1>12. CutSoFar(line2, cuts2, n)
    <2> HIDE DEF line2, n, cuts2
    <2>1. \A k \in cuts2 : k <= n
      BY <1>3, <1>7, <1>4
    <2>2. n = Len(line2)
      BY <1>3
    <2> QED BY <1>4, <1>7, <1>9, <1>10, <1>11, <2>1, <2>2 DEF CutSoFar
  <1>13. args \in SUBSET cuts
    BY ArgsIn
  <1>14. Got(line2, cuts2, args, d)
    <2> HIDE DEF line2, n, cuts2
    <2>1. \A k \in args : TokenAt(line2, cuts2, k) = TokenAt(line, cuts, k)
      BY <1>4, <1>13
    <2> QED BY <1>1, <2>1 DEF Got
  <1>15. Args(line2, cuts2) = args \cup IF IsArg(<<c1>>) THEN {n} ELSE {}
    <2> HIDE DEF line2, n
    <2>1. \A k \in cuts2 : k \in Args(line2, cuts2) <=> IsArg(T2(k))
      BY DEF Args
    <2>2. \A k \in cuts : k \in args <=> IsArg(T(k))
      BY DEF Args
    <2>3. Args(line2, cuts2) \in SUBSET cuts2
      BY ArgsIn
    <2> HIDE DEF args
    <2> QED BY <2>1, <2>2, <2>3, <1>4, <1>7, <1>13
  <1> QED BY <1>3, <1>4, <1>7, <1>12, <1>13, <1>14, <1>15

\* The next character belongs to the last token.
Grown(line, cuts, l, d, c1) ==
  LET line2 == Append(line, c1)
      t == TokenAt(line, cuts, l)
  IN  /\ line2 # <<>> /\ CutSoFar(line2, cuts, l)
      /\ t \in Seq(Alphabet) /\ t # <<>>
      /\ TokenAt(line2, cuts, l) = Append(t, c1)
      /\ Got(line2, cuts, Args(line2, cuts) \ {l}, d)

LEMMA CutGrows ==
  ASSUME NEW line, line # <<>>, NEW cuts, NEW l, NEW d, CutSoFar(line, cuts, l),
         Got(line, cuts, Args(line, cuts) \ {l}, d), NEW c1 \in Alphabet
  PROVE  Grown(line, cuts, l, d, c1)
  <1> DEFINE line2 == Append(line, c1)
             n == Len(line)
             args == Args(line, cuts)
             T(k) == TokenAt(line, cuts, k)
             T2(k) == TokenAt(line2, cuts, k)
  <1>1. /\ line \in Seq(Alphabet) /\ cuts \in SUBSET (1 .. n)
        /\ 1 \in cuts /\ l \in cuts /\ \A k \in cuts : k <= l
    BY DEF CutSoFar
  <1>2. /\ T(l) \in Seq(Alphabet) /\ T(l) # <<>> /\ l + Len(T(l)) = n + 1
    BY <1>1, TokenIs
  <1>3. /\ line2 \in Seq(Alphabet) /\ Len(line2) = n + 1 /\ cuts \in SUBSET (1 .. n + 1)
        /\ \A k \in cuts \ {l} : T2(k) = T(k)
        /\ T2(l) = Append(T(l), c1)
    BY <1>1, TokenOld
  <1>4. IsWord(T2(l)) => IsWord(T(l))
    <2>1. IsWord(Append(T(l), c1)) <=> (IsWord(T(l)) /\ c1 \notin {Blank, Quote})
      BY <1>2, TokenGrows
    <2> QED BY <1>3, <2>1
  <1>5. n \in Nat /\ line2 # <<>> /\ Len(T(l)) \in Nat /\ Len(T2(l)) = Len(T(l)) + 1
    BY <1>1, <1>2, <1>3
  <1>6. \A k \in cuts : k \in 1 .. n /\ k \in Nat
    BY <1>1
  <1>7. ASSUME NEW k \in cuts, IsWord(T2(k)), k + Len(T2(k)) \in cuts
        PROVE  ~IsWord(T2(k + Len(T2(k))))
    <2>1. CASE k = l
      <3>1. k + Len(T2(k)) = n + 2
        BY <1>2, <1>5, <1>6, <2>1
      <3> QED BY <1>5, <1>6, <1>7, <3>1
    <2>2. CASE k # l
      <3>1. T2(k) = T(k)
        BY <1>3, <2>2
      <3>2. ~IsWord(T(k + Len(T(k))))
        BY <1>7, <3>1 DEF CutSoFar
      <3> QED BY <1>3, <1>4, <1>7, <3>1, <3>2
    <2> QED BY <2>1, <2>2
  <1>8. \A k \in cuts \ {l} : T2(k) = <<Blank>> \/ IsArg(T2(k))
    BY <1>3 DEF CutSoFar
  <1>9. CutSoFar(line2, cuts, l)
    <2> HIDE DEF line2
    <2> QED BY <1>1, <1>3, <1>7, <1>8 DEF CutSoFar
  <1>10. Args(line2, cuts) \ {l} = args \ {l}
    <2> HIDE DEF line2
    <2> QED BY <1>3 DEF Args
  <1>11. Got(line2, cuts, Args(line2, cuts) \ {l}, d)
    <2> HIDE DEF line2
    <2>1. \A k \in args \ {l} : T2(k) = T(k)
      BY <1>3, ArgsIn
    <2> HIDE DEF args
    <2>2. Len(d) = Cardinality(args \ {l}) /\ \A k \in args \ {l} : Gives(T(k), d[Nth(args \ {l}, k)])
      BY DEF Got, args
    <2> QED BY <1>10, <2>1, <2>2 DEF Got
  <1> QED BY <1>2, <1>3, <1>5, <1>9, <1>11 DEF Grown

-----------------------------------------------------------------------------
(* The steps of cmd_parse on what is read.                                 *)

LEMMA LastToken ==
  ASSUME NEW line, line # <<>>, NEW cuts, NEW l, CutSoFar(line, cuts, l)
  PROVE  l \in 1 .. Len(line) /\ TokenAt(line, cuts, l) = SubSeq(line, l, Len(line))
  <1>1. line \in Seq(Alphabet) /\ cuts \in SUBSET (1 .. Len(line)) /\ l \in cuts /\ \A k \in cuts : k <= l
    BY DEF CutSoFar
  <1>2. l \in 1 .. Len(line) /\ Len(line) \in Nat
    BY <1>1
  <1>3. Ends(cuts, Len(line), l, Len(line))
    BY <1>1, <1>2 DEF Ends
  <1> QED BY <1>1, <1>2, <1>3, EndsGives

LEMMA WordReady ==
  ASSUME NEW line, NEW cuts, NEW l, NEW S, NEW d \in Seq(S), InWord(line, cuts, l, d),
         TokenAt(line, cuts, l) \in S
  PROVE  Ready(line, cuts, l, Append(d, TokenAt(line, cuts, l)))
  <1>1. IsArg(TokenAt(line, cuts, l)) /\ Gives(TokenAt(line, cuts, l), TokenAt(line, cuts, l))
    BY DEF InWord, IsArg, Gives
  <1> QED BY <1>1, ArgEnds DEF InWord

LEMMA ReadsBlank ==
  ASSUME NEW line, NEW cuts, NEW l, NEW d, Ready(line, cuts, l, d)
  PROVE  \E cuts2, l2 : Between(Append(line, Blank), cuts2, l2, d)
  <1> DEFINE line2 == Append(line, Blank)
             n == Len(line2)
             cuts2 == cuts \cup {n}
  <1>0. Blank \in Alphabet /\ Blank \in {Blank, Quote} /\ ~IsArg(<<Blank>>) /\ ~IsWord(<<Blank>>)
    BY Symbols, FirstOfToken
  <1>1. /\ CutSoFar(line2, cuts2, n) /\ TokenAt(line2, cuts2, n) = <<Blank>>
        /\ Got(line2, cuts2, Args(line, cuts), d)
        /\ Args(line2, cuts2) = Args(line, cuts) \cup IF IsArg(<<Blank>>) THEN {n} ELSE {}
    BY <1>0, CutBegins
  <1> HIDE DEF line2, n, cuts2
  <1>2. Args(line2, cuts2) = Args(line, cuts)
    BY <1>0, <1>1
  <1>3. Between(line2, cuts2, n, d)
    BY <1>0, <1>1, <1>2 DEF Between, Ready
  <1> QED BY <1>3 DEF line2

LEMMA ReadsQuote ==
  ASSUME NEW line, NEW cuts, NEW l, NEW d, Ready(line, cuts, l, d)
  PROVE  \E cuts2, l2 : InText(Append(line, Quote), cuts2, l2, d, FALSE, <<>>)
  <1> DEFINE line2 == Append(line, Quote)
             n == Len(line2)
             cuts2 == cuts \cup {n}
             t == <<Quote>>
  <1>0. /\ Quote \in Alphabet /\ Quote \in {Blank, Quote} /\ ~IsArg(t)
        /\ t[1] = Quote /\ Len(t) = 1 /\ Closing(t) = {} /\ ~Behind(t, 2) /\ GivesSoFar(t, <<>>)
    BY Symbols, FirstOfToken
  <1>1. /\ line2 # <<>> /\ CutSoFar(line2, cuts2, n) /\ TokenAt(line2, cuts2, n) = t
        /\ Got(line2, cuts2, Args(line, cuts), d)
        /\ Args(line2, cuts2) = Args(line, cuts) \cup IF IsArg(t) THEN {n} ELSE {}
    BY <1>0, CutBegins, ZenonT(30)
  <1> HIDE DEF line2, n, cuts2, t
  <1>2. Args(line2, cuts2) = Args(line, cuts)
    BY <1>0, <1>1
  <1>3. ~Behind(t, Len(t) + 1)
    <2>1. Len(t) + 1 = 2
      BY <1>0
    <2> QED BY <1>0, <2>1
  <1>4. InText(line2, cuts2, n, d, FALSE, <<>>)
    BY <1>0, <1>1, <1>2, <1>3 DEF InText
  <1> QED BY <1>4 DEF line2

LEMMA BeginsWord ==
  ASSUME NEW line, NEW cuts, NEW l, NEW d, Between(line, cuts, l, d),
         NEW c1 \in Alphabet \ {Blank, Quote}
  PROVE  \E cuts2 : InWord(Append(line, c1), cuts2, Len(line) + 1, d)
  <1> DEFINE line2 == Append(line, c1)
             n == Len(line2)
             cuts2 == cuts \cup {n}
             t == <<c1>>
  <1>0. Ready(line, cuts, l, d)
    BY DEF Between
  <1>1. c1 \in Alphabet /\ IsArg(t) /\ IsWord(t)
    BY FirstOfToken
  <1>2. /\ line2 # <<>> /\ CutSoFar(line2, cuts2, n) /\ n = Len(line) + 1
        /\ TokenAt(line2, cuts2, n) = t
        /\ Got(line2, cuts2, Args(line, cuts), d)
        /\ Args(line2, cuts2) = Args(line, cuts) \cup IF IsArg(t) THEN {n} ELSE {}
        /\ n \notin Args(line, cuts)
    BY <1>0, <1>1, CutBegins
  <1> HIDE DEF line2, n, cuts2, t
  <1>3. Args(line2, cuts2) \ {n} = Args(line, cuts)
    BY <1>1, <1>2
  <1>4. InWord(line2, cuts2, n, d)
    BY <1>1, <1>2, <1>3 DEF InWord
  <1> QED BY <1>2, <1>4 DEF line2

LEMMA GrowsWord ==
  ASSUME NEW line, NEW cuts, NEW l, NEW d, InWord(line, cuts, l, d),
         NEW c1 \in Alphabet \ {Blank, Quote}
  PROVE  InWord(Append(line, c1), cuts, l, d)
  <1> DEFINE line2 == Append(line, c1)
             t == TokenAt(line, cuts, l)
  <1>1. /\ line # <<>> /\ CutSoFar(line, cuts, l) /\ Got(line, cuts, Args(line, cuts) \ {l}, d)
        /\ IsWord(t)
    BY DEF InWord
  <1>2. /\ line2 # <<>> /\ CutSoFar(line2, cuts, l)
        /\ t \in Seq(Alphabet) /\ t # <<>>
        /\ TokenAt(line2, cuts, l) = Append(t, c1)
        /\ Got(line2, cuts, Args(line2, cuts) \ {l}, d)
    <2>1. c1 \in Alphabet
      OBVIOUS
    <2>2. Grown(line, cuts, l, d, c1)
      BY <1>1, <2>1, CutGrows
    <2> QED BY <2>2 DEF Grown
  <1> HIDE DEF line2, t
  <1>3. IsWord(Append(t, c1))
    BY <1>1, <1>2, TokenGrows
  <1>4. InWord(line2, cuts, l, d)
    BY <1>2, <1>3 DEF InWord
  <1> QED BY <1>4 DEF line2

\* What all characters in a string have in common
TextGrown(line, cuts, l, d, escaping, s, c1) ==
  LET line2 == Append(line, c1)
      t == TokenAt(line, cuts, l)
      u == TokenAt(line2, cuts, l)
  IN  /\ line2 # <<>> /\ CutSoFar(line2, cuts, l)
      /\ t \in Seq(Alphabet) /\ t # <<>> /\ t[1] = Quote /\ Closing(t) = {}
      /\ escaping <=> Behind(t, Len(t) + 1)
      /\ GivesSoFar(t, s)
      /\ u = Append(t, c1) /\ u[1] = Quote
      /\ Got(line2, cuts, Args(line2, cuts) \ {l}, d)
      /\ ~(c1 = Quote /\ ~escaping) => Closing(u) = {} /\ Got(line2, cuts, Args(line2, cuts), d)
      /\ Behind(u, Len(u) + 1) <=> (c1 = Backslash /\ ~escaping)

LEMMA TextGrows ==
  ASSUME NEW line, NEW cuts, NEW l, NEW d, NEW escaping, NEW s,
         InText(line, cuts, l, d, escaping, s), NEW c1 \in Alphabet
  PROVE  TextGrown(line, cuts, l, d, escaping, s, c1)
  <1> DEFINE line2 == Append(line, c1)
             t == TokenAt(line, cuts, l)
             u == TokenAt(line2, cuts, l)
             n == Len(t) + 1
  <1>1. /\ line # <<>> /\ CutSoFar(line, cuts, l) /\ Got(line, cuts, Args(line, cuts), d)
        /\ t[1] = Quote /\ Closing(t) = {}
        /\ escaping <=> Behind(t, n)
        /\ GivesSoFar(t, s)
    BY DEF InText
  <1>2. l \notin Args(line, cuts)
    <2>1. line \in Seq(Alphabet) /\ cuts \in SUBSET (1 .. Len(line)) /\ l \in cuts
      BY <1>1 DEF CutSoFar
    <2>2. t \in Seq(Alphabet) /\ t # <<>>
      BY <2>1, TokenIs
    <2> HIDE DEF t
    <2>3. ~IsString(t)
      BY <1>1 DEF IsString
    <2>4. 1 \in DOMAIN t
      BY <2>2
    <2>5. ~IsWord(t)
      BY <1>1, <2>4 DEF IsWord
    <2> QED BY <2>3, <2>5 DEF Args, IsArg, t
  <1>3. Got(line, cuts, Args(line, cuts) \ {l}, d)
    <2>1. Args(line, cuts) \ {l} = Args(line, cuts)
      BY <1>2
    <2> QED BY <1>1, <2>1
  <1>4. /\ line2 # <<>> /\ CutSoFar(line2, cuts, l)
        /\ t \in Seq(Alphabet) /\ t # <<>>
        /\ u = Append(t, c1)
        /\ Got(line2, cuts, Args(line2, cuts) \ {l}, d)
    <2>1. Grown(line, cuts, l, d, c1)
      BY <1>1, <1>3, CutGrows
    <2> QED BY <2>1 DEF Grown
  <1> HIDE DEF line2, t, u
  <1>5. /\ Len(u) = n /\ u[1] = t[1]
        /\ Closing(u) = Closing(t) \cup IF c1 = Quote /\ ~Behind(t, n) THEN {n} ELSE {}
        /\ u \in Seq(Alphabet) /\ u # <<>>
    BY <1>4, TokenGrows
  <1>6. ~IsWord(u)
    <2>1. 1 \in DOMAIN u
      BY <1>5
    <2> QED BY <1>1, <1>5, <2>1 DEF IsWord
  <1>7. Closing(u) = IF c1 = Quote /\ ~escaping THEN {n} ELSE {}
    BY <1>1, <1>5
  <1>8. Behind(u, Len(t) + 2) <=> (c1 = Backslash /\ ~Behind(t, Len(t) + 1))
    BY <1>4, BehindNext
  <1>9. Len(t) \in Nat /\ Len(u) + 1 = Len(t) + 2
    BY <1>4, <1>5
  <1>10. Behind(u, Len(u) + 1) <=> (c1 = Backslash /\ ~escaping)
    BY <1>1, <1>8, <1>9
  <1>11. ASSUME ~(c1 = Quote /\ ~escaping) PROVE Got(line2, cuts, Args(line2, cuts), d)
    <2>1. ~IsArg(u)
      BY <1>6, <1>7, <1>11 DEF IsArg, IsString
    <2>2. Args(line2, cuts) \ {l} = Args(line2, cuts)
      BY <2>1 DEF Args, u
    <2> QED BY <1>4, <2>2
  <1> QED BY <1>1, <1>4, <1>5, <1>7, <1>10, <1>11 DEF TextGrown, line2, t, u

LEMMA ReadsEscaped ==
  ASSUME NEW line, NEW cuts, NEW l, NEW d, NEW S, NEW s \in Seq(S),
         InText(line, cuts, l, d, TRUE, s), NEW c1 \in Alphabet, escape_char[c1] \in S
  PROVE  InText(Append(line, c1), cuts, l, d, FALSE, Append(s, escape_char[c1]))
  <1> DEFINE line2 == Append(line, c1)
             t == TokenAt(line, cuts, l)
             u == TokenAt(line2, cuts, l)
             s2 == Append(s, escape_char[c1])
  <1>1. TextGrown(line, cuts, l, d, TRUE, s, c1)
    BY TextGrows
  <1>2. /\ line2 # <<>> /\ CutSoFar(line2, cuts, l)
        /\ t \in Seq(Alphabet) /\ t # <<>>
        /\ Behind(t, Len(t) + 1) /\ GivesSoFar(t, s)
        /\ u = Append(t, c1) /\ u[1] = Quote
        /\ Got(line2, cuts, Args(line2, cuts), d)
        /\ Closing(u) = {} /\ ~Behind(u, Len(u) + 1)
    BY <1>1 DEF TextGrown
  <1> HIDE DEF line2, t, u
  <1>3. GivesSoFar(u, s2)
    BY <1>2, KeptGrows
  <1> HIDE DEF s2
  <1>4. InText(line2, cuts, l, d, FALSE, s2)
    BY <1>2, <1>3 DEF InText, u
  <1> QED BY <1>4 DEF line2, s2

LEMMA EndsText ==
  ASSUME NEW line, NEW cuts, NEW l, NEW S, NEW d \in Seq(S), NEW s \in S,
         InText(line, cuts, l, d, FALSE, s)
  PROVE  Between(Append(line, Quote), cuts, l, Append(d, s))
  <1> DEFINE line2 == Append(line, Quote)
             t == TokenAt(line, cuts, l)
             u == TokenAt(line2, cuts, l)
  <1>0. Quote \in Alphabet
    BY Symbols
  <1>1. TextGrown(line, cuts, l, d, FALSE, s, Quote)
    BY <1>0, TextGrows
  <1>2. /\ line2 # <<>> /\ CutSoFar(line2, cuts, l)
        /\ t \in Seq(Alphabet) /\ t # <<>> /\ t[1] = Quote /\ Closing(t) = {}
        /\ ~Behind(t, Len(t) + 1) /\ GivesSoFar(t, s)
        /\ u = Append(t, Quote)
        /\ Got(line2, cuts, Args(line2, cuts) \ {l}, d)
    BY <1>1 DEF TextGrown
  <1> HIDE DEF t
  <1>3. IsString(u) /\ ~IsWord(u) /\ Gives(u, s)
    BY <1>0, <1>2, StringEnds
  <1> HIDE DEF line2
  <1>4. IsArg(u)
    BY <1>3 DEF IsArg
  <1>5. Ready(line2, cuts, l, Append(d, s))
    BY <1>2, <1>3, <1>4, ArgEnds
  <1>6. Between(line2, cuts, l, Append(d, s))
    BY <1>3, <1>5 DEF Between
  <1> QED BY <1>6 DEF line2

LEMMA BeginsEscape ==
  ASSUME NEW line, NEW cuts, NEW l, NEW d, NEW s, InText(line, cuts, l, d, FALSE, s)
  PROVE  InText(Append(line, Backslash), cuts, l, d, TRUE, s)
  <1> DEFINE line2 == Append(line, Backslash)
             t == TokenAt(line, cuts, l)
             u == TokenAt(line2, cuts, l)
  <1>0. Backslash \in Alphabet /\ Backslash # Quote
    BY Symbols
  <1>1. TextGrown(line, cuts, l, d, FALSE, s, Backslash)
    BY <1>0, TextGrows
  <1>2. /\ line2 # <<>> /\ CutSoFar(line2, cuts, l)
        /\ t \in Seq(Alphabet) /\ t # <<>>
        /\ ~Behind(t, Len(t) + 1) /\ GivesSoFar(t, s)
        /\ u = Append(t, Backslash) /\ u[1] = Quote
        /\ Got(line2, cuts, Args(line2, cuts), d)
        /\ Closing(u) = {} /\ Behind(u, Len(u) + 1)
    BY <1>0, <1>1 DEF TextGrown
  <1> HIDE DEF t, u, line2
  <1>3. GivesSoFar(u, s)
    BY <1>0, <1>2, SkipGrows
  <1>4. InText(line2, cuts, l, d, TRUE, s)
    BY <1>2, <1>3 DEF InText, u
  <1> QED BY <1>4 DEF line2

LEMMA GrowsText ==
  ASSUME NEW line, NEW cuts, NEW l, NEW d, NEW S, NEW s \in Seq(S),
         InText(line, cuts, l, d, FALSE, s), NEW c1 \in Alphabet \ {Quote, Backslash}, c1 \in S
  PROVE  InText(Append(line, c1), cuts, l, d, FALSE, Append(s, c1))
  <1> DEFINE line2 == Append(line, c1)
             t == TokenAt(line, cuts, l)
             u == TokenAt(line2, cuts, l)
             s2 == Append(s, c1)
  <1>0. c1 \in Alphabet
    OBVIOUS
  <1>1. TextGrown(line, cuts, l, d, FALSE, s, c1)
    BY <1>0, TextGrows
  <1>2. /\ line2 # <<>> /\ CutSoFar(line2, cuts, l)
        /\ t \in Seq(Alphabet) /\ t # <<>>
        /\ ~Behind(t, Len(t) + 1) /\ GivesSoFar(t, s)
        /\ u = Append(t, c1) /\ u[1] = Quote
        /\ Got(line2, cuts, Args(line2, cuts), d)
        /\ Closing(u) = {} /\ ~Behind(u, Len(u) + 1)
    BY <1>1 DEF TextGrown
  <1> HIDE DEF line2, t, u
  <1>3. GivesSoFar(u, s2)
    BY <1>0, <1>2, KeptGrows
  <1> HIDE DEF s2
  <1>4. InText(line2, cuts, l, d, FALSE, s2)
    BY <1>2, <1>3 DEF InText, u
  <1> QED BY <1>4 DEF line2, s2

-----------------------------------------------------------------------------
(* The invariant of a command.                                             *)

Text == Alphabet \cup Range(escape_char)

LEMMA Marks ==
  /\ null \notin Seq(Text) /\ NotYet \notin Seq(Text)
  /\ Refused \notin Seq(Text) /\ Fault \notin Seq(Text)
  BY CommandLineAssumption DEF Text

CmdTypeOK ==
  /\ cmd \in Seq(Alphabet) /\ i \in 0 .. Len(cmd)
  /\ cmd # <<>> => Name(cmd) \in Commands
  /\ start \in Nat /\ sz \in Nat
  /\ reading_string \in BOOLEAN /\ reading_escape \in BOOLEAN
  /\ str \in Seq(Text)
  /\ data \in Seq(Seq(Text) \cup {null})
  /\ \A n \in 1 .. Len(data) - 1 : data[n] \in Seq(Text)

Read == SubSeq(cmd, 1, i)

\* Between tokens, in a word, or in a string.
Reads(line) ==
  IF reading_string
  THEN sz = 0 /\ \E cuts, l : InText(line, cuts, l, data, reading_escape, str)
  ELSE /\ reading_escape = FALSE /\ str = <<>>
       /\ IF sz = 0 THEN \E cuts, l : Between(line, cuts, l, data)
          ELSE start + sz = i /\ \E cuts : InWord(line, cuts, start + 1, data)

ReadsInv == (~Idle /\ ~Done) => Reads(Read)

\* The arguments are the line's.
Parsed(line, d) ==
  \E cuts \in SUBSET DOMAIN line :
    LET args == Args(line, cuts)
    IN  /\ WellCut(line, cuts)
        /\ Len(d) = Cardinality(args) + 1
        /\ \A k \in args : Gives(TokenAt(line, cuts, k), d[Nth(args, k)])

\* The first argument is the name of the command.
NameInv ==
  ~Idle =>
    IF ~Done /\ i <= Len(Name(cmd))
    THEN data = <<>> /\ sz = i /\ start = 0 /\ reading_string = FALSE /\ reading_escape = FALSE
    ELSE data # <<>> /\ data[1] = Name(cmd)

CmdInv ==
  /\ CmdTypeOK /\ ReadsInv /\ NameInv
  /\ Done => Parsed(cmd, data) /\ ~Idle

LEMMA ArgsParsed ==
  ASSUME NEW line, line # <<>>, NEW cuts, NEW l, NEW S, NEW d \in Seq(S),
         \/ Ready(line, cuts, l, d)
         \/ \E s : InText(line, cuts, l, d, FALSE, s) \/ InText(line, cuts, l, d, TRUE, s)
  PROVE  Parsed(line, Append(d, null))
  <1> DEFINE args == Args(line, cuts)
             T(k) == TokenAt(line, cuts, k)
             d2 == Append(d, null)
  <1>1. /\ CutSoFar(line, cuts, l) /\ Got(line, cuts, args, d)
        /\ T(l) = <<Blank>> \/ IsArg(T(l)) \/ IsOpen(T(l))
    BY DEF Ready, InText, IsOpen
  <1>2. /\ line \in Seq(Alphabet) /\ cuts \in SUBSET (1 .. Len(line)) /\ DOMAIN line = 1 .. Len(line)
        /\ 1 \in cuts /\ l \in cuts /\ \A k \in cuts : k <= l
    BY <1>1 DEF CutSoFar
  <1>3. l + Len(T(l)) = Len(line) + 1 /\ l + Len(T(l)) > Len(line)
    BY <1>2, TokenIs
  <1> HIDE DEF d2
  <1>4. ASSUME NEW k \in cuts
        PROVE  /\ T(k) = <<Blank>> \/ IsArg(T(k)) \/ (IsOpen(T(k)) /\ k + Len(T(k)) > Len(line))
               /\ (IsWord(T(k)) /\ k + Len(T(k)) \in cuts) => ~IsWord(T(k + Len(T(k))))
    <2>1. CASE k = l
      BY <1>1, <1>2, <1>3, <2>1 DEF CutSoFar
    <2>2. CASE k # l
      BY <1>1, <1>2, <2>2 DEF CutSoFar
    <2> QED BY <2>1, <2>2
  <1>5. WellCut(line, cuts)
    BY <1>2, <1>4 DEF WellCut
  <1>6. args \in SUBSET (1 .. Len(line)) /\ Len(line) \in Nat
    <2>1. args \in SUBSET cuts
      BY ArgsIn
    <2> HIDE DEF args
    <2> QED BY <1>2, <2>1
  <1>7. Cardinality(args) \in Nat /\ \A k \in args : Nth(args, k) \in 1 .. Cardinality(args)
    BY <1>6, NthIs
  <1>8. Len(d) = Cardinality(args) /\ \A k \in args : Gives(T(k), d[Nth(args, k)])
    BY <1>1 DEF Got
  <1>9. Len(d2) = Len(d) + 1 /\ \A j \in 1 .. Len(d) : d2[j] = d[j]
    BY DEF d2
  <1>10. \A k \in args : Gives(T(k), d2[Nth(args, k)])
    BY <1>7, <1>8, <1>9
  <1>11. Len(d2) = Cardinality(args) + 1
    BY <1>8, <1>9
  <1>12. cuts \in SUBSET DOMAIN line
    BY <1>2
  <1> QED BY <1>5, <1>10, <1>11, <1>12 DEF Parsed, d2

\* The line up to its first blank
LEMMA NameIs ==
  ASSUME NEW line \in Seq(Alphabet), line # <<>>
  PROVE  /\ Len(Name(line)) \in 0 .. Len(line)
         /\ Name(line) = SubSeq(line, 1, Len(Name(line)))
         /\ Len(Name(line)) < Len(line) => line[Len(Name(line)) + 1] = Blank
  <1> DEFINE I == {j \in 1 .. Len(line) : line[j] = Blank}
             m == SelectInSeq(line, LAMBDA x : x = Blank)
  <1>0. Len(line) \in Nat
    OBVIOUS
  <1>1. m = IF I # {} THEN Min(I) ELSE 0
    BY DEF SelectInSeq
  <1>2. CASE I = {}
    <2>1. m = 0
      BY <1>1, <1>2
    <2>2. Name(line) = line
      BY <2>1 DEF Name
    <2>3. SubSeq(line, 1, Len(line)) = line
      BY SubSeqFull
    <2> QED BY <1>0, <2>2, <2>3
  <1>3. CASE I # {}
    <2>1. I \in SUBSET Nat
      <3>1. \A j \in I : j \in Nat
        OBVIOUS
      <3> QED BY <3>1
    <2>2. PICK k \in I : \A j \in I : k <= j
      BY <1>3, <2>1, NatLeast
    <2>3. \A x \in I : (\A j \in I : x <= j) => x = k
      BY <2>1, <2>2
    <2> DEFINE J == I
    <2> HIDE DEF J
    <2>4. Min(J) = k
      <3>1. k \in J /\ (\A j \in J : k <= j) /\ \A x \in J : (\A j \in J : x <= j) => x = k
        BY <2>2, <2>3 DEF J
      <3> QED BY <3>1 DEF Min
    <2>5. m = k
      BY <1>1, <1>3, <2>4 DEF J
    <2>6. k \in 1 .. Len(line) /\ line[k] = Blank
      BY <2>2
    <2> HIDE DEF m
    <2>7. Name(line) = SubSeq(line, 1, k - 1)
      <3>1. m # 0
        BY <2>5, <2>6
      <3> QED BY <2>5, <3>1 DEF Name, m
    <2>8. Len(SubSeq(line, 1, k - 1)) = k - 1
      BY <2>6
    <2> QED BY <1>0, <2>6, <2>7, <2>8
  <1> QED BY <1>2, <1>3

LEMMA NameOfCommand ==
  ASSUME NEW line \in Seq(Alphabet), line # <<>>, Name(line) \in Commands
  PROVE  LET m == Len(Name(line))
         IN  /\ m \in 1 .. Len(line) /\ Name(line) = SubSeq(line, 1, m)
             /\ \A j \in 1 .. m : line[j] \notin {Blank, Quote}
             /\ m < Len(line) => line[m + 1] = Blank
  <1> DEFINE m == Len(Name(line))
             nm == Name(line)
  <1>1. m \in 0 .. Len(line) /\ nm = SubSeq(line, 1, m) /\ (m < Len(line) => line[m + 1] = Blank)
    BY NameIs
  <1>2. nm # <<>> /\ nm \in Seq(Alphabet \ {Blank, Quote})
    BY CommandLineAssumption
  <1> HIDE DEF nm
  <1>3. Len(nm) = m
    BY DEF nm
  <1> HIDE DEF m
  <1>4. m \in 1 .. Len(line)
    BY <1>1, <1>2, <1>3
  <1>5. ASSUME NEW j \in 1 .. m PROVE line[j] \notin {Blank, Quote}
    <2>1. nm[j] \in Alphabet \ {Blank, Quote}
      BY <1>2, <1>3, ElementOfSeq
    <2>2. nm[j] = line[j]
      BY <1>1, <1>4
    <2> QED BY <2>1, <2>2
  <1> QED BY <1>1, <1>4, <1>5 DEF m, nm

-----------------------------------------------------------------------------
(* The steps of a command.                                                 *)

\* Before the last argument is there, the arguments are texts.
LEMMA Unfinished ==
  ASSUME CmdTypeOK, ~Done
  PROVE  data \in Seq(Seq(Text))
  <1>1. \A n \in 1 .. Len(data) : data[n] \in Seq(Text)
    <2> TAKE n \in 1 .. Len(data)
    <2>1. CASE n < Len(data)
      <3>1. n \in 1 .. Len(data) - 1
        BY <2>1 DEF CmdTypeOK
      <3> QED BY <3>1 DEF CmdTypeOK
    <2>2. CASE n = Len(data)
      <3>1. data # <<>>
        BY <2>2
      <3>2. data[n] # null
        BY <2>2, <3>1 DEF Done, Last
      <3>3. data[n] \in Seq(Text) \cup {null}
        BY ElementOfSeq DEF CmdTypeOK
      <3> QED BY <3>2, <3>3
    <2>3. Len(data) \in Nat
      BY DEF CmdTypeOK
    <2> QED BY <2>1, <2>2, <2>3
  <1>2. Len(data) \in Nat /\ data = [n \in 1 .. Len(data) |-> data[n]]
    BY DEF CmdTypeOK
  <1> QED BY <1>1, <1>2

\* One more argument
LEMMA ArgAdded ==
  ASSUME NEW d \in Seq(Seq(Text)), NEW v \in Seq(Text) \cup {null}
  PROVE  LET d2 == Append(d, v)
         IN  /\ d2 \in Seq(Seq(Text) \cup {null}) /\ d2 # <<>>
             /\ \A n \in 1 .. Len(d2) - 1 : d2[n] \in Seq(Text)
             /\ v \in Seq(Text) => d2 \in Seq(Seq(Text)) /\ Last(d2) # null
             /\ v = null => Last(d2) = null
             /\ d # <<>> => d2[1] = d[1]
             /\ d = <<>> => d2[1] = v
  <1> DEFINE d2 == Append(d, v)
  <1>1. d \in Seq(Seq(Text) \cup {null})
    OBVIOUS
  <1>2. d2 \in Seq(Seq(Text) \cup {null}) /\ Len(d2) = Len(d) + 1 /\ d2[Len(d) + 1] = v
        /\ Len(d) \in Nat /\ \A n \in 1 .. Len(d) : d2[n] = d[n] /\ d[n] \in Seq(Text)
    BY <1>1, ElementOfSeq
  <1>3. v \in Seq(Text) => d2 \in Seq(Seq(Text))
    OBVIOUS
  <1> HIDE DEF d2
  <1>4. d2 # <<>>
    <2>1. Len(<<>>) = 0
      OBVIOUS
    <2> QED BY <1>2, <2>1
  <1>5. Last(d2) = v
    BY <1>2 DEF Last
  <1>6. v \in Seq(Text) => v # null
    BY Marks
  <1>7. d # <<>> => 1 \in 1 .. Len(d)
    <2>1. d # <<>> => Len(d) # 0
      OBVIOUS
    <2> QED BY <1>2, <2>1
  <1>8. d = <<>> => Len(d) + 1 = 1
    OBVIOUS
  <1>9. \A n \in 1 .. Len(d2) - 1 : n \in 1 .. Len(d)
    BY <1>2
  <1> QED BY <1>2, <1>3, <1>4, <1>5, <1>6, <1>7, <1>8, <1>9 DEF d2

LEMMA ReadMore ==
  ASSUME CmdTypeOK, Reading, Step
  PROVE  /\ Read' = Append(Read, c) /\ c \in Alphabet /\ c \in Text
         /\ cmd' = cmd /\ i' = i + 1 /\ i' \in 0 .. Len(cmd) /\ ~Idle /\ ~Done
         /\ Len(Read) = i /\ i \in Nat /\ escape_char[c] \in Text
  <1>1. cmd \in Seq(Alphabet) /\ i \in 0 .. Len(cmd) /\ i < Len(cmd) /\ Len(cmd) \in Nat
    BY DEF CmdTypeOK, Reading
  <1>2. i + 1 \in 1 .. Len(cmd) /\ c \in Alphabet
    <2>1. i + 1 \in 1 .. Len(cmd)
      BY <1>1
    <2> QED BY <1>1, <2>1, ElementOfSeq DEF c
  <1>3. SubSeq(cmd, 1, i + 1) = Append(SubSeq(cmd, 1, i), cmd[i + 1])
    BY <1>1, <1>2
  <1>4. cmd' = cmd /\ i' = i + 1
    BY DEF Step
  <1>5. Read' = Append(Read, c)
    BY <1>3, <1>4 DEF Read, c
  <1>6. Len(Read) = i
    BY <1>1 DEF Read
  <1>7. escape_char[c] \in Text
    BY <1>2, CommandLineAssumption DEF Text, Range
  <1> QED BY <1>1, <1>2, <1>4, <1>5, <1>6, <1>7 DEF Reading, Text

\* A word that ends is as cmd_parse copies it.
LEMMA WordCopied ==
  ASSUME CmdTypeOK, ~Idle, ~Done, Reads(Read), reading_string = FALSE
  PROVE  /\ WithWord \in Seq(Seq(Text)) /\ \E cuts, l : Ready(Read, cuts, l, WithWord)
         /\ data # <<>> => WithWord # <<>> /\ WithWord[1] = data[1]
         /\ (data = <<>> /\ sz = i /\ start = 0 /\ i > 0) =>
              WithWord # <<>> /\ WithWord[1] = SubSeq(cmd, 1, i)
  <1>1. data \in Seq(Seq(Text))
    BY Unfinished
  <1>2. CASE sz = 0
    <2>1. WithWord = data
      BY <1>2 DEF WithWord
    <2>2. PICK cuts, l : Between(Read, cuts, l, data)
      BY <1>2 DEF Reads
    <2>3. Ready(Read, cuts, l, data)
      BY <2>2 DEF Between
    <2> QED BY <1>1, <1>2, <2>1, <2>3
  <1>3. CASE sz # 0
    <2> DEFINE l == start + 1
               w == strndup(start, sz)
    <2>1. PICK cuts : InWord(Read, cuts, l, data) /\ start + sz = i
      BY <1>3 DEF Reads
    <2>2. start \in Nat /\ sz \in Nat /\ sz > 0 /\ i \in 0 .. Len(cmd) /\ cmd \in Seq(Alphabet)
      BY <1>3 DEF CmdTypeOK
    <2>3. Read \in Seq(Alphabet) /\ Len(Read) = i /\ \A j \in 1 .. i : Read[j] = cmd[j]
      BY <2>2 DEF Read
    <2>4. l \in 1 .. Len(Read) /\ TokenAt(Read, cuts, l) = SubSeq(Read, l, Len(Read))
      BY <2>1, LastToken DEF InWord
    <2>5. TokenAt(Read, cuts, l) = w /\ w \in Seq(Alphabet)
      <3>1. SubSeq(Read, l, i) = SubSeq(cmd, l, i)
        BY <2>2, <2>3, <2>4, SMTT(30)
      <3>2. SubSeq(cmd, l, i) \in Seq(Alphabet)
        BY <2>2, <2>3, <2>4
      <3> QED BY <2>1, <2>3, <2>4, <3>1, <3>2 DEF strndup
    <2>6. w \in Seq(Text)
      BY <2>5, SeqMonotonic DEF Text
    <2>7. WithWord = Append(data, w)
      BY <2>2 DEF WithWord
    <2>8. Ready(Read, cuts, l, WithWord)
      <3> HIDE DEF w, l
      <3> QED BY <1>1, <2>1, <2>5, <2>6, <2>7, WordReady
    <2>9. start = 0 => w = SubSeq(cmd, 1, i)
      BY <2>1, <2>2 DEF strndup
    <2> HIDE DEF w, l
    <2>10. /\ WithWord \in Seq(Seq(Text)) /\ WithWord # <<>>
           /\ data # <<>> => WithWord[1] = data[1]
           /\ data = <<>> => WithWord[1] = w
      BY <1>1, <2>6, <2>7, ArgAdded
    <2> QED BY <2>8, <2>9, <2>10
  <1> QED BY <1>2, <1>3

LEMMA NotYetDone ==
  ASSUME data' \in Seq(Seq(Text))
  PROVE  /\ ~Done' /\ (data \in Seq(Seq(Text) \cup {null}))'
         /\ (\A n \in 1 .. Len(data) - 1 : data[n] \in Seq(Text))'
  <1>1. ASSUME NEW d \in Seq(Seq(Text))
        PROVE  /\ d \in Seq(Seq(Text) \cup {null}) /\ \A n \in 1 .. Len(d) - 1 : d[n] \in Seq(Text)
               /\ ~(d # <<>> /\ Last(d) = null)
    <2>1. Len(d) \in Nat /\ \A n \in 1 .. Len(d) : d[n] \in Seq(Text)
      BY ElementOfSeq
    <2>2. d # <<>> => Len(d) \in 1 .. Len(d)
      BY <2>1, EmptySeq
    <2>3. d # <<>> => Last(d) \in Seq(Text)
      BY <2>1, <2>2 DEF Last
    <2> QED BY <2>1, <2>3, Marks
  <1> QED BY <1>1 DEF Done

\* What the steps in a string leave of the name
LEMMA NameStays ==
  ASSUME CmdTypeOK, NameInv, Reading, Step, reading_string \/ reading_escape,
         data' \in Seq(Seq(Text)), data # <<>> => data' # <<>> /\ data'[1] = data[1]
  PROVE  NameInv'
  <1>1. ~Idle /\ ~Done /\ cmd' = cmd /\ i' = i + 1 /\ i \in Nat
    BY ReadMore
  <1>2. cmd # <<>> /\ cmd \in Seq(Alphabet) /\ Name(cmd) \in Commands
    BY <1>1 DEF CmdTypeOK, Idle
  <1>3. Len(Name(cmd)) \in Nat
    BY <1>2, NameOfCommand
  <1>4. i > Len(Name(cmd)) /\ data # <<>> /\ data[1] = Name(cmd)
    BY <1>1, <1>3 DEF NameInv
  <1>5. ~(i' <= Len(Name(cmd)))
    BY <1>1, <1>3, <1>4
  <1> QED BY <1>1, <1>4, <1>5 DEF NameInv

LEMMA EscapedKeeps ==
  ASSUME CmdInv, Escaped
  PROVE  CmdInv'
  <1>1. CmdTypeOK /\ NameInv /\ Reading /\ Step /\ reading_escape = TRUE
    BY DEF CmdInv, Escaped, CmdTypeOK
  <1>2. /\ Read' = Append(Read, c) /\ c \in Alphabet /\ cmd' = cmd /\ i' = i + 1
        /\ i' \in 0 .. Len(cmd) /\ ~Idle /\ ~Done /\ escape_char[c] \in Text
    BY <1>1, ReadMore
  <1>3. Reads(Read)
    BY <1>2 DEF CmdInv, ReadsInv
  <1>4. /\ str' = Append(str, escape_char[c]) /\ reading_escape' = FALSE
        /\ start' = start /\ sz' = sz /\ reading_string' = reading_string /\ data' = data
    BY DEF Escaped
  <1>5. str \in Seq(Text) /\ data' \in Seq(Seq(Text))
    BY <1>1, <1>2, <1>4, Unfinished DEF CmdTypeOK
  <1>6. str' \in Seq(Text)
    BY <1>2, <1>4, <1>5
  <1>7. ~Done' /\ CmdTypeOK'
    BY <1>1, <1>2, <1>4, <1>5, <1>6, NotYetDone DEF CmdTypeOK
  <1>8. NameInv'
    BY <1>1, <1>4, <1>5, NameStays
  <1>9. Reads(Read)'
    <2>1. reading_string = TRUE /\ sz = 0
      BY <1>1, <1>3 DEF Reads, CmdTypeOK
    <2>2. PICK cuts, l : InText(Read, cuts, l, data, TRUE, str)
      BY <1>1, <1>3, <2>1 DEF Reads
    <2>3. InText(Append(Read, c), cuts, l, data, FALSE, Append(str, escape_char[c]))
      BY <1>2, <1>5, <2>2, ReadsEscaped
    <2>4. InText(Read', cuts, l, data', reading_escape', str')
      BY <1>2, <1>4, <2>3
    <2> QED BY <1>4, <2>1, <2>4 DEF Reads
  <1> QED BY <1>7, <1>8, <1>9 DEF CmdInv, ReadsInv

\* What the three steps in a string have in common
LEMMA InStringIs ==
  ASSUME CmdInv, InString, Step
  PROVE  /\ CmdTypeOK /\ NameInv /\ Reading /\ reading_string = TRUE /\ reading_escape = FALSE /\ sz = 0
         /\ data \in Seq(Seq(Text)) /\ str \in Seq(Text)
         /\ \E cuts, l : InText(Read, cuts, l, data, FALSE, str)
  <1>1. CmdTypeOK /\ NameInv /\ Reading /\ reading_string = TRUE /\ reading_escape = FALSE
    BY DEF CmdInv, InString, CmdTypeOK
  <1>2. ~Idle /\ ~Done
    BY <1>1, ReadMore
  <1>3. Reads(Read)
    BY <1>2 DEF CmdInv, ReadsInv
  <1>4. data \in Seq(Seq(Text)) /\ str \in Seq(Text)
    BY <1>1, <1>2, Unfinished DEF CmdTypeOK
  <1> QED BY <1>1, <1>3, <1>4 DEF Reads

LEMMA EndStringKeeps ==
  ASSUME CmdInv, EndString
  PROVE  CmdInv'
  <1>0. InString /\ Step /\ c = Quote
    BY DEF EndString
  <1>1. /\ CmdTypeOK /\ NameInv /\ Reading /\ reading_string = TRUE /\ reading_escape = FALSE /\ sz = 0
        /\ data \in Seq(Seq(Text)) /\ str \in Seq(Text)
    BY <1>0, InStringIs
  <1>2. /\ Read' = Append(Read, c) /\ cmd' = cmd /\ i' = i + 1
        /\ i' \in 0 .. Len(cmd) /\ ~Idle /\ ~Done
    BY <1>0, <1>1, ReadMore
  <1>3. PICK cuts, l : InText(Read, cuts, l, data, FALSE, str)
    BY <1>0, InStringIs
  <1>4. /\ data' = Append(data, str) /\ str' = <<>> /\ reading_string' = FALSE
        /\ start' = start /\ sz' = sz /\ reading_escape' = reading_escape
    BY DEF EndString
  <1>5. data' \in Seq(Seq(Text)) /\ (data # <<>> => data' # <<>> /\ data'[1] = data[1])
    BY <1>1, <1>4, ArgAdded
  <1>6. ~Done' /\ CmdTypeOK'
    <2>1. str' \in Seq(Text)
      BY <1>4
    <2> QED BY <1>1, <1>2, <1>4, <1>5, <2>1, NotYetDone DEF CmdTypeOK
  <1>7. NameInv'
    BY <1>0, <1>1, <1>5, NameStays
  <1>8. Between(Read', cuts, l, data')
    BY <1>0, <1>1, <1>2, <1>3, <1>4, EndsText
  <1>9. Reads(Read)'
    BY <1>1, <1>4, <1>8 DEF Reads
  <1> QED BY <1>6, <1>7, <1>9 DEF CmdInv, ReadsInv

LEMMA StartEscapeKeeps ==
  ASSUME CmdInv, StartEscape
  PROVE  CmdInv'
  <1>0. InString /\ Step /\ c = Backslash
    BY DEF StartEscape
  <1>1. /\ CmdTypeOK /\ NameInv /\ Reading /\ reading_string = TRUE /\ reading_escape = FALSE /\ sz = 0
        /\ data \in Seq(Seq(Text)) /\ str \in Seq(Text)
    BY <1>0, InStringIs
  <1>2. /\ Read' = Append(Read, c) /\ cmd' = cmd /\ i' = i + 1
        /\ i' \in 0 .. Len(cmd) /\ ~Idle /\ ~Done
    BY <1>0, <1>1, ReadMore
  <1>3. PICK cuts, l : InText(Read, cuts, l, data, FALSE, str)
    BY <1>0, InStringIs
  <1>4. /\ data' = data /\ str' = str /\ reading_string' = reading_string
        /\ start' = start /\ sz' = sz /\ reading_escape' = TRUE
    BY DEF StartEscape
  <1>5. data' \in Seq(Seq(Text)) /\ (data # <<>> => data' # <<>> /\ data'[1] = data[1])
    BY <1>1, <1>4
  <1>6. ~Done' /\ CmdTypeOK'
    BY <1>1, <1>2, <1>4, <1>5, NotYetDone DEF CmdTypeOK
  <1>7. NameInv'
    BY <1>0, <1>1, <1>5, NameStays
  <1>8. InText(Read', cuts, l, data', reading_escape', str')
    BY <1>0, <1>2, <1>3, <1>4, BeginsEscape
  <1>9. Reads(Read)'
    BY <1>1, <1>4, <1>8 DEF Reads
  <1> QED BY <1>6, <1>7, <1>9 DEF CmdInv, ReadsInv

LEMMA StringCharKeeps ==
  ASSUME CmdInv, StringChar
  PROVE  CmdInv'
  <1>0. InString /\ Step /\ c \notin {Quote, Backslash}
    BY DEF StringChar
  <1>1. /\ CmdTypeOK /\ NameInv /\ Reading /\ reading_string = TRUE /\ reading_escape = FALSE /\ sz = 0
        /\ data \in Seq(Seq(Text)) /\ str \in Seq(Text)
    BY <1>0, InStringIs
  <1>2. /\ Read' = Append(Read, c) /\ cmd' = cmd /\ i' = i + 1 /\ c \in Text /\ c \in Alphabet
        /\ i' \in 0 .. Len(cmd) /\ ~Idle /\ ~Done
    BY <1>0, <1>1, ReadMore
  <1>3. PICK cuts, l : InText(Read, cuts, l, data, FALSE, str)
    BY <1>0, InStringIs
  <1>4. /\ data' = data /\ str' = Append(str, c) /\ reading_string' = reading_string
        /\ start' = start /\ sz' = sz /\ reading_escape' = reading_escape
    BY DEF StringChar
  <1>5. data' \in Seq(Seq(Text)) /\ (data # <<>> => data' # <<>> /\ data'[1] = data[1])
    BY <1>1, <1>4
  <1>6. ~Done' /\ CmdTypeOK'
    <2>1. str' \in Seq(Text)
      BY <1>1, <1>2, <1>4
    <2> QED BY <1>1, <1>2, <1>4, <1>5, <2>1, NotYetDone DEF CmdTypeOK
  <1>7. NameInv'
    BY <1>0, <1>1, <1>5, NameStays
  <1>8. InText(Read', cuts, l, data', reading_escape', str')
    <2>1. c \in Alphabet \ {Quote, Backslash}
      BY <1>0, <1>2
    <2>2. InText(Append(Read, c), cuts, l, data, FALSE, Append(str, c))
      BY <1>1, <1>2, <1>3, <2>1, GrowsText
    <2> QED BY <1>1, <1>2, <1>4, <2>2
  <1>9. Reads(Read)'
    BY <1>1, <1>4, <1>8 DEF Reads
  <1> QED BY <1>6, <1>7, <1>9 DEF CmdInv, ReadsInv

\* What the two steps outside of strings have in common: the name ends at m.
LEMMA InWordsIs ==
  ASSUME CmdInv, InWords, Step
  PROVE  /\ CmdTypeOK /\ NameInv /\ Reading /\ reading_string = FALSE /\ reading_escape = FALSE
         /\ data \in Seq(Seq(Text)) /\ ~Idle /\ ~Done /\ Reads(Read) /\ str = <<>>
         /\ LET m == Len(Name(cmd))
            IN  /\ m \in 1 .. Len(cmd) /\ Name(cmd) = SubSeq(cmd, 1, m)
                /\ i < m => c \notin {Blank, Quote}
                /\ i = m => c = Blank
                /\ i <= m => data = <<>> /\ sz = i /\ start = 0
                /\ i > m => data # <<>> /\ data[1] = Name(cmd)
  <1> DEFINE m == Len(Name(cmd))
  <1>1. CmdTypeOK /\ NameInv /\ Reading /\ reading_string = FALSE /\ reading_escape = FALSE
    BY DEF CmdInv, InWords, CmdTypeOK
  <1>2. ~Idle /\ ~Done /\ i \in Nat
    BY <1>1, ReadMore
  <1>3. Reads(Read)
    BY <1>2 DEF CmdInv, ReadsInv
  <1>4. data \in Seq(Seq(Text)) /\ str = <<>>
    BY <1>1, <1>2, <1>3, Unfinished DEF Reads
  <1>5. cmd # <<>> /\ cmd \in Seq(Alphabet) /\ Name(cmd) \in Commands /\ i < Len(cmd) /\ Len(cmd) \in Nat
    BY <1>1, <1>2 DEF CmdTypeOK, Idle, Reading
  <1>6. /\ m \in 1 .. Len(cmd) /\ Name(cmd) = SubSeq(cmd, 1, m)
        /\ \A j \in 1 .. m : cmd[j] \notin {Blank, Quote}
        /\ m < Len(cmd) => cmd[m + 1] = Blank
    BY <1>5, NameOfCommand
  <1>7. i < m => c \notin {Blank, Quote}
    <2>1. i < m => i + 1 \in 1 .. m
      BY <1>2, <1>6
    <2> QED BY <1>6, <2>1 DEF c
  <1>8. i = m => c = Blank
    BY <1>5, <1>6 DEF c
  <1>9. i > m <=> ~(i <= m)
    BY <1>2, <1>6
  <1>10. /\ i <= m => data = <<>> /\ sz = i /\ start = 0
         /\ i > m => data # <<>> /\ data[1] = Name(cmd)
    BY <1>1, <1>2, <1>9 DEF NameInv
  <1> QED BY <1>1, <1>2, <1>3, <1>4, <1>6, <1>7, <1>8, <1>10

LEMMA SeparatorKeeps ==
  ASSUME CmdInv, Separator
  PROVE  CmdInv'
  <1> DEFINE m == Len(Name(cmd))
  <1>0. InWords /\ Step /\ c \in {Blank, Quote}
    BY DEF Separator
  <1>1. /\ CmdTypeOK /\ NameInv /\ Reading /\ reading_string = FALSE /\ reading_escape = FALSE
        /\ data \in Seq(Seq(Text)) /\ ~Idle /\ ~Done /\ Reads(Read) /\ str = <<>>
    BY <1>0, InWordsIs
  <1>2. /\ m \in 1 .. Len(cmd) /\ Name(cmd) = SubSeq(cmd, 1, m)
        /\ i < m => c \notin {Blank, Quote}
        /\ i <= m => data = <<>> /\ sz = i /\ start = 0
        /\ i > m => data # <<>> /\ data[1] = Name(cmd)
    BY <1>0, InWordsIs
  <1>3. /\ Read' = Append(Read, c) /\ cmd' = cmd /\ i' = i + 1
        /\ i' \in 0 .. Len(cmd) /\ i \in Nat
    BY <1>0, <1>1, ReadMore
  <1>4. /\ data' = WithWord /\ sz' = 0 /\ reading_string' = (c = Quote)
        /\ start' = start /\ reading_escape' = reading_escape /\ str' = str
    BY DEF Separator
  <1>5. WithWord \in Seq(Seq(Text)) /\ \E cuts, l : Ready(Read, cuts, l, WithWord)
    BY <1>1, WordCopied
  <1>6. ~Done' /\ CmdTypeOK'
    <2>1. reading_string' \in BOOLEAN /\ sz' \in Nat
      BY <1>4
    <2> QED BY <1>1, <1>3, <1>4, <1>5, <2>1, NotYetDone DEF CmdTypeOK
  <1>a. i >= m
    BY <1>0, <1>2, <1>3
  <1>7. data' # <<>> /\ data'[1] = Name(cmd)
    <2>2. CASE i > m
      BY <1>1, <1>2, <1>4, <2>2, WordCopied
    <2>3. CASE i = m
      <3>1. data = <<>> /\ sz = i /\ start = 0 /\ i > 0
        BY <1>2, <1>3, <2>3
      <3>2. WithWord # <<>> /\ WithWord[1] = SubSeq(cmd, 1, i)
        BY <1>1, <3>1, WordCopied
      <3> QED BY <1>2, <1>4, <2>3, <3>2
    <2>4. m \in Nat
      BY <1>2
    <2> HIDE DEF m
    <2>5. i > m \/ i = m
      BY <1>a, <1>3, <2>4
    <2> QED BY <2>2, <2>3, <2>5
  <1>8. NameInv'
    <2>1. ~(i' <= m)
      BY <1>2, <1>3, <1>a
    <2> QED BY <1>3, <1>7, <2>1 DEF NameInv
  <1>9. Reads(Read)'
    <2>1. PICK cuts, l : Ready(Read, cuts, l, WithWord)
      BY <1>5
    <2>2. CASE c = Blank
      <3>1. reading_string' = FALSE
        BY <1>4, <2>2, Symbols
      <3>2. \E cuts2, l2 : Between(Read', cuts2, l2, data')
        BY <1>3, <1>4, <2>1, <2>2, ReadsBlank
      <3> QED BY <1>1, <1>4, <3>1, <3>2 DEF Reads
    <2>3. CASE c = Quote
      <3>1. reading_string' = TRUE
        BY <1>4, <2>3
      <3>2. \E cuts2, l2 : InText(Read', cuts2, l2, data', FALSE, <<>>)
        BY <1>3, <1>4, <2>1, <2>3, ReadsQuote
      <3>3. \E cuts2, l2 : InText(Read', cuts2, l2, data', reading_escape', str')
        BY <1>1, <1>4, <3>2
      <3> QED BY <1>4, <3>1, <3>3 DEF Reads
    <2> QED BY <1>0, <2>2, <2>3
  <1> QED BY <1>6, <1>8, <1>9 DEF CmdInv, ReadsInv

LEMMA WordCharKeeps ==
  ASSUME CmdInv, WordChar
  PROVE  CmdInv'
  <1> DEFINE m == Len(Name(cmd))
  <1>0. InWords /\ Step /\ c \notin {Blank, Quote}
    BY DEF WordChar
  <1>1. /\ CmdTypeOK /\ NameInv /\ Reading /\ reading_string = FALSE /\ reading_escape = FALSE
        /\ data \in Seq(Seq(Text)) /\ ~Idle /\ ~Done /\ Reads(Read) /\ str = <<>>
    BY <1>0, InWordsIs
  <1>2. /\ m \in 1 .. Len(cmd)
        /\ i = m => c = Blank
        /\ i <= m => data = <<>> /\ sz = i /\ start = 0
        /\ i > m => data # <<>> /\ data[1] = Name(cmd)
    BY <1>0, InWordsIs
  <1>3. /\ Read' = Append(Read, c) /\ cmd' = cmd /\ i' = i + 1 /\ Len(Read) = i /\ c \in Alphabet
        /\ i' \in 0 .. Len(cmd) /\ i \in Nat
    BY <1>0, <1>1, ReadMore
  <1>4. /\ data' = data /\ sz' = sz + 1 /\ reading_string' = reading_string
        /\ start' = (IF sz = 0 THEN i ELSE start) /\ reading_escape' = reading_escape /\ str' = str
    BY DEF WordChar
  <1>5. sz \in Nat /\ start \in Nat
    BY <1>1 DEF CmdTypeOK
  <1>6. ~Done' /\ CmdTypeOK'
    <2>1. start' \in Nat /\ sz' \in Nat
      BY <1>3, <1>4, <1>5
    <2>2. data' \in Seq(Seq(Text))
      BY <1>1, <1>4
    <2> QED BY <1>1, <1>3, <1>4, <2>1, <2>2, NotYetDone DEF CmdTypeOK
  <1>7. NameInv'
    <2>1. CASE i < m
      <3>1. data' = <<>> /\ sz' = i' /\ start' = 0
        BY <1>2, <1>3, <1>4, <2>1
      <3>2. i' <= m
        BY <1>2, <1>3, <2>1
      <3> QED BY <1>1, <1>3, <1>4, <1>6, <3>1, <3>2 DEF NameInv
    <2>2. CASE i > m
      <3>1. ~(i' <= m)
        BY <1>2, <1>3, <2>2
      <3> QED BY <1>2, <1>3, <1>4, <2>2, <3>1 DEF NameInv
    <2>3. i # m
      BY <1>0, <1>2
    <2> QED BY <1>2, <1>3, <2>1, <2>2, <2>3
  <1>8. c \in Alphabet \ {Blank, Quote}
    BY <1>0, <1>3
  <1>9. Reads(Read)'
    <2>1. CASE sz = 0
      <3>1. PICK cuts, l : Between(Read, cuts, l, data)
        BY <1>1, <2>1 DEF Reads
      <3>2. PICK cuts2 : InWord(Append(Read, c), cuts2, Len(Read) + 1, data)
        BY <1>8, <3>1, BeginsWord
      <3>3. start' = i /\ sz' = 1 /\ start' + sz' = i'
        BY <1>3, <1>4, <2>1
      <3>4. InWord(Read', cuts2, start' + 1, data')
        BY <1>3, <1>4, <3>2, <3>3
      <3>5. sz' # 0
        BY <3>3
      <3> QED BY <1>1, <1>4, <3>3, <3>4, <3>5 DEF Reads
    <2>2. CASE sz # 0
      <3>1. PICK cuts : InWord(Read, cuts, start + 1, data) /\ start + sz = i
        BY <1>1, <2>2 DEF Reads
      <3>2. InWord(Append(Read, c), cuts, start + 1, data)
        BY <1>8, <3>1, GrowsWord
      <3>3. start' = start /\ start' + sz' = i' /\ sz' # 0
        BY <1>3, <1>4, <1>5, <2>2, <3>1
      <3>4. InWord(Read', cuts, start' + 1, data')
        BY <1>3, <1>4, <3>2, <3>3
      <3> QED BY <1>1, <1>4, <3>3, <3>4 DEF Reads
    <2> QED BY <2>1, <2>2
  <1> QED BY <1>6, <1>7, <1>9 DEF CmdInv, ReadsInv

LEMMA EndKeeps ==
  ASSUME CmdInv, End
  PROVE  CmdInv'
  <1>0. /\ ~Idle /\ ~Done /\ i = Len(cmd) /\ data' = Append(WithWord, null)
        /\ cmd' = cmd /\ i' = i /\ start' = start /\ sz' = sz /\ reading_string' = reading_string
        /\ reading_escape' = reading_escape /\ str' = str
    BY DEF End
  <1>1. CmdTypeOK /\ NameInv /\ Reads(Read) /\ cmd \in Seq(Alphabet) /\ cmd # <<>>
        /\ Name(cmd) \in Commands /\ i \in Nat /\ sz \in Nat
    BY <1>0 DEF CmdInv, ReadsInv, CmdTypeOK, Idle
  <1>2. Read = cmd
    BY <1>0, <1>1, SubSeqFull DEF Read
  <1>3. data \in Seq(Seq(Text))
    BY <1>0, <1>1, Unfinished
  <1>4. /\ WithWord \in Seq(Seq(Text)) /\ Parsed(cmd, data')
        /\ WithWord # <<>> /\ WithWord[1] = Name(cmd)
    <2>1. CASE reading_string = TRUE
      <3>1. sz = 0 /\ \E cuts, l : InText(cmd, cuts, l, data, reading_escape, str)
        BY <1>1, <1>2, <2>1 DEF Reads
      <3>2. WithWord = data
        BY <3>1 DEF WithWord
      <3>3. reading_escape \in BOOLEAN
        BY <1>1 DEF CmdTypeOK
      <3>4. PICK cuts, l : InText(cmd, cuts, l, data, FALSE, str) \/ InText(cmd, cuts, l, data, TRUE, str)
        BY <3>1, <3>3
      <3>5. Parsed(cmd, data')
        BY <1>0, <1>1, <1>3, <3>2, <3>4, ArgsParsed
      <3>6. data # <<>> /\ data[1] = Name(cmd)
        BY <1>0, <1>1, <2>1 DEF NameInv
      <3> QED BY <1>3, <3>2, <3>5, <3>6
    <2>2. CASE reading_string = FALSE
      <3>1. WithWord \in Seq(Seq(Text)) /\ \E cuts, l : Ready(Read, cuts, l, WithWord)
        BY <1>0, <1>1, <2>2, WordCopied
      <3>2. Parsed(cmd, data')
        BY <1>0, <1>1, <1>2, <3>1, ArgsParsed
      <3>3. WithWord # <<>> /\ WithWord[1] = Name(cmd)
        <4>1. Len(Name(cmd)) \in 1 .. Len(cmd) /\ Name(cmd) = SubSeq(cmd, 1, Len(Name(cmd)))
          BY <1>1, NameOfCommand
        <4>2. CASE i <= Len(Name(cmd))
          <5>1. data = <<>> /\ sz = i /\ start = 0
            BY <1>0, <1>1, <4>2 DEF NameInv
          <5>3. i > 0 /\ i = Len(Name(cmd))
            <6> DEFINE m == Len(Name(cmd))
            <6>1. m \in 1 .. i /\ i <= m
              BY <1>0, <4>1, <4>2
            <6> HIDE DEF m
            <6>2. i > 0 /\ i = m
              BY <1>1, <6>1
            <6> QED BY <6>2 DEF m
          <5>2. WithWord # <<>> /\ WithWord[1] = SubSeq(cmd, 1, i)
            BY <1>0, <1>1, <2>2, <5>1, <5>3, WordCopied
          <5> QED BY <4>1, <5>2, <5>3
        <4>3. CASE ~(i <= Len(Name(cmd)))
          <5>1. data # <<>> /\ data[1] = Name(cmd)
            BY <1>0, <1>1, <4>3 DEF NameInv
          <5> QED BY <1>0, <1>1, <2>2, <5>1, WordCopied
        <4> QED BY <4>2, <4>3
      <3> QED BY <3>1, <3>2, <3>3
    <2>3. reading_string \in BOOLEAN
      BY <1>1 DEF CmdTypeOK
    <2> QED BY <2>1, <2>2, <2>3
  <1> DEFINE d == WithWord
  <1> HIDE DEF d
  <1>5. /\ data' \in Seq(Seq(Text) \cup {null}) /\ data' # <<>>
        /\ \A n \in 1 .. Len(data') - 1 : data'[n] \in Seq(Text)
        /\ Last(data') = null /\ data'[1] = d[1]
    <2>1. d \in Seq(Seq(Text)) /\ null \in Seq(Text) \cup {null} /\ d # <<>> /\ data' = Append(d, null)
      BY <1>0, <1>4 DEF d
    <2> QED BY <2>1, ArgAdded
  <1>6. Done'
    BY <1>5 DEF Done
  <1>7. CmdTypeOK'
    BY <1>0, <1>1, <1>5 DEF CmdTypeOK
  <1>8. NameInv'
    BY <1>0, <1>4, <1>5, <1>6 DEF NameInv, d
  <1> QED BY <1>0, <1>4, <1>6, <1>7, <1>8 DEF CmdInv, ReadsInv, Idle

LEMMA EmptyBetween == Between(<<>>, {}, 0, <<>>)
  <1>1. Args(<<>>, {}) = {}
    BY DEF Args
  <1>2. Cardinality({}) = 0
    BY FS_EmptySet
  <1>3. Got(<<>>, {}, Args(<<>>, {}), <<>>)
    BY <1>1, <1>2 DEF Got
  <1>4. CutSoFar(<<>>, {}, 0)
    BY DEF CutSoFar
  <1> QED BY <1>3, <1>4 DEF Between, Ready

LEMMA ExecuteKeeps ==
  ASSUME CmdInv, NEW line \in Lines, Execute(line)
  PROVE  CmdInv'
  <1>1. /\ cmd' = line /\ line # <<>> /\ Name(line) \in Commands
        /\ i' = 0 /\ start' = 0 /\ sz' = 0
        /\ reading_string' = FALSE /\ reading_escape' = FALSE /\ str' = <<>> /\ data' = <<>>
    BY DEF Execute, Fresh
  <1>2. line \in Seq(Alphabet)
    BY CommandLineAssumption
  <1>3. data' \in Seq(Seq(Text))
    BY <1>1
  <1>4. ~Done' /\ CmdTypeOK'
    <2>1. i' \in 0 .. Len(cmd') /\ str' \in Seq(Text)
      BY <1>1, <1>2
    <2> QED BY <1>1, <1>2, <1>3, <2>1, NotYetDone DEF CmdTypeOK
  <1>5. NameInv'
    <2>1. Len(Name(line)) \in 1 .. Len(line)
      BY <1>1, <1>2, NameOfCommand
    <2>2. 0 <= Len(Name(line))
      BY <1>2, <2>1
    <2> QED BY <1>1, <1>4, <2>2 DEF NameInv
  <1>6. Reads(Read)'
    <2>1. Read' = <<>>
      BY <1>1, <1>2 DEF Read
    <2>2. Between(Read', {}, 0, data')
      BY <1>1, <2>1, EmptyBetween
    <2> QED BY <1>1, <2>2 DEF Reads
  <1> QED BY <1>4, <1>5, <1>6 DEF CmdInv, ReadsInv

LEMMA CmdStart == CmdInit => CmdInv
  <1> SUFFICES ASSUME CmdInit PROVE CmdInv
    OBVIOUS
  <1>1. Idle /\ ~Done
    BY DEF CmdInit, Idle, Done
  <1>2. CmdTypeOK
    <2>1. cmd = <<>> /\ i \in 0 .. Len(cmd) /\ cmd \in Seq(Alphabet) /\ str \in Seq(Text)
      BY DEF CmdInit
    <2>2. data \in Seq(Seq(Text) \cup {null}) /\ \A n \in 1 .. Len(data) - 1 : data[n] \in Seq(Text)
      BY DEF CmdInit
    <2> QED BY <2>1, <2>2 DEF CmdInit, CmdTypeOK
  <1> QED BY <1>1, <1>2 DEF CmdInv, ReadsInv, NameInv

LEMMA ReturnKeeps ==
  ASSUME CmdInv, Return
  PROVE  CmdInv'
  <1>1. /\ cmd' = <<>> /\ i' = 0 /\ start' = 0 /\ sz' = 0
        /\ reading_string' = FALSE /\ reading_escape' = FALSE /\ str' = <<>> /\ data' = <<>>
    BY DEF Return, Fresh
  <1>2. ~Done' /\ CmdTypeOK'
    <2>1. data' \in Seq(Seq(Text))
      BY <1>1
    <2>2. i' \in 0 .. Len(cmd') /\ str' \in Seq(Text) /\ cmd' \in Seq(Alphabet)
      BY <1>1
    <2> QED BY <1>1, <2>1, <2>2, NotYetDone DEF CmdTypeOK
  <1> QED BY <1>1, <1>2 DEF CmdInv, ReadsInv, NameInv, Idle

LEMMA SameKeeps ==
  ASSUME CmdInv, UNCHANGED <<cmd, i, start, sz, reading_string, reading_escape, str, data>>
  PROVE  CmdInv'
  <1>1. cmd' = cmd /\ i' = i /\ start' = start /\ sz' = sz /\ reading_string' = reading_string
        /\ reading_escape' = reading_escape /\ str' = str /\ data' = data
    OBVIOUS
  <1>2. Done' = Done /\ Idle' = Idle /\ Read' = Read
    BY <1>1 DEF Done, Idle, Read
  <1>3. CmdTypeOK' /\ NameInv'
    BY <1>1, <1>2 DEF CmdInv, CmdTypeOK, NameInv
  <1>4. ReadsInv'
    BY <1>1, <1>2 DEF CmdInv, ReadsInv, Reads
  <1> QED BY <1>1, <1>2, <1>3, <1>4 DEF CmdInv

LEMMA CmdStep == CmdInv /\ [CmdNext]_cmdVars => CmdInv'
  <1> SUFFICES ASSUME CmdInv, [CmdNext]_cmdVars PROVE CmdInv'
    OBVIOUS
  <1>1. ASSUME NEW line \in Lines, Execute(line) PROVE CmdInv'
    BY <1>1, ExecuteKeeps
  <1>2. CASE Escaped
    BY <1>2, EscapedKeeps
  <1>3. CASE EndString
    BY <1>3, EndStringKeeps
  <1>4. CASE StartEscape
    BY <1>4, StartEscapeKeeps
  <1>5. CASE StringChar
    BY <1>5, StringCharKeeps
  <1>6. CASE Separator
    BY <1>6, SeparatorKeeps
  <1>7. CASE WordChar
    BY <1>7, WordCharKeeps
  <1>8. CASE End
    BY <1>8, EndKeeps
  <1>9. CASE OpenFile
    BY <1>9, SameKeeps DEF OpenFile
  <1>10. CASE Return
    BY <1>10, ReturnKeeps
  <1>11. CASE UNCHANGED cmdVars
    BY <1>11, SameKeeps DEF cmdVars
  <1> QED BY <1>1, <1>2, <1>3, <1>4, <1>5, <1>6, <1>7, <1>8, <1>9, <1>10, <1>11 DEF CmdNext

\* Whatever line is entered, and whatever the table of commands and the escapes
\* are, a command gets the words and strings of its line, with their escapes
\* replaced, and its own name first (kshell.cpp:153-195, 208-230).
THEOREM ParsesWords == CmdSpec => []WordsParsed
  <1>1. CmdInv => WordsParsed
    <2> SUFFICES ASSUME CmdInv, Done PROVE WordsParsed
      BY DEF WordsParsed
    <2>1. Parsed(cmd, data) /\ NameInv /\ ~Idle
      BY DEF CmdInv
    <2>2. data[1] = Name(cmd)
      BY <2>1 DEF NameInv
    <2> QED BY <2>1, <2>2 DEF WordsParsed, Parsed
  <1> QED BY <1>1, CmdStart, CmdStep, PTL DEF CmdSpec

-----------------------------------------------------------------------------
(* String::explode, one character after another.                           *)

\* What holds at 0 and is passed on from each number to the next holds at all.
LEMMA Climb ==
  ASSUME NEW n \in Nat, NEW S, 0 \in S,
         \A k \in 0 .. n - 1 : k \in S => k + 1 \in S
  PROVE  \A k \in 0 .. n : k \in S
  <1> SUFFICES ASSUME {k \in 0 .. n : k \notin S} # {} PROVE FALSE
    OBVIOUS
  <1> DEFINE T == {k \in 0 .. n : k \notin S}
  <1>1. T \in SUBSET Nat /\ T # {}
    OBVIOUS
  <1> HIDE DEF T
  <1>2. PICK m \in T : \A k \in T : m <= k
    BY <1>1, NatLeast
  <1>3. m \in 0 .. n /\ m \notin S
    BY DEF T
  <1>4. m - 1 \in 0 .. n - 1 /\ m - 1 \notin T /\ m - 1 + 1 = m
    BY <1>2, <1>3
  <1>5. m - 1 \in S
    BY <1>4 DEF T
  <1> QED BY <1>3, <1>4, <1>5

\* Scanning d from base: h gives what the characters of each set of places leave.
Scans(h, k, base, d) ==
  h = [t \in SUBSET (1 .. k) |->
         IF t = {} THEN base ELSE Scan(d, h[t \ {Max(t)}], Max(t) - 1)]

LEMMA ScansExist ==
  ASSUME NEW n \in Nat, NEW base, NEW d
  PROVE  \E h : Scans(h, n, base, d)
  <1> DEFINE S == {k \in 0 .. n : \E h : Scans(h, k, base, d)}
  <1>1. 0 \in S
    <2> DEFINE h == [t \in SUBSET (1 .. 0) |-> base]
    <2>1. \A t \in SUBSET (1 .. 0) : t = {}
      OBVIOUS
    <2>2. Scans(h, 0, base, d)
      BY <2>1 DEF Scans
    <2> HIDE DEF h
    <2> QED BY <2>2
  <1>2. ASSUME NEW k \in 0 .. n - 1, k \in S PROVE k + 1 \in S
    <2>1. PICK g : Scans(g, k, base, d)
      BY <1>2
    <2> DEFINE h == [t \in SUBSET (1 .. k + 1) |->
                       IF k + 1 \in t THEN Scan(d, g[t \ {k + 1}], k) ELSE g[t]]
    <2>2. ASSUME NEW t \in SUBSET (1 .. k + 1)
          PROVE  h[t] = IF t = {} THEN base ELSE Scan(d, h[t \ {Max(t)}], Max(t) - 1)
      <3>1. CASE k + 1 \in t
        <4>1. \A j \in t : k + 1 >= j
          OBVIOUS
        <4>2. \A j \in t : (\A x \in t : j >= x) => j = k + 1
          BY <3>1
        <4>3. Max(t) = k + 1
          BY <3>1, <4>1, <4>2 DEF Max
        <4>4. t \ {k + 1} \in SUBSET (1 .. k + 1) /\ k + 1 \notin t \ {k + 1} /\ k + 1 - 1 = k
          OBVIOUS
        <4>5. h[t \ {k + 1}] = g[t \ {k + 1}]
          BY <4>4
        <4>6. h[t] = Scan(d, g[t \ {k + 1}], k)
          BY <3>1
        <4> HIDE DEF h
        <4> QED BY <3>1, <4>3, <4>4, <4>5, <4>6
      <3>2. CASE k + 1 \notin t
        <4>1. t \in SUBSET (1 .. k)
          BY <3>2
        <4>2. h[t] = g[t]
          BY <3>2
        <4>3. g[t] = IF t = {} THEN base ELSE Scan(d, g[t \ {Max(t)}], Max(t) - 1)
          BY <2>1, <4>1 DEF Scans
        <4>4. t \ {Max(t)} \in SUBSET (1 .. k + 1) /\ k + 1 \notin t \ {Max(t)}
          BY <3>2
        <4>5. h[t \ {Max(t)}] = g[t \ {Max(t)}]
          BY <4>4
        <4> HIDE DEF h
        <4> QED BY <4>2, <4>3, <4>5
      <3> QED BY <3>1, <3>2
    <2>3. Scans(h, k + 1, base, d)
      <3>1. h = [t \in SUBSET (1 .. k + 1) |-> h[t]]
        OBVIOUS
      <3> HIDE DEF h
      <3> QED BY <2>2, <3>1 DEF Scans
    <2> HIDE DEF h
    <2> QED BY <2>3
  <1> HIDE DEF S
  <1>3. \A k \in 0 .. n : k \in S
    BY <1>1, <1>2, Climb
  <1>4. n \in S
    BY <1>3
  <1> QED BY <1>4 DEF S

\* The states that the characters of d lead through.
Scanned(r, d) ==
  /\ r[0] = [piece |-> FALSE, start |-> 0, vec |-> <<>>]
  /\ \A k \in 1 .. Len(d) : r[k] = Scan(d, r[k - 1], k - 1)
  /\ Explode(d) = IF r[Len(d)].piece
                  THEN Append(r[Len(d)].vec, substr(d, r[Len(d)].start, Len(d) - r[Len(d)].start))
                  ELSE r[Len(d)].vec

LEMMA ScanRuns ==
  ASSUME NEW S, NEW d \in Seq(S)
  PROVE  \E r : Scanned(r, d)
  <1> DEFINE base == [piece |-> FALSE, start |-> 0, vec |-> <<>>]
             n == Len(d)
             s == [j \in DOMAIN d |-> j]
             h == CHOOSE h : h = [t \in SUBSET (DOMAIN s) |->
                    IF t = {} THEN base ELSE Scan(d, h[t \ {Max(t)}], s[Max(t)] - 1)]
  <1>1. DOMAIN s = 1 .. n /\ DOMAIN d = 1 .. n /\ n \in Nat /\ \A j \in 1 .. n : s[j] = j
    OBVIOUS
  <1>2. FoldLeftDomain(LAMBDA x, k : Scan(d, x, k - 1), base, d) = h[DOMAIN s]
    BY Zenon DEF FoldLeftDomain, FoldLeft, MapThenFoldSet
  <1> HIDE DEF base, s, n
  <1>m. ASSUME NEW t \in SUBSET (1 .. n), t # {} PROVE Max(t) \in t /\ s[Max(t)] = Max(t)
    <2>1. PICK m \in t : \A j \in t : m >= j
      <3> DEFINE T == {n - j : j \in t}
      <3>1. T \in SUBSET Nat /\ T # {}
        <4>1. \A j \in t : j \in 1 .. n /\ n - j \in Nat
          BY <1>1
        <4> QED BY <1>m, <4>1
      <3>2. PICK q \in T : \A j \in T : q <= j
        <4> HIDE DEF T
        <4> QED BY <3>1, NatLeast
      <3>3. PICK m \in t : q = n - m
        OBVIOUS
      <3>4. \A j \in t : n - m <= n - j
        BY <3>2, <3>3
      <3>5. \A j \in t : m >= j
        <4>1. \A j \in t : j \in 1 .. n
          OBVIOUS
        <4> QED BY <1>1, <3>4, <4>1
      <3> QED BY <3>5
    <2>2. Max(t) \in t
      BY <2>1 DEF Max
    <2> QED BY <1>1, <2>2
  <1>3. \E g : g = [t \in SUBSET (DOMAIN s) |->
                      IF t = {} THEN base ELSE Scan(d, g[t \ {Max(t)}], s[Max(t)] - 1)]
    <2> HIDE DEF h
    <2>1. PICK g : Scans(g, n, base, d)
      BY <1>1, ScansExist
    <2>2. g = [t \in SUBSET (1 .. n) |->
                 IF t = {} THEN base ELSE Scan(d, g[t \ {Max(t)}], Max(t) - 1)]
      BY <2>1 DEF Scans
    <2>3. g = [t \in SUBSET (1 .. n) |->
                 IF t = {} THEN base ELSE Scan(d, g[t \ {Max(t)}], s[Max(t)] - 1)]
      BY <1>m, <2>2
    <2> QED BY <1>1, <2>3, ZenonT(30)
  <1>4. h = [t \in SUBSET (DOMAIN s) |->
               IF t = {} THEN base ELSE Scan(d, h[t \ {Max(t)}], s[Max(t)] - 1)]
    BY <1>3, Zenon
  <1> HIDE DEF h
  <1>5. h[1 .. 0] = base
    BY <1>1, <1>4
  <1>6. ASSUME NEW k \in 1 .. n PROVE h[1 .. k] = Scan(d, h[1 .. k - 1], k - 1)
    <2>1. 1 .. k \in SUBSET (DOMAIN s) /\ k \in 1 .. k
      BY <1>1
    <2>2. \A j \in 1 .. k : (\A x \in 1 .. k : j >= x) => j = k
      BY <1>1
    <2>3. \A x \in 1 .. k : k >= x
      BY <1>1
    <2>4. Max(1 .. k) = k
      BY <2>1, <2>2, <2>3 DEF Max
    <2>5. (1 .. k) \ {k} = 1 .. k - 1
      BY <1>1
    <2>6. h[1 .. k] = Scan(d, h[(1 .. k) \ {Max(1 .. k)}], s[Max(1 .. k)] - 1)
      <3>1. 1 .. k # {}
        BY <2>1
      <3> QED BY <1>4, <2>1, <3>1
    <2>7. s[k] = k
      BY <1>1
    <2> QED BY <2>4, <2>5, <2>6, <2>7
  <1> DEFINE r == [k \in 0 .. n |-> h[1 .. k]]
  <1>7. r[0] = base /\ r[n] = h[DOMAIN s]
    <2>1. 0 \in 0 .. n /\ n \in 0 .. n
      BY <1>1
    <2> QED BY <1>1, <1>5, <2>1
  <1>8. \A k \in 1 .. n : r[k] = Scan(d, r[k - 1], k - 1)
    <2> TAKE k \in 1 .. n
    <2>1. k \in 0 .. n /\ k - 1 \in 0 .. n
      BY <1>1
    <2> QED BY <1>6, <2>1
  <1>9. Scanned(r, d)
    <2> HIDE DEF r
    <2>1. FoldLeftDomain(LAMBDA x, k : Scan(d, x, k - 1), base, d) = r[Len(d)]
      BY <1>2, <1>7 DEF n
    <2>2. Explode(d) = IF r[Len(d)].piece
                  THEN Append(r[Len(d)].vec, substr(d, r[Len(d)].start, Len(d) - r[Len(d)].start))
                  ELSE r[Len(d)].vec
      BY <2>1 DEF Explode, base
    <2> QED BY <1>7, <1>8, <2>2 DEF Scanned, base, n
  <1> HIDE DEF r
  <1> QED BY <1>9

-----------------------------------------------------------------------------
(* The runs of a path, and the file it leads to.                           *)

\* The runs that end before the k-th character
RunsTo(d, k) == {r \in PathRuns(d) : r[2] < k}

\* A run from the character behind the first "from" ones
RunFrom(d, from, k) ==
  /\ from \in 0 .. k - 1 /\ \A j \in from + 1 .. k : d[j] # Slash
  /\ from = 0 \/ d[from] = Slash

ScanInv(d, k, s) ==
  /\ s \in [piece : BOOLEAN, start : Nat, vec : Seq(Seq(Text))]
  /\ Len(s.vec) = Cardinality(RunsTo(d, k))
  /\ IF s.piece THEN RunFrom(d, s.start, k) ELSE k = 0 \/ d[k] = Slash

LEMMA RunsFinite ==
  ASSUME NEW d \in Seq(Text), NEW k
  PROVE  IsFiniteSet(RunsTo(d, k)) /\ IsFiniteSet(PathRuns(d)) /\ RunsTo(d, k) \in SUBSET PathRuns(d)
         /\ PathRuns(d) \in SUBSET ((1 .. Len(d)) \X (1 .. Len(d)))
  <1>1. IsFiniteSet(1 .. Len(d)) /\ DOMAIN d = 1 .. Len(d)
    BY FS_Interval
  <1>2. IsFiniteSet((1 .. Len(d)) \X (1 .. Len(d)))
    BY <1>1, FS_Product
  <1>3. PathRuns(d) \in SUBSET ((1 .. Len(d)) \X (1 .. Len(d)))
    BY <1>1 DEF PathRuns
  <1>4. RunsTo(d, k) \in SUBSET PathRuns(d)
    BY DEF RunsTo
  <1>5. IsFiniteSet(PathRuns(d))
    BY <1>2, <1>3, FS_Subset
  <1>6. IsFiniteSet(RunsTo(d, k))
    BY <1>4, <1>5, FS_Subset
  <1> QED BY <1>3, <1>4, <1>5, <1>6

\* A run that is known from its beginning is the only one that ends there.
LEMMA RunIs ==
  ASSUME NEW d \in Seq(Text), NEW k \in 1 .. Len(d), NEW from, RunFrom(d, from, k),
         k = Len(d) \/ d[k + 1] = Slash
  PROVE  /\ <<from + 1, k>> \in PathRuns(d)
         /\ \A r \in PathRuns(d) : r[2] = k => r = <<from + 1, k>>
  <1>1. from \in 0 .. k - 1 /\ (\A j \in from + 1 .. k : d[j] # Slash) /\ (from = 0 \/ d[from] = Slash)
        /\ Len(d) \in Nat /\ DOMAIN d = 1 .. Len(d)
    BY DEF RunFrom
  <1> DEFINE a == from + 1
             q == <<a, k>>
  <1>k. Len(d) \in Nat /\ k \in Nat /\ 1 <= k /\ k <= Len(d)
    OBVIOUS
  <1>f. from \in 0 .. k - 1
    BY DEF RunFrom
  <1>n. from \in Nat /\ k \in Nat /\ from <= k - 1 /\ 1 <= k /\ k <= Len(d) /\ Len(d) \in Nat
    BY <1>k, <1>f
  <1>a. a \in Nat /\ 1 <= a /\ a <= k /\ a - 1 = from /\ (a = 1 <=> from = 0) /\ from + 1 = a
    BY <1>n
  <1>b. (\A j \in a .. k : d[j] # Slash) /\ (a = 1 \/ d[a - 1] = Slash)
    BY <1>1, <1>a
  <1> HIDE DEF a
  <1>2. q \in PathRuns(d)
    <2>1. q[1] = a /\ q[2] = k
      OBVIOUS
    <2>2. a \in 1 .. Len(d) /\ k \in 1 .. Len(d) /\ a <= k
      BY <1>n, <1>a
    <2>3. q \in (DOMAIN d) \X (DOMAIN d)
      BY <1>1, <2>2
    <2> HIDE DEF q
    <2> QED BY <1>b, <2>1, <2>2, <2>3 DEF PathRuns
  <1>3. ASSUME NEW r \in PathRuns(d), r[2] = k PROVE r = q
    <2>1. r \in (1 .. Len(d)) \X (1 .. Len(d)) /\ r[1] <= r[2] /\ (\A j \in r[1] .. r[2] : d[j] # Slash)
          /\ (r[1] = 1 \/ d[r[1] - 1] = Slash)
      BY <1>1 DEF PathRuns
    <2> DEFINE b == r[1]
    <2>0. b \in 1 .. Len(d)
      BY <2>1
    <2>n. b \in Nat /\ 1 <= b
      BY <1>n, <2>0
    <2>2. r = <<b, k>> /\ b <= k /\ (\A j \in b .. k : d[j] # Slash)
          /\ (b = 1 \/ d[b - 1] = Slash)
      BY <1>3, <2>1
    <2> HIDE DEF b
    <2>3. ~(b > a)
      <3>1. b > a => b - 1 \in a .. k /\ b # 1
        BY <1>n, <1>a, <2>n, <2>2
      <3> QED BY <1>b, <2>2, <3>1
    <2>4. ~(b < a)
      <3>1. b < a => from \in b .. k /\ from # 0
        BY <1>n, <1>a, <2>n
      <3> QED BY <1>1, <2>2, <3>1
    <2>5. b = a
      BY <1>a, <2>n, <2>3, <2>4
    <2> QED BY <2>2, <2>5
  <1> QED BY <1>2, <1>3 DEF a

LEMMA substrIs ==
  ASSUME NEW d \in Seq(Text), NEW from \in 0 .. Len(d), NEW n \in 0 .. Len(d) - from
  PROVE  substr(d, from, n) = SubSeq(d, 1, n) /\ substr(d, from, n) \in Seq(Text)
  <1>1. Len(d) \in Nat /\ ~(from > Len(d))
    OBVIOUS
  <1>2. (IF n < Len(d) - from THEN n ELSE Len(d) - from) = n
    OBVIOUS
  <1>3. SubSeq(d, 1, n) \in Seq(Text)
    OBVIOUS
  <1> QED BY <1>1, <1>2, <1>3 DEF substr

LEMMA ScanKeeps ==
  ASSUME NEW d \in Seq(Text), NEW k \in 0 .. Len(d) - 1, NEW s, ScanInv(d, k, s)
  PROVE  ScanInv(d, k + 1, Scan(d, s, k))
  <1> DEFINE s2 == Scan(d, s, k)
  <1>1. /\ s \in [piece : BOOLEAN, start : Nat, vec : Seq(Seq(Text))]
        /\ Len(s.vec) = Cardinality(RunsTo(d, k))
        /\ s.piece => RunFrom(d, s.start, k)
        /\ ~s.piece => k = 0 \/ d[k] = Slash
    BY DEF ScanInv
  <1>2. k + 1 \in 1 .. Len(d) /\ Len(d) \in Nat /\ k \in Nat
    OBVIOUS
  <1>3. ASSUME NEW r \in PathRuns(d)
        PROVE  /\ r[2] \in 1 .. Len(d) /\ r[1] \in 1 .. r[2] /\ d[r[2]] # Slash
               /\ r[2] < k + 1 <=> (r[2] < k \/ r[2] = k)
               /\ r[2] = k => d[k + 1] = Slash
    <2>1. r \in (1 .. Len(d)) \X (1 .. Len(d)) /\ r[1] <= r[2] /\ (\A j \in r[1] .. r[2] : d[j] # Slash)
          /\ (r[2] = Len(d) \/ d[r[2] + 1] = Slash)
      BY DEF PathRuns
    <2>2. r[2] \in 1 .. Len(d) /\ r[1] \in 1 .. Len(d)
      BY <2>1
    <2> QED BY <1>2, <2>1, <2>2
  <1>4. CASE d[k + 1] # Slash
    <2>1. s2 = [s EXCEPT !.piece = TRUE, !.start = IF s.piece THEN @ ELSE k]
      BY <1>4 DEF Scan
    <2>2. s2 \in [piece : BOOLEAN, start : Nat, vec : Seq(Seq(Text))] /\ s2.piece = TRUE
          /\ s2.vec = s.vec /\ s2.start = IF s.piece THEN s.start ELSE k
      BY <1>1, <1>2, <2>1
    <2> HIDE DEF s2
    <2>3. RunsTo(d, k + 1) = RunsTo(d, k)
      BY <1>3, <1>4 DEF RunsTo
    <2>4. RunFrom(d, s2.start, k + 1)
      <3>1. CASE s.piece
        <4>1. s2.start = s.start /\ RunFrom(d, s.start, k)
          BY <1>1, <2>2, <3>1
        <4>2. s.start \in 0 .. k - 1 /\ s.start + 1 .. k + 1 = (s.start + 1 .. k) \cup {k + 1}
          BY <1>2, <4>1 DEF RunFrom
        <4>3. \A j \in s.start + 1 .. k + 1 : d[j] # Slash
          BY <1>4, <4>1, <4>2 DEF RunFrom
        <4> QED BY <1>2, <4>1, <4>2, <4>3 DEF RunFrom
      <3>2. CASE ~s.piece
        <4>1. s2.start = k /\ (k = 0 \/ d[k] = Slash)
          BY <1>1, <2>2, <3>2
        <4>2. \A j \in k + 1 .. k + 1 : j = k + 1
          BY <1>2
        <4> QED BY <1>2, <1>4, <4>1, <4>2 DEF RunFrom
      <3> QED BY <3>1, <3>2
    <2>5. ScanInv(d, k + 1, s2)
      BY <1>1, <2>2, <2>3, <2>4 DEF ScanInv
    <2> QED BY <2>5 DEF s2
  <1>5. CASE d[k + 1] = Slash /\ s.piece
    <2> DEFINE x == substr(d, s.start, k - s.start)
               q == <<s.start + 1, k>>
    <2>0. s.start \in 0 .. k - 1 /\ RunFrom(d, s.start, k)
      BY <1>1, <1>5 DEF RunFrom
    <2>1. x \in Seq(Text)
      <3>1. s.start \in 0 .. Len(d) /\ k - s.start \in 0 .. Len(d) - s.start
        BY <1>2, <2>0
      <3> QED BY <3>1, substrIs
    <2>2. s2 = [s EXCEPT !.piece = FALSE, !.vec = Append(@, x)]
      BY <1>5 DEF Scan
    <2> HIDE DEF x
    <2>v. s.vec \in Seq(Seq(Text)) /\ s.start \in Nat
      BY <1>1
    <2>w. Append(s.vec, x) \in Seq(Seq(Text)) /\ Len(Append(s.vec, x)) = Len(s.vec) + 1
      BY <2>1, <2>v
    <2>y. s2.piece = FALSE /\ s2.vec = Append(s.vec, x) /\ s2.start = s.start
          /\ s2 = [piece |-> s2.piece, start |-> s2.start, vec |-> s2.vec]
      BY <1>1, <2>2
    <2>3. s2 \in [piece : BOOLEAN, start : Nat, vec : Seq(Seq(Text))] /\ s2.piece = FALSE
          /\ s2.vec = Append(s.vec, x) /\ Len(s2.vec) = Len(s.vec) + 1
      BY <2>v, <2>w, <2>y
    <2> HIDE DEF s2
    <2>4. k \in 1 .. Len(d)
      BY <1>2, <2>0
    <2>5. q \in PathRuns(d) /\ (\A r \in PathRuns(d) : r[2] = k => r = q) /\ q[2] = k
      BY <1>5, <2>0, <2>4, RunIs
    <2> HIDE DEF q
    <2>6. RunsTo(d, k + 1) = RunsTo(d, k) \cup {q} /\ q \notin RunsTo(d, k)
      BY <1>2, <1>3, <2>5 DEF RunsTo
    <2>7. Cardinality(RunsTo(d, k + 1)) = Cardinality(RunsTo(d, k)) + 1
      BY <2>6, RunsFinite, FS_AddElement
    <2>8. ScanInv(d, k + 1, s2)
      BY <1>1, <1>5, <2>3, <2>7 DEF ScanInv
    <2> QED BY <2>8 DEF s2
  <1>6. CASE d[k + 1] = Slash /\ ~s.piece
    <2>1. s2 = s
      BY <1>6 DEF Scan
    <2>2. RunsTo(d, k + 1) = RunsTo(d, k)
      <3>1. \A r \in PathRuns(d) : r[2] # k
        BY <1>1, <1>2, <1>3, <1>6
      <3> QED BY <1>3, <3>1 DEF RunsTo
    <2>3. ScanInv(d, k + 1, s)
      BY <1>1, <1>6, <2>2 DEF ScanInv
    <2> QED BY <2>1, <2>3
  <1> QED BY <1>1, <1>4, <1>5, <1>6

LEMMA ScansPath ==
  ASSUME NEW d \in Seq(Text), NEW r, Scanned(r, d)
  PROVE  \A k \in 0 .. Len(d) : ScanInv(d, k, r[k])
  <1> DEFINE n == Len(d)
             S == {k \in 0 .. n : ScanInv(d, k, r[k])}
  <1>1. n \in Nat /\ r[0] = [piece |-> FALSE, start |-> 0, vec |-> <<>>]
        /\ \A k \in 1 .. n : r[k] = Scan(d, r[k - 1], k - 1)
    BY DEF Scanned
  <1>2. 0 \in S
    <2>1. RunsTo(d, 0) = {}
      <3>1. \A x \in PathRuns(d) : x[2] \in 1 .. n
        BY DEF PathRuns
      <3> QED BY <1>1, <3>1 DEF RunsTo
    <2>2. Cardinality(RunsTo(d, 0)) = 0
      BY <2>1, FS_EmptySet
    <2>3. r[0].piece = FALSE /\ r[0].vec = <<>>
          /\ r[0] \in [piece : BOOLEAN, start : Nat, vec : Seq(Seq(Text))]
      BY <1>1
    <2>4. ScanInv(d, 0, r[0])
      BY <2>2, <2>3 DEF ScanInv
    <2> QED BY <1>1, <2>4
  <1>3. ASSUME NEW k \in 0 .. n - 1, k \in S PROVE k + 1 \in S
    <2>1. k + 1 \in 1 .. n /\ (k + 1) - 1 = k /\ k + 1 \in 0 .. n
      BY <1>1
    <2>2. r[k + 1] = Scan(d, r[k], k)
      BY <1>1, <2>1
    <2>3. ScanInv(d, k + 1, Scan(d, r[k], k))
      BY <1>3, ScanKeeps
    <2> QED BY <2>1, <2>2, <2>3
  <1> HIDE DEF S
  <1>4. \A k \in 0 .. n : k \in S
    BY <1>1, <1>2, <1>3, Climb
  <1> QED BY <1>4 DEF S

\* The pieces of a path that does not end in a separator are its runs; a piece
\* that is alone has the length of its run.
ExplodesInto(d, x) ==
  /\ x \in Seq(Seq(Text)) /\ Len(x) = Cardinality(PathRuns(d)) /\ PathRuns(d) # {} /\ x # <<>>
  /\ Len(x) = 1 => \A q \in PathRuns(d) : Len(x[1]) = q[2] - q[1] + 1 /\ (q[1] = 1 => x[1] = d)

LEMMA ExplodeIs ==
  ASSUME NEW d \in Seq(Text), d # <<>>, Last(d) # Slash
  PROVE  ExplodesInto(d, Explode(d))
  <1> DEFINE n == Len(d)
  <1>1. PICK r : Scanned(r, d)
    BY ScanRuns
  <1> DEFINE s == r[n]
             f == s.start
             p == substr(d, f, n - f)
             x == Append(s.vec, p)
             q == <<f + 1, n>>
  <1>2. n \in 1 .. n /\ n \in Nat /\ n \in 0 .. n /\ d[n] # Slash /\ DOMAIN d = 1 .. n
    BY DEF Last
  <1>3. ScanInv(d, n, s)
    BY <1>1, <1>2, ScansPath
  <1>4. s.piece /\ s.vec \in Seq(Seq(Text)) /\ Len(s.vec) = Cardinality(RunsTo(d, n)) /\ RunFrom(d, f, n)
    <2> HIDE DEF s
    <2> QED BY <1>2, <1>3 DEF ScanInv
  <1>5. Explode(d) = x
    BY <1>1, <1>4 DEF Scanned
  <1>6. f \in 0 .. n - 1
    BY <1>4 DEF RunFrom
  <1> HIDE DEF s, f
  <1>7. p = SubSeq(d, 1, n - f) /\ p \in Seq(Text)
    <2>1. f \in 0 .. Len(d) /\ n - f \in 0 .. Len(d) - f
      BY <1>2, <1>6
    <2> QED BY <2>1, substrIs
  <1>8. Len(p) = n - f /\ (f = 0 => p = d)
    <2>1. n - f \in 0 .. n
      BY <1>2, <1>6
    <2> HIDE DEF p
    <2> QED BY <1>2, <1>7, <2>1
  <1> HIDE DEF p
  <1>9. q \in PathRuns(d) /\ \A t \in PathRuns(d) : t[2] = n => t = q
    BY <1>2, <1>4, RunIs
  <1>10. q[1] = f + 1 /\ q[2] = n
    OBVIOUS
  <1> HIDE DEF q
  <1>11. PathRuns(d) = RunsTo(d, n) \cup {q} /\ q \notin RunsTo(d, n)
    <2>1. \A t \in PathRuns(d) : t[2] \in 1 .. n
      BY <1>2 DEF PathRuns
    <2>2. \A t \in PathRuns(d) : t[2] < n \/ t[2] = n
      BY <1>2, <2>1
    <2> QED BY <1>2, <1>9, <1>10, <2>2 DEF RunsTo
  <1>12. Cardinality(PathRuns(d)) = Cardinality(RunsTo(d, n)) + 1 /\ Cardinality(RunsTo(d, n)) \in Nat
    BY <1>11, RunsFinite, FS_AddElement, FS_CardinalityType
  <1>13. x \in Seq(Seq(Text)) /\ Len(x) = Len(s.vec) + 1 /\ x[Len(s.vec) + 1] = p
    BY <1>4, <1>7
  <1> HIDE DEF x
  <1>l. Len(s.vec) \in Nat
    BY <1>4
  <1>14. Len(x) = Cardinality(PathRuns(d)) /\ x # <<>>
    BY <1>4, <1>12, <1>13
  <1>15. ASSUME Len(x) = 1, NEW t \in PathRuns(d)
         PROVE  Len(x[1]) = t[2] - t[1] + 1 /\ (t[1] = 1 => x[1] = d)
    <2>1. Cardinality(RunsTo(d, n)) = 0 /\ x[1] = p
      <3> DEFINE m == Len(s.vec)
      <3>0. Len(x) = m + 1 /\ m \in Nat
        BY <1>l, <1>13
      <3> HIDE DEF m
      <3>m. m = 0
        BY <1>15, <3>0
      <3>1. Len(s.vec) = 0
        BY <3>m DEF m
      <3> QED BY <1>4, <1>13, <3>1
    <2>2. t = q
      BY <1>11, <1>15, <2>1, RunsFinite, FS_EmptySet
    <2> QED BY <1>2, <1>6, <1>8, <1>10, <2>1, <2>2
  <1>16. ExplodesInto(d, x)
    BY <1>9, <1>13, <1>14, <1>15 DEF ExplodesInto
  <1> QED BY <1>5, <1>16

LEMMA ExplodeEmpty == Explode(<<>>) = <<>>
  <1> DEFINE d == <<>>
  <1>1. d \in Seq(Text) /\ Len(d) = 0
    OBVIOUS
  <1> HIDE DEF d
  <1>2. PICK r : Scanned(r, d)
    BY <1>1, ScanRuns
  <1>3. r[0] = [piece |-> FALSE, start |-> 0, vec |-> <<>>] /\ Explode(d) =
          IF r[0].piece THEN Append(r[0].vec, substr(d, r[0].start, Len(d) - r[0].start)) ELSE r[0].vec
    BY <1>1, <1>2 DEF Scanned
  <1>4. r[0].piece = FALSE /\ r[0].vec = <<>>
    BY <1>3
  <1>5. Explode(d) = <<>>
    BY <1>3, <1>4
  <1> QED BY <1>5 DEF d

\* What a path leads to in the file system.
Leads(path, o) ==
  LET one == PathRuns(path) # {} /\ Cardinality(PathRuns(path)) = 1 /\ Last(path) # Slash
  IN  /\ o = Fault <=> path = <<>>
      /\ o \notin {Fault, Refused} <=> one
      /\ one => \A r \in PathRuns(path) :
                  /\ Len(o) = r[2] - r[1] + 1
                  /\ r[1] = 1 => o = path

LEMMA PathLeads ==
  ASSUME NEW path \in Seq(Text)
  PROVE  Leads(path, resolveFilePath(path))
  <1>0. Refused # Fault
    BY CommandLineAssumption, FourApart
  <1>1. CASE path = <<>>
    <2>1. PathRuns(path) = {}
      <3>1. DOMAIN path = {}
        BY <1>1
      <3> QED BY <3>1 DEF PathRuns
    <2>2. resolveFilePath(path) = Fault
      BY <1>1, ExplodeEmpty DEF resolveFilePath
    <2> QED BY <1>1, <2>1, <2>2 DEF Leads
  <1>2. CASE path # <<>> /\ Last(path) = Slash
    BY <1>0, <1>2 DEF resolveFilePath, Leads
  <1>3. CASE path # <<>> /\ Last(path) # Slash
    <2> DEFINE x == Explode(path)
    <2>1. ExplodesInto(path, x)
      BY <1>3, ExplodeIs
    <2>2. resolveFilePath(path) = IF Len(x) > 1 THEN Refused ELSE x[1]
      BY <1>3, <2>1 DEF resolveFilePath, ExplodesInto
    <2> HIDE DEF x
    <2>3. x \in Seq(Seq(Text)) /\ Len(x) = Cardinality(PathRuns(path))
          /\ PathRuns(path) # {} /\ Len(x) \in Nat /\ Len(x) # 0
      BY <2>1 DEF ExplodesInto
    <2>4. CASE Len(x) > 1
      <3>1. Len(x) # 1
        BY <2>3, <2>4
      <3> QED BY <1>0, <1>3, <2>2, <2>3, <2>4, <3>1 DEF Leads
    <2>5. CASE ~(Len(x) > 1)
      <3>1. Len(x) = 1 /\ x[1] \in Seq(Text)
        BY <2>3, <2>5
      <3>2. x[1] # Fault /\ x[1] # Refused
        BY <3>1, Marks
      <3>3. resolveFilePath(path) = x[1]
        BY <2>2, <2>5
      <3>4. \A q \in PathRuns(path) : Len(x[1]) = q[2] - q[1] + 1 /\ (q[1] = 1 => x[1] = path)
        BY <2>1, <3>1 DEF ExplodesInto
      <3>5. Leads(path, x[1])
        BY <1>3, <2>3, <3>1, <3>2, <3>4 DEF Leads
      <3> QED BY <3>3, <3>5
    <2> QED BY <2>4, <2>5
  <1> QED BY <1>1, <1>2, <1>3

\* What tedit makes of a path: one too long for a file name is not looked up.
Opens(path, o) ==
  LET one == /\ Len(path) <= filename_max
             /\ PathRuns(path) # {} /\ Cardinality(PathRuns(path)) = 1
             /\ Last(path) # Slash
  IN  /\ o = Fault <=> path = <<>>
      /\ o \notin {Fault, Refused} <=> one
      /\ one => \A r \in PathRuns(path) :
                  /\ Len(o) = r[2] - r[1] + 1
                  /\ r[1] = 1 => o = path

LEMMA PathOpens ==
  ASSUME NEW path \in Seq(Text)
  PROVE  Opens(path, Looked(path))
  <1>1. CASE Len(path) > filename_max
    <2>1. filename_max \in Nat /\ Len(path) \in Nat
      BY CommandLineAssumption
    <2>2. path # <<>> /\ ~(Len(path) <= filename_max)
      BY <1>1, <2>1
    <2>3. Looked(path) = Refused
      BY <1>1 DEF Looked
    <2>4. Refused # Fault
      BY CommandLineAssumption, FourApart
    <2> QED BY <2>2, <2>3, <2>4 DEF Opens
  <1>2. CASE ~(Len(path) > filename_max)
    <2>1. filename_max \in Nat /\ Len(path) \in Nat
      BY CommandLineAssumption
    <2>2. Len(path) <= filename_max
      BY <1>2, <2>1
    <2>3. Looked(path) = resolveFilePath(path)
      BY <1>2 DEF Looked
    <2>4. Leads(path, Looked(path))
      BY <2>3, PathLeads
    <2> QED BY <2>2, <2>4 DEF Leads, Opens
  <1> QED BY <1>1, <1>2

\* The only argument behind the name was looked up.
OpenInv ==
  opened # NotYet => Done /\ data[2] \in Seq(Text) /\ opened = Looked(data[2])

LEMMA OpenStep == CmdInv /\ OpenInv /\ [CmdNext]_cmdVars => OpenInv'
  <1> SUFFICES ASSUME CmdInv, OpenInv, [CmdNext]_cmdVars PROVE OpenInv'
    OBVIOUS
  <1>1. ASSUME NEW line \in Lines, Execute(line) PROVE OpenInv'
    BY <1>1 DEF Execute, Fresh, OpenInv
  <1>2. CASE Return
    BY <1>2 DEF Return, Fresh, OpenInv
  <1>3. CASE OpenFile
    <2>1. Done /\ argc = 2 /\ opened' = Looked(data[2]) /\ data' = data
      BY <1>3 DEF OpenFile
    <2>2. data[2] \in Seq(Text)
      <3>1. data \in Seq(Seq(Text) \cup {null}) /\ (\A n \in 1 .. Len(data) - 1 : data[n] \in Seq(Text))
            /\ Len(data) - 1 = 2
        BY <2>1 DEF CmdInv, CmdTypeOK, argc
      <3> QED BY <3>1, SMTT(30)
    <2>3. Done'
      BY <2>1 DEF Done
    <2> QED BY <2>1, <2>2, <2>3 DEF OpenInv
  <1>4. CASE opened' = opened /\ ~Done
    BY <1>4 DEF OpenInv
  <1>5. CASE UNCHANGED cmdVars
    BY <1>5 DEF cmdVars, OpenInv, Done
  <1>6. Escaped \/ EndString \/ StartEscape \/ StringChar \/ Separator \/ WordChar \/ End
          => opened' = opened /\ ~Done
    BY DEF Escaped, EndString, StartEscape, StringChar, Separator, WordChar, End,
           Step, Reading, InString, InWords
  <1> QED BY <1>1, <1>2, <1>3, <1>4, <1>5, <1>6 DEF CmdNext

\* Whatever the argument of tedit is, only the empty one halts the kernel, one
\* that is too long, has more pieces or ends in a separator names no file, and the
\* name of the file it opens is as long as its piece (tedit_main.cpp:12-23,
\* string.cpp:153-194, vfs.cpp:32-47).
THEOREM OpensOnePiece == CmdSpec => []OnePieceOpens
  <1>1. CmdInit => OpenInv
    BY DEF CmdInit, OpenInv
  <1>2. CmdInv /\ OpenInv => OnePieceOpens
    <2> SUFFICES ASSUME OpenInv, opened # NotYet PROVE OnePieceOpens
      BY DEF OnePieceOpens
    <2>1. Opens(data[2], opened)
      BY PathOpens DEF OpenInv
    <2> QED BY <2>1 DEF OnePieceOpens, Opens
  <1> QED BY <1>1, <1>2, CmdStart, CmdStep, OpenStep, PTL DEF CmdSpec
=============================================================================
