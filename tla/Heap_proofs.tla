----------------------------- MODULE Heap_proofs -----------------------------
(***************************************************************************)
(* The kernel heap, for every page size, every number of pages and every   *)
(* request size: majors and minors never overlap, a client owns what it    *)
(* got, the accounts are exact, and the heap grows only when it must.      *)
(***************************************************************************)
EXTENDS Heap, FiniteSetTheorems, FunctionTheorems, SequenceTheorems, WellFoundedInduction, TLAPS

-----------------------------------------------------------------------------
(* The natural numbers.                                                    *)

\* A set of naturals that is not empty has a least element.
LEMMA Least ==
  ASSUME NEW S, S \subseteq Nat, S # {}
  PROVE  /\ \E m \in S : \A x \in S : m <= x
         /\ Min(S) \in S /\ \A x \in S : Min(S) <= x
  <1> DEFINE R == OpToRel(<, Nat)
  <1>1. IsWellFoundedOn(R, Nat)
    BY NatLessThanWellFounded
  <1>2. PICK m \in S : \A y \in S : ~ (<<y, m>> \in R)
    <2> HIDE DEF R
    <2> QED BY <1>1, WFMin
  <1>3. \A y \in S : ~ (y < m)
    BY <1>2 DEF OpToRel
  <1>4. \A x \in S : m <= x
    BY <1>3
  <1> QED BY <1>4 DEF Min

\* Induction, over a set.
LEMMA Induct ==
  ASSUME NEW S, 0 \in S, \A n \in Nat : n \in S => n + 1 \in S
  PROVE  \A n \in Nat : n \in S
  <1> DEFINE T == Nat \ S
  <1> SUFFICES ASSUME T # {} PROVE FALSE
    OBVIOUS
  <1>1. PICK m \in T : \A x \in T : m <= x
    <2>1. T \subseteq Nat
      OBVIOUS
    <2> HIDE DEF T
    <2> QED BY <2>1, Least
  <1>2. m - 1 \in Nat /\ m - 1 \notin T
    BY <1>1
  <1>3. m \in S
    BY <1>2
  <1> QED BY <1>1, <1>3

-----------------------------------------------------------------------------
(* Sums.                                                                   *)

\* The running sums of s.
Running(s, u) == u = [i \in 0 .. Len(s) |-> IF i = 0 THEN 0 ELSE u[i - 1] + s[i]]

\* Every sequence has running sums.
LEMMA RunningExists ==
  ASSUME NEW s, Len(s) \in Nat
  PROVE  \E u : Running(s, u)
  <1> DEFINE Upto(n, u) == u = [i \in 0 .. n |-> IF i = 0 THEN 0 ELSE u[i - 1] + s[i]]
             S == {n \in Nat : \E u : Upto(n, u)}
  <1>1. 0 \in S
    <2>1. Upto(0, [i \in 0 .. 0 |-> 0])
      OBVIOUS
    <2> QED BY <2>1
  <1>2. ASSUME NEW n \in Nat, n \in S PROVE n + 1 \in S
    <2>1. PICK u : Upto(n, u)
      BY <1>2
    <2> DEFINE w == [i \in 0 .. n + 1 |-> IF i = n + 1 THEN u[n] + s[n + 1] ELSE u[i]]
    <2>2. Upto(n + 1, w)
      <3> SUFFICES ASSUME NEW i \in 0 .. n + 1
                   PROVE  w[i] = IF i = 0 THEN 0 ELSE w[i - 1] + s[i]
        OBVIOUS
      <3>1. CASE i = n + 1
        BY <3>1
      <3>2. CASE i \in 0 .. n
        BY <3>2, <2>1
      <3> QED BY <3>1, <3>2
    <2> HIDE DEF Upto, w
    <2> QED BY <2>2
  <1>3. Len(s) \in S
    <2> HIDE DEF S
    <2> QED BY <1>1, <1>2, Induct
  <1> QED BY <1>3 DEF Running

\* The total is the last of the running sums.
LEMMA TotalIs ==
  ASSUME NEW s, Len(s) \in Nat, NEW u, Running(s, u)
  PROVE  Total(s) = u[Len(s)]
  <1>1. ASSUME NEW g, Running(s, g) PROVE g = u
    <2> DEFINE S == {n \in Nat : n <= Len(s) => g[n] = u[n]}
    <2>1. 0 \in S
      BY <1>1 DEF Running
    <2>2. ASSUME NEW n \in Nat, n \in S PROVE n + 1 \in S
      BY <1>1, <2>2 DEF Running
    <2>3. \A n \in Nat : n \in S
      <3> HIDE DEF S
      <3> QED BY <2>1, <2>2, Induct
    <2>4. \A n \in 0 .. Len(s) : g[n] = u[n]
      BY <2>3
    <2> QED BY <1>1, <2>4 DEF Running
  <1>2. (CHOOSE g : Running(s, g)) = u
    BY <1>1
  <1>3. Total(s) = (CHOOSE g : Running(s, g))[Len(s)]
    BY DEF Total, Running
  <1> QED BY <1>2, <1>3

\* Running sums, unfolded.
LEMMA RunningSteps ==
  ASSUME NEW s, Len(s) \in Nat, NEW u, Running(s, u)
  PROVE  u[0] = 0 /\ \A i \in 1 .. Len(s) : u[i] = u[i - 1] + s[i]
  BY DEF Running

\* Sums of integers are integers.
LEMMA RunningInt ==
  ASSUME NEW s, Len(s) \in Nat, \A i \in 1 .. Len(s) : s[i] \in Int, NEW u, Running(s, u)
  PROVE  \A i \in 0 .. Len(s) : u[i] \in Int
  <1>1. u[0] = 0 /\ \A i \in 1 .. Len(s) : u[i] = u[i - 1] + s[i]
    BY RunningSteps
  <1> DEFINE S == {n \in Nat : n <= Len(s) => u[n] \in Int}
  <1>2. 0 \in S
    BY <1>1
  <1>3. ASSUME NEW n \in Nat, n \in S PROVE n + 1 \in S
    <2>1. n + 1 <= Len(s) => u[n + 1] = u[n] + s[n + 1] /\ s[n + 1] \in Int
      BY <1>1
    <2> QED BY <1>3, <2>1
  <1>4. \A n \in Nat : n \in S
    <2> HIDE DEF S
    <2> QED BY <1>2, <1>3, Induct
  <1> QED BY <1>4

\* A sum of naturals is a natural.
LEMMA TotalNat ==
  ASSUME NEW s, Len(s) \in Nat, \A i \in 1 .. Len(s) : s[i] \in Nat
  PROVE  /\ Total(s) \in Nat
         /\ \E u : /\ Running(s, u) /\ Total(s) = u[Len(s)]
                   /\ \A i \in 0 .. Len(s) : u[i] \in Nat
  <1>1. PICK u : Running(s, u)
    BY RunningExists
  <1>2. u[0] = 0 /\ \A i \in 1 .. Len(s) : u[i] = u[i - 1] + s[i]
    BY <1>1, RunningSteps
  <1> DEFINE S == {n \in Nat : n <= Len(s) => u[n] \in Nat}
  <1>3. 0 \in S
    BY <1>2
  <1>4. ASSUME NEW n \in Nat, n \in S PROVE n + 1 \in S
    <2>1. n + 1 <= Len(s) => u[n + 1] = u[n] + s[n + 1] /\ s[n + 1] \in Nat
      BY <1>2
    <2> QED BY <1>4, <2>1
  <1>5. \A n \in Nat : n \in S
    <2> HIDE DEF S
    <2> QED BY <1>3, <1>4, Induct
  <1>6. \A i \in 0 .. Len(s) : u[i] \in Nat
    BY <1>5
  <1> QED BY <1>1, <1>6, TotalIs

\* t is s with x put in at place k.
Inserted(s, t, k, x) ==
  /\ Len(t) = Len(s) + 1 /\ k \in 1 .. Len(t) /\ t[k] = x
  /\ \A i \in 1 .. Len(s) : t[IF i < k THEN i ELSE i + 1] = s[i]

\* An element put in, or taken out, changes the sum by its value.
LEMMA TotalInsert ==
  ASSUME NEW s, Len(s) \in Nat, \A i \in 1 .. Len(s) : s[i] \in Int,
         NEW t, NEW k, NEW x \in Int, Inserted(s, t, k, x)
  PROVE  Total(t) = Total(s) + x
  <1>1. PICK u : Running(s, u)
    BY RunningExists
  <1>2. u[0] = 0 /\ \A i \in 1 .. Len(s) : u[i] = u[i - 1] + s[i]
    BY <1>1, RunningSteps
  <1>3. \A i \in 0 .. Len(s) : u[i] \in Int
    BY <1>1, RunningInt
  <1>4. Len(t) = Len(s) + 1 /\ Len(t) \in Nat /\ k \in 1 .. Len(t) /\ t[k] = x
    BY DEF Inserted
  <1>5. ASSUME NEW i \in 1 .. Len(t)
        PROVE  /\ i < k => t[i] = s[i] /\ i \in 1 .. Len(s)
               /\ i > k => t[i] = s[i - 1] /\ i - 1 \in 1 .. Len(s)
    <2>1. CASE i < k
      <3>1. i \in 1 .. Len(s)
        BY <2>1, <1>4
      <3> QED BY <2>1, <3>1 DEF Inserted
    <2>2. CASE i > k
      <3>1. i - 1 \in 1 .. Len(s) /\ ~(i - 1 < k)
        BY <2>2, <1>4
      <3>2. PICK l \in 1 .. Len(s) : l = i - 1
        BY <3>1
      <3>3. t[i] = s[i - 1]
        <4>1. t[l + 1] = s[l]
          BY <3>1, <3>2 DEF Inserted
        <4>2. l + 1 = i
          BY <3>2
        <4> QED BY <4>1, <4>2, <3>2
      <3> QED BY <2>2, <3>1, <3>3, <1>4
    <2>3. CASE i = k
      BY <2>3, <1>4
    <2> QED BY <2>1, <2>2, <2>3, <1>4
  <1> DEFINE w == [i \in 0 .. Len(t) |-> IF i < k THEN u[i] ELSE u[i - 1] + x]
  <1>6. Running(t, w)
    <2> SUFFICES ASSUME NEW i \in 0 .. Len(t)
                 PROVE  w[i] = IF i = 0 THEN 0 ELSE w[i - 1] + t[i]
      BY DEF Running
    <2>0. \A j \in 0 .. Len(t) : w[j] = IF j < k THEN u[j] ELSE u[j - 1] + x
      OBVIOUS
    <2> HIDE DEF w
    <2>1. CASE i = 0
      BY <2>0, <2>1, <1>2, <1>4
    <2>2. CASE i # 0 /\ i < k
      <3>1. w[i] = u[i] /\ w[i - 1] = u[i - 1] /\ u[i] = u[i - 1] + s[i]
        BY <2>0, <2>2, <1>2, <1>4, <1>5
      <3> QED BY <3>1, <2>2, <1>5
    <2>3. CASE i = k
      <3>1. w[i] = u[i - 1] + x /\ w[i - 1] = u[i - 1]
        BY <2>0, <2>3, <1>4
      <3> QED BY <3>1, <2>3, <1>4
    <2>4. CASE i > k
      <3>1. w[i] = u[i - 1] + x /\ w[i - 1] = u[i - 2] + x
        BY <2>0, <2>4, <1>4
      <3>2. t[i] = s[i - 1] /\ i - 1 \in 1 .. Len(s)
        BY <2>4, <1>4, <1>5
      <3>3. u[i - 1] = u[(i - 1) - 1] + s[i - 1]
        BY <3>2, <1>2
      <3>4. u[i - 2] \in Int /\ s[i - 1] \in Int /\ i # 0 /\ (i - 1) - 1 = i - 2
        BY <3>2, <1>3
      <3> QED BY <3>1, <3>2, <3>3, <3>4
    <2> QED BY <2>1, <2>2, <2>3, <2>4, <1>4
  <1>7. Total(t) = w[Len(t)] /\ Total(s) = u[Len(s)]
    BY <1>1, <1>4, <1>6, TotalIs
  <1>8. w[Len(t)] = u[Len(s)] + x
    <2>1. CASE k = Len(t)
      BY <2>1, <1>4
    <2>2. CASE k < Len(t)
      BY <2>2, <1>4
    <2> QED BY <2>1, <2>2, <1>4
  <1> QED BY <1>7, <1>8

\* An element that is replaced changes the sum by the difference.
LEMMA TotalReplace ==
  ASSUME NEW s, Len(s) \in Nat, \A i \in 1 .. Len(s) : s[i] \in Int,
         NEW t, Len(t) = Len(s), NEW k \in 1 .. Len(s), t[k] \in Int,
         \A i \in 1 .. Len(s) : i # k => t[i] = s[i]
  PROVE  Total(t) = Total(s) - s[k] + t[k]
  <1> DEFINE n == Len(s) - 1
             r == [i \in 1 .. n |-> s[IF i < k THEN i ELSE i + 1]]
  <1>1. n \in Nat
    OBVIOUS
  <1>2. Len(r) = n /\ \A i \in 1 .. n : r[i] = s[IF i < k THEN i ELSE i + 1] /\ r[i] \in Int
    <2>1. \A i \in 1 .. n : r[i] = s[IF i < k THEN i ELSE i + 1] /\ r[i] \in Int
      OBVIOUS
    <2>2. r \in Seq(Int) /\ Len(r) = n
      <3>1. r = [i \in 1 .. n |-> r[i]]
        OBVIOUS
      <3> HIDE DEF r
      <3> QED BY <1>1, <2>1, <3>1, IsASeq
    <2> QED BY <2>1, <2>2
  <1> HIDE DEF r
  <1>3. Inserted(r, s, k, s[k])
    <2>1. Len(s) = Len(r) + 1
      BY <1>1, <1>2
    <2> QED BY <1>2, <2>1 DEF Inserted
  <1>4. Inserted(r, t, k, t[k])
    <2>1. Len(t) = Len(r) + 1
      BY <1>1, <1>2
    <2>2. \A i \in 1 .. n : LET j == IF i < k THEN i ELSE i + 1 IN j \in 1 .. Len(s) /\ j # k
      OBVIOUS
    <2> QED BY <1>2, <2>1, <2>2 DEF Inserted
  <1>5. Total(s) = Total(r) + s[k] /\ Total(t) = Total(r) + t[k]
    BY <1>1, <1>2, <1>3, <1>4, TotalInsert
  <1>6. Total(r) \in Int
    <2>1. PICK u : Running(r, u)
      BY <1>1, <1>2, RunningExists
    <2>2. u[Len(r)] \in Int
      BY <2>1, <1>1, <1>2, RunningInt
    <2> QED BY <2>1, <2>2, <1>1, <1>2, TotalIs
  <1> QED BY <1>5, <1>6

-----------------------------------------------------------------------------
(* Chains, as sequences.                                                   *)

\* InsertAt puts x in at place k and moves the elements from there up.
LEMMA InsertAtFacts ==
  ASSUME NEW S, NEW s \in Seq(S), NEW k \in 1 .. Len(s) + 1, NEW x \in S
  PROVE  LET t == InsertAt(s, k, x) IN
           /\ t \in Seq(S) /\ Len(t) = Len(s) + 1 /\ t[k] = x
           /\ \A i \in 1 .. Len(t) :
                t[i] = IF i < k THEN s[i] ELSE IF i = k THEN x ELSE s[i - 1]
           /\ \A i \in 1 .. Len(s) : t[IF i < k THEN i ELSE i + 1] = s[i]
  <1> DEFINE a == SubSeq(s, 1, k - 1)
             b == SubSeq(s, k, Len(s))
             t == InsertAt(s, k, x)
  <1>1. Len(s) \in Nat /\ k \in Nat /\ \A i \in 1 .. Len(s) : s[i] \in S
    BY LenProperties, ElementOfSeq
  <1>2. a \in Seq(S) /\ Len(a) = k - 1 /\ \A i \in 1 .. k - 1 : a[i] = s[i]
    BY <1>1, SubSeqProperties
  <1>3. b \in Seq(S) /\ Len(b) = Len(s) - k + 1 /\ \A i \in 1 .. Len(s) - k + 1 : b[i] = s[k + i - 1]
    BY <1>1, SubSeqProperties
  <1>4. t = (a \o <<x>>) \o b
    BY DEF InsertAt
  <1>5. <<x>> \in Seq(S) /\ Len(<<x>>) = 1 /\ <<x>>[1] = x
    OBVIOUS
  <1> HIDE DEF a, b, t
  <1> DEFINE c == a \o <<x>>
  <1>6. c \in Seq(S) /\ Len(c) = k /\ \A i \in 1 .. k : c[i] = IF i < k THEN s[i] ELSE x
    <2>1. /\ c \in Seq(S) /\ Len(c) = Len(a) + 1
          /\ \A i \in 1 .. Len(a) + 1 : c[i] = IF i <= Len(a) THEN a[i] ELSE <<x>>[i - Len(a)]
      BY <1>2, <1>5, ConcatProperties
    <2> HIDE DEF c
    <2> QED BY <2>1, <1>1, <1>2, <1>5
  <1> HIDE DEF c
  <1>7. /\ t \in Seq(S) /\ Len(t) = Len(c) + Len(b)
        /\ \A i \in 1 .. Len(c) + Len(b) : t[i] = IF i <= Len(c) THEN c[i] ELSE b[i - Len(c)]
    <2>1. t = c \o b
      BY <1>4 DEF c
    <2> QED BY <2>1, <1>3, <1>6, ConcatProperties
  <1>8. Len(t) = Len(s) + 1
    BY <1>1, <1>3, <1>6, <1>7
  <1>9. \A i \in 1 .. Len(t) : t[i] = IF i < k THEN s[i] ELSE IF i = k THEN x ELSE s[i - 1]
    <2> TAKE i \in 1 .. Len(t)
    <2>1. CASE i <= k
      BY <2>1, <1>1, <1>3, <1>6, <1>7
    <2>2. CASE i > k
      <3>1. t[i] = b[i - k] /\ i - k \in 1 .. Len(s) - k + 1
        BY <2>2, <1>1, <1>3, <1>6, <1>7
      <3>2. k + (i - k) - 1 = i - 1
        BY <1>1
      <3>3. t[i] = s[i - 1]
        BY <3>1, <3>2, <1>3
      <3> QED BY <2>2, <3>3, <1>1
    <2> QED BY <2>1, <2>2, <1>1
  <1>10. ASSUME NEW i \in 1 .. Len(s)
         PROVE  t[IF i < k THEN i ELSE i + 1] = s[i]
    <2>1. CASE i < k
      <3>1. i \in 1 .. Len(t)
        BY <1>1, <1>8
      <3> QED BY <2>1, <3>1, <1>9
    <2>2. CASE ~(i < k)
      <3>1. i + 1 \in 1 .. Len(t) /\ ~(i + 1 < k) /\ i + 1 # k /\ (i + 1) - 1 = i
        BY <2>2, <1>1, <1>8
      <3> QED BY <2>2, <3>1, <1>9
    <2> QED BY <2>1, <2>2
  <1>11. t[k] = x
    BY <1>1, <1>8, <1>9
  <1> QED BY <1>7, <1>8, <1>9, <1>10, <1>11 DEF t

\* RemoveAt takes the element at place k out and moves those after it down.
LEMMA RemoveAtFacts ==
  ASSUME NEW S, NEW s \in Seq(S), NEW k \in 1 .. Len(s)
  PROVE  LET t == RemoveAt(s, k) IN
           /\ t \in Seq(S) /\ Len(t) = Len(s) - 1
           /\ \A i \in 1 .. Len(t) : t[i] = s[IF i < k THEN i ELSE i + 1]
  <1> DEFINE a == SubSeq(s, 1, k - 1)
             b == SubSeq(s, k + 1, Len(s))
             t == RemoveAt(s, k)
  <1>1. Len(s) \in Nat /\ k \in Nat /\ \A i \in 1 .. Len(s) : s[i] \in S
    BY LenProperties, ElementOfSeq
  <1>2. a \in Seq(S) /\ Len(a) = k - 1 /\ \A i \in 1 .. k - 1 : a[i] = s[i]
    BY <1>1, SubSeqProperties
  <1>3. b \in Seq(S) /\ Len(b) = Len(s) - k /\ \A i \in 1 .. Len(s) - k : b[i] = s[k + i]
    <2>1. /\ b \in Seq(S) /\ Len(b) = IF k + 1 <= Len(s) THEN Len(s) - (k + 1) + 1 ELSE 0
          /\ \A i \in 1 .. Len(s) - (k + 1) + 1 : b[i] = s[(k + 1) + i - 1]
      BY <1>1, SubSeqProperties
    <2>2. Len(b) = Len(s) - k
      BY <1>1, <2>1
    <2>3. ASSUME NEW i \in 1 .. Len(s) - k PROVE b[i] = s[k + i]
      <3>1. i \in 1 .. Len(s) - (k + 1) + 1 /\ (k + 1) + i - 1 = k + i
        BY <1>1
      <3> QED BY <2>1, <3>1
    <2> QED BY <2>1, <2>2, <2>3
  <1>4. t = a \o b
    BY DEF RemoveAt
  <1> HIDE DEF a, b, t
  <1>5. /\ t \in Seq(S) /\ Len(t) = Len(a) + Len(b)
        /\ \A i \in 1 .. Len(a) + Len(b) : t[i] = IF i <= Len(a) THEN a[i] ELSE b[i - Len(a)]
    BY <1>2, <1>3, <1>4, ConcatProperties
  <1>6. Len(t) = Len(s) - 1
    BY <1>1, <1>2, <1>3, <1>5
  <1>7. ASSUME NEW i \in 1 .. Len(t) PROVE t[i] = s[IF i < k THEN i ELSE i + 1]
    <2>1. CASE i < k
      BY <2>1, <1>1, <1>2, <1>5, <1>6
    <2>2. CASE ~(i < k)
      <3>1. t[i] = b[i - (k - 1)] /\ i - (k - 1) \in 1 .. Len(s) - k
        BY <2>2, <1>1, <1>2, <1>3, <1>5, <1>6
      <3>2. k + (i - (k - 1)) = i + 1
        BY <1>1, <1>6
      <3>3. t[i] = s[i + 1]
        BY <3>1, <3>2, <1>3
      <3> QED BY <2>2, <3>3
    <2> QED BY <2>1, <2>2
  <1> QED BY <1>5, <1>6, <1>7 DEF t

-----------------------------------------------------------------------------
(* One major.                                                              *)

Minor == [off : Nat, size : Nat, req_size : Nat]

End(m) == m.pages * PageSize

\* A major in order: its minors lie inside it, in their order, with room for what
\* was asked and the alignment, and its usage is what they take.
Major(m) ==
  /\ m \in MajorType
  /\ \A j \in 1 .. Len(m.minors) :
       /\ H <= m.minors[j].off
       /\ m.minors[j].off + h + m.minors[j].size <= End(m)
       /\ m.minors[j].req_size + ALIGNMENT + ALIGN_INFO <= m.minors[j].size
       /\ \A k \in 1 .. Len(m.minors) :
            j < k => m.minors[j].off + h + m.minors[j].size <= m.minors[k].off
  /\ m.usage = H + Total(Charged(m))

\* The client's view of a minor, and of all minors of a major.
Block(m, min) == [p |-> Pointer(m, min), n |-> min.req_size]

Blocks(m) == {Block(m, m.minors[j]) : j \in 1 .. Len(m.minors)}

LEMMA MajorFacts ==
  ASSUME NEW m, m \in MajorType
  PROVE  /\ m.page \in Nat /\ m.pages \in Nat /\ 1 <= m.pages /\ m.usage \in Nat
         /\ m.page \in 0 .. NumPages - 1 /\ m.pages \in 1 .. NumPages
         /\ End(m) \in Nat /\ m.page * PageSize \in Nat
         /\ m.minors \in Seq(Minor) /\ Len(m.minors) \in Nat
         /\ \A j \in 1 .. Len(m.minors) :
              /\ m.minors[j] \in Minor
              /\ m.minors[j].off \in Nat /\ m.minors[j].size \in Nat
              /\ m.minors[j].req_size \in Nat
         /\ m = [page |-> m.page, pages |-> m.pages, usage |-> m.usage, minors |-> m.minors]
  <1>1. /\ m.page \in Nat /\ m.pages \in Nat /\ 1 <= m.pages /\ m.usage \in Nat
        /\ m.page \in 0 .. NumPages - 1 /\ m.pages \in 1 .. NumPages
        /\ m.minors \in Seq(Minor)
        /\ m = [page |-> m.page, pages |-> m.pages, usage |-> m.usage, minors |-> m.minors]
    BY HeapAssumption DEF MajorType, Minor
  <1>2. /\ Len(m.minors) \in Nat
        /\ \A j \in 1 .. Len(m.minors) : m.minors[j] \in Minor
    BY <1>1, LenProperties, ElementOfSeq
  <1>3. End(m) \in Nat /\ m.page * PageSize \in Nat
    BY <1>1, HeapAssumption DEF End
  <1> QED BY <1>1, <1>2, <1>3 DEF Minor

\* What Charged and Taken sum.
LEMMA ChargedFacts ==
  ASSUME NEW m, m \in MajorType
  PROVE  /\ Len(Charged(m)) = Len(m.minors) /\ Len(Taken(m)) = Len(m.minors)
         /\ \A j \in 1 .. Len(m.minors) :
              /\ Charged(m)[j] = m.minors[j].size + h /\ Charged(m)[j] \in Nat
              /\ Taken(m)[j] = m.minors[j].size /\ Taken(m)[j] \in Nat
         /\ Total(Charged(m)) \in Nat /\ Total(Taken(m)) \in Nat
  <1>1. /\ Len(m.minors) \in Nat
        /\ \A j \in 1 .. Len(m.minors) : m.minors[j].size \in Nat /\ m.minors[j].size + h \in Nat
    BY MajorFacts DEF h
  <1>2. Charged(m) \in Seq(Nat) /\ Len(Charged(m)) = Len(m.minors)
    BY <1>1, IsASeq DEF Charged
  <1>3. Taken(m) \in Seq(Nat) /\ Len(Taken(m)) = Len(m.minors)
    BY <1>1, IsASeq DEF Taken
  <1>4. \A j \in 1 .. Len(m.minors) :
              /\ Charged(m)[j] = m.minors[j].size + h /\ Charged(m)[j] \in Nat
              /\ Taken(m)[j] = m.minors[j].size /\ Taken(m)[j] \in Nat
    BY <1>1 DEF Charged, Taken
  <1> QED BY <1>1, <1>2, <1>3, <1>4, TotalNat

\* ALIGN: the address is even and at most one unit above where it may start.
LEMMA PointerFacts ==
  ASSUME NEW m, m \in MajorType, NEW min \in Minor
  PROVE  LET a == m.page * PageSize + min.off + h + ALIGN_INFO IN
           /\ a \in Nat /\ Pointer(m, min) \in Nat
           /\ a <= Pointer(m, min) /\ Pointer(m, min) <= a + 1
           /\ Pointer(m, min) % ALIGNMENT = 0
  <1> DEFINE a == m.page * PageSize + min.off + h + ALIGN_INFO
  <1>1. a \in Nat
    BY MajorFacts, SMTT(30) DEF Minor, h, ALIGN_INFO
  <1>2. Pointer(m, min) = a + ((ALIGNMENT - (a % ALIGNMENT)) % ALIGNMENT)
    BY DEF Pointer
  <1> HIDE DEF a
  <1>3. /\ a <= Pointer(m, min) /\ Pointer(m, min) <= a + 1 /\ Pointer(m, min) \in Nat
        /\ Pointer(m, min) % ALIGNMENT = 0
    BY <1>1, <1>2 DEF ALIGNMENT
  <1> QED BY <1>1, <1>3 DEF a

\* The address lies in the payload of its minor, with room for what was asked.
LEMMA PointerInside ==
  ASSUME NEW m, Major(m), NEW j \in 1 .. Len(m.minors)
  PROVE  LET min == m.minors[j]
             base == m.page * PageSize
             p == Pointer(m, min)
         IN  /\ base + min.off + h + ALIGN_INFO <= p
             /\ p + min.req_size <= base + min.off + h + min.size - 1
             /\ p \in Nat /\ p % ALIGNMENT = 0 /\ base <= p /\ p < base + End(m)
  <1> DEFINE min == m.minors[j]
             base == m.page * PageSize
             p == Pointer(m, min)
  <1>1. /\ min \in Minor /\ m \in MajorType /\ base \in Nat /\ End(m) \in Nat
        /\ min.off \in Nat /\ min.size \in Nat /\ min.req_size \in Nat
    BY MajorFacts DEF Major
  <1>2. /\ min.off + h + min.size <= End(m)
        /\ min.req_size + ALIGNMENT + ALIGN_INFO <= min.size
    BY DEF Major
  <1>3. /\ base + min.off + h + ALIGN_INFO <= p /\ p <= base + min.off + h + ALIGN_INFO + 1
        /\ p \in Nat /\ p % ALIGNMENT = 0
    BY <1>1, PointerFacts
  <1> HIDE DEF base, min, p
  <1>4. /\ p + min.req_size <= base + min.off + h + min.size - 1
        /\ base <= p /\ p < base + End(m)
    <2>1. \A b, o, s, r, e, q \in Nat :
            /\ o + h + s <= e /\ r + ALIGNMENT + ALIGN_INFO <= s
            /\ b + o + h + ALIGN_INFO <= q /\ q <= b + o + h + ALIGN_INFO + 1
            => q + r <= b + o + h + s - 1 /\ b <= q /\ q < b + e
      BY DEF h, ALIGNMENT, ALIGN_INFO
    <2> QED BY <1>1, <1>2, <1>3, <2>1
  <1> QED BY <1>3, <1>4 DEF base, min, p

\* Two minors of a major have two addresses.
LEMMA PointersDiffer ==
  ASSUME NEW m, Major(m), NEW j \in 1 .. Len(m.minors), NEW k \in 1 .. Len(m.minors),
         Pointer(m, m.minors[j]) = Pointer(m, m.minors[k])
  PROVE  j = k
  <1>1. /\ m \in MajorType /\ m.page * PageSize \in Nat
        /\ m.minors[j].off \in Nat /\ m.minors[j].size \in Nat /\ m.minors[j].req_size \in Nat
        /\ m.minors[k].off \in Nat /\ m.minors[k].size \in Nat /\ m.minors[k].req_size \in Nat
    BY MajorFacts DEF Major
  <1>2. j < k => m.minors[j].off + h + m.minors[j].size <= m.minors[k].off
    BY DEF Major
  <1>3. k < j => m.minors[k].off + h + m.minors[k].size <= m.minors[j].off
    BY DEF Major
  <1> DEFINE base == m.page * PageSize
             p == Pointer(m, m.minors[j])
             q == Pointer(m, m.minors[k])
  <1>4. /\ base + m.minors[j].off + h + ALIGN_INFO <= p
        /\ p + m.minors[j].req_size <= base + m.minors[j].off + h + m.minors[j].size - 1
        /\ p \in Nat
    BY PointerInside
  <1>5. /\ base + m.minors[k].off + h + ALIGN_INFO <= q
        /\ q + m.minors[k].req_size <= base + m.minors[k].off + h + m.minors[k].size - 1
        /\ q \in Nat
    BY PointerInside
  <1>6. p = q
    OBVIOUS
  <1> HIDE DEF base, p, q
  <1>7. \A b, y, o1, s1, r1, o2, s2, r2 \in Nat :
          /\ b + o1 + h + ALIGN_INFO <= y /\ y + r1 <= b + o1 + h + s1 - 1
          /\ b + o2 + h + ALIGN_INFO <= y /\ y + r2 <= b + o2 + h + s2 - 1
          => ~(o1 + h + s1 <= o2) /\ ~(o2 + h + s2 <= o1)
    BY DEF h, ALIGN_INFO
  <1>8. base \in Nat
    BY <1>1 DEF base
  <1>9. ~(j < k) /\ ~(k < j)
    <2> DEFINE s == m.minors[j]
               t == m.minors[k]
    <2>1. /\ base \in Nat /\ q \in Nat /\ s.off \in Nat /\ s.size \in Nat /\ s.req_size \in Nat
          /\ t.off \in Nat /\ t.size \in Nat /\ t.req_size \in Nat
          /\ base + s.off + h + ALIGN_INFO <= q /\ q + s.req_size <= base + s.off + h + s.size - 1
          /\ base + t.off + h + ALIGN_INFO <= q /\ q + t.req_size <= base + t.off + h + t.size - 1
          /\ j < k => s.off + h + s.size <= t.off
          /\ k < j => t.off + h + t.size <= s.off
      BY <1>1, <1>2, <1>3, <1>4, <1>5, <1>6, <1>8
    <2> HIDE DEF s, t
    <2>2. ~(s.off + h + s.size <= t.off) /\ ~(t.off + h + t.size <= s.off)
      <3> HIDE DEF h, ALIGN_INFO
      <3> QED BY <2>1, <1>7
    <2> QED BY <2>1, <2>2
  <1> QED BY <1>9, <1>1, MajorFacts

\* Where a gap starts and ends, in a major in order.
LEMMA GapFacts ==
  ASSUME NEW m, Major(m), NEW i \in 0 .. Len(m.minors)
  PROVE  /\ GapStart(m, i) \in Nat /\ GapEnd(m, i) \in Nat
         /\ H <= GapStart(m, i) /\ GapEnd(m, i) <= End(m)
         /\ \A j \in 1 .. Len(m.minors) :
              IF j <= i THEN m.minors[j].off + h + m.minors[j].size <= GapStart(m, i)
              ELSE GapEnd(m, i) <= m.minors[j].off
  <1>1. m \in MajorType /\ End(m) \in Nat /\ Len(m.minors) \in Nat
    BY MajorFacts DEF Major
  <1>2. ASSUME NEW j \in 1 .. Len(m.minors)
        PROVE  m.minors[j].off \in Nat /\ m.minors[j].size \in Nat
    BY <1>1, MajorFacts
  <1>3. /\ GapStart(m, i) \in Nat /\ H <= GapStart(m, i)
        /\ \A j \in 1 .. Len(m.minors) :
             j <= i => m.minors[j].off + h + m.minors[j].size <= GapStart(m, i)
    <2>1. CASE i = 0
      BY <2>1 DEF GapStart, H
    <2>2. CASE i # 0
      <3>1. i \in 1 .. Len(m.minors) /\ GapStart(m, i) = m.minors[i].off + h + m.minors[i].size
        BY <2>2, <1>1 DEF GapStart
      <3>2. H <= m.minors[i].off
        BY <3>1 DEF Major
      <3>3. ASSUME NEW j \in 1 .. Len(m.minors), j <= i
            PROVE  m.minors[j].off + h + m.minors[j].size <= GapStart(m, i)
        <4>1. CASE j = i
          BY <4>1, <3>1, <1>2 DEF h
        <4>2. CASE j < i
          <5>1. m.minors[j].off + h + m.minors[j].size <= m.minors[i].off
            BY <4>2, <3>1 DEF Major
          <5>2. \A a, b, c, d \in Nat : a + h + b <= c => a + h + b <= c + h + d
            BY DEF h
          <5> QED BY <5>1, <5>2, <3>1, <1>2
        <4> QED BY <4>1, <4>2, <3>3
      <3> QED BY <3>1, <3>2, <3>3, <1>2, SMTT(30) DEF h, H
    <2> QED BY <2>1, <2>2
  <1>4. /\ GapEnd(m, i) \in Nat /\ GapEnd(m, i) <= End(m)
        /\ \A j \in 1 .. Len(m.minors) : j > i => GapEnd(m, i) <= m.minors[j].off
    <2>1. CASE i = Len(m.minors)
      BY <2>1, <1>1 DEF GapEnd, End
    <2>2. CASE i # Len(m.minors)
      <3>1. i + 1 \in 1 .. Len(m.minors) /\ GapEnd(m, i) = m.minors[i + 1].off
        BY <2>2, <1>1 DEF GapEnd
      <3>2. m.minors[i + 1].off + h + m.minors[i + 1].size <= End(m)
        BY <3>1 DEF Major
      <3>3. ASSUME NEW j \in 1 .. Len(m.minors), j > i
            PROVE  GapEnd(m, i) <= m.minors[j].off
        <4>1. CASE j = i + 1
          BY <4>1, <3>1, <1>2
        <4>2. CASE i + 1 < j
          <5>1. m.minors[i + 1].off + h + m.minors[i + 1].size <= m.minors[j].off
            BY <4>2, <3>1 DEF Major
          <5>2. \A a, b, c \in Nat : a + h + b <= c => a <= c
            BY DEF h
          <5> QED BY <5>1, <5>2, <3>1, <1>2
        <4> QED BY <4>1, <4>2, <3>3, <1>1
      <3>4. \A a, b, e \in Nat : a + h + b <= e => a <= e
        BY DEF h
      <3>5. GapEnd(m, i) \in Nat /\ GapEnd(m, i) <= End(m)
        BY <3>1, <3>2, <3>4, <1>1, <1>2
      <3> QED BY <3>3, <3>5
    <2> QED BY <2>1, <2>2
  <1> QED BY <1>1, <1>3, <1>4

\* No gap ends before it starts.
LEMMA GapOrder ==
  ASSUME NEW m, Major(m), m.minors # <<>>, NEW j \in 0 .. Len(m.minors)
  PROVE  GapStart(m, j) <= GapEnd(m, j)
  <1>1. /\ m \in MajorType /\ Len(m.minors) \in Nat /\ m.minors \in Seq(Minor)
        /\ \A k \in 1 .. Len(m.minors) : m.minors[k].off \in Nat /\ m.minors[k].size \in Nat
    BY MajorFacts DEF Major
  <1>2. Len(m.minors) # 0
    BY <1>1, EmptySeq
  <1>3. CASE j = 0
    <2>1. 1 \in 1 .. Len(m.minors) /\ GapEnd(m, j) = m.minors[1].off /\ GapStart(m, j) = H
      BY <1>1, <1>2, <1>3 DEF GapEnd, GapStart
    <2> QED BY <2>1 DEF Major
  <1>4. CASE j # 0 /\ j = Len(m.minors)
    <2>1. /\ j \in 1 .. Len(m.minors) /\ GapEnd(m, j) = End(m)
          /\ GapStart(m, j) = m.minors[j].off + h + m.minors[j].size
      BY <1>4 DEF GapEnd, GapStart, End
    <2> QED BY <2>1 DEF Major
  <1>5. CASE j # 0 /\ j # Len(m.minors)
    <2>1. /\ j \in 1 .. Len(m.minors) /\ j + 1 \in 1 .. Len(m.minors) /\ j < j + 1
          /\ GapEnd(m, j) = m.minors[j + 1].off
          /\ GapStart(m, j) = m.minors[j].off + h + m.minors[j].size
      BY <1>1, <1>5 DEF GapEnd, GapStart
    <2> QED BY <2>1 DEF Major
  <1> QED BY <1>3, <1>4, <1>5

\* A gap is never larger than what the usage of its major leaves: that a major is
\* passed over for too little room (CASE 1) skips no gap.
LEMMA GapInRoom ==
  ASSUME NEW m, Major(m), NEW i \in 0 .. Len(m.minors)
  PROVE  GapEnd(m, i) - GapStart(m, i) <= Room(m)
  <1> DEFINE len == Len(m.minors)
             g(j) == GapStart(m, j)
             gap == GapEnd(m, i) - GapStart(m, i)
  <1>1. /\ m \in MajorType /\ len \in Nat /\ End(m) \in Nat /\ m.minors \in Seq(Minor)
        /\ m.usage = H + Total(Charged(m))
        /\ \A k \in 1 .. len : m.minors[k].off \in Nat /\ m.minors[k].size \in Nat
    BY MajorFacts DEF Major
  <1>2. Room(m) = End(m) - m.usage
    BY DEF Room, End
  <1>3. \A j \in 0 .. len : g(j) \in Nat /\ GapEnd(m, j) \in Nat /\ H <= g(j)
    BY GapFacts
  <1>4. PICK u : /\ Running(Charged(m), u) /\ Total(Charged(m)) = u[len]
                 /\ \A j \in 0 .. len : u[j] \in Nat
    BY <1>1, ChargedFacts, TotalNat
  <1>5. u[0] = 0 /\ \A j \in 1 .. len : u[j] = u[j - 1] + m.minors[j].size + h
    <2>1. /\ Len(Charged(m)) = len
          /\ \A j \in 1 .. len : Charged(m)[j] = m.minors[j].size + h
      BY <1>1, ChargedFacts
    <2>2. u[0] = 0 /\ \A j \in 1 .. len : u[j] = u[j - 1] + Charged(m)[j]
      BY <1>1, <1>4, <2>1, RunningSteps
    <2>3. ASSUME NEW j \in 1 .. len PROVE u[j] = u[j - 1] + m.minors[j].size + h
      <3> DEFINE a == u[j - 1]
                 c == m.minors[j].size
      <3>1. u[j] = a + (c + h) /\ a \in Nat /\ c \in Nat
        <4>1. j - 1 \in 0 .. len
          BY <1>1
        <4> QED BY <4>1, <2>1, <2>2, <1>1, <1>4
      <3> HIDE DEF a, c
      <3>2. u[j] = a + c + h
        BY <3>1 DEF h
      <3> QED BY <3>2 DEF a, c
    <2> QED BY <2>2, <2>3
  <1>6. \A j \in 0 .. len : j < len => g(j) <= GapEnd(m, j) /\ GapEnd(m, j) = m.minors[j + 1].off
                                       /\ g(j + 1) = GapEnd(m, j) + h + m.minors[j + 1].size
    <2> SUFFICES ASSUME NEW j \in 0 .. len, j < len
                 PROVE  /\ g(j) <= GapEnd(m, j) /\ GapEnd(m, j) = m.minors[j + 1].off
                        /\ g(j + 1) = GapEnd(m, j) + h + m.minors[j + 1].size
      OBVIOUS
    <2>1. m.minors # <<>>
      BY <1>1
    <2>2. g(j) <= GapEnd(m, j)
      BY <2>1, GapOrder
    <2>3. GapEnd(m, j) = m.minors[j + 1].off
      BY <1>1 DEF GapEnd
    <2>4. g(j + 1) = m.minors[j + 1].off + h + m.minors[j + 1].size
      BY <1>1 DEF GapStart
    <2> QED BY <2>2, <2>3, <2>4
  <1>t. \A j \in 0 .. len : j < len =>
          /\ u[j] \in Nat /\ u[j + 1] \in Nat /\ m.minors[j + 1].size \in Nat
          /\ g(j) \in Nat /\ g(j + 1) \in Nat /\ GapEnd(m, j) \in Nat
    <2> SUFFICES ASSUME NEW j \in 0 .. len, j < len
                 PROVE  /\ u[j] \in Nat /\ u[j + 1] \in Nat /\ m.minors[j + 1].size \in Nat
                        /\ g(j) \in Nat /\ g(j + 1) \in Nat /\ GapEnd(m, j) \in Nat
      OBVIOUS
    <2>1. j + 1 \in 1 .. len /\ j + 1 \in 0 .. len
      BY <1>1
    <2> HIDE DEF g
    <2> QED BY <2>1, <1>1, <1>3, <1>4
  <1> HIDE DEF g
  <1>7. \A j \in 0 .. len : u[j] + H <= g(j)
    <2> DEFINE S == {j \in Nat : j <= len => u[j] + H <= g(j)}
    <2>1. 0 \in S
      BY <1>1, <1>3, <1>5 DEF H
    <2>2. ASSUME NEW j \in Nat, j \in S PROVE j + 1 \in S
      <3> SUFFICES ASSUME j + 1 <= len PROVE u[j + 1] + H <= g(j + 1)
        OBVIOUS
      <3>1. /\ j \in 0 .. len /\ j < len /\ j + 1 \in 1 .. len /\ (j + 1) - 1 = j
            /\ u[j] + H <= g(j)
        BY <1>1, <2>2
      <3>2. /\ u[j + 1] = u[j] + m.minors[j + 1].size + h
            /\ g(j) <= GapEnd(m, j) /\ g(j + 1) = GapEnd(m, j) + h + m.minors[j + 1].size
        BY <3>1, <1>5, <1>6
      <3> DEFINE a == u[j]
                 b == u[j + 1]
                 c == m.minors[j + 1].size
                 e == GapEnd(m, j)
      <3>3. /\ a \in Nat /\ b \in Nat /\ c \in Nat /\ g(j) \in Nat /\ g(j + 1) \in Nat /\ e \in Nat
            /\ b = a + c + h /\ a + H <= g(j) /\ g(j) <= e /\ g(j + 1) = e + h + c
        BY <3>1, <3>2, <1>t
      <3> HIDE DEF a, b, c, e
      <3>4. b + H <= g(j + 1)
        BY <3>3 DEF H, h
      <3> QED BY <3>4 DEF b
    <2> HIDE DEF S
    <2>3. \A j \in Nat : j \in S
      BY <2>1, <2>2, Induct
    <2> QED BY <2>3 DEF S
  <1>8. CASE i = len
    <2>1. gap = End(m) - g(len) /\ u[len] + H <= g(len) /\ g(len) \in Nat /\ u[len] \in Nat
      BY <1>1, <1>3, <1>4, <1>7, <1>8 DEF GapEnd, End, g
    <2> HIDE DEF gap
    <2>2. gap <= Room(m)
      BY <2>1, <1>1, <1>2, <1>4 DEF H
    <2> QED BY <2>2 DEF gap
  <1>9. CASE i # len
    <2>0. i \in Nat /\ i < len /\ i \in 0 .. len /\ gap = GapEnd(m, i) - g(i) /\ gap \in Int
      BY <1>1, <1>3, <1>9 DEF g
    <2> HIDE DEF gap
    <2> DEFINE S == {j \in Nat : i < j /\ j <= len => u[j] + H + gap <= g(j)}
    <2>1. 0 \in S
      BY <2>0
    <2>2. ASSUME NEW j \in Nat, j \in S PROVE j + 1 \in S
      <3> SUFFICES ASSUME i < j + 1, j + 1 <= len PROVE u[j + 1] + H + gap <= g(j + 1)
        OBVIOUS
      <3>1. j \in 0 .. len /\ j < len /\ j + 1 \in 1 .. len /\ (j + 1) - 1 = j
        BY <1>1, <2>2
      <3>2. /\ u[j + 1] = u[j] + m.minors[j + 1].size + h /\ u[j] + H <= g(j)
            /\ g(j) <= GapEnd(m, j) /\ g(j + 1) = GapEnd(m, j) + h + m.minors[j + 1].size
        BY <3>1, <1>5, <1>6, <1>7
      <3>3. /\ u[j] \in Nat /\ u[j + 1] \in Nat /\ m.minors[j + 1].size \in Nat
            /\ g(j) \in Nat /\ g(j + 1) \in Nat /\ GapEnd(m, j) \in Nat
        BY <3>1, <1>t
      <3>4. CASE i = j
        <4>1. gap = GapEnd(m, j) - g(j)
          BY <3>4, <2>0
        <4>2. \A a, b, c, d, e, f \in Nat :
                b = a + c + h /\ a + H <= d /\ f = e + h + c => b + H + (e - d) <= f
          BY DEF H, h
        <4> QED BY <4>1, <4>2, <3>2, <3>3
      <3>5. CASE i < j
        <4>1. u[j] + H + gap <= g(j)
          BY <3>1, <3>5, <2>2
        <4> DEFINE a == u[j]
                   b == u[j + 1]
                   c == m.minors[j + 1].size
                   e == GapEnd(m, j)
        <4>2. /\ a \in Nat /\ b \in Nat /\ c \in Nat /\ g(j) \in Nat /\ g(j + 1) \in Nat /\ e \in Nat
              /\ b = a + c + h /\ a + H + gap <= g(j) /\ g(j) <= e /\ g(j + 1) = e + h + c
          BY <4>1, <3>2, <3>3
        <4> HIDE DEF a, b, c, e
        <4>3. b + H + gap <= g(j + 1)
          BY <4>2, <2>0 DEF H, h
        <4> QED BY <4>3 DEF b
      <3> QED BY <3>4, <3>5, <2>0
    <2>3. \A j \in Nat : j \in S
      <3> HIDE DEF S
      <3> QED BY <2>1, <2>2, Induct
    <2>4. u[len] + H + gap <= g(len)
      BY <2>0, <2>3, <1>1
    <2>5. g(len) <= End(m)
      <3>1. m.minors # <<>>
        BY <2>0, <1>1
      <3>2. GapStart(m, len) <= GapEnd(m, len)
        BY <3>1, <1>1, GapOrder
      <3> QED BY <3>2 DEF GapEnd, End, g
    <2>6. gap <= Room(m)
      <3>1. m.usage = H + u[len] /\ u[len] \in Nat /\ g(len) \in Nat
        BY <1>1, <1>3, <1>4
      <3>2. \A a, b, e \in Nat : \A x \in Int : a + H + x <= b /\ b <= e => x <= e - (H + a)
        BY DEF H
      <3> QED BY <3>1, <3>2, <2>0, <2>4, <2>5, <1>1, <1>2
    <2> QED BY <2>6 DEF gap
  <1> QED BY <1>8, <1>9

\* A minor placed in a gap that is large enough.
LEMMA PlaceFacts ==
  ASSUME NEW m, Major(m), NEW i \in 0 .. Len(m.minors), NEW n \in Nat,
         GapEnd(m, i) - GapStart(m, i) >= Need(n)
  PROVE  LET u == Place(m, i, n) IN
           /\ Major(u) /\ u.page = m.page /\ u.pages = m.pages
           /\ Len(u.minors) = Len(m.minors) + 1
           /\ u.minors[i + 1].req_size = n
           /\ Blocks(u) = Blocks(m) \cup {[p |-> Pointer(u, u.minors[i + 1]), n |-> n]}
           /\ \A b \in Blocks(m) : b.p # Pointer(u, u.minors[i + 1])
           /\ Total(Taken(u)) = Total(Taken(m)) + n + ALIGNMENT + ALIGN_INFO
  <1> DEFINE u == Place(m, i, n)
             z == n + ALIGNMENT + ALIGN_INFO
             x == [off |-> GapStart(m, i), size |-> z, req_size |-> n]
             len == Len(m.minors)
  <1>1. /\ m \in MajorType /\ m.minors \in Seq(Minor) /\ len \in Nat /\ m.usage \in Nat
        /\ End(m) \in Nat /\ m.usage = H + Total(Charged(m))
    BY MajorFacts DEF Major
  <1>2. \A j \in 1 .. len : /\ m.minors[j] \in Minor /\ m.minors[j].off \in Nat
                            /\ m.minors[j].size \in Nat /\ m.minors[j].req_size \in Nat
    BY <1>1, MajorFacts
  <1>3. /\ GapStart(m, i) \in Nat /\ GapEnd(m, i) \in Nat
        /\ H <= GapStart(m, i) /\ GapEnd(m, i) <= End(m)
        /\ \A j \in 1 .. len :
             IF j <= i THEN m.minors[j].off + h + m.minors[j].size <= GapStart(m, i)
             ELSE GapEnd(m, i) <= m.minors[j].off
    BY GapFacts
  <1>4. z \in Nat /\ Need(n) = z + h /\ Need(n) \in Nat
    BY DEF ALIGNMENT, ALIGN_INFO, Need, h
  <1>5. x \in Minor /\ x.off = GapStart(m, i) /\ x.size = z /\ x.req_size = n
    BY <1>3, <1>4 DEF Minor
  <1>6. /\ u.page = m.page /\ u.pages = m.pages /\ u.usage = m.usage + Need(n)
        /\ u.minors = InsertAt(m.minors, i + 1, x)
        /\ u = [page |-> u.page, pages |-> u.pages, usage |-> u.usage, minors |-> u.minors]
    <2>1. u = [m EXCEPT !.usage = @ + Need(n), !.minors = InsertAt(@, i + 1, x)]
      BY DEF Place
    <2>2. m = [page |-> m.page, pages |-> m.pages, usage |-> m.usage, minors |-> m.minors]
      BY <1>1, MajorFacts
    <2> HIDE DEF x, u
    <2> QED BY <2>1, <2>2
  <1> HIDE DEF u, x, z
  <1>7. i + 1 \in 1 .. len + 1
    BY <1>1
  <1>8. /\ u.minors \in Seq(Minor) /\ Len(u.minors) = len + 1 /\ u.minors[i + 1] = x
        /\ \A j \in 1 .. Len(u.minors) :
             u.minors[j] = IF j < i + 1 THEN m.minors[j]
                           ELSE IF j = i + 1 THEN x ELSE m.minors[j - 1]
        /\ \A j \in 1 .. len : u.minors[IF j < i + 1 THEN j ELSE j + 1] = m.minors[j]
    <2> DEFINE s == m.minors
               k == i + 1
               t == InsertAt(s, k, x)
    <2>1. s \in Seq(Minor) /\ k \in 1 .. Len(s) + 1 /\ t = u.minors
      BY <1>1, <1>6, <1>7
    <2> HIDE DEF s, k
    <2>2. /\ t \in Seq(Minor) /\ Len(t) = Len(s) + 1 /\ t[k] = x
          /\ \A j \in 1 .. Len(t) :
               t[j] = IF j < k THEN s[j] ELSE IF j = k THEN x ELSE s[j - 1]
          /\ \A j \in 1 .. Len(s) : t[IF j < k THEN j ELSE j + 1] = s[j]
      <3>1. x \in Minor
        BY <1>5
      <3> QED BY <2>1, <3>1, InsertAtFacts, SMTT(20)
    <2> HIDE DEF t
    <2> QED BY <2>1, <2>2 DEF s, k
  <1>9. u \in MajorType
    <2>1. u.usage \in Nat
      BY <1>1, <1>4, <1>6
    <2>2. /\ m.page \in 0 .. NumPages - 1 /\ m.pages \in 1 .. NumPages
          /\ u.minors \in Seq([off : Nat, size : Nat, req_size : Nat])
      BY <1>1, <1>8, MajorFacts DEF Minor
    <2> QED BY <2>1, <2>2, <1>6 DEF MajorType
  <1>e. End(u) = End(m)
    BY <1>6 DEF End
  <1>10. ASSUME NEW j \in 1 .. Len(u.minors)
         PROVE  \/ j < i + 1 /\ j \in 1 .. len /\ u.minors[j] = m.minors[j]
                \/ j = i + 1 /\ u.minors[j] = x
                \/ i + 1 < j /\ j - 1 \in 1 .. len /\ u.minors[j] = m.minors[j - 1] /\ j - 1 > i
    <2>1. u.minors[j] = IF j < i + 1 THEN m.minors[j] ELSE IF j = i + 1 THEN x ELSE m.minors[j - 1]
      BY <1>8
    <2>2. j < i + 1 => j \in 1 .. len
      BY <1>1, <1>8
    <2>3. i + 1 < j => j - 1 \in 1 .. len /\ j - 1 > i
      BY <1>1, <1>8
    <2> QED BY <2>1, <2>2, <2>3, <1>1
  <1>11. \A g, e, f, c \in Nat : g - e >= z + h /\ g <= f => e + h + z <= g /\ e + h + z <= f
    BY <1>4 DEF h
  <1>12. /\ x.off + h + x.size <= GapEnd(m, i) /\ x.off + h + x.size <= End(u)
         /\ H <= x.off /\ x.req_size + ALIGNMENT + ALIGN_INFO <= x.size
    <2>1. GapEnd(m, i) - GapStart(m, i) >= z + h
      BY <1>4
    <2>3. /\ GapStart(m, i) + h + z <= GapEnd(m, i)
          /\ GapStart(m, i) + h + z <= End(m)
      BY <2>1, <1>1, <1>3, <1>11
    <2>2. x.req_size + ALIGNMENT + ALIGN_INFO <= x.size
      BY <1>5 DEF z, ALIGNMENT, ALIGN_INFO
    <2> QED BY <2>2, <2>3, <1>3, <1>5, <1>e
  <1>13. ASSUME NEW j \in 1 .. Len(u.minors)
         PROVE  /\ H <= u.minors[j].off
                /\ u.minors[j].off + h + u.minors[j].size <= End(u)
                /\ u.minors[j].req_size + ALIGNMENT + ALIGN_INFO <= u.minors[j].size
    BY <1>10, <1>12, <1>e DEF Major
  <1>14. ASSUME NEW j \in 1 .. Len(u.minors), NEW k \in 1 .. Len(u.minors), j < k
         PROVE  u.minors[j].off + h + u.minors[j].size <= u.minors[k].off
    <2>1. CASE j < i + 1 /\ k < i + 1
      <3>1. j \in 1 .. len /\ k \in 1 .. len /\ u.minors[j] = m.minors[j] /\ u.minors[k] = m.minors[k]
        BY <2>1, <1>10
      <3> QED BY <3>1, <1>14 DEF Major
    <2>2. CASE j < i + 1 /\ k = i + 1
      <3>1. j \in 1 .. len /\ j <= i /\ u.minors[j] = m.minors[j] /\ u.minors[k] = x
        BY <2>2, <1>10
      <3> QED BY <3>1, <1>3, <1>5
    <2>3. CASE j < i + 1 /\ i + 1 < k
      <3>1. /\ j \in 1 .. len /\ u.minors[j] = m.minors[j] /\ j < k - 1
            /\ k - 1 \in 1 .. len /\ u.minors[k] = m.minors[k - 1]
        BY <2>3, <1>10
      <3> QED BY <3>1 DEF Major
    <2>4. CASE j = i + 1 /\ i + 1 < k
      <3>1. u.minors[j] = x /\ k - 1 \in 1 .. len /\ ~(k - 1 <= i) /\ u.minors[k] = m.minors[k - 1]
        BY <2>4, <1>10
      <3>2. GapEnd(m, i) <= u.minors[k].off
        BY <3>1, <1>3
      <3>3. \A a, b, c, d \in Nat : a + h + b <= c /\ c <= d => a + h + b <= d
        BY DEF h
      <3>4. u.minors[k].off \in Nat
        BY <3>1, <1>2
      <3>5. x.off \in Nat /\ x.size \in Nat /\ x.off + h + x.size <= GapEnd(m, i)
        BY <1>12, <1>3, <1>4, <1>5
      <3>6. x.off + h + x.size <= u.minors[k].off
        BY <3>2, <3>3, <3>4, <3>5, <1>3
      <3> QED BY <3>1, <3>6
    <2>5. CASE i + 1 < j
      <3>0. i + 1 < k
        BY <2>5, <1>14
      <3>1. /\ j - 1 \in 1 .. len /\ u.minors[j] = m.minors[j - 1]
            /\ k - 1 \in 1 .. len /\ u.minors[k] = m.minors[k - 1]
        <4>1. ~(j < i + 1) /\ j # i + 1 /\ ~(k < i + 1) /\ k # i + 1
          BY <2>5, <3>0
        <4>2. j - 1 \in 1 .. len /\ u.minors[j] = m.minors[j - 1]
          BY <4>1, <1>10
        <4>3. k - 1 \in 1 .. len /\ u.minors[k] = m.minors[k - 1]
          BY <4>1, <1>10
        <4> QED BY <4>2, <4>3
      <3>2. j - 1 < k - 1
        BY <1>14
      <3> QED BY <3>1, <3>2 DEF Major
    <2> QED BY <2>1, <2>2, <2>3, <2>4, <2>5, <1>14
  <1>15. /\ Total(Charged(u)) = Total(Charged(m)) + Need(n)
         /\ Total(Taken(u)) = Total(Taken(m)) + z
    <2>1. /\ Len(Charged(m)) = len /\ Len(Taken(m)) = len
          /\ Len(Charged(u)) = len + 1 /\ Len(Taken(u)) = len + 1
          /\ \A j \in 1 .. len : /\ Charged(m)[j] = m.minors[j].size + h /\ Charged(m)[j] \in Nat
                                 /\ Taken(m)[j] = m.minors[j].size /\ Taken(m)[j] \in Nat
          /\ \A j \in 1 .. len + 1 : /\ Charged(u)[j] = u.minors[j].size + h
                                     /\ Taken(u)[j] = u.minors[j].size
      BY <1>1, <1>8, <1>9, ChargedFacts
    <2> DEFINE new(j) == IF j < i + 1 THEN j ELSE j + 1
    <2>2. \A j \in 1 .. len : new(j) \in 1 .. len + 1 /\ u.minors[new(j)] = m.minors[j]
      <3>1. \A j \in 1 .. len : new(j) \in 1 .. len + 1
        BY <1>1
      <3>2. \A j \in 1 .. len : u.minors[new(j)] = m.minors[j]
        BY <1>8
      <3> QED BY <3>1, <3>2
    <2> HIDE DEF new
    <2>n. \A j \in 1 .. len : /\ Charged(u)[new(j)] = Charged(m)[j]
                              /\ Taken(u)[new(j)] = Taken(m)[j]
      BY <2>1, <2>2
    <2>3. Inserted(Charged(m), Charged(u), i + 1, Need(n))
      <3>1. Charged(u)[i + 1] = Need(n)
        BY <2>1, <1>4, <1>5, <1>7, <1>8
      <3>2. \A j \in 1 .. len : Charged(u)[IF j < i + 1 THEN j ELSE j + 1] = Charged(m)[j]
        BY <2>n DEF new
      <3> QED BY <3>1, <3>2, <2>1, <1>7 DEF Inserted
    <2>4. Inserted(Taken(m), Taken(u), i + 1, z)
      <3>1. Taken(u)[i + 1] = z
        BY <2>1, <1>5, <1>7, <1>8
      <3>2. \A j \in 1 .. len : Taken(u)[IF j < i + 1 THEN j ELSE j + 1] = Taken(m)[j]
        BY <2>n DEF new
      <3> QED BY <3>1, <3>2, <2>1, <1>7 DEF Inserted
    <2>5. Total(Charged(u)) = Total(Charged(m)) + Need(n)
      <3>1. /\ Len(Charged(m)) \in Nat /\ Need(n) \in Int
            /\ \A j \in 1 .. Len(Charged(m)) : Charged(m)[j] \in Int
        BY <2>1, <1>1, <1>4
      <3> QED BY <2>3, <3>1, TotalInsert
    <2>6. Total(Taken(u)) = Total(Taken(m)) + z
      <3>1. /\ Len(Taken(m)) \in Nat /\ z \in Int
            /\ \A j \in 1 .. Len(Taken(m)) : Taken(m)[j] \in Int
        BY <2>1, <1>1, <1>4
      <3> QED BY <2>4, <3>1, TotalInsert
    <2> QED BY <2>5, <2>6
  <1>16. Major(u)
    <2>1. u.usage = H + Total(Charged(u))
      <3>1. Total(Charged(m)) \in Nat
        BY <1>1, ChargedFacts
      <3> QED BY <3>1, <1>1, <1>4, <1>6, <1>15 DEF H
    <2> QED BY <2>1, <1>9, <1>13, <1>14 DEF Major
  <1>17. \A min : Pointer(u, min) = Pointer(m, min)
    BY <1>6 DEF Pointer
  <1>18. Blocks(u) = Blocks(m) \cup {Block(u, x)}
    <2>1. ASSUME NEW b \in Blocks(u) PROVE b \in Blocks(m) \cup {Block(u, x)}
      <3>1. PICK j \in 1 .. Len(u.minors) : b = Block(u, u.minors[j])
        BY DEF Blocks
      <3>2. u.minors[j] = x \/ \E k \in 1 .. len : u.minors[j] = m.minors[k]
        BY <1>10
      <3>3. \A k : b = Block(u, m.minors[k]) => b = Block(m, m.minors[k])
        BY <1>17 DEF Block
      <3> QED BY <3>1, <3>2, <3>3 DEF Blocks
    <2>2. Blocks(m) \subseteq Blocks(u)
      <3> SUFFICES ASSUME NEW j \in 1 .. len PROVE Block(m, m.minors[j]) \in Blocks(u)
        BY DEF Blocks
      <3> DEFINE k == IF j < i + 1 THEN j ELSE j + 1
      <3>1. k \in 1 .. Len(u.minors) /\ u.minors[k] = m.minors[j]
        BY <1>1, <1>8
      <3> QED BY <3>1, <1>17 DEF Blocks, Block
    <2>3. Block(u, x) \in Blocks(u)
      BY <1>7, <1>8 DEF Blocks
    <2> QED BY <2>1, <2>2, <2>3
  <1>19. Block(u, x) = [p |-> Pointer(u, u.minors[i + 1]), n |-> n]
    BY <1>5, <1>8 DEF Block
  <1>20. Total(Taken(u)) = Total(Taken(m)) + n + ALIGNMENT + ALIGN_INFO
    <2>1. Total(Taken(m)) \in Nat
      BY <1>1, ChargedFacts
    <2> QED BY <2>1, <1>15 DEF z, ALIGNMENT, ALIGN_INFO
  <1>21. /\ Major(u) /\ u.page = m.page /\ u.pages = m.pages
         /\ Len(u.minors) = Len(m.minors) + 1 /\ u.minors[i + 1].req_size = n
         /\ Blocks(u) = Blocks(m) \cup {[p |-> Pointer(u, u.minors[i + 1]), n |-> n]}
    BY <1>5, <1>6, <1>8, <1>16, <1>18, <1>19
  <1>22. ASSUME NEW b \in Blocks(m) PROVE b.p # Pointer(u, u.minors[i + 1])
    <2>1. PICK j \in 1 .. len : b = Block(m, m.minors[j])
      BY DEF Blocks
    <2> DEFINE k == IF j < i + 1 THEN j ELSE j + 1
    <2>2. k \in 1 .. Len(u.minors) /\ k # i + 1 /\ u.minors[k] = m.minors[j]
      <3>1. Len(u.minors) = len + 1 /\ u.minors[k] = m.minors[j]
        BY <1>8
      <3>2. k \in 1 .. len + 1 /\ k # i + 1
        BY <1>1
      <3> HIDE DEF k
      <3> QED BY <3>1, <3>2
    <2> HIDE DEF k
    <2>3. Pointer(u, u.minors[k]) # Pointer(u, u.minors[i + 1])
      BY <2>2, <1>7, <1>8, <1>16, PointersDiffer
    <2> QED BY <2>1, <2>2, <2>3, <1>17 DEF Block
  <1> QED BY <1>20, <1>21, <1>22 DEF u

\* A minor that leaves its major.
LEMMA DropFacts ==
  ASSUME NEW m, Major(m), NEW i \in 1 .. Len(m.minors)
  PROVE  LET u == Drop(m, i) IN
           /\ Major(u) /\ u.page = m.page /\ u.pages = m.pages
           /\ Len(u.minors) = Len(m.minors) - 1
           /\ Blocks(u) = Blocks(m) \ {Block(m, m.minors[i])}
           /\ Total(Taken(u)) = Total(Taken(m)) - m.minors[i].size
  <1> DEFINE u == Drop(m, i)
             x == m.minors[i]
             len == Len(m.minors)
  <1>1. /\ m \in MajorType /\ m.minors \in Seq(Minor) /\ len \in Nat /\ m.usage \in Nat
        /\ m.usage = H + Total(Charged(m))
        /\ m = [page |-> m.page, pages |-> m.pages, usage |-> m.usage, minors |-> m.minors]
    BY MajorFacts DEF Major
  <1>2. \A j \in 1 .. len : /\ m.minors[j] \in Minor /\ m.minors[j].size \in Nat
    BY <1>1, MajorFacts
  <1>3. /\ u.page = m.page /\ u.pages = m.pages /\ u.usage = m.usage - (x.size + h)
        /\ u.minors = RemoveAt(m.minors, i)
        /\ u = [page |-> u.page, pages |-> u.pages, usage |-> u.usage, minors |-> u.minors]
    <2>1. u = [m EXCEPT !.usage = @ - (x.size + h), !.minors = RemoveAt(@, i)]
      BY DEF Drop
    <2> HIDE DEF x, u
    <2> QED BY <2>1, <1>1
  <1> HIDE DEF u
  <1>4. /\ u.minors \in Seq(Minor) /\ Len(u.minors) = len - 1
        /\ \A j \in 1 .. Len(u.minors) : u.minors[j] = m.minors[IF j < i THEN j ELSE j + 1]
    <2> DEFINE s == m.minors
               t == RemoveAt(s, i)
    <2>1. s \in Seq(Minor) /\ i \in 1 .. Len(s) /\ t = u.minors
      BY <1>1, <1>3
    <2> HIDE DEF s
    <2>2. /\ t \in Seq(Minor) /\ Len(t) = Len(s) - 1
          /\ \A j \in 1 .. Len(t) : t[j] = s[IF j < i THEN j ELSE j + 1]
      BY <2>1, RemoveAtFacts
    <2> HIDE DEF t
    <2> QED BY <2>1, <2>2 DEF s
  <1> DEFINE old(j) == IF j < i THEN j ELSE j + 1
  <1>5. /\ \A j \in 1 .. Len(u.minors) : old(j) \in 1 .. len /\ old(j) # i
                                         /\ u.minors[j] = m.minors[old(j)]
        /\ \A j, k \in 1 .. Len(u.minors) : j < k => old(j) < old(k)
        /\ \A k \in 1 .. len : k # i => \E j \in 1 .. Len(u.minors) : old(j) = k
    <2>1. /\ \A j \in 1 .. Len(u.minors) : old(j) \in 1 .. len /\ old(j) # i
          /\ \A j, k \in 1 .. Len(u.minors) : j < k => old(j) < old(k)
      BY <1>1, <1>4
    <2>2. ASSUME NEW k \in 1 .. len, k # i PROVE \E j \in 1 .. Len(u.minors) : old(j) = k
      <3>1. CASE k < i
        <4>1. k \in 1 .. Len(u.minors) /\ old(k) = k
          BY <3>1, <1>1, <1>4
        <4> QED BY <4>1
      <3>2. CASE i < k
        <4>1. k - 1 \in 1 .. Len(u.minors) /\ old(k - 1) = k
          BY <3>2, <1>1, <1>4
        <4> QED BY <4>1
      <3> QED BY <3>1, <3>2, <2>2, <1>1
    <2> QED BY <2>1, <2>2, <1>4
  <1> HIDE DEF old
  <1>6. /\ Total(Charged(m)) = Total(Charged(u)) + x.size + h
        /\ Total(Taken(m)) = Total(Taken(u)) + x.size
        /\ Total(Charged(u)) \in Nat /\ Total(Taken(u)) \in Nat
    <2> DEFINE w == [u EXCEPT !.usage = 0]
    <2>0. w \in MajorType /\ w.minors = u.minors
      <3>1. /\ m.page \in 0 .. NumPages - 1 /\ m.pages \in 1 .. NumPages
            /\ u.minors \in Seq([off : Nat, size : Nat, req_size : Nat])
        BY <1>1, <1>4, MajorFacts DEF Minor
      <3>2. w = [page |-> m.page, pages |-> m.pages, usage |-> 0, minors |-> u.minors]
        BY <1>3
      <3> HIDE DEF w
      <3> QED BY <3>1, <3>2 DEF MajorType
    <2> HIDE DEF w
    <2>1. /\ Len(Charged(m)) = len /\ Len(Taken(m)) = len
          /\ Len(Charged(w)) = len - 1 /\ Len(Taken(w)) = len - 1
          /\ \A j \in 1 .. len : /\ Charged(m)[j] = m.minors[j].size + h
                                 /\ Taken(m)[j] = m.minors[j].size
          /\ \A j \in 1 .. len - 1 :
               /\ Charged(w)[j] = u.minors[j].size + h /\ Charged(w)[j] \in Nat
               /\ Taken(w)[j] = u.minors[j].size /\ Taken(w)[j] \in Nat
          /\ Total(Charged(w)) \in Nat /\ Total(Taken(w)) \in Nat
      <3>1. /\ Len(Charged(m)) = len /\ Len(Taken(m)) = len
            /\ \A j \in 1 .. len : /\ Charged(m)[j] = m.minors[j].size + h
                                   /\ Taken(m)[j] = m.minors[j].size
        BY <1>1, ChargedFacts
      <3>2. /\ Len(Charged(w)) = Len(w.minors) /\ Len(Taken(w)) = Len(w.minors)
            /\ \A j \in 1 .. Len(w.minors) :
                 /\ Charged(w)[j] = w.minors[j].size + h /\ Charged(w)[j] \in Nat
                 /\ Taken(w)[j] = w.minors[j].size /\ Taken(w)[j] \in Nat
            /\ Total(Charged(w)) \in Nat /\ Total(Taken(w)) \in Nat
        BY <2>0, ChargedFacts
      <3> QED BY <3>1, <3>2, <2>0, <1>4
    <2>2. Charged(w) = Charged(u) /\ Taken(w) = Taken(u)
      BY <2>0 DEF Charged, Taken
    <2>3. \A j \in 1 .. len - 1 : m.minors[old(j)] = u.minors[j] /\ old(j) \in 1 .. len
      BY <1>4, <1>5
    <2>o. \A j \in 1 .. len - 1 : /\ Charged(m)[old(j)] = Charged(w)[j]
                                  /\ Taken(m)[old(j)] = Taken(w)[j]
      BY <2>1, <2>3
    <2>4. Inserted(Charged(w), Charged(m), i, x.size + h)
      <3>1. \A j \in 1 .. len - 1 : Charged(m)[IF j < i THEN j ELSE j + 1] = Charged(w)[j]
        BY <2>o DEF old
      <3>2. len = (len - 1) + 1
        BY <1>1
      <3> QED BY <3>1, <3>2, <2>1 DEF Inserted
    <2>5. Inserted(Taken(w), Taken(m), i, x.size)
      <3>1. \A j \in 1 .. len - 1 : Taken(m)[IF j < i THEN j ELSE j + 1] = Taken(w)[j]
        BY <2>o DEF old
      <3>2. len = (len - 1) + 1
        BY <1>1
      <3> QED BY <3>1, <3>2, <2>1 DEF Inserted
    <2>6. x.size \in Int /\ x.size + h \in Int /\ len - 1 \in Nat
      BY <1>1, <1>2 DEF h
    <2>7. Total(Charged(m)) = Total(Charged(w)) + (x.size + h)
      <3>1. /\ Len(Charged(w)) \in Nat
            /\ \A j \in 1 .. Len(Charged(w)) : Charged(w)[j] \in Int
        BY <2>1, <2>6
      <3> QED BY <3>1, <2>4, <2>6, TotalInsert
    <2>8. Total(Taken(m)) = Total(Taken(w)) + x.size
      <3>1. /\ Len(Taken(w)) \in Nat
            /\ \A j \in 1 .. Len(Taken(w)) : Taken(w)[j] \in Int
        BY <2>1, <2>6
      <3> QED BY <3>1, <2>5, <2>6, TotalInsert
    <2> QED BY <2>1, <2>2, <2>6, <2>7, <2>8 DEF h
  <1>7. u.usage = H + Total(Charged(u)) /\ u.usage \in Nat
    <2> DEFINE a == Total(Charged(m))
               c == Total(Charged(u))
               y == x.size
    <2>1. /\ u.usage = m.usage - (y + h) /\ m.usage = H + a /\ a = c + y + h
          /\ c \in Nat /\ y \in Nat
      BY <1>1, <1>2, <1>3, <1>6
    <2> HIDE DEF a, c, y
    <2>2. u.usage = H + c /\ u.usage \in Nat
      BY <2>1 DEF H, h
    <2> QED BY <2>2 DEF c
  <1>8. u \in MajorType
    <2>1. /\ m.page \in 0 .. NumPages - 1 /\ m.pages \in 1 .. NumPages
          /\ u.minors \in Seq([off : Nat, size : Nat, req_size : Nat])
      BY <1>1, <1>4, MajorFacts DEF Minor
    <2> QED BY <2>1, <1>3, <1>7 DEF MajorType
  <1>e. End(u) = End(m)
    BY <1>3 DEF End
  <1>9. Major(u)
    <2>1. ASSUME NEW j \in 1 .. Len(u.minors)
          PROVE  /\ H <= u.minors[j].off
                 /\ u.minors[j].off + h + u.minors[j].size <= End(u)
                 /\ u.minors[j].req_size + ALIGNMENT + ALIGN_INFO <= u.minors[j].size
      BY <1>5, <1>e DEF Major
    <2>2. ASSUME NEW j \in 1 .. Len(u.minors), NEW k \in 1 .. Len(u.minors), j < k
          PROVE  u.minors[j].off + h + u.minors[j].size <= u.minors[k].off
      <3>1. /\ old(j) \in 1 .. len /\ old(k) \in 1 .. len /\ old(j) < old(k)
            /\ u.minors[j] = m.minors[old(j)] /\ u.minors[k] = m.minors[old(k)]
        BY <1>5, <2>2
      <3> QED BY <3>1 DEF Major
    <2> QED BY <2>1, <2>2, <1>7, <1>8 DEF Major
  <1>10. \A min : Pointer(u, min) = Pointer(m, min)
    BY <1>3 DEF Pointer
  <1>11. Blocks(u) = Blocks(m) \ {Block(m, x)}
    <2>1. ASSUME NEW b \in Blocks(u) PROVE b \in Blocks(m) \ {Block(m, x)}
      <3>1. PICK j \in 1 .. Len(u.minors) : b = Block(u, u.minors[j])
        BY DEF Blocks
      <3>2. b = Block(m, m.minors[old(j)]) /\ old(j) \in 1 .. len /\ old(j) # i
        BY <3>1, <1>5, <1>10 DEF Block
      <3>3. Pointer(m, m.minors[old(j)]) # Pointer(m, x)
        BY <3>2, PointersDiffer
      <3> QED BY <3>2, <3>3 DEF Blocks, Block
    <2>2. ASSUME NEW b \in Blocks(m), b # Block(m, x) PROVE b \in Blocks(u)
      <3>1. PICK k \in 1 .. len : b = Block(m, m.minors[k])
        BY DEF Blocks
      <3>2. k # i
        BY <3>1, <2>2
      <3>3. PICK j \in 1 .. Len(u.minors) : old(j) = k
        BY <3>2, <1>5
      <3>4. u.minors[j] = m.minors[k]
        BY <3>3, <1>5
      <3> QED BY <3>1, <3>3, <3>4, <1>10 DEF Blocks, Block
    <2> QED BY <2>1, <2>2
  <1>12. Total(Taken(u)) = Total(Taken(m)) - x.size
    BY <1>2, <1>6
  <1> QED BY <1>3, <1>4, <1>9, <1>11, <1>12 DEF u

\* realloc writes a smaller size over the size asked for.
LEMMA ShrinkFacts ==
  ASSUME NEW m, Major(m), NEW i \in 1 .. Len(m.minors), NEW n \in Nat,
         n <= m.minors[i].req_size
  PROVE  LET u == [m EXCEPT !.minors[i].req_size = n] IN
           /\ Major(u) /\ u.page = m.page /\ u.pages = m.pages
           /\ Len(u.minors) = Len(m.minors)
           /\ Blocks(u) = (Blocks(m) \ {Block(m, m.minors[i])})
                            \cup {[Block(m, m.minors[i]) EXCEPT !.n = n]}
           /\ Total(Taken(u)) = Total(Taken(m))
  <1> DEFINE u == [m EXCEPT !.minors[i].req_size = n]
             x == [m.minors[i] EXCEPT !.req_size = n]
             len == Len(m.minors)
  <1>1. /\ m \in MajorType /\ m.minors \in Seq(Minor) /\ len \in Nat /\ m.usage \in Nat
        /\ m.usage = H + Total(Charged(m))
        /\ m = [page |-> m.page, pages |-> m.pages, usage |-> m.usage, minors |-> m.minors]
    BY MajorFacts DEF Major
  <1>2. \A j \in 1 .. len : /\ m.minors[j] \in Minor /\ m.minors[j].size \in Nat
                            /\ m.minors[j].req_size \in Nat
    BY <1>1, MajorFacts
  <1>3. /\ x \in Minor /\ x.off = m.minors[i].off /\ x.size = m.minors[i].size
        /\ x.req_size = n
    BY <1>2 DEF Minor
  <1>4. /\ u.page = m.page /\ u.pages = m.pages /\ u.usage = m.usage
        /\ u.minors = [m.minors EXCEPT ![i] = x]
        /\ u = [page |-> u.page, pages |-> u.pages, usage |-> u.usage, minors |-> u.minors]
    <2>1. u = [m EXCEPT !.minors = [m.minors EXCEPT ![i] = x]]
      OBVIOUS
    <2> HIDE DEF x, u
    <2> QED BY <2>1, <1>1
  <1> HIDE DEF u, x
  <1>5. /\ u.minors \in Seq(Minor) /\ Len(u.minors) = len
        /\ \A j \in 1 .. len : u.minors[j] = IF j = i THEN x ELSE m.minors[j]
    BY <1>1, <1>3, <1>4, ExceptSeq
  <1>6. \A j \in 1 .. len : /\ u.minors[j].off = m.minors[j].off
                            /\ u.minors[j].size = m.minors[j].size
    BY <1>3, <1>5
  <1>7. u \in MajorType
    <2>1. /\ m.page \in 0 .. NumPages - 1 /\ m.pages \in 1 .. NumPages
          /\ u.minors \in Seq([off : Nat, size : Nat, req_size : Nat])
      BY <1>1, <1>5, MajorFacts DEF Minor
    <2> QED BY <2>1, <1>1, <1>4 DEF MajorType
  <1>8. Charged(u) = Charged(m) /\ Taken(u) = Taken(m)
    BY <1>5, <1>6 DEF Charged, Taken
  <1>e. End(u) = End(m)
    BY <1>4 DEF End
  <1>9. Major(u)
    <2>1. ASSUME NEW j \in 1 .. len
          PROVE  u.minors[j].req_size + ALIGNMENT + ALIGN_INFO <= u.minors[j].size
      <3>1. m.minors[j].req_size + ALIGNMENT + ALIGN_INFO <= m.minors[j].size
        BY DEF Major
      <3>2. CASE j # i
        BY <3>1, <3>2, <1>5
      <3>3. CASE j = i
        <4>1. \A a, b, c \in Nat : a <= b /\ b + ALIGNMENT + ALIGN_INFO <= c
                                     => a + ALIGNMENT + ALIGN_INFO <= c
          BY DEF ALIGNMENT, ALIGN_INFO
        <4> QED BY <4>1, <3>1, <3>3, <1>2, <1>3, <1>5
      <3> QED BY <3>2, <3>3
    <2> QED BY <2>1, <1>1, <1>4, <1>5, <1>6, <1>7, <1>8, <1>e DEF Major
  <1>10. /\ \A min : Pointer(u, min) = Pointer(m, min)
         /\ Pointer(m, x) = Pointer(m, m.minors[i])
    BY <1>3, <1>4 DEF Pointer
  <1> DEFINE b0 == Block(m, m.minors[i])
             b1 == [b0 EXCEPT !.n = n]
  <1>11. b1 = Block(u, x)
    BY <1>3, <1>10 DEF Block
  <1>12. Blocks(u) = (Blocks(m) \ {b0}) \cup {b1}
    <2>1. ASSUME NEW b \in Blocks(u) PROVE b \in (Blocks(m) \ {b0}) \cup {b1}
      <3>1. PICK j \in 1 .. len : b = Block(u, u.minors[j])
        BY <1>5 DEF Blocks
      <3>2. CASE j = i
        BY <3>1, <3>2, <1>5, <1>11
      <3>3. CASE j # i
        <4>1. b = Block(m, m.minors[j])
          BY <3>1, <3>3, <1>5, <1>10 DEF Block
        <4>2. Pointer(m, m.minors[j]) # Pointer(m, m.minors[i])
          BY <3>3, PointersDiffer
        <4>3. b # b0
          BY <4>1, <4>2 DEF Block
        <4> QED BY <4>1, <4>3 DEF Blocks
      <3> QED BY <3>2, <3>3
    <2>2. b1 \in Blocks(u)
      BY <1>5, <1>11 DEF Blocks
    <2>3. ASSUME NEW b \in Blocks(m), b # b0 PROVE b \in Blocks(u)
      <3>1. PICK j \in 1 .. len : b = Block(m, m.minors[j])
        BY DEF Blocks
      <3>2. j # i
        BY <3>1, <2>3
      <3>3. b = Block(u, u.minors[j])
        BY <3>1, <3>2, <1>5, <1>10 DEF Block
      <3> QED BY <3>3, <1>5 DEF Blocks
    <2> QED BY <2>1, <2>2, <2>3
  <1> QED BY <1>4, <1>5, <1>8, <1>9, <1>12 DEF u

-----------------------------------------------------------------------------
(* The chain of majors.                                                    *)

PageIds == 0 .. NumPages - 1

Mine(m) == Run(m.page, m.pages)

Lengths(ms) == [i \in DOMAIN ms |-> ms[i].pages * PageSize]

Takens(ms) == [i \in DOMAIN ms |-> Total(Taken(ms[i]))]

\* The pages and the blocks of a chain, and its blocks but those of one major.
Pages(ms) == UNION {Mine(ms[i]) : i \in 1 .. Len(ms)}

BlocksOf(ms) == UNION {Blocks(ms[i]) : i \in 1 .. Len(ms)}

Others(ms, i) == UNION {Blocks(ms[k]) : k \in (1 .. Len(ms)) \ {i}}

AllBlocks(hp) == BlocksOf(hp.majors)

HeapType ==
  [majors : Seq(MajorType), bestBet : PageIds \cup {None}, pool : SUBSET PageIds,
   allocated : Nat, inuse : Nat]

\* A heap in order: majors in order on pages of their own, all other pages in the
\* pool, a best bet that is in the chain, and exact accounts.
Chain(ms) ==
  \A i \in 1 .. Len(ms) :
    /\ Major(ms[i]) /\ Mine(ms[i]) \subseteq PageIds
    /\ \A k \in 1 .. Len(ms) : i # k => Mine(ms[i]) \cap Mine(ms[k]) = {}

HeapOK(hp) ==
  /\ hp \in HeapType
  /\ Chain(hp.majors)
  /\ hp.pool = PageIds \ Pages(hp.majors)
  /\ hp.bestBet # None => \E i \in 1 .. Len(hp.majors) : hp.majors[i].page = hp.bestBet
  /\ hp.allocated = Total(Lengths(hp.majors))
  /\ hp.inuse = Total(Takens(hp.majors))

\* No major is kept empty.
Filled(hp) == \A i \in 1 .. Len(hp.majors) : hp.majors[i].minors # <<>>

LEMMA HeapFacts ==
  ASSUME NEW hp, hp \in HeapType
  PROVE  /\ hp.majors \in Seq(MajorType) /\ Len(hp.majors) \in Nat
         /\ DOMAIN hp.majors = 1 .. Len(hp.majors)
         /\ \A i \in 1 .. Len(hp.majors) : hp.majors[i] \in MajorType
         /\ hp.bestBet \in PageIds \cup {None} /\ hp.pool \subseteq PageIds
         /\ hp.allocated \in Nat /\ hp.inuse \in Nat
         /\ hp = [majors |-> hp.majors, bestBet |-> hp.bestBet, pool |-> hp.pool,
                  allocated |-> hp.allocated, inuse |-> hp.inuse]
  <1>1. /\ hp.majors \in Seq(MajorType)
        /\ hp.bestBet \in PageIds \cup {None} /\ hp.pool \subseteq PageIds
        /\ hp.allocated \in Nat /\ hp.inuse \in Nat
        /\ hp = [majors |-> hp.majors, bestBet |-> hp.bestBet, pool |-> hp.pool,
                 allocated |-> hp.allocated, inuse |-> hp.inuse]
    BY DEF HeapType
  <1> QED BY <1>1, LenProperties, ElementOfSeq

\* What Lengths and Takens sum.
LEMMA SumFacts ==
  ASSUME NEW ms \in Seq(MajorType)
  PROVE  /\ Len(Lengths(ms)) = Len(ms) /\ Len(Takens(ms)) = Len(ms)
         /\ \A i \in 1 .. Len(ms) :
              /\ Lengths(ms)[i] = ms[i].pages * PageSize /\ Lengths(ms)[i] \in Nat
              /\ Takens(ms)[i] = Total(Taken(ms[i])) /\ Takens(ms)[i] \in Nat
         /\ Total(Lengths(ms)) \in Nat /\ Total(Takens(ms)) \in Nat
  <1>1. /\ Len(ms) \in Nat /\ DOMAIN ms = 1 .. Len(ms)
        /\ \A i \in 1 .. Len(ms) : ms[i] \in MajorType
    BY LenProperties, ElementOfSeq
  <1>2. \A i \in 1 .. Len(ms) : ms[i].pages * PageSize \in Nat /\ Total(Taken(ms[i])) \in Nat
    BY <1>1, MajorFacts, ChargedFacts DEF End
  <1>3. Lengths(ms) = [i \in 1 .. Len(ms) |-> ms[i].pages * PageSize]
    BY <1>1 DEF Lengths
  <1>4. Takens(ms) = [i \in 1 .. Len(ms) |-> Total(Taken(ms[i]))]
    BY <1>1 DEF Takens
  <1>5. Lengths(ms) \in Seq(Nat) /\ Len(Lengths(ms)) = Len(ms)
    BY <1>1, <1>2, <1>3, IsASeq
  <1>6. Takens(ms) \in Seq(Nat) /\ Len(Takens(ms)) = Len(ms)
    BY <1>1, <1>2, <1>4, IsASeq
  <1>7. \A i \in 1 .. Len(ms) :
              /\ Lengths(ms)[i] = ms[i].pages * PageSize /\ Lengths(ms)[i] \in Nat
              /\ Takens(ms)[i] = Total(Taken(ms[i])) /\ Takens(ms)[i] \in Nat
    BY <1>2, <1>3, <1>4
  <1> QED BY <1>1, <1>5, <1>6, <1>7, TotalNat

\* Majors on different pages have different addresses.
LEMMA BlocksApart ==
  ASSUME NEW m, NEW w, Major(m), Major(w), Mine(m) \cap Mine(w) = {},
         NEW b \in Blocks(m), NEW c \in Blocks(w)
  PROVE  b.p # c.p
  <1>1. PICK i \in 1 .. Len(m.minors) : b = Block(m, m.minors[i])
    BY DEF Blocks
  <1>2. PICK j \in 1 .. Len(w.minors) : c = Block(w, w.minors[j])
    BY DEF Blocks
  <1>3. b.p \in Nat /\ m.page * PageSize <= b.p /\ b.p < m.page * PageSize + m.pages * PageSize
    BY <1>1, PointerInside DEF Block, End
  <1>4. c.p \in Nat /\ w.page * PageSize <= c.p /\ c.p < w.page * PageSize + w.pages * PageSize
    BY <1>2, PointerInside DEF Block, End
  <1>5. /\ m.page \in Nat /\ m.pages \in Nat /\ 1 <= m.pages
        /\ w.page \in Nat /\ w.pages \in Nat /\ 1 <= w.pages /\ PageSize \in Nat
    BY MajorFacts, HeapAssumption DEF Major
  <1>6. m.page + m.pages <= w.page \/ w.page + w.pages <= m.page
    <2> SUFFICES ASSUME ~(m.page + m.pages <= w.page), ~(w.page + w.pages <= m.page)
                 PROVE FALSE
      OBVIOUS
    <2>1. CASE m.page <= w.page
      <3>1. w.page \in Mine(m)
        BY <2>1, <1>5 DEF Mine, Run
      <3>2. w.page \in Mine(w)
        BY <1>5 DEF Mine, Run
      <3> QED BY <3>1, <3>2
    <2>2. CASE w.page < m.page
      <3>1. m.page \in Mine(m)
        BY <1>5 DEF Mine, Run
      <3>2. m.page \in Mine(w)
        BY <2>2, <1>5 DEF Mine, Run
      <3> QED BY <3>1, <3>2
    <2> QED BY <2>1, <2>2, <1>5
  <1>7. \A x, y, z, s \in Nat : x + y <= z => x * s + y * s <= z * s
    <2> SUFFICES ASSUME NEW x \in Nat, NEW y \in Nat, NEW z \in Nat, NEW s \in Nat, x + y <= z
                 PROVE  x * s + y * s <= z * s
      OBVIOUS
    <2>1. PICK d \in Nat : z = x + y + d
      <3>1. z - (x + y) \in Nat
        OBVIOUS
      <3> QED BY <3>1
    <2>2. z * s = x * s + y * s + d * s
      BY <2>1
    <2>3. d * s \in Nat /\ x * s \in Nat /\ y * s \in Nat
      OBVIOUS
    <2> QED BY <2>2, <2>3
  <1>8. /\ m.page * PageSize \in Nat /\ m.pages * PageSize \in Nat
        /\ w.page * PageSize \in Nat /\ w.pages * PageSize \in Nat
    <2>1. \A x, y \in Nat : x * y \in Nat
      OBVIOUS
    <2> QED BY <1>5, <2>1
  <1>9. \/ m.page * PageSize + m.pages * PageSize <= w.page * PageSize
        \/ w.page * PageSize + w.pages * PageSize <= m.page * PageSize
    BY <1>5, <1>6, <1>7
  <1> QED BY <1>3, <1>4, <1>8, <1>9

\* A block of a major is in no other major.
LEMMA NotElsewhere ==
  ASSUME NEW ms, Chain(ms), NEW i \in 1 .. Len(ms), NEW b \in Blocks(ms[i])
  PROVE  b \notin Others(ms, i)
  <1> SUFFICES ASSUME b \in Others(ms, i) PROVE FALSE
    OBVIOUS
  <1>1. PICK k \in (1 .. Len(ms)) \ {i} : b \in Blocks(ms[k])
    BY DEF Others
  <1>2. Major(ms[i]) /\ Major(ms[k]) /\ Mine(ms[i]) \cap Mine(ms[k]) = {}
    BY <1>1 DEF Chain
  <1> QED BY <1>1, <1>2, BlocksApart

\* UNALIGN finds the minor of a block by its address.
LEMMA OwnerFacts ==
  ASSUME NEW hp, HeapOK(hp), NEW b \in AllBlocks(hp)
  PROVE  LET i == Owner(hp, b.p)[1]
             j == Owner(hp, b.p)[2]
         IN  /\ i \in 1 .. Len(hp.majors) /\ j \in 1 .. Len(hp.majors[i].minors)
             /\ b = Block(hp.majors[i], hp.majors[i].minors[j])
  <1>1. PICK i \in 1 .. Len(hp.majors) : b \in Blocks(hp.majors[i])
    BY DEF AllBlocks, BlocksOf
  <1>2. PICK j \in 1 .. Len(hp.majors[i].minors) :
          b = Block(hp.majors[i], hp.majors[i].minors[j])
    BY <1>1 DEF Blocks
  <1> DEFINE P(o) == Pointer(hp.majors[o[1]], hp.majors[o[1]].minors[o[2]]) = b.p
             o == Owner(hp, b.p)
  <1>3. <<i, j>> \in Slots(hp) /\ P(<<i, j>>)
    BY <1>2 DEF Slots, Block
  <1>4. o \in Slots(hp) /\ P(o)
    BY <1>3 DEF Owner
  <1> HIDE DEF o
  <1>5. PICK k \in 1 .. Len(hp.majors) : o \in {k} \X (1 .. Len(hp.majors[k].minors))
    BY <1>4 DEF Slots
  <1>6. o[1] = k /\ o[2] \in 1 .. Len(hp.majors[k].minors)
    BY <1>5
  <1> DEFINE c == Block(hp.majors[k], hp.majors[k].minors[o[2]])
  <1>7. c \in Blocks(hp.majors[k]) /\ c.p = b.p
    BY <1>4, <1>6 DEF Blocks, Block
  <1>8. k = i
    BY <1>1, <1>7, BlocksApart DEF HeapOK, Chain
  <1>9. o[2] = j
    <2>1. Pointer(hp.majors[i], hp.majors[i].minors[o[2]]) = Pointer(hp.majors[i], hp.majors[i].minors[j])
      BY <1>2, <1>7, <1>8 DEF Block
    <2> QED BY <2>1, <1>6, <1>8, PointersDiffer DEF HeapOK, Chain
  <1> QED BY <1>2, <1>6, <1>8, <1>9 DEF o

\* malloc and free move the best bet to a major they looked at, or leave it.
LEMMA RememberFacts ==
  ASSUME NEW hp, HeapOK(hp), NEW seen, seen \in Seq(1 .. Len(hp.majors))
  PROVE  LET u == Remember(hp, seen) IN
           /\ HeapOK(u) /\ u.majors = hp.majors /\ u.pool = hp.pool
           /\ AllBlocks(u) = AllBlocks(hp)
  <1> DEFINE room(v) == Room(hp.majors[seen[v]])
             most == {v \in DOMAIN seen : \A w \in DOMAIN seen : room(w) <= room(v)}
             bet == Min(most)
             q == hp.majors[seen[bet]].page
             u == Remember(hp, seen)
  <1>0. hp \in HeapType
    BY DEF HeapOK
  <1>1. CASE u = hp
    BY <1>1
  <1>2. CASE most # {} /\ u = [hp EXCEPT !.bestBet = q]
    <2>1. bet \in most
      <3>1. most \subseteq Nat
        BY LenProperties
      <3> HIDE DEF most
      <3> QED BY <1>2, <3>1, Least
    <2>2. seen[bet] \in 1 .. Len(hp.majors)
      <3>1. bet \in 1 .. Len(seen)
        BY <2>1, LenProperties
      <3> HIDE DEF bet
      <3> QED BY <3>1, ElementOfSeq
    <2>3. q \in PageIds
      <3>1. hp.majors[seen[bet]] \in MajorType
        BY <1>0, <2>2, HeapFacts
      <3> HIDE DEF bet
      <3> QED BY <3>1, MajorFacts DEF PageIds
    <2> HIDE DEF bet, u, most
    <2>4. /\ u.majors = hp.majors /\ u.pool = hp.pool /\ u.bestBet = q
          /\ u.allocated = hp.allocated /\ u.inuse = hp.inuse /\ u \in HeapType
      BY <1>0, <1>2, <2>3 DEF HeapType
    <2> QED BY <2>2, <2>3, <2>4 DEF HeapOK, AllBlocks, u
  <1> QED BY <1>1, <1>2 DEF Remember

\* The blocks of a chain, one major apart.
LEMMA BlocksSplit ==
  ASSUME NEW ms, NEW i \in 1 .. Len(ms)
  PROVE  BlocksOf(ms) = Others(ms, i) \cup Blocks(ms[i])
  BY DEF BlocksOf, Others

\* A chain in which one major changes on its own pages.
Changed(ms, i, u, ns) ==
  /\ ms \in Seq(MajorType) /\ Chain(ms) /\ i \in 1 .. Len(ms)
  /\ Major(u) /\ u.page = ms[i].page /\ u.pages = ms[i].pages
  /\ ns = [ms EXCEPT ![i] = u]

LEMMA ChainUpdate ==
  ASSUME NEW ms, NEW i, NEW u, NEW ns, Changed(ms, i, u, ns)
  PROVE  /\ ns \in Seq(MajorType) /\ Len(ns) = Len(ms) /\ ns[i] = u
         /\ \A k \in 1 .. Len(ms) : /\ k # i => ns[k] = ms[k]
                                    /\ ns[k].page = ms[k].page
         /\ Chain(ns) /\ Pages(ns) = Pages(ms)
         /\ BlocksOf(ns) = Others(ms, i) \cup Blocks(u)
         /\ Lengths(ns) = Lengths(ms)
         /\ Total(Takens(ns)) = Total(Takens(ms)) - Total(Taken(ms[i])) + Total(Taken(u))
         /\ Total(Takens(ns)) \in Nat
  <1> DEFINE len == Len(ms)
  <1>0. /\ ms \in Seq(MajorType) /\ Chain(ms) /\ i \in 1 .. Len(ms)
        /\ Major(u) /\ u.page = ms[i].page /\ u.pages = ms[i].pages
        /\ ns = [ms EXCEPT ![i] = u]
    BY DEF Changed
  <1>1. u \in MajorType /\ len \in Nat /\ DOMAIN ms = 1 .. len
    BY <1>0, LenProperties DEF Major
  <1>2. /\ ns \in Seq(MajorType) /\ Len(ns) = len /\ DOMAIN ns = 1 .. len
        /\ \A k \in 1 .. len : ns[k] = IF k = i THEN u ELSE ms[k]
    BY <1>0, <1>1, ExceptSeq, LenProperties
  <1>3. \A k \in 1 .. len : /\ Mine(ns[k]) = Mine(ms[k]) /\ ns[k].page = ms[k].page
                            /\ ns[k].pages = ms[k].pages
    BY <1>0, <1>2 DEF Mine
  <1>4. Chain(ns)
    BY <1>0, <1>2, <1>3 DEF Chain
  <1>5. Pages(ns) = Pages(ms)
    BY <1>2, <1>3 DEF Pages
  <1>6. BlocksOf(ns) = Others(ms, i) \cup Blocks(u)
    <2>1. Others(ns, i) = Others(ms, i)
      <3>1. \A k \in (1 .. len) \ {i} : Blocks(ns[k]) = Blocks(ms[k])
        BY <1>2
      <3> QED BY <3>1, <1>2 DEF Others
    <2>2. BlocksOf(ns) = Others(ns, i) \cup Blocks(ns[i])
      BY <1>0, <1>2, BlocksSplit
    <2> QED BY <2>1, <2>2, <1>0, <1>2
  <1>7. Lengths(ns) = Lengths(ms)
    BY <1>1, <1>2, <1>3 DEF Lengths
  <1>8. /\ Total(Takens(ns)) = Total(Takens(ms)) - Total(Taken(ms[i])) + Total(Taken(u))
        /\ Total(Takens(ns)) \in Nat
    <2>1. /\ Len(Takens(ns)) = len /\ Len(Takens(ms)) = len
          /\ \A k \in 1 .. len : /\ Takens(ns)[k] = Total(Taken(ns[k]))
                                 /\ Takens(ms)[k] = Total(Taken(ms[k]))
                                 /\ Takens(ms)[k] \in Nat
          /\ Takens(ns)[i] \in Nat /\ Total(Takens(ns)) \in Nat
      BY <1>0, <1>1, <1>2, SumFacts
    <2>2. \A k \in 1 .. len : k # i => Takens(ns)[k] = Takens(ms)[k]
      BY <1>2, <2>1
    <2> DEFINE s == Takens(ms)
               t == Takens(ns)
    <2>3. /\ Len(s) \in Nat /\ i \in 1 .. Len(s) /\ Len(t) = Len(s) /\ t[i] \in Int
          /\ \A k \in 1 .. Len(s) : s[k] \in Int
          /\ \A k \in 1 .. Len(s) : k # i => t[k] = s[k]
      <3>1. Len(s) = len /\ Len(t) = len
        BY <2>1
      <3>2. Len(s) \in Nat /\ i \in 1 .. Len(s) /\ Len(t) = Len(s) /\ t[i] \in Int
        BY <3>1, <2>1, <1>0, <1>1
      <3>3. \A k \in 1 .. len : s[k] \in Int
        BY <2>1
      <3>4. \A k \in 1 .. len : k # i => t[k] = s[k]
        BY <2>2
      <3> HIDE DEF s, t
      <3> QED BY <3>1, <3>2, <3>3, <3>4
    <2> HIDE DEF s, t
    <2>4. Total(t) = Total(s) - s[i] + t[i]
      BY <2>3, TotalReplace
    <2> QED BY <2>1, <2>4, <1>0, <1>2 DEF s, t
  <1> QED BY <1>0, <1>2, <1>3, <1>4, <1>5, <1>6, <1>7, <1>8

\* A major that changes on its own pages, charged to the total of bytes in use.
Updated(hp, i, u, q) ==
  /\ HeapOK(hp) /\ i \in 1 .. Len(hp.majors)
  /\ Major(u) /\ u.page = hp.majors[i].page /\ u.pages = hp.majors[i].pages
  /\ q = [hp EXCEPT !.majors[i] = u, !.inuse = q.inuse]
  /\ q.inuse = hp.inuse - Total(Taken(hp.majors[i])) + Total(Taken(u))

LEMMA UpdateFacts ==
  ASSUME NEW hp, NEW i, NEW u, NEW q, Updated(hp, i, u, q)
  PROVE  /\ HeapOK(q) /\ Len(q.majors) = Len(hp.majors)
         /\ q.majors[i] = u /\ \A k \in 1 .. Len(hp.majors) : k # i => q.majors[k] = hp.majors[k]
         /\ q.pool = hp.pool /\ q.bestBet = hp.bestBet
         /\ AllBlocks(q) = Others(hp.majors, i) \cup Blocks(u)
  <1> DEFINE ms == hp.majors
             ns == [ms EXCEPT ![i] = u]
  <1>0. /\ HeapOK(hp) /\ i \in 1 .. Len(hp.majors)
        /\ Major(u) /\ u.page = hp.majors[i].page /\ u.pages = hp.majors[i].pages
        /\ q.inuse = hp.inuse - Total(Taken(hp.majors[i])) + Total(Taken(u))
    BY DEF Updated
  <1>1. /\ hp \in HeapType /\ ms \in Seq(MajorType) /\ Chain(ms)
        /\ hp.inuse = Total(Takens(ms)) /\ hp.allocated = Total(Lengths(ms))
        /\ hp.pool = PageIds \ Pages(ms)
        /\ hp.bestBet # None => \E k \in 1 .. Len(ms) : ms[k].page = hp.bestBet
    BY <1>0, HeapFacts DEF HeapOK
  <1>2. /\ q.majors = ns /\ q.bestBet = hp.bestBet /\ q.pool = hp.pool
        /\ q.allocated = hp.allocated
        /\ q = [majors |-> ns, bestBet |-> hp.bestBet, pool |-> hp.pool,
                allocated |-> hp.allocated, inuse |-> q.inuse]
    <2>1. q = [hp EXCEPT !.majors = ns, !.inuse = q.inuse]
      BY DEF Updated
    <2>2. hp = [majors |-> hp.majors, bestBet |-> hp.bestBet, pool |-> hp.pool,
                allocated |-> hp.allocated, inuse |-> hp.inuse]
      BY <1>1, HeapFacts
    <2> HIDE DEF ns
    <2> QED BY <2>1, <2>2
  <1>3. ns = [ms EXCEPT ![i] = u]
    OBVIOUS
  <1> HIDE DEF ns
  <1>4. /\ ns \in Seq(MajorType) /\ Len(ns) = Len(ms) /\ ns[i] = u
        /\ \A k \in 1 .. Len(ms) : /\ k # i => ns[k] = ms[k]
                                   /\ ns[k].page = ms[k].page
        /\ Chain(ns) /\ Pages(ns) = Pages(ms)
        /\ BlocksOf(ns) = Others(ms, i) \cup Blocks(u)
        /\ Lengths(ns) = Lengths(ms)
        /\ Total(Takens(ns)) = Total(Takens(ms)) - Total(Taken(ms[i])) + Total(Taken(u))
        /\ Total(Takens(ns)) \in Nat
    <2> HIDE DEF ms
    <2>1. /\ i \in 1 .. Len(ms) /\ u.page = ms[i].page /\ u.pages = ms[i].pages
      BY <1>0 DEF ms
    <2>2. Changed(ms, i, u, ns)
      BY <1>1, <1>3, <2>1, <1>0 DEF Changed
    <2> QED BY <2>2, ChainUpdate
  <1>5. q \in HeapType
    <2>1. /\ hp.bestBet \in PageIds \cup {None} /\ hp.pool \subseteq PageIds
          /\ hp.allocated \in Nat
      BY <1>1, HeapFacts
    <2>2. q.inuse \in Nat
      BY <1>0, <1>1, <1>4
    <2> QED BY <2>1, <2>2, <1>2, <1>4 DEF HeapType
  <1>6. HeapOK(q)
    BY <1>0, <1>1, <1>2, <1>4, <1>5 DEF HeapOK
  <1> QED BY <1>2, <1>4, <1>6 DEF AllBlocks

\* A minor squeezed into a gap of a major: one more block, at a new address.
Gap(hp, i, j, n) ==
  /\ HeapOK(hp) /\ i \in 1 .. Len(hp.majors)
  /\ j \in 0 .. Len(hp.majors[i].minors) /\ n \in Nat
  /\ GapEnd(hp.majors[i], j) - GapStart(hp.majors[i], j) >= Need(n)

LEMMA SqueezeFacts ==
  ASSUME NEW hp, NEW i, NEW j, NEW n, Gap(hp, i, j, n)
  PROVE  LET s == Squeeze(hp, i, j, n) IN
           /\ HeapOK(s.hp) /\ Len(s.hp.majors) = Len(hp.majors)
           /\ AllBlocks(s.hp) = AllBlocks(hp) \cup {[p |-> s.p, n |-> n]}
           /\ \A b \in AllBlocks(hp) : b.p # s.p
           /\ s.hp.majors[i].minors # <<>>
           /\ \A k \in 1 .. Len(hp.majors) : k # i => s.hp.majors[k] = hp.majors[k]
           /\ s.hp.pool = hp.pool
  <1> DEFINE s == Squeeze(hp, i, j, n)
             m == hp.majors[i]
             u == Place(m, j, n)
             q == [hp EXCEPT !.majors[i] = u, !.inuse = @ + n + ALIGNMENT + ALIGN_INFO]
             new == [p |-> s.p, n |-> n]
  <1>0. /\ HeapOK(hp) /\ i \in 1 .. Len(hp.majors) /\ n \in Nat
        /\ j \in 0 .. Len(m.minors) /\ GapEnd(m, j) - GapStart(m, j) >= Need(n)
    BY DEF Gap
  <1>1. s.hp = q /\ s.p = Pointer(u, u.minors[j + 1])
    BY DEF Squeeze
  <1>2. Major(m) /\ m \in MajorType /\ hp.inuse \in Nat /\ Len(m.minors) \in Nat
    <2>1. Major(m) /\ m \in MajorType /\ hp.inuse \in Nat
      BY <1>0, HeapFacts DEF HeapOK, Chain, Major
    <2> QED BY <2>1, MajorFacts
  <1>3. /\ Major(u) /\ u.page = m.page /\ u.pages = m.pages
        /\ Len(u.minors) = Len(m.minors) + 1
        /\ Blocks(u) = Blocks(m) \cup {new}
        /\ \A b \in Blocks(m) : b.p # s.p
        /\ Total(Taken(u)) = Total(Taken(m)) + n + ALIGNMENT + ALIGN_INFO
    <2>1. j \in 0 .. Len(m.minors) /\ GapEnd(m, j) - GapStart(m, j) >= Need(n) /\ n \in Nat
      BY <1>0
    <2>2. u = Place(m, j, n)
      OBVIOUS
    <2> HIDE DEF m, u, s
    <2>3. /\ Major(u) /\ u.page = m.page /\ u.pages = m.pages
          /\ Len(u.minors) = Len(m.minors) + 1
          /\ Blocks(u) = Blocks(m) \cup {[p |-> Pointer(u, u.minors[j + 1]), n |-> n]}
          /\ \A b \in Blocks(m) : b.p # Pointer(u, u.minors[j + 1])
          /\ Total(Taken(u)) = Total(Taken(m)) + n + ALIGNMENT + ALIGN_INFO
      BY <2>1, <2>2, <1>2, PlaceFacts
    <2> QED BY <1>1, <2>3
  <1>4. /\ q.inuse = hp.inuse + n + ALIGNMENT + ALIGN_INFO
        /\ q = [hp EXCEPT !.majors[i] = u, !.inuse = q.inuse]
    <2>1. /\ hp \in HeapType
          /\ hp = [majors |-> hp.majors, bestBet |-> hp.bestBet, pool |-> hp.pool,
                   allocated |-> hp.allocated, inuse |-> hp.inuse]
      BY <1>0, HeapFacts DEF HeapOK
    <2> HIDE DEF u
    <2> QED BY <2>1
  <1>5. q.inuse = hp.inuse - Total(Taken(m)) + Total(Taken(u))
    <2>1. Total(Taken(m)) \in Nat
      BY <1>2, ChargedFacts
    <2> HIDE DEF u, q, m
    <2> QED BY <2>1, <1>0, <1>2, <1>3, <1>4 DEF ALIGNMENT, ALIGN_INFO
  <1> HIDE DEF u, s, q
  <1>6. /\ HeapOK(q) /\ Len(q.majors) = Len(hp.majors)
        /\ q.majors[i] = u /\ \A k \in 1 .. Len(hp.majors) : k # i => q.majors[k] = hp.majors[k]
        /\ q.pool = hp.pool
        /\ AllBlocks(q) = Others(hp.majors, i) \cup Blocks(u)
    <2>1. /\ u.page = hp.majors[i].page /\ u.pages = hp.majors[i].pages
          /\ q.inuse = hp.inuse - Total(Taken(hp.majors[i])) + Total(Taken(u))
      BY <1>3, <1>5
    <2>2. Updated(hp, i, u, q)
      BY <2>1, <1>0, <1>3, <1>4 DEF Updated
    <2> QED BY <2>2, UpdateFacts
  <1>7. AllBlocks(hp) = Others(hp.majors, i) \cup Blocks(m)
    BY <1>0, BlocksSplit DEF AllBlocks
  <1>8. AllBlocks(q) = AllBlocks(hp) \cup {new}
    <2> HIDE DEF new, m
    <2> QED BY <1>3, <1>6, <1>7
  <1>9. ASSUME NEW b \in AllBlocks(hp) PROVE b.p # s.p
    <2>1. CASE b \in Blocks(m)
      BY <2>1, <1>3
    <2>2. CASE b \notin Blocks(m)
      <3>1. PICK k \in (1 .. Len(hp.majors)) \ {i} : b \in Blocks(hp.majors[k])
        BY <2>2, <1>7 DEF Others
      <3>2. Major(hp.majors[k]) /\ Mine(hp.majors[k]) \cap Mine(u) = {}
        <4>1. Mine(u) = Mine(m)
          BY <1>3 DEF Mine
        <4> QED BY <4>1, <3>1, <1>0 DEF HeapOK, Chain
      <3>3. new \in Blocks(u) /\ new.p = s.p
        BY <1>3
      <3> HIDE DEF new
      <3> QED BY <3>1, <3>2, <3>3, <1>3, BlocksApart
    <2> QED BY <2>1, <2>2
  <1>10. u.minors # <<>>
    <2>1. Len(u.minors) # 0
      BY <1>2, <1>3
    <2> QED BY <2>1, EmptySeq
  <1> QED BY <1>1, <1>6, <1>8, <1>9, <1>10 DEF s

\* A chain that loses a major.
Shortened(ms, i, ns) ==
  ms \in Seq(MajorType) /\ Chain(ms) /\ i \in 1 .. Len(ms) /\ ns = RemoveAt(ms, i)

LEMMA ChainRemove ==
  ASSUME NEW ms, NEW i, NEW ns, Shortened(ms, i, ns)
  PROVE  /\ ns \in Seq(MajorType) /\ Chain(ns)
         /\ \A k \in 1 .. Len(ns) : \E l \in (1 .. Len(ms)) \ {i} : ns[k] = ms[l]
         /\ \A l \in (1 .. Len(ms)) \ {i} : \E k \in 1 .. Len(ns) : ns[k] = ms[l]
         /\ Pages(ns) = Pages(ms) \ Mine(ms[i])
         /\ BlocksOf(ns) = Others(ms, i)
         /\ Total(Lengths(ms)) = Total(Lengths(ns)) + ms[i].pages * PageSize
         /\ Total(Takens(ms)) = Total(Takens(ns)) + Total(Taken(ms[i]))
         /\ Total(Lengths(ns)) \in Nat /\ Total(Takens(ns)) \in Nat
  <1> DEFINE len == Len(ms)
             old(k) == IF k < i THEN k ELSE k + 1
  <1>0. /\ ms \in Seq(MajorType) /\ Chain(ms) /\ i \in 1 .. len /\ ns = RemoveAt(ms, i)
        /\ len \in Nat
    BY LenProperties DEF Shortened
  <1>1. /\ ns \in Seq(MajorType) /\ Len(ns) = len - 1
        /\ \A k \in 1 .. Len(ns) : ns[k] = ms[old(k)]
    BY <1>0, RemoveAtFacts
  <1>2. /\ \A k \in 1 .. Len(ns) : old(k) \in (1 .. len) \ {i}
        /\ \A k, l \in 1 .. Len(ns) : k # l => old(k) # old(l)
    BY <1>0, <1>1
  <1>3. ASSUME NEW l \in (1 .. len) \ {i} PROVE \E k \in 1 .. Len(ns) : ns[k] = ms[l]
    <2>1. CASE l < i
      <3>1. l \in 1 .. Len(ns) /\ old(l) = l
        BY <2>1, <1>0, <1>1
      <3> QED BY <3>1, <1>1
    <2>2. CASE i < l
      <3>1. l - 1 \in 1 .. Len(ns) /\ old(l - 1) = l
        BY <2>2, <1>0, <1>1
      <3> QED BY <3>1, <1>1
    <2> QED BY <2>1, <2>2, <1>0
  <1>s. /\ Lengths(ms)[i] = ms[i].pages * PageSize /\ Takens(ms)[i] = Total(Taken(ms[i]))
        /\ Inserted(Lengths(ns), Lengths(ms), i, Lengths(ms)[i])
        /\ Inserted(Takens(ns), Takens(ms), i, Takens(ms)[i])
        /\ Lengths(ms)[i] \in Int /\ Takens(ms)[i] \in Int
        /\ Len(Lengths(ns)) \in Nat /\ \A k \in 1 .. Len(Lengths(ns)) : Lengths(ns)[k] \in Int
        /\ Len(Takens(ns)) \in Nat /\ \A k \in 1 .. Len(Takens(ns)) : Takens(ns)[k] \in Int
        /\ Total(Lengths(ns)) \in Nat /\ Total(Takens(ns)) \in Nat
    <2>1. /\ Len(Lengths(ms)) = len /\ Len(Takens(ms)) = len
          /\ \A k \in 1 .. len :
               /\ Lengths(ms)[k] = ms[k].pages * PageSize /\ Lengths(ms)[k] \in Nat
               /\ Takens(ms)[k] = Total(Taken(ms[k])) /\ Takens(ms)[k] \in Nat
      BY <1>0, SumFacts
    <2>2. /\ Len(Lengths(ns)) = Len(ns) /\ Len(Takens(ns)) = Len(ns)
          /\ \A k \in 1 .. Len(ns) :
               /\ Lengths(ns)[k] = ns[k].pages * PageSize /\ Lengths(ns)[k] \in Nat
               /\ Takens(ns)[k] = Total(Taken(ns[k])) /\ Takens(ns)[k] \in Nat
          /\ Total(Lengths(ns)) \in Nat /\ Total(Takens(ns)) \in Nat
      BY <1>1, SumFacts
    <2>3. len = Len(ns) + 1 /\ Len(ns) \in Nat
      BY <1>0, <1>1
    <2>4. \A k \in 1 .. Len(ns) : /\ old(k) \in 1 .. len
                                  /\ Lengths(ms)[old(k)] = Lengths(ns)[k]
                                  /\ Takens(ms)[old(k)] = Takens(ns)[k]
      <3> HIDE DEF old
      <3> QED BY <2>1, <2>2, <1>1, <1>2
    <2>5. Inserted(Lengths(ns), Lengths(ms), i, Lengths(ms)[i])
      BY <2>1, <2>2, <2>3, <2>4, <1>0 DEF Inserted
    <2>6. Inserted(Takens(ns), Takens(ms), i, Takens(ms)[i])
      BY <2>1, <2>2, <2>3, <2>4, <1>0 DEF Inserted
    <2> QED BY <2>1, <2>2, <2>3, <2>5, <2>6, <1>0
  <1> HIDE DEF old
  <1>4. Chain(ns)
    <2> SUFFICES ASSUME NEW k \in 1 .. Len(ns)
                 PROVE  /\ Major(ns[k]) /\ Mine(ns[k]) \subseteq PageIds
                        /\ \A l \in 1 .. Len(ns) : k # l => Mine(ns[k]) \cap Mine(ns[l]) = {}
      BY DEF Chain
    <2> QED BY <1>0, <1>1, <1>2 DEF Chain
  <1>5. Pages(ns) = Pages(ms) \ Mine(ms[i])
    <2>1. ASSUME NEW x \in Pages(ns) PROVE x \in Pages(ms) \ Mine(ms[i])
      <3>1. PICK k \in 1 .. Len(ns) : x \in Mine(ns[k])
        BY DEF Pages
      <3>2. x \in Mine(ms[old(k)]) /\ old(k) \in (1 .. len) \ {i}
        BY <3>1, <1>1, <1>2
      <3> QED BY <3>2, <1>0 DEF Pages, Chain
    <2>2. ASSUME NEW x \in Pages(ms), x \notin Mine(ms[i]) PROVE x \in Pages(ns)
      <3>1. PICK l \in 1 .. len : x \in Mine(ms[l])
        BY DEF Pages
      <3>2. l # i
        BY <3>1, <2>2
      <3> QED BY <3>1, <3>2, <1>3 DEF Pages
    <2> QED BY <2>1, <2>2
  <1>6. BlocksOf(ns) = Others(ms, i)
    <2>1. ASSUME NEW x \in BlocksOf(ns) PROVE x \in Others(ms, i)
      <3>1. PICK k \in 1 .. Len(ns) : x \in Blocks(ns[k])
        BY DEF BlocksOf
      <3> QED BY <3>1, <1>1, <1>2 DEF Others
    <2>2. ASSUME NEW x \in Others(ms, i) PROVE x \in BlocksOf(ns)
      <3>1. PICK l \in (1 .. len) \ {i} : x \in Blocks(ms[l])
        BY DEF Others
      <3> QED BY <3>1, <1>3 DEF BlocksOf
    <2> QED BY <2>1, <2>2
  <1>7. Total(Lengths(ms)) = Total(Lengths(ns)) + ms[i].pages * PageSize
    <2> DEFINE x == Lengths(ms)[i]
    <2>1. x \in Int /\ Inserted(Lengths(ns), Lengths(ms), i, x) /\ x = ms[i].pages * PageSize
      BY <1>s
    <2> HIDE DEF x
    <2> QED BY <2>1, <1>s, TotalInsert
  <1>8. Total(Takens(ms)) = Total(Takens(ns)) + Total(Taken(ms[i]))
    <2> DEFINE x == Takens(ms)[i]
    <2>1. x \in Int /\ Inserted(Takens(ns), Takens(ms), i, x) /\ x = Total(Taken(ms[i]))
      BY <1>s
    <2> HIDE DEF x
    <2> QED BY <2>1, <1>s, TotalInsert
  <1> QED BY <1>0, <1>1, <1>2, <1>3, <1>4, <1>5, <1>6, <1>7, <1>8, <1>s

\* A chain that gains a major on pages that no other major has.
Extended(ms, m, ns) ==
  /\ ms \in Seq(MajorType) /\ Chain(ms) /\ ns = Append(ms, m)
  /\ Major(m) /\ Mine(m) \subseteq PageIds \ Pages(ms)

LEMMA ChainAppend ==
  ASSUME NEW ms, NEW m, NEW ns, Extended(ms, m, ns)
  PROVE  /\ ns \in Seq(MajorType) /\ Len(ns) = Len(ms) + 1 /\ Len(ms) \in Nat
         /\ ns[Len(ns)] = m /\ \A k \in 1 .. Len(ms) : ns[k] = ms[k]
         /\ Chain(ns) /\ Pages(ns) = Pages(ms) \cup Mine(m)
         /\ BlocksOf(ns) = BlocksOf(ms) \cup Blocks(m)
         /\ Total(Lengths(ns)) = Total(Lengths(ms)) + m.pages * PageSize
         /\ Total(Takens(ns)) = Total(Takens(ms)) + Total(Taken(m))
  <1> DEFINE len == Len(ms)
  <1>0. /\ ms \in Seq(MajorType) /\ Chain(ms) /\ Major(m) /\ m \in MajorType /\ len \in Nat
        /\ Mine(m) \subseteq PageIds \ Pages(ms)
    BY LenProperties DEF Extended, Major
  <1>1. /\ ns \in Seq(MajorType) /\ Len(ns) = len + 1
        /\ ns[len + 1] = m /\ \A k \in 1 .. len : ns[k] = ms[k]
    BY <1>0, AppendProperties DEF Extended
  <1>2. Chain(ns)
    <2>1. ASSUME NEW k \in 1 .. len PROVE Mine(m) \cap Mine(ms[k]) = {}
      BY <1>0 DEF Pages
    <2>2. ASSUME NEW k \in 1 .. len + 1, NEW l \in 1 .. len + 1, k # l
          PROVE  Mine(ns[k]) \cap Mine(ns[l]) = {}
      <3>1. CASE k \in 1 .. len /\ l \in 1 .. len
        BY <3>1, <2>2, <1>0, <1>1 DEF Chain
      <3>2. CASE k = len + 1
        <4>1. l \in 1 .. len
          BY <3>2, <2>2, <1>0
        <4> QED BY <3>2, <4>1, <2>1, <1>1
      <3>3. CASE l = len + 1
        <4>1. k \in 1 .. len
          BY <3>3, <2>2, <1>0
        <4> QED BY <3>3, <4>1, <2>1, <1>1
      <3> QED BY <3>1, <3>2, <3>3, <1>0
    <2>3. ASSUME NEW k \in 1 .. len + 1
          PROVE  Major(ns[k]) /\ Mine(ns[k]) \subseteq PageIds
      <3>1. CASE k \in 1 .. len
        BY <3>1, <1>0, <1>1 DEF Chain
      <3>2. CASE k = len + 1
        BY <3>2, <1>0, <1>1
      <3> QED BY <3>1, <3>2, <1>0
    <2> QED BY <2>2, <2>3, <1>1 DEF Chain
  <1>i. \A k : k \in 1 .. len + 1 <=> k \in 1 .. len \/ k = len + 1
    BY <1>0
  <1>3. Pages(ns) = Pages(ms) \cup Mine(m)
    BY <1>i, <1>1 DEF Pages
  <1>4. BlocksOf(ns) = BlocksOf(ms) \cup Blocks(m)
    BY <1>i, <1>1 DEF BlocksOf
  <1>s. /\ Len(Lengths(ms)) = len /\ Len(Takens(ms)) = len
        /\ Len(Lengths(ns)) = len + 1 /\ Len(Takens(ns)) = len + 1
        /\ \A k \in 1 .. len : /\ Lengths(ns)[k] = Lengths(ms)[k] /\ Lengths(ms)[k] \in Int
                               /\ Takens(ns)[k] = Takens(ms)[k] /\ Takens(ms)[k] \in Int
        /\ Lengths(ns)[len + 1] = m.pages * PageSize /\ Lengths(ns)[len + 1] \in Int
        /\ Takens(ns)[len + 1] = Total(Taken(m)) /\ Takens(ns)[len + 1] \in Int
    <2>1. /\ Len(Lengths(ms)) = len /\ Len(Takens(ms)) = len
          /\ \A k \in 1 .. len :
               /\ Lengths(ms)[k] = ms[k].pages * PageSize /\ Lengths(ms)[k] \in Nat
               /\ Takens(ms)[k] = Total(Taken(ms[k])) /\ Takens(ms)[k] \in Nat
      BY <1>0, SumFacts
    <2>2. /\ Len(Lengths(ns)) = Len(ns) /\ Len(Takens(ns)) = Len(ns)
          /\ \A k \in 1 .. Len(ns) :
               /\ Lengths(ns)[k] = ns[k].pages * PageSize /\ Lengths(ns)[k] \in Nat
               /\ Takens(ns)[k] = Total(Taken(ns[k])) /\ Takens(ns)[k] \in Nat
      BY <1>1, SumFacts
    <2>3. /\ Len(ns) = len + 1 /\ len + 1 \in 1 .. Len(ns)
          /\ \A k \in 1 .. len : k \in 1 .. Len(ns)
      BY <1>0, <1>1
    <2>4. \A k \in 1 .. len : Lengths(ns)[k] = Lengths(ms)[k] /\ Takens(ns)[k] = Takens(ms)[k]
      BY <2>1, <2>2, <2>3, <1>1
    <2>5. /\ Lengths(ns)[len + 1] = m.pages * PageSize /\ Lengths(ns)[len + 1] \in Nat
          /\ Takens(ns)[len + 1] = Total(Taken(m)) /\ Takens(ns)[len + 1] \in Nat
      BY <2>2, <2>3, <1>1
    <2> QED BY <2>1, <2>2, <2>3, <2>4, <2>5
  <1>5. Total(Lengths(ns)) = Total(Lengths(ms)) + m.pages * PageSize
    <2> DEFINE x == Lengths(ns)[len + 1]
    <2>1. Inserted(Lengths(ms), Lengths(ns), len + 1, x) /\ x \in Int /\ x = m.pages * PageSize
      BY <1>s, <1>0 DEF Inserted
    <2> HIDE DEF x
    <2>2. /\ Len(Lengths(ms)) \in Nat
          /\ \A i \in 1 .. Len(Lengths(ms)) : Lengths(ms)[i] \in Int
      BY <1>s, <1>0
    <2>3. Total(Lengths(ns)) = Total(Lengths(ms)) + x
      BY <2>1, <2>2, TotalInsert
    <2> QED BY <2>1, <2>3
  <1>6. Total(Takens(ns)) = Total(Takens(ms)) + Total(Taken(m))
    <2> DEFINE x == Takens(ns)[len + 1]
    <2>1. Inserted(Takens(ms), Takens(ns), len + 1, x) /\ x \in Int /\ x = Total(Taken(m))
      BY <1>s, <1>0 DEF Inserted
    <2> HIDE DEF x
    <2>2. /\ Len(Takens(ms)) \in Nat
          /\ \A i \in 1 .. Len(Takens(ms)) : Takens(ms)[i] \in Int
      BY <1>s, <1>0
    <2>3. Total(Takens(ns)) = Total(Takens(ms)) + x
      BY <2>1, <2>2, TotalInsert
    <2> QED BY <2>1, <2>3
  <1> QED BY <1>0, <1>1, <1>2, <1>3, <1>4, <1>5, <1>6

\* The heap after an empty major went back.
Emptied(hp, i) == HeapOK(hp) /\ i \in 1 .. Len(hp.majors) /\ hp.majors[i].minors = <<>>

LEMMA ReleaseFacts ==
  ASSUME NEW hp, NEW i, Emptied(hp, i)
  PROVE  LET q == Release(hp, i) IN
           /\ HeapOK(q) /\ AllBlocks(q) = AllBlocks(hp)
           /\ \A k \in 1 .. Len(q.majors) :
                \E l \in (1 .. Len(hp.majors)) \ {i} : q.majors[k] = hp.majors[l]
           /\ hp.pool \subseteq q.pool
  <1> DEFINE ms == hp.majors
             m == ms[i]
             ns == RemoveAt(ms, i)
             q == Release(hp, i)
  <1>0. HeapOK(hp) /\ i \in 1 .. Len(ms) /\ m.minors = <<>>
    BY DEF Emptied
  <1>1. /\ hp \in HeapType /\ ms \in Seq(MajorType) /\ Chain(ms) /\ Major(m)
        /\ hp.inuse = Total(Takens(ms)) /\ hp.allocated = Total(Lengths(ms))
        /\ hp.pool = PageIds \ Pages(ms)
        /\ hp.bestBet # None => \E k \in 1 .. Len(ms) : ms[k].page = hp.bestBet
    BY <1>0, HeapFacts DEF HeapOK, Chain
  <1>2. /\ q.majors = ns /\ q.bestBet = (IF hp.bestBet = m.page THEN None ELSE hp.bestBet)
        /\ q.pool = hp.pool \cup Mine(m) /\ q.inuse = hp.inuse
        /\ q.allocated = hp.allocated - m.pages * PageSize
        /\ q = [majors |-> q.majors, bestBet |-> q.bestBet, pool |-> q.pool,
                allocated |-> q.allocated, inuse |-> q.inuse]
    <2>1. hp = [majors |-> hp.majors, bestBet |-> hp.bestBet, pool |-> hp.pool,
                allocated |-> hp.allocated, inuse |-> hp.inuse]
      BY <1>1, HeapFacts
    <2>2. q = [hp EXCEPT !.majors = ns,
                         !.bestBet = IF hp.bestBet = m.page THEN None ELSE hp.bestBet,
                         !.allocated = hp.allocated - m.pages * PageSize,
                         !.pool = hp.pool \cup Mine(m)]
      BY DEF Release, Mine
    <2> HIDE DEF q, ns, m
    <2> QED BY <2>1, <2>2
  <1>3. Shortened(ms, i, ns)
    BY <1>0, <1>1 DEF Shortened
  <1> HIDE DEF ns, q
  <1>4. /\ ns \in Seq(MajorType) /\ Chain(ns)
        /\ \A k \in 1 .. Len(ns) : \E l \in (1 .. Len(ms)) \ {i} : ns[k] = ms[l]
        /\ \A l \in (1 .. Len(ms)) \ {i} : \E k \in 1 .. Len(ns) : ns[k] = ms[l]
        /\ Pages(ns) = Pages(ms) \ Mine(m)
        /\ BlocksOf(ns) = Others(ms, i)
        /\ Total(Lengths(ms)) = Total(Lengths(ns)) + m.pages * PageSize
        /\ Total(Takens(ms)) = Total(Takens(ns)) + Total(Taken(m))
        /\ Total(Lengths(ns)) \in Nat /\ Total(Takens(ns)) \in Nat
    BY <1>3, ChainRemove
  <1>5. m \in MajorType /\ m.pages * PageSize \in Nat /\ m.page \in PageIds
    BY <1>1, MajorFacts DEF End, Major, PageIds
  <1>6. Len(m.minors) = 0 /\ Total(Taken(m)) = 0 /\ Blocks(m) = {}
    <2>1. Len(m.minors) = 0
      BY <1>0
    <2>2. Len(Taken(m)) = 0
      BY <2>1, <1>5, ChargedFacts
    <2>3. PICK u : Running(Taken(m), u)
      BY <2>2, RunningExists
    <2>4. Total(Taken(m)) = u[0] /\ u[0] = 0
      BY <2>2, <2>3, TotalIs, RunningSteps
    <2>5. Blocks(m) = {}
      BY <2>1 DEF Blocks
    <2> QED BY <2>1, <2>4, <2>5
  <1>7. q.pool = PageIds \ Pages(ns)
    BY <1>0, <1>1, <1>2, <1>4 DEF Pages, Chain
  <1>8. q.bestBet # None => \E k \in 1 .. Len(ns) : ns[k].page = q.bestBet
    <2> SUFFICES ASSUME q.bestBet # None PROVE \E k \in 1 .. Len(ns) : ns[k].page = q.bestBet
      OBVIOUS
    <2>1. q.bestBet = hp.bestBet /\ hp.bestBet # m.page /\ hp.bestBet # None
      BY <1>2
    <2>2. PICK l \in 1 .. Len(ms) : ms[l].page = hp.bestBet
      BY <2>1, <1>1
    <2>3. l # i
      BY <2>1, <2>2
    <2>4. PICK k \in 1 .. Len(ns) : ns[k] = ms[l]
      BY <2>3, <1>4
    <2> QED BY <2>1, <2>2, <2>4
  <1>9. q.allocated = Total(Lengths(ns)) /\ q.inuse = Total(Takens(ns))
    <2> HIDE DEF m, ms
    <2> QED BY <1>1, <1>2, <1>4, <1>5, <1>6
  <1>10. q \in HeapType
    <2>1. q.pool \subseteq PageIds
      BY <1>7
    <2>2. q.bestBet \in PageIds \cup {None}
      BY <1>1, <1>2, HeapFacts
    <2> QED BY <2>1, <2>2, <1>2, <1>4, <1>9 DEF HeapType
  <1>11. HeapOK(q)
    BY <1>2, <1>4, <1>7, <1>8, <1>9, <1>10 DEF HeapOK
  <1>12. AllBlocks(q) = AllBlocks(hp)
    <2>1. BlocksOf(ms) = Others(ms, i) \cup Blocks(m)
      BY <1>0, BlocksSplit
    <2> QED BY <2>1, <1>2, <1>4, <1>6 DEF AllBlocks
  <1> QED BY <1>2, <1>4, <1>11, <1>12 DEF q

-----------------------------------------------------------------------------
(* New majors.                                                             *)

LEMMA Division ==
  ASSUME NEW s \in Nat, NEW p \in Nat, 0 < p
  PROVE  s \div p \in Nat /\ s % p \in 0 .. p - 1 /\ s = p * (s \div p) + (s % p)
  OBVIOUS

\* A new major has room for its header and the minor it is made for.
LEMMA MajorPagesFacts ==
  ASSUME NEW n \in Nat
  PROVE  /\ MajorPages(n) \in Nat /\ 1 <= MajorPages(n)
         /\ Need(n) + H <= MajorPages(n) * PageSize
  <1> DEFINE s == n + ALIGNMENT + ALIGN_INFO + H + h
             d == s \div PageSize
             r == s % PageSize
             c == d + (IF r = 0 THEN 0 ELSE 1)
             P == MajorPages(n)
  <1>1. s \in Nat /\ 0 < s /\ s = Need(n) + H
    BY DEF ALIGNMENT, ALIGN_INFO, H, h, Need
  <1>2. PageSize \in Nat /\ 0 < PageSize /\ PageCount \in Nat /\ 0 < PageCount
    BY HeapAssumption
  <1>3. P = Max({c, PageCount})
    BY DEF MajorPages
  <1> HIDE DEF s, P
  <1>4. d \in Nat /\ r \in Nat /\ r < PageSize /\ s = PageSize * d + r
    <2>1. d \in Nat /\ r \in 0 .. PageSize - 1 /\ s = PageSize * d + r
      BY <1>1, <1>2, Division
    <2> HIDE DEF d, r
    <2> QED BY <2>1, <1>2
  <1> HIDE DEF d, r
  <1>5. c \in Nat /\ s <= c * PageSize
    <2>1. CASE r = 0
      BY <2>1, <1>2, <1>4
    <2>2. CASE r # 0
      <3>1. c = d + 1 /\ c * PageSize = PageSize * d + PageSize
        BY <2>2, <1>2, <1>4
      <3>2. PageSize * d \in Nat
        BY <1>2, <1>4
      <3> QED BY <3>1, <3>2, <1>2, <1>4
    <2> QED BY <2>1, <2>2
  <1> HIDE DEF c
  <1>6. P \in {c, PageCount} /\ c <= P /\ PageCount <= P
    <2>1. CASE c <= PageCount
      <3>1. Max({c, PageCount}) = PageCount
        BY <2>1, <1>2, <1>5 DEF Max
      <3> QED BY <2>1, <3>1, <1>2, <1>3
    <2>2. CASE PageCount <= c
      <3>1. Max({c, PageCount}) = c
        BY <2>2, <1>2, <1>5 DEF Max
      <3> QED BY <2>2, <3>1, <1>3, <1>5
    <2> QED BY <2>1, <2>2, <1>2, <1>5
  <1>7. P \in Nat /\ 1 <= P /\ c <= P
    BY <1>2, <1>5, <1>6
  <1>8. c * PageSize <= P * PageSize
    <2>1. PICK e \in Nat : P = c + e
      <3>1. P - c \in Nat
        BY <1>5, <1>7
      <3> QED BY <3>1, <1>5, <1>7
    <2>2. P * PageSize = c * PageSize + e * PageSize
      BY <2>1, <1>2, <1>5
    <2>3. e * PageSize \in Nat /\ c * PageSize \in Nat
      BY <1>2, <1>5
    <2> QED BY <2>2, <2>3
  <1> QED BY <1>1, <1>2, <1>5, <1>7, <1>8 DEF P

\* The heap with a new, empty major at the end of its chain.
LEMMA GrowFacts ==
  ASSUME NEW hp, HeapOK(hp), NEW n \in Nat, Runs(hp, MajorPages(n)) # {}
  PROVE  LET q == Grow(hp, n) IN
           /\ HeapOK(q) /\ AllBlocks(q) = AllBlocks(hp)
           /\ Len(q.majors) = Len(hp.majors) + 1 /\ Len(hp.majors) \in Nat
           /\ \A k \in 1 .. Len(hp.majors) : q.majors[k] = hp.majors[k]
           /\ q.majors[Len(q.majors)].minors = <<>>
           /\ Need(n) + H <= End(q.majors[Len(q.majors)])
           /\ ~(hp.pool \subseteq q.pool)
  <1> DEFINE st == MajorPages(n)
             page == Min(Runs(hp, st))
             m == [page |-> page, pages |-> st, usage |-> H, minors |-> <<>>]
             ms == hp.majors
             ns == Append(ms, m)
             q == Grow(hp, n)
  <1>1. /\ hp \in HeapType /\ ms \in Seq(MajorType) /\ Chain(ms)
        /\ hp.inuse = Total(Takens(ms)) /\ hp.allocated = Total(Lengths(ms))
        /\ hp.pool = PageIds \ Pages(ms) /\ Len(ms) \in Nat
        /\ hp.bestBet # None => \E k \in 1 .. Len(ms) : ms[k].page = hp.bestBet
    BY HeapFacts DEF HeapOK, Chain
  <1>2. st \in Nat /\ 1 <= st /\ Need(n) + H <= st * PageSize
    BY MajorPagesFacts
  <1>3. page \in PageIds /\ Run(page, st) \subseteq hp.pool
    <2>1. Runs(hp, st) \subseteq Nat /\ Runs(hp, st) # {}
      BY DEF Runs
    <2> HIDE DEF st
    <2>2. page \in Runs(hp, st)
      BY <2>1, Least
    <2> QED BY <2>2 DEF Runs, PageIds
  <1> HIDE DEF st, page
  <1>4. page \in Run(page, st) /\ page + st - 1 \in Run(page, st) /\ page \in Nat
    BY <1>2, <1>3 DEF Run, PageIds
  <1>5. st \in 1 .. NumPages
    <2>1. page + st - 1 \in PageIds
      BY <1>1, <1>3, <1>4
    <2> QED BY <2>1, <1>2, <1>4, HeapAssumption DEF PageIds
  <1>6. m \in MajorType
    <2>1. m.minors \in Seq([off : Nat, size : Nat, req_size : Nat])
      OBVIOUS
    <2>2. H \in Nat
      BY DEF H
    <2> QED BY <2>1, <2>2, <1>3, <1>5 DEF MajorType, PageIds
  <1>7. m.page = page /\ m.pages = st /\ m.usage = H /\ m.minors = <<>> /\ Len(m.minors) = 0
    OBVIOUS
  <1> HIDE DEF m
  <1>8. Total(Charged(m)) = 0 /\ Total(Taken(m)) = 0 /\ Blocks(m) = {}
    <2>1. Len(Charged(m)) = 0 /\ Len(Taken(m)) = 0
      BY <1>6, <1>7, ChargedFacts
    <2>2. \A s : Len(s) = 0 => Total(s) = 0
      <3> SUFFICES ASSUME NEW s, Len(s) = 0 PROVE Total(s) = 0
        OBVIOUS
      <3>1. PICK u : Running(s, u)
        BY RunningExists
      <3> QED BY <3>1, TotalIs, RunningSteps
    <2> QED BY <2>1, <2>2, <1>7 DEF Blocks
  <1>9. Major(m) /\ End(m) = st * PageSize /\ Mine(m) = Run(page, st)
    BY <1>6, <1>7, <1>8 DEF Major, End, Mine, H
  <1>10. Extended(ms, m, ns)
    BY <1>1, <1>3, <1>9 DEF Extended
  <1>11. /\ q.majors = ns /\ q.bestBet = hp.bestBet
         /\ q.pool = hp.pool \ Mine(m) /\ q.inuse = hp.inuse
         /\ q.allocated = hp.allocated + m.pages * PageSize
         /\ q = [majors |-> q.majors, bestBet |-> q.bestBet, pool |-> q.pool,
                 allocated |-> q.allocated, inuse |-> q.inuse]
    <2>1. hp = [majors |-> hp.majors, bestBet |-> hp.bestBet, pool |-> hp.pool,
                allocated |-> hp.allocated, inuse |-> hp.inuse]
      BY <1>1, HeapFacts
    <2>2. q = [hp EXCEPT !.majors = ns,
                         !.pool = hp.pool \ Mine(m),
                         !.allocated = hp.allocated + m.pages * PageSize]
      BY <1>9, <1>7 DEF Grow, m, st, page
    <2> HIDE DEF q, ns
    <2> QED BY <2>1, <2>2
  <1> HIDE DEF ns, q
  <1>12. /\ ns \in Seq(MajorType) /\ Len(ns) = Len(ms) + 1
         /\ ns[Len(ns)] = m /\ \A k \in 1 .. Len(ms) : ns[k] = ms[k]
         /\ Chain(ns) /\ Pages(ns) = Pages(ms) \cup Mine(m)
         /\ BlocksOf(ns) = BlocksOf(ms) \cup Blocks(m)
         /\ Total(Lengths(ns)) = Total(Lengths(ms)) + m.pages * PageSize
         /\ Total(Takens(ns)) = Total(Takens(ms)) + Total(Taken(m))
    BY <1>10, ChainAppend
  <1>13. q.pool = PageIds \ Pages(ns)
    BY <1>1, <1>11, <1>12
  <1>14. q.bestBet # None => \E k \in 1 .. Len(ns) : ns[k].page = q.bestBet
    <2>1. \A k \in 1 .. Len(ms) : k \in 1 .. Len(ns)
      BY <1>1, <1>12
    <2> QED BY <2>1, <1>1, <1>11, <1>12
  <1>15. q.allocated = Total(Lengths(ns)) /\ q.inuse = Total(Takens(ns))
         /\ q.allocated \in Nat /\ q.inuse \in Nat
    <2>1. hp.allocated \in Nat /\ hp.inuse \in Nat
      BY <1>1, HeapFacts
    <2>2. m.pages * PageSize \in Nat
      BY <1>6, MajorFacts DEF End
    <2> HIDE DEF ms
    <2> QED BY <2>1, <2>2, <1>1, <1>8, <1>11, <1>12
  <1>16. q \in HeapType
    <2>1. q.pool \subseteq PageIds /\ q.bestBet \in PageIds \cup {None}
      BY <1>1, <1>11, <1>13, HeapFacts
    <2> QED BY <2>1, <1>11, <1>12, <1>15 DEF HeapType
  <1>17. HeapOK(q)
    BY <1>11, <1>12, <1>13, <1>14, <1>15, <1>16 DEF HeapOK
  <1>18. AllBlocks(q) = AllBlocks(hp)
    BY <1>8, <1>11, <1>12 DEF AllBlocks
  <1>19. ~(hp.pool \subseteq q.pool)
    BY <1>3, <1>4, <1>9, <1>11
  <1>20. /\ Len(q.majors) = Len(hp.majors) + 1 /\ Len(hp.majors) \in Nat
         /\ \A k \in 1 .. Len(hp.majors) : q.majors[k] = hp.majors[k]
         /\ q.majors[Len(q.majors)].minors = <<>>
         /\ Need(n) + H <= End(q.majors[Len(q.majors)])
    BY <1>1, <1>2, <1>7, <1>9, <1>11, <1>12
  <1> QED BY <1>17, <1>18, <1>19, <1>20 DEF q

-----------------------------------------------------------------------------
(* malloc and free.                                                        *)

LEMMA NeedFacts ==
  ASSUME NEW n \in Nat
  PROVE  Need(n) \in Nat /\ 0 < Need(n)
  BY DEF Need, ALIGNMENT, ALIGN_INFO, h

\* malloc looks at every major, whatever the best bet is.
LEMMA VisitsFacts ==
  ASSUME NEW hp, HeapOK(hp), NEW n \in Nat
  PROVE  /\ Visits(hp, n) \in Seq(1 .. Len(hp.majors))
         /\ \A i \in 1 .. Len(hp.majors) : \E v \in DOMAIN Visits(hp, n) : Visits(hp, n)[v] = i
  <1> DEFINE len == Len(hp.majors)
             all == [i \in 1 .. len |-> i]
             S == 1 .. len
  <1>1. len \in Nat
    BY HeapFacts DEF HeapOK
  <1>2. all \in Seq(S) /\ Len(all) = len /\ \A i \in S : all[i] = i
    BY <1>1, IsASeq
  <1> HIDE DEF all
  <1>3. CASE BetRoom(hp) > Need(n)
    <2> DEFINE p == At(hp, hp.bestBet)
               a == SubSeq(all, p, len)
    <2>1. hp.bestBet # None
      BY <1>3, NeedFacts DEF BetRoom
    <2>2. p \in S
      <3>1. PICK k \in S : hp.majors[k].page = hp.bestBet
        BY <2>1 DEF HeapOK
      <3> QED BY <3>1 DEF At
    <2> HIDE DEF p
    <2>3. a \in Seq(S) /\ Len(a) \in Nat
      <3>1. p \in Int /\ len \in Int /\ \A i \in p .. len : all[i] \in S
        BY <1>1, <1>2, <2>2, SMTT(30)
      <3> HIDE DEF len, S
      <3>2. a \in Seq(S)
        BY <3>1, SubSeqProperties
      <3> HIDE DEF a
      <3> QED BY <3>2, LenProperties
    <2>4. Visits(hp, n) = a \o all
      BY <1>2, <1>3 DEF Visits, all, p
    <2> HIDE DEF a
    <2>5. /\ a \o all \in Seq(S) /\ Len(a \o all) = Len(a) + len
          /\ \A i \in 1 .. Len(a) + len : (a \o all)[i] = IF i <= Len(a) THEN a[i] ELSE all[i - Len(a)]
      <3> HIDE DEF S, len
      <3> QED BY <1>2, <2>3, ConcatProperties
    <2>6. ASSUME NEW i \in S PROVE \E v \in DOMAIN Visits(hp, n) : Visits(hp, n)[v] = i
      <3>1. /\ Len(a) + i \in 1 .. Len(a) + len /\ ~(Len(a) + i <= Len(a))
            /\ (Len(a) + i) - Len(a) = i
        BY <1>1, <2>3
      <3>2. (a \o all)[Len(a) + i] = i
        BY <3>1, <2>5, <1>2
      <3>3. Len(a) + i \in DOMAIN (a \o all)
        BY <3>1, <2>5, LenProperties
      <3> QED BY <3>2, <3>3, <2>4
    <2> QED BY <2>4, <2>5, <2>6
  <1>4. CASE ~(BetRoom(hp) > Need(n))
    <2>1. Visits(hp, n) = all
      BY <1>4 DEF Visits, all
    <2>2. DOMAIN all = S
      BY <1>2, LenProperties
    <2> QED BY <2>1, <2>2, <1>2
  <1> QED BY <1>3, <1>4

\* malloc returns a block at an address nobody has; only when no major has a gap
\* does it take pages.
LEMMA MallocFacts ==
  ASSUME NEW hp, HeapOK(hp), Filled(hp), NEW n \in Nat, ~Exhausted(hp, n)
  PROVE  LET s == malloc(hp, n) IN
           /\ HeapOK(s.hp) /\ Filled(s.hp)
           /\ AllBlocks(s.hp) = AllBlocks(hp) \cup {[p |-> s.p, n |-> n]}
           /\ \A b \in AllBlocks(hp) : b.p # s.p
           /\ ~(hp.pool \subseteq s.hp.pool) =>
                \A i \in 1 .. Len(hp.majors) : Fitting(hp.majors[i], n) = {}
  <1> DEFINE s == malloc(hp, n)
             S == 1 .. Len(hp.majors)
             vs == Visits(hp, n)
  <1>1. /\ vs \in Seq(S) /\ \A i \in S : \E v \in DOMAIN vs : vs[v] = i
        /\ Len(vs) \in Nat /\ DOMAIN vs = 1 .. Len(vs) /\ \A v \in 1 .. Len(vs) : vs[v] \in S
    <2>1. vs \in Seq(S) /\ \A i \in S : \E v \in DOMAIN vs : vs[v] = i
      BY VisitsFacts
    <2> HIDE DEF vs
    <2> QED BY <2>1, LenProperties, ElementOfSeq
  <1>2. CASE Hits(hp, n) # {}
    <2> DEFINE v == Min(Hits(hp, n))
               i == Hit(hp, n)
               seen == SubSeq(vs, 1, v)
               r == Remember(hp, seen)
               j == FirstGap(hp.majors[i], n)
               q == Squeeze(r, i, j, n)
    <2>1. s = q
      BY <1>2 DEF malloc
    <2>2. v \in Hits(hp, n) /\ i = vs[v]
      <3>1. Hits(hp, n) \subseteq Nat
        BY <1>1 DEF Hits
      <3> QED BY <1>2, <3>1, Least DEF Hit
    <2>3. v \in 1 .. Len(vs) /\ i \in S /\ Fits(hp.majors[i], n)
      BY <2>2, <1>1 DEF Hits
    <2> HIDE DEF v, vs, i
    <2>4. seen \in Seq(S)
      BY <1>1, <2>3, SubSeqProperties
    <2> HIDE DEF seen
    <2>5. HeapOK(r) /\ r.majors = hp.majors /\ r.pool = hp.pool /\ AllBlocks(r) = AllBlocks(hp)
      BY <2>4, RememberFacts
    <2> HIDE DEF r
    <2>6. j \in Fitting(hp.majors[i], n)
      <3>1. Fitting(hp.majors[i], n) # {} /\ Fitting(hp.majors[i], n) \subseteq Nat
        BY <2>3 DEF Fits, Fitting
      <3> QED BY <3>1, Least DEF FirstGap
    <2> HIDE DEF j
    <2>7. Gap(r, i, j, n) /\ i \in 1 .. Len(r.majors)
      BY <2>3, <2>5, <2>6 DEF Fitting, Gap
    <2>8. /\ HeapOK(q.hp) /\ Len(q.hp.majors) = Len(r.majors)
          /\ AllBlocks(q.hp) = AllBlocks(r) \cup {[p |-> q.p, n |-> n]}
          /\ \A b \in AllBlocks(r) : b.p # q.p
          /\ q.hp.majors[i].minors # <<>>
          /\ \A k \in 1 .. Len(r.majors) : k # i => q.hp.majors[k] = r.majors[k]
          /\ q.hp.pool = r.pool
      BY <2>7, SqueezeFacts
    <2> HIDE DEF q, s
    <2>9. Filled(q.hp)
      BY <2>5, <2>7, <2>8 DEF Filled
    <2> QED BY <2>1, <2>5, <2>8, <2>9 DEF s
  <1>3. CASE Hits(hp, n) = {}
    <2> DEFINE r == Remember(hp, vs)
               g == Grow(r, n)
               last == Len(g.majors)
               t == IF r.majors = <<>> \/ Room(Last(r.majors)) >= Need(n)
                    THEN Remember(g, <<last>>) ELSE g
               q == Squeeze(t, last, 0, n)
    <2>1. s = q
      BY <1>3 DEF malloc, Extend
    <2>2. HeapOK(r) /\ r.majors = hp.majors /\ r.pool = hp.pool /\ AllBlocks(r) = AllBlocks(hp)
      BY <1>1, RememberFacts
    <2>3. Runs(r, MajorPages(n)) # {}
      BY <1>3, <2>2 DEF Exhausted, Runs
    <2> HIDE DEF r
    <2>4. /\ HeapOK(g) /\ AllBlocks(g) = AllBlocks(r)
          /\ last = Len(r.majors) + 1 /\ Len(r.majors) \in Nat
          /\ \A k \in 1 .. Len(r.majors) : g.majors[k] = r.majors[k]
          /\ g.majors[last].minors = <<>>
          /\ Need(n) + H <= End(g.majors[last])
      BY <2>2, <2>3, GrowFacts
    <2> HIDE DEF g
    <2>5. last \in 1 .. Len(g.majors) /\ <<last>> \in Seq(1 .. Len(g.majors))
      BY <2>4
    <2>6. HeapOK(t) /\ t.majors = g.majors /\ AllBlocks(t) = AllBlocks(g)
      <3>1. /\ HeapOK(Remember(g, <<last>>)) /\ Remember(g, <<last>>).majors = g.majors
            /\ AllBlocks(Remember(g, <<last>>)) = AllBlocks(g)
        <4> HIDE DEF last
        <4> QED BY <2>4, <2>5, RememberFacts
      <3> QED BY <3>1, <2>4
    <2> HIDE DEF t, last
    <2>7. /\ last \in 1 .. Len(t.majors) /\ 0 \in 0 .. Len(t.majors[last].minors)
          /\ GapEnd(t.majors[last], 0) - GapStart(t.majors[last], 0) >= Need(n)
      <3>1. Len(t.majors[last].minors) = 0
        BY <2>4, <2>6
      <3>2. /\ GapEnd(t.majors[last], 0) = End(t.majors[last])
            /\ GapStart(t.majors[last], 0) = H
        BY <3>1 DEF GapEnd, GapStart, End
      <3>3. End(t.majors[last]) \in Nat /\ Need(n) + H <= End(t.majors[last])
        <4>1. t.majors[last] \in MajorType
          BY <2>5, <2>6, HeapFacts DEF HeapOK
        <4> QED BY <4>1, <2>4, <2>6, MajorFacts
      <3> QED BY <3>1, <3>2, <3>3, <2>5, <2>6, NeedFacts DEF H
    <2>e. Gap(t, last, 0, n)
      BY <2>6, <2>7 DEF Gap
    <2>8. /\ HeapOK(q.hp) /\ Len(q.hp.majors) = Len(t.majors)
          /\ AllBlocks(q.hp) = AllBlocks(t) \cup {[p |-> q.p, n |-> n]}
          /\ \A b \in AllBlocks(t) : b.p # q.p
          /\ q.hp.majors[last].minors # <<>>
          /\ \A k \in 1 .. Len(t.majors) : k # last => q.hp.majors[k] = t.majors[k]
      BY <2>e, SqueezeFacts
    <2> HIDE DEF q, s
    <2>9. Filled(q.hp)
      <3> SUFFICES ASSUME NEW k \in 1 .. Len(q.hp.majors) PROVE q.hp.majors[k].minors # <<>>
        BY DEF Filled
      <3>1. CASE k = last
        BY <3>1, <2>8
      <3>2. CASE k # last
        <4>1. k \in 1 .. Len(r.majors)
          BY <3>2, <2>4, <2>6, <2>8 DEF last
        <4>2. q.hp.majors[k] = hp.majors[k]
          BY <3>2, <4>1, <2>2, <2>4, <2>6, <2>8
        <4> QED BY <4>1, <4>2, <2>2 DEF Filled
      <3> QED BY <3>1, <3>2
    <2>10. \A i \in S : Fitting(hp.majors[i], n) = {}
      <3> SUFFICES ASSUME NEW i \in S, NEW j \in Fitting(hp.majors[i], n) PROVE FALSE
        OBVIOUS
      <3> DEFINE m == hp.majors[i]
      <3>1. Major(m) /\ m \in MajorType
        BY DEF HeapOK, Chain, Major
      <3>2. j \in 0 .. Len(m.minors) /\ GapEnd(m, j) - GapStart(m, j) >= Need(n)
        BY DEF Fitting
      <3> HIDE DEF m
      <3>3. GapEnd(m, j) - GapStart(m, j) <= Room(m)
        BY <3>1, <3>2, GapInRoom
      <3>4. /\ GapEnd(m, j) \in Nat /\ GapStart(m, j) \in Nat /\ Need(n) \in Nat
            /\ Room(m) \in Int
        BY <3>1, <3>2, GapFacts, NeedFacts, MajorFacts DEF Room, End
      <3>5. Fits(m, n)
        BY <3>2, <3>3, <3>4 DEF Fits, m
      <3>6. PICK v \in DOMAIN vs : vs[v] = i
        BY <1>1
      <3>7. v \in Hits(hp, n)
        BY <3>5, <3>6 DEF Hits, m
      <3> QED BY <3>7, <1>3
    <2> QED BY <2>1, <2>2, <2>4, <2>6, <2>8, <2>9, <2>10 DEF s
  <1> QED BY <1>2, <1>3

\* free gives back one block, and the pages of a major that is empty then.
LEMMA FreeFacts ==
  ASSUME NEW hp, HeapOK(hp), Filled(hp), NEW b \in AllBlocks(hp)
  PROVE  LET q == free(hp, b.p) IN
           /\ HeapOK(q) /\ Filled(q)
           /\ AllBlocks(q) = AllBlocks(hp) \ {b}
           /\ hp.pool \subseteq q.pool
  <1> DEFINE i == Owner(hp, b.p)[1]
             j == Owner(hp, b.p)[2]
             m == hp.majors[i]
             u == Drop(m, j)
             less == [hp EXCEPT !.majors[i] = u, !.inuse = @ - m.minors[j].size]
             q == free(hp, b.p)
  <1>1. /\ i \in 1 .. Len(hp.majors) /\ j \in 1 .. Len(m.minors)
        /\ b = Block(m, m.minors[j])
    BY OwnerFacts
  <1>2. q = IF less.majors[i].minors = <<>> THEN Release(less, i)
            ELSE IF less.bestBet # None THEN Remember(less, <<i>>) ELSE less
    BY DEF free
  <1> HIDE DEF i, j, q
  <1>3. Major(m) /\ m \in MajorType /\ hp \in HeapType /\ hp.inuse \in Nat
    BY <1>1, HeapFacts DEF HeapOK, Chain, Major
  <1>4. /\ Major(u) /\ u.page = m.page /\ u.pages = m.pages
        /\ Blocks(u) = Blocks(m) \ {b}
        /\ Total(Taken(u)) = Total(Taken(m)) - m.minors[j].size
    <2> HIDE DEF m
    <2> QED BY <1>1, <1>3, DropFacts
  <1>5. m.minors[j].size \in Nat /\ Total(Taken(m)) \in Nat
    BY <1>1, <1>3, MajorFacts, ChargedFacts
  <1>6. /\ less.inuse = hp.inuse - m.minors[j].size
        /\ less = [hp EXCEPT !.majors[i] = u, !.inuse = less.inuse]
    <2>1. hp = [majors |-> hp.majors, bestBet |-> hp.bestBet, pool |-> hp.pool,
                allocated |-> hp.allocated, inuse |-> hp.inuse]
      BY <1>3, HeapFacts
    <2> HIDE DEF u, m
    <2> QED BY <2>1
  <1> HIDE DEF u, less
  <1>7. less.inuse = hp.inuse - Total(Taken(m)) + Total(Taken(u))
    <2> DEFINE x == m.minors[j].size
               y == Total(Taken(m))
               z == Total(Taken(u))
    <2>1. x \in Nat /\ y \in Nat /\ z = y - x /\ less.inuse = hp.inuse - x
      BY <1>4, <1>5, <1>6
    <2> HIDE DEF x, y, z
    <2>2. less.inuse = hp.inuse - y + z
      BY <2>1, <1>3
    <2> QED BY <2>2 DEF y, z
  <1>8. Updated(hp, i, u, less)
    BY <1>1, <1>4, <1>6, <1>7 DEF Updated
  <1>9. /\ HeapOK(less) /\ Len(less.majors) = Len(hp.majors)
        /\ less.majors[i] = u
        /\ \A k \in 1 .. Len(hp.majors) : k # i => less.majors[k] = hp.majors[k]
        /\ less.pool = hp.pool
        /\ AllBlocks(less) = Others(hp.majors, i) \cup Blocks(u)
    BY <1>8, UpdateFacts
  <1>10. AllBlocks(less) = AllBlocks(hp) \ {b}
    <2>1. AllBlocks(hp) = Others(hp.majors, i) \cup Blocks(m)
      BY <1>1, BlocksSplit DEF AllBlocks
    <2>2. b \notin Others(hp.majors, i)
      BY <1>1, NotElsewhere DEF HeapOK, Blocks
    <2> HIDE DEF m
    <2> QED BY <2>1, <2>2, <1>4, <1>9
  <1>11. CASE u.minors = <<>>
    <2>1. q = Release(less, i)
      BY <1>2, <1>9, <1>11
    <2>2. /\ HeapOK(q) /\ AllBlocks(q) = AllBlocks(less)
          /\ \A k \in 1 .. Len(q.majors) :
               \E l \in (1 .. Len(less.majors)) \ {i} : q.majors[k] = less.majors[l]
          /\ less.pool \subseteq q.pool
      <3>1. Emptied(less, i)
        BY <1>1, <1>9, <1>11 DEF Emptied
      <3> QED BY <2>1, <3>1, ReleaseFacts
    <2>3. Filled(q)
      BY <2>2, <1>9 DEF Filled
    <2> QED BY <2>2, <2>3, <1>9, <1>10 DEF q
  <1>12. CASE u.minors # <<>>
    <2>1. Filled(less)
      BY <1>9, <1>12 DEF Filled
    <2>2. CASE less.bestBet # None
      <3>1. q = Remember(less, <<i>>) /\ <<i>> \in Seq(1 .. Len(less.majors))
        BY <2>2, <1>1, <1>2, <1>9, <1>12
      <3>2. HeapOK(q) /\ q.majors = less.majors /\ q.pool = less.pool /\ AllBlocks(q) = AllBlocks(less)
        BY <3>1, <1>9, RememberFacts
      <3>3. Filled(q)
        BY <3>2, <2>1 DEF Filled
      <3> QED BY <3>2, <3>3, <1>9, <1>10 DEF q
    <2>3. CASE less.bestBet = None
      <3>1. q = less
        BY <2>3, <1>2, <1>9, <1>12
      <3> QED BY <3>1, <2>1, <1>9, <1>10 DEF q
    <2> QED BY <2>2, <2>3
  <1> QED BY <1>11, <1>12

\* realloc to a size that is not larger leaves the block where it is.
Smaller(hp, b, n, o) ==
  /\ HeapOK(hp) /\ Filled(hp) /\ b \in AllBlocks(hp) /\ n \in Nat
  /\ o = Owner(hp, b.p) /\ n <= hp.majors[o[1]].minors[o[2]].req_size

Shrunk(hp, o, n) == [hp EXCEPT !.majors[o[1]].minors[o[2]].req_size = n]

LEMMA ReallocFacts ==
  ASSUME NEW hp, NEW b, NEW n, NEW o, Smaller(hp, b, n, o)
  PROVE  LET q == Shrunk(hp, o, n) IN
           /\ HeapOK(q) /\ Filled(q) /\ q.pool = hp.pool
           /\ AllBlocks(q) = (AllBlocks(hp) \ {b}) \cup {[b EXCEPT !.n = n]}
  <1> DEFINE i == o[1]
             j == o[2]
             m == hp.majors[i]
             u == [m EXCEPT !.minors[j].req_size = n]
             q == Shrunk(hp, o, n)
  <1>0. /\ HeapOK(hp) /\ Filled(hp) /\ b \in AllBlocks(hp) /\ n \in Nat
        /\ o = Owner(hp, b.p) /\ n <= m.minors[j].req_size
    BY DEF Smaller
  <1>1. /\ i \in 1 .. Len(hp.majors) /\ j \in 1 .. Len(m.minors)
        /\ b = Block(m, m.minors[j]) /\ n <= m.minors[j].req_size
    BY <1>0, OwnerFacts
  <1> HIDE DEF i, j
  <1>2. Major(m) /\ m \in MajorType /\ hp \in HeapType /\ hp.inuse \in Nat /\ Chain(hp.majors)
    BY <1>0, <1>1, HeapFacts DEF HeapOK, Chain, Major
  <1>3. /\ Major(u) /\ u.page = m.page /\ u.pages = m.pages /\ Len(u.minors) = Len(m.minors)
        /\ Blocks(u) = (Blocks(m) \ {b}) \cup {[b EXCEPT !.n = n]}
        /\ Total(Taken(u)) = Total(Taken(m))
    <2> HIDE DEF m
    <2>1. /\ Major(u) /\ u.page = m.page /\ u.pages = m.pages
          /\ Len(u.minors) = Len(m.minors)
          /\ Blocks(u) = (Blocks(m) \ {Block(m, m.minors[j])})
                           \cup {[Block(m, m.minors[j]) EXCEPT !.n = n]}
          /\ Total(Taken(u)) = Total(Taken(m))
      BY <1>0, <1>1, <1>2, ShrinkFacts
    <2> HIDE DEF u
    <2> QED BY <2>1, <1>1
  <1>4. q.inuse = hp.inuse /\ q = [hp EXCEPT !.majors[i] = u, !.inuse = q.inuse]
    <2>1. hp = [majors |-> hp.majors, bestBet |-> hp.bestBet, pool |-> hp.pool,
                allocated |-> hp.allocated, inuse |-> hp.inuse]
      BY <1>2, HeapFacts
    <2>2. q = [hp EXCEPT !.majors[i] = u]
      BY DEF Shrunk, i, j
    <2> HIDE DEF u, q
    <2> QED BY <2>1, <2>2
  <1> HIDE DEF u, q
  <1>5. Updated(hp, i, u, q)
    <2>1. q.inuse = hp.inuse - Total(Taken(m)) + Total(Taken(u))
      <3>1. Total(Taken(m)) \in Nat
        BY <1>2, ChargedFacts
      <3> HIDE DEF m
      <3> QED BY <3>1, <1>2, <1>3, <1>4
    <2> QED BY <2>1, <1>0, <1>1, <1>3, <1>4 DEF Updated
  <1>6. /\ HeapOK(q) /\ Len(q.majors) = Len(hp.majors) /\ q.majors[i] = u /\ q.pool = hp.pool
        /\ \A k \in 1 .. Len(hp.majors) : k # i => q.majors[k] = hp.majors[k]
        /\ AllBlocks(q) = Others(hp.majors, i) \cup Blocks(u)
    BY <1>5, UpdateFacts
  <1>7. AllBlocks(q) = (AllBlocks(hp) \ {b}) \cup {[b EXCEPT !.n = n]}
    <2>1. AllBlocks(hp) = Others(hp.majors, i) \cup Blocks(m)
      BY <1>1, BlocksSplit DEF AllBlocks
    <2>2. b \notin Others(hp.majors, i)
      BY <1>1, <1>2, NotElsewhere DEF Blocks
    <2> HIDE DEF m
    <2> QED BY <2>1, <2>2, <1>3, <1>6
  <1>8. Filled(q)
    <2>1. u.minors # <<>>
      <3>1. Len(m.minors) \in Nat
        BY <1>2, MajorFacts
      <3>2. j \in 1 .. Len(m.minors)
        BY <1>1
      <3> HIDE DEF m
      <3> QED BY <3>1, <3>2, <1>3
    <2> QED BY <2>1, <1>0, <1>6 DEF Filled
  <1> QED BY <1>6, <1>7, <1>8 DEF q, i, j

-----------------------------------------------------------------------------
(* The inductive invariant: the heap is in order, no major is empty, and   *)
(* the blocks that clients hold are the minors, each seen by its address.  *)

HeapInv ==
  /\ HeapOK(heap) /\ Filled(heap)
  /\ live = AllBlocks(heap) /\ IsFiniteSet(live)
  /\ halted \in BOOLEAN

\* A step that takes pages for n units found no gap for them.
Full(n) ==
  ~(heap.pool \subseteq heap'.pool) =>
    \A i \in 1 .. Len(heap.majors) : Fitting(heap.majors[i], n) = {}

LEMMA InitInv == Init => HeapInv
  <1> SUFFICES ASSUME Init PROVE HeapInv
    OBVIOUS
  <1>1. /\ heap.majors = <<>> /\ heap.bestBet = None /\ heap.pool = PageIds
        /\ heap.allocated = 0 /\ heap.inuse = 0 /\ heap \in HeapType /\ Len(heap.majors) = 0
    BY DEF Init, HeapType, PageIds
  <1>2. Len(Lengths(<<>>)) = 0 /\ Len(Takens(<<>>)) = 0
    <2>1. <<>> \in Seq(MajorType) /\ Len(<<>>) = 0
      OBVIOUS
    <2> QED BY <2>1, SumFacts
  <1>3. \A s : Len(s) = 0 => Total(s) = 0
    <2> SUFFICES ASSUME NEW s, Len(s) = 0 PROVE Total(s) = 0
      OBVIOUS
    <2>1. PICK u : Running(s, u)
      BY RunningExists
    <2> QED BY <2>1, TotalIs, RunningSteps
  <1>4. Chain(heap.majors) /\ Pages(heap.majors) = {} /\ BlocksOf(heap.majors) = {}
    BY <1>1 DEF Chain, Pages, BlocksOf
  <1>5. HeapOK(heap)
    BY <1>1, <1>2, <1>3, <1>4 DEF HeapOK
  <1>6. IsFiniteSet({})
    BY FS_EmptySet
  <1>7. Filled(heap) /\ AllBlocks(heap) = {}
    BY <1>1, <1>4 DEF Filled, AllBlocks
  <1> QED BY <1>5, <1>6, <1>7 DEF Init, HeapInv

LEMMA MallocInv ==
  ASSUME HeapInv, NEW n \in Nat, Malloc(n)
  PROVE  HeapInv' /\ Full(n) /\ \A b \in live' \ live : b.n = n
  <1>1. CASE Exhausted(heap, n)
    <2>1. Abort
      BY <1>1 DEF Malloc
    <2>2. heap' = heap /\ live' = live /\ halted' = TRUE
      BY <2>1 DEF Abort
    <2> QED BY <2>2 DEF HeapInv, Full
  <1>2. CASE ~Exhausted(heap, n)
    <2> DEFINE s == malloc(heap, n)
    <2>1. /\ heap' = s.hp /\ live' = live \cup {[p |-> s.p, n |-> n]} /\ halted' = halted
      BY <1>2 DEF Malloc
    <2>2. /\ HeapOK(s.hp) /\ Filled(s.hp)
          /\ AllBlocks(s.hp) = AllBlocks(heap) \cup {[p |-> s.p, n |-> n]}
          /\ ~(heap.pool \subseteq s.hp.pool) =>
               \A i \in 1 .. Len(heap.majors) : Fitting(heap.majors[i], n) = {}
      BY <1>2, MallocFacts DEF HeapInv
    <2> HIDE DEF s
    <2>3. IsFiniteSet(live')
      BY <2>1, FS_AddElement DEF HeapInv
    <2>4. HeapInv'
      BY <2>1, <2>2, <2>3 DEF HeapInv
    <2>5. Full(n)
      BY <2>1, <2>2 DEF Full
    <2>6. \A b \in live' \ live : b.n = n
      BY <2>1
    <2> QED BY <2>4, <2>5, <2>6
  <1> QED BY <1>1, <1>2

LEMMA FreeInv ==
  ASSUME HeapInv, NEW b \in live, Free(b)
  PROVE  HeapInv' /\ heap.pool \subseteq heap'.pool
  <1> DEFINE q == free(heap, b.p)
  <1>1. heap' = q /\ live' = live \ {b} /\ halted' = halted
    BY DEF Free
  <1>2. /\ HeapOK(q) /\ Filled(q) /\ AllBlocks(q) = AllBlocks(heap) \ {b}
        /\ heap.pool \subseteq q.pool
    BY FreeFacts DEF HeapInv
  <1> HIDE DEF q
  <1>3. IsFiniteSet(live')
    BY <1>1, FS_RemoveElement DEF HeapInv
  <1> QED BY <1>1, <1>2, <1>3 DEF HeapInv

LEMMA ReallocInv ==
  ASSUME HeapInv, NEW b \in live, NEW n \in Nat, Realloc(b, n)
  PROVE  HeapInv' /\ Full(n) /\ \A c \in live' \ live : c.n = n
  <1> DEFINE o == Owner(heap, b.p)
             asked == heap.majors[o[1]].minors[o[2]].req_size
             s == malloc(heap, n)
             q == Shrunk(heap, o, n)
             c == [b EXCEPT !.n = n]
             r == free(s.hp, b.p)
  <1>1. HeapOK(heap) /\ Filled(heap) /\ live = AllBlocks(heap) /\ IsFiniteSet(live)
        /\ halted \in BOOLEAN
    BY DEF HeapInv
  <1>2. asked \in Nat
    <2>1. o[1] \in 1 .. Len(heap.majors) /\ o[2] \in 1 .. Len(heap.majors[o[1]].minors)
      BY <1>1, OwnerFacts
    <2> HIDE DEF o
    <2>2. heap.majors[o[1]] \in MajorType
      BY <1>1, <2>1, HeapFacts DEF HeapOK
    <2> QED BY <2>1, <2>2, MajorFacts
  <1>3. CASE asked >= n
    <2>1. /\ heap' = q /\ live' = (live \ {b}) \cup {c} /\ halted' = halted
      BY <1>3 DEF Realloc, Shrunk
    <2>2. /\ HeapOK(q) /\ Filled(q) /\ q.pool = heap.pool
          /\ AllBlocks(q) = (AllBlocks(heap) \ {b}) \cup {c}
      <3>1. b \in AllBlocks(heap) /\ n <= asked /\ o = Owner(heap, b.p)
        BY <1>1, <1>2, <1>3
      <3> HIDE DEF o
      <3>2. /\ HeapOK(q) /\ Filled(q) /\ q.pool = heap.pool
            /\ AllBlocks(q) = (AllBlocks(heap) \ {b}) \cup {[b EXCEPT !.n = n]}
        <4>1. Smaller(heap, b, n, o)
          BY <3>1, <1>1 DEF Smaller
        <4> QED BY <4>1, ReallocFacts
      <3> QED BY <3>2
    <2>3. c.n = n
      <3>1. b = [p |-> b.p, n |-> b.n]
        BY <1>1, SMTT(30) DEF AllBlocks, BlocksOf, Blocks, Block
      <3> QED BY <3>1
    <2> HIDE DEF q, c
    <2>4. IsFiniteSet(live')
      BY <1>1, <2>1, FS_AddElement, FS_RemoveElement
    <2>5. HeapInv'
      BY <1>1, <2>1, <2>2, <2>4 DEF HeapInv
    <2> QED BY <2>1, <2>2, <2>3, <2>5 DEF Full
  <1>4. CASE ~(asked >= n) /\ Exhausted(heap, n)
    <2>1. Abort
      BY <1>4 DEF Realloc
    <2>2. heap' = heap /\ live' = live /\ halted' = TRUE
      BY <2>1 DEF Abort
    <2> QED BY <2>2 DEF HeapInv, Full
  <1>5. CASE ~(asked >= n) /\ ~Exhausted(heap, n)
    <2> DEFINE d == [p |-> s.p, n |-> n]
    <2>1. heap' = r /\ live' = (live \ {b}) \cup {d} /\ halted' = halted
      BY <1>5 DEF Realloc
    <2>2. /\ HeapOK(s.hp) /\ Filled(s.hp)
          /\ AllBlocks(s.hp) = AllBlocks(heap) \cup {d}
          /\ \A x \in AllBlocks(heap) : x.p # s.p
          /\ ~(heap.pool \subseteq s.hp.pool) =>
               \A i \in 1 .. Len(heap.majors) : Fitting(heap.majors[i], n) = {}
      BY <1>1, <1>5, MallocFacts
    <2> HIDE DEF s
    <2>3. /\ HeapOK(r) /\ Filled(r) /\ AllBlocks(r) = AllBlocks(s.hp) \ {b}
          /\ s.hp.pool \subseteq r.pool
      BY <1>1, <2>2, FreeFacts
    <2> HIDE DEF r
    <2>4. d # b /\ d.n = n
      BY <1>1, <2>2
    <2> HIDE DEF d
    <2>5. IsFiniteSet(live')
      BY <1>1, <2>1, FS_AddElement, FS_RemoveElement
    <2>6. HeapInv'
      BY <1>1, <2>1, <2>2, <2>3, <2>4, <2>5 DEF HeapInv
    <2> QED BY <2>1, <2>2, <2>3, <2>4, <2>6 DEF Full
  <1> QED BY <1>3, <1>4, <1>5

LEMMA NextInv == HeapInv /\ [Next]_vars => HeapInv'
  <1> SUFFICES ASSUME HeapInv, [Next]_vars PROVE HeapInv'
    OBVIOUS
  <1>0. Sizes \subseteq Nat
    BY HeapAssumption
  <1>1. CASE \E n \in Sizes : Malloc(n)
    BY <1>0, <1>1, MallocInv
  <1>2. CASE \E nobj \in {0, 2}, size \in Sizes :
               (nobj * size \in Sizes \cup {0}) /\ Calloc(nobj, size)
    <2>1. PICK nobj \in {0, 2}, size \in Sizes : Calloc(nobj, size)
      BY <1>2
    <2>2. (IF nobj = 0 THEN 1 ELSE nobj * size) \in Nat
      BY <1>0
    <2> QED BY <2>1, <2>2, MallocInv DEF Calloc
  <1>3. CASE \E b \in live : Free(b)
    BY <1>3, FreeInv
  <1>4. CASE \E b \in live, n \in Sizes : Realloc(b, n)
    BY <1>0, <1>4, ReallocInv
  <1>5. CASE UNCHANGED vars
    BY <1>5 DEF vars, HeapInv
  <1> QED BY <1>1, <1>2, <1>3, <1>4, <1>5 DEF Next

\* In every reachable state the heap is in order.
THEOREM HeapInvariant == Spec => []HeapInv
  <1> QED BY InitInv, NextInv, PTL DEF Spec

-----------------------------------------------------------------------------
(* What follows.                                                           *)

\* Majors and minors never overlap, and every page has one owner.
THEOREM LayoutHolds == Spec => []Layout
  <1> SUFFICES HeapInv => Layout
    BY HeapInvariant, PTL
  <1> SUFFICES ASSUME HeapInv PROVE Layout
    OBVIOUS
  <1>1. /\ HeapOK(heap) /\ heap \in HeapType /\ Filled(heap) /\ Chain(heap.majors)
        /\ heap.pool = PageIds \ Pages(heap.majors) /\ halted \in BOOLEAN
        /\ heap.bestBet # None => \E i \in 1 .. Len(heap.majors) : heap.majors[i].page = heap.bestBet
    BY DEF HeapInv, HeapOK
  <1>2. \A b \in live : b.p \in Nat /\ b.n \in Nat
    <2> SUFFICES ASSUME NEW b \in live PROVE b.p \in Nat /\ b.n \in Nat
      OBVIOUS
    <2>1. PICK i \in 1 .. Len(heap.majors) : b \in Blocks(heap.majors[i])
      BY DEF HeapInv, AllBlocks, BlocksOf
    <2> DEFINE m == heap.majors[i]
    <2>2. Major(m) /\ b \in Blocks(m)
      BY <2>1, <1>1 DEF Chain
    <2> HIDE DEF m
    <2>3. PICK j \in 1 .. Len(m.minors) : b = Block(m, m.minors[j])
      BY <2>2 DEF Blocks
    <2> QED BY <2>2, <2>3, MajorFacts, PointerInside DEF Block, Major
  <1>3. TypeOK
    BY <1>1, <1>2, HeapFacts DEF TypeOK, PageIds
  <1>4. \A i \in 1 .. Len(heap.majors) : \A j \in 0 .. Len(heap.majors[i].minors) :
          GapStart(heap.majors[i], j) <= GapEnd(heap.majors[i], j)
    BY <1>1, GapOrder DEF Chain, Filled
  <1>5. \A i, k \in 1 .. Len(heap.majors) : i # k =>
          Run(heap.majors[i].page, heap.majors[i].pages)
            \cap Run(heap.majors[k].page, heap.majors[k].pages) = {}
    BY <1>1 DEF Chain, Mine
  <1>6. heap.pool = (0 .. NumPages - 1) \ UNION {Run(heap.majors[i].page, heap.majors[i].pages) :
                                                    i \in 1 .. Len(heap.majors)}
    BY <1>1 DEF Pages, Mine, PageIds
  <1> QED BY <1>1, <1>3, <1>4, <1>5, <1>6 DEF Layout

\* The accounts of the heap are what its chains say.
THEOREM UsageHolds == Spec => []UsageExact
  <1> SUFFICES HeapInv => UsageExact
    BY HeapInvariant, PTL
  <1> QED BY DEF HeapInv, HeapOK, Filled, Chain, Major, UsageExact, Lengths, Takens

\* Every client owns what it was given, and every minor has one client.
THEOREM ClientsHold == Spec => []ClientsOwnTheirBlocks
  <1> SUFFICES HeapInv => ClientsOwnTheirBlocks
    BY HeapInvariant, PTL
  <1> SUFFICES ASSUME HeapInv PROVE ClientsOwnTheirBlocks
    OBVIOUS
  <1> DEFINE f == [o \in Slots(heap) |-> Block(heap.majors[o[1]], heap.majors[o[1]].minors[o[2]])]
  <1>1. HeapOK(heap) /\ Chain(heap.majors) /\ live = AllBlocks(heap) /\ IsFiniteSet(live)
    BY DEF HeapInv, HeapOK
  <1>2. ASSUME NEW o \in Slots(heap)
        PROVE  /\ o[1] \in 1 .. Len(heap.majors)
               /\ o[2] \in 1 .. Len(heap.majors[o[1]].minors)
               /\ o = <<o[1], o[2]>>
               /\ f[o] \in Blocks(heap.majors[o[1]]) /\ f[o] \in live
    <2>1. PICK i \in 1 .. Len(heap.majors) : o \in {i} \X (1 .. Len(heap.majors[i].minors))
      BY DEF Slots
    <2> QED BY <2>1, <1>1 DEF Blocks, AllBlocks, BlocksOf
  <1>3. ASSUME NEW b \in live PROVE \E o \in Slots(heap) : f[o] = b
    <2>1. PICK i \in 1 .. Len(heap.majors) : b \in Blocks(heap.majors[i])
      BY <1>1 DEF AllBlocks, BlocksOf
    <2>2. PICK j \in 1 .. Len(heap.majors[i].minors) :
            b = Block(heap.majors[i], heap.majors[i].minors[j])
      BY <2>1 DEF Blocks
    <2>3. <<i, j>> \in Slots(heap)
      BY DEF Slots
    <2> QED BY <2>2, <2>3
  <1>4. ASSUME NEW o \in Slots(heap), NEW q \in Slots(heap), f[o] = f[q] PROVE o = q
    <2> DEFINE i == o[1]
               k == q[1]
    <2>1. i = k
      <3> SUFFICES ASSUME i # k PROVE FALSE
        OBVIOUS
      <3> DEFINE m == heap.majors[i]
                 w == heap.majors[k]
                 b == f[o]
      <3>1. Major(m) /\ Major(w) /\ Mine(m) \cap Mine(w) = {}
        BY <1>1, <1>2 DEF Chain
      <3>2. b \in Blocks(m) /\ b \in Blocks(w)
        BY <1>2, <1>4
      <3> HIDE DEF m, w, b
      <3> QED BY <3>1, <3>2, BlocksApart
    <2>2. o[2] = q[2]
      <3> DEFINE m == heap.majors[i]
      <3>1. Major(m) /\ o[2] \in 1 .. Len(m.minors) /\ q[2] \in 1 .. Len(m.minors)
        BY <1>1, <1>2, <2>1 DEF Chain
      <3>2. Pointer(m, m.minors[o[2]]) = Pointer(m, m.minors[q[2]])
        BY <1>4, <2>1 DEF Block
      <3> HIDE DEF m
      <3> QED BY <3>1, <3>2, PointersDiffer
    <2> QED BY <1>2, <2>1, <2>2
  <1>5. ASSUME NEW o \in Slots(heap)
        PROVE  /\ f[o].p % ALIGNMENT = 0 /\ f[o].p \in Payload(o)
               /\ f[o].n = heap.majors[o[1]].minors[o[2]].req_size
               /\ Run(f[o].p - ALIGN_INFO, f[o].n + ALIGN_INFO) \subseteq Payload(o)
    <2> DEFINE m == heap.majors[o[1]]
               j == o[2]
               min == m.minors[j]
               base == m.page * PageSize
               p == f[o].p
    <2>1. /\ Major(m) /\ j \in 1 .. Len(m.minors) /\ p = Pointer(m, min)
          /\ f[o].n = min.req_size
      BY <1>1, <1>2 DEF Chain, Block
    <2>p. Payload(o) = base + min.off + h .. base + min.off + h + min.size - 1
      BY DEF Payload
    <2> HIDE DEF f, m, j, p
    <2>2. /\ base + min.off + h + ALIGN_INFO <= p
          /\ p + min.req_size <= base + min.off + h + min.size - 1
          /\ p \in Nat /\ p % ALIGNMENT = 0
      BY <2>1, PointerInside
    <2>3. base \in Nat /\ min.off \in Nat /\ min.size \in Nat /\ min.req_size \in Nat
      BY <2>1, MajorFacts DEF Major
    <2> DEFINE r == min.req_size
               a == base + min.off + h
               z == min.size
    <2>4. /\ a \in Nat /\ z \in Nat /\ r \in Nat /\ p \in Nat
          /\ a + ALIGN_INFO <= p /\ p + r <= a + z - 1
      BY <2>2, <2>3 DEF h
    <2>5. Payload(o) = a .. a + z - 1
      BY <2>p
    <2> HIDE DEF r, a, z
    <2>6. p \in Payload(o) /\ Run(p - ALIGN_INFO, r + ALIGN_INFO) \subseteq Payload(o)
      BY <2>4, <2>5 DEF Run, ALIGN_INFO
    <2> QED BY <2>1, <2>2, <2>6 DEF p, r, m, j
  <1>6. Cardinality(live) = Cardinality(Minors)
    <2>1. f \in Bijection(Slots(heap), live)
      <3>1. f \in [Slots(heap) -> live]
        BY <1>2
      <3>2. f \in Injection(Slots(heap), live)
        BY <3>1, <1>4 DEF Injection, IsInjective
      <3>3. f \in Surjection(Slots(heap), live)
        BY <3>1, <1>3 DEF Surjection
      <3> QED BY <3>2, <3>3 DEF Bijection
    <2> HIDE DEF f
    <2>2. ExistsBijection(Slots(heap), live) /\ ExistsBijection(live, Slots(heap))
      BY <2>1, Fun_ExistsBijSymmetric DEF ExistsBijection
    <2> QED BY <2>2, <1>1, FS_Bijection DEF Minors
  <1> HIDE DEF f
  <1>7. \A b \in live :
          /\ b.p % ALIGNMENT = 0
          /\ \E o \in Minors : Run(b.p - ALIGN_INFO, b.n + ALIGN_INFO) \subseteq Payload(o)
    BY <1>3, <1>5 DEF Minors
  <1>8. \A o \in Minors : \E b \in live :
          /\ b.p \in Payload(o)
          /\ b.n = heap.majors[o[1]].minors[o[2]].req_size
    BY <1>2, <1>5 DEF Minors
  <1> QED BY <1>6, <1>7, <1>8 DEF ClientsOwnTheirBlocks

\* The heap takes pages only when no major has a gap for the request.
THEOREM GrowthIsNeeded == Spec => GrowsOnlyWhenFull
  <1>1. ASSUME HeapInv, [Next]_vars
        PROVE  [\A n \in Sizes :
                  (\E b \in live' \ live : b.n = n) /\ ~(heap.pool \subseteq heap'.pool)
                    => \A i \in 1 .. Len(heap.majors) : Fitting(heap.majors[i], n) = {}]_vars
    <2>0. Sizes \subseteq Nat
      BY HeapAssumption
    <2> SUFFICES ASSUME ~ UNCHANGED vars, NEW n \in Sizes, NEW b \in live' \ live, b.n = n,
                        ~(heap.pool \subseteq heap'.pool)
                 PROVE  \A i \in 1 .. Len(heap.majors) : Fitting(heap.majors[i], n) = {}
      OBVIOUS
    <2>1. CASE \E k \in Sizes : Malloc(k)
      <3>1. PICK k \in Sizes : Malloc(k)
        BY <2>1
      <3>2. Full(k) /\ b.n = k
        BY <2>0, <3>1, <1>1, MallocInv
      <3> QED BY <3>2 DEF Full
    <2>2. CASE \E nobj \in {0, 2}, size \in Sizes :
                 (nobj * size \in Sizes \cup {0}) /\ Calloc(nobj, size)
      <3>1. PICK nobj \in {0, 2}, size \in Sizes : Calloc(nobj, size)
        BY <2>2
      <3> DEFINE k == IF nobj = 0 THEN 1 ELSE nobj * size
      <3>2. k \in Nat /\ Malloc(k)
        BY <2>0, <3>1 DEF Calloc
      <3> HIDE DEF k
      <3>3. Full(k) /\ b.n = k
        BY <3>2, <1>1, MallocInv
      <3> QED BY <3>3 DEF Full
    <2>3. CASE \E c \in live : Free(c)
      BY <2>3, <1>1, FreeInv
    <2>4. CASE \E c \in live, k \in Sizes : Realloc(c, k)
      <3>1. PICK c \in live, k \in Sizes : Realloc(c, k)
        BY <2>4
      <3>2. Full(k) /\ b.n = k
        BY <2>0, <3>1, <1>1, ReallocInv
      <3> QED BY <3>2 DEF Full
    <2> QED BY <2>1, <2>2, <2>3, <2>4, <1>1 DEF Next
  <1> QED BY <1>1, HeapInvariant, PTL DEF Spec, GrowsOnlyWhenFull
=============================================================================
