--------------------------- MODULE Keyboard_proofs ---------------------------
(***************************************************************************)
(* Proofs about Keyboard: for every keyboard whose codes the driver knows, *)
(* whatever keys it has and however large the queue is.                    *)
(***************************************************************************)
EXTENDS Keyboard, SequenceTheorems, TLAPS

-----------------------------------------------------------------------------
(* A sequence of bytes cut into codes.                                     *)

Codes == Seq(Byte) \ {<<>>}

\* off[i] bytes are those of the first i codes.
CutAt(p, c, off) ==
  /\ off \in [0 .. Len(c) -> Nat]
  /\ off[0] = 0 /\ off[Len(c)] = Len(p)
  /\ \A i \in 1 .. Len(c) :
       /\ off[i] = off[i - 1] + Len(c[i])
       /\ \A j \in 1 .. Len(c[i]) : p[off[i - 1] + j] = c[i][j]
  /\ \A i, k \in 0 .. Len(c) : i <= k => off[i] <= off[k]

Cut(p, c) == \E off : CutAt(p, c, off)

\* Without the first n elements.
LEMMA Rest ==
  ASSUME NEW S, NEW s \in Seq(S), NEW n \in 0 .. Len(s)
  PROVE  /\ SubSeq(s, n + 1, Len(s)) \in Seq(S)
         /\ Len(SubSeq(s, n + 1, Len(s))) = Len(s) - n
         /\ \A i \in 1 .. Len(s) - n : SubSeq(s, n + 1, Len(s))[i] = s[n + i]
  OBVIOUS

LEMMA CutNone == Cut(<<>>, <<>>)
  <1>1. CutAt(<<>>, <<>>, [i \in 0 .. 0 |-> 0])
    BY DEF CutAt
  <1> QED BY <1>1 DEF Cut

LEMMA CutAppend ==
  ASSUME NEW p \in Seq(Byte), NEW c \in Seq(Codes), NEW b \in Codes, Cut(p, c)
  PROVE  Cut(p \o b, Append(c, b))
  <1> PICK off : CutAt(p, c, off)
    BY DEF Cut
  <1> DEFINE n == Len(c)
             new == [i \in 0 .. n + 1 |-> IF i = n + 1 THEN Len(p) + Len(b) ELSE off[i]]
             q == p \o b
             d == Append(c, b)
  <1>1. n \in Nat /\ Len(p) \in Nat /\ b \in Seq(Byte) /\ Len(b) \in Nat
    BY DEF Codes
  <1>2. /\ q \in Seq(Byte) /\ Len(q) = Len(p) + Len(b)
        /\ \A i \in 1 .. Len(p) : q[i] = p[i]
        /\ \A i \in 1 .. Len(b) : q[Len(p) + i] = b[i]
    BY <1>1
  <1>3. /\ Len(d) = n + 1 /\ d[n + 1] = b
        /\ \A i \in 1 .. n : d[i] = c[i] /\ c[i] \in Seq(Byte) /\ Len(c[i]) \in Nat
    BY DEF Codes
  <1>4. /\ off \in [0 .. n -> Nat] /\ off[0] = 0 /\ off[n] = Len(p)
        /\ \A i \in 1 .. n :
             /\ off[i] = off[i - 1] + Len(c[i])
             /\ \A j \in 1 .. Len(c[i]) : p[off[i - 1] + j] = c[i][j]
        /\ \A i, k \in 0 .. n : i <= k => off[i] <= off[k]
    BY DEF CutAt
  <1> HIDE DEF q, d, n
  <1>5. new \in [0 .. n + 1 -> Nat] /\ new[0] = 0 /\ new[n + 1] = Len(q)
    BY <1>1, <1>2, <1>4
  <1>6. ASSUME NEW i \in 1 .. n
        PROVE  /\ new[i] = new[i - 1] + Len(d[i])
               /\ \A j \in 1 .. Len(d[i]) : q[new[i - 1] + j] = d[i][j]
    <2>1. new[i] = off[i] /\ new[i - 1] = off[i - 1] /\ off[i - 1] \in Nat /\ off[i] \in Nat
      BY <1>1, <1>4
    <2>2. new[i] = new[i - 1] + Len(d[i])
      BY <2>1, <1>1, <1>2, <1>3, <1>4
    <2>3. ASSUME NEW j \in 1 .. Len(d[i]) PROVE q[new[i - 1] + j] = d[i][j]
      <3>0. off[i] <= Len(p) /\ j \in 1 .. Len(c[i]) /\ off[i] = off[i - 1] + Len(c[i])
        <4>1. i \in 0 .. n /\ n \in 0 .. n /\ i <= n
          BY <1>1
        <4>2. off[i] <= off[n] /\ off[n] = Len(p)
          BY <4>1, <1>4
        <4>3. j \in 1 .. Len(c[i]) /\ off[i] = off[i - 1] + Len(c[i])
          BY <1>3, <1>4
        <4> QED BY <4>2, <4>3
      <3>1. off[i - 1] + j \in 1 .. Len(p) /\ j \in 1 .. Len(c[i])
        <4>1. PICK a \in Nat : a = off[i - 1]
          BY <2>1
        <4>2. PICK l \in Nat : l = Len(c[i])
          BY <1>3
        <4>3. PICK e \in Nat : e = Len(p)
          BY <1>1
        <4>4. j \in 1 .. l /\ a + l <= e
          BY <3>0, <4>1, <4>2, <4>3
        <4>5. a + j \in 1 .. e
          BY <4>4
        <4> QED BY <3>0, <4>1, <4>3, <4>5
      <3>2. p[off[i - 1] + j] = c[i][j]
        BY <3>0, <1>4
      <3>3. q[off[i - 1] + j] = p[off[i - 1] + j]
        BY <3>1, <1>2
      <3>4. d[i] = c[i] /\ new[i - 1] = off[i - 1]
        BY <2>1, <1>3
      <3> HIDE DEF new
      <3> QED BY <3>2, <3>3, <3>4
    <2> QED BY <2>2, <2>3
  <1>7. /\ new[n + 1] = new[n] + Len(d[n + 1])
        /\ \A j \in 1 .. Len(d[n + 1]) : q[new[n] + j] = d[n + 1][j]
    <2>1. new[n + 1] = Len(p) + Len(b) /\ new[n] = Len(p)
      BY <1>1, <1>4
    <2> HIDE DEF new
    <2> QED BY <2>1, <1>1, <1>2, <1>3
  <1>8. ASSUME NEW i \in 0 .. n + 1, NEW k \in 0 .. n + 1, i <= k PROVE new[i] <= new[k]
    BY <1>1, <1>4, <1>8
  <1>9. CutAt(q, d, new)
    <2> HIDE DEF new
    <2>1. \A i \in 1 .. n + 1 : i \in 1 .. n \/ i = n + 1
      BY <1>1
    <2>2. Len(d) = n + 1 /\ n + 1 - 1 = n
      BY <1>1, <1>3
    <2>3. ASSUME NEW i \in 1 .. n + 1
          PROVE  /\ new[i] = new[i - 1] + Len(d[i])
                 /\ \A j \in 1 .. Len(d[i]) : q[new[i - 1] + j] = d[i][j]
      <3>1. CASE i \in 1 .. n
        BY <3>1, <1>6
      <3>2. CASE i = n + 1
        <4>1. i - 1 = n
          BY <3>2, <1>1
        <4> QED BY <4>1, <3>2, <1>7
      <3> QED BY <2>1, <3>1, <3>2
    <2> QED BY <2>2, <2>3, <1>5, <1>8 DEF CutAt
  <1> QED BY <1>9 DEF Cut, q, d

LEMMA CutLen ==
  ASSUME NEW p, NEW c, Cut(p, c), c = <<>>
  PROVE  Len(p) = 0
  BY DEF Cut, CutAt

\* What is behind three pieces, or behind the first of them.
LEMMA Joins ==
  ASSUME NEW S, NEW a \in Seq(S), NEW b \in Seq(S), NEW c \in Seq(S), NEW d \in Seq(S)
  PROVE  /\ a \o b \o c \in Seq(S)
         /\ Len(a \o b \o c) = Len(a) + Len(b) + Len(c)
         /\ a \o b \o (c \o d) = (a \o b \o c) \o d
  OBVIOUS

LEMMA ConcatRest ==
  ASSUME NEW S, NEW a \in Seq(S), NEW b \in Seq(S)
  PROVE  SubSeq(a \o b, Len(a) + 1, Len(a \o b)) = b
  <1> DEFINE c == a \o b
             r == SubSeq(c, Len(a) + 1, Len(c))
  <1>1. /\ c \in Seq(S) /\ Len(c) = Len(a) + Len(b) /\ Len(a) \in Nat /\ Len(b) \in Nat
        /\ \A i \in 1 .. Len(b) : c[Len(a) + i] = b[i]
    OBVIOUS
  <1>2. /\ r \in Seq(S) /\ Len(r) = Len(c) - Len(a)
        /\ \A i \in 1 .. Len(c) - Len(a) : r[i] = c[Len(a) + i]
    <2>1. Len(a) \in 0 .. Len(c)
      BY <1>1
    <2> HIDE DEF c
    <2> QED BY <2>1, <1>1, Rest
  <1>3. Len(r) = Len(b) /\ \A i \in 1 .. Len(r) : r[i] = b[i]
    <2> HIDE DEF c, r
    <2> QED BY <1>1, <1>2
  <1> HIDE DEF r
  <1> QED BY <1>2, <1>3, SeqEqual DEF r

\* The first code, and what is left without it.
LEMMA CutFirst ==
  ASSUME NEW p \in Seq(Byte), NEW c \in Seq(Codes), Cut(p, c), c # <<>>
  PROVE  /\ Len(c[1]) \in 1 .. Len(p)
         /\ \A j \in 1 .. Len(c[1]) : p[j] = c[1][j]
         /\ Cut(SubSeq(p, Len(c[1]) + 1, Len(p)), SubSeq(c, 2, Len(c)))
  <1> PICK off : CutAt(p, c, off)
    BY DEF Cut
  <1> DEFINE n == Len(c)
             k == Len(c[1])
             q == SubSeq(p, k + 1, Len(p))
             d == SubSeq(c, 2, n)
             new == [i \in 0 .. n - 1 |-> off[i + 1] - k]
  <1>1. n \in Nat /\ n >= 1 /\ Len(p) \in Nat /\ c[1] \in Codes /\ k \in Nat /\ k >= 1
    BY DEF Codes
  <1>3. /\ off \in [0 .. n -> Nat] /\ off[0] = 0 /\ off[n] = Len(p)
        /\ \A i \in 1 .. n :
             /\ off[i] = off[i - 1] + Len(c[i])
             /\ \A j \in 1 .. Len(c[i]) : p[off[i - 1] + j] = c[i][j]
        /\ \A i, l \in 0 .. n : i <= l => off[i] <= off[l]
    BY DEF CutAt
  <1>4. off[1] = k /\ k <= Len(p)
    BY <1>1, <1>3
  <1>5. \A j \in 1 .. Len(c[1]) : p[j] = c[1][j]
    BY <1>1, <1>3
  <1>6. /\ q \in Seq(Byte) /\ Len(q) = Len(p) - k
        /\ \A i \in 1 .. Len(p) - k : q[i] = p[k + i]
    <2> HIDE DEF k
    <2>1. k \in 0 .. Len(p)
      BY <1>1, <1>4
    <2> QED BY <2>1, Rest
  <1>7. /\ Len(d) = n - 1
        /\ \A i \in 1 .. n - 1 : d[i] = c[i + 1] /\ Len(c[i + 1]) \in Nat
    <2>1. /\ d \in Seq(Codes) /\ Len(d) = n - 1
          /\ \A i \in 1 .. n - 1 : d[i] = c[1 + i]
      <3>1. 1 \in 0 .. Len(c)
        BY <1>1
      <3>2. SubSeq(c, 2, Len(c)) = SubSeq(c, 1 + 1, Len(c))
        OBVIOUS
      <3> HIDE DEF Codes
      <3> QED BY <3>1, <3>2, Rest
    <2>2. \A i \in 1 .. n : c[i] \in Codes
      BY <1>1
    <2> HIDE DEF d, n
    <2> QED BY <2>1, <2>2, <1>1 DEF Codes
  <1> HIDE DEF n, k, q, d
  <1>8. new \in [0 .. n - 1 -> Nat] /\ new[0] = 0 /\ new[n - 1] = Len(q)
    <2>1. ASSUME NEW i \in 0 .. n - 1 PROVE off[i + 1] \in Nat /\ off[i + 1] >= k
      BY <1>1, <1>3, <1>4
    <2>2. off[0 + 1] = k /\ off[n - 1 + 1] = Len(p)
      BY <1>1, <1>3, <1>4
    <2>3. new \in [0 .. n - 1 -> Nat]
      BY <2>1, <1>1
    <2> QED BY <2>2, <2>3, <1>1, <1>6
  <1>9. ASSUME NEW i \in 1 .. n - 1
        PROVE  /\ new[i] = new[i - 1] + Len(d[i])
               /\ \A j \in 1 .. Len(d[i]) : q[new[i - 1] + j] = d[i][j]
    <2>1. /\ new[i] = off[i + 1] - k /\ new[i - 1] = off[i] - k
          /\ off[i] \in Nat /\ off[i + 1] \in Nat /\ off[i] >= k
      <3>1. i \in 0 .. n /\ i + 1 \in 0 .. n /\ 1 \in 0 .. n /\ 1 <= i /\ i - 1 \in 0 .. n - 1 /\ i \in 0 .. n - 1
        BY <1>1
      <3>2. off[i] \in Nat /\ off[i + 1] \in Nat /\ off[1] <= off[i]
        BY <3>1, <1>3
      <3> QED BY <3>1, <3>2, <1>1, <1>4
    <2>2. i + 1 \in 1 .. n /\ i + 1 - 1 = i
      BY <1>1
    <2>3. off[i + 1] = off[i] + Len(c[i + 1])
      BY <2>2, <1>3
    <2>4. new[i] = new[i - 1] + Len(d[i])
      <3> HIDE DEF new
      <3>1. d[i] = c[i + 1] /\ Len(c[i + 1]) \in Nat
        BY <1>7
      <3>2. PICK a \in Nat : a = off[i]
        BY <2>1
      <3>3. PICK l \in Nat : l = Len(c[i + 1])
        BY <3>1
      <3>4. (a + l) - k = (a - k) + l
        BY <1>1
      <3> QED BY <2>1, <2>3, <3>1, <3>2, <3>3, <3>4
    <2>5. ASSUME NEW j \in 1 .. Len(d[i]) PROVE q[new[i - 1] + j] = d[i][j]
      <3>0. off[i + 1] <= Len(p)
        BY <2>2, <1>1, <1>3
      <3>1. j \in 1 .. Len(c[i + 1]) /\ d[i][j] = c[i + 1][j]
        BY <1>7
      <3>2. p[off[i] + j] = c[i + 1][j]
        BY <3>1, <2>2, <1>3
      <3>3. new[i - 1] + j \in 1 .. Len(p) - k /\ k + (new[i - 1] + j) = off[i] + j
        <4>1. Len(c[i + 1]) \in Nat
          BY <1>7
        <4>2. off[i] + Len(c[i + 1]) <= Len(p)
          BY <3>0, <2>3
        <4>3. /\ (off[i] - k) + j \in 1 .. Len(p) - k
              /\ k + ((off[i] - k) + j) = off[i] + j
          <5>1. k \in Nat /\ off[i] \in Nat /\ off[i] >= k /\ Len(p) \in Nat
            BY <2>1, <1>1
          <5>2. j \in 1 .. Len(c[i + 1])
            BY <3>1
          <5>3. PICK a \in Nat : a = off[i]
            BY <5>1
          <5>4. PICK l \in Nat : l = Len(c[i + 1])
            BY <4>1
          <5>5. PICK e \in Nat : e = Len(p)
            BY <5>1
          <5>6. a >= k /\ j \in 1 .. l /\ a + l <= e
            BY <4>2, <5>1, <5>2, <5>3, <5>4, <5>5
          <5>7. (a - k) + j \in 1 .. e - k /\ k + ((a - k) + j) = a + j
            BY <5>1, <5>6
          <5> QED BY <5>3, <5>5, <5>7
        <4> HIDE DEF new
        <4> QED BY <4>3, <2>1
      <3> QED BY <3>1, <3>2, <3>3, <1>6
    <2> QED BY <2>4, <2>5
  <1>10. ASSUME NEW i \in 0 .. n - 1, NEW j \in 0 .. n - 1, i <= j PROVE new[i] <= new[j]
    <2>1. off[i + 1] \in Nat /\ off[j + 1] \in Nat /\ off[i + 1] <= off[j + 1]
      BY <1>1, <1>3, <1>10
    <2> QED BY <2>1, <1>1
  <1>11. CutAt(q, d, new)
    <2> HIDE DEF new
    <2> QED BY <1>7, <1>8, <1>9, <1>10 DEF CutAt
  <1>12. Cut(q, d)
    <2> HIDE DEF new
    <2> QED BY <1>11 DEF Cut
  <1> QED BY <1>1, <1>4, <1>5, <1>12 DEF n, k, q, d

-----------------------------------------------------------------------------
(* What a modifier key will be after some of the events.                   *)

Events == [key : Keys, up : BOOLEAN, shift : BOOLEAN]

\* Whether m is down after the first i events of t, if it was as d says before them.
After(t, d, m, i) ==
  \/ \E j \in 1 .. i : t[j].key = m /\ ~t[j].up /\ \A l \in 1 .. i : l > j => t[l].key # m
  \/ (\A j \in 1 .. i : t[j].key # m) /\ m \in d

\* The last of i + 1 events decides.
LEMMA AfterStep ==
  ASSUME NEW t, NEW d, NEW m, NEW i \in Nat
  PROVE  After(t, d, m, i + 1) <=> IF t[i + 1].key = m THEN ~t[i + 1].up ELSE After(t, d, m, i)
  <1>1. \A j \in 1 .. i + 1 : j \in 1 .. i \/ j = i + 1
    OBVIOUS
  <1>2. (\A j \in 1 .. i : j \in 1 .. i + 1 /\ ~(j > i + 1) /\ i + 1 > j) /\ i + 1 \in 1 .. i + 1
    OBVIOUS
  <1>3. CASE t[i + 1].key = m
    <2>1. After(t, d, m, i + 1) => ~t[i + 1].up
      BY <1>1, <1>2, <1>3 DEF After
    <2>2. ~t[i + 1].up => After(t, d, m, i + 1)
      <3>1. \A l \in 1 .. i + 1 : ~(l > i + 1)
        OBVIOUS
      <3> QED BY <1>2, <1>3, <3>1 DEF After
    <2> QED BY <2>1, <2>2, <1>3
  <1>4. CASE t[i + 1].key # m
    BY <1>1, <1>2, <1>4 DEF After
  <1> QED BY <1>3, <1>4

\* Only the events that are there count.
LEMMA AfterSame ==
  ASSUME NEW t, NEW u, NEW d, NEW m, NEW i \in Nat, \A j \in 1 .. i : t[j] = u[j]
  PROVE  After(t, d, m, i) <=> After(u, d, m, i)
  BY DEF After

\* An event that takes effect is one event less to come.
LEMMA AfterDrop ==
  ASSUME NEW t, NEW u, NEW d, NEW e, NEW m, NEW i \in Nat,
         \A j \in 1 .. i : u[j] = t[j + 1],
         m \in e <=> IF t[1].key = m THEN ~t[1].up ELSE m \in d
  PROVE  After(u, e, m, i) <=> After(t, d, m, i + 1)
  <1>1. \A j \in 1 .. i : j + 1 \in 1 .. i + 1 /\ j + 1 > 1
    OBVIOUS
  <1>2. \A j \in 1 .. i + 1 : j = 1 \/ (j - 1 \in 1 .. i /\ j = (j - 1) + 1)
    OBVIOUS
  <1>3. \A j, l \in 1 .. i : l > j <=> l + 1 > j + 1
    OBVIOUS
  <1>4. ASSUME After(u, e, m, i) PROVE After(t, d, m, i + 1)
    <2>1. CASE \E j \in 1 .. i : u[j].key = m /\ ~u[j].up /\ \A l \in 1 .. i : l > j => u[l].key # m
      <3> PICK j \in 1 .. i : u[j].key = m /\ ~u[j].up /\ \A l \in 1 .. i : l > j => u[l].key # m
        BY <2>1
      <3>1. t[j + 1].key = m /\ ~t[j + 1].up /\ j + 1 \in 1 .. i + 1
        BY <1>1
      <3>2. ASSUME NEW l \in 1 .. i + 1, l > j + 1 PROVE t[l].key # m
        <4>1. l - 1 \in 1 .. i /\ l - 1 > j /\ l = (l - 1) + 1
          BY <3>2
        <4>2. u[l - 1].key # m
          BY <4>1
        <4>3. u[l - 1] = t[(l - 1) + 1]
          BY <4>1
        <4> QED BY <4>1, <4>2, <4>3
      <3> QED BY <3>1, <3>2 DEF After
    <2>2. CASE (\A j \in 1 .. i : u[j].key # m) /\ m \in e
      <3>1. \A j \in 1 .. i : t[j + 1].key # m
        BY <2>2
      <3>2. ASSUME NEW l \in 1 .. i + 1, l # 1 PROVE t[l].key # m
        <4>1. l - 1 \in 1 .. i /\ l = (l - 1) + 1
          BY <3>2
        <4> QED BY <4>1, <3>1
      <3>3. CASE t[1].key = m
        <4>1. 1 \in 1 .. i + 1 /\ \A l \in 1 .. i + 1 : l > 1 => l # 1
          OBVIOUS
        <4> QED BY <4>1, <2>2, <3>2, <3>3 DEF After
      <3>4. CASE t[1].key # m
        BY <2>2, <3>2, <3>4 DEF After
      <3> QED BY <3>3, <3>4
    <2> QED BY <1>4, <2>1, <2>2 DEF After
  <1>5. ASSUME After(t, d, m, i + 1) PROVE After(u, e, m, i)
    <2>1. CASE \E j \in 1 .. i + 1 : t[j].key = m /\ ~t[j].up /\ \A l \in 1 .. i + 1 : l > j => t[l].key # m
      <3> PICK j \in 1 .. i + 1 : t[j].key = m /\ ~t[j].up /\ \A l \in 1 .. i + 1 : l > j => t[l].key # m
        BY <2>1
      <3>1. CASE j = 1
        <4>1. ASSUME NEW l \in 1 .. i PROVE u[l].key # m
          <5>1. l + 1 \in 1 .. i + 1 /\ l + 1 > j
            BY <3>1
          <5> QED BY <5>1
        <4> QED BY <3>1, <4>1 DEF After
      <3>2. CASE j # 1
        <4>1. j - 1 \in 1 .. i /\ j = (j - 1) + 1
          BY <3>2
        <4>2. u[j - 1].key = m /\ ~u[j - 1].up
          BY <4>1
        <4>3. ASSUME NEW l \in 1 .. i, l > j - 1 PROVE u[l].key # m
          <5>1. l + 1 \in 1 .. i + 1 /\ l + 1 > j
            BY <4>3
          <5> QED BY <5>1
        <4> QED BY <4>1, <4>2, <4>3 DEF After
      <3> QED BY <3>1, <3>2
    <2>2. CASE (\A j \in 1 .. i + 1 : t[j].key # m) /\ m \in d
      <3>1. 1 \in 1 .. i + 1 /\ t[1].key # m
        BY <2>2
      <3>2. \A j \in 1 .. i : u[j].key # m
        BY <1>1, <2>2
      <3> QED BY <2>2, <3>1, <3>2 DEF After
    <2> QED BY <1>5, <2>1, <2>2 DEF After
  <1> QED BY <1>4, <1>5

-----------------------------------------------------------------------------
(* The inductive invariant.                                                *)

Entries == [key : Keys, up : BOOLEAN, fresh : BOOLEAN, shift : BOOLEAN]

TypeOK ==
  /\ wire \in Seq(Byte) /\ port \in Byte \cup {Empty} /\ read \in Seq(Byte)
  /\ irq \in BOOLEAN /\ dumping \in BOOLEAN /\ kbdump_continue \in BOOLEAN
  /\ down \subseteq Modifiers
  /\ held \subseteq Keys \ TapKeys
  /\ typed \in Seq(Events) /\ \A i \in 1 .. Len(typed) : typed[i].up => typed[i].key \notin TapKeys
  /\ queue \in Seq(Entries)

\* The bytes that are on their way, the oldest first.
InPort(b) == IF b = Empty THEN <<>> ELSE <<b>>
Pending == read \o InPort(port) \o wire

CodesOf(t) == [i \in 1 .. Len(t) |-> Bytes(t[i].key, t[i].up)]

\* They are the codes of the events that are not yet decoded, and what the handler
\* has read is a beginning of the first.
Framed ==
  /\ Cut(Pending, CodesOf(typed))
  /\ read # <<>> => Len(read) < Len(Bytes(typed[1].key, typed[1].up))

\* Every modifier will be where the user has it.
ModifiersCome == \A m \in Modifiers : m \in held <=> After(typed, down, m, Len(typed))

\* An event was typed with the Shift that the events before it make.
ShiftComes ==
  \A i \in 1 .. Len(typed) : typed[i].shift <=> \E m \in ShiftMods : After(typed, down, m, i - 1)

\* What is fresh in the queue was typed with the Shift of the driver.
FreshShift ==
  \A i \in 1 .. Len(queue) :
    queue[i].fresh /\ queue[i].key \notin ShiftMods => (queue[i].shift <=> down \cap ShiftMods # {})

Inv == TypeOK /\ Framed /\ ModifiersCome /\ ShiftComes /\ FreshShift

LEMMA InvStart == Init => Inv
  <1> SUFFICES ASSUME Init PROVE Inv
    OBVIOUS
  <1> USE DEF Init
  <1>1. TypeOK
    <2>1. wire = <<>> /\ read = <<>> /\ typed = <<>> /\ queue = <<>> /\ port = Empty
      OBVIOUS
    <2>2. down = {} /\ held = {} /\ irq = FALSE /\ dumping = FALSE /\ kbdump_continue = FALSE
      OBVIOUS
    <2>3. <<>> \in Seq(Byte) /\ <<>> \in Seq(Events) /\ <<>> \in Seq(Entries)
      OBVIOUS
    <2>4. \A i \in 1 .. Len(<<>>) : FALSE
      OBVIOUS
    <2> HIDE DEF Byte, Events, Entries, Init
    <2> QED BY <2>1, <2>2, <2>3, <2>4 DEF TypeOK
  <1>2. Pending = <<>> /\ CodesOf(typed) = <<>>
    BY DEF Pending, InPort, CodesOf
  <1>3. Framed
    BY <1>2, CutNone DEF Framed
  <1>4. ModifiersCome
    BY DEF ModifiersCome, After
  <1>5. ShiftComes /\ FreshShift
    BY DEF ShiftComes, FreshShift
  <1> QED BY <1>1, <1>3, <1>4, <1>5 DEF Inv

\* The codes of a sequence of events are codes.
LEMMA CodesAre ==
  ASSUME CodesKnown, NEW t \in Seq(Events),
         \A i \in 1 .. Len(t) : t[i].up => t[i].key \notin TapKeys
  PROVE  CodesOf(t) \in Seq(Codes) /\ Len(CodesOf(t)) = Len(t)
  <1>1. ASSUME NEW i \in 1 .. Len(t) PROVE Bytes(t[i].key, t[i].up) \in Codes
    <2>1. t[i] \in Events
      OBVIOUS
    <2>2. t[i].key \in Keys /\ t[i].up \in BOOLEAN /\ (t[i].up => t[i].key \notin TapKeys)
      BY <2>1 DEF Events
    <2> QED BY <2>2 DEF CodesKnown, Codes
  <1>2. Len(t) \in Nat
    OBVIOUS
  <1> HIDE DEF Codes
  <1> QED BY <1>1, <1>2 DEF CodesOf

\* The user presses or releases a key.
LEMMA EventInv ==
  ASSUME CodesKnown, Inv, NEW k \in Keys, NEW up \in BOOLEAN, Event(k, up),
         up => k \notin TapKeys, held' \subseteq Keys \ TapKeys,
         \A m \in Modifiers : m \in held' <=> IF k = m THEN ~up ELSE m \in held
  PROVE  Inv'
  <1> DEFINE e == [key |-> k, up |-> up, shift |-> held \cap ShiftMods # {}]
             n == Len(typed)
  <1>0. TypeOK /\ n \in Nat /\ typed' = Append(typed, e)
    BY DEF Inv, TypeOK, Event
  <1>1. e \in Events /\ Bytes(k, up) \in Codes
    BY DEF Events, CodesKnown, Codes
  <1> HIDE DEF e
  <1>2. /\ typed' \in Seq(Events) /\ Len(typed') = n + 1 /\ typed'[n + 1] = e
        /\ \A i \in 1 .. n : typed'[i] = typed[i]
    BY <1>0, <1>1 DEF TypeOK
  <1>3. e.key = k /\ e.up = up /\ e.shift = (held \cap ShiftMods # {})
    BY DEF e
  <1>4. \A i \in 1 .. n + 1 : i \in 1 .. n \/ i = n + 1
    BY <1>0
  <1>5. TypeOK'
    <2>1. wire' \in Seq(Byte)
      BY <1>0, <1>1 DEF Event, TypeOK, Codes
    <2>2. \A i \in 1 .. n + 1 : typed'[i].up => typed'[i].key \notin TapKeys
      BY <1>0, <1>2, <1>3, <1>4 DEF TypeOK
    <2> HIDE DEF n
    <2> QED BY <2>1, <2>2, <1>0, <1>2 DEF TypeOK, Event
  <1>6. Framed'
    <2>1. CodesOf(typed)\in Seq(Codes) /\ Len(CodesOf(typed)) = n
      BY <1>0, CodesAre DEF TypeOK
    <2>2. CodesOf(typed)' = Append(CodesOf(typed), Bytes(k, up))
      <3>1. \A i \in 1 .. n : CodesOf(typed)'[i] = CodesOf(typed)[i]
        BY <1>2, <1>0 DEF CodesOf
      <3>2. CodesOf(typed)'[n + 1] = Bytes(k, up)
        BY <1>2, <1>0, <1>3 DEF CodesOf
      <3>3. CodesOf(typed)' \in Seq(Codes) /\ Len(CodesOf(typed)') = n + 1
        BY <1>2, <1>5, CodesAre DEF TypeOK
      <3>4. /\ Append(CodesOf(typed), Bytes(k, up)) \in Seq(Codes)
            /\ Len(Append(CodesOf(typed), Bytes(k, up))) = n + 1
            /\ Append(CodesOf(typed), Bytes(k, up))[n + 1] = Bytes(k, up)
            /\ \A i \in 1 .. n : Append(CodesOf(typed), Bytes(k, up))[i] = CodesOf(typed)[i]
        <4> HIDE DEF n, CodesOf, Codes
        <4> QED BY <2>1, <1>0, <1>1
      <3> HIDE DEF n, CodesOf, Codes
      <3> QED BY <3>1, <3>2, <3>3, <3>4, <1>4, SeqEqual
    <2>3. Pending \in Seq(Byte) /\ Pending' = Pending \o Bytes(k, up)
      <3>1. InPort(port) \in Seq(Byte) /\ InPort(port)' = InPort(port)
        BY <1>0 DEF TypeOK, InPort, Event, Empty
      <3>2. read \in Seq(Byte) /\ wire \in Seq(Byte) /\ Bytes(k, up) \in Seq(Byte)
        BY <1>0, <1>1 DEF TypeOK, Codes
      <3>3. read' = read /\ wire' = wire \o Bytes(k, up)
        BY DEF Event
      <3>4. Pending \in Seq(Byte)
        BY <3>1, <3>2, Joins DEF Pending
      <3>5. Pending' = read \o InPort(port) \o (wire \o Bytes(k, up))
        BY <3>1, <3>3 DEF Pending
      <3>6. Pending' = (read \o InPort(port) \o wire) \o Bytes(k, up)
        <4>1. /\ read \o InPort(port) \o (wire \o Bytes(k, up))
                   = (read \o InPort(port) \o wire) \o Bytes(k, up)
          <5> HIDE DEF Byte
          <5>a. PICK r \in Seq(Byte) : r = read
            BY <3>2
          <5>b. PICK i \in Seq(Byte) : i = InPort(port)
            BY <3>1
          <5>c. r \o i \in Seq(Byte)
            BY ConcatProperties
          <5>1. PICK a \in Seq(Byte) : a = read \o InPort(port)
            BY <5>a, <5>b, <5>c
          <5>2. PICK b \in Seq(Byte) : b = wire
            BY <3>2
          <5>3. PICK c \in Seq(Byte) : c = Bytes(k, up)
            BY <3>2
          <5>4. a \o (b \o c) = (a \o b) \o c
            BY SMTT(30)
          <5> QED BY <5>1, <5>2, <5>3, <5>4
        <4> QED BY <3>5, <4>1
      <3> QED BY <3>4, <3>6 DEF Pending
    <2>4. Cut(Pending, CodesOf(typed))
      BY DEF Inv, Framed
    <2>5. Cut(Pending', CodesOf(typed)')
      BY <2>1, <2>2, <2>3, <2>4, <1>1, CutAppend
    <2>6. read # <<>> => typed # <<>>
      <3> SUFFICES ASSUME read # <<>>, typed = <<>> PROVE FALSE
        OBVIOUS
      <3>1. Len(Pending) > 0
        <4>1. InPort(port) \in Seq(Byte) /\ read \in Seq(Byte) /\ wire \in Seq(Byte)
          BY <1>0 DEF TypeOK, InPort, Empty
        <4> QED BY <4>1, Joins DEF Pending
      <3>2. CodesOf(typed) = <<>>
        BY DEF CodesOf
      <3> QED BY <3>1, <3>2, <2>4, CutLen
    <2>7. read # <<>> => n >= 1 /\ typed'[1] = typed[1]
      BY <2>6, <1>0, <1>2 DEF TypeOK
    <2> QED BY <2>5, <2>7 DEF Inv, Framed, Event
  <1>7. down' = down /\ queue' = queue
    BY DEF Event
  <1>8. \A m, i : i \in 0 .. n => (After(typed', down', m, i) <=> After(typed, down, m, i))
    <2> SUFFICES ASSUME NEW m, NEW i \in 0 .. n
                 PROVE  After(typed', down', m, i) <=> After(typed, down, m, i)
      OBVIOUS
    <2>1. i \in Nat /\ \A j \in 1 .. i : typed'[j] = typed[j]
      BY <1>0, <1>2
    <2> HIDE DEF n
    <2> QED BY <2>1, <1>7, AfterSame
  <1>9. ModifiersCome'
    <2> SUFFICES ASSUME NEW m \in Modifiers
                 PROVE  m \in held' <=> After(typed', down', m, n + 1)
      BY <1>2 DEF ModifiersCome
    <2>0. typed'[n + 1].key = k /\ typed'[n + 1].up = up
      BY <1>2, <1>3
    <2>1. After(typed', down', m, n + 1)
            <=> IF k = m THEN ~up ELSE After(typed', down', m, n)
      <3>1. After(typed', down', m, n + 1)
            <=> IF typed'[n + 1].key = m THEN ~typed'[n + 1].up ELSE After(typed', down', m, n)
        <4> HIDE DEF n
        <4> QED BY <1>0, AfterStep
      <3> QED BY <2>0, <3>1
    <2> QED BY <2>1, <1>0, <1>8 DEF Inv, ModifiersCome
  <1>10. ShiftComes'
    <2> SUFFICES ASSUME NEW i \in 1 .. n + 1
                 PROVE  typed'[i].shift <=> \E m \in ShiftMods : After(typed', down', m, i - 1)
      BY <1>2 DEF ShiftComes
    <2>1. i - 1 \in 0 .. n
      BY <1>0
    <2>2. CASE i \in 1 .. n
      BY <2>1, <2>2, <1>2, <1>8 DEF Inv, ShiftComes
    <2>3. CASE i = n + 1
      <3>1. \A m \in ShiftMods : m \in held <=> After(typed', down', m, n)
        BY <1>0, <1>8 DEF Inv, ModifiersCome, Modifiers
      <3>2. typed'[i].shift <=> \E m \in ShiftMods : m \in held
        BY <2>3, <1>2, <1>3
      <3> QED BY <3>1, <3>2, <2>3, <1>0
    <2> QED BY <2>2, <2>3, <1>4
  <1>11. FreshShift'
    BY <1>7 DEF Inv, FreshShift
  <1> QED BY <1>5, <1>6, <1>9, <1>10, <1>11 DEF Inv

\* The byte in the port continues the code of the oldest event, and the handler takes
\* the bytes for that event exactly when it is the last byte of the code.
LEMMA NextCode ==
  ASSUME CodesKnown, Inv, port # Empty, NEW s, s = Append(read, port),
         NEW c, c = Bytes(typed[1].key, typed[1].up)
  PROVE  /\ typed # <<>> /\ s \in Seq(Byte) /\ Pending = s \o wire
         /\ Decode(s) # Nothing => s = c /\ Decode(s) = [key |-> typed[1].key, up |-> typed[1].up]
         /\ Decode(s) = Nothing => Len(s) < Len(c)
  <1> DEFINE e == typed[1]
  <1>0. TypeOK /\ Cut(Pending, CodesOf(typed))
    BY DEF Inv, Framed
  <1>1. s \in Seq(Byte) /\ Len(s) = Len(read) + 1 /\ Len(read) \in Nat
    BY <1>0 DEF TypeOK
  <1>2. Pending = s \o wire
    <2>1. port \in Byte /\ read \in Seq(Byte) /\ wire \in Seq(Byte)
      BY <1>0 DEF TypeOK
    <2>2. Append(read, port) = read \o <<port>>
      BY <2>1
    <2> QED BY <2>2 DEF Pending, InPort
  <1>3. /\ Pending \in Seq(Byte) /\ Len(Pending) >= Len(s)
        /\ \A i \in 1 .. Len(s) : Pending[i] = s[i]
    <2>1. wire \in Seq(Byte)
      BY <1>0 DEF TypeOK
    <2> HIDE DEF Byte
    <2> QED BY <2>1, <1>1, <1>2
  <1>4. typed # <<>>
    <2> SUFFICES ASSUME typed = <<>> PROVE FALSE
      OBVIOUS
    <2>1. CodesOf(typed) = <<>>
      BY DEF CodesOf
    <2> QED BY <2>1, <1>0, <1>1, <1>3, CutLen
  <1>5. /\ e \in Events /\ 1 \in 1 .. Len(typed)
        /\ e.key \in Keys /\ e.up \in BOOLEAN /\ (e.up => e.key \notin TapKeys)
    <2>1. 1 \in 1 .. Len(typed) /\ e \in Events
      BY <1>0, <1>4 DEF TypeOK
    <2>2. e.up => e.key \notin TapKeys
      BY <2>1, <1>0 DEF TypeOK
    <2>3. e.key \in Keys /\ e.up \in BOOLEAN
      BY <2>1 DEF Events
    <2> HIDE DEF e
    <2> QED BY <2>1, <2>2, <2>3
  <1>6. /\ c \in Codes /\ Decode(c) = [key |-> e.key, up |-> e.up]
        /\ \A n \in 1 .. Len(c) - 1 : Decode(SubSeq(c, 1, n)) = Nothing
    BY <1>5 DEF CodesKnown, Codes
  <1>7. Len(c) \in Nat /\ Len(c) >= 1 /\ c \in Seq(Byte)
    BY <1>6 DEF Codes
  <1>8. CodesOf(typed) \in Seq(Codes) /\ CodesOf(typed) # <<>> /\ CodesOf(typed)[1] = c
    <2>1. CodesOf(typed) \in Seq(Codes) /\ Len(CodesOf(typed)) = Len(typed)
      BY <1>0, CodesAre DEF TypeOK
    <2>2. CodesOf(typed)[1] = c
      BY <1>5 DEF CodesOf
    <2>3. Len(typed) # 0
      BY <1>5
    <2> HIDE DEF CodesOf, Codes
    <2> QED BY <2>1, <2>2, <2>3
  <1>9. Len(c) <= Len(Pending) /\ \A j \in 1 .. Len(c) : Pending[j] = c[j]
    <2> HIDE DEF CodesOf, Codes, Cut, Pending
    <2> QED BY <1>0, <1>3, <1>8, CutFirst
  <1>10. Len(s) <= Len(c)
    <2>1. CASE read = <<>>
      BY <2>1, <1>1, <1>7
    <2>2. CASE read # <<>>
      BY <2>2, <1>1, <1>7 DEF Inv, Framed
    <2> QED BY <2>1, <2>2
  <1>11. \A j \in 1 .. Len(s) : s[j] = c[j]
    BY <1>1, <1>3, <1>7, <1>9, <1>10
  <1>12. CASE Len(s) = Len(c)
    <2>1. s = c
      <3> HIDE DEF Byte
      <3> QED BY <1>1, <1>7, <1>11, <1>12, SeqEqual
    <2>2. e.key # ""
      BY <1>5 DEF CodesKnown
    <2>3. Decode(s) # Nothing
      <3>1. [key |-> e.key, up |-> e.up].key = e.key /\ Nothing.key = ""
        BY DEF Nothing
      <3> HIDE DEF e
      <3> QED BY <2>1, <2>2, <3>1, <1>6
    <2> QED BY <2>1, <2>3, <1>1, <1>2, <1>4, <1>6
  <1>13. CASE Len(s) < Len(c)
    <2>1. Len(s) \in 1 .. Len(c) - 1
      BY <1>1, <1>7, <1>13
    <2>2. s = SubSeq(c, 1, Len(s))
      <3>1. /\ SubSeq(c, 1, Len(s)) \in Seq(Byte) /\ Len(SubSeq(c, 1, Len(s))) = Len(s)
            /\ \A i \in 1 .. Len(s) : SubSeq(c, 1, Len(s))[i] = c[i]
        BY <2>1, <1>7
      <3> HIDE DEF Byte
      <3> QED BY <3>1, <1>1, <1>11, SeqEqual
    <2>3. Decode(s) = Nothing
      BY <2>1, <2>2, <1>6
    <2> QED BY <2>3, <1>1, <1>2, <1>4, <1>13
  <1>14. Len(s) = Len(c) \/ Len(s) < Len(c)
    BY <1>1, <1>7, <1>10
  <1> QED BY <1>12, <1>13, <1>14

\* The handler reads a byte that does not end a code.
LEMMA PartInv ==
  ASSUME CodesKnown, Inv, port # Empty, GetByte, Decode(Append(read, port)) = Nothing, irq' \in BOOLEAN
  PROVE  Inv'
  <1> DEFINE s == Append(read, port)
             c == Bytes(typed[1].key, typed[1].up)
  <1>1. typed # <<>> /\ s \in Seq(Byte) /\ Pending = s \o wire /\ Len(s) < Len(c)
    BY NextCode
  <1>2. /\ port' = Empty /\ read' = s /\ wire' = wire
        /\ UNCHANGED <<dumping, held, down, queue, kbdump_continue, typed>>
    BY DEF GetByte
  <1>3. TypeOK'
    BY <1>1, <1>2 DEF Inv, TypeOK
  <1>4. Pending' = Pending
    <2>1. InPort(port)' = <<>>
      BY <1>2 DEF InPort
    <2>2. s \o <<>> = s
      <3> HIDE DEF s
      <3> QED BY <1>1
    <2>3. Pending' = s \o <<>> \o wire
      BY <2>1, <1>2 DEF Pending
    <2> QED BY <2>2, <2>3, <1>1
  <1>5. Framed'
    <2>1. CodesOf(typed)' = CodesOf(typed)
      BY <1>2 DEF CodesOf
    <2> QED BY <2>1, <1>1, <1>2, <1>4 DEF Inv, Framed
  <1> QED BY <1>2, <1>3, <1>5 DEF Inv, ModifiersCome, ShiftComes, FreshShift

\* The handler takes an event.
LEMMA HandleInv ==
  ASSUME CodesKnown, Inv, port # Empty, GetByte, Decode(Append(read, port)) # Nothing, irq' \in BOOLEAN
  PROVE  Inv'
  <1> DEFINE s == Append(read, port)
             e == typed[1]
             b == Bytes(e.key, e.up)
             c == [key |-> e.key, up |-> e.up]
             n == Len(typed)
  <1>0. TypeOK /\ n \in Nat
    BY DEF Inv, TypeOK
  <1>1. typed # <<>> /\ b \in Seq(Byte) /\ Pending = b \o wire /\ Decode(s) = c
    <2>1. s = b /\ Decode(s) = [key |-> e.key, up |-> e.up] /\ s \in Seq(Byte)
      BY NextCode
    <2>2. typed # <<>> /\ Pending = s \o wire
      BY NextCode
    <2> HIDE DEF s, b
    <2> QED BY <2>1, <2>2
  <1>2. n >= 1 /\ e \in Events /\ (e.up => e.key \notin TapKeys)
    BY <1>0, <1>1 DEF TypeOK
  <1>3. /\ port' = Empty /\ read' = <<>> /\ wire' = wire /\ dumping' = dumping /\ held' = held
        /\ down' = update_state(c) /\ typed' = SubSeq(typed, 2, n)
        /\ kbdump_continue' = (kbdump_continue /\ ~QuitsDump(c))
        /\ queue' = IF dumping \/ ~Room THEN Older(c) ELSE Append(Older(c), Entry(c))
    BY <1>1 DEF GetByte, Handle
  <1>4. c.key = e.key /\ c.up = e.up /\ e.key \in Keys /\ e.up \in BOOLEAN /\ e.shift \in BOOLEAN
    BY <1>2 DEF Events
  <1> HIDE DEF c, b, s
  <1>5. /\ typed' \in Seq(Events) /\ Len(typed') = n - 1
        /\ \A i \in 1 .. n - 1 : typed'[i] = typed[i + 1]
    <2>1. /\ SubSeq(typed, 2, n) \in Seq(Events) /\ Len(SubSeq(typed, 2, n)) = n - 1
          /\ \A i \in 1 .. n - 1 : SubSeq(typed, 2, n)[i] = typed[1 + i]
      <3> HIDE DEF Events
      <3>1. typed \in Seq(Events) /\ 1 \in 0 .. Len(typed)
        BY <1>0, <1>2 DEF TypeOK
      <3>2. SubSeq(typed, 2, n) = SubSeq(typed, 1 + 1, Len(typed))
        OBVIOUS
      <3> QED BY <3>1, <3>2, Rest
    <2> QED BY <2>1, <1>3
  <1>6. \A m \in Modifiers : m \in down' <=> IF e.key = m THEN ~e.up ELSE m \in down
    BY <1>3, <1>4 DEF update_state
  <1>7. down' \subseteq Modifiers
    BY <1>0, <1>3 DEF update_state, TypeOK
  <1>8. \A m \in Modifiers : \A i \in 0 .. n - 1 :
           After(typed', down', m, i) <=> After(typed, down, m, i + 1)
    <2> SUFFICES ASSUME NEW m \in Modifiers, NEW i \in 0 .. n - 1
                 PROVE  After(typed', down', m, i) <=> After(typed, down, m, i + 1)
      OBVIOUS
    <2>1. i \in Nat /\ \A j \in 1 .. i : typed'[j] = typed[j + 1]
      BY <1>0, <1>5
    <2> QED BY <2>1, <1>6, AfterDrop
  <1>9. ModifiersCome'
    <2>1. n - 1 \in 0 .. n - 1 /\ (n - 1) + 1 = n
      BY <1>0, <1>2
    <2>2. \A m \in Modifiers : After(typed', down', m, n - 1) <=> After(typed, down, m, n)
      BY <2>1, <1>8
    <2> QED BY <2>2, <1>3, <1>5 DEF Inv, ModifiersCome
  <1>10. ShiftComes'
    <2> SUFFICES ASSUME NEW i \in 1 .. n - 1
                 PROVE  typed'[i].shift <=> \E m \in ShiftMods : After(typed', down', m, i - 1)
      BY <1>5 DEF ShiftComes
    <2>1. i - 1 \in 0 .. n - 1 /\ (i - 1) + 1 = i /\ i + 1 \in 1 .. n /\ (i + 1) - 1 = i
      BY <1>0
    <2>2. \A m \in ShiftMods : After(typed', down', m, i - 1) <=> After(typed, down, m, i)
      BY <2>1, <1>8 DEF Modifiers
    <2>3. typed[i + 1].shift <=> \E m \in ShiftMods : After(typed, down, m, i)
      BY <2>1 DEF Inv, ShiftComes
    <2> QED BY <2>2, <2>3, <1>5
  <1>11. Framed'
    <2>1. /\ CodesOf(typed) \in Seq(Codes) /\ Len(CodesOf(typed)) = n
          /\ CodesOf(typed') \in Seq(Codes) /\ Len(CodesOf(typed')) = n - 1
      <3>1. \A i \in 1 .. Len(typed') : typed'[i].up => typed'[i].key \notin TapKeys
        <4>1. \A i \in 1 .. n - 1 : i + 1 \in 1 .. n
          BY <1>0
        <4> QED BY <4>1, <1>0, <1>5 DEF TypeOK
      <3> QED BY <3>1, <1>0, <1>5, CodesAre DEF TypeOK
    <2>2. CodesOf(typed)[1] = b
      BY <1>0, <1>2 DEF CodesOf, b
    <2>3. CodesOf(typed') = SubSeq(CodesOf(typed), 2, Len(CodesOf(typed)))
      <3>1. \A i \in 1 .. n - 1 : CodesOf(typed')[i] = CodesOf(typed)[1 + i]
        BY <1>0, <1>5 DEF CodesOf
      <3>2. /\ SubSeq(CodesOf(typed), 1 + 1, n) \in Seq(Codes)
            /\ Len(SubSeq(CodesOf(typed), 1 + 1, n)) = n - 1
            /\ \A i \in 1 .. n - 1 : SubSeq(CodesOf(typed), 1 + 1, n)[i] = CodesOf(typed)[1 + i]
        <4>1. 1 \in 0 .. n
          BY <1>0, <1>2
        <4> HIDE DEF CodesOf, Codes
        <4> QED BY <4>1, <2>1, Rest
      <3> HIDE DEF CodesOf, Codes
      <3> QED BY <3>1, <3>2, <2>1, SeqEqual
    <2>4. Cut(Pending, CodesOf(typed)) /\ CodesOf(typed) # <<>>
      BY <2>1, <1>2, EmptySeq DEF Inv, Framed
    <2>5. Pending \in Seq(Byte) /\ wire \in Seq(Byte)
      BY <1>0, <1>1 DEF TypeOK
    <2>6. Cut(SubSeq(Pending, Len(b) + 1, Len(Pending)), CodesOf(typed'))
      <3> HIDE DEF CodesOf, Codes, Pending, Cut
      <3> QED BY <2>1, <2>2, <2>3, <2>4, <2>5, CutFirst
    <2>7. SubSeq(b \o wire, Len(b) + 1, Len(b \o wire)) = wire
      <3> HIDE DEF Byte
      <3> QED BY <2>5, <1>1, ConcatRest
    <2>8. Pending' = wire
      <3>1. InPort(port)' = <<>> /\ <<>> \o <<>> = <<>>
        BY <1>3 DEF InPort
      <3>2. <<>> \o wire = wire
        BY <2>5
      <3> QED BY <3>1, <3>2, <1>3 DEF Pending
    <2> QED BY <2>6, <2>7, <2>8, <1>1, <1>3 DEF Framed
  <1>12. /\ Older(c) \in Seq(Entries) /\ Len(Older(c)) = Len(queue)
         /\ \A i \in 1 .. Len(queue) :
              /\ Older(c)[i].key = queue[i].key /\ Older(c)[i].shift = queue[i].shift
              /\ Older(c)[i].fresh => queue[i].fresh /\ c.key \notin ShiftMods
    <2>1. queue \in Seq(Entries) /\ \A i \in 1 .. Len(queue) : queue[i] \in Entries
      BY <1>0 DEF TypeOK
    <2>2. CASE c.key \notin ShiftMods
      BY <2>1, <2>2 DEF Older
    <2>3. CASE c.key \in ShiftMods
      <3> DEFINE o == [i \in 1 .. Len(queue) |-> [queue[i] EXCEPT !.fresh = FALSE]]
      <3>1. Older(c) = o
        <4>1. DOMAIN queue = 1 .. Len(queue)
          BY <2>1
        <4> QED BY <2>3, <4>1 DEF Older
      <3>2. ASSUME NEW i \in 1 .. Len(queue)
            PROVE  /\ o[i] \in Entries /\ o[i].key = queue[i].key
                   /\ o[i].shift = queue[i].shift /\ ~o[i].fresh
        BY <2>1 DEF Entries
      <3>3. Len(queue) \in Nat
        BY <2>1
      <3>4. o \in Seq(Entries) /\ Len(o) = Len(queue)
        <4> HIDE DEF Entries
        <4> QED BY <3>2, <3>3
      <3> HIDE DEF o, Entries
      <3> QED BY <3>1, <3>2, <3>4
    <2> QED BY <2>2, <2>3
  <1>13. Entry(c) \in Entries /\ Entry(c).key = e.key /\ Entry(c).shift = e.shift
    BY <1>1, <1>4 DEF Entry, Entries
  <1>14. /\ queue' \in Seq(Entries)
         /\ \A i \in 1 .. Len(queue') :
              \/ i \in 1 .. Len(queue) /\ queue'[i] = Older(c)[i]
              \/ queue'[i] = Entry(c)
    <2> HIDE DEF Entries, Older, Entry
    <2>1. CASE dumping \/ ~Room
      BY <2>1, <1>3, <1>12
    <2>2. CASE ~(dumping \/ ~Room)
      <3>1. queue' = Append(Older(c), Entry(c))
        BY <2>2, <1>3
      <3> QED BY <3>1, <1>12, <1>13
    <2> QED BY <2>1, <2>2
  <1>15. FreshShift'
    <2> SUFFICES ASSUME NEW i \in 1 .. Len(queue'), queue'[i].fresh, queue'[i].key \notin ShiftMods
                 PROVE  queue'[i].shift <=> down' \cap ShiftMods # {}
      BY DEF FreshShift
    <2>1. CASE i \in 1 .. Len(queue) /\ queue'[i] = Older(c)[i]
      <3>1. c.key \notin ShiftMods /\ queue[i].fresh /\ queue[i].key \notin ShiftMods
        BY <2>1, <1>12
      <3>2. down' \cap ShiftMods = down \cap ShiftMods
        BY <3>1, <1>4, <1>6 DEF Modifiers
      <3> QED BY <2>1, <3>1, <3>2, <1>12 DEF Inv, FreshShift
    <2>2. CASE queue'[i] = Entry(c)
      <3>1. e.key \notin ShiftMods
        BY <2>2, <1>13
      <3>2. down' \cap ShiftMods = down \cap ShiftMods
        BY <3>1, <1>6 DEF Modifiers
      <3>3. e.shift <=> \E m \in ShiftMods : After(typed, down, m, 0)
        <4>1. 1 \in 1 .. n /\ 1 - 1 = 0
          BY <1>0, <1>2
        <4> QED BY <4>1 DEF Inv, ShiftComes
      <3>4. \A m : After(typed, down, m, 0) <=> m \in down
        BY DEF After
      <3> QED BY <2>2, <3>2, <3>3, <3>4, <1>13
    <2> QED BY <2>1, <2>2, <1>14
  <1>16. TypeOK'
    <2>1. \A i \in 1 .. Len(typed') : typed'[i].up => typed'[i].key \notin TapKeys
      <3>1. \A i \in 1 .. n - 1 : i + 1 \in 1 .. n
        BY <1>0
      <3> QED BY <3>1, <1>0, <1>5 DEF TypeOK
    <2>2. <<>> \in Seq(Byte) /\ kbdump_continue' \in BOOLEAN
      BY <1>3
    <2> HIDE DEF Events, Entries, Byte
    <2> QED BY <2>1, <2>2, <1>0, <1>3, <1>5, <1>7, <1>14 DEF TypeOK
  <1> QED BY <1>9, <1>10, <1>11, <1>15, <1>16 DEF Inv

\* The thread takes a key from the queue.
LEMMA GetKeyInv ==
  ASSUME Inv, NEW r, GetKey(r)
  PROVE  Inv'
  <1>1. /\ queue' \in Seq(Entries) /\ Len(queue') = Len(queue) - 1
        /\ \A i \in 1 .. Len(queue') : queue'[i] = queue[i + 1] /\ i + 1 \in 1 .. Len(queue)
    <2>1. queue \in Seq(Entries) /\ queue # <<>> /\ queue' = Tail(queue)
      BY DEF Inv, TypeOK, GetKey
    <2> HIDE DEF Entries
    <2> QED BY <2>1, HeadTailProperties
  <1>2. UNCHANGED <<wire, port, irq, read, down, dumping, kbdump_continue, held, typed>>
    BY DEF GetKey
  <1>3. TypeOK'
    BY <1>1, <1>2 DEF Inv, TypeOK
  <1>4. Framed' /\ ModifiersCome' /\ ShiftComes'
    BY <1>2 DEF Inv, Framed, Pending, InPort, CodesOf, ModifiersCome, ShiftComes
  <1>5. FreshShift'
    BY <1>1, <1>2 DEF Inv, FreshShift
  <1> QED BY <1>3, <1>4, <1>5 DEF Inv

\* What Inv is about, apart from the port and the wire, is left alone.
LEMMA SendInv == Inv /\ Send => Inv'
  <1> SUFFICES ASSUME Inv, Send PROVE Inv'
    OBVIOUS
  <1>0. wire \in Seq(Byte) /\ wire # <<>> /\ read \in Seq(Byte)
    BY DEF Inv, TypeOK, Send
  <1>1. port = Empty /\ port' = Head(wire) /\ wire' = Tail(wire) /\ irq' = TRUE
    BY DEF Send, has_scancode
  <1>2. UNCHANGED <<read, down, queue, dumping, kbdump_continue, held, typed>>
    BY DEF Send
  <1>3. Head(wire) \in Byte /\ Tail(wire) \in Seq(Byte) /\ wire = <<Head(wire)>> \o Tail(wire)
    BY <1>0
  <1>4. TypeOK'
    BY <1>1, <1>2, <1>3 DEF Inv, TypeOK
  <1>5. Pending' = Pending
    <2>1. port' # Empty
      <3>1. Head(wire) # 0
        <4>1. Head(wire) \in Byte
          BY <1>3
        <4> QED BY <4>1 DEF Byte
      <3> QED BY <3>1, <1>1 DEF Empty
    <2>2. InPort(port)' = <<Head(wire)>> /\ InPort(port) = <<>>
      BY <2>1, <1>1 DEF InPort
    <2>3. /\ Pending' = read \o <<Head(wire)>> \o Tail(wire)
          /\ Pending = read \o <<>> \o wire
      BY <2>2, <1>1, <1>2 DEF Pending
    <2>4. read \o <<Head(wire)>> \o Tail(wire) = read \o (<<Head(wire)>> \o Tail(wire))
      <3>1. <<Head(wire)>> \in Seq(Byte)
        BY <1>3
      <3> HIDE DEF Byte
      <3> QED BY <3>1, <1>0, <1>3, ConcatAssociative
    <2>5. read \o <<>> = read
      BY <1>0
    <2> QED BY <2>3, <2>4, <2>5, <1>3
  <1>6. Framed'
    <2>1. CodesOf(typed)' = CodesOf(typed)
      BY <1>2 DEF CodesOf
    <2> QED BY <2>1, <1>2, <1>5 DEF Inv, Framed
  <1> QED BY <1>2, <1>4, <1>6 DEF Inv, ModifiersCome, ShiftComes, FreshShift

LEMMA ByteInv ==
  ASSUME CodesKnown, Inv, has_scancode, GetByte, irq' \in BOOLEAN
  PROVE  Inv'
  BY PartInv, HandleInv DEF has_scancode

\* Only flags of the thread and the interrupt request change.
LEMMA IdleInv ==
  ASSUME Inv, UNCHANGED <<wire, port, read, down, queue, held, typed>>,
         irq' \in BOOLEAN, dumping' \in BOOLEAN, kbdump_continue' \in BOOLEAN
  PROVE  Inv'
  <1>1. TypeOK'
    BY DEF Inv, TypeOK
  <1>2. Framed'
    BY DEF Inv, Framed, Pending, InPort, CodesOf
  <1>3. ModifiersCome' /\ ShiftComes' /\ FreshShift'
    BY DEF Inv, ModifiersCome, ShiftComes, FreshShift
  <1> QED BY <1>1, <1>2, <1>3 DEF Inv

LEMMA InvStep == ASSUME CodesKnown PROVE Inv /\ [Next]_vars => Inv'
  <1> SUFFICES ASSUME Inv, [Next]_vars PROVE Inv'
    OBVIOUS
  <1>0. irq \in BOOLEAN /\ dumping \in BOOLEAN /\ kbdump_continue \in BOOLEAN
        /\ held \subseteq Keys \ TapKeys
    BY DEF Inv, TypeOK
  <1>1. ASSUME NEW k \in Keys, Press(k) PROVE Inv'
    <2>1. held' \subseteq Keys \ TapKeys /\ Event(k, FALSE) /\ FALSE \in BOOLEAN
      BY <1>0, <1>1 DEF Press
    <2>2. \A m \in Modifiers : m \in held' <=> IF k = m THEN ~FALSE ELSE m \in held
      BY <1>1 DEF Press, CodesKnown
    <2> QED BY <2>1, <2>2, EventInv
  <1>2. ASSUME NEW k \in Keys, Release(k) PROVE Inv'
    <2>1. /\ held' \subseteq Keys \ TapKeys /\ Event(k, TRUE) /\ k \notin TapKeys
          /\ TRUE \in BOOLEAN
      BY <1>0, <1>2 DEF Release
    <2>2. \A m \in Modifiers : m \in held' <=> IF k = m THEN ~TRUE ELSE m \in held
      BY <1>2 DEF Release
    <2> QED BY <2>1, <2>2, EventInv
  <1>3. CASE Send
    BY <1>3, SendInv
  <1>4. CASE Interrupt
    <2>1. irq' \in BOOLEAN
      BY <1>4 DEF Interrupt
    <2>2. CASE has_scancode
      BY <1>4, <2>1, <2>2, ByteInv DEF Interrupt
    <2>3. CASE ~has_scancode
      BY <1>0, <1>4, <2>1, <2>3, IdleInv DEF Interrupt
    <2> QED BY <2>2, <2>3
  <1>5. CASE GetRest
    BY <1>0, <1>5, ByteInv DEF GetRest
  <1>6. CASE k_getch \/ k_getch_extended
    BY <1>6, GetKeyInv DEF k_getch, k_getch_extended
  <1>7. CASE StartDump \/ EndDump
    BY <1>0, <1>7, IdleInv DEF StartDump, EndDump
  <1>8. CASE UNCHANGED vars
    BY <1>0, <1>8, IdleInv DEF vars
  <1> QED BY <1>1, <1>2, <1>3, <1>4, <1>5, <1>6, <1>7, <1>8 DEF Next, User, Handler, Thread

-----------------------------------------------------------------------------
(* The theorems.                                                           *)

\* Whatever keys are held and in what order they are pressed and released, when
\* nothing is on its way the driver's six flags are the user's modifiers.
THEOREM ModifiersHold == ASSUME CodesKnown PROVE Spec => []ModifiersFollow
  <1>1. Inv => ModifiersFollow
    <2> SUFFICES ASSUME Inv, typed = <<>> PROVE down = held \cap Modifiers
      BY DEF ModifiersFollow
    <2>1. \A m : After(typed, down, m, 0) <=> m \in down
      BY DEF After
    <2>2. Len(typed) = 0
      OBVIOUS
    <2>3. \A m \in Modifiers : m \in held <=> m \in down
      BY <2>1, <2>2 DEF Inv, ModifiersCome
    <2> QED BY <2>3 DEF Inv, TypeOK
  <1> QED BY <1>1, InvStart, InvStep, PTL DEF Spec

\* Every keycode the handler decodes is the oldest event on its way, however the
\* bytes, the interrupts and the waits inside the handler interleave.
THEOREM DecodesTyped == ASSUME CodesKnown PROVE Spec => DecodesWhatWasTyped
  <1>1. Inv /\ [Next]_vars =>
          [code' # Nothing =>
             /\ typed # <<>>
             /\ code' = [key |-> Head(typed).key, up |-> Head(typed).up]]_vars
    <2> SUFFICES ASSUME Inv, Next, code' # Nothing
                 PROVE  typed # <<>> /\ code' = [key |-> Head(typed).key, up |-> Head(typed).up]
      OBVIOUS
    <2>1. has_scancode /\ GetByte
      BY DEF Next, User, Press, Release, Event, Send, Handler, Interrupt, GetRest, Thread,
             k_getch, k_getch_extended, GetKey, StartDump, EndDump, Quiet
    <2>2. Decode(Append(read, port)) # Nothing /\ code' = Decode(Append(read, port))
      BY <2>1 DEF GetByte, Handle, Quiet
    <2>3. typed # <<>> /\ code' = [key |-> typed[1].key, up |-> typed[1].up]
      BY <2>1, <2>2, NextCode DEF has_scancode
    <2> QED BY <2>3 DEF Inv, TypeOK
  <1> QED BY <1>1, InvStart, InvStep, PTL DEF Spec, DecodesWhatWasTyped

\* The keys that k_getch_extended returns besides characters are not characters.
LEMMA TablesApart == {"UP", "DOWN", "LEFT", "RIGHT"} \cap AsciiKeys = {} /\ Modifiers \cap AsciiKeys = {}
  BY DEF AsciiKeys, Modifiers, ShiftMods, ControlMods, Typewriter

\* A character that is read while the Shift keys are as they were when it was typed
\* is the one that was typed, also after keys were dropped or shown by kbdump.
THEOREM ReadsAsTyped == ASSUME CodesKnown PROVE Spec => ReadAsTyped
  <1>1. Inv /\ [Next]_vars =>
          [ch' # Nothing /\ Head(queue).fresh =>
             ch'.up = (ch'.key \in ShiftKeys /\ Head(queue).shift)]_vars
    <2> SUFFICES ASSUME Inv, Next, ch' # Nothing, Head(queue).fresh
                 PROVE  ch'.up = (ch'.key \in ShiftKeys /\ Head(queue).shift)
      OBVIOUS
    <2>1. k_getch \/ k_getch_extended
      BY DEF Next, User, Press, Release, Event, Send, Handler, Interrupt, GetRest, GetByte, Handle,
             Thread, StartDump, EndDump, Quiet
    <2>2. queue \in Seq(Entries) /\ queue # <<>>
      BY <2>1 DEF Inv, TypeOK, k_getch, k_getch_extended, GetKey
    <2>3. Head(queue) = queue[1] /\ 1 \in 1 .. Len(queue) /\ queue[1] \in Entries
      BY <2>2
    <2> DEFINE c == FirstKey
               e == queue[1]
    <2>4. c.key = e.key /\ c.up = e.up /\ e.up \in BOOLEAN /\ e.shift \in BOOLEAN /\ e.fresh
      BY <2>3 DEF FirstKey, Entries
    <2>5. ch' = Ascii(c) \/ ch' = Extended(c)
      BY <2>1 DEF k_getch, k_getch_extended, GetKey
    <2>6. CASE ch' = Ascii(c)
      <3>1. c.key \in AsciiKeys /\ ch' = convert_ascii(c.key)
        BY <2>6 DEF Ascii
      <3>2. c.key \notin ShiftMods
        BY <3>1, TablesApart DEF Modifiers
      <3>3. e.shift <=> down \cap ShiftMods # {}
        BY <3>2, <2>3, <2>4 DEF Inv, FreshShift
      <3> QED BY <3>1, <3>3, <2>3, <2>4 DEF convert_ascii
    <2>7. CASE ch' = c /\ ~c.up /\ c.key \in {"UP", "DOWN", "LEFT", "RIGHT"} \cup (Modifiers \ ShiftMods)
      <3>1. c.key \notin ShiftKeys
        BY <2>7, TablesApart DEF ShiftKeys
      <3> QED BY <3>1, <2>4, <2>7
    <2> QED BY <2>5, <2>6, <2>7 DEF Extended
  <1> QED BY <1>1, InvStart, InvStep, PTL DEF Spec, ReadAsTyped
=============================================================================
