--------------------------- MODULE Console_proofs ---------------------------
(***************************************************************************)
(* Proofs about LineEdit and Console for every length of the line, every   *)
(* size of the screen and every output, as long as the user is careful:    *)
(* does not delete at the left end, and ends a line for k_gets at its      *)
(* right end.  In order:                                                   *)
(*   the buffer and its string, and that the editors implement Line;       *)
(*   the screen: where its cells are, what drawing and printing do to it;  *)
(*   that it shows the line, and the end of all that was written.          *)
(***************************************************************************)
EXTENDS Console, SequenceTheorems, WellFoundedInduction, TLAPS

-----------------------------------------------------------------------------
(* The buffer.                                                             *)

Bytes == Chars \cup {Nul, Newline, Other}

\* The buffer holds n characters and their terminator, and the byte in front of
\* it is not written.
Holds(b, n) ==
  /\ b \in [Index -> Bytes]
  /\ \A i \in 0 .. n - 1 : b[i] \in Chars
  /\ b[n] = Nul /\ b[-1] = Other

\* A line of n characters with the cursor at p.
LineIn(b, n, p) == n \in 0 .. Cap /\ p \in 0 .. n /\ Holds(b, n)

\* The inductive invariant of the editors.
BufInv ==
  /\ editor \in {"kshell", "k_gets"} /\ wild = FALSE
  /\ LineIn(cmdbuf, cmdsize, ptrpos)

LeftOf(b, p) == [i \in 1 .. p |-> b[i - 1]]
RightOf(b, n, p) == [i \in 1 .. n - p |-> b[p + i - 1]]

\* The string ends at its first Nul.
LEMMA StringIs ==
  ASSUME NEW b, NEW n \in 0 .. Cap + 1, b[n] = Nul, \A j \in 0 .. n - 1 : b[j] # Nul
  PROVE  String(b) = [i \in 1 .. n |-> b[i - 1]]
  <1> USE LineEditAssumption
  <1> DEFINE Ends(i) == (b[i] = Nul \/ i = Cap + 1) /\ \A j \in 0 .. i - 1 : b[j] # Nul
  <1>1. Ends(n)
    OBVIOUS
  <1>2. ASSUME NEW i \in 0 .. Cap + 1, Ends(i) PROVE i = n
    <2>1. CASE i < n
      <3>1. i \in 0 .. n - 1
        BY <2>1
      <3>2. b[i] # Nul /\ i # Cap + 1
        BY <3>1
      <3> QED BY <1>2, <3>2
    <2>2. CASE i > n
      <3>1. n \in 0 .. i - 1
        BY <2>2
      <3> QED BY <1>2, <3>1
    <2> QED BY <2>1, <2>2
  <1>3. (CHOOSE i \in 0 .. Cap + 1 : Ends(i)) = n
    <2> HIDE DEF Ends
    <2> QED BY <1>1, <1>2
  <1> QED BY <1>3 DEF String

LEMMA HeldString ==
  ASSUME NEW b, NEW n \in 0 .. Cap, Holds(b, n)
  PROVE  /\ String(b) = [i \in 1 .. n |-> b[i - 1]]
         /\ String(b) \in Seq(Chars)
         /\ Len(String(b)) = n
  <1> USE LineEditAssumption
  <1>1. \A j \in 0 .. n - 1 : b[j] # Nul
    BY DEF Holds
  <1>2. b[n] = Nul /\ n \in 0 .. Cap + 1
    BY DEF Holds
  <1>3. String(b) = [i \in 1 .. n |-> b[i - 1]]
    BY <1>1, <1>2, StringIs
  <1>4. \A i \in 1 .. n : b[i - 1] \in Chars
    <2> TAKE i \in 1 .. n
    <2>1. i - 1 \in 0 .. n - 1
      OBVIOUS
    <2> QED BY <2>1 DEF Holds
  <1>5. [i \in 1 .. n |-> b[i - 1]] \in [1 .. n -> Chars]
    BY <1>4
  <1>6. String(b) \in Seq(Chars)
    BY <1>3, <1>5
  <1> QED BY <1>3, <1>5, <1>6

\* What the two halves of a line are.
LEMMA Halves ==
  ASSUME NEW b, NEW n, NEW p, LineIn(b, n, p)
  PROVE  /\ LeftOf(b, p) \in Seq(Chars) /\ Len(LeftOf(b, p)) = p
         /\ RightOf(b, n, p) \in Seq(Chars) /\ Len(RightOf(b, n, p)) = n - p
         /\ LeftOf(b, p) \o RightOf(b, n, p) = String(b)
         /\ \A i \in 1 .. p : LeftOf(b, p)[i] = b[i - 1]
         /\ \A i \in 1 .. n - p : RightOf(b, n, p)[i] = b[p + i - 1]
  <1> USE LineEditAssumption
  <1>0. /\ n \in Nat /\ p \in Nat /\ p <= n /\ n <= Cap
        /\ Holds(b, n) /\ n \in 0 .. Cap
        /\ n - p \in Nat
    BY DEF LineIn
  <1>1. \A i \in 0 .. n - 1 : b[i] \in Chars
    BY <1>0 DEF Holds
  <1>2. LeftOf(b, p) \in [1 .. p -> Chars]
    <2>1. \A i \in 1 .. p : i - 1 \in 0 .. n - 1
      BY <1>0
    <2> QED BY <2>1, <1>1 DEF LeftOf
  <1>3. RightOf(b, n, p) \in [1 .. n - p -> Chars]
    <2>1. \A i \in 1 .. n - p : p + i - 1 \in 0 .. n - 1
      BY <1>0
    <2> QED BY <2>1, <1>1 DEF RightOf
  <1>4. LeftOf(b, p) \in Seq(Chars) /\ Len(LeftOf(b, p)) = p
    BY <1>0, <1>2
  <1>5. RightOf(b, n, p) \in Seq(Chars) /\ Len(RightOf(b, n, p)) = n - p
    BY <1>0, <1>3
  <1>6. \A i \in 1 .. p : LeftOf(b, p)[i] = b[i - 1]
    BY DEF LeftOf
  <1>7. \A i \in 1 .. n - p : RightOf(b, n, p)[i] = b[p + i - 1]
    BY DEF RightOf
  <1>8. LeftOf(b, p) \o RightOf(b, n, p) = String(b)
    <2>1. /\ String(b) = [i \in 1 .. n |-> b[i - 1]]
          /\ String(b) \in Seq(Chars) /\ Len(String(b)) = n
      BY <1>0, HeldString
    <2>2. /\ LeftOf(b, p) \o RightOf(b, n, p) \in Seq(Chars)
          /\ Len(LeftOf(b, p) \o RightOf(b, n, p)) = p + (n - p)
          /\ \A i \in 1 .. p + (n - p) :
               (LeftOf(b, p) \o RightOf(b, n, p))[i] = IF i <= p THEN LeftOf(b, p)[i] ELSE RightOf(b, n, p)[i - p]
      <3>1. /\ LeftOf(b, p) \o RightOf(b, n, p) \in Seq(Chars)
            /\ Len(LeftOf(b, p) \o RightOf(b, n, p)) = Len(LeftOf(b, p)) + Len(RightOf(b, n, p))
            /\ \A i \in 1 .. Len(LeftOf(b, p)) + Len(RightOf(b, n, p)) :
                 (LeftOf(b, p) \o RightOf(b, n, p))[i] = IF i <= Len(LeftOf(b, p)) THEN LeftOf(b, p)[i]
                                         ELSE RightOf(b, n, p)[i - Len(LeftOf(b, p))]
        BY <1>4, <1>5, ConcatProperties
      <3> QED BY <3>1, <1>4, <1>5
    <2>3. p + (n - p) = n
      BY <1>0
    <2>4. ASSUME NEW i \in 1 .. n PROVE (LeftOf(b, p) \o RightOf(b, n, p))[i] = b[i - 1]
      <3>1. CASE i <= p
        BY <3>1, <2>2, <2>3, <1>6, <1>0
      <3>2. CASE ~(i <= p)
        <4>1. i - p \in 1 .. n - p /\ p + (i - p) - 1 = i - 1
          BY <3>2, <1>0
        <4>2. RightOf(b, n, p)[i - p] = b[p + (i - p) - 1]
          BY <4>1, <1>7
        <4> QED BY <4>1, <4>2, <3>2, <2>2, <2>3
      <3> QED BY <3>1, <3>2
    <2>5. \A i \in 1 .. Len(LeftOf(b, p) \o RightOf(b, n, p)) : (LeftOf(b, p) \o RightOf(b, n, p))[i] = String(b)[i]
      BY <2>1, <2>2, <2>3, <2>4
    <2> HIDE DEF LeftOf, RightOf
    <2> QED BY <2>1, <2>2, <2>3, <2>5, SeqEqual
  <1> QED BY <1>4, <1>5, <1>6, <1>7, <1>8

\* The cursor moves over the character on its left ...
LEMMA LeftMoves ==
  ASSUME NEW b, NEW n, NEW p, LineIn(b, n, p), p > 0
  PROVE  /\ LineIn(b, n, p - 1)
         /\ LeftOf(b, p) # <<>>
         /\ LeftOf(b, p - 1) = SubSeq(LeftOf(b, p), 1, Len(LeftOf(b, p)) - 1)
         /\ RightOf(b, n, p - 1) = <<LeftOf(b, p)[Len(LeftOf(b, p))]>> \o RightOf(b, n, p)
  <1> USE LineEditAssumption
  <1>0. n \in Nat /\ p \in Nat /\ p <= n /\ p - 1 \in Nat
    BY DEF LineIn
  <1>1. LineIn(b, n, p - 1)
    BY <1>0 DEF LineIn
  <1>2. /\ LeftOf(b, p) \in Seq(Chars) /\ Len(LeftOf(b, p)) = p
        /\ RightOf(b, n, p) \in Seq(Chars) /\ Len(RightOf(b, n, p)) = n - p
        /\ \A i \in 1 .. p : LeftOf(b, p)[i] = b[i - 1]
        /\ \A i \in 1 .. n - p : RightOf(b, n, p)[i] = b[p + i - 1]
    BY Halves
  <1>3. /\ LeftOf(b, p - 1) \in Seq(Chars) /\ Len(LeftOf(b, p - 1)) = p - 1
        /\ RightOf(b, n, p - 1) \in Seq(Chars) /\ Len(RightOf(b, n, p - 1)) = n - (p - 1)
        /\ \A i \in 1 .. p - 1 : LeftOf(b, p - 1)[i] = b[i - 1]
        /\ \A i \in 1 .. n - (p - 1) : RightOf(b, n, p - 1)[i] = b[(p - 1) + i - 1]
    BY <1>1, Halves
  <1>4. LeftOf(b, p) # <<>>
    BY <1>0, <1>2
  <1>5. LeftOf(b, p - 1) = SubSeq(LeftOf(b, p), 1, p - 1)
    <2>1. \A i \in 1 .. p - 1 : LeftOf(b, p)[i] \in Chars
      BY <1>0, <1>2, ElementOfSeq
    <2>2. /\ SubSeq(LeftOf(b, p), 1, p - 1) \in Seq(Chars)
          /\ Len(SubSeq(LeftOf(b, p), 1, p - 1)) = IF 1 <= p - 1 THEN (p - 1) - 1 + 1 ELSE 0
          /\ \A i \in 1 .. (p - 1) - 1 + 1 :
               SubSeq(LeftOf(b, p), 1, p - 1)[i] = LeftOf(b, p)[1 + i - 1]
      BY <1>0, <2>1, SubSeqProperties
    <2>3. Len(SubSeq(LeftOf(b, p), 1, p - 1)) = p - 1 /\ (p - 1) - 1 + 1 = p - 1
      BY <2>2, <1>0
    <2>4. ASSUME NEW i \in 1 .. p - 1
          PROVE  SubSeq(LeftOf(b, p), 1, p - 1)[i] = LeftOf(b, p - 1)[i]
      <3>1. 1 + i - 1 = i /\ i \in 1 .. p
        BY <1>0
      <3>2. SubSeq(LeftOf(b, p), 1, p - 1)[i] = LeftOf(b, p)[i]
        BY <3>1, <2>2, <2>3
      <3>3. LeftOf(b, p)[i] = b[i - 1] /\ LeftOf(b, p - 1)[i] = b[i - 1]
        BY <3>1, <1>2, <1>3
      <3> QED BY <3>2, <3>3
    <2> QED BY <2>2, <2>3, <2>4, <1>3, SeqEqual
  <1>6. RightOf(b, n, p - 1) = <<b[p - 1]>> \o RightOf(b, n, p)
    <2>1. LeftOf(b, p)[p] = b[p - 1] /\ LeftOf(b, p)[p] \in Chars
      BY <1>0, <1>2, ElementOfSeq
    <2>2. <<b[p - 1]>> \in Seq(Chars) /\ Len(<<b[p - 1]>>) = 1 /\ <<b[p - 1]>>[1] = b[p - 1]
      BY <2>1
    <2>3. /\ <<b[p - 1]>> \o RightOf(b, n, p) \in Seq(Chars)
          /\ Len(<<b[p - 1]>> \o RightOf(b, n, p)) = 1 + (n - p)
          /\ \A i \in 1 .. 1 + (n - p) :
               (<<b[p - 1]>> \o RightOf(b, n, p))[i] =
                 IF i <= 1 THEN <<b[p - 1]>>[i] ELSE RightOf(b, n, p)[i - 1]
      <3> HIDE DEF RightOf
      <3>1. /\ <<b[p - 1]>> \o RightOf(b, n, p) \in Seq(Chars)
            /\ Len(<<b[p - 1]>> \o RightOf(b, n, p)) = Len(<<b[p - 1]>>) + Len(RightOf(b, n, p))
            /\ \A i \in 1 .. Len(<<b[p - 1]>>) + Len(RightOf(b, n, p)) :
                 (<<b[p - 1]>> \o RightOf(b, n, p))[i] =
                    IF i <= Len(<<b[p - 1]>>) THEN <<b[p - 1]>>[i]
                    ELSE RightOf(b, n, p)[i - Len(<<b[p - 1]>>)]
        BY <2>2, <1>2, ConcatProperties
      <3> QED BY <3>1, <2>2, <1>2
    <2>4. ASSUME NEW i \in 1 .. n - (p - 1)
          PROVE  (<<b[p - 1]>> \o RightOf(b, n, p))[i] = RightOf(b, n, p - 1)[i]
      <3>1. CASE i = 1
        <4>1. (p - 1) + i - 1 = p - 1 /\ i \in 1 .. 1 + (n - p)
          BY <3>1, <1>0
        <4>2. (<<b[p - 1]>> \o RightOf(b, n, p))[i] = <<b[p - 1]>>[1]
          BY <4>1, <3>1, <2>3
        <4>3. RightOf(b, n, p - 1)[i] = b[p - 1]
          BY <4>1, <1>3
        <4> QED BY <4>2, <4>3, <2>2
      <3>2. CASE i # 1
        <4>1. /\ ~(i <= 1) /\ i \in 1 .. 1 + (n - p) /\ i - 1 \in 1 .. n - p
              /\ p + (i - 1) - 1 = (p - 1) + i - 1
          BY <3>2, <1>0
        <4>2. (<<b[p - 1]>> \o RightOf(b, n, p))[i] = RightOf(b, n, p)[i - 1]
          BY <4>1, <2>3
        <4>3. RightOf(b, n, p)[i - 1] = b[p + (i - 1) - 1]
          BY <4>1, <1>2
        <4> QED BY <4>1, <4>2, <4>3, <1>3
      <3> QED BY <3>1, <3>2
    <2>5. n - (p - 1) = 1 + (n - p)
      BY <1>0
    <2> QED BY <2>3, <2>4, <2>5, <1>3, SeqEqual
  <1>7. LeftOf(b, p)[p] = b[p - 1]
    BY <1>0, <1>2
  <1> QED BY <1>1, <1>2, <1>4, <1>5, <1>6, <1>7

\* ... or on its right.
LEMMA RightMoves ==
  ASSUME NEW b, NEW n, NEW p, LineIn(b, n, p), p < n
  PROVE  /\ LineIn(b, n, p + 1)
         /\ RightOf(b, n, p) # <<>>
         /\ LeftOf(b, p + 1) = Append(LeftOf(b, p), Head(RightOf(b, n, p)))
         /\ RightOf(b, n, p + 1) = Tail(RightOf(b, n, p))
  <1> USE LineEditAssumption
  <1>0. n \in Nat /\ p \in Nat /\ p < n /\ p + 1 \in Nat
    BY DEF LineIn
  <1>1. LineIn(b, n, p + 1)
    BY <1>0 DEF LineIn
  <1>2. /\ LeftOf(b, p) \in Seq(Chars) /\ Len(LeftOf(b, p)) = p
        /\ RightOf(b, n, p) \in Seq(Chars) /\ Len(RightOf(b, n, p)) = n - p
        /\ \A i \in 1 .. p : LeftOf(b, p)[i] = b[i - 1]
        /\ \A i \in 1 .. n - p : RightOf(b, n, p)[i] = b[p + i - 1]
    BY Halves
  <1>3. /\ LeftOf(b, p + 1) \in Seq(Chars) /\ Len(LeftOf(b, p + 1)) = p + 1
        /\ RightOf(b, n, p + 1) \in Seq(Chars) /\ Len(RightOf(b, n, p + 1)) = n - (p + 1)
        /\ \A i \in 1 .. p + 1 : LeftOf(b, p + 1)[i] = b[i - 1]
        /\ \A i \in 1 .. n - (p + 1) : RightOf(b, n, p + 1)[i] = b[(p + 1) + i - 1]
    BY <1>1, Halves
  <1>4. RightOf(b, n, p) # <<>>
    BY <1>0, <1>2
  <1>5. /\ Head(RightOf(b, n, p)) = b[p] /\ Head(RightOf(b, n, p)) \in Chars
        /\ Tail(RightOf(b, n, p)) \in Seq(Chars)
        /\ Len(Tail(RightOf(b, n, p))) = n - p - 1
        /\ \A i \in 1 .. n - p - 1 : Tail(RightOf(b, n, p))[i] = RightOf(b, n, p)[i + 1]
    <2>1. /\ Head(RightOf(b, n, p)) \in Chars
          /\ Tail(RightOf(b, n, p)) \in Seq(Chars)
          /\ Len(Tail(RightOf(b, n, p))) = Len(RightOf(b, n, p)) - 1
          /\ \A i \in 1 .. Len(Tail(RightOf(b, n, p))) : Tail(RightOf(b, n, p))[i] = RightOf(b, n, p)[i + 1]
      BY <1>2, <1>4, HeadTailProperties
    <2>2. Head(RightOf(b, n, p)) = RightOf(b, n, p)[1]
      BY <1>4, <1>2
    <2>3. 1 \in 1 .. n - p /\ p + 1 - 1 = p
      BY <1>0
    <2>4. RightOf(b, n, p)[1] = b[p + 1 - 1]
      BY <2>3, <1>2
    <2> QED BY <2>1, <2>2, <2>3, <2>4, <1>2
  <1>6. LeftOf(b, p + 1) = Append(LeftOf(b, p), b[p])
    <2>1. /\ Append(LeftOf(b, p), b[p]) \in Seq(Chars)
          /\ Len(Append(LeftOf(b, p), b[p])) = Len(LeftOf(b, p)) + 1
          /\ \A i \in 1 .. Len(LeftOf(b, p)) : Append(LeftOf(b, p), b[p])[i] = LeftOf(b, p)[i]
          /\ Append(LeftOf(b, p), b[p])[Len(LeftOf(b, p)) + 1] = b[p]
      BY <1>5, <1>2, AppendProperties
    <2>2. ASSUME NEW i \in 1 .. p + 1 PROVE Append(LeftOf(b, p), b[p])[i] = LeftOf(b, p + 1)[i]
      <3>1. CASE i = p + 1
        <4>1. i - 1 = p
          BY <3>1, <1>0
        <4> QED BY <3>1, <4>1, <2>1, <1>2, <1>3
      <3>2. CASE i # p + 1
        <4>1. i \in 1 .. p
          BY <3>2, <1>0
        <4> QED BY <4>1, <2>1, <1>2, <1>3
      <3> QED BY <3>1, <3>2
    <2>3. Len(Append(LeftOf(b, p), b[p])) = p + 1
      BY <2>1, <1>2
    <2> QED BY <2>1, <2>2, <2>3, <1>3, SeqEqual
  <1>7. RightOf(b, n, p + 1) = Tail(RightOf(b, n, p))
    <2>1. n - (p + 1) = n - p - 1
      BY <1>0
    <2>2. ASSUME NEW i \in 1 .. n - p - 1 PROVE Tail(RightOf(b, n, p))[i] = RightOf(b, n, p + 1)[i]
      <3>1. i + 1 \in 1 .. n - p /\ p + (i + 1) - 1 = (p + 1) + i - 1
        BY <1>0
      <3>2. RightOf(b, n, p)[i + 1] = b[p + (i + 1) - 1]
        BY <3>1, <1>2
      <3> QED BY <3>1, <3>2, <2>1, <1>3, <1>5
    <2> QED BY <2>1, <2>2, <1>3, <1>5, SeqEqual
  <1> QED BY <1>1, <1>4, <1>5, <1>6, <1>7

\* What memmove leaves.
LEMMA MovedAt ==
  ASSUME NEW b, NEW to, NEW from, NEW n, NEW i \in Index
  PROVE  Moved(b, to, from, n)[i] = IF i \in to .. to + n - 1 THEN b[i - to + from] ELSE b[i]
  BY DEF Moved

\* The characters of a line with one more ...
WithOneMore(d, b, n, p, c) ==
  \A i \in 0 .. n : d[i] = IF i = p THEN c
                            ELSE IF i > p THEN b[i - 1] ELSE b[i]

\* ... and with one less.
WithOneLess(d, b, n, p) ==
  \A i \in 0 .. n - 2 : d[i] = IF i >= p - 1 THEN b[i + 1] ELSE b[i]

\* The halves of a line with a character more ...
LEMMA HalvesInserted ==
  ASSUME NEW b, NEW n, NEW p, LineIn(b, n, p), n < Cap, NEW c \in Chars,
         NEW d, NEW m, NEW q, LineIn(d, m, q)
  PROVE  m = n + 1 /\ q = p + 1
         /\ WithOneMore(d, b, n, p, c)
         => /\ LeftOf(d, q) = Append(LeftOf(b, p), c)
            /\ RightOf(d, m, q) = RightOf(b, n, p)
  <1> USE LineEditAssumption
  <1>6. /\ LeftOf(b, p) \in Seq(Chars) /\ Len(LeftOf(b, p)) = p
        /\ RightOf(b, n, p) \in Seq(Chars) /\ Len(RightOf(b, n, p)) = n - p
        /\ \A i \in 1 .. p : LeftOf(b, p)[i] = b[i - 1]
        /\ \A i \in 1 .. n - p : RightOf(b, n, p)[i] = b[p + i - 1]
    BY Halves
  <1>7. /\ LeftOf(d, q) \in Seq(Chars) /\ Len(LeftOf(d, q)) = q
        /\ RightOf(d, m, q) \in Seq(Chars)
        /\ Len(RightOf(d, m, q)) = m - q
        /\ \A i \in 1 .. q : LeftOf(d, q)[i] = d[i - 1]
        /\ \A i \in 1 .. m - q : RightOf(d, m, q)[i] = d[q + i - 1]
    BY Halves
  <1> SUFFICES ASSUME m = n + 1, q = p + 1, WithOneMore(d, b, n, p, c)
               PROVE  /\ LeftOf(d, q) = Append(LeftOf(b, p), c)
                      /\ RightOf(d, m, q) = RightOf(b, n, p)
    OBVIOUS
  <1>0. n \in Nat /\ p \in Nat /\ m \in Nat /\ q \in Nat /\ p <= n /\ q <= m
    BY DEF LineIn
  <1>4. \A i \in 0 .. n : d[i] = IF i = p THEN c ELSE IF i > p THEN b[i - 1] ELSE b[i]
    BY DEF WithOneMore
  <1>8. LeftOf(d, q) = Append(LeftOf(b, p), c)
    <2>1. /\ Append(LeftOf(b, p), c) \in Seq(Chars)
          /\ Len(Append(LeftOf(b, p), c)) = Len(LeftOf(b, p)) + 1
          /\ \A i \in 1 .. Len(LeftOf(b, p)) : Append(LeftOf(b, p), c)[i] = LeftOf(b, p)[i]
          /\ Append(LeftOf(b, p), c)[Len(LeftOf(b, p)) + 1] = c
      <3>1. LeftOf(b, p) \in Seq(Chars) /\ c \in Chars
        BY <1>6
      <3> QED BY <3>1, AppendProperties
    <2>2. ASSUME NEW i \in 1 .. q PROVE Append(LeftOf(b, p), c)[i] = LeftOf(d, q)[i]
      <3>1. i - 1 \in 0 .. n /\ ~(i - 1 > p)
        BY <1>0
      <3>2. LeftOf(d, q)[i] = IF i - 1 = p THEN c ELSE b[i - 1]
        BY <3>1, <1>4, <1>7
      <3>3. CASE i = p + 1
        <4>1. i - 1 = p
          BY <3>3, <1>0
        <4> QED BY <4>1, <3>2, <3>3, <2>1, <1>6
      <3>4. CASE i # p + 1
        <4>1. i \in 1 .. p /\ i - 1 # p
          BY <3>4, <1>0
        <4> QED BY <4>1, <3>2, <2>1, <1>6
      <3> QED BY <3>3, <3>4
    <2>3. Len(Append(LeftOf(b, p), c)) = q
      BY <2>1, <1>6
    <2> QED BY <2>1, <2>2, <2>3, <1>7, SeqEqual
  <1>9. RightOf(d, m, q) = RightOf(b, n, p)
    <2>1. m - q = n - p
      BY <1>0
    <2>2. ASSUME NEW i \in 1 .. n - p PROVE RightOf(d, m, q)[i] = RightOf(b, n, p)[i]
      <3>1. /\ q + i - 1 = p + i /\ p + i \in 0 .. n /\ p + i > p
            /\ p + i # p
        BY <1>0
      <3>2. RightOf(d, m, q)[i] = d[p + i]
        BY <3>1, <2>1, <1>7
      <3>3. PICK k, j : k = p + i /\ j = p + i - 1
        OBVIOUS
      <3>4. d[k] = b[j]
        <4>1. k \in 0 .. n /\ k > p /\ k # p /\ k - 1 = j
          BY <3>1, <3>3, <1>0
        <4> QED BY <4>1, <1>4
      <3>5. RightOf(b, n, p)[i] = b[p + i - 1]
        BY <1>6
      <3> QED BY <3>2, <3>3, <3>4, <3>5
    <2> QED BY <2>1, <2>2, <1>6, <1>7, SeqEqual, SMTT(30)
  <1> QED BY <1>8, <1>9

\* ... and with one less.
LEMMA HalvesDeleted ==
  ASSUME NEW b, NEW n, NEW p, LineIn(b, n, p), p > 0,
         NEW d, NEW m, NEW q, LineIn(d, m, q)
  PROVE  m = n - 1 /\ q = p - 1
         /\ WithOneLess(d, b, n, p)
         => /\ LeftOf(d, q) = SubSeq(LeftOf(b, p), 1, Len(LeftOf(b, p)) - 1)
            /\ RightOf(d, m, q) = RightOf(b, n, p)
  <1> USE LineEditAssumption
  <1>6. /\ RightOf(b, n, p) \in Seq(Chars) /\ Len(RightOf(b, n, p)) = n - p
        /\ \A i \in 1 .. n - p : RightOf(b, n, p)[i] = b[p + i - 1]
    BY Halves
  <1>7. /\ LeftOf(d, q) \in Seq(Chars) /\ Len(LeftOf(d, q)) = q
        /\ RightOf(d, m, q) \in Seq(Chars)
        /\ Len(RightOf(d, m, q)) = m - q
        /\ \A i \in 1 .. q : LeftOf(d, q)[i] = d[i - 1]
        /\ \A i \in 1 .. m - q : RightOf(d, m, q)[i] = d[q + i - 1]
    BY Halves
  <1>3. LineIn(b, n, q) => /\ LeftOf(b, q) \in Seq(Chars) /\ Len(LeftOf(b, q)) = q
                           /\ \A i \in 1 .. q : LeftOf(b, q)[i] = b[i - 1]
    BY Halves
  <1> SUFFICES ASSUME m = n - 1, q = p - 1, WithOneLess(d, b, n, p)
               PROVE  /\ LeftOf(d, q) = SubSeq(LeftOf(b, p), 1, Len(LeftOf(b, p)) - 1)
                      /\ RightOf(d, m, q) = RightOf(b, n, p)
    OBVIOUS
  <1>0. n \in Nat /\ p \in Nat /\ m \in Nat /\ q \in Nat /\ p <= n /\ q <= m
    BY DEF LineIn
  <1>4. \A i \in 0 .. n - 2 : d[i] = IF i >= p - 1 THEN b[i + 1] ELSE b[i]
    BY DEF WithOneLess
  <1>8. LeftOf(d, q) = SubSeq(LeftOf(b, p), 1, Len(LeftOf(b, p)) - 1)
    <2>1. /\ LineIn(b, n, p - 1)
          /\ LeftOf(b, p - 1) = SubSeq(LeftOf(b, p), 1, Len(LeftOf(b, p)) - 1)
      BY LeftMoves
    <2>2. /\ LeftOf(b, p - 1) \in Seq(Chars) /\ Len(LeftOf(b, p - 1)) = q
          /\ \A i \in 1 .. q : LeftOf(b, p - 1)[i] = b[i - 1]
      BY <2>1, <1>3
    <2>3. ASSUME NEW i \in 1 .. q PROVE LeftOf(d, q)[i] = LeftOf(b, p - 1)[i]
      <3>1. i - 1 \in 0 .. n - 2 /\ ~(i - 1 >= p - 1)
        BY <1>0
      <3> QED BY <3>1, <1>4, <1>7, <2>2
    <2>4. LeftOf(d, q) = LeftOf(b, p - 1)
      BY <2>2, <2>3, <1>7, SeqEqual
    <2> QED BY <2>1, <2>4
  <1>9. RightOf(d, m, q) = RightOf(b, n, p)
    <2>1. m - q = n - p
      BY <1>0
    <2>2. ASSUME NEW i \in 1 .. n - p PROVE RightOf(d, m, q)[i] = RightOf(b, n, p)[i]
      <3>1. /\ q + i - 1 \in 0 .. n - 2 /\ q + i - 1 >= p - 1
            /\ (q + i - 1) + 1 = p + i - 1
        BY <1>0
      <3>2. RightOf(d, m, q)[i] = d[q + i - 1]
        BY <2>1, <1>7
      <3>3. d[q + i - 1] = b[p + i - 1]
        BY <3>1, <1>4
      <3> QED BY <3>2, <3>3, <1>6
    <2> QED BY <2>1, <2>2, <1>6, <1>7, SeqEqual
  <1> QED BY <1>8, <1>9

\* A character is put in front of the cursor and moves the tail, terminator and all.
LEMMA Insertion ==
  ASSUME NEW b, NEW n, NEW p, LineIn(b, n, p), n < Cap, NEW c \in Chars,
         NEW d, d = [Moved(b, p + 1, p, n - p) EXCEPT ![p] = c, ![n + 1] = Nul]
  PROVE  /\ LineIn(d, n + 1, p + 1)
         /\ LeftOf(d, p + 1) = Append(LeftOf(b, p), c)
         /\ RightOf(d, n + 1, p + 1) = RightOf(b, n, p)
  <1> USE LineEditAssumption
  <1>0. n \in Nat /\ p \in Nat /\ p <= n /\ n + 1 \in 0 .. Cap /\ Cap \in Nat
    BY DEF LineIn
  <1>1. \A i \in Index : b[i] \in Bytes
    BY DEF LineIn, Holds
  <1>2. d \in [Index -> Bytes]
    <2>1. \A i \in Index : Moved(b, p + 1, p, n - p)[i] \in Bytes
      <3> TAKE i \in Index
      <3>1. i \in p + 1 .. p + 1 + (n - p) - 1 => i - (p + 1) + p \in Index
        BY <1>0 DEF Index
      <3> QED BY <3>1, <1>1, MovedAt
    <2>2. Moved(b, p + 1, p, n - p) \in [Index -> Bytes]
      BY <2>1 DEF Moved
    <2>3. c \in Bytes /\ Nul \in Bytes
      BY DEF Bytes
    <2> QED BY <2>2, <2>3
  <1>3. \A i \in Index : d[i] = IF i = n + 1 THEN Nul ELSE IF i = p THEN c
                                ELSE IF i \in p + 1 .. n THEN b[i - 1] ELSE b[i]
    <2> TAKE i \in Index
    <2>1. p + 1 + (n - p) - 1 = n /\ i - (p + 1) + p = i - 1 /\ p # n + 1
      BY <1>0 DEF Index
    <2>2. Moved(b, p + 1, p, n - p)[i] = IF i \in p + 1 .. n THEN b[i - 1] ELSE b[i]
      BY <2>1, MovedAt
    <2>3. DOMAIN Moved(b, p + 1, p, n - p) = Index
      BY DEF Moved
    <2>4. d[i] = IF i = n + 1 THEN Nul ELSE IF i = p THEN c ELSE Moved(b, p + 1, p, n - p)[i]
      BY <2>1, <2>3
    <2> QED BY <2>2, <2>4
  <1>4. \A i \in 0 .. n : d[i] = IF i = p THEN c ELSE IF i > p THEN b[i - 1] ELSE b[i]
    <2> TAKE i \in 0 .. n
    <2>1. i \in Index /\ i # n + 1 /\ (i > p <=> i \in p + 1 .. n)
      BY <1>0 DEF Index
    <2> QED BY <2>1, <1>3
  <1>5. LineIn(d, n + 1, p + 1)
    <2>1. d[n + 1] = Nul
      <3>1. n + 1 \in Index
        BY <1>0 DEF Index
      <3> QED BY <3>1, <1>3
    <2>2. d[-1] = Other
      <3>1. /\ -1 \in Index /\ -1 # n + 1 /\ -1 # p /\ -1 \notin p + 1 .. n
            /\ b[-1] = Other
        BY <1>0 DEF Index, LineIn, Holds
      <3> QED BY <3>1, <1>3
    <2>3. ASSUME NEW i \in 0 .. (n + 1) - 1 PROVE d[i] \in Chars
      <3>1. i \in 0 .. n
        BY <1>0
      <3>2. d[i] = IF i = p THEN c ELSE IF i > p THEN b[i - 1] ELSE b[i]
        BY <3>1, <1>4
      <3>3. \A j \in 0 .. n - 1 : b[j] \in Chars
        BY DEF LineIn, Holds
      <3>4. CASE i > p
        <4>1. i - 1 \in 0 .. n - 1 /\ i # p
          BY <3>4, <3>1, <1>0
        <4>2. b[i - 1] \in Chars
          BY <4>1, <3>3
        <4> QED BY <4>1, <4>2, <3>2, <3>4
      <3>5. CASE ~(i > p) /\ i # p
        <4>1. i \in 0 .. n - 1
          BY <3>5, <3>1, <1>0
        <4> QED BY <4>1, <3>2, <3>3, <3>5
      <3> QED BY <3>2, <3>4, <3>5
    <2>4. p + 1 \in 0 .. n + 1
      BY <1>0
    <2> QED BY <1>0, <1>2, <2>1, <2>2, <2>3, <2>4 DEF LineIn, Holds
  <1>6. PICK m, q : m = n + 1 /\ q = p + 1
    OBVIOUS
  <1>7. WithOneMore(d, b, n, p, c)
    BY <1>4 DEF WithOneMore
  <1> QED BY <1>5, <1>6, <1>7, HalvesInserted, SMTT(30)

\* The character in front of the cursor goes, and the tail moves up.
LEMMA Deletion ==
  ASSUME NEW b, NEW n, NEW p, LineIn(b, n, p), p > 0,
         NEW d, d = [Moved(b, p - 1, p, n - p) EXCEPT ![n - 1] = Nul]
  PROVE  /\ LineIn(d, n - 1, p - 1)
         /\ LeftOf(d, p - 1) = SubSeq(LeftOf(b, p), 1, Len(LeftOf(b, p)) - 1)
         /\ RightOf(d, n - 1, p - 1) = RightOf(b, n, p)
  <1> USE LineEditAssumption
  <1>0. /\ n \in Nat /\ p \in Nat /\ p <= n /\ n - 1 \in 0 .. Cap /\ Cap \in Nat
        /\ p - 1 \in Nat /\ n - 1 \in Nat /\ n <= Cap
    BY DEF LineIn
  <1>1. \A i \in Index : b[i] \in Bytes
    BY DEF LineIn, Holds
  <1>2. d \in [Index -> Bytes]
    <2>1. \A i \in Index : Moved(b, p - 1, p, n - p)[i] \in Bytes
      <3> TAKE i \in Index
      <3>1. i \in p - 1 .. p - 1 + (n - p) - 1 => i - (p - 1) + p \in Index
        BY <1>0 DEF Index
      <3> QED BY <3>1, <1>1, MovedAt
    <2>2. Moved(b, p - 1, p, n - p) \in [Index -> Bytes]
      BY <2>1 DEF Moved
    <2>3. Nul \in Bytes
      BY DEF Bytes
    <2> QED BY <2>2, <2>3
  <1>3. \A i \in Index : d[i] = IF i = n - 1 THEN Nul
                                ELSE IF i \in p - 1 .. n - 2 THEN b[i + 1] ELSE b[i]
    <2> TAKE i \in Index
    <2>1. p - 1 + (n - p) - 1 = n - 2 /\ i - (p - 1) + p = i + 1
      BY <1>0 DEF Index
    <2>2. Moved(b, p - 1, p, n - p)[i] = IF i \in p - 1 .. n - 2 THEN b[i + 1] ELSE b[i]
      BY <2>1, MovedAt
    <2>3. DOMAIN Moved(b, p - 1, p, n - p) = Index
      BY DEF Moved
    <2>4. d[i] = IF i = n - 1 THEN Nul ELSE Moved(b, p - 1, p, n - p)[i]
      BY <2>3
    <2> QED BY <2>2, <2>4
  <1>4. \A i \in 0 .. n - 2 : d[i] = IF i >= p - 1 THEN b[i + 1] ELSE b[i]
    <2> TAKE i \in 0 .. n - 2
    <2>1. i \in Index /\ i # n - 1 /\ (i >= p - 1 <=> i \in p - 1 .. n - 2)
      BY <1>0 DEF Index
    <2> QED BY <2>1, <1>3
  <1>5. LineIn(d, n - 1, p - 1)
    <2>1. d[n - 1] = Nul
      <3>1. n - 1 \in Index
        BY <1>0 DEF Index
      <3> QED BY <3>1, <1>3
    <2>2. d[-1] = Other
      <3>1. -1 \in Index /\ -1 # n - 1 /\ -1 \notin p - 1 .. n - 2 /\ b[-1] = Other
        BY <1>0 DEF Index, LineIn, Holds
      <3> QED BY <3>1, <1>3
    <2>3. ASSUME NEW i \in 0 .. (n - 1) - 1 PROVE d[i] \in Chars
      <3>1. i \in 0 .. n - 2
        BY <1>0
      <3>2. \A j \in 0 .. n - 1 : b[j] \in Chars
        BY DEF LineIn, Holds
      <3>3. i \in 0 .. n - 1 /\ i + 1 \in 0 .. n - 1
        BY <3>1, <1>0
      <3> QED BY <3>1, <3>2, <3>3, <1>4
    <2>4. p - 1 \in 0 .. n - 1
      BY <1>0
    <2> QED BY <1>0, <1>2, <2>1, <2>2, <2>3, <2>4 DEF LineIn, Holds
  <1>6. PICK m, q : m = n - 1 /\ q = p - 1
    OBVIOUS
  <1>7. WithOneLess(d, b, n, p)
    BY <1>4 DEF WithOneLess
  <1>8. LineIn(d, m, q)
    BY <1>5, <1>6
  <1>9. LeftOf(d, q) = SubSeq(LeftOf(b, p), 1, Len(LeftOf(b, p)) - 1) /\ RightOf(d, m, q) = RightOf(b, n, p)
    BY <1>6, <1>7, <1>8, HalvesDeleted, SMTT(30)
  <1> QED BY <1>5, <1>6, <1>9

\* An emptied buffer.
LEMMA Emptied ==
  ASSUME NEW d, d \in [Index -> Bytes], d[-1] = Other
  PROVE  /\ LineIn([d EXCEPT ![0] = Nul], 0, 0)
         /\ \A b : LeftOf(b, 0) = <<>> /\ RightOf(b, 0, 0) = <<>>
  <1> USE LineEditAssumption
  <1>1. 0 \in Index /\ -1 \in Index /\ Nul \in Bytes /\ 0 \in 0 .. Cap /\ 0 # -1
    BY DEF Index, Bytes
  <1>2. PICK e : e = [d EXCEPT ![0] = Nul]
    OBVIOUS
  <1>3. e \in [Index -> Bytes] /\ e[0] = Nul /\ e[-1] = Other
    BY <1>1, <1>2
  <1>4. LineIn(e, 0, 0)
    BY <1>1, <1>3 DEF LineIn, Holds
  <1>5. \A b : LeftOf(b, 0) = <<>> /\ RightOf(b, 0, 0) = <<>>
    BY DEF LeftOf, RightOf
  <1> QED BY <1>2, <1>4, <1>5

\* k_gets' line when there is room for the newline, which is not stored.
WithRoom(l, b, n, p) ==
  l = [Moved(b, p + 1, p, n - p) EXCEPT ![p] = b[p], ![n + 1] = Nul]

\* A full line, with the newline behind it.
Ended(b) == [b EXCEPT ![Cap] = Newline, ![Cap + 1] = Nul]

\* What k_gets hands over when the cursor is at the end: the text, and in a full
\* line a newline behind it.
LEMMA GetsLine ==
  ASSUME NEW b, NEW n, NEW p, LineIn(b, n, p), n = p, NEW l
  PROVE  /\ n < Cap /\ WithRoom(l, b, n, p)
           => l \in [Index -> Bytes] /\ l[-1] = Other /\ String(l) = String(b)
         /\ ~ (n < Cap) /\ l = Ended(b)
           => l \in [Index -> Bytes] /\ l[-1] = Other
              /\ String(l) = String(b) \o <<Newline>>
  <1> USE LineEditAssumption
  <1>0. /\ n \in Nat /\ n <= Cap /\ Cap \in Nat /\ n \in 0 .. Cap /\ p = n
        /\ -1 \in Index /\ Nul \in Bytes /\ Newline \in Bytes
        /\ b \in [Index -> Bytes] /\ b[-1] = Other /\ b[n] = Nul
    BY DEF LineIn, Holds, Index, Bytes
  <1>1. \A i \in 0 .. n - 1 : b[i] \in Chars /\ b[i] # Nul
    BY DEF LineIn, Holds
  <1>2. String(b) = [i \in 1 .. n |-> b[i - 1]]
    BY <1>0, HeldString DEF LineIn
  <1>3. ASSUME n < Cap, WithRoom(l, b, n, p)
        PROVE  l \in [Index -> Bytes] /\ l[-1] = Other /\ String(l) = String(b)
    <2>1. Moved(b, p + 1, p, n - p) = b
      <3>1. \A i \in Index : i \notin p + 1 .. p + 1 + (n - p) - 1
        BY <1>0 DEF Index
      <3>2. Moved(b, p + 1, p, n - p) = [i \in Index |-> b[i]]
        BY <3>1 DEF Moved
      <3> QED BY <3>2, <1>0
    <2>2. l = [b EXCEPT ![n + 1] = Nul]
      <3>1. n \in Index /\ [b EXCEPT ![p] = b[p]] = b
        BY <1>0 DEF Index
      <3> QED BY <1>3, <2>1, <3>1 DEF WithRoom
    <2>3. /\ l \in [Index -> Bytes]
          /\ \A i \in -1 .. n : l[i] = b[i]
      <3>1. \A i \in -1 .. n : i \in Index /\ i # n + 1
        BY <1>0, <1>3 DEF Index
      <3> QED BY <2>2, <3>1, <1>0
    <2>4. -1 \in -1 .. n /\ n \in -1 .. n /\ n \in 0 .. Cap + 1
      BY <1>0
    <2>5. \A j \in 0 .. n - 1 : j \in -1 .. n
      BY <1>0
    <2>6. l[n] = Nul /\ \A j \in 0 .. n - 1 : l[j] # Nul
      BY <2>3, <2>4, <2>5, <1>0, <1>1
    <2>7. String(l) = [i \in 1 .. n |-> l[i - 1]]
      BY <2>4, <2>6, StringIs
    <2>8. \A i \in 1 .. n : l[i - 1] = b[i - 1]
      BY <2>3, <1>0
    <2> QED BY <2>3, <2>4, <2>7, <2>8, <1>0, <1>2
  <1>4. ASSUME ~ (n < Cap), l = Ended(b)
        PROVE  l \in [Index -> Bytes] /\ l[-1] = Other
               /\ String(l) = String(b) \o <<Newline>>
    <2>1. n = Cap
      BY <1>0, <1>4
    <2>2. /\ l \in [Index -> Bytes] /\ l[Cap + 1] = Nul /\ l[Cap] = Newline
          /\ \A i \in -1 .. Cap - 1 : l[i] = b[i]
      <3>1. \A i \in -1 .. Cap - 1 : i \in Index /\ i # Cap + 1 /\ i # Cap
        BY <1>0 DEF Index
      <3>2. Cap \in Index /\ Cap + 1 \in Index /\ Cap # Cap + 1
        BY <1>0 DEF Index
      <3> QED BY <1>4, <3>1, <3>2, <1>0 DEF Ended
    <2>3. \A j \in 0 .. (Cap + 1) - 1 : l[j] # Nul
      <3> TAKE j \in 0 .. (Cap + 1) - 1
      <3>1. CASE j = Cap
        BY <3>1, <2>2
      <3>2. CASE j # Cap
        <4>1. j \in -1 .. Cap - 1 /\ j \in 0 .. n - 1
          BY <3>2, <2>1, <1>0
        <4> QED BY <4>1, <2>2, <1>1
      <3> QED BY <3>1, <3>2
    <2>4. String(l) = [i \in 1 .. Cap + 1 |-> l[i - 1]]
      <3>1. Cap + 1 \in 0 .. Cap + 1
        BY <1>0
      <3> QED BY <3>1, <2>2, <2>3, StringIs
    <2>5. -1 \in -1 .. Cap - 1
      BY <1>0
    <2>6. String(b) \in Seq(Bytes) /\ Len(String(b)) = Cap
      <3>1. \A i \in 1 .. n : b[i - 1] \in Bytes
        <4>1. \A i \in 1 .. n : i - 1 \in 0 .. n - 1
          BY <1>0
        <4> QED BY <4>1, <1>1 DEF Bytes
      <3> QED BY <3>1, <2>1, <1>0, <1>2
    <2>7. <<Newline>> \in Seq(Bytes) /\ Len(<<Newline>>) = 1 /\ <<Newline>>[1] = Newline
      BY <1>0
    <2>8. /\ String(b) \o <<Newline>> \in Seq(Bytes)
          /\ Len(String(b) \o <<Newline>>) = Cap + 1
          /\ \A i \in 1 .. Cap + 1 : (String(b) \o <<Newline>>)[i] =
               IF i <= Cap THEN String(b)[i] ELSE <<Newline>>[i - Cap]
      <3>1. /\ String(b) \o <<Newline>> \in Seq(Bytes)
            /\ Len(String(b) \o <<Newline>>) = Len(String(b)) + Len(<<Newline>>)
            /\ \A i \in 1 .. Len(String(b)) + Len(<<Newline>>) : (String(b) \o <<Newline>>)[i] =
                 IF i <= Len(String(b)) THEN String(b)[i] ELSE <<Newline>>[i - Len(String(b))]
        BY <2>6, <2>7, ConcatProperties
      <3> QED BY <3>1, <2>6, <2>7
    <2>9. ASSUME NEW i \in 1 .. Cap + 1
          PROVE  (String(b) \o <<Newline>>)[i] = l[i - 1]
      <3>1. CASE i <= Cap
        <4>1. i - 1 \in -1 .. Cap - 1 /\ i \in 1 .. n
          BY <3>1, <2>1, <1>0
        <4>2. String(b)[i] = b[i - 1]
          BY <4>1, <1>2
        <4> QED BY <4>1, <4>2, <3>1, <2>2, <2>8
      <3>2. CASE ~ (i <= Cap)
        <4>1. i - Cap = 1 /\ i - 1 = Cap
          BY <3>2, <1>0
        <4>2. (String(b) \o <<Newline>>)[i] = <<Newline>>[1]
          BY <4>1, <3>2, <2>8
        <4> QED BY <4>1, <4>2, <2>2, <2>7
      <3> QED BY <3>1, <3>2
    <2>10. /\ String(l) \in Seq(Bytes) /\ Len(String(l)) = Cap + 1
           /\ \A i \in 1 .. Cap + 1 : String(l)[i] = l[i - 1]
      <3>1. \A i \in 1 .. Cap + 1 : l[i - 1] \in Bytes
        <4>1. \A i \in 1 .. Cap + 1 : i - 1 \in Index
          BY <1>0 DEF Index
        <4> QED BY <4>1, <2>2
      <3>2. Cap + 1 \in Nat
        BY <1>0
      <3> QED BY <3>1, <3>2, <2>4
    <2>11. String(l) = String(b) \o <<Newline>>
      BY <2>8, <2>9, <2>10, SeqEqual
    <2> QED BY <2>2, <2>5, <2>11, <1>0
  <1> QED BY <1>3, <1>4

-----------------------------------------------------------------------------
(* The editors keep the buffer in order and do what Line promises.         *)

LEMMA BufStart == Init => BufInv /\ Edited!Init
  <1> SUFFICES ASSUME Init PROVE BufInv /\ Edited!Init
    OBVIOUS
  <1> USE LineEditAssumption
  <1>1. /\ -1 \in Index /\ 0 \in Index /\ 0 # -1
        /\ \A i \in Index : (IF i = -1 THEN Other ELSE Nul) \in Bytes
    BY DEF Index, Bytes
  <1>2. cmdbuf \in [Index -> Bytes] /\ cmdbuf[-1] = Other /\ cmdbuf[0] = Nul
    BY <1>1 DEF Init
  <1>3. LineIn(cmdbuf, cmdsize, ptrpos)
    BY <1>2 DEF Init, LineIn, Holds
  <1>4. LeftOf(cmdbuf, ptrpos) = <<>> /\ RightOf(cmdbuf, cmdsize, ptrpos) = <<>>
    BY DEF Init, LeftOf, RightOf
  <1> QED BY <1>3, <1>4 DEF Init, BufInv, Edited!Init, LeftOf, RightOf

LEMMA LeftStep ==
  BufInv /\ Left => BufInv' /\ Edited!Left /\ entered' = entered
  <1> SUFFICES ASSUME BufInv, Left PROVE BufInv' /\ Edited!Left /\ entered' = entered
    OBVIOUS
  <1>1. /\ LineIn(cmdbuf, cmdsize, ptrpos - 1)
        /\ LeftOf(cmdbuf, ptrpos) # <<>>
        /\ LeftOf(cmdbuf, ptrpos - 1) =
             SubSeq(LeftOf(cmdbuf, ptrpos), 1, Len(LeftOf(cmdbuf, ptrpos)) - 1)
        /\ RightOf(cmdbuf, cmdsize, ptrpos - 1) =
             <<LeftOf(cmdbuf, ptrpos)[Len(LeftOf(cmdbuf, ptrpos))]>>
               \o RightOf(cmdbuf, cmdsize, ptrpos)
    BY LeftMoves DEF BufInv, Left
  <1>2. /\ cmdbuf' = cmdbuf /\ cmdsize' = cmdsize /\ ptrpos' = ptrpos - 1
        /\ editor' = editor /\ wild' = wild /\ entered' = entered
    BY DEF Left
  <1>3. BufInv'
    BY <1>1, <1>2 DEF BufInv
  <1>4. Edited!Left
    BY <1>1, <1>2 DEF Edited!Left, LeftOf, RightOf
  <1> QED BY <1>2, <1>3, <1>4

LEMMA RightStep ==
  BufInv /\ Right => BufInv' /\ Edited!Right /\ entered' = entered
  <1> SUFFICES ASSUME BufInv, Right PROVE BufInv' /\ Edited!Right /\ entered' = entered
    OBVIOUS
  <1>1. /\ LineIn(cmdbuf, cmdsize, ptrpos + 1)
        /\ RightOf(cmdbuf, cmdsize, ptrpos) # <<>>
        /\ LeftOf(cmdbuf, ptrpos + 1) =
             Append(LeftOf(cmdbuf, ptrpos), Head(RightOf(cmdbuf, cmdsize, ptrpos)))
        /\ RightOf(cmdbuf, cmdsize, ptrpos + 1) = Tail(RightOf(cmdbuf, cmdsize, ptrpos))
    BY RightMoves DEF BufInv, Right
  <1>2. /\ cmdbuf' = cmdbuf /\ cmdsize' = cmdsize /\ ptrpos' = ptrpos + 1
        /\ editor' = editor /\ wild' = wild /\ entered' = entered
    BY DEF Right
  <1>3. BufInv'
    BY <1>1, <1>2 DEF BufInv
  <1>4. Edited!Right
    BY <1>1, <1>2 DEF Edited!Right, LeftOf, RightOf
  <1> QED BY <1>2, <1>3, <1>4

LEMMA InRange == BufInv => ~Overruns /\ cmdsize \in Nat /\ ptrpos \in Nat /\ ptrpos <= cmdsize
  <1> USE LineEditAssumption
  <1> QED BY DEF BufInv, LineIn, Overruns

LEMMA BackspaceStep ==
  ASSUME Careful = TRUE
  PROVE  BufInv /\ Backspace => /\ BufInv' /\ Edited!Delete /\ entered' = entered
                                /\ cmdsize' = cmdsize - 1 /\ editor' = editor
  <1> SUFFICES ASSUME BufInv, Backspace
               PROVE  /\ BufInv' /\ Edited!Delete /\ entered' = entered
                      /\ cmdsize' = cmdsize - 1 /\ editor' = editor
    OBVIOUS
  <1> USE LineEditAssumption
  <1>0. ~Overruns /\ cmdsize \in Nat /\ ptrpos \in Nat /\ ptrpos <= cmdsize /\ ptrpos > 0
    BY InRange DEF Backspace
  <1>1. /\ cmdbuf' = [Moved(cmdbuf, ptrpos - 1, ptrpos, cmdsize - ptrpos)
                        EXCEPT ![cmdsize - 1] = Nul]
        /\ ptrpos' = (ptrpos - 1) % Wrap /\ cmdsize' = cmdsize - 1
        /\ editor' = editor /\ wild' = wild /\ entered' = entered
    BY <1>0 DEF Backspace
  <1>2. ptrpos' = ptrpos - 1
    <2>1. ptrpos <= Cap
      BY DEF BufInv, LineIn
    <2>2. ptrpos - 1 \in 0 .. Wrap - 1
      BY <2>1, <1>0
    <2>3. \A m \in 0 .. Wrap - 1 : m % Wrap = m
      OBVIOUS
    <2> QED BY <1>1, <2>2, <2>3
  <1>3. LineIn(cmdbuf, cmdsize, ptrpos)
    BY DEF BufInv
  <1>4. /\ LineIn(cmdbuf', cmdsize - 1, ptrpos - 1)
        /\ LeftOf(cmdbuf', ptrpos - 1) =
             SubSeq(LeftOf(cmdbuf, ptrpos), 1, Len(LeftOf(cmdbuf, ptrpos)) - 1)
        /\ RightOf(cmdbuf', cmdsize - 1, ptrpos - 1) = RightOf(cmdbuf, cmdsize, ptrpos)
    <2>1. PICK d : d = cmdbuf'
      OBVIOUS
    <2>2. d = [Moved(cmdbuf, ptrpos - 1, ptrpos, cmdsize - ptrpos) EXCEPT ![cmdsize - 1] = Nul]
      BY <1>1, <2>1
    <2>3. LineIn(cmdbuf, cmdsize, ptrpos) /\ ptrpos > 0
      BY <1>0, <1>1, <1>3
    <2> QED BY <2>1, <2>2, <2>3, Deletion
  <1>5. LeftOf(cmdbuf, ptrpos) # <<>>
    BY <1>0, <1>3, LeftMoves
  <1>6. BufInv'
    BY <1>1, <1>2, <1>4 DEF BufInv
  <1>7. Edited!Delete
    <2>1. /\ LeftOf(cmdbuf', ptrpos') =
               SubSeq(LeftOf(cmdbuf, ptrpos), 1, Len(LeftOf(cmdbuf, ptrpos)) - 1)
          /\ RightOf(cmdbuf', cmdsize', ptrpos') = RightOf(cmdbuf, cmdsize, ptrpos)
      BY <1>1, <1>2, <1>4
    <2> QED BY <2>1, <1>1, <1>5 DEF Edited!Delete, LeftOf, RightOf
  <1> QED BY <1>1, <1>6, <1>7

LEMMA TypeStep ==
  ASSUME NEW c \in Chars
  PROVE  BufInv /\ Type(c) => /\ BufInv' /\ Edited!Insert(c) /\ entered' = entered
                              /\ cmdsize' = cmdsize + 1 /\ editor' = editor
  <1> SUFFICES ASSUME BufInv, Type(c)
               PROVE  /\ BufInv' /\ Edited!Insert(c) /\ entered' = entered
                      /\ cmdsize' = cmdsize + 1 /\ editor' = editor
    OBVIOUS
  <1> USE LineEditAssumption
  <1>0. ~Overruns /\ cmdsize < Cap
    BY InRange DEF Type, HasRoom
  <1>1. /\ cmdbuf' = Inserted(c)
        /\ ptrpos' = ptrpos + 1 /\ cmdsize' = cmdsize + 1
        /\ editor' = editor /\ wild' = wild /\ entered' = entered
    BY <1>0 DEF Type
  <1>2. LineIn(cmdbuf, cmdsize, ptrpos)
    BY DEF BufInv
  <1>3. /\ LineIn(cmdbuf', cmdsize + 1, ptrpos + 1)
        /\ LeftOf(cmdbuf', ptrpos + 1) = Append(LeftOf(cmdbuf, ptrpos), c)
        /\ RightOf(cmdbuf', cmdsize + 1, ptrpos + 1) = RightOf(cmdbuf, cmdsize, ptrpos)
    BY <1>0, <1>1, <1>2, Insertion DEF Inserted
  <1>4. BufInv'
    BY <1>1, <1>3 DEF BufInv
  <1>5. Edited!Insert(c)
    <2>1. /\ LeftOf(cmdbuf', ptrpos') = Append(LeftOf(cmdbuf, ptrpos), c)
          /\ RightOf(cmdbuf', cmdsize', ptrpos') = RightOf(cmdbuf, cmdsize, ptrpos)
      BY <1>1, <1>3
    <2> QED BY <2>1, <1>1 DEF Edited!Insert, LeftOf, RightOf
  <1> QED BY <1>1, <1>4, <1>5

\* Handing over leaves an empty line.
LEMMA HandOverStep ==
  ASSUME NEW text, NEW rest, rest \in [Index -> Bytes], rest[-1] = Other, BufInv,
         HandOver(text, [rest EXCEPT ![0] = Nul]),
         text \in {String(cmdbuf), String(cmdbuf) \o <<Newline>>}
  PROVE  BufInv' /\ Edited!Enter /\ cmdsize' = 0 /\ ptrpos' = 0 /\ editor' = editor
  <1>1. /\ cmdbuf' = [rest EXCEPT ![0] = Nul] /\ cmdsize' = 0 /\ ptrpos' = 0
        /\ entered' = text /\ editor' = editor /\ wild' = wild
    BY DEF HandOver
  <1>2. /\ LineIn(cmdbuf', 0, 0)
        /\ LeftOf(cmdbuf', 0) = <<>> /\ RightOf(cmdbuf', 0, 0) = <<>>
    BY <1>1, Emptied
  <1>3. LeftOf(cmdbuf, ptrpos) \o RightOf(cmdbuf, cmdsize, ptrpos) = String(cmdbuf)
    BY Halves DEF BufInv
  <1>4. BufInv'
    BY <1>1, <1>2 DEF BufInv
  <1>5. Edited!Enter
    <2>1. LeftOf(cmdbuf', ptrpos') = <<>> /\ RightOf(cmdbuf', cmdsize', ptrpos') = <<>>
      BY <1>1, <1>2
    <2>2. entered' \in {LeftOf(cmdbuf, ptrpos) \o RightOf(cmdbuf, cmdsize, ptrpos),
                        LeftOf(cmdbuf, ptrpos) \o RightOf(cmdbuf, cmdsize, ptrpos) \o <<Newline>>}
      BY <1>1, <1>3
    <2> QED BY <2>1, <2>2 DEF Edited!Enter, LeftOf, RightOf
  <1> QED BY <1>1, <1>4, <1>5

LEMMA ShellEnterStep ==
  BufInv /\ ShellEnter =>
    BufInv' /\ Edited!Enter /\ cmdsize' = 0 /\ ptrpos' = 0 /\ editor' = editor
  <1> SUFFICES ASSUME BufInv, ShellEnter
               PROVE  BufInv' /\ Edited!Enter /\ cmdsize' = 0 /\ ptrpos' = 0 /\ editor' = editor
    OBVIOUS
  <1>1. cmdbuf \in [Index -> Bytes] /\ cmdbuf[-1] = Other
    BY DEF BufInv, LineIn, Holds
  <1>2. HandOver(String(cmdbuf), [cmdbuf EXCEPT ![0] = Nul])
    BY DEF ShellEnter
  <1> QED BY <1>1, <1>2, HandOverStep

LEMMA GetsEnterStep ==
  ASSUME Careful = TRUE
  PROVE  BufInv /\ GetsEnter =>
           BufInv' /\ Edited!Enter /\ cmdsize' = 0 /\ ptrpos' = 0 /\ editor' = editor
  <1> SUFFICES ASSUME BufInv, GetsEnter
               PROVE  BufInv' /\ Edited!Enter /\ cmdsize' = 0 /\ ptrpos' = 0 /\ editor' = editor
    OBVIOUS
  <1>0. ~Overruns /\ ptrpos = cmdsize /\ LineIn(cmdbuf, cmdsize, ptrpos)
    BY InRange DEF GetsEnter, BufInv
  <1>1. CASE HasRoom
    <2>1. PICK l : l = Inserted(cmdbuf[ptrpos])
      OBVIOUS
    <2>2. l \in [Index -> Bytes] /\ l[-1] = Other /\ String(l) = String(cmdbuf)
      <3>1. WithRoom(l, cmdbuf, cmdsize, ptrpos) /\ cmdsize < Cap
        BY <1>1, <2>1 DEF Inserted, HasRoom, WithRoom
      <3> QED BY <1>0, <3>1, GetsLine
    <2>3. HandOver(String(l), [l EXCEPT ![0] = Nul])
      BY <1>0, <1>1, <2>1 DEF GetsEnter
    <2> QED BY <2>2, <2>3, HandOverStep
  <1>2. CASE ~HasRoom
    <2>1. PICK l : l = Ended(cmdbuf)
      OBVIOUS
    <2>2. /\ l \in [Index -> Bytes] /\ l[-1] = Other
          /\ String(l) = String(cmdbuf) \o <<Newline>>
      <3>1. ~ (cmdsize < Cap) /\ LineIn(cmdbuf, cmdsize, ptrpos) /\ cmdsize = ptrpos
        BY <1>0, <1>2 DEF HasRoom
      <3> QED BY <2>1, <3>1, GetsLine
    <2>3. HandOver(String(l), [l EXCEPT ![0] = Nul])
      BY <1>0, <1>2, <2>1 DEF GetsEnter, Ended
    <2> QED BY <2>2, <2>3, HandOverStep
  <1> QED BY <1>1, <1>2

LEMMA EditStep ==
  ASSUME Careful = TRUE
  PROVE  BufInv /\ [Next]_vars => BufInv' /\ [Edited!Next]_(Edited!vars)
  <1> SUFFICES ASSUME BufInv, [Next]_vars PROVE BufInv' /\ [Edited!Next]_(Edited!vars)
    OBVIOUS
  <1>1. CASE Left
    BY <1>1, LeftStep DEF Edited!Next
  <1>2. CASE Right
    BY <1>2, RightStep DEF Edited!Next
  <1>3. CASE Backspace
    BY <1>3, BackspaceStep DEF Edited!Next
  <1>4. CASE ShellEnter
    BY <1>4, ShellEnterStep DEF Edited!Next
  <1>5. CASE GetsEnter
    BY <1>5, GetsEnterStep DEF Edited!Next
  <1>6. ASSUME NEW c \in Chars, Type(c) PROVE BufInv' /\ [Edited!Next]_(Edited!vars)
    BY <1>6, TypeStep DEF Edited!Next
  <1>7. CASE UNCHANGED vars
    <2>1. UNCHANGED <<editor, wild, cmdbuf, cmdsize, ptrpos, entered>>
      BY <1>7 DEF vars
    <2>2. BufInv'
      BY <2>1 DEF BufInv
    <2>3. UNCHANGED Edited!vars
      BY <2>1 DEF Edited!vars
    <2> QED BY <2>2, <2>3
  <1> QED BY <1>1, <1>2, <1>3, <1>4, <1>5, <1>6, <1>7 DEF Next

\* Every step of the console that changes a line is one of the editors'.
LEMMA ConsoleEdits == [ConsoleNext]_<<vars, screen>> => [Next]_vars
  <1> SUFFICES ASSUME ConsoleNext PROVE Next
    BY DEF vars
  <1> QED BY DEF ConsoleNext, Key, Execute, Cls, Return, Next

\* The line editors keep the promise of Line.
THEOREM EditsLine ==
  ASSUME Careful = TRUE
  PROVE  Spec => LineSpec
  <1>1. Init => BufInv /\ Edited!Init
    BY BufStart
  <1>2. BufInv /\ [Next]_vars => BufInv' /\ [Edited!Next]_(Edited!vars)
    BY EditStep
  <1> QED BY <1>1, <1>2, PTL DEF Spec, LineSpec, Edited!Spec

\* They also do with the screen between them and the user.
THEOREM KeepsLine ==
  ASSUME Careful = TRUE
  PROVE  ConsoleSpec => LineSpec
  <1>1. ConsoleInit => Init
    BY DEF ConsoleInit
  <1>2. [ConsoleNext]_<<vars, screen>> => [Next]_vars
    BY ConsoleEdits
  <1>3. Spec => LineSpec
    BY EditsLine
  <1> QED BY <1>1, <1>2, <1>3, PTL DEF Spec, ConsoleSpec

-----------------------------------------------------------------------------
(* Where the cells of a row are.                                           *)

\* Division by the length of a row.
LEMMA Division ==
  ASSUME NEW n \in Nat \ {0}, NEW a \in Nat, NEW r \in 0 .. n - 1
  PROVE  (a * n + r) % n = r /\ (a * n + r) \div n = a
  OBVIOUS

LEMMA Quotient ==
  ASSUME NEW n \in Nat \ {0}, NEW p \in Nat
  PROVE  /\ p = ((p \div n) * n) + (p % n)
         /\ p % n \in 0 .. n - 1 /\ p \div n \in Nat
  OBVIOUS

LEMMA RowFits ==
  ASSUME NEW n \in Nat, NEW m \in Nat, NEW y \in 0 .. m - 1
  PROVE  y * n \in Nat /\ y * n + n <= n * m
  OBVIOUS

\* The position at which a row begins.
RowStart(y) == y * XLen

LEMMA Sizes ==
  /\ XLen \in Nat \ {0} /\ YLen \in Nat \ {0}
  /\ XMax \in Nat /\ YMax \in Nat /\ XMax = XLen - 1 /\ YMax = YLen - 1
  /\ PosLen \in Nat \ {0} /\ PosMax \in Nat /\ PosMax = PosLen - 1
  /\ XLen = Cap + 3 /\ Cap \in Nat \ {0}
  <1>1. XLen \in Nat \ {0} /\ YLen \in Nat \ {0}
    BY ScreenAssumption
  <1>2. XLen = Cap + 3 /\ Cap \in Nat \ {0}
    BY <1>1, ConsoleAssumption, LineEditAssumption
  <1>3. \A a, b \in Nat \ {0} : a * b \in Nat \ {0}
    OBVIOUS
  <1>4. PosLen \in Nat \ {0}
    BY <1>1, <1>3 DEF PosLen
  <1> QED BY <1>1, <1>2, <1>4 DEF XMax, YMax, PosMax

LEMMA Placed ==
  ASSUME NEW x \in 0 .. XMax, NEW y \in 0 .. YMax
  PROVE  /\ RowStart(y) \in Nat /\ RowStart(y) + XLen <= PosLen
         /\ vga_xy(x, y) = RowStart(y) + x
         /\ vga_xy(x, y) \in Pos
         /\ vga_xy(x, y) % XLen = x /\ vga_xy(x, y) \div XLen = y
  <1>1. RowStart(y) \in Nat /\ RowStart(y) + XLen <= PosLen
    <2>1. y \in 0 .. YLen - 1
      BY Sizes
    <2> QED BY <2>1, Sizes, RowFits DEF RowStart, PosLen
  <1>2. vga_xy(x, y) = RowStart(y) + x
    BY DEF vga_xy, RowStart
  <1>3. vga_xy(x, y) \in Pos
    BY <1>1, <1>2, Sizes DEF Pos
  <1>4. vga_xy(x, y) % XLen = x /\ vga_xy(x, y) \div XLen = y
    <2>1. x \in 0 .. XLen - 1 /\ y \in Nat /\ XLen \in Nat \ {0}
      BY Sizes
    <2> QED BY <2>1, Division DEF vga_xy
  <1> QED BY <1>1, <1>2, <1>3, <1>4

LEMMA RowAbove ==
  ASSUME NEW y \in Nat, NEW z \in Nat, y < z
  PROVE  RowStart(y) + XLen <= RowStart(z)
  <1>1. \A n \in Nat \ {0} : y * n + n <= z * n
    <2> TAKE n \in Nat \ {0}
    <2>1. PICK d \in Nat : z = y + 1 + d
      <3>1. z - y - 1 \in Nat /\ z = y + 1 + (z - y - 1)
        OBVIOUS
      <3> QED BY <3>1
    <2>2. z * n = y * n + n + d * n
      BY <2>1
    <2>3. d * n \in Nat /\ y * n \in Nat
      OBVIOUS
    <2> QED BY <2>2, <2>3
  <1> QED BY <1>1, Sizes DEF RowStart

LEMMA NextRow ==
  ASSUME NEW y \in Nat
  PROVE  RowStart(y + 1) = RowStart(y) + XLen /\ RowStart(y) \in Nat
  <1>1. \A n \in Nat : (y + 1) * n = y * n + n /\ y * n \in Nat
    OBVIOUS
  <1> QED BY <1>1, Sizes DEF RowStart

LEMMA LastRow == RowStart(YMax) + XLen = PosLen /\ RowStart(YMax) \in Nat
  <1>1. \A n, m \in Nat \ {0} : (m - 1) * n + n = n * m /\ (m - 1) * n \in Nat
    OBVIOUS
  <1> QED BY <1>1, Sizes DEF RowStart, PosLen

LEMMA Located ==
  ASSUME NEW p \in Pos
  PROVE  /\ p % XLen \in 0 .. XMax /\ p \div XLen \in 0 .. YMax
         /\ p = vga_xy(p % XLen, p \div XLen)
         /\ p = RowStart(p \div XLen) + (p % XLen)
         /\ p \in Nat /\ p <= PosMax
  <1>1. p \in Nat /\ p <= PosMax
    BY Sizes DEF Pos
  <1>2. /\ p % XLen \in 0 .. XLen - 1 /\ p \div XLen \in Nat
        /\ p = ((p \div XLen) * XLen) + (p % XLen)
    BY <1>1, Sizes, Quotient
  <1>3. p % XLen \in 0 .. XMax
    BY <1>2, Sizes
  <1>4. p = vga_xy(p % XLen, p \div XLen) /\ p = RowStart(p \div XLen) + (p % XLen)
    BY <1>2 DEF vga_xy, RowStart
  <1>5. p \div XLen <= YMax
    <2> SUFFICES ASSUME YMax < p \div XLen PROVE FALSE
      BY <1>2, Sizes
    <2> DEFINE b == p \div XLen
    <2>1. b \in Nat /\ YMax \in Nat /\ YMax < b
      BY <1>2, Sizes
    <2> HIDE DEF b
    <2>2. RowStart(YMax) + XLen <= RowStart(b)
      BY <2>1, RowAbove
    <2>3. RowStart(b) \in Nat
      BY <2>1, NextRow
    <2>4. p = RowStart(b) + (p % XLen)
      BY <1>4 DEF b
    <2> QED BY <2>2, <2>3, <2>4, LastRow, Sizes, <1>1, <1>3
  <1> QED BY <1>1, <1>2, <1>3, <1>4, <1>5

LEMMA InRow ==
  ASSUME NEW p \in Pos, NEW y \in 0 .. YMax
  PROVE  p \div XLen = y <=> p \in RowStart(y) .. RowStart(y) + XMax
  <1>1. /\ p % XLen \in 0 .. XMax /\ p \div XLen \in 0 .. YMax
        /\ p = RowStart(p \div XLen) + (p % XLen)
    BY Located
  <1>2. p \div XLen = y => p \in RowStart(y) .. RowStart(y) + XMax
    <2> HAVE p \div XLen = y
    <2>1. p = RowStart(y) + (p % XLen) /\ RowStart(y) \in Nat
      BY <1>1, NextRow, Sizes
    <2> QED BY <1>1, <2>1, Sizes
  <1>3. p \in RowStart(y) .. RowStart(y) + XMax => p \div XLen = y
    <2> HAVE p \in RowStart(y) .. RowStart(y) + XMax
    <2>1. PICK x \in 0 .. XMax : p = RowStart(y) + x
      <3>1. RowStart(y) \in Nat /\ p \in Nat
        BY NextRow, Sizes, Located
      <3>2. p - RowStart(y) \in 0 .. XMax /\ p = RowStart(y) + (p - RowStart(y))
        BY <3>1, Sizes
      <3> QED BY <3>2
    <2>2. p = vga_xy(x, y)
      BY <2>1, Placed
    <2> QED BY <2>2, Placed
  <1> QED BY <1>2, <1>3

-----------------------------------------------------------------------------
(* What the operators on the screen do.                                    *)

Glyphs == Chars \cup {Mark, Blank}
Canvas == [Pos -> Glyphs]
Controls == {LineFeed, Tab, Back, ClearScreen, ClearLine}

\* A screen of cells c, with the cursor at column x of row y.
Scr(c, x, y) == [cells |-> c, x |-> x, y |-> y]

\* What is typed and printed is text and line feeds: the layout can also give a
\* tab, which the editors take for a character.
TextOnly ==
  /\ (Chars \cup {Mark}) \cap Controls = {}
  /\ Outputs \subseteq Seq(Chars \cup {Blank, LineFeed})

\* Cells c with the first n characters of s written over them from position q.
Covered(c, q, s, n) ==
  [p \in Pos |-> IF p \in q .. q + n - 1 THEN s[p - q + 1] ELSE c[p]]

Overlay(c, q, s) == Covered(c, q, s, Len(s))

LEMMA AtIs ==
  ASSUME NEW c, NEW a, NEW b, NEW x \in 0 .. XMax, NEW y \in 0 .. YMax
  PROVE  At(Scr(c, a, b), vga_xy(x, y)) = Scr(c, x, y)
  <1>1. vga_xy(x, y) \in Pos /\ vga_xy(x, y) % XLen = x /\ vga_xy(x, y) \div XLen = y
    BY Placed
  <1>2. ~(vga_xy(x, y) > PosMax)
    <2>1. \A p \in Pos : ~(p > PosMax)
      BY Sizes DEF Pos
    <2> QED BY <1>1, <2>1
  <1>3. At(Scr(c, a, b), vga_xy(x, y)) = [Scr(c, a, b) EXCEPT !.x = x, !.y = y]
    BY <1>1, <1>2 DEF At
  <1> QED BY <1>3 DEF Scr

LEMMA MoveIs ==
  ASSUME NEW c, NEW a, NEW b, NEW x \in 0 .. XMax, NEW y \in 0 .. YMax
  PROVE  Move(Scr(c, a, b), x, y) = Scr(c, x, y)
  <1>1. Clamp(x, XMax) = x /\ Clamp(y, YMax) = y
    BY Sizes DEF Clamp
  <1> QED BY <1>1, AtIs DEF Move

LEMMA ClearLineIs ==
  ASSUME NEW c, NEW x, NEW y, NEW z \in 0 .. YMax
  PROVE  clear_line(Scr(c, x, y), z) =
           Scr([p \in Pos |-> IF p \div XLen = z THEN Blank ELSE c[p]], 0, z)
  <1>1. \A p \in Pos : p \div XLen \in z .. z + 1 - 1 <=> p \div XLen = z
    <2> TAKE p \in Pos
    <2>1. p \div XLen \in Nat
      BY Located, Sizes
    <2> QED BY <2>1, Sizes
  <1> DEFINE e == [p \in Pos |-> IF p \div XLen = z THEN Blank ELSE c[p]]
  <1>2. fill_line_multi(Scr(c, x, y), z, z + 1, Blank) = Scr(e, x, y)
    <2>1. [p \in Pos |-> IF p \div XLen \in z .. z + 1 - 1 THEN Blank ELSE c[p]] = e
      BY <1>1
    <2> HIDE DEF e
    <2> QED BY <2>1 DEF fill_line_multi, Scr
  <1>3. z * XLen = vga_xy(0, z)
    BY Sizes, Placed DEF vga_xy, RowStart
  <1> HIDE DEF e
  <1>4. At(Scr(e, x, y), vga_xy(0, z)) = Scr(e, 0, z)
    BY AtIs, Sizes
  <1> QED BY <1>2, <1>3, <1>4 DEF clear_line, e

Marked(c, q, g) == [c EXCEPT ![q] = g]

LEMMA WriteGlyph ==
  ASSUME NEW c \in Canvas, NEW x \in 0 .. XMax - 1, NEW y \in 0 .. YMax, NEW g,
         g \notin Controls
  PROVE  write_c(Scr(c, x, y), g) = Scr(Marked(c, vga_xy(x, y), g), x + 1, y)
  <1>1. x \in 0 .. XMax /\ x + 1 \in 0 .. XMax
    BY Sizes
  <1>2. vga_xy(x, y) + 1 = vga_xy(x + 1, y)
    BY <1>1, Placed
  <1>3. write_c(Scr(c, x, y), g)
        = At(Scr(Marked(c, vga_xy(x, y), g), x, y), vga_xy(x, y) + 1)
    BY DEF write_c, Scr, Controls, Marked
  <1> QED BY <1>1, <1>2, <1>3, AtIs

-----------------------------------------------------------------------------
(* write_s, one character after another.                                   *)

LEMMA NatLeast ==
  ASSUME NEW S \in SUBSET Nat, S # {}
  PROVE  \E m \in S : \A k \in S : m <= k
  <1>1. IsWellFoundedOn(OpToRel(<, Nat), Nat)
    BY NatLessThanWellFounded
  <1>2. PICK m \in S : \A k \in S : ~(<<k, m>> \in OpToRel(<, Nat))
    BY <1>1, WFMin
  <1>3. \A k \in S : ~(k < m)
    BY <1>2 DEF OpToRel
  <1> QED BY <1>3

\* What holds at 0 and is passed on from each number to the next holds at all.
LEMMA Climb ==
  ASSUME NEW n \in Nat, NEW S, 0 \in S,
         \A i \in 0 .. n - 1 : i \in S => i + 1 \in S
  PROVE  \A i \in 0 .. n : i \in S
  <1> SUFFICES ASSUME {i \in 0 .. n : i \notin S} # {} PROVE FALSE
    OBVIOUS
  <1> DEFINE T == {i \in 0 .. n : i \notin S}
  <1>1. T \in SUBSET Nat /\ T # {}
    OBVIOUS
  <1> HIDE DEF T
  <1>2. PICK m \in T : \A k \in T : m <= k
    BY <1>1, NatLeast
  <1>3. m \in 0 .. n /\ m \notin S
    BY DEF T
  <1>4. m - 1 \in 0 .. n - 1 /\ m - 1 \notin T /\ m - 1 + 1 = m
    BY <1>2, <1>3
  <1>5. m - 1 \in S
    BY <1>4 DEF T
  <1> QED BY <1>3, <1>4, <1>5

\* Writing s from base: h gives what the characters of each set of indexes leave.
Writes(h, k, base, s) ==
  h = [t \in SUBSET (1 .. k) |->
         IF t = {} THEN base ELSE Put(h[t \ {Max(t)}], s[Max(t)])]

LEMMA WritesExist ==
  ASSUME NEW n \in Nat, NEW base, NEW s
  PROVE  \E h : Writes(h, n, base, s)
  <1> DEFINE S == {k \in 0 .. n : \E h : Writes(h, k, base, s)}
  <1>1. 0 \in S
    <2> DEFINE h == [t \in SUBSET (1 .. 0) |-> base]
    <2>1. \A t \in SUBSET (1 .. 0) : t = {}
      OBVIOUS
    <2>2. Writes(h, 0, base, s)
      BY <2>1 DEF Writes
    <2> HIDE DEF h
    <2> QED BY <2>2
  <1>2. ASSUME NEW k \in 0 .. n - 1, k \in S PROVE k + 1 \in S
    <2>1. PICK g : Writes(g, k, base, s)
      BY <1>2
    <2> DEFINE h == [t \in SUBSET (1 .. k + 1) |->
                       IF k + 1 \in t THEN Put(g[t \ {k + 1}], s[k + 1]) ELSE g[t]]
    <2>2. ASSUME NEW t \in SUBSET (1 .. k + 1)
          PROVE  h[t] = IF t = {} THEN base ELSE Put(h[t \ {Max(t)}], s[Max(t)])
      <3>1. CASE k + 1 \in t
        <4>1. \A j \in t : k + 1 >= j
          OBVIOUS
        <4>2. \A j \in t : (\A i \in t : j >= i) => j = k + 1
          BY <3>1
        <4>3. Max(t) = k + 1
          BY <3>1, <4>1, <4>2 DEF Max
        <4>4. t \ {k + 1} \in SUBSET (1 .. k + 1) /\ k + 1 \notin t \ {k + 1}
          OBVIOUS
        <4>5. h[t \ {k + 1}] = g[t \ {k + 1}]
          BY <4>4
        <4>6. h[t] = Put(g[t \ {k + 1}], s[k + 1])
          BY <3>1
        <4> HIDE DEF h
        <4> QED BY <3>1, <4>3, <4>5, <4>6
      <3>2. CASE k + 1 \notin t
        <4>1. t \in SUBSET (1 .. k)
          BY <3>2
        <4>2. h[t] = g[t]
          BY <3>2
        <4>3. g[t] = IF t = {} THEN base ELSE Put(g[t \ {Max(t)}], s[Max(t)])
          BY <2>1, <4>1 DEF Writes
        <4>4. t \ {Max(t)} \in SUBSET (1 .. k + 1) /\ k + 1 \notin t \ {Max(t)}
          BY <3>2
        <4>5. h[t \ {Max(t)}] = g[t \ {Max(t)}]
          BY <4>4
        <4> HIDE DEF h
        <4> QED BY <4>2, <4>3, <4>5
      <3> QED BY <3>1, <3>2
    <2>3. Writes(h, k + 1, base, s)
      <3>1. h = [t \in SUBSET (1 .. k + 1) |-> h[t]]
        OBVIOUS
      <3> HIDE DEF h
      <3> QED BY <2>2, <3>1 DEF Writes
    <2> HIDE DEF h
    <2> QED BY <2>3
  <1> HIDE DEF S
  <1>3. \A k \in 0 .. n : k \in S
    BY <1>1, <1>2, Climb
  <1>4. n \in S
    BY <1>3
  <1> QED BY <1>4 DEF S

\* The states that the characters of s lead through.
Run(r, scr1, s) ==
  /\ r[0] = [scr |-> scr1, pos |-> vga_xy(scr1.x, scr1.y), hangs |-> FALSE]
  /\ \A i \in 1 .. Len(s) : r[i] = Put(r[i - 1], s[i])
  /\ Written(scr1, s) = r[Len(s)]

LEMMA WriteRuns ==
  ASSUME NEW scr1, NEW S, NEW s \in Seq(S)
  PROVE  \E r : Run(r, scr1, s)
  <1> DEFINE base == [scr |-> scr1, pos |-> vga_xy(scr1.x, scr1.y), hangs |-> FALSE]
             n == Len(s)
             h == CHOOSE h : h = [t \in SUBSET (DOMAIN s) |->
                    IF t = {} THEN base ELSE Put(h[t \ {Max(t)}], s[Max(t)])]
  <1>1. DOMAIN s = 1 .. n /\ n \in Nat
    OBVIOUS
  <1>2. Written(scr1, s) = h[DOMAIN s]
    BY Zenon DEF Written, FoldLeft, MapThenFoldSet
  <1>3. \E g : g = [t \in SUBSET (DOMAIN s) |->
                      IF t = {} THEN base ELSE Put(g[t \ {Max(t)}], s[Max(t)])]
    <2> HIDE DEF base, h
    <2>1. \E g : Writes(g, n, base, s)
      BY <1>1, WritesExist
    <2> QED BY <1>1, <2>1 DEF Writes
  <1>4. h = [t \in SUBSET (DOMAIN s) |->
               IF t = {} THEN base ELSE Put(h[t \ {Max(t)}], s[Max(t)])]
    <2> HIDE DEF base
    <2> QED BY <1>3, Zenon
  <1> HIDE DEF h, n
  <1>5. h[1 .. 0] = base
    BY <1>1, <1>4
  <1>6. ASSUME NEW i \in 1 .. n PROVE h[1 .. i] = Put(h[1 .. i - 1], s[i])
    <2>1. 1 .. i \in SUBSET (DOMAIN s) /\ i \in 1 .. i
      BY <1>1
    <2>2. \A j \in 1 .. i : (\A k \in 1 .. i : j >= k) => j = i
      BY <1>1
    <2>3. \A k \in 1 .. i : i >= k
      BY <1>1
    <2>4. Max(1 .. i) = i
      BY <2>1, <2>2, <2>3 DEF Max
    <2>5. (1 .. i) \ {i} = 1 .. i - 1
      BY <1>1
    <2>6. h[1 .. i] = Put(h[(1 .. i) \ {Max(1 .. i)}], s[Max(1 .. i)])
      <3> HIDE DEF base
      <3>1. 1 .. i # {}
        BY <2>1
      <3> QED BY <1>4, <2>1, <3>1
    <2> QED BY <2>4, <2>5, <2>6
  <1> DEFINE r == [i \in 0 .. n |-> h[1 .. i]]
  <1>7. r[0] = base /\ r[n] = h[DOMAIN s]
    <2> HIDE DEF base
    <2>1. 0 \in 0 .. n /\ n \in 0 .. n
      BY <1>1
    <2> QED BY <1>1, <1>5, <2>1
  <1>8. \A i \in 1 .. n : r[i] = Put(r[i - 1], s[i])
    <2> TAKE i \in 1 .. n
    <2>1. i \in 0 .. n /\ i - 1 \in 0 .. n
      BY <1>1
    <2> QED BY <1>6, <2>1
  <1>9. Run(r, scr1, s)
    <2> HIDE DEF r
    <2> QED BY <1>2, <1>7, <1>8 DEF Run, n
  <1> HIDE DEF r
  <1> QED BY <1>9

LEMMA CoveredMore ==
  ASSUME NEW c \in Canvas, NEW q \in Nat, NEW s, NEW i \in Nat, q + i \in Pos
  PROVE  /\ Covered(c, q, s, 0) = c
         /\ [Covered(c, q, s, i) EXCEPT ![q + i] = s[i + 1]] = Covered(c, q, s, i + 1)
  <1>1. \A p \in Pos : p \in Nat
    BY Located
  <1>2. Covered(c, q, s, 0) = c
    <2>1. \A p \in Pos : ~(p \in q .. q + 0 - 1)
      BY <1>1
    <2> QED BY <2>1 DEF Covered, Canvas
  <1>3. ASSUME NEW p \in Pos
        PROVE  [Covered(c, q, s, i) EXCEPT ![q + i] = s[i + 1]][p] = Covered(c, q, s, i + 1)[p]
    <2>1. CASE p = q + i
      <3>1. p \in q .. q + (i + 1) - 1 /\ p - q + 1 = i + 1
        BY <2>1
      <3> QED BY <2>1, <3>1 DEF Covered
    <2>2. CASE p # q + i
      <3>1. p \in q .. q + (i + 1) - 1 <=> p \in q .. q + i - 1
        BY <2>2, <1>1
      <3> QED BY <2>2, <3>1 DEF Covered
    <2> QED BY <2>1, <2>2
  <1>4. /\ DOMAIN Covered(c, q, s, i) = Pos
        /\ Covered(c, q, s, i + 1) = [p \in Pos |-> Covered(c, q, s, i + 1)[p]]
    BY DEF Covered
  <1>5. [Covered(c, q, s, i) EXCEPT ![q + i] = s[i + 1]]
          = [p \in Pos |-> [Covered(c, q, s, i) EXCEPT ![q + i] = s[i + 1]][p]]
    BY <1>4
  <1> QED BY <1>2, <1>3, <1>4, <1>5

\* No line feeds and no other control characters.
Plain(s) == \A i \in 1 .. Len(s) : s[i] \notin Controls

\* A state of the writer.
Writer(s, q) == [scr |-> s, pos |-> q, hangs |-> FALSE]

Rewritten(w, e, z) == [w EXCEPT !.scr = e, !.pos = z]

LEMMA WriterExcept ==
  ASSUME NEW s, NEW q, NEW e, NEW z
  PROVE  /\ Rewritten(Writer(s, q), e, z) = Writer(e, z)
         /\ Writer(s, q).scr = s /\ Writer(s, q).pos = q /\ ~Writer(s, q).hangs
  <1>1. Rewritten(Writer(s, q), e, z) = Writer(e, z)
    <2>1. DOMAIN [Writer(s, q) EXCEPT !.scr = e, !.pos = z] = DOMAIN Writer(e, z)
      BY DEF Writer
    <2>2. [Writer(s, q) EXCEPT !.scr = e, !.pos = z].hangs = Writer(e, z).hangs
      BY DEF Writer
    <2>3. [Writer(s, q) EXCEPT !.scr = e, !.pos = z].pos = Writer(e, z).pos
      BY DEF Writer
    <2>4. [Writer(s, q) EXCEPT !.scr = e, !.pos = z].scr = Writer(e, z).scr
      BY DEF Writer
    <2> QED BY <2>1, <2>2, <2>3, <2>4 DEF Writer, Rewritten
  <1>2. Writer(s, q).scr = s /\ Writer(s, q).pos = q /\ ~Writer(s, q).hangs
    BY DEF Writer
  <1> QED BY <1>1, <1>2

PutAt(s, a, b) == [s EXCEPT !.x = a, !.y = b]
Repainted(s, e) == [s EXCEPT !.x = 0, !.cells = e]

LEMMA ScrFields ==
  ASSUME NEW c, NEW x, NEW y
  PROVE  Scr(c, x, y).cells = c /\ Scr(c, x, y).x = x /\ Scr(c, x, y).y = y
  BY DEF Scr

LEMMA ScrExcept ==
  /\ \A c, x, y, a, b : PutAt(Scr(c, x, y), a, b) = Scr(c, a, b)
  /\ \A c, x, y, e : Repainted(Scr(c, x, y), e) = Scr(e, 0, y)
  <1> SUFFICES ASSUME NEW c, NEW x, NEW y, NEW e, NEW a, NEW b
               PROVE  /\ PutAt(Scr(c, x, y), a, b) = Scr(c, a, b)
                      /\ Repainted(Scr(c, x, y), e) = Scr(e, 0, y)
    OBVIOUS
  <1>3. PutAt(Scr(c, x, y), a, b) = Scr(c, a, b)
    <2>1. DOMAIN [Scr(c, x, y) EXCEPT !.x = a, !.y = b] = DOMAIN Scr(c, a, b)
      BY DEF Scr
    <2>2. [Scr(c, x, y) EXCEPT !.x = a, !.y = b].cells = Scr(c, a, b).cells
      BY DEF Scr
    <2>3. [Scr(c, x, y) EXCEPT !.x = a, !.y = b].x = Scr(c, a, b).x
      BY DEF Scr
    <2>4. [Scr(c, x, y) EXCEPT !.x = a, !.y = b].y = Scr(c, a, b).y
      BY DEF Scr
    <2> QED BY <2>1, <2>2, <2>3, <2>4 DEF Scr, PutAt
  <1>4. Repainted(Scr(c, x, y), e) = Scr(e, 0, y)
    <2>1. DOMAIN [Scr(c, x, y) EXCEPT !.x = 0, !.cells = e] = DOMAIN Scr(e, 0, y)
      BY DEF Scr
    <2>2. [Scr(c, x, y) EXCEPT !.x = 0, !.cells = e].cells = Scr(e, 0, y).cells
      BY DEF Scr
    <2>3. [Scr(c, x, y) EXCEPT !.x = 0, !.cells = e].x = Scr(e, 0, y).x
      BY DEF Scr
    <2>4. [Scr(c, x, y) EXCEPT !.x = 0, !.cells = e].y = Scr(e, 0, y).y
      BY DEF Scr
    <2> QED BY <2>1, <2>2, <2>3, <2>4 DEF Scr, Repainted
  <1> QED BY <1>3, <1>4

LEMMA PutPlain ==
  ASSUME NEW c, NEW x, NEW y, NEW q, q # PosMax, NEW g, g \notin Controls,
         NEW d, d = Marked(c, q, g)
  PROVE  Put(Writer(Scr(c, x, y), q), g)
           = Writer(Scr(d, x, y), q + 1)
  <1> DEFINE w == Writer(Scr(c, x, y), q)
  <1>0. w.pos = q /\ w.scr = Scr(c, x, y) /\ ~w.hangs
    BY DEF Writer
  <1> HIDE DEF w
  <1>1. Put(w, g) = PutText(w, g)
    BY <1>0 DEF Put, Controls
  <1>2. PutText(w, g) = [w EXCEPT !.scr.cells[w.pos] = g, !.pos = @ + 1]
    BY <1>0 DEF PutText
  <1>3. [w EXCEPT !.scr.cells[w.pos] = g, !.pos = @ + 1]
          = Rewritten(w, [w.scr EXCEPT !.cells = [w.scr.cells EXCEPT ![w.pos] = g]], w.pos + 1)
    BY DEF Rewritten
  <1>4. [w.scr EXCEPT !.cells = [w.scr.cells EXCEPT ![w.pos] = g]] = Scr(d, x, y)
    <2>1. w.scr.cells = c
      BY <1>0, ScrFields
    <2>2. [w.scr.cells EXCEPT ![w.pos] = g] = d
      BY <1>0, <2>1 DEF Marked
    <2>3. [w.scr EXCEPT !.cells = d] = Scr(d, x, y)
      BY <1>0 DEF Scr
    <2> QED BY <2>2, <2>3
  <1>5. Rewritten(w, Scr(d, x, y), q + 1)
          = Writer(Scr(d, x, y), q + 1)
    BY WriterExcept DEF w
  <1> QED BY <1>0, <1>1, <1>2, <1>3, <1>4, <1>5 DEF w

LEMMA WriteText ==
  ASSUME NEW c \in Canvas, NEW x \in 0 .. XMax, NEW y \in 0 .. YMax,
         NEW S, NEW s \in Seq(S), Plain(s), x + Len(s) <= XMax
  PROVE  write_s(Scr(c, x, y), s) = Scr(Overlay(c, vga_xy(x, y), s), x + Len(s), y)
  <1> DEFINE q == vga_xy(x, y)
             n == Len(s)
             W(i) == Writer(Scr(Covered(c, q, s, i), x, y), q + i)
  <1>0. /\ q \in Nat /\ q = RowStart(y) + x /\ RowStart(y) \in Nat
        /\ RowStart(y) + XLen <= PosLen /\ n \in Nat /\ x \in Nat /\ x + n <= XMax
    BY Placed, Sizes, Located
  <1>2. PICK r : Run(r, Scr(c, x, y), s)
    BY WriteRuns
  <1> DEFINE Good == {i \in 0 .. n : r[i] = W(i)}
  <1>3. 0 \in Good
    <2>1. r[0] = Writer(Scr(c, x, y), vga_xy(x, y))
      BY <1>2 DEF Run, Scr, Writer
    <2>2. q + 0 \in Pos
      BY Placed, <1>0
    <2>3. Covered(c, q, s, 0) = c
      BY <1>0, <2>2, CoveredMore
    <2>4. q + 0 = q
      BY <1>0
    <2> HIDE DEF q
    <2>5. r[0] = W(0)
      BY <2>1, <2>3, <2>4 DEF q
    <2> HIDE DEF W
    <2> QED BY <2>5, <1>0
  <1>4. ASSUME NEW i \in 0 .. n - 1, i \in Good PROVE i + 1 \in Good
    <2>0. i \in Nat /\ i + 1 \in 1 .. n /\ i + 1 - 1 = i
      BY <1>0
    <2>1. r[i + 1] = Put(r[i], s[i + 1])
      BY <1>2, <2>0 DEF Run
    <2>2. q + i \in Pos /\ q + i # PosMax
      <3>1. q + i \in 0 .. PosMax /\ q + i # PosMax
        <4> HIDE DEF q
        <4>1. ASSUME NEW o \in Nat, NEW l \in Nat, NEW e \in Nat, q = o + x, o + l <= e,
                     x + n <= l - 1
              PROVE  q + i \in 0 .. e - 1 /\ q + i # e - 1
          BY <1>0, <2>0, <4>1, SMTT(30)
        <4>2. XMax = XLen - 1 /\ PosMax = PosLen - 1 /\ XLen \in Nat /\ PosLen \in Nat
          BY Sizes
        <4> QED BY <1>0, <4>1, <4>2
      <3> QED BY <3>1 DEF Pos
    <2>3. s[i + 1] \notin Controls
      BY <2>0 DEF Plain
    <2>4. r[i] = W(i)
      BY <1>4
    <2> HIDE DEF q
    <2>6. [Covered(c, q, s, i) EXCEPT ![q + i] = s[i + 1]] = Covered(c, q, s, i + 1)
      <3>1. q \in Nat /\ i \in Nat
        BY <1>0, <2>0
      <3>2. q + i \in Pos
        BY <2>2
      <3> QED BY <3>1, <3>2, CoveredMore
    <2>7. q + i + 1 = q + (i + 1)
      BY <1>0, <2>0
    <2>5. Put(W(i), s[i + 1]) = Writer(Scr(Covered(c, q, s, i + 1), x, y), q + i + 1)
      BY <2>2, <2>3, <2>6, PutPlain DEF Marked
    <2>8. r[i + 1] = W(i + 1)
      BY <2>1, <2>4, <2>5, <2>7
    <2> HIDE DEF W
    <2> QED BY <2>8, <2>0, <1>0
  <1> HIDE DEF Good
  <1>5. n \in Good
    <2>1. \A i \in 0 .. n : i \in Good
      BY <1>0, <1>3, <1>4, Climb
    <2> QED BY <2>1, <1>0
  <1>6. Written(Scr(c, x, y), s) = W(n)
    BY <1>2, <1>5 DEF Run, Good
  <1>7. write_s(Scr(c, x, y), s) = At(Scr(Covered(c, q, s, n), x, y), q + n)
    <2>1. W(n).scr = Scr(Covered(c, q, s, n), x, y) /\ W(n).pos = q + n
      BY DEF Writer
    <2> HIDE DEF W
    <2> QED BY <1>6, <2>1 DEF write_s
  <1>8. q + n = vga_xy(x + n, y) /\ x + n \in 0 .. XMax
    <2>1. x + n \in 0 .. XMax
      BY <1>0, Sizes
    <2>2. vga_xy(x + n, y) = RowStart(y) + (x + n)
      BY <2>1, Placed
    <2> QED BY <2>1, <2>2, <1>0
  <1>9. At(Scr(Covered(c, q, s, n), x, y), vga_xy(x + n, y)) = Scr(Covered(c, q, s, n), x + n, y)
    BY <1>8, AtIs
  <1> QED BY <1>7, <1>8, <1>9 DEF Overlay

-----------------------------------------------------------------------------
(* Behind the cursor of what has only been written to, all is blank.       *)

BlankFrom(c, q) == \A p \in Pos : p >= q => c[p] = Blank

Fresh(s) ==
  \E c \in Canvas, x \in 0 .. XMax, y \in 0 .. YMax :
     s = Scr(c, x, y) /\ BlankFrom(c, vga_xy(x, y))

FreshWriter(w) ==
  \E c \in Canvas, q \in Pos :
     BlankFrom(c, q) /\ \E x, y : w = Writer(Scr(c, x, y), q)

LEMMA BlankGlyph == Blank \in Glyphs /\ Blank \notin Controls /\ LineFeed \in Controls
                    /\ LineFeed \notin {Back, Tab, ClearScreen, ClearLine, Blank}
  <1> DEFINE special == <<Blank, LineFeed, Tab, Back, ClearScreen, ClearLine>>
  <1>1. \A i, j \in 1 .. 6 : special[i] = special[j] => i = j
    BY ScreenAssumption
  <1>2. Blank # LineFeed /\ LineFeed # Back
    BY <1>1
  <1>5. LineFeed # Tab /\ LineFeed # ClearScreen
    BY <1>1
  <1>6. LineFeed # ClearLine
    BY <1>1
  <1>3. Blank # Tab /\ Blank # Back
    BY <1>1
  <1>4. Blank # ClearScreen /\ Blank # ClearLine
    BY <1>1
  <1> HIDE DEF special
  <1> QED BY <1>2, <1>3, <1>4, <1>5, <1>6 DEF Glyphs, Controls

LEMMA ScrolledIs ==
  ASSUME NEW c \in Canvas
  PROVE  Scrolled(c) \in Canvas /\ BlankFrom(Scrolled(c), RowStart(YMax))
  <1>1. \A p \in Pos : p + XLen <= PosMax => p + XLen \in Pos
    BY Sizes, Located DEF Pos
  <1>2. Scrolled(c) \in Canvas
    BY <1>1, BlankGlyph DEF Scrolled, Canvas
  <1>3. ASSUME NEW p \in Pos, p >= RowStart(YMax) PROVE Scrolled(c)[p] = Blank
    <2>1. ~(p + XLen <= PosMax)
      BY <1>3, LastRow, Sizes, Located
    <2> QED BY <2>1 DEF Scrolled
  <1> QED BY <1>2, <1>3 DEF BlankFrom

LEMMA NewlineIs ==
  ASSUME NEW c, NEW x, NEW y \in 0 .. YMax
  PROVE  newline(Scr(c, x, y)) = IF y # YMax THEN Scr(c, 0, y + 1)
                                 ELSE Scr(Scrolled(c), 0, YMax)
  <1>1. PICK s : s = Scr(c, x, y)
    OBVIOUS
  <1>2. s.x = x /\ s.y = y /\ s.cells = c
    BY <1>1, ScrFields
  <1>3. newline(s) = IF y # YMax THEN PutAt(s, 0, y + 1) ELSE Repainted(s, Scrolled(c))
    BY <1>2 DEF newline, PutAt, Repainted
  <1> QED BY <1>1, <1>3, ScrExcept

\* A line feed leaves the rows from the cursor's on blank if those below the
\* cursor's row were.
LEMMA NewlineFresh ==
  ASSUME NEW c \in Canvas, NEW x, NEW y \in 0 .. YMax,
         BlankFrom(c, RowStart(y) + XLen)
  PROVE  /\ Fresh(newline(Scr(c, x, y)))
         /\ newline(Scr(c, x, y)).x = 0
         /\ newline(Scr(c, x, y)).cells \in {c, Scrolled(c)}
  <1>1. CASE y # YMax
    <2>1. newline(Scr(c, x, y)) = Scr(c, 0, y + 1)
      BY <1>1, NewlineIs
    <2>2. 0 \in 0 .. XMax /\ y + 1 \in 0 .. YMax /\ y \in Nat
      BY <1>1, Sizes
    <2>3. vga_xy(0, y + 1) = RowStart(y) + XLen
      BY <2>2, Placed, NextRow
    <2>4. BlankFrom(c, vga_xy(0, y + 1))
      BY <2>3
    <2>5. Scr(c, 0, y + 1).x = 0 /\ Scr(c, 0, y + 1).cells = c
      BY ScrFields
    <2> QED BY <2>1, <2>2, <2>4, <2>5 DEF Fresh
  <1>2. CASE y = YMax
    <2>1. newline(Scr(c, x, y)) = Scr(Scrolled(c), 0, YMax)
      BY <1>2, NewlineIs
    <2>2. 0 \in 0 .. XMax /\ YMax \in 0 .. YMax
      BY Sizes
    <2>3. vga_xy(0, YMax) = RowStart(YMax)
      BY <2>2, Placed
    <2>4. Scrolled(c) \in Canvas /\ BlankFrom(Scrolled(c), vga_xy(0, YMax))
      BY <2>3, ScrolledIs
    <2>5. Scr(Scrolled(c), 0, YMax).x = 0 /\ Scr(Scrolled(c), 0, YMax).cells = Scrolled(c)
      BY ScrFields
    <2> QED BY <2>1, <2>2, <2>4, <2>5 DEF Fresh
  <1> QED BY <1>1, <1>2

LEMMA PutNewlineFresh ==
  ASSUME NEW w, FreshWriter(w)
  PROVE  /\ FreshWriter(Put(w, LineFeed))
         /\ Put(w, LineFeed).scr.cells \in {w.scr.cells, Scrolled(w.scr.cells)}
  <1>0. PICK c \in Canvas, q \in Pos : BlankFrom(c, q) /\ \E x, y : w = Writer(Scr(c, x, y), q)
    BY DEF FreshWriter
  <1>1. PICK x, y : w = Writer(Scr(c, x, y), q) /\ BlankFrom(c, q)
    BY <1>0
  <1>2. w.pos = q /\ w.scr = Scr(c, x, y) /\ ~w.hangs
    BY <1>1, WriterExcept
  <1>3. PICK a \in 0 .. XMax, b \in 0 .. YMax :
          a = q % XLen /\ b = q \div XLen /\ q = RowStart(b) + a /\ q \in Nat
    BY Located
  <1>4. PutAt(w.scr, w.pos % XLen, w.pos \div XLen) = Scr(c, a, b)
    BY <1>2, <1>3, ScrExcept
  <1> DEFINE next == newline(Scr(c, a, b))
  <1>5. Put(w, LineFeed) = Rewritten(w, next, vga_xy(next.x, next.y))
    <2>1. newline([w.scr EXCEPT !.x = w.pos % XLen, !.y = w.pos \div XLen]) = next
      BY <1>4 DEF PutAt
    <2> HIDE DEF next
    <2>2. PutNewline(w) = Rewritten(w, next, vga_xy(next.x, next.y))
      BY <2>1 DEF PutNewline, Rewritten
    <2>3. Put(w, LineFeed) = PutNewline(w)
      <3>1. ~w.hangs
        BY <1>2
      <3> QED BY <3>1, BlankGlyph DEF Put
    <2> QED BY <2>2, <2>3
  <1>6. BlankFrom(c, RowStart(b) + XLen)
    <2>1. RowStart(b) \in Nat
      BY Placed, <1>3
    <2>2. \A p \in Pos : p >= RowStart(b) + XLen => p >= q
      BY <1>3, <2>1, Sizes, Located
    <2> QED BY <1>1, <2>2 DEF BlankFrom
  <1>7. Fresh(next) /\ next.cells \in {c, Scrolled(c)}
    BY <1>6, NewlineFresh
  <1> HIDE DEF next
  <1>8. PICK d \in Canvas, u \in 0 .. XMax, v \in 0 .. YMax :
          next = Scr(d, u, v) /\ BlankFrom(d, vga_xy(u, v))
    BY <1>7 DEF Fresh
  <1>9. Put(w, LineFeed) = Writer(Scr(d, u, v), vga_xy(u, v))
    <2>1. next.x = u /\ next.y = v
      BY <1>8, ScrFields
    <2> QED BY <1>1, <1>5, <1>8, <2>1, WriterExcept
  <1>10. vga_xy(u, v) \in Pos
    BY Placed
  <1>11. FreshWriter(Put(w, LineFeed))
    BY <1>8, <1>9, <1>10 DEF FreshWriter
  <1>12. Put(w, LineFeed).scr = next /\ w.scr.cells = c
    BY <1>2, <1>8, <1>9, WriterExcept, ScrFields
  <1> QED BY <1>7, <1>11, <1>12

LEMMA PutTextFresh ==
  ASSUME NEW w, FreshWriter(w), NEW g \in Glyphs, g \notin Controls
  PROVE  /\ FreshWriter(Put(w, g))
         /\ \E d \in {w.scr.cells, Scrolled(w.scr.cells)}, o \in Pos :
              BlankFrom(d, o) /\ Put(w, g).scr.cells = Marked(d, o, g)
  <1>0. PICK c \in Canvas, q \in Pos : BlankFrom(c, q) /\ \E x, y : w = Writer(Scr(c, x, y), q)
    BY DEF FreshWriter
  <1>1. PICK x, y : w = Writer(Scr(c, x, y), q) /\ BlankFrom(c, q)
    BY <1>0
  <1>2. w.pos = q /\ w.scr = Scr(c, x, y) /\ ~w.hangs
    BY <1>1, WriterExcept
  <1>3. Put(w, g) = PutText(w, g)
    BY <1>2 DEF Put, Controls
  <1>7. w.scr.cells = c
    BY <1>2, ScrFields
  <1>4. ASSUME NEW d \in Canvas, NEW e, NEW o \in Pos, o # PosMax, BlankFrom(d, o),
               e = [d EXCEPT ![o] = g]
        PROVE  e \in Canvas /\ o + 1 \in Pos /\ BlankFrom(e, o + 1)
    <2>1. e \in Canvas
      BY <1>4 DEF Canvas
    <2>2. o \in Nat /\ o + 1 \in Pos
      BY <1>4, Sizes DEF Pos
    <2>3. ASSUME NEW p \in Pos, p >= o + 1 PROVE e[p] = Blank
      <3>1. p # o /\ p >= o
        BY <2>2, <2>3, Located
      <3>2. d[p] = Blank
        BY <3>1, <1>4 DEF BlankFrom
      <3> QED BY <3>1, <3>2, <1>4 DEF Canvas
    <2> QED BY <2>1, <2>2, <2>3 DEF BlankFrom
  <1>5. CASE q # PosMax
    <2>1. PICK e : e = [c EXCEPT ![q] = g]
      OBVIOUS
    <2>4. g \notin Controls
      OBVIOUS
    <2>2. Put(w, g) = Writer(Scr(e, x, y), q + 1)
      <3>1. e = Marked(c, q, g)
        BY <2>1 DEF Marked
      <3> QED BY <1>1, <1>5, <2>4, <3>1, PutPlain
    <2>3. e \in Canvas /\ q + 1 \in Pos /\ BlankFrom(e, q + 1)
      BY <1>1, <1>4, <1>5, <2>1
    <2>5. Put(w, g).scr.cells = Marked(c, q, g)
      <3>1. Put(w, g).scr = Scr(e, x, y)
        BY <2>2, WriterExcept
      <3> QED BY <2>1, <3>1, ScrFields DEF Marked
    <2>6. FreshWriter(Put(w, g))
      BY <2>2, <2>3 DEF FreshWriter
    <2> QED BY <1>1, <1>7, <2>5, <2>6
  <1>6. CASE q = PosMax
    <2> DEFINE o == vga_xy(0, YMax)
    <2>1. o \in Pos /\ o # PosMax /\ o = RowStart(YMax)
      <3>1. 0 \in 0 .. XMax /\ YMax \in 0 .. YMax
        BY Sizes
      <3> QED BY <3>1, Placed, LastRow, Sizes
    <2>2. PICK d \in Canvas : d = Scrolled(c) /\ BlankFrom(d, o)
      BY <2>1, ScrolledIs
    <2> HIDE DEF o
    <2>3. PICK e : e = [d EXCEPT ![o] = g]
      OBVIOUS
    <2>4. Put(w, g) = Rewritten(w, Scr(e, x, y), o + 1)
      <3>1. PutText(w, g) = [w EXCEPT !.scr.cells = [Scrolled(@) EXCEPT ![o] = g], !.pos = o + 1]
        BY <1>2, <1>6 DEF PutText, o
      <3>2. [w EXCEPT !.scr.cells = [Scrolled(@) EXCEPT ![o] = g], !.pos = o + 1]
              = Rewritten(w, [w.scr EXCEPT !.cells = [Scrolled(w.scr.cells) EXCEPT ![o] = g]], o + 1)
        BY DEF Rewritten
      <3>3. w.scr.cells = c
        BY <1>2, ScrFields
      <3>4. [Scrolled(w.scr.cells) EXCEPT ![o] = g] = e
        BY <2>2, <2>3, <3>3
      <3>5. [w.scr EXCEPT !.cells = e] = Scr(e, x, y)
        BY <1>2 DEF Scr
      <3> QED BY <1>3, <3>1, <3>2, <3>4, <3>5
    <2>5. Put(w, g) = Writer(Scr(e, x, y), o + 1)
      BY <1>1, <2>4, WriterExcept
    <2>6. e \in Canvas /\ o + 1 \in Pos /\ BlankFrom(e, o + 1)
      BY <1>4, <2>1, <2>2, <2>3
    <2>7. Put(w, g).scr.cells = Marked(d, o, g)
      <3>1. Put(w, g).scr = Scr(e, x, y)
        BY <2>5, WriterExcept
      <3> QED BY <2>3, <3>1, ScrFields DEF Marked
    <2>8. FreshWriter(Put(w, g))
      BY <2>5, <2>6 DEF FreshWriter
    <2> QED BY <1>7, <2>1, <2>2, <2>7, <2>8
  <1> QED BY <1>5, <1>6

\* Printing text and line feeds leaves the screen blank from the cursor on.
LEMMA WriteFresh ==
  ASSUME TextOnly, NEW b, Fresh(b), NEW s \in Seq(Chars \cup {Blank, LineFeed})
  PROVE  Fresh(write_s(b, s))
  <1>1. PICK c \in Canvas, x \in 0 .. XMax, y \in 0 .. YMax :
          b = Scr(c, x, y) /\ BlankFrom(c, vga_xy(x, y))
    BY DEF Fresh
  <1>2. PICK r : Run(r, b, s)
    BY WriteRuns
  <1>3. Len(s) \in Nat /\ \A i \in 1 .. Len(s) : s[i] \in Chars \cup {Blank, LineFeed}
    OBVIOUS
  <1> DEFINE Good == {i \in 0 .. Len(s) : FreshWriter(r[i])}
  <1>4. 0 \in Good
    <2>1. b.x = x /\ b.y = y
      BY <1>1, ScrFields
    <2>2. r[0] = Writer(Scr(c, x, y), vga_xy(x, y))
      BY <1>1, <1>2, <2>1 DEF Run, Writer
    <2>3. vga_xy(x, y) \in Pos
      BY Placed
    <2>4. FreshWriter(r[0])
      BY <1>1, <2>2, <2>3 DEF FreshWriter
    <2> QED BY <1>3, <2>4
  <1>5. ASSUME NEW i \in 0 .. Len(s) - 1, i \in Good PROVE i + 1 \in Good
    <2>1. i + 1 \in 1 .. Len(s) /\ i + 1 - 1 = i /\ i + 1 \in 0 .. Len(s)
      BY <1>3
    <2>2. r[i + 1] = Put(r[i], s[i + 1])
      BY <1>2, <2>1 DEF Run
    <2>3. PICK g \in Chars \cup {Blank, LineFeed} : g = s[i + 1]
      BY <1>3, <2>1
    <2>4. FreshWriter(r[i])
      BY <1>5
    <2>5. g = LineFeed \/ (g \in Glyphs /\ g \notin Controls)
      BY BlankGlyph DEF TextOnly, Glyphs
    <2>6. FreshWriter(r[i + 1])
      BY <2>2, <2>3, <2>4, <2>5, PutNewlineFresh, PutTextFresh
    <2> QED BY <2>1, <2>6
  <1> HIDE DEF Good
  <1>6. \A i \in 0 .. Len(s) : i \in Good
    BY <1>3, <1>4, <1>5, Climb
  <1>7. FreshWriter(Written(b, s))
    BY <1>2, <1>3, <1>6 DEF Run, Good
  <1>12. PICK d \in Canvas, q \in Pos :
           BlankFrom(d, q) /\ \E u, v : Written(b, s) = Writer(Scr(d, u, v), q)
    BY <1>7 DEF FreshWriter
  <1>8. PICK u, v : Written(b, s) = Writer(Scr(d, u, v), q) /\ BlankFrom(d, q)
    BY <1>12
  <1>9. PICK a \in 0 .. XMax, e \in 0 .. YMax : q = vga_xy(a, e)
    BY Located
  <1>10. write_s(b, s) = Scr(d, a, e)
    <2>1. write_s(b, s) = At(Scr(d, u, v), vga_xy(a, e))
      BY <1>8, <1>9, WriterExcept DEF write_s
    <2> QED BY <2>1, AtIs
  <1> QED BY <1>8, <1>9, <1>10 DEF Fresh

-----------------------------------------------------------------------------
(* What the editors draw.                                                  *)

\* The line p of an editor on the screen b that it began on: its prompt and its
\* buffer, with the cursor at character p.
Drawn(b, prompt, buf, p) ==
  Scr(Overlay(b.cells, vga_xy(b.x, b.y), prompt \o String(buf)), b.x + Len(prompt) + p, b.y)

LEMMA FreshIs ==
  ASSUME NEW b, Fresh(b)
  PROVE  /\ b.cells \in Canvas /\ b.x \in 0 .. XMax /\ b.y \in 0 .. YMax
         /\ b = Scr(b.cells, b.x, b.y)
         /\ BlankFrom(b.cells, vga_xy(b.x, b.y))
         /\ vga_xy(b.x, b.y) \in Pos
  <1>1. PICK c \in Canvas, x \in 0 .. XMax, y \in 0 .. YMax :
          b = Scr(c, x, y) /\ BlankFrom(c, vga_xy(x, y))
    BY DEF Fresh
  <1>2. b.cells = c /\ b.x = x /\ b.y = y
    BY <1>1, ScrFields
  <1> QED BY <1>1, <1>2, Placed

LEMMA TextIsPlain ==
  ASSUME TextOnly, NEW buf, NEW n \in 0 .. Cap, Holds(buf, n)
  PROVE  /\ String(buf) \in Seq(Chars) /\ Len(String(buf)) = n
         /\ Plain(String(buf))
  <1>1. String(buf) \in Seq(Chars) /\ Len(String(buf)) = n
    BY HeldString
  <1>2. \A i \in 1 .. Len(String(buf)) : String(buf)[i] \in Chars
    BY <1>1
  <1> QED BY <1>1, <1>2 DEF Plain, TextOnly

LEMMA OverlayTyped ==
  ASSUME NEW c \in Canvas, NEW q \in Nat, NEW s \in Seq(Glyphs)
  PROVE  Overlay(c, q, s) \in Canvas
  <1>1. ASSUME NEW p \in Pos, p \in q .. q + Len(s) - 1 PROVE s[p - q + 1] \in Glyphs
    <2>1. p - q + 1 \in 1 .. Len(s)
      BY <1>1
    <2> QED BY <2>1
  <1> QED BY <1>1 DEF Overlay, Covered, Canvas

\* Two overlays are equal that agree outside the shorter text, and on it.
LEMMA SameOverlay ==
  ASSUME NEW c, NEW d, NEW q, NEW n,
         \A p \in Pos : p \notin q .. q + n - 1 => c[p] = d[p],
         NEW s, Len(s) = n
  PROVE  Overlay(c, q, s) = Overlay(d, q, s)
  BY DEF Overlay, Covered

\* The shell clears its row, and writes the prompt and the line.
LEMMA DrawShellIs ==
  ASSUME TextOnly, NEW b, Fresh(b), b.x = 0,
         NEW s, clear_line(s, b.y) = b,
         NEW buf, NEW n, NEW p, LineIn(buf, n, p)
  PROVE  DrawShell(s, b.y, buf, p) = Drawn(b, <<Mark, Blank>>, buf, p)
  <1> DEFINE c == b.cells
             y == b.y
             q == vga_xy(0, y)
             t == String(buf)
  <1>0. /\ c \in Canvas /\ y \in 0 .. YMax /\ b = Scr(c, 0, y)
        /\ q = RowStart(y) /\ q \in Nat /\ q + XLen <= PosLen
        /\ 0 \in 0 .. XMax /\ 0 \in 0 .. XMax - 1 /\ 1 \in 0 .. XMax - 1 /\ 2 \in 0 .. XMax
        /\ q + 1 = vga_xy(1, y) /\ q + 2 = vga_xy(2, y)
    <2>1. /\ c \in Canvas /\ y \in 0 .. YMax /\ b = Scr(c, 0, y)
          /\ 0 \in 0 .. XMax /\ 0 \in 0 .. XMax - 1 /\ 1 \in 0 .. XMax - 1 /\ 2 \in 0 .. XMax
          /\ 1 \in 0 .. XMax
      BY FreshIs, Sizes
    <2>2. q = RowStart(y) + 0 /\ q \in Nat /\ RowStart(y) + XLen <= PosLen /\ RowStart(y) \in Nat
      BY <2>1, Placed
    <2>3. vga_xy(1, y) = RowStart(y) + 1 /\ vga_xy(2, y) = RowStart(y) + 2
      BY <2>1, Placed
    <2> QED BY <2>1, <2>2, <2>3
  <1>1. n \in 0 .. Cap /\ p \in 0 .. n /\ Holds(buf, n) /\ n \in Nat /\ p \in Nat
    BY LineEditAssumption DEF LineIn
  <1>2. t \in Seq(Chars) /\ Len(t) = n /\ Plain(t)
    BY <1>1, TextIsPlain
  <1>3. Mark \in Glyphs /\ Mark \notin Controls /\ Blank \in Glyphs /\ Blank \notin Controls
    BY BlankGlyph DEF Glyphs, TextOnly
  <1> DEFINE c1 == Marked(c, q, Mark)
             c2 == Marked(c1, q + 1, Blank)
  <1>4. c1 \in Canvas /\ c2 \in Canvas
    BY <1>0, <1>3 DEF Canvas, Marked
  <1>5. write_c(b, Mark) = Scr(c1, 1, y)
    BY <1>0, <1>3, WriteGlyph
  <1>6. write_c(Scr(c1, 1, y), Blank) = Scr(c2, 2, y)
    <2> HIDE DEF c1, q, y
    <2>1. write_c(Scr(c1, 1, y), Blank) = Scr(Marked(c1, vga_xy(1, y), Blank), 1 + 1, y)
      BY <1>0, <1>3, <1>4, WriteGlyph
    <2> QED BY <2>1, <1>0
  <1>7. write_s(Scr(c2, 2, y), t) = Scr(Overlay(c2, q + 2, t), 2 + n, y)
    <2> HIDE DEF c2, t, y, q
    <2>1. 2 + Len(t) <= XMax
      BY <1>1, <1>2, Sizes
    <2>2. write_s(Scr(c2, 2, y), t) = Scr(Overlay(c2, vga_xy(2, y), t), 2 + Len(t), y)
      BY <1>0, <1>2, <1>4, <2>1, WriteText
    <2> QED BY <2>2, <1>0, <1>2
  <1>8. DrawShell(s, y, buf, p) = Scr(Overlay(c2, q + 2, t), p + 2, y)
    <2> HIDE DEF c2, c1, q, y, t
    <2>1. DrawShell(s, y, buf, p) = Move(Scr(Overlay(c2, q + 2, t), 2 + n, y), p + 2, y)
      <3>1. clear_line(s, y) = b /\ t = String(buf)
        BY DEF y, t
      <3> QED BY <1>5, <1>6, <1>7, <3>1 DEF DrawShell
    <2>2. p + 2 \in 0 .. XMax
      BY <1>1, Sizes
    <2> QED BY <2>1, <2>2, <1>0, MoveIs
  <1>9. Overlay(c2, q + 2, t) = Overlay(c, q, <<Mark, Blank>> \o t)
    <2> DEFINE u == <<Mark, Blank>> \o t
    <2>1. Len(u) = 2 + n /\ u[1] = Mark /\ u[2] = Blank /\ \A i \in 1 .. n : u[i + 2] = t[i]
      <3> HIDE DEF t
      <3>1. Len(<<Mark, Blank>>) = 2 /\ <<Mark, Blank>> \in Seq(Glyphs)
        BY <1>3
      <3>2. t \in Seq(Glyphs)
        BY <1>2 DEF Glyphs
      <3>3. /\ Len(u) = 2 + n
            /\ \A i \in 1 .. 2 + n : u[i] = IF i <= 2 THEN <<Mark, Blank>>[i] ELSE t[i - 2]
        BY <1>2, <3>1, <3>2, ConcatProperties
      <3>4. \A i \in 1 .. n : i + 2 \in 1 .. 2 + n /\ ~(i + 2 <= 2) /\ i + 2 - 2 = i
        BY <1>1
      <3>5. 1 \in 1 .. 2 + n /\ 2 \in 1 .. 2 + n
        BY <1>1
      <3> HIDE DEF u
      <3> QED BY <3>3, <3>4, <3>5
    <2> HIDE DEF u, t
    <2>2. ASSUME NEW z \in Pos
          PROVE  Overlay(c2, q + 2, t)[z] = Overlay(c, q, u)[z]
      <3>0. z \in Nat /\ q \in Pos /\ q + 1 \in Pos
        <4>1. q \in Pos /\ q + 1 \in Pos
          BY <1>0, Sizes DEF Pos
        <4> QED BY <4>1, Located
      <3> HIDE DEF q, c
      <3>1. CASE z = q
        <4>1. ~(z \in q + 2 .. q + 2 + n - 1) /\ z \in q .. q + (2 + n) - 1 /\ z - q + 1 = 1
          BY <3>1, <1>0, <1>1
        <4>2. c2[z] = Mark
          BY <3>1, <3>0, <1>0 DEF Canvas, Marked
        <4> HIDE DEF c2
        <4> QED BY <4>1, <4>2, <2>1, <1>2 DEF Overlay, Covered
      <3>2. CASE z = q + 1
        <4>1. ~(z \in q + 2 .. q + 2 + n - 1) /\ z \in q .. q + (2 + n) - 1 /\ z - q + 1 = 2
          BY <3>2, <1>0, <1>1
        <4>2. c2[z] = Blank
          BY <3>2, <3>0, <1>0 DEF Canvas, Marked
        <4> HIDE DEF c2
        <4> QED BY <4>1, <4>2, <2>1, <1>2 DEF Overlay, Covered
      <3>3. CASE z \in q + 2 .. q + 2 + n - 1
        <4>1. z \in q .. q + (2 + n) - 1
          BY <3>3, <1>0, <1>1
        <4>2. PICK i \in 1 .. n : i = z - (q + 2) + 1
          BY <3>3, <1>0, <1>1
        <4>3. z - q + 1 = i + 2
          BY <4>2, <3>0, <1>0
        <4>4. u[z - q + 1] = t[z - (q + 2) + 1]
          BY <4>2, <4>3, <2>1
        <4> QED BY <4>1, <4>4, <3>3, <2>1, <1>2 DEF Overlay, Covered
      <3>4. CASE z # q /\ z # q + 1 /\ z \notin q + 2 .. q + 2 + n - 1
        <4>1. z \notin q .. q + (2 + n) - 1
          BY <3>4, <3>0, <1>0, <1>1
        <4>2. c2[z] = c[z]
          BY <3>4, <1>0 DEF Canvas, Marked
        <4> HIDE DEF c2
        <4> QED BY <4>1, <4>2, <3>4, <2>1, <1>2 DEF Overlay, Covered
      <3> QED BY <3>1, <3>2, <3>3, <3>4
    <2> HIDE DEF c2, c, q
    <2> QED BY <2>2 DEF Overlay, Covered, u
  <1>10. 0 + Len(<<Mark, Blank>>) + p = p + 2
    BY <1>1
  <1> QED BY <1>8, <1>9, <1>10 DEF Drawn

\* What the shell clears is what it drew.
LEMMA ClearedIs ==
  ASSUME NEW b, Fresh(b), b.x = 0, NEW c, NEW x, NEW y,
         \A p \in Pos : p \div XLen # b.y => c[p] = b.cells[p]
  PROVE  clear_line(Scr(c, x, y), b.y) = b
  <1> DEFINE d == [p \in Pos |-> IF p \div XLen = b.y THEN Blank ELSE c[p]]
  <1>1. /\ b.cells \in Canvas /\ b.y \in 0 .. YMax /\ b = Scr(b.cells, 0, b.y)
        /\ BlankFrom(b.cells, vga_xy(0, b.y)) /\ 0 \in 0 .. XMax
    BY FreshIs, Sizes
  <1>2. vga_xy(0, b.y) = RowStart(b.y) + 0 /\ RowStart(b.y) \in Nat
    BY <1>1, Placed
  <1>3. ASSUME NEW p \in Pos PROVE d[p] = b.cells[p]
    <2>1. CASE p \div XLen = b.y
      <3>1. p \in RowStart(b.y) .. RowStart(b.y) + XMax
        BY <2>1, <1>1, InRow
      <3>2. p >= vga_xy(0, b.y)
        BY <3>1, <1>2
      <3> QED BY <3>2, <2>1, <1>1 DEF BlankFrom
    <2>2. CASE p \div XLen # b.y
      BY <2>2
    <2> QED BY <2>1, <2>2
  <1>4. d = b.cells
    <2>1. d = [p \in Pos |-> d[p]] /\ b.cells = [p \in Pos |-> b.cells[p]]
      BY <1>1 DEF Canvas
    <2> HIDE DEF d
    <2> QED BY <1>3, <2>1
  <1>5. clear_line(Scr(c, x, y), b.y) = Scr(d, 0, b.y)
    BY <1>1, ClearLineIs
  <1> HIDE DEF d
  <1> QED BY <1>1, <1>4, <1>5

\* A line that fits changes no other row.
LEMMA OverlayInRow ==
  ASSUME NEW x \in 0 .. XMax, NEW y \in 0 .. YMax, NEW c, NEW s, Len(s) \in Nat,
         x + Len(s) <= XLen, NEW p \in Pos, p \div XLen # y
  PROVE  Overlay(c, vga_xy(x, y), s)[p] = c[p]
  <1>1. p \notin RowStart(y) .. RowStart(y) + XMax
    BY InRow
  <1>2. vga_xy(x, y) = RowStart(y) + x /\ RowStart(y) \in Nat /\ p \in Nat
    BY Placed, Located
  <1>3. p \notin vga_xy(x, y) .. vga_xy(x, y) + Len(s) - 1
    BY <1>1, <1>2, Sizes
  <1> QED BY <1>3 DEF Overlay, Covered

\* k_gets writes its line over the one before, of which it leaves nothing.
LEMMA DrawGetsIs ==
  ASSUME TextOnly, NEW b, Fresh(b), NEW buf, NEW n, NEW p, LineIn(buf, n, p),
         b.x + Cap < XMax,
         NEW c \in Canvas, NEW x, NEW y,
         \A z \in Pos : z \notin vga_xy(b.x, b.y) .. vga_xy(b.x, b.y) + n - 1 => c[z] = b.cells[z]
  PROVE  DrawGets(Scr(c, x, y), b.x, b.y, buf, p) = Drawn(b, <<>>, buf, p)
  <1> DEFINE q == vga_xy(b.x, b.y)
             t == String(buf)
  <1>1. /\ b.x \in 0 .. XMax /\ b.y \in 0 .. YMax /\ b.x \in Nat
    BY FreshIs, Sizes
  <1>2. n \in 0 .. Cap /\ p \in 0 .. n /\ Holds(buf, n) /\ n \in Nat /\ p \in Nat
    BY LineEditAssumption DEF LineIn
  <1>3. t \in Seq(Chars) /\ Len(t) = n /\ Plain(t)
    BY <1>2, TextIsPlain
  <1> HIDE DEF t
  <1>4. Move(Scr(c, x, y), b.x, b.y) = Scr(c, b.x, b.y)
    BY <1>1, MoveIs
  <1>5. write_s(Scr(c, b.x, b.y), t) = Scr(Overlay(c, q, t), b.x + n, b.y)
    <2>1. b.x + Len(t) <= XMax
      BY <1>1, <1>2, <1>3, Sizes
    <2> QED BY <2>1, <1>1, <1>3, WriteText
  <1>6. Overlay(c, q, t) = Overlay(b.cells, q, t)
    <2> HIDE DEF q
    <2>1. \A z \in Pos : z \notin q .. q + n - 1 => c[z] = b.cells[z]
      BY DEF q
    <2> QED BY <2>1, <1>3, SameOverlay
  <1>7. b.x + p \in 0 .. XMax
    BY <1>1, <1>2, Sizes
  <1>8. Move(Scr(Overlay(c, q, t), b.x + n, b.y), b.x + p, b.y) = Scr(Overlay(c, q, t), b.x + p, b.y)
    BY <1>1, <1>7, MoveIs
  <1>9. <<>> \o t = t /\ b.x + Len(<<>>) + p = b.x + p
    BY <1>1, <1>2, <1>3
  <1> QED BY <1>4, <1>5, <1>6, <1>8, <1>9 DEF DrawGets, Drawn, t

-----------------------------------------------------------------------------
(* The inductive invariant of the console: the screen is what it was when  *)
(* the line was begun, with the prompt and the line written over it.       *)

Prompt == IF editor = "kshell" THEN <<Mark, Blank>> ELSE <<>>

DrawInv ==
  /\ BufInv
  /\ Fresh(begun) /\ line = begun.y /\ x0 = begun.x
  /\ IF editor = "kshell" THEN begun.x = 0 ELSE begun.x + Cap < XMax
  /\ scr = Drawn(begun, Prompt, cmdbuf, ptrpos)

\* The prompt and the line have room in the row.
LEMMA LineFits ==
  ASSUME TextOnly, DrawInv
  PROVE  /\ Prompt \in Seq(Glyphs) /\ Len(Prompt) \in {0, 2}
         /\ begun.x \in Nat /\ begun.x + Len(Prompt) + Cap <= XMax
         /\ Prompt \o String(cmdbuf) \in Seq(Glyphs)
         /\ Len(Prompt \o String(cmdbuf)) = Len(Prompt) + cmdsize
         /\ cmdsize \in 0 .. Cap /\ ptrpos \in 0 .. cmdsize
         /\ String(cmdbuf) \in Seq(Chars) /\ Len(String(cmdbuf)) = cmdsize
  <1>1. Prompt \in Seq(Glyphs) /\ Len(Prompt) \in {0, 2} /\ (Len(Prompt) = IF editor = "kshell" THEN 2 ELSE 0)
    <2>1. CASE editor = "kshell"
      <3>1. Prompt = <<Mark, Blank>>
        BY <2>1 DEF Prompt
      <3>2. <<Mark, Blank>> \in Seq(Glyphs) /\ Len(<<Mark, Blank>>) = 2
        BY DEF Glyphs
      <3> QED BY <3>1, <3>2, <2>1
    <2>2. CASE editor # "kshell"
      <3>1. Prompt = <<>>
        BY <2>2 DEF Prompt
      <3> QED BY <3>1, <2>2
    <2> QED BY <2>1, <2>2
  <1>2. begun.x \in Nat /\ begun.x + Len(Prompt) + Cap <= XMax
    <2>1. begun.x \in Nat
      BY FreshIs, Sizes DEF DrawInv
    <2>2. IF editor = "kshell" THEN begun.x = 0 ELSE begun.x + Cap < XMax
      BY DEF DrawInv
    <2> QED BY <1>1, <2>1, <2>2, Sizes
  <1>3. cmdsize \in 0 .. Cap /\ ptrpos \in 0 .. cmdsize /\ Holds(cmdbuf, cmdsize)
    BY DEF DrawInv, BufInv, LineIn
  <1>4. String(cmdbuf) \in Seq(Chars) /\ Len(String(cmdbuf)) = cmdsize
    BY <1>3, HeldString
  <1>5. String(cmdbuf) \in Seq(Glyphs)
    BY <1>4 DEF Glyphs
  <1>6. /\ Prompt \o String(cmdbuf) \in Seq(Glyphs)
        /\ Len(Prompt \o String(cmdbuf)) = Len(Prompt) + cmdsize
    BY <1>1, <1>4, <1>5, ConcatProperties
  <1> QED BY <1>1, <1>2, <1>3, <1>4, <1>6

LEMMA DrawStart ==
  ASSUME TextOnly, ConsoleInit
  PROVE  DrawInv
  <1>1. BufInv
    BY BufStart DEF ConsoleInit
  <1>2. /\ begun = Scr(Empty, 0, 0) /\ line = 0 /\ x0 = 0
    BY DEF ConsoleInit, clear, Scr
  <1>3. begun.x = 0 /\ begun.y = 0 /\ begun.cells = Empty
    BY <1>2, ScrFields
  <1>4. Fresh(begun)
    <2>1. Empty \in Canvas /\ BlankFrom(Empty, vga_xy(0, 0))
      BY BlankGlyph DEF Empty, Canvas, BlankFrom
    <2>2. 0 \in 0 .. XMax /\ 0 \in 0 .. YMax
      BY Sizes
    <2> QED BY <1>2, <2>1, <2>2 DEF Fresh
  <1>5. LineIn(cmdbuf, cmdsize, ptrpos) /\ cmdsize = 0 /\ ptrpos = 0
    BY <1>1 DEF BufInv, ConsoleInit, Init
  <1>6. CASE editor = "kshell"
    <2>1. clear_line(begun, begun.y) = begun
      BY <1>2, <1>3, <1>4, ClearedIs
    <2>2. DrawShell(begun, begun.y, cmdbuf, ptrpos) = Drawn(begun, <<Mark, Blank>>, cmdbuf, ptrpos)
      BY <1>3, <1>4, <1>5, <2>1, DrawShellIs
    <2>3. scr = DrawShell(begun, begun.y, cmdbuf, ptrpos)
      BY <1>3, <1>5, <1>6 DEF ConsoleInit
    <2> QED BY <1>1, <1>2, <1>3, <1>4, <1>6, <2>2, <2>3 DEF DrawInv, Prompt
  <1>7. CASE editor # "kshell"
    <2>1. Drawn(begun, <<>>, cmdbuf, ptrpos) = begun
      <3>1. String(cmdbuf) \in Seq(Chars) /\ Len(String(cmdbuf)) = 0
        BY <1>5, HeldString, Sizes DEF LineIn
      <3>2. <<>> \o String(cmdbuf) = String(cmdbuf)
        BY <3>1
      <3>3. PICK q \in Nat : q = vga_xy(0, 0)
        BY Placed, Sizes
      <3>4. Overlay(Empty, q, String(cmdbuf)) = Empty
        <4>1. \A p \in Pos : p \notin q .. q + 0 - 1
          BY Located
        <4> QED BY <3>1, <4>1 DEF Overlay, Covered, Empty
      <3>5. 0 + Len(<<>>) + 0 = 0
        OBVIOUS
      <3> QED BY <1>2, <1>3, <1>5, <3>2, <3>3, <3>4, <3>5 DEF Drawn
    <2>2. scr = begun
      BY <1>7 DEF ConsoleInit
    <2>3. begun.x + Cap < XMax
      BY <1>3, Sizes
    <2> QED BY <1>1, <1>2, <1>3, <1>4, <1>7, <2>1, <2>2, <2>3 DEF DrawInv, Prompt
  <1> QED BY <1>6, <1>7

\* The screen of a line, and what it leaves of the screen below it.
LEMMA LineScreen ==
  ASSUME TextOnly, DrawInv
  PROVE  \E c \in Canvas :
           /\ scr = Scr(c, begun.x + Len(Prompt) + ptrpos, begun.y)
           /\ c = Overlay(begun.cells, vga_xy(begun.x, begun.y), Prompt \o String(cmdbuf))
           /\ \A p \in Pos : p \div XLen # begun.y => c[p] = begun.cells[p]
           /\ BlankFrom(c, RowStart(begun.y) + XLen)
  <1> DEFINE q == vga_xy(begun.x, begun.y)
             s == Prompt \o String(cmdbuf)
             c == Overlay(begun.cells, q, s)
  <1>1. /\ Fresh(begun) /\ scr = Scr(c, begun.x + Len(Prompt) + ptrpos, begun.y)
    BY DEF DrawInv, Drawn
  <1>2. /\ begun.cells \in Canvas /\ begun.x \in 0 .. XMax /\ begun.y \in 0 .. YMax
        /\ BlankFrom(begun.cells, q) /\ q \in Pos
    BY <1>1, FreshIs
  <1>3. s \in Seq(Glyphs) /\ Len(s) \in Nat /\ begun.x + Len(s) <= XLen
    <2>1. /\ s \in Seq(Glyphs) /\ Len(s) = Len(Prompt) + cmdsize /\ Len(Prompt) \in Nat
          /\ begun.x + Len(Prompt) + Cap <= XMax /\ cmdsize \in 0 .. Cap /\ begun.x \in Nat
      BY LineFits
    <2> HIDE DEF s
    <2> QED BY <2>1, Sizes
  <1> HIDE DEF s
  <1>4. c \in Canvas
    <2>1. q \in Nat
      BY <1>2, Located
    <2> QED BY <1>2, <1>3, <2>1, OverlayTyped
  <1>5. ASSUME NEW p \in Pos, p \div XLen # begun.y PROVE c[p] = begun.cells[p]
    BY <1>2, <1>3, <1>5, OverlayInRow
  <1>6. ASSUME NEW p \in Pos, p >= RowStart(begun.y) + XLen PROVE c[p] = Blank
    <2>1. q = RowStart(begun.y) + begun.x /\ RowStart(begun.y) \in Nat
      BY <1>2, Placed
    <2>2. p >= q /\ ~(p \in RowStart(begun.y) .. RowStart(begun.y) + XMax)
      BY <2>1, <1>2, <1>6, Sizes, Located
    <2>3. p \div XLen # begun.y
      BY <2>2, <1>2, InRow
    <2> QED BY <1>2, <1>5, <2>2, <2>3 DEF BlankFrom
  <1> HIDE DEF c
  <1>7. /\ \A p \in Pos : p \div XLen # begun.y => c[p] = begun.cells[p]
        /\ BlankFrom(c, RowStart(begun.y) + XLen)
    BY <1>5, <1>6 DEF BlankFrom
  <1> QED BY <1>1, <1>4, <1>7 DEF c, s

\* The screen that a line feed leaves after the line.
LEMMA LineFed ==
  ASSUME TextOnly, DrawInv
  PROVE  Fresh(write_c(scr, LineFeed)) /\ write_c(scr, LineFeed).x = 0
  <1>1. PICK c \in Canvas : /\ scr = Scr(c, begun.x + Len(Prompt) + ptrpos, begun.y)
                            /\ BlankFrom(c, RowStart(begun.y) + XLen)
    BY LineScreen
  <1>2. begun.y \in 0 .. YMax
    BY FreshIs DEF DrawInv
  <1>3. write_c(scr, LineFeed) = newline(scr)
    BY BlankGlyph DEF write_c
  <1> QED BY <1>1, <1>2, <1>3, NewlineFresh

\* A line is begun on a screen that is blank from the cursor on.
LEMMA BeginStep ==
  ASSUME TextOnly, NEW after, Fresh(after), Begin(after),
         BufInv', cmdsize' = 0, ptrpos' = 0, editor' = editor,
         editor = "kshell" => after.x = 0,
         editor # "kshell" => after.x + Cap < XMax
  PROVE  DrawInv'
  <1>1. begun' = after /\ line' = after.y
    BY DEF Begin
  <1>2. LineIn(cmdbuf', 0, 0)
    BY DEF BufInv
  <1>3. CASE editor = "kshell"
    <2>1. after = Scr(after.cells, after.x, after.y)
      BY FreshIs
    <2>2. clear_line(after, after.y) = after
      BY <1>3, <2>1, ClearedIs
    <2>3. DrawShell(after, after.y, cmdbuf', 0) = Drawn(after, <<Mark, Blank>>, cmdbuf', 0)
      BY <1>2, <1>3, <2>2, DrawShellIs
    <2>4. x0' = 0 /\ scr' = DrawShell(after, after.y, cmdbuf', 0)
      BY <1>3 DEF Begin
    <2> QED BY <1>1, <1>3, <2>3, <2>4 DEF DrawInv, Prompt
  <1>4. CASE editor # "kshell"
    <2>1. after = Scr(after.cells, after.x, after.y) /\ after.cells \in Canvas
      BY FreshIs
    <2>2. DrawGets(after, after.x, after.y, cmdbuf', 0) = Drawn(after, <<>>, cmdbuf', 0)
      BY <1>2, <1>4, <2>1, DrawGetsIs
    <2>3. x0' = after.x /\ scr' = DrawGets(after, after.x, after.y, cmdbuf', 0)
      BY <1>4 DEF Begin
    <2> QED BY <1>1, <1>4, <2>2, <2>3 DEF DrawInv, Prompt
  <1> QED BY <1>3, <1>4

\* The keys that edit the line.
LEMMA KeyEdits ==
  ASSUME Careful = TRUE, BufInv, Key
  PROVE  /\ BufInv' /\ editor' = editor
         /\ cmdsize' \in Nat /\ cmdsize \in Nat
         /\ cmdsize' < cmdsize => cmdsize' = cmdsize - 1
  <1>1. cmdsize \in Nat
    BY InRange
  <1>2. BufInv' /\ editor' = editor /\ cmdsize' \in {cmdsize - 1, cmdsize, cmdsize + 1}
    <2>1. CASE Left
      BY <2>1, LeftStep DEF Left
    <2>2. CASE Right
      BY <2>2, RightStep DEF Right
    <2>3. CASE Backspace
      BY <2>3, BackspaceStep
    <2>4. ASSUME NEW c \in Chars, Type(c)
          PROVE  BufInv' /\ editor' = editor /\ cmdsize' \in {cmdsize - 1, cmdsize, cmdsize + 1}
      BY <2>4, TypeStep
    <2> QED BY <2>1, <2>2, <2>3, <2>4 DEF Key
  <1>3. cmdsize' \in Nat
    <2>1. ASSUME NEW n, NEW b, NEW p, LineIn(b, n, p) PROVE n \in Nat
      BY <2>1, Sizes DEF LineIn
    <2>2. LineIn(cmdbuf', cmdsize', ptrpos')
      BY <1>2 DEF BufInv
    <2> QED BY <2>1, <2>2
  <1> QED BY <1>1, <1>2, <1>3

LEMMA KeyStep ==
  ASSUME TextOnly, Careful = TRUE, DrawInv, Key
  PROVE  DrawInv'
  <1>1. /\ BufInv' /\ editor' = editor /\ cmdsize' \in Nat /\ cmdsize \in Nat
        /\ cmdsize' < cmdsize => cmdsize' = cmdsize - 1
    BY KeyEdits DEF DrawInv
  <1>2. Redraw /\ line' = line /\ x0' = x0 /\ begun' = begun /\ Prompt' = Prompt
    BY <1>1 DEF Key, Prompt
  <1>3. Fresh(begun) /\ line = begun.y /\ x0 = begun.x
    BY DEF DrawInv
  <1>4. LineIn(cmdbuf', cmdsize', ptrpos')
    BY <1>1 DEF BufInv
  <1>5. PICK c \in Canvas :
          /\ scr = Scr(c, begun.x + Len(Prompt) + ptrpos, begun.y)
          /\ c = Overlay(begun.cells, vga_xy(begun.x, begun.y), Prompt \o String(cmdbuf))
          /\ \A p \in Pos : p \div XLen # begun.y => c[p] = begun.cells[p]
    BY LineScreen
  <1> SUFFICES scr' = Drawn(begun, Prompt, cmdbuf', ptrpos')
    BY <1>1, <1>2, <1>3 DEF DrawInv
  <1>6. CASE editor = "kshell"
    <2>1. begun.x = 0 /\ Prompt = <<Mark, Blank>>
      BY <1>6 DEF DrawInv, Prompt
    <2>2. clear_line(scr, begun.y) = begun
      BY <1>3, <1>5, <2>1, ClearedIs
    <2>3. DrawShell(scr, begun.y, cmdbuf', ptrpos') = Drawn(begun, <<Mark, Blank>>, cmdbuf', ptrpos')
      BY <1>3, <1>4, <2>1, <2>2, DrawShellIs
    <2>4. scr' = DrawShell(scr, line, cmdbuf', ptrpos')
      BY <1>2, <1>6 DEF Redraw
    <2> QED BY <1>3, <2>1, <2>3, <2>4
  <1>7. CASE editor # "kshell"
    <2> DEFINE q == vga_xy(begun.x, begun.y)
               n == cmdsize'
    <2>1. begun.x + Cap < XMax /\ Prompt = <<>> /\ editor = "k_gets"
      BY <1>7 DEF DrawInv, Prompt, BufInv
    <2>2. /\ String(cmdbuf) \in Seq(Chars) /\ Len(String(cmdbuf)) = cmdsize
          /\ cmdsize \in 0 .. Cap /\ begun.x \in Nat
      BY LineFits
    <2>3. <<>> \o String(cmdbuf) = String(cmdbuf)
      BY <2>2
    <2>4. /\ begun.x \in 0 .. XMax /\ begun.y \in 0 .. YMax /\ q \in Pos /\ q \in Nat
          /\ BlankFrom(begun.cells, q)
      BY <1>3, FreshIs, Located
    <2> HIDE DEF q, n
    <2>5. \A z \in Pos : z \notin q .. q + cmdsize - 1 => c[z] = begun.cells[z]
      BY <1>5, <2>1, <2>2, <2>3 DEF Overlay, Covered, q
    <2>6. CASE cmdsize' < cmdsize
      <3>1. n = cmdsize - 1 /\ n \in Nat
        BY <1>1, <2>6 DEF n
      <3>2. /\ begun.x + n \in 0 .. XMax /\ begun.x + n \in 0 .. XMax - 1
        BY <2>1, <2>2, <3>1, Sizes
      <3>3. vga_xy(begun.x + n, begun.y) = q + n
        <4>1. vga_xy(begun.x + n, begun.y) = RowStart(begun.y) + (begun.x + n)
          BY <2>4, <3>2, Placed
        <4>2. q = RowStart(begun.y) + begun.x /\ RowStart(begun.y) \in Nat
          BY <2>4, Placed DEF q
        <4> QED BY <2>2, <3>1, <4>1, <4>2
      <3>4. Move(scr, begun.x + n, begun.y) = Scr(c, begun.x + n, begun.y)
        BY <1>5, <2>4, <3>2, MoveIs
      <3> DEFINE d == Marked(c, q + n, Blank)
      <3>5. write_c(Scr(c, begun.x + n, begun.y), Blank) = Scr(d, begun.x + n + 1, begun.y)
        BY <2>4, <3>2, <3>3, BlankGlyph, WriteGlyph
      <3>6. d \in Canvas
        BY BlankGlyph DEF Marked, Canvas
      <3>7. ASSUME NEW z \in Pos, z \notin q .. q + n - 1 PROVE d[z] = begun.cells[z]
        <4>1. CASE z = q + n
          <5>1. d[z] = Blank
            BY <4>1 DEF Marked, Canvas
          <5>2. z >= q
            BY <4>1, <2>4, <3>1
          <5> QED BY <5>1, <5>2, <2>4 DEF BlankFrom
        <4>2. CASE z # q + n
          <5>1. z \notin q .. q + cmdsize - 1
            BY <4>2, <3>7, <3>1, <2>4, Located
          <5>2. d[z] = c[z]
            BY <4>2 DEF Marked, Canvas
          <5> QED BY <5>1, <5>2, <2>5
        <4> QED BY <4>1, <4>2
      <3> HIDE DEF d
      <3>8. DrawGets(Scr(d, begun.x + n + 1, begun.y), begun.x, begun.y, cmdbuf', ptrpos')
              = Drawn(begun, <<>>, cmdbuf', ptrpos')
        <4>1. \A z \in Pos : z \notin vga_xy(begun.x, begun.y) .. vga_xy(begun.x, begun.y) + n - 1
                               => d[z] = begun.cells[z]
          BY <3>7 DEF q
        <4>2. LineIn(cmdbuf', n, ptrpos')
          BY <1>4 DEF n
        <4> QED BY <1>3, <2>1, <3>6, <4>1, <4>2, DrawGetsIs
      <3>9. scr' = DrawGets(write_c(Move(scr, begun.x + n, begun.y), Blank),
                            begun.x, begun.y, cmdbuf', ptrpos')
        BY <1>2, <1>3, <2>1, <2>6 DEF Redraw, n
      <3> QED BY <2>1, <3>4, <3>5, <3>8, <3>9
    <2>7. CASE ~(cmdsize' < cmdsize)
      <3>1. n >= cmdsize /\ n \in Nat
        BY <1>1, <2>7 DEF n
      <3>2. \A z \in Pos : z \notin q .. q + n - 1 => c[z] = begun.cells[z]
        <4>1. \A z \in Pos : z \notin q .. q + n - 1 => z \notin q .. q + cmdsize - 1
          BY <3>1, <2>4, <2>2, Located
        <4> QED BY <4>1, <2>5
      <3>3. DrawGets(scr, begun.x, begun.y, cmdbuf', ptrpos') = Drawn(begun, <<>>, cmdbuf', ptrpos')
        <4>1. \A z \in Pos : z \notin vga_xy(begun.x, begun.y) .. vga_xy(begun.x, begun.y) + n - 1
                               => c[z] = begun.cells[z]
          BY <3>2 DEF q
        <4>2. LineIn(cmdbuf', n, ptrpos')
          BY <1>4 DEF n
        <4> QED BY <1>3, <1>5, <2>1, <4>1, <4>2, DrawGetsIs
      <3>4. scr' = DrawGets(scr, begun.x, begun.y, cmdbuf', ptrpos')
        BY <1>2, <1>3, <1>7, <2>7 DEF Redraw
      <3> QED BY <2>1, <3>3, <3>4
    <2> QED BY <2>6, <2>7
  <1> QED BY <1>6, <1>7

LEMMA ExecuteStep ==
  ASSUME TextOnly, Careful = TRUE, DrawInv, NEW out \in Outputs, Execute(out)
  PROVE  DrawInv'
  <1>1. BufInv' /\ cmdsize' = 0 /\ ptrpos' = 0 /\ editor' = editor /\ editor = "kshell"
    BY ShellEnterStep DEF Execute, DrawInv, ShellEnter
  <1>2. PICK s1 : s1 = write_c(scr, LineFeed) /\ Fresh(s1)
    BY LineFed
  <1>3. PICK s2 : s2 = write_s(s1, out) /\ Fresh(s2)
    <2>1. out \in Seq(Chars \cup {Blank, LineFeed})
      BY DEF TextOnly
    <2> QED BY <1>2, <2>1, WriteFresh
  <1>4. PICK after : after = write_c(s2, LineFeed) /\ Fresh(after) /\ after.x = 0
    <2>1. /\ s2.cells \in Canvas /\ s2.x \in 0 .. XMax /\ s2.y \in 0 .. YMax
          /\ s2 = Scr(s2.cells, s2.x, s2.y) /\ BlankFrom(s2.cells, vga_xy(s2.x, s2.y))
      BY <1>3, FreshIs
    <2>2. vga_xy(s2.x, s2.y) = RowStart(s2.y) + s2.x /\ RowStart(s2.y) \in Nat
      BY <2>1, Placed
    <2>3. BlankFrom(s2.cells, RowStart(s2.y) + XLen)
      <3>1. \A p \in Pos : p >= RowStart(s2.y) + XLen => p >= vga_xy(s2.x, s2.y)
        BY <2>1, <2>2, Sizes, Located
      <3> QED BY <2>1, <3>1 DEF BlankFrom
    <2>4. write_c(s2, LineFeed) = newline(s2)
      BY BlankGlyph DEF write_c
    <2> QED BY <2>1, <2>3, <2>4, NewlineFresh
  <1>5. Begin(after)
    BY <1>2, <1>3, <1>4 DEF Execute
  <1> QED BY <1>1, <1>4, <1>5, BeginStep

LEMMA ClsStep ==
  ASSUME TextOnly, Careful = TRUE, DrawInv, Cls
  PROVE  DrawInv'
  <1>1. BufInv' /\ cmdsize' = 0 /\ ptrpos' = 0 /\ editor' = editor /\ editor = "kshell"
    BY ShellEnterStep DEF Cls, DrawInv, ShellEnter
  <1>2. Fresh(clear) /\ clear.x = 0
    <2>1. Empty \in Canvas /\ BlankFrom(Empty, vga_xy(0, 0))
      BY BlankGlyph DEF Empty, Canvas, BlankFrom
    <2>2. 0 \in 0 .. XMax /\ 0 \in 0 .. YMax
      BY Sizes
    <2>3. clear = Scr(Empty, 0, 0)
      BY DEF clear, Scr
    <2> QED BY <2>1, <2>2, <2>3, ScrFields DEF Fresh
  <1>3. Begin(clear)
    BY DEF Cls
  <1> QED BY <1>1, <1>2, <1>3, BeginStep

LEMMA ReturnStep ==
  ASSUME TextOnly, Careful = TRUE, DrawInv, NEW out \in Outputs, Return(out)
  PROVE  DrawInv'
  <1>1. BufInv' /\ cmdsize' = 0 /\ ptrpos' = 0 /\ editor' = editor /\ editor = "k_gets"
    BY GetsEnterStep DEF Return, DrawInv, GetsEnter
  <1>2. PICK s1 : s1 = write_c(scr, LineFeed) /\ Fresh(s1)
    BY LineFed
  <1>3. PICK after : after = write_s(s1, out) /\ Fresh(after)
    <2>1. out \in Seq(Chars \cup {Blank, LineFeed})
      BY DEF TextOnly
    <2> QED BY <1>2, <2>1, WriteFresh
  <1>4. Begin(after) /\ after.x + Cap <= XLen - 2
    BY <1>2, <1>3 DEF Return
  <1>5. after.x + Cap < XMax
    <2>1. after.x \in Nat
      BY <1>3, FreshIs, Sizes
    <2> QED BY <1>4, <2>1, Sizes
  <1> QED BY <1>1, <1>3, <1>4, <1>5, BeginStep

LEMMA DrawStep ==
  ASSUME TextOnly, Careful = TRUE
  PROVE  DrawInv /\ [ConsoleNext]_<<vars, screen>> => DrawInv'
  <1> SUFFICES ASSUME DrawInv, [ConsoleNext]_<<vars, screen>> PROVE DrawInv'
    OBVIOUS
  <1>1. CASE UNCHANGED <<vars, screen>>
    BY <1>1 DEF vars, screen, DrawInv, BufInv, Prompt
  <1> QED BY <1>1, KeyStep, ExecuteStep, ClsStep, ReturnStep DEF ConsoleNext

-----------------------------------------------------------------------------
(* What the invariant says of the rows.                                    *)

LEMMA InvTypeOK == BufInv => TypeOK
  <1> SUFFICES ASSUME BufInv PROVE TypeOK
    OBVIOUS
  <1>1. /\ cmdsize \in 0 .. Cap /\ ptrpos \in 0 .. cmdsize /\ cmdbuf \in [Index -> Bytes]
        /\ editor \in {"kshell", "k_gets"} /\ wild = FALSE
    BY DEF BufInv, LineIn, Holds
  <1>2. ptrpos \in 0 .. Wrap - 1
    BY <1>1, LineEditAssumption
  <1> QED BY <1>1, <1>2 DEF TypeOK, Bytes

RowCells(c, y) == [i \in 1 .. XLen |-> c[RowStart(y) + i - 1]]

LEMMA RowOf ==
  ASSUME NEW c, NEW x, NEW z, NEW y \in 0 .. YMax
  PROVE  Row(Scr(c, x, z), y) = RowCells(c, y)
  <1>1. \A i \in 1 .. XLen : vga_xy(i - 1, y) = RowStart(y) + i - 1
    <2> TAKE i \in 1 .. XLen
    <2>1. i - 1 \in 0 .. XMax
      BY Sizes
    <2>2. vga_xy(i - 1, y) = RowStart(y) + (i - 1) /\ RowStart(y) \in Nat
      BY <2>1, Placed
    <2> QED BY <2>2
  <1> QED BY <1>1, ScrFields DEF Row, RowCells

LEMMA RowShown ==
  ASSUME TextOnly, DrawInv
  PROVE  LineShown
  <1> DEFINE left == IF editor = "kshell" THEN <<Mark, Blank>>
                     ELSE SubSeq(Row(begun, line), 1, x0)
             t == String(cmdbuf)
             shown == left \o t
             o == RowStart(line)
             b == begun.cells
  <1>1. PICK c \in Canvas :
          /\ scr = Scr(c, begun.x + Len(Prompt) + ptrpos, begun.y)
          /\ c = Overlay(begun.cells, vga_xy(begun.x, begun.y), Prompt \o t)
          /\ \A p \in Pos : p \div XLen # begun.y => c[p] = begun.cells[p]
    BY LineScreen
  <1>2. /\ BufInv /\ Fresh(begun) /\ line = begun.y /\ x0 = begun.x
    BY DEF DrawInv
  <1>3. /\ b \in Canvas /\ x0 \in 0 .. XMax /\ line \in 0 .. YMax /\ x0 \in Nat
        /\ begun = Scr(b, x0, line) /\ BlankFrom(b, o + x0) /\ o \in Nat
        /\ vga_xy(begun.x, begun.y) = o + x0 /\ o + XLen <= PosLen
    <2>1. /\ b \in Canvas /\ begun.x \in 0 .. XMax /\ begun.y \in 0 .. YMax
          /\ begun = Scr(b, begun.x, begun.y)
          /\ BlankFrom(b, vga_xy(begun.x, begun.y))
      BY <1>2, FreshIs
    <2>2. /\ vga_xy(begun.x, begun.y) = RowStart(begun.y) + begun.x
          /\ RowStart(begun.y) \in Nat /\ RowStart(begun.y) + XLen <= PosLen
      BY <2>1, Placed
    <2> QED BY <1>2, <2>1, <2>2, Sizes
  <1>4. /\ t \in Seq(Chars) /\ Len(t) = cmdsize /\ cmdsize \in 0 .. Cap /\ ptrpos \in 0 .. cmdsize
        /\ Prompt \in Seq(Glyphs) /\ Len(Prompt) \in {0, 2}
        /\ x0 + Len(Prompt) + Cap <= XMax
        /\ cmdsize \in Nat /\ ptrpos \in Nat
    BY <1>2, LineFits, Sizes
  <1>5. /\ left \in Seq(Glyphs) /\ Len(left) = x0 + Len(Prompt)
        /\ \A i \in 1 .. Len(left) : left[i] = IF i <= x0 THEN b[o + i - 1] ELSE Prompt[i - x0]
    <2>1. CASE editor = "kshell"
      <3>1. x0 = 0 /\ Prompt = <<Mark, Blank>> /\ left = Prompt
        BY <1>2, <2>1 DEF DrawInv, Prompt
      <3>2. Len(Prompt) = 2 /\ Prompt \in Seq(Glyphs)
        BY <3>1, <1>4
      <3> HIDE DEF left
      <3> QED BY <3>1, <3>2
    <2>2. CASE editor # "kshell"
      <3>1. Prompt = <<>> /\ left = SubSeq(Row(begun, line), 1, x0)
        BY <2>2 DEF Prompt
      <3>2. Row(begun, line) = [i \in 1 .. XLen |-> b[o + i - 1]]
        BY <1>3, RowOf DEF RowCells
      <3>3. \A i \in 1 .. XLen : o + i - 1 \in Pos
        BY <1>3, Sizes DEF Pos
      <3>4. Row(begun, line) \in [1 .. XLen -> Glyphs]
        BY <1>3, <3>2, <3>3 DEF Canvas
      <3>5. Row(begun, line) \in Seq(Glyphs) /\ Len(Row(begun, line)) = XLen
        BY <3>4, Sizes
      <3>6. x0 <= XLen
        BY <1>3, Sizes
      <3>7. /\ left \in Seq(Glyphs) /\ Len(left) = x0
            /\ \A i \in 1 .. x0 : left[i] = Row(begun, line)[i]
        <4> HIDE DEF left
        <4>1. 1 \in 1 .. x0 + 1 /\ x0 \in 1 - 1 .. XLen
          BY <1>3, <3>6, Sizes
        <4>2. SubSeq(Row(begun, line), 1, x0) = [i \in 1 .. x0 |-> Row(begun, line)[i]]
          <5> DEFINE R == Row(begun, line)
          <5>1. SubSeq(R, 1, x0) = [i \in 1 .. (1 + x0 - 1) |-> R[i + 1 - 1]]
            BY <3>5, <1>3
          <5>2. 1 + x0 - 1 = x0 /\ \A i \in 1 .. x0 : i + 1 - 1 = i
            BY <1>3
          <5> HIDE DEF R
          <5> QED BY <5>1, <5>2
        <4>3. \A i \in 1 .. x0 : Row(begun, line)[i] \in Glyphs
          BY <3>4, <3>6, <1>3, Sizes
        <4>4. left \in [1 .. x0 -> Glyphs]
          BY <3>1, <4>2, <4>3
        <4>5. left \in Seq(Glyphs) /\ Len(left) = x0
          BY <4>4, <1>3
        <4>6. \A i \in 1 .. x0 : left[i] = Row(begun, line)[i]
          BY <3>1, <4>2
        <4> QED BY <4>5, <4>6
      <3>8. ASSUME NEW i \in 1 .. x0 PROVE left[i] = b[o + i - 1]
        <4>1. i \in 1 .. XLen
          BY <3>6, <1>3, Sizes
        <4>2. Row(begun, line)[i] = b[o + i - 1]
          BY <3>2, <4>1
        <4> QED BY <3>7, <4>2
      <3> HIDE DEF left
      <3> QED BY <1>3, <3>1, <3>7, <3>8
    <2> QED BY <2>1, <2>2
  <1> HIDE DEF left, t
  <1>6. /\ Len(shown) = x0 + Len(Prompt) + cmdsize
        /\ \A i \in 1 .. Len(shown) :
             shown[i] = IF i <= Len(left) THEN left[i] ELSE t[i - Len(left)]
    <2>1. t \in Seq(Glyphs)
      BY <1>4 DEF Glyphs
    <2>2. /\ Len(shown) = Len(left) + Len(t)
          /\ \A i \in 1 .. Len(left) + Len(t) :
               shown[i] = IF i <= Len(left) THEN left[i] ELSE t[i - Len(left)]
      BY <1>5, <2>1, ConcatProperties
    <2> QED BY <1>4, <1>5, <2>2
  <1>7. /\ Len(Prompt \o t) = Len(Prompt) + cmdsize
        /\ \A i \in 1 .. Len(Prompt) + cmdsize :
             (Prompt \o t)[i] = IF i <= Len(Prompt) THEN Prompt[i] ELSE t[i - Len(Prompt)]
    <2>1. t \in Seq(Glyphs)
      BY <1>4 DEF Glyphs
    <2> QED BY <1>4, <2>1, ConcatProperties
  <1> HIDE DEF shown, b, o
  <1>8. ASSUME NEW i \in 1 .. XLen
        PROVE  c[o + i - 1] = IF i <= Len(shown) THEN shown[i] ELSE Blank
    <2> DEFINE z == o + i - 1
               k == Len(Prompt) + cmdsize
    <2>1. z \in Pos /\ z \in Nat /\ z = o + i - 1 /\ k \in Nat /\ i \in Nat
      BY <1>3, <1>4, Sizes DEF Pos
    <2>2. c = [p \in Pos |-> IF p \in o + x0 .. o + x0 + k - 1
                             THEN (Prompt \o t)[p - (o + x0) + 1] ELSE b[p]]
      BY <1>1, <1>3, <1>7 DEF Overlay, Covered, b
    <2>3. c[z] = IF z \in o + x0 .. o + x0 + k - 1 THEN (Prompt \o t)[z - (o + x0) + 1] ELSE b[z]
      BY <2>1, <2>2
    <2>4. CASE i <= x0
      <3>1. ~(z \in o + x0 .. o + x0 + k - 1) /\ i <= Len(shown) /\ i <= Len(left) /\ i \in 1 .. Len(left)
            /\ i \in 1 .. Len(shown)
        BY <2>1, <2>4, <1>3, <1>4, <1>5, <1>6
      <3>2. shown[i] = left[i] /\ left[i] = b[o + i - 1]
        BY <3>1, <2>4, <1>5, <1>6
      <3> QED BY <3>1, <3>2, <2>3
    <2>5. CASE x0 < i /\ i <= x0 + k
      <3> DEFINE j == i - x0
      <3>1. /\ z \in o + x0 .. o + x0 + k - 1 /\ z - (o + x0) + 1 = j
            /\ i \in 1 .. Len(shown) /\ i <= Len(shown) /\ j \in 1 .. k
        BY <2>1, <2>5, <1>3, <1>4, <1>6
      <3>2. c[z] = (Prompt \o t)[j]
        BY <3>1, <2>3
      <3>3. (Prompt \o t)[j] = IF j <= Len(Prompt) THEN Prompt[j] ELSE t[j - Len(Prompt)]
        <4> HIDE DEF j
        <4> QED BY <3>1, <1>7
      <3>4. CASE j <= Len(Prompt)
        <4>1. i <= Len(left) /\ i \in 1 .. Len(left) /\ ~(i <= x0)
          BY <3>4, <2>5, <2>1, <1>3, <1>4, <1>5
        <4>2. shown[i] = left[i] /\ left[i] = Prompt[i - x0]
          BY <3>1, <4>1, <1>5, <1>6
        <4> QED BY <3>1, <3>2, <3>3, <3>4, <4>2
      <3>5. CASE ~(j <= Len(Prompt))
        <4>1. ~(i <= Len(left)) /\ i - Len(left) = j - Len(Prompt)
          BY <3>5, <2>5, <2>1, <1>3, <1>4, <1>5
        <4>2. shown[i] = t[i - Len(left)]
          BY <3>1, <4>1, <1>6
        <4> HIDE DEF j
        <4> QED BY <3>1, <3>2, <3>3, <3>5, <4>1, <4>2
      <3> QED BY <3>4, <3>5
    <2>6. CASE i > x0 + k
      <3>1. ~(z \in o + x0 .. o + x0 + k - 1) /\ ~(i <= Len(shown)) /\ z >= o + x0
        BY <2>1, <2>6, <1>3, <1>4, <1>6
      <3>2. b[z] = Blank
        BY <3>1, <2>1, <1>3 DEF BlankFrom
      <3> QED BY <3>1, <3>2, <2>3
    <2> QED BY <2>1, <2>4, <2>5, <2>6, <1>3
  <1>9. Row(scr, line) = [i \in 1 .. XLen |-> IF i <= Len(shown) THEN shown[i] ELSE Blank]
    <2>1. Row(scr, line) = RowCells(c, line)
      BY <1>1, <1>3, RowOf
    <2> QED BY <2>1, <1>8 DEF RowCells, o
  <1>10. scr.x = Len(left) + ptrpos /\ scr.y = line
    <2>1. scr.x = begun.x + Len(Prompt) + ptrpos /\ scr.y = begun.y
      BY <1>1, ScrFields
    <2> QED BY <2>1, <1>2, <1>5
  <1>11. ASSUME NEW y \in 0 .. YMax, y # line PROVE Row(scr, y) = Row(begun, y)
    <2>1. ASSUME NEW i \in 1 .. XLen PROVE c[RowStart(y) + i - 1] = b[RowStart(y) + i - 1]
      <3>1. RowStart(y) \in Nat /\ RowStart(y) + XLen <= PosLen
        <4>1. 0 \in 0 .. XMax
          BY Sizes
        <4> QED BY <4>1, Placed
      <3>2. PICK p \in Pos : p = RowStart(y) + i - 1
        <4>1. RowStart(y) + i - 1 \in Pos
          BY <3>1, Sizes DEF Pos
        <4> QED BY <4>1
      <3>3. p \in RowStart(y) .. RowStart(y) + XMax
        BY <3>1, <3>2, Sizes
      <3>4. p \div XLen = y
        BY <3>3, InRow
      <3> QED BY <3>2, <3>4, <1>1, <1>2, <1>11 DEF b
    <2>2. Row(scr, y) = RowCells(c, y)
      BY <1>1, RowOf
    <2>3. Row(begun, y) = RowCells(b, y)
      BY <1>3, RowOf
    <2> QED BY <2>1, <2>2, <2>3 DEF RowCells
  <1>12. TypeOK /\ Len(t) = cmdsize /\ cmdbuf[-1] = Other
    BY <1>2, <1>4, InvTypeOK DEF BufInv, LineIn, Holds
  <1> QED BY <1>9, <1>10, <1>11, <1>12 DEF LineShown, shown, left, t

\* Whatever is typed, deleted, entered and printed, the screen shows the line.
THEOREM ShowsLine ==
  ASSUME Careful = TRUE, TextOnly
  PROVE  ConsoleSpec => []LineShown
  <1>1. ConsoleInit => DrawInv
    BY DrawStart
  <1>2. DrawInv /\ [ConsoleNext]_<<vars, screen>> => DrawInv'
    BY DrawStep
  <1>3. DrawInv => LineShown
    BY RowShown
  <1> QED BY <1>1, <1>2, <1>3, PTL DEF ConsoleSpec

-----------------------------------------------------------------------------
(* What is seen of a string.                                               *)

Inked(t, c) == IF c \in {Blank, LineFeed} THEN t ELSE Append(t, c)

\* k[i] is what is seen of the first i characters of s.
Seen(k, n, s) == k = [i \in 0 .. n |-> IF i = 0 THEN <<>> ELSE Inked(k[i - 1], s[i])]

LEMMA SeenExists ==
  ASSUME NEW n \in Nat, NEW s
  PROVE  \E k : Seen(k, n, s)
  <1> DEFINE T == {j \in 0 .. n : \E k : Seen(k, j, s)}
  <1>1. 0 \in T
    <2> DEFINE k == [i \in 0 .. 0 |-> <<>>]
    <2>1. Seen(k, 0, s)
      BY DEF Seen
    <2> HIDE DEF k
    <2> QED BY <2>1
  <1>2. ASSUME NEW j \in 0 .. n - 1, j \in T PROVE j + 1 \in T
    <2>1. PICK k : Seen(k, j, s)
      BY <1>2
    <2> DEFINE m == [i \in 0 .. j + 1 |-> IF i = j + 1 THEN Inked(k[j], s[j + 1]) ELSE k[i]]
    <2>2. ASSUME NEW i \in 0 .. j + 1
          PROVE  m[i] = IF i = 0 THEN <<>> ELSE Inked(m[i - 1], s[i])
      <3>1. CASE i = j + 1
        <4>1. i # 0 /\ i - 1 = j /\ j \in 0 .. j + 1 /\ j # j + 1
          BY <3>1
        <4>2. m[i] = Inked(k[j], s[j + 1]) /\ m[i - 1] = k[j]
          BY <3>1, <4>1
        <4> HIDE DEF m
        <4> QED BY <3>1, <4>1, <4>2
      <3>2. CASE i # j + 1
        <4>1. i \in 0 .. j /\ (i # 0 => i - 1 \in 0 .. j + 1 /\ i - 1 # j + 1)
          BY <3>2
        <4>2. m[i] = k[i] /\ (i # 0 => m[i - 1] = k[i - 1])
          BY <3>2, <4>1
        <4>3. k[i] = IF i = 0 THEN <<>> ELSE Inked(k[i - 1], s[i])
          BY <2>1, <4>1 DEF Seen
        <4> HIDE DEF m
        <4> QED BY <4>2, <4>3
      <3> QED BY <3>1, <3>2
    <2>3. m = [i \in 0 .. j + 1 |-> m[i]]
      OBVIOUS
    <2> HIDE DEF m
    <2>4. Seen(m, j + 1, s)
      BY <2>2, <2>3 DEF Seen
    <2> QED BY <2>4
  <1> HIDE DEF T
  <1>3. \A j \in 0 .. n : j \in T
    BY <1>1, <1>2, Climb
  <1>4. n \in T
    BY <1>3
  <1> QED BY <1>4 DEF T

LEMMA VisibleSeen ==
  ASSUME NEW S, NEW s \in Seq(S)
  PROVE  \E k : /\ k[0] = <<>> /\ \A i \in 1 .. Len(s) : k[i] = Inked(k[i - 1], s[i])
                /\ Visible(s) = k[Len(s)]
                /\ \A i \in 0 .. Len(s) : k[i] \in Seq(S)
  <1> DEFINE k == CHOOSE k : k = [i \in 0 .. Len(s) |->
                    IF i = 0 THEN <<>>
                    ELSE IF s[i] \in {Blank, LineFeed} THEN k[i - 1] ELSE Append(k[i - 1], s[i])]
  <1>0. Len(s) \in Nat /\ \A i \in 1 .. Len(s) : s[i] \in S
    OBVIOUS
  <1>1. Visible(s) = k[Len(s)]
    BY Zenon DEF Visible
  <1>2. \E m : m = [i \in 0 .. Len(s) |->
                     IF i = 0 THEN <<>>
                     ELSE IF s[i] \in {Blank, LineFeed} THEN m[i - 1] ELSE Append(m[i - 1], s[i])]
    <2>1. \E m : Seen(m, Len(s), s)
      BY <1>0, SeenExists
    <2> QED BY <2>1, Zenon DEF Seen, Inked
  <1>3. k = [i \in 0 .. Len(s) |->
               IF i = 0 THEN <<>>
               ELSE IF s[i] \in {Blank, LineFeed} THEN k[i - 1] ELSE Append(k[i - 1], s[i])]
    BY <1>2, Zenon
  <1> HIDE DEF k
  <1>4. k[0] = <<>>
    <2>1. 0 \in 0 .. Len(s)
      BY <1>0
    <2> QED BY <1>3, <2>1
  <1>5. ASSUME NEW i \in 1 .. Len(s) PROVE k[i] = Inked(k[i - 1], s[i])
    <2>1. i \in 0 .. Len(s) /\ i # 0
      BY <1>0
    <2> QED BY <1>3, <2>1 DEF Inked
  <1> DEFINE T == {i \in 0 .. Len(s) : k[i] \in Seq(S)}
  <1>6. \A i \in 0 .. Len(s) : i \in T
    <2>1. 0 \in T
      <3>1. <<>> \in Seq(S)
        OBVIOUS
      <3>2. 0 \in 0 .. Len(s)
        BY <1>0
      <3>3. k[0] \in Seq(S)
        BY <1>4, <3>1
      <3> QED BY <3>2, <3>3
    <2>2. ASSUME NEW i \in 0 .. Len(s) - 1, i \in T PROVE i + 1 \in T
      <3>1. i + 1 \in 1 .. Len(s) /\ i + 1 - 1 = i /\ i + 1 \in 0 .. Len(s)
        BY <1>0
      <3>2. k[i + 1] = Inked(k[i], s[i + 1]) /\ s[i + 1] \in S /\ k[i] \in Seq(S)
        BY <1>0, <1>5, <2>2, <3>1
      <3>3. k[i + 1] \in Seq(S)
        BY <3>2 DEF Inked
      <3> QED BY <3>1, <3>3
    <2> HIDE DEF T
    <2> QED BY <1>0, <2>1, <2>2, Climb
  <1> QED BY <1>1, <1>4, <1>5, <1>6

\* Of two strings one after the other, what is seen of each.
LEMMA VisibleConcat ==
  ASSUME NEW S, NEW s \in Seq(S), NEW t \in Seq(S)
  PROVE  Visible(s \o t) = Visible(s) \o Visible(t)
  <1> DEFINE u == s \o t
             n == Len(s)
             l == Len(t)
  <1>0. /\ n \in Nat /\ l \in Nat /\ u \in Seq(S) /\ Len(u) = n + l
        /\ \A i \in 1 .. n : u[i] = s[i]
        /\ \A i \in 1 .. l : u[n + i] = t[i]
    <2>1. /\ n \in Nat /\ l \in Nat /\ u \in Seq(S) /\ Len(u) = n + l
          /\ \A i \in 1 .. n + l : u[i] = IF i <= n THEN s[i] ELSE t[i - n]
      BY ConcatProperties
    <2> HIDE DEF u
    <2>2. ASSUME NEW i \in 1 .. l PROVE u[n + i] = t[i]
      <3>1. n + i \in 1 .. n + l /\ ~(n + i <= n) /\ (n + i) - n = i
        BY <2>1
      <3> QED BY <2>1, <3>1
    <2> QED BY <2>1, <2>2
  <1> HIDE DEF u
  <1>1. PICK k : /\ k[0] = <<>> /\ \A i \in 1 .. Len(u) : k[i] = Inked(k[i - 1], u[i])
                 /\ Visible(u) = k[Len(u)]
    BY <1>0, VisibleSeen
  <1>2. PICK a : /\ a[0] = <<>> /\ \A i \in 1 .. n : a[i] = Inked(a[i - 1], s[i])
                 /\ Visible(s) = a[n]
                 /\ \A i \in 0 .. n : a[i] \in Seq(S)
    BY VisibleSeen
  <1>3. PICK b : /\ b[0] = <<>> /\ \A i \in 1 .. l : b[i] = Inked(b[i - 1], t[i])
                 /\ Visible(t) = b[l]
                 /\ \A i \in 0 .. l : b[i] \in Seq(S)
    BY VisibleSeen
  <1>4. k[n] = Visible(s)
    <2> DEFINE T == {i \in 0 .. n : k[i] = a[i]}
    <2>1. 0 \in T
      BY <1>0, <1>1, <1>2
    <2>2. ASSUME NEW i \in 0 .. n - 1, i \in T PROVE i + 1 \in T
      <3>1. i + 1 \in 1 .. n /\ i + 1 \in 1 .. Len(u) /\ i + 1 - 1 = i /\ i + 1 \in 0 .. n
        BY <1>0
      <3>2. k[i + 1] = Inked(k[i], u[i + 1]) /\ a[i + 1] = Inked(a[i], s[i + 1])
        BY <1>1, <1>2, <3>1
      <3>3. u[i + 1] = s[i + 1] /\ k[i] = a[i]
        BY <1>0, <2>2, <3>1
      <3> QED BY <3>1, <3>2, <3>3
    <2> HIDE DEF T
    <2>3. \A i \in 0 .. n : i \in T
      BY <1>0, <2>1, <2>2, Climb
    <2>4. n \in T
      BY <1>0, <2>3
    <2> QED BY <2>4, <1>2 DEF T
  <1>5. Visible(s) \in Seq(S)
    BY <1>0, <1>2
  <1>6. k[n + l] = Visible(s) \o b[l]
    <2> DEFINE T == {i \in 0 .. l : k[n + i] = Visible(s) \o b[i]}
    <2>1. 0 \in T
      <3>1. Visible(s) \o <<>> = Visible(s) /\ n + 0 = n /\ 0 \in 0 .. l
        BY <1>0, <1>5
      <3> QED BY <1>3, <1>4, <3>1
    <2>2. ASSUME NEW i \in 0 .. l - 1, i \in T PROVE i + 1 \in T
      <3>1. /\ i + 1 \in 1 .. l /\ n + (i + 1) \in 1 .. Len(u) /\ n + (i + 1) - 1 = n + i
            /\ i + 1 \in 0 .. l /\ i \in 0 .. l /\ i + 1 - 1 = i
        BY <1>0
      <3>2. /\ k[n + (i + 1)] = Inked(k[n + i], u[n + (i + 1)])
            /\ b[i + 1] = Inked(b[i], t[i + 1]) /\ u[n + (i + 1)] = t[i + 1]
            /\ k[n + i] = Visible(s) \o b[i] /\ b[i] \in Seq(S) /\ t[i + 1] \in S
        <4>1. k[n + (i + 1)] = Inked(k[n + i], u[n + (i + 1)])
          BY <1>1, <3>1, SMTT(30)
        <4>2. b[i + 1] = Inked(b[i], t[i + 1]) /\ b[i] \in Seq(S)
          BY <1>3, <3>1
        <4>3. u[n + (i + 1)] = t[i + 1] /\ t[i + 1] \in S
          BY <1>0, <3>1
        <4>4. k[n + i] = Visible(s) \o b[i]
          BY <2>2
        <4> QED BY <4>1, <4>2, <4>3, <4>4
      <3>3. ASSUME NEW x \in Seq(S), NEW y \in Seq(S), NEW e \in S
            PROVE  Inked(x \o y, e) = x \o Inked(y, e)
        <4>1. Append(x \o y, e) = x \o Append(y, e)
          <5>1. x \o y \in Seq(S) /\ <<e>> \in Seq(S)
            BY ConcatProperties
          <5>2. Append(x \o y, e) = (x \o y) \o <<e>> /\ Append(y, e) = y \o <<e>>
            BY <5>1, AppendIsConcat
          <5>3. (x \o y) \o <<e>> = x \o (y \o <<e>>)
            <6>1. PICK z \in Seq(S) : z = <<e>>
              BY <5>1
            <6>2. (x \o y) \o z = x \o (y \o z)
              BY ConcatAssociative, SMTT(30)
            <6> QED BY <6>1, <6>2
          <5> QED BY <5>2, <5>3
        <4> QED BY <4>1 DEF Inked
      <3>4. k[n + (i + 1)] = Visible(s) \o b[i + 1]
        <4>1. PICK x \in Seq(S), y \in Seq(S), e \in S : x = Visible(s) /\ y = b[i] /\ e = t[i + 1]
          BY <1>5, <3>2
        <4>2. Inked(x \o y, e) = x \o Inked(y, e)
          BY <3>3
        <4> QED BY <3>2, <4>1, <4>2
      <3> QED BY <3>1, <3>4
    <2> HIDE DEF T
    <2>3. \A i \in 0 .. l : i \in T
      BY <1>0, <2>1, <2>2, Climb
    <2>4. l \in T
      BY <1>0, <2>3
    <2> QED BY <2>4 DEF T
  <1> QED BY <1>0, <1>1, <1>3, <1>6 DEF u

LEMMA VisibleTyped ==
  ASSUME NEW S, NEW s \in Seq(S)
  PROVE  Visible(s) \in Seq(S)
  <1>1. Len(s) \in 0 .. Len(s)
    OBVIOUS
  <1> QED BY <1>1, VisibleSeen

LEMMA VisibleOne ==
  ASSUME NEW c
  PROVE  Visible(<<c>>) = Inked(<<>>, c)
  <1>1. <<c>> \in Seq({c}) /\ Len(<<c>>) = 1 /\ <<c>>[1] = c
    OBVIOUS
  <1>2. PICK k : /\ k[0] = <<>> /\ \A i \in 1 .. 1 : k[i] = Inked(k[i - 1], <<c>>[i])
                 /\ Visible(<<c>>) = k[1]
    BY <1>1, VisibleSeen
  <1>3. k[1] = Inked(k[1 - 1], <<c>>[1])
    BY <1>2
  <1> QED BY <1>1, <1>2, <1>3

LEMMA VisibleBlanks ==
  ASSUME NEW S, NEW s \in Seq(S), \A i \in 1 .. Len(s) : s[i] = Blank
  PROVE  Visible(s) = <<>>
  <1>1. PICK k : /\ k[0] = <<>> /\ \A i \in 1 .. Len(s) : k[i] = Inked(k[i - 1], s[i])
                 /\ Visible(s) = k[Len(s)]
    BY VisibleSeen
  <1> DEFINE T == {i \in 0 .. Len(s) : k[i] = <<>>}
  <1>2. Len(s) \in Nat
    OBVIOUS
  <1>3. 0 \in T
    BY <1>1, <1>2
  <1>4. ASSUME NEW i \in 0 .. Len(s) - 1, i \in T PROVE i + 1 \in T
    <2>1. i + 1 \in 1 .. Len(s) /\ i + 1 - 1 = i /\ i + 1 \in 0 .. Len(s)
      BY <1>2
    <2>2. k[i + 1] = Inked(k[i], Blank)
      BY <1>1, <2>1
    <2> QED BY <1>4, <2>1, <2>2 DEF Inked
  <1> HIDE DEF T
  <1>5. \A i \in 0 .. Len(s) : i \in T
    BY <1>2, <1>3, <1>4, Climb
  <1>6. Len(s) \in T
    BY <1>2, <1>5
  <1> QED BY <1>1, <1>6 DEF T

-----------------------------------------------------------------------------
(* What is seen of the screen.                                             *)

\* n cells from position a.
Part(c, a, n) == [i \in 1 .. n |-> c[a + i - 1]]

ShownCells(c) == Visible(Part(c, 0, PosLen))

LEMMA ShownIs ==
  ASSUME NEW c, NEW x, NEW y
  PROVE  Shown(Scr(c, x, y)) = ShownCells(c)
  <1>1. \A i \in 1 .. PosLen : i - 1 = 0 + i - 1
    BY Sizes
  <1>2. [i \in 1 .. PosLen |-> c[i - 1]] = Part(c, 0, PosLen)
    BY <1>1 DEF Part
  <1>3. Scr(c, x, y).cells = c
    BY ScrFields
  <1> QED BY <1>2, <1>3 DEF Shown, ShownCells

LEMMA PartTyped ==
  ASSUME NEW c \in Canvas, NEW a \in Nat, NEW n \in Nat, a + n <= PosLen
  PROVE  /\ Part(c, a, n) \in Seq(Glyphs) /\ Len(Part(c, a, n)) = n
         /\ \A i \in 1 .. n : Part(c, a, n)[i] = c[a + i - 1]
         /\ \A i \in 1 .. n : a + i - 1 \in Pos
  <1>1. \A i \in 1 .. n : a + i - 1 \in Pos
    BY Sizes DEF Pos
  <1>2. Part(c, a, n) \in [1 .. n -> Glyphs]
    BY <1>1 DEF Part, Canvas
  <1>3. \A i \in 1 .. n : Part(c, a, n)[i] = c[a + i - 1]
    BY DEF Part
  <1> QED BY <1>1, <1>2, <1>3

LEMMA PartConcat ==
  ASSUME NEW c \in Canvas, NEW a \in Nat, NEW n \in Nat, NEW m \in Nat, a + n + m <= PosLen
  PROVE  Part(c, a, n + m) = Part(c, a, n) \o Part(c, a + n, m)
  <1> DEFINE s == Part(c, a, n)
             t == Part(c, a + n, m)
             u == Part(c, a, n + m)
  <1>0. /\ a + n \in Nat /\ n + m \in Nat /\ a + n <= PosLen /\ (a + n) + m <= PosLen
        /\ a + (n + m) <= PosLen
    BY Sizes
  <1>1. /\ s \in Seq(Glyphs) /\ Len(s) = n /\ \A i \in 1 .. n : s[i] = c[a + i - 1]
    BY <1>0, PartTyped
  <1>2. /\ t \in Seq(Glyphs) /\ Len(t) = m /\ \A i \in 1 .. m : t[i] = c[(a + n) + i - 1]
    BY <1>0, PartTyped
  <1>3. /\ u \in Seq(Glyphs) /\ Len(u) = n + m /\ \A i \in 1 .. n + m : u[i] = c[a + i - 1]
    BY <1>0, PartTyped
  <1> HIDE DEF s, t, u
  <1>4. /\ s \o t \in Seq(Glyphs) /\ Len(s \o t) = n + m
        /\ \A i \in 1 .. n + m : (s \o t)[i] = IF i <= n THEN s[i] ELSE t[i - n]
    <2>1. s \in Seq(Glyphs) /\ t \in Seq(Glyphs) /\ Len(s) = n /\ Len(t) = m
      BY <1>1, <1>2
    <2> QED BY <2>1, ConcatProperties
  <1>5. ASSUME NEW i \in 1 .. n + m PROVE u[i] = (s \o t)[i]
    <2>1. CASE i <= n
      <3>1. i \in 1 .. n
        BY <2>1
      <3> QED BY <2>1, <3>1, <1>1, <1>3, <1>4
    <2>2. CASE ~(i <= n)
      <3>1. i - n \in 1 .. m /\ (a + n) + (i - n) - 1 = a + i - 1
        BY <2>2
      <3>2. t[i - n] = c[a + i - 1]
        BY <3>1, <1>2
      <3> QED BY <2>2, <3>2, <1>3, <1>4
    <2> QED BY <2>1, <2>2
  <1>6. u = s \o t
    BY <1>3, <1>4, <1>5, SeqEqual
  <1> QED BY <1>6 DEF s, t, u

\* The blank end of the screen is not seen.
LEMMA ShownUpTo ==
  ASSUME NEW c \in Canvas, NEW q \in 0 .. PosLen, BlankFrom(c, q)
  PROVE  ShownCells(c) = Visible(Part(c, 0, q)) /\ Visible(Part(c, 0, q)) \in Seq(Glyphs)
  <1>0. q \in Nat /\ PosLen - q \in Nat /\ 0 + q <= PosLen /\ q + (PosLen - q) = PosLen
        /\ 0 + q + (PosLen - q) <= PosLen /\ 0 + q = q /\ q + (PosLen - q) <= PosLen
    BY Sizes
  <1> DEFINE m == PosLen - q
  <1>1. Part(c, 0, PosLen) = Part(c, 0, q) \o Part(c, q, m)
    <2>1. Part(c, 0, q + m) = Part(c, 0, q) \o Part(c, 0 + q, m)
      <3>1. 0 \in Nat /\ q \in Nat /\ m \in Nat /\ 0 + q + m <= PosLen
        BY <1>0
      <3> HIDE DEF m
      <3> QED BY <3>1, PartConcat
    <2> QED BY <2>1, <1>0
  <1>2. Part(c, 0, q) \in Seq(Glyphs)
    BY <1>0, PartTyped
  <1>3. /\ Part(c, q, m) \in Seq(Glyphs) /\ Len(Part(c, q, m)) = m
        /\ \A i \in 1 .. m : Part(c, q, m)[i] = c[q + i - 1]
        /\ \A i \in 1 .. m : q + i - 1 \in Pos
    BY <1>0, PartTyped
  <1>4. \A i \in 1 .. m : Part(c, q, m)[i] = Blank
    <2> TAKE i \in 1 .. m
    <2>1. q + i - 1 \in Pos /\ q + i - 1 >= q
      BY <1>0, <1>3
    <2>2. c[q + i - 1] = Blank
      BY <2>1 DEF BlankFrom
    <2> QED BY <2>2, <1>3
  <1>5. Visible(Part(c, q, m)) = <<>>
    BY <1>3, <1>4, VisibleBlanks
  <1>6. Visible(Part(c, 0, q)) \in Seq(Glyphs)
    BY <1>2, VisibleTyped
  <1>7. ShownCells(c) = Visible(Part(c, 0, q)) \o <<>>
    BY <1>1, <1>2, <1>3, <1>5, VisibleConcat DEF ShownCells
  <1> QED BY <1>6, <1>7

\* Writing at the end adds what is seen of the string.
LEMMA ShownOverlay ==
  ASSUME NEW c \in Canvas, NEW s \in Seq(Glyphs), NEW q \in Nat,
         q + Len(s) <= PosLen, BlankFrom(c, q)
  PROVE  ShownCells(Overlay(c, q, s)) = ShownCells(c) \o Visible(s)
  <1> DEFINE n == Len(s)
             d == Overlay(c, q, s)
  <1>0. n \in Nat /\ q + n \in 0 .. PosLen /\ q \in 0 .. PosLen /\ 0 + q + n <= PosLen
        /\ 0 + q <= PosLen /\ 0 + q = q /\ q + n <= PosLen
    BY Sizes
  <1>1. d \in Canvas
    BY OverlayTyped
  <1>2. \A p \in Pos : d[p] = IF p \in q .. q + n - 1 THEN s[p - q + 1] ELSE c[p]
    BY DEF Overlay, Covered
  <1> HIDE DEF d
  <1>3. BlankFrom(d, q + n)
    <2>1. ASSUME NEW p \in Pos, p >= q + n PROVE d[p] = Blank
      <3>1. p \notin q .. q + n - 1 /\ p >= q
        BY <2>1, <1>0, Located
      <3> QED BY <3>1, <1>2 DEF BlankFrom
    <2> QED BY <2>1 DEF BlankFrom
  <1>4. Part(d, 0, q) = Part(c, 0, q)
    <2>1. ASSUME NEW i \in 1 .. q PROVE d[0 + i - 1] = c[0 + i - 1]
      <3>1. 0 + i - 1 \in Pos
        BY <1>0, Sizes DEF Pos
      <3>2. 0 + i - 1 \notin q .. q + n - 1
        BY <1>0
      <3> QED BY <3>1, <3>2, <1>2
    <2> QED BY <2>1 DEF Part
  <1>5. Part(d, q, n) = s
    <2>1. /\ Part(d, q, n) \in Seq(Glyphs) /\ Len(Part(d, q, n)) = n
          /\ \A i \in 1 .. n : Part(d, q, n)[i] = d[q + i - 1]
          /\ \A i \in 1 .. n : q + i - 1 \in Pos
      BY <1>0, <1>1, PartTyped
    <2>2. ASSUME NEW i \in 1 .. n PROVE Part(d, q, n)[i] = s[i]
      <3>1. q + i - 1 \in q .. q + n - 1 /\ (q + i - 1) - q + 1 = i
        BY <1>0
      <3>2. d[q + i - 1] = s[(q + i - 1) - q + 1]
        BY <3>1, <2>1, <1>2
      <3> QED BY <3>1, <3>2, <2>1
    <2> HIDE DEF n
    <2> QED BY <2>1, <2>2, SeqEqual DEF n
  <1>6. Part(d, 0, q + n) = Part(c, 0, q) \o s
    <2>1. Part(d, 0, q + n) = Part(d, 0, q) \o Part(d, 0 + q, n)
      BY <1>0, <1>1, PartConcat, SMTT(30)
    <2> QED BY <2>1, <1>0, <1>4, <1>5
  <1>7. Part(c, 0, q) \in Seq(Glyphs)
    BY <1>0, PartTyped
  <1>8. ShownCells(d) = Visible(Part(d, 0, q + n))
    BY <1>0, <1>1, <1>3, ShownUpTo
  <1>9. ShownCells(c) = Visible(Part(c, 0, q))
    BY <1>0, ShownUpTo
  <1> QED BY <1>6, <1>7, <1>8, <1>9, VisibleConcat DEF d

\* s is the end of t.
Ends(s, t) == s \in Seq(Glyphs) /\ t \in Seq(Glyphs) /\ \E u \in Seq(Glyphs) : t = u \o s

LEMMA EndsItself ==
  ASSUME NEW s \in Seq(Glyphs)
  PROVE  Ends(s, s)
  <1>1. <<>> \in Seq(Glyphs) /\ s = <<>> \o s
    OBVIOUS
  <1> QED BY <1>1 DEF Ends

LEMMA EndsEnds ==
  ASSUME NEW s, NEW t, NEW u, Ends(s, t), Ends(t, u)
  PROVE  Ends(s, u)
  <1>1. PICK a \in Seq(Glyphs) : t = a \o s
    BY DEF Ends
  <1>2. PICK b \in Seq(Glyphs) : u = b \o t
    BY DEF Ends
  <1>3. s \in Seq(Glyphs) /\ u \in Seq(Glyphs)
    BY DEF Ends
  <1>4. b \o a \in Seq(Glyphs)
    BY ConcatProperties
  <1>5. (b \o a) \o s = b \o (a \o s)
    BY <1>3, ConcatAssociative, SMTT(30)
  <1> QED BY <1>1, <1>2, <1>3, <1>4, <1>5 DEF Ends

LEMMA EndsMore ==
  ASSUME NEW s, NEW t, Ends(s, t), NEW u \in Seq(Glyphs)
  PROVE  Ends(s \o u, t \o u)
  <1>1. PICK a \in Seq(Glyphs) : t = a \o s
    BY DEF Ends
  <1>2. s \in Seq(Glyphs) /\ t \in Seq(Glyphs)
    BY DEF Ends
  <1>3. t \o u = a \o (s \o u)
    BY <1>1, <1>2, ConcatAssociative
  <1>4. s \o u \in Seq(Glyphs) /\ t \o u \in Seq(Glyphs)
    BY <1>2, ConcatProperties
  <1> QED BY <1>3, <1>4 DEF Ends

\* Scrolling takes the first row from what is shown.
LEMMA ShownScrolled ==
  ASSUME NEW c \in Canvas
  PROVE  Ends(ShownCells(Scrolled(c)), ShownCells(c))
  <1> DEFINE l == RowStart(YMax)
             d == Scrolled(c)
  <1>0. /\ l \in Nat /\ XLen + l = PosLen /\ XLen \in Nat /\ 0 + XLen + l <= PosLen
        /\ 0 + XLen <= PosLen /\ 0 + XLen = XLen /\ l \in 0 .. PosLen /\ XLen + l <= PosLen
        /\ 0 + l <= PosLen
    BY LastRow, Sizes
  <1>1. d \in Canvas /\ BlankFrom(d, l)
    BY ScrolledIs
  <1>2. Part(d, 0, l) = Part(c, XLen, l)
    <2>1. ASSUME NEW i \in 1 .. l PROVE d[0 + i - 1] = c[XLen + i - 1]
      <3>1. PICK p \in Pos : p = 0 + i - 1 /\ p + XLen <= PosMax /\ p + XLen = XLen + i - 1
        <4>1. 0 + i - 1 \in Pos /\ (0 + i - 1) + XLen <= PosMax /\ (0 + i - 1) + XLen = XLen + i - 1
          BY <1>0, Sizes DEF Pos
        <4> QED BY <4>1
      <3> QED BY <3>1 DEF Scrolled
    <2> QED BY <2>1 DEF Part
  <1> HIDE DEF d, l
  <1>3. ShownCells(d) = Visible(Part(d, 0, l))
    BY <1>0, <1>1, ShownUpTo
  <1>4. Part(c, 0, PosLen) = Part(c, 0, XLen) \o Part(c, XLen, l)
    <2>1. Part(c, 0, XLen + l) = Part(c, 0, XLen) \o Part(c, 0 + XLen, l)
      <3>1. XLen \in Nat /\ l \in Nat /\ 0 + XLen + l <= PosLen /\ 0 \in Nat
        BY <1>0
      <3> QED BY <3>1, PartConcat
    <2> QED BY <2>1, <1>0
  <1>5. Part(c, 0, XLen) \in Seq(Glyphs) /\ Part(c, XLen, l) \in Seq(Glyphs)
    BY <1>0, PartTyped
  <1>6. ShownCells(c) = Visible(Part(c, 0, XLen)) \o Visible(Part(c, XLen, l))
    BY <1>4, <1>5, VisibleConcat DEF ShownCells
  <1>7. Visible(Part(c, 0, XLen)) \in Seq(Glyphs) /\ Visible(Part(c, XLen, l)) \in Seq(Glyphs)
    BY <1>5, VisibleTyped
  <1>8. ShownCells(c) \in Seq(Glyphs)
    BY <1>6, <1>7, ConcatProperties
  <1> QED BY <1>2, <1>3, <1>6, <1>7, <1>8 DEF Ends, d

LEMMA MarkedIs ==
  ASSUME NEW c \in Canvas, NEW q \in Pos, NEW g
  PROVE  Marked(c, q, g) = Overlay(c, q, <<g>>)
  <1>1. \A p \in Pos : p \in q .. q + Len(<<g>>) - 1 <=> p = q
    BY Located
  <1>2. <<g>>[1] = g /\ q - q + 1 = 1
    BY Located
  <1>3. \A p \in Pos : Marked(c, q, g)[p] = IF p = q THEN g ELSE c[p]
    BY DEF Marked, Canvas
  <1>4. Marked(c, q, g) = [p \in Pos |-> Marked(c, q, g)[p]]
    BY DEF Marked, Canvas
  <1> QED BY <1>1, <1>2, <1>3, <1>4 DEF Overlay, Covered

LEMMA InkedIs ==
  ASSUME NEW s \in Seq(Glyphs), NEW g \in Glyphs \cup {LineFeed}
  PROVE  /\ Inked(s, g) = s \o Inked(<<>>, g)
         /\ Inked(<<>>, g) \in Seq(Glyphs)
  <1>1. CASE g \in {Blank, LineFeed}
    BY <1>1 DEF Inked
  <1>2. CASE g \notin {Blank, LineFeed}
    <2>1. g \in Glyphs /\ Append(<<>>, g) = <<g>> /\ <<g>> \in Seq(Glyphs)
      BY <1>2
    <2>2. Append(s, g) = s \o <<g>>
      BY <2>1, AppendIsConcat
    <2> QED BY <1>2, <2>1, <2>2 DEF Inked
  <1> QED BY <1>1, <1>2

LEMMA CanvasShown ==
  ASSUME NEW c \in Canvas
  PROVE  ShownCells(c) \in Seq(Glyphs)
  <1>1. PosLen \in Nat /\ 0 + PosLen <= PosLen
    BY Sizes
  <1>2. Part(c, 0, PosLen) \in Seq(Glyphs)
    BY <1>1, PartTyped
  <1> QED BY <1>2, VisibleTyped DEF ShownCells

\* A character written behind all others is seen behind all others.
LEMMA PutShown ==
  ASSUME TextOnly, NEW w, FreshWriter(w), NEW g \in Chars \cup {Blank, LineFeed},
         NEW s, Ends(ShownCells(w.scr.cells), s)
  PROVE  FreshWriter(Put(w, g)) /\ Ends(ShownCells(Put(w, g).scr.cells), Inked(s, g))
  <1>1. PICK c \in Canvas : c = w.scr.cells
    <2>1. PICK c \in Canvas, q \in Pos : BlankFrom(c, q) /\ \E x, y : w = Writer(Scr(c, x, y), q)
      BY DEF FreshWriter
    <2>2. PICK x, y : w = Writer(Scr(c, x, y), q)
      BY <2>1
    <2>3. w.scr.cells = c
      BY <2>2, WriterExcept, ScrFields
    <2> QED BY <2>3
  <1>2. s \in Seq(Glyphs)
    BY DEF Ends
  <1>3. \A d \in {c, Scrolled(c)} : d \in Canvas /\ Ends(ShownCells(d), s)
    <2>1. Scrolled(c) \in Canvas /\ Ends(ShownCells(Scrolled(c)), ShownCells(c))
      BY ScrolledIs, ShownScrolled
    <2>2. Ends(ShownCells(Scrolled(c)), s)
      BY <1>1, <2>1, EndsEnds
    <2> QED BY <1>1, <2>1, <2>2
  <1>4. CASE g = LineFeed
    <2>1. FreshWriter(Put(w, g)) /\ Put(w, g).scr.cells \in {c, Scrolled(c)}
      BY <1>1, <1>4, PutNewlineFresh
    <2>2. Inked(s, g) = s
      BY <1>4 DEF Inked
    <2> QED BY <1>3, <2>1, <2>2
  <1>5. CASE g # LineFeed
    <2>1. g \in Glyphs /\ g \notin Controls
      BY <1>5, BlankGlyph DEF TextOnly, Glyphs
    <2>2. /\ FreshWriter(Put(w, g))
          /\ \E d \in {c, Scrolled(c)}, o \in Pos :
               BlankFrom(d, o) /\ Put(w, g).scr.cells = Marked(d, o, g)
      BY <1>1, <2>1, PutTextFresh
    <2>3. PICK d \in {c, Scrolled(c)}, o \in Pos :
            BlankFrom(d, o) /\ Put(w, g).scr.cells = Marked(d, o, g)
      BY <2>2
    <2>4. d \in Canvas /\ Ends(ShownCells(d), s) /\ ShownCells(d) \in Seq(Glyphs)
      BY <1>3, CanvasShown
    <2>5. <<g>> \in Seq(Glyphs) /\ o \in Nat /\ o + Len(<<g>>) <= PosLen
      BY <2>1, Located, Sizes
    <2>6. ShownCells(Overlay(d, o, <<g>>)) = ShownCells(d) \o Visible(<<g>>)
      BY <2>3, <2>4, <2>5, ShownOverlay
    <2>7. Put(w, g).scr.cells = Overlay(d, o, <<g>>)
      BY <2>3, <2>4, MarkedIs
    <2>8. Visible(<<g>>) = Inked(<<>>, g)
      BY VisibleOne
    <2>9. Inked(<<>>, g) \in Seq(Glyphs) /\ Inked(s, g) = s \o Inked(<<>>, g)
      BY <1>2, <2>1, InkedIs
    <2>10. Ends(ShownCells(d) \o Inked(<<>>, g), s \o Inked(<<>>, g))
      BY <2>4, <2>9, EndsMore
    <2> QED BY <2>2, <2>6, <2>7, <2>8, <2>9, <2>10
  <1> QED BY <1>4, <1>5

\* What is printed is seen behind what was seen before.
LEMMA WriteShown ==
  ASSUME TextOnly, NEW b, Fresh(b), NEW out \in Seq(Chars \cup {Blank, LineFeed}),
         NEW s, Ends(Shown(b), s)
  PROVE  /\ Fresh(write_s(b, out))
         /\ Ends(Shown(write_s(b, out)), s \o Visible(out))
  <1>1. PICK c \in Canvas, x \in 0 .. XMax, y \in 0 .. YMax :
          b = Scr(c, x, y) /\ BlankFrom(c, vga_xy(x, y))
    BY DEF Fresh
  <1>2. PICK r : Run(r, b, out)
    BY WriteRuns
  <1>3. Len(out) \in Nat /\ \A i \in 1 .. Len(out) : out[i] \in Chars \cup {Blank, LineFeed}
    OBVIOUS
  <1>4. PICK k : /\ k[0] = <<>> /\ \A i \in 1 .. Len(out) : k[i] = Inked(k[i - 1], out[i])
                 /\ Visible(out) = k[Len(out)]
    BY VisibleSeen
  <1>5. s \in Seq(Glyphs)
    BY DEF Ends
  <1> DEFINE Good == {i \in 0 .. Len(out) :
                        /\ FreshWriter(r[i]) /\ k[i] \in Seq(Glyphs)
                        /\ Ends(ShownCells(r[i].scr.cells), s \o k[i])}
  <1>6. 0 \in Good
    <2>1. b.x = x /\ b.y = y /\ b.cells = c
      BY <1>1, ScrFields
    <2>2. r[0] = Writer(Scr(c, x, y), vga_xy(x, y))
      BY <1>1, <1>2, <2>1 DEF Run, Writer
    <2>3. vga_xy(x, y) \in Pos
      BY Placed
    <2>4. FreshWriter(r[0])
      BY <1>1, <2>2, <2>3 DEF FreshWriter
    <2>5. r[0].scr.cells = c
      BY <2>2, WriterExcept, ScrFields
    <2>6. Shown(b) = ShownCells(c)
      BY <1>1, ShownIs
    <2>7. s \o k[0] = s /\ k[0] \in Seq(Glyphs)
      BY <1>4, <1>5
    <2>8. Ends(ShownCells(r[0].scr.cells), s \o k[0])
      BY <2>5, <2>6, <2>7
    <2>9. 0 \in 0 .. Len(out)
      BY <1>3
    <2>10. FreshWriter(r[0]) /\ k[0] \in Seq(Glyphs) /\ Ends(ShownCells(r[0].scr.cells), s \o k[0])
      BY <2>4, <2>7, <2>8
    <2> QED BY <2>9, <2>10
  <1>7. ASSUME NEW i \in 0 .. Len(out) - 1, i \in Good PROVE i + 1 \in Good
    <2>1. i + 1 \in 1 .. Len(out) /\ i + 1 - 1 = i /\ i + 1 \in 0 .. Len(out)
      BY <1>3
    <2>2. r[i + 1] = Put(r[i], out[i + 1])
      BY <1>2, <2>1 DEF Run
    <2>3. PICK g \in Chars \cup {Blank, LineFeed} : g = out[i + 1]
      BY <1>3, <2>1
    <2>4. FreshWriter(r[i]) /\ k[i] \in Seq(Glyphs) /\ Ends(ShownCells(r[i].scr.cells), s \o k[i])
      BY <1>7
    <2>5. k[i + 1] = Inked(k[i], g)
      BY <1>4, <2>1, <2>3
    <2> HIDE DEF Good
    <2>6. FreshWriter(r[i + 1]) /\ Ends(ShownCells(r[i + 1].scr.cells), Inked(s \o k[i], g))
      BY <2>2, <2>3, <2>4, PutShown
    <2>7. g \in Glyphs \cup {LineFeed}
      BY DEF Glyphs
    <2>8. Inked(s \o k[i], g) = s \o Inked(k[i], g) /\ Inked(k[i], g) \in Seq(Glyphs)
      <3>1. s \o k[i] \in Seq(Glyphs)
        BY <1>5, <2>4, ConcatProperties
      <3>2. /\ Inked(s \o k[i], g) = (s \o k[i]) \o Inked(<<>>, g)
            /\ Inked(k[i], g) = k[i] \o Inked(<<>>, g)
            /\ Inked(<<>>, g) \in Seq(Glyphs)
        BY <2>4, <2>7, <3>1, InkedIs
      <3>3. k[i] \o Inked(<<>>, g) \in Seq(Glyphs)
        BY <2>4, <3>2, ConcatProperties
      <3>4. (s \o k[i]) \o Inked(<<>>, g) = s \o (k[i] \o Inked(<<>>, g))
        <4>1. PICK e \in Seq(Glyphs), m \in Seq(Glyphs) : e = k[i] /\ m = Inked(<<>>, g)
          BY <2>4, <3>2
        <4>2. (s \o e) \o m = s \o (e \o m)
          BY <1>5, ConcatAssociative, SMTT(30)
        <4> QED BY <4>1, <4>2
      <3> QED BY <3>2, <3>3, <3>4
    <2>9. k[i + 1] \in Seq(Glyphs) /\ Ends(ShownCells(r[i + 1].scr.cells), s \o k[i + 1])
      BY <2>5, <2>6, <2>8
    <2> QED BY <2>1, <2>6, <2>9 DEF Good
  <1> HIDE DEF Good
  <1>8. \A i \in 0 .. Len(out) : i \in Good
    BY <1>3, <1>6, <1>7, Climb
  <1>9. Len(out) \in Good
    BY <1>3, <1>8
  <1>10. /\ FreshWriter(Written(b, out))
         /\ Ends(ShownCells(Written(b, out).scr.cells), s \o Visible(out))
    BY <1>2, <1>4, <1>9 DEF Run, Good
  <1>11. PICK d \in Canvas, q \in Pos :
           BlankFrom(d, q) /\ \E u, v : Written(b, out) = Writer(Scr(d, u, v), q)
    BY <1>10 DEF FreshWriter
  <1>12. PICK u, v : Written(b, out) = Writer(Scr(d, u, v), q)
    BY <1>11
  <1>13. PICK a \in 0 .. XMax, e \in 0 .. YMax : q = vga_xy(a, e)
    BY Located
  <1>14. write_s(b, out) = Scr(d, a, e)
    <2>1. write_s(b, out) = At(Scr(d, u, v), vga_xy(a, e))
      BY <1>12, <1>13, WriterExcept DEF write_s
    <2> QED BY <2>1, AtIs
  <1>15. Written(b, out).scr.cells = d
    BY <1>12, WriterExcept, ScrFields
  <1>16. Shown(write_s(b, out)) = ShownCells(d)
    BY <1>14, ShownIs
  <1> QED BY <1>10, <1>11, <1>13, <1>14, <1>15, <1>16 DEF Fresh

-----------------------------------------------------------------------------
(* The whole screen: it shows what was said before the line, and the line. *)

\* A line feed behind everything on the screen shows the end of it.
LEMMA NewlineShown ==
  ASSUME NEW c \in Canvas, NEW x, NEW y \in 0 .. YMax,
         BlankFrom(c, RowStart(y) + XLen)
  PROVE  /\ Fresh(write_c(Scr(c, x, y), LineFeed))
         /\ Ends(Shown(write_c(Scr(c, x, y), LineFeed)), ShownCells(c))
  <1>1. PICK s : s = newline(Scr(c, x, y))
    OBVIOUS
  <1>2. write_c(Scr(c, x, y), LineFeed) = s
    BY <1>1, BlankGlyph DEF write_c
  <1>3. Fresh(s) /\ s.cells \in {c, Scrolled(c)}
    BY <1>1, NewlineFresh
  <1>4. PICK d, u, v : s = Scr(d, u, v) /\ d \in {c, Scrolled(c)}
    <2>1. s = Scr(s.cells, s.x, s.y)
      BY <1>3, FreshIs
    <2> QED BY <1>3, <2>1
  <1>5. Shown(s) = ShownCells(d)
    BY <1>4, ShownIs
  <1>6. CASE d = c
    <2>1. Ends(ShownCells(c), ShownCells(c))
      BY CanvasShown, EndsItself
    <2> QED BY <1>2, <1>3, <1>5, <1>6, <2>1
  <1>7. CASE d = Scrolled(c)
    BY <1>2, <1>3, <1>5, <1>7, ShownScrolled
  <1> QED BY <1>4, <1>6, <1>7

\* Of the prompt, its mark is seen.
LEMMA PromptShown ==
  ASSUME TextOnly
  PROVE  /\ Prompt \in Seq(Glyphs)
         /\ Visible(Prompt) = IF editor = "kshell" THEN <<Mark>> ELSE <<>>
  <1>1. <<Mark>> \in Seq(Glyphs) /\ <<Blank>> \in Seq(Glyphs)
    BY DEF Glyphs
  <1>2. CASE editor = "kshell"
    <2>1. <<Mark, Blank>> = <<Mark>> \o <<Blank>> /\ <<Mark, Blank>> \in Seq(Glyphs)
      BY DEF Glyphs
    <2>2. Visible(<<Mark>>) = <<Mark>>
      <3>1. Mark \notin {Blank, LineFeed} /\ Append(<<>>, Mark) = <<Mark>>
        BY ConsoleAssumption
      <3> QED BY <3>1, VisibleOne DEF Inked
    <2>3. Visible(<<Blank>>) = <<>>
      BY VisibleOne DEF Inked
    <2>4. Visible(<<Mark>> \o <<Blank>>) = Visible(<<Mark>>) \o Visible(<<Blank>>)
      BY <1>1, VisibleConcat
    <2>5. <<Mark>> \o <<>> = <<Mark>>
      OBVIOUS
    <2> QED BY <1>2, <2>1, <2>2, <2>3, <2>4, <2>5 DEF Prompt
  <1>3. CASE editor # "kshell"
    <2>1. <<>> \in Seq(Glyphs) /\ Len(<<>>) = 0
      OBVIOUS
    <2>2. Visible(<<>>) = <<>>
      <3>1. \A i \in 1 .. Len(<<>>) : <<>>[i] = Blank
        OBVIOUS
      <3> QED BY <2>1, <3>1, VisibleBlanks
    <2> QED BY <1>3, <2>1, <2>2 DEF Prompt
  <1> QED BY <1>2, <1>3

\* While a line is edited the screen shows what it showed before, and the line.
LEMMA TextShown ==
  ASSUME TextOnly, DrawInv
  PROVE  /\ Shown(scr) = Shown(begun) \o LineText
         /\ Shown(begun) \in Seq(Glyphs) /\ LineText \in Seq(Glyphs)
  <1> DEFINE q == vga_xy(begun.x, begun.y)
             t == String(cmdbuf)
  <1>1. PICK c \in Canvas :
          /\ scr = Scr(c, begun.x + Len(Prompt) + ptrpos, begun.y)
          /\ c = Overlay(begun.cells, q, Prompt \o t)
    BY LineScreen
  <1>2. /\ begun.cells \in Canvas /\ begun.x \in 0 .. XMax /\ begun.y \in 0 .. YMax
        /\ begun = Scr(begun.cells, begun.x, begun.y) /\ BlankFrom(begun.cells, q)
    BY FreshIs DEF DrawInv
  <1>3. /\ Prompt \o t \in Seq(Glyphs) /\ Len(Prompt \o t) = Len(Prompt) + cmdsize
        /\ begun.x \in Nat /\ Len(Prompt) \in Nat /\ cmdsize \in 0 .. Cap
        /\ begun.x + Len(Prompt) + Cap <= XMax
        /\ t \in Seq(Chars)
    BY LineFits
  <1>4. q \in Nat /\ q + Len(Prompt \o t) <= PosLen
    <2>1. q = RowStart(begun.y) + begun.x /\ RowStart(begun.y) \in Nat
          /\ RowStart(begun.y) + XLen <= PosLen
      BY <1>2, Placed
    <2> HIDE DEF q, t
    <2>2. begun.x + Len(Prompt \o t) <= XLen
      BY <1>3, Sizes
    <2>3. Len(Prompt \o t) \in Nat
      BY <1>3, Sizes
    <2>4. PICK o \in Nat, x \in Nat, n \in Nat :
            o = RowStart(begun.y) /\ x = begun.x /\ n = Len(Prompt \o t)
      BY <1>3, <2>1, <2>3
    <2>5. q = o + x /\ o + XLen <= PosLen /\ x + n <= XLen /\ XLen \in Nat /\ PosLen \in Nat
      BY <2>1, <2>2, <2>4, Sizes
    <2>6. q \in Nat /\ q + n <= PosLen
      <3>1. ASSUME NEW l \in Nat, NEW e \in Nat, o + l <= e, x + n <= l
            PROVE  o + x \in Nat /\ (o + x) + n <= e
        BY <3>1
      <3> QED BY <2>5, <3>1
    <2> QED BY <2>4, <2>6
  <1>5. t \in Seq(Glyphs)
    BY <1>3 DEF Glyphs
  <1> HIDE DEF t, q
  <1>6. ShownCells(c) = ShownCells(begun.cells) \o Visible(Prompt \o t)
    BY <1>1, <1>2, <1>3, <1>4, ShownOverlay
  <1>7. /\ Visible(Prompt \o t) = Visible(Prompt) \o Visible(t)
        /\ Visible(Prompt \o t) \in Seq(Glyphs)
    BY <1>3, <1>5, PromptShown, VisibleConcat, VisibleTyped
  <1>8. Visible(Prompt \o t) = LineText
    BY <1>7, PromptShown DEF LineText, t
  <1>9. Shown(scr) = ShownCells(c)
    BY <1>1, ShownIs
  <1>10. Shown(begun) = ShownCells(begun.cells)
    BY <1>2, ShownIs
  <1>11. ShownCells(begun.cells) \in Seq(Glyphs)
    BY <1>2, CanvasShown
  <1> QED BY <1>6, <1>7, <1>8, <1>9, <1>10, <1>11

\* The history ends as the screen does, and is cut to its length.
LEMMA EndOf ==
  ASSUME NEW u \in Seq(Glyphs), NEW v \in Seq(Glyphs)
  PROVE  /\ ~(Len(u \o v) < Len(v))
         /\ SubSeq(u \o v, Len(u \o v) - Len(v) + 1, Len(u \o v)) = v
  <1> DEFINE w == u \o v
             m == Len(u)
             n == Len(v)
             e == SubSeq(w, m + 1, m + n)
  <1>1. /\ w \in Seq(Glyphs) /\ Len(w) = m + n /\ m \in Nat /\ n \in Nat
        /\ \A i \in 1 .. m + n : w[i] = IF i <= m THEN u[i] ELSE v[i - m]
    BY ConcatProperties
  <1> HIDE DEF w, m, n
  <1>2. Len(w) - n + 1 = m + 1 /\ ~(Len(w) < n)
    BY <1>1
  <1>3. e = [i \in 1 .. (m + 1) + (m + n) - 2 * m - 1 |-> w[m + i]]
    <2>1. e = [i \in 1 .. (1 + (m + n) - (m + 1)) |-> w[i + (m + 1) - 1]]
      BY <1>1
    <2>2. /\ 1 + (m + n) - (m + 1) = (m + 1) + (m + n) - 2 * m - 1
          /\ \A i \in 1 .. (1 + (m + n) - (m + 1)) : i + (m + 1) - 1 = m + i
      BY <1>1
    <2> QED BY <2>1, <2>2
  <1>4. (m + 1) + (m + n) - 2 * m - 1 = n
    BY <1>1
  <1>5. ASSUME NEW i \in 1 .. n PROVE w[m + i] = v[i]
    <2>1. m + i \in 1 .. m + n /\ ~(m + i <= m) /\ (m + i) - m = i
      BY <1>1
    <2> QED BY <1>1, <2>1
  <1>6. v = [i \in 1 .. n |-> v[i]]
    BY DEF n
  <1> HIDE DEF e
  <1>7. e = [i \in 1 .. n |-> w[m + i]]
    BY <1>3, <1>4
  <1>8. e = v
    BY <1>5, <1>6, <1>7
  <1> QED BY <1>1, <1>2, <1>8 DEF e, w, m, n

LEMMA Remembered ==
  ASSUME NEW s, Ends(Shown(begun'), s), Remember(s)
  PROVE  said' = Shown(begun')
  <1>1. PICK v : v = Shown(begun')
    OBVIOUS
  <1>2. PICK u \in Seq(Glyphs) : s = u \o v
    BY <1>1 DEF Ends
  <1>3. v \in Seq(Glyphs)
    BY <1>1 DEF Ends
  <1>4. /\ ~(Len(s) < Len(v))
        /\ SubSeq(s, Len(s) - Len(v) + 1, Len(s)) = v
    BY <1>2, <1>3, EndOf
  <1> QED BY <1>1, <1>4 DEF Remember

\* The inductive invariant: what was said and still fits is what the screen
\* showed when the line was begun.
SaidInv == DrawInv /\ said = Shown(begun)

LEMMA ClearShown == Shown(clear) = <<>>
  <1>1. PosLen \in Nat /\ 0 + PosLen <= PosLen /\ 0 \in Nat
    BY Sizes
  <1>2. Empty \in Canvas
    BY BlankGlyph DEF Empty, Canvas
  <1>3. /\ Part(Empty, 0, PosLen) \in Seq(Glyphs) /\ Len(Part(Empty, 0, PosLen)) = PosLen
        /\ \A i \in 1 .. PosLen : Part(Empty, 0, PosLen)[i] = Empty[0 + i - 1]
        /\ \A i \in 1 .. PosLen : 0 + i - 1 \in Pos
    BY <1>1, <1>2, PartTyped
  <1>4. \A i \in 1 .. PosLen : Part(Empty, 0, PosLen)[i] = Blank
    BY <1>3 DEF Empty
  <1>5. ShownCells(Empty) = <<>>
    BY <1>3, <1>4, VisibleBlanks DEF ShownCells
  <1>6. clear = Scr(Empty, 0, 0)
    BY DEF clear, Scr
  <1> QED BY <1>5, <1>6, ShownIs

\* What a program prints after the line is seen behind it.
LEMMA OutputShown ==
  ASSUME TextOnly, SaidInv, NEW out \in Outputs
  PROVE  /\ Fresh(write_s(write_c(scr, LineFeed), out))
         /\ Ends(Shown(write_s(write_c(scr, LineFeed), out)), said \o LineText \o Visible(out))
  <1>1. DrawInv /\ said = Shown(begun)
    BY DEF SaidInv
  <1>2. /\ Shown(scr) = said \o LineText
        /\ said \in Seq(Glyphs) /\ LineText \in Seq(Glyphs)
    BY <1>1, TextShown
  <1>3. PICK c \in Canvas : /\ scr = Scr(c, begun.x + Len(Prompt) + ptrpos, begun.y)
                            /\ BlankFrom(c, RowStart(begun.y) + XLen)
    BY <1>1, LineScreen
  <1>4. begun.y \in 0 .. YMax
    BY <1>1, FreshIs DEF DrawInv
  <1>5. Shown(scr) = ShownCells(c)
    BY <1>3, ShownIs
  <1>6. PICK s1 : /\ s1 = write_c(scr, LineFeed) /\ Fresh(s1)
                  /\ Ends(Shown(s1), said \o LineText)
    BY <1>2, <1>3, <1>4, <1>5, NewlineShown
  <1>7. out \in Seq(Chars \cup {Blank, LineFeed})
    BY DEF TextOnly
  <1> QED BY <1>6, <1>7, WriteShown

LEMMA ExecuteSaid ==
  ASSUME TextOnly, Careful = TRUE, SaidInv, NEW out \in Outputs, Execute(out)
  PROVE  SaidInv'
  <1>1. DrawInv'
    BY ExecuteStep DEF SaidInv
  <1>2. PICK s2 : /\ s2 = write_s(write_c(scr, LineFeed), out) /\ Fresh(s2)
                  /\ Ends(Shown(s2), said \o LineText \o Visible(out))
    BY OutputShown
  <1>3. /\ s2.cells \in Canvas /\ s2.x \in 0 .. XMax /\ s2.y \in 0 .. YMax
        /\ s2 = Scr(s2.cells, s2.x, s2.y) /\ BlankFrom(s2.cells, vga_xy(s2.x, s2.y))
    BY <1>2, FreshIs
  <1>4. BlankFrom(s2.cells, RowStart(s2.y) + XLen)
    <2>1. vga_xy(s2.x, s2.y) = RowStart(s2.y) + s2.x /\ RowStart(s2.y) \in Nat
      BY <1>3, Placed
    <2>2. \A p \in Pos : p >= RowStart(s2.y) + XLen => p >= vga_xy(s2.x, s2.y)
      BY <1>3, <2>1, Sizes, Located
    <2> QED BY <1>3, <2>2 DEF BlankFrom
  <1>5. PICK after : after = write_c(s2, LineFeed) /\ Ends(Shown(after), Shown(s2))
    <2>1. Shown(s2) = ShownCells(s2.cells)
      BY <1>3, ShownIs
    <2> QED BY <1>3, <1>4, <2>1, NewlineShown
  <1>6. Ends(Shown(after), said \o LineText \o Visible(out))
    BY <1>2, <1>5, EndsEnds
  <1>7. begun' = after /\ Remember(said \o LineText \o Visible(out))
    BY <1>2, <1>5 DEF Execute, Begin
  <1>8. said' = Shown(begun')
    BY <1>6, <1>7, Remembered
  <1> QED BY <1>1, <1>8 DEF SaidInv

LEMMA ReturnSaid ==
  ASSUME TextOnly, Careful = TRUE, SaidInv, NEW out \in Outputs, Return(out)
  PROVE  SaidInv'
  <1>1. DrawInv'
    BY ReturnStep DEF SaidInv
  <1>2. PICK after : /\ after = write_s(write_c(scr, LineFeed), out)
                     /\ Ends(Shown(after), said \o LineText \o Visible(out))
    BY OutputShown
  <1>3. begun' = after /\ Remember(said \o LineText \o Visible(out))
    BY <1>2 DEF Return, Begin
  <1>4. said' = Shown(begun')
    BY <1>2, <1>3, Remembered
  <1> QED BY <1>1, <1>4 DEF SaidInv

LEMMA ClsSaid ==
  ASSUME TextOnly, Careful = TRUE, SaidInv, Cls
  PROVE  SaidInv'
  <1>1. DrawInv'
    BY ClsStep DEF SaidInv
  <1>2. begun' = clear /\ Remember(<<>>)
    BY DEF Cls, Begin
  <1>3. Ends(Shown(begun'), <<>>)
    <2>1. <<>> \in Seq(Glyphs)
      OBVIOUS
    <2> QED BY <1>2, <2>1, ClearShown, EndsItself
  <1>4. said' = Shown(begun')
    BY <1>2, <1>3, Remembered
  <1> QED BY <1>1, <1>4 DEF SaidInv

LEMMA SaidStep ==
  ASSUME TextOnly, Careful = TRUE
  PROVE  SaidInv /\ [ConsoleNext]_<<vars, screen>> => SaidInv'
  <1> SUFFICES ASSUME SaidInv, [ConsoleNext]_<<vars, screen>> PROVE SaidInv'
    OBVIOUS
  <1>1. CASE UNCHANGED <<vars, screen>>
    <2>1. DrawInv'
      BY <1>1, DrawStep DEF SaidInv
    <2>2. said' = said /\ begun' = begun
      BY <1>1 DEF screen
    <2> QED BY <2>1, <2>2 DEF SaidInv
  <1>2. CASE Key
    <2>1. DrawInv'
      BY <1>2, KeyStep DEF SaidInv
    <2>2. said' = said /\ begun' = begun
      BY <1>2 DEF Key
    <2> QED BY <2>1, <2>2 DEF SaidInv
  <1> QED BY <1>1, <1>2, ExecuteSaid, ReturnSaid, ClsSaid DEF ConsoleNext

\* A sequence is a suffix of itself.
LEMMA WholeSuffix ==
  ASSUME NEW s \in Seq(Glyphs)
  PROVE  IsSuffix(s, s)
  <1>1. Len(Reverse(s)) <= Len(Reverse(s))
    <2>1. Len(s) \in Nat
      OBVIOUS
    <2>2. Len(Reverse(s)) = Len(s)
      BY <2>1 DEF Reverse
    <2> QED BY <2>1, <2>2
  <1> QED BY <1>1 DEF IsSuffix, IsPrefix

\* However the output was cut into rows and scrolled, the screen shows the end
\* of all that was written.
THEOREM ShowsTranscript ==
  ASSUME Careful = TRUE, TextOnly
  PROVE  ConsoleSpec => []TranscriptShown
  <1>1. ConsoleInit => SaidInv
    <2> SUFFICES ASSUME ConsoleInit PROVE SaidInv
      OBVIOUS
    <2>1. DrawInv
      BY DrawStart
    <2>2. said = <<>> /\ begun = clear
      BY DEF ConsoleInit
    <2> QED BY <2>1, <2>2, ClearShown DEF SaidInv
  <1>2. SaidInv /\ [ConsoleNext]_<<vars, screen>> => SaidInv'
    BY SaidStep
  <1>3. SaidInv => TranscriptShown
    <2> SUFFICES ASSUME SaidInv PROVE TranscriptShown
      OBVIOUS
    <2>1. /\ Shown(scr) = said \o LineText
          /\ said \in Seq(Glyphs) /\ LineText \in Seq(Glyphs)
      BY TextShown DEF SaidInv
    <2>2. Shown(scr) \in Seq(Glyphs)
      BY <2>1, ConcatProperties
    <2>3. IsSuffix(Shown(scr), Shown(scr))
      BY <2>2, WholeSuffix
    <2> QED BY <2>1, <2>3 DEF TranscriptShown
  <1> QED BY <1>1, <1>2, <1>3, PTL DEF ConsoleSpec
=============================================================================
