---------------------------- MODULE TEdit_proofs ----------------------------
(***************************************************************************)
(* Proofs about TEdit for every size of the screen, every set of files and *)
(* every sequence of keys.  In order:                                      *)
(*   positions on the screen;                                              *)
(*   lines: what insert, erase, split and append make of their characters; *)
(*   folds, and what filling, writing and drawing change of the screen;    *)
(*   the editor: drawing its window, the keys that move the cursor, the    *)
(*     keys that change the text on both sides of it;                      *)
(*   a text that is loaded, and the menu;                                  *)
(*   that the screen shows the text, that Save writes it, and that a       *)
(*     session edits a document.                                           *)
(***************************************************************************)
EXTENDS TEdit, SequenceTheorems, FiniteSetTheorems, WellFoundedInduction, TLAPS

-----------------------------------------------------------------------------
(* Positions on the screen.                                                *)

\* A quotient and a remainder give back their number.
LEMMA Division ==
  ASSUME NEW n \in Nat \ {0}, NEW a \in Nat, NEW r \in 0 .. n - 1
  PROVE  (a * n + r) % n = r /\ (a * n + r) \div n = a
  OBVIOUS

\* Every number has them.
LEMMA Quotient ==
  ASSUME NEW n \in Nat \ {0}, NEW p \in Nat
  PROVE  /\ p = ((p \div n) * n) + (p % n)
         /\ p % n \in 0 .. n - 1 /\ p \div n \in Nat
  OBVIOUS

\* A row of n cells ends within m rows.
LEMMA RowFits ==
  ASSUME NEW n \in Nat, NEW m \in Nat, NEW y \in 0 .. m - 1
  PROVE  y * n \in Nat /\ y * n + n <= n * m
  OBVIOUS

\* The position at which a row begins.
RowStart(y) == y * XLen

\* The last column, row and cell are one less than how many there are.
LEMMA Sizes ==
  /\ XLen \in Nat \ {0} /\ YLen \in Nat \ {0}
  /\ XMax \in Nat /\ YMax \in Nat /\ XMax = XLen - 1 /\ YMax = YLen - 1
  /\ PosLen \in Nat \ {0} /\ PosMax \in Nat /\ PosMax = PosLen - 1
  <1>1. XLen \in Nat \ {0} /\ YLen \in Nat \ {0}
    BY ScreenAssumption
  <1>3. \A a, b \in Nat \ {0} : a * b \in Nat \ {0}
    OBVIOUS
  <1>4. PosLen \in Nat \ {0}
    BY <1>1, <1>3 DEF PosLen
  <1> QED BY <1>1, <1>4 DEF XMax, YMax, PosMax

\* The cell at column x of row y, and back.
LEMMA Placed ==
  ASSUME NEW x \in 0 .. XMax, NEW y \in 0 .. YMax
  PROVE  /\ RowStart(y) \in Nat /\ RowStart(y) + XLen <= PosLen
         /\ vga_xy(x, y) = RowStart(y) + x
         /\ vga_xy(x, y) \in Pos
         /\ vga_xy(x, y) % XLen = x /\ vga_xy(x, y) \div XLen = y
  <1>1. RowStart(y) \in Nat /\ RowStart(y) + XLen <= PosLen
    <2>1. y \in 0 .. YLen - 1
      BY Sizes
    <2> QED BY <2>1, Sizes, RowFits DEF RowStart, PosLen
  <1>2. vga_xy(x, y) = RowStart(y) + x
    BY DEF vga_xy, RowStart
  <1>3. vga_xy(x, y) \in Pos
    BY <1>1, <1>2, Sizes DEF Pos
  <1>4. vga_xy(x, y) % XLen = x /\ vga_xy(x, y) \div XLen = y
    <2>1. x \in 0 .. XLen - 1 /\ y \in Nat /\ XLen \in Nat \ {0}
      BY Sizes
    <2> QED BY <2>1, Division DEF vga_xy
  <1> QED BY <1>1, <1>2, <1>3, <1>4

\* A row ends before a later one begins.
LEMMA RowAbove ==
  ASSUME NEW y \in Nat, NEW z \in Nat, y < z
  PROVE  RowStart(y) + XLen <= RowStart(z)
  <1>1. \A n \in Nat \ {0} : y * n + n <= z * n
    <2> TAKE n \in Nat \ {0}
    <2>1. PICK d \in Nat : z = y + 1 + d
      <3>1. z - y - 1 \in Nat /\ z = y + 1 + (z - y - 1)
        OBVIOUS
      <3> QED BY <3>1
    <2>2. z * n = y * n + n + d * n
      BY <2>1
    <2>3. d * n \in Nat /\ y * n \in Nat
      OBVIOUS
    <2> QED BY <2>2, <2>3
  <1> QED BY <1>1, Sizes DEF RowStart

\* Rows follow each other.
LEMMA NextRow ==
  ASSUME NEW y \in Nat
  PROVE  RowStart(y + 1) = RowStart(y) + XLen /\ RowStart(y) \in Nat
  <1>1. \A n \in Nat : (y + 1) * n = y * n + n /\ y * n \in Nat
    OBVIOUS
  <1> QED BY <1>1, Sizes DEF RowStart

\* The last row ends with the screen.
LEMMA LastRow == RowStart(YMax) + XLen = PosLen /\ RowStart(YMax) \in Nat
  <1>1. \A n, m \in Nat \ {0} : (m - 1) * n + n = n * m /\ (m - 1) * n \in Nat
    OBVIOUS
  <1> QED BY <1>1, Sizes DEF RowStart, PosLen

\* Every cell is at a column of a row.
LEMMA Located ==
  ASSUME NEW p \in Pos
  PROVE  /\ p % XLen \in 0 .. XMax /\ p \div XLen \in 0 .. YMax
         /\ p = vga_xy(p % XLen, p \div XLen)
         /\ p = RowStart(p \div XLen) + (p % XLen)
         /\ p \in Nat /\ p <= PosMax
  <1>1. p \in Nat /\ p <= PosMax
    BY Sizes DEF Pos
  <1>2. /\ p % XLen \in 0 .. XLen - 1 /\ p \div XLen \in Nat
        /\ p = ((p \div XLen) * XLen) + (p % XLen)
    BY <1>1, Sizes, Quotient
  <1>3. p % XLen \in 0 .. XMax
    BY <1>2, Sizes
  <1>4. p = vga_xy(p % XLen, p \div XLen) /\ p = RowStart(p \div XLen) + (p % XLen)
    BY <1>2 DEF vga_xy, RowStart
  <1>5. p \div XLen <= YMax
    <2> SUFFICES ASSUME YMax < p \div XLen PROVE FALSE
      BY <1>2, Sizes
    <2> DEFINE b == p \div XLen
    <2>1. b \in Nat /\ YMax \in Nat /\ YMax < b
      BY <1>2, Sizes
    <2> HIDE DEF b
    <2>2. RowStart(YMax) + XLen <= RowStart(b)
      BY <2>1, RowAbove
    <2>3. RowStart(b) \in Nat
      BY <2>1, NextRow
    <2>4. p = RowStart(b) + (p % XLen)
      BY <1>4 DEF b
    <2> QED BY <2>2, <2>3, <2>4, LastRow, Sizes, <1>1, <1>3
  <1> QED BY <1>1, <1>2, <1>3, <1>4, <1>5

\* The cells of row y are a run of positions.
LEMMA InRow ==
  ASSUME NEW p \in Pos, NEW y \in 0 .. YMax
  PROVE  p \div XLen = y <=> p \in RowStart(y) .. RowStart(y) + XMax
  <1>1. /\ p % XLen \in 0 .. XMax /\ p \div XLen \in 0 .. YMax
        /\ p = RowStart(p \div XLen) + (p % XLen)
    BY Located
  <1>2. p \div XLen = y => p \in RowStart(y) .. RowStart(y) + XMax
    <2> HAVE p \div XLen = y
    <2>1. p = RowStart(y) + (p % XLen) /\ RowStart(y) \in Nat
      BY <1>1, NextRow, Sizes
    <2> QED BY <1>1, <2>1, Sizes
  <1>3. p \in RowStart(y) .. RowStart(y) + XMax => p \div XLen = y
    <2> HAVE p \in RowStart(y) .. RowStart(y) + XMax
    <2>1. PICK x \in 0 .. XMax : p = RowStart(y) + x
      <3>1. RowStart(y) \in Nat /\ p \in Nat
        BY NextRow, Sizes, Located
      <3>2. p - RowStart(y) \in 0 .. XMax /\ p = RowStart(y) + (p - RowStart(y))
        BY <3>1, Sizes
      <3> QED BY <3>2
    <2>2. p = vga_xy(x, y)
      BY <2>1, Placed
    <2> QED BY <2>2, Placed
  <1> QED BY <1>2, <1>3

\* A screen of cells c, with the cursor at column x of row y.
Scr(c, x, y) == [cells |-> c, x |-> x, y |-> y]

\* The cursor that write_sn leaves at a cell.
LEMMA AtIs ==
  ASSUME NEW c, NEW a, NEW b, NEW x \in 0 .. XMax, NEW y \in 0 .. YMax
  PROVE  At(Scr(c, a, b), vga_xy(x, y)) = Scr(c, x, y)
  <1>1. vga_xy(x, y) \in Pos /\ vga_xy(x, y) % XLen = x /\ vga_xy(x, y) \div XLen = y
    BY Placed
  <1>2. ~(vga_xy(x, y) > PosMax)
    <2>1. \A p \in Pos : ~(p > PosMax)
      BY Sizes DEF Pos
    <2> QED BY <1>1, <2>1
  <1>3. At(Scr(c, a, b), vga_xy(x, y)) = [Scr(c, a, b) EXCEPT !.x = x, !.y = y]
    BY <1>1, <1>2 DEF At
  <1> QED BY <1>3 DEF Scr

\* set_pos within the screen.
LEMMA MoveIs ==
  ASSUME NEW c, NEW a, NEW b, NEW x \in 0 .. XMax, NEW y \in 0 .. YMax
  PROVE  Move(Scr(c, a, b), x, y) = Scr(c, x, y)
  <1>1. Clamp(x, XMax) = x /\ Clamp(y, YMax) = y
    BY Sizes DEF Clamp
  <1> QED BY <1>1, AtIs DEF Move

\* The fields of a screen.
LEMMA ScrFields ==
  ASSUME NEW c, NEW x, NEW y
  PROVE  Scr(c, x, y).cells = c /\ Scr(c, x, y).x = x /\ Scr(c, x, y).y = y
  BY DEF Scr

\* A set of natural numbers has a least one.
LEMMA NatLeast ==
  ASSUME NEW S \in SUBSET Nat, S # {}
  PROVE  \E m \in S : \A k \in S : m <= k
  <1>1. IsWellFoundedOn(OpToRel(<, Nat), Nat)
    BY NatLessThanWellFounded
  <1>2. PICK m \in S : \A k \in S : ~(<<k, m>> \in OpToRel(<, Nat))
    BY <1>1, WFMin
  <1>3. \A k \in S : ~(k < m)
    BY <1>2 DEF OpToRel
  <1> QED BY <1>3

\* What holds at 0 and is passed on from each number to the next holds at all.
LEMMA Climb ==
  ASSUME NEW n \in Nat, NEW S, 0 \in S,
         \A i \in 0 .. n - 1 : i \in S => i + 1 \in S
  PROVE  \A i \in 0 .. n : i \in S
  <1> SUFFICES ASSUME {i \in 0 .. n : i \notin S} # {} PROVE FALSE
    OBVIOUS
  <1> DEFINE T == {i \in 0 .. n : i \notin S}
  <1>1. T \in SUBSET Nat /\ T # {}
    OBVIOUS
  <1> HIDE DEF T
  <1>2. PICK m \in T : \A k \in T : m <= k
    BY <1>1, NatLeast
  <1>3. m \in 0 .. n /\ m \notin S
    BY DEF T
  <1>4. m - 1 \in 0 .. n - 1 /\ m - 1 \notin T /\ m - 1 + 1 = m
    BY <1>2, <1>3
  <1>5. m - 1 \in S
    BY <1>4 DEF T
  <1> QED BY <1>3, <1>4, <1>5

-----------------------------------------------------------------------------
(* Lines: what insert, erase, split and append make of their characters.   *)

\* The characters of a text.
Printed == Typed \cup {Blank, Tab}

\* Those of a text without tabs, and what the keys write.
Keyed == Typed \cup {Blank}

\* And with the terminator and what was never written.
Codes == Printed \cup {Nul, Other}

\* Buffers of any length.
Bufs == UNION {[0 .. n - 1 -> Codes] : n \in Nat}

\* A line of a text.
TLines ==
  {l \in [buf : Bufs, len : Nat] :
     l.len <= Alloc(l) /\ \A i \in 0 .. l.len - 1 : l.buf[i] \in Printed}

\* Its terminator is where its characters end.
Closed(l) == l.len < Alloc(l) /\ l.buf[l.len] = Nul

\* No character of a text is a terminator, uninitialized, or an end of line.
LEMMA Apart == Nul \notin Printed /\ Other \notin Printed /\ Nul # Other /\ LineFeed \notin Typed
  BY TEditAssumption, BytesAssumption DEF Printed

\* How long a buffer is.
LEMMA AllocIs ==
  ASSUME NEW l, NEW n \in Nat, DOMAIN l.buf = 0 .. n - 1
  PROVE  Alloc(l) = n
  BY FS_Interval DEF Alloc

\* What a line is.
LEMMA LineIs ==
  ASSUME NEW l \in TLines
  PROVE  /\ l \in [buf : Bufs, len : Nat] /\ l.len \in Nat /\ Alloc(l) \in Nat /\ l.len <= Alloc(l)
         /\ l.buf \in [0 .. Alloc(l) - 1 -> Codes] /\ DOMAIN l.buf = 0 .. Alloc(l) - 1
         /\ \A i \in 0 .. l.len - 1 : l.buf[i] \in Printed
  <1>1. l \in [buf : Bufs, len : Nat] /\ l.len <= Alloc(l) /\ \A i \in 0 .. l.len - 1 : l.buf[i] \in Printed
    BY DEF TLines
  <1>2. PICK n \in Nat : l.buf \in [0 .. n - 1 -> Codes]
    BY <1>1 DEF Bufs
  <1>3. Alloc(l) = n
    BY <1>2, AllocIs
  <1> QED BY <1>1, <1>2, <1>3

\* How a line is recognised.
LEMMA IsLine ==
  ASSUME NEW b, NEW n \in Nat, NEW len \in 0 .. n, b \in [0 .. n - 1 -> Codes],
         \A i \in 0 .. len - 1 : b[i] \in Printed
  PROVE  /\ [buf |-> b, len |-> len] \in TLines
         /\ Alloc([buf |-> b, len |-> len]) = n
  <1> DEFINE l == [buf |-> b, len |-> len]
  <1>1. l.buf = b /\ l.len = len /\ b \in Bufs
    BY DEF Bufs
  <1>2. Alloc(l) = n
    BY <1>1, AllocIs
  <1>3. l \in [buf : Bufs, len : Nat]
    BY <1>1
  <1> HIDE DEF l
  <1>4. l \in TLines
    BY <1>1, <1>2, <1>3 DEF TLines
  <1> QED BY <1>2, <1>4 DEF l

\* The constructor makes an empty line with its terminator.
LEMMA NewLineIs ==
  /\ NewLine \in TLines /\ Closed(NewLine) /\ NewLine.len = 0 /\ CharsIn(NewLine) = <<>>
  <1> DEFINE b == [i \in 0 .. InitAlloc - 1 |-> Nul]
  <1>1. InitAlloc \in Nat /\ 0 \in 0 .. InitAlloc - 1 /\ b \in [0 .. InitAlloc - 1 -> Codes] /\ 0 \in 0 .. InitAlloc
    BY AllocAssumption DEF Codes
  <1>2. NewLine \in TLines /\ Alloc(NewLine) = InitAlloc
    <2> HIDE DEF b
    <2>1. NewLine = [buf |-> b, len |-> 0]
      BY DEF NewLine, b
    <2> QED BY <1>1, <2>1, IsLine
  <1>3. NewLine.len = 0 /\ NewLine.buf[0] = Nul
    BY <1>1 DEF NewLine
  <1> QED BY <1>1, <1>2, <1>3 DEF Closed, CharsIn

\* The characters of a line are the first ones of its buffer.
LEMMA CharsAre ==
  ASSUME NEW l \in TLines
  PROVE  /\ CharsIn(l) \in Seq(Printed) /\ Len(CharsIn(l)) = l.len
         /\ \A i \in 1 .. l.len : CharsIn(l)[i] = l.buf[i - 1]
  <1>1. l.len \in Nat /\ \A i \in 0 .. l.len - 1 : l.buf[i] \in Printed
    BY LineIs
  <1>2. \A i \in 1 .. l.len : i - 1 \in 0 .. l.len - 1
    BY <1>1
  <1> QED BY <1>1, <1>2 DEF CharsIn

\* A byte that is read, inside the buffer or behind it.
LEMMA ReadIs ==
  ASSUME NEW n \in Nat, NEW b \in [0 .. n - 1 -> Codes], NEW i \in Int
  PROVE  Read(b, i) \in Codes /\ (i \in 0 .. n - 1 => Read(b, i) = b[i])
  BY DEF Read, Codes

\* Room for "to" bytes.
Grown(r, l, to) ==
  /\ r = [buf |-> r.buf, len |-> l.len]
  /\ Alloc(r) \in Nat /\ Alloc(r) >= to /\ Alloc(r) >= Alloc(l)
  /\ r.buf \in [0 .. Alloc(r) - 1 -> Codes]
  /\ \A i \in 0 .. Alloc(l) - 1 : r.buf[i] = l.buf[i]

\* grow keeps what the buffer holds.
LEMMA GrowIs ==
  ASSUME NEW l \in TLines, NEW to \in Nat
  PROVE  Grown(grow(l, to), l, to)
  <1>1. /\ l \in [buf : Bufs, len : Nat] /\ Alloc(l) \in Nat
        /\ l.buf \in [0 .. Alloc(l) - 1 -> Codes]
    BY LineIs
  <1>2. CASE to <= Alloc(l)
    <2>1. grow(l, to) = l /\ l = [buf |-> l.buf, len |-> l.len]
      BY <1>1, <1>2 DEF grow
    <2> QED BY <1>1, <1>2, <2>1 DEF Grown
  <1>3. CASE ~(to <= Alloc(l))
    <2> DEFINE n == Larger(2 * Alloc(l), to)
               b == [i \in 0 .. n - 1 |-> Read(l.buf, i)]
               r == [buf |-> b, len |-> l.len]
    <2>1. n \in Nat /\ n >= to /\ n >= Alloc(l)
      BY <1>1, <1>3 DEF Larger
    <2>2. grow(l, to) = r
      BY <1>1, <1>3 DEF grow
    <2> HIDE DEF n
    <2>3. b \in [0 .. n - 1 -> Codes]
      <3>1. \A i \in 0 .. n - 1 : Read(l.buf, i) \in Codes
        BY <1>1, <2>1, ReadIs
      <3> QED BY <3>1
    <2>4. \A i \in 0 .. Alloc(l) - 1 : b[i] = l.buf[i]
      <3>1. \A i \in 0 .. Alloc(l) - 1 : i \in 0 .. n - 1 /\ Read(l.buf, i) = l.buf[i]
        BY <1>1, <2>1, ReadIs
      <3> QED BY <3>1
    <2> HIDE DEF b
    <2>5. r.buf = b /\ r.len = l.len /\ Alloc(r) = n
      <3>1. r.buf = b /\ r.len = l.len
        OBVIOUS
      <3>2. DOMAIN r.buf = 0 .. n - 1
        BY <2>3, <3>1
      <3> HIDE DEF r
      <3> QED BY <2>1, <3>1, <3>2, AllocIs
    <2>6. Grown(r, l, to)
      <3>1. r = [buf |-> r.buf, len |-> l.len]
        BY <2>5
      <3> HIDE DEF r
      <3> QED BY <2>1, <2>3, <2>4, <2>5, <3>1 DEF Grown
    <2> QED BY <2>2, <2>6
  <1> QED BY <1>2, <1>3

\* b is dst, and from "to" on n bytes of src.
CopyOf(b, m, dst, to, k, src, from, n) ==
  /\ b \in [0 .. m - 1 -> Codes]
  /\ \A i \in 0 .. m - 1 :
       /\ i \notin to .. to + n - 1 => b[i] = dst[i]
       /\ i \in to .. to + n - 1 /\ i - to + from \in 0 .. k - 1 => b[i] = src[i - to + from]

\* memcpy writes n bytes and no other.
LEMMA CopiedIs ==
  ASSUME NEW m \in Nat, NEW dst \in [0 .. m - 1 -> Codes],
         NEW k \in Nat, NEW src \in [0 .. k - 1 -> Codes],
         NEW to \in Nat, NEW from \in Nat, NEW n \in Int
  PROVE  CopyOf(Copied(dst, to, src, from, n), m, dst, to, k, src, from, n)
  <1> DEFINE b == Copied(dst, to, src, from, n)
  <1>1. b = [i \in 0 .. m - 1 |-> IF i \in to .. to + n - 1 THEN Read(src, i - to + from) ELSE dst[i]]
    BY DEF Copied
  <1>2. \A i \in 0 .. m - 1 :
          /\ Read(src, i - to + from) \in Codes
          /\ i - to + from \in 0 .. k - 1 => Read(src, i - to + from) = src[i - to + from]
    <2>1. \A i \in 0 .. m - 1 : i - to + from \in Int
      OBVIOUS
    <2> QED BY <2>1, ReadIs
  <1> HIDE DEF b
  <1>3. b \in [0 .. m - 1 -> Codes]
    BY <1>1, <1>2
  <1>4. \A i \in 0 .. m - 1 : b[i] = IF i \in to .. to + n - 1 THEN Read(src, i - to + from) ELSE dst[i]
    BY <1>1
  <1>5. ASSUME NEW i \in 0 .. m - 1
        PROVE  /\ i \notin to .. to + n - 1 => b[i] = dst[i]
               /\ i \in to .. to + n - 1 /\ i - to + from \in 0 .. k - 1 => b[i] = src[i - to + from]
    BY <1>2, <1>4
  <1> QED BY <1>3, <1>5 DEF b, CopyOf

\* The two parts of a line at a place in it
UpTo(l, p) == SubSeq(CharsIn(l), 1, p)

From(l, p) == SubSeq(CharsIn(l), p + 1, l.len)

\* The characters before and from position p.
LEMMA PartsOf ==
  ASSUME NEW l \in TLines, NEW p \in 0 .. l.len
  PROVE  /\ UpTo(l, p) \in Seq(Printed) /\ Len(UpTo(l, p)) = p
         /\ From(l, p) \in Seq(Printed) /\ Len(From(l, p)) = l.len - p
         /\ \A i \in 1 .. p : UpTo(l, p)[i] = l.buf[i - 1]
         /\ \A i \in 1 .. l.len - p : From(l, p)[i] = l.buf[p + i - 1]
  <1> DEFINE s == CharsIn(l)
             n == l.len
  <1>1. /\ s \in Seq(Printed) /\ Len(s) = n /\ n \in Nat
        /\ \A i \in 1 .. n : s[i] = l.buf[i - 1]
    BY CharsAre, LineIs
  <1>2. p \in 0 .. n
    OBVIOUS
  <1> HIDE DEF s, n
  <1>3. /\ SubSeq(s, 1, p) \in Seq(Printed) /\ Len(SubSeq(s, 1, p)) = p
        /\ \A i \in 1 .. p : SubSeq(s, 1, p)[i] = s[i]
    BY <1>1, <1>2
  <1>4. /\ SubSeq(s, p + 1, n) \in Seq(Printed) /\ Len(SubSeq(s, p + 1, n)) = n - p
        /\ \A i \in 1 .. n - p : SubSeq(s, p + 1, n)[i] = s[p + i]
    BY <1>1, <1>2
  <1>5. \A i \in 1 .. p : SubSeq(s, 1, p)[i] = l.buf[i - 1]
    BY <1>1, <1>2, <1>3
  <1>6. \A i \in 1 .. n - p : SubSeq(s, p + 1, n)[i] = l.buf[p + i - 1]
    <2>1. \A i \in 1 .. n - p : p + i \in 1 .. n /\ (p + i) - 1 = p + i - 1
      BY <1>1, <1>2
    <2> QED BY <1>1, <1>4, <2>1
  <1>7. UpTo(l, p) = SubSeq(s, 1, p) /\ From(l, p) = SubSeq(s, p + 1, n)
    BY DEF UpTo, From, s, n
  <1> QED BY <1>3, <1>4, <1>5, <1>6, <1>7 DEF n

\* A character more.
InsertedIn(r, l, c, at) ==
  /\ r \in TLines /\ r.len = l.len + 1
  /\ UpTo(r, at + 1) = Append(UpTo(l, at), c)
  /\ From(r, at + 1) = From(l, at)
  /\ Closed(l) => Closed(r)

\* insert puts its character between the two parts.
LEMMA InsertIs ==
  ASSUME NEW l \in TLines, NEW c \in Printed, NEW at \in 0 .. l.len
  PROVE  InsertedIn(insert(l, c, at), l, c, at)
  <1> DEFINE n == l.len
             g == grow(l, (n + 1) + 1)
             m == Alloc(g)
             b1 == IF at = n THEN [g.buf EXCEPT ![at + 1] = Nul]
                   ELSE Copied(g.buf, at + 1, g.buf, at, n + 1 - at)
             b == [b1 EXCEPT ![at] = c]
             r == [buf |-> b, len |-> n + 1]
  <1>1. /\ n \in Nat /\ Alloc(l) \in Nat /\ n <= Alloc(l) /\ (\A i \in 0 .. n - 1 : l.buf[i] \in Printed)
        /\ DOMAIN l.buf = 0 .. Alloc(l) - 1
    BY LineIs
  <1>2. Grown(g, l, (n + 1) + 1)
    <2>1. (n + 1) + 1 \in Nat
      BY <1>1
    <2> QED BY <2>1, GrowIs
  <1> HIDE DEF g, n
  <1>3. /\ g = [buf |-> g.buf, len |-> n] /\ m \in Nat /\ m >= n + 2 /\ m >= Alloc(l)
        /\ g.buf \in [0 .. m - 1 -> Codes] /\ \A i \in 0 .. Alloc(l) - 1 : g.buf[i] = l.buf[i]
    BY <1>1, <1>2 DEF Grown, n
  <1>4. insert(l, c, at) = r
    <2>1. resize(l, n + 1) = [g EXCEPT !.len = n + 1]
      <3>1. ~(n + 1 < n)
        BY <1>1
      <3> QED BY <3>1 DEF resize, g, n
    <2>2. resize(l, n + 1) = [buf |-> g.buf, len |-> n + 1]
      BY <1>3, <2>1
    <2> DEFINE h == resize(l, n + 1)
               bb == IF at = n THEN [h.buf EXCEPT ![at + 1] = Nul]
                     ELSE Copied(h.buf, at + 1, h.buf, at, h.len - at)
    <2>3. insert(l, c, at) = [h EXCEPT !.buf = [bb EXCEPT ![at] = c]]
      BY DEF insert, n
    <2>4. h.buf = g.buf /\ h.len = n + 1
      BY <2>2
    <2>5. bb = b1
      <3>1. h.len - at = n + 1 - at
        BY <1>1, <2>4 DEF n
      <3> HIDE DEF h
      <3>2. CASE at = n
        BY <2>4, <3>2
      <3>3. CASE at # n
        BY <2>4, <3>1, <3>3
      <3> QED BY <3>2, <3>3
    <2> HIDE DEF bb, b1
    <2>6. [h EXCEPT !.buf = [bb EXCEPT ![at] = c]] = [buf |-> [bb EXCEPT ![at] = c], len |-> n + 1]
      BY <2>2
    <2> QED BY <2>3, <2>5, <2>6
  <1>5. c \in Codes /\ Nul \in Codes /\ at \in 0 .. n
    BY DEF Codes, n
  <1> HIDE DEF m
  <1>6. /\ b1 \in [0 .. m - 1 -> Codes]
        /\ \A i \in 0 .. at - 1 : b1[i] = g.buf[i]
        /\ at < n => \A i \in at + 1 .. n + 1 : b1[i] = g.buf[i - 1]
        /\ at = n => b1[n + 1] = Nul
    <2>1. CASE at = n
      BY <1>1, <1>3, <1>5, <2>1
    <2>2. CASE at # n
      <3>1. b1 = Copied(g.buf, at + 1, g.buf, at, n + 1 - at) /\ at + 1 \in Nat /\ at \in Nat /\ n + 1 - at \in Int
            /\ (at + 1) + (n + 1 - at) - 1 = n + 1
        BY <1>1, <1>5, <2>2
      <3> HIDE DEF b1
      <3> DEFINE z == n + 1 - at
                 buf == g.buf
      <3>0. buf \in [0 .. m - 1 -> Codes] /\ m \in Nat /\ z \in Int /\ (at + 1) + z - 1 = n + 1
        BY <1>3, <3>1
      <3> HIDE DEF z
      <3>a. b1 = Copied(buf, at + 1, buf, at, z)
        BY <3>1 DEF z
      <3> HIDE DEF buf
      <3>b. CopyOf(Copied(buf, at + 1, buf, at, z), m, buf, at + 1, m, buf, at, z)
        BY <3>0, <3>1, CopiedIs
      <3>c. /\ b1 \in [0 .. m - 1 -> Codes]
            /\ \A i \in 0 .. m - 1 :
                 /\ i \notin at + 1 .. (at + 1) + z - 1 => b1[i] = buf[i]
                 /\ i \in at + 1 .. (at + 1) + z - 1 /\ i - (at + 1) + at \in 0 .. m - 1 => b1[i] = buf[i - (at + 1) + at]
        BY <3>a, <3>b DEF CopyOf
      <3>2. /\ b1 \in [0 .. m - 1 -> Codes]
            /\ \A i \in 0 .. m - 1 :
                 /\ i \notin at + 1 .. n + 1 => b1[i] = g.buf[i]
                 /\ i \in at + 1 .. n + 1 /\ i - (at + 1) + at \in 0 .. m - 1 => b1[i] = g.buf[i - (at + 1) + at]
        BY <3>0, <3>c DEF buf
      <3>3. \A i \in 0 .. at - 1 : i \in 0 .. m - 1 /\ i \notin at + 1 .. n + 1
        BY <1>1, <1>3, <1>5
      <3>4. \A i \in at + 1 .. n + 1 : i \in 0 .. m - 1 /\ i - (at + 1) + at = i - 1 /\ i - 1 \in 0 .. m - 1
        BY <1>1, <1>3, <1>5, SMTT(30)
      <3> QED BY <2>2, <3>2, <3>3, <3>4
    <2> QED BY <2>1, <2>2
  <1> HIDE DEF b1
  <1>7. /\ b \in [0 .. m - 1 -> Codes] /\ b[at] = c
        /\ \A i \in 0 .. at - 1 : b[i] = l.buf[i]
        /\ \A i \in at + 1 .. n : b[i] = l.buf[i - 1]
        /\ Closed(l) => b[n + 1] = Nul
    <2>1. b \in [0 .. m - 1 -> Codes] /\ b[at] = c /\ \A i \in 0 .. m - 1 : i # at => b[i] = b1[i]
      BY <1>1, <1>3, <1>5, <1>6
    <2> HIDE DEF b
    <2>2. \A i \in 0 .. at - 1 : b[i] = l.buf[i]
      <3>1. \A i \in 0 .. at - 1 : i \in 0 .. m - 1 /\ i # at /\ i \in 0 .. Alloc(l) - 1
        BY <1>1, <1>3, <1>5
      <3> QED BY <1>3, <1>6, <2>1, <3>1
    <2>3. \A i \in at + 1 .. n : b[i] = l.buf[i - 1]
      <3>1. \A i \in at + 1 .. n : i \in 0 .. m - 1 /\ i # at /\ i - 1 \in 0 .. Alloc(l) - 1 /\ at < n
                                   /\ i \in at + 1 .. n + 1
        BY <1>1, <1>3, <1>5
      <3> QED BY <1>3, <1>6, <2>1, <3>1
    <2>4. Closed(l) => b[n + 1] = Nul
      <3> SUFFICES ASSUME Closed(l) PROVE b[n + 1] = Nul
        OBVIOUS
      <3>1. n < Alloc(l) /\ l.buf[n] = Nul
        BY DEF Closed, n
      <3>2. n + 1 \in 0 .. m - 1 /\ n + 1 # at /\ n \in 0 .. Alloc(l) - 1 /\ n + 1 \in at + 1 .. n + 1 /\ (n + 1) - 1 = n
        BY <1>1, <1>3, <1>5, <3>1
      <3>3. b1[n + 1] = Nul
        <4>1. CASE at = n
          BY <1>6, <4>1
        <4>2. CASE at # n
          <5>1. at < n
            BY <1>1, <1>5, <4>2
          <5>2. b1[n + 1] = g.buf[(n + 1) - 1]
            BY <1>6, <3>2, <5>1
          <5> QED BY <1>3, <3>1, <3>2, <5>2
        <4> QED BY <4>1, <4>2
      <3> QED BY <2>1, <3>2, <3>3
    <2> QED BY <2>1, <2>2, <2>3, <2>4
  <1> HIDE DEF b
  <1>8. r \in TLines /\ Alloc(r) = m
    <2>1. \A i \in 0 .. (n + 1) - 1 : b[i] \in Printed
      <3> TAKE i \in 0 .. (n + 1) - 1
      <3>1. i \in 0 .. at - 1 \/ i = at \/ i \in at + 1 .. n
        BY <1>1, <1>5
      <3>2. (i \in 0 .. at - 1 => i \in 0 .. n - 1) /\ (i \in at + 1 .. n => i - 1 \in 0 .. n - 1)
        BY <1>1, <1>5
      <3> QED BY <1>1, <1>7, <3>1, <3>2
    <2>2. n + 1 \in 0 .. m
      BY <1>1, <1>3
    <2> QED BY <1>3, <1>7, <2>1, <2>2, IsLine
  <1>9. r.buf = b /\ r.len = n + 1
    OBVIOUS
  <1> HIDE DEF r
  <1>10. Closed(l) => Closed(r)
    <2>1. n + 1 < m
      BY <1>1, <1>3
    <2> QED BY <1>7, <1>8, <1>9, <2>1 DEF Closed
  <1>11. UpTo(r, at + 1) = Append(UpTo(l, at), c) /\ From(r, at + 1) = From(l, at)
    <2>1. at + 1 \in 0 .. r.len /\ at \in 0 .. l.len
      BY <1>1, <1>5, <1>9
    <2> DEFINE L == UpTo(l, at)
               L2 == UpTo(r, at + 1)
               R == From(l, at)
               R2 == From(r, at + 1)
    <2>2. /\ L \in Seq(Printed) /\ Len(L) = at /\ \A i \in 1 .. at : L[i] = l.buf[i - 1]
          /\ R \in Seq(Printed) /\ Len(R) = n - at /\ \A i \in 1 .. n - at : R[i] = l.buf[at + i - 1]
      BY <2>1, PartsOf DEF n
    <2>3. /\ L2 \in Seq(Printed) /\ Len(L2) = at + 1 /\ \A i \in 1 .. at + 1 : L2[i] = b[i - 1]
          /\ R2 \in Seq(Printed) /\ Len(R2) = n + 1 - (at + 1)
          /\ \A i \in 1 .. n + 1 - (at + 1) : R2[i] = b[(at + 1) + i - 1]
      <3>1. /\ UpTo(r, at + 1) \in Seq(Printed) /\ Len(UpTo(r, at + 1)) = at + 1
            /\ From(r, at + 1) \in Seq(Printed) /\ Len(From(r, at + 1)) = r.len - (at + 1)
            /\ \A i \in 1 .. at + 1 : UpTo(r, at + 1)[i] = r.buf[i - 1]
            /\ \A i \in 1 .. r.len - (at + 1) : From(r, at + 1)[i] = r.buf[(at + 1) + i - 1]
        BY <1>8, <2>1, PartsOf
      <3> DEFINE A == UpTo(r, at + 1)
                 B == From(r, at + 1)
                 q == r.len - (at + 1)
      <3>2. q = n + 1 - (at + 1)
        BY <1>1, <1>5, <1>9
      <3>3. /\ A \in Seq(Printed) /\ Len(A) = at + 1 /\ \A i \in 1 .. at + 1 : A[i] = b[i - 1]
            /\ B \in Seq(Printed) /\ Len(B) = q /\ \A i \in 1 .. q : B[i] = b[(at + 1) + i - 1]
        BY <1>9, <3>1
      <3> HIDE DEF A, B, q
      <3>4. /\ A \in Seq(Printed) /\ Len(A) = at + 1 /\ \A i \in 1 .. at + 1 : A[i] = b[i - 1]
            /\ B \in Seq(Printed) /\ Len(B) = n + 1 - (at + 1)
            /\ \A i \in 1 .. n + 1 - (at + 1) : B[i] = b[(at + 1) + i - 1]
        BY <3>2, <3>3
      <3> QED BY <3>4 DEF A, B
    <2> HIDE DEF L, L2, R, R2
    <2>4. R2 = R
      <3>1. n + 1 - (at + 1) = n - at /\ n - at \in Nat
        BY <1>1, <1>5
      <3>2. \A i \in 1 .. n - at : R2[i] = R[i]
        <4> TAKE i \in 1 .. n - at
        <4>0. n \in Nat /\ at \in Nat /\ i \in Nat /\ 1 <= i /\ i <= n - at
          BY <1>1, <1>5
        <4>0a. (at + 1) + i - 1 \in at + 1 .. n /\ (at + 1) + i - 1 - 1 = at + i - 1
          BY <4>0
        <4>0b. i \in 1 .. n + 1 - (at + 1)
          BY <4>0
        <4>1. (at + 1) + i - 1 \in at + 1 .. n /\ (at + 1) + i - 1 - 1 = at + i - 1 /\ i \in 1 .. n + 1 - (at + 1)
          BY <4>0a, <4>0b
        <4>2. R2[i] = b[(at + 1) + i - 1] /\ R[i] = l.buf[at + i - 1]
          BY <2>2, <2>3, <4>1
        <4> DEFINE j == (at + 1) + i - 1
        <4>3. j \in at + 1 .. n /\ j - 1 = at + i - 1 /\ R2[i] = b[j]
          BY <4>1, <4>2
        <4> HIDE DEF j
        <4>4. b[j] = l.buf[j - 1]
          BY <1>7, <4>3
        <4> QED BY <4>2, <4>3, <4>4
      <3> QED BY <2>2, <2>3, <3>1, <3>2, SeqEqual
    <2>5. L2 = Append(L, c)
      <3> DEFINE A == Append(L, c)
      <3>1. A \in Seq(Printed) /\ Len(A) = at + 1 /\ (\A i \in 1 .. at : A[i] = L[i]) /\ A[at + 1] = c
        BY <1>5, <2>2
      <3> HIDE DEF A
      <3>2. \A i \in 1 .. at + 1 : L2[i] = A[i]
        <4> TAKE i \in 1 .. at + 1
        <4>1. L2[i] = b[i - 1]
          BY <2>3
        <4>2. CASE i = at + 1
          BY <1>5, <1>7, <3>1, <4>1, <4>2
        <4>3. CASE i # at + 1
          <5>1. i \in 1 .. at /\ i - 1 \in 0 .. at - 1
            BY <1>5, <4>3
          <5> QED BY <1>7, <2>2, <3>1, <4>1, <5>1
        <4> QED BY <4>2, <4>3
      <3>3. L2 = A
        BY <1>5, <2>3, <3>1, <3>2, SeqEqual
      <3> QED BY <3>3 DEF A
    <2> QED BY <2>4, <2>5 DEF L, L2, R, R2
  <1>12. InsertedIn(r, l, c, at)
    BY <1>8, <1>9, <1>10, <1>11 DEF InsertedIn, n
  <1> QED BY <1>4, <1>12

\* How the parts are recognised.
LEMMA UpToIs ==
  ASSUME NEW l \in TLines, NEW p \in 0 .. l.len, NEW s \in Seq(Printed), Len(s) = p,
         \A i \in 1 .. p : s[i] = l.buf[i - 1]
  PROVE  UpTo(l, p) = s
  <1>1. UpTo(l, p) \in Seq(Printed) /\ Len(UpTo(l, p)) = p /\ \A i \in 1 .. p : UpTo(l, p)[i] = l.buf[i - 1]
    BY PartsOf
  <1>2. \A i \in 1 .. p : UpTo(l, p)[i] = s[i]
    BY <1>1
  <1> HIDE DEF UpTo
  <1> QED BY <1>1, <1>2, SeqEqual

\* The second part is known by its characters.
LEMMA FromIs ==
  ASSUME NEW l \in TLines, NEW p \in 0 .. l.len, NEW s \in Seq(Printed), Len(s) = l.len - p,
         \A i \in 1 .. l.len - p : s[i] = l.buf[p + i - 1]
  PROVE  From(l, p) = s
  <1>1. From(l, p) \in Seq(Printed) /\ Len(From(l, p)) = l.len - p /\ \A i \in 1 .. l.len - p : From(l, p)[i] = l.buf[p + i - 1]
    BY PartsOf
  <1>2. \A i \in 1 .. l.len - p : From(l, p)[i] = s[i]
    BY <1>1
  <1> QED BY <1>1, <1>2, SeqEqual

\* The parts at the ends of a line.
LEMMA Whole ==
  ASSUME NEW l \in TLines
  PROVE  /\ UpTo(l, l.len) = CharsIn(l) /\ From(l, l.len) = <<>>
         /\ UpTo(l, 0) = <<>> /\ From(l, 0) = CharsIn(l)
         /\ 0 \in 0 .. l.len /\ l.len \in 0 .. l.len
  <1>1. l.len \in Nat
    BY LineIs
  <1>2. /\ CharsIn(l) \in Seq(Printed) /\ Len(CharsIn(l)) = l.len
        /\ \A i \in 1 .. l.len : CharsIn(l)[i] = l.buf[i - 1]
    BY CharsAre
  <1>3. 0 \in 0 .. l.len /\ l.len \in 0 .. l.len
    BY <1>1
  <1>4. UpTo(l, l.len) = CharsIn(l)
    BY <1>2, <1>3, UpToIs
  <1>5. From(l, 0) = CharsIn(l)
    <2>1. l.len - 0 = l.len /\ \A i \in 1 .. l.len : 0 + i - 1 = i - 1
      BY <1>1
    <2>2. Len(CharsIn(l)) = l.len - 0 /\ \A i \in 1 .. l.len - 0 : CharsIn(l)[i] = l.buf[0 + i - 1]
      BY <1>2, <2>1
    <2> QED BY <1>2, <1>3, <2>2, FromIs
  <1>6. UpTo(l, 0) = <<>>
    <2>1. UpTo(l, 0) \in Seq(Printed) /\ Len(UpTo(l, 0)) = 0
      BY <1>3, PartsOf
    <2> QED BY <2>1
  <1>7. From(l, l.len) = <<>>
    <2>1. From(l, l.len) \in Seq(Printed) /\ Len(From(l, l.len)) = l.len - l.len /\ l.len - l.len = 0
      BY <1>1, <1>3, PartsOf
    <2> QED BY <2>1
  <1> QED BY <1>3, <1>4, <1>5, <1>6, <1>7

\* The line has no tab.
Plain(l) == CharsIn(l) \in Seq(Keyed)

\* And fits on the screen with the cursor behind it.
Slim(l) == l.len <= XMax /\ Plain(l)

\* An empty line is one.
LEMMA NewLineSlim == Slim(NewLine)
  <1>1. NewLine.len = 0 /\ CharsIn(NewLine) = <<>>
    BY NewLineIs
  <1>2. <<>> \in Seq(Keyed) /\ 0 <= XMax
    BY ScreenAssumption DEF XMax
  <1> QED BY <1>1, <1>2 DEF Slim, Plain

\* A line has no tab if neither of its parts has one.
LEMMA PlainParts ==
  ASSUME NEW l \in TLines, NEW p \in 0 .. l.len
  PROVE  Plain(l) <=> UpTo(l, p) \in Seq(Keyed) /\ From(l, p) \in Seq(Keyed)
  <1> DEFINE s == CharsIn(l)
             u == UpTo(l, p)
             f == From(l, p)
             n == l.len
  <1>1. s \in Seq(Printed) /\ Len(s) = n /\ n \in Nat /\ \A i \in 1 .. n : s[i] = l.buf[i - 1]
    BY CharsAre, LineIs
  <1>2. /\ u \in Seq(Printed) /\ Len(u) = p /\ f \in Seq(Printed) /\ Len(f) = n - p
        /\ \A i \in 1 .. p : u[i] = l.buf[i - 1]
        /\ \A i \in 1 .. n - p : f[i] = l.buf[p + i - 1]
    BY PartsOf
  <1>3. p \in 0 .. n
    OBVIOUS
  <1> HIDE DEF s, u, f, n
  <1>4. \A i \in 1 .. p : i \in 1 .. n /\ u[i] = s[i]
    <2>1. \A i \in 1 .. p : i \in 1 .. n
      BY <1>1, <1>3
    <2> QED BY <1>1, <1>2, <2>1
  <1>5. \A i \in 1 .. n - p : p + i \in 1 .. n /\ f[i] = s[p + i]
    <2> TAKE i \in 1 .. n - p
    <2>1. p + i \in 1 .. n /\ (p + i) - 1 = p + i - 1
      BY <1>1, <1>3
    <2> QED BY <1>1, <1>2, <2>1
  <1>6. \A i \in 1 .. n : i \in 1 .. p \/ (i - p \in 1 .. n - p /\ p + (i - p) = i)
    BY <1>1, <1>3
  <1>7. s \in Seq(Keyed) <=> \A i \in 1 .. n : s[i] \in Keyed
    BY <1>1
  <1>8. u \in Seq(Keyed) <=> \A i \in 1 .. p : u[i] \in Keyed
    BY <1>2, <1>3
  <1>9. f \in Seq(Keyed) <=> \A i \in 1 .. n - p : f[i] \in Keyed
    BY <1>2
  <1>10. ASSUME \A i \in 1 .. n : s[i] \in Keyed
         PROVE  (\A i \in 1 .. p : u[i] \in Keyed) /\ \A i \in 1 .. n - p : f[i] \in Keyed
    BY <1>4, <1>5, <1>10
  <1>11. ASSUME \A i \in 1 .. p : u[i] \in Keyed, \A i \in 1 .. n - p : f[i] \in Keyed,
                NEW i \in 1 .. n
         PROVE  s[i] \in Keyed
    <2>1. CASE i \in 1 .. p
      BY <1>4, <1>11, <2>1
    <2>2. CASE i - p \in 1 .. n - p /\ p + (i - p) = i
      <3>1. f[i - p] = s[p + (i - p)]
        BY <1>5, <2>2
      <3> QED BY <1>11, <2>2, <3>1
    <2> QED BY <1>6, <2>1, <2>2
  <1> QED BY <1>7, <1>8, <1>9, <1>10, <1>11 DEF s, u, f, Plain

\* A part that is one longer has one more character.
LEMMA OneMore ==
  ASSUME NEW l \in TLines, NEW p \in 0 .. l.len - 1
  PROVE  \E c \in Printed : UpTo(l, p + 1) = Append(UpTo(l, p), c)
  <1>1. l.len \in Nat /\ l.buf[p] \in Printed /\ p \in 0 .. l.len /\ p + 1 \in 0 .. l.len
    BY LineIs
  <1> DEFINE s == UpTo(l, p)
             c == l.buf[p]
             t == Append(s, c)
  <1>2. s \in Seq(Printed) /\ Len(s) = p /\ \A i \in 1 .. p : s[i] = l.buf[i - 1]
    BY <1>1, PartsOf
  <1> HIDE DEF s
  <1>3. t \in Seq(Printed) /\ Len(t) = p + 1 /\ (\A i \in 1 .. p : t[i] = s[i]) /\ t[p + 1] = c
    BY <1>1, <1>2
  <1> HIDE DEF t
  <1>4. \A i \in 1 .. p + 1 : t[i] = l.buf[i - 1]
    <2> TAKE i \in 1 .. p + 1
    <2>1. CASE i = p + 1
      BY <1>3, <2>1
    <2>2. CASE i # p + 1
      BY <1>2, <1>3, <2>2
    <2> QED BY <2>1, <2>2
  <1>5. UpTo(l, p + 1) = t
    BY <1>1, <1>3, <1>4, UpToIs
  <1> QED BY <1>1, <1>5 DEF s, t

\* The line without its character at "at".
ErasedFrom(r, l, at) ==
  /\ r \in TLines /\ r.len = l.len - 1 /\ Closed(r)
  /\ UpTo(r, at) = UpTo(l, at) /\ From(r, at) = From(l, at + 1)

\* erase removes one character between the two parts.
LEMMA EraseIs ==
  ASSUME NEW l \in TLines, NEW at \in 0 .. l.len - 1
  PROVE  ErasedFrom(erase(l, at), l, at)
  <1> DEFINE n == l.len
             m == Alloc(l)
             z == n - at
             b1 == Copied(l.buf, at, l.buf, at + 1, z)
             b == [b1 EXCEPT ![n - 1] = Nul]
             l1 == [buf |-> b1, len |-> n]
             r == [buf |-> b, len |-> n - 1]
  <1>1. /\ n \in Nat /\ m \in Nat /\ n <= m /\ (\A i \in 0 .. n - 1 : l.buf[i] \in Printed)
        /\ l.buf \in [0 .. m - 1 -> Codes] /\ l \in [buf : Bufs, len : Nat]
    BY LineIs
  <1>2. at \in 0 .. n - 1 /\ z \in Nat /\ z > 0 /\ n - 1 \in 0 .. m - 1 /\ at + z - 1 = n - 1 /\ at + 1 \in Nat /\ at \in Nat
    BY <1>1
  <1>3. erase(l, at) = resize(l1, n - 1)
    <2>1. [l EXCEPT !.buf = Copied(@, at, @, at + 1, l.len - at)] = l1
      BY <1>1
    <2>2. ~(at >= l.len)
      BY <1>1, <1>2
    <2> HIDE DEF l1
    <2> QED BY <2>1, <2>2 DEF erase
  <1> HIDE DEF m, z
  <1>4. CopyOf(Copied(l.buf, at, l.buf, at + 1, z), m, l.buf, at, m, l.buf, at + 1, z)
    BY <1>1, <1>2, CopiedIs, SMTT(30)
  <1> HIDE DEF n
  <1>5. /\ b1 \in [0 .. m - 1 -> Codes]
        /\ \A i \in 0 .. m - 1 :
             /\ i \notin at .. at + z - 1 => b1[i] = l.buf[i]
             /\ i \in at .. at + z - 1 /\ i - at + (at + 1) \in 0 .. m - 1 => b1[i] = l.buf[i - at + (at + 1)]
    BY <1>4 DEF CopyOf
  <1> HIDE DEF b1
  <1>6. resize(l1, n - 1) = r
    <2>1. l1.buf = b1 /\ l1.len = n
      OBVIOUS
    <2>2. Alloc(l1) = m
      <3> HIDE DEF l1
      <3> QED BY <1>1, <1>5, <2>1, AllocIs
    <2>3. grow(l1, (n - 1) + 1) = l1
      <3>1. (n - 1) + 1 <= Alloc(l1)
        BY <1>1, <2>2
      <3> QED BY <3>1 DEF grow
    <2>4. n - 1 < l1.len
      BY <1>1, <2>1
    <2>5. resize(l1, n - 1) = [l1 EXCEPT !.len = n - 1, !.buf[n - 1] = Nul]
      <3> HIDE DEF l1
      <3> QED BY <2>3, <2>4 DEF resize
    <2> QED BY <2>5
  <1>7. /\ b \in [0 .. m - 1 -> Codes] /\ b[n - 1] = Nul
        /\ \A i \in 0 .. at - 1 : b[i] = l.buf[i]
        /\ \A i \in at .. n - 2 : b[i] = l.buf[i + 1]
    <2>1. b \in [0 .. m - 1 -> Codes] /\ b[n - 1] = Nul /\ \A i \in 0 .. m - 1 : i # n - 1 => b[i] = b1[i]
      BY <1>1, <1>2, <1>5 DEF Codes
    <2> HIDE DEF b
    <2>2. \A i \in 0 .. at - 1 : i \in 0 .. m - 1 /\ i # n - 1 /\ i \notin at .. at + z - 1
      BY <1>1, <1>2
    <2>3. \A i \in at .. n - 2 : i \in 0 .. m - 1 /\ i # n - 1 /\ i \in at .. at + z - 1 /\ i - at + (at + 1) = i + 1 /\ i + 1 \in 0 .. m - 1
      BY <1>1, <1>2
    <2> QED BY <1>5, <2>1, <2>2, <2>3
  <1> HIDE DEF b
  <1>8. r \in TLines /\ Alloc(r) = m
    <2>1. \A i \in 0 .. (n - 1) - 1 : b[i] \in Printed
      <3> TAKE i \in 0 .. (n - 1) - 1
      <3>1. i \in 0 .. at - 1 \/ i \in at .. n - 2
        BY <1>1, <1>2
      <3>2. i \in 0 .. n - 1 /\ i + 1 \in 0 .. n - 1
        BY <1>1, <1>2
      <3> QED BY <1>1, <1>7, <3>1, <3>2
    <2>2. n - 1 \in 0 .. m
      BY <1>1, <1>2
    <2> QED BY <1>1, <1>7, <2>1, <2>2, IsLine
  <1>9. r.buf = b /\ r.len = n - 1
    OBVIOUS
  <1> HIDE DEF r
  <1>10. Closed(r)
    BY <1>1, <1>2, <1>7, <1>8, <1>9 DEF Closed
  <1>11. UpTo(r, at) = UpTo(l, at)
    <2>1. at \in 0 .. r.len /\ at \in 0 .. l.len
      BY <1>1, <1>2, <1>9 DEF n
    <2>2. /\ UpTo(l, at) \in Seq(Printed) /\ Len(UpTo(l, at)) = at
          /\ \A i \in 1 .. at : UpTo(l, at)[i] = l.buf[i - 1]
      BY <2>1, PartsOf
    <2>3. \A i \in 1 .. at : i - 1 \in 0 .. at - 1
      BY <1>2
    <2>4. \A i \in 1 .. at : UpTo(l, at)[i] = r.buf[i - 1]
      BY <1>7, <1>9, <2>2, <2>3
    <2> QED BY <1>8, <2>1, <2>2, <2>4, UpToIs
  <1>12. From(r, at) = From(l, at + 1)
    <2>1. at \in 0 .. r.len /\ at + 1 \in 0 .. l.len /\ r.len - at = n - (at + 1) /\ l.len = n
      BY <1>1, <1>2, <1>9 DEF n
    <2> DEFINE s == From(l, at + 1)
               q == n - (at + 1)
    <2>2. /\ s \in Seq(Printed) /\ Len(s) = l.len - (at + 1)
          /\ \A i \in 1 .. l.len - (at + 1) : s[i] = l.buf[(at + 1) + i - 1]
      BY <2>1, PartsOf
    <2> HIDE DEF s
    <2>3. s \in Seq(Printed) /\ Len(s) = q /\ \A i \in 1 .. q : s[i] = l.buf[(at + 1) + i - 1]
      BY <2>1, <2>2
    <2>4. \A i \in 1 .. q : at + i - 1 \in at .. n - 2 /\ (at + i - 1) + 1 = (at + 1) + i - 1
      BY <1>1, <1>2
    <2>5. \A i \in 1 .. q : s[i] = b[at + i - 1]
      BY <1>7, <2>3, <2>4
    <2> HIDE DEF q
    <2>6. r.len - at = q
      BY <2>1 DEF q
    <2>7. Len(s) = r.len - at /\ \A i \in 1 .. r.len - at : s[i] = r.buf[at + i - 1]
      BY <1>9, <2>3, <2>5, <2>6
    <2>8. From(r, at) = s
      BY <1>8, <2>1, <2>3, <2>7, FromIs
    <2> QED BY <2>8 DEF s
  <1>13. ErasedFrom(r, l, at)
    BY <1>8, <1>9, <1>10, <1>11, <1>12 DEF ErasedFrom, n
  <1> QED BY <1>3, <1>6, <1>13

\* A line cut in two.
HeadOf(h, l, at) ==
  /\ h \in TLines /\ h.len = at /\ CharsIn(h) = UpTo(l, at)
  /\ Closed(l) => Closed(h)

TailOf(t, l, at) ==
  /\ t \in TLines /\ t.len = l.len - at /\ CharsIn(t) = From(l, at)
  /\ Closed(l) => Closed(t)

\* What split keeps in the line.
LEMMA HeadIs ==
  ASSUME NEW l \in TLines, NEW at \in 0 .. l.len
  PROVE  HeadOf(SplitHead(l, at), l, at)
  <1>1. /\ l \in [buf : Bufs, len : Nat] /\ l.len \in Nat /\ Alloc(l) \in Nat /\ l.len <= Alloc(l)
        /\ l.buf \in [0 .. Alloc(l) - 1 -> Codes] /\ \A i \in 0 .. l.len - 1 : l.buf[i] \in Printed
    BY LineIs
  <1>2. CASE at >= l.len
    <2>1. SplitHead(l, at) = l /\ at = l.len
      BY <1>1, <1>2 DEF SplitHead
    <2> QED BY <2>1, Whole DEF HeadOf
  <1>3. CASE ~(at >= l.len)
    <2> DEFINE m == Alloc(l)
               b == [l.buf EXCEPT ![at] = Nul]
               h == [buf |-> b, len |-> at]
    <2>1. SplitHead(l, at) = h
      BY <1>1, <1>3 DEF SplitHead
    <2>2. at \in 0 .. m - 1 /\ at \in 0 .. m /\ at \in Nat
      BY <1>1, <1>3
    <2> HIDE DEF m
    <2>3. b \in [0 .. m - 1 -> Codes] /\ b[at] = Nul /\ \A i \in 0 .. at - 1 : b[i] = l.buf[i]
      BY <1>1, <2>2 DEF Codes, m
    <2> HIDE DEF b
    <2>4. \A i \in 0 .. at - 1 : b[i] \in Printed
      <3>1. \A i \in 0 .. at - 1 : i \in 0 .. l.len - 1
        BY <1>1
      <3> QED BY <1>1, <2>3, <3>1
    <2>5. h \in TLines /\ Alloc(h) = m
      BY <1>1, <2>2, <2>3, <2>4, IsLine DEF m
    <2>6. h.buf = b /\ h.len = at
      OBVIOUS
    <2> HIDE DEF h
    <2>7. CharsIn(h) = UpTo(l, at)
      <3>1. /\ CharsIn(h) \in Seq(Printed) /\ Len(CharsIn(h)) = at
            /\ \A i \in 1 .. at : CharsIn(h)[i] = b[i - 1]
        BY <2>5, <2>6, CharsAre
      <3>2. \A i \in 1 .. at : i - 1 \in 0 .. at - 1
        BY <2>2
      <3>3. \A i \in 1 .. at : CharsIn(h)[i] = l.buf[i - 1]
        BY <2>3, <3>1, <3>2
      <3> QED BY <3>1, <3>3, UpToIs
    <2>8. Closed(h)
      <3>1. at < m
        BY <1>1, <2>2 DEF m
      <3> QED BY <2>3, <2>5, <2>6, <3>1 DEF Closed
    <2> QED BY <2>1, <2>5, <2>6, <2>7, <2>8 DEF HeadOf
  <1> QED BY <1>2, <1>3

\* What split makes the next line of.
LEMMA TailIs ==
  ASSUME NEW l \in TLines, NEW at \in 0 .. l.len
  PROVE  TailOf(SplitTail(l, at), l, at)
  <1>1. /\ l \in [buf : Bufs, len : Nat] /\ l.len \in Nat /\ Alloc(l) \in Nat /\ l.len <= Alloc(l)
        /\ l.buf \in [0 .. Alloc(l) - 1 -> Codes] /\ \A i \in 0 .. l.len - 1 : l.buf[i] \in Printed
    BY LineIs
  <1>2. CASE at >= l.len
    <2>1. SplitTail(l, at) = NewLine /\ at = l.len /\ l.len - at = 0
      BY <1>1, <1>2 DEF SplitTail
    <2> QED BY <2>1, Whole, NewLineIs DEF TailOf
  <1>3. CASE ~(at >= l.len)
    <2> DEFINE n == l.len - at
               b == [i \in 0 .. n |-> Read(l.buf, at + i)]
               t == [buf |-> b, len |-> n]
    <2>1. SplitTail(l, at) = t
      BY <1>3 DEF SplitTail
    <2>2. n \in Nat /\ at \in Nat /\ at + n = l.len
      BY <1>1, <1>3
    <2> HIDE DEF n
    <2>3. \A i \in 0 .. n : Read(l.buf, at + i) \in Codes /\ (at + i < Alloc(l) => Read(l.buf, at + i) = l.buf[at + i])
      <3> TAKE i \in 0 .. n
      <3> DEFINE k == at + i
      <3>1. k \in Nat
        BY <2>2
      <3> HIDE DEF k
      <3>2. Read(l.buf, k) \in Codes /\ (k \in 0 .. Alloc(l) - 1 => Read(l.buf, k) = l.buf[k])
        <4> DEFINE b0 == l.buf
                   m == Alloc(l)
        <4>1. m \in Nat /\ b0 \in [0 .. m - 1 -> Codes] /\ k \in Int
          BY <1>1, <3>1
        <4> HIDE DEF b0, m
        <4>2. Read(b0, k) \in Codes /\ (k \in 0 .. m - 1 => Read(b0, k) = b0[k])
          BY <4>1, ReadIs
        <4> QED BY <4>2 DEF b0, m
      <3>3. k < Alloc(l) => k \in 0 .. Alloc(l) - 1
        BY <1>1, <3>1
      <3> QED BY <3>2, <3>3 DEF k
    <2>4. b \in [0 .. (n + 1) - 1 -> Codes] /\ \A i \in 0 .. n : at + i < Alloc(l) => b[i] = l.buf[at + i]
      <3>1. (n + 1) - 1 = n
        BY <2>2
      <3> QED BY <2>3, <3>1
    <2> HIDE DEF b
    <2>5. \A i \in 0 .. n - 1 : i \in 0 .. n /\ at + i < Alloc(l) /\ at + i \in 0 .. l.len - 1
      BY <1>1, <2>2
    <2>6. \A i \in 0 .. n - 1 : b[i] = l.buf[at + i] /\ b[i] \in Printed
      BY <1>1, <2>4, <2>5
    <2>7. t \in TLines /\ Alloc(t) = n + 1
      <3>1. n + 1 \in Nat /\ n \in 0 .. n + 1
        BY <2>2
      <3> QED BY <2>4, <2>6, <3>1, IsLine
    <2>8. t.buf = b /\ t.len = n
      OBVIOUS
    <2> HIDE DEF t
    <2>9. CharsIn(t) = From(l, at)
      <3>1. /\ CharsIn(t) \in Seq(Printed) /\ Len(CharsIn(t)) = n
            /\ \A i \in 1 .. n : CharsIn(t)[i] = b[i - 1]
        BY <2>7, <2>8, CharsAre
      <3>2. \A i \in 1 .. n : i - 1 \in 0 .. n - 1 /\ at + (i - 1) = at + i - 1
        BY <2>2
      <3>3. \A i \in 1 .. n : CharsIn(t)[i] = l.buf[at + i - 1]
        BY <2>6, <3>1, <3>2
      <3> QED BY <3>1, <3>3, FromIs DEF n
    <2>10. Closed(l) => Closed(t)
      <3> SUFFICES ASSUME Closed(l) PROVE Closed(t)
        OBVIOUS
      <3>1. at + n < Alloc(l) /\ l.buf[at + n] = Nul
        BY <2>2 DEF Closed
      <3>2. b[n] = Nul
        BY <2>2, <2>4, <3>1
      <3> QED BY <2>2, <2>7, <2>8, <3>2 DEF Closed
    <2> QED BY <2>1, <2>7, <2>8, <2>9, <2>10 DEF TailOf, n
  <1> QED BY <1>2, <1>3

\* Two lines made one.
AppendOf(r, l, other) ==
  /\ r \in TLines /\ r.len = l.len + other.len
  /\ UpTo(r, l.len) = CharsIn(l) /\ From(r, l.len) = CharsIn(other)

\* append puts the other line behind this one.
LEMMA AppendIs ==
  ASSUME NEW l \in TLines, NEW other \in TLines
  PROVE  AppendOf(append(l, other), l, other)
  <1>1. /\ l \in [buf : Bufs, len : Nat] /\ l.len \in Nat /\ Alloc(l) \in Nat /\ l.len <= Alloc(l)
        /\ l.buf \in [0 .. Alloc(l) - 1 -> Codes] /\ \A i \in 0 .. l.len - 1 : l.buf[i] \in Printed
    BY LineIs
  <1>2. /\ other.len \in Nat /\ Alloc(other) \in Nat /\ other.len <= Alloc(other)
        /\ other.buf \in [0 .. Alloc(other) - 1 -> Codes] /\ \A i \in 0 .. other.len - 1 : other.buf[i] \in Printed
    BY LineIs
  <1>3. CASE other.len = 0
    <2>1. append(l, other) = l /\ l.len = l.len + other.len
      BY <1>1, <1>3 DEF append
    <2>2. CharsIn(other) = <<>>
      BY <1>3, CharsAre
    <2> QED BY <2>1, <2>2, Whole DEF AppendOf
  <1>4. CASE other.len # 0
    <2> DEFINE n == l.len
               k == other.len
               g == grow(l, n + k)
               m == Alloc(g)
               b == Copied(g.buf, n, other.buf, 0, k)
               r == [buf |-> b, len |-> n + k]
    <2>1. append(l, other) = r
      BY <1>4 DEF append
    <2>2. Grown(g, l, n + k)
      <3>1. n + k \in Nat
        BY <1>1, <1>2
      <3> QED BY <3>1, GrowIs
    <2> HIDE DEF g
    <2>3. /\ m \in Nat /\ m >= n + k /\ g.buf \in [0 .. m - 1 -> Codes]
          /\ \A i \in 0 .. Alloc(l) - 1 : g.buf[i] = l.buf[i]
      BY <2>2 DEF Grown
    <2> HIDE DEF m, n
    <2>a. n \in Nat /\ k \in Nat /\ n + k \in 0 .. m /\ n = l.len
      BY <1>1, <1>2, <2>3 DEF n
    <2> DEFINE e == Alloc(other)
    <2>b. e \in Nat /\ k <= e /\ other.buf \in [0 .. e - 1 -> Codes]
      BY <1>2
    <2> HIDE DEF k, e
    <2>4. CopyOf(Copied(g.buf, n, other.buf, 0, k), m, g.buf, n, e, other.buf, 0, k)
      <3>1. 0 \in Nat /\ k \in Int
        BY <2>a
      <3> QED BY <2>3, <2>a, <2>b, <3>1, CopiedIs
    <2>5. /\ b \in [0 .. m - 1 -> Codes]
          /\ \A i \in 0 .. m - 1 :
               /\ i \notin n .. n + k - 1 => b[i] = g.buf[i]
               /\ i \in n .. n + k - 1 /\ i - n + 0 \in 0 .. e - 1 => b[i] = other.buf[i - n + 0]
      BY <2>4 DEF CopyOf
    <2> HIDE DEF b
    <2>6. \A i \in 0 .. n - 1 : b[i] = l.buf[i]
      <3>1. \A i \in 0 .. n - 1 : i \in 0 .. m - 1 /\ i \notin n .. n + k - 1 /\ i \in 0 .. Alloc(l) - 1
        BY <1>1, <2>3, <2>a
      <3> QED BY <2>3, <2>5, <3>1
    <2>7. \A i \in 0 .. k - 1 : b[n + i] = other.buf[i]
      <3>1. \A i \in 0 .. k - 1 : n + i \in 0 .. m - 1 /\ n + i \in n .. n + k - 1 /\ (n + i) - n + 0 = i /\ i \in 0 .. e - 1
        BY <2>3, <2>a, <2>b
      <3> TAKE i \in 0 .. k - 1
      <3> DEFINE j == n + i
      <3>2. j \in 0 .. m - 1 /\ j \in n .. n + k - 1 /\ j - n + 0 = i /\ i \in 0 .. e - 1
        BY <3>1
      <3> HIDE DEF j
      <3>3. b[j] = other.buf[j - n + 0]
        BY <2>5, <3>2
      <3> QED BY <3>2, <3>3 DEF j
    <2>8. r \in TLines
      <3>1. \A i \in 0 .. (n + k) - 1 : b[i] \in Printed
        <4> TAKE i \in 0 .. (n + k) - 1
        <4>1. CASE i \in 0 .. n - 1
          BY <1>1, <2>6, <2>a, <4>1
        <4>2. CASE i \notin 0 .. n - 1
          <5> DEFINE j == i - n
          <5>1. j \in 0 .. k - 1 /\ n + j = i
            BY <2>a, <4>2
          <5> HIDE DEF j
          <5>2. b[i] = other.buf[j]
            BY <2>7, <5>1
          <5> QED BY <1>2, <5>1, <5>2 DEF k
        <4> QED BY <4>1, <4>2
      <3> QED BY <2>3, <2>5, <2>a, <3>1, IsLine
    <2>9. r.buf = b /\ r.len = n + k
      OBVIOUS
    <2> HIDE DEF r
    <2>10. UpTo(r, n) = CharsIn(l)
      <3> DEFINE s == CharsIn(l)
      <3>1. s \in Seq(Printed) /\ Len(s) = n /\ \A i \in 1 .. n : s[i] = l.buf[i - 1]
        BY CharsAre, <2>a
      <3>2. \A i \in 1 .. n : i - 1 \in 0 .. n - 1
        BY <2>a
      <3> HIDE DEF s
      <3>3. \A i \in 1 .. n : s[i] = r.buf[i - 1]
        BY <2>6, <2>9, <3>1, <3>2
      <3>4. n \in 0 .. r.len
        BY <2>a, <2>9
      <3>5. UpTo(r, n) = s
        BY <2>8, <3>1, <3>3, <3>4, UpToIs
      <3> QED BY <3>5 DEF s
    <2>11. From(r, n) = CharsIn(other)
      <3> DEFINE s == CharsIn(other)
      <3>1. s \in Seq(Printed) /\ Len(s) = k /\ \A i \in 1 .. k : s[i] = other.buf[i - 1]
        BY CharsAre DEF k
      <3>2. \A i \in 1 .. k : i - 1 \in 0 .. k - 1 /\ n + (i - 1) = n + i - 1
        BY <2>a
      <3> HIDE DEF s
      <3>3. \A i \in 1 .. k : s[i] = r.buf[n + i - 1]
        BY <2>7, <2>9, <3>1, <3>2
      <3>4. n \in 0 .. r.len /\ r.len - n = k
        BY <2>a, <2>9
      <3>5. Len(s) = r.len - n /\ \A i \in 1 .. r.len - n : s[i] = r.buf[n + i - 1]
        BY <3>1, <3>3, <3>4
      <3>6. From(r, n) = s
        BY <2>8, <3>1, <3>4, <3>5, FromIs
      <3> QED BY <3>6 DEF s
    <2> QED BY <2>1, <2>8, <2>9, <2>10, <2>11 DEF AppendOf, n, k
  <1> QED BY <1>3, <1>4

\* Inserting a key's character makes no tab.
LEMMA PlainInserted ==
  ASSUME NEW l \in TLines, NEW c \in Keyed, NEW p \in 0 .. l.len, NEW r,
         InsertedIn(r, l, c, p), Plain(l)
  PROVE  Plain(r)
  <1> DEFINE k == p + 1
             u == UpTo(l, p)
  <1>1. /\ r \in TLines /\ r.len = l.len + 1 /\ UpTo(r, k) = Append(u, c) /\ From(r, k) = From(l, p)
    BY DEF InsertedIn
  <1>2. k \in 0 .. r.len
    BY <1>1, LineIs
  <1>3. u \in Seq(Keyed) /\ From(l, p) \in Seq(Keyed)
    BY PlainParts
  <1> HIDE DEF k, u
  <1>4. Append(u, c) \in Seq(Keyed)
    BY <1>3
  <1> QED BY <1>1, <1>2, <1>3, <1>4, PlainParts

\* It keeps a line slim that has room for it.
LEMMA SlimInserted ==
  ASSUME NEW l \in TLines, NEW c \in Keyed, NEW p \in 0 .. l.len, NEW r,
         InsertedIn(r, l, c, p), Slim(l), l.len + 1 <= XMax
  PROVE  Slim(r)
  BY PlainInserted DEF Slim, InsertedIn

\* So does removing a character,
LEMMA SlimErased ==
  ASSUME NEW l \in TLines, NEW p \in 0 .. l.len - 1, NEW r, ErasedFrom(r, l, p), Slim(l)
  PROVE  Slim(r)
  <1> DEFINE k == p + 1
  <1>1. r \in TLines /\ r.len = l.len - 1 /\ UpTo(r, p) = UpTo(l, p) /\ From(r, p) = From(l, k)
    BY DEF ErasedFrom
  <1>2. l.len \in Nat /\ XMax \in Nat /\ l.len <= XMax
    BY LineIs, ScreenAssumption DEF XMax, Slim
  <1>3. p \in 0 .. l.len /\ k \in 0 .. l.len /\ p \in 0 .. r.len /\ r.len <= XMax
    BY <1>1, <1>2
  <1> HIDE DEF k
  <1>4. UpTo(l, p) \in Seq(Keyed) /\ From(l, k) \in Seq(Keyed)
    BY <1>3, PlainParts DEF Slim
  <1>5. Plain(r)
    BY <1>1, <1>3, <1>4, PlainParts
  <1> QED BY <1>3, <1>5 DEF Slim

\* joining two lines that fit on the screen together,
LEMMA SlimJoined ==
  ASSUME NEW l \in TLines, NEW other \in TLines, NEW r, AppendOf(r, l, other),
         Slim(l), Slim(other), l.len + other.len <= XMax
  PROVE  Slim(r)
  <1>1. /\ r \in TLines /\ r.len = l.len + other.len
        /\ UpTo(r, l.len) = CharsIn(l) /\ From(r, l.len) = CharsIn(other)
    BY DEF AppendOf
  <1>2. l.len \in 0 .. r.len
    <2>1. l.len \in Nat /\ other.len \in Nat
      BY LineIs
    <2> QED BY <1>1, <2>1
  <1>3. Plain(r)
    BY <1>1, <1>2, PlainParts DEF Slim, Plain
  <1> QED BY <1>1, <1>3 DEF Slim

\* and splitting one.
LEMMA SlimSplit ==
  ASSUME NEW l \in TLines, NEW p \in 0 .. l.len, NEW h, NEW t,
         HeadOf(h, l, p), TailOf(t, l, p), Slim(l)
  PROVE  Slim(h) /\ Slim(t)
  <1>1. h.len = p /\ CharsIn(h) = UpTo(l, p) /\ t.len = l.len - p /\ CharsIn(t) = From(l, p)
    BY DEF HeadOf, TailOf
  <1>2. l.len \in Nat /\ XMax \in Nat /\ l.len <= XMax
    BY LineIs, ScreenAssumption DEF XMax, Slim
  <1>3. h.len <= XMax /\ t.len <= XMax
    BY <1>1, <1>2
  <1>4. UpTo(l, p) \in Seq(Keyed) /\ From(l, p) \in Seq(Keyed)
    BY PlainParts DEF Slim
  <1> QED BY <1>1, <1>3, <1>4 DEF Slim, Plain

\* What fputs writes of a line that has its terminator.
LEMMA CStringIs ==
  ASSUME NEW l \in TLines, Closed(l)
  PROVE  CString(l) = CharsIn(l)
  <1> DEFINE ends == {i \in DOMAIN l.buf : l.buf[i] = Nul}
             n == l.len
  <1>1. /\ n \in Nat /\ Alloc(l) \in Nat /\ n < Alloc(l) /\ l.buf[n] = Nul /\ DOMAIN l.buf = 0 .. Alloc(l) - 1
        /\ \A i \in 0 .. n - 1 : l.buf[i] \in Printed
    BY LineIs DEF Closed
  <1>2. n \in ends
    BY <1>1
  <1>3. \A i \in ends : i \in Nat /\ n <= i
    BY <1>1, Apart
  <1> HIDE DEF ends, n
  <1>4. (CHOOSE i \in ends : \A j \in ends : i <= j) = n
    <2>1. \A i \in ends : (\A j \in ends : i <= j) => i = n
      BY <1>1, <1>2, <1>3
    <2> QED BY <1>2, <1>3, <2>1
  <1>5. CString(l) = [i \in 1 .. n |-> Read(l.buf, i - 1)]
    <2>1. ends # {}
      BY <1>2
    <2> QED BY <1>4, <2>1 DEF CString, ends
  <1>6. \A i \in 1 .. n : Read(l.buf, i - 1) = l.buf[i - 1]
    BY <1>1 DEF Read
  <1> QED BY <1>5, <1>6 DEF CharsIn, n

-----------------------------------------------------------------------------
(* Folds: each is a recursive function over its sequence.                  *)

\* Taking the step st for each of n values: h gives where those at each set of
\* indexes lead.
Follows(h, n, base, s, st) ==
  h = [t \in SUBSET (1 .. n) |->
         IF t = {} THEN base ELSE st[<<h[t \ {Max(t)}], s[Max(t)]>>]]

\* The last of some indexes is one of them.
LEMMA Highest ==
  ASSUME NEW n \in Nat, NEW t \in SUBSET (1 .. n), t # {}
  PROVE  Max(t) \in t
  <1> DEFINE T == {n - j : j \in t}
  <1>1. T \in SUBSET Nat /\ T # {}
    <2>1. \A j \in t : j \in 1 .. n /\ n - j \in Nat
      OBVIOUS
    <2> QED BY <2>1
  <1>2. PICK q \in T : \A j \in T : q <= j
    <2> HIDE DEF T
    <2> QED BY <1>1, NatLeast
  <1>3. PICK m \in t : q = n - m
    OBVIOUS
  <1>4. \A j \in t : n - m <= n - j
    BY <1>2, <1>3
  <1>5. \A j \in t : j \in 1 .. n
    OBVIOUS
  <1>6. \A j \in t : m >= j
    BY <1>4, <1>5
  <1> QED BY <1>6 DEF Max

\* There is such an h, whatever the step is.
LEMMA PathsExist ==
  ASSUME NEW n \in Nat, NEW S, NEW A, NEW base \in S, NEW s \in [1 .. n -> A],
         NEW st \in [S \X A -> S]
  PROVE  \E h \in [SUBSET (1 .. n) -> S] : Follows(h, n, base, s, st)
  <1> DEFINE K == {k \in 0 .. n : \E h \in [SUBSET (1 .. k) -> S] : Follows(h, k, base, s, st)}
  <1>1. 0 \in K
    <2> DEFINE h == [t \in SUBSET (1 .. 0) |-> base]
    <2>1. \A t \in SUBSET (1 .. 0) : t = {}
      OBVIOUS
    <2>2. Follows(h, 0, base, s, st) /\ h \in [SUBSET (1 .. 0) -> S]
      BY <2>1 DEF Follows
    <2> HIDE DEF h
    <2>3. \E e \in [SUBSET (1 .. 0) -> S] : Follows(e, 0, base, s, st)
      BY <2>2
    <2>4. 0 \in 0 .. n
      OBVIOUS
    <2> QED BY <2>3, <2>4
  <1>2. ASSUME NEW k \in 0 .. n - 1, k \in K PROVE k + 1 \in K
    <2>1. PICK g \in [SUBSET (1 .. k) -> S] : Follows(g, k, base, s, st)
      BY <1>2
    <2> DEFINE h == [t \in SUBSET (1 .. k + 1) |->
                       IF k + 1 \in t THEN st[<<g[t \ {k + 1}], s[k + 1]>>] ELSE g[t]]
    <2>a. h \in [SUBSET (1 .. k + 1) -> S]
      <3>1. ASSUME NEW t \in SUBSET (1 .. k + 1)
            PROVE (IF k + 1 \in t THEN st[<<g[t \ {k + 1}], s[k + 1]>>] ELSE g[t]) \in S
        <4>1. CASE k + 1 \in t
          <5>1. t \ {k + 1} \in SUBSET (1 .. k) /\ k + 1 \in 1 .. n
            OBVIOUS
          <5>2. g[t \ {k + 1}] \in S /\ s[k + 1] \in A
            BY <5>1
          <5> QED BY <4>1, <5>2
        <4>2. CASE k + 1 \notin t
          <5>1. t \in SUBSET (1 .. k)
            BY <4>2
          <5> QED BY <4>2, <5>1
        <4> QED BY <4>1, <4>2
      <3> QED BY <3>1
    <2>2. ASSUME NEW t \in SUBSET (1 .. k + 1)
          PROVE  h[t] = IF t = {} THEN base ELSE st[<<h[t \ {Max(t)}], s[Max(t)]>>]
      <3>1. CASE k + 1 \in t
        <4>1. \A j \in t : k + 1 >= j
          OBVIOUS
        <4>2. \A j \in t : (\A i \in t : j >= i) => j = k + 1
          BY <3>1
        <4>3. Max(t) = k + 1
          BY <3>1, <4>1, <4>2 DEF Max
        <4>4. t \ {k + 1} \in SUBSET (1 .. k + 1) /\ k + 1 \notin t \ {k + 1}
          OBVIOUS
        <4>5. h[t \ {k + 1}] = g[t \ {k + 1}]
          BY <4>4
        <4>6. h[t] = st[<<g[t \ {k + 1}], s[k + 1]>>]
          BY <3>1
        <4> HIDE DEF h
        <4> QED BY <3>1, <4>3, <4>5, <4>6
      <3>2. CASE k + 1 \notin t
        <4>1. t \in SUBSET (1 .. k)
          BY <3>2
        <4>2. h[t] = g[t]
          BY <3>2
        <4>3. g[t] = IF t = {} THEN base ELSE st[<<g[t \ {Max(t)}], s[Max(t)]>>]
          BY <2>1, <4>1 DEF Follows
        <4>4. t \ {Max(t)} \in SUBSET (1 .. k + 1) /\ k + 1 \notin t \ {Max(t)}
          BY <3>2
        <4>5. h[t \ {Max(t)}] = g[t \ {Max(t)}]
          BY <4>4
        <4> HIDE DEF h
        <4> QED BY <4>2, <4>3, <4>5
      <3> QED BY <3>1, <3>2
    <2>3. Follows(h, k + 1, base, s, st)
      <3>1. h = [t \in SUBSET (1 .. k + 1) |-> h[t]]
        OBVIOUS
      <3> HIDE DEF h
      <3> QED BY <2>2, <3>1 DEF Follows
    <2> HIDE DEF h
    <2> QED BY <2>3, <2>a
  <1> HIDE DEF K
  <1>3. \A k \in 0 .. n : k \in K
    BY <1>1, <1>2, Climb
  <1>4. n \in K
    BY <1>3
  <1> QED BY <1>4 DEF K

\* The first i of n indexes.
FirstOf(n, i) ==
  /\ 1 .. i \in SUBSET (1 .. n) /\ 1 .. i # {}
  /\ Max(1 .. i) = i /\ (1 .. i) \ {i} = 1 .. i - 1

\* Without the last of the first i indexes there are the first i - 1.
LEMMA FirstFew ==
  ASSUME NEW n \in Nat, NEW i \in 1 .. n
  PROVE  FirstOf(n, i)
  <1>0. \A j \in 1 .. i : j \in 1 .. n
    OBVIOUS
  <1>a. 1 .. i \in SUBSET (1 .. n)
    <2> DEFINE a == 1 .. i
               b == 1 .. n
    <2>1. \A j \in a : j \in b
      BY <1>0
    <2> HIDE DEF a, b
    <2>2. a \in SUBSET b
      BY <2>1
    <2> QED BY <2>2 DEF a, b
  <1>1. i \in 1 .. i
    OBVIOUS
  <1>2. \A j \in 1 .. i : (\A k \in 1 .. i : j >= k) => j = i
    OBVIOUS
  <1>3. \A k \in 1 .. i : i >= k
    OBVIOUS
  <1>4. Max(1 .. i) = i
    BY <1>1, <1>2, <1>3 DEF Max
  <1>5. (1 .. i) \ {i} = 1 .. i - 1
    OBVIOUS
  <1> QED BY <1>a, <1>1, <1>4, <1>5 DEF FirstOf

\* The folds of the editor and of its screen.
FixedAll(base, s) == FoldLeft(PutFixed, base, s)

DrawnAll(base, s) == FoldLeft(DrawLine, base, s)

TabbedAll(base, s) == FoldLeft(TabAgain, base, s)

BlankedAll(base, s) == FoldLeft(BlankAgain, base, s)

LoadedAll(base, s) == FoldLeft(LoadChar, base, s)

Fixes(r, S, base, s) ==
  /\ r \in [0 .. Len(s) -> S] /\ r[0] = base /\ FixedAll(base, s) = r[Len(s)]
  /\ \A i \in 1 .. Len(s) : r[i] = PutFixed(r[i - 1], s[i])

\* The fold of PutFixed goes one character at a time.
LEMMA PutFixedRuns ==
  ASSUME NEW S, NEW A, NEW base \in S, NEW s \in Seq(A),
         \A z \in S, a \in A : PutFixed(z, a) \in S
  PROVE  \E r : Fixes(r, S, base, s)
  <1> DEFINE n == Len(s)
             st == [z \in S \X A |-> PutFixed(z[1], z[2])]
             h == CHOOSE h : h = [t \in SUBSET (DOMAIN s) |->
                    IF t = {} THEN base ELSE PutFixed(h[t \ {Max(t)}], s[Max(t)])]
  <1>1. DOMAIN s = 1 .. n /\ n \in Nat /\ s \in [1 .. n -> A]
    OBVIOUS
  <1>2. FixedAll(base, s) = h[DOMAIN s]
    BY Zenon DEF FoldLeft, MapThenFoldSet, FixedAll
  <1>3. st \in [S \X A -> S] /\ \A z \in S, a \in A : st[<<z, a>>] = PutFixed(z, a)
    OBVIOUS
  <1> HIDE DEF n, st
  <1>4. PICK g \in [SUBSET (1 .. n) -> S] : Follows(g, n, base, s, st)
    BY <1>1, <1>3, PathsExist
  <1>5. ASSUME NEW t \in SUBSET (1 .. n)
        PROVE  g[t] = IF t = {} THEN base ELSE PutFixed(g[t \ {Max(t)}], s[Max(t)])
    <2>1. CASE t = {}
      BY <1>4, <2>1 DEF Follows
    <2>2. CASE t # {}
      <3>1. Max(t) \in 1 .. n /\ t \ {Max(t)} \in SUBSET (1 .. n)
        BY <1>1, <2>2, Highest
      <3>2. g[t \ {Max(t)}] \in S /\ s[Max(t)] \in A
        BY <1>1, <3>1
      <3>3. g[t] = st[<<g[t \ {Max(t)}], s[Max(t)]>>]
        BY <1>4, <2>2 DEF Follows
      <3> QED BY <1>3, <2>2, <3>2, <3>3
    <2> QED BY <2>1, <2>2
  <1>6. g = [t \in SUBSET (DOMAIN s) |-> IF t = {} THEN base ELSE PutFixed(g[t \ {Max(t)}], s[Max(t)])]
    <2>1. g = [t \in SUBSET (1 .. n) |-> g[t]]
      OBVIOUS
    <2> QED BY <1>1, <1>5, <2>1
  <1>7. h = [t \in SUBSET (DOMAIN s) |-> IF t = {} THEN base ELSE PutFixed(h[t \ {Max(t)}], s[Max(t)])]
    BY <1>6, Zenon
  <1> HIDE DEF h
  <1>8. h[1 .. 0] = base
    BY <1>1, <1>7
  <1>9. ASSUME NEW i \in 1 .. n PROVE h[1 .. i] = PutFixed(h[1 .. i - 1], s[i])
    <2>0. FirstOf(n, i)
      BY <1>1, FirstFew
    <2>1. /\ 1 .. i \in SUBSET (DOMAIN s) /\ 1 .. i # {}
          /\ Max(1 .. i) = i /\ (1 .. i) \ {i} = 1 .. i - 1
      BY <1>1, <2>0 DEF FirstOf
    <2>2. h[1 .. i] = PutFixed(h[(1 .. i) \ {Max(1 .. i)}], s[Max(1 .. i)])
      BY <1>7, <2>1
    <2> QED BY <2>1, <2>2
  <1>10. \A i \in 0 .. n : h[1 .. i] \in S
    <2> DEFINE I == {i \in 0 .. n : h[1 .. i] \in S}
    <2>1. 0 \in I
      BY <1>1, <1>8
    <2>2. \A i \in 0 .. n - 1 : i \in I => i + 1 \in I
      <3> SUFFICES ASSUME NEW i \in 0 .. n - 1, h[1 .. i] \in S PROVE h[1 .. i + 1] \in S
        BY <1>1
      <3>1. i + 1 \in 1 .. n /\ (i + 1) - 1 = i /\ s[i + 1] \in A
        BY <1>1
      <3>2. h[1 .. i + 1] = PutFixed(h[1 .. (i + 1) - 1], s[i + 1])
        BY <1>9, <3>1
      <3> QED BY <3>1, <3>2
    <2> HIDE DEF I
    <2>3. \A i \in 0 .. n : i \in I
      BY <1>1, <2>1, <2>2, Climb
    <2> QED BY <2>3 DEF I
  <1> DEFINE r == [i \in 0 .. n |-> h[1 .. i]]
  <1>11. r \in [0 .. n -> S] /\ r[0] = base /\ r[n] = h[DOMAIN s]
    <2>1. 0 \in 0 .. n /\ n \in 0 .. n
      BY <1>1
    <2> QED BY <1>1, <1>8, <1>10, <2>1
  <1>12. \A i \in 1 .. n : r[i] = PutFixed(r[i - 1], s[i])
    <2> TAKE i \in 1 .. n
    <2>1. i \in 0 .. n /\ i - 1 \in 0 .. n
      BY <1>1
    <2> QED BY <1>9, <2>1
  <1> HIDE DEF r
  <1>13. Fixes(r, S, base, s)
    BY <1>2, <1>11, <1>12 DEF n, Fixes
  <1> QED BY <1>13

Draws(r, S, base, s) ==
  /\ r \in [0 .. Len(s) -> S] /\ r[0] = base /\ DrawnAll(base, s) = r[Len(s)]
  /\ \A i \in 1 .. Len(s) : r[i] = DrawLine(r[i - 1], s[i])

\* The fold of DrawLine goes one line at a time.
LEMMA DrawLineRuns ==
  ASSUME NEW S, NEW A, NEW base \in S, NEW s \in Seq(A),
         \A z \in S, a \in A : DrawLine(z, a) \in S
  PROVE  \E r : Draws(r, S, base, s)
  <1> DEFINE n == Len(s)
             st == [z \in S \X A |-> DrawLine(z[1], z[2])]
             h == CHOOSE h : h = [t \in SUBSET (DOMAIN s) |->
                    IF t = {} THEN base ELSE DrawLine(h[t \ {Max(t)}], s[Max(t)])]
  <1>1. DOMAIN s = 1 .. n /\ n \in Nat /\ s \in [1 .. n -> A]
    OBVIOUS
  <1>2. DrawnAll(base, s) = h[DOMAIN s]
    BY Zenon DEF FoldLeft, MapThenFoldSet, DrawnAll
  <1>3. st \in [S \X A -> S] /\ \A z \in S, a \in A : st[<<z, a>>] = DrawLine(z, a)
    OBVIOUS
  <1> HIDE DEF n, st
  <1>4. PICK g \in [SUBSET (1 .. n) -> S] : Follows(g, n, base, s, st)
    BY <1>1, <1>3, PathsExist
  <1>5. ASSUME NEW t \in SUBSET (1 .. n)
        PROVE  g[t] = IF t = {} THEN base ELSE DrawLine(g[t \ {Max(t)}], s[Max(t)])
    <2>1. CASE t = {}
      BY <1>4, <2>1 DEF Follows
    <2>2. CASE t # {}
      <3>1. Max(t) \in 1 .. n /\ t \ {Max(t)} \in SUBSET (1 .. n)
        BY <1>1, <2>2, Highest
      <3>2. g[t \ {Max(t)}] \in S /\ s[Max(t)] \in A
        BY <1>1, <3>1
      <3>3. g[t] = st[<<g[t \ {Max(t)}], s[Max(t)]>>]
        BY <1>4, <2>2 DEF Follows
      <3> QED BY <1>3, <2>2, <3>2, <3>3
    <2> QED BY <2>1, <2>2
  <1>6. g = [t \in SUBSET (DOMAIN s) |-> IF t = {} THEN base ELSE DrawLine(g[t \ {Max(t)}], s[Max(t)])]
    <2>1. g = [t \in SUBSET (1 .. n) |-> g[t]]
      OBVIOUS
    <2> QED BY <1>1, <1>5, <2>1
  <1>7. h = [t \in SUBSET (DOMAIN s) |-> IF t = {} THEN base ELSE DrawLine(h[t \ {Max(t)}], s[Max(t)])]
    BY <1>6, Zenon
  <1> HIDE DEF h
  <1>8. h[1 .. 0] = base
    BY <1>1, <1>7
  <1>9. ASSUME NEW i \in 1 .. n PROVE h[1 .. i] = DrawLine(h[1 .. i - 1], s[i])
    <2>0. FirstOf(n, i)
      BY <1>1, FirstFew
    <2>1. /\ 1 .. i \in SUBSET (DOMAIN s) /\ 1 .. i # {}
          /\ Max(1 .. i) = i /\ (1 .. i) \ {i} = 1 .. i - 1
      BY <1>1, <2>0 DEF FirstOf
    <2>2. h[1 .. i] = DrawLine(h[(1 .. i) \ {Max(1 .. i)}], s[Max(1 .. i)])
      BY <1>7, <2>1
    <2> QED BY <2>1, <2>2
  <1>10. \A i \in 0 .. n : h[1 .. i] \in S
    <2> DEFINE I == {i \in 0 .. n : h[1 .. i] \in S}
    <2>1. 0 \in I
      BY <1>1, <1>8
    <2>2. \A i \in 0 .. n - 1 : i \in I => i + 1 \in I
      <3> SUFFICES ASSUME NEW i \in 0 .. n - 1, h[1 .. i] \in S PROVE h[1 .. i + 1] \in S
        BY <1>1
      <3>1. i + 1 \in 1 .. n /\ (i + 1) - 1 = i /\ s[i + 1] \in A
        BY <1>1
      <3>2. h[1 .. i + 1] = DrawLine(h[1 .. (i + 1) - 1], s[i + 1])
        BY <1>9, <3>1
      <3> QED BY <3>1, <3>2
    <2> HIDE DEF I
    <2>3. \A i \in 0 .. n : i \in I
      BY <1>1, <2>1, <2>2, Climb
    <2> QED BY <2>3 DEF I
  <1> DEFINE r == [i \in 0 .. n |-> h[1 .. i]]
  <1>11. r \in [0 .. n -> S] /\ r[0] = base /\ r[n] = h[DOMAIN s]
    <2>1. 0 \in 0 .. n /\ n \in 0 .. n
      BY <1>1
    <2> QED BY <1>1, <1>8, <1>10, <2>1
  <1>12. \A i \in 1 .. n : r[i] = DrawLine(r[i - 1], s[i])
    <2> TAKE i \in 1 .. n
    <2>1. i \in 0 .. n /\ i - 1 \in 0 .. n
      BY <1>1
    <2> QED BY <1>9, <2>1
  <1> HIDE DEF r
  <1>13. Draws(r, S, base, s)
    BY <1>2, <1>11, <1>12 DEF n, Draws
  <1> QED BY <1>13

Tabbing(r, S, base, s) ==
  /\ r \in [0 .. Len(s) -> S] /\ r[0] = base /\ TabbedAll(base, s) = r[Len(s)]
  /\ \A i \in 1 .. Len(s) : r[i] = TabAgain(r[i - 1], s[i])

\* The fold of TabAgain goes one blank at a time.
LEMMA TabAgainRuns ==
  ASSUME NEW S, NEW A, NEW base \in S, NEW s \in Seq(A),
         \A z \in S, a \in A : TabAgain(z, a) \in S
  PROVE  \E r : Tabbing(r, S, base, s)
  <1> DEFINE n == Len(s)
             st == [z \in S \X A |-> TabAgain(z[1], z[2])]
             h == CHOOSE h : h = [t \in SUBSET (DOMAIN s) |->
                    IF t = {} THEN base ELSE TabAgain(h[t \ {Max(t)}], s[Max(t)])]
  <1>1. DOMAIN s = 1 .. n /\ n \in Nat /\ s \in [1 .. n -> A]
    OBVIOUS
  <1>2. TabbedAll(base, s) = h[DOMAIN s]
    BY Zenon DEF FoldLeft, MapThenFoldSet, TabbedAll
  <1>3. st \in [S \X A -> S] /\ \A z \in S, a \in A : st[<<z, a>>] = TabAgain(z, a)
    OBVIOUS
  <1> HIDE DEF n, st
  <1>4. PICK g \in [SUBSET (1 .. n) -> S] : Follows(g, n, base, s, st)
    BY <1>1, <1>3, PathsExist
  <1>5. ASSUME NEW t \in SUBSET (1 .. n)
        PROVE  g[t] = IF t = {} THEN base ELSE TabAgain(g[t \ {Max(t)}], s[Max(t)])
    <2>1. CASE t = {}
      BY <1>4, <2>1 DEF Follows
    <2>2. CASE t # {}
      <3>1. Max(t) \in 1 .. n /\ t \ {Max(t)} \in SUBSET (1 .. n)
        BY <1>1, <2>2, Highest
      <3>2. g[t \ {Max(t)}] \in S /\ s[Max(t)] \in A
        BY <1>1, <3>1
      <3>3. g[t] = st[<<g[t \ {Max(t)}], s[Max(t)]>>]
        BY <1>4, <2>2 DEF Follows
      <3> QED BY <1>3, <2>2, <3>2, <3>3
    <2> QED BY <2>1, <2>2
  <1>6. g = [t \in SUBSET (DOMAIN s) |-> IF t = {} THEN base ELSE TabAgain(g[t \ {Max(t)}], s[Max(t)])]
    <2>1. g = [t \in SUBSET (1 .. n) |-> g[t]]
      OBVIOUS
    <2> QED BY <1>1, <1>5, <2>1
  <1>7. h = [t \in SUBSET (DOMAIN s) |-> IF t = {} THEN base ELSE TabAgain(h[t \ {Max(t)}], s[Max(t)])]
    BY <1>6, Zenon
  <1> HIDE DEF h
  <1>8. h[1 .. 0] = base
    BY <1>1, <1>7
  <1>9. ASSUME NEW i \in 1 .. n PROVE h[1 .. i] = TabAgain(h[1 .. i - 1], s[i])
    <2>0. FirstOf(n, i)
      BY <1>1, FirstFew
    <2>1. /\ 1 .. i \in SUBSET (DOMAIN s) /\ 1 .. i # {}
          /\ Max(1 .. i) = i /\ (1 .. i) \ {i} = 1 .. i - 1
      BY <1>1, <2>0 DEF FirstOf
    <2>2. h[1 .. i] = TabAgain(h[(1 .. i) \ {Max(1 .. i)}], s[Max(1 .. i)])
      BY <1>7, <2>1
    <2> QED BY <2>1, <2>2
  <1>10. \A i \in 0 .. n : h[1 .. i] \in S
    <2> DEFINE I == {i \in 0 .. n : h[1 .. i] \in S}
    <2>1. 0 \in I
      BY <1>1, <1>8
    <2>2. \A i \in 0 .. n - 1 : i \in I => i + 1 \in I
      <3> SUFFICES ASSUME NEW i \in 0 .. n - 1, h[1 .. i] \in S PROVE h[1 .. i + 1] \in S
        BY <1>1
      <3>1. i + 1 \in 1 .. n /\ (i + 1) - 1 = i /\ s[i + 1] \in A
        BY <1>1
      <3>2. h[1 .. i + 1] = TabAgain(h[1 .. (i + 1) - 1], s[i + 1])
        BY <1>9, <3>1
      <3> QED BY <3>1, <3>2
    <2> HIDE DEF I
    <2>3. \A i \in 0 .. n : i \in I
      BY <1>1, <2>1, <2>2, Climb
    <2> QED BY <2>3 DEF I
  <1> DEFINE r == [i \in 0 .. n |-> h[1 .. i]]
  <1>11. r \in [0 .. n -> S] /\ r[0] = base /\ r[n] = h[DOMAIN s]
    <2>1. 0 \in 0 .. n /\ n \in 0 .. n
      BY <1>1
    <2> QED BY <1>1, <1>8, <1>10, <2>1
  <1>12. \A i \in 1 .. n : r[i] = TabAgain(r[i - 1], s[i])
    <2> TAKE i \in 1 .. n
    <2>1. i \in 0 .. n /\ i - 1 \in 0 .. n
      BY <1>1
    <2> QED BY <1>9, <2>1
  <1> HIDE DEF r
  <1>13. Tabbing(r, S, base, s)
    BY <1>2, <1>11, <1>12 DEF n, Tabbing
  <1> QED BY <1>13

Blanking(r, S, base, s) ==
  /\ r \in [0 .. Len(s) -> S] /\ r[0] = base /\ BlankedAll(base, s) = r[Len(s)]
  /\ \A i \in 1 .. Len(s) : r[i] = BlankAgain(r[i - 1], s[i])

\* The fold of BlankAgain goes one blank at a time.
LEMMA BlankAgainRuns ==
  ASSUME NEW S, NEW A, NEW base \in S, NEW s \in Seq(A),
         \A z \in S, a \in A : BlankAgain(z, a) \in S
  PROVE  \E r : Blanking(r, S, base, s)
  <1> DEFINE n == Len(s)
             st == [z \in S \X A |-> BlankAgain(z[1], z[2])]
             h == CHOOSE h : h = [t \in SUBSET (DOMAIN s) |->
                    IF t = {} THEN base ELSE BlankAgain(h[t \ {Max(t)}], s[Max(t)])]
  <1>1. DOMAIN s = 1 .. n /\ n \in Nat /\ s \in [1 .. n -> A]
    OBVIOUS
  <1>2. BlankedAll(base, s) = h[DOMAIN s]
    BY Zenon DEF FoldLeft, MapThenFoldSet, BlankedAll
  <1>3. st \in [S \X A -> S] /\ \A z \in S, a \in A : st[<<z, a>>] = BlankAgain(z, a)
    OBVIOUS
  <1> HIDE DEF n, st
  <1>4. PICK g \in [SUBSET (1 .. n) -> S] : Follows(g, n, base, s, st)
    BY <1>1, <1>3, PathsExist
  <1>5. ASSUME NEW t \in SUBSET (1 .. n)
        PROVE  g[t] = IF t = {} THEN base ELSE BlankAgain(g[t \ {Max(t)}], s[Max(t)])
    <2>1. CASE t = {}
      BY <1>4, <2>1 DEF Follows
    <2>2. CASE t # {}
      <3>1. Max(t) \in 1 .. n /\ t \ {Max(t)} \in SUBSET (1 .. n)
        BY <1>1, <2>2, Highest
      <3>2. g[t \ {Max(t)}] \in S /\ s[Max(t)] \in A
        BY <1>1, <3>1
      <3>3. g[t] = st[<<g[t \ {Max(t)}], s[Max(t)]>>]
        BY <1>4, <2>2 DEF Follows
      <3> QED BY <1>3, <2>2, <3>2, <3>3
    <2> QED BY <2>1, <2>2
  <1>6. g = [t \in SUBSET (DOMAIN s) |-> IF t = {} THEN base ELSE BlankAgain(g[t \ {Max(t)}], s[Max(t)])]
    <2>1. g = [t \in SUBSET (1 .. n) |-> g[t]]
      OBVIOUS
    <2> QED BY <1>1, <1>5, <2>1
  <1>7. h = [t \in SUBSET (DOMAIN s) |-> IF t = {} THEN base ELSE BlankAgain(h[t \ {Max(t)}], s[Max(t)])]
    BY <1>6, Zenon
  <1> HIDE DEF h
  <1>8. h[1 .. 0] = base
    BY <1>1, <1>7
  <1>9. ASSUME NEW i \in 1 .. n PROVE h[1 .. i] = BlankAgain(h[1 .. i - 1], s[i])
    <2>0. FirstOf(n, i)
      BY <1>1, FirstFew
    <2>1. /\ 1 .. i \in SUBSET (DOMAIN s) /\ 1 .. i # {}
          /\ Max(1 .. i) = i /\ (1 .. i) \ {i} = 1 .. i - 1
      BY <1>1, <2>0 DEF FirstOf
    <2>2. h[1 .. i] = BlankAgain(h[(1 .. i) \ {Max(1 .. i)}], s[Max(1 .. i)])
      BY <1>7, <2>1
    <2> QED BY <2>1, <2>2
  <1>10. \A i \in 0 .. n : h[1 .. i] \in S
    <2> DEFINE I == {i \in 0 .. n : h[1 .. i] \in S}
    <2>1. 0 \in I
      BY <1>1, <1>8
    <2>2. \A i \in 0 .. n - 1 : i \in I => i + 1 \in I
      <3> SUFFICES ASSUME NEW i \in 0 .. n - 1, h[1 .. i] \in S PROVE h[1 .. i + 1] \in S
        BY <1>1
      <3>1. i + 1 \in 1 .. n /\ (i + 1) - 1 = i /\ s[i + 1] \in A
        BY <1>1
      <3>2. h[1 .. i + 1] = BlankAgain(h[1 .. (i + 1) - 1], s[i + 1])
        BY <1>9, <3>1
      <3> QED BY <3>1, <3>2
    <2> HIDE DEF I
    <2>3. \A i \in 0 .. n : i \in I
      BY <1>1, <2>1, <2>2, Climb
    <2> QED BY <2>3 DEF I
  <1> DEFINE r == [i \in 0 .. n |-> h[1 .. i]]
  <1>11. r \in [0 .. n -> S] /\ r[0] = base /\ r[n] = h[DOMAIN s]
    <2>1. 0 \in 0 .. n /\ n \in 0 .. n
      BY <1>1
    <2> QED BY <1>1, <1>8, <1>10, <2>1
  <1>12. \A i \in 1 .. n : r[i] = BlankAgain(r[i - 1], s[i])
    <2> TAKE i \in 1 .. n
    <2>1. i \in 0 .. n /\ i - 1 \in 0 .. n
      BY <1>1
    <2> QED BY <1>9, <2>1
  <1> HIDE DEF r
  <1>13. Blanking(r, S, base, s)
    BY <1>2, <1>11, <1>12 DEF n, Blanking
  <1> QED BY <1>13

Loading(r, S, base, s) ==
  /\ r \in [0 .. Len(s) -> S] /\ r[0] = base /\ LoadedAll(base, s) = r[Len(s)]
  /\ \A i \in 1 .. Len(s) : r[i] = LoadChar(r[i - 1], s[i])

\* The fold of LoadChar goes one character at a time.
LEMMA LoadCharRuns ==
  ASSUME NEW S, NEW A, NEW base \in S, NEW s \in Seq(A),
         \A z \in S, a \in A : LoadChar(z, a) \in S
  PROVE  \E r : Loading(r, S, base, s)
  <1> DEFINE n == Len(s)
             st == [z \in S \X A |-> LoadChar(z[1], z[2])]
             h == CHOOSE h : h = [t \in SUBSET (DOMAIN s) |->
                    IF t = {} THEN base ELSE LoadChar(h[t \ {Max(t)}], s[Max(t)])]
  <1>1. DOMAIN s = 1 .. n /\ n \in Nat /\ s \in [1 .. n -> A]
    OBVIOUS
  <1>2. LoadedAll(base, s) = h[DOMAIN s]
    BY Zenon DEF FoldLeft, MapThenFoldSet, LoadedAll
  <1>3. st \in [S \X A -> S] /\ \A z \in S, a \in A : st[<<z, a>>] = LoadChar(z, a)
    OBVIOUS
  <1> HIDE DEF n, st
  <1>4. PICK g \in [SUBSET (1 .. n) -> S] : Follows(g, n, base, s, st)
    BY <1>1, <1>3, PathsExist
  <1>5. ASSUME NEW t \in SUBSET (1 .. n)
        PROVE  g[t] = IF t = {} THEN base ELSE LoadChar(g[t \ {Max(t)}], s[Max(t)])
    <2>1. CASE t = {}
      BY <1>4, <2>1 DEF Follows
    <2>2. CASE t # {}
      <3>1. Max(t) \in 1 .. n /\ t \ {Max(t)} \in SUBSET (1 .. n)
        BY <1>1, <2>2, Highest
      <3>2. g[t \ {Max(t)}] \in S /\ s[Max(t)] \in A
        BY <1>1, <3>1
      <3>3. g[t] = st[<<g[t \ {Max(t)}], s[Max(t)]>>]
        BY <1>4, <2>2 DEF Follows
      <3> QED BY <1>3, <2>2, <3>2, <3>3
    <2> QED BY <2>1, <2>2
  <1>6. g = [t \in SUBSET (DOMAIN s) |-> IF t = {} THEN base ELSE LoadChar(g[t \ {Max(t)}], s[Max(t)])]
    <2>1. g = [t \in SUBSET (1 .. n) |-> g[t]]
      OBVIOUS
    <2> QED BY <1>1, <1>5, <2>1
  <1>7. h = [t \in SUBSET (DOMAIN s) |-> IF t = {} THEN base ELSE LoadChar(h[t \ {Max(t)}], s[Max(t)])]
    BY <1>6, Zenon
  <1> HIDE DEF h
  <1>8. h[1 .. 0] = base
    BY <1>1, <1>7
  <1>9. ASSUME NEW i \in 1 .. n PROVE h[1 .. i] = LoadChar(h[1 .. i - 1], s[i])
    <2>0. FirstOf(n, i)
      BY <1>1, FirstFew
    <2>1. /\ 1 .. i \in SUBSET (DOMAIN s) /\ 1 .. i # {}
          /\ Max(1 .. i) = i /\ (1 .. i) \ {i} = 1 .. i - 1
      BY <1>1, <2>0 DEF FirstOf
    <2>2. h[1 .. i] = LoadChar(h[(1 .. i) \ {Max(1 .. i)}], s[Max(1 .. i)])
      BY <1>7, <2>1
    <2> QED BY <2>1, <2>2
  <1>10. \A i \in 0 .. n : h[1 .. i] \in S
    <2> DEFINE I == {i \in 0 .. n : h[1 .. i] \in S}
    <2>1. 0 \in I
      BY <1>1, <1>8
    <2>2. \A i \in 0 .. n - 1 : i \in I => i + 1 \in I
      <3> SUFFICES ASSUME NEW i \in 0 .. n - 1, h[1 .. i] \in S PROVE h[1 .. i + 1] \in S
        BY <1>1
      <3>1. i + 1 \in 1 .. n /\ (i + 1) - 1 = i /\ s[i + 1] \in A
        BY <1>1
      <3>2. h[1 .. i + 1] = LoadChar(h[1 .. (i + 1) - 1], s[i + 1])
        BY <1>9, <3>1
      <3> QED BY <3>1, <3>2
    <2> HIDE DEF I
    <2>3. \A i \in 0 .. n : i \in I
      BY <1>1, <2>1, <2>2, Climb
    <2> QED BY <2>3 DEF I
  <1> DEFINE r == [i \in 0 .. n |-> h[1 .. i]]
  <1>11. r \in [0 .. n -> S] /\ r[0] = base /\ r[n] = h[DOMAIN s]
    <2>1. 0 \in 0 .. n /\ n \in 0 .. n
      BY <1>1
    <2> QED BY <1>1, <1>8, <1>10, <2>1
  <1>12. \A i \in 1 .. n : r[i] = LoadChar(r[i - 1], s[i])
    <2> TAKE i \in 1 .. n
    <2>1. i \in 0 .. n /\ i - 1 \in 0 .. n
      BY <1>1
    <2> QED BY <1>9, <2>1
  <1> HIDE DEF r
  <1>13. Loading(r, S, base, s)
    BY <1>2, <1>11, <1>12 DEF n, Loading
  <1> QED BY <1>13

-----------------------------------------------------------------------------
(* The screen: what filling, writing and drawing change of its rows.       *)

\* What the editor's screen shows.
Inks == Printed \cup {Bar}

\* Every cell shows a character or the menu's bar.
Pages == [Pos -> Inks]

\* And the cursor is at one of them.
Screens == {Scr(c, x, y) : c \in Pages, x \in 0 .. XMax, y \in 0 .. YMax}

\* A screen is its cells and its cursor.
LEMMA ScreenIs ==
  ASSUME NEW z \in Screens
  PROVE  /\ z = Scr(z.cells, z.x, z.y)
         /\ z.cells \in Pages /\ z.x \in 0 .. XMax /\ z.y \in 0 .. YMax
  <1>1. PICK c \in Pages, x \in 0 .. XMax, y \in 0 .. YMax : z = Scr(c, x, y)
    BY DEF Screens
  <1>2. z.cells = c /\ z.x = x /\ z.y = y
    BY <1>1, ScrFields
  <1> QED BY <1>1, <1>2

\* And such cells and cursor are a screen.
LEMMA IsScreen ==
  ASSUME NEW c \in Pages, NEW x \in 0 .. XMax, NEW y \in 0 .. YMax
  PROVE  Scr(c, x, y) \in Screens
  BY DEF Screens

\* The cursor put anywhere is on the screen.
LEMMA AtAny ==
  ASSUME NEW c \in Pages, NEW a, NEW b, NEW p \in Nat
  PROVE  At(Scr(c, a, b), p) \in Screens /\ At(Scr(c, a, b), p).cells = c
  <1> DEFINE q == IF p > PosMax THEN PosMax ELSE p
  <1>1. q \in Pos
    BY Sizes DEF Pos
  <1> HIDE DEF q
  <1>2. q % XLen \in 0 .. XMax /\ q \div XLen \in 0 .. YMax
    BY <1>1, Located
  <1>3. At(Scr(c, a, b), p) = [Scr(c, a, b) EXCEPT !.x = q % XLen, !.y = q \div XLen]
    BY DEF At, q
  <1>4. At(Scr(c, a, b), p) = Scr(c, q % XLen, q \div XLen)
    BY <1>3 DEF Scr
  <1> QED BY <1>2, <1>4, IsScreen, ScrFields

\* set_pos keeps the cursor on the screen and the cells as they are.
LEMMA MoveAny ==
  ASSUME NEW c \in Pages, NEW a, NEW b, NEW x \in Int, NEW y \in Int
  PROVE  Move(Scr(c, a, b), x, y) \in Screens /\ Move(Scr(c, a, b), x, y).cells = c
  <1>1. Clamp(x, XMax) \in 0 .. XMax /\ Clamp(y, YMax) \in 0 .. YMax
    BY Sizes DEF Clamp
  <1> DEFINE p == vga_xy(Clamp(x, XMax), Clamp(y, YMax))
  <1>2. p \in Nat
    <2>1. p \in Pos
      BY <1>1, Placed
    <2> QED BY <2>1, Located
  <1> HIDE DEF p
  <1>3. Move(Scr(c, a, b), x, y) = At(Scr(c, a, b), p)
    BY DEF Move, p
  <1> QED BY <1>2, <1>3, AtAny

\* f is z with g on the rows a .. b - 1.
FilledIs(f, z, a, b, g) ==
  /\ f \in Screens
  /\ \A y \in 0 .. YMax : Row(f, y) = IF y \in a .. b - 1 THEN [i \in 1 .. XLen |-> g] ELSE Row(z, y)

\* fill_line_multi fills the rows from a up to b and no other.
LEMMA Filled ==
  ASSUME NEW z \in Screens, NEW a \in Int, NEW b \in Int, NEW g \in Inks
  PROVE  FilledIs(fill_line_multi(z, a, b, g), z, a, b, g)
  <1> DEFINE c == z.cells
             d == [p \in Pos |-> IF p \div XLen \in a .. b - 1 THEN g ELSE c[p]]
             f == fill_line_multi(z, a, b, g)
  <1>1. c \in Pages /\ z.x \in 0 .. XMax /\ z.y \in 0 .. YMax /\ z = Scr(c, z.x, z.y)
    BY ScreenIs
  <1>2. d \in Pages
    BY <1>1 DEF Pages
  <1>3. f = [z EXCEPT !.cells = d]
    BY DEF fill_line_multi
  <1> HIDE DEF c, d, f
  <1>4. f = Scr(d, z.x, z.y)
    <2>1. [Scr(c, z.x, z.y) EXCEPT !.cells = d] = Scr(d, z.x, z.y)
      BY DEF Scr
    <2> QED BY <1>1, <1>3, <2>1
  <1>5. f \in Screens /\ f.cells = d
    BY <1>1, <1>2, <1>4, IsScreen, ScrFields
  <1>6. ASSUME NEW y \in 0 .. YMax
        PROVE  Row(f, y) = IF y \in a .. b - 1 THEN [i \in 1 .. XLen |-> g] ELSE Row(z, y)
    <2>1. \A i \in 1 .. XLen : vga_xy(i - 1, y) \in Pos /\ vga_xy(i - 1, y) \div XLen = y
      <3> TAKE i \in 1 .. XLen
      <3> DEFINE x == i - 1
      <3>1. x \in 0 .. XMax
        BY Sizes
      <3> HIDE DEF x
      <3>2. vga_xy(x, y) \in Pos /\ vga_xy(x, y) \div XLen = y
        BY <3>1, Placed
      <3> QED BY <3>2 DEF x
    <2>2. \A i \in 1 .. XLen : d[vga_xy(i - 1, y)] = IF y \in a .. b - 1 THEN g ELSE c[vga_xy(i - 1, y)]
      BY <2>1 DEF d
    <2>3. Row(f, y) = [i \in 1 .. XLen |-> IF y \in a .. b - 1 THEN g ELSE c[vga_xy(i - 1, y)]]
      BY <1>5, <2>2 DEF Row
    <2>4. Row(z, y) = [i \in 1 .. XLen |-> c[vga_xy(i - 1, y)]]
      BY DEF Row, c
    <2> QED BY <2>3, <2>4
  <1> QED BY <1>5, <1>6 DEF f, FilledIs

\* Cells c with the first n characters of s written over them from position q.
Covered(c, q, s, n) ==
  [p \in Pos |-> IF p \in q .. q + n - 1 THEN s[p - q + 1] ELSE c[p]]

\* Cell q shows g.
Marked(c, q, g) == [c EXCEPT ![q] = g]

\* Covering one character more is marking its cell.
LEMMA Covering ==
  ASSUME NEW c \in Pages, NEW q \in Nat, NEW s, NEW i \in Nat, q + i \in Pos
  PROVE  /\ Covered(c, q, s, 0) = c
         /\ Marked(Covered(c, q, s, i), q + i, s[i + 1]) = Covered(c, q, s, i + 1)
  <1>1. \A p \in Pos : p \in Nat
    BY Located
  <1>2. Covered(c, q, s, 0) = c
    <2>1. \A p \in Pos : ~(p \in q .. q + 0 - 1)
      BY <1>1
    <2> QED BY <2>1 DEF Covered, Pages
  <1>3. ASSUME NEW p \in Pos
        PROVE  [Covered(c, q, s, i) EXCEPT ![q + i] = s[i + 1]][p] = Covered(c, q, s, i + 1)[p]
    <2>1. CASE p = q + i
      <3>1. p \in q .. q + (i + 1) - 1 /\ p - q + 1 = i + 1
        BY <2>1
      <3> QED BY <2>1, <3>1 DEF Covered
    <2>2. CASE p # q + i
      <3>1. p \in q .. q + (i + 1) - 1 <=> p \in q .. q + i - 1
        BY <2>2, <1>1
      <3> QED BY <2>2, <3>1 DEF Covered
    <2> QED BY <2>1, <2>2
  <1>4. /\ DOMAIN Covered(c, q, s, i) = Pos
        /\ Covered(c, q, s, i + 1) = [p \in Pos |-> Covered(c, q, s, i + 1)[p]]
    BY DEF Covered
  <1>5. [Covered(c, q, s, i) EXCEPT ![q + i] = s[i + 1]]
          = [p \in Pos |-> [Covered(c, q, s, i) EXCEPT ![q + i] = s[i + 1]][p]]
    BY <1>4
  <1> QED BY <1>2, <1>3, <1>4, <1>5 DEF Marked

\* A covered page is a page.
LEMMA CoveredPage ==
  ASSUME NEW c \in Pages, NEW q \in Nat, NEW s \in Seq(Inks), NEW n \in 0 .. Len(s)
  PROVE  Covered(c, q, s, n) \in Pages
  <1>1. \A p \in Pos : p \in Nat
    BY Located
  <1>2. \A p \in Pos : p \in q .. q + n - 1 => p - q + 1 \in 1 .. Len(s)
    BY <1>1
  <1> QED BY <1>2 DEF Covered, Pages

\* write_sn's state: a screen and the position to write at.
PenOf(z, q, h) == [scr |-> z, pos |-> q, hangs |-> h]

\* Not in a tab that does not end.
Pen(z, q) == PenOf(z, q, FALSE)

\* The pens that write on a screen.
Pens == {PenOf(z, q, h) : z \in Screens, q \in 0 .. PosLen, h \in BOOLEAN}

\* A pen further on, over other cells.
Penned(w, c, q) == [w EXCEPT !.scr.cells = c, !.pos = q]

\* The fields of a pen, and what marking a cell makes of it.
LEMMA PenIs ==
  ASSUME NEW c, NEW x, NEW y, NEW q, NEW d, NEW p
  PROVE  /\ Pen(Scr(c, x, y), q).scr.cells = c /\ Pen(Scr(c, x, y), q).pos = q
         /\ ~Pen(Scr(c, x, y), q).hangs
         /\ Penned(Pen(Scr(c, x, y), q), d, p) = Pen(Scr(d, x, y), p)
  <1>1. /\ Pen(Scr(c, x, y), q).scr = Scr(c, x, y) /\ Pen(Scr(c, x, y), q).pos = q
        /\ Pen(Scr(c, x, y), q).hangs = FALSE
    BY DEF Pen, PenOf
  <1>2. [Scr(c, x, y) EXCEPT !.cells = d] = Scr(d, x, y)
    BY DEF Scr
  <1>3. Penned(Pen(Scr(c, x, y), q), d, p) = Pen(Scr(d, x, y), p)
    <2>1. [Scr(c, x, y) EXCEPT !.cells = d] = Scr(d, x, y)
      BY DEF Scr
    <2>2. DOMAIN [Pen(Scr(c, x, y), q) EXCEPT !.scr.cells = d, !.pos = p] = DOMAIN Pen(Scr(d, x, y), p)
      BY DEF Pen, PenOf
    <2>3. [Pen(Scr(c, x, y), q) EXCEPT !.scr.cells = d, !.pos = p].scr = Pen(Scr(d, x, y), p).scr
      BY <2>1 DEF Pen, PenOf
    <2>4. [Pen(Scr(c, x, y), q) EXCEPT !.scr.cells = d, !.pos = p].pos = Pen(Scr(d, x, y), p).pos
      BY DEF Pen, PenOf
    <2>5. [Pen(Scr(c, x, y), q) EXCEPT !.scr.cells = d, !.pos = p].hangs = Pen(Scr(d, x, y), p).hangs
      BY DEF Pen, PenOf
    <2> QED BY <2>2, <2>3, <2>4, <2>5 DEF Pen, PenOf, Penned
  <1> QED BY <1>1, <1>3, ScrFields

\* A printed character.
LEMMA PrintedPlain ==
  ASSUME NEW g \in Printed
  PROVE  g # LineFeed /\ g # Back /\ g \in Inks
  <1>1. Tab # LineFeed /\ Tab # Back
    <2> DEFINE sp == <<Blank, LineFeed, Tab, Back, ClearScreen, ClearLine>>
    <2>1. \A a, b \in 1 .. 6 : sp[a] = sp[b] => a = b
      BY ScreenAssumption
    <2>2. sp[2] = LineFeed /\ sp[3] = Tab /\ sp[4] = Back
      OBVIOUS
    <2> HIDE DEF sp
    <2>3. 2 \in 1 .. 6 /\ 3 \in 1 .. 6 /\ 4 \in 1 .. 6
      OBVIOUS
    <2> QED BY <2>1, <2>2, <2>3
  <1>2. \A a \in Typed \cup {Blank} : a # LineFeed /\ a # Back
    BY TEditAssumption
  <1> QED BY <1>1, <1>2 DEF Printed, Inks

\* Neither is a key's character a tab.
LEMMA KeyedPlain ==
  ASSUME NEW g \in Keyed
  PROVE  g # Tab /\ g \in Printed
  BY TEditAssumption DEF Keyed, Printed

\* A screen and a position make a pen.
LEMMA PenIn ==
  ASSUME NEW z \in Screens, NEW q \in 0 .. PosLen, NEW h \in BOOLEAN
  PROVE  PenOf(z, q, h) \in Pens /\ Pen(z, q) \in Pens
  <1>1. \A b \in BOOLEAN : PenOf(z, q, b) \in Pens
    BY DEF Pens
  <1> QED BY <1>1 DEF Pen

\* Any pen, its fields and what marking a cell makes of it.
LEMMA PenOfIs ==
  ASSUME NEW w \in Pens, NEW d \in Pages, NEW p \in 0 .. PosLen
  PROVE  /\ w.scr \in Screens /\ w.pos \in 0 .. PosLen /\ w.hangs \in BOOLEAN
         /\ [w EXCEPT !.scr.cells = d, !.pos = p] \in Pens
         /\ [w EXCEPT !.scr.cells = d, !.hangs = TRUE] \in Pens
  <1>1. PICK z \in Screens, q \in 0 .. PosLen, h \in BOOLEAN : w = PenOf(z, q, h)
    BY DEF Pens
  <1>2. w.scr = z /\ w.pos = q /\ w.hangs = h
    BY <1>1 DEF PenOf
  <1>3. z = Scr(z.cells, z.x, z.y) /\ z.cells \in Pages /\ z.x \in 0 .. XMax /\ z.y \in 0 .. YMax
    BY ScreenIs
  <1> DEFINE f == Scr(d, z.x, z.y)
  <1>4. f \in Screens
    BY <1>3, IsScreen
  <1>5. [z EXCEPT !.cells = d] = f
    <2>1. [Scr(z.cells, z.x, z.y) EXCEPT !.cells = d] = f
      BY DEF Scr
    <2> QED BY <1>3, <2>1
  <1> HIDE DEF f
  <1>6. [w EXCEPT !.scr.cells = d, !.pos = p] = PenOf(f, p, h)
    <2>1. DOMAIN [PenOf(z, q, h) EXCEPT !.scr.cells = d, !.pos = p] = DOMAIN PenOf(f, p, h)
      BY DEF PenOf
    <2>2. [PenOf(z, q, h) EXCEPT !.scr.cells = d, !.pos = p].scr = PenOf(f, p, h).scr
      BY <1>5 DEF PenOf
    <2>3. [PenOf(z, q, h) EXCEPT !.scr.cells = d, !.pos = p].pos = PenOf(f, p, h).pos
      BY DEF PenOf
    <2>4. [PenOf(z, q, h) EXCEPT !.scr.cells = d, !.pos = p].hangs = PenOf(f, p, h).hangs
      BY DEF PenOf
    <2>5. [PenOf(z, q, h) EXCEPT !.scr.cells = d, !.pos = p] = PenOf(f, p, h)
      BY <2>1, <2>2, <2>3, <2>4 DEF PenOf
    <2> QED BY <1>1, <2>5
  <1>7. [w EXCEPT !.scr.cells = d, !.hangs = TRUE] = PenOf(f, q, TRUE)
    <2>1. DOMAIN [PenOf(z, q, h) EXCEPT !.scr.cells = d, !.hangs = TRUE] = DOMAIN PenOf(f, q, TRUE)
      BY DEF PenOf
    <2>2. [PenOf(z, q, h) EXCEPT !.scr.cells = d, !.hangs = TRUE].scr = PenOf(f, q, TRUE).scr
      BY <1>5 DEF PenOf
    <2>3. [PenOf(z, q, h) EXCEPT !.scr.cells = d, !.hangs = TRUE].pos = PenOf(f, q, TRUE).pos
      BY DEF PenOf
    <2>4. [PenOf(z, q, h) EXCEPT !.scr.cells = d, !.hangs = TRUE].hangs = PenOf(f, q, TRUE).hangs
      BY DEF PenOf
    <2>5. [PenOf(z, q, h) EXCEPT !.scr.cells = d, !.hangs = TRUE] = PenOf(f, q, TRUE)
      BY <2>1, <2>2, <2>3, <2>4 DEF PenOf
    <2> QED BY <1>1, <2>5
  <1> HIDE DEF Pens
  <1>8. PenOf(f, p, h) \in Pens /\ PenOf(f, q, TRUE) \in Pens
    BY <1>4, PenIn
  <1> QED BY <1>2, <1>6, <1>7, <1>8

\* PutFixed marks the next cell, while there is one.
LEMMA PutFixedIs ==
  ASSUME NEW c, NEW x, NEW y, NEW q \in 0 .. PosLen, NEW g \in Keyed
  PROVE  PutFixed(Pen(Scr(c, x, y), q), g) =
           IF q = PosLen THEN Pen(Scr(c, x, y), q) ELSE Pen(Scr(Marked(c, q, g), x, y), q + 1)
  <1> DEFINE w == Pen(Scr(c, x, y), q)
  <1>1. w.pos = q /\ w.scr.cells = c /\ ~w.hangs
    BY PenIs
  <1>2. w.pos > PosMax <=> q = PosLen
    BY <1>1, Sizes
  <1>3. Penned(w, Marked(c, q, g), q + 1) = Pen(Scr(Marked(c, q, g), x, y), q + 1)
    BY PenIs
  <1>4. g # LineFeed /\ g # Back /\ g # Tab
    BY KeyedPlain, PrintedPlain
  <1> HIDE DEF w
  <1>5. CASE q = PosLen
    BY <1>2, <1>5 DEF PutFixed, w
  <1>6. CASE q # PosLen
    <2>1. PutFixed(w, g) = [w EXCEPT !.scr.cells[w.pos] = g, !.pos = @ + 1]
      BY <1>1, <1>2, <1>4, <1>6 DEF PutFixed
    <2>2. [w EXCEPT !.scr.cells[w.pos] = g, !.pos = @ + 1] = Penned(w, Marked(w.scr.cells, w.pos, g), w.pos + 1)
      BY DEF Penned, Marked
    <2> QED BY <1>1, <1>3, <1>6, <2>1, <2>2 DEF w
  <1> QED BY <1>5, <1>6

\* The blanks of a tab at position q.
Blanked(c, q) == [p \in Pos |-> IF p \in q .. TabEnd(q) - 1 THEN Blank ELSE c[p]]

\* A tab makes a pen of a pen.
LEMMA PutTabStays ==
  ASSUME NEW w \in Pens
  PROVE  PutTab(w) \in Pens
  <1> DEFINE d == Blanked(w.scr.cells, w.pos)
  <1>1. w.scr \in Screens /\ w.pos \in 0 .. PosLen /\ w.scr.cells \in Pages
    <2>1. 0 \in 0 .. PosLen /\ Empty \in Pages
      BY Sizes DEF Empty, Pages, Inks, Printed
    <2>2. w.scr \in Screens /\ w.pos \in 0 .. PosLen
      BY <2>1, PenOfIs
    <2> QED BY <2>2, ScreenIs
  <1>2. d \in Pages
    BY <1>1 DEF Blanked, Pages, Inks, Printed
  <1>3. TabEnd(w.pos) \in Nat
    <2> DEFINE k == w.pos
    <2>1. k \in Nat /\ TabStop \in Nat \ {0}
      BY <1>1, ScreenAssumption
    <2> HIDE DEF k
    <2>2. k \div TabStop \in Nat
      BY <2>1, Quotient
    <2>3. \A a, b \in Nat : (a + 1) * b \in Nat
      OBVIOUS
    <2>4. (k \div TabStop + 1) * TabStop \in Nat
      BY <2>1, <2>2, <2>3
    <2> QED BY <2>4 DEF TabEnd, k
  <1>4. PutTab(w) = IF TabEnd(w.pos) > PosMax THEN [w EXCEPT !.scr.cells = d, !.hangs = TRUE]
                    ELSE [w EXCEPT !.scr.cells = d, !.pos = TabEnd(w.pos)]
    BY DEF PutTab, Blanked
  <1> HIDE DEF d
  <1>5. CASE TabEnd(w.pos) > PosMax
    <2>1. 0 \in 0 .. PosLen
      BY Sizes
    <2>2. [w EXCEPT !.scr.cells = d, !.hangs = TRUE] \in Pens
      BY <1>2, <2>1, PenOfIs
    <2> QED BY <1>4, <1>5, <2>2
  <1>6. CASE ~(TabEnd(w.pos) > PosMax)
    <2>1. TabEnd(w.pos) \in 0 .. PosLen
      BY <1>3, <1>6, Sizes
    <2>2. [w EXCEPT !.scr.cells = d, !.pos = TabEnd(w.pos)] \in Pens
      BY <1>2, <2>1, PenOfIs
    <2> QED BY <1>4, <1>6, <2>2
  <1> QED BY <1>5, <1>6

\* PutFixed makes a pen of a pen.
LEMMA PenStays ==
  ASSUME NEW w \in Pens, NEW g \in Printed
  PROVE  PutFixed(w, g) \in Pens
  <1>1. w.scr \in Screens /\ w.pos \in 0 .. PosLen /\ w.scr.cells \in Pages
    <2>1. 0 \in 0 .. PosLen /\ Empty \in Pages
      BY Sizes DEF Empty, Pages, Inks, Printed
    <2>2. w.scr \in Screens /\ w.pos \in 0 .. PosLen
      BY <2>1, PenOfIs
    <2> QED BY <2>2, ScreenIs
  <1>2. g # LineFeed /\ g # Back /\ g \in Inks
    BY PrintedPlain
  <1>3. CASE w.hangs \/ w.pos > PosMax
    BY <1>3 DEF PutFixed
  <1>4. CASE ~(w.hangs \/ w.pos > PosMax) /\ g = Tab
    <2>1. PutFixed(w, g) = PutTab(w)
      BY <1>2, <1>4 DEF PutFixed
    <2> QED BY <2>1, PutTabStays
  <1>5. CASE ~(w.hangs \/ w.pos > PosMax) /\ g # Tab
    <2>1. PutFixed(w, g) = [w EXCEPT !.scr.cells[w.pos] = g, !.pos = @ + 1]
      BY <1>2, <1>5 DEF PutFixed
    <2>2. [w EXCEPT !.scr.cells[w.pos] = g, !.pos = @ + 1]
            = [w EXCEPT !.scr.cells = Marked(w.scr.cells, w.pos, g), !.pos = w.pos + 1]
      BY DEF Marked
    <2>3. Marked(w.scr.cells, w.pos, g) \in Pages
      BY <1>1, <1>2 DEF Marked, Pages
    <2>4. w.pos + 1 \in 0 .. PosLen
      BY <1>1, <1>5, Sizes
    <2>5. [w EXCEPT !.scr.cells = Marked(w.scr.cells, w.pos, g), !.pos = w.pos + 1] \in Pens
      BY <2>3, <2>4, PenOfIs
    <2> QED BY <2>1, <2>2, <2>5
  <1> QED BY <1>3, <1>4, <1>5

\* write_sn begins where the cursor is.
LEMMA WriteSnFrom ==
  ASSUME NEW c, NEW x, NEW y, NEW s
  PROVE  write_sn(Scr(c, x, y), s) =
           At(FixedAll(Pen(Scr(c, x, y), vga_xy(x, y)), s).scr, FixedAll(Pen(Scr(c, x, y), vga_xy(x, y)), s).pos)
  <1>1. Scr(c, x, y).x = x /\ Scr(c, x, y).y = y
    BY ScrFields
  <1>2. [scr |-> Scr(c, x, y), pos |-> vga_xy(Scr(c, x, y).x, Scr(c, x, y).y), hangs |-> FALSE]
          = Pen(Scr(c, x, y), vga_xy(x, y))
    BY <1>1 DEF Pen, PenOf
  <1> QED BY <1>2 DEF write_sn, Fixed, FixedAll

\* Whatever write_sn writes, tabs as well, it makes a screen of a screen.
LEMMA WriteSnAny ==
  ASSUME NEW c \in Pages, NEW x \in 0 .. XMax, NEW y \in 0 .. YMax, NEW s \in Seq(Printed)
  PROVE  write_sn(Scr(c, x, y), s) \in Screens
  <1> DEFINE q == vga_xy(x, y)
             base == Pen(Scr(c, x, y), q)
  <1>1. q \in 0 .. PosLen
    <2>1. q \in Pos
      BY Placed
    <2> QED BY <2>1, Located, Sizes
  <1>2. base \in Pens
    BY <1>1, IsScreen, PenIn
  <1> HIDE DEF base
  <1>3. PICK r : Fixes(r, Pens, base, s)
    <2>1. \A w \in Pens, g \in Printed : PutFixed(w, g) \in Pens
      BY PenStays
    <2> QED BY <1>2, <2>1, PutFixedRuns
  <1> DEFINE w == FixedAll(base, s)
  <1>4. w \in Pens
    <2>1. Len(s) \in 0 .. Len(s)
      OBVIOUS
    <2> QED BY <1>3, <2>1 DEF Fixes
  <1> HIDE DEF w
  <1>5. w.scr \in Screens /\ w.pos \in 0 .. PosLen
    <2>1. Empty \in Pages
      BY DEF Empty, Pages, Inks, Printed
    <2> QED BY <1>1, <1>4, <2>1, PenOfIs
  <1>6. w.scr = Scr(w.scr.cells, w.scr.x, w.scr.y) /\ w.scr.cells \in Pages
    BY <1>5, ScreenIs
  <1>7. At(w.scr, w.pos) \in Screens
    BY <1>5, <1>6, AtAny
  <1>8. write_sn(Scr(c, x, y), s) = At(w.scr, w.pos)
    BY WriteSnFrom DEF base, w
  <1> QED BY <1>7, <1>8

\* What write_sn writes, as far as the end of the screen.
Wrote(z, c, x, y, s, k) ==
  /\ k \in 0 .. Len(s)
  /\ vga_xy(x, y) + Len(s) <= PosLen => k = Len(s)
  /\ z = At(Scr(Covered(c, vga_xy(x, y), s, k), x, y), vga_xy(x, y) + k)

\* write_sn covers the cells from the cursor on.
LEMMA WriteSnIs ==
  ASSUME NEW c \in Pages, NEW x \in 0 .. XMax, NEW y \in 0 .. YMax, NEW s \in Seq(Keyed)
  PROVE  \E k : Wrote(write_sn(Scr(c, x, y), s), c, x, y, s, k)
  <1> DEFINE q == vga_xy(x, y)
             n == Len(s)
             K(i) == IF q + i <= PosLen THEN i ELSE PosLen - q
             W(i) == Pen(Scr(Covered(c, q, s, K(i)), x, y), q + K(i))
             base == Pen(Scr(c, x, y), q)
  <1>1. q \in Pos /\ q \in Nat /\ q < PosLen /\ q \in 0 .. PosLen /\ n \in Nat /\ PosLen \in Nat
    <2>1. q \in Pos
      BY Placed
    <2> QED BY <2>1, Located, Sizes
  <1>2. base \in Pens
    BY <1>1, IsScreen, PenIn
  <1>2a. PICK r : Fixes(r, Pens, base, s)
    <2>1. \A w \in Pens, g \in Keyed : PutFixed(w, g) \in Pens
      BY PenStays, KeyedPlain
    <2> HIDE DEF base
    <2> QED BY <1>2, <2>1, PutFixedRuns
  <1>3. /\ r[0] = base /\ FixedAll(base, s) = r[n]
        /\ \A i \in 1 .. n : r[i] = PutFixed(r[i - 1], s[i])
    BY <1>2a DEF Fixes
  <1>4. write_sn(Scr(c, x, y), s) = At(r[n].scr, r[n].pos)
    <2>1. write_sn(Scr(c, x, y), s) = At(FixedAll(base, s).scr, FixedAll(base, s).pos)
      BY WriteSnFrom
    <2> HIDE DEF base
    <2> QED BY <1>3, <2>1
  <1> HIDE DEF n
  <1>5. \A i \in 0 .. n : r[i] = W(i)
    <2> DEFINE I == {i \in 0 .. n : r[i] = W(i)}
    <2>1. 0 \in I
      <3>1. K(0) = 0 /\ q + 0 = q /\ 0 \in 0 .. n
        BY <1>1
      <3>2. Covered(c, q, s, 0) = c
        <4>1. q + 0 \in Pos /\ 0 \in Nat
          BY <1>1
        <4> QED BY <1>1, <4>1, Covering
      <3>3. W(0) = base
        BY <3>1, <3>2
      <3> HIDE DEF W, base
      <3> QED BY <1>3, <3>1, <3>3
    <2>2. \A i \in 0 .. n - 1 : i \in I => i + 1 \in I
      <3> SUFFICES ASSUME NEW i \in 0 .. n - 1, r[i] = W(i) PROVE r[i + 1] = W(i + 1)
        BY <1>1
      <3>1. r[i + 1] = PutFixed(W(i), s[i + 1]) /\ s[i + 1] \in Keyed
        <4>1. i + 1 \in 1 .. n /\ (i + 1) - 1 = i
          BY <1>1
        <4>2. r[i + 1] = PutFixed(r[(i + 1) - 1], s[i + 1])
          BY <1>3, <4>1
        <4> HIDE DEF W
        <4> QED BY <4>1, <4>2 DEF n
      <3>2. K(i) \in Nat /\ q + K(i) \in 0 .. PosLen /\ i \in Nat
        BY <1>1
      <3>3. CASE q + i < PosLen
        <4>1. K(i) = i /\ K(i + 1) = i + 1 /\ q + i # PosLen /\ q + i \in Pos /\ q + i \in 0 .. PosLen /\ q + (i + 1) = q + i + 1
          BY <1>1, <3>2, <3>3, Sizes DEF Pos
        <4>2. Marked(Covered(c, q, s, i), q + i, s[i + 1]) = Covered(c, q, s, i + 1)
          BY <1>1, <3>2, <4>1, Covering
        <4>3. W(i) = Pen(Scr(Covered(c, q, s, i), x, y), q + i)
          BY <4>1
        <4>4. W(i + 1) = Pen(Scr(Covered(c, q, s, i + 1), x, y), q + i + 1)
          BY <4>1
        <4> HIDE DEF W, K
        <4>5. PutFixed(Pen(Scr(Covered(c, q, s, i), x, y), q + i), s[i + 1])
                = Pen(Scr(Marked(Covered(c, q, s, i), q + i, s[i + 1]), x, y), q + i + 1)
          BY <3>1, <4>1, PutFixedIs
        <4> QED BY <3>1, <4>2, <4>3, <4>4, <4>5
      <3>4. CASE ~(q + i < PosLen)
        <4>1. q + K(i) = PosLen /\ K(i + 1) = K(i) /\ PosLen \in 0 .. PosLen
          BY <1>1, <3>2, <3>4
        <4>2. W(i + 1) = W(i) /\ W(i) = Pen(Scr(Covered(c, q, s, K(i)), x, y), PosLen)
          BY <4>1
        <4> HIDE DEF W, K
        <4>3. PutFixed(Pen(Scr(Covered(c, q, s, K(i)), x, y), PosLen), s[i + 1])
                = Pen(Scr(Covered(c, q, s, K(i)), x, y), PosLen)
          BY <3>1, <4>1, PutFixedIs
        <4> QED BY <3>1, <4>2, <4>3
      <3> QED BY <1>1, <3>2, <3>3, <3>4
    <2> HIDE DEF I
    <2>3. \A i \in 0 .. n : i \in I
      BY <1>1, <2>1, <2>2, Climb
    <2> QED BY <2>3 DEF I
  <1>6. r[n] = W(n)
    BY <1>1, <1>5
  <1>7. r[n].scr = Scr(Covered(c, q, s, K(n)), x, y) /\ r[n].pos = q + K(n)
    BY <1>6 DEF Pen, PenOf
  <1>8. K(n) \in 0 .. n /\ (q + n <= PosLen => K(n) = n)
    BY <1>1
  <1> DEFINE k == K(n)
  <1> HIDE DEF K, q
  <1>9. Wrote(write_sn(Scr(c, x, y), s), c, x, y, s, k)
    BY <1>4, <1>7, <1>8 DEF Wrote, n, q
  <1> QED BY <1>9

\* A line without tabs on a row, and the other rows are left alone.
LEMMA DrawLineIs ==
  ASSUME NEW z \in Screens, NEW j \in 0 .. YMax, NEW l \in TLines
  PROVE  /\ DrawLine(z, [row |-> j, line |-> l]) \in Screens
         /\ Row(z, j) = Padded(<<>>) /\ Slim(l) =>
              /\ Row(DrawLine(z, [row |-> j, line |-> l]), j) = Padded(CharsIn(l))
              /\ \A y \in 0 .. YMax : y # j => Row(DrawLine(z, [row |-> j, line |-> l]), y) = Row(z, y)
  <1> DEFINE c == z.cells
             s == CharsIn(l)
             d == DrawLine(z, [row |-> j, line |-> l])
  <1>1. c \in Pages /\ z = Scr(c, z.x, z.y)
    BY ScreenIs
  <1>2. s \in Seq(Printed) /\ Len(s) = l.len /\ l.len \in Nat
    BY CharsAre, LineIs
  <1>3. CASE l.len = 0
    <2>1. d = z
      BY <1>3 DEF DrawLine
    <2>2. s = <<>>
      BY <1>2, <1>3
    <2> QED BY <2>1, <2>2
  <1>4. CASE l.len # 0
    <2>1. 0 \in 0 .. XMax
      BY Sizes
    <2>2. Move(z, 0, j) = Scr(c, 0, j)
      BY <1>1, <2>1, MoveIs
    <2>3. d = write_sn(Scr(c, 0, j), s)
      BY <1>4, <2>2 DEF DrawLine
    <2> HIDE DEF c, s, d
    <2> DEFINE q == vga_xy(0, j)
    <2>4. d \in Screens
      BY <1>1, <1>2, <2>1, <2>3, WriteSnAny
    <2>6. q \in Nat /\ q + XLen <= PosLen /\ q = RowStart(j) + 0
      BY <2>1, Placed, Sizes
    <2> HIDE DEF q
    <2>9. ASSUME Row(z, j) = Padded(<<>>), l.len <= XMax, s \in Seq(Keyed)
          PROVE  /\ Row(d, j) = Padded(s)
                 /\ \A y \in 0 .. YMax : y # j => Row(d, y) = Row(z, y)
      <3>a. PICK k : Wrote(d, c, 0, j, s, k)
        BY <1>1, <2>1, <2>3, <2>9, WriteSnIs
      <3>b. k \in 0 .. Len(s) /\ (q + Len(s) <= PosLen => k = Len(s)) /\ d = At(Scr(Covered(c, q, s, k), 0, j), q + k)
        BY <3>a DEF Wrote, q
      <3>c. Covered(c, q, s, k) \in Pages
        <4>1. s \in Seq(Inks)
          BY <1>2 DEF Inks
        <4> QED BY <1>1, <2>6, <3>b, <4>1, CoveredPage
      <3>d. d.cells = Covered(c, q, s, k)
        <4>1. q + k \in Nat
          BY <1>2, <2>6, <3>b
        <4> QED BY <3>b, <3>c, <4>1, AtAny
      <3>1. k = l.len
        BY <1>2, <2>6, <2>9, <3>b, Sizes
      <3>2. \A i \in 1 .. XLen : vga_xy(i - 1, j) \in Pos /\ vga_xy(i - 1, j) - q + 1 = i
                                 /\ (vga_xy(i - 1, j) \in q .. q + k - 1 <=> i <= l.len)
        <4> TAKE i \in 1 .. XLen
        <4> DEFINE p == vga_xy(i - 1, j)
        <4>1. i - 1 \in 0 .. XMax
          BY Sizes
        <4>2. p \in Pos /\ p = RowStart(j) + (i - 1)
          BY <4>1, Placed
        <4>3. p \in Nat /\ RowStart(j) = q /\ p = q + (i - 1)
          BY <2>6, <4>1, <4>2, Located, NextRow
        <4> HIDE DEF p
        <4>4. p - q + 1 = i /\ (p \in q .. q + k - 1 <=> i <= l.len)
          BY <1>2, <2>6, <3>1, <4>1, <4>3, SMTT(30)
        <4> QED BY <4>2, <4>4 DEF p
      <3>3. \A i \in 1 .. XLen : c[vga_xy(i - 1, j)] = Blank
        <4>1. \A i \in 1 .. XLen : Row(z, j)[i] = Blank
          BY <2>9 DEF Padded
        <4> QED BY <4>1 DEF Row, c
      <3>4. \A i \in 1 .. XLen : d.cells[vga_xy(i - 1, j)] = IF i <= Len(s) THEN s[i] ELSE Blank
        BY <1>2, <3>d, <3>2, <3>3 DEF Covered
      <3>5. Row(d, j) = Padded(s)
        BY <3>4 DEF Row, Padded
      <3>6. ASSUME NEW y \in 0 .. YMax, y # j PROVE Row(d, y) = Row(z, y)
        <4>1. ASSUME NEW i \in 1 .. XLen PROVE d.cells[vga_xy(i - 1, y)] = c[vga_xy(i - 1, y)]
          <5> DEFINE p == vga_xy(i - 1, y)
          <5>1. i - 1 \in 0 .. XMax
            BY Sizes
          <5>2. p \in Pos /\ p \div XLen = y
            BY <5>1, Placed
          <5> HIDE DEF p
          <5>3. p \notin RowStart(j) .. RowStart(j) + XMax
            BY <3>6, <5>2, InRow
          <5>4. RowStart(j) = q
            BY <2>6, NextRow
          <5>5. p \notin q .. q + k - 1
            BY <1>2, <2>6, <2>9, <3>1, <5>3, <5>4, Sizes, SMTT(30)
          <5>6. d.cells[p] = c[p]
            BY <3>d, <5>2, <5>5 DEF Covered
          <5> QED BY <5>6 DEF p
        <4> QED BY <4>1 DEF Row, c
      <3> QED BY <3>5, <3>6
    <2> QED BY <2>4, <2>9 DEF d, s, Slim, Plain
  <1> QED BY <1>3, <1>4

\* A character at the cursor, and then the row shows it behind what it has shown.
LEMMA WriteCIs ==
  ASSUME NEW z \in Screens, NEW g \in Printed
  PROVE  /\ write_c(z, g) \in Screens
         /\ z.x < XMax => write_c(z, g).x = z.x + 1 /\ write_c(z, g).y = z.y
         /\ \A y \in 0 .. YMax : y # z.y => Row(write_c(z, g), y) = Row(z, y)
         /\ \A s \in Seq(Printed) : Len(s) = z.x /\ Row(z, z.y) = Padded(s) =>
              Row(write_c(z, g), z.y) = Padded(Append(s, g))
  <1> DEFINE c == z.cells
             x == z.x
             y == z.y
             q == vga_xy(x, y)
             e == Marked(c, q, g)
             d == write_c(z, g)
  <1>1. c \in Pages /\ x \in 0 .. XMax /\ y \in 0 .. YMax /\ z = Scr(c, x, y)
    BY ScreenIs
  <1> HIDE DEF c, x, y
  <1>2. q \in Pos /\ q \in Nat /\ e \in Pages /\ q + 1 \in Nat
    <2>1. q \in Pos
      BY <1>1, Placed
    <2> HIDE DEF q
    <2>2. q \in Nat /\ q + 1 \in Nat
      BY <2>1, Located
    <2> QED BY <1>1, <2>1, <2>2, PrintedPlain DEF Marked, Pages
  <1>3. d = At(Scr(e, x, y), q + 1)
    <2>1. [Scr(c, x, y) EXCEPT !.cells[vga_xy(x, y)] = g] = Scr(e, x, y)
      BY DEF Scr, Marked
    <2>2. Scr(c, x, y).x = x /\ Scr(c, x, y).y = y
      BY ScrFields
    <2>3. write_c(Scr(c, x, y), g) = At([Scr(c, x, y) EXCEPT !.cells[vga_xy(x, y)] = g], vga_xy(x, y) + 1)
      BY <2>2, PrintedPlain DEF write_c
    <2> QED BY <1>1, <2>1, <2>3
  <1> HIDE DEF e, q, d
  <1>4. d \in Screens /\ d.cells = e
    BY <1>2, <1>3, AtAny
  <1>5. x < XMax => d.x = x + 1 /\ d.y = y
    <2> SUFFICES ASSUME x < XMax PROVE d.x = x + 1 /\ d.y = y
      OBVIOUS
    <2>1. x + 1 \in 0 .. XMax
      BY <1>1, Sizes
    <2>2. q + 1 = vga_xy(x + 1, y)
      <3>1. vga_xy(x, y) = RowStart(y) + x /\ vga_xy(x + 1, y) = RowStart(y) + (x + 1) /\ RowStart(y) \in Nat
        BY <1>1, <2>1, Placed
      <3> QED BY <1>1, <3>1, Sizes DEF q
    <2>3. d = Scr(e, x + 1, y)
      BY <1>1, <1>3, <2>1, <2>2, AtIs
    <2> QED BY <2>3, ScrFields
  <1>6. ASSUME NEW b \in 0 .. YMax, b # y PROVE Row(d, b) = Row(z, b)
    <2>1. ASSUME NEW i \in 1 .. XLen PROVE e[vga_xy(i - 1, b)] = c[vga_xy(i - 1, b)]
      <3> DEFINE p == vga_xy(i - 1, b)
      <3>1. i - 1 \in 0 .. XMax
        BY Sizes
      <3>2. p \in Pos /\ p \div XLen = b
        BY <3>1, Placed
      <3>3. q \div XLen = y
        BY <1>1, Placed DEF q
      <3> HIDE DEF p
      <3>4. p # q
        BY <1>6, <3>2, <3>3
      <3>5. e[p] = c[p]
        BY <1>1, <3>2, <3>4 DEF e, Marked, Pages
      <3> QED BY <3>5 DEF p
    <2> QED BY <1>4, <2>1 DEF Row, c
  <1>7. ASSUME NEW s \in Seq(Printed), Len(s) = x, Row(z, y) = Padded(s)
        PROVE  Row(d, y) = Padded(Append(s, g))
    <2> DEFINE t == Append(s, g)
    <2>1. Len(t) = x + 1 /\ t[x + 1] = g /\ \A i \in 1 .. x : t[i] = s[i]
      BY <1>1, <1>7
    <2> HIDE DEF t
    <2>2. \A i \in 1 .. XLen : c[vga_xy(i - 1, y)] = IF i <= x THEN s[i] ELSE Blank
      <3>1. \A i \in 1 .. XLen : Row(z, y)[i] = IF i <= x THEN s[i] ELSE Blank
        BY <1>7 DEF Padded
      <3> QED BY <3>1 DEF Row, c
    <2>3. ASSUME NEW i \in 1 .. XLen PROVE e[vga_xy(i - 1, y)] = IF i <= x + 1 THEN t[i] ELSE Blank
      <3> DEFINE p == vga_xy(i - 1, y)
      <3>1. i - 1 \in 0 .. XMax
        BY Sizes
      <3>2. p \in Pos /\ p % XLen = i - 1 /\ q % XLen = x
        BY <1>1, <3>1, Placed DEF q
      <3>a. c[p] = IF i <= x THEN s[i] ELSE Blank
        BY <2>2
      <3> HIDE DEF p
      <3>3. CASE i = x + 1
        <4>1. p = q
          BY <1>1, <3>3 DEF p, q
        <4> QED BY <1>1, <1>2, <2>1, <3>3, <4>1 DEF e, Marked, Pages, p
      <3>4. CASE i # x + 1
        <4>1. p # q
          BY <1>1, <3>1, <3>2, <3>4, Sizes
        <4>2. e[p] = c[p]
          BY <1>1, <3>2, <4>1 DEF e, Marked, Pages
        <4>3. (i <= x => t[i] = s[i]) /\ (i <= x + 1 <=> i <= x)
          BY <1>1, <2>1, <3>4, Sizes
        <4> QED BY <3>a, <4>2, <4>3 DEF p
      <3> QED BY <3>3, <3>4
    <2>4. Row(d, y) = Padded(t)
      BY <1>4, <2>1, <2>3 DEF Row, Padded
    <2> QED BY <2>4 DEF t
  <1> QED BY <1>4, <1>5, <1>6, <1>7 DEF d, x, y

-----------------------------------------------------------------------------
(* The editor: its text, its cursor and its window, and drawing them.      *)

\* The fields of an editor.
Editors ==
  [data : Seq(TLines), x : Nat, y : Nat, lpos : Int, view_y : Nat, y_max : Nat, scr : Screens]

\* The cursor is in the window and on the text.
Sound(e) ==
  /\ e \in Editors /\ e.y_max <= YMax /\ e.y <= e.y_max
  /\ IF Size(e) = 0 THEN e.x = 0 /\ e.y = 0 /\ e.view_y = 0
     ELSE Row0(e) < Size(e) /\ e.x <= CursorLine(e).len

\* What a row of the window should show, and that all do, and the cursor is on its place.
RowText(e, i) == Padded(IF i \in Rows(e) THEN CharsIn(LineAt(e, i + e.view_y)) ELSE <<>>)

\* The window shows the text.
Rendered(e) == \A i \in 0 .. e.y_max : Row(e.scr, i) = RowText(e, i)

\* The cursor is shown where it is.
Pointed(e) == e.scr.x = e.x /\ e.scr.y = e.y

\* No line is wider than the screen or has a tab.
Narrow(e) == \A n \in 1 .. Size(e) : Slim(e.data[n])

\* What an editor is.
LEMMA EditorIs ==
  ASSUME NEW e \in Editors
  PROVE  /\ e.data \in Seq(TLines) /\ e.x \in Nat /\ e.y \in Nat /\ e.lpos \in Int
         /\ e.view_y \in Nat /\ e.y_max \in Nat /\ e.scr \in Screens
         /\ Size(e) \in Nat /\ Row0(e) \in Nat /\ Row0(e) = e.view_y + e.y
  BY DEF Editors, Size, Row0

\* Line n of the text.
LEMMA LineAtIs ==
  ASSUME NEW e \in Editors, NEW n \in Nat, n < Size(e)
  PROVE  /\ LineAt(e, n) \in TLines /\ LineAt(e, n) = e.data[n + 1] /\ n + 1 \in 1 .. Size(e)
         /\ LineAt(e, n).len \in Nat
         /\ Narrow(e) => Slim(LineAt(e, n)) /\ LineAt(e, n).len <= XMax
  <1>1. n + 1 \in 1 .. Size(e) /\ LineAt(e, n) = e.data[n + 1]
    BY EditorIs DEF LineAt
  <1>2. LineAt(e, n) \in TLines
    BY <1>1, EditorIs DEF Size
  <1>3. Narrow(e) => Slim(LineAt(e, n))
    BY <1>1 DEF Narrow
  <1> QED BY <1>1, <1>2, <1>3, LineIs DEF Slim

\* Only the screen has changed.
Redone(f, e) ==
  /\ f = [e EXCEPT !.scr = f.scr] /\ f.scr \in Screens
  /\ e.x <= XMax /\ e.y <= YMax => Pointed(f)

\* An editor that is drawn again has the text and the cursor it had.
LEMMA RedoneIs ==
  ASSUME NEW e \in Editors, NEW f, Redone(f, e)
  PROVE  /\ f \in Editors /\ f.data = e.data /\ f.x = e.x /\ f.y = e.y /\ f.lpos = e.lpos
         /\ f.view_y = e.view_y /\ f.y_max = e.y_max
         /\ Size(f) = Size(e) /\ Row0(f) = Row0(e) /\ Rows(f) = Rows(e)
         /\ (\A n : LineAt(f, n) = LineAt(e, n)) /\ CursorLine(f) = CursorLine(e)
         /\ \A i : RowText(f, i) = RowText(e, i)
         /\ Narrow(e) => Narrow(f)
         /\ Sound(e) => Sound(f)
         /\ Narrow(e) /\ Sound(e) => Pointed(f)
  <1>1. /\ f \in Editors /\ f.data = e.data /\ f.x = e.x /\ f.y = e.y /\ f.lpos = e.lpos
        /\ f.view_y = e.view_y /\ f.y_max = e.y_max
    <2>1. f = [e EXCEPT !.scr = f.scr] /\ f.scr \in Screens
      BY DEF Redone
    <2> QED BY <2>1 DEF Editors
  <1>2. /\ Size(f) = Size(e) /\ Row0(f) = Row0(e) /\ Rows(f) = Rows(e)
        /\ (\A n : LineAt(f, n) = LineAt(e, n)) /\ CursorLine(f) = CursorLine(e)
    BY <1>1 DEF Size, Row0, Rows, LineAt, CursorLine
  <1>3. \A i : RowText(f, i) = RowText(e, i)
    BY <1>1, <1>2 DEF RowText
  <1>4. Narrow(e) => Narrow(f)
    BY <1>1, <1>2 DEF Narrow
  <1>5. Sound(e) => Sound(f)
    BY <1>1, <1>2 DEF Sound
  <1>6. Narrow(e) /\ Sound(e) => Pointed(f)
    <2> SUFFICES ASSUME Narrow(e), Sound(e) PROVE e.x <= XMax /\ e.y <= YMax
      BY DEF Redone
    <2>1. e.y \in Nat /\ e.y_max \in Nat /\ e.y <= YMax
      BY EditorIs, Sizes DEF Sound
    <2>2. CASE Size(e) = 0
      BY <2>1, <2>2, Sizes DEF Sound
    <2>3. CASE Size(e) # 0
      <3>1. Row0(e) < Size(e) /\ Row0(e) \in Nat /\ e.x <= LineAt(e, Row0(e)).len
        BY <2>3, EditorIs DEF Sound, CursorLine
      <3>2. LineAt(e, Row0(e)).len <= XMax /\ LineAt(e, Row0(e)).len \in Nat
        BY <3>1, LineAtIs
      <3>3. e.x \in Nat /\ XMax \in Nat
        BY EditorIs, Sizes
      <3> QED BY <2>1, <3>1, <3>2, <3>3
    <2> QED BY <2>2, <2>3
  <1> QED BY <1>1, <1>2, <1>3, <1>4, <1>5, <1>6

\* Showing the cursor draws nothing.
LEMMA ShowCursorIs ==
  ASSUME NEW e \in Editors
  PROVE  /\ Redone(ShowCursor(e), e)
         /\ \A i \in 0 .. YMax : Row(ShowCursor(e).scr, i) = Row(e.scr, i)
  <1> DEFINE z == e.scr
             m == Move(z, e.x, e.y)
  <1>1. z \in Screens /\ z = Scr(z.cells, z.x, z.y) /\ z.cells \in Pages /\ e.x \in Nat /\ e.y \in Nat
    BY EditorIs, ScreenIs
  <1> HIDE DEF z
  <1>2. m \in Screens /\ m.cells = z.cells
    <2> DEFINE c == z.cells
               a == z.x
               b == z.y
    <2>1. e.x \in Int /\ e.y \in Int /\ c \in Pages
      BY <1>1
    <2> HIDE DEF c, a, b
    <2>2. Move(Scr(c, a, b), e.x, e.y) \in Screens /\ Move(Scr(c, a, b), e.x, e.y).cells = c
      BY <2>1, MoveAny
    <2> QED BY <1>1, <2>2 DEF c, a, b
  <1>3. e.x <= XMax /\ e.y <= YMax => m.x = e.x /\ m.y = e.y
    <2> SUFFICES ASSUME e.x <= XMax, e.y <= YMax PROVE m.x = e.x /\ m.y = e.y
      OBVIOUS
    <2>1. e.x \in 0 .. XMax /\ e.y \in 0 .. YMax
      BY <1>1, Sizes
    <2> DEFINE c == z.cells
               a == z.x
               b == z.y
    <2> HIDE DEF c, a, b
    <2>2. Move(Scr(c, a, b), e.x, e.y) = Scr(c, e.x, e.y)
      BY <2>1, MoveIs
    <2>3. m = Scr(c, e.x, e.y)
      BY <1>1, <2>2 DEF c, a, b
    <2> QED BY <2>3, ScrFields
  <1> DEFINE f == ShowCursor(e)
  <1>4. f = [e EXCEPT !.scr = m]
    BY DEF ShowCursor, z
  <1> HIDE DEF m
  <1>5. f.scr = m /\ f.x = e.x /\ f.y = e.y
    BY <1>4 DEF Editors
  <1> HIDE DEF f
  <1>6. Redone(f, e)
    BY <1>2, <1>3, <1>4, <1>5 DEF Redone, Pointed
  <1>7. \A i \in 0 .. YMax : Row(f.scr, i) = Row(e.scr, i)
    BY <1>2, <1>5 DEF Row, z
  <1> QED BY <1>6, <1>7 DEF f

\* What is drawn stays drawn when the cursor is shown.
LEMMA CursorDrawn ==
  ASSUME NEW e \in Editors, e.y_max <= YMax, Rendered(e)
  PROVE  Rendered(ShowCursor(e))
  <1>1. e.y_max \in Nat /\ \A i \in 0 .. e.y_max : i \in 0 .. YMax
    BY EditorIs, Sizes
  <1>2. /\ Redone(ShowCursor(e), e)
        /\ \A i \in 0 .. YMax : Row(ShowCursor(e).scr, i) = Row(e.scr, i)
    BY ShowCursorIs
  <1>3. ShowCursor(e).y_max = e.y_max /\ \A i : RowText(ShowCursor(e), i) = RowText(e, i)
    BY <1>2, RedoneIs
  <1> QED BY <1>1, <1>2, <1>3 DEF Rendered

\* Lines with the row that each is drawn in.
LinesAt == {[row |-> j, line |-> l] : j \in 0 .. YMax, l \in TLines}

\* A row without text is blank.
LEMMA BlankRow == Padded(<<>>) = [i \in 1 .. XLen |-> Blank]
  <1>1. \A i \in 1 .. XLen : ~(i <= Len(<<>>))
    OBVIOUS
  <1> QED BY <1>1 DEF Padded

\* The rows of the window and the lines in them.
LEMMA WindowIs ==
  ASSUME NEW e \in Editors, e.y_max <= YMax
  PROVE  /\ Window(e) \in Seq(LinesAt) /\ Len(Window(e)) = e.y_max + 1
         /\ \A j \in 0 .. e.y_max :
              \E l \in TLines : /\ Window(e)[j + 1] = [row |-> j, line |-> l]
                                /\ RowText(e, j) = Padded(CharsIn(l))
                                /\ Narrow(e) => Slim(l)
  <1> DEFINE n == e.y_max + 1
             L(j) == IF j \in Rows(e) THEN LineAt(e, j + e.view_y) ELSE NewLine
  <1>1. e.y_max \in Nat /\ n \in Nat /\ e.view_y \in Nat
    BY EditorIs
  <1>2. ASSUME NEW j \in 0 .. e.y_max
        PROVE  /\ L(j) \in TLines /\ RowText(e, j) = Padded(CharsIn(L(j)))
               /\ Narrow(e) => Slim(L(j))
    <2>1. CASE j \in Rows(e)
      <3>1. j + e.view_y \in Nat /\ j + e.view_y < Size(e)
        BY <1>1, <2>1 DEF Rows
      <3>2. LineAt(e, j + e.view_y) \in TLines /\ (Narrow(e) => Slim(LineAt(e, j + e.view_y)))
        BY <3>1, LineAtIs
      <3> QED BY <2>1, <3>2 DEF RowText
    <2>2. CASE j \notin Rows(e)
      BY <2>2, NewLineIs, NewLineSlim DEF RowText
    <2> QED BY <2>1, <2>2
  <1>3. Window(e) = [i \in 1 .. n |-> [row |-> i - 1, line |-> L(i - 1)]]
    BY DEF Window
  <1> HIDE DEF L
  <1>4. \A i \in 1 .. n : i - 1 \in 0 .. e.y_max /\ i - 1 \in 0 .. YMax
    BY <1>1, Sizes
  <1>5. \A i \in 1 .. n : [row |-> i - 1, line |-> L(i - 1)] \in LinesAt
    BY <1>2, <1>4 DEF LinesAt
  <1>6. Window(e) \in Seq(LinesAt) /\ Len(Window(e)) = n
    BY <1>1, <1>3, <1>5
  <1>7. ASSUME NEW j \in 0 .. e.y_max
        PROVE  Window(e)[j + 1] = [row |-> j, line |-> L(j)]
    <2>1. j + 1 \in 1 .. n /\ (j + 1) - 1 = j
      BY <1>1
    <2> QED BY <1>3, <2>1
  <1> QED BY <1>2, <1>6, <1>7

\* Filling the window and drawing its lines shows the text.
LEMMA WindowDrawn ==
  ASSUME NEW e \in Editors, e.y_max <= YMax
  PROVE  LET z == DrawnAll(fill_line_multi(e.scr, 0, e.y_max + 1, Blank), Window(e))
         IN  /\ z \in Screens
             /\ Narrow(e) => \A j \in 0 .. e.y_max : Row(z, j) = RowText(e, j)
  <1> DEFINE m == e.y_max
             n == m + 1
             base == fill_line_multi(e.scr, 0, n, Blank)
             w == Window(e)
  <1>1. m \in Nat /\ n \in Nat /\ m <= YMax /\ e.scr \in Screens /\ \A j \in 0 .. m : j \in 0 .. YMax
    BY EditorIs, Sizes
  <1>2. base \in Screens /\ \A j \in 0 .. m : Row(base, j) = Padded(<<>>)
    <2>1. Blank \in Inks /\ 0 \in Int /\ n \in Int
      BY <1>1 DEF Inks, Printed
    <2> HIDE DEF n
    <2>2. FilledIs(base, e.scr, 0, n, Blank)
      BY <1>1, <2>1, Filled DEF n
    <2> HIDE DEF base
    <2>4. base \in Screens
          /\ \A j \in 0 .. YMax : Row(base, j) = IF j \in 0 .. n - 1 THEN [i \in 1 .. XLen |-> Blank] ELSE Row(e.scr, j)
      BY <2>2 DEF FilledIs
    <2>3. \A j \in 0 .. m : j \in 0 .. n - 1
      BY <1>1 DEF n
    <2> QED BY <1>1, <2>3, <2>4, BlankRow
  <1>3. w \in Seq(LinesAt) /\ Len(w) = n
    BY <1>1, WindowIs
  <1>4. ASSUME NEW j \in 0 .. m
        PROVE  \E l \in TLines : /\ w[j + 1] = [row |-> j, line |-> l] /\ RowText(e, j) = Padded(CharsIn(l))
                                 /\ Narrow(e) => Slim(l)
    BY <1>1, WindowIs
  <1> HIDE DEF base, w, m, n
  <1>5. \A z \in Screens, a \in LinesAt : DrawLine(z, a) \in Screens
    <2> TAKE z \in Screens, a \in LinesAt
    <2>1. PICK j \in 0 .. YMax, l \in TLines : a = [row |-> j, line |-> l]
      BY DEF LinesAt
    <2>2. DrawLine(z, [row |-> j, line |-> l]) \in Screens
      BY DrawLineIs
    <2> QED BY <2>1, <2>2
  <1>6. PICK r : Draws(r, Screens, base, w)
    BY <1>2, <1>3, <1>5, DrawLineRuns
  <1>7. /\ r \in [0 .. n -> Screens] /\ r[0] = base /\ DrawnAll(base, w) = r[n]
        /\ \A i \in 1 .. n : r[i] = DrawLine(r[i - 1], w[i])
    BY <1>3, <1>6 DEF Draws
  <1>8. r[n] \in Screens
    BY <1>1, <1>7
  <1>9. ASSUME Narrow(e) PROVE \A j \in 0 .. m : Row(r[n], j) = RowText(e, j)
    <2> DEFINE Done(k) == \A j \in 0 .. m : Row(r[k], j) = IF j < k THEN RowText(e, j) ELSE Padded(<<>>)
               I == {k \in 0 .. n : Done(k)}
    <2>1. 0 \in I
      <3>1. \A j \in 0 .. m : ~(j < 0)
        OBVIOUS
      <3>2. Done(0)
        BY <1>2, <1>7, <3>1
      <3> HIDE DEF Done
      <3> QED BY <1>1, <3>2
    <2>2. \A k \in 0 .. n - 1 : k \in I => k + 1 \in I
      <3> SUFFICES ASSUME NEW k \in 0 .. n - 1, Done(k) PROVE Done(k + 1)
        <4> HIDE DEF Done
        <4> QED BY <1>1
      <3>1. k \in 0 .. m /\ k \in 0 .. n /\ k + 1 \in 1 .. n /\ (k + 1) - 1 = k /\ k \in 0 .. YMax
        BY <1>1 DEF n
      <3>2. PICK l \in TLines : /\ w[k + 1] = [row |-> k, line |-> l] /\ RowText(e, k) = Padded(CharsIn(l))
                                /\ Slim(l)
        BY <1>4, <1>9, <3>1
      <3> DEFINE z == r[k]
                 f == r[k + 1]
      <3>3. z \in Screens /\ f = DrawLine(z, [row |-> k, line |-> l])
        BY <1>7, <3>1, <3>2
      <3>4. Row(z, k) = Padded(<<>>)
        BY <3>1
      <3> HIDE DEF z, f
      <3>5. /\ Row(f, k) = Padded(CharsIn(l))
            /\ \A j \in 0 .. YMax : j # k => Row(f, j) = Row(z, j)
        BY <3>1, <3>2, <3>3, <3>4, DrawLineIs
      <3>6. ASSUME NEW j \in 0 .. m PROVE Row(f, j) = IF j < k + 1 THEN RowText(e, j) ELSE Padded(<<>>)
        <4>1. CASE j = k
          BY <3>1, <3>2, <3>5, <4>1
        <4>2. CASE j # k
          <5>1. Row(f, j) = Row(z, j)
            BY <1>1, <3>5, <4>2
          <5>2. j < k + 1 <=> j < k
            BY <3>1, <4>2
          <5> QED BY <5>1, <5>2 DEF z
        <4> QED BY <4>1, <4>2
      <3> QED BY <3>6 DEF f
    <2> HIDE DEF I
    <2>3. \A k \in 0 .. n : k \in I
      BY <1>1, <2>1, <2>2, Climb
    <2>4. Done(n)
      BY <1>1, <2>3 DEF I
    <2>5. \A j \in 0 .. m : j < n
      BY <1>1 DEF n
    <2> QED BY <2>4, <2>5
  <1>10. DrawnAll(base, w) \in Screens /\ (Narrow(e) => \A j \in 0 .. m : Row(DrawnAll(base, w), j) = RowText(e, j))
    BY <1>7, <1>8, <1>9
  <1> QED BY <1>10 DEF base, w, m, n

\* redraw_full draws the text, whatever was on the screen.
LEMMA RedrawFullIs ==
  ASSUME NEW e \in Editors, e.y_max <= YMax
  PROVE  Redone(redraw_full(e), e) /\ (Narrow(e) => Rendered(redraw_full(e)))
  <1> DEFINE z == DrawnAll(fill_line_multi(e.scr, 0, e.y_max + 1, Blank), Window(e))
             d == [e EXCEPT !.scr = z]
  <1>1. z \in Screens /\ (Narrow(e) => \A j \in 0 .. e.y_max : Row(z, j) = RowText(e, j))
    BY WindowDrawn
  <1>2. redraw_full(e) = ShowCursor(d)
    BY DEF redraw_full, DrawnAll
  <1> HIDE DEF z
  <1>3. d \in Editors /\ d.scr = z /\ d.x = e.x /\ d.y = e.y /\ d.y_max = e.y_max /\ d.view_y = e.view_y /\ d.data = e.data
    BY <1>1 DEF Editors
  <1>4. \A s : [d EXCEPT !.scr = s] = [e EXCEPT !.scr = s]
    BY DEF Editors
  <1> HIDE DEF d
  <1>5. Redone(ShowCursor(d), d)
    BY <1>3, ShowCursorIs
  <1>6. Redone(ShowCursor(d), e)
    BY <1>3, <1>4, <1>5 DEF Redone, Pointed
  <1>7. ASSUME Narrow(e) PROVE Rendered(ShowCursor(d))
    <2>1. \A j : RowText(d, j) = RowText(e, j)
      BY <1>3 DEF RowText, Rows, LineAt, Size
    <2>2. Rendered(d)
      BY <1>1, <1>3, <1>7, <2>1 DEF Rendered
    <2> QED BY <1>3, <2>2, CursorDrawn
  <1> QED BY <1>2, <1>6, <1>7

\* Drawing one row again: the others are as they were.
LEMMA RedrawLineIs ==
  ASSUME NEW e \in Editors, e.y_max <= YMax, NEW i \in 0 .. e.y_max, i + e.view_y < Size(e)
  PROVE  /\ Redone(redraw_line(e, i), e)
         /\ Narrow(e) /\ (\A j \in 0 .. e.y_max : j # i => Row(e.scr, j) = RowText(e, j))
              => Rendered(redraw_line(e, i))
  <1> DEFINE b == fill_line_multi(e.scr, i, i + 1, Blank)
             l == LineAt(e, i + e.view_y)
             z == DrawLine(b, [row |-> i, line |-> l])
             d == [e EXCEPT !.scr = z]
  <1>1. redraw_line(e, i) = ShowCursor(d)
    BY DEF redraw_line
  <1>0. e.y_max \in Nat /\ e.scr \in Screens /\ e.view_y \in Nat /\ YMax \in Nat
    BY EditorIs, Sizes
  <1>2. /\ e.y_max \in Nat /\ e.scr \in Screens /\ e.view_y \in Nat /\ i \in 0 .. YMax /\ i \in Nat
        /\ \A j \in 0 .. e.y_max : j \in 0 .. YMax
    BY <1>0
  <1>3. /\ b \in Screens /\ Row(b, i) = Padded(<<>>)
        /\ \A j \in 0 .. YMax : j # i => Row(b, j) = Row(e.scr, j)
    <2>1. Blank \in Inks /\ i \in Int /\ i + 1 \in Int
      BY <1>2 DEF Inks, Printed
    <2> DEFINE k == i + 1
    <2>2. \A j \in 0 .. YMax : j \in i .. k - 1 <=> j = i
      BY <1>2
    <2> HIDE DEF k
    <2>3. FilledIs(b, e.scr, i, k, Blank)
      BY <1>2, <2>1, Filled DEF k
    <2> HIDE DEF b
    <2>4. /\ b \in Screens
          /\ \A j \in 0 .. YMax : Row(b, j) = IF j \in i .. k - 1 THEN [n \in 1 .. XLen |-> Blank] ELSE Row(e.scr, j)
      BY <2>3 DEF FilledIs
    <2> QED BY <1>2, <2>2, <2>4, BlankRow
  <1>4. l \in TLines /\ (Narrow(e) => Slim(l))
    <2>1. i + e.view_y \in Nat
      BY <1>2
    <2> QED BY <2>1, LineAtIs
  <1> HIDE DEF b, l
  <1>5. /\ z \in Screens
        /\ Narrow(e) => /\ Row(z, i) = Padded(CharsIn(l))
                        /\ \A j \in 0 .. YMax : j # i => Row(z, j) = Row(e.scr, j)
    BY <1>2, <1>3, <1>4, DrawLineIs
  <1> HIDE DEF z
  <1>6. d \in Editors /\ d.scr = z /\ d.x = e.x /\ d.y = e.y /\ d.y_max = e.y_max /\ d.view_y = e.view_y /\ d.data = e.data
    BY <1>5 DEF Editors
  <1>7. \A s : [d EXCEPT !.scr = s] = [e EXCEPT !.scr = s]
    BY DEF Editors
  <1> HIDE DEF d
  <1>8. Redone(ShowCursor(d), d)
    BY <1>6, ShowCursorIs
  <1>9. Redone(ShowCursor(d), e)
    BY <1>6, <1>7, <1>8 DEF Redone, Pointed
  <1>10. ASSUME Narrow(e), \A j \in 0 .. e.y_max : j # i => Row(e.scr, j) = RowText(e, j)
         PROVE  Rendered(ShowCursor(d))
    <2>1. \A j : RowText(d, j) = RowText(e, j)
      BY <1>6 DEF RowText, Rows, LineAt, Size
    <2>2. RowText(e, i) = Padded(CharsIn(l))
      <3>1. i \in Rows(e)
        BY DEF Rows
      <3> QED BY <3>1 DEF RowText, l
    <2>3. \A j \in 0 .. e.y_max : Row(z, j) = RowText(e, j)
      BY <1>2, <1>5, <1>10, <2>2
    <2>4. Rendered(d)
      BY <1>6, <2>1, <2>3 DEF Rendered
    <2> QED BY <1>6, <2>4, CursorDrawn
  <1> QED BY <1>1, <1>9, <1>10

\* The same text in the same window on the same screen.
LEMMA SameWindow ==
  ASSUME NEW e \in Editors, NEW d \in Editors,
         d.data = e.data, d.view_y = e.view_y, d.y_max = e.y_max
  PROVE  /\ Size(d) = Size(e) /\ Rows(d) = Rows(e) /\ (\A n : LineAt(d, n) = LineAt(e, n))
         /\ (\A i : RowText(d, i) = RowText(e, i))
         /\ Narrow(d) <=> Narrow(e)
         /\ d.scr = e.scr /\ Rendered(e) => Rendered(d)
  <1>1. Size(d) = Size(e) /\ Rows(d) = Rows(e) /\ (\A n : LineAt(d, n) = LineAt(e, n))
    BY DEF Size, Rows, LineAt
  <1>2. \A i : RowText(d, i) = RowText(e, i)
    BY <1>1 DEF RowText
  <1>3. Narrow(d) <=> Narrow(e)
    BY <1>1 DEF Narrow
  <1> QED BY <1>1, <1>2, <1>3 DEF Rendered

-----------------------------------------------------------------------------
(* The keys that move the cursor.                                          *)

\* f is e with the cursor and the window moved over the same text.
MovedTo(f, e) ==
  /\ Sound(f) /\ f.data = e.data /\ f.y_max = e.y_max
  /\ Narrow(e) => Pointed(f) /\ (Rendered(e) => Rendered(f))

\* How many lines there are and how long they are is the text's.
LEMMA SameText ==
  ASSUME NEW e \in Editors, NEW d \in Editors, d.data = e.data
  PROVE  Size(d) = Size(e) /\ (Narrow(d) <=> Narrow(e))
  BY DEF Size, Narrow

\* A move within the window is shown by the cursor.
LEMMA ShownMoved ==
  ASSUME NEW e \in Editors, NEW d, Sound(d), d.data = e.data, d.y_max = e.y_max,
         Narrow(e) /\ Rendered(e) => Rendered(d)
  PROVE  MovedTo(ShowCursor(d), e)
  <1>1. d \in Editors /\ d.y_max <= YMax
    BY DEF Sound
  <1>2. Redone(ShowCursor(d), d)
    BY <1>1, ShowCursorIs
  <1>3. Narrow(d) <=> Narrow(e)
    BY <1>1, SameText
  <1>4. Rendered(d) => Rendered(ShowCursor(d))
    BY <1>1, CursorDrawn
  <1> DEFINE f == ShowCursor(d)
  <1> HIDE DEF f
  <1>5. f.data = e.data /\ f.y_max = e.y_max /\ Sound(f) /\ (Narrow(d) => Pointed(f))
    BY <1>1, <1>2, RedoneIs DEF f
  <1> QED BY <1>3, <1>4, <1>5 DEF MovedTo, f

\* A move of the window is drawn.
LEMMA ScrolledMoved ==
  ASSUME NEW e \in Editors, NEW d, Sound(d), d.data = e.data, d.y_max = e.y_max
  PROVE  MovedTo(redraw_full(d), e) /\ (Narrow(e) => Rendered(redraw_full(d)))
  <1>1. d \in Editors /\ d.y_max <= YMax
    BY DEF Sound
  <1>2. Redone(redraw_full(d), d) /\ (Narrow(d) => Rendered(redraw_full(d)))
    BY <1>1, RedrawFullIs
  <1>3. Narrow(d) <=> Narrow(e)
    BY <1>1, SameText
  <1> DEFINE f == redraw_full(d)
  <1> HIDE DEF f
  <1>5. f.data = e.data /\ f.y_max = e.y_max /\ Sound(f) /\ (Narrow(d) => Pointed(f))
    BY <1>1, <1>2, RedoneIs DEF f
  <1> QED BY <1>2, <1>3, <1>5 DEF MovedTo, f

\* Two moves are a move.
LEMMA MovedOn ==
  ASSUME NEW e \in Editors, NEW d, MovedTo(d, e), NEW f, MovedTo(f, d)
  PROVE  MovedTo(f, e)
  <1>1. d \in Editors /\ d.data = e.data
    BY DEF MovedTo, Sound
  <1>2. Narrow(d) <=> Narrow(e)
    BY <1>1, SameText
  <1> QED BY <1>1, <1>2 DEF MovedTo

\* Aiming at the column where the cursor is keeps it there.
LEMMA AimHereMoved ==
  ASSUME NEW e, Sound(e)
  PROVE  /\ MovedTo(AimHere(e), e)
         /\ AimHere(e).x = e.x /\ AimHere(e).y = e.y /\ AimHere(e).view_y = e.view_y
         /\ \A i \in 0 .. YMax : Row(AimHere(e).scr, i) = Row(e.scr, i)
  <1>0. e \in Editors /\ e.x \in Int
    BY EditorIs DEF Sound
  <1> DEFINE d == [e EXCEPT !.lpos = e.x]
  <1>1. /\ d \in Editors /\ d.x = e.x /\ d.y = e.y /\ d.view_y = e.view_y /\ d.data = e.data
        /\ d.y_max = e.y_max /\ d.scr = e.scr
    BY <1>0 DEF Editors
  <1>2. AimHere(e) = ShowCursor(d)
    BY DEF AimHere
  <1> HIDE DEF d
  <1>3. Sound(d)
    BY <1>1 DEF Sound, Size, Row0, CursorLine, LineAt
  <1>4. Rendered(e) => Rendered(d)
    BY <1>0, <1>1, SameWindow
  <1>5. MovedTo(ShowCursor(d), e)
    BY <1>0, <1>1, <1>3, <1>4, ShownMoved
  <1>6. Redone(ShowCursor(d), d) /\ \A i \in 0 .. YMax : Row(ShowCursor(d).scr, i) = Row(d.scr, i)
    BY <1>1, ShowCursorIs
  <1>7. ShowCursor(d).x = d.x /\ ShowCursor(d).y = d.y /\ ShowCursor(d).view_y = d.view_y
    BY <1>1, <1>6, RedoneIs
  <1> QED BY <1>1, <1>2, <1>5, <1>6, <1>7

\* Sound, but for the column.
Within(e) ==
  /\ e \in Editors /\ e.y_max <= YMax /\ e.y <= e.y_max
  /\ IF Size(e) = 0 THEN e.y = 0 /\ e.view_y = 0 ELSE Row0(e) < Size(e)

\* The column aimed at, or the end of a line that is too short.
LEMMA AimedIs ==
  ASSUME NEW e, Within(e)
  PROVE  /\ Sound(Aimed(e)) /\ Aimed(e) = [e EXCEPT !.x = Aimed(e).x]
         /\ Aimed(e).data = e.data /\ Aimed(e).y = e.y /\ Aimed(e).view_y = e.view_y
         /\ Aimed(e).y_max = e.y_max /\ Aimed(e).scr = e.scr /\ Aimed(e).lpos = e.lpos
         /\ Size(e) # 0 /\ e.lpos \in 0 .. CursorLine(e).len => Aimed(e).x = e.lpos
  <1> DEFINE f == Aimed(e)
             x == IF Row0(e) >= Size(e) THEN 0
                  ELSE IF e.lpos > -1 THEN Smaller(CursorLine(e).len, e.lpos) ELSE CursorLine(e).len
  <1>0. e \in Editors /\ Size(e) \in Nat /\ Row0(e) \in Nat /\ e.lpos \in Int /\ e.view_y \in Nat /\ e.y \in Nat
    BY EditorIs DEF Within
  <1>1. f = [e EXCEPT !.x = x]
    BY DEF Aimed
  <1>2. Size(e) # 0 => Row0(e) < Size(e) /\ CursorLine(e).len \in Nat
    <2> SUFFICES ASSUME Size(e) # 0 PROVE Row0(e) < Size(e) /\ CursorLine(e).len \in Nat
      OBVIOUS
    <2>1. Row0(e) < Size(e)
      BY DEF Within
    <2> QED BY <1>0, <2>1, LineAtIs DEF CursorLine
  <1>3. Size(e) # 0 => /\ x \in Nat /\ x <= CursorLine(e).len
                       /\ e.lpos \in 0 .. CursorLine(e).len => x = e.lpos
    BY <1>0, <1>2 DEF Smaller
  <1>4. Size(e) = 0 => x = 0
    BY <1>0
  <1>5. x \in Nat
    BY <1>3, <1>4
  <1> HIDE DEF x, f
  <1>6. /\ f \in Editors /\ f.x = x /\ f.data = e.data /\ f.y = e.y /\ f.view_y = e.view_y
        /\ f.y_max = e.y_max /\ f.scr = e.scr /\ f.lpos = e.lpos
    BY <1>0, <1>1, <1>5 DEF Editors
  <1>7. Size(f) = Size(e) /\ Row0(f) = Row0(e) /\ CursorLine(f) = CursorLine(e)
    BY <1>6 DEF Size, Row0, CursorLine, LineAt
  <1>8. Sound(f)
    BY <1>2, <1>3, <1>4, <1>6, <1>7 DEF Sound, Within
  <1> QED BY <1>1, <1>3, <1>6, <1>8 DEF f

\* The parts of a sound editor.
LEMMA SoundIs ==
  ASSUME NEW e, Sound(e)
  PROVE  /\ e \in Editors /\ e.y_max <= YMax /\ e.y <= e.y_max /\ Within(e)
         /\ Size(e) = 0 => Row0(e) = 0 /\ e.x = 0 /\ e.y = 0 /\ e.view_y = 0
         /\ Size(e) # 0 => Row0(e) < Size(e) /\ e.x <= CursorLine(e).len /\ CursorLine(e) \in TLines
                           /\ CursorLine(e).len \in Nat
  <1>1. e \in Editors /\ Size(e) \in Nat /\ Row0(e) \in Nat
    BY EditorIs DEF Sound
  <1>2. Size(e) # 0 => Row0(e) < Size(e)
    BY DEF Sound
  <1>3. Size(e) # 0 => CursorLine(e) \in TLines /\ CursorLine(e).len \in Nat
    BY <1>1, <1>2, LineAtIs DEF CursorLine
  <1>4. Size(e) = 0 => Row0(e) = 0
    BY DEF Sound, Row0
  <1> QED BY <1>1, <1>2, <1>3, <1>4 DEF Sound, Within

\* Down: the next line, if there is one.
LEMMA YPlusIs ==
  ASSUME NEW e, Sound(e)
  PROVE  /\ MovedTo(y_plus(e), e)
         /\ Row0(e) < Size(e) - 1 =>
              /\ Row0(y_plus(e)) = Row0(e) + 1
              /\ e.lpos = 0 => y_plus(e).x = 0
  <1>1. /\ e \in Editors /\ e.y_max <= YMax /\ e.y <= e.y_max
        /\ Size(e) \in Nat /\ Row0(e) \in Nat /\ e.view_y \in Nat /\ e.y \in Nat /\ e.y_max \in Nat
        /\ Row0(e) = e.view_y + e.y /\ YMax \in Nat /\ e.lpos \in Int /\ e.x \in Nat
    BY SoundIs, EditorIs, Sizes
  <1>2. CASE Row0(e) < Size(e) - 1 /\ e.y < e.y_max
    <2> DEFINE d == [e EXCEPT !.y = @ + 1]
    <2>1. /\ d \in Editors /\ d.y = e.y + 1 /\ d.view_y = e.view_y /\ d.data = e.data /\ d.x = e.x
          /\ d.y_max = e.y_max /\ d.scr = e.scr /\ d.lpos = e.lpos
      <3>1. d \in Editors
        BY <1>1, SMTT(30) DEF Editors
      <3>2. d.y = e.y + 1
        BY <1>1 DEF Editors
      <3>3. d.view_y = e.view_y /\ d.data = e.data /\ d.x = e.x
        BY <1>1 DEF Editors
      <3>4. d.y_max = e.y_max /\ d.scr = e.scr /\ d.lpos = e.lpos
        BY <1>1 DEF Editors
      <3> HIDE DEF d
      <3> QED BY <3>1, <3>2, <3>3, <3>4
    <2>2. y_plus(e) = ShowCursor(Aimed(d))
      BY <1>2 DEF y_plus
    <2> HIDE DEF d
    <2>3. Size(d) = Size(e) /\ Row0(d) = Row0(e) + 1
      BY <1>1, <2>1 DEF Size, Row0
    <2>4. Within(d)
      BY <1>1, <1>2, <2>1, <2>3 DEF Within
    <2> DEFINE f == Aimed(d)
    <2>5. /\ Sound(f) /\ f.data = e.data /\ f.y = e.y + 1 /\ f.view_y = e.view_y
          /\ f.y_max = e.y_max /\ f.scr = e.scr
          /\ Size(d) # 0 /\ d.lpos \in 0 .. CursorLine(d).len => f.x = d.lpos
      BY <2>1, <2>4, AimedIs
    <2> HIDE DEF f
    <2>6. f \in Editors
      BY <2>5 DEF Sound
    <2>7. Rendered(e) => Rendered(f)
      BY <1>1, <2>5, <2>6, SameWindow
    <2>8. MovedTo(ShowCursor(f), e)
      BY <1>1, <2>5, <2>7, ShownMoved
    <2>9. Row0(ShowCursor(f)) = Row0(f) /\ ShowCursor(f).x = f.x
      <3>1. Redone(ShowCursor(f), f)
        BY <2>6, ShowCursorIs
      <3> QED BY <2>6, <3>1, RedoneIs
    <2>10. Row0(f) = Row0(e) + 1
      BY <1>1, <2>5 DEF Row0
    <2>11. Size(d) # 0 /\ CursorLine(d).len \in Nat
      <3>1. Row0(d) \in Nat /\ Row0(d) < Size(d) /\ Size(d) # 0
        BY <1>1, <1>2, <2>3
      <3> QED BY <2>1, <3>1, LineAtIs DEF CursorLine
    <2>12. e.lpos = 0 => f.x = 0
      BY <1>1, <2>1, <2>5, <2>11
    <2> QED BY <2>2, <2>8, <2>9, <2>10, <2>12 DEF f
  <1>3. CASE Row0(e) < Size(e) - 1 /\ ~(e.y < e.y_max)
    <2> DEFINE d == [e EXCEPT !.view_y = @ + 1]
    <2>0. e.view_y + 1 \in Nat
      BY <1>1
    <2>1. /\ d \in Editors /\ d.y = e.y /\ d.view_y = e.view_y + 1 /\ d.data = e.data /\ d.x = e.x
          /\ d.y_max = e.y_max /\ d.scr = e.scr /\ d.lpos = e.lpos
      BY <1>1, <2>0 DEF Editors
    <2>2. y_plus(e) = redraw_full(Aimed(d))
      BY <1>3 DEF y_plus
    <2> HIDE DEF d
    <2>3. Size(d) = Size(e) /\ Row0(d) = Row0(e) + 1
      BY <1>1, <2>1, SMTT(30) DEF Size, Row0
    <2>4. Within(d)
      BY <1>1, <1>3, <2>1, <2>3 DEF Within
    <2> DEFINE f == Aimed(d)
    <2>5. /\ Sound(f) /\ f.data = e.data /\ f.y = e.y /\ f.view_y = e.view_y + 1
          /\ f.y_max = e.y_max
          /\ Size(d) # 0 /\ d.lpos \in 0 .. CursorLine(d).len => f.x = d.lpos
      BY <2>1, <2>4, AimedIs
    <2> HIDE DEF f
    <2>6. f \in Editors /\ f.y_max <= YMax
      BY <2>5 DEF Sound
    <2>8. MovedTo(redraw_full(f), e)
      BY <1>1, <2>5, ScrolledMoved
    <2>9. Row0(redraw_full(f)) = Row0(f) /\ redraw_full(f).x = f.x
      <3>1. Redone(redraw_full(f), f)
        BY <2>6, RedrawFullIs
      <3> QED BY <2>6, <3>1, RedoneIs
    <2>10. Row0(f) = Row0(e) + 1
      BY <1>1, <2>5 DEF Row0
    <2>11. Size(d) # 0 /\ CursorLine(d).len \in Nat
      <3>1. Row0(d) \in Nat /\ Row0(d) < Size(d) /\ Size(d) # 0
        BY <1>1, <1>3, <2>3
      <3> QED BY <2>1, <3>1, LineAtIs DEF CursorLine
    <2>12. e.lpos = 0 => f.x = 0
      BY <1>1, <2>1, <2>5, <2>11
    <2> QED BY <2>2, <2>8, <2>9, <2>10, <2>12 DEF f
  <1>4. CASE ~(Row0(e) < Size(e) - 1)
    <2> DEFINE d == [e EXCEPT !.lpos = -1]
    <2>1. /\ d \in Editors /\ d.y = e.y /\ d.view_y = e.view_y /\ d.data = e.data /\ d.x = e.x
          /\ d.y_max = e.y_max /\ d.scr = e.scr
      <3>1. d \in Editors
        BY <1>1, SMTT(30) DEF Editors
      <3>2. d.y = e.y /\ d.view_y = e.view_y /\ d.data = e.data
        BY <1>1 DEF Editors
      <3>3. d.x = e.x /\ d.y_max = e.y_max /\ d.scr = e.scr
        BY <1>1 DEF Editors
      <3> HIDE DEF d
      <3> QED BY <3>1, <3>2, <3>3
    <2>2. y_plus(e) = ShowCursor(Aimed(d))
      BY <1>4 DEF y_plus
    <2> HIDE DEF d
    <2>4. Within(d)
      <3>1. Within(e)
        BY SoundIs
      <3> QED BY <2>1, <3>1 DEF Within, Size, Row0
    <2> DEFINE f == Aimed(d)
    <2>5. /\ Sound(f) /\ f.data = e.data /\ f.view_y = e.view_y
          /\ f.y_max = e.y_max /\ f.scr = e.scr
      BY <2>1, <2>4, AimedIs
    <2> HIDE DEF f
    <2>6. f \in Editors
      BY <2>5 DEF Sound
    <2>7. Rendered(e) => Rendered(f)
      BY <1>1, <2>5, <2>6, SameWindow
    <2>8. MovedTo(ShowCursor(f), e)
      BY <1>1, <2>5, <2>7, ShownMoved
    <2> QED BY <1>4, <2>2, <2>8 DEF f
  <1> QED BY <1>2, <1>3, <1>4

\* Up a row, where the row above is in the window.
LEMMA YMinusAbove ==
  ASSUME NEW e \in Editors, e.y_max <= YMax, e.y > 0, e.y - 1 <= e.y_max, Row0(e) - 1 < Size(e)
  PROVE  /\ MovedTo(y_minus(e), e)
         /\ Row0(y_minus(e)) = Row0(e) - 1 /\ y_minus(e).view_y = e.view_y
         /\ Row0(e) - 1 \in Nat
         /\ e.lpos \in 0 .. LineAt(e, Row0(e) - 1).len => y_minus(e).x = e.lpos
         /\ y_minus(e).lpos = e.lpos
  <1>1. /\ Size(e) \in Nat /\ Row0(e) \in Nat /\ e.view_y \in Nat /\ e.y \in Nat /\ e.y_max \in Nat
        /\ Row0(e) = e.view_y + e.y /\ YMax \in Nat /\ e.lpos \in Int /\ e.x \in Nat
    BY EditorIs, Sizes
  <1> DEFINE d == [e EXCEPT !.y = @ - 1]
  <1>2. e.y - 1 \in Nat /\ Row0(e) - 1 \in Nat /\ Size(e) # 0
    BY <1>1
  <1>3. /\ d \in Editors /\ d.y = e.y - 1 /\ d.view_y = e.view_y /\ d.data = e.data /\ d.x = e.x
        /\ d.y_max = e.y_max /\ d.scr = e.scr /\ d.lpos = e.lpos
    BY <1>1, <1>2 DEF Editors
  <1>4. y_minus(e) = ShowCursor(Aimed(d))
    BY DEF y_minus
  <1> HIDE DEF d
  <1>5. Size(d) = Size(e) /\ Row0(d) = Row0(e) - 1 /\ CursorLine(d) = LineAt(e, Row0(e) - 1)
    <2>1. Size(d) = Size(e) /\ Row0(d) = Row0(e) - 1
      BY <1>1, <1>3 DEF Size, Row0
    <2> QED BY <1>3, <2>1 DEF CursorLine, LineAt
  <1>6. Within(d)
    BY <1>1, <1>2, <1>3, <1>5 DEF Within
  <1> DEFINE f == Aimed(d)
  <1>7. /\ Sound(f) /\ f.data = e.data /\ f.y = e.y - 1 /\ f.view_y = e.view_y /\ f.lpos = e.lpos
        /\ f.y_max = e.y_max /\ f.scr = e.scr
        /\ Size(d) # 0 /\ d.lpos \in 0 .. CursorLine(d).len => f.x = d.lpos
    BY <1>3, <1>6, AimedIs
  <1> HIDE DEF f
  <1>8. f \in Editors
    BY <1>7 DEF Sound
  <1>9. Rendered(e) => Rendered(f)
    BY <1>7, <1>8, SameWindow
  <1>10. MovedTo(ShowCursor(f), e)
    BY <1>7, <1>9, ShownMoved
  <1>11. Row0(ShowCursor(f)) = Row0(f) /\ ShowCursor(f).x = f.x /\ ShowCursor(f).view_y = f.view_y
         /\ ShowCursor(f).lpos = f.lpos
    <2>1. Redone(ShowCursor(f), f)
      BY <1>8, ShowCursorIs
    <2> QED BY <1>8, <2>1, RedoneIs
  <1>12. Row0(f) = Row0(e) - 1
    BY <1>1, <1>7 DEF Row0
  <1>13. e.lpos \in 0 .. LineAt(e, Row0(e) - 1).len => f.x = e.lpos
    BY <1>2, <1>3, <1>5, <1>7
  <1> QED BY <1>2, <1>4, <1>7, <1>10, <1>11, <1>12, <1>13 DEF f

\* Up: the previous line, if there is one.
LEMMA YMinusIs ==
  ASSUME NEW e, Sound(e)
  PROVE  MovedTo(y_minus(e), e)
  <1>1. /\ e \in Editors /\ e.y_max <= YMax /\ e.y <= e.y_max
        /\ Size(e) \in Nat /\ Row0(e) \in Nat /\ e.view_y \in Nat /\ e.y \in Nat /\ e.y_max \in Nat
        /\ Row0(e) = e.view_y + e.y /\ YMax \in Nat /\ e.lpos \in Int /\ e.x \in Nat
        /\ Size(e) = 0 => e.y = 0 /\ e.view_y = 0
        /\ Size(e) # 0 => Row0(e) < Size(e)
    BY SoundIs, EditorIs, Sizes
  <1>2. CASE e.y > 0
    <2>1. e.y - 1 <= e.y_max /\ Row0(e) - 1 < Size(e)
      BY <1>1, <1>2
    <2> QED BY <1>1, <1>2, <2>1, YMinusAbove
  <1>3. CASE ~(e.y > 0) /\ e.view_y > 0
    <2> DEFINE d == [e EXCEPT !.view_y = @ - 1]
    <2>0. e.view_y - 1 \in Nat
      BY <1>1, <1>3
    <2>1. /\ d \in Editors /\ d.y = e.y /\ d.view_y = e.view_y - 1 /\ d.data = e.data /\ d.y_max = e.y_max
      BY <1>1, <2>0 DEF Editors
    <2>2. y_minus(e) = redraw_full(Aimed(d))
      BY <1>3 DEF y_minus
    <2> HIDE DEF d
    <2>3. Size(d) = Size(e) /\ Row0(d) = Row0(e) - 1
      BY <1>1, <2>1 DEF Size, Row0
    <2>4. Within(d)
      BY <1>1, <1>3, <2>1, <2>3 DEF Within
    <2> DEFINE f == Aimed(d)
    <2>5. Sound(f) /\ f.data = e.data /\ f.y_max = e.y_max
      BY <2>1, <2>4, AimedIs
    <2> HIDE DEF f
    <2>6. MovedTo(redraw_full(f), e)
      BY <1>1, <2>5, ScrolledMoved
    <2> QED BY <2>2, <2>6 DEF f
  <1>4. CASE ~(e.y > 0) /\ ~(e.view_y > 0)
    <2> DEFINE d == [e EXCEPT !.x = 0]
    <2>1. /\ d \in Editors /\ d.x = 0 /\ d.y = e.y /\ d.view_y = e.view_y /\ d.data = e.data
          /\ d.y_max = e.y_max /\ d.scr = e.scr
      BY <1>1 DEF Editors
    <2>2. y_minus(e) = ShowCursor(d)
      BY <1>4 DEF y_minus
    <2> HIDE DEF d
    <2>3. Size(d) = Size(e) /\ Row0(d) = Row0(e) /\ CursorLine(d) = CursorLine(e)
      BY <2>1 DEF Size, Row0, CursorLine, LineAt
    <2>4. Size(e) # 0 => CursorLine(e).len \in Nat
      BY SoundIs
    <2>5. Sound(d)
      BY <1>1, <2>1, <2>3, <2>4 DEF Sound
    <2>6. Rendered(e) => Rendered(d)
      BY <1>1, <2>1, SameWindow
    <2>7. MovedTo(ShowCursor(d), e)
      BY <1>1, <2>1, <2>5, <2>6, ShownMoved
    <2> QED BY <2>2, <2>7
  <1> QED BY <1>2, <1>3, <1>4

\* The cursor at column x of its row.
Beside(f, e, x) ==
  /\ MovedTo(f, e) /\ f.x = x /\ f.y = e.y /\ f.view_y = e.view_y
  /\ \A i \in 0 .. YMax : Row(f.scr, i) = Row(e.scr, i)

\* Any column of the cursor's line can be moved to.
LEMMA BesideIs ==
  ASSUME NEW e, Sound(e), NEW x \in Nat, Size(e) # 0, x <= CursorLine(e).len
  PROVE  Beside(AimHere([e EXCEPT !.x = x]), e, x)
  <1> DEFINE d == [e EXCEPT !.x = x]
  <1>0. e \in Editors /\ e.y_max <= YMax /\ Within(e)
    BY SoundIs
  <1>1. /\ d \in Editors /\ d.x = x /\ d.y = e.y /\ d.view_y = e.view_y /\ d.data = e.data
        /\ d.y_max = e.y_max /\ d.scr = e.scr
    BY <1>0 DEF Editors
  <1> HIDE DEF d
  <1>2. Size(d) = Size(e) /\ Row0(d) = Row0(e) /\ CursorLine(d) = CursorLine(e)
    BY <1>1 DEF Size, Row0, CursorLine, LineAt
  <1>3. Sound(d)
    BY <1>0, <1>1, <1>2 DEF Sound, Within
  <1>4. Rendered(e) => Rendered(d)
    BY <1>0, <1>1, SameWindow
  <1> DEFINE f == AimHere(d)
  <1>5. /\ MovedTo(f, d) /\ f.x = d.x /\ f.y = d.y /\ f.view_y = d.view_y
        /\ \A i \in 0 .. YMax : Row(f.scr, i) = Row(d.scr, i)
    BY <1>3, AimHereMoved
  <1> HIDE DEF f
  <1>6. Narrow(d) <=> Narrow(e)
    BY <1>0, <1>1, SameText
  <1>7. MovedTo(f, e)
    BY <1>1, <1>4, <1>5, <1>6 DEF MovedTo
  <1> QED BY <1>1, <1>5, <1>7 DEF Beside, d, f

\* Right, inside a line.
LEMMA XPlusHere ==
  ASSUME NEW e, Sound(e), Size(e) # 0, e.x < CursorLine(e).len
  PROVE  Beside(x_plus(e), e, e.x + 1)
  <1>1. e \in Editors /\ e.x \in Nat /\ CursorLine(e).len \in Nat /\ Row0(e) < Size(e)
    BY SoundIs, EditorIs
  <1>2. e.x + 1 \in Nat /\ e.x + 1 <= CursorLine(e).len /\ CursorLine(e).len > e.x
    BY <1>1
  <1>3. x_plus(e) = AimHere([e EXCEPT !.x = e.x + 1])
    BY <1>1, <1>2 DEF x_plus
  <1> DEFINE x == e.x + 1
  <1>4. x \in Nat /\ x <= CursorLine(e).len
    BY <1>2
  <1> HIDE DEF x
  <1>5. Beside(AimHere([e EXCEPT !.x = x]), e, x)
    BY <1>4, BesideIs
  <1> QED BY <1>3, <1>5 DEF x

\* Left, inside a line.
LEMMA XMinusHere ==
  ASSUME NEW e, Sound(e), e.x > 0
  PROVE  Size(e) # 0 /\ Beside(x_minus(e), e, e.x - 1)
  <1>1. e \in Editors /\ e.x \in Nat
    BY SoundIs, EditorIs
  <1>2. Size(e) # 0 /\ CursorLine(e).len \in Nat /\ e.x <= CursorLine(e).len
    <2>1. Size(e) # 0
      BY <1>1, SoundIs
    <2> QED BY <2>1, SoundIs
  <1> DEFINE x == e.x - 1
  <1>3. x_minus(e) = AimHere([e EXCEPT !.x = x])
    BY DEF x_minus
  <1>4. x \in Nat /\ x <= CursorLine(e).len
    BY <1>1, <1>2
  <1> HIDE DEF x
  <1>5. Beside(AimHere([e EXCEPT !.x = x]), e, x)
    BY <1>2, <1>4, BesideIs
  <1> QED BY <1>2, <1>3, <1>5 DEF x

\* Right moves the cursor over the same text.
LEMMA XPlusIs ==
  ASSUME NEW e, Sound(e)
  PROVE  MovedTo(x_plus(e), e)
  <1>1. /\ e \in Editors /\ e.y_max <= YMax /\ e.y <= e.y_max
        /\ Size(e) \in Nat /\ Row0(e) \in Nat /\ e.view_y \in Nat /\ e.y \in Nat /\ e.y_max \in Nat
        /\ Row0(e) = e.view_y + e.y /\ YMax \in Nat /\ e.x \in Nat
        /\ Size(e) = 0 => Row0(e) = 0
        /\ Size(e) # 0 => Row0(e) < Size(e) /\ CursorLine(e).len \in Nat
    BY SoundIs, EditorIs, Sizes
  <1>2. CASE Row0(e) < Size(e) /\ CursorLine(e).len > e.x
    <2>1. Size(e) # 0 /\ e.x < CursorLine(e).len
      BY <1>1, <1>2
    <2> QED BY <2>1, XPlusHere DEF Beside
  <1>3. CASE ~(Row0(e) < Size(e) /\ CursorLine(e).len > e.x) /\ Row0(e) < Size(e) - 1 /\ e.y < e.y_max
    <2> DEFINE d == [e EXCEPT !.x = 0, !.y = @ + 1]
    <2>0. e.y + 1 \in Nat
      BY <1>1
    <2>1. /\ d \in Editors /\ d.x = 0 /\ d.y = e.y + 1 /\ d.view_y = e.view_y /\ d.data = e.data
          /\ d.y_max = e.y_max /\ d.scr = e.scr
      BY <1>1, <2>0 DEF Editors
    <2>2. x_plus(e) = AimHere(d)
      BY <1>3 DEF x_plus
    <2> HIDE DEF d
    <2>3. Size(d) = Size(e) /\ Row0(d) = Row0(e) + 1
      BY <1>1, <2>1 DEF Size, Row0
    <2>4. Row0(d) \in Nat /\ Row0(d) < Size(d) /\ Size(d) # 0 /\ d.y <= d.y_max
      BY <1>1, <1>3, <2>1, <2>3
    <2>5. CursorLine(d).len \in Nat
      BY <2>1, <2>4, LineAtIs DEF CursorLine
    <2>6. Sound(d)
      BY <1>1, <2>1, <2>4, <2>5 DEF Sound
    <2>7. Rendered(e) => Rendered(d)
      BY <1>1, <2>1, SameWindow
    <2>9. MovedTo(AimHere(d), d)
      BY <2>6, AimHereMoved
    <2>10. Narrow(d) <=> Narrow(e)
      BY <1>1, <2>1, SameText
    <2> QED BY <2>1, <2>2, <2>7, <2>9, <2>10 DEF MovedTo
  <1>4. CASE ~(Row0(e) < Size(e) /\ CursorLine(e).len > e.x) /\ Row0(e) < Size(e) - 1 /\ ~(e.y < e.y_max)
    <2> DEFINE d == [e EXCEPT !.x = 0, !.view_y = @ + 1]
    <2>0. e.view_y + 1 \in Nat
      BY <1>1
    <2>1. /\ d \in Editors /\ d.x = 0 /\ d.y = e.y /\ d.view_y = e.view_y + 1 /\ d.data = e.data
          /\ d.y_max = e.y_max
      BY <1>1, <2>0 DEF Editors
    <2>2. x_plus(e) = AimHere(redraw_full(d))
      BY <1>4 DEF x_plus
    <2> HIDE DEF d
    <2>3. Size(d) = Size(e) /\ Row0(d) = Row0(e) + 1
      BY <1>1, <2>1 DEF Size, Row0
    <2>4. Row0(d) \in Nat /\ Row0(d) < Size(d) /\ Size(d) # 0 /\ d.y <= d.y_max
      BY <1>1, <1>4, <2>1, <2>3
    <2>5. CursorLine(d).len \in Nat
      BY <2>1, <2>4, LineAtIs DEF CursorLine
    <2>6. Sound(d)
      BY <1>1, <2>1, <2>4, <2>5 DEF Sound
    <2> DEFINE f == redraw_full(d)
    <2>7. MovedTo(f, e)
      BY <1>1, <2>1, <2>6, ScrolledMoved
    <2> HIDE DEF f
    <2>8. Sound(f)
      BY <2>7 DEF MovedTo
    <2>9. MovedTo(AimHere(f), f)
      BY <2>8, AimHereMoved
    <2>10. MovedTo(AimHere(f), e)
      BY <1>1, <2>7, <2>9, MovedOn
    <2> QED BY <2>2, <2>10 DEF f
  <1>5. CASE ~(Row0(e) < Size(e) /\ CursorLine(e).len > e.x) /\ ~(Row0(e) < Size(e) - 1)
    <2>1. x_plus(e) = AimHere(e)
      BY <1>5 DEF x_plus
    <2> QED BY <2>1, AimHereMoved
  <1> QED BY <1>2, <1>3, <1>4, <1>5

\* Left moves the cursor over the same text.
LEMMA XMinusIs ==
  ASSUME NEW e, Sound(e)
  PROVE  MovedTo(x_minus(e), e)
  <1>1. /\ e \in Editors /\ e.y_max <= YMax /\ e.y <= e.y_max
        /\ Size(e) \in Nat /\ Row0(e) \in Nat /\ e.view_y \in Nat /\ e.y \in Nat /\ e.y_max \in Nat
        /\ Row0(e) = e.view_y + e.y /\ YMax \in Nat /\ e.x \in Nat
        /\ Size(e) = 0 => Row0(e) = 0 /\ e.y = 0
        /\ Size(e) # 0 => Row0(e) < Size(e) /\ CursorLine(e).len \in Nat
    BY SoundIs, EditorIs, Sizes
  <1>2. CASE e.x > 0
    BY <1>2, XMinusHere DEF Beside
  <1>3. CASE ~(e.x > 0) /\ e.y > 0
    <2> DEFINE d == [e EXCEPT !.y = @ - 1, !.lpos = -1]
    <2>0. e.y - 1 \in Nat /\ -1 \in Int
      BY <1>1, <1>3
    <2>1. /\ d \in Editors /\ d.y = e.y - 1 /\ d.view_y = e.view_y /\ d.data = e.data
          /\ d.y_max = e.y_max /\ d.scr = e.scr
      BY <1>1, <2>0 DEF Editors
    <2>2. x_minus(e) = AimHere(Aimed(d))
      BY <1>3 DEF x_minus
    <2> HIDE DEF d
    <2>3. Size(d) = Size(e) /\ Row0(d) = Row0(e) - 1
      BY <1>1, <2>1 DEF Size, Row0
    <2>4. Within(d)
      BY <1>1, <1>3, <2>1, <2>3 DEF Within
    <2> DEFINE f == Aimed(d)
    <2>5. Sound(f) /\ f.data = e.data /\ f.y_max = e.y_max /\ f.view_y = e.view_y /\ f.scr = e.scr
      BY <2>1, <2>4, AimedIs
    <2> HIDE DEF f
    <2>6. f \in Editors
      BY <2>5 DEF Sound
    <2>7. Rendered(e) => Rendered(f)
      BY <1>1, <2>5, <2>6, SameWindow
    <2>9. MovedTo(AimHere(f), f)
      BY <2>5, AimHereMoved
    <2>10. Narrow(f) <=> Narrow(e)
      BY <1>1, <2>5, <2>6, SameText
    <2>11. MovedTo(AimHere(f), e)
      BY <2>5, <2>7, <2>9, <2>10 DEF MovedTo
    <2> QED BY <2>2, <2>11 DEF f
  <1>4. CASE ~(e.x > 0) /\ ~(e.y > 0)
    <2>1. x_minus(e) = AimHere(e)
      BY <1>4 DEF x_minus
    <2> QED BY <2>1, AimHereMoved
  <1> QED BY <1>2, <1>3, <1>4

-----------------------------------------------------------------------------
(* Characters that are typed.                                              *)

\* How long the cursor's line is.
LenHere(e) == IF Row0(e) < Size(e) THEN CursorLine(e).len ELSE 0

\* Every line has its terminator.
AllClosed(e) == \A n \in 1 .. Size(e) : Closed(e.data[n])

\* An empty text gets its first line, and shows no other picture.
GotFrom(g, e) ==
  /\ Sound(g) /\ Size(g) # 0
  /\ g.x = e.x /\ g.y = e.y /\ g.view_y = e.view_y /\ g.y_max = e.y_max /\ g.scr = e.scr
  /\ CursorLine(g).len = LenHere(e)
  /\ Size(e) # 0 => g = e
  /\ Size(e) = 0 => g.data = <<NewLine>> /\ Row0(e) = 0 /\ e.x = 0
  /\ (Narrow(e) => Narrow(g)) /\ (AllClosed(e) => AllClosed(g)) /\ (Rendered(e) => Rendered(g))

\* The line that is edited is there.
LEMMA GotIs ==
  ASSUME NEW e, Sound(e)
  PROVE  GotFrom(Got(e, Row0(e)), e)
  <1> DEFINE g == Got(e, Row0(e))
  <1>1. /\ e \in Editors /\ e.y_max <= YMax /\ e.y <= e.y_max /\ Size(e) \in Nat
        /\ Size(e) = 0 => Row0(e) = 0 /\ e.x = 0 /\ e.y = 0 /\ e.view_y = 0
        /\ Size(e) # 0 => Row0(e) < Size(e)
        /\ e.y_max \in Nat /\ XMax \in Nat
    BY SoundIs, EditorIs, Sizes
  <1>2. CASE Size(e) # 0
    <2>1. g = e
      BY <1>1, <1>2 DEF Got
    <2>2. LenHere(e) = CursorLine(e).len
      BY <1>1, <1>2 DEF LenHere
    <2> QED BY <1>2, <2>1, <2>2 DEF GotFrom
  <1>3. CASE Size(e) = 0
    <2> DEFINE s == [i \in 1 .. 0 + 1 - 0 |-> NewLine]
    <2>1. g = [e EXCEPT !.data = @ \o s]
      BY <1>1, <1>3 DEF Got
    <2>2. e.data = <<>>
      BY <1>1, <1>3, EditorIs DEF Size
    <2>3. s = <<NewLine>>
      OBVIOUS
    <2>4. e.data \o s = <<NewLine>>
      BY <2>2, <2>3
    <2> HIDE DEF s, g
    <2>5. g = [e EXCEPT !.data = <<NewLine>>]
      BY <2>1, <2>4
    <2>6. /\ g \in Editors /\ g.data = <<NewLine>> /\ g.x = e.x /\ g.y = e.y /\ g.view_y = e.view_y
          /\ g.y_max = e.y_max /\ g.scr = e.scr
      <3> DEFINE t == <<NewLine>>
      <3>1. t \in Seq(TLines)
        BY NewLineIs
      <3> HIDE DEF t
      <3> QED BY <1>1, <2>5, <3>1 DEF Editors, t
    <2>7. Size(g) = 1 /\ Row0(g) = 0 /\ CursorLine(g) = NewLine /\ g.data[1] = NewLine
      BY <1>1, <1>3, <2>6 DEF Size, Row0, CursorLine, LineAt
    <2>8. Sound(g) /\ Size(g) # 0
      BY <1>1, <1>3, <2>6, <2>7, NewLineIs DEF Sound
    <2>9. LenHere(e) = 0 /\ CursorLine(g).len = 0
      BY <1>1, <1>3, <2>7, NewLineIs DEF LenHere
    <2>10. Narrow(g) /\ AllClosed(g)
      BY <1>1, <2>7, NewLineIs, NewLineSlim DEF Narrow, AllClosed
    <2>11. ASSUME Rendered(e) PROVE Rendered(g)
      <3>1. ASSUME NEW i \in 0 .. e.y_max PROVE RowText(g, i) = RowText(e, i)
        <4>1. i \notin Rows(e)
          BY <1>1, <1>3 DEF Rows
        <4>2. CASE i = 0
          <5>1. i \in Rows(g) /\ LineAt(g, i + g.view_y) = NewLine
            BY <1>1, <1>3, <2>6, <2>7, <4>2 DEF Rows, LineAt
          <5> QED BY <4>1, <5>1, NewLineIs DEF RowText
        <4>3. CASE i # 0
          <5>1. i \notin Rows(g)
            BY <1>1, <1>3, <2>6, <2>7, <4>3 DEF Rows
          <5> QED BY <4>1, <5>1 DEF RowText
        <4> QED BY <4>2, <4>3
      <3> QED BY <2>6, <2>11, <3>1 DEF Rendered
    <2> QED BY <1>1, <1>3, <2>6, <2>8, <2>9, <2>10, <2>11 DEF GotFrom, g
  <1> QED BY <1>2, <1>3

\* d is e with line l under the cursor.
Replaced(e, l) == [e EXCEPT !.data = [@ EXCEPT ![Row0(e) + 1] = l]]

ReplacedIn(d, e, l) ==
  /\ d \in Editors /\ d.x = e.x /\ d.y = e.y /\ d.lpos = e.lpos /\ d.view_y = e.view_y
  /\ d.y_max = e.y_max /\ d.scr = e.scr
  /\ d.data = [e.data EXCEPT ![Row0(e) + 1] = l]
  /\ Size(d) = Size(e) /\ Row0(d) = Row0(e) /\ CursorLine(d) = l
  /\ \A j \in 0 .. e.y_max : j # e.y => RowText(d, j) = RowText(e, j)
  /\ RowText(d, e.y) = Padded(CharsIn(l))
  /\ Narrow(e) /\ Slim(l) => Narrow(d)
  /\ AllClosed(e) /\ Closed(l) => AllClosed(d)
  /\ e.x <= l.len => Sound(d)

\* Another line in place of the cursor's.
LEMMA ReplacedIs ==
  ASSUME NEW e, Sound(e), Size(e) # 0, NEW l \in TLines
  PROVE  ReplacedIn(Replaced(e, l), e, l)
  <1> DEFINE d == Replaced(e, l)
             n == Row0(e) + 1
             D == [e.data EXCEPT ![n] = l]
  <1>1. /\ e \in Editors /\ e.data \in Seq(TLines) /\ Size(e) = Len(e.data) /\ n \in 1 .. Size(e)
        /\ e.y_max <= YMax /\ e.y <= e.y_max /\ Row0(e) < Size(e)
        /\ e.y \in Nat /\ e.y_max \in Nat /\ e.view_y \in Nat /\ Row0(e) = e.view_y + e.y /\ Row0(e) \in Nat
        /\ Size(e) \in Nat
    BY SoundIs, EditorIs DEF Size
  <1>2. D \in Seq(TLines) /\ Len(D) = Size(e) /\ D[n] = l /\ \A m \in 1 .. Size(e) : m # n => D[m] = e.data[m]
    BY <1>1
  <1>3. d = [e EXCEPT !.data = D]
    BY DEF Replaced
  <1> HIDE DEF D, d
  <1>4. /\ d \in Editors /\ d.x = e.x /\ d.y = e.y /\ d.lpos = e.lpos /\ d.view_y = e.view_y
        /\ d.y_max = e.y_max /\ d.scr = e.scr /\ d.data = D
    BY <1>1, <1>2, <1>3 DEF Editors
  <1>5. Size(d) = Size(e) /\ Row0(d) = Row0(e) /\ CursorLine(d) = l
    BY <1>2, <1>4 DEF Size, Row0, CursorLine, LineAt
  <1>6. Rows(d) = Rows(e)
    BY <1>4, <1>5 DEF Rows
  <1>7. ASSUME NEW j \in 0 .. e.y_max, j # e.y PROVE RowText(d, j) = RowText(e, j)
    <2>1. CASE j \in Rows(e)
      <3>1. j + e.view_y + 1 \in 1 .. Size(e) /\ j + e.view_y + 1 # n
        BY <1>1, <1>7, <2>1, SMTT(30) DEF Rows
      <3>2. LineAt(d, j + d.view_y) = LineAt(e, j + e.view_y)
        BY <1>2, <1>4, <3>1 DEF LineAt
      <3> QED BY <1>6, <2>1, <3>2 DEF RowText
    <2>2. CASE j \notin Rows(e)
      BY <1>6, <2>2 DEF RowText
    <2> QED BY <2>1, <2>2
  <1>8. RowText(d, e.y) = Padded(CharsIn(l))
    <2>1. e.y \in Rows(e) /\ e.y + d.view_y = Row0(e)
      BY <1>1, <1>4 DEF Rows
    <2>2. LineAt(d, Row0(e)) = l
      BY <1>2, <1>4 DEF LineAt
    <2> QED BY <1>6, <2>1, <2>2 DEF RowText
  <1>9. Narrow(e) /\ Slim(l) => Narrow(d)
    BY <1>2, <1>4, <1>5 DEF Narrow
  <1>10. AllClosed(e) /\ Closed(l) => AllClosed(d)
    BY <1>2, <1>4, <1>5 DEF AllClosed
  <1>11. e.x <= l.len => Sound(d)
    BY <1>1, <1>4, <1>5 DEF Sound
  <1> QED BY <1>4, <1>5, <1>7, <1>8, <1>9, <1>10, <1>11 DEF ReplacedIn, D, d

\* A character more on the cursor's line, and the cursor behind it.
WrittenIn(f, e, g, c) ==
  /\ Sound(f) /\ f.y_max = e.y_max /\ f.x = e.x + 1 /\ Row0(f) = Row0(e)
  /\ Size(f) = Size(g) /\ f.data = [g.data EXCEPT ![Row0(g) + 1] = CursorLine(f)]
  /\ InsertedIn(CursorLine(f), CursorLine(g), c, e.x)
  /\ LenHere(f) = LenHere(e) + 1
  /\ AllClosed(e) => AllClosed(f)
  /\ Narrow(e) /\ LenHere(e) + 1 <= XMax =>
       /\ Narrow(f)
       /\ Rendered(e) /\ Pointed(e) => Rendered(f) /\ Pointed(f)

\* write puts its character at the cursor and moves behind it.
LEMMA WriteIs ==
  ASSUME NEW e, Sound(e), NEW c \in Keyed
  PROVE  WrittenIn(write(e, c), e, Got(e, Row0(e)), c)
  <1> DEFINE g == Got(e, Row0(e))
             k == CursorLine(g)
             l == insert(k, c, g.x)
             d == Replaced(g, l)
  <1>1. GotFrom(g, e)
    BY GotIs
  <1> HIDE DEF g
  <1>2. /\ Sound(g) /\ Size(g) # 0 /\ g \in Editors /\ k \in TLines /\ k.len \in Nat /\ g.x \in Nat
        /\ g.x <= k.len /\ g.x = e.x /\ g.y = e.y /\ g.view_y = e.view_y /\ g.y_max = e.y_max /\ k.len = LenHere(e)
        /\ g.scr = e.scr /\ g.y_max <= YMax /\ g.y <= g.y_max /\ g.y \in Nat /\ g.y_max \in Nat /\ g.view_y \in Nat
        /\ Size(g) \in Nat /\ Row0(g) \in Nat /\ Row0(g) = g.view_y + g.y /\ Row0(g) < Size(g)
        /\ XMax \in Nat /\ YMax \in Nat
    BY <1>1, SoundIs, EditorIs, Sizes DEF GotFrom
  <1>3. Row0(e) = Row0(g)
    BY <1>2 DEF Row0
  <1> HIDE DEF k
  <1>3a. c \in Printed /\ g.x \in 0 .. k.len
    BY <1>2, KeyedPlain
  <1>4. InsertedIn(l, k, c, g.x)
    BY <1>2, <1>3a, InsertIs
  <1>5. l \in TLines /\ l.len = k.len + 1 /\ (Closed(k) => Closed(l))
    BY <1>4 DEF InsertedIn
  <1>5a. ReplacedIn(d, g, l)
    BY <1>2, <1>5, ReplacedIs
  <1>6. [g EXCEPT !.data[Row0(g) + 1] = insert(@, c, g.x)] = d
    BY DEF Replaced, l, k, CursorLine, LineAt
  <1> HIDE DEF l, d
  <1>7. write(e, c) = IF g.x < k.len THEN redraw_line(x_plus(d), g.y)
                      ELSE x_plus([d EXCEPT !.scr = write_c(@, c)])
    <2> DEFINE t == [g EXCEPT !.data[Row0(g) + 1] = insert(@, c, g.x)]
    <2>1. write(e, c) = IF g.x < CursorLine(g).len THEN redraw_line(x_plus(t), g.y)
                        ELSE x_plus([t EXCEPT !.scr = write_c(@, c)])
      BY DEF write, g
    <2>2. t = d
      BY <1>6
    <2> HIDE DEF t
    <2> QED BY <2>1, <2>2 DEF k
  <1>8. /\ d \in Editors /\ Sound(d) /\ d.x = e.x /\ d.y = e.y /\ d.view_y = e.view_y /\ d.y_max = e.y_max
        /\ d.scr = e.scr
        /\ Size(d) = Size(g) /\ Row0(d) = Row0(g) /\ CursorLine(d) = l /\ d.data = [g.data EXCEPT ![Row0(g) + 1] = l]
    <2>1. g.x <= l.len
      BY <1>2, <1>5
    <2> QED BY <1>2, <1>5a, <2>1 DEF ReplacedIn
  <1>9. Size(d) # 0 /\ d.x < CursorLine(d).len
    BY <1>2, <1>5, <1>8
  <1>10. AllClosed(e) => AllClosed(d)
    <2> SUFFICES ASSUME AllClosed(e) PROVE AllClosed(d)
      OBVIOUS
    <2>1. AllClosed(g)
      BY <1>1 DEF GotFrom
    <2>2. Closed(k)
      <3>1. Row0(g) + 1 \in 1 .. Size(g)
        BY <1>2
      <3> QED BY <2>1, <3>1 DEF AllClosed, k, CursorLine, LineAt
    <2> QED BY <1>5, <1>5a, <2>1, <2>2 DEF ReplacedIn
  <1>11. ASSUME Narrow(e), LenHere(e) + 1 <= XMax PROVE Narrow(d)
    <2>1. Narrow(g)
      BY <1>1, <1>11 DEF GotFrom
    <2>2. Slim(l)
      <3>1. Slim(k)
        BY <1>2, <2>1, LineAtIs DEF k, CursorLine
      <3>2. k.len + 1 <= XMax
        BY <1>2, <1>11
      <3> QED BY <1>2, <1>3a, <1>4, <3>1, <3>2, SlimInserted
    <2> QED BY <1>5a, <2>1, <2>2 DEF ReplacedIn
  <1>12. ASSUME NEW f, Sound(f), f.data = d.data, f.y_max = d.y_max, f.x = d.x + 1, f.y = d.y, f.view_y = d.view_y,
                Narrow(d) /\ LenHere(e) + 1 <= XMax /\ Rendered(e) /\ Pointed(e) => Rendered(f) /\ Pointed(f)
         PROVE  WrittenIn(f, e, g, c)
    <2>1. f \in Editors
      BY <1>12 DEF Sound
    <2>2. Size(f) = Size(g) /\ CursorLine(f) = l /\ Row0(f) = Row0(e)
      BY <1>3, <1>8, <1>12 DEF Size, CursorLine, LineAt, Row0
    <2>3. LenHere(f) = LenHere(e) + 1
      <3>1. Row0(f) < Size(f)
        BY <1>2, <1>3, <2>2
      <3> QED BY <1>2, <1>5, <2>2, <3>1 DEF LenHere
    <2>4. AllClosed(e) => AllClosed(f)
      BY <1>8, <1>10, <1>12, <2>2 DEF AllClosed
    <2>5. Narrow(d) => Narrow(f)
      BY <1>8, <1>12, <2>1, SameText
    <2>6. InsertedIn(CursorLine(f), CursorLine(g), c, e.x)
      BY <1>2, <1>4, <2>2 DEF k
    <2> QED BY <1>8, <1>11, <1>12, <2>2, <2>3, <2>4, <2>5, <2>6 DEF WrittenIn
  <1>13. CASE g.x < k.len
    <2> DEFINE m == x_plus(d)
               f == redraw_line(m, g.y)
    <2>1. Beside(m, d, d.x + 1)
      BY <1>8, <1>9, XPlusHere
    <2> HIDE DEF m
    <2>2. /\ Sound(m) /\ m.data = d.data /\ m.y_max = d.y_max /\ m.x = d.x + 1 /\ m.y = d.y /\ m.view_y = d.view_y
          /\ \A i \in 0 .. YMax : Row(m.scr, i) = Row(d.scr, i)
      BY <2>1 DEF Beside, MovedTo
    <2>3. m \in Editors /\ m.y_max <= YMax /\ Size(m) = Size(d)
      BY <2>2, SoundIs DEF Size
    <2>4. g.y \in 0 .. m.y_max /\ g.y + m.view_y < Size(m)
      BY <1>2, <1>8, <2>2, <2>3
    <2>5. /\ Redone(f, m)
          /\ Narrow(m) /\ (\A j \in 0 .. m.y_max : j # g.y => Row(m.scr, j) = RowText(m, j)) => Rendered(f)
      BY <2>3, <2>4, RedrawLineIs
    <2> HIDE DEF f
    <2>6. /\ Sound(f) /\ f.data = m.data /\ f.y_max = m.y_max /\ f.x = m.x /\ f.y = m.y /\ f.view_y = m.view_y
          /\ Narrow(m) => Pointed(f)
      BY <2>2, <2>3, <2>5, RedoneIs
    <2>7. Narrow(m) <=> Narrow(d)
      BY <1>8, <2>2, <2>3, SameText
    <2>8. ASSUME Narrow(d), Rendered(e) PROVE Rendered(f)
      <3>1. Rendered(g)
        BY <1>1, <2>8 DEF GotFrom
      <3>2. ASSUME NEW j \in 0 .. m.y_max, j # g.y PROVE Row(m.scr, j) = RowText(m, j)
        <4>1. j \in 0 .. YMax /\ j \in 0 .. g.y_max
          BY <1>2, <1>8, <2>2
        <4>2. Row(m.scr, j) = Row(g.scr, j)
          BY <1>2, <1>8, <2>2, <4>1
        <4>3. RowText(m, j) = RowText(d, j)
          BY <1>8, <2>2, <2>3, SameWindow
        <4>4. RowText(d, j) = RowText(g, j)
          BY <1>5a, <3>2, <4>1 DEF ReplacedIn
        <4> QED BY <3>1, <4>1, <4>2, <4>3, <4>4 DEF Rendered
      <3> QED BY <2>5, <2>7, <2>8, <3>2
    <2>9. WrittenIn(f, e, g, c)
      BY <1>12, <2>2, <2>6, <2>7, <2>8
    <2> QED BY <1>7, <1>13, <2>9 DEF f, m, g
  <1>14. CASE ~(g.x < k.len)
    <2> DEFINE z == e.scr
               w == write_c(z, c)
               m == [d EXCEPT !.scr = w]
               f == x_plus(m)
    <2>1. z \in Screens /\ w \in Screens
      <3>1. z \in Screens
        BY <1>8, EditorIs
      <3> HIDE DEF z
      <3> QED BY <1>3a, <3>1, WriteCIs
    <2>2. write(e, c) = f
      BY <1>7, <1>8, <1>14
    <2> HIDE DEF w
    <2>3. /\ m \in Editors /\ m.scr = w /\ m.data = d.data /\ m.x = d.x /\ m.y = d.y /\ m.view_y = d.view_y /\ m.y_max = d.y_max
      BY <1>8, <2>1 DEF Editors
    <2> HIDE DEF m
    <2>4. Size(m) = Size(d) /\ Row0(m) = Row0(d) /\ CursorLine(m) = CursorLine(d)
      BY <2>3 DEF Size, Row0, CursorLine, LineAt
    <2>5. Sound(m)
      BY <1>8, <2>3, <2>4 DEF Sound
    <2>6. Beside(f, m, m.x + 1)
      BY <1>9, <2>3, <2>4, <2>5, XPlusHere
    <2> HIDE DEF f
    <2>7. /\ Sound(f) /\ f.data = d.data /\ f.y_max = d.y_max /\ f.x = d.x + 1 /\ f.y = d.y /\ f.view_y = d.view_y
          /\ Narrow(m) => Pointed(f) /\ (Rendered(m) => Rendered(f))
      BY <2>3, <2>6 DEF Beside, MovedTo
    <2>8. ASSUME Narrow(d), LenHere(e) + 1 <= XMax, Rendered(e), Pointed(e) PROVE Rendered(f) /\ Pointed(f)
      <3>1. Narrow(m)
        BY <1>8, <2>3, <2>8, SameText
      <3>2. z.x = e.x /\ z.y = e.y /\ e.x = k.len
        BY <1>2, <1>14, <2>8 DEF Pointed
      <3>3. Rendered(g)
        BY <1>1, <2>8 DEF GotFrom
      <3>4. Row(z, e.y) = Padded(CharsIn(k))
        <4>1. e.y \in 0 .. g.y_max
          BY <1>2
        <4>2. e.y \in Rows(g) /\ LineAt(g, e.y + g.view_y) = k
          <5>1. e.y + g.view_y = Row0(g)
            BY <1>2
          <5> QED BY <1>2, <4>1, <5>1 DEF Rows, k, CursorLine
        <4> QED BY <1>2, <3>3, <4>1, <4>2 DEF Rendered, RowText
      <3>5. CharsIn(l) = Append(CharsIn(k), c)
        <4>1. UpTo(l, k.len + 1) = Append(UpTo(k, k.len), c)
          BY <1>2, <1>4, <3>2 DEF InsertedIn
        <4> QED BY <1>2, <1>5, <4>1, Whole
      <3>6. CharsIn(k) \in Seq(Printed) /\ Len(CharsIn(k)) = z.x
        BY <1>2, <3>2, CharsAre
      <3>7. \A y \in 0 .. YMax : y # e.y => Row(w, y) = Row(z, y)
        BY <1>3a, <2>1, <3>2, WriteCIs DEF w
      <3>8. Row(w, e.y) = Padded(CharsIn(l))
        <4> DEFINE s == CharsIn(k)
        <4> HIDE DEF s, z
        <4>1. Row(w, z.y) = Padded(Append(s, c))
          BY <1>3a, <2>1, <3>2, <3>4, <3>6, WriteCIs DEF s, w
        <4> QED BY <3>2, <3>5, <4>1 DEF s
      <3>9. ASSUME NEW j \in 0 .. m.y_max PROVE Row(m.scr, j) = RowText(m, j)
        <4>1. j \in 0 .. YMax /\ j \in 0 .. g.y_max
          BY <1>2, <1>8, <2>3
        <4>2. RowText(m, j) = RowText(d, j)
          BY <1>8, <2>3, SameWindow
        <4>3. CASE j = e.y
          <5>1. RowText(d, e.y) = Padded(CharsIn(l))
            BY <1>2, <1>5a DEF ReplacedIn
          <5> QED BY <2>3, <3>8, <4>2, <4>3, <5>1
        <4>4. CASE j # e.y
          <5>1. RowText(d, j) = RowText(g, j)
            BY <1>2, <1>5a, <4>1, <4>4 DEF ReplacedIn
          <5>2. Row(z, j) = RowText(g, j)
            BY <1>2, <3>3, <4>1 DEF Rendered
          <5>3. Row(w, j) = Row(z, j)
            BY <3>7, <4>1, <4>4
          <5> QED BY <2>3, <4>2, <5>1, <5>2, <5>3
        <4> QED BY <4>3, <4>4
      <3>10. Rendered(m)
        BY <3>9 DEF Rendered
      <3> QED BY <2>7, <3>1, <3>10
    <2>9. WrittenIn(f, e, g, c)
      BY <1>12, <2>7, <2>8
    <2> QED BY <2>2, <2>9 DEF g
  <1> QED BY <1>13, <1>14

-----------------------------------------------------------------------------
(* The text: its lines joined, and its sides before and after the cursor.  *)

\* FlattenSeq adds one sequence after the other.
Flattening(f, S, p) ==
  /\ f \in [1 .. Len(p) -> Seq(S)]
  /\ \A i \in 1 .. Len(p) : f[i] = IF i = 1 THEN p[i] ELSE f[i - 1] \o p[i]
  /\ p # <<>> => FlattenSeq(p) = f[Len(p)]

\* The recursive function that FlattenSeq is.
LEMMA FlattenRuns ==
  ASSUME NEW S, NEW p \in Seq(Seq(S))
  PROVE  \E f : Flattening(f, S, p)
  <1> DEFINE n == Len(p)
             Goes(f, k) == /\ f \in [1 .. k -> Seq(S)]
                           /\ \A i \in 1 .. k : f[i] = IF i = 1 THEN p[i] ELSE f[i - 1] \o p[i]
             K == {k \in 0 .. n : \E f : Goes(f, k)}
  <1>1. n \in Nat /\ \A i \in 1 .. n : p[i] \in Seq(S)
    OBVIOUS
  <1> HIDE DEF n
  <1>2. 0 \in K
    <2> DEFINE f == [i \in 1 .. 0 |-> <<>>]
    <2>1. Goes(f, 0)
      OBVIOUS
    <2> HIDE DEF f, Goes
    <2> QED BY <1>1, <2>1
  <1>3. \A k \in 0 .. n - 1 : k \in K => k + 1 \in K
    <2> SUFFICES ASSUME NEW k \in 0 .. n - 1, NEW f, Goes(f, k) PROVE \E g : Goes(g, k + 1)
      <3> HIDE DEF Goes
      <3> QED BY <1>1
    <2> DEFINE last == IF k = 0 THEN p[1] ELSE f[k] \o p[k + 1]
               g == [i \in 1 .. k + 1 |-> IF i = k + 1 THEN last ELSE f[i]]
    <2>1. k \in Nat /\ k + 1 \in 1 .. n /\ p[k + 1] \in Seq(S)
      BY <1>1
    <2>2. last \in Seq(S)
      BY <1>1, <2>1
    <2>2a. k = 0 => last = p[k + 1]
      OBVIOUS
    <2>2b. k # 0 => last = f[k] \o p[k + 1]
      OBVIOUS
    <2> HIDE DEF last
    <2>3. g \in [1 .. k + 1 -> Seq(S)]
      BY <2>1, <2>2
    <2>4. \A i \in 1 .. k : g[i] = f[i]
      BY <2>1
    <2>5. g[k + 1] = last
      BY <2>1
    <2> HIDE DEF g
    <2>6. ASSUME NEW i \in 1 .. k + 1 PROVE g[i] = IF i = 1 THEN p[i] ELSE g[i - 1] \o p[i]
      <3>1. CASE i = k + 1
        <4>1. CASE k = 0
          BY <2>2a, <2>5, <3>1, <4>1
        <4>2. CASE k # 0
          <5>1. i # 1 /\ i - 1 = k /\ k \in 1 .. k
            BY <2>1, <3>1, <4>2
          <5> QED BY <2>2b, <2>4, <2>5, <3>1, <4>2, <5>1
        <4> QED BY <4>1, <4>2
      <3>2. CASE i # k + 1
        <4>1. i \in 1 .. k /\ (i # 1 => i - 1 \in 1 .. k)
          BY <2>1, <3>2
        <4> QED BY <2>4, <4>1
      <3> QED BY <3>1, <3>2
    <2>7. Goes(g, k + 1)
      BY <2>3, <2>6
    <2> QED BY <2>7
  <1> HIDE DEF K
  <1>4. n \in K
    <2>1. \A i \in 0 .. n : i \in K
      BY <1>1, <1>2, <1>3, Climb
    <2> QED BY <1>1, <2>1
  <1>5. PICK f : Goes(f, n)
    BY <1>4 DEF K
  <1> DEFINE h == CHOOSE h : h = [i \in 1 .. Len(p) |-> IF i = 1 THEN p[i] ELSE h[i - 1] \o p[i]]
  <1>6. f = [i \in 1 .. Len(p) |-> IF i = 1 THEN p[i] ELSE f[i - 1] \o p[i]]
    BY <1>5 DEF n
  <1>7. h = [i \in 1 .. Len(p) |-> IF i = 1 THEN p[i] ELSE h[i - 1] \o p[i]]
    BY <1>6, Zenon
  <1>8. p # <<>> => FlattenSeq(p) = h[Len(p)]
    <2>1. ASSUME p # <<>> PROVE Len(p) # 0
      BY <2>1, EmptySeq
    <2> QED BY <2>1, Zenon DEF FlattenSeq
  <1> HIDE DEF h
  <1>9. \A i \in 1 .. n : h[i] = f[i]
    <2> DEFINE A(i) == i = 0 \/ h[i] = f[i]
               I == {i \in 0 .. n : A(i)}
    <2>1. 0 \in I
      BY <1>1
    <2>2. \A i \in 0 .. n - 1 : i \in I => i + 1 \in I
      <3> SUFFICES ASSUME NEW i \in 0 .. n - 1, A(i) PROVE A(i + 1)
        <4> HIDE DEF A
        <4> QED BY <1>1
      <3>1. i + 1 \in 1 .. n /\ (i + 1) - 1 = i /\ (i + 1 = 1 <=> i = 0)
        BY <1>1
      <3>2. h[i + 1] = IF i + 1 = 1 THEN p[i + 1] ELSE h[i] \o p[i + 1]
        BY <1>7, <3>1 DEF n
      <3>3. f[i + 1] = IF i + 1 = 1 THEN p[i + 1] ELSE f[i] \o p[i + 1]
        BY <1>5, <3>1
      <3> QED BY <3>1, <3>2, <3>3
    <2> HIDE DEF I
    <2>3. \A i \in 0 .. n : i \in I
      BY <1>1, <2>1, <2>2, Climb
    <2> QED BY <1>1, <2>3 DEF I
  <1>10. p # <<>> => FlattenSeq(p) = f[n]
    <2>1. ASSUME p # <<>> PROVE n \in 1 .. n
      BY <1>1, <2>1 DEF n
    <2> QED BY <1>8, <1>9, <2>1 DEF n
  <1>11. Flattening(f, S, p)
    BY <1>5, <1>10 DEF Flattening, n
  <1> QED BY <1>11

\* A sequence more at the end.
LEMMA FlattenMore ==
  ASSUME NEW S, NEW p \in Seq(Seq(S)), NEW x \in Seq(S)
  PROVE  /\ FlattenSeq(<<>>) = <<>> /\ FlattenSeq(p) \in Seq(S)
         /\ FlattenSeq(Append(p, x)) = FlattenSeq(p) \o x
  <1> DEFINE q == Append(p, x)
             n == Len(p)
  <1>1. /\ q \in Seq(Seq(S)) /\ Len(q) = n + 1 /\ n \in Nat /\ q # <<>> /\ q[n + 1] = x
        /\ \A i \in 1 .. n : q[i] = p[i]
    <2> DEFINE T == Seq(S)
    <2> HIDE DEF T
    <2>1. p \in Seq(T) /\ x \in T
      BY DEF T
    <2>2. /\ q \in Seq(T) /\ Len(q) = n + 1 /\ n \in Nat /\ q[n + 1] = x
          /\ \A i \in 1 .. n : q[i] = p[i]
      BY <2>1
    <2>3. q # <<>>
      BY <2>2
    <2> QED BY <2>2, <2>3 DEF T
  <1>2. FlattenSeq(<<>>) = <<>>
    BY DEF FlattenSeq
  <1> HIDE DEF q
  <1>3. PICK f : Flattening(f, S, p)
    BY FlattenRuns
  <1>4. PICK g : Flattening(g, S, q)
    BY <1>1, FlattenRuns
  <1>5. /\ f \in [1 .. n -> Seq(S)]
        /\ \A i \in 1 .. n : f[i] = IF i = 1 THEN p[i] ELSE f[i - 1] \o p[i]
        /\ p # <<>> => FlattenSeq(p) = f[n]
    BY <1>3 DEF Flattening
  <1>6. /\ \A i \in 1 .. n + 1 : g[i] = IF i = 1 THEN q[i] ELSE g[i - 1] \o q[i]
        /\ FlattenSeq(q) = g[n + 1]
    BY <1>1, <1>4 DEF Flattening
  <1>7. n + 1 \in 1 .. n + 1 /\ (n + 1) - 1 = n
    BY <1>1
  <1>8. CASE n = 0
    <2>1. p = <<>>
      BY <1>8
    <2>2. FlattenSeq(q) = x
      BY <1>1, <1>6, <1>7, <1>8
    <2>3. <<>> \o x = x
      BY ConcatEmptySeq
    <2>4. <<>> \in Seq(S)
      OBVIOUS
    <2> QED BY <1>2, <2>1, <2>2, <2>3, <2>4 DEF q
  <1>9. CASE n # 0
    <2>1. p # <<>> /\ n \in 1 .. n
      BY <1>1, <1>9
    <2>2. \A i \in 1 .. n : g[i] = f[i]
      <3> DEFINE A(i) == i = 0 \/ g[i] = f[i]
                 I == {i \in 0 .. n : A(i)}
      <3>1. 0 \in I
        BY <1>1
      <3>2. \A i \in 0 .. n - 1 : i \in I => i + 1 \in I
        <4> SUFFICES ASSUME NEW i \in 0 .. n - 1, A(i) PROVE A(i + 1)
          <5> HIDE DEF A
          <5> QED BY <1>1
        <4>1. i + 1 \in 1 .. n /\ i + 1 \in 1 .. n + 1 /\ (i + 1) - 1 = i /\ (i + 1 = 1 <=> i = 0)
          BY <1>1
        <4>2. g[i + 1] = IF i + 1 = 1 THEN p[i + 1] ELSE g[i] \o p[i + 1]
          BY <1>1, <1>6, <4>1
        <4>3. f[i + 1] = IF i + 1 = 1 THEN p[i + 1] ELSE f[i] \o p[i + 1]
          BY <1>5, <4>1
        <4> QED BY <4>1, <4>2, <4>3
      <3> HIDE DEF I
      <3>3. \A i \in 0 .. n : i \in I
        BY <1>1, <3>1, <3>2, Climb
      <3> QED BY <1>1, <3>3 DEF I
    <2>3. g[n + 1] = g[n] \o q[n + 1]
      <3>1. n + 1 # 1
        BY <1>1, <1>9
      <3>2. g[n + 1] = g[(n + 1) - 1] \o q[n + 1]
        BY <1>6, <1>7, <3>1
      <3> QED BY <1>7, <3>2
    <2>4. FlattenSeq(q) = FlattenSeq(p) \o x /\ FlattenSeq(p) \in Seq(S)
      <3>1. FlattenSeq(p) = f[n] /\ f[n] \in Seq(S)
        BY <1>5, <2>1
      <3>2. FlattenSeq(q) = g[n] \o x
        BY <1>1, <1>6, <2>3
      <3>3. g[n] = f[n]
        BY <2>1, <2>2
      <3> HIDE DEF n
      <3> QED BY <3>1, <3>2, <3>3
    <2> QED BY <1>2, <2>4 DEF q
  <1> QED BY <1>8, <1>9

\* What a text is made of, its ends of line too.
Letters == Printed \cup {LineFeed}

\* Joining is associative.
Grouped(a, b, c) == (a \o b) \o c = a \o (b \o c)

\* Three texts can be joined from either end.
LEMMA Regroup ==
  ASSUME NEW a, NEW b, NEW c, a \in Seq(Letters), b \in Seq(Letters), c \in Seq(Letters)
  PROVE  Grouped(a, b, c)
  BY ConcatAssociative DEF Grouped

\* A line as it is in the text.
Piece(l) == CharsIn(l) \o <<LineFeed>>

\* The lines of a text.
Pieces(data) == [n \in DOMAIN data |-> Piece(data[n])]

\* A line and its end are text.
LEMMA PieceIs ==
  ASSUME NEW l \in TLines
  PROVE  Piece(l) \in Seq(Letters) /\ CharsIn(l) \in Seq(Letters) /\ <<LineFeed>> \in Seq(Letters)
  <1>1. CharsIn(l) \in Seq(Printed) /\ Printed \subseteq Letters
    BY CharsAre DEF Letters
  <1>2. CharsIn(l) \in Seq(Letters)
    BY <1>1, SeqMonotonic
  <1>3. LineFeed \in Letters
    BY DEF Letters
  <1>4. <<LineFeed>> \in Seq(Letters)
    BY <1>3
  <1>5. Piece(l) \in Seq(Letters)
    BY <1>2, <1>4, ConcatProperties DEF Piece
  <1> QED BY <1>2, <1>4, <1>5

\* The pieces of a text, one for each of its lines.
LEMMA PiecesAre ==
  ASSUME NEW data \in Seq(TLines), NEW l \in TLines
  PROVE  /\ Pieces(data) \in Seq(Seq(Letters))
         /\ Pieces(Append(data, l)) = Append(Pieces(data), Piece(l))
         /\ Pieces(<<>>) = <<>>
  <1> DEFINE n == Len(data)
             T == Seq(Letters)
             d == Append(data, l)
  <1> HIDE DEF T
  <1>1. n \in Nat /\ DOMAIN data = 1 .. n /\ \A i \in 1 .. n : data[i] \in TLines
    OBVIOUS
  <1>2. d \in Seq(TLines) /\ DOMAIN d = 1 .. n + 1 /\ d[n + 1] = l /\ \A i \in 1 .. n : d[i] = data[i]
    OBVIOUS
  <1>3. \A i \in 1 .. n : Piece(data[i]) \in T
    BY <1>1, PieceIs DEF T
  <1>4. Pieces(data) = [i \in 1 .. n |-> Piece(data[i])]
    BY <1>1 DEF Pieces
  <1>5. Pieces(data) \in Seq(T) /\ Len(Pieces(data)) = n /\ \A i \in 1 .. n : Pieces(data)[i] = Piece(data[i])
    BY <1>1, <1>3, <1>4
  <1>6. Piece(l) \in T
    BY PieceIs DEF T
  <1> HIDE DEF d
  <1>7. Pieces(d) = [i \in 1 .. n + 1 |-> Piece(d[i])]
    BY <1>2 DEF Pieces
  <1>8. Pieces(d) \in Seq(T) /\ Len(Pieces(d)) = n + 1
    <2>1. \A i \in 1 .. n + 1 : Piece(d[i]) \in T
      <3>1. \A i \in 1 .. n + 1 : d[i] \in TLines
        BY <1>2
      <3> QED BY <3>1, PieceIs DEF T
    <2> QED BY <1>1, <1>7, <2>1
  <1> DEFINE a == Append(Pieces(data), Piece(l))
             p == Pieces(data)
             x == Piece(l)
  <1>9. a \in Seq(T) /\ Len(a) = n + 1 /\ a[n + 1] = x /\ \A i \in 1 .. n : a[i] = p[i]
    <2> HIDE DEF p, x
    <2>1. p \in Seq(T) /\ Len(p) = n /\ x \in T
      BY <1>5, <1>6 DEF p, x
    <2> HIDE DEF n
    <2>2. Append(p, x) \in Seq(T) /\ Len(Append(p, x)) = n + 1 /\ Append(p, x)[n + 1] = x
          /\ \A i \in 1 .. n : Append(p, x)[i] = p[i]
      BY <1>1, <2>1
    <2> QED BY <2>2 DEF p, x
  <1> HIDE DEF a
  <1>10. ASSUME NEW i \in 1 .. n + 1 PROVE Pieces(d)[i] = a[i]
    <2>1. Pieces(d)[i] = Piece(d[i])
      BY <1>7
    <2>2. CASE i = n + 1
      BY <1>2, <1>9, <2>1, <2>2
    <2>3. CASE i # n + 1
      <3>1. i \in 1 .. n
        BY <1>1, <2>3
      <3> QED BY <1>2, <1>5, <1>9, <2>1, <3>1
    <2> QED BY <2>2, <2>3
  <1>11. Pieces(d) = a
    <2> HIDE DEF n
    <2> QED BY <1>8, <1>9, <1>10, SeqEqual
  <1>12. Pieces(<<>>) = <<>>
    BY DEF Pieces
  <1> QED BY <1>5, <1>11, <1>12 DEF T, d, a

\* A line more at the end of the text.
LEMMA TextMore ==
  ASSUME NEW data \in Seq(TLines), NEW l \in TLines
  PROVE  /\ TextOf(data) \in Seq(Letters) /\ TextOf(<<>>) = <<>>
         /\ TextOf(Append(data, l)) = TextOf(data) \o Piece(l)
  <1>1. \A d : TextOf(d) = FlattenSeq(Pieces(d))
    BY DEF TextOf, Pieces, Piece
  <1>2. /\ Pieces(data) \in Seq(Seq(Letters)) /\ Piece(l) \in Seq(Letters)
        /\ Pieces(Append(data, l)) = Append(Pieces(data), Piece(l)) /\ Pieces(<<>>) = <<>>
    BY PiecesAre, PieceIs
  <1> DEFINE p == Pieces(data)
             x == Piece(l)
  <1> HIDE DEF p, x
  <1>3. /\ FlattenSeq(<<>>) = <<>> /\ FlattenSeq(p) \in Seq(Letters)
        /\ FlattenSeq(Append(p, x)) = FlattenSeq(p) \o x
    BY <1>2, FlattenMore DEF p, x
  <1> QED BY <1>1, <1>2, <1>3 DEF p, x

\* The text of two lots of lines.
LEMMA TextJoined ==
  ASSUME NEW a \in Seq(TLines), NEW b \in Seq(TLines)
  PROVE  TextOf(a \o b) = TextOf(a) \o TextOf(b) /\ TextOf(a) \in Seq(Letters)
  <1> DEFINE n == Len(b)
             P(k) == SubSeq(b, 1, k)
             A(k) == TextOf(a \o P(k)) = TextOf(a) \o TextOf(P(k))
             I == {k \in 0 .. n : A(k)}
  <1>1. n \in Nat /\ a \o <<>> = a /\ NewLine \in TLines
    BY ConcatEmptySeq, NewLineIs
  <1>2. TextOf(a) \in Seq(Letters) /\ TextOf(<<>>) = <<>>
    BY <1>1, TextMore
  <1>3. 0 \in I
    <2>1. P(0) = <<>>
      OBVIOUS
    <2>2. TextOf(a) \o <<>> = TextOf(a)
      BY <1>2, ConcatEmptySeq
    <2> HIDE DEF P
    <2>3. A(0)
      BY <1>1, <1>2, <2>1, <2>2
    <2> QED BY <1>1, <2>3
  <1>4. \A k \in 0 .. n - 1 : k \in I => k + 1 \in I
    <2> SUFFICES ASSUME NEW k \in 0 .. n - 1, A(k) PROVE A(k + 1)
      <3> HIDE DEF A
      <3> QED BY <1>1
    <2>1. P(k) \in Seq(TLines) /\ b[k + 1] \in TLines /\ k + 1 \in 1 .. n
      BY <1>1
    <2>2. P(k + 1) = Append(P(k), b[k + 1])
      BY <1>1
    <2> DEFINE s == P(k)
               x == b[k + 1]
    <2> HIDE DEF P, s, x
    <2>3. s \in Seq(TLines) /\ x \in TLines /\ a \o s \in Seq(TLines)
      BY <2>1 DEF s, x
    <2>4. a \o Append(s, x) = Append(a \o s, x)
      BY <2>3
    <2>5. TextOf(Append(a \o s, x)) = TextOf(a \o s) \o Piece(x)
      BY <2>3, TextMore
    <2>6. TextOf(Append(s, x)) = TextOf(s) \o Piece(x) /\ TextOf(s) \in Seq(Letters) /\ Piece(x) \in Seq(Letters)
      BY <2>3, TextMore, PieceIs
    <2>7. TextOf(a \o s) = TextOf(a) \o TextOf(s)
      BY DEF s
    <2>8. (TextOf(a) \o TextOf(s)) \o Piece(x) = TextOf(a) \o (TextOf(s) \o Piece(x))
      <3> DEFINE u == TextOf(a)
                 v == TextOf(s)
                 w == Piece(x)
      <3>1. u \in Seq(Letters) /\ v \in Seq(Letters) /\ w \in Seq(Letters)
        BY <1>2, <2>6
      <3> HIDE DEF u, v, w
      <3>2. (u \o v) \o w = u \o (v \o w)
        <4>1. Grouped(u, v, w)
          BY <3>1, Regroup
        <4> QED BY <4>1 DEF Grouped
      <3> QED BY <3>2 DEF u, v, w
    <2> QED BY <2>2, <2>4, <2>5, <2>6, <2>7, <2>8 DEF s, x
  <1> HIDE DEF I
  <1>5. \A k \in 0 .. n : k \in I
    BY <1>1, <1>3, <1>4, Climb
  <1>6. A(n)
    BY <1>1, <1>5 DEF I
  <1>7. P(n) = b
    BY SubSeqFull
  <1> QED BY <1>2, <1>6, <1>7

\* A text without its last line feed, behind a line feed.
Rest(s) == SubSeq(<<LineFeed>> \o s, 1, Len(s))

\* Moving a line feed from one end of the text to the other.
LEMMA RestIs ==
  ASSUME NEW data \in Seq(TLines)
  PROVE  /\ Rest(TextOf(data)) \in Seq(Letters)
         /\ Rest(TextOf(data)) \o <<LineFeed>> = <<LineFeed>> \o TextOf(data)
  <1>1. CASE Len(data) = 0
    <2>1. data = <<>> /\ NewLine \in TLines
      BY <1>1, NewLineIs
    <2>2. TextOf(data) = <<>>
      BY <2>1, TextMore
    <2>3. Rest(<<>>) = <<>>
      BY DEF Rest
    <2>4. <<>> \in Seq(Letters) /\ <<LineFeed>> \in Seq(Letters)
      BY <2>1, PieceIs
    <2> QED BY <2>2, <2>3, <2>4, ConcatEmptySeq
  <1>2. CASE Len(data) # 0
    <2> DEFINE n == Len(data)
               f == SubSeq(data, 1, n - 1)
               l == data[n]
               t == TextOf(f) \o CharsIn(l)
               LF == <<LineFeed>>
    <2>1. f \in Seq(TLines) /\ l \in TLines /\ data = Append(f, l)
      BY <1>2
    <2> HIDE DEF f, l
    <2>2. /\ TextOf(f) \in Seq(Letters) /\ CharsIn(l) \in Seq(Letters) /\ LF \in Seq(Letters)
          /\ TextOf(data) = TextOf(f) \o Piece(l)
      BY <2>1, TextMore, PieceIs
    <2>3. TextOf(data) = t \o LF /\ t \in Seq(Letters)
      BY <2>2, ConcatAssociative, ConcatProperties DEF Piece
    <2> HIDE DEF t
    <2>4. LineFeed \in Letters
      BY DEF Letters
    <2> DEFINE k == Len(t)
               u == LF \o t
    <2>5. u \in Seq(Letters) /\ Len(u) = k + 1 /\ k \in Nat
      BY <2>2, <2>3, ConcatProperties
    <2>6. LF \o (t \o LF) = u \o LF /\ Len(t \o LF) = k + 1
      BY <2>2, <2>3, ConcatAssociative, ConcatProperties
    <2> HIDE DEF u, k
    <2>7. SubSeq(u \o LF, 1, k + 1) = u
      BY <2>4, <2>5
    <2>8. Rest(t \o LF) = u
      BY <2>6, <2>7 DEF Rest
    <2> QED BY <2>3, <2>5, <2>6, <2>8
  <1> QED BY <1>1, <1>2

\* Joining two sides of a line between the lines around it.
AllGrouped(a, u, v, b, lf, w, t) == ((a \o u) \o (v \o b)) \o lf = (a \o (w \o lf)) \o t

\* The two sides of the cursor are the text, if the two parts of its line are the line.
LEMMA Regrouped ==
  ASSUME NEW a, NEW u, NEW v, NEW b, NEW lf, NEW w, NEW t,
         \A s \in {a, u, v, b, lf, w, t} : s \in Seq(Letters),
         u \o v = w, b \o lf = lf \o t
  PROVE  AllGrouped(a, u, v, b, lf, w, t)
  <1>1. (a \o u) \in Seq(Letters) /\ (a \o w) \in Seq(Letters)
    BY ConcatProperties
  <1>2. Grouped(a \o u, v, b)
    BY <1>1, Regroup
  <1>3. Grouped(a, u, v)
    BY Regroup
  <1>4. Grouped(a \o w, b, lf)
    BY <1>1, Regroup
  <1>5. Grouped(a \o w, lf, t)
    BY <1>1, Regroup
  <1>6. Grouped(a, w, lf)
    BY Regroup
  <1>7. ((a \o u) \o v) \o b = (a \o u) \o (v \o b)
    BY <1>2 DEF Grouped
  <1>8. (a \o u) \o v = a \o w
    BY <1>3 DEF Grouped
  <1>9. ((a \o w) \o b) \o lf = ((a \o w) \o lf) \o t
    BY <1>4, <1>5 DEF Grouped
  <1> QED BY <1>6, <1>7, <1>8, <1>9 DEF Grouped, AllGrouped

\* The lines above the cursor's.
Above(e) == SubSeq(e.data, 1, Row0(e))

\* And below.
Below(e) == SubSeq(e.data, Row0(e) + 2, Size(e))

\* The text on both sides of the cursor.
LEMMA SidesAre ==
  ASSUME NEW e, Sound(e), Size(e) # 0
  PROVE  /\ Before(e) = TextOf(Above(e)) \o UpTo(CursorLine(e), e.x)
         /\ After(e) = From(CursorLine(e), e.x) \o Rest(TextOf(Below(e)))
         /\ Above(e) \in Seq(TLines) /\ Below(e) \in Seq(TLines)
         /\ e.data = Append(Above(e), CursorLine(e)) \o Below(e)
         /\ TextOf(Above(e)) \in Seq(Letters) /\ Rest(TextOf(Below(e))) \in Seq(Letters)
         /\ UpTo(CursorLine(e), e.x) \in Seq(Letters) /\ From(CursorLine(e), e.x) \in Seq(Letters)
         /\ CursorLine(e) \in TLines /\ e.x \in 0 .. CursorLine(e).len
  <1> DEFINE l == CursorLine(e)
             r == Row0(e)
             n == Size(e)
  <1>1. /\ e \in Editors /\ e.data \in Seq(TLines) /\ l \in TLines /\ l.len \in Nat /\ e.x \in Nat /\ e.x <= l.len
        /\ r \in Nat /\ n \in Nat /\ r < n /\ n = Len(e.data) /\ l = e.data[r + 1]
    BY SoundIs, EditorIs DEF Size, CursorLine, LineAt
  <1>2. Before(e) = TextOf(Above(e)) \o UpTo(l, e.x)
    BY DEF Before, Lines, Above, UpTo
  <1>3. After(e) = From(l, e.x) \o Rest(TextOf(Below(e)))
    BY DEF After, Lines, Below, From, Rest
  <1> HIDE DEF l, r, n
  <1> DEFINE A == SubSeq(e.data, 1, r)
             B == SubSeq(e.data, r + 2, n)
             a == Append(A, l)
  <1>4. A \in Seq(TLines) /\ Len(A) = r /\ \A i \in 1 .. r : A[i] = e.data[i]
    BY <1>1
  <1>5. B \in Seq(TLines) /\ Len(B) = n - r - 1 /\ \A i \in 1 .. n - r - 1 : B[i] = e.data[r + 1 + i]
    <2>1. \A i \in r + 2 .. n : e.data[i] \in TLines
      BY <1>1
    <2>2. r + 2 \in Int /\ n \in Int
      BY <1>1
    <2> DEFINE m == r + 2
    <2> HIDE DEF m
    <2>3. /\ SubSeq(e.data, m, n) \in Seq(TLines)
          /\ Len(SubSeq(e.data, m, n)) = IF m <= n THEN n - m + 1 ELSE 0
          /\ \A i \in 1 .. n - m + 1 : SubSeq(e.data, m, n)[i] = e.data[m + i - 1]
      BY <2>1, <2>2, SubSeqProperties DEF m
    <2>4. B = SubSeq(e.data, m, n)
      BY DEF m
    <2> HIDE DEF B
    <2>5. Len(B) = n - r - 1
      BY <1>1, <2>3, <2>4 DEF m
    <2>6. \A i \in 1 .. n - r - 1 : i \in 1 .. n - m + 1 /\ m + i - 1 = r + 1 + i
      BY <1>1 DEF m
    <2> QED BY <2>3, <2>4, <2>5, <2>6
  <1> HIDE DEF A, B
  <1>6. a \in Seq(TLines) /\ Len(a) = r + 1 /\ a[r + 1] = l /\ \A i \in 1 .. r : a[i] = A[i]
    BY <1>1, <1>4
  <1> HIDE DEF a
  <1>0. r \in Nat /\ n \in Nat /\ r < n
    BY <1>1
  <1>7. a \o B \in Seq(TLines) /\ Len(a \o B) = n
        /\ \A i \in 1 .. n : (a \o B)[i] = IF i <= r + 1 THEN a[i] ELSE B[i - (r + 1)]
    <2>1. Len(a) = r + 1 /\ Len(B) = n - r - 1 /\ (r + 1) + (n - r - 1) = n
      BY <1>0, <1>5, <1>6
    <2>2. a \in Seq(TLines) /\ B \in Seq(TLines)
      BY <1>5, <1>6
    <2>3. /\ a \o B \in Seq(TLines) /\ Len(a \o B) = Len(a) + Len(B)
          /\ \A i \in 1 .. Len(a) + Len(B) : (a \o B)[i] = IF i <= Len(a) THEN a[i] ELSE B[i - Len(a)]
      BY <2>2, ConcatProperties
    <2> QED BY <2>1, <2>3
  <1>8. \A i \in 1 .. n : (a \o B)[i] = e.data[i]
    <2> TAKE i \in 1 .. n
    <2>1. CASE i <= r
      <3>1. i \in 1 .. r /\ i <= r + 1
        BY <1>1, <2>1
      <3> QED BY <1>4, <1>6, <1>7, <3>1
    <2>2. CASE i = r + 1
      <3>1. i <= r + 1
        BY <1>1, <2>2
      <3> QED BY <1>1, <1>6, <1>7, <2>2, <3>1
    <2>3. CASE i > r + 1
      <3>1. ~(i <= r + 1) /\ i - (r + 1) \in 1 .. n - r - 1 /\ r + 1 + (i - (r + 1)) = i
        BY <1>0, <2>3
      <3>2. (a \o B)[i] = B[i - (r + 1)]
        BY <1>7, <3>1
      <3>3. B[i - (r + 1)] = e.data[r + 1 + (i - (r + 1))]
        BY <1>5, <3>1
      <3>4. r + 1 + (i - (r + 1)) = i
        BY <1>0
      <3> QED BY <3>2, <3>3, <3>4
    <2>4. i <= r \/ i = r + 1 \/ i > r + 1
      BY <1>0
    <2> QED BY <2>1, <2>2, <2>3, <2>4
  <1>9. e.data = a \o B
    <2> DEFINE ab == a \o B
               dt == e.data
    <2>1. ab \in Seq(TLines) /\ dt \in Seq(TLines) /\ Len(ab) = n /\ Len(dt) = n /\ \A i \in 1 .. n : ab[i] = dt[i]
      BY <1>1, <1>7, <1>8
    <2> HIDE DEF ab, dt
    <2>2. ab = dt
      BY <2>1, SeqEqual
    <2> QED BY <2>2 DEF ab, dt
  <1>10. TextOf(A) \in Seq(Letters) /\ Rest(TextOf(B)) \in Seq(Letters)
    BY <1>1, <1>4, <1>5, TextMore, RestIs
  <1>11. UpTo(l, e.x) \in Seq(Letters) /\ From(l, e.x) \in Seq(Letters)
    <2>1. e.x \in 0 .. l.len /\ Printed \subseteq Letters
      BY <1>1 DEF Letters
    <2>2. UpTo(l, e.x) \in Seq(Printed) /\ From(l, e.x) \in Seq(Printed)
      BY <1>1, <2>1, PartsOf
    <2> QED BY <2>1, <2>2, SeqMonotonic
  <1>12. A = Above(e) /\ B = Below(e)
    BY DEF A, B, Above, Below, r, n
  <1>13. e.x \in 0 .. l.len
    BY <1>1
  <1> QED BY <1>1, <1>2, <1>3, <1>4, <1>5, <1>9, <1>10, <1>11, <1>12, <1>13 DEF l, a

\* The two sides of the cursor are the text.
LEMMA WholeText ==
  ASSUME NEW e, Sound(e), Size(e) # 0
  PROVE  /\ Before(e) \in Seq(Letters) /\ After(e) \in Seq(Letters)
         /\ (Before(e) \o After(e)) \o <<LineFeed>> = TextOf(e.data)
  <1> DEFINE l == CursorLine(e)
             A == Above(e)
             B == Below(e)
             ta == TextOf(A)
             u == UpTo(l, e.x)
             v == From(l, e.x)
             tb == Rest(TextOf(B))
             LF == <<LineFeed>>
             S == Seq(Letters)
  <1>1. /\ Before(e) = ta \o u /\ After(e) = v \o tb
        /\ A \in Seq(TLines) /\ B \in Seq(TLines) /\ e.data = Append(A, l) \o B
        /\ ta \in S /\ tb \in S /\ u \in S /\ v \in S /\ l \in TLines /\ e.x \in 0 .. l.len
    BY SidesAre
  <1>2. LF \in S /\ CharsIn(l) \in S
    BY <1>1, PieceIs
  <1> HIDE DEF l, A, B
  <1>3. TextOf(Append(A, l) \o B) = (ta \o (CharsIn(l) \o LF)) \o TextOf(B)
    <2> DEFINE a == Append(A, l)
    <2>1. a \in Seq(TLines)
      BY <1>1
    <2>2. TextOf(a) = ta \o (CharsIn(l) \o LF)
      BY <1>1, TextMore DEF Piece
    <2> HIDE DEF a
    <2>3. TextOf(a \o B) = TextOf(a) \o TextOf(B)
      BY <1>1, <2>1, TextJoined
    <2> QED BY <2>2, <2>3 DEF a
  <1>4. tb \o LF = LF \o TextOf(B) /\ TextOf(B) \in S
    <2>1. tb \o LF = LF \o TextOf(B)
      BY <1>1, RestIs
    <2>2. TextOf(B) \in S
      BY <1>1, TextMore
    <2> QED BY <2>1, <2>2
  <1>5. u \o v = CharsIn(l)
    <2>1. l.len \in Nat /\ CharsIn(l) \in Seq(Printed) /\ Len(CharsIn(l)) = l.len
      BY <1>1, LineIs, CharsAre
    <2> DEFINE c == CharsIn(l)
    <2> HIDE DEF c
    <2>2. SubSeq(c, 1, e.x) \o SubSeq(c, e.x + 1, l.len) = c
      <3> DEFINE x == e.x
                 m == l.len
      <3>0. x \in 0 .. m /\ m \in Nat /\ c \in Seq(Printed) /\ Len(c) = m
        BY <1>1, <2>1 DEF c
      <3> HIDE DEF x, m
      <3>1. SubSeq(c, 1, x) \in Seq(Printed) /\ Len(SubSeq(c, 1, x)) = x /\ \A i \in 1 .. x : SubSeq(c, 1, x)[i] = c[i]
        BY <3>0
      <3>2. /\ SubSeq(c, x + 1, m) \in Seq(Printed) /\ Len(SubSeq(c, x + 1, m)) = m - x
            /\ \A i \in 1 .. m - x : SubSeq(c, x + 1, m)[i] = c[x + i]
        BY <3>0
      <3> DEFINE p == SubSeq(c, 1, x)
                 q == SubSeq(c, x + 1, m)
      <3> HIDE DEF p, q
      <3>3. p \o q \in Seq(Printed) /\ Len(p \o q) = m
            /\ \A i \in 1 .. m : (p \o q)[i] = IF i <= x THEN p[i] ELSE q[i - x]
        <4>1. Len(p) = x /\ Len(q) = m - x /\ p \in Seq(Printed) /\ q \in Seq(Printed)
          BY <3>1, <3>2 DEF p, q
        <4>2. Len(p) + Len(q) = m
          BY <3>0, <4>1
        <4> QED BY <4>1, <4>2, ConcatProperties
      <3>4. \A i \in 1 .. m : (p \o q)[i] = c[i]
        <4> TAKE i \in 1 .. m
        <4>1. CASE i <= x
          <5>1. i \in 1 .. x
            BY <3>0, <4>1
          <5> QED BY <3>1, <3>3, <4>1, <5>1 DEF p
        <4>2. CASE ~(i <= x)
          <5>1. i - x \in 1 .. m - x /\ x + (i - x) = i
            BY <3>0, <4>2
          <5> QED BY <3>2, <3>3, <4>2, <5>1 DEF q
        <4> QED BY <4>1, <4>2
      <3>5. p \o q = c
        BY <3>0, <3>3, <3>4, SeqEqual
      <3> QED BY <3>5 DEF p, q, x, m
    <2> QED BY <2>2 DEF u, v, UpTo, From, c
  <1> DEFINE w == CharsIn(l)
             t == TextOf(B)
  <1> HIDE DEF ta, u, v, tb, LF, w, t
  <1>6. ((ta \o u) \o (v \o tb)) \o LF = (ta \o (w \o LF)) \o t
    <2>1. \A s \in {ta, u, v, tb, LF, w, t} : s \in Seq(Letters)
      BY <1>1, <1>2, <1>4 DEF w, t
    <2>2. u \o v = w /\ tb \o LF = LF \o t
      BY <1>4, <1>5 DEF w, t
    <2>3. AllGrouped(ta, u, v, tb, LF, w, t)
      BY <2>1, <2>2, Regrouped
    <2> QED BY <2>3 DEF AllGrouped
  <1>7. Before(e) \in S /\ After(e) \in S
    BY <1>1, ConcatProperties
  <1> QED BY <1>1, <1>3, <1>6, <1>7 DEF w, t, LF

\* Moving the cursor over a text moves the boundary in it.
LEMMA MovedText ==
  ASSUME NEW e, Sound(e), NEW f, Sound(f), f.data = e.data
  PROVE  Before(f) \o After(f) = Before(e) \o After(e)
  <1>1. Size(f) = Size(e)
    BY DEF Size
  <1>2. CASE Size(e) = 0
    BY <1>1, <1>2 DEF Before, After
  <1>3. CASE Size(e) # 0
    <2> DEFINE a == Before(e) \o After(e)
               b == Before(f) \o After(f)
               LF == <<LineFeed>>
    <2>1. a \in Seq(Letters) /\ b \in Seq(Letters) /\ a \o LF = b \o LF
      BY <1>1, <1>3, WholeText, ConcatProperties
    <2>2. LF \in Seq(Letters)
      BY NewLineIs, PieceIs
    <2> HIDE DEF a, b, LF
    <2>3. a = b
      BY <2>1, <2>2, ConcatSimplifications
    <2> QED BY <2>3 DEF a, b
  <1> QED BY <1>2, <1>3

\* A change of the cursor's line leaves the lines above and below it.
LEMMA SameSides ==
  ASSUME NEW e, Sound(e), Size(e) # 0, NEW f, Sound(f), Size(f) = Size(e), Row0(f) = Row0(e),
         NEW l, f.data = [e.data EXCEPT ![Row0(e) + 1] = l]
  PROVE  Above(f) = Above(e) /\ Below(f) = Below(e)
  <1> DEFINE r == Row0(e)
             n == Size(e)
             s == e.data
             t == f.data
  <1>1. /\ s \in Seq(TLines) /\ t \in Seq(TLines) /\ n = Len(s) /\ n = Len(t) /\ r \in Nat /\ n \in Nat /\ r < n
        /\ t = [s EXCEPT ![r + 1] = l]
    BY SoundIs, EditorIs DEF Size
  <1>2. /\ Above(e) = SubSeq(s, 1, r) /\ Above(f) = SubSeq(t, 1, r)
        /\ Below(e) = SubSeq(s, r + 2, n) /\ Below(f) = SubSeq(t, r + 2, n)
    BY DEF Above, Below
  <1> HIDE DEF r, n, s, t
  <1>3. \A i \in 1 .. n : i # r + 1 => t[i] = s[i]
    BY <1>1
  <1>4. SubSeq(s, 1, r) = SubSeq(t, 1, r)
    <2>1. \A i \in 1 .. r : i \in 1 .. n /\ i # r + 1
      BY <1>1
    <2>2. [i \in 1 .. r |-> s[i]] = [i \in 1 .. r |-> t[i]]
      BY <1>3, <2>1
    <2>3. SubSeq(s, 1, r) = [i \in 1 .. r |-> s[i]] /\ SubSeq(t, 1, r) = [i \in 1 .. r |-> t[i]]
      BY <1>1
    <2> QED BY <2>2, <2>3
  <1>5. SubSeq(s, r + 2, n) = SubSeq(t, r + 2, n)
    <2> DEFINE m == r + 2
    <2>1. \A i \in m .. n : t[i] = s[i] /\ s[i] \in TLines /\ t[i] \in TLines
      BY <1>1, <1>3
    <2>2. m \in Int /\ n \in Int
      BY <1>1
    <2> HIDE DEF m
    <2> DEFINE a == SubSeq(s, m, n)
               b == SubSeq(t, m, n)
    <2>3. /\ a \in Seq(TLines) /\ Len(a) = (IF m <= n THEN n - m + 1 ELSE 0)
          /\ \A i \in 1 .. n - m + 1 : a[i] = s[m + i - 1]
      BY <2>1, <2>2, SubSeqProperties
    <2>4. /\ b \in Seq(TLines) /\ Len(b) = (IF m <= n THEN n - m + 1 ELSE 0)
          /\ \A i \in 1 .. n - m + 1 : b[i] = t[m + i - 1]
      BY <2>1, <2>2, SubSeqProperties
    <2>5. \A i \in 1 .. n - m + 1 : m + i - 1 \in m .. n
      BY <2>2
    <2> HIDE DEF a, b
    <2>6. \A i \in 1 .. Len(a) : a[i] = b[i]
      <3>1. \A i \in 1 .. Len(a) : i \in 1 .. n - m + 1
        BY <2>2, <2>3
      <3> QED BY <2>1, <2>3, <2>4, <2>5, <3>1
    <2>7. a = b
      BY <2>3, <2>4, <2>6, SeqEqual
    <2> QED BY <2>7 DEF a, b, m
  <1> QED BY <1>2, <1>4, <1>5

\* The first line of an empty text changes nothing of it.
LEMMA GotText ==
  ASSUME NEW e, Sound(e), NEW g, GotFrom(g, e)
  PROVE  Before(g) = Before(e) /\ After(g) = After(e)
  <1>1. CASE Size(e) # 0
    BY <1>1 DEF GotFrom
  <1>2. CASE Size(e) = 0
    <2>1. Before(e) = <<>> /\ After(e) = <<>>
      BY <1>2 DEF Before, After
    <2>2. Sound(g) /\ g.data = <<NewLine>> /\ Row0(g) = 0 /\ g.x = 0 /\ Size(g) = 1
      <3>1. Sound(g) /\ g.data = <<NewLine>> /\ g.x = 0 /\ g.y = e.y /\ g.view_y = e.view_y /\ Row0(e) = 0
        BY <1>2 DEF GotFrom
      <3> QED BY <3>1 DEF Row0, Size
    <2>3. CursorLine(g) = NewLine /\ Above(g) = <<>> /\ Below(g) = <<>>
      BY <2>2 DEF CursorLine, LineAt, Above, Below
    <2>4. /\ Before(g) = TextOf(<<>>) \o UpTo(NewLine, 0) /\ After(g) = From(NewLine, 0) \o Rest(TextOf(<<>>))
      <3>1. Size(g) # 0
        BY <2>2
      <3>2. /\ Before(g) = TextOf(Above(g)) \o UpTo(CursorLine(g), g.x)
            /\ After(g) = From(CursorLine(g), g.x) \o Rest(TextOf(Below(g)))
        BY <2>2, <3>1, SidesAre
      <3> QED BY <2>2, <2>3, <3>2
    <2>5. TextOf(<<>>) = <<>>
      <3>1. <<>> \in Seq(TLines) /\ NewLine \in TLines
        BY NewLineIs
      <3> QED BY <3>1, TextMore
    <2>6. UpTo(NewLine, 0) = <<>> /\ From(NewLine, 0) = <<>>
      BY NewLineIs, Whole
    <2>7. Rest(<<>>) = <<>>
      BY DEF Rest
    <2> QED BY <2>1, <2>4, <2>5, <2>6, <2>7
  <1> QED BY <1>1, <1>2

\* A written character is added to the text before the cursor.
LEMMA WrittenText ==
  ASSUME NEW e, Sound(e), NEW g, GotFrom(g, e), NEW c \in Printed, NEW f, WrittenIn(f, e, g, c)
  PROVE  /\ Before(f) = Append(Before(e), c) /\ After(f) = After(e) /\ Before(e) \in Seq(Letters)
  <1>1. Sound(g) /\ Size(g) # 0 /\ g.x = e.x /\ Row0(g) = Row0(e)
    BY DEF GotFrom, Row0
  <1>2. /\ Sound(f) /\ f.x = e.x + 1 /\ Row0(f) = Row0(g) /\ Size(f) = Size(g)
        /\ f.data = [g.data EXCEPT ![Row0(g) + 1] = CursorLine(f)]
        /\ UpTo(CursorLine(f), e.x + 1) = Append(UpTo(CursorLine(g), e.x), c)
        /\ From(CursorLine(f), e.x + 1) = From(CursorLine(g), e.x)
    BY <1>1 DEF WrittenIn, InsertedIn
  <1>3. Above(f) = Above(g) /\ Below(f) = Below(g)
    BY <1>1, <1>2, SameSides
  <1>4. /\ Before(g) = TextOf(Above(g)) \o UpTo(CursorLine(g), e.x)
        /\ After(g) = From(CursorLine(g), e.x) \o Rest(TextOf(Below(g)))
        /\ TextOf(Above(g)) \in Seq(Letters) /\ UpTo(CursorLine(g), e.x) \in Seq(Letters)
    BY <1>1, SidesAre
  <1>5. /\ Before(f) = TextOf(Above(f)) \o UpTo(CursorLine(f), f.x)
        /\ After(f) = From(CursorLine(f), f.x) \o Rest(TextOf(Below(f)))
    <2>1. Size(f) # 0
      BY <1>1, <1>2
    <2> QED BY <1>2, <2>1, SidesAre
  <1> DEFINE a == TextOf(Above(g))
             u == UpTo(CursorLine(g), e.x)
  <1> HIDE DEF a, u
  <1>6. a \o Append(u, c) = Append(a \o u, c) /\ a \o u \in Seq(Letters)
    <2>1. a \in Seq(Letters) /\ u \in Seq(Letters) /\ c \in Letters
      BY <1>4 DEF a, u, Letters
    <2> QED BY <2>1
  <1>7. Before(g) = Before(e) /\ After(g) = After(e)
    BY GotText
  <1> QED BY <1>2, <1>3, <1>4, <1>5, <1>6, <1>7 DEF a, u

\* Both sides of the cursor are text.
LEMMA SidesTyped ==
  ASSUME NEW e, Sound(e)
  PROVE  Before(e) \in Seq(Letters) /\ After(e) \in Seq(Letters)
  <1>1. CASE Size(e) = 0
    <2>1. Before(e) = <<>> /\ After(e) = <<>>
      BY <1>1 DEF Before, After
    <2> QED BY <2>1
  <1>2. CASE Size(e) # 0
    BY <1>2, WholeText
  <1> QED BY <1>1, <1>2

\* i blanks.
Blanks(i) == [j \in 1 .. i |-> Blank]

\* i blanks written at the cursor.
TabbedIn(f, e, i) ==
  /\ Sound(f) /\ f.y_max = e.y_max /\ LenHere(f) = LenHere(e) + i
  /\ AllClosed(e) => AllClosed(f)
  /\ Narrow(e) /\ LenHere(e) + i <= XMax =>
       /\ Narrow(f)
       /\ Rendered(e) /\ Pointed(e) => Rendered(f) /\ Pointed(f)
  /\ Before(f) = Before(e) \o Blanks(i) /\ After(f) = After(e)

\* i blanks are written one after the other.
LEMMA TabIs ==
  ASSUME NEW e, Sound(e), NEW n \in Nat
  PROVE  TabbedIn(FoldLeft(BlankAgain, e, [i \in 1 .. n |-> i]), e, n)
  <1> DEFINE s == [i \in 1 .. n |-> i]
             S == {z \in Editors : Sound(z)}
  <1>1. s \in Seq(Nat) /\ Len(s) = n
    OBVIOUS
  <1>2. Blank \in Printed /\ Blank \in Keyed /\ LenHere(e) \in Nat
    <2>1. LenHere(e) \in Nat
      <3>1. e \in Editors /\ Row0(e) \in Nat
        BY SoundIs, EditorIs
      <3>2. Row0(e) < Size(e) => LineAt(e, Row0(e)).len \in Nat
        BY <3>1, LineAtIs
      <3> QED BY <3>2 DEF LenHere, CursorLine
    <2> QED BY <2>1 DEF Printed, Keyed
  <1>3. \A z \in S, a \in Nat : BlankAgain(z, a) \in S
    <2> TAKE z \in S, a \in Nat
    <2>1. Sound(z)
      OBVIOUS
    <2>2. WrittenIn(write(z, Blank), z, Got(z, Row0(z)), Blank)
      BY <1>2, <2>1, WriteIs
    <2>3. Sound(write(z, Blank))
      BY <2>2 DEF WrittenIn
    <2> QED BY <2>3 DEF BlankAgain, Sound
  <1>4. e \in S
    BY DEF Sound
  <1> HIDE DEF s, S
  <1>5. PICK r : Blanking(r, S, e, s)
    BY <1>1, <1>3, <1>4, BlankAgainRuns
  <1>6. /\ r \in [0 .. n -> S] /\ r[0] = e /\ FoldLeft(BlankAgain, e, s) = r[n]
        /\ \A i \in 1 .. n : r[i] = BlankAgain(r[i - 1], s[i])
    BY <1>1, <1>5 DEF Blanking, BlankedAll
  <1> DEFINE I == {i \in 0 .. n : TabbedIn(r[i], e, i)}
  <1>7. 0 \in I
    <2>1. Blanks(0) = <<>>
      BY DEF Blanks
    <2>2. Before(e) \o <<>> = Before(e)
      BY SidesTyped, ConcatEmptySeq
    <2>3. LenHere(e) + 0 = LenHere(e)
      BY <1>2
    <2>4. TabbedIn(e, e, 0)
      BY <2>1, <2>2, <2>3 DEF TabbedIn
    <2> QED BY <1>6, <2>4
  <1>8. \A i \in 0 .. n - 1 : i \in I => i + 1 \in I
    <2> SUFFICES ASSUME NEW i \in 0 .. n - 1, TabbedIn(r[i], e, i) PROVE TabbedIn(r[i + 1], e, i + 1)
      OBVIOUS
    <2> DEFINE z == r[i]
               f == r[i + 1]
               g == Got(z, Row0(z))
    <2>1. i \in Nat /\ i + 1 \in 1 .. n /\ (i + 1) - 1 = i
      OBVIOUS
    <2>2. f = write(z, Blank)
      BY <1>6, <2>1 DEF BlankAgain
    <2>3. /\ Sound(z) /\ z.y_max = e.y_max /\ LenHere(z) = LenHere(e) + i
          /\ AllClosed(e) => AllClosed(z)
          /\ Narrow(e) /\ LenHere(e) + i <= XMax => Narrow(z) /\ (Rendered(e) /\ Pointed(e) => Rendered(z) /\ Pointed(z))
          /\ Before(z) = Before(e) \o Blanks(i) /\ After(z) = After(e)
      BY DEF TabbedIn
    <2> HIDE DEF z, f
    <2>4. WrittenIn(f, z, g, Blank) /\ GotFrom(g, z)
      BY <1>2, <2>2, <2>3, WriteIs, GotIs
    <2>5. /\ Sound(f) /\ f.y_max = z.y_max /\ LenHere(f) = LenHere(z) + 1
          /\ AllClosed(z) => AllClosed(f)
          /\ Narrow(z) /\ LenHere(z) + 1 <= XMax => Narrow(f) /\ (Rendered(z) /\ Pointed(z) => Rendered(f) /\ Pointed(f))
      BY <2>4 DEF WrittenIn
    <2>6. Before(f) = Append(Before(z), Blank) /\ After(f) = After(z)
      BY <1>2, <2>3, <2>4, WrittenText
    <2>7. Before(f) = Before(e) \o Blanks(i + 1)
      <3> DEFINE b == Before(e)
                 k == Blanks(i)
      <3>1. b \in Seq(Letters) /\ k \in Seq(Letters) /\ Blank \in Letters
        BY <1>2, <2>1, SidesTyped DEF Letters, Blanks
      <3>2. Blanks(i + 1) = Append(k, Blank)
        BY <2>1 DEF Blanks
      <3> HIDE DEF b, k
      <3>3. Append(b \o k, Blank) = b \o Append(k, Blank)
        BY <3>1
      <3> QED BY <2>3, <2>6, <3>2, <3>3 DEF b, k
    <2>8. /\ LenHere(f) = LenHere(e) + (i + 1)
          /\ LenHere(e) + (i + 1) <= XMax => LenHere(e) + i <= XMax /\ LenHere(z) + 1 <= XMax
      BY <1>2, <2>1, <2>3, <2>5, Sizes
    <2> HIDE DEF g
    <2>9. TabbedIn(f, e, i + 1)
      BY <2>3, <2>5, <2>6, <2>7, <2>8 DEF TabbedIn
    <2> QED BY <2>9 DEF f
  <1> HIDE DEF I
  <1>9. \A i \in 0 .. n : i \in I
    BY <1>7, <1>8, Climb
  <1>10. TabbedIn(r[n], e, n)
    BY <1>9 DEF I
  <1> QED BY <1>6, <1>10 DEF s

-----------------------------------------------------------------------------
\* A character less before the cursor.
ErasedIn1(f, e) ==
  /\ Sound(f) /\ f.y_max = e.y_max
  /\ AllClosed(e) => AllClosed(f)
  /\ Narrow(e) => Narrow(f) /\ Pointed(f) /\ (Rendered(e) => Rendered(f))
  /\ Before(e) # <<>> /\ Before(f) = SubSeq(Before(e), 1, Len(Before(e)) - 1)
  /\ After(f) = After(e)

\* erase inside a line removes the character before the cursor.
LEMMA EraseHere ==
  ASSUME NEW e, Sound(e), e.x > 0
  PROVE  ErasedIn1(erase_key(e), e)
  <1> DEFINE m == x_minus(e)
             k == CursorLine(m)
             l == erase(k, m.x)
             d == Replaced(m, l)
             f == redraw_line(d, m.y)
  <1>1. Size(e) # 0 /\ Beside(m, e, e.x - 1)
    BY XMinusHere
  <1>2. [m EXCEPT !.data[Row0(m) + 1] = erase(@, m.x)] = d
    BY DEF Replaced, CursorLine, LineAt
  <1>3. erase_key(e) = f
    <2> DEFINE t == [m EXCEPT !.data[Row0(m) + 1] = erase(@, m.x)]
    <2>1. erase_key(e) = redraw_line(t, m.y)
      BY DEF erase_key
    <2> QED BY <1>2, <2>1
  <1> HIDE DEF m, l, d, f
  <1>4. /\ Sound(m) /\ m.data = e.data /\ m.y_max = e.y_max /\ m.x = e.x - 1 /\ m.y = e.y /\ m.view_y = e.view_y
        /\ Narrow(e) => Pointed(m) /\ (Rendered(e) => Rendered(m))
    BY <1>1 DEF Beside, MovedTo
  <1>5. /\ e \in Editors /\ m \in Editors /\ Size(m) = Size(e) /\ Row0(m) = Row0(e) /\ CursorLine(m) = CursorLine(e)
        /\ e.x \in Nat /\ e.x <= k.len /\ k \in TLines /\ k.len \in Nat /\ m.x \in Nat
    <2>1. Size(m) = Size(e) /\ Row0(m) = Row0(e) /\ CursorLine(m) = CursorLine(e)
      BY <1>4 DEF Size, Row0, CursorLine, LineAt
    <2>2. e \in Editors /\ CursorLine(e) \in TLines /\ CursorLine(e).len \in Nat /\ e.x <= CursorLine(e).len
      BY <1>1, SoundIs
    <2>3. m \in Editors
      BY <1>4, SoundIs
    <2> QED BY <2>1, <2>2, <2>3, EditorIs
  <1>6. m.x \in 0 .. k.len - 1 /\ m.x + 1 = e.x
    BY <1>4, <1>5
  <1> HIDE DEF k
  <1>7. ErasedFrom(l, k, m.x)
    BY <1>5, <1>6, EraseIs DEF l
  <1>8. l \in TLines /\ l.len = k.len - 1 /\ Closed(l) /\ UpTo(l, m.x) = UpTo(k, m.x) /\ From(l, m.x) = From(k, m.x + 1)
    BY <1>7 DEF ErasedFrom
  <1>9. ReplacedIn(d, m, l)
    BY <1>1, <1>4, <1>5, <1>8, ReplacedIs DEF d
  <1>10. /\ Sound(d) /\ d.x = m.x /\ d.y = e.y /\ d.view_y = e.view_y /\ d.y_max = e.y_max /\ d.scr = m.scr
         /\ d.data = [e.data EXCEPT ![Row0(e) + 1] = l] /\ Size(d) = Size(e) /\ Row0(d) = Row0(e) /\ CursorLine(d) = l
    <2>1. m.x <= l.len
      BY <1>5, <1>6, <1>8
    <2> QED BY <1>4, <1>5, <1>9, <2>1 DEF ReplacedIn
  <1>11. /\ d \in Editors /\ d.y_max <= YMax /\ e.y \in 0 .. d.y_max /\ e.y + d.view_y < Size(d)
         /\ e.y_max \in Nat /\ YMax \in Nat
    <2>1. d \in Editors /\ d.y_max <= YMax /\ d.y <= d.y_max /\ Row0(d) < Size(d)
      BY <1>1, <1>10, SoundIs
    <2>2. d.y \in Nat /\ d.view_y \in Nat /\ Row0(d) = d.view_y + d.y /\ d.y_max \in Nat
      BY <2>1, EditorIs
    <2> QED BY <1>10, <2>1, <2>2, Sizes
  <1>12. /\ Redone(f, d)
         /\ Narrow(d) /\ (\A j \in 0 .. d.y_max : j # e.y => Row(d.scr, j) = RowText(d, j)) => Rendered(f)
    BY <1>4, <1>11, RedrawLineIs DEF f
  <1>13. /\ Sound(f) /\ f.data = d.data /\ f.y_max = d.y_max /\ f.x = d.x
         /\ Size(f) = Size(d) /\ Row0(f) = Row0(d) /\ CursorLine(f) = l
         /\ Narrow(d) => Narrow(f) /\ Pointed(f)
    BY <1>10, <1>11, <1>12, RedoneIs
  <1>14. ASSUME Narrow(e)
         PROVE  Narrow(d) /\ (Rendered(e) => Rendered(f))
    <2>1. Narrow(m)
      BY <1>4, <1>5, <1>14, SameText
    <2>2. Slim(k)
      <3>1. Row0(m) \in Nat /\ Row0(m) < Size(m)
        BY <1>1, <1>4, <1>5, SoundIs, EditorIs
      <3> QED BY <1>5, <2>1, <3>1, LineAtIs DEF k, CursorLine
    <2>3. Narrow(d)
      <3>1. Slim(l)
        BY <1>5, <1>6, <1>7, <2>2, SlimErased
      <3> QED BY <1>9, <2>1, <3>1 DEF ReplacedIn
    <2>4. ASSUME Rendered(e) PROVE Rendered(f)
      <3>1. Rendered(m)
        BY <1>4, <1>14, <2>4
      <3>2. ASSUME NEW j \in 0 .. d.y_max, j # e.y PROVE Row(d.scr, j) = RowText(d, j)
        <4>1. j \in 0 .. m.y_max /\ j # m.y
          BY <1>4, <1>10, <3>2
        <4>2. RowText(d, j) = RowText(m, j)
          BY <1>9, <4>1 DEF ReplacedIn
        <4> QED BY <1>10, <3>1, <4>1, <4>2 DEF Rendered
      <3> QED BY <1>12, <2>3, <3>2
    <2> QED BY <2>3, <2>4
  <1>15. AllClosed(e) => AllClosed(f)
    <2>1. AllClosed(e) => AllClosed(m)
      BY <1>4, <1>5 DEF AllClosed
    <2>2. AllClosed(m) => AllClosed(d)
      BY <1>8, <1>9 DEF ReplacedIn
    <2>3. AllClosed(d) => AllClosed(f)
      BY <1>13 DEF AllClosed
    <2> QED BY <2>1, <2>2, <2>3
  <1>16. /\ Before(e) # <<>> /\ Before(f) = SubSeq(Before(e), 1, Len(Before(e)) - 1)
         /\ After(f) = After(e)
    <2>1. Above(f) = Above(e) /\ Below(f) = Below(e)
      BY <1>1, <1>10, <1>13, SameSides
    <2>2. /\ Before(e) = TextOf(Above(e)) \o UpTo(k, e.x) /\ After(e) = From(k, e.x) \o Rest(TextOf(Below(e)))
          /\ TextOf(Above(e)) \in Seq(Letters)
      BY <1>1, <1>5, SidesAre DEF k
    <2>3. Size(f) # 0
      BY <1>1, <1>10, <1>13
    <2>4. /\ Before(f) = TextOf(Above(e)) \o UpTo(l, m.x) /\ After(f) = From(l, m.x) \o Rest(TextOf(Below(e)))
      BY <1>10, <1>13, <2>1, <2>3, SidesAre
    <2>5. PICK c \in Printed : UpTo(k, m.x + 1) = Append(UpTo(k, m.x), c)
      BY <1>5, <1>6, OneMore
    <2>6. UpTo(k, m.x) \in Seq(Letters) /\ c \in Letters
      <3>1. m.x \in 0 .. k.len
        BY <1>5, <1>6
      <3>2. UpTo(k, m.x) \in Seq(Printed) /\ Printed \subseteq Letters
        BY <1>5, <3>1, PartsOf DEF Letters
      <3> QED BY <3>2, SeqMonotonic
    <2> DEFINE a == TextOf(Above(e))
               u == UpTo(k, m.x)
    <2> HIDE DEF a, u
    <2>7. a \o u \in Seq(Letters) /\ a \o Append(u, c) = Append(a \o u, c)
      BY <2>2, <2>6 DEF a, u
    <2> DEFINE s == a \o u
    <2> HIDE DEF s
    <2>8. Append(s, c) # <<>> /\ SubSeq(Append(s, c), 1, Len(Append(s, c)) - 1) = s
      BY <2>6, <2>7 DEF s
    <2> QED BY <1>6, <1>8, <2>2, <2>4, <2>5, <2>7, <2>8 DEF a, u, s
  <1> QED BY <1>3, <1>10, <1>13, <1>14, <1>15, <1>16 DEF ErasedIn1

\* p is s from a to b.
PartOf(p, S, s, a, b) ==
  p \in Seq(S) /\ Len(p) = b - a + 1 /\ \A i \in 1 .. b - a + 1 : p[i] = s[a + i - 1]

\* The elements of a part of a sequence.
LEMMA PartIs ==
  ASSUME NEW S, NEW s \in Seq(S), NEW a \in 1 .. Len(s) + 1, NEW b \in a - 1 .. Len(s)
  PROVE  PartOf(SubSeq(s, a, b), S, s, a, b)
  <1>1. a \in Int /\ b \in Int /\ Len(s) \in Nat
    OBVIOUS
  <1>2. \A i \in a .. b : s[i] \in S
    <2>1. \A i \in a .. b : i \in 1 .. Len(s)
      BY <1>1
    <2> QED BY <2>1
  <1>3. /\ SubSeq(s, a, b) \in Seq(S)
        /\ Len(SubSeq(s, a, b)) = IF a <= b THEN b - a + 1 ELSE 0
        /\ \A i \in 1 .. b - a + 1 : SubSeq(s, a, b)[i] = s[a + i - 1]
    BY <1>1, <1>2, SubSeqProperties
  <1>4. Len(SubSeq(s, a, b)) = b - a + 1
    BY <1>1, <1>3
  <1> QED BY <1>3, <1>4 DEF PartOf

\* Two parts with the same elements.
Alike(s, a, t, c, n) == \A i \in 1 .. n : s[a + i - 1] = t[c + i - 1]

\* Parts with the same elements are the same.
LEMMA SameParts ==
  ASSUME NEW S, NEW s \in Seq(S), NEW a \in 1 .. Len(s) + 1, NEW b \in a - 1 .. Len(s),
         NEW t \in Seq(S), NEW c \in 1 .. Len(t) + 1, NEW d \in c - 1 .. Len(t),
         b - a = d - c, NEW n, n = b - a + 1, Alike(s, a, t, c, n)
  PROVE  SubSeq(s, a, b) = SubSeq(t, c, d)
  <1> DEFINE p == SubSeq(s, a, b)
             q == SubSeq(t, c, d)
  <1>1. PartOf(p, S, s, a, b) /\ PartOf(q, S, t, c, d)
    BY PartIs
  <1> HIDE DEF p, q
  <1>2. /\ p \in Seq(S) /\ Len(p) = b - a + 1 /\ \A i \in 1 .. b - a + 1 : p[i] = s[a + i - 1]
        /\ q \in Seq(S) /\ Len(q) = d - c + 1 /\ \A i \in 1 .. d - c + 1 : q[i] = t[c + i - 1]
    BY <1>1 DEF PartOf
  <1>3. d - c + 1 = b - a + 1
    OBVIOUS
  <1>4. \A i \in 1 .. Len(p) : p[i] = q[i]
    BY <1>2, <1>3 DEF Alike
  <1>5. p = q
    BY <1>2, <1>3, <1>4, SeqEqual
  <1> QED BY <1>5 DEF p, q

\* s without its element k, and with x before it.
Removed(r, S, s, k) ==
  /\ r \in Seq(S) /\ Len(r) = Len(s) - 1
  /\ \A i \in 1 .. Len(s) - 1 : r[i] = IF i < k THEN s[i] ELSE s[i + 1]

Added(r, S, s, k, x) ==
  /\ r \in Seq(S) /\ Len(r) = Len(s) + 1
  /\ \A i \in 1 .. Len(s) + 1 : r[i] = IF i < k THEN s[i] ELSE IF i = k THEN x ELSE s[i - 1]

\* What RemoveAt leaves, before and behind the element.
LEMMA RemovedIs ==
  ASSUME NEW S, NEW s \in Seq(S), NEW k \in 1 .. Len(s)
  PROVE  Removed(RemoveAt(s, k), S, s, k)
  <1> DEFINE n == Len(s)
             p == SubSeq(s, 1, k - 1)
             q == SubSeq(s, k + 1, n)
  <1>0. k \in Int /\ n \in Nat /\ 1 <= k /\ k <= n
    OBVIOUS
  <1>1. PartOf(p, S, s, 1, k - 1) /\ PartOf(q, S, s, k + 1, n)
    <2>1. 1 \in 1 .. n + 1 /\ k - 1 \in 1 - 1 .. n /\ k + 1 \in 1 .. n + 1 /\ n \in (k + 1) - 1 .. n
      BY <1>0
    <2> DEFINE a == k - 1
               b == k + 1
    <2> HIDE DEF a, b
    <2>2. PartOf(SubSeq(s, 1, a), S, s, 1, a) /\ PartOf(SubSeq(s, b, n), S, s, b, n)
      BY <2>1, PartIs DEF a, b
    <2> QED BY <2>2 DEF a, b
  <1>2. RemoveAt(s, k) = p \o q
    BY DEF RemoveAt
  <1> HIDE DEF p, q, n
  <1>3. /\ p \in Seq(S) /\ Len(p) = k - 1 /\ \A i \in 1 .. k - 1 : p[i] = s[i]
        /\ q \in Seq(S) /\ Len(q) = n - k /\ \A i \in 1 .. n - k : q[i] = s[k + i]
    <2>1. (k - 1) - 1 + 1 = k - 1 /\ n - (k + 1) + 1 = n - k
      BY <1>0
    <2>2. \A i \in Int : 1 + i - 1 = i /\ (k + 1) + i - 1 = k + i
      BY <1>0
    <2> QED BY <1>1, <2>1, <2>2 DEF PartOf
  <1>4. /\ p \o q \in Seq(S) /\ Len(p \o q) = n - 1
        /\ \A i \in 1 .. n - 1 : (p \o q)[i] = IF i <= k - 1 THEN p[i] ELSE q[i - (k - 1)]
    <2>1. Len(p) + Len(q) = n - 1
      BY <1>0, <1>3
    <2>2. p \in Seq(S) /\ q \in Seq(S)
      BY <1>3
    <2>3. /\ p \o q \in Seq(S) /\ Len(p \o q) = Len(p) + Len(q)
          /\ \A i \in 1 .. Len(p) + Len(q) : (p \o q)[i] = IF i <= Len(p) THEN p[i] ELSE q[i - Len(p)]
      BY <2>2, ConcatProperties
    <2>4. Len(p) = k - 1
      BY <1>3
    <2> QED BY <2>1, <2>3, <2>4
  <1>5. ASSUME NEW i \in 1 .. n - 1 PROVE (p \o q)[i] = IF i < k THEN s[i] ELSE s[i + 1]
    <2>1. CASE i < k
      <3>1. i <= k - 1 /\ i \in 1 .. k - 1
        BY <1>0, <2>1
      <3> QED BY <1>3, <1>4, <2>1, <3>1
    <2>2. CASE ~(i < k)
      <3>1. ~(i <= k - 1) /\ i - (k - 1) \in 1 .. n - k /\ k + (i - (k - 1)) = i + 1
        BY <1>0, <2>2
      <3>2. (p \o q)[i] = q[i - (k - 1)]
        BY <1>4, <3>1
      <3>3. q[i - (k - 1)] = s[k + (i - (k - 1))]
        BY <1>3, <3>1
      <3> QED BY <2>2, <3>1, <3>2, <3>3
    <2> QED BY <2>1, <2>2
  <1> QED BY <1>2, <1>4, <1>5 DEF Removed, n

\* What InsertAt keeps, before and behind the element.
LEMMA AddedIs ==
  ASSUME NEW S, NEW s \in Seq(S), NEW k \in 1 .. Len(s) + 1, NEW x \in S
  PROVE  Added(InsertAt(s, k, x), S, s, k, x)
  <1> DEFINE n == Len(s)
             p == SubSeq(s, 1, k - 1)
             q == SubSeq(s, k, n)
             u == Append(p, x)
  <1>0. k \in Int /\ n \in Nat /\ 1 <= k /\ k <= n + 1
    OBVIOUS
  <1>1. PartOf(p, S, s, 1, k - 1) /\ PartOf(q, S, s, k, n)
    <2>1. 1 \in 1 .. n + 1 /\ k - 1 \in 1 - 1 .. n /\ k \in 1 .. n + 1 /\ n \in k - 1 .. n
      BY <1>0
    <2> DEFINE a == k - 1
    <2> HIDE DEF a
    <2>2. PartOf(SubSeq(s, 1, a), S, s, 1, a) /\ PartOf(SubSeq(s, k, n), S, s, k, n)
      BY <2>1, PartIs DEF a
    <2> QED BY <2>2 DEF a
  <1> HIDE DEF p, q, n
  <1>3. /\ p \in Seq(S) /\ Len(p) = k - 1 /\ \A i \in 1 .. k - 1 : p[i] = s[i]
        /\ q \in Seq(S) /\ Len(q) = n - k + 1 /\ \A i \in 1 .. n - k + 1 : q[i] = s[k + i - 1]
    <2>1. (k - 1) - 1 + 1 = k - 1
      BY <1>0
    <2>2. \A i \in Int : 1 + i - 1 = i
      OBVIOUS
    <2> QED BY <1>1, <2>1, <2>2 DEF PartOf
  <1>4. u \in Seq(S) /\ Len(u) = k /\ u[k] = x /\ \A i \in 1 .. k - 1 : u[i] = s[i]
    <2>1. p \in Seq(S) /\ Len(p) = k - 1 /\ k - 1 \in Nat
      BY <1>0, <1>3
    <2>2. u \in Seq(S) /\ Len(u) = k /\ u[k] = x /\ \A i \in 1 .. k - 1 : u[i] = p[i]
      BY <1>0, <2>1
    <2> QED BY <1>3, <2>2
  <1>2. InsertAt(s, k, x) = u \o q
    <2>1. p \o <<x>> = u
      BY <1>3
    <2>2. InsertAt(s, k, x) = (p \o <<x>>) \o q
      BY DEF InsertAt, p, q, n
    <2> QED BY <2>1, <2>2
  <1> HIDE DEF u
  <1>5. /\ u \o q \in Seq(S) /\ Len(u \o q) = n + 1
        /\ \A i \in 1 .. n + 1 : (u \o q)[i] = IF i <= k THEN u[i] ELSE q[i - k]
    <2>1. Len(u) = k /\ Len(u) + Len(q) = n + 1
      BY <1>0, <1>3, <1>4
    <2>2. u \in Seq(S) /\ q \in Seq(S)
      BY <1>3, <1>4
    <2>3. /\ u \o q \in Seq(S) /\ Len(u \o q) = Len(u) + Len(q)
          /\ \A i \in 1 .. Len(u) + Len(q) : (u \o q)[i] = IF i <= Len(u) THEN u[i] ELSE q[i - Len(u)]
      BY <2>2, ConcatProperties
    <2> QED BY <2>1, <2>3
  <1>6. ASSUME NEW i \in 1 .. n + 1 PROVE (u \o q)[i] = IF i < k THEN s[i] ELSE IF i = k THEN x ELSE s[i - 1]
    <2>1. CASE i < k
      <3>1. i <= k /\ i \in 1 .. k - 1
        BY <1>0, <2>1
      <3> QED BY <1>4, <1>5, <2>1, <3>1
    <2>2. CASE i = k
      BY <1>0, <1>4, <1>5, <2>2
    <2>3. CASE i > k
      <3>1. ~(i <= k) /\ ~(i < k) /\ i # k /\ i - k \in 1 .. n - k + 1 /\ k + (i - k) - 1 = i - 1
        BY <1>0, <2>3
      <3>2. (u \o q)[i] = q[i - k]
        BY <1>5, <3>1
      <3>3. q[i - k] = s[k + (i - k) - 1]
        BY <1>3, <3>1
      <3> QED BY <3>1, <3>2, <3>3
    <2>4. i < k \/ i = k \/ i > k
      BY <1>0
    <2> QED BY <2>1, <2>2, <2>3, <2>4
  <1> QED BY <1>2, <1>5, <1>6 DEF Added, n

\* Two lines have become one.
JoinedIn(f, e) ==
  /\ Sound(f) /\ f.y_max = e.y_max
  /\ Narrow(e) /\ LineAt(e, Row0(e) - 1).len + LenHere(e) <= XMax =>
       Narrow(f) /\ Pointed(f) /\ Rendered(f)
  /\ Before(e) # <<>> /\ Before(f) = SubSeq(Before(e), 1, Len(Before(e)) - 1)
  /\ After(f) = After(e)

\* erase at the start of a line joins it to the one above: the line feed between
\* them is removed.
LEMMA JoinIs ==
  ASSUME NEW e, Sound(e), e.x = 0, e.y > 0
  PROVE  JoinedIn(erase_key(e), e)
  <1> DEFINE n == Row0(e)
             s == e.data
             up == s[n]
             cur == s[n + 1]
             both == append(up, cur)
             D == [s EXCEPT ![n] = both]
             R == RemoveAt(D, n + 1)
             K == [e EXCEPT !.data = R, !.lpos = up.len]
             z == y_minus(K)
             a == Aimed(z)
             f == redraw_full(a)
  <1>1. /\ e \in Editors /\ s \in Seq(TLines) /\ Size(e) = Len(s) /\ n \in Nat /\ Len(s) \in Nat
        /\ e.y \in Nat /\ e.view_y \in Nat /\ n = e.view_y + e.y /\ e.y_max <= YMax /\ e.y <= e.y_max
        /\ e.y_max \in Nat /\ YMax \in Nat
        /\ CursorLine(e) = cur /\ LineAt(e, n) = cur
    BY SoundIs, EditorIs, Sizes DEF Size, CursorLine, LineAt
  <1>2. Size(e) # 0 /\ n < Len(s) /\ n > 0 /\ n \in 1 .. Len(s) /\ n + 1 \in 1 .. Len(s)
    <2>1. Size(e) # 0
      BY <1>1, SoundIs
    <2>2. n < Size(e)
      BY <2>1, SoundIs
    <2> QED BY <1>1, <2>1, <2>2
  <1>3. up \in TLines /\ cur \in TLines /\ up.len \in Nat /\ cur.len \in Nat /\ up.len \in 0 .. up.len
    <2>1. up \in TLines /\ cur \in TLines
      BY <1>1, <1>2
    <2> HIDE DEF up, cur
    <2>2. up.len \in Nat /\ cur.len \in Nat
      BY <2>1, LineIs
    <2> QED BY <2>1, <2>2
  <1>3a. LineAt(e, n - 1) = up /\ LenHere(e) = cur.len
    <2>1. (n - 1) + 1 = n
      BY <1>1
    <2> QED BY <1>1, <1>2, <2>1 DEF LineAt, LenHere
  <1>4. erase_key(e) = f
    <2>1. erase_key(e) = join(e)
      BY <1>1, <1>2 DEF erase_key
    <2> DEFINE J == [e EXCEPT !.data[n] = append(@, LineAt(e, n)), !.lpos = e.data[n].len]
    <2>2. join(e) = redraw_full(Aimed(y_minus([J EXCEPT !.data = RemoveAt(@, n + 1)])))
      BY DEF join
    <2>3. J = [e EXCEPT !.data = D, !.lpos = up.len]
      BY <1>1
    <2>4. [J EXCEPT !.data = RemoveAt(@, n + 1)] = K
      <3> HIDE DEF D
      <3>1. [[e EXCEPT !.data = D, !.lpos = up.len] EXCEPT !.data = RemoveAt(@, n + 1)] = [e EXCEPT !.data = R, !.lpos = up.len]
        BY <1>1 DEF Editors
      <3> HIDE DEF J, R
      <3> QED BY <2>3, <3>1
    <2> HIDE DEF J, K
    <2> QED BY <2>1, <2>2, <2>4
  <1> HIDE DEF n, s, up, cur, both, D, R, K, z, a, f
  <1>5. AppendOf(both, up, cur)
    BY <1>3, AppendIs DEF both
  <1>6. both \in TLines /\ both.len = up.len + cur.len /\ UpTo(both, up.len) = CharsIn(up) /\ From(both, up.len) = CharsIn(cur)
    BY <1>5 DEF AppendOf
  <1>7. D \in Seq(TLines) /\ Len(D) = Len(s) /\ D[n] = both /\ \A i \in 1 .. Len(s) : i # n => D[i] = s[i]
    BY <1>1, <1>2, <1>6 DEF D
  <1>8. /\ R \in Seq(TLines) /\ Len(R) = Len(s) - 1
        /\ \A i \in 1 .. Len(s) - 1 : R[i] = IF i < n + 1 THEN D[i] ELSE D[i + 1]
    <2>1. Removed(R, TLines, D, n + 1)
      <3> DEFINE k == n + 1
      <3>1. k \in 1 .. Len(D)
        BY <1>2, <1>7
      <3> HIDE DEF k
      <3>2. Removed(RemoveAt(D, k), TLines, D, k)
        BY <1>7, <3>1, RemovedIs
      <3> QED BY <3>2 DEF k, R
    <2> QED BY <1>7, <2>1 DEF Removed
  <1>9. n \in 1 .. Len(s) - 1 /\ R[n] = both
    <2>1. n \in 1 .. Len(s) - 1 /\ n < n + 1
      BY <1>1, <1>2
    <2> QED BY <1>7, <1>8, <2>1
  <1>10. \A i \in 1 .. Len(s) - 1 : i # n => R[i] = IF i < n THEN s[i] ELSE s[i + 1]
    <2> TAKE i \in 1 .. Len(s) - 1
    <2>1. CASE i < n
      <3>1. i < n + 1 /\ i \in 1 .. Len(s)
        BY <1>1, <2>1
      <3> QED BY <1>7, <1>8, <2>1, <3>1
    <2>2. CASE i > n
      <3>1. ~(i < n + 1) /\ ~(i < n) /\ i + 1 \in 1 .. Len(s) /\ i + 1 # n
        BY <1>1, <2>2
      <3> QED BY <1>7, <1>8, <3>1
    <2>3. i < n \/ i = n \/ i > n
      BY <1>1
    <2> QED BY <2>1, <2>2, <2>3
  <1>11. /\ K \in Editors /\ K.data = R /\ K.lpos = up.len /\ K.x = 0 /\ K.y = e.y /\ K.view_y = e.view_y /\ K.y_max = e.y_max
    <2> DEFINE m == up.len
    <2>1. m \in Int /\ R \in Seq(TLines)
      BY <1>3, <1>8
    <2>2. K = [e EXCEPT !.data = R, !.lpos = m]
      BY DEF K
    <2> HIDE DEF m
    <2> QED BY <1>1, <2>1, <2>2 DEF Editors, m
  <1>12. Size(K) = Len(s) - 1 /\ Row0(K) = n /\ LineAt(K, n - 1) = both
    <2>1. (n - 1) + 1 = n
      BY <1>1
    <2> QED BY <1>1, <1>8, <1>9, <1>11, <2>1 DEF Size, Row0, LineAt
  <1>13. /\ MovedTo(z, K) /\ Row0(z) = n - 1 /\ z.x = up.len /\ z.lpos = up.len
    <2>1. K.y_max <= YMax /\ K.y > 0 /\ K.y - 1 <= K.y_max /\ Row0(K) - 1 < Size(K)
      BY <1>1, <1>2, <1>11, <1>12
    <2>2. K.lpos \in 0 .. LineAt(K, Row0(K) - 1).len
      BY <1>3, <1>6, <1>11, <1>12
    <2>3. /\ MovedTo(y_minus(K), K) /\ Row0(y_minus(K)) = Row0(K) - 1
          /\ K.lpos \in 0 .. LineAt(K, Row0(K) - 1).len => y_minus(K).x = K.lpos
          /\ y_minus(K).lpos = K.lpos
      BY <1>11, <2>1, YMinusAbove
    <2> QED BY <1>11, <1>12, <2>2, <2>3 DEF z
  <1>14. Sound(z) /\ z.data = R /\ z.y_max = e.y_max
    BY <1>11, <1>13 DEF MovedTo
  <1>15. Size(z) # 0 /\ CursorLine(z) = both /\ Within(z)
    <2>1. (n - 1) + 1 = n /\ Len(s) - 1 # 0
      BY <1>1, <1>2
    <2> QED BY <1>8, <1>9, <1>13, <1>14, <2>1, SoundIs DEF Size, CursorLine, LineAt
  <1>16. /\ Sound(a) /\ a.data = R /\ a.y_max = e.y_max /\ a.y = z.y /\ a.view_y = z.view_y /\ a.x = up.len
    <2>1. z.lpos \in 0 .. CursorLine(z).len
      BY <1>3, <1>6, <1>13, <1>15
    <2>2. /\ Sound(a) /\ a.data = z.data /\ a.y_max = z.y_max /\ a.y = z.y /\ a.view_y = z.view_y
          /\ Size(z) # 0 /\ z.lpos \in 0 .. CursorLine(z).len => a.x = z.lpos
      BY <1>15, AimedIs DEF a
    <2> QED BY <1>13, <1>14, <1>15, <2>1, <2>2
  <1>17. MovedTo(f, K) /\ (Narrow(K) => Rendered(f)) /\ Redone(f, a)
    <2>1. a.data = K.data /\ a.y_max = K.y_max
      BY <1>11, <1>16
    <2>2. Redone(redraw_full(a), a)
      <3>1. a \in Editors /\ a.y_max <= YMax
        BY <1>16, SoundIs
      <3> QED BY <3>1, RedrawFullIs
    <2> QED BY <1>11, <1>16, <2>1, <2>2, ScrolledMoved DEF f
  <1>18. /\ Sound(f) /\ f.data = R /\ f.y_max = e.y_max /\ f.x = up.len /\ Row0(f) = n - 1 /\ Size(f) = Len(s) - 1
         /\ CursorLine(f) = both
    <2>1. a \in Editors
      BY <1>16, SoundIs
    <2>2. f.x = a.x /\ f.y = a.y /\ f.view_y = a.view_y
      BY <1>17, <2>1, RedoneIs
    <2>3. Sound(f) /\ f.data = R /\ f.y_max = e.y_max
      BY <1>11, <1>17 DEF MovedTo
    <2>4. Row0(f) = Row0(z)
      BY <1>16, <2>2 DEF Row0
    <2>5. (n - 1) + 1 = n
      BY <1>1
    <2> QED BY <1>8, <1>9, <1>13, <1>16, <2>2, <2>3, <2>4, <2>5 DEF Size, CursorLine, LineAt
  <1>19. ASSUME Narrow(e), up.len + cur.len <= XMax PROVE Narrow(f) /\ Pointed(f) /\ Rendered(f)
    <2>0. \A j \in 1 .. Size(e) : Slim(s[j])
      BY <1>19 DEF Narrow, s
    <2>1. ASSUME NEW i \in 1 .. Len(s) - 1 PROVE Slim(R[i])
      <3>1. CASE i = n
        <4>1. Slim(up) /\ Slim(cur)
          BY <1>1, <1>2, <2>0 DEF up, cur
        <4>2. Slim(both)
          BY <1>3, <1>5, <1>19, <4>1, SlimJoined
        <4> QED BY <1>9, <3>1, <4>2
      <3>2. CASE i # n
        <4>1. i \in 1 .. Size(e) /\ i + 1 \in 1 .. Size(e)
          BY <1>1
        <4>2. Slim(s[i]) /\ Slim(s[i + 1])
          BY <2>0, <4>1
        <4> QED BY <1>10, <3>2, <4>2
      <3> QED BY <3>1, <3>2
    <2>2. Narrow(K) /\ Narrow(f)
      BY <1>11, <1>12, <1>18, <2>1 DEF Narrow
    <2> QED BY <1>17, <2>2 DEF MovedTo
  <1>20. /\ Before(e) # <<>> /\ Before(f) = SubSeq(Before(e), 1, Len(Before(e)) - 1)
         /\ After(f) = After(e)
    <2> DEFINE P == SubSeq(s, 1, n - 1)
               p == TextOf(P)
               c == CharsIn(up)
               LF == <<LineFeed>>
    <2>1. n - 1 \in 0 .. Len(s) /\ n - 1 \in Nat
      BY <1>1, <1>2
    <2>2. P \in Seq(TLines) /\ Above(e) = Append(P, up)
      <3>1. P \in Seq(TLines)
        BY <1>1, <2>1
      <3>2. SubSeq(s, 1, n) = Append(SubSeq(s, 1, n - 1), s[n])
        <4> HIDE DEF s, n
        <4>1. s \in Seq(TLines) /\ n \in 1 .. Len(s)
          BY <1>1, <1>2
        <4> QED BY <4>1, SMTT(30)
      <3> QED BY <3>1, <3>2 DEF Above, n, s, up
    <2>3. Above(f) = P
      <3>1. Above(f) = SubSeq(R, 1, n - 1)
        BY <1>18 DEF Above
      <3> DEFINE m == n - 1
      <3>2. m \in 1 - 1 .. Len(R) /\ m \in 1 - 1 .. Len(s) /\ 1 \in 1 .. Len(R) + 1 /\ 1 \in 1 .. Len(s) + 1
        BY <1>1, <1>2, <1>8, <2>1
      <3>3. Alike(R, 1, s, 1, m)
        <4> SUFFICES ASSUME NEW i \in 1 .. m PROVE R[1 + i - 1] = s[1 + i - 1]
          BY DEF Alike
        <4> DEFINE k == Len(s)
        <4>1. k \in Nat /\ n \in Nat /\ n < k /\ n > 0
          BY <1>1, <1>2
        <4>2. i \in 1 .. n - 1
          OBVIOUS
        <4> HIDE DEF k
        <4>3. 1 + i - 1 = i /\ i \in 1 .. k - 1 /\ i # n /\ i < n
          BY <4>1, <4>2
        <4> QED BY <1>10, <4>3 DEF k
      <3> HIDE DEF m
      <3>4. SubSeq(R, 1, m) = SubSeq(s, 1, m)
        <4>1. m - 1 = m - 1 /\ m = m - 1 + 1
          BY <3>2
        <4>2. s \in Seq(TLines) /\ R \in Seq(TLines)
          BY <1>1, <1>8
        <4> QED BY <3>2, <3>3, <4>1, <4>2, SameParts
      <3> QED BY <3>1, <3>4 DEF m
    <2>4. Below(f) = Below(e)
      <3> DEFINE aa == n + 1
                 bb == Len(s) - 1
                 cc == n + 2
                 dd == Len(s)
      <3>1. Below(f) = SubSeq(R, aa, bb)
        <4>1. (n - 1) + 2 = n + 1
          BY <1>1
        <4> QED BY <1>18, <4>1 DEF Below
      <3>2. Below(e) = SubSeq(s, cc, dd)
        BY <1>1 DEF Below, n, s
      <3>3. /\ aa \in 1 .. Len(R) + 1 /\ bb \in aa - 1 .. Len(R) /\ cc \in 1 .. Len(s) + 1 /\ dd \in cc - 1 .. Len(s)
            /\ bb - aa = dd - cc
        <4> DEFINE k == Len(s)
        <4>1. k \in Nat /\ n \in Nat /\ n < k /\ Len(R) = k - 1
          BY <1>1, <1>2, <1>8
        <4> HIDE DEF k
        <4>2. /\ n + 1 \in 1 .. k - 1 + 1 /\ k - 1 \in n + 1 - 1 .. k - 1 /\ n + 2 \in 1 .. k + 1 /\ k \in n + 2 - 1 .. k
              /\ (k - 1) - (n + 1) = k - (n + 2)
          BY <4>1
        <4> QED BY <4>1, <4>2 DEF k
      <3> DEFINE nn == bb - aa + 1
      <3>4. Alike(R, aa, s, cc, nn)
        <4> SUFFICES ASSUME NEW i \in 1 .. bb - aa + 1 PROVE R[aa + i - 1] = s[cc + i - 1]
          BY DEF Alike
        <4> DEFINE j == aa + i - 1
        <4>1. j \in 1 .. Len(s) - 1 /\ j # n /\ ~(j < n) /\ j + 1 = cc + i - 1
          <5> DEFINE k == Len(s)
          <5>1. k \in Nat /\ n \in Nat /\ n < k /\ n > 0
            BY <1>1, <1>2
          <5>2. i \in 1 .. (k - 1) - (n + 1) + 1
            OBVIOUS
          <5> HIDE DEF k
          <5>3. /\ (n + 1) + i - 1 \in 1 .. k - 1 /\ (n + 1) + i - 1 # n /\ ~((n + 1) + i - 1 < n)
                /\ ((n + 1) + i - 1) + 1 = (n + 2) + i - 1
            BY <5>1, <5>2
          <5> QED BY <5>3 DEF k
        <4> HIDE DEF j
        <4>2. R[j] = s[j + 1]
          BY <1>10, <4>1
        <4> QED BY <4>1, <4>2 DEF j
      <3>4a. nn = bb - aa + 1
        OBVIOUS
      <3> HIDE DEF aa, bb, cc, dd, nn
      <3>5. SubSeq(R, aa, bb) = SubSeq(s, cc, dd)
        <4>1. s \in Seq(TLines) /\ R \in Seq(TLines)
          BY <1>1, <1>8
        <4> QED BY <3>3, <3>4, <3>4a, <4>1, SameParts, SMTT(30)
      <3> QED BY <3>1, <3>2, <3>5
    <2>5. /\ Before(e) = TextOf(Above(e)) \o UpTo(cur, 0)
          /\ After(e) = From(cur, 0) \o Rest(TextOf(Below(e)))
      BY <1>1, <1>2, SidesAre
    <2>6. /\ Before(f) = TextOf(Above(f)) \o UpTo(both, up.len)
          /\ After(f) = From(both, up.len) \o Rest(TextOf(Below(f)))
      <3>1. Size(f) # 0
        BY <1>1, <1>2, <1>18
      <3> QED BY <1>18, <3>1, SidesAre
    <2>7. After(f) = After(e)
      <3>1. From(cur, 0) = CharsIn(cur)
        BY <1>3, Whole
      <3> QED BY <1>6, <2>4, <2>5, <2>6, <3>1
    <2> HIDE DEF P
    <2>8. /\ TextOf(Append(P, up)) = p \o (c \o LF) /\ p \in Seq(Letters)
          /\ c \in Seq(Letters) /\ c \o LF \in Seq(Letters) /\ LF \in Seq(Letters)
      BY <1>3, <2>2, TextMore, PieceIs DEF Piece
    <2>9. Before(e) = p \o (c \o LF)
      <3>1. UpTo(cur, 0) = <<>>
        BY <1>3, Whole
      <3>2. p \o (c \o LF) \in Seq(Letters)
        BY <2>8, ConcatProperties
      <3>3. (p \o (c \o LF)) \o <<>> = p \o (c \o LF)
        BY <3>2, ConcatEmptySeq
      <3> QED BY <2>2, <2>5, <2>8, <3>1, <3>3
    <2>10. Before(f) = p \o c
      BY <1>6, <2>3, <2>6
    <2> HIDE DEF p, c
    <2>11. p \o (c \o LF) = (p \o c) \o LF /\ p \o c \in Seq(Letters)
      <3>1. Grouped(p, c, LF)
        BY <2>8, Regroup
      <3> QED BY <2>8, <3>1, ConcatProperties DEF Grouped
    <2> DEFINE u == p \o c
    <2>12. LineFeed \in Letters
      BY DEF Letters
    <2> HIDE DEF u
    <2>13. u \o LF # <<>> /\ SubSeq(u \o LF, 1, Len(u \o LF) - 1) = u
      <3>1. u \o LF = Append(u, LineFeed) /\ u \in Seq(Letters)
        BY <2>11, <2>12 DEF u
      <3> QED BY <2>12, <3>1
    <2> QED BY <2>7, <2>9, <2>10, <2>11, <2>13 DEF u
  <1> QED BY <1>3a, <1>4, <1>18, <1>19, <1>20 DEF JoinedIn, n

\* A line has become two.
SplitIn(f, e) ==
  /\ Sound(f) /\ f.y_max = e.y_max
  /\ AllClosed(e) => AllClosed(f)
  /\ Narrow(e) => Narrow(f) /\ Pointed(f) /\ Rendered(f)
  /\ Before(f) = Append(Before(e), LineFeed)
  /\ After(f) = After(e)

\* A line feed splits the cursor's line: it is added before the cursor.
LEMMA SplitIs ==
  ASSUME NEW e, Sound(e)
  PROVE  SplitIn(newline_key(e), e)
  <1> DEFINE g == Got(e, Row0(e))
             s == g.data
             n == Row0(g) + 1
             cur == s[n]
             h == SplitHead(cur, g.x)
             t == SplitTail(cur, g.x)
             D == [s EXCEPT ![n] = h]
             R == InsertAt(D, n + 1, t)
             K == [g EXCEPT !.data = R, !.lpos = 0]
             z == y_plus(K)
             f == redraw_full(z)
  <1>0. GotFrom(g, e)
    BY GotIs
  <1>1. Sound(g) /\ Size(g) # 0 /\ g.y_max = e.y_max
    BY <1>0 DEF GotFrom
  <1>2. newline_key(e) = f
    BY DEF newline_key
  <1> HIDE DEF g
  <1>3. /\ g \in Editors /\ s \in Seq(TLines) /\ Size(g) = Len(s) /\ n \in Nat /\ Len(s) \in Nat
        /\ g.x \in Nat /\ g.y \in Nat /\ g.view_y \in Nat /\ n - 1 = g.view_y + g.y /\ g.y_max <= YMax /\ g.y <= g.y_max
        /\ g.y_max \in Nat /\ YMax \in Nat /\ Row0(g) = n - 1 /\ Row0(g) \in Nat
        /\ CursorLine(g) = cur
    <2>1. /\ g \in Editors /\ g.y_max <= YMax /\ g.y <= g.y_max /\ YMax \in Nat
      BY <1>1, SoundIs, Sizes
    <2>2. /\ g.data \in Seq(TLines) /\ g.x \in Nat /\ g.y \in Nat /\ g.view_y \in Nat /\ g.y_max \in Nat
          /\ Row0(g) \in Nat /\ Row0(g) = g.view_y + g.y
      BY <2>1, EditorIs
    <2>3. Len(s) \in Nat /\ n \in Nat /\ n - 1 = Row0(g)
      BY <2>2
    <2>4. Size(g) = Len(s) /\ CursorLine(g) = cur
      BY <2>3 DEF Size, CursorLine, LineAt
    <2> QED BY <2>1, <2>2, <2>3, <2>4
  <1>4. n > 0 /\ n \in 1 .. Len(s) /\ n + 1 \in 1 .. Len(s) + 1
    <2>1. Row0(g) < Size(g)
      BY <1>1, SoundIs
    <2> DEFINE k == Len(s)
               r == Row0(g)
    <2>2. k \in Nat /\ r \in Nat /\ n = r + 1 /\ r < k
      BY <1>3, <2>1
    <2> HIDE DEF k, r, n
    <2>3. n > 0 /\ n \in 1 .. k /\ n + 1 \in 1 .. k + 1
      BY <2>2
    <2> QED BY <2>3 DEF k
  <1>5. cur \in TLines /\ cur.len \in Nat /\ g.x \in 0 .. cur.len
    <2>1. cur \in TLines /\ cur.len \in Nat /\ g.x <= cur.len
      BY <1>1, <1>3, SoundIs
    <2> QED BY <1>3, <2>1
  <1> HIDE DEF s, n, cur, h, t, D, R, K, z, f
  <1>6. HeadOf(h, cur, g.x) /\ TailOf(t, cur, g.x)
    BY <1>5, HeadIs, TailIs DEF h, t
  <1>7. /\ h \in TLines /\ h.len = g.x /\ CharsIn(h) = UpTo(cur, g.x) /\ (Closed(cur) => Closed(h))
        /\ t \in TLines /\ t.len = cur.len - g.x /\ CharsIn(t) = From(cur, g.x) /\ (Closed(cur) => Closed(t))
    BY <1>6 DEF HeadOf, TailOf
  <1>8. D \in Seq(TLines) /\ Len(D) = Len(s) /\ D[n] = h /\ \A i \in 1 .. Len(s) : i # n => D[i] = s[i]
    BY <1>3, <1>4, <1>7 DEF D
  <1>9. /\ R \in Seq(TLines) /\ Len(R) = Len(s) + 1
        /\ \A i \in 1 .. Len(s) + 1 : R[i] = IF i < n + 1 THEN D[i] ELSE IF i = n + 1 THEN t ELSE D[i - 1]
    <2> DEFINE k == n + 1
    <2>1. k \in 1 .. Len(D) + 1
      BY <1>4, <1>8
    <2> HIDE DEF k
    <2>2. Added(InsertAt(D, k, t), TLines, D, k, t)
      BY <1>7, <1>8, <2>1, AddedIs
    <2> QED BY <1>8, <2>2 DEF k, R, Added
  <1>10. R[n] = h /\ R[n + 1] = t
    <2>1. n \in 1 .. Len(s) + 1 /\ n < n + 1 /\ n + 1 \in 1 .. Len(s) + 1 /\ ~(n + 1 < n + 1)
      BY <1>3, <1>4
    <2> QED BY <1>8, <1>9, <2>1
  <1>11. \A i \in 1 .. Len(s) + 1 : i # n /\ i # n + 1 => R[i] = IF i < n THEN s[i] ELSE s[i - 1]
    <2> TAKE i \in 1 .. Len(s) + 1
    <2>1. CASE i < n
      <3>1. i < n + 1 /\ i \in 1 .. Len(s)
        BY <1>3, <1>4, <2>1
      <3> QED BY <1>8, <1>9, <2>1, <3>1
    <2>2. CASE i > n + 1
      <3>1. ~(i < n + 1) /\ ~(i < n) /\ i # n + 1 /\ i - 1 \in 1 .. Len(s) /\ i - 1 # n
        BY <1>3, <1>4, <2>2
      <3> QED BY <1>8, <1>9, <3>1
    <2>3. i < n \/ i = n \/ i = n + 1 \/ i > n + 1
      BY <1>3
    <2> QED BY <2>1, <2>2, <2>3
  <1>12. /\ K \in Editors /\ K.data = R /\ K.lpos = 0 /\ K.x = g.x /\ K.y = g.y /\ K.view_y = g.view_y /\ K.y_max = g.y_max
    <2> DEFINE m == 0
    <2>1. m \in Int /\ m = 0 /\ R \in Seq(TLines) /\ g \in Editors
      BY <1>3, <1>9
    <2>2. K = [g EXCEPT !.data = R, !.lpos = m]
      BY DEF K
    <2> HIDE DEF m
    <2> QED BY <2>1, <2>2 DEF Editors
  <1>13. Size(K) = Len(s) + 1 /\ Row0(K) = n - 1 /\ CursorLine(K) = h
    <2>1. (n - 1) + 1 = n
      BY <1>3
    <2> QED BY <1>3, <1>9, <1>10, <1>12, <2>1 DEF Size, Row0, CursorLine, LineAt
  <1>14. Sound(K)
    <2>1. Size(K) # 0 /\ Row0(K) < Size(K) /\ K.x <= CursorLine(K).len /\ K.y_max <= YMax /\ K.y <= K.y_max
      BY <1>3, <1>4, <1>7, <1>12, <1>13
    <2> QED BY <1>12, <2>1 DEF Sound
  <1>15. MovedTo(z, K) /\ Row0(z) = n /\ z.x = 0
    <2>1. Row0(K) < Size(K) - 1 /\ Row0(K) + 1 = n
      BY <1>3, <1>4, <1>13
    <2> QED BY <1>12, <1>14, <2>1, YPlusIs DEF z
  <1>16. Sound(z) /\ z \in Editors /\ z.data = R /\ z.y_max = e.y_max /\ z.y_max <= YMax
    <2>1. Sound(z) /\ z.data = R /\ z.y_max = e.y_max
      BY <1>1, <1>12, <1>15 DEF MovedTo
    <2> QED BY <2>1, SoundIs
  <1>17. MovedTo(f, K) /\ (Narrow(K) => Rendered(f)) /\ Redone(f, z)
    <2>1. z.data = K.data /\ z.y_max = K.y_max
      BY <1>15 DEF MovedTo
    <2>2. Redone(redraw_full(z), z)
      BY <1>16, RedrawFullIs
    <2> QED BY <1>12, <1>16, <2>1, <2>2, ScrolledMoved DEF f
  <1>18. /\ Sound(f) /\ f.data = R /\ f.y_max = e.y_max /\ f.x = 0 /\ Row0(f) = n /\ Size(f) = Len(s) + 1
         /\ CursorLine(f) = t
    <2>1. f.x = z.x /\ f.y = z.y /\ f.view_y = z.view_y /\ Row0(f) = Row0(z) /\ f.data = z.data
      BY <1>16, <1>17, RedoneIs
    <2>2. Sound(f) /\ f.y_max = e.y_max
      BY <1>1, <1>12, <1>17 DEF MovedTo
    <2> QED BY <1>9, <1>10, <1>15, <1>16, <2>1, <2>2 DEF Size, CursorLine, LineAt
  <1>19. ASSUME Narrow(e) PROVE Narrow(f) /\ Pointed(f) /\ Rendered(f)
    <2>0. Narrow(g)
      BY <1>0, <1>19 DEF GotFrom
    <2>00. \A j \in 1 .. Size(g) : Slim(s[j])
      BY <2>0 DEF Narrow, s
    <2>01. Slim(h) /\ Slim(t)
      <3>1. Slim(cur)
        BY <1>3, <1>4, <2>00 DEF cur
      <3> QED BY <1>5, <1>6, <3>1, SlimSplit
    <2>1. ASSUME NEW i \in 1 .. Len(s) + 1 PROVE Slim(R[i])
      <3>1. CASE i = n \/ i = n + 1
        BY <1>10, <2>01, <3>1
      <3>2. CASE i # n /\ i # n + 1
        <4>1. i < n => i \in 1 .. Size(g)
          BY <1>3, <1>4
        <4>2. ~(i < n) => i - 1 \in 1 .. Size(g)
          BY <1>3, <1>4, <3>2
        <4> QED BY <1>11, <2>00, <3>2, <4>1, <4>2
      <3> QED BY <3>1, <3>2
    <2>2. Narrow(K) /\ Narrow(f)
      BY <1>12, <1>13, <1>18, <2>1 DEF Narrow
    <2> QED BY <1>17, <2>2 DEF MovedTo
  <1>20. ASSUME AllClosed(e) PROVE AllClosed(f)
    <2>0. AllClosed(g)
      BY <1>0, <1>20 DEF GotFrom
    <2>00. \A j \in 1 .. Len(s) : Closed(s[j])
      BY <1>3, <2>0 DEF AllClosed, s
    <2>1. ASSUME NEW i \in 1 .. Len(s) + 1 PROVE Closed(R[i])
      <3>1. CASE i = n \/ i = n + 1
        <4>1. Closed(cur)
          BY <1>4, <2>00 DEF cur
        <4> QED BY <1>7, <1>10, <3>1, <4>1
      <3>2. CASE i # n /\ i # n + 1
        <4>1. i < n => i \in 1 .. Len(s)
          BY <1>3, <1>4
        <4>2. ~(i < n) => i - 1 \in 1 .. Len(s)
          BY <1>3, <1>4, <3>2
        <4> QED BY <1>11, <2>00, <3>2, <4>1, <4>2
      <3> QED BY <3>1, <3>2
    <2> QED BY <1>18, <2>1 DEF AllClosed
  <1>21. Before(f) = Append(Before(g), LineFeed) /\ After(f) = After(g)
    <2> DEFINE P == SubSeq(s, 1, n - 1)
               p == TextOf(P)
               c == CharsIn(h)
               LF == <<LineFeed>>
    <2>1. n - 1 \in 0 .. Len(s) /\ n - 1 \in Nat /\ (n - 1) + 2 = n + 1
      BY <1>3, <1>4
    <2>2. P \in Seq(TLines) /\ Above(g) = P /\ Below(g) = SubSeq(s, n + 1, Len(s))
      <3>1. P \in Seq(TLines)
        BY <1>3, <2>1
      <3> QED BY <1>3, <2>1, <3>1 DEF Above, Below, s
    <2>3. Above(f) = Append(P, h)
      <3>1. Above(f) = SubSeq(R, 1, n)
        BY <1>18 DEF Above
      <3>2. SubSeq(R, 1, n) = Append(SubSeq(R, 1, n - 1), R[n])
        <4>1. n \in 1 .. Len(R)
          BY <1>3, <1>4, <1>9
        <4> QED BY <1>9, <4>1
      <3> DEFINE m == n - 1
      <3>3. m \in 1 - 1 .. Len(R) /\ m \in 1 - 1 .. Len(s) /\ 1 \in 1 .. Len(R) + 1 /\ 1 \in 1 .. Len(s) + 1
            /\ m = m - 1 + 1
        BY <1>3, <1>4, <1>9, <2>1
      <3>4. Alike(R, 1, s, 1, m)
        <4> SUFFICES ASSUME NEW i \in 1 .. m PROVE R[1 + i - 1] = s[1 + i - 1]
          BY DEF Alike
        <4>1. 1 + i - 1 = i /\ i \in 1 .. Len(s) + 1 /\ i # n /\ i # n + 1 /\ i < n
          BY <1>3, <1>4, <2>1
        <4> QED BY <1>11, <4>1
      <3> HIDE DEF m
      <3>5. SubSeq(R, 1, m) = SubSeq(s, 1, m)
        <4>1. m - 1 = m - 1 /\ R \in Seq(TLines) /\ s \in Seq(TLines)
          BY <1>3, <1>9
        <4> QED BY <3>3, <3>4, <4>1, SameParts
      <3> QED BY <1>10, <3>1, <3>2, <3>5 DEF m
    <2>4. Below(f) = Below(g)
      <3> DEFINE aa == n + 2
                 bb == Len(s) + 1
                 cc == n + 1
                 dd == Len(s)
                 nn == bb - aa + 1
      <3>1. Below(f) = SubSeq(R, aa, bb)
        BY <1>18 DEF Below
      <3>2. Below(g) = SubSeq(s, cc, dd)
        BY <2>2
      <3>3. /\ aa \in 1 .. Len(R) + 1 /\ bb \in aa - 1 .. Len(R) /\ cc \in 1 .. Len(s) + 1 /\ dd \in cc - 1 .. Len(s)
            /\ bb - aa = dd - cc
        <4> DEFINE k == Len(s)
        <4>1. k \in Nat /\ n \in Nat /\ n <= k /\ Len(R) = k + 1
          BY <1>3, <1>4, <1>9
        <4> HIDE DEF k
        <4>2. /\ n + 2 \in 1 .. (k + 1) + 1 /\ k + 1 \in (n + 2) - 1 .. k + 1 /\ n + 1 \in 1 .. k + 1 /\ k \in (n + 1) - 1 .. k
              /\ (k + 1) - (n + 2) = k - (n + 1)
          BY <4>1
        <4> QED BY <4>1, <4>2 DEF k
      <3>4. Alike(R, aa, s, cc, nn)
        <4> SUFFICES ASSUME NEW i \in 1 .. bb - aa + 1 PROVE R[aa + i - 1] = s[cc + i - 1]
          BY DEF Alike
        <4> DEFINE j == aa + i - 1
        <4>1. j \in 1 .. Len(s) + 1 /\ j # n /\ j # n + 1 /\ ~(j < n) /\ j - 1 = cc + i - 1
          <5> DEFINE k == Len(s)
          <5>1. k \in Nat /\ n \in Nat /\ n <= k /\ n > 0
            BY <1>3, <1>4
          <5>2. i \in 1 .. (k + 1) - (n + 2) + 1
            OBVIOUS
          <5> HIDE DEF k
          <5>3. /\ (n + 2) + i - 1 \in 1 .. k + 1 /\ (n + 2) + i - 1 # n /\ (n + 2) + i - 1 # n + 1 /\ ~((n + 2) + i - 1 < n)
                /\ ((n + 2) + i - 1) - 1 = (n + 1) + i - 1
            BY <5>1, <5>2
          <5> QED BY <5>3 DEF k
        <4> HIDE DEF j
        <4>2. R[j] = s[j - 1]
          BY <1>11, <4>1
        <4> QED BY <4>1, <4>2 DEF j
      <3>4a. nn = bb - aa + 1
        OBVIOUS
      <3> HIDE DEF aa, bb, cc, dd, nn
      <3>5. SubSeq(R, aa, bb) = SubSeq(s, cc, dd)
        <4>1. s \in Seq(TLines) /\ R \in Seq(TLines)
          BY <1>3, <1>9
        <4> QED BY <3>3, <3>4, <3>4a, <4>1, SameParts, SMTT(30)
      <3> QED BY <3>1, <3>2, <3>5
    <2>5. /\ Before(g) = TextOf(P) \o UpTo(cur, g.x)
          /\ After(g) = From(cur, g.x) \o Rest(TextOf(Below(g)))
      BY <1>1, <1>3, <2>2, SidesAre
    <2>6. /\ Before(f) = TextOf(Append(P, h)) \o UpTo(t, 0)
          /\ After(f) = From(t, 0) \o Rest(TextOf(Below(g)))
      <3>1. Size(f) # 0
        BY <1>3, <1>18
      <3> QED BY <1>18, <2>3, <2>4, <3>1, SidesAre
    <2>7. After(f) = After(g)
      <3>1. From(t, 0) = CharsIn(t)
        BY <1>7, Whole
      <3> QED BY <1>7, <2>5, <2>6, <3>1
    <2> HIDE DEF P
    <2>8. /\ TextOf(Append(P, h)) = p \o (c \o LF) /\ p \in Seq(Letters)
          /\ c \in Seq(Letters) /\ c \o LF \in Seq(Letters) /\ LF \in Seq(Letters)
      BY <1>7, <2>2, TextMore, PieceIs DEF Piece
    <2>9. Before(f) = p \o (c \o LF)
      <3>1. UpTo(t, 0) = <<>>
        BY <1>7, Whole
      <3>2. p \o (c \o LF) \in Seq(Letters)
        BY <2>8, ConcatProperties
      <3>3. (p \o (c \o LF)) \o <<>> = p \o (c \o LF)
        BY <3>2, ConcatEmptySeq
      <3> QED BY <2>6, <2>8, <3>1, <3>3
    <2>10. Before(g) = p \o c
      BY <1>7, <2>5
    <2> HIDE DEF p, c
    <2>11. p \o (c \o LF) = (p \o c) \o LF /\ p \o c \in Seq(Letters)
      <3>1. Grouped(p, c, LF)
        BY <2>8, Regroup
      <3> QED BY <2>8, <3>1, ConcatProperties DEF Grouped
    <2> DEFINE u == p \o c
    <2>12. LineFeed \in Letters
      BY DEF Letters
    <2> HIDE DEF u
    <2>13. u \o LF = Append(u, LineFeed)
      <3>1. u \in Seq(Letters)
        BY <2>11 DEF u
      <3> QED BY <2>12, <3>1
    <2> QED BY <2>7, <2>9, <2>10, <2>11, <2>13 DEF u
  <1> QED
    <2>1. Before(g) = Before(e) /\ After(g) = After(e)
      BY <1>0, GotText
    <2> QED BY <1>2, <1>18, <1>19, <1>20, <1>21, <2>1 DEF SplitIn

-----------------------------------------------------------------------------
(* A text that is loaded.                                                  *)

\* The lines that have their terminator.
ClosedLines == {l \in TLines : Closed(l)}

\* A text of such lines as it is loaded, with the line that comes next.
Texts(L) == {x \in [data : Seq(L), i : Nat] : x.i = Len(x.data) \/ x.i + 1 = Len(x.data)}

\* insert at the end of a line keeps it closed, and without tabs.
LEMMA ClosedInsert ==
  ASSUME NEW l \in ClosedLines, NEW c \in Printed
  PROVE  /\ insert(l, c, l.len) \in ClosedLines
         /\ c \in Keyed /\ Plain(l) => Plain(insert(l, c, l.len))
  <1>1. l \in TLines /\ Closed(l)
    BY DEF ClosedLines
  <1>2. l.len \in 0 .. l.len
    BY <1>1, LineIs
  <1>3. InsertedIn(insert(l, c, l.len), l, c, l.len)
    BY <1>1, <1>2, InsertIs
  <1>4. c \in Keyed /\ Plain(l) => Plain(insert(l, c, l.len))
    BY <1>1, <1>2, <1>3, PlainInserted
  <1> QED BY <1>1, <1>3, <1>4 DEF InsertedIn, ClosedLines

\* A tab is at least one blank.
LEMMA StopIs ==
  ASSUME NEW x \in Nat
  PROVE  TabEnd(x) - x \in Nat \ {0}
  <1>1. TabStop \in Nat \ {0}
    BY ScreenAssumption
  <1> DEFINE q == x \div TabStop
             r == x % TabStop
             k == q * TabStop
  <1>2. x = k + r /\ r \in 0 .. TabStop - 1 /\ q \in Nat
    BY <1>1, Quotient
  <1>3. (q + 1) * TabStop = k + TabStop /\ k \in Int
    <2> HIDE DEF q
    <2> QED BY <1>1, <1>2
  <1> HIDE DEF q, k, r
  <1>4. TabEnd(x) = k + TabStop
    BY <1>3 DEF TabEnd, q
  <1> QED BY <1>1, <1>2, <1>3, <1>4

\* A tab that is loaded becomes tabs up to the next stop.
LEMMA TabsIs ==
  ASSUME NEW l \in ClosedLines
  PROVE  Tabs(l) \in ClosedLines
  <1> DEFINE n == TabEnd(l.len) - l.len
             s == [i \in 1 .. n |-> i]
  <1>1. n \in Nat
    <2>1. l.len \in Nat
      BY LineIs DEF ClosedLines
    <2> QED BY <2>1, StopIs
  <1> HIDE DEF n
  <1>2. s \in Seq(Nat) /\ Len(s) = n
    BY <1>1
  <1>3. \A z \in ClosedLines, a \in Nat : TabAgain(z, a) \in ClosedLines
    <2>1. Tab \in Printed
      BY DEF Printed
    <2> QED BY <2>1, ClosedInsert DEF TabAgain
  <1>4. Tabs(l) = TabbedAll(l, s)
    BY DEF Tabs, TabbedAll, n
  <1> HIDE DEF s
  <1>5. PICK r : Tabbing(r, ClosedLines, l, s)
    BY <1>2, <1>3, TabAgainRuns
  <1> QED BY <1>1, <1>2, <1>4, <1>5 DEF Tabbing

\* Lines of L are made of the characters A.
Loads(L, A) ==
  /\ NewLine \in L
  /\ \A l \in L, c \in A : c # LineFeed /\ c # Tab => insert(l, c, l.len) \in L
  /\ Tab \in A => \A l \in L : Tabs(l) \in L

\* One character of the file more.
LEMMA LoadCharIs ==
  ASSUME NEW L, NEW A, Loads(L, A), NEW x \in Texts(L), NEW c \in A
  PROVE  LoadChar(x, c) \in Texts(L)
  <1> DEFINE d == x.data
             k == x.i
             here == IF k < Len(d) THEN d ELSE Append(d, NewLine)
  <1>1. d \in Seq(L) /\ k \in Nat /\ Len(d) \in Nat /\ (k = Len(d) \/ k + 1 = Len(d))
    BY DEF Texts
  <1>2. NewLine \in L
    BY DEF Loads
  <1>3. here \in Seq(L) /\ Len(here) = k + 1 /\ k + 1 \in 1 .. Len(here)
    <2> HIDE DEF d, k
    <2> QED BY <1>1, <1>2
  <1>4. here[k + 1] \in L
    BY <1>3
  <1> DEFINE put(l) == [data |-> [here EXCEPT ![k + 1] = l], i |-> k]
  <1>5. ASSUME NEW l \in L PROVE put(l) \in Texts(L)
    <2> DEFINE h == [here EXCEPT ![k + 1] = l]
    <2> HIDE DEF here, k
    <2>1. h \in Seq(L) /\ Len(h) = k + 1
      BY <1>3
    <2> HIDE DEF h
    <2>2. [data |-> h, i |-> k] \in Texts(L)
      BY <1>1, <2>1 DEF Texts
    <2> QED BY <2>2 DEF h
  <1>6. Tab # LineFeed
    BY PrintedPlain DEF Printed
  <1>7. CASE c = LineFeed
    <2>1. LoadChar(x, c) = [data |-> here, i |-> k + 1]
      BY <1>6, <1>7 DEF LoadChar
    <2> HIDE DEF here, k
    <2> QED BY <1>1, <1>3, <2>1 DEF Texts
  <1>8. CASE c = Tab
    <2>1. LoadChar(x, c) = put(Tabs(here[k + 1]))
      BY <1>6, <1>8 DEF LoadChar
    <2>2. Tabs(here[k + 1]) \in L
      BY <1>4, <1>8 DEF Loads
    <2> HIDE DEF put
    <2> QED BY <1>5, <2>1, <2>2
  <1>9. CASE c # LineFeed /\ c # Tab
    <2> DEFINE l == here[k + 1]
    <2>1. LoadChar(x, c) = put(insert(l, c, l.len))
      BY <1>9 DEF LoadChar
    <2> HIDE DEF l
    <2>2. insert(l, c, l.len) \in L
      BY <1>4, <1>9 DEF Loads, l
    <2> HIDE DEF put
    <2> QED BY <1>5, <2>1, <2>2
  <1> QED BY <1>7, <1>8, <1>9

\* A file of such characters becomes such lines.
LEMMA LoadedOf ==
  ASSUME NEW L, NEW A, Loads(L, A), NEW file \in Seq(A)
  PROVE  Loaded(file) \in Seq(L)
  <1> DEFINE x == [data |-> <<>>, i |-> 0]
  <1>1. x \in Texts(L)
    BY DEF Texts
  <1>2. \A z \in Texts(L), c \in A : LoadChar(z, c) \in Texts(L)
    BY LoadCharIs
  <1>3. Loaded(file) = LoadedAll(x, file).data
    BY DEF Loaded, LoadedAll
  <1> HIDE DEF x
  <1>4. PICK r : Loading(r, Texts(L), x, file)
    BY <1>1, <1>2, LoadCharRuns
  <1>5. LoadedAll(x, file) \in Texts(L)
    <2>1. Len(file) \in 0 .. Len(file)
      OBVIOUS
    <2> QED BY <1>4, <2>1 DEF Loading
  <1> QED BY <1>3, <1>5 DEF Texts

\* Every line that is loaded ends with its terminator.
LEMMA LoadedIs ==
  ASSUME NEW file \in Seq(FileChars)
  PROVE  /\ Loaded(file) \in Seq(TLines)
         /\ \A n \in 1 .. Len(Loaded(file)) : Closed(Loaded(file)[n])
  <1> DEFINE d == Loaded(file)
  <1>1. Loads(ClosedLines, FileChars)
    <2>1. NewLine \in ClosedLines
      BY NewLineIs DEF ClosedLines
    <2>2. \A c \in FileChars : c # LineFeed => c \in Printed
      BY DEF FileChars, Printed
    <2> QED BY <2>1, <2>2, ClosedInsert, TabsIs DEF Loads
  <1>2. d \in Seq(ClosedLines)
    BY <1>1, LoadedOf
  <1> HIDE DEF d
  <1>3. \A n \in 1 .. Len(d) : d[n] \in TLines /\ Closed(d[n])
    BY <1>2 DEF ClosedLines
  <1>4. d \in Seq(TLines)
    BY <1>2, <1>3
  <1> QED BY <1>3, <1>4 DEF d

\* And has no tab, if the file has none.
LEMMA LoadedPlain ==
  ASSUME NEW file \in Seq(FileChars), Tab \notin Range(file)
  PROVE  \A n \in 1 .. Len(Loaded(file)) : Plain(Loaded(file)[n])
  <1> DEFINE L == {l \in ClosedLines : Plain(l)}
             A == Keyed \cup {LineFeed}
             d == Loaded(file)
  <1>1. Loads(L, A)
    <2>1. NewLine \in L
      BY NewLineIs, NewLineSlim DEF ClosedLines, Slim
    <2>2. Tab \notin A
      <3>1. Tab # LineFeed
        BY PrintedPlain DEF Printed
      <3> QED BY <3>1, KeyedPlain
    <2>3. \A l \in L, c \in A : c # LineFeed => insert(l, c, l.len) \in L
      BY ClosedInsert, KeyedPlain
    <2> HIDE DEF L, A
    <2> QED BY <2>1, <2>2, <2>3 DEF Loads
  <1>2. file \in Seq(A)
    <2>1. \A n \in 1 .. Len(file) : file[n] \in FileChars /\ file[n] # Tab
      BY DEF Range
    <2>2. \A n \in 1 .. Len(file) : file[n] \in A
      BY <2>1 DEF FileChars, Keyed
    <2> HIDE DEF A
    <2> QED BY <2>2
  <1> HIDE DEF A
  <1>3. d \in Seq(L)
    <2> HIDE DEF L
    <2> QED BY <1>1, <1>2, LoadedOf
  <1> HIDE DEF d
  <1>4. \A n \in 1 .. Len(d) : d[n] \in L
    <2> HIDE DEF L
    <2> QED BY <1>3
  <1> QED BY <1>4 DEF d

-----------------------------------------------------------------------------
(* The screen with the menu's row.                                         *)

\* f is e drawn otherwise, in the last row or nowhere.
Shaded(f, e) ==
  /\ f = [e EXCEPT !.scr = f.scr] /\ f.scr \in Screens
  /\ \A i \in 0 .. YMax - 1 : Row(f.scr, i) = Row(e.scr, i)

\* What the menu leaves of the text.
Uncovered(e) == \A i \in 0 .. e.y_max : i # YMax => Row(e.scr, i) = RowText(e, i)

\* What is drawn in the last row changes neither the text nor the other rows.
LEMMA ShadedIs ==
  ASSUME NEW e, Sound(e), NEW f, Shaded(f, e)
  PROVE  /\ Sound(f) /\ f.data = e.data /\ f.x = e.x /\ f.y = e.y /\ f.view_y = e.view_y /\ f.y_max = e.y_max
         /\ Before(f) = Before(e) /\ After(f) = After(e)
         /\ AllClosed(e) => AllClosed(f)
         /\ Narrow(e) => Narrow(f)
         /\ Uncovered(e) => Uncovered(f)
         /\ Rendered(e) /\ e.y_max < YMax => Rendered(f)
  <1>1. e \in Editors /\ e.y_max <= YMax /\ e.y_max \in Nat /\ YMax \in Nat
    BY SoundIs, EditorIs, Sizes
  <1>3. /\ f \in Editors /\ f.data = e.data /\ f.x = e.x /\ f.y = e.y /\ f.view_y = e.view_y /\ f.y_max = e.y_max
    BY <1>1 DEF Shaded, Editors
  <1>4. /\ Size(f) = Size(e) /\ Rows(f) = Rows(e) /\ (\A n : LineAt(f, n) = LineAt(e, n))
        /\ (\A i : RowText(f, i) = RowText(e, i))
        /\ Narrow(f) <=> Narrow(e)
    BY <1>1, <1>3, SameWindow
  <1>5. Row0(f) = Row0(e) /\ CursorLine(f) = CursorLine(e)
    BY <1>3, <1>4 DEF Row0, CursorLine
  <1>6. Sound(f)
    BY <1>3, <1>4, <1>5 DEF Sound
  <1>7. Before(f) = Before(e) /\ After(f) = After(e)
    BY <1>3, <1>4, <1>5 DEF Before, After, Lines
  <1>8. AllClosed(e) => AllClosed(f)
    BY <1>3, <1>4 DEF AllClosed
  <1>9. \A i \in 0 .. e.y_max : i # YMax => Row(f.scr, i) = Row(e.scr, i)
    BY <1>1 DEF Shaded
  <1>10. Uncovered(e) => Uncovered(f)
    BY <1>3, <1>4, <1>9 DEF Uncovered
  <1>11. Rendered(e) /\ e.y_max < YMax => Rendered(f)
    <2>1. \A i \in 0 .. e.y_max : e.y_max < YMax => i # YMax
      BY <1>1
    <2> QED BY <1>3, <1>4, <1>9, <2>1 DEF Rendered
  <1> QED BY <1>3, <1>4, <1>6, <1>7, <1>8, <1>10, <1>11

\* A text that is drawn is also where the menu is not.
LEMMA RenderedUncovered ==
  ASSUME NEW e, Rendered(e)
  PROVE  Uncovered(e)
  BY DEF Rendered, Uncovered

\* Text whose window ends above the menu is drawn in full.
LEMMA UncoveredRendered ==
  ASSUME NEW e, Sound(e), Uncovered(e), e.y_max < YMax
  PROVE  Rendered(e)
  <1>1. e.y_max \in Nat /\ YMax \in Nat
    BY SoundIs, EditorIs, Sizes
  <1> QED BY <1>1 DEF Rendered, Uncovered

\* The bar of the menu is in the last row.
LEMMA BarIs ==
  ASSUME NEW e, Sound(e)
  PROVE  Shaded([e EXCEPT !.scr = fill_line_multi(@, YMax, YLen, Bar)], e)
  <1> DEFINE z == fill_line_multi(e.scr, YMax, YLen, Bar)
             f == [e EXCEPT !.scr = z]
  <1>1. e \in Editors /\ e.scr \in Screens
    BY SoundIs, EditorIs
  <1>2. Bar \in Inks /\ YMax \in Int /\ YLen \in Int
    BY Sizes DEF Inks
  <1>3. FilledIs(z, e.scr, YMax, YLen, Bar)
    BY <1>1, <1>2, Filled
  <1> HIDE DEF z
  <1>4. z \in Screens /\ \A i \in 0 .. YMax - 1 : Row(z, i) = Row(e.scr, i)
    <2>1. \A i \in 0 .. YMax - 1 : i \in 0 .. YMax /\ ~(i \in YMax .. YLen - 1)
      BY <1>2, Sizes
    <2> QED BY <1>3, <2>1 DEF FilledIs
  <1>5. f.scr = z
    BY <1>1 DEF Editors
  <1>6. Shaded(f, e)
    BY <1>4, <1>5 DEF Shaded
  <1>7. [e EXCEPT !.scr = fill_line_multi(@, YMax, YLen, Bar)] = f
    BY DEF z
  <1> QED BY <1>6, <1>7

\* And what is written over it.
LEMMA ShadedMore ==
  ASSUME NEW e, Sound(e), NEW d, Shaded(d, e), NEW z \in Screens,
         \A i \in 0 .. YMax : Row(z, i) = Row(d.scr, i)
  PROVE  Shaded([d EXCEPT !.scr = z], e)
  <1> DEFINE f == [d EXCEPT !.scr = z]
  <1>1. d \in Editors
    BY ShadedIs DEF Sound
  <1>2. f.scr = z
    BY <1>1 DEF Editors
  <1>3. f = [e EXCEPT !.scr = z]
    <2>1. e \in Editors /\ d = [e EXCEPT !.scr = d.scr]
      BY SoundIs DEF Shaded
    <2> DEFINE y == d.scr
    <2>2. d = [e EXCEPT !.scr = y]
      BY <2>1
    <2> HIDE DEF y
    <2> QED BY <2>1, <2>2 DEF Editors
  <1>4. \A i \in 0 .. YMax - 1 : Row(z, i) = Row(e.scr, i)
    <2>1. \A i \in 0 .. YMax - 1 : i \in 0 .. YMax
      BY Sizes
    <2> QED BY <2>1 DEF Shaded
  <1> HIDE DEF f
  <1>5. Shaded(f, e)
    BY <1>2, <1>3, <1>4 DEF Shaded
  <1> QED BY <1>5 DEF f

\* DrawMenu; without a question the cursor is back in the text.
LEMMA DrawMenuIs ==
  ASSUME NEW e, Sound(e), NEW focused, NEW st
  PROVE  /\ Shaded(DrawMenu(e, focused, st), e)
         /\ Narrow(e) /\ ~(focused /\ st # "none") => Pointed(DrawMenu(e, focused, st))
  <1> DEFINE b == [e EXCEPT !.scr = fill_line_multi(@, YMax, YLen, Bar)]
  <1>1. Shaded(b, e)
    BY BarIs
  <1> HIDE DEF b
  <1>2. /\ Sound(b) /\ b \in Editors /\ b.scr \in Screens /\ b.x = e.x /\ b.y = e.y
        /\ Narrow(e) => Narrow(b)
    BY <1>1, ShadedIs, SoundIs, EditorIs
  <1>3. CASE focused /\ st # "none"
    <2> DEFINE z == Move(b.scr, XMax, YMax)
    <2>1. DrawMenu(e, focused, st) = [b EXCEPT !.scr = z]
      BY <1>3 DEF DrawMenu, b
    <2>2. z \in Screens /\ z.cells = b.scr.cells
      <3>1. b.scr = Scr(b.scr.cells, b.scr.x, b.scr.y) /\ b.scr.cells \in Pages
        BY <1>2, ScreenIs
      <3>2. XMax \in Int /\ YMax \in Int
        BY Sizes
      <3> DEFINE c == b.scr.cells
                 x == b.scr.x
                 y == b.scr.y
      <3>3. b.scr = Scr(c, x, y) /\ c \in Pages
        BY <3>1
      <3> HIDE DEF c, x, y
      <3>4. Move(Scr(c, x, y), XMax, YMax) \in Screens /\ Move(Scr(c, x, y), XMax, YMax).cells = c
        BY <3>2, <3>3, MoveAny
      <3> QED BY <3>3, <3>4 DEF c
    <2> HIDE DEF z
    <2>3. \A i \in 0 .. YMax : Row(z, i) = Row(b.scr, i)
      BY <2>2 DEF Row
    <2>4. Shaded([b EXCEPT !.scr = z], e)
      BY <1>1, <2>2, <2>3, ShadedMore
    <2> QED BY <1>3, <2>1, <2>4
  <1>4. CASE ~(focused /\ st # "none")
    <2> DEFINE f == ShowCursor(b)
    <2>1. DrawMenu(e, focused, st) = f
      BY <1>4 DEF DrawMenu, b
    <2>2. Redone(f, b) /\ \A i \in 0 .. YMax : Row(f.scr, i) = Row(b.scr, i)
      BY <1>2, ShowCursorIs
    <2> HIDE DEF f
    <2>3. f = [b EXCEPT !.scr = f.scr] /\ f.scr \in Screens
      BY <2>2 DEF Redone
    <2> DEFINE z == f.scr
    <2>4. f = [b EXCEPT !.scr = z] /\ z \in Screens /\ \A i \in 0 .. YMax : Row(z, i) = Row(b.scr, i)
      BY <2>2, <2>3
    <2> HIDE DEF z
    <2>5. Shaded([b EXCEPT !.scr = z], e)
      BY <1>1, <2>4, ShadedMore
    <2>6. Narrow(e) => Pointed(f)
      BY <1>2, <2>2, RedoneIs
    <2> QED BY <2>1, <2>4, <2>5, <2>6
  <1> QED BY <1>3, <1>4

\* f has e's text, and the cursor in the same place of it.
Kept(f, e) ==
  /\ Sound(f) /\ f.data = e.data /\ f.y_max = e.y_max
  /\ Before(f) = Before(e) /\ After(f) = After(e)

\* What the user sees while the menu is closed.
Clean(e) == Narrow(e) /\ Rendered(e) /\ Pointed(e)

\* The sides of the cursor are the text's and the cursor's.
LEMMA SameEnds ==
  ASSUME NEW e, NEW f, f.data = e.data, f.x = e.x, f.y = e.y, f.view_y = e.view_y
  PROVE  Before(f) = Before(e) /\ After(f) = After(e)
  BY DEF Before, After, Lines, Size, Row0, CursorLine, LineAt

\* The menu's row is not part of the text.
LEMMA ShadedKept ==
  ASSUME NEW e, Sound(e), NEW f, Shaded(f, e)
  PROVE  Kept(f, e)
  BY ShadedIs DEF Kept

\* The screen after a key for the text, and after one that leaves the menu open.
LEMMA ShowText ==
  ASSUME NEW e, Sound(e), NEW st, NEW full, e.y_max = YMax => full
  PROVE  /\ Kept(Show(e, FALSE, st, full), e)
         /\ Clean(e) => Clean(Show(e, FALSE, st, full))
  <1> DEFINE f == DrawMenu(e, FALSE, st)
  <1>1. Shaded(f, e) /\ (Narrow(e) => Pointed(f))
    BY DrawMenuIs
  <1> HIDE DEF f
  <1>2. CASE full
    <2>1. Show(e, FALSE, st, full) = e
      BY <1>2 DEF Show
    <2> QED BY <2>1 DEF Kept
  <1>3. CASE ~full
    <2>1. Show(e, FALSE, st, full) = f
      BY <1>3 DEF Show, f
    <2>2. e.y_max < YMax
      <3>1. e.y_max <= YMax /\ e.y_max \in Nat /\ YMax \in Nat
        BY SoundIs, EditorIs, Sizes
      <3> QED BY <1>3, <3>1
    <2> QED BY <1>1, <2>1, <2>2, ShadedIs, ShadedKept DEF Clean
  <1> QED BY <1>2, <1>3

\* The menu over the text.
LEMMA ShowMenu ==
  ASSUME NEW e, Sound(e), NEW st, NEW full
  PROVE  /\ Kept(Show(e, TRUE, st, full), e)
         /\ Narrow(e) => Narrow(Show(e, TRUE, st, full))
         /\ Uncovered(e) => Uncovered(Show(e, TRUE, st, full))
  <1> DEFINE f == DrawMenu(e, TRUE, st)
  <1>1. Shaded(f, e)
    BY DrawMenuIs
  <1>2. Show(e, TRUE, st, full) = f
    BY DEF Show
  <1> HIDE DEF f
  <1> QED BY <1>1, <1>2, ShadedIs, ShadedKept

\* The menu is closed.
LEMMA ShowClosed ==
  ASSUME NEW e, Sound(e), NEW full, e.y_max = YMax => full
  PROVE  LET f == Show(IF full THEN redraw_full(e) ELSE e, FALSE, "none", full)
         IN  Kept(f, e) /\ (Narrow(e) /\ Uncovered(e) => Clean(f))
  <1>0. e \in Editors /\ e.y_max <= YMax /\ e.y_max \in Nat /\ YMax \in Nat
    BY SoundIs, EditorIs, Sizes
  <1>1. CASE full
    <2> DEFINE f == redraw_full(e)
    <2>1. Show(f, FALSE, "none", full) = f
      BY <1>1 DEF Show
    <2>2. MovedTo(f, e) /\ (Narrow(e) => Rendered(f))
      BY <1>0, ScrolledMoved
    <2>3. Redone(f, e)
      BY <1>0, RedrawFullIs
    <2> HIDE DEF f
    <2>4. Before(f) = Before(e) /\ After(f) = After(e) /\ (Narrow(e) => Narrow(f))
      BY <1>0, <2>3, RedoneIs, SameEnds
    <2>5. Kept(f, e) /\ (Narrow(e) /\ Uncovered(e) => Clean(f))
      BY <2>2, <2>4 DEF Kept, Clean, MovedTo
    <2>6. (IF full THEN redraw_full(e) ELSE e) = f
      BY <1>1 DEF f
    <2> QED BY <2>1, <2>5, <2>6
  <1>2. CASE ~full
    <2> DEFINE f == DrawMenu(e, FALSE, "none")
    <2>1. Show(e, FALSE, "none", full) = f
      BY <1>2 DEF Show
    <2>2. Shaded(f, e) /\ (Narrow(e) => Pointed(f))
      BY DrawMenuIs
    <2> HIDE DEF f
    <2>3. e.y_max < YMax
      BY <1>0, <1>2
    <2>4. Uncovered(e) => Rendered(e)
      BY <2>3, UncoveredRendered
    <2>5. Kept(f, e) /\ (Narrow(e) /\ Uncovered(e) => Clean(f))
      BY <2>2, <2>3, <2>4, ShadedIs, ShadedKept DEF Clean
    <2>6. (IF full THEN redraw_full(e) ELSE e) = e
      BY <1>2
    <2> QED BY <2>1, <2>5, <2>6
  <1> QED BY <1>1, <1>2

\* The menu's row is given to the text, or taken back.
LEMMA SetOffsetIs ==
  ASSUME NEW e, Sound(e), e.y_max \in {YMax - 1, YMax}, NEW off \in {0, 1}
  PROVE  /\ Sound(set_offset(e, off)) /\ set_offset(e, off).data = e.data
         /\ set_offset(e, off).y_max = YMax - off
         /\ Narrow(e) => Narrow(set_offset(e, off))
         /\ Narrow(e) /\ Uncovered(e) => Uncovered(set_offset(e, off))
  <1> DEFINE m == YMax - off
             d == [e EXCEPT !.y_max = m]
  <1>0. YMax \in Nat /\ YMax > 0
    BY Sizes, TEditAssumption
  <1>1. /\ e \in Editors /\ e.y_max <= YMax /\ e.y <= e.y_max /\ e.y_max \in Nat /\ e.y \in Nat
        /\ Row0(e) \in Nat /\ Size(e) \in Nat
    BY SoundIs, EditorIs
  <1>2. m \in Nat /\ m <= YMax /\ m \in {YMax - 1, YMax} /\ (m = YMax - 1 \/ off = 0)
    BY <1>0
  <1> HIDE DEF m
  <1>3. /\ d \in Editors /\ d.data = e.data /\ d.x = e.x /\ d.y = e.y /\ d.view_y = e.view_y /\ d.y_max = m
        /\ d.scr = e.scr
    BY <1>1, <1>2 DEF Editors
  <1>4. set_offset(e, off) = IF e.y = m + 1 THEN y_minus(d) ELSE d
    BY <1>3 DEF set_offset, m
  <1> HIDE DEF d
  <1>5. Size(d) = Size(e) /\ Row0(d) = Row0(e) /\ CursorLine(d) = CursorLine(e)
        /\ (Narrow(d) <=> Narrow(e))
    BY <1>3 DEF Size, Row0, CursorLine, LineAt, Narrow
  <1>6. Uncovered(e) => Uncovered(d)
    <2> SUFFICES ASSUME Uncovered(e), NEW i \in 0 .. m, i # YMax PROVE Row(d.scr, i) = RowText(d, i)
      BY <1>3 DEF Uncovered
    <2>1. i \in 0 .. e.y_max
      BY <1>0, <1>1, <1>2
    <2>2. i \in Rows(d) <=> i \in Rows(e)
      BY <1>3, <1>5, <2>1 DEF Rows
    <2>3. RowText(d, i) = RowText(e, i)
      BY <1>3, <2>2 DEF RowText, LineAt
    <2> QED BY <1>3, <2>1, <2>3 DEF Uncovered
  <1>7. CASE e.y = m + 1
    <2>1. d.y_max = YMax - 1 /\ m = YMax - 1 /\ d.y > 0 /\ d.y - 1 <= d.y_max /\ d.y_max <= YMax /\ d.y_max < YMax
      BY <1>0, <1>1, <1>2, <1>3, <1>7
    <2>2. Row0(d) - 1 < Size(d)
      <3>1. Size(e) # 0
        BY <1>1, <1>3, <2>1, SoundIs
      <3>2. Row0(e) < Size(e)
        BY <3>1, SoundIs
      <3> QED BY <1>1, <1>5, <3>2
    <2>3. MovedTo(y_minus(d), d)
      BY <1>3, <2>1, <2>2, YMinusAbove
    <2> DEFINE f == y_minus(d)
    <2>4. Sound(f) /\ f.data = d.data /\ f.y_max = d.y_max /\ (Narrow(d) /\ Rendered(d) => Rendered(f))
      BY <2>3 DEF MovedTo
    <2> HIDE DEF f
    <2>5. Narrow(d) => Narrow(f)
      BY <2>4 DEF Narrow, Size
    <2>6. Uncovered(d) => Rendered(d)
      <3>1. \A i \in 0 .. d.y_max : i # YMax
        BY <1>0, <2>1
      <3> QED BY <3>1 DEF Rendered, Uncovered
    <2>7. set_offset(e, off) = f
      BY <1>4, <1>7 DEF f
    <2> QED BY <1>3, <1>5, <1>6, <2>1, <2>4, <2>5, <2>6, <2>7, RenderedUncovered DEF m
  <1>8. CASE e.y # m + 1
    <2>1. d.y <= d.y_max /\ d.y_max <= YMax
      BY <1>0, <1>1, <1>2, <1>3, <1>8
    <2>2. Sound(d)
      BY <1>3, <1>5, <2>1 DEF Sound
    <2> QED BY <1>3, <1>4, <1>5, <1>6, <1>8, <2>2 DEF m
  <1> QED BY <1>7, <1>8

\* The empty screen is one.
LEMMA ClearIs == clear \in Screens
  <1>1. Empty \in Pages
    BY DEF Empty, Pages, Inks, Printed
  <1>2. 0 \in 0 .. XMax /\ 0 \in 0 .. YMax
    BY Sizes
  <1>3. clear = Scr(Empty, 0, 0)
    BY DEF clear, Scr
  <1> QED BY <1>1, <1>2, <1>3, IsScreen

\* A session that starts with f.
SessionOf(f, tabs) ==
  /\ Sound(f) /\ f.y_max = YMax - 1 /\ AllClosed(f)
  /\ NarrowFiles /\ ~tabs => Clean(f)
  /\ Before(f) = <<>>

\* A session that starts: its text is loaded, its cursor at the start, its window drawn.
LEMMA SessionIs ==
  ASSUME TextFiles, NEW file \in Files
  PROVE  SessionOf(Session(file), Tab \in Range(file))
  <1> DEFINE d == Loaded(file)
             m == YMax - 1
             e == [data |-> d, x |-> 0, y |-> 0, lpos |-> 0, view_y |-> 0, y_max |-> m, scr |-> clear]
             r == redraw_full(e)
             f == DrawMenu(r, FALSE, "none")
             neat == NarrowFiles /\ Tab \notin Range(file)
  <1>1. d \in Seq(TLines) /\ \A n \in 1 .. Len(d) : Closed(d[n])
    <2>1. file \in Seq(FileChars)
      BY DEF TextFiles
    <2> QED BY <2>1, LoadedIs
  <1>2. neat => \A n \in 1 .. Len(d) : Slim(d[n])
    <2> SUFFICES ASSUME neat PROVE \A n \in 1 .. Len(d) : Slim(d[n])
      OBVIOUS
    <2>1. \A n \in 1 .. Len(d) : d[n].len <= XMax
      BY DEF NarrowFiles
    <2>2. file \in Seq(FileChars)
      BY DEF TextFiles
    <2>3. \A n \in 1 .. Len(d) : Plain(d[n])
      BY <2>2, LoadedPlain
    <2> HIDE DEF d
    <2> QED BY <2>1, <2>3 DEF Slim
  <1>3. m \in Nat /\ m <= YMax /\ m < YMax /\ YMax \in Nat
    BY Sizes, TEditAssumption
  <1>4. Session(file) = f
    BY DEF Session, Opened
  <1> HIDE DEF d, m, r, f, neat
  <1>5. e \in Editors
    BY <1>1, <1>3, ClearIs DEF Editors
  <1>6. /\ e.data = d /\ e.x = 0 /\ e.y = 0 /\ e.view_y = 0 /\ e.y_max = m
    OBVIOUS
  <1> HIDE DEF e
  <1>7. Size(e) = Len(d) /\ Len(d) \in Nat /\ Row0(e) = 0
    BY <1>1, <1>6 DEF Size, Row0
  <1>8. Sound(e)
    <2>1. ASSUME Size(e) # 0 PROVE Row0(e) < Size(e) /\ e.x <= CursorLine(e).len
      <3>1. 0 < Size(e) /\ 0 \in Nat
        BY <1>7, <2>1
      <3>2. LineAt(e, 0).len \in Nat
        BY <1>5, <3>1, LineAtIs
      <3> QED BY <1>6, <1>7, <3>1, <3>2 DEF CursorLine
    <2> QED BY <1>3, <1>5, <1>6, <2>1 DEF Sound
  <1>9. AllClosed(e) /\ (neat => Narrow(e))
    BY <1>1, <1>2, <1>6, <1>7 DEF AllClosed, Narrow
  <1>10. MovedTo(r, e) /\ (Narrow(e) => Rendered(r)) /\ Redone(r, e)
    <2>1. e.y_max <= YMax
      BY <1>3, <1>6
    <2> QED BY <1>5, <1>8, <2>1, ScrolledMoved, RedrawFullIs DEF r
  <1>11. /\ Sound(r) /\ r.data = d /\ r.x = 0 /\ r.y_max = m /\ Row0(r) = 0
         /\ AllClosed(r) /\ (neat => Clean(r))
    <2>1. Sound(r) /\ r.data = e.data /\ r.y_max = e.y_max /\ (Narrow(e) => Pointed(r))
      BY <1>10 DEF MovedTo
    <2>2. r.x = e.x /\ Row0(r) = Row0(e) /\ Size(r) = Size(e) /\ (Narrow(e) => Narrow(r))
      BY <1>5, <1>10, RedoneIs
    <2>3. AllClosed(r)
      BY <1>9, <2>1, <2>2 DEF AllClosed
    <2> QED BY <1>6, <1>7, <1>9, <1>10, <2>1, <2>2, <2>3 DEF Clean
  <1>12. Before(r) = <<>>
    <2>1. CASE Size(r) = 0
      BY <2>1 DEF Before
    <2>2. CASE Size(r) # 0
      <3>1. /\ Before(r) = TextOf(Above(r)) \o UpTo(CursorLine(r), 0)
            /\ CursorLine(r) \in TLines
        BY <1>11, <2>2, SidesAre
      <3>2. Above(r) = <<>>
        <4>1. Above(r) = SubSeq(d, 1, 0)
          BY <1>11 DEF Above
        <4> QED BY <1>1, <4>1
      <3>3. UpTo(CursorLine(r), 0) = <<>>
        BY <3>1, Whole
      <3>4. TextOf(<<>>) = <<>>
        BY <1>1, NewLineIs, TextMore
      <3> QED BY <3>1, <3>2, <3>3, <3>4
    <2> QED BY <2>1, <2>2
  <1>13. Shaded(f, r) /\ (Narrow(r) => Pointed(f))
    BY <1>11, DrawMenuIs DEF f
  <1> QED BY <1>3, <1>4, <1>11, <1>12, <1>13, ShadedIs DEF SessionOf, Clean, m, neat

-----------------------------------------------------------------------------
(* A key for the text, before the menu is drawn.                           *)

\* joins: two lines become one.  fits: the line has room on the screen.
Changed(f, e, joins, fits) ==
  /\ Sound(f) /\ f.y_max = e.y_max
  /\ AllClosed(e) /\ ~joins => AllClosed(f)
  /\ Clean(e) /\ fits => Clean(f)

\* A key that moves the cursor.
LEMMA MovedEdited ==
  ASSUME NEW e, Sound(e), NEW f, MovedTo(f, e)
  PROVE  Changed(f, e, FALSE, TRUE) /\ f.data = e.data
  <1>1. Size(f) = Size(e)
    BY DEF MovedTo, Size
  <1> QED BY <1>1 DEF MovedTo, Changed, AllClosed, Clean, Narrow

\* A character.
LEMMA WriteEdited ==
  ASSUME NEW e, Sound(e), NEW c \in Keyed
  PROVE  Changed(write(e, c), e, FALSE, LenHere(e) + 1 <= XMax)
  <1>1. WrittenIn(write(e, c), e, Got(e, Row0(e)), c)
    BY WriteIs
  <1> QED BY <1>1 DEF WrittenIn, Changed, Clean

\* A tab.
LEMMA TabEdited ==
  ASSUME NEW e, Sound(e), NEW n \in Nat
  PROVE  Changed(FoldLeft(BlankAgain, e, [i \in 1 .. n |-> i]), e, FALSE, LenHere(e) + n <= XMax)
  <1> DEFINE f == FoldLeft(BlankAgain, e, [i \in 1 .. n |-> i])
  <1>1. TabbedIn(f, e, n)
    BY TabIs
  <1> HIDE DEF f
  <1>2. Changed(f, e, FALSE, LenHere(e) + n <= XMax)
    BY <1>1 DEF TabbedIn, Changed, Clean
  <1> QED BY <1>2 DEF f

\* The end of a line.
LEMMA SplitEdited ==
  ASSUME NEW e, Sound(e)
  PROVE  Changed(newline_key(e), e, FALSE, TRUE)
  <1>1. SplitIn(newline_key(e), e)
    BY SplitIs
  <1> QED BY <1>1 DEF SplitIn, Changed, Clean

\* A key that deletes: in the line, at its start, at the start of the text.
LEMMA EraseEdited ==
  ASSUME NEW e, Sound(e)
  PROVE  /\ Changed(erase_key(e), e, e.x = 0 /\ e.y > 0 /\ Row0(e) < Size(e),
                   e.x = 0 /\ e.y > 0 /\ Row0(e) < Size(e) =>
                     LineAt(e, Row0(e) - 1).len + LenHere(e) <= XMax)
         /\ e.x = 0 /\ e.y = 0 => erase_key(e) = e
  <1>0. e.x \in Nat /\ e.y \in Nat /\ Row0(e) \in Nat /\ Size(e) \in Nat
    BY SoundIs, EditorIs
  <1> DEFINE f == erase_key(e)
  <1>1. CASE e.x > 0
    <2>1. ErasedIn1(f, e)
      BY <1>1, EraseHere
    <2> HIDE DEF f
    <2>2. e.x # 0
      BY <1>0, <1>1
    <2>3. Changed(f, e, e.x = 0 /\ e.y > 0 /\ Row0(e) < Size(e),
                 e.x = 0 /\ e.y > 0 /\ Row0(e) < Size(e) => LineAt(e, Row0(e) - 1).len + LenHere(e) <= XMax)
      BY <2>1, <2>2 DEF ErasedIn1, Changed, Clean
    <2> QED BY <2>2, <2>3 DEF f
  <1>2. CASE e.x = 0 /\ e.y = 0
    <2>1. f = e
      BY <1>2 DEF erase_key
    <2> QED BY <2>1 DEF Changed
  <1>3. CASE e.x = 0 /\ e.y > 0
    <2>1. JoinedIn(f, e)
      BY <1>3, JoinIs
    <2> HIDE DEF f
    <2>2. Row0(e) < Size(e)
      <3>1. Size(e) # 0
        BY <1>0, <1>3, SoundIs
      <3> QED BY <3>1, SoundIs
    <2>3. e.y # 0
      BY <1>0, <1>3
    <2>4. Changed(f, e, e.x = 0 /\ e.y > 0 /\ Row0(e) < Size(e),
                 e.x = 0 /\ e.y > 0 /\ Row0(e) < Size(e) => LineAt(e, Row0(e) - 1).len + LenHere(e) <= XMax)
      BY <1>3, <2>1, <2>2 DEF JoinedIn, Changed, Clean
    <2> QED BY <2>3, <2>4 DEF f
  <1> QED BY <1>0, <1>1, <1>2, <1>3

\* The menu's row, drawn after the key, leaves what the key made.
LEMMA EditShown ==
  ASSUME NEW e, Sound(e), NEW d, NEW j, NEW fit, Changed(d, e, j, fit),
         NEW st, NEW full, e.y_max = YMax => full
  PROVE  Changed(Show(d, FALSE, st, full), e, j, fit)
  <1> DEFINE f == Show(d, FALSE, st, full)
  <1>1. Sound(d) /\ d.y_max = e.y_max
    BY DEF Changed
  <1>2. Kept(f, d) /\ (Clean(d) => Clean(f))
    BY <1>1, ShowText
  <1> HIDE DEF f
  <1>3. Sound(f) /\ f.y_max = e.y_max
    BY <1>1, <1>2 DEF Kept
  <1>4. AllClosed(d) => AllClosed(f)
    BY <1>2 DEF Kept, AllClosed, Size
  <1>5. Changed(f, e, j, fit)
    BY <1>2, <1>3, <1>4 DEF Changed
  <1> QED BY <1>5 DEF f

-----------------------------------------------------------------------------
(* The invariants of the editor.                                           *)

\* Of the text: the cursor is in it and in the window, the window is the screen
\* with or without the menu's row, and until lines are joined every line has its
\* terminator.
EdInv ==
  /\ Sound(ed) /\ ed.y_max \in {YMax - 1, YMax} /\ (ed.y_max = YMax => fullscreen)
  /\ do_loop \in BOOLEAN /\ in_menu \in BOOLEAN /\ fullscreen \in BOOLEAN /\ joined \in BOOLEAN
  /\ ~joined => AllClosed(ed)

\* Of the screen.
ViewInv ==
  /\ Narrow(ed)
  /\ do_loop /\ ~in_menu => Clean(ed)
  /\ do_loop /\ in_menu => Uncovered(ed)

\* Of the screen, in a session without tabs.
Showing == ~tabbed => ViewInv

\* Both hold of the session that the editor starts with.
LEMMA InitInv ==
  ASSUME TextFiles, EditorInit
  PROVE  EdInv /\ (NarrowFiles => Showing)
  <1>1. PICK f \in Files : ed = Session(f) /\ tabbed = (Tab \in Range(f))
    BY DEF EditorInit
  <1>2. SessionOf(ed, tabbed)
    BY <1>1, SessionIs
  <1>3. YMax - 1 # YMax
    BY Sizes
  <1> QED BY <1>2, <1>3 DEF SessionOf, EdInv, ViewInv, Showing, EditorInit, Clean

\* After a key for the text.
LEMMA TextKept ==
  ASSUME EdInv, do_loop, ~in_menu, UNCHANGED <<do_loop, in_menu, state, fullscreen>>,
         NEW j \in BOOLEAN, NEW fit \in BOOLEAN, Changed(ed', ed, j, fit), joined' = (joined \/ j)
  PROVE  EdInv' /\ (ViewInv /\ fit => ViewInv')
  <1>1. EdInv'
    BY DEF EdInv, Changed
  <1>2. ASSUME ViewInv, fit PROVE ViewInv'
    <2>1. Clean(ed)
      BY <1>2 DEF ViewInv
    <2>2. Clean(ed')
      BY <1>2, <2>1 DEF Changed
    <2> QED BY <2>2 DEF ViewInv, Clean
  <1> QED BY <1>1, <1>2

\* A key that moves the cursor keeps both.
LEMMA MoveKept ==
  ASSUME EdInv, NEW d, MovedTo(d, ed), Edit(d), UNCHANGED joined
  PROVE  EdInv' /\ (ViewInv => ViewInv') /\ ed'.data = ed.data
  <1>1. Changed(d, ed, FALSE, TRUE)
    BY MovedEdited DEF EdInv
  <1>2. Changed(ed', ed, FALSE, TRUE)
    BY <1>1, EditShown DEF EdInv, Edit
  <1>3. joined' = (joined \/ FALSE)
    BY DEF EdInv
  <1>4. ed'.data = ed.data
    <2>1. Sound(d) /\ d.data = ed.data /\ (d.y_max = YMax => fullscreen)
      BY DEF EdInv, MovedTo
    <2>2. Kept(ed', d)
      BY <2>1, ShowText DEF Edit
    <2> QED BY <2>1, <2>2 DEF Kept
  <1> QED BY <1>2, <1>3, <1>4, TextKept DEF Edit, InText

\* A key for the text keeps them; where the screen can be wider than a line, only the
\* first.
LEMMA TextKeyKeeps ==
  ASSUME EdInv, TextKey
  PROVE  EdInv' /\ (Wide = FALSE /\ ViewInv => ViewInv')
  <1>0. Sound(ed) /\ ed \in Editors /\ ed.x \in Nat
    BY SoundIs, EditorIs DEF EdInv
  <1>00. LenHere(ed) = CursorLen
    BY DEF LenHere, CursorLen
  <1>1. CASE ArrowUp
    BY <1>0, <1>1, YMinusIs, MoveKept DEF ArrowUp
  <1>2. CASE ArrowDown
    BY <1>0, <1>2, YPlusIs, MoveKept DEF ArrowDown
  <1>3. CASE ArrowLeft
    BY <1>0, <1>3, XMinusIs, MoveKept DEF ArrowLeft
  <1>4. CASE ArrowRight
    BY <1>0, <1>4, XPlusIs, MoveKept DEF ArrowRight
  <1>5. ASSUME NEW c \in Typed, TypeChar(c)
        PROVE  EdInv' /\ (Wide = FALSE /\ ViewInv => ViewInv')
    <2> DEFINE fit == LenHere(ed) + 1 <= XMax
    <2>1. fit \in BOOLEAN /\ (Wide = FALSE => fit)
      BY <1>5, <1>00 DEF TypeChar, Fits
    <2>2. c \in Keyed
      BY DEF Keyed
    <2>3. Changed(write(ed, c), ed, FALSE, fit)
      BY <1>0, <2>2, WriteEdited
    <2> HIDE DEF fit
    <2>4. Changed(ed', ed, FALSE, fit)
      BY <1>0, <1>5, <2>3, EditShown DEF EdInv, TypeChar, Edit
    <2>5. joined' = (joined \/ FALSE)
      BY <1>5 DEF EdInv, TypeChar
    <2> QED BY <1>5, <2>1, <2>4, <2>5, TextKept DEF TypeChar, Edit, InText
  <1>6. CASE TypeTab
    <2> DEFINE n == TabEnd(ed.x) - ed.x
               d == FoldLeft(BlankAgain, ed, [i \in 1 .. n |-> i])
               fit == LenHere(ed) + n <= XMax
    <2>1. fit \in BOOLEAN /\ (Wide = FALSE => fit)
      BY <1>6, <1>00 DEF TypeTab, Fits
    <2>2. n \in Nat
      BY <1>0, StopIs
    <2>3. Edit(d) /\ UNCHANGED joined
      BY <1>6 DEF TypeTab
    <2> HIDE DEF n
    <2>4. Changed(d, ed, FALSE, fit)
      BY <1>0, <2>2, TabEdited
    <2> HIDE DEF fit, d
    <2>5. Changed(ed', ed, FALSE, fit)
      BY <1>0, <2>3, <2>4, EditShown DEF EdInv, Edit
    <2>6. joined' = (joined \/ FALSE)
      BY <2>3 DEF EdInv
    <2> QED BY <2>1, <2>3, <2>5, <2>6, TextKept DEF Edit, InText
  <1>7. CASE BackspaceKey
    <2> DEFINE j == ed.x = 0 /\ ed.y > 0 /\ Row0(ed) < Size(ed)
               fit == ed.x = 0 /\ ed.y > 0 /\ Row0(ed) < Size(ed) =>
                        LineAt(ed, Row0(ed) - 1).len + LenHere(ed) <= XMax
    <2>1. j \in BOOLEAN /\ fit \in BOOLEAN /\ (Wide = FALSE => fit) /\ joined' = (joined \/ j)
      BY <1>7, <1>00 DEF BackspaceKey, Joins
    <2>2. Changed(erase_key(ed), ed, j, fit)
      BY <1>0, EraseEdited
    <2> HIDE DEF j, fit
    <2>3. Changed(ed', ed, j, fit)
      BY <1>0, <1>7, <2>2, EditShown DEF EdInv, BackspaceKey, Edit
    <2> QED BY <1>7, <2>1, <2>3, TextKept DEF BackspaceKey, Edit, InText
  <1>8. CASE Enter
    <2>1. Changed(newline_key(ed), ed, FALSE, TRUE)
      BY <1>0, SplitEdited
    <2>2. Changed(ed', ed, FALSE, TRUE)
      BY <1>0, <1>8, <2>1, EditShown DEF EdInv, Enter, Edit
    <2>3. joined' = (joined \/ FALSE)
      BY <1>8 DEF EdInv, Enter
    <2> QED BY <1>8, <2>2, <2>3, TextKept DEF Enter, Edit, InText
  <1>9. CASE Alt
    <2>1. /\ Kept(ed', ed) /\ (Narrow(ed) => Narrow(ed')) /\ (Uncovered(ed) => Uncovered(ed'))
      BY <1>0, <1>9, ShowMenu DEF Alt
    <2>2. AllClosed(ed) => AllClosed(ed')
      BY <2>1 DEF Kept, AllClosed, Size
    <2>3. EdInv'
      BY <1>9, <2>1, <2>2 DEF EdInv, Alt, Kept
    <2>4. ViewInv => ViewInv'
      <3>1. ViewInv => Uncovered(ed)
        BY <1>9, RenderedUncovered DEF ViewInv, Clean, Alt, InText
      <3> QED BY <1>9, <2>1, <3>1 DEF ViewInv, Alt
    <2> QED BY <2>3, <2>4
  <1> QED BY <1>1, <1>2, <1>3, <1>4, <1>5, <1>6, <1>7, <1>8, <1>9 DEF TextKey

\* The menu is closed over the text d.
LEMMA LeaveKept ==
  ASSUME EdInv, NEW d, Sound(d), d.data = ed.data, d.y_max \in {YMax - 1, YMax},
         NEW full \in BOOLEAN, d.y_max = YMax => full,
         Narrow(ed) => Narrow(d), Narrow(ed) /\ Uncovered(ed) => Uncovered(d), Leave(d, full)
  PROVE  EdInv' /\ (ViewInv => ViewInv') /\ ed'.data = ed.data
  <1>1. ed' = Show(IF full THEN redraw_full(d) ELSE d, FALSE, "none", full)
    BY DEF Leave
  <1>2. Kept(ed', d) /\ (Narrow(d) /\ Uncovered(d) => Clean(ed'))
    BY <1>1, ShowClosed
  <1>3. Sound(ed') /\ ed'.data = ed.data /\ ed'.y_max = d.y_max
    BY <1>2 DEF Kept
  <1>4. AllClosed(ed) => AllClosed(ed')
    BY <1>3 DEF AllClosed, Size
  <1>5. EdInv'
    BY <1>3, <1>4 DEF EdInv, Leave
  <1>6. ViewInv => ViewInv'
    BY <1>2 DEF ViewInv, Leave, InMenu, Clean
  <1> QED BY <1>3, <1>5, <1>6

\* Leaving the menu keeps them.
LEMMA LeaveSame ==
  ASSUME EdInv, Leave(ed, fullscreen)
  PROVE  EdInv' /\ (ViewInv => ViewInv') /\ ed'.data = ed.data
  BY LeaveKept DEF EdInv

\* A key that the menu is only drawn for keeps them.
LEMMA StayKept ==
  ASSUME EdInv, NEW st, Stay(st)
  PROVE  EdInv' /\ (ViewInv => ViewInv') /\ ed'.data = ed.data
  <1>1. Kept(ed', ed) /\ (Narrow(ed) => Narrow(ed')) /\ (Uncovered(ed) => Uncovered(ed'))
    BY ShowMenu DEF EdInv, Stay
  <1>2. AllClosed(ed) => AllClosed(ed')
    BY <1>1 DEF Kept, AllClosed, Size
  <1>3. EdInv'
    BY <1>1, <1>2 DEF EdInv, Stay, Kept
  <1>4. ViewInv => ViewInv'
    BY <1>1 DEF ViewInv, Stay, InMenu
  <1> QED BY <1>1, <1>3, <1>4 DEF Kept

\* A key for the menu keeps them.
LEMMA MenuKeyKeeps ==
  ASSUME EdInv, MenuKey
  PROVE  EdInv' /\ (ViewInv => ViewInv') /\ ed'.data = ed.data
  <1>1. CASE MenuAlt
    BY <1>1, LeaveSame DEF MenuAlt
  <1>2. CASE KeyS
    BY <1>2, StayKept DEF KeyS
  <1>3. CASE KeyQ
    BY <1>3, StayKept DEF KeyQ
  <1>4. CASE KeyF
    <2> DEFINE off == IF fullscreen THEN 1 ELSE 0
               d == set_offset(ed, off)
               full == ~fullscreen
    <2>1. off \in {0, 1} /\ full \in BOOLEAN /\ (off = 0 => full)
      BY DEF EdInv
    <2>2. Leave(d, full)
      BY <1>4 DEF KeyF
    <2> HIDE DEF off, full
    <2>3. /\ Sound(d) /\ d.data = ed.data /\ d.y_max = YMax - off
          /\ (Narrow(ed) => Narrow(d)) /\ (Narrow(ed) /\ Uncovered(ed) => Uncovered(d))
      BY <2>1, SetOffsetIs DEF EdInv
    <2> HIDE DEF d
    <2>4. d.y_max \in {YMax - 1, YMax} /\ (d.y_max = YMax => full)
      BY <2>1, <2>3, Sizes
    <2> QED BY <2>1, <2>2, <2>3, <2>4, LeaveKept
  <1>5. CASE Save
    BY <1>5, LeaveSame DEF Save
  <1>6. CASE SaveFails
    BY <1>6, StayKept DEF SaveFails
  <1>7. CASE Cancel
    BY <1>7, LeaveSame DEF Cancel
  <1>8. CASE Quit
    <2>0. Sound(ed) /\ ed \in Editors
      BY SoundIs DEF EdInv
    <2>1. /\ ed' \in Editors /\ ed'.data = ed.data /\ ed'.x = ed.x /\ ed'.y = ed.y /\ ed'.view_y = ed.view_y
          /\ ed'.y_max = ed.y_max
      BY <1>8, <2>0, ClearIs DEF Quit, Editors
    <2>2. Size(ed') = Size(ed) /\ Row0(ed') = Row0(ed) /\ CursorLine(ed') = CursorLine(ed)
      BY <2>1 DEF Size, Row0, CursorLine, LineAt
    <2>3. Sound(ed')
      BY <2>0, <2>1, <2>2 DEF Sound
    <2>4. (AllClosed(ed) => AllClosed(ed')) /\ (Narrow(ed) => Narrow(ed'))
      BY <2>1, <2>2 DEF AllClosed, Narrow
    <2>5. EdInv'
      BY <1>8, <2>1, <2>3, <2>4 DEF EdInv, Quit
    <2>6. ViewInv => ViewInv'
      BY <1>8, <2>4 DEF ViewInv, Quit
    <2> QED BY <2>1, <2>5, <2>6
  <1> QED BY <1>1, <1>2, <1>3, <1>4, <1>5, <1>6, <1>7, <1>8 DEF MenuKey

\* The next session starts like the first.
LEMMA StartKeeps ==
  ASSUME TextFiles, EdInv, NEW file \in Files, Start(file)
  PROVE  EdInv' /\ (NarrowFiles => Showing') /\ Before(ed') = <<>>
  <1>1. SessionOf(ed', tabbed')
    BY SessionIs DEF Start
  <1>2. YMax - 1 # YMax
    BY Sizes
  <1> QED BY <1>1, <1>2 DEF Start, SessionOf, EdInv, ViewInv, Showing, Clean

\* Until then it is the session of the same file.
LEMMA SameFile ==
  ASSUME TextKey \/ MenuKey
  PROVE  tabbed' = tabbed
  <1>1. CASE TextKey
    BY <1>1 DEF TextKey, ArrowUp, ArrowDown, ArrowLeft, ArrowRight, TypeChar, TypeTab, BackspaceKey,
                Enter, Alt, Edit
  <1>2. CASE MenuKey
    BY <1>2 DEF MenuKey, MenuAlt, KeyS, KeyQ, KeyF, Save, SaveFails, Cancel, Quit, Stay, Leave
  <1> QED BY <1>1, <1>2

\* Every step keeps them.
LEMMA StepKeeps ==
  ASSUME TextFiles, EdInv, [EditorNext]_editorVars
  PROVE  EdInv' /\ (Wide = FALSE /\ NarrowFiles /\ Showing => Showing')
  <1>1. CASE TextKey
    <2>1. EdInv' /\ (Wide = FALSE /\ ViewInv => ViewInv')
      BY <1>1, TextKeyKeeps
    <2>2. tabbed' = tabbed
      BY <1>1, SameFile
    <2> QED BY <2>1, <2>2 DEF Showing
  <1>2. CASE MenuKey
    <2>1. EdInv' /\ (ViewInv => ViewInv')
      BY <1>2, MenuKeyKeeps
    <2>2. tabbed' = tabbed
      BY <1>2, SameFile
    <2> QED BY <2>1, <2>2 DEF Showing
  <1>3. CASE \E f \in Files : Start(f)
    BY <1>3, StartKeeps
  <1>4. CASE UNCHANGED editorVars
    BY <1>4 DEF editorVars, EdInv, ViewInv, Showing
  <1> QED BY <1>1, <1>2, <1>3, <1>4 DEF EditorNext

\* The text, the cursor and the window are sound whatever the keys are.
LEMMA EditorInv == TextFiles => (EditorSpec => []EdInv)
  <1> SUFFICES ASSUME TextFiles PROVE EditorSpec => []EdInv
    OBVIOUS
  <1>1. EditorInit => EdInv
    BY InitInv
  <1>2. EdInv /\ [EditorNext]_editorVars => EdInv'
    BY StepKeeps
  <1> QED BY <1>1, <1>2, PTL DEF EditorSpec

\* The screen shows the text through every key, in every session whose file has no
\* tab, for every screen and every text of lines that fit on it: TextEngine.cpp draws
\* only what a key has changed.
THEOREM ShowsText ==
  TextFiles /\ NarrowFiles /\ Wide = FALSE => (EditorSpec => []ScreenShowsText)
  <1> SUFFICES ASSUME TextFiles, NarrowFiles, Wide = FALSE
               PROVE  EditorSpec => []ScreenShowsText
    OBVIOUS
  <1>1. EditorInit => EdInv /\ Showing
    BY InitInv
  <1>2. EdInv /\ Showing /\ [EditorNext]_editorVars => (EdInv /\ Showing)'
    BY StepKeeps
  <1>3. EdInv /\ Showing => ScreenShowsText
    <2> SUFFICES ASSUME EdInv, ViewInv, do_loop PROVE AlwaysShowsText
      BY DEF Showing, ScreenShowsText, AlwaysShowsText
    <2>1. \A i \in 0 .. ed.y_max : (in_menu /\ i = YMax) \/ Row(ed.scr, i) = RowText(ed, i)
      <3>1. CASE in_menu
        BY <3>1 DEF ViewInv, Uncovered
      <3>2. CASE ~in_menu
        BY <3>2 DEF ViewInv, Clean, Rendered
      <3> QED BY <3>1, <3>2
    <2>2. ~in_menu => ed.scr.x = ed.x /\ ed.scr.y = ed.y /\ ed.y <= ed.y_max
      BY DEF ViewInv, Clean, Pointed, EdInv, Sound
    <2> QED BY <2>1, <2>2 DEF AlwaysShowsText, RowText
  <1> QED BY <1>1, <1>2, <1>3, PTL DEF EditorSpec

\* Until lines are joined every line has its terminator, so what is saved is the text.
LEMMA FileIsText ==
  ASSUME NEW e, Sound(e), AllClosed(e)
  PROVE  FileOf(e.data) = TextOf(e.data)
  <1>1. e.data \in Seq(TLines) /\ DOMAIN e.data = 1 .. Size(e) /\ Size(e) = Len(e.data)
    BY SoundIs, EditorIs DEF Size
  <1>2. \A n \in DOMAIN e.data : CString(e.data[n]) = CharsIn(e.data[n])
    <2> TAKE n \in DOMAIN e.data
    <2>1. e.data[n] \in TLines /\ Closed(e.data[n])
      <3>1. n \in 1 .. Size(e)
        BY <1>1
      <3>2. e.data[n] \in TLines
        <4>1. e.data \in Seq(TLines) /\ n \in 1 .. Len(e.data)
          BY <1>1
        <4> QED BY <4>1
      <3> QED BY <3>1, <3>2 DEF AllClosed
    <2> QED BY <2>1, CStringIs
  <1>3. [n \in DOMAIN e.data |-> CString(e.data[n]) \o <<LineFeed>>]
          = [n \in DOMAIN e.data |-> CharsIn(e.data[n]) \o <<LineFeed>>]
    BY <1>2
  <1> QED BY <1>3 DEF FileOf, TextOf

\* What Save writes to the file is the text, until two lines are joined: append in
\* src/kshell/tedit/TextLine.cpp leaves a line without the terminator that Save relies on.
THEOREM SavesText == TextFiles => (EditorSpec => SavesTextUnlessJoined)
  <1> SUFFICES ASSUME TextFiles PROVE EditorSpec => SavesTextUnlessJoined
    OBVIOUS
  <1>1. EditorSpec => []EdInv
    BY EditorInv
  <1>2. EdInv => [Save /\ ~joined => saved' = TextOf(ed.data)]_editorVars
    BY FileIsText DEF EdInv, Save
  <1> QED BY <1>1, <1>2, PTL DEF SavesTextUnlessJoined

-----------------------------------------------------------------------------
(* What keys do to the text before and after the cursor.                   *)

\* A step of Document.
DocStep(f, e) ==
  \/ \E c \in Typed \cup {LineFeed} : Before(f) = Append(Before(e), c) /\ After(f) = After(e)
  \/ /\ \E n \in 1 .. Len(Before(f)) : Before(f) = Before(e) \o Blanks(n)
     /\ After(f) = After(e)
  \/ /\ Before(e) # <<>> /\ Before(f) = SubSeq(Before(e), 1, Len(Before(e)) - 1)
     /\ After(f) = After(e)
  \/ Before(f) \o After(f) = Before(e) \o After(e)
  \/ Before(f) = <<>>

\* The same sides, drawn otherwise.
LEMMA DocKept ==
  ASSUME NEW e, NEW d, DocStep(d, e), NEW f, Kept(f, d)
  PROVE  DocStep(f, e)
  BY DEF DocStep, Kept

\* A move of the cursor shifts what is before it and after it.
LEMMA DocMoved ==
  ASSUME NEW e, Sound(e), NEW f, Sound(f), f.data = e.data
  PROVE  DocStep(f, e)
  BY MovedText DEF DocStep

\* Drawing the menu is no step of its own.
LEMMA DocShown ==
  ASSUME NEW e, Sound(e), NEW d, Sound(d), d.y_max = e.y_max, DocStep(d, e),
         NEW st, NEW full, e.y_max = YMax => full
  PROVE  DocStep(Show(d, FALSE, st, full), e)
  <1>1. Kept(Show(d, FALSE, st, full), d)
    BY ShowText
  <1> QED BY <1>1, DocKept

\* A tab indents.
LEMMA DocTab ==
  ASSUME NEW e, Sound(e), NEW n \in Nat \ {0}, NEW f, TabbedIn(f, e, n)
  PROVE  DocStep(f, e)
  <1>1. Before(f) = Before(e) \o Blanks(n) /\ After(f) = After(e)
    BY DEF TabbedIn
  <1>2. Before(e) \in Seq(Letters)
    BY SidesTyped
  <1>3. Blanks(n) \in Seq(Letters) /\ Len(Blanks(n)) = n
    <2>1. Blank \in Letters
      BY DEF Letters, Printed
    <2> QED BY <2>1 DEF Blanks
  <1> DEFINE b == Before(e)
             t == Blanks(n)
  <1> HIDE DEF b, t
  <1>4. Len(b \o t) = Len(b) + Len(t) /\ Len(b) \in Nat
    BY <1>2, <1>3, ConcatProperties DEF b, t
  <1>5. n \in 1 .. Len(Before(f))
    BY <1>1, <1>3, <1>4 DEF b, t
  <1> QED BY <1>1, <1>5 DEF DocStep

\* Every key is a step of the document.
LEMMA StepEdits ==
  ASSUME TextFiles, EdInv, [EditorNext]_editorVars
  PROVE  DocStep(ed', ed)
  <1>0. Sound(ed) /\ ed \in Editors /\ ed.x \in Nat /\ ed.y \in Nat /\ Sound(ed')
        /\ (ed.y_max = YMax => fullscreen)
    BY SoundIs, EditorIs, StepKeeps DEF EdInv
  <1>1. CASE TextKey
    <2>1. CASE ArrowUp
      BY <1>0, <2>1, YMinusIs, MoveKept, DocMoved DEF ArrowUp
    <2>2. CASE ArrowDown
      BY <1>0, <2>2, YPlusIs, MoveKept, DocMoved DEF ArrowDown
    <2>3. CASE ArrowLeft
      BY <1>0, <2>3, XMinusIs, MoveKept, DocMoved DEF ArrowLeft
    <2>4. CASE ArrowRight
      BY <1>0, <2>4, XPlusIs, MoveKept, DocMoved DEF ArrowRight
    <2>5. ASSUME NEW c \in Typed, TypeChar(c) PROVE DocStep(ed', ed)
      <3> DEFINE d == write(ed, c)
                 g == Got(ed, Row0(ed))
      <3>1. c \in Keyed /\ c \in Printed
        BY DEF Keyed, Printed
      <3>2. WrittenIn(d, ed, g, c) /\ GotFrom(g, ed)
        BY <1>0, <3>1, WriteIs, GotIs
      <3>3. ed' = Show(d, FALSE, state, fullscreen)
        BY <2>5 DEF TypeChar, Edit
      <3> HIDE DEF d, g
      <3>4. Before(d) = Append(Before(ed), c) /\ After(d) = After(ed)
        BY <1>0, <3>1, <3>2, WrittenText
      <3>5. DocStep(d, ed) /\ Sound(d) /\ d.y_max = ed.y_max
        BY <3>2, <3>4 DEF DocStep, WrittenIn
      <3> QED BY <1>0, <3>3, <3>5, DocShown
    <2>6. CASE TypeTab
      <3> DEFINE n == TabEnd(ed.x) - ed.x
                 d == FoldLeft(BlankAgain, ed, [i \in 1 .. n |-> i])
      <3>1. n \in Nat \ {0}
        BY <1>0, StopIs
      <3>2. ed' = Show(d, FALSE, state, fullscreen)
        BY <2>6 DEF TypeTab, Edit
      <3> HIDE DEF n
      <3>3. TabbedIn(d, ed, n)
        BY <1>0, <3>1, TabIs
      <3> HIDE DEF d
      <3>4. DocStep(d, ed)
        BY <1>0, <3>1, <3>3, DocTab
      <3>5. Sound(d) /\ d.y_max = ed.y_max
        BY <3>3 DEF TabbedIn
      <3> QED BY <1>0, <3>2, <3>4, <3>5, DocShown
    <2>7. CASE BackspaceKey
      <3> DEFINE d == erase_key(ed)
      <3>1. ed' = Show(d, FALSE, state, fullscreen)
        BY <2>7 DEF BackspaceKey, Edit
      <3>2. DocStep(d, ed) /\ Sound(d) /\ d.y_max = ed.y_max
        <4>1. CASE ed.x > 0
          <5>1. ErasedIn1(d, ed)
            BY <1>0, <4>1, EraseHere
          <5> HIDE DEF d
          <5> QED BY <5>1 DEF ErasedIn1, DocStep
        <4>2. CASE ed.x = 0 /\ ed.y > 0
          <5>1. JoinedIn(d, ed)
            BY <1>0, <4>2, JoinIs
          <5> HIDE DEF d
          <5> QED BY <5>1 DEF JoinedIn, DocStep
        <4>3. CASE ed.x = 0 /\ ed.y = 0
          <5>1. d = ed
            BY <4>3 DEF erase_key
          <5> HIDE DEF d
          <5> QED BY <1>0, <5>1 DEF DocStep
        <4> QED BY <1>0, <4>1, <4>2, <4>3
      <3> HIDE DEF d
      <3> QED BY <1>0, <3>1, <3>2, DocShown
    <2>8. CASE Enter
      <3> DEFINE d == newline_key(ed)
      <3>1. ed' = Show(d, FALSE, state, fullscreen)
        BY <2>8 DEF Enter, Edit
      <3>2. SplitIn(d, ed)
        BY <1>0, SplitIs
      <3> HIDE DEF d
      <3>3. DocStep(d, ed) /\ Sound(d) /\ d.y_max = ed.y_max
        BY <3>2 DEF SplitIn, DocStep
      <3> QED BY <1>0, <3>1, <3>3, DocShown
    <2>9. CASE Alt
      <3>1. Kept(ed', ed)
        BY <1>0, <2>9, ShowMenu DEF Alt
      <3> QED BY <3>1 DEF Kept, DocStep
    <2> QED BY <1>1, <2>1, <2>2, <2>3, <2>4, <2>5, <2>6, <2>7, <2>8, <2>9 DEF TextKey
  <1>2. CASE MenuKey
    BY <1>0, <1>2, MenuKeyKeeps, DocMoved
  <1>3. ASSUME NEW file \in Files, Start(file) PROVE DocStep(ed', ed)
    <2>1. Before(ed') = <<>>
      BY <1>3, StartKeeps
    <2> QED BY <2>1 DEF DocStep
  <1>4. CASE UNCHANGED editorVars
    BY <1>4 DEF editorVars, DocStep
  <1> QED BY <1>1, <1>2, <1>3, <1>4 DEF EditorNext

\* Every key changes the text only at the cursor, or only moves the cursor: the
\* editor implements Document.
THEOREM EditsDocument == TextFiles => (EditorSpec => DocumentSpec)
  <1> SUFFICES ASSUME TextFiles PROVE EditorSpec => DocumentSpec
    OBVIOUS
  <1>1. EditorInit => Promise!Init
    <2> SUFFICES ASSUME EditorInit PROVE Promise!Init
      OBVIOUS
    <2>1. PICK f \in Files : ed = Session(f)
      BY DEF EditorInit
    <2>2. Before(ed) = <<>>
      BY <2>1, SessionIs DEF SessionOf
    <2> QED BY <2>2 DEF Promise!Init
  <1>2. EdInv /\ [EditorNext]_editorVars => [Promise!Next]_Promise!vars
    <2> SUFFICES ASSUME EdInv, [EditorNext]_editorVars PROVE Promise!Next
      OBVIOUS
    <2>1. DocStep(ed', ed)
      BY StepEdits
    <2>2. CASE \E c \in Typed \cup {LineFeed} : Before(ed') = Append(Before(ed), c) /\ After(ed') = After(ed)
      BY <2>2 DEF Promise!Next, Promise!Insert
    <2>3. CASE /\ \E n \in 1 .. Len(Before(ed')) : Before(ed') = Before(ed) \o Blanks(n)
               /\ After(ed') = After(ed)
      BY <2>3 DEF Promise!Next, Promise!Indent, Blanks
    <2>4. CASE /\ Before(ed) # <<>> /\ Before(ed') = SubSeq(Before(ed), 1, Len(Before(ed)) - 1)
               /\ After(ed') = After(ed)
      BY <2>4 DEF Promise!Next, Promise!Delete
    <2>5. CASE Before(ed') \o After(ed') = Before(ed) \o After(ed)
      BY <2>5 DEF Promise!Next, Promise!MoveCursor
    <2>6. CASE Before(ed') = <<>>
      BY <2>6 DEF Promise!Next, Promise!Open
    <2> QED BY <2>1, <2>2, <2>3, <2>4, <2>5, <2>6 DEF DocStep
  <1> QED BY <1>1, <1>2, EditorInv, PTL DEF EditorSpec, DocumentSpec, Promise!Spec
=============================================================================
