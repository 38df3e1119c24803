------------------------------ MODULE TextLine ------------------------------
(***************************************************************************)
(* A line of the text editor (kshell/tedit/TextLine.cpp): a buffer of      *)
(* Cardinality(DOMAIN buf) bytes, indexed from 0, and a length.  The       *)
(* buffer is also a C string: the bytes before the first Nul.              *)
(* Memory that realloc adds holds anything, and so does what lies behind   *)
(* the buffer: Other.                                                      *)
(***************************************************************************)
EXTENDS Integers, FiniteSets, SequencesExt, StringBytes

CONSTANT InitAlloc           \* 8

ASSUME AllocAssumption == InitAlloc \in Nat \ {0}

Alloc(l) == Cardinality(DOMAIN l.buf)

\* The bytes from .. from + n - 1 in memory.
Read(buf, i) == IF i \in DOMAIN buf THEN buf[i] ELSE Other

NewLine == [buf |-> [i \in 0 .. InitAlloc - 1 |-> Nul], len |-> 0]

Larger(a, b) == IF a < b THEN b ELSE a

grow(l, to) ==
  IF to <= Alloc(l) THEN l
  ELSE [l EXCEPT !.buf = [i \in 0 .. Larger(2 * Alloc(l), to) - 1 |-> Read(@, i)]]

\* Copy n bytes of src, from its byte "from", to byte "to" of dst.
Copied(dst, to, src, from, n) ==
  [i \in DOMAIN dst |-> IF i \in to .. to + n - 1 THEN Read(src, i - to + from) ELSE dst[i]]

\* resize with move_terminator = FALSE: growing leaves the string open.
resize(l, size) ==
  LET r == grow(l, size + 1)
  IN  IF size < l.len THEN [r EXCEPT !.len = size, !.buf[size] = Nul]
      ELSE [r EXCEPT !.len = size]

\* fault: the move leaves the terminator behind
insertShort(l, c, at) ==
  LET r == resize(l, l.len + 1)
      b == Copied(r.buf, at + 1, r.buf, at, l.len - at)
  IN  [r EXCEPT !.buf = [b EXCEPT ![at] = c]]

\* insert at most at the end of the line; the terminator moves with the tail.
insert(l, c, at) ==
  LET r == resize(l, l.len + 1)
      b == IF at = l.len THEN [r.buf EXCEPT ![at + 1] = Nul]
           ELSE Copied(r.buf, at + 1, r.buf, at, r.len - at)
  IN  [r EXCEPT !.buf = [b EXCEPT ![at] = c]]

erase(l, at) ==
  IF at >= l.len THEN l
  ELSE resize([l EXCEPT !.buf = Copied(@, at, @, at + 1, l.len - at)], l.len - 1)

\* split leaves the first part in the old buffer and returns the second.
SplitHead(l, at) ==
  IF at >= l.len THEN l ELSE [l EXCEPT !.buf[at] = Nul, !.len = at]

SplitTail(l, at) ==
  IF at >= l.len THEN NewLine
  ELSE [buf |-> [i \in 0 .. l.len - at |-> Read(l.buf, at + i)], len |-> l.len - at]

\* append makes room for the bytes of the other line, not for a terminator, and
\* writes none.
append(l, other) ==
  LET r == grow(l, l.len + other.len)
  IN  IF other.len = 0 THEN l
      ELSE [buf |-> Copied(r.buf, l.len, other.buf, 0, other.len), len |-> l.len + other.len]

CharsIn(l) == [i \in 1 .. l.len |-> l.buf[i - 1]]

\* What fputs writes of it: if no Nul is left, it runs on into Other memory.
CString(l) ==
  LET ends == {i \in DOMAIN l.buf : l.buf[i] = Nul}
      size == IF ends = {} THEN Alloc(l) + 1 ELSE CHOOSE i \in ends : \A j \in ends : i <= j
  IN  [i \in 1 .. size |-> Read(l.buf, i - 1)]
=============================================================================
