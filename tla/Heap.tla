-------------------------------- MODULE Heap --------------------------------
(***************************************************************************)
(* The kernel's malloc, calloc, realloc and free (liballoc), over the page *)
(* runs it takes from and returns to the memory manager.                   *)
(*                                                                         *)
(* A major is a run of pages that starts with a header of H units and      *)
(* holds minors, each a header of h units and a payload; the chain of      *)
(* majors and each major's chain of minors are sequences.  Sizes are in    *)
(* units of 8 bytes, so the two 24-byte headers are 3 and the 16-byte      *)
(* alignment and alignment information are 2.  The calls are atomic: they  *)
(* run under the allocator's lock and no interrupt handler allocates.      *)
(* A call to liballoc_alloc that finds no memory halts the kernel.         *)
(***************************************************************************)
EXTENDS Integers, FiniteSets, SequencesExt

CONSTANTS
  NumPages,    \* pages the memory manager can hand out: 0 .. NumPages-1
  PageSize,    \* units in a page
  PageCount,   \* l_pageCount, the fewest pages the heap asks for
  Sizes,       \* request sizes of the clients
  MaxLive      \* bound on the blocks clients hold at once

H == 3
h == 3
ALIGNMENT == 2
ALIGN_INFO == 2

\* Requests that would wrap a 32-bit size are not made by the kernel.
ASSUME HeapAssumption ==
  /\ NumPages \in Nat \ {0} /\ PageCount \in Nat \ {0} /\ MaxLive \in Nat
  /\ PageSize \in Nat \ {0} /\ PageSize % ALIGNMENT = 0
  /\ Sizes \subseteq Nat
  /\ \A n \in Sizes : n + ALIGNMENT + ALIGN_INFO + H + h + PageSize < 2^29

None == -1

VARIABLES
  heap,    \* majors (l_memRoot's chain of [page, pages, usage, minors]),
           \* bestBet (the page of l_bestBet's major, or None), allocated
           \* and inuse (l_allocated, l_inuse), and pool, the pages the
           \* memory manager has available
  live,    \* blocks clients hold: [p, n], the address and the size asked
  halted   \* the kernel aborted: out of physical memory

vars == <<heap, live, halted>>

-----------------------------------------------------------------------------
\* Layout of a major

Room(m) == m.pages * PageSize - m.usage

Need(n) == n + ALIGNMENT + ALIGN_INFO + h

\* The gap after the first i minors: from where it starts to where it ends.
GapStart(m, i) ==
  IF i = 0 THEN H ELSE m.minors[i].off + h + m.minors[i].size

GapEnd(m, i) ==
  IF i = Len(m.minors) THEN m.pages * PageSize ELSE m.minors[i + 1].off

Fitting(m, n) ==
  {i \in 0 .. Len(m.minors) : GapEnd(m, i) - GapStart(m, i) >= Need(n)}

Fits(m, n) == Room(m) >= Need(n) /\ Fitting(m, n) # {}

\* fault: the size of the new minor's header is not charged to the major
PlaceFreeHeader(m, i, n) ==
  [m EXCEPT !.usage = @ + n + ALIGNMENT + ALIGN_INFO,
            !.minors = InsertAt(@, i + 1, [off |-> GapStart(m, i),
                         size |-> n + ALIGNMENT + ALIGN_INFO, req_size |-> n])]

\* fault: the size leaves no room for the padding of the alignment
PlaceTight(m, i, n) ==
  [m EXCEPT !.usage = @ + n + ALIGN_INFO + h,
            !.minors = InsertAt(@, i + 1, [off |-> GapStart(m, i),
                         size |-> n + ALIGN_INFO, req_size |-> n])]

\* The new minor in the gap after the first i minors, with room to align
Place(m, i, n) ==
  [m EXCEPT !.usage = @ + Need(n),
            !.minors = InsertAt(@, i + 1, [off |-> GapStart(m, i),
                         size |-> n + ALIGNMENT + ALIGN_INFO, req_size |-> n])]

\* ALIGN: the address the client gets for a minor
Pointer(m, min) ==
  LET a == m.page * PageSize + min.off + h + ALIGN_INFO
  IN  a + ((ALIGNMENT - (a % ALIGNMENT)) % ALIGNMENT)

-----------------------------------------------------------------------------
\* Pages

Run(p, n) == p .. p + n - 1

\* fault: no room is left for the header of the first minor
MajorPagesNoMinor(n) ==
  LET st == n + ALIGNMENT + ALIGN_INFO + H
  IN  Max({st \div PageSize + (IF st % PageSize = 0 THEN 0 ELSE 1), PageCount})

MajorPages(n) ==
  LET st == n + ALIGNMENT + ALIGN_INFO + H + h
  IN  Max({st \div PageSize + (IF st % PageSize = 0 THEN 0 ELSE 1), PageCount})

Runs(hp, n) == {p \in 0 .. NumPages - 1 : Run(p, n) \subseteq hp.pool}

\* allocate_new_page appends the new major to the chain.
Grow(hp, n) ==
  LET st == MajorPages(n)
      page == Min(Runs(hp, st))
  IN  [hp EXCEPT !.majors = Append(@, [page |-> page, pages |-> st,
                                       usage |-> H, minors |-> <<>>]),
                 !.pool = @ \ Run(page, st),
                 !.allocated = @ + st * PageSize]

-----------------------------------------------------------------------------
\* malloc

\* The major with a given page.
At(hp, page) == CHOOSE i \in 1 .. Len(hp.majors) : hp.majors[i].page = page

BetRoom(hp) ==
  IF hp.bestBet = None THEN 0 ELSE Room(hp.majors[At(hp, hp.bestBet)])

\* fault: the majors in front of the best bet are never looked at
VisitsNoRestart(hp, n) ==
  LET all == [i \in 1 .. Len(hp.majors) |-> i]
  IN  IF BetRoom(hp) > Need(n)
      THEN SubSeq(all, At(hp, hp.bestBet), Len(all)) ELSE all

\* The majors malloc looks at, in order: from the best bet to the end of the
\* chain if the best bet has room, then the chain from its root.
Visits(hp, n) ==
  LET all == [i \in 1 .. Len(hp.majors) |-> i]
  IN  IF BetRoom(hp) > Need(n)
      THEN SubSeq(all, At(hp, hp.bestBet), Len(all)) \o all ELSE all

\* A visited major with more room than the best bet becomes the best bet, so of
\* all those seen the first with the most room does.
Remember(hp, seen) ==
  LET room(v) == Room(hp.majors[seen[v]])
      most == {v \in DOMAIN seen : \A w \in DOMAIN seen : room(w) <= room(v)}
      bet == Min(most)
  IN  IF most # {} /\ room(bet) > BetRoom(hp)
      THEN [hp EXCEPT !.bestBet = hp.majors[seen[bet]].page] ELSE hp

\* A minor for n goes to the gap after the first j minors of major i.
Squeeze(hp, i, j, n) ==
  LET m == Place(hp.majors[i], j, n)
  IN  [hp |-> [hp EXCEPT !.majors[i] = m,
                         !.inuse = @ + n + ALIGNMENT + ALIGN_INFO],
       p |-> Pointer(m, m.minors[j + 1])]

FirstGap(m, n) == Min(Fitting(m, n))

\* A major appended because the last one has too little room (CASE 1) takes
\* the minor at once; one appended because the last one is fragmented
\* (CASE 5), or as the root, is visited first and can become the best bet.
Extend(hp, n) ==
  LET grown == Grow(hp, n)
      last == Len(grown.majors)
      visited == hp.majors = <<>> \/ Room(Last(hp.majors)) >= Need(n)
  IN  Squeeze(IF visited THEN Remember(grown, <<last>>) ELSE grown, last, 0, n)

\* The visits that find a gap; malloc stops at the first of them.
Hits(hp, n) ==
  {v \in DOMAIN Visits(hp, n) : Fits(hp.majors[Visits(hp, n)[v]], n)}

Hit(hp, n) == Visits(hp, n)[Min(Hits(hp, n))]

malloc(hp, n) ==
  IF Hits(hp, n) # {}
  THEN LET seen == SubSeq(Visits(hp, n), 1, Min(Hits(hp, n)))
           i == Hit(hp, n)
       IN  Squeeze(Remember(hp, seen), i, FirstGap(hp.majors[i], n), n)
  ELSE Extend(Remember(hp, Visits(hp, n)), n)

\* alloc_virt_page has no run of pages for a new major: it aborts.
Exhausted(hp, n) == Hits(hp, n) = {} /\ Runs(hp, MajorPages(n)) = {}

-----------------------------------------------------------------------------
\* free

\* Where the minors are: the major and the place in its chain.
Slots(hp) == UNION {{i} \X (1 .. Len(hp.majors[i].minors)) : i \in 1 .. Len(hp.majors)}

\* UNALIGN: the major and the minor of the block at a client's address
Owner(hp, p) ==
  CHOOSE o \in Slots(hp) : Pointer(hp.majors[o[1]], hp.majors[o[1]].minors[o[2]]) = p

\* The minor leaves its major.
Drop(m, j) ==
  [m EXCEPT !.usage = @ - (m.minors[j].size + h), !.minors = RemoveAt(@, j)]

\* fault: the best bet is not forgotten when its major is given back
ReleaseKeepsBet(hp, i) ==
  LET m == hp.majors[i]
  IN  [hp EXCEPT !.majors = RemoveAt(@, i),
                 !.allocated = @ - m.pages * PageSize,
                 !.pool = @ \cup Run(m.page, m.pages)]

\* An empty major leaves the chain; its pages go back to the memory manager.
Release(hp, i) ==
  LET m == hp.majors[i]
  IN  [hp EXCEPT !.majors = RemoveAt(@, i),
                 !.bestBet = IF @ = m.page THEN None ELSE @,
                 !.allocated = @ - m.pages * PageSize,
                 !.pool = @ \cup Run(m.page, m.pages)]

\* fault: l_inuse loses the minor's header, which it never counted
FreeCountsHeader(hp, p) ==
  LET i == Owner(hp, p)[1]
      j == Owner(hp, p)[2]
      less == [hp EXCEPT !.majors[i] = Drop(@, j),
                         !.inuse = @ - hp.majors[i].minors[j].size - h]
  IN  IF less.majors[i].minors = <<>> THEN Release(less, i)
      ELSE IF less.bestBet # None THEN Remember(less, <<i>>) ELSE less

free(hp, p) ==
  LET i == Owner(hp, p)[1]
      j == Owner(hp, p)[2]
      less == [hp EXCEPT !.majors[i] = Drop(@, j),
                         !.inuse = @ - hp.majors[i].minors[j].size]
  IN  IF less.majors[i].minors = <<>> THEN Release(less, i)
      ELSE IF less.bestBet # None THEN Remember(less, <<i>>) ELSE less

-----------------------------------------------------------------------------
\* The calls of the clients

Init ==
  /\ heap = [majors |-> <<>>, bestBet |-> None, pool |-> 0 .. NumPages - 1,
             allocated |-> 0, inuse |-> 0]
  /\ live = {}
  /\ halted = FALSE

Abort == halted' = TRUE /\ UNCHANGED <<heap, live>>

Malloc(n) ==
  /\ ~halted /\ Cardinality(live) < MaxLive
  /\ IF Exhausted(heap, n) THEN Abort
     ELSE /\ heap' = malloc(heap, n).hp
          /\ live' = live \cup {[p |-> malloc(heap, n).p, n |-> n]}
          /\ UNCHANGED halted

\* calloc of no objects is malloc(1).
Calloc(nobj, size) == Malloc(IF nobj = 0 THEN 1 ELSE nobj * size)

\* free(NULL) changes nothing.
Free(b) ==
  /\ ~halted
  /\ heap' = free(heap, b.p)
  /\ live' = live \ {b}
  /\ UNCHANGED halted

\* A smaller size is written over the size asked for, a larger one gets a
\* new block, and the old one is freed once its bytes are copied.  No bytes
\* at all is a free (the action Free), a null pointer a malloc.
Realloc(b, n) ==
  /\ ~halted /\ n > 0
  /\ LET o == Owner(heap, b.p)
         asked == heap.majors[o[1]].minors[o[2]].req_size
         grown == malloc(heap, n)
     IN  IF asked >= n
         THEN /\ heap' = [heap EXCEPT !.majors[o[1]].minors[o[2]].req_size = n]
              /\ live' = (live \ {b}) \cup {[b EXCEPT !.n = n]}
              /\ UNCHANGED halted
         ELSE IF Exhausted(heap, n) THEN Abort
         ELSE /\ heap' = free(grown.hp, b.p)
              /\ live' = (live \ {b}) \cup {[p |-> grown.p, n |-> n]}
              /\ UNCHANGED halted

Next ==
  \/ \E n \in Sizes : Malloc(n)
  \/ \E nobj \in {0, 2}, size \in Sizes :
       (nobj * size \in Sizes \cup {0}) /\ Calloc(nobj, size)
  \/ \E b \in live : Free(b)
  \/ \E b \in live, n \in Sizes : Realloc(b, n)

Spec == Init /\ [][Next]_vars

-----------------------------------------------------------------------------
\* Properties

Minors == Slots(heap)

MajorType ==
  [page : 0 .. NumPages - 1, pages : 1 .. NumPages, usage : Nat,
   minors : Seq([off : Nat, size : Nat, req_size : Nat])]

TypeOK ==
  /\ heap.majors \in Seq(MajorType)
  /\ heap.bestBet \in 0 .. NumPages - 1 \cup {None}
  /\ heap.pool \subseteq 0 .. NumPages - 1
  /\ heap.allocated \in Nat /\ heap.inuse \in Nat
  /\ halted \in BOOLEAN
  /\ \A b \in live : b.p \in Nat /\ b.n \in Nat

\* The minors of a major lie in their order inside its pages without
\* overlapping its header or one another; every page is in the pool or in
\* exactly one major; l_bestBet is no major that was given back
\* (liballoc.c:139-179, 294-441, 548-557).
Layout ==
  LET mine(i) == Run(heap.majors[i].page, heap.majors[i].pages)
      Majors == 1 .. Len(heap.majors)
  IN  /\ TypeOK
      /\ heap.bestBet # None => \E i \in Majors : heap.majors[i].page = heap.bestBet
      /\ \A i \in Majors : \A j \in 0 .. Len(heap.majors[i].minors) :
           GapStart(heap.majors[i], j) <= GapEnd(heap.majors[i], j)
      /\ \A i, k \in Majors : i # k => mine(i) \cap mine(k) = {}
      /\ heap.pool = (0 .. NumPages - 1) \ UNION {mine(i) : i \in Majors}

Payload(o) ==
  LET m == heap.majors[o[1]]
      min == m.minors[o[2]]
  IN  m.page * PageSize + min.off + h .. m.page * PageSize + min.off + h + min.size - 1

\* Whatever was freed and reused before, what a client was given is its own:
\* aligned, with all the bytes it asked for inside the payload of one minor,
\* of which it is the only owner; every minor has such a client, so nothing
\* leaks (liballoc.c:189-573).
ClientsOwnTheirBlocks ==
  /\ \A b \in live :
       /\ b.p % ALIGNMENT = 0
       /\ \E o \in Minors : Run(b.p - ALIGN_INFO, b.n + ALIGN_INFO) \subseteq Payload(o)
  /\ \A o \in Minors : \E b \in live :
       /\ b.p \in Payload(o)
       /\ b.n = heap.majors[o[1]].minors[o[2]].req_size
  /\ Cardinality(live) = Cardinality(Minors)

Total(s) ==
  LET upto[i \in 0 .. Len(s)] == IF i = 0 THEN 0 ELSE upto[i - 1] + s[i]
  IN  upto[Len(s)]

\* What the minors of a major take, without and with their headers.
Taken(m) == [j \in 1 .. Len(m.minors) |-> m.minors[j].size]
Charged(m) == [j \in 1 .. Len(m.minors) |-> m.minors[j].size + h]

\* The usage of every major and the two totals of meminfo are what the
\* chains say; an empty major is never kept (liballoc.c:313, 533-535, 548-557).
UsageExact ==
  /\ \A i \in 1 .. Len(heap.majors) :
       LET m == heap.majors[i]
       IN  /\ m.minors # <<>>
           /\ m.usage = H + Total(Charged(m))
  /\ heap.allocated = Total([i \in DOMAIN heap.majors |-> heap.majors[i].pages * PageSize])
  /\ heap.inuse = Total([i \in DOMAIN heap.majors |-> Total(Taken(heap.majors[i]))])

\* The heap asks for pages only when no major has a gap for the request,
\* wherever malloc began to look (liballoc.c:239-248, 276-281, 449-454).
GrowsOnlyWhenFull ==
  [][\A n \in Sizes :
       (\E b \in live' \ live : b.n = n) /\ ~(heap.pool \subseteq heap'.pool)
         => \A i \in 1 .. Len(heap.majors) : Fitting(heap.majors[i], n) = {}]_vars

\* liballoc.c:83 calls l_bestBet the major with the most free memory.
BetHasMostRoom ==
  heap.bestBet # None =>
    \A i \in 1 .. Len(heap.majors) : Room(heap.majors[i]) <= BetRoom(heap)

=============================================================================
