------------------------------ MODULE X86_proofs ------------------------------
(***************************************************************************)
(* Proofs about the two components of src/arch/x86 that keep tables for    *)
(* the processor:                                                          *)
(*   VirtMem, for every bitmap size, page-table shape, memory map and      *)
(*     allocation bound;                                                   *)
(*   IoApic, for every table that TablesSound allows, whichever I/O APICs  *)
(*     and overrides it has and in whatever order.                         *)
(***************************************************************************)
EXTENDS VirtMem, IoApic, TLAPS, FiniteSetTheorems, WellFoundedInduction

USE DEF Null, Run, Present, AbortMessages, InternalAborts

-----------------------------------------------------------------------------
(* Arithmetic of page runs and counters.                                   *)

\* Every page id is an integer and there is at least page 0.
LEMMA PagesNat ==
  /\ NumPages \in Nat \ {0}
  /\ \A p \in Pages : p \in Int /\ p \in Nat
  /\ 0 \in Pages
  BY ChunkAssumption DEF NumPages, Pages

\* A run of n frames that lies within the pages starts within them.
LEMMA RunStart ==
  ASSUME NEW p \in Int, NEW n \in Nat \ {0}, NEW S, Run(p, n) \subseteq S
  PROVE  p \in S
  <1>1. p \in p .. p + n - 1
    OBVIOUS
  <1> QED BY <1>1

\* The counts that page-table updates subtract and add are natural numbers.
LEMMA CountNat ==
  ASSUME NEW v \in Int, NEW n \in Int, NEW S, S \subseteq Run(v, n)
  PROVE  Cardinality(S) \in Nat
  <1>1. IsFiniteSet(v .. v + n - 1)
    BY FS_Interval
  <1> QED BY <1>1, FS_Subset, FS_CardinalityType

LEMMA MapCountType ==
  ASSUME NEW free \in [Dirs -> Int], NEW tbl, NEW v \in Int, NEW n \in Int
  PROVE  MapCount(free, tbl, v, n) \in [Dirs -> Int]
  <1> SUFFICES ASSUME NEW d \in Dirs
               PROVE  free[d] - Cardinality({w \in NewlyMapped(tbl, v, n) : DirOf(w) = d}) \in Int
    BY DEF MapCount
  <1>1. Cardinality({w \in NewlyMapped(tbl, v, n) : DirOf(w) = d}) \in Nat
    BY CountNat DEF NewlyMapped
  <1> QED BY <1>1

LEMMA UnmapCountType ==
  ASSUME NEW free \in [Dirs -> Int], NEW v \in Int, NEW n \in Int
  PROVE  UnmapCount(free, v, n) \in [Dirs -> Int]
  <1> SUFFICES ASSUME NEW d \in Dirs
               PROVE  free[d] + Cardinality({w \in Run(v, n) : DirOf(w) = d}) \in Int
    BY DEF UnmapCount
  <1>1. Cardinality({w \in Run(v, n) : DirOf(w) = d}) \in Nat
    BY CountNat
  <1> QED BY <1>1

-----------------------------------------------------------------------------
(* Type correctness.                                                       *)

\* What every operation leaves behind is well typed.
LEMMA MapRunType ==
  ASSUME NEW tbl \in [Pages -> Pages \cup {Absent}],
         NEW p \in Int, NEW v \in Int, NEW n \in Int, Run(p, n) \subseteq Pages
  PROVE  MapRun(tbl, p, v, n) \in [Pages -> Pages \cup {Absent}]
  <1> SUFFICES ASSUME NEW w \in Pages, w \in NewlyMapped(tbl, v, n)
               PROVE  p + (w - v) \in Pages
    BY DEF MapRun
  <1>1. w - v \in 0 .. n - 1
    BY PagesNat DEF NewlyMapped
  <1>2. p + (w - v) \in p .. p + n - 1
    BY <1>1
  <1> QED BY <1>2

LEMMA MapVirtType ==
  ASSUME TypeOK, NEW n \in 1 .. MaxAlloc, NEW p \in Pages,
         NEW v \in Pages \cup {OutOfRange}, v # Null,
         CanRegister(usage, p, n), MapVirt(p, v, n)
  PROVE  TypeOK'
  <1> USE MemAssumption, PagesNat
  <1>1. ASSUME NEW why \in AbortMessages, Abort(why) PROVE TypeOK'
    BY <1>1 DEF Abort, TypeOK
  <1>2. CASE /\ InRange(v, n)
             /\ usage' = Register(usage, p, n)
             /\ pt' = MapRun(pt, p, v, n)
             /\ dirfree' = MapCount(dirfree, pt, v, n)
             /\ held' = held \cup {[v |-> v, n |-> n]}
             /\ UNCHANGED <<phase, panic, last_usable, free_mem>>
    <2>1. usage' \subseteq Pages
      BY <1>2 DEF TypeOK, Register
    <2>2. Run(p, n) \subseteq Pages /\ n \in Int /\ p \in Int /\ v \in Int
      <3>1. usage \subseteq Pages
        BY DEF TypeOK
      <3> QED BY <1>2, <3>1 DEF CanRegister, OutOfRange
    <2>3. pt' \in [Pages -> Pages \cup {Absent}]
      BY <1>2, <2>2, MapRunType DEF TypeOK
    <2>4. dirfree' \in [Dirs -> Int]
      BY <1>2, <2>2, MapCountType DEF TypeOK
    <2>5. held' \subseteq HeldBlock
      <3>1. v \in Pages \ {0}
        BY <1>2 DEF InRange, OutOfRange, Pages
      <3>2. [v |-> v, n |-> n] \in HeldBlock
        BY <3>1 DEF HeldBlock
      <3> QED BY <1>2, <3>2 DEF TypeOK
    <2> QED BY <1>2, <2>1, <2>3, <2>4, <2>5 DEF TypeOK
  <1> QED BY <1>1, <1>2 DEF MapVirt

LEMMA TypeStep == TypeOK /\ [Next]_vars => TypeOK'
  <1> SUFFICES ASSUME TypeOK, [Next]_vars PROVE TypeOK'
    OBVIOUS
  <1> USE PagesNat, MemAssumption
  <1>a. ASSUME NEW why \in AbortMessages, Abort(why) PROVE TypeOK'
    BY <1>a DEF Abort, TypeOK
  <1>1. ASSUME NEW mmap \in MemoryMaps, X86Init(mmap) PROVE TypeOK'
    <2>1. PICK usable \in 0 .. BLOCK_MAX * Top, last \in Pages :
            \/ Abort("No Usable Memory")
            \/ Abort("page_count_expected==page_count")
            \/ /\ phase' = "parsed"
               /\ usage' = (FreedBy(Blocks(mmap)) \cap Pages)
                             \ Touched(KernelStartPage, KernelEndPage)
               /\ last_usable' = last
               /\ free_mem' = usable
               /\ UNCHANGED <<panic, pt, dirfree, held>>
      BY <1>1 DEF X86Init
    <2>2. usable \in Nat
      <3>1. Top \in Nat
        BY DEF Top
      <3>2. BLOCK_MAX * Top \in Int
        BY <3>1
      <3> QED BY <3>2
    <2>3. (FreedBy(Blocks(mmap)) \cap Pages)
            \ Touched(KernelStartPage, KernelEndPage) \subseteq Pages
      OBVIOUS
    <2> QED BY <1>a, <2>1, <2>2, <2>3 DEF TypeOK
  <1>2. CASE IDTSetup
    BY <1>2, <1>a DEF IDTSetup, TypeOK, Register
  <1>3. CASE X86PagingInit
    <2>1. ASSUME NEW U, NEW d, U \subseteq 0 .. last_usable
          PROVE  Cardinality({w \in U : DirOf(w) = d}) \in Nat
      <3>1. IsFiniteSet(0 .. last_usable)
        <4>1. last_usable \in Int
          BY PagesNat DEF TypeOK
        <4> QED BY <4>1, FS_Interval
      <3> QED BY <2>1, <3>1, FS_Subset, FS_CardinalityType
    <2> DEFINE rest == Register(usage, NextFreePhysPages(usage, DirPages), DirPages)
               free == rest \ Lowest(rest, NumDirs)
               used == (0 .. last_usable) \ free
    <2>2. CASE /\ phase' = "running" /\ usage' = free
               /\ pt' = [v \in Pages |-> IF v \in used \ {0} THEN v ELSE Absent]
               /\ dirfree' = [d \in Dirs |->
                    DirSize - Cardinality({v \in used : DirOf(v) = d})]
               /\ UNCHANGED <<panic, last_usable, free_mem, held>>
      <3>1. usage' \subseteq Pages
        BY <2>2 DEF TypeOK, Register
      <3>2. pt' \in [Pages -> Pages \cup {Absent}]
        BY <2>2
      <3>3. dirfree' \in [Dirs -> Int]
        <4> SUFFICES ASSUME NEW d \in Dirs
                     PROVE  DirSize - Cardinality({v \in used : DirOf(v) = d}) \in Int
          BY <2>2
        <4>1. Cardinality({v \in used : DirOf(v) = d}) \in Nat
          BY <2>1
        <4> QED BY <4>1, DirAssumption
      <3> QED BY <2>2, <3>1, <3>2, <3>3 DEF TypeOK
    <2> HIDE DEF rest, free, used
    <2> QED BY <1>3, <1>a, <2>2 DEF X86PagingInit, rest, free, used
  <1>4. ASSUME NEW n \in 1 .. MaxAlloc, AllocVirtPage(n) PROVE TypeOK'
    <2> PICK f \in FoundPages(n) : LET p == f[1]  v == f[2] IN
          \/ p = Null /\ Abort("Out of Physical Memory")
          \/ /\ p # Null /\ ~CanRegister(usage, p, n)
             /\ Abort("Trying to register non-free page")
          \/ /\ p # Null /\ CanRegister(usage, p, n)
             /\ v = Null /\ Abort("Out of Virtual Memory")
          \/ /\ p # Null /\ CanRegister(usage, p, n)
             /\ v # Null /\ MapVirt(p, v, n)
      BY <1>4 DEF AllocVirtPage
    <2>1. f[1] \in Pages /\ f[2] \in Pages \cup {OutOfRange}
      BY DEF FoundPages
    <2> QED BY <1>a, <2>1, MapVirtType
  <1>5. ASSUME NEW n \in 1 .. MaxAlloc, AllocVirtPageAllowFail(n) PROVE TypeOK'
    <2> PICK f \in FoundPages(n) : LET p == f[1]  v == f[2] IN
          \/ p = Null /\ UNCHANGED vars
          \/ /\ p # Null /\ ~CanRegister(usage, p, n)
             /\ Abort("Trying to register non-free page")
          \/ /\ p # Null /\ CanRegister(usage, p, n) /\ v = Null
             /\ usage' = Register(usage, p, n)
             /\ UNCHANGED <<phase, panic, last_usable, free_mem, pt, dirfree, held>>
          \/ /\ p # Null /\ CanRegister(usage, p, n)
             /\ v # Null /\ MapVirt(p, v, n)
      BY <1>5 DEF AllocVirtPageAllowFail
    <2>1. f[1] \in Pages /\ f[2] \in Pages \cup {OutOfRange}
      BY DEF FoundPages
    <2>2. CASE UNCHANGED vars
      BY <2>2 DEF vars, TypeOK
    <2>3. CASE /\ usage' = Register(usage, f[1], n)
               /\ UNCHANGED <<phase, panic, last_usable, free_mem, pt, dirfree, held>>
      BY <2>3 DEF TypeOK, Register
    <2> QED BY <1>a, <2>1, <2>2, <2>3, MapVirtType
  <1>6. ASSUME NEW b \in held, FreeVirtPage(b) PROVE TypeOK'
    <2>1. b.v \in Pages /\ b.v \in Int /\ b.n \in Int
      <3>1. b \in HeldBlock
        BY DEF TypeOK
      <3> QED BY <3>1 DEF HeldBlock
    <2>2. UnmapRun(pt, b.v, b.n) \in [Pages -> Pages \cup {Absent}]
      BY DEF TypeOK, UnmapRun
    <2>3. UnmapCount(dirfree, b.v, b.n) \in [Dirs -> Int]
      BY <2>1, UnmapCountType DEF TypeOK
    <2>4. CASE /\ CanFree(usage, GetMappingVirt(pt, b.v), b.n)
               /\ usage' = Free(usage, GetMappingVirt(pt, b.v), b.n)
               /\ pt' = UnmapRun(pt, b.v, b.n)
               /\ dirfree' = UnmapCount(dirfree, b.v, b.n)
               /\ held' = held \ {b}
               /\ UNCHANGED <<phase, panic, last_usable, free_mem>>
      <3>1. usage' \subseteq Pages
        BY <2>4 DEF TypeOK, Free, CanFree
      <3> QED BY <2>2, <2>3, <2>4, <3>1 DEF TypeOK
    <2> QED BY <1>6, <1>a, <2>4 DEF FreeVirtPage
  <1>7. ASSUME NEW r \in FirmwareRuns, IdentityMap(r) PROVE TypeOK'
    <2>1. r[1] \in Int /\ r[2] \in Int /\ Run(r[1], r[2]) \subseteq Pages
      BY FirmwareAssumption DEF InRange, Pages
    <2>2. MapRun(pt, r[1], r[1], r[2]) \in [Pages -> Pages \cup {Absent}]
      BY <2>1, MapRunType DEF TypeOK
    <2>3. MapCount(dirfree, pt, r[1], r[2]) \in [Dirs -> Int]
      BY <2>1, MapCountType DEF TypeOK
    <2>4. CASE /\ pt' = MapRun(pt, r[1], r[1], r[2])
               /\ dirfree' = MapCount(dirfree, pt, r[1], r[2])
               /\ UNCHANGED <<phase, panic, usage, last_usable, free_mem, held>>
      BY <2>2, <2>3, <2>4 DEF TypeOK
    <2> QED BY <1>7, <1>a, <2>4 DEF IdentityMap
  <1>8. CASE MapNull
    BY <1>8 DEF MapNull, TypeOK
  <1>9. CASE UnmapNull
    BY <1>9 DEF UnmapNull, TypeOK
  <1>10. CASE UNCHANGED vars
    BY <1>10 DEF vars, TypeOK
  <1> QED BY <1>1, <1>2, <1>3, <1>4, <1>5, <1>6, <1>7, <1>8, <1>9, <1>10 DEF Next

\* The memory manager's state is always well typed: whatever the memory map and
\* the requests, bitmap, page tables and counters hold page ids and integers.
THEOREM TypeCorrect == Spec => []TypeOK
  <1>1. Init => TypeOK
    BY PagesNat, DirAssumption DEF Init, TypeOK, HeldBlock
  <1> QED BY <1>1, TypeStep, PTL DEF Spec

-----------------------------------------------------------------------------
(* Safety.                                                                 *)

\* The reserved frames are mapped onto themselves or not at all, and are in no
\* block: without this an identity map could meet a block's frame.
ReservedIdentity ==
  \A v \in Pages : Present(pt, v) /\ pt[v] \in Reserved => pt[v] = v

HeldNotReserved ==
  \A b \in held : \A w \in Run(b.v, b.n) : pt[w] \notin Reserved

\* Before paging is on there is nothing to map or hold.
NothingBeforePaging ==
  phase # "running" => held = {} /\ \A v \in Pages : ~Present(pt, v)

SafeInv ==
  /\ TypeOK
  /\ NothingBeforePaging
  /\ usage \cap Reserved = {}
  /\ MappedNotFree
  /\ NoAliasing
  /\ HeldContiguous
  /\ HeldDisjoint
  /\ ReservedIdentity
  /\ HeldNotReserved

\* Every page of a held block is mapped, and not page 0.
LEMMA HeldPages ==
  ASSUME TypeOK, HeldContiguous, NEW b \in held, NEW w \in Run(b.v, b.n)
  PROVE  /\ w \in Pages \ {0} /\ Present(pt, w)
         /\ b.v \in Pages \ {0} /\ b.n \in 1 .. MaxAlloc
         /\ pt[b.v] \in Pages /\ pt[w] = pt[b.v] + (w - b.v)
  <1>1. b.v \in Pages \ {0} /\ b.n \in 1 .. MaxAlloc
    <2>1. b \in HeldBlock
      BY DEF TypeOK
    <2> QED BY <2>1 DEF HeldBlock
  <1>2. b.v \in Nat /\ b.v # 0 /\ b.n \in Int /\ b.n >= 1
    BY <1>1, PagesNat, MemAssumption
  <1>3. w - b.v \in 0 .. b.n - 1 /\ b.v + (w - b.v) = w /\ w # 0
    BY <1>2
  <1>4. /\ w \in Pages /\ Present(pt, b.v) /\ Present(pt, w)
        /\ pt[w] = pt[b.v] + (w - b.v)
    BY <1>3 DEF HeldContiguous
  <1>5. pt[b.v] \in Pages
    BY <1>1, <1>4 DEF TypeOK
  <1> QED BY <1>1, <1>3, <1>4, <1>5

\* The frames of a block are the n contiguous ones from the frame of its first
\* page: what free_virt_page takes them to be.
LEMMA HeldFrames ==
  ASSUME TypeOK, HeldContiguous, NEW b \in held
  PROVE  Run(GetMappingVirt(pt, b.v), b.n) = Frames(b)
  <1>1. b.v \in Pages \ {0} /\ b.n \in 1 .. MaxAlloc
    <2>1. b \in HeldBlock
      BY DEF TypeOK
    <2> QED BY <2>1 DEF HeldBlock
  <1>2. b.v \in Int /\ b.n \in Int /\ b.n >= 1
    BY <1>1, PagesNat, MemAssumption
  <1>3. b.v \in Run(b.v, b.n)
    BY <1>2
  <1>4. Present(pt, b.v) /\ pt[b.v] \in Int
    BY <1>3, HeldPages, PagesNat
  <1>5. GetMappingVirt(pt, b.v) = pt[b.v]
    BY <1>4 DEF GetMappingVirt
  <1>6. \A w \in Run(b.v, b.n) : pt[w] = pt[b.v] + (w - b.v)
    BY HeldPages
  <1>7. ASSUME NEW x \in Run(pt[b.v], b.n) PROVE x \in Frames(b)
    <2>1. b.v + (x - pt[b.v]) \in Run(b.v, b.n)
      BY <1>2, <1>4
    <2>2. pt[b.v + (x - pt[b.v])] = x
      BY <1>2, <1>4, <1>6, <2>1
    <2> QED BY <2>1, <2>2 DEF Frames
  <1>8. ASSUME NEW w \in Run(b.v, b.n) PROVE pt[w] \in Run(pt[b.v], b.n)
    BY <1>2, <1>4, <1>6
  <1> QED BY <1>5, <1>7, <1>8 DEF Frames

\* A block stays contiguous in any page table that keeps its entries.
LEMMA KeptContiguous ==
  ASSUME TypeOK, HeldContiguous, NEW c \in held, NEW tbl,
         \A w \in Run(c.v, c.n) : tbl[w] = pt[w], NEW i \in 0 .. c.n - 1
  PROVE  /\ c.v + i \in Pages
         /\ Present(tbl, c.v) /\ Present(tbl, c.v + i)
         /\ tbl[c.v + i] = tbl[c.v] + i
  <1>1. c \in HeldBlock
    BY DEF TypeOK
  <1>2. c.v \in Int /\ c.n \in Int /\ c.n >= 1 /\ i \in Int
    BY <1>1, PagesNat, MemAssumption DEF HeldBlock
  <1>3. c.v \in Run(c.v, c.n) /\ c.v + i \in Run(c.v, c.n)
    BY <1>2
  <1>4. tbl[c.v] = pt[c.v] /\ tbl[c.v + i] = pt[c.v + i]
    BY <1>3
  <1> QED BY <1>4 DEF HeldContiguous

\* What MapRun does to a run of absent pages.
LEMMA MapRunFresh ==
  ASSUME NEW tbl, NEW p, NEW v, NEW n,
         \A w \in Run(v, n) : ~Present(tbl, w)
  PROVE  \A w \in Pages :
           MapRun(tbl, p, v, n)[w] = IF w \in Run(v, n) THEN p + (w - v) ELSE tbl[w]
  BY DEF MapRun, NewlyMapped

\* A successful allocation keeps the invariant.
LEMMA MapVirtSafe ==
  ASSUME SafeInv, Running, NEW n \in 1 .. MaxAlloc, NEW p \in Pages,
         NEW v \in Pages \cup {OutOfRange}, v # Null,
         CanRegister(usage, p, n), InRange(v, n), MayMap(pt, p, v, n, FALSE),
         usage' = Register(usage, p, n), pt' = MapRun(pt, p, v, n),
         held' = held \cup {[v |-> v, n |-> n]},
         phase' = phase, TypeOK'
  PROVE  SafeInv'
  <1> USE PagesNat, MemAssumption
  <1> DEFINE b == [v |-> v, n |-> n]
  <1>1. /\ v \in Nat /\ v # 0 /\ p \in Nat /\ n \in Int /\ n >= 1
        /\ b.v = v /\ b.n = n
    BY DEF OutOfRange
  <1>2. Run(v, n) \subseteq Pages \ {0}
    BY <1>1 DEF InRange, Pages
  <1>3. \A w \in Run(v, n) : ~Present(pt, w)
    BY DEF MayMap
  <1>4. \A w \in Pages : pt'[w] = IF w \in Run(v, n) THEN p + (w - v) ELSE pt[w]
    BY <1>3, MapRunFresh
  <1>5. ASSUME NEW w \in Run(v, n)
        PROVE  /\ p + (w - v) \in Run(p, n) /\ p + (w - v) \in usage
               /\ p + (w - v) \in Pages /\ Present(pt', w)
    <2>1. p + (w - v) \in Run(p, n)
      BY <1>1
    <2>2. Run(p, n) \subseteq usage /\ usage \subseteq Pages
      BY DEF CanRegister, SafeInv, TypeOK
    <2> QED BY <1>2, <1>4, <2>1, <2>2, AbsentAssumption
  <1>6. ASSUME NEW c \in held, NEW w \in Run(c.v, c.n)
        PROVE  w \in Pages /\ w \notin Run(v, n) /\ pt'[w] = pt[w]
    BY <1>3, <1>4, HeldPages DEF SafeInv
  <1>7. (NothingBeforePaging)'
    BY DEF NothingBeforePaging, Running
  <1>8. (usage \cap Reserved)' = {}
    BY DEF SafeInv, Register, Reserved
  <1>9. MappedNotFree'
    <2> SUFFICES ASSUME NEW w \in Pages, Present(pt', w)
                 PROVE  pt'[w] \notin usage'
      BY DEF MappedNotFree
    <2>1. CASE w \in Run(v, n)
      BY <1>4, <1>5, <2>1 DEF Register
    <2>2. CASE w \notin Run(v, n)
      BY <1>4, <2>2 DEF Register, SafeInv, MappedNotFree
    <2> QED BY <2>1, <2>2
  <1>10. NoAliasing'
    <2> SUFFICES ASSUME NEW w \in Pages, NEW x \in Pages, w # x,
                        Present(pt', w), Present(pt', x), pt'[w] = pt'[x]
                 PROVE  FALSE
      BY DEF NoAliasing
    <2>1. CASE w \in Run(v, n) /\ x \in Run(v, n)
      BY <1>1, <1>4, <2>1
    <2>2. CASE w \notin Run(v, n) /\ x \notin Run(v, n)
      BY <1>4, <2>2 DEF SafeInv, NoAliasing
    <2>3. CASE w \in Run(v, n) /\ x \notin Run(v, n)
      BY <1>4, <1>5, <2>3 DEF SafeInv, MappedNotFree
    <2>4. CASE w \notin Run(v, n) /\ x \in Run(v, n)
      BY <1>4, <1>5, <2>4 DEF SafeInv, MappedNotFree
    <2> QED BY <2>1, <2>2, <2>3, <2>4
  <1>11. HeldContiguous'
    <2> SUFFICES ASSUME NEW c \in held \cup {b}, NEW i \in 0 .. c.n - 1
                 PROVE  /\ c.v + i \in Pages
                        /\ Present(pt', c.v) /\ Present(pt', c.v + i)
                        /\ pt'[c.v + i] = pt'[c.v] + i
      BY DEF HeldContiguous
    <2>1. CASE c = b
      <3>1. v + i \in Run(v, n) /\ v \in Run(v, n) /\ c.v = v /\ c.n = n /\ i \in Int
        BY <1>1, <2>1
      <3>2. pt'[v + i] = p + i /\ pt'[v] = p
        BY <1>1, <1>2, <1>4, <3>1
      <3> QED BY <1>2, <1>5, <3>1, <3>2
    <2>2. CASE c \in held
      BY <1>6, <2>2, KeptContiguous DEF SafeInv
    <2> QED BY <2>1, <2>2
  <1>12. HeldDisjoint'
    <2>1. \A c \in held : Run(c.v, c.n) \cap Run(v, n) = {}
      BY <1>6
    <2>2. \A c, d \in held : c # d => Run(c.v, c.n) \cap Run(d.v, d.n) = {}
      BY DEF SafeInv, HeldDisjoint
    <2> QED BY <1>1, <2>1, <2>2 DEF HeldDisjoint
  <1>13. ReservedIdentity'
    <2> SUFFICES ASSUME NEW w \in Pages, Present(pt', w), pt'[w] \in Reserved
                 PROVE  pt'[w] = w
      BY DEF ReservedIdentity, Reserved
    <2>1. w \notin Run(v, n)
      BY <1>4, <1>5 DEF SafeInv
    <2> QED BY <1>4, <2>1 DEF SafeInv, ReservedIdentity
  <1>14. HeldNotReserved'
    <2> SUFFICES ASSUME NEW c \in held \cup {b}, NEW w \in Run(c.v, c.n)
                 PROVE  pt'[w] \notin Reserved
      BY DEF HeldNotReserved, Reserved
    <2>1. CASE c = b
      BY <1>1, <1>2, <1>4, <1>5, <2>1 DEF SafeInv
    <2>2. CASE c \in held
      BY <1>6, <2>2 DEF SafeInv, HeldNotReserved
    <2> QED BY <2>1, <2>2
  <1> QED BY <1>7, <1>8, <1>9, <1>10, <1>11, <1>12, <1>13, <1>14 DEF SafeInv

\* A step that changes none of what the invariant speaks of keeps it.
LEMMA FrameStep ==
  ASSUME SafeInv, TypeOK', UNCHANGED <<phase, usage, pt, held>>
  PROVE  SafeInv'
  BY DEF SafeInv, NothingBeforePaging, MappedNotFree, NoAliasing, HeldContiguous,
         HeldDisjoint, ReservedIdentity, HeldNotReserved, Reserved

\* Registering free frames without mapping them keeps the invariant.
LEMMA RegisterSafe ==
  ASSUME SafeInv, TypeOK', usage' \subseteq usage, UNCHANGED <<phase, pt, held>>
  PROVE  SafeInv'
  BY DEF SafeInv, NothingBeforePaging, MappedNotFree, NoAliasing, HeldContiguous,
         HeldDisjoint, ReservedIdentity, HeldNotReserved, Reserved

\* free_virt_page on a held block neither aborts nor disturbs another block.
LEMMA FreeSafe ==
  ASSUME SafeInv, Running, NEW b \in held, FreeVirtPage(b), TypeOK'
  PROVE  /\ SafeInv'
         /\ usage' = usage \cup Frames(b) /\ held' = held \ {b}
         /\ pt' = UnmapRun(pt, b.v, b.n) /\ phase' = phase
  <1> DEFINE p == GetMappingVirt(pt, b.v)
  <1>1. Run(p, b.n) = Frames(b)
    BY HeldFrames DEF SafeInv
  <1>2. \A w \in Run(b.v, b.n) : w \in Pages /\ Present(pt, w) /\ pt[w] \in Pages
    <2> TAKE w \in Run(b.v, b.n)
    <2>1. w \in Pages /\ Present(pt, w)
      BY HeldPages DEF SafeInv
    <2> QED BY <2>1 DEF SafeInv, TypeOK
  <1>3. CanFree(usage, p, b.n)
    <2>1. Frames(b) \subseteq Pages \ usage
      BY <1>2 DEF Frames, SafeInv, MappedNotFree
    <2> QED BY <1>1, <2>1 DEF CanFree
  <1>4. MayUnmap(pt, b.v, b.n)
    BY <1>2 DEF MayUnmap
  <1>5. /\ usage' = usage \cup Frames(b) /\ held' = held \ {b}
        /\ pt' = UnmapRun(pt, b.v, b.n) /\ phase' = phase
    BY <1>1, <1>3, <1>4 DEF FreeVirtPage, Free
  <1>6. \A w \in Pages : pt'[w] = IF w \in Run(b.v, b.n) THEN Absent ELSE pt[w]
    BY <1>5 DEF UnmapRun
  <1>7. ASSUME NEW c \in held', NEW w \in Run(c.v, c.n)
        PROVE  c \in held /\ w \in Pages /\ pt'[w] = pt[w]
    <2>1. c \in held /\ c # b
      BY <1>5
    <2>2. w \notin Run(b.v, b.n)
      BY <2>1 DEF SafeInv, HeldDisjoint
    <2>3. w \in Pages
      BY <2>1, HeldPages DEF SafeInv
    <2> QED BY <1>6, <2>1, <2>2, <2>3
  <1>8. (NothingBeforePaging)'
    BY <1>5 DEF NothingBeforePaging, Running
  <1>9. (usage \cap Reserved)' = {}
    BY <1>5 DEF SafeInv, HeldNotReserved, Frames, Reserved
  <1>10. MappedNotFree'
    <2> SUFFICES ASSUME NEW w \in Pages, Present(pt', w)
                 PROVE  pt'[w] \notin usage'
      BY DEF MappedNotFree
    <2>1. w \notin Run(b.v, b.n) /\ pt'[w] = pt[w] /\ Present(pt, w)
      BY <1>6
    <2>2. pt[w] \notin Frames(b)
      BY <1>2, <2>1 DEF Frames, SafeInv, NoAliasing
    <2> QED BY <1>5, <2>1, <2>2 DEF SafeInv, MappedNotFree
  <1>11. NoAliasing'
    BY <1>6 DEF SafeInv, NoAliasing
  <1>12. HeldContiguous'
    <2> SUFFICES ASSUME NEW c \in held', NEW i \in 0 .. c.n - 1
                 PROVE  /\ c.v + i \in Pages
                        /\ Present(pt', c.v) /\ Present(pt', c.v + i)
                        /\ pt'[c.v + i] = pt'[c.v] + i
      BY DEF HeldContiguous
    <2>1. c \in held /\ \A w \in Run(c.v, c.n) : pt'[w] = pt[w]
      BY <1>5, <1>7
    <2> QED BY <2>1, KeptContiguous DEF SafeInv
  <1>13. HeldDisjoint'
    BY <1>5 DEF SafeInv, HeldDisjoint
  <1>14. ReservedIdentity'
    BY <1>6 DEF SafeInv, ReservedIdentity, Reserved
  <1>15. HeldNotReserved'
    BY <1>7 DEF SafeInv, HeldNotReserved, Reserved
  <1> HIDE DEF p
  <1> QED BY <1>5, <1>8, <1>9, <1>10, <1>11, <1>12, <1>13, <1>14, <1>15 DEF SafeInv

\* Identity-mapping a firmware run aborts or only adds v -> v for reserved v.
LEMMA IdentityMapSafe ==
  ASSUME SafeInv, Running, NEW r \in FirmwareRuns, TypeOK',
         MayMap(pt, r[1], r[1], r[2], TRUE),
         pt' = MapRun(pt, r[1], r[1], r[2]), UNCHANGED <<phase, usage, held>>
  PROVE  /\ SafeInv'
         /\ \A w \in Pages : Present(pt, w) => pt'[w] = pt[w]
  <1>1. r[1] \in Int /\ r[2] \in Int /\ Run(r[1], r[2]) \subseteq Pages
    BY FirmwareAssumption, PagesNat DEF InRange, Pages
  <1>2. Run(r[1], r[2]) \subseteq Reserved
    BY DEF Reserved
  <1>3. ASSUME NEW w \in Pages
        PROVE  \/ Present(pt, w) /\ pt'[w] = pt[w]
               \/ ~Present(pt, w) /\ w \in Reserved /\ pt'[w] = w
               \/ ~Present(pt, w) /\ ~Present(pt', w)
    <2>1. CASE w \in NewlyMapped(pt, r[1], r[2])
      <3>1. pt'[w] = r[1] + (w - r[1])
        BY <2>1 DEF MapRun
      <3>2. w \in Int
        BY PagesNat
      <3>3. pt'[w] = w
        BY <1>1, <3>1, <3>2
      <3> QED BY <1>2, <2>1, <3>3 DEF NewlyMapped
    <2>2. CASE w \notin NewlyMapped(pt, r[1], r[2])
      BY <2>2 DEF MapRun
    <2> QED BY <2>1, <2>2
  <1>4. \A c \in held : \A w \in Run(c.v, c.n) : w \in Pages /\ Present(pt, w) /\ pt'[w] = pt[w]
    BY <1>3, HeldPages DEF SafeInv
  <1>5. (NothingBeforePaging)'
    BY DEF NothingBeforePaging, Running
  <1>6. (usage \cap Reserved)' = {}
    BY DEF SafeInv, Reserved
  <1>7. MappedNotFree'
    BY <1>3 DEF SafeInv, MappedNotFree
  <1>8. NoAliasing'
    <2> SUFFICES ASSUME NEW w \in Pages, NEW x \in Pages, w # x,
                        Present(pt', w), Present(pt', x), pt'[w] = pt'[x]
                 PROVE  FALSE
      BY DEF NoAliasing
    <2>1. CASE Present(pt, w) /\ Present(pt, x)
      BY <1>3, <2>1 DEF SafeInv, NoAliasing
    <2>2. CASE ~Present(pt, w) /\ ~Present(pt, x)
      BY <1>3, <2>2
    <2>3. CASE Present(pt, w) /\ ~Present(pt, x)
      BY <1>3, <2>3 DEF SafeInv, ReservedIdentity
    <2>4. CASE ~Present(pt, w) /\ Present(pt, x)
      BY <1>3, <2>4 DEF SafeInv, ReservedIdentity
    <2> QED BY <2>1, <2>2, <2>3, <2>4
  <1>9. HeldContiguous'
    <2> SUFFICES ASSUME NEW c \in held, NEW i \in 0 .. c.n - 1
                 PROVE  /\ c.v + i \in Pages
                        /\ Present(pt', c.v) /\ Present(pt', c.v + i)
                        /\ pt'[c.v + i] = pt'[c.v] + i
      BY DEF HeldContiguous
    <2> QED BY <1>4, KeptContiguous DEF SafeInv
  <1>10. HeldDisjoint'
    BY DEF SafeInv, HeldDisjoint
  <1>11. ReservedIdentity'
    BY <1>3 DEF SafeInv, ReservedIdentity, Reserved
  <1>12. HeldNotReserved'
    BY <1>4 DEF SafeInv, HeldNotReserved, Reserved
  <1> QED BY <1>3, <1>5, <1>6, <1>7, <1>8, <1>9, <1>10, <1>11, <1>12 DEF SafeInv

\* map_null and unmap_null touch page 0 only, which is in no block.
LEMMA NullMapSafe ==
  ASSUME SafeInv, Running, TypeOK', MapNull \/ UnmapNull
  PROVE  /\ SafeInv'
         /\ \A w \in Pages \ {0} : pt'[w] = pt[w]
         /\ UNCHANGED <<phase, usage, held>>
  <1> USE PagesNat
  <1>1. /\ UNCHANGED <<phase, usage, held>>
        /\ \A w \in Pages \ {0} : pt'[w] = pt[w]
        /\ ~Present(pt', 0) \/ pt'[0] = 0
    BY DEF MapNull, UnmapNull, SafeInv, TypeOK
  <1>2. 0 \in Reserved
    BY DEF Reserved
  <1>3. \A c \in held : \A w \in Run(c.v, c.n) : w \in Pages /\ pt'[w] = pt[w]
    BY <1>1, HeldPages DEF SafeInv
  <1>4. (NothingBeforePaging)'
    BY <1>1 DEF NothingBeforePaging, Running
  <1>5. (usage \cap Reserved)' = {}
    BY <1>1 DEF SafeInv, Reserved
  <1>6. MappedNotFree'
    BY <1>1, <1>2 DEF SafeInv, MappedNotFree
  <1>7. NoAliasing'
    <2> SUFFICES ASSUME NEW w \in Pages, NEW x \in Pages, w # x,
                        Present(pt', w), Present(pt', x), pt'[w] = pt'[x]
                 PROVE  FALSE
      BY DEF NoAliasing
    <2>1. CASE w # 0 /\ x # 0
      BY <1>1, <2>1 DEF SafeInv, NoAliasing
    <2>2. CASE w = 0 \/ x = 0
      BY <1>1, <1>2, <2>2 DEF SafeInv, ReservedIdentity
    <2> QED BY <2>1, <2>2
  <1>8. HeldContiguous'
    <2> SUFFICES ASSUME NEW c \in held, NEW i \in 0 .. c.n - 1
                 PROVE  /\ c.v + i \in Pages
                        /\ Present(pt', c.v) /\ Present(pt', c.v + i)
                        /\ pt'[c.v + i] = pt'[c.v] + i
      BY <1>1 DEF HeldContiguous
    <2> QED BY <1>3, KeptContiguous DEF SafeInv
  <1>9. HeldDisjoint'
    BY <1>1 DEF SafeInv, HeldDisjoint
  <1>10. ReservedIdentity'
    BY <1>1 DEF SafeInv, ReservedIdentity, Reserved
  <1>11. HeldNotReserved'
    BY <1>1, <1>3 DEF SafeInv, HeldNotReserved, Reserved
  <1> QED BY <1>1, <1>4, <1>5, <1>6, <1>7, <1>8, <1>9, <1>10, <1>11 DEF SafeInv

\* Paging starts with every non-free page mapped onto itself and no block held.
LEMMA PagingInitSafe ==
  ASSUME SafeInv, X86PagingInit, TypeOK', panic' = "none"
  PROVE  SafeInv' /\ phase = "idt" /\ phase' = "running" /\ held' = {}
  <1> USE PagesNat
  <1> DEFINE rest == Register(usage, NextFreePhysPages(usage, DirPages), DirPages)
             free == rest \ Lowest(rest, NumDirs)
             used == (0 .. last_usable) \ free
  <1>1. /\ phase = "idt" /\ phase' = "running" /\ usage' = free
        /\ pt' = [v \in Pages |-> IF v \in used \ {0} THEN v ELSE Absent]
        /\ held' = held
    BY DEF X86PagingInit, Abort
  <1>2. free \subseteq usage
    BY DEF Register
  <1>3. \A v \in Pages : Present(pt', v) => pt'[v] = v /\ v \notin usage'
    BY <1>1
  <1>4. held' = {}
    BY <1>1 DEF SafeInv, NothingBeforePaging
  <1> HIDE DEF rest, free, used
  <1>5. (usage \cap Reserved)' = {}
    BY <1>1, <1>2 DEF SafeInv, Reserved
  <1>6. MappedNotFree' /\ NoAliasing' /\ ReservedIdentity'
    BY <1>3 DEF MappedNotFree, NoAliasing, ReservedIdentity
  <1>7. HeldContiguous' /\ HeldDisjoint' /\ HeldNotReserved' /\ (NothingBeforePaging)'
    BY <1>1, <1>4 DEF HeldContiguous, HeldDisjoint, HeldNotReserved, NothingBeforePaging
  <1> QED BY <1>1, <1>4, <1>5, <1>6, <1>7 DEF SafeInv

\* The memory map frees no reserved page, if it is one that may be relied on.
LEMMA X86InitSafe ==
  ASSUME ReservedStaysReserved, SafeInv, TypeOK', NEW mmap \in MemoryMaps,
         X86Init(mmap), panic' = "none"
  PROVE  SafeInv' /\ phase' = "parsed" /\ UNCHANGED <<pt, held>>
  <1>1. /\ phase = "reset" /\ phase' = "parsed" /\ UNCHANGED <<pt, held>>
        /\ usage' \subseteq FreedBy(Blocks(mmap))
    BY DEF X86Init, Abort
  <1>2. NothingBeforePaging /\ held = {} /\ \A v \in Pages : ~Present(pt, v)
    BY <1>1 DEF SafeInv, NothingBeforePaging
  <1>3. (usage \cap Reserved)' = {}
    BY <1>1 DEF ReservedStaysReserved, Reserved
  <1> QED BY <1>1, <1>2, <1>3 DEF SafeInv, NothingBeforePaging, MappedNotFree,
             NoAliasing, HeldContiguous, HeldDisjoint, ReservedIdentity, HeldNotReserved
-----------------------------------------------------------------------------
(* What a step can be, seen from the clients.                              *)

\* A step clients cannot see: before paging, an abort, an identity map.
Quiet ==
  /\ phase = "running" <=> phase' = "running"
  /\ phase = "running" => usage' = usage
  /\ held' = held
  /\ \A b \in held : \A w \in Run(b.v, b.n) : pt'[w] = pt[w]

Opens == /\ phase # "running" /\ phase' = "running"
         /\ held = {} /\ held' = {}

Takes(p, v, n) ==
  /\ phase = "running" /\ phase' = "running"
  /\ v \in Pages \ {0} /\ n \in 1 .. MaxAlloc /\ p \in Pages
  /\ Run(p, n) \subseteq usage /\ usage' = usage \ Run(p, n)
  /\ held' = held \cup {[v |-> v, n |-> n]}
  /\ \A w \in Run(v, n) : w \in Pages /\ ~Present(pt, w) /\ pt'[w] = p + (w - v)
  /\ \A b \in held : \A w \in Run(b.v, b.n) : pt'[w] = pt[w]

Gives(b) ==
  /\ phase = "running" /\ phase' = "running"
  /\ usage' = usage \cup Frames(b) /\ held' = held \ {b}
  /\ \A c \in held \ {b} : \A w \in Run(c.v, c.n) : pt'[w] = pt[w]

Loses(p, n) ==
  /\ phase = "running" /\ phase' = "running"
  /\ p \in Pages /\ n \in 1 .. MaxAlloc
  /\ Run(p, n) \subseteq usage /\ usage' = usage \ Run(p, n)
  /\ held' = held /\ pt' = pt

ClientStep ==
  \/ Quiet
  \/ Opens
  \/ \E p \in Pages, v \in Pages, n \in 1 .. MaxAlloc : Takes(p, v, n)
  \/ \E p \in Pages, n \in 1 .. MaxAlloc : Loses(p, n)
  \/ \E b \in held : Gives(b)

\* An aborting call keeps the invariant, and clients see nothing.
LEMMA AbortStep ==
  ASSUME SafeInv, TypeOK', UNCHANGED <<phase, usage, pt, held>>
  PROVE  SafeInv' /\ ClientStep
  BY FrameStep DEF ClientStep, Quiet

\* An allocation that finds p and v takes them, or aborts.
LEMMA MapVirtStep ==
  ASSUME SafeInv, TypeOK', Running, NEW n \in 1 .. MaxAlloc, NEW p \in Pages,
         NEW v \in Pages \cup {OutOfRange}, v # Null,
         CanRegister(usage, p, n), MapVirt(p, v, n)
  PROVE  SafeInv' /\ ClientStep
  <1> USE PagesNat, MemAssumption
  <1>1. ASSUME NEW why, Abort(why) PROVE SafeInv' /\ ClientStep
    BY <1>1, AbortStep DEF Abort
  <1>2. CASE /\ InRange(v, n) /\ MayMap(pt, p, v, n, FALSE)
             /\ usage' = Register(usage, p, n)
             /\ pt' = MapRun(pt, p, v, n)
             /\ dirfree' = MapCount(dirfree, pt, v, n)
             /\ held' = held \cup {[v |-> v, n |-> n]}
             /\ UNCHANGED <<phase, panic, last_usable, free_mem>>
    <2>1. SafeInv'
      BY <1>2, MapVirtSafe
    <2>2. v \in Int /\ v # 0 /\ n \in Int /\ n >= 1
      BY DEF OutOfRange
    <2>3. v \in Pages \ {0} /\ Run(v, n) \subseteq Pages
      BY <1>2, <2>2 DEF InRange, Pages, OutOfRange
    <2>4. \A w \in Run(v, n) : ~Present(pt, w)
      BY <1>2 DEF MayMap
    <2>5. \A w \in Pages : pt'[w] = IF w \in Run(v, n) THEN p + (w - v) ELSE pt[w]
      BY <1>2, <2>4, MapRunFresh
    <2>6. \A b \in held : \A w \in Run(b.v, b.n) : w \in Pages /\ w \notin Run(v, n)
      BY <2>4, HeldPages DEF SafeInv
    <2>7. Takes(p, v, n)
      BY <1>2, <2>3, <2>4, <2>5, <2>6 DEF Takes, Running, Register, CanRegister
    <2> QED BY <2>1, <2>3, <2>7 DEF ClientStep
  <1> QED BY <1>1, <1>2 DEF MapVirt

LEMMA SafeStep ==
  ASSUME ReservedStaysReserved, SafeInv, [Next]_vars
  PROVE  SafeInv' /\ ClientStep
  <1> USE PagesNat, MemAssumption
  <1>t. TypeOK'
    BY TypeStep DEF SafeInv
  <1>a. ASSUME NEW why, Abort(why) PROVE SafeInv' /\ ClientStep
    BY <1>a, <1>t, AbortStep DEF Abort
  <1>1. ASSUME NEW mmap \in MemoryMaps, X86Init(mmap) PROVE SafeInv' /\ ClientStep
    <2>1. CASE panic' = "none"
      <3>1. SafeInv' /\ phase' = "parsed" /\ UNCHANGED <<pt, held>> /\ phase = "reset"
        BY <1>1, <1>t, <2>1, X86InitSafe DEF X86Init
      <3> QED BY <3>1 DEF ClientStep, Quiet
    <2>2. CASE \E why \in {"No Usable Memory", "page_count_expected==page_count"} : Abort(why)
      BY <1>a, <2>2
    <2>3. (panic' = "none") \/ \E why \in {"No Usable Memory", "page_count_expected==page_count"} : Abort(why)
      BY <1>1 DEF X86Init
    <2> QED BY <2>1, <2>2, <2>3
  <1>2. CASE IDTSetup
    <2>1. CASE /\ phase' = "idt" /\ usage' \subseteq usage
               /\ UNCHANGED <<panic, last_usable, free_mem, pt, dirfree, held>>
      <3>1. phase = "parsed"
        BY <1>2 DEF IDTSetup
      <3>2. SafeInv'
        BY <1>t, <2>1, <3>1 DEF SafeInv, NothingBeforePaging, MappedNotFree, NoAliasing,
           HeldContiguous, HeldDisjoint, ReservedIdentity, HeldNotReserved, Reserved
      <3> QED BY <2>1, <3>1, <3>2 DEF ClientStep, Quiet
    <2> QED BY <1>2, <1>a, <2>1 DEF IDTSetup, Register
  <1>3. CASE X86PagingInit
    <2>1. CASE panic' = "none"
      <3>1. SafeInv' /\ phase = "idt" /\ phase' = "running" /\ held' = {}
        BY <1>3, <1>t, <2>1, PagingInitSafe
      <3>2. held = {}
        BY <3>1 DEF SafeInv, NothingBeforePaging
      <3> QED BY <3>1, <3>2 DEF ClientStep, Opens
    <2>2. (panic' = "none") \/ \E why \in {"Not enough memory for page tables", "Out of Physical Memory"} : Abort(why)
      BY <1>3 DEF X86PagingInit
    <2> QED BY <1>a, <2>1, <2>2
  <1>4. ASSUME NEW n \in 1 .. MaxAlloc, AllocVirtPage(n) PROVE SafeInv' /\ ClientStep
    <2>1. PICK f \in FoundPages(n) : LET p == f[1]  v == f[2] IN
          \/ p = Null /\ Abort("Out of Physical Memory")
          \/ /\ p # Null /\ ~CanRegister(usage, p, n)
             /\ Abort("Trying to register non-free page")
          \/ /\ p # Null /\ CanRegister(usage, p, n)
             /\ v = Null /\ Abort("Out of Virtual Memory")
          \/ /\ p # Null /\ CanRegister(usage, p, n)
             /\ v # Null /\ MapVirt(p, v, n)
      BY <1>4 DEF AllocVirtPage
    <2>2. f[1] \in Pages /\ f[2] \in Pages \cup {OutOfRange} /\ Running
      BY <1>4 DEF FoundPages, AllocVirtPage
    <2> QED BY <1>a, <1>t, <2>1, <2>2, MapVirtStep
  <1>5. ASSUME NEW n \in 1 .. MaxAlloc, AllocVirtPageAllowFail(n)
        PROVE  SafeInv' /\ ClientStep
    <2>1. PICK f \in FoundPages(n) : LET p == f[1]  v == f[2] IN
          \/ p = Null /\ UNCHANGED vars
          \/ /\ p # Null /\ ~CanRegister(usage, p, n)
             /\ Abort("Trying to register non-free page")
          \/ /\ p # Null /\ CanRegister(usage, p, n) /\ v = Null
             /\ usage' = Register(usage, p, n)
             /\ UNCHANGED <<phase, panic, last_usable, free_mem, pt, dirfree, held>>
          \/ /\ p # Null /\ CanRegister(usage, p, n)
             /\ v # Null /\ MapVirt(p, v, n)
      BY <1>5 DEF AllocVirtPageAllowFail
    <2>2. f[1] \in Pages /\ f[2] \in Pages \cup {OutOfRange} /\ Running
      BY <1>5 DEF FoundPages, AllocVirtPageAllowFail
    <2>3. CASE UNCHANGED vars
      BY <1>t, <2>3, AbortStep DEF vars
    <2>4. CASE /\ CanRegister(usage, f[1], n) /\ usage' = Register(usage, f[1], n)
               /\ UNCHANGED <<phase, panic, last_usable, free_mem, pt, dirfree, held>>
      <3>1. SafeInv'
        BY <1>t, <2>4, RegisterSafe DEF Register
      <3>2. Loses(f[1], n)
        BY <2>2, <2>4 DEF Loses, CanRegister, Register, Running
      <3> QED BY <2>2, <3>1, <3>2 DEF ClientStep
    <2> QED BY <1>a, <1>t, <2>1, <2>2, <2>3, <2>4, MapVirtStep
  <1>6. ASSUME NEW b \in held, FreeVirtPage(b) PROVE SafeInv' /\ ClientStep
    <2>1. Running
      BY <1>6 DEF FreeVirtPage
    <2>2. /\ SafeInv'
          /\ usage' = usage \cup Frames(b) /\ held' = held \ {b}
          /\ pt' = UnmapRun(pt, b.v, b.n) /\ phase' = phase
      BY <1>6, <1>t, <2>1, FreeSafe
    <2>3. ASSUME NEW c \in held \ {b}, NEW w \in Run(c.v, c.n) PROVE pt'[w] = pt[w]
      <3>1. w \notin Run(b.v, b.n)
        BY DEF SafeInv, HeldDisjoint
      <3>2. w \in Pages
        BY HeldPages DEF SafeInv
      <3> QED BY <2>2, <3>1, <3>2 DEF UnmapRun
    <2>4. Gives(b)
      BY <2>1, <2>2, <2>3 DEF Gives, Running
    <2> QED BY <2>2, <2>4 DEF ClientStep
  <1>7. ASSUME NEW r \in FirmwareRuns, IdentityMap(r) PROVE SafeInv' /\ ClientStep
    <2>1. CASE /\ MayMap(pt, r[1], r[1], r[2], TRUE)
               /\ pt' = MapRun(pt, r[1], r[1], r[2])
               /\ UNCHANGED <<phase, panic, usage, last_usable, free_mem, held>>
      <3>1. Running
        BY <1>7 DEF IdentityMap
      <3>2. SafeInv' /\ \A w \in Pages : Present(pt, w) => pt'[w] = pt[w]
        BY <1>t, <2>1, <3>1, IdentityMapSafe
      <3>3. \A b \in held : \A w \in Run(b.v, b.n) : pt'[w] = pt[w]
        BY <3>2, HeldPages DEF SafeInv
      <3> QED BY <2>1, <3>2, <3>3 DEF ClientStep, Quiet
    <2> QED BY <1>7, <1>a, <2>1 DEF IdentityMap
  <1>8. CASE MapNull \/ UnmapNull
    <2>1. Running
      BY <1>8 DEF MapNull, UnmapNull
    <2>2. /\ SafeInv' /\ \A w \in Pages \ {0} : pt'[w] = pt[w]
          /\ UNCHANGED <<phase, usage, held>>
      BY <1>8, <1>t, <2>1, NullMapSafe
    <2>3. \A b \in held : \A w \in Run(b.v, b.n) : pt'[w] = pt[w]
      BY <2>2, HeldPages DEF SafeInv
    <2> QED BY <2>2, <2>3 DEF ClientStep, Quiet
  <1>9. CASE UNCHANGED vars
    BY <1>9, <1>t, AbortStep DEF vars
  <1> QED BY <1>1, <1>2, <1>3, <1>4, <1>5, <1>6, <1>7, <1>8, <1>9 DEF Next

LEMMA SafeStart == Init => SafeInv
  <1> SUFFICES ASSUME Init PROVE SafeInv
    OBVIOUS
  <1>1. TypeOK
    BY PagesNat, DirAssumption DEF Init, TypeOK, HeldBlock
  <1>2. held = {} /\ usage = {} /\ \A v \in Pages : ~Present(pt, v)
    BY DEF Init
  <1> QED BY <1>1, <1>2 DEF SafeInv, NothingBeforePaging, MappedNotFree, NoAliasing,
             HeldContiguous, HeldDisjoint, ReservedIdentity, HeldNotReserved

\* No memory is shared: a mapped frame is never free, no frame has two virtual
\* pages, and the blocks clients hold are disjoint and contiguous.  For every
\* machine whose memory map frees neither page 0 nor a page the firmware's
\* tables are in.
THEOREM NoSharedMemory ==
  ASSUME ReservedStaysReserved
  PROVE  Spec => [](MappedNotFree /\ NoAliasing /\ HeldContiguous /\ HeldDisjoint)
  <1>1. SafeInv /\ [Next]_vars => SafeInv'
    BY SafeStep
  <1>2. SafeInv => MappedNotFree /\ NoAliasing /\ HeldContiguous /\ HeldDisjoint
    BY DEF SafeInv
  <1> QED BY <1>1, <1>2, SafeStart, PTL DEF Spec

\* free_virt_page gives back exactly the frames of the block, whatever happened
\* since the block was allocated.
THEOREM FreeIsExact ==
  ASSUME ReservedStaysReserved PROVE Spec => FreeReturnsFrames
  <1>1. SafeInv /\ [Next]_vars => SafeInv'
    BY SafeStep
  <1>2. SafeInv /\ [Next]_vars
          => [\A b \in held \ held' : usage' = usage \cup Frames(b)]_vars
    <2> SUFFICES ASSUME SafeInv, [Next]_vars, NEW b \in held \ held'
                 PROVE  usage' = usage \cup Frames(b)
      OBVIOUS
    <2>1. ClientStep
      BY SafeStep
    <2> QED BY <2>1 DEF ClientStep, Quiet, Opens, Takes, Loses, Gives
  <1> QED BY <1>1, <1>2, SafeStart, PTL DEF Spec, FreeReturnsFrames
-----------------------------------------------------------------------------
(* VirtMem implements PageOwnership.                                       *)

USE DEF Ownership!Ids

\* The blocks the abstraction sees are unchanged if clients' pages are.
LEMMA SameBlocks ==
  ASSUME NEW S, \A b \in S : \A w \in Run(b.v, b.n) : pt'[w] = pt[w]
  PROVE  {[id |-> b.v, frames |-> {pt'[w] : w \in Run(b.v, b.n)}] : b \in S}
           = {[id |-> b.v, frames |-> {pt[w] : w \in Run(b.v, b.n)}] : b \in S}
  <1>1. \A b \in S : {pt'[w] : w \in Run(b.v, b.n)} = {pt[w] : w \in Run(b.v, b.n)}
    OBVIOUS
  <1> QED BY <1>1

\* Two blocks at the same virtual page are one block.
LEMMA BlockIds ==
  ASSUME TypeOK, HeldContiguous, HeldDisjoint, NEW b \in held, NEW c \in held, b.v = c.v
  PROVE  b = c
  <1>1. b \in HeldBlock /\ c \in HeldBlock
    BY DEF TypeOK
  <1>2. b.v \in Int /\ b.n \in Int /\ b.n >= 1 /\ c.n \in Int /\ c.n >= 1
    BY <1>1, PagesNat, MemAssumption DEF HeldBlock
  <1>3. b.v \in Run(b.v, b.n) /\ b.v \in Run(c.v, c.n)
    BY <1>2
  <1> QED BY <1>3 DEF HeldDisjoint

LEMMA AbstractStep ==
  ASSUME ReservedStaysReserved, SafeInv, [Next]_vars
  PROVE  [Ownership!Next]_(Ownership!vars)
  <1> USE PagesNat, MemAssumption
  <1> DEFINE open == phase = "running"
             avail == IF phase = "running" THEN usage ELSE {}
             blocks == {[id |-> b.v, frames |-> Frames(b)] : b \in held}
  <1>1. SafeInv' /\ ClientStep
    BY SafeStep
  <1>2. CASE Quiet
    <2>1. blocks' = blocks
      BY <1>2, SameBlocks DEF Quiet, Frames
    <2>2. open' = open /\ avail' = avail
      BY <1>2 DEF Quiet
    <2> QED BY <2>1, <2>2 DEF Ownership!vars
  <1>3. CASE Opens
    <2>1. Ownership!Open
      BY <1>1, <1>3 DEF Opens, Ownership!Open, SafeInv, TypeOK
    <2> QED BY <2>1 DEF Ownership!Next
  <1>4. ASSUME NEW p \in Pages, NEW v \in Pages, NEW n \in 1 .. MaxAlloc, Takes(p, v, n)
        PROVE  Ownership!Next
    <2> DEFINE b == [v |-> v, n |-> n]
    <2>1. p \in Int /\ v \in Int /\ n \in Int /\ n >= 1 /\ b.v = v /\ b.n = n
      OBVIOUS
    <2>2. Frames(b)' = Run(p, n)
      <3>1. \A w \in Run(v, n) : pt'[w] = p + (w - v) /\ pt'[w] \in Run(p, n)
        BY <1>4, <2>1 DEF Takes
      <3>2. \A x \in Run(p, n) : v + (x - p) \in Run(v, n) /\ pt'[v + (x - p)] = x
        <4> TAKE x \in Run(p, n)
        <4>1. v + (x - p) \in Run(v, n) /\ x \in Int
          BY <2>1
        <4> QED BY <2>1, <3>1, <4>1
      <3> QED BY <2>1, <3>1, <3>2 DEF Frames
    <2>3. {[id |-> c.v, frames |-> Frames(c)'] : c \in held} = blocks
      BY <1>4, SameBlocks DEF Takes, Frames
    <2>4. blocks' = blocks \cup {[id |-> v, frames |-> Run(p, n)]}
      <3>1. held' = held \cup {b}
        BY <1>4 DEF Takes
      <3> QED BY <2>1, <2>2, <2>3, <3>1
    <2>5. v \notin {c.id : c \in blocks}
      <3> SUFFICES ASSUME NEW c \in held, c.v = v PROVE FALSE
        OBVIOUS
      <3>1. c \in HeldBlock
        BY DEF SafeInv, TypeOK
      <3>2. v \in Run(c.v, c.n)
        BY <2>1, <3>1 DEF HeldBlock
      <3>3. Present(pt, v)
        BY <3>2, HeldPages DEF SafeInv
      <3> QED BY <1>4, <2>1, <3>3 DEF Takes
    <2>6. /\ open /\ open' = open
          /\ Run(p, n) \subseteq avail /\ avail' = avail \ Run(p, n)
      BY <1>4 DEF Takes
    <2>7. Ownership!Take(v, p .. p + n - 1)
      BY <2>4, <2>5, <2>6 DEF Ownership!Take
    <2> HIDE DEF b
    <2> QED BY <2>7 DEF Ownership!Next
  <1>5. ASSUME NEW p \in Pages, NEW n \in 1 .. MaxAlloc, Loses(p, n)
        PROVE  Ownership!Next
    <2>1. Ownership!Lose(p .. p + n - 1)
      BY <1>5 DEF Loses, Ownership!Lose, Frames
    <2> QED BY <2>1 DEF Ownership!Next
  <1>6. ASSUME NEW b \in held, Gives(b) PROVE Ownership!Next
    <2> PICK a \in blocks : a = [id |-> b.v, frames |-> Frames(b)]
      OBVIOUS
    <2>1. held' = held \ {b}
      BY <1>6 DEF Gives
    <2>2. blocks' = {[id |-> c.v, frames |-> Frames(c)] : c \in held \ {b}}
      BY <1>6, <2>1, SameBlocks DEF Gives, Frames
    <2>3. \A c \in held \ {b} : c.v # b.v
      BY BlockIds DEF SafeInv
    <2>4. blocks' = blocks \ {a}
      BY <2>2, <2>3
    <2>5. a.frames = Frames(b)
      OBVIOUS
    <2>6. open /\ open' = open /\ avail' = avail \cup Frames(b)
      BY <1>6 DEF Gives
    <2>7. Ownership!Give(a)
      BY <2>4, <2>5, <2>6 DEF Ownership!Give
    <2> QED BY <2>7 DEF Ownership!Next
  <1> HIDE DEF open, avail, blocks
  <1> QED BY <1>1, <1>2, <1>3, <1>4, <1>5, <1>6 DEF ClientStep

\* The memory manager implements what PageOwnership promises: a frame is free or
\* in one block, and a block given back frees exactly its own frames.
THEOREM Implements ==
  ASSUME ReservedStaysReserved PROVE Spec => OwnershipSpec
  <1>1. Init => Ownership!Init
    BY DEF Init, Ownership!Init
  <1>2. SafeInv /\ [Next]_vars => SafeInv'
    BY SafeStep
  <1>3. SafeInv /\ [Next]_vars => [Ownership!Next]_(Ownership!vars)
    BY AbstractStep
  <1> QED BY <1>1, <1>2, <1>3, SafeStart, PTL DEF Spec, OwnershipSpec, Ownership!Spec
-----------------------------------------------------------------------------
(* Freeing never aborts.                                                   *)

FreeAborts == {"Can't free an unused page", "can't unmap unmapped virtual address"}

\* A client that frees a block it holds never makes the kernel stop: neither the
\* double-free test of free_phys_page nor the unmapped-page test of
\* unmap_virtual_page can fail.
THEOREM FreeNeverAborts ==
  ASSUME ReservedStaysReserved PROVE Spec => [](panic \notin FreeAborts)
  <1> DEFINE Quiescent == SafeInv /\ panic \notin FreeAborts
  <1>1. Init => Quiescent
    BY SafeStart DEF Init, FreeAborts
  <1>2. Quiescent /\ [Next]_vars => Quiescent'
    <2> SUFFICES ASSUME SafeInv, panic \notin FreeAborts, [Next]_vars
                 PROVE  panic' \notin FreeAborts
      BY SafeStep
    <2>1. ASSUME NEW b \in held, FreeVirtPage(b) PROVE panic' \notin FreeAborts
      <3>1. held' = held \ {b}
        BY <2>1, FreeSafe, TypeStep DEF SafeInv, FreeVirtPage
      <3> QED BY <2>1, <3>1 DEF FreeVirtPage, Abort
    <2>2. ASSUME NEW mmap \in MemoryMaps, X86Init(mmap) PROVE panic' \notin FreeAborts
      BY <2>2 DEF X86Init, Abort, FreeAborts
    <2>3. CASE IDTSetup \/ X86PagingInit
      BY <2>3 DEF IDTSetup, X86PagingInit, Abort, FreeAborts
    <2>4. ASSUME NEW p, NEW v, NEW n, MapVirt(p, v, n) PROVE panic' \notin FreeAborts
      BY <2>4 DEF MapVirt, Abort, FreeAborts
    <2>5. ASSUME NEW n \in 1 .. MaxAlloc, AllocVirtPage(n) PROVE panic' \notin FreeAborts
      BY <2>4, <2>5 DEF AllocVirtPage, Abort, FreeAborts
    <2>6. ASSUME NEW n \in 1 .. MaxAlloc, AllocVirtPageAllowFail(n)
          PROVE  panic' \notin FreeAborts
      BY <2>4, <2>6 DEF AllocVirtPageAllowFail, Abort, FreeAborts, vars
    <2>7. ASSUME NEW r \in FirmwareRuns, IdentityMap(r) PROVE panic' \notin FreeAborts
      BY <2>7 DEF IdentityMap, Abort, FreeAborts
    <2>8. CASE MapNull \/ UnmapNull \/ UNCHANGED vars
      BY <2>8 DEF MapNull, UnmapNull, vars
    <2> QED BY <2>1, <2>2, <2>3, <2>5, <2>6, <2>7, <2>8 DEF Next
  <1> QED BY <1>1, <1>2, PTL DEF Spec

-----------------------------------------------------------------------------
(* Tables and words of the bitmap.                                         *)

\* A set of naturals that is not empty has a least element.
LEMMA LeastNat ==
  ASSUME NEW S, S \subseteq Nat, S # {}
  PROVE  \E m \in S : \A x \in S : m <= x
  <1> DEFINE R == OpToRel(<, Nat)
  <1>1. IsWellFoundedOn(R, Nat)
    BY NatLessThanWellFounded
  <1>2. PICK m \in S : \A y \in S : ~ (<<y, m>> \in R)
    <2> HIDE DEF R
    <2> QED BY <1>1, WFMin
  <1>3. \A y \in S : ~ (y < m)
    BY <1>2 DEF OpToRel
  <1> QED BY <1>3

\* A bounded set of integers that is not empty has a greatest element.
LEMMA GreatestInt ==
  ASSUME NEW N \in Int, NEW S, S \subseteq Int, S # {}, \A x \in S : x <= N
  PROVE  \E m \in S : \A x \in S : x <= m
  <1> DEFINE T == {N - x : x \in S}
  <1>1. T \subseteq Nat /\ T # {}
    <2>1. \A x \in S : N - x \in Nat
      OBVIOUS
    <2>2. PICK x \in S : TRUE
      OBVIOUS
    <2>3. N - x \in T
      BY <2>2
    <2> QED BY <2>1, <2>3
  <1>2. PICK m \in T : \A x \in T : m <= x
    <2> HIDE DEF T
    <2> QED BY <1>1, LeastNat
  <1>3. PICK y \in S : m = N - y
    BY <1>2
  <1>4. \A x \in S : N - y <= N - x
    BY <1>2, <1>3
  <1> QED BY <1>4

LEMMA Division ==
  ASSUME NEW a \in Nat, NEW D \in Nat \ {0}
  PROVE  a = D * (a \div D) + (a % D) /\ a % D \in 0 .. D - 1 /\ a \div D \in Nat
  OBVIOUS

LEMMA Multiples ==
  ASSUME NEW D \in Nat \ {0}, NEW q \in Int, NEW r \in Int
  PROVE  /\ D * q \in Int /\ D * q + D = D * (q + 1)
         /\ q < r => D * q + D <= D * r
         /\ q <= r => D * q <= D * r
         /\ q >= 0 => D * q >= 0
  <1>1. D * q \in Int /\ D * r \in Int /\ D * (q + 1) \in Int /\ D * q + D = D * (q + 1)
    OBVIOUS
  <1>2. \A a, b \in Int : a <= b => D * a <= D * b
    OBVIOUS
  <1>3. q < r => D * (q + 1) <= D * r
    BY <1>2
  <1>4. q <= r => D * q <= D * r
    BY <1>2
  <1>5. q >= 0 => D * 0 <= D * q
    BY <1>2
  <1>6. D * 0 = 0
    OBVIOUS
  <1> QED BY <1>1, <1>3, <1>4, <1>5, <1>6

\* The numbers with quotient d are a run of D that starts at a multiple of D.
LEMMA Quotient ==
  ASSUME NEW D \in Nat \ {0}, NEW v \in Nat, NEW d \in Nat
  PROVE  /\ v \div D = d <=> v \in D * d .. D * d + D - 1
         /\ v \div D = d /\ v % D = 0 => v = D * d
         /\ v = D * d => v % D = 0
  <1>1. v = D * (v \div D) + (v % D) /\ v % D \in 0 .. D - 1 /\ v \div D \in Nat
    BY Division
  <1>2. PICK q \in Nat : q = v \div D
    BY <1>1
  <1>3. D * q \in Int /\ D * d \in Int
    BY <1>2, Multiples
  <1>4. PICK x \in Int : x = D * q
    BY <1>3
  <1>5. PICK y \in Int : y = D * d
    BY <1>3
  <1>6. PICK z \in 0 .. D - 1 : z = v % D
    BY <1>1
  <1>7. v = x + z
    BY <1>1, <1>2, <1>4, <1>6
  <1>8. q < d => x + D <= y
    BY <1>4, <1>5, Multiples
  <1>9. d < q => y + D <= x
    BY <1>4, <1>5, Multiples
  <1>10. q = d => x = y
    BY <1>4, <1>5
  <1>11. q = d <=> v \in y .. y + D - 1
    BY <1>7, <1>8, <1>9, <1>10
  <1>12. q = d /\ z = 0 => v = y
    BY <1>7, <1>10
  <1>13. v = y => q = d /\ z = 0
    BY <1>7, <1>8, <1>9, <1>10
  <1> QED BY <1>2, <1>5, <1>6, <1>11, <1>12, <1>13

LEMMA TableSizes ==
  /\ DirSize \in Nat \ {0} /\ NumDirs \in Nat \ {0}
  /\ ChunkSize \in Nat \ {0} /\ NumChunks \in Nat \ {0}
  /\ NumPages \in Nat
  BY DirAssumption, ChunkAssumption, PagesNat

LEMMA TableProducts ==
  DirSize * NumDirs = NumPages /\ ChunkSize * NumChunks = NumPages
  BY DirAssumption DEF NumPages

\* The pages of a table are a run of DirSize pages that starts at a multiple.
LEMMA TablePages ==
  ASSUME NEW d \in Dirs
  PROVE  /\ {v \in Pages : DirOf(v) = d} = DirSize * d .. DirSize * d + DirSize - 1
         /\ DirSize * d \in Nat /\ DirSize * d + DirSize <= NumPages
         /\ DirSize * d + DirSize = NumPages <=> d = NumDirs - 1
  <1> USE TableSizes DEF Pages, Dirs
  <1>1. d \in Nat /\ d < NumDirs /\ d + 1 \in Int
    OBVIOUS
  <1>2. /\ DirSize * d \in Int /\ DirSize * d >= 0 /\ DirSize * d + DirSize <= NumPages
        /\ DirSize * d + DirSize = DirSize * (d + 1)
    BY <1>1, Multiples, TableProducts
  <1>3. PICK x \in Nat : x = DirSize * d
    BY <1>2
  <1>4. d + 1 < NumDirs => DirSize * (d + 1) + DirSize <= NumPages
    BY <1>1, Multiples, TableProducts
  <1>5. d + 1 < NumDirs => x + DirSize + DirSize <= NumPages
    BY <1>2, <1>3, <1>4
  <1>6. d + 1 = NumDirs => x + DirSize = NumPages
    BY <1>2, <1>3, TableProducts
  <1>7. x + DirSize = NumPages <=> d = NumDirs - 1
    BY <1>1, <1>5, <1>6
  <1>8. x + DirSize <= NumPages
    BY <1>2, <1>3
  <1>9. \A v \in Pages : DirOf(v) = d <=> v \in x .. x + DirSize - 1
    BY <1>1, <1>3, Quotient DEF DirOf
  <1>10. x .. x + DirSize - 1 \subseteq Pages
    BY <1>8
  <1>11. {v \in Pages : DirOf(v) = d} = x .. x + DirSize - 1
    BY <1>9, <1>10
  <1> QED BY <1>3, <1>7, <1>8, <1>11

\* Every page is in a table.
LEMMA DirType ==
  ASSUME NEW v \in Pages
  PROVE  /\ DirOf(v) \in Dirs /\ v \in DirSize * DirOf(v) .. DirSize * DirOf(v) + DirSize - 1
         /\ v % DirSize = 0 => v = DirSize * DirOf(v)
  <1> USE TableSizes DEF Pages, Dirs
  <1>0. v \in Nat
    OBVIOUS
  <1>1. PICK q \in Nat : q = v \div DirSize
    BY <1>0, Division
  <1>2. DirSize * q \in Int
    BY Multiples
  <1>3. PICK x \in Int : x = DirSize * q
    BY <1>2
  <1>4. /\ v \in x .. x + DirSize - 1
        /\ v % DirSize = 0 => v = x
    BY <1>1, <1>3, Quotient
  <1>5. NumDirs <= q => NumPages <= x
    BY <1>3, Multiples, TableProducts
  <1>6. q \in Dirs
    BY <1>4, <1>5
  <1> QED BY <1>1, <1>3, <1>4, <1>6 DEF DirOf

WordStart(p) == (p \div ChunkSize) * ChunkSize

\* The word of a page, and where the next one starts.
LEMMA ChunkOf ==
  ASSUME NEW p \in Pages
  PROVE  /\ WordStart(p) \in Nat /\ WordStart(p) <= p
         /\ NextChunk(p) = WordStart(p) + ChunkSize
         /\ p < NextChunk(p) /\ NextChunk(p) \in Nat /\ NextChunk(p) <= NumPages
  <1> USE TableSizes DEF Pages, Dirs
  <1>0. p \in Nat
    OBVIOUS
  <1>1. PICK q \in Nat : q = p \div ChunkSize
    BY <1>0, Division
  <1>2. /\ ChunkSize * q \in Int /\ ChunkSize * q >= 0
        /\ q * ChunkSize = ChunkSize * q /\ (q + 1) * ChunkSize = ChunkSize * q + ChunkSize
    BY Multiples
  <1>3. PICK x \in Nat : x = ChunkSize * q
    BY <1>2
  <1>4. p \in x .. x + ChunkSize - 1
    BY <1>1, <1>3, Quotient
  <1>5. /\ NumChunks <= q => NumPages <= x
        /\ q < NumChunks => x + ChunkSize <= NumPages
    BY <1>3, Multiples, TableProducts
  <1>6. q < NumChunks
    BY <1>4, <1>5
  <1>7. NextChunk(p) = x + ChunkSize /\ (p \div ChunkSize) * ChunkSize = x
    BY <1>1, <1>2, <1>3 DEF NextChunk
  <1>8. /\ x <= p /\ p < x + ChunkSize /\ x + ChunkSize \in 0 .. NumPages
        /\ x + ChunkSize - 1 = (x + ChunkSize) - 1
    BY <1>4, <1>5, <1>6
  <1>9. WordStart(p) = x
    BY <1>7 DEF WordStart
  <1> QED BY <1>4, <1>7, <1>8, <1>9
\* A page at a word's first bit is that word's first page.
LEMMA WordBase ==
  ASSUME NEW p \in Pages, p % ChunkSize = 0 PROVE WordStart(p) = p
  <1> USE TableSizes DEF Pages
  <1>0. p \in Nat
    OBVIOUS
  <1>1. PICK q \in Nat : q = p \div ChunkSize
    BY <1>0, Division
  <1>2. q * ChunkSize = ChunkSize * q
    OBVIOUS
  <1>3. p = ChunkSize * q
    BY <1>0, <1>1, Quotient
  <1> QED BY <1>1, <1>2, <1>3 DEF WordStart

-----------------------------------------------------------------------------
(* The scan of the bitmap is first fit.                                    *)

\* Where a run of n free pages may start, from page p on, and what a search
\* that begins at p has to return.
StartsFrom(F, n, p) == {q \in F : p <= q /\ Run(q, n) \subseteq F}

IsFit(F, n, p, x) ==
  \/ x \in StartsFrom(F, n, p) /\ \A q \in StartsFrom(F, n, p) : x <= q
  \/ StartsFrom(F, n, p) = {} /\ x = Null

Fit(F, n, p) == CHOOSE x : IsFit(F, n, p, x)

LEMMA FreeIds ==
  ASSUME NEW F, F \subseteq Pages
  PROVE  F \subseteq Nat /\ \A q \in F : 0 <= q /\ q < NumPages
  BY PagesNat DEF Pages

LEMMA FitExists ==
  ASSUME NEW F, F \subseteq Pages, NEW n, NEW p
  PROVE  IsFit(F, n, p, Fit(F, n, p))
  <1> USE PagesNat
  <1>1. \E x : IsFit(F, n, p, x)
    <2>1. StartsFrom(F, n, p) \subseteq Nat
      BY DEF StartsFrom
    <2> QED BY <2>1, LeastNat DEF IsFit
  <1> QED BY <1>1 DEF Fit

LEMMA FitUnique ==
  ASSUME NEW F, F \subseteq Pages, NEW n, NEW p, NEW x, NEW y,
         IsFit(F, n, p, x), IsFit(F, n, p, y)
  PROVE  x = y
  <1> USE PagesNat
  <1>1. StartsFrom(F, n, p) \subseteq Nat
    BY DEF StartsFrom
  <1> QED BY <1>1 DEF IsFit

\* Pages where no run starts may be skipped.
LEMMA FitSkips ==
  ASSUME NEW F, F \subseteq Pages, NEW n, NEW p \in Int, NEW r \in Int, p <= r,
         \A q \in StartsFrom(F, n, p) : r <= q,
         NEW x, IsFit(F, n, r, x)
  PROVE  IsFit(F, n, p, x)
  <1> USE PagesNat
  <1>1. StartsFrom(F, n, p) = StartsFrom(F, n, r)
    BY DEF StartsFrom
  <1> QED BY <1>1 DEF IsFit

LEMMA WordIsFull ==
  ASSUME NEW F, F \subseteq Pages, NEW p \in Pages, ~HasFree(F, p \div ChunkSize)
  PROVE  \A r \in F : r < WordStart(p) \/ NextChunk(p) <= r
  <1> USE PagesNat
  <1>1. WordStart(p) \in Int /\ NextChunk(p) = WordStart(p) + ChunkSize /\ ChunkSize \in Int
    BY ChunkOf, TableSizes
  <1>2. \A r \in WordStart(p) .. WordStart(p) + ChunkSize - 1 : r \notin F
    BY DEF HasFree, WordStart
  <1> HIDE DEF WordStart
  <1> QED BY <1>1, <1>2

\* A run that is not free stops at a page, and none starts before it.
LEMMA StopSkips ==
  ASSUME NEW F, F \subseteq Pages, NEW n \in Nat \ {0}, NEW p \in Nat, ~RunIsFree(F, p, n)
  PROVE  /\ RunStop(F, p, n) \in Nat /\ p <= RunStop(F, p, n)
         /\ \A q \in StartsFrom(F, n, p) : RunStop(F, p, n) < q
  <1> USE PagesNat
  <1> DEFINE S == Run(p, n) \ F
  <1>1. S \subseteq Nat /\ S # {}
    BY DEF RunIsFree
  <1>2. \E m \in S : \A x \in S : m <= x
    <2> HIDE DEF S
    <2> QED BY <1>1, LeastNat
  <1>3. RunStop(F, p, n) \in S
    <2> HIDE DEF S
    <2>1. RunStop(F, p, n) = CHOOSE m \in S : \A x \in S : m <= x
      BY DEF RunStop, S
    <2> QED BY <1>2, <2>1
  <1>4. PICK q \in Nat : q = RunStop(F, p, n) /\ q \notin F /\ p <= q /\ q <= p + n - 1
    BY <1>3
  <1>5. ASSUME NEW s \in StartsFrom(F, n, p) PROVE q < s
    <2>1. s \in Int /\ p <= s /\ s .. s + n - 1 \subseteq F
      BY DEF StartsFrom
    <2>2. q <= s + n - 1
      BY <1>4, <2>1
    <2> QED BY <1>4, <2>1, <2>2
  <1> QED BY <1>4, <1>5

\* The loop body at page p, where g is what the loop returns from a page on.
PhysBody(F, n, g, p) ==
  IF p = NumPages THEN Null
  ELSE IF p % ChunkSize = 0 /\ ~HasFree(F, p \div ChunkSize)
       THEN g[NextChunk(p)]
  ELSE IF RunIsFree(F, p, n) THEN p
  ELSE LET q == RunStop(F, p, n) IN
       IF q >= NumPages THEN Null
       ELSE IF ~HasFree(F, q \div ChunkSize) THEN g[NextChunk(q)]
       ELSE g[q + 1]

LEMMA PhysBodyFits ==
  ASSUME NEW F, F \subseteq Pages, NEW n \in Nat \ {0}, NEW g, NEW p \in 0 .. NumPages,
         \A r \in p + 1 .. NumPages : IsFit(F, n, r, g[r])
  PROVE  IsFit(F, n, p, PhysBody(F, n, g, p))
  <1> USE TableSizes, FreeIds
  <1>1. CASE p = NumPages
    <2>1. StartsFrom(F, n, p) = {}
      BY <1>1 DEF StartsFrom
    <2> QED BY <1>1, <2>1 DEF PhysBody, IsFit
  <1>2. CASE p # NumPages /\ p % ChunkSize = 0 /\ ~HasFree(F, p \div ChunkSize)
    <2>1. p \in Pages
      BY <1>2 DEF Pages
    <2>2. NextChunk(p) \in p + 1 .. NumPages /\ WordStart(p) = p
      BY <1>2, <2>1, ChunkOf, WordBase
    <2>3. \A q \in StartsFrom(F, n, p) : NextChunk(p) <= q
      <3>1. \A q \in F : q < p \/ NextChunk(p) <= q
        BY <1>2, <2>1, <2>2, WordIsFull
      <3> QED BY <3>1 DEF StartsFrom
    <2>4. IsFit(F, n, NextChunk(p), g[NextChunk(p)])
      BY <2>2
    <2>5. IsFit(F, n, p, g[NextChunk(p)])
      <3>1. p \in Int /\ NextChunk(p) \in Int /\ p <= NextChunk(p)
        BY <2>2
      <3> QED BY <2>3, <2>4, <3>1, FitSkips
    <2> QED BY <1>2, <2>5 DEF PhysBody
  <1>3. CASE /\ p # NumPages /\ ~(p % ChunkSize = 0 /\ ~HasFree(F, p \div ChunkSize))
             /\ RunIsFree(F, p, n)
    <2>1. p \in StartsFrom(F, n, p)
      BY <1>3, RunStart DEF StartsFrom, RunIsFree
    <2> QED BY <1>3, <2>1 DEF PhysBody, IsFit, StartsFrom
  <1>4. CASE /\ p # NumPages /\ ~(p % ChunkSize = 0 /\ ~HasFree(F, p \div ChunkSize))
             /\ ~RunIsFree(F, p, n)
    <2>1. PICK q \in Nat : /\ q = RunStop(F, p, n) /\ p <= q
                           /\ \A s \in StartsFrom(F, n, p) : q < s
      <3>1. p \in Nat
        OBVIOUS
      <3> QED BY <1>4, <3>1, StopSkips
    <2>2. CASE q >= NumPages
      <3>1. StartsFrom(F, n, p) = {}
        BY <2>1, <2>2 DEF StartsFrom
      <3> QED BY <1>4, <2>1, <2>2, <3>1 DEF PhysBody, IsFit
    <2>3. CASE q < NumPages /\ ~HasFree(F, q \div ChunkSize)
      <3>1. q \in Pages
        BY <2>3 DEF Pages
      <3>2. /\ NextChunk(q) \in q + 1 .. NumPages /\ WordStart(q) <= q /\ WordStart(q) \in Nat
        BY <3>1, ChunkOf
      <3>3. \A s \in StartsFrom(F, n, p) : NextChunk(q) <= s
        <4>1. \A s \in F : s < WordStart(q) \/ NextChunk(q) <= s
          BY <2>3, <3>1, WordIsFull
        <4> QED BY <2>1, <3>2, <4>1 DEF StartsFrom
      <3>4. IsFit(F, n, NextChunk(q), g[NextChunk(q)])
        BY <2>1, <3>2
      <3>5. IsFit(F, n, p, g[NextChunk(q)])
        <4>1. p \in Int /\ NextChunk(q) \in Int /\ p <= NextChunk(q)
          BY <2>1, <3>2
        <4> QED BY <3>3, <3>4, <4>1, FitSkips
      <3> QED BY <1>4, <2>1, <2>3, <3>5 DEF PhysBody
    <2>4. CASE q < NumPages /\ HasFree(F, q \div ChunkSize)
      <3>1. q + 1 \in p + 1 .. NumPages
        BY <2>1, <2>4
      <3>2. IsFit(F, n, q + 1, g[q + 1])
        BY <3>1
      <3>3. \A s \in StartsFrom(F, n, p) : q + 1 <= s
        BY <2>1 DEF StartsFrom
      <3>4. IsFit(F, n, p, g[q + 1])
        <4>1. p \in Int /\ q + 1 \in Int /\ p <= q + 1
          BY <3>1
        <4> QED BY <3>2, <3>3, <4>1, FitSkips
      <3> QED BY <1>4, <2>1, <2>4, <3>4 DEF PhysBody
    <2> QED BY <2>2, <2>3, <2>4
  <1> QED BY <1>1, <1>2, <1>3, <1>4

IsPhysScan(F, n, g) == g = [p \in 0 .. NumPages |-> PhysBody(F, n, g, p)]

LEMMA PhysScanExists ==
  ASSUME NEW F, F \subseteq Pages, NEW n \in Nat \ {0}
  PROVE  \E g : IsPhysScan(F, n, g)
  <1> USE TableSizes, FreeIds
  <1> DEFINE g == [p \in 0 .. NumPages |-> Fit(F, n, p)]
  <1>1. \A p \in 0 .. NumPages : IsFit(F, n, p, g[p])
    BY FitExists
  <1>2. ASSUME NEW p \in 0 .. NumPages PROVE g[p] = PhysBody(F, n, g, p)
    <2> HIDE DEF g
    <2>1. IsFit(F, n, p, PhysBody(F, n, g, p))
      <3>1. \A r \in p + 1 .. NumPages : IsFit(F, n, r, g[r])
        BY <1>1
      <3> QED BY <3>1, PhysBodyFits
    <2> QED BY <1>1, <2>1, FitUnique
  <1>3. IsPhysScan(F, n, g)
    BY <1>2 DEF IsPhysScan
  <1> QED BY <1>3

LEMMA PhysScanFits ==
  ASSUME NEW F, F \subseteq Pages, NEW n \in Nat \ {0}, NEW g, IsPhysScan(F, n, g)
  PROVE  \A p \in 0 .. NumPages : IsFit(F, n, p, g[p])
  <1> USE TableSizes, FreeIds
  <1> DEFINE B == {p \in 0 .. NumPages : ~IsFit(F, n, p, g[p])}
  <1> SUFFICES ASSUME B # {} PROVE FALSE
    OBVIOUS
  <1>1. PICK p \in B : \A x \in B : x <= p
    <2>1. B \subseteq Int /\ \A x \in B : x <= NumPages
      OBVIOUS
    <2>2. NumPages \in Int
      OBVIOUS
    <2> HIDE DEF B
    <2> QED BY <2>1, <2>2, GreatestInt
  <1>2. \A r \in p + 1 .. NumPages : IsFit(F, n, r, g[r])
    BY <1>1
  <1>3. IsFit(F, n, p, PhysBody(F, n, g, p))
    BY <1>2, PhysBodyFits
  <1>4. g[p] = PhysBody(F, n, g, p)
    BY DEF IsPhysScan
  <1> QED BY <1>3, <1>4

\* next_free_phys_pages finds the first run of n free pages.
LEMMA PhysScan ==
  ASSUME NEW F, F \subseteq Pages, NEW n \in Nat \ {0}
  PROVE  /\ IsFit(F, n, 0, NextFreePhysPages(F, n))
         /\ NextFreePhysPages(F, n) = FirstFit(F, n)
  <1> USE TableSizes, FreeIds
  <1>1. PICK g : IsPhysScan(F, n, g) /\ NextFreePhysPages(F, n) = g[0]
    <2>1. NextFreePhysPages(F, n) = (CHOOSE g : IsPhysScan(F, n, g))[0]
      BY DEF NextFreePhysPages, IsPhysScan, PhysBody
    <2> QED BY <2>1, PhysScanExists
  <1>2. IsFit(F, n, 0, NextFreePhysPages(F, n))
    BY <1>1, PhysScanFits
  <1>3. IsFit(F, n, 0, FirstFit(F, n))
    <2> DEFINE S == {p \in F : Run(p, n) \subseteq F}
    <2>1. S = StartsFrom(F, n, 0)
      BY DEF StartsFrom
    <2>2. FirstFit(F, n) = IF S = {} THEN Null ELSE CHOOSE p \in S : \A q \in S : p <= q
      BY DEF FirstFit
    <2>3. S # {} => \E p \in S : \A q \in S : p <= q
      <3>1. S \subseteq Nat
        OBVIOUS
      <3> HIDE DEF S
      <3> QED BY <3>1, LeastNat
    <2> HIDE DEF S
    <2> QED BY <2>1, <2>2, <2>3 DEF IsFit
  <1> QED BY <1>2, <1>3, FitUnique
-----------------------------------------------------------------------------
(* The search of the page tables is first fit.                             *)

\* A table that starts at page i, the one after it, and the last one.
LEMMA TableStart ==
  ASSUME NEW i \in Pages, i % DirSize = 0
  PROVE  /\ i + DirSize <= NumPages
         /\ i + DirSize # NumPages => i + DirSize <= NumPages - DirSize
         /\ i + DirSize = NumPages => DirOf(i) = NumDirs - 1
         /\ DirOf(i) \in Dirs
         /\ \A w \in i .. i + DirSize - 1 : w \in Pages /\ DirOf(w) = DirOf(i)
  <1> USE TableSizes
  <1>1. PICK d \in Dirs : d = DirOf(i)
    BY DirType
  <1>2. i = DirSize * d
    BY <1>1, DirType
  <1>3. /\ {w \in Pages : DirOf(w) = d} = i .. i + DirSize - 1
        /\ i + DirSize <= NumPages
        /\ i + DirSize = NumPages <=> d = NumDirs - 1
    BY <1>2, TablePages
  <1>4. i + DirSize # NumPages => i + DirSize <= NumPages - DirSize
    <2> SUFFICES ASSUME i + DirSize # NumPages PROVE i + DirSize <= NumPages - DirSize
      OBVIOUS
    <2>1. d + 1 \in Int /\ d + 1 < NumDirs /\ d \in Int
      BY <1>3 DEF Dirs
    <2>2. DirSize * (d + 1) + DirSize <= DirSize * NumDirs /\ DirSize * d + DirSize = DirSize * (d + 1)
      BY <2>1, Multiples
    <2>3. (i + DirSize) + DirSize <= NumPages
      BY <1>2, <2>2, TableProducts
    <2> QED BY <2>3, PagesNat
  <1> QED BY <1>1, <1>3, <1>4

LEMMA LastTable ==
  /\ NumPages - DirSize \in Pages /\ (NumPages - DirSize) % DirSize = 0
  /\ DirOf(NumPages - DirSize) = NumDirs - 1
  <1> USE TableSizes
  <1>1. PICK d \in Dirs : d = NumDirs - 1
    BY DEF Dirs
  <1>2. DirSize * d \in Nat /\ DirSize * d + DirSize = NumPages
    BY <1>1, TablePages
  <1>3. PICK x \in Nat : x = DirSize * d
    BY <1>2
  <1>4. x = NumPages - DirSize /\ x \in Pages
    BY <1>2, <1>3 DEF Pages
  <1>5. x % DirSize = 0
    BY <1>1, <1>3, Quotient DEF Dirs
  <1>6. x \in x .. x + DirSize - 1
    OBVIOUS
  <1>7. x \div DirSize = d
    BY <1>3, <1>6, Quotient DEF Dirs
  <1> QED BY <1>1, <1>4, <1>5, <1>7 DEF DirOf

\* A table whose counter is 0 has no absent page but page 0.
FullTablesAreFull(tbl, free) ==
  \A d \in Dirs : free[d] = 0 =>
    \A w \in Pages \ {0} : DirOf(w) = d => Present(tbl, w)

\* Where a run of n absent pages may start when the loop stands at page i and
\* the c pages before it are absent, and what it has to return then.
VirtStarts(tbl, n, i, c) ==
  {s \in Int : /\ i - c <= s /\ s + n <= NumPages
               /\ \A w \in i .. s + n - 1 : s <= w => ~Present(tbl, w)}

NoVirt(free, i) ==
  IF i <= NumPages - DirSize /\ free[NumDirs - 1] = 0 THEN OutOfRange ELSE Null

IsVirtFit(tbl, free, n, i, c, x) ==
  \/ /\ x \in VirtStarts(tbl, n, i, c)
     /\ \A s \in VirtStarts(tbl, n, i, c) : x <= s
  \/ VirtStarts(tbl, n, i, c) = {} /\ x = NoVirt(free, i)

VirtFit(tbl, free, n, i, c) == CHOOSE x : IsVirtFit(tbl, free, n, i, c, x)

LEMMA LeastInt ==
  ASSUME NEW N \in Int, NEW S, S \subseteq Int, S # {}, \A x \in S : N <= x
  PROVE  \E m \in S : \A x \in S : m <= x
  <1> DEFINE T == {x - N : x \in S}
  <1>1. T \subseteq Nat /\ T # {}
    <2>1. \A x \in S : x - N \in Nat
      OBVIOUS
    <2>2. PICK x \in S : TRUE
      OBVIOUS
    <2>3. x - N \in T
      BY <2>2
    <2> QED BY <2>1, <2>3
  <1>2. PICK m \in T : \A x \in T : m <= x
    <2> HIDE DEF T
    <2> QED BY <1>1, LeastNat
  <1>3. PICK y \in S : m = y - N
    BY <1>2
  <1>4. \A x \in S : y - N <= x - N
    BY <1>2, <1>3
  <1> QED BY <1>4

LEMMA VirtFitExists ==
  ASSUME NEW tbl, NEW free, NEW n, NEW i \in Int, NEW c \in Int
  PROVE  IsVirtFit(tbl, free, n, i, c, VirtFit(tbl, free, n, i, c))
  <1> DEFINE S == VirtStarts(tbl, n, i, c)
  <1>1. i - c \in Int /\ S \subseteq Int /\ \A x \in S : i - c <= x
    BY DEF VirtStarts
  <1>2. \E x : IsVirtFit(tbl, free, n, i, c, x)
    <2>1. S # {} => \E m \in S : \A x \in S : m <= x
      <3> HIDE DEF S
      <3> QED BY <1>1, LeastInt
    <2> QED BY <2>1 DEF IsVirtFit
  <1> QED BY <1>2 DEF VirtFit

LEMMA VirtFitUnique ==
  ASSUME NEW tbl, NEW free, NEW n, NEW i, NEW c, NEW x, NEW y,
         IsVirtFit(tbl, free, n, i, c, x), IsVirtFit(tbl, free, n, i, c, y)
  PROVE  x = y
  <1>1. VirtStarts(tbl, n, i, c) \subseteq Int
    BY DEF VirtStarts
  <1> QED BY <1>1 DEF IsVirtFit

\* A place of the loop with the same starts ahead of it will do as well.
LEMMA VirtFitSame ==
  ASSUME NEW tbl, NEW free, NEW n, NEW i, NEW c, NEW j, NEW e,
         VirtStarts(tbl, n, i, c) = VirtStarts(tbl, n, j, e),
         NoVirt(free, i) = NoVirt(free, j),
         NEW x, IsVirtFit(tbl, free, n, j, e, x)
  PROVE  IsVirtFit(tbl, free, n, i, c, x)
  BY DEF IsVirtFit

\* Pages that are present start no run and are in none.
LEMMA StartsAfter ==
  ASSUME NEW tbl, NEW n \in Nat \ {0}, NEW i \in Int, NEW c \in 0 .. n - 1, NEW j \in Int,
         i < j, \A w \in i .. j - 1 : Present(tbl, w)
  PROVE  VirtStarts(tbl, n, i, c) = VirtStarts(tbl, n, j, 0)
  <1> USE TableSizes
  <1>1. ASSUME NEW s \in VirtStarts(tbl, n, i, c) PROVE s \in VirtStarts(tbl, n, j, 0)
    <2>1. /\ s \in Int /\ i - c <= s /\ s + n <= NumPages
          /\ \A w \in i .. s + n - 1 : s <= w => ~Present(tbl, w)
      BY DEF VirtStarts
    <2>2. s <= i => i \in i .. s + n - 1
      BY <2>1
    <2>3. i < s /\ s < j => s \in i .. s + n - 1 /\ s \in i .. j - 1
      BY <2>1
    <2>4. i \in i .. j - 1
      OBVIOUS
    <2>5. j <= s
      BY <2>1, <2>2, <2>3, <2>4
    <2>6. \A w \in j .. s + n - 1 : w \in i .. s + n - 1
      BY <2>1
    <2> QED BY <2>1, <2>5, <2>6 DEF VirtStarts
  <1>2. ASSUME NEW s \in VirtStarts(tbl, n, j, 0) PROVE s \in VirtStarts(tbl, n, i, c)
    <2>1. /\ s \in Int /\ j <= s /\ s + n <= NumPages
          /\ \A w \in j .. s + n - 1 : s <= w => ~Present(tbl, w)
      BY DEF VirtStarts
    <2>2. \A w \in i .. s + n - 1 : s <= w => w \in j .. s + n - 1
      BY <2>1
    <2>3. i - c <= s
      BY <2>1
    <2> QED BY <2>1, <2>2, <2>3 DEF VirtStarts
  <1> QED BY <1>1, <1>2

\* An absent page lengthens the run.
LEMMA StartsGrow ==
  ASSUME NEW tbl, NEW n \in Nat \ {0}, NEW i \in Int, NEW c \in Int, ~Present(tbl, i)
  PROVE  VirtStarts(tbl, n, i, c) = VirtStarts(tbl, n, i + 1, c + 1)
  <1> USE TableSizes
  <1>1. (i + 1) - (c + 1) = i - c
    OBVIOUS
  <1>2. ASSUME NEW s \in Int
        PROVE  (\A w \in i .. s + n - 1 : s <= w => ~Present(tbl, w))
                 <=> (\A w \in i + 1 .. s + n - 1 : s <= w => ~Present(tbl, w))
    <2>1. \A w \in i .. s + n - 1 : w = i \/ w \in i + 1 .. s + n - 1
      OBVIOUS
    <2>2. \A w \in i + 1 .. s + n - 1 : w \in i .. s + n - 1
      OBVIOUS
    <2> QED BY <2>1, <2>2
  <1> QED BY <1>1, <1>2 DEF VirtStarts

\* The loop body at page at[1] with at[2] absent pages before it.
VirtBody(tbl, free, n, g, q) ==
  LET i == q[1]  c == q[2] IN
  IF i = NumPages THEN Null
  ELSE IF i % DirSize = 0 /\ free[DirOf(i)] = 0
       THEN IF i + DirSize = NumPages THEN OutOfRange
            ELSE g[<<i + DirSize, 0>>]
  ELSE IF Present(tbl, i) THEN g[<<i + 1, 0>>]
  ELSE IF c + 1 = n THEN i - c
  ELSE g[<<i + 1, c + 1>>]

VirtPlaces(n) == (1 .. NumPages) \X (0 .. n - 1)

\* Every place of the loop from page i on returns what it has to.
VirtFits(tbl, free, n, g, i) ==
  \A j \in i .. NumPages, e \in 0 .. n - 1 : IsVirtFit(tbl, free, n, j, e, g[<<j, e>>])

LEMMA VirtBodyFits ==
  ASSUME NEW tbl, NEW free, FullTablesAreFull(tbl, free), NEW n \in Nat \ {0}, NEW g,
         NEW i \in 1 .. NumPages, NEW c \in 0 .. n - 1,
         VirtFits(tbl, free, n, g, i + 1)
  PROVE  IsVirtFit(tbl, free, n, i, c, VirtBody(tbl, free, n, g, <<i, c>>))
  <1> USE TableSizes
  <1>1. CASE i = NumPages
    <2>1. VirtStarts(tbl, n, i, c) = {}
      BY <1>1 DEF VirtStarts
    <2>2. NoVirt(free, i) = Null
      BY <1>1 DEF NoVirt
    <2> QED BY <1>1, <2>1, <2>2 DEF VirtBody, IsVirtFit
  <1>2. CASE i # NumPages /\ i % DirSize = 0 /\ free[DirOf(i)] = 0
    <2>1. i \in Pages
      BY <1>2 DEF Pages
    <2>2. /\ i + DirSize <= NumPages
          /\ i + DirSize # NumPages => i + DirSize <= NumPages - DirSize
          /\ i + DirSize = NumPages => DirOf(i) = NumDirs - 1
          /\ DirOf(i) \in Dirs
          /\ \A w \in i .. i + DirSize - 1 : w \in Pages /\ DirOf(w) = DirOf(i)
      BY <1>2, <2>1, TableStart
    <2>3. \A w \in i .. i + DirSize - 1 : Present(tbl, w)
      <3>1. \A w \in i .. i + DirSize - 1 : w # 0
        OBVIOUS
      <3> QED BY <1>2, <2>2, <3>1 DEF FullTablesAreFull
    <2>4. VirtStarts(tbl, n, i, c) = VirtStarts(tbl, n, i + DirSize, 0)
      BY <2>3, StartsAfter
    <2>5. CASE i + DirSize = NumPages
      <3>1. VirtStarts(tbl, n, i + DirSize, 0) = {}
        BY <2>5 DEF VirtStarts
      <3>2. NoVirt(free, i) = OutOfRange
        BY <1>2, <2>2, <2>5 DEF NoVirt
      <3> QED BY <1>2, <2>4, <2>5, <3>1, <3>2 DEF VirtBody, IsVirtFit
    <2>6. CASE i + DirSize # NumPages
      <3>1. NoVirt(free, i) = NoVirt(free, i + DirSize)
        BY <2>2, <2>6 DEF NoVirt
      <3>2. i + DirSize \in i + 1 .. NumPages /\ 0 \in 0 .. n - 1
        BY <2>2
      <3>3. IsVirtFit(tbl, free, n, i + DirSize, 0, g[<<i + DirSize, 0>>])
        BY <3>2 DEF VirtFits
      <3>4. IsVirtFit(tbl, free, n, i, c, g[<<i + DirSize, 0>>])
        BY <2>4, <3>1, <3>3, VirtFitSame
      <3> QED BY <1>2, <2>6, <3>4 DEF VirtBody
    <2> QED BY <2>5, <2>6
  <1>3. CASE i # NumPages /\ ~(i % DirSize = 0 /\ free[DirOf(i)] = 0)
    <2>1. NoVirt(free, i) = NoVirt(free, i + 1)
      <3>1. i = NumPages - DirSize => free[NumDirs - 1] # 0
        BY <1>3, LastTable
      <3> QED BY <3>1 DEF NoVirt
    <2>2. i + 1 \in i + 1 .. NumPages /\ 0 \in 0 .. n - 1
      BY <1>3
    <2>3. CASE Present(tbl, i)
      <3>1. IsVirtFit(tbl, free, n, i + 1, 0, g[<<i + 1, 0>>])
        BY <2>2 DEF VirtFits
      <3>2. VirtStarts(tbl, n, i, c) = VirtStarts(tbl, n, i + 1, 0)
        <4>1. \A w \in i .. (i + 1) - 1 : w = i
          OBVIOUS
        <4>2. \A w \in i .. (i + 1) - 1 : Present(tbl, w)
          BY <2>3, <4>1
        <4>3. i \in Int /\ i + 1 \in Int /\ i < i + 1
          OBVIOUS
        <4> QED BY <4>2, <4>3, StartsAfter
      <3>3. IsVirtFit(tbl, free, n, i, c, g[<<i + 1, 0>>])
        BY <2>1, <3>1, <3>2, VirtFitSame
      <3> QED BY <1>3, <2>3, <3>3 DEF VirtBody
    <2>4. CASE ~Present(tbl, i) /\ c + 1 = n
      <3>1. i - c \in VirtStarts(tbl, n, i, c)
        <4>1. \A w \in i .. (i - c) + n - 1 : w = i
          BY <2>4
        <4>2. (i - c) + n <= NumPages /\ i - c \in Int
          BY <1>3, <2>4
        <4> QED BY <2>4, <4>1, <4>2 DEF VirtStarts
      <3>2. \A s \in VirtStarts(tbl, n, i, c) : i - c <= s
        BY DEF VirtStarts
      <3>3. IsVirtFit(tbl, free, n, i, c, i - c)
        BY <3>1, <3>2 DEF IsVirtFit
      <3> QED BY <1>3, <2>4, <3>3 DEF VirtBody
    <2>5. CASE ~Present(tbl, i) /\ c + 1 # n
      <3>1. c + 1 \in 0 .. n - 1
        BY <2>5
      <3>2. IsVirtFit(tbl, free, n, i + 1, c + 1, g[<<i + 1, c + 1>>])
        BY <2>2, <3>1 DEF VirtFits
      <3>3. VirtStarts(tbl, n, i, c) = VirtStarts(tbl, n, i + 1, c + 1)
        BY <2>5, StartsGrow
      <3>4. IsVirtFit(tbl, free, n, i, c, g[<<i + 1, c + 1>>])
        BY <2>1, <3>2, <3>3, VirtFitSame
      <3> QED BY <1>3, <2>5, <3>4 DEF VirtBody
    <2> QED BY <2>3, <2>4, <2>5
  <1> QED BY <1>1, <1>2, <1>3

IsVirtScan(tbl, free, n, g) ==
  g = [q \in VirtPlaces(n) |-> VirtBody(tbl, free, n, g, q)]

LEMMA VirtScanExists ==
  ASSUME NEW tbl, NEW free, FullTablesAreFull(tbl, free), NEW n \in Nat \ {0}
  PROVE  \E g : IsVirtScan(tbl, free, n, g)
  <1> USE TableSizes
  <1> DEFINE g == [q \in VirtPlaces(n) |-> VirtFit(tbl, free, n, q[1], q[2])]
  <1>1. ASSUME NEW i \in 1 .. NumPages, NEW c \in 0 .. n - 1
        PROVE  g[<<i, c>>] = VirtFit(tbl, free, n, i, c)
    BY DEF VirtPlaces
  <1>2. ASSUME NEW i \in 1 .. NumPages, NEW c \in 0 .. n - 1
        PROVE  IsVirtFit(tbl, free, n, i, c, g[<<i, c>>])
    <2> HIDE DEF g
    <2> QED BY <1>1, VirtFitExists
  <1>3. ASSUME NEW i \in 1 .. NumPages, NEW c \in 0 .. n - 1
        PROVE  g[<<i, c>>] = VirtBody(tbl, free, n, g, <<i, c>>)
    <2> HIDE DEF g
    <2>1. VirtFits(tbl, free, n, g, i + 1)
      <3>1. \A j \in i + 1 .. NumPages : j \in 1 .. NumPages
        OBVIOUS
      <3> QED BY <1>2, <3>1 DEF VirtFits
    <2>2. IsVirtFit(tbl, free, n, i, c, VirtBody(tbl, free, n, g, <<i, c>>))
      BY <2>1, VirtBodyFits
    <2> QED BY <1>2, <2>2, VirtFitUnique
  <1>4. \A q \in VirtPlaces(n) : g[q] = VirtBody(tbl, free, n, g, q)
    <2> SUFFICES ASSUME NEW q \in VirtPlaces(n)
                 PROVE  g[q] = VirtBody(tbl, free, n, g, q)
      OBVIOUS
    <2> HIDE DEF g
    <2>1. q = <<q[1], q[2]>> /\ q[1] \in 1 .. NumPages /\ q[2] \in 0 .. n - 1
      BY DEF VirtPlaces
    <2> QED BY <1>3, <2>1
  <1>5. g = [q \in VirtPlaces(n) |-> g[q]]
    OBVIOUS
  <1>6. IsVirtScan(tbl, free, n, g)
    <2> HIDE DEF g
    <2> QED BY <1>4, <1>5 DEF IsVirtScan
  <1> QED BY <1>6

LEMMA VirtScanFits ==
  ASSUME NEW tbl, NEW free, FullTablesAreFull(tbl, free), NEW n \in Nat \ {0},
         NEW g, IsVirtScan(tbl, free, n, g)
  PROVE  VirtFits(tbl, free, n, g, 1)
  <1> USE TableSizes
  <1> DEFINE B == {i \in 1 .. NumPages :
                     \E c \in 0 .. n - 1 : ~IsVirtFit(tbl, free, n, i, c, g[<<i, c>>])}
  <1> SUFFICES ASSUME B # {} PROVE FALSE
    BY DEF VirtFits
  <1>1. PICK i \in B : \A x \in B : x <= i
    <2>1. B \subseteq Int /\ \A x \in B : x <= NumPages
      OBVIOUS
    <2>2. NumPages \in Int
      OBVIOUS
    <2> HIDE DEF B
    <2> QED BY <2>1, <2>2, GreatestInt
  <1>2. VirtFits(tbl, free, n, g, i + 1)
    <2> SUFFICES ASSUME NEW j \in i + 1 .. NumPages, NEW e \in 0 .. n - 1
                 PROVE  IsVirtFit(tbl, free, n, j, e, g[<<j, e>>])
      BY DEF VirtFits
    <2>1. j \in 1 .. NumPages /\ ~(j <= i)
      OBVIOUS
    <2> QED BY <1>1, <2>1
  <1>3. PICK c \in 0 .. n - 1 : ~IsVirtFit(tbl, free, n, i, c, g[<<i, c>>])
    OBVIOUS
  <1>4. g[<<i, c>>] = VirtBody(tbl, free, n, g, <<i, c>>)
    BY DEF IsVirtScan, VirtPlaces
  <1>5. IsVirtFit(tbl, free, n, i, c, VirtBody(tbl, free, n, g, <<i, c>>))
    BY <1>2, VirtBodyFits
  <1> QED BY <1>3, <1>4, <1>5

\* The starts the header of next_free_virt_page speaks of.
AbsentStarts(tbl, n) ==
  {v \in Pages \ {0} : InRange(v, n) /\ \A w \in Run(v, n) : ~Present(tbl, w)}

\* next_free_virt_page_allow_fail finds the first run of n absent pages, and
\* leaves the address space only when there is none and the last table is full.
LEMMA VirtScan ==
  ASSUME NEW tbl, NEW free, FullTablesAreFull(tbl, free), NEW n \in Nat \ {0}
  PROVE  \/ /\ NextFreeVirtPage(tbl, free, n) \in AbsentStarts(tbl, n)
            /\ \A s \in AbsentStarts(tbl, n) : NextFreeVirtPage(tbl, free, n) <= s
         \/ /\ AbsentStarts(tbl, n) = {}
            /\ \/ NextFreeVirtPage(tbl, free, n) = Null
               \/ NextFreeVirtPage(tbl, free, n) = OutOfRange /\ free[NumDirs - 1] = 0
  <1> USE TableSizes
  <1> DEFINE x == NextFreeVirtPage(tbl, free, n)
  <1>1. PICK g : /\ VirtFits(tbl, free, n, g, 1)
                 /\ x = IF free[0] = 0
                        THEN IF NumDirs = 1 THEN Null ELSE g[<<DirSize, 0>>]
                        ELSE g[<<1, 0>>]
    <2> DEFINE g == CHOOSE g : IsVirtScan(tbl, free, n, g)
    <2>1. x = IF free[0] = 0
              THEN IF NumDirs = 1 THEN Null ELSE g[<<DirSize, 0>>]
              ELSE g[<<1, 0>>]
      BY DEF NextFreeVirtPage, IsVirtScan, VirtBody, VirtPlaces
    <2>2. IsVirtScan(tbl, free, n, g)
      BY VirtScanExists
    <2>3. VirtFits(tbl, free, n, g, 1)
      <3> HIDE DEF g
      <3> QED BY <2>2, VirtScanFits
    <2> QED BY <2>1, <2>3
  <1>2. AbsentStarts(tbl, n) = VirtStarts(tbl, n, 1, 0)
    <2>1. ASSUME NEW v \in Int
          PROVE  v \in Pages \ {0} /\ InRange(v, n) <=> 1 <= v /\ v + n <= NumPages
      BY DEF Pages, InRange
    <2>2. ASSUME NEW v \in Int, 1 <= v
          PROVE  (\A w \in Run(v, n) : ~Present(tbl, w))
                   <=> (\A w \in 1 .. v + n - 1 : v <= w => ~Present(tbl, w))
      BY <2>2
    <2>3. \A v \in Pages : v \in Int
      BY PagesNat
    <2> QED BY <2>1, <2>2, <2>3 DEF AbsentStarts, VirtStarts
  <1>3. ASSUME NEW i \in 1 .. NumPages, IsVirtFit(tbl, free, n, i, 0, x),
               VirtStarts(tbl, n, i, 0) = VirtStarts(tbl, n, 1, 0)
        PROVE  \/ /\ x \in AbsentStarts(tbl, n)
                  /\ \A s \in AbsentStarts(tbl, n) : x <= s
               \/ /\ AbsentStarts(tbl, n) = {}
                  /\ x = Null \/ (x = OutOfRange /\ free[NumDirs - 1] = 0)
    <2> HIDE DEF x
    <2> QED BY <1>2, <1>3 DEF IsVirtFit, NoVirt
  <1>4. \A i \in 1 .. NumPages : IsVirtFit(tbl, free, n, i, 0, g[<<i, 0>>])
    BY <1>1 DEF VirtFits
  <1>5. free[0] = 0 => VirtStarts(tbl, n, 1, 0) = VirtStarts(tbl, n, DirSize, 0)
    <2> SUFFICES ASSUME free[0] = 0, DirSize # 1
                 PROVE  VirtStarts(tbl, n, 1, 0) = VirtStarts(tbl, n, DirSize, 0)
      OBVIOUS
    <2>1. 0 \in Dirs /\ 0 \in Pages
      BY PagesNat DEF Dirs
    <2>2. 0 % DirSize = 0 /\ DirOf(0) = 0
      BY DEF DirOf
    <2>3. \A w \in 0 .. 0 + DirSize - 1 : w \in Pages /\ DirOf(w) = 0
      BY <2>1, <2>2, TableStart
    <2>4. \A w \in 1 .. DirSize - 1 : w # 0 /\ w \in 0 .. 0 + DirSize - 1
      OBVIOUS
    <2>5. \A w \in 1 .. DirSize - 1 : Present(tbl, w)
      BY <2>1, <2>3, <2>4 DEF FullTablesAreFull
    <2>6. 0 \in 0 .. n - 1 /\ 1 < DirSize
      OBVIOUS
    <2> QED BY <2>5, <2>6, StartsAfter
  <1>6. DirSize \in 1 .. NumPages /\ (NumDirs = 1 => DirSize = NumPages)
    <2>1. NumDirs = 1 => DirSize = NumPages
      BY TableProducts
    <2>2. NumPages - DirSize \in Pages
      BY LastTable
    <2> QED BY <2>1, <2>2 DEF Pages
  <1>7. 1 \in 1 .. NumPages
    BY PagesNat
  <1> HIDE DEF x
  <1>8. CASE free[0] = 0 /\ NumDirs = 1
    <2>1. VirtStarts(tbl, n, DirSize, 0) = {}
      BY <1>6, <1>8 DEF VirtStarts
    <2> QED BY <1>1, <1>2, <1>5, <1>8, <2>1 DEF x
  <1>9. CASE free[0] = 0 /\ NumDirs # 1
    BY <1>1, <1>3, <1>4, <1>5, <1>6, <1>9 DEF x
  <1>10. CASE free[0] # 0
    BY <1>1, <1>3, <1>4, <1>7, <1>10 DEF x
  <1> QED BY <1>8, <1>9, <1>10

\* An absent start found, or none: the promise of the header, and what it leaves
\* out.
LEMMA VirtScanFirst ==
  ASSUME NEW tbl, NEW free, FullTablesAreFull(tbl, free), NEW n \in Nat \ {0}
  PROVE  \/ NextFreeVirtPage(tbl, free, n) = FirstAbsent(tbl, n)
         \/ /\ NextFreeVirtPage(tbl, free, n) = OutOfRange
            /\ FirstAbsent(tbl, n) = Null /\ free[NumDirs - 1] = 0
  <1> DEFINE x == NextFreeVirtPage(tbl, free, n)
             S == AbsentStarts(tbl, n)
  <1>1. FirstAbsent(tbl, n) = IF S = {} THEN Null ELSE CHOOSE v \in S : \A w \in S : v <= w
    BY DEF FirstAbsent, AbsentStarts
  <1>2. S \subseteq Nat
    BY PagesNat DEF AbsentStarts
  <1>3. ASSUME x \in S, \A s \in S : x <= s PROVE x = FirstAbsent(tbl, n)
    <2> HIDE DEF S, x
    <2>1. PICK y \in S : y = FirstAbsent(tbl, n) /\ \A w \in S : y <= w
      BY <1>1, <1>3
    <2>2. x <= y /\ y <= x
      BY <1>3, <2>1
    <2> QED BY <1>2, <1>3, <2>1, <2>2
  <1> HIDE DEF S, x
  <1> QED BY <1>1, <1>3, VirtScan DEF S, x

-----------------------------------------------------------------------------
(* The counters of absent pages.                                           *)

AbsentIn(tbl, d) == {v \in Pages \ {0} : DirOf(v) = d /\ ~Present(tbl, v)}

Exact(tbl, free) == \A d \in Dirs : free[d] = Cardinality(AbsentIn(tbl, d))

LEMMA PagesFinite == IsFiniteSet(Pages) /\ \A S \in SUBSET Pages : IsFiniteSet(S)
  <1>1. IsFiniteSet(0 .. NumPages - 1)
    BY TableSizes, FS_Interval
  <1> QED BY <1>1, FS_Subset DEF Pages

LEMMA AbsentFinite ==
  ASSUME NEW tbl, NEW d
  PROVE  IsFiniteSet(AbsentIn(tbl, d)) /\ Cardinality(AbsentIn(tbl, d)) \in Nat
  BY PagesFinite, FS_CardinalityType DEF AbsentIn

\* Exact counters are what the search needs of them.
LEMMA ExactMeansFull ==
  ASSUME NEW tbl, NEW free, Exact(tbl, free) PROVE FullTablesAreFull(tbl, free)
  <1> SUFFICES ASSUME NEW d \in Dirs, free[d] = 0, NEW w \in Pages \ {0}, DirOf(w) = d
               PROVE  Present(tbl, w)
    BY DEF FullTablesAreFull
  <1>1. Cardinality(AbsentIn(tbl, d)) = 0
    BY DEF Exact
  <1>2. AbsentIn(tbl, d) = {}
    BY <1>1, AbsentFinite, FS_EmptySet
  <1> QED BY <1>2 DEF AbsentIn

\* A table has DirSize pages.
LEMMA TableSize ==
  ASSUME NEW d \in Dirs
  PROVE  Cardinality({v \in Pages : DirOf(v) = d}) = DirSize
  <1> USE TableSizes
  <1>1. PICK x \in Nat : x = DirSize * d
    BY TablePages
  <1>2. {v \in Pages : DirOf(v) = d} = x .. x + DirSize - 1
    BY <1>1, TablePages
  <1>3. PICK y \in Int : y = x + DirSize - 1
    OBVIOUS
  <1>4. Cardinality(x .. y) = y - x + 1
    BY <1>3, FS_Interval
  <1>5. y - x + 1 = DirSize
    BY <1>3
  <1> QED BY <1>2, <1>3, <1>4, <1>5

\* What mapping a run does to the counters.
LEMMA MapKeepsExact ==
  ASSUME NEW tbl, NEW free \in [Dirs -> Int], Exact(tbl, free),
         NEW p \in Int, NEW v \in Int, NEW n \in Int,
         Run(v, n) \subseteq Pages \ {0}, Run(p, n) \subseteq Pages
  PROVE  Exact(MapRun(tbl, p, v, n), MapCount(free, tbl, v, n))
  <1> SUFFICES ASSUME NEW d \in Dirs
               PROVE  MapCount(free, tbl, v, n)[d]
                        = Cardinality(AbsentIn(MapRun(tbl, p, v, n), d))
    BY DEF Exact
  <1> DEFINE A == AbsentIn(tbl, d)
             M == {w \in NewlyMapped(tbl, v, n) : DirOf(w) = d}
  <1>1. M \subseteq A
    BY DEF NewlyMapped, AbsentIn
  <1>2. AbsentIn(MapRun(tbl, p, v, n), d) = A \ M
    <2>1. ASSUME NEW w \in NewlyMapped(tbl, v, n) PROVE p + (w - v) \in Pages
      <3>1. p + (w - v) \in p .. p + n - 1
        BY DEF NewlyMapped
      <3> QED BY <3>1
    <2>2. \A w \in Pages : Present(MapRun(tbl, p, v, n), w)
                             <=> w \in NewlyMapped(tbl, v, n) \/ Present(tbl, w)
      BY <2>1, AbsentAssumption DEF MapRun
    <2> QED BY <2>2 DEF AbsentIn
  <1>3. IsFiniteSet(A) /\ Cardinality(A) \in Nat
    BY AbsentFinite
  <1>4. A \cap M = M /\ IsFiniteSet(M)
    <2> HIDE DEF A, M
    <2> QED BY <1>1, <1>3, FS_Subset
  <1>5. Cardinality(A \ M) = Cardinality(A) - Cardinality(M)
    <2> HIDE DEF A, M
    <2> QED BY <1>3, <1>4, FS_Difference
  <1>6. MapCount(free, tbl, v, n)[d] = free[d] - Cardinality(M)
    BY DEF MapCount
  <1> QED BY <1>2, <1>5, <1>6 DEF Exact

\* What unmapping a mapped run does to the counters.
LEMMA UnmapKeepsExact ==
  ASSUME NEW tbl, NEW free \in [Dirs -> Int], Exact(tbl, free),
         NEW v \in Int, NEW n \in Int,
         Run(v, n) \subseteq Pages \ {0}, \A w \in Run(v, n) : Present(tbl, w)
  PROVE  Exact(UnmapRun(tbl, v, n), UnmapCount(free, v, n))
  <1> SUFFICES ASSUME NEW d \in Dirs
               PROVE  UnmapCount(free, v, n)[d]
                        = Cardinality(AbsentIn(UnmapRun(tbl, v, n), d))
    BY DEF Exact
  <1> DEFINE A == AbsentIn(tbl, d)
             M == {w \in Run(v, n) : DirOf(w) = d}
  <1>1. A \cap M = {} /\ M \subseteq Pages
    BY DEF AbsentIn
  <1>2. AbsentIn(UnmapRun(tbl, v, n), d) = A \cup M
    BY DEF AbsentIn, UnmapRun
  <1>3. IsFiniteSet(A) /\ Cardinality(A) \in Nat
    BY AbsentFinite
  <1>4. IsFiniteSet(M) /\ Cardinality(M) \in Nat
    <2> HIDE DEF M
    <2> QED BY <1>1, PagesFinite, FS_CardinalityType
  <1>5. Cardinality(A \cup M) = Cardinality(A) + Cardinality(M)
    <2> HIDE DEF A, M
    <2>1. Cardinality(A \cup M) = Cardinality(A) + Cardinality(M) - Cardinality(A \cap M)
      BY <1>3, <1>4, FS_Union
    <2>2. Cardinality(A \cap M) = 0
      BY <1>1, FS_EmptySet
    <2>3. \A a, m \in Nat : a + m - 0 = a + m
      OBVIOUS
    <2> QED BY <1>3, <1>4, <2>1, <2>2, <2>3
  <1>6. UnmapCount(free, v, n)[d] = free[d] + Cardinality(M)
    BY DEF UnmapCount
  <1> QED BY <1>2, <1>5, <1>6 DEF Exact

\* The counters paging starts with: page 0 is counted as mapped.
LEMMA PagingIsExact ==
  ASSUME NEW used \in SUBSET Pages, 0 \in used
  PROVE  Exact([v \in Pages |-> IF v \in used \ {0} THEN v ELSE Absent],
               [d \in Dirs |-> DirSize - Cardinality({v \in used : DirOf(v) = d})])
  <1> DEFINE tbl == [v \in Pages |-> IF v \in used \ {0} THEN v ELSE Absent]
  <1> SUFFICES ASSUME NEW d \in Dirs
               PROVE  DirSize - Cardinality({v \in used : DirOf(v) = d})
                        = Cardinality(AbsentIn(tbl, d))
    BY DEF Exact
  <1> DEFINE T == {v \in Pages : DirOf(v) = d}
             U == {v \in used : DirOf(v) = d}
  <1>1. AbsentIn(tbl, d) = T \ U
    BY AbsentAssumption DEF AbsentIn
  <1>2. T \cap U = U /\ T \subseteq Pages /\ U \subseteq Pages
    OBVIOUS
  <1>3. Cardinality(T) = DirSize
    BY TableSize
  <1> HIDE DEF T, U, tbl
  <1>4. IsFiniteSet(T) /\ IsFiniteSet(U)
    BY <1>2, PagesFinite
  <1>5. Cardinality(T \ U) = Cardinality(T) - Cardinality(U)
    <2>1. Cardinality(T \ U) = Cardinality(T) - Cardinality(T \cap U)
      BY <1>4, FS_Difference
    <2> QED BY <2>1, <1>2
  <1> QED BY <1>1, <1>3, <1>5 DEF U

\* A successful call of map_virt, and the one after the frames were registered.
MapsRun(p, v, n) ==
  /\ CanRegister(usage, p, n) /\ InRange(v, n) /\ p < last_usable
  /\ MayMap(pt, p, v, n, FALSE)
  /\ usage' = Register(usage, p, n)
  /\ pt' = MapRun(pt, p, v, n)
  /\ dirfree' = MapCount(dirfree, pt, v, n)
  /\ held' = held \cup {[v |-> v, n |-> n]}
  /\ UNCHANGED <<phase, panic, last_usable, free_mem>>

MapAborts(p, v, n) ==
  \/ ~InRange(v, n) /\ Abort("virtual address out of range")
  \/ InRange(v, n) /\ p >= last_usable /\ Abort("can't map invalid physical address")
  \/ /\ InRange(v, n) /\ p < last_usable /\ ~MayMap(pt, p, v, n, FALSE)
     /\ Abort("can't map mapped virtual address")

\* An allocation, by the pages p and v the scans find.
Allocates(p, v, n) ==
  \/ p = Null /\ UNCHANGED vars
  \/ p = Null /\ Abort("Out of Physical Memory")
  \/ p # Null /\ ~CanRegister(usage, p, n) /\ Abort("Trying to register non-free page")
  \/ /\ p # Null /\ CanRegister(usage, p, n) /\ v = Null
     /\ Abort("Out of Virtual Memory")
  \/ /\ p # Null /\ CanRegister(usage, p, n) /\ v = Null
     /\ usage' = Register(usage, p, n)
     /\ UNCHANGED <<phase, panic, last_usable, free_mem, pt, dirfree, held>>
  \/ p # Null /\ v # Null /\ CanRegister(usage, p, n) /\ MapAborts(p, v, n)
  \/ p # Null /\ v # Null /\ MapsRun(p, v, n)

LEMMA AllocationSteps ==
  ASSUME NEW n \in 1 .. MaxAlloc, AllocVirtPage(n) \/ AllocVirtPageAllowFail(n)
  PROVE  /\ Running
         /\ NextFreePhysPages(usage, n) \in Pages
         /\ NextFreeVirtPage(pt, dirfree, n) \in Pages \cup {OutOfRange}
         /\ Allocates(NextFreePhysPages(usage, n), NextFreeVirtPage(pt, dirfree, n), n)
  <1>1. Running
    BY DEF AllocVirtPage, AllocVirtPageAllowFail
  <1>2. PICK f \in FoundPages(n) : Allocates(f[1], f[2], n)
    BY DEF AllocVirtPage, AllocVirtPageAllowFail, Allocates, MapVirt, MapsRun, MapAborts
  <1>3. f = <<NextFreePhysPages(usage, n), NextFreeVirtPage(pt, dirfree, n)>>
        /\ f \in Pages \X (Pages \cup {OutOfRange})
    BY DEF FoundPages
  <1> QED BY <1>1, <1>2, <1>3

\* A run mapped at v and the page ids it involves.
LEMMA MapsRunTypes ==
  ASSUME TypeOK, NEW n \in 1 .. MaxAlloc, NEW p \in Pages,
         NEW v \in Pages \cup {OutOfRange}, v # Null, MapsRun(p, v, n)
  PROVE  /\ p \in Int /\ v \in Int /\ n \in Int /\ n >= 1
         /\ Run(v, n) \subseteq Pages \ {0} /\ Run(p, n) \subseteq Pages
         /\ Run(p, n) \subseteq usage
         /\ \A w \in Run(v, n) : ~Present(pt, w)
  <1> USE TableSizes, MemAssumption
  <1>1. p \in Int /\ v \in Nat /\ v # 0 /\ n \in Int /\ n >= 1
    BY PagesNat DEF OutOfRange
  <1>2. Run(v, n) \subseteq Pages \ {0}
    BY <1>1 DEF MapsRun, InRange, Pages
  <1>3. Run(p, n) \subseteq usage /\ usage \subseteq Pages
    BY DEF MapsRun, CanRegister, TypeOK
  <1>4. \A w \in Run(v, n) : ~Present(pt, w)
    BY DEF MapsRun, MayMap
  <1> QED BY <1>1, <1>2, <1>3, <1>4

LEMMA CountersStep ==
  ASSUME SafeInv, CountersExact, [Next]_vars PROVE CountersExact'
  <1> DEFINE C == CountersExact
  <1>c. CountersExact <=> (phase = "running" => Exact(pt, dirfree))
    BY DEF CountersExact, Exact, AbsentIn
  <1>d. CountersExact' <=> (phase' = "running" => Exact(pt', dirfree'))
    BY DEF CountersExact, Exact, AbsentIn
  <1>e. SUFFICES ASSUME phase' = "running" PROVE Exact(pt', dirfree')
    BY <1>d
  <1>t. TypeOK /\ dirfree \in [Dirs -> Int]
    BY DEF SafeInv, TypeOK
  <1>a. ASSUME UNCHANGED <<phase, pt, dirfree>> PROVE Exact(pt', dirfree')
    <2>1. phase = "running" /\ pt' = pt /\ dirfree' = dirfree
      BY <1>a, <1>e
    <2> QED BY <1>c, <2>1
  <1>b. ASSUME NEW why, Abort(why) PROVE Exact(pt', dirfree')
    BY <1>a, <1>b DEF Abort
  <1>1. ASSUME NEW mmap \in MemoryMaps, X86Init(mmap) PROVE Exact(pt', dirfree')
    BY <1>1, <1>b, <1>e DEF X86Init
  <1>2. CASE IDTSetup
    BY <1>2, <1>b, <1>e DEF IDTSetup
  <1>3. CASE X86PagingInit
    <2> DEFINE rest == Register(usage, NextFreePhysPages(usage, DirPages), DirPages)
               free == rest \ Lowest(rest, NumDirs)
               used == (0 .. last_usable) \ free
    <2>1. phase # "running"
      BY <1>3 DEF X86PagingInit
    <2>2. /\ pt' = [v \in Pages |-> IF v \in used \ {0} THEN v ELSE Absent]
          /\ dirfree' = [d \in Dirs |-> DirSize - Cardinality({v \in used : DirOf(v) = d})]
      BY <1>3, <1>e, <2>1 DEF X86PagingInit, Abort
    <2>3. last_usable \in 0 .. NumPages - 1 /\ usage \cap Reserved = {} /\ 0 \in Reserved
      BY <1>t DEF SafeInv, TypeOK, Pages, Reserved
    <2>4. free \subseteq usage
      BY DEF Register
    <2> HIDE DEF free
    <2>5. used \in SUBSET Pages /\ 0 \in used
      BY <2>3, <2>4, TableSizes DEF Pages
    <2> HIDE DEF used
    <2> QED BY <2>2, <2>5, PagingIsExact
  <1>4. ASSUME NEW n \in 1 .. MaxAlloc, AllocVirtPage(n) \/ AllocVirtPageAllowFail(n)
        PROVE  Exact(pt', dirfree')
    <2>1. PICK p \in Pages, v \in Pages \cup {OutOfRange} : Allocates(p, v, n)
      BY <1>4, AllocationSteps
    <2>2. CASE v # Null /\ MapsRun(p, v, n)
      <3>1. /\ p \in Int /\ v \in Int /\ n \in Int
            /\ Run(v, n) \subseteq Pages \ {0} /\ Run(p, n) \subseteq Pages
        BY <1>t, <2>2, MapsRunTypes
      <3>2. Exact(pt, dirfree)
        BY <1>c, <1>e, <2>2 DEF MapsRun
      <3>3. Exact(MapRun(pt, p, v, n), MapCount(dirfree, pt, v, n))
        BY <1>t, <3>1, <3>2, MapKeepsExact
      <3> QED BY <2>2, <3>3 DEF MapsRun
    <2>3. CASE \E why \in AbortMessages : Abort(why)
      BY <1>b, <2>3
    <2>4. CASE UNCHANGED <<phase, pt, dirfree>>
      BY <1>a, <2>4
    <2> QED BY <2>1, <2>2, <2>3, <2>4 DEF Allocates, MapAborts, vars
  <1>5. ASSUME NEW b \in held, FreeVirtPage(b) PROVE Exact(pt', dirfree')
    <2>1. CASE /\ pt' = UnmapRun(pt, b.v, b.n) /\ dirfree' = UnmapCount(dirfree, b.v, b.n)
               /\ phase' = phase
      <3>1. b.v \in Int /\ b.n \in Int
        <4>1. b \in HeldBlock
          BY <1>t DEF TypeOK
        <4> QED BY <4>1, PagesNat, MemAssumption DEF HeldBlock
      <3>2. Run(b.v, b.n) \subseteq Pages \ {0} /\ \A w \in Run(b.v, b.n) : Present(pt, w)
        BY HeldPages DEF SafeInv
      <3>3. Exact(UnmapRun(pt, b.v, b.n), UnmapCount(dirfree, b.v, b.n))
        BY <1>c, <1>e, <1>t, <2>1, <3>1, <3>2, UnmapKeepsExact
      <3> QED BY <2>1, <3>3
    <2> QED BY <1>5, <1>b, <2>1 DEF FreeVirtPage
  <1>6. ASSUME NEW r \in FirmwareRuns, IdentityMap(r) PROVE Exact(pt', dirfree')
    <2>1. CASE /\ pt' = MapRun(pt, r[1], r[1], r[2])
               /\ dirfree' = MapCount(dirfree, pt, r[1], r[2])
               /\ phase' = phase
      <3>1. r[1] \in Int /\ r[2] \in Int /\ Run(r[1], r[2]) \subseteq Pages \ {0}
        BY FirmwareAssumption, TableSizes DEF InRange, Pages
      <3>2. Run(r[1], r[2]) \subseteq Pages
        BY <3>1
      <3>3. Exact(MapRun(pt, r[1], r[1], r[2]), MapCount(dirfree, pt, r[1], r[2]))
        BY <1>c, <1>e, <1>t, <2>1, <3>1, <3>2, MapKeepsExact
      <3> QED BY <2>1, <3>3
    <2> QED BY <1>6, <1>b, <2>1 DEF IdentityMap
  <1>7. CASE MapNull \/ UnmapNull
    <2>1. \A w \in Pages \ {0} : pt'[w] = pt[w]
      BY <1>7, <1>t DEF MapNull, UnmapNull, TypeOK
    <2>2. \A d \in Dirs : AbsentIn(pt', d) = AbsentIn(pt, d)
      BY <2>1 DEF AbsentIn
    <2>3. Exact(pt, dirfree) /\ dirfree' = dirfree
      BY <1>7, <1>c DEF MapNull, UnmapNull, Running
    <2> QED BY <2>2, <2>3 DEF Exact
  <1>8. CASE UNCHANGED vars
    BY <1>8, <1>a DEF vars
  <1> QED BY <1>1, <1>2, <1>3, <1>4, <1>5, <1>6, <1>7, <1>8 DEF Next

\* The counters by which next_free_virt_page skips tables stay exact through every
\* allocation, free, identity map and null-page call.
THEOREM CountersAreExact ==
  ASSUME ReservedStaysReserved PROVE Spec => []CountersExact
  <1>1. SafeInv /\ [Next]_vars => SafeInv'
    BY SafeStep
  <1>2. SafeInv /\ CountersExact /\ [Next]_vars => CountersExact'
    BY CountersStep
  <1>3. Init => CountersExact
    BY DEF Init, CountersExact
  <1> QED BY <1>1, <1>2, <1>3, SafeStart, PTL DEF Spec

\* In every reachable state both searches find the first run that fits, whatever
\* words and tables they skip; the search of the tables leaves the address space
\* only when no run fits and the last table is full.
THEOREM ScansFindFirstFit ==
  ASSUME ReservedStaysReserved PROVE Spec => []ScansAreFirstFit
  <1>1. SafeInv /\ CountersExact => ScansAreFirstFit
    <2> SUFFICES ASSUME SafeInv, CountersExact, Running, NEW n \in 1 .. MaxAlloc
                 PROVE  /\ NextFreePhysPages(usage, n) = FirstFit(usage, n)
                        /\ \/ NextFreeVirtPage(pt, dirfree, n) = FirstAbsent(pt, n)
                           \/ /\ NextFreeVirtPage(pt, dirfree, n) = OutOfRange
                              /\ FirstAbsent(pt, n) = Null /\ dirfree[NumDirs - 1] = 0
      BY DEF ScansAreFirstFit
    <2>1. n \in Nat \ {0}
      BY MemAssumption
    <2>2. usage \subseteq Pages
      BY DEF SafeInv, TypeOK
    <2>3. FullTablesAreFull(pt, dirfree)
      <3>1. Exact(pt, dirfree)
        BY DEF CountersExact, Exact, AbsentIn, Running
      <3> QED BY <3>1, ExactMeansFull
    <2> QED BY <2>1, <2>2, <2>3, PhysScan, VirtScanFirst
  <1>2. Spec => []SafeInv
    <2>1. SafeInv /\ [Next]_vars => SafeInv'
      BY SafeStep
    <2> QED BY <2>1, SafeStart, PTL DEF Spec
  <1> QED BY <1>1, <1>2, CountersAreExact, PTL
-----------------------------------------------------------------------------
(* The two searches move in lock step.                                     *)

\* Every mapping is the identity, and what is free or held is RAM the memory map
\* announced: with LockStep itself, what keeps the two searches together.
IdentityMapped == \A w \in Pages : Present(pt, w) => pt[w] = w

WithinUsable ==
  /\ usage \subseteq 0 .. last_usable
  /\ \A b \in held : Run(b.v, b.n) \subseteq 1 .. last_usable

Together == LockStep /\ IdentityMapped /\ WithinUsable

LockInv == Together /\ NoInternalAbort

LEMMA LastPage ==
  ASSUME TypeOK PROVE last_usable \in Nat /\ last_usable < NumPages
  <1>1. last_usable \in Pages
    BY DEF TypeOK
  <1> QED BY <1>1, TableSizes DEF Pages

\* When the bitmap has a run, the tables have it too, and no earlier one.
LEMMA FoundTogether ==
  ASSUME SafeInv, CountersExact, Together, Running, NEW n \in 1 .. MaxAlloc,
         NEW p \in Pages, p = NextFreePhysPages(usage, n), p # Null
  PROVE  /\ NextFreeVirtPage(pt, dirfree, n) = p
         /\ CanRegister(usage, p, n) /\ InRange(p, n)
         /\ MayMap(pt, p, p, n, FALSE)
         /\ Run(p, n) \subseteq 1 .. last_usable
  <1> USE TableSizes, MemAssumption
  <1>1. n \in Nat \ {0} /\ last_usable \in Nat /\ last_usable < NumPages /\ p \in Nat
    BY PagesNat, LastPage DEF SafeInv
  <1>2. usage \subseteq Pages /\ 0 \notin usage /\ usage \subseteq 1 .. last_usable
    <2>1. usage \subseteq Pages /\ 0 \notin usage
      BY DEF SafeInv, TypeOK, Reserved
    <2> QED BY <2>1 DEF Together, WithinUsable
  <1>3. /\ Run(p, n) \subseteq usage /\ p \in usage
        /\ \A q \in usage : Run(q, n) \subseteq usage => p <= q
    <2>1. IsFit(usage, n, 0, p)
      BY <1>1, <1>2, PhysScan
    <2> QED BY <1>2, <2>1 DEF IsFit, StartsFrom
  <1>4. \A v \in 1 .. last_usable : v \in usage <=> ~Present(pt, v)
    <2>1. \A v \in 1 .. last_usable : v \in Pages
      BY <1>1 DEF Pages
    <2> QED BY <2>1, AbsentAssumption DEF Together, LockStep, Running
  <1>5. Run(p, n) \subseteq 1 .. last_usable /\ \A w \in Run(p, n) : ~Present(pt, w)
    BY <1>2, <1>3, <1>4
  <1>6. p + n - 1 <= last_usable /\ p >= 1
    <2>1. p + n - 1 \in Run(p, n) /\ p \in Run(p, n)
      BY <1>1
    <2> QED BY <1>5, <2>1
  <1>7. p \in AbsentStarts(pt, n)
    BY <1>1, <1>5, <1>6 DEF AbsentStarts, InRange
  <1>8. ASSUME NEW s \in AbsentStarts(pt, n) PROVE p <= s
    <2> SUFFICES ASSUME s < p PROVE FALSE
      BY <1>1, PagesNat DEF AbsentStarts
    <2>1. s \in Nat /\ s # 0 /\ \A w \in Run(s, n) : ~Present(pt, w)
      BY PagesNat DEF AbsentStarts
    <2>2. \A w \in Run(s, n) : w \in 1 .. last_usable
      BY <1>1, <1>6, <2>1
    <2>3. s \in Run(s, n)
      BY <1>1, <2>1
    <2>4. Run(s, n) \subseteq usage /\ s \in usage
      BY <1>4, <2>1, <2>2, <2>3
    <2> QED BY <1>1, <1>3, <2>1, <2>4
  <1>9. NextFreeVirtPage(pt, dirfree, n) = p
    <2>1. FullTablesAreFull(pt, dirfree)
      <3>1. Exact(pt, dirfree)
        BY DEF CountersExact, Exact, AbsentIn, Running
      <3> QED BY <3>1, ExactMeansFull
    <2>2. PICK v : /\ v = NextFreeVirtPage(pt, dirfree, n)
                   /\ v \in AbsentStarts(pt, n) /\ \A s \in AbsentStarts(pt, n) : v <= s
      BY <1>1, <1>7, <2>1, VirtScan
    <2>3. v <= p /\ p <= v /\ v \in Nat
      BY <1>7, <1>8, <2>2, PagesNat DEF AbsentStarts
    <2> QED BY <1>1, <2>2, <2>3
  <1> QED BY <1>3, <1>5, <1>7, <1>9 DEF AbsentStarts, MayMap, CanRegister

\* Steps that leave the bitmap, the tables and the blocks alone.
LEMMA TogetherFrame ==
  ASSUME Together, UNCHANGED <<phase, usage, last_usable, pt, held>>
  PROVE  Together'
  BY DEF Together, LockStep, IdentityMapped, WithinUsable

\* An allocation that maps the run it registers keeps them together.
LEMMA TogetherTakes ==
  ASSUME SafeInv, Together, Running, NEW n \in 1 .. MaxAlloc, NEW p \in Pages,
         Run(p, n) \subseteq 1 .. last_usable, MapsRun(p, p, n)
  PROVE  Together'
  <1> USE TableSizes, MemAssumption
  <1>1. p \in Int /\ n \in Int /\ last_usable \in Nat /\ last_usable < NumPages
    BY PagesNat, LastPage DEF SafeInv
  <1>2. \A w \in Run(p, n) : ~Present(pt, w)
    BY DEF MapsRun, MayMap
  <1>3. \A w \in Pages : pt'[w] = IF w \in Run(p, n) THEN w ELSE pt[w]
    <2>1. \A w \in Pages : pt'[w] = IF w \in Run(p, n) THEN p + (w - p) ELSE pt[w]
      BY <1>2, MapRunFresh DEF MapsRun
    <2>2. \A w \in Pages : p + (w - p) = w
      BY <1>1, PagesNat
    <2> QED BY <2>1, <2>2
  <1>4. /\ usage' = usage \ Run(p, n) /\ held' = held \cup {[v |-> p, n |-> n]}
        /\ phase' = phase /\ last_usable' = last_usable
    BY DEF MapsRun, Register
  <1>5. LockStep'
    <2> SUFFICES ASSUME NEW v \in 1 .. last_usable
                 PROVE  IF v \in usage' THEN ~Present(pt', v) ELSE pt'[v] = v
      BY <1>4 DEF LockStep
    <2>1. v \in Pages
      BY <1>1 DEF Pages
    <2>2. IF v \in usage THEN ~Present(pt, v) ELSE pt[v] = v
      BY DEF Together, LockStep, Running
    <2> QED BY <1>3, <1>4, <2>1, <2>2
  <1>6. IdentityMapped'
    BY <1>3 DEF Together, IdentityMapped
  <1>7. WithinUsable'
    <2>1. \A b \in held : Run(b.v, b.n) \subseteq 1 .. last_usable
      BY DEF Together, WithinUsable
    <2>2. usage' \subseteq 0 .. last_usable'
      BY <1>4 DEF Together, WithinUsable
    <2>3. \A b \in held' : Run(b.v, b.n) \subseteq 1 .. last_usable'
      BY <1>4, <2>1
    <2> QED BY <2>2, <2>3 DEF WithinUsable
  <1> QED BY <1>5, <1>6, <1>7 DEF Together

\* So does giving a block back.
LEMMA TogetherGives ==
  ASSUME SafeInv, Together, Running, NEW b \in held,
         usage' = usage \cup Frames(b), held' = held \ {b},
         pt' = UnmapRun(pt, b.v, b.n), phase' = phase, last_usable' = last_usable
  PROVE  Together'
  <1>1. Frames(b) = Run(b.v, b.n)
    BY HeldPages DEF SafeInv, Together, IdentityMapped, Frames
  <1>2. \A w \in Pages : pt'[w] = IF w \in Run(b.v, b.n) THEN Absent ELSE pt[w]
    BY DEF UnmapRun
  <1>3. Run(b.v, b.n) \subseteq 1 .. last_usable
    BY DEF Together, WithinUsable
  <1>4. last_usable \in Nat /\ last_usable < NumPages
    BY LastPage DEF SafeInv
  <1>5. LockStep'
    <2> SUFFICES ASSUME NEW v \in 1 .. last_usable
                 PROVE  IF v \in usage' THEN ~Present(pt', v) ELSE pt'[v] = v
      BY DEF LockStep
    <2>1. v \in Pages
      BY <1>4, TableSizes DEF Pages
    <2>2. IF v \in usage THEN ~Present(pt, v) ELSE pt[v] = v
      BY DEF Together, LockStep, Running
    <2> QED BY <1>1, <1>2, <2>1, <2>2
  <1>6. IdentityMapped'
    BY <1>2 DEF Together, IdentityMapped
  <1>7. WithinUsable'
    <2>1. Run(b.v, b.n) \subseteq 0 .. last_usable
      BY <1>3, <1>4
    <2>2. usage' \subseteq 0 .. last_usable'
      BY <1>1, <2>1 DEF Together, WithinUsable
    <2>3. \A c \in held' : Run(c.v, c.n) \subseteq 1 .. last_usable'
      BY DEF Together, WithinUsable
    <2> QED BY <2>2, <2>3 DEF WithinUsable
  <1> QED BY <1>5, <1>6, <1>7 DEF Together

\* And writing v -> v, or page 0's entry, where no page is free.
LEMMA TogetherIdentity ==
  ASSUME Together, Running, last_usable \in Nat, last_usable < NumPages,
         UNCHANGED <<phase, usage, last_usable, held>>,
         \A w \in Pages : \/ pt'[w] = pt[w]
                          \/ w \notin usage /\ pt'[w] = w
                          \/ w = 0 /\ ~Present(pt', w)
  PROVE  Together'
  <1>1. LockStep'
    <2> SUFFICES ASSUME NEW v \in 1 .. last_usable
                 PROVE  IF v \in usage THEN ~Present(pt', v) ELSE pt'[v] = v
      BY DEF LockStep
    <2>1. v \in Pages /\ v # 0
      BY TableSizes DEF Pages
    <2>2. IF v \in usage THEN ~Present(pt, v) ELSE pt[v] = v
      BY DEF Together, LockStep, Running
    <2> QED BY <2>1, <2>2
  <1>2. IdentityMapped'
    BY DEF Together, IdentityMapped
  <1>3. WithinUsable'
    BY DEF Together, WithinUsable
  <1> QED BY <1>1, <1>2, <1>3 DEF Together

LEMMA LockStart == Init => LockInv
  BY DEF Init, LockInv, Together, LockStep, IdentityMapped, WithinUsable, NoInternalAbort

LEMMA LockStepHolds ==
  ASSUME ReservedStaysReserved, NothingFreedAbove, SafeInv, CountersExact, LockInv, [Next]_vars
  PROVE  LockInv'
  <1>t. TypeOK /\ last_usable \in Nat /\ last_usable < NumPages
    BY LastPage DEF SafeInv
  <1>u. Together /\ panic \notin InternalAborts
    BY DEF LockInv, NoInternalAbort
  <1>a. ASSUME NEW why, Abort(why), why \notin InternalAborts PROVE LockInv'
    <2>1. Together' /\ panic' = why
      BY <1>a, <1>u, TogetherFrame DEF Abort
    <2> QED BY <1>a, <2>1 DEF LockInv, NoInternalAbort
  <1>b. ASSUME Together', panic' = panic PROVE LockInv'
    BY <1>b, <1>u DEF LockInv, NoInternalAbort
  <1>1. ASSUME NEW mmap \in MemoryMaps, X86Init(mmap) PROVE LockInv'
    <2>1. CASE /\ phase' = "parsed"
               /\ usage' = (FreedBy(Blocks(mmap)) \cap Pages)
                             \ Touched(KernelStartPage, KernelEndPage)
               /\ last_usable' = LastUsable(Blocks(mmap))
               /\ UNCHANGED <<panic, pt, dirfree, held>>
      <3>1. phase = "reset"
        BY <1>1 DEF X86Init
      <3>2. held = {} /\ \A v \in Pages : ~Present(pt, v)
        BY <3>1 DEF SafeInv, NothingBeforePaging
      <3>3. usage' \subseteq 0 .. last_usable'
        <4>1. FreedBy(Blocks(mmap)) \cap Pages \subseteq 0 .. LastUsable(Blocks(mmap))
          BY DEF NothingFreedAbove
        <4> QED BY <2>1, <4>1
      <3>4. Together'
        BY <2>1, <3>2, <3>3 DEF Together, LockStep, IdentityMapped, WithinUsable
      <3> QED BY <1>b, <2>1, <3>4
    <2>2. CASE Abort("No Usable Memory") \/ Abort("page_count_expected==page_count")
      BY <1>a, <2>2
    <2> QED BY <1>1, <2>1, <2>2 DEF X86Init
  <1>2. CASE IDTSetup
    <2>1. CASE /\ phase' = "idt" /\ usage' \subseteq usage
               /\ UNCHANGED <<panic, last_usable, free_mem, pt, dirfree, held>>
      <3>1. Together'
        BY <1>u, <2>1 DEF Together, LockStep, IdentityMapped, WithinUsable
      <3> QED BY <1>b, <2>1, <3>1
    <2>2. CASE Abort("Out of Physical Memory")
      BY <1>a, <2>2
    <2> QED BY <1>2, <2>1, <2>2 DEF IDTSetup, Register
  <1>3. CASE X86PagingInit
    <2> DEFINE rest == Register(usage, NextFreePhysPages(usage, DirPages), DirPages)
               free == rest \ Lowest(rest, NumDirs)
               used == (0 .. last_usable) \ free
    <2>1. CASE /\ phase' = "running" /\ usage' = free
               /\ pt' = [v \in Pages |-> IF v \in used \ {0} THEN v ELSE Absent]
               /\ UNCHANGED <<panic, last_usable, free_mem, held>>
      <3>1. phase = "idt"
        BY <1>3 DEF X86PagingInit
      <3>2. held = {}
        BY <3>1 DEF SafeInv, NothingBeforePaging
      <3>3. free \subseteq usage
        BY DEF Register
      <3> HIDE DEF free
      <3>4. LockStep'
        <4> SUFFICES ASSUME NEW v \in 1 .. last_usable
                     PROVE  IF v \in usage' THEN ~Present(pt', v) ELSE pt'[v] = v
          BY <2>1 DEF LockStep
        <4>1. v \in Pages /\ v # 0 /\ v \in 0 .. last_usable
          BY <1>t, TableSizes DEF Pages
        <4> QED BY <2>1, <4>1
      <3>5. IdentityMapped'
        BY <2>1 DEF IdentityMapped
      <3>6. WithinUsable'
        BY <1>u, <2>1, <3>2, <3>3 DEF Together, WithinUsable
      <3> QED BY <1>b, <2>1, <3>4, <3>5, <3>6 DEF Together
    <2>2. CASE \/ Abort("Not enough memory for page tables")
               \/ Abort("Out of Physical Memory")
      BY <1>a, <2>2
    <2> HIDE DEF rest, free, used
    <2> QED BY <1>3, <2>1, <2>2 DEF X86PagingInit, rest, free, used
  <1>4. ASSUME NEW n \in 1 .. MaxAlloc, AllocVirtPage(n) \/ AllocVirtPageAllowFail(n)
        PROVE  LockInv'
    <2>1. PICK p \in Pages, v \in Pages \cup {OutOfRange} :
            /\ p = NextFreePhysPages(usage, n) /\ v = NextFreeVirtPage(pt, dirfree, n)
            /\ Allocates(p, v, n) /\ Running
      BY <1>4, AllocationSteps
    <2>2. CASE p = Null
      <3>1. CASE UNCHANGED vars
        <4>1. Together' /\ panic' = panic
          BY <1>u, <3>1, TogetherFrame DEF vars
        <4> QED BY <1>b, <4>1
      <3>2. CASE Abort("Out of Physical Memory")
        BY <1>a, <3>2
      <3> QED BY <2>1, <2>2, <3>1, <3>2 DEF Allocates
    <2>3. CASE p # Null
      <3>1. /\ v = p /\ CanRegister(usage, p, n) /\ InRange(p, n)
            /\ MayMap(pt, p, p, n, FALSE) /\ Run(p, n) \subseteq 1 .. last_usable
        BY <1>u, <2>1, <2>3, FoundTogether
      <3>2. CASE MapsRun(p, p, n)
        <4>1. Together' /\ panic' = panic
          BY <1>u, <2>1, <3>1, <3>2, TogetherTakes DEF MapsRun
        <4> QED BY <1>b, <4>1
      <3>3. CASE Abort("can't map invalid physical address")
        BY <1>a, <3>3
      <3> QED BY <2>1, <2>3, <3>1, <3>2, <3>3 DEF Allocates, MapAborts
    <2> QED BY <2>2, <2>3
  <1>5. ASSUME NEW b \in held, FreeVirtPage(b) PROVE LockInv'
    <2>1. Running
      BY <1>5 DEF FreeVirtPage
    <2>2. TypeOK'
      BY <1>t, TypeStep
    <2>3. /\ usage' = usage \cup Frames(b) /\ held' = held \ {b}
          /\ pt' = UnmapRun(pt, b.v, b.n) /\ phase' = phase
      BY <1>5, <2>1, <2>2, FreeSafe
    <2>4. UNCHANGED <<panic, last_usable>>
      BY <1>5, <2>3 DEF FreeVirtPage, Abort
    <2>5. Together'
      BY <1>u, <2>1, <2>3, <2>4, TogetherGives
    <2> QED BY <1>b, <2>4, <2>5
  <1>6. ASSUME NEW r \in FirmwareRuns, IdentityMap(r) PROVE LockInv'
    <2>1. r[1] \in Int /\ r[2] \in Int /\ Run(r[1], r[2]) \subseteq Pages
      BY FirmwareAssumption, PagesNat, TableSizes DEF InRange, Pages
    <2>2. \A w \in Pages : r[1] + (w - r[1]) = w
      BY <2>1, PagesNat
    <2>3. MayMap(pt, r[1], r[1], r[2], TRUE)
      BY <1>u, <2>1, <2>2 DEF MayMap, Together, IdentityMapped
    <2>4. /\ Running /\ pt' = MapRun(pt, r[1], r[1], r[2])
          /\ UNCHANGED <<phase, panic, usage, last_usable, free_mem, held>>
      BY <1>6, <2>3 DEF IdentityMap
    <2>5. \A w \in Run(r[1], r[2]) : w \notin usage
      BY DEF SafeInv, Reserved
    <2>6. \A w \in Pages : pt'[w] = pt[w] \/ (w \notin usage /\ pt'[w] = w)
      BY <2>2, <2>4, <2>5 DEF MapRun, NewlyMapped
    <2>7. Together'
      BY <1>t, <1>u, <2>4, <2>6, TogetherIdentity
    <2> QED BY <1>b, <2>4, <2>7
  <1>7. CASE MapNull \/ UnmapNull
    <2>1. /\ Running /\ UNCHANGED <<phase, panic, usage, last_usable, held>>
          /\ \A w \in Pages : \/ pt'[w] = pt[w]
                              \/ w = 0 /\ (pt'[w] = w \/ pt'[w] = Absent)
      BY <1>7, <1>t DEF MapNull, UnmapNull, TypeOK
    <2>2. 0 \notin usage
      BY DEF SafeInv, Reserved
    <2>3. \A w \in Pages : \/ pt'[w] = pt[w]
                           \/ w \notin usage /\ pt'[w] = w
                           \/ w = 0 /\ ~Present(pt', w)
      BY <2>1, <2>2
    <2>4. Together'
      BY <1>t, <1>u, <2>1, <2>3, TogetherIdentity
    <2> QED BY <1>b, <2>1, <2>4
  <1>8. CASE UNCHANGED vars
    <2>1. Together' /\ panic' = panic
      BY <1>u, <1>8, TogetherFrame DEF vars
    <2> QED BY <1>b, <2>1
  <1> QED BY <1>1, <1>2, <1>3, <1>4, <1>5, <1>6, <1>7, <1>8 DEF Next

LEMMA LockInvHolds ==
  ASSUME ReservedStaysReserved, NothingFreedAbove PROVE Spec => []LockInv
  <1>1. SafeInv /\ [Next]_vars => SafeInv'
    BY SafeStep
  <1>2. SafeInv /\ CountersExact /\ [Next]_vars => CountersExact'
    BY CountersStep
  <1>3. SafeInv /\ CountersExact /\ LockInv /\ [Next]_vars => LockInv'
    BY LockStepHolds
  <1>4. Init => CountersExact
    BY DEF Init, CountersExact
  <1> QED BY <1>1, <1>2, <1>3, <1>4, LockStart, SafeStart, PTL DEF Spec

\* The bitmap and the page tables agree on every page of the RAM, and each block
\* is mapped onto itself.  For every machine whose memory map frees no reserved
\* page and none above the end of the last region.
THEOREM ScansInLockStep ==
  ASSUME ReservedStaysReserved, NothingFreedAbove PROVE Spec => []LockStep
  <1>1. LockInv => LockStep
    BY DEF LockInv, Together
  <1> QED BY <1>1, LockInvHolds, PTL

\* No call sequence of clients that free only what they got stops the kernel on
\* one of its own consistency checks: allocation fails for want of memory alone.
THEOREM NeverAbortsInternally ==
  ASSUME ReservedStaysReserved, NothingFreedAbove PROVE Spec => []NoInternalAbort
  <1>1. LockInv => NoInternalAbort
    BY DEF LockInv
  <1> QED BY <1>1, LockInvHolds, PTL

-----------------------------------------------------------------------------
(* IoApic.                                                                 *)

LEMMA MinIn ==
  ASSUME NEW S, S \subseteq Nat, S # {}
  PROVE  Min(S) \in S
  <1> DEFINE R == OpToRel(<, Nat)
  <1>1. IsWellFoundedOn(R, Nat)
    BY NatLessThanWellFounded
  <1>2. PICK m \in S : \A y \in S : ~ (<<y, m>> \in R)
    <2> HIDE DEF R
    <2> QED BY <1>1, WFMin
  <1>3. \A y \in S : ~ (y < m)
    BY <1>2 DEF OpToRel
  <1> HIDE DEF R
  <1>4. \A y \in S : m <= y
    BY <1>3
  <1> QED BY <1>4 DEF Min

Vectors == 0 .. 255

LEMMA MaxIn ==
  ASSUME NEW S, S \subseteq Vectors, S # {}
  PROVE  Max(S) \in S
  <1> DEFINE T == {255 - x : x \in S}
  <1>1. T \subseteq Nat /\ T # {}
    <2>1. \A x \in S : 255 - x \in Nat
      BY DEF Vectors
    <2>2. PICK x \in S : TRUE
      OBVIOUS
    <2>3. 255 - x \in T
      BY <2>2
    <2> QED BY <2>1, <2>3
  <1>2. PICK m \in T : \A y \in T : m <= y
    <2> DEFINE R == OpToRel(<, Nat)
    <2>1. IsWellFoundedOn(R, Nat)
      BY NatLessThanWellFounded
    <2>2. PICK m \in T : \A y \in T : ~ (<<y, m>> \in R)
      <3> HIDE DEF R, T
      <3> QED BY <1>1, <2>1, WFMin
    <2>3. \A y \in T : ~ (y < m)
      BY <1>1, <2>2 DEF OpToRel
    <2> HIDE DEF R, T
    <2> QED BY <1>1, <2>3
  <1>3. PICK x \in S : m = 255 - x
    BY <1>2
  <1>4. ASSUME NEW y \in S PROVE x >= y
    <2>1. 255 - y \in T /\ x \in Int /\ y \in Int
      BY DEF Vectors
    <2> HIDE DEF T
    <2>2. m <= 255 - y
      BY <2>1, <1>2
    <2> QED BY <2>1, <2>2, <1>3
  <1> QED BY <1>4 DEF Max

-----------------------------------------------------------------------------
(* The table.                                                              *)

\* The pin a device has, as the code and the MADT number it.
G(d) == Gsi(madt, Source[d])

LEMMA Sound ==
  ASSUME TablesSound, madt \in Madts
  PROVE  /\ DOMAIN madt \subseteq Nat
         /\ \A i \in DOMAIN madt : madt[i].type = "ISO" => madt[i].gsi \in 0 .. 255
         /\ \A n \in IoApics(madt) : madt[n].base \in 0 .. 255 /\ madt[n].pins \in Nat
         /\ \A m, n \in IoApics(madt) : m # n => Reach(madt, m) \cap Reach(madt, n) = {}
         /\ G("timer") # 1 /\ G("timer") # G("keyboard")
         /\ G("keyboard") = 32 => Wired("keyboard")
  <1>1. \A t \in Madts : DOMAIN t \subseteq Nat
    <2> SUFFICES ASSUME NEW t \in Madts PROVE DOMAIN t \subseteq Nat
      OBVIOUS
    <2>1. DOMAIN t = 1 .. Len(t)
      BY DEF TablesSound
    <2> QED BY <2>1
  <1>2. G("timer") = Gsi(madt, 0) /\ G("keyboard") = Gsi(madt, 1)
    BY DEF G, Source
  <1> QED BY <1>1, <1>2 DEF TablesSound, Wired, G

LEMMA GsiRange ==
  ASSUME TablesSound, madt \in Madts, NEW d \in Devices
  PROVE  G(d) \in Vectors /\ resolve_irq_source(Source[d]) = G(d)
  <1>1. Source[d] \in {0, 1}
    BY DEF Source, Devices
  <1>2. G(d) \in Vectors
    <2>1. CASE Of(madt, Source[d]) = {}
      BY <2>1, <1>1 DEF G, Gsi, Vectors
    <2>2. CASE Of(madt, Source[d]) # {}
      <3>1. Of(madt, Source[d]) \subseteq Nat
        BY Sound DEF Of
      <3>2. Min(Of(madt, Source[d])) \in Of(madt, Source[d])
        BY <3>1, <2>2, MinIn
      <3>3. madt[Min(Of(madt, Source[d]))].gsi \in 0 .. 255
        BY <3>2, Sound DEF Of
      <3> QED BY <3>3, <2>2 DEF G, Gsi, Vectors
    <2> QED BY <2>1, <2>2
  <1>3. \A x \in Vectors : x % 256 = x
    BY DEF Vectors
  <1> QED BY <1>2, <1>3 DEF resolve_irq_source, G

\* The I/O APIC and the pin the code finds for a number.
LEMMA SlotFacts ==
  ASSUME TablesSound, madt \in Madts, NEW irq \in Vectors
  PROVE  /\ has_redirection(irq) <=> \E n \in IoApics(madt) : irq \in Reach(madt, n)
         /\ has_redirection(irq) =>
              /\ Slot(irq) \in Slots
              /\ \A n \in IoApics(madt) : irq \in Reach(madt, n) => Slot(irq) = <<n, irq - madt[n].base>>
              /\ Slot(irq)[2] + gsi_base(Slot(irq)[1]) = irq
  <1>1. \A n \in IoApics(madt) : gsi_base(n) = madt[n].base
    <2> SUFFICES ASSUME NEW n \in IoApics(madt) PROVE gsi_base(n) = madt[n].base
      OBVIOUS
    <2>1. madt[n].base \in 0 .. 255
      BY Sound
    <2>2. \A x \in 0 .. 255 : x % 256 = x
      OBVIOUS
    <2> QED BY <2>1, <2>2 DEF gsi_base
  <1>2. Covering(irq) = {n \in IoApics(madt) : irq \in Reach(madt, n)}
    BY <1>1 DEF Covering, Reach
  <1>3. has_redirection(irq) <=> \E n \in IoApics(madt) : irq \in Reach(madt, n)
    BY <1>2 DEF has_redirection
  <1>4. ASSUME has_redirection(irq)
        PROVE  /\ Slot(irq) \in Slots
               /\ \A n \in IoApics(madt) : irq \in Reach(madt, n) => Slot(irq) = <<n, irq - madt[n].base>>
               /\ Slot(irq)[2] + gsi_base(Slot(irq)[1]) = irq
    <2> DEFINE m == Min(Covering(irq))
    <2>1. m \in Covering(irq)
      <3>1. Covering(irq) \subseteq Nat
        BY <1>2, Sound DEF IoApics
      <3> QED BY <3>1, <1>4, MinIn DEF has_redirection
    <2>2. m \in IoApics(madt) /\ irq \in Reach(madt, m)
      BY <2>1, <1>2
    <2>3. Slot(irq) = <<m, irq - madt[m].base>>
      BY <2>2, <1>1 DEF Slot
    <2> HIDE DEF m
    <2>4. madt[m].base \in Int /\ madt[m].pins \in Nat /\ irq \in Int
      <3>1. madt[m].base \in 0 .. 255 /\ madt[m].pins \in Nat
        BY <2>2, Sound
      <3> QED BY <3>1 DEF Vectors
    <2>5. irq - madt[m].base \in 0 .. madt[m].pins - 1
      BY <2>2, <2>4 DEF Reach
    <2>6. Slot(irq) \in Slots
      BY <2>2, <2>3, <2>5 DEF Slots
    <2>7. \A n \in IoApics(madt) : irq \in Reach(madt, n) => n = m
      BY <2>2, Sound
    <2>8. (irq - madt[m].base) + madt[m].base = irq
      BY <2>4
    <2> QED BY <2>2, <2>3, <2>6, <2>7, <2>8, <1>1
  <1> QED BY <1>3, <1>4

\* The code programs the pin the device is wired to.
LEMMA PinFacts ==
  ASSUME TablesSound, madt \in Madts, NEW d \in Devices
  PROVE  /\ Wired(d) <=> has_redirection(G(d))
         /\ Wired(d) => Slot(G(d)) = Pin(d) /\ Pin(d) \in Slots
  <1>1. G(d) \in Vectors
    BY GsiRange
  <1>2. Wired(d) <=> has_redirection(G(d))
    BY <1>1, SlotFacts DEF Wired, G
  <1>3. ASSUME Wired(d) PROVE Slot(G(d)) = Pin(d)
    <2> DEFINE n == CHOOSE n \in IoApics(madt) : G(d) \in Reach(madt, n)
    <2>1. n \in IoApics(madt) /\ G(d) \in Reach(madt, n)
      BY <1>3 DEF Wired, G
    <2>2. Pin(d) = <<n, G(d) - madt[n].base>>
      BY DEF Pin, G
    <2> HIDE DEF n
    <2> QED BY <2>1, <2>2, <1>1, <1>2, <1>3, SlotFacts
  <1> QED BY <1>1, <1>2, <1>3, SlotFacts

\* Two numbers do not share a pin.
LEMMA SlotOfOne ==
  ASSUME TablesSound, madt \in Madts, NEW a \in Vectors, NEW b \in Vectors,
         has_redirection(a), has_redirection(b), Slot(a) = Slot(b)
  PROVE  a = b
  <1>1. Slot(a)[2] + gsi_base(Slot(a)[1]) = a /\ Slot(b)[2] + gsi_base(Slot(b)[1]) = b
    BY SlotFacts
  <1> QED BY <1>1

-----------------------------------------------------------------------------
(* The inductive invariant.                                                *)

Callbacks == {"spurious_irq", "pit_interrupt", "kbint", "kbint_dump"}
Entries == [vector : Vectors, low : BOOLEAN, mask : BOOLEAN, dest : Vectors]

ApicTypeOK ==
  /\ madt \in Madts
  /\ pc \in {"madt", "idt", "remap", "handler", "enable", "run", "dump", "panic"}
  /\ driver \in Devices
  /\ irr \subseteq Vectors /\ cur \in Vectors /\ dump_irq \in Vectors

\* Before APIC::init there are no tables, and no interrupt.
Programmed == redir \in [Slots -> Entries]
Bare == redir = <<>> /\ handlers = <<>> /\ irr = {} /\ cur = Idle
TablesReady ==
  /\ pc \in {"madt", "idt"} => Bare
  /\ pc \notin {"madt", "idt", "panic"} => Programmed
  /\ Bare \/ Programmed

\* The device's callback is in the IDT.
Allowed(d) == {Callback[d]} \cup (IF d = "keyboard" THEN {"kbint_dump"} ELSE {})
Registered(d) == Vector[d] \in DOMAIN handlers /\ handlers[Vector[d]] \in Allowed(d)

\* A pin that was remapped is a device's; one that is not masked has its callback.
Owner(s, d) == Wired(d) /\ s = Pin(d) /\ redir[s].vector = Vector[d]
Reset(s) == (s[2] + gsi_base(s[1]) + 64) % 256
PinsServed ==
  \A s \in DOMAIN redir :
    /\ ~redir[s].mask => \E d \in Devices : Owner(s, d) /\ Registered(d)
    /\ redir[s].vector = Reset(s) \/ \E d \in Devices : Owner(s, d)

\* How far the driver's init has come.
DriverAt ==
  /\ pc \in {"handler", "enable"} /\ Wired(driver) => redir[Pin(driver)].vector = Vector[driver]
  /\ pc = "enable" /\ Wired(driver) => Registered(driver)
  /\ pc \in {"remap", "handler", "enable"} /\ driver = "timer" => \A s \in DOMAIN redir : redir[s].mask

\* kbdump does not replace the timer's callback.
DumpElsewhere == pc = "dump" => dump_irq # Vector["timer"]

\* Every vector that is requested or handled has a callback.
VectorsKnown ==
  /\ irr \subseteq DOMAIN handlers
  /\ cur # Idle => cur \in DOMAIN handlers
  /\ pc \notin {"madt", "idt", "panic"} => 255 \in DOMAIN handlers
  /\ DOMAIN handlers \subseteq Vectors

GivesUpRightly ==
  pc = "panic" =>
    \/ \E i \in DOMAIN madt : madt[i].type \notin MadtTypes
    \/ \E d \in Devices : ~Wired(d)

Inv == /\ ApicTypeOK /\ TablesReady /\ PinsServed /\ DriverAt /\ DumpElsewhere
       /\ VectorsKnown /\ GivesUpRightly

LEMMA InvStart == ApicInit => Inv
  <1> SUFFICES ASSUME ApicInit PROVE Inv
    OBVIOUS
  <1> USE DEF ApicInit
  <1>1. ApicTypeOK
    BY DEF ApicTypeOK, Devices, Vectors, Idle
  <1>2. TablesReady
    BY DEF TablesReady, Bare
  <1>3. DOMAIN redir = {} /\ DOMAIN handlers = {}
    OBVIOUS
  <1> QED BY <1>1, <1>2, <1>3
          DEF Inv, PinsServed, DriverAt, DumpElsewhere, VectorsKnown, GivesUpRightly

\* A pin requests only vectors with a callback.
LEMMA RequestedKnown ==
  ASSUME TablesSound, Inv, NEW d \in Devices, NEW on
  PROVE  Requested(d, on) \subseteq DOMAIN handlers
  <1> SUFFICES ASSUME NEW v \in Requested(d, on) PROVE v \in DOMAIN handlers
    OBVIOUS
  <1>1. Wired(d) /\ redir # <<>> /\ ~redir[Pin(d)].mask /\ v = redir[Pin(d)].vector
    BY DEF Requested
  <1>2. redir \in [Slots -> Entries] /\ madt \in Madts
    BY <1>1 DEF Inv, TablesReady, Bare, Programmed, ApicTypeOK
  <1>3. Pin(d) \in DOMAIN redir
    BY <1>1, <1>2, PinFacts
  <1>4. PICK e \in Devices : Owner(Pin(d), e) /\ Registered(e)
    BY <1>1, <1>3 DEF Inv, PinsServed
  <1> QED BY <1>1, <1>4 DEF Owner, Registered

\* Steps of the devices and the handlers: the tables stay, vectors that are known come
\* and go.
LEMMA Elsewhere ==
  ASSUME Inv, UNCHANGED <<madt, driver, redir, handlers, dump_irq>>, pc' = pc,
         pc = "panic" => UNCHANGED <<irr, cur>>,
         pc \in {"madt", "idt"} => UNCHANGED <<irr, cur>>,
         irr' \subseteq DOMAIN handlers, cur' \in DOMAIN handlers \cup {Idle}
  PROVE  Inv'
  <1>1. ApicTypeOK'
    BY DEF Inv, ApicTypeOK, VectorsKnown, Vectors, Idle
  <1>2. Slots' = Slots /\ Programmed' = Programmed
    BY DEF Slots, IoApics, Programmed
  <1>3. TablesReady'
    BY <1>2 DEF Inv, TablesReady, Bare
  <1>4. /\ \A d : Wired(d)' = Wired(d) /\ Pin(d)' = Pin(d) /\ Registered(d)' = Registered(d)
        /\ \A s, d : Owner(s, d)' = Owner(s, d)
        /\ \A s : Reset(s)' = Reset(s)
    BY DEF Wired, Pin, Gsi, Of, IoApics, Reach, Registered, Owner, Reset, gsi_base
  <1>5. PinsServed' /\ DriverAt' /\ DumpElsewhere'
    BY <1>4 DEF Inv, PinsServed, DriverAt, DumpElsewhere
  <1>6. VectorsKnown' /\ GivesUpRightly'
    BY <1>4 DEF Inv, VectorsKnown, GivesUpRightly
  <1> QED BY <1>1, <1>3, <1>5, <1>6 DEF Inv

\* What is wired where is in the table.
LEMMA Frame ==
  ASSUME madt' = madt
  PROVE  /\ Slots' = Slots
         /\ \A d : Wired(d)' = Wired(d) /\ Pin(d)' = Pin(d)
         /\ \A s : Reset(s)' = Reset(s)
  BY DEF Slots, IoApics, Wired, Pin, Gsi, Of, Reach, Reset, gsi_base

LEMMA ReadMadtInv == ASSUME Inv, ReadMadt PROVE Inv'
  <1>1. /\ pc = "madt" /\ pc' \in {"idt", "panic"}
        /\ pc' = "panic" => \E i \in DOMAIN madt : madt[i].type \notin MadtTypes
        /\ UNCHANGED <<madt, driver, redir, handlers, irr, isr, cur, at, dump_irq>>
    BY DEF ReadMadt, Thread, lapic, handling, kbdump
  <1>2. Bare /\ Bare'
    BY <1>1 DEF Inv, TablesReady, Bare
  <1>3. DOMAIN redir' = {} /\ DOMAIN handlers' = {}
    BY <1>2 DEF Bare
  <1>4. ApicTypeOK'
    BY <1>1 DEF Inv, ApicTypeOK
  <1>5. TablesReady'
    BY <1>1, <1>2 DEF TablesReady
  <1>6. PinsServed' /\ DriverAt' /\ DumpElsewhere'
    BY <1>1, <1>3 DEF PinsServed, DriverAt, DumpElsewhere
  <1>7. VectorsKnown' /\ GivesUpRightly'
    BY <1>1, <1>2, <1>3 DEF Bare, VectorsKnown, GivesUpRightly
  <1> QED BY <1>4, <1>5, <1>6, <1>7 DEF Inv

LEMMA LapicByte == LAPIC_ID % 256 \in Vectors
  <1>1. \A x \in Int : x % 256 \in Vectors
    BY DEF Vectors
  <1>2. LapicId \in Int /\ 2^24 \in Int
    BY IoApicAssumption
  <1>3. LAPIC_ID \in Int
    BY <1>2 DEF LAPIC_ID
  <1> QED BY <1>1, <1>3

LEMMA IDTInitInv == ASSUME TablesSound, Inv, IDTInit PROVE Inv'
  <1>1. /\ pc = "idt" /\ pc' = "remap"
        /\ redir' = ResetRedirections /\ handlers' = [v \in {247, 255} |-> "spurious_irq"]
        /\ UNCHANGED <<madt, driver, irr, isr, cur, at, dump_irq>>
    BY DEF IDTInit, Thread, lapic, handling, kbdump
  <1>2. irr = {} /\ cur = Idle
    BY <1>1 DEF Inv, TablesReady, Bare
  <1>3. /\ DOMAIN redir' = Slots
        /\ \A s \in Slots : redir'[s] = Redirection(s[2] + gsi_base(s[1]) + 64)
    BY <1>1 DEF ResetRedirections
  <1>4. ASSUME NEW s \in Slots
        PROVE  /\ redir'[s] \in Entries /\ redir'[s].mask /\ redir'[s].vector = Reset(s)
    <2>1. PICK n \in IoApics(madt) : s \in {n} \X (0 .. madt[n].pins - 1)
      BY DEF Slots
    <2>2. s[1] = n /\ s[2] \in 0 .. madt[n].pins - 1
      BY <2>1
    <2>3. madt[n].base \in Int /\ madt[n].pins \in Nat
      BY Sound DEF Inv, ApicTypeOK
    <2>4. gsi_base(s[1]) \in Int /\ s[2] \in Int
      BY <2>2, <2>3 DEF gsi_base
    <2>5. Reset(s) \in Vectors
      <3>1. \A x \in Int : x % 256 \in Vectors
        BY DEF Vectors
      <3> QED BY <2>4, <3>1 DEF Reset
    <2>6. LAPIC_ID % 256 \in Vectors
      BY LapicByte
    <2>7. redir'[s] = [vector |-> Reset(s), low |-> FALSE, mask |-> TRUE, dest |-> LAPIC_ID % 256]
      BY <1>3 DEF Redirection, Reset
    <2> QED BY <2>5, <2>6, <2>7 DEF Entries
  <1>5. Programmed'
    <2>1. Slots' = Slots
      BY <1>1, Frame
    <2>2. redir' = [s \in Slots |-> redir'[s]]
      BY <1>1 DEF ResetRedirections
    <2> QED BY <2>1, <2>2, <1>4 DEF Programmed
  <1>6. ApicTypeOK'
    BY <1>1 DEF Inv, ApicTypeOK
  <1>7. TablesReady'
    BY <1>1, <1>5 DEF TablesReady
  <1>8. PinsServed'
    <2>1. \A s : Reset(s)' = Reset(s)
      BY <1>1, Frame
    <2> QED BY <2>1, <1>3, <1>4 DEF PinsServed
  <1>9. DriverAt' /\ DumpElsewhere'
    BY <1>1, <1>3, <1>4 DEF DriverAt, DumpElsewhere
  <1>10. VectorsKnown' /\ GivesUpRightly'
    <2>1. DOMAIN handlers' = {247, 255}
      BY <1>1
    <2> QED BY <2>1, <1>1, <1>2 DEF VectorsKnown, GivesUpRightly, Vectors
  <1> QED BY <1>6, <1>7, <1>8, <1>9, <1>10 DEF Inv

\* What the driver's init asks for is its own pin.
LEMMA Src ==
  ASSUME TablesSound, Inv
  PROVE  /\ src = G(driver) /\ src \in Vectors
         /\ has_redirection(src) <=> Wired(driver)
         /\ Wired(driver) => Slot(src) = Pin(driver) /\ Pin(driver) \in Slots
         /\ Vector[driver] \in Vectors /\ Vector[driver] % 256 = Vector[driver]
         /\ Callback[driver] \in Allowed(driver)
  <1>1. madt \in Madts /\ driver \in Devices
    BY DEF Inv, ApicTypeOK
  <1>2. src = G(driver) /\ src \in Vectors
    BY <1>1, GsiRange DEF src
  <1>3. Vector[driver] \in {32, 33}
    BY <1>1 DEF Vector, Devices
  <1>4. \A x \in {32, 33} : x \in Vectors /\ x % 256 = x
    BY DEF Vectors
  <1> QED BY <1>1, <1>2, <1>3, <1>4, PinFacts DEF Allowed

LEMMA RemapInv == ASSUME TablesSound, Inv, Remap PROVE Inv'
  <1>1. /\ pc = "remap" /\ pc' = "handler"
        /\ redir' = IF has_redirection(src)
                    THEN [redir EXCEPT ![Slot(src)] = Redirection(Vector[driver])] ELSE redir
        /\ UNCHANGED <<madt, driver, handlers, irr, isr, cur, at, dump_irq>>
    BY DEF Remap, Thread, lapic, handling, kbdump
  <1>2. redir \in [Slots -> Entries] /\ driver \in Devices
    BY <1>1 DEF Inv, ApicTypeOK, TablesReady, Programmed
  <1>3. /\ Slots' = Slots /\ (\A d : Wired(d)' = Wired(d) /\ Pin(d)' = Pin(d))
        /\ \A s : Reset(s)' = Reset(s)
    BY <1>1, Frame
  <1> DEFINE r == Redirection(Vector[driver])
  <1>4. r \in Entries /\ r.mask /\ r.vector = Vector[driver]
    <2>1. LAPIC_ID % 256 \in Vectors
      BY LapicByte
    <2>2. Vector[driver] \in Vectors /\ Vector[driver] % 256 = Vector[driver]
      BY Src
    <2> QED BY <2>1, <2>2 DEF Redirection, Entries
  <1> HIDE DEF r
  <1>5. /\ redir' \in [Slots -> Entries]
        /\ Wired(driver) => Pin(driver) \in Slots /\ redir'[Pin(driver)] = r
        /\ \A s \in Slots : redir'[s] = redir[s] \/ (Wired(driver) /\ s = Pin(driver) /\ redir'[s] = r)
    <2>1. CASE Wired(driver)
      <3>1. redir' = [redir EXCEPT ![Pin(driver)] = r] /\ Pin(driver) \in Slots
        BY <2>1, <1>1, Src DEF r
      <3> QED BY <3>1, <2>1, <1>2, <1>4
    <2>2. CASE ~Wired(driver)
      BY <2>2, <1>1, <1>2, Src
    <2> QED BY <2>1, <2>2
  <1>6. ApicTypeOK'
    BY <1>1 DEF Inv, ApicTypeOK
  <1>7. TablesReady'
    BY <1>1, <1>3, <1>5 DEF TablesReady, Programmed
  <1>8. \A d : Registered(d)' = Registered(d)
    BY <1>1 DEF Registered
  <1>9. PinsServed'
    <2> SUFFICES ASSUME NEW s \in Slots
                 PROVE  /\ ~redir'[s].mask => \E d \in Devices : Owner(s, d)' /\ Registered(d)'
                        /\ redir'[s].vector = Reset(s)' \/ \E d \in Devices : Owner(s, d)'
      BY <1>5 DEF PinsServed
    <2>1. CASE redir'[s] = redir[s]
      <3>1. \A d : Owner(s, d)' = Owner(s, d)
        BY <2>1, <1>3 DEF Owner
      <3> QED BY <3>1, <2>1, <1>2, <1>3, <1>8 DEF Inv, PinsServed
    <2>2. CASE Wired(driver) /\ s = Pin(driver) /\ redir'[s] = r
      <3>1. Owner(s, driver)'
        BY <2>2, <1>1, <1>3, <1>4 DEF Owner
      <3> QED BY <3>1, <2>2, <1>1, <1>2, <1>4
    <2> QED BY <2>1, <2>2, <1>5
  <1>10. DriverAt' /\ DumpElsewhere'
    <2>1. Wired(driver') => redir'[Pin(driver)'] = r
      BY <1>1, <1>3, <1>5
    <2>2. driver = "timer" => \A s \in Slots : redir'[s].mask
      BY <1>1, <1>2, <1>4, <1>5 DEF Inv, DriverAt
    <2> QED BY <2>1, <2>2, <1>1, <1>3, <1>4, <1>5 DEF DriverAt, DumpElsewhere
  <1>11. VectorsKnown' /\ GivesUpRightly'
    BY <1>1 DEF Inv, VectorsKnown, GivesUpRightly
  <1> QED BY <1>6, <1>7, <1>9, <1>10, <1>11 DEF Inv

\* A registration at another vector than the timer's keeps what is registered, and the
\* keyboard has two callbacks.
LEMMA RegisterKeeps ==
  ASSUME Inv, NEW v \in Vectors, NEW c, RegisterHandler(v, c)
  PROVE  /\ DOMAIN handlers' = DOMAIN handlers \cup {v}
         /\ handlers'[v] = c
         /\ \A w \in DOMAIN handlers : w # v => handlers'[w] = handlers[w]
         /\ v # Vector["timer"] => (Registered("timer") => Registered("timer")')
         /\ v = Vector["keyboard"] /\ c \in Allowed("keyboard")
              => (Registered("keyboard") => Registered("keyboard")')
         /\ v # Vector["keyboard"] => (Registered("keyboard") => Registered("keyboard")')
         /\ irr \subseteq DOMAIN handlers'
         /\ cur # Idle => cur \in DOMAIN handlers'
  <1>1. handlers' = [w \in DOMAIN handlers \cup {v} |-> IF w = v THEN c ELSE handlers[w]]
    BY DEF RegisterHandler
  <1>2. /\ DOMAIN handlers' = DOMAIN handlers \cup {v} /\ handlers'[v] = c
        /\ \A w \in DOMAIN handlers : w # v => handlers'[w] = handlers[w]
    BY <1>1
  <1>3. \A d : Allowed(d)' = Allowed(d)
    BY DEF Allowed
  <1>4. \A d : Registered(d) /\ (Vector[d] = v => c \in Allowed(d)) => Registered(d)'
    BY <1>2, <1>3 DEF Registered
  <1> QED BY <1>2, <1>4 DEF Inv, VectorsKnown

\* A step that registers a callback and leaves the tables alone.
LEMMA RegisterInv ==
  ASSUME TablesSound, Inv, NEW v \in Vectors, NEW c, RegisterHandler(v, c),
         UNCHANGED <<madt, redir, irr, cur>>, driver' = driver,
         pc \notin {"madt", "idt", "panic"}, pc' \in {"enable", "run", "dump"},
         dump_irq' \in Vectors, DriverAt', DumpElsewhere',
         \A d \in Devices : \A s \in DOMAIN redir :
           ~redir[s].mask /\ Owner(s, d) /\ Registered(d) => Registered(d)'
  PROVE  Inv'
  <1>1. /\ Slots' = Slots /\ (\A d : Wired(d)' = Wired(d) /\ Pin(d)' = Pin(d))
        /\ \A s : Reset(s)' = Reset(s)
    BY Frame
  <1>2. \A s, d : Owner(s, d)' = Owner(s, d)
    BY <1>1 DEF Owner
  <1>3. ApicTypeOK'
    BY DEF Inv, ApicTypeOK
  <1>4. TablesReady'
    BY <1>1 DEF Inv, TablesReady, Programmed
  <1>5. PinsServed'
    <2> SUFFICES ASSUME NEW s \in DOMAIN redir
                 PROVE  /\ ~redir[s].mask => \E d \in Devices : Owner(s, d) /\ Registered(d)'
                        /\ redir[s].vector = Reset(s) \/ \E d \in Devices : Owner(s, d)
      BY <1>1, <1>2 DEF PinsServed
    <2> QED BY DEF Inv, PinsServed
  <1>6. VectorsKnown'
    <2>1. DOMAIN handlers' = DOMAIN handlers \cup {v}
      BY RegisterKeeps
    <2> QED BY <2>1 DEF Inv, VectorsKnown
  <1>7. GivesUpRightly'
    BY DEF GivesUpRightly
  <1> QED BY <1>3, <1>4, <1>5, <1>6, <1>7 DEF Inv

LEMMA SetHandlerInv == ASSUME TablesSound, Inv, SetHandler PROVE Inv'
  <1>1. /\ pc = "handler" /\ pc' = "enable" /\ RegisterHandler(irq_get_mapping(src), Callback[driver])
        /\ UNCHANGED <<madt, driver, redir, irr, isr, cur, at, dump_irq>>
    BY DEF SetHandler, Thread, lapic, handling, kbdump
  <1> DEFINE v == irq_get_mapping(src)
  <1>2. v = IF Wired(driver) THEN Vector[driver] ELSE G(driver)
    BY <1>1, Src DEF irq_get_mapping, Inv, DriverAt
  <1>3. v \in Vectors
    BY <1>2, Src
  <1>4. driver \in Devices /\ dump_irq \in Vectors /\ madt \in Madts
    BY DEF Inv, ApicTypeOK
  <1>5. Vector["timer"] = 32 /\ Vector["keyboard"] = 33
    BY DEF Vector
  <1> HIDE DEF v
  <1>6. RegisterHandler(v, Callback[driver])
    BY <1>1 DEF v
  <1>7. (\A d : Wired(d)' = Wired(d) /\ Pin(d)' = Pin(d))
    BY <1>1, Frame
  <1>8. DriverAt'
    <2>1. Wired(driver) => redir[Pin(driver)].vector = Vector[driver]
      BY <1>1 DEF Inv, DriverAt
    <2>2. Wired(driver) => Registered(driver)'
      <3>1. v \in DOMAIN handlers' /\ handlers'[v] = Callback[driver]
        BY <1>3, <1>6, RegisterKeeps
      <3>2. Allowed(driver)' = Allowed(driver) /\ driver' = driver
        BY <1>1 DEF Allowed
      <3> QED BY <3>1, <3>2, <1>2, Src DEF Registered
    <2>3. driver = "timer" => \A s \in DOMAIN redir : redir[s].mask
      BY <1>1 DEF Inv, DriverAt
    <2> QED BY <2>1, <2>2, <2>3, <1>1, <1>7 DEF DriverAt
  <1>9. DumpElsewhere'
    BY <1>1 DEF DumpElsewhere
  <1>10. ASSUME NEW d \in Devices, NEW s \in DOMAIN redir, ~redir[s].mask, Registered(d)
         PROVE  Registered(d)'
    <2>1. driver = "keyboard"
      BY <1>1, <1>4, <1>10 DEF Inv, DriverAt, Devices
    <2>2. v # Vector["timer"] /\ Callback[driver] \in Allowed("keyboard")
      BY <2>1, <1>2, <1>4, <1>5, Sound DEF Allowed
    <2> QED BY <2>2, <1>3, <1>6, <1>10, RegisterKeeps DEF Devices
  <1> QED BY <1>1, <1>3, <1>4, <1>6, <1>8, <1>9, <1>10, RegisterInv

LEMMA StartDumpInv == ASSUME TablesSound, Inv, StartDump PROVE Inv'
  <1>1. /\ pc = "run" /\ pc' = "dump" /\ dump_irq' = irq_get_mapping(1)
        /\ RegisterHandler(dump_irq', "kbint_dump")
        /\ UNCHANGED <<madt, driver, redir, irr, isr, cur, at>>
    BY DEF StartDump, Thread, lapic, handling
  <1>2. madt \in Madts /\ redir \in [Slots -> Entries] /\ 1 \in Vectors
    BY <1>1 DEF Inv, ApicTypeOK, TablesReady, Programmed, Vectors
  <1>3. Vector["timer"] = 32 /\ Vector["keyboard"] = 33 /\ "keyboard" \in Devices
    BY DEF Vector, Devices
  <1>4. irq_get_mapping(1) \in Vectors /\ irq_get_mapping(1) # 32
    <2>1. CASE ~has_redirection(1)
      BY <2>1, <1>2 DEF irq_get_mapping
    <2>2. CASE has_redirection(1)
      <3> DEFINE s == Slot(1)
      <3>1. s \in Slots /\ s[2] + gsi_base(s[1]) = 1
        BY <2>2, <1>2, SlotFacts
      <3>2. irq_get_mapping(1) = redir[s].vector /\ redir[s].vector \in Vectors
        BY <2>2, <3>1, <1>2 DEF irq_get_mapping, Entries
      <3> HIDE DEF s
      <3>3. CASE redir[s].vector = Reset(s)
        <4>1. Reset(s) = 65
          BY <3>1 DEF Reset
        <4> QED BY <4>1, <3>2, <3>3
      <3>4. CASE \E d \in Devices : Owner(s, d)
        <4>1. PICK d \in Devices : Owner(s, d)
          BY <3>4
        <4>2. Slot(1) = Slot(G(d)) /\ has_redirection(G(d)) /\ G(d) \in Vectors
          BY <4>1, <1>2, PinFacts, GsiRange DEF Owner, s
        <4>3. G(d) = 1
          BY <4>2, <2>2, <1>2, SlotOfOne
        <4>4. d = "keyboard"
          BY <4>3, <1>2, Sound DEF Devices
        <4> QED BY <4>1, <4>4, <3>2, <1>3 DEF Owner
      <3> QED BY <3>1, <3>3, <3>4, <1>2 DEF Inv, PinsServed
    <2> QED BY <2>1, <2>2
  <1>5. dump_irq' \in Vectors /\ dump_irq' # Vector["timer"]
    BY <1>1, <1>3, <1>4
  <1>6. DriverAt' /\ DumpElsewhere'
    BY <1>1, <1>5 DEF DriverAt, DumpElsewhere
  <1>7. ASSUME NEW d \in Devices, Registered(d) PROVE Registered(d)'
    <2>1. "kbint_dump" \in Allowed("keyboard")
      BY DEF Allowed
    <2> QED BY <2>1, <1>1, <1>5, <1>7, RegisterKeeps DEF Devices
  <1> QED BY <1>1, <1>5, <1>6, <1>7, RegisterInv

LEMMA EndDumpInv == ASSUME TablesSound, Inv, EndDump PROVE Inv'
  <1>1. /\ pc = "dump" /\ pc' = "run" /\ RegisterHandler(dump_irq, "kbint")
        /\ UNCHANGED <<madt, driver, redir, irr, isr, cur, at, dump_irq>>
    BY DEF EndDump, Thread, lapic, handling, kbdump
  <1>2. dump_irq \in Vectors /\ dump_irq # Vector["timer"]
    BY <1>1 DEF Inv, ApicTypeOK, DumpElsewhere
  <1>3. DriverAt' /\ DumpElsewhere'
    BY <1>1 DEF DriverAt, DumpElsewhere
  <1>4. ASSUME NEW d \in Devices, Registered(d) PROVE Registered(d)'
    <2>1. "kbint" \in Allowed("keyboard")
      BY DEF Allowed, Callback
    <2> QED BY <2>1, <1>1, <1>2, <1>4, RegisterKeeps DEF Devices
  <1> QED BY <1>1, <1>2, <1>3, <1>4, RegisterInv

LEMMA EnableInv == ASSUME TablesSound, Inv, Enable PROVE Inv'
  <1>1. /\ pc = "enable"
        /\ pc' = IF ~has_redirection(src) THEN "panic" ELSE IF driver = "timer" THEN "remap" ELSE "run"
        /\ driver' = "keyboard"
        /\ redir' = IF has_redirection(src) THEN [redir EXCEPT ![Slot(src)].mask = FALSE] ELSE redir
        /\ UNCHANGED <<madt, handlers, irr, isr, cur, at, dump_irq>>
    BY DEF Enable, Thread, lapic, handling, kbdump
  <1>2. redir \in [Slots -> Entries] /\ driver \in Devices
    BY <1>1 DEF Inv, ApicTypeOK, TablesReady, Programmed
  <1>3. /\ Slots' = Slots /\ (\A d : Wired(d)' = Wired(d) /\ Pin(d)' = Pin(d))
        /\ \A s : Reset(s)' = Reset(s)
    BY <1>1, Frame
  <1>4. \A d : Registered(d)' = Registered(d)
    BY <1>1 DEF Registered, Allowed
  <1> DEFINE r == [redir[Pin(driver)] EXCEPT !.mask = FALSE]
  <1>5. /\ redir' \in [Slots -> Entries]
        /\ \A s \in Slots :
             \/ redir'[s] = redir[s]
             \/ /\ Wired(driver) /\ s = Pin(driver)
                /\ redir'[s].vector = redir[s].vector
    <2>1. CASE Wired(driver)
      <3>1. redir' = [redir EXCEPT ![Pin(driver)] = r] /\ Pin(driver) \in Slots
        BY <2>1, <1>1, Src
      <3>2. r \in Entries /\ r.vector = redir[Pin(driver)].vector
        BY <3>1, <1>2 DEF Entries
      <3> HIDE DEF r, Entries
      <3> QED BY <3>1, <3>2, <2>1, <1>2
    <2>2. CASE ~Wired(driver)
      BY <2>2, <1>1, <1>2, Src
    <2> QED BY <2>1, <2>2
  <1> HIDE DEF r
  <1>6. ApicTypeOK'
    BY <1>1 DEF Inv, ApicTypeOK, Devices
  <1>7. TablesReady'
    BY <1>1, <1>3, <1>5 DEF TablesReady, Programmed
  <1>8. PinsServed'
    <2> SUFFICES ASSUME NEW s \in Slots
                 PROVE  /\ ~redir'[s].mask => \E d \in Devices : Owner(s, d)' /\ Registered(d)'
                        /\ redir'[s].vector = Reset(s)' \/ \E d \in Devices : Owner(s, d)'
      BY <1>5 DEF PinsServed
    <2>1. CASE redir'[s] = redir[s]
      <3>1. \A d : Owner(s, d)' = Owner(s, d)
        BY <2>1, <1>3 DEF Owner
      <3> QED BY <3>1, <2>1, <1>2, <1>3, <1>4 DEF Inv, PinsServed
    <2>2. CASE Wired(driver) /\ s = Pin(driver) /\ redir'[s].vector = redir[s].vector
      <3>1. redir[s].vector = Vector[driver] /\ Registered(driver)
        BY <2>2, <1>1 DEF Inv, DriverAt
      <3>2. PICK d \in Devices : d = driver
        BY <1>2
      <3>3. Wired(d)' /\ s = Pin(d)' /\ Registered(d)'
        BY <3>1, <3>2, <2>2, <1>3, <1>4
      <3>4. Owner(s, d)'
        BY <3>1, <3>2, <3>3, <2>2 DEF Owner
      <3> QED BY <3>3, <3>4, <2>2, <1>3
    <2> QED BY <2>1, <2>2, <1>5
  <1>9. DriverAt' /\ DumpElsewhere'
    BY <1>1 DEF DriverAt, DumpElsewhere
  <1>10. VectorsKnown'
    BY <1>1 DEF Inv, VectorsKnown
  <1>11. GivesUpRightly'
    <2>1. pc' = "panic" => ~Wired(driver)
      BY <1>1, Src
    <2> QED BY <2>1, <1>2, <1>3 DEF GivesUpRightly
  <1> QED BY <1>6, <1>7, <1>8, <1>9, <1>10, <1>11 DEF Inv

\* The devices and the interrupts.
LEMMA TickInv == ASSUME TablesSound, Inv, Tick PROVE Inv'
  <1>1. /\ irr' = irr \cup Requested("timer", "timer" \notin line)
        /\ pc # "panic" /\ pc' = pc
        /\ UNCHANGED <<madt, driver, redir, handlers, dump_irq, cur>>
    BY DEF Tick, handling, kbdump
  <1>2. irr \subseteq DOMAIN handlers /\ cur \in DOMAIN handlers \cup {Idle}
    BY DEF Inv, VectorsKnown
  <1>3. Requested("timer", "timer" \notin line) \subseteq DOMAIN handlers
    BY RequestedKnown DEF Devices
  <1>4. pc \in {"madt", "idt"} => Requested("timer", "timer" \notin line) = {}
    BY DEF Requested, Inv, TablesReady, Bare
  <1> QED BY <1>1, <1>2, <1>3, <1>4, Elsewhere

LEMMA TypeInv == ASSUME TablesSound, Inv, NEW k \in Keys, Type(k) PROVE Inv'
  <1>1. /\ irr' = irr \cup Requested("keyboard", TRUE)
        /\ pc # "panic" /\ pc' = pc
        /\ UNCHANGED <<madt, driver, redir, handlers, dump_irq, cur>>
    BY DEF Type, handling, kbdump
  <1>2. irr \subseteq DOMAIN handlers /\ cur \in DOMAIN handlers \cup {Idle}
    BY DEF Inv, VectorsKnown
  <1>3. Requested("keyboard", TRUE) \subseteq DOMAIN handlers
    BY RequestedKnown DEF Devices
  <1>4. pc \in {"madt", "idt"} => Requested("keyboard", TRUE) = {}
    BY DEF Requested, Inv, TablesReady, Bare
  <1> QED BY <1>1, <1>2, <1>3, <1>4, Elsewhere

LEMMA AcceptInv == ASSUME Inv, Accept PROVE Inv'
  <1>1. /\ irr # {} /\ cur' = Max(irr) /\ irr' \subseteq irr
        /\ pc \notin {"madt", "idt", "panic"} /\ pc' = pc
        /\ UNCHANGED <<madt, driver, redir, handlers, dump_irq>>
    BY DEF Accept, InterruptsOn, kbdump
  <1>2. irr \subseteq Vectors /\ irr \subseteq DOMAIN handlers
    BY DEF Inv, ApicTypeOK, VectorsKnown
  <1>3. cur' \in irr
    BY <1>1, <1>2, MaxIn
  <1> QED BY <1>1, <1>2, <1>3, Elsewhere

LEMMA SpuriousInv == ASSUME Inv, Spurious PROVE Inv'
  <1>1. /\ cur' = 255 /\ irr' = irr
        /\ pc \notin {"madt", "idt", "panic"} /\ pc' = pc
        /\ UNCHANGED <<madt, driver, redir, handlers, dump_irq>>
    BY DEF Spurious, InterruptsOn, lapic, kbdump
  <1>2. irr \subseteq DOMAIN handlers /\ 255 \in DOMAIN handlers
    BY <1>1 DEF Inv, VectorsKnown
  <1> QED BY <1>1, <1>2, Elsewhere

\* The vector that is handled is known: handle_irq finds its callback.
LEMMA HandleInv == ASSUME TablesSound, Inv, handle_irq PROVE Inv'
  <1>1. cur # Idle /\ cur \in DOMAIN handlers
    BY DEF handle_irq, Handler, Inv, VectorsKnown
  <1>2. /\ pc # "panic" /\ pc' = pc
        /\ UNCHANGED <<madt, driver, redir, handlers, dump_irq, cur>>
        /\ \/ irr' = irr
           \/ irr' = irr \cup Requested("keyboard", FALSE)
    BY <1>1 DEF handle_irq, Handler, ReadPort
  <1>3. pc \notin {"madt", "idt"}
    BY <1>1 DEF Inv, TablesReady, Bare
  <1>4. Requested("keyboard", FALSE) \subseteq DOMAIN handlers
    BY RequestedKnown DEF Devices
  <1>5. irr \subseteq DOMAIN handlers
    BY DEF Inv, VectorsKnown
  <1> QED BY <1>1, <1>2, <1>3, <1>4, <1>5, Elsewhere

LEMMA ReturnInv == ASSUME Inv, Return PROVE Inv'
  <1>1. /\ pc # "panic" /\ cur # Idle /\ cur' = Idle /\ irr' = irr /\ pc' = pc
        /\ UNCHANGED <<madt, driver, redir, handlers, dump_irq>>
    BY DEF Return, Handler, kbdump
  <1>2. pc \notin {"madt", "idt"}
    BY <1>1 DEF Inv, TablesReady, Bare
  <1>3. irr \subseteq DOMAIN handlers
    BY DEF Inv, VectorsKnown
  <1> QED BY <1>1, <1>2, <1>3, Elsewhere

LEMMA StutterInv == ASSUME Inv, UNCHANGED apicVars PROVE Inv'
  <1>1. UNCHANGED <<madt, pc, driver, redir, handlers, irr, cur, dump_irq>>
    BY DEF apicVars, lapic, handling, kbdump
  <1>2. irr \subseteq DOMAIN handlers /\ cur \in DOMAIN handlers \cup {Idle}
    BY DEF Inv, VectorsKnown
  <1> QED BY <1>1, <1>2, Elsewhere

LEMMA InvStep == ASSUME TablesSound PROVE Inv /\ [ApicNext]_apicVars => Inv'
  <1> SUFFICES ASSUME Inv, [ApicNext]_apicVars PROVE Inv'
    OBVIOUS
  <1>1. CASE ReadMadt    BY <1>1, ReadMadtInv
  <1>2. CASE IDTInit     BY <1>2, IDTInitInv
  <1>3. CASE Remap       BY <1>3, RemapInv
  <1>4. CASE SetHandler  BY <1>4, SetHandlerInv
  <1>5. CASE Enable      BY <1>5, EnableInv
  <1>6. CASE StartDump   BY <1>6, StartDumpInv
  <1>7. CASE EndDump     BY <1>7, EndDumpInv
  <1>8. CASE Tick        BY <1>8, TickInv
  <1>9. CASE \E k \in Keys : Type(k)
    BY <1>9, TypeInv
  <1>10. CASE Accept     BY <1>10, AcceptInv
  <1>11. CASE Spurious   BY <1>11, SpuriousInv
  <1>12. CASE handle_irq BY <1>12, HandleInv
  <1>13. CASE Return     BY <1>13, ReturnInv
  <1>14. CASE UNCHANGED apicVars
    BY <1>14, StutterInv
  <1> QED BY <1>1, <1>2, <1>3, <1>4, <1>5, <1>6, <1>7, <1>8, <1>9, <1>10, <1>11, <1>12,
             <1>13, <1>14 DEF ApicNext, Boot

LEMMA InvServes == Inv => RightHandler
  <1> SUFFICES ASSUME Inv PROVE RightHandler
    OBVIOUS
  <1>1. ASSUME NEW s \in DOMAIN redir, ~redir[s].mask
        PROVE  \E d \in Devices :
                 /\ Wired(d) /\ s = Pin(d)
                 /\ redir[s].vector \in DOMAIN handlers
                 /\ handlers[redir[s].vector] \in
                      {Callback[d]} \cup (IF d = "keyboard" THEN {"kbint_dump"} ELSE {})
    <2>1. PICK d \in Devices : Owner(s, d) /\ Registered(d)
      BY <1>1 DEF Inv, PinsServed
    <2> QED BY <2>1 DEF Owner, Registered, Allowed
  <1> QED BY <1>1 DEF RightHandler, Inv, GivesUpRightly

\* RightHandler, of APIC::remap, APIC::enable, IDT::set_irq_handler and handle_irq: for
\* every MADT that TablesSound allows, a pin that is not masked raises its device's
\* callback, also while kbdump has replaced one, and no interrupt finds none.
THEOREM RightHandlers == ASSUME TablesSound PROVE ApicSpec => []RightHandler
  <1>1. ApicInit => Inv
    BY InvStart
  <1>2. Inv /\ [ApicNext]_apicVars => Inv'
    BY InvStep
  <1>3. Inv => RightHandler
    BY InvServes
  <1> QED BY <1>1, <1>2, <1>3, PTL DEF ApicSpec
=============================================================================
