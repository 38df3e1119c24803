------------------------------ MODULE PageTables ------------------------------
(***************************************************************************)
(* The page tables of src/arch/x86/memory/paging.cpp as pure operators.    *)
(*                                                                         *)
(* One directory of NumDirs tables with DirSize entries each (1024 and     *)
(* 1024).  A page table entry is the frame it maps, or Absent when its     *)
(* present bit is clear; free[d] is the directory's count of absent        *)
(* entries in table d (page_directory_root_t::free).                       *)
(***************************************************************************)
EXTENDS PhysPages

CONSTANTS
  DirSize,    \* entries of one page table (1024)
  NumDirs,    \* tables of the directory (1024)
  Absent      \* a non-present entry

ASSUME DirAssumption ==
  /\ DirSize \in Nat \ {0} /\ NumDirs \in Nat \ {0}
  /\ DirSize * NumDirs = NumPages     \* both are 2^20: 4 GiB of 4 KiB pages

ASSUME AbsentAssumption == Absent \notin Pages

DirOf(v) == v \div DirSize

Dirs == 0 .. NumDirs - 1

Present(pt, v) == pt[v] # Absent

\* id_to_page_entry aborts on an id past the last table.
InRange(v, n) == v + n - 1 < NumPages

(***************************************************************************)
(* set_page_entry_table_used on pages v .. v+n-1 for frames p .. p+n-1:    *)
(* entries already present are left as they are (it returns false), each   *)
(* entry that becomes present takes one off its table's counter.           *)
(***************************************************************************)
NewlyMapped(pt, v, n) == {w \in Run(v, n) : ~Present(pt, w)}

MapRunNoOffset(pt, p, v, n) ==                        \* fault: p+w for p+(w-v)
  [w \in Pages |-> IF w \in NewlyMapped(pt, v, n) THEN p + w ELSE pt[w]]

MapRunSameFrame(pt, p, v, n) ==                       \* fault: p for p+i
  [w \in Pages |-> IF w \in NewlyMapped(pt, v, n) THEN p ELSE pt[w]]

MapRun(pt, p, v, n) ==
  [w \in Pages |-> IF w \in NewlyMapped(pt, v, n) THEN p + (w - v) ELSE pt[w]]

MapCount(free, pt, v, n) ==
  [d \in Dirs |->
     free[d] - Cardinality({w \in NewlyMapped(pt, v, n) : DirOf(w) = d})]

\* map_virtual_page_unsafe's test: may each page of the run be mapped?
MayMap(pt, p, v, n, allow_remap_if_same) ==
  \A w \in Run(v, n) :
    Present(pt, w) => allow_remap_if_same /\ pt[w] = p + (w - v)

\* set_page_entry_table_free on pages v .. v+n-1
MayUnmap(pt, v, n) == \A w \in Run(v, n) : Present(pt, w)

UnmapRunShort(pt, v, n) ==                            \* fault: one page too few
  [w \in Pages |-> IF w \in Run(v, n - 1) THEN Absent ELSE pt[w]]

UnmapRunLong(pt, v, n) ==                             \* fault: one page too many
  [w \in Pages |-> IF w \in Run(v, n + 1) THEN Absent ELSE pt[w]]

UnmapRun(pt, v, n) == [w \in Pages |-> IF w \in Run(v, n) THEN Absent ELSE pt[w]]

UnmapCountFirstTable(free, v, n) ==                   \* fault: only v's table
  [free EXCEPT ![DirOf(v)] = @ + n]

UnmapCount(free, v, n) ==
  [d \in Dirs |-> free[d] + Cardinality({w \in Run(v, n) : DirOf(w) = d})]

\* get_mapping_virt: the frame of a virtual page, 0 when it is not present
GetMappingVirt(pt, v) == IF Present(pt, v) THEN pt[v] ELSE Null

-----------------------------------------------------------------------------
\* What the search yields when it leaves the address space (see below).
OutOfRange == NumPages

\* fault: the run's length is not reset when a full table is skipped
NextFreeVirtPageKeepsCount(pt, free, n) ==
  LET scan[at \in (1 .. NumPages) \X (0 .. n - 1)] ==
        LET i == at[1]  c == at[2] IN
        IF i = NumPages THEN Null
        ELSE IF i % DirSize = 0 /\ free[DirOf(i)] = 0
             THEN IF i + DirSize = NumPages THEN OutOfRange
                  ELSE scan[<<i + DirSize, c>>]
        ELSE IF Present(pt, i) THEN scan[<<i + 1, 0>>]
        ELSE IF c + 1 = n THEN i - c
        ELSE scan[<<i + 1, c + 1>>]
  IN IF free[0] = 0
     THEN IF NumDirs = 1 THEN Null ELSE scan[<<DirSize, 0>>]
     ELSE scan[<<1, 0>>]

(***************************************************************************)
(* next_free_virt_page_allow_fail(n).  scan[<<i, c>>] is what the loop     *)
(* returns at page i with c absent pages just before it (so s = i - c).    *)
(* At a table's start the inner while skips tables whose counter is 0;     *)
(* it does not test i < last, so when the last tables are all full it      *)
(* reads free[] past its end and goes on past the address space.           *)
(***************************************************************************)
NextFreeVirtPage(pt, free, n) ==
  LET scan[at \in (1 .. NumPages) \X (0 .. n - 1)] ==
        LET i == at[1]  c == at[2] IN
        IF i = NumPages THEN Null
        ELSE IF i % DirSize = 0 /\ free[DirOf(i)] = 0
             THEN IF i + DirSize = NumPages THEN OutOfRange
                  ELSE scan[<<i + DirSize, 0>>]
        ELSE IF Present(pt, i) THEN scan[<<i + 1, 0>>]
        ELSE IF c + 1 = n THEN i - c
        ELSE scan[<<i + 1, c + 1>>]
  IN IF free[0] = 0
     THEN IF NumDirs = 1 THEN Null ELSE scan[<<DirSize, 0>>]
     ELSE scan[<<1, 0>>]

\* What the header promises: a start of n absent pages, 0 if there is none.
FirstAbsent(pt, n) ==
  LET starts == {v \in Pages \ {0} :
                   InRange(v, n) /\ \A w \in Run(v, n) : ~Present(pt, w)}
  IN IF starts = {} THEN Null
     ELSE CHOOSE v \in starts : \A w \in starts : v <= w
=============================================================================
