------------------------------- MODULE VirtMem -------------------------------
(***************************************************************************)
(* The memory manager: the boot steps that build it (Memory::x86_init,     *)
(* IDT::setup's one page, Memory::x86_paging_init) and the operations the  *)
(* heap and ACPI call afterwards (alloc_virt_page, free_virt_page, the     *)
(* identity maps of laihost_map).                                          *)
(*                                                                         *)
(* Addresses are in units of PageSize per page; a memory map is a sequence *)
(* of multiboot entries [addr, len, avail].  k_abort stops the machine:    *)
(* the step that aborts sets "panic" and nothing follows it, so what the   *)
(* aborting call had half written is not kept.                             *)
(***************************************************************************)
EXTENDS PageTables, Sequences

CONSTANTS
  PageSize,            \* address units per page (4096)
  MM,                  \* the 1 MiB line, in address units
  BLOCK_MAX,           \* entries of the blocks array (16)
  MemoryMaps,          \* the memory maps the boot loader may pass
  KernelStartPage, KernelEndPage,   \* k_start_page, k_end_page
  DirPages,            \* pages_to_fit(sizeof(page_directory_root_t)), 2
  MaxAlloc,            \* largest n a client asks for
  FirmwareRuns,        \* runs <<p, n>> that ACPI code identity-maps
  DebugBuild           \* DEBUG defined (the release_x86 target defines it)

Top == NumPages * PageSize      \* 2^32

ASSUME MemAssumption ==
  /\ PageSize \in Nat \ {0} /\ MM \in Nat /\ BLOCK_MAX \in Nat \ {0}
  /\ MaxAlloc \in Nat \ {0} /\ DirPages \in Nat \ {0}
  /\ KernelStartPage \in Pages /\ KernelEndPage \in Pages
  /\ DebugBuild \in BOOLEAN

ASSUME FirmwareAssumption ==
  \A r \in FirmwareRuns : /\ r[1] \in Pages \ {0} /\ r[2] \in Nat \ {0}
                          /\ InRange(r[1], r[2])

VARIABLES
  phase,        \* "reset", "parsed", "idt", "running": how far boot has come
  panic,        \* "none", or the message of the k_abort that stopped it
  usage,        \* pages.usage: the free physical pages
  last_usable,  \* pages.last_usable
  free_mem,     \* bytes of usable memory the map announced
  pt,           \* the page tables: virtual page -> frame or Absent
  dirfree,      \* page_directory_root_t::free
  held          \* [v, n] of the blocks clients got and have not freed

vars == <<phase, panic, usage, last_usable, free_mem, pt, dirfree, held>>

Running == phase = "running" /\ panic = "none"

Abort(why) ==
  /\ panic' = why
  /\ UNCHANGED <<phase, usage, last_usable, free_mem, pt, dirfree, held>>

Frames(b) == {pt[w] : w \in Run(b.v, b.n)}

-----------------------------------------------------------------------------
(* Boot.                                                                   *)

Init ==
  /\ phase = "reset" /\ panic = "none"
  /\ usage = {} /\ last_usable = 0 /\ free_mem = 0
  /\ pt = [v \in Pages |-> Absent]
  /\ dirfree = [d \in Dirs |-> DirSize]
  /\ held = {}

\* The entries x86_init keeps: available, not below 1 MiB, below 4 GiB, and
\* no more than fit the blocks array.
Blocks(mmap) ==
  LET Kept(e) == e.avail /\ e.addr >= MM /\ e.addr < Top
      kept == SelectSeq(mmap, Kept)
  IN SubSeq(kept, 1, IF Len(kept) < BLOCK_MAX THEN Len(kept) ELSE BLOCK_MAX)

BlockStart(e) == e.addr \div PageSize

\* uint32_t end = addr + len wraps at 4 GiB
BlockEnd(e) == ((e.addr + e.len) % Top) \div PageSize

FreedBy(blocks) ==
  UNION {Touched(BlockStart(blocks[i]), BlockEnd(blocks[i])) : i \in DOMAIN blocks}

LastUsable(blocks) ==
  LET ends == {0} \cup {BlockEnd(blocks[i]) : i \in DOMAIN blocks}
  IN CHOOSE m \in ends : \A e \in ends : e <= m

SumOver(blocks, f(_)) ==
  LET sum[i \in 0 .. Len(blocks)] == IF i = 0 THEN 0 ELSE sum[i - 1] + f(blocks[i])
  IN sum[Len(blocks)]

UsableMem(blocks) ==
  LET length(e) == e.len IN SumOver(blocks, length)

PageCountExpected(blocks) ==
  LET size(e) == BlockEnd(e) - BlockStart(e) + 1
  IN SumOver(blocks, size) % Top

\* usable and last_usable take the values their C types have room for.
X86Init(mmap) ==
  LET blocks == Blocks(mmap)
      freed  == FreedBy(blocks) \cap Pages
  IN
  /\ phase = "reset" /\ panic = "none"
  /\ \E usable \in 0 .. BLOCK_MAX * Top, last \in Pages :
     /\ usable = UsableMem(blocks) /\ last = LastUsable(blocks)
     /\ \/ usable = 0 /\ Abort("No Usable Memory")
        \/ /\ usable # 0
           /\ DebugBuild /\ PageCountExpected(blocks) # Cardinality(freed)
           /\ Abort("page_count_expected==page_count")
        \/ /\ usable # 0
           /\ DebugBuild => PageCountExpected(blocks) = Cardinality(freed)
           /\ phase' = "parsed"
           /\ usage' = freed \ Touched(KernelStartPage, KernelEndPage)
           /\ last_usable' = last
           /\ free_mem' = usable
           /\ UNCHANGED <<panic, pt, dirfree, held>>

\* One alloc_phys_page(1) for the interrupt descriptor table.
IDTSetup ==
  /\ phase = "parsed" /\ panic = "none"
  /\ \E p \in Pages :
     /\ p = NextFreePhysPages(usage, 1)
     /\ \/ p = Null /\ Abort("Out of Physical Memory")
        \/ /\ p # Null
           /\ phase' = "idt"
           /\ usage' = Register(usage, p, 1)
           /\ UNCHANGED <<panic, last_usable, free_mem, pt, dirfree, held>>

\* The k lowest pages of S: what k calls of alloc_phys_page(1) take.
Lowest(S, k) == {t \in S : Cardinality({r \in S : r < t}) < k}

(***************************************************************************)
(* x86_paging_init: DirPages contiguous pages for the directory, then one  *)
(* page per table (the NumDirs lowest free ones), then every page up to    *)
(* last_usable that is not free is identity-mapped.  Page 0 is mapped like *)
(* the others and then cleared behind the counter's back.                  *)
(***************************************************************************)
X86PagingInit ==
  LET pd   == NextFreePhysPages(usage, DirPages)
      rest == Register(usage, pd, DirPages)
      free == rest \ Lowest(rest, NumDirs)
      used == (0 .. last_usable) \ free
  IN
  /\ phase = "idt" /\ panic = "none"
  /\ \/ /\ free_mem < (NumDirs + DirPages) * PageSize
        /\ Abort("Not enough memory for page tables")
     \/ /\ free_mem >= (NumDirs + DirPages) * PageSize
        /\ pd = Null \/ Cardinality(rest) < NumDirs
        /\ Abort("Out of Physical Memory")
     \/ /\ free_mem >= (NumDirs + DirPages) * PageSize
        /\ pd # Null /\ Cardinality(rest) >= NumDirs
        /\ phase' = "running"
        /\ usage' = free
        /\ pt' = [v \in Pages |-> IF v \in used \ {0} THEN v ELSE Absent]
        /\ dirfree' = [d \in Dirs |->
             DirSize - Cardinality({v \in used : DirOf(v) = d})]
        /\ UNCHANGED <<panic, last_usable, free_mem, held>>

-----------------------------------------------------------------------------
(* The operations of a running kernel.                                     *)

(***************************************************************************)
(* What map_virt does once the frames p .. p+n-1 are registered:           *)
(* map_virtual_page at the page v found, which checks only the first frame *)
(* against last_usable, and each virtual page by id_to_page_entry.         *)
(***************************************************************************)
MapVirt(p, v, n) ==
  \/ ~InRange(v, n) /\ Abort("virtual address out of range")
  \/ /\ InRange(v, n) /\ p >= last_usable
     /\ Abort("can't map invalid physical address")
  \/ /\ InRange(v, n) /\ p < last_usable
     /\ ~MayMap(pt, p, v, n, FALSE)
     /\ Abort("can't map mapped virtual address")
  \/ /\ InRange(v, n) /\ p < last_usable
     /\ MayMap(pt, p, v, n, FALSE)
     /\ usage' = Register(usage, p, n)
     /\ pt' = MapRun(pt, p, v, n)
     /\ dirfree' = MapCount(dirfree, pt, v, n)
     /\ held' = held \cup {[v |-> v, n |-> n]}
     /\ UNCHANGED <<phase, panic, last_usable, free_mem>>

\* The pages the two scans find, as the uint32_t page ids they return.
FoundPages(n) ==
  {f \in {<<NextFreePhysPages(usage, n), NextFreeVirtPage(pt, dirfree, n)>>} :
     f \in Pages \X (Pages \cup {OutOfRange})}

AllocVirtPage(n) ==
  /\ Running
  /\ \E f \in FoundPages(n) : LET p == f[1]  v == f[2] IN
     \/ p = Null /\ Abort("Out of Physical Memory")
     \/ /\ p # Null /\ ~CanRegister(usage, p, n)
        /\ Abort("Trying to register non-free page")
     \/ /\ p # Null /\ CanRegister(usage, p, n)
        /\ v = Null /\ Abort("Out of Virtual Memory")
     \/ /\ p # Null /\ CanRegister(usage, p, n)
        /\ v # Null /\ MapVirt(p, v, n)

\* As alloc_virt_page, but nullptr instead of an abort; when only the virtual
\* pages are missing the frames stay registered.
AllocVirtPageAllowFail(n) ==
  /\ Running
  /\ \E f \in FoundPages(n) : LET p == f[1]  v == f[2] IN
     \/ p = Null /\ UNCHANGED vars
     \/ /\ p # Null /\ ~CanRegister(usage, p, n)
        /\ Abort("Trying to register non-free page")
     \/ /\ p # Null /\ CanRegister(usage, p, n) /\ v = Null
        /\ usage' = Register(usage, p, n)
        /\ UNCHANGED <<phase, panic, last_usable, free_mem, pt, dirfree, held>>
     \/ /\ p # Null /\ CanRegister(usage, p, n)
        /\ v # Null /\ MapVirt(p, v, n)

\* free_virt_page(p, n): the frames are n contiguous ones from the frame of
\* the first page; then the virtual pages are unmapped one by one.
FreeVirtPage(b) ==
  LET p == GetMappingVirt(pt, b.v) IN
  /\ Running
  /\ b \in held
  /\ \/ ~CanFree(usage, p, b.n) /\ Abort("Can't free an unused page")
     \/ /\ CanFree(usage, p, b.n) /\ ~MayUnmap(pt, b.v, b.n)
        /\ Abort("can't unmap unmapped virtual address")
     \/ /\ CanFree(usage, p, b.n) /\ MayUnmap(pt, b.v, b.n)
        /\ usage' = Free(usage, p, b.n)
        /\ pt' = UnmapRun(pt, b.v, b.n)
        /\ dirfree' = UnmapCount(dirfree, b.v, b.n)
        /\ held' = held \ {b}
        /\ UNCHANGED <<phase, panic, last_usable, free_mem>>

\* laihost_map / ACPI::init: map firmware memory onto itself; pages already
\* mapped that way are accepted.
IdentityMap(r) ==
  LET p == r[1]  n == r[2] IN
  /\ Running
  /\ \/ /\ ~MayMap(pt, p, p, n, TRUE)
        /\ Abort("can't map mapped virtual address")
     \/ /\ MayMap(pt, p, p, n, TRUE)
        /\ pt' = MapRun(pt, p, p, n)
        /\ dirfree' = MapCount(dirfree, pt, p, n)
        /\ UNCHANGED <<phase, panic, usage, last_usable, free_mem, held>>

\* map_null and unmap_null write the entry of page 0 and no counter.
MapNull ==
  /\ Running
  /\ pt' = [pt EXCEPT ![0] = 0]
  /\ UNCHANGED <<phase, panic, usage, last_usable, free_mem, dirfree, held>>

UnmapNull ==
  /\ Running
  /\ pt' = [pt EXCEPT ![0] = Absent]
  /\ UNCHANGED <<phase, panic, usage, last_usable, free_mem, dirfree, held>>

Next ==
  \/ \E mmap \in MemoryMaps : X86Init(mmap)
  \/ IDTSetup
  \/ X86PagingInit
  \/ \E n \in 1 .. MaxAlloc : AllocVirtPage(n) \/ AllocVirtPageAllowFail(n)
  \/ \E b \in held : FreeVirtPage(b)
  \/ \E r \in FirmwareRuns : IdentityMap(r)
  \/ MapNull
  \/ UnmapNull

Spec == Init /\ [][Next]_vars

-----------------------------------------------------------------------------
(* Properties.                                                             *)

\* Aborts that mean an inconsistency, and those that mean exhaustion, a memory
\* map the kernel cannot boot from, or the page just past the RAM.
InternalAborts ==
  {"Trying to register non-free page", "Can't free an unused page",
   "can't map mapped virtual address", "can't unmap unmapped virtual address",
   "virtual address out of range", "Out of Virtual Memory"}

AbortMessages == InternalAborts \cup
  {"No Usable Memory", "page_count_expected==page_count",
   "Not enough memory for page tables", "Out of Physical Memory",
   "can't map invalid physical address"}

HeldBlock == [v : Pages \ {0}, n : 1 .. MaxAlloc]

\* Type invariant.
TypeOK ==
  /\ phase \in {"reset", "parsed", "idt", "running"}
  /\ panic \in {"none"} \cup AbortMessages
  /\ usage \subseteq Pages
  /\ last_usable \in Pages
  /\ free_mem \in Nat
  /\ pt \in [Pages -> Pages \cup {Absent}]
  /\ dirfree \in [Dirs -> Int]
  /\ held \subseteq HeldBlock

\* A frame some virtual page maps is never on the free bitmap: memory still
\* reachable through the page tables is never handed out again.
MappedNotFree == \A v \in Pages : Present(pt, v) => pt[v] \notin usage

\* No frame is mapped by two virtual pages, so two heap blocks, or a block and
\* an identity-mapped page, never share memory.
NoAliasing ==
  \A v, w \in Pages : v # w /\ Present(pt, v) /\ Present(pt, w) => pt[v] # pt[w]

\* free_virt_page translates the first page only and frees n frames from there:
\* every block held is mapped to the end, onto contiguous frames.
HeldContiguous ==
  \A b \in held : \A i \in 0 .. b.n - 1 :
    /\ b.v + i \in Pages
    /\ Present(pt, b.v) /\ Present(pt, b.v + i)
    /\ pt[b.v + i] = pt[b.v] + i

\* Two blocks clients hold have no virtual page in common.
HeldDisjoint ==
  \A b, c \in held : b # c => Run(b.v, b.n) \cap Run(c.v, c.n) = {}

\* The counters by which next_free_virt_page skips full tables are exact (page 0,
\* never handed out, is not counted): no absent page is ever skipped over.
CountersExact ==
  phase = "running" => \A d \in Dirs :
    dirfree[d] = Cardinality({v \in Pages \ {0} : DirOf(v) = d /\ ~Present(pt, v)})

\* The two first-fit scans move in lock step.  Up to last_usable a virtual page is
\* absent exactly when the frame of that number is free, so every block is
\* identity-mapped, no page is ever lost, and virtual pages cannot run out first.
LockStep ==
  phase = "running" => \A v \in 1 .. last_usable :
    IF v \in usage THEN ~Present(pt, v) ELSE pt[v] = v

\* A client that frees only what it got never makes the kernel stop on a double
\* free, a re-registration, an unmapped or a remapped page, nor for want of
\* virtual pages while there are physical ones.
NoInternalAbort == panic \notin InternalAborts

\* The searches the allocators rely on skip what cannot hold a run (words with
\* nothing free, tables whose counter is 0) and resume past a failed run, and
\* still find the first run that fits, in every state of the bitmap and the
\* tables.  Only when no run of virtual pages fits and the last table is full
\* does the search leave the address space instead of returning 0.
ScansAreFirstFit ==
  Running => \A n \in 1 .. MaxAlloc :
    /\ NextFreePhysPages(usage, n) = FirstFit(usage, n)
    /\ LET v == NextFreeVirtPage(pt, dirfree, n) IN
       \/ v = FirstAbsent(pt, n)
       \/ v = OutOfRange /\ FirstAbsent(pt, n) = Null /\ dirfree[NumDirs - 1] = 0

\* Freeing a block gives back exactly the frames that back it, whatever was
\* mapped, unmapped or freed since it was allocated.
FreeReturnsFrames ==
  [][\A b \in held \ held' : usage' = usage \cup Frames(b)]_vars

\* What the manager promises its clients (see PageOwnership).
Ownership == INSTANCE PageOwnership WITH
  open   <- phase = "running",
  avail  <- IF phase = "running" THEN usage ELSE {},
  blocks <- {[id |-> b.v, frames |-> Frames(b)] : b \in held}

OwnershipSpec == Ownership!Spec

(***************************************************************************)
(* The firmware's pages and page 0 are not among those the memory map      *)
(* frees.  The code does not ensure it: x86_init frees one page past each  *)
(* region (see OnlyAvailableFreed).                                        *)
(***************************************************************************)
Reserved == {0} \cup UNION {Run(r[1], r[2]) : r \in FirmwareRuns}

ReservedStaysReserved ==
  \A mmap \in MemoryMaps : FreedBy(Blocks(mmap)) \cap Reserved = {}

(***************************************************************************)
(* No page above last_usable is freed.  The code does not ensure it either: *)
(* of a region of less than one bitmap word set_phys_free writes the bits  *)
(* of start+i for i from start on.                                         *)
(***************************************************************************)
NothingFreedAbove ==
  \A mmap \in MemoryMaps :
    FreedBy(Blocks(mmap)) \cap Pages \subseteq 0 .. LastUsable(Blocks(mmap))

-----------------------------------------------------------------------------
(* What comments and assertions of the code say.                           *)

\* x86_mem.cpp:360 assert(page_count_expected==page_count): set_phys_free frees
\* as many pages as the regions of the map have.
PageCountAsserted == panic # "page_count_expected==page_count"

\* x86_mem.cpp:309 "ignore non-available memory": a page is freed only if all of
\* it is available memory.
Available(mmap, p) ==
  \A a \in p * PageSize .. (p + 1) * PageSize - 1 :
    \E i \in DOMAIN mmap : /\ mmap[i].avail
                           /\ a \in mmap[i].addr .. mmap[i].addr + mmap[i].len - 1

OnlyAvailableFreed ==
  \A p \in usage : \E mmap \in MemoryMaps : Available(mmap, p)

\* x86_mem.h:26 "can fit 'n' pages, return 0 on fail": the search for virtual
\* pages returns the first fit, and 0 if there is none.
ReturnsZeroOnFail ==
  Running => \A n \in 1 .. MaxAlloc :
    NextFreeVirtPage(pt, dirfree, n) = FirstAbsent(pt, n)
=============================================================================
