------------------------------ MODULE PhysPages ------------------------------
(***************************************************************************)
(* The physical page bitmap of src/arch/x86/memory/x86_mem.cpp.            *)
(*                                                                         *)
(* pages.usage is an array of 32768 chunks of 32 bits, a set bit being a   *)
(* FREE page.  Here the bitmap is the set F of the free page ids, a page   *)
(* id is chunk*ChunkSize+offset, and the chunk structure survives only     *)
(* where the code's control depends on it (set_phys_free, the scan).       *)
(* Page id 0 doubles as the null pointer, exactly as to_ptr(0) does.       *)
(***************************************************************************)
EXTENDS Integers, FiniteSets

CONSTANTS
  ChunkSize,   \* pages per bitmap word (32)
  NumChunks    \* words in the bitmap (phys_page_segment, 32768)

ASSUME ChunkAssumption == ChunkSize \in Nat \ {0} /\ NumChunks \in Nat \ {0}

NumPages == ChunkSize * NumChunks

Pages == 0 .. NumPages - 1

\* What the allocators return when they fail: nullptr, the address of page 0.
Null == 0

Run(p, n) == p .. p + n - 1

-----------------------------------------------------------------------------
(* set_phys_free(start, end, new_free) writes the bits of these page ids.  *)
(* The roundings are those of the code: start2 is start when start is NOT  *)
(* aligned and the next boundary when it is.                               *)

ChunkFloor(p) == p - (p % ChunkSize)

Start2(s) == IF s % ChunkSize # 0 THEN s ELSE s + ChunkSize

Touched(s, e) ==
  IF Start2(s) > ChunkFloor(e)
  THEN {s + i : i \in s .. Start2(s) - 1}
         \cup (IF e # ChunkFloor(e) THEN ChunkFloor(e) .. e ELSE {})
  ELSE s .. e

-----------------------------------------------------------------------------
(* The first-fit scan.                                                     *)

HasFree(F, chunk) ==
  \E p \in Run(chunk * ChunkSize, ChunkSize) : p \in F

RunIsFreeShort(F, p, n) == p \in F /\ Run(p, n - 1) \subseteq F   \* fault: off by one

\* is_free(chunk, offset, length, ...): all of the run is free, and it does
\* not leave the bitmap (F has no page past the last chunk).
RunIsFree(F, p, n) == Run(p, n) \subseteq F

\* chunk_out/offset_out: where a failed run stopped, NumPages for "past the
\* last chunk" (the code's chunk = phys_page_segment).
RunStopEnd(F, p, n) == p + n - 1                      \* fault: the whole run skipped

RunStop(F, p, n) ==
  CHOOSE q \in Run(p, n) \ F : \A r \in Run(p, n) \ F : q <= r

NextChunk(p) == (p \div ChunkSize + 1) * ChunkSize

(***************************************************************************)
(* next_free_phys_pages_allow_fail(n) (and next_free_phys_page, the case   *)
(* n = 1).  scan[p] is what the loops return once i,j stand at page p: a   *)
(* chunk is entered only when it has a free page; a failed run resumes     *)
(* after the page it stopped at, or in the chunk after it when that chunk  *)
(* has nothing free.                                                       *)
(***************************************************************************)
NextFreePhysPages(F, n) ==
  LET scan[p \in 0 .. NumPages] ==
        IF p = NumPages THEN Null
        ELSE IF p % ChunkSize = 0 /\ ~HasFree(F, p \div ChunkSize)
             THEN scan[NextChunk(p)]
        ELSE IF RunIsFree(F, p, n) THEN p
        ELSE LET q == RunStop(F, p, n) IN
             IF q >= NumPages THEN Null
             ELSE IF ~HasFree(F, q \div ChunkSize) THEN scan[NextChunk(q)]
             ELSE scan[q + 1]
  IN scan[0]

\* What first fit means: the least start of a run of n free pages.
FirstFit(F, n) ==
  LET starts == {p \in F : Run(p, n) \subseteq F}
  IN IF starts = {} THEN Null
     ELSE CHOOSE p \in starts : \A q \in starts : p <= q

-----------------------------------------------------------------------------
(* register_phys_page and free_phys_page walk the run page by page and     *)
(* abort on the first page that is not in the state they expect.           *)

CanRegister(F, p, n) == Run(p, n) \subseteq F

Register(F, p, n) == F \ Run(p, n)

CanFree(F, p, n) == Run(p, n) \subseteq Pages \ F

FreeStopsEarly(F, p, n) == F \cup Run(p, n - 1)       \* fault: while(n>1)

Free(F, p, n) == F \cup Run(p, n)

=============================================================================
