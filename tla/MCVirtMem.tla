------------------------------ MODULE MCVirtMem ------------------------------
(* Memory maps and firmware runs for TLC: 28 pages, bitmap words of 2, page    *)
(* tables of 4; page size 2, so that regions may start or end inside a page.   *)
EXTENDS VirtMem

E(addr, len, avail) == [addr |-> addr, len |-> len, avail |-> avail]

Low == E(0, 4, TRUE)        \* below the 1 MiB line, which is page 2

\* One region; a region with a hole above it, an unaligned one, and a third
\* that no longer fits the blocks array.
MCMaps ==
  { <<Low, E(4, 38, TRUE), E(42, 14, FALSE)>>,
    <<Low, E(4, 17, TRUE), E(23, 14, TRUE), E(38, 3, FALSE), E(41, 2, TRUE)>> }

\* The top of the address space, mapped at once; tables just above the RAM.
MCFirmware == {<<23, 5>>, <<22, 2>>}

\* A region of less than one bitmap word, below the rest of the RAM.
SmallRegion == {<<Low, E(4, 2, TRUE), E(12, 20, TRUE)>>}

\* RAM that ends where reserved memory begins.
OneRegion == {<<Low, E(4, 32, TRUE), E(36, 20, FALSE)>>}

\* The machines of MCMaps are among those the theorems speak of.
ASSUME MapsAreSound ==
  MemoryMaps = MCMaps => ReservedStaysReserved /\ NothingFreedAbove
=============================================================================
