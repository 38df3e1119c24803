# OSDevV2 in TLA+

A verification project for the OSDevV2 kernel (`src/`): a hobby i686 kernel in
freestanding C++ with a page allocator, a heap, PIC/APIC interrupts, a PS/2
keyboard, a RAM file system behind C streams, a shell, a text editor and Lua. It
holds TLA+ modules translated from the source, TLC configurations that check
them on small instances, and TLAPS proofs of the results that matter most.

    tlc -workers 2 -config MCVirtMem.cfg MCVirtMem     # one run
    tlapm X86_proofs.tla                               # the proofs of one module

`PROJECT.json` lists the runs, the lines each definition models ("map"), the
mutant by which each property is shown to be able to fail ("mutants", the
definitions marked `fault:` in the modules), the hazards and the theorems.

- [1 The system](#1-the-system)
- [2 Modules and code](#2-modules-and-code)
- [3 Runs: what is asked, bounds, fairness](#3-runs)
- [4 Proofs](#4-proofs)
- [5 Where code and comments disagree](#5-where-code-and-comments-disagree)
- [6 Not modelled](#6-not-modelled)
- [7 Plan](#7-plan)

## 1 The system

One CPU, one kernel thread, and interrupt handlers on top of it; tasking is a
stub. So the concurrency is between the thread and the handlers, and the rest of
the difficulty is in long sequences of calls: allocate and free, open and close,
insert and delete. `k_abort` (and so every failed `k_abort_assert`) halts the
machine; an abort in the models is a last step.

Paths below are relative to `src/`.

| Component | State | Operations | Uses | What makes it correct |
|---|---|---|---|---|
| Physical pages `src/arch/x86/memory/x86_mem.cpp` | `pages.usage`, a bitmap of free pages; `last_usable`; `free_mem` | `x86_init` (from the multiboot map), `set_phys_free`, `next_free_phys_page(s)`, register, free | boot loader's map | only usable memory is free; a page is handed out once; first fit finds what there is |
| Virtual pages `memory/paging.cpp`, `x86_mem.cpp` | the page tables; `free[]`, absent entries per table | `x86_paging_init`, `map_virtual_page(_unsafe)`, `alloc_virt_page`, `free_virt_page`, `map_null` | physical pages | a frame has one owner; counters and bitmap agree with the table; free gives back what alloc took |
| Heap `src/stdc/liballoc.c` | chain of majors, each a chain of minors; `l_bestBet`; two totals | malloc, calloc, realloc, free; `new`/`delete` | virtual pages | blocks do not overlap; nothing leaks; grows only when it must |
| Interrupts `interrupts/idt.cpp`, `idt.asm`, `pic.cpp` | IDT, callbacks, PIC registers, `int_en_count` | `IDT::init`, `set_irq_handler`, `irq_enable`, `handle_irq`, EOI, the guards | CPU flag, PIC | a guard keeps handlers out; every interrupt has a handler and an end; lines are served |
| APIC, I/O APIC `interrupts/apic.cpp`, MADT `acpi/acpi.cpp` | redirection entries, the local APIC's vectors; the table's entries | init, remap, mapping, enable, EOI; `resolve_irq_source` | ACPI's MADT | a source reaches the callback registered for it and is served |
| ACPI, LAI host `acpi/*.cpp` | tables found, LAI's maps | find and check tables, `laihost_*` | virtual pages (identity maps) | firmware's pages never become the heap's |
| Keyboard `drivers/keyboard/ps2/keyboard.cpp`, `include/util/lfq.h` | the key queue, `wait_for_key`, modifier state | `kbint` (handler), `getKey` (thread), scancode decoding | interrupts | no key lost, invented or reordered; a reader that waits is woken |
| Hash table, vector, `UniquePtr` `include/util/*.h` | buckets of entries | set, at, find, unset, erase, move | heap | a dictionary; an object is owned once |
| File system `src/fs/vfs.cpp`, `ramfs.cpp` | folders of files, bytes, a lock per file | open, create, remove, rename, read, write | hash table, heap | an open file stays; nobody else changes it |
| C streams `src/stdc/file_io.cpp` | `FILE`: file, index, eof, modes | fopen ... rename | file system, k_gets for stdin | C's contract: EOF at the end, append appends |
| Line editors `src/kshell/kshell.cpp`, `src/klib.cpp` | buffer, `cmdsize`, `ptrpos` | keys | keyboard, screen | buffer is the line shown; the screen is the transcript |
| Shell commands `src/kshell/kshell.cpp`, `src/util/string.cpp` | the table of commands; argv | `kshell_execute`, `cmd_parse`, `explode` and paths | line editor, file system | argv is the line's words and strings |
| Text editor `src/kshell/tedit/*` | lines, cursor, window, menu state | keys, menu, load, save | streams, screen, keyboard | keys change the text at the cursor; the window shows the text; what is saved is the text |
| Screen `drivers/textmode/x86_screen.cpp` | cells, cursor | move, clear, write, scroll | VGA memory | nothing written is lost or doubled before it scrolls off |

Calls go down the table's "uses" column; the only upward calls are the interrupt
handlers. State shared between the thread and a handler is: the key queue and
`wait_for_key`, `int_en_count` with the CPU's flag, and the PIT's tick.

The order at boot (`x86.cpp:46-113`) is: memory map, `IDT::setup` (one page),
paging, serial port, ACPI, `IDT::init` (interrupts on), PIT, ACPI mode, file
system, `klib_init`; keyboard and shell follow. VirtMem has it as the variable
`phase`, Interrupts as `booted`.

What is hard here, and hard to test: the two scans of the page allocator and
their counters over long histories; a handler between two instructions of
`pop` or of a guard; the three kinds of gap in a heap major; a vector whose
`erase` is wrong only when the bucket holds three; a stream's stale flags;
the rest of a key's bytes, read inside the handler while their interrupts are
still to come; arithmetic at the ends of regions, files, lines and rows. `PROJECT.json` lists each
such hazard at its line, and the properties that would catch it.

## 2 Modules and code

The modules keep the names of the code. Its control is kept; bytes, addresses
and keys are small numbers or model values.

**PhysPages, PageTables, VirtMem** - memory. `PhysPages` is the bitmap as the
set `usage` of free pages, with the word structure kept where control depends on
it: the rounding of `set_phys_free` (`Touched`) and the scan that skips empty
words (`NextFreePhysPages`, a recursive function over page numbers).
`PageTables` is the page table as a function from virtual page to frame or
`Absent`, the counters `free[]`, and the scan with its skip over full tables
(including what it does past the last one). `VirtMem` has one action per
operation: `X86Init`, `IDTSetup`, `X86PagingInit` for boot, then
`AllocVirtPage`, `AllocVirtPageAllowFail`, `FreeVirtPage`, `IdentityMap`
(`laihost_map`, ACPI's maps), `MapNull`, `UnmapNull`. `held` is the ghost set
of blocks clients have; clients free only those, which is what liballoc does.
Every abort is a branch of its action. `DebugBuild` selects the build in which
`assert` is compiled in (only the `release_x86` target defines `DEBUG`).
**PageOwnership** is the abstract specification: frames are available, in one
block, or lost.

**Heap** - liballoc. The two doubly linked chains are sequences; sizes are in
units of 8 bytes, so both headers are 3 units and alignment 2. `malloc`,
`free` and `Realloc` follow the code's five cases: the major visited (from the best
bet, then from the root), the gap in front of the first minor, at the end, or
between two, a new major after the last. Addresses are page times page size
plus offset. Calls are atomic: the thread holds liballoc's lock and no handler
allocates. Out of memory halts, as `alloc_virt_page` does in this build.

**Interrupts** - delivery and guards. `stack` is the stack of contexts, the
thread at the bottom; each context is at a place inside `handle_irq` or a
guard. `Accept` is the PIC offering its highest-priority request and the CPU
taking it through an interrupt gate; `Spurious` is the vector 7 the PIC gives
when the request is gone. Each guard is three steps (test, cli/sti, count),
because an interrupt may come between them. The slave PIC is left out: nothing
unmasks line 2, so it never speaks.

**KeyQueue** - `lfq.h` with its two users. `KbInt` is atomic (handlers run with
the flag off); `getKey` is one action per access to a shared word. `owed` and
`clobbered` are history: the accepted keys not yet returned, and whether a push
fell into one of pop's windows.

**HashTable, Dictionary** - buckets as sequences, `Erase` as `memmove` does it,
values as objects owned by `UniquePtr`s, so that destroying one twice (`ub`) or
losing one is visible. Actions are the uses the kernel makes: environment
variables and folder entries. `Dictionary` is the abstract specification.

**FileStore, FileAccess** - the C streams over RAM files of the root folder,
whose table is the dictionary shown above. Actions are the `stdio` calls in all
their modes. A spinlock the only thread already holds stops it for ever:
`halted = "spins"`. `FileAccess` is the promise: one stream per file, and only
that stream changes it.

**LineEdit, Line** - the prompt and `k_gets`, on a C string in a buffer with the
byte in front of it as index -1 and the unsigned width as `Wrap`. `Line` is the
promise: a text before and after the cursor.

**TextScreen, Console** - `TextScreen` has the screen's functions as operators on
a record of cells and cursor: the wrap at the end of a row, `newline`, the
scroll, the position that `write_s` and `write_sn` keep beside the cursor, tabs up to
the next stop, and two of the ANSI codes. A tab that ends past the last row never ends
(`Hangs`, `FixedHangs`): the column its loop tests is clamped to the screen. `Console` composes it with LineEdit: each key of LineEdit, with the
drawing that follows it in the code, and the printing of a command between two lines. The
history `said` is what was written, `begun` the screen when the line was begun.

**TextLine, TextEdit, TEdit, Document** - the editor. `TextLine` is a line's
buffer, byte by byte, with what `realloc` leaves undefined as `Other`.
`TextEdit` has TextEngine's functions on one record (text, cursor, window,
screen); the key that ends in `redraw_full` redraws, unless a tab in the window
never ends: then the key is no step (`Drawable`), as a file that cannot be drawn is no
session (`Begins`). `TEdit` has the main loop, the menu and its statics, one action per
key, load and save. `tabbed` is history: whether the session's file had a tab; typed
ones become blanks. `Loaded` leaves out the byte that `fgetc` may return behind the end
of a file (`FgetcStopsAtEnd`, section 5): with it the text is that of another file. `Document` is the
promise: a text with a cursor, changed only there.

**CommandLine** - from a line to a file: `kshell_execute`, one action per branch of
`cmd_parse`'s loop, `explode` as a fold over the path (`Scan` is the loop's body),
`resolveFilePath`, which tedit asks only for a name of at most `filename_max` characters
(`Looked`). What it should find is stated without the parser: there are places
to cut the line at such that each piece is a blank, a word or a string.

**Layout, Keyboard** - `Layout` is the two scan code tables. In `Keyboard` the
user presses and releases keys, the controller sends their bytes one at a time
and asks for an interrupt with each, and the handler is one action per byte it
reads: `Interrupt` for the first, `GetRest` for those it waits for with
interrupts off. `down` is the six flags; `typed`, `fresh` and `shift` are
history. Push and pop are atomic here, and KeyQueue has the steps inside them.

**IoApic** - the second controller, from the MADT through `IDT::init` and the two
drivers' registrations (remap, handler, enable, each a step with interrupts on)
to ticks, keys and kbdump. The pins (edge mode; a masked pin loses its edge) and
the local APIC are external.

**X86_proofs, Heap_proofs, Lookup_proofs, FileStore_proofs, Handlers_proofs,
Keyboard_proofs, Console_proofs, TEdit_proofs** - section 4. **MC** modules -
memory maps, hash functions, MADTs, keys, files, printed texts and lines for TLC,
the symmetry of names and streams, and that the runs' maps, codes, tables and files are
ones that the theorems assume (`MapsAreSound`, `Set1IsKnown`, `SomeAreSound`, `FilesAreText`).

## 3 Runs

`fault:` operators in the modules are the bugs each property is known to catch.
Type invariants are conjuncts of the invariants below where they have no name of
their own; those are proved (section 4).

| Run | Bounds | Asks |
|---|---|---|
| `virt_mem` | 28 pages, words of 2, tables of 4, blocks up to 3 pages, 2 memory maps, 2 firmware runs | `NoAliasing`: no frame is mapped twice. `CountersExact`, `LockStep`: counters, bitmap and table agree. `ScansAreFirstFit`: what the scans return is the first fit by definition. `FreeReturnsFrames`. `NoInternalAbort`: no abort but exhaustion. `OwnershipSpec`: implements PageOwnership |
| `heap` | 4 pages of 24 units, requests of 1, 6 and 16 units, 3 blocks live | `Layout`, `ClientsOwnTheirBlocks`: no overlap, no leak, no stale best bet. `UsageExact`: bookkeeping. `GrowsOnlyWhenFull` |
| `interrupts` | timer, keyboard and spurious line; guards nested twice; room for 3 handlers | `GuardExcludes`, `GuardReopens`, `InServiceWhileHandled`, and `Served` (liveness) |
| `io_apic` | 7 MADTs, boot CPU with ID 0, no key during boot | `RightHandler`: an unmasked pin leads to its device's callback, and boot gives up only at a table it cannot use. `Served`, `QuitEndsDump` (liveness) |
| `keyboard` | 5 keys with codes of 1, 2, 4 and 6 bytes, a queue of 1, 2 events on their way | `DecodesWhatWasTyped`, `ModifiersFollow`, `ReadAsTyped`, and `Decoded` (liveness) |
| `key_queue` | 3 slots, 2 keys | `KeysConserved`, `InOrderUnlessClobbered`, and `WaitEnds` (liveness) |
| `hash_table` | 4 keys, 2 in a bucket, 5 objects | `OwnedOnce`; implements Dictionary |
| `file_store` | 2 names, 3 files, 2 streams, 2 bytes a file, index to 3 | `LockedWhileOpen`, `EofAtEnd`, `AppendKeeps`; implements FileAccess |
| `console` | 2 characters, one of them the blank, lines of 3 on a screen of 3 rows of 6, 5 printed texts | `LineShown`: buffer, row and cursor agree. `TranscriptShown`: the screen is the end of all that was written. Implements Line |
| `tedit` | a screen of 3 rows of 4, texts of 2 characters and 2 lines, or loaded with 3 lines, one of them with a tab; one session after another | `ScreenShowsText`: in a session whose file had no tab. `SavesTextUnlessJoined`; implements Document |
| `command_line` | every line of a command and up to 5 characters of 5 kinds; names of up to 4 | `WordsParsed`, `OnePieceOpens` |

`key_fifo` is a violation run: section 5.

Why the bounds are enough:

- *virt_mem*. The interesting sizes are where a block crosses a bitmap word, a
  table, or the end of memory: a block of 3 pages crosses a word always and a
  table at two of four places, and a failed run can end inside, at the edge of,
  or beyond the next word or table. The first map has memory below 1 MiB
  (dropped) and a hole above; the second has unaligned regions and one more than
  `BLOCK_MAX`. One firmware run lies at the top of the address space, the other
  begins below it and overlaps it. The maps are those whose extra page (section
  5) no firmware uses.
- *heap*. A page of 24 units takes two blocks of 1, or a 1 and a 6, exactly; 16
  makes a major of two pages whose rest takes two more blocks. So a major of three has
  a front gap, a gap between minors or a tail, too small or just large enough for the
  next request; there can be several majors with the best bet on any, and the
  pages run out.
- *interrupts*. Two lines are the ones with drivers; `MaxStack` 3 would let
  handlers nest, and `NoNesting` (proved) says they do not; `BootGuards` and
  `HandlerGuards` are FALSE, as the code stands: no handler and nothing before
  `IDT::init` uses the guards that `x86_idt.h` offers.
- *key_queue*. The queue fills, wraps, and a push falls into each window.
  Nothing in the code depends on the capacity but the wrap; KeysInOrder
  proves it for every N.
- *io_apic*. The tables differ in whether the timer and the keyboard have an override, in
  the pin, in the number and order of I/O APICs, and in what makes boot give
  up; the assumptions on the ID and on keys during boot are needed (section 5).
- *keyboard*. There is a code of each length the decoder knows, two of them with
  equal beginnings; with two events on their way the next code is behind the one
  that is waited for, and a queue of one is full at once.
- *hash_table*. At most two keys a bucket is where `erase` is right; with three it is
  not (`FindReturnsLive`, section 5).
- *file_store*. A second stream makes a second open of the same name spin, and index
  3 is past the end of every file. `MaxSize` bounds writes and `MaxIndex`
  positions; both are guards. Names and streams are symmetric: no action or property tells
  two of them apart.
- *console*. `Careful` restricts the user to the keys for which the editors
  are right (section 5 has the others); a line of 3 has a start, an inside and
  a full end, and `Cap = XLen - 3` is the code's 77 of 80. The texts fill a row
  exactly, wrap, and scroll.
- *tedit*. With the menu the window has two rows, without it three, so the text of
  three lines scrolls in one and fits the other. One file has no text, one three
  lines without a last line feed, one a tab in its third line: that is drawn past its row
  while it is in the first two, and without an end in the last. Every pair of sessions
  follows one another, so one without a tab also begins with the menu as one with a tab left it.
  With `Wide = FALSE` no key makes a line reach the screen's last column: the window never
  scrolls sideways (`view_x` stays 0), so a wider line runs into the next row.
- *command_line*. Strings with an escaped quote, words that touch strings, an open
  string or escape at the end, and paths with separators before, between and behind
  their pieces all fit in five characters. So do paths one character longer than
  `filename_max`, which is 4 here and 40 in the code.

**Fairness.** `KeyQueue`: `WF(GetKey)`, because the thread runs whenever no
handler does and handlers end; `WF(Press)`, an assumption about the user: a key
is pressed again some day. Without it a key that arrives between `is_empty`
(`keyboard.cpp:63`) and `wait_for_key = true` (`:64`) leaves the reader waiting
although a key is there; `WaitEnds` shows that the next key cures it.
`Interrupts`: `WF(Handle)`, the CPU executes the handler it is in; `SF(Accept)`, a
request that is offered again and again while the flag is set is taken: the
CPU tests for interrupts after every instruction. `Served` asks it only if lines
of higher priority keep falling silent with interrupts on: the PIC's priorities
are fixed, and a guard may be held for ever. `Keyboard`: `WF(Send)`,
`WF(Interrupt)`, `WF(GetRest)`: the controller sends the bytes it has and the
CPU runs the handler; nothing is assumed of the user or the thread. `IoApic`:
`WF(Tick)`, the timer runs; `SF(Accept)`, `WF(handle_irq)`, `WF(Return)` as in
Interrupts; `SF(Boot)` and `SF(EndDump)`, for the thread runs between two
interrupts however often they come. No other module states fairness or has a
liveness property.

`CHECK_DEADLOCK FALSE` is said where the machine may stop: `virt_mem` and `heap`
(aborts, out of memory), `file_store` (aborts, the spin), `io_apic` (boot gives
up) and `command_line` (the empty path). `Interrupts`, `KeyQueue`, `Keyboard`,
`HashTable`, `Console` and `TEdit` are checked for deadlock.

## 4 Proofs

TLAPS proves these for every value of the constants, from the assumptions the
modules name (`ChunkAssumption`, `DirAssumption`, `AbsentAssumption`,
`MemAssumption`, `FirmwareAssumption`, `HeapAssumption`, `TableAssumption`,
`FileAssumption`, `ClosedIsNoHandle`, `QueueAssumption`, `KeyboardAssumption`,
`LinesAssumption`, `IoApicAssumption`, `LineEditAssumption`, `ScreenAssumption`,
`ConsoleAssumption`, `CommandLineAssumption`, `BytesAssumption`, `AllocAssumption`,
`TEditAssumption`), and from these, which are about the machine
or its users and are hypotheses of the theorems that need them:

| Hypothesis | Says | Where it fails |
|---|---|---|
| `ReservedStaysReserved`, `NothingFreedAbove` | boot frees neither page 0, nor a page the firmware uses, nor one above the last region | `x86_init` frees one page past each region, and rounds short ones (`OnlyAvailableFreed`, `PageCountAsserted`) |
| `AtMostTwo`, or `NoThreeCollide` | no bucket gets a third entry, or: no three keys share one | `Vector::erase` (`FindReturnsLive`) |
| `NoGuards` | no handler, and nothing before `IDT::init`, uses guards: the code today | `GuardRestoresFlag` |
| `CodesKnown` | the table knows each code of the keyboard, and none has a known beginning | page down, fake Shifts (`DecodesWhatWasTyped`) |
| `TablesSound` | GSIs of 8 bits, I/O APICs apart, timer and keyboard on different pins, the timer not on pin 1 | a timer on pin 1 (`RightHandler`) |
| `Careful` | Backspace is pressed only right of a character, and Enter in `k_gets` only at the line's end | `PtrInRange`, `HandsOverText` |
| `TextOnly` | what is typed, and the mark, are not control characters; commands print characters, blanks and line feeds | a tab that is typed (`LineShown`) |
| `TextFiles` | files are made of characters, blanks, tabs and line feeds | other bytes, which the loader drops |
| `NarrowFiles`, `Wide = FALSE` | no line that is typed or made of others, or loaded from a file without a tab, reaches the screen's last column | a longer one: the window does not scroll sideways (section 5, at the end) |

The last column names entries of section 5. That the hypotheses hold for something is
evaluated by TLC for the constants of the runs: the memory maps (`MapsAreSound`), the codes
(`Set1IsKnown`), the MADTs (`SomeAreSound`) and the files (`FilesAreText`); the hash function, the guards, the
careful user and the texts of the runs are such by their `.cfg`.

`X86_proofs`, part on VirtMem:

- `TypeCorrect`: `Spec => []TypeOK`, by one step per action.
- `NoSharedMemory`: `[](MappedNotFree /\ NoAliasing)`; `FreeIsExact`:
  `FreeReturnsFrames`; `Implements`: `OwnershipSpec`; `FreeNeverAborts`: no
  block a client holds makes a free stop the kernel.
- `CountersAreExact`: `CountersExact`; `ScansFindFirstFit`: `ScansAreFirstFit`.
- `ScansInLockStep`: `LockStep`; `NeverAbortsInternally`: `NoInternalAbort`.

All but the first assume `ReservedStaysReserved`, the last two also `NothingFreedAbove`.

The argument: `NoAliasing` is not inductive. Mapping a free frame keeps it only if free
frames are unmapped (`MappedNotFree`); unmapping a block keeps `MappedNotFree` only
if the block's pages are the only ones that map its frames, and if free's walk
over "n frames from the first" is a walk over those frames (`HeldContiguous`).
One block's free must not touch another's pages (`HeldDisjoint`). A firmware
map `p -> p` is safe only when no other page maps `p`, so reserved frames are never
free, are mapped to themselves or not at all (`ReservedIdentity`), and no block has them (`HeldNotReserved`).
Before paging nothing is mapped (`NothingBeforePaging`). The conjunction is `SafeInv`.
Up to here the prover uses nothing of the scans but that the pages they return pass the
tests the code makes: safety does not rest on first fit.

The two scans are recursive functions from a page, and what they return is shown by
induction on the pages that are left: the least page where the statement failed
would have the statement true behind it (`NatLessThanWellFounded`, `WFMin`). They may skip a word or
a table because an empty one has no room, which is where the counters must be exact, and
those are exact because a run changes in each table just the entries it newly maps. Lock step
follows: if bitmap and tables agree on every page of the RAM, both scans find the
same run, it is mapped onto itself, and they agree again (`LockInv`).

`Heap_proofs`, for every page size, number of pages and set of sizes:

- `LayoutHolds`: `Layout`; `UsageHolds`: `UsageExact`; `ClientsHold`:
  `ClientsOwnTheirBlocks`; all follow from `HeapInvariant`: `[]HeapInv`.
- `GrowthIsNeeded`: `GrowsOnlyWhenFull`.

`HeapInv` describes a heap in order: in a major the minors lie in their order and
leave room for what was asked, its usage is the sum of what they take (`Major`);
the majors' pages are apart and the rest is in the pool (`Chain`); the best bet is
in the chain, and no major is empty (`Filled`). The clients' blocks are exactly
the minors, so no two minors have the same address. Each of the five ways
to place a block (the front, between two minors, the tail, an empty or a new major)
is one insertion into a sequence at a gap, and `free` one removal; the sums follow from
lemmas about running sums, which are proved by induction on the length.

`Lookup_proofs`, part on HashTable, for every set of keys and every hash function:

- `OwnershipHolds`: `OwnedOnce` as long as `AtMostTwo`; `OwnershipOfPairs`: the same from
  `NoThreeCollide`, a fact about the hash function alone.
- `IsDictionary`: `DictionarySpec` as long as `AtMostTwo`.

The proofs characterise `SetValue` and `EraseKey` by what a lookup finds afterwards;
`Owned`, the invariant, and the refinement are about lookups only.

`Lookup_proofs`, part on CommandLine, for every set of lines and commands, every meaning
of the escapes and every path:

- `ParsesWords`: `WordsParsed`. The invariant `CmdInv` says what the characters read so
  far are: there are cuts such that all tokens but the last are done and the arguments are
  theirs, and the last one is done too (`Between`), a word (`InWord`) or a string that is
  open (`InText`), whose value so far is in `str`. Each of the eight branches of the loop
  is then one fact about adding a character to the tokens. Where an odd number of
  backslashes ends is what `reading_escape` holds. `NameInv` has the first argument:
  while the name is read it is a word from the beginning of the line.
- `OpensOnePiece`: `OnePieceOpens`, for every limit on the length of a name. The fold of `explode` is unfolded into the states
  its characters lead through (`ScanRuns`), and by induction on the characters
  (`ScanInv`) there is one piece for each run between separators that has ended, and
  `start` is where the run in progress begins.

`FileStore_proofs`, for every number of names, files, streams and bytes:

- `LocksHold`: `LockedWhileOpen`, with the strengthening that no file has two names (`OneName`).
- `EofMeansEnd`: `EofAtEnd`; `AppendsKeep`: `AppendKeeps`. Both need that two
  streams never have the same file, which is `LockedWhileOpen`.
- `KeepsPromise`: `FileAccessSpec`, one abstract action for each class of `stdio` calls.

`Handlers_proofs`, part on KeyQueue:

- `QueueCounts`: `[](QueueTypeOK /\ KeysConserved /\ NeverPopsEmpty)`. The
  strengthening is `KeyInside`: at every place between the empty test and the decrement
  size is positive, since only the reader lowers it.
- `KeysInOrder`: `InOrderUnlessClobbered`. Until a push is clobbered, slot
  `(front + i) % N` holds the i-th owed key (`Content`), where front is `ol`
  while pop is half way, and `location` is where pop's progress puts it
  (`Place`). The queue's wrap needs the lemma `AfterMod`.

`Keyboard_proofs`, for every keyboard with `CodesKnown` and every size of the queue:

- `DecodesTyped`: `DecodesWhatWasTyped`. The bytes that are on their way, read, in
  the port or in the controller, are the codes of the events not yet decoded, one
  behind the other; what the handler has read is a proper beginning of the first (`Framed`).
  So a byte more completes just that code, or nothing.
- `ModifiersHold`: `ModifiersFollow`. Each modifier will be where the user has it
  after the events on their way (`ModifiersCome`).
- `ReadsAsTyped`: `ReadAsTyped`. An event was typed with the Shift that the events
  before it make (`ShiftComes`), and what is fresh in the queue with the driver's (`FreshShift`).

`Handlers_proofs`, part on Interrupts, all assuming `NoGuards`:

- `GuardsExclude`: `[](TypeOK /\ GuardExcludes /\ GuardReopens)`, for every
  nesting of guards; `GuardsReopen`: its last part.
- `HandledAlone`: `[](AlwaysHandled /\ NoNesting /\ InServiceWhileHandled)`.

A guard's test, cli or sti, and count are separate steps, so the flag cannot be
read off the counter. The invariant says instead that the counter is the
thread's nesting depth, that each place inside a guard is reached with the
counter its test saw (`CountIsDepth`), and that the flag is a function of the place and
the depth (`FlagFollows`, `Off`): after cli but before the count it is off
with depth 0, after sti on with depth 1. An interrupt thus finds the thread
outside a guard or at a place where the count does not matter, and its handler
runs with the flag off (`OneHandler`). With one handler at a time, the line in
service is the handler's (`LinesHandled`), which is why a spurious interrupt's end of interrupt
finds nothing to end.

`X86_proofs`, part on IoApic, for every MADT with `TablesSound`, whatever I/O APICs and overrides it has
and in whatever order:

- `RightHandlers`: `RightHandler`. A pin's vector is the one of the reset or its
  device's (`PinsServed`): that is why kbdump, which registers at what pin 1 raises,
  never gets the timer's vector (`DumpElsewhere`). While the timer's init runs all pins are masked
  (`DriverAt`), and whatever is requested or handled has a callback (`VectorsKnown`).

`Console_proofs`, for every length of the line and size of the screen, all assuming `Careful`,
the last two also `TextOnly`:

- `EditsLine`, `KeepsLine`: `LineSpec`, of the editors alone and with the screen between
  them and the user. The buffer holds a string, and its halves around the cursor are
  Line's text before and after it (`BufInv`).
- `ShowsLine`: `LineShown`. The screen is what it was when the line was begun, with
  the prompt and the line drawn over it (`DrawInv`); that this is also what is there after a
  deletion needs that everything from the cursor on was blank then (`Fresh`), which
  clearing, printing and scrolling keep.
- `ShowsTranscript`: `TranscriptShown`. What is visible when a line is begun is the end
  of what was written (`SaidInv`): a character adds to both or, as a blank or line
  feed, to none, and a scroll takes away from the front of what is visible only.

`write_s` and `Visible` are folds; both are unfolded, by induction on the length, into the
sequence of values they go through (`Run`, `Seen`).

`TEdit_proofs`, for every size of the screen and of the first buffer, every set of files
with `TextFiles` and every sequence of keys, through any number of sessions:

- `ShowsText`: `ScreenShowsText`, with `NarrowFiles` and `Wide = FALSE`. Sessions whose
  files have tabs come between; of them it says nothing.
- `SavesText`: `SavesTextUnlessJoined`, without them.
- `EditsDocument`: `DocumentSpec`, without them.

At the bottom is what a buffer of bytes holds: each of `insert`, `erase`, `split` and `append` is
characterised by the characters before and after a place, the terminator left aside, and
then by whether it leaves one. `Sound` says that the cursor is in the text and in the
window, and holds whatever the keys are; with it go the height of the window and, until a
join, a terminator on every line (`EdInv`). That is all that saving and the document need: the
text before the cursor is the lines above and a part of its line, and a join or a split
is a line feed that moves between the two (`WholeText`). What the screen shows is the
second invariant (`ViewInv`). It is not inductive for what the property says alone: keys in
the menu draw over the last row, so the text is there but for that row
(`Uncovered`); and a key that redraws one line keeps the others only if they were right.
It is stated for a session without a tab (`Showing`), whose lines have none and fit the
screen (`Slim`): drawing such a line always ends, within its row. Of any other
session nothing is kept about the screen, and nothing is needed: the next one clears it.

Only model-checked is liveness (`WaitEnds`, `Served`, `Decoded`, `QuitEndsDump`), which is out of
the prover's reach. Every other property of a run is proved. Proved rather than run
are `MappedNotFree`, `HeldContiguous`, `AlwaysHandled`, `NoNesting`,
`NeverPopsEmpty`, `HeapInv` and the type invariants of Interrupts and KeyQueue.

## 5 Where code and comments disagree

Kept as a violation run:

| Run | Statement | What happens |
|---|---|---|
| `key_fifo` | `lfq.h:11` "fixed size lock-free queue" | `pop` advances `location`, then lowers `size`, then reads: a push in between computes a wrong slot or overwrites the one being read |

These are also stated in the modules and refuted by TLC, but have no run of
their own. To see one, put the property in a cfg with the constants shown.

| Property | Module, constants | What happens |
|---|---|---|
| `PageCountAsserted` | MCVirtMem, `MemoryMaps <- SmallRegion` | `x86_mem.cpp:360`'s assertion fails: a region smaller than a bitmap word is rounded to pages outside it |
| `OnlyAvailableFreed` | MCVirtMem, `MemoryMaps <- OneRegion` | `x86_mem.cpp:345-350` takes the exclusive end as the last page and frees it |
| `ReturnsZeroOnFail` | MCVirtMem | `x86_mem.h:26` "return 0 on fail": when the last tables are full the scan leaves the address space |
| `GuardRestoresFlag` | Interrupts, `HandlerGuards = TRUE` | `x86_idt.h:76-77` "safe to call if ...": a guard in a handler sets the flag and lets handlers nest |
| `FindReturnsLive` | MCHashTable, `BucketOf <- ThreeCollide` | `hash_table.h:100` "if found return pointer, else null": `Vector::erase` moves as many elements as it erased, not as many as follow, so `unset` leaves a stale entry. `k_hash_s` skips the first character, so all one-character names share a bucket |
| `FgetcStopsAtEnd` | FileStore | `tedit_main.cpp:27` loops until EOF: `getc` lets offset = size through, a byte behind the data, or a page fault on an empty file |
| `PtrInRange` | MCConsole, `Careful = FALSE` | `kshell.cpp:314` "0-77": Backspace at column 0 of a non-empty line writes in front of the buffer and wraps the cursor |
| `LineShown` | MCConsole, `Chars = {a, Tab}` | `kshell.cpp:355` takes a typed tab, which the cursor counts as one character; `write_s` (`x86_screen.cpp:544`) moves to the next stop |
| `AlwaysShowsText` | MCTEdit | `TextEngine.cpp:51-69` counts a column for each character, `write_sn` (`x86_screen.cpp:544`) draws each of a loaded tab's bytes up to the next stop: text and cursor are elsewhere than the window shows |
| `Terminated` | MCTEdit | `TextLine.h:32` "size excluding null terminator": `append` makes no room for a terminator and writes none, so saving a joined line runs on behind it |
| `LoadsWhatWasSaved` | MCTEdit, a Tab in `Files` | loading puts a tab where typing puts blanks, up to the next stop, and saving keeps all of them |
| `MenuOpensAtTop` | MCTEdit | `MenuEngine.cpp:58` "S - Save, Q - Quit, F - Fullscreen": after quitting, the next session's menu opens in the old question |
| `AlwaysReadAsTyped` | MCKeyboard | `keyboard.cpp:82` Shift is applied when a key is read, not when it was typed |
| `DecodesWhatWasTyped` | MCKeyboard, `Keys = {"UP", "PGDOWN"}`; or `Bytes <- FakeShifts` | `layout.cpp` gives page down the keycode of the arrow; a code with a fake Shift in front is lost |
| `AlwaysQuits` | MCIoApic | `keyboard.cpp:268` kbdump asks for the mapping of source 1, not of what it resolves to |
| `Served` | MCIoApic, `LapicId = 1` | `apic.cpp:571` the 8-bit destination is assigned the whole register, so it is 0 |
| `Served` | MCIoApic, `QuietBoot = FALSE` | `keyboard.cpp:211` the edge of a key pressed before `irq_enable` is lost, and the port stays full |
| `Served` | MCIoApic, `Madts <- LowKeyboard` | `apic.cpp:565` the remap drops an override's polarity |
| `RightHandler` | MCIoApic, `Madts <- Swapped` | kbdump replaces the timer's callback |
| `NameIsPiece` | MCCommandLine | `string.cpp:191` `substr` copies from the beginning: "/a" and "/b" both name the file "/" |
| `NothingDropped` | MCCommandLine | `kshell.cpp:191` the text behind a quote that is not closed is dropped |
| `ZeroMeansDone` | FileStore | `remove` and `rename` return `true` for success; Lua's `os.remove` takes 0 for it |
| `BetHasMostRoom` | Heap | `liballoc.c:83` "the major with the most free memory": it is only a hint |
| `HandsOverText` | LineEdit, `Careful = FALSE` | Enter in `k_gets` with the cursor inside the line doubles a character; only a full line gets its newline |

Other observations made while reading, none with a property: `fgets` neither stops at a newline nor terminates
its buffer; `fread` never sets EOF exactly at the end; byte 255 reads as EOF
because `char` is signed; `ungetc` of another character aborts; a second open,
remove or rename of an open file spins (single thread); `disable_irq_handler`
(`idt.cpp:374`) asserts the inverse of what it needs; `PIC::unmask` never
unmasks the cascade; `LAPIC_DFR` is written in x2APIC mode (`apic.cpp:305`); a
pin that no I/O APIC has gets its handler registered at the vector with the pin's number
before the abort: an exception's, or the timer's for a keyboard on pin 32; a tab that ends past the last row hangs `write_s` and `write_sn`, so a file with one
in the last row shown hangs the editor; `write_c`
at the last cell never scrolls; `vsnprintf` with a limit drops the last
character (`printf.cpp:26,66`, `x86_screen.cpp:222`); `tolower` and `toupper` are
swapped (`stringlib.c:8-14`); `strnlen(s, 0)` is the length of s; `k_gets` takes lines of 78 less
the column its prompt ends at (`klib.cpp:124`), and the run has the shell's prompt only;
the editor does not scroll sideways, and Left or Backspace at the first row shown does not scroll up; `tedit`'s early
return leaks; the empty path wraps `size()-1`; `set_phys_free` may write past the bitmap for
a small aligned region above 2 GiB; a region that ends at 4 GiB wraps; an
allocation of the page `last_usable` itself aborts.

## 6 Not modelled

`PROJECT.json` "components" gives the reason for each. In short: register setup and
printing (descriptors, CPUID, serial, the commands that print tables),
vendored code (Lua, musl's math; LAI is an empty submodule), code nothing uses
(AVL tree, tasking), and pure conversions (`vsnprintf`, `stringlib`). Lua and the
math library are seven tenths of the source. Inside modelled components: folders (nothing creates one),
`map_null`'s users, liballoc's checks of bad pointers and its counters of
warnings, requests that wrap 2^32, the exception screens, PIT's divisor, colours
and the other ANSI codes, x2APIC mode, the search for the RSDP, the file name typed
into the editor's menu.

The abstractions a reader should know: malloc and the file calls are atomic (one
thread, and no handler calls them); a lock is modelled only where it can be held
across calls; a data race is modelled access by access (`KeyQueue`, the guards)
on one in-order CPU, which is what the build targets.

## 7 Plan

Order of the whole project; done is what is above.

1. *Done*: memory, key queue, interrupts, heap, hash table, files, line
   editors and console, text screen, text editor, command line, keyboard, I/O APIC;
   proofs for all of them.
2. Model next, where it is worth a run: folders, were something to create them; KeyQueue's steps under
   Keyboard's handler in one module.
3. Prove next: that KeyQueue's queue implements the one whose push and pop are atomic
   in Keyboard.
