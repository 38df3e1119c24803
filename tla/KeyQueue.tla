------------------------------ MODULE KeyQueue ------------------------------
(***************************************************************************)
(* The PS/2 keyboard's key queue: include/util/lfq.h (a ring buffer with   *)
(* discard_if_full) shared by kbint, the interrupt handler that pushes,    *)
(* and getKey, which the one kernel thread calls to pop.                   *)
(*                                                                         *)
(* The handler runs with interrupts off, so kbint is one action; it may    *)
(* fall between any two accesses getKey makes to the shared words, so      *)
(* getKey is one action per access.  get_key_lock serialises the callers   *)
(* of getKey; with one thread it is never contended.                       *)
(***************************************************************************)
EXTENDS Integers, Sequences

CONSTANTS
  N,         \* capacity of the queue (20)
  Keys,      \* key codes
  Garbage    \* what a slot holds before its first push

ASSUME QueueAssumption == N \in Nat \ {0} /\ Garbage \notin Keys

VARIABLES
  location,      \* LFQ::location, the slot of the oldest key
  size,          \* LFQ::size
  data,          \* LFQ::data
  wait_for_key,
  pc,            \* where getKey is
  ol,            \* pop's local copy of location
  got,           \* the key getKey returned last
  owed,          \* history: accepted keys not yet returned, oldest first
  clobbered      \* history: a push fell where it does not belong

queue == <<location, size, data>>
queueVars == <<location, size, data, wait_for_key, pc, ol, got, owed, clobbered>>

Slots == 0 .. N - 1

QueueInit ==
  /\ location = 0 /\ size = 0 /\ data = [s \in Slots |-> Garbage]
  /\ wait_for_key = FALSE
  /\ pc = "idle" /\ ol = 0 /\ got = Garbage
  /\ owed = <<>> /\ clobbered = FALSE

-----------------------------------------------------------------------------
(* kbint: update_state, push, wake the waiting thread.                     *)

PushSlot == (location + size) % N

\* The slot of a push is wrong while pop has moved location on but not yet
\* shrunk size, and it is the one pop is about to read when the queue fills.
Misplaced == \/ pc \in {"wrap", "shrink"}
             \/ pc = "read" /\ PushSlot = ol

KbIntNoWake(k) ==                                     \* fault: wait_for_key kept
  /\ \/ /\ size < N
        /\ data' = [data EXCEPT ![PushSlot] = k]
        /\ size' = size + 1
        /\ owed' = Append(owed, k)
        /\ clobbered' = (clobbered \/ Misplaced)
     \/ size = N /\ UNCHANGED <<size, data, owed, clobbered>>
  /\ UNCHANGED <<location, wait_for_key, pc, ol, got>>

KbIntOverwrites(k) ==                                 \* fault: not discarded when full
  /\ data' = [data EXCEPT ![PushSlot] = k]
  /\ size' = IF size < N THEN size + 1 ELSE size
  /\ owed' = Append(owed, k)
  /\ clobbered' = (clobbered \/ Misplaced)
  /\ wait_for_key' = FALSE
  /\ UNCHANGED <<location, pc, ol, got>>

KbInt(k) ==
  /\ \/ /\ size < N
        /\ data' = [data EXCEPT ![PushSlot] = k]
        /\ size' = size + 1
        /\ owed' = Append(owed, k)
        /\ clobbered' = (clobbered \/ Misplaced)
     \/ size = N /\ UNCHANGED <<size, data, owed, clobbered>>
  /\ wait_for_key' = FALSE
  /\ UNCHANGED <<location, pc, ol, got>>

-----------------------------------------------------------------------------
(* getKey.                                                                 *)

At(here, there) == pc = here /\ pc' = there

IsEmpty ==
  /\ At("idle", IF size = 0 THEN "arm" ELSE "pop")
  /\ UNCHANGED <<queue, wait_for_key, ol, got, owed, clobbered>>

Arm ==
  /\ At("arm", "spin")
  /\ wait_for_key' = TRUE
  /\ UNCHANGED <<queue, ol, got, owed, clobbered>>

SpinNever ==                                          \* fault: does not wait
  /\ At("spin", "pop")
  /\ UNCHANGED <<queue, wait_for_key, ol, got, owed, clobbered>>

Spin ==
  /\ At("spin", "pop")
  /\ ~wait_for_key
  /\ UNCHANGED <<queue, wait_for_key, ol, got, owed, clobbered>>

\* pop: the empty test aborts the kernel
Pop ==
  /\ At("pop", IF size = 0 THEN "panic" ELSE "advance")
  /\ ol' = location
  /\ UNCHANGED <<queue, wait_for_key, got, owed, clobbered>>

AdvLocStays ==                                        \* fault: the slot is not left
  /\ At("advance", "wrap")
  /\ UNCHANGED <<queue, wait_for_key, ol, got, owed, clobbered>>

\* adv_loc: the increment, and the wrap-around as a second access
AdvLoc ==
  /\ At("advance", "wrap")
  /\ location' = location + 1
  /\ UNCHANGED <<size, data, wait_for_key, ol, got, owed, clobbered>>

WrapLocNever ==                                       \* fault: runs off the buffer
  /\ At("wrap", "shrink")
  /\ UNCHANGED <<queue, wait_for_key, ol, got, owed, clobbered>>

WrapLoc ==
  /\ At("wrap", "shrink")
  /\ location' = IF location = N THEN 0 ELSE location
  /\ UNCHANGED <<size, data, wait_for_key, ol, got, owed, clobbered>>

Shrink ==
  /\ At("shrink", "read")
  /\ size' = size - 1
  /\ UNCHANGED <<location, data, wait_for_key, ol, got, owed, clobbered>>

Read ==
  /\ At("read", "idle")
  /\ got' = data[ol]
  /\ owed' = Tail(owed)
  /\ UNCHANGED <<queue, wait_for_key, ol, clobbered>>

GetKey ==
  \/ IsEmpty \/ Arm \/ Spin \/ Pop \/ AdvLoc \/ WrapLoc \/ Shrink \/ Read

Press == \E k \in Keys : KbInt(k)

QueueNext == GetKey \/ Press

QueueSpec == QueueInit /\ [][QueueNext]_queueVars

\* The thread runs whenever no handler does; the user presses another key some day.
QueueFairSpec == QueueSpec /\ WF_queueVars(GetKey) /\ WF_queueVars(Press)

-----------------------------------------------------------------------------
(* Properties.                                                             *)

\* Type invariant; location is N only between adv_loc's two accesses.
QueueTypeOK ==
  /\ location \in 0 .. N /\ (location = N => pc = "wrap")
  /\ size \in 0 .. N
  /\ data \in [Slots -> Keys \cup {Garbage}]
  /\ wait_for_key \in BOOLEAN
  /\ pc \in {"idle", "arm", "spin", "pop", "advance", "wrap", "shrink", "read", "panic"}
  /\ ol \in Slots
  /\ got \in Keys \cup {Garbage}
  /\ owed \in Seq(Keys)
  /\ clobbered \in BOOLEAN

\* However the handler interleaves, getKey returns as many keys as the handler
\* accepted: no wake-up or counter update is lost or counted twice.
KeysConserved == Len(owed) = size + (IF pc = "read" THEN 1 ELSE 0)

\* The thread leaves its wait only with a key in the queue: pop's abort on an
\* empty queue (lfq.h:37) is not reached, not even when the wake-up came early.
NeverPopsEmpty == pc # "panic"

\* Unless some push fell into one of pop's windows, keys come back in the order
\* they were typed, each once, none made up.
InOrderUnlessClobbered ==
  [][pc = "read" /\ pc' = "idle" /\ ~clobbered => got' = Head(owed)]_queueVars

\* A thread that waits gets its key when the next one is typed, even if it missed
\* the wake-up of the one before (a key typed between is_empty and Arm).
WaitEnds == pc = "spin" ~> pc = "idle"

\* lfq.h:11 "fixed size lock-free queue": keys come back in the order they were
\* pushed, whatever the interleaving.
QueueIsFifo ==
  [][pc = "read" /\ pc' = "idle" => got' = Head(owed)]_queueVars
=============================================================================
