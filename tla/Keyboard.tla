------------------------------ MODULE Keyboard ------------------------------
(***************************************************************************)
(* The PS/2 keyboard driver (ps2/keyboard.cpp): bytes from the controller, *)
(* one at a time and each with an interrupt; kbint, which may wait inside  *)
(* the interrupt for the rest of a code of several bytes; the state of the *)
(* modifier keys; and k_getch and k_getch_extended, which read the queue   *)
(* and apply Shift.                                                        *)
(*                                                                         *)
(* Push and pop are atomic here; KeyQueue has the steps inside them.       *)
(***************************************************************************)
EXTENDS Layout, SequencesExt

CONSTANTS
  Keys,               \* the keys of the keyboard
  Bytes(_, _),        \* external: what it sends for a key, pressed or released
  TapKeys,            \* keys that send nothing when released
  N,                  \* capacity of the queue (20)
  MaxTyped            \* bound: events on their way

ASSUME KeyboardAssumption == N \in Nat \ {0} /\ MaxTyped \in Nat /\ TapKeys \subseteq Keys

VARIABLES
  wire,               \* bytes the keyboard has still to send
  port,               \* the controller's data, or Empty (status bit 0 is clear)
  irq,                \* IRQ 1 is requested
  read,               \* bytes that get_keycode has read, <<>> outside kbint
  down,               \* the six flags left_shift_down ...
  queue,
  dumping, kbdump_continue,   \* the thread is in cmd_kbdump
  code,               \* what the handler decoded in this step, or Nothing
  ch,                 \* what k_getch returned in this step
  held,               \* the keys the user holds
  typed               \* history: events not yet decoded

vars == <<wire, port, irq, read, down, queue, dumping, kbdump_continue,
          code, ch, held, typed>>

Nothing == [key |-> "", up |-> FALSE]
Empty == 0

has_scancode == port # Empty

Init ==
  /\ wire = <<>> /\ port = Empty /\ irq = FALSE
  /\ read = <<>> /\ down = {} /\ queue = <<>>
  /\ dumping = FALSE /\ kbdump_continue = FALSE
  /\ code = Nothing /\ ch = Nothing
  /\ held = {} /\ typed = <<>>

Quiet == code' = Nothing /\ ch' = Nothing

-----------------------------------------------------------------------------
(* The user and the controller.                                            *)

Event(k, up) ==
  /\ Len(typed) < MaxTyped
  /\ wire' = wire \o Bytes(k, up)
  /\ typed' = Append(typed, [key |-> k, up |-> up, shift |-> held \cap ShiftMods # {}])
  /\ Quiet
  /\ UNCHANGED <<port, irq, read, down, queue, dumping, kbdump_continue>>

Press(k) ==
  /\ k \notin held
  /\ held' = IF k \in TapKeys THEN held ELSE held \cup {k}
  /\ Event(k, FALSE)

Release(k) == k \in held /\ held' = held \ {k} /\ Event(k, TRUE)

Send ==
  /\ ~has_scancode /\ wire # <<>>
  /\ port' = Head(wire) /\ wire' = Tail(wire)
  /\ irq' = TRUE
  /\ Quiet
  /\ UNCHANGED <<read, down, queue, dumping, kbdump_continue, held, typed>>

-----------------------------------------------------------------------------
(* get_keycode.                                                            *)

LongCodes ==
  <<224, 42, 224, 55>> :> Pressed("PRINTSCR")
  @@ <<224, 183, 224, 170>> :> Released("PRINTSCR")
  @@ <<225, 29, 69, 225, 157, 197>> :> Pressed("PAUSE")

\* The keycode of the bytes read, or Nothing: it waits for another byte.  The first
\* byte that does not fit ends the code.
Decode(s) ==
  IF \E l \in DOMAIN LongCodes : IsStrictPrefix(s, l) THEN Nothing
  ELSE IF s \in DOMAIN LongCodes THEN LongCodes[s]
  ELSE IF Len(s) = 1 THEN keycodes(s[1])
  ELSE IF Len(s) = 2 /\ s[1] = 224 THEN keycodes_extra1(s[2])
  ELSE KEY_INVALID

update_state(c) ==
  IF c.key \notin Modifiers THEN down
  ELSE IF c.up THEN down \ {c.key} ELSE down \cup {c.key}

-----------------------------------------------------------------------------
(* The rest of kbint, or of kbint_dump.                                    *)

Room == Len(queue) < N

\* History: what is queued was typed under a Shift that has changed since.
Older(c) == IF c.key \in ShiftMods
            THEN [i \in DOMAIN queue |-> [queue[i] EXCEPT !.fresh = FALSE]] ELSE queue

Entry(c) ==
  [key |-> c.key, up |-> c.up, fresh |-> TRUE, shift |-> typed # <<>> /\ typed[1].shift]

\* kbint_dump: Ctrl and C.
QuitsDump(c) == dumping /\ c = Pressed("C") /\ down' \cap ControlMods # {}

\* fault: a key for which there is no room is forgotten altogether
HandleIfRoom(c) ==
  /\ code' = c /\ ch' = Nothing
  /\ read' = <<>>
  /\ down' = IF Room \/ dumping THEN update_state(c) ELSE down
  /\ queue' = IF dumping \/ ~Room THEN Older(c) ELSE Append(Older(c), Entry(c))
  /\ kbdump_continue' = (kbdump_continue /\ ~QuitsDump(c))
  /\ typed' = SubSeq(typed, 2, Len(typed))

Handle(c) ==
  /\ code' = c /\ ch' = Nothing
  /\ read' = <<>>
  /\ down' = update_state(c)
  /\ queue' = IF dumping \/ ~Room THEN Older(c) ELSE Append(Older(c), Entry(c))
  /\ kbdump_continue' = (kbdump_continue /\ ~QuitsDump(c))
  /\ typed' = SubSeq(typed, 2, Len(typed))

\* inb(0x60), with which a code is complete or not.
GetByte ==
  LET s == Append(read, port)
  IN  /\ port' = Empty
      /\ IF Decode(s) = Nothing
         THEN /\ read' = s /\ Quiet
              /\ UNCHANGED <<down, queue, kbdump_continue, typed>>
         ELSE Handle(Decode(s))
      /\ UNCHANGED <<wire, dumping, held>>

\* fault: has_scancode is not asked, and the last byte is read again
InterruptAlways ==
  /\ read = <<>> /\ irq /\ irq' = FALSE
  /\ IF has_scancode THEN GetByte
     ELSE Handle(Released("PRINTSCR")) /\ UNCHANGED <<wire, port, dumping, held>>

\* fault: with no room for a key its byte is left in the port
InterruptIfRoom ==
  /\ read = <<>> /\ irq
  /\ IF has_scancode /\ Room THEN irq' = FALSE /\ GetByte
     ELSE Quiet /\ UNCHANGED <<wire, port, irq, read, down, queue, dumping,
                               kbdump_continue, held, typed>>

\* The interrupt.  The bytes that get_keycode waits for have asked for one too;
\* has_scancode finds their port empty.
Interrupt ==
  /\ read = <<>> /\ irq /\ irq' = FALSE
  /\ IF has_scancode THEN GetByte
     ELSE Quiet /\ UNCHANGED <<wire, port, read, down, queue, dumping,
                               kbdump_continue, held, typed>>

\* get_scancode_wait, with interrupts off.
GetRest == read # <<>> /\ has_scancode /\ GetByte /\ UNCHANGED irq

-----------------------------------------------------------------------------
(* The thread, when no interrupt is handled.                               *)

\* fault: only the left Shift counts
ConvertLeft(k) == [key |-> k, up |-> k \in ShiftKeys /\ "LEFT_SHIFT" \in down]

\* A character is [key, up]: up is upper case.
convert_ascii(k) == [key |-> k, up |-> k \in ShiftKeys /\ down \cap ShiftMods # {}]

FirstKey == [key |-> Head(queue).key, up |-> Head(queue).up]

\* getKey and what its caller returns for the keycode; Nothing: it asks for another.
GetKey(returned) ==
  /\ read = <<>> /\ ~dumping /\ queue # <<>>
  /\ queue' = Tail(queue)
  /\ ch' = returned
  /\ code' = Nothing
  /\ UNCHANGED <<wire, port, irq, read, down, dumping, kbdump_continue, held, typed>>

Ascii(c) == IF c.key \in AsciiKeys /\ ~c.up THEN convert_ascii(c.key) ELSE Nothing

Extended(c) ==
  IF ~c.up /\ c.key \in {"UP", "DOWN", "LEFT", "RIGHT"} \cup (Modifiers \ ShiftMods)
  THEN c ELSE Ascii(c)

k_getch == GetKey(Ascii(FirstKey))
k_getch_extended == GetKey(Extended(FirstKey))

StartDump ==
  /\ read = <<>> /\ ~dumping
  /\ dumping' = TRUE /\ kbdump_continue' = TRUE
  /\ Quiet
  /\ UNCHANGED <<wire, port, irq, read, down, queue, held, typed>>

EndDump ==
  /\ read = <<>> /\ dumping /\ ~kbdump_continue
  /\ dumping' = FALSE
  /\ Quiet
  /\ UNCHANGED <<wire, port, irq, read, down, queue, kbdump_continue, held, typed>>

-----------------------------------------------------------------------------
User == \E k \in Keys : Press(k) \/ Release(k)
Handler == Interrupt \/ GetRest
Thread == k_getch \/ k_getch_extended \/ StartDump \/ EndDump

Next == User \/ Send \/ Handler \/ Thread

Spec == Init /\ [][Next]_vars

\* The controller sends what it has; the CPU takes the interrupt and runs the handler.
FairSpec == Spec /\ WF_vars(Send) /\ WF_vars(Interrupt) /\ WF_vars(GetRest)

-----------------------------------------------------------------------------
(* What is assumed of the keyboard.                                        *)

Byte == 1 .. 255

\* Bytes are the codes the driver knows: it takes them for the event, and none of their
\* beginnings for a code.  Scan code set 1 is so, but for page down, and for keyboards
\* that send a fake Shift before an arrow; modifiers are keys that are released.
CodesKnown ==
  /\ "" \notin Keys
  /\ TapKeys \cap Modifiers = {}
  /\ \A k \in Keys, up \in BOOLEAN : (up => k \notin TapKeys) =>
       /\ Bytes(k, up) \in Seq(Byte) \ {<<>>}
       /\ Decode(Bytes(k, up)) = [key |-> k, up |-> up]
       /\ \A n \in 1 .. Len(Bytes(k, up)) - 1 : Decode(SubSeq(Bytes(k, up), 1, n)) = Nothing

-----------------------------------------------------------------------------
(* Properties.                                                             *)

\* Every code the handler decodes is the next event of the keyboard, however the bytes
\* of several events, the waits inside the handler and the interrupts left over from
\* them interleave: none is invented, split, joined or doubled.
DecodesWhatWasTyped ==
  [][code' # Nothing =>
       /\ typed # <<>>
       /\ code' = [key |-> Head(typed).key, up |-> Head(typed).up]]_vars

\* The driver's modifiers are the user's when nothing is on its way, also after keys
\* were dropped by a full queue or shown by kbdump.
ModifiersFollow == typed = <<>> => down = held \cap Modifiers

\* k_getch returns the character that was typed, upper or lower case, unless a Shift
\* was pressed or released after it before it was read.
ReadAsTyped ==
  [][ch' # Nothing /\ Head(queue).fresh =>
       ch'.up = (ch'.key \in ShiftKeys /\ Head(queue).shift)]_vars

\* The same without the exception; refuted, because Shift is applied when a key is
\* read (keyboard.cpp:82).
AlwaysReadAsTyped ==
  [][ch' # Nothing => ch'.up = (ch'.key \in ShiftKeys /\ Head(queue).shift)]_vars

\* What is typed is decoded in the end: the handler is not left waiting for a byte.
Decoded == typed # <<>> \/ read # <<>> ~> code # Nothing
=============================================================================
