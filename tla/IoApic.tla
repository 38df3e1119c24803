------------------------------- MODULE IoApic -------------------------------
(***************************************************************************)
(* Interrupts through the I/O APIC: the MADT and its source overrides      *)
(* (acpi.cpp), APIC::init, remap, enable and the local APIC's end of       *)
(* interrupt (apic.cpp), the registrations of the timer and keyboard       *)
(* drivers, handle_irq with its table of callbacks, and cmd_kbdump, which  *)
(* replaces one of them.                                                   *)
(*                                                                         *)
(* External: the lines of the two devices, which the MADT describes; the   *)
(* pins, which in edge mode lose an edge while masked; and the local APIC. *)
(* A handler runs with interrupts off; Interrupts has those that turn them *)
(* on.  The CPU is in xAPIC mode: its ID is in bits 31..24 of LAPIC_ID.    *)
(***************************************************************************)
EXTENDS Integers, Sequences, SequencesExt

CONSTANTS
  Madts,        \* the tables: sequences of entries, each with its type
  LapicId,      \* the APIC ID of the CPU that boots
  QuietBoot     \* no key is pressed before the keyboard is enabled

ASSUME IoApicAssumption == LapicId \in 0 .. 127 /\ QuietBoot \in BOOLEAN

VARIABLES
  madt,
  pc,           \* the thread: boot, a driver's init, "run", "dump", "panic"
  driver,       \* whose init runs, or ran last
  redir,        \* the redirection tables, from <<I/O APIC, pin>>
  handlers,     \* idt_callback and the IDT above the exceptions
  irr, isr,     \* the local APIC's vectors
  cur, at,      \* the vector being handled, or Idle, and where
  line,         \* devices that assert theirs
  port,         \* the key in the controller, or NoKey
  dump_irq, kbdump_continue

lapic == <<irr, isr>>
handling == <<cur, at>>
devices == <<line, port>>
kbdump == <<dump_irq, kbdump_continue>>
apicVars == <<madt, pc, driver, redir, handlers, lapic, handling, devices, kbdump>>

Devices == {"timer", "keyboard"}
Source == [timer |-> 0, keyboard |-> 1]
Idle == 0
NoKey == "none"
Keys == {"quit", "other"}             \* quit: C with Ctrl down

MadtTypes == {"PROCESSOR", "IO_APIC", "ISO", "NMI", "LAPIC_64"}

ApicInit ==
  /\ madt \in Madts
  /\ pc = "madt" /\ driver = "timer"
  /\ redir = <<>> /\ handlers = <<>>
  /\ irr = {} /\ isr = {} /\ cur = Idle /\ at = "callback"
  /\ line = {} /\ port = NoKey
  /\ dump_irq = Idle /\ kbdump_continue = FALSE

-----------------------------------------------------------------------------
(* The MADT and the I/O APICs.                                             *)

\* A source's overrides in a table, and the global system interrupt by the first.
Of(t, source) == {i \in DOMAIN t : t[i].type = "ISO" /\ t[i].source = source}
Gsi(t, source) == IF Of(t, source) = {} THEN source ELSE t[Min(Of(t, source))].gsi

\* fault: the override is looked up by what it maps to
ResolveByGsi(irq) ==
  LET hits == {i \in DOMAIN madt : madt[i].type = "ISO" /\ madt[i].gsi = irq}
  IN  IF hits = {} THEN irq ELSE madt[Min(hits)].source

\* A uint8_t.
resolve_irq_source(irq) == Gsi(madt, irq) % 256

\* The I/O APICs are named by their entries.
IoApics(t) == {n \in DOMAIN t : t[n].type = "IO_APIC"}
gsi_base(n) == madt[n].base % 256
Covering(irq) ==
  {n \in IoApics(madt) : irq \in gsi_base(n) .. gsi_base(n) + madt[n].pins - 1}

has_redirection(irq) == Covering(irq) # {}
Slot(irq) == LET n == Min(Covering(irq)) IN <<n, irq - gsi_base(n)>>

\* What both init and remap write: active high, edge, masked.  The destination has 8
\* bits, and is assigned the whole register.
LAPIC_ID == LapicId * 2^24
Redirection(vector) ==
  [vector |-> vector % 256, low |-> FALSE, mask |-> TRUE, dest |-> LAPIC_ID % 256]

Slots == UNION {{n} \X (0 .. madt[n].pins - 1) : n \in IoApics(madt)}
ResetRedirections == [s \in Slots |-> Redirection(s[2] + gsi_base(s[1]) + 64)]

irq_get_mapping(irq) == IF has_redirection(irq) THEN redir[Slot(irq)].vector ELSE irq

-----------------------------------------------------------------------------
(* Boot, on the thread: no handler is running.                             *)

Thread(here, there) == pc = here /\ cur = Idle /\ pc' = there

\* MADT::init gives up at a type it does not know.
ReadMadt ==
  /\ Thread("madt", IF \A i \in DOMAIN madt : madt[i].type \in MadtTypes THEN "idt" ELSE "panic")
  /\ UNCHANGED <<madt, driver, redir, handlers, lapic, handling, devices, kbdump>>

\* IDT::init: APIC::init, the two spurious vectors, sti.
IDTInit ==
  /\ Thread("idt", "remap")
  /\ redir' = ResetRedirections
  /\ handlers' = [v \in {247, 255} |-> "spurious_irq"]
  /\ UNCHANGED <<madt, driver, lapic, handling, devices, kbdump>>

Vector == [timer |-> 32, keyboard |-> 33]
Callback == [timer |-> "pit_interrupt", keyboard |-> "kbint"]

src == resolve_irq_source(Source[driver])

Remap ==
  /\ Thread("remap", "handler")
  /\ redir' = IF has_redirection(src)
              THEN [redir EXCEPT ![Slot(src)] = Redirection(Vector[driver])]
              ELSE redir
  /\ UNCHANGED <<madt, driver, handlers, lapic, handling, devices, kbdump>>

RegisterHandler(vector, callback) ==
  handlers' = [v \in DOMAIN handlers \cup {vector} |-> IF v = vector THEN callback ELSE handlers[v]]

SetHandler ==
  /\ Thread("handler", "enable")
  /\ RegisterHandler(irq_get_mapping(src), Callback[driver])
  /\ UNCHANGED <<madt, driver, redir, lapic, handling, devices, kbdump>>

\* APIC::enable gives up when no I/O APIC has the pin.  The timer's init is followed
\* by the keyboard's.
Enable ==
  /\ Thread("enable", IF ~has_redirection(src) THEN "panic"
                      ELSE IF driver = "timer" THEN "remap" ELSE "run")
  /\ driver' = "keyboard"
  /\ redir' = IF has_redirection(src) THEN [redir EXCEPT ![Slot(src)].mask = FALSE] ELSE redir
  /\ UNCHANGED <<madt, handlers, lapic, handling, devices, kbdump>>

Boot == ReadMadt \/ IDTInit \/ Remap \/ SetHandler \/ Enable

-----------------------------------------------------------------------------
(* cmd_kbdump, which asks for the mapping of source 1.                     *)

\* fault: the source is taken for the vector
StartDumpSource ==
  /\ Thread("run", "dump")
  /\ kbdump_continue' = TRUE
  /\ dump_irq' = 1
  /\ RegisterHandler(1, "kbint_dump")
  /\ UNCHANGED <<madt, driver, redir, lapic, handling, devices>>

StartDump ==
  /\ Thread("run", "dump")
  /\ kbdump_continue' = TRUE
  /\ dump_irq' = irq_get_mapping(1)
  /\ RegisterHandler(dump_irq', "kbint_dump")
  /\ UNCHANGED <<madt, driver, redir, lapic, handling, devices>>

EndDump ==
  /\ ~kbdump_continue
  /\ Thread("dump", "run")
  /\ RegisterHandler(dump_irq, "kbint")
  /\ UNCHANGED <<madt, driver, redir, lapic, handling, devices, kbdump>>

-----------------------------------------------------------------------------
(* The devices and the pins.                                               *)

\* The pin a device is wired to, and whether it asserts it low.
Reach(t, n) == t[n].base .. t[n].base + t[n].pins - 1
ActiveLow(d) == Of(madt, Source[d]) # {} /\ madt[Min(Of(madt, Source[d]))].low
Wired(d) == \E n \in IoApics(madt) : Gsi(madt, Source[d]) \in Reach(madt, n)
Pin(d) == LET n == CHOOSE n \in IoApics(madt) : Gsi(madt, Source[d]) \in Reach(madt, n)
          IN  <<n, Gsi(madt, Source[d]) - madt[n].base>>

\* What a change of d's line, asserted or not, requests.
Requested(d, asserted) ==
  IF ~Wired(d) \/ redir = <<>> THEN {}
  ELSE LET r == redir[Pin(d)]
       IN  IF ~r.mask /\ r.dest = LapicId /\ (asserted = (r.low = ActiveLow(d)))
           THEN {r.vector} ELSE {}

Tick ==
  /\ pc # "panic"
  /\ line' = SymDiff(line, {"timer"})
  /\ irr' = irr \cup Requested("timer", "timer" \notin line)
  /\ UNCHANGED <<madt, pc, driver, redir, handlers, isr, handling, port, kbdump>>

Type(k) ==
  /\ port = NoKey /\ port' = k
  /\ pc # "panic" /\ (QuietBoot => pc \in {"run", "dump"})
  /\ line' = line \cup {"keyboard"}
  /\ irr' = irr \cup Requested("keyboard", TRUE)
  /\ UNCHANGED <<madt, pc, driver, redir, handlers, isr, handling, kbdump>>

-----------------------------------------------------------------------------
(* Interrupts.                                                             *)

Handler == cur # Idle /\ pc # "panic"
InterruptsOn == pc \notin {"madt", "idt", "panic"} /\ cur = Idle
Class(v) == v \div 16

Accept ==
  /\ InterruptsOn /\ irr # {}
  /\ LET v == Max(irr)
     IN  /\ \A w \in isr : Class(v) > Class(w)
         /\ cur' = v /\ irr' = irr \ {v} /\ isr' = isr \cup {v}
  /\ UNCHANGED <<madt, pc, driver, redir, handlers, at, devices, kbdump>>

\* The local APIC's spurious vector, for which nothing is in service.
Spurious ==
  /\ InterruptsOn /\ cur' = 255
  /\ UNCHANGED <<madt, pc, driver, redir, handlers, lapic, at, devices, kbdump>>

\* The callbacks that read the port.  kbint drops the key in its queue.
ReadPort ==
  /\ port' = NoKey /\ line' = line \ {"keyboard"}
  /\ irr' = irr \cup (IF "keyboard" \in line THEN Requested("keyboard", FALSE) ELSE {})
  /\ kbdump_continue' =
       (kbdump_continue /\ ~(handlers[cur] = "kbint_dump" /\ port = "quit"))

\* handle_irq: the callback, or the end of the system without one, ...
handle_irq ==
  /\ Handler /\ at = "callback" /\ at' = "eoi"
  /\ pc' = IF cur \in DOMAIN handlers THEN pc ELSE "panic"
  /\ IF cur \in DOMAIN handlers /\ handlers[cur] \in {"kbint", "kbint_dump"}
     THEN ReadPort ELSE UNCHANGED <<devices, irr, kbdump_continue>>
  /\ UNCHANGED <<madt, driver, redir, handlers, isr, cur, dump_irq>>

\* fault: vector 32 is taken for the PIC's, and the local APIC not told
ReturnPic ==
  /\ Handler /\ at = "eoi" /\ at' = "callback" /\ cur' = Idle
  /\ isr' = IF cur = 32 THEN isr ELSE isr \ {v \in isr : v = Max(isr)}
  /\ UNCHANGED <<madt, pc, driver, redir, handlers, irr, devices, kbdump>>

\* ... the end of interrupt, and the return.
Return ==
  /\ Handler /\ at = "eoi" /\ at' = "callback" /\ cur' = Idle
  /\ isr' = isr \ {v \in isr : v = Max(isr)}
  /\ UNCHANGED <<madt, pc, driver, redir, handlers, irr, devices, kbdump>>

-----------------------------------------------------------------------------
ApicNext ==
  \/ Boot \/ StartDump \/ EndDump
  \/ Tick \/ \E k \in Keys : Type(k)
  \/ Accept \/ Spurious \/ handle_irq \/ Return

\* The timer ticks; the CPU takes interrupts, runs their handlers, and between them
\* the thread, for interrupts are rarer than instructions.
Fairness ==
  /\ WF_apicVars(Tick) /\ SF_apicVars(Accept) /\ WF_apicVars(handle_irq) /\ WF_apicVars(Return)
  /\ SF_apicVars(Boot) /\ SF_apicVars(EndDump)

ApicSpec == ApicInit /\ [][ApicNext]_apicVars /\ Fairness

-----------------------------------------------------------------------------
(* What is assumed of the MADT.                                            *)

\* GSIs fit in the code's 8 bits; no two I/O APICs share one; the devices have different
\* GSIs, and the timer not the one that kbdump takes for the keyboard's; a keyboard on a
\* pin that no I/O APIC has is not registered at the timer's vector before boot gives up.
TablesSound ==
  \A t \in Madts :
    /\ DOMAIN t = 1 .. Len(t)
    /\ \A i \in DOMAIN t : t[i].type = "ISO" => t[i].gsi \in 0 .. 255
    /\ \A n \in IoApics(t) : t[n].base \in 0 .. 255 /\ t[n].pins \in Nat
    /\ \A m, n \in IoApics(t) : m # n => Reach(t, m) \cap Reach(t, n) = {}
    /\ Gsi(t, 0) \notin {1, Gsi(t, 1)}
    /\ Gsi(t, 1) = 32 => \E n \in IoApics(t) : 32 \in Reach(t, n)

-----------------------------------------------------------------------------
(* Properties.                                                             *)

\* Whatever the MADT's overrides and I/O APICs: a pin that is not masked has a device,
\* and its vector that device's callback; and the system gives up only at an entry it
\* does not know or a device no I/O APIC has, never at an interrupt without a handler.
RightHandler ==
  /\ \A s \in DOMAIN redir : ~redir[s].mask =>
       \E d \in Devices :
         /\ Wired(d) /\ s = Pin(d)
         /\ redir[s].vector \in DOMAIN handlers
         /\ handlers[redir[s].vector] \in
              {Callback[d]} \cup (IF d = "keyboard" THEN {"kbint_dump"} ELSE {})
  /\ pc = "panic" =>
       \/ \E i \in DOMAIN madt : madt[i].type \notin MadtTypes
       \/ \E d \in Devices : ~Wired(d)

\* A key that was pressed is read in the end, and while no key is the timer's callback
\* runs again and again.  Refuted for an override that is active low (remap,
\* apic.cpp:565), for a key pressed before irq_enable and for another LapicId than 0.
Served ==
  /\ port # NoKey ~> port = NoKey
  /\ []<>(\/ pc = "panic" \/ port # NoKey
          \/ /\ at = "eoi" /\ cur \in DOMAIN handlers
             /\ handlers[cur] = "pit_interrupt")

\* Ctrl+C ends kbdump, if source 1 has no override: kbdump asks for the mapping of the
\* source, not of what it resolves to (keyboard.cpp:268).
QuitEndsDump == Of(madt, 1) = {} /\ pc = "dump" /\ port = "quit" ~> pc # "dump"

\* The same without the exception; refuted.
AlwaysQuits == pc = "dump" /\ port = "quit" ~> pc # "dump"
=============================================================================
