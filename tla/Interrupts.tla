------------------------------ MODULE Interrupts ------------------------------
(***************************************************************************)
(* Interrupt delivery with the legacy PIC (src/arch/x86/interrupts): the   *)
(* boot and driver steps that open the lines, handle_irq with its EOI, and *)
(* the counting guards disable_interrupts / enable_interrupts.             *)
(*                                                                         *)
(* One CPU: the kernel thread, or the newest of the handlers on top of it, *)
(* executes.  Gates are interrupt gates, so delivery clears the interrupt  *)
(* flag and iret sets it again.  The guards' load, cli/sti and increment   *)
(* or decrement are separate steps an interrupt may separate.  The slave   *)
(* PIC is silent: nothing unmasks the cascade, line 2.                     *)
(***************************************************************************)
EXTENDS Integers, Sequences, FiniteSets

CONSTANTS
  Lines,           \* lines with a driver (0 the timer, 1 the keyboard)
  SpuriousLine,    \* the line of the PIC's spurious interrupts (7)
  MaxDepth,        \* bound: guards nested in one context
  MaxStack,        \* bound: handlers interrupting one another
  BootGuards,      \* code running before IDT::init uses guards
  HandlerGuards    \* handlers use guards

ASSUME LinesAssumption ==
  /\ Lines \subseteq 0 .. 7 /\ SpuriousLine \in (0 .. 7) \ Lines
  /\ MaxDepth \in Nat \ {0} /\ MaxStack \in Nat \ {0}
  /\ BootGuards \in BOOLEAN /\ HandlerGuards \in BOOLEAN

VARIABLES
  booted,         \* IDT::init is done
  iflag,          \* the CPU's interrupt flag
  int_en_count,
  imr, irr, isr,  \* the PIC's registers, as sets of lines
  handlers,       \* lines with an entry in idt_callback
  stack,          \* the contexts, the kernel thread's first
  panic           \* handle_irq found no handler

pic == <<imr, irr, isr>>
vars == <<booted, iflag, int_en_count, pic, handlers, stack, panic>>

AllLines == Lines \cup {SpuriousLine}
None == -1                            \* the kernel thread's line

Frame(line) == [line |-> line, at |-> IF line = None THEN "run" ELSE "callback", depth |-> 0]

Depth == Len(stack)
Top == stack[Depth]
Goto(here, there) == Top.at = here /\ stack' = [stack EXCEPT ![Depth].at = there]

Init ==
  /\ booted = FALSE /\ iflag = FALSE /\ int_en_count = 0
  /\ imr = AllLines /\ irr = {} /\ isr = {}
  /\ handlers = {} /\ stack = <<Frame(None)>> /\ panic = FALSE

-----------------------------------------------------------------------------
(* The kernel thread: IDT::init, and the drivers' init functions.          *)

InMain == Depth = 1 /\ Top.at = "run" /\ ~panic

\* PIC::reset masks every line; the spurious lines get a handler; sti.
IDTInit ==
  /\ InMain /\ Top.depth = 0 /\ ~booted
  /\ booted' = TRUE /\ iflag' = TRUE
  /\ imr' = AllLines /\ irr' = {} /\ isr' = {}
  /\ handlers' = handlers \cup {SpuriousLine}
  /\ UNCHANGED <<int_en_count, stack, panic>>

SetIrqHandler(l) ==
  /\ InMain /\ booted /\ l \notin handlers
  /\ handlers' = handlers \cup {l}
  /\ UNCHANGED <<booted, iflag, int_en_count, pic, stack, panic>>

IrqEnableEarly(l) ==                                  \* fault: enabled first
  /\ InMain /\ booted /\ l \in imr
  /\ imr' = imr \ {l}
  /\ UNCHANGED <<booted, iflag, int_en_count, irr, isr, handlers, stack, panic>>

\* The drivers call irq_enable after set_irq_handler (pit.cpp, keyboard.cpp).
IrqEnable(l) ==
  /\ InMain /\ booted /\ l \in handlers \cap imr
  /\ imr' = imr \ {l}
  /\ UNCHANGED <<booted, iflag, int_en_count, irr, isr, handlers, stack, panic>>

-----------------------------------------------------------------------------
(* Delivery.                                                               *)

Raise(l) ==
  /\ booted /\ l \notin irr
  /\ irr' = irr \cup {l}
  /\ UNCHANGED <<booted, iflag, int_en_count, imr, isr, handlers, stack, panic>>

\* The PIC offers line l: nothing of its priority or above is in service.
Offered(l) == l \in irr \ imr /\ \A k \in isr \cup (irr \ imr) : l <= k

DeliverTrap(l) ==                                     \* fault: a trap gate
  /\ iflag /\ ~panic /\ Depth <= MaxStack
  /\ stack' = Append(stack, Frame(l))
  /\ UNCHANGED <<booted, iflag, int_en_count, imr, handlers, panic>>

Deliver(l) ==
  /\ iflag /\ ~panic /\ Depth <= MaxStack
  /\ iflag' = FALSE
  /\ stack' = Append(stack, Frame(l))
  /\ UNCHANGED <<booted, int_en_count, imr, handlers, panic>>

Accept(l) ==
  /\ Offered(l) /\ l \notin isr
  /\ Deliver(l)
  /\ irr' = irr \ {l} /\ isr' = isr \cup {l}

\* A request the PIC offered and that is withdrawn before the CPU acknowledges it:
\* the vector of SpuriousLine, with nothing put in service.
Spurious ==
  /\ \E l \in Lines \ imr : \A k \in isr : l < k
  /\ Deliver(SpuriousLine)
  /\ UNCHANGED <<irr, isr>>

\* handle_irq: the callback, ...
Callback ==
  /\ ~panic /\ Top.depth = 0
  /\ Goto("callback", "eoi")
  /\ panic' = (Top.line \notin handlers)
  /\ UNCHANGED <<booted, iflag, int_en_count, pic, handlers>>

EoiNever ==                                           \* fault: taken for spurious
  /\ Goto("eoi", "iret")
  /\ UNCHANGED <<booted, iflag, int_en_count, pic, handlers, panic>>

\* ... PIC::eoi, which ends the highest line in service, if there is one, ...
Eoi ==
  /\ ~panic /\ Goto("eoi", "iret")
  /\ isr' = isr \ {l \in isr : \A k \in isr : l <= k}
  /\ UNCHANGED <<booted, iflag, int_en_count, imr, irr, handlers, panic>>

IretEarly ==                                          \* fault: not only from a handler
  /\ stack' = SubSeq(stack, 1, Depth - 1)
  /\ iflag' = TRUE
  /\ UNCHANGED <<booted, int_en_count, pic, handlers, panic>>

\* ... and the return.
Iret ==
  /\ Top.at = "iret"
  /\ stack' = SubSeq(stack, 1, Depth - 1)
  /\ iflag' = TRUE
  /\ UNCHANGED <<booted, int_en_count, pic, handlers, panic>>

-----------------------------------------------------------------------------
(* The guards, in whatever context is on top: at "run" or in a callback.   *)

Home == IF Depth = 1 THEN "run" ELSE "callback"

MayGuard == IF Depth = 1 THEN booted \/ BootGuards ELSE HandlerGuards

OnlyGuards == <<booted, pic, handlers, panic>>

\* disable_interrupts: if(int_en_count==0)cli; int_en_count++;
DisableTest ==
  /\ ~panic /\ MayGuard /\ Top.depth < MaxDepth
  /\ Goto(Home, IF int_en_count = 0 THEN "cli" ELSE "inc")
  /\ UNCHANGED <<OnlyGuards, iflag, int_en_count>>

DisableCli ==
  /\ Goto("cli", "inc")
  /\ iflag' = FALSE
  /\ UNCHANGED <<OnlyGuards, int_en_count>>

DisableInc ==
  /\ Top.at = "inc"
  /\ int_en_count' = int_en_count + 1
  /\ stack' = [stack EXCEPT ![Depth].at = Home, ![Depth].depth = @ + 1]
  /\ UNCHANGED <<OnlyGuards, iflag>>

\* enable_interrupts: if(int_en_count==1)sti; if(int_en_count>0)int_en_count--;
EnableTestAny ==                                      \* fault: sti in a nested guard
  /\ ~panic /\ Top.depth > 0
  /\ Goto(Home, IF int_en_count > 0 THEN "sti" ELSE "dec")
  /\ UNCHANGED <<OnlyGuards, iflag, int_en_count>>

EnableTest ==
  /\ ~panic /\ Top.depth > 0
  /\ Goto(Home, IF int_en_count = 1 THEN "sti" ELSE "dec")
  /\ UNCHANGED <<OnlyGuards, iflag, int_en_count>>

EnableSti ==
  /\ Goto("sti", "dec")
  /\ iflag' = TRUE
  /\ UNCHANGED <<OnlyGuards, int_en_count>>

EnableDecNever ==                                     \* fault: > 1 for > 0
  /\ Top.at = "dec"
  /\ int_en_count' = IF int_en_count > 1 THEN int_en_count - 1 ELSE int_en_count
  /\ stack' = [stack EXCEPT ![Depth].at = Home, ![Depth].depth = @ - 1]
  /\ UNCHANGED <<OnlyGuards, iflag>>

EnableDec ==
  /\ Top.at = "dec"
  /\ int_en_count' = IF int_en_count > 0 THEN int_en_count - 1 ELSE 0
  /\ stack' = [stack EXCEPT ![Depth].at = Home, ![Depth].depth = @ - 1]
  /\ UNCHANGED <<OnlyGuards, iflag>>

Guard == \/ DisableTest \/ DisableCli \/ DisableInc
         \/ EnableTest \/ EnableSti \/ EnableDec

-----------------------------------------------------------------------------
Handle == Callback \/ Eoi \/ Iret

Drivers == IDTInit \/ \E l \in Lines : SetIrqHandler(l) \/ IrqEnable(l)

Next ==
  \/ Drivers
  \/ \E l \in Lines : Raise(l) \/ Accept(l)
  \/ Spurious \/ Handle \/ Guard

Spec == Init /\ [][Next]_vars

\* The CPU executes handlers to their end, and takes an interrupt that is offered
\* again and again while the flag is set.
FairSpec == Spec /\ WF_vars(Handle) /\ \A l \in Lines : SF_vars(Accept(l))

-----------------------------------------------------------------------------
(* Properties.                                                             *)

Places == {"run", "callback", "eoi", "iret", "cli", "inc", "sti", "dec"}

\* Type invariant.
TypeOK ==
  /\ booted \in BOOLEAN /\ iflag \in BOOLEAN /\ panic \in BOOLEAN
  /\ int_en_count \in Nat
  /\ imr \subseteq AllLines /\ irr \subseteq Lines /\ isr \subseteq Lines
  /\ handlers \subseteq AllLines
  /\ stack \in Seq([line : AllLines \cup {None}, at : Places, depth : 0 .. MaxDepth])
  /\ stack # <<>>

\* Code of the kernel thread between disable_interrupts and enable_interrupts is
\* never interrupted, however the guards nest and wherever interrupts fall.
GuardExcludes == stack[1].depth > 0 /\ stack[1].at = "run" => ~iflag /\ Depth = 1

\* When the last guard is closed interrupts are on and the count is back to 0.
GuardReopens ==
  Depth = 1 /\ Top.at = "run" /\ Top.depth = 0 /\ booted => iflag /\ int_en_count = 0

\* A line is in service exactly while its handler has not sent its EOI: no line
\* is left blocked, and a spurious interrupt ends nobody else's service.
InServiceWhileHandled ==
  isr = {stack[i].line : i \in {j \in 2 .. Depth : stack[j].at # "iret"}} \ {SpuriousLine}

\* handle_irq never runs into "Unimplemented Interrupt Handler".
AlwaysHandled == ~panic

\* One handler at a time: the kernel thread is interrupted at most once.
NoNesting == Depth <= 2

\* No request is lost: an enabled line that asks for service gets it, if interrupts
\* keep being on with no line of higher priority asking.
Served ==
  \A l \in Lines :
    []<>(iflag /\ \A k \in Lines : k < l => k \notin irr)
      => (l \in irr \ imr ~> l \notin irr)

\* x86_idt.h:76-77 "safe to call if interrupts were already enabled/disabled": a
\* context that closed its guards has the interrupt flag it started with.
GuardRestoresFlag ==
  Top.depth = 0 /\ Top.at = Home => iflag = (Depth = 1 /\ booted)
=============================================================================
