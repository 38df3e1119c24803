--------------------------- MODULE Handlers_proofs ---------------------------
(***************************************************************************)
(* Proofs about the two components whose state interrupt handlers change   *)
(* under the code they interrupt:                                          *)
(*   Interrupts, for every set of lines and every nesting of guards, when  *)
(*     neither handlers nor the code before IDT::init use guards, as is    *)
(*     the case in this kernel;                                            *)
(*   KeyQueue, for every capacity and every set of key codes.              *)
(***************************************************************************)
EXTENDS Interrupts, KeyQueue, TLAPS, SequenceTheorems

NoGuards == ~BootGuards /\ ~HandlerGuards

FrameType == [line : AllLines \cup {None}, at : Places, depth : 0 .. MaxDepth]

-----------------------------------------------------------------------------
(* Interrupts: the inductive invariant.                                    *)

Main == stack[1]

\* At most one handler is on top of the thread, it has a callback, and it is at
\* one of the places of handle_irq; the thread is at one of the guards' places.
OneHandler ==
  /\ Depth \in {1, 2}
  /\ Main.line = None /\ Main.at \in {"run", "cli", "inc", "sti", "dec"}
  /\ Depth = 2 => /\ stack[2].at \in {"callback", "eoi", "iret"}
                  /\ stack[2].depth = 0
                  /\ stack[2].line \in handlers

\* The counter is the number of guards the thread is in, and each place inside a
\* guard is reached with the counter its test saw.
CountIsDepth ==
  /\ int_en_count = Main.depth
  /\ Main.at = "cli" => Main.depth = 0
  /\ Main.at = "sti" => Main.depth = 1
  /\ Main.at = "dec" => Main.depth > 0
  /\ Main.at \in {"cli", "inc"} => Main.depth < MaxDepth

\* The places of the thread at which interrupts are off.
Off ==
  \/ Main.at \in {"inc", "sti"}
  \/ Main.at = "run" /\ Main.depth > 0
  \/ Main.at = "dec" /\ Main.depth > 1

\* The flag follows the thread's place; a handler runs with it off, and starts
\* only where the thread had it on.
FlagFollows ==
  /\ ~booted => ~iflag /\ Depth = 1 /\ Main.at = "run" /\ Main.depth = 0
  /\ booted /\ Depth = 1 => (iflag <=> ~Off)
  /\ Depth = 2 => ~iflag /\ ~Off

\* An open line has a callback; the line in service is the handler's.
LinesHandled ==
  /\ AllLines \ imr \subseteq handlers
  /\ booted => SpuriousLine \in handlers
  /\ isr = IF Depth = 2 /\ stack[2].at # "iret"
           THEN {stack[2].line} \ {SpuriousLine} ELSE {}
  /\ ~panic

Inv == TypeOK /\ OneHandler /\ CountIsDepth /\ FlagFollows /\ LinesHandled

-----------------------------------------------------------------------------
(* How the steps change the stack of contexts.                             *)

\* The contexts are frames, and there is at least the thread's.
LEMMA StackType ==
  ASSUME TypeOK
  PROVE  /\ stack \in Seq(FrameType) /\ Depth \in Nat \ {0}
         /\ \A i \in 1 .. Depth : stack[i] \in FrameType
  <1>1. stack \in Seq(FrameType) /\ stack # <<>>
    BY DEF TypeOK, FrameType
  <1> QED BY <1>1, EmptySeq, LenProperties, ElementOfSeq DEF Depth

\* A step of the newest context leaves the others alone.
LEMMA TopChanges ==
  ASSUME TypeOK, NEW f \in FrameType, stack' = [stack EXCEPT ![Depth] = f]
  PROVE  /\ stack' \in Seq(FrameType) /\ stack' # <<>> /\ Depth' = Depth
         /\ stack'[Depth] = f
         /\ \A i \in 1 .. Depth - 1 : stack'[i] = stack[i]
  <1>1. Depth \in 1 .. Len(stack)
    BY StackType DEF Depth
  <1>2. stack' \in Seq(FrameType) /\ Len(stack') = Len(stack)
    BY <1>1, StackType, ExceptSeq
  <1>3. stack' # <<>>
    BY <1>1, <1>2, EmptySeq
  <1>4. DOMAIN stack = 1 .. Len(stack)
    BY StackType, LenProperties
  <1>5. Depth \in DOMAIN stack /\ \A i \in 1 .. Depth - 1 : i \in DOMAIN stack /\ i # Depth
    BY <1>1, <1>4
  <1>6. stack'[Depth] = f /\ \A i \in 1 .. Depth - 1 : stack'[i] = stack[i]
    BY <1>5
  <1>7. Depth' = Depth
    BY <1>2 DEF Depth
  <1> QED BY <1>2, <1>3, <1>6, <1>7

\* Goto moves the newest context from one place to another.
LEMMA GotoMoves ==
  ASSUME TypeOK, NEW here, NEW there \in Places, Goto(here, there)
  PROVE  /\ stack' \in Seq(FrameType) /\ stack' # <<>> /\ Depth' = Depth
         /\ Top.at = here
         /\ stack'[Depth] = [stack[Depth] EXCEPT !.at = there]
         /\ \A i \in 1 .. Depth - 1 : stack'[i] = stack[i]
  <1> DEFINE f == [stack[Depth] EXCEPT !.at = there]
  <1>1. f \in FrameType
    <2>1. stack[Depth] \in FrameType
      BY StackType
    <2> QED BY <2>1 DEF FrameType
  <1>2. stack' = [stack EXCEPT ![Depth] = f]
    BY DEF Goto
  <1> QED BY <1>1, <1>2, TopChanges DEF Goto

\* The return of a handler uncovers the thread.
LEMMA PopMoves ==
  ASSUME TypeOK, Depth = 2, stack' = SubSeq(stack, 1, Depth - 1)
  PROVE  stack' \in Seq(FrameType) /\ stack' # <<>> /\ Depth' = 1 /\ stack'[1] = stack[1]
  <1>1. stack' \in Seq(FrameType) /\ Len(stack') = 1 /\ stack'[1] = stack[1]
    BY StackType, SubSeqProperties DEF Depth
  <1> QED BY <1>1, EmptySeq DEF Depth

\* A delivery puts a context on top of the others.
LEMMA PushMoves ==
  ASSUME TypeOK, NEW f \in FrameType, stack' = Append(stack, f)
  PROVE  /\ stack' \in Seq(FrameType) /\ stack' # <<>> /\ Depth' = Depth + 1
         /\ stack'[Depth + 1] = f
         /\ \A i \in 1 .. Depth : stack'[i] = stack[i]
  BY StackType, AppendProperties DEF Depth

-----------------------------------------------------------------------------
\* Before IDT::init interrupts are off and nothing is open.
LEMMA InvStart == Init => Inv
  <1> SUFFICES ASSUME Init PROVE Inv
    OBVIOUS
  <1> DEFINE m == [line |-> None, at |-> "run", depth |-> 0]
  <1>1. stack = <<m>> /\ m \in FrameType
    BY LinesAssumption DEF Init, Frame, FrameType, Places
  <1>2. stack \in Seq(FrameType) /\ stack # <<>> /\ Depth = 1 /\ stack[1] = m
    BY <1>1 DEF Depth
  <1>3. TypeOK
    BY <1>2 DEF Init, TypeOK, FrameType
  <1>4. OneHandler /\ CountIsDepth /\ FlagFollows /\ LinesHandled
    BY <1>2 DEF Init, OneHandler, CountIsDepth, FlagFollows, LinesHandled, Main, Off
  <1> QED BY <1>3, <1>4 DEF Inv

-----------------------------------------------------------------------------
(* The invariant is kept.                                                  *)

\* The thread opens lines outside handlers, and a line only with its callback.
LEMMA DriverStep ==
  ASSUME Inv, Drivers PROVE Inv'
  <1>1. Depth = 1 /\ stack' = stack /\ panic' = panic /\ int_en_count' = int_en_count
    BY DEF Drivers, IDTInit, SetIrqHandler, IrqEnable, InMain
  <1>2. TypeOK'
    BY <1>1 DEF Inv, TypeOK, Drivers, IDTInit, SetIrqHandler, IrqEnable, AllLines, pic
  <1>3. OneHandler' /\ CountIsDepth'
    BY <1>1 DEF Inv, OneHandler, CountIsDepth, Main, Depth
  <1>4. FlagFollows'
    BY <1>1 DEF Inv, FlagFollows, Off, Main, Depth, InMain, Top,
                Drivers, IDTInit, SetIrqHandler, IrqEnable
  <1>5. LinesHandled'
    BY <1>1 DEF Inv, LinesHandled, Depth, Drivers, IDTInit, SetIrqHandler, IrqEnable, AllLines, pic
  <1> QED BY <1>2, <1>3, <1>4, <1>5 DEF Inv

\* A device that asks for service changes nothing but irr.
LEMMA RaiseStep ==
  ASSUME Inv, NEW l \in Lines, Raise(l) PROVE Inv'
  <1>1. TypeOK'
    BY DEF Inv, TypeOK, Raise
  <1>2. OneHandler' /\ CountIsDepth' /\ FlagFollows' /\ LinesHandled'
    BY DEF Inv, Raise, pic, OneHandler, CountIsDepth, FlagFollows, LinesHandled, Off, Main, Depth
  <1> QED BY <1>1, <1>2 DEF Inv

\* An interrupt is delivered only to the thread, and only with a callback.
LEMMA DeliverStep ==
  ASSUME Inv, NEW l \in AllLines \cap handlers, Deliver(l),
         irr' \subseteq Lines, isr' = {l} \ {SpuriousLine}
  PROVE  Inv'
  <1> USE DEF Inv
  <1> DEFINE f == [line |-> l, at |-> "callback", depth |-> 0]
  <1>1. Depth = 1 /\ booted
    BY DEF Deliver, OneHandler, FlagFollows
  <1>2. f \in FrameType /\ stack' = Append(stack, f)
    BY LinesAssumption DEF FrameType, Places, Deliver, Frame, AllLines, None
  <1>3. /\ stack' \in Seq(FrameType) /\ stack' # <<>> /\ Depth' = 2
        /\ stack'[2] = f /\ stack'[1] = stack[1]
    <2> HIDE DEF f
    <2>1. /\ stack' \in Seq(FrameType) /\ stack' # <<>> /\ Depth' = Depth + 1
          /\ stack'[Depth + 1] = f /\ \A i \in 1 .. Depth : stack'[i] = stack[i]
      BY <1>2, PushMoves
    <2> QED BY <1>1, <2>1
  <1>4. TypeOK'
    BY <1>3, LinesAssumption DEF TypeOK, Deliver, FrameType, AllLines
  <1>5. OneHandler'
    BY <1>3 DEF OneHandler, Main, Deliver
  <1>6. CountIsDepth'
    BY <1>3 DEF CountIsDepth, Main, Deliver
  <1>7. FlagFollows'
    BY <1>1, <1>3 DEF FlagFollows, Off, Main, Deliver
  <1>8. LinesHandled'
    BY <1>3 DEF LinesHandled, Deliver
  <1> QED BY <1>4, <1>5, <1>6, <1>7, <1>8

\* An open line's request goes into service when the thread is interrupted.
LEMMA AcceptStep ==
  ASSUME Inv, NEW l \in Lines, Accept(l) PROVE Inv'
  <1>1. isr = {}
    BY DEF Inv, OneHandler, FlagFollows, LinesHandled, Accept, Deliver
  <1>2. l \in AllLines \cap handlers /\ l # SpuriousLine
    BY LinesAssumption DEF Inv, LinesHandled, Accept, Offered, AllLines
  <1>3. irr' \subseteq Lines /\ isr' = {l} \ {SpuriousLine}
    BY <1>1, <1>2 DEF Inv, TypeOK, Accept
  <1> QED BY <1>2, <1>3, DeliverStep DEF Accept

\* A spurious interrupt has a callback and puts nothing in service.
LEMMA SpuriousStep ==
  ASSUME Inv, Spurious PROVE Inv'
  <1>1. isr = {} /\ booted
    BY DEF Inv, OneHandler, FlagFollows, LinesHandled, Spurious, Deliver
  <1>2. SpuriousLine \in AllLines \cap handlers
    BY <1>1 DEF Inv, LinesHandled, AllLines
  <1>3. irr' \subseteq Lines /\ isr' = {SpuriousLine} \ {SpuriousLine}
    BY <1>1 DEF Inv, TypeOK, Spurious
  <1> QED BY <1>2, <1>3, DeliverStep DEF Spurious

\* handle_irq finds its callback, ends the service of its own line, and returns
\* to a thread whose flag was on.
LEMMA HandleStep ==
  ASSUME Inv, Handle PROVE Inv'
  <1> USE DEF Inv
  <1>1. Depth = 2
    BY DEF Handle, Callback, Eoi, Iret, Goto, Top, OneHandler, Main
  <1>2. CASE Callback
    <2>1. /\ stack' \in Seq(FrameType) /\ stack' # <<>> /\ Depth' = 2
          /\ stack[2].at = "callback"
          /\ stack'[2] = [stack[2] EXCEPT !.at = "eoi"] /\ stack'[1] = stack[1]
      BY <1>1, <1>2, GotoMoves DEF Callback, Places, Top
    <2>2. panic' = FALSE
      BY <1>1, <1>2 DEF Callback, OneHandler, Top
    <2>3. stack[2] \in FrameType
      BY <1>1, StackType
    <2>4. TypeOK'
      BY <1>2, <2>1, <2>2 DEF TypeOK, FrameType, Callback, pic
    <2>5. OneHandler' /\ CountIsDepth' /\ FlagFollows' /\ LinesHandled'
      BY <1>1, <1>2, <2>1, <2>2, <2>3
         DEF Callback, pic, FrameType, OneHandler, CountIsDepth, FlagFollows, LinesHandled, Off, Main
    <2> QED BY <2>4, <2>5
  <1>3. CASE Eoi
    <2>1. /\ stack' \in Seq(FrameType) /\ stack' # <<>> /\ Depth' = 2
          /\ stack[2].at = "eoi"
          /\ stack'[2] = [stack[2] EXCEPT !.at = "iret"] /\ stack'[1] = stack[1]
      BY <1>1, <1>3, GotoMoves DEF Eoi, Places, Top
    <2>2. stack[2] \in FrameType
      BY <1>1, StackType
    <2>3. isr' = {}
      <3>1. isr = {stack[2].line} \ {SpuriousLine}
        BY <1>1, <2>1 DEF LinesHandled
      <3>2. stack[2].line \in Int
        <4>1. stack[2].line \in AllLines \cup {None}
          BY <2>2 DEF FrameType
        <4>2. AllLines \subseteq Int /\ None \in Int
          BY LinesAssumption DEF AllLines, None
        <4> QED BY <4>1, <4>2
      <3> QED BY <1>3, <3>1, <3>2 DEF Eoi
    <2>4. TypeOK'
      BY <1>3, <2>1, <2>3 DEF TypeOK, FrameType, Eoi
    <2>5. OneHandler' /\ CountIsDepth' /\ FlagFollows' /\ LinesHandled'
      BY <1>1, <1>3, <2>1, <2>2, <2>3
         DEF Eoi, FrameType, OneHandler, CountIsDepth, FlagFollows, LinesHandled, Off, Main
    <2> QED BY <2>4, <2>5
  <1>4. CASE Iret
    <2>1. stack' \in Seq(FrameType) /\ stack' # <<>> /\ Depth' = 1 /\ stack'[1] = stack[1]
      BY <1>1, <1>4, PopMoves DEF Iret
    <2>2. TypeOK'
      BY <1>4, <2>1 DEF TypeOK, FrameType, Iret, pic
    <2>3. OneHandler' /\ CountIsDepth' /\ FlagFollows' /\ LinesHandled'
      BY <1>1, <1>4, <2>1
         DEF Iret, pic, Top, OneHandler, CountIsDepth, FlagFollows, LinesHandled, Off, Main
    <2> QED BY <2>2, <2>3
  <1> QED BY <1>2, <1>3, <1>4 DEF Handle

\* A step of a guard is a step of the thread, with no handler on top.
LEMMA GuardStep ==
  ASSUME Inv, NoGuards, Guard PROVE Inv'
  <1> USE DEF Inv
  <1> DEFINE Moved(m) ==
        /\ stack' \in Seq(FrameType) /\ stack' # <<>> /\ Depth' = 1 /\ stack'[1] = m
  <1>1. Depth = 1 /\ booted /\ Home = "run" /\ Main \in FrameType /\ Top = Main
    BY StackType DEF NoGuards, Guard, DisableTest, DisableCli, DisableInc, EnableTest,
       EnableSti, EnableDec, MayGuard, Goto, Top, OneHandler, FlagFollows, Home, Main
  <1>2. UNCHANGED OnlyGuards
    BY DEF Guard, DisableTest, DisableCli, DisableInc, EnableTest, EnableSti, EnableDec
  <1>3. ASSUME NEW here, NEW there \in Places, Goto(here, there)
        PROVE  Main.at = here /\ Moved([Main EXCEPT !.at = there])
    <2>1. /\ stack' \in Seq(FrameType) /\ stack' # <<>> /\ Depth' = Depth
          /\ Top.at = here /\ stack'[Depth] = [stack[Depth] EXCEPT !.at = there]
      BY <1>3, GotoMoves
    <2> QED BY <1>1, <2>1 DEF Main
  <1>4. ASSUME NEW m, Moved(m), m \in FrameType, m.line = None,
               iflag' \in BOOLEAN, int_en_count' = m.depth,
               m.at \in {"run", "cli", "inc", "sti", "dec"},
               m.at = "cli" => m.depth = 0, m.at = "sti" => m.depth = 1,
               m.at = "dec" => m.depth > 0,
               m.at \in {"cli", "inc"} => m.depth < MaxDepth,
               iflag' <=> ~ \/ m.at \in {"inc", "sti"}
                            \/ m.at = "run" /\ m.depth > 0
                            \/ m.at = "dec" /\ m.depth > 1
        PROVE  Inv'
    <2>1. m.depth \in Nat
      BY <1>4, LinesAssumption DEF FrameType
    <2>2. TypeOK'
      BY <1>2, <1>4, <2>1 DEF TypeOK, FrameType, OnlyGuards, pic
    <2>3. OneHandler' /\ CountIsDepth'
      BY <1>4 DEF OneHandler, CountIsDepth, Main
    <2>4. FlagFollows'
      BY <1>1, <1>2, <1>4 DEF FlagFollows, Off, Main, OnlyGuards
    <2>5. LinesHandled'
      BY <1>1, <1>2, <1>4 DEF LinesHandled, OnlyGuards, pic
    <2> QED BY <2>2, <2>3, <2>4, <2>5
  <1>5. /\ Main.line = None /\ Main.depth \in 0 .. MaxDepth /\ int_en_count = Main.depth
        /\ Main.depth \in Nat
    BY <1>1, LinesAssumption DEF OneHandler, CountIsDepth, FrameType
  <1> DEFINE MainAt(there) == [Main EXCEPT !.at = there]
  <1>6. ASSUME NEW there \in Places
        PROVE  /\ MainAt(there) \in FrameType /\ MainAt(there).at = there
               /\ MainAt(there).line = None /\ MainAt(there).depth = Main.depth
    BY <1>1, <1>5 DEF FrameType
  <1>7. ASSUME NEW m \in FrameType, stack' = [stack EXCEPT ![Depth] = m]
        PROVE  Moved(m)
    BY <1>1, <1>7, TopChanges
  <1>8. {"run", "cli", "inc", "sti", "dec"} \subseteq Places
    BY DEF Places
  <1> HIDE DEF Moved, MainAt
  <1>9. CASE DisableTest
    <2> DEFINE there == IF int_en_count = 0 THEN "cli" ELSE "inc"
    <2>1. Goto("run", there) /\ there \in Places
      BY <1>1, <1>8, <1>9 DEF DisableTest
    <2>2. Main.at = "run" /\ Moved(MainAt(there))
      BY <1>3, <2>1 DEF MainAt
    <2>3. Main.depth < MaxDepth /\ iflag' = iflag /\ int_en_count' = int_en_count
      BY <1>1, <1>9 DEF DisableTest
    <2>4. iflag <=> ~(Main.depth > 0)
      BY <1>1, <2>2 DEF FlagFollows, Off
    <2> QED BY <1>4, <1>5, <1>6, <2>1, <2>2, <2>3, <2>4 DEF TypeOK
  <1>10. CASE DisableCli
    <2>1. Main.at = "cli" /\ Moved(MainAt("inc"))
      BY <1>3, <1>8, <1>10 DEF DisableCli, MainAt
    <2>2. iflag' = FALSE /\ int_en_count' = int_en_count
      BY <1>10 DEF DisableCli
    <2>3. Main.depth < MaxDepth
      BY <2>1 DEF CountIsDepth
    <2> QED BY <1>4, <1>5, <1>6, <1>8, <2>1, <2>2, <2>3
  <1>11. CASE DisableInc
    <2> DEFINE m == [Main EXCEPT !.at = "run", !.depth = @ + 1]
    <2>1. Main.at = "inc" /\ Main.depth < MaxDepth /\ ~iflag
      BY <1>1, <1>11 DEF DisableInc, CountIsDepth, FlagFollows, Off
    <2>2. /\ m \in FrameType /\ m.at = "run" /\ m.line = None /\ m.depth = Main.depth + 1
      <3>1. Main.depth + 1 \in 0 .. MaxDepth
        BY <1>5, <2>1, LinesAssumption
      <3>2. "run" \in Places
        BY <1>8
      <3> QED BY <1>1, <1>5, <3>1, <3>2 DEF FrameType
    <2>3. stack' = [stack EXCEPT ![Depth] = m]
      BY <1>1, <1>11 DEF DisableInc, Main
    <2> HIDE DEF m
    <2>4. Moved(m)
      BY <1>7, <2>2, <2>3
    <2>5. iflag' = FALSE /\ int_en_count' = m.depth /\ m.depth > 0
      BY <1>5, <1>11, <2>1, <2>2 DEF DisableInc, TypeOK
    <2> QED BY <1>4, <2>2, <2>4, <2>5
  <1>12. CASE EnableTest
    <2> DEFINE there == IF int_en_count = 1 THEN "sti" ELSE "dec"
    <2>1. Goto("run", there) /\ there \in Places
      BY <1>1, <1>8, <1>12 DEF EnableTest
    <2>2. Main.at = "run" /\ Moved(MainAt(there))
      BY <1>3, <2>1 DEF MainAt
    <2>3. Main.depth > 0 /\ iflag' = iflag /\ int_en_count' = int_en_count
      BY <1>1, <1>12 DEF EnableTest
    <2>4. ~iflag
      BY <1>1, <2>2, <2>3 DEF FlagFollows, Off
    <2> QED BY <1>4, <1>5, <1>6, <2>1, <2>2, <2>3, <2>4 DEF TypeOK
  <1>13. CASE EnableSti
    <2>1. Main.at = "sti" /\ Moved(MainAt("dec"))
      BY <1>3, <1>8, <1>13 DEF EnableSti, MainAt
    <2>2. iflag' = TRUE /\ int_en_count' = int_en_count /\ Main.depth = 1
      BY <1>13, <2>1 DEF EnableSti, CountIsDepth
    <2> QED BY <1>4, <1>5, <1>6, <1>8, <2>1, <2>2
  <1>14. CASE EnableDec
    <2> DEFINE m == [Main EXCEPT !.at = "run", !.depth = @ - 1]
    <2>1. Main.at = "dec" /\ Main.depth > 0 /\ (iflag <=> ~(Main.depth > 1))
      BY <1>1, <1>14 DEF EnableDec, CountIsDepth, FlagFollows, Off
    <2>2. /\ m \in FrameType /\ m.at = "run" /\ m.line = None /\ m.depth = Main.depth - 1
      <3>1. Main.depth - 1 \in 0 .. MaxDepth
        BY <1>5, <2>1, LinesAssumption
      <3>2. "run" \in Places
        BY <1>8
      <3> QED BY <1>1, <1>5, <3>1, <3>2 DEF FrameType
    <2>3. stack' = [stack EXCEPT ![Depth] = m]
      BY <1>1, <1>14 DEF EnableDec, Main
    <2> HIDE DEF m
    <2>4. Moved(m)
      BY <1>7, <2>2, <2>3
    <2>5. iflag' = iflag /\ int_en_count' = int_en_count - 1
      BY <1>5, <1>14, <2>1 DEF EnableDec
    <2> QED BY <1>4, <1>5, <2>1, <2>2, <2>4, <2>5 DEF TypeOK
  <1> QED BY <1>9, <1>10, <1>11, <1>12, <1>13, <1>14 DEF Guard

\* Every step keeps the invariant.
LEMMA InvStep ==
  ASSUME NoGuards PROVE Inv /\ [Next]_vars => Inv'
  <1> SUFFICES ASSUME Inv, [Next]_vars PROVE Inv'
    OBVIOUS
  <1>1. CASE Drivers
    BY <1>1, DriverStep
  <1>2. ASSUME NEW l \in Lines, Raise(l) \/ Accept(l) PROVE Inv'
    BY <1>2, RaiseStep, AcceptStep
  <1>3. CASE Spurious
    BY <1>3, SpuriousStep
  <1>4. CASE Handle
    BY <1>4, HandleStep
  <1>5. CASE Guard
    BY <1>5, GuardStep
  <1>6. CASE UNCHANGED vars
    BY <1>6 DEF vars, pic, Inv, TypeOK, OneHandler, CountIsDepth, FlagFollows,
                LinesHandled, Off, Main, Depth
  <1> QED BY <1>1, <1>2, <1>3, <1>4, <1>5, <1>6 DEF Next

-----------------------------------------------------------------------------
(* Interrupts: theorems.                                                   *)

\* While the thread is inside a guard no handler runs, however guards nest and
\* interrupts fall between their instructions; when the last guard is closed
\* interrupts are on again.
THEOREM GuardsExclude ==
  ASSUME NoGuards PROVE Spec => [](TypeOK /\ GuardExcludes /\ GuardReopens)
  <1>1. Inv => TypeOK /\ GuardExcludes /\ GuardReopens
    BY DEF Inv, GuardExcludes, GuardReopens, OneHandler, CountIsDepth, FlagFollows,
           Off, Main, Top
  <1> QED BY <1>1, InvStart, InvStep, PTL DEF Spec

\* When the thread has closed its last guard interrupts are on again: no order of
\* guards and interrupts leaves the kernel deaf.
THEOREM GuardsReopen ==
  ASSUME NoGuards PROVE Spec => []GuardReopens
  <1>1. TypeOK /\ GuardExcludes /\ GuardReopens => GuardReopens
    OBVIOUS
  <1> QED BY <1>1, GuardsExclude, PTL

\* Every interrupt that is delivered, spurious ones included, has a callback, is
\* handled alone, and its line is in service exactly until its end of interrupt.
THEOREM HandledAlone ==
  ASSUME NoGuards PROVE Spec => [](AlwaysHandled /\ NoNesting /\ InServiceWhileHandled)
  <1>1. Inv => AlwaysHandled /\ NoNesting /\ InServiceWhileHandled
    <2> SUFFICES ASSUME Inv PROVE AlwaysHandled /\ NoNesting /\ InServiceWhileHandled
      OBVIOUS
    <2>1. AlwaysHandled /\ NoNesting
      BY DEF Inv, AlwaysHandled, NoNesting, LinesHandled, OneHandler
    <2> DEFINE Handling == {j \in 2 .. Depth : stack[j].at # "iret"}
    <2>2. Depth \in {1, 2}
      BY DEF Inv, OneHandler
    <2>3. CASE Depth = 2 /\ stack[2].at # "iret"
      <3>1. Handling = {2}
        BY <2>3
      <3>2. {stack[i].line : i \in Handling} = {stack[2].line}
        BY <3>1
      <3>3. isr = {stack[2].line} \ {SpuriousLine}
        BY <2>3 DEF Inv, LinesHandled
      <3> QED BY <2>1, <3>2, <3>3 DEF InServiceWhileHandled
    <2>4. CASE ~(Depth = 2 /\ stack[2].at # "iret")
      <3>1. Handling = {}
        BY <2>2, <2>4
      <3>2. {stack[i].line : i \in Handling} = {}
        BY <3>1
      <3>3. isr = {}
        BY <2>4 DEF Inv, LinesHandled
      <3> QED BY <2>1, <3>2, <3>3 DEF InServiceWhileHandled
    <2> QED BY <2>3, <2>4
  <1> QED BY <1>1, InvStart, InvStep, PTL DEF Spec

-----------------------------------------------------------------------------
(* The key queue: counts.                                                  *)

\* Where a key is known to be in the queue: on the way to pop, inside pop until
\* size is decremented, and in the wait once the handler has ended it.
KeyInside ==
  \/ pc \in {"pop", "advance", "wrap", "shrink"}
  \/ pc = "spin" /\ ~wait_for_key

CountInv ==
  /\ QueueTypeOK
  /\ KeysConserved
  /\ NeverPopsEmpty
  /\ KeyInside => size > 0

LEMMA CountStart == QueueInit => CountInv
  <1> SUFFICES ASSUME QueueInit PROVE CountInv
    OBVIOUS
  <1>1. QueueTypeOK
    <2>1. 0 \in Slots /\ 0 \in 0 .. N /\ N # 0
      BY QueueAssumption DEF Slots
    <2>2. data \in [Slots -> Keys \cup {Garbage}] /\ owed \in Seq(Keys)
      BY DEF QueueInit
    <2> QED BY <2>1, <2>2 DEF QueueInit, QueueTypeOK
  <1>2. KeysConserved /\ NeverPopsEmpty /\ (KeyInside => size > 0)
    BY DEF QueueInit, KeysConserved, NeverPopsEmpty, KeyInside
  <1> QED BY <1>1, <1>2 DEF CountInv

\* The slot a push writes is one of the buffer's.
LEMMA PushSlotInside == ASSUME QueueTypeOK PROVE PushSlot \in Slots
  <1>1. location + size \in Int /\ N \in Int /\ N > 0
    BY QueueAssumption DEF QueueTypeOK
  <1>2. \A m \in Int : m % N \in 0 .. N - 1
    BY <1>1
  <1> QED BY <1>1, <1>2 DEF PushSlot, Slots

LEMMA CountStep == CountInv /\ [QueueNext]_queueVars => CountInv'
  <1> SUFFICES ASSUME CountInv, [QueueNext]_queueVars PROVE CountInv'
    OBVIOUS
  <1> USE QueueAssumption
  <1>0. /\ QueueTypeOK /\ KeysConserved /\ NeverPopsEmpty /\ (KeyInside => size > 0)
        /\ owed \in Seq(Keys) /\ size \in Int /\ N \in Int
    BY DEF CountInv, QueueTypeOK
  <1>1. ASSUME NEW k \in Keys, KbInt(k) PROVE CountInv'
    <2>1. CASE size < N /\ data' = [data EXCEPT ![PushSlot] = k] /\ size' = size + 1
               /\ owed' = Append(owed, k)
      <3>1. data' \in [Slots -> Keys \cup {Garbage}]
        BY <1>0, <2>1, PushSlotInside DEF QueueTypeOK
      <3>2. owed' \in Seq(Keys) /\ Len(owed') = Len(owed) + 1
        BY <1>0, <2>1
      <3>3. clobbered' \in BOOLEAN
        BY <1>0, <1>1 DEF KbInt, QueueTypeOK
      <3>4. QueueTypeOK'
        <4>1. size' \in 0 .. N
          BY <1>0, <2>1 DEF QueueTypeOK
        <4>2. UNCHANGED <<location, pc, ol, got>> /\ wait_for_key' = FALSE
          BY <1>1 DEF KbInt
        <4> QED BY <1>0, <4>1, <4>2, <3>1, <3>2, <3>3 DEF QueueTypeOK
      <3>5. KeysConserved' /\ NeverPopsEmpty' /\ (KeyInside => size > 0)'
        BY <1>0, <1>1, <2>1, <3>2 DEF KbInt, KeysConserved, NeverPopsEmpty, KeyInside, QueueTypeOK
      <3> QED BY <3>4, <3>5 DEF CountInv
    <2>2. CASE size = N /\ UNCHANGED <<size, data, owed, clobbered>>
      <3>1. UNCHANGED <<location, pc, ol, got>> /\ wait_for_key' = FALSE
        BY <1>1 DEF KbInt
      <3>2. QueueTypeOK'
        BY <1>0, <2>2, <3>1 DEF QueueTypeOK
      <3>3. KeysConserved' /\ NeverPopsEmpty' /\ (KeyInside => size > 0)'
        BY <1>0, <2>2, <3>1 DEF KeysConserved, NeverPopsEmpty, KeyInside
      <3> QED BY <3>2, <3>3 DEF CountInv
    <2> QED BY <1>1, <2>1, <2>2 DEF KbInt
  <1>2. CASE IsEmpty
    BY <1>0, <1>2 DEF IsEmpty, At, queue, CountInv, QueueTypeOK, KeysConserved, NeverPopsEmpty, KeyInside
  <1>3. CASE Arm
    BY <1>0, <1>3 DEF Arm, At, queue, CountInv, QueueTypeOK, KeysConserved, NeverPopsEmpty, KeyInside
  <1>4. CASE Spin
    BY <1>0, <1>4 DEF Spin, At, queue, CountInv, QueueTypeOK, KeysConserved, NeverPopsEmpty, KeyInside
  <1>5. CASE Pop
    <2>1. size > 0 /\ pc' = "advance" /\ location \in Slots
      BY <1>0, <1>5 DEF Pop, At, KeyInside, QueueTypeOK, Slots
    <2> QED BY <1>0, <1>5, <2>1
            DEF Pop, At, queue, CountInv, QueueTypeOK, KeysConserved, NeverPopsEmpty, KeyInside
  <1>6. CASE AdvLoc
    <2>1. location \in 0 .. N - 1 /\ location' \in 0 .. N
      BY <1>0, <1>6 DEF AdvLoc, At, QueueTypeOK
    <2> QED BY <1>0, <1>6, <2>1
            DEF AdvLoc, At, CountInv, QueueTypeOK, KeysConserved, NeverPopsEmpty, KeyInside
  <1>7. CASE WrapLoc
    <2>1. location' \in 0 .. N - 1
      BY <1>0, <1>7 DEF WrapLoc, QueueTypeOK
    <2> QED BY <1>0, <1>7, <2>1
            DEF WrapLoc, At, CountInv, QueueTypeOK, KeysConserved, NeverPopsEmpty, KeyInside
  <1>8. CASE Shrink
    BY <1>0, <1>8 DEF Shrink, At, CountInv, QueueTypeOK, KeysConserved, NeverPopsEmpty, KeyInside
  <1>9. CASE Read
    <2>1. Len(owed) > 0
      BY <1>0, <1>9 DEF Read, At, KeysConserved, QueueTypeOK
    <2>2. owed' \in Seq(Keys) /\ Len(owed') = Len(owed) - 1
      BY <1>0, <1>9, <2>1 DEF Read
    <2>3. got' \in Keys \cup {Garbage}
      BY <1>0, <1>9 DEF Read, QueueTypeOK
    <2> QED BY <1>0, <1>9, <2>2, <2>3
            DEF Read, At, queue, CountInv, QueueTypeOK, KeysConserved, NeverPopsEmpty, KeyInside
  <1>10. CASE UNCHANGED queueVars
    BY <1>0, <1>10 DEF queueVars, queue, CountInv, QueueTypeOK, KeysConserved, NeverPopsEmpty, KeyInside
  <1> QED BY <1>1, <1>2, <1>3, <1>4, <1>5, <1>6, <1>7, <1>8, <1>9, <1>10
          DEF QueueNext, GetKey, Press

\* The key queue neither overruns its buffer nor loses count of its keys, and
\* getKey never pops an empty queue, at any capacity and in any interleaving.
THEOREM QueueCounts == QueueSpec => [](QueueTypeOK /\ KeysConserved /\ NeverPopsEmpty)
  <1>1. CountInv => QueueTypeOK /\ KeysConserved /\ NeverPopsEmpty
    BY DEF CountInv
  <1> QED BY <1>1, CountStart, CountStep, PTL DEF QueueSpec
-----------------------------------------------------------------------------
(* The key queue: the order of the keys.                                   *)

\* The slot i places after f, as a difference instead of a remainder.
After(f, i) == IF f + i < N THEN f + i ELSE f + i - N

LEMMA AfterMod ==
  ASSUME NEW f \in Slots, NEW i \in 0 .. N PROVE (f + i) % N = After(f, i)
  <1>1. \A a \in 0 .. N - 1 : a % N = a
    BY QueueAssumption, SMTT(30)
  <1>2. \A a \in N .. 2 * N - 1 : a % N = a - N
    BY QueueAssumption, SMTT(30)
  <1> QED BY <1>1, <1>2, QueueAssumption DEF After, Slots

\* The slot of the oldest key owed: pop has read it off before it moves location.
Front == IF pc \in {"wrap", "shrink", "read"} THEN ol ELSE location

Place ==
  /\ pc = "advance" => ol = location
  /\ pc = "wrap" => location = ol + 1
  /\ pc \in {"shrink", "read"} => location = After(ol, 1)

\* The keys owed lie one after the other from there.
Content ==
  ~clobbered => /\ Len(owed) <= N
                /\ \A i \in 1 .. Len(owed) : data[After(Front, i - 1)] = owed[i]

OrderInv == CountInv /\ Place /\ Content

LEMMA OrderStart == QueueInit => OrderInv
  <1> SUFFICES ASSUME QueueInit PROVE OrderInv
    OBVIOUS
  <1> QED BY CountStart, QueueAssumption DEF QueueInit, OrderInv, Place, Content

\* A push that is not misplaced goes right behind the keys owed, on none of them.
LEMMA PushOrder ==
  ASSUME OrderInv, NEW k \in Keys, KbInt(k) PROVE Place' /\ Content'
  <1> USE QueueAssumption
  <1>1. /\ QueueTypeOK /\ KeysConserved /\ location \in 0 .. N /\ size \in 0 .. N
        /\ ol \in Slots /\ N \in Int /\ owed \in Seq(Keys)
        /\ data \in [Slots -> Keys \cup {Garbage}]
    BY DEF OrderInv, CountInv, QueueTypeOK
  <1>2. UNCHANGED <<location, pc, ol>> /\ Front' = Front
    BY DEF KbInt, Front
  <1>3. Place'
    BY <1>2 DEF OrderInv, Place, After
  <1>4. CASE UNCHANGED <<size, data, owed, clobbered>>
    BY <1>2, <1>3, <1>4 DEF OrderInv, Content, After
  <1>5. CASE /\ size < N /\ data' = [data EXCEPT ![PushSlot] = k] /\ size' = size + 1
             /\ owed' = Append(owed, k) /\ clobbered' = (clobbered \/ Misplaced)
    <2> SUFFICES ASSUME ~clobbered'
                 PROVE  /\ Len(owed') <= N
                        /\ \A i \in 1 .. Len(owed') : data'[After(Front, i - 1)] = owed'[i]
      BY <1>2, <1>3, <1>5 DEF Content, After
    <2>1. ~clobbered /\ ~Misplaced
      BY <1>5
    <2>2. location \in Slots /\ PushSlot = After(location, size)
      <3>1. location # N
        BY <1>1, <2>1 DEF QueueTypeOK, Misplaced
      <3>2. location \in Slots
        BY <1>1, <3>1 DEF Slots
      <3>3. (location + size) % N = After(location, size)
        BY <1>1, <3>2, AfterMod
      <3> QED BY <3>2, <3>3 DEF PushSlot
    <2>3. Len(owed') = Len(owed) + 1 /\ Len(owed) \in Nat /\ owed'[Len(owed) + 1] = k
          /\ \A i \in 1 .. Len(owed) : owed'[i] = owed[i]
      BY <1>1, <1>5
    <2>4. /\ Front \in Slots /\ PushSlot = After(Front, Len(owed)) /\ Len(owed) < N
      <3>1. CASE pc = "read"
        <4>1. Len(owed) = size + 1 /\ location = After(ol, 1) /\ Front = ol
          BY <3>1 DEF OrderInv, CountInv, KeysConserved, Place, Front
        <4>2. PushSlot # ol
          BY <2>1, <3>1 DEF Misplaced
        <4> QED BY <1>1, <1>5, <2>2, <4>1, <4>2 DEF After, Slots
      <3>2. CASE pc # "read"
        <4>1. Len(owed) = size /\ Front = location
          BY <1>1, <2>1, <3>2 DEF KeysConserved, Front, Misplaced
        <4> QED BY <1>5, <2>2, <4>1
      <3> QED BY <3>1, <3>2
    <2>5. ASSUME NEW i \in 1 .. Len(owed)
          PROVE  data'[After(Front, i - 1)] = owed'[i]
      <3>1. After(Front, i - 1) # PushSlot /\ After(Front, i - 1) \in Slots
        BY <1>1, <2>3, <2>4 DEF After, Slots
      <3>2. data[After(Front, i - 1)] = owed[i]
        BY <2>1 DEF OrderInv, Content
      <3> QED BY <1>1, <1>5, <2>3, <3>1, <3>2
    <2>6. data'[PushSlot] = k
      BY <1>1, <1>5, PushSlotInside
    <2> QED BY <2>3, <2>4, <2>5, <2>6
  <1> QED BY <1>4, <1>5 DEF KbInt

\* Taking the oldest key leaves the others where they are.
LEMMA ReadOrder ==
  ASSUME OrderInv, Read PROVE Place' /\ Content' /\ (~clobbered => got' = Head(owed))
  <1> USE QueueAssumption
  <1>1. /\ KeysConserved /\ size \in 0 .. N /\ ol \in Slots /\ owed \in Seq(Keys)
        /\ N \in Int /\ location = After(ol, 1) /\ pc = "read" /\ Front = ol
    BY DEF OrderInv, CountInv, QueueTypeOK, Place, Read, At, Front
  <1>2. Len(owed) = size + 1 /\ Len(owed) > 0
    BY <1>1 DEF KeysConserved
  <1>3. owed' = Tail(owed) /\ Len(owed') = Len(owed) - 1 /\ owed[1] = Head(owed)
        /\ \A i \in 1 .. Len(owed') : owed'[i] = owed[i + 1]
    BY <1>1, <1>2 DEF Read
  <1>4. /\ UNCHANGED <<location, data, ol, clobbered>> /\ pc' = "idle" /\ Front' = location
        /\ got' = data[ol]
    BY DEF Read, At, queue, Front
  <1>5. Place'
    BY <1>4 DEF Place
  <1>6. ASSUME ~clobbered
        PROVE  /\ Len(owed') <= N
               /\ \A i \in 1 .. Len(owed') : data[After(location, i - 1)] = owed'[i]
    <2>1. /\ Len(owed) <= N
          /\ \A i \in 1 .. Len(owed) : data[After(ol, i - 1)] = owed[i]
      BY <1>1, <1>6 DEF OrderInv, Content
    <2>2. ASSUME NEW i \in 1 .. Len(owed') PROVE data[After(location, i - 1)] = owed'[i]
      <3>1. i + 1 \in 1 .. Len(owed)
        BY <1>2, <1>3, <1>1
      <3>2. After(location, i - 1) = After(ol, (i + 1) - 1)
        BY <1>1, <1>2, <2>1, <3>1 DEF After, Slots
      <3> QED BY <1>3, <2>1, <3>1, <3>2
    <2>3. Len(owed') <= N
      BY <1>1, <1>2, <1>3, <2>1
    <2> QED BY <2>2, <2>3
  <1>7. Content'
    BY <1>4, <1>6 DEF Content, After
  <1>8. ~clobbered => got' = Head(owed)
    <2> SUFFICES ASSUME ~clobbered PROVE data[ol] = owed[1]
      BY <1>3, <1>4
    <2>1. 1 \in 1 .. Len(owed) /\ After(ol, 1 - 1) = ol
      BY <1>1, <1>2 DEF After, Slots
    <2> QED BY <1>1, <2>1 DEF OrderInv, Content
  <1> QED BY <1>5, <1>7, <1>8

LEMMA OrderStep == OrderInv /\ [QueueNext]_queueVars => OrderInv'
  <1> SUFFICES ASSUME OrderInv, [QueueNext]_queueVars PROVE Place' /\ Content'
    BY CountStep DEF OrderInv
  <1> USE QueueAssumption
  <1>1. ASSUME NEW k \in Keys, KbInt(k) PROVE Place' /\ Content'
    BY <1>1, PushOrder
  <1>2. CASE IsEmpty
    BY <1>2 DEF IsEmpty, At, queue, OrderInv, Place, Content, Front, After
  <1>3. CASE Arm
    BY <1>3 DEF Arm, At, queue, OrderInv, Place, Content, Front, After
  <1>4. CASE Spin
    BY <1>4 DEF Spin, At, queue, OrderInv, Place, Content, Front, After
  <1>5. CASE Pop
    BY <1>5 DEF Pop, At, queue, OrderInv, Place, Content, Front, After
  <1>6. CASE AdvLoc
    BY <1>6 DEF AdvLoc, At, OrderInv, Place, Content, Front, After
  <1>7. CASE WrapLoc
    <2>1. location = ol + 1 /\ ol \in 0 .. N - 1 /\ location' = After(ol, 1)
      BY <1>7 DEF WrapLoc, At, OrderInv, Place, CountInv, QueueTypeOK, Slots, After
    <2> QED BY <1>7, <2>1 DEF WrapLoc, At, OrderInv, Place, Content, Front, After
  <1>8. CASE Shrink
    BY <1>8 DEF Shrink, At, OrderInv, Place, Content, Front, After
  <1>9. CASE Read
    BY <1>9, ReadOrder
  <1>10. CASE UNCHANGED queueVars
    BY <1>10 DEF queueVars, queue, OrderInv, Place, Content, Front, After
  <1> QED BY <1>1, <1>2, <1>3, <1>4, <1>5, <1>6, <1>7, <1>8, <1>9, <1>10
          DEF QueueNext, GetKey, Press

\* The windows Misplaced names are the only ones: as long as no push falls into
\* one of them, keys are read in the order they were typed, at any capacity.
THEOREM KeysInOrder == QueueSpec => InOrderUnlessClobbered
  <1>1. OrderInv /\ [QueueNext]_queueVars
          => [pc = "read" /\ pc' = "idle" /\ ~clobbered => got' = Head(owed)]_queueVars
    <2> SUFFICES ASSUME OrderInv, QueueNext, pc = "read", pc' = "idle", ~clobbered
                 PROVE  got' = Head(owed)
      BY DEF queueVars
    <2>1. Read
      BY DEF QueueNext, GetKey, Press, KbInt, IsEmpty, Arm, Spin, Pop, AdvLoc, WrapLoc, Shrink, At
    <2> QED BY <2>1, ReadOrder
  <1> QED BY <1>1, OrderStart, OrderStep, PTL DEF QueueSpec, InOrderUnlessClobbered
=============================================================================
