------------------------------ MODULE MCIoApic ------------------------------
\* IoApic for TLC.
EXTENDS IoApic

IO_APIC(base, pins) == [type |-> "IO_APIC", base |-> base, pins |-> pins]
ISO(source, gsi, low) == [type |-> "ISO", source |-> source, gsi |-> gsi, low |-> low]
Entry(type) == [type |-> type]

\* An I/O APIC without and with the override of the timer that PCs have, once with a
\* second one that comes too late; two I/O APICs, listed backwards; a timer on a pin
\* that no I/O APIC has; no I/O APIC; a keyboard on another pin; a type the code does not know.
SomeMadts == {
  <<Entry("PROCESSOR"), IO_APIC(0, 3)>>,
  <<IO_APIC(0, 4), ISO(0, 2, FALSE), ISO(9, 3, TRUE), ISO(0, 3, FALSE)>>,
  <<ISO(0, 2, FALSE), Entry("NMI"), IO_APIC(2, 2), IO_APIC(0, 2)>>,
  <<ISO(0, 5, FALSE), IO_APIC(0, 2)>>,
  <<Entry("PROCESSOR")>>,
  <<IO_APIC(0, 3), ISO(1, 2, FALSE)>>,
  <<IO_APIC(0, 3), Entry("X2APIC")>>}

ASSUME SomeAreSound == Madts = SomeMadts => TablesSound

\* What the properties are refuted with.
LowKeyboard == {<<IO_APIC(0, 3), ISO(1, 1, TRUE)>>}
Swapped == {<<IO_APIC(0, 3), ISO(0, 1, FALSE), ISO(1, 0, FALSE)>>}
=============================================================================
