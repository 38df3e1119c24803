----------------------------- MODULE MCKeyboard -----------------------------
\* Keyboard for TLC.
EXTENDS Keyboard

\* Scan code set 1: codes of one, two, four and six bytes.
SomeKeys == {"C", "RIGHT_SHIFT", "RIGHT_CONTROL", "PRINTSCR", "PAUSE"}

Set1(k, up) ==
  CASE k = "C" -> IF up THEN <<174>> ELSE <<46>>
    [] k = "RIGHT_SHIFT" -> IF up THEN <<182>> ELSE <<54>>
    [] k = "RIGHT_CONTROL" -> IF up THEN <<224, 157>> ELSE <<224, 29>>
    [] k = "PRINTSCR" -> IF up THEN <<224, 183, 224, 170>> ELSE <<224, 42, 224, 55>>
    [] k = "PAUSE" -> <<225, 29, 69, 225, 157, 197>>
    [] k = "UP" -> IF up THEN <<224, 200>> ELSE <<224, 72>>
    [] k = "PGDOWN" -> IF up THEN <<224, 209>> ELSE <<224, 81>>

\* What the proofs assume of a keyboard holds of this one.
ASSUME Set1IsKnown == Keys = SomeKeys => CodesKnown

\* A keyboard that puts arrow keys between fake Shift codes, as many do under Num Lock.
FakeShifts(k, up) ==
  IF k = "UP" THEN IF up THEN <<224, 200, 224, 170>> ELSE <<224, 42, 224, 72>>
  ELSE Set1(k, up)
=============================================================================
