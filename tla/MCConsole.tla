----------------------------- MODULE MCConsole -----------------------------
\* Console for TLC.
EXTENDS Console

CONSTANTS c, d

\* Nothing; a line; text that fills a row to its last cell; text longer than a
\* row; and two lines that move the first off the screen.
SomeOutputs ==
  { <<>>, <<c>>, <<c, Newline, d>>, <<c, d, c, d, c>>, <<c, c, d, c, d, d, d, c>> }
=============================================================================
