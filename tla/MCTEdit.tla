------------------------------ MODULE MCTEdit ------------------------------
\* TEdit for TLC.
EXTENDS TEdit

CONSTANT a

\* No text; a text that is longer than the window and does not end in a line feed;
\* and one whose tab is drawn past its row, or in the last row without an end.
SomeFiles ==
  { <<>>, <<a, LineFeed, LineFeed, a>>, <<LineFeed, LineFeed, Tab>> }

\* They are among the files that the theorems about TEdit suppose.
ASSUME FilesAreText == Files = SomeFiles => TextFiles /\ NarrowFiles
=============================================================================
