--------------------------- MODULE MCCommandLine ---------------------------
(* Command "e", then a blank and up to MaxRest characters of any kind.      *)
EXTENDS CommandLine

CONSTANTS e, w, LineFeed, MaxRest

Meaning == [x \in Alphabet |-> IF x = w THEN LineFeed ELSE x]

Known == {<<e>>}

EnteredLines == {<<e>>} \cup {<<e, Blank>> \o s : s \in UNION {[1 .. m -> Alphabet \ {e}] : m \in 0 .. MaxRest}}
=============================================================================
