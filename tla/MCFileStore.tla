----------------------------- MODULE MCFileStore -----------------------------
(* Symmetry for TLC: no action and no property tells two names, or two        *)
(* streams, apart (files are numbered: a new file takes the first free one).  *)
EXTENDS FileStore, TLC

Symmetry == Permutations(Names) \cup Permutations(Streams)
=============================================================================
