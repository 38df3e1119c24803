------------------------------ MODULE StringBytes ------------------------------
(***************************************************************************)
(* Bytes of a C string that are no characters of it.                       *)
(***************************************************************************)

CONSTANTS
  Nul,       \* its terminator
  Other      \* a byte of memory that nobody has written

ASSUME BytesAssumption == Nul # Other
=============================================================================
