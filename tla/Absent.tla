------------------------------- MODULE Absent -------------------------------
(* A value that stands for none: no identifier, no record.                 *)
CONSTANT None
=============================================================================
