--------------------------- MODULE MCRotatingLog ---------------------------
(* Values of the constants of RotatingLog for TLC. *)
EXTENDS RotatingLog

AllButShift == Calls \ {"shift"}

=============================================================================
