--------------------------- MODULE MCEventIntake ---------------------------
(* One event of any kind, for TLC. *)
EXTENDS EventIntake
=============================================================================
