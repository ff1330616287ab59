--------------------------- MODULE MCRunLifecycle ---------------------------
(* The life of one run, for TLC. *)
EXTENDS RunLifecycle
=============================================================================
