----------------------------- MODULE MCRunLease -----------------------------
(* RunLease on small instances.                                            *)
EXTENDS RunLease, TLC

CONSTANTS c1, c2, c3, w1, w2

(* Two clients of one worker and one of another. *)
SharedWorker == (c1 :> w1) @@ (c2 :> w1) @@ (c3 :> w2)
=============================================================================
