-------------------------- MODULE MCWorkerDispatch --------------------------
(* WorkerDispatch on small instances.                                      *)
EXTENDS WorkerDispatch, TLC

CONSTANTS c1, c2, c3, w1, w2, t1, t2, r1

(* One coroutine per worker, or two for the first one. *)
OneEach == (c1 :> w1) @@ (c2 :> w2)
TwoAndOne == (c1 :> w1) @@ (c2 :> w1) @@ (c3 :> w2)

(* One task of each kind in turn, or two tasks of one run. *)
EachKind == [{t1} -> {r1, Runless, None}]
SameRun == [{t1, t2} -> {r1}]
=============================================================================
