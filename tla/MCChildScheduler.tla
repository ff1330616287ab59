-------------------------- MODULE MCChildScheduler --------------------------
(* ChildScheduler on small instances.                                      *)
EXTENDS ChildScheduler, TLC

CONSTANTS a, b, c

(* c waits for both a and b, or the three form a chain. *)
Diamond == (a :> {}) @@ (b :> {}) @@ (c :> {a, b})
Chain == (a :> {}) @@ (b :> {a}) @@ (c :> {b})

(* One child is reported often enough for a result to come back after another. *)
Writes == (a :> 3) @@ (b :> 2) @@ (c :> 1)
=============================================================================
