-------------------------- MODULE MCTaskScheduler --------------------------
(* TaskScheduler on small instances.                                       *)
EXTENDS TaskScheduler, TLC

(***************************************************************************)
(* Task ids, worker ids, callers and run ids are only compared for equality. *)
(***************************************************************************)
Symmetry ==
  Permutations(Tasks) \cup Permutations(Workers) \cup Permutations(Callers)
    \cup Permutations(RunIds)

(***************************************************************************)
(* A bound on the calls: two that are in flight together are for one event. *)
(* Calls for different keys touch different rows; those for one plain key   *)
(* gain nothing by overlapping, since a claimed row hides from the SELECT   *)
(* of a later call just as well.                                            *)
(***************************************************************************)
OverlapOfOneEvent ==
  \A c, d \in Callers :
     (c # d /\ call[c] # None /\ call[d] # None)
        => call[c].key \in EventKeys /\ call[c].key = call[d].key
=============================================================================
