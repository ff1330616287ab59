------------------------- MODULE MCCapabilityGateway -------------------------
EXTENDS CapabilityGateway, TLC

CONSTANTS c1, c2, c3, k1

Setting(r, calls, n, m) ==
  [risk |-> r, approval_policy |-> "policy_driven", submits |-> calls,
   repeats |-> n, faults |-> m]

(* Two calls that may be repeated, of an ordinary capability and of one whose *)
(* floor requires an approval; and three calls, none repeated.                *)
TwoOrThree ==
  {Setting(r, {c1, c2}, 1, 1) : r \in {"low", "high"}} \cup {Setting("low", {c1, c2, c3}, 0, 1)}

OneFault == {Setting("low", {c1, c2}, 0, 1)}

(* One call with a checkpoint_ref, the other without. *)
OneCkpt == [d \in ToolCalls |-> IF d = c1 THEN k1 ELSE None]

WorkerSymmetry == Permutations(Workers)
=============================================================================
