--------------------------- MODULE TaskLifecycle ---------------------------
(***************************************************************************)
(* What the durable queue promises about a task, without rows, claim       *)
(* tokens, attempt counters, visibility timeouts or sweeps: it waits, it   *)
(* is delivered to one owner at a time, and every delivery ends once.  It  *)
(* is finished by the owner, or it is lost, and then the task waits again  *)
(* unless it was the last delivery of its budget.                          *)
(***************************************************************************)
EXTENDS Naturals

CONSTANTS
  Tasks,   \* the tasks
  Limits   \* the budgets a task may come with

VARIABLES
  stage,      \* "none", "waiting", "owned", "done" or "dead"
  deliveries, \* how often the task was delivered
  limit       \* its budget, 0 before it is entered

lifecycle == <<stage, deliveries, limit>>

LifecycleInit ==
  /\ stage = [t \in Tasks |-> "none"]
  /\ deliveries = [t \in Tasks |-> 0]
  /\ limit = [t \in Tasks |-> 0]

(* A new task; its budget never changes.                                   *)
Enter(t, m) ==
  /\ stage[t] = "none"
  /\ stage' = [stage EXCEPT ![t] = "waiting"]
  /\ limit' = [limit EXCEPT ![t] = m]
  /\ UNCHANGED deliveries

(* Waiting tasks are delivered, each for one more time.                    *)
Deliver(S) ==
  /\ \A t \in S : stage[t] = "waiting"
  /\ stage' = [t \in Tasks |-> IF t \in S THEN "owned" ELSE stage[t]]
  /\ deliveries' = [t \in Tasks |->
                      IF t \in S THEN deliveries[t] + 1 ELSE deliveries[t]]
  /\ UNCHANGED limit

Finish(t) ==
  /\ stage[t] = "owned"
  /\ stage' = [stage EXCEPT ![t] = "done"]
  /\ UNCHANGED <<deliveries, limit>>

(* Owned tasks are lost.  Those that used up their budget are dead.        *)
Lose(S) ==
  /\ \A t \in S : stage[t] = "owned"
  /\ stage' = [t \in Tasks |->
                 IF t \notin S THEN stage[t]
                 ELSE IF deliveries[t] >= limit[t] THEN "dead" ELSE "waiting"]
  /\ UNCHANGED <<deliveries, limit>>

LifecycleNext ==
  \/ \E t \in Tasks, m \in Limits : Enter(t, m)
  \/ \E S \in SUBSET Tasks : Deliver(S) \/ Lose(S)
  \/ \E t \in Tasks : Finish(t)

LifecycleSpec == LifecycleInit /\ [][LifecycleNext]_lifecycle
=============================================================================
