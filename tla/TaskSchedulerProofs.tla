------------------------ MODULE TaskSchedulerProofs ------------------------
(***************************************************************************)
(* Proofs that the safety properties of TaskScheduler hold for all sets of *)
(* tasks, workers, callers and keys and for all limits.                    *)
(***************************************************************************)
EXTENDS TaskScheduler, TLAPS

-----------------------------------------------------------------------------
(* What each operation does to one row.                                    *)

(***************************************************************************)
(* Claiming a waiting row under the next token (pollDueTasks).             *)
(***************************************************************************)
LEMMA ClaimedRow ==
  ASSUME NEW r \in Row, NEW n \in Nat, NEW w \in Workers,
         RowInv(r, n), r.status = "scheduled", r.runIn = 0
  PROVE  Claimed(r, w, n + 1) \in Row /\ RowInv(Claimed(r, w, n + 1), n + 1)
  <1> DEFINE q == Claimed(r, w, n + 1)
  <1>1. q \in Row
    <2>1. VisibilityTimeout \in Nat /\ n + 1 \in Nat
      BY LimitsAssumption
    <2> QED
      BY <2>1 DEF Claimed, Row, Status
  <1>2. /\ q.status = "processing" /\ q.claimedBy = w /\ q.claimToken = n + 1
        /\ q.visIn = VisibilityTimeout /\ q.runIn = r.runIn
        /\ q.attemptCount = r.attemptCount /\ q.maxAttempts = r.maxAttempts
    BY DEF Claimed, Row
  <1>3. /\ r.maxAttempts \in AttemptLimits /\ r.attemptCount < Budget(r)
        /\ n = r.attemptCount
    BY DEF RowInv, Row
  <1>4. w # None /\ VisibilityTimeout # None
    BY LimitsAssumption, NoneAssumption
  <1> HIDE DEF q
  <1>5. Budget(q) = Budget(r)
    BY <1>2 DEF Budget
  <1>6. RowInv(q, n + 1)
    BY <1>2, <1>3, <1>4, <1>5 DEF RowInv
  <1> QED
    BY <1>1, <1>6 DEF q

(***************************************************************************)
(* Extending the visibility timeout of a claimed row (heartbeatTask).      *)
(***************************************************************************)
LEMMA HeartbeatRow ==
  ASSUME NEW r \in Row, NEW n \in Nat, RowInv(r, n), r.status = "processing"
  PROVE  /\ [r EXCEPT !.visIn = VisibilityTimeout] \in Row
         /\ RowInv([r EXCEPT !.visIn = VisibilityTimeout], n)
  BY LimitsAssumption, NoneAssumption DEF Row, Status, RowInv, Budget

(***************************************************************************)
(* Completing a claimed row (completeTask, success).                       *)
(***************************************************************************)
LEMMA CompletedRow ==
  ASSUME NEW r \in Row, NEW n \in Nat, RowInv(r, n), r.status = "processing"
  PROVE  /\ [Unclaimed(r) EXCEPT !.status = "completed"] \in Row
         /\ RowInv([Unclaimed(r) EXCEPT !.status = "completed"], n)
  BY DEF Unclaimed, Row, Status, RowInv, Budget

(***************************************************************************)
(* One more failed attempt of a claimed row (completeTask, failure, and    *)
(* reclaimStuckTasks).                                                     *)
(***************************************************************************)
LEMMA FailedRow ==
  ASSUME NEW r \in Row, NEW n \in Nat, RowInv(r, n), r.status = "processing"
  PROVE  AfterFailure(r) \in Row /\ RowInv(AfterFailure(r), n)
  <1> DEFINE next == r.attemptCount + 1
             q == AfterFailure(r)
  <1>1. /\ r.maxAttempts \in AttemptLimits
        /\ r.maxAttempts \in Nat
        /\ r.runIn = 0
        /\ next \in Nat /\ next >= 1
        /\ n = next
        /\ next <= Budget(r)
    BY DEF RowInv, Row, Budget
  <1>2. /\ q.maxAttempts = r.maxAttempts
        /\ q.claimedBy = None /\ q.claimToken = None /\ q.visIn = None
    BY DEF AfterFailure, Unclaimed, Row
  <1>3. CASE next >= r.maxAttempts
    <2>1. AfterFailure(r) = [Unclaimed(r) EXCEPT !.status = "failed", !.attemptCount = next]
      BY <1>3 DEF AfterFailure
    <2>2. next = Budget(r)
      BY <1>1, <1>3 DEF Budget
    <2>3. q \in Row
      BY <1>1, <2>1 DEF Unclaimed, Row, Status
    <2>4. q.status = "failed" /\ q.attemptCount = next /\ q.runIn = 0
      BY <1>1, <2>1 DEF Unclaimed, Row
    <2> QED
      BY <1>1, <1>2, <2>2, <2>3, <2>4 DEF RowInv, Budget
  <1>4. CASE next < r.maxAttempts
    <2>1. AfterFailure(r) = [Unclaimed(r) EXCEPT !.status = "scheduled",
                                !.attemptCount = next,
                                !.runIn = computeBackoffSeconds(next)]
      BY <1>1, <1>4 DEF AfterFailure
    <2>2. computeBackoffSeconds(next) \in Nat
      BY <1>1, <1>4, BackoffAssumption
    <2>3. q \in Row
      BY <1>1, <2>1, <2>2 DEF Unclaimed, Row, Status
    <2>4. q.status = "scheduled" /\ q.attemptCount = next
      BY <1>1, <2>1 DEF Unclaimed, Row
    <2> QED
      BY <1>1, <1>4, <1>2, <2>3, <2>4 DEF RowInv, Budget
  <1> QED
    BY <1>1, <1>3, <1>4

(***************************************************************************)
(* A row fresh from the INSERT of scheduleTask.                            *)
(***************************************************************************)
LEMMA InsertedRow ==
  ASSUME NEW req \in Request
  PROVE  NewRow(req) \in Row /\ RowInv(NewRow(req), 0)
  <1> DEFINE q == NewRow(req)
  <1>1. req.maxAttempts \in AttemptLimits /\ req.maxAttempts \in Nat /\ req.delay \in Nat
    BY LimitsAssumption DEF Request
  <1>2. q \in Row
    BY <1>1 DEF NewRow, Request, Row, Status
  <1>3. /\ q.status = "scheduled" /\ q.maxAttempts = req.maxAttempts
        /\ q.attemptCount = 0
        /\ q.claimedBy = None /\ q.claimToken = None /\ q.visIn = None
    BY DEF NewRow
  <1> HIDE DEF q
  <1>4. RowInv(q, 0)
    BY <1>1, <1>3 DEF RowInv, Budget
  <1> QED
    BY <1>2, <1>4 DEF q

(***************************************************************************)
(* Merging a payload into a waiting row (scheduleTask).                    *)
(***************************************************************************)
LEMMA MergedRow ==
  ASSUME NEW r \in Row, NEW n \in Nat, NEW id \in RunIds \cup {None},
         RowInv(r, n), r.status = "scheduled"
  PROVE  [r EXCEPT !.runId = id] \in Row /\ RowInv([r EXCEPT !.runId = id], n)
  BY DEF Row, Status, RowInv, Budget

(***************************************************************************)
(* The passage of time.                                                    *)
(***************************************************************************)
LEMMA TickedRow ==
  ASSUME NEW r \in Row, NEW n \in Nat, RowInv(r, n)
  PROVE  /\ [r EXCEPT !.runIn = Pred(@), !.visIn = Pred(@)] \in Row
         /\ RowInv([r EXCEPT !.runIn = Pred(@), !.visIn = Pred(@)], n)
  <1>1. Pred(r.runIn) \in Nat /\ (r.runIn = 0 => Pred(r.runIn) = 0)
    BY DEF Pred, Row
  <1>2. /\ Pred(r.visIn) \in Nat \cup {None}
        /\ Pred(r.visIn) = None <=> r.visIn = None
    BY NoneAssumption DEF Pred, Row
  <1> DEFINE q == [r EXCEPT !.runIn = Pred(@), !.visIn = Pred(@)]
  <1>3. q \in Row
    BY <1>1, <1>2 DEF Row
  <1>4. CASE r.status = "absent"
    <2>1. r = NoRow
      BY <1>4 DEF RowInv
    <2>2. r.runIn = 0 /\ r.visIn = None
      BY <2>1 DEF NoRow
    <2>3. q = [r EXCEPT !.runIn = r.runIn, !.visIn = r.visIn]
      BY <1>1, <1>2, <2>2
    <2>4. q = r
      BY <2>3 DEF Row
    <2> QED
      BY <1>3, <2>4
  <1>5. CASE r.status # "absent"
    <2>1. /\ q.status = r.status /\ q.maxAttempts = r.maxAttempts
          /\ q.attemptCount = r.attemptCount
          /\ q.claimedBy = r.claimedBy /\ q.claimToken = r.claimToken
          /\ q.visIn = Pred(r.visIn) /\ q.runIn = Pred(r.runIn)
      BY DEF Row
    <2> HIDE DEF q
    <2>2. RowInv(q, n)
      BY <1>1, <1>2, <1>5, <2>1 DEF RowInv, Budget
    <2> QED
      BY <1>3, <2>2 DEF q
  <1> QED
    BY <1>4, <1>5

-----------------------------------------------------------------------------
(* The inductive invariant.                                                *)

LEMMA InitInv == Init => IndInv
  <1> SUFFICES ASSUME Init PROVE IndInv
    OBVIOUS
  <1>1. NoRow \in Row /\ RowInv(NoRow, 0)
    BY DEF NoRow, Row, Status, RowInv
  <1>2. TypeOK
    BY <1>1 DEF Init, TypeOK
  <1>3. RowsInv
    BY <1>1 DEF Init, RowsInv
  <1>4. GrantsInv
    BY DEF Init, GrantsInv
  <1> QED
    BY <1>2, <1>3, <1>4 DEF IndInv

(***************************************************************************)
(* A step that leaves claims and granted alone, and maps every row to one  *)
(* that satisfies RowInv, preserves the invariant.                         *)
(***************************************************************************)
LEMMA RowStep ==
  ASSUME IndInv, claims' = claims, granted' = granted,
         call' \in [Callers -> Request \cup {None}], overlapped' \subseteq EventKeys,
         row' \in [Tasks -> Row],
         \A t \in Tasks : RowInv(row'[t], claims[t])
  PROVE  IndInv'
  BY DEF IndInv, TypeOK, RowsInv, GrantsInv

LEMMA CoalesceStep ==
  ASSUME IndInv, NEW c \in Callers, NEW req \in Request, ScheduleCoalesce(c, req)
  PROVE  IndInv'
  <1>1. PICK t \in Tasks :
           /\ row[t].status = "scheduled"
           /\ row' = [row EXCEPT ![t].runId = MergedRunId(t, req)]
    BY DEF ScheduleCoalesce, Coalescible
  <1>2. row \in [Tasks -> Row] /\ claims[t] \in Nat /\ RowInv(row[t], claims[t])
    BY DEF IndInv, TypeOK, RowsInv
  <1>3. MergedRunId(t, req) \in RunIds \cup {None}
    BY <1>2 DEF MergedRunId, Row, Request
  <1> DEFINE q == [row[t] EXCEPT !.runId = MergedRunId(t, req)]
  <1>4. q \in Row /\ RowInv(q, claims[t])
    BY <1>1, <1>2, <1>3, MergedRow
  <1>5. row' = [row EXCEPT ![t] = q]
    BY <1>1
  <1> HIDE DEF q
  <1>6. \A u \in Tasks : RowInv(row'[u], claims[u])
    BY <1>2, <1>4, <1>5 DEF IndInv, RowsInv
  <1>7. row' \in [Tasks -> Row]
    BY <1>2, <1>4, <1>5
  <1> QED
    BY <1>6, <1>7, RowStep DEF ScheduleCoalesce, IndInv, TypeOK

LEMMA MissStep ==
  ASSUME IndInv, NEW c \in Callers, NEW req \in Request, ScheduleMiss(c, req)
  PROVE  IndInv'
  BY RowStep DEF ScheduleMiss, IndInv, TypeOK, RowsInv

LEMMA InsertStep ==
  ASSUME IndInv, NEW c \in Callers, NEW t \in Tasks, ScheduleInsert(c, t)
  PROVE  IndInv'
  <1>1. call[c] \in Request
    BY DEF ScheduleInsert, IndInv, TypeOK
  <1>2. row \in [Tasks -> Row] /\ claims[t] \in Nat /\ RowInv(row[t], claims[t])
    BY DEF IndInv, TypeOK, RowsInv
  <1>3. claims[t] = 0
    <2>1. row[t].status = "absent"
      BY DEF ScheduleInsert
    <2>2. row[t] = NoRow /\ claims[t] = row[t].attemptCount + 0
      BY <1>2, <2>1 DEF RowInv
    <2> QED
      BY <2>2 DEF NoRow
  <1> DEFINE q == NewRow(call[c])
  <1>4. q \in Row /\ RowInv(q, claims[t])
    BY <1>1, <1>3, InsertedRow
  <1>5. row' = row \/ row' = [row EXCEPT ![t] = q]
    BY DEF ScheduleInsert
  <1> HIDE DEF q
  <1>6. \A u \in Tasks : RowInv(row'[u], claims[u])
    BY <1>2, <1>4, <1>5 DEF IndInv, RowsInv
  <1>7. row' \in [Tasks -> Row]
    BY <1>2, <1>4, <1>5
  <1>8. call' \in [Callers -> Request \cup {None}]
    BY DEF ScheduleInsert, IndInv, TypeOK
  <1> QED
    BY <1>6, <1>7, <1>8, RowStep DEF ScheduleInsert, IndInv, TypeOK

LEMMA PollStep ==
  ASSUME IndInv, NEW w \in Workers, NEW S \in SUBSET Tasks, PollDueTasks(w, S)
  PROVE  IndInv'
  <1>1. /\ row \in [Tasks -> Row] /\ claims \in [Tasks -> Nat]
        /\ granted \in [Workers -> SUBSET (Tasks \X Nat)]
        /\ RowsInv /\ GrantsInv
    BY DEF IndInv, TypeOK
  <1>2. ASSUME NEW t \in Tasks
        PROVE  /\ row'[t] \in Row
               /\ claims'[t] \in Nat
               /\ claims'[t] >= claims[t]
               /\ RowInv(row'[t], claims'[t])
    <2>1. CASE t \in S
      <3>1. row[t].status = "scheduled" /\ row[t].runIn = 0
        BY <2>1 DEF PollDueTasks, Due
      <3>2. claims'[t] = claims[t] + 1 /\ row'[t] = Claimed(row[t], w, claims[t] + 1)
        BY <2>1 DEF PollDueTasks
      <3> QED
        BY <1>1, <3>1, <3>2, ClaimedRow DEF RowsInv
    <2>2. CASE t \notin S
      BY <1>1, <2>2 DEF PollDueTasks, RowsInv
    <2> QED
      BY <2>1, <2>2
  <1> DEFINE new == {<<t, claims[t] + 1>> : t \in S}
  <1>3. granted' = [granted EXCEPT ![w] = granted[w] \cup new]
    BY DEF PollDueTasks
  <1>4. new \subseteq Tasks \X Nat
    BY <1>1
  <1>5. TypeOK'
    <2>1. row' \in [Tasks -> Row] /\ claims' \in [Tasks -> Nat]
      BY <1>2 DEF PollDueTasks
    <2>2. granted' \in [Workers -> SUBSET (Tasks \X Nat)]
      BY <1>1, <1>3, <1>4
    <2> QED
      BY <2>1, <2>2 DEF TypeOK, IndInv, PollDueTasks
  <1>6. RowsInv'
    BY <1>2 DEF RowsInv
  <1>7. \A g \in new : /\ g[1] \in S /\ g[2] = claims[g[1]] + 1
                       /\ \A v \in Workers : g \notin granted[v]
    BY <1>1 DEF GrantsInv
  <1>8. \A g \in new : g[2] <= claims'[g[1]]
    BY <1>1, <1>7 DEF PollDueTasks
  <1> HIDE DEF new
  <1>9. GrantsInv'
    <2> SUFFICES ASSUME NEW u \in Workers, NEW g \in granted'[u]
                 PROVE  /\ g[2] <= claims'[g[1]]
                        /\ \A v \in Workers \ {u} : g \notin granted'[v]
      BY DEF GrantsInv
    <2>1. CASE g \in new
      BY <1>1, <1>3, <1>7, <1>8, <2>1
    <2>2. CASE g \notin new
      <3>1. g \in granted[u]
        BY <1>1, <1>3, <2>2
      <3>2. g[1] \in Tasks /\ g[2] \in Nat
        BY <1>1, <3>1
      <3>3. g[2] <= claims'[g[1]]
        BY <1>1, <1>2, <3>1, <3>2 DEF GrantsInv
      <3>4. \A v \in Workers \ {u} : g \notin granted'[v]
        BY <1>1, <1>3, <2>2, <3>1 DEF GrantsInv
      <3> QED
        BY <3>3, <3>4
    <2> QED
      BY <2>1, <2>2
  <1> QED
    BY <1>5, <1>6, <1>9 DEF IndInv

(***************************************************************************)
(* A step that replaces one claimed row by q and leaves the rest alone.    *)
(***************************************************************************)
LEMMA OneRowStep ==
  ASSUME IndInv, NEW t \in Tasks, NEW q \in Row, RowInv(q, claims[t]),
         row' = [row EXCEPT ![t] = q],
         claims' = claims, granted' = granted, call' = call,
         overlapped' = overlapped
  PROVE  IndInv'
  <1>1. row \in [Tasks -> Row] /\ RowsInv
    BY DEF IndInv, TypeOK
  <1>2. \A u \in Tasks : RowInv(row'[u], claims[u])
    BY <1>1 DEF RowsInv
  <1>3. row' \in [Tasks -> Row]
    BY <1>1
  <1> QED
    BY <1>2, <1>3, RowStep DEF IndInv, TypeOK

LEMMA HeartbeatStep ==
  ASSUME IndInv, NEW w \in Workers, NEW t, NEW k, HeartbeatTask(w, t, k)
  PROVE  IndInv'
  <1>1. t \in Tasks /\ row[t].status = "processing"
    BY DEF HeartbeatTask, HoldsClaim, IndInv, TypeOK
  <1>2. row[t] \in Row /\ claims[t] \in Nat /\ RowInv(row[t], claims[t])
    BY <1>1 DEF IndInv, TypeOK, RowsInv
  <1> DEFINE q == [row[t] EXCEPT !.visIn = VisibilityTimeout]
  <1>3. q \in Row /\ RowInv(q, claims[t])
    BY <1>1, <1>2, HeartbeatRow
  <1>4. row' = [row EXCEPT ![t] = q]
    BY DEF HeartbeatTask
  <1> QED
    BY <1>1, <1>3, <1>4, OneRowStep DEF HeartbeatTask

LEMMA SuccessStep ==
  ASSUME IndInv, NEW w \in Workers, NEW t, NEW k, CompleteSuccess(w, t, k)
  PROVE  IndInv'
  <1>1. t \in Tasks /\ row[t].status = "processing"
    BY DEF CompleteSuccess, HoldsClaim, IndInv, TypeOK
  <1>2. row[t] \in Row /\ claims[t] \in Nat /\ RowInv(row[t], claims[t])
    BY <1>1 DEF IndInv, TypeOK, RowsInv
  <1>3. /\ [Unclaimed(row[t]) EXCEPT !.status = "completed"] \in Row
        /\ RowInv([Unclaimed(row[t]) EXCEPT !.status = "completed"], claims[t])
    BY <1>1, <1>2, CompletedRow
  <1> QED
    BY <1>1, <1>3, OneRowStep DEF CompleteSuccess

LEMMA FailureStep ==
  ASSUME IndInv, NEW w \in Workers, NEW t, NEW k, CompleteFailure(w, t, k)
  PROVE  IndInv'
  <1>1. t \in Tasks /\ row[t].status = "processing"
    BY DEF CompleteFailure, HoldsClaim, IndInv, TypeOK
  <1>2. row[t] \in Row /\ claims[t] \in Nat /\ RowInv(row[t], claims[t])
    BY <1>1 DEF IndInv, TypeOK, RowsInv
  <1>3. AfterFailure(row[t]) \in Row /\ RowInv(AfterFailure(row[t]), claims[t])
    BY <1>1, <1>2, FailedRow
  <1> QED
    BY <1>1, <1>3, OneRowStep DEF CompleteFailure

LEMMA ReclaimStep ==
  ASSUME IndInv, NEW S \in SUBSET Tasks, ReclaimStuckTasks(S)
  PROVE  IndInv'
  <1>1. row \in [Tasks -> Row] /\ claims \in [Tasks -> Nat] /\ RowsInv
    BY DEF IndInv, TypeOK
  <1>2. ASSUME NEW t \in Tasks
        PROVE  row'[t] \in Row /\ RowInv(row'[t], claims[t])
    <2>1. CASE t \in S
      <3>1. row[t].status = "processing"
        BY <2>1 DEF ReclaimStuckTasks, Stuck
      <3>2. row'[t] = AfterFailure(row[t])
        BY <2>1 DEF ReclaimStuckTasks, Swept
      <3> QED
        BY <1>1, <3>1, <3>2, FailedRow DEF RowsInv
    <2>2. CASE t \notin S
      BY <1>1, <2>2 DEF ReclaimStuckTasks, Swept, RowsInv
    <2> QED
      BY <2>1, <2>2
  <1>3. row' \in [Tasks -> Row]
    BY <1>2 DEF ReclaimStuckTasks, Swept
  <1> QED
    BY <1>2, <1>3, RowStep DEF ReclaimStuckTasks, IndInv, TypeOK

LEMMA TickStep ==
  ASSUME IndInv, Tick
  PROVE  IndInv'
  <1>1. row \in [Tasks -> Row] /\ claims \in [Tasks -> Nat] /\ RowsInv
    BY DEF IndInv, TypeOK
  <1>2. ASSUME NEW t \in Tasks
        PROVE  row'[t] \in Row /\ RowInv(row'[t], claims[t])
    <2>1. row'[t] = [row[t] EXCEPT !.runIn = Pred(@), !.visIn = Pred(@)]
      BY DEF Tick, Elapse
    <2>2. row[t] \in Row /\ claims[t] \in Nat /\ RowInv(row[t], claims[t])
      BY <1>1 DEF RowsInv
    <2> DEFINE q == [row[t] EXCEPT !.runIn = Pred(@), !.visIn = Pred(@)]
    <2>3. q \in Row /\ RowInv(q, claims[t])
      BY <2>2, TickedRow
    <2> QED
      BY <2>1, <2>3
  <1>3. row' \in [Tasks -> Row]
    BY <1>2 DEF Tick, Elapse
  <1> QED
    BY <1>2, <1>3, RowStep DEF Tick, Elapse, IndInv, TypeOK

(***************************************************************************)
(* Every step of every operation preserves the invariant.                  *)
(***************************************************************************)
THEOREM Inductive == Spec => []IndInv
  <1>1. IndInv /\ [Next]_vars => IndInv'
    <2> SUFFICES ASSUME IndInv, [Next]_vars PROVE IndInv'
      OBVIOUS
    <2>1. CASE UNCHANGED vars
      BY <2>1 DEF vars, IndInv, TypeOK, RowsInv, GrantsInv
    <2>2. CASE Next
      BY <2>2, CoalesceStep, MissStep, InsertStep, PollStep, HeartbeatStep,
         SuccessStep, FailureStep, ReclaimStep, TickStep DEF Next
    <2> QED
      BY <2>1, <2>2
  <1> QED
    BY <1>1, InitInv, PTL DEF Spec

-----------------------------------------------------------------------------
(* The properties.                                                         *)

(***************************************************************************)
(* The table and the workers' claims keep their types under every          *)
(* interleaving of callers, workers and sweeper.                           *)
(***************************************************************************)
THEOREM TypeCorrect == Spec => []TypeOK
  <1>1. IndInv => TypeOK
    BY DEF IndInv
  <1> QED
    BY <1>1, Inductive, PTL

(***************************************************************************)
(* Every claim is settled exactly once, whatever completions, failures and *)
(* sweeps race for it (completeTask, reclaimStuckTasks).                   *)
(***************************************************************************)
THEOREM ClaimsSettledOnce == Spec => []ClaimAccounting
  <1>1. IndInv => ClaimAccounting
    BY DEF IndInv, RowsInv, RowInv, ClaimAccounting
  <1> QED
    BY <1>1, Inductive, PTL

(***************************************************************************)
(* No task is handed out more often than its attempt budget allows, and it *)
(* is dead-lettered exactly at the budget.                                 *)
(***************************************************************************)
THEOREM DeliveriesBounded == Spec => []BoundedDeliveries
  <1>1. IndInv => BoundedDeliveries
    <2> SUFFICES ASSUME IndInv, NEW t \in Tasks, row[t].status # "absent"
                 PROVE  /\ claims[t] <= Budget(row[t])
                        /\ row[t].status = "failed" <=> row[t].attemptCount = Budget(row[t])
      BY DEF BoundedDeliveries
    <2>1. row[t] \in Row /\ RowInv(row[t], claims[t])
      BY DEF IndInv, TypeOK, RowsInv
    <2>2. row[t].attemptCount \in Nat /\ Budget(row[t]) \in Nat
      BY <2>1 DEF Row, Budget
    <2>3. row[t].status \in {"scheduled", "processing", "completed", "failed"}
      BY <2>1 DEF Row, Status
    <2> QED
      BY <2>1, <2>2, <2>3 DEF RowInv
  <1> QED
    BY <1>1, Inductive, PTL

(***************************************************************************)
(* Fencing: a claim that passes the check is the newest one of its task,   *)
(* and no other worker knows it.                                           *)
(***************************************************************************)
THEOREM Fencing == Spec => []SoleClaimant
  <1>1. IndInv => SoleClaimant
    <2> SUFFICES ASSUME IndInv, NEW w \in Workers, NEW g \in granted[w],
                        HoldsClaim(w, g[1], g[2])
                 PROVE  /\ g[2] = claims[g[1]]
                        /\ \A v \in Workers \ {w} : g \notin granted[v]
      BY DEF SoleClaimant
    <2>1. g[1] \in Tasks
      BY DEF IndInv, TypeOK
    <2>2. g[2] = claims[g[1]]
      BY <2>1 DEF HoldsClaim, IndInv, RowsInv, RowInv
    <2> QED
      BY <2>2 DEF IndInv, GrantsInv
  <1> QED
    BY <1>1, Inductive, PTL

(***************************************************************************)
(* No step redirects a task to another run or re-opens a finished row: not *)
(* a coalescing call, a late completion, a heartbeat or a sweep.           *)
(***************************************************************************)
THEOREM IdentityStable == Spec => TaskIdentityStable
  <1> DEFINE Kept(t) ==
        /\ row[t].runId # None => row'[t].runId = row[t].runId
        /\ row[t].status \in {"completed", "failed"} => row'[t] = row[t]
  <1>1. IndInv /\ [Next]_vars => [\A t \in Tasks : Kept(t)]_vars
    <2> SUFFICES ASSUME IndInv, Next, NEW t \in Tasks PROVE Kept(t)
      OBVIOUS
    <2>1. row \in [Tasks -> Row] /\ row[t] \in Row /\ RowInv(row[t], claims[t])
      BY DEF IndInv, TypeOK, RowsInv
    <2>2. ASSUME NEW c \in Callers, NEW req \in Request, ScheduleCoalesce(c, req)
          PROVE  Kept(t)
      <3>1. PICK u \in Tasks :
               /\ row[u].status = "scheduled"
               /\ row' = [row EXCEPT ![u].runId = MergedRunId(u, req)]
        BY <2>2 DEF ScheduleCoalesce, Coalescible
      <3>2. CASE t = u
        <4>1. row'[t] = [row[t] EXCEPT !.runId = MergedRunId(t, req)]
          BY <2>1, <3>1, <3>2
        <4>2. row'[t].runId = MergedRunId(t, req)
          BY <2>1, <4>1 DEF Row
        <4> QED
          BY <3>1, <3>2, <4>2 DEF MergedRunId
      <3>3. CASE t # u
        BY <2>1, <3>1, <3>3
      <3> QED
        BY <3>2, <3>3
    <2>3. ASSUME NEW c \in Callers, NEW req \in Request, ScheduleMiss(c, req)
          PROVE  Kept(t)
      BY <2>3 DEF ScheduleMiss
    <2>4. ASSUME NEW c \in Callers, NEW u \in Tasks, ScheduleInsert(c, u)
          PROVE  Kept(t)
      <3>1. CASE t = u
        <4>1. row[t] = NoRow
          BY <2>1, <2>4, <3>1 DEF ScheduleInsert, RowInv
        <4> QED
          BY <4>1 DEF NoRow
      <3>2. CASE t # u
        BY <2>1, <2>4, <3>2 DEF ScheduleInsert
      <3> QED
        BY <3>1, <3>2
    <2>5. ASSUME NEW w \in Workers, NEW S \in SUBSET Tasks, PollDueTasks(w, S)
          PROVE  Kept(t)
      <3>1. CASE t \in S
        <4>1. row[t].status = "scheduled" /\ row'[t] = Claimed(row[t], w, claims[t] + 1)
          BY <2>5, <3>1 DEF PollDueTasks, Due
        <4> QED
          BY <2>1, <4>1 DEF Claimed, Row
      <3>2. CASE t \notin S
        BY <2>5, <3>2 DEF PollDueTasks
      <3> QED
        BY <3>1, <3>2
    <2>6. ASSUME NEW u \in Tasks, NEW q, row[u].status = "processing",
                 q.runId = row[u].runId, row' = [row EXCEPT ![u] = q]
          PROVE  Kept(t)
      BY <2>1, <2>6
    <2>7. ASSUME NEW w \in Workers, NEW g \in granted[w],
                 \/ HeartbeatTask(w, g[1], g[2])
                 \/ CompleteSuccess(w, g[1], g[2])
                 \/ CompleteFailure(w, g[1], g[2])
          PROVE  Kept(t)
      <3> DEFINE u == g[1]
      <3>1. u \in Tasks /\ row[u] \in Row /\ row[u].status = "processing"
        BY <2>7 DEF HeartbeatTask, CompleteSuccess, CompleteFailure, HoldsClaim, IndInv, TypeOK
      <3>2. CASE HeartbeatTask(w, u, g[2])
        <4> DEFINE q == [row[u] EXCEPT !.visIn = VisibilityTimeout]
        <4>1. row' = [row EXCEPT ![u] = q]
          BY <3>2 DEF HeartbeatTask
        <4>2. q.runId = row[u].runId
          BY <3>1 DEF Row
        <4> QED
          BY <2>6, <3>1, <4>1, <4>2
      <3>3. CASE CompleteSuccess(w, u, g[2])
        <4> DEFINE q == [Unclaimed(row[u]) EXCEPT !.status = "completed"]
        <4>1. row' = [row EXCEPT ![u] = q]
          BY <3>3 DEF CompleteSuccess
        <4>2. q.runId = row[u].runId
          BY <3>1 DEF Row, Unclaimed
        <4> QED
          BY <2>6, <3>1, <4>1, <4>2
      <3>4. CASE CompleteFailure(w, u, g[2])
        <4>1. row' = [row EXCEPT ![u] = AfterFailure(row[u])]
          BY <3>4 DEF CompleteFailure
        <4>2. AfterFailure(row[u]).runId = row[u].runId
          BY <3>1 DEF Row, Unclaimed, AfterFailure
        <4> QED
          BY <2>6, <3>1, <4>1, <4>2
      <3> QED
        BY <2>7, <3>2, <3>3, <3>4
    <2>8. ASSUME NEW S \in SUBSET Tasks, ReclaimStuckTasks(S)
          PROVE  Kept(t)
      <3>1. CASE t \in S
        <4>1. row[t].status = "processing" /\ row'[t] = AfterFailure(row[t])
          BY <2>8, <3>1 DEF ReclaimStuckTasks, Stuck, Swept
        <4>2. AfterFailure(row[t]).runId = row[t].runId
          BY <2>1 DEF Row, Unclaimed, AfterFailure
        <4> QED
          BY <4>1, <4>2
      <3>2. CASE t \notin S
        BY <2>8, <3>2 DEF ReclaimStuckTasks, Swept
      <3> QED
        BY <3>1, <3>2
    <2>9. CASE Tick
      <3>1. row'[t] = [row[t] EXCEPT !.runIn = Pred(@), !.visIn = Pred(@)]
        BY <2>9 DEF Tick, Elapse
      <3>2. row'[t].runId = row[t].runId
        BY <2>1, <3>1 DEF Row
      <3>3. ASSUME row[t].status \in {"completed", "failed"} PROVE row'[t] = row[t]
        <4>1. row[t].runIn = 0 /\ row[t].visIn = None
          BY <2>1, <3>3 DEF RowInv
        <4>2. Pred(row[t].runIn) = row[t].runIn /\ Pred(row[t].visIn) = row[t].visIn
          BY <4>1, NoneAssumption DEF Pred
        <4>3. row'[t] = [row[t] EXCEPT !.runIn = row[t].runIn, !.visIn = row[t].visIn]
          BY <3>1, <4>2
        <4> QED
          BY <2>1, <4>3 DEF Row
      <3> QED
        BY <3>2, <3>3
    <2> QED
      BY <2>2, <2>3, <2>4, <2>5, <2>7, <2>8, <2>9 DEF Next
  <1> QED
    BY <1>1, Inductive, PTL DEF Spec, TaskIdentityStable

-----------------------------------------------------------------------------
(* The refinement of TaskLifecycle.                                        *)

(***************************************************************************)
(* A step that moves no row to another status and no budget is no step of  *)
(* the lifecycle.                                                          *)
(***************************************************************************)
LEMMA LifecycleStutters ==
  ASSUME UNCHANGED claims,
         \A t \in Tasks : /\ row'[t].status = row[t].status
                          /\ row'[t].maxAttempts = row[t].maxAttempts
  PROVE  UNCHANGED Lifecycle!lifecycle
  <1>1. \A t \in Tasks : Stage(row[t])' = Stage(row[t])
    BY DEF Stage
  <1> QED
    BY <1>1 DEF Lifecycle!lifecycle

(***************************************************************************)
(* A failed attempt is the loss of the task's newest delivery: comparing   *)
(* the attempt counter with the budget is counting the claims.             *)
(***************************************************************************)
LEMMA FailureIsLoss ==
  ASSUME NEW r \in Row, NEW n \in Nat, RowInv(r, n), r.status = "processing"
  PROVE  /\ AfterFailure(r).maxAttempts = r.maxAttempts
         /\ Stage(AfterFailure(r)) =
              IF n >= r.maxAttempts THEN "dead" ELSE "waiting"
  <1>1. n = r.attemptCount + 1 /\ r.attemptCount \in Nat /\ r.maxAttempts \in Nat
    BY DEF RowInv, Row
  <1>2. /\ AfterFailure(r).maxAttempts = r.maxAttempts
        /\ AfterFailure(r).status =
             IF n >= r.maxAttempts THEN "failed" ELSE "scheduled"
    BY <1>1 DEF AfterFailure, Unclaimed, Row
  <1> QED
    BY <1>2 DEF Stage

(***************************************************************************)
(* Losing the deliveries of a set of tasks: completeTask with a failure    *)
(* for one, reclaimStuckTasks for many.                                    *)
(***************************************************************************)
LEMMA LossRefines ==
  ASSUME IndInv, NEW S \in SUBSET Tasks, UNCHANGED claims,
         \A t \in S : row[t].status = "processing",
         row' = [t \in Tasks |-> IF t \in S THEN AfterFailure(row[t]) ELSE row[t]]
  PROVE  Lifecycle!Lose(S)
  <1>1. \A t \in Tasks : row[t] \in Row /\ claims[t] \in Nat /\ RowInv(row[t], claims[t])
    BY DEF IndInv, TypeOK, RowsInv
  <1>2. \A t \in S : /\ row'[t].maxAttempts = row[t].maxAttempts
                     /\ Stage(row'[t]) = IF claims[t] >= row[t].maxAttempts
                                           THEN "dead" ELSE "waiting"
    BY <1>1, FailureIsLoss
  <1>3. \A t \in Tasks \ S : row'[t] = row[t]
    OBVIOUS
  <1>4. \A t \in S : Stage(row[t]) = "owned"
    BY DEF Stage
  <1> QED
    BY <1>2, <1>3, <1>4 DEF Lifecycle!Lose

(***************************************************************************)
(* The table implements the life of a task: whatever callers, workers and  *)
(* the sweeper do, a task is owned by one delivery at a time, each ends    *)
(* once, and the budget counts deliveries.                                 *)
(***************************************************************************)
THEOREM LifecycleImplemented == Spec => ImplementsLifecycle
  <1>1. Init => Lifecycle!LifecycleInit
    BY DEF Init, NoRow, Stage, Lifecycle!LifecycleInit
  <1>2. IndInv /\ [Next]_vars
          => [Lifecycle!LifecycleNext]_(Lifecycle!lifecycle)
    <2> SUFFICES ASSUME IndInv, [Next]_vars
                 PROVE  Lifecycle!LifecycleNext \/ UNCHANGED Lifecycle!lifecycle
      OBVIOUS
    <2> DEFINE Moves == Lifecycle!LifecycleNext \/ UNCHANGED Lifecycle!lifecycle
    <2>1. row \in [Tasks -> Row] /\ \A t \in Tasks : row[t] \in Row
      BY DEF IndInv, TypeOK
    <2>2. CASE UNCHANGED vars
      BY <2>2 DEF vars, Stage, Lifecycle!lifecycle
    <2>3. ASSUME NEW c \in Callers, NEW req \in Request, ScheduleCoalesce(c, req)
          PROVE  Moves
      <3>1. PICK u \in Tasks : row' = [row EXCEPT ![u].runId = MergedRunId(u, req)]
        BY <2>3 DEF ScheduleCoalesce, Coalescible
      <3>2. \A t \in Tasks : /\ row'[t].status = row[t].status
                             /\ row'[t].maxAttempts = row[t].maxAttempts
        BY <2>1, <3>1 DEF Row
      <3> QED
        BY <2>3, <3>2, LifecycleStutters DEF ScheduleCoalesce
    <2>4. ASSUME NEW c \in Callers, NEW req \in Request, ScheduleMiss(c, req)
          PROVE  Moves
      BY <2>4, LifecycleStutters DEF ScheduleMiss
    <2>5. ASSUME NEW c \in Callers, NEW t \in Tasks, ScheduleInsert(c, t)
          PROVE  Moves
      <3>1. CASE row' = row
        BY <2>5, <3>1, LifecycleStutters DEF ScheduleInsert
      <3>2. CASE row' = [row EXCEPT ![t] = NewRow(call[c])]
        <4>1. call[c] \in Request
          BY <2>5 DEF ScheduleInsert, IndInv, TypeOK
        <4>2. /\ Stage(row[t]) = "none" /\ Stage(NewRow(call[c])) = "waiting"
              /\ NewRow(call[c]).maxAttempts = call[c].maxAttempts
              /\ call[c].maxAttempts \in AttemptLimits
          BY <2>5, <4>1 DEF ScheduleInsert, NewRow, Stage, Request
        <4>3. PICK m \in AttemptLimits : m = call[c].maxAttempts
          BY <4>2
        <4>4. Lifecycle!Enter(t, m)
          BY <2>1, <2>5, <3>2, <4>2, <4>3 DEF ScheduleInsert, Lifecycle!Enter
        <4> QED
          BY <4>4 DEF Lifecycle!LifecycleNext
      <3> QED
        BY <2>5, <3>1, <3>2 DEF ScheduleInsert
    <2>6. ASSUME NEW w \in Workers, NEW S \in SUBSET Tasks, PollDueTasks(w, S)
          PROVE  Moves
      <3>1. /\ \A t \in S : Stage(row[t]) = "waiting"
            /\ \A t \in S : row'[t] = Claimed(row[t], w, claims[t] + 1)
            /\ \A t \in Tasks \ S : row'[t] = row[t]
        BY <2>6 DEF PollDueTasks, Due, Stage
      <3>2. \A t \in S : /\ Stage(row'[t]) = "owned"
                         /\ row'[t].maxAttempts = row[t].maxAttempts
        BY <2>1, <3>1 DEF Claimed, Row, Stage
      <3>3. Lifecycle!Deliver(S)
        BY <2>6, <3>1, <3>2 DEF PollDueTasks, Lifecycle!Deliver
      <3> QED
        BY <3>3 DEF Lifecycle!LifecycleNext
    <2>7. ASSUME NEW w \in Workers, NEW g \in granted[w],
                 \/ HeartbeatTask(w, g[1], g[2])
                 \/ CompleteSuccess(w, g[1], g[2])
                 \/ CompleteFailure(w, g[1], g[2])
          PROVE  Moves
      <3> DEFINE u == g[1]
      <3>1. u \in Tasks /\ row[u] \in Row /\ row[u].status = "processing"
            /\ UNCHANGED claims
        BY <2>7 DEF HeartbeatTask, CompleteSuccess, CompleteFailure, HoldsClaim,
                    IndInv, TypeOK
      <3>2. CASE HeartbeatTask(w, u, g[2])
        <4>1. \A t \in Tasks : /\ row'[t].status = row[t].status
                               /\ row'[t].maxAttempts = row[t].maxAttempts
          BY <2>1, <3>1, <3>2 DEF HeartbeatTask, Row
        <4> QED
          BY <3>1, <4>1, LifecycleStutters
      <3>3. CASE CompleteSuccess(w, u, g[2])
        <4> DEFINE q == [Unclaimed(row[u]) EXCEPT !.status = "completed"]
        <4>1. row' = [row EXCEPT ![u] = q]
          BY <3>3 DEF CompleteSuccess
        <4>2. q.status = "completed" /\ q.maxAttempts = row[u].maxAttempts
          BY <3>1 DEF Row, Unclaimed
        <4> HIDE DEF q
        <4>3. Stage(row[u]) = "owned" /\ Stage(q) = "done"
          BY <3>1, <4>2 DEF Stage
        <4>4. Lifecycle!Finish(u)
          BY <2>1, <3>1, <4>1, <4>2, <4>3 DEF Lifecycle!Finish
        <4> QED
          BY <3>1, <4>4 DEF Lifecycle!LifecycleNext
      <3>4. CASE CompleteFailure(w, u, g[2])
        <4>1. row' = [t \in Tasks |-> IF t \in {u} THEN AfterFailure(row[t]) ELSE row[t]]
          BY <2>1, <3>1, <3>4 DEF CompleteFailure
        <4>2. Lifecycle!Lose({u})
          BY <3>1, <4>1, LossRefines
        <4> QED
          BY <3>1, <4>2 DEF Lifecycle!LifecycleNext
      <3> QED
        BY <2>7, <3>2, <3>3, <3>4
    <2>8. ASSUME NEW S \in SUBSET Tasks, ReclaimStuckTasks(S)
          PROVE  Moves
      <3>1. Lifecycle!Lose(S)
        BY <2>8, LossRefines DEF ReclaimStuckTasks, Stuck, Swept
      <3> QED
        BY <3>1 DEF Lifecycle!LifecycleNext
    <2>9. CASE Tick
      <3>1. \A t \in Tasks : /\ row'[t].status = row[t].status
                             /\ row'[t].maxAttempts = row[t].maxAttempts
        BY <2>1, <2>9 DEF Tick, Elapse, Row
      <3> QED
        BY <2>9, <3>1, LifecycleStutters DEF Tick, Elapse
    <2> QED
      BY <2>2, <2>3, <2>4, <2>5, <2>6, <2>7, <2>8, <2>9 DEF Next
  <1> QED
    BY <1>1, <1>2, Inductive, PTL
    DEF Spec, ImplementsLifecycle, Lifecycle!LifecycleSpec

-----------------------------------------------------------------------------
(* Event keys.                                                             *)

(***************************************************************************)
(* Only the INSERT of scheduleTask gives a row its key.                    *)
(***************************************************************************)
LEMMA KeysKept ==
  ASSUME IndInv, Next,
         \A c \in Callers, t \in Tasks : ~ScheduleInsert(c, t)
  PROVE  \A t \in Tasks : row'[t].key = row[t].key
  <1> SUFFICES ASSUME NEW t \in Tasks PROVE row'[t].key = row[t].key
    OBVIOUS
  <1>1. row \in [Tasks -> Row] /\ row[t] \in Row
    BY DEF IndInv, TypeOK
  <1>2. ASSUME NEW c \in Callers, NEW req \in Request, ScheduleCoalesce(c, req)
        PROVE  row'[t].key = row[t].key
    <2>1. PICK u \in Tasks : row' = [row EXCEPT ![u].runId = MergedRunId(u, req)]
      BY <1>2 DEF ScheduleCoalesce, Coalescible
    <2>2. row'[t] = row[t] \/ row'[t] = [row[t] EXCEPT !.runId = MergedRunId(u, req)]
      BY <1>1, <2>1
    <2> QED
      BY <1>1, <2>2 DEF Row
  <1>3. ASSUME NEW c \in Callers, NEW req \in Request, ScheduleMiss(c, req)
        PROVE  row'[t].key = row[t].key
    BY <1>3 DEF ScheduleMiss
  <1>4. ASSUME NEW w \in Workers, NEW S \in SUBSET Tasks, PollDueTasks(w, S)
        PROVE  row'[t].key = row[t].key
    <2>1. row'[t] = row[t] \/ row'[t] = Claimed(row[t], w, claims[t] + 1)
      BY <1>4 DEF PollDueTasks
    <2> QED
      BY <1>1, <2>1 DEF Claimed, Row
  <1>5. AfterFailure(row[t]).key = row[t].key
    BY <1>1 DEF AfterFailure, Unclaimed, Row
  <1>6. ASSUME NEW w \in Workers, NEW g \in granted[w],
               \/ HeartbeatTask(w, g[1], g[2])
               \/ CompleteSuccess(w, g[1], g[2])
               \/ CompleteFailure(w, g[1], g[2])
        PROVE  row'[t].key = row[t].key
    <2>1. \/ row'[t] = row[t]
          \/ row'[t] = [row[t] EXCEPT !.visIn = VisibilityTimeout]
          \/ row'[t] = [Unclaimed(row[t]) EXCEPT !.status = "completed"]
          \/ row'[t] = AfterFailure(row[t])
      BY <1>1, <1>6 DEF HeartbeatTask, CompleteSuccess, CompleteFailure
    <2> QED
      BY <1>1, <1>5, <2>1 DEF Unclaimed, Row
  <1>7. ASSUME NEW S \in SUBSET Tasks, ReclaimStuckTasks(S)
        PROVE  row'[t].key = row[t].key
    BY <1>5, <1>7 DEF ReclaimStuckTasks, Swept
  <1>8. ASSUME Tick
        PROVE  row'[t].key = row[t].key
    BY <1>1, <1>8 DEF Tick, Elapse, Row
  <1> QED
    BY <1>2, <1>3, <1>4, <1>6, <1>7, <1>8 DEF Next

(***************************************************************************)
(* Every step preserves the invariant: while the calls for an event do not *)
(* overlap, the SELECT of a call that goes on found no row, and no other   *)
(* call for that event inserts one before it does.                         *)
(***************************************************************************)
LEMMA EventInsert ==
  ASSUME IndInv, EventInv, NEW c \in Callers, NEW t \in Tasks, ScheduleInsert(c, t)
  PROVE  EventInv'
  <1>1. /\ row \in [Tasks -> Row] /\ call \in [Callers -> Request \cup {None}]
        /\ EventTaskUnique /\ PendingIsNew /\ CallsSeparate
    BY DEF IndInv, TypeOK, EventInv
  <1>2. /\ call[c] # None
        /\ row' = row \/ row' = [row EXCEPT ![t] = NewRow(call[c])]
        /\ call' = [call EXCEPT ![c] = None]
        /\ overlapped' = overlapped
    BY DEF ScheduleInsert
  <1>3. \A d \in Callers : call'[d] # None => d # c /\ call'[d] = call[d]
    BY <1>1, <1>2
  <1>4. CallsSeparate'
    BY <1>1, <1>2, <1>3 DEF CallsSeparate
  <1>5. CASE row' = row
    BY <1>1, <1>2, <1>3, <1>4, <1>5 DEF EventInv, EventTaskUnique, PendingIsNew
  <1>6. CASE row' = [row EXCEPT ![t] = NewRow(call[c])]
    <2>1. row'[t].key = call[c].key /\ \A u \in Tasks \ {t} : row'[u] = row[u]
      BY <1>1, <1>6 DEF NewRow
    <2>2. EventTaskUnique'
      BY <1>1, <1>2, <2>1 DEF EventTaskUnique, PendingIsNew
    <2>3. PendingIsNew'
      BY <1>1, <1>2, <1>3, <2>1 DEF PendingIsNew, CallsSeparate
    <2> QED
      BY <1>4, <2>2, <2>3 DEF EventInv
  <1> QED
    BY <1>2, <1>5, <1>6

LEMMA EventMiss ==
  ASSUME IndInv, EventInv, NEW c \in Callers, NEW req \in Request, ScheduleMiss(c, req)
  PROVE  EventInv'
  <1>1. /\ row \in [Tasks -> Row] /\ call \in [Callers -> Request \cup {None}]
        /\ EventTaskUnique /\ PendingIsNew /\ CallsSeparate
    BY DEF IndInv, TypeOK, EventInv
  <1>2. /\ Coalescible(req.key) = {} /\ row' = row
        /\ call' = [call EXCEPT ![c] = req]
        /\ overlapped' = overlapped \cup {k \in EventKeys : k = req.key /\ InFlight(k)}
    BY DEF ScheduleMiss
  <1>3. ASSUME req.key \in EventKeys, NEW t \in Tasks, row[t].key = req.key
        PROVE  FALSE
    <2>1. req.key # None
      BY <1>3, NoneAssumption DEF Keys
    <2>2. row[t].status = "absent"
      BY <1>2, <1>3, <2>1 DEF Coalescible
    <2>3. row[t] = NoRow
      BY <2>2 DEF IndInv, RowsInv, RowInv
    <2> QED
      BY <1>3, <2>1, <2>3 DEF NoRow
  <1>4. \A d \in Callers : call'[d] = IF d = c THEN req ELSE call[d]
    BY <1>1, <1>2
  <1>5. \A d \in Callers : (call[d] # None /\ call[d].key = req.key /\ req.key \in EventKeys)
           => req.key \in overlapped'
    BY <1>2 DEF InFlight
  <1>6. \A k \in EventKeys \ overlapped' : k \in EventKeys \ overlapped
    BY <1>2
  <1>7. EventTaskUnique'
    BY <1>1, <1>2, <1>6 DEF EventTaskUnique
  <1>8. PendingIsNew'
    BY <1>1, <1>2, <1>3, <1>4, <1>6 DEF PendingIsNew
  <1>9. CallsSeparate'
    BY <1>1, <1>4, <1>5, <1>6 DEF CallsSeparate
  <1> QED
    BY <1>7, <1>8, <1>9 DEF EventInv

LEMMA EventStep ==
  ASSUME IndInv, EventInv, [Next]_vars
  PROVE  EventInv'
  <1>1. /\ row \in [Tasks -> Row] /\ call \in [Callers -> Request \cup {None}]
        /\ EventTaskUnique /\ PendingIsNew /\ CallsSeparate
    BY DEF IndInv, TypeOK, EventInv
  <1>2. ASSUME Next, \A c \in Callers, t \in Tasks : ~ScheduleInsert(c, t),
               \A c \in Callers, req \in Request : ~ScheduleMiss(c, req)
        PROVE  EventInv'
    <2>1. \A t \in Tasks : row'[t].key = row[t].key
      BY <1>2, KeysKept
    <2>2. call' = call /\ overlapped' = overlapped
      BY <1>2 DEF Next, ScheduleCoalesce, PollDueTasks, HeartbeatTask, CompleteSuccess,
                  CompleteFailure, ReclaimStuckTasks, Tick, Elapse
    <2> QED
      BY <1>1, <2>1, <2>2 DEF EventInv, EventTaskUnique, PendingIsNew, CallsSeparate
  <1>3. CASE UNCHANGED vars
    BY <1>1, <1>3 DEF vars, EventInv, EventTaskUnique, PendingIsNew, CallsSeparate
  <1> QED
    BY <1>2, <1>3, EventInsert, EventMiss

(***************************************************************************)
(* An event has one task, whatever becomes of that task in the meantime,   *)
(* unless two calls of scheduleTask for it overlapped: for any number of   *)
(* callers, of which nothing in the code keeps two apart.                  *)
(***************************************************************************)
THEOREM EventsScheduledOnce == Spec => []EventTaskUnique
  <1>1. Init => EventInv
    <2> SUFFICES ASSUME Init PROVE EventInv
      OBVIOUS
    <2>1. None \notin EventKeys
      BY NoneAssumption DEF Keys
    <2>2. \A t \in Tasks : row[t].key = None
      BY DEF Init, NoRow
    <2> QED
      BY <2>1, <2>2 DEF Init, EventInv, EventTaskUnique, PendingIsNew, CallsSeparate
  <1>2. EventInv => EventTaskUnique
    BY DEF EventInv
  <1>3. IndInv /\ EventInv /\ [Next]_vars => EventInv'
    BY EventStep
  <1> QED
    BY <1>1, <1>2, <1>3, Inductive, PTL DEF Spec
=============================================================================
