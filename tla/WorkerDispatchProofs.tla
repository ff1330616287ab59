------------------------ MODULE WorkerDispatchProofs ------------------------
(***************************************************************************)
(* Proofs about the worker between the task queue and the run leases, for  *)
(* any tasks, workers, runs and coroutines and all limits.                 *)
(*                                                                         *)
(* Lemmas about an instantiated module cannot be cited, so the facts about *)
(* single operations of the queue and of the leases that the arguments     *)
(* below need are proved here against S!... and L!....                     *)
(***************************************************************************)
EXTENDS WorkerDispatch, FiniteSetTheorems, TLAPS

-----------------------------------------------------------------------------
(* What the operations of the queue do to its rows.                        *)

(***************************************************************************)
(* A step of the queue that claims nothing: no row changes its run, every  *)
(* row keeps count of its claims, and only the tasks of X may turn         *)
(* completed.                                                              *)
(***************************************************************************)
RowsKept(X) ==
  /\ claims' = claims /\ granted' = granted /\ call' = call
  /\ row' \in [Tasks -> S!Row]
  /\ \A t \in Tasks :
        /\ RowCounted(row'[t], claims[t])
        /\ row'[t].runId = row[t].runId
        /\ row'[t].status = "completed" => row[t].status = "completed" \/ t \in X

(***************************************************************************)
(* A row that was claimed (pollDueTasks).                                  *)
(***************************************************************************)
LEMMA ClaimedCounted ==
  ASSUME NEW r \in S!Row, NEW n \in Nat, NEW w \in Workers,
         RowCounted(r, n), r.status = "scheduled"
  PROVE  /\ S!Claimed(r, w, n + 1) \in S!Row
         /\ RowCounted(S!Claimed(r, w, n + 1), n + 1)
         /\ S!Claimed(r, w, n + 1).runId = r.runId
         /\ S!Claimed(r, w, n + 1).status = "processing"
  <1> DEFINE q == S!Claimed(r, w, n + 1)
  <1>1. q \in S!Row
    <2>1. VisibilityTimeout \in Nat /\ n + 1 \in Nat
      BY DispatchAssumption
    <2> QED
      BY <2>1 DEF S!Claimed, S!Row, S!Status
  <1>2. /\ q.status = "processing" /\ q.attemptCount = r.attemptCount
        /\ q.maxAttempts = r.maxAttempts /\ q.runId = r.runId
    BY DEF S!Claimed, S!Row
  <1> HIDE DEF q
  <1>3. r.attemptCount \in Nat
    BY DEF S!Row
  <1>4. RowCounted(q, n + 1)
    BY <1>2, <1>3 DEF RowCounted
  <1> QED
    BY <1>1, <1>2, <1>4 DEF q

(***************************************************************************)
(* A row whose visibility timeout was extended (heartbeatTask).            *)
(***************************************************************************)
LEMMA HeartbeatCounted ==
  ASSUME NEW r \in S!Row, NEW n \in Nat, RowCounted(r, n)
  PROVE  /\ [r EXCEPT !.visIn = VisibilityTimeout] \in S!Row
         /\ RowCounted([r EXCEPT !.visIn = VisibilityTimeout], n)
         /\ [r EXCEPT !.visIn = VisibilityTimeout].runId = r.runId
         /\ [r EXCEPT !.visIn = VisibilityTimeout].status = r.status
  BY DispatchAssumption DEF S!Row, S!Status, S!Keys, RowCounted

(***************************************************************************)
(* A claimed row that was completed (completeTask, success).               *)
(***************************************************************************)
LEMMA CompletedCounted ==
  ASSUME NEW r \in S!Row, NEW n \in Nat, RowCounted(r, n), r.status = "processing"
  PROVE  /\ [S!Unclaimed(r) EXCEPT !.status = "completed"] \in S!Row
         /\ RowCounted([S!Unclaimed(r) EXCEPT !.status = "completed"], n)
         /\ [S!Unclaimed(r) EXCEPT !.status = "completed"].runId = r.runId
  BY DEF S!Unclaimed, S!Row, S!Status, S!Keys, RowCounted

(***************************************************************************)
(* A claimed row after one more failed attempt (completeTask, failure, and *)
(* reclaimStuckTasks).                                                     *)
(***************************************************************************)
LEMMA FailedCounted ==
  ASSUME NEW r \in S!Row, NEW n \in Nat, RowCounted(r, n), r.status = "processing"
  PROVE  /\ S!AfterFailure(r) \in S!Row
         /\ RowCounted(S!AfterFailure(r), n)
         /\ S!AfterFailure(r).runId = r.runId
         /\ S!AfterFailure(r).status # "completed"
  <1> DEFINE next == r.attemptCount + 1
  <1>1. /\ next \in Nat /\ next >= 1 /\ n = next /\ next <= Budget
        /\ r.maxAttempts = AttemptLimit /\ AttemptLimit \in Nat
    BY DispatchAssumption DEF RowCounted, S!Row, Budget
  <1>2. CASE next >= r.maxAttempts
    <2>1. S!AfterFailure(r) = [S!Unclaimed(r) EXCEPT !.status = "failed", !.attemptCount = next]
      BY <1>2 DEF S!AfterFailure
    <2>2. S!AfterFailure(r) \in S!Row
      BY <1>1, <2>1 DEF S!Unclaimed, S!Row, S!Status, S!Keys
    <2>3. /\ S!AfterFailure(r).status = "failed" /\ S!AfterFailure(r).attemptCount = next
          /\ S!AfterFailure(r).maxAttempts = r.maxAttempts
          /\ S!AfterFailure(r).runId = r.runId
      BY <2>1 DEF S!Unclaimed, S!Row
    <2> QED
      BY <1>1, <2>2, <2>3 DEF RowCounted
  <1>3. CASE next < r.maxAttempts
    <2>1. S!AfterFailure(r) = [S!Unclaimed(r) EXCEPT !.status = "scheduled",
                                  !.attemptCount = next,
                                  !.runIn = S!computeBackoffSeconds(next)]
      BY <1>1, <1>3 DEF S!AfterFailure
    <2>2. S!computeBackoffSeconds(next) \in Nat
      BY <1>1, <1>3, DispatchAssumption
    <2>3. next + 1 <= Budget
      BY <1>1, <1>3 DEF Budget
    <2>4. S!AfterFailure(r) \in S!Row
      BY <1>1, <2>1, <2>2 DEF S!Unclaimed, S!Row, S!Status, S!Keys
    <2>5. /\ S!AfterFailure(r).status = "scheduled" /\ S!AfterFailure(r).attemptCount = next
          /\ S!AfterFailure(r).maxAttempts = r.maxAttempts
          /\ S!AfterFailure(r).runId = r.runId
      BY <2>1 DEF S!Unclaimed, S!Row
    <2> QED
      BY <1>1, <2>3, <2>4, <2>5 DEF RowCounted
  <1> QED
    BY <1>1, <1>2, <1>3

(***************************************************************************)
(* A row after one unit of time.                                           *)
(***************************************************************************)
LEMMA TickedCounted ==
  ASSUME NEW r \in S!Row, NEW n \in Nat, RowCounted(r, n)
  PROVE  /\ [r EXCEPT !.runIn = S!Pred(@), !.visIn = S!Pred(@)] \in S!Row
         /\ RowCounted([r EXCEPT !.runIn = S!Pred(@), !.visIn = S!Pred(@)], n)
         /\ [r EXCEPT !.runIn = S!Pred(@), !.visIn = S!Pred(@)].runId = r.runId
         /\ [r EXCEPT !.runIn = S!Pred(@), !.visIn = S!Pred(@)].status = r.status
  <1>1. S!Pred(r.runIn) \in Nat
    BY DEF S!Pred, S!Row
  <1>2. S!Pred(r.visIn) \in Nat \cup {None}
    BY DEF S!Pred, S!Row
  <1> QED
    BY <1>1, <1>2 DEF S!Row, S!Keys, RowCounted

(***************************************************************************)
(* Replacing one row.                                                      *)
(***************************************************************************)
LEMMA OneRow ==
  ASSUME S!TypeOK, ClaimsCounted, NEW t \in Tasks, NEW q \in S!Row, NEW X,
         RowCounted(q, claims[t]), q.runId = row[t].runId,
         q.status = "completed" => row[t].status = "completed" \/ t \in X,
         row' = [row EXCEPT ![t] = q], UNCHANGED <<claims, granted, call>>
  PROVE  RowsKept(X)
  BY DEF S!TypeOK, ClaimsCounted, RowsKept

(***************************************************************************)
(* heartbeatTask claims nothing and completes nothing.                     *)
(***************************************************************************)
LEMMA HeartbeatKeeps ==
  ASSUME S!TypeOK, ClaimsCounted, NEW w, NEW t \in Tasks, NEW k, S!HeartbeatTask(w, t, k)
  PROVE  RowsKept({})
  <1> DEFINE q == [row[t] EXCEPT !.visIn = VisibilityTimeout]
  <1>1. row[t] \in S!Row /\ claims[t] \in Nat /\ RowCounted(row[t], claims[t])
    BY DEF S!TypeOK, ClaimsCounted
  <1>2. /\ q \in S!Row /\ RowCounted(q, claims[t])
        /\ q.runId = row[t].runId /\ q.status = row[t].status
    BY <1>1, HeartbeatCounted
  <1>3. row' = [row EXCEPT ![t] = q] /\ UNCHANGED <<claims, granted, call>>
    BY DEF S!HeartbeatTask
  <1> HIDE DEF q
  <1> QED
    BY <1>2, <1>3, OneRow

(***************************************************************************)
(* completeTask with success completes its own task and no other.          *)
(***************************************************************************)
LEMMA SuccessKeeps ==
  ASSUME S!TypeOK, ClaimsCounted, NEW w, NEW t \in Tasks, NEW k, S!CompleteSuccess(w, t, k)
  PROVE  RowsKept({t})
  <1> DEFINE q == [S!Unclaimed(row[t]) EXCEPT !.status = "completed"]
  <1>1. row[t] \in S!Row /\ claims[t] \in Nat /\ RowCounted(row[t], claims[t])
    BY DEF S!TypeOK, ClaimsCounted
  <1>2. q \in S!Row /\ RowCounted(q, claims[t]) /\ q.runId = row[t].runId
    BY <1>1, CompletedCounted DEF S!CompleteSuccess, S!HoldsClaim
  <1>3. row' = [row EXCEPT ![t] = q] /\ UNCHANGED <<claims, granted, call>>
    BY DEF S!CompleteSuccess
  <1> HIDE DEF q
  <1> QED
    BY <1>2, <1>3, OneRow

(***************************************************************************)
(* completeTask with failure completes nothing.                            *)
(***************************************************************************)
LEMMA FailureKeeps ==
  ASSUME S!TypeOK, ClaimsCounted, NEW w, NEW t \in Tasks, NEW k, S!CompleteFailure(w, t, k)
  PROVE  RowsKept({})
  <1> DEFINE q == S!AfterFailure(row[t])
  <1>1. row[t] \in S!Row /\ claims[t] \in Nat /\ RowCounted(row[t], claims[t])
    BY DEF S!TypeOK, ClaimsCounted
  <1>2. q \in S!Row /\ RowCounted(q, claims[t]) /\ q.runId = row[t].runId /\ q.status # "completed"
    BY <1>1, FailedCounted DEF S!CompleteFailure, S!HoldsClaim
  <1>3. row' = [row EXCEPT ![t] = q] /\ UNCHANGED <<claims, granted, call>>
    BY DEF S!CompleteFailure
  <1> HIDE DEF q
  <1> QED
    BY <1>2, <1>3, OneRow

(***************************************************************************)
(* reclaimStuckTasks completes nothing, whatever rows it takes back.       *)
(***************************************************************************)
LEMMA SweepKeeps ==
  ASSUME S!TypeOK, ClaimsCounted, NEW T \in SUBSET Tasks, S!ReclaimStuckTasks(T)
  PROVE  RowsKept({})
  <1>1. \A t \in Tasks : row[t] \in S!Row /\ claims[t] \in Nat /\ RowCounted(row[t], claims[t])
    BY DEF S!TypeOK, ClaimsCounted
  <1>2. /\ row' = [t \in Tasks |-> IF t \in T THEN S!AfterFailure(row[t]) ELSE row[t]]
        /\ claims' = claims /\ granted' = granted /\ call' = call
        /\ \A t \in T : row[t].status = "processing"
    BY DEF S!ReclaimStuckTasks, S!Swept, S!Stuck
  <1>3. ASSUME NEW t \in Tasks
        PROVE  /\ row'[t] \in S!Row /\ RowCounted(row'[t], claims[t])
               /\ row'[t].runId = row[t].runId
               /\ row'[t].status = "completed" => row[t].status = "completed"
    <2>1. CASE t \in T
      BY <2>1, <1>1, <1>2, FailedCounted
    <2>2. CASE t \notin T
      BY <2>2, <1>1, <1>2
    <2> QED
      BY <2>1, <2>2
  <1>4. row' \in [Tasks -> S!Row]
    BY <1>2, <1>3
  <1> QED
    BY <1>2, <1>3, <1>4 DEF RowsKept

(***************************************************************************)
(* Nor does the passage of time.                                           *)
(***************************************************************************)
LEMMA ElapseKeeps ==
  ASSUME S!TypeOK, ClaimsCounted, S!Elapse
  PROVE  RowsKept({})
  <1>1. \A t \in Tasks : row[t] \in S!Row /\ claims[t] \in Nat /\ RowCounted(row[t], claims[t])
    BY DEF S!TypeOK, ClaimsCounted
  <1>2. /\ row' = [t \in Tasks |-> [row[t] EXCEPT !.runIn = S!Pred(@), !.visIn = S!Pred(@)]]
        /\ claims' = claims /\ granted' = granted /\ call' = call
    BY DEF S!Elapse
  <1>3. ASSUME NEW t \in Tasks
        PROVE  /\ row'[t] \in S!Row /\ RowCounted(row'[t], claims[t])
               /\ row'[t].runId = row[t].runId
               /\ row'[t].status = row[t].status
    BY <1>1, <1>2, TickedCounted
  <1>4. row' \in [Tasks -> S!Row]
    BY <1>2, <1>3
  <1> QED
    BY <1>2, <1>3, <1>4 DEF RowsKept

(***************************************************************************)
(* Nor does a step that leaves the queue alone.                            *)
(***************************************************************************)
LEMMA SameKeeps ==
  ASSUME S!TypeOK, ClaimsCounted, UNCHANGED queueVars
  PROVE  RowsKept({})
  BY DEF queueVars, S!TypeOK, ClaimsCounted, RowsKept

(***************************************************************************)
(* Such a step preserves the types of the queue and the count of claims.   *)
(***************************************************************************)
LEMMA KeptInv ==
  ASSUME S!TypeOK, ClaimsCounted, NEW X, RowsKept(X)
  PROVE  (S!TypeOK /\ ClaimsCounted)'
  BY DEF S!TypeOK, ClaimsCounted, RowsKept

(***************************************************************************)
(* pollDueTasks preserves them too, and adds one claim to each task it     *)
(* returns.                                                                *)
(***************************************************************************)
LEMMA PollKeeps ==
  ASSUME S!TypeOK, ClaimsCounted, NEW w \in Workers, NEW T \in SUBSET Tasks,
         S!PollDueTasks(w, T)
  PROVE  /\ (S!TypeOK /\ ClaimsCounted)'
         /\ \A t \in Tasks :
               /\ claims'[t] = claims[t] + (IF t \in T THEN 1 ELSE 0)
               /\ row'[t].runId = row[t].runId
               /\ row'[t].status = "completed" => row[t].status = "completed"
  <1>1. /\ \A t \in Tasks : row[t] \in S!Row /\ claims[t] \in Nat /\ RowCounted(row[t], claims[t])
        /\ granted \in [Workers -> SUBSET (Tasks \X Nat)]
    BY DEF S!TypeOK, ClaimsCounted
  <1>2. /\ claims' = [t \in Tasks |-> IF t \in T THEN claims[t] + 1 ELSE claims[t]]
        /\ row' = [t \in Tasks |->
               IF t \in T THEN S!Claimed(row[t], w, claims[t] + 1) ELSE row[t]]
        /\ call' = call
        /\ \A t \in T : row[t].status = "scheduled"
    BY DEF S!PollDueTasks, S!Due
  <1>3. ASSUME NEW t \in Tasks
        PROVE  /\ row'[t] \in S!Row /\ claims'[t] \in Nat
               /\ RowCounted(row'[t], claims'[t])
               /\ claims'[t] = claims[t] + (IF t \in T THEN 1 ELSE 0)
               /\ row'[t].runId = row[t].runId
               /\ row'[t].status = "completed" => row[t].status = "completed"
    <2>1. CASE t \in T
      BY <2>1, <1>1, <1>2, ClaimedCounted
    <2>2. CASE t \notin T
      BY <2>2, <1>1, <1>2
    <2> QED
      BY <2>1, <2>2
  <1> DEFINE new == {<<t, claims[t] + 1>> : t \in T}
  <1>4. granted' = [granted EXCEPT ![w] = granted[w] \cup new]
    BY DEF S!PollDueTasks
  <1>5. new \subseteq Tasks \X Nat
    BY <1>1
  <1> HIDE DEF new
  <1>6. granted' \in [Workers -> SUBSET (Tasks \X Nat)]
    BY <1>1, <1>4, <1>5
  <1>7. row' \in [Tasks -> S!Row] /\ claims' \in [Tasks -> Nat]
    BY <1>2, <1>3
  <1>8. S!TypeOK'
    BY <1>2, <1>6, <1>7 DEF S!TypeOK
  <1> QED
    BY <1>3, <1>8 DEF ClaimsCounted

-----------------------------------------------------------------------------
(* The worker as a client of the lease service.                            *)

(***************************************************************************)
(* A lease row written by acquireLease has its type, and so has the lease  *)
(* the client keeps.                                                       *)
(***************************************************************************)
LEMMA GrantTyped ==
  ASSUME L!LeaseTypeOK, NEW c \in Clients, NEW r \in Runs, L!Grant(c, r)
  PROVE  L!LeaseTypeOK'
  <1> DEFINE n == issued[r] + 1
             l == [worker |-> WorkerOf[c], token |-> n, expIn |-> LeaseTTL]
             m == [run |-> r, token |-> n]
  <1>1. n \in Nat
    BY DEF L!LeaseTypeOK
  <1>2. l \in L!LeaseRow /\ m \in [run : Runs, token : Nat]
    BY <1>1, DispatchAssumption DEF L!LeaseRow
  <1>3. /\ issued' = [issued EXCEPT ![r] = n]
        /\ lease' = [lease EXCEPT ![r] = l]
        /\ mine' = [mine EXCEPT ![c] = m]
        /\ asking' = [asking EXCEPT ![c] = None]
    BY DEF L!Grant
  <1> HIDE DEF n, l, m
  <1> QED
    BY <1>1, <1>2, <1>3 DEF L!LeaseTypeOK

(***************************************************************************)
(* One unit of time leaves worker and token of a lease row alone, and a    *)
(* lease with more than one unit left does not lapse.                      *)
(***************************************************************************)
LEMMA ElapsedTyped ==
  ASSUME NEW l \in L!LeaseRow
  PROVE  /\ L!Elapsed(l) \in L!LeaseRow
         /\ L!Elapsed(l).worker = l.worker /\ L!Elapsed(l).token = l.token
         /\ l.expIn > 1 => L!Elapsed(l).expIn > 0
  <1>1. CASE l.expIn = 0
    BY <1>1 DEF L!Elapsed
  <1>2. CASE l.expIn # 0
    <2>1. L!Elapsed(l) = [l EXCEPT !.expIn = l.expIn - 1]
      BY <1>2, NoneIsNothing DEF L!Elapsed
    <2>2. l.expIn - 1 \in Nat
      BY <1>2 DEF L!LeaseRow
    <2> QED
      BY <2>1, <2>2 DEF L!LeaseRow
  <1> QED
    BY <1>1, <1>2

(***************************************************************************)
(* Every operation of the lease service preserves the types of its tables. *)
(***************************************************************************)
LEMMA LeaseTyped ==
  ASSUME L!LeaseTypeOK, L!LeaseNext
  PROVE  L!LeaseTypeOK'
  <1>1. ASSUME NEW c \in Clients, NEW r \in Runs, L!AcquireExisting(c, r)
        PROVE  L!LeaseTypeOK'
    BY <1>1, GrantTyped DEF L!AcquireExisting
  <1>2. ASSUME NEW c \in Clients, NEW r \in Runs, L!AcquireMiss(c, r)
        PROVE  L!LeaseTypeOK'
    BY <1>2 DEF L!AcquireMiss, L!LeaseTypeOK
  <1>3. ASSUME NEW c \in Clients, NEW r \in Runs, L!AcquireRefused(c, r)
        PROVE  L!LeaseTypeOK'
    BY <1>3 DEF L!AcquireRefused, L!LeaseTypeOK, L!leaseVars
  <1>4. ASSUME NEW c \in Clients, L!AcquireInsert(c)
        PROVE  L!LeaseTypeOK'
    <2>1. asking[c] \in [run : Runs, at : {"insert", "recheck"}]
      BY <1>4 DEF L!AcquireInsert, L!LeaseTypeOK
    <2>2. CASE lease[asking[c].run] = None
      BY <2>1, <2>2, <1>4, GrantTyped DEF L!AcquireInsert
    <2>3. CASE lease[asking[c].run] # None
      BY <2>1, <2>3, <1>4 DEF L!AcquireInsert, L!LeaseTypeOK
    <2> QED
      BY <2>2, <2>3
  <1>5. ASSUME NEW c \in Clients, L!AcquireRecheck(c)
        PROVE  L!LeaseTypeOK'
    <2>1. asking[c].run \in Runs
      BY <1>5 DEF L!AcquireRecheck, L!LeaseTypeOK
    <2> QED
      BY <2>1, <1>5, GrantTyped DEF L!AcquireRecheck
  <1>6. ASSUME NEW c \in Clients, L!AcquireConflict(c)
        PROVE  L!LeaseTypeOK'
    BY <1>6 DEF L!AcquireConflict, L!LeaseTypeOK
  <1>7. ASSUME NEW c \in Clients, L!RenewLease(c)
        PROVE  L!LeaseTypeOK'
    <2>1. mine[c].run \in Runs /\ lease[mine[c].run] \in L!LeaseRow
      BY <1>7 DEF L!RenewLease, L!OwnsLease, L!LeaseTypeOK
    <2> DEFINE l == [lease[mine[c].run] EXCEPT !.expIn = LeaseTTL]
    <2>2. l \in L!LeaseRow
      BY <2>1, DispatchAssumption DEF L!LeaseRow
    <2>3. lease' = [lease EXCEPT ![mine[c].run] = l]
      BY <1>7 DEF L!RenewLease
    <2> HIDE DEF l
    <2> QED
      BY <1>7, <2>1, <2>2, <2>3 DEF L!RenewLease, L!LeaseTypeOK
  <1>8. ASSUME NEW c \in Clients, L!ReleaseLease(c)
        PROVE  L!LeaseTypeOK'
    BY <1>8 DEF L!ReleaseLease, L!LeaseTypeOK
  <1>9. ASSUME NEW w \in Workers, NEW C \in SUBSET {c \in Clients : WorkerOf[c] = w}, L!Quit(w, C)
        PROVE  L!LeaseTypeOK'
    <2>1. lease' \in [Runs -> L!LeaseRow \cup {None}]
      BY <1>9 DEF L!Quit, L!LeaseTypeOK
    <2> QED
      BY <1>9, <2>1 DEF L!Quit, L!LeaseTypeOK
  <1>10. ASSUME L!LeaseTick
         PROVE  L!LeaseTypeOK'
    <2>1. \A r \in Runs : lease[r] = None => L!Elapsed(lease[r]) = None
      BY DEF L!Elapsed
    <2>2. \A r \in Runs : lease[r] \in L!LeaseRow => L!Elapsed(lease[r]) \in L!LeaseRow
      BY ElapsedTyped
    <2>3. lease' \in [Runs -> L!LeaseRow \cup {None}]
      BY <1>10, <2>1, <2>2 DEF L!LeaseTick, L!LeaseTypeOK
    <2> QED
      BY <1>10, <2>3 DEF L!LeaseTick, L!LeaseTypeOK
  <1> QED
    BY <1>1, <1>2, <1>3, <1>4, <1>5, <1>6, <1>7, <1>8, <1>9, <1>10 DEF L!LeaseNext

(***************************************************************************)
(* Whatever a worker does to the lease table it does through one call of   *)
(* the lease service, or by ending.                                        *)
(***************************************************************************)
LEMMA LeaseStep ==
  ASSUME job \in [Clients -> Job \cup {None}], Next
  PROVE  L!LeaseNext \/ UNCHANGED leaseVars
  <1>1. ASSUME NEW c \in Clients, ClientStep(c)
        PROVE  L!LeaseNext \/ UNCHANGED leaseVars
    <2>1. CASE Reject(c) \/ StartRunless(c) \/ HandlerRaised(c) \/ HandlerReturned(c)
                 \/ ReportSuccess(c) \/ ReportSuccessLost(c) \/ ReportFailure(c)
      BY <2>1 DEF Reject, StartRunless, HandlerRaised, HandlerReturned,
                  ReportSuccess, ReportSuccessLost, ReportFailure
    <2>2. CASE LeaseRefused(c) \/ LeaseTaken(c) \/ LeaseMiss(c)
      BY <2>2 DEF LeaseRefused, LeaseTaken, LeaseMiss, L!LeaseNext
    <2>3. CASE LeaseInsert(c) \/ LeaseRecheck(c) \/ LeaseConflict(c)
      BY <2>3 DEF LeaseInsert, LeaseRecheck, LeaseConflict, L!LeaseNext
    <2>4. CASE Release(c)
      BY <2>4 DEF Release, L!LeaseNext
    <2> QED
      BY <1>1, <2>1, <2>2, <2>3, <2>4 DEF ClientStep
  <1>2. ASSUME NEW c \in Clients, ExceptionEscapes(c)
        PROVE  L!LeaseNext
    <2>1. WorkerOf[c] \in Workers /\ {c} \in SUBSET {d \in Clients : WorkerOf[d] = WorkerOf[c]}
      BY DispatchAssumption
    <2> QED
      BY <1>2, <2>1 DEF ExceptionEscapes, L!LeaseNext
  <1>3. ASSUME NEW w \in Workers, Crash(w)
        PROVE  L!LeaseNext
    <2>1. {} \in SUBSET {d \in Clients : WorkerOf[d] = w}
      OBVIOUS
    <2> QED
      BY <1>3, <2>1 DEF Crash, L!LeaseNext
  <1>4. ASSUME NEW c \in Clients, HeartbeatLease(c)
        PROVE  L!LeaseNext
    BY <1>4 DEF HeartbeatLease, L!LeaseNext
  <1>5. ASSUME Tick
        PROVE  L!LeaseNext
    BY <1>5 DEF Tick, L!LeaseNext
  <1>6. ASSUME \/ \E w \in Workers, T \in SUBSET Tasks : Poll(w, T)
               \/ \E w \in Workers, T \in SUBSET Tasks : PollLost(w, T)
               \/ \E c \in Clients : HeartbeatClaim(c)
               \/ \E w \in Workers : Restart(w)
               \/ \E T \in SUBSET Tasks : Sweep(T)
        PROVE  UNCHANGED leaseVars
    BY <1>6 DEF Poll, PollLost, HeartbeatClaim, Restart, Sweep
  <1> QED
    BY <1>1, <1>2, <1>3, <1>4, <1>5, <1>6 DEF Next

-----------------------------------------------------------------------------
(* Types.                                                                  *)

(***************************************************************************)
(* The steps of the dispatcher that touch the queue: a poll, or a step     *)
(* that claims nothing, of which only a reported success completes a task. *)
(***************************************************************************)
QueuePoll == \E w \in Workers, T \in SUBSET Tasks : S!PollDueTasks(w, T)

(***************************************************************************)
(* A reported success, accepted, fenced or lost, completes at most the     *)
(* task of the job that reports it, and that job saw its handler return.   *)
(***************************************************************************)
LEMMA ReportKeeps ==
  ASSUME TypeOK, ClaimsCounted, NEW c \in Clients,
         ReportSuccess(c) \/ ReportSuccessLost(c)
  PROVE  RowsKept({job[c].task}) /\ job[c].task \in Tasks /\ At(c, "ok")
  <1>1. job[c].task \in Tasks /\ At(c, "ok")
    BY DEF TypeOK, Job, At, ReportSuccess, ReportSuccessLost
  <1>2. S!TypeOK
    BY DEF TypeOK
  <1>3. CASE S!CompleteSuccess(WorkerOf[c], job[c].task, job[c].token)
    BY <1>1, <1>2, <1>3, SuccessKeeps
  <1>4. CASE UNCHANGED queueVars
    <2>1. RowsKept({})
      BY <1>2, <1>4, SameKeeps
    <2> QED
      BY <1>1, <2>1 DEF RowsKept
  <1> QED
    BY <1>3, <1>4 DEF ReportSuccess, ReportSuccessLost

(***************************************************************************)
(* Every other step of the dispatcher is a poll or completes nothing.      *)
(***************************************************************************)
LEMMA OthersKeep ==
  ASSUME TypeOK, ClaimsCounted, Next
  PROVE  \/ QueuePoll
         \/ \E c \in Clients : ReportSuccess(c) \/ ReportSuccessLost(c)
         \/ RowsKept({})
  <1> USE DEF TypeOK
  <1>1. ASSUME NEW c \in Clients, ClientStep(c), ~ReportSuccess(c), ~ReportSuccessLost(c)
        PROVE  RowsKept({})
    <2>1. CASE ReportFailure(c)
      <3>1. job[c].task \in Tasks
        BY <2>1 DEF ReportFailure, At, Job
      <3> QED
        BY <2>1, <3>1, FailureKeeps, SameKeeps DEF ReportFailure
    <2>2. CASE ~ReportFailure(c)
      <3>1. UNCHANGED queueVars
        BY <1>1, <2>2 DEF ClientStep, Reject, StartRunless, LeaseRefused, LeaseTaken,
             LeaseMiss, LeaseInsert, LeaseRecheck, LeaseConflict, HandlerRaised,
             HandlerReturned, Release
      <3> QED
        BY <3>1, SameKeeps
    <2> QED
      BY <2>1, <2>2
  <1>2. ASSUME NEW c \in Clients, HeartbeatClaim(c)
        PROVE  RowsKept({})
    <2>1. job[c].task \in Tasks
      BY <1>2 DEF HeartbeatClaim, At, Job
    <2> QED
      BY <1>2, <2>1, HeartbeatKeeps DEF HeartbeatClaim
  <1>3. ASSUME NEW T \in SUBSET Tasks, Sweep(T)
        PROVE  RowsKept({})
    BY <1>3, SweepKeeps DEF Sweep
  <1>4. ASSUME Tick
        PROVE  RowsKept({})
    BY <1>4, ElapseKeeps DEF Tick
  <1>5. ASSUME \/ \E c \in Clients : HeartbeatLease(c)
               \/ \E c \in Clients : ExceptionEscapes(c)
               \/ \E w \in Workers : Crash(w)
               \/ \E w \in Workers : Restart(w)
        PROVE  RowsKept({})
    <2>1. UNCHANGED queueVars
      BY <1>5 DEF HeartbeatLease, ExceptionEscapes, Crash, Restart
    <2> QED
      BY <2>1, SameKeeps
  <1>6. ASSUME \/ \E w \in Workers, T \in SUBSET Tasks : Poll(w, T)
               \/ \E w \in Workers, T \in SUBSET Tasks : PollLost(w, T)
        PROVE  QueuePoll
    BY <1>6 DEF Poll, PollLost, QueuePoll
  <1> QED
    BY <1>1, <1>2, <1>3, <1>4, <1>5, <1>6 DEF Next

(***************************************************************************)
(* So the rows keep their types, their claim counts and their runs.        *)
(***************************************************************************)
LEMMA QueueStep ==
  ASSUME TypeOK, ClaimsCounted, Next
  PROVE  /\ (S!TypeOK /\ ClaimsCounted)'
         /\ \A t \in Tasks : row'[t].runId = row[t].runId
  <1>1. S!TypeOK
    BY DEF TypeOK
  <1>2. CASE QueuePoll
    BY <1>1, <1>2, PollKeeps DEF QueuePoll
  <1>3. ASSUME NEW X, RowsKept(X)
        PROVE  /\ (S!TypeOK /\ ClaimsCounted)'
               /\ \A t \in Tasks : row'[t].runId = row[t].runId
    BY <1>1, <1>3, KeptInv DEF RowsKept
  <1> QED
    BY <1>2, <1>3, OthersKeep, ReportKeeps

(***************************************************************************)
(* The jobs, and what happens to them in a step.                           *)
(***************************************************************************)
NewJobs(T, f) ==
  [c \in Clients |->
     IF \E t \in T : f[t] = c
       THEN LET t == CHOOSE t \in T : f[t] = c
            IN  [task |-> t, token |-> claims[t] + 1,
                 run |-> row[t].runId, phase |-> "start"]
       ELSE job[c]]

(***************************************************************************)
(* A poll starts one job per task it got, on a coroutine that had none.    *)
(***************************************************************************)
LEMMA PolledJobs ==
  ASSUME TypeOK, NEW w \in Workers, NEW T \in SUBSET Tasks, NEW f \in [T -> ClientsOf(w)],
         \A c \in ClientsOf(w) : job[c] = None,
         \A t, u \in T : f[t] = f[u] => t = u,
         job' = NewJobs(T, f)
  PROVE  /\ job' \in [Clients -> Job \cup {None}]
         /\ \A t \in T : /\ f[t] \in Clients /\ WorkerOf[f[t]] = w /\ job[f[t]] = None
                         /\ job'[f[t]] # None
                         /\ job'[f[t]].task = t /\ job'[f[t]].phase = "start"
                         /\ job'[f[t]].run = row[t].runId
         /\ \A c \in Clients : (\A t \in T : f[t] # c) => job'[c] = job[c]
  <1> DEFINE new(t) == [task |-> t, token |-> claims[t] + 1,
                        run |-> row[t].runId, phase |-> "start"]
  <1>1. \A t \in T : new(t) \in Job
    BY DEF TypeOK, S!TypeOK, S!Row, Job, Phase
  <1>2. ASSUME NEW t \in T
        PROVE  f[t] \in Clients /\ WorkerOf[f[t]] = w /\ job[f[t]] = None
    BY DEF ClientsOf
  <1>3. ASSUME NEW t \in T
        PROVE  job'[f[t]] = new(t)
    <2>1. (CHOOSE u \in T : f[u] = f[t]) = t
      OBVIOUS
    <2> QED
      BY <1>2, <2>1 DEF NewJobs
  <1>4. ASSUME NEW c \in Clients, \A t \in T : f[t] # c
        PROVE  job'[c] = job[c]
    BY <1>4 DEF NewJobs
  <1>5. \A c \in Clients : job'[c] \in Job \cup {None}
    <2> SUFFICES ASSUME NEW c \in Clients PROVE job'[c] \in Job \cup {None}
      OBVIOUS
    <2>1. CASE \E t \in T : f[t] = c
      BY <2>1, <1>1, <1>3
    <2>2. CASE \A t \in T : f[t] # c
      BY <2>2, <1>4 DEF TypeOK
    <2> QED
      BY <2>1, <2>2
  <1>6. job' \in [Clients -> Job \cup {None}]
    BY <1>5 DEF NewJobs
  <1>7. \A t \in T : new(t).task = t /\ new(t).phase = "start" /\ new(t).run = row[t].runId
    OBVIOUS
  <1> HIDE DEF new
  <1>8. \A t \in T : job'[f[t]] # None
    BY <1>1, <1>3, NoneIsNothing
  <1> QED
    BY <1>2, <1>3, <1>4, <1>6, <1>7, <1>8

(***************************************************************************)
(* The jobs a poll starts, as a function of its tasks.                     *)
(***************************************************************************)
LEMMA PollJobs ==
  ASSUME TypeOK, NEW w \in Workers, NEW T \in SUBSET Tasks, Poll(w, T)
  PROVE  \E f \in [T -> ClientsOf(w)] :
            /\ \A c \in ClientsOf(w) : job[c] = None
            /\ \A t, u \in T : f[t] = f[u] => t = u
            /\ job' = NewJobs(T, f)
  BY DEF Poll, NewJobs

(***************************************************************************)
(* Moving a job to another phase.                                          *)
(***************************************************************************)
LEMMA Moved ==
  ASSUME job \in [Clients -> Job \cup {None}],
         NEW c \in Clients, job[c] # None, NEW p \in Phase, GoTo(c, p)
  PROVE  /\ job' \in [Clients -> Job \cup {None}]
         /\ job[c] \in Job /\ job'[c] \in Job /\ job'[c] # None
         /\ job'[c].task = job[c].task /\ job'[c].run = job[c].run
         /\ job'[c].phase = p
         /\ \A d \in Clients \ {c} : job'[d] = job[d]
  <1> DEFINE j == [job[c] EXCEPT !.phase = p]
  <1>1. job[c] \in Job
    OBVIOUS
  <1>2. j \in Job /\ j.task = job[c].task /\ j.run = job[c].run /\ j.phase = p
    BY <1>1 DEF Job
  <1>3. job' = [job EXCEPT ![c] = j]
    BY DEF GoTo
  <1> HIDE DEF j
  <1> QED
    BY <1>1, <1>2, <1>3, NoneIsNothing

(***************************************************************************)
(* Every step preserves the types of the jobs, the workers and the         *)
(* counters.                                                               *)
(***************************************************************************)
LEMMA JobStep ==
  ASSUME TypeOK, Next
  PROVE  /\ job' \in [Clients -> Job \cup {None}]
         /\ up' \in SUBSET Workers
         /\ crashes' \in 0 .. MaxCrashes
         /\ late' \in BOOLEAN
         /\ started' \in [Tasks -> Nat]
         /\ done' \in [Tasks -> Nat]
  <1> DEFINE Goal == /\ job' \in [Clients -> Job \cup {None}]
                     /\ up' \in SUBSET Workers
                     /\ crashes' \in 0 .. MaxCrashes
                     /\ late' \in BOOLEAN
                     /\ started' \in [Tasks -> Nat]
                     /\ done' \in [Tasks -> Nat]
  <1>0. /\ job \in [Clients -> Job \cup {None}]
        /\ up \in SUBSET Workers
        /\ crashes \in 0 .. MaxCrashes
        /\ late \in BOOLEAN
        /\ started \in [Tasks -> Nat]
        /\ done \in [Tasks -> Nat]
    BY DEF TypeOK
  <1>1. ASSUME NEW c \in Clients, ClientStep(c)
        PROVE  Goal
    <2>1. up' = up /\ crashes' = crashes /\ late' = late
      BY <1>1 DEF ClientStep, Reject, StartRunless, LeaseRefused, LeaseTaken,
             LeaseMiss, LeaseInsert, LeaseRecheck, LeaseConflict, HandlerRaised,
             HandlerReturned, ReportSuccess, ReportSuccessLost, ReportFailure, Release
    <2>2. \/ \E p \in Phase : job[c] # None /\ GoTo(c, p)
          \/ EndJob(c)
          \/ UNCHANGED job
      BY <1>1 DEF ClientStep, Reject, StartRunless, LeaseRefused, LeaseTaken,
             LeaseMiss, LeaseInsert, LeaseRecheck, LeaseConflict, HandlerRaised,
             HandlerReturned, ReportSuccess, ReportSuccessLost, ReportFailure, Release,
             Begin, At, Phase
    <2>3. job' \in [Clients -> Job \cup {None}]
      BY <2>2, <1>0, Moved DEF EndJob
    <2>4. \/ started' = [started EXCEPT ![job[c].task] = @ + 1] /\ done' = done
          \/ done' = [done EXCEPT ![job[c].task] = @ + 1] /\ started' = started
          \/ started' = started /\ done' = done
      BY <1>1 DEF ClientStep, Reject, StartRunless, LeaseRefused, LeaseTaken,
             LeaseMiss, LeaseInsert, LeaseRecheck, LeaseConflict, HandlerRaised,
             HandlerReturned, ReportSuccess, ReportSuccessLost, ReportFailure, Release,
             Begin, histVars
    <2> QED
      BY <2>1, <2>3, <2>4, <1>0
  <1>2. ASSUME \/ \E w \in Workers, T \in SUBSET Tasks : PollLost(w, T)
               \/ \E c \in Clients : HeartbeatClaim(c)
               \/ \E c \in Clients : HeartbeatLease(c)
               \/ \E w \in Workers : Restart(w)
               \/ \E T \in SUBSET Tasks : Sweep(T)
        PROVE  Goal
    BY <1>0, <1>2 DEF PollLost, HeartbeatClaim, HeartbeatLease, Restart, Sweep, histVars
  <1>3. ASSUME NEW w \in Workers, NEW T \in SUBSET Tasks, Poll(w, T)
        PROVE  Goal
    <2>1. job' \in [Clients -> Job \cup {None}]
      BY <1>3, PollJobs, PolledJobs
    <2> QED
      BY <1>0, <1>3, <2>1 DEF Poll, histVars
  <1>4. ASSUME \/ \E c \in Clients : ExceptionEscapes(c)
               \/ \E w \in Workers : Crash(w)
        PROVE  Goal
    <2>1. \E w : job' = [d \in Clients |-> IF WorkerOf[d] = w THEN None ELSE job[d]]
      BY <1>4 DEF ExceptionEscapes, Crash
    <2>2. job' \in [Clients -> Job \cup {None}]
      BY <1>0, <2>1
    <2>3. crashes' \in 0 .. MaxCrashes
      <3>1. crashes' = crashes + 1 /\ crashes < MaxCrashes
        BY <1>4 DEF ExceptionEscapes, Crash
      <3>2. MaxCrashes \in Nat
        BY DispatchAssumption
      <3> QED
        BY <1>0, <3>1, <3>2
    <2> QED
      BY <1>0, <1>4, <2>2, <2>3 DEF ExceptionEscapes, Crash, histVars
  <1>5. ASSUME Tick
        PROVE  Goal
    <2>1. late' \in BOOLEAN
      BY <1>5 DEF Tick
    <2> QED
      BY <1>0, <1>5, <2>1 DEF Tick, histVars
  <1> QED
    BY <1>1, <1>2, <1>3, <1>4, <1>5 DEF Next

(***************************************************************************)
(* The initial states satisfy the invariant.                               *)
(***************************************************************************)
LEMMA DispatchStarts == Init => DispatchInv
  <1> SUFFICES ASSUME Init PROVE DispatchInv
    OBVIOUS
  <1>1. PICK RunOf \in RunOfs :
           row = [t \in Tasks |-> S!NewRow([key |-> None, runId |-> RunOf[t], delay |-> 0,
                                            maxAttempts |-> AttemptLimit])]
    BY DEF Init
  <1>2. ASSUME NEW t \in Tasks
        PROVE  row[t] \in S!Row /\ RowCounted(row[t], 0)
    <2>1. RunOf[t] \in Runs \cup {Runless, None} /\ AttemptLimit \in Nat
      BY DispatchAssumption
    <2>2. row[t] = [status |-> "scheduled", key |-> None, runId |-> RunOf[t],
                    runIn |-> 0, attemptCount |-> 0, maxAttempts |-> AttemptLimit,
                    claimedBy |-> None, claimToken |-> None, visIn |-> None]
      BY <1>1 DEF S!NewRow
    <2>3. row[t] \in S!Row
      BY <2>1, <2>2 DEF S!Row, S!Status
    <2>4. 1 <= Budget
      BY <2>1 DEF Budget
    <2> QED
      BY <2>2, <2>3, <2>4 DEF RowCounted
  <1>3. S!TypeOK
    BY <1>1, <1>2 DEF Init, S!TypeOK
  <1>4. L!LeaseTypeOK
    BY DEF Init, L!LeaseInit, L!LeaseTypeOK
  <1>5. ClaimsCounted
    BY <1>2 DEF Init, ClaimsCounted
  <1>6. /\ job \in [Clients -> Job \cup {None}] /\ up \in SUBSET Workers
        /\ crashes \in 0 .. MaxCrashes /\ late \in BOOLEAN
        /\ started \in [Tasks -> Nat] /\ done \in [Tasks -> Nat]
    <2>1. MaxCrashes \in Nat
      BY DispatchAssumption
    <2>2. /\ job = [c \in Clients |-> None] /\ up = Workers /\ crashes = 0 /\ late = FALSE
          /\ started = [t \in Tasks |-> 0] /\ done = [t \in Tasks |-> 0]
      BY DEF Init
    <2>3. late \in BOOLEAN
      BY <2>2
    <2> QED
      BY <2>1, <2>2, <2>3
  <1> QED
    BY <1>3, <1>4, <1>5, <1>6 DEF DispatchInv, TypeOK

(***************************************************************************)
(* Every step preserves it: by QueueStep for the queue, LeaseStep for the  *)
(* leases and JobStep for the rest.                                        *)
(***************************************************************************)
LEMMA DispatchKept ==
  ASSUME DispatchInv, [Next]_vars
  PROVE  DispatchInv'
  <1>1. CASE Next
    <2>1. (S!TypeOK /\ ClaimsCounted)'
      BY <1>1, QueueStep DEF DispatchInv
    <2>2. L!LeaseTypeOK'
      <3>1. L!LeaseTypeOK /\ job \in [Clients -> Job \cup {None}]
        BY DEF DispatchInv, TypeOK
      <3>2. CASE L!LeaseNext
        BY <3>1, <3>2, LeaseTyped
      <3>3. CASE UNCHANGED leaseVars
        BY <3>1, <3>3 DEF leaseVars, L!LeaseTypeOK
      <3> QED
        BY <1>1, <3>1, <3>2, <3>3, LeaseStep
    <2> QED
      BY <1>1, <2>1, <2>2, JobStep DEF DispatchInv, TypeOK
  <1>2. CASE UNCHANGED vars
    BY <1>2 DEF vars, queueVars, leaseVars, histVars, DispatchInv, TypeOK, S!TypeOK,
                L!LeaseTypeOK, ClaimsCounted
  <1> QED
    BY <1>1, <1>2

(***************************************************************************)
(* The rows, the leases, the jobs and the counters of the composed system  *)
(* keep their types.                                                       *)
(***************************************************************************)
THEOREM DispatchTypeCorrect == Spec => []TypeOK
  <1>1. DispatchInv => TypeOK
    BY DEF DispatchInv
  <1> QED
    BY <1>1, DispatchStarts, DispatchKept, PTL DEF Spec

(***************************************************************************)
(* The worker drives the lease service only through its operations: every  *)
(* behaviour of the dispatcher is, for the lease table, a behaviour of     *)
(* RunLease, so what RunLeaseProofs shows of one holds of the other.       *)
(***************************************************************************)
THEOREM DispatchUsesLeases == Spec => L!LeaseSpec
  <1>1. Init => L!LeaseInit
    BY DEF Init
  <1>2. DispatchInv /\ [Next]_vars => [L!LeaseNext]_(L!leaseVars)
    <2> SUFFICES ASSUME DispatchInv, [Next]_vars
                 PROVE  L!LeaseNext \/ UNCHANGED L!leaseVars
      OBVIOUS
    <2>1. UNCHANGED leaseVars => UNCHANGED L!leaseVars
      BY DEF leaseVars, L!leaseVars
    <2>2. CASE Next
      BY <2>1, <2>2, LeaseStep DEF DispatchInv, TypeOK
    <2>3. CASE UNCHANGED vars
      BY <2>1, <2>3 DEF vars
    <2> QED
      BY <2>2, <2>3
  <1> QED
    BY <1>1, <1>2, DispatchStarts, DispatchKept, PTL DEF Spec, L!LeaseSpec

(***************************************************************************)
(* What a worker does to the queue, it does through the queue's operations *)
(* with a claim that was granted to it.                                    *)
(***************************************************************************)
THEOREM DispatchUsesQueue == Spec => [][S!Next]_(S!vars)
  <1> DEFINE Goal == S!Next \/ UNCHANGED queueVars
  <1>1. ASSUME NEW w \in Workers, NEW t, NEW k,
               \/ S!HeartbeatTask(w, t, k)
               \/ S!CompleteSuccess(w, t, k)
               \/ S!CompleteFailure(w, t, k)
        PROVE  S!Next
    <2> DEFINE g == <<t, k>>
    <2>1. g \in granted[w] /\ g[1] = t /\ g[2] = k
      BY <1>1 DEF S!HeartbeatTask, S!CompleteSuccess, S!CompleteFailure
    <2> HIDE DEF g
    <2>2. \/ S!HeartbeatTask(w, g[1], g[2])
          \/ S!CompleteSuccess(w, g[1], g[2])
          \/ S!CompleteFailure(w, g[1], g[2])
      BY <1>1, <2>1
    <2> QED
      BY <2>1, <2>2 DEF S!Next
  <1>2. ASSUME NEW c \in Clients, ClientStep(c)
        PROVE  Goal
    <2>0. WorkerOf[c] \in Workers
      BY DispatchAssumption
    <2>1. CASE ReportSuccess(c) \/ ReportSuccessLost(c) \/ ReportFailure(c)
      BY <1>1, <2>0, <2>1 DEF ReportSuccess, ReportSuccessLost, ReportFailure
    <2>2. CASE ~(ReportSuccess(c) \/ ReportSuccessLost(c) \/ ReportFailure(c))
      BY <1>2, <2>2 DEF ClientStep, Reject, StartRunless, LeaseRefused, LeaseTaken,
             LeaseMiss, LeaseInsert, LeaseRecheck, LeaseConflict, HandlerRaised,
             HandlerReturned, Release
    <2> QED
      BY <2>1, <2>2
  <1>3. ASSUME NEW c \in Clients, HeartbeatClaim(c)
        PROVE  Goal
    <2>0. WorkerOf[c] \in Workers
      BY DispatchAssumption
    <2> QED
      BY <1>1, <1>3, <2>0 DEF HeartbeatClaim
  <1>4. ASSUME \/ \E w \in Workers, T \in SUBSET Tasks : Poll(w, T)
               \/ \E w \in Workers, T \in SUBSET Tasks : PollLost(w, T)
               \/ \E T \in SUBSET Tasks : Sweep(T)
        PROVE  Goal
    BY <1>4 DEF Poll, PollLost, Sweep, S!Next
  <1>5. ASSUME \/ \E c \in Clients : HeartbeatLease(c)
               \/ \E c \in Clients : ExceptionEscapes(c)
               \/ \E w \in Workers : Crash(w)
               \/ \E w \in Workers : Restart(w)
               \/ UNCHANGED vars
        PROVE  Goal
    BY <1>5 DEF HeartbeatLease, ExceptionEscapes, Crash, Restart, vars
  <1>6. ASSUME DispatchInv, Tick
        PROVE  Goal
    <2>1. CASE S!CountdownRuns
      BY <1>6, <2>1 DEF Tick, S!Tick, S!Next
    <2>2. CASE ~S!CountdownRuns
      <3>1. /\ row' = [t \in Tasks |-> [row[t] EXCEPT !.runIn = S!Pred(@), !.visIn = S!Pred(@)]]
            /\ claims' = claims /\ granted' = granted /\ call' = call
            /\ row \in [Tasks -> S!Row]
        BY <1>6 DEF Tick, S!Elapse, DispatchInv, TypeOK, S!TypeOK
      <3>2. ASSUME NEW t \in Tasks
            PROVE  row'[t] = row[t]
        <4>1. row[t].runIn = 0 /\ row[t].visIn \in {None, 0}
          <5>1. ~(row[t].runIn > 0) /\ (row[t].visIn = None \/ row[t].visIn = 0)
            BY <2>2 DEF S!CountdownRuns
          <5>2. row[t].runIn \in Nat
            BY <3>1 DEF S!Row
          <5> QED
            BY <5>1, <5>2
        <4>2. S!Pred(row[t].runIn) = row[t].runIn /\ S!Pred(row[t].visIn) = row[t].visIn
          BY <4>1, NoneIsNothing DEF S!Pred
        <4>3. row'[t] = [row[t] EXCEPT !.runIn = row[t].runIn, !.visIn = row[t].visIn]
          BY <3>1, <4>2
        <4> QED
          BY <3>1, <4>3 DEF S!Row
      <3>3. row' = row
        BY <3>1, <3>2
      <3> QED
        BY <3>1, <3>3 DEF queueVars
    <2> QED
      BY <2>1, <2>2
  <1>7. DispatchInv /\ [Next]_vars => [S!Next]_(S!vars)
    <2>1. UNCHANGED queueVars => UNCHANGED S!vars
      BY DEF queueVars, S!vars
    <2> QED
      BY <1>2, <1>3, <1>4, <1>5, <1>6, <2>1 DEF Next
  <1> QED
    BY <1>7, DispatchStarts, DispatchKept, PTL DEF Spec

-----------------------------------------------------------------------------
(* Counting executions.                                                    *)

(***************************************************************************)
(* There are finitely many coroutines, so those of a task can be counted.  *)
(***************************************************************************)
LEMMA CoroutinesFinite ==
  ASSUME NEW t
  PROVE  /\ IsFiniteSet(Untried(t)) /\ Cardinality(Untried(t)) \in Nat
         /\ IsFiniteSet(Executing(t)) /\ Cardinality(Executing(t)) \in Nat
  <1>1. Untried(t) \in SUBSET Clients /\ Executing(t) \in SUBSET Clients /\ IsFiniteSet(Clients)
    BY DispatchAssumption DEF Untried, Executing
  <1>2. IsFiniteSet(Untried(t)) /\ IsFiniteSet(Executing(t))
    BY <1>1, FS_Subset
  <1> QED
    BY <1>2, FS_CardinalityType

(***************************************************************************)
(* A step after which no coroutine has more to do than before, and that    *)
(* begins and ends no execution.                                           *)
(***************************************************************************)
LEMMA NoMoreWork ==
  ASSUME TypeOK, WorkCounted, UNCHANGED <<started, done>>,
         claims' \in [Tasks -> Nat],
         \A t \in Tasks : claims'[t] >= claims[t],
         \A c \in Clients :
            \/ job'[c] = job[c]
            \/ job'[c] = None
            \/ /\ job[c] # None /\ job'[c].task = job[c].task
               /\ job'[c].phase \in {"start", "lease"} => job[c].phase \in {"start", "lease"}
               /\ job'[c].phase # "running"
  PROVE  WorkCounted'
  <1> SUFFICES ASSUME NEW t \in Tasks
               PROVE  /\ started'[t] + Cardinality(Untried(t)') <= claims'[t]
                      /\ done'[t] + Cardinality(Executing(t)') <= started'[t]
    BY DEF WorkCounted
  <1>1. Untried(t)' \in SUBSET Untried(t)
    BY DEF Untried
  <1>2. Executing(t)' \in SUBSET Executing(t)
    BY DEF Executing
  <1>3. /\ Cardinality(Untried(t)') <= Cardinality(Untried(t))
        /\ Cardinality(Executing(t)') <= Cardinality(Executing(t))
        /\ Cardinality(Untried(t)') \in Nat /\ Cardinality(Executing(t)') \in Nat
    BY <1>1, <1>2, CoroutinesFinite, FS_Subset, FS_CardinalityType
  <1>4. /\ started[t] + Cardinality(Untried(t)) <= claims[t]
        /\ done[t] + Cardinality(Executing(t)) <= started[t]
        /\ started[t] \in Nat /\ done[t] \in Nat /\ claims[t] \in Nat
        /\ claims'[t] \in Nat /\ claims'[t] >= claims[t]
    BY DEF WorkCounted, TypeOK, S!TypeOK
  <1> QED
    BY <1>3, <1>4, CoroutinesFinite

(***************************************************************************)
(* An execution begins: its coroutine was untried and is executing now.    *)
(***************************************************************************)
LEMMA BeginCounted ==
  ASSUME TypeOK, WorkCounted, claims' = claims, NEW c \in Clients,
         At(c, "start") \/ At(c, "lease"), Begin(c)
  PROVE  WorkCounted'
  <1> DEFINE t0 == job[c].task
  <1>1. /\ job[c] # None /\ job[c].phase \in {"start", "lease"}
        /\ job \in [Clients -> Job \cup {None}]
        /\ GoTo(c, "running") /\ done' = done
        /\ started' = [started EXCEPT ![t0] = started[t0] + 1]
    BY DEF TypeOK, At, Begin
  <1>2. /\ job[c] \in Job /\ job'[c] # None
        /\ job'[c].task = t0 /\ job'[c].phase = "running"
        /\ \A d \in Clients \ {c} : job'[d] = job[d]
    BY <1>1, Moved DEF Phase
  <1> SUFFICES ASSUME NEW t \in Tasks
               PROVE  /\ started'[t] + Cardinality(Untried(t)') <= claims[t]
                      /\ done[t] + Cardinality(Executing(t)') <= started'[t]
    BY <1>1 DEF WorkCounted
  <1>3. /\ started[t] + Cardinality(Untried(t)) <= claims[t]
        /\ done[t] + Cardinality(Executing(t)) <= started[t]
        /\ started[t] \in Nat /\ done[t] \in Nat /\ claims[t] \in Nat
        /\ started \in [Tasks -> Nat]
    BY DEF WorkCounted, TypeOK, S!TypeOK
  <1> HIDE DEF t0
  <1>4. CASE t = t0
    <2>1. /\ c \in Untried(t) /\ c \notin Executing(t)
          /\ Untried(t)' = Untried(t) \ {c}
          /\ Executing(t)' = Executing(t) \cup {c}
      BY <1>1, <1>2, <1>4 DEF Untried, Executing, t0
    <2>2. Cardinality(Untried(t)') = Cardinality(Untried(t)) - 1
      BY <2>1, CoroutinesFinite, FS_RemoveElement
    <2>3. Cardinality(Executing(t)') = Cardinality(Executing(t)) + 1
      BY <2>1, CoroutinesFinite, FS_AddElement
    <2>4. started'[t] = started[t] + 1
      BY <1>1, <1>3, <1>4
    <2> QED
      BY <1>3, <2>2, <2>3, <2>4, CoroutinesFinite
  <1>5. CASE t # t0
    <2>1. Untried(t)' = Untried(t) /\ Executing(t)' = Executing(t)
      BY <1>1, <1>2, <1>5 DEF Untried, Executing, t0
    <2>2. started'[t] = started[t]
      BY <1>1, <1>3, <1>5
    <2> QED
      BY <1>3, <2>1, <2>2
  <1> QED
    BY <1>4, <1>5

(***************************************************************************)
(* An execution ends with all its work done.                               *)
(***************************************************************************)
LEMMA ReturnCounted ==
  ASSUME TypeOK, WorkCounted, NEW c \in Clients, HandlerReturned(c)
  PROVE  WorkCounted'
  <1> DEFINE t0 == job[c].task
  <1>1. /\ job[c] # None /\ job[c].phase = "running"
        /\ job \in [Clients -> Job \cup {None}]
        /\ GoTo(c, "ok") \/ GoTo(c, "bad")
        /\ started' = started /\ claims' = claims
        /\ done' = [done EXCEPT ![t0] = done[t0] + 1]
    BY DEF TypeOK, At, HandlerReturned, queueVars
  <1>2. /\ job[c] \in Job /\ job'[c] # None
        /\ job'[c].task = t0 /\ job'[c].phase \in {"ok", "bad"}
        /\ \A d \in Clients \ {c} : job'[d] = job[d]
    BY <1>1, Moved DEF Phase
  <1> SUFFICES ASSUME NEW t \in Tasks
               PROVE  /\ started[t] + Cardinality(Untried(t)') <= claims[t]
                      /\ done'[t] + Cardinality(Executing(t)') <= started[t]
    BY <1>1 DEF WorkCounted
  <1>3. /\ started[t] + Cardinality(Untried(t)) <= claims[t]
        /\ done[t] + Cardinality(Executing(t)) <= started[t]
        /\ started[t] \in Nat /\ done[t] \in Nat /\ claims[t] \in Nat
        /\ done \in [Tasks -> Nat]
    BY DEF WorkCounted, TypeOK, S!TypeOK
  <1> HIDE DEF t0
  <1>4. Untried(t)' = Untried(t)
    BY <1>1, <1>2 DEF Untried, t0
  <1>5. CASE t = t0
    <2>1. c \in Executing(t) /\ Executing(t)' = Executing(t) \ {c}
      BY <1>1, <1>2, <1>5 DEF Executing, t0
    <2>2. Cardinality(Executing(t)') = Cardinality(Executing(t)) - 1
      BY <2>1, CoroutinesFinite, FS_RemoveElement
    <2>3. done'[t] = done[t] + 1
      BY <1>1, <1>3, <1>5
    <2> QED
      BY <1>3, <1>4, <2>2, <2>3, CoroutinesFinite
  <1>6. CASE t # t0
    <2>1. Executing(t)' = Executing(t)
      BY <1>1, <1>2, <1>6 DEF Executing, t0
    <2>2. done'[t] = done[t]
      BY <1>1, <1>3, <1>6
    <2> QED
      BY <1>3, <1>4, <2>1, <2>2
  <1> QED
    BY <1>5, <1>6

(***************************************************************************)
(* A poll claims each of its tasks once more and starts one coroutine for  *)
(* it.                                                                     *)
(***************************************************************************)
LEMMA PollCounted ==
  ASSUME DispatchInv, WorkCounted, NEW w \in Workers, NEW T \in SUBSET Tasks, Poll(w, T)
  PROVE  WorkCounted'
  <1>1. PICK f \in [T -> ClientsOf(w)] :
            /\ \A c \in ClientsOf(w) : job[c] = None
            /\ \A t, u \in T : f[t] = f[u] => t = u
            /\ job' = NewJobs(T, f)
    BY PollJobs DEF DispatchInv
  <1>2. /\ \A t \in T : /\ f[t] \in Clients /\ job[f[t]] = None
                        /\ job'[f[t]] # None
                        /\ job'[f[t]].task = t /\ job'[f[t]].phase = "start"
        /\ \A c \in Clients : (\A t \in T : f[t] # c) => job'[c] = job[c]
    BY <1>1, PolledJobs DEF DispatchInv
  <1>3. /\ started' = started /\ done' = done
        /\ \A t \in Tasks : claims'[t] = claims[t] + (IF t \in T THEN 1 ELSE 0)
    <2>1. S!TypeOK /\ ClaimsCounted /\ S!PollDueTasks(w, T)
      BY DEF DispatchInv, TypeOK, Poll
    <2> QED
      BY <2>1, PollKeeps DEF Poll, histVars
  <1> SUFFICES ASSUME NEW t \in Tasks
               PROVE  /\ started[t] + Cardinality(Untried(t)') <= claims'[t]
                      /\ done[t] + Cardinality(Executing(t)') <= started[t]
    BY <1>3 DEF WorkCounted
  <1>4. /\ started[t] + Cardinality(Untried(t)) <= claims[t]
        /\ done[t] + Cardinality(Executing(t)) <= started[t]
        /\ started[t] \in Nat /\ claims[t] \in Nat
    BY DEF WorkCounted, DispatchInv, TypeOK, S!TypeOK
  <1>5. Executing(t)' = Executing(t)
    BY <1>2 DEF Executing
  <1>6. CASE t \in T
    <2>1. f[t] \notin Untried(t) /\ Untried(t)' = Untried(t) \cup {f[t]}
      BY <1>2, <1>6 DEF Untried
    <2>2. Cardinality(Untried(t)') = Cardinality(Untried(t)) + 1
      BY <2>1, CoroutinesFinite, FS_AddElement
    <2> QED
      BY <1>3, <1>4, <1>5, <1>6, <2>2, CoroutinesFinite
  <1>7. CASE t \notin T
    <2>1. Untried(t)' = Untried(t)
      BY <1>2, <1>7 DEF Untried
    <2> QED
      BY <1>3, <1>4, <1>5, <1>7, <2>1, CoroutinesFinite
  <1> QED
    BY <1>6, <1>7

(***************************************************************************)
(* The claims of a task are never taken back.                              *)
(***************************************************************************)
LEMMA ClaimsGrow ==
  ASSUME DispatchInv, Next
  PROVE  claims' \in [Tasks -> Nat] /\ \A t \in Tasks : claims'[t] >= claims[t]
  <1>1. S!TypeOK /\ TypeOK /\ ClaimsCounted /\ claims \in [Tasks -> Nat]
    BY DEF DispatchInv, TypeOK, S!TypeOK
  <1>2. CASE QueuePoll
    <2>1. S!TypeOK' /\ \A t \in Tasks : claims'[t] = claims[t] + 1 \/ claims'[t] = claims[t] + 0
      BY <1>1, <1>2, PollKeeps DEF QueuePoll
    <2> QED
      BY <1>1, <2>1 DEF S!TypeOK
  <1>3. ASSUME NEW X, RowsKept(X)
        PROVE  claims' = claims
    BY <1>3 DEF RowsKept
  <1>4. QueuePoll \/ claims' = claims
    BY <1>1, <1>3, OthersKeep, ReportKeeps
  <1>5. claims' = claims => \A t \in Tasks : claims'[t] >= claims[t]
    BY <1>1
  <1> QED
    BY <1>1, <1>2, <1>4, <1>5

(***************************************************************************)
(* Every step preserves the counts.                                        *)
(***************************************************************************)
LEMMA CountsKept ==
  ASSUME DispatchInv, WorkCounted, Next
  PROVE  WorkCounted'
  <1>1. TypeOK /\ job \in [Clients -> Job \cup {None}]
    BY DEF DispatchInv, TypeOK
  <1>2. claims' \in [Tasks -> Nat] /\ \A t \in Tasks : claims'[t] >= claims[t]
    BY ClaimsGrow
  <1>3. ASSUME NEW c \in Clients, ClientStep(c)
        PROVE  WorkCounted'
    <2>1. CASE StartRunless(c) \/ LeaseTaken(c) \/ LeaseRecheck(c)
      <3>1. (At(c, "start") \/ At(c, "lease")) /\ Begin(c) /\ claims' = claims
        BY <2>1 DEF StartRunless, LeaseTaken, LeaseRecheck, queueVars
      <3> QED
        BY <1>1, <3>1, BeginCounted
    <2>2. CASE LeaseInsert(c)
      <3>1. CASE Begin(c)
        <4>1. At(c, "lease") /\ claims' = claims
          BY <2>2 DEF LeaseInsert, queueVars
        <4> QED
          BY <1>1, <3>1, <4>1, BeginCounted
      <3>2. CASE UNCHANGED <<job, histVars>>
        BY <1>1, <1>2, <3>2, NoMoreWork DEF histVars
      <3> QED
        BY <2>2, <3>1, <3>2 DEF LeaseInsert
    <2>3. CASE HandlerReturned(c)
      BY <1>1, <2>3, ReturnCounted
    <2>4. CASE LeaseMiss(c)
      <3>1. At(c, "start") /\ GoTo(c, "lease") /\ UNCHANGED histVars
        BY <2>4 DEF LeaseMiss
      <3>2. /\ job[c] # None /\ job'[c].task = job[c].task /\ job[c].phase = "start"
            /\ job'[c].phase = "lease"
            /\ \A d \in Clients \ {c} : job'[d] = job[d]
        BY <1>1, <3>1, Moved DEF At, Phase
      <3> QED
        BY <1>1, <1>2, <3>1, <3>2, NoMoreWork DEF histVars
    <2>5. CASE Reject(c) \/ HandlerRaised(c) \/ ReportSuccess(c)
               \/ ReportSuccessLost(c) \/ ReportFailure(c)
      <3>1. PICK p \in {"bad", "release"} : job[c] # None /\ GoTo(c, p) /\ UNCHANGED histVars
        BY <2>5 DEF Reject, HandlerRaised, ReportSuccess, ReportSuccessLost, ReportFailure, At
      <3>2. /\ job[c] # None /\ job'[c].task = job[c].task /\ job'[c].phase = p
            /\ \A d \in Clients \ {c} : job'[d] = job[d]
        BY <1>1, <3>1, Moved DEF Phase
      <3> QED
        BY <1>1, <1>2, <3>1, <3>2, NoMoreWork DEF histVars
    <2>6. CASE LeaseRefused(c) \/ LeaseConflict(c) \/ Release(c)
      <3>1. EndJob(c) /\ UNCHANGED histVars
        BY <2>6 DEF LeaseRefused, LeaseConflict, Release
      <3>2. \A d \in Clients : job'[d] = job[d] \/ job'[d] = None
        BY <1>1, <3>1 DEF EndJob
      <3> QED
        BY <1>1, <1>2, <3>1, <3>2, NoMoreWork DEF histVars
    <2> QED
      BY <1>3, <2>1, <2>2, <2>3, <2>4, <2>5, <2>6 DEF ClientStep
  <1>4. ASSUME NEW w \in Workers, NEW T \in SUBSET Tasks, Poll(w, T)
        PROVE  WorkCounted'
    BY <1>4, PollCounted
  <1>5. ASSUME \/ \E c \in Clients : ExceptionEscapes(c)
               \/ \E w \in Workers : Crash(w)
        PROVE  WorkCounted'
    <2>1. \A d \in Clients : job'[d] = job[d] \/ job'[d] = None
      BY <1>5 DEF ExceptionEscapes, Crash
    <2>2. UNCHANGED histVars
      BY <1>5 DEF ExceptionEscapes, Crash
    <2> QED
      BY <1>1, <1>2, <2>1, <2>2, NoMoreWork DEF histVars
  <1>6. ASSUME \/ \E w \in Workers, T \in SUBSET Tasks : PollLost(w, T)
               \/ \E c \in Clients : HeartbeatClaim(c)
               \/ \E c \in Clients : HeartbeatLease(c)
               \/ \E w \in Workers : Restart(w)
               \/ \E T \in SUBSET Tasks : Sweep(T)
               \/ Tick
        PROVE  WorkCounted'
    <2>1. UNCHANGED job /\ UNCHANGED histVars
      BY <1>6 DEF PollLost, HeartbeatClaim, HeartbeatLease, Restart, Sweep, Tick
    <2> QED
      BY <1>1, <1>2, <2>1, NoMoreWork DEF histVars
  <1> QED
    BY <1>3, <1>4, <1>5, <1>6 DEF Next

(***************************************************************************)
(* The two ways a coroutine comes to report success: it was about to, or   *)
(* its handler has just returned.                                          *)
(***************************************************************************)
LEMMA SuccessKept ==
  ASSUME DispatchInv, Next, NEW c \in Clients, job'[c] # None, job'[c].phase = "ok"
  PROVE  \/ job'[c] = job[c]
         \/ HandlerReturned(c) /\ job'[c].task = job[c].task /\ job[c].task \in Tasks
  <1> DEFINE Goal ==
        \/ job'[c] = job[c]
        \/ HandlerReturned(c) /\ job'[c].task = job[c].task /\ job[c].task \in Tasks
  <1>1. TypeOK /\ job \in [Clients -> Job \cup {None}]
    BY DEF DispatchInv, TypeOK
  <1>2. ASSUME NEW d \in Clients, ClientStep(d)
        PROVE  Goal
    <2>1. CASE HandlerReturned(d)
      <3>1. PICK p \in {"ok", "bad"} : job[d] # None /\ GoTo(d, p)
        BY <2>1 DEF HandlerReturned, At
      <3>2. /\ job[d] \in Job /\ job'[d].task = job[d].task
            /\ \A e \in Clients \ {d} : job'[e] = job[e]
        BY <1>1, <3>1, Moved DEF Phase
      <3> QED
        BY <2>1, <3>2 DEF Job
    <2>2. CASE ~HandlerReturned(d)
      <3>1. \/ \E p \in Phase \ {"ok"} : job[d] # None /\ GoTo(d, p)
            \/ EndJob(d)
            \/ UNCHANGED job
        BY <1>2, <2>2 DEF ClientStep, Reject, StartRunless, LeaseRefused, LeaseTaken,
             LeaseMiss, LeaseInsert, LeaseRecheck, LeaseConflict, HandlerRaised,
             ReportSuccess, ReportSuccessLost, ReportFailure, Release,
             Begin, At, Phase
      <3>2. CASE \E p \in Phase \ {"ok"} : job[d] # None /\ GoTo(d, p)
        BY <1>1, <3>2, Moved
      <3>3. CASE EndJob(d)
        BY <1>1, <3>3 DEF EndJob
      <3> QED
        BY <3>1, <3>2, <3>3
    <2> QED
      BY <2>1, <2>2
  <1>3. ASSUME NEW w \in Workers, NEW T \in SUBSET Tasks, Poll(w, T)
        PROVE  Goal
    <2>1. PICK f \in [T -> ClientsOf(w)] :
              /\ \A t \in T : job'[f[t]].phase = "start"
              /\ (\A t \in T : f[t] # c) => job'[c] = job[c]
      BY <1>1, <1>3, PollJobs, PolledJobs
    <2> QED
      BY <2>1
  <1>4. ASSUME \/ \E d \in Clients : ExceptionEscapes(d)
               \/ \E w \in Workers : Crash(w)
        PROVE  Goal
    BY <1>4 DEF ExceptionEscapes, Crash
  <1>5. ASSUME \/ \E w \in Workers, T \in SUBSET Tasks : PollLost(w, T)
               \/ \E d \in Clients : HeartbeatClaim(d)
               \/ \E d \in Clients : HeartbeatLease(d)
               \/ \E w \in Workers : Restart(w)
               \/ \E T \in SUBSET Tasks : Sweep(T)
               \/ Tick
        PROVE  Goal
    BY <1>5 DEF PollLost, HeartbeatClaim, HeartbeatLease, Restart, Sweep, Tick
  <1> QED
    BY <1>2, <1>3, <1>4, <1>5 DEF Next

(***************************************************************************)
(* Work that was done stays done.                                          *)
(***************************************************************************)
LEMMA DoneGrows ==
  ASSUME DispatchInv, Next
  PROVE  \A t \in Tasks : done'[t] >= done[t]
  <1>1. done \in [Tasks -> Nat]
    BY DEF DispatchInv, TypeOK
  <1>2. done' = done \/ \E t \in Tasks : done' = [done EXCEPT ![t] = done[t] + 1]
    <2>1. ASSUME NEW c \in Clients, HandlerReturned(c)
          PROVE  \E t \in Tasks : done' = [done EXCEPT ![t] = done[t] + 1]
      <3>1. job[c].task \in Tasks
        BY <2>1 DEF DispatchInv, TypeOK, HandlerReturned, At, Job
      <3> QED
        BY <2>1, <3>1 DEF HandlerReturned
    <2>2. ASSUME NEW c \in Clients, ClientStep(c), ~HandlerReturned(c)
          PROVE  done' = done
      BY <2>2 DEF ClientStep, Reject, StartRunless, LeaseRefused, LeaseTaken,
             LeaseMiss, LeaseInsert, LeaseRecheck, LeaseConflict, HandlerRaised,
             ReportSuccess, ReportSuccessLost, ReportFailure, Release,
             Begin, histVars
    <2>3. ASSUME \/ \E w \in Workers, T \in SUBSET Tasks : Poll(w, T) \/ PollLost(w, T)
                 \/ \E d \in Clients : HeartbeatClaim(d) \/ HeartbeatLease(d) \/ ExceptionEscapes(d)
                 \/ \E w \in Workers : Crash(w) \/ Restart(w)
                 \/ \E T \in SUBSET Tasks : Sweep(T)
                 \/ Tick
          PROVE  done' = done
      BY <2>3 DEF Poll, PollLost, HeartbeatClaim, HeartbeatLease, ExceptionEscapes, Crash,
                  Restart, Sweep, Tick, histVars
    <2> QED
      BY <2>1, <2>2, <2>3 DEF Next
  <1> QED
    BY <1>1, <1>2

(***************************************************************************)
(* Only a coroutine whose handler returned completes its task.             *)
(***************************************************************************)
LEMMA CompletionsKept ==
  ASSUME DispatchInv, CompletedMeansDone, SuccessIsDone, Next
  PROVE  CompletedMeansDone' /\ SuccessIsDone'
  <1>1. TypeOK /\ S!TypeOK /\ ClaimsCounted /\ done \in [Tasks -> Nat] /\ done' \in [Tasks -> Nat]
    BY JobStep DEF DispatchInv, TypeOK
  <1>2. ASSUME NEW t \in Tasks, row'[t].status = "completed"
        PROVE  done'[t] >= 1
    <2>1. CASE row[t].status = "completed"
      <3>1. done[t] >= 1
        BY <2>1 DEF CompletedMeansDone
      <3> QED
        BY <1>1, <3>1, DoneGrows
    <2>2. CASE row[t].status # "completed"
      <3>1. ~QueuePoll
        BY <1>1, <1>2, <2>2, PollKeeps DEF QueuePoll
      <3>2. ~RowsKept({})
        BY <1>2, <2>2 DEF RowsKept
      <3>3. PICK c \in Clients : ReportSuccess(c) \/ ReportSuccessLost(c)
        BY <1>1, <3>1, <3>2, OthersKeep
      <3>4. RowsKept({job[c].task}) /\ At(c, "ok")
        BY <1>1, <3>3, ReportKeeps
      <3>5. t = job[c].task
        BY <1>2, <2>2, <3>4 DEF RowsKept
      <3>6. done[t] >= 1
        BY <3>4, <3>5 DEF SuccessIsDone
      <3> QED
        BY <1>1, <3>6, DoneGrows
    <2> QED
      BY <2>1, <2>2
  <1>3. ASSUME NEW c \in Clients, job'[c] # None, job'[c].phase = "ok"
        PROVE  done'[job'[c].task] >= 1
    <2>1. CASE job'[c] = job[c]
      <3>1. job[c].task \in Tasks /\ done[job[c].task] >= 1
        BY <1>3, <2>1 DEF SuccessIsDone, At, DispatchInv, TypeOK, Job
      <3> QED
        BY <1>1, <2>1, <3>1, DoneGrows
    <2>2. CASE HandlerReturned(c) /\ job'[c].task = job[c].task /\ job[c].task \in Tasks
      <3>1. done' = [done EXCEPT ![job[c].task] = done[job[c].task] + 1]
        BY <2>2 DEF HandlerReturned
      <3> QED
        BY <1>1, <2>2, <3>1
    <2> QED
      BY <1>3, <2>1, <2>2, SuccessKept
  <1> QED
    BY <1>2, <1>3 DEF CompletedMeansDone, SuccessIsDone, At

(***************************************************************************)
(* The inductive invariant of the worker's bookkeeping: claims, executions *)
(* begun and executions done are counted against the coroutines that are   *)
(* still to begin one or are inside one, and success is reported only by a *)
(* coroutine whose handler returned.                                       *)
(***************************************************************************)
THEOREM WorkInductive == Spec => []WorkInv
  <1>1. Init => WorkInv
    <2> SUFFICES ASSUME Init PROVE WorkInv
      OBVIOUS
    <2>1. /\ job = [c \in Clients |-> None] /\ claims = [t \in Tasks |-> 0]
          /\ started = [t \in Tasks |-> 0] /\ done = [t \in Tasks |-> 0]
      BY DEF Init
    <2>2. \A t \in Tasks : Untried(t) = {} /\ Executing(t) = {}
      BY <2>1 DEF Untried, Executing
    <2>3. WorkCounted
      BY <2>1, <2>2, FS_EmptySet DEF WorkCounted
    <2>4. CompletedMeansDone
      <3>1. \A t \in Tasks : row[t].status = "scheduled"
        BY DEF Init, S!NewRow
      <3> QED
        BY <3>1 DEF CompletedMeansDone
    <2>5. SuccessIsDone
      BY <2>1 DEF SuccessIsDone, At
    <2> QED
      BY <2>3, <2>4, <2>5, DispatchStarts DEF WorkInv
  <1>2. WorkInv /\ [Next]_vars => WorkInv'
    <2> SUFFICES ASSUME WorkInv, [Next]_vars PROVE WorkInv'
      OBVIOUS
    <2>1. CASE Next
      BY <2>1, DispatchKept, CountsKept, CompletionsKept DEF WorkInv
    <2>2. CASE UNCHANGED vars
      <3>1. (WorkCounted /\ CompletedMeansDone /\ SuccessIsDone)'
        BY <2>2 DEF vars, queueVars, leaseVars, histVars, WorkInv, WorkCounted, Untried, Executing,
                    CompletedMeansDone, SuccessIsDone, At
      <3> QED
        BY <3>1, DispatchKept DEF WorkInv
    <2> QED
      BY <2>1, <2>2
  <1> QED
    BY <1>1, <1>2, PTL DEF Spec

(***************************************************************************)
(* A task turns completed only when some execution of it did all its work. *)
(***************************************************************************)
THEOREM CompletionHonest == Spec => []CompletedMeansDone
  <1>1. WorkInv => CompletedMeansDone
    BY DEF WorkInv
  <1> QED
    BY <1>1, WorkInductive, PTL

(***************************************************************************)
(* At most one execution per claim, however many coroutines, workers,      *)
(* crashes and lost replies there are.                                     *)
(***************************************************************************)
THEOREM OneExecutionPerClaim == Spec => []ExecutionsBounded
  <1>1. WorkInv => ExecutionsBounded
    <2> SUFFICES ASSUME WorkInv, NEW t \in Tasks
                 PROVE  done[t] <= started[t] /\ started[t] <= claims[t]
      BY DEF ExecutionsBounded
    <2>1. /\ started[t] + Cardinality(Untried(t)) <= claims[t]
          /\ done[t] + Cardinality(Executing(t)) <= started[t]
          /\ started[t] \in Nat /\ done[t] \in Nat /\ claims[t] \in Nat
      BY DEF WorkInv, WorkCounted, DispatchInv, TypeOK, S!TypeOK
    <2> QED
      BY <2>1, CoroutinesFinite
  <1> QED
    BY <1>1, WorkInductive, PTL

(***************************************************************************)
(* And at most maxAttempts executions of a task in all, one if it is 0.    *)
(***************************************************************************)
THEOREM AttemptsKept == Spec => []AttemptsBounded
  <1>1. WorkInv => AttemptsBounded
    <2> SUFFICES ASSUME WorkInv, NEW t \in Tasks
                 PROVE  started[t] <= Budget
      BY DEF AttemptsBounded
    <2>1. /\ started[t] + Cardinality(Untried(t)) <= claims[t]
          /\ started[t] \in Nat /\ claims[t] \in Nat /\ row[t] \in S!Row
          /\ RowCounted(row[t], claims[t])
      BY DEF WorkInv, WorkCounted, DispatchInv, TypeOK, S!TypeOK, ClaimsCounted
    <2>2. Budget \in Nat /\ row[t].attemptCount \in Nat
      BY <2>1, DispatchAssumption DEF Budget, S!Row
    <2>3. claims[t] <= Budget
      BY <2>1, <2>2 DEF RowCounted
    <2> QED
      BY <2>1, <2>2, <2>3, CoroutinesFinite
  <1> QED
    BY <1>1, WorkInductive, PTL

-----------------------------------------------------------------------------
(* One worker per run.                                                     *)

(***************************************************************************)
(* A step that only moves or ends jobs leaves no worker with two jobs of   *)
(* one run, if there was none before.                                      *)
(***************************************************************************)
LEMMA JobsShrink ==
  ASSUME OneJobPerRun,
         \A c \in Clients : job'[c] = None \/ (job[c] # None /\ job'[c].run = job[c].run)
  PROVE  OneJobPerRun'
  BY DEF OneJobPerRun

(***************************************************************************)
(* A poll starts jobs of different tasks on an idle worker.                *)
(***************************************************************************)
LEMMA PollOneJob ==
  ASSUME RunsUnshared, DispatchInv, RunsFixed, OneJobPerRun,
         NEW w \in Workers, NEW T \in SUBSET Tasks, Poll(w, T)
  PROVE  OneJobPerRun'
  <1>1. PICK f \in [T -> ClientsOf(w)] :
            /\ \A c \in ClientsOf(w) : job[c] = None
            /\ \A t, u \in T : f[t] = f[u] => t = u
            /\ job' = NewJobs(T, f)
    BY PollJobs DEF DispatchInv
  <1>2. /\ \A t \in T : /\ f[t] \in Clients /\ WorkerOf[f[t]] = w
                        /\ job'[f[t]].run = row[t].runId
        /\ \A c \in Clients : (\A t \in T : f[t] # c) => job'[c] = job[c]
    BY <1>1, PolledJobs DEF DispatchInv
  <1> SUFFICES ASSUME NEW c \in Clients, NEW d \in Clients,
                      job'[c] # None, job'[d] # None,
                      job'[c].run \in Runs, job'[c].run = job'[d].run,
                      WorkerOf[c] = WorkerOf[d]
               PROVE  c = d
    BY DEF OneJobPerRun
  <1>3. CASE \A e, g \in Clients : WorkerOf[e] = WorkerOf[g] => e = g
    BY <1>3
  <1>4. CASE \A RunOf \in RunOfs : \A t, u \in Tasks :
                (RunOf[t] \in Runs /\ RunOf[t] = RunOf[u]) => t = u
    <2>1. CASE WorkerOf[c] = w
      <3>1. job[c] = None /\ job[d] = None
        BY <1>1, <2>1 DEF ClientsOf
      <3>2. PICK t \in T : f[t] = c
        BY <1>2, <3>1
      <3>3. PICK u \in T : f[u] = d
        BY <1>2, <3>1
      <3>4. row[t].runId = row[u].runId /\ row[t].runId \in Runs
        BY <1>2, <3>2, <3>3
      <3>5. t = u
        BY <1>4, <3>4 DEF RunsFixed
      <3> QED
        BY <3>2, <3>3, <3>5
    <2>2. CASE WorkerOf[c] # w
      <3>1. job'[c] = job[c] /\ job'[d] = job[d]
        BY <1>2, <2>2
      <3> QED
        BY <3>1 DEF OneJobPerRun
    <2> QED
      BY <2>1, <2>2
  <1> QED
    BY <1>3, <1>4 DEF RunsUnshared

(***************************************************************************)
(* Taking a lease: nobody else can be executing the run, because its       *)
(* lease would be running and would belong to another worker.              *)
(***************************************************************************)
LEMMA GrantExcludes ==
  ASSUME DispatchInv, OneJobPerRun, LeaseOfJob, RunningOwns, late' = late,
         NEW c \in Clients, At(c, "start") \/ At(c, "lease"),
         NEW r \in Runs, r = job[c].run,
         ~L!HeldByOther(c, r), L!Grant(c, r), GoTo(c, "running")
  PROVE  LeaseOfJob' /\ RunningOwns'
  <1>1. /\ job \in [Clients -> Job \cup {None}]
        /\ lease \in [Runs -> L!LeaseRow \cup {None}]
        /\ mine \in [Clients -> [run : Runs, token : Nat] \cup {None}]
        /\ asking \in [Clients -> [run : Runs, at : {"insert", "recheck"}] \cup {None}]
        /\ issued[r] + 1 \in Nat
        /\ WorkerOf[c] \in Workers /\ LeaseTTL \in Nat /\ LeaseTTL > 0
    BY DispatchAssumption DEF DispatchInv, TypeOK, L!LeaseTypeOK
  <1>2. /\ job[c] # None /\ job[c].phase \in {"start", "lease"}
        /\ job'[c] # None /\ job'[c].run = r /\ job'[c].phase = "running"
        /\ \A d \in Clients \ {c} : job'[d] = job[d]
    BY <1>1, Moved DEF At, Phase
  <1> DEFINE l == [worker |-> WorkerOf[c], token |-> issued[r] + 1, expIn |-> LeaseTTL]
             m == [run |-> r, token |-> issued[r] + 1]
  <1>3. /\ lease' = [lease EXCEPT ![r] = l]
        /\ mine' = [mine EXCEPT ![c] = m]
        /\ asking' = [asking EXCEPT ![c] = None]
    BY DEF L!Grant
  <1>4. l \in L!LeaseRow /\ m \in [run : Runs, token : Nat]
    BY <1>1 DEF L!LeaseRow
  <1>5. l # None /\ m # None
    BY <1>4, NoneIsNothing
  <1>6. l.worker = WorkerOf[c] /\ l.token = m.token /\ l.expIn > 0 /\ m.run = r
    BY <1>1
  <1> HIDE DEF l, m
  <1>7. LeaseOfJob'
    <2> SUFFICES ASSUME NEW d \in Clients
                 PROVE  /\ asking'[d] # None =>
                              /\ job'[d] # None /\ job'[d].phase = "lease"
                              /\ asking'[d].run = job'[d].run
                        /\ mine'[d] # None =>
                              /\ job'[d] # None
                              /\ job'[d].phase \in {"running", "ok", "bad", "release"}
                              /\ mine'[d].run = job'[d].run
                        /\ (job'[d] # None /\ job'[d].phase = "lease") => job'[d].run \in Runs
      BY DEF LeaseOfJob, At
    <2>1. CASE d = c
      BY <1>1, <1>2, <1>3, <1>6, <2>1
    <2>2. CASE d # c
      BY <1>1, <1>2, <1>3, <2>2 DEF LeaseOfJob, At
    <2> QED
      BY <2>1, <2>2
  <1>8. RunningOwns'
    <2> SUFFICES ASSUME ~late, NEW d \in Clients,
                        job'[d] # None, job'[d].phase = "running", job'[d].run \in Runs
                 PROVE  /\ mine'[d] # None /\ mine'[d].run = job'[d].run
                        /\ lease'[job'[d].run] # None
                        /\ lease'[job'[d].run].worker = WorkerOf[d]
                        /\ lease'[job'[d].run].token = mine'[d].token
                        /\ lease'[job'[d].run].expIn > 0
      BY DEF RunningOwns, At, L!OwnsLease
    <2>1. CASE d = c
      BY <1>1, <1>2, <1>3, <1>5, <1>6, <2>1
    <2>2. CASE d # c
      <3>1. /\ job[d] # None /\ job[d].phase = "running" /\ job[d].run \in Runs
            /\ job'[d] = job[d]
        BY <1>2, <2>2
      <3>2. /\ mine[d] # None /\ mine[d].run = job[d].run
            /\ lease[job[d].run] # None
            /\ lease[job[d].run].worker = WorkerOf[d]
            /\ lease[job[d].run].token = mine[d].token
            /\ lease[job[d].run].expIn > 0
        BY <3>1 DEF RunningOwns, At, L!OwnsLease
      <3>3. job[d].run # r
        <4> SUFFICES ASSUME job[d].run = r PROVE FALSE
          OBVIOUS
        <4>1. WorkerOf[d] = WorkerOf[c]
          BY <3>2 DEF L!HeldByOther
        <4> QED
          BY <1>2, <2>2, <3>1, <4>1 DEF OneJobPerRun
      <3> QED
        BY <1>1, <1>3, <2>2, <3>1, <3>2, <3>3
    <2> QED
      BY <2>1, <2>2
  <1> QED
    BY <1>7, <1>8

(***************************************************************************)
(* A job that moves on without a call of the lease service.                *)
(***************************************************************************)
LEMMA MoveExcludes ==
  ASSUME DispatchInv, LeaseOfJob, RunningOwns, late' = late, UNCHANGED leaseVars,
         NEW c \in Clients, job[c] # None, job[c].phase # "lease",
         NEW p \in {"running", "ok", "bad", "release"}, GoTo(c, p),
         p = "running" => job[c].run \notin Runs
  PROVE  LeaseOfJob' /\ RunningOwns'
  <1>1. /\ job'[c] # None /\ job'[c].run = job[c].run /\ job'[c].phase = p
        /\ \A d \in Clients \ {c} : job'[d] = job[d]
    BY Moved DEF DispatchInv, TypeOK, Phase
  <1>2. lease' = lease /\ mine' = mine /\ asking' = asking
    BY DEF leaseVars
  <1>3. LeaseOfJob'
    BY <1>1, <1>2 DEF LeaseOfJob, At
  <1>4. RunningOwns'
    BY <1>1, <1>2 DEF RunningOwns, At, L!OwnsLease
  <1> QED
    BY <1>3, <1>4

(***************************************************************************)
(* Jobs that end while others go on: the lease rows that go with them are  *)
(* not those of a coroutine that goes on executing.                        *)
(***************************************************************************)
LEMMA EndExcludes ==
  ASSUME DispatchInv, LeaseOfJob, RunningOwns, late' = late,
         \A d \in Clients :
            \/ job'[d] = None /\ asking'[d] = None /\ mine'[d] = None
            \/ /\ job'[d] = job[d] /\ asking'[d] = asking[d] /\ mine'[d] = mine[d]
               /\ (At(d, "running") /\ L!OwnsLease(d)) => lease'[mine[d].run] = lease[mine[d].run]
  PROVE  LeaseOfJob' /\ RunningOwns'
  <1>1. LeaseOfJob'
    BY DEF LeaseOfJob, At
  <1>2. RunningOwns'
    BY DEF RunningOwns, At, L!OwnsLease
  <1> QED
    BY <1>1, <1>2

(***************************************************************************)
(* A step of one coroutine.                                                *)
(***************************************************************************)
LEMMA ClientExcludes ==
  ASSUME DispatchInv, OneJobPerRun, LeaseOfJob, RunningOwns, NEW c \in Clients, ClientStep(c)
  PROVE  OneJobPerRun' /\ LeaseOfJob' /\ RunningOwns'
  <1>1. /\ job \in [Clients -> Job \cup {None}]
        /\ lease \in [Runs -> L!LeaseRow \cup {None}]
        /\ mine \in [Clients -> [run : Runs, token : Nat] \cup {None}]
        /\ asking \in [Clients -> [run : Runs, at : {"insert", "recheck"}] \cup {None}]
    BY DEF DispatchInv, TypeOK, L!LeaseTypeOK
  <1>2. late' = late
    BY DEF ClientStep, Reject, StartRunless, LeaseRefused, LeaseTaken,
           LeaseMiss, LeaseInsert, LeaseRecheck, LeaseConflict, HandlerRaised,
           HandlerReturned, ReportSuccess, ReportSuccessLost, ReportFailure, Release
  <1>3. OneJobPerRun'
    <2>1. \/ \E p \in Phase : job[c] # None /\ GoTo(c, p)
          \/ EndJob(c)
          \/ UNCHANGED job
      BY DEF ClientStep, Reject, StartRunless, LeaseRefused, LeaseTaken,
             LeaseMiss, LeaseInsert, LeaseRecheck, LeaseConflict, HandlerRaised,
             HandlerReturned, ReportSuccess, ReportSuccessLost, ReportFailure, Release,
             Begin, At, Phase
    <2>2. CASE \E p \in Phase : job[c] # None /\ GoTo(c, p)
      <3>1. job'[c].run = job[c].run /\ \A d \in Clients \ {c} : job'[d] = job[d]
        BY <1>1, <2>2, Moved
      <3> QED
        BY <2>2, <3>1, JobsShrink
    <2>3. CASE EndJob(c)
      <3>1. \A d \in Clients : job'[d] = None \/ job'[d] = job[d]
        BY <1>1, <2>3 DEF EndJob
      <3> QED
        BY <3>1, JobsShrink
    <2>4. CASE UNCHANGED job
      BY <2>4, JobsShrink
    <2> QED
      BY <2>1, <2>2, <2>3, <2>4
  <1>4. CASE LeaseTaken(c)
    <2>1. /\ At(c, "start") /\ job[c].run \in Runs /\ GoTo(c, "running")
          /\ ~L!HeldByOther(c, job[c].run) /\ L!Grant(c, job[c].run)
      BY <1>4 DEF LeaseTaken, L!AcquireExisting, Begin
    <2> QED
      BY <1>2, <1>3, <2>1, GrantExcludes
  <1>5. CASE LeaseRecheck(c)
    <2>1. /\ At(c, "lease") /\ asking[c] # None /\ GoTo(c, "running")
          /\ ~L!HeldByOther(c, asking[c].run) /\ L!Grant(c, asking[c].run)
      BY <1>5 DEF LeaseRecheck, L!AcquireRecheck, Begin
    <2>2. asking[c].run = job[c].run /\ job[c].run \in Runs
      BY <2>1 DEF LeaseOfJob
    <2> QED
      BY <1>2, <1>3, <2>1, <2>2, GrantExcludes
  <1>6. CASE LeaseInsert(c)
    <2>1. At(c, "lease") /\ asking[c] # None /\ L!AcquireInsert(c)
      BY <1>6 DEF LeaseInsert, L!AcquireInsert
    <2>2. asking[c].run = job[c].run /\ job[c].run \in Runs
      BY <2>1 DEF LeaseOfJob
    <2>3. mine[c] = None
      BY <2>1 DEF LeaseOfJob, At
    <2>4. CASE lease[asking[c].run] = None
      <3>1. L!Grant(c, job[c].run) /\ ~L!HeldByOther(c, job[c].run)
        BY <2>1, <2>2, <2>4 DEF L!AcquireInsert, L!HeldByOther
      <3>2. mine'[c] # None
        <4> DEFINE m == [run |-> job[c].run, token |-> issued[job[c].run] + 1]
        <4>1. issued[job[c].run] + 1 \in Nat
          BY <2>2 DEF DispatchInv, TypeOK, L!LeaseTypeOK
        <4>2. m \in [run : Runs, token : Nat]
          BY <2>2, <4>1
        <4>3. mine'[c] = m
          BY <1>1, <3>1 DEF L!Grant
        <4> HIDE DEF m
        <4> QED
          BY <4>2, <4>3, NoneIsNothing
      <3>3. GoTo(c, "running")
        BY <1>6, <3>2 DEF LeaseInsert, Begin
      <3> QED
        BY <1>2, <1>3, <2>1, <2>2, <3>1, <3>3, GrantExcludes
    <2>5. CASE lease[asking[c].run] # None
      <3>1. /\ asking' = [asking EXCEPT ![c].at = "recheck"]
            /\ lease' = lease /\ mine' = mine
        BY <2>1, <2>5 DEF L!AcquireInsert
      <3>2. job' = job
        BY <1>6, <2>3, <3>1 DEF LeaseInsert
      <3>3. asking[c] \in [run : Runs, at : {"insert", "recheck"}]
        BY <1>1, <2>1
      <3>4. asking'[c].run = asking[c].run /\ \A d \in Clients \ {c} : asking'[d] = asking[d]
        BY <1>1, <3>1, <3>3
      <3>5. LeaseOfJob'
        BY <2>1, <3>1, <3>2, <3>4 DEF LeaseOfJob, At
      <3>6. RunningOwns'
        BY <1>2, <3>1, <3>2 DEF RunningOwns, At, L!OwnsLease
      <3> QED
        BY <1>3, <3>5, <3>6
    <2> QED
      BY <2>4, <2>5
  <1>7. CASE LeaseMiss(c)
    <2>1. /\ At(c, "start") /\ job[c].run \in Runs /\ GoTo(c, "lease")
          /\ asking' = [asking EXCEPT ![c] = [run |-> job[c].run, at |-> "insert"]]
          /\ mine[c] = None /\ lease' = lease /\ mine' = mine
      BY <1>7 DEF LeaseMiss, L!AcquireMiss, L!Idle
    <2>2. /\ job'[c] # None /\ job'[c].run = job[c].run /\ job'[c].phase = "lease"
          /\ \A d \in Clients \ {c} : job'[d] = job[d]
      BY <1>1, <2>1, Moved DEF At, Phase
    <2>3. asking'[c].run = job[c].run /\ \A d \in Clients \ {c} : asking'[d] = asking[d]
      BY <1>1, <2>1
    <2>4. LeaseOfJob'
      BY <2>1, <2>2, <2>3 DEF LeaseOfJob, At
    <2>5. RunningOwns'
      BY <1>2, <2>1, <2>2 DEF RunningOwns, At, L!OwnsLease
    <2> QED
      BY <1>3, <2>4, <2>5
  <1>8. CASE LeaseRefused(c) \/ LeaseConflict(c)
    <2>1. EndJob(c) /\ lease' = lease /\ mine' = mine
          /\ asking' \in {asking, [asking EXCEPT ![c] = None]}
      BY <1>8 DEF LeaseRefused, LeaseConflict, L!AcquireRefused, L!AcquireConflict, L!leaseVars
    <2>2. mine[c] = None /\ asking'[c] = None
      BY <1>1, <1>8 DEF LeaseRefused, LeaseConflict, L!AcquireRefused, L!AcquireConflict, L!Idle,
                        L!leaseVars, LeaseOfJob, At
    <2>3. job'[c] = None /\ \A d \in Clients \ {c} : job'[d] = job[d] /\ asking'[d] = asking[d]
      BY <1>1, <2>1 DEF EndJob
    <2> QED
      BY <1>2, <1>3, <2>1, <2>2, <2>3, EndExcludes
  <1>9. CASE Release(c)
    <2>1. At(c, "release") /\ EndJob(c)
      BY <1>9 DEF Release
    <2>2. asking[c] = None
      BY <2>1 DEF LeaseOfJob, At
    <2>3. job'[c] = None /\ \A d \in Clients \ {c} : job'[d] = job[d]
      BY <1>1, <2>1 DEF EndJob
    <2>4. CASE mine[c] = None
      <3>1. lease' = lease /\ mine' = mine /\ asking' = asking
        BY <1>9, <2>4 DEF Release, leaseVars
      <3> QED
        BY <1>2, <1>3, <2>2, <2>3, <2>4, <3>1, EndExcludes
    <2>5. CASE mine[c] # None
      <3>1. /\ lease' = IF L!OwnsLease(c) THEN [lease EXCEPT ![mine[c].run] = None] ELSE lease
            /\ mine' = [mine EXCEPT ![c] = None] /\ asking' = asking
        BY <1>9, <2>5 DEF Release, L!ReleaseLease
      <3>2. mine'[c] = None /\ \A d \in Clients \ {c} : mine'[d] = mine[d]
        BY <1>1, <3>1
      <3>3. ASSUME NEW d \in Clients \ {c}, L!OwnsLease(d), At(d, "running")
            PROVE  lease'[mine[d].run] = lease[mine[d].run]
        <4> SUFFICES ASSUME L!OwnsLease(c), mine[c].run = mine[d].run PROVE FALSE
          BY <1>1, <3>1, <3>3 DEF L!OwnsLease
        <4>1. WorkerOf[c] = WorkerOf[d]
          BY <3>3 DEF L!OwnsLease
        <4>2. /\ job[c] # None /\ mine[c].run = job[c].run
              /\ job[d] # None /\ mine[d].run = job[d].run
          BY <3>3 DEF L!OwnsLease, LeaseOfJob
        <4>3. mine[c].run \in Runs
          BY <1>1, <2>5
        <4> QED
          BY <3>3, <4>1, <4>2, <4>3 DEF OneJobPerRun
      <3>4. \A d \in Clients : d = c \/ d \in Clients \ {c}
        OBVIOUS
      <3> QED
        BY <1>2, <1>3, <2>2, <2>3, <3>1, <3>2, <3>3, <3>4, EndExcludes
    <2> QED
      BY <2>4, <2>5
  <1>10. CASE StartRunless(c)
    <2>1. /\ job[c] # None /\ job[c].phase = "start" /\ GoTo(c, "running")
          /\ job[c].run \notin Runs /\ UNCHANGED leaseVars
      BY <1>10, NoneIsNothing DEF StartRunless, Begin, At
    <2> QED
      BY <1>2, <1>3, <2>1, MoveExcludes
  <1>11. CASE Reject(c) \/ HandlerRaised(c) \/ HandlerReturned(c)
              \/ ReportSuccess(c) \/ ReportSuccessLost(c) \/ ReportFailure(c)
    <2>1. PICK p \in {"ok", "bad", "release"} :
            /\ job[c] # None /\ job[c].phase # "lease" /\ GoTo(c, p) /\ UNCHANGED leaseVars
      BY <1>11 DEF Reject, HandlerRaised, HandlerReturned, ReportSuccess, ReportSuccessLost,
                   ReportFailure, At
    <2> QED
      BY <1>2, <1>3, <2>1, MoveExcludes
  <1> QED
    BY <1>4, <1>5, <1>6, <1>7, <1>8, <1>9, <1>10, <1>11 DEF ClientStep

(***************************************************************************)
(* A worker ends, and the coroutine c, if any, releases its lease first.   *)
(***************************************************************************)
LEMMA QuitExcludes ==
  ASSUME DispatchInv, OneJobPerRun, LeaseOfJob, RunningOwns, late' = late,
         NEW w \in Workers, NEW C \in SUBSET Clients, \A c \in C : WorkerOf[c] = w,
         L!Quit(w, C),
         job' = [d \in Clients |-> IF WorkerOf[d] = w THEN None ELSE job[d]]
  PROVE  OneJobPerRun' /\ LeaseOfJob' /\ RunningOwns'
  <1>1. OneJobPerRun'
    BY JobsShrink
  <1>2. ASSUME NEW d \in Clients, WorkerOf[d] = w
        PROVE  job'[d] = None /\ asking'[d] = None /\ mine'[d] = None
    BY <1>2 DEF L!Quit
  <1>3. ASSUME NEW d \in Clients, WorkerOf[d] # w
        PROVE  job'[d] = job[d] /\ asking'[d] = asking[d] /\ mine'[d] = mine[d]
    BY <1>3 DEF L!Quit
  <1>4. ASSUME NEW d \in Clients, WorkerOf[d] # w, L!OwnsLease(d)
        PROVE  lease'[mine[d].run] = lease[mine[d].run]
    <2>1. mine[d].run \in Runs
      BY <1>4 DEF L!OwnsLease, DispatchInv, TypeOK, L!LeaseTypeOK
    <2>2. ~\E c \in C : L!OwnsLease(c) /\ mine[c].run = mine[d].run
      BY <1>4 DEF L!OwnsLease
    <2> QED
      BY <2>1, <2>2 DEF L!Quit
  <1> QED
    BY <1>1, <1>2, <1>3, <1>4, EndExcludes

(***************************************************************************)
(* renewLease gives the lease of an execution its full time again.         *)
(***************************************************************************)
LEMMA RenewExcludes ==
  ASSUME DispatchInv, LeaseOfJob, RunningOwns, late' = late, job' = job,
         NEW c \in Clients, L!RenewLease(c)
  PROVE  LeaseOfJob' /\ RunningOwns'
  <1>1. /\ mine' = mine /\ asking' = asking
        /\ lease' = [lease EXCEPT ![mine[c].run].expIn = LeaseTTL]
        /\ lease \in [Runs -> L!LeaseRow \cup {None}]
        /\ mine[c].run \in Runs /\ lease[mine[c].run] \in L!LeaseRow
        /\ LeaseTTL \in Nat /\ LeaseTTL > 0
    BY DispatchAssumption DEF L!RenewLease, L!OwnsLease, DispatchInv, TypeOK, L!LeaseTypeOK
  <1> DEFINE l == [lease[mine[c].run] EXCEPT !.expIn = LeaseTTL]
  <1>2. /\ l \in L!LeaseRow /\ l.expIn > 0
        /\ l.worker = lease[mine[c].run].worker /\ l.token = lease[mine[c].run].token
    BY <1>1 DEF L!LeaseRow
  <1>3. lease' = [lease EXCEPT ![mine[c].run] = l]
    BY <1>1
  <1> HIDE DEF l
  <1>4. l # None
    BY <1>2, NoneIsNothing
  <1>5. LeaseOfJob'
    BY <1>1 DEF LeaseOfJob, At
  <1>6. RunningOwns'
    BY <1>1, <1>2, <1>3, <1>4 DEF RunningOwns, At, L!OwnsLease
  <1> QED
    BY <1>5, <1>6

(***************************************************************************)
(* Time passes: while heartbeats are in time no lease of an execution      *)
(* lapses.                                                                 *)
(***************************************************************************)
LEMMA TickExcludes ==
  ASSUME DispatchInv, LeaseOfJob, RunningOwns, Tick
  PROVE  LeaseOfJob' /\ RunningOwns'
  <1>1. /\ job' = job /\ mine' = mine /\ asking' = asking
        /\ lease' = [r \in Runs |-> L!Elapsed(lease[r])]
        /\ late' = (late \/ ~HeartbeatsInTime)
    BY DEF Tick, L!LeaseTick
  <1>2. LeaseOfJob'
    BY <1>1 DEF LeaseOfJob, At
  <1>3. RunningOwns'
    <2> SUFFICES ASSUME ~late', NEW c \in Clients, At(c, "running"), job[c].run \in Runs
                 PROVE  /\ mine[c] # None /\ mine[c].run = job[c].run
                        /\ lease'[job[c].run] # None
                        /\ lease'[job[c].run].worker = WorkerOf[c]
                        /\ lease'[job[c].run].token = mine[c].token
                        /\ lease'[job[c].run].expIn > 0
      BY <1>1 DEF RunningOwns, At, L!OwnsLease
    <2>1. ~late /\ HeartbeatsInTime
      BY <1>1
    <2>2. L!OwnsLease(c) /\ mine[c].run = job[c].run
      BY <2>1 DEF RunningOwns
    <2>3. lease[job[c].run] \in L!LeaseRow /\ lease[job[c].run].expIn > 1
      BY <2>1, <2>2 DEF HeartbeatsInTime, L!OwnsLease, DispatchInv, TypeOK, L!LeaseTypeOK
    <2>4. lease'[job[c].run] = L!Elapsed(lease[job[c].run])
      BY <1>1
    <2> QED
      BY <2>2, <2>3, <2>4, ElapsedTyped, NoneIsNothing DEF L!OwnsLease
  <1> QED
    BY <1>2, <1>3

(***************************************************************************)
(* The coroutines a poll starts hold no lease and execute nothing yet.     *)
(***************************************************************************)
LEMMA PollExcludes ==
  ASSUME DispatchInv, LeaseOfJob, RunningOwns,
         NEW w \in Workers, NEW T \in SUBSET Tasks, Poll(w, T)
  PROVE  LeaseOfJob' /\ RunningOwns'
  <1>1. PICK f \in [T -> ClientsOf(w)] :
            /\ \A c \in ClientsOf(w) : job[c] = None
            /\ \A t, u \in T : f[t] = f[u] => t = u
            /\ job' = NewJobs(T, f)
    BY PollJobs DEF DispatchInv
  <1>2. /\ \A t \in T : /\ f[t] \in Clients /\ job[f[t]] = None
                        /\ job'[f[t]].phase = "start"
        /\ \A c \in Clients : (\A t \in T : f[t] # c) => job'[c] = job[c]
    BY <1>1, PolledJobs DEF DispatchInv
  <1>3. \A c \in Clients : job'[c] = job[c] \/ (job[c] = None /\ job'[c].phase = "start")
    BY <1>2
  <1>4. lease' = lease /\ mine' = mine /\ asking' = asking /\ late' = late
    BY DEF Poll, leaseVars
  <1>5. LeaseOfJob'
    BY <1>3, <1>4 DEF LeaseOfJob, At
  <1>6. RunningOwns'
    BY <1>3, <1>4 DEF RunningOwns, At, L!OwnsLease
  <1> QED
    BY <1>5, <1>6

(***************************************************************************)
(* Every step preserves the invariant of mutual exclusion.                 *)
(***************************************************************************)
LEMMA ExclusionKept ==
  ASSUME RunsUnshared, ExclusionInv, [Next]_vars
  PROVE  ExclusionInv'
  <1>1. DispatchInv /\ RunsFixed /\ OneJobPerRun /\ LeaseOfJob /\ RunningOwns
    BY DEF ExclusionInv
  <1>2. DispatchInv'
    BY <1>1, DispatchKept
  <1>3. RunsFixed'
    <2>1. CASE Next
      <3>1. \A t \in Tasks : row'[t].runId = row[t].runId
        BY <1>1, <2>1, QueueStep DEF DispatchInv
      <3> QED
        BY <1>1, <3>1 DEF RunsFixed
    <2>2. CASE UNCHANGED vars
      BY <1>1, <2>2 DEF vars, queueVars, RunsFixed
    <2> QED
      BY <2>1, <2>2
  <1> DEFINE Goal == OneJobPerRun' /\ LeaseOfJob' /\ RunningOwns'
  <1>4. ASSUME NEW c \in Clients, ClientStep(c)
        PROVE  Goal
    BY <1>1, <1>4, ClientExcludes
  <1>5. ASSUME NEW w \in Workers, NEW T \in SUBSET Tasks, Poll(w, T)
        PROVE  Goal
    BY <1>1, <1>5, PollOneJob, PollExcludes
  <1>6. ASSUME NEW c \in Clients, ExceptionEscapes(c)
        PROVE  Goal
    <2>1. /\ WorkerOf[c] \in Workers /\ {c} \in SUBSET Clients
          /\ \A d \in {c} : WorkerOf[d] = WorkerOf[c]
      BY DispatchAssumption
    <2>2. /\ L!Quit(WorkerOf[c], {c}) /\ late' = late
          /\ job' = [d \in Clients |-> IF WorkerOf[d] = WorkerOf[c] THEN None ELSE job[d]]
      BY <1>6 DEF ExceptionEscapes
    <2> QED
      BY <1>1, <2>1, <2>2, QuitExcludes
  <1>7. ASSUME NEW w \in Workers, Crash(w)
        PROVE  Goal
    <2>1. /\ L!Quit(w, {}) /\ late' = late
          /\ job' = [d \in Clients |-> IF WorkerOf[d] = w THEN None ELSE job[d]]
      BY <1>7 DEF Crash
    <2> QED
      BY <1>1, <2>1, QuitExcludes
  <1>8. ASSUME NEW c \in Clients, HeartbeatLease(c)
        PROVE  Goal
    <2>1. L!RenewLease(c) /\ job' = job /\ late' = late
      BY <1>8 DEF HeartbeatLease
    <2> QED
      BY <1>1, <2>1, RenewExcludes, JobsShrink
  <1>9. ASSUME Tick
        PROVE  Goal
    <2>1. job' = job
      BY <1>9 DEF Tick
    <2> QED
      BY <1>1, <1>9, <2>1, TickExcludes, JobsShrink
  <1>10. ASSUME \/ \E w \in Workers, T \in SUBSET Tasks : PollLost(w, T)
                \/ \E c \in Clients : HeartbeatClaim(c)
                \/ \E w \in Workers : Restart(w)
                \/ \E T \in SUBSET Tasks : Sweep(T)
                \/ UNCHANGED vars
         PROVE  Goal
    <2>1. UNCHANGED job /\ UNCHANGED leaseVars /\ UNCHANGED late
      BY <1>10 DEF PollLost, HeartbeatClaim, Restart, Sweep, vars
    <2> QED
      BY <1>1, <2>1 DEF leaseVars, OneJobPerRun, LeaseOfJob, RunningOwns, At, L!OwnsLease
  <1> QED
    BY <1>2, <1>3, <1>4, <1>5, <1>6, <1>7, <1>8, <1>9, <1>10 DEF Next, ExclusionInv

(***************************************************************************)
(* The inductive invariant of the worker's use of the leases, when a       *)
(* worker never works on one run twice at a time.                          *)
(***************************************************************************)
THEOREM ExclusionInductive ==
  ASSUME RunsUnshared
  PROVE  Spec => []ExclusionInv
  <1>1. Init => ExclusionInv
    <2> SUFFICES ASSUME Init PROVE ExclusionInv
      OBVIOUS
    <2>1. job = [c \in Clients |-> None]
      BY DEF Init
    <2>2. RunsFixed
      BY DEF Init, RunsFixed, S!NewRow
    <2>3. OneJobPerRun /\ RunningOwns
      BY <2>1 DEF OneJobPerRun, RunningOwns, At
    <2>4. LeaseOfJob
      BY <2>1 DEF Init, L!LeaseInit, LeaseOfJob, At
    <2> QED
      BY <2>2, <2>3, <2>4, DispatchStarts DEF ExclusionInv
  <1>2. ExclusionInv /\ [Next]_vars => ExclusionInv'
    BY ExclusionKept
  <1> QED
    BY <1>1, <1>2, PTL DEF Spec

(***************************************************************************)
(* While no heartbeat is late, two workers never execute one run at the    *)
(* same time, whatever crashes, restarts, lost replies and races for a     *)
(* missing lease row there are.  The hypothesis is needed: with two tasks  *)
(* of one run on one worker the property fails (run worker_same_run).      *)
(***************************************************************************)
THEOREM SplitBrainExcluded ==
  ASSUME RunsUnshared
  PROVE  Spec => []NoSplitBrain
  <1>1. ExclusionInv => NoSplitBrain
    <2> SUFFICES ASSUME ExclusionInv, ~late, NEW r \in Runs, NEW c \in Clients, NEW d \in Clients,
                        Running(c, r), Running(d, r)
                 PROVE  WorkerOf[c] = WorkerOf[d]
      BY DEF NoSplitBrain
    <2> QED
      BY DEF ExclusionInv, RunningOwns, Running, L!OwnsLease
  <1> QED
    BY <1>1, ExclusionInductive, PTL
=============================================================================
