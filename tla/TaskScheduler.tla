--------------------------- MODULE TaskScheduler ---------------------------
(***************************************************************************)
(* The durable task queue of the control plane: the table                  *)
(* control_plane.scheduled_tasks and the five operations on it in          *)
(* services/cosa/services/control-plane-scheduler.service.ts.              *)
(*                                                                         *)
(* Every operation is one PostgreSQL transaction at READ COMMITTED.  All   *)
(* but scheduleTask lock the rows they touch before they read them, so     *)
(* each is one step here.  scheduleTask reads first and inserts later: its *)
(* two statements are two steps, and other transactions may commit in      *)
(* between.                                                                *)
(*                                                                         *)
(* Time is kept as countdowns.  runIn is run_at - now and visIn is         *)
(* visibility_timeout_at - now, both floored at 0, so that "run_at <= now" *)
(* is runIn = 0.  Tick lets one time unit pass.                            *)
(***************************************************************************)
EXTENDS Integers, FiniteSets

CONSTANTS
  Tasks,             \* task ids (primary keys) that inserts may draw from
  Workers,           \* worker ids
  Callers,           \* concurrent calls of scheduleTask
  EventKeys,         \* coalescing keys that start with "evt:"
  PlainKeys,         \* all other coalescing keys
  RunIds,            \* run ids a payload may carry
  AttemptLimits,     \* values of maxAttempts a caller may ask for
  Delays,            \* how far in the future runAt may be
  VisibilityTimeout, \* visibilityTimeoutSec / extendSec
  BackoffBase,       \* 5 seconds in the code
  MaxBackoff,        \* MAX_BACKOFF_SEC
  PollLimit,         \* pollDueTasks' limit
  SweepLimit,        \* reclaimStuckTasks' limit
  None               \* SQL NULL

Keys == EventKeys \cup PlainKeys

(***************************************************************************)
(* Exponential backoff before the n-th retry, capped.                      *)
(***************************************************************************)
computeBackoffSeconds(n) ==
  LET delay == BackoffBase * 2 ^ (IF n >= 1 THEN n - 1 ELSE 0)
  IN  IF delay <= MaxBackoff THEN delay ELSE MaxBackoff

ASSUME LimitsAssumption ==
  /\ AttemptLimits \subseteq Nat
  /\ Delays \subseteq Nat
  /\ VisibilityTimeout \in Nat \ {0}
  /\ MaxBackoff \in Nat
  /\ PollLimit \in Nat \ {0}
  /\ SweepLimit \in Nat \ {0}

ASSUME BackoffAssumption ==
  \A m \in AttemptLimits : \A n \in 1 .. m : computeBackoffSeconds(n) \in Nat

ASSUME NoneAssumption ==
  /\ None \notin Keys
  /\ None \notin RunIds
  /\ None \notin Workers
  /\ None \notin Nat

ASSUME KeysAssumption == EventKeys \cap PlainKeys = {}

VARIABLES
  row,     \* the table: task id -> row, status "absent" for no row
  claims,  \* task id -> number of claim tokens issued for it so far
  granted, \* worker -> the <<task, token>> pairs pollDueTasks returned to it
  call,    \* caller -> the scheduleTask call it has between its two statements
  overlapped \* history: the event keys of which two calls were between their
             \* two statements at the same time

vars == <<row, claims, granted, call, overlapped>>

(***************************************************************************)
(* A claim token is a fresh uuid that is only ever compared with the token *)
(* of its own row, so the number of the claim of that row stands for it.   *)
(***************************************************************************)
Status == {"absent", "scheduled", "processing", "completed", "failed"}

Row == [status       : Status,
        key          : Keys \cup {None},
        runId        : RunIds \cup {None},
        runIn        : Nat,
        attemptCount : Nat,
        maxAttempts  : Nat,
        claimedBy    : Workers \cup {None},
        claimToken   : Nat \cup {None},
        visIn        : Nat \cup {None}]

Request == [key         : Keys \cup {None},
            runId       : RunIds \cup {None},
            delay       : Delays,
            maxAttempts : AttemptLimits]

NoRow == [status |-> "absent", key |-> None, runId |-> None, runIn |-> 0,
          attemptCount |-> 0, maxAttempts |-> 0, claimedBy |-> None,
          claimToken |-> None, visIn |-> None]

TypeOK ==
  /\ row \in [Tasks -> Row]
  /\ claims \in [Tasks -> Nat]
  /\ granted \in [Workers -> SUBSET (Tasks \X Nat)]
  /\ call \in [Callers -> Request \cup {None}]
  /\ overlapped \subseteq EventKeys

Init ==
  /\ row = [t \in Tasks |-> NoRow]
  /\ claims = [t \in Tasks |-> 0]
  /\ granted = [w \in Workers |-> {}]
  /\ call = [c \in Callers |-> None]
  /\ overlapped = {}

-----------------------------------------------------------------------------
(* scheduleTask.                                                           *)

(* Mutant: "evt:" keys coalesce like all the others, with waiting rows only. *)
Coalescible_WaitingOnly(key) ==
  {t \in Tasks : key # None /\ row[t].key = key /\ row[t].status = "scheduled"}

(***************************************************************************)
(* The rows a request may coalesce into: any row of an "evt:" key, whatever *)
(* its status, but only a waiting row of any other key.                     *)
(***************************************************************************)
Coalescible(key) ==
  {t \in Tasks : /\ key # None
                 /\ row[t].key = key
                 /\ \/ key \in EventKeys /\ row[t].status # "absent"
                    \/ row[t].status = "scheduled"}

(* Mutant: the newest payload wins, run_id included. *)
MergedRunId_Newest(t, req) == IF req.runId # None THEN req.runId ELSE row[t].runId

(***************************************************************************)
(* The merged payload keeps the run_id it already has.                     *)
(***************************************************************************)
MergedRunId(t, req) == IF row[t].runId # None THEN row[t].runId ELSE req.runId

(* Mutant: coalescing also takes over a larger budget. *)
ScheduleCoalesce_Budget(c, req) ==
  /\ call[c] = None
  /\ \E t \in Coalescible(req.key) :
        /\ row[t].status = "scheduled"
        /\ row' = [row EXCEPT ![t].runId = MergedRunId(t, req),
                              ![t].maxAttempts =
                                 IF req.maxAttempts > @ THEN req.maxAttempts ELSE @]
  /\ UNCHANGED <<claims, granted, call, overlapped>>

(***************************************************************************)
(* The SELECT ... FOR UPDATE found rows: merge into the one that came back  *)
(* first if it still waits, otherwise return it unchanged.                  *)
(***************************************************************************)
ScheduleCoalesce(c, req) ==
  /\ call[c] = None
  /\ \E t \in Coalescible(req.key) :
        /\ row[t].status = "scheduled"
        /\ row' = [row EXCEPT ![t].runId = MergedRunId(t, req)]
  /\ UNCHANGED <<claims, granted, call, overlapped>>

(***************************************************************************)
(* Another call for this key is between its SELECT and its INSERT.         *)
(***************************************************************************)
InFlight(key) == \E d \in Callers : call[d] # None /\ call[d].key = key

(***************************************************************************)
(* The SELECT found nothing: the call goes on to its INSERT.  FOR UPDATE    *)
(* locks the rows it finds, so here it keeps no other call from doing the  *)
(* same.                                                                   *)
(***************************************************************************)
ScheduleMiss(c, req) ==
  /\ call[c] = None
  /\ Coalescible(req.key) = {}
  /\ call' = [call EXCEPT ![c] = req]
  /\ overlapped' = overlapped \cup {k \in EventKeys : k = req.key /\ InFlight(k)}
  /\ UNCHANGED <<row, claims, granted>>

(***************************************************************************)
(* The partial unique index on coalescing_key: at most one row per key may *)
(* have status 'scheduled'.  A statement that would add a second one fails *)
(* and aborts its transaction.                                             *)
(***************************************************************************)
KeyTaken(r, t, key) ==
  \E u \in Tasks \ {t} :
     key # None /\ r[u].key = key /\ r[u].status = "scheduled"

NewRow(req) ==
  [status |-> "scheduled", key |-> req.key, runId |-> req.runId,
   runIn |-> req.delay, attemptCount |-> 0, maxAttempts |-> req.maxAttempts,
   claimedBy |-> None, claimToken |-> None, visIn |-> None]

(***************************************************************************)
(* The INSERT: it commits, or the index rejects it and the call fails.     *)
(***************************************************************************)
ScheduleInsert(c, t) ==
  /\ call[c] # None
  /\ row[t].status = "absent"
  /\ row' = IF KeyTaken(row, t, call[c].key)
              THEN row
              ELSE [row EXCEPT ![t] = NewRow(call[c])]
  /\ call' = [call EXCEPT ![c] = None]
  /\ UNCHANGED <<claims, granted, overlapped>>

-----------------------------------------------------------------------------
(* pollDueTasks, heartbeatTask.                                            *)

Due == {t \in Tasks : row[t].status = "scheduled" /\ row[t].runIn = 0}

Claimed(r, w, token) ==
  [r EXCEPT !.status = "processing", !.claimedBy = w, !.claimToken = token,
            !.visIn = VisibilityTimeout]

(***************************************************************************)
(* Worker w claims the due rows S, each under a token of its own.  Rows     *)
(* locked by another transaction are skipped, so S need not be the oldest. *)
(***************************************************************************)
PollDueTasks(w, S) ==
  /\ S # {}
  /\ S \subseteq Due
  /\ Cardinality(S) <= PollLimit
  /\ claims' = [t \in Tasks |-> IF t \in S THEN claims[t] + 1 ELSE claims[t]]
  /\ row' = [t \in Tasks |->
               IF t \in S THEN Claimed(row[t], w, claims[t] + 1) ELSE row[t]]
  /\ granted' = [granted EXCEPT ![w] = @ \cup {<<t, claims[t] + 1>> : t \in S}]
  /\ UNCHANGED <<call, overlapped>>

(* Mutant: the fence checks the worker but not the token. *)
HoldsClaim_ByWorker(w, t, token) ==
  row[t].status = "processing" /\ row[t].claimedBy = w

(***************************************************************************)
(* The fence of heartbeatTask and completeTask.  A call that fails it       *)
(* returns false and changes nothing.                                      *)
(***************************************************************************)
HoldsClaim(w, t, token) ==
  /\ row[t].status = "processing"
  /\ row[t].claimedBy = w
  /\ row[t].claimToken = token

(***************************************************************************)
(* A worker may call with any claim it was ever given, however late.       *)
(***************************************************************************)
HeartbeatTask(w, t, token) ==
  /\ <<t, token>> \in granted[w]
  /\ HoldsClaim(w, t, token)
  /\ row' = [row EXCEPT ![t].visIn = VisibilityTimeout]
  /\ UNCHANGED <<claims, granted, call, overlapped>>

-----------------------------------------------------------------------------
(* completeTask and reclaimStuckTasks.                                     *)

Unclaimed(r) == [r EXCEPT !.claimedBy = None, !.claimToken = None, !.visIn = None]

(* Mutant: attemptCount is taken for the attempts that are left. *)
AfterFailure_CountDown(r) ==
  [Unclaimed(r) EXCEPT !.status = "scheduled", !.attemptCount = r.attemptCount - 1]

(* Mutant: off by one, one attempt more than maxAttempts. *)
AfterFailure_OneMore(r) ==
  LET nextAttempt == r.attemptCount + 1
  IN  [Unclaimed(r) EXCEPT !.status = IF nextAttempt > r.maxAttempts
                                        THEN "failed" ELSE "scheduled",
                           !.attemptCount = nextAttempt]

(***************************************************************************)
(* The row after one more failed attempt: waiting for a retry after the     *)
(* backoff, or dead-lettered.                                              *)
(***************************************************************************)
AfterFailure(r) ==
  LET nextAttempt == r.attemptCount + 1
  IN  IF nextAttempt >= r.maxAttempts
        THEN [Unclaimed(r) EXCEPT !.status = "failed", !.attemptCount = nextAttempt]
        ELSE [Unclaimed(r) EXCEPT !.status = "scheduled",
                                  !.attemptCount = nextAttempt,
                                  !.runIn = computeBackoffSeconds(nextAttempt)]

(* Mutant: a completion is accepted without the fence. *)
CompleteSuccess_Unfenced(w, t, token) ==
  /\ <<t, token>> \in granted[w]
  /\ row' = [row EXCEPT ![t] = [Unclaimed(row[t]) EXCEPT !.status = "completed"]]
  /\ UNCHANGED <<claims, granted, call, overlapped>>

CompleteSuccess(w, t, token) ==
  /\ <<t, token>> \in granted[w]
  /\ HoldsClaim(w, t, token)
  /\ row' = [row EXCEPT ![t] = [Unclaimed(row[t]) EXCEPT !.status = "completed"]]
  /\ UNCHANGED <<claims, granted, call, overlapped>>

(***************************************************************************)
(* A reported failure.  When the row would go back to 'scheduled' beside a  *)
(* newer waiting row of its key, the unique index aborts the transaction.  *)
(***************************************************************************)
CompleteFailure(w, t, token) ==
  /\ <<t, token>> \in granted[w]
  /\ HoldsClaim(w, t, token)
  /\ AfterFailure(row[t]).status = "scheduled" => ~KeyTaken(row, t, row[t].key)
  /\ row' = [row EXCEPT ![t] = AfterFailure(row[t])]
  /\ UNCHANGED <<claims, granted, call, overlapped>>

Stuck == {t \in Tasks : row[t].status = "processing" /\ row[t].visIn = 0}

Swept(S) == [t \in Tasks |-> IF t \in S THEN AfterFailure(row[t]) ELSE row[t]]

(* Mutant: the sweeper forgets rows whose last attempt was the stuck one. *)
ReclaimStuckTasks_NoDeadLetter(S) ==
  /\ S # {} /\ S \subseteq Stuck /\ Cardinality(S) <= SweepLimit
  /\ \A t \in S : Swept(S)[t].status = "scheduled" /\ ~KeyTaken(Swept(S), t, row[t].key)
  /\ row' = Swept(S)
  /\ UNCHANGED <<claims, granted, call, overlapped>>

(***************************************************************************)
(* One run of the sweeper over the stuck rows S it selected (rows locked by *)
(* a call in progress are skipped).  All of S is one transaction: if the    *)
(* index rejects one row, none of S is reclaimed.                          *)
(***************************************************************************)
ReclaimStuckTasks(S) ==
  /\ S # {}
  /\ S \subseteq Stuck
  /\ Cardinality(S) <= SweepLimit
  /\ \A t \in S : Swept(S)[t].status = "scheduled" => ~KeyTaken(Swept(S), t, row[t].key)
  /\ row' = Swept(S)
  /\ UNCHANGED <<claims, granted, call, overlapped>>

Pred(n) == IF n \in Nat /\ n > 0 THEN n - 1 ELSE n

CountdownRuns ==
  \E t \in Tasks : row[t].runIn > 0 \/ (row[t].visIn # None /\ row[t].visIn # 0)

(***************************************************************************)
(* One unit of time passes for every row.                                  *)
(***************************************************************************)
Elapse ==
  /\ row' = [t \in Tasks |-> [row[t] EXCEPT !.runIn = Pred(@), !.visIn = Pred(@)]]
  /\ UNCHANGED <<claims, granted, call, overlapped>>

Tick == CountdownRuns /\ Elapse

Next ==
  \/ \E c \in Callers, req \in Request : ScheduleCoalesce(c, req)
  \/ \E c \in Callers, req \in Request : ScheduleMiss(c, req)
  \/ \E c \in Callers, t \in Tasks : ScheduleInsert(c, t)
  \/ \E w \in Workers, S \in SUBSET Tasks : PollDueTasks(w, S)
  \/ \E w \in Workers : \E g \in granted[w] : HeartbeatTask(w, g[1], g[2])
  \/ \E w \in Workers : \E g \in granted[w] : CompleteSuccess(w, g[1], g[2])
  \/ \E w \in Workers : \E g \in granted[w] : CompleteFailure(w, g[1], g[2])
  \/ \E S \in SUBSET Tasks : ReclaimStuckTasks(S)
  \/ Tick

Spec == Init /\ [][Next]_vars

-----------------------------------------------------------------------------
(* Properties.                                                             *)

(***************************************************************************)
(* Every claim pollDueTasks ever handed out is settled exactly once: by a   *)
(* completion, by a reported failure or by the sweeper, never by two of     *)
(* them.  So the claims of a task are its failed attempts, plus one if it   *)
(* is being processed, plus one if it was completed.                        *)
(***************************************************************************)
ClaimAccounting ==
  \A t \in Tasks :
     claims[t] = row[t].attemptCount
                 + (IF row[t].status \in {"processing", "completed"} THEN 1 ELSE 0)

(***************************************************************************)
(* A task that kills or fails every worker that touches it is handed out at *)
(* most maxAttempts times (once if maxAttempts is 0), and it is             *)
(* dead-lettered exactly when that many attempts have failed.               *)
(***************************************************************************)
Budget(r) == IF r.maxAttempts = 0 THEN 1 ELSE r.maxAttempts

BoundedDeliveries ==
  \A t \in Tasks :
     row[t].status # "absent" =>
        /\ claims[t] <= Budget(row[t])
        /\ row[t].status = "failed" <=> row[t].attemptCount = Budget(row[t])

(***************************************************************************)
(* Fencing: among all claims of a task that workers still remember, only    *)
(* the newest can pass the check of heartbeatTask and completeTask, and     *)
(* only the worker that received it knows it; while the task is waiting or  *)
(* finished no remembered claim passes.                                     *)
(***************************************************************************)
SoleClaimant ==
  \A w \in Workers : \A g \in granted[w] :
     HoldsClaim(w, g[1], g[2]) =>
        /\ g[2] = claims[g[1]]
        /\ \A v \in Workers \ {w} : g \notin granted[v]

(***************************************************************************)
(* An event trigger is scheduled at most once, as scheduleTask's comment    *)
(* promises of "evt:" keys, whatever became of its first task meanwhile:    *)
(* unless two calls for that event were between their two statements        *)
(* together.  Then both may insert, once a worker has claimed the first     *)
(* row and freed the key of the unique index; nothing in the code keeps     *)
(* the calls apart.                                                         *)
(***************************************************************************)
EventTaskUnique ==
  \A t, u \in Tasks :
     (row[t].key \in EventKeys \ overlapped /\ row[t].key = row[u].key) => t = u

(***************************************************************************)
(* Coalescing never redirects a task that already names a run to another    *)
(* run, and nothing re-opens a completed or dead-lettered row: not a late   *)
(* completion, not the sweeper, not a coalescing call.                      *)
(***************************************************************************)
TaskIdentityStable ==
  [][\A t \in Tasks :
        /\ row[t].runId # None => row'[t].runId = row[t].runId
        /\ row[t].status \in {"completed", "failed"} => row'[t] = row[t]]_vars

(***************************************************************************)
(* The table implements the life of a task (TaskLifecycle): the status is   *)
(* its stage, and the claims are its deliveries.  Attempt counters, tokens  *)
(* and timeouts are how the queue keeps that promise, and the partial       *)
(* unique index, the fences and aborted sweeps never break it.              *)
(***************************************************************************)
Stage(r) == CASE r.status = "absent" -> "none"
              [] r.status = "scheduled" -> "waiting"
              [] r.status = "processing" -> "owned"
              [] r.status = "completed" -> "done"
              [] r.status = "failed" -> "dead"

Lifecycle == INSTANCE TaskLifecycle WITH
  Limits     <- AttemptLimits,
  stage      <- [t \in Tasks |-> Stage(row[t])],
  deliveries <- claims,
  limit      <- [t \in Tasks |-> row[t].maxAttempts]

ImplementsLifecycle == Lifecycle!LifecycleSpec

(***************************************************************************)
(* The sweeper's promise: a task whose worker died is taken back, or its    *)
(* worker turns out to be alive after all.                                  *)
(***************************************************************************)
StuckTaskReclaimed ==
  \A t \in Tasks : t \in Stuck ~> t \notin Stuck

(***************************************************************************)
(* The inductive invariant behind the safety properties: how the columns of *)
(* a row hang together with the number of claims issued for it, and that no *)
(* claim was ever given to two workers or ahead of its issue.               *)
(***************************************************************************)
RowInv(r, issued) ==
  /\ r.status = "absent" => r = NoRow
  /\ r.status # "absent" => r.maxAttempts \in AttemptLimits
  /\ r.status # "scheduled" => r.runIn = 0
  /\ r.status # "processing" => r.claimedBy = None /\ r.claimToken = None /\ r.visIn = None
  /\ r.status = "processing" => r.claimToken = issued /\ r.claimedBy # None /\ r.visIn # None
  /\ issued = r.attemptCount
               + (IF r.status \in {"processing", "completed"} THEN 1 ELSE 0)
  /\ r.status \in {"scheduled", "processing", "completed"} => r.attemptCount < Budget(r)
  /\ r.status = "failed" => r.attemptCount = Budget(r)

RowsInv == \A t \in Tasks : RowInv(row[t], claims[t])

GrantsInv ==
  \A w \in Workers : \A g \in granted[w] :
     /\ g[2] <= claims[g[1]]
     /\ \A v \in Workers \ {w} : g \notin granted[v]

IndInv == TypeOK /\ RowsInv /\ GrantsInv

(***************************************************************************)
(* What makes an event's task unique: its calls did not overlap, and then a *)
(* call that goes on to its INSERT has no row to collide with.              *)
(***************************************************************************)
CallsSeparate ==
  \A c, d \in Callers :
     (/\ call[c] # None /\ call[d] # None
      /\ call[c].key \in EventKeys \ overlapped
      /\ call[c].key = call[d].key) => c = d

PendingIsNew ==
  \A c \in Callers : (call[c] # None /\ call[c].key \in EventKeys \ overlapped) =>
     \A t \in Tasks : row[t].key # call[c].key

EventInv == EventTaskUnique /\ PendingIsNew /\ CallsSeparate

(***************************************************************************)
(* Fairness.  Time passes; cron runs the sweeper every minute, and a run    *)
(* selects all the stuck rows, up to its limit; some worker keeps polling,  *)
(* and the oldest due row comes first, so no due row waits for ever.        *)
(* Nothing is assumed of what a worker does with a task it has claimed.     *)
(***************************************************************************)
FullSweep ==
  \E S \in SUBSET Stuck :
     /\ S = Stuck \/ Cardinality(S) = SweepLimit
     /\ ReclaimStuckTasks(S)

Served(t) == \E w \in Workers, S \in SUBSET Tasks : t \in S /\ PollDueTasks(w, S)

FairSpec ==
  /\ Spec
  /\ WF_vars(Tick)
  /\ WF_vars(FullSweep)
  /\ \A t \in Tasks : WF_vars(Served(t))
=============================================================================
