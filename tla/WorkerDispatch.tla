-------------------------- MODULE WorkerDispatch --------------------------
(***************************************************************************)
(* The agent worker, apps/cosa/worker/main.py, between the task queue      *)
(* (TaskScheduler) and the run leases (RunLease).                          *)
(*                                                                         *)
(* A worker polls, dispatches every task it got as a coroutine of its own  *)
(* (a client), and polls again when all of them are done.  A coroutine     *)
(* takes the lease of the task's run, executes, reports to the queue and   *)
(* releases the lease.  Workers crash and restart; requests to the control *)
(* plane and their replies get lost.                                       *)
(***************************************************************************)
EXTENDS Integers, FiniteSets

CONSTANTS
  Tasks, Workers, Runs, Clients, WorkerOf, None,
  Runless,           \* the "run id" of a task whose type needs no run
  RunOfs,            \* functions: task -> run id in its payload, Runless or None
  AttemptLimit, VisibilityTimeout, BackoffBase, MaxBackoff,
  PollLimit, SweepLimit, LeaseTTL, MaxLeases,
  MaxCrashes         \* bound on worker crashes

VARIABLES
  row, claims, granted, call,    \* the task queue
  lease, issued, asking, mine,   \* the run leases
  job,     \* client -> what it dispatches, or None
  up,      \* the workers that are running
  crashes, \* crashes so far
  late,    \* whether a heartbeat of a live execution ever came too late
  started, \* task -> executions begun
  done     \* task -> executions that did all their work

S == INSTANCE TaskScheduler WITH
       Callers <- {}, EventKeys <- {}, PlainKeys <- {}, RunIds <- Runs \cup {Runless},
       AttemptLimits <- {AttemptLimit}, Delays <- {0}, overlapped <- {}

L == INSTANCE RunLease

queueVars == <<row, claims, granted, call>>
leaseVars == <<lease, issued, asking, mine>>
histVars == <<started, done>>
vars == <<queueVars, leaseVars, job, up, crashes, late, histVars>>

(***************************************************************************)
(* start: claimed; lease: inside acquireLease; running: the handler runs;  *)
(* ok, bad: about to report success or failure; release: reported.         *)
(***************************************************************************)
Phase == {"start", "lease", "running", "ok", "bad", "release"}

Job == [task : Tasks, token : Nat, run : Runs \cup {Runless, None}, phase : Phase]

ASSUME DispatchAssumption ==
  /\ WorkerOf \in [Clients -> Workers]
  /\ IsFiniteSet(Clients)
  /\ RunOfs \subseteq [Tasks -> Runs \cup {Runless, None}]
  /\ AttemptLimit \in Nat
  /\ VisibilityTimeout \in Nat
  /\ LeaseTTL \in Nat \ {0}
  /\ MaxCrashes \in Nat
  /\ \A n \in 1 .. AttemptLimit : S!computeBackoffSeconds(n) \in Nat

ASSUME NoneIsNothing ==
  /\ None \notin Job /\ None \notin Nat
  /\ None \notin Runs /\ Runless \notin Runs
  /\ None \notin L!LeaseRow
  /\ None \notin [run : Runs, token : Nat]

TypeOK ==
  /\ S!TypeOK
  /\ L!LeaseTypeOK
  /\ job \in [Clients -> Job \cup {None}]
  /\ up \in SUBSET Workers
  /\ crashes \in 0 .. MaxCrashes
  /\ late \in BOOLEAN
  /\ started \in [Tasks -> Nat]
  /\ done \in [Tasks -> Nat]

Init ==
  /\ \E RunOf \in RunOfs :
        row = [t \in Tasks |-> S!NewRow([key |-> None, runId |-> RunOf[t], delay |-> 0,
                                         maxAttempts |-> AttemptLimit])]
  /\ claims = [t \in Tasks |-> 0]
  /\ granted = [w \in Workers |-> {}]
  /\ call = [c \in {} |-> None]
  /\ L!LeaseInit
  /\ job = [c \in Clients |-> None]
  /\ up = Workers
  /\ crashes = 0
  /\ late = FALSE
  /\ started = [t \in Tasks |-> 0]
  /\ done = [t \in Tasks |-> 0]

ClientsOf(w) == {c \in Clients : WorkerOf[c] = w}

At(c, phase) == job[c] # None /\ job[c].phase = phase

GoTo(c, phase) == job' = [job EXCEPT ![c].phase = phase]

(* Mutant: the finished job is marked but kept. *)
EndJob_Kept(c) == GoTo(c, "ended")

EndJob(c) == job' = [job EXCEPT ![c] = None]

-----------------------------------------------------------------------------
(* run_worker_loop.                                                        *)

(***************************************************************************)
(* The worker polls when none of its coroutines is left, and starts one    *)
(* coroutine per task.                                                     *)
(***************************************************************************)
Poll(w, T) ==
  /\ w \in up
  /\ \A c \in ClientsOf(w) : job[c] = None
  /\ S!PollDueTasks(w, T)
  /\ \E f \in [T -> ClientsOf(w)] :
        /\ \A t, u \in T : f[t] = f[u] => t = u
        /\ job' = [c \in Clients |->
                     IF \E t \in T : f[t] = c
                       THEN LET t == CHOOSE t \in T : f[t] = c
                            IN  [task |-> t, token |-> claims[t] + 1,
                                 run |-> row[t].runId, phase |-> "start"]
                       ELSE job[c]]
  /\ UNCHANGED <<leaseVars, up, crashes, late, histVars>>

(***************************************************************************)
(* The claims are committed but the reply is lost: the worker backs off    *)
(* and polls again without knowing of them.                                *)
(***************************************************************************)
PollLost(w, T) ==
  /\ w \in up
  /\ \A c \in ClientsOf(w) : job[c] = None
  /\ S!PollDueTasks(w, T)
  /\ UNCHANGED <<leaseVars, job, up, crashes, late, histVars>>

-----------------------------------------------------------------------------
(* dispatch_one_task up to the execution.                                  *)

Begin(c) ==
  /\ GoTo(c, "running")
  /\ started' = [started EXCEPT ![job[c].task] = @ + 1]
  /\ UNCHANGED done

(***************************************************************************)
(* A payload without run_id, or a rejected event payload, is a failure.    *)
(***************************************************************************)
Reject(c) ==
  /\ At(c, "start")
  /\ job[c].run = None
  /\ GoTo(c, "bad")
  /\ UNCHANGED <<queueVars, leaseVars, up, crashes, late, histVars>>

(***************************************************************************)
(* Task types that take no lease (ingestion, purge, sweep, wakeup, ...).   *)
(***************************************************************************)
StartRunless(c) ==
  /\ At(c, "start")
  /\ job[c].run = Runless
  /\ Begin(c)
  /\ UNCHANGED <<queueVars, leaseVars, up, crashes, late>>

(* Mutant: a task whose run is leased elsewhere counts as done. *)
LeaseRefused_Completes(c) ==
  /\ At(c, "start")
  /\ job[c].run \in Runs
  /\ L!AcquireRefused(c, job[c].run)
  /\ GoTo(c, "ok")
  /\ UNCHANGED <<queueVars, up, crashes, late, histVars>>

(***************************************************************************)
(* Another worker has the lease: give up without reporting, the claim is    *)
(* left to the sweeper.                                                    *)
(***************************************************************************)
LeaseRefused(c) ==
  /\ At(c, "start")
  /\ job[c].run \in Runs
  /\ L!AcquireRefused(c, job[c].run)
  /\ EndJob(c)
  /\ UNCHANGED <<queueVars, up, crashes, late, histVars>>

LeaseTaken(c) ==
  /\ At(c, "start")
  /\ job[c].run \in Runs
  /\ L!AcquireExisting(c, job[c].run)
  /\ Begin(c)
  /\ UNCHANGED <<queueVars, up, crashes, late>>

LeaseMiss(c) ==
  /\ At(c, "start")
  /\ job[c].run \in Runs
  /\ L!AcquireMiss(c, job[c].run)
  /\ GoTo(c, "lease")
  /\ UNCHANGED <<queueVars, up, crashes, late, histVars>>

LeaseInsert(c) ==
  /\ At(c, "lease")
  /\ L!AcquireInsert(c)
  /\ IF mine'[c] # None THEN Begin(c) ELSE UNCHANGED <<job, histVars>>
  /\ UNCHANGED <<queueVars, up, crashes, late>>

LeaseRecheck(c) ==
  /\ At(c, "lease")
  /\ L!AcquireRecheck(c)
  /\ Begin(c)
  /\ UNCHANGED <<queueVars, up, crashes, late>>

LeaseConflict(c) ==
  /\ At(c, "lease")
  /\ L!AcquireConflict(c)
  /\ EndJob(c)
  /\ UNCHANGED <<queueVars, up, crashes, late, histVars>>

-----------------------------------------------------------------------------
(* _run_with_heartbeats, _heartbeat_task_claim_only.                       *)

(***************************************************************************)
(* Heartbeats while the handler runs.  One that is refused is logged; the  *)
(* execution goes on.                                                      *)
(***************************************************************************)
HeartbeatClaim(c) ==
  /\ At(c, "running")
  /\ S!HeartbeatTask(WorkerOf[c], job[c].task, job[c].token)
  /\ UNCHANGED <<leaseVars, job, up, crashes, late, histVars>>

HeartbeatLease(c) ==
  /\ At(c, "running")
  /\ L!RenewLease(c)
  /\ UNCHANGED <<queueVars, job, up, crashes, late, histVars>>

(* Mutant: success is reported although the handler raised. *)
HandlerRaised_Swallowed(c) ==
  /\ At(c, "running")
  /\ GoTo(c, "ok")
  /\ UNCHANGED <<queueVars, leaseVars, up, crashes, late, histVars>>

(* Mutant: the handler is run again under the same claim. *)
HandlerRaised_RunAgain(c) ==
  /\ At(c, "running")
  /\ Begin(c)
  /\ UNCHANGED <<queueVars, leaseVars, up, crashes, late>>

HandlerRaised(c) ==
  /\ At(c, "running")
  /\ GoTo(c, "bad")
  /\ UNCHANGED <<queueVars, leaseVars, up, crashes, late, histVars>>

(***************************************************************************)
(* The handler returns.  If a heartbeat request had raised meanwhile, that *)
(* exception surfaces when the heartbeat task is awaited, and the finished *)
(* work is reported as a failure.                                          *)
(***************************************************************************)
HandlerReturned(c) ==
  /\ At(c, "running")
  /\ done' = [done EXCEPT ![job[c].task] = @ + 1]
  /\ GoTo(c, "ok") \/ GoTo(c, "bad")
  /\ UNCHANGED <<queueVars, leaseVars, up, crashes, late, started>>

-----------------------------------------------------------------------------
(* complete_task and release_lease.                                        *)

Fenced(c) == ~S!HoldsClaim(WorkerOf[c], job[c].task, job[c].token)

(***************************************************************************)
(* complete_task(success=True), accepted or refused by the fence.          *)
(***************************************************************************)
ReportSuccess(c) ==
  /\ At(c, "ok")
  /\ \/ S!CompleteSuccess(WorkerOf[c], job[c].task, job[c].token)
     \/ Fenced(c) /\ UNCHANGED queueVars
  /\ GoTo(c, "release")
  /\ UNCHANGED <<leaseVars, up, crashes, late, histVars>>

(***************************************************************************)
(* The request or its reply is lost: the exception handler reports failure. *)
(***************************************************************************)
ReportSuccessLost(c) ==
  /\ At(c, "ok")
  /\ \/ S!CompleteSuccess(WorkerOf[c], job[c].task, job[c].token)
     \/ UNCHANGED queueVars
  /\ GoTo(c, "bad")
  /\ UNCHANGED <<leaseVars, up, crashes, late, histVars>>

ReportFailure(c) ==
  /\ At(c, "bad")
  /\ \/ S!CompleteFailure(WorkerOf[c], job[c].task, job[c].token)
     \/ Fenced(c) /\ UNCHANGED queueVars
  /\ GoTo(c, "release")
  /\ UNCHANGED <<leaseVars, up, crashes, late, histVars>>

(***************************************************************************)
(* The failure report raises as well: this coroutine still releases its    *)
(* lease, then the exception escapes through gather and run_worker_loop,   *)
(* and main closes the lease client before the other coroutines are        *)
(* cancelled.  (When acquire_lease or release_lease raises, that is Crash.) *)
(***************************************************************************)
ExceptionEscapes(c) ==
  /\ At(c, "bad")
  /\ crashes < MaxCrashes
  /\ crashes' = crashes + 1
  /\ up' = up \ {WorkerOf[c]}
  /\ L!Quit(WorkerOf[c], {c})
  /\ job' = [d \in Clients |-> IF WorkerOf[d] = WorkerOf[c] THEN None ELSE job[d]]
  /\ UNCHANGED <<queueVars, late, histVars>>

Release(c) ==
  /\ At(c, "release")
  /\ IF mine[c] # None THEN L!ReleaseLease(c) ELSE UNCHANGED leaseVars
  /\ EndJob(c)
  /\ UNCHANGED <<queueVars, up, crashes, late, histVars>>

-----------------------------------------------------------------------------
(* Crashes, the sweeper and time.                                          *)

(***************************************************************************)
(* A worker dies, by a signal or by an exception that nothing catches.     *)
(***************************************************************************)
Crash(w) ==
  /\ w \in up
  /\ crashes < MaxCrashes
  /\ crashes' = crashes + 1
  /\ up' = up \ {w}
  /\ L!Quit(w, {})
  /\ job' = [c \in Clients |-> IF WorkerOf[c] = w THEN None ELSE job[c]]
  /\ UNCHANGED <<queueVars, late, histVars>>

(***************************************************************************)
(* A restarted worker keeps its id (COSA_WORKER_ID).                       *)
(***************************************************************************)
Restart(w) ==
  /\ w \notin up
  /\ up' = up \cup {w}
  /\ UNCHANGED <<queueVars, leaseVars, job, crashes, late, histVars>>

Sweep(T) ==
  /\ S!ReclaimStuckTasks(T)
  /\ UNCHANGED <<leaseVars, job, up, crashes, late, histVars>>

(***************************************************************************)
(* The heartbeats of an execution are due every third of its lease and its *)
(* visibility timeout; they are in time if neither lapses before the next. *)
(***************************************************************************)
HeartbeatsInTime ==
  \A c \in Clients : At(c, "running") =>
     /\ L!OwnsLease(c) => lease[mine[c].run].expIn > 1
     /\ ~Fenced(c) => row[job[c].task].visIn > 1

Tick ==
  /\ S!CountdownRuns \/ \E r \in Runs : lease[r] # None /\ lease[r].expIn > 0
  /\ S!Elapse
  /\ L!LeaseTick
  /\ late' = (late \/ ~HeartbeatsInTime)
  /\ UNCHANGED <<job, up, crashes, histVars>>

ClientStep(c) ==
  \/ Reject(c)
  \/ StartRunless(c)
  \/ LeaseRefused(c)
  \/ LeaseTaken(c)
  \/ LeaseMiss(c)
  \/ LeaseInsert(c)
  \/ LeaseRecheck(c)
  \/ LeaseConflict(c)
  \/ HandlerRaised(c)
  \/ HandlerReturned(c)
  \/ ReportSuccess(c)
  \/ ReportSuccessLost(c)
  \/ ReportFailure(c)
  \/ Release(c)

Next ==
  \/ \E w \in Workers, T \in SUBSET Tasks : Poll(w, T)
  \/ \E w \in Workers, T \in SUBSET Tasks : PollLost(w, T)
  \/ \E c \in Clients : ClientStep(c)
  \/ \E c \in Clients : HeartbeatClaim(c)
  \/ \E c \in Clients : HeartbeatLease(c)
  \/ \E c \in Clients : ExceptionEscapes(c)
  \/ \E w \in Workers : Crash(w)
  \/ \E w \in Workers : Restart(w)
  \/ \E T \in SUBSET Tasks : Sweep(T)
  \/ Tick

Spec == Init /\ [][Next]_vars

-----------------------------------------------------------------------------
(* Properties.                                                             *)

Running(c, r) == At(c, "running") /\ job[c].run = r

(***************************************************************************)
(* The run lease keeps two workers from processing one run at the same     *)
(* time (docs/runbooks/loop-hardening.md, section 2.2), as long as no      *)
(* heartbeat comes too late.                                               *)
(***************************************************************************)
NoSplitBrain ==
  ~late => \A r \in Runs : \A c, d \in Clients :
              (Running(c, r) /\ Running(d, r)) => WorkerOf[c] = WorkerOf[d]

(***************************************************************************)
(* A task is recorded as completed only if some execution of it did all    *)
(* its work: not because its run was leased elsewhere, because its handler *)
(* raised, or because a report was lost.                                   *)
(***************************************************************************)
CompletedMeansDone ==
  \A t \in Tasks : row[t].status = "completed" => done[t] >= 1

(***************************************************************************)
(* The work of a task is executed at most once per claim of it, so at most *)
(* AttemptLimit times in all.                                              *)
(***************************************************************************)
ExecutionsBounded ==
  \A t \in Tasks : done[t] <= started[t] /\ started[t] <= claims[t]

(***************************************************************************)
(* Every task ends: completed, or dead-lettered.  Crashes, lost replies,   *)
(* refused leases and fenced reports delay it but cannot park it for ever. *)
(***************************************************************************)
EveryTaskSettles ==
  <>[](\A t \in Tasks : row[t].status \in {"completed", "failed"})

(***************************************************************************)
(* Fairness.  Time passes, cron sweeps, a crashed worker is restarted, a   *)
(* running worker polls, and a coroutine of a running worker goes on (a    *)
(* handler ends).  Heartbeats and crashes need not happen.                 *)
(***************************************************************************)
Fairness ==
  /\ WF_vars(Tick)
  /\ WF_vars(S!FullSweep /\ UNCHANGED <<leaseVars, job, up, crashes, late, histVars>>)
  /\ \A w \in Workers : WF_vars(Restart(w))
  /\ \A t \in Tasks : WF_vars(\E w \in Workers, T \in SUBSET Tasks : t \in T /\ Poll(w, T))
  /\ \A c \in Clients : WF_vars(ClientStep(c))

FairSpec == Spec /\ Fairness

-----------------------------------------------------------------------------
(* Inductive invariants.                                                   *)

(***************************************************************************)
(* How often a row may be claimed, and that its claims are its failed      *)
(* attempts and the one that is going on or succeeded.                     *)
(***************************************************************************)
Budget == IF AttemptLimit > 1 THEN AttemptLimit ELSE 1

RowCounted(r, n) ==
  /\ r.maxAttempts = AttemptLimit
  /\ n = r.attemptCount + (IF r.status \in {"processing", "completed"} THEN 1 ELSE 0)
  /\ r.attemptCount + (IF r.status = "failed" THEN 0 ELSE 1) <= Budget

ClaimsCounted == \A t \in Tasks : RowCounted(row[t], claims[t])

DispatchInv == TypeOK /\ ClaimsCounted

(***************************************************************************)
(* The coroutines that may still begin an execution of t, each under a     *)
(* claim of its own, and those in the middle of one.                       *)
(***************************************************************************)
Untried(t) ==
  {c \in Clients : job[c] # None /\ job[c].task = t /\ job[c].phase \in {"start", "lease"}}

Executing(t) ==
  {c \in Clients : job[c] # None /\ job[c].task = t /\ job[c].phase = "running"}

WorkCounted ==
  \A t \in Tasks : /\ started[t] + Cardinality(Untried(t)) <= claims[t]
                   /\ done[t] + Cardinality(Executing(t)) <= started[t]

(***************************************************************************)
(* A coroutine that is about to report success saw its handler return.     *)
(***************************************************************************)
SuccessIsDone == \A c \in Clients : At(c, "ok") => done[job[c].task] >= 1

WorkInv == DispatchInv /\ WorkCounted /\ CompletedMeansDone /\ SuccessIsDone

(***************************************************************************)
(* The executions of a task never exceed its attempt limit.                *)
(***************************************************************************)
AttemptsBounded == \A t \in Tasks : started[t] <= Budget

(***************************************************************************)
(* When the coroutines of a worker never work on one run together: tasks   *)
(* do not share runs, or the worker polls one task at a time.              *)
(***************************************************************************)
RunsUnshared ==
  \/ \A RunOf \in RunOfs : \A t, u \in Tasks :
        (RunOf[t] \in Runs /\ RunOf[t] = RunOf[u]) => t = u
  \/ \A c, d \in Clients : WorkerOf[c] = WorkerOf[d] => c = d

(***************************************************************************)
(* The queue never changes the run of a task.                              *)
(***************************************************************************)
RunsFixed == \E RunOf \in RunOfs : \A t \in Tasks : row[t].runId = RunOf[t]

OneJobPerRun ==
  \A c, d \in Clients :
     /\ job[c] # None /\ job[d] # None
     /\ job[c].run \in Runs /\ job[c].run = job[d].run
     /\ WorkerOf[c] = WorkerOf[d]
     => c = d

(***************************************************************************)
(* A coroutine asks for, or holds, no lease but the one of its job's run.  *)
(***************************************************************************)
LeaseOfJob ==
  \A c \in Clients :
     /\ asking[c] # None => At(c, "lease") /\ asking[c].run = job[c].run
     /\ mine[c] # None => /\ job[c] # None
                         /\ job[c].phase \in {"running", "ok", "bad", "release"}
                         /\ mine[c].run = job[c].run
     /\ At(c, "lease") => job[c].run \in Runs

(***************************************************************************)
(* While no heartbeat is late, whoever executes a run owns its lease, and  *)
(* the lease has not lapsed.                                               *)
(***************************************************************************)
RunningOwns ==
  ~late => \A c \in Clients :
     (At(c, "running") /\ job[c].run \in Runs) =>
        L!OwnsLease(c) /\ mine[c].run = job[c].run /\ lease[job[c].run].expIn > 0

ExclusionInv == DispatchInv /\ RunsFixed /\ OneJobPerRun /\ LeaseOfJob /\ RunningOwns
=============================================================================
