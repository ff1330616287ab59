---------------------------- MODULE RunLifecycle ----------------------------
(***************************************************************************)
(* The life of one agent run: the row of agent.runs, its checkpoints and   *)
(* approvals, the tasks of the durable queue that execute or resume it,    *)
(* the founder who decides approvals and the caller who cancels it.        *)
(*                                                                         *)
(*   worker   apps/cosa/worker/handlers.py                                 *)
(*   kernel   packages/agent_integrations/openai_agents_sdk/kernel.py      *)
(*   API      apps/cosa/api/workforce_routes.py, routes.py                 *)
(*   tables   packages/agent/runs/repository.py                            *)
(*                                                                         *)
(* Three processes write to the row without a common lock: the worker that *)
(* holds the run's lease, the API process of the founder, and the API      *)
(* process of the cancellation.  Every statement of theirs is a step.      *)
(*                                                                         *)
(* A run is executed by one task and resumed by one task for each decided  *)
(* approval, so a resume task is named by the tool call that was decided.  *)
(* What the model asks for is a set of tool calls that need an approval;   *)
(* calls that need none leave no trace in this state.                      *)
(***************************************************************************)
EXTENDS Integers, Sequences, FiniteSets

CONSTANTS
  Calls,      \* ids of tool calls that need an approval
  RunTask,    \* the task that executes the run
  Kinds,      \* the kinds of run considered, a subset of RunKinds
  MaxRepeats, \* bound: executions that are cut off or not reported, and repeated
  MaxDropped, \* bound: executions given up or refused
  None        \* SQL NULL

RunKinds == {"chat", "background", "preauthorized"}

ASSUME KindsAssumption == Kinds \subseteq RunKinds
ASSUME BoundsAssumption == MaxRepeats \in Nat /\ MaxDropped \in Nat
ASSUME NamesAssumption ==
  /\ RunTask \notin Calls
  /\ None \notin Calls
  /\ None # RunTask
  /\ None \notin [status : {"pending", "approved", "denied"}, ckpt : Nat]
  /\ None \notin [approved : BOOLEAN, ckpt : Nat]

VARIABLES
  kind,        \* how the run was started
  status,      \* agent.runs.status, "absent" before create_run
  checkpoints, \* the calls each saved checkpoint is interrupted at
  approval,    \* agent.approvals of the run, by tool call
  deciding,    \* calls decided in an API request that has not scheduled yet
  payload,     \* the resume task's payload, by tool call
  phase,       \* where the execution of each task is
  asking,      \* the checkpoint an execution is asking approvals for
  holder,      \* the task whose token is the one of the run's lease
  cancel,      \* where the cancellation request is
  ran,         \* tool calls that were executed
  repeats,     \* executions cut off or not reported so far
  dropped      \* executions given up or refused so far

vars == <<kind, status, checkpoints, approval, deciding, payload, phase,
          asking, holder, cancel, ran, repeats, dropped>>

Tasks == Calls \cup {RunTask}

(***************************************************************************)
(* "claimed": the handler runs its checks.  "tool": the kernel executes    *)
(* the approved call.  "model": the SDK runner is at work.  "ask": a       *)
(* checkpoint is saved and its approvals are being created.  "raised": the *)
(* gateway asked for an approval and its error is on the way to the        *)
(* kernel.  "block": the worker turns down what a pre-authorised schedule  *)
(* may not ask.  "report": the handler has returned; complete_task and     *)
(* release_lease are still to come.                                        *)
(***************************************************************************)
Active == {"claimed", "tool", "model", "raised", "ask", "block"}
Phases == {"none", "queued", "report", "done"} \cup Active

Terminal == {"completed", "failed", "cancelled"}
Statuses == {"absent", "running", "waiting"} \cup Terminal

(***************************************************************************)
(* A checkpoint is named by its place in checkpoints; 0 stands for the     *)
(* reference ckpt_{run}_{call} that no checkpoint has.                     *)
(***************************************************************************)
Approvals == [status : {"pending", "approved", "denied"}, ckpt : Nat]
Payloads  == [approved : BOOLEAN, ckpt : Nat]

Init ==
  /\ kind \in Kinds
  /\ status = "absent"
  /\ checkpoints = <<>>
  /\ approval = [c \in Calls |-> None]
  /\ deciding = {}
  /\ payload = [c \in Calls |-> None]
  /\ phase = [t \in Tasks |-> IF t = RunTask THEN "queued" ELSE "none"]
  /\ asking = [t \in Tasks |-> 0]
  /\ holder = None
  /\ cancel = "idle"
  /\ ran = {}
  /\ repeats = 0
  /\ dropped = 0

-----------------------------------------------------------------------------
(***************************************************************************)
(* The worker.  A worker polls a batch of due tasks and runs them side by  *)
(* side; the tasks of one run in a batch pass the lease to each other,     *)
(* because acquireLease lets its own worker through and replaces the       *)
(* token, and whoever acquired last holds the token that releases it.      *)
(* Other workers are refused while the lease stands (the task is left to   *)
(* the sweeper and comes back to the queue).                               *)
(***************************************************************************)
(* Mutant: the lease is not asked for. *)
LeaseFree_Always == TRUE

LeaseFree == holder = None

Dispatch(B, last) ==
  /\ LeaseFree
  /\ B \subseteq {t \in Tasks : phase[t] = "queued"}
  /\ last \in B
  /\ phase' = [t \in Tasks |-> IF t \in B THEN "claimed" ELSE phase[t]]
  /\ holder' = last
  /\ UNCHANGED <<kind, status, checkpoints, approval, deciding, payload,
                 asking, cancel, ran, repeats, dropped>>

Released(t) == IF holder = t THEN None ELSE holder

(* t leaves the worker, which releases the lease with its token.           *)
Leave(t, p) ==
  /\ phase' = [phase EXCEPT ![t] = p]
  /\ holder' = Released(t)

Goto(t, p) ==
  /\ phase' = [phase EXCEPT ![t] = p]
  /\ UNCHANGED holder

(* The handler has returned: complete_task, and the lease is released.     *)
Report(t) ==
  /\ phase[t] = "report"
  /\ Leave(t, "done")
  /\ UNCHANGED <<kind, status, checkpoints, approval, deciding, payload,
                 asking, cancel, ran, repeats, dropped>>

-----------------------------------------------------------------------------
(***************************************************************************)
(* Executing the run.                                                      *)
(***************************************************************************)

(* A check of the handler turns the run down: it writes a message and a    *)
(* run.failed event but no status.                                         *)
RunRefused ==
  /\ phase[RunTask] = "claimed"
  /\ dropped < MaxDropped
  /\ dropped' = dropped + 1
  /\ Goto(RunTask, "report")
  /\ UNCHANGED <<kind, status, checkpoints, approval, deciding, payload,
                 asking, cancel, ran, repeats>>

(* kernel.run: create_run inserts the row or, when the task is executed    *)
(* again, sets its status back to running whatever it was.                 *)
KernelRun ==
  /\ phase[RunTask] = "claimed"
  /\ status' = "running"
  /\ Goto(RunTask, "model")
  /\ UNCHANGED <<kind, checkpoints, approval, deciding, payload, asking,
                 cancel, ran, repeats, dropped>>

(***************************************************************************)
(* Resuming it after the decision on c.  Neither the handler nor the       *)
(* kernel looks at the status of the run, and neither writes one here.     *)
(***************************************************************************)

(* Mutant: a rejection resumes no run, as before chat runs asked for it. *)
ResumeIgnored_All(c) ==
  /\ phase[c] = "claimed"
  /\ ~payload[c].approved
  /\ Goto(c, "report")
  /\ UNCHANGED <<kind, status, checkpoints, approval, deciding, payload,
                 asking, cancel, ran, repeats, dropped>>

(* A rejection resumes chat runs only.                                     *)
ResumeIgnored(c) ==
  /\ phase[c] = "claimed"
  /\ ~payload[c].approved /\ kind # "chat"
  /\ Goto(c, "report")
  /\ UNCHANGED <<kind, status, checkpoints, approval, deciding, payload,
                 asking, cancel, ran, repeats, dropped>>

(* Mutant: the decision must be bound to the newest checkpoint. *)
Verified_Latest(c) ==
  /\ status # "absent"
  /\ payload[c].ckpt \in DOMAIN checkpoints
  /\ payload[c].ckpt = Len(checkpoints)
  /\ approval[c] # None
  /\ approval[c].status = IF payload[c].approved THEN "approved" ELSE "denied"

(* verify_and_prepare_resume and _verify_rejected_resume: the decision in  *)
(* the table is the one in the payload and is bound to its checkpoint.     *)
(* That there is such a checkpoint the former finds out; after a rejection *)
(* kernel.resume does, and returns without a status.                       *)
Verified(c) ==
  /\ status # "absent"
  /\ payload[c].ckpt \in DOMAIN checkpoints
  /\ approval[c] # None
  /\ approval[c].ckpt = payload[c].ckpt
  /\ approval[c].status = IF payload[c].approved THEN "approved" ELSE "denied"

ResumeRefused(c) ==
  /\ phase[c] = "claimed"
  /\ payload[c].approved \/ kind = "chat"
  /\ ~Verified(c)
  /\ Goto(c, "report")
  /\ UNCHANGED <<kind, status, checkpoints, approval, deciding, payload,
                 asking, cancel, ran, repeats, dropped>>

(* kernel.resume loads the checkpoint of the payload, enters the decision  *)
(* on c, and on c alone, into the SDK's state and runs it: the approved    *)
(* call first, if the checkpoint is one that waits for it.                 *)
KernelResume(c) ==
  /\ phase[c] = "claimed"
  /\ payload[c].approved \/ kind = "chat"
  /\ Verified(c)
  /\ Goto(c, IF payload[c].approved /\ c \in checkpoints[payload[c].ckpt]
               THEN "tool" ELSE "model")
  /\ UNCHANGED <<kind, status, checkpoints, approval, deciding, payload,
                 asking, cancel, ran, repeats, dropped>>

(* Mutant: one approval releases every call of the checkpoint. *)
ApprovedBy_Blanket(t) == checkpoints[payload[t].ckpt]

(* The calls the SDK executes when the execution of t is resumed.          *)
ApprovedBy(t) == {t}

RunTool(c) ==
  /\ phase[c] = "tool"
  /\ ran' = ran \cup ApprovedBy(c)
  /\ Goto(c, "model")
  /\ UNCHANGED <<kind, status, checkpoints, approval, deciding, payload,
                 asking, cancel, repeats, dropped>>

(* The gateway denies the call after all: _execute_tool raises and the     *)
(* kernel fails the run.                                                   *)
ToolRefused(c) ==
  /\ phase[c] = "tool"
  /\ dropped < MaxDropped
  /\ dropped' = dropped + 1
  /\ status' = "failed"
  /\ Goto(c, "report")
  /\ UNCHANGED <<kind, checkpoints, approval, deciding, payload, asking,
                 cancel, ran, repeats>>

-----------------------------------------------------------------------------
(***************************************************************************)
(* What the SDK runner returns, and how the kernel translates it.          *)
(***************************************************************************)

(* Calls of the checkpoint on which this resume brings no decision.        *)
Undecided(t) ==
  IF t = RunTask THEN {} ELSE checkpoints[payload[t].ckpt] \ {t}

(* Call ids are made by the model provider and are new in each execution.  *)
Fresh == {c \in Calls : /\ approval[c] = None
                        /\ \A i \in DOMAIN checkpoints : c \notin checkpoints[i]}

(* What _execute_tool gives the gateway for a checkpoint: the one of the   *)
(* resume, or in a first execution a reference that nobody saves.          *)
CheckpointRef(t) == IF t = RunTask THEN 0 ELSE payload[t].ckpt

(* The policy asks for no approval of c, so the SDK is not interrupted and *)
(* calls the gateway.  The gateway's floor does ask for one: it creates    *)
(* the approval itself, and _execute_tool raises.                          *)
GatewayAsks(t, c) ==
  /\ phase[t] \in {"model", "raised"}
  /\ Undecided(t) = {}
  /\ c \in Fresh
  /\ dropped < MaxDropped
  /\ dropped' = dropped + 1
  /\ approval' = [approval EXCEPT ![c] = [status |-> "pending",
                                          ckpt   |-> CheckpointRef(t)]]
  /\ Goto(t, "raised")
  /\ UNCHANGED <<kind, status, checkpoints, deciding, payload, asking, cancel,
                 ran, repeats>>

(* The runner raised, or the output does not match the schema.             *)
Fail(t) ==
  /\ phase[t] \in {"model", "raised"}
  /\ status' = "failed"
  /\ Goto(t, "report")
  /\ UNCHANGED <<kind, checkpoints, approval, deciding, payload, asking,
                 cancel, ran, repeats, dropped>>

Finish(t) ==
  /\ phase[t] = "model"
  /\ Undecided(t) = {}
  /\ status' = "completed"
  /\ Goto(t, "report")
  /\ UNCHANGED <<kind, checkpoints, approval, deciding, payload, asking,
                 cancel, ran, repeats, dropped>>

(* Mutant: a checkpoint is saved even if the runner asks for nothing. *)
Interrupt_Unasked(t, open) ==
  /\ phase[t] = "model"
  /\ IF Undecided(t) # {} THEN open = Undecided(t) ELSE open \subseteq Fresh
  /\ checkpoints' = Append(checkpoints, open)
  /\ asking' = [asking EXCEPT ![t] = Len(checkpoints) + 1]
  /\ status' = "waiting"
  /\ Goto(t, "ask")
  /\ UNCHANGED <<kind, approval, deciding, payload, cancel, ran, repeats,
                 dropped>>

(* The runner stops at calls that need an approval: first those left open  *)
(* in the checkpoint it was resumed from, otherwise new ones.              *)
Interrupt(t, open) ==
  /\ phase[t] = "model"
  /\ open # {}
  /\ IF Undecided(t) # {} THEN open = Undecided(t) ELSE open \subseteq Fresh
  /\ checkpoints' = Append(checkpoints, open)
  /\ asking' = [asking EXCEPT ![t] = Len(checkpoints) + 1]
  /\ status' = "waiting"
  /\ Goto(t, "ask")
  /\ UNCHANGED <<kind, approval, deciding, payload, cancel, ran, repeats,
                 dropped>>

(* create_approval.  The id is made of the run and the call and the insert *)
(* does nothing on a conflict, so a call that was asked for before keeps   *)
(* its decision and its old checkpoint; only new rows are steps.           *)
CreateApproval(t, c) ==
  /\ phase[t] = "ask"
  /\ c \in checkpoints[asking[t]]
  /\ approval[c] = None
  /\ approval' = [approval EXCEPT ![c] = [status |-> "pending",
                                          ckpt   |-> asking[t]]]
  /\ UNCHANGED <<kind, status, checkpoints, deciding, payload, phase, asking,
                 holder, cancel, ran, repeats, dropped>>

(* All are asked for: the kernel writes the status once more and returns.  *)
Settle(t) ==
  /\ phase[t] = "ask"
  /\ \A c \in checkpoints[asking[t]] : approval[c] # None
  /\ status' = "waiting"
  /\ IF t = RunTask /\ kind = "preauthorized"
     THEN Goto(t, "block")
     ELSE Goto(t, "report")
  /\ UNCHANGED <<kind, checkpoints, approval, deciding, payload, asking,
                 cancel, ran, repeats, dropped>>

(* Mutant: a second decision overwrites the first. *)
Decidable_Any(c) == approval[c] # None

(* decide_approval: one UPDATE that changes a pending row only.            *)
Decidable(c) == approval[c] # None /\ approval[c].status = "pending"

Decided(c, s) ==
  [approval EXCEPT ![c] = [status |-> s, ckpt |-> approval[c].ckpt]]

(* _block_scheduled_run_outside_snapshot turns down the first approval of  *)
(* the checkpoint, unless it has been decided, and schedules no resume.    *)
Block(c) ==
  /\ phase[RunTask] = "block"
  /\ c \in checkpoints[asking[RunTask]]
  /\ approval' = IF Decidable(c) THEN Decided(c, "denied") ELSE approval
  /\ Goto(RunTask, "report")
  /\ UNCHANGED <<kind, status, checkpoints, deciding, payload, asking, cancel,
                 ran, repeats, dropped>>

-----------------------------------------------------------------------------
(***************************************************************************)
(* The founder.  The decision is one compare-and-set on a pending row and  *)
(* does not look at the run; scheduling the resume is a later call, and a  *)
(* request that dies in between, or whose principal has no platform        *)
(* identity, leaves a decision that nothing acts on.                       *)
(***************************************************************************)
Decide(c, approved) ==
  /\ Decidable(c)
  /\ approval' = Decided(c, IF approved THEN "approved" ELSE "denied")
  /\ deciding' = deciding \cup {c}
  /\ UNCHANGED <<kind, status, checkpoints, payload, phase, asking, holder,
                 cancel, ran, repeats, dropped>>

ScheduleResume(c) ==
  /\ c \in deciding
  /\ deciding' = deciding \ {c}
  /\ payload' = [payload EXCEPT
                   ![c] = [approved |-> approval[c].status = "approved",
                           ckpt     |-> approval[c].ckpt]]
  /\ phase' = [phase EXCEPT ![c] = "queued"]
  /\ UNCHANGED <<kind, status, checkpoints, approval, asking, holder, cancel,
                 ran, repeats, dropped>>

LoseResume(c) ==
  /\ c \in deciding
  /\ dropped < MaxDropped
  /\ deciding' = deciding \ {c}
  /\ dropped' = dropped + 1
  /\ UNCHANGED <<kind, status, checkpoints, approval, payload, phase, asking,
                 holder, cancel, ran, repeats>>

-----------------------------------------------------------------------------
(***************************************************************************)
(* The cancellation.  The route cancels in the table, then asks the kernel *)
(* of its own process, which reads the row and writes it again when it     *)
(* says running.  The kernel of the worker never learns of it.             *)
(***************************************************************************)
CancelRun ==
  /\ cancel = "idle"
  /\ status # "absent"
  /\ status' = IF status \in {"running", "waiting"} THEN "cancelled" ELSE status
  /\ cancel' = "kernel"
  /\ UNCHANGED <<kind, checkpoints, approval, deciding, payload, phase, asking,
                 holder, ran, repeats, dropped>>

KernelCancelRead ==
  /\ cancel = "kernel"
  /\ cancel' = IF status = "running" THEN "write" ELSE "done"
  /\ UNCHANGED <<kind, status, checkpoints, approval, deciding, payload, phase,
                 asking, holder, ran, repeats, dropped>>

KernelCancelWrite ==
  /\ cancel = "write"
  /\ cancel' = "done"
  /\ status' = "cancelled"
  /\ UNCHANGED <<kind, checkpoints, approval, deciding, payload, phase, asking,
                 holder, ran, repeats, dropped>>

-----------------------------------------------------------------------------
(***************************************************************************)
(* Faults.  A worker that dies leaves the task to the sweeper.  So does    *)
(* one that is done and cannot report it; and when the report, or a        *)
(* heartbeat that is awaited before it, raises, the worker reports a       *)
(* failure.  In each case the task is executed again.  What the handlers   *)
(* catch (a failed query, a policy or specification that cannot be loaded, *)
(* a suspended tenant) ends the task with an event and without a status.   *)
(***************************************************************************)
Crash(t) ==
  /\ phase[t] \in Active
  /\ repeats < MaxRepeats
  /\ repeats' = repeats + 1
  /\ Leave(t, "queued")
  /\ UNCHANGED <<kind, status, checkpoints, approval, deciding, payload,
                 asking, cancel, ran, dropped>>

ReportFails(t) ==
  /\ phase[t] = "report"
  /\ repeats < MaxRepeats
  /\ repeats' = repeats + 1
  /\ Leave(t, "queued")
  /\ UNCHANGED <<kind, status, checkpoints, approval, deciding, payload,
                 asking, cancel, ran, dropped>>

GiveUp(t) ==
  /\ phase[t] \in Active
  /\ dropped < MaxDropped
  /\ dropped' = dropped + 1
  /\ Goto(t, "report")
  /\ UNCHANGED <<kind, status, checkpoints, approval, deciding, payload,
                 asking, cancel, ran, repeats>>

Execute(t) ==
  \/ t = RunTask /\ (RunRefused \/ KernelRun \/ \E c \in Calls : Block(c))
  \/ t \in Calls /\ (\/ ResumeIgnored(t) \/ ResumeRefused(t)
                     \/ KernelResume(t) \/ RunTool(t) \/ ToolRefused(t))
  \/ Fail(t)
  \/ Finish(t)
  \/ \E open \in SUBSET Calls : Interrupt(t, open)
  \/ \E c \in Calls : CreateApproval(t, c) \/ GatewayAsks(t, c)
  \/ Settle(t)
  \/ Report(t)

Worker == \E B \in SUBSET Tasks : \E last \in B : Dispatch(B, last)

Founder == \E c \in Calls : \/ \E approved \in BOOLEAN : Decide(c, approved)
                            \/ ScheduleResume(c)
                            \/ LoseResume(c)

Canceller == CancelRun \/ KernelCancelRead \/ KernelCancelWrite

Faults == \E t \in Tasks : Crash(t) \/ ReportFails(t) \/ GiveUp(t)

Next ==
  \/ Worker
  \/ \E t \in Tasks : Execute(t)
  \/ Founder
  \/ Canceller
  \/ Faults

Spec == Init /\ [][Next]_vars

(***************************************************************************)
(* Workers keep polling, an execution goes on, and an API request runs to  *)
(* its end.  Nobody is obliged to decide or to cancel.                     *)
(***************************************************************************)
FairSpec ==
  /\ Spec
  /\ WF_vars(Worker)
  /\ \A t \in Tasks : WF_vars(Execute(t))
  /\ \A c \in Calls : WF_vars(ScheduleResume(c))

-----------------------------------------------------------------------------
(***************************************************************************)
(* The records keep their shape; an execution that asks, and a payload,    *)
(* name a checkpoint that is saved and that holds the calls concerned.     *)
(***************************************************************************)
TypeOK ==
  /\ kind \in RunKinds
  /\ status \in Statuses
  /\ checkpoints \in Seq((SUBSET Calls) \ {{}})
  /\ approval \in [Calls -> Approvals \cup {None}]
  /\ deciding \subseteq Calls
  /\ payload \in [Calls -> Payloads \cup {None}]
  /\ phase \in [Tasks -> Phases]
  /\ asking \in [Tasks -> Nat]
  /\ holder \in Tasks \cup {None}
  /\ cancel \in {"idle", "kernel", "write", "done"}
  /\ ran \subseteq Calls
  /\ repeats \in 0 .. MaxRepeats
  /\ dropped \in 0 .. MaxDropped

(***************************************************************************)
(* No tool call that needs an approval is executed unless the founder      *)
(* approved exactly that call and never took it back, whatever is decided  *)
(* for the other calls of its checkpoint, whatever is asked for again, and *)
(* however often the resume is repeated (kernel.resume, decide_approval).  *)
(***************************************************************************)
OnlyApprovedToolsRun ==
  \A c \in ran : approval[c] # None /\ approval[c].status = "approved"

(***************************************************************************)
(* The approval of a call that a checkpoint waits for is bound to such a   *)
(* checkpoint, and the resume that is scheduled for it carries the same    *)
(* checkpoint and decision: the state the kernel loads is one that waits   *)
(* for this decision (rule "approval binds run, call and checkpoint" of    *)
(* handlers.py).  An approval the gateway asked for has no such checkpoint *)
(* (ckpt_{run}_{call}, or the one its execution was resumed from), and     *)
(* then the call is never executed, whatever the founder decides.          *)
(***************************************************************************)
Waits(c, k) == k \in DOMAIN checkpoints /\ c \in checkpoints[k]

ApprovalBound ==
  \A c \in Calls :
    /\ (approval[c] # None /\ \E k \in DOMAIN checkpoints : Waits(c, k))
         => Waits(c, approval[c].ckpt)
    /\ payload[c] # None =>
         /\ approval[c] # None
         /\ payload[c].ckpt = approval[c].ckpt
         /\ approval[c].status = IF payload[c].approved THEN "approved" ELSE "denied"
    /\ c \in ran => Waits(c, approval[c].ckpt)

(***************************************************************************)
(* Unless an execution is repeated, a completed run stays completed:       *)
(* although every write of the kernel is unconditional, the lease keeps    *)
(* the execution that asks for an approval apart from the one its decision *)
(* starts, and a cancellation comes too late.  A repeated execution does   *)
(* reopen it: create_run sets the run back to running, also when the       *)
(* kernel had completed it and only the report of the task failed.         *)
(***************************************************************************)
CompletedFinal ==
  [][repeats = 0 /\ status = "completed" => status' = "completed"]_vars

(***************************************************************************)
(* A cancelled run stays cancelled: a late completion or failure does not  *)
(* overwrite it (transition_run_status, repository.py).                    *)
(***************************************************************************)
CancelSticks == [][status = "cancelled" => status' = "cancelled"]_vars

(***************************************************************************)
(* What makes the three invariants inductive: a decision waiting to be     *)
(* scheduled is made, an execution that asks has saved its checkpoint, a   *)
(* resume task has a payload, one that executes a call was approved, and   *)
(* an approval names no checkpoint that is still to be saved.              *)
(***************************************************************************)
DecisionMade == \A c \in deciding : approval[c] # None /\ approval[c].status # "pending"

AskingSaved ==
  \A t \in Tasks : phase[t] \in {"ask", "block"} => asking[t] \in DOMAIN checkpoints

ResumeGrounded ==
  \A c \in Calls :
    /\ phase[c] # "none" => payload[c] # None
    /\ phase[c] \in {"tool", "model", "raised", "ask"} => payload[c].ckpt \in DOMAIN checkpoints
    /\ phase[c] = "tool" => payload[c].approved /\ c \in checkpoints[payload[c].ckpt]

NoneAhead ==
  \A c \in Calls : approval[c] # None => approval[c].ckpt \in DOMAIN checkpoints \cup {0}

IndInv ==
  /\ TypeOK
  /\ ApprovalBound
  /\ OnlyApprovedToolsRun
  /\ DecisionMade
  /\ AskingSaved
  /\ ResumeGrounded
  /\ NoneAhead

(***************************************************************************)
(* Why a completed run stays completed without repeats, although no write  *)
(* has a condition.  A task is alive from its approval on until its        *)
(* handler returns; a resume is stuck if it has no checkpoint, or one that *)
(* waits for another call that was asked for, because it brings no         *)
(* decision on that one and cannot finish.  A task that is not stuck is    *)
(* alone, but for the calls it asks for, which its lease keeps from        *)
(* starting; so whoever finishes is the last.                              *)
(***************************************************************************)
Alive(t) == phase[t] \notin {"report", "done"} /\ (t = RunTask \/ approval[t] # None)

Stuck(t) ==
  /\ t # RunTask
  /\ \/ approval[t].ckpt \notin DOMAIN checkpoints
     \/ \E c \in checkpoints[approval[t].ckpt] \ {t} : approval[c] # None

AsksFor(t, c) ==
  /\ holder = t
  /\ c \in Calls /\ phase[c] \in {"none", "queued"}
  /\ \/ /\ phase[t] \in {"ask", "block"}
        /\ approval[c].ckpt = asking[t] /\ c \in checkpoints[asking[t]]
     \/ phase[t] = "raised" /\ Stuck(c)

Alone ==
  \A t, u \in Tasks :
    t # u /\ Alive(t) /\ Alive(u) /\ ~Stuck(t) => AsksFor(t, u) \/ AsksFor(u, t)

Held == \A t \in Tasks : phase[t] \in Active /\ ~Stuck(t) => holder = t

CompletedStill == status = "completed" => \A t \in Tasks : ~Alive(t)

AskedUndecided ==
  \A c \in Calls : phase[c] = "ask" => Undecided(c) \subseteq checkpoints[asking[c]]

(* The run is created once, so a cancellation never finds it running.      *)
RunOnce ==
  /\ status # "absent" => phase[RunTask] \notin {"none", "queued", "claimed"}
  /\ cancel # "idle" => status \notin {"absent", "running"}
  /\ cancel # "write"

Unscheduled == \A c \in deciding : payload[c] = None

NoRepeat ==
  /\ Alone /\ Held /\ CompletedStill
  /\ AskedUndecided /\ RunOnce /\ Unscheduled

Pending == {c \in Calls : approval[c] # None /\ approval[c].status = "pending"}

(***************************************************************************)
(* A chat run that waits although nothing is left to decide moves on, if   *)
(* no execution was repeated or given up and no checkpoint waits for two   *)
(* calls at once.  With two it does not: each resume starts from the       *)
(* checkpoint both are bound to and knows its own decision only.           *)
(***************************************************************************)
DecidedRunMovesOn ==
  (/\ kind = "chat" /\ status = "waiting" /\ Pending = {})
    ~> \/ status # "waiting" \/ Pending # {}
       \/ repeats > 0 \/ dropped > 0
       \/ \E i \in DOMAIN checkpoints : Cardinality(checkpoints[i]) > 1

(***************************************************************************)
(* An approved call is executed, in every kind of run, unless its          *)
(* execution was given up or the gateway asked for it; a crash or a failed *)
(* report only delays it (ScheduleResume to RunTool).                      *)
(***************************************************************************)
ApprovedToolRuns ==
  \A c \in Calls :
    (approval[c] # None /\ approval[c].status = "approved")
      ~> (c \in ran \/ dropped > 0)
=============================================================================
