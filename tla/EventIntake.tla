---------------------------- MODULE EventIntake ----------------------------
(***************************************************************************)
(* One business event on its way from the company services to AgentOS:     *)
(* the row of integration.event_outbox, the relay that posts it, the       *)
(* intake handler with its inbox, and what the event sets off.             *)
(*                                                                         *)
(*   outbox   services/company/shared/events/outbox.repository.ts          *)
(*   relay    services/company/events/outbox-relay.service.ts              *)
(*   intake   apps/cosa/events/router.py, inbox.py                         *)
(*   founder  apps/cosa/events/founder_asset_events.py                     *)
(*                                                                         *)
(* Every claim of the row starts one delivery: a relay that posts the      *)
(* event, and a request in AgentOS that outlives a relay which stops       *)
(* waiting for it, and in turn makes a call to the control plane that      *)
(* outlives a request which stops waiting for it (after 5 s).  The number  *)
(* of the claim names all three, and stands for the claim token.  Ticks of *)
(* the relay may overlap, so may requests, and so may calls.               *)
(*                                                                         *)
(* Events differ in what they set off.  A "trigger" event matches a rule   *)
(* and schedules a task under an "evt:" key, which is unique for ever; a   *)
(* "platform" event schedules under a key that is unique only while the    *)
(* task waits; a "founder" event is a command that is carried out at once  *)
(* and answered with a callback.                                           *)
(***************************************************************************)
EXTENDS Integers, FiniteSets

CONSTANTS
  Kinds,       \* the kinds of event considered, a subset of EventKinds
  MaxAttempts, \* max_attempts of the row
  MaxClaims,   \* bound: claims of the row
  MaxFaults,   \* bound: crashes, lost replies, timeouts and slow deliveries
  MaxRetries   \* bound: retries of a dead event by an operator

EventKinds == {"trigger", "platform", "founder"}

ASSUME IntakeAssumption ==
  /\ Kinds \subseteq EventKinds
  /\ MaxAttempts \in Nat \ {0}
  /\ MaxClaims \in Nat /\ MaxFaults \in Nat /\ MaxRetries \in Nat

(* The claims never run out: each is an attempt since the last retry, or   *)
(* takes over after a fault.                                               *)
ASSUME ClaimsSuffice == MaxClaims >= MaxAttempts * (MaxRetries + 1) + MaxFaults

VARIABLES
  kind,      \* what the event sets off
  status,    \* the outbox row: its status,
  attempts,  \*   attempt_count,
  token,     \*   claim_token, 0 for NULL,
  lapsed,    \*   and whether visibility_timeout_at has passed
  claims,    \* claims made so far
  relay,     \* the relay of each delivery
  request,   \* the request of each delivery
  inbox,     \* the committed inbox row: "absent" or its outcome
  writer,    \* the request with an uncommitted inbox row, or 0
  call,      \* the schedule call of each request, in the control plane
  waiting,   \* whether the newest task of the event is still 'scheduled'
  authored,  \* times the founder's command was carried out
  callback,  \* the callback outbox: "absent", "PENDING" or "DELIVERED"
  sent,      \* whether the company has received the callback
  faults,    \* faults so far
  retries,   \* retries so far
  reclaims,  \* claims that took over a lapsed one since attempts was reset
  orphaned,  \* requests that ended between their schedule call and commit,
  abandoned, \*   and those of them whose call was still open
  undone     \* whether a completion was reported as a failure

vars == <<kind, status, attempts, token, lapsed, claims, relay, request, inbox,
          writer, call, waiting, authored, callback, sent, faults, retries,
          reclaims, orphaned, abandoned, undone>>

rowVars     == <<status, attempts, token, lapsed>>
outboxVars  == <<rowVars, claims, retries, reclaims, undone>>
effectVars  == <<call, waiting, authored, callback, sent>>
historyVars == <<orphaned, abandoned>>
inboxVars   == <<inbox, writer, historyVars>>

Deliveries == 1 .. MaxClaims

RowStatuses     == {"absent", "pending", "claimed", "delivered", "dead",
                    "pruned"}
RelayPhases     == {"none", "sent", "ok", "bad", "over"}
Outcomes        == {"accepted", "refused", "rejected", "failed"}
RequestPhases   == {"none", "sent", "decide", "schedule", "commit", "author",
                    "enqueue", "send", "mark", "over"} \cup Outcomes
OpenCall        == {"posted", "missed"}
CallPhases      == {"none", "inserted", "over"} \cup OpenCall

Init ==
  /\ kind \in Kinds
  /\ status = "absent" /\ attempts = 0 /\ token = 0 /\ lapsed = FALSE
  /\ claims = 0
  /\ relay = [n \in Deliveries |-> "none"]
  /\ request = [n \in Deliveries |-> "none"]
  /\ inbox = "absent" /\ writer = 0
  /\ call = [n \in Deliveries |-> "none"] /\ waiting = FALSE
  /\ authored = 0 /\ callback = "absent" /\ sent = FALSE
  /\ faults = 0 /\ retries = 0 /\ reclaims = 0
  /\ orphaned = {} /\ abandoned = {} /\ undone = FALSE

Fault == faults < MaxFaults /\ faults' = faults + 1

-----------------------------------------------------------------------------
(***************************************************************************)
(* The outbox.                                                             *)
(***************************************************************************)

(* appendOutboxEvent, in the business transaction.                         *)
Append ==
  /\ status = "absent"
  /\ status' = "pending"
  /\ UNCHANGED <<kind, attempts, token, lapsed, claims, relay, request,
                 inboxVars, effectVars, faults, retries, reclaims, undone>>

(* Mutant: a claim that lapsed is not taken over. *)
Due_PendingOnly == status = "pending"

(* A pending row is due whatever its visibility timeout says, so the       *)
(* backoff failOutboxEvent computes delays nothing.                        *)
Due == status = "pending" \/ (status = "claimed" /\ lapsed)

(* claimDueOutboxEvents, and the post of the claimed event.                *)
Claim ==
  /\ claims < MaxClaims
  /\ Due
  /\ LET n == claims + 1
     IN  /\ status' = "claimed"
         /\ attempts' = attempts + 1
         /\ token' = n
         /\ lapsed' = FALSE
         /\ relay' = [relay EXCEPT ![n] = "sent"]
         /\ request' = [request EXCEPT ![n] = "sent"]
         /\ claims' = n
  /\ reclaims' = IF status = "claimed" THEN reclaims + 1 ELSE reclaims
  /\ UNCHANGED <<kind, inboxVars, effectVars, faults, retries, undone>>

(* The visibility timeout of a claim passes.  It is a fault of its own     *)
(* when the relay that holds the claim is merely slow.                     *)
Lapse ==
  /\ status = "claimed" /\ ~lapsed
  /\ lapsed' = TRUE
  /\ IF relay[token] = "over" THEN UNCHANGED faults ELSE Fault
  /\ UNCHANGED <<kind, status, attempts, token, claims, relay, request,
                 inboxVars, effectVars, retries, reclaims, undone>>

(* completeOutboxEvent: by token, and only a claimed row.                  *)
Completed(n) ==
  IF token = n /\ status = "claimed" THEN "delivered" ELSE status

Complete(n) ==
  /\ relay[n] = "ok"
  /\ status' = Completed(n)
  /\ relay' = [relay EXCEPT ![n] = "over"]
  /\ UNCHANGED <<kind, attempts, token, lapsed, claims, request, inboxVars,
                 effectVars, faults, retries, reclaims, undone>>

(* The update commits, but its reply is lost: the catch branch goes on to  *)
(* failOutboxEvent with the token that is still in the row.                *)
CompleteReplyLost(n) ==
  /\ relay[n] = "ok"
  /\ Fault
  /\ status' = Completed(n)
  /\ relay' = [relay EXCEPT ![n] = "bad"]
  /\ undone' = TRUE
  /\ UNCHANGED <<kind, attempts, token, lapsed, claims, request, inboxVars,
                 effectVars, retries, reclaims>>

(* Mutant: the last attempt is not the last. *)
Exhausted_OneMore == attempts > MaxAttempts

Exhausted == attempts >= MaxAttempts

(* Mutant: a failure is recorded without looking at the token. *)
HoldsToken_Any(n) == status \in {"claimed", "delivered"}

HoldsToken(n) == token = n

(* failOutboxEvent: by token, whatever the status.                         *)
Fail(n) ==
  /\ relay[n] = "bad"
  /\ IF HoldsToken(n)
     THEN status' = (IF Exhausted THEN "dead" ELSE "pending") /\ token' = 0
     ELSE UNCHANGED <<status, token>>
  /\ relay' = [relay EXCEPT ![n] = "over"]
  /\ UNCHANGED <<kind, attempts, lapsed, claims, request, inboxVars,
                 effectVars, faults, retries, reclaims, undone>>

(* The process of the relay dies, before or after it had an answer.        *)
RelayDies(n) ==
  /\ relay[n] \in {"sent", "ok", "bad"}
  /\ Fault
  /\ relay' = [relay EXCEPT ![n] = "over"]
  /\ UNCHANGED <<kind, request, outboxVars, inboxVars, effectVars>>

(* fetch gives up on a request, which may go on or may never have arrived. *)
ReplyLost(n) ==
  /\ relay[n] = "sent"
  /\ Fault
  /\ relay' = [relay EXCEPT ![n] = "bad"]
  /\ \/ UNCHANGED request
     \/ request[n] = "sent" /\ request' = [request EXCEPT ![n] = "over"]
  /\ UNCHANGED <<kind, outboxVars, inboxVars, effectVars>>

(* Mutant: the answer of the endpoint is stored as the status. *)
RetryOutbox_Requeued ==
  /\ status = "dead"
  /\ retries < MaxRetries
  /\ retries' = retries + 1
  /\ status' = "requeued" /\ attempts' = 0 /\ token' = 0
  /\ reclaims' = 0
  /\ UNCHANGED <<kind, lapsed, claims, relay, request, inboxVars, effectVars,
                 faults, undone>>

(* retryOutbox: an operator requeues a dead event.                         *)
RetryOutbox ==
  /\ status = "dead"
  /\ retries < MaxRetries
  /\ retries' = retries + 1
  /\ status' = "pending" /\ attempts' = 0 /\ token' = 0
  /\ reclaims' = 0
  /\ UNCHANGED <<kind, lapsed, claims, relay, request, inboxVars, effectVars,
                 faults, undone>>

(* pruneDeliveredOutbox, days later.                                       *)
Prune ==
  /\ status = "delivered"
  /\ \A n \in Deliveries : relay[n] \in {"none", "over"}
  /\ status' = "pruned"
  /\ UNCHANGED <<kind, attempts, token, lapsed, claims, relay, request,
                 inboxVars, effectVars, faults, retries, reclaims, undone>>

-----------------------------------------------------------------------------
(***************************************************************************)
(* The request.  Its last step answers the relay, if that still waits.     *)
(***************************************************************************)
(* Mutant: any answer with status 200 completes the event. *)
Answer_Any200(n, outcome) ==
  relay' = [relay EXCEPT ![n] = IF @ # "sent" THEN @ ELSE "ok"]

Answer(n, outcome) ==
  relay' = [relay EXCEPT ![n] =
              IF @ # "sent" THEN @
              ELSE IF outcome \in {"accepted", "refused", "duplicate"}
                   THEN "ok" ELSE "bad"]

At(n, p) == request' = [request EXCEPT ![n] = p]

(* Mutant: the insert does not meet rows of open transactions. *)
Unlocked_Always == TRUE

(* inbox.record waits while another transaction holds the same key.        *)
Unlocked == writer = 0

(* Every kind but "founder": record, schedule and set_outcome share one    *)
(* transaction.                                                            *)
Record(n) ==
  /\ kind # "founder"
  /\ request[n] = "sent"
  /\ Unlocked
  /\ IF inbox = "absent"
     THEN /\ At(n, "decide")
          /\ writer' = n
          /\ UNCHANGED relay
     ELSE /\ At(n, "over")
          /\ Answer(n, "duplicate")
          /\ UNCHANGED writer
  /\ UNCHANGED <<kind, outboxVars, inbox, historyVars, effectVars, faults>>

(* The rule is disabled or the policy denies ("refused", which the relay   *)
(* takes for an answer), or the payload is invalid ("rejected", which it   *)
(* does not).                                                              *)
Refuse(n, outcome) ==
  /\ request[n] = "decide"
  /\ inbox' = outcome
  /\ writer' = 0
  /\ At(n, "over")
  /\ Answer(n, outcome)
  /\ UNCHANGED <<kind, outboxVars, historyVars, effectVars, faults>>

(* The call to the control plane is posted, outside the transaction.       *)
Schedule(n) ==
  /\ request[n] = "decide"
  /\ call' = [call EXCEPT ![n] = "posted"]
  /\ At(n, "schedule")
  /\ UNCHANGED <<kind, outboxVars, relay, inboxVars, waiting, authored,
                 callback, sent, faults>>

(* The tasks of the event, by the call that inserted them.                 *)
Scheduled == {n \in Deliveries : call[n] = "inserted"}

(* Mutant: "evt:" keys coalesce with a waiting task only. *)
Coalesces_WaitingOnly == waiting

(* Whether the SELECT of scheduleTask finds a task of the event's key.     *)
Coalesces == IF kind = "trigger" THEN Scheduled # {} ELSE waiting

(* The control plane answers, if the request still waits.                  *)
Reply(n) ==
  request' = IF request[n] = "schedule"
             THEN [request EXCEPT ![n] = "commit"] ELSE request

(* scheduleTask: its SELECT, which locks nothing if it finds nothing.      *)
Lookup(n) ==
  /\ call[n] = "posted"
  /\ IF Coalesces
     THEN call' = [call EXCEPT ![n] = "over"] /\ Reply(n)
     ELSE call' = [call EXCEPT ![n] = "missed"] /\ UNCHANGED request
  /\ UNCHANGED <<kind, outboxVars, relay, inboxVars, waiting, authored,
                 callback, sent, faults>>

(* Its INSERT.                                                             *)
Insert(n) ==
  /\ call[n] = "missed"
  /\ ~waiting
  /\ call' = [call EXCEPT ![n] = "inserted"]
  /\ waiting' = TRUE
  /\ Reply(n)
  /\ UNCHANGED <<kind, outboxVars, relay, inboxVars, authored, callback, sent,
                 faults>>

(* The open transaction, if any, is rolled back and the relay gets an      *)
(* error.                                                                  *)
Rollback(n) ==
  /\ writer' = IF writer = n THEN 0 ELSE writer
  /\ At(n, "over")
  /\ Answer(n, "failed")

(* The unique index on waiting tasks rejects the INSERT; the client raises *)
(* what the control plane answers.                                         *)
InsertRejected(n) ==
  /\ call[n] = "missed"
  /\ waiting
  /\ call' = [call EXCEPT ![n] = "over"]
  /\ IF request[n] = "schedule"
     THEN Rollback(n)
     ELSE UNCHANGED <<relay, request, writer>>
  /\ UNCHANGED <<kind, outboxVars, inbox, historyVars, waiting, authored,
                 callback, sent, faults>>

(* Every step was successful: set_outcome, and the transaction commits.    *)
Commit(n) ==
  /\ request[n] = "commit"
  /\ inbox' = "accepted"
  /\ writer' = 0
  /\ At(n, "over")
  /\ Answer(n, "accepted")
  /\ UNCHANGED <<kind, outboxVars, historyVars, effectVars, faults>>

(* A worker claims the task: it does not wait any more.                    *)
TaskTaken ==
  /\ waiting
  /\ waiting' = FALSE
  /\ UNCHANGED <<kind, outboxVars, relay, request, inboxVars, call, authored,
                 callback, sent, faults>>

-----------------------------------------------------------------------------
(***************************************************************************)
(* A founder's command.  The inbox row is committed first, so that a       *)
(* second delivery never carries the command out again; it only repeats    *)
(* the callback that was stored.                                           *)
(***************************************************************************)
(* Mutant: a delivery whose predecessor left no callback starts over. *)
FounderDuplicate_Answered == inbox # "absent" /\ callback # "absent"

FounderDuplicate == inbox # "absent"

RecordFounder(n) ==
  /\ kind = "founder"
  /\ request[n] = "sent"
  /\ IF ~FounderDuplicate
     THEN inbox' = "pending" /\ At(n, "author") /\ UNCHANGED relay
     ELSE /\ UNCHANGED inbox
          /\ IF callback = "DELIVERED"
             THEN At(n, "over") /\ Answer(n, "duplicate")
             ELSE /\ At(n, IF callback = "absent" THEN "failed" ELSE "send")
                  /\ UNCHANGED relay
  /\ UNCHANGED <<kind, outboxVars, writer, historyVars, effectVars, faults>>

(* An invalid command, or one of another workspace.                        *)
RejectCommand(n) ==
  /\ request[n] = "author"
  /\ At(n, "rejected")
  /\ UNCHANGED <<kind, outboxVars, relay, inboxVars, effectVars, faults>>

(* The authoring service; what it raises becomes part of the callback.     *)
Author(n) ==
  /\ request[n] = "author"
  /\ authored' = authored + 1
  /\ At(n, "enqueue")
  /\ UNCHANGED <<kind, outboxVars, relay, inboxVars, call, waiting, callback,
                 sent, faults>>

Enqueue(n) ==
  /\ request[n] = "enqueue"
  /\ callback' = IF callback = "absent" THEN "PENDING" ELSE callback
  /\ At(n, "send")
  /\ UNCHANGED <<kind, outboxVars, relay, inboxVars, call, waiting, authored,
                 sent, faults>>

(* The callback cannot be stored; the command stays carried out.           *)
EnqueueFails(n) ==
  /\ request[n] = "enqueue"
  /\ Fault
  /\ At(n, "failed")
  /\ UNCHANGED <<kind, outboxVars, relay, inboxVars, effectVars>>

Send(n) ==
  /\ request[n] = "send"
  /\ sent' = TRUE
  /\ At(n, "mark")
  /\ UNCHANGED <<kind, outboxVars, relay, inboxVars, call, waiting, authored,
                 callback, faults>>

(* The callback, or its answer, is lost, or mark_delivered fails;          *)
(* mark_failed sets the record back to PENDING whatever it was, unless it  *)
(* fails too.                                                              *)
SendFails(n) ==
  /\ request[n] = "send"
  /\ sent' \in {sent, TRUE}
  /\ callback' \in {callback, "PENDING"}
  /\ At(n, "failed")
  /\ UNCHANGED <<kind, outboxVars, relay, inboxVars, call, waiting, authored,
                 faults>>

MarkDelivered(n) ==
  /\ request[n] = "mark"
  /\ callback' = "DELIVERED"
  /\ At(n, "accepted")
  /\ UNCHANGED <<kind, outboxVars, relay, inboxVars, call, waiting, authored,
                 sent, faults>>

SetOutcome(n) ==
  /\ request[n] \in Outcomes
  /\ inbox' = request[n]
  /\ At(n, "over")
  /\ Answer(n, request[n])
  /\ UNCHANGED <<kind, outboxVars, writer, historyVars, effectVars, faults>>

-----------------------------------------------------------------------------
(* AgentOS dies, or an exception leaves the handler, such as the timeout   *)
(* of the call to the control plane.  The call itself goes on.             *)
RequestDies(n) ==
  /\ request[n] \notin {"none", "over"}
  /\ Fault
  /\ Rollback(n)
  /\ orphaned' = IF request[n] \in {"schedule", "commit"}
                 THEN orphaned \cup {n} ELSE orphaned
  /\ abandoned' = IF request[n] = "schedule" THEN abandoned \cup {n} ELSE abandoned
  /\ UNCHANGED <<kind, outboxVars, inbox, effectVars>>

RelayStep(n) == Complete(n) \/ Fail(n)

RequestStep(n) ==
  \/ Record(n) \/ Schedule(n) \/ Commit(n)
  \/ \E outcome \in {"refused", "rejected"} : Refuse(n, outcome)
  \/ RecordFounder(n) \/ RejectCommand(n) \/ Author(n) \/ Enqueue(n)
  \/ Send(n) \/ SendFails(n) \/ MarkDelivered(n) \/ SetOutcome(n)

CallStep(n) == Lookup(n) \/ Insert(n) \/ InsertRejected(n)

FaultStep(n) ==
  \/ CompleteReplyLost(n) \/ RelayDies(n) \/ ReplyLost(n)
  \/ EnqueueFails(n) \/ RequestDies(n)

Next ==
  \/ Append \/ Claim \/ Lapse \/ RetryOutbox \/ Prune \/ TaskTaken
  \/ \E n \in Deliveries :
       RelayStep(n) \/ RequestStep(n) \/ CallStep(n) \/ FaultStep(n)

Spec == Init /\ [][Next]_vars

(***************************************************************************)
(* The cron ticks every minute, time passes, relays and requests that do   *)
(* not die go on, and the control plane answers.                           *)
(***************************************************************************)
FairSpec ==
  /\ Spec
  /\ WF_vars(Claim) /\ WF_vars(Lapse)
  /\ \A n \in Deliveries :
       WF_vars(RelayStep(n)) /\ WF_vars(RequestStep(n)) /\ WF_vars(CallStep(n))

-----------------------------------------------------------------------------
(***************************************************************************)
(* The rows and the deliveries keep their types.                           *)
(***************************************************************************)
TypeOK ==
  /\ kind \in EventKinds
  /\ status \in RowStatuses /\ attempts \in Nat
  /\ token \in 0 .. MaxClaims /\ lapsed \in BOOLEAN
  /\ claims \in 0 .. MaxClaims
  /\ relay \in [Deliveries -> RelayPhases]
  /\ request \in [Deliveries -> RequestPhases]
  /\ inbox \in {"absent", "pending"} \cup Outcomes
  /\ writer \in 0 .. MaxClaims
  /\ call \in [Deliveries -> CallPhases] /\ waiting \in BOOLEAN
  /\ authored \in Nat /\ callback \in {"absent", "PENDING", "DELIVERED"}
  /\ sent \in BOOLEAN
  /\ faults \in 0 .. MaxFaults /\ retries \in 0 .. MaxRetries
  /\ reclaims \in Nat /\ undone \in BOOLEAN
  /\ orphaned \subseteq Deliveries /\ abandoned \subseteq Deliveries

(***************************************************************************)
(* A founder's command is carried out at most once, however often it is    *)
(* delivered and wherever AgentOS dies (handle_event,                      *)
(* replay_founder_asset_callback).                                         *)
(***************************************************************************)
AuthoredOnce == authored <= 1

(***************************************************************************)
(* An event that matches a rule starts one task, however often it is       *)
(* delivered and wherever AgentOS dies between two calls: what the inbox   *)
(* forgets in a rollback, the key of the task remembers.  Only a request   *)
(* that ends, by a crash or by the 5 s timeout of its client, while its    *)
(* call is still open in the control plane may add a task: it frees the    *)
(* inbox row, and the call of the redelivery overlaps its own.             *)
(***************************************************************************)
TriggerTaskOnce ==
  kind = "trigger" => \A n, m \in Scheduled \ abandoned : n = m

(***************************************************************************)
(* Any other event starts one task, and one more for each request that     *)
(* ended after it had called ("1 signed event -> 1 scheduled attempt" in   *)
(* router.py holds but for those).                                         *)
(***************************************************************************)
PlatformTaskOnce == \A n, m \in Scheduled \ orphaned : n = m

(* The event has done what it stands for, or a rule or policy refused it.  *)
Handled ==
  IF kind = "founder"
  THEN sent /\ authored = 1
  ELSE inbox = "refused" \/ (inbox = "accepted" /\ Scheduled # {})

(* A delivery was rejected, which the outbox takes for a failure, and the  *)
(* next one was told "duplicate", which it takes for an answer.            *)
RejectedTwice == kind # "founder" /\ inbox = "rejected" /\ claims > 1

(***************************************************************************)
(* The outbox is not told "delivered" too early: the event has a committed *)
(* inbox row, and the task it stands for or the founder's callback exists. *)
(* The one exception is an event with an invalid payload, whose second     *)
(* delivery handle_event answers with "duplicate" (router.py:295).         *)
(***************************************************************************)
DeliveredMeansHandled ==
  status \in {"delivered", "pruned"} => Handled \/ RejectedTwice

(***************************************************************************)
(* attempt_count exceeds max_attempts only by claims that took over a      *)
(* lapsed one, which failOutboxEvent never saw.                            *)
(***************************************************************************)
AttemptsBounded == attempts <= MaxAttempts + reclaims

(***************************************************************************)
(* A delivered event is not delivered again: a relay that comes late does  *)
(* not reopen what another one completed, unless a completion's own reply  *)
(* was lost (failOutboxEvent compares the token, not the status).          *)
(***************************************************************************)
DeliveredFinal ==
  [][status = "delivered" /\ ~undone
       => status' \in {"delivered", "pruned"}]_vars

(***************************************************************************)
(* Every event ends: it is delivered, or dead for an operator to see.      *)
(***************************************************************************)
EventSettles ==
  status \in {"pending", "claimed"}
    ~> status \in {"delivered", "dead", "pruned"}
-----------------------------------------------------------------------------
(***************************************************************************)
(* The inductive invariant behind the safety properties.                   *)
(***************************************************************************)
(* Deliveries that were not started have no relay and no request.          *)
Unstarted ==
  \A n \in Deliveries : n > claims => relay[n] = "none" /\ request[n] = "none"

(* A row that waits for a claim has attempts left.                         *)
AttemptsLeft ==
  status \in {"absent", "pending"} => attempts < MaxAttempts + reclaims

(* The relay that completed the row has nothing more to say about it.      *)
CompleterOver ==
  status = "delivered" /\ ~undone =>
    token \in Deliveries /\ relay[token] = "over"

(* A request from decide to commit holds the uncommitted inbox row.        *)
OpenTransaction ==
  \A n \in Deliveries :
    request[n] \in {"decide", "schedule", "commit"} =>
      /\ kind # "founder" /\ writer = n /\ inbox = "absent"
      /\ request[n] = "commit" => Scheduled # {}

(* A request calls once; the call is waited for as long as it is open,     *)
(* unless it is abandoned.                                                 *)
CallsAwaited ==
  /\ abandoned \subseteq orphaned
  /\ \A n \in Deliveries :
       /\ request[n] \in {"none", "sent", "decide"} => call[n] = "none"
       /\ call[n] \in OpenCall => request[n] = "schedule" \/ n \in abandoned

(* A task is of a request that ended early, of the one about to commit, or *)
(* of the one that committed.                                              *)
TasksOwned ==
  /\ waiting => Scheduled # {}
  /\ \A n \in Scheduled \ orphaned : inbox # "absent" \/ request[n] = "commit"

(* Whoever found no task of a rule's key, and still waits, is the first.   *)
FirstToMiss ==
  kind = "trigger" =>
    \A n \in Deliveries \ abandoned :
      call[n] = "missed" => Scheduled \subseteq abandoned

(* How far a founder's command has come, by the phase of its requests.     *)
CommandProgress ==
  /\ kind = "founder" /\ inbox = "absent" => authored = 0
  /\ callback # "absent" => authored = 1
  /\ callback = "DELIVERED" => sent
  /\ \A n \in Deliveries :
       /\ request[n] \in {"author", "enqueue", "send", "mark"} \cup Outcomes =>
            kind = "founder" /\ inbox # "absent" /\ request[n] # "refused"
       /\ request[n] = "author" =>
            authored = 0 /\ \A m \in Deliveries \ {n} : request[m] # "author"
       /\ request[n] \in {"enqueue", "send", "mark", "accepted"} => authored = 1
       /\ request[n] \in {"mark", "accepted"} => sent

(* What AgentOS has answered for is handled, and a rejection is the answer *)
(* of a request that is over.                                              *)
AnswersHandled ==
  /\ kind # "founder" /\ inbox # "absent" => Handled \/ inbox = "rejected"
  /\ kind # "founder" /\ inbox = "rejected" =>
       \E n \in Deliveries : n <= claims /\ request[n] = "over"
  /\ \A n \in Deliveries : relay[n] = "ok" => Handled \/ RejectedTwice

IndInv ==
  /\ TypeOK /\ Unstarted /\ AttemptsLeft /\ AttemptsBounded /\ CompleterOver
  /\ OpenTransaction /\ CallsAwaited /\ TasksOwned /\ FirstToMiss
  /\ PlatformTaskOnce /\ TriggerTaskOnce
  /\ CommandProgress /\ AuthoredOnce /\ AnswersHandled /\ DeliveredMeansHandled
=============================================================================
