-------------------------- MODULE CapabilityGateway --------------------------
(***************************************************************************)
(* CapabilityGateway.execute (packages/agent/capabilities/gateway.py) for  *)
(* the calls that share one idempotency claim: one run, one capability and *)
(* one payload.  Every await of the pipeline is a step of its own, because *)
(* other workers run the same pipeline against the same tables.            *)
(*                                                                         *)
(* A call carries a tool_call_id.  It is new in most calls; it comes back  *)
(* when an approved call is resumed, and when a caller repeats a call (a   *)
(* run that is executed again by another worker).                          *)
(*                                                                         *)
(* The checks before the claim that only return an error (unknown          *)
(* capability, tenancy, schema, readiness) change nothing and are left     *)
(* out, as are the audit events, except that writing one may fail.         *)
(***************************************************************************)
EXTENDS Integers

CONSTANTS
  Workers,     \* processes that call execute
  ToolCalls,   \* tool_call ids
  Ckpts,       \* non-empty checkpoint_ref values
  CkptOf,      \* tool call -> the checkpoint_ref it is submitted with
  Settings,    \* how the capability may be registered, and the bounds of a behaviour
  None         \* no row, no value, an empty checkpoint_ref

ASSUME GatewayAssumption ==
  /\ None \notin ToolCalls \cup Ckpts
  /\ CkptOf \in [ToolCalls -> Ckpts \cup {None}]
  /\ \A s \in Settings : /\ s.submits \subseteq ToolCalls
                         /\ s.repeats \in Nat
                         /\ s.faults \in Nat

VARIABLES
  setting,   \* risk and approval_policy of the capability; the tool calls submitted,
             \* the bound on repeated calls, the bound on crashes and failed writes
  claim,     \* the row of agent.idempotency_claims
  ledger,    \* tool call -> status in agent.run_tool_calls
  gov,       \* tool call -> accumulated outcome
  history,   \* tool call -> observations in invocation_governance_history
  approval,  \* tool call -> its row of agent.approvals
  call,      \* worker -> the call it executes
  effects,   \* tool call -> how often its handler returned
  begun,     \* tool calls that were submitted
  repeats,   \* number of repeated calls
  overlapped, \* whether a tool call was ever executed by two workers at a time
  faults,    \* number of crashes and failed writes
  lapsed     \* whether a fault came between a handler's return and the claim's completion

rows == <<claim, ledger, gov, history, approval>>
callers == <<begun, repeats, overlapped>>
failures == <<faults, lapsed>>
vars == <<setting, rows, call, effects, callers, failures>>

-----------------------------------------------------------------------------
(* Governance outcomes.                                                    *)

PolicyOutcome == {"ALLOW", "REQUIRE_APPROVAL", "DENY", "NON_APPROVABLE"}

Rank(o) == CASE o = "ALLOW" -> 0
             [] o = "REQUIRE_APPROVAL" -> 1
             [] o = "DENY" -> 2
             [] o = "NON_APPROVABLE" -> 3

capability_floor ==
  IF setting.approval_policy = "always" \/ setting.risk \in {"high", "critical"}
    THEN "REQUIRE_APPROVAL" ELSE "ALLOW"

conjoin(a, b) ==
  IF {a, b} \cap {"DENY", "NON_APPROVABLE"} # {} THEN "DENY"
  ELSE IF "REQUIRE_APPROVAL" \in {a, b} THEN "REQUIRE_APPROVAL"
  ELSE "ALLOW"

combine_decisions(a, b) == IF Rank(a) >= Rank(b) THEN a ELSE b

(* Mutant: the accumulator starts again on every call. *)
accumulate_Forgets(g, d) == d

accumulate(g, d) == IF g = None THEN d ELSE combine_decisions(g, d)

-----------------------------------------------------------------------------

ClaimRow == [status : {"running", "completed", "failed"}, tc : ToolCalls]

LedgerStatus == {"running", "waiting_approval", "denied", "completed", "failed"}

ASSUME NoneIsNoRow == None \notin ClaimRow
ASSUME NoneIsNoStatus == None \notin LedgerStatus
ASSUME NoneIsNoOutcome == None \notin PolicyOutcome

ApprovalRow == [status : {"pending", "approved", "denied"}, ckpt : Ckpts \cup {None}]

Before == {"start", "select", "retry", "refresh"}
Holding == {"claimed", "govern", "gate", "create", "park", "checks", "record",
            "settle", "audit", "except", "deny", "release"}

Call == [at : Before \cup Holding, tc : ToolCalls, ckpt : Ckpts \cup {None},
         dec : PolicyOutcome \cup {None}, eff : PolicyOutcome \cup {None}]

ASSUME NoneIsNoCall == None \notin Call

TypeOK ==
  /\ setting \in Settings
  /\ claim \in ClaimRow \cup {None}
  /\ ledger \in [ToolCalls -> LedgerStatus \cup {None}]
  /\ gov \in [ToolCalls -> PolicyOutcome \cup {None}]
  /\ history \in [ToolCalls -> SUBSET PolicyOutcome]
  /\ approval \in [ToolCalls -> ApprovalRow \cup {None}]
  /\ call \in [Workers -> Call \cup {None}]
  /\ effects \in [ToolCalls -> Nat]
  /\ begun \subseteq ToolCalls
  /\ repeats \in 0..setting.repeats
  /\ overlapped \in BOOLEAN
  /\ faults \in 0..setting.faults
  /\ lapsed \in BOOLEAN

Init ==
  /\ setting \in Settings
  /\ claim = None
  /\ ledger = [c \in ToolCalls |-> None]
  /\ gov = [c \in ToolCalls |-> None]
  /\ history = [c \in ToolCalls |-> {}]
  /\ approval = [c \in ToolCalls |-> None]
  /\ call = [w \in Workers |-> None]
  /\ effects = [c \in ToolCalls |-> 0]
  /\ begun = {}
  /\ repeats = 0
  /\ overlapped = FALSE
  /\ faults = 0
  /\ lapsed = FALSE

At(w, phase) == call[w] # None /\ call[w].at = phase

Go(w, phase) == call' = [call EXCEPT ![w].at = phase]

Return(w) == call' = [call EXCEPT ![w] = None]

Status(c, s) == ledger' = [ledger EXCEPT ![c] = s]

InProgress(c) == \E w \in Workers : call[w] # None /\ call[w].tc = c

-----------------------------------------------------------------------------
(* The callers.                                                            *)

Execute(w, c, k) ==
  /\ call[w] = None
  /\ call' = [call EXCEPT ![w] = [at |-> "start", tc |-> c, ckpt |-> k,
                                  dec |-> None, eff |-> None]]
  /\ begun' = begun \cup {c}
  /\ overlapped' = (overlapped \/ InProgress(c))
  /\ UNCHANGED <<setting, rows, effects, failures>>

Submit(w, c) ==
  /\ c \in setting.submits \ begun
  /\ Execute(w, c, CkptOf[c])
  /\ UNCHANGED repeats

(***************************************************************************)
(* approval.decided resumes the call that waits, with the checkpoint the   *)
(* approval names.                                                         *)
(***************************************************************************)
Awaited(c) ==
  /\ ledger[c] = "waiting_approval"
  /\ approval[c] # None
  /\ approval[c].status = "approved"
  /\ ~InProgress(c)

Resume(w, c) ==
  /\ Awaited(c)
  /\ Execute(w, c, approval[c].ckpt)
  /\ UNCHANGED repeats

Repeat(w, c, k) ==
  /\ c \in begun
  /\ repeats < setting.repeats
  /\ repeats' = repeats + 1
  /\ Execute(w, c, k)

(***************************************************************************)
(* decide_approval: compare-and-set on 'pending'.                          *)
(***************************************************************************)
Decide(c, approved) ==
  /\ approval[c] # None
  /\ approval[c].status = "pending"
  /\ approval' = [approval EXCEPT ![c].status = IF approved THEN "approved" ELSE "denied"]
  /\ UNCHANGED <<setting, claim, ledger, gov, history, call, effects, callers, failures>>

-----------------------------------------------------------------------------
(* The claim (IdempotencyClaimService.try_claim).                          *)

(***************************************************************************)
(* The capability is not enabled here: recorded, and no claim is taken.    *)
(***************************************************************************)
NotEnabled(w) ==
  /\ At(w, "start")
  /\ Status(call[w].tc, "denied")
  /\ Return(w)
  /\ UNCHANGED <<setting, claim, gov, history, approval, effects, callers, failures>>

(***************************************************************************)
(* INSERT ... ON CONFLICT DO NOTHING.                                      *)
(***************************************************************************)
claim_idempotency(w) ==
  /\ At(w, "start")
  /\ IF claim = None
       THEN claim' = [status |-> "running", tc |-> call[w].tc] /\ Go(w, "claimed")
       ELSE UNCHANGED claim /\ Go(w, "select")
  /\ UNCHANGED <<setting, ledger, gov, history, approval, effects, callers, failures>>

Ours(w) == claim.tc = call[w].tc

Select(w) ==
  /\ At(w, "select")
  /\ \/ claim.status = "completed" /\ Return(w)
     \/ claim.status = "failed" /\ Go(w, "retry")
     \/ claim.status = "running" /\ IF Ours(w) THEN Go(w, "claimed") ELSE Return(w)
  /\ UNCHANGED <<setting, rows, effects, callers, failures>>

(* Mutant: the retry does not compare the status. *)
Retriable_Always == TRUE

Retriable == claim.status = "failed"

(***************************************************************************)
(* retry_idempotency_claim: compare-and-set on 'failed'; the row keeps the *)
(* tool call that inserted it.                                             *)
(***************************************************************************)
retry_idempotency_claim(w) ==
  /\ At(w, "retry")
  /\ IF Retriable
       THEN claim' = [claim EXCEPT !.status = "running"] /\ Go(w, "claimed")
       ELSE UNCHANGED claim /\ Go(w, "refresh")
  /\ UNCHANGED <<setting, ledger, gov, history, approval, effects, callers, failures>>

(***************************************************************************)
(* After a lost retry the row is read again, whatever its status is now.   *)
(***************************************************************************)
Refresh(w) ==
  /\ At(w, "refresh")
  /\ IF Ours(w) THEN Go(w, "claimed") ELSE Return(w)
  /\ UNCHANGED <<setting, rows, effects, callers, failures>>

-----------------------------------------------------------------------------
(* Policy, governance and approval.                                        *)

(***************************************************************************)
(* The tool call is saved as running, and the deployment turns out to be   *)
(* suspended or not approved (ComplianceAuditor).                          *)
(***************************************************************************)
NotCompliant(w) ==
  /\ At(w, "claimed")
  /\ Status(call[w].tc, "running")
  /\ Go(w, "deny")
  /\ UNCHANGED <<setting, claim, gov, history, approval, effects, callers, failures>>

(***************************************************************************)
(* The tool call is saved as running, the tenant's policy answers o (None  *)
(* without a policy evaluator), and the governance state is loaded.        *)
(***************************************************************************)
Evaluate(w, o) ==
  /\ At(w, "claimed")
  /\ Status(call[w].tc, "running")
  /\ LET d == conjoin(capability_floor, IF o = None THEN "ALLOW" ELSE o)
     IN  call' = [call EXCEPT ![w].at = "govern", ![w].dec = d,
                              ![w].eff = accumulate(gov[call[w].tc], d)]
  /\ UNCHANGED <<setting, claim, gov, history, approval, effects, callers, failures>>

save_governance_state(w) ==
  /\ At(w, "govern")
  /\ gov' = [gov EXCEPT ![call[w].tc] = call[w].eff]
  /\ history' = [history EXCEPT ![call[w].tc] = @ \cup {call[w].dec}]
  /\ Go(w, "gate")
  /\ UNCHANGED <<setting, claim, ledger, approval, effects, callers, failures>>

Mismatch(w) ==
  /\ approval[call[w].tc] # None
  /\ None \notin {call[w].ckpt, approval[call[w].tc].ckpt}
  /\ approval[call[w].tc].ckpt # call[w].ckpt

(* Mutant: any decision on the approval lets the call through. *)
Approved_Decided(w) ==
  approval[call[w].tc] # None /\ approval[call[w].tc].status # "pending" /\ ~Mismatch(w)

Approved(w) ==
  approval[call[w].tc] # None /\ approval[call[w].tc].status = "approved" /\ ~Mismatch(w)

ApprovalGate(w) ==
  /\ At(w, "gate")
  /\ CASE call[w].eff = "REQUIRE_APPROVAL" /\ ~Approved(w) ->
            Go(w, IF approval[call[w].tc] = None \/ Mismatch(w) THEN "create" ELSE "park")
       [] call[w].eff = "DENY" -> Go(w, "deny")
       [] OTHER -> Go(w, "checks")
  /\ UNCHANGED <<setting, rows, effects, callers, failures>>

(***************************************************************************)
(* INSERT ... ON CONFLICT (approval_id) DO NOTHING; the id is made of the  *)
(* run and the tool call.                                                  *)
(***************************************************************************)
create_approval(w) ==
  /\ At(w, "create")
  /\ approval' = IF approval[call[w].tc] # None
                   THEN approval
                   ELSE [approval EXCEPT ![call[w].tc] =
                           [status |-> "pending", ckpt |-> call[w].ckpt]]
  /\ Go(w, "park")
  /\ UNCHANGED <<setting, claim, ledger, gov, history, effects, callers, failures>>

(* Mutant: a status the ledger does not know. *)
Park_Unknown(w) ==
  /\ At(w, "park")
  /\ Status(call[w].tc, "pending")
  /\ Return(w)
  /\ UNCHANGED <<setting, claim, gov, history, approval, effects, callers, failures>>

(***************************************************************************)
(* The call returns waiting_approval; its claim stays 'running'.           *)
(***************************************************************************)
Park(w) ==
  /\ At(w, "park")
  /\ Status(call[w].tc, "waiting_approval")
  /\ Return(w)
  /\ UNCHANGED <<setting, claim, gov, history, approval, effects, callers, failures>>

(***************************************************************************)
(* Connector grant, ambient governance or live authorization, asked again  *)
(* on every call, refuses.                                                 *)
(***************************************************************************)
RecheckFails(w) ==
  /\ At(w, "checks")
  /\ Go(w, "deny")
  /\ UNCHANGED <<setting, rows, effects, callers, failures>>

-----------------------------------------------------------------------------
(* The handler and what follows it.                                        *)

Handle(w) ==
  /\ At(w, "checks")
  /\ effects' = [effects EXCEPT ![call[w].tc] = @ + 1]
  /\ Go(w, "record")
  /\ UNCHANGED <<setting, rows, callers, failures>>

HandlerRaises(w) ==
  /\ At(w, "checks")
  /\ Go(w, "except")
  /\ UNCHANGED <<setting, rows, effects, callers, failures>>

SaveCompleted(w) ==
  /\ At(w, "record")
  /\ Status(call[w].tc, "completed")
  /\ Go(w, "settle")
  /\ UNCHANGED <<setting, claim, gov, history, approval, effects, callers, failures>>

complete_idempotency_claim(w) ==
  /\ At(w, "settle")
  /\ claim' = [claim EXCEPT !.status = "completed"]
  /\ Go(w, "audit")
  /\ UNCHANGED <<setting, ledger, gov, history, approval, effects, callers, failures>>

AppendCompleted(w) ==
  /\ At(w, "audit")
  /\ Return(w)
  /\ UNCHANGED <<setting, rows, effects, callers, failures>>

(***************************************************************************)
(* The try block spans the three writes after the handler as well.         *)
(***************************************************************************)
WriteFails(w) ==
  /\ call[w] # None
  /\ call[w].at \in {"record", "settle", "audit"}
  /\ faults < setting.faults
  /\ faults' = faults + 1
  /\ lapsed' = TRUE
  /\ Go(w, "except")
  /\ UNCHANGED <<setting, rows, effects, callers>>

SaveFailed(w) ==
  /\ At(w, "except")
  /\ Status(call[w].tc, "failed")
  /\ Go(w, "release")
  /\ UNCHANGED <<setting, claim, gov, history, approval, effects, callers, failures>>

SaveDenied(w) ==
  /\ At(w, "deny")
  /\ Status(call[w].tc, "denied")
  /\ Go(w, "release")
  /\ UNCHANGED <<setting, claim, gov, history, approval, effects, callers, failures>>

(* Mutant: the release completes the claim. *)
fail_idempotency_claim_Completes(w) ==
  /\ At(w, "release")
  /\ claim' = [claim EXCEPT !.status = "completed"]
  /\ Return(w)
  /\ UNCHANGED <<setting, ledger, gov, history, approval, effects, callers, failures>>

fail_idempotency_claim(w) ==
  /\ At(w, "release")
  /\ claim' = [claim EXCEPT !.status = "failed"]
  /\ Return(w)
  /\ UNCHANGED <<setting, ledger, gov, history, approval, effects, callers, failures>>

(***************************************************************************)
(* The process dies, the call is cancelled, or an await outside the try    *)
(* block raises: what is stored stays as it is.  Before the claim that     *)
(* leaves no trace.                                                        *)
(***************************************************************************)
Crash(w) ==
  /\ call[w] # None
  /\ call[w].at \in Holding
  /\ faults < setting.faults
  /\ faults' = faults + 1
  /\ lapsed' = (lapsed \/ call[w].at \in {"record", "settle"})
  /\ Return(w)
  /\ UNCHANGED <<setting, rows, effects, callers>>

-----------------------------------------------------------------------------

Step(w) ==
  \/ NotEnabled(w) \/ claim_idempotency(w) \/ Select(w)
  \/ retry_idempotency_claim(w) \/ Refresh(w)
  \/ NotCompliant(w)
  \/ \E o \in PolicyOutcome \cup {None} : Evaluate(w, o)
  \/ save_governance_state(w) \/ ApprovalGate(w) \/ create_approval(w) \/ Park(w)
  \/ RecheckFails(w) \/ Handle(w) \/ HandlerRaises(w)
  \/ SaveCompleted(w) \/ complete_idempotency_claim(w) \/ AppendCompleted(w)
  \/ SaveFailed(w) \/ SaveDenied(w) \/ fail_idempotency_claim(w)

Next ==
  \/ \E w \in Workers :
       \/ Step(w) \/ WriteFails(w) \/ Crash(w)
       \/ \E c \in ToolCalls : Submit(w, c) \/ Resume(w, c)
       \/ \E c \in ToolCalls, k \in Ckpts : Repeat(w, c, k)
  \/ \E c \in ToolCalls, approved \in BOOLEAN : Decide(c, approved)

Spec == Init /\ [][Next]_vars

-----------------------------------------------------------------------------
(* Properties.                                                             *)

(***************************************************************************)
(* "Exactly one worker wins the claim" and a finished call is answered     *)
(* from the cache: whatever calls race, are denied, retried, parked and    *)
(* resumed, the capability's handler returns once, as long as no tool call *)
(* is submitted twice, no write after the handler fails, and no worker     *)
(* dies between the handler and the completion of the claim.               *)
(***************************************************************************)
Once ==
  /\ \A c \in ToolCalls : effects[c] <= 1
  /\ \A c, d \in ToolCalls : effects[c] > 0 /\ effects[d] > 0 => c = d

SideEffectOnce == repeats = 0 /\ ~lapsed => Once

(***************************************************************************)
(* The same with failing writes.                                           *)
(***************************************************************************)
SideEffectOnceDespiteFaults == repeats = 0 => Once

(***************************************************************************)
(* A claim is answered from the cache, and a tool call reported completed, *)
(* only if a handler returned; this holds with crashes, failing writes and *)
(* repeated calls.                                                         *)
(***************************************************************************)
CompletedMeansRan ==
  /\ claim # None /\ claim.status = "completed" => \E c \in ToolCalls : effects[c] > 0
  /\ \A c \in ToolCalls : ledger[c] = "completed" => effects[c] > 0

(***************************************************************************)
(* When a handler is about to run, no decision ever taken for the tool     *)
(* call denied it, and if one of them or the capability's floor required   *)
(* an approval, the approval was given, for this checkpoint; as long as no *)
(* two workers execute the same tool call at a time.                       *)
(***************************************************************************)
ApprovalHonoured ==
  ~overlapped =>
    \A w \in Workers : At(w, "checks") =>
      LET c == call[w].tc
      IN  /\ history[c] \cap {"DENY", "NON_APPROVABLE"} = {}
          /\ "REQUIRE_APPROVAL" \in history[c] \cup {capability_floor} =>
               approval[c] # None /\ approval[c].status = "approved" /\ ~Mismatch(w)

(***************************************************************************)
(* The stored governance state of a tool call is the strictest of all the  *)
(* decisions recorded for it, across resumes, crashes and repeated calls   *)
(* that do not overlap.                                                    *)
(***************************************************************************)
GovernanceMonotone ==
  ~overlapped =>
    \A c \in ToolCalls : gov[c] # None =>
      gov[c] \in history[c] /\ \A d \in history[c] : Rank(d) <= Rank(gov[c])

(***************************************************************************)
(* The inductive invariant behind CompletedMeansRan: only a call that has  *)
(* not tried to claim yet can find no row, a call past its handler has an  *)
(* effect to show for it, and a call that saves its decision has taken one.*)
(***************************************************************************)
RowPresent == \A w \in Workers : call[w] # None /\ call[w].at # "start" => claim # None

Past == {"record", "settle", "audit"}

Returned ==
  \A w \in Workers : call[w] # None /\ call[w].at \in Past => effects[call[w].tc] > 0

Decided ==
  \A w \in Workers : At(w, "govern") => call[w].dec \in PolicyOutcome

GatewayInv == TypeOK /\ RowPresent /\ Returned /\ Decided /\ CompletedMeansRan

(***************************************************************************)
(* The inductive invariant behind ApprovalHonoured and GovernanceMonotone. *)
(* A decision is at least the capability's floor and never NON_APPROVABLE; *)
(* as long as calls do not overlap, a call that decided works with the     *)
(* governance state that is stored, and one that passed the gate was       *)
(* allowed or is approved.                                                 *)
(***************************************************************************)
Alone ==
  \A w, v \in Workers :
    call[w] # None /\ call[v] # None /\ call[w].tc = call[v].tc => w = v

Sound(d) == d \in {"ALLOW", "REQUIRE_APPROVAL", "DENY"} /\ Rank(capability_floor) <= Rank(d)

SoundDecisions ==
  /\ \A c \in ToolCalls : \A d \in history[c] : Sound(d)
  /\ \A w \in Workers : At(w, "govern") => Sound(call[w].dec)

Strictest ==
  \A c \in ToolCalls :
    IF gov[c] = None THEN history[c] = {}
    ELSE gov[c] \in history[c] /\ \A d \in history[c] : Rank(d) <= Rank(gov[c])

Current ==
  \A w \in Workers :
    /\ At(w, "govern") => call[w].eff = accumulate(gov[call[w].tc], call[w].dec)
    /\ At(w, "gate") \/ At(w, "checks") =>
         gov[call[w].tc] # None /\ call[w].eff = gov[call[w].tc]
    /\ At(w, "checks") =>
         call[w].eff = "ALLOW" \/ (call[w].eff = "REQUIRE_APPROVAL" /\ Approved(w))

GovernanceInv == SoundDecisions /\ (~overlapped => Alone /\ Strictest /\ Current)

(***************************************************************************)
(* The inductive invariant behind SideEffectOnce.  Without a repeated call *)
(* at most one call holds the claim.  A claim that failed was released by  *)
(* the call that inserted it, which is then over for good, so no later     *)
(* call takes the row for its own; and a claim that is running after a     *)
(* handler returned still has the call that will complete it.              *)
(***************************************************************************)
Holds(w) == call[w] # None /\ call[w].at \in Holding

Gone(c) == c \in begun /\ ~InProgress(c) /\ ledger[c] # "waiting_approval"

NoEffects == \A c \in ToolCalls : effects[c] = 0

AllBegun ==
  /\ \A w \in Workers : call[w] # None => call[w].tc \in begun
  /\ claim # None => claim.tc \in begun

OneHolder == \A w, v \in Workers : Holds(w) /\ Holds(v) => w = v

HolderState ==
  \A w \in Workers : Holds(w) =>
    /\ claim.status = IF call[w].at = "audit" THEN "completed" ELSE "running"
    /\ call[w].at \notin Past => NoEffects
    /\ call[w].tc # claim.tc => Gone(claim.tc)
    /\ call[w].at = "release" => ledger[call[w].tc] \in {"denied", "failed"}

Retrying ==
  \A w \in Workers :
    call[w] # None /\ call[w].at \in {"retry", "refresh"} => call[w].tc # claim.tc

FailedIsFree ==
  claim # None /\ claim.status = "failed" => NoEffects /\ Gone(claim.tc)

EffectsKept ==
  NoEffects \/ ( /\ claim # None
                 /\ \/ claim.status = "completed"
                    \/ \E w \in Workers : At(w, "record") \/ At(w, "settle"))

OnceFacts ==
  /\ Alone /\ AllBegun /\ OneHolder /\ HolderState
  /\ Retrying /\ FailedIsFree /\ EffectsKept /\ Once

OnceInv == repeats = 0 /\ ~lapsed => OnceFacts
=============================================================================
