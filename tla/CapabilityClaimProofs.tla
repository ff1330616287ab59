------------------------ MODULE CapabilityClaimProofs ------------------------
(***************************************************************************)
(* The idempotency claim keeps a handler from returning twice, for any     *)
(* workers, tool calls, approvals and crashes.                             *)
(***************************************************************************)
EXTENDS CapabilityGatewayProofs

(***************************************************************************)
(* A call that moves is still a call.                                      *)
(***************************************************************************)
LEMMA GoIsCall ==
  ASSUME TypeOK, NEW w \in Workers, call[w] # None, NEW p \in Phases, Go(w, p)
  PROVE  call'[w] # None /\ call'[w].at = p /\ call'[w].tc = call[w].tc
<1>1. call[w] \in Call
  BY DEF TypeOK
<1>2. [call[w] EXCEPT !.at = p] \in Call
  BY <1>1 DEF Call, Phases
<1>3. call'[w] = [call[w] EXCEPT !.at = p]
  BY DEF TypeOK, Go
<1> QED BY <1>1, <1>2, <1>3, NoneIsNoCall, GoMoves

(***************************************************************************)
(* A step of w touches no other call, and the ledger only at w's own tool  *)
(* call.                                                                   *)
(***************************************************************************)
OwnStep(w) ==
  /\ \A v \in Workers \ {w} : call'[v] = call[v]
  /\ \A c \in ToolCalls : c # call[w].tc => ledger'[c] = ledger[c]
  /\ UNCHANGED begun

(***************************************************************************)
(* A tool call that is over stays over while other calls make steps.       *)
(***************************************************************************)
LEMMA GoneStays ==
  ASSUME GatewayInv, NEW w \in Workers, call[w] # None, OwnStep(w),
         call'[w] # None => call'[w].tc = call[w].tc,
         NEW c \in ToolCalls, Gone(c)
  PROVE  c # call[w].tc /\ Gone(c)'
<1>1. c # call[w].tc
  BY DEF Gone, InProgress
<1> QED BY <1>1 DEF Gone, InProgress, OwnStep

(***************************************************************************)
(* A call that returns without completing or releasing the claim.          *)
(***************************************************************************)
LEMMA LeaveOnce ==
  ASSUME GatewayInv, OnceFacts, NEW w \in Workers, call[w] # None,
         call[w].at \notin {"record", "settle"},
         OwnStep(w), call'[w] = None, UNCHANGED <<claim, effects>>
  PROVE  OnceFacts'
<1>0. claim # None => claim.tc \in ToolCalls
  BY DEF GatewayInv, TypeOK, ClaimRow
<1>1. Alone' /\ AllBegun' /\ OneHolder' /\ Once'
  BY DEF OnceFacts, OwnStep, Alone, AllBegun, OneHolder, Holds, Once
<1>2. HolderState'
  <2> SUFFICES ASSUME NEW v \in Workers, Holds(v)'
               PROVE  /\ Holds(v) /\ call'[v] = call[v] /\ ledger'[call[v].tc] = ledger[call[v].tc]
                      /\ Gone(claim.tc) => Gone(claim.tc)'
    BY DEF OnceFacts, HolderState, NoEffects
  <2>1. v # w /\ call'[v] = call[v] /\ Holds(v)
    BY DEF Holds, OwnStep
  <2>2. call[v].tc # call[w].tc /\ call[v].tc \in ToolCalls
    BY <2>1 DEF OnceFacts, Alone, Holds, GatewayInv, TypeOK, Call
  <2>3. claim # None
    BY <2>1 DEF Holds, GatewayInv, RowPresent, Holding
  <2>4. Gone(claim.tc) => Gone(claim.tc)'
    BY <1>0, <2>3, GoneStays
  <2> QED BY <2>1, <2>2, <2>4 DEF OwnStep
<1>3. Retrying'
  BY DEF OnceFacts, Retrying, OwnStep
<1>4. FailedIsFree'
  BY <1>0, GoneStays DEF OnceFacts, FailedIsFree, NoEffects
<1>5. EffectsKept'
  BY DEF OnceFacts, EffectsKept, NoEffects, At, OwnStep
<1> QED BY <1>1, <1>2, <1>3, <1>4, <1>5 DEF OnceFacts

(***************************************************************************)
(* A holder of the claim that moves to another phase with the claim and    *)
(* the effects as they are.                                                *)
(***************************************************************************)
LEMMA AdvanceOnce ==
  ASSUME GatewayInv, OnceFacts, NEW w \in Workers, Holds(w), Holds(w)',
         \/ call[w].at \notin Past /\ call'[w].at \notin Past
         \/ call[w].at = "record" /\ call'[w].at = "settle",
         call'[w].tc = call[w].tc,
         call'[w].at = "release" => ledger'[call[w].tc] \in {"denied", "failed"},
         OwnStep(w), UNCHANGED <<claim, effects>>
  PROVE  OnceFacts'
<1>0. claim # None /\ claim.tc \in ToolCalls /\ call[w] # None /\ call'[w] # None
  BY DEF GatewayInv, TypeOK, ClaimRow, RowPresent, Holds, Holding
<1>1. Alone' /\ AllBegun' /\ OneHolder' /\ Once'
  BY DEF OnceFacts, OwnStep, Alone, AllBegun, OneHolder, Holds, Once
<1>2. HolderState'
  <2> SUFFICES ASSUME NEW v \in Workers, Holds(v)'
               PROVE  /\ claim.status = IF call'[v].at = "audit" THEN "completed" ELSE "running"
                      /\ call'[v].at \notin Past => NoEffects
                      /\ call'[v].tc # claim.tc => Gone(claim.tc)'
                      /\ call'[v].at = "release" => ledger'[call'[v].tc] \in {"denied", "failed"}
    BY DEF HolderState, NoEffects
  <2>1. v = w
    BY DEF OnceFacts, OneHolder, Holds, OwnStep
  <2>2. claim.status = "running" /\ call'[w].at # "audit"
    BY DEF OnceFacts, HolderState, Past
  <2>3. call'[w].at \notin Past => NoEffects
    BY DEF OnceFacts, HolderState, Past
  <2>4. call[w].tc # claim.tc => Gone(claim.tc)'
    BY <1>0, GoneStays DEF OnceFacts, HolderState
  <2> QED BY <2>1, <2>2, <2>3, <2>4
<1>3. Retrying'
  BY DEF OnceFacts, Retrying, OwnStep, Holds, Holding
<1>4. FailedIsFree'
  <2>1. claim.status # "failed"
    BY DEF OnceFacts, HolderState
  <2> QED BY <2>1 DEF FailedIsFree
<1>5. EffectsKept'
  <2> SUFFICES ASSUME ~NoEffects, claim.status # "completed"
               PROVE  \E v \in Workers : At(v, "record")' \/ At(v, "settle")'
    BY <1>0 DEF EffectsKept, NoEffects
  <2>1. PICK v \in Workers : At(v, "record") \/ At(v, "settle")
    BY <1>0 DEF OnceFacts, EffectsKept
  <2>2. v = w
    BY <2>1 DEF OnceFacts, OneHolder, Holds, At, Holding
  <2> QED BY <1>0, <2>1, <2>2 DEF At, Past
<1> QED BY <1>1, <1>2, <1>3, <1>4, <1>5 DEF OnceFacts

(***************************************************************************)
(* A call on its way to the claim that has not got it yet.                 *)
(***************************************************************************)
LEMMA ApproachOnce ==
  ASSUME GatewayInv, OnceFacts, NEW w \in Workers, call[w] # None,
         call[w].at \in Before, call'[w].at \in Before, call'[w].tc = call[w].tc,
         call'[w].at \in {"retry", "refresh"} => call[w].tc # claim.tc,
         OwnStep(w), UNCHANGED <<claim, effects, ledger>>
  PROVE  OnceFacts'
<1>0. claim # None => claim.tc \in ToolCalls
  BY DEF GatewayInv, TypeOK, ClaimRow
<1>1. Alone' /\ AllBegun' /\ OneHolder' /\ Once'
  BY DEF OnceFacts, OwnStep, Alone, AllBegun, OneHolder, Holds, Once, Before, Holding
<1>2. HolderState'
  <2> SUFFICES ASSUME NEW v \in Workers, Holds(v)'
               PROVE  Holds(v) /\ call'[v] = call[v] /\ (Gone(claim.tc) => Gone(claim.tc)')
    BY DEF OnceFacts, HolderState, NoEffects
  <2>1. v # w /\ call'[v] = call[v] /\ Holds(v)
    BY DEF Holds, OwnStep, Before, Holding
  <2>2. claim # None
    BY <2>1 DEF Holds, GatewayInv, RowPresent, Holding
  <2> QED BY <1>0, <2>1, <2>2, GoneStays
<1>3. Retrying'
  BY DEF OnceFacts, Retrying, OwnStep
<1>4. FailedIsFree'
  BY <1>0, GoneStays DEF OnceFacts, FailedIsFree, NoEffects
<1>5. EffectsKept'
  BY DEF OnceFacts, EffectsKept, NoEffects, At, OwnStep, Before
<1> QED BY <1>1, <1>2, <1>3, <1>4, <1>5 DEF OnceFacts

(***************************************************************************)
(* A call that gets the claim: nobody holds it, no handler has returned,   *)
(* and if the row names another call, that one is over.                    *)
(***************************************************************************)
LEMMA TakeOnce ==
  ASSUME GatewayInv, OnceFacts, NEW w \in Workers, call[w] # None,
         call'[w] # None, call'[w].at = "claimed", call'[w].tc = call[w].tc,
         OwnStep(w), UNCHANGED <<effects, ledger>>,
         \A v \in Workers : ~Holds(v), NoEffects,
         claim' # None, claim'.status = "running", claim'.tc \in ToolCalls \cap begun,
         claim # None => claim'.tc = claim.tc,
         call[w].tc # claim'.tc => Gone(claim'.tc),
         claim = None => \A v \in Workers \ {w} : call[v] # None => call[v].at = "start"
  PROVE  OnceFacts'
<1>1. Alone' /\ AllBegun' /\ OneHolder' /\ Once'
  BY DEF OnceFacts, OwnStep, Alone, AllBegun, OneHolder, Holds, Once
<1>2. HolderState'
  <2> SUFFICES ASSUME NEW v \in Workers, Holds(v)'
               PROVE  /\ call'[v].at = "claimed"
                      /\ call'[v].tc # claim'.tc => Gone(claim.tc)'
    BY DEF HolderState, NoEffects
  <2>1. v = w
    BY DEF Holds, OwnStep
  <2>2. PICK c \in ToolCalls : c = claim'.tc
    OBVIOUS
  <2>3. call[w].tc # c => Gone(c)'
    BY <2>2, GoneStays
  <2> QED BY <2>1, <2>2, <2>3 DEF Gone, InProgress
<1>3. Retrying'
  BY DEF OnceFacts, Retrying, OwnStep
<1>4. FailedIsFree' /\ EffectsKept'
  BY DEF FailedIsFree, EffectsKept, NoEffects
<1> QED BY <1>1, <1>2, <1>3, <1>4 DEF OnceFacts

(***************************************************************************)
(* What the steps that stay within a phase group share.                    *)
(***************************************************************************)
LEMMA StepIsOwn ==
  ASSUME GatewayInv, NEW w \in Workers, Step(w) \/ WriteFails(w) \/ Crash(w)
  PROVE  call[w] # None /\ OwnStep(w)
<1>1. call[w] # None /\ UNCHANGED begun
  BY DEF Step, NotEnabled, claim_idempotency, Select, retry_idempotency_claim, Refresh,
         NotCompliant, Evaluate, save_governance_state, ApprovalGate, create_approval, Park,
         RecheckFails, Handle, HandlerRaises, SaveCompleted, complete_idempotency_claim,
         AppendCompleted, SaveFailed, SaveDenied, fail_idempotency_claim, WriteFails, Crash,
         At, rows, callers, failures
<1>2. \A v \in Workers \ {w} : call'[v] = call[v]
  BY StepKeeps, FaultKeeps DEF Kept
<1>3. UNCHANGED ledger \/ \E s \in LedgerStatus : Status(call[w].tc, s)
  BY DEF Step, NotEnabled, claim_idempotency, Select, retry_idempotency_claim, Refresh,
         NotCompliant, Evaluate, save_governance_state, ApprovalGate, create_approval, Park,
         RecheckFails, Handle, HandlerRaises, SaveCompleted, complete_idempotency_claim,
         AppendCompleted, SaveFailed, SaveDenied, fail_idempotency_claim, WriteFails, Crash,
         rows, LedgerStatus
<1>4. \A c \in ToolCalls : c # call[w].tc => ledger'[c] = ledger[c]
  BY <1>3 DEF Status, GatewayInv, TypeOK
<1> QED BY <1>1, <1>2, <1>4 DEF OwnStep

(***************************************************************************)
(* A call in the row is running or parked while the row is; if it arrives  *)
(* at its own running claim nobody else holds it and no handler returned.  *)
(***************************************************************************)
LEMMA OursIsFree ==
  ASSUME GatewayInv, OnceFacts, NEW w \in Workers, call[w] # None, call[w].at \in Before,
         claim # None, claim.status = "running", Ours(w)
  PROVE  (\A v \in Workers : ~Holds(v)) /\ NoEffects
<1>1. ASSUME NEW v \in Workers, Holds(v) PROVE FALSE
  <2>1. v # w /\ call[v] # None
    BY <1>1 DEF Holds, Before, Holding
  <2>2. call[v].tc # claim.tc
    BY <2>1 DEF OnceFacts, Alone, Ours
  <2>3. Gone(claim.tc)
    BY <1>1, <2>2 DEF OnceFacts, HolderState
  <2> QED BY <2>3 DEF Gone, InProgress, Ours
<1>2. \A v \in Workers : ~At(v, "record") /\ ~At(v, "settle")
  BY <1>1 DEF Holds, At, Holding
<1>3. NoEffects
  BY <1>2 DEF OnceFacts, EffectsKept
<1> QED BY <1>1, <1>3

(***************************************************************************)
(* try_claim().                                                            *)
(***************************************************************************)
LEMMA ClaimOnce ==
  ASSUME GatewayInv, OnceFacts, NEW w \in Workers,
         \/ NotEnabled(w) \/ claim_idempotency(w) \/ Select(w)
         \/ retry_idempotency_claim(w) \/ Refresh(w)
  PROVE  OnceFacts'
<1> USE NoneIsNoRow, NoneIsNoCall
<1>0. call[w] # None /\ OwnStep(w) /\ TypeOK /\ call[w] \in Call
  BY StepIsOwn DEF Step, GatewayInv, TypeOK
<1>1. CASE NotEnabled(w)
  BY <1>0, <1>1, LeaveOnce, ReturnMoves DEF NotEnabled, At
<1>2. CASE claim_idempotency(w)
  <2>1. CASE claim = None
    <3>1. Go(w, "claimed") /\ "claimed" \in Phases /\ UNCHANGED <<effects, ledger>>
          /\ claim' = [status |-> "running", tc |-> call[w].tc]
      BY <1>2, <2>1 DEF claim_idempotency, Phases, Holding
    <3>2. \A v \in Workers : call[v] # None => call[v].at = "start"
      BY <2>1 DEF GatewayInv, RowPresent
    <3>3. \A v \in Workers : ~Holds(v)
      BY <3>2 DEF Holds, Holding
    <3>4. claim' # None /\ claim'.status = "running" /\ claim'.tc = call[w].tc
          /\ claim'.tc \in ToolCalls \cap begun
      BY <1>0, <3>1 DEF Call, ClaimRow, OnceFacts, AllBegun
    <3>5. NoEffects
      BY <2>1 DEF OnceFacts, EffectsKept
    <3>6. call'[w] # None /\ call'[w].at = "claimed" /\ call'[w].tc = call[w].tc
      BY <1>0, <3>1, GoIsCall
    <3> QED BY <1>0, <2>1, <3>1, <3>2, <3>3, <3>4, <3>5, <3>6, TakeOnce
  <2>2. CASE claim # None
    <3>1. Go(w, "select") /\ "select" \in Phases \cap Before /\ call[w].at \in Before
          /\ UNCHANGED <<claim, effects, ledger>>
      BY <1>2, <2>2 DEF claim_idempotency, Phases, Before, At
    <3>2. call'[w].at = "select" /\ call'[w].tc = call[w].tc
      BY <1>0, <3>1, GoMoves
    <3> QED BY <1>0, <3>1, <3>2, ApproachOnce
  <2> QED BY <2>1, <2>2
<1>3. CASE Select(w)
  <2>0. call[w].at = "select" /\ "select" \in Before /\ claim # None /\ claim \in ClaimRow
        /\ UNCHANGED <<claim, effects, ledger>>
    BY <1>0, <1>3 DEF Select, At, Before, GatewayInv, RowPresent, TypeOK, rows
  <2>1. CASE Return(w)
    BY <1>0, <2>0, <2>1, LeaveOnce, ReturnMoves
  <2>2. CASE claim.status = "failed" /\ Go(w, "retry")
    <3>1. call'[w].at = "retry" /\ call'[w].tc = call[w].tc
      BY <1>0, <2>2, GoMoves DEF Phases, Before
    <3>2. call[w].tc # claim.tc
      BY <1>0, <2>0, <2>2 DEF OnceFacts, FailedIsFree, Gone, InProgress
    <3> QED BY <1>0, <2>0, <3>1, <3>2, ApproachOnce DEF Before
  <2>3. CASE claim.status = "running" /\ Ours(w) /\ Go(w, "claimed")
    <3>1. call'[w].at = "claimed" /\ call'[w].tc = call[w].tc /\ call'[w] # None
      BY <1>0, <2>3, GoIsCall DEF Phases, Holding
    <3>2. (\A v \in Workers : ~Holds(v)) /\ NoEffects
      BY <1>0, <2>0, <2>3, OursIsFree
    <3>3. claim'.tc \in ToolCalls \cap begun /\ claim'.tc = call[w].tc
      BY <2>0, <2>3 DEF ClaimRow, OnceFacts, AllBegun, Ours
    <3> QED BY <1>0, <2>0, <2>3, <3>1, <3>2, <3>3, TakeOnce
  <2> QED BY <1>3, <2>1, <2>2, <2>3 DEF Select
<1>4. CASE retry_idempotency_claim(w)
  <2>0. call[w].at = "retry" /\ claim # None /\ claim \in ClaimRow
        /\ UNCHANGED <<effects, ledger>> /\ call[w].tc # claim.tc
    BY <1>0, <1>4 DEF retry_idempotency_claim, At, GatewayInv, RowPresent, TypeOK, OnceFacts,
                      Retrying
  <2>1. CASE Retriable
    <3>1. Go(w, "claimed") /\ claim' = [claim EXCEPT !.status = "running"]
          /\ claim.status = "failed"
      BY <1>4, <2>1 DEF retry_idempotency_claim, Retriable
    <3>2. call'[w].at = "claimed" /\ call'[w].tc = call[w].tc /\ call'[w] # None
      BY <1>0, <3>1, GoIsCall DEF Phases, Holding
    <3>3. claim' # None /\ claim'.status = "running" /\ claim'.tc = claim.tc
          /\ claim'.tc \in ToolCalls \cap begun
      BY <2>0, <3>1 DEF ClaimRow, OnceFacts, AllBegun
    <3>4. NoEffects /\ Gone(claim.tc)
      BY <2>0, <3>1 DEF OnceFacts, FailedIsFree
    <3>5. \A v \in Workers : ~Holds(v)
      BY <3>1 DEF OnceFacts, HolderState
    <3> QED BY <1>0, <2>0, <3>2, <3>3, <3>4, <3>5, TakeOnce
  <2>2. CASE ~Retriable
    <3>1. Go(w, "refresh") /\ UNCHANGED claim
      BY <1>4, <2>2 DEF retry_idempotency_claim
    <3>2. call'[w].at = "refresh" /\ call'[w].tc = call[w].tc
      BY <1>0, <3>1, GoMoves DEF Phases, Before
    <3> QED BY <1>0, <2>0, <3>1, <3>2, ApproachOnce DEF Before
  <2> QED BY <2>1, <2>2
<1>5. CASE Refresh(w)
  <2>1. call[w].at = "refresh" /\ ~Ours(w)
    BY <1>0, <1>5 DEF Refresh, At, Ours, OnceFacts, Retrying
  <2>2. Return(w) /\ UNCHANGED <<claim, effects, ledger>>
    BY <1>5, <2>1 DEF Refresh, rows
  <2> QED BY <1>0, <2>1, <2>2, LeaveOnce, ReturnMoves
<1> QED BY <1>1, <1>2, <1>3, <1>4, <1>5

(***************************************************************************)
(* The steps of a holder before its handler and after a refusal or an      *)
(* exception, and the save of the result.                                  *)
(***************************************************************************)
LEMMA HolderOnce ==
  ASSUME GatewayInv, OnceFacts, NEW w \in Workers,
         \/ NotCompliant(w) \/ (\E o \in PolicyOutcome \cup {None} : Evaluate(w, o))
         \/ save_governance_state(w) \/ ApprovalGate(w) \/ create_approval(w)
         \/ RecheckFails(w) \/ HandlerRaises(w) \/ SaveCompleted(w)
         \/ SaveFailed(w) \/ SaveDenied(w)
  PROVE  OnceFacts'
<1>0. call[w] # None /\ OwnStep(w) /\ TypeOK /\ call[w] \in Call
  BY StepIsOwn DEF Step, GatewayInv, TypeOK
<1>1. UNCHANGED <<claim, effects>>
  BY DEF NotCompliant, Evaluate, save_governance_state, ApprovalGate, create_approval,
         RecheckFails, HandlerRaises, SaveCompleted, SaveFailed, SaveDenied, rows
<1>2. CASE \E o \in PolicyOutcome \cup {None} : Evaluate(w, o)
  <2>1. PICK o \in PolicyOutcome \cup {None} : Evaluate(w, o)
    BY <1>2
  <2> DEFINE d == conjoin(capability_floor, IF o = None THEN "ALLOW" ELSE o)
  <2> DEFINE new == [call[w] EXCEPT !.at = "govern", !.dec = d,
                                    !.eff = accumulate(gov[call[w].tc], d)]
  <2>2. call' = [call EXCEPT ![w] = new] /\ call[w].at = "claimed"
    BY <2>1 DEF Evaluate, At
  <2>3. new.at = "govern" /\ new.tc = call[w].tc
    BY <1>0 DEF Call
  <2>4. TypeOK'
    BY <2>1, StepKeeps DEF Step, Kept
  <2> HIDE DEF new
  <2>5. call'[w].at = "govern" /\ call'[w].tc = call[w].tc
    BY <1>0, <2>2, <2>3 DEF TypeOK
  <2>6. call'[w] # None
    <3>1. d \in PolicyOutcome /\ accumulate(gov[call[w].tc], d) \in PolicyOutcome \cup {None}
      BY <1>0 DEF conjoin, PolicyOutcome, accumulate, combine_decisions, TypeOK, Call
    <3>2. new \in Call
      BY <1>0, <3>1 DEF Call, Holding, new
    <3> QED BY <1>0, <2>2, <3>2, NoneIsNoCall DEF TypeOK
  <2> QED BY <1>0, <1>1, <2>2, <2>5, <2>6, AdvanceOnce DEF Holds, Holding, Past
<1>3. CASE SaveFailed(w) \/ SaveDenied(w)
  <2>1. Go(w, "release") /\ call[w].at \in {"except", "deny"}
        /\ (Status(call[w].tc, "failed") \/ Status(call[w].tc, "denied"))
    BY <1>3 DEF SaveFailed, SaveDenied, At
  <2>2. call'[w] # None /\ call'[w].at = "release" /\ call'[w].tc = call[w].tc
    BY <1>0, <2>1, GoIsCall DEF Phases, Holding
  <2>3. ledger'[call[w].tc] \in {"denied", "failed"}
    BY <1>0, <2>1 DEF Status, TypeOK, Call
  <2> QED BY <1>0, <1>1, <2>1, <2>2, <2>3, AdvanceOnce DEF Holds, Holding, Past
<1>4. CASE SaveCompleted(w)
  <2>1. Go(w, "settle") /\ call[w].at = "record"
    BY <1>4 DEF SaveCompleted, At
  <2>2. call'[w] # None /\ call'[w].at = "settle" /\ call'[w].tc = call[w].tc
    BY <1>0, <2>1, GoIsCall DEF Phases, Holding
  <2> QED BY <1>0, <1>1, <2>1, <2>2, AdvanceOnce DEF Holds, Holding
<1>5. CASE \/ NotCompliant(w) \/ save_governance_state(w) \/ ApprovalGate(w)
           \/ create_approval(w) \/ RecheckFails(w) \/ HandlerRaises(w)
  <2>1. call[w].at \in Holding \ Past
    BY <1>5 DEF NotCompliant, save_governance_state, ApprovalGate, create_approval,
                RecheckFails, HandlerRaises, At, Holding, Past
  <2>2. PICK p \in {"deny", "gate", "create", "park", "checks", "except"} : Go(w, p)
    BY <1>5 DEF NotCompliant, save_governance_state, ApprovalGate, create_approval,
                RecheckFails, HandlerRaises
  <2>3. p \in Phases /\ p \in Holding \ Past /\ p # "release"
    BY DEF Phases, Holding, Past
  <2>4. call'[w] # None /\ call'[w].at = p /\ call'[w].tc = call[w].tc
    BY <1>0, <2>2, <2>3, GoIsCall
  <2> QED BY <1>0, <1>1, <2>1, <2>3, <2>4, AdvanceOnce DEF Holds
<1> QED BY <1>2, <1>3, <1>4, <1>5

(***************************************************************************)
(* The handler returns: it is the first one that does.                     *)
(***************************************************************************)
LEMMA HandleOnce ==
  ASSUME GatewayInv, OnceFacts, NEW w \in Workers, Handle(w)
  PROVE  OnceFacts'
<1>0. call[w] # None /\ OwnStep(w) /\ TypeOK /\ call[w].tc \in ToolCalls
      /\ call[w].at = "checks" /\ UNCHANGED <<claim, ledger>>
  BY StepIsOwn DEF Step, GatewayInv, TypeOK, Call, Handle, At, rows
<1>1. call'[w] # None /\ call'[w].at = "record" /\ call'[w].tc = call[w].tc
  BY <1>0, GoIsCall DEF Handle, Phases, Holding
<1>2. Holds(w) /\ Holds(w)' /\ claim # None /\ claim.tc \in ToolCalls
  BY <1>0, <1>1 DEF Holds, Holding, GatewayInv, RowPresent, TypeOK, ClaimRow
<1>3. NoEffects /\ claim.status = "running" /\ (call[w].tc # claim.tc => Gone(claim.tc))
  BY <1>0, <1>2 DEF OnceFacts, HolderState, Past
<1>4. \A c \in ToolCalls : effects'[c] = IF c = call[w].tc THEN 1 ELSE 0
  BY <1>0, <1>3 DEF Handle, NoEffects, TypeOK
<1>5. Alone' /\ AllBegun' /\ OneHolder'
  BY <1>0, <1>1, <1>2 DEF OnceFacts, OwnStep, Alone, AllBegun, OneHolder, Holds
<1>6. Once'
  BY <1>4 DEF Once
<1>7. HolderState'
  <2> SUFFICES ASSUME NEW v \in Workers, Holds(v)'
               PROVE  /\ call'[v].at = "record"
                      /\ call'[v].tc # claim.tc => Gone(claim.tc)'
    BY <1>0, <1>3 DEF HolderState, Past
  <2>1. v = w
    BY <1>0, <1>2 DEF OnceFacts, OneHolder, Holds, OwnStep
  <2>2. call[w].tc # claim.tc => Gone(claim.tc)'
    BY <1>0, <1>1, <1>2, <1>3, GoneStays
  <2> QED BY <1>1, <2>1, <2>2
<1>8. Retrying'
  BY <1>0, <1>1 DEF OnceFacts, Retrying, OwnStep
<1>9. FailedIsFree' /\ EffectsKept'
  BY <1>0, <1>1, <1>2, <1>3 DEF FailedIsFree, EffectsKept, At
<1> QED BY <1>5, <1>6, <1>7, <1>8, <1>9 DEF OnceFacts

(***************************************************************************)
(* complete_idempotency_claim: the claim is never running again.           *)
(***************************************************************************)
LEMMA CompleteOnce ==
  ASSUME GatewayInv, OnceFacts, NEW w \in Workers, complete_idempotency_claim(w)
  PROVE  OnceFacts'
<1>0. call[w] # None /\ OwnStep(w) /\ TypeOK /\ call[w].tc \in ToolCalls
      /\ call[w].at = "settle" /\ UNCHANGED <<effects, ledger>>
      /\ claim' = [claim EXCEPT !.status = "completed"]
  BY StepIsOwn DEF Step, GatewayInv, TypeOK, Call, complete_idempotency_claim, At
<1>1. call'[w] # None /\ call'[w].at = "audit" /\ call'[w].tc = call[w].tc
  BY <1>0, GoIsCall DEF complete_idempotency_claim, Phases, Holding
<1>2. Holds(w) /\ claim # None /\ claim \in ClaimRow
  BY <1>0 DEF Holds, Holding, GatewayInv, RowPresent, TypeOK
<1>3. claim'.status = "completed" /\ claim'.tc = claim.tc /\ claim' # None
      /\ claim.tc \in ToolCalls
  BY <1>0, <1>2, NoneIsNoRow DEF ClaimRow
<1>4. Alone' /\ AllBegun' /\ OneHolder' /\ Once'
  BY <1>0, <1>1, <1>2, <1>3 DEF OnceFacts, OwnStep, Alone, AllBegun, OneHolder, Holds, Once
<1>5. HolderState'
  <2> SUFFICES ASSUME NEW v \in Workers, Holds(v)'
               PROVE  /\ call'[v].at = "audit"
                      /\ call'[v].tc # claim'.tc => Gone(claim.tc)'
    BY <1>3 DEF HolderState, Past
  <2>1. v = w
    BY <1>0, <1>2 DEF OnceFacts, OneHolder, Holds, OwnStep
  <2>2. PICK c \in ToolCalls : c = claim.tc
    BY <1>3
  <2>3. call[w].tc # c => Gone(c)'
    BY <1>0, <1>1, <1>2, <2>2, GoneStays DEF OnceFacts, HolderState
  <2> QED BY <1>1, <1>3, <2>1, <2>2, <2>3 DEF Gone, InProgress
<1>6. Retrying'
  BY <1>0, <1>1, <1>3 DEF OnceFacts, Retrying, OwnStep
<1>7. FailedIsFree' /\ EffectsKept'
  BY <1>3 DEF FailedIsFree, EffectsKept
<1> QED BY <1>4, <1>5, <1>6, <1>7 DEF OnceFacts

(***************************************************************************)
(* fail_idempotency_claim: the call that inserted the row is over, whether *)
(* it is the one that releases it or was over when the row was retried.    *)
(***************************************************************************)
LEMMA ReleaseOnce ==
  ASSUME GatewayInv, OnceFacts, NEW w \in Workers, fail_idempotency_claim(w)
  PROVE  OnceFacts'
<1>0. call[w] # None /\ OwnStep(w) /\ TypeOK /\ call[w].tc \in ToolCalls
      /\ call[w].at = "release" /\ UNCHANGED <<effects, ledger>> /\ call'[w] = None
      /\ claim' = [claim EXCEPT !.status = "failed"]
  BY StepIsOwn, ReturnMoves DEF Step, GatewayInv, TypeOK, Call, fail_idempotency_claim, At
<1>1. Holds(w) /\ claim # None /\ claim \in ClaimRow
  BY <1>0 DEF Holds, Holding, GatewayInv, RowPresent, TypeOK
<1>2. claim'.status = "failed" /\ claim'.tc = claim.tc /\ claim' # None
      /\ claim.tc \in ToolCalls
  BY <1>0, <1>1, NoneIsNoRow DEF ClaimRow
<1>3. NoEffects /\ ledger[call[w].tc] \in {"denied", "failed"} /\ call[w].tc \in begun
  BY <1>0, <1>1 DEF OnceFacts, HolderState, Past, AllBegun
<1>4. \A v \in Workers : ~Holds(v)'
  BY <1>0, <1>1 DEF OnceFacts, OneHolder, Holds, OwnStep
<1>5. Gone(claim.tc)'
  <2>1. PICK c \in ToolCalls : c = claim.tc
    BY <1>2
  <2>2. CASE c = call[w].tc
    <3>1. \A v \in Workers : call'[v] # None => call'[v].tc # c
      BY <1>0, <2>2 DEF OnceFacts, Alone, OwnStep
    <3> QED BY <1>0, <1>2, <1>3, <2>1, <2>2, <3>1 DEF Gone, InProgress, OwnStep
  <2>3. CASE c # call[w].tc
    <3>1. Gone(c)
      BY <1>1, <2>1, <2>3 DEF OnceFacts, HolderState
    <3>2. Gone(c)'
      BY <1>0, <3>1, GoneStays
    <3> QED BY <1>2, <2>1, <3>2 DEF Gone, InProgress
  <2> QED BY <2>2, <2>3
<1>6. /\ Alone' /\ AllBegun' /\ Once'
      /\ OneHolder' /\ HolderState'
  <2>1. Alone' /\ AllBegun'
    BY <1>0, <1>1, <1>2 DEF OnceFacts, OwnStep, Alone, AllBegun
  <2>3. Once'
    BY <1>0 DEF OnceFacts, Once
  <2>2. OneHolder' /\ HolderState'
    BY <1>4 DEF OneHolder, HolderState
  <2> QED BY <2>1, <2>2, <2>3
<1>7. Retrying'
  BY <1>0, <1>2 DEF OnceFacts, Retrying, OwnStep
<1>8. FailedIsFree' /\ EffectsKept'
  BY <1>0, <1>3, <1>5 DEF FailedIsFree, EffectsKept, NoEffects
<1> QED BY <1>6, <1>7, <1>8 DEF OnceFacts

(***************************************************************************)
(* A call that is parked, is finished or dies before its handler returned  *)
(* or after the claim was completed.                                       *)
(***************************************************************************)
LEMMA EndOnce ==
  ASSUME GatewayInv, OnceFacts, NEW w \in Workers,
         Park(w) \/ AppendCompleted(w) \/ (Crash(w) /\ ~lapsed')
  PROVE  OnceFacts'
<1>1. call[w] # None /\ OwnStep(w) /\ TypeOK
  BY StepIsOwn DEF Step, GatewayInv
<1>2. Return(w) /\ UNCHANGED <<claim, effects>> /\ call[w].at \notin {"record", "settle"}
  BY DEF Park, AppendCompleted, Crash, At, rows
<1> QED BY <1>1, <1>2, ReturnMoves, LeaveOnce

(***************************************************************************)
(* A new tool call, or one that waited for its approval: nobody executes   *)
(* it, and it is not one that is over.                                     *)
(***************************************************************************)
LEMMA BeginOnce ==
  ASSUME GatewayInv, OnceFacts, NEW w \in Workers, NEW c \in ToolCalls,
         Submit(w, c) \/ Resume(w, c)
  PROVE  OnceFacts'
<1>1. /\ call'[w].at = "start" /\ call'[w].tc = c
      /\ \A v \in Workers \ {w} : call'[v] = call[v]
      /\ UNCHANGED <<claim, ledger, effects>> /\ begun' = begun \cup {c} /\ call[w] = None
  BY DEF Submit, Resume, Execute, GatewayInv, TypeOK, rows
<1>2. ~InProgress(c) /\ ~Gone(c)
  BY DEF Submit, Resume, Awaited, OnceFacts, AllBegun, InProgress, Gone
<1>3. \A v \in Workers : Holds(v)' => Holds(v) /\ call'[v] = call[v]
  BY <1>1 DEF Holds, Holding
<1>4. ASSUME NEW d \in ToolCalls, Gone(d) PROVE Gone(d)'
  <2>1. d # c
    BY <1>2, <1>4
  <2> QED BY <1>1, <1>4, <2>1 DEF Gone, InProgress
<1>5. claim # None => claim.tc \in ToolCalls
  BY DEF GatewayInv, TypeOK, ClaimRow
<1>6. Alone' /\ AllBegun' /\ OneHolder' /\ Once'
  BY <1>1, <1>2, <1>3 DEF OnceFacts, Alone, AllBegun, OneHolder, InProgress, Once
<1>7. HolderState'
  <2> SUFFICES ASSUME NEW v \in Workers, Holds(v)'
               PROVE  Holds(v) /\ call'[v] = call[v] /\ (Gone(claim.tc) => Gone(claim.tc)')
    BY <1>1 DEF OnceFacts, HolderState, NoEffects
  <2>1. claim # None
    BY <1>3 DEF Holds, GatewayInv, RowPresent, Holding
  <2> QED BY <1>1, <1>3, <1>4, <1>5, <2>1
<1>8. Retrying'
  BY <1>1 DEF OnceFacts, Retrying
<1>9. FailedIsFree'
  BY <1>1, <1>4, <1>5 DEF OnceFacts, FailedIsFree, NoEffects
<1>10. EffectsKept'
  BY <1>1 DEF OnceFacts, EffectsKept, NoEffects, At
<1> QED BY <1>6, <1>7, <1>8, <1>9, <1>10 DEF OnceFacts

(***************************************************************************)
(* Every action keeps the claim invariant.                                 *)
(***************************************************************************)
LEMMA OnceInvNext ==
  ASSUME GatewayInv, OnceInv, [Next]_vars
  PROVE  OnceInv'
<1> SUFFICES ASSUME repeats' = 0, ~lapsed' PROVE OnceFacts'
  BY DEF OnceInv
<1>1. CASE UNCHANGED vars
  BY <1>1 DEF vars, rows, callers, failures, OnceInv, OnceFacts, Alone, AllBegun, OneHolder,
              HolderState, Holds, Gone, InProgress, NoEffects, Retrying, FailedIsFree,
              EffectsKept, At, Once
<1>2. ASSUME NEW w \in Workers, Step(w) PROVE OnceFacts'
  <2>1. UNCHANGED <<repeats, lapsed>>
    BY <1>2 DEF Step, NotEnabled, claim_idempotency, Select, retry_idempotency_claim, Refresh,
         NotCompliant, Evaluate, save_governance_state, ApprovalGate, create_approval, Park,
         RecheckFails, Handle, HandlerRaises, SaveCompleted, complete_idempotency_claim,
         AppendCompleted, SaveFailed, SaveDenied, fail_idempotency_claim, callers, failures
  <2>2. OnceFacts
    BY <2>1 DEF OnceInv
  <2> QED BY <1>2, <2>2, ClaimOnce, HolderOnce, HandleOnce, CompleteOnce, ReleaseOnce,
             EndOnce DEF Step
<1>3. ASSUME NEW w \in Workers, WriteFails(w) PROVE OnceFacts'
  BY <1>3 DEF WriteFails
<1>4. ASSUME NEW w \in Workers, Crash(w) PROVE OnceFacts'
  <2>1. OnceFacts
    BY <1>4 DEF Crash, callers, OnceInv
  <2> QED BY <1>4, <2>1, EndOnce
<1>5. ASSUME NEW w \in Workers, NEW c \in ToolCalls, Submit(w, c) \/ Resume(w, c)
      PROVE  OnceFacts'
  <2>1. OnceFacts
    BY <1>5 DEF Submit, Resume, Execute, failures, OnceInv
  <2> QED BY <1>5, <2>1, BeginOnce
<1>6. ASSUME NEW w \in Workers, NEW c \in ToolCalls, NEW k \in Ckpts, Repeat(w, c, k)
      PROVE  OnceFacts'
  <2>1. setting.repeats \in Nat /\ repeats \in 0..setting.repeats /\ repeats' = repeats + 1
    BY <1>6, GatewayAssumption DEF Repeat, GatewayInv, TypeOK
  <2> QED BY <2>1
<1>7. ASSUME NEW c \in ToolCalls, NEW approved \in BOOLEAN, Decide(c, approved)
      PROVE  OnceFacts'
  <2>1. UNCHANGED <<claim, ledger, call, effects, begun, repeats, lapsed>>
    BY <1>7 DEF Decide, callers, failures
  <2> QED BY <2>1 DEF OnceInv, OnceFacts, Alone, AllBegun, OneHolder,
              HolderState, Holds, Gone, InProgress, NoEffects, Retrying, FailedIsFree,
              EffectsKept, At, Once
<1> QED BY <1>1, <1>2, <1>3, <1>4, <1>5, <1>6, <1>7 DEF Next

(***************************************************************************)
(* Nothing is claimed, and nothing has happened, when the run begins.      *)
(***************************************************************************)
LEMMA OnceInvInit == Init => OnceInv
BY DEF Init, OnceInv, OnceFacts, Alone, AllBegun, OneHolder, HolderState, Holds,
       Retrying, FailedIsFree, EffectsKept, NoEffects, Once

(***************************************************************************)
(* In every reachable state without a repeated call at most one call holds *)
(* the claim, and a claim that failed left no effect behind.               *)
(***************************************************************************)
THEOREM OnceInductive == Spec => [](GatewayInv /\ OnceInv)
<1>1. Init => GatewayInv /\ OnceInv
  BY GatewayInvInit, OnceInvInit
<1>2. GatewayInv /\ OnceInv /\ [Next]_vars => (GatewayInv /\ OnceInv)'
  BY GatewayInvNext, OnceInvNext
<1> QED BY <1>1, <1>2, PTL DEF Spec

(***************************************************************************)
(* The idempotency claim does its work: for any workers and tool calls,    *)
(* crashes, refusals, retries and approvals, a handler returns at most     *)
(* once as long as no tool call is repeated, no write after the handler    *)
(* fails, and no worker dies between handler and completion of the claim.  *)
(***************************************************************************)
THEOREM HandlerOnce == Spec => []SideEffectOnce
<1>1. OnceInv => SideEffectOnce
  BY DEF OnceInv, OnceFacts, SideEffectOnce
<1> QED BY <1>1, OnceInductive, PTL
==============================================================================
