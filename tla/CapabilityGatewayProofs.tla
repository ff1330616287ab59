----------------------- MODULE CapabilityGatewayProofs -----------------------
(***************************************************************************)
(* The gateway's answers are true and its governance state is the          *)
(* strictest decision, for any workers, tool calls and checkpoints, any    *)
(* number of faults and of repeated calls.                                 *)
(***************************************************************************)
EXTENDS CapabilityGateway, TLAPS

Phases == Before \cup Holding

(***************************************************************************)
(* What moving a call to another phase leaves as it was.                   *)
(***************************************************************************)
LEMMA GoMoves ==
  ASSUME TypeOK, NEW w \in Workers, call[w] # None, NEW p \in Phases, Go(w, p)
  PROVE  /\ call' \in [Workers -> Call \cup {None}]
         /\ call'[w].at = p /\ call'[w].tc = call[w].tc
         /\ \A v \in Workers \ {w} : call'[v] = call[v]
<1>1. call[w] \in Call
  BY DEF TypeOK
<1>2. [call[w] EXCEPT !.at = p] \in Call
  BY <1>1 DEF Call, Phases
<1> QED BY <1>1, <1>2 DEF TypeOK, Go, Call

(***************************************************************************)
(* What the end of a call leaves as it was.                                *)
(***************************************************************************)
LEMMA ReturnMoves ==
  ASSUME TypeOK, NEW w \in Workers, Return(w)
  PROVE  /\ call' \in [Workers -> Call \cup {None}]
         /\ call'[w] = None
         /\ \A v \in Workers \ {w} : call'[v] = call[v]
BY DEF TypeOK, Return

(***************************************************************************)
(* What a step of w must keep for the invariant to hold after it.          *)
(***************************************************************************)
Kept(w) ==
  /\ TypeOK'
  /\ \A v \in Workers \ {w} : call'[v] = call[v]
  /\ claim # None => claim' # None
  /\ call'[w] # None /\ call'[w].at # "start" => claim' # None
  /\ call'[w] # None /\ call'[w].at \in Past => effects'[call'[w].tc] > 0
  /\ call'[w] # None /\ call'[w].at = "govern" => call'[w].dec \in PolicyOutcome
  /\ \A c \in ToolCalls : effects[c] > 0 => effects'[c] > 0
  /\ claim' # None /\ claim'.status = "completed" =>
       \/ claim # None /\ claim.status = "completed"
       \/ \E c \in ToolCalls : effects'[c] > 0
  /\ \A c \in ToolCalls : ledger'[c] = "completed" =>
       ledger[c] = "completed" \/ effects'[c] > 0

LEMMA KeptSuffices ==
  ASSUME GatewayInv, NEW w \in Workers, Kept(w)
  PROVE  GatewayInv'
<1>1. RowPresent'
  BY DEF GatewayInv, Kept, RowPresent
<1>2. Returned'
  <2> SUFFICES ASSUME NEW v \in Workers, call'[v] # None, call'[v].at \in Past
               PROVE  effects'[call'[v].tc] > 0
    BY DEF Returned, Past
  <2>1. CASE v = w
    BY <2>1 DEF Kept
  <2>2. CASE v # w
    <3>1. call'[v] = call[v] /\ effects[call[v].tc] > 0
      BY <2>2 DEF GatewayInv, Kept, Returned
    <3>2. call[v].tc \in ToolCalls
      BY <3>1 DEF GatewayInv, TypeOK, Call
    <3> QED BY <3>1, <3>2 DEF Kept
  <2> QED BY <2>1, <2>2
<1>3. CompletedMeansRan'
  BY DEF GatewayInv, Kept, CompletedMeansRan
<1>4. Decided'
  BY DEF GatewayInv, Kept, Decided, At
<1> QED BY <1>1, <1>2, <1>3, <1>4 DEF GatewayInv, Kept

(***************************************************************************)
(* Steps inside execute().                                                 *)
(***************************************************************************)
LEMMA StepKeeps ==
  ASSUME GatewayInv, NEW w \in Workers, Step(w)
  PROVE  Kept(w)
<1> USE NoneIsNoRow
<1>0. TypeOK /\ (call[w] # None => call[w] \in Call /\ call[w].tc \in ToolCalls)
  BY DEF GatewayInv, TypeOK, Call
<1>1. ASSUME NotEnabled(w) PROVE Kept(w)
  <2>1. call[w] # None /\ Return(w)
    BY <1>1 DEF NotEnabled, At
  <2> QED BY <1>0, <1>1, <2>1, ReturnMoves DEF NotEnabled, GatewayInv, TypeOK, Kept, At, Past, rows, callers, failures, Status, LedgerStatus
<1>2. ASSUME claim_idempotency(w) PROVE Kept(w)
  <2>1. CASE claim = None
    <3>1. Go(w, "claimed") /\ "claimed" \in Phases /\ call[w] # None
      BY <1>2, <2>1 DEF claim_idempotency, At, Phases, Before, Holding
    <3>2. claim' \in ClaimRow /\ claim'.status = "running" /\ claim' # None
      BY <1>2, <2>1, <1>0 DEF claim_idempotency, At, ClaimRow
    <3> QED BY <1>0, <1>2, <3>1, <3>2, GoMoves DEF claim_idempotency, GatewayInv, TypeOK, Kept, At, Past, rows, callers, failures
  <2>2. CASE claim # None
    <3>1. Go(w, "select") /\ "select" \in Phases /\ call[w] # None
      BY <1>2, <2>2 DEF claim_idempotency, At, Phases, Before, Holding
    <3> QED BY <1>0, <1>2, <2>2, <3>1, GoMoves DEF claim_idempotency, GatewayInv, TypeOK, Kept, At, Past, rows, callers, failures
  <2> QED BY <2>1, <2>2
<1>3. ASSUME Select(w) PROVE Kept(w)
  <2>0. call[w] # None /\ claim # None /\ "retry" \in Phases /\ "claimed" \in Phases
    BY <1>3 DEF Select, At, GatewayInv, RowPresent, Phases, Before, Holding
  <2>1. Return(w) \/ Go(w, "retry") \/ Go(w, "claimed")
    BY <1>3 DEF Select
  <2>2. CASE Return(w)
    BY <1>0, <1>3, <2>0, <2>2, ReturnMoves DEF Select, GatewayInv, TypeOK, Kept, At, Past, rows, callers, failures
  <2>3. CASE Go(w, "retry")
    BY <1>0, <1>3, <2>0, <2>3, GoMoves DEF Select, GatewayInv, TypeOK, Kept, At, Past, rows, callers, failures
  <2>4. CASE Go(w, "claimed")
    BY <1>0, <1>3, <2>0, <2>4, GoMoves DEF Select, GatewayInv, TypeOK, Kept, At, Past, rows, callers, failures
  <2> QED BY <2>1, <2>2, <2>3, <2>4
<1>4. ASSUME retry_idempotency_claim(w) PROVE Kept(w)
  <2>0. call[w] # None /\ claim # None /\ "refresh" \in Phases /\ "claimed" \in Phases
    BY <1>4 DEF retry_idempotency_claim, At, GatewayInv, RowPresent, Phases, Before, Holding
  <2>1. CASE Retriable
    <3>1. Go(w, "claimed")
      BY <1>4, <2>1 DEF retry_idempotency_claim
    <3>2. claim' \in ClaimRow /\ claim'.status = "running" /\ claim' # None
      BY <1>4, <2>1, <2>0, <1>0 DEF retry_idempotency_claim, ClaimRow, TypeOK
    <3> QED BY <1>0, <1>4, <2>0, <3>1, <3>2, GoMoves DEF retry_idempotency_claim, GatewayInv, TypeOK, Kept, At, Past, rows, callers, failures
  <2>2. CASE ~Retriable
    BY <1>0, <1>4, <2>0, <2>2, GoMoves DEF retry_idempotency_claim, GatewayInv, TypeOK, Kept, At, Past, rows, callers, failures
  <2> QED BY <2>1, <2>2
<1>5. ASSUME Refresh(w) PROVE Kept(w)
  <2>0. call[w] # None /\ claim # None /\ "claimed" \in Phases
    BY <1>5 DEF Refresh, At, GatewayInv, RowPresent, Phases, Before, Holding
  <2>1. CASE Ours(w)
    BY <1>0, <1>5, <2>0, <2>1, GoMoves DEF Refresh, GatewayInv, TypeOK, Kept, At, Past, rows, callers, failures
  <2>2. CASE ~Ours(w)
    BY <1>0, <1>5, <2>0, <2>2, ReturnMoves DEF Refresh, GatewayInv, TypeOK, Kept, At, Past, rows, callers, failures
  <2> QED BY <2>1, <2>2
<1>6. ASSUME NotCompliant(w) PROVE Kept(w)
  <2>1. call[w] # None /\ Go(w, "deny") /\ "deny" \in Phases
    BY <1>6 DEF NotCompliant, At, Phases, Before, Holding
  <2> QED BY <1>0, <1>6, <2>1, GoMoves DEF NotCompliant, GatewayInv, TypeOK, Kept, At, Past, rows, callers, failures, Status, LedgerStatus, RowPresent
<1>7. ASSUME NEW o \in PolicyOutcome \cup {None}, Evaluate(w, o) PROVE Kept(w)
  <2>0. call[w] # None /\ call[w] \in Call /\ claim # None
    BY <1>0, <1>7 DEF Evaluate, At, GatewayInv, RowPresent
  <2> DEFINE d == conjoin(capability_floor, IF o = None THEN "ALLOW" ELSE o)
  <2>1. d \in PolicyOutcome
    BY DEF conjoin, PolicyOutcome
  <2>2. accumulate(gov[call[w].tc], d) \in PolicyOutcome \cup {None}
    BY <1>0, <2>0, <2>1 DEF accumulate, combine_decisions, TypeOK
  <2> DEFINE new == [call[w] EXCEPT !.at = "govern", !.dec = d,
                                    !.eff = accumulate(gov[call[w].tc], d)]
  <2>3. new \in Call /\ new.at = "govern" /\ new.dec = d
    BY <2>0, <2>1, <2>2 DEF Call, Holding
  <2>4. call' = [call EXCEPT ![w] = new]
    BY <1>7 DEF Evaluate
  <2>5. call' \in [Workers -> Call \cup {None}] /\ call'[w].at = "govern" /\ call'[w].dec = d
        /\ \A v \in Workers \ {w} : call'[v] = call[v]
    BY <1>0, <2>3, <2>4 DEF TypeOK
  <2> HIDE DEF d, new
  <2> QED BY <1>0, <1>7, <2>0, <2>1, <2>5 DEF Evaluate, GatewayInv, TypeOK, Kept, At, Past, rows, callers, failures, Status, LedgerStatus
<1>8. ASSUME save_governance_state(w) PROVE Kept(w)
  <2>0. call[w] # None /\ call[w] \in Call /\ claim # None /\ Go(w, "gate") /\ "gate" \in Phases
    BY <1>0, <1>8 DEF save_governance_state, At, GatewayInv, RowPresent, Phases, Holding
  <2>1. gov' \in [ToolCalls -> PolicyOutcome \cup {None}]
    BY <1>0, <1>8, <2>0 DEF save_governance_state, TypeOK, Call
  <2>2. history' \in [ToolCalls -> SUBSET PolicyOutcome]
    BY <1>0, <1>8, <2>0 DEF save_governance_state, TypeOK, Call, GatewayInv, Decided, At
  <2> QED BY <1>0, <1>8, <2>0, <2>1, <2>2, GoMoves DEF save_governance_state, GatewayInv, TypeOK, Kept, At, Past, rows, callers, failures
<1>9. ASSUME ApprovalGate(w) PROVE Kept(w)
  <2>0. call[w] # None /\ claim # None
    BY <1>9 DEF ApprovalGate, At, GatewayInv, RowPresent
  <2>1. PICK p \in {"create", "park", "deny", "checks"} : Go(w, p)
    BY <1>9 DEF ApprovalGate
  <2>2. p \in Phases /\ p \notin Past /\ p # "govern"
    BY DEF Phases, Holding, Past
  <2> QED BY <1>0, <1>9, <2>0, <2>1, <2>2, GoMoves DEF ApprovalGate, GatewayInv, TypeOK, Kept, At, Past, rows, callers, failures
<1>10. ASSUME create_approval(w) PROVE Kept(w)
  <2>0. call[w] # None /\ call[w] \in Call /\ claim # None /\ Go(w, "park") /\ "park" \in Phases
    BY <1>0, <1>10 DEF create_approval, At, GatewayInv, RowPresent, Phases, Holding
  <2>1. [status |-> "pending", ckpt |-> call[w].ckpt] \in ApprovalRow
    BY <2>0 DEF ApprovalRow, Call
  <2>2. approval' \in [ToolCalls -> ApprovalRow \cup {None}]
    BY <1>0, <1>10, <2>1 DEF create_approval, TypeOK
  <2> QED BY <1>0, <1>10, <2>0, <2>2, GoMoves DEF create_approval, GatewayInv, TypeOK, Kept, At, Past, rows, callers, failures
<1>11. ASSUME Park(w) PROVE Kept(w)
  <2>1. call[w] # None /\ Return(w)
    BY <1>11 DEF Park, At
  <2> QED BY <1>0, <1>11, <2>1, ReturnMoves DEF Park, GatewayInv, TypeOK, Kept, At, Past, rows, callers, failures, Status, LedgerStatus
<1>12. ASSUME RecheckFails(w) PROVE Kept(w)
  <2>1. call[w] # None /\ Go(w, "deny") /\ "deny" \in Phases
    BY <1>12 DEF RecheckFails, At, Phases, Before, Holding
  <2> QED BY <1>0, <1>12, <2>1, GoMoves DEF RecheckFails, GatewayInv, TypeOK, Kept, At, Past, rows, callers, failures, RowPresent
<1>13. ASSUME Handle(w) PROVE Kept(w)
  <2>0. call[w] # None /\ claim # None /\ Go(w, "record") /\ "record" \in Phases
    BY <1>13 DEF Handle, At, GatewayInv, RowPresent, Phases, Holding
  <2>1. effects' \in [ToolCalls -> Nat] /\ effects'[call[w].tc] > 0
        /\ \A c \in ToolCalls : effects[c] > 0 => effects'[c] > 0
    BY <1>0, <1>13, <2>0 DEF Handle, TypeOK
  <2> QED BY <1>0, <1>13, <2>0, <2>1, GoMoves DEF Handle, GatewayInv, TypeOK, Kept, At, Past, rows, callers, failures
<1>14. ASSUME HandlerRaises(w) PROVE Kept(w)
  <2>1. call[w] # None /\ Go(w, "except") /\ "except" \in Phases
    BY <1>14 DEF HandlerRaises, At, Phases, Before, Holding
  <2> QED BY <1>0, <1>14, <2>1, GoMoves DEF HandlerRaises, GatewayInv, TypeOK, Kept, At, Past, rows, callers, failures, RowPresent
<1>15. ASSUME SaveCompleted(w) PROVE Kept(w)
  <2>1. call[w] # None /\ Go(w, "settle") /\ "settle" \in Phases
    BY <1>15 DEF SaveCompleted, At, Phases, Before, Holding
  <2> QED BY <1>0, <1>15, <2>1, GoMoves DEF SaveCompleted, GatewayInv, TypeOK, Kept, At, Past, rows, callers, failures, Status, LedgerStatus, RowPresent, Returned
<1>16. ASSUME complete_idempotency_claim(w) PROVE Kept(w)
  <2>0. call[w] # None /\ claim # None /\ Go(w, "audit") /\ "audit" \in Phases
    BY <1>16 DEF complete_idempotency_claim, At, GatewayInv, RowPresent, Phases, Holding
  <2>1. claim' \in ClaimRow /\ claim' # None
    BY <1>0, <1>16, <2>0 DEF complete_idempotency_claim, TypeOK, ClaimRow
  <2>2. effects[call[w].tc] > 0 /\ effects' = effects
    BY <1>16 DEF complete_idempotency_claim, At, GatewayInv, Returned, Past
  <2> QED BY <1>0, <1>16, <2>0, <2>1, <2>2, GoMoves DEF complete_idempotency_claim, GatewayInv, TypeOK, Kept, At, Past, rows, callers, failures
<1>17. ASSUME AppendCompleted(w) PROVE Kept(w)
  <2>1. call[w] # None /\ Return(w)
    BY <1>17 DEF AppendCompleted, At
  <2> QED BY <1>0, <1>17, <2>1, ReturnMoves DEF AppendCompleted, GatewayInv, TypeOK, Kept, At, Past, rows, callers, failures
<1>18. ASSUME SaveFailed(w) PROVE Kept(w)
  <2>1. call[w] # None /\ Go(w, "release") /\ "release" \in Phases
    BY <1>18 DEF SaveFailed, At, Phases, Before, Holding
  <2> QED BY <1>0, <1>18, <2>1, GoMoves DEF SaveFailed, GatewayInv, TypeOK, Kept, At, Past, rows, callers, failures, Status, LedgerStatus, RowPresent
<1>19. ASSUME SaveDenied(w) PROVE Kept(w)
  <2>1. call[w] # None /\ Go(w, "release") /\ "release" \in Phases
    BY <1>19 DEF SaveDenied, At, Phases, Before, Holding
  <2> QED BY <1>0, <1>19, <2>1, GoMoves DEF SaveDenied, GatewayInv, TypeOK, Kept, At, Past, rows, callers, failures, Status, LedgerStatus, RowPresent
<1>20. ASSUME fail_idempotency_claim(w) PROVE Kept(w)
  <2>0. call[w] # None /\ claim # None /\ Return(w)
    BY <1>20 DEF fail_idempotency_claim, At, GatewayInv, RowPresent
  <2>1. claim' \in ClaimRow /\ claim' # None /\ claim'.status = "failed"
    BY <1>0, <1>20, <2>0 DEF fail_idempotency_claim, TypeOK, ClaimRow
  <2> QED BY <1>0, <1>20, <2>0, <2>1, ReturnMoves DEF fail_idempotency_claim, GatewayInv, TypeOK, Kept, At, Past, rows, callers, failures
<1> QED BY <1>1, <1>2, <1>3, <1>4, <1>5, <1>6, <1>7, <1>8, <1>9, <1>10, <1>11, <1>12, <1>13, <1>14, <1>15, <1>16, <1>17, <1>18, <1>19, <1>20 DEF Step

(***************************************************************************)
(* The beginning of a call.                                                *)
(***************************************************************************)
LEMMA ExecuteKeeps ==
  ASSUME GatewayInv, NEW w \in Workers, NEW c \in ToolCalls, NEW k \in Ckpts \cup {None},
         Execute(w, c, k), repeats' \in 0..setting.repeats
  PROVE  Kept(w)
<1> DEFINE new == [at |-> "start", tc |-> c, ckpt |-> k, dec |-> None, eff |-> None]
<1>1. new \in Call /\ new.at = "start"
  BY DEF Call, Before
<1>2. call' = [call EXCEPT ![w] = new]
  BY DEF Execute
<1> HIDE DEF new
<1>3. call' \in [Workers -> Call \cup {None}] /\ call'[w] = new
      /\ \A v \in Workers \ {w} : call'[v] = call[v]
  BY <1>1, <1>2 DEF GatewayInv, TypeOK
<1>4. overlapped' \in BOOLEAN
  BY DEF Execute, GatewayInv, TypeOK
<1> QED BY <1>1, <1>3, <1>4 DEF Execute, GatewayInv, TypeOK, Kept, At, Past, rows, callers, failures

(***************************************************************************)
(* Faults.                                                                 *)
(***************************************************************************)
LEMMA FaultKeeps ==
  ASSUME GatewayInv, NEW w \in Workers, WriteFails(w) \/ Crash(w)
  PROVE  Kept(w)
<1>1. setting.faults \in Nat /\ faults \in 0..setting.faults /\ faults < setting.faults
      /\ faults' = faults + 1 /\ UNCHANGED setting
  BY GatewayAssumption DEF GatewayInv, TypeOK, WriteFails, Crash
<1>2. faults' \in 0..setting'.faults
  BY <1>1
<1>3. call[w] # None /\ lapsed' \in BOOLEAN
  BY DEF GatewayInv, TypeOK, WriteFails, Crash
<1>4. CASE WriteFails(w)
  <2>1. Go(w, "except") /\ "except" \in Phases /\ claim # None
    BY <1>4 DEF WriteFails, Phases, Holding, GatewayInv, RowPresent
  <2> QED BY <1>2, <1>3, <1>4, <2>1, GoMoves DEF WriteFails, GatewayInv, TypeOK, Kept, At, Past, rows, callers, failures
<1>5. CASE Crash(w)
  <2>1. Return(w)
    BY <1>5 DEF Crash
  <2> QED BY <1>2, <1>3, <1>5, <2>1, ReturnMoves DEF Crash, GatewayInv, TypeOK, Kept, At, Past, rows, callers, failures
<1> QED BY <1>4, <1>5

(***************************************************************************)
(* A decision of a reviewer touches nothing but the approval.              *)
(***************************************************************************)
LEMMA DecideKeeps ==
  ASSUME GatewayInv, NEW c \in ToolCalls, NEW approved \in BOOLEAN, Decide(c, approved)
  PROVE  GatewayInv'
<1>1. approval[c] \in ApprovalRow
  BY DEF Decide, GatewayInv, TypeOK
<1> DEFINE row == [approval[c] EXCEPT !.status = IF approved THEN "approved" ELSE "denied"]
<1>2. row \in ApprovalRow
  BY <1>1 DEF ApprovalRow
<1>3. approval' = [approval EXCEPT ![c] = row]
  BY DEF Decide
<1> HIDE DEF row
<1>4. approval' \in [ToolCalls -> ApprovalRow \cup {None}]
  BY <1>2, <1>3 DEF GatewayInv, TypeOK
<1> QED BY <1>4 DEF Decide, GatewayInv, TypeOK, RowPresent, Returned, Decided, At,
                    CompletedMeansRan, callers, failures

(***************************************************************************)
(* Every action keeps the invariant.                                       *)
(***************************************************************************)
LEMMA GatewayInvNext ==
  ASSUME GatewayInv, [Next]_vars
  PROVE  GatewayInv'
<1>1. CASE UNCHANGED vars
  BY <1>1 DEF vars, rows, callers, failures, GatewayInv, TypeOK, RowPresent, Returned,
              Decided, At, CompletedMeansRan
<1>2. ASSUME NEW w \in Workers, Step(w) \/ WriteFails(w) \/ Crash(w)
      PROVE  GatewayInv'
  BY <1>2, StepKeeps, FaultKeeps, KeptSuffices
<1>0. repeats \in 0..setting.repeats /\ setting.repeats \in Nat
  BY GatewayAssumption DEF GatewayInv, TypeOK
<1>3. ASSUME NEW w \in Workers, NEW c \in ToolCalls, Submit(w, c)
      PROVE  GatewayInv'
  <2>1. CkptOf[c] \in Ckpts \cup {None}
    BY GatewayAssumption
  <2> QED BY <1>0, <1>3, <2>1, ExecuteKeeps, KeptSuffices DEF Submit
<1>4. ASSUME NEW w \in Workers, NEW c \in ToolCalls, Resume(w, c)
      PROVE  GatewayInv'
  <2>1. approval[c].ckpt \in Ckpts \cup {None}
    BY <1>4 DEF Resume, Awaited, GatewayInv, TypeOK, ApprovalRow
  <2> QED BY <1>0, <1>4, <2>1, ExecuteKeeps, KeptSuffices DEF Resume
<1>5. ASSUME NEW w \in Workers, NEW c \in ToolCalls, NEW k \in Ckpts, Repeat(w, c, k)
      PROVE  GatewayInv'
  <2>1. repeats' \in 0..setting.repeats
    BY <1>0, <1>5 DEF Repeat
  <2> QED BY <1>5, <2>1, ExecuteKeeps, KeptSuffices DEF Repeat
<1> QED BY <1>1, <1>2, <1>3, <1>4, <1>5, DecideKeeps DEF Next

LEMMA GatewayInvInit == Init => GatewayInv
<1> SUFFICES ASSUME Init PROVE GatewayInv
  OBVIOUS
<1>1. 0 \in 0..setting.repeats /\ 0 \in 0..setting.faults
  BY GatewayAssumption DEF Init
<1>2. TypeOK
  BY <1>1 DEF Init, TypeOK
<1>3. \A c \in ToolCalls : ledger[c] # "completed"
  BY NoneIsNoStatus DEF Init, LedgerStatus
<1>4. claim = None /\ \A w \in Workers : call[w] = None
  BY DEF Init
<1>5. RowPresent /\ Returned /\ Decided
  BY <1>4 DEF RowPresent, Returned, Decided, At
<1>6. CompletedMeansRan
  BY <1>3, <1>4 DEF CompletedMeansRan
<1> QED BY <1>2, <1>5, <1>6 DEF GatewayInv

(***************************************************************************)
(* In every reachable state of execute() the row a call relies on exists   *)
(* and a call past its handler has an effect to show for it.               *)
(***************************************************************************)
THEOREM GatewayInductive == Spec => []GatewayInv
<1> QED BY GatewayInvInit, GatewayInvNext, PTL DEF Spec

(***************************************************************************)
(* The claim, the ledger, the governance state, the approvals and the      *)
(* calls keep their types.                                                 *)
(***************************************************************************)
THEOREM GatewayTypeCorrect == Spec => []TypeOK
<1>1. GatewayInv => TypeOK
  BY DEF GatewayInv
<1> QED BY <1>1, GatewayInductive, PTL

(***************************************************************************)
(* Whatever crashes, fails or is repeated, a claim is answered from the    *)
(* cache and a tool call is reported completed only if a handler returned. *)
(***************************************************************************)
THEOREM AnswersTrue == Spec => []CompletedMeansRan
<1>1. GatewayInv => CompletedMeansRan
  BY DEF GatewayInv
<1> QED BY <1>1, GatewayInductive, PTL

-----------------------------------------------------------------------------
(* Governance.                                                             *)

(***************************************************************************)
(* A step of w that neither decides, nor saves a decision, nor passes the  *)
(* gate: the governance tables stay, no approval that was given is         *)
(* touched, and w returns or moves to a phase the invariant says nothing   *)
(* of.                                                                     *)
(***************************************************************************)
Deciding == {"govern", "gate", "checks"}

Given(c) == approval[c] # None /\ approval[c].status = "approved"

ApprovalsStand == \A c \in ToolCalls : Given(c) => approval'[c] = approval[c]

Quiet(w) ==
  /\ UNCHANGED <<setting, gov, history, overlapped>>
  /\ ApprovalsStand
  /\ \A v \in Workers \ {w} : call'[v] = call[v]
  /\ \/ call'[w] = None
     \/ call[w] # None /\ call'[w].tc = call[w].tc /\ call'[w].at \notin Deciding

(***************************************************************************)
(* A quiet step keeps the governance invariant: what the other calls       *)
(* decided, and the approvals they rely on, are as they were.              *)
(***************************************************************************)
LEMMA QuietKeeps ==
  ASSUME GatewayInv, GovernanceInv, NEW w \in Workers, Quiet(w)
  PROVE  GovernanceInv'
<1>0. capability_floor' = capability_floor
  BY DEF Quiet, capability_floor
<1>1. SoundDecisions'
  BY <1>0 DEF GovernanceInv, Quiet, SoundDecisions, Sound, At, Deciding
<1>2. ASSUME ~overlapped' PROVE Alone' /\ Strictest' /\ Current'
  <2>1. Alone /\ Strictest /\ Current
    BY <1>2 DEF GovernanceInv, Quiet
  <2>2. Alone'
    BY <2>1 DEF Quiet, Alone
  <2>3. Strictest'
    BY <2>1 DEF Quiet, Strictest
  <2>4. Current'
    <3> SUFFICES ASSUME NEW v \in Workers, call'[v] # None, call'[v].at \in Deciding
                 PROVE  /\ call'[v] = call[v] /\ gov' = gov
                        /\ Approved(v) => Approved(v)'
      BY <2>1 DEF Current, At, Deciding
    <3>1. call'[v] = call[v] /\ gov' = gov
      BY DEF Quiet
    <3>2. call[v].tc \in ToolCalls
      BY <3>1 DEF GatewayInv, TypeOK, Call
    <3>3. Approved(v) => approval'[call[v].tc] = approval[call[v].tc]
      BY <3>2 DEF Quiet, ApprovalsStand, Given, Approved
    <3> QED BY <3>1, <3>3 DEF Approved, Mismatch
  <2> QED BY <2>2, <2>3, <2>4
<1> QED BY <1>1, <1>2 DEF GovernanceInv

(***************************************************************************)
(* The steps of execute() that are quiet: everything but the evaluation of *)
(* the policy, the save of the governance state and the gate.              *)
(***************************************************************************)
LEMMA StepQuiet ==
  ASSUME GatewayInv, NEW w \in Workers,
         \/ NotEnabled(w) \/ claim_idempotency(w) \/ Select(w)
         \/ retry_idempotency_claim(w) \/ Refresh(w) \/ NotCompliant(w)
         \/ create_approval(w) \/ Park(w) \/ RecheckFails(w) \/ Handle(w)
         \/ HandlerRaises(w) \/ SaveCompleted(w) \/ complete_idempotency_claim(w)
         \/ AppendCompleted(w) \/ SaveFailed(w) \/ SaveDenied(w)
         \/ fail_idempotency_claim(w) \/ WriteFails(w) \/ Crash(w)
  PROVE  Quiet(w)
<1>1. call[w] # None /\ UNCHANGED <<setting, gov, history, overlapped>>
  BY DEF NotEnabled, claim_idempotency, Select, retry_idempotency_claim, Refresh,
         NotCompliant, create_approval, Park, RecheckFails, Handle, HandlerRaises,
         SaveCompleted, complete_idempotency_claim, AppendCompleted, SaveFailed,
         SaveDenied, fail_idempotency_claim, WriteFails, Crash, At, rows, callers, failures
<1>2. ApprovalsStand
  <2>1. CASE create_approval(w)
    BY <2>1 DEF create_approval, ApprovalsStand, Given, GatewayInv, TypeOK
  <2>2. CASE ~create_approval(w)
    BY <2>2 DEF NotEnabled, claim_idempotency, Select, retry_idempotency_claim, Refresh,
         NotCompliant, Park, RecheckFails, Handle, HandlerRaises,
         SaveCompleted, complete_idempotency_claim, AppendCompleted, SaveFailed,
         SaveDenied, fail_idempotency_claim, WriteFails, Crash, rows, ApprovalsStand
  <2> QED BY <2>1, <2>2
<1>3. Return(w) \/ \E p \in Phases \ Deciding : Go(w, p)
  BY DEF NotEnabled, claim_idempotency, Select, retry_idempotency_claim, Refresh,
         NotCompliant, create_approval, Park, RecheckFails, Handle, HandlerRaises,
         SaveCompleted, complete_idempotency_claim, AppendCompleted, SaveFailed,
         SaveDenied, fail_idempotency_claim, WriteFails, Crash, Phases, Before, Holding,
         Deciding
<1>4. TypeOK
  BY DEF GatewayInv
<1>5. CASE Return(w)
  BY <1>1, <1>2, <1>4, <1>5, ReturnMoves DEF Quiet
<1>6. ASSUME NEW p \in Phases \ Deciding, Go(w, p) PROVE Quiet(w)
  BY <1>1, <1>2, <1>4, <1>6, GoMoves DEF Quiet
<1> QED BY <1>3, <1>5, <1>6

(***************************************************************************)
(* What the tenant's policy and the capability's floor are joined to is    *)
(* sound, whatever the policy answers.                                     *)
(***************************************************************************)
LEMMA ConjoinSound ==
  ASSUME NEW o \in PolicyOutcome \cup {None}
  PROVE  Sound(conjoin(capability_floor, IF o = None THEN "ALLOW" ELSE o))
BY DEF Sound, conjoin, capability_floor, Rank, PolicyOutcome

(***************************************************************************)
(* The decision of a call is recorded in the call, not yet in the tables.  *)
(***************************************************************************)
LEMMA EvaluateGoverns ==
  ASSUME GatewayInv, GovernanceInv, NEW w \in Workers,
         NEW o \in PolicyOutcome \cup {None}, Evaluate(w, o)
  PROVE  GovernanceInv'
<1> DEFINE d == conjoin(capability_floor, IF o = None THEN "ALLOW" ELSE o)
<1> DEFINE g == accumulate(gov[call[w].tc], d)
<1>1. Sound(d)
  BY ConjoinSound
<1>2. call[w] # None /\ call[w] \in Call
  BY DEF Evaluate, At, GatewayInv, TypeOK
<1>3. call' = [call EXCEPT ![w] = [call[w] EXCEPT !.at = "govern", !.dec = d, !.eff = g]]
  BY DEF Evaluate
<1>4. UNCHANGED <<setting, gov, history, approval, overlapped>>
  BY DEF Evaluate, callers
<1> HIDE DEF d
<1>5. call'[w].at = "govern" /\ call'[w].tc = call[w].tc /\ call'[w].dec = d
      /\ call'[w].eff = g /\ \A v \in Workers \ {w} : call'[v] = call[v]
  BY <1>2, <1>3 DEF Call, GatewayInv, TypeOK
<1> HIDE DEF g
<1>6. capability_floor' = capability_floor
  BY <1>4 DEF capability_floor
<1>7. SoundDecisions'
  BY <1>1, <1>4, <1>5, <1>6 DEF GovernanceInv, SoundDecisions, Sound, At
<1>8. ASSUME ~overlapped' PROVE Alone' /\ Strictest' /\ Current'
  <2>1. Alone /\ Strictest /\ Current
    BY <1>4, <1>8 DEF GovernanceInv
  <2>2. Alone'
    BY <1>2, <1>5, <2>1 DEF Alone
  <2>3. Strictest'
    BY <1>4, <2>1 DEF Strictest
  <2>4. Current'
    <3> SUFFICES ASSUME NEW v \in Workers, call'[v] # None, call'[v].at \in Deciding
                 PROVE  \/ /\ call'[v] = call[v] /\ gov' = gov
                           /\ Approved(v) => Approved(v)'
                        \/ /\ call'[v].at = "govern"
                           /\ call'[v].eff = accumulate(gov'[call'[v].tc], call'[v].dec)
      BY <2>1 DEF Current, At, Deciding
    <3>1. CASE v = w
      BY <1>4, <1>5, <3>1 DEF g
    <3>2. CASE v # w
      BY <1>4, <1>5, <3>2 DEF Approved, Mismatch
    <3> QED BY <3>1, <3>2
  <2> QED BY <2>2, <2>3, <2>4
<1> QED BY <1>7, <1>8 DEF GovernanceInv

(***************************************************************************)
(* Accumulating a decision gives one that is at least as strict as it and  *)
(* as what was stored, and is one of the two.                              *)
(***************************************************************************)
LEMMA AccumulateStrictest ==
  ASSUME NEW g \in PolicyOutcome \cup {None}, NEW d \in PolicyOutcome
  PROVE  /\ accumulate(g, d) \in {g, d} \ {None}
         /\ Rank(d) <= Rank(accumulate(g, d))
         /\ g # None => Rank(g) <= Rank(accumulate(g, d))
BY NoneIsNoOutcome DEF accumulate, combine_decisions, Rank, PolicyOutcome

(***************************************************************************)
(* The save adds the decision to the history and the strictest outcome to  *)
(* the state; a call that does not overlap another computed it from the    *)
(* state that is still stored.                                             *)
(***************************************************************************)
LEMMA SaveGoverns ==
  ASSUME GatewayInv, GovernanceInv, NEW w \in Workers, save_governance_state(w)
  PROVE  GovernanceInv'
<1>1. At(w, "govern") /\ call[w] \in Call /\ call[w].tc \in ToolCalls
      /\ call[w].dec \in PolicyOutcome /\ Sound(call[w].dec)
  BY DEF save_governance_state, At, GatewayInv, GovernanceInv, SoundDecisions, TypeOK, Call,
         Decided
<1>2. /\ call'[w].at = "gate" /\ call'[w].tc = call[w].tc
      /\ \A v \in Workers \ {w} : call'[v] = call[v]
  BY GoMoves DEF save_governance_state, At, GatewayInv, Phases, Holding
<1>3. call'[w].eff = call[w].eff
  BY <1>1 DEF save_governance_state, Go, Call, GatewayInv, TypeOK
<1>4. UNCHANGED <<setting, approval, overlapped>>
  BY DEF save_governance_state, callers
<1> DEFINE t == call[w].tc
<1>5. /\ gov' = [gov EXCEPT ![t] = call[w].eff]
      /\ history' = [history EXCEPT ![t] = history[t] \cup {call[w].dec}]
  BY DEF save_governance_state
<1>6. /\ gov'[t] = call[w].eff /\ history'[t] = history[t] \cup {call[w].dec}
      /\ \A c \in ToolCalls \ {t} : gov'[c] = gov[c] /\ history'[c] = history[c]
  BY <1>1, <1>5 DEF GatewayInv, TypeOK
<1>7. capability_floor' = capability_floor
  BY <1>4 DEF capability_floor
<1>8. SoundDecisions'
  BY <1>1, <1>2, <1>6, <1>7 DEF GovernanceInv, SoundDecisions, Sound, At
<1>9. ASSUME ~overlapped' PROVE Alone' /\ Strictest' /\ Current'
  <2>1. Alone /\ Strictest /\ Current
    BY <1>4, <1>9 DEF GovernanceInv
  <2>2. call[w].eff = accumulate(gov[t], call[w].dec)
    BY <1>1, <2>1 DEF Current
  <2>3. /\ gov'[t] \in {gov[t], call[w].dec} \ {None}
        /\ Rank(call[w].dec) <= Rank(gov'[t])
        /\ gov[t] # None => Rank(gov[t]) <= Rank(gov'[t])
    BY <1>1, <1>6, <2>2, AccumulateStrictest DEF GatewayInv, TypeOK
  <2>4. Alone'
    BY <1>1, <1>2, <2>1 DEF Alone, At
  <2>5. Strictest'
    <3> SUFFICES gov'[t] \in history'[t] /\ \A d \in history'[t] : Rank(d) <= Rank(gov'[t])
      BY <1>6, <2>1, <2>3 DEF Strictest
    <3>1. CASE gov[t] = None
      BY <1>1, <1>6, <2>1, <2>3, <3>1 DEF Strictest
    <3>2. CASE gov[t] # None
      <4>1. gov[t] \in history[t] /\ \A d \in history[t] : Rank(d) <= Rank(gov[t])
        BY <1>1, <2>1, <3>2 DEF Strictest
      <4>2. \A d \in PolicyOutcome : Rank(d) \in Nat
        BY DEF Rank, PolicyOutcome
      <4>3. history[t] \subseteq PolicyOutcome /\ gov[t] \in PolicyOutcome
            /\ gov'[t] \in PolicyOutcome
        BY <1>1, <2>3, <3>2 DEF GatewayInv, TypeOK
      <4>4. \A d \in history[t] : Rank(d) <= Rank(gov'[t])
        BY <2>3, <3>2, <4>1, <4>2, <4>3
      <4> QED BY <1>6, <2>3, <4>1, <4>4
    <3> QED BY <3>1, <3>2
  <2>6. Current'
    <3> SUFFICES ASSUME NEW v \in Workers, call'[v] # None, call'[v].at \in Deciding
                 PROVE  \/ /\ call'[v] = call[v] /\ gov'[call[v].tc] = gov[call[v].tc]
                           /\ Approved(v) => Approved(v)'
                        \/ /\ call'[v].at = "gate" /\ gov'[call'[v].tc] # None
                           /\ call'[v].eff = gov'[call'[v].tc]
      BY <2>1 DEF Current, At, Deciding
    <3>1. CASE v = w
      BY <1>2, <1>3, <1>6, <2>3, <3>1
    <3>2. CASE v # w
      <4>1. call'[v] = call[v] /\ call[v].tc \in ToolCalls \ {t}
        BY <1>1, <1>2, <2>1, <3>2 DEF Alone, At, GatewayInv, TypeOK, Call
      <4> QED BY <1>4, <1>6, <4>1 DEF Approved, Mismatch
    <3> QED BY <3>1, <3>2
  <2> QED BY <2>4, <2>5, <2>6
<1> QED BY <1>8, <1>9 DEF GovernanceInv

(***************************************************************************)
(* The gate lets a call through to the handler only with ALLOW, or with    *)
(* REQUIRE_APPROVAL and an approval for its checkpoint.                    *)
(***************************************************************************)
LEMMA GateGoverns ==
  ASSUME GatewayInv, GovernanceInv, NEW w \in Workers, ApprovalGate(w)
  PROVE  GovernanceInv'
<1>1. At(w, "gate") /\ call[w] # None /\ call[w] \in Call /\ call[w].tc \in ToolCalls
  BY DEF ApprovalGate, At, GatewayInv, TypeOK, Call
<1>2. UNCHANGED <<setting, gov, history, approval, overlapped>>
  BY DEF ApprovalGate, rows, callers
<1>3. CASE ~Go(w, "checks")
  <2>1. PICK p \in {"create", "park", "deny"} : Go(w, p)
    BY <1>3 DEF ApprovalGate
  <2>2. p \in Phases /\ p \notin Deciding
    BY DEF Phases, Holding, Deciding
  <2>3. Quiet(w)
    BY <1>1, <1>2, <2>1, <2>2, GoMoves DEF Quiet, ApprovalsStand, GatewayInv
  <2> QED BY <2>3, QuietKeeps
<1>4. CASE Go(w, "checks")
  <2>1. /\ call'[w].at = "checks" /\ call'[w].tc = call[w].tc
        /\ \A v \in Workers \ {w} : call'[v] = call[v]
    BY <1>1, <1>4, GoMoves DEF GatewayInv, Phases, Holding
  <2>2. call' = [call EXCEPT ![w] = [call[w] EXCEPT !.at = "checks"]]
    BY <1>4 DEF Go
  <2>3. call'[w].eff = call[w].eff /\ call'[w].ckpt = call[w].ckpt
    BY <1>1, <2>2 DEF Call, GatewayInv, TypeOK
  <2>4. /\ call[w].eff = "REQUIRE_APPROVAL" => Approved(w)
        /\ call[w].eff # "DENY"
    <3>1. ASSUME NEW p \in {"create", "park", "deny"} PROVE ~Go(w, p)
      <4>1. SUFFICES ASSUME Go(w, p) PROVE FALSE
        OBVIOUS
      <4>2. p \in Phases
        BY DEF Phases, Holding
      <4>3. call'[w].at = p
        BY <1>1, <4>1, <4>2, GoMoves DEF GatewayInv
      <4> QED BY <2>1, <4>3
    <3> QED BY <3>1 DEF ApprovalGate
  <2>5. capability_floor' = capability_floor
    BY <1>2 DEF capability_floor
  <2>6. SoundDecisions'
    BY <1>2, <2>1, <2>5 DEF GovernanceInv, SoundDecisions, Sound, At
  <2>7. ASSUME ~overlapped' PROVE Alone' /\ Strictest' /\ Current'
    <3>1. Alone /\ Strictest /\ Current
      BY <1>2, <2>7 DEF GovernanceInv
    <3>2. Alone'
      BY <1>1, <2>1, <3>1 DEF Alone
    <3>3. Strictest'
      BY <1>2, <3>1 DEF Strictest
    <3>4. gov[call[w].tc] # None /\ call[w].eff = gov[call[w].tc]
      BY <1>1, <3>1 DEF Current
    <3>5. call[w].eff \in {"ALLOW", "REQUIRE_APPROVAL"}
      BY <1>1, <2>4, <3>1, <3>4 DEF Strictest, GovernanceInv, SoundDecisions, Sound
    <3>6. Current'
      <4> SUFFICES ASSUME NEW v \in Workers, call'[v] # None, call'[v].at \in Deciding
                   PROVE  \/ /\ call'[v] = call[v] /\ gov'[call[v].tc] = gov[call[v].tc]
                             /\ Approved(v) => Approved(v)'
                          \/ /\ call'[v].at = "checks" /\ gov'[call'[v].tc] # None
                             /\ call'[v].eff = gov'[call'[v].tc]
                             /\ call'[v].eff # "ALLOW" =>
                                  call'[v].eff = "REQUIRE_APPROVAL" /\ Approved(v)'
        BY <3>1 DEF Current, At, Deciding
      <4>1. CASE v = w
        <5>1. Approved(w) => Approved(w)'
          BY <1>2, <2>1, <2>3 DEF Approved, Mismatch
        <5> QED BY <1>2, <2>1, <2>3, <2>4, <3>4, <3>5, <4>1, <5>1
      <4>2. CASE v # w
        BY <1>2, <2>1, <4>2 DEF Approved, Mismatch
      <4> QED BY <4>1, <4>2
    <3> QED BY <3>2, <3>3, <3>6
  <2> QED BY <2>6, <2>7 DEF GovernanceInv
<1> QED BY <1>3, <1>4

(***************************************************************************)
(* A call begins with no decision; if its tool call is in progress already *)
(* the calls overlap from then on.                                         *)
(***************************************************************************)
LEMMA ExecuteGoverns ==
  ASSUME GatewayInv, GovernanceInv, NEW w \in Workers, NEW c \in ToolCalls,
         NEW k \in Ckpts \cup {None}, Execute(w, c, k)
  PROVE  GovernanceInv'
<1>1. /\ call'[w].at = "start" /\ call'[w].tc = c
      /\ \A v \in Workers \ {w} : call'[v] = call[v]
  BY DEF Execute, GatewayInv, TypeOK
<1>2. /\ UNCHANGED <<setting, gov, history, approval>> /\ call[w] = None
      /\ overlapped' = (overlapped \/ InProgress(c))
  BY DEF Execute, rows
<1>3. capability_floor' = capability_floor
  BY <1>2 DEF capability_floor
<1>4. SoundDecisions'
  BY <1>1, <1>2, <1>3 DEF GovernanceInv, SoundDecisions, Sound, At
<1>5. ASSUME ~overlapped' PROVE Alone' /\ Strictest' /\ Current'
  <2>1. Alone /\ Strictest /\ Current /\ ~InProgress(c)
    BY <1>2, <1>5 DEF GovernanceInv
  <2>2. Alone'
    BY <1>1, <2>1 DEF Alone, InProgress
  <2>3. Strictest'
    BY <1>2, <2>1 DEF Strictest
  <2>4. Current'
    <3> SUFFICES ASSUME NEW v \in Workers, call'[v] # None, call'[v].at \in Deciding
                 PROVE  /\ call'[v] = call[v] /\ gov' = gov
                        /\ Approved(v) => Approved(v)'
      BY <2>1 DEF Current, At, Deciding
    <3> QED BY <1>1, <1>2 DEF Approved, Mismatch, Deciding
  <2> QED BY <2>2, <2>3, <2>4
<1> QED BY <1>4, <1>5 DEF GovernanceInv

(***************************************************************************)
(* A reviewer's decision: compare-and-set on 'pending' leaves the given    *)
(* approvals alone.                                                        *)
(***************************************************************************)
LEMMA DecideGoverns ==
  ASSUME GatewayInv, GovernanceInv, NEW c \in ToolCalls, NEW approved \in BOOLEAN,
         Decide(c, approved)
  PROVE  GovernanceInv'
<1>1. UNCHANGED <<setting, gov, history, call, overlapped>>
  BY DEF Decide, callers
<1>2. \A d \in ToolCalls : Given(d) => approval'[d] = approval[d]
  BY DEF Decide, Given, GatewayInv, TypeOK
<1>3. capability_floor' = capability_floor
  BY <1>1 DEF capability_floor
<1>4. SoundDecisions' /\ (Alone => Alone') /\ (Strictest => Strictest')
  BY <1>1, <1>3 DEF GovernanceInv, SoundDecisions, Sound, At, Alone, Strictest
<1>5. ASSUME Current PROVE Current'
  <2> SUFFICES ASSUME NEW v \in Workers, call'[v] # None, call'[v].at \in Deciding
               PROVE  /\ call'[v] = call[v] /\ gov' = gov
                      /\ Approved(v) => Approved(v)'
    BY <1>5 DEF Current, At, Deciding
  <2>1. call[v].tc \in ToolCalls
    BY <1>1 DEF GatewayInv, TypeOK, Call
  <2>2. Approved(v) => approval'[call[v].tc] = approval[call[v].tc]
    BY <1>2, <2>1 DEF Given, Approved
  <2> QED BY <1>1, <2>2 DEF Approved, Mismatch
<1> QED BY <1>1, <1>4, <1>5 DEF GovernanceInv

(***************************************************************************)
(* Every action keeps the governance invariant.                            *)
(***************************************************************************)
LEMMA GovernanceInvNext ==
  ASSUME GatewayInv, GovernanceInv, [Next]_vars
  PROVE  GovernanceInv'
<1>1. CASE UNCHANGED vars
  BY <1>1 DEF vars, rows, callers, failures, GovernanceInv, SoundDecisions, Sound,
              capability_floor, Alone, Strictest, Current, At, Approved, Mismatch
<1>2. ASSUME NEW w \in Workers, Step(w) \/ WriteFails(w) \/ Crash(w)
      PROVE  GovernanceInv'
  BY <1>2, StepQuiet, QuietKeeps, EvaluateGoverns, SaveGoverns, GateGoverns DEF Step
<1>3. ASSUME NEW w \in Workers, NEW c \in ToolCalls, Submit(w, c)
      PROVE  GovernanceInv'
  <2>1. CkptOf[c] \in Ckpts \cup {None}
    BY GatewayAssumption
  <2> QED BY <1>3, <2>1, ExecuteGoverns DEF Submit
<1>4. ASSUME NEW w \in Workers, NEW c \in ToolCalls, Resume(w, c)
      PROVE  GovernanceInv'
  <2>1. approval[c].ckpt \in Ckpts \cup {None}
    BY <1>4 DEF Resume, Awaited, GatewayInv, TypeOK, ApprovalRow
  <2> QED BY <1>4, <2>1, ExecuteGoverns DEF Resume
<1>5. ASSUME NEW w \in Workers, NEW c \in ToolCalls, NEW k \in Ckpts, Repeat(w, c, k)
      PROVE  GovernanceInv'
  BY <1>5, ExecuteGoverns DEF Repeat
<1> QED BY <1>1, <1>2, <1>3, <1>4, <1>5, DecideGoverns DEF Next

(***************************************************************************)
(* Nothing is decided when the run begins.                                 *)
(***************************************************************************)
LEMMA GovernanceInvInit == Init => GovernanceInv
BY DEF Init, GovernanceInv, SoundDecisions, Alone, Strictest, Current, At

(***************************************************************************)
(* In every reachable state the decisions are at least the capability's    *)
(* floor, and calls that do not overlap work with the stored state.        *)
(***************************************************************************)
THEOREM GovernanceInductive == Spec => [](GatewayInv /\ GovernanceInv)
<1>1. Init => GatewayInv /\ GovernanceInv
  BY GatewayInvInit, GovernanceInvInit
<1>2. GatewayInv /\ GovernanceInv /\ [Next]_vars => (GatewayInv /\ GovernanceInv)'
  BY GatewayInvNext, GovernanceInvNext
<1> QED BY <1>1, <1>2, PTL DEF Spec

(***************************************************************************)
(* invocation_governance: as long as no tool call is executed by two       *)
(* workers at a time, the stored outcome is the strictest of all the       *)
(* decisions recorded, for any number of resumes, crashes and repeats.     *)
(***************************************************************************)
THEOREM StoredIsStrictest == Spec => []GovernanceMonotone
<1>1. GovernanceInv => GovernanceMonotone
  BY DEF GovernanceInv, Strictest, GovernanceMonotone
<1> QED BY <1>1, GovernanceInductive, PTL

(***************************************************************************)
(* The handler of a call that does not overlap runs only if no decision    *)
(* ever denied its tool call, and with the approval that any of them, or   *)
(* the capability's floor, asked for.                                      *)
(***************************************************************************)
THEOREM HandlerApproved == Spec => []ApprovalHonoured
<1>1. ASSUME GatewayInv, GovernanceInv PROVE ApprovalHonoured
  <2> SUFFICES ASSUME ~overlapped, NEW w \in Workers, At(w, "checks")
               PROVE  /\ history[call[w].tc] \cap {"DENY", "NON_APPROVABLE"} = {}
                      /\ "REQUIRE_APPROVAL" \in history[call[w].tc] \cup {capability_floor} =>
                           Approved(w)
    BY DEF ApprovalHonoured, Approved
  <2> DEFINE c == call[w].tc
  <2>1. c \in ToolCalls
    BY <1>1 DEF At, GatewayInv, TypeOK, Call
  <2>2. /\ gov[c] # None
        /\ gov[c] = "ALLOW" \/ (gov[c] = "REQUIRE_APPROVAL" /\ Approved(w))
    BY <1>1 DEF GovernanceInv, Current
  <2>3. gov[c] \in history[c] /\ \A d \in history[c] : Rank(d) <= Rank(gov[c])
    BY <1>1, <2>1, <2>2 DEF GovernanceInv, Strictest
  <2>4. \A d \in history[c] : Sound(d)
    BY <1>1, <2>1 DEF GovernanceInv, SoundDecisions
  <2> HIDE DEF c
  <2>5. history[c] \cap {"DENY", "NON_APPROVABLE"} = {}
    BY <2>2, <2>3, <2>4 DEF Rank, Sound
  <2>6. gov[c] = "ALLOW" => "REQUIRE_APPROVAL" \notin history[c] \cup {capability_floor}
    BY <2>3, <2>4 DEF Rank, Sound
  <2> QED BY <2>2, <2>5, <2>6 DEF c
<1> QED BY <1>1, GovernanceInductive, PTL
=============================================================================
