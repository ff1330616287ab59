------------------------- MODULE EventIntakeProofs -------------------------
(***************************************************************************)
(* The safety of the outbox and of the intake, for any bound on attempts,  *)
(* claims, faults and retries: what an event sets off is set off once, and *)
(* the outbox never believes more than AgentOS did.                        *)
(***************************************************************************)
EXTENDS EventIntake, TLAPS

(***************************************************************************)
(* The initial state is sound.                                             *)
(***************************************************************************)
LEMMA InitSound == Init => IndInv
<1> SUFFICES ASSUME Init PROVE IndInv
  OBVIOUS
<1> USE IntakeAssumption DEF Init, Deliveries
<1>1. TypeOK
  <2>1. /\ relay \in [Deliveries -> RelayPhases]
        /\ request \in [Deliveries -> RequestPhases]
        /\ call \in [Deliveries -> CallPhases]
    BY DEF RelayPhases, RequestPhases, CallPhases
  <2>2. kind \in EventKinds /\ status \in RowStatuses
    BY DEF RowStatuses
  <2>3. inbox \in {"absent", "pending"} \cup Outcomes
    BY DEF Outcomes
  <2>4. lapsed \in BOOLEAN /\ waiting \in BOOLEAN /\ sent \in BOOLEAN
        /\ undone \in BOOLEAN
    BY Zenon
  <2>5. /\ token \in 0 .. MaxClaims /\ claims \in 0 .. MaxClaims
        /\ writer \in 0 .. MaxClaims /\ faults \in 0 .. MaxFaults
        /\ retries \in 0 .. MaxRetries
    OBVIOUS
  <2> QED BY <2>1, <2>2, <2>3, <2>4, <2>5 DEF TypeOK
<1>2. Unstarted /\ AttemptsLeft /\ AttemptsBounded /\ CompleterOver
  BY DEF Unstarted, AttemptsLeft, AttemptsBounded, CompleterOver
<1>3. OpenTransaction /\ CallsAwaited /\ TasksOwned /\ FirstToMiss
      /\ PlatformTaskOnce /\ TriggerTaskOnce
  BY DEF OpenTransaction, CallsAwaited, TasksOwned, FirstToMiss, Scheduled,
       OpenCall, PlatformTaskOnce,
         TriggerTaskOnce
<1>4. CommandProgress /\ AuthoredOnce
  BY DEF CommandProgress, AuthoredOnce, Outcomes
<1>5. AnswersHandled /\ DeliveredMeansHandled
  BY DEF AnswersHandled, DeliveredMeansHandled
<1> QED BY <1>1, <1>2, <1>3, <1>4, <1>5 DEF IndInv

(***************************************************************************)
(* Claims, retries and the passing of time keep the invariant: they touch  *)
(* the row, and start deliveries that nobody has seen before.              *)
(***************************************************************************)
LEMMA OutboxSound ==
  ASSUME IndInv,
         \/ Append
         \/ Claim
         \/ Lapse
         \/ RetryOutbox
         \/ Prune
         \/ TaskTaken
  PROVE  IndInv'
<1> USE IntakeAssumption
<1> USE DEF rowVars, outboxVars, effectVars, inboxVars, historyVars, At, Fault,
       Deliveries
<1>0. /\ TypeOK /\ Unstarted /\ AttemptsLeft /\ AttemptsBounded
      /\ CompleterOver /\ OpenTransaction /\ CallsAwaited
      /\ TasksOwned /\ FirstToMiss
      /\ PlatformTaskOnce /\ TriggerTaskOnce /\ CommandProgress
      /\ AuthoredOnce /\ AnswersHandled /\ DeliveredMeansHandled
  BY DEF IndInv
<1>1. CASE Append
  <2>1. TypeOK'
    BY <1>0, <1>1 DEF Append, TypeOK, RowStatuses
  <2>2. Unstarted' /\ AttemptsLeft' /\ AttemptsBounded' /\ CompleterOver'
    BY <1>0, <1>1 DEF Append, Unstarted, AttemptsLeft, AttemptsBounded,
       CompleterOver
  <2>3. OpenTransaction' /\ CallsAwaited' /\ TasksOwned' /\ FirstToMiss'
        /\ PlatformTaskOnce' /\ TriggerTaskOnce'
    BY <1>0, <1>1 DEF Append, OpenTransaction, CallsAwaited, TasksOwned,
       FirstToMiss, Scheduled, OpenCall,
       PlatformTaskOnce, TriggerTaskOnce
  <2>4. CommandProgress' /\ AuthoredOnce'
    BY <1>0, <1>1 DEF Append, CommandProgress, AuthoredOnce
  <2>5. AnswersHandled' /\ DeliveredMeansHandled'
    BY <1>0, <1>1 DEF Append, AnswersHandled, DeliveredMeansHandled, Handled,
       RejectedTwice, Scheduled
  <2> QED BY <2>1, <2>2, <2>3, <2>4, <2>5 DEF IndInv
<1>2. CASE Claim
  <2>0. /\ claims + 1 \in Deliveries
        /\ reclaims' \in Nat /\ attempts' \in Nat
        /\ claims' \in 0 .. MaxClaims /\ token' \in 0 .. MaxClaims
        /\ relay' \in [Deliveries -> RelayPhases]
        /\ request' \in [Deliveries -> RequestPhases]
    BY <1>0, <1>2 DEF Claim, TypeOK, RelayPhases, RequestPhases
  <2>1. TypeOK'
    BY <1>0, <1>2, <2>0 DEF Claim, TypeOK, RowStatuses
  <2>2. Unstarted' /\ AttemptsLeft' /\ AttemptsBounded' /\ CompleterOver'
    BY <1>0, <1>2 DEF Claim, Due, Unstarted, AttemptsLeft, AttemptsBounded,
       CompleterOver, TypeOK
  <2>3. OpenTransaction' /\ CallsAwaited' /\ TasksOwned' /\ FirstToMiss'
        /\ PlatformTaskOnce' /\ TriggerTaskOnce'
    BY <1>0, <1>2 DEF Claim, OpenTransaction, CallsAwaited, TasksOwned, FirstToMiss,
       Scheduled, OpenCall,
       PlatformTaskOnce, TriggerTaskOnce, Unstarted, TypeOK
  <2>4. CommandProgress' /\ AuthoredOnce'
    BY <1>0, <1>2 DEF Claim, CommandProgress, AuthoredOnce, Outcomes
  <2>5. AnswersHandled' /\ DeliveredMeansHandled'
    BY <1>0, <1>2 DEF Claim, AnswersHandled, DeliveredMeansHandled, Handled,
       RejectedTwice, Scheduled, TypeOK
  <2> QED BY <2>1, <2>2, <2>3, <2>4, <2>5 DEF IndInv
<1>3. CASE Lapse
  <2>1. TypeOK'
    BY <1>0, <1>3 DEF Lapse, TypeOK
  <2>2. Unstarted' /\ AttemptsLeft' /\ AttemptsBounded' /\ CompleterOver'
    BY <1>0, <1>3 DEF Lapse, Unstarted, AttemptsLeft, AttemptsBounded,
       CompleterOver
  <2>3. OpenTransaction' /\ CallsAwaited' /\ TasksOwned' /\ FirstToMiss'
        /\ PlatformTaskOnce' /\ TriggerTaskOnce'
    BY <1>0, <1>3 DEF Lapse, OpenTransaction, CallsAwaited, TasksOwned, FirstToMiss,
       Scheduled, OpenCall,
       PlatformTaskOnce, TriggerTaskOnce
  <2>4. CommandProgress' /\ AuthoredOnce'
    BY <1>0, <1>3 DEF Lapse, CommandProgress, AuthoredOnce
  <2>5. AnswersHandled' /\ DeliveredMeansHandled'
    BY <1>0, <1>3 DEF Lapse, AnswersHandled, DeliveredMeansHandled, Handled,
       RejectedTwice, Scheduled
  <2> QED BY <2>1, <2>2, <2>3, <2>4, <2>5 DEF IndInv
<1>4. CASE RetryOutbox
  <2>1. TypeOK'
    BY <1>0, <1>4 DEF RetryOutbox, TypeOK, RowStatuses
  <2>2. Unstarted' /\ AttemptsLeft' /\ AttemptsBounded' /\ CompleterOver'
    BY <1>0, <1>4 DEF RetryOutbox, Unstarted, AttemptsLeft, AttemptsBounded,
       CompleterOver
  <2>3. OpenTransaction' /\ CallsAwaited' /\ TasksOwned' /\ FirstToMiss'
        /\ PlatformTaskOnce' /\ TriggerTaskOnce'
    BY <1>0, <1>4 DEF RetryOutbox, OpenTransaction, CallsAwaited, TasksOwned,
       FirstToMiss, Scheduled, OpenCall,
       PlatformTaskOnce, TriggerTaskOnce
  <2>4. CommandProgress' /\ AuthoredOnce'
    BY <1>0, <1>4 DEF RetryOutbox, CommandProgress, AuthoredOnce
  <2>5. AnswersHandled' /\ DeliveredMeansHandled'
    BY <1>0, <1>4 DEF RetryOutbox, AnswersHandled, DeliveredMeansHandled,
       Handled, RejectedTwice, Scheduled
  <2> QED BY <2>1, <2>2, <2>3, <2>4, <2>5 DEF IndInv
<1>5. CASE Prune
  <2>1. TypeOK'
    BY <1>0, <1>5 DEF Prune, TypeOK, RowStatuses
  <2>2. Unstarted' /\ AttemptsLeft' /\ AttemptsBounded' /\ CompleterOver'
    BY <1>0, <1>5 DEF Prune, Unstarted, AttemptsLeft, AttemptsBounded,
       CompleterOver
  <2>3. OpenTransaction' /\ CallsAwaited' /\ TasksOwned' /\ FirstToMiss'
        /\ PlatformTaskOnce' /\ TriggerTaskOnce'
    BY <1>0, <1>5 DEF Prune, OpenTransaction, CallsAwaited, TasksOwned, FirstToMiss,
       Scheduled, OpenCall,
       PlatformTaskOnce, TriggerTaskOnce
  <2>4. CommandProgress' /\ AuthoredOnce'
    BY <1>0, <1>5 DEF Prune, CommandProgress, AuthoredOnce
  <2>5. AnswersHandled' /\ DeliveredMeansHandled'
    BY <1>0, <1>5 DEF Prune, AnswersHandled, DeliveredMeansHandled, Handled,
       RejectedTwice, Scheduled
  <2> QED BY <2>1, <2>2, <2>3, <2>4, <2>5 DEF IndInv
<1>6. CASE TaskTaken
  <2>1. TypeOK'
    BY <1>0, <1>6 DEF TaskTaken, TypeOK
  <2>2. Unstarted' /\ AttemptsLeft' /\ AttemptsBounded' /\ CompleterOver'
    BY <1>0, <1>6 DEF TaskTaken, Unstarted, AttemptsLeft, AttemptsBounded,
       CompleterOver
  <2>3. OpenTransaction' /\ CallsAwaited' /\ TasksOwned' /\ FirstToMiss'
        /\ PlatformTaskOnce' /\ TriggerTaskOnce'
    BY <1>0, <1>6 DEF TaskTaken, OpenTransaction, CallsAwaited, TasksOwned,
       FirstToMiss, Scheduled, OpenCall,
       PlatformTaskOnce, TriggerTaskOnce
  <2>4. CommandProgress' /\ AuthoredOnce'
    BY <1>0, <1>6 DEF TaskTaken, CommandProgress, AuthoredOnce
  <2>5. AnswersHandled' /\ DeliveredMeansHandled'
    BY <1>0, <1>6 DEF TaskTaken, AnswersHandled, DeliveredMeansHandled, Handled,
       RejectedTwice, Scheduled
  <2> QED BY <2>1, <2>2, <2>3, <2>4, <2>5 DEF IndInv
<1> QED BY <1>1, <1>2, <1>3, <1>4, <1>5, <1>6

(***************************************************************************)
(* What a relay does with an answer, or without one, keeps the invariant:  *)
(* it says "delivered" only of what is handled.                            *)
(***************************************************************************)
LEMMA RelaySound ==
  ASSUME IndInv,
         \/ (\E n \in Deliveries : Complete(n))
         \/ (\E n \in Deliveries : CompleteReplyLost(n))
         \/ (\E n \in Deliveries : Fail(n))
         \/ (\E n \in Deliveries : RelayDies(n))
         \/ (\E n \in Deliveries : ReplyLost(n))
  PROVE  IndInv'
<1> USE IntakeAssumption
<1> USE DEF rowVars, outboxVars, effectVars, inboxVars, historyVars, At, Fault,
       Deliveries
<1>0. /\ TypeOK /\ Unstarted /\ AttemptsLeft /\ AttemptsBounded
      /\ CompleterOver /\ OpenTransaction /\ CallsAwaited
      /\ TasksOwned /\ FirstToMiss
      /\ PlatformTaskOnce /\ TriggerTaskOnce /\ CommandProgress
      /\ AuthoredOnce /\ AnswersHandled /\ DeliveredMeansHandled
  BY DEF IndInv
<1>1. ASSUME NEW n \in Deliveries, Complete(n)
      PROVE  IndInv'
  <2>1. TypeOK'
    BY <1>0, <1>1 DEF Complete, Completed, TypeOK, RowStatuses, RelayPhases
  <2>2. Unstarted' /\ AttemptsLeft' /\ AttemptsBounded' /\ CompleterOver'
    BY <1>0, <1>1 DEF Complete, Completed, Unstarted, AttemptsLeft,
       AttemptsBounded, CompleterOver, TypeOK
  <2>3. OpenTransaction' /\ CallsAwaited' /\ TasksOwned' /\ FirstToMiss'
        /\ PlatformTaskOnce' /\ TriggerTaskOnce'
    BY <1>0, <1>1 DEF Complete, OpenTransaction, CallsAwaited, TasksOwned,
       FirstToMiss, Scheduled, OpenCall,
       PlatformTaskOnce, TriggerTaskOnce
  <2>4. CommandProgress' /\ AuthoredOnce'
    BY <1>0, <1>1 DEF Complete, CommandProgress, AuthoredOnce
  <2>5. AnswersHandled' /\ DeliveredMeansHandled'
    BY <1>0, <1>1 DEF Complete, AnswersHandled, DeliveredMeansHandled, Handled,
       RejectedTwice, Scheduled
  <2> QED BY <2>1, <2>2, <2>3, <2>4, <2>5 DEF IndInv
<1>2. ASSUME NEW n \in Deliveries, CompleteReplyLost(n)
      PROVE  IndInv'
  <2>1. TypeOK'
    BY <1>0, <1>2 DEF CompleteReplyLost, Completed, TypeOK, RowStatuses,
       RelayPhases
  <2>2. Unstarted' /\ AttemptsLeft' /\ AttemptsBounded' /\ CompleterOver'
    BY <1>0, <1>2 DEF CompleteReplyLost, Completed, Unstarted, AttemptsLeft,
       AttemptsBounded, CompleterOver
  <2>3. OpenTransaction' /\ CallsAwaited' /\ TasksOwned' /\ FirstToMiss'
        /\ PlatformTaskOnce' /\ TriggerTaskOnce'
    BY <1>0, <1>2 DEF CompleteReplyLost, OpenTransaction, CallsAwaited,
       TasksOwned, FirstToMiss, Scheduled, OpenCall, PlatformTaskOnce, TriggerTaskOnce
  <2>4. CommandProgress' /\ AuthoredOnce'
    BY <1>0, <1>2 DEF CompleteReplyLost, CommandProgress, AuthoredOnce
  <2>5. AnswersHandled' /\ DeliveredMeansHandled'
    BY <1>0, <1>2 DEF CompleteReplyLost, AnswersHandled, DeliveredMeansHandled,
       Handled, RejectedTwice, Scheduled
  <2> QED BY <2>1, <2>2, <2>3, <2>4, <2>5 DEF IndInv
<1>3. ASSUME NEW n \in Deliveries, Fail(n)
      PROVE  IndInv'
  <2>1. TypeOK'
    BY <1>0, <1>3 DEF Fail, TypeOK, RowStatuses, RelayPhases
  <2>2. Unstarted' /\ AttemptsLeft' /\ AttemptsBounded' /\ CompleterOver'
    BY <1>0, <1>3 DEF Fail, Exhausted, Unstarted, AttemptsLeft,
       AttemptsBounded, CompleterOver, TypeOK
  <2>3. OpenTransaction' /\ CallsAwaited' /\ TasksOwned' /\ FirstToMiss'
        /\ PlatformTaskOnce' /\ TriggerTaskOnce'
    BY <1>0, <1>3 DEF Fail, OpenTransaction, CallsAwaited, TasksOwned, FirstToMiss,
       Scheduled, OpenCall,
       PlatformTaskOnce, TriggerTaskOnce
  <2>4. CommandProgress' /\ AuthoredOnce'
    BY <1>0, <1>3 DEF Fail, CommandProgress, AuthoredOnce
  <2>5. AnswersHandled' /\ DeliveredMeansHandled'
    BY <1>0, <1>3 DEF Fail, AnswersHandled, DeliveredMeansHandled, Handled,
       RejectedTwice, Scheduled
  <2> QED BY <2>1, <2>2, <2>3, <2>4, <2>5 DEF IndInv
<1>4. ASSUME NEW n \in Deliveries, RelayDies(n)
      PROVE  IndInv'
  <2>1. TypeOK'
    BY <1>0, <1>4 DEF RelayDies, TypeOK, RelayPhases
  <2>2. Unstarted' /\ AttemptsLeft' /\ AttemptsBounded' /\ CompleterOver'
    BY <1>0, <1>4 DEF RelayDies, Unstarted, AttemptsLeft, AttemptsBounded,
       CompleterOver
  <2>3. OpenTransaction' /\ CallsAwaited' /\ TasksOwned' /\ FirstToMiss'
        /\ PlatformTaskOnce' /\ TriggerTaskOnce'
    BY <1>0, <1>4 DEF RelayDies, OpenTransaction, CallsAwaited, TasksOwned,
       FirstToMiss, Scheduled, OpenCall,
       PlatformTaskOnce, TriggerTaskOnce
  <2>4. CommandProgress' /\ AuthoredOnce'
    BY <1>0, <1>4 DEF RelayDies, CommandProgress, AuthoredOnce
  <2>5. AnswersHandled' /\ DeliveredMeansHandled'
    BY <1>0, <1>4 DEF RelayDies, AnswersHandled, DeliveredMeansHandled, Handled,
       RejectedTwice, Scheduled
  <2> QED BY <2>1, <2>2, <2>3, <2>4, <2>5 DEF IndInv
<1>5. ASSUME NEW n \in Deliveries, ReplyLost(n)
      PROVE  IndInv'
  <2>1. TypeOK'
    BY <1>0, <1>5 DEF ReplyLost, TypeOK, RelayPhases, RequestPhases
  <2>2. Unstarted' /\ AttemptsLeft' /\ AttemptsBounded' /\ CompleterOver'
    BY <1>0, <1>5 DEF ReplyLost, Unstarted, AttemptsLeft, AttemptsBounded,
       CompleterOver, TypeOK
  <2>3. OpenTransaction' /\ CallsAwaited' /\ TasksOwned' /\ FirstToMiss'
        /\ PlatformTaskOnce' /\ TriggerTaskOnce'
    BY <1>0, <1>5 DEF ReplyLost, OpenTransaction, CallsAwaited, TasksOwned,
       FirstToMiss, Scheduled, OpenCall,
       PlatformTaskOnce, TriggerTaskOnce, TypeOK
  <2>4. CommandProgress' /\ AuthoredOnce'
    BY <1>0, <1>5 DEF ReplyLost, CommandProgress, AuthoredOnce, TypeOK,
       Outcomes
  <2>5. AnswersHandled' /\ DeliveredMeansHandled'
    BY <1>0, <1>5 DEF ReplyLost, AnswersHandled, DeliveredMeansHandled, Handled,
       RejectedTwice, Scheduled, TypeOK
  <2> QED BY <2>1, <2>2, <2>3, <2>4, <2>5 DEF IndInv
<1> QED BY <1>1, <1>2, <1>3, <1>4, <1>5

(***************************************************************************)
(* The transaction around record, schedule and set_outcome keeps the       *)
(* invariant, wherever it ends.                                            *)
(***************************************************************************)
LEMMA IntakeSound ==
  ASSUME IndInv,
         \/ (\E n \in Deliveries : Record(n))
         \/ (\E n \in Deliveries, o \in {"refused", "rejected"} : Refuse(n, o))
         \/ (\E n \in Deliveries : Schedule(n))
         \/ (\E n \in Deliveries : Commit(n))
         \/ (\E n \in Deliveries : RequestDies(n))
  PROVE  IndInv'
<1> USE IntakeAssumption
<1> USE DEF rowVars, outboxVars, effectVars, inboxVars, historyVars, At, Fault,
       Deliveries
<1>0. /\ TypeOK /\ Unstarted /\ AttemptsLeft /\ AttemptsBounded
      /\ CompleterOver /\ OpenTransaction /\ CallsAwaited
      /\ TasksOwned /\ FirstToMiss
      /\ PlatformTaskOnce /\ TriggerTaskOnce /\ CommandProgress
      /\ AuthoredOnce /\ AnswersHandled /\ DeliveredMeansHandled
  BY DEF IndInv
<1>1. ASSUME NEW n \in Deliveries, Record(n)
      PROVE  IndInv'
  <2>1. TypeOK'
    BY <1>0, <1>1 DEF Record, Answer, TypeOK, RelayPhases, RequestPhases
  <2>2. Unstarted' /\ AttemptsLeft' /\ AttemptsBounded' /\ CompleterOver'
    BY <1>0, <1>1 DEF Record, Answer, Unstarted, AttemptsLeft, AttemptsBounded,
       CompleterOver, TypeOK
  <2>3. OpenTransaction' /\ CallsAwaited' /\ TasksOwned' /\ FirstToMiss'
        /\ PlatformTaskOnce' /\ TriggerTaskOnce'
    BY <1>0, <1>1 DEF Record, Unlocked, OpenTransaction, CallsAwaited,
       TasksOwned, FirstToMiss, Scheduled, OpenCall, PlatformTaskOnce, TriggerTaskOnce, TypeOK
  <2>4. CommandProgress' /\ AuthoredOnce'
    BY <1>0, <1>1 DEF Record, CommandProgress, AuthoredOnce, TypeOK, Outcomes
  <2>5. AnswersHandled' /\ DeliveredMeansHandled'
    <3>1. n <= claims
      BY <1>0, <1>1 DEF Record, Unstarted, TypeOK
    <3>2. inbox = "rejected" => claims > 1
      <4>1. ASSUME NEW m \in Deliveries, m <= claims, request[m] = "over"
            PROVE  claims > 1
        BY <1>0, <1>1, <3>1, <4>1 DEF Record, TypeOK
      <4> QED BY <1>0, <1>1, <4>1 DEF Record, AnswersHandled
    <3>3. inbox # "absent" => Handled \/ RejectedTwice
      BY <1>0, <1>1, <3>2 DEF Record, AnswersHandled, RejectedTwice
    <3>4. (Handled \/ RejectedTwice)' <=> Handled \/ RejectedTwice
      BY <1>1 DEF Record, Handled, RejectedTwice, Scheduled
    <3>5. (kind # "founder" /\ inbox # "absent" => Handled \/ inbox = "rejected")'
      BY <1>0, <1>1 DEF Record, AnswersHandled, Handled, Scheduled
    <3>6. (kind # "founder" /\ inbox = "rejected" =>
             \E m \in Deliveries : m <= claims /\ request[m] = "over")'
      BY <1>0, <1>1 DEF Record, AnswersHandled, TypeOK
    <3>7. ASSUME NEW m \in Deliveries, relay'[m] = "ok"
          PROVE  (Handled \/ RejectedTwice)'
      BY <1>0, <1>1, <3>3, <3>4, <3>7 DEF Record, Answer, AnswersHandled, TypeOK
    <3> QED BY <1>0, <1>1, <3>4, <3>5, <3>6, <3>7 DEF Record, AnswersHandled,
            DeliveredMeansHandled
  <2> QED BY <2>1, <2>2, <2>3, <2>4, <2>5 DEF IndInv
<1>2. ASSUME NEW n \in Deliveries, NEW o \in {"refused", "rejected"}, Refuse(n, o)
      PROVE  IndInv'
  <2>1. TypeOK'
    BY <1>0, <1>2 DEF Refuse, Answer, TypeOK, RelayPhases, RequestPhases,
       Outcomes
  <2>2. Unstarted' /\ AttemptsLeft' /\ AttemptsBounded' /\ CompleterOver'
    BY <1>0, <1>2 DEF Refuse, Answer, Unstarted, AttemptsLeft, AttemptsBounded,
       CompleterOver
  <2>3. OpenTransaction' /\ CallsAwaited' /\ TasksOwned' /\ FirstToMiss'
        /\ PlatformTaskOnce' /\ TriggerTaskOnce'
    BY <1>0, <1>2 DEF Refuse, OpenTransaction, CallsAwaited, TasksOwned,
       FirstToMiss, Scheduled, OpenCall, PlatformTaskOnce,
       TriggerTaskOnce, TypeOK
  <2>4. CommandProgress' /\ AuthoredOnce'
    BY <1>0, <1>2 DEF Refuse, CommandProgress, AuthoredOnce, Outcomes
  <2>5. AnswersHandled' /\ DeliveredMeansHandled'
    <3>1. /\ kind # "founder" /\ inbox = "absent" /\ n <= claims
          /\ inbox' = o /\ kind' = kind /\ claims' = claims /\ status' = status
      BY <1>0, <1>2 DEF Refuse, OpenTransaction, Unstarted, TypeOK
    <3>2. ~Handled /\ ~RejectedTwice
      BY <3>1 DEF Handled, RejectedTwice
    <3>3. \A m \in Deliveries : relay'[m] = "ok" => o = "refused"
      BY <1>0, <1>2, <3>2 DEF Refuse, Answer, AnswersHandled, TypeOK
    <3>4. o = "refused" => Handled'
      BY <3>1 DEF Handled
    <3>5. request'[n] = "over"
      BY <1>0, <1>2 DEF Refuse, TypeOK
    <3> QED BY <1>0, <1>2, <3>1, <3>2, <3>3, <3>4, <3>5 DEF AnswersHandled,
            DeliveredMeansHandled
  <2> QED BY <2>1, <2>2, <2>3, <2>4, <2>5 DEF IndInv
<1>3. ASSUME NEW n \in Deliveries, Schedule(n)
      PROVE  IndInv'
  <2>1. TypeOK'
    BY <1>0, <1>3 DEF Schedule, TypeOK, RequestPhases, CallPhases, OpenCall
  <2>2. Unstarted' /\ AttemptsLeft' /\ AttemptsBounded' /\ CompleterOver'
    BY <1>0, <1>3 DEF Schedule, Unstarted, AttemptsLeft, AttemptsBounded,
       CompleterOver
  <2>3. call[n] # "inserted" => Scheduled' = Scheduled
    BY <1>0, <1>3 DEF Schedule, Scheduled, TypeOK
  <2>4. call[n] # "inserted"
    BY <1>0, <1>3 DEF Schedule, CallsAwaited
  <2>5. OpenTransaction' /\ CallsAwaited' /\ TasksOwned' /\ FirstToMiss'
        /\ PlatformTaskOnce' /\ TriggerTaskOnce'
    BY <1>0, <1>3, <2>3, <2>4 DEF Schedule, OpenTransaction, CallsAwaited,
       TasksOwned, FirstToMiss, OpenCall, PlatformTaskOnce, TriggerTaskOnce, TypeOK
  <2>6. CommandProgress' /\ AuthoredOnce'
    BY <1>0, <1>3 DEF Schedule, CommandProgress, AuthoredOnce, Outcomes
  <2>7. AnswersHandled' /\ DeliveredMeansHandled'
    BY <1>0, <1>3, <2>3, <2>4 DEF Schedule, AnswersHandled, DeliveredMeansHandled,
       Handled, RejectedTwice, TypeOK
  <2> QED BY <2>1, <2>2, <2>5, <2>6, <2>7 DEF IndInv
<1>4. ASSUME NEW n \in Deliveries, Commit(n)
      PROVE  IndInv'
  <2>1. TypeOK'
    BY <1>0, <1>4 DEF Commit, Answer, TypeOK, RelayPhases, RequestPhases,
       Outcomes
  <2>2. Unstarted' /\ AttemptsLeft' /\ AttemptsBounded' /\ CompleterOver'
    BY <1>0, <1>4 DEF Commit, Answer, Unstarted, AttemptsLeft, AttemptsBounded,
       CompleterOver
  <2>3. OpenTransaction' /\ CallsAwaited' /\ TasksOwned' /\ FirstToMiss'
        /\ PlatformTaskOnce' /\ TriggerTaskOnce'
    BY <1>0, <1>4 DEF Commit, OpenTransaction, CallsAwaited, TasksOwned,
       FirstToMiss, Scheduled, OpenCall, PlatformTaskOnce,
       TriggerTaskOnce, TypeOK
  <2>4. CommandProgress' /\ AuthoredOnce'
    BY <1>0, <1>4 DEF Commit, CommandProgress, AuthoredOnce, Outcomes
  <2>5. AnswersHandled' /\ DeliveredMeansHandled'
    BY <1>0, <1>4 DEF Commit, AnswersHandled, DeliveredMeansHandled, Handled,
       RejectedTwice, Scheduled,
       Outcomes, OpenTransaction
  <2> QED BY <2>1, <2>2, <2>3, <2>4, <2>5 DEF IndInv
<1>5. ASSUME NEW n \in Deliveries, RequestDies(n)
      PROVE  IndInv'
  <2>1. TypeOK'
    BY <1>0, <1>5 DEF RequestDies, Rollback, Answer, TypeOK, RelayPhases, RequestPhases
  <2>2. Unstarted' /\ AttemptsLeft' /\ AttemptsBounded' /\ CompleterOver'
    BY <1>0, <1>5 DEF RequestDies, Rollback, Answer, Unstarted, AttemptsLeft,
       AttemptsBounded, CompleterOver
  <2>3. OpenTransaction' /\ CallsAwaited' /\ TasksOwned' /\ FirstToMiss'
        /\ PlatformTaskOnce' /\ TriggerTaskOnce'
    BY <1>0, <1>5 DEF RequestDies, Rollback, OpenTransaction, CallsAwaited,
       TasksOwned, FirstToMiss, Scheduled, OpenCall,
       PlatformTaskOnce, TriggerTaskOnce, TypeOK
  <2>4. CommandProgress' /\ AuthoredOnce'
    BY <1>0, <1>5 DEF RequestDies, Rollback, CommandProgress, AuthoredOnce, Outcomes
  <2>5. AnswersHandled' /\ DeliveredMeansHandled'
    BY <1>0, <1>5 DEF RequestDies, Rollback, Answer, AnswersHandled,
       DeliveredMeansHandled, Handled, RejectedTwice, Scheduled
  <2> QED BY <2>1, <2>2, <2>3, <2>4, <2>5 DEF IndInv
<1> QED BY <1>1, <1>2, <1>3, <1>4, <1>5

(***************************************************************************)
(* What the control plane does with a call keeps the invariant, whether    *)
(* its request still waits for it or not.                                  *)
(***************************************************************************)
LEMMA CallSound ==
  ASSUME IndInv, NEW n \in Deliveries, CallStep(n)
  PROVE  IndInv'
<1> USE IntakeAssumption
<1> USE DEF rowVars, outboxVars, effectVars, inboxVars, historyVars, At, Deliveries
<1>0. /\ TypeOK /\ Unstarted /\ AttemptsLeft /\ AttemptsBounded
      /\ CompleterOver /\ OpenTransaction /\ CallsAwaited
      /\ TasksOwned /\ FirstToMiss
      /\ PlatformTaskOnce /\ TriggerTaskOnce /\ CommandProgress
      /\ AuthoredOnce /\ AnswersHandled /\ DeliveredMeansHandled
  BY DEF IndInv
<1>1. CASE Lookup(n)
  <2>1. TypeOK'
    BY <1>0, <1>1 DEF Lookup, Reply, TypeOK, RequestPhases, CallPhases, OpenCall
  <2>2. Unstarted' /\ AttemptsLeft' /\ AttemptsBounded' /\ CompleterOver'
    BY <1>0, <1>1 DEF Lookup, Reply, Unstarted, AttemptsLeft, AttemptsBounded,
       CompleterOver, TypeOK
  <2>3. Scheduled' = Scheduled
    BY <1>0, <1>1 DEF Lookup, Scheduled, TypeOK
  <2>4. Coalesces => Scheduled # {}
    BY <1>0 DEF Coalesces, TasksOwned
  <2>5. OpenTransaction' /\ CallsAwaited' /\ TasksOwned' /\ FirstToMiss'
    <3>1. CASE Coalesces
      <4>1. call' = [call EXCEPT ![n] = "over"] /\ Reply(n)
            /\ UNCHANGED <<kind, writer, inbox, waiting, orphaned, abandoned>>
        BY <1>1, <3>1 DEF Lookup
      <4>2. OpenTransaction'
        BY <1>0, <2>3, <2>4, <3>1, <4>1 DEF Reply, OpenTransaction, TypeOK
      <4>3. CallsAwaited'
        BY <1>0, <1>1, <4>1 DEF Lookup, Reply, CallsAwaited, OpenCall, TypeOK
      <4>4. TasksOwned' /\ FirstToMiss'
        BY <1>0, <2>3, <4>1 DEF Reply, TasksOwned, FirstToMiss, TypeOK
      <4> QED BY <4>2, <4>3, <4>4
    <3>2. CASE ~Coalesces
      <4>1. call' = [call EXCEPT ![n] = "missed"]
            /\ UNCHANGED <<kind, request, writer, inbox, waiting, orphaned, abandoned>>
        BY <1>1, <3>2 DEF Lookup
      <4>2. OpenTransaction' /\ TasksOwned'
        BY <1>0, <2>3, <4>1 DEF OpenTransaction, TasksOwned
      <4>3. CallsAwaited'
        BY <1>0, <1>1, <4>1 DEF Lookup, CallsAwaited, OpenCall, TypeOK
      <4>4. FirstToMiss'
        BY <1>0, <2>3, <3>2, <4>1 DEF Coalesces, FirstToMiss, TypeOK
      <4> QED BY <4>2, <4>3, <4>4
    <3> QED BY <3>1, <3>2
  <2>6. PlatformTaskOnce' /\ TriggerTaskOnce'
    BY <1>0, <1>1, <2>3 DEF Lookup, PlatformTaskOnce, TriggerTaskOnce
  <2>7. CommandProgress' /\ AuthoredOnce'
    BY <1>0, <1>1 DEF Lookup, Reply, CommandProgress, AuthoredOnce, Outcomes, TypeOK
  <2>8. AnswersHandled' /\ DeliveredMeansHandled'
    BY <1>0, <1>1, <2>3 DEF Lookup, Reply, AnswersHandled, DeliveredMeansHandled,
       Handled, RejectedTwice, TypeOK
  <2> QED BY <2>1, <2>2, <2>5, <2>6, <2>7, <2>8 DEF IndInv
<1>2. CASE Insert(n)
  <2>1. TypeOK'
    BY <1>0, <1>2 DEF Insert, Reply, TypeOK, RequestPhases, CallPhases, OpenCall
  <2>2. Unstarted' /\ AttemptsLeft' /\ AttemptsBounded' /\ CompleterOver'
    BY <1>0, <1>2 DEF Insert, Reply, Unstarted, AttemptsLeft, AttemptsBounded,
       CompleterOver, TypeOK
  <2>3. Scheduled' = Scheduled \cup {n}
    BY <1>0, <1>2 DEF Insert, Scheduled, TypeOK
  <2>4. n \in abandoned \/ request[n] = "schedule"
    BY <1>0, <1>2 DEF Insert, CallsAwaited, OpenCall
  <2>5. OpenTransaction' /\ CallsAwaited' /\ TasksOwned'
    BY <1>0, <1>2, <2>3, <2>4 DEF Insert, Reply, OpenTransaction, CallsAwaited,
       TasksOwned, OpenCall, TypeOK
  <2>6. FirstToMiss'
    <3>1. ASSUME NEW m \in Deliveries \ abandoned, call'[m] = "missed",
                 n \notin abandoned
          PROVE  FALSE
      <4>1. m # n /\ call[m] = "missed"
        BY <1>0, <1>2, <3>1 DEF Insert, TypeOK
      <4>2. request[m] = "schedule" /\ request[n] = "schedule"
        BY <1>0, <2>4, <3>1, <4>1 DEF CallsAwaited, OpenCall
      <4> QED BY <1>0, <4>1, <4>2 DEF OpenTransaction
    <3> QED BY <1>0, <1>2, <2>3, <3>1 DEF Insert, FirstToMiss, TypeOK
  <2>7. PlatformTaskOnce'
    <3>1. n \in orphaned \/ request[n] = "schedule"
      BY <1>0, <2>4 DEF CallsAwaited
    <3>2. request[n] = "schedule" => Scheduled \subseteq orphaned
      <4> SUFFICES ASSUME request[n] = "schedule", NEW m \in Scheduled, m \notin orphaned
                   PROVE  FALSE
        OBVIOUS
      <4>1. m \in Deliveries /\ writer = n /\ inbox = "absent"
        BY <1>0 DEF OpenTransaction, Scheduled
      <4>2. request[m] = "commit"
        BY <1>0, <4>1 DEF TasksOwned
      <4> QED BY <1>0, <4>1, <4>2 DEF OpenTransaction
    <3> QED BY <1>0, <1>2, <2>3, <3>1, <3>2 DEF Insert, PlatformTaskOnce
  <2>8. TriggerTaskOnce'
    BY <1>0, <1>2, <2>3 DEF Insert, FirstToMiss, TriggerTaskOnce
  <2>9. CommandProgress' /\ AuthoredOnce'
    BY <1>0, <1>2 DEF Insert, Reply, CommandProgress, AuthoredOnce, Outcomes, TypeOK
  <2>10. AnswersHandled' /\ DeliveredMeansHandled'
    BY <1>0, <1>2, <2>3 DEF Insert, Reply, AnswersHandled, DeliveredMeansHandled,
       Handled, RejectedTwice, TypeOK
  <2> QED BY <2>1, <2>2, <2>5, <2>6, <2>7, <2>8, <2>9, <2>10 DEF IndInv
<1>3. CASE InsertRejected(n)
  <2>1. TypeOK'
    BY <1>0, <1>3 DEF InsertRejected, Rollback, Answer, TypeOK, RelayPhases,
       RequestPhases, CallPhases, OpenCall
  <2>2. Unstarted' /\ AttemptsLeft' /\ AttemptsBounded' /\ CompleterOver'
    BY <1>0, <1>3 DEF InsertRejected, Rollback, Answer, Unstarted, AttemptsLeft,
       AttemptsBounded, CompleterOver, TypeOK
  <2>3. Scheduled' = Scheduled
    BY <1>0, <1>3 DEF InsertRejected, Scheduled, TypeOK
  <2>4. OpenTransaction' /\ CallsAwaited' /\ TasksOwned' /\ FirstToMiss'
    <3>1. /\ call[n] = "missed" /\ call' = [call EXCEPT ![n] = "over"]
          /\ UNCHANGED <<kind, inbox, waiting, orphaned, abandoned>>
          /\ \/ /\ request[n] = "schedule" /\ request' = [request EXCEPT ![n] = "over"]
                /\ writer' = IF writer = n THEN 0 ELSE writer
             \/ request[n] # "schedule" /\ UNCHANGED <<request, writer>>
      BY <1>3 DEF InsertRejected, Rollback
    <3>2. OpenTransaction'
      BY <1>0, <2>3, <3>1 DEF OpenTransaction, TypeOK
    <3>3. CallsAwaited'
      BY <1>0, <3>1 DEF CallsAwaited, OpenCall, TypeOK
    <3>4. TasksOwned' /\ FirstToMiss'
      <4>1. Scheduled \subseteq Deliveries /\ n \notin Scheduled
        BY <3>1 DEF Scheduled
      <4> QED BY <1>0, <2>3, <3>1, <4>1 DEF TasksOwned, FirstToMiss, TypeOK
    <3> QED BY <3>2, <3>3, <3>4
  <2>5. PlatformTaskOnce' /\ TriggerTaskOnce'
    BY <1>0, <1>3, <2>3 DEF InsertRejected, PlatformTaskOnce, TriggerTaskOnce
  <2>6. CommandProgress' /\ AuthoredOnce'
    BY <1>0, <1>3 DEF InsertRejected, Rollback, CommandProgress, AuthoredOnce,
       Outcomes, TypeOK
  <2>7. AnswersHandled' /\ DeliveredMeansHandled'
    BY <1>0, <1>3, <2>3 DEF InsertRejected, Rollback, Answer, AnswersHandled,
       DeliveredMeansHandled, Handled, RejectedTwice, TypeOK
  <2> QED BY <2>1, <2>2, <2>4, <2>5, <2>6, <2>7 DEF IndInv
<1> QED BY <1>1, <1>2, <1>3 DEF CallStep

(***************************************************************************)
(* The steps of a founder's command keep the invariant.                    *)
(***************************************************************************)
LEMMA CommandSound ==
  ASSUME IndInv,
         \/ (\E n \in Deliveries : RecordFounder(n))
         \/ (\E n \in Deliveries : RejectCommand(n))
         \/ (\E n \in Deliveries : Author(n))
         \/ (\E n \in Deliveries : Enqueue(n))
         \/ (\E n \in Deliveries : EnqueueFails(n))
         \/ (\E n \in Deliveries : Send(n))
         \/ (\E n \in Deliveries : SendFails(n))
         \/ (\E n \in Deliveries : MarkDelivered(n))
         \/ (\E n \in Deliveries : SetOutcome(n))
  PROVE  IndInv'
<1> USE IntakeAssumption
<1> USE DEF rowVars, outboxVars, effectVars, inboxVars, historyVars, At, Fault,
       Deliveries
<1>0. /\ TypeOK /\ Unstarted /\ AttemptsLeft /\ AttemptsBounded
      /\ CompleterOver /\ OpenTransaction /\ CallsAwaited
      /\ TasksOwned /\ FirstToMiss
      /\ PlatformTaskOnce /\ TriggerTaskOnce /\ CommandProgress
      /\ AuthoredOnce /\ AnswersHandled /\ DeliveredMeansHandled
  BY DEF IndInv
<1>1. ASSUME NEW n \in Deliveries, RecordFounder(n)
      PROVE  IndInv'
  <2>1. TypeOK'
    BY <1>0, <1>1 DEF RecordFounder, Answer, TypeOK, RelayPhases,
       RequestPhases, Outcomes
  <2>2. Unstarted' /\ AttemptsLeft' /\ AttemptsBounded' /\ CompleterOver'
    BY <1>0, <1>1 DEF RecordFounder, Answer, Unstarted, AttemptsLeft,
       AttemptsBounded, CompleterOver, TypeOK
  <2>3. OpenTransaction' /\ CallsAwaited' /\ TasksOwned' /\ FirstToMiss'
        /\ PlatformTaskOnce' /\ TriggerTaskOnce'
    BY <1>0, <1>1 DEF RecordFounder, FounderDuplicate, OpenTransaction,
       CallsAwaited, TasksOwned, FirstToMiss, Scheduled, OpenCall, PlatformTaskOnce, TriggerTaskOnce, TypeOK
  <2>4. CommandProgress' /\ AuthoredOnce'
    BY <1>0, <1>1 DEF RecordFounder, FounderDuplicate, CommandProgress,
       AuthoredOnce, TypeOK
  <2>5. AnswersHandled' /\ DeliveredMeansHandled'
    BY <1>0, <1>1 DEF RecordFounder, AnswersHandled, DeliveredMeansHandled,
       Handled, RejectedTwice, Scheduled, CommandProgress
  <2> QED BY <2>1, <2>2, <2>3, <2>4, <2>5 DEF IndInv
<1>2. ASSUME NEW n \in Deliveries, RejectCommand(n)
      PROVE  IndInv'
  <2>1. TypeOK'
    BY <1>0, <1>2 DEF RejectCommand, TypeOK, RequestPhases, Outcomes
  <2>2. Unstarted' /\ AttemptsLeft' /\ AttemptsBounded' /\ CompleterOver'
    BY <1>0, <1>2 DEF RejectCommand, Unstarted, AttemptsLeft, AttemptsBounded,
       CompleterOver
  <2>3. OpenTransaction' /\ CallsAwaited' /\ TasksOwned' /\ FirstToMiss'
        /\ PlatformTaskOnce' /\ TriggerTaskOnce'
    BY <1>0, <1>2 DEF RejectCommand, OpenTransaction, CallsAwaited, TasksOwned,
       FirstToMiss, Scheduled, OpenCall,
       PlatformTaskOnce, TriggerTaskOnce
  <2>4. CommandProgress' /\ AuthoredOnce'
    BY <1>0, <1>2 DEF RejectCommand, CommandProgress, AuthoredOnce
  <2>5. AnswersHandled' /\ DeliveredMeansHandled'
    BY <1>0, <1>2 DEF RejectCommand, AnswersHandled, DeliveredMeansHandled,
       Handled, RejectedTwice, Scheduled
  <2> QED BY <2>1, <2>2, <2>3, <2>4, <2>5 DEF IndInv
<1>3. ASSUME NEW n \in Deliveries, Author(n)
      PROVE  IndInv'
  <2>1. TypeOK'
    BY <1>0, <1>3 DEF Author, TypeOK, RequestPhases
  <2>2. Unstarted' /\ AttemptsLeft' /\ AttemptsBounded' /\ CompleterOver'
    BY <1>0, <1>3 DEF Author, Unstarted, AttemptsLeft, AttemptsBounded,
       CompleterOver
  <2>3. OpenTransaction' /\ CallsAwaited' /\ TasksOwned' /\ FirstToMiss'
        /\ PlatformTaskOnce' /\ TriggerTaskOnce'
    BY <1>0, <1>3 DEF Author, OpenTransaction, CallsAwaited, TasksOwned,
       FirstToMiss, Scheduled, OpenCall,
       PlatformTaskOnce, TriggerTaskOnce
  <2>4. CommandProgress' /\ AuthoredOnce'
    BY <1>0, <1>3 DEF Author, CommandProgress, AuthoredOnce, TypeOK
  <2>5. AnswersHandled' /\ DeliveredMeansHandled'
    BY <1>0, <1>3 DEF Author, AnswersHandled, DeliveredMeansHandled, Handled,
       RejectedTwice, Scheduled,
       CommandProgress
  <2> QED BY <2>1, <2>2, <2>3, <2>4, <2>5 DEF IndInv
<1>4. ASSUME NEW n \in Deliveries, Enqueue(n)
      PROVE  IndInv'
  <2>1. TypeOK'
    BY <1>0, <1>4 DEF Enqueue, TypeOK, RequestPhases
  <2>2. Unstarted' /\ AttemptsLeft' /\ AttemptsBounded' /\ CompleterOver'
    BY <1>0, <1>4 DEF Enqueue, Unstarted, AttemptsLeft, AttemptsBounded,
       CompleterOver
  <2>3. OpenTransaction' /\ CallsAwaited' /\ TasksOwned' /\ FirstToMiss'
        /\ PlatformTaskOnce' /\ TriggerTaskOnce'
    BY <1>0, <1>4 DEF Enqueue, OpenTransaction, CallsAwaited, TasksOwned,
       FirstToMiss, Scheduled, OpenCall,
       PlatformTaskOnce, TriggerTaskOnce
  <2>4. CommandProgress' /\ AuthoredOnce'
    BY <1>0, <1>4 DEF Enqueue, CommandProgress, AuthoredOnce
  <2>5. AnswersHandled' /\ DeliveredMeansHandled'
    BY <1>0, <1>4 DEF Enqueue, AnswersHandled, DeliveredMeansHandled, Handled,
       RejectedTwice, Scheduled
  <2> QED BY <2>1, <2>2, <2>3, <2>4, <2>5 DEF IndInv
<1>5. ASSUME NEW n \in Deliveries, EnqueueFails(n)
      PROVE  IndInv'
  <2>1. TypeOK'
    BY <1>0, <1>5 DEF EnqueueFails, TypeOK, RequestPhases, Outcomes
  <2>2. Unstarted' /\ AttemptsLeft' /\ AttemptsBounded' /\ CompleterOver'
    BY <1>0, <1>5 DEF EnqueueFails, Unstarted, AttemptsLeft, AttemptsBounded,
       CompleterOver
  <2>3. OpenTransaction' /\ CallsAwaited' /\ TasksOwned' /\ FirstToMiss'
        /\ PlatformTaskOnce' /\ TriggerTaskOnce'
    BY <1>0, <1>5 DEF EnqueueFails, OpenTransaction, CallsAwaited, TasksOwned,
       FirstToMiss, Scheduled, OpenCall,
       PlatformTaskOnce, TriggerTaskOnce
  <2>4. CommandProgress' /\ AuthoredOnce'
    BY <1>0, <1>5 DEF EnqueueFails, CommandProgress, AuthoredOnce
  <2>5. AnswersHandled' /\ DeliveredMeansHandled'
    BY <1>0, <1>5 DEF EnqueueFails, AnswersHandled, DeliveredMeansHandled,
       Handled, RejectedTwice, Scheduled
  <2> QED BY <2>1, <2>2, <2>3, <2>4, <2>5 DEF IndInv
<1>6. ASSUME NEW n \in Deliveries, Send(n)
      PROVE  IndInv'
  <2>1. TypeOK'
    BY <1>0, <1>6 DEF Send, TypeOK, RequestPhases
  <2>2. Unstarted' /\ AttemptsLeft' /\ AttemptsBounded' /\ CompleterOver'
    BY <1>0, <1>6 DEF Send, Unstarted, AttemptsLeft, AttemptsBounded,
       CompleterOver
  <2>3. OpenTransaction' /\ CallsAwaited' /\ TasksOwned' /\ FirstToMiss'
        /\ PlatformTaskOnce' /\ TriggerTaskOnce'
    BY <1>0, <1>6 DEF Send, OpenTransaction, CallsAwaited, TasksOwned, FirstToMiss,
       Scheduled, OpenCall,
       PlatformTaskOnce, TriggerTaskOnce
  <2>4. CommandProgress' /\ AuthoredOnce'
    BY <1>0, <1>6 DEF Send, CommandProgress, AuthoredOnce
  <2>5. AnswersHandled' /\ DeliveredMeansHandled'
    BY <1>0, <1>6 DEF Send, AnswersHandled, DeliveredMeansHandled, Handled,
       RejectedTwice, Scheduled
  <2> QED BY <2>1, <2>2, <2>3, <2>4, <2>5 DEF IndInv
<1>7. ASSUME NEW n \in Deliveries, SendFails(n)
      PROVE  IndInv'
  <2>0. sent' \in BOOLEAN /\ (sent => sent')
    <3>1. sent \in BOOLEAN
      BY <1>0 DEF TypeOK
    <3>2. sent' = sent \/ sent' = TRUE
      BY <1>7, Zenon DEF SendFails
    <3> QED BY <3>1, <3>2, Zenon
  <2>1. TypeOK'
    BY <1>0, <1>7, <2>0 DEF SendFails, TypeOK, RequestPhases, Outcomes
  <2>2. Unstarted' /\ AttemptsLeft' /\ AttemptsBounded' /\ CompleterOver'
    BY <1>0, <1>7 DEF SendFails, Unstarted, AttemptsLeft, AttemptsBounded,
       CompleterOver
  <2>3. OpenTransaction' /\ CallsAwaited' /\ TasksOwned' /\ FirstToMiss'
        /\ PlatformTaskOnce' /\ TriggerTaskOnce'
    BY <1>0, <1>7 DEF SendFails, OpenTransaction, CallsAwaited, TasksOwned,
       FirstToMiss, Scheduled, OpenCall,
       PlatformTaskOnce, TriggerTaskOnce
  <2>4. CommandProgress' /\ AuthoredOnce'
    BY <1>0, <1>7, <2>0 DEF SendFails, CommandProgress, AuthoredOnce
  <2>5. AnswersHandled' /\ DeliveredMeansHandled'
    BY <1>0, <1>7, <2>0 DEF SendFails, AnswersHandled, DeliveredMeansHandled,
       Handled, RejectedTwice, Scheduled
  <2> QED BY <2>1, <2>2, <2>3, <2>4, <2>5 DEF IndInv
<1>8. ASSUME NEW n \in Deliveries, MarkDelivered(n)
      PROVE  IndInv'
  <2>1. TypeOK'
    BY <1>0, <1>8 DEF MarkDelivered, TypeOK, RequestPhases, Outcomes
  <2>2. Unstarted' /\ AttemptsLeft' /\ AttemptsBounded' /\ CompleterOver'
    BY <1>0, <1>8 DEF MarkDelivered, Unstarted, AttemptsLeft, AttemptsBounded,
       CompleterOver
  <2>3. OpenTransaction' /\ CallsAwaited' /\ TasksOwned' /\ FirstToMiss'
        /\ PlatformTaskOnce' /\ TriggerTaskOnce'
    BY <1>0, <1>8 DEF MarkDelivered, OpenTransaction, CallsAwaited, TasksOwned,
       FirstToMiss, Scheduled, OpenCall,
       PlatformTaskOnce, TriggerTaskOnce
  <2>4. CommandProgress' /\ AuthoredOnce'
    BY <1>0, <1>8 DEF MarkDelivered, CommandProgress, AuthoredOnce
  <2>5. AnswersHandled' /\ DeliveredMeansHandled'
    BY <1>0, <1>8 DEF MarkDelivered, AnswersHandled, DeliveredMeansHandled,
       Handled, RejectedTwice, Scheduled
  <2> QED BY <2>1, <2>2, <2>3, <2>4, <2>5 DEF IndInv
<1>9. ASSUME NEW n \in Deliveries, SetOutcome(n)
      PROVE  IndInv'
  <2>1. TypeOK'
    BY <1>0, <1>9 DEF SetOutcome, Answer, TypeOK, RelayPhases, RequestPhases
  <2>2. Unstarted' /\ AttemptsLeft' /\ AttemptsBounded' /\ CompleterOver'
    BY <1>0, <1>9 DEF SetOutcome, Answer, Unstarted, AttemptsLeft,
       AttemptsBounded, CompleterOver, Outcomes
  <2>3. OpenTransaction' /\ CallsAwaited' /\ TasksOwned' /\ FirstToMiss'
        /\ PlatformTaskOnce' /\ TriggerTaskOnce'
    BY <1>0, <1>9 DEF SetOutcome, OpenTransaction, CallsAwaited, TasksOwned,
       FirstToMiss, Scheduled, OpenCall,
       PlatformTaskOnce, TriggerTaskOnce, Outcomes, CommandProgress
  <2>4. CommandProgress' /\ AuthoredOnce'
    BY <1>0, <1>9 DEF SetOutcome, CommandProgress, AuthoredOnce, Outcomes
  <2>5. AnswersHandled' /\ DeliveredMeansHandled'
    BY <1>0, <1>9 DEF SetOutcome, Answer, AnswersHandled,
       DeliveredMeansHandled, Handled, RejectedTwice, Scheduled, Outcomes, CommandProgress
  <2> QED BY <2>1, <2>2, <2>3, <2>4, <2>5 DEF IndInv
<1> QED BY <1>1, <1>2, <1>3, <1>4, <1>5, <1>6, <1>7, <1>8, <1>9

(***************************************************************************)
(* The inductive invariant holds in every reachable state of the outbox and*)
(* the intake.                                                             *)
(***************************************************************************)
THEOREM IntakeInductive == Spec => []IndInv
<1>1. ASSUME IndInv, Next
      PROVE  IndInv'
  <2>1. CASE Append \/ Claim \/ Lapse \/ RetryOutbox \/ Prune \/ TaskTaken
    BY <1>1, <2>1, OutboxSound
  <2>2. ASSUME NEW n \in Deliveries,
               RelayStep(n) \/ RequestStep(n) \/ CallStep(n) \/ FaultStep(n)
        PROVE  IndInv'
    BY <1>1, <2>2, RelaySound, IntakeSound, CallSound, CommandSound DEF RelayStep,
       RequestStep, FaultStep
  <2> QED BY <1>1, <2>1, <2>2 DEF Next
<1>2. ASSUME IndInv, UNCHANGED vars
      PROVE  IndInv'
  BY <1>2
  DEF vars, IndInv, TypeOK, Unstarted, AttemptsLeft, AttemptsBounded,
      CompleterOver, OpenTransaction, CallsAwaited, TasksOwned, FirstToMiss, Scheduled, OpenCall,
      PlatformTaskOnce, TriggerTaskOnce, CommandProgress, AuthoredOnce,
      AnswersHandled, DeliveredMeansHandled, Handled, RejectedTwice, Scheduled
<1> QED BY InitSound, <1>1, <1>2, PTL DEF Spec

(***************************************************************************)
(* The outbox row, the inbox row and the deliveries keep their types.      *)
(***************************************************************************)
THEOREM IntakeTypeCorrect == Spec => []TypeOK
<1>1. IndInv => TypeOK
  BY DEF IndInv
<1> QED BY <1>1, IntakeInductive, PTL

(***************************************************************************)
(* A founder's command is carried out at most once, whatever is delivered  *)
(* again and wherever AgentOS dies.                                        *)
(***************************************************************************)
THEOREM CommandOnce == Spec => []AuthoredOnce
<1>1. IndInv => AuthoredOnce
  BY DEF IndInv
<1> QED BY <1>1, IntakeInductive, PTL

(***************************************************************************)
(* An event that matches a rule starts at most one task, but for those of  *)
(* calls whose request ended while they were open.                         *)
(***************************************************************************)
THEOREM OneTriggerTask == Spec => []TriggerTaskOnce
<1>1. IndInv => TriggerTaskOnce
  BY DEF IndInv
<1> QED BY <1>1, IntakeInductive, PTL

(***************************************************************************)
(* Any event starts at most one task, and one more for each request that   *)
(* ended between its schedule call and commit.                             *)
(***************************************************************************)
THEOREM OneTaskPerOrphan == Spec => []PlatformTaskOnce
<1>1. IndInv => PlatformTaskOnce
  BY DEF IndInv
<1> QED BY <1>1, IntakeInductive, PTL

(***************************************************************************)
(* An event the outbox calls delivered has done what it stands for, or was *)
(* rejected before and then taken for a duplicate.                         *)
(***************************************************************************)
THEOREM DeliveredIsHandled == Spec => []DeliveredMeansHandled
<1>1. IndInv => DeliveredMeansHandled
  BY DEF IndInv
<1> QED BY <1>1, IntakeInductive, PTL

(***************************************************************************)
(* attempt_count stays within max_attempts and the claims that were taken  *)
(* over.                                                                   *)
(***************************************************************************)
THEOREM BoundedAttempts == Spec => []AttemptsBounded
<1>1. IndInv => AttemptsBounded
  BY DEF IndInv
<1> QED BY <1>1, IntakeInductive, PTL

(***************************************************************************)
(* A delivered event is not delivered again, unless the reply to its       *)
(* completion was lost.                                                    *)
(***************************************************************************)
THEOREM DeliveredStays == Spec => DeliveredFinal
<1>1. ASSUME IndInv, [Next]_vars, status = "delivered", ~undone
      PROVE  status' \in {"delivered", "pruned"}
  <2>1. token \in Deliveries /\ relay[token] = "over"
    BY <1>1 DEF IndInv, CompleterOver
  <2>2. CASE UNCHANGED vars
    BY <1>1, <2>2 DEF vars
  <2>3. CASE Append \/ Claim \/ Lapse \/ RetryOutbox \/ Prune \/ TaskTaken
    BY <1>1, <2>3 DEF Append, Claim, Due, Lapse, RetryOutbox, Prune, TaskTaken,
       outboxVars, rowVars
  <2>4. ASSUME NEW n \in Deliveries, RelayStep(n) \/ FaultStep(n)
        PROVE  status' \in {"delivered", "pruned"}
    BY <1>1, <2>1, <2>4 DEF RelayStep, Complete, Completed, Fail, HoldsToken,
       FaultStep, CompleteReplyLost, RelayDies, ReplyLost, EnqueueFails,
       RequestDies, outboxVars, rowVars
  <2>5. ASSUME NEW n \in Deliveries, RequestStep(n)
        PROVE  status' = status
    BY <2>5 DEF RequestStep, Record, Refuse, Schedule, Commit, RecordFounder,
       RejectCommand, Author, Enqueue, Send, SendFails, MarkDelivered,
       SetOutcome, outboxVars, rowVars
  <2>6. ASSUME NEW n \in Deliveries, CallStep(n)
        PROVE  status' = status
    BY <2>6 DEF CallStep, Lookup, Insert, InsertRejected, outboxVars, rowVars
  <2> QED BY <1>1, <2>2, <2>3, <2>4, <2>5, <2>6 DEF Next
<1>2. ASSUME IndInv, [Next]_vars
      PROVE  [status = "delivered" /\ ~undone
                => status' \in {"delivered", "pruned"}]_vars
  BY <1>1, <1>2
<1> QED BY <1>2, IntakeInductive, PTL DEF Spec, DeliveredFinal
=============================================================================
