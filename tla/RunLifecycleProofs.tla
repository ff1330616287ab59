------------------------- MODULE RunLifecycleProofs -------------------------
(***************************************************************************)
(* The safety of approvals for any set of tool calls, any kind of run and  *)
(* any number of crashes, failed reports and lost resumes; and, as long as *)
(* no execution is repeated, that a completed run stays completed.         *)
(***************************************************************************)
EXTENDS RunLifecycle, TLAPS

(***************************************************************************)
(* Moving a task to another phase, without touching the records, keeps     *)
(* them sound when the new phase is grounded.                              *)
(***************************************************************************)
LEMMA PhaseStep ==
  ASSUME IndInv, TypeOK',
         UNCHANGED <<checkpoints, approval, deciding, payload, asking, ran>>,
         NEW t \in Tasks, NEW p \in Phases \ {"ask", "tool", "raised", "none"},
         phase' = [phase EXCEPT ![t] = p],
         t \in Calls => phase[t] # "none",
         p = "model" => t = RunTask,
         p = "block" => phase[t] = "ask"
  PROVE  IndInv'
<1> USE DEF IndInv
<1>1. ApprovalBound' /\ OnlyApprovedToolsRun' /\ DecisionMade' /\ NoneAhead'
  BY DEF ApprovalBound, Waits, OnlyApprovedToolsRun, DecisionMade, NoneAhead
<1>2. AskingSaved'
  BY DEF AskingSaved, TypeOK
<1>3. ResumeGrounded'
  BY NamesAssumption DEF ResumeGrounded, TypeOK, Tasks
<1> QED BY <1>1, <1>2, <1>3

(***************************************************************************)
(* Saving a checkpoint keeps what refers to the earlier ones.              *)
(***************************************************************************)
LEMMA SavedStays ==
  ASSUME checkpoints \in Seq((SUBSET Calls) \ {{}}), NEW open \in (SUBSET Calls) \ {{}},
         checkpoints' = Append(checkpoints, open)
  PROVE  /\ checkpoints' \in Seq((SUBSET Calls) \ {{}})
         /\ Len(checkpoints) + 1 \in DOMAIN checkpoints'
         /\ checkpoints'[Len(checkpoints) + 1] = open
         /\ \A i \in DOMAIN checkpoints : i \in DOMAIN checkpoints' /\ checkpoints'[i] = checkpoints[i]
         /\ \A i \in DOMAIN checkpoints' : i \in DOMAIN checkpoints \/ i = Len(checkpoints) + 1
OBVIOUS

(***************************************************************************)
(* A decision on a pending approval disturbs no other record: nothing was  *)
(* scheduled or executed on its account.                                   *)
(***************************************************************************)
LEMMA DecideKeeps ==
  ASSUME TypeOK, ApprovalBound, OnlyApprovedToolsRun, DecisionMade, NoneAhead,
         NEW c \in Calls, Decidable(c), NEW s \in {"approved", "denied"},
         approval' = Decided(c, s), UNCHANGED <<checkpoints, payload, ran>>,
         deciding' \subseteq deciding \cup {c}
  PROVE  /\ approval' \in [Calls -> Approvals \cup {None}]
         /\ ApprovalBound'
         /\ OnlyApprovedToolsRun'
         /\ DecisionMade' /\ NoneAhead'
<1> DEFINE new == [status |-> s, ckpt |-> approval[c].ckpt]
<1>1. /\ approval' = [approval EXCEPT ![c] = new]
      /\ approval[c] \in Approvals /\ approval[c] # None /\ approval[c].status = "pending"
  BY DEF Decided, Decidable, TypeOK
<1>2. new \in Approvals /\ new # None /\ new.ckpt = approval[c].ckpt /\ new.status = s
  BY <1>1, NamesAssumption DEF Approvals
<1> HIDE DEF new
<1>3. approval' \in [Calls -> Approvals \cup {None}]
  BY <1>1, <1>2 DEF TypeOK
<1>4. payload[c] = None /\ c \notin ran
  BY <1>1 DEF ApprovalBound, OnlyApprovedToolsRun, TypeOK
<1>5. ApprovalBound'
  BY <1>1, <1>2, <1>4 DEF ApprovalBound, Waits, TypeOK
<1>6. OnlyApprovedToolsRun'
  BY <1>1, <1>4 DEF OnlyApprovedToolsRun, TypeOK
<1>7. DecisionMade' /\ NoneAhead'
  BY <1>1, <1>2 DEF DecisionMade, NoneAhead, TypeOK
<1> QED BY <1>3, <1>5, <1>6, <1>7

(***************************************************************************)
(* The initial state is sound.                                             *)
(***************************************************************************)
LEMMA InitSound == Init => IndInv
<1> SUFFICES ASSUME Init PROVE IndInv
  OBVIOUS
<1>1. TypeOK
  BY KindsAssumption, BoundsAssumption
  DEF Init, TypeOK, Statuses, Terminal, Phases, Active, RunKinds
<1>2. ApprovalBound /\ OnlyApprovedToolsRun /\ DecisionMade /\ NoneAhead
  BY DEF Init, ApprovalBound, Waits, OnlyApprovedToolsRun, DecisionMade, NoneAhead
<1>3. AskingSaved /\ ResumeGrounded
  BY NamesAssumption DEF Init, AskingSaved, ResumeGrounded, Tasks
<1> QED BY <1>1, <1>2, <1>3 DEF IndInv

(***************************************************************************)
(* Every action keeps the inductive invariant.                             *)
(***************************************************************************)
LEMMA StepSound ==
  ASSUME IndInv, Next
  PROVE  IndInv'
<1> USE NamesAssumption, BoundsAssumption
<1>0. /\ TypeOK /\ ApprovalBound /\ OnlyApprovedToolsRun
      /\ DecisionMade /\ AskingSaved /\ ResumeGrounded /\ NoneAhead
  BY DEF IndInv
<1>1. ASSUME NEW B \in SUBSET Tasks, NEW last \in B, Dispatch(B, last)
      PROVE  IndInv'
  <2>1. TypeOK'
    BY <1>0, <1>1 DEF Dispatch, TypeOK, Phases, Active
  <2>2. ApprovalBound' /\ OnlyApprovedToolsRun' /\ DecisionMade' /\ NoneAhead'
    BY <1>0, <1>1
    DEF Dispatch, ApprovalBound, Waits, OnlyApprovedToolsRun, DecisionMade, NoneAhead
  <2>3. AskingSaved'
    BY <1>0, <1>1 DEF Dispatch, AskingSaved, TypeOK
  <2>4. ResumeGrounded'
    BY <1>0, <1>1 DEF Dispatch, ResumeGrounded, TypeOK, Tasks
  <2> QED BY <2>1, <2>2, <2>3, <2>4 DEF IndInv
<1>2. CASE RunRefused
  <2>1. TypeOK'
    BY <1>0, <1>2 DEF RunRefused, Goto, TypeOK, Phases, Tasks
  <2> QED BY <1>2, <2>1, PhaseStep DEF RunRefused, Goto, Phases, Tasks
<1>3. CASE KernelRun
  <2>1. TypeOK'
    BY <1>0, <1>3 DEF KernelRun, Goto, TypeOK, Phases, Active, Statuses
  <2> QED BY <1>3, <2>1, PhaseStep DEF KernelRun, Goto, Phases, Active, Tasks
<1>4. ASSUME NEW c \in Calls, ResumeIgnored(c) \/ ResumeRefused(c)
      PROVE  IndInv'
  <2>1. TypeOK'
    BY <1>0, <1>4 DEF ResumeIgnored, ResumeRefused, Goto, TypeOK, Phases, Tasks
  <2> QED BY <1>4, <2>1, PhaseStep DEF ResumeIgnored, ResumeRefused, Goto, Phases, Tasks
<1>5. ASSUME NEW c \in Calls, KernelResume(c)
      PROVE  IndInv'
  <2>1. TypeOK'
    BY <1>0, <1>5 DEF KernelResume, Goto, TypeOK, Phases, Active
  <2>2. ApprovalBound' /\ OnlyApprovedToolsRun' /\ DecisionMade' /\ NoneAhead'
    BY <1>0, <1>5
    DEF KernelResume, ApprovalBound, Waits, OnlyApprovedToolsRun, DecisionMade, NoneAhead
  <2>3. AskingSaved'
    BY <1>0, <1>5 DEF KernelResume, Goto, AskingSaved, TypeOK, Tasks
  <2>4. ResumeGrounded'
    BY <1>0, <1>5 DEF KernelResume, Verified, Goto, ResumeGrounded, TypeOK, Tasks
  <2> QED BY <2>1, <2>2, <2>3, <2>4 DEF IndInv
<1>6. ASSUME NEW c \in Calls, RunTool(c)
      PROVE  IndInv'
  <2>1. TypeOK'
    BY <1>0, <1>6 DEF RunTool, ApprovedBy, Goto, TypeOK, Phases, Active
  <2>2. DecisionMade' /\ NoneAhead'
    BY <1>0, <1>6 DEF RunTool, DecisionMade, NoneAhead
  <2>3. /\ approval[c] # None /\ approval[c].status = "approved"
        /\ Waits(c, approval[c].ckpt)
    BY <1>0, <1>6 DEF RunTool, ResumeGrounded, ApprovalBound, Waits
  <2>4. OnlyApprovedToolsRun'
    BY <1>0, <1>6, <2>3 DEF RunTool, ApprovedBy, OnlyApprovedToolsRun
  <2>5. ApprovalBound'
    BY <1>0, <1>6, <2>3 DEF RunTool, ApprovedBy, ApprovalBound, Waits
  <2>6. AskingSaved'
    BY <1>0, <1>6 DEF RunTool, Goto, AskingSaved, TypeOK, Tasks
  <2>7. ResumeGrounded'
    BY <1>0, <1>6 DEF RunTool, Goto, ResumeGrounded, TypeOK, Tasks
  <2> QED BY <2>1, <2>2, <2>4, <2>5, <2>6, <2>7 DEF IndInv
<1>7. ASSUME NEW c \in Calls, ToolRefused(c)
      PROVE  IndInv'
  <2>1. TypeOK'
    BY <1>0, <1>7 DEF ToolRefused, Goto, TypeOK, Phases, Tasks, Statuses, Terminal
  <2> QED BY <1>7, <2>1, PhaseStep DEF ToolRefused, Goto, Phases, Tasks
<1>8. ASSUME NEW t \in Tasks, Fail(t) \/ Finish(t)
      PROVE  IndInv'
  <2>1. TypeOK'
    BY <1>0, <1>8 DEF Fail, Finish, Goto, TypeOK, Phases, Tasks, Statuses, Terminal
  <2> QED BY <1>8, <2>1, PhaseStep DEF Fail, Finish, Goto, Phases
<1>9. ASSUME NEW t \in Tasks, NEW open \in SUBSET Calls, Interrupt(t, open)
      PROVE  IndInv'
  <2>1. /\ checkpoints' = Append(checkpoints, open)
        /\ asking' = [asking EXCEPT ![t] = Len(checkpoints) + 1]
        /\ phase' = [phase EXCEPT ![t] = "ask"]
        /\ phase[t] = "model"
        /\ status' = "waiting"
        /\ open # {}
        /\ open = Undecided(t) \/ open \subseteq Fresh
        /\ UNCHANGED <<kind, approval, deciding, payload, holder, cancel, ran,
                       repeats, dropped>>
    BY <1>9 DEF Interrupt, Goto
  <2>2. checkpoints \in Seq((SUBSET Calls) \ {{}}) /\ Len(checkpoints) \in Nat
    BY <1>0 DEF TypeOK
  <2>3. /\ checkpoints' \in Seq((SUBSET Calls) \ {{}})
        /\ Len(checkpoints) + 1 \in DOMAIN checkpoints'
        /\ checkpoints'[Len(checkpoints) + 1] = open
        /\ \A i \in DOMAIN checkpoints :
             i \in DOMAIN checkpoints' /\ checkpoints'[i] = checkpoints[i]
        /\ \A i \in DOMAIN checkpoints' : i \in DOMAIN checkpoints \/ i = Len(checkpoints) + 1
    <3>1. open \in (SUBSET Calls) \ {{}}
      BY <2>1
    <3> QED BY <2>1, <2>2, <3>1, SavedStays
  <2>4. TypeOK'
    BY <1>0, <2>1, <2>2, <2>3 DEF TypeOK, Phases, Active, Statuses
  <2>5. ApprovalBound'
    <3>1. \A c \in Calls, k \in Nat : Waits(c, k) => Waits(c, k)'
      BY <2>3 DEF Waits
    <3>2. ASSUME NEW c \in open, approval[c] # None
          PROVE  \E k \in DOMAIN checkpoints : Waits(c, k)
      <4>1. c \in Undecided(t)
        BY <2>1, <3>2 DEF Fresh
      <4>2. t \in Calls /\ c \in checkpoints[payload[t].ckpt]
        BY <4>1 DEF Undecided, Tasks
      <4>3. payload[t].ckpt \in DOMAIN checkpoints
        BY <1>0, <2>1, <4>2 DEF ResumeGrounded
      <4> QED BY <4>2, <4>3 DEF Waits
    <3>3. ASSUME NEW c \in Calls, approval[c] # None, NEW k \in DOMAIN checkpoints', Waits(c, k)'
          PROVE  Waits(c, approval[c].ckpt)'
      <4>1. \E i \in DOMAIN checkpoints : Waits(c, i)
        <5>1. CASE k \in DOMAIN checkpoints
          BY <2>3, <3>3, <5>1 DEF Waits
        <5>2. CASE k = Len(checkpoints) + 1
          BY <2>3, <3>2, <3>3, <5>2 DEF Waits
        <5> QED BY <2>3, <5>1, <5>2
      <4>2. approval[c].ckpt \in Nat
        BY <1>0, <3>3 DEF TypeOK, Approvals
      <4>3. Waits(c, approval[c].ckpt)
        BY <1>0, <3>3, <4>1 DEF ApprovalBound
      <4>4. approval'[c] = approval[c]
        BY <2>1
      <4> QED BY <3>1, <4>2, <4>3, <4>4 DEF Waits
    <3>4. \A c \in ran : Waits(c, approval[c].ckpt)'
      <4>1. \A c \in ran : c \in Calls /\ Waits(c, approval[c].ckpt) /\ approval[c].ckpt \in Nat
        BY <1>0 DEF ApprovalBound, OnlyApprovedToolsRun, TypeOK, Approvals
      <4> QED BY <3>1, <4>1, <2>1
    <3> QED BY <1>0, <2>1, <3>3, <3>4 DEF ApprovalBound
  <2>6. OnlyApprovedToolsRun' /\ DecisionMade' /\ NoneAhead'
    BY <1>0, <2>1, <2>3 DEF OnlyApprovedToolsRun, DecisionMade, NoneAhead
  <2>7. AskingSaved'
    BY <1>0, <2>1, <2>3 DEF AskingSaved, TypeOK
  <2>8. ResumeGrounded'
    BY <1>0, <2>1, <2>3 DEF ResumeGrounded, TypeOK, Tasks
  <2> QED BY <2>4, <2>5, <2>6, <2>7, <2>8 DEF IndInv
<1>10. ASSUME NEW t \in Tasks, NEW c \in Calls, CreateApproval(t, c)
       PROVE  IndInv'
  <2> DEFINE new == [status |-> "pending", ckpt |-> asking[t]]
  <2>1. /\ approval' = [approval EXCEPT ![c] = new]
        /\ approval[c] = None
        /\ c \in checkpoints[asking[t]]
        /\ UNCHANGED <<kind, status, checkpoints, deciding, payload, phase,
                       asking, holder, cancel, ran, repeats, dropped>>
    BY <1>10 DEF CreateApproval
  <2>2. asking[t] \in DOMAIN checkpoints
    BY <1>0, <1>10 DEF CreateApproval, AskingSaved
  <2>3. new \in Approvals /\ new.ckpt = asking[t]
    BY <1>0, <2>2 DEF Approvals, TypeOK
  <2> HIDE DEF new
  <2>4. TypeOK'
    BY <1>0, <2>1, <2>3 DEF TypeOK
  <2>5. ApprovalBound'
    BY <1>0, <2>1, <2>2, <2>3 DEF ApprovalBound, Waits, OnlyApprovedToolsRun, TypeOK
  <2>6. OnlyApprovedToolsRun' /\ DecisionMade' /\ NoneAhead'
    BY <1>0, <2>1, <2>2, <2>3 DEF OnlyApprovedToolsRun, DecisionMade, NoneAhead, TypeOK
  <2>7. AskingSaved' /\ ResumeGrounded'
    BY <1>0, <2>1 DEF AskingSaved, ResumeGrounded
  <2> QED BY <2>4, <2>5, <2>6, <2>7 DEF IndInv
<1>11. ASSUME NEW t \in Tasks, Settle(t)
       PROVE  IndInv'
  <2>1. TypeOK'
    BY <1>0, <1>11 DEF Settle, Goto, TypeOK, Phases, Active, Tasks, Statuses
  <2> QED BY <1>11, <2>1, PhaseStep DEF Settle, Goto, Phases, Active
<1>12. ASSUME NEW c \in Calls, Block(c)
       PROVE  IndInv'
  <2>1. /\ phase' = [phase EXCEPT ![RunTask] = "report"]
        /\ UNCHANGED <<kind, status, checkpoints, deciding, payload, asking, holder,
                       cancel, ran, repeats, dropped>>
    BY <1>12 DEF Block, Goto
  <2>2. CASE ~Decidable(c)
    <3>1. approval' = approval
      BY <1>12, <2>2 DEF Block
    <3>2. TypeOK'
      BY <1>0, <2>1, <3>1 DEF TypeOK, Phases, Tasks
    <3>3. phase' = [phase EXCEPT ![RunTask] = "report"]
          /\ "report" \in Phases \ {"ask", "tool", "raised", "none"}
      BY <2>1 DEF Phases
    <3> QED BY <2>1, <3>1, <3>2, <3>3, PhaseStep DEF Tasks
  <2>3. CASE Decidable(c)
    <3>1. approval' = Decided(c, "denied")
      BY <1>12, <2>3 DEF Block
    <3>2. AskingSaved' /\ ResumeGrounded'
      BY <1>0, <2>1 DEF AskingSaved, ResumeGrounded, TypeOK, Tasks
    <3>3. approval' \in [Calls -> Approvals \cup {None}] /\ ApprovalBound'
          /\ OnlyApprovedToolsRun' /\ DecisionMade' /\ NoneAhead'
      BY <1>0, <2>1, <2>3, <3>1, DecideKeeps
    <3>4. TypeOK'
      BY <1>0, <2>1, <3>3 DEF TypeOK, Phases, Tasks
    <3> QED BY <3>2, <3>3, <3>4 DEF IndInv
  <2> QED BY <2>2, <2>3
<1>13. ASSUME NEW c \in Calls, NEW approved \in BOOLEAN, Decide(c, approved)
       PROVE  IndInv'
  <2>1. /\ Decidable(c)
        /\ deciding' = deciding \cup {c}
        /\ UNCHANGED <<kind, status, checkpoints, payload, phase, asking, holder,
                       cancel, ran, repeats, dropped>>
    BY <1>13 DEF Decide
  <2>2. PICK s \in {"approved", "denied"} : approval' = Decided(c, s)
    BY <1>13 DEF Decide
  <2>3. approval' \in [Calls -> Approvals \cup {None}] /\ ApprovalBound'
        /\ OnlyApprovedToolsRun' /\ DecisionMade' /\ NoneAhead'
    BY <1>0, <2>1, <2>2, DecideKeeps
  <2>4. TypeOK'
    BY <1>0, <2>1, <2>3 DEF TypeOK
  <2>5. AskingSaved' /\ ResumeGrounded'
    BY <1>0, <2>1 DEF AskingSaved, ResumeGrounded
  <2> QED BY <2>3, <2>4, <2>5 DEF IndInv
<1>14. ASSUME NEW c \in Calls, ScheduleResume(c)
       PROVE  IndInv'
  <2> DEFINE new == [approved |-> approval[c].status = "approved", ckpt |-> approval[c].ckpt]
  <2>1. /\ c \in deciding
        /\ deciding' = deciding \ {c}
        /\ payload' = [payload EXCEPT ![c] = new]
        /\ phase' = [phase EXCEPT ![c] = "queued"]
        /\ UNCHANGED <<kind, status, checkpoints, approval, asking, holder, cancel,
                       ran, repeats, dropped>>
    BY <1>14 DEF ScheduleResume
  <2>2. approval[c] \in Approvals /\ approval[c] # None /\ approval[c].status # "pending"
    BY <1>0, <2>1 DEF DecisionMade, TypeOK
  <2>3. /\ new \in Payloads
        /\ new # None
        /\ new.ckpt = approval[c].ckpt
        /\ approval[c].status = IF new.approved THEN "approved" ELSE "denied"
    <3>1. approval[c].ckpt \in Nat /\ approval[c].status \in {"approved", "denied"}
      BY <2>2 DEF Approvals
    <3>2. (approval[c].status = "approved") \in BOOLEAN
      OBVIOUS
    <3>3. new \in Payloads
      BY <3>1, <3>2, Zenon DEF Payloads
    <3>4. new # None
      BY <3>3, Zenon DEF Payloads
    <3>5. new.ckpt = approval[c].ckpt /\ new.approved = (approval[c].status = "approved")
      BY Zenon
    <3>6. approval[c].status = IF new.approved THEN "approved" ELSE "denied"
      <4>1. CASE approval[c].status = "approved"
        BY <3>5, <4>1, Zenon
      <4>2. CASE approval[c].status = "denied"
        <5>1. ~(approval[c].status = "approved")
          BY <4>2
        <5> QED BY <3>5, <4>2, <5>1, Zenon
      <4> QED BY <3>1, <4>1, <4>2
    <3> QED BY <3>3, <3>4, <3>5, <3>6
  <2> HIDE DEF new
  <2>4. TypeOK'
    BY <1>0, <2>1, <2>3 DEF TypeOK, Phases
  <2>5. ApprovalBound'
    BY <1>0, <2>1, <2>2, <2>3 DEF ApprovalBound, Waits, TypeOK
  <2>6. OnlyApprovedToolsRun' /\ DecisionMade' /\ NoneAhead'
    BY <1>0, <2>1 DEF OnlyApprovedToolsRun, DecisionMade, NoneAhead
  <2>7. AskingSaved'
    BY <1>0, <2>1 DEF AskingSaved, TypeOK, Tasks
  <2>8. ResumeGrounded'
    BY <1>0, <2>1, <2>3 DEF ResumeGrounded, TypeOK, Tasks
  <2> QED BY <2>4, <2>5, <2>6, <2>7, <2>8 DEF IndInv
<1>15. ASSUME NEW c \in Calls, LoseResume(c)
       PROVE  IndInv'
  <2>1. TypeOK'
    BY <1>0, <1>15 DEF LoseResume, TypeOK
  <2> QED BY <1>0, <1>15, <2>1
      DEF LoseResume, IndInv, ApprovalBound, Waits, OnlyApprovedToolsRun, DecisionMade,
          AskingSaved, ResumeGrounded, NoneAhead
<1>16. CASE Canceller
  <2>1. TypeOK'
    BY <1>0, <1>16 DEF Canceller, CancelRun, KernelCancelRead, KernelCancelWrite, TypeOK, Statuses, Terminal
  <2>2. UNCHANGED <<checkpoints, approval, deciding, payload, phase, asking, ran>>
    BY <1>16 DEF Canceller, CancelRun, KernelCancelRead, KernelCancelWrite
  <2> QED BY <1>0, <2>1, <2>2
      DEF IndInv, ApprovalBound, Waits, OnlyApprovedToolsRun, DecisionMade, AskingSaved,
          ResumeGrounded, NoneAhead
<1>17. ASSUME NEW t \in Tasks, Crash(t) \/ ReportFails(t) \/ GiveUp(t) \/ Report(t)
       PROVE  IndInv'
  <2>1. TypeOK'
    <3>1. CASE Crash(t) \/ ReportFails(t)
      <4>1. /\ repeats' = repeats + 1 /\ repeats < MaxRepeats
            /\ phase' = [phase EXCEPT ![t] = "queued"]
            /\ holder' \in {holder, None}
            /\ UNCHANGED <<kind, status, checkpoints, approval, deciding, payload,
                           asking, cancel, ran, dropped>>
        BY <3>1 DEF Crash, ReportFails, Leave, Released
      <4> QED BY <1>0, <4>1 DEF TypeOK, Phases
    <3>2. CASE GiveUp(t)
      BY <1>0, <3>2 DEF GiveUp, Goto, TypeOK, Phases, Tasks
    <3>3. CASE Report(t)
      BY <1>0, <3>3 DEF Report, Leave, Released, TypeOK, Phases, Tasks
    <3> QED BY <1>17, <3>1, <3>2, <3>3
  <2> QED BY <1>17, <2>1, PhaseStep
          DEF Crash, ReportFails, GiveUp, Report, Leave, Goto, Phases, Active
<1>18. ASSUME NEW t \in Tasks, NEW c \in Calls, GatewayAsks(t, c)
       PROVE  IndInv'
  <2> DEFINE new == [status |-> "pending", ckpt |-> CheckpointRef(t)]
  <2>1. /\ approval' = [approval EXCEPT ![c] = new]
        /\ c \in Fresh
        /\ phase[t] \in {"model", "raised"}
        /\ phase' = [phase EXCEPT ![t] = "raised"]
        /\ dropped < MaxDropped /\ dropped' = dropped + 1
        /\ UNCHANGED <<kind, status, checkpoints, deciding, payload,
                       asking, holder, cancel, ran, repeats>>
    BY <1>18 DEF GatewayAsks, Goto
  <2>2. t \in Calls => payload[t] \in Payloads /\ payload[t].ckpt \in DOMAIN checkpoints
    BY <1>0, <2>1 DEF ResumeGrounded, TypeOK
  <2>3. new \in Approvals /\ new.ckpt = CheckpointRef(t)
    BY <2>2 DEF Approvals, Payloads, CheckpointRef, Tasks
  <2>4. approval[c] = None /\ payload[c] = None /\ c \notin ran /\ c \notin deciding
    BY <1>0, <2>1 DEF Fresh, ApprovalBound, OnlyApprovedToolsRun, DecisionMade
  <2> HIDE DEF new
  <2>5. TypeOK'
    BY <1>0, <2>1, <2>3 DEF TypeOK, Phases, Active
  <2>6. ApprovalBound'
    BY <1>0, <2>1, <2>3, <2>4 DEF ApprovalBound, Waits, Fresh, TypeOK
  <2>7. OnlyApprovedToolsRun' /\ DecisionMade' /\ NoneAhead'
    BY <1>0, <2>1, <2>2, <2>3, <2>4
    DEF OnlyApprovedToolsRun, DecisionMade, NoneAhead, CheckpointRef, Tasks, TypeOK
  <2>8. AskingSaved'
    BY <1>0, <2>1 DEF AskingSaved, TypeOK
  <2>9. ResumeGrounded'
    BY <1>0, <2>1 DEF ResumeGrounded, TypeOK, Tasks
  <2> QED BY <2>5, <2>6, <2>7, <2>8, <2>9 DEF IndInv
<1>19. ASSUME NEW t \in Tasks, Execute(t)
       PROVE  IndInv'
  BY <1>2, <1>3, <1>4, <1>5, <1>6, <1>7, <1>8, <1>9, <1>10, <1>11, <1>12, <1>17, <1>18, <1>19
  DEF Execute
<1> QED BY <1>1, <1>13, <1>14, <1>15, <1>16, <1>17, <1>19 DEF Next, Worker, Founder, Faults

(***************************************************************************)
(* The inductive invariant holds in every reachable state.                 *)
(***************************************************************************)
THEOREM Inductive == Spec => []IndInv
<1>1. IndInv /\ UNCHANGED vars => IndInv'
  BY DEF vars, IndInv, TypeOK, ApprovalBound, Waits, OnlyApprovedToolsRun, DecisionMade,
         AskingSaved, ResumeGrounded, NoneAhead
<1>2. IndInv /\ [Next]_vars => IndInv'
  BY <1>1, StepSound
<1> QED BY <1>2, InitSound, PTL DEF Spec

(***************************************************************************)
(* The run's row, checkpoints, approvals and tasks keep their types.       *)
(***************************************************************************)
THEOREM TypeCorrect == Spec => []TypeOK
<1>1. IndInv => TypeOK
  BY DEF IndInv
<1> QED BY <1>1, Inductive, PTL

(***************************************************************************)
(* No call is executed without the approval of exactly that call.          *)
(***************************************************************************)
THEOREM ApprovedOnly == Spec => []OnlyApprovedToolsRun
<1>1. IndInv => OnlyApprovedToolsRun
  BY DEF IndInv
<1> QED BY <1>1, Inductive, PTL

(***************************************************************************)
(* Approvals and resumes are bound to a checkpoint that waits for them.    *)
(***************************************************************************)
THEOREM Bound == Spec => []ApprovalBound
<1>1. IndInv => ApprovalBound
  BY DEF IndInv
<1> QED BY <1>1, Inductive, PTL

(***************************************************************************)
(* A task that is queued or at work is alive.                              *)
(***************************************************************************)
LEMMA WorkingIsAlive ==
  ASSUME IndInv, NEW t \in Tasks, phase[t] \in Active \cup {"queued"}
  PROVE  Alive(t)
<1>1. t \in Calls => payload[t] # None /\ approval[t] # None
  BY DEF IndInv, ResumeGrounded, ApprovalBound, Active
<1> QED BY <1>1 DEF Alive, Active, Tasks

(***************************************************************************)
(* A call nobody asked for has no task.                                    *)
(***************************************************************************)
LEMMA UnaskedIsIdle ==
  ASSUME IndInv, NEW c \in Calls, approval[c] = None
  PROVE  phase[c] = "none"
BY DEF IndInv, ResumeGrounded, ApprovalBound

(***************************************************************************)
(* A task whose handler returns is no longer alive, and leaves the others  *)
(* as they are.                                                            *)
(***************************************************************************)
LEMMA LeavingKeeps ==
  ASSUME IndInv, Alone, Held, NEW t \in Tasks, phase[t] \in Active,
         Goto(t, "report"), UNCHANGED <<checkpoints, asking>>,
         \A c \in Calls : /\ approval'[c] = None <=> approval[c] = None
                          /\ approval'[c].ckpt = approval[c].ckpt
  PROVE  Alone' /\ Held'
<1>1. /\ phase \in [Tasks -> Phases] /\ phase' = [phase EXCEPT ![t] = "report"]
      /\ checkpoints \in Seq((SUBSET Calls) \ {{}}) /\ holder' = holder
  BY DEF IndInv, TypeOK, Goto
<1>2. ASSUME NEW u \in Tasks, Stuck(u)
      PROVE  Stuck(u)'
  <2>1. u \in Calls /\ approval'[u].ckpt = approval[u].ckpt
    BY <1>2 DEF Stuck, Tasks
  <2>2. approval[u].ckpt \in DOMAIN checkpoints => checkpoints[approval[u].ckpt] \subseteq Calls
    BY <1>1
  <2> QED BY <1>2, <2>1, <2>2 DEF Stuck
<1>3. ASSUME NEW u \in Tasks, u # t, Alive(u)'
      PROVE  Alive(u)
  BY <1>1, <1>3 DEF Alive, Tasks
<1>4. ASSUME NEW u \in Tasks, NEW v \in Tasks, u # t, v # t, AsksFor(u, v)
      PROVE  AsksFor(u, v)'
  BY <1>1, <1>2, <1>4 DEF AsksFor
<1>5. ~Alive(t)'
  BY <1>1 DEF Alive
<1>6. Alone'
  BY <1>2, <1>3, <1>4, <1>5 DEF Alone
<1>7. ASSUME NEW u \in Tasks, phase'[u] \in Active, ~Stuck(u)'
      PROVE  holder' = u
  <2>1. phase[u] \in Active
    BY <1>1, <1>7 DEF Active
  <2> QED BY <1>1, <1>2, <1>7, <2>1 DEF Held
<1> QED BY <1>6, <1>7 DEF Held

(***************************************************************************)
(* So does the report: it releases at most a lease nobody needs any more.  *)
(***************************************************************************)
LEMMA ReportKeeps ==
  ASSUME IndInv, Alone, Held, NEW t \in Tasks, Report(t)
  PROVE  Alone' /\ Held'
<1>1. /\ phase \in [Tasks -> Phases] /\ phase[t] = "report"
      /\ phase' = [phase EXCEPT ![t] = "done"] /\ holder' = Released(t)
      /\ UNCHANGED <<checkpoints, asking, approval>>
  BY DEF IndInv, TypeOK, Report, Leave
<1>2. ASSUME NEW u \in Tasks
      PROVE  (Alive(u)' <=> Alive(u)) /\ (Stuck(u)' <=> Stuck(u))
  BY <1>1 DEF Alive, Stuck
<1>3. ASSUME NEW u \in Tasks, NEW v \in Tasks, AsksFor(u, v)
      PROVE  AsksFor(u, v)'
  BY <1>1, <1>2, <1>3 DEF AsksFor, Released
<1>4. Alone'
  BY <1>2, <1>3 DEF Alone
<1>5. ASSUME NEW u \in Tasks, phase'[u] \in Active, ~Stuck(u)'
      PROVE  holder' = u
  <2>1. phase[u] \in Active /\ u # t
    BY <1>1, <1>5 DEF Active
  <2> QED BY <1>1, <1>2, <1>5, <2>1 DEF Held, Released
<1> QED BY <1>4, <1>5 DEF Held

(***************************************************************************)
(* A task that goes on without asking leaves the others as they are.       *)
(***************************************************************************)
LEMMA GoingKeeps ==
  ASSUME IndInv, Alone, Held, NEW t \in Tasks, NEW p \in {"tool", "model"},
         phase[t] \in {"claimed", "tool"}, Goto(t, p),
         UNCHANGED <<checkpoints, asking, approval>>
  PROVE  Alone' /\ Held'
<1>1. /\ phase \in [Tasks -> Phases] /\ phase' = [phase EXCEPT ![t] = p]
      /\ holder' = holder
  BY DEF IndInv, TypeOK, Goto
<1>2. ASSUME NEW u \in Tasks
      PROVE  (Alive(u)' <=> Alive(u)) /\ (Stuck(u)' <=> Stuck(u))
  BY <1>1 DEF Alive, Stuck
<1>3. ASSUME NEW u \in Tasks, NEW v \in Tasks, AsksFor(u, v)
      PROVE  AsksFor(u, v)'
  BY <1>1, <1>2, <1>3 DEF AsksFor
<1>4. ASSUME NEW u \in Tasks, phase'[u] \in Active
      PROVE  phase[u] \in Active
  BY <1>1, <1>4 DEF Active
<1>5. Alone'
  BY <1>2, <1>3 DEF Alone
<1>6. Held'
  BY <1>1, <1>2, <1>4 DEF Held
<1> QED BY <1>5, <1>6

(***************************************************************************)
(* While the lease is free a task that is not stuck is the only one alive, *)
(* so it is dispatched alone and gets the lease.                           *)
(***************************************************************************)
LEMMA DispatchKeeps ==
  ASSUME IndInv, Alone, Held, NEW B \in SUBSET Tasks, NEW last \in B,
         Dispatch(B, last)
  PROVE  Alone' /\ Held'
<1>1. /\ phase \in [Tasks -> Phases] /\ holder = None /\ holder' = last
      /\ B \subseteq {t \in Tasks : phase[t] = "queued"}
      /\ phase' = [t \in Tasks |-> IF t \in B THEN "claimed" ELSE phase[t]]
      /\ UNCHANGED <<checkpoints, asking, approval>>
  BY DEF IndInv, TypeOK, Dispatch, LeaseFree
<1>2. ASSUME NEW t \in Tasks, NEW u \in Tasks
      PROVE  ~AsksFor(t, u)
  BY <1>1, NamesAssumption DEF AsksFor, Tasks
<1>3. ASSUME NEW t \in Tasks
      PROVE  (Alive(t)' <=> Alive(t)) /\ (Stuck(t)' <=> Stuck(t))
  BY <1>1 DEF Alive, Stuck
<1>4. Alone'
  BY <1>2, <1>3 DEF Alone
<1>5. ASSUME NEW t \in Tasks, phase'[t] \in Active, ~Stuck(t)'
      PROVE  t = last
  <2>1. last \in Tasks /\ Alive(last)
    BY <1>1, WorkingIsAlive
  <2>2. CASE t \in B
    <3>1. Alive(t)
      BY <1>1, <2>2, WorkingIsAlive
    <3> QED BY <1>2, <1>3, <1>5, <2>1, <3>1 DEF Alone
  <2>3. CASE t \notin B
    BY <1>1, <1>3, <1>5, <2>3, NamesAssumption DEF Held, Tasks
  <2> QED BY <2>2, <2>3
<1>6. Held'
  BY <1>1, <1>5 DEF Held
<1> QED BY <1>4, <1>6

(***************************************************************************)
(* A checkpoint that is saved changes nothing for those who wait at        *)
(* earlier ones, and its asker was alone or is stuck.                      *)
(***************************************************************************)
LEMMA InterruptKeeps ==
  ASSUME IndInv, Alone, Held, NEW t \in Tasks, NEW open \in SUBSET Calls,
         Interrupt(t, open)
  PROVE  Alone' /\ Held'
<1>1. /\ phase \in [Tasks -> Phases] /\ phase[t] = "model"
      /\ phase' = [phase EXCEPT ![t] = "ask"]
      /\ asking \in [Tasks -> Nat]
      /\ asking' = [asking EXCEPT ![t] = Len(checkpoints) + 1]
      /\ checkpoints' = Append(checkpoints, open)
      /\ UNCHANGED <<holder, approval>>
  BY DEF IndInv, TypeOK, Interrupt, Goto
<1>2. /\ \A i \in DOMAIN checkpoints : i \in DOMAIN checkpoints' /\ checkpoints'[i] = checkpoints[i]
      /\ 0 \notin DOMAIN checkpoints /\ 0 \notin DOMAIN checkpoints'
  <2>1. checkpoints \in Seq((SUBSET Calls) \ {{}})
    BY DEF IndInv, TypeOK
  <2>2. open # {}
    BY DEF Interrupt
  <2>3. open \in (SUBSET Calls) \ {{}}
    BY <2>2
  <2> QED BY <1>1, <2>1, <2>3, SavedStays
<1>3. ASSUME NEW u \in Tasks, Alive(u)
      PROVE  Alive(u)' /\ (Stuck(u)' <=> Stuck(u))
  <2>1. Alive(u)'
    BY <1>1, <1>3 DEF Alive
  <2>2. u # RunTask => u \in Calls /\ approval[u].ckpt \in DOMAIN checkpoints \cup {0}
    BY <1>3 DEF Alive, Tasks, IndInv, NoneAhead
  <2>3. Stuck(u)' <=> Stuck(u)
    BY <1>1, <1>2, <2>2 DEF Stuck
  <2> QED BY <2>1, <2>3
<1>4. ASSUME NEW u \in Tasks, Alive(u)'
      PROVE  Alive(u)
  BY <1>1, <1>4 DEF Alive
<1>5. ASSUME NEW u \in Tasks, NEW v \in Tasks, Alive(v), AsksFor(u, v)
      PROVE  AsksFor(u, v)'
  <2>1. phase[u] \in {"ask", "block"} => asking[u] \in DOMAIN checkpoints
    BY DEF IndInv, AskingSaved
  <2> QED BY <1>1, <1>2, <1>3, <1>5, <2>1 DEF AsksFor
<1>6. Alone'
  BY <1>3, <1>4, <1>5 DEF Alone
<1>7. ASSUME NEW u \in Tasks, phase'[u] \in Active, ~Stuck(u)'
      PROVE  holder' = u
  <2>1. phase[u] \in Active
    BY <1>1, <1>7 DEF Active
  <2>2. Alive(u)
    BY <2>1, WorkingIsAlive
  <2> QED BY <1>1, <1>3, <1>7, <2>1, <2>2 DEF Held
<1> QED BY <1>6, <1>7 DEF Held

(***************************************************************************)
(* A new approval.  Its asker is stuck, and then so is the new call, or    *)
(* holds the lease and is alone but for the calls of the same checkpoint,  *)
(* which get stuck with the new one.                                       *)
(***************************************************************************)
LEMMA CreateKeeps ==
  ASSUME IndInv, Alone, Held, AskedUndecided, NEW t \in Tasks,
         NEW e \in Calls, CreateApproval(t, e)
  PROVE  Alone' /\ Held'
<1> DEFINE new == [status |-> "pending", ckpt |-> asking[t]]
<1>1. /\ phase[t] = "ask" /\ e \in checkpoints[asking[t]] /\ approval[e] = None
      /\ approval' = [approval EXCEPT ![e] = new]
      /\ approval \in [Calls -> Approvals \cup {None}]
      /\ asking[t] \in DOMAIN checkpoints /\ asking[t] \in Nat \ {0}
      /\ UNCHANGED <<checkpoints, phase, asking, holder>>
  BY DEF CreateApproval, IndInv, TypeOK, AskingSaved
<1>2. new \in Approvals /\ new # None /\ new.ckpt = asking[t]
  BY <1>1, NamesAssumption DEF Approvals
<1> HIDE DEF new
<1>3. /\ phase[e] = "none" /\ e \in Tasks /\ e # t /\ e # RunTask
  BY <1>1, UnaskedIsIdle, NamesAssumption DEF Tasks
<1>4. Alive(t)
  BY <1>1, WorkingIsAlive DEF Active
<1>5. ASSUME NEW u \in Tasks, u # e
      PROVE  /\ Alive(u)' <=> Alive(u)
             /\ Stuck(u) => Stuck(u)'
             /\ \A v \in Tasks \ {e} : AsksFor(v, u) => AsksFor(v, u)'
  <2>1. u # RunTask => u \in Calls /\ approval'[u] = approval[u]
    BY <1>1, <1>5 DEF Tasks
  <2>2. Alive(u)' <=> Alive(u)
    BY <1>1, <2>1 DEF Alive
  <2>3. Stuck(u) => Stuck(u)'
    BY <1>1, <1>2, <2>1 DEF Stuck
  <2>4. \A v \in Tasks : AsksFor(v, u) => AsksFor(v, u)'
    BY <1>1, <1>5, <2>1, <2>3 DEF AsksFor, Stuck
  <2> QED BY <2>2, <2>3, <2>4
<1>6. ASSUME NEW u \in Tasks, u # e, u # t, Alive(u), AsksFor(t, u)
      PROVE  Stuck(u)' /\ Stuck(e)'
  <2>1. /\ u \in Calls /\ u # RunTask /\ approval[u] # None
        /\ approval[u].ckpt = asking[t] /\ u \in checkpoints[asking[t]]
    BY <1>1, <1>6, NamesAssumption DEF AsksFor, Alive
  <2>2. approval'[u] = approval[u] /\ approval'[e] = new
    BY <1>1, <1>6, <2>1
  <2>3. Stuck(u)'
    BY <1>1, <1>2, <1>6, <2>1, <2>2 DEF Stuck
  <2>4. Stuck(e)'
    BY <1>1, <1>2, <1>3, <1>6, <2>1, <2>2 DEF Stuck
  <2> QED BY <2>3, <2>4
<1>7. Stuck(t) => Stuck(e)'
  <2> SUFFICES ASSUME Stuck(t)
               PROVE  Stuck(e)'
    OBVIOUS
  <2>1. /\ t \in Calls /\ payload[t] # None /\ payload[t].ckpt = approval[t].ckpt
        /\ payload[t].ckpt \in DOMAIN checkpoints
    BY <1>1 DEF Stuck, Tasks, IndInv, ResumeGrounded, ApprovalBound
  <2>2. PICK c \in checkpoints[approval[t].ckpt] \ {t} : approval[c] # None
    BY <2>1 DEF Stuck
  <2>3. c \in checkpoints[asking[t]]
    BY <1>1, <2>1, <2>2 DEF AskedUndecided, Undecided, Stuck
  <2>4. c \in Calls /\ c # e /\ approval'[c] # None
    <3>1. checkpoints[asking[t]] \subseteq Calls
      BY <1>1 DEF IndInv, TypeOK
    <3> QED BY <1>1, <2>2, <2>3, <3>1
  <2> QED BY <1>1, <1>2, <1>3, <2>3, <2>4 DEF Stuck
<1>8. ASSUME NEW u \in Tasks, u # t, u # e, Alive(u), ~Stuck(u) \/ ~Stuck(t)
      PROVE  AsksFor(t, u)
  BY <1>1, <1>4, <1>8 DEF Alone, AsksFor
<1>9. ~Stuck(e)' => holder = t
  BY <1>1, <1>7 DEF Held, Active
<1>10. ~Stuck(e)' => AsksFor(t, e)'
  BY <1>1, <1>2, <1>3, <1>9 DEF AsksFor
<1>11. ASSUME NEW u \in Tasks, NEW v \in Tasks, u # v, Alive(u)', Alive(v)',
              ~Stuck(u)'
       PROVE  AsksFor(u, v)' \/ AsksFor(v, u)'
  <2>1. CASE u # e /\ v # e
    BY <1>5, <1>11, <2>1 DEF Alone
  <2>2. CASE u = e /\ v = t
    BY <1>10, <1>11, <2>2
  <2>3. CASE u = e /\ v # t
    <3>1. Alive(v)
      BY <1>5, <1>11, <2>3
    <3>2. AsksFor(t, v)
      BY <1>7, <1>8, <1>11, <2>3, <3>1
    <3> QED BY <1>6, <1>11, <2>3, <3>1, <3>2
  <2>4. CASE v = e /\ u = t
    <3>1. ~Stuck(t)
      BY <1>3, <1>5, <1>11, <2>4
    <3>2. holder = t
      BY <1>1, <3>1 DEF Held, Active
    <3> QED BY <1>1, <1>2, <1>3, <2>4, <3>2 DEF AsksFor
  <2>5. CASE v = e /\ u # t
    <3>1. Alive(u) /\ ~Stuck(u)
      BY <1>5, <1>11, <2>5
    <3>2. AsksFor(t, u)
      BY <1>8, <1>11, <2>5, <3>1
    <3> QED BY <1>6, <1>11, <2>5, <3>1, <3>2
  <2> QED BY <2>1, <2>2, <2>3, <2>4, <2>5
<1>12. Alone'
  BY <1>11 DEF Alone
<1>13. Held'
  BY <1>1, <1>3, <1>5 DEF Held, Active
<1> QED BY <1>12, <1>13

(***************************************************************************)
(* An approval the gateway asks for.  The execution that meets it has no   *)
(* call left undecided, so it holds the lease and is alone but for calls   *)
(* of this kind; and the new call is stuck from the start.                 *)
(***************************************************************************)
LEMMA GatewayKeeps ==
  ASSUME IndInv, Alone, Held, NEW t \in Tasks, NEW e \in Calls, GatewayAsks(t, e)
  PROVE  Alone' /\ Held'
<1> DEFINE new == [status |-> "pending", ckpt |-> CheckpointRef(t)]
<1>1. /\ phase[t] \in {"model", "raised"} /\ Undecided(t) = {} /\ approval[e] = None
      /\ phase \in [Tasks -> Phases] /\ phase' = [phase EXCEPT ![t] = "raised"]
      /\ approval' = [approval EXCEPT ![e] = new]
      /\ approval \in [Calls -> Approvals \cup {None}]
      /\ checkpoints \in Seq((SUBSET Calls) \ {{}})
      /\ UNCHANGED <<checkpoints, asking, holder>>
  BY DEF GatewayAsks, Fresh, Goto, IndInv, TypeOK
<1>2. t \in Calls => /\ approval[t] # None /\ approval[t].ckpt = payload[t].ckpt
                     /\ payload[t].ckpt \in DOMAIN checkpoints
                     /\ checkpoints[payload[t].ckpt] = {t}
  <2> SUFFICES ASSUME t \in Calls
               PROVE  /\ approval[t] # None /\ approval[t].ckpt = payload[t].ckpt
                      /\ payload[t].ckpt \in DOMAIN checkpoints
                      /\ checkpoints[payload[t].ckpt] = {t}
    OBVIOUS
  <2>1. /\ approval[t] # None /\ approval[t].ckpt = payload[t].ckpt
        /\ payload[t].ckpt \in DOMAIN checkpoints
    BY <1>1 DEF IndInv, ResumeGrounded, ApprovalBound
  <2>2. checkpoints[payload[t].ckpt] \in (SUBSET Calls) \ {{}}
    BY <1>1, <2>1
  <2>3. checkpoints[payload[t].ckpt] \ {t} = {}
    BY <1>1, NamesAssumption DEF Undecided
  <2> QED BY <2>1, <2>2, <2>3
<1>3. new # None /\ new.ckpt = CheckpointRef(t)
  <2>1. CheckpointRef(t) \in Nat
    BY <1>1, <1>2 DEF CheckpointRef, Tasks
  <2> QED BY <2>1, NamesAssumption DEF Approvals
<1> HIDE DEF new
<1>4. /\ phase[e] = "none" /\ e \in Tasks /\ e # t /\ e # RunTask
  BY <1>1, UnaskedIsIdle, NamesAssumption DEF Tasks
<1>5. ~Stuck(t) /\ Alive(t) /\ holder = t
  <2>1. ~Stuck(t)
    BY <1>2 DEF Stuck, Tasks
  <2>2. phase[t] \in Active
    BY <1>1 DEF Active
  <2> QED BY <2>1, <2>2, WorkingIsAlive DEF Held
<1>6. Stuck(e)'
  <2>1. approval'[e] = new
    BY <1>1
  <2>2. CASE t = RunTask
    <3>1. 0 \notin DOMAIN checkpoints
      BY <1>1
    <3> QED BY <1>1, <1>3, <1>4, <2>1, <2>2, <3>1 DEF Stuck, CheckpointRef
  <2>3. CASE t # RunTask
    <3>1. t \in Calls /\ approval'[t] = approval[t]
      BY <1>1, <1>4, <2>3 DEF Tasks
    <3> QED BY <1>1, <1>2, <1>3, <1>4, <2>1, <2>3, <3>1 DEF Stuck, CheckpointRef
  <2> QED BY <2>2, <2>3
<1>7. ASSUME NEW u \in Tasks, u # e
      PROVE  (Alive(u)' <=> Alive(u)) /\ (Stuck(u) => Stuck(u)')
  <2>1. u # RunTask => u \in Calls /\ approval'[u] = approval[u]
    BY <1>1, <1>7 DEF Tasks
  <2>2. Alive(u)' <=> Alive(u)
    BY <1>1, <2>1 DEF Alive
  <2>3. Stuck(u) => Stuck(u)'
    BY <1>1, <1>3, <2>1 DEF Stuck
  <2> QED BY <2>2, <2>3
<1>8. ASSUME NEW u \in Tasks, u # t, Alive(u)'
      PROVE  Stuck(u)' /\ AsksFor(t, u)'
  <2>1. CASE u = e
    BY <1>1, <1>4, <1>5, <1>6, <2>1 DEF AsksFor
  <2>2. CASE u # e
    <3>1. AsksFor(t, u)
      BY <1>1, <1>5, <1>7, <1>8, <2>2 DEF Alone, AsksFor
    <3>2. Stuck(u)'
      BY <1>1, <1>7, <2>2, <3>1 DEF AsksFor
    <3> QED BY <1>1, <1>5, <1>8, <3>1, <3>2 DEF AsksFor
  <2> QED BY <2>1, <2>2
<1>9. Alone'
  BY <1>8 DEF Alone
<1>10. Held'
  <2> SUFFICES ASSUME NEW u \in Tasks, phase'[u] \in Active, ~Stuck(u)'
               PROVE  holder' = u
    BY DEF Held
  <2>1. CASE u = t
    BY <1>1, <1>5, <2>1
  <2>2. CASE u # t
    <3>1. phase[u] \in Active /\ u # e
      BY <1>1, <1>4, <2>2 DEF Active
    <3>2. Alive(u)
      BY <3>1, WorkingIsAlive
    <3> QED BY <1>7, <1>8, <2>2, <3>1, <3>2
  <2> QED BY <2>1, <2>2
<1> QED BY <1>9, <1>10

(***************************************************************************)
(* Without repeats, every action keeps those who are alive apart.          *)
(***************************************************************************)
LEMMA QuietStep ==
  ASSUME IndInv, NoRepeat, Next, repeats' = 0
  PROVE  NoRepeat'
<1> USE NamesAssumption
<1>0. /\ TypeOK /\ ApprovalBound /\ DecisionMade /\ AskingSaved /\ ResumeGrounded
      /\ NoneAhead /\ Alone /\ Held /\ CompletedStill /\ AskedUndecided /\ RunOnce /\ Unscheduled
  BY DEF IndInv, NoRepeat
<1>a. ASSUME NEW t \in Tasks, phase[t] \in Active \cup {"queued"}
      PROVE  status # "completed"
  BY <1>0, <1>a, WorkingIsAlive DEF CompletedStill
<1>b. ASSUME NEW c \in Calls, Decidable(c)
      PROVE  phase[c] = "none" /\ payload[c] = None /\ status # "completed"
  BY <1>0, <1>b DEF Decidable, ApprovalBound, ResumeGrounded, CompletedStill, Alive, Tasks
<1>c. ASSUME NEW t \in Tasks, phase[t] \in Active, t # RunTask
      PROVE  phase[RunTask] \notin {"none", "queued", "claimed"}
  BY <1>0, <1>c, WorkingIsAlive DEF Alone, Alive, AsksFor, Stuck, Tasks
<1>1. ASSUME NEW B \in SUBSET Tasks, NEW last \in B, Dispatch(B, last)
      PROVE  NoRepeat'
  <2>1. Alone' /\ Held'
    BY <1>0, <1>1, DispatchKeeps
  <2>2. phase[last] = "queued" /\ last \in Tasks /\ status # "completed"
    BY <1>1, <1>a DEF Dispatch
  <2>3. CompletedStill' /\ Unscheduled'
    BY <1>0, <1>1, <2>2 DEF Dispatch, CompletedStill, Unscheduled
  <2>4. AskedUndecided'
    BY <1>0, <1>1 DEF Dispatch, AskedUndecided, Undecided, TypeOK, Tasks
  <2>5. RunOnce'
    BY <1>0, <1>1 DEF Dispatch, RunOnce, TypeOK, Tasks
  <2> QED BY <2>1, <2>3, <2>4, <2>5 DEF NoRepeat
<1>2. ASSUME NEW t \in Tasks, phase[t] \in Active, Goto(t, "report"),
             UNCHANGED <<checkpoints, asking, deciding, payload, cancel>>,
             \A c \in Calls : /\ approval'[c] = None <=> approval[c] = None
                              /\ approval'[c].ckpt = approval[c].ckpt,
             status' \notin {"absent", "running", "completed"} \/ status' = status
      PROVE  NoRepeat'
  <2>1. Alone' /\ Held'
    BY <1>0, <1>2, LeavingKeeps
  <2>2. CompletedStill'
    BY <1>2, <1>a DEF CompletedStill
  <2>3. AskedUndecided' /\ Unscheduled'
    BY <1>0, <1>2 DEF AskedUndecided, Undecided, Unscheduled, Goto, TypeOK, Tasks
  <2>4. RunOnce'
    BY <1>0, <1>2, <1>c DEF RunOnce, Goto, TypeOK, Tasks
  <2> QED BY <2>1, <2>2, <2>3, <2>4 DEF NoRepeat
<1>3. CASE RunRefused
  BY <1>2, <1>3 DEF RunRefused, Active, Tasks
<1>4. CASE KernelRun
  <2>1. phase[RunTask] = "claimed" /\ RunTask \in Tasks /\ Goto(RunTask, "model")
        /\ status' = "running"
        /\ UNCHANGED <<checkpoints, approval, deciding, payload, asking, cancel>>
    BY <1>4 DEF KernelRun, Tasks
  <2>2. Alone' /\ Held'
    BY <1>0, <2>1, GoingKeeps
  <2>3. CompletedStill' /\ Unscheduled'
    BY <1>0, <2>1 DEF CompletedStill, Unscheduled
  <2>4. AskedUndecided'
    BY <1>0, <2>1 DEF AskedUndecided, Undecided, Goto, TypeOK, Tasks
  <2>5. RunOnce'
    BY <1>0, <2>1 DEF RunOnce, Goto, TypeOK
  <2> QED BY <2>2, <2>3, <2>4, <2>5 DEF NoRepeat
<1>5. ASSUME NEW c \in Calls, ResumeIgnored(c) \/ ResumeRefused(c)
      PROVE  NoRepeat'
  BY <1>2, <1>5 DEF ResumeIgnored, ResumeRefused, Active, Tasks
<1>6. ASSUME NEW c \in Calls, KernelResume(c) \/ RunTool(c)
      PROVE  NoRepeat'
  <2>1. /\ c \in Tasks /\ phase[c] \in {"claimed", "tool"}
        /\ Goto(c, "tool") \/ Goto(c, "model")
        /\ UNCHANGED <<status, checkpoints, approval, deciding, payload, asking, cancel>>
    BY <1>6 DEF KernelResume, RunTool, Tasks
  <2>2. Alone' /\ Held'
    BY <1>0, <2>1, GoingKeeps
  <2>3. CompletedStill' /\ Unscheduled'
    BY <1>0, <1>a, <2>1 DEF CompletedStill, Unscheduled, Active
  <2>4. AskedUndecided'
    BY <1>0, <2>1 DEF AskedUndecided, Undecided, Goto, TypeOK, Tasks
  <2>5. RunOnce'
    BY <1>0, <2>1 DEF RunOnce, Goto, TypeOK, Tasks
  <2> QED BY <2>2, <2>3, <2>4, <2>5 DEF NoRepeat
<1>7. ASSUME NEW c \in Calls, ToolRefused(c)
      PROVE  NoRepeat'
  BY <1>2, <1>7 DEF ToolRefused, Active, Tasks
<1>8. ASSUME NEW t \in Tasks, Fail(t)
      PROVE  NoRepeat'
  BY <1>2, <1>8 DEF Fail, Active
<1>9. ASSUME NEW t \in Tasks, Finish(t)
      PROVE  NoRepeat'
  <2>1. /\ phase[t] = "model" /\ Undecided(t) = {} /\ Goto(t, "report")
        /\ status' = "completed"
        /\ UNCHANGED <<checkpoints, approval, deciding, payload, asking, cancel>>
    BY <1>9 DEF Finish
  <2>2. Alone' /\ Held'
    BY <1>0, <2>1, LeavingKeeps DEF Active
  <2>3. Alive(t)
    BY <2>1, WorkingIsAlive DEF Active
  <2>4. ~Stuck(t)
    <3>1. t \in Calls => /\ payload[t] # None /\ payload[t].ckpt = approval[t].ckpt
                         /\ payload[t].ckpt \in DOMAIN checkpoints
      BY <1>0, <2>1 DEF ResumeGrounded, ApprovalBound
    <3> QED BY <2>1, <3>1 DEF Stuck, Undecided, Tasks
  <2>5. ASSUME NEW u \in Tasks
        PROVE  ~Alive(u)'
    <3>1. CASE u = t
      BY <1>0, <2>1, <3>1 DEF Alive, Goto, TypeOK
    <3>2. CASE u # t
      <4>1. ~Alive(u)
        BY <1>0, <2>1, <2>3, <2>4, <3>2 DEF Alone, AsksFor
      <4> QED BY <1>0, <2>1, <3>2, <4>1 DEF Alive, Goto, TypeOK
    <3> QED BY <3>1, <3>2
  <2>6. CompletedStill' /\ Unscheduled'
    BY <1>0, <2>1, <2>5 DEF CompletedStill, Unscheduled
  <2>7. AskedUndecided'
    BY <1>0, <2>1 DEF AskedUndecided, Undecided, Goto, TypeOK, Tasks
  <2>8. RunOnce'
    BY <1>0, <2>1, <1>c DEF RunOnce, Goto, TypeOK, Tasks, Active
  <2> QED BY <2>2, <2>6, <2>7, <2>8 DEF NoRepeat
<1>10. ASSUME NEW t \in Tasks, NEW open \in SUBSET Calls, Interrupt(t, open)
       PROVE  NoRepeat'
  <2>1. Alone' /\ Held'
    BY <1>0, <1>10, InterruptKeeps
  <2>2. CompletedStill' /\ Unscheduled'
    BY <1>0, <1>10 DEF Interrupt, CompletedStill, Unscheduled
  <2>3. /\ phase[t] = "model" /\ phase' = [phase EXCEPT ![t] = "ask"]
        /\ asking' = [asking EXCEPT ![t] = Len(checkpoints) + 1]
        /\ checkpoints' = Append(checkpoints, open)
        /\ Undecided(t) \subseteq open
        /\ UNCHANGED <<payload, approval>>
    BY <1>10 DEF Interrupt, Goto
  <2>4. open # {} /\ open \in (SUBSET Calls) \ {{}}
    <3>1. open # {}
      BY <1>10 DEF Interrupt
    <3> QED BY <3>1
  <2>5. /\ \A i \in DOMAIN checkpoints : checkpoints'[i] = checkpoints[i]
        /\ checkpoints'[Len(checkpoints) + 1] = open
    BY <1>0, <2>3, <2>4, SavedStays DEF TypeOK
  <2>6. ASSUME NEW c \in Calls, phase'[c] = "ask"
        PROVE  (Undecided(c) \subseteq checkpoints[asking[c]])'
    <3>1. c \in Tasks /\ phase[c] \in {"model", "ask"}
      BY <1>0, <2>3, <2>6 DEF TypeOK, Tasks
    <3>2. payload[c].ckpt \in DOMAIN checkpoints
      BY <1>0, <3>1 DEF ResumeGrounded
    <3>3. Undecided(c)' = Undecided(c)
      BY <2>3, <2>5, <3>2 DEF Undecided
    <3>4. CASE c = t
      BY <1>0, <2>3, <2>5, <3>3, <3>4 DEF TypeOK
    <3>5. CASE c # t
      BY <1>0, <2>3, <2>5, <2>6, <3>1, <3>3, <3>5 DEF TypeOK, AskedUndecided, AskingSaved
    <3> QED BY <3>4, <3>5
  <2>7. AskedUndecided'
    BY <2>6 DEF AskedUndecided
  <2>8. RunOnce'
    BY <1>0, <1>10, <1>c DEF Interrupt, Goto, RunOnce, TypeOK, Tasks, Active
  <2> QED BY <2>1, <2>2, <2>7, <2>8 DEF NoRepeat
<1>11. ASSUME NEW t \in Tasks, NEW c \in Calls, CreateApproval(t, c)
       PROVE  NoRepeat'
  <2>1. Alone' /\ Held'
    BY <1>0, <1>11, CreateKeeps
  <2>2. CompletedStill'
    BY <1>0, <1>11, <1>a DEF CreateApproval, CompletedStill, Active
  <2>3. AskedUndecided' /\ RunOnce' /\ Unscheduled'
    BY <1>0, <1>11 DEF CreateApproval, AskedUndecided, Undecided, RunOnce, Unscheduled
  <2> QED BY <2>1, <2>2, <2>3 DEF NoRepeat
<1>12. ASSUME NEW t \in Tasks, Settle(t)
       PROVE  NoRepeat'
  <2>1. CASE Goto(t, "report")
    BY <1>2, <1>12, <2>1 DEF Settle, Active
  <2>2. CASE t = RunTask /\ Goto(t, "block")
    <3>1. /\ phase[t] = "ask" /\ phase' = [phase EXCEPT ![t] = "block"]
          /\ status' = "waiting" /\ RunTask \notin Calls
          /\ UNCHANGED <<checkpoints, approval, deciding, payload, asking,
                         cancel, holder>>
      BY <1>12, <2>2 DEF Settle, Goto
    <3>2. ASSUME NEW u \in Tasks, NEW v \in Tasks, AsksFor(u, v)
          PROVE  AsksFor(u, v)'
      BY <1>0, <3>1, <3>2 DEF AsksFor, Stuck, TypeOK
    <3>3. ASSUME NEW u \in Tasks
          PROVE  /\ Alive(u)' <=> Alive(u)
                 /\ Stuck(u)' <=> Stuck(u)
                 /\ phase'[u] \in Active => phase[u] \in Active
      BY <1>0, <3>1 DEF Alive, Stuck, TypeOK, Active
    <3>4. Alone'
      BY <1>0, <3>2, <3>3 DEF Alone
    <3>5. Held'
      BY <1>0, <3>1, <3>3 DEF Held
    <3>6. CompletedStill' /\ Unscheduled'
      BY <1>0, <3>1 DEF CompletedStill, Unscheduled
    <3>7. AskedUndecided'
      BY <1>0, <3>1 DEF AskedUndecided, Undecided, TypeOK, Tasks
    <3>8. RunOnce'
      BY <1>0, <2>2, <3>1 DEF RunOnce, TypeOK
    <3> QED BY <3>4, <3>5, <3>6, <3>7, <3>8 DEF NoRepeat
  <2> QED BY <1>12, <2>1, <2>2 DEF Settle
<1>13. ASSUME NEW c \in Calls, NEW s \in {"approved", "denied"}, Decidable(c),
              approval' = Decided(c, s)
       PROVE  \A d \in Calls : /\ approval'[d] = None <=> approval[d] = None
                               /\ approval'[d].ckpt = approval[d].ckpt
  <2>1. approval[c] \in Approvals /\ approval[c] # None
    BY <1>0, <1>13 DEF Decidable, TypeOK
  <2>2. /\ [status |-> s, ckpt |-> approval[c].ckpt] # None
        /\ approval' = [approval EXCEPT ![c] = [status |-> s, ckpt |-> approval[c].ckpt]]
    BY <1>13, <2>1 DEF Decided, Approvals
  <2> QED BY <1>0, <2>1, <2>2 DEF TypeOK
<1>14. ASSUME NEW c \in Calls, Block(c)
       PROVE  NoRepeat'
  <2>1. \A d \in Calls : /\ approval'[d] = None <=> approval[d] = None
                         /\ approval'[d].ckpt = approval[d].ckpt
    BY <1>13, <1>14 DEF Block
  <2> QED BY <1>2, <1>14, <2>1 DEF Block, Active, Tasks
<1>15. ASSUME UNCHANGED <<checkpoints, asking, holder>>,
              NEW S \in SUBSET {c \in Calls : phase[c] = "none"},
              phase' = [t \in Tasks |-> IF t \in S THEN "queued" ELSE phase[t]],
              \A c \in Calls : /\ approval'[c] = None <=> approval[c] = None
                               /\ approval'[c].ckpt = approval[c].ckpt
       PROVE  Alone' /\ Held' /\ \A t \in Tasks : Alive(t)' <=> Alive(t)
  <2>1. ASSUME NEW u \in Tasks
        PROVE  Stuck(u)' <=> Stuck(u)
    <3>1. u # RunTask => u \in Calls /\ approval'[u].ckpt = approval[u].ckpt
      BY <1>15 DEF Tasks
    <3>2. \A i \in DOMAIN checkpoints : checkpoints[i] \subseteq Calls
      BY <1>0 DEF TypeOK
    <3> QED BY <1>15, <3>1, <3>2 DEF Stuck
  <2>2. ASSUME NEW u \in Tasks
        PROVE  Alive(u)' <=> Alive(u)
    BY <1>15 DEF Alive, Tasks
  <2>3. ASSUME NEW u \in Tasks, NEW v \in Tasks, AsksFor(u, v)
        PROVE  AsksFor(u, v)'
    BY <1>15, <2>1, <2>3 DEF AsksFor
  <2>4. Alone'
    BY <1>0, <2>1, <2>2, <2>3 DEF Alone
  <2>5. ASSUME NEW u \in Tasks, phase'[u] \in Active, ~Stuck(u)'
        PROVE  holder' = u
    <3>1. phase[u] \in Active
      BY <1>15, <2>5 DEF Active
    <3> QED BY <1>0, <1>15, <2>1, <2>5, <3>1 DEF Held
  <2> QED BY <2>2, <2>4, <2>5 DEF Held
<1>16. ASSUME NEW c \in Calls, NEW approved \in BOOLEAN, Decide(c, approved)
       PROVE  NoRepeat'
  <2>1. /\ Decidable(c) /\ deciding' = deciding \cup {c}
        /\ UNCHANGED <<status, checkpoints, payload, phase, asking, holder, cancel>>
    BY <1>16 DEF Decide
  <2>2. Alone' /\ Held'
    <3>1. \A d \in Calls : /\ approval'[d] = None <=> approval[d] = None
                           /\ approval'[d].ckpt = approval[d].ckpt
      BY <1>13, <1>16 DEF Decide
    <3>2. phase' = [t \in Tasks |-> IF t \in {} THEN "queued" ELSE phase[t]]
      BY <1>0, <2>1 DEF TypeOK
    <3>3. {} \in SUBSET {d \in Calls : phase[d] = "none"}
      OBVIOUS
    <3> QED BY <1>15, <2>1, <3>1, <3>2, <3>3
  <2>3. CompletedStill' /\ Unscheduled'
    BY <1>0, <1>b, <2>1 DEF CompletedStill, Unscheduled
  <2>4. AskedUndecided' /\ RunOnce'
    BY <1>0, <2>1 DEF AskedUndecided, Undecided, RunOnce
  <2> QED BY <2>2, <2>3, <2>4 DEF NoRepeat
<1>17. ASSUME NEW c \in Calls, ScheduleResume(c)
       PROVE  NoRepeat'
  <2>1. /\ c \in deciding /\ deciding' = deciding \ {c}
        /\ phase' = [phase EXCEPT ![c] = "queued"]
        /\ payload \in [Calls -> Payloads \cup {None}]
        /\ \A d \in Calls \ {c} : payload'[d] = payload[d]
        /\ UNCHANGED <<status, checkpoints, approval, asking, holder, cancel>>
    BY <1>0, <1>17 DEF ScheduleResume, TypeOK
  <2>2. approval[c] # None /\ payload[c] = None /\ phase[c] = "none"
    BY <1>0, <2>1 DEF DecisionMade, Unscheduled, ResumeGrounded
  <2>3. Alone' /\ Held' /\ \A t \in Tasks : Alive(t)' <=> Alive(t)
    <3>1. phase' = [t \in Tasks |-> IF t \in {c} THEN "queued" ELSE phase[t]]
      BY <1>0, <2>1 DEF TypeOK
    <3> QED BY <1>15, <2>1, <2>2, <3>1
  <2>4. CompletedStill'
    BY <1>0, <2>1, <2>3 DEF CompletedStill
  <2>5. Unscheduled'
    BY <1>0, <2>1 DEF Unscheduled, TypeOK
  <2>6. AskedUndecided'
    BY <1>0, <2>1 DEF AskedUndecided, Undecided, TypeOK, Tasks
  <2>7. RunOnce'
    BY <1>0, <2>1 DEF RunOnce, TypeOK, Tasks
  <2> QED BY <2>3, <2>4, <2>5, <2>6, <2>7 DEF NoRepeat
<1>18. ASSUME NEW c \in Calls, LoseResume(c)
       PROVE  NoRepeat'
  <2>1. /\ deciding' \subseteq deciding
        /\ UNCHANGED <<status, checkpoints, approval, payload, phase, asking,
                       holder, cancel>>
    BY <1>18 DEF LoseResume
  <2> QED BY <1>0, <2>1 DEF NoRepeat, Alone, Held, CompletedStill, AskedUndecided,
             RunOnce, Unscheduled, Alive, Stuck, AsksFor, Undecided
<1>19. CASE Canceller
  <2>1. /\ UNCHANGED <<checkpoints, approval, deciding, payload, phase, asking, holder>>
        /\ status' \in {status, "cancelled"}
    BY <1>0, <1>19 DEF Canceller, CancelRun, KernelCancelRead, KernelCancelWrite, RunOnce
  <2>2. Alone' /\ Held' /\ AskedUndecided' /\ Unscheduled'
    BY <1>0, <2>1 DEF Alone, Held, AskedUndecided, Unscheduled, Alive, Stuck, AsksFor,
       Undecided
  <2>3. CompletedStill'
    BY <1>0, <2>1 DEF CompletedStill, Alive
  <2>4. RunOnce'
    BY <1>0, <1>19 DEF Canceller, CancelRun, KernelCancelRead, KernelCancelWrite, RunOnce
  <2> QED BY <2>2, <2>3, <2>4 DEF NoRepeat
<1>20. ASSUME NEW t \in Tasks, Crash(t) \/ ReportFails(t)
       PROVE  FALSE
  BY <1>0, <1>20 DEF Crash, ReportFails, TypeOK
<1>21. ASSUME NEW t \in Tasks, GiveUp(t)
       PROVE  NoRepeat'
  BY <1>2, <1>21 DEF GiveUp
<1>22. ASSUME NEW t \in Tasks, NEW c \in Calls, GatewayAsks(t, c)
       PROVE  NoRepeat'
  <2>1. Alone' /\ Held'
    BY <1>0, <1>22, GatewayKeeps
  <2>2. /\ phase[t] \in {"model", "raised"} /\ phase' = [phase EXCEPT ![t] = "raised"]
        /\ UNCHANGED <<status, checkpoints, deciding, payload, asking, cancel>>
    BY <1>22 DEF GatewayAsks, Goto
  <2>3. CompletedStill' /\ Unscheduled'
    BY <1>0, <1>a, <2>2 DEF CompletedStill, Unscheduled, Active
  <2>4. AskedUndecided'
    BY <1>0, <2>2 DEF AskedUndecided, Undecided, TypeOK, Tasks
  <2>5. RunOnce'
    BY <1>0, <2>2 DEF RunOnce, TypeOK, Tasks
  <2> QED BY <2>1, <2>3, <2>4, <2>5 DEF NoRepeat
<1>23. ASSUME NEW t \in Tasks, Report(t)
       PROVE  NoRepeat'
  <2>1. Alone' /\ Held'
    BY <1>0, <1>23, ReportKeeps
  <2>2. /\ phase[t] = "report" /\ phase' = [phase EXCEPT ![t] = "done"]
        /\ UNCHANGED <<status, checkpoints, approval, deciding, payload, asking, cancel>>
    BY <1>23 DEF Report, Leave
  <2>3. CompletedStill' /\ Unscheduled'
    BY <1>0, <2>2 DEF CompletedStill, Alive, Unscheduled, TypeOK
  <2>4. AskedUndecided'
    BY <1>0, <2>2 DEF AskedUndecided, Undecided, TypeOK, Tasks
  <2>5. RunOnce'
    BY <1>0, <2>2 DEF RunOnce, TypeOK, Tasks
  <2> QED BY <2>1, <2>3, <2>4, <2>5 DEF NoRepeat
<1>24. ASSUME NEW t \in Tasks, Execute(t)
       PROVE  NoRepeat'
  BY <1>3, <1>4, <1>5, <1>6, <1>7, <1>8, <1>9, <1>10, <1>11, <1>12, <1>14, <1>22, <1>23, <1>24
  DEF Execute
<1> QED BY <1>1, <1>16, <1>17, <1>18, <1>19, <1>20, <1>21, <1>24
        DEF Next, Worker, Founder, Faults

(***************************************************************************)
(* A completed run stays completed unless an execution is repeated, after  *)
(* a crash or a failed report: no write of worker, founder or canceller    *)
(* has a condition on the status, but when one completes the run there is  *)
(* no other left.                                                          *)
(***************************************************************************)
THEOREM CompletedStays == Spec => CompletedFinal
<1> DEFINE Quiet == IndInv /\ (repeats = 0 => NoRepeat)
<1>1. Init => Quiet
  <2> SUFFICES ASSUME Init PROVE NoRepeat
    BY InitSound
  <2>1. \A t \in Tasks : Alive(t) => t = RunTask
    BY DEF Init, Alive, Tasks
  <2>2. Alone
    BY <2>1 DEF Alone
  <2>3. Held /\ CompletedStill /\ AskedUndecided /\ Unscheduled
    BY NamesAssumption DEF Init, Held, CompletedStill, AskedUndecided, Unscheduled, Active,
       Tasks
  <2>4. RunOnce
    BY DEF Init, RunOnce
  <2> QED BY <2>2, <2>3, <2>4 DEF NoRepeat
<1>2. ASSUME Quiet, Next
      PROVE  Quiet'
  <2>1. repeats' = 0 => repeats = 0
    BY <1>2, BoundsAssumption
    DEF Next, Worker, Dispatch, Execute, RunRefused, KernelRun, Block, ResumeIgnored,
        ResumeRefused, KernelResume, RunTool, ToolRefused, Fail, Finish, Interrupt,
        CreateApproval, GatewayAsks, Settle, Report, Founder, Decide, ScheduleResume,
        LoseResume, Canceller, CancelRun, KernelCancelRead, KernelCancelWrite, Faults,
        Crash, ReportFails, GiveUp, IndInv, TypeOK
  <2> QED BY <1>2, <2>1, StepSound, QuietStep
<1>3. ASSUME Quiet, UNCHANGED vars
      PROVE  Quiet'
  BY <1>3
  DEF vars, IndInv, TypeOK, ApprovalBound, Waits, OnlyApprovedToolsRun, DecisionMade,
      AskingSaved, ResumeGrounded, NoneAhead, NoRepeat, Alone, Held, CompletedStill,
      AskedUndecided, RunOnce, Unscheduled, Alive, Stuck, AsksFor, Undecided
<1>4. ASSUME Quiet, [Next]_vars
      PROVE  [repeats = 0 /\ status = "completed" => status' = "completed"]_vars
  <2> SUFFICES ASSUME Next, repeats = 0, status = "completed"
               PROVE  status' = "completed"
    BY <1>4
  <2>1. NoRepeat /\ IndInv
    BY <1>4
  <2>2. \A t \in Tasks : phase[t] \notin Active
    BY <2>1, WorkingIsAlive DEF NoRepeat, CompletedStill
  <2>3. cancel # "write"
    BY <2>1 DEF NoRepeat, RunOnce
  <2>4. ASSUME NEW t \in Tasks, Execute(t)
        PROVE  status' = status
    <3>1. phase[t] \notin {"claimed", "tool", "model", "raised", "ask", "block"}
      BY <2>2 DEF Active
    <3>2. Report(t)
      BY <2>4, <3>1
      DEF Execute, RunRefused, KernelRun, Block, ResumeIgnored, ResumeRefused,
          KernelResume, RunTool, ToolRefused, Fail, Finish, Interrupt,
          CreateApproval, GatewayAsks, Settle
    <3> QED BY <3>2 DEF Report
  <2> QED BY <2>3, <2>4
          DEF Next, Worker, Dispatch, Founder, Decide, ScheduleResume, LoseResume,
              Canceller, CancelRun, KernelCancelRead, KernelCancelWrite, Faults,
              Crash, ReportFails, GiveUp
<1>5. Spec => []Quiet
  BY <1>1, <1>2, <1>3, PTL DEF Spec
<1> QED BY <1>4, <1>5, PTL DEF Spec, CompletedFinal
=============================================================================
