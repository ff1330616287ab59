--------------------------- MODULE ChildScheduler ---------------------------
(***************************************************************************)
(* The children of one supervised parent: the edge columns of              *)
(* control_plane.scheduled_tasks and                                       *)
(* services/cosa/services/child-scheduler.service.ts.                      *)
(*                                                                         *)
(* A session runs scheduleChildTask or completeChild, each a PostgreSQL    *)
(* transaction at READ COMMITTED whose statements are steps of their own:  *)
(* each reads what is committed by then (and its own changes), keeps the   *)
(* row locks it took, and may be rolled back before its commit (a lost     *)
(* connection, the victim of a deadlock).                                  *)
(*                                                                         *)
(* A child is also an ordinary task: workers claim it when it is           *)
(* 'scheduled'.  Its payload names neither a task type nor a run, so       *)
(* dispatch_one_task reports a failure until it is dead-lettered, and      *)
(* results arrive through completeChild only.                              *)
(***************************************************************************)
EXTENDS Integers, FiniteSets, Sequences

CONSTANTS
  Children,       \* child ids
  DependsOn,      \* child -> the children it waits for
  Keys,           \* idempotency keys of completeChild
  Sessions,       \* concurrent transactions
  JoinQuorum,     \* join_quorum, or None
  MaxWrites,      \* child -> bound on the results written for it
  None            \* SQL NULL, no transaction

ASSUME ChildAssumption ==
  /\ DependsOn \in [Children -> SUBSET Children]
  /\ None \notin Keys

VARIABLES
  status,        \* child -> its status, "absent" for no row
  completionKey, \* child -> key of the result it holds
  written,       \* child -> the keys of the results committed for it, in order
  tx,            \* session -> its open transaction
  overlapped     \* whether two transactions were ever open at a time

vars == <<status, completionKey, written, tx, overlapped>>

Statuses == {"absent", "blocked", "scheduled", "processing", "completed", "failed"}

(***************************************************************************)
(* at: before the INSERT of scheduleChildTask; after completeChild's own   *)
(* UPDATE; after it read the completed children.                           *)
(***************************************************************************)
Tx ==
  [at : {"insert"}, child : Children, key : {None}, done : SUBSET Children]
    \cup [at : {"updated", "unblock"}, child : Children, key : Keys, done : SUBSET Children]

TypeOK ==
  /\ status \in [Children -> Statuses]
  /\ completionKey \in [Children -> Keys \cup {None}]
  /\ written \in [Children -> Seq(Keys)]
  /\ tx \in [Sessions -> Tx \cup {None}]
  /\ overlapped \in BOOLEAN

Init ==
  /\ status = [k \in Children |-> "absent"]
  /\ completionKey = [k \in Children |-> None]
  /\ written = [k \in Children |-> <<>>]
  /\ tx = [x \in Sessions |-> None]
  /\ overlapped = FALSE

completedChildIds == {k \in Children : status[k] = "completed"}

(***************************************************************************)
(* k's row is locked by a session other than x: completeChild locks its own *)
(* row first, scheduleChildTask found no row to lock.                      *)
(***************************************************************************)
Locked(k, x) ==
  \E y \in Sessions \ {x} : tx[y] # None /\ tx[y].at # "insert" /\ tx[y].child = k

Open(x, t) ==
  /\ tx[x] = None
  /\ tx' = [tx EXCEPT ![x] = t]
  /\ overlapped' = (overlapped \/ \E y \in Sessions : tx[y] # None)

Finish(x) == tx' = [tx EXCEPT ![x] = None] /\ UNCHANGED overlapped

-----------------------------------------------------------------------------
(* scheduleChildTask.                                                      *)

(***************************************************************************)
(* There is no row of that child yet; the completed children are read.     *)
(***************************************************************************)
ScheduleRead(x, k) ==
  /\ status[k] = "absent"
  /\ Open(x, [at |-> "insert", child |-> k, key |-> None, done |-> completedChildIds])
  /\ UNCHANGED <<status, completionKey, written>>

(***************************************************************************)
(* INSERT and commit, unless another call inserted the child meanwhile and *)
(* the unique index on (parent_task_id, child_id) makes this one fail.     *)
(***************************************************************************)
ScheduleInsert(x) ==
  /\ tx[x] # None
  /\ tx[x].at = "insert"
  /\ LET k == tx[x].child
     IN  status' = IF status[k] # "absent"
                     THEN status
                     ELSE [status EXCEPT ![k] = IF DependsOn[k] \subseteq tx[x].done
                                                  THEN "scheduled" ELSE "blocked"]
  /\ Finish(x)
  /\ UNCHANGED <<completionKey, written>>

-----------------------------------------------------------------------------
(* completeChild.                                                          *)

(* Mutant: a repeated call is not recognised. *)
Duplicate_Never(k, i) == FALSE

Duplicate(k, i) == status[k] = "completed" /\ completionKey[k] = i

(***************************************************************************)
(* SELECT ... FOR UPDATE of the child's row and, unless this is a repeated *)
(* call, the UPDATE of it, not committed yet.  Any status will do.         *)
(***************************************************************************)
CompleteRow(x, k, i) ==
  /\ status[k] # "absent"
  /\ ~Locked(k, x)
  /\ ~Duplicate(k, i)
  /\ Len(written[k]) < MaxWrites[k]
  /\ Open(x, [at |-> "updated", child |-> k, key |-> i, done |-> {}])
  /\ UNCHANGED <<status, completionKey, written>>

(* Mutant: read outside the transaction, without its own completion. *)
CompleteRead_CommittedOnly(x) ==
  /\ tx[x] # None
  /\ tx[x].at = "updated"
  /\ tx' = [tx EXCEPT ![x].at = "unblock", ![x].done = completedChildIds]
  /\ UNCHANGED <<status, completionKey, written, overlapped>>

(***************************************************************************)
(* The completed children are read: the committed ones and its own.        *)
(***************************************************************************)
CompleteRead(x) ==
  /\ tx[x] # None
  /\ tx[x].at = "updated"
  /\ tx' = [tx EXCEPT ![x].at = "unblock",
                      ![x].done = completedChildIds \cup {tx[x].child}]
  /\ UNCHANGED <<status, completionKey, written, overlapped>>

BlockedSiblings(x) == {k \in Children \ {tx[x].child} : status[k] = "blocked"}

Ready(k, done) == DependsOn[k] \subseteq done

(***************************************************************************)
(* The blocked siblings are locked (which waits for transactions that hold *)
(* one of them), the ready ones are released, and all of it commits.       *)
(***************************************************************************)
CompleteCommit(x) ==
  /\ tx[x] # None
  /\ tx[x].at = "unblock"
  /\ \A k \in BlockedSiblings(x) : ~Locked(k, x)
  /\ status' = [k \in Children |->
                  CASE k = tx[x].child -> "completed"
                    [] k \in BlockedSiblings(x) /\ Ready(k, tx[x].done) -> "scheduled"
                    [] OTHER -> status[k]]
  /\ completionKey' = [completionKey EXCEPT ![tx[x].child] = tx[x].key]
  /\ written' = [written EXCEPT ![tx[x].child] = Append(@, tx[x].key)]
  /\ Finish(x)

(* Mutant: what was released stays released although the completion did not commit. *)
Rollback_KeepsReleases(x) ==
  /\ tx[x] # None
  /\ status' = IF tx[x].at = "unblock"
                 THEN [k \in Children |->
                         IF k \in BlockedSiblings(x) /\ Ready(k, tx[x].done)
                           THEN "scheduled" ELSE status[k]]
                 ELSE status
  /\ Finish(x)
  /\ UNCHANGED <<completionKey, written>>

(***************************************************************************)
(* A transaction fails before its commit and leaves nothing behind.        *)
(***************************************************************************)
Rollback(x) ==
  /\ tx[x] # None
  /\ Finish(x)
  /\ UNCHANGED <<status, completionKey, written>>

-----------------------------------------------------------------------------
(* The child as a task of the queue.                                       *)

(***************************************************************************)
(* pollDueTasks skips locked rows.                                         *)
(***************************************************************************)
Claim(k) ==
  /\ status[k] = "scheduled"
  /\ ~Locked(k, None)
  /\ status' = [status EXCEPT ![k] = "processing"]
  /\ UNCHANGED <<completionKey, written, tx, overlapped>>

(* Mutant: a status the table does not know. *)
Fail_NewStatus(k) ==
  /\ status[k] = "processing"
  /\ status' = [status EXCEPT ![k] = "dead_letter"]
  /\ UNCHANGED <<completionKey, written, tx, overlapped>>

(* Mutant: the failure of a worker is taken after the result arrived. *)
Fail_Late(k) ==
  /\ status[k] \in {"processing", "completed"}
  /\ ~Locked(k, None)
  /\ \E s \in {"scheduled", "failed"} : status' = [status EXCEPT ![k] = s]
  /\ UNCHANGED <<completionKey, written, tx, overlapped>>

(***************************************************************************)
(* The worker reports a failure, or the sweeper takes the task back: one    *)
(* more attempt, or dead-lettered.                                         *)
(***************************************************************************)
Fail(k) ==
  /\ status[k] = "processing"
  /\ ~Locked(k, None)
  /\ \E s \in {"scheduled", "failed"} : status' = [status EXCEPT ![k] = s]
  /\ UNCHANGED <<completionKey, written, tx, overlapped>>

Next ==
  \/ \E x \in Sessions, k \in Children : ScheduleRead(x, k)
  \/ \E x \in Sessions : ScheduleInsert(x)
  \/ \E x \in Sessions, k \in Children, i \in Keys : CompleteRow(x, k, i)
  \/ \E x \in Sessions : CompleteRead(x)
  \/ \E x \in Sessions : CompleteCommit(x)
  \/ \E x \in Sessions : Rollback(x)
  \/ \E k \in Children : Claim(k)
  \/ \E k \in Children : Fail(k)

Spec == Init /\ [][Next]_vars

-----------------------------------------------------------------------------
(* resolveJoin.                                                            *)

Present == {k \in Children : status[k] # "absent"}

Quorum == IF JoinQuorum = None THEN Cardinality(Present) ELSE JoinQuorum

JoinPolicies == {"all", "any", "quorum"}

JoinSatisfied(policy) ==
  /\ Present # {}
  /\ policy = "all" => Present = completedChildIds
  /\ policy = "any" => completedChildIds # {}
  /\ policy = "quorum" => Cardinality(completedChildIds) >= Quorum

-----------------------------------------------------------------------------
(* Properties.                                                             *)

(***************************************************************************)
(* No child is handed to workers before everything it depends on is        *)
(* completed for good, although both transactions decide that from a set   *)
(* they read earlier and completions may be rolled back.                   *)
(***************************************************************************)
NoEarlyStart ==
  \A k \in Children :
     status[k] \in {"scheduled", "processing", "failed"} =>
        DependsOn[k] \subseteq completedChildIds

(***************************************************************************)
(* However often and however concurrently a result is reported, it is      *)
(* recorded a second time only after a result with another key took its    *)
(* place.  Both docs of record_child_result promise more ("the scheduler   *)
(* skips (child_id, idempotency_key) once recorded"), but completeChild    *)
(* compares the last key only: the reports A, B, A record A twice.         *)
(***************************************************************************)
RecordedOnce ==
  \A k \in Children : \A m, n \in DOMAIN written[k] :
     (m < n /\ written[k][m] = written[k][n])
        => \E p \in m + 1 .. n - 1 : written[k][p] # written[k][m]

(***************************************************************************)
(* completeChild "unblocks siblings whose depends_on is within the         *)
(* completed set": when no transaction is open, no child whose             *)
(* dependencies are all completed is still blocked.                        *)
(***************************************************************************)
NoneLeftBlocked ==
  (\A x \in Sessions : tx[x] = None) =>
     \A k \in Children : status[k] = "blocked" => ~ DependsOn[k] \subseteq completedChildIds

(***************************************************************************)
(* The same as long as no two transactions have overlapped: every order of *)
(* scheduling, reporting, repeating and rolling back leaves no child behind. *)
(***************************************************************************)
NoneLeftBehindSerially == ~overlapped => NoneLeftBlocked

(***************************************************************************)
(* A completed child stays completed: no later report, failure, claim or   *)
(* sweep undoes it, so a join that was satisfied by it stays satisfied.    *)
(***************************************************************************)
CompletionFinal ==
  [][\A k \in Children : status[k] = "completed" => status'[k] = "completed"]_vars

(***************************************************************************)
(* Every supervised plan whose transactions do not overlap ends: whatever   *)
(* its policy, its join is satisfied and stays satisfied.                  *)
(***************************************************************************)
JoinReached ==
  \A policy \in JoinPolicies : <>[](overlapped \/ JoinSatisfied(policy))

(***************************************************************************)
(* What NoEarlyStart rests on: the set a transaction read holds only       *)
(* children that are completed by now, and its own once it updated it.     *)
(***************************************************************************)
DoneSound ==
  \A x \in Sessions : tx[x] # None =>
     tx[x].done \subseteq completedChildIds
                          \cup (IF tx[x].at = "unblock" THEN {tx[x].child} ELSE {})

ChildInv == TypeOK /\ NoEarlyStart /\ DoneSound

(***************************************************************************)
(* What RecordedOnce rests on.  The row lock keeps two reports of one      *)
(* child apart, so a report that is being written is still not a repeated  *)
(* one when it commits; and the key a child holds is the one of the result *)
(* written last.                                                           *)
(***************************************************************************)
Reporting(x) == tx[x] # None /\ tx[x].at # "insert"

RowLocks ==
  \A x, y \in Sessions :
    Reporting(x) /\ Reporting(y) /\ tx[x].child = tx[y].child => x = y

ReportIsNew ==
  \A x \in Sessions : Reporting(x) =>
    tx[x].key \in Keys /\ ~Duplicate(tx[x].child, tx[x].key)

LastIsHeld ==
  \A k \in Children : written[k] # <<>> =>
    /\ status[k] = "completed"
    /\ completionKey[k] = written[k][Len(written[k])]

NoneTwiceInARow ==
  \A k \in Children : \A n \in DOMAIN written[k] :
    n + 1 \in DOMAIN written[k] => written[k][n] # written[k][n + 1]

RecordInv == RowLocks /\ ReportIsNew /\ LastIsHeld /\ NoneTwiceInARow

(***************************************************************************)
(* What NoneLeftBehindSerially rests on: a transaction that runs alone     *)
(* works with the children that are completed now, so in every state, also *)
(* while it is open, a blocked child waits for one that is not completed.  *)
(***************************************************************************)
OneTx == \A x, y \in Sessions : tx[x] # None /\ tx[y] # None => x = y

ReadIsCurrent ==
  \A x \in Sessions : tx[x] # None =>
    /\ tx[x].at = "insert" => tx[x].done = completedChildIds
    /\ tx[x].at = "unblock" => tx[x].done = completedChildIds \cup {tx[x].child}

BlockedWaits ==
  \A k \in Children : status[k] = "blocked" => ~ DependsOn[k] \subseteq completedChildIds

SerialInv == ~overlapped => OneTx /\ ReadIsCurrent /\ BlockedWaits

(***************************************************************************)
(* Fairness: the supervisor goes on calling for every child, to schedule   *)
(* it and, once it was released, to report it until it is completed; a     *)
(* transaction that was rolled back is repeated, and they are not rolled   *)
(* back before their commit for ever.  Nobody has to report a child again. *)
(***************************************************************************)
CalledFor(k) ==
  \E x \in Sessions :
     \/ ScheduleRead(x, k)
     \/ /\ status[k] \notin {"blocked", "completed"}
        /\ \E i \in Keys : CompleteRow(x, k, i)

Fairness ==
  /\ \A k \in Children : SF_vars(CalledFor(k))
  /\ \A x \in Sessions : SF_vars(CompleteRead(x))
  /\ \A x \in Sessions : SF_vars(ScheduleInsert(x) \/ CompleteCommit(x))

FairSpec == Spec /\ Fairness
=============================================================================
