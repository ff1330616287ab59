------------------------ MODULE ChildSchedulerProofs ------------------------
(***************************************************************************)
(* The safety of child scheduling for any children, any dependencies, any  *)
(* keys and any number of concurrent transactions.                         *)
(***************************************************************************)
EXTENDS ChildScheduler, TLAPS

(***************************************************************************)
(* The three facts every step keeps: completions are final, a status a     *)
(* worker can see is reached from one or from satisfied dependencies, and  *)
(* what transactions remember stays sound.                                 *)
(***************************************************************************)
Final == \A k \in Children : status[k] = "completed" => status'[k] = "completed"

Started(k) == status[k] \in {"scheduled", "processing", "failed"}

Justified ==
  \A k \in Children : Started(k)' => Started(k) \/ DependsOn[k] \subseteq completedChildIds'

SoundLater ==
  \A x \in Sessions : tx'[x] # None =>
     tx'[x].done \subseteq completedChildIds'
                           \cup (IF tx'[x].at = "unblock" THEN {tx'[x].child} ELSE {})

GoodStep == TypeOK' /\ Final /\ Justified /\ SoundLater

(***************************************************************************)
(* A step that leaves the table alone and only opens, moves or closes      *)
(* transactions soundly is good.                                           *)
(***************************************************************************)
LEMMA TxStep ==
  ASSUME ChildInv, UNCHANGED <<status, completionKey, written>>,
         tx' \in [Sessions -> Tx \cup {None}], overlapped' \in BOOLEAN, SoundLater
  PROVE  GoodStep
BY DEF ChildInv, GoodStep, TypeOK, Final, Justified, Started

(***************************************************************************)
(* When completions are final and transactions are only closed, what the   *)
(* remaining ones remember stays sound.                                    *)
(***************************************************************************)
LEMMA SoundKept ==
  ASSUME ChildInv, Final,
         \A x \in Sessions : tx'[x] = tx[x] \/ tx'[x] = None
  PROVE  SoundLater
<1>1. completedChildIds \subseteq completedChildIds'
  BY DEF Final, completedChildIds
<1> QED BY <1>1 DEF ChildInv, DoneSound, SoundLater

(***************************************************************************)
(* Every action is a good step.                                            *)
(***************************************************************************)
LEMMA StepsGood ==
  ASSUME ChildInv, Next
  PROVE  GoodStep
<1> USE ChildAssumption
<1>0. TypeOK /\ NoEarlyStart /\ DoneSound
  BY DEF ChildInv
<1>1. ASSUME NEW x \in Sessions, NEW k \in Children, ScheduleRead(x, k)
      PROVE  GoodStep
  <2> DEFINE new == [at |-> "insert", child |-> k, key |-> None, done |-> completedChildIds]
  <2>1. tx' = [tx EXCEPT ![x] = new] /\ UNCHANGED <<status, completionKey, written>>
    BY <1>1 DEF ScheduleRead, Open
  <2>2. new \in Tx /\ new.done = completedChildIds
    BY DEF Tx, completedChildIds
  <2>3. completedChildIds' = completedChildIds
    BY <2>1 DEF completedChildIds
  <2>6. overlapped' \in BOOLEAN
    BY <1>0, <1>1 DEF ScheduleRead, Open, TypeOK
  <2> HIDE DEF new
  <2>4. tx' \in [Sessions -> Tx \cup {None}]
    BY <1>0, <2>1, <2>2 DEF TypeOK
  <2>5. SoundLater
    BY <1>0, <2>1, <2>2, <2>3 DEF SoundLater, DoneSound, TypeOK
  <2> QED BY <2>1, <2>4, <2>5, <2>6, TxStep
<1>2. ASSUME NEW x \in Sessions, ScheduleInsert(x)
      PROVE  GoodStep
  <2>1. tx[x] \in Tx /\ tx[x].at = "insert" /\ tx[x] # None
    BY <1>0, <1>2 DEF ScheduleInsert, TypeOK
  <2>2. tx[x].child \in Children
    BY <2>1 DEF Tx
  <2>3. tx[x].done \subseteq completedChildIds
    BY <1>0, <2>1 DEF DoneSound
  <2>4. /\ tx' = [tx EXCEPT ![x] = None]
        /\ UNCHANGED <<completionKey, written, overlapped>>
    BY <1>2 DEF ScheduleInsert, Finish
  <2>5. \/ status' = status
        \/ /\ status[tx[x].child] = "absent"
           /\ \E s \in {"scheduled", "blocked"} :
                 /\ status' = [status EXCEPT ![tx[x].child] = s]
                 /\ s = "scheduled" => DependsOn[tx[x].child] \subseteq tx[x].done
    BY <1>2 DEF ScheduleInsert
  <2>6. TypeOK'
    <3>1. status' \in [Children -> Statuses]
      BY <1>0, <2>2, <2>5 DEF TypeOK, Statuses
    <3> QED BY <1>0, <2>4, <3>1 DEF TypeOK
  <2>7. Final
    BY <1>0, <2>2, <2>5 DEF Final, TypeOK
  <2>8. completedChildIds \subseteq completedChildIds'
    BY <2>7 DEF Final, completedChildIds
  <2>9. Justified
    BY <1>0, <2>2, <2>3, <2>5, <2>8 DEF Justified, Started, TypeOK
  <2>10. SoundLater
    BY <1>0, <2>4, <2>7, SoundKept DEF TypeOK
  <2> QED BY <2>6, <2>7, <2>9, <2>10 DEF GoodStep
<1>3. ASSUME NEW x \in Sessions, NEW k \in Children, NEW i \in Keys, CompleteRow(x, k, i)
      PROVE  GoodStep
  <2> DEFINE new == [at |-> "updated", child |-> k, key |-> i, done |-> {}]
  <2>1. tx' = [tx EXCEPT ![x] = new] /\ UNCHANGED <<status, completionKey, written>>
    BY <1>3 DEF CompleteRow, Open
  <2>2. new \in Tx /\ new.done = {}
    BY DEF Tx
  <2>3. completedChildIds' = completedChildIds
    BY <2>1 DEF completedChildIds
  <2>6. overlapped' \in BOOLEAN
    BY <1>0, <1>3 DEF CompleteRow, Open, TypeOK
  <2> HIDE DEF new
  <2>4. tx' \in [Sessions -> Tx \cup {None}]
    BY <1>0, <2>1, <2>2 DEF TypeOK
  <2>5. SoundLater
    BY <1>0, <2>1, <2>2, <2>3 DEF SoundLater, DoneSound, TypeOK
  <2> QED BY <2>1, <2>4, <2>5, <2>6, TxStep
<1>4. ASSUME NEW x \in Sessions, CompleteRead(x)
      PROVE  GoodStep
  <2> DEFINE new == [tx[x] EXCEPT !.at = "unblock",
                                  !.done = completedChildIds \cup {tx[x].child}]
  <2>1. tx[x] \in Tx /\ tx[x].at = "updated"
    BY <1>0, <1>4 DEF CompleteRead, TypeOK
  <2>2. tx' = [tx EXCEPT ![x] = new] /\ UNCHANGED <<status, completionKey, written>>
    BY <1>4 DEF CompleteRead
  <2>3. /\ new \in Tx
        /\ new.at = "unblock"
        /\ new.child = tx[x].child
        /\ new.done = completedChildIds \cup {tx[x].child}
    BY <2>1 DEF Tx, completedChildIds
  <2>4. completedChildIds' = completedChildIds
    BY <2>2 DEF completedChildIds
  <2>7. overlapped' \in BOOLEAN
    BY <1>0, <1>4 DEF CompleteRead, TypeOK
  <2> HIDE DEF new
  <2>5. tx' \in [Sessions -> Tx \cup {None}]
    BY <1>0, <2>2, <2>3 DEF TypeOK
  <2>6. SoundLater
    BY <1>0, <2>2, <2>3, <2>4 DEF SoundLater, DoneSound, TypeOK
  <2> QED BY <2>2, <2>5, <2>6, <2>7, TxStep
<1>5. ASSUME NEW x \in Sessions, CompleteCommit(x)
      PROVE  GoodStep
  <2>1. tx[x] \in Tx /\ tx[x].at = "unblock" /\ tx[x] # None
    BY <1>0, <1>5 DEF CompleteCommit, TypeOK
  <2>2. tx[x].child \in Children /\ tx[x].key \in Keys
    BY <2>1 DEF Tx
  <2>3. tx[x].done \subseteq completedChildIds \cup {tx[x].child}
    BY <1>0, <2>1 DEF DoneSound
  <2>4. tx' = [tx EXCEPT ![x] = None] /\ UNCHANGED overlapped
    BY <1>5 DEF CompleteCommit, Finish
  <2>5. \A k \in Children :
           \/ k = tx[x].child /\ status'[k] = "completed"
           \/ /\ k # tx[x].child /\ status[k] = "blocked" /\ status'[k] = "scheduled"
              /\ DependsOn[k] \subseteq tx[x].done
           \/ k # tx[x].child /\ status'[k] = status[k]
    BY <1>5 DEF CompleteCommit, BlockedSiblings, Ready
  <2>6. TypeOK'
    <3>1. status' \in [Children -> Statuses]
      <4>1. DOMAIN status' = Children /\ status' = [k \in Children |-> status'[k]]
        BY <1>5 DEF CompleteCommit
      <4>2. \A k \in Children : status'[k] \in Statuses
        BY <1>0, <2>5 DEF TypeOK, Statuses
      <4> QED BY <4>1, <4>2
    <3>2. completionKey' \in [Children -> Keys \cup {None}]
      BY <1>0, <1>5, <2>2 DEF CompleteCommit, TypeOK
    <3>3. written' \in [Children -> Seq(Keys)]
      <4> DEFINE f == Append(written[tx[x].child], tx[x].key)
      <4>1. written' = [written EXCEPT ![tx[x].child] = f]
        BY <1>5 DEF CompleteCommit
      <4>2. f \in Seq(Keys)
        BY <1>0, <2>2 DEF TypeOK
      <4> HIDE DEF f
      <4> QED BY <4>1, <4>2, <1>0 DEF TypeOK
    <3>4. tx' \in [Sessions -> Tx \cup {None}]
      BY <1>0, <2>4 DEF TypeOK
    <3>5. overlapped' \in BOOLEAN
      BY <1>0, <2>4 DEF TypeOK
    <3> QED BY <3>1, <3>2, <3>3, <3>4, <3>5 DEF TypeOK
  <2>7. Final
    BY <2>5 DEF Final
  <2>8. completedChildIds \cup {tx[x].child} \subseteq completedChildIds'
    BY <2>2, <2>5, <2>7 DEF Final, completedChildIds
  <2>9. Justified
    BY <2>3, <2>5, <2>8 DEF Justified, Started
  <2>10. SoundLater
    BY <1>0, <2>4, <2>7, SoundKept DEF TypeOK
  <2> QED BY <2>6, <2>7, <2>9, <2>10 DEF GoodStep
<1>6. ASSUME NEW x \in Sessions, Rollback(x)
      PROVE  GoodStep
  <2>1. tx' = [tx EXCEPT ![x] = None] /\ UNCHANGED <<status, completionKey, written, overlapped>>
    BY <1>6 DEF Rollback, Finish
  <2>2. Final
    BY <2>1 DEF Final
  <2>3. tx' \in [Sessions -> Tx \cup {None}] /\ overlapped' \in BOOLEAN
    BY <1>0, <2>1 DEF TypeOK
  <2>4. SoundLater
    BY <1>0, <2>1, <2>2, SoundKept DEF TypeOK
  <2> QED BY <2>1, <2>3, <2>4, TxStep
<1>7. ASSUME NEW k \in Children, Claim(k) \/ Fail(k)
      PROVE  GoodStep
  <2>1. /\ UNCHANGED <<completionKey, written, tx, overlapped>>
        /\ Started(k)
        /\ \E s \in {"scheduled", "processing", "failed"} : status' = [status EXCEPT ![k] = s]
    BY <1>7 DEF Claim, Fail, Started
  <2>2. TypeOK'
    BY <1>0, <2>1 DEF TypeOK, Statuses
  <2>3. Final
    BY <1>0, <2>1 DEF Final, Started, TypeOK
  <2>4. Justified
    BY <1>0, <2>1 DEF Justified, Started, TypeOK
  <2>5. SoundLater
    BY <1>0, <2>1, <2>3, SoundKept
  <2> QED BY <2>2, <2>3, <2>4, <2>5 DEF GoodStep
<1> QED BY <1>1, <1>2, <1>3, <1>4, <1>5, <1>6, <1>7 DEF Next

(***************************************************************************)
(* The invariant: types, no early start, and sound memories of open        *)
(* transactions.                                                           *)
(***************************************************************************)
THEOREM ChildInductive == Spec => []ChildInv
<1>1. Init => ChildInv
  <2> SUFFICES ASSUME Init PROVE ChildInv
    OBVIOUS
  <2>1. overlapped \in BOOLEAN
    BY DEF Init
  <2>2. NoEarlyStart /\ DoneSound
    BY DEF Init, NoEarlyStart, DoneSound
  <2> QED BY <2>1, <2>2, ChildAssumption DEF Init, ChildInv, TypeOK, Statuses
<1>2. ChildInv /\ [Next]_vars => ChildInv'
  <2>1. ASSUME ChildInv, Next PROVE ChildInv'
    <3>1. GoodStep
      BY <2>1, StepsGood
    <3>2. completedChildIds \subseteq completedChildIds'
      BY <3>1 DEF GoodStep, Final, completedChildIds
    <3>3. NoEarlyStart'
      BY <2>1, <3>1, <3>2 DEF GoodStep, Justified, Started, ChildInv, NoEarlyStart
    <3>4. DoneSound'
      BY <3>1 DEF GoodStep, SoundLater, DoneSound
    <3> QED BY <3>1, <3>3, <3>4 DEF GoodStep, ChildInv
  <2>2. ASSUME ChildInv, UNCHANGED vars PROVE ChildInv'
    BY <2>2 DEF vars, ChildInv, TypeOK, NoEarlyStart, DoneSound, completedChildIds
  <2> QED BY <2>1, <2>2
<1> QED BY <1>1, <1>2, PTL DEF Spec

(***************************************************************************)
(* The table and the open transactions keep their types.                   *)
(***************************************************************************)
THEOREM ChildTypeCorrect == Spec => []TypeOK
<1>1. ChildInv => TypeOK
  BY DEF ChildInv
<1> QED BY <1>1, ChildInductive, PTL

(***************************************************************************)
(* No child is released to workers before its dependencies are completed,  *)
(* whatever scheduleChildTask and completeChild calls interleave or fail.  *)
(***************************************************************************)
THEOREM DependenciesFirst == Spec => []NoEarlyStart
<1>1. ChildInv => NoEarlyStart
  BY DEF ChildInv
<1> QED BY <1>1, ChildInductive, PTL

(***************************************************************************)
(* A completed child stays completed, so a satisfied join stays satisfied. *)
(***************************************************************************)
THEOREM CompletionsStand == Spec => CompletionFinal
<1>1. ChildInv /\ [Next]_vars => [Final]_vars
  <2>1. ASSUME ChildInv, Next PROVE Final
    BY <2>1, StepsGood DEF GoodStep
  <2> QED BY <2>1
<1>2. Spec => [][Final]_vars
  BY <1>1, ChildInductive, PTL DEF Spec
<1> QED BY <1>2 DEF CompletionFinal, Final

-----------------------------------------------------------------------------
(* One record per result.                                                  *)

(***************************************************************************)
(* A step that records nothing, completes nothing and starts no report:    *)
(* the reports that go on are the ones that were there.                    *)
(***************************************************************************)
NoRecord ==
  /\ UNCHANGED <<completionKey, written>>
  /\ \A k \in Children : status'[k] = "completed" <=> status[k] = "completed"
  /\ \A x \in Sessions : Reporting(x)' =>
       Reporting(x) /\ tx'[x].child = tx[x].child /\ tx'[x].key = tx[x].key

(***************************************************************************)
(* Such a step keeps what is known of the recorded results.                *)
(***************************************************************************)
LEMMA NoRecordKeeps ==
  ASSUME TypeOK, RecordInv, NoRecord
  PROVE  RecordInv'
<1>2. RowLocks'
  BY DEF RecordInv, RowLocks, NoRecord
<1>3. ReportIsNew'
  <2> SUFFICES ASSUME NEW x \in Sessions, Reporting(x)'
               PROVE  tx'[x].key \in Keys /\ ~Duplicate(tx[x].child, tx[x].key)'
    BY DEF ReportIsNew
  <2>1. Reporting(x) /\ tx'[x].child = tx[x].child /\ tx'[x].key = tx[x].key
    BY DEF NoRecord
  <2>2. tx[x].child \in Children /\ tx[x].key \in Keys /\ ~Duplicate(tx[x].child, tx[x].key)
    BY <2>1 DEF Reporting, TypeOK, Tx, RecordInv, ReportIsNew
  <2> QED BY <2>1, <2>2 DEF NoRecord, Duplicate
<1>4. LastIsHeld' /\ NoneTwiceInARow'
  BY DEF RecordInv, LastIsHeld, NoneTwiceInARow, NoRecord
<1> QED BY <1>2, <1>3, <1>4 DEF RecordInv

(***************************************************************************)
(* completeChild locks its row and finds that it is not a repeated call.   *)
(***************************************************************************)
LEMMA RowKeeps ==
  ASSUME TypeOK, RecordInv, NEW x \in Sessions, NEW k \in Children, NEW i \in Keys,
         CompleteRow(x, k, i)
  PROVE  RecordInv'
<1>1. /\ tx'[x].child = k /\ tx'[x].key = i
      /\ \A y \in Sessions \ {x} : tx'[y] = tx[y]
      /\ UNCHANGED <<status, completionKey, written>>
  BY DEF CompleteRow, Open, TypeOK
<1>2. \A y \in Sessions \ {x} : Reporting(y) => tx[y].child # k
  BY DEF CompleteRow, Locked, Reporting
<1>3. RowLocks'
  BY <1>1, <1>2 DEF RecordInv, RowLocks, Reporting
<1>4. ReportIsNew'
  <2> SUFFICES ASSUME NEW y \in Sessions, Reporting(y)'
               PROVE  /\ tx'[y].key \in Keys
                      /\ ~(status[tx'[y].child] = "completed"
                           /\ completionKey[tx'[y].child] = tx'[y].key)
    BY <1>1 DEF ReportIsNew, Duplicate
  <2>1. CASE y = x
    BY <1>1, <2>1 DEF CompleteRow, Duplicate
  <2>2. CASE y # x
    BY <1>1, <2>2 DEF RecordInv, ReportIsNew, Reporting, Duplicate
  <2> QED BY <2>1, <2>2
<1>5. LastIsHeld' /\ NoneTwiceInARow'
  BY <1>1 DEF RecordInv, LastIsHeld, NoneTwiceInARow
<1> QED BY <1>3, <1>4, <1>5 DEF RecordInv

(***************************************************************************)
(* The commit of completeChild: the result was not the one the row holds.  *)
(***************************************************************************)
LEMMA CommitKeeps ==
  ASSUME TypeOK, RecordInv, NEW x \in Sessions, CompleteCommit(x)
  PROVE  RecordInv'
<1> DEFINE k == tx[x].child
           i == tx[x].key
<1>1. Reporting(x) /\ k \in Children /\ i \in Keys /\ ~Duplicate(k, i)
  BY DEF CompleteCommit, Reporting, RecordInv, ReportIsNew, TypeOK, Tx
<1>2. /\ tx'[x] = None
      /\ \A y \in Sessions \ {x} : tx'[y] = tx[y]
  BY DEF CompleteCommit, Finish, TypeOK
<1>3. /\ status'[k] = "completed"
      /\ \A c \in Children \ {k} : status'[c] = "completed" <=> status[c] = "completed"
  BY <1>1 DEF CompleteCommit, BlockedSiblings
<1>4. completionKey'[k] = i /\ \A c \in Children \ {k} : completionKey'[c] = completionKey[c]
  BY <1>1 DEF CompleteCommit, TypeOK
<1>5. /\ written'[k] = Append(written[k], i)
      /\ \A c \in Children \ {k} : written'[c] = written[c]
  BY <1>1 DEF CompleteCommit, TypeOK
<1>6. \A c \in Children : written[c] \in Seq(Keys)
  BY DEF TypeOK
<1> HIDE DEF k, i
<1>7. RowLocks'
  BY <1>2 DEF RecordInv, RowLocks, Reporting
<1>8. ReportIsNew'
  <2> SUFFICES ASSUME NEW y \in Sessions, Reporting(y)'
               PROVE  /\ tx'[y].key \in Keys
                      /\ ~(status'[tx'[y].child] = "completed"
                           /\ completionKey'[tx'[y].child] = tx'[y].key)
    BY DEF ReportIsNew, Duplicate
  <2>1. y # x /\ tx'[y] = tx[y] /\ Reporting(y)
    BY <1>2 DEF Reporting
  <2>2. tx[y].child \in Children \ {k}
    BY <1>1, <2>1 DEF RecordInv, RowLocks, Reporting, TypeOK, Tx, k
  <2> QED BY <1>3, <1>4, <2>1, <2>2 DEF RecordInv, ReportIsNew, Duplicate
<1>9. LastIsHeld'
  <2>1. written'[k] # <<>> /\ written'[k][Len(written'[k])] = i
    BY <1>1, <1>5, <1>6
  <2>2. \A c \in Children \ {k} : written'[c] # <<>> =>
          /\ status'[c] = "completed"
          /\ completionKey'[c] = written'[c][Len(written'[c])]
    BY <1>3, <1>4, <1>5 DEF RecordInv, LastIsHeld
  <2> QED BY <1>3, <1>4, <2>1, <2>2 DEF LastIsHeld
<1>10. NoneTwiceInARow'
  <2>1. ASSUME NEW n \in DOMAIN written'[k], n + 1 \in DOMAIN written'[k]
        PROVE  written'[k][n] # written'[k][n + 1]
    <3>1. n \in 1 .. Len(written[k]) /\ written'[k][n] = written[k][n]
      BY <1>1, <1>5, <1>6, <2>1
    <3>2. CASE n + 1 \in DOMAIN written[k]
      BY <1>1, <1>5, <1>6, <3>1, <3>2 DEF RecordInv, NoneTwiceInARow
    <3>3. CASE n + 1 \notin DOMAIN written[k]
      <4>1. n = Len(written[k]) /\ written'[k][n + 1] = i
        BY <1>1, <1>5, <1>6, <3>1, <3>3
      <4>2. written[k][n] # i
        BY <1>1, <1>6, <3>1, <4>1 DEF RecordInv, LastIsHeld, Duplicate
      <4> QED BY <3>1, <4>1, <4>2
    <3> QED BY <3>2, <3>3
  <2>2. \A c \in Children \ {k} : \A n \in DOMAIN written'[c] :
          n + 1 \in DOMAIN written'[c] => written'[c][n] # written'[c][n + 1]
    BY <1>5 DEF RecordInv, NoneTwiceInARow
  <2> QED BY <2>1, <2>2 DEF NoneTwiceInARow
<1> QED BY <1>7, <1>8, <1>9, <1>10 DEF RecordInv

(***************************************************************************)
(* Every action keeps it.                                                  *)
(***************************************************************************)
LEMMA RecordInvNext ==
  ASSUME TypeOK, RecordInv, [Next]_vars
  PROVE  RecordInv'
<1>1. ASSUME NEW x \in Sessions, NEW k \in Children, ScheduleRead(x, k) PROVE NoRecord
  <2>1. /\ tx'[x].at = "insert" /\ UNCHANGED <<status, completionKey, written>>
        /\ \A y \in Sessions \ {x} : tx'[y] = tx[y]
    BY <1>1 DEF ScheduleRead, Open, TypeOK
  <2> QED BY <2>1 DEF NoRecord, Reporting
<1>2. ASSUME NEW x \in Sessions, ScheduleInsert(x) PROVE NoRecord
  <2>1. /\ tx'[x] = None /\ UNCHANGED <<completionKey, written>>
        /\ \A y \in Sessions \ {x} : tx'[y] = tx[y]
    BY <1>2 DEF ScheduleInsert, Finish, TypeOK
  <2>2. tx[x].child \in Children
    BY <1>2 DEF ScheduleInsert, TypeOK, Tx
  <2>3. \A k \in Children : status'[k] = "completed" <=> status[k] = "completed"
    BY <1>2, <2>2 DEF ScheduleInsert, TypeOK
  <2> QED BY <2>1, <2>3 DEF NoRecord, Reporting
<1>3. ASSUME NEW x \in Sessions, CompleteRead(x) PROVE NoRecord
  <2>1. tx[x] \in Tx /\ tx[x] # None /\ tx[x].at = "updated"
    BY <1>3 DEF CompleteRead, TypeOK
  <2> DEFINE new == [tx[x] EXCEPT !.at = "unblock",
                                  !.done = completedChildIds \cup {tx[x].child}]
  <2>2. tx' = [tx EXCEPT ![x] = new] /\ UNCHANGED <<status, completionKey, written>>
    BY <1>3 DEF CompleteRead
  <2>3. new.child = tx[x].child /\ new.key = tx[x].key
    BY <2>1 DEF Tx
  <2> HIDE DEF new
  <2>4. /\ tx'[x].child = tx[x].child /\ tx'[x].key = tx[x].key
        /\ \A y \in Sessions \ {x} : tx'[y] = tx[y]
    BY <2>2, <2>3 DEF TypeOK
  <2> QED BY <2>1, <2>2, <2>4 DEF NoRecord, Reporting
<1>4. ASSUME NEW x \in Sessions, Rollback(x) PROVE NoRecord
  BY <1>4 DEF Rollback, Finish, TypeOK, NoRecord, Reporting
<1>5. ASSUME NEW k \in Children, Claim(k) \/ Fail(k) PROVE NoRecord
  BY <1>5 DEF Claim, Fail, TypeOK, NoRecord, Reporting
<1>6. ASSUME UNCHANGED vars PROVE NoRecord
  BY <1>6 DEF vars, NoRecord, Reporting
<1> QED BY <1>1, <1>2, <1>3, <1>4, <1>5, <1>6, NoRecordKeeps, RowKeeps, CommitKeeps DEF Next

(***************************************************************************)
(* The row locks of completeChild, for any children, keys and sessions: a  *)
(* report that commits is not the one the row holds, so no result is       *)
(* written twice in a row.                                                 *)
(***************************************************************************)
THEOREM RecordInductive == Spec => []RecordInv
<1>1. Init => RecordInv
  BY DEF Init, RecordInv, RowLocks, ReportIsNew, LastIsHeld, NoneTwiceInARow, Reporting
<1>2. TypeOK /\ RecordInv /\ [Next]_vars => RecordInv'
  BY RecordInvNext
<1> QED BY <1>1, <1>2, ChildTypeCorrect, PTL DEF Spec

(***************************************************************************)
(* However its reports race, repeat and fail, a result is recorded again   *)
(* only after a result with another key took its place: for any set of     *)
(* keys, and however many of them are used for one child.                  *)
(***************************************************************************)
THEOREM ResultOnce == Spec => []RecordedOnce
<1>1. TypeOK /\ NoneTwiceInARow => RecordedOnce
  <2> SUFFICES ASSUME TypeOK, NoneTwiceInARow, NEW k \in Children,
                      NEW m \in DOMAIN written[k], NEW n \in DOMAIN written[k],
                      m < n, written[k][m] = written[k][n]
               PROVE  \E p \in m + 1 .. n - 1 : written[k][p] # written[k][m]
    BY DEF RecordedOnce
  <2>1. written[k] \in Seq(Keys)
    BY DEF TypeOK
  <2>2. m + 1 \in DOMAIN written[k] /\ m \in Nat /\ n \in Nat
    BY <2>1
  <2>3. written[k][m] # written[k][m + 1]
    BY <2>2 DEF NoneTwiceInARow
  <2>4. m + 1 \in m + 1 .. n - 1
    BY <2>2, <2>3
  <2> QED BY <2>3, <2>4
<1> QED BY <1>1, RecordInductive, ChildTypeCorrect, PTL DEF RecordInv

-----------------------------------------------------------------------------
(* No child is left behind by transactions that run one after the other.   *)

(***************************************************************************)
(* A step that completes and blocks nothing: what an open transaction read *)
(* is as current as it was.                                                *)
(***************************************************************************)
LEMMA QuietSerial ==
  ASSUME OneTx, ReadIsCurrent, BlockedWaits,
         \A k \in Children : status'[k] = "completed" <=> status[k] = "completed",
         \A k \in Children : status'[k] = "blocked" => status[k] = "blocked",
         \A x \in Sessions : tx'[x] = tx[x] \/ tx'[x] = None
  PROVE  OneTx' /\ ReadIsCurrent' /\ BlockedWaits'
<1>1. completedChildIds' = completedChildIds
  BY DEF completedChildIds
<1> QED BY <1>1 DEF OneTx, ReadIsCurrent, BlockedWaits

(***************************************************************************)
(* A transaction that opens while none is open.                            *)
(***************************************************************************)
LEMMA OpenSerial ==
  ASSUME TypeOK, BlockedWaits, NEW x \in Sessions, NEW t, Open(x, t), ~overlapped',
         UNCHANGED status, t.at = "insert" => t.done = completedChildIds, t.at # "unblock"
  PROVE  OneTx' /\ ReadIsCurrent' /\ BlockedWaits'
<1>1. \A y \in Sessions : tx[y] = None
  BY DEF Open
<1>2. tx'[x] = t /\ \A y \in Sessions \ {x} : tx'[y] = None
  BY <1>1 DEF Open, TypeOK
<1>3. completedChildIds' = completedChildIds
  BY DEF completedChildIds
<1>4. OneTx'
  BY <1>2 DEF OneTx
<1>5. ReadIsCurrent'
  BY <1>2, <1>3 DEF ReadIsCurrent
<1>6. BlockedWaits'
  BY <1>3 DEF BlockedWaits
<1> QED BY <1>4, <1>5, <1>6

(***************************************************************************)
(* Every action keeps the serial invariant.                                *)
(***************************************************************************)
LEMMA SerialInvNext ==
  ASSUME TypeOK, SerialInv, [Next]_vars
  PROVE  SerialInv'
<1> SUFFICES ASSUME ~overlapped' PROVE OneTx' /\ ReadIsCurrent' /\ BlockedWaits'
  BY DEF SerialInv
<1>0. OneTx /\ ReadIsCurrent /\ BlockedWaits
  <2>1. ~overlapped
    BY DEF Next, vars, ScheduleRead, ScheduleInsert, CompleteRow, CompleteRead,
           CompleteCommit, Rollback, Claim, Fail, Open, Finish
  <2> QED BY <2>1 DEF SerialInv
<1>1. ASSUME NEW x \in Sessions, NEW k \in Children, ScheduleRead(x, k)
      PROVE  OneTx' /\ ReadIsCurrent' /\ BlockedWaits'
  <2> DEFINE t == [at |-> "insert", child |-> k, key |-> None, done |-> completedChildIds]
  <2>1. Open(x, t) /\ UNCHANGED status /\ t.at = "insert" /\ t.done = completedChildIds
    BY <1>1 DEF ScheduleRead
  <2> HIDE DEF t
  <2> QED BY <1>0, <2>1, OpenSerial
<1>2. ASSUME NEW x \in Sessions, ScheduleInsert(x)
      PROVE  OneTx' /\ ReadIsCurrent' /\ BlockedWaits'
  <2> DEFINE k == tx[x].child
  <2>1. tx[x] # None /\ tx[x] \in Tx /\ k \in Children /\ tx[x].done = completedChildIds
    BY <1>0, <1>2 DEF ScheduleInsert, TypeOK, Tx, ReadIsCurrent
  <2>2. tx' = [tx EXCEPT ![x] = None]
    BY <1>2 DEF ScheduleInsert, Finish
  <2>3. \A y \in Sessions : tx'[y] = None
    BY <1>0, <2>1, <2>2 DEF OneTx, TypeOK
  <2>4. \A c \in Children : status'[c] = status[c] \/
          ( /\ c = k /\ status[c] = "absent"
            /\ \/ status'[c] = "scheduled"
               \/ status'[c] = "blocked" /\ ~ DependsOn[c] \subseteq completedChildIds )
    BY <1>2, <2>1 DEF ScheduleInsert, TypeOK
  <2>5. completedChildIds' = completedChildIds
    BY <2>4 DEF completedChildIds
  <2>6. BlockedWaits'
    BY <1>0, <2>4, <2>5 DEF BlockedWaits
  <2> QED BY <2>3, <2>6 DEF OneTx, ReadIsCurrent
<1>3. ASSUME NEW x \in Sessions, NEW k \in Children, NEW i \in Keys, CompleteRow(x, k, i)
      PROVE  OneTx' /\ ReadIsCurrent' /\ BlockedWaits'
  <2> DEFINE t == [at |-> "updated", child |-> k, key |-> i, done |-> {}]
  <2>1. Open(x, t) /\ UNCHANGED status /\ t.at = "updated"
    BY <1>3 DEF CompleteRow
  <2> HIDE DEF t
  <2> QED BY <1>0, <2>1, OpenSerial
<1>4. ASSUME NEW x \in Sessions, CompleteRead(x)
      PROVE  OneTx' /\ ReadIsCurrent' /\ BlockedWaits'
  <2>1. tx[x] \in Tx /\ tx[x] # None
    BY <1>4 DEF CompleteRead, TypeOK
  <2> DEFINE new == [tx[x] EXCEPT !.at = "unblock",
                                  !.done = completedChildIds \cup {tx[x].child}]
  <2>2. tx' = [tx EXCEPT ![x] = new] /\ UNCHANGED status
    BY <1>4 DEF CompleteRead
  <2>3. /\ new.at = "unblock" /\ new.child = tx[x].child
        /\ new.done = completedChildIds \cup {tx[x].child}
    BY <2>1 DEF Tx
  <2>4. completedChildIds' = completedChildIds
    BY <2>2 DEF completedChildIds
  <2> HIDE DEF new
  <2>5. tx'[x] = new /\ \A y \in Sessions \ {x} : tx'[y] = None
    BY <1>0, <2>1, <2>2 DEF OneTx, TypeOK
  <2>6. OneTx'
    BY <2>5 DEF OneTx
  <2>7. ReadIsCurrent'
    BY <2>3, <2>4, <2>5 DEF ReadIsCurrent
  <2>8. BlockedWaits'
    BY <1>0, <2>2, <2>4 DEF BlockedWaits
  <2> QED BY <2>6, <2>7, <2>8
<1>5. ASSUME NEW x \in Sessions, CompleteCommit(x)
      PROVE  OneTx' /\ ReadIsCurrent' /\ BlockedWaits'
  <2> DEFINE k == tx[x].child
  <2>1. /\ tx[x] # None /\ tx[x] \in Tx /\ k \in Children
        /\ tx[x].done = completedChildIds \cup {k}
    BY <1>0, <1>5 DEF CompleteCommit, TypeOK, Tx, ReadIsCurrent
  <2>2. tx' = [tx EXCEPT ![x] = None]
    BY <1>5 DEF CompleteCommit, Finish
  <2>3. \A y \in Sessions : tx'[y] = None
    BY <1>0, <2>1, <2>2 DEF OneTx, TypeOK
  <2>4. \A c \in Children :
          status'[c] = IF c = k THEN "completed"
                       ELSE IF status[c] = "blocked" /\ DependsOn[c] \subseteq tx[x].done
                              THEN "scheduled" ELSE status[c]
    BY <1>5 DEF CompleteCommit, BlockedSiblings, Ready
  <2>5. completedChildIds' = completedChildIds \cup {k}
    BY <2>1, <2>4 DEF completedChildIds
  <2>6. BlockedWaits'
    BY <2>1, <2>4, <2>5 DEF BlockedWaits
  <2> QED BY <2>3, <2>6 DEF OneTx, ReadIsCurrent
<1>6. ASSUME NEW x \in Sessions, Rollback(x)
      PROVE  OneTx' /\ ReadIsCurrent' /\ BlockedWaits'
  <2>1. UNCHANGED status /\ \A y \in Sessions : tx'[y] = tx[y] \/ tx'[y] = None
    BY <1>6 DEF Rollback, Finish, TypeOK
  <2> QED BY <1>0, <2>1, QuietSerial
<1>7. ASSUME NEW k \in Children, Claim(k) \/ Fail(k)
      PROVE  OneTx' /\ ReadIsCurrent' /\ BlockedWaits'
  <2>1. /\ \A c \in Children : status'[c] = "completed" <=> status[c] = "completed"
        /\ \A c \in Children : status'[c] = "blocked" => status[c] = "blocked"
        /\ UNCHANGED tx
    BY <1>7 DEF Claim, Fail, TypeOK
  <2> QED BY <1>0, <2>1, QuietSerial
<1>8. ASSUME UNCHANGED vars
      PROVE  OneTx' /\ ReadIsCurrent' /\ BlockedWaits'
  BY <1>0, <1>8, QuietSerial DEF vars
<1> QED BY <1>1, <1>2, <1>3, <1>4, <1>5, <1>6, <1>7, <1>8 DEF Next

(***************************************************************************)
(* Transactions that never overlap work with the current set of completed  *)
(* children.                                                               *)
(***************************************************************************)
THEOREM SerialInductive == Spec => []SerialInv
<1>1. Init => SerialInv
  BY DEF Init, SerialInv, OneTx, ReadIsCurrent, BlockedWaits
<1>2. TypeOK /\ SerialInv /\ [Next]_vars => SerialInv'
  BY SerialInvNext
<1> QED BY <1>1, <1>2, ChildTypeCorrect, PTL DEF Spec

(***************************************************************************)
(* For any children and dependencies, scheduleChildTask and completeChild  *)
(* calls that do not overlap leave no child blocked whose dependencies are *)
(* completed.                                                              *)
(***************************************************************************)
THEOREM SeriallyReleased == Spec => []NoneLeftBehindSerially
<1>1. SerialInv => NoneLeftBehindSerially
  BY DEF SerialInv, BlockedWaits, NoneLeftBehindSerially, NoneLeftBlocked
<1> QED BY <1>1, SerialInductive, PTL
=============================================================================
