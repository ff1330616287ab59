--------------------------- MODULE RunLeaseProofs ---------------------------
(***************************************************************************)
(* The safety properties of the run leases, for any number of runs, workers *)
(* and clients, any distribution of clients over workers and any TTL.      *)
(***************************************************************************)
EXTENDS RunLease, TLAPS

(***************************************************************************)
(* Every step of LeaseNext is one of three kinds, which is all the proofs  *)
(* below look at.  A grant to c of the lease of r:                         *)
(***************************************************************************)
GrantStep ==
  \E c \in Clients, r \in Runs : ~HeldByOther(c, r) /\ Grant(c, r)

(***************************************************************************)
(* A step that takes tokens away from clients and rows, and grants none:   *)
(* a row that stays keeps its worker and token, one that goes belonged to  *)
(* a client, and a client keeps its token or loses it.                     *)
(***************************************************************************)
KeepStep ==
  /\ issued' = issued
  /\ lease' \in [Runs -> LeaseRow \cup {None}]
  /\ mine' \in [Clients -> [run : Runs, token : Nat] \cup {None}]
  /\ asking' \in [Clients -> [run : Runs, at : {"insert", "recheck"}] \cup {None}]
  /\ \A c \in Clients : mine'[c] = mine[c] \/ mine'[c] = None
  /\ \A r \in Runs :
        \/ lease'[r] = lease[r]
        \/ /\ lease[r] # None /\ lease'[r] # None
           /\ lease'[r].worker = lease[r].worker
           /\ lease'[r].token = lease[r].token
        \/ /\ lease[r] # None /\ lease'[r] = None
           /\ \E c \in Clients : OwnsLease(c) /\ mine[c].run = r

(***************************************************************************)
(* One unit of time leaves worker and token of a row alone.                *)
(***************************************************************************)
LEMMA ElapsedKeeps ==
  ASSUME NEW l \in LeaseRow
  PROVE  /\ Elapsed(l) \in LeaseRow
         /\ Elapsed(l).worker = l.worker
         /\ Elapsed(l).token = l.token
<1>1. CASE l = None \/ l.expIn = 0
  BY <1>1 DEF Elapsed
<1>2. CASE ~(l = None \/ l.expIn = 0)
  <2>1. Elapsed(l) = [l EXCEPT !.expIn = @ - 1]
    BY <1>2 DEF Elapsed
  <2>2. l.expIn - 1 \in Nat
    BY <1>2 DEF LeaseRow
  <2> QED BY <2>1, <2>2 DEF LeaseRow
<1> QED BY <1>1, <1>2

(***************************************************************************)
(* Every action of the lease service is a GrantStep or a KeepStep.         *)
(***************************************************************************)
LEMMA StepKinds ==
  ASSUME LeaseTypeOK, LeaseNext
  PROVE  GrantStep \/ KeepStep
<1> USE LeaseAssumption DEF LeaseTypeOK
<1>1. ASSUME NEW c \in Clients, NEW r \in Runs, AcquireExisting(c, r)
      PROVE  GrantStep
  BY <1>1 DEF AcquireExisting, GrantStep
<1>2. ASSUME NEW c \in Clients, NEW r \in Runs, AcquireMiss(c, r)
      PROVE  KeepStep
  BY <1>2 DEF AcquireMiss, KeepStep
<1>3. ASSUME NEW c \in Clients, NEW r \in Runs, AcquireRefused(c, r)
      PROVE  KeepStep
  BY <1>3 DEF AcquireRefused, KeepStep, leaseVars
<1>4. ASSUME NEW c \in Clients, AcquireInsert(c)
      PROVE  GrantStep \/ KeepStep
  <2>0. asking[c] \in [run : Runs, at : {"insert", "recheck"}]
    BY <1>4 DEF AcquireInsert
  <2>1. CASE lease[asking[c].run] = None
    <3>1. ~HeldByOther(c, asking[c].run)
      BY <2>1 DEF HeldByOther
    <3>2. Grant(c, asking[c].run)
      BY <2>1, <1>4 DEF AcquireInsert
    <3> QED BY <3>1, <3>2, <2>0 DEF GrantStep
  <2>2. CASE lease[asking[c].run] # None
    BY <2>0, <2>2, <1>4 DEF AcquireInsert, KeepStep
  <2> QED BY <2>1, <2>2
<1>5. ASSUME NEW c \in Clients, AcquireRecheck(c)
      PROVE  GrantStep
  <2>1. asking[c] \in [run : Runs, at : {"insert", "recheck"}]
    BY <1>5 DEF AcquireRecheck
  <2> QED BY <2>1, <1>5 DEF AcquireRecheck, GrantStep
<1>6. ASSUME NEW c \in Clients, AcquireConflict(c)
      PROVE  KeepStep
  BY <1>6 DEF AcquireConflict, KeepStep
<1>7. ASSUME NEW c \in Clients, RenewLease(c)
      PROVE  KeepStep
  <2>1. mine[c] \in [run : Runs, token : Nat] /\ lease[mine[c].run] \in LeaseRow
    BY <1>7 DEF RenewLease, OwnsLease
  <2> DEFINE l == [lease[mine[c].run] EXCEPT !.expIn = LeaseTTL]
  <2>2. lease' = [lease EXCEPT ![mine[c].run] = l]
    BY <1>7 DEF RenewLease
  <2>3. l \in LeaseRow /\ l.worker = lease[mine[c].run].worker /\ l.token = lease[mine[c].run].token
    BY <2>1 DEF LeaseRow
  <2>4. UNCHANGED <<issued, asking, mine>>
    BY <1>7 DEF RenewLease
  <2> HIDE DEF l
  <2> QED BY <2>1, <2>2, <2>3, <2>4 DEF KeepStep
<1>8. ASSUME NEW c \in Clients, ReleaseLease(c)
      PROVE  KeepStep
  <2>1. CASE OwnsLease(c)
    BY <1>8, <2>1 DEF ReleaseLease, KeepStep, OwnsLease
  <2>2. CASE ~OwnsLease(c)
    BY <1>8, <2>2 DEF ReleaseLease, KeepStep
  <2> QED BY <2>1, <2>2
<1>9. ASSUME NEW w \in Workers, NEW C \in SUBSET {c \in Clients : WorkerOf[c] = w}, Quit(w, C)
      PROVE  KeepStep
  <2>1. \A r \in Runs : \/ lease'[r] = lease[r]
                        \/ /\ lease[r] # None /\ lease'[r] = None
                           /\ \E c \in Clients : OwnsLease(c) /\ mine[c].run = r
    BY <1>9 DEF Quit, OwnsLease
  <2>2. lease' \in [Runs -> LeaseRow \cup {None}]
    BY <1>9 DEF Quit
  <2>3. issued' = issued /\ \A c \in Clients : mine'[c] = mine[c] \/ mine'[c] = None
    BY <1>9 DEF Quit
  <2>4. mine' \in [Clients -> [run : Runs, token : Nat] \cup {None}]
    BY <1>9 DEF Quit
  <2>5. asking' \in [Clients -> [run : Runs, at : {"insert", "recheck"}] \cup {None}]
    BY <1>9 DEF Quit
  <2> QED BY <2>1, <2>2, <2>3, <2>4, <2>5 DEF KeepStep
<1>10. ASSUME LeaseTick
       PROVE  KeepStep
  <2>1. \A r \in Runs : lease[r] = None => Elapsed(lease[r]) = None
    BY DEF Elapsed
  <2>2. \A r \in Runs : lease[r] # None => lease[r] \in LeaseRow
    OBVIOUS
  <2>3. \A r \in Runs : lease[r] # None =>
           /\ Elapsed(lease[r]) \in LeaseRow
           /\ Elapsed(lease[r]).worker = lease[r].worker
           /\ Elapsed(lease[r]).token = lease[r].token
    BY <2>2, ElapsedKeeps
  <2>4. lease' = [r \in Runs |-> Elapsed(lease[r])] /\ UNCHANGED <<issued, asking, mine>>
    BY <1>10 DEF LeaseTick
  <2>5. \A r \in Runs : lease'[r] = Elapsed(lease[r])
    BY <2>4
  <2>6. lease' \in [Runs -> LeaseRow \cup {None}]
    BY <2>1, <2>3, <2>4
  <2>7. \A r \in Runs : lease[r] # None => lease'[r] # None
    BY <2>3, <2>5
  <2> QED BY <2>1, <2>3, <2>4, <2>5, <2>6, <2>7 DEF KeepStep
<1> QED BY <1>1, <1>2, <1>3, <1>4, <1>5, <1>6, <1>7, <1>8, <1>9, <1>10 DEF LeaseNext
(***************************************************************************)
(* Under the types, mine and lease of a run are records wherever they are  *)
(* not None, so the invariant survives both kinds of step.                 *)
(***************************************************************************)
LEMMA GrantKeepsInv ==
  ASSUME LeaseInv, GrantStep
  PROVE  LeaseInv'
<1> USE LeaseAssumption
<1>0. LeaseTypeOK /\ TokensFresh /\ TokensUnshared
  BY DEF LeaseInv
<1>1. PICK c \in Clients, r \in Runs : Grant(c, r)
  BY DEF GrantStep
<1> DEFINE n == issued[r] + 1
<1>2. n \in Nat /\ n > issued[r] /\ issued[r] \in Nat
  BY <1>0 DEF LeaseTypeOK
<1>3. /\ issued' = [issued EXCEPT ![r] = n]
      /\ lease' = [lease EXCEPT ![r] = [worker |-> WorkerOf[c], token |-> n, expIn |-> LeaseTTL]]
      /\ mine' = [mine EXCEPT ![c] = [run |-> r, token |-> n]]
      /\ asking' = [asking EXCEPT ![c] = None]
  BY <1>1 DEF Grant
<1>4. [worker |-> WorkerOf[c], token |-> n, expIn |-> LeaseTTL] \in LeaseRow
  BY <1>2 DEF LeaseRow
<1> HIDE DEF n
<1>5. LeaseTypeOK'
  <2>1. issued' \in [Runs -> Nat]
    BY <1>0, <1>2, <1>3 DEF LeaseTypeOK
  <2>2. lease' \in [Runs -> LeaseRow \cup {None}]
    BY <1>0, <1>3, <1>4 DEF LeaseTypeOK
  <2>3. mine' \in [Clients -> [run : Runs, token : Nat] \cup {None}]
    BY <1>0, <1>2, <1>3 DEF LeaseTypeOK
  <2>4. asking' \in [Clients -> [run : Runs, at : {"insert", "recheck"}] \cup {None}]
    BY <1>0, <1>3 DEF LeaseTypeOK
  <2> QED BY <2>1, <2>2, <2>3, <2>4 DEF LeaseTypeOK
<1>6. TokensFresh'
  <2>1. \A q \in Runs : lease'[q] # None => lease'[q].token = issued'[q]
    BY <1>0, <1>2, <1>3 DEF LeaseTypeOK, TokensFresh
  <2>2. ASSUME NEW d \in Clients, mine'[d] # None
        PROVE  mine'[d].token <= issued'[mine'[d].run]
    <3>1. CASE d = c
      BY <3>1, <1>0, <1>2, <1>3 DEF LeaseTypeOK
    <3>2. CASE d # c
      <4>1. mine'[d] = mine[d] /\ mine[d] \in [run : Runs, token : Nat]
        BY <3>2, <2>2, <1>0, <1>3 DEF LeaseTypeOK
      <4>2. mine[d].token <= issued[mine[d].run] /\ issued[mine[d].run] \in Nat
        BY <4>1, <2>2, <1>0 DEF LeaseTypeOK, TokensFresh
      <4> QED BY <4>1, <4>2, <1>0, <1>2, <1>3 DEF LeaseTypeOK
    <3> QED BY <3>1, <3>2
  <2> QED BY <2>1, <2>2 DEF TokensFresh
<1>7. TokensUnshared'
  <2>1. \A d \in Clients : d # c => mine'[d] = mine[d]
    BY <1>0, <1>3 DEF LeaseTypeOK
  <2>2. mine'[c] = [run |-> r, token |-> n]
    BY <1>0, <1>3 DEF LeaseTypeOK
  <2>3. ASSUME NEW d \in Clients, mine[d] # None
        PROVE  mine[d] # [run |-> r, token |-> n]
    <3>1. mine[d].token <= issued[mine[d].run]
      BY <2>3, <1>0 DEF TokensFresh
    <3> QED BY <3>1, <1>2
  <2>4. mine'[c] # None => \A d \in Clients : mine'[d] = mine'[c] => d = c
    <3> SUFFICES ASSUME mine'[c] # None, NEW d \in Clients, mine'[d] = mine'[c], d # c
                 PROVE  FALSE
      OBVIOUS
    <3>1. mine[d] = [run |-> r, token |-> n] /\ mine[d] # None
      BY <2>1, <2>2
    <3> QED BY <3>1, <2>3
  <2> QED BY <2>1, <2>4, <1>0 DEF TokensUnshared
<1> QED BY <1>5, <1>6, <1>7 DEF LeaseInv

LEMMA KeepKeepsInv ==
  ASSUME LeaseInv, KeepStep
  PROVE  LeaseInv'
<1>0. LeaseTypeOK /\ TokensFresh /\ TokensUnshared
  BY DEF LeaseInv
<1>1. LeaseTypeOK'
  BY <1>0 DEF LeaseTypeOK, KeepStep
<1>2. TokensFresh'
  <2>1. \A r \in Runs : lease'[r] # None => lease'[r].token = issued'[r]
    BY <1>0 DEF TokensFresh, KeepStep
  <2>2. \A c \in Clients : mine'[c] # None => mine'[c].token <= issued'[mine'[c].run]
    BY <1>0 DEF TokensFresh, KeepStep
  <2> QED BY <2>1, <2>2 DEF TokensFresh
<1>3. TokensUnshared'
  BY <1>0 DEF TokensUnshared, KeepStep
<1> QED BY <1>1, <1>2, <1>3 DEF LeaseInv

(***************************************************************************)
(* The invariant of the lease service: the types of its table and clients, *)
(* that a row carries the last token issued for its run (acquireLease      *)
(* always writes a fresh one), and that no token went to two clients.      *)
(***************************************************************************)
THEOREM LeaseInductive == LeaseSpec => []LeaseInv
<1>1. LeaseInit => LeaseInv
  BY LeaseAssumption DEF LeaseInit, LeaseInv, LeaseTypeOK, TokensFresh, TokensUnshared
<1>2. LeaseInv /\ [LeaseNext]_leaseVars => LeaseInv'
  <2>1. ASSUME LeaseInv, LeaseNext PROVE LeaseInv'
    <3>1. GrantStep \/ KeepStep
      BY <2>1, StepKinds DEF LeaseInv
    <3> QED BY <2>1, <3>1, GrantKeepsInv, KeepKeepsInv
  <2>2. ASSUME LeaseInv, UNCHANGED leaseVars PROVE LeaseInv'
    BY <2>2 DEF leaseVars, LeaseInv, LeaseTypeOK, TokensFresh, TokensUnshared
  <2> QED BY <2>1, <2>2
<1> QED BY <1>1, <1>2, PTL DEF LeaseSpec

(***************************************************************************)
(* The lease table, the tokens clients hold and the calls in progress keep *)
(* their types.                                                            *)
(***************************************************************************)
THEOREM LeaseTypeCorrect == LeaseSpec => []LeaseTypeOK
<1>1. LeaseInv => LeaseTypeOK
  BY DEF LeaseInv
<1> QED BY <1>1, LeaseInductive, PTL

(***************************************************************************)
(* No two clients ever pass the check of renewLease and releaseLease for   *)
(* one run: two callers of acquireLease that both saw no row do not end up *)
(* with the same lease.                                                    *)
(***************************************************************************)
THEOREM SingleLeaseOwner == LeaseSpec => []OneLeaseOwner
<1>1. LeaseInv => OneLeaseOwner
  <2> SUFFICES ASSUME LeaseInv, NEW c \in Clients, NEW d \in Clients,
                      OwnsLease(c), OwnsLease(d), mine[c].run = mine[d].run
               PROVE  c = d
    BY DEF OneLeaseOwner
  <2>1. /\ mine[c] \in [run : Runs, token : Nat]
        /\ mine[d] \in [run : Runs, token : Nat]
    BY DEF LeaseInv, LeaseTypeOK, OwnsLease
  <2>2. mine[c].token = mine[d].token
    BY DEF OwnsLease
  <2>3. mine[c] = mine[d]
    BY <2>1, <2>2
  <2> QED BY <2>3 DEF LeaseInv, TokensUnshared, OwnsLease
<1> QED BY <1>1, LeaseInductive, PTL

(***************************************************************************)
(* No path through acquireLease takes a running lease from another worker, *)
(* and no releaseLease but its owner's deletes it.                         *)
(***************************************************************************)
THEOREM NoLeaseTheft == LeaseSpec => LeaseNotStolen
<1> DEFINE Untouched(r) ==
      (lease[r] # None /\ lease[r].expIn > 0) =>
         \/ lease'[r] # None /\ lease'[r].worker = lease[r].worker
         \/ /\ lease'[r] = None
            /\ \E c \in Clients : mine[c] = [run |-> r, token |-> lease[r].token]
<1>1. ASSUME LeaseInv, GrantStep, NEW r \in Runs PROVE Untouched(r)
  <2>1. PICK c \in Clients, q \in Runs : ~HeldByOther(c, q) /\ Grant(c, q)
    BY <1>1 DEF GrantStep
  <2> DEFINE new == [worker |-> WorkerOf[c], token |-> issued[q] + 1, expIn |-> LeaseTTL]
  <2>2. lease' = [lease EXCEPT ![q] = new]
    BY <2>1 DEF Grant
  <2>3. new \in LeaseRow
    BY <1>1, LeaseAssumption DEF LeaseInv, LeaseTypeOK, LeaseRow
  <2>4. new.worker = WorkerOf[c]
    OBVIOUS
  <2> HIDE DEF new
  <2>5. CASE r = q
    BY <2>1, <2>2, <2>3, <2>4, <2>5, <1>1, LeaseAssumption
       DEF LeaseInv, LeaseTypeOK, HeldByOther
  <2>6. CASE r # q
    BY <2>2, <2>6, <1>1 DEF LeaseInv, LeaseTypeOK
  <2> QED BY <2>5, <2>6
<1>2. ASSUME LeaseInv, KeepStep, NEW r \in Runs PROVE Untouched(r)
  <2>1. ASSUME NEW c \in Clients, OwnsLease(c), mine[c].run = r
        PROVE  mine[c] = [run |-> r, token |-> lease[r].token]
    <3>1. mine[c] \in [run : Runs, token : Nat]
      BY <1>2, <2>1 DEF LeaseInv, LeaseTypeOK, OwnsLease
    <3>2. mine[c].token = lease[r].token
      BY <2>1 DEF OwnsLease
    <3> QED BY <2>1, <3>1, <3>2
  <2> QED BY <1>2, <2>1 DEF KeepStep
<1>3. ASSUME LeaseInv, LeaseNext PROVE \A r \in Runs : Untouched(r)
  BY <1>1, <1>2, <1>3, StepKinds DEF LeaseInv
<1>4. LeaseInv /\ [LeaseNext]_leaseVars => [\A r \in Runs : Untouched(r)]_leaseVars
  BY <1>3
<1>5. LeaseSpec => [][\A r \in Runs : Untouched(r)]_leaseVars
  BY <1>4, LeaseInductive, PTL DEF LeaseSpec
<1> QED BY <1>5 DEF LeaseNotStolen
=============================================================================
