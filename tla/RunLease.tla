----------------------------- MODULE RunLease -----------------------------
(***************************************************************************)
(* The run leases of the control plane: table control_plane.runtime_leases *)
(* and services/cosa/services/control-plane-lease.service.ts.              *)
(*                                                                         *)
(* A client is one dispatch_one_task coroutine; the lease row only records *)
(* its worker id, and several clients may share a worker.  Each operation  *)
(* is a transaction that locks the row of its run first, so it is one step *)
(* when the row exists.  With no row there is nothing to lock: acquireLease *)
(* then goes through an INSERT ... ON CONFLICT DO NOTHING and, if that      *)
(* inserted nothing, a second look, and others may commit in between.      *)
(*                                                                         *)
(* expIn is expires_at - now, floored at 0.  acquireLease reads the clock  *)
(* when it starts; refusing a lease that lapsed while the call waited for  *)
(* a lock is the same as refusing it before it lapsed.                     *)
(***************************************************************************)
EXTENDS Integers, FiniteSets

CONSTANTS
  Runs,      \* run ids
  Workers,   \* worker ids
  Clients,   \* coroutines that take leases
  WorkerOf,  \* the worker each client belongs to
  LeaseTTL,  \* ttlSec / additionalTtlSec
  MaxLeases, \* bound on the leases issued per run
  None       \* no row, no lease

(***************************************************************************)
(* Lease tokens are uuids compared only with the row of their own run, so  *)
(* the number of the lease of that run stands for its token.               *)
(***************************************************************************)
LeaseRow == [worker : Workers, token : Nat, expIn : Nat]

ASSUME LeaseAssumption ==
  /\ WorkerOf \in [Clients -> Workers]
  /\ LeaseTTL \in Nat \ {0}
  /\ MaxLeases \in Nat
  /\ None \notin LeaseRow

VARIABLES
  lease,  \* run -> its row, or None
  issued, \* run -> number of lease tokens issued for it so far
  asking, \* client -> where its acquireLease stands between statements
  mine    \* client -> the lease acquireLease returned to it

leaseVars == <<lease, issued, asking, mine>>

LeaseTypeOK ==
  /\ lease \in [Runs -> LeaseRow \cup {None}]
  /\ issued \in [Runs -> Nat]
  /\ asking \in [Clients -> [run : Runs, at : {"insert", "recheck"}] \cup {None}]
  /\ mine \in [Clients -> [run : Runs, token : Nat] \cup {None}]

LeaseInit ==
  /\ lease = [r \in Runs |-> None]
  /\ issued = [r \in Runs |-> 0]
  /\ asking = [c \in Clients |-> None]
  /\ mine = [c \in Clients |-> None]

-----------------------------------------------------------------------------
(* acquireLease.                                                           *)

(* Mutant: the expiry is compared the wrong way round. *)
HeldByOther_Lapsed(c, r) ==
  lease[r] # None /\ lease[r].expIn = 0 /\ lease[r].worker # WorkerOf[c]

(***************************************************************************)
(* The row that stops a client: unexpired, and of another worker.  A client *)
(* of the same worker is let through.                                      *)
(***************************************************************************)
HeldByOther(c, r) ==
  lease[r] # None /\ lease[r].expIn > 0 /\ lease[r].worker # WorkerOf[c]

Idle(c) == asking[c] = None /\ mine[c] = None

(***************************************************************************)
(* The lease of r is written for c's worker under a fresh token.           *)
(***************************************************************************)
Grant(c, r) ==
  /\ issued[r] < MaxLeases
  /\ issued' = [issued EXCEPT ![r] = @ + 1]
  /\ lease' = [lease EXCEPT ![r] = [worker |-> WorkerOf[c],
                                    token |-> issued[r] + 1,
                                    expIn |-> LeaseTTL]]
  /\ mine' = [mine EXCEPT ![c] = [run |-> r, token |-> issued[r] + 1]]
  /\ asking' = [asking EXCEPT ![c] = None]

(***************************************************************************)
(* The first SELECT ... FOR UPDATE found a row that c may take over.       *)
(***************************************************************************)
AcquireExisting(c, r) ==
  /\ Idle(c)
  /\ lease[r] # None
  /\ ~HeldByOther(c, r)
  /\ Grant(c, r)

(***************************************************************************)
(* It found a row of another worker: acquireLease fails, nothing changes.  *)
(***************************************************************************)
AcquireRefused(c, r) ==
  /\ Idle(c)
  /\ HeldByOther(c, r)
  /\ UNCHANGED leaseVars

(***************************************************************************)
(* It found no row and locked nothing.                                     *)
(***************************************************************************)
AcquireMiss(c, r) ==
  /\ Idle(c)
  /\ lease[r] = None
  /\ asking' = [asking EXCEPT ![c] = [run |-> r, at |-> "insert"]]
  /\ UNCHANGED <<lease, issued, mine>>

(***************************************************************************)
(* INSERT ... ON CONFLICT DO NOTHING.                                      *)
(***************************************************************************)
AcquireInsert(c) ==
  /\ asking[c] # None
  /\ asking[c].at = "insert"
  /\ IF lease[asking[c].run] = None
       THEN Grant(c, asking[c].run)
       ELSE /\ asking' = [asking EXCEPT ![c].at = "recheck"]
            /\ UNCHANGED <<lease, issued, mine>>

(* Mutant: after a lost INSERT race the row is taken over unread. *)
AcquireRecheck_Blind(c) ==
  /\ asking[c] # None
  /\ asking[c].at = "recheck"
  /\ Grant(c, asking[c].run)

(***************************************************************************)
(* The second SELECT ... FOR UPDATE finds a row that c may take over.      *)
(***************************************************************************)
AcquireRecheck(c) ==
  /\ asking[c] # None
  /\ asking[c].at = "recheck"
  /\ lease[asking[c].run] # None
  /\ ~HeldByOther(c, asking[c].run)
  /\ Grant(c, asking[c].run)

(***************************************************************************)
(* Or a row of another worker, or a row that is gone again.                *)
(***************************************************************************)
AcquireConflict(c) ==
  /\ asking[c] # None
  /\ asking[c].at = "recheck"
  /\ lease[asking[c].run] = None \/ HeldByOther(c, asking[c].run)
  /\ asking' = [asking EXCEPT ![c] = None]
  /\ UNCHANGED <<lease, issued, mine>>

-----------------------------------------------------------------------------
(* renewLease, releaseLease.                                               *)

(* Mutant: the worker is checked but not the token. *)
OwnsLease_ByWorker(c) ==
  /\ mine[c] # None
  /\ lease[mine[c].run] # None
  /\ lease[mine[c].run].worker = WorkerOf[c]

(***************************************************************************)
(* The check of both: worker and token must match; the expiry is not looked *)
(* at, so a lapsed lease that nobody took over can still be renewed.       *)
(***************************************************************************)
OwnsLease(c) ==
  /\ mine[c] # None
  /\ lease[mine[c].run] # None
  /\ lease[mine[c].run].worker = WorkerOf[c]
  /\ lease[mine[c].run].token = mine[c].token

RenewLease(c) ==
  /\ OwnsLease(c)
  /\ lease' = [lease EXCEPT ![mine[c].run].expIn = LeaseTTL]
  /\ UNCHANGED <<issued, asking, mine>>

(* Mutant: a released row keeps its place without a worker. *)
ReleaseLease_Tombstone(c) ==
  /\ mine[c] # None
  /\ lease' = IF OwnsLease(c) THEN [lease EXCEPT ![mine[c].run].worker = None] ELSE lease
  /\ mine' = [mine EXCEPT ![c] = None]
  /\ UNCHANGED <<issued, asking>>

(***************************************************************************)
(* The client forgets its lease; the row goes only if it is still its own. *)
(***************************************************************************)
ReleaseLease(c) ==
  /\ mine[c] # None
  /\ lease' = IF OwnsLease(c) THEN [lease EXCEPT ![mine[c].run] = None] ELSE lease
  /\ mine' = [mine EXCEPT ![c] = None]
  /\ UNCHANGED <<issued, asking>>

(***************************************************************************)
(* Worker w's process ends and its clients forget what they hold; those of *)
(* the set C still released it on the way out, the other rows stay.        *)
(***************************************************************************)
Quit(w, C) ==
  /\ lease' = [r \in Runs |->
                 IF \E c \in C : OwnsLease(c) /\ mine[c].run = r THEN None ELSE lease[r]]
  /\ asking' = [c \in Clients |-> IF WorkerOf[c] = w THEN None ELSE asking[c]]
  /\ mine' = [c \in Clients |-> IF WorkerOf[c] = w THEN None ELSE mine[c]]
  /\ UNCHANGED issued

Elapsed(l) == IF l = None \/ l.expIn = 0 THEN l ELSE [l EXCEPT !.expIn = @ - 1]

(***************************************************************************)
(* One unit of time passes for every lease.                                *)
(***************************************************************************)
LeaseTick ==
  /\ lease' = [r \in Runs |-> Elapsed(lease[r])]
  /\ UNCHANGED <<issued, asking, mine>>

LeaseNext ==
  \/ \E c \in Clients, r \in Runs : AcquireExisting(c, r) \/ AcquireMiss(c, r)
  \/ \E c \in Clients, r \in Runs : AcquireRefused(c, r)
  \/ \E c \in Clients : AcquireInsert(c) \/ AcquireRecheck(c) \/ AcquireConflict(c)
  \/ \E c \in Clients : RenewLease(c) \/ ReleaseLease(c)
  \/ \E w \in Workers : \E C \in SUBSET {c \in Clients : WorkerOf[c] = w} : Quit(w, C)
  \/ LeaseTick

LeaseSpec == LeaseInit /\ [][LeaseNext]_leaseVars

-----------------------------------------------------------------------------
(* Properties.                                                             *)

(***************************************************************************)
(* A lease that is still running is never taken by another worker, on any  *)
(* of the three paths through acquireLease, and never deleted by anyone but *)
(* the client it was issued to: not by a client whose lease was taken over *)
(* and who releases late.                                                  *)
(***************************************************************************)
LeaseNotStolen ==
  [][\A r \in Runs :
        (lease[r] # None /\ lease[r].expIn > 0) =>
           \/ lease'[r] # None /\ lease'[r].worker = lease[r].worker
           \/ /\ lease'[r] = None
              /\ \E c \in Clients : mine[c] = [run |-> r, token |-> lease[r].token]]_leaseVars

(***************************************************************************)
(* Two clients never hold the current lease of one run, even when both got *)
(* past the first SELECT before there was a row.                           *)
(***************************************************************************)
OneLeaseOwner ==
  \A c, d \in Clients :
     (OwnsLease(c) /\ OwnsLease(d) /\ mine[c].run = mine[d].run) => c = d

(***************************************************************************)
(* The inductive invariant: the row of a run carries the last token issued *)
(* for it, and no token was given to two clients.                          *)
(***************************************************************************)
TokensFresh ==
  /\ \A r \in Runs : lease[r] # None => lease[r].token = issued[r]
  /\ \A c \in Clients : mine[c] # None => mine[c].token <= issued[mine[c].run]

TokensUnshared ==
  \A c, d \in Clients : (mine[c] # None /\ mine[c] = mine[d]) => c = d

LeaseInv == LeaseTypeOK /\ TokensFresh /\ TokensUnshared
=============================================================================
