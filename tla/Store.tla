------------------------------- MODULE Store -------------------------------
(***************************************************************************)
(* The PostgreSQL store of Syouyu (crates/syouyu-store): its tables and    *)
(* the transactions that change them.                                      *)
(*                                                                         *)
(* A transaction is one atomic action: it serialises on advisory locks     *)
(* (operation key, organization, service) and row locks, and an error      *)
(* rolls all of it back.                                                   *)
(***************************************************************************)
EXTENDS Domain, Integers, FiniteSets

VARIABLES
  receipts,       \* syouyu_operation_receipts by idempotency key
  services,       \* syouyu_service_instances
  buckets,        \* syouyu_buckets by service
  names,          \* syouyu_bucket_name_reservations: owner of each name
  creds,          \* syouyu_credentials by credential id
  credRes,        \* syouyu_credential_reservations by credential id
  audit           \* syouyu_audit_events written by operations

storeVars == <<receipts, services, buckets, names, creds, credRes, audit>>

-----------------------------------------------------------------------------
(* Rows *)

\* What StoredHttpResponse carries: the execution whose ids, secret and
\* timestamps are in the body, and whether it reports a failure.
Response == [by : Attempts, failed : BOOLEAN]

\* lease_expires_at is kept as "has it passed"; lease_attempt is never read.
Receipt ==
  [req : Requests, op : Attempts, state : {"in_progress", "succeeded", "failed"},
   expired : BOOLEAN, resp : Response \cup {None}]

\* desired_generation and observed_generation are always written together,
\* and 'ready' and 'deleted' are the only phases the code writes.
ServiceRow ==
  [org : Orgs, project : Projects, name : Names, gen : Nat, quota : Quotas,
   bucket : BucketNames, phase : {"ready", "deleted"}]

BucketRow == [phys : Attempts, bucket : BucketNames, quota : Quotas]

CredentialRow ==
  [svc : Services, org : Orgs, name : Names, gkey : Attempts,
   status : {"active", "revoked"}]

ReservationRow == [op : Attempts, svc : Services, org : Orgs, name : Names]

AuditEvent == [key : Keys, by : Attempts, outcome : {"allowed", "failed"}]

\* None is not a row.
ASSUME NoRowAssumption ==
  None \notin Receipt \cup Response \cup ServiceRow \cup BucketRow
               \cup CredentialRow \cup ReservationRow

StoreTypeOK ==
  /\ receipts \in [Keys -> Receipt \cup {None}]
  /\ services \in [Services -> ServiceRow \cup {None}]
  /\ buckets \in [Services -> BucketRow \cup {None}]
  /\ names \in [BucketNames -> Services \cup {None}]
  /\ creds \in [Keys -> CredentialRow \cup {None}]
  /\ credRes \in [Keys -> ReservationRow \cup {None}]
  /\ audit \subseteq AuditEvent

StoreInit ==
  /\ receipts = [k \in Keys |-> None]
  /\ services = [s \in Services |-> None]
  /\ buckets = [s \in Services |-> None]
  /\ names = [b \in BucketNames |-> None]
  /\ creds = [c \in Keys |-> None]
  /\ credRes = [c \in Keys |-> None]
  /\ audit = {}

-----------------------------------------------------------------------------
(* Receipts: claim_existing_receipt, reserve_receipt, finish_receipt *)

InProgress(k) == receipts[k] # None /\ receipts[k].state = "in_progress"

Finished(k) == receipts[k] # None /\ receipts[k].state # "in_progress"

\* The receipt is there for the very same request.
Matches(r) == receipts[r.key] # None /\ receipts[r.key].req = r

\* ReceiptClaim::New
ClaimNew(r) == receipts[r.key] = None

\* ReceiptClaim::TakenOver: the lease of a matching operation has run out.
ClaimTakeOver(r) ==
  Matches(r) /\ InProgress(r.key) /\ receipts[r.key].expired

\* Variant of ParallelOperation that forgets operations whose lease ran out.
ParallelLiveOperation(k, s) ==
  \E j \in Keys \ {k} : InProgress(j) /\ receipts[j].req.svc = s /\ ~receipts[j].expired

\* Some other key has an unfinished operation on the service; whether its
\* lease has run out is not looked at.
ParallelOperation(k, s) ==
  \E j \in Keys \ {k} : InProgress(j) /\ receipts[j].req.svc = s

\* Variant of TakeLease that leaves a reservation with the old operation id.
TakeLeaseOnly(r, a) ==
  /\ receipts' = [receipts EXCEPT ![r.key] =
       [req |-> r, op |-> a, state |-> "in_progress", expired |-> FALSE, resp |-> None]]
  /\ credRes' = IF r.action = "create" /\ ClaimNew(r)
                  THEN [credRes EXCEPT ![r.key] =
                         [op |-> a, svc |-> r.svc, org |-> r.org, name |-> r.name]]
                  ELSE credRes

\* reserve_receipt for a new key, else the UPDATE of claim_existing_receipt,
\* which also moves a credential reservation to the new operation id.
TakeLease(r, a) ==
  /\ receipts' = [receipts EXCEPT ![r.key] =
       [req |-> r, op |-> a, state |-> "in_progress", expired |-> FALSE, resp |-> None]]
  /\ LET Moves(c) == /\ receipts[r.key] # None
                     /\ credRes[c] # None
                     /\ credRes[c].op = receipts[r.key].op
         kept == [c \in Keys |-> IF Moves(c) THEN [credRes[c] EXCEPT !.op = a]
                                             ELSE credRes[c]]
     IN credRes' = IF r.action = "create" /\ ClaimNew(r)
                     THEN [kept EXCEPT ![r.key] =
                            [op |-> a, svc |-> r.svc, org |-> r.org, name |-> r.name]]
                     ELSE kept

\* Variants of Owns: any attempt at an operation in progress; any attempt at all.
OwnsUnfenced(r, a) == Matches(r) /\ receipts[r.key].state = "in_progress"

OwnsByRequest(r, a) == Matches(r)

\* require_in_progress_receipt: the execution still owns the operation.  A
\* lease that ran out without being taken over still counts.
Owns(r, a) ==
  Matches(r) /\ receipts[r.key].op = a /\ receipts[r.key].state = "in_progress"

\* OperationLeaseLost: another execution took the operation over.
LeaseLost(r, a) == Matches(r) /\ receipts[r.key].op # a

FinishReceipt(r, a, failed) ==
  receipts' = [receipts EXCEPT ![r.key] =
    [@ EXCEPT !.state = IF failed THEN "failed" ELSE "succeeded",
              !.expired = FALSE, !.resp = [by |-> a, failed |-> failed]]]

\* Variant of InsertAudit that records every outcome as allowed.
InsertAuditAllowed(r, a, outcome) ==
  audit' = audit \cup {[key |-> r.key, by |-> a, outcome |-> "allowed"]}

InsertAudit(r, a, outcome) ==
  audit' = audit \cup {[key |-> r.key, by |-> a, outcome |-> outcome]}

\* clock_timestamp() passes lease_expires_at.
LeaseExpires(k) ==
  /\ InProgress(k) /\ ~receipts[k].expired
  /\ receipts' = [receipts EXCEPT ![k].expired = TRUE]
  /\ UNCHANGED <<services, buckets, names, creds, credRes, audit>>

RenewOperation(r, a) ==
  /\ Owns(r, a)
  /\ receipts' = [receipts EXCEPT ![r.key].expired = FALSE]
  /\ UNCHANGED <<services, buckets, names, creds, credRes, audit>>

-----------------------------------------------------------------------------
(* What the prepare transactions accept once the receipt is claimed *)

\* ensure_scope
InScope(r) ==
  services[r.svc].org = r.org /\ services[r.svc].project = r.project

\* reserve_bucket_name, with the table's UNIQUE (service_instance_id).
NameAvailable(r) ==
  /\ names[r.bucket] \in {None, r.svc}
  /\ \A b \in BucketNames \ {r.bucket} : names[b] # r.svc

\* Variant of AcceptReconcile without the comparison of generations.
AcceptAnyGeneration(r) ==
  /\ ~ParallelOperation(r.key, r.svc)
  /\ services[r.svc] # None =>
       /\ InScope(r)
       /\ services[r.svc].phase # "deleted"
       /\ buckets[r.svc].bucket = r.bucket
  /\ NameAvailable(r)

AcceptReconcile(r) ==
  /\ ~ParallelOperation(r.key, r.svc)
  /\ services[r.svc] # None =>
       /\ InScope(r)
       /\ services[r.svc].phase # "deleted"
       /\ r.gen >= services[r.svc].gen
       /\ buckets[r.svc].bucket = r.bucket
       /\ r.gen = services[r.svc].gen =>
            /\ services[r.svc].name = r.name
            /\ services[r.svc].quota = r.quota
  /\ NameAvailable(r)

\* Variant of AcceptDelete without reject_parallel_operation.
AcceptDeleteInParallel(r) ==
  /\ services[r.svc] # None
  /\ InScope(r)
  /\ services[r.svc].phase # "deleted"
  /\ r.gen = services[r.svc].gen + 1

AcceptDelete(r) ==
  /\ ~ParallelOperation(r.key, r.svc)
  /\ services[r.svc] # None
  /\ InScope(r)
  /\ services[r.svc].phase # "deleted"
  /\ r.gen = services[r.svc].gen + 1

\* ready_bucket_in_transaction
ReadyBucket(r) ==
  services[r.svc] # None /\ InScope(r) /\ services[r.svc].phase = "ready"

ActiveOf(s) == {c \in Keys : creds[c] # None /\ creds[c].svc = s /\ creds[c].status = "active"}

ReservedOf(s) == {c \in Keys : credRes[c] # None /\ credRes[c].svc = s}

ActiveIn(o) == {c \in Keys : creds[c] # None /\ creds[c].org = o /\ creds[c].status = "active"}

ReservedIn(o) == {c \in Keys : credRes[c] # None /\ credRes[c].org = o}

Minimum(m, n) == IF m <= n THEN m ELSE n

\* Variant of WithinLimits that does not count reservations.
WithinLimitsOfActive(r) ==
  /\ Cardinality(ActiveOf(r.svc)) < Minimum(r.perBucket, MaxPerBucket)
  /\ Cardinality(ActiveIn(r.org)) < Minimum(r.total, MaxTotal)

\* Active credentials and reservations together stay below both limits.
WithinLimits(r) ==
  /\ Cardinality(ActiveOf(r.svc)) + Cardinality(ReservedOf(r.svc))
       < Minimum(r.perBucket, MaxPerBucket)
  /\ Cardinality(ActiveIn(r.org)) + Cardinality(ReservedIn(r.org))
       < Minimum(r.total, MaxTotal)

CredentialNameFree(r) ==
  \A c \in Keys :
    /\ creds[c] # None => ~(creds[c].svc = r.svc /\ creds[c].name = r.name)
    /\ credRes[c] # None => ~(credRes[c].svc = r.svc /\ credRes[c].name = r.name)

\* CredentialReservationRow::matches, for the row that the takeover moved.
ReservationFor(r, c) ==
  /\ credRes[c] # None
  /\ credRes[c].op = receipts[r.key].op
  /\ credRes[c].svc = r.svc /\ credRes[c].org = r.org /\ credRes[c].name = r.name

AcceptCreate(r) ==
  /\ ReadyBucket(r)
  /\ ~ParallelOperation(r.key, r.svc)
  /\ IF ClaimNew(r) THEN CredentialNameFree(r) /\ WithinLimits(r)
                    ELSE \E c \in Keys : ReservationFor(r, c)

AcceptRevoke(r) ==
  /\ ~ParallelOperation(r.key, r.svc)
  /\ ReadyBucket(r)
  /\ creds[r.cred] # None /\ creds[r.cred].svc = r.svc

Accept(r) ==
  CASE r.action = "reconcile" -> AcceptReconcile(r)
    [] r.action = "delete"    -> AcceptDelete(r)
    [] r.action = "create"    -> AcceptCreate(r)
    [] r.action = "revoke"    -> AcceptRevoke(r)

\* prepare_reconcile, prepare_delete, prepare_create_credential and
\* prepare_revoke_credential, when they return Prepare::Execute.
PrepareExecute(r, a) ==
  /\ ClaimNew(r) \/ ClaimTakeOver(r)
  /\ Accept(r)
  /\ TakeLease(r, a)
  /\ names' = IF r.action = "reconcile" THEN [names EXCEPT ![r.bucket] = r.svc] ELSE names
  /\ UNCHANGED <<services, buckets, creds, audit>>

\* Prepare::Replay
PrepareReplay(r) == Matches(r) /\ Finished(r.key)

\* reject_parallel_operation is what refuses the request: the first check of
\* three of the prepares, but nearly the last one for a credential.
RefusedAsParallel(r) ==
  /\ ParallelOperation(r.key, r.svc)
  /\ r.action = "create" =>
       ReadyBucket(r) /\ (ClaimNew(r) => CredentialNameFree(r) /\ WithinLimits(r))

\* Prepare::InProgress, or OperationInProgress from reject_parallel_operation:
\* both are answered 503 operation_in_progress.
PrepareBusy(r) ==
  \/ Matches(r) /\ InProgress(r.key) /\ ~receipts[r.key].expired
  \/ (ClaimNew(r) \/ ClaimTakeOver(r)) /\ RefusedAsParallel(r)

\* Any other error; the transaction, a takeover included, is rolled back.
PrepareRejected(r) ==
  \/ receipts[r.key] # None /\ ~Matches(r)
  \/ (ClaimNew(r) \/ ClaimTakeOver(r)) /\ ~Accept(r) /\ ~RefusedAsParallel(r)

-----------------------------------------------------------------------------
(* Completion *)

\* Variant of ReconcileApplies whose upsert compares nothing.
ReconcileAppliesAlways(r, p) == TRUE

\* The WHERE of the upsert, and the UNIQUE constraints on (project_id, name),
\* bucket_name and physical_bucket_id.  Rows of deleted services stay.
ReconcileApplies(r, p) ==
  /\ services[r.svc] # None =>
       InScope(r) /\ services[r.svc].gen <= r.gen /\ services[r.svc].phase # "deleted"
  /\ \A s \in Services \ {r.svc} :
       /\ services[s] # None =>
            ~(services[s].project = r.project /\ services[s].name = r.name)
       /\ buckets[s] # None => buckets[s].bucket # r.bucket /\ buckets[s].phys # p

\* Variant of CompleteReconcile that writes the service row only.
CompleteReconcileNoBucket(r, a, p) ==
  /\ Owns(r, a)
  /\ ReconcileApplies(r, p)
  /\ services' = [services EXCEPT ![r.svc] =
       [org |-> r.org, project |-> r.project, name |-> r.name, gen |-> r.gen,
        quota |-> r.quota, bucket |-> r.bucket, phase |-> "ready"]]
  /\ FinishReceipt(r, a, FALSE)
  /\ InsertAudit(r, a, "allowed")
  /\ UNCHANGED <<buckets, names, creds, credRes>>

CompleteReconcile(r, a, p) ==
  /\ Owns(r, a)
  /\ ReconcileApplies(r, p)
  /\ services' = [services EXCEPT ![r.svc] =
       [org |-> r.org, project |-> r.project, name |-> r.name, gen |-> r.gen,
        quota |-> r.quota, bucket |-> r.bucket, phase |-> "ready"]]
  /\ buckets' = [buckets EXCEPT ![r.svc] =
       [phys |-> p, bucket |-> r.bucket, quota |-> r.quota]]
  /\ names' = [b \in BucketNames |->
       IF names[b] = r.svc /\ b # r.bucket THEN None ELSE names[b]]
  /\ FinishReceipt(r, a, FALSE)
  /\ InsertAudit(r, a, "allowed")
  /\ UNCHANGED <<creds, credRes>>

DeleteApplies(r) ==
  services[r.svc] # None /\ InScope(r) /\ services[r.svc].phase # "deleted"

\* Variant of CompleteDelete that removes the rows instead of marking them.
CompleteDeletePurging(r, a) ==
  /\ Owns(r, a)
  /\ DeleteApplies(r)
  /\ creds' = [c \in Keys |-> IF c \in ActiveOf(r.svc) THEN None ELSE creds[c]]
  /\ services' = [services EXCEPT ![r.svc] = None]
  /\ names' = [b \in BucketNames |-> IF names[b] = r.svc THEN None ELSE names[b]]
  /\ FinishReceipt(r, a, FALSE)
  /\ InsertAudit(r, a, "allowed")
  /\ UNCHANGED <<buckets, credRes>>

CompleteDelete(r, a) ==
  /\ Owns(r, a)
  /\ DeleteApplies(r)
  /\ creds' = [c \in Keys |->
       IF c \in ActiveOf(r.svc) THEN [creds[c] EXCEPT !.status = "revoked"] ELSE creds[c]]
  /\ services' = [services EXCEPT ![r.svc] = [@ EXCEPT !.gen = r.gen, !.phase = "deleted"]]
  /\ names' = [b \in BucketNames |-> IF names[b] = r.svc THEN None ELSE names[b]]
  /\ FinishReceipt(r, a, FALSE)
  /\ InsertAudit(r, a, "allowed")
  /\ UNCHANGED <<buckets, credRes>>

\* The reservation is still there, and the credential row breaks no UNIQUE
\* constraint on (service, name), garage_key_id or the id.
CreateApplies(r, a, c) ==
  /\ credRes[c] # None
  /\ credRes[c].op = a /\ credRes[c].svc = r.svc /\ credRes[c].name = r.name
  /\ creds[c] = None
  /\ \A d \in Keys : creds[d] # None =>
       creds[d].gkey # a /\ ~(creds[d].svc = r.svc /\ creds[d].name = r.name)

CompleteCreate(r, a, c) ==
  /\ Owns(r, a)
  /\ CreateApplies(r, a, c)
  /\ creds' = [creds EXCEPT ![c] =
       [svc |-> r.svc, org |-> r.org, name |-> r.name, gkey |-> a, status |-> "active"]]
  /\ credRes' = [credRes EXCEPT ![c] = None]
  /\ FinishReceipt(r, a, FALSE)
  /\ InsertAudit(r, a, "allowed")
  /\ UNCHANGED <<services, buckets, names>>

RevokeApplies(r) == creds[r.cred] # None /\ creds[r.cred].svc = r.svc

CompleteRevoke(r, a) ==
  /\ Owns(r, a)
  /\ RevokeApplies(r)
  /\ creds' = [creds EXCEPT ![r.cred] = [@ EXCEPT !.status = "revoked"]]
  /\ FinishReceipt(r, a, FALSE)
  /\ InsertAudit(r, a, "allowed")
  /\ UNCHANGED <<services, buckets, names, credRes>>

\* Variant of FailOperation that gives up every name of the service.
FailReleasingNames(r, a) ==
  /\ Owns(r, a)
  /\ FinishReceipt(r, a, TRUE)
  /\ credRes' = [c \in Keys |->
       IF credRes[c] # None /\ credRes[c].op = a THEN None ELSE credRes[c]]
  /\ names' = [b \in BucketNames |-> IF names[b] = r.svc THEN None ELSE names[b]]
  /\ InsertAudit(r, a, "failed")
  /\ UNCHANGED <<services, buckets, creds>>

\* fail_operation gives up the reservations: the credential's, and a bucket
\* name that no bucket row of the service carries.
FailOperation(r, a) ==
  /\ Owns(r, a)
  /\ FinishReceipt(r, a, TRUE)
  /\ credRes' = [c \in Keys |->
       IF credRes[c] # None /\ credRes[c].op = a THEN None ELSE credRes[c]]
  /\ names' = [b \in BucketNames |->
       IF names[b] = r.svc /\ ~(buckets[r.svc] # None /\ buckets[r.svc].bucket = b)
         THEN None ELSE names[b]]
  /\ InsertAudit(r, a, "failed")
  /\ UNCHANGED <<services, buckets, creds>>

=============================================================================
