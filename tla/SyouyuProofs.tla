---------------------------- MODULE SyouyuProofs ----------------------------
(***************************************************************************)
(* Proofs, for every value of the constants, of the properties of Syouyu   *)
(* that do not depend on what Garage answers: types, the idempotency of    *)
(* receipts and the finality of revocation.                                *)
(***************************************************************************)
EXTENDS Syouyu, TLAPS

\* The fields of a request have the types Request gives them.
LEMMA RequestFields ==
  ASSUME NEW r \in Requests
  PROVE  /\ r.key \in Keys /\ r.action \in Actions /\ r.svc \in Services
         /\ r.org \in Orgs /\ r.project \in Projects /\ r.gen \in Nat
         /\ r.name \in Names /\ r.bucket \in BucketNames /\ r.quota \in Quotas
         /\ r.cred \in Keys
BY RequestsAssumption DEF Request

-----------------------------------------------------------------------------
(* Types: the store *)

\* TakeLease writes well-formed receipts and reservations.
LEMMA TakeLeaseTyped ==
  ASSUME StoreTypeOK, NEW r \in Requests, NEW a \in Attempts, TakeLease(r, a)
  PROVE  /\ receipts' \in [Keys -> Receipt \cup {None}]
         /\ credRes' \in [Keys -> ReservationRow \cup {None}]
<1>1. receipts' \in [Keys -> Receipt \cup {None}]
  BY DEF TakeLease, StoreTypeOK, Receipt
<1>2. r.key \in Keys /\ r.svc \in Services /\ r.org \in Orgs /\ r.name \in Names
  BY RequestFields
<1>3. credRes' \in [Keys -> ReservationRow \cup {None}]
  BY <1>2, SMTT(30) DEF TakeLease, StoreTypeOK, ReservationRow
<1> QED BY <1>1, <1>3

\* FinishReceipt writes a well-formed receipt.
LEMMA FinishReceiptTyped ==
  ASSUME StoreTypeOK, NEW r \in Requests, NEW a \in Attempts, NEW failed \in BOOLEAN,
         Owns(r, a), FinishReceipt(r, a, failed)
  PROVE  receipts' \in [Keys -> Receipt \cup {None}]
<1>1. r.key \in Keys
  BY RequestFields
<1>2. receipts[r.key] \in Receipt
  BY <1>1 DEF Owns, Matches, StoreTypeOK
<1>3. [receipts[r.key] EXCEPT !.state = IF failed THEN "failed" ELSE "succeeded",
          !.expired = FALSE, !.resp = [by |-> a, failed |-> failed]] \in Receipt
  BY <1>2 DEF Receipt, Response
<1> QED BY <1>1, <1>3 DEF FinishReceipt, StoreTypeOK

\* insert_audit writes a well-formed event.
LEMMA InsertAuditTyped ==
  ASSUME StoreTypeOK, NEW r \in Requests, NEW a \in Attempts,
         NEW outcome \in {"allowed", "failed"}, InsertAudit(r, a, outcome)
  PROVE  audit' \subseteq AuditEvent
BY RequestFields DEF InsertAudit, StoreTypeOK, AuditEvent

\* What the transactions preserve.
StoreInv == StoreTypeOK /\ BucketRowPresent

\* prepare_* keeps the tables well formed.
LEMMA PrepareExecuteInv ==
  ASSUME StoreInv, NEW r \in Requests, NEW a \in Attempts, PrepareExecute(r, a)
  PROVE  StoreInv'
<1>1. /\ receipts' \in [Keys -> Receipt \cup {None}]
      /\ credRes' \in [Keys -> ReservationRow \cup {None}]
  BY TakeLeaseTyped DEF PrepareExecute, StoreInv
<1>2. names' \in [BucketNames -> Services \cup {None}]
  BY RequestFields DEF PrepareExecute, StoreInv, StoreTypeOK
<1> QED BY <1>1, <1>2 DEF PrepareExecute, StoreInv, StoreTypeOK, BucketRowPresent

\* So do the passing of time and the renewal of a lease.
LEMMA LeaseExpiresInv ==
  ASSUME StoreInv, NEW k \in Keys, LeaseExpires(k)
  PROVE  StoreInv'
<1>1. receipts[k] \in Receipt
  BY DEF LeaseExpires, InProgress, StoreInv, StoreTypeOK
<1>2. [receipts[k] EXCEPT !.expired = TRUE] \in Receipt
  BY <1>1 DEF Receipt
<1>3. receipts' \in [Keys -> Receipt \cup {None}]
  BY <1>2 DEF LeaseExpires, StoreInv, StoreTypeOK
<1> QED BY <1>3 DEF LeaseExpires, StoreInv, StoreTypeOK, BucketRowPresent

LEMMA RenewOperationInv ==
  ASSUME StoreInv, NEW r \in Requests, NEW a \in Attempts, RenewOperation(r, a)
  PROVE  StoreInv'
<1>0. r.key \in Keys
  BY RequestFields
<1>1. receipts[r.key] \in Receipt
  BY <1>0 DEF RenewOperation, Owns, Matches, StoreInv, StoreTypeOK
<1>2. [receipts[r.key] EXCEPT !.expired = FALSE] \in Receipt
  BY <1>1 DEF Receipt
<1>3. receipts' \in [Keys -> Receipt \cup {None}]
  BY <1>0, <1>2 DEF RenewOperation, StoreInv, StoreTypeOK
<1> QED BY <1>3 DEF RenewOperation, StoreInv, StoreTypeOK, BucketRowPresent

\* complete_reconcile keeps the tables well formed and the two rows of the
\* service together.
LEMMA CompleteReconcileInv ==
  ASSUME StoreInv, NEW r \in Requests, NEW a \in Attempts, NEW p \in Attempts,
         CompleteReconcile(r, a, p)
  PROVE  StoreInv'
<1> USE DEF StoreInv
<1>0. /\ r.key \in Keys /\ r.svc \in Services /\ r.org \in Orgs /\ r.project \in Projects
      /\ r.gen \in Nat /\ r.name \in Names /\ r.bucket \in BucketNames /\ r.quota \in Quotas
  BY RequestFields
<1> DEFINE row == [org |-> r.org, project |-> r.project, name |-> r.name, gen |-> r.gen,
                   quota |-> r.quota, bucket |-> r.bucket, phase |-> "ready"]
           brow == [phys |-> p, bucket |-> r.bucket, quota |-> r.quota]
<1>1. row \in ServiceRow /\ brow \in BucketRow
  BY <1>0 DEF ServiceRow, BucketRow
<1>2. services' = [services EXCEPT ![r.svc] = row] /\ buckets' = [buckets EXCEPT ![r.svc] = brow]
  BY DEF CompleteReconcile
<1> HIDE DEF row, brow
<1>3. services' \in [Services -> ServiceRow \cup {None}]
  BY <1>0, <1>1, <1>2 DEF StoreTypeOK
<1>4. buckets' \in [Services -> BucketRow \cup {None}]
  BY <1>0, <1>1, <1>2 DEF StoreTypeOK
<1>5. names' \in [BucketNames -> Services \cup {None}]
  BY DEF CompleteReconcile, StoreTypeOK
<1>6. receipts' \in [Keys -> Receipt \cup {None}]
  BY FinishReceiptTyped DEF CompleteReconcile
<1>7. audit' \subseteq AuditEvent
  BY InsertAuditTyped DEF CompleteReconcile
<1>8. creds' = creds /\ credRes' = credRes
  BY DEF CompleteReconcile
<1>9. StoreTypeOK'
  BY <1>3, <1>4, <1>5, <1>6, <1>7, <1>8 DEF StoreTypeOK
<1>10. BucketRowPresent'
  BY <1>0, <1>1, <1>2, NoRowAssumption DEF BucketRowPresent, StoreTypeOK
<1> QED BY <1>9, <1>10

\* complete_delete
LEMMA CompleteDeleteInv ==
  ASSUME StoreInv, NEW r \in Requests, NEW a \in Attempts, CompleteDelete(r, a)
  PROVE  StoreInv'
<1> USE DEF StoreInv
<1>0. r.key \in Keys /\ r.svc \in Services /\ r.gen \in Nat
  BY RequestFields
<1>1. services[r.svc] # None /\ services[r.svc] \in ServiceRow
  BY <1>0 DEF CompleteDelete, DeleteApplies, StoreTypeOK
<1>2. [services[r.svc] EXCEPT !.gen = r.gen, !.phase = "deleted"] \in ServiceRow
  BY <1>0, <1>1 DEF ServiceRow
<1>3. services' \in [Services -> ServiceRow \cup {None}]
  BY <1>0, <1>2 DEF CompleteDelete, StoreTypeOK
<1>4. ASSUME NEW c \in Keys, c \in ActiveOf(r.svc)
      PROVE  [creds[c] EXCEPT !.status = "revoked"] \in CredentialRow
  <2>1. creds[c] \in CredentialRow
    BY <1>4 DEF ActiveOf, StoreTypeOK
  <2> QED BY <2>1 DEF CredentialRow
<1>5. creds' \in [Keys -> CredentialRow \cup {None}]
  BY <1>4 DEF CompleteDelete, StoreTypeOK
<1>6. names' \in [BucketNames -> Services \cup {None}]
  BY DEF CompleteDelete, StoreTypeOK
<1>7. receipts' \in [Keys -> Receipt \cup {None}]
  BY FinishReceiptTyped DEF CompleteDelete
<1>8. audit' \subseteq AuditEvent
  BY InsertAuditTyped DEF CompleteDelete
<1>9. buckets' = buckets /\ credRes' = credRes
  BY DEF CompleteDelete
<1>10. StoreTypeOK'
  BY <1>3, <1>5, <1>6, <1>7, <1>8, <1>9 DEF StoreTypeOK
<1>11. BucketRowPresent'
  <2> SUFFICES ASSUME NEW s \in Services, services'[s] # None
               PROVE  buckets'[s] # None
    BY DEF BucketRowPresent
  <2>1. services[s] # None
    BY <1>0, <1>1 DEF CompleteDelete, StoreTypeOK
  <2> QED BY <2>1, <1>9 DEF BucketRowPresent
<1> QED BY <1>10, <1>11

\* complete_create_credential
LEMMA CompleteCreateInv ==
  ASSUME StoreInv, NEW r \in Requests, NEW a \in Attempts, NEW c \in Keys \cup {None},
         CompleteCreate(r, a, c)
  PROVE  StoreInv'
<1> USE DEF StoreInv
<1>0. r.svc \in Services /\ r.org \in Orgs /\ r.name \in Names
  BY RequestFields
<1>1. [svc |-> r.svc, org |-> r.org, name |-> r.name, gkey |-> a, status |-> "active"]
        \in CredentialRow
  BY <1>0 DEF CredentialRow
<1>2. creds' \in [Keys -> CredentialRow \cup {None}]
  BY <1>1 DEF CompleteCreate, StoreTypeOK
<1>3. credRes' \in [Keys -> ReservationRow \cup {None}]
  BY DEF CompleteCreate, StoreTypeOK
<1>4. receipts' \in [Keys -> Receipt \cup {None}]
  BY FinishReceiptTyped DEF CompleteCreate
<1>5. audit' \subseteq AuditEvent
  BY InsertAuditTyped DEF CompleteCreate
<1> QED
  BY <1>2, <1>3, <1>4, <1>5 DEF CompleteCreate, StoreTypeOK, BucketRowPresent

\* complete_revoke_credential
LEMMA CompleteRevokeInv ==
  ASSUME StoreInv, NEW r \in Requests, NEW a \in Attempts, CompleteRevoke(r, a)
  PROVE  StoreInv'
<1> USE DEF StoreInv
<1>0. r.cred \in Keys
  BY RequestFields
<1>1. creds[r.cred] \in CredentialRow
  BY <1>0 DEF CompleteRevoke, RevokeApplies, StoreTypeOK
<1>2. [creds[r.cred] EXCEPT !.status = "revoked"] \in CredentialRow
  BY <1>1 DEF CredentialRow
<1>3. creds' \in [Keys -> CredentialRow \cup {None}]
  BY <1>0, <1>2 DEF CompleteRevoke, StoreTypeOK
<1>4. receipts' \in [Keys -> Receipt \cup {None}]
  BY FinishReceiptTyped DEF CompleteRevoke
<1>5. audit' \subseteq AuditEvent
  BY InsertAuditTyped DEF CompleteRevoke
<1> QED
  BY <1>3, <1>4, <1>5 DEF CompleteRevoke, StoreTypeOK, BucketRowPresent

\* fail_operation
LEMMA FailOperationInv ==
  ASSUME StoreInv, NEW r \in Requests, NEW a \in Attempts, FailOperation(r, a)
  PROVE  StoreInv'
<1> USE DEF StoreInv
<1>1. receipts' \in [Keys -> Receipt \cup {None}]
  BY FinishReceiptTyped DEF FailOperation
<1>2. audit' \subseteq AuditEvent
  BY InsertAuditTyped DEF FailOperation
<1>3. credRes' \in [Keys -> ReservationRow \cup {None}]
  BY DEF FailOperation, StoreTypeOK
<1>4. names' \in [BucketNames -> Services \cup {None}]
  BY DEF FailOperation, StoreTypeOK
<1> QED
  BY <1>1, <1>2, <1>3, <1>4 DEF FailOperation, StoreTypeOK, BucketRowPresent

-----------------------------------------------------------------------------
(* Steps of Next, seen from the store *)

\* Every transaction the handlers run, and the passing of time.
StoreStep ==
  \/ UNCHANGED storeVars
  \/ \E r \in Requests, a \in Attempts :
       \/ PrepareExecute(r, a) \/ RenewOperation(r, a) \/ FailOperation(r, a)
       \/ CompleteDelete(r, a) \/ CompleteRevoke(r, a)
       \/ \E p \in Attempts : CompleteReconcile(r, a, p)
       \/ \E c \in Keys \cup {None} : CompleteCreate(r, a, c)
  \/ \E k \in Keys : LeaseExpires(k)

\* A completion is one of the four transactions.
LEMMA CompleteOperationStep ==
  ASSUME HandlerTypeOK, NEW a \in Attempts, pc[a] = "complete", CompleteOperation(a)
  PROVE  StoreStep
<1>1. req[a] \in Requests /\ ctx[a] \in Context /\ req[a].action \in Actions
  BY RequestFields DEF HandlerTypeOK
<1>2. CASE req[a].action = "reconcile"
  <2>1. ctx[a].bucket \in Attempts
    BY <1>1, <1>2 DEF HandlerTypeOK, Context
  <2>2. CompleteReconcile(req[a], a, ctx[a].bucket)
    BY <1>2 DEF CompleteOperation
  <2> QED BY <1>1, <2>1, <2>2 DEF StoreStep
<1>3. CASE req[a].action = "delete"
  <2>1. CompleteDelete(req[a], a)
    BY <1>3 DEF CompleteOperation
  <2> QED BY <1>1, <2>1 DEF StoreStep
<1>4. CASE req[a].action = "create"
  <2>1. ctx[a].cred \in Keys \cup {None}
    BY <1>1 DEF Context
  <2>2. CompleteCreate(req[a], a, ctx[a].cred)
    BY <1>4 DEF CompleteOperation
  <2> QED BY <1>1, <2>1, <2>2 DEF StoreStep
<1>5. CASE req[a].action = "revoke"
  <2>1. CompleteRevoke(req[a], a)
    BY <1>5 DEF CompleteOperation
  <2> QED BY <1>1, <2>1 DEF StoreStep
<1> QED BY <1>1, <1>2, <1>3, <1>4, <1>5 DEF Actions

\* What a step of the system does to the store.
LEMMA NextStoreStep ==
  ASSUME HandlerTypeOK, [Next]_vars
  PROVE  StoreStep
<1>1. CASE UNCHANGED vars
  BY <1>1 DEF vars, StoreStep, storeVars
<1>2. ASSUME NEW a \in Attempts, Step(a) \/ Abandon(a)
      PROVE  StoreStep
  <2>0. pc[a] # "idle" => req[a] \in Requests
    BY DEF HandlerTypeOK
  <2>1. CASE Prepare(a)
    BY <2>1 DEF Prepare, StoreStep
  <2>2. CASE Renew(a)
    BY <2>0, <2>2 DEF Renew, NotOwner, StoreStep
  <2>3. CASE Complete(a)
    <3>1. CASE CompleteOperation(a)
      BY <2>3, <3>1, CompleteOperationStep DEF Complete
    <3>2. CASE UNCHANGED storeVars
      BY <3>2 DEF StoreStep
    <3> QED BY <2>3, <3>1, <3>2 DEF Complete, NotOwner
  <2>4. CASE Fail(a)
    BY <2>0, <2>4 DEF Fail, NotOwner, StoreStep
  <2>5. CASE LookupBucket(a) \/ CreateServiceBucket(a) \/ UpdateQuotas(a)
    BY <2>5 DEF LookupBucket, CreateServiceBucket, UpdateQuotas, StoreStep
  <2>6. CASE CheckUsage(a) \/ RevokeKey(a) \/ DeleteServiceBucket(a)
    BY <2>6 DEF CheckUsage, RevokeKey, DeleteServiceBucket, StoreStep
  <2>7. CASE ListKeys(a) \/ PurgeKey(a) \/ CreateAccessKey(a) \/ AllowKey(a) \/ UndoKey(a)
    BY <2>7 DEF ListKeys, PurgeKey, CreateAccessKey, AllowKey, UndoKey, StoreStep
  <2>8. CASE Cleanup(a) \/ Abandon(a)
    BY <2>8 DEF Cleanup, Abandon, StoreStep
  <2> QED BY <1>2, <2>1, <2>2, <2>3, <2>4, <2>5, <2>6, <2>7, <2>8 DEF Step
<1>3. ASSUME NEW k \in Keys, ExpireLease(k)
      PROVE  StoreStep
  BY <1>3 DEF ExpireLease, StoreStep
<1>4. ASSUME NEW p \in Attempts, S3Client(p)
      PROVE  StoreStep
  BY <1>4 DEF S3Client, StoreStep
<1> QED BY <1>1, <1>2, <1>3, <1>4 DEF Next

\* The tables stay well formed.
LEMMA StoreStepInv ==
  ASSUME StoreInv, StoreStep
  PROVE  StoreInv'
<1>1. CASE UNCHANGED storeVars
  BY <1>1 DEF StoreInv, StoreTypeOK, BucketRowPresent, storeVars
<1>2. ASSUME NEW r \in Requests, NEW a \in Attempts,
             \/ PrepareExecute(r, a) \/ RenewOperation(r, a) \/ FailOperation(r, a)
             \/ CompleteDelete(r, a) \/ CompleteRevoke(r, a)
             \/ \E p \in Attempts : CompleteReconcile(r, a, p)
             \/ \E c \in Keys \cup {None} : CompleteCreate(r, a, c)
      PROVE  StoreInv'
  BY <1>2, PrepareExecuteInv, RenewOperationInv, FailOperationInv, CompleteDeleteInv,
     CompleteRevokeInv, CompleteReconcileInv, CompleteCreateInv
<1>3. ASSUME NEW k \in Keys, LeaseExpires(k)
      PROVE  StoreInv'
  BY <1>3, LeaseExpiresInv
<1> QED BY <1>1, <1>2, <1>3 DEF StoreStep

-----------------------------------------------------------------------------
(* Steps of Next, seen from the receipts *)

\* An operation is begun or taken over: no other key has one on the service.
BeginsReceipt(r, a) ==
  /\ ClaimNew(r) \/ ClaimTakeOver(r)
  /\ ~ParallelOperation(r.key, r.svc)
  /\ receipts' = [receipts EXCEPT ![r.key] =
       [req |-> r, op |-> a, state |-> "in_progress", expired |-> FALSE, resp |-> None]]

\* A lease runs out or is renewed.
LeasesReceipt(k, x) ==
  InProgress(k) /\ receipts' = [receipts EXCEPT ![k].expired = x]

\* The owner of an operation ends it.
EndsReceipt(r, a, failed) == Owns(r, a) /\ FinishReceipt(r, a, failed)

ReceiptStep ==
  \/ receipts' = receipts
  \/ \E r \in Requests, a \in Attempts : BeginsReceipt(r, a)
  \/ \E k \in Keys, x \in BOOLEAN : LeasesReceipt(k, x)
  \/ \E r \in Requests, a \in Attempts, failed \in BOOLEAN : EndsReceipt(r, a, failed)

\* reject_parallel_operation guards all four prepares.
LEMMA AcceptNotParallel ==
  ASSUME NEW r \in Requests, Accept(r)
  PROVE  ~ParallelOperation(r.key, r.svc)
<1>1. r.action \in Actions
  BY RequestFields
<1> QED
  BY <1>1 DEF Accept, AcceptReconcile, AcceptDelete, AcceptCreate, AcceptRevoke, Actions

\* Every transaction does one of the three to the receipts, or nothing.
LEMMA StoreReceiptStep ==
  ASSUME StoreStep
  PROVE  ReceiptStep
<1>1. CASE UNCHANGED storeVars
  BY <1>1 DEF storeVars, ReceiptStep
<1>2. ASSUME NEW r \in Requests, NEW a \in Attempts, PrepareExecute(r, a)
      PROVE  ReceiptStep
  BY <1>2, AcceptNotParallel DEF PrepareExecute, TakeLease, BeginsReceipt, ReceiptStep
<1>3. ASSUME NEW r \in Requests, NEW a \in Attempts, RenewOperation(r, a)
      PROVE  ReceiptStep
  <2>1. LeasesReceipt(r.key, FALSE) /\ r.key \in Keys
    BY <1>3, RequestFields DEF RenewOperation, Owns, Matches, InProgress, LeasesReceipt
  <2> QED BY <2>1 DEF ReceiptStep
<1>4. ASSUME NEW r \in Requests, NEW a \in Attempts,
             \/ FailOperation(r, a) \/ CompleteDelete(r, a) \/ CompleteRevoke(r, a)
             \/ \E p \in Attempts : CompleteReconcile(r, a, p)
             \/ \E c \in Keys \cup {None} : CompleteCreate(r, a, c)
      PROVE  ReceiptStep
  <2>1. EndsReceipt(r, a, TRUE) \/ EndsReceipt(r, a, FALSE)
    BY <1>4 DEF FailOperation, CompleteDelete, CompleteRevoke, CompleteReconcile,
                CompleteCreate, EndsReceipt
  <2> QED BY <2>1 DEF ReceiptStep
<1>5. ASSUME NEW k \in Keys, LeaseExpires(k)
      PROVE  ReceiptStep
  BY <1>5 DEF LeaseExpires, LeasesReceipt, ReceiptStep
<1> QED BY <1>1, <1>2, <1>3, <1>4, <1>5 DEF StoreStep

\* An unfinished receipt has no response, a finished one has the response of
\* its operation.
ReceiptShape ==
  /\ \A k \in Keys : InProgress(k) => receipts[k].resp = None
  /\ ReceiptDecodes

LEMMA ReceiptShapeStep ==
  ASSUME StoreTypeOK, ReceiptShape, ReceiptStep
  PROVE  ReceiptShape'
<1>1. CASE receipts' = receipts
  BY <1>1 DEF ReceiptShape, ReceiptDecodes, InProgress, Finished
<1>2. ASSUME NEW r \in Requests, NEW a \in Attempts, BeginsReceipt(r, a)
      PROVE  ReceiptShape'
  BY <1>2 DEF BeginsReceipt, ReceiptShape, ReceiptDecodes, InProgress, Finished, StoreTypeOK
<1>3. ASSUME NEW k \in Keys, NEW x \in BOOLEAN, LeasesReceipt(k, x)
      PROVE  ReceiptShape'
  <2>1. receipts[k] \in Receipt /\ receipts[k].state = "in_progress"
    BY <1>3 DEF LeasesReceipt, InProgress, StoreTypeOK
  <2>2. /\ receipts'[k].state = "in_progress" /\ receipts'[k].resp = receipts[k].resp
        /\ \A j \in Keys \ {k} : receipts'[j] = receipts[j]
    BY <1>3, <2>1 DEF LeasesReceipt, StoreTypeOK, Receipt
  <2> QED
    BY <1>3, <2>1, <2>2 DEF ReceiptShape, ReceiptDecodes, InProgress, Finished, LeasesReceipt
<1>4. ASSUME NEW r \in Requests, NEW a \in Attempts, NEW failed \in BOOLEAN,
             EndsReceipt(r, a, failed)
      PROVE  ReceiptShape'
  <2>0. r.key \in Keys
    BY RequestFields
  <2>1. receipts[r.key] \in Receipt /\ receipts[r.key].op = a
    BY <1>4, <2>0 DEF EndsReceipt, Owns, Matches, StoreTypeOK
  <2>2. /\ receipts'[r.key].state = IF failed THEN "failed" ELSE "succeeded"
        /\ receipts'[r.key].op = a
        /\ receipts'[r.key].resp = [by |-> a, failed |-> failed]
        /\ \A j \in Keys \ {r.key} : receipts'[j] = receipts[j]
    BY <1>4, <2>0, <2>1 DEF EndsReceipt, FinishReceipt, StoreTypeOK, Receipt
  <2>3. receipts'[r.key].state # "in_progress"
        /\ failed = (receipts'[r.key].state = "failed")
    BY <2>2
  <2> QED BY <2>0, <2>2, <2>3 DEF ReceiptShape, ReceiptDecodes, InProgress, Finished
<1> QED BY <1>1, <1>2, <1>3, <1>4 DEF ReceiptStep

-----------------------------------------------------------------------------
(* Steps of Next, seen from Garage *)

\* Every request of the admin client that has an effect, and the S3 clients'.
GarageStep ==
  \/ UNCHANGED garageVars
  \/ \E p \in Attempts, b \in BucketNames : CreateBucket(p, b)
  \/ \E p \in Attempts, q \in Quotas : UpdateBucketQuotas(p, q)
  \/ \E p \in Attempts : DeleteBucket(p) \/ ClientWrites(p)
  \/ \E g \in Attempts, n \in Keys : CreateKey(g, n)
  \/ \E g \in Attempts : DeleteKey(g)
  \/ \E p \in Attempts, g \in Attempts : AllowBucketKey(p, g)

\* What a step of the system does to Garage.
LEMMA NextGarageStep ==
  ASSUME HandlerTypeOK, [Next]_vars
  PROVE  GarageStep
<1>1. CASE UNCHANGED vars
  BY <1>1 DEF vars, garageVars, GarageStep
<1>2. ASSUME NEW a \in Attempts, Step(a) \/ Abandon(a)
      PROVE  GarageStep
  <2>0. ctx[a] \in Context /\ ctx[a].bucket \in Attempts \cup {None}
        /\ ctx[a].cred \in Keys \cup {None} /\ ctx[a].keys \subseteq Attempts
    BY DEF HandlerTypeOK, Context
  <2>1. ASSUME pc[a] \notin {"idle", "done"}
        PROVE  /\ req[a] \in Requests /\ pc[a] \in StepsOf(req[a].action)
               /\ req[a].bucket \in BucketNames /\ req[a].quota \in Quotas
               /\ req[a].action \in Actions
    BY <2>1, RequestFields DEF HandlerTypeOK
  <2>2. CASE CreateServiceBucket(a)
    <3>1. req[a].bucket \in BucketNames
      BY <2>1, <2>2 DEF CreateServiceBucket
    <3> QED BY <2>2, <3>1 DEF CreateServiceBucket, GarageFails, GarageStep
  <2>3. CASE UpdateQuotas(a)
    <3>1. req[a].quota \in Quotas /\ ctx[a].bucket \in Attempts
      BY <2>0, <2>1, <2>3 DEF UpdateQuotas, HandlerTypeOK
    <3> QED BY <2>3, <3>1 DEF UpdateQuotas, GarageFails, GarageStep
  <2>4. CASE RevokeKey(a) \/ PurgeKey(a)
    BY <2>4, <2>0 DEF RevokeKey, PurgeKey, GarageFails, GarageStep
  <2>5. CASE DeleteServiceBucket(a)
    <3>1. req[a].action = "delete"
      BY <2>1, <2>5 DEF DeleteServiceBucket, StepsOf, Actions
    <3>2. ctx[a].bucket \in Attempts
      BY <2>0, <2>5, <3>1 DEF DeleteServiceBucket, HandlerTypeOK
    <3> QED BY <2>5, <3>2 DEF DeleteServiceBucket, GarageFails, GarageStep
  <2>6. CASE CreateAccessKey(a)
    <3>1. req[a].action = "create"
      BY <2>1, <2>6 DEF CreateAccessKey, StepsOf, Actions
    <3>2. ctx[a].cred \in Keys
      BY <2>0, <2>6, <3>1 DEF CreateAccessKey, HandlerTypeOK
    <3> QED BY <2>6, <3>2 DEF CreateAccessKey, GarageFails, GarageStep
  <2>7. CASE AllowKey(a)
    <3>1. req[a].action = "create"
      BY <2>1, <2>7 DEF AllowKey, StepsOf, Actions
    <3>2. ctx[a].bucket \in Attempts
      BY <2>0, <2>7, <3>1 DEF AllowKey, HandlerTypeOK
    <3> QED BY <2>7, <3>2 DEF AllowKey, GarageStep
  <2>8. CASE UndoKey(a) \/ Cleanup(a)
    BY <2>8 DEF UndoKey, Cleanup, GarageStep
  <2>9. CASE Prepare(a) \/ Renew(a) \/ Complete(a) \/ Fail(a) \/ Abandon(a)
    BY <2>9 DEF Prepare, Renew, Complete, Fail, Abandon, GarageStep
  <2>10. CASE LookupBucket(a) \/ CheckUsage(a) \/ ListKeys(a)
    BY <2>10 DEF LookupBucket, CheckUsage, ListKeys, GarageStep
  <2> QED BY <1>2, <2>2, <2>3, <2>4, <2>5, <2>6, <2>7, <2>8, <2>9, <2>10 DEF Step
<1>3. ASSUME NEW k \in Keys, ExpireLease(k)
      PROVE  GarageStep
  BY <1>3 DEF ExpireLease, GarageStep
<1>4. ASSUME NEW p \in Attempts, S3Client(p)
      PROVE  GarageStep
  BY <1>4 DEF S3Client, GarageStep
<1> QED BY <1>1, <1>2, <1>3, <1>4 DEF Next

\* Garage's objects stay well formed.
LEMMA GarageStepTyped ==
  ASSUME GarageTypeOK, GarageStep
  PROVE  GarageTypeOK'
<1>1. CASE UNCHANGED garageVars
  BY <1>1 DEF garageVars, GarageTypeOK
<1>2. ASSUME NEW p \in Attempts, NEW b \in BucketNames, CreateBucket(p, b)
      PROVE  GarageTypeOK'
  BY <1>2 DEF CreateBucket, GarageTypeOK, GBucket
<1>3. ASSUME NEW p \in Attempts, NEW q \in Quotas, UpdateBucketQuotas(p, q)
      PROVE  GarageTypeOK'
  <2>1. gBuckets[p] \in GBucket
    BY <1>3 DEF UpdateBucketQuotas, BucketExists, GarageTypeOK
  <2>2. [gBuckets[p] EXCEPT !.quota = q] \in GBucket
    BY <2>1 DEF GBucket
  <2> QED BY <1>3, <2>2 DEF UpdateBucketQuotas, GarageTypeOK
<1>4. ASSUME NEW p \in Attempts, DeleteBucket(p)
      PROVE  GarageTypeOK'
  BY <1>4 DEF DeleteBucket, GarageTypeOK
<1>5. ASSUME NEW p \in Attempts, ClientWrites(p)
      PROVE  GarageTypeOK'
  <2>1. gBuckets[p] \in GBucket
    BY <1>5 DEF ClientWrites, BucketExists, GarageTypeOK
  <2> DEFINE toggled == ~gBuckets[p].full
  <2>2. toggled \in BOOLEAN
    OBVIOUS
  <2>3. gBuckets' = [gBuckets EXCEPT ![p] = [gBuckets[p] EXCEPT !.full = toggled]]
    BY <1>5 DEF ClientWrites
  <2> HIDE DEF toggled
  <2>4. [gBuckets[p] EXCEPT !.full = toggled] \in GBucket
    BY <2>1, <2>2 DEF GBucket
  <2> QED BY <1>5, <2>3, <2>4 DEF ClientWrites, GarageTypeOK
<1>6. ASSUME NEW g \in Attempts, NEW n \in Keys, CreateKey(g, n)
      PROVE  GarageTypeOK'
  BY <1>6 DEF CreateKey, GarageTypeOK, GKey
<1>7. ASSUME NEW g \in Attempts, DeleteKey(g)
      PROVE  GarageTypeOK'
  BY <1>7 DEF DeleteKey, GarageTypeOK
<1>8. ASSUME NEW p \in Attempts, NEW g \in Attempts, AllowBucketKey(p, g)
      PROVE  GarageTypeOK'
  <2>1. gKeys[g] \in GKey
    BY <1>8 DEF AllowBucketKey, GarageTypeOK
  <2>2. [gKeys[g] EXCEPT !.bucket = p] \in GKey
    BY <2>1 DEF GKey
  <2> QED BY <1>8, <2>2 DEF AllowBucketKey, GarageTypeOK
<1> QED BY <1>1, <1>2, <1>3, <1>4, <1>5, <1>6, <1>7, <1>8 DEF GarageStep

-----------------------------------------------------------------------------
(* Types: the handlers *)

\* What HandlerTypeOK says of one running attempt that is to be at step, with
\* what it then remembers.
RunsAt(a, step, c) ==
  /\ c \in Context
  /\ step \in StepsOf(req[a].action) /\ step \in Steps \ {"idle", "done"}
  /\ req[a].action \in {"delete", "create"} => c.bucket # None
  /\ req[a].action = "create" => c.cred # None
  /\ step = "updateQuotas" \/ (step = "complete" /\ req[a].action = "reconcile")
       => c.bucket # None

Running(a) == pc[a] \notin {"idle", "done"}

\* The steps of every handler are steps.
LEMMA StepsOfAreSteps ==
  ASSUME NEW action \in Actions
  PROVE  StepsOf(action) \subseteq Steps \ {"idle", "done"}
BY DEF StepsOf, Steps, Actions

\* A running attempt is where RunsAt says.
LEMMA RunningRunsAt ==
  ASSUME HandlerTypeOK, NEW a \in Attempts, Running(a)
  PROVE  RunsAt(a, pc[a], ctx[a]) /\ req[a] \in Requests /\ req[a].action \in Actions
<1>1. req[a] \in Requests /\ req[a].action \in Actions
  BY RequestFields DEF HandlerTypeOK, Running
<1> QED BY <1>1, StepsOfAreSteps DEF HandlerTypeOK, Running, RunsAt

LEMMA RememberTyped ==
  ASSUME HandlerTypeOK, NEW a \in Attempts, NEW step, NEW c, Running(a),
         RunsAt(a, step, c), Remember(a, step, c)
  PROVE  HandlerTypeOK'
BY DEF HandlerTypeOK, Running, RunsAt, Remember

LEMMA GotoTyped ==
  ASSUME HandlerTypeOK, NEW a \in Attempts, NEW step, Running(a),
         RunsAt(a, step, ctx[a]), Goto(a, step)
  PROVE  HandlerTypeOK'
BY DEF HandlerTypeOK, Running, RunsAt, Goto

LEMMA ReturnTyped ==
  ASSUME HandlerTypeOK, NEW a \in Attempts, NEW answer \in Replies, Running(a),
         answer.kind = "final" => answer.resp # None, Return(a, answer)
  PROVE  HandlerTypeOK'
<1>1. NoContext \in Context
  BY DEF NoContext, Context
<1> QED BY <1>1 DEF HandlerTypeOK, Running, Return, Steps

\* The answers the handlers give.
LEMMA AnswersTyped ==
  /\ \A kind \in {"none", "busy", "error"} : Plain(kind) \in Replies
  /\ \A a \in Attempts, failed \in BOOLEAN :
       Final([by |-> a, failed |-> failed]) \in Replies
  /\ \A resp \in Response : resp # None
BY NoRowAssumption DEF Plain, Final, Replies, Response

\* Every handler may fail, may be fenced off, and may stop.
LEMMA FailRunsAt ==
  ASSUME HandlerTypeOK, NEW a \in Attempts, Running(a)
  PROVE  RunsAt(a, "fail", ctx[a])
BY RunningRunsAt DEF RunsAt, StepsOf, Steps, Actions

LEMMA NotOwnerTyped ==
  ASSUME HandlerTypeOK, NEW a \in Attempts, Running(a), NotOwner(a)
  PROVE  HandlerTypeOK'
<1>1. Plain("busy").kind # "final" /\ Plain("error").kind # "final"
  BY DEF Plain
<1> QED BY <1>1, AnswersTyped, ReturnTyped DEF NotOwner

\* Renewal, and the requests to Garage.
LEMMA RenewTyped ==
  ASSUME HandlerTypeOK, NEW a \in Attempts, Renew(a)
  PROVE  HandlerTypeOK'
<1>0. Running(a)
  BY DEF Renew, Running
<1>1. CASE NotOwner(a)
  BY <1>0, <1>1, NotOwnerTyped
<1>2. CASE Goto(a, AfterRenew(a))
  <2>1. RunsAt(a, pc[a], ctx[a]) /\ req[a].action \in Actions
    BY <1>0, RunningRunsAt
  <2>2. pc[a] = "renewKey" => req[a].action = "delete"
    BY <2>1 DEF RunsAt, StepsOf, Actions
  <2>3. RunsAt(a, AfterRenew(a), ctx[a])
    BY <2>1, <2>2 DEF RunsAt, AfterRenew, StepsOf, Steps, Actions
  <2> QED BY <1>0, <1>2, <2>3, GotoTyped
<1> QED BY <1>1, <1>2 DEF Renew

LEMMA ReconcileBucketTyped ==
  ASSUME HandlerTypeOK, NEW a \in Attempts,
         LookupBucket(a) \/ CreateServiceBucket(a) \/ UpdateQuotas(a)
  PROVE  HandlerTypeOK'
<1>0. Running(a)
  BY DEF LookupBucket, CreateServiceBucket, UpdateQuotas, Running
<1>1. /\ ctx[a] \in Context /\ req[a].action = "reconcile"
      /\ RunsAt(a, "fail", ctx[a]) /\ RunsAt(a, pc[a], ctx[a])
  BY <1>0, FailRunsAt, RunningRunsAt
     DEF LookupBucket, CreateServiceBucket, UpdateQuotas, RunsAt, StepsOf, Actions
<1>2. ASSUME NEW p \in Attempts
      PROVE  RunsAt(a, "updateQuotas", [ctx[a] EXCEPT !.bucket = p])
  <2>1. /\ [ctx[a] EXCEPT !.bucket = p] \in Context
        /\ [ctx[a] EXCEPT !.bucket = p].bucket = p
    BY <1>1 DEF Context
  <2> QED BY <1>1, <2>1, NoneAssumption DEF RunsAt, StepsOf, Steps
<1>3. CASE LookupBucket(a)
  <2>1. ASSUME ctx[a].bucket # None
        PROVE  RunsAt(a, "updateQuotas", ctx[a])
    BY <1>1, <2>1 DEF RunsAt, StepsOf, Steps
  <2>2. RunsAt(a, "createBucket", ctx[a])
    BY <1>1 DEF RunsAt, StepsOf, Steps
  <2> QED
    BY <1>0, <1>1, <1>2, <1>3, <2>1, <2>2, GotoTyped, RememberTyped
       DEF LookupBucket, BucketsWithAlias
<1>4. CASE CreateServiceBucket(a)
  BY <1>0, <1>1, <1>2, <1>4, GotoTyped, RememberTyped DEF CreateServiceBucket, GarageFails
<1>5. CASE UpdateQuotas(a)
  <2>1. RunsAt(a, "complete", ctx[a])
    BY <1>1, <1>5 DEF UpdateQuotas, RunsAt, StepsOf, Steps
  <2> QED BY <1>0, <1>1, <1>5, <2>1, GotoTyped DEF UpdateQuotas, GarageFails
<1> QED BY <1>3, <1>4, <1>5

\* Deletion and revocation.
LEMMA DeletionTyped ==
  ASSUME HandlerTypeOK, NEW a \in Attempts,
         CheckUsage(a) \/ RevokeKey(a) \/ DeleteServiceBucket(a)
  PROVE  HandlerTypeOK'
<1>0. Running(a)
  BY DEF CheckUsage, RevokeKey, DeleteServiceBucket, Running
<1>1. /\ ctx[a] \in Context /\ req[a].action \in {"delete", "revoke"}
      /\ RunsAt(a, "fail", ctx[a]) /\ RunsAt(a, pc[a], ctx[a])
  BY <1>0, FailRunsAt, RunningRunsAt
     DEF CheckUsage, RevokeKey, DeleteServiceBucket, RunsAt, StepsOf, Actions
<1>2. CASE CheckUsage(a)
  <2>1. RunsAt(a, "renewKey", ctx[a])
    BY <1>1, <1>2 DEF CheckUsage, RunsAt, StepsOf, Steps
  <2> QED BY <1>0, <1>1, <1>2, <2>1, GotoTyped DEF CheckUsage
<1>3. CASE RevokeKey(a)
  <2> DEFINE next == IF req[a].action = "delete" THEN "renewKey" ELSE "complete"
  <2>1. ASSUME NEW g \in ctx[a].keys
        PROVE  RunsAt(a, next, [ctx[a] EXCEPT !.keys = @ \ {g}])
    <3>1. /\ [ctx[a] EXCEPT !.keys = @ \ {g}] \in Context
          /\ [ctx[a] EXCEPT !.keys = @ \ {g}].bucket = ctx[a].bucket
      BY <1>1 DEF Context
    <3> QED BY <1>1, <1>3, <3>1 DEF RevokeKey, RunsAt, StepsOf, Steps
  <2> QED
    BY <1>0, <1>1, <1>3, <2>1, GotoTyped, RememberTyped DEF RevokeKey, GarageFails
<1>4. CASE DeleteServiceBucket(a)
  <2>1. RunsAt(a, "complete", ctx[a])
    BY <1>1, <1>4 DEF DeleteServiceBucket, RunsAt, StepsOf, Steps
  <2> QED BY <1>0, <1>1, <1>4, <2>1, GotoTyped DEF DeleteServiceBucket, GarageFails
<1> QED BY <1>2, <1>3, <1>4

\* The creation of a key.
LEMMA CreationTyped ==
  ASSUME HandlerTypeOK, NEW a \in Attempts,
         ListKeys(a) \/ PurgeKey(a) \/ CreateAccessKey(a) \/ AllowKey(a) \/ UndoKey(a)
  PROVE  HandlerTypeOK'
<1>0. Running(a)
  BY DEF ListKeys, PurgeKey, CreateAccessKey, AllowKey, UndoKey, Running
<1>1. /\ ctx[a] \in Context /\ req[a].action = "create"
      /\ RunsAt(a, "fail", ctx[a]) /\ RunsAt(a, pc[a], ctx[a])
  BY <1>0, FailRunsAt, RunningRunsAt
     DEF ListKeys, PurgeKey, CreateAccessKey, AllowKey, UndoKey, RunsAt, StepsOf, Actions
<1>2. ASSUME NEW found \in SUBSET Attempts, NEW left \in SUBSET Attempts
      PROVE  RunsAt(a, PurgeNext(left), [ctx[a] EXCEPT !.keys = found])
  <2>1. /\ [ctx[a] EXCEPT !.keys = found] \in Context
        /\ [ctx[a] EXCEPT !.keys = found].bucket = ctx[a].bucket
        /\ [ctx[a] EXCEPT !.keys = found].cred = ctx[a].cred
    BY <1>1 DEF Context
  <2> QED BY <1>1, <2>1 DEF RunsAt, PurgeNext, StepsOf, Steps
<1>3. \A step \in {"allowKey", "undoKey", "complete"} : RunsAt(a, step, ctx[a])
  BY <1>1 DEF RunsAt, StepsOf, Steps
<1>4. CASE ListKeys(a)
  <2>1. KeysNamed(ctx[a].cred) \in SUBSET Attempts
    BY DEF KeysNamed
  <2> QED BY <1>0, <1>1, <1>2, <1>4, <2>1, GotoTyped, RememberTyped DEF ListKeys
<1>5. CASE PurgeKey(a)
  <2>1. ASSUME NEW g \in ctx[a].keys
        PROVE  ctx[a].keys \ {g} \in SUBSET Attempts
    BY <1>1 DEF Context
  <2> QED
    BY <1>0, <1>1, <1>2, <1>5, <2>1, GotoTyped, RememberTyped DEF PurgeKey, GarageFails
<1>6. CASE CreateAccessKey(a)
  BY <1>0, <1>1, <1>3, <1>6, GotoTyped DEF CreateAccessKey, GarageFails
<1>7. CASE AllowKey(a)
  BY <1>0, <1>3, <1>7, GotoTyped DEF AllowKey
<1>8. CASE UndoKey(a)
  BY <1>0, <1>1, <1>8, GotoTyped DEF UndoKey
<1> QED BY <1>4, <1>5, <1>6, <1>7, <1>8

\* The end of a handler.
LEMMA EndTyped ==
  ASSUME HandlerTypeOK, NEW a \in Attempts,
         Complete(a) \/ Cleanup(a) \/ Fail(a) \/ Abandon(a)
  PROVE  HandlerTypeOK'
<1>0. Running(a)
  BY DEF Complete, Cleanup, Fail, Abandon, Running
<1>1. \A kind \in {"none", "busy", "error"} : Return(a, Plain(kind)) => HandlerTypeOK'
  <2> SUFFICES ASSUME NEW kind \in {"none", "busy", "error"}, Return(a, Plain(kind))
               PROVE  HandlerTypeOK'
    OBVIOUS
  <2>1. Plain(kind).kind # "final"
    BY DEF Plain
  <2> QED BY <1>0, <2>1, AnswersTyped, ReturnTyped
<1>2. \A failed \in BOOLEAN :
        Return(a, Final([by |-> a, failed |-> failed])) => HandlerTypeOK'
  <2> SUFFICES ASSUME NEW failed \in BOOLEAN, Return(a, Final([by |-> a, failed |-> failed]))
               PROVE  HandlerTypeOK'
    OBVIOUS
  <2>1. Final([by |-> a, failed |-> failed]).resp # None
    BY AnswersTyped DEF Final, Response
  <2> QED BY <1>0, <2>1, AnswersTyped, ReturnTyped
<1>3. CASE Complete(a)
  <2>1. ASSUME req[a].action = "create"
        PROVE  RunsAt(a, "cleanup", ctx[a])
    <3>1. RunsAt(a, pc[a], ctx[a])
      BY <1>0, RunningRunsAt
    <3> QED BY <2>1, <3>1 DEF RunsAt, StepsOf, Steps
  <2> QED BY <1>0, <1>1, <1>2, <1>3, <2>1, NotOwnerTyped, GotoTyped DEF Complete
<1>4. CASE Cleanup(a) \/ Abandon(a)
  BY <1>1, <1>4 DEF Cleanup, Abandon
<1>5. CASE Fail(a)
  BY <1>0, <1>1, <1>2, <1>5, NotOwnerTyped DEF Fail
<1> QED BY <1>3, <1>4, <1>5

\* An accepted operation on an existing service finds its bucket row.
LEMMA ContextOfAccepted ==
  ASSUME StoreInv, NEW r \in Requests, Accept(r), ClaimNew(r) \/ ClaimTakeOver(r)
  PROVE  /\ ExecuteContext(r) \in Context
         /\ r.action \in {"delete", "create"} => ExecuteContext(r).bucket # None
         /\ r.action = "create" => ExecuteContext(r).cred # None
         /\ r.action = "reconcile" /\ ExecuteContext(r).prior
              => ExecuteContext(r).bucket # None
<1> USE DEF StoreInv
<1>0. /\ r.key \in Keys /\ r.svc \in Services /\ r.cred \in Keys /\ r.action \in Actions
  BY RequestFields
<1>1. ASSUME services[r.svc] # None
      PROVE  buckets[r.svc].phys \in Attempts /\ buckets[r.svc].phys # None
  <2>1. buckets[r.svc] \in BucketRow
    BY <1>0, <1>1 DEF BucketRowPresent, StoreTypeOK
  <2> QED BY <2>1, NoneAssumption DEF BucketRow
<1>2. NoContext \in Context
  BY DEF NoContext, Context
<1>3. CASE r.action = "reconcile"
  <2> DEFINE b == IF services[r.svc] = None THEN None ELSE buckets[r.svc].phys
             prior == services[r.svc] # None /\ r.gen = services[r.svc].gen
  <2>1. ExecuteContext(r) = [NoContext EXCEPT !.bucket = b, !.prior = prior]
    BY <1>3 DEF ExecuteContext
  <2>2. b \in Attempts \cup {None} /\ prior \in BOOLEAN /\ (prior => b # None)
    BY <1>1
  <2> HIDE DEF b, prior
  <2> QED BY <1>3, <2>1, <2>2 DEF NoContext, Context
<1>4. CASE r.action = "delete"
  <2> DEFINE gkeys == {creds[c].gkey : c \in ActiveOf(r.svc)}
  <2>1. services[r.svc] # None
    BY <1>4 DEF Accept, AcceptDelete
  <2>2. gkeys \subseteq Attempts
    BY DEF ActiveOf, StoreTypeOK, CredentialRow
  <2>3. ExecuteContext(r) = [NoContext EXCEPT !.bucket = buckets[r.svc].phys, !.keys = gkeys]
    BY <1>4 DEF ExecuteContext
  <2> HIDE DEF gkeys
  <2> QED BY <1>1, <1>4, <2>1, <2>2, <2>3 DEF NoContext, Context
<1>5. CASE r.action = "create"
  <2> DEFINE c == IF ClaimNew(r) THEN r.key ELSE CHOOSE c \in Keys : ReservationFor(r, c)
  <2>1. services[r.svc] # None
    BY <1>5 DEF Accept, AcceptCreate, ReadyBucket
  <2>2. c \in Keys
    BY <1>0, <1>5 DEF Accept, AcceptCreate
  <2>3. ExecuteContext(r) = [NoContext EXCEPT !.bucket = buckets[r.svc].phys, !.cred = c]
    BY <1>5 DEF ExecuteContext
  <2> HIDE DEF c
  <2>4. c # None
    BY <2>2, NoneAssumption
  <2> QED BY <1>1, <1>5, <2>1, <2>2, <2>3, <2>4 DEF NoContext, Context
<1>6. CASE r.action = "revoke"
  <2> DEFINE revoked == creds[r.cred].status = "revoked"
  <2>1. creds[r.cred] \in CredentialRow
    BY <1>0, <1>6 DEF Accept, AcceptRevoke, StoreTypeOK
  <2>2. creds[r.cred].gkey \in Attempts /\ revoked \in BOOLEAN
    BY <2>1 DEF CredentialRow
  <2>3. ExecuteContext(r) = [NoContext EXCEPT !.prior = revoked, !.keys = {creds[r.cred].gkey}]
    BY <1>6 DEF ExecuteContext
  <2> HIDE DEF revoked
  <2> QED BY <1>6, <2>2, <2>3 DEF NoContext, Context
<1> QED BY <1>0, <1>3, <1>4, <1>5, <1>6 DEF Actions

\* The arrival of a request.
LEMMA PrepareTyped ==
  ASSUME StoreInv, ReceiptShape, HandlerTypeOK, NEW a \in Attempts, Prepare(a)
  PROVE  HandlerTypeOK'
<1>1. PICK r \in Requests :
        /\ req' = [req EXCEPT ![a] = r]
        /\ \/ /\ PrepareExecute(r, a)
              /\ ctx' = [ctx EXCEPT ![a] = ExecuteContext(r)]
              /\ pc' = [pc EXCEPT ![a] = FirstStep(ExecuteContext(r), r)]
              /\ UNCHANGED reply
           \/ /\ \/ /\ PrepareReplay(r)
                    /\ reply' = [reply EXCEPT ![a] = Final(receipts[r.key].resp)]
                 \/ PrepareBusy(r) /\ reply' = [reply EXCEPT ![a] = Plain("busy")]
                 \/ PrepareRejected(r) /\ reply' = [reply EXCEPT ![a] = Plain("error")]
              /\ pc' = [pc EXCEPT ![a] = "done"]
              /\ UNCHANGED <<ctx, storeVars>>
  BY DEF Prepare
<1>2. pc[a] = "idle" /\ r.key \in Keys /\ r.action \in Actions
  BY RequestFields DEF Prepare
<1>3. CASE /\ PrepareExecute(r, a)
           /\ ctx' = [ctx EXCEPT ![a] = ExecuteContext(r)]
           /\ pc' = [pc EXCEPT ![a] = FirstStep(ExecuteContext(r), r)]
           /\ UNCHANGED reply
  <2> DEFINE c == ExecuteContext(r)
             first == FirstStep(c, r)
  <2>1. /\ c \in Context
        /\ r.action \in {"delete", "create"} => c.bucket # None
        /\ r.action = "create" => c.cred # None
        /\ r.action = "reconcile" /\ c.prior => c.bucket # None
    BY <1>3, ContextOfAccepted DEF PrepareExecute
  <2>2. /\ first \in {"complete", "renew"}
        /\ first = "complete" => r.action = "reconcile" /\ c.prior
    BY DEF FirstStep
  <2>3. first \in StepsOf(r.action) /\ first \in Steps
    BY <2>2 DEF StepsOf, Steps
  <2>4. /\ ctx' = [ctx EXCEPT ![a] = c] /\ pc' = [pc EXCEPT ![a] = first]
        /\ reply' = reply
    BY <1>3
  <2> HIDE DEF c, first
  <2> QED BY <1>1, <1>2, <2>1, <2>2, <2>3, <2>4 DEF HandlerTypeOK
<1>4. CASE /\ \E answer \in Replies :
                /\ answer.kind = "final" => answer.resp # None
                /\ reply' = [reply EXCEPT ![a] = answer]
           /\ pc' = [pc EXCEPT ![a] = "done"]
           /\ ctx' = ctx
  BY <1>1, <1>2, <1>4 DEF HandlerTypeOK, Steps
<1>5. ASSUME PrepareReplay(r)
      PROVE  Final(receipts[r.key].resp) \in Replies /\ receipts[r.key].resp # None
  <2>1. Finished(r.key) /\ receipts[r.key] \in Receipt
    BY <1>2, <1>5 DEF PrepareReplay, Matches, StoreInv, StoreTypeOK
  <2>2. /\ receipts[r.key].resp
             = [by |-> receipts[r.key].op, failed |-> receipts[r.key].state = "failed"]
        /\ receipts[r.key].op \in Attempts
    BY <1>2, <2>1 DEF ReceiptShape, ReceiptDecodes, Receipt
  <2>3. receipts[r.key].resp \in Response
    BY <2>2 DEF Response
  <2> QED BY <2>3, AnswersTyped DEF Final, Replies
<1>6. Plain("busy").kind # "final" /\ Plain("error").kind # "final"
      /\ Final(receipts[r.key].resp).resp = receipts[r.key].resp
  BY DEF Plain, Final
<1> QED BY <1>1, <1>3, <1>4, <1>5, <1>6, AnswersTyped

-----------------------------------------------------------------------------
(* Type correctness *)

\* The inductive invariant: types, the bucket row that a prepare reads
\* without looking, and the response that a replay reads without looking.
TypeInv == StoreInv /\ ReceiptShape /\ GarageTypeOK /\ HandlerTypeOK

LEMMA TypeInvInit ==
  ASSUME Init
  PROVE  TypeInv
<1>1. StoreInv /\ ReceiptShape
  BY DEF Init, StoreInit, StoreInv, StoreTypeOK, BucketRowPresent, ReceiptShape,
         ReceiptDecodes, InProgress, Finished
<1>2. GarageTypeOK
  BY DEF Init, GarageInit, GarageTypeOK
<1>3. HandlerTypeOK
  <2>1. NoContext \in Context /\ Plain("none") \in Replies
        /\ Plain("none").kind = "none" /\ "idle" \in Steps
    BY AnswersTyped DEF NoContext, Context, Plain, Steps
  <2> QED BY <2>1 DEF Init, HandlerTypeOK
<1> QED BY <1>1, <1>2, <1>3 DEF TypeInv

LEMMA TypeInvNext ==
  ASSUME TypeInv, [Next]_vars
  PROVE  TypeInv'
<1> USE DEF TypeInv
<1>1. StoreStep /\ ReceiptStep /\ GarageStep
  BY NextStoreStep, StoreReceiptStep, NextGarageStep
<1>2. StoreInv'
  BY <1>1, StoreStepInv
<1>3. ReceiptShape'
  BY <1>1, ReceiptShapeStep DEF StoreInv
<1>4. GarageTypeOK'
  BY <1>1, GarageStepTyped
<1>5. HandlerTypeOK'
  <2>1. ASSUME NEW a \in Attempts, Step(a) \/ Abandon(a)
        PROVE  HandlerTypeOK'
    BY <2>1, PrepareTyped, RenewTyped, ReconcileBucketTyped, DeletionTyped, CreationTyped,
       EndTyped DEF Step
  <2>2. CASE UNCHANGED handlerVars
    BY <2>2 DEF handlerVars, HandlerTypeOK
  <2>3. UNCHANGED vars => UNCHANGED handlerVars
    BY DEF vars, handlerVars
  <2> QED BY <2>1, <2>2, <2>3 DEF Next, ExpireLease, S3Client
<1> QED BY <1>2, <1>3, <1>4, <1>5

\* Every variable keeps its type, every running handler is at a step of its
\* action and knows the bucket and credential ids that step uses, for any
\* number of attempts, keys and services.
THEOREM TypeCorrect == Spec => []TypeOK
<1>1. TypeInv => TypeOK
  BY DEF TypeInv, StoreInv, TypeOK
<1> QED BY <1>1, TypeInvInit, TypeInvNext, PTL DEF Spec

\* complete_reconcile writes the rows of a service together and nothing
\* removes one: the CorruptData answers are unreachable.
THEOREM BucketRowAlwaysPresent == Spec => []BucketRowPresent
<1>1. TypeInv => BucketRowPresent
  BY DEF TypeInv, StoreInv
<1> QED BY <1>1, TypeInvInit, TypeInvNext, PTL DEF Spec

\* A finished receipt holds the response of the operation id in its row, so
\* decode_receipt can always decrypt it.
THEOREM ReceiptsAlwaysDecode == Spec => []ReceiptDecodes
<1>1. TypeInv => ReceiptDecodes
  BY DEF TypeInv, ReceiptShape
<1> QED BY <1>1, TypeInvInit, TypeInvNext, PTL DEF Spec

-----------------------------------------------------------------------------
(* What a step does to one receipt *)

\* A finished receipt is left alone by whatever happens to receipts.
LEMMA FinishedUnchanged ==
  ASSUME StoreTypeOK, ReceiptStep, NEW k \in Keys, Finished(k)
  PROVE  receipts'[k] = receipts[k]
<1>1. ASSUME NEW r \in Requests, NEW a \in Attempts, BeginsReceipt(r, a)
      PROVE  receipts'[k] = receipts[k]
  <2>1. r.key # k
    BY <1>1 DEF BeginsReceipt, ClaimNew, ClaimTakeOver, InProgress, Finished
  <2> QED BY <1>1, <2>1 DEF BeginsReceipt, StoreTypeOK
<1>2. ASSUME NEW j \in Keys, NEW x \in BOOLEAN, LeasesReceipt(j, x)
      PROVE  receipts'[k] = receipts[k]
  BY <1>2 DEF LeasesReceipt, InProgress, Finished, StoreTypeOK
<1>3. ASSUME NEW r \in Requests, NEW a \in Attempts, NEW failed \in BOOLEAN,
             EndsReceipt(r, a, failed)
      PROVE  receipts'[k] = receipts[k]
  <2>1. r.key # k
    BY <1>3 DEF EndsReceipt, Owns, Finished
  <2> QED BY <1>3, <2>1 DEF EndsReceipt, FinishReceipt, StoreTypeOK
<1> QED BY <1>1, <1>2, <1>3 DEF ReceiptStep

\* An operation that is in progress after a step was in progress before it on
\* the same service, or began in that step without a parallel operation.
LEMMA SingleOperationStep ==
  ASSUME StoreTypeOK, SingleOperation, ReceiptStep
  PROVE  SingleOperation'
<1>1. CASE receipts' = receipts
  BY <1>1 DEF SingleOperation, InProgress
<1>2. ASSUME NEW r \in Requests, NEW a \in Attempts, BeginsReceipt(r, a)
      PROVE  SingleOperation'
  <2>0. r.key \in Keys
    BY RequestFields
  <2>1. /\ receipts'[r.key].req = r
        /\ \A j \in Keys \ {r.key} : receipts'[j] = receipts[j]
    BY <1>2, <2>0 DEF BeginsReceipt, StoreTypeOK
  <2>2. \A j \in Keys \ {r.key} : InProgress(j) => receipts[j].req.svc # r.svc
    BY <1>2 DEF BeginsReceipt, ParallelOperation
  <2> QED BY <2>0, <2>1, <2>2 DEF SingleOperation, InProgress
<1>3. ASSUME NEW k \in Keys, NEW x \in BOOLEAN, LeasesReceipt(k, x)
      PROVE  SingleOperation'
  <2>1. receipts[k] \in Receipt /\ InProgress(k)
    BY <1>3 DEF LeasesReceipt, InProgress, StoreTypeOK
  <2>2. /\ receipts'[k].req = receipts[k].req
        /\ \A j \in Keys \ {k} : receipts'[j] = receipts[j]
    BY <1>3, <2>1 DEF LeasesReceipt, StoreTypeOK, Receipt
  <2> QED BY <2>1, <2>2 DEF SingleOperation, InProgress
<1>4. ASSUME NEW r \in Requests, NEW a \in Attempts, NEW failed \in BOOLEAN,
             EndsReceipt(r, a, failed)
      PROVE  SingleOperation'
  <2>0. r.key \in Keys
    BY RequestFields
  <2>1. receipts[r.key] \in Receipt
    BY <1>4, <2>0 DEF EndsReceipt, Owns, Matches, StoreTypeOK
  <2>2. /\ receipts'[r.key].state = IF failed THEN "failed" ELSE "succeeded"
        /\ \A j \in Keys \ {r.key} : receipts'[j] = receipts[j]
    BY <1>4, <2>0, <2>1 DEF EndsReceipt, FinishReceipt, StoreTypeOK, Receipt
  <2> QED BY <2>0, <2>2 DEF SingleOperation, InProgress
<1> QED BY <1>1, <1>2, <1>3, <1>4 DEF ReceiptStep

-----------------------------------------------------------------------------
(* What clients are told *)

\* A reply changes in one step, from none to the answer of the attempt.
LEMMA FinalReplyStays ==
  ASSUME HandlerTypeOK, [Next]_vars, NEW a \in Attempts, reply[a].kind = "final"
  PROVE  reply'[a] = reply[a] /\ req'[a] = req[a]
<1>0. pc[a] = "done"
  BY DEF HandlerTypeOK
<1>1. ASSUME NEW b \in Attempts, Step(b) \/ Abandon(b)
      PROVE  reply'[a] = reply[a] /\ req'[a] = req[a]
  <2>0. b # a
    BY <1>0, <1>1 DEF Step, Abandon, Prepare, Renew, LookupBucket, CreateServiceBucket,
       UpdateQuotas, CheckUsage, RevokeKey, DeleteServiceBucket, ListKeys, PurgeKey,
       CreateAccessKey, AllowKey, UndoKey, Complete, Cleanup, Fail
  <2>1. CASE Prepare(b)
    BY <2>0, <2>1 DEF Prepare, HandlerTypeOK
  <2>2. ASSUME NEW step, NEW c, NEW answer,
               Goto(b, step) \/ Remember(b, step, c) \/ Return(b, answer)
        PROVE  reply'[a] = reply[a] /\ req'[a] = req[a]
    BY <2>0, <2>2 DEF Goto, Remember, Return, HandlerTypeOK
  <2>3. CASE Renew(b) \/ Complete(b) \/ Cleanup(b) \/ Fail(b) \/ Abandon(b)
    BY <2>2, <2>3 DEF Renew, Complete, Cleanup, Fail, Abandon, NotOwner
  <2>4. CASE LookupBucket(b) \/ CreateServiceBucket(b) \/ UpdateQuotas(b)
    BY <2>2, <2>4 DEF LookupBucket, CreateServiceBucket, UpdateQuotas, GarageFails
  <2>5. CASE CheckUsage(b) \/ RevokeKey(b) \/ DeleteServiceBucket(b)
    BY <2>2, <2>5 DEF CheckUsage, RevokeKey, DeleteServiceBucket, GarageFails
  <2>6. CASE ListKeys(b) \/ PurgeKey(b) \/ CreateAccessKey(b) \/ AllowKey(b) \/ UndoKey(b)
    BY <2>2, <2>6 DEF ListKeys, PurgeKey, CreateAccessKey, AllowKey, UndoKey, GarageFails
  <2> QED BY <1>1, <2>1, <2>3, <2>4, <2>5, <2>6 DEF Step
<1> QED BY <1>1 DEF Next, vars, ExpireLease, S3Client, handlerVars

\* The attempt that finishes a receipt leaves its own response in it.
LEMMA FinishedAnswer ==
  ASSUME StoreTypeOK, NEW r \in Requests, NEW a \in Attempts, NEW failed \in BOOLEAN,
         EndsReceipt(r, a, failed)
  PROVE  /\ receipts'[r.key] # None
         /\ receipts'[r.key].req = r
         /\ receipts'[r.key].resp = [by |-> a, failed |-> failed]
<1>0. r.key \in Keys
  BY RequestFields
<1>1. receipts[r.key] \in Receipt /\ receipts[r.key].req = r
  BY <1>0 DEF EndsReceipt, Owns, Matches, StoreTypeOK
<1> DEFINE row == [receipts[r.key] EXCEPT
          !.state = IF failed THEN "failed" ELSE "succeeded",
          !.expired = FALSE, !.resp = [by |-> a, failed |-> failed]]
<1>2. receipts'[r.key] = row
  BY <1>0 DEF EndsReceipt, FinishReceipt, StoreTypeOK
<1>3. row \in Receipt /\ row.req = r /\ row.resp = [by |-> a, failed |-> failed]
  BY <1>1 DEF Receipt, Response
<1> QED BY <1>2, <1>3, NoRowAssumption

\* A new final answer is the one stored in the receipt.
LEMMA NewFinalReply ==
  ASSUME TypeInv, [Next]_vars, NEW a \in Attempts,
         reply[a].kind # "final", reply'[a].kind = "final"
  PROVE  /\ receipts'[req'[a].key] # None
         /\ receipts'[req'[a].key].req = req'[a]
         /\ receipts'[req'[a].key].resp = reply'[a].resp
<1> DEFINE Goal == /\ receipts'[req'[a].key] # None
                   /\ receipts'[req'[a].key].req = req'[a]
                   /\ receipts'[req'[a].key].resp = reply'[a].resp
<1> USE DEF TypeInv
<1>1. ASSUME NEW b \in Attempts, NEW answer, Return(b, answer), answer.kind # "final"
      PROVE  FALSE
  BY <1>1 DEF Return, HandlerTypeOK
<1>2. \A kind \in {"none", "busy", "error"} : Plain(kind).kind # "final"
  BY DEF Plain
<1>3. ASSUME NEW b \in Attempts, NEW kind \in {"none", "busy", "error"}, Return(b, Plain(kind))
      PROVE  FALSE
  BY <1>1, <1>2, <1>3
<1>4. ASSUME NEW b \in Attempts, NEW failed \in BOOLEAN, pc[b] # "idle",
             EndsReceipt(req[b], b, failed), Return(b, Final([by |-> b, failed |-> failed]))
      PROVE  Goal
  <2>1. b = a
    BY <1>4 DEF Return, HandlerTypeOK
  <2>2. req[b] \in Requests /\ req'[b] = req[b]
    BY <1>4 DEF Return, HandlerTypeOK
  <2>3. reply'[b] = Final([by |-> b, failed |-> failed])
    BY <1>4 DEF Return, HandlerTypeOK
  <2>4. reply'[b].resp = [by |-> b, failed |-> failed]
    BY <2>3 DEF Final
  <2>5. StoreTypeOK
    BY DEF StoreInv
  <2>6. /\ receipts'[req[b].key] # None
        /\ receipts'[req[b].key].req = req[b]
        /\ receipts'[req[b].key].resp = [by |-> b, failed |-> failed]
    BY <1>4, <2>2, <2>5, FinishedAnswer
  <2> QED BY <2>1, <2>2, <2>4, <2>6
<1>5. ASSUME NEW b \in Attempts, Prepare(b)
      PROVE  Goal
  <2>1. PICK r \in Requests :
          /\ req' = [req EXCEPT ![b] = r]
          /\ \/ UNCHANGED reply
             \/ /\ \/ /\ PrepareReplay(r)
                      /\ reply' = [reply EXCEPT ![b] = Final(receipts[r.key].resp)]
                   \/ reply' = [reply EXCEPT ![b] = Plain("busy")]
                   \/ reply' = [reply EXCEPT ![b] = Plain("error")]
                /\ UNCHANGED storeVars
    BY <1>5 DEF Prepare
  <2>2. /\ PrepareReplay(r) /\ reply' = [reply EXCEPT ![b] = Final(receipts[r.key].resp)]
        /\ UNCHANGED storeVars /\ b = a
    BY <1>2, <2>1 DEF HandlerTypeOK
  <2>3. reply'[a].resp = receipts[r.key].resp /\ req'[a] = r
    BY <2>1, <2>2 DEF HandlerTypeOK, Final
  <2> QED BY <2>2, <2>3 DEF PrepareReplay, Matches, storeVars
<1>6. ASSUME NEW b \in Attempts, Complete(b)
      PROVE  Goal
  <2>1. ASSUME CompleteOperation(b)
        PROVE  EndsReceipt(req[b], b, FALSE)
    <3>1. req[b].action \in Actions
      BY <1>6, RequestFields DEF Complete, HandlerTypeOK
    <3> QED
      BY <2>1, <3>1 DEF CompleteOperation, CompleteReconcile, CompleteDelete, CompleteCreate,
         CompleteRevoke, EndsReceipt, Actions
  <2>2. pc[b] = "complete"
    BY <1>6 DEF Complete
  <2>3. CASE CompleteOperation(b) /\ Return(b, Final([by |-> b, failed |-> FALSE]))
    BY <1>4, <2>1, <2>2, <2>3
  <2>4. CASE Goto(b, "cleanup")
    BY <2>4 DEF Goto
  <2> QED BY <1>3, <1>6, <2>3, <2>4 DEF Complete, NotOwner
<1>7. ASSUME NEW b \in Attempts, Fail(b)
      PROVE  Goal
  <2>1. CASE FailOperation(req[b], b) /\ Return(b, Final([by |-> b, failed |-> TRUE]))
    BY <1>4, <1>7, <2>1 DEF Fail, FailOperation, EndsReceipt
  <2> QED BY <1>3, <1>7, <2>1 DEF Fail, NotOwner
<1>8. ASSUME NEW b \in Attempts, Renew(b) \/ Cleanup(b) \/ Abandon(b)
      PROVE  Goal
  BY <1>3, <1>8 DEF Renew, Cleanup, Abandon, NotOwner, Goto
<1>9. ASSUME NEW b \in Attempts, UNCHANGED reply
      PROVE  Goal
  BY <1>9
<1>10. ASSUME NEW b \in Attempts,
              \/ LookupBucket(b) \/ CreateServiceBucket(b) \/ UpdateQuotas(b)
              \/ CheckUsage(b) \/ RevokeKey(b) \/ DeleteServiceBucket(b)
              \/ ListKeys(b) \/ PurgeKey(b) \/ CreateAccessKey(b) \/ AllowKey(b) \/ UndoKey(b)
       PROVE  Goal
  <2>1. ASSUME NEW step, NEW c, Goto(b, step) \/ Remember(b, step, c)
        PROVE  Goal
    BY <2>1 DEF Goto, Remember
  <2>2. CASE LookupBucket(b) \/ CreateServiceBucket(b) \/ UpdateQuotas(b)
    BY <2>1, <2>2 DEF LookupBucket, CreateServiceBucket, UpdateQuotas, GarageFails
  <2>3. CASE CheckUsage(b) \/ RevokeKey(b) \/ DeleteServiceBucket(b)
    BY <2>1, <2>3 DEF CheckUsage, RevokeKey, DeleteServiceBucket, GarageFails
  <2>4. CASE ListKeys(b) \/ PurgeKey(b) \/ CreateAccessKey(b) \/ AllowKey(b) \/ UndoKey(b)
    BY <2>1, <2>4 DEF ListKeys, PurgeKey, CreateAccessKey, AllowKey, UndoKey, GarageFails
  <2> QED BY <1>10, <2>2, <2>3, <2>4
<1>11. ASSUME NEW b \in Attempts, Step(b) \/ Abandon(b)
       PROVE  Goal
  BY <1>11, <1>5, <1>6, <1>7, <1>8, <1>10 DEF Step
<1>12. CASE UNCHANGED reply
  BY <1>12
<1> QED BY <1>11, <1>12 DEF Next, vars, ExpireLease, S3Client, handlerVars

LEMMA AnswersAgreeStep ==
  ASSUME TypeInv, AnswersAgree, [Next]_vars
  PROVE  AnswersAgree'
<1> USE DEF TypeInv
<1>0. StoreTypeOK /\ ReceiptStep
  BY NextStoreStep, StoreReceiptStep DEF StoreInv
<1> SUFFICES ASSUME NEW a \in Attempts, reply'[a].kind = "final"
             PROVE  /\ receipts'[req'[a].key] # None
                    /\ receipts'[req'[a].key].req = req'[a]
                    /\ receipts'[req'[a].key].resp = reply'[a].resp
  BY DEF AnswersAgree
<1>1. CASE reply[a].kind = "final"
  <2>1. reply'[a] = reply[a] /\ req'[a] = req[a]
    BY <1>1, FinalReplyStays
  <2>2. /\ receipts[req[a].key] # None
        /\ receipts[req[a].key].req = req[a]
        /\ receipts[req[a].key].resp = reply[a].resp
    BY <1>1 DEF AnswersAgree
  <2>3. reply[a].resp # None /\ pc[a] = "done"
    BY <1>1 DEF HandlerTypeOK
  <2>4. req[a].key \in Keys
    BY <2>3, RequestFields DEF HandlerTypeOK
  <2>5. Finished(req[a].key)
    BY <2>2, <2>3, <2>4 DEF ReceiptShape, InProgress, Finished
  <2>6. receipts'[req[a].key] = receipts[req[a].key]
    BY <1>0, <2>4, <2>5, FinishedUnchanged
  <2> QED BY <2>1, <2>2, <2>6
<1>2. CASE reply[a].kind # "final"
  BY <1>2, NewFinalReply
<1> QED BY <1>1, <1>2

-----------------------------------------------------------------------------
(* The theorems *)

\* At no time do two keys have an unfinished operation on one service.
THEOREM OneOperationPerService == Spec => []SingleOperation
<1> DEFINE Inv == TypeInv /\ SingleOperation
<1>1. Init => Inv
  BY TypeInvInit DEF Init, StoreInit, SingleOperation, InProgress
<1>2. Inv /\ [Next]_vars => Inv'
  <2> SUFFICES ASSUME TypeInv, SingleOperation, [Next]_vars
               PROVE  Inv'
    OBVIOUS
  <2>1. StoreTypeOK /\ ReceiptStep
    BY NextStoreStep, StoreReceiptStep DEF TypeInv, StoreInv
  <2>2. SingleOperation'
    BY <2>1, SingleOperationStep
  <2> QED BY <2>2, TypeInvNext
<1> QED BY <1>1, <1>2, PTL DEF Spec

\* No late completion, late failure, takeover or retry changes a finished
\* receipt.
THEOREM FinishedReceiptsStay == Spec => FinishedIsFinal
<1>1. ASSUME TypeInv, [Next]_vars
      PROVE  [\A k \in Keys : Finished(k) => receipts'[k] = receipts[k]]_vars
  <2>1. StoreTypeOK /\ ReceiptStep
    BY <1>1, NextStoreStep, StoreReceiptStep DEF TypeInv, StoreInv
  <2> QED BY <2>1, FinishedUnchanged
<1> QED BY <1>1, TypeInvInit, TypeInvNext, PTL DEF Spec, FinishedIsFinal

\* Whatever final answers clients get for a key, from whichever attempts,
\* they are the same answer, to the same request, as the one in the receipt.
THEOREM FinalAnswersAgree == Spec => []AnswersAgree
<1> DEFINE Inv == TypeInv /\ AnswersAgree
<1>1. Init => Inv
  <2>1. ASSUME Init
        PROVE  AnswersAgree
    <3>1. Plain("none").kind # "final"
      BY DEF Plain
    <3> QED BY <2>1, <3>1 DEF Init, AnswersAgree
  <2> QED BY <2>1, TypeInvInit
<1>2. Inv /\ [Next]_vars => Inv'
  BY TypeInvNext, AnswersAgreeStep
<1> QED BY <1>1, <1>2, PTL DEF Spec

\* Credential rows stay, keep their Garage key, and once revoked stay so:
\* complete_create_credential never finds the row of the id it inserts, and
\* the completions of deletion and revocation only ever revoke.
THEOREM RevokedStaysRevoked == Spec => RevocationIsFinal
<1> DEFINE Keeps == \A c \in Keys : creds[c] # None =>
             /\ creds'[c] # None
             /\ creds'[c].gkey = creds[c].gkey
             /\ creds[c].status = "revoked" => creds'[c].status = "revoked"
<1>1. ASSUME TypeInv, [Next]_vars
      PROVE  [Keeps]_vars
  <2>0. StoreTypeOK /\ StoreStep
    BY <1>1, NextStoreStep DEF TypeInv, StoreInv
  <2>1. ASSUME NEW c \in Keys, creds[c] # None
        PROVE  /\ creds[c] \in CredentialRow
               /\ [creds[c] EXCEPT !.status = "revoked"] \in CredentialRow
               /\ [creds[c] EXCEPT !.status = "revoked"].gkey = creds[c].gkey
               /\ [creds[c] EXCEPT !.status = "revoked"].status = "revoked"
    <3>1. creds[c] \in CredentialRow
      BY <2>0, <2>1 DEF StoreTypeOK
    <3> QED BY <3>1 DEF CredentialRow
  <2>2. CASE creds' = creds
    BY <2>2
  <2>3. ASSUME NEW r \in Requests, NEW a \in Attempts, CompleteDelete(r, a)
        PROVE  Keeps
    <3> SUFFICES ASSUME NEW c \in Keys, creds[c] # None
                 PROVE  /\ creds'[c] # None
                        /\ creds'[c].gkey = creds[c].gkey
                        /\ creds[c].status = "revoked" => creds'[c].status = "revoked"
      OBVIOUS
    <3>1. creds'[c] \in {creds[c], [creds[c] EXCEPT !.status = "revoked"]}
      BY <2>3 DEF CompleteDelete
    <3> QED BY <2>1, <3>1, NoRowAssumption
  <2>4. ASSUME NEW r \in Requests, NEW a \in Attempts, CompleteRevoke(r, a)
        PROVE  Keeps
    <3> SUFFICES ASSUME NEW c \in Keys, creds[c] # None
                 PROVE  /\ creds'[c] # None
                        /\ creds'[c].gkey = creds[c].gkey
                        /\ creds[c].status = "revoked" => creds'[c].status = "revoked"
      OBVIOUS
    <3>1. creds'[c] \in {creds[c], [creds[c] EXCEPT !.status = "revoked"]}
      BY <2>0, <2>4 DEF CompleteRevoke, StoreTypeOK
    <3> QED BY <2>1, <3>1, NoRowAssumption
  <2>5. ASSUME NEW r \in Requests, NEW a \in Attempts, NEW d \in Keys \cup {None},
               CompleteCreate(r, a, d)
        PROVE  Keeps
    <3>1. ASSUME NEW c \in Keys, creds[c] # None
          PROVE  creds'[c] = creds[c]
      BY <2>0, <2>5, <3>1 DEF CompleteCreate, CreateApplies, StoreTypeOK
    <3> QED BY <3>1
  <2>6. CASE Keeps
    BY <2>6
  <2> HIDE DEF Keeps
  <2> QED
    BY <2>0, <2>2, <2>3, <2>4, <2>5, <2>6 DEF StoreStep, storeVars, PrepareExecute,
       RenewOperation, FailOperation, CompleteReconcile, LeaseExpires
<1> QED BY <1>1, TypeInvInit, TypeInvNext, PTL DEF Spec, RevocationIsFinal

=============================================================================
