-------------------------- MODULE OperationProofs --------------------------
(***************************************************************************)
(* Proofs about what an operation in progress may rely on, and about what  *)
(* it leaves behind, for every value of the constants.                     *)
(*                                                                         *)
(* The argument: an operation in progress is the only one on its service   *)
(* (SingleOperation), and every transaction changes rows of the service of *)
(* its own operation only (LocalTo).  So what a prepare checked when the   *)
(* operation began (Undertaken) is true until the operation ends, through  *)
(* every takeover.                                                         *)
(***************************************************************************)
EXTENDS SyouyuProofs, FiniteSetTheorems

-----------------------------------------------------------------------------
(* The inductive invariant *)

\* A receipt is found under its request's key, and its operation id is that
\* of an attempt at the same request.
OperationsKnown ==
  \A k \in Keys : receipts[k] # None =>
    /\ receipts[k].req.key = k
    /\ pc[receipts[k].op] # "idle"
    /\ req[receipts[k].op] = receipts[k].req

\* The reservation that the creation in progress under key k holds.
ReservationOf(k) ==
  [op |-> receipts[k].op, svc |-> receipts[k].req.svc,
   org |-> receipts[k].req.org, name |-> receipts[k].req.name]

Creates(k) == InProgress(k) /\ receipts[k].req.action = "create"

ReservationsKnown ==
  \A c \in Keys : credRes[c] = IF Creates(c) THEN ReservationOf(c) ELSE None

\* A credential row was written by the attempt that finished the operation of
\* its id.
CredentialsKnown ==
  \A c \in Keys : creds[c] # None =>
    /\ Finished(c)
    /\ creds[c].gkey = receipts[c].op
    /\ creds[c].svc = receipts[c].req.svc

\* The two rows of a service come together.
RowsTogether == \A s \in Services : buckets[s] # None => services[s] # None

\* What an operation for request r may rely on.
Undertaken(r) ==
  CASE r.action = "reconcile" ->
         /\ names[r.bucket] = r.svc
         /\ services[r.svc] # None =>
              /\ InScope(r)
              /\ services[r.svc].gen <= r.gen
              /\ services[r.svc].phase # "deleted"
              /\ buckets[r.svc].bucket = r.bucket
    [] r.action = "delete" -> DeleteApplies(r) /\ r.gen = services[r.svc].gen + 1
    [] r.action = "create" ->
         /\ ReadyBucket(r)
         /\ \A d \in Keys : creds[d] # None => ~(creds[d].svc = r.svc /\ creds[d].name = r.name)
    [] r.action = "revoke" -> RevokeApplies(r) /\ ReadyBucket(r)

OperationsSound == \A k \in Keys : InProgress(k) => Undertaken(receipts[k].req)

\* The credential id of a creation is its key, at the first attempt and at
\* every later one.
CredentialIdKnown ==
  \A a \in Attempts : Running(a) /\ req[a].action = "create" => ctx[a].cred = req[a].key

OperationInv ==
  /\ TypeInv
  /\ SingleOperation
  /\ OperationsKnown
  /\ ReservationsKnown
  /\ CredentialsKnown
  /\ RowsTogether
  /\ OperationsSound
  /\ NamesAccounted
  /\ CredentialIdKnown

-----------------------------------------------------------------------------
(* Steps of Next, seen from the operations *)

restOfStore == <<services, buckets, names, creds, credRes, audit>>

\* An attempt begins or takes over the operation of request r.
Begins(a, r) ==
  /\ pc[a] = "idle"
  /\ PrepareExecute(r, a)
  /\ req' = [req EXCEPT ![a] = r]
  /\ ctx' = [ctx EXCEPT ![a] = ExecuteContext(r)]
  /\ pc' = [pc EXCEPT ![a] = FirstStep(ExecuteContext(r), r)]

\* An attempt ends its operation, and with it.
Ends(a, r) ==
  /\ req[a] = r
  /\ pc' = [pc EXCEPT ![a] = "done"]
  /\ \/ /\ pc[a] = "complete"
        /\ \/ /\ r.action = "reconcile" /\ ctx[a].bucket \in Attempts
              /\ CompleteReconcile(r, a, ctx[a].bucket)
           \/ r.action = "delete" /\ CompleteDelete(r, a)
           \/ /\ r.action = "create" /\ ctx[a].cred \in Keys
              /\ CompleteCreate(r, a, ctx[a].cred)
           \/ r.action = "revoke" /\ CompleteRevoke(r, a)
     \/ pc[a] = "fail" /\ FailOperation(r, a)

Leases(k, x) == LeasesReceipt(k, x) /\ UNCHANGED restOfStore

OperationStep ==
  \/ UNCHANGED storeVars
  \/ \E k \in Keys, x \in BOOLEAN : Leases(k, x)
  \/ \E a \in Attempts, r \in Requests : Begins(a, r)
  \/ \E a \in Attempts, r \in Requests : Ends(a, r)

\* A completion runs the transaction of the request's action.
LEMMA CompleteEnds ==
  ASSUME HandlerTypeOK, NEW a \in Attempts, pc[a] = "complete", CompleteOperation(a),
         pc' = [pc EXCEPT ![a] = "done"]
  PROVE  req[a] \in Requests /\ Ends(a, req[a])
<1>1. req[a] \in Requests /\ ctx[a] \in Context /\ req[a].action \in Actions
  BY RequestFields DEF HandlerTypeOK
<1>2. ctx[a].bucket \in Attempts \cup {None} /\ ctx[a].cred \in Keys \cup {None}
  BY <1>1 DEF Context
<1>3. CASE req[a].action = "reconcile"
  <2>1. ctx[a].bucket \in Attempts
    BY <1>2, <1>3 DEF HandlerTypeOK
  <2> QED BY <1>1, <1>3, <2>1 DEF CompleteOperation, Ends
<1>4. CASE req[a].action = "delete"
  BY <1>1, <1>4 DEF CompleteOperation, Ends
<1>5. CASE req[a].action = "create"
  <2>1. ctx[a].cred \in Keys
    BY <1>2, <1>5 DEF HandlerTypeOK
  <2> QED BY <1>1, <1>5, <2>1 DEF CompleteOperation, Ends
<1>6. CASE req[a].action = "revoke"
  BY <1>1, <1>6 DEF CompleteOperation, Ends
<1> QED BY <1>1, <1>3, <1>4, <1>5, <1>6 DEF Actions

\* What a step of the system does to the operations.
LEMMA NextOperationStep ==
  ASSUME HandlerTypeOK, [Next]_vars
  PROVE  OperationStep
<1>1. CASE UNCHANGED storeVars
  BY <1>1 DEF OperationStep
<1>2. ASSUME NEW a \in Attempts, Step(a) \/ Abandon(a)
      PROVE  OperationStep
  <2>0. pc[a] # "idle" => req[a] \in Requests
    BY DEF HandlerTypeOK
  <2>1. CASE Prepare(a)
    BY <1>1, <2>1 DEF Prepare, Begins, OperationStep
  <2>2. CASE Renew(a)
    <3>1. ASSUME RenewOperation(req[a], a)
          PROVE  Leases(req[a].key, FALSE) /\ req[a].key \in Keys
      BY <2>0, <2>2, <3>1, RequestFields
         DEF Renew, RenewOperation, Owns, Matches, InProgress, LeasesReceipt, Leases, restOfStore
    <3> QED BY <1>1, <2>2, <3>1 DEF Renew, NotOwner, OperationStep
  <2>3. CASE Complete(a)
    BY <1>1, <2>3, CompleteEnds DEF Complete, Return, NotOwner, OperationStep
  <2>4. CASE Fail(a)
    BY <1>1, <2>0, <2>4 DEF Fail, Return, NotOwner, Ends, OperationStep
  <2>5. CASE LookupBucket(a) \/ CreateServiceBucket(a) \/ UpdateQuotas(a)
    BY <1>1, <2>5 DEF LookupBucket, CreateServiceBucket, UpdateQuotas
  <2>6. CASE CheckUsage(a) \/ RevokeKey(a) \/ DeleteServiceBucket(a)
    BY <1>1, <2>6 DEF CheckUsage, RevokeKey, DeleteServiceBucket
  <2>7. CASE ListKeys(a) \/ PurgeKey(a) \/ CreateAccessKey(a) \/ AllowKey(a) \/ UndoKey(a)
    BY <1>1, <2>7 DEF ListKeys, PurgeKey, CreateAccessKey, AllowKey, UndoKey
  <2>8. CASE Cleanup(a) \/ Abandon(a)
    BY <1>1, <2>8 DEF Cleanup, Abandon
  <2> QED BY <1>2, <2>1, <2>2, <2>3, <2>4, <2>5, <2>6, <2>7, <2>8 DEF Step
<1>3. ASSUME NEW k \in Keys, ExpireLease(k)
      PROVE  OperationStep
  BY <1>3 DEF ExpireLease, LeaseExpires, LeasesReceipt, Leases, restOfStore, OperationStep
<1>4. UNCHANGED vars => UNCHANGED storeVars
  BY DEF vars, storeVars
<1> QED BY <1>1, <1>2, <1>3, <1>4 DEF Next, S3Client

\* How a step moves one handler that has its request: it keeps the request,
\* does not go back to idle, and while it runs keeps its credential id and
\* what it was told about earlier applications.
LEMMA StartedKeeps ==
  ASSUME HandlerTypeOK, [Next]_vars, NEW b \in Attempts, pc[b] # "idle"
  PROVE  /\ req'[b] = req[b]
         /\ pc'[b] # "idle"
         /\ pc[b] = "done" => pc'[b] = "done"
         /\ pc'[b] # "done" => ctx'[b].cred = ctx[b].cred /\ ctx'[b].prior = ctx[b].prior
<1> DEFINE Goal == /\ req'[b] = req[b]
                   /\ pc'[b] # "idle"
                   /\ pc[b] = "done" => pc'[b] = "done"
                   /\ pc'[b] # "done" =>
                        ctx'[b].cred = ctx[b].cred /\ ctx'[b].prior = ctx[b].prior
<1>1. CASE UNCHANGED handlerVars
  BY <1>1 DEF handlerVars
<1>2. ASSUME NEW a \in Attempts, Step(a) \/ Abandon(a)
      PROVE  Goal
  <2>0. /\ ctx[a] \in Context /\ ctx[b] \in Context
        /\ pc \in [Attempts -> Steps] /\ DOMAIN req = Attempts /\ DOMAIN ctx = Attempts
    BY DEF HandlerTypeOK
  <2>1. pc[a] # "done"
    BY <1>2 DEF Step, Abandon, Prepare, Renew, LookupBucket, CreateServiceBucket,
       UpdateQuotas, CheckUsage, RevokeKey, DeleteServiceBucket, ListKeys, PurgeKey,
       CreateAccessKey, AllowKey, UndoKey, Complete, Cleanup, Fail
  <2>2. CASE Prepare(a)
    <3>1. a # b
      BY <2>2 DEF Prepare
    <3> QED BY <2>0, <2>2, <3>1 DEF Prepare, HandlerTypeOK
  <2>3. ASSUME NEW step, step # "idle", Goto(a, step)
        PROVE  Goal
    BY <2>0, <2>1, <2>3 DEF Goto
  <2>4. ASSUME NEW step, NEW c, step # "idle", Remember(a, step, c),
               c.cred = ctx[a].cred, c.prior = ctx[a].prior
        PROVE  Goal
    BY <2>0, <2>1, <2>4 DEF Remember
  <2>5. ASSUME NEW answer, Return(a, answer)
        PROVE  Goal
    BY <2>0, <2>1, <2>5 DEF Return
  <2>6. \A p : [ctx[a] EXCEPT !.bucket = p].cred = ctx[a].cred
             /\ [ctx[a] EXCEPT !.bucket = p].prior = ctx[a].prior
    BY <2>0 DEF Context
  <2>7. \A gs : [ctx[a] EXCEPT !.keys = gs].cred = ctx[a].cred
              /\ [ctx[a] EXCEPT !.keys = gs].prior = ctx[a].prior
    BY <2>0 DEF Context
  <2> HIDE DEF Goal
  <2>8. CASE Renew(a)
    <3>1. Running(a)
      BY <2>8 DEF Renew, Running
    <3>2. RunsAt(a, pc[a], ctx[a]) /\ req[a].action \in Actions
      BY <3>1, RunningRunsAt
    <3>3. AfterRenew(a) # "idle"
      BY <3>2 DEF AfterRenew, RunsAt, StepsOf, Actions
    <3> QED BY <2>3, <2>5, <2>8, <3>3 DEF Renew, NotOwner
  <2>9. CASE Complete(a) \/ Cleanup(a) \/ Fail(a) \/ Abandon(a)
    BY <2>3, <2>5, <2>9 DEF Complete, Cleanup, Fail, Abandon, NotOwner
  <2>10. CASE LookupBucket(a) \/ CreateServiceBucket(a) \/ UpdateQuotas(a)
    BY <2>3, <2>4, <2>6, <2>10 DEF LookupBucket, CreateServiceBucket, UpdateQuotas, GarageFails
  <2>11. CASE CheckUsage(a) \/ DeleteServiceBucket(a) \/ RevokeKey(a)
    BY <2>3, <2>4, <2>7, <2>11 DEF CheckUsage, RevokeKey, DeleteServiceBucket, GarageFails
  <2>12. CASE ListKeys(a) \/ PurgeKey(a) \/ CreateAccessKey(a) \/ AllowKey(a) \/ UndoKey(a)
    BY <2>3, <2>4, <2>7, <2>12 DEF ListKeys, PurgeKey, PurgeNext, CreateAccessKey, AllowKey,
       UndoKey, GarageFails
  <2> QED BY <1>2, <2>2, <2>8, <2>9, <2>10, <2>11, <2>12 DEF Step
<1>3. UNCHANGED vars => UNCHANGED handlerVars
  BY DEF vars, handlerVars
<1> QED BY <1>1, <1>2, <1>3 DEF Next, ExpireLease, S3Client

-----------------------------------------------------------------------------
(* Transactions change the service of their own operation only *)

\* What a transaction on service s leaves alone.
LocalTo(s) ==
  /\ \A t \in Services \ {s} : services'[t] = services[t] /\ buckets'[t] = buckets[t]
  /\ \A b \in BucketNames, t \in Services \ {s} : names'[b] = t <=> names[b] = t
  /\ \A c \in Keys : creds[c] # None =>
       /\ creds'[c] # None
       /\ creds'[c].svc = creds[c].svc /\ creds'[c].name = creds[c].name
       /\ creds'[c].gkey = creds[c].gkey
  /\ \A c \in Keys : creds'[c] # None /\ creds[c] = None => creds'[c].svc = s

\* A prepare changes what is of its own service only.
LEMMA BeginsLocal ==
  ASSUME StoreTypeOK, NEW r \in Requests, NEW a \in Attempts, PrepareExecute(r, a)
  PROVE  LocalTo(r.svc)
<1>1. r.bucket \in BucketNames /\ r.svc \in Services
  BY RequestFields
<1>2. r.action = "reconcile" => names[r.bucket] \in {None, r.svc}
  BY DEF PrepareExecute, Accept, AcceptReconcile, NameAvailable
<1>3. \A b \in BucketNames, t \in Services \ {r.svc} : names'[b] = t <=> names[b] = t
  BY <1>1, <1>2, NoneAssumption DEF PrepareExecute, StoreTypeOK
<1> QED BY <1>3 DEF PrepareExecute, LocalTo

\* So does a completion or a failure.
LEMMA EndsLocal ==
  ASSUME StoreTypeOK, NEW a \in Attempts, NEW r \in Requests, Ends(a, r)
  PROVE  LocalTo(r.svc)
<1> DEFINE revoked(c) == [creds[c] EXCEPT !.status = "revoked"]
<1>0. r.svc \in Services /\ r.cred \in Keys
  BY RequestFields
<1>1. ASSUME NEW c \in Keys, creds[c] # None
      PROVE  /\ revoked(c) # None
             /\ revoked(c).svc = creds[c].svc /\ revoked(c).name = creds[c].name
             /\ revoked(c).gkey = creds[c].gkey
  <2>1. creds[c] \in CredentialRow
    BY <1>1 DEF StoreTypeOK
  <2>2. revoked(c) \in CredentialRow
    BY <2>1 DEF CredentialRow
  <2> QED BY <2>1, <2>2, NoRowAssumption DEF CredentialRow
<1>2. CASE ctx[a].bucket \in Attempts /\ CompleteReconcile(r, a, ctx[a].bucket)
  BY <1>0, <1>2, NoneAssumption DEF CompleteReconcile, LocalTo, StoreTypeOK
<1>4. CASE CompleteDelete(r, a)
  <2>1. \A c \in Keys : creds'[c] = creds[c] \/ (creds[c] # None /\ creds'[c] = revoked(c))
    BY <1>4 DEF CompleteDelete, ActiveOf
  <2>2. /\ \A t \in Services \ {r.svc} : services'[t] = services[t] /\ buckets'[t] = buckets[t]
        /\ \A b \in BucketNames, t \in Services \ {r.svc} : names'[b] = t <=> names[b] = t
    BY <1>0, <1>4, NoneAssumption DEF CompleteDelete, StoreTypeOK
  <2> HIDE DEF revoked
  <2> QED BY <1>1, <2>1, <2>2 DEF LocalTo
<1>5. CASE ctx[a].cred \in Keys /\ CompleteCreate(r, a, ctx[a].cred)
  <2>1. /\ \A c \in Keys \ {ctx[a].cred} : creds'[c] = creds[c]
        /\ creds[ctx[a].cred] = None
        /\ creds'[ctx[a].cred].svc = r.svc
    BY <1>5 DEF CompleteCreate, CreateApplies, StoreTypeOK
  <2> QED BY <1>5, <2>1 DEF CompleteCreate, LocalTo
<1>6. CASE CompleteRevoke(r, a)
  <2>1. \A c \in Keys : creds'[c] = creds[c] \/ (creds[c] # None /\ creds'[c] = revoked(c))
    BY <1>0, <1>6 DEF CompleteRevoke, RevokeApplies, StoreTypeOK
  <2> HIDE DEF revoked
  <2> QED BY <1>1, <1>6, <2>1 DEF CompleteRevoke, LocalTo
<1>7. CASE FailOperation(r, a)
  <2>1. \A b \in BucketNames, t \in Services \ {r.svc} : names'[b] = t <=> names[b] = t
    BY <1>7, NoneAssumption DEF FailOperation, StoreTypeOK
  <2> QED BY <1>7, <2>1 DEF FailOperation, LocalTo
<1> QED BY <1>2, <1>4, <1>5, <1>6, <1>7 DEF Ends

\* An operation on another service may rely on what it relied on before.
LEMMA UndertakenLocal ==
  ASSUME StoreTypeOK, NEW s \in Services, LocalTo(s), NEW r \in Requests, r.svc # s,
         Undertaken(r)
  PROVE  Undertaken(r)'
<1>0. /\ r.svc \in Services /\ r.bucket \in BucketNames /\ r.cred \in Keys
      /\ r.action \in Actions
  BY RequestFields
<1>1. services'[r.svc] = services[r.svc] /\ buckets'[r.svc] = buckets[r.svc]
  BY <1>0 DEF LocalTo
<1>2. CASE r.action = "reconcile"
  <2>1. names[r.bucket] = r.svc => names'[r.bucket] = r.svc
    BY <1>0 DEF LocalTo
  <2> QED BY <1>1, <1>2, <2>1 DEF Undertaken, InScope
<1>3. CASE r.action = "delete"
  BY <1>1, <1>3 DEF Undertaken, DeleteApplies, InScope
<1>4. CASE r.action = "create"
  BY <1>0, <1>1, <1>4 DEF Undertaken, ReadyBucket, InScope, LocalTo
<1>5. CASE r.action = "revoke"
  BY <1>0, <1>1, <1>5 DEF Undertaken, ReadyBucket, RevokeApplies, InScope, LocalTo
<1> QED BY <1>0, <1>2, <1>3, <1>4, <1>5 DEF Actions

-----------------------------------------------------------------------------
(* Steps seen from one receipt *)

\* A lease that runs out or is renewed changes nothing else in the receipt.
LEMMA LeasesKeeps ==
  ASSUME StoreTypeOK, NEW k \in Keys, NEW x \in BOOLEAN, Leases(k, x)
  PROVE  \A j \in Keys :
           /\ receipts'[j] # None <=> receipts[j] # None
           /\ receipts[j] # None => /\ receipts'[j].req = receipts[j].req
                                    /\ receipts'[j].op = receipts[j].op
                                    /\ receipts'[j].state = receipts[j].state
                                    /\ receipts'[j].resp = receipts[j].resp
<1>1. receipts[k] \in Receipt
  BY DEF Leases, LeasesReceipt, InProgress, StoreTypeOK
<1> DEFINE row == [receipts[k] EXCEPT !.expired = x]
<1>2. /\ row \in Receipt /\ row.req = receipts[k].req /\ row.op = receipts[k].op
      /\ row.state = receipts[k].state /\ row.resp = receipts[k].resp
  BY <1>1 DEF Receipt
<1>3. receipts' = [receipts EXCEPT ![k] = row]
  BY DEF Leases, LeasesReceipt
<1> HIDE DEF row
<1> QED BY <1>1, <1>2, <1>3, NoRowAssumption DEF StoreTypeOK

\* An operation that begins is in progress under its key, and no other
\* receipt changes.
LEMMA BeginsKeeps ==
  ASSUME StoreTypeOK, NEW r \in Requests, NEW a \in Attempts, PrepareExecute(r, a)
  PROVE  /\ receipts'[r.key] # None
         /\ receipts'[r.key].req = r /\ receipts'[r.key].op = a
         /\ receipts'[r.key].state = "in_progress"
         /\ \A j \in Keys \ {r.key} : receipts'[j] = receipts[j]
         /\ receipts[r.key] # None => InProgress(r.key) /\ receipts[r.key].req = r
         /\ ~ParallelOperation(r.key, r.svc)
<1>0. r.key \in Keys
  BY RequestFields
<1> DEFINE row == [req |-> r, op |-> a, state |-> "in_progress", expired |-> FALSE, resp |-> None]
<1>1. row \in Receipt /\ row.req = r /\ row.op = a /\ row.state = "in_progress"
  BY DEF Receipt
<1>2. receipts' = [receipts EXCEPT ![r.key] = row]
  BY DEF PrepareExecute, TakeLease
<1> HIDE DEF row
<1>3. receipts[r.key] # None => InProgress(r.key) /\ receipts[r.key].req = r
  BY DEF PrepareExecute, ClaimNew, ClaimTakeOver, Matches
<1>4. ~ParallelOperation(r.key, r.svc)
  BY AcceptNotParallel DEF PrepareExecute
<1> QED BY <1>0, <1>1, <1>2, <1>3, <1>4, NoRowAssumption DEF StoreTypeOK

\* An operation that ends was its attempt's, and no other receipt changes.
LEMMA EndsKeeps ==
  ASSUME StoreTypeOK, NEW a \in Attempts, NEW r \in Requests, Ends(a, r)
  PROVE  /\ receipts[r.key] # None /\ receipts'[r.key] # None
         /\ InProgress(r.key)
         /\ receipts[r.key].req = r /\ receipts'[r.key].req = r
         /\ receipts[r.key].op = a /\ receipts'[r.key].op = a
         /\ receipts'[r.key].state # "in_progress"
         /\ \A j \in Keys \ {r.key} : receipts'[j] = receipts[j]
<1>0. r.key \in Keys
  BY RequestFields
<1>1. Owns(r, a) /\ (FinishReceipt(r, a, TRUE) \/ FinishReceipt(r, a, FALSE))
  BY DEF Ends, CompleteReconcile, CompleteDelete, CompleteCreate, CompleteRevoke, FailOperation
<1>2. PICK failed \in BOOLEAN : FinishReceipt(r, a, failed)
  BY <1>1
<1>3. receipts[r.key] \in Receipt
  BY <1>0, <1>1 DEF Owns, Matches, StoreTypeOK
<1> DEFINE row == [receipts[r.key] EXCEPT
          !.state = IF failed THEN "failed" ELSE "succeeded",
          !.expired = FALSE, !.resp = [by |-> a, failed |-> failed]]
<1>4. /\ row \in Receipt /\ row.req = receipts[r.key].req /\ row.op = receipts[r.key].op
      /\ row.state # "in_progress"
  BY <1>3 DEF Receipt, Response
<1>5. receipts' = [receipts EXCEPT ![r.key] = row]
  BY <1>2 DEF FinishReceipt
<1> HIDE DEF row
<1>6. receipts'[r.key] = row /\ \A j \in Keys \ {r.key} : receipts'[j] = receipts[j]
  BY <1>0, <1>5 DEF StoreTypeOK
<1> QED BY <1>1, <1>3, <1>4, <1>6, NoRowAssumption DEF Owns, Matches, InProgress

-----------------------------------------------------------------------------
(* The conjuncts of the invariant, one by one *)

\* An operation id is in one receipt only.
LEMMA OperationUnique ==
  ASSUME OperationsKnown, NEW j \in Keys, NEW k \in Keys,
         receipts[j] # None, receipts[k] # None, receipts[j].op = receipts[k].op
  PROVE  j = k
BY DEF OperationsKnown

\* A reservation with an operation's id is under that operation's key.
LEMMA ReservationUnique ==
  ASSUME OperationsKnown, ReservationsKnown, NEW c \in Keys, NEW k \in Keys,
         credRes[c] # None, receipts[k] # None, credRes[c].op = receipts[k].op
  PROVE  c = k
<1>1. Creates(c) /\ credRes[c] = ReservationOf(c)
  BY DEF ReservationsKnown
<1>2. receipts[c] # None /\ receipts[c].op = receipts[k].op
  BY <1>1 DEF Creates, InProgress, ReservationOf
<1> QED BY <1>2, OperationUnique

\* Operation ids stay known.
LEMMA OperationsKnownStep ==
  ASSUME StoreTypeOK, HandlerTypeOK, OperationsKnown, [Next]_vars, OperationStep
  PROVE  OperationsKnown'
<1>1. ASSUME NEW k \in Keys, receipts[k] # None
      PROVE  /\ pc'[receipts[k].op] # "idle"
             /\ req'[receipts[k].op] = receipts[k].req
  <2>1. receipts[k].op \in Attempts
    BY <1>1 DEF StoreTypeOK, Receipt
  <2> QED BY <1>1, <2>1, StartedKeeps DEF OperationsKnown
<1>2. CASE UNCHANGED storeVars
  BY <1>1, <1>2 DEF OperationsKnown, storeVars
<1>3. ASSUME NEW k \in Keys, NEW x \in BOOLEAN, Leases(k, x)
      PROVE  OperationsKnown'
  BY <1>1, <1>3, LeasesKeeps DEF OperationsKnown
<1>4. ASSUME NEW a \in Attempts, NEW r \in Requests, Begins(a, r)
      PROVE  OperationsKnown'
  <2>1. FirstStep(ExecuteContext(r), r) # "idle"
    BY DEF FirstStep
  <2>2. pc'[a] # "idle" /\ req'[a] = r
    BY <1>4, <2>1 DEF Begins, HandlerTypeOK
  <2>3. PrepareExecute(r, a)
    BY <1>4 DEF Begins
  <2> QED BY <1>1, <2>2, <2>3, BeginsKeeps DEF OperationsKnown
<1>5. ASSUME NEW a \in Attempts, NEW r \in Requests, Ends(a, r)
      PROVE  OperationsKnown'
  BY <1>1, <1>5, EndsKeeps DEF OperationsKnown
<1> QED BY <1>2, <1>3, <1>4, <1>5 DEF OperationStep

\* A takeover moves the reservation of its own operation.
LEMMA BeginsReservation ==
  ASSUME StoreTypeOK, OperationsKnown, ReservationsKnown,
         NEW r \in Requests, NEW a \in Attempts, PrepareExecute(r, a)
  PROVE  ReservationsKnown'
<1>0. r.key \in Keys
  BY RequestFields
<1>1. /\ receipts'[r.key] # None
      /\ receipts'[r.key].req = r /\ receipts'[r.key].op = a
      /\ receipts'[r.key].state = "in_progress"
      /\ \A j \in Keys \ {r.key} : receipts'[j] = receipts[j]
      /\ receipts[r.key] # None => InProgress(r.key) /\ receipts[r.key].req = r
  BY BeginsKeeps
<1> SUFFICES ASSUME NEW c \in Keys
             PROVE  credRes'[c] = (IF Creates(c) THEN ReservationOf(c) ELSE None)'
  BY DEF ReservationsKnown
<1> DEFINE moves == /\ receipts[r.key] # None
                    /\ credRes[c] # None
                    /\ credRes[c].op = receipts[r.key].op
           row == [op |-> a, svc |-> r.svc, org |-> r.org, name |-> r.name]
<1>2. credRes'[c] = IF c = r.key /\ r.action = "create" /\ ClaimNew(r) THEN row
                    ELSE IF moves THEN [credRes[c] EXCEPT !.op = a] ELSE credRes[c]
  BY <1>0 DEF PrepareExecute, TakeLease, StoreTypeOK
<1>3. credRes[c] = IF Creates(c) THEN ReservationOf(c) ELSE None
  BY DEF ReservationsKnown
<1>4. moves => c = r.key
  BY <1>0, ReservationUnique
<1>5. CASE c # r.key
  <2>1. credRes'[c] = credRes[c] /\ receipts'[c] = receipts[c]
    BY <1>1, <1>2, <1>4, <1>5
  <2> QED BY <1>3, <2>1 DEF Creates, InProgress, ReservationOf
<1>6. CASE c = r.key /\ r.action # "create"
  <2>1. ~Creates(c)
    BY <1>1, <1>6 DEF Creates, InProgress
  <2>2. credRes'[c] = None
    BY <1>2, <1>3, <1>6, <2>1
  <2>3. ~Creates(c)'
    BY <1>1, <1>6 DEF Creates
  <2> QED BY <2>2, <2>3
<1>7. CASE c = r.key /\ r.action = "create"
  <2>1. Creates(c)' /\ ReservationOf(c)' = row
    BY <1>1, <1>7 DEF Creates, InProgress, ReservationOf
  <2>2. CASE ClaimNew(r)
    BY <1>2, <1>7, <2>1, <2>2
  <2>3. CASE ~ClaimNew(r)
    <3>1. Creates(c) /\ receipts[c].req = r
      BY <1>1, <1>7, <2>3 DEF ClaimNew, Creates
    <3>2. credRes[c] = [op |-> receipts[c].op, svc |-> r.svc, org |-> r.org, name |-> r.name]
      BY <1>3, <3>1 DEF ReservationOf
    <3>3. credRes[c] \in ReservationRow
      BY <3>1, <3>2, RequestFields DEF StoreTypeOK, ReservationRow, Receipt, Creates, InProgress
    <3>4. credRes[c] # None
      BY <3>3, NoRowAssumption
    <3>5. moves
      BY <1>7, <2>3, <3>2, <3>4 DEF ClaimNew
    <3>6. [credRes[c] EXCEPT !.op = a] = row
      BY <3>2
    <3> QED BY <1>2, <2>1, <2>3, <3>5, <3>6
  <2> QED BY <2>2, <2>3
<1> QED BY <1>5, <1>6, <1>7

\* The reservation goes when the creation ends, with its own operation's.
LEMMA EndsReservation ==
  ASSUME StoreTypeOK, OperationsKnown, ReservationsKnown, NEW a \in Attempts, NEW r \in Requests, Ends(a, r)
  PROVE  ReservationsKnown'
<1>0. r.key \in Keys
  BY RequestFields
<1>1. /\ receipts[r.key] # None /\ receipts[r.key].op = a /\ receipts[r.key].req = r
      /\ receipts'[r.key].state # "in_progress"
      /\ \A j \in Keys \ {r.key} : receipts'[j] = receipts[j]
  BY EndsKeeps
<1>2. ~Creates(r.key)'
  BY <1>1 DEF Creates, InProgress
<1>3. \A c \in Keys \ {r.key} : Creates(c)' = Creates(c) /\ ReservationOf(c)' = ReservationOf(c)
  BY <1>1 DEF Creates, InProgress, ReservationOf
<1>4. ASSUME NEW c \in Keys, credRes[c] # None, credRes[c].op = a
      PROVE  c = r.key
  BY <1>0, <1>1, <1>4, ReservationUnique
<1>5. r.action # "create" => credRes[r.key] = None
  BY <1>0, <1>1 DEF ReservationsKnown, Creates
<1>6. ASSUME NEW c \in Keys
      PROVE  credRes'[c] = IF c = r.key THEN None ELSE credRes[c]
  <2>1. CASE credRes' = credRes /\ r.action # "create"
    BY <1>5, <2>1
  <2>2. CASE ctx[a].cred \in Keys /\ CompleteCreate(r, a, ctx[a].cred)
    <3>1. ctx[a].cred = r.key
      BY <1>4, <2>2 DEF CompleteCreate, CreateApplies
    <3> QED BY <1>0, <2>2, <3>1 DEF CompleteCreate, StoreTypeOK
  <2>3. CASE FailOperation(r, a)
    <3>1. credRes'[c] = IF credRes[c] # None /\ credRes[c].op = a THEN None ELSE credRes[c]
      BY <2>3 DEF FailOperation
    <3>2. credRes[r.key] # None => credRes[r.key] = ReservationOf(r.key)
      BY <1>0 DEF ReservationsKnown
    <3>3. ReservationOf(r.key).op = a
      BY <1>1 DEF ReservationOf
    <3> QED BY <1>4, <3>1, <3>2, <3>3
  <2> QED
    BY <2>1, <2>2, <2>3 DEF Ends, CompleteReconcile, CompleteDelete, CompleteRevoke
<1> QED BY <1>0, <1>2, <1>3, <1>6 DEF ReservationsKnown

\* Reservations stay those of the creations in progress.
LEMMA ReservationsKnownStep ==
  ASSUME StoreTypeOK, OperationsKnown, ReservationsKnown, OperationStep
  PROVE  ReservationsKnown'
<1>1. CASE UNCHANGED storeVars
  BY <1>1 DEF storeVars, ReservationsKnown, Creates, InProgress, ReservationOf
<1>2. ASSUME NEW k \in Keys, NEW x \in BOOLEAN, Leases(k, x)
      PROVE  ReservationsKnown'
  <2>1. \A j \in Keys : /\ Creates(j)' <=> Creates(j)
                        /\ Creates(j) => ReservationOf(j)' = ReservationOf(j)
    BY <1>2, LeasesKeeps DEF Creates, InProgress, ReservationOf
  <2>2. credRes' = credRes
    BY <1>2 DEF Leases, restOfStore
  <2> QED BY <2>1, <2>2 DEF ReservationsKnown
<1> QED BY <1>1, <1>2, BeginsReservation, EndsReservation DEF OperationStep, Begins

\* A credential row appears only where its own operation ends.
LEMMA CredentialsKnownStep ==
  ASSUME StoreTypeOK, OperationsKnown, ReservationsKnown, CredentialsKnown, OperationStep
  PROVE  CredentialsKnown'
<1>1. CASE UNCHANGED storeVars
  BY <1>1 DEF storeVars, CredentialsKnown, Finished
<1>2. ASSUME NEW k \in Keys, NEW x \in BOOLEAN, Leases(k, x)
      PROVE  CredentialsKnown'
  <2>1. creds' = creds
    BY <1>2 DEF Leases, restOfStore
  <2> QED BY <1>2, <2>1, LeasesKeeps DEF CredentialsKnown, Finished
<1>3. ASSUME NEW a \in Attempts, NEW r \in Requests, Begins(a, r)
      PROVE  CredentialsKnown'
  <2>1. PrepareExecute(r, a) /\ creds' = creds
    BY <1>3 DEF Begins, PrepareExecute
  <2>2. /\ \A j \in Keys \ {r.key} : receipts'[j] = receipts[j]
        /\ ~Finished(r.key)
    BY <2>1, BeginsKeeps DEF Finished, InProgress
  <2> QED BY <2>1, <2>2 DEF CredentialsKnown, Finished
<1>4. ASSUME NEW a \in Attempts, NEW r \in Requests, Ends(a, r)
      PROVE  CredentialsKnown'
  <2>1. /\ \A j \in Keys \ {r.key} : receipts'[j] = receipts[j]
        /\ InProgress(r.key) /\ receipts[r.key].op = a /\ receipts[r.key] # None
        /\ receipts'[r.key] # None /\ receipts'[r.key].state # "in_progress"
        /\ receipts'[r.key].op = a /\ receipts'[r.key].req = r
    BY <1>4, EndsKeeps
  <2>2. LocalTo(r.svc)
    BY <1>4, EndsLocal
  <2> SUFFICES ASSUME NEW c \in Keys, creds'[c] # None
               PROVE  /\ Finished(c)'
                      /\ creds'[c].gkey = receipts'[c].op
                      /\ creds'[c].svc = receipts'[c].req.svc
    BY DEF CredentialsKnown
  <2>3. CASE creds[c] # None
    <3>1. Finished(c) /\ c # r.key
      BY <2>1, <2>3 DEF CredentialsKnown, Finished, InProgress
    <3> QED BY <2>1, <2>2, <2>3, <3>1 DEF CredentialsKnown, LocalTo, Finished
  <2>4. CASE creds[c] = None
    <3>1. ctx[a].cred \in Keys /\ CompleteCreate(r, a, ctx[a].cred) /\ c = ctx[a].cred
      <4>1. ~CompleteDelete(r, a)
        BY <2>4 DEF CompleteDelete, ActiveOf
      <4>2. ~CompleteRevoke(r, a)
        BY <2>4 DEF CompleteRevoke, RevokeApplies, StoreTypeOK
      <4>3. creds' # creds
        BY <2>4
      <4>4. ctx[a].cred \in Keys /\ CompleteCreate(r, a, ctx[a].cred)
        BY <1>4, <4>1, <4>2, <4>3 DEF Ends, CompleteReconcile, FailOperation
      <4> QED BY <2>4, <4>4 DEF CompleteCreate, StoreTypeOK
    <3>2. c = r.key
      BY <2>1, <3>1, ReservationUnique, RequestFields DEF CompleteCreate, CreateApplies
    <3>3. creds'[c].gkey = a /\ creds'[c].svc = r.svc
      BY <3>1 DEF CompleteCreate, StoreTypeOK
    <3> QED BY <2>1, <3>2, <3>3 DEF Finished
  <2> QED BY <2>3, <2>4
<1> QED BY <1>1, <1>2, <1>3, <1>4 DEF OperationStep

\* Rows of a service are still written together.
LEMMA RowsTogetherStep ==
  ASSUME StoreTypeOK, RowsTogether, OperationStep
  PROVE  RowsTogether'
<1>1. CASE services' = services /\ buckets' = buckets
  BY <1>1 DEF RowsTogether
<1>2. ASSUME NEW a \in Attempts, NEW r \in Requests, Ends(a, r)
      PROVE  RowsTogether'
  <2>0. r.svc \in Services
    BY RequestFields
  <2>1. LocalTo(r.svc)
    BY <1>2, EndsLocal
  <2> DEFINE row == [org |-> r.org, project |-> r.project, name |-> r.name, gen |-> r.gen,
                     quota |-> r.quota, bucket |-> r.bucket, phase |-> "ready"]
             gone == [services[r.svc] EXCEPT !.gen = r.gen, !.phase = "deleted"]
  <2>2. row # None
    BY RequestFields, NoRowAssumption DEF ServiceRow
  <2>3. services[r.svc] # None => gone # None
    <3>1. services[r.svc] # None => gone \in ServiceRow
      BY <2>0, RequestFields, ZenonT(60) DEF StoreTypeOK, ServiceRow
    <3> QED BY <3>1, NoRowAssumption
  <2>4. \/ services'[r.svc] = services[r.svc] /\ buckets'[r.svc] = buckets[r.svc]
        \/ services'[r.svc] = row
        \/ services'[r.svc] = gone /\ services[r.svc] # None /\ buckets' = buckets
    <3>1. CASE CompleteReconcile(r, a, ctx[a].bucket)
      BY <2>0, <3>1 DEF CompleteReconcile, StoreTypeOK
    <3>2. CASE CompleteDelete(r, a)
      BY <2>0, <3>2 DEF CompleteDelete, DeleteApplies, StoreTypeOK
    <3>3. CASE services' = services /\ buckets' = buckets
      BY <3>3
    <3> QED
      BY <1>2, <3>1, <3>2, <3>3 DEF Ends, CompleteCreate, CompleteRevoke, FailOperation
  <2> HIDE DEF row, gone
  <2> QED BY <2>0, <2>1, <2>2, <2>3, <2>4 DEF RowsTogether, LocalTo
<1> QED
  BY <1>1, <1>2 DEF OperationStep, storeVars, Leases, restOfStore, Begins, PrepareExecute

\* What a prepare accepts is what the operation may rely on.
LEMMA BeginsUndertakes ==
  ASSUME StoreTypeOK, OperationsSound, NEW r \in Requests, NEW a \in Attempts,
         PrepareExecute(r, a)
  PROVE  Undertaken(r)'
<1>0. /\ r.key \in Keys /\ r.action \in Actions /\ r.svc \in Services
      /\ r.bucket \in BucketNames /\ r.gen \in Nat
  BY RequestFields
<1>1. /\ Accept(r) /\ services' = services /\ buckets' = buckets /\ creds' = creds
      /\ names' = IF r.action = "reconcile" THEN [names EXCEPT ![r.bucket] = r.svc] ELSE names
  BY DEF PrepareExecute
<1>2. CASE r.action = "reconcile"
  <2>1. AcceptReconcile(r) /\ names'[r.bucket] = r.svc
    BY <1>0, <1>1, <1>2 DEF Accept, StoreTypeOK
  <2>2. services[r.svc] # None => services[r.svc].gen \in Nat
    BY <1>0 DEF StoreTypeOK, ServiceRow
  <2> QED BY <1>0, <1>1, <1>2, <2>1, <2>2 DEF AcceptReconcile, Undertaken, InScope
<1>3. CASE r.action = "delete"
  BY <1>1, <1>3 DEF Accept, AcceptDelete, Undertaken, DeleteApplies, InScope
<1>4. CASE r.action = "create"
  <2>1. AcceptCreate(r)
    BY <1>1, <1>4 DEF Accept
  <2>2. \A d \in Keys : creds[d] # None => ~(creds[d].svc = r.svc /\ creds[d].name = r.name)
    <3>1. CASE ClaimNew(r)
      BY <2>1, <3>1 DEF AcceptCreate, CredentialNameFree
    <3>2. CASE ~ClaimNew(r)
      <4>1. InProgress(r.key) /\ receipts[r.key].req = r
        BY <3>2, BeginsKeeps DEF ClaimNew
      <4>2. Undertaken(r)
        BY <1>0, <4>1 DEF OperationsSound
      <4> QED BY <1>4, <4>2 DEF Undertaken
    <3> QED BY <3>1, <3>2
  <2> QED BY <1>1, <1>4, <2>1, <2>2 DEF AcceptCreate, Undertaken, ReadyBucket, InScope
<1>5. CASE r.action = "revoke"
  BY <1>1, <1>5 DEF Accept, AcceptRevoke, Undertaken, RevokeApplies, ReadyBucket, InScope
<1> QED BY <1>0, <1>2, <1>3, <1>4, <1>5 DEF Actions

\* What operations in progress rely on stays true.
LEMMA OperationsSoundStep ==
  ASSUME StoreTypeOK, SingleOperation, OperationsSound, OperationStep
  PROVE  OperationsSound'
<1> SUFFICES ASSUME NEW k \in Keys, NEW q, InProgress(k)', receipts'[k].req = q
             PROVE  Undertaken(q)'
  BY DEF OperationsSound
<1>1. ASSUME InProgress(k), receipts[k].req = q
      PROVE  Undertaken(q) /\ q \in Requests
  <2>1. receipts[k] \in Receipt
    BY <1>1 DEF InProgress, StoreTypeOK
  <2> QED BY <1>1, <2>1 DEF OperationsSound, Receipt
<1>2. CASE UNCHANGED storeVars
  <2>1. InProgress(k) /\ receipts[k].req = q
    BY <1>2 DEF storeVars, InProgress
  <2>2. Undertaken(q)
    BY <1>1, <2>1
  <2> QED
    BY <1>2, <2>2 DEF storeVars, Undertaken, InScope, DeleteApplies, ReadyBucket, RevokeApplies
<1>3. ASSUME NEW j \in Keys, NEW x \in BOOLEAN, Leases(j, x)
      PROVE  Undertaken(q)'
  <2>1. InProgress(k) /\ receipts[k].req = q
    BY <1>3, LeasesKeeps DEF InProgress
  <2>2. Undertaken(q)
    BY <1>1, <2>1
  <2> QED
    BY <1>3, <2>2 DEF Leases, restOfStore, Undertaken, InScope, DeleteApplies, ReadyBucket,
       RevokeApplies
<1>4. ASSUME NEW a \in Attempts, NEW r \in Requests, Begins(a, r)
      PROVE  Undertaken(q)'
  <2>1. PrepareExecute(r, a)
    BY <1>4 DEF Begins
  <2>2. CASE k = r.key
    <3>1. q = r
      BY <2>1, <2>2, BeginsKeeps
    <3> QED BY <2>1, <3>1, BeginsUndertakes
  <2>3. CASE k # r.key
    <3>1. InProgress(k) /\ receipts[k].req = q /\ ~ParallelOperation(r.key, r.svc)
      BY <2>1, <2>3, BeginsKeeps DEF InProgress
    <3>2. q.svc # r.svc /\ r.svc \in Services
      BY <2>3, <3>1, RequestFields DEF ParallelOperation
    <3> QED BY <1>1, <2>1, <3>1, <3>2, BeginsLocal, UndertakenLocal
  <2> QED BY <2>2, <2>3
<1>5. ASSUME NEW a \in Attempts, NEW r \in Requests, Ends(a, r)
      PROVE  Undertaken(q)'
  <2>0. r.key \in Keys /\ r.svc \in Services
    BY RequestFields
  <2>1. /\ InProgress(r.key) /\ receipts[r.key].req = r
        /\ receipts'[r.key].state # "in_progress"
        /\ \A j \in Keys \ {r.key} : receipts'[j] = receipts[j]
    BY <1>5, EndsKeeps
  <2>2. k # r.key /\ InProgress(k) /\ receipts[k].req = q
    BY <2>1 DEF InProgress
  <2>3. q.svc # r.svc
    BY <2>0, <2>1, <2>2 DEF SingleOperation
  <2> QED BY <1>1, <1>5, <2>0, <2>2, <2>3, EndsLocal, UndertakenLocal
<1> QED BY <1>2, <1>3, <1>4, <1>5 DEF OperationStep

\* The credential id that a takeover chooses is the key's, as at first.
LEMMA CredentialIdStep ==
  ASSUME StoreTypeOK, HandlerTypeOK, OperationsKnown, ReservationsKnown, CredentialIdKnown,
         [Next]_vars
  PROVE  CredentialIdKnown'
<1> SUFFICES ASSUME NEW b \in Attempts, Running(b)', req'[b].action = "create"
             PROVE  ctx'[b].cred = req'[b].key
  BY DEF CredentialIdKnown
<1>1. CASE pc[b] # "idle"
  <2>1. /\ req'[b] = req[b]
        /\ pc[b] # "done"
        /\ ctx'[b].cred = ctx[b].cred
    BY <1>1, StartedKeeps DEF Running
  <2> QED BY <1>1, <2>1 DEF CredentialIdKnown, Running
<1>2. CASE pc[b] = "idle"
  <2>1. Prepare(b)
    <3>1. ASSUME NEW a \in Attempts, Step(a) \/ Abandon(a)
          PROVE  Prepare(b)
      <4>1. CASE a # b
        <5>1. pc'[b] = pc[b]
          BY <3>1, <4>1 DEF HandlerTypeOK, Step, Abandon, Prepare, Renew, LookupBucket,
             CreateServiceBucket, UpdateQuotas, CheckUsage, RevokeKey, DeleteServiceBucket,
             ListKeys, PurgeKey, CreateAccessKey, AllowKey, UndoKey, Complete, Cleanup, Fail,
             NotOwner, GarageFails, Goto, Remember, Return
        <5> QED BY <1>2, <5>1 DEF Running
      <4>2. CASE a = b
        BY <1>2, <3>1, <4>2 DEF Step, Abandon, Renew, LookupBucket,
             CreateServiceBucket, UpdateQuotas, CheckUsage, RevokeKey, DeleteServiceBucket,
             ListKeys, PurgeKey, CreateAccessKey, AllowKey, UndoKey, Complete, Cleanup, Fail
      <4> QED BY <4>1, <4>2
    <3>2. ASSUME UNCHANGED handlerVars
          PROVE  FALSE
      BY <1>2, <3>2 DEF handlerVars, Running
    <3>3. UNCHANGED vars => UNCHANGED handlerVars
      BY DEF vars, handlerVars
    <3> QED BY <3>1, <3>2, <3>3 DEF Next, ExpireLease, S3Client
  <2>2. PICK r \in Requests :
          /\ req' = [req EXCEPT ![b] = r]
          /\ PrepareExecute(r, b)
          /\ ctx' = [ctx EXCEPT ![b] = ExecuteContext(r)]
    <3>1. ~(pc' = [pc EXCEPT ![b] = "done"])
      BY DEF Running, HandlerTypeOK
    <3> QED BY <2>1, <3>1 DEF Prepare
  <2>3. r.action = "create" /\ r.key \in Keys /\ req'[b] = r /\ ctx'[b] = ExecuteContext(r)
    BY <2>2, RequestFields DEF HandlerTypeOK
  <2>4. ExecuteContext(r).cred
          = IF ClaimNew(r) THEN r.key ELSE CHOOSE c \in Keys : ReservationFor(r, c)
    BY <2>3 DEF ExecuteContext, NoContext
  <2>5. CASE ~ClaimNew(r)
    <3>1. \E c \in Keys : ReservationFor(r, c)
      BY <2>2, <2>3, <2>5 DEF PrepareExecute, Accept, AcceptCreate
    <3>2. receipts[r.key] # None
      BY <2>5 DEF ClaimNew
    <3>3. \A c \in Keys : ReservationFor(r, c) => c = r.key
      BY <2>3, <3>2, ReservationUnique DEF ReservationFor
    <3>4. (CHOOSE c \in Keys : ReservationFor(r, c)) = r.key
      BY <3>1, <3>3
    <3> QED BY <2>3, <2>4, <2>5, <3>4
  <2> QED BY <2>3, <2>4, <2>5
<1> QED BY <1>1, <1>2

\* The names of the service whose operation ends.
LEMMA EndsNames ==
  ASSUME StoreInv, SingleOperation, RowsTogether, OperationsSound, NamesAccounted,
         NEW a \in Attempts, NEW r \in Requests, Ends(a, r)
  PROVE  /\ \A b \in BucketNames : names'[b] = r.svc =>
              Ready(r.svc)' /\ buckets'[r.svc].bucket = b
         /\ Ready(r.svc)' => names'[buckets'[r.svc].bucket] = r.svc
<1> USE DEF StoreInv
<1>0. /\ r.key \in Keys /\ r.svc \in Services /\ r.bucket \in BucketNames
      /\ r.svc # None
  BY RequestFields, NoneAssumption
<1>1. InProgress(r.key) /\ receipts[r.key].req = r /\ Undertaken(r)
  BY <1>0, EndsKeeps DEF OperationsSound
<1>2. r.action = "reconcile" /\ services[r.svc] # None => Ready(r.svc)
  <2>1. services[r.svc] # None => services[r.svc].phase \in {"ready", "deleted"}
    BY <1>0 DEF StoreTypeOK, ServiceRow
  <2> QED BY <1>1, <2>1 DEF Undertaken, Ready
<1>3. ASSUME NEW b \in BucketNames, names[b] = r.svc
      PROVE  \/ Ready(r.svc) /\ buckets[r.svc].bucket = b
             \/ r.action = "reconcile"
  <2>1. \A k \in Keys : InProgress(k) /\ receipts[k].req.svc = r.svc => k = r.key
    BY <1>0, <1>1 DEF SingleOperation
  <2> QED BY <1>0, <1>1, <1>3, <2>1 DEF NamesAccounted
<1>4. Ready(r.svc) =>
        names[buckets[r.svc].bucket] = r.svc /\ buckets[r.svc].bucket \in BucketNames
  BY <1>0 DEF NamesAccounted, BucketRowPresent, StoreTypeOK, BucketRow, Ready
<1>5. CASE r.action = "reconcile" /\ ctx[a].bucket \in Attempts
           /\ CompleteReconcile(r, a, ctx[a].bucket)
  <2>1. /\ services'[r.svc] = [org |-> r.org, project |-> r.project, name |-> r.name,
             gen |-> r.gen, quota |-> r.quota, bucket |-> r.bucket, phase |-> "ready"]
        /\ buckets'[r.svc] = [phys |-> ctx[a].bucket, bucket |-> r.bucket, quota |-> r.quota]
    BY <1>0, <1>5 DEF CompleteReconcile, StoreTypeOK
  <2>2. services'[r.svc] \in ServiceRow /\ services'[r.svc].phase = "ready"
        /\ buckets'[r.svc].bucket = r.bucket
    BY <2>1, RequestFields DEF ServiceRow
  <2>3. Ready(r.svc)'
    BY <2>2, NoRowAssumption DEF Ready
  <2>4. names[r.bucket] = r.svc
    BY <1>1, <1>5 DEF Undertaken
  <2> QED BY <1>0, <1>5, <2>2, <2>3, <2>4 DEF CompleteReconcile
<1>6. CASE r.action = "delete" /\ CompleteDelete(r, a)
  <2>1. services[r.svc] \in ServiceRow
    BY <1>0, <1>6 DEF CompleteDelete, DeleteApplies, StoreTypeOK
  <2>2. services'[r.svc].phase = "deleted"
    BY <1>0, <1>6, <2>1 DEF CompleteDelete, StoreTypeOK, ServiceRow
  <2>3. \A b \in BucketNames : names'[b] # r.svc
    BY <1>0, <1>6 DEF CompleteDelete
  <2> QED BY <2>2, <2>3 DEF Ready
<1>7. CASE /\ r.action \in {"create", "revoke"}
           /\ services' = services /\ buckets' = buckets /\ names' = names
  BY <1>3, <1>4, <1>7 DEF Ready
<1>8. CASE FailOperation(r, a)
  <2>1. services' = services /\ buckets' = buckets
    BY <1>8 DEF FailOperation
  <2>2. Ready(r.svc) => names'[buckets[r.svc].bucket] = r.svc
    BY <1>0, <1>4, <1>8 DEF FailOperation, Ready, BucketRowPresent
  <2>3. ASSUME NEW b \in BucketNames, names'[b] = r.svc
        PROVE  Ready(r.svc) /\ buckets[r.svc].bucket = b
    <3>1. names[b] = r.svc /\ buckets[r.svc] # None /\ buckets[r.svc].bucket = b
      BY <1>0, <1>8, <2>3 DEF FailOperation
    <3> QED BY <1>0, <1>2, <1>3, <3>1 DEF RowsTogether
  <2> QED BY <2>1, <2>2, <2>3 DEF Ready
<1> QED
  BY <1>5, <1>6, <1>7, <1>8 DEF Ends, CompleteCreate, CompleteRevoke

\* Names stay accounted for.
LEMMA NamesAccountedStep ==
  ASSUME StoreInv, SingleOperation, RowsTogether, OperationsSound, NamesAccounted, OperationStep
  PROVE  NamesAccounted'
<1> USE DEF StoreInv
<1> DEFINE Asks(k, t, b) == /\ InProgress(k)
                            /\ receipts[k].req.action = "reconcile"
                            /\ receipts[k].req.svc = t
                            /\ receipts[k].req.bucket = b
<1>1. ASSUME \A k \in Keys, t \in Services, b \in BucketNames : Asks(k, t, b) => Asks(k, t, b)',
             services' = services, buckets' = buckets, names' = names
      PROVE  NamesAccounted'
  BY <1>1 DEF NamesAccounted, Ready, StoreTypeOK
<1>2. CASE UNCHANGED storeVars
  BY <1>1, <1>2 DEF storeVars, InProgress
<1>3. ASSUME NEW k \in Keys, NEW x \in BOOLEAN, Leases(k, x)
      PROVE  NamesAccounted'
  BY <1>1, <1>3, LeasesKeeps DEF Leases, restOfStore, InProgress
<1>4. ASSUME NEW a \in Attempts, NEW r \in Requests, Begins(a, r)
      PROVE  NamesAccounted'
  <2>0. r.key \in Keys /\ r.svc \in Services /\ r.bucket \in BucketNames
    BY RequestFields
  <2>1. /\ PrepareExecute(r, a) /\ services' = services /\ buckets' = buckets
        /\ names' = IF r.action = "reconcile" THEN [names EXCEPT ![r.bucket] = r.svc] ELSE names
    BY <1>4 DEF Begins, PrepareExecute
  <2>2. \A k \in Keys, t \in Services, b \in BucketNames : Asks(k, t, b) => Asks(k, t, b)'
    BY <2>0, <2>1, BeginsKeeps DEF InProgress
  <2>3. CASE r.action # "reconcile"
    BY <1>1, <2>1, <2>2, <2>3
  <2>4. CASE r.action = "reconcile"
    <3>1. Asks(r.key, r.svc, r.bucket)'
      BY <2>1, <2>4, BeginsKeeps DEF InProgress
    <3>2. names[r.bucket] \in {None, r.svc} /\ names' = [names EXCEPT ![r.bucket] = r.svc]
      BY <2>1, <2>4 DEF PrepareExecute, Accept, AcceptReconcile, NameAvailable
    <3>3. ASSUME NEW b \in BucketNames, names'[b] # None
          PROVE  (\/ Ready(names[b]) /\ buckets[names[b]].bucket = b
                  \/ \E k \in Keys : Asks(k, names[b], b))'
      <4>1. CASE b = r.bucket
        BY <2>0, <3>1, <3>2, <4>1 DEF StoreTypeOK
      <4>2. CASE b # r.bucket
        <5>1. names'[b] = names[b] /\ names[b] \in Services
          BY <2>0, <3>2, <3>3, <4>2 DEF StoreTypeOK
        <5> QED BY <2>1, <2>2, <3>3, <5>1 DEF NamesAccounted, Ready
      <4> QED BY <4>1, <4>2
    <3>4. ASSUME NEW s \in Services, Ready(s)
          PROVE  names'[buckets[s].bucket] = s
      <4>1. names[buckets[s].bucket] = s /\ buckets[s].bucket \in BucketNames /\ s # None
        BY <3>4, NoneAssumption DEF NamesAccounted, BucketRowPresent, StoreTypeOK, BucketRow, Ready
      <4> QED BY <2>0, <3>2, <4>1 DEF StoreTypeOK
    <3>5. \A s \in Services : Ready(s)' => Ready(s) /\ buckets'[s] = buckets[s]
      BY <2>1 DEF Ready
    <3> HIDE DEF Asks
    <3>6. \A b \in BucketNames : names'[b] # None =>
            (\/ Ready(names[b]) /\ buckets[names[b]].bucket = b
             \/ \E k \in Keys : Asks(k, names[b], b))'
      BY <3>3
    <3>7. \A s \in Services : Ready(s)' => names'[buckets'[s].bucket] = s
      BY <3>4, <3>5
    <3> QED BY <3>6, <3>7 DEF NamesAccounted, Asks
  <2> QED BY <2>3, <2>4
<1>5. ASSUME NEW a \in Attempts, NEW r \in Requests, Ends(a, r)
      PROVE  NamesAccounted'
  <2>0. r.svc \in Services /\ r.key \in Keys
    BY RequestFields
  <2>1. LocalTo(r.svc)
    BY <1>5, EndsLocal
  <2>2. /\ \A j \in Keys \ {r.key} : receipts'[j] = receipts[j]
        /\ receipts[r.key].req = r
    BY <1>5, EndsKeeps
  <2>3. /\ \A b \in BucketNames : names'[b] = r.svc =>
             Ready(r.svc)' /\ buckets'[r.svc].bucket = b
        /\ Ready(r.svc)' => names'[buckets'[r.svc].bucket] = r.svc
    BY <1>5, EndsNames
  <2>4. ASSUME NEW t \in Services \ {r.svc}
        PROVE  Ready(t)' = Ready(t) /\ buckets'[t] = buckets[t]
    BY <2>1 DEF LocalTo, Ready
  <2>5. names' \in [BucketNames -> Services \cup {None}]
    BY <1>5 DEF Ends, CompleteReconcile, CompleteDelete, CompleteCreate, CompleteRevoke,
       FailOperation, StoreTypeOK
  <2>6. ASSUME NEW b \in BucketNames, NEW t \in Services, names'[b] = t
        PROVE  \/ Ready(t)' /\ buckets'[t].bucket = b
               \/ \E k \in Keys : Asks(k, t, b)'
    <3>1. CASE t = r.svc
      BY <2>3, <2>6, <3>1
    <3>2. CASE t # r.svc
      <4>1. names[b] = t
        BY <2>1, <2>6, <3>2 DEF LocalTo
      <4>2. \/ Ready(t) /\ buckets[t].bucket = b
            \/ \E k \in Keys : Asks(k, t, b)
        BY <4>1, NoneAssumption DEF NamesAccounted
      <4>3. \A k \in Keys : Asks(k, t, b) => Asks(k, t, b)'
        BY <2>2, <3>2 DEF InProgress
      <4> QED BY <2>4, <3>2, <4>2, <4>3
    <3> QED BY <3>1, <3>2
  <2>7. ASSUME NEW s \in Services, Ready(s)'
        PROVE  names'[buckets'[s].bucket] = s
    <3>1. CASE s = r.svc
      BY <2>3, <2>7, <3>1
    <3>2. CASE s # r.svc
      <4>1. Ready(s) /\ buckets'[s] = buckets[s]
        BY <2>4, <2>7, <3>2
      <4>2. names[buckets[s].bucket] = s /\ buckets[s].bucket \in BucketNames
        BY <4>1 DEF NamesAccounted, BucketRowPresent, StoreTypeOK, BucketRow, Ready
      <4> QED BY <2>1, <3>2, <4>1, <4>2 DEF LocalTo
    <3> QED BY <3>1, <3>2
  <2>8. \A b \in BucketNames : names'[b] # None => names'[b] \in Services
    BY <2>5
  <2>9. \A b \in BucketNames : names'[b] # None =>
          \/ Ready(names[b])' /\ buckets'[names'[b]].bucket = b
          \/ \E k \in Keys : Asks(k, names[b], b)'
    BY <2>6, <2>8 DEF Ready
  <2> QED BY <2>7, <2>9 DEF NamesAccounted
<1> QED BY <1>2, <1>3, <1>4, <1>5 DEF OperationStep

-----------------------------------------------------------------------------
(* The invariant *)

\* The invariant holds at first.
LEMMA OperationInvInit ==
  ASSUME Init
  PROVE  OperationInv
<1>1. /\ \A k \in Keys : receipts[k] = None /\ creds[k] = None /\ credRes[k] = None
      /\ \A s \in Services : services[s] = None /\ buckets[s] = None
      /\ \A b \in BucketNames : names[b] = None
      /\ \A a \in Attempts : pc[a] = "idle"
  BY DEF Init, StoreInit
<1>2. SingleOperation /\ OperationsKnown /\ ReservationsKnown /\ CredentialsKnown
  BY <1>1 DEF SingleOperation, OperationsKnown, ReservationsKnown, CredentialsKnown, Creates,
     InProgress
<1>3. RowsTogether /\ OperationsSound /\ NamesAccounted /\ CredentialIdKnown
  BY <1>1 DEF RowsTogether, OperationsSound, NamesAccounted, CredentialIdKnown, Ready,
     InProgress, Running
<1> QED BY <1>2, <1>3, TypeInvInit DEF OperationInv

\* Every step keeps the invariant.
LEMMA OperationInvNext ==
  ASSUME OperationInv, [Next]_vars
  PROVE  OperationInv'
<1> USE DEF OperationInv
<1>1. TypeInv'
  BY TypeInvNext
<1>2. StoreTypeOK /\ StoreInv /\ HandlerTypeOK
  BY DEF TypeInv, StoreInv
<1>3. OperationStep /\ ReceiptStep
  BY <1>2, NextOperationStep, NextStoreStep, StoreReceiptStep
<1>4. SingleOperation'
  BY <1>2, <1>3, SingleOperationStep
<1>5. OperationsKnown'
  BY <1>2, <1>3, OperationsKnownStep
<1>6. ReservationsKnown'
  BY <1>2, <1>3, ReservationsKnownStep
<1>7. CredentialsKnown'
  BY <1>2, <1>3, CredentialsKnownStep
<1>8. RowsTogether'
  BY <1>2, <1>3, RowsTogetherStep
<1>9. OperationsSound'
  BY <1>2, <1>3, OperationsSoundStep
<1>10. NamesAccounted'
  BY <1>2, <1>3, NamesAccountedStep
<1>11. CredentialIdKnown'
  BY <1>2, CredentialIdStep
<1> QED BY <1>1, <1>4, <1>5, <1>6, <1>7, <1>8, <1>9, <1>10, <1>11

-----------------------------------------------------------------------------
(* The theorems *)

\* A credential reservation exists exactly while the creation of its key is
\* unfinished, under the operation id of the present owner: no takeover leaves
\* it behind and no end of an operation leaks it.
THEOREM ReservationsFollow == Spec => []ReservationFollowsReceipt
<1>1. ASSUME OperationInv
      PROVE  ReservationFollowsReceipt
  <2> SUFFICES ASSUME NEW c \in Keys
               PROVE  IF Creates(c)
                        THEN credRes[c] # None /\ credRes[c].op = receipts[c].op
                                               /\ credRes[c].svc = receipts[c].req.svc
                        ELSE credRes[c] = None
    BY DEF ReservationFollowsReceipt, Creates
  <2>1. credRes[c] = IF Creates(c) THEN ReservationOf(c) ELSE None
    BY <1>1 DEF OperationInv, ReservationsKnown
  <2>2. CASE Creates(c)
    <3>1. receipts[c] \in Receipt
      BY <1>1, <2>2 DEF OperationInv, TypeInv, StoreInv, StoreTypeOK, Creates, InProgress
    <3>2. receipts[c].op \in Attempts /\ receipts[c].req \in Requests
      BY <3>1 DEF Receipt
    <3>3. ReservationOf(c) \in ReservationRow
      BY <3>2, RequestFields DEF ReservationOf, ReservationRow
    <3> QED BY <2>1, <2>2, <3>3, NoRowAssumption DEF ReservationOf
  <2> QED BY <2>1, <2>2
<1> QED BY <1>1, OperationInvInit, OperationInvNext, PTL DEF Spec

\* Every reserved bucket name is a ready service's or asked for by an
\* unfinished reconciliation, and a ready service has its name reserved.
THEOREM NamesAlwaysAccounted == Spec => []NamesAccounted
<1>1. OperationInv => NamesAccounted
  BY DEF OperationInv
<1> QED BY <1>1, OperationInvInit, OperationInvNext, PTL DEF Spec

\* The attempt that owns an operation when it completes finds the service as
\* its prepare left it, however many takeovers, late attempts and operations
\* on other services came between.
THEOREM OwnerIsNotOvertaken == Spec => []OwnerNotOvertaken
<1>1. ASSUME OperationInv
      PROVE  OwnerNotOvertaken
  <2> USE DEF OperationInv
  <2> SUFFICES ASSUME NEW a \in Attempts, NEW r, r = req[a], pc[a] = "complete", Owns(r, a)
               PROVE  CASE r.action = "reconcile" ->
                             services[r.svc] # None =>
                               /\ InScope(r) /\ services[r.svc].gen <= r.gen
                               /\ ~Deleted(r.svc)
                        [] r.action = "delete" ->
                             DeleteApplies(r) /\ r.gen = services[r.svc].gen + 1
                        [] r.action = "create" ->
                             CreateApplies(r, a, ctx[a].cred) /\ Ready(r.svc)
                        [] r.action = "revoke" -> RevokeApplies(r)
    BY DEF OwnerNotOvertaken
  <2>0. StoreTypeOK /\ HandlerTypeOK
    BY <1>1 DEF TypeInv, StoreInv
  <2>1. r \in Requests /\ r.key \in Keys /\ r.action \in Actions
    BY <2>0, RequestFields DEF HandlerTypeOK
  <2>2. InProgress(r.key) /\ receipts[r.key].req = r /\ receipts[r.key].op = a
    BY DEF Owns, Matches, InProgress
  <2>3. Undertaken(r)
    BY <1>1, <2>1, <2>2 DEF OperationsSound
  <2>4. CASE r.action = "reconcile"
    BY <2>3, <2>4 DEF Undertaken, Deleted
  <2>5. CASE r.action = "delete"
    BY <2>3, <2>5 DEF Undertaken
  <2>6. CASE r.action = "create"
    <3>1. ctx[a].cred = r.key
      BY <1>1, <2>6 DEF CredentialIdKnown, Running
    <3>2. credRes[r.key] = ReservationOf(r.key)
      BY <1>1, <2>1, <2>2, <2>6 DEF ReservationsKnown, Creates
    <3>3. ReservationOf(r.key) = [op |-> a, svc |-> r.svc, org |-> r.org, name |-> r.name]
      BY <2>2 DEF ReservationOf
    <3>4. ReservationOf(r.key) \in ReservationRow
      BY <2>1, <3>3, RequestFields DEF ReservationRow
    <3>5. /\ credRes[r.key] # None /\ credRes[r.key].op = a
          /\ credRes[r.key].svc = r.svc /\ credRes[r.key].name = r.name
      BY <3>2, <3>3, <3>4, NoRowAssumption
    <3>6. creds[r.key] = None
      BY <1>1, <2>1, <2>2 DEF CredentialsKnown, InProgress, Finished
    <3>7. ASSUME NEW d \in Keys, creds[d] # None
          PROVE  creds[d].gkey # a
      <4>1. d # r.key /\ receipts[d] # None /\ creds[d].gkey = receipts[d].op
        BY <1>1, <3>6, <3>7 DEF CredentialsKnown, Finished
      <4> QED BY <1>1, <2>1, <2>2, <4>1, OperationUnique DEF InProgress
    <3>8. CreateApplies(r, a, r.key)
      BY <2>3, <2>6, <3>5, <3>6, <3>7 DEF Undertaken, CreateApplies
    <3>9. Ready(r.svc)
      BY <2>3, <2>6 DEF Undertaken, ReadyBucket, Ready
    <3> QED BY <2>6, <3>1, <3>8, <3>9
  <2>7. CASE r.action = "revoke"
    BY <2>3, <2>7 DEF Undertaken
  <2> QED BY <2>1, <2>4, <2>5, <2>6, <2>7 DEF Actions
<1> QED BY <1>1, OperationInvInit, OperationInvNext, PTL DEF Spec

\* A service row stays, never goes back to an older generation, never moves
\* to another tenant or bucket, and never leaves 'deleted'.
THEOREM ServicesMoveForward == Spec => ServiceMovesForward
<1> DEFINE Forward(s) == /\ services'[s] # None
                         /\ services'[s].gen >= services[s].gen
                         /\ services'[s].org = services[s].org
                         /\ services'[s].project = services[s].project
                         /\ buckets'[s].bucket = buckets[s].bucket
                         /\ Deleted(s) => services'[s] = services[s]
<1>1. ASSUME OperationInv, [Next]_vars
      PROVE  \A s \in Services : services[s] # None => Forward(s)
  <2> USE DEF OperationInv
  <2> SUFFICES ASSUME NEW s \in Services, services[s] # None
               PROVE  Forward(s)
    OBVIOUS
  <2>0. StoreTypeOK /\ HandlerTypeOK /\ OperationStep
    BY <1>1, NextOperationStep DEF TypeInv, StoreInv
  <2>1. services[s] \in ServiceRow /\ services[s].gen \in Nat
    BY <2>0 DEF StoreTypeOK, ServiceRow
  <2>2. CASE services'[s] = services[s] /\ buckets'[s] = buckets[s]
    BY <2>1, <2>2
  <2>3. ASSUME NEW a \in Attempts, NEW r \in Requests, Ends(a, r)
        PROVE  Forward(s)
    <3>0. r.key \in Keys /\ r.gen \in Nat /\ r.svc \in Services
      BY RequestFields
    <3>1. Undertaken(r)
      BY <1>1, <2>0, <2>3, <3>0, EndsKeeps DEF OperationsSound
    <3>2. CASE r.svc # s
      BY <2>0, <2>2, <2>3, <3>2, EndsLocal DEF LocalTo
    <3>3. CASE r.svc = s /\ r.action = "reconcile" /\ CompleteReconcile(r, a, ctx[a].bucket)
      <4> DEFINE row == [org |-> r.org, project |-> r.project, name |-> r.name, gen |-> r.gen,
                         quota |-> r.quota, bucket |-> r.bucket, phase |-> "ready"]
      <4>1. services'[s] = row /\ buckets'[s].bucket = r.bucket
        BY <2>0, <3>3 DEF CompleteReconcile, StoreTypeOK
      <4>2. /\ row \in ServiceRow /\ row.gen = r.gen /\ row.org = r.org
            /\ row.project = r.project
        BY RequestFields DEF ServiceRow
      <4> HIDE DEF row
      <4>3. /\ services[s].org = r.org /\ services[s].project = r.project
            /\ services[s].gen <= r.gen /\ ~Deleted(s)
            /\ buckets[s].bucket = r.bucket
        BY <2>3, <3>1, <3>3 DEF Undertaken, InScope, Deleted
      <4> QED BY <2>1, <3>0, <4>1, <4>2, <4>3, NoRowAssumption
    <3>4. CASE r.svc = s /\ r.action = "delete" /\ CompleteDelete(r, a)
      <4> DEFINE row == [services[s] EXCEPT !.gen = r.gen, !.phase = "deleted"]
      <4>1. services'[s] = row /\ buckets' = buckets
        BY <2>0, <3>4 DEF CompleteDelete, StoreTypeOK
      <4>2. /\ row \in ServiceRow /\ row.gen = r.gen /\ row.org = services[s].org
            /\ row.project = services[s].project
        BY <2>1, RequestFields DEF ServiceRow
      <4> HIDE DEF row
      <4>3. r.gen = services[s].gen + 1 /\ ~Deleted(s)
        BY <3>1, <3>4 DEF Undertaken, DeleteApplies, Deleted
      <4> QED BY <2>1, <3>0, <4>1, <4>2, <4>3, NoRowAssumption
    <3>5. CASE services' = services /\ buckets' = buckets
      BY <2>2, <3>5
    <3> QED
      BY <2>3, <3>2, <3>3, <3>4, <3>5 DEF Ends, CompleteCreate, CompleteRevoke, FailOperation
  <2> QED
    BY <2>0, <2>2, <2>3
       DEF OperationStep, storeVars, Leases, restOfStore, Begins, PrepareExecute
<1>2. ASSUME OperationInv, [Next]_vars
      PROVE  [\A s \in Services : services[s] # None =>
                /\ services'[s] # None
                /\ services'[s].gen >= services[s].gen
                /\ services'[s].org = services[s].org
                /\ services'[s].project = services[s].project
                /\ buckets'[s].bucket = buckets[s].bucket
                /\ Deleted(s) => services'[s] = services[s]]_vars
  BY <1>1, <1>2
<1> QED BY <1>2, OperationInvInit, OperationInvNext, PTL DEF Spec, ServiceMovesForward

\* The event that the end of the operation of key k leaves.
EventOf(k) ==
  [key |-> k, by |-> receipts[k].resp.by,
   outcome |-> IF receipts[k].resp.failed THEN "failed" ELSE "allowed"]

\* A transaction that finishes a receipt writes the event of that receipt.
LEMMA EndsAudit ==
  ASSUME StoreTypeOK, NEW a \in Attempts, NEW r \in Requests, Ends(a, r)
  PROVE  audit' = audit \cup {EventOf(r.key)'}
<1>1. PICK failed \in BOOLEAN :
        /\ Owns(r, a) /\ FinishReceipt(r, a, failed)
        /\ InsertAudit(r, a, IF failed THEN "failed" ELSE "allowed")
  <2>1. CASE FailOperation(r, a)
    BY <2>1 DEF FailOperation
  <2>2. CASE /\ Owns(r, a) /\ FinishReceipt(r, a, FALSE)
             /\ InsertAudit(r, a, "allowed")
    BY <2>2
  <2> QED
    BY <2>1, <2>2 DEF Ends, CompleteReconcile, CompleteDelete, CompleteCreate, CompleteRevoke
<1>2. receipts'[r.key].resp = [by |-> a, failed |-> failed]
  BY <1>1, FinishedAnswer DEF EndsReceipt
<1>3. receipts'[r.key].resp.by = a /\ receipts'[r.key].resp.failed = failed
  BY <1>2
<1>4. EventOf(r.key)' = [key |-> r.key, by |-> a,
                         outcome |-> IF failed THEN "failed" ELSE "allowed"]
  BY <1>3 DEF EventOf
<1> QED BY <1>1, <1>4 DEF InsertAudit

\* There is exactly one audit event for each finished operation, by the
\* attempt that finished it, with its outcome.
THEOREM AuditIsComplete == Spec => []AuditMatchesReceipts
<1> DEFINE Events == {EventOf(k) : k \in {j \in Keys : Finished(j)}}
           Inv == OperationInv /\ audit = Events
<1>1. Init => Inv
  <2> SUFFICES ASSUME Init
               PROVE  Inv
    OBVIOUS
  <2>1. \A k \in Keys : ~Finished(k)
    BY DEF Init, StoreInit, Finished
  <2>2. audit = Events
    BY <2>1 DEF Init, StoreInit
  <2> QED BY <2>2, OperationInvInit
<1>2. ASSUME OperationInv, audit = Events, [Next]_vars
      PROVE  audit' = Events'
  <2>0. StoreTypeOK /\ OperationStep
    BY <1>2, NextOperationStep DEF OperationInv, TypeInv, StoreInv
  <2>1. ASSUME audit' = audit,
               \A k \in Keys : Finished(k)' <=> Finished(k),
               \A k \in Keys : Finished(k) => EventOf(k)' = EventOf(k)
        PROVE  audit' = Events'
    BY <1>2, <2>1
  <2>2. CASE UNCHANGED storeVars
    BY <2>1, <2>2 DEF storeVars, Finished, EventOf
  <2>3. ASSUME NEW k \in Keys, NEW x \in BOOLEAN, Leases(k, x)
        PROVE  audit' = Events'
    BY <2>0, <2>1, <2>3, LeasesKeeps DEF Leases, restOfStore, Finished, EventOf
  <2>4. ASSUME NEW a \in Attempts, NEW r \in Requests, Begins(a, r)
        PROVE  audit' = Events'
    <3>1. PrepareExecute(r, a) /\ audit' = audit
      BY <2>4 DEF Begins, PrepareExecute
    <3>2. /\ ~Finished(r.key) /\ ~Finished(r.key)'
          /\ \A k \in Keys \ {r.key} : receipts'[k] = receipts[k]
      BY <2>0, <3>1, BeginsKeeps DEF Finished, InProgress
    <3> QED BY <2>1, <3>1, <3>2 DEF Finished, EventOf
  <2>5. ASSUME NEW a \in Attempts, NEW r \in Requests, Ends(a, r)
        PROVE  audit' = Events'
    <3>0. r.key \in Keys
      BY RequestFields
    <3>1. audit' = audit \cup {EventOf(r.key)'}
      BY <2>0, <2>5, EndsAudit
    <3>2. /\ ~Finished(r.key) /\ Finished(r.key)'
          /\ \A k \in Keys \ {r.key} : receipts'[k] = receipts[k]
      BY <2>0, <2>5, EndsKeeps DEF Finished, InProgress
    <3>3. \A k \in Keys \ {r.key} : (Finished(k)' <=> Finished(k)) /\ EventOf(k)' = EventOf(k)
      BY <3>2 DEF Finished, EventOf
    <3> QED BY <1>2, <3>0, <3>1, <3>2, <3>3
  <2> QED BY <2>0, <2>2, <2>3, <2>4, <2>5 DEF OperationStep
<1>3. Inv /\ [Next]_vars => Inv'
  <2> HIDE DEF Events
  <2> QED BY <1>2, OperationInvNext
<1>4. Inv => AuditMatchesReceipts
  BY DEF AuditMatchesReceipts, EventOf
<1> QED BY <1>1, <1>3, <1>4, PTL DEF Spec

-----------------------------------------------------------------------------
(* Credential limits *)

\* Three ways in which two finite sets, of active credentials and of
\* reservations, change: an element is added, moved, or some are removed.
LEMMA CountAdd ==
  ASSUME NEW A, NEW R, NEW c, IsFiniteSet(A), IsFiniteSet(R), c \notin R
  PROVE  /\ IsFiniteSet(R \cup {c})
         /\ Cardinality(A) + Cardinality(R \cup {c}) = Cardinality(A) + Cardinality(R) + 1
         /\ Cardinality(A) + Cardinality(R) \in Nat
<1>1. IsFiniteSet(R \cup {c}) /\ Cardinality(R \cup {c}) = Cardinality(R) + 1
  BY FS_AddElement
<1>2. Cardinality(A) \in Nat /\ Cardinality(R) \in Nat
  BY FS_CardinalityType
<1> QED BY <1>1, <1>2

\* Moving an element from one set to the other keeps the count.
LEMMA CountMove ==
  ASSUME NEW A, NEW R, NEW c, IsFiniteSet(A), IsFiniteSet(R), c \notin A, c \in R
  PROVE  /\ IsFiniteSet(A \cup {c}) /\ IsFiniteSet(R \ {c})
         /\ Cardinality(A \cup {c}) + Cardinality(R \ {c}) = Cardinality(A) + Cardinality(R)
<1>1. IsFiniteSet(A \cup {c}) /\ Cardinality(A \cup {c}) = Cardinality(A) + 1
  BY FS_AddElement
<1>2. IsFiniteSet(R \ {c}) /\ Cardinality(R \ {c}) = Cardinality(R) - 1
  BY FS_RemoveElement
<1>3. Cardinality(A) \in Nat /\ Cardinality(R) \in Nat
  BY FS_CardinalityType
<1> QED BY <1>1, <1>2, <1>3

\* Removing elements does not raise the count.
LEMMA CountRemove ==
  ASSUME NEW A, NEW R, NEW B, NEW T, IsFiniteSet(A), IsFiniteSet(R),
         B \subseteq A, T \subseteq R
  PROVE  /\ IsFiniteSet(B) /\ IsFiniteSet(T)
         /\ Cardinality(B) + Cardinality(T) <= Cardinality(A) + Cardinality(R)
<1>1. IsFiniteSet(B) /\ Cardinality(B) <= Cardinality(A)
  BY FS_Subset
<1>2. IsFiniteSet(T) /\ Cardinality(T) <= Cardinality(R)
  BY FS_Subset
<1>3. /\ Cardinality(A) \in Nat /\ Cardinality(R) \in Nat
      /\ Cardinality(B) \in Nat /\ Cardinality(T) \in Nat
  BY <1>1, <1>2, FS_CardinalityType
<1> QED BY <1>1, <1>2, <1>3

\* The credentials and reservations of each service and organization are
\* finitely many, and within the limits.
LimitInv ==
  /\ \A s \in Services : IsFiniteSet(ActiveOf(s)) /\ IsFiniteSet(ReservedOf(s))
  /\ \A o \in Orgs : IsFiniteSet(ActiveIn(o)) /\ IsFiniteSet(ReservedIn(o))
  /\ CredentialLimits

\* A step that adds no reservation and no active credential keeps the limits.
LEMMA LimitsShrink ==
  ASSUME LimitInv,
         \A s \in Services : ActiveOf(s)' \subseteq ActiveOf(s)
                             /\ ReservedOf(s)' \subseteq ReservedOf(s),
         \A o \in Orgs : ActiveIn(o)' \subseteq ActiveIn(o)
                         /\ ReservedIn(o)' \subseteq ReservedIn(o)
  PROVE  LimitInv'
<1>1. ASSUME NEW A, NEW R, NEW B, NEW T, NEW m \in Nat, IsFiniteSet(A), IsFiniteSet(R),
             B \subseteq A, T \subseteq R, Cardinality(A) + Cardinality(R) <= m
      PROVE  /\ IsFiniteSet(B) /\ IsFiniteSet(T)
             /\ Cardinality(B) + Cardinality(T) <= m
  <2>1. /\ IsFiniteSet(B) /\ IsFiniteSet(T)
        /\ Cardinality(B) + Cardinality(T) <= Cardinality(A) + Cardinality(R)
    BY <1>1, CountRemove
  <2>2. /\ Cardinality(A) \in Nat /\ Cardinality(R) \in Nat
        /\ Cardinality(B) \in Nat /\ Cardinality(T) \in Nat
    BY <1>1, <2>1, FS_CardinalityType
  <2> QED BY <1>1, <2>1, <2>2
<1>2. ASSUME NEW s \in Services
      PROVE  /\ IsFiniteSet(ActiveOf(s)') /\ IsFiniteSet(ReservedOf(s)')
             /\ Cardinality(ActiveOf(s)') + Cardinality(ReservedOf(s)') <= MaxPerBucket
  BY <1>1, LimitsAssumption DEF LimitInv, CredentialLimits
<1>3. ASSUME NEW o \in Orgs
      PROVE  /\ IsFiniteSet(ActiveIn(o)') /\ IsFiniteSet(ReservedIn(o)')
             /\ Cardinality(ActiveIn(o)') + Cardinality(ReservedIn(o)') <= MaxTotal
  BY <1>1, LimitsAssumption DEF LimitInv, CredentialLimits
<1> QED BY <1>2, <1>3 DEF LimitInv, CredentialLimits

\* The service and organization of a reservation are its creation's.
LEMMA ReservedKnown ==
  StoreTypeOK /\ ReservationsKnown =>
    \A c \in Keys :
      /\ credRes[c] # None <=> Creates(c)
      /\ Creates(c) => /\ credRes[c].svc = receipts[c].req.svc
                       /\ credRes[c].org = receipts[c].req.org
<1> SUFFICES ASSUME StoreTypeOK, ReservationsKnown, NEW c \in Keys
             PROVE  /\ credRes[c] # None <=> Creates(c)
                    /\ Creates(c) => /\ credRes[c].svc = receipts[c].req.svc
                                     /\ credRes[c].org = receipts[c].req.org
  OBVIOUS
<1>1. credRes[c] = IF Creates(c) THEN ReservationOf(c) ELSE None
  BY DEF ReservationsKnown
<1>2. CASE Creates(c)
  <2>1. receipts[c] \in Receipt
    BY <1>2 DEF StoreTypeOK, Creates, InProgress
  <2>2. receipts[c].op \in Attempts /\ receipts[c].req \in Requests
    BY <2>1 DEF Receipt
  <2>3. ReservationOf(c) \in ReservationRow
    BY <2>2, RequestFields DEF ReservationOf, ReservationRow
  <2> QED BY <1>1, <1>2, <2>3, NoRowAssumption DEF ReservationOf
<1> QED BY <1>1, <1>2

LEMMA ReservedKnownNext ==
  (StoreTypeOK /\ ReservationsKnown =>
    \A c \in Keys :
      /\ credRes[c] # None <=> Creates(c)
      /\ Creates(c) => /\ credRes[c].svc = receipts[c].req.svc
                       /\ credRes[c].org = receipts[c].req.org)'
BY ReservedKnown, PTL

\* A new creation was counted before it was accepted; a takeover keeps the
\* reservation it finds.
LEMMA BeginsLimits ==
  ASSUME StoreTypeOK, ReservationsKnown, StoreTypeOK', ReservationsKnown', LimitInv,
         NEW r \in Requests, NEW a \in Attempts, PrepareExecute(r, a)
  PROVE  LimitInv'
<1>0. /\ r.key \in Keys /\ r.svc \in Services /\ r.org \in Orgs
      /\ r.perBucket \in Nat /\ r.total \in Nat
  BY RequestsAssumption DEF Request
<1>1. /\ receipts'[r.key] # None /\ receipts'[r.key].req = r
      /\ receipts'[r.key].state = "in_progress"
      /\ \A j \in Keys \ {r.key} : receipts'[j] = receipts[j]
      /\ receipts[r.key] # None => InProgress(r.key) /\ receipts[r.key].req = r
  BY BeginsKeeps
<1>2. creds' = creds
  BY DEF PrepareExecute
<1>3. /\ \A s \in Services : ActiveOf(s)' = ActiveOf(s)
      /\ \A o \in Orgs : ActiveIn(o)' = ActiveIn(o)
  BY <1>2 DEF ActiveOf, ActiveIn
<1>4. /\ \A s \in Services : ReservedOf(s) = {c \in Keys : Creates(c) /\ receipts[c].req.svc = s}
      /\ \A o \in Orgs : ReservedIn(o) = {c \in Keys : Creates(c) /\ receipts[c].req.org = o}
  BY ReservedKnown DEF ReservedOf, ReservedIn
<1>5. /\ \A s \in Services :
           ReservedOf(s)' = {c \in Keys : Creates(c)' /\ receipts'[c].req.svc = s}
      /\ \A o \in Orgs :
           ReservedIn(o)' = {c \in Keys : Creates(c)' /\ receipts'[c].req.org = o}
  BY ReservedKnownNext DEF ReservedOf, ReservedIn
<1>6. \A c \in Keys \ {r.key} : Creates(c)' <=> Creates(c)
  BY <1>1 DEF Creates, InProgress
<1>7. Creates(r.key)' <=> r.action = "create"
  BY <1>1 DEF Creates, InProgress
<1>8. CASE ~(ClaimNew(r) /\ r.action = "create")
  <2>1. Creates(r.key)' => Creates(r.key) /\ receipts[r.key].req = r
    BY <1>1, <1>7, <1>8 DEF ClaimNew, Creates
  <2>2. /\ \A s \in Services : ReservedOf(s)' \subseteq ReservedOf(s)
        /\ \A o \in Orgs : ReservedIn(o)' \subseteq ReservedIn(o)
    BY <1>1, <1>4, <1>5, <1>6, <2>1
  <2> QED BY <1>3, <2>2, LimitsShrink
<1>9. CASE ClaimNew(r) /\ r.action = "create"
  <2>1. WithinLimits(r)
    BY <1>9 DEF PrepareExecute, Accept, AcceptCreate
  <2>2. ~Creates(r.key)
    BY <1>9 DEF ClaimNew, Creates, InProgress
  <2>3. /\ ReservedOf(r.svc)' = ReservedOf(r.svc) \cup {r.key}
        /\ r.key \notin ReservedOf(r.svc)
        /\ \A s \in Services \ {r.svc} : ReservedOf(s)' = ReservedOf(s)
    <3>1. ASSUME NEW s \in Services, NEW c \in Keys
          PROVE  c \in ReservedOf(s)' <=> c \in ReservedOf(s) \/ (c = r.key /\ s = r.svc)
      <4>1. CASE c = r.key
        BY <1>1, <1>4, <1>5, <1>7, <1>9, <2>2, <4>1
      <4>2. CASE c # r.key
        <5>1. Creates(c)' <=> Creates(c)
          BY <1>6, <4>2
        <5>2. receipts'[c] = receipts[c]
          BY <1>1, <4>2
        <5> QED BY <1>4, <1>5, <4>2, <5>1, <5>2
      <4> QED BY <4>1, <4>2
    <3>2. \A s \in Services : ReservedOf(s) \subseteq Keys /\ ReservedOf(s)' \subseteq Keys
      BY DEF ReservedOf
    <3>3. r.key \notin ReservedOf(r.svc)
      BY <1>0, <1>4, <2>2
    <3> QED BY <1>0, <3>1, <3>2, <3>3
  <2>4. /\ ReservedIn(r.org)' = ReservedIn(r.org) \cup {r.key}
        /\ r.key \notin ReservedIn(r.org)
        /\ \A o \in Orgs \ {r.org} : ReservedIn(o)' = ReservedIn(o)
    <3>1. ASSUME NEW o \in Orgs, NEW c \in Keys
          PROVE  c \in ReservedIn(o)' <=> c \in ReservedIn(o) \/ (c = r.key /\ o = r.org)
      <4>1. CASE c = r.key
        BY <1>1, <1>4, <1>5, <1>7, <1>9, <2>2, <4>1
      <4>2. CASE c # r.key
        <5>1. Creates(c)' <=> Creates(c)
          BY <1>6, <4>2
        <5>2. receipts'[c] = receipts[c]
          BY <1>1, <4>2
        <5> QED BY <1>4, <1>5, <4>2, <5>1, <5>2
      <4> QED BY <4>1, <4>2
    <3>2. \A o \in Orgs : ReservedIn(o) \subseteq Keys /\ ReservedIn(o)' \subseteq Keys
      BY DEF ReservedIn
    <3>3. r.key \notin ReservedIn(r.org)
      BY <1>0, <1>4, <2>2
    <3> QED BY <1>0, <3>1, <3>2, <3>3
  <2>5. /\ IsFiniteSet(ActiveOf(r.svc)) /\ IsFiniteSet(ReservedOf(r.svc))
        /\ IsFiniteSet(ActiveIn(r.org)) /\ IsFiniteSet(ReservedIn(r.org))
    BY <1>0 DEF LimitInv
  <2>6. ASSUME NEW A, NEW R, NEW asked \in Nat, NEW m \in Nat, IsFiniteSet(A), IsFiniteSet(R),
               r.key \notin R, Cardinality(A) + Cardinality(R) < Minimum(asked, m)
        PROVE  /\ IsFiniteSet(R \cup {r.key})
               /\ Cardinality(A) + Cardinality(R \cup {r.key}) <= m
    <3>1. Minimum(asked, m) \in Nat /\ Minimum(asked, m) <= m
      BY DEF Minimum
    <3>2. /\ IsFiniteSet(R \cup {r.key})
          /\ Cardinality(A) + Cardinality(R \cup {r.key}) = Cardinality(A) + Cardinality(R) + 1
          /\ Cardinality(A) + Cardinality(R) \in Nat
      BY <2>6, CountAdd
    <3> HIDE DEF Minimum
    <3> QED BY <2>6, <3>1, <3>2
  <2>7. /\ IsFiniteSet(ReservedOf(r.svc)')
        /\ Cardinality(ActiveOf(r.svc)) + Cardinality(ReservedOf(r.svc)') <= MaxPerBucket
    <3>1. Cardinality(ActiveOf(r.svc)) + Cardinality(ReservedOf(r.svc))
            < Minimum(r.perBucket, MaxPerBucket)
      BY <2>1 DEF WithinLimits
    <3>2. /\ IsFiniteSet(ReservedOf(r.svc) \cup {r.key})
          /\ Cardinality(ActiveOf(r.svc)) + Cardinality(ReservedOf(r.svc) \cup {r.key})
               <= MaxPerBucket
      BY <1>0, <2>3, <2>5, <2>6, <3>1, LimitsAssumption
    <3> QED BY <2>3, <3>2
  <2>8. /\ IsFiniteSet(ReservedIn(r.org)')
        /\ Cardinality(ActiveIn(r.org)) + Cardinality(ReservedIn(r.org)') <= MaxTotal
    <3>1. Cardinality(ActiveIn(r.org)) + Cardinality(ReservedIn(r.org))
            < Minimum(r.total, MaxTotal)
      BY <2>1 DEF WithinLimits
    <3>2. /\ IsFiniteSet(ReservedIn(r.org) \cup {r.key})
          /\ Cardinality(ActiveIn(r.org)) + Cardinality(ReservedIn(r.org) \cup {r.key})
               <= MaxTotal
      BY <1>0, <2>4, <2>5, <2>6, <3>1, LimitsAssumption
    <3> QED BY <2>4, <3>2
  <2>9. ASSUME NEW s \in Services
        PROVE  /\ IsFiniteSet(ActiveOf(s)') /\ IsFiniteSet(ReservedOf(s)')
               /\ Cardinality(ActiveOf(s)') + Cardinality(ReservedOf(s)') <= MaxPerBucket
    BY <1>3, <2>3, <2>7 DEF LimitInv, CredentialLimits
  <2>10. ASSUME NEW o \in Orgs
         PROVE  /\ IsFiniteSet(ActiveIn(o)') /\ IsFiniteSet(ReservedIn(o)')
                /\ Cardinality(ActiveIn(o)') + Cardinality(ReservedIn(o)') <= MaxTotal
    BY <1>3, <2>4, <2>8 DEF LimitInv, CredentialLimits
  <2> QED BY <2>9, <2>10 DEF LimitInv, CredentialLimits
<1> QED BY <1>8, <1>9

\* A creation that completes turns its reservation into an active credential
\* of the same service and organization; every other end frees what it held.
LEMMA EndsLimits ==
  ASSUME StoreTypeOK, OperationsKnown, ReservationsKnown, CredentialsKnown, LimitInv,
         NEW a \in Attempts, NEW r \in Requests, Ends(a, r)
  PROVE  LimitInv'
<1>0. r.key \in Keys /\ r.svc \in Services /\ r.org \in Orgs /\ r.cred \in Keys
  BY RequestFields
<1> DEFINE revoked(c) == [creds[c] EXCEPT !.status = "revoked"]
<1>1. ASSUME NEW c \in Keys, creds[c] # None
      PROVE  revoked(c).status # "active"
  BY <1>1 DEF StoreTypeOK, CredentialRow
<1>2. CASE /\ \A c \in Keys : creds'[c] = creds[c] \/ (creds[c] # None /\ creds'[c] = revoked(c))
           /\ \A c \in Keys : credRes'[c] \in {credRes[c], None}
  <2> HIDE DEF revoked
  <2>1. \A c \in Keys : creds'[c] = creds[c] \/ creds'[c].status # "active"
    BY <1>1, <1>2
  <2>2. /\ \A s \in Services : ActiveOf(s)' \subseteq ActiveOf(s)
        /\ \A o \in Orgs : ActiveIn(o)' \subseteq ActiveIn(o)
    BY <2>1 DEF ActiveOf, ActiveIn
  <2>3. /\ \A s \in Services : ReservedOf(s)' \subseteq ReservedOf(s)
        /\ \A o \in Orgs : ReservedIn(o)' \subseteq ReservedIn(o)
    BY <1>2 DEF ReservedOf, ReservedIn
  <2> QED BY <2>2, <2>3, LimitsShrink
<1>3. CASE ctx[a].cred \in Keys /\ CompleteCreate(r, a, ctx[a].cred)
  <2>1. /\ receipts[r.key] # None /\ receipts[r.key].op = a /\ receipts[r.key].req = r
        /\ InProgress(r.key)
    BY EndsKeeps
  <2>2. ctx[a].cred = r.key /\ credRes[r.key] # None /\ creds[r.key] = None
    BY <1>0, <1>3, <2>1, ReservationUnique DEF CompleteCreate, CreateApplies
  <2>3. credRes[r.key].svc = r.svc /\ credRes[r.key].org = r.org
    BY <1>0, <2>1, <2>2, ReservedKnown
  <2> DEFINE row == [svc |-> r.svc, org |-> r.org, name |-> r.name, gkey |-> a,
                     status |-> "active"]
  <2>4. /\ creds' = [creds EXCEPT ![r.key] = row]
        /\ credRes' = [credRes EXCEPT ![r.key] = None]
    BY <1>3, <2>2 DEF CompleteCreate
  <2>5. row # None /\ row.svc = r.svc /\ row.org = r.org /\ row.status = "active"
    BY RequestFields, NoRowAssumption DEF CredentialRow
  <2> HIDE DEF row
  <2>6. /\ creds'[r.key] = row /\ credRes'[r.key] = None
        /\ \A c \in Keys \ {r.key} : creds'[c] = creds[c] /\ credRes'[c] = credRes[c]
    BY <1>0, <2>4 DEF StoreTypeOK
  <2>7. /\ ActiveOf(r.svc)' = ActiveOf(r.svc) \cup {r.key} /\ r.key \notin ActiveOf(r.svc)
        /\ ReservedOf(r.svc)' = ReservedOf(r.svc) \ {r.key} /\ r.key \in ReservedOf(r.svc)
    BY <1>0, <2>2, <2>3, <2>5, <2>6 DEF ActiveOf, ReservedOf
  <2>8. /\ ActiveIn(r.org)' = ActiveIn(r.org) \cup {r.key} /\ r.key \notin ActiveIn(r.org)
        /\ ReservedIn(r.org)' = ReservedIn(r.org) \ {r.key} /\ r.key \in ReservedIn(r.org)
    BY <1>0, <2>2, <2>3, <2>5, <2>6 DEF ActiveIn, ReservedIn
  <2>9. \A s \in Services \ {r.svc} :
          ActiveOf(s)' = ActiveOf(s) /\ ReservedOf(s)' = ReservedOf(s)
    BY <1>0, <2>2, <2>3, <2>5, <2>6 DEF ActiveOf, ReservedOf
  <2>10. \A o \in Orgs \ {r.org} :
           ActiveIn(o)' = ActiveIn(o) /\ ReservedIn(o)' = ReservedIn(o)
    BY <1>0, <2>2, <2>3, <2>5, <2>6 DEF ActiveIn, ReservedIn
  <2>11. ASSUME NEW s \in Services
         PROVE  /\ IsFiniteSet(ActiveOf(s)') /\ IsFiniteSet(ReservedOf(s)')
                /\ Cardinality(ActiveOf(s)') + Cardinality(ReservedOf(s)') <= MaxPerBucket
    <3>1. /\ IsFiniteSet(ActiveOf(s)) /\ IsFiniteSet(ReservedOf(s))
          /\ Cardinality(ActiveOf(s)) + Cardinality(ReservedOf(s)) <= MaxPerBucket
      BY DEF LimitInv, CredentialLimits
    <3>2. CASE s = r.svc
      <4>1. /\ ActiveOf(s)' = ActiveOf(s) \cup {r.key} /\ r.key \notin ActiveOf(s)
            /\ ReservedOf(s)' = ReservedOf(s) \ {r.key} /\ r.key \in ReservedOf(s)
        BY <2>7, <3>2
      <4>2. /\ IsFiniteSet(ActiveOf(s) \cup {r.key}) /\ IsFiniteSet(ReservedOf(s) \ {r.key})
            /\ Cardinality(ActiveOf(s) \cup {r.key}) + Cardinality(ReservedOf(s) \ {r.key})
                 = Cardinality(ActiveOf(s)) + Cardinality(ReservedOf(s))
        BY <3>1, <4>1, CountMove
      <4> QED BY <3>1, <4>1, <4>2
    <3> QED BY <2>9, <3>1, <3>2
  <2>12. ASSUME NEW o \in Orgs
         PROVE  /\ IsFiniteSet(ActiveIn(o)') /\ IsFiniteSet(ReservedIn(o)')
                /\ Cardinality(ActiveIn(o)') + Cardinality(ReservedIn(o)') <= MaxTotal
    <3>1. /\ IsFiniteSet(ActiveIn(o)) /\ IsFiniteSet(ReservedIn(o))
          /\ Cardinality(ActiveIn(o)) + Cardinality(ReservedIn(o)) <= MaxTotal
      BY DEF LimitInv, CredentialLimits
    <3>2. CASE o = r.org
      <4>1. /\ ActiveIn(o)' = ActiveIn(o) \cup {r.key} /\ r.key \notin ActiveIn(o)
            /\ ReservedIn(o)' = ReservedIn(o) \ {r.key} /\ r.key \in ReservedIn(o)
        BY <2>8, <3>2
      <4>2. /\ IsFiniteSet(ActiveIn(o) \cup {r.key}) /\ IsFiniteSet(ReservedIn(o) \ {r.key})
            /\ Cardinality(ActiveIn(o) \cup {r.key}) + Cardinality(ReservedIn(o) \ {r.key})
                 = Cardinality(ActiveIn(o)) + Cardinality(ReservedIn(o))
        BY <3>1, <4>1, CountMove
      <4> QED BY <3>1, <4>1, <4>2
    <3> QED BY <2>10, <3>1, <3>2
  <2> QED BY <2>11, <2>12 DEF LimitInv, CredentialLimits
<1>4. CASE CompleteDelete(r, a)
  BY <1>2, <1>4 DEF CompleteDelete, ActiveOf
<1>5. CASE CompleteRevoke(r, a)
  BY <1>0, <1>2, <1>5 DEF CompleteRevoke, RevokeApplies, StoreTypeOK
<1>6. CASE creds' = creds /\ \A c \in Keys : credRes'[c] \in {credRes[c], None}
  BY <1>2, <1>6
<1> QED BY <1>3, <1>4, <1>5, <1>6 DEF Ends, CompleteReconcile, FailOperation

\* The configured limits hold for active credentials and reservations
\* together, per bucket and per organization, whatever creations run at once.
THEOREM LimitsHold == Spec => []CredentialLimits
<1> DEFINE Inv == OperationInv /\ LimitInv
<1>1. Init => Inv
  <2> SUFFICES ASSUME Init
               PROVE  LimitInv
    BY OperationInvInit
  <2>1. /\ \A s : ActiveOf(s) = {} /\ ReservedOf(s) = {}
        /\ \A o : ActiveIn(o) = {} /\ ReservedIn(o) = {}
    BY DEF Init, StoreInit, ActiveOf, ReservedOf, ActiveIn, ReservedIn
  <2> QED BY <2>1, FS_EmptySet, LimitsAssumption DEF LimitInv, CredentialLimits
<1>2. ASSUME OperationInv, LimitInv, [Next]_vars
      PROVE  LimitInv'
  <2> USE DEF OperationInv
  <2>0. StoreTypeOK /\ OperationStep
    BY <1>2, NextOperationStep DEF TypeInv, StoreInv
  <2>1. OperationInv'
    BY <1>2, OperationInvNext
  <2>2. StoreTypeOK'
    BY <2>1 DEF TypeInv, StoreInv
  <2>3. CASE creds' = creds /\ credRes' = credRes
    BY <1>2, <2>3 DEF LimitInv, CredentialLimits, ActiveOf, ReservedOf, ActiveIn, ReservedIn
  <2>4. ASSUME NEW a \in Attempts, NEW r \in Requests, Begins(a, r)
        PROVE  LimitInv'
    BY <1>2, <2>0, <2>1, <2>2, <2>4, BeginsLimits DEF Begins
  <2>5. ASSUME NEW a \in Attempts, NEW r \in Requests, Ends(a, r)
        PROVE  LimitInv'
    BY <1>2, <2>0, <2>5, EndsLimits
  <2> QED BY <2>0, <2>3, <2>4, <2>5 DEF OperationStep, storeVars, Leases, restOfStore
<1>3. Inv /\ [Next]_vars => Inv'
  BY <1>2, OperationInvNext
<1>4. Inv => CredentialLimits
  BY DEF LimitInv
<1> QED BY <1>1, <1>3, <1>4, PTL DEF Spec

=============================================================================
