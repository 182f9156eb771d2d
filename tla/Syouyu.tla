------------------------------- MODULE Syouyu -------------------------------
(***************************************************************************)
(* The mutating handlers of the Syouyu API (crates/syouyu-api/routes.rs    *)
(* and garage.rs) over the store and Garage.                               *)
(*                                                                         *)
(* Each attempt is one execution of a handler for one HTTP request.  Three *)
(* stateless replicas run attempts concurrently; a client may send the     *)
(* same request again at any time.  Between two calls (a store             *)
(* transaction or a Garage request) an attempt may be delayed for longer   *)
(* than its lease, and it may end without a trace: the process crashes,    *)
(* the client hangs up and the future is dropped, or the database fails.   *)
(***************************************************************************)
EXTENDS Store, Garage

VARIABLES
  pc,               \* the call each attempt makes next
  req,              \* the request it handles
  ctx,              \* what it remembers between calls
  reply             \* what its client received

handlerVars == <<pc, req, ctx, reply>>

vars == <<receipts, services, buckets, names, creds, credRes, audit,
          gBuckets, gKeys, pc, req, ctx, reply>>

Steps ==
  {"idle", "renew", "lookup", "createBucket", "updateQuotas", "usage", "renewKey",
   "revokeKey", "deleteBucket", "listKeys", "purgeKey", "createKey", "allowKey",
   "undoKey", "complete", "cleanup", "fail", "done"}

\* bucket: physical bucket id, if known; keys: Garage keys still to delete;
\* cred: credential id; prior: previously_applied.
Context == [bucket : Attempts \cup {None}, keys : SUBSET Attempts,
            cred : Keys \cup {None}, prior : BOOLEAN]

NoContext == [bucket |-> None, keys |-> {}, cred |-> None, prior |-> FALSE]

\* What the client of an attempt got: nothing (yet, or ever), 503
\* operation_in_progress, another error, or a stored response.
Replies == [kind : {"none", "busy", "error", "final"}, resp : Response \cup {None}]

Plain(kind) == [kind |-> kind, resp |-> None]

Final(resp) == [kind |-> "final", resp |-> resp]

\* The calls that the handler of each action makes.
StepsOf(action) ==
  {"renew", "complete", "fail"} \cup
  CASE action = "reconcile" -> {"lookup", "createBucket", "updateQuotas"}
    [] action = "delete" -> {"usage", "renewKey", "revokeKey", "deleteBucket"}
    [] action = "create" -> {"listKeys", "purgeKey", "createKey", "allowKey", "undoKey",
                             "cleanup"}
    [] action = "revoke" -> {"revokeKey"}

\* Besides the types: a running handler is at a step of its action, knows the
\* bucket and the credential when it needs them, and answers only when it ends.
HandlerTypeOK ==
  /\ pc \in [Attempts -> Steps]
  /\ req \in [Attempts -> Requests \cup {None}]
  /\ ctx \in [Attempts -> Context]
  /\ reply \in [Attempts -> Replies]
  /\ \A a \in Attempts :
       /\ pc[a] # "idle" => req[a] \in Requests
       /\ pc[a] \notin {"idle", "done"} =>
            /\ pc[a] \in StepsOf(req[a].action)
            /\ req[a].action \in {"delete", "create"} => ctx[a].bucket # None
            /\ req[a].action = "create" => ctx[a].cred # None
       /\ pc[a] # "done" => reply[a].kind = "none"
       /\ reply[a].kind = "final" => reply[a].resp # None
       /\ \/ pc[a] = "updateQuotas"
          \/ pc[a] = "complete" /\ req[a].action = "reconcile"
          => ctx[a].bucket # None

TypeOK == StoreTypeOK /\ GarageTypeOK /\ HandlerTypeOK

Init ==
  /\ StoreInit
  /\ GarageInit
  /\ pc = [a \in Attempts |-> "idle"]
  /\ req = [a \in Attempts |-> None]
  /\ ctx = [a \in Attempts |-> NoContext]
  /\ reply = [a \in Attempts |-> Plain("none")]

-----------------------------------------------------------------------------
(* Moving a handler on *)

Goto(a, step) ==
  /\ pc' = [pc EXCEPT ![a] = step]
  /\ UNCHANGED <<req, ctx, reply>>

Remember(a, step, c) ==
  /\ pc' = [pc EXCEPT ![a] = step]
  /\ ctx' = [ctx EXCEPT ![a] = c]
  /\ UNCHANGED <<req, reply>>

\* The handler returns, or stops.
Return(a, answer) ==
  /\ pc' = [pc EXCEPT ![a] = "done"]
  /\ ctx' = [ctx EXCEPT ![a] = NoContext]
  /\ reply' = [reply EXCEPT ![a] = answer]
  /\ UNCHANGED req

-----------------------------------------------------------------------------
(* prepare_*, renew_operation *)

\* The context Prepare::Execute carries.
ExecuteContext(r) ==
  CASE r.action = "reconcile" ->
         [NoContext EXCEPT
           !.bucket = IF services[r.svc] = None THEN None ELSE buckets[r.svc].phys,
           !.prior = services[r.svc] # None /\ r.gen = services[r.svc].gen]
    [] r.action = "delete" ->
         [NoContext EXCEPT !.bucket = buckets[r.svc].phys,
                           !.keys = {creds[c].gkey : c \in ActiveOf(r.svc)}]
    [] r.action = "create" ->
         [NoContext EXCEPT
           !.bucket = buckets[r.svc].phys,
           !.cred = IF ClaimNew(r) THEN r.key ELSE CHOOSE c \in Keys : ReservationFor(r, c)]
    [] r.action = "revoke" ->
         [NoContext EXCEPT !.prior = creds[r.cred].status = "revoked",
                           !.keys = {creds[r.cred].gkey}]

\* A reconcile that finds its generation applied goes straight to completion.
FirstStep(c, r) == IF r.action = "reconcile" /\ c.prior THEN "complete" ELSE "renew"

\* A request arrives and its prepare transaction runs.
Prepare(a) ==
  /\ pc[a] = "idle"
  /\ \E r \in Requests :
       /\ req' = [req EXCEPT ![a] = r]
       /\ \/ /\ PrepareExecute(r, a)
             /\ ctx' = [ctx EXCEPT ![a] = ExecuteContext(r)]
             /\ pc' = [pc EXCEPT ![a] = FirstStep(ExecuteContext(r), r)]
             /\ UNCHANGED reply
          \/ /\ \/ /\ PrepareReplay(r)
                   /\ reply' = [reply EXCEPT ![a] = Final(receipts[r.key].resp)]
                \/ PrepareBusy(r) /\ reply' = [reply EXCEPT ![a] = Plain("busy")]
                \/ PrepareRejected(r) /\ reply' = [reply EXCEPT ![a] = Plain("error")]
             /\ pc' = [pc EXCEPT ![a] = "done"]
             /\ UNCHANGED <<ctx, storeVars>>
  /\ UNCHANGED garageVars

\* The answer to a transaction that no longer owns the operation.
NotOwner(a) ==
  /\ ~Owns(req[a], a)
  /\ Return(a, Plain(IF LeaseLost(req[a], a) THEN "busy" ELSE "error"))
  /\ UNCHANGED storeVars

\* What a handler does once it has renewed its lease.
AfterRenew(a) ==
  CASE pc[a] = "renewKey" -> IF ctx[a].keys = {} THEN "deleteBucket" ELSE "revokeKey"
    [] req[a].action = "reconcile" -> "lookup"
    [] req[a].action = "delete" -> "usage"
    [] req[a].action = "create" -> "listKeys"
    [] req[a].action = "revoke" -> IF ctx[a].prior THEN "complete" ELSE "revokeKey"

Renew(a) ==
  /\ pc[a] \in {"renew", "renewKey"}
  /\ \/ RenewOperation(req[a], a) /\ Goto(a, AfterRenew(a))
     \/ NotOwner(a)
  /\ UNCHANGED garageVars

-----------------------------------------------------------------------------
(* reconcile_bucket *)

\* Garage refused the request, could not be reached, or answered too late
\* for a request it never got.
GarageFails(a) == Goto(a, "fail") /\ UNCHANGED garageVars

\* Variant of LookupBucket that does not keep the id of the bucket it found.
LookupForgetsBucket(a) ==
  /\ pc[a] = "lookup"
  /\ IF ctx[a].bucket = None /\ BucketsWithAlias(req[a].bucket) = {}
       THEN Goto(a, "createBucket") ELSE Goto(a, "updateQuotas")
  /\ UNCHANGED <<storeVars, garageVars>>

\* get_bucket or get_bucket_by_alias
LookupBucket(a) ==
  /\ pc[a] = "lookup"
  /\ LET known == ctx[a].bucket
         b == req[a].bucket
     IN \/ /\ known # None
           /\ BucketExists(known) /\ gBuckets[known].alias = b
           /\ Goto(a, "updateQuotas")
        \/ /\ known = None
           /\ \E p \in BucketsWithAlias(b) :
                Remember(a, "updateQuotas", [ctx[a] EXCEPT !.bucket = p])
        \/ known = None /\ BucketsWithAlias(b) = {} /\ Goto(a, "createBucket")
        \/ Goto(a, "fail")
  /\ UNCHANGED <<storeVars, garageVars>>

CreateServiceBucket(a) ==
  /\ pc[a] = "createBucket"
  /\ \/ /\ CreateBucket(a, req[a].bucket)
        /\ \/ Remember(a, "updateQuotas", [ctx[a] EXCEPT !.bucket = a])
           \/ Goto(a, "fail")
     \/ GarageFails(a)
  /\ UNCHANGED storeVars

UpdateQuotas(a) ==
  /\ pc[a] = "updateQuotas"
  /\ \/ /\ UpdateBucketQuotas(ctx[a].bucket, req[a].quota)
        /\ Goto(a, "complete") \/ Goto(a, "fail")
     \/ GarageFails(a)
  /\ UNCHANGED storeVars

-----------------------------------------------------------------------------
(* delete_service_instance and revoke_credential *)

\* bucket_usage: an absent bucket counts as empty, one in use fails the
\* deletion with bucket_not_empty.
CheckUsage(a) ==
  /\ pc[a] = "usage"
  /\ \/ /\ BucketExists(ctx[a].bucket) => ~gBuckets[ctx[a].bucket].full
        /\ Goto(a, "renewKey")
     \/ Goto(a, "fail")
  /\ UNCHANGED <<storeVars, garageVars>>

\* The keys are revoked one by one, in the order of their creation; any
\* order is allowed here.
RevokeKey(a) ==
  /\ pc[a] = "revokeKey"
  /\ \E g \in ctx[a].keys :
       \/ /\ DeleteKey(g)
          /\ \/ Remember(a, IF req[a].action = "delete" THEN "renewKey" ELSE "complete",
                         [ctx[a] EXCEPT !.keys = @ \ {g}])
             \/ Goto(a, "fail")
       \/ GarageFails(a)
  /\ UNCHANGED storeVars

\* Variant of DeleteServiceBucket that completes although Garage refused.
DeleteServiceBucketOrNot(a) ==
  /\ pc[a] = "deleteBucket"
  /\ \/ DeleteBucket(ctx[a].bucket)
     \/ UNCHANGED garageVars
  /\ Goto(a, "complete")
  /\ UNCHANGED storeVars

DeleteServiceBucket(a) ==
  /\ pc[a] = "deleteBucket"
  /\ \/ /\ DeleteBucket(ctx[a].bucket)
        /\ Goto(a, "complete") \/ Goto(a, "fail")
     \/ GarageFails(a)
  /\ UNCHANGED storeVars

-----------------------------------------------------------------------------
(* create_credential *)

PurgeNext(found) == IF found = {} THEN "createKey" ELSE "purgeKey"

\* Keys of the same deterministic name are what an earlier attempt left.
ListKeys(a) ==
  /\ pc[a] = "listKeys"
  /\ \/ LET found == KeysNamed(ctx[a].cred)
        IN Remember(a, PurgeNext(found), [ctx[a] EXCEPT !.keys = found])
     \/ Goto(a, "fail")
  /\ UNCHANGED <<storeVars, garageVars>>

PurgeKey(a) ==
  /\ pc[a] = "purgeKey"
  /\ \E g \in ctx[a].keys :
       \/ /\ DeleteKey(g)
          /\ \/ Remember(a, PurgeNext(ctx[a].keys \ {g}), [ctx[a] EXCEPT !.keys = @ \ {g}])
             \/ Goto(a, "fail")
       \/ GarageFails(a)
  /\ UNCHANGED storeVars

\* A key that comes back without its secret is deleted again.
CreateAccessKey(a) ==
  /\ pc[a] = "createKey"
  /\ \/ /\ CreateKey(a, ctx[a].cred)
        /\ Goto(a, "allowKey") \/ Goto(a, "undoKey") \/ Goto(a, "fail")
     \/ GarageFails(a)
  /\ UNCHANGED storeVars

AllowKey(a) ==
  /\ pc[a] = "allowKey"
  /\ \/ /\ AllowBucketKey(ctx[a].bucket, a)
        /\ Goto(a, "complete") \/ Goto(a, "undoKey")
     \/ Goto(a, "undoKey") /\ UNCHANGED garageVars
  /\ UNCHANGED storeVars

\* The result of this delete_key is ignored.
UndoKey(a) ==
  /\ pc[a] = "undoKey"
  /\ DeleteKey(a) \/ UNCHANGED garageVars
  /\ Goto(a, "fail")
  /\ UNCHANGED storeVars

-----------------------------------------------------------------------------
(* complete_*, fail_operation *)

\* The completion transaction of the request's action.
CompleteOperation(a) ==
  LET r == req[a]
  IN CASE r.action = "reconcile" -> CompleteReconcile(r, a, ctx[a].bucket)
       [] r.action = "delete"    -> CompleteDelete(r, a)
       [] r.action = "create"    -> CompleteCreate(r, a, ctx[a].cred)
       [] r.action = "revoke"    -> CompleteRevoke(r, a)

\* The conditions it checks besides ownership.
CompletionApplies(a) ==
  LET r == req[a]
  IN CASE r.action = "reconcile" -> ReconcileApplies(r, ctx[a].bucket)
       [] r.action = "delete"    -> DeleteApplies(r)
       [] r.action = "create"    -> CreateApplies(r, a, ctx[a].cred)
       [] r.action = "revoke"    -> RevokeApplies(r)

\* A commit whose acknowledgement is lost answers nothing.  An error leaves
\* the receipt in progress; a creation that lost its lease removes its key.
Complete(a) ==
  /\ pc[a] = "complete"
  /\ \/ /\ CompleteOperation(a)
        /\ Return(a, Final([by |-> a, failed |-> FALSE])) \/ Return(a, Plain("none"))
     \/ /\ req[a].action = "create" /\ LeaseLost(req[a], a)
        /\ Goto(a, "cleanup")
        /\ UNCHANGED storeVars
     \/ /\ ~(req[a].action = "create" /\ LeaseLost(req[a], a))
        /\ NotOwner(a)
     \/ /\ Owns(req[a], a) /\ ~CompletionApplies(a)
        /\ Return(a, Plain("error"))
        /\ UNCHANGED storeVars
  /\ UNCHANGED garageVars

\* The fenced attempt deletes the key it made; a failure is only logged.
Cleanup(a) ==
  /\ pc[a] = "cleanup"
  /\ DeleteKey(a) \/ UNCHANGED garageVars
  /\ Return(a, Plain("busy"))
  /\ UNCHANGED storeVars

\* persist_backend_failure and persist_failure
Fail(a) ==
  /\ pc[a] = "fail"
  /\ \/ /\ FailOperation(req[a], a)
        /\ Return(a, Final([by |-> a, failed |-> TRUE])) \/ Return(a, Plain("none"))
     \/ NotOwner(a)
  /\ UNCHANGED garageVars

-----------------------------------------------------------------------------
(* The environment *)

\* The execution ends between two calls.
Abandon(a) ==
  /\ pc[a] \notin {"idle", "done"}
  /\ Return(a, Plain("none"))
  /\ UNCHANGED <<storeVars, garageVars>>

ExpireLease(k) == LeaseExpires(k) /\ UNCHANGED <<garageVars, handlerVars>>

S3Client(p) == ClientWrites(p) /\ UNCHANGED <<storeVars, handlerVars>>

Step(a) ==
  \/ Prepare(a) \/ Renew(a)
  \/ LookupBucket(a) \/ CreateServiceBucket(a) \/ UpdateQuotas(a)
  \/ CheckUsage(a) \/ RevokeKey(a) \/ DeleteServiceBucket(a)
  \/ ListKeys(a) \/ PurgeKey(a) \/ CreateAccessKey(a) \/ AllowKey(a) \/ UndoKey(a)
  \/ Complete(a) \/ Cleanup(a) \/ Fail(a)

Next ==
  \/ \E a \in Attempts : Step(a) \/ Abandon(a)
  \/ \E k \in Keys : ExpireLease(k)
  \/ \E p \in Attempts : S3Client(p)

Spec == Init /\ [][Next]_vars

-----------------------------------------------------------------------------
(* Receipts *)

\* reject_parallel_operation under the service lock: no two keys have an
\* unfinished operation on one service, however leases run out and are taken
\* over.
SingleOperation ==
  \A j, k \in Keys :
    InProgress(j) /\ InProgress(k) /\ receipts[j].req.svc = receipts[k].req.svc => j = k

\* finish_receipt encrypts the response under the operation id of the attempt
\* that finishes, decode_receipt decrypts it under the id in the row: the
\* stored response is always the one of the row's operation, so that a fenced
\* attempt never leaves a receipt that cannot be read back.
ReceiptDecodes ==
  \A k \in Keys : Finished(k) =>
    receipts[k].resp = [by |-> receipts[k].op, failed |-> receipts[k].state = "failed"]

\* Every final answer a client gets for a key, fresh or replayed, is the one
\* stored in that key's receipt, and was asked for by the same request.
AnswersAgree ==
  \A a \in Attempts : reply[a].kind = "final" =>
    /\ receipts[req[a].key] # None
    /\ receipts[req[a].key].req = req[a]
    /\ receipts[req[a].key].resp = reply[a].resp

\* A finished receipt never changes again: late completions, late failures
\* and retries of the key leave it as it is.
FinishedIsFinal ==
  [][\A k \in Keys : Finished(k) => receipts'[k] = receipts[k]]_vars

\* claim_existing_receipt moves the credential reservation along with the
\* operation id: a reservation exists exactly while a creation is unfinished,
\* under the id of its present owner.
ReservationFollowsReceipt ==
  \A c \in Keys :
    IF InProgress(c) /\ receipts[c].req.action = "create"
      THEN credRes[c] # None /\ credRes[c].op = receipts[c].op
                             /\ credRes[c].svc = receipts[c].req.svc
      ELSE credRes[c] = None

\* insert_audit is in the transaction that finishes the receipt: there is one
\* event for each finished operation, by the attempt that finished it, and
\* none for attempts that were fenced off.
AuditMatchesReceipts ==
  audit = {[key |-> k, by |-> receipts[k].resp.by,
            outcome |-> IF receipts[k].resp.failed THEN "failed" ELSE "allowed"]
             : k \in {j \in Keys : Finished(j)}}

-----------------------------------------------------------------------------
(* Services and bucket names *)

Ready(s) == services[s] # None /\ services[s].phase = "ready"

Deleted(s) == services[s] # None /\ services[s].phase = "deleted"

\* complete_reconcile writes the two rows of a service together and nothing
\* takes one away: the CorruptData answers for a service without a bucket row
\* are unreachable.
BucketRowPresent == \A s \in Services : services[s] # None => buckets[s] # None

\* A service row never disappears, never goes back to an older generation,
\* never moves to another tenant or bucket, and never leaves 'deleted'.
ServiceMovesForward ==
  [][\A s \in Services : services[s] # None =>
       /\ services'[s] # None
       /\ services'[s].gen >= services[s].gen
       /\ services'[s].org = services[s].org
       /\ services'[s].project = services[s].project
       /\ buckets'[s].bucket = buckets[s].bucket
       /\ Deleted(s) => services'[s] = services[s]]_vars

\* A name is reserved for a ready service that has the bucket of that name,
\* or for an unfinished reconciliation that asks for it; failures and
\* deletions leak no reservation, and a ready service never loses its own.
NamesAccounted ==
  /\ \A b \in BucketNames : names[b] # None =>
       \/ Ready(names[b]) /\ buckets[names[b]].bucket = b
       \/ \E k \in Keys : /\ InProgress(k)
                          /\ receipts[k].req.action = "reconcile"
                          /\ receipts[k].req.svc = names[b]
                          /\ receipts[k].req.bucket = b
  /\ \A s \in Services : Ready(s) => names[buckets[s].bucket] = s

\* Once deleted, a service has no bucket left in Garage and no active
\* credential: complete_delete runs only after Garage has let go of both.
DeletedIsGone ==
  \A s \in Services : Deleted(s) =>
    gBuckets[buckets[s].phys] = None /\ ActiveOf(s) = {}

\* The attempt that owns an operation when it completes is never refused
\* because the service changed under it: the Conflict answers of
\* complete_reconcile ("service changed while reconciliation was in
\* progress"), complete_delete and complete_revoke and the CorruptData of
\* complete_create are unreachable, name collisions aside.
OwnerNotOvertaken ==
  \A a \in Attempts : pc[a] = "complete" /\ Owns(req[a], a) =>
    LET r == req[a]
    IN CASE r.action = "reconcile" ->
              services[r.svc] # None =>
                InScope(r) /\ services[r.svc].gen <= r.gen /\ ~Deleted(r.svc)
         [] r.action = "delete" -> DeleteApplies(r) /\ r.gen = services[r.svc].gen + 1
         [] r.action = "create" -> CreateApplies(r, a, ctx[a].cred) /\ Ready(r.svc)
         [] r.action = "revoke" -> RevokeApplies(r)

\* reconcile_bucket adopts a bucket it finds by alias: the attempt that owns
\* the operation never adopts, sets quotas on, or completes with the bucket
\* of another service.
OwnerTouchesOwnBucket ==
  \A a \in Attempts :
    pc[a] \in {"updateQuotas", "complete"} /\ req[a].action = "reconcile" /\ Owns(req[a], a)
      => \A s \in Services \ {req[a].svc} :
           buckets[s] # None => buckets[s].phys # ctx[a].bucket

-----------------------------------------------------------------------------
(* Credentials *)

\* A credential the store calls revoked has no key in Garage, whether it was
\* revoked by itself or with its service, by one attempt or by several.
RevokedKeyGone ==
  \A c \in Keys :
    creds[c] # None /\ creds[c].status = "revoked" => gKeys[creds[c].gkey] = None

\* The configured limits hold for active credentials and reservations, also
\* for creations that run concurrently on services of one organization.
CredentialLimits ==
  /\ \A s \in Services :
       Cardinality(ActiveOf(s)) + Cardinality(ReservedOf(s)) <= MaxPerBucket
  /\ \A o \in Orgs :
       Cardinality(ActiveIn(o)) + Cardinality(ReservedIn(o)) <= MaxTotal

\* A credential row is never removed, never gets another key, and a revoked
\* credential never becomes active again.
RevocationIsFinal ==
  [][\A c \in Keys : creds[c] # None =>
       /\ creds'[c] # None
       /\ creds'[c].gkey = creds[c].gkey
       /\ creds[c].status = "revoked" => creds'[c].status = "revoked"]_vars

-----------------------------------------------------------------------------
(* What the repository says and the code does not keep; see the README *)

\* error.rs answers "another operation for this service is still in progress"
\* with Retry-After: the operation in progress is one that can still complete,
\* so neither the bucket name that it reserved nor the name that it gives its
\* service is in another service's row.
BusyOperationCanFinish ==
  \A k \in Keys : InProgress(k) /\ receipts[k].req.action = "reconcile" =>
    LET r == receipts[k].req
    IN \A s \in Services \ {r.svc} :
         /\ buckets[s] # None => buckets[s].bucket # r.bucket
         /\ services[s] # None => services[s].project # r.project \/ services[s].name # r.name

\* README: generations are validated "before changing Garage state": the
\* bucket of a ready service never has the quota of a generation older than
\* the one the store says is applied.
QuotaNotOutdated ==
  \A s \in Services : Ready(s) /\ BucketExists(buckets[s].phys) =>
    \/ gBuckets[buckets[s].phys].quota = services[s].quota
    \/ \E r \in Requests : /\ r.action = "reconcile" /\ r.svc = s
                           /\ r.gen > services[s].gen
                           /\ r.quota = gBuckets[buckets[s].phys].quota

\* ADR 0001: Syouyu owns the access-key lifecycle and the revocation state:
\* the key of an active credential is there unless somebody asked for its
\* revocation or for the deletion of the service.
ActiveKeyPresent ==
  \A c \in Keys : creds[c] # None /\ creds[c].status = "active" =>
    \/ gKeys[creds[c].gkey] # None
    \/ \E k \in Keys : /\ receipts[k] # None
                       /\ receipts[k].req.svc = creds[c].svc
                       /\ receipts[k].req.action \in {"delete", "revoke"}

=============================================================================
