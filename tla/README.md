# A TLA+ model of HeteroCloud Syouyu

Syouyu is a provider of S3 buckets. Its API reconciles and deletes buckets and
issues and revokes access keys by calling Garage, and it remembers what it did
in PostgreSQL. This directory models its operations, the transactions and
tokens behind them, its read endpoints and the Job that sets up Garage's layout,
checks them with TLC on small instances, and proves the properties of its
idempotency receipts with TLAPS for all instances.

## 1. The system

| Component | State | Operations | Interaction | In the model |
| --- | --- | --- | --- | --- |
| `syouyu-store`: receipts | `syouyu_operation_receipts`: request, operation id, state, lease, encrypted response | claim, take over, renew, finish, fail, replay | every mutating handler begins and ends with it | `Store` |
| `syouyu-store`: services, buckets, names | `syouyu_service_instances`, `syouyu_buckets`, `syouyu_bucket_name_reservations` | `prepare_`/`complete_reconcile`, `prepare_`/`complete_delete` | in the receipt's transaction | `Store` |
| `syouyu-store`: credentials | `syouyu_credentials`, `syouyu_credential_reservations` | `prepare_`/`complete_create_credential`, `prepare_`/`complete_revoke_credential` | in the receipt's transaction | `Store` |
| `syouyu-store`: audit | `syouyu_audit_events` | `insert_audit` | in the transaction that finishes a receipt | `Store` |
| `syouyu-store`: locks | advisory locks on key, organization, service; row locks | every transaction | between replicas | `LockOrder` |
| `syouyu-api`: mutating handlers | program position, ids remembered between calls | `reconcile_service_instance`, `delete_service_instance`, `create_credential`, `revoke_credential` | call store and Garage in turn | `Syouyu` |
| `syouyu-api`: Garage adapter | none | `reconcile_bucket`, `bucket_usage`, `create_credential`, `revoke_credential`, `delete_bucket` | several Garage requests each | `Syouyu` |
| Garage (external) and `syouyu-garage` | buckets with alias and quota, keys with name and permission | the admin requests; S3 clients fill and empty buckets | over HTTP, with timeouts | `Garage` |
| read endpoints, usage | `syouyu_usage_snapshots`, usage columns | `service_overview`, `list_credentials`, `service_usage` | store and Garage, without locks and receipts | `Usage` |
| authentication | keys, clocks | `verify_token_for_action`, `authenticate`, the beginnings of the handlers | before a handler reaches the store | `Admission`, without signatures |
| receipt cipher | key | encrypt and decrypt under the operation id | `finish_receipt`, `decode_receipt` | which operation id a response belongs to |
| layout bootstrap Job (Helm) | Garage's layout and staged roles | wait, compare, stage, apply | Garage's admin API | `LayoutBootstrap` |
| clients | which requests are unanswered | send, repeat after 503 | HTTP with `Idempotency-Key` | `Retries`, `LimitsChange` |
| domain validation, errors, configuration, release scripts, manifests | | | | not modelled, apart from the split of errors into busy, error and stored response |

What is hard here: three replicas execute requests concurrently and clients
repeat them; an attempt may be delayed longer than its lease of 120 seconds,
be taken over, and go on; Garage requests are not transactional, and their
replies or the process may be lost after the effect; deletion takes several
Garage requests; limits and names are shared between services; transactions take
up to six locks each and can deadlock; tokens, leases and measurements are
timed by different clocks; the layout Job may stop anywhere. The hazards are
listed, with the lines where they bite, in `PROJECT.json`.

What makes the parts correct:

* receipts: a key is executed for one request, decided once, and every final
  answer is that decision; one operation at a time holds a service;
* services: generations never go back, a deleted service stays deleted, names
  are reserved for exactly the services that have or are creating the bucket;
* credentials: limits hold, reservations follow their operation, what the store
  calls revoked or deleted is gone from Garage;
* audit: one event per finished operation, with its outcome;
* locks: what a transaction has checked stays true until it commits, and only
  known pairs of transactions can deadlock;
* progress: an operation whose client repeats its request ends;
* reads: nothing older than the call is shown, and measurements are true and
  never replaced by older ones in the snapshot;
* admission: what is executed was signed, executions of one key are a lease
  apart, and a JWT is executed again only after a long delay;
* layout: a Job that succeeds has applied the requested roles, unless a Job of
  another release left others staged, and none makes a needless version.

## 2. Modules

`Domain` declares the constants: sets of attempts, keys, services and so on, and
`Requests`, the commands clients send. Ids that the code draws at random are
named by what makes them unique: the operation id, the Garage bucket and the
Garage key made by an attempt are named by the attempt, a credential id by the
key whose first attempt reserved it. Equality of requests stands for
`ReceiptRow::matches` (scope, principal, action, generation, body hash).

`Store` has one variable per table (`receipts`, `services`, `buckets`, `names`,
`creds`, `credRes`, `audit`) and one action per transaction. The four prepares
share `PrepareExecute`, `PrepareReplay`, `PrepareBusy` and `PrepareRejected`; what
each of them checks is `AcceptReconcile`, `AcceptDelete`, `AcceptCreate` and
`AcceptRevoke`. `TakeLease` is `reserve_receipt` or the update of
`claim_existing_receipt`, which moves a credential reservation along. `Owns` is
`require_in_progress_receipt`. A lease is kept as the flag `expired`: only its
comparison with the clock is ever used. UNIQUE constraints are in
`NameAvailable`, `ReconcileApplies` and `CreateApplies`. Rows of deleted services
stay, as in the code.

`Garage` has `gBuckets` and `gKeys` and one action per effect of an admin
request. Garage itself is external; what its requests do is taken from how the
client and the adapter use them (404 and 409 included). Of the two requests of
`set_bucket_key_permissions` the first takes away permissions that a new key
does not have, so `AllowBucketKey` is the second one.

`Syouyu` composes the two with the handlers. An attempt is one execution of a
handler: `pc` is the call it makes next, `ctx` what it remembers (`bucket`,
`keys`, `cred`, `prior`), `reply` what its client got.

| Handler | Actions in order |
| --- | --- |
| reconcile | `Prepare`, `Renew`, `LookupBucket`, `CreateServiceBucket`, `UpdateQuotas`, `Complete`; straight to `Complete` when `previously_applied` |
| delete | `Prepare`, `Renew`, `CheckUsage`, (`Renew`, `RevokeKey`)*, `Renew`, `DeleteServiceBucket`, `Complete` |
| create | `Prepare`, `Renew`, `ListKeys`, `PurgeKey`*, `CreateAccessKey`, `AllowKey`, `Complete`; `UndoKey` when permissions fail or the secret is missing, `Cleanup` when the lease was lost at completion |
| revoke | `Prepare`, `Renew`, `RevokeKey` unless revoked before, `Complete` |

Every Garage call can fail without effect or after its effect (the reply is
lost); both lead to `Fail`, which is `fail_operation` in
`persist_backend_failure` and `persist_failure`. `Abandon` ends an attempt between
any two calls: a crash, a dropped request, a database error. A commit whose
acknowledgement is lost is an alternative of `Complete` and `Fail`.
`ExpireLease` is the clock, `S3Client` a client that stores its first object or
removes its last. A completion that is refused while the attempt owns the
operation answers an error and leaves the receipt in progress, as the `?` in the
handlers does.

`OperationPromise` is the abstract specification: keys are decided once, under
the hold of their service, final answers repeat the decision, and a service's
rows change only in the step that decides its operation successfully.
`SyouyuRefinement` gives the refinement mapping and states `KeepsPromise`.

`Retries` extends `Syouyu` with clients that repeat requests. Executions are
unbounded here: the name of an execution that has ended and left no id behind
(`Recorded`) is used again (`Forget`). A course (`Courses`) gives the requests
that the clients have and the number of faults that may occur: a lost execution
(`Lose`), or a lease that runs out under a running execution (`Overrun`).
`LimitsChange` adds the limits in the signed context, which `create_credential`
hashes with the request.

`LockOrder` looks into the transactions that `Store` takes as one step. A
transaction is a plan, a sequence of locks and of checks between them:
`PreparePlan`, `ClaimedPlan`, `CompletePlan`, `FailPlan`, `RenewPlan` and `UsagePlan`
follow the order of the statements. Locks are the three advisory locks, the rows
of receipts, services and buckets, and the index entries of service names and
bucket names, in the modes that matter (exclusive, an update of no key column,
the share lock of a foreign key). Checks read committed rows; writes appear at
`Commit`. A mix (`Mixes`) gives the operations and the kinds of transactions that
meet. `ChecksStayTrue` is what justifies `Store`'s atomic transactions.

`Usage` has one service, its two rows as seen by readers, the Garage bucket and
the read handlers, one action per statement or request. `Admission` has JWTs and
principal contexts (`Grants`, what Heterocloud signs), requests that combine
them with any path, generation and key, and receipts with a lease in time. It
repeats the receipt rules of `Store` with a clock instead of a flag, and nothing
else of the handlers. An admitted request claims its operation any time later:
the only timeout on the way is that of the connection pool, and waits for locks
and stalls come on top. `LayoutBootstrap` has the Job, its Pods, and Garage's
current and staged layout. A Job ends with success, by too many failed Pods, or
at its deadline (`Deadline`); after any of these the same release may be synced
again (`Resync`) or another one installed (`Upgrade`). The auxiliary variable
`leftover` records the roles that a Job found staged and its release does not
want.

`MCSyouyu` has the request sets for TLC; the other `MC` modules have the
instances of their module. The modules called `Proofs` have the
theorems (section 4). Definitions called a "variant of" another one are mutants: the
definition with a plausible mistake, kept to show that a property notices it.

## 3. Runs

In the runs of `MCSyouyu` four attempts suffice for one attempt that is
delayed, one that takes it over, and two more operations on the service; three
are used where the property concerns one operation and its predecessor.
Permutations of attempts, transactions and calls are symmetries of the safety
runs: they are created equal and never compared by order. In `limits` the two
services are interchangeable too. Runs with a liveness property use no symmetry;
action properties and the refinement `KeepsPromise` are safety properties, which
permutations leave alone. `CHECK_DEADLOCK FALSE`: attempts, transactions, calls
and time are bounded, and a system with none left stops.

| Run | Instance | Checks | Result |
| --- | --- | --- | --- |
| `services` | one service created, updated (generation 2), deleted by either of two requests with one key, and a service of another organization that wants its bucket name; 4 attempts | `TypeOK`, `BucketRowPresent`, `SingleOperation`, `ReceiptDecodes`, `AnswersAgree`, `OwnerNotOvertaken`, `NamesAccounted`, `OwnerTouchesOwnBucket`, `FinishedIsFinal`, `ServiceMovesForward` | hold |
| `credentials` | create, issue, revoke, delete on one service; 4 attempts | `ReservationFollowsReceipt`, `AuditMatchesReceipts`, `RevokedKeyGone`, `DeletedIsGone`, `KeepsPromise`, `RevocationIsFinal` | hold |
| `limits` | two services of one organization issue a credential each, organization limit 1; 4 attempts | `CredentialLimits` | holds |
| `locks` | 3 transactions, from every consistent state of the tables (services have their own names at first, in the first mix also exchanged ones), in three mixes: reconcile and delete of one service, transactions of all five kinds; two services that issue credentials under one limit, one of which is revoked; two services that exchange names while one is deleted | `LockTypeOK`, `ChecksStayTrue`, `DeadlocksAreKnown` | hold |
| `usage` | 2 calls of any endpoint, two generations, two times, three contents of which one is beyond `i64` | `UsageTypeOK`, `SnapshotIsNewest`, `MeasurementsAreTrue`, `ReadsNotStale` | hold |
| `layout` | 3 nodes in one of two zones each, `backoffLimit` 2, 6 faults, 3 upgrades | `LayoutTypeOK`, `SuccessIsComplete`, `NoNeedlessVersion`, `Converges` | hold |
| `finish` | any number of requests in three courses: create a service and issue a credential, 2 faults; create, issue, delete, 1 fault; create, issue, revoke, 1 fault | `OperationsFinish` | holds |
| `admission` | two JWTs, one of them signed for too long, and a context; 2 requests, drift and skews of one unit each, 7 times | `AdmissionTypeOK`, `ExecutionsAreSigned`, `ExecutionsLeaseApart`, `RepeatedTokenWasDelayed`, `ValidTokensAreAccepted` | hold |
| `stuck_reconcile` | two services of two organizations, one bucket name, deletion | `BusyOperationCanFinish` | violated |
| `late_quota` | create and update, 3 attempts | `QuotaNotOutdated` | violated |
| `late_purge` | create and issue, 3 attempts | `ActiveKeyPresent` | violated |
| `limits_raised` | create and issue, limits raised once, 1 fault | `RetryAfterHelps` | violated |

Bounds. Three transactions allow cycles that are longer than a pair; a check is
undone by one other transaction. Two measurements that overlap are the race of
`record_usage`, and each is checked at its commit against all earlier ones. Six
faults exceed `backoffLimit` twice, so that a Job fails for good and is run
again; three upgrades let a release follow a failed one in a cluster that has a
layout, and be followed. `zoneRedundancy` has one value, as in
`values.schema.json`; the proofs allow more. Five execution names leave room for the ones that rows and Garage
remember and for two that run at once. One key per operation is enough for
`OperationsFinish`, since operations on one service exclude each other; whether
an operation waits for another one is part of the runs. Time in `admission` is
in units that keep the order of the real constants: lifetime, skew and drift
together are shorter than a lease (60 + 5 + 5 < 120 seconds, with a drift of at
most 5 seconds). Seven times are enough for a request that is admitted at the
end of its JWT's life, held up, and takes an expired lease over.

Fairness. `Retries`: handlers are polled by the runtime, requests to Garage time
out, and waits for locks end with the transactions that hold them (PostgreSQL
breaks deadlocks), however late: weak fairness of `Proceed`; time passes, which
is weak fairness of `RunOut`; `Forget` only frees names; clients repeat an
unanswered request, as Retry-After asks them to, and a replica accepts it. For a
provider command, whose `Idempotency-Key` has to be the `jti` of its JWT, to
repeat it means that Heterocloud signs a new JWT with the same `jti`; a client that
draws a new one for each retry, as `scripts/live-e2e.sh:189` does, begins another
operation instead, which is refused while the first is in progress. That `Send`
waits for a free name is an artefact of the bound, so its fairness is strong.
Nothing is assumed of Garage: its calls may fail whenever they are made.
`LayoutBootstrap`: the Pod's shell runs, and nodes that are down come back. The
repository has no policy by which a failed Job is synced again, so nothing of
that kind is assumed: `Converges` has it as its premise. All other properties are
safety properties and need none.

### What the violated runs show

`stuck_reconcile`: service 1 creates bucket `b1` and is deleted. The deletion
frees the name reservation, but the `syouyu_buckets` row keeps `bucket_name`, which
is UNIQUE. Service 2 reserves the name and creates the bucket in Garage; its
`complete_reconcile` always ends in a conflict. The handler returns 409 and
leaves the receipt in progress, so every other request for service 2 is told
that "another operation for this service is still in progress" and to retry
after two seconds. Retries of its own key take over and meet the same conflict;
only a Garage failure on the way would close the receipt, as failed. The name of a
service, UNIQUE within its project and kept by deleted services, meets the same
end.

`late_quota`: an attempt of generation 1 stops before `update_bucket_quotas`
until its lease has run out; a second attempt takes over and finishes
generation 1, a third applies generation 2; then the first sets the quota of
generation 1. Later reconciliations of generation 2 are `previously_applied`
and do not correct it. The README of the repository says that the generation is
validated before Garage's state is changed.

`late_purge`: an attempt to issue a credential stops before `list_keys` until
it has been taken over; its successor issues a key and stores it as active;
then the first attempt finds this key by its deterministic name and deletes it.

`limits_raised`: an execution is lost while it issues a credential, then the
customer's limits are raised. The client repeats its request with its new
context; the hash differs, and the store refuses it as a different request.
Nobody else can take the operation over, and the service stays busy.

`stuck_reconcile`, `late_quota` and `late_purge` are the price of Garage
requests without a fencing token and of rows that outlive their service. The
other properties hold in spite of them: `RevokedKeyGone`, `DeletedIsGone` and
`OwnerTouchesOwnBucket` are about the directions in which late attempts can do
no harm.

### What a layout Job may leave behind

`SuccessIsComplete` and `Converges` except the roles in `leftover`, and the run
`layout` reaches such states. In a cluster that has its layout, a release moves
one node to another zone; its Job stages the role and passes its deadline before
it applies. The next release leaves that node where it was and moves another one.
Its Job compares with the layout in force, stages the second node's role only, and
applies both: it succeeds, and the first node is in a zone that the release does
not name. After a rollback instead, the Job finds the roles matching and exits 0,
and the role stays staged for the next apply. The sentence of ADR 0001, "failure
after staging repeats the same desired roles, then applies them", is true while
the release stays the same; nothing in the Job reverts what another release has
staged (`layout-bootstrap-job.yaml:103-130`). Another sync after such an apply
mends it.

## 4. Proofs

All theorems hold for every value of the constants. Each proof module extends
the module it is about.

| module | theorem | statement |
|---|---|---|
| `SyouyuProofs` | `TypeCorrect` | `Spec => []TypeOK` |
| | `BucketRowAlwaysPresent` | `Spec => []BucketRowPresent` |
| | `ReceiptsAlwaysDecode` | `Spec => []ReceiptDecodes` |
| | `OneOperationPerService` | `Spec => []SingleOperation` |
| | `FinishedReceiptsStay` | `Spec => FinishedIsFinal` |
| | `FinalAnswersAgree` | `Spec => []AnswersAgree` |
| | `RevokedStaysRevoked` | `Spec => RevocationIsFinal` |
| `OperationProofs` | `ReservationsFollow` | `Spec => []ReservationFollowsReceipt` |
| | `NamesAlwaysAccounted` | `Spec => []NamesAccounted` |
| | `OwnerIsNotOvertaken` | `Spec => []OwnerNotOvertaken` |
| | `ServicesMoveForward` | `Spec => ServiceMovesForward` |
| | `AuditIsComplete` | `Spec => []AuditMatchesReceipts` |
| | `LimitsHold` | `Spec => []CredentialLimits` |
| `GarageProofs` | `RevokedKeysAreGone` | `Spec => []RevokedKeyGone` |
| | `DeletedServicesAreGone` | `Spec => []DeletedIsGone` |
| | `OwnersTouchTheirBucket` | `Spec => []OwnerTouchesOwnBucket` |
| `RefinementProofs` | `HandlersKeepPromise` | `Spec => KeepsPromise` |
| `AdmissionProofs` | `AdmissionTypeCorrect` | `Spec => []AdmissionTypeOK` |
| | `ExecutionsAlwaysSigned` | `Spec => []ExecutionsAreSigned` |
| | `ExecutionsStayLeaseApart` | `Spec => []ExecutionsLeaseApart` |
| | `RepeatedTokensWereDelayed` | `Spec => []RepeatedTokenWasDelayed` |
| | `ValidTokensAlwaysAccepted` | `Spec => []ValidTokensAreAccepted` |
| `UsageProofs` | `UsageTypeCorrect` | `Spec => []UsageTypeOK` |
| | `SnapshotAlwaysNewest` | `Spec => []SnapshotIsNewest` |
| | `MeasurementsAlwaysTrue` | `Spec => []MeasurementsAreTrue` |
| | `ReadsNeverStale` | `Spec => []ReadsNotStale` |
| `LayoutProofs` | `LayoutTypeCorrect` | `Spec => []LayoutTypeOK` |
| | `SuccessAlwaysComplete` | `Spec => []SuccessIsComplete` |
| | `VersionsAreNeeded` | `Spec => NoNeedlessVersion` |
| `LockProofs` | `LockTypeCorrect` | `Spec => []LockTypeOK` |
| | `ChecksAlwaysStayTrue` | `Spec => []ChecksStayTrue` |
| | `OnlyKnownDeadlocks` | `Spec => []DeadlocksAreKnown` |

### Assumptions

For `Syouyu`: requests are of type `Request`, the limits are natural numbers, and
`None` is no id and no row (`RequestsAssumption`, `LimitsAssumption`,
`NoneAssumption`, `NoRowAssumption`, `NoGarageObjectAssumption`). No set has to be
finite.

For `Admission` (`AdmissionAssumption`): the skews cover the drift of a clock. Its
theorems hold for any lifetimes and lease; what `RepeatedTokensWereDelayed` says
with the numbers of the code is that a request which executes a JWT again was
held up for at least 50 seconds before its claim (120 - 60 - 5 - 5). For
`Usage` and `LayoutBootstrap` (`UsageAssumption`, `LayoutAssumption`): the
types of the bounds, and that `None` is no value. For `LockOrder`
(`LockOrderAssumption`): the types of the operations and mixes, and that `None` and
`Past` name no transaction. Its `Init` starts from finitely many credential rows,
as any database does; the counts that `create` checks mean nothing otherwise.

### Invariants and arguments

`SyouyuProofs`. The invariant is `TypeInv`: `TypeOK` with two additions. A
prepare reads the bucket row of a service without looking whether it is there,
so `BucketRowPresent` is needed for the type of `ctx`; a replay hands out the
response of a finished receipt, so `ReceiptShape` (unfinished receipts have no
response, finished ones that of their operation id) is needed for the type of
`reply`. `TypeOK` itself says more than types: a running attempt is at a step of
its action and knows the ids that the step uses. `Next` is reduced in two
stages. `NextStoreStep`, `NextGarageStep`: a step of the system is one
transaction on the store (`StoreStep`) and one effect on Garage (`GarageStep`), or
leaves them alone. `StoreReceiptStep`: a transaction begins a receipt under the
check for parallel operations, changes its lease, or ends it as its owner
(`ReceiptStep`).

`SingleOperation`, `ReceiptDecodes` and `FinishedIsFinal` follow
from these three cases. For `AnswersAgree`, a new final answer comes from a
replay or from the attempt that ends the receipt (`NewFinalReply`), and an old
one stays true since its receipt is finished (`FinishedUnchanged`).

`OperationProofs`. The invariant is `OperationInv`. Its centre is `Undertaken`:
what the prepare of an unfinished operation checked (the tenant, generation and
phase of the service, its name, the credential) is still so, through any number
of takeovers. It is kept because a transaction
changes rows of one service only (`LocalTo`) and an unfinished operation is the
only one on its service (`SingleOperation`). Supporting parts say that rows refer
to known things: `ReservationsKnown`, `CredentialsKnown`, `OperationsKnown`,
`RowsTogether`, `CredentialIdKnown`. `LimitInv` adds to the limits that the sets
they count are finite, without which a cardinality means nothing.

`GarageProofs`. `GarageInv` ties the context of an attempt to Garage. Ids of
buckets and keys are not used twice (`BucketsMade`, `KeysMade`), so what an
attempt once saw as gone is gone for good: `DeletionKnown` and
`RevocationKnown` carry that from the Garage request to the completing
transaction, over crashes and late attempts. `BucketsDistinct` and
`OwnBucketKnown` separate the buckets of two services.

`RefinementProofs`. `PromiseInv` is `OperationInv` with `PlainAnswers` (only
a final answer carries a response). Every step of `Syouyu` is a `Begin`, `Decide`
or `Repeat` of `OperationPromise` or changes nothing it can see
(`OperationStep`, `AnswerStep`).

`AdmissionProofs`. `AdmissionInv` keeps what a request's admission has checked,
the cover and the age of its token (`Vouched`), and with each execution that the
receipt of its key has its command and a lease that lasts until `Lease` after the
claim (`Leased`). A later claim of the key has waited for that lease, which gives
`ExecutionsLeaseApart`. If it came with the same JWT it was admitted within the
lifetime and the tolerances, so the rest of the lease is a delay after the admission.

`UsageProofs`. `UsageInv` says of each call what it knows (`Known`): facts about
the past, stable since the clock, the generation and the history only grow and a
revoked credential does not return; and that stored measurements are such facts
(`Stored`).

`LayoutProofs`. `LayoutInv`: what is staged for a node is wanted or was found
staged when the Job started, and is not the role in force (`StagedIsKnown`); what a
Pod has read still holds when it acts on it, and a Pod about to apply has staged
every role that is missing (`PodUpToDate`); Pods are counted (`PodsCounted`).

`LockProofs`. `LockInv` says two things of each transaction (`TxSound`), which
are first shown of every plan. The locks that a step relies on (`Needs`) are held,
or taken by an earlier step of the plan (`NeedsMet`); `Got` counts a row lock as
held when the row is absent and the lock that guards its insertion is held, since
then there is nothing to lock. And locks are taken in the order of their ranks
(`InOrder`, `HeldFirst`). Locks of different transactions are compatible
(`HeldCompatible`). A check that has passed therefore has its locks, a commit that
could make it false needs an incompatible one, and so `ChecksStayTrue` is
preserved. For deadlocks, `LockRank` orders the locks: operation 1, receipt row of
a prepare or renewal 2, organization 4, service 5, receipt row of a completion or
failure 6, bucket row of a usage update 7, service row 8, service name 9, bucket
name and the bucket row of a completion 10. Along a wait that is no `KnownInversion` the rank of the
awaited lock grows, and ranks are bounded, so such waits form no cycle. The ranks
show where the inversions come from: the receipt row and the bucket row have two
ranks, depending on the kind of transaction, and a reconciliation that renames a
service locks two service names, of one rank.

### Only model-checked

Liveness under fairness (`OperationsFinish`, `Converges`) is outside what
these proofs can do, as are `ENABLED` and induction over data. The violated runs
are counterexamples and need no proof.

## 5. Abstractions and what is not modelled

* In `Store` transactions are atomic; `LockOrder` shows that the checks of one
  stay true until it ends. An aborted transaction is `Abandon` in `Syouyu`.
* In `LockOrder` credential rows and reservations are not locks of their own:
  they are written only under the service lock or the receipt row. Hash
  collisions of advisory locks and the order of waiters are left out. The three
  deadlocks that exist are named in `KnownInversion`: a takeover against the
  completion of the same operation; the first usage snapshot of a service
  against a reconciliation; services that exchange names. PostgreSQL aborts one
  of the two, and the request fails with an internal error that a retry mends.
* A Garage request takes effect before its client goes on or not at all. A
  request that Garage executes after the client timed out is not modelled, nor
  is the 8 MiB limit of a reply.
* Requests of `Syouyu` are authenticated and valid; what authentication
  guarantees is in `Admission`. Signatures are not forged there, and keys,
  issuers and audiences are left out.
* Permissions, endpoints, regions, timestamps and the texts of errors are
  left out; a response is the attempt that made it and whether it failed.
* `OperationsFinish` is about requests that the store can complete; the
  violated runs show requests that it cannot (`stuck_reconcile`), and clients whose
  repetition is not the same request (`limits_raised`).
* `LayoutBootstrap` assumes one writer of the layout, as the ADR does ("concurrent
  layout writers are outside this bootstrap contract"): no Job starts while
  another one runs. The Job compares roles and not `zoneRedundancy`, which
  `values.schema.json` fixes to one value; `SuccessIsComplete` speaks of it for Jobs
  that applied a layout.
* Validation (`syouyu-domain`) decides on one request without state; manifests,
  configuration, startup and the release scripts have no protocol. They are not
  modelled.

## 6. Plan

1. Done: `Domain`, `Store`, `Garage`, `Syouyu`, `OperationPromise`,
   `SyouyuRefinement`, `LockOrder`, `Usage`, `LayoutBootstrap`, `Retries`,
   `LimitsChange`, `Admission`; the proofs of section 4.
2. Garage requests that take effect late.
