------------------------------ MODULE LockOrder ------------------------------
(***************************************************************************)
(* The transactions of syouyu-store lock by lock.                          *)
(*                                                                         *)
(* Module Store takes each transaction as one atomic step.  Here a         *)
(* transaction takes its advisory and row locks one after the other and    *)
(* reads, in between, what PostgreSQL shows at READ COMMITTED: committed   *)
(* rows.  Its writes become visible when it commits.  A transaction that   *)
(* waits in a cycle is aborted by PostgreSQL's deadlock detector.          *)
(*                                                                         *)
(* Left out: rows that are locked only under a lock listed here            *)
(* (credentials under the service lock, credential reservations under the  *)
(* receipt row), and the queue order of waiters.                           *)
(***************************************************************************)
EXTENDS Naturals, Sequences, FiniteSets

CONSTANTS
  None,
  Txs,            \* transactions, each run once; also the operation ids they claim
  Past,           \* the operation id of a receipt that is there initially
  Keys,           \* idempotency keys, also the credentials they create
  Services,
  Orgs,
  Names,          \* service names (of one project) and bucket names
  Operation,      \* what is requested under each key
  Mixes,          \* keys and kinds of transactions that meet each other, and
                  \* the names that the services may have at first
  MaxTotal        \* credentials an organization may have

Kinds == {"prepare", "complete", "fail", "renew", "usage"}

ASSUME LockOrderAssumption ==
  /\ Operation \in [Keys -> [action : {"reconcile", "delete", "create", "revoke"},
                             svc : Services, org : Orgs, name : Names, bucket : Names,
                             cred : Keys]]
  /\ Mixes \subseteq [keys : SUBSET Keys, kinds : SUBSET Kinds,
                       names : SUBSET [Services -> Names]]
  /\ Past \notin Txs
  /\ None \notin Services \cup Names \cup Txs \cup {Past}
  /\ MaxTotal \in Nat

VARIABLES
  receipt,        \* by key: is there a receipt, and in which state
  owner,          \* its operation_id
  service,        \* by service: phase of its row
  svcName,        \* and its name
  reserved,       \* by bucket name: the service that reserved it
  credentials,    \* credentials that are active or reserved
  snapshot,       \* services that have a usage snapshot
  tx,             \* the transactions
  mix             \* what this behaviour is about

db == <<receipt, owner, service, svcName, reserved, credentials, snapshot>>
vars == <<receipt, owner, service, svcName, reserved, credentials, snapshot, tx, mix>>

Svc(k) == Operation[k].svc
Action(k) == Operation[k].action

-----------------------------------------------------------------------------
(* Locks and the order in which transactions take them *)

\* FOR UPDATE and advisory locks, an UPDATE of columns that no foreign key
\* can refer to, and the FOR KEY SHARE of a foreign-key check.
Modes == {"exclusive", "noKey", "keyShare"}

Compatible(m, n) == "keyShare" \in {m, n} /\ "exclusive" \notin {m, n}

LockTypes == {"operation", "organization", "service", "receiptRow", "serviceRow",
              "serviceName", "bucketRow", "bucketName"}

AdvisoryTypes == {"operation", "organization", "service"}

\* A plan is a sequence of locks to take and of things to do in between.
Lock(type, id, mode) == <<[do |-> "lock", type |-> type, id |-> id, mode |-> mode]>>
Exclusive(type, id) == Lock(type, id, "exclusive")
Do(what) == <<[do |-> what]>>

\* Variant of OrganizationLock: it is not taken.
NoOrganizationLock(k) == <<>>

OperationLock(k) == Exclusive("operation", k)
ServiceLock(k) == Exclusive("service", Svc(k))
OrganizationLock(k) == Exclusive("organization", Operation[k].org)

ReceiptRow(k) == Exclusive("receiptRow", k)
ServiceRow(k) == Exclusive("serviceRow", Svc(k))

\* prepare_*: up to claim_existing_receipt.
PreparePlan(k) == OperationLock(k) \o ReceiptRow(k) \o Do("claim")

\* The rest of prepare_*, for a new or a taken-over operation.
ClaimedPlan(k) ==
  CASE Action(k) = "reconcile" ->
         ServiceLock(k) \o Do("parallel") \o ServiceRow(k) \o Do("phase")
           \o Exclusive("bucketName", Operation[k].bucket) \o Do("bucketName") \o Do("commit")
    [] Action(k) = "delete" ->
         OrganizationLock(k) \o ServiceLock(k) \o Do("parallel")
           \o ServiceRow(k) \o Do("phase") \o Do("commit")
    [] Action(k) = "create" ->
         OrganizationLock(k) \o ServiceLock(k) \o ServiceRow(k) \o Do("phase")
           \o Do("limit") \o Do("parallel") \o Do("commit")
    [] Action(k) = "revoke" ->
         ServiceLock(k) \o Do("parallel") \o ServiceRow(k) \o Do("phase") \o Do("commit")

\* complete_*, up to require_in_progress_receipt; the statements after it.
FencedPlan(k) == ServiceLock(k) \o ReceiptRow(k) \o Do("owner")

\* The upsert of a reconciliation may change the service's name, a key
\* column: it waits for whoever writes a row of the old or the new name.
CompletePlan(k) ==
  CASE Action(k) = "reconcile" ->
         FencedPlan(k) \o ServiceRow(k) \o Do("upsert") \o Do("name")
           \o Exclusive("bucketRow", Svc(k)) \o Do("commit")
    [] Action(k) = "delete" ->
         FencedPlan(k) \o Lock("serviceRow", Svc(k), "noKey")
           \o Exclusive("bucketName", Operation[k].bucket) \o Do("commit")
    [] Action(k) = "create" ->
         OrganizationLock(k) \o FencedPlan(k)
           \o Lock("serviceRow", Svc(k), "keyShare") \o Do("commit")
    [] Action(k) = "revoke" -> FencedPlan(k) \o Do("commit")

\* Variant of FailPlan that takes the service lock first.
FailPlanServiceFirst(k) ==
  ServiceLock(k) \o OrganizationLock(k) \o ReceiptRow(k) \o Do("owner")
    \o Exclusive("bucketName", Operation[k].bucket) \o Do("commit")

\* fail_operation, which gives up the bucket name of a service that has none.
FailPlan(k) ==
  OrganizationLock(k) \o FencedPlan(k)
    \o Exclusive("bucketName", Operation[k].bucket) \o Do("commit")

\* renew_operation
RenewPlan(k) == OperationLock(k) \o ReceiptRow(k) \o Do("owner") \o Do("commit")

\* record_usage for the service of the key
UsagePlan(k) == Exclusive("bucketRow", Svc(k)) \o Do("usage") \o Do("commit")

PlanOf(kind, k) ==
  CASE kind = "prepare"  -> PreparePlan(k)
    [] kind = "complete" -> CompletePlan(k)
    [] kind = "fail"     -> FailPlan(k)
    [] kind = "renew"    -> RenewPlan(k)
    [] kind = "usage"    -> UsagePlan(k)

-----------------------------------------------------------------------------
(* States *)

States == {"none", "open", "done"}

Open(k) == receipt[k] = "open"

\* plan: what is still to do; held: locks, each with its mode; passed: the
\* checks made so far; op: the operation id the transaction acts for or has
\* claimed; before: the one that a takeover found.
Idle == [kind |-> None, key |-> None, plan |-> <<>>, held |-> {}, passed |-> {},
         op |-> None, before |-> None]

Ended == [Idle EXCEPT !.kind = "ended"]

Active(t) == tx[t].plan # <<>>

Checks == {"claim", "parallel", "phase", "bucketName", "limit", "owner", "name"}

LockTypeOK ==
  /\ receipt \in [Keys -> States]
  /\ owner \in [Keys -> Txs \cup {Past}]
  /\ service \in [Services -> {"absent", "ready", "deleted"}]
  /\ svcName \in [Services -> Names \cup {None}]
  /\ reserved \in [Names -> Services \cup {None}]
  /\ credentials \subseteq Keys
  /\ snapshot \subseteq Services
  /\ mix \in Mixes
  /\ \A t \in Txs :
       /\ tx[t].kind \in Kinds \cup {None, "ended"}
       /\ tx[t].passed \subseteq Checks
       /\ tx[t].op \in Txs \cup {Past, None}
       /\ \A h \in tx[t].held : h.type \in LockTypes /\ h.mode \in Modes
       /\ ~Active(t) => tx[t].held = {}

\* What earlier operations can have left: at most one open operation on a
\* service, and rows that fit the receipts.
Init ==
  /\ mix \in Mixes
  /\ receipt \in [Keys -> States]
  /\ \A k \in Keys \ mix.keys : receipt[k] = "none"
  /\ owner = [k \in Keys |-> Past]
  /\ service \in [Services -> {"absent", "ready", "deleted"}]
  /\ \E f \in mix.names :
       svcName = [s \in Services |-> IF service[s] = "absent" THEN None ELSE f[s]]
  /\ reserved \in [Names -> Services \cup {None}]
  /\ credentials \in SUBSET {k \in Keys : Action(k) = "create"}
  /\ IsFiniteSet(credentials)
  /\ snapshot = {}
  /\ \A j, k \in Keys : Open(j) /\ Open(k) /\ Svc(j) = Svc(k) => j = k
  /\ \A s \in Services :
       /\ service[s] # "absent" => \E k \in mix.keys : Svc(k) = s
       /\ \A u \in Services : svcName[s] = svcName[u] /\ svcName[s] # None => s = u
       /\ \A b \in Names : reserved[b] = s =>
            \E k \in mix.keys : Svc(k) = s /\ Operation[k].bucket = b
       /\ Cardinality({b \in Names : reserved[b] = s}) =
            IF service[s] = "ready" \/ \E k \in Keys : Svc(k) = s /\ Open(k) THEN 1 ELSE 0
  /\ \A k \in Keys :
       /\ Action(k) # "reconcile" /\ Open(k) => service[Svc(k)] = "ready"
       /\ Action(k) = "reconcile" /\ Open(k) =>
            service[Svc(k)] # "deleted" /\ reserved[Operation[k].bucket] = Svc(k)
       /\ Action(k) = "create" /\ Open(k) => k \in credentials
       /\ k \in credentials => receipt[k] # "none" /\ service[Svc(k)] = "ready"
  /\ \A o \in Orgs : Cardinality({k \in credentials : Operation[k].org = o}) <= MaxTotal
  /\ tx = [t \in Txs |-> Idle]

-----------------------------------------------------------------------------
(* Steps of a transaction *)

Head1(t) == Head(tx[t].plan)

\* Locks that t waits for: those of others that do not go with its own.
Conflicts(t, u) ==
  /\ u # t /\ Active(t) /\ Head1(t).do = "lock"
  /\ \E h \in tx[u].held : /\ h.type = Head1(t).type /\ h.id = Head1(t).id
                           /\ ~Compatible(h.mode, Head1(t).mode)

\* A row that is not there cannot be locked.
Present(l) ==
  CASE l.type = "receiptRow" -> receipt[l.id] # "none"
    [] l.type \in {"serviceRow", "bucketRow"} -> service[l.id] # "absent"
    [] l.type = "serviceName" -> l.id # None
    [] OTHER -> TRUE

\* Go on with what is left of the plan, or with another one.
Continue(t, plan) == tx' = [tx EXCEPT ![t].plan = plan]

\* Variant of Finish whose advisory locks belong to the session.
FinishKeepingAdvisory(t) ==
  tx' = [tx EXCEPT ![t] = [Ended EXCEPT !.held = {h \in tx[t].held : h.type \in AdvisoryTypes}]]

\* COMMIT or ROLLBACK: all locks are released.
Finish(t) == tx' = [tx EXCEPT ![t] = Ended]

\* A transaction begins.  Completions, failures and renewals act for an
\* operation id that a prepare has claimed, at some time.
Begin(t) ==
  /\ tx[t].kind = None
  /\ \E kind \in mix.kinds, k \in mix.keys :
       \E op \in CASE kind = "prepare" -> {t}
                   [] kind = "usage" -> {None}
                   [] OTHER -> {owner[k]} \cup (IF receipt[k] = "none" THEN {} ELSE {Past}) :
         /\ kind \in {"complete", "fail", "renew"} => receipt[k] # "none"
         /\ tx' = [tx EXCEPT ![t] = [Idle EXCEPT !.kind = kind, !.key = k, !.op = op,
                                                 !.plan = PlanOf(kind, k)]]
  /\ UNCHANGED db

Acquire(t) ==
  /\ Active(t) /\ Head1(t).do = "lock"
  /\ \A u \in Txs : ~Conflicts(t, u)
  /\ tx' = [tx EXCEPT ![t].plan = Tail(@),
                      ![t].held = IF Present(Head1(t)) THEN @ \cup {Head1(t)} ELSE @]
  /\ UNCHANGED db

\* claim_existing_receipt: an operation that is finished, or whose lease has
\* not run out, ends the transaction.  How much time has passed since the
\* lease was taken is open.
Claim(t) ==
  /\ Active(t) /\ Head1(t).do = "claim"
  /\ LET k == tx[t].key
     IN \/ /\ receipt[k] # "done"
           /\ tx' = [tx EXCEPT ![t].plan = ClaimedPlan(k),
                               ![t].passed = {"claim"},
                               ![t].before = IF receipt[k] = "none" THEN None ELSE owner[k]]
        \/ receipt[k] # "none" /\ Finish(t)
  /\ UNCHANGED db

\* The condition that a step of the plan checks.  Only a new credential is
\* counted against the limits.
Condition(what, t) ==
  LET k == tx[t].key
      s == Svc(k)
  IN CASE what = "claim" -> IF tx[t].before = None THEN receipt[k] = "none"
                            ELSE Open(k) /\ owner[k] = tx[t].before
       [] what = "parallel" -> \A j \in Keys \ {k} : Svc(j) = s => ~Open(j)
       [] what = "phase" -> IF Action(k) = "reconcile" THEN service[s] # "deleted"
                                                       ELSE service[s] = "ready"
       [] what = "bucketName" -> reserved[Operation[k].bucket] \in {None, s}
       [] what = "limit" ->
            tx[t].before = None =>
              Cardinality({c \in credentials : Operation[c].org = Operation[k].org}) < MaxTotal
       [] what = "owner" -> Open(k) /\ owner[k] = tx[t].op
       [] what = "name" -> \A u \in Services \ {s} : svcName[u] # Operation[k].name

\* A check that fails rolls the transaction back.
Check(t) ==
  /\ Active(t) /\ Head1(t).do \in Checks \ {"claim"}
  /\ LET what == Head1(t).do
     IN IF Condition(what, t)
          THEN tx' = [tx EXCEPT ![t].plan = Tail(@), ![t].passed = @ \cup {what}]
          ELSE Finish(t)
  /\ UNCHANGED db

\* The upsert of complete_reconcile goes for the index entries of the name in
\* the row and of the new one; the first snapshot of record_usage checks the
\* foreign key to the service; a service without bucket has no usage.
Expand(t) ==
  /\ Active(t)
  /\ LET k == tx[t].key
     IN \/ /\ Head1(t).do = "upsert"
           /\ Continue(t, Exclusive("serviceName", svcName[Svc(k)])
                            \o Exclusive("serviceName", Operation[k].name) \o Tail(tx[t].plan))
        \/ /\ Head1(t).do = "usage"
           /\ IF service[Svc(k)] = "absent" THEN Finish(t)
              ELSE Continue(t, IF Svc(k) \in snapshot THEN Tail(tx[t].plan)
                               ELSE Lock("serviceRow", Svc(k), "keyShare") \o Tail(tx[t].plan))
  /\ UNCHANGED db

\* What the transaction wrote becomes visible.
Commit(t) ==
  /\ Active(t) /\ Head1(t).do = "commit"
  /\ Finish(t)
  /\ LET k == tx[t].key
         s == Svc(k)
         b == Operation[k].bucket
         kind == tx[t].kind
         action == Action(k)
         done == kind \in {"complete", "fail"}
         completes(a) == kind = "complete" /\ action = a
         releases == completes("delete") \/ (kind = "fail" /\ service[s] = "absent")
     IN /\ receipt' = [receipt EXCEPT ![k] = IF done THEN "done"
                                             ELSE IF kind = "usage" THEN @ ELSE "open"]
        /\ owner' = IF kind = "prepare" THEN [owner EXCEPT ![k] = t] ELSE owner
        /\ service' = [service EXCEPT ![s] = IF completes("reconcile") THEN "ready"
                                             ELSE IF completes("delete") THEN "deleted" ELSE @]
        /\ svcName' = IF completes("reconcile") THEN [svcName EXCEPT ![s] = Operation[k].name]
                                                ELSE svcName
        /\ reserved' = [n \in Names |->
             IF kind = "prepare" /\ action = "reconcile" /\ n = b THEN s
             ELSE IF reserved[n] = s /\ releases THEN None ELSE reserved[n]]
        /\ credentials' =
             IF kind = "prepare" /\ action = "create" THEN credentials \cup {k}
             ELSE IF kind = "fail" THEN credentials \ {c \in {k} : action = "create"}
             ELSE IF completes("revoke") THEN credentials \ {Operation[k].cred}
             ELSE IF completes("delete") THEN {c \in credentials : Svc(c) # s}
             ELSE credentials
        /\ snapshot' = IF kind = "usage" THEN snapshot \cup {s} ELSE snapshot

-----------------------------------------------------------------------------
(* Waiting *)

\* The transactions that wait for a lock.
Waiting == {t \in Txs : \E u \in Txs : Conflicts(t, u)}

\* Every transaction of the set waits for one of the set.
Stuck(T, waits(_, _)) == T # {} /\ \A t \in T : \E u \in T : waits(t, u)

\* PostgreSQL aborts a transaction of a smallest such set.
DetectDeadlock(t) ==
  /\ t \in Waiting
  /\ \E T \in SUBSET Waiting :
       /\ t \in T /\ Stuck(T, Conflicts)
       /\ \A U \in SUBSET T : Stuck(U, Conflicts) => U = T
  /\ Finish(t)
  /\ UNCHANGED db

Step(t) == Acquire(t) \/ Claim(t) \/ Check(t) \/ Expand(t) \/ Commit(t)

Next == UNCHANGED mix /\ \E t \in Txs : Begin(t) \/ Step(t) \/ DetectDeadlock(t)

Spec == Init /\ [][Next]_vars

-----------------------------------------------------------------------------
(* Properties *)

\* What a transaction has checked is still so in the committed rows until it
\* ends: the locks it holds keep everybody else from changing it.  So a
\* transaction that commits behaves as if it ran in one step at its commit,
\* which is how module Store treats it.
ChecksStayTrue ==
  \A t \in Txs : \A what \in tx[t].passed : Condition(what, t)

\* A completion waits for the receipt row of an operation that is being taken
\* over; the first usage snapshot of a service waits for the service row that
\* a completing reconciliation writes; a reconciliation waits for the name
\* that another one gives or takes.
KnownInversion(t, u) ==
  \/ /\ Head1(t).type = "receiptRow"
     /\ tx[t].kind \in {"complete", "fail"} /\ tx[u].kind = "prepare"
     /\ tx[t].key = tx[u].key
  \/ /\ Head1(t).type = "serviceRow"
     /\ tx[t].kind = "usage" /\ tx[u].kind = "complete"
  \/ Head1(t).type = "serviceName"

\* These three are the only ways to a deadlock: without them, waiting
\* transactions never form a cycle, whatever keys, services and organizations
\* they are about.
DeadlocksAreKnown ==
  ~\E T \in SUBSET Waiting : Stuck(T, LAMBDA t, u : Conflicts(t, u) /\ ~KnownInversion(t, u))
=============================================================================
