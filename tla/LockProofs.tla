------------------------------ MODULE LockProofs ------------------------------
(***************************************************************************)
(* Proofs about LockOrder: what a transaction has checked stays true until *)
(* it ends, and the only deadlocks are the known ones.                     *)
(*                                                                         *)
(* The invariant says of each transaction that the locks which a step of   *)
(* its plan relies on are held, or are taken by an earlier step of the     *)
(* plan; and that it takes its locks in the order of their ranks.          *)
(***************************************************************************)
EXTENDS LockOrder, SequenceTheorems, FiniteSetTheorems, TLAPS

Ids == Keys \cup Services \cup Orgs \cup Names \cup {None}

LockItem == [do : {"lock"}, type : LockTypes, id : Ids, mode : Modes]

Whats == Checks \cup {"upsert", "usage", "commit"}

Item == LockItem \cup [do : Whats]

TxRecord ==
  [kind : Kinds \cup {None, "ended"}, key : Keys \cup {None}, plan : Seq(Item),
   held : SUBSET LockItem, passed : SUBSET Checks,
   op : Txs \cup {Past, None}, before : Txs \cup {Past, None}]

\* What the locks of a transaction for key k are about.
IdOf(k, type) ==
  CASE type \in {"operation", "receiptRow"} -> k
    [] type = "organization" -> Operation[k].org
    [] type \in {"service", "serviceRow", "bucketRow"} -> Svc(k)
    [] type = "serviceName" -> Operation[k].name
    [] type = "bucketName" -> Operation[k].bucket

-----------------------------------------------------------------------------
(* What steps rely on *)

\* The locks that a check relies on, and those that a commit relies on.
CheckNeeds(what) ==
  CASE what = "claim" -> {"operation", "receiptRow"}
    [] what \in {"parallel", "phase"} -> {"service"}
    [] what = "bucketName" -> {"bucketName"}
    [] what = "limit" -> {"organization"}
    [] what = "owner" -> {"receiptRow"}
    [] what = "name" -> {"serviceName"}

CommitNeeds(kind, k) ==
  CASE kind = "prepare" ->
         {"operation", "receiptRow", "service"}
           \cup {ty \in {"bucketName"} : Action(k) = "reconcile"}
           \cup {ty \in {"organization"} : Action(k) = "create"}
    [] kind = "complete" ->
         {"receiptRow", "service"} \cup {ty \in {"serviceName"} : Action(k) = "reconcile"}
    [] kind = "fail" -> {"receiptRow"}
    [] kind = "renew" -> {"receiptRow"}
    [] kind = "usage" -> {}

\* A lock on a row that is not there holds nobody up: it relies on another
\* one for the row not to appear.
LockNeeds(kind, type) ==
  CASE type = "receiptRow" /\ kind = "prepare" -> {"operation"}
    [] type = "serviceRow" /\ kind \in {"prepare", "complete"} -> {"service"}
    [] type = "bucketRow" /\ kind = "complete" -> {"serviceRow"}
    [] OTHER -> {}

Needs(kind, k, x) ==
  CASE x.do = "lock" -> LockNeeds(kind, x.type)
    [] x.do \in Checks -> CheckNeeds(x.do)
    [] x.do = "commit" -> CommitNeeds(kind, k)
    [] OTHER -> {}

\* The step takes the lock of this type that others rely on.
Provides(k, x, type) ==
  \/ /\ x.do = "lock" /\ x.type = type /\ type # "bucketRow"
     /\ x.mode = "exclusive" /\ x.id = IdOf(k, type)
  \/ x.do = "upsert" /\ type = "serviceName"

\* What steps of a plan need is in H or taken earlier in the plan.
NeedsMet(kind, k, H, p) ==
  \A i \in 1..Len(p) : \A type \in Needs(kind, k, p[i]) :
    type \in H \/ \E j \in 1..(i - 1) : Provides(k, p[j], type)

\* The locks on rows are on the transaction's own; some steps are of one kind
\* of transaction only.
Fits(kind, k, x) ==
  /\ x.do = "claim" => kind = "prepare"
  /\ x.do = "upsert" => kind = "complete"
  /\ x.do = "usage" => kind = "usage"
  /\ x.do = "lock" =>
       /\ x.type \in {"receiptRow", "serviceRow", "bucketRow"} => x.id = IdOf(k, x.type)
       /\ x.type = "receiptRow" => x.mode = "exclusive"
       /\ x.type = "serviceRow" /\ x.mode = "exclusive" => kind \in {"prepare", "complete"}
       /\ x.type = "bucketRow" => kind \in {"complete", "usage"}
       /\ kind = "renew" => x.type \in {"operation", "receiptRow"}
       /\ kind = "usage" => x.type \in {"bucketRow", "serviceRow"}

AllFit(kind, k, p) == \A i \in 1..Len(p) : Fits(kind, k, p[i])

\* Who renews has seen that it is the owner.
OwnerSeen(kind, passed, p) ==
  kind = "renew" =>
    \A i \in 1..Len(p) : p[i].do = "commit" =>
      "owner" \in passed \/ \E j \in 1..(i - 1) : p[j].do = "owner"

Ends(p) == p # <<>> => p[Len(p)].do \in {"commit", "claim"}

-----------------------------------------------------------------------------
(* The order of locks *)

LockRank(kind, type) ==
  CASE type = "operation" -> 1
    [] type = "receiptRow" -> IF kind \in {"prepare", "renew"} THEN 2 ELSE 6
    [] type = "organization" -> 4
    [] type = "service" -> 5
    [] type = "bucketRow" -> IF kind = "usage" THEN 7 ELSE 10
    [] type = "serviceRow" -> 8
    [] type = "serviceName" -> 9
    [] type = "bucketName" -> 10

\* Steps that take locks, now or when they are expanded; 0: the others.
Rank(kind, x) ==
  CASE x.do = "lock" -> LockRank(kind, x.type)
    [] x.do = "claim" -> 3
    [] x.do = "usage" -> 8
    [] x.do = "upsert" -> 9
    [] OTHER -> 0

\* y may come after x; a reconciliation takes two names.
Ordered(kind, x, y) ==
  \/ Rank(kind, y) = 0
  \/ Rank(kind, x) < Rank(kind, y)
  \/ Rank(kind, x) = 9 /\ Rank(kind, y) = 9

InOrder(kind, p) ==
  \A i, j \in 1..Len(p) : i < j => Ordered(kind, p[i], p[j])

\* Held locks come before those of the plan.
HeldFirst(kind, held, p) ==
  \A h \in held : \A i \in 1..Len(p) : Ordered(kind, h, p[i])

-----------------------------------------------------------------------------
(* The invariant *)

Holds(r, type) ==
  \E h \in r.held : h.type = type /\ h.mode = "exclusive" /\ h.id = IdOf(r.key, type)

\* Locks that r has, those on rows that cannot appear included.
Got(r) ==
  {type \in LockTypes :
     \/ Holds(r, type)
     \/ /\ type = "receiptRow" /\ r.kind = "prepare"
        /\ receipt[r.key] = "none" /\ Holds(r, "operation")
     \/ type = "serviceRow" /\ service[Svc(r.key)] = "absent" /\ Holds(r, "service")}

\* LockOrder's Condition, of the record of a transaction.
ConditionOf(what, r) ==
  LET k == r.key
      s == Svc(k)
  IN CASE what = "claim" -> IF r.before = None THEN receipt[k] = "none"
                            ELSE Open(k) /\ owner[k] = r.before
       [] what = "parallel" -> \A j \in Keys \ {k} : Svc(j) = s => ~Open(j)
       [] what = "phase" -> IF Action(k) = "reconcile" THEN service[s] # "deleted"
                                                       ELSE service[s] = "ready"
       [] what = "bucketName" -> reserved[Operation[k].bucket] \in {None, s}
       [] what = "limit" ->
            r.before = None =>
              Cardinality({c \in credentials : Operation[c].org = Operation[k].org}) < MaxTotal
       [] what = "owner" -> Open(k) /\ owner[k] = r.op
       [] what = "name" -> \A u \in Services \ {s} : svcName[u] # Operation[k].name

\* What is planned.
PlanSound(kind, k, held, passed, p) ==
  /\ Ends(p)
  /\ AllFit(kind, k, p)
  /\ OwnerSeen(kind, passed, p)
  /\ InOrder(kind, p)
  /\ HeldFirst(kind, held, p)

\* What has been checked and locked.
PastSound(r) ==
  /\ \A h \in r.held : Fits(r.kind, r.key, h)
  /\ \A h \in r.held : h.type = "bucketRow" => service[h.id] # "absent"
  /\ \A what \in r.passed : CheckNeeds(what) \subseteq Got(r) /\ ConditionOf(what, r)
  /\ r.kind \in {"complete", "fail", "renew"} => receipt[r.key] # "none"

TxSound(r) ==
  /\ r \in TxRecord
  /\ r.plan = <<>> => r.held = {} /\ r.passed = {}
  /\ r.plan # <<>> =>
       /\ r.kind \in Kinds /\ r.key \in Keys
       /\ NeedsMet(r.kind, r.key, Got(r), r.plan)
       /\ PlanSound(r.kind, r.key, r.held, r.passed, r.plan)
       /\ PastSound(r)

\* Locks of two transactions on one thing go together.
HeldCompatible ==
  \A t, u \in Txs : t # u =>
    \A h \in tx[t].held, g \in tx[u].held :
      h.type = g.type /\ h.id = g.id => Compatible(h.mode, g.mode)

DbTyped ==
  /\ receipt \in [Keys -> States]
  /\ owner \in [Keys -> Txs \cup {Past}]
  /\ service \in [Services -> {"absent", "ready", "deleted"}]
  /\ svcName \in [Services -> Names \cup {None}]
  /\ reserved \in [Names -> Services \cup {None}]
  /\ credentials \subseteq Keys /\ IsFiniteSet(credentials)
  /\ snapshot \subseteq Services
  /\ mix \in Mixes

LockInv ==
  /\ DbTyped
  /\ tx \in [Txs -> TxRecord]
  /\ \A t \in Txs : TxSound(tx[t])
  /\ HeldCompatible

-----------------------------------------------------------------------------
(* Plans *)

Own(k, type) == [do |-> "lock", type |-> type, id |-> IdOf(k, type), mode |-> "exclusive"]

Weak(k, mode) == [do |-> "lock", type |-> "serviceRow", id |-> Svc(k), mode |-> mode]

What(what) == [do |-> what]

\* The requests have the types that LockOrder assumes.
LEMMA OperationTyped ==
  ASSUME NEW k \in Keys
  PROVE  /\ Svc(k) \in Services /\ Operation[k].org \in Orgs
         /\ Operation[k].name \in Names /\ Operation[k].bucket \in Names
         /\ Action(k) \in {"reconcile", "delete", "create", "revoke"}
BY LockOrderAssumption DEF Svc, Action

\* An exclusive lock of the transaction's own.
LEMMA OwnFacts ==
  ASSUME NEW kind \in Kinds, NEW k \in Keys, NEW type \in LockTypes,
         kind = "renew" => type \in {"operation", "receiptRow"},
         kind = "usage" => type = "bucketRow",
         type = "serviceRow" => kind \in {"prepare", "complete"},
         type = "bucketRow" => kind \in {"complete", "usage"}
  PROVE  /\ Own(k, type) \in Item
         /\ Own(k, type).do = "lock"
         /\ Needs(kind, k, Own(k, type)) = LockNeeds(kind, type)
         /\ type # "bucketRow" => Provides(k, Own(k, type), type)
         /\ Fits(kind, k, Own(k, type))
         /\ Rank(kind, Own(k, type)) = LockRank(kind, type)
<1>1. IdOf(k, type) \in Ids
  BY OperationTyped DEF IdOf, LockTypes, Ids
<1>2. Own(k, type) \in Item
  BY <1>1 DEF Own, Item, LockItem, Modes
<1> DEFINE x == Own(k, type)
<1>3. x.do = "lock" /\ x.type = type /\ x.id = IdOf(k, type) /\ x.mode = "exclusive"
  BY DEF Own
<1> HIDE DEF x
<1>4. Needs(kind, k, x) = LockNeeds(kind, type)
  BY <1>3 DEF Needs, Checks
<1>41. Rank(kind, x) = LockRank(kind, type)
  BY <1>3 DEF Rank
<1>5. (type # "bucketRow" => Provides(k, x, type)) /\ Fits(kind, k, x)
  BY <1>3 DEF Provides, Fits
<1> QED BY <1>2, <1>3, <1>4, <1>41, <1>5 DEF x

\* A weaker lock on the service row.
LEMMA WeakFacts ==
  ASSUME NEW kind \in {"complete", "usage"}, NEW k \in Keys, NEW mode \in {"noKey", "keyShare"}
  PROVE  /\ Weak(k, mode) \in Item
         /\ Weak(k, mode).do = "lock"
         /\ Needs(kind, k, Weak(k, mode)) = LockNeeds(kind, "serviceRow")
         /\ Fits(kind, k, Weak(k, mode))
         /\ Rank(kind, Weak(k, mode)) = 8
<1>1. Weak(k, mode) \in Item
  BY OperationTyped DEF Weak, Item, LockItem, Ids, LockTypes, Modes
<1> DEFINE x == Weak(k, mode)
<1>2. x.do = "lock" /\ x.type = "serviceRow" /\ x.id = Svc(k) /\ x.mode = mode
  BY DEF Weak
<1> HIDE DEF x
<1>3. Needs(kind, k, x) = LockNeeds(kind, "serviceRow")
  BY <1>2 DEF Needs, Checks
<1>31. Rank(kind, x) = 8
  BY <1>2 DEF Rank, LockRank
<1>4. Fits(kind, k, x)
  BY <1>2 DEF Fits, IdOf
<1> QED BY <1>1, <1>2, <1>3, <1>31, <1>4 DEF x

\* A step that is no lock.
LEMMA WhatFacts ==
  ASSUME NEW kind \in Kinds, NEW k \in Keys, NEW what \in Whats,
         what = "claim" => kind = "prepare", what = "upsert" => kind = "complete",
         what = "usage" => kind = "usage"
  PROVE  /\ What(what) \in Item
         /\ What(what).do = what
         /\ Needs(kind, k, What(what)) =
              IF what \in Checks THEN CheckNeeds(what)
              ELSE IF what = "commit" THEN CommitNeeds(kind, k) ELSE {}
         /\ Fits(kind, k, What(what))
         /\ Rank(kind, What(what)) = CASE what = "claim" -> 3 [] what = "usage" -> 8
                                       [] what = "upsert" -> 9 [] OTHER -> 0
         /\ what = "upsert" => Provides(k, What(what), "serviceName")
<1>1. What(what) \in Item /\ What(what).do = what /\ what # "lock"
  BY DEF What, Item, Whats, Checks
<1> QED BY <1>1 DEF Needs, Fits, Rank, Provides, Whats, Checks

\* Plans that are put together from single steps.
LEMMA ThreeSteps ==
  ASSUME NEW S, NEW a \in S, NEW b \in S, NEW c \in S
  PROVE  LET p == <<a>> \o <<b>> \o <<c>>
         IN /\ p \in Seq(S) /\ Len(p) = 3
            /\ p[1] = a /\ p[2] = b /\ p[3] = c
OBVIOUS

\* The same for four.
LEMMA FourSteps ==
  ASSUME NEW S, NEW a \in S, NEW b \in S, NEW c \in S, NEW d \in S
  PROVE  LET p == <<a>> \o <<b>> \o <<c>> \o <<d>>
         IN /\ p \in Seq(S) /\ Len(p) = 4
            /\ p[1] = a /\ p[2] = b /\ p[3] = c /\ p[4] = d
OBVIOUS

\* The same for five.
LEMMA FiveSteps ==
  ASSUME NEW S, NEW a \in S, NEW b \in S, NEW c \in S, NEW d \in S, NEW e \in S
  PROVE  LET p == <<a>> \o <<b>> \o <<c>> \o <<d>> \o <<e>>
         IN /\ p \in Seq(S) /\ Len(p) = 5
            /\ p[1] = a /\ p[2] = b /\ p[3] = c /\ p[4] = d /\ p[5] = e
OBVIOUS

\* The same for six.
LEMMA SixSteps ==
  ASSUME NEW S, NEW a \in S, NEW b \in S, NEW c \in S, NEW d \in S, NEW e \in S, NEW f \in S
  PROVE  LET p == <<a>> \o <<b>> \o <<c>> \o <<d>> \o <<e>> \o <<f>>
         IN /\ p \in Seq(S) /\ Len(p) = 6
            /\ p[1] = a /\ p[2] = b /\ p[3] = c /\ p[4] = d /\ p[5] = e /\ p[6] = f
OBVIOUS

\* The same for seven.
LEMMA SevenSteps ==
  ASSUME NEW S, NEW a \in S, NEW b \in S, NEW c \in S, NEW d \in S, NEW e \in S, NEW f \in S, NEW g \in S
  PROVE  LET p == <<a>> \o <<b>> \o <<c>> \o <<d>> \o <<e>> \o <<f>> \o <<g>>
         IN /\ p \in Seq(S) /\ Len(p) = 7
            /\ p[1] = a /\ p[2] = b /\ p[3] = c /\ p[4] = d /\ p[5] = e /\ p[6] = f /\ p[7] = g
OBVIOUS

\* The same for eight.
LEMMA EightSteps ==
  ASSUME NEW S, NEW a \in S, NEW b \in S, NEW c \in S, NEW d \in S, NEW e \in S, NEW f \in S, NEW g \in S, NEW h \in S
  PROVE  LET p == <<a>> \o <<b>> \o <<c>> \o <<d>> \o <<e>> \o <<f>> \o <<g>> \o <<h>>
         IN /\ p \in Seq(S) /\ Len(p) = 8
            /\ p[1] = a /\ p[2] = b /\ p[3] = c /\ p[4] = d /\ p[5] = e /\ p[6] = f /\ p[7] = g /\ p[8] = h
OBVIOUS

\* A plan as it is made, for a transaction that has the locks H.
PlanOK(kind, k, H, p) ==
  /\ p \in Seq(Item) /\ p # <<>>
  /\ NeedsMet(kind, k, H, p)
  /\ PlanSound(kind, k, {}, {}, p)

\* What a step of a plan is: its action, the locks it relies on, its rank.
IsStep(kind, k, x, do, needs, rank) ==
  /\ x \in Item /\ x.do = do /\ Needs(kind, k, x) = needs
  /\ Fits(kind, k, x) /\ Rank(kind, x) = rank

\* Locks that are taken after the claim come after those taken before it.
AboveClaim(p) ==
  \A i \in 1..Len(p) : Rank("prepare", p[i]) = 0 \/ Rank("prepare", p[i]) > 3

\* Likewise, with the three steps of FencedPlan in one.
LEMMA SixStepsFenced ==
  ASSUME NEW S, NEW a \in S, NEW b \in S, NEW c \in S, NEW d \in S, NEW e \in S, NEW f \in S
  PROVE  LET p == <<a>> \o (<<b>> \o <<c>> \o <<d>>) \o <<e>> \o <<f>>
         IN /\ p \in Seq(S) /\ Len(p) = 6
            /\ p[1] = a /\ p[2] = b /\ p[3] = c /\ p[4] = d /\ p[5] = e /\ p[6] = f
OBVIOUS

\* A sequence with a length is not the empty one.
LEMMA NotEmpty ==
  ASSUME NEW p, Len(p) # 0
  PROVE  p # <<>>
<1>1. Len(<<>>) = 0
  OBVIOUS
<1> QED BY <1>1, Zenon

\* A prepare, up to the claim.
LEMMA PreparePlanOK ==
  ASSUME NEW k \in Keys
  PROVE  PlanOK("prepare", k, {}, PreparePlan(k))
<1> DEFINE a == Own(k, "operation")
           b == Own(k, "receiptRow")
           c == What("claim")
           p == <<a>> \o <<b>> \o <<c>>
<1>1. PreparePlan(k) = p
  BY DEF PreparePlan, Do, Exclusive, IdOf, Lock, OperationLock, Own, ReceiptRow, What
<1> HIDE DEF a, b, c
<1>2. /\ IsStep("prepare", k, a, "lock", {}, 1) /\ Provides(k, a, "operation")
      /\ IsStep("prepare", k, b, "lock", {"operation"}, 2) /\ Provides(k, b, "receiptRow")
  BY OwnFacts DEF IsStep, a, b, LockTypes, Kinds, LockNeeds, LockRank
<1>3. /\ IsStep("prepare", k, c, "claim", {"operation", "receiptRow"}, 3)
  BY WhatFacts DEF IsStep, c, Whats, Checks, Kinds, CheckNeeds
<1>4. /\ p \in Seq(Item) /\ Len(p) = 3
      /\ p[1] = a /\ p[2] = b /\ p[3] = c
  BY <1>2, <1>3, ThreeSteps DEF IsStep
<1> HIDE DEF p
<1>5. NeedsMet("prepare", k, {}, p)
  BY <1>2, <1>3, <1>4 DEF NeedsMet, IsStep
<1>6. Ends(p) /\ AllFit("prepare", k, p) /\ OwnerSeen("prepare", {}, p)
  BY <1>2, <1>3, <1>4 DEF Ends, AllFit, OwnerSeen, IsStep
<1>7. InOrder("prepare", p) /\ HeldFirst("prepare", {}, p)
  BY <1>2, <1>3, <1>4 DEF InOrder, HeldFirst, Ordered, IsStep
<1>8. p # <<>>
  <2>1. Len(p) # 0
    BY <1>4
  <2> QED BY <2>1, NotEmpty, Zenon
<1>9. PlanOK("prepare", k, {}, p)
  BY <1>4, <1>5, <1>6, <1>7, <1>8 DEF PlanOK, PlanSound
<1> QED BY <1>1, <1>9

\* The rest of prepare_reconcile.
LEMMA ClaimedReconcileOK ==
  ASSUME NEW k \in Keys, Action(k) = "reconcile"
  PROVE  /\ PlanOK("prepare", k, {"operation", "receiptRow"}, ClaimedPlan(k))
         /\ AboveClaim(ClaimedPlan(k))
<1> DEFINE a == Own(k, "service")
           b == What("parallel")
           c == Own(k, "serviceRow")
           d == What("phase")
           e == Own(k, "bucketName")
           f == What("bucketName")
           g == What("commit")
           p == <<a>> \o <<b>> \o <<c>> \o <<d>> \o <<e>> \o <<f>> \o <<g>>
<1>1. ClaimedPlan(k) = p
  BY DEF ClaimedPlan, Do, Exclusive, IdOf, Lock, Own, ServiceLock, ServiceRow, Svc, What
<1> HIDE DEF a, b, c, d, e, f, g
<1>2. /\ IsStep("prepare", k, a, "lock", {}, 5) /\ Provides(k, a, "service")
      /\ IsStep("prepare", k, c, "lock", {"service"}, 8) /\ Provides(k, c, "serviceRow")
      /\ IsStep("prepare", k, e, "lock", {}, 10) /\ Provides(k, e, "bucketName")
  BY OwnFacts DEF IsStep, a, c, e, LockTypes, Kinds, LockNeeds, LockRank
<1>3. /\ IsStep("prepare", k, b, "parallel", {"service"}, 0)
      /\ IsStep("prepare", k, d, "phase", {"service"}, 0)
      /\ IsStep("prepare", k, f, "bucketName", {"bucketName"}, 0)
  BY WhatFacts DEF IsStep, b, d, f, Whats, Checks, Kinds, CheckNeeds
<1>4. /\ IsStep("prepare", k, g, "commit", {"operation", "receiptRow", "service", "bucketName"}, 0)
  BY WhatFacts DEF IsStep, g, Whats, Checks, Kinds, CommitNeeds
<1>5. /\ p \in Seq(Item) /\ Len(p) = 7
      /\ p[1] = a /\ p[2] = b /\ p[3] = c /\ p[4] = d /\ p[5] = e /\ p[6] = f /\ p[7] = g
  BY <1>2, <1>3, <1>4, SevenSteps DEF IsStep
<1> HIDE DEF p
<1>6. NeedsMet("prepare", k, {"operation", "receiptRow"}, p)
  BY <1>2, <1>3, <1>4, <1>5 DEF NeedsMet, IsStep
<1>7. Ends(p) /\ AllFit("prepare", k, p) /\ OwnerSeen("prepare", {}, p)
  BY <1>2, <1>3, <1>4, <1>5 DEF Ends, AllFit, OwnerSeen, IsStep
<1>8. InOrder("prepare", p) /\ HeldFirst("prepare", {}, p)
  BY <1>2, <1>3, <1>4, <1>5 DEF InOrder, HeldFirst, Ordered, IsStep
<1>9. AboveClaim(p)
  BY <1>2, <1>3, <1>4, <1>5 DEF AboveClaim, IsStep
<1>10. p # <<>>
  <2>1. Len(p) # 0
    BY <1>5
  <2> QED BY <2>1, NotEmpty, Zenon
<1>11. PlanOK("prepare", k, {"operation", "receiptRow"}, p)
  BY <1>5, <1>6, <1>7, <1>8, <1>10 DEF PlanOK, PlanSound
<1> QED BY <1>1, <1>11, <1>9

\* The rest of prepare_delete.
LEMMA ClaimedDeleteOK ==
  ASSUME NEW k \in Keys, Action(k) = "delete"
  PROVE  /\ PlanOK("prepare", k, {"operation", "receiptRow"}, ClaimedPlan(k))
         /\ AboveClaim(ClaimedPlan(k))
<1> DEFINE a == Own(k, "organization")
           b == Own(k, "service")
           c == What("parallel")
           d == Own(k, "serviceRow")
           e == What("phase")
           f == What("commit")
           p == <<a>> \o <<b>> \o <<c>> \o <<d>> \o <<e>> \o <<f>>
<1>1. ClaimedPlan(k) = p
  BY DEF ClaimedPlan, Do, Exclusive, IdOf, Lock, OrganizationLock, Own, ServiceLock, ServiceRow, Svc, What
<1> HIDE DEF a, b, c, d, e, f
<1>2. /\ IsStep("prepare", k, a, "lock", {}, 4) /\ Provides(k, a, "organization")
      /\ IsStep("prepare", k, b, "lock", {}, 5) /\ Provides(k, b, "service")
      /\ IsStep("prepare", k, d, "lock", {"service"}, 8) /\ Provides(k, d, "serviceRow")
  BY OwnFacts DEF IsStep, a, b, d, LockTypes, Kinds, LockNeeds, LockRank
<1>3. /\ IsStep("prepare", k, c, "parallel", {"service"}, 0)
      /\ IsStep("prepare", k, e, "phase", {"service"}, 0)
  BY WhatFacts DEF IsStep, c, e, Whats, Checks, Kinds, CheckNeeds
<1>4. /\ IsStep("prepare", k, f, "commit", {"operation", "receiptRow", "service"}, 0)
  BY WhatFacts DEF IsStep, f, Whats, Checks, Kinds, CommitNeeds
<1>5. /\ p \in Seq(Item) /\ Len(p) = 6
      /\ p[1] = a /\ p[2] = b /\ p[3] = c /\ p[4] = d /\ p[5] = e /\ p[6] = f
  BY <1>2, <1>3, <1>4, SixSteps DEF IsStep
<1> HIDE DEF p
<1>6. NeedsMet("prepare", k, {"operation", "receiptRow"}, p)
  BY <1>2, <1>3, <1>4, <1>5 DEF NeedsMet, IsStep
<1>7. Ends(p) /\ AllFit("prepare", k, p) /\ OwnerSeen("prepare", {}, p)
  BY <1>2, <1>3, <1>4, <1>5 DEF Ends, AllFit, OwnerSeen, IsStep
<1>8. InOrder("prepare", p) /\ HeldFirst("prepare", {}, p)
  BY <1>2, <1>3, <1>4, <1>5 DEF InOrder, HeldFirst, Ordered, IsStep
<1>9. AboveClaim(p)
  BY <1>2, <1>3, <1>4, <1>5 DEF AboveClaim, IsStep
<1>10. p # <<>>
  <2>1. Len(p) # 0
    BY <1>5
  <2> QED BY <2>1, NotEmpty, Zenon
<1>11. PlanOK("prepare", k, {"operation", "receiptRow"}, p)
  BY <1>5, <1>6, <1>7, <1>8, <1>10 DEF PlanOK, PlanSound
<1> QED BY <1>1, <1>11, <1>9

\* The rest of prepare_create_credential.
LEMMA ClaimedCreateOK ==
  ASSUME NEW k \in Keys, Action(k) = "create"
  PROVE  /\ PlanOK("prepare", k, {"operation", "receiptRow"}, ClaimedPlan(k))
         /\ AboveClaim(ClaimedPlan(k))
<1> DEFINE a == Own(k, "organization")
           b == Own(k, "service")
           c == Own(k, "serviceRow")
           d == What("phase")
           e == What("limit")
           f == What("parallel")
           g == What("commit")
           p == <<a>> \o <<b>> \o <<c>> \o <<d>> \o <<e>> \o <<f>> \o <<g>>
<1>1. ClaimedPlan(k) = p
  BY DEF ClaimedPlan, Do, Exclusive, IdOf, Lock, OrganizationLock, Own, ServiceLock, ServiceRow, Svc, What
<1> HIDE DEF a, b, c, d, e, f, g
<1>2. /\ IsStep("prepare", k, a, "lock", {}, 4) /\ Provides(k, a, "organization")
      /\ IsStep("prepare", k, b, "lock", {}, 5) /\ Provides(k, b, "service")
      /\ IsStep("prepare", k, c, "lock", {"service"}, 8) /\ Provides(k, c, "serviceRow")
  BY OwnFacts DEF IsStep, a, b, c, LockTypes, Kinds, LockNeeds, LockRank
<1>3. /\ IsStep("prepare", k, d, "phase", {"service"}, 0)
      /\ IsStep("prepare", k, e, "limit", {"organization"}, 0)
      /\ IsStep("prepare", k, f, "parallel", {"service"}, 0)
  BY WhatFacts DEF IsStep, d, e, f, Whats, Checks, Kinds, CheckNeeds
<1>4. /\ IsStep("prepare", k, g, "commit", {"operation", "receiptRow", "service", "organization"}, 0)
  BY WhatFacts DEF IsStep, g, Whats, Checks, Kinds, CommitNeeds
<1>5. /\ p \in Seq(Item) /\ Len(p) = 7
      /\ p[1] = a /\ p[2] = b /\ p[3] = c /\ p[4] = d /\ p[5] = e /\ p[6] = f /\ p[7] = g
  BY <1>2, <1>3, <1>4, SevenSteps DEF IsStep
<1> HIDE DEF p
<1>6. NeedsMet("prepare", k, {"operation", "receiptRow"}, p)
  BY <1>2, <1>3, <1>4, <1>5 DEF NeedsMet, IsStep
<1>7. Ends(p) /\ AllFit("prepare", k, p) /\ OwnerSeen("prepare", {}, p)
  BY <1>2, <1>3, <1>4, <1>5 DEF Ends, AllFit, OwnerSeen, IsStep
<1>8. InOrder("prepare", p) /\ HeldFirst("prepare", {}, p)
  BY <1>2, <1>3, <1>4, <1>5 DEF InOrder, HeldFirst, Ordered, IsStep
<1>9. AboveClaim(p)
  BY <1>2, <1>3, <1>4, <1>5 DEF AboveClaim, IsStep
<1>10. p # <<>>
  <2>1. Len(p) # 0
    BY <1>5
  <2> QED BY <2>1, NotEmpty, Zenon
<1>11. PlanOK("prepare", k, {"operation", "receiptRow"}, p)
  BY <1>5, <1>6, <1>7, <1>8, <1>10 DEF PlanOK, PlanSound
<1> QED BY <1>1, <1>11, <1>9

\* The rest of prepare_revoke_credential.
LEMMA ClaimedRevokeOK ==
  ASSUME NEW k \in Keys, Action(k) = "revoke"
  PROVE  /\ PlanOK("prepare", k, {"operation", "receiptRow"}, ClaimedPlan(k))
         /\ AboveClaim(ClaimedPlan(k))
<1> DEFINE a == Own(k, "service")
           b == What("parallel")
           c == Own(k, "serviceRow")
           d == What("phase")
           e == What("commit")
           p == <<a>> \o <<b>> \o <<c>> \o <<d>> \o <<e>>
<1>1. ClaimedPlan(k) = p
  BY DEF ClaimedPlan, Do, Exclusive, IdOf, Lock, Own, ServiceLock, ServiceRow, Svc, What
<1> HIDE DEF a, b, c, d, e
<1>2. /\ IsStep("prepare", k, a, "lock", {}, 5) /\ Provides(k, a, "service")
      /\ IsStep("prepare", k, c, "lock", {"service"}, 8) /\ Provides(k, c, "serviceRow")
  BY OwnFacts DEF IsStep, a, c, LockTypes, Kinds, LockNeeds, LockRank
<1>3. /\ IsStep("prepare", k, b, "parallel", {"service"}, 0)
      /\ IsStep("prepare", k, d, "phase", {"service"}, 0)
  BY WhatFacts DEF IsStep, b, d, Whats, Checks, Kinds, CheckNeeds
<1>4. /\ IsStep("prepare", k, e, "commit", {"operation", "receiptRow", "service"}, 0)
  BY WhatFacts DEF IsStep, e, Whats, Checks, Kinds, CommitNeeds
<1>5. /\ p \in Seq(Item) /\ Len(p) = 5
      /\ p[1] = a /\ p[2] = b /\ p[3] = c /\ p[4] = d /\ p[5] = e
  BY <1>2, <1>3, <1>4, FiveSteps DEF IsStep
<1> HIDE DEF p
<1>6. NeedsMet("prepare", k, {"operation", "receiptRow"}, p)
  BY <1>2, <1>3, <1>4, <1>5 DEF NeedsMet, IsStep
<1>7. Ends(p) /\ AllFit("prepare", k, p) /\ OwnerSeen("prepare", {}, p)
  BY <1>2, <1>3, <1>4, <1>5 DEF Ends, AllFit, OwnerSeen, IsStep
<1>8. InOrder("prepare", p) /\ HeldFirst("prepare", {}, p)
  BY <1>2, <1>3, <1>4, <1>5 DEF InOrder, HeldFirst, Ordered, IsStep
<1>9. AboveClaim(p)
  BY <1>2, <1>3, <1>4, <1>5 DEF AboveClaim, IsStep
<1>10. p # <<>>
  <2>1. Len(p) # 0
    BY <1>5
  <2> QED BY <2>1, NotEmpty, Zenon
<1>11. PlanOK("prepare", k, {"operation", "receiptRow"}, p)
  BY <1>5, <1>6, <1>7, <1>8, <1>10 DEF PlanOK, PlanSound
<1> QED BY <1>1, <1>11, <1>9

\* complete_reconcile.
LEMMA CompleteReconcileOK ==
  ASSUME NEW k \in Keys, Action(k) = "reconcile"
  PROVE  PlanOK("complete", k, {}, CompletePlan(k))
<1> DEFINE a == Own(k, "service")
           b == Own(k, "receiptRow")
           c == What("owner")
           d == Own(k, "serviceRow")
           e == What("upsert")
           f == What("name")
           g == Own(k, "bucketRow")
           h == What("commit")
           p == <<a>> \o <<b>> \o <<c>> \o <<d>> \o <<e>> \o <<f>> \o <<g>> \o <<h>>
<1>1. CompletePlan(k) = p
  BY DEF CompletePlan, Do, Exclusive, FencedPlan, IdOf, Lock, Own, ReceiptRow, ServiceLock, ServiceRow, What
<1> HIDE DEF a, b, c, d, e, f, g, h
<1>2. /\ IsStep("complete", k, a, "lock", {}, 5) /\ Provides(k, a, "service")
      /\ IsStep("complete", k, b, "lock", {}, 6) /\ Provides(k, b, "receiptRow")
      /\ IsStep("complete", k, d, "lock", {"service"}, 8) /\ Provides(k, d, "serviceRow")
      /\ IsStep("complete", k, g, "lock", {"serviceRow"}, 10)
  BY OwnFacts DEF IsStep, a, b, d, g, LockTypes, Kinds, LockNeeds, LockRank
<1>3. /\ IsStep("complete", k, c, "owner", {"receiptRow"}, 0)
      /\ IsStep("complete", k, e, "upsert", {}, 9) /\ Provides(k, e, "serviceName")
      /\ IsStep("complete", k, f, "name", {"serviceName"}, 0)
  BY WhatFacts DEF IsStep, c, e, f, Whats, Checks, Kinds, CheckNeeds
<1>4. /\ IsStep("complete", k, h, "commit", {"receiptRow", "service", "serviceName"}, 0)
  BY WhatFacts DEF IsStep, h, Whats, Checks, Kinds, CommitNeeds
<1>5. /\ p \in Seq(Item) /\ Len(p) = 8
      /\ p[1] = a /\ p[2] = b /\ p[3] = c /\ p[4] = d /\ p[5] = e /\ p[6] = f /\ p[7] = g /\ p[8] = h
  BY <1>2, <1>3, <1>4, EightSteps DEF IsStep
<1> HIDE DEF p
<1>6. NeedsMet("complete", k, {}, p)
  BY <1>2, <1>3, <1>4, <1>5 DEF NeedsMet, IsStep
<1>7. Ends(p) /\ AllFit("complete", k, p) /\ OwnerSeen("complete", {}, p)
  BY <1>2, <1>3, <1>4, <1>5 DEF Ends, AllFit, OwnerSeen, IsStep
<1>8. InOrder("complete", p) /\ HeldFirst("complete", {}, p)
  BY <1>2, <1>3, <1>4, <1>5 DEF InOrder, HeldFirst, Ordered, IsStep
<1>9. p # <<>>
  <2>1. Len(p) # 0
    BY <1>5
  <2> QED BY <2>1, NotEmpty, Zenon
<1>10. PlanOK("complete", k, {}, p)
  BY <1>5, <1>6, <1>7, <1>8, <1>9 DEF PlanOK, PlanSound
<1> QED BY <1>1, <1>10

\* complete_delete.
LEMMA CompleteDeleteOK ==
  ASSUME NEW k \in Keys, Action(k) = "delete"
  PROVE  PlanOK("complete", k, {}, CompletePlan(k))
<1> DEFINE a == Own(k, "service")
           b == Own(k, "receiptRow")
           c == What("owner")
           d == Weak(k, "noKey")
           e == Own(k, "bucketName")
           f == What("commit")
           p == <<a>> \o <<b>> \o <<c>> \o <<d>> \o <<e>> \o <<f>>
<1>1. CompletePlan(k) = p
  BY DEF CompletePlan, Do, Exclusive, FencedPlan, IdOf, Lock, Own, ReceiptRow, ServiceLock, Weak, What
<1> HIDE DEF a, b, c, d, e, f
<1>2. /\ IsStep("complete", k, a, "lock", {}, 5) /\ Provides(k, a, "service")
      /\ IsStep("complete", k, b, "lock", {}, 6) /\ Provides(k, b, "receiptRow")
      /\ IsStep("complete", k, e, "lock", {}, 10) /\ Provides(k, e, "bucketName")
  BY OwnFacts DEF IsStep, a, b, e, LockTypes, Kinds, LockNeeds, LockRank
<1>3. /\ IsStep("complete", k, d, "lock", {"service"}, 8)
  BY WeakFacts DEF IsStep, d, Modes, LockNeeds
<1>4. /\ IsStep("complete", k, c, "owner", {"receiptRow"}, 0)
  BY WhatFacts DEF IsStep, c, Whats, Checks, Kinds, CheckNeeds
<1>5. /\ IsStep("complete", k, f, "commit", {"receiptRow", "service"}, 0)
  BY WhatFacts DEF IsStep, f, Whats, Checks, Kinds, CommitNeeds
<1>6. /\ p \in Seq(Item) /\ Len(p) = 6
      /\ p[1] = a /\ p[2] = b /\ p[3] = c /\ p[4] = d /\ p[5] = e /\ p[6] = f
  BY <1>2, <1>3, <1>4, <1>5, SixSteps DEF IsStep
<1> HIDE DEF p
<1>7. NeedsMet("complete", k, {}, p)
  BY <1>2, <1>3, <1>4, <1>5, <1>6 DEF NeedsMet, IsStep
<1>8. Ends(p) /\ AllFit("complete", k, p) /\ OwnerSeen("complete", {}, p)
  BY <1>2, <1>3, <1>4, <1>5, <1>6 DEF Ends, AllFit, OwnerSeen, IsStep
<1>9. InOrder("complete", p) /\ HeldFirst("complete", {}, p)
  BY <1>2, <1>3, <1>4, <1>5, <1>6 DEF InOrder, HeldFirst, Ordered, IsStep
<1>10. p # <<>>
  <2>1. Len(p) # 0
    BY <1>6
  <2> QED BY <2>1, NotEmpty, Zenon
<1>11. PlanOK("complete", k, {}, p)
  BY <1>6, <1>7, <1>8, <1>9, <1>10 DEF PlanOK, PlanSound
<1> QED BY <1>1, <1>11

\* complete_create_credential.
LEMMA CompleteCreateOK ==
  ASSUME NEW k \in Keys, Action(k) = "create"
  PROVE  PlanOK("complete", k, {}, CompletePlan(k))
<1> DEFINE a == Own(k, "organization")
           b == Own(k, "service")
           c == Own(k, "receiptRow")
           d == What("owner")
           e == Weak(k, "keyShare")
           f == What("commit")
           p == <<a>> \o (<<b>> \o <<c>> \o <<d>>) \o <<e>> \o <<f>>
<1>1. CompletePlan(k) = p
  BY DEF CompletePlan, Do, Exclusive, FencedPlan, IdOf, Lock, OrganizationLock, Own, ReceiptRow, ServiceLock, Weak, What
<1> HIDE DEF a, b, c, d, e, f
<1>2. /\ IsStep("complete", k, a, "lock", {}, 4) /\ Provides(k, a, "organization")
      /\ IsStep("complete", k, b, "lock", {}, 5) /\ Provides(k, b, "service")
      /\ IsStep("complete", k, c, "lock", {}, 6) /\ Provides(k, c, "receiptRow")
  BY OwnFacts DEF IsStep, a, b, c, LockTypes, Kinds, LockNeeds, LockRank
<1>3. /\ IsStep("complete", k, e, "lock", {"service"}, 8)
  BY WeakFacts DEF IsStep, e, Modes, LockNeeds
<1>4. /\ IsStep("complete", k, d, "owner", {"receiptRow"}, 0)
  BY WhatFacts DEF IsStep, d, Whats, Checks, Kinds, CheckNeeds
<1>5. /\ IsStep("complete", k, f, "commit", {"receiptRow", "service"}, 0)
  BY WhatFacts DEF IsStep, f, Whats, Checks, Kinds, CommitNeeds
<1>6. /\ p \in Seq(Item) /\ Len(p) = 6
      /\ p[1] = a /\ p[2] = b /\ p[3] = c /\ p[4] = d /\ p[5] = e /\ p[6] = f
  BY <1>2, <1>3, <1>4, <1>5, SixStepsFenced DEF IsStep
<1> HIDE DEF p
<1>7. NeedsMet("complete", k, {}, p)
  BY <1>2, <1>3, <1>4, <1>5, <1>6 DEF NeedsMet, IsStep
<1>8. Ends(p) /\ AllFit("complete", k, p) /\ OwnerSeen("complete", {}, p)
  BY <1>2, <1>3, <1>4, <1>5, <1>6 DEF Ends, AllFit, OwnerSeen, IsStep
<1>9. InOrder("complete", p) /\ HeldFirst("complete", {}, p)
  BY <1>2, <1>3, <1>4, <1>5, <1>6 DEF InOrder, HeldFirst, Ordered, IsStep
<1>10. p # <<>>
  <2>1. Len(p) # 0
    BY <1>6
  <2> QED BY <2>1, NotEmpty, Zenon
<1>11. PlanOK("complete", k, {}, p)
  BY <1>6, <1>7, <1>8, <1>9, <1>10 DEF PlanOK, PlanSound
<1> QED BY <1>1, <1>11

\* complete_revoke_credential.
LEMMA CompleteRevokeOK ==
  ASSUME NEW k \in Keys, Action(k) = "revoke"
  PROVE  PlanOK("complete", k, {}, CompletePlan(k))
<1> DEFINE a == Own(k, "service")
           b == Own(k, "receiptRow")
           c == What("owner")
           d == What("commit")
           p == <<a>> \o <<b>> \o <<c>> \o <<d>>
<1>1. CompletePlan(k) = p
  BY DEF CompletePlan, Do, Exclusive, FencedPlan, IdOf, Lock, Own, ReceiptRow, ServiceLock, What
<1> HIDE DEF a, b, c, d
<1>2. /\ IsStep("complete", k, a, "lock", {}, 5) /\ Provides(k, a, "service")
      /\ IsStep("complete", k, b, "lock", {}, 6) /\ Provides(k, b, "receiptRow")
  BY OwnFacts DEF IsStep, a, b, LockTypes, Kinds, LockNeeds, LockRank
<1>3. /\ IsStep("complete", k, c, "owner", {"receiptRow"}, 0)
  BY WhatFacts DEF IsStep, c, Whats, Checks, Kinds, CheckNeeds
<1>4. /\ IsStep("complete", k, d, "commit", {"receiptRow", "service"}, 0)
  BY WhatFacts DEF IsStep, d, Whats, Checks, Kinds, CommitNeeds
<1>5. /\ p \in Seq(Item) /\ Len(p) = 4
      /\ p[1] = a /\ p[2] = b /\ p[3] = c /\ p[4] = d
  BY <1>2, <1>3, <1>4, FourSteps DEF IsStep
<1> HIDE DEF p
<1>6. NeedsMet("complete", k, {}, p)
  BY <1>2, <1>3, <1>4, <1>5 DEF NeedsMet, IsStep
<1>7. Ends(p) /\ AllFit("complete", k, p) /\ OwnerSeen("complete", {}, p)
  BY <1>2, <1>3, <1>4, <1>5 DEF Ends, AllFit, OwnerSeen, IsStep
<1>8. InOrder("complete", p) /\ HeldFirst("complete", {}, p)
  BY <1>2, <1>3, <1>4, <1>5 DEF InOrder, HeldFirst, Ordered, IsStep
<1>9. p # <<>>
  <2>1. Len(p) # 0
    BY <1>5
  <2> QED BY <2>1, NotEmpty, Zenon
<1>10. PlanOK("complete", k, {}, p)
  BY <1>5, <1>6, <1>7, <1>8, <1>9 DEF PlanOK, PlanSound
<1> QED BY <1>1, <1>10

\* fail_operation.
LEMMA FailPlanOK ==
  ASSUME NEW k \in Keys
  PROVE  PlanOK("fail", k, {}, FailPlan(k))
<1> DEFINE a == Own(k, "organization")
           b == Own(k, "service")
           c == Own(k, "receiptRow")
           d == What("owner")
           e == Own(k, "bucketName")
           f == What("commit")
           p == <<a>> \o (<<b>> \o <<c>> \o <<d>>) \o <<e>> \o <<f>>
<1>1. FailPlan(k) = p
  BY DEF FailPlan, Do, Exclusive, FencedPlan, IdOf, Lock, OrganizationLock, Own, ReceiptRow, ServiceLock, What
<1> HIDE DEF a, b, c, d, e, f
<1>2. /\ IsStep("fail", k, a, "lock", {}, 4) /\ Provides(k, a, "organization")
      /\ IsStep("fail", k, b, "lock", {}, 5) /\ Provides(k, b, "service")
      /\ IsStep("fail", k, c, "lock", {}, 6) /\ Provides(k, c, "receiptRow")
      /\ IsStep("fail", k, e, "lock", {}, 10) /\ Provides(k, e, "bucketName")
  BY OwnFacts DEF IsStep, a, b, c, e, LockTypes, Kinds, LockNeeds, LockRank
<1>3. /\ IsStep("fail", k, d, "owner", {"receiptRow"}, 0)
  BY WhatFacts DEF IsStep, d, Whats, Checks, Kinds, CheckNeeds
<1>4. /\ IsStep("fail", k, f, "commit", {"receiptRow"}, 0)
  BY WhatFacts DEF IsStep, f, Whats, Checks, Kinds, CommitNeeds
<1>5. /\ p \in Seq(Item) /\ Len(p) = 6
      /\ p[1] = a /\ p[2] = b /\ p[3] = c /\ p[4] = d /\ p[5] = e /\ p[6] = f
  BY <1>2, <1>3, <1>4, SixStepsFenced DEF IsStep
<1> HIDE DEF p
<1>6. NeedsMet("fail", k, {}, p)
  BY <1>2, <1>3, <1>4, <1>5 DEF NeedsMet, IsStep
<1>7. Ends(p) /\ AllFit("fail", k, p) /\ OwnerSeen("fail", {}, p)
  BY <1>2, <1>3, <1>4, <1>5 DEF Ends, AllFit, OwnerSeen, IsStep
<1>8. InOrder("fail", p) /\ HeldFirst("fail", {}, p)
  BY <1>2, <1>3, <1>4, <1>5 DEF InOrder, HeldFirst, Ordered, IsStep
<1>9. p # <<>>
  <2>1. Len(p) # 0
    BY <1>5
  <2> QED BY <2>1, NotEmpty, Zenon
<1>10. PlanOK("fail", k, {}, p)
  BY <1>5, <1>6, <1>7, <1>8, <1>9 DEF PlanOK, PlanSound
<1> QED BY <1>1, <1>10

\* renew_operation.
LEMMA RenewPlanOK ==
  ASSUME NEW k \in Keys
  PROVE  PlanOK("renew", k, {}, RenewPlan(k))
<1> DEFINE a == Own(k, "operation")
           b == Own(k, "receiptRow")
           c == What("owner")
           d == What("commit")
           p == <<a>> \o <<b>> \o <<c>> \o <<d>>
<1>1. RenewPlan(k) = p
  BY DEF RenewPlan, Do, Exclusive, IdOf, Lock, OperationLock, Own, ReceiptRow, What
<1> HIDE DEF a, b, c, d
<1>2. /\ IsStep("renew", k, a, "lock", {}, 1) /\ Provides(k, a, "operation")
      /\ IsStep("renew", k, b, "lock", {}, 2) /\ Provides(k, b, "receiptRow")
  BY OwnFacts DEF IsStep, a, b, LockTypes, Kinds, LockNeeds, LockRank
<1>3. /\ IsStep("renew", k, c, "owner", {"receiptRow"}, 0)
  BY WhatFacts DEF IsStep, c, Whats, Checks, Kinds, CheckNeeds
<1>4. /\ IsStep("renew", k, d, "commit", {"receiptRow"}, 0)
  BY WhatFacts DEF IsStep, d, Whats, Checks, Kinds, CommitNeeds
<1>5. /\ p \in Seq(Item) /\ Len(p) = 4
      /\ p[1] = a /\ p[2] = b /\ p[3] = c /\ p[4] = d
  BY <1>2, <1>3, <1>4, FourSteps DEF IsStep
<1> HIDE DEF p
<1>6. NeedsMet("renew", k, {}, p)
  BY <1>2, <1>3, <1>4, <1>5 DEF NeedsMet, IsStep
<1>7. Ends(p) /\ AllFit("renew", k, p) /\ OwnerSeen("renew", {}, p)
  BY <1>2, <1>3, <1>4, <1>5 DEF Ends, AllFit, OwnerSeen, IsStep
<1>8. InOrder("renew", p) /\ HeldFirst("renew", {}, p)
  BY <1>2, <1>3, <1>4, <1>5 DEF InOrder, HeldFirst, Ordered, IsStep
<1>9. p # <<>>
  <2>1. Len(p) # 0
    BY <1>5
  <2> QED BY <2>1, NotEmpty, Zenon
<1>10. PlanOK("renew", k, {}, p)
  BY <1>5, <1>6, <1>7, <1>8, <1>9 DEF PlanOK, PlanSound
<1> QED BY <1>1, <1>10

\* record_usage.
LEMMA UsagePlanOK ==
  ASSUME NEW k \in Keys
  PROVE  PlanOK("usage", k, {}, UsagePlan(k))
<1> DEFINE a == Own(k, "bucketRow")
           b == What("usage")
           c == What("commit")
           p == <<a>> \o <<b>> \o <<c>>
<1>1. UsagePlan(k) = p
  BY DEF UsagePlan, Do, Exclusive, IdOf, Lock, Own, What
<1> HIDE DEF a, b, c
<1>2. /\ IsStep("usage", k, a, "lock", {}, 7)
  BY OwnFacts DEF IsStep, a, LockTypes, Kinds, LockNeeds, LockRank
<1>3. /\ IsStep("usage", k, b, "usage", {}, 8)
  BY WhatFacts DEF IsStep, b, Whats, Checks, Kinds, CheckNeeds
<1>4. /\ IsStep("usage", k, c, "commit", {}, 0)
  BY WhatFacts DEF IsStep, c, Whats, Checks, Kinds, CommitNeeds
<1>5. /\ p \in Seq(Item) /\ Len(p) = 3
      /\ p[1] = a /\ p[2] = b /\ p[3] = c
  BY <1>2, <1>3, <1>4, ThreeSteps DEF IsStep
<1> HIDE DEF p
<1>6. NeedsMet("usage", k, {}, p)
  BY <1>2, <1>3, <1>4, <1>5 DEF NeedsMet, IsStep
<1>7. Ends(p) /\ AllFit("usage", k, p) /\ OwnerSeen("usage", {}, p)
  BY <1>2, <1>3, <1>4, <1>5 DEF Ends, AllFit, OwnerSeen, IsStep
<1>8. InOrder("usage", p) /\ HeldFirst("usage", {}, p)
  BY <1>2, <1>3, <1>4, <1>5 DEF InOrder, HeldFirst, Ordered, IsStep
<1>9. p # <<>>
  <2>1. Len(p) # 0
    BY <1>5
  <2> QED BY <2>1, NotEmpty, Zenon
<1>10. PlanOK("usage", k, {}, p)
  BY <1>5, <1>6, <1>7, <1>8, <1>9 DEF PlanOK, PlanSound
<1> QED BY <1>1, <1>10

\* All plans of transactions are sound.
LEMMA PlansOK ==
  ASSUME NEW kind \in Kinds, NEW k \in Keys
  PROVE  PlanOK(kind, k, {}, PlanOf(kind, k))
<1>1. CASE kind = "complete"
  BY <1>1, OperationTyped, CompleteReconcileOK, CompleteDeleteOK, CompleteCreateOK,
     CompleteRevokeOK DEF PlanOf
<1>2. CASE kind # "complete"
  BY <1>2, PreparePlanOK, FailPlanOK, RenewPlanOK, UsagePlanOK DEF PlanOf, Kinds
<1> QED BY <1>1, <1>2

\* So is what a prepare does after its claim.
LEMMA ClaimedPlanOK ==
  ASSUME NEW k \in Keys
  PROVE  /\ PlanOK("prepare", k, {"operation", "receiptRow"}, ClaimedPlan(k))
         /\ AboveClaim(ClaimedPlan(k))
BY OperationTyped, ClaimedReconcileOK, ClaimedDeleteOK, ClaimedCreateOK, ClaimedRevokeOK

-----------------------------------------------------------------------------
(* Going on with a plan *)

\* What is left of a plan after its first step.
LEMMA TailSteps ==
  ASSUME NEW p \in Seq(Item), p # <<>>
  PROVE  /\ Head(p) = p[1] /\ p[1] \in Item /\ Len(p) \in Nat /\ Len(p) >= 1
         /\ Tail(p) \in Seq(Item) /\ Len(Tail(p)) = Len(p) - 1
         /\ Tail(p) # <<>> <=> Len(p) > 1
         /\ Len(p) # 1 => Tail(p) # <<>>
         /\ \A i \in 1..Len(Tail(p)) : i + 1 \in 1..Len(p) /\ Tail(p)[i] = p[i + 1]
<1>1. /\ Head(p) = p[1] /\ p[1] \in Item /\ Len(p) \in Nat /\ Len(p) >= 1
      /\ Tail(p) \in Seq(Item) /\ Len(Tail(p)) = Len(p) - 1
  OBVIOUS
<1>2. \A q \in Seq(Item) : q # <<>> <=> Len(q) > 0
  OBVIOUS
<1>3. \A i \in 1..Len(Tail(p)) : i + 1 \in 1..Len(p) /\ Tail(p)[i] = p[i + 1]
  OBVIOUS
<1>4. Tail(p) # <<>> <=> Len(Tail(p)) > 0
  BY <1>1, <1>2, Zenon
<1>5. Len(Tail(p)) > 0 <=> Len(p) > 1
  BY <1>1
<1>6. Len(p) # 1 => Len(p) > 1
  BY <1>1
<1> QED BY <1>1, <1>3, <1>4, <1>5, <1>6, Zenon

\* What the first step provides may be relied on by the others.
LEMMA TailNeedsMet ==
  ASSUME NEW kind, NEW k, NEW p \in Seq(Item), p # <<>>, NEW H, NEW G, H \subseteq G,
         NeedsMet(kind, k, H, p), \A type : Provides(k, Head(p), type) => type \in G
  PROVE  NeedsMet(kind, k, G, Tail(p))
<1> SUFFICES ASSUME NEW i \in 1..Len(Tail(p)), NEW type \in Needs(kind, k, Tail(p)[i]),
                    type \notin G
             PROVE  \E j \in 1..(i - 1) : Provides(k, Tail(p)[j], type)
  BY DEF NeedsMet
<1>1. PICK j \in 1..i : Provides(k, p[j], type)
  BY TailSteps DEF NeedsMet
<1>2. j # 1
  BY <1>1, TailSteps
<1>3. j - 1 \in 1..(i - 1) /\ Tail(p)[j - 1] = p[j]
  BY <1>2, TailSteps
<1> QED BY <1>1, <1>3

\* The rest of a sound plan is sound, with the first step among what is past.
LEMMA TailSound ==
  ASSUME NEW kind, NEW k, NEW held, NEW passed, NEW p \in Seq(Item), p # <<>>,
         PlanSound(kind, k, held, passed, p),
         NEW held2, held2 \subseteq held \cup {Head(p)},
         NEW passed2, passed \subseteq passed2,
         Head(p).do = "owner" => "owner" \in passed2
  PROVE  PlanSound(kind, k, held2, passed2, Tail(p))
<1>1. Ends(Tail(p)) /\ AllFit(kind, k, Tail(p))
  BY TailSteps DEF PlanSound, Ends, AllFit
<1>2. OwnerSeen(kind, passed2, Tail(p))
  <2> SUFFICES ASSUME kind = "renew", NEW i \in 1..Len(Tail(p)), Tail(p)[i].do = "commit",
                      "owner" \notin passed2
               PROVE  \E j \in 1..(i - 1) : Tail(p)[j].do = "owner"
    BY DEF OwnerSeen
  <2>1. PICK j \in 1..i : p[j].do = "owner"
    BY TailSteps DEF PlanSound, OwnerSeen
  <2>2. j # 1
    BY <2>1, TailSteps
  <2>3. j - 1 \in 1..(i - 1) /\ Tail(p)[j - 1] = p[j]
    BY <2>2, TailSteps
  <2> QED BY <2>1, <2>3
<1>3. InOrder(kind, Tail(p))
  BY TailSteps DEF PlanSound, InOrder
<1>4. HeldFirst(kind, held2, Tail(p))
  BY TailSteps DEF PlanSound, HeldFirst, InOrder
<1> QED BY <1>1, <1>2, <1>3, <1>4 DEF PlanSound

\* A step in front of a plan.
LEMMA ConsSteps ==
  ASSUME NEW x \in Item, NEW q \in Seq(Item), NEW p, p = <<x>> \o q
  PROVE  /\ p \in Seq(Item) /\ Len(p) = Len(q) + 1 /\ p # <<>> /\ p[1] = x
         /\ \A i \in 1..Len(p) : i # 1 => i - 1 \in 1..Len(q) /\ p[i] = q[i - 1]
<1>1. /\ <<x>> \o q \in Seq(Item) /\ Len(<<x>> \o q) = Len(q) + 1 /\ (<<x>> \o q)[1] = x
      /\ \A i \in 1..(Len(q) + 1) : i # 1 => i - 1 \in 1..Len(q) /\ (<<x>> \o q)[i] = q[i - 1]
  OBVIOUS
<1>2. \A z \in Seq(Item) : Len(z) > 0 => z # <<>>
  OBVIOUS
<1>3. Len(q) \in Nat
  OBVIOUS
<1> QED BY <1>1, <1>2, <1>3

\* Its lock may be relied on by what follows.
LEMMA ConsNeedsMet ==
  ASSUME NEW kind, NEW k, NEW x \in Item, NEW q \in Seq(Item), NEW p, p = <<x>> \o q,
         NEW H, NEW G, NeedsMet(kind, k, G, q), Needs(kind, k, x) = {},
         \A type \in G : type \in H \/ Provides(k, x, type)
  PROVE  NeedsMet(kind, k, H, p)
<1> SUFFICES ASSUME NEW i \in 1..Len(p), NEW type \in Needs(kind, k, p[i]), type \notin H
             PROVE  \E j \in 1..(i - 1) : Provides(k, p[j], type)
  BY DEF NeedsMet
<1>1. i # 1 /\ i - 1 \in 1..Len(q) /\ p[i] = q[i - 1] /\ p[1] = x
  BY ConsSteps
<1>2. CASE type \in G
  BY <1>1, <1>2
<1>3. CASE \E j \in 1..(i - 2) : Provides(k, q[j], type)
  <2>1. PICK j \in 1..(i - 2) : Provides(k, q[j], type)
    BY <1>3
  <2>2. j + 1 \in 1..(i - 1) /\ p[j + 1] = q[j]
    BY <1>1, ConsSteps
  <2> QED BY <2>1, <2>2
<1> QED BY <1>1, <1>2, <1>3 DEF NeedsMet

\* And the plan is sound if the step is in order.
LEMMA ConsSound ==
  ASSUME NEW kind, NEW k, NEW held, NEW passed, NEW x \in Item, NEW q \in Seq(Item),
         q # <<>>, NEW p, p = <<x>> \o q, kind # "renew",
         PlanSound(kind, k, held, passed, q), Fits(kind, k, x),
         \A h \in held : Ordered(kind, h, x),
         \A i \in 1..Len(q) : Ordered(kind, x, q[i])
  PROVE  PlanSound(kind, k, held, passed, p)
<1>1. Len(q) \in Nat /\ Len(q) > 0
  OBVIOUS
<1>2. Ends(p) /\ AllFit(kind, k, p) /\ OwnerSeen(kind, passed, p)
  BY <1>1, ConsSteps DEF PlanSound, Ends, AllFit, OwnerSeen
<1>3. InOrder(kind, p)
  <2> SUFFICES ASSUME NEW i \in 1..Len(p), NEW j \in 1..Len(p), i < j
               PROVE  Ordered(kind, p[i], p[j])
    BY DEF InOrder
  <2>1. p[1] = x /\ j - 1 \in 1..Len(q) /\ p[j] = q[j - 1]
    BY ConsSteps
  <2>2. CASE i = 1
    BY <2>1, <2>2
  <2>3. CASE i # 1
    <3>1. i - 1 \in 1..Len(q) /\ p[i] = q[i - 1] /\ i - 1 < j - 1
      BY <2>3, ConsSteps
    <3> QED BY <2>1, <3>1 DEF PlanSound, InOrder
  <2> QED BY <2>2, <2>3
<1>4. HeldFirst(kind, held, p)
  BY ConsSteps DEF PlanSound, HeldFirst
<1> QED BY <1>2, <1>3, <1>4 DEF PlanSound

-----------------------------------------------------------------------------
(* Steps of a transaction that change no row *)

\* Locks are steps of plans.
LEMMA LockItems ==
  ASSUME NEW x \in Item, x.do = "lock"
  PROVE  x \in LockItem /\ x.type \in LockTypes
BY DEF Item, LockItem, Whats, Checks

\* Only the key and the operation ids of a transaction matter to conditions.
LEMMA SameCondition ==
  ASSUME NEW r, NEW q, r.key = q.key, r.op = q.op, r.before = q.before, NEW what
  PROVE  ConditionOf(what, r) = ConditionOf(what, q)
BY DEF ConditionOf

\* What the first step of a plan needs has been got, and it fits.
LEMMA HeadReady ==
  ASSUME NEW r, TxSound(r), r.plan # <<>>
  PROVE  /\ Head(r.plan) \in Item
         /\ Needs(r.kind, r.key, Head(r.plan)) \subseteq Got(r)
         /\ Fits(r.kind, r.key, Head(r.plan))
         /\ \A h \in r.held : Ordered(r.kind, h, Head(r.plan))
         /\ Head(r.plan).do \notin {"commit", "claim"} => Tail(r.plan) # <<>>
<1>1. r.plan \in Seq(Item)
  BY DEF TxSound, TxRecord
<1>2. Head(r.plan) = r.plan[1] /\ 1 \in 1..Len(r.plan) /\ r.plan[1] \in Item
  BY <1>1, TailSteps
<1>3. /\ NeedsMet(r.kind, r.key, Got(r), r.plan)
      /\ Ends(r.plan) /\ AllFit(r.kind, r.key, r.plan) /\ HeldFirst(r.kind, r.held, r.plan)
  BY DEF TxSound, PlanSound
<1>4. Needs(r.kind, r.key, r.plan[1]) \subseteq Got(r)
  <2>1. \A type \in Needs(r.kind, r.key, r.plan[1]) :
          type \in Got(r) \/ \E j \in 1..(1 - 1) : Provides(r.key, r.plan[j], type)
    BY <1>2, <1>3 DEF NeedsMet
  <2> QED BY <2>1
<1>5. Fits(r.kind, r.key, r.plan[1])
  BY <1>2, <1>3 DEF AllFit
<1>6. \A h \in r.held : Ordered(r.kind, h, r.plan[1])
  BY <1>2, <1>3 DEF HeldFirst
<1>7. Head(r.plan).do \notin {"commit", "claim"} => Tail(r.plan) # <<>>
  <2>1. Len(r.plan) # 1 => Tail(r.plan) # <<>>
    BY <1>1, TailSteps
  <2>2. Len(r.plan) = 1 => Head(r.plan).do \in {"commit", "claim"}
    BY <1>2, <1>3 DEF Ends
  <2> QED BY <2>1, <2>2, Zenon
<1> QED BY <1>2, <1>4, <1>5, <1>6, <1>7

\* A transaction that has not begun or has ended.
LEMMA NotActiveSound ==
  TxSound(Idle) /\ TxSound(Ended)
<1>1. <<>> \in Seq(Item)
  OBVIOUS
<1> QED BY <1>1 DEF TxSound, TxRecord, Idle, Ended

\* A transaction begins with a plan that relies on nothing.
LEMMA BeginSound ==
  ASSUME NEW kind \in Kinds, NEW k \in Keys, NEW op \in Txs \cup {Past, None},
         kind \in {"complete", "fail", "renew"} => receipt[k] # "none",
         NEW r, r = [Idle EXCEPT !.kind = kind, !.key = k, !.op = op, !.plan = PlanOf(kind, k)]
  PROVE  TxSound(r)
<1>1. /\ r.kind = kind /\ r.key = k /\ r.op = op /\ r.plan = PlanOf(kind, k)
      /\ r.held = {} /\ r.passed = {} /\ r.before = None
  BY DEF Idle
<1>2. PlanOK(kind, k, {}, r.plan)
  BY <1>1, PlansOK
<1>3. r \in TxRecord
  BY <1>2 DEF TxRecord, Idle, PlanOK
<1>4. NeedsMet(kind, k, Got(r), r.plan)
  BY <1>2 DEF PlanOK, NeedsMet
<1>5. PastSound(r)
  BY <1>1 DEF PastSound
<1> QED BY <1>1, <1>2, <1>3, <1>4, <1>5 DEF TxSound, PlanOK

\* A lock is taken, if there is a row to lock.
LEMMA AcquireSound ==
  ASSUME DbTyped, NEW r, TxSound(r), r.plan # <<>>, Head(r.plan).do = "lock",
         NEW q, q = [r EXCEPT !.plan = Tail(r.plan),
                              !.held = IF Present(Head(r.plan)) THEN r.held \cup {Head(r.plan)}
                                                                ELSE r.held]
  PROVE  TxSound(q)
<1> DEFINE x == Head(r.plan)
<1>1. r \in TxRecord /\ r.plan \in Seq(Item) /\ r.kind \in Kinds /\ r.key \in Keys
  BY DEF TxSound, TxRecord
<1>2. /\ x \in Item /\ Needs(r.kind, r.key, x) \subseteq Got(r) /\ Fits(r.kind, r.key, x)
      /\ Tail(r.plan) # <<>> /\ Tail(r.plan) \in Seq(Item) /\ x.do = "lock"
  BY <1>1, HeadReady, TailSteps
<1>3. x \in LockItem /\ x.type \in LockTypes
  BY <1>2, LockItems
<1>4. /\ q.kind = r.kind /\ q.key = r.key /\ q.op = r.op /\ q.before = r.before
      /\ q.passed = r.passed /\ q.plan = Tail(r.plan)
      /\ q.held = IF Present(x) THEN r.held \cup {x} ELSE r.held
  BY <1>1 DEF TxRecord
<1>5. q \in TxRecord
  <2>1. \A p \in Seq(Item), h \in SUBSET LockItem :
          [r EXCEPT !.plan = p, !.held = h] \in TxRecord
    BY <1>1 DEF TxRecord
  <2>2. (IF Present(x) THEN r.held \cup {x} ELSE r.held) \in SUBSET LockItem
    BY <1>1, <1>3 DEF TxRecord
  <2> HIDE DEF x
  <2> QED BY <1>2, <2>1, <2>2 DEF x
<1> HIDE DEF x
<1>6. Got(r) \subseteq Got(q)
  <2>1. r.held \subseteq q.held
    BY <1>4
  <2>2. r.kind = q.kind /\ r.key = q.key
    BY <1>4
  <2> QED BY <2>1, <2>2 DEF Got, Holds
<1>7. ASSUME NEW type, Provides(r.key, x, type)
      PROVE  type \in Got(q)
  <2>1. /\ x.type = type /\ x.mode = "exclusive" /\ x.id = IdOf(r.key, type)
        /\ type \in LockTypes /\ type # "bucketRow"
    BY <1>2, <1>3, <1>7 DEF Provides
  <2>2. CASE Present(x)
    <3>1. Holds(q, type)
      BY <1>4, <2>1, <2>2 DEF Holds
    <3> QED BY <2>1, <3>1 DEF Got
  <2>3. CASE ~Present(x)
    <3>1. type \in {"receiptRow", "serviceRow", "serviceName"}
      BY <2>1, <2>3 DEF Present
    <3>2. CASE type = "serviceName"
      <4>1. x.id = Operation[r.key].name /\ Operation[r.key].name \in Names
        BY <1>1, <2>1, <3>2, OperationTyped DEF IdOf
      <4>2. x.id # None
        BY <4>1, LockOrderAssumption
      <4> QED BY <2>1, <2>3, <3>2, <4>2 DEF Present
    <3>3. CASE type = "receiptRow"
      <4>1. x.id = r.key /\ receipt[r.key] = "none"
        BY <2>1, <2>3, <3>3 DEF IdOf, Present
      <4>2. r.kind = "prepare"
        BY <1>1, <1>2, <2>1, <3>3, <4>1 DEF TxSound, PastSound, Fits, Kinds
      <4>3. "operation" \in Got(r)
        BY <1>2, <2>1, <3>3, <4>2 DEF Needs, LockNeeds, Checks
      <4>4. Holds(q, "operation")
        BY <1>6, <4>3 DEF Got
      <4> QED BY <1>4, <3>3, <4>1, <4>2, <4>4, <2>1 DEF Got
    <3>4. CASE type = "serviceRow"
      <4>1. x.id = Svc(r.key) /\ service[Svc(r.key)] = "absent"
        BY <2>1, <2>3, <3>4 DEF IdOf, Present
      <4>2. r.kind \in {"prepare", "complete"}
        BY <1>2, <2>1, <3>4 DEF Fits
      <4>3. "service" \in Got(r)
        BY <1>2, <2>1, <3>4, <4>2 DEF Needs, LockNeeds, Checks
      <4>4. Holds(q, "service")
        BY <1>6, <4>3 DEF Got
      <4> QED BY <1>4, <3>4, <4>1, <4>4, <2>1 DEF Got
    <3> QED BY <3>1, <3>2, <3>3, <3>4
  <2> QED BY <2>2, <2>3
<1>8. NeedsMet(q.kind, q.key, Got(q), q.plan)
  <2>1. NeedsMet(r.kind, r.key, Got(r), r.plan)
    BY DEF TxSound
  <2> QED BY <1>1, <1>4, <1>6, <1>7, <2>1, TailNeedsMet DEF x
<1>9. PlanSound(q.kind, q.key, q.held, q.passed, q.plan)
  <2>1. PlanSound(r.kind, r.key, r.held, r.passed, r.plan)
    BY DEF TxSound
  <2>2. x.do # "owner" /\ q.held \subseteq r.held \cup {x}
    BY <1>2, <1>4
  <2> QED BY <1>1, <1>4, <2>1, <2>2, TailSound DEF x
<1>10. PastSound(q)
  <2>1. PastSound(r)
    BY DEF TxSound
  <2>2. \A h \in q.held : Fits(q.kind, q.key, h)
    BY <1>2, <1>4, <2>1 DEF PastSound
  <2>3. \A h \in q.held : h.type = "bucketRow" => service[h.id] # "absent"
    <3>1. Present(x) /\ x.type = "bucketRow" => service[x.id] # "absent"
      BY DEF Present
    <3> QED BY <1>4, <2>1, <3>1 DEF PastSound
  <2>4. \A what \in q.passed : CheckNeeds(what) \subseteq Got(q) /\ ConditionOf(what, q)
    <3>1. \A what : ConditionOf(what, r) = ConditionOf(what, q)
      <4>1. r.key = q.key /\ r.op = q.op /\ r.before = q.before
        BY <1>4
      <4> QED BY <4>1, SameCondition, Zenon
    <3>2. \A what \in r.passed : CheckNeeds(what) \subseteq Got(r) /\ ConditionOf(what, r)
      BY <2>1 DEF PastSound
    <3>3. q.passed = r.passed
      BY <1>4
    <3> QED BY <1>6, <3>1, <3>2, <3>3, Zenon
  <2> QED BY <1>4, <2>1, <2>2, <2>3, <2>4 DEF PastSound
<1> QED BY <1>1, <1>2, <1>4, <1>5, <1>8, <1>9, <1>10 DEF TxSound

\* What only reads and plans leaves to a transaction.
Continues(r, q) ==
  /\ q \in TxRecord /\ q.kind = r.kind /\ q.key = r.key /\ q.op = r.op
  /\ q.held = r.held

\* A prepare claims an operation that is new or unfinished.
LEMMA ClaimSound ==
  ASSUME DbTyped, NEW r, TxSound(r), r.plan # <<>>, Head(r.plan).do = "claim",
         receipt[r.key] # "done",
         NEW q, Continues(r, q), q.plan = ClaimedPlan(r.key), q.passed = {"claim"},
         q.before = IF receipt[r.key] = "none" THEN None ELSE owner[r.key]
  PROVE  TxSound(q)
<1> DEFINE k == r.key
<1>1. /\ r \in TxRecord /\ k \in Keys /\ r.plan \in Seq(Item) /\ r.kind \in Kinds
      /\ q.kind = r.kind /\ q.key = r.key /\ q.held = r.held /\ q \in TxRecord
  BY DEF TxSound, TxRecord, Continues
<1>2. r.kind = "prepare" /\ {"operation", "receiptRow"} \subseteq Got(r)
  BY HeadReady DEF Fits, Needs, CheckNeeds, Checks
<1>3. Got(q) = Got(r)
  BY <1>1 DEF Got, Holds
<1>4. PlanOK("prepare", k, {"operation", "receiptRow"}, q.plan) /\ AboveClaim(q.plan)
  BY <1>1, ClaimedPlanOK
<1>5. NeedsMet("prepare", k, Got(q), q.plan)
  BY <1>2, <1>3, <1>4 DEF PlanOK, NeedsMet
<1>6. HeldFirst("prepare", q.held, q.plan)
  <2> SUFFICES ASSUME NEW h \in r.held, NEW i \in 1..Len(q.plan),
                      Rank("prepare", q.plan[i]) # 0
               PROVE  Rank("prepare", h) < Rank("prepare", q.plan[i])
    BY <1>1 DEF HeldFirst, Ordered
  <2>1. Rank("prepare", Head(r.plan)) = 3
    BY DEF Rank
  <2>2. Rank("prepare", h) < 3
    BY <1>2, <2>1, HeadReady DEF Ordered
  <2>3. h \in LockItem
    BY <1>1 DEF TxRecord
  <2>4. Rank("prepare", h) \in Nat
    BY <2>3 DEF Rank, LockRank, LockItem, LockTypes
  <2>5. q.plan[i] \in Item
    BY <1>4 DEF PlanOK
  <2>6. Rank("prepare", q.plan[i]) \in Nat
    BY <2>5 DEF Rank, LockRank, Item, LockItem, LockTypes, Whats, Checks
  <2> QED BY <1>4, <2>2, <2>4, <2>6 DEF AboveClaim
<1>7. PlanSound("prepare", k, q.held, q.passed, q.plan)
  BY <1>4, <1>6 DEF PlanOK, PlanSound, OwnerSeen
<1>8. ConditionOf("claim", q)
  <2>1. receipt[k] \in States /\ owner[k] # None
    BY <1>1, LockOrderAssumption DEF DbTyped
  <2> QED BY <1>1, <2>1 DEF ConditionOf, Open, States
<1>9. PastSound(q)
  <2>1. PastSound(r)
    BY DEF TxSound
  <2> QED BY <1>1, <1>2, <1>3, <1>8, <2>1 DEF PastSound, CheckNeeds
<1> QED BY <1>1, <1>2, <1>4, <1>5, <1>7, <1>9 DEF TxSound, PlanOK

\* A check that finds what it looks for is remembered.
LEMMA CheckSound ==
  ASSUME NEW r, TxSound(r), r.plan # <<>>, Head(r.plan).do \in Checks \ {"claim"},
         ConditionOf(Head(r.plan).do, r),
         NEW q, Continues(r, q), q.plan = Tail(r.plan), q.before = r.before,
         q.passed = r.passed \cup {Head(r.plan).do}
  PROVE  TxSound(q)
<1> DEFINE x == Head(r.plan)
<1>1. /\ r \in TxRecord /\ r.plan \in Seq(Item) /\ r.kind \in Kinds /\ r.key \in Keys
      /\ q.kind = r.kind /\ q.key = r.key /\ q.held = r.held /\ q.op = r.op /\ q \in TxRecord
  BY DEF TxSound, TxRecord, Continues
<1>2. /\ Needs(r.kind, r.key, x) \subseteq Got(r) /\ Tail(r.plan) # <<>>
  BY <1>1, HeadReady DEF Checks
<1>3. Got(q) = Got(r)
  BY <1>1 DEF Got, Holds
<1>4. CheckNeeds(x.do) \subseteq Got(q)
  BY <1>2, <1>3 DEF Needs, Checks
<1>5. \A what : ConditionOf(what, r) = ConditionOf(what, q)
  BY <1>1, SameCondition
<1>6. NeedsMet(q.kind, q.key, Got(q), q.plan)
  <2>1. NeedsMet(r.kind, r.key, Got(r), r.plan)
    BY DEF TxSound
  <2>2. \A type : ~Provides(r.key, x, type)
    BY DEF Provides, Checks
  <2> QED BY <1>1, <1>3, <2>1, <2>2, TailNeedsMet
<1>7. PlanSound(q.kind, q.key, q.held, q.passed, q.plan)
  <2>1. PlanSound(r.kind, r.key, r.held, r.passed, r.plan)
    BY DEF TxSound
  <2>2. q.held \subseteq r.held \cup {x} /\ r.passed \subseteq q.passed /\ x.do \in q.passed
    BY <1>1
  <2> QED BY <1>1, <2>1, <2>2, TailSound
<1>8. PastSound(q)
  <2>1. PastSound(r)
    BY DEF TxSound
  <2>2. \A what \in q.passed : CheckNeeds(what) \subseteq Got(q) /\ ConditionOf(what, q)
    BY <1>3, <1>4, <1>5, <2>1 DEF PastSound
  <2> QED BY <1>1, <2>1, <2>2 DEF PastSound
<1> QED BY <1>1, <1>2, <1>6, <1>7, <1>8 DEF TxSound

\* Another plan for the same transaction.
LEMMA ReplanSound ==
  ASSUME NEW r, TxSound(r), r.plan # <<>>, NEW q, Continues(r, q),
         q.passed = r.passed, q.before = r.before, q.plan # <<>>,
         NeedsMet(r.kind, r.key, Got(r), q.plan),
         PlanSound(r.kind, r.key, r.held, r.passed, q.plan)
  PROVE  TxSound(q)
<1>1. /\ r.kind \in Kinds /\ r.key \in Keys /\ PastSound(r)
      /\ q.kind = r.kind /\ q.key = r.key /\ q.held = r.held /\ q.op = r.op /\ q \in TxRecord
  BY DEF TxSound, Continues
<1>2. Got(q) = Got(r)
  BY <1>1 DEF Got, Holds
<1>3. \A what : ConditionOf(what, r) = ConditionOf(what, q)
  BY <1>1, SameCondition
<1>4. PastSound(q)
  BY <1>1, <1>2, <1>3 DEF PastSound
<1> QED BY <1>1, <1>2, <1>4 DEF TxSound

\* What follows an upsert or the start of a usage transaction relies on what
\* these turn into.
LEMMA RestOfPlan ==
  ASSUME NEW r, TxSound(r), r.plan # <<>>, Head(r.plan).do \in {"upsert", "usage"}
  PROVE  /\ r.kind \in {"complete", "usage"} /\ r.plan \in Seq(Item) /\ r.key \in Keys
         /\ Tail(r.plan) \in Seq(Item) /\ Tail(r.plan) # <<>>
         /\ NeedsMet(r.kind, r.key,
              Got(r) \cup {type \in {"serviceName"} : Head(r.plan).do = "upsert"}, Tail(r.plan))
         /\ PlanSound(r.kind, r.key, r.held, r.passed, Tail(r.plan))
         /\ \A i \in 1..Len(Tail(r.plan)) : Ordered(r.kind, Head(r.plan), Tail(r.plan)[i])
<1> DEFINE x == Head(r.plan)
           G == Got(r) \cup {type \in {"serviceName"} : x.do = "upsert"}
<1>1. r.plan \in Seq(Item) /\ r.key \in Keys
  BY DEF TxSound, TxRecord
<1>2. /\ r.kind \in {"complete", "usage"} /\ Tail(r.plan) # <<>> /\ Tail(r.plan) \in Seq(Item)
  BY <1>1, HeadReady, TailSteps DEF Fits
<1>3. NeedsMet(r.kind, r.key, G, Tail(r.plan))
  <2>1. NeedsMet(r.kind, r.key, Got(r), r.plan)
    BY DEF TxSound
  <2>2. \A type : Provides(r.key, x, type) => type \in G
    BY DEF Provides
  <2>3. Got(r) \subseteq G
    OBVIOUS
  <2> HIDE DEF G
  <2> QED BY <1>1, <2>1, <2>2, <2>3, TailNeedsMet
<1>4. PlanSound(r.kind, r.key, r.held, r.passed, r.plan)
  BY DEF TxSound
<1>5. PlanSound(r.kind, r.key, r.held, r.passed, Tail(r.plan))
  BY <1>1, <1>4, TailSound
<1>6. \A i \in 1..Len(Tail(r.plan)) : Ordered(r.kind, x, Tail(r.plan)[i])
  BY <1>1, <1>4, TailSteps DEF PlanSound, InOrder
<1> QED BY <1>1, <1>2, <1>3, <1>5, <1>6

\* Two steps in front of a plan.
LEMMA TwoInFront ==
  ASSUME NEW a \in Item, NEW b \in Item, NEW rest \in Seq(Item)
  PROVE  (<<a>> \o <<b>>) \o rest = <<a>> \o (<<b>> \o rest)
<1>0. <<a>> \in Seq(Item) /\ <<b>> \in Seq(Item)
  OBVIOUS
<1>1. PICK s \in Seq(Item) : s = <<a>>
  BY <1>0, Zenon
<1>2. PICK t \in Seq(Item) : t = <<b>>
  BY <1>0, Zenon
<1>3. (s \o t) \o rest = s \o (t \o rest)
  BY ConcatAssociative
<1> QED BY <1>1, <1>2, <1>3, Zenon

\* The upsert goes for two names.
LEMMA UpsertSound ==
  ASSUME DbTyped, NEW r, TxSound(r), r.plan # <<>>, Head(r.plan).do = "upsert",
         NEW q, Continues(r, q), q.passed = r.passed, q.before = r.before,
         q.plan = Exclusive("serviceName", svcName[Svc(r.key)])
                    \o Exclusive("serviceName", Operation[r.key].name) \o Tail(r.plan)
  PROVE  TxSound(q)
<1> DEFINE k == r.key
           rest == Tail(r.plan)
           a == [do |-> "lock", type |-> "serviceName", id |-> svcName[Svc(k)],
                 mode |-> "exclusive"]
           b == Own(k, "serviceName")
           p1 == <<b>> \o rest
           p2 == <<a>> \o p1
           G == Got(r) \cup {"serviceName"}
<1>1. /\ r.kind = "complete" /\ k \in Keys /\ rest \in Seq(Item) /\ rest # <<>>
      /\ NeedsMet(r.kind, k, G, rest)
      /\ PlanSound(r.kind, k, r.held, r.passed, rest)
      /\ \A i \in 1..Len(rest) : Ordered(r.kind, Head(r.plan), rest[i])
  <2>1. {type \in {"serviceName"} : Head(r.plan).do = "upsert"} = {"serviceName"}
    OBVIOUS
  <2> QED BY <2>1, RestOfPlan, HeadReady DEF Fits
<1>2. /\ b \in Item /\ Needs(r.kind, k, b) = {} /\ Fits(r.kind, k, b) /\ Rank(r.kind, b) = 9
      /\ Provides(k, b, "serviceName")
  BY <1>1, OwnFacts DEF Kinds, LockTypes, LockNeeds, LockRank
<1>3. svcName[Svc(k)] \in Ids
  BY <1>1, OperationTyped DEF DbTyped, Ids
<1>4. a \in Item /\ a.do = "lock" /\ a.type = "serviceName"
  BY <1>3 DEF Item, LockItem, LockTypes, Modes
<1>5. q.plan = (<<a>> \o <<b>>) \o rest
  BY DEF Exclusive, Lock, Own, IdOf
<1> HIDE DEF a, b, rest
<1>6. q.plan = p2
  BY <1>1, <1>2, <1>4, <1>5, TwoInFront
<1>7. Needs(r.kind, k, a) = {} /\ Fits(r.kind, k, a) /\ Rank(r.kind, a) = 9
  BY <1>1, <1>4 DEF Needs, LockNeeds, Checks, Fits, Rank, LockRank
<1>8. Rank(r.kind, Head(r.plan)) = 9 /\ \A h \in r.held : Ordered(r.kind, h, Head(r.plan))
  BY HeadReady DEF Rank
<1>9. /\ \A h \in r.held : Ordered(r.kind, h, a) /\ Ordered(r.kind, h, b)
      /\ \A i \in 1..Len(rest) : Ordered(r.kind, b, rest[i]) /\ Ordered(r.kind, a, rest[i])
      /\ Ordered(r.kind, a, b)
  BY <1>1, <1>2, <1>7, <1>8 DEF Ordered
<1>10. p1 \in Seq(Item) /\ p1 # <<>> /\ p2 \in Seq(Item) /\ p2 # <<>>
  BY <1>1, <1>2, <1>4, ConsSteps
<1>11. NeedsMet(r.kind, k, Got(r), p1) /\ PlanSound(r.kind, k, r.held, r.passed, p1)
  <2>1. \A type \in G : type \in Got(r) \/ Provides(k, b, type)
    BY <1>2
  <2> HIDE DEF G
  <2>2. NeedsMet(r.kind, k, Got(r), p1)
    BY <1>1, <1>2, <2>1, ConsNeedsMet
  <2>3. PlanSound(r.kind, k, r.held, r.passed, p1)
    BY <1>1, <1>2, <1>9, ConsSound
  <2> QED BY <2>2, <2>3
<1>12. \A i \in 1..Len(p1) : Ordered(r.kind, a, p1[i])
  BY <1>1, <1>2, <1>9, ConsSteps
<1> HIDE DEF p1
<1>13. NeedsMet(r.kind, k, Got(r), p2) /\ PlanSound(r.kind, k, r.held, r.passed, p2)
  <2>1. NeedsMet(r.kind, k, Got(r), p2)
    BY <1>4, <1>7, <1>10, <1>11, ConsNeedsMet
  <2>2. PlanSound(r.kind, k, r.held, r.passed, p2)
    BY <1>1, <1>4, <1>7, <1>9, <1>10, <1>11, <1>12, ConsSound
  <2> QED BY <2>1, <2>2
<1> HIDE DEF p2
<1> QED BY <1>6, <1>10, <1>13, ReplanSound

\* A usage transaction checks the foreign key of a new snapshot.
LEMMA UsageSound ==
  ASSUME NEW r, TxSound(r), r.plan # <<>>, Head(r.plan).do = "usage",
         NEW q, Continues(r, q), q.passed = r.passed, q.before = r.before,
         \/ q.plan = Tail(r.plan)
         \/ q.plan = Lock("serviceRow", Svc(r.key), "keyShare") \o Tail(r.plan)
  PROVE  TxSound(q)
<1> DEFINE k == r.key
           rest == Tail(r.plan)
           a == Weak(k, "keyShare")
           p == <<a>> \o rest
<1>1. /\ r.kind = "usage" /\ k \in Keys /\ rest \in Seq(Item) /\ rest # <<>>
      /\ NeedsMet(r.kind, k, Got(r), rest)
      /\ PlanSound(r.kind, k, r.held, r.passed, rest)
      /\ \A i \in 1..Len(rest) : Ordered(r.kind, Head(r.plan), rest[i])
  <2>1. Got(r) \cup {type \in {"serviceName"} : Head(r.plan).do = "upsert"} = Got(r)
    OBVIOUS
  <2> QED BY <2>1, RestOfPlan, HeadReady DEF Fits
<1>2. /\ a \in Item /\ Needs(r.kind, k, a) = {} /\ Fits(r.kind, k, a) /\ Rank(r.kind, a) = 8
  BY <1>1, WeakFacts DEF LockNeeds
<1>3. q.plan = rest \/ q.plan = p
  BY DEF Lock, Weak
<1> HIDE DEF a, rest
<1>4. Rank(r.kind, Head(r.plan)) = 8 /\ \A h \in r.held : Ordered(r.kind, h, Head(r.plan))
  BY HeadReady DEF Rank
<1>5. /\ \A h \in r.held : Ordered(r.kind, h, a)
      /\ \A i \in 1..Len(rest) : Ordered(r.kind, a, rest[i])
  BY <1>1, <1>2, <1>4 DEF Ordered
<1>6. p \in Seq(Item) /\ p # <<>>
  BY <1>1, <1>2, ConsSteps
<1>7. NeedsMet(r.kind, k, Got(r), p)
  BY <1>1, <1>2, ConsNeedsMet
<1>8. PlanSound(r.kind, k, r.held, r.passed, p)
  BY <1>1, <1>2, <1>5, ConsSound
<1> HIDE DEF p
<1> QED BY <1>1, <1>3, <1>6, <1>7, <1>8, ReplanSound

-----------------------------------------------------------------------------
(* What a commit leaves to the others *)

\* No two transactions hold an exclusive lock on one thing.
LEMMA HeldByOne ==
  ASSUME HeldCompatible, NEW t \in Txs, NEW u \in Txs, t # u, NEW type,
         Holds(tx[t], type), Holds(tx[u], type),
         IdOf(tx[t].key, type) = IdOf(tx[u].key, type)
  PROVE  FALSE
<1>1. PICK h \in tx[t].held : h.type = type /\ h.mode = "exclusive" /\ h.id = IdOf(tx[t].key, type)
  BY DEF Holds
<1>2. PICK g \in tx[u].held : g.type = type /\ g.mode = "exclusive" /\ g.id = IdOf(tx[u].key, type)
  BY DEF Holds
<1>3. Compatible(h.mode, g.mode)
  BY <1>1, <1>2 DEF HeldCompatible
<1> QED BY <1>1, <1>2, <1>3 DEF Compatible

\* The locks of a transaction that commits.
LEMMA CommitHolds ==
  ASSUME NEW r, TxSound(r), r.plan # <<>>, Head(r.plan).do = "commit"
  PROVE  /\ r.kind = "prepare" =>
              /\ Holds(r, "operation") /\ Holds(r, "service")
              /\ Holds(r, "receiptRow") \/ receipt[r.key] = "none"
              /\ Action(r.key) = "reconcile" => Holds(r, "bucketName")
              /\ Action(r.key) = "create" => Holds(r, "organization")
         /\ r.kind \in {"complete", "fail", "renew"} =>
              Holds(r, "receiptRow") /\ receipt[r.key] # "none"
         /\ r.kind = "complete" =>
              Holds(r, "service") /\ (Action(r.key) = "reconcile" => Holds(r, "serviceName"))
         /\ r.kind = "renew" => Open(r.key)
<1>1. r.kind \in Kinds /\ r.plan \in Seq(Item)
  BY DEF TxSound, TxRecord
<1>2. CommitNeeds(r.kind, r.key) \subseteq Got(r)
  BY HeadReady DEF Needs, Checks
<1>3. CASE r.kind = "prepare"
  <2>1. /\ {"operation", "receiptRow", "service"} \subseteq Got(r)
        /\ Action(r.key) = "reconcile" => "bucketName" \in Got(r)
        /\ Action(r.key) = "create" => "organization" \in Got(r)
    BY <1>2, <1>3 DEF CommitNeeds
  <2> QED BY <1>3, <2>1 DEF Got
<1>4. CASE r.kind \in {"complete", "fail", "renew"}
  <2>1. receipt[r.key] # "none"
    BY <1>4 DEF TxSound, PastSound
  <2>2. /\ "receiptRow" \in Got(r)
        /\ r.kind = "complete" => "service" \in Got(r)
        /\ r.kind = "complete" /\ Action(r.key) = "reconcile" => "serviceName" \in Got(r)
    BY <1>2, <1>4 DEF CommitNeeds
  <2>3. r.kind = "renew" => Open(r.key)
    <3> SUFFICES ASSUME r.kind = "renew" PROVE Open(r.key)
      OBVIOUS
    <3>1. r.plan[1] = Head(r.plan) /\ 1 \in 1..Len(r.plan)
      BY <1>1, TailSteps
    <3>2. "owner" \in r.passed
      BY <3>1 DEF TxSound, PlanSound, OwnerSeen
    <3> QED BY <3>2 DEF TxSound, PastSound, ConditionOf
  <2> QED BY <1>4, <2>1, <2>2, <2>3 DEF Got
<1>5. CASE r.kind = "usage"
  BY <1>5
<1> QED BY <1>1, <1>3, <1>4, <1>5 DEF Kinds

\* What a commit may change in the rows, and who may do it.
LEMMA CommitEffect ==
  ASSUME DbTyped, NEW t \in Txs, TxSound(tx[t]), Commit(t), mix' = mix
  PROVE  LET w == tx[t]
             k == w.key
             s == Svc(k)
         IN /\ w.plan # <<>> /\ Head(w.plan).do = "commit" /\ k \in Keys
            /\ \A j \in Keys : receipt'[j] # receipt[j] \/ owner'[j] # owner[j] =>
                 j = k /\ w.kind # "usage"
            /\ \A j \in Keys : receipt[j] = "none" /\ receipt'[j] # "none" =>
                 j = k /\ w.kind = "prepare"
            /\ \A j \in Keys : receipt[j] # "open" /\ receipt'[j] = "open" =>
                 j = k /\ w.kind = "prepare"
            /\ \A j \in Keys : receipt[j] # "none" => receipt'[j] # "none"
            /\ \A v \in Services : service'[v] # service[v] => v = s /\ w.kind = "complete"
            /\ \A v \in Services : service[v] # "absent" => service'[v] # "absent"
            /\ \A v \in Services : svcName'[v] # svcName[v] =>
                 /\ v = s /\ w.kind = "complete" /\ Action(k) = "reconcile"
                 /\ svcName'[v] = Operation[k].name
            /\ \A n \in Names : reserved'[n] \notin {reserved[n], None} =>
                 n = Operation[k].bucket /\ w.kind = "prepare" /\ Action(k) = "reconcile"
            /\ \A c \in credentials' : c \notin credentials =>
                 c = k /\ w.kind = "prepare" /\ Action(k) = "create"
            /\ DbTyped' /\ tx' = [tx EXCEPT ![t] = Ended]
<1> DEFINE w == tx[t]
           k == w.key
           s == Svc(k)
           done == w.kind \in {"complete", "fail"}
           completes(a) == w.kind = "complete" /\ Action(k) = a
           releases == completes("delete") \/ (w.kind = "fail" /\ service[s] = "absent")
<1>1. /\ w.plan # <<>> /\ Head(w.plan).do = "commit" /\ k \in Keys /\ w.kind \in Kinds
      /\ tx' = [tx EXCEPT ![t] = Ended]
  BY DEF Commit, Active, Head1, Finish, TxSound
<1>2. s \in Services /\ Operation[k].name \in Names /\ Operation[k].bucket \in Names
  BY <1>1, OperationTyped
<1>3. /\ w.kind = "renew" => receipt[k] = "open"
      /\ w.kind \in {"complete", "fail", "renew"} => receipt[k] # "none"
  BY <1>1, CommitHolds DEF Open
<1>4. /\ receipt' = [receipt EXCEPT ![k] = IF done THEN "done"
                                           ELSE IF w.kind = "usage" THEN receipt[k] ELSE "open"]
      /\ owner' = IF w.kind = "prepare" THEN [owner EXCEPT ![k] = t] ELSE owner
  BY DEF Commit
<1>5. /\ service' = [service EXCEPT ![s] = IF completes("reconcile") THEN "ready"
                                           ELSE IF completes("delete") THEN "deleted"
                                           ELSE service[s]]
      /\ svcName' = IF completes("reconcile") THEN [svcName EXCEPT ![s] = Operation[k].name]
                                              ELSE svcName
  BY DEF Commit
<1>6. reserved' = [n \in Names |->
        IF w.kind = "prepare" /\ Action(k) = "reconcile" /\ n = Operation[k].bucket THEN s
        ELSE IF reserved[n] = s /\ releases THEN None ELSE reserved[n]]
  BY DEF Commit
<1>7. credentials' =
        IF w.kind = "prepare" /\ Action(k) = "create" THEN credentials \cup {k}
        ELSE IF w.kind = "fail" THEN credentials \ {c \in {k} : Action(k) = "create"}
        ELSE IF completes("revoke") THEN credentials \ {Operation[k].cred}
        ELSE IF completes("delete") THEN {c \in credentials : Svc(c) # s}
        ELSE credentials
  BY DEF Commit
<1>8. snapshot' = IF w.kind = "usage" THEN snapshot \cup {s} ELSE snapshot
  BY DEF Commit
<1> HIDE DEF w, k, s
<1>9. /\ receipt' \in [Keys -> States] /\ owner' \in [Keys -> Txs \cup {Past}]
      /\ \A j \in Keys : receipt'[j] # receipt[j] \/ owner'[j] # owner[j] =>
           j = k /\ w.kind # "usage"
      /\ \A j \in Keys : receipt[j] = "none" /\ receipt'[j] # "none" =>
           j = k /\ w.kind = "prepare"
      /\ \A j \in Keys : receipt[j] # "open" /\ receipt'[j] = "open" =>
           j = k /\ w.kind = "prepare"
      /\ \A j \in Keys : receipt[j] # "none" => receipt'[j] # "none"
  BY <1>1, <1>3, <1>4 DEF DbTyped, States, Kinds
<1>10. /\ service' \in [Services -> {"absent", "ready", "deleted"}]
       /\ svcName' \in [Services -> Names \cup {None}]
       /\ \A v \in Services : service'[v] # service[v] => v = s /\ w.kind = "complete"
       /\ \A v \in Services : service[v] # "absent" => service'[v] # "absent"
       /\ \A v \in Services : svcName'[v] # svcName[v] =>
            /\ v = s /\ w.kind = "complete" /\ Action(k) = "reconcile"
            /\ svcName'[v] = Operation[k].name
  BY <1>1, <1>2, <1>5 DEF DbTyped
<1>11. /\ reserved' \in [Names -> Services \cup {None}]
       /\ \A n \in Names : reserved'[n] \notin {reserved[n], None} =>
            n = Operation[k].bucket /\ w.kind = "prepare" /\ Action(k) = "reconcile"
  BY <1>2, <1>6 DEF DbTyped
<1>12. /\ credentials' \subseteq credentials \cup {k}
       /\ \A c \in credentials' : c \notin credentials =>
            c = k /\ w.kind = "prepare" /\ Action(k) = "create"
  BY <1>7
<1>13. credentials' \subseteq Keys /\ IsFiniteSet(credentials')
  <2>1. IsFiniteSet(credentials \cup {k})
    BY FS_AddElement DEF DbTyped
  <2> QED BY <1>1, <1>12, <2>1, FS_Subset DEF DbTyped
<1>14. snapshot' \subseteq Services
  BY <1>2, <1>8 DEF DbTyped
<1>15. DbTyped'
  BY <1>9, <1>10, <1>11, <1>13, <1>14 DEF DbTyped
<1> QED BY <1>1, <1>9, <1>10, <1>11, <1>12, <1>15 DEF w, k, s

\* What another transaction has locked, and what it has checked, stays.
LEMMA CommitKeepsOthers ==
  ASSUME LockInv, NEW t \in Txs, Commit(t), mix' = mix, NEW u \in Txs, u # t,
         NEW r, r = tx[u]
  PROVE  TxSound(r)'
<1> DEFINE w == tx[t]
           k == w.key
<1>1. /\ DbTyped /\ TxSound(w) /\ TxSound(r) /\ HeldCompatible
  BY DEF LockInv
<1>2. /\ w.plan # <<>> /\ Head(w.plan).do = "commit" /\ k \in Keys
      /\ \A j \in Keys : receipt'[j] # receipt[j] \/ owner'[j] # owner[j] =>
           j = k /\ w.kind # "usage"
      /\ \A j \in Keys : receipt[j] = "none" /\ receipt'[j] # "none" =>
           j = k /\ w.kind = "prepare"
      /\ \A j \in Keys : receipt[j] # "open" /\ receipt'[j] = "open" =>
           j = k /\ w.kind = "prepare"
      /\ \A j \in Keys : receipt[j] # "none" => receipt'[j] # "none"
  BY <1>1, CommitEffect
<1>3. /\ \A v \in Services : service'[v] # service[v] => v = Svc(k) /\ w.kind = "complete"
      /\ \A v \in Services : service[v] # "absent" => service'[v] # "absent"
      /\ \A v \in Services : svcName'[v] # svcName[v] =>
           /\ v = Svc(k) /\ w.kind = "complete" /\ Action(k) = "reconcile"
           /\ svcName'[v] = Operation[k].name
      /\ \A n \in Names : reserved'[n] \notin {reserved[n], None} =>
           n = Operation[k].bucket /\ w.kind = "prepare" /\ Action(k) = "reconcile"
      /\ \A c \in credentials' : c \notin credentials =>
           c = k /\ w.kind = "prepare" /\ Action(k) = "create"
  BY <1>1, CommitEffect
<1>4. /\ w.kind = "prepare" =>
           /\ Holds(w, "operation") /\ Holds(w, "service")
           /\ Holds(w, "receiptRow") \/ receipt[k] = "none"
           /\ Action(k) = "reconcile" => Holds(w, "bucketName")
           /\ Action(k) = "create" => Holds(w, "organization")
      /\ w.kind \in {"complete", "fail", "renew"} => Holds(w, "receiptRow")
      /\ w.kind = "complete" =>
           Holds(w, "service") /\ (Action(k) = "reconcile" => Holds(w, "serviceName"))
  BY <1>1, <1>2, CommitHolds
<1>5. w.kind \in Kinds
  BY <1>1, <1>2 DEF TxSound
<1>6. ASSUME NEW type, Holds(w, type), Holds(r, type), IdOf(k, type) = IdOf(r.key, type)
      PROVE  FALSE
  BY <1>1, <1>6, HeldByOne
<1> HIDE DEF w, k
<1> SUFFICES ASSUME r.plan # <<>> PROVE TxSound(r)'
  BY <1>1 DEF TxSound
<1>7. /\ r \in TxRecord /\ r.kind \in Kinds /\ r.key \in Keys /\ PastSound(r)
      /\ NeedsMet(r.kind, r.key, Got(r), r.plan)
      /\ PlanSound(r.kind, r.key, r.held, r.passed, r.plan)
      /\ Svc(r.key) \in Services /\ Operation[r.key].bucket \in Names
  BY <1>1, OperationTyped DEF TxSound
\* The receipt of u's key is left alone if u has its row.
<1>8. ASSUME Holds(r, "receiptRow")
      PROVE  r.key # k \/ w.kind = "usage" \/ receipt[k] = "none"
  <2> SUFFICES ASSUME r.key = k, w.kind # "usage", receipt[k] # "none"
               PROVE  FALSE
    OBVIOUS
  <2>1. Holds(w, "receiptRow")
    BY <1>4, <1>5 DEF Kinds
  <2> QED BY <1>6, <1>8, <2>1
<1>9. ASSUME receipt[r.key] = "none", Holds(r, "operation")
      PROVE  receipt'[r.key] = "none"
  <2> SUFFICES ASSUME receipt'[r.key] # "none" PROVE FALSE
    OBVIOUS
  <2>1. r.key = k /\ Holds(w, "operation")
    BY <1>2, <1>4, <1>7, <1>9
  <2> QED BY <1>6, <1>9, <2>1
<1>10. ASSUME Holds(r, "service")
       PROVE  service'[Svc(r.key)] = service[Svc(r.key)]
  <2> SUFFICES ASSUME service'[Svc(r.key)] # service[Svc(r.key)] PROVE FALSE
    OBVIOUS
  <2>1. Svc(r.key) = Svc(k) /\ Holds(w, "service")
    BY <1>3, <1>4, <1>7
  <2>2. IdOf(k, "service") = IdOf(r.key, "service")
    BY <2>1 DEF IdOf
  <2> QED BY <1>6, <1>10, <2>1, <2>2
<1>11. \A type \in Got(r) : type \in Got(r)'
  <2> SUFFICES ASSUME NEW type \in Got(r) PROVE type \in Got(r)'
    OBVIOUS
  <2>1. \A ty : Holds(r, ty) => Holds(r, ty)'
    BY DEF Holds, IdOf, Svc
  <2> QED BY <1>9, <1>10, <2>1 DEF Got
<1>12. ASSUME NEW what \in r.passed
       PROVE  ConditionOf(what, r)'
  <2>1. ConditionOf(what, r) /\ CheckNeeds(what) \subseteq Got(r) /\ what \in Checks
    BY <1>7, <1>12 DEF PastSound, TxRecord
  <2>2. ASSUME receipt[r.key] = "open", "receiptRow" \in Got(r)
        PROVE  receipt'[r.key] = receipt[r.key] /\ owner'[r.key] = owner[r.key]
    <3>1. Holds(r, "receiptRow")
      BY <2>2 DEF Got
    <3> QED BY <1>2, <1>7, <1>8, <2>2, <3>1
  <2>3. CASE what = "claim"
    <3>1. "receiptRow" \in Got(r) /\ Holds(r, "operation")
      BY <2>1, <2>3 DEF CheckNeeds, Got
    <3> QED BY <1>9, <2>1, <2>2, <2>3, <3>1 DEF ConditionOf, Open
  <2>4. CASE what = "owner"
    <3>1. "receiptRow" \in Got(r)
      BY <2>1, <2>4 DEF CheckNeeds
    <3> QED BY <2>1, <2>2, <2>4, <3>1 DEF ConditionOf, Open
  <2>5. CASE what = "parallel"
    <3>1. Holds(r, "service")
      BY <2>1, <2>5 DEF CheckNeeds, Got
    <3>2. ASSUME NEW j \in Keys \ {r.key}, Svc(j) = Svc(r.key), receipt'[j] = "open"
          PROVE  FALSE
      <4>1. receipt[j] # "open"
        BY <2>1, <2>5, <3>2 DEF ConditionOf, Open
      <4>2. j = k /\ Holds(w, "service")
        BY <1>2, <1>4, <3>2, <4>1
      <4>3. IdOf(k, "service") = IdOf(r.key, "service")
        BY <3>2, <4>2 DEF IdOf
      <4> QED BY <1>6, <3>1, <4>2, <4>3
    <3> QED BY <2>5, <3>2 DEF ConditionOf, Open, Svc
  <2>6. CASE what = "phase"
    <3>1. Holds(r, "service")
      BY <2>1, <2>6 DEF CheckNeeds, Got
    <3> QED BY <1>10, <2>1, <2>6, <3>1 DEF ConditionOf, Svc, Action
  <2>7. CASE what = "bucketName"
    <3>1. Holds(r, "bucketName")
      BY <2>1, <2>7 DEF CheckNeeds, Got
    <3>2. reserved'[Operation[r.key].bucket] \in {reserved[Operation[r.key].bucket], None}
      <4> SUFFICES ASSUME reserved'[Operation[r.key].bucket]
                            \notin {reserved[Operation[r.key].bucket], None}
                   PROVE  FALSE
        OBVIOUS
      <4>1. Operation[r.key].bucket = Operation[k].bucket /\ Holds(w, "bucketName")
        BY <1>3, <1>4, <1>7
      <4>2. IdOf(k, "bucketName") = IdOf(r.key, "bucketName")
        BY <4>1 DEF IdOf
      <4> QED BY <1>6, <3>1, <4>1, <4>2
    <3> QED BY <2>1, <2>7, <3>2 DEF ConditionOf, Svc
  <2>8. CASE what = "limit"
    <3>1. Holds(r, "organization")
      BY <2>1, <2>8 DEF CheckNeeds, Got
    <3> DEFINE old == {c \in credentials : Operation[c].org = Operation[r.key].org}
               new == {c \in credentials' : Operation[c].org = Operation[r.key].org}
    <3>2. new \subseteq old
      <4> SUFFICES ASSUME NEW c \in credentials', c \notin credentials,
                          Operation[c].org = Operation[r.key].org
                   PROVE  FALSE
        OBVIOUS
      <4>1. c = k /\ Holds(w, "organization")
        BY <1>3, <1>4
      <4>2. IdOf(k, "organization") = IdOf(r.key, "organization")
        BY <4>1 DEF IdOf
      <4> QED BY <1>6, <3>1, <4>1, <4>2
    <3>3. IsFiniteSet(credentials) /\ old \subseteq credentials
      BY <1>1 DEF DbTyped
    <3>4. IsFiniteSet(old)
      BY <3>3, FS_Subset
    <3>5. Cardinality(new) <= Cardinality(old) /\ IsFiniteSet(new)
      BY <3>2, <3>4, FS_Subset
    <3>6. Cardinality(new) \in Nat /\ Cardinality(old) \in Nat
      BY <3>4, <3>5, FS_CardinalityType
    <3>7. r.before = None => Cardinality(old) < MaxTotal
      BY <2>1, <2>8 DEF ConditionOf
    <3>8. r.before = None => Cardinality(new) < MaxTotal
      BY <3>5, <3>6, <3>7, LockOrderAssumption
    <3> QED BY <2>8, <3>8 DEF ConditionOf
  <2>9. CASE what = "name"
    <3>1. Holds(r, "serviceName")
      BY <2>1, <2>9 DEF CheckNeeds, Got
    <3>2. ASSUME NEW v \in Services \ {Svc(r.key)}, svcName'[v] = Operation[r.key].name
          PROVE  FALSE
      <4>1. svcName[v] # Operation[r.key].name
        BY <2>1, <2>9 DEF ConditionOf
      <4>2. Operation[k].name = Operation[r.key].name /\ Holds(w, "serviceName")
        BY <1>3, <1>4, <3>2, <4>1
      <4>3. IdOf(k, "serviceName") = IdOf(r.key, "serviceName")
        BY <4>2 DEF IdOf
      <4> QED BY <1>6, <3>1, <4>2, <4>3
    <3> QED BY <2>9, <3>2 DEF ConditionOf, Svc
  <2> QED BY <2>1, <2>3, <2>4, <2>5, <2>6, <2>7, <2>8, <2>9 DEF Checks
<1>13. PastSound(r)'
  <2>1. \A h \in r.held : h.type = "bucketRow" => service'[h.id] # "absent"
    <3> SUFFICES ASSUME NEW h \in r.held, h.type = "bucketRow" PROVE service'[h.id] # "absent"
      OBVIOUS
    <3>1. h.id \in Services /\ service[h.id] # "absent"
      <4>1. Fits(r.kind, r.key, h) /\ h \in LockItem
        BY <1>7 DEF PastSound, TxRecord
      <4> QED BY <1>7, <4>1 DEF PastSound, Fits, IdOf, LockItem
    <3> QED BY <1>3, <3>1
  <2>2. \A what \in r.passed : CheckNeeds(what) \subseteq Got(r)' /\ ConditionOf(what, r)'
    BY <1>7, <1>11, <1>12 DEF PastSound
  <2>3. r.kind \in {"complete", "fail", "renew"} => receipt'[r.key] # "none"
    BY <1>2, <1>7 DEF PastSound
  <2>4. \A h \in r.held : Fits(r.kind, r.key, h)
    BY <1>7 DEF PastSound
  <2> QED BY <2>1, <2>2, <2>3, <2>4 DEF PastSound
<1>14. NeedsMet(r.kind, r.key, Got(r)', r.plan)
  BY <1>7, <1>11 DEF NeedsMet
<1> QED BY <1>7, <1>13, <1>14 DEF TxSound

-----------------------------------------------------------------------------
(* The invariant holds *)

\* While no row changes, what a transaction has is as good as before.
LEMMA StaysSound ==
  ASSUME UNCHANGED db, NEW r, TxSound(r)
  PROVE  TxSound(r)'
<1>1. /\ receipt' = receipt /\ owner' = owner /\ service' = service /\ svcName' = svcName
      /\ reserved' = reserved /\ credentials' = credentials
  BY DEF db
<1>2. Got(r)' = Got(r)
  BY <1>1 DEF Got, Holds
<1>3. \A what : ConditionOf(what, r)' = ConditionOf(what, r)
  BY <1>1 DEF ConditionOf, Open
<1>4. PastSound(r) => PastSound(r)'
  BY <1>1, <1>2, <1>3 DEF PastSound
<1> QED BY <1>2, <1>4 DEF TxSound

\* A step of one transaction that changes no row, and takes no lock that
\* another one is in the way of.
LEMMA QuietStep ==
  ASSUME LockInv, UNCHANGED db, mix' = mix, NEW t \in Txs, NEW q, TxSound(q),
         tx' = [tx EXCEPT ![t] = q],
         \A h \in q.held : h \in tx[t].held \/
           \A u \in Txs \ {t} : \A g \in tx[u].held :
             h.type = g.type /\ h.id = g.id => Compatible(h.mode, g.mode)
  PROVE  LockInv'
<1>1. DbTyped'
  BY DEF LockInv, DbTyped, db
<1>2. tx \in [Txs -> TxRecord] /\ q \in TxRecord
  BY DEF LockInv, TxSound
<1>3. tx' \in [Txs -> TxRecord] /\ tx'[t] = q /\ \A u \in Txs \ {t} : tx'[u] = tx[u]
  BY <1>2
<1>4. ASSUME NEW u \in Txs PROVE TxSound(tx[u])'
  <2>1. PICK r : r = tx'[u]
    OBVIOUS
  <2>2. TxSound(r)
    <3>1. \A v \in Txs : TxSound(tx[v])
      BY DEF LockInv
    <3> QED BY <1>3, <2>1, <3>1
  <2>3. TxSound(r)'
    BY <2>2, StaysSound
  <2> QED BY <2>1, <2>3
<1>5. HeldCompatible'
  <2> SUFFICES ASSUME NEW v \in Txs, NEW u \in Txs, v # u,
                      NEW h \in tx'[v].held, NEW g \in tx'[u].held,
                      h.type = g.type, h.id = g.id
               PROVE  Compatible(h.mode, g.mode)
    BY DEF HeldCompatible, Compatible
  <2>1. HeldCompatible
    BY DEF LockInv
  <2>2. Compatible(g.mode, h.mode) => Compatible(h.mode, g.mode)
    BY DEF Compatible
  <2>3. CASE v = t
    BY <1>3, <2>1, <2>3 DEF HeldCompatible
  <2>4. CASE u = t
    BY <1>3, <2>1, <2>2, <2>4 DEF HeldCompatible
  <2>5. CASE v # t /\ u # t
    BY <1>3, <2>1, <2>5 DEF HeldCompatible
  <2> QED BY <2>3, <2>4, <2>5
<1> QED BY <1>1, <1>3, <1>4, <1>5 DEF LockInv

\* LockOrder's Condition is that of the record.
LEMMA SameConditionOf ==
  ASSUME NEW t \in Txs, NEW what
  PROVE  Condition(what, t) = ConditionOf(what, tx[t])
BY DEF Condition, ConditionOf

\* Initially no transaction has begun.
LEMMA InitInv == Init => LockInv
<1> SUFFICES ASSUME Init PROVE LockInv
  OBVIOUS
<1>1. mix.names \subseteq [Services -> Names]
  BY LockOrderAssumption DEF Init
<1>2. PICK f \in mix.names :
        svcName = [s \in Services |-> IF service[s] = "absent" THEN None ELSE f[s]]
  BY DEF Init
<1>3. svcName \in [Services -> Names \cup {None}]
  BY <1>1, <1>2
<1>4. DbTyped
  BY <1>3 DEF Init, DbTyped
<1>5. \A t \in Txs : tx[t] = Idle
  BY DEF Init
<1>6. tx \in [Txs -> TxRecord] /\ \A t \in Txs : TxSound(tx[t])
  BY <1>5, NotActiveSound DEF Init, TxSound
<1>7. HeldCompatible
  BY <1>5 DEF HeldCompatible, Idle
<1> QED BY <1>4, <1>6, <1>7 DEF LockInv

\* A transaction that ends releases its locks.
LEMMA FinishInv ==
  ASSUME LockInv, UNCHANGED db, mix' = mix, NEW t \in Txs, Finish(t)
  PROVE  LockInv'
<1>1. TxSound(Ended) /\ Ended.held = {}
  BY NotActiveSound DEF Ended, Idle
<1> QED BY <1>1, QuietStep DEF Finish

\* Begin keeps the invariant.
LEMMA BeginInv ==
  ASSUME LockInv, NEW t \in Txs, Begin(t), mix' = mix
  PROVE  LockInv'
<1>1. DbTyped
  BY DEF LockInv
<1>2. mix.kinds \subseteq Kinds /\ mix.keys \subseteq Keys
  BY <1>1, LockOrderAssumption DEF DbTyped
<1>3. PICK kind \in mix.kinds, k \in mix.keys :
        \E op \in CASE kind = "prepare" -> {t}
                    [] kind = "usage" -> {None}
                    [] OTHER -> {owner[k]} \cup (IF receipt[k] = "none" THEN {} ELSE {Past}) :
          /\ kind \in {"complete", "fail", "renew"} => receipt[k] # "none"
          /\ tx' = [tx EXCEPT ![t] = [Idle EXCEPT !.kind = kind, !.key = k, !.op = op,
                                                  !.plan = PlanOf(kind, k)]]
  BY DEF Begin
<1>4. owner[k] \in Txs \cup {Past}
  BY <1>1, <1>2 DEF DbTyped
<1>5. PICK op \in Txs \cup {Past, None} :
          /\ kind \in {"complete", "fail", "renew"} => receipt[k] # "none"
          /\ tx' = [tx EXCEPT ![t] = [Idle EXCEPT !.kind = kind, !.key = k, !.op = op,
                                                  !.plan = PlanOf(kind, k)]]
  BY <1>2, <1>3, <1>4
<1>6. PICK q : q = [Idle EXCEPT !.kind = kind, !.key = k, !.op = op, !.plan = PlanOf(kind, k)]
  OBVIOUS
<1>7. TxSound(q)
  BY <1>2, <1>5, <1>6, BeginSound
<1>8. q.held = {}
  BY <1>6 DEF Idle
<1>9. UNCHANGED db /\ tx' = [tx EXCEPT ![t] = q]
  BY <1>5, <1>6 DEF Begin
<1> QED BY <1>7, <1>8, <1>9, QuietStep

\* Acquire keeps the invariant.
LEMMA AcquireInv ==
  ASSUME LockInv, NEW t \in Txs, Acquire(t), mix' = mix
  PROVE  LockInv'
<1> DEFINE r == tx[t]
           x == Head(r.plan)
<1>1. /\ DbTyped /\ TxSound(r) /\ r \in TxRecord /\ r.plan # <<>> /\ x.do = "lock"
      /\ tx \in [Txs -> TxRecord]
  BY DEF LockInv, Acquire, Active, Head1
<1>2. PICK q : q = [r EXCEPT !.plan = Tail(r.plan),
                             !.held = IF Present(x) THEN r.held \cup {x} ELSE r.held]
  OBVIOUS
<1>3. TxSound(q)
  BY <1>1, <1>2, AcquireSound
<1>4. q.held = IF Present(x) THEN r.held \cup {x} ELSE r.held
  BY <1>1, <1>2 DEF TxRecord
<1>5. tx' = [tx EXCEPT ![t] = q] /\ UNCHANGED db
  BY <1>1, <1>2 DEF Acquire, Head1
<1>6. \A u \in Txs \ {t} : \A g \in tx[u].held :
        x.type = g.type /\ x.id = g.id => Compatible(x.mode, g.mode)
  <2>1. \A u \in Txs \ {t} : ~Conflicts(t, u)
    BY DEF Acquire
  <2>2. \A m, n : Compatible(m, n) = Compatible(n, m)
    BY DEF Compatible
  <2> QED BY <1>1, <2>1, <2>2 DEF Conflicts, Active, Head1
<1>7. \A h \in q.held : h \in tx[t].held \/
        \A u \in Txs \ {t} : \A g \in tx[u].held :
          h.type = g.type /\ h.id = g.id => Compatible(h.mode, g.mode)
  <2> HIDE DEF x
  <2>1. \A h \in q.held : h \in r.held \/ h = x
    BY <1>4
  <2> QED BY <1>6, <2>1
<1> HIDE DEF x
<1> QED BY <1>3, <1>5, <1>7, QuietStep

\* Claim keeps the invariant.
LEMMA ClaimInv ==
  ASSUME LockInv, NEW t \in Txs, Claim(t), mix' = mix
  PROVE  LockInv'
<1> DEFINE r == tx[t]
           k == r.key
<1>1. /\ DbTyped /\ TxSound(r) /\ r \in TxRecord /\ r.plan # <<>> /\ Head(r.plan).do = "claim"
      /\ tx \in [Txs -> TxRecord] /\ UNCHANGED db /\ k \in Keys
  BY DEF LockInv, Claim, Active, Head1, TxSound
<1>2. CASE Finish(t)
  BY <1>1, <1>2, FinishInv
<1>3. ASSUME receipt[k] # "done",
             tx' = [tx EXCEPT ![t].plan = ClaimedPlan(k), ![t].passed = {"claim"},
                              ![t].before = IF receipt[k] = "none" THEN None ELSE owner[k]]
      PROVE  LockInv'
  <2>1. PICK b : b = IF receipt[k] = "none" THEN None ELSE owner[k]
    OBVIOUS
  <2>2. b \in Txs \cup {Past, None}
    BY <1>1, <2>1 DEF DbTyped
  <2>3. ClaimedPlan(k) \in Seq(Item)
    BY <1>1, ClaimedPlanOK DEF PlanOK
  <2>4. PICK q : q = [r EXCEPT !.plan = ClaimedPlan(k), !.passed = {"claim"}, !.before = b]
    OBVIOUS
  <2>5. /\ q \in TxRecord
        /\ q.kind = r.kind /\ q.key = r.key /\ q.op = r.op /\ q.held = r.held
        /\ q.plan = ClaimedPlan(k) /\ q.passed = {"claim"} /\ q.before = b
    <3>1. {"claim"} \in SUBSET Checks
      BY DEF Checks
    <3> QED BY <1>1, <2>2, <2>3, <2>4, <3>1 DEF TxRecord
  <2>6. TxSound(q)
    BY <1>1, <1>3, <2>1, <2>5, ClaimSound DEF Continues
  <2>7. tx' = [tx EXCEPT ![t] = q]
    BY <1>1, <1>3, <2>1, <2>4
  <2> QED BY <1>1, <2>5, <2>6, <2>7, QuietStep
<1> QED BY <1>2, <1>3 DEF Claim

\* Check keeps the invariant.
LEMMA CheckInv ==
  ASSUME LockInv, NEW t \in Txs, Check(t), mix' = mix
  PROVE  LockInv'
<1> DEFINE r == tx[t]
           what == Head(r.plan).do
<1>1. /\ TxSound(r) /\ r \in TxRecord /\ r.plan # <<>> /\ what \in Checks \ {"claim"}
      /\ tx \in [Txs -> TxRecord] /\ UNCHANGED db
  BY DEF LockInv, Check, Active, Head1
<1>2. CASE Finish(t)
  BY <1>1, <1>2, FinishInv
<1>3. ASSUME Condition(what, t),
             tx' = [tx EXCEPT ![t].plan = Tail(tx[t].plan),
                              ![t].passed = tx[t].passed \cup {what}]
      PROVE  LockInv'
  <2>1. ConditionOf(what, r)
    BY <1>3, SameConditionOf
  <2>2. r.plan \in Seq(Item) /\ Tail(r.plan) \in Seq(Item)
    BY <1>1, TailSteps DEF TxRecord
  <2>3. PICK q : q = [r EXCEPT !.plan = Tail(r.plan), !.passed = r.passed \cup {what}]
    OBVIOUS
  <2>4. /\ q \in TxRecord
        /\ q.kind = r.kind /\ q.key = r.key /\ q.op = r.op /\ q.held = r.held
        /\ q.plan = Tail(r.plan) /\ q.passed = r.passed \cup {what} /\ q.before = r.before
    <3>1. r.passed \cup {what} \in SUBSET Checks
      BY <1>1 DEF TxRecord
    <3> QED BY <1>1, <2>2, <2>3, <3>1 DEF TxRecord
  <2>5. TxSound(q)
    BY <1>1, <2>1, <2>4, CheckSound DEF Continues
  <2>6. tx' = [tx EXCEPT ![t] = q]
    BY <1>1, <1>3, <2>3
  <2> QED BY <1>1, <2>4, <2>5, <2>6, QuietStep
<1> QED BY <1>2, <1>3 DEF Check, Head1

\* Expand keeps the invariant.
LEMMA ExpandInv ==
  ASSUME LockInv, NEW t \in Txs, Expand(t), mix' = mix
  PROVE  LockInv'
<1> DEFINE r == tx[t]
           k == r.key
           two == Exclusive("serviceName", svcName[Svc(k)])
                    \o Exclusive("serviceName", Operation[k].name) \o Tail(r.plan)
           one == Lock("serviceRow", Svc(k), "keyShare") \o Tail(r.plan)
<1>1. /\ DbTyped /\ TxSound(r) /\ r \in TxRecord /\ r.plan # <<>> /\ k \in Keys
      /\ tx \in [Txs -> TxRecord] /\ UNCHANGED db /\ r.plan \in Seq(Item)
  BY DEF LockInv, Expand, Active, TxSound, TxRecord
<1>2. Tail(r.plan) \in Seq(Item)
  BY <1>1, TailSteps
<1>3. ASSUME NEW p \in Seq(Item), Continue(t, p),
             \/ Head(r.plan).do = "upsert" /\ p = two
             \/ Head(r.plan).do = "usage" /\ p \in {Tail(r.plan), one}
      PROVE  LockInv'
  <2>1. PICK q : q = [r EXCEPT !.plan = p]
    OBVIOUS
  <2>2. /\ q \in TxRecord
        /\ q.kind = r.kind /\ q.key = r.key /\ q.op = r.op /\ q.held = r.held
        /\ q.plan = p /\ q.passed = r.passed /\ q.before = r.before
    BY <1>1, <2>1 DEF TxRecord
  <2>3. TxSound(q)
    BY <1>1, <1>3, <2>2, UpsertSound, UsageSound DEF Continues
  <2>4. tx' = [tx EXCEPT ![t] = q]
    BY <1>1, <1>3, <2>1 DEF Continue
  <2> QED BY <1>1, <2>2, <2>3, <2>4, QuietStep
<1>4. two \in Seq(Item) /\ one \in Seq(Item)
  <2>1. svcName[Svc(k)] \in Ids /\ Operation[k].name \in Ids /\ Svc(k) \in Ids
    BY <1>1, OperationTyped DEF DbTyped, Ids
  <2>2. \A type \in LockTypes, id \in Ids, mode \in Modes : Lock(type, id, mode) \in Seq(Item)
    BY DEF Lock, Item, LockItem
  <2>3. PICK a \in Seq(Item) : a = Exclusive("serviceName", svcName[Svc(k)])
    BY <2>1, <2>2 DEF Exclusive, LockTypes, Modes
  <2>4. PICK b \in Seq(Item) : b = Exclusive("serviceName", Operation[k].name)
    BY <2>1, <2>2 DEF Exclusive, LockTypes, Modes
  <2>5. PICK c \in Seq(Item) : c = Lock("serviceRow", Svc(k), "keyShare")
    BY <2>1, <2>2 DEF LockTypes, Modes
  <2>6. PICK rest \in Seq(Item) : rest = Tail(r.plan)
    BY <1>2
  <2>7. (a \o b) \o rest \in Seq(Item) /\ c \o rest \in Seq(Item)
    OBVIOUS
  <2> QED BY <2>3, <2>4, <2>5, <2>6, <2>7, Zenon
<1>5. CASE Head(r.plan).do = "upsert" /\ Continue(t, two)
  <2> HIDE DEF two
  <2> QED BY <1>3, <1>4, <1>5
<1>6. CASE /\ Head(r.plan).do = "usage"
           /\ Continue(t, IF Svc(k) \in snapshot THEN Tail(r.plan) ELSE one)
  <2> HIDE DEF one
  <2> QED BY <1>2, <1>3, <1>4, <1>6
<1>7. CASE Finish(t)
  BY <1>1, <1>7, FinishInv
<1> QED BY <1>5, <1>6, <1>7 DEF Expand, Head1

\* Commit keeps the invariant.
LEMMA CommitInv ==
  ASSUME LockInv, NEW t \in Txs, Commit(t), mix' = mix
  PROVE  LockInv'
<1>1. DbTyped /\ TxSound(tx[t]) /\ tx \in [Txs -> TxRecord] /\ HeldCompatible
  BY DEF LockInv
<1>2. DbTyped' /\ tx' = [tx EXCEPT ![t] = Ended]
  BY <1>1, CommitEffect
<1>3. TxSound(Ended)' /\ Ended \in TxRecord /\ Ended.held = {}
  <2>1. <<>> \in Seq(Item)
    OBVIOUS
  <2> QED BY <2>1 DEF TxSound, TxRecord, Idle, Ended
<1>4. tx' \in [Txs -> TxRecord] /\ tx'[t] = Ended /\ \A u \in Txs \ {t} : tx'[u] = tx[u]
  BY <1>1, <1>2, <1>3
<1>5. ASSUME NEW u \in Txs PROVE TxSound(tx[u])'
  <2>1. PICK r : r = tx'[u]
    OBVIOUS
  <2>2. CASE u = t
    <3>1. r = Ended
      BY <1>4, <2>1, <2>2
    <3>2. TxSound(r)'
      BY <1>3, <3>1
    <3> QED BY <2>1, <3>2
  <2>3. CASE u # t
    <3>1. r = tx[u]
      BY <1>4, <2>1, <2>3
    <3>2. TxSound(r)'
      BY <2>3, <3>1, CommitKeepsOthers
    <3> QED BY <2>1, <3>2
  <2> QED BY <2>2, <2>3
<1>6. HeldCompatible'
  BY <1>1, <1>3, <1>4 DEF HeldCompatible
<1> QED BY <1>2, <1>4, <1>5, <1>6 DEF LockInv

\* The invariant is inductive.
LEMMA NextInv == LockInv /\ [Next]_vars => LockInv'
<1> SUFFICES ASSUME LockInv, [Next]_vars PROVE LockInv'
  OBVIOUS
<1>1. CASE UNCHANGED vars
  <2>1. UNCHANGED db /\ mix' = mix /\ tx' = tx
    BY <1>1 DEF vars, db
  <2>2. ASSUME NEW u \in Txs PROVE TxSound(tx[u])'
    <3>1. PICK r : r = tx'[u]
      OBVIOUS
    <3>2. TxSound(r)'
      BY <2>1, <3>1, StaysSound DEF LockInv
    <3> QED BY <3>1, <3>2
  <2> QED BY <2>1, <2>2 DEF LockInv, DbTyped, HeldCompatible, db
<1>2. CASE Next
  <2>1. PICK t \in Txs : mix' = mix /\ (Begin(t) \/ Step(t) \/ DetectDeadlock(t))
    BY <1>2 DEF Next
  <2>2. CASE DetectDeadlock(t)
    BY <2>1, <2>2, FinishInv DEF DetectDeadlock
  <2> QED
    BY <2>1, <2>2, BeginInv, AcquireInv, ClaimInv, CheckInv, ExpandInv, CommitInv DEF Step
<1> QED BY <1>1, <1>2 DEF Next

-----------------------------------------------------------------------------
(* Waiting *)

\* Ranks are numbers, and only names have rank 9.
LEMMA RankFacts ==
  ASSUME NEW kind, NEW type \in LockTypes
  PROVE  /\ LockRank(kind, type) \in 1..10
         /\ LockRank(kind, type) = 9 => type = "serviceName"
BY DEF LockRank, LockTypes

\* A transaction that waits does so for a lock of its plan, and for nothing
\* that comes before the locks it holds.
LEMMA WaitingHead ==
  ASSUME LockInv, NEW t \in Txs, NEW u \in Txs, Conflicts(t, u)
  PROVE  LET x == Head1(t)
         IN /\ tx[t].plan # <<>> /\ tx[t].kind \in Kinds /\ tx[t].key \in Keys
            /\ x \in LockItem /\ x.type \in LockTypes
            /\ x.do = "lock" /\ Fits(tx[t].kind, tx[t].key, x)
            /\ Rank(tx[t].kind, x) = LockRank(tx[t].kind, x.type)
            /\ \A h \in tx[t].held :
                 /\ h \in LockItem /\ h.type \in LockTypes /\ Fits(tx[t].kind, tx[t].key, h)
                 /\ x.type # "serviceName" =>
                      LockRank(tx[t].kind, h.type) < LockRank(tx[t].kind, x.type)
<1> DEFINE r == tx[t]
           x == Head1(t)
<1>1. /\ TxSound(r) /\ r \in TxRecord /\ r.plan # <<>> /\ x.do = "lock" /\ x = Head(r.plan)
      /\ r.kind \in Kinds /\ r.key \in Keys /\ PastSound(r)
  BY DEF LockInv, Conflicts, Active, Head1, TxSound
<1>2. x \in Item /\ Fits(r.kind, r.key, x) /\ \A h \in r.held : Ordered(r.kind, h, x)
  BY <1>1, HeadReady
<1>3. x \in LockItem /\ x.type \in LockTypes
  BY <1>1, <1>2, LockItems
<1> HIDE DEF x
<1>4. Rank(r.kind, x) = LockRank(r.kind, x.type)
  BY <1>1 DEF Rank
<1>5. ASSUME NEW h \in r.held
      PROVE  /\ h \in LockItem /\ h.type \in LockTypes /\ Fits(r.kind, r.key, h)
             /\ x.type # "serviceName" => LockRank(r.kind, h.type) < LockRank(r.kind, x.type)
  <2>1. h \in LockItem /\ h.type \in LockTypes /\ h.do = "lock" /\ Fits(r.kind, r.key, h)
    BY <1>1, <1>5 DEF TxRecord, LockItem, PastSound
  <2>2. Rank(r.kind, h) = LockRank(r.kind, h.type)
    BY <2>1 DEF Rank
  <2>3. Ordered(r.kind, h, x)
    BY <1>2, <1>5
  <2>4. LockRank(r.kind, x.type) # 0 /\ (LockRank(r.kind, x.type) = 9 => x.type = "serviceName")
    BY <1>3, RankFacts
  <2> QED BY <1>4, <2>1, <2>2, <2>3, <2>4 DEF Ordered
<1> QED BY <1>1, <1>2, <1>3, <1>4, <1>5 DEF x

\* A completion that waits for a bucket row has the service row, or there is
\* no service and nobody holds the bucket row.
LEMMA BucketRowWait ==
  ASSUME LockInv, NEW t \in Txs, NEW u \in Txs, Conflicts(t, u),
         Head1(t).type = "bucketRow", tx[t].kind = "complete"
  PROVE  Holds(tx[t], "serviceRow")
<1> DEFINE r == tx[t]
           x == Head1(t)
<1>1. TxSound(r) /\ TxSound(tx[u]) /\ r.plan # <<>> /\ x = Head(r.plan) /\ x.do = "lock"
  BY DEF LockInv, Conflicts, Active, Head1
<1>2. "serviceRow" \in Got(r) /\ x.id = Svc(r.key)
  BY <1>1, HeadReady DEF Needs, LockNeeds, Checks, Fits, IdOf
<1>3. PICK h \in tx[u].held : h.type = "bucketRow" /\ h.id = Svc(r.key)
  BY <1>2 DEF Conflicts
<1>4. service[Svc(r.key)] # "absent"
  BY <1>1, <1>3 DEF TxSound, PastSound
<1> QED BY <1>2, <1>4 DEF Got

\* Along a wait that is no known inversion, the rank of what is waited for
\* grows, if the other one waits too.
LEMMA RankGrows ==
  ASSUME LockInv, NEW t \in Txs, NEW u \in Txs, NEW v \in Txs,
         Conflicts(t, u), ~KnownInversion(t, u), Conflicts(u, v), ~KnownInversion(u, v)
  PROVE  LockRank(tx[t].kind, Head1(t).type) < LockRank(tx[u].kind, Head1(u).type)
<1> DEFINE x == Head1(t)
           y == Head1(u)
           kt == tx[t].kind
           ku == tx[u].kind
<1>1. PICK h \in tx[u].held : h.type = x.type /\ h.id = x.id /\ ~Compatible(h.mode, x.mode)
  BY DEF Conflicts
<1>2. x.type # "serviceName" /\ y.type # "serviceName"
  BY DEF KnownInversion
<1>3. /\ kt \in Kinds /\ x.type \in LockTypes /\ Fits(kt, tx[t].key, x) /\ x.do = "lock"
      /\ tx[t].key \in Keys
  BY WaitingHead
<1>4. /\ ku \in Kinds /\ y.type \in LockTypes /\ Fits(ku, tx[u].key, y) /\ y.do = "lock"
      /\ Fits(ku, tx[u].key, h) /\ h.do = "lock" /\ tx[u].key \in Keys
      /\ LockRank(ku, x.type) < LockRank(ku, y.type)
  <2>1. LockRank(ku, h.type) < LockRank(ku, y.type) /\ h \in LockItem
    BY <1>2, WaitingHead
  <2> QED BY <1>1, <2>1, WaitingHead DEF LockItem
<1> SUFFICES LockRank(kt, x.type) < LockRank(ku, y.type)
  OBVIOUS
<1> HIDE DEF x, y, kt, ku
<1>5. CASE x.type = "receiptRow"
  <2>1. tx[t].key = tx[u].key
    BY <1>1, <1>3, <1>4, <1>5 DEF Fits, IdOf
  <2>2. ~(kt \in {"complete", "fail"} /\ ku = "prepare")
    BY <1>5, <2>1 DEF KnownInversion, x, kt, ku
  <2>3. ku = "renew" => y.type \in {"operation", "receiptRow"}
    BY <1>4 DEF Fits
  <2>4. ku # "renew"
    BY <1>4, <1>5, <2>3 DEF LockRank
  <2>5. ku # "usage" /\ kt # "usage"
    BY <1>1, <1>3, <1>4, <1>5 DEF Fits
  <2>6. LockRank(kt, x.type) <= LockRank(ku, x.type)
    BY <1>3, <1>4, <1>5, <2>2, <2>4, <2>5 DEF LockRank, Kinds
  <2> QED BY <1>3, <1>4, <2>6, RankFacts
<1>6. CASE x.type = "bucketRow" /\ kt = "complete"
  \* The other one is a usage transaction; it waits for this very completion.
  <2>1. ku = "usage" \/ ku = "complete"
    BY <1>1, <1>4, <1>6 DEF Fits
  <2>2. ku # "complete"
    BY <1>4, <1>6 DEF LockRank, LockTypes
  <2>3. y.type = "serviceRow"
    BY <1>4, <1>6, <2>1, <2>2 DEF Fits, LockRank
  <2>4. Svc(tx[u].key) = Svc(tx[t].key)
    BY <1>1, <1>3, <1>4, <1>6 DEF Fits, IdOf
  <2>5. y.id = Svc(tx[t].key)
    BY <1>4, <2>3, <2>4 DEF Fits, IdOf
  <2>6. Holds(tx[t], "serviceRow")
    BY <1>6, BucketRowWait DEF x, kt
  <2>7. PICK g \in tx[t].held : g.type = "serviceRow" /\ g.mode = "exclusive" /\ g.id = y.id
    BY <2>5, <2>6 DEF Holds, IdOf
  <2>8. PICK f \in tx[v].held : f.type = "serviceRow" /\ f.id = y.id
    BY <2>3 DEF Conflicts, y
  <2>9. v = t
    BY <2>7, <2>8 DEF LockInv, HeldCompatible, Compatible
  <2>10. KnownInversion(u, v)
    BY <1>6, <2>1, <2>2, <2>3, <2>9 DEF KnownInversion, y, ku, kt
  <2> QED BY <2>10
<1>7. CASE x.type \notin {"receiptRow", "bucketRow"}
  <2>1. LockRank(kt, x.type) = LockRank(ku, x.type)
    BY <1>3, <1>7 DEF LockRank, LockTypes
  <2> QED BY <1>4, <2>1
<1>8. CASE x.type = "bucketRow" /\ kt # "complete"
  <2>1. kt = "usage"
    BY <1>3, <1>8 DEF Fits
  <2>2. LockRank(kt, x.type) = 7 /\ LockRank(ku, x.type) \in {7, 10}
    BY <1>8, <2>1 DEF LockRank
  <2>3. LockRank(ku, y.type) \in Nat
    BY <1>4, RankFacts
  <2> QED BY <1>4, <2>2, <2>3
<1> QED BY <1>5, <1>6, <1>7, <1>8

-----------------------------------------------------------------------------
(* Theorems *)

\* The invariant holds in every behaviour.
LEMMA LockInvHolds == Spec => []LockInv
BY InitInv, NextInv, PTL DEF Spec

\* The transactions of syouyu-store have well-formed state, and hold no lock
\* once they have ended.
THEOREM LockTypeCorrect == Spec => []LockTypeOK
<1>1. LockInv => LockTypeOK
  <2> SUFFICES ASSUME LockInv, NEW t \in Txs
               PROVE  /\ tx[t].kind \in Kinds \cup {None, "ended"}
                      /\ tx[t].passed \subseteq Checks
                      /\ tx[t].op \in Txs \cup {Past, None}
                      /\ \A h \in tx[t].held : h.type \in LockTypes /\ h.mode \in Modes
                      /\ ~Active(t) => tx[t].held = {}
    BY DEF LockTypeOK, LockInv, DbTyped
  <2>1. tx[t] \in TxRecord /\ TxSound(tx[t])
    BY DEF LockInv
  <2> QED BY <2>1 DEF TxRecord, LockItem, TxSound, Active
<1> QED BY <1>1, LockInvHolds, PTL

\* What a transaction has checked is true until it commits, whatever other
\* transactions commit in between: the locks that prepare_*, complete_*,
\* fail_operation and renew_operation take suffice for what they check.
THEOREM ChecksAlwaysStayTrue == Spec => []ChecksStayTrue
<1>1. LockInv => ChecksStayTrue
  <2> SUFFICES ASSUME LockInv, NEW t \in Txs, NEW what \in tx[t].passed
               PROVE  Condition(what, t)
    BY DEF ChecksStayTrue
  <2>1. TxSound(tx[t])
    BY DEF LockInv
  <2>2. ConditionOf(what, tx[t])
    BY <2>1 DEF TxSound, PastSound
  <2> QED BY <2>2, SameConditionOf
<1> QED BY <1>1, LockInvHolds, PTL

\* Transactions of syouyu-store, however many and for whatever keys, services
\* and organizations, deadlock only through one of the three known inversions
\* of the order in which they take locks.
THEOREM OnlyKnownDeadlocks == Spec => []DeadlocksAreKnown
<1>1. LockInv => DeadlocksAreKnown
  <2> SUFFICES ASSUME LockInv, NEW T \in SUBSET Waiting, T # {},
                      \A t \in T : \E u \in T : Conflicts(t, u) /\ ~KnownInversion(t, u)
               PROVE  FALSE
    BY DEF DeadlocksAreKnown, Stuck
  <2> DEFINE R(t) == LockRank(tx[t].kind, Head1(t).type)
  <2>1. T \subseteq Txs
    BY DEF Waiting
  <2>2. \A t \in T : R(t) \in 1..10
    <3> SUFFICES ASSUME NEW t \in T PROVE R(t) \in 1..10
      OBVIOUS
    <3>1. PICK u \in T : Conflicts(t, u)
      OBVIOUS
    <3>2. Head1(t).type \in LockTypes
      BY <2>1, <3>1, WaitingHead
    <3> QED BY <3>2, RankFacts
  <2>3. \A t \in T : \E u \in T : R(t) < R(u)
    <3> SUFFICES ASSUME NEW t \in T PROVE \E u \in T : R(t) < R(u)
      OBVIOUS
    <3>1. PICK u \in T : Conflicts(t, u) /\ ~KnownInversion(t, u)
      OBVIOUS
    <3>2. PICK v \in T : Conflicts(u, v) /\ ~KnownInversion(u, v)
      OBVIOUS
    <3>3. R(t) < R(u)
      BY <2>1, <3>1, <3>2, RankGrows
    <3> QED BY <3>3
  <2> HIDE DEF R
  <2>4. PICK f : f = [t \in T |-> R(t)]
    OBVIOUS
  <2>5. f \in [T -> 1..10] /\ \A t \in T : \E u \in T : f[t] < f[u]
    BY <2>2, <2>3, <2>4
  \* No rank is the greatest one.
  <2>6. \A m \in 1..10, n \in 0..9 :
          m = n + 1 /\ (\A t \in T : f[t] <= m) => \A t \in T : f[t] <= n
    <3> SUFFICES ASSUME NEW m \in 1..10, NEW n \in 0..9, m = n + 1, \A t \in T : f[t] <= m,
                        NEW t \in T
                 PROVE  f[t] <= n
      OBVIOUS
    <3>1. PICK u \in T : f[t] < f[u]
      BY <2>5
    <3>2. f[u] <= m /\ f[t] \in 1..10 /\ f[u] \in 1..10
      BY <2>5
    <3> QED BY <3>1, <3>2
  <2> DEFINE Below(n) == \A t \in T : f[t] <= n
  <2>7. Below(10)
    <3>1. \A t \in T : f[t] \in 1..10
      BY <2>5
    <3> QED BY <3>1
  <2>8. Below(9)
    <3>1. 9 \in 0..9 /\ 10 \in 1..10 /\ 10 = 9 + 1  OBVIOUS
    <3> QED BY <2>6, <2>7, <3>1
  <2>9. Below(8)
    <3>1. 8 \in 0..9 /\ 9 \in 1..10 /\ 9 = 8 + 1  OBVIOUS
    <3> QED BY <2>6, <2>8, <3>1
  <2>10. Below(7)
    <3>1. 7 \in 0..9 /\ 8 \in 1..10 /\ 8 = 7 + 1  OBVIOUS
    <3> QED BY <2>6, <2>9, <3>1
  <2>11. Below(6)
    <3>1. 6 \in 0..9 /\ 7 \in 1..10 /\ 7 = 6 + 1  OBVIOUS
    <3> QED BY <2>6, <2>10, <3>1
  <2>12. Below(5)
    <3>1. 5 \in 0..9 /\ 6 \in 1..10 /\ 6 = 5 + 1  OBVIOUS
    <3> QED BY <2>6, <2>11, <3>1
  <2>13. Below(4)
    <3>1. 4 \in 0..9 /\ 5 \in 1..10 /\ 5 = 4 + 1  OBVIOUS
    <3> QED BY <2>6, <2>12, <3>1
  <2>14. Below(3)
    <3>1. 3 \in 0..9 /\ 4 \in 1..10 /\ 4 = 3 + 1  OBVIOUS
    <3> QED BY <2>6, <2>13, <3>1
  <2>15. Below(2)
    <3>1. 2 \in 0..9 /\ 3 \in 1..10 /\ 3 = 2 + 1  OBVIOUS
    <3> QED BY <2>6, <2>14, <3>1
  <2>16. Below(1)
    <3>1. 1 \in 0..9 /\ 2 \in 1..10 /\ 2 = 1 + 1  OBVIOUS
    <3> QED BY <2>6, <2>15, <3>1
  <2>17. Below(0)
    <3>1. 0 \in 0..9 /\ 1 \in 1..10 /\ 1 = 0 + 1  OBVIOUS
    <3> QED BY <2>6, <2>16, <3>1
  <2> QED BY <2>5, <2>17
<1> QED BY <1>1, LockInvHolds, PTL
=============================================================================
