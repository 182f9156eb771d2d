---------------------------- MODULE GarageProofs ----------------------------
(***************************************************************************)
(* Proofs about what is left in Garage when the store says that a          *)
(* credential is revoked or a service deleted, and about whose bucket an   *)
(* attempt works on, for every value of the constants.                     *)
(*                                                                         *)
(* The argument: an attempt can create a bucket or a key only before it    *)
(* reaches the steps at which others can learn of it; ids are not used     *)
(* twice, so what is gone under a recorded id stays gone.  What the owner  *)
(* of a deletion read when it prepared stays the truth while it owns the   *)
(* operation, because no other operation on the service can complete.      *)
(***************************************************************************)
EXTENDS OperationProofs

\* An attempt that will not create a bucket any more.
PastBucket(p) == pc[p] \in {"updateQuotas", "complete", "fail", "cleanup", "done"}

\* The alias of a bucket is the name its creator was asked for, wherever its
\* id is known: in Garage, in a bucket row, or by a running attempt.
BucketsMade ==
  /\ \A p \in Attempts : gBuckets[p] # None =>
       PastBucket(p) /\ req[p].bucket = gBuckets[p].alias
  /\ \A s \in Services : buckets[s] # None =>
       PastBucket(buckets[s].phys) /\ req[buckets[s].phys].bucket = buckets[s].bucket
  /\ \A a \in Attempts : Running(a) /\ ctx[a].bucket # None =>
       /\ PastBucket(ctx[a].bucket)
       /\ req[a].action = "reconcile" => req[ctx[a].bucket].bucket = req[a].bucket

\* The attempt that made the key of a credential has ended.
KeysMade == \A c \in Keys : creds[c] # None => pc[creds[c].gkey] = "done"

\* A deletion leaves its bucket alone until it has no key left to revoke, and
\* completes once the bucket is gone; while it owns the operation, it knows
\* the bucket and all the keys that there are.
DeletionKnown ==
  \A a \in Attempts : Running(a) /\ req[a].action = "delete" =>
    /\ pc[a] \in {"deleteBucket", "complete"} => ctx[a].keys = {}
    /\ pc[a] = "complete" => gBuckets[ctx[a].bucket] = None
    /\ Owns(req[a], a) =>
         /\ buckets[req[a].svc].phys = ctx[a].bucket
         /\ \A c \in ActiveOf(req[a].svc) :
              creds[c].gkey \in ctx[a].keys \/ gKeys[creds[c].gkey] = None

\* A revocation knows the key of its credential, and completes once it is gone.
RevocationKnown ==
  \A a \in Attempts : Running(a) /\ req[a].action = "revoke" =>
    /\ creds[req[a].cred] # None
    /\ pc[a] \in {"renew", "revokeKey"} => ctx[a].keys = {creds[req[a].cred].gkey}
    /\ ctx[a].prior => creds[req[a].cred].status = "revoked"
    /\ pc[a] = "complete" => gKeys[creds[req[a].cred].gkey] = None

\* No two services have the same bucket.
BucketsDistinct ==
  \A s, t \in Services :
    buckets[s] # None /\ buckets[t] # None /\ buckets[s].phys = buckets[t].phys => s = t

\* The owner of a reconciliation knows no other service's bucket.
OwnBucketKnown ==
  \A a \in Attempts :
    Running(a) /\ req[a].action = "reconcile" /\ Owns(req[a], a) /\ ctx[a].bucket # None =>
      \A s \in Services \ {req[a].svc} :
        buckets[s] # None => buckets[s].phys # ctx[a].bucket

GarageInv ==
  /\ OperationInv
  /\ BucketsMade
  /\ KeysMade
  /\ DeletionKnown
  /\ RevocationKnown
  /\ RevokedKeyGone
  /\ DeletedIsGone
  /\ BucketsDistinct
  /\ OwnBucketKnown
-----------------------------------------------------------------------------
(* Steps of Next, seen from one attempt *)

Stays(b) == pc'[b] = pc[b] /\ req'[b] = req[b] /\ ctx'[b] = ctx[b]

\* Only its own step moves an attempt.
LEMMA OthersStay ==
  ASSUME HandlerTypeOK, [Next]_vars, NEW b \in Attempts
  PROVE  Stays(b) \/ Step(b) \/ Abandon(b)
<1>1. ASSUME NEW a \in Attempts, a # b, Step(a) \/ Abandon(a)
      PROVE  Stays(b)
  <2>0. pc \in [Attempts -> Steps] /\ DOMAIN req = Attempts /\ DOMAIN ctx = Attempts
    BY DEF HandlerTypeOK
  <2>1. CASE Prepare(a)
    BY <1>1, <2>0, <2>1 DEF Prepare, Stays
  <2>2. ASSUME NEW step, NEW c, NEW answer,
               Goto(a, step) \/ Remember(a, step, c) \/ Return(a, answer)
        PROVE  Stays(b)
    BY <1>1, <2>0, <2>2 DEF Goto, Remember, Return, Stays
  <2>3. CASE Renew(a) \/ Complete(a) \/ Cleanup(a) \/ Fail(a) \/ Abandon(a)
    BY <2>2, <2>3 DEF Renew, Complete, Cleanup, Fail, Abandon, NotOwner
  <2>4. CASE LookupBucket(a) \/ CreateServiceBucket(a) \/ UpdateQuotas(a)
    BY <2>2, <2>4 DEF LookupBucket, CreateServiceBucket, UpdateQuotas, GarageFails
  <2>5. CASE CheckUsage(a) \/ RevokeKey(a) \/ DeleteServiceBucket(a)
    BY <2>2, <2>5 DEF CheckUsage, RevokeKey, DeleteServiceBucket, GarageFails
  <2>6. CASE ListKeys(a) \/ PurgeKey(a) \/ CreateAccessKey(a) \/ AllowKey(a) \/ UndoKey(a)
    BY <2>2, <2>6 DEF ListKeys, PurgeKey, CreateAccessKey, AllowKey, UndoKey, GarageFails
  <2> QED BY <1>1, <2>1, <2>3, <2>4, <2>5, <2>6 DEF Step
<1>2. UNCHANGED handlerVars => Stays(b)
  BY DEF handlerVars, Stays
<1>3. UNCHANGED vars => UNCHANGED handlerVars
  BY DEF vars, handlerVars
<1> QED BY <1>1, <1>2, <1>3 DEF Next, ExpireLease, S3Client

\* An attempt that has its request and goes on running.
GoesOn(b) == Running(b) /\ Running(b)' /\ req'[b] = req[b]

\* An attempt that runs after a step ran before it, or begins in it.
LEMMA RunsOrBegins ==
  ASSUME HandlerTypeOK, [Next]_vars, NEW b \in Attempts, Running(b)'
  PROVE  GoesOn(b) \/ \E r \in Requests : Begins(b, r)
<1>1. CASE pc[b] = "idle"
  <2>1. Prepare(b)
    <3>1. ~Stays(b)
      BY <1>1 DEF Stays, Running
    <3>2. Step(b) \/ Abandon(b)
      BY <3>1, OthersStay
    <3> QED
      BY <1>1, <3>2 DEF Step, Abandon, Renew, LookupBucket, CreateServiceBucket, UpdateQuotas,
         CheckUsage, RevokeKey, DeleteServiceBucket, ListKeys, PurgeKey, CreateAccessKey,
         AllowKey, UndoKey, Complete, Cleanup, Fail
  <2>2. ~(pc' = [pc EXCEPT ![b] = "done"])
    BY DEF Running, HandlerTypeOK
  <2> QED BY <1>1, <2>1, <2>2 DEF Prepare, Begins
<1>2. CASE pc[b] # "idle"
  BY <1>2, StartedKeeps DEF GoesOn, Running
<1> QED BY <1>1, <1>2

\* An attempt that is past creating a bucket stays so, with its request.
LEMMA PastBucketStays ==
  ASSUME HandlerTypeOK, [Next]_vars, NEW p \in Attempts, PastBucket(p)
  PROVE  PastBucket(p)' /\ req'[p] = req[p]
<1>0. req'[p] = req[p] /\ pc \in [Attempts -> Steps]
  BY StartedKeeps DEF PastBucket, HandlerTypeOK
<1>1. CASE Stays(p)
  BY <1>1 DEF Stays, PastBucket
<1>2. ASSUME NEW step, NEW c, NEW answer,
             \/ Goto(p, step) /\ step \in {"complete", "fail", "cleanup"}
             \/ Return(p, answer)
      PROVE  PastBucket(p)' /\ req'[p] = req[p]
  BY <1>0, <1>2 DEF Goto, Return, PastBucket
<1>3. CASE UpdateQuotas(p)
  BY <1>2, <1>3 DEF UpdateQuotas, GarageFails
<1>4. CASE Complete(p) \/ Cleanup(p) \/ Fail(p) \/ Abandon(p)
  BY <1>2, <1>4 DEF Complete, Cleanup, Fail, Abandon, NotOwner
<1>5. Step(p) \/ Abandon(p) => UpdateQuotas(p) \/ Complete(p) \/ Cleanup(p) \/ Fail(p) \/ Abandon(p)
  BY DEF PastBucket, Step, Prepare, Renew, LookupBucket, CreateServiceBucket,
     CheckUsage, RevokeKey, DeleteServiceBucket, ListKeys, PurgeKey, CreateAccessKey,
     AllowKey, UndoKey
<1> QED BY <1>0, <1>1, <1>3, <1>4, <1>5, OthersStay

-----------------------------------------------------------------------------
(* Steps of Next, seen from one bucket or key of Garage *)

\* A bucket appears by the step of the attempt whose id it has, under the
\* name it was asked for; it never changes its alias.
LEMMA NewBucket ==
  ASSUME HandlerTypeOK, GarageTypeOK, [Next]_vars, NEW p \in Attempts, gBuckets'[p] # None
  PROVE  \/ gBuckets[p] # None /\ gBuckets'[p].alias = gBuckets[p].alias
         \/ /\ pc[p] = "createBucket" /\ PastBucket(p)' /\ req'[p] = req[p]
            /\ gBuckets'[p].alias = req[p].bucket
<1> DEFINE Goal == \/ gBuckets[p] # None /\ gBuckets'[p].alias = gBuckets[p].alias
                   \/ /\ pc[p] = "createBucket" /\ PastBucket(p)' /\ req'[p] = req[p]
                      /\ gBuckets'[p].alias = req[p].bucket
<1>1. ASSUME gBuckets' = gBuckets
      PROVE  Goal
  BY <1>1
<1>2. ASSUME NEW x \in Attempts, NEW q, UpdateBucketQuotas(x, q)
      PROVE  Goal
  <2>1. gBuckets[x] \in GBucket
    BY <1>2 DEF UpdateBucketQuotas, BucketExists, GarageTypeOK
  <2>2. [gBuckets[x] EXCEPT !.quota = q].alias = gBuckets[x].alias
    BY <2>1 DEF GBucket
  <2> QED BY <1>2, <2>2 DEF UpdateBucketQuotas, BucketExists, GarageTypeOK
<1>3. ASSUME NEW x \in Attempts, ClientWrites(x)
      PROVE  Goal
  <2>1. gBuckets[x] \in GBucket
    BY <1>3 DEF ClientWrites, BucketExists, GarageTypeOK
  <2> DEFINE toggled == ~gBuckets[x].full
  <2>2. gBuckets' = [gBuckets EXCEPT ![x] = [gBuckets[x] EXCEPT !.full = toggled]]
    BY <1>3 DEF ClientWrites
  <2> HIDE DEF toggled
  <2>3. [gBuckets[x] EXCEPT !.full = toggled].alias = gBuckets[x].alias
    BY <2>1 DEF GBucket
  <2> QED BY <1>3, <2>2, <2>3 DEF ClientWrites, BucketExists, GarageTypeOK
<1>4. ASSUME NEW x, DeleteBucket(x)
      PROVE  Goal
  BY <1>4 DEF DeleteBucket, GarageTypeOK
<1>5. ASSUME NEW x \in Attempts, CreateServiceBucket(x)
      PROVE  Goal
  <2>1. CASE GarageFails(x)
    BY <1>1, <2>1 DEF GarageFails, garageVars
  <2>2. CASE /\ CreateBucket(x, req[x].bucket)
             /\ \/ Remember(x, "updateQuotas", [ctx[x] EXCEPT !.bucket = x])
                \/ Goto(x, "fail")
    <3>1. PastBucket(x)' /\ req' = req
      BY <2>2 DEF Remember, Goto, PastBucket, HandlerTypeOK
    <3>2. gBuckets'[x].alias = req[x].bucket
      BY <2>2 DEF CreateBucket, GarageTypeOK
    <3>3. \A y \in Attempts \ {x} : gBuckets'[y] = gBuckets[y]
      BY <2>2 DEF CreateBucket, GarageTypeOK
    <3>4. pc[x] = "createBucket"
      BY <1>5 DEF CreateServiceBucket
    <3> QED BY <3>1, <3>2, <3>3, <3>4
  <2> QED BY <1>5, <2>1, <2>2 DEF CreateServiceBucket
<1> HIDE DEF Goal
<1>6. ASSUME NEW a \in Attempts, Step(a) \/ Abandon(a)
      PROVE  Goal
  <2>1. UpdateQuotas(a) => Goal
    <3>0. HAVE UpdateQuotas(a)
    <3>1. ctx[a].bucket \in Attempts
      BY <3>0 DEF UpdateQuotas, HandlerTypeOK, Context
    <3> QED BY <1>1, <1>2, <3>0, <3>1 DEF UpdateQuotas, GarageFails, garageVars
  <2>2. DeleteServiceBucket(a) => Goal
    BY <1>1, <1>4 DEF DeleteServiceBucket, GarageFails, garageVars
  <2>3. (RevokeKey(a) \/ PurgeKey(a)) => Goal
    BY <1>1 DEF RevokeKey, PurgeKey, DeleteKey, GarageFails, garageVars
  <2>4. (CreateAccessKey(a) \/ AllowKey(a) \/ UndoKey(a) \/ Cleanup(a)) => Goal
    BY <1>1 DEF CreateAccessKey, AllowKey, UndoKey, Cleanup, CreateKey, AllowBucketKey,
       DeleteKey, GarageFails, garageVars
  <2>5. (Prepare(a) \/ Renew(a) \/ Complete(a) \/ Fail(a) \/ Abandon(a)) => Goal
    BY <1>1 DEF Prepare, Renew, Complete, Fail, Abandon, garageVars
  <2>6. (LookupBucket(a) \/ CheckUsage(a) \/ ListKeys(a)) => Goal
    BY <1>1 DEF LookupBucket, CheckUsage, ListKeys, garageVars
  <2> QED BY <1>5, <1>6, <2>1, <2>2, <2>3, <2>4, <2>5, <2>6 DEF Step
<1>7. UNCHANGED vars => gBuckets' = gBuckets
  BY DEF vars
<1>8. Goal
  BY <1>1, <1>3, <1>6, <1>7 DEF Next, ExpireLease, S3Client, garageVars
<1> QED BY <1>8 DEF Goal

\* A key appears by the step of the attempt whose id it has.
LEMMA NewKey ==
  ASSUME HandlerTypeOK, GarageTypeOK, [Next]_vars, NEW g \in Attempts,
         gKeys[g] = None, gKeys'[g] # None
  PROVE  pc[g] = "createKey"
<1>1. CASE gKeys' = gKeys
  BY <1>1
<1>2. ASSUME NEW x, DeleteKey(x)
      PROVE  FALSE
  BY <1>2 DEF DeleteKey, GarageTypeOK
<1>3. ASSUME NEW a \in Attempts, Step(a) \/ Abandon(a)
      PROVE  pc[g] = "createKey"
  <2>1. CASE CreateAccessKey(a)
    BY <2>1 DEF CreateAccessKey, CreateKey, GarageFails, garageVars, GarageTypeOK
  <2>2. CASE AllowKey(a)
    BY <2>2 DEF AllowKey, AllowBucketKey, garageVars, GarageTypeOK
  <2>3. CASE RevokeKey(a) \/ PurgeKey(a) \/ UndoKey(a) \/ Cleanup(a)
    BY <1>1, <1>2, <2>3 DEF RevokeKey, PurgeKey, UndoKey, Cleanup, GarageFails, garageVars
  <2>4. CASE CreateServiceBucket(a) \/ UpdateQuotas(a) \/ DeleteServiceBucket(a)
    BY <1>1, <2>4 DEF CreateServiceBucket, UpdateQuotas, DeleteServiceBucket, CreateBucket,
       UpdateBucketQuotas, DeleteBucket, GarageFails, garageVars
  <2>5. CASE Prepare(a) \/ Renew(a) \/ Complete(a) \/ Fail(a) \/ Abandon(a)
    BY <1>1, <2>5 DEF Prepare, Renew, Complete, Fail, Abandon, garageVars
  <2>6. CASE LookupBucket(a) \/ CheckUsage(a) \/ ListKeys(a)
    BY <1>1, <2>6 DEF LookupBucket, CheckUsage, ListKeys, garageVars
  <2> QED BY <1>3, <2>1, <2>2, <2>3, <2>4, <2>5, <2>6 DEF Step
<1>4. UNCHANGED vars => gKeys' = gKeys
  BY DEF vars
<1> QED BY <1>1, <1>3, <1>4 DEF Next, ExpireLease, S3Client, ClientWrites, garageVars

-----------------------------------------------------------------------------
(* Moves of a running attempt *)

\* An attempt that goes on takes a step of its own or none.
LEMMA RunsOn ==
  ASSUME HandlerTypeOK, [Next]_vars, NEW b \in Attempts, GoesOn(b)
  PROVE  /\ Stays(b) \/ Step(b)
         /\ ~Prepare(b) /\ ~Cleanup(b) /\ ~Fail(b)
         /\ \A answer : ~Return(b, answer)
         /\ Complete(b) => pc'[b] = "cleanup" /\ req[b].action = "create" /\ Goto(b, "cleanup")
<1>1. ASSUME NEW answer, Return(b, answer)
      PROVE  FALSE
  BY <1>1 DEF Return, GoesOn, Running, HandlerTypeOK
<1>2. ~Abandon(b) /\ ~Cleanup(b) /\ ~Fail(b) /\ ~NotOwner(b)
  BY <1>1 DEF Abandon, Cleanup, Fail, NotOwner
<1>3. ~Prepare(b)
  BY DEF Prepare, GoesOn, Running
<1>4. Complete(b) => pc'[b] = "cleanup" /\ req[b].action = "create" /\ Goto(b, "cleanup")
  BY <1>1, <1>2 DEF Complete, Goto, HandlerTypeOK
<1> QED BY <1>1, <1>2, <1>3, <1>4, OthersStay

\* How an attempt that goes on learns of a bucket.
LEMMA ContextBucket ==
  ASSUME HandlerTypeOK, [Next]_vars, NEW b \in Attempts, GoesOn(b)
  PROVE  \/ ctx'[b].bucket = ctx[b].bucket
         \/ /\ UNCHANGED storeVars
            /\ pc[b] = "lookup" /\ ctx'[b].bucket \in BucketsWithAlias(req[b].bucket)
         \/ /\ UNCHANGED storeVars
            /\ pc[b] = "createBucket" /\ pc'[b] = "updateQuotas" /\ ctx'[b].bucket = b
<1>0. ctx[b] \in Context /\ DOMAIN ctx = Attempts /\ pc \in [Attempts -> Steps]
  BY DEF HandlerTypeOK
<1>1. ASSUME NEW step, Goto(b, step)
      PROVE  ctx'[b].bucket = ctx[b].bucket
  BY <1>1 DEF Goto
<1>2. ASSUME NEW step, NEW gs, Remember(b, step, [ctx[b] EXCEPT !.keys = gs])
      PROVE  ctx'[b].bucket = ctx[b].bucket
  BY <1>0, <1>2 DEF Remember, Context
<1>3. ASSUME NEW step, NEW p, Remember(b, step, [ctx[b] EXCEPT !.bucket = p])
      PROVE  ctx'[b].bucket = p /\ pc'[b] = step
  BY <1>0, <1>3 DEF Remember, Context
<1>4. CASE Stays(b)
  BY <1>4 DEF Stays
<1>5. CASE LookupBucket(b)
  BY <1>1, <1>3, <1>5 DEF LookupBucket
<1>6. CASE CreateServiceBucket(b)
  BY <1>1, <1>3, <1>6 DEF CreateServiceBucket, GarageFails
<1>7. CASE Renew(b) \/ UpdateQuotas(b) \/ CheckUsage(b) \/ DeleteServiceBucket(b) \/ Complete(b)
  BY <1>1, <1>7, RunsOn DEF Renew, NotOwner, UpdateQuotas, CheckUsage, DeleteServiceBucket, GarageFails
<1>8. CASE RevokeKey(b) \/ ListKeys(b) \/ PurgeKey(b) \/ CreateAccessKey(b) \/ AllowKey(b) \/ UndoKey(b)
  BY <1>1, <1>2, <1>8 DEF RevokeKey, ListKeys, PurgeKey, CreateAccessKey, AllowKey, UndoKey, GarageFails
<1> QED BY <1>4, <1>5, <1>6, <1>7, <1>8, RunsOn DEF Step

\* How a deletion goes on.
LEMMA DeletionMoves ==
  ASSUME HandlerTypeOK, GarageTypeOK, [Next]_vars, NEW b \in Attempts, GoesOn(b),
         req[b].action = "delete"
  PROVE  /\ ctx'[b].bucket = ctx[b].bucket
         /\ \/ ctx'[b].keys = ctx[b].keys
            \/ \E g \in ctx[b].keys : /\ pc'[b] = "renewKey" /\ gKeys'[g] = None
                                      /\ ctx'[b].keys = ctx[b].keys \ {g}
         /\ pc'[b] = "deleteBucket" => Stays(b) \/ ctx'[b].keys = {}
         /\ pc'[b] = "complete" =>
              \/ Stays(b)
              \/ pc[b] = "deleteBucket" /\ gBuckets'[ctx[b].bucket] = None
<1> DEFINE Goal ==
      /\ ctx'[b].bucket = ctx[b].bucket
      /\ \/ ctx'[b].keys = ctx[b].keys
         \/ \E g \in ctx[b].keys : /\ pc'[b] = "renewKey" /\ gKeys'[g] = None
                                   /\ ctx'[b].keys = ctx[b].keys \ {g}
      /\ pc'[b] = "deleteBucket" => Stays(b) \/ ctx'[b].keys = {}
      /\ pc'[b] = "complete" =>
           \/ Stays(b)
           \/ pc[b] = "deleteBucket" /\ gBuckets'[ctx[b].bucket] = None
<1>0. /\ ctx[b] \in Context /\ DOMAIN ctx = Attempts /\ pc \in [Attempts -> Steps]
      /\ ctx[b].keys \subseteq Attempts /\ ctx[b].bucket \in Attempts
      /\ pc[b] \in StepsOf("delete")
  BY RunningRunsAt DEF HandlerTypeOK, GoesOn, RunsAt, Context
<1>1. ASSUME NEW step, Goto(b, step), step \notin {"deleteBucket", "complete"}
      PROVE  Goal
  BY <1>0, <1>1 DEF Goto
<1>2. ASSUME Stays(b)
      PROVE  Goal
  BY <1>2 DEF Stays
<1>3. ASSUME Renew(b)
      PROVE  Goal
  <2>1. Goto(b, AfterRenew(b))
    BY <1>3, RunsOn DEF Renew, NotOwner
  <2>2. CASE pc[b] = "renewKey" /\ ctx[b].keys = {}
    BY <1>0, <2>1, <2>2 DEF Goto, AfterRenew
  <2>3. CASE ~(pc[b] = "renewKey" /\ ctx[b].keys = {})
    <3>1. AfterRenew(b) \in {"usage", "revokeKey"}
      BY <1>3, <2>3 DEF AfterRenew, Renew
    <3> QED BY <1>1, <2>1, <3>1
  <2> QED BY <2>2, <2>3
<1>4. ASSUME CheckUsage(b)
      PROVE  Goal
  BY <1>1, <1>4 DEF CheckUsage
<1>5. ASSUME RevokeKey(b)
      PROVE  Goal
  <2>1. CASE Goto(b, "fail")
    BY <1>1, <2>1
  <2>2. ASSUME NEW g \in ctx[b].keys, DeleteKey(g),
               Remember(b, "renewKey", [ctx[b] EXCEPT !.keys = @ \ {g}])
        PROVE  Goal
    <3>1. ctx'[b] = [ctx[b] EXCEPT !.keys = ctx[b].keys \ {g}] /\ pc'[b] = "renewKey"
      BY <1>0, <2>2 DEF Remember
    <3>2. ctx'[b].bucket = ctx[b].bucket /\ ctx'[b].keys = ctx[b].keys \ {g}
      BY <1>0, <3>1 DEF Context
    <3>3. gKeys'[g] = None
      BY <1>0, <2>2 DEF DeleteKey, GarageTypeOK
    <3> QED BY <3>1, <3>2, <3>3
  <2> QED BY <1>5, <2>1, <2>2 DEF RevokeKey, GarageFails
<1>6. ASSUME DeleteServiceBucket(b)
      PROVE  Goal
  <2>1. CASE Goto(b, "fail")
    BY <1>1, <2>1
  <2>2. CASE DeleteBucket(ctx[b].bucket) /\ Goto(b, "complete")
    BY <1>0, <1>6, <2>2 DEF Goto, DeleteServiceBucket, DeleteBucket, GarageTypeOK
  <2> QED BY <1>6, <2>1, <2>2 DEF DeleteServiceBucket, GarageFails
<1>7. Step(b) => Renew(b) \/ CheckUsage(b) \/ RevokeKey(b) \/ DeleteServiceBucket(b)
  BY <1>0, RunsOn DEF StepsOf, Step, LookupBucket, CreateServiceBucket, UpdateQuotas, ListKeys, PurgeKey,
     CreateAccessKey, AllowKey, UndoKey
<1> HIDE DEF Goal
<1>8. Goal
  BY <1>2, <1>3, <1>4, <1>5, <1>6, <1>7, RunsOn
<1> QED BY <1>8 DEF Goal

\* How a revocation goes on.
LEMMA RevocationMoves ==
  ASSUME HandlerTypeOK, GarageTypeOK, [Next]_vars, NEW b \in Attempts, GoesOn(b),
         req[b].action = "revoke"
  PROVE  /\ pc'[b] \in {"renew", "revokeKey"} =>
              pc[b] \in {"renew", "revokeKey"} /\ ctx'[b].keys = ctx[b].keys
         /\ pc'[b] = "complete" =>
              \/ pc[b] = "complete"
              \/ pc[b] = "renew" /\ ctx[b].prior
              \/ pc[b] = "revokeKey" /\ \E g \in ctx[b].keys : gKeys'[g] = None
<1>0. ctx[b] \in Context /\ pc \in [Attempts -> Steps] /\ pc[b] \in StepsOf("revoke")
  BY RunningRunsAt DEF HandlerTypeOK, GoesOn, RunsAt
<1>1. CASE Stays(b)
  BY <1>1 DEF Stays
<1>2. CASE Renew(b)
  <2>1. Goto(b, AfterRenew(b))
    BY <1>2, RunsOn DEF Renew, NotOwner
  <2>2. pc[b] = "renew" /\ AfterRenew(b) = IF ctx[b].prior THEN "complete" ELSE "revokeKey"
    BY <1>0, <1>2 DEF Renew, StepsOf, AfterRenew
  <2> QED BY <1>0, <2>1, <2>2 DEF Goto
<1>3. CASE RevokeKey(b)
  <2>1. CASE Goto(b, "fail")
    BY <1>0, <2>1 DEF Goto
  <2>2. ASSUME NEW g \in ctx[b].keys, DeleteKey(g),
               Remember(b, "complete", [ctx[b] EXCEPT !.keys = @ \ {g}])
        PROVE  pc[b] = "revokeKey" /\ pc'[b] = "complete" /\ \E h \in ctx[b].keys : gKeys'[h] = None
    <3>1. pc'[b] = "complete" /\ pc[b] = "revokeKey"
      BY <1>0, <1>3, <2>2 DEF Remember, RevokeKey
    <3>2. g \in Attempts
      BY <1>0 DEF Context
    <3> QED BY <2>2, <3>1, <3>2 DEF DeleteKey, GarageTypeOK
  <2> QED BY <1>3, <2>1, <2>2 DEF RevokeKey, GarageFails
<1>4. Step(b) => Renew(b) \/ RevokeKey(b)
  BY <1>0, RunsOn DEF StepsOf, Step, LookupBucket, CreateServiceBucket, UpdateQuotas, ListKeys, PurgeKey,
     CreateAccessKey, AllowKey, UndoKey, CheckUsage, DeleteServiceBucket
<1> QED BY <1>1, <1>2, <1>3, <1>4, RunsOn

-----------------------------------------------------------------------------
(* What is gone stays gone; rows change where operations end *)

\* A key that is gone is not created again once its attempt has ended.
LEMMA KeyStaysGone ==
  ASSUME HandlerTypeOK, GarageTypeOK, [Next]_vars, NEW g \in Attempts,
         pc[g] = "done", gKeys[g] = None
  PROVE  gKeys'[g] = None
BY NewKey

\* Nor is a bucket whose attempt is past creating it.
LEMMA BucketStaysGone ==
  ASSUME HandlerTypeOK, GarageTypeOK, [Next]_vars, NEW p \in Attempts,
         PastBucket(p), gBuckets[p] = None
  PROVE  gBuckets'[p] = None
BY NewBucket DEF PastBucket

\* Service, bucket and credential rows change only where an operation ends.
LEMMA RowsChange ==
  ASSUME OperationStep
  PROVE  \/ services' = services /\ buckets' = buckets /\ creds' = creds
         \/ \E a \in Attempts, r \in Requests : Ends(a, r)
BY DEF OperationStep, storeVars, Leases, restOfStore, Begins, PrepareExecute

\* The credential row of an operation that ends: a creation writes a new one,
\* a deletion and a revocation revoke active ones or those of their request.
LEMMA EndsCredential ==
  ASSUME StoreTypeOK, NEW a \in Attempts, NEW r \in Requests, Ends(a, r), NEW c \in Keys
  PROVE  \/ creds'[c] = creds[c]
         \/ /\ pc[a] = "complete" /\ r.action = "create" /\ creds[c] = None
            /\ creds'[c].svc = r.svc /\ creds'[c].gkey = a /\ creds'[c].status = "active"
         \/ /\ pc[a] = "complete" /\ creds[c] # None /\ creds'[c].status = "revoked"
            /\ creds[c].svc = r.svc
            /\ \/ r.action = "delete" /\ c \in ActiveOf(r.svc)
               \/ r.action = "revoke" /\ c = r.cred
<1> DEFINE revoked == [creds[c] EXCEPT !.status = "revoked"]
<1>0. creds[c] # None => revoked.status = "revoked"
  BY DEF StoreTypeOK, CredentialRow
<1>1. CASE pc[a] = "complete" /\ r.action = "create" /\ CompleteCreate(r, a, ctx[a].cred)
  BY <1>1 DEF CompleteCreate, CreateApplies, StoreTypeOK
<1>2. CASE pc[a] = "complete" /\ r.action = "delete" /\ CompleteDelete(r, a)
  <2>1. creds'[c] = IF c \in ActiveOf(r.svc) THEN revoked ELSE creds[c]
    BY <1>2 DEF CompleteDelete
  <2>2. c \in ActiveOf(r.svc) => creds[c] # None /\ creds[c].svc = r.svc
    BY DEF ActiveOf
  <2> QED BY <1>0, <1>2, <2>1, <2>2
<1>3. CASE pc[a] = "complete" /\ r.action = "revoke" /\ CompleteRevoke(r, a)
  <2>1. creds'[c] = IF c = r.cred THEN revoked ELSE creds[c]
    BY <1>3 DEF CompleteRevoke, StoreTypeOK
  <2>2. creds[r.cred] # None /\ creds[r.cred].svc = r.svc
    BY <1>3 DEF CompleteRevoke, RevokeApplies
  <2> QED BY <1>0, <1>3, <2>1, <2>2
<1>4. CASE creds' = creds
  BY <1>4
<1> QED BY <1>1, <1>2, <1>3, <1>4 DEF Ends, CompleteReconcile, FailOperation

\* The rows of a service when an operation ends: only a reconciliation of the
\* service changes its bucket row, and only a deletion marks it deleted.
LEMMA EndsRows ==
  ASSUME StoreTypeOK, NEW a \in Attempts, NEW r \in Requests, Ends(a, r), NEW s \in Services
  PROVE  \/ services'[s] = services[s] /\ buckets'[s] = buckets[s]
         \/ /\ s = r.svc /\ pc[a] = "complete" /\ r.action = "reconcile"
            /\ ctx[a].bucket \in Attempts /\ ReconcileApplies(r, ctx[a].bucket)
            /\ buckets'[s].phys = ctx[a].bucket /\ buckets'[s].bucket = r.bucket
            /\ services'[s].phase = "ready"
         \/ /\ s = r.svc /\ pc[a] = "complete" /\ r.action = "delete"
            /\ services[s] # None /\ services[s].phase # "deleted"
            /\ buckets'[s] = buckets[s]
            /\ creds' = [c \in Keys |-> IF c \in ActiveOf(r.svc)
                                          THEN [creds[c] EXCEPT !.status = "revoked"] ELSE creds[c]]
<1>1. CASE /\ pc[a] = "complete" /\ r.action = "reconcile" /\ ctx[a].bucket \in Attempts
           /\ CompleteReconcile(r, a, ctx[a].bucket)
  BY <1>1 DEF CompleteReconcile, StoreTypeOK
<1>2. CASE pc[a] = "complete" /\ r.action = "delete" /\ CompleteDelete(r, a)
  BY <1>2 DEF CompleteDelete, DeleteApplies, StoreTypeOK
<1>3. CASE services' = services /\ buckets' = buckets
  BY <1>3
<1> QED BY <1>1, <1>2, <1>3 DEF Ends, CompleteCreate, CompleteRevoke, FailOperation

\* A credential row keeps its service and key, and stays revoked.
LEMMA CredentialStays ==
  ASSUME StoreTypeOK, OperationStep, NEW c \in Keys, creds[c] # None
  PROVE  /\ creds'[c] # None
         /\ creds'[c].svc = creds[c].svc /\ creds'[c].gkey = creds[c].gkey
         /\ creds[c].status = "revoked" => creds'[c].status = "revoked"
<1>1. CASE creds' = creds
  BY <1>1
<1>2. ASSUME NEW a \in Attempts, NEW r \in Requests, Ends(a, r)
      PROVE  /\ creds'[c] # None
             /\ creds'[c].svc = creds[c].svc /\ creds'[c].gkey = creds[c].gkey
             /\ creds[c].status = "revoked" => creds'[c].status = "revoked"
  <2>1. LocalTo(r.svc)
    BY <1>2, EndsLocal
  <2>2. creds'[c] = creds[c] \/ creds'[c].status = "revoked"
    BY <1>2, EndsCredential
  <2> QED BY <2>1, <2>2 DEF LocalTo
<1> QED BY <1>1, <1>2, RowsChange

\* Only the step in which it begins makes an attempt the owner of an
\* operation; and while it owns one, no other operation on the service ends.
LEMMA OwnerAlone ==
  ASSUME StoreTypeOK, SingleOperation, OperationStep,
         NEW b \in Attempts, NEW q \in Requests, pc[b] # "idle", Owns(q, b)'
  PROVE  /\ Owns(q, b)
         /\ services'[q.svc] = services[q.svc] /\ buckets'[q.svc] = buckets[q.svc]
         /\ \A c \in Keys : creds'[c] # None /\ creds[c] = None => creds'[c].svc # q.svc
         /\ \A a \in Attempts, r \in Requests : Ends(a, r) => r.svc # q.svc
<1>0. q.key \in Keys /\ q.svc \in Services
  BY RequestFields
<1>1. Owns(q, b)
  <2>1. CASE UNCHANGED storeVars
    BY <2>1 DEF storeVars, Owns, Matches
  <2>2. ASSUME NEW k \in Keys, NEW x \in BOOLEAN, Leases(k, x)
        PROVE  Owns(q, b)
    BY <1>0, <2>2, LeasesKeeps DEF Owns, Matches
  <2>3. ASSUME NEW a \in Attempts, NEW r \in Requests, Begins(a, r)
        PROVE  Owns(q, b)
    BY <1>0, <2>3, BeginsKeeps DEF Begins, Owns, Matches
  <2>4. ASSUME NEW a \in Attempts, NEW r \in Requests, Ends(a, r)
        PROVE  Owns(q, b)
    BY <1>0, <2>4, EndsKeeps DEF Owns, Matches
  <2> QED BY <2>1, <2>2, <2>3, <2>4 DEF OperationStep
<1>2. ASSUME NEW a \in Attempts, NEW r \in Requests, Ends(a, r)
      PROVE  r.svc # q.svc
  <2>1. /\ InProgress(r.key) /\ receipts[r.key].req = r /\ r.key \in Keys
        /\ receipts'[r.key].state # "in_progress"
    BY <1>2, EndsKeeps, RequestFields
  <2>2. r.key # q.key
    BY <2>1 DEF Owns
  <2> QED BY <1>0, <1>1, <2>1, <2>2 DEF SingleOperation, Owns, Matches, InProgress
<1>3. ASSUME NEW a \in Attempts, NEW r \in Requests, Ends(a, r)
      PROVE  /\ services'[q.svc] = services[q.svc] /\ buckets'[q.svc] = buckets[q.svc]
             /\ \A c \in Keys : creds'[c] # None /\ creds[c] = None => creds'[c].svc # q.svc
  BY <1>0, <1>2, <1>3, EndsLocal DEF LocalTo
<1> QED BY <1>1, <1>2, <1>3, RowsChange

-----------------------------------------------------------------------------
(* The conjuncts of the invariant, one by one *)

\* What an attempt knows when it begins.
LEMMA BeginsContext ==
  ASSUME StoreInv, NEW b \in Attempts, NEW r \in Requests, Begins(b, r), HandlerTypeOK
  PROVE  /\ services' = services /\ buckets' = buckets /\ creds' = creds
         /\ req'[b] = r
         /\ ctx'[b].bucket # None =>
              /\ services[r.svc] # None /\ buckets[r.svc] # None
              /\ ctx'[b].bucket = buckets[r.svc].phys
              /\ r.action = "reconcile" => buckets[r.svc].bucket = r.bucket
         /\ r.action = "delete" =>
              /\ pc'[b] = "renew"
              /\ ctx'[b].bucket = buckets[r.svc].phys
              /\ ctx'[b].keys = {creds[c].gkey : c \in ActiveOf(r.svc)}
         /\ r.action = "revoke" =>
              /\ pc'[b] = "renew" /\ creds[r.cred] # None
              /\ ctx'[b].keys = {creds[r.cred].gkey}
              /\ ctx'[b].prior => creds[r.cred].status = "revoked"
<1>0. r.action \in Actions /\ r.svc \in Services
  BY RequestFields
<1>1. /\ req'[b] = r /\ ctx'[b] = ExecuteContext(r) /\ pc'[b] = FirstStep(ExecuteContext(r), r)
      /\ services' = services /\ buckets' = buckets /\ creds' = creds /\ Accept(r)
  BY DEF Begins, PrepareExecute, HandlerTypeOK
<1>2. services[r.svc] # None => buckets[r.svc] # None
  BY <1>0 DEF StoreInv, BucketRowPresent
<1>3. CASE r.action = "reconcile"
  <2>1. ExecuteContext(r).bucket = IF services[r.svc] = None THEN None ELSE buckets[r.svc].phys
    BY <1>3 DEF ExecuteContext, NoContext
  <2>2. services[r.svc] # None => buckets[r.svc].bucket = r.bucket
    BY <1>1, <1>3 DEF Accept, AcceptReconcile
  <2> QED BY <1>1, <1>2, <1>3, <2>1, <2>2
<1>4. CASE r.action = "delete"
  <2>1. /\ ExecuteContext(r).bucket = buckets[r.svc].phys
        /\ ExecuteContext(r).keys = {creds[c].gkey : c \in ActiveOf(r.svc)}
    BY <1>4 DEF ExecuteContext, NoContext
  <2>2. services[r.svc] # None
    BY <1>1, <1>4 DEF Accept, AcceptDelete
  <2> QED BY <1>1, <1>2, <1>4, <2>1, <2>2 DEF FirstStep
<1>5. CASE r.action = "create"
  <2>1. ExecuteContext(r).bucket = buckets[r.svc].phys
    BY <1>5 DEF ExecuteContext, NoContext
  <2>2. services[r.svc] # None
    BY <1>1, <1>5 DEF Accept, AcceptCreate, ReadyBucket
  <2> QED BY <1>1, <1>2, <1>5, <2>1, <2>2
<1>6. CASE r.action = "revoke"
  <2>1. /\ ExecuteContext(r).bucket = None
        /\ ExecuteContext(r).keys = {creds[r.cred].gkey}
        /\ ExecuteContext(r).prior = (creds[r.cred].status = "revoked")
    BY <1>6 DEF ExecuteContext, NoContext
  <2>2. creds[r.cred] # None
    BY <1>1, <1>6 DEF Accept, AcceptRevoke
  <2> QED BY <1>1, <1>6, <2>1, <2>2 DEF FirstStep
<1> QED BY <1>0, <1>3, <1>4, <1>5, <1>6 DEF Actions

\* Bucket ids stay known under the name they were created for.
LEMMA BucketsMadeStep ==
  ASSUME TypeInv, BucketsMade, [Next]_vars, OperationStep
  PROVE  BucketsMade'
<1> USE DEF TypeInv, StoreInv
<1>1. ASSUME NEW p \in Attempts, gBuckets'[p] # None
      PROVE  PastBucket(p)' /\ req'[p].bucket = gBuckets'[p].alias
  <2>1. CASE gBuckets[p] # None /\ gBuckets'[p].alias = gBuckets[p].alias
    BY <2>1, PastBucketStays DEF BucketsMade
  <2> QED BY <1>1, <2>1, NewBucket
<1>2. ASSUME NEW s \in Services, buckets[s] # None, NEW p, buckets[s].phys = p
      PROVE  PastBucket(p)' /\ req'[p].bucket = buckets[s].bucket
  <2>1. p \in Attempts
    BY <1>2 DEF StoreTypeOK, BucketRow
  <2>2. PastBucket(p) /\ req[p].bucket = buckets[s].bucket
    BY <1>2 DEF BucketsMade
  <2> QED BY <2>1, <2>2, PastBucketStays
<1>3. ASSUME NEW a \in Attempts, Running(a), NEW p, ctx[a].bucket = p, p # None
      PROVE  PastBucket(p)' /\ (req[a].action = "reconcile" => req'[p].bucket = req[a].bucket)
  <2>1. p \in Attempts
    BY <1>3 DEF HandlerTypeOK, Context
  <2>2. PastBucket(p) /\ (req[a].action = "reconcile" => req[p].bucket = req[a].bucket)
    BY <1>3 DEF BucketsMade
  <2> QED BY <2>1, <2>2, PastBucketStays
<1>4. ASSUME NEW s \in Services, buckets'[s] # None, NEW p, buckets'[s].phys = p
      PROVE  PastBucket(p)' /\ req'[p].bucket = buckets'[s].bucket
  <2>1. CASE buckets'[s] = buckets[s]
    BY <1>2, <1>4, <2>1
  <2>2. CASE buckets'[s] # buckets[s]
    <3>1. PICK a \in Attempts, r \in Requests : Ends(a, r)
      BY <2>2, RowsChange
    <3>2. /\ pc[a] = "complete" /\ r.action = "reconcile" /\ ctx[a].bucket \in Attempts
          /\ buckets'[s].phys = ctx[a].bucket /\ buckets'[s].bucket = r.bucket
      BY <2>2, <3>1, EndsRows
    <3>3. Running(a) /\ ctx[a].bucket # None /\ req[a] = r
      BY <3>1, <3>2, NoneAssumption DEF Running, Ends
    <3> QED BY <1>3, <1>4, <3>2, <3>3
  <2> QED BY <2>1, <2>2
<1>5. ASSUME NEW a \in Attempts, Running(a)', NEW p, ctx'[a].bucket = p, p # None
      PROVE  PastBucket(p)' /\ (req'[a].action = "reconcile" => req'[p].bucket = req'[a].bucket)
  <2>1. ASSUME NEW r \in Requests, Begins(a, r)
        PROVE  PastBucket(p)' /\ (req'[a].action = "reconcile" => req'[p].bucket = req'[a].bucket)
    <3>1. /\ req'[a] = r /\ buckets[r.svc] # None /\ p = buckets[r.svc].phys
          /\ r.action = "reconcile" => buckets[r.svc].bucket = r.bucket
      BY <1>5, <2>1, BeginsContext
    <3> QED BY <1>2, <3>1, RequestFields
  <2>2. CASE GoesOn(a)
    <3>0. Running(a) /\ req'[a] = req[a]
      BY <2>2 DEF GoesOn
    <3>1. CASE p = ctx[a].bucket
      BY <1>3, <1>5, <3>0, <3>1
    <3>2. CASE p \in BucketsWithAlias(req[a].bucket)
      <4>1. p \in Attempts /\ gBuckets[p] # None /\ gBuckets[p].alias = req[a].bucket
        BY <3>2 DEF BucketsWithAlias, BucketExists
      <4>2. PastBucket(p) /\ req[p].bucket = req[a].bucket
        BY <4>1 DEF BucketsMade
      <4> QED BY <3>0, <4>1, <4>2, PastBucketStays
    <3>3. CASE pc'[a] = "updateQuotas" /\ p = a
      BY <3>3 DEF PastBucket
    <3> QED BY <1>5, <2>2, <3>1, <3>2, <3>3, ContextBucket
  <2> QED BY <1>5, <2>1, <2>2, RunsOrBegins
<1> QED BY <1>1, <1>4, <1>5 DEF BucketsMade, PastBucket

\* The attempt that creates a credential row has ended.
LEMMA KeysMadeStep ==
  ASSUME StoreTypeOK, HandlerTypeOK, KeysMade, [Next]_vars, OperationStep
  PROVE  KeysMade'
<1> SUFFICES ASSUME NEW c \in Keys, NEW g, creds'[c] # None, creds'[c].gkey = g
             PROVE  pc'[g] = "done"
  BY DEF KeysMade
<1>1. CASE creds[c] # None
  <2>1. creds[c].gkey = g /\ pc[g] = "done" /\ g \in Attempts
    BY <1>1, CredentialStays DEF KeysMade, StoreTypeOK, CredentialRow
  <2> QED BY <2>1, StartedKeeps
<1>2. CASE creds[c] = None
  <2>1. PICK a \in Attempts, r \in Requests : Ends(a, r)
    BY <1>2, RowsChange
  <2>2. g = a
    BY <1>2, <2>1, EndsCredential
  <2> QED BY <2>1, <2>2 DEF Ends, HandlerTypeOK
<1> QED BY <1>1, <1>2

\* The key of a credential row is that of an attempt, and once gone stays gone.
LEMMA CredentialKeyStaysGone ==
  ASSUME StoreTypeOK, HandlerTypeOK, GarageTypeOK, KeysMade, [Next]_vars, NEW c \in Keys,
         creds[c] # None, gKeys[creds[c].gkey] = None
  PROVE  gKeys'[creds[c].gkey] = None
<1>1. creds[c].gkey \in Attempts
  BY DEF StoreTypeOK, CredentialRow
<1> QED BY <1>1, KeyStaysGone DEF KeysMade

\* A deletion knows what there is to delete.
LEMMA DeletionKnownStep ==
  ASSUME TypeInv, SingleOperation, BucketsMade, KeysMade, DeletionKnown, [Next]_vars, OperationStep
  PROVE  DeletionKnown'
<1> USE DEF TypeInv, StoreInv
<1> SUFFICES ASSUME NEW b \in Attempts, Running(b)', NEW q, req'[b] = q, q.action = "delete"
             PROVE  /\ pc'[b] \in {"deleteBucket", "complete"} => ctx'[b].keys = {}
                    /\ pc'[b] = "complete" => gBuckets'[ctx'[b].bucket] = None
                    /\ Owns(q, b)' =>
                         /\ buckets'[q.svc].phys = ctx'[b].bucket
                         /\ \A c \in ActiveOf(q.svc)' :
                              creds'[c].gkey \in ctx'[b].keys \/ gKeys'[creds'[c].gkey] = None
  BY DEF DeletionKnown, Owns, Matches, ActiveOf
<1>1. CASE Begins(b, q) /\ q \in Requests
  <2>1. /\ buckets' = buckets /\ creds' = creds
        /\ pc'[b] = "renew" /\ ctx'[b].bucket = buckets[q.svc].phys
        /\ ctx'[b].keys = {creds[c].gkey : c \in ActiveOf(q.svc)}
    BY <1>1, BeginsContext
  <2> QED BY <2>1 DEF ActiveOf
<1>2. CASE GoesOn(b)
  <2>0. Running(b) /\ req[b] = q /\ q \in Requests /\ ctx[b].bucket \in Attempts /\ q.svc \in Services
    BY <1>2, RunningRunsAt, RequestFields DEF GoesOn, RunsAt, Context
  <2>1. /\ pc[b] \in {"deleteBucket", "complete"} => ctx[b].keys = {}
        /\ pc[b] = "complete" => gBuckets[ctx[b].bucket] = None
        /\ Owns(q, b) =>
             /\ buckets[q.svc].phys = ctx[b].bucket
             /\ \A c \in ActiveOf(q.svc) :
                  creds[c].gkey \in ctx[b].keys \/ gKeys[creds[c].gkey] = None
    BY <2>0 DEF DeletionKnown
  <2>2. /\ ctx'[b].bucket = ctx[b].bucket
        /\ \/ ctx'[b].keys = ctx[b].keys
           \/ \E g \in ctx[b].keys : /\ pc'[b] = "renewKey" /\ gKeys'[g] = None
                                     /\ ctx'[b].keys = ctx[b].keys \ {g}
        /\ pc'[b] = "deleteBucket" => Stays(b) \/ ctx'[b].keys = {}
        /\ pc'[b] = "complete" =>
             \/ Stays(b)
             \/ pc[b] = "deleteBucket" /\ gBuckets'[ctx[b].bucket] = None
    BY <1>2, <2>0, DeletionMoves
  <2>3. pc'[b] \in {"deleteBucket", "complete"} => ctx'[b].keys = {}
    BY <2>1, <2>2 DEF Stays
  <2>4. gBuckets[ctx[b].bucket] = None => gBuckets'[ctx[b].bucket] = None
    <3>1. PastBucket(ctx[b].bucket)
      BY <2>0, NoneAssumption DEF BucketsMade
    <3> QED BY <2>0, <3>1, BucketStaysGone
  <2>5. pc'[b] = "complete" => gBuckets'[ctx'[b].bucket] = None
    BY <2>1, <2>2, <2>4 DEF Stays
  <2>6. ASSUME Owns(q, b)'
        PROVE  /\ buckets'[q.svc].phys = ctx'[b].bucket
               /\ \A c \in ActiveOf(q.svc)' :
                    creds'[c].gkey \in ctx'[b].keys \/ gKeys'[creds'[c].gkey] = None
    <3>1. /\ Owns(q, b) /\ buckets'[q.svc] = buckets[q.svc]
          /\ \A c \in Keys : creds'[c] # None /\ creds[c] = None => creds'[c].svc # q.svc
      BY <2>0, <2>6, OwnerAlone DEF Running
    <3>2. ASSUME NEW c \in ActiveOf(q.svc)'
          PROVE  creds'[c].gkey \in ctx'[b].keys \/ gKeys'[creds'[c].gkey] = None
      <4>1. c \in Keys /\ creds'[c] # None /\ creds'[c].svc = q.svc /\ creds'[c].status = "active"
        BY <3>2 DEF ActiveOf
      <4>2. creds[c] # None
        BY <3>1, <4>1
      <4>3. /\ creds'[c].gkey = creds[c].gkey /\ creds[c].svc = q.svc
            /\ creds[c].status # "revoked"
        BY <4>1, <4>2, CredentialStays
      <4>4. c \in ActiveOf(q.svc)
        BY <4>1, <4>2, <4>3 DEF ActiveOf, StoreTypeOK, CredentialRow
      <4>5. creds[c].gkey \in ctx[b].keys \/ gKeys'[creds[c].gkey] = None
        BY <2>1, <3>1, <4>1, <4>2, <4>4, CredentialKeyStaysGone
      <4> QED BY <2>2, <4>3, <4>5
    <3> QED BY <2>1, <2>2, <3>1, <3>2
  <2> QED BY <2>3, <2>5, <2>6
<1>3. ASSUME NEW r \in Requests, Begins(b, r)
      PROVE  r = q
  BY <1>3 DEF Begins, HandlerTypeOK
<1> QED BY <1>1, <1>2, <1>3, RunsOrBegins

\* A revocation knows its key, and completes when it is gone.
LEMMA RevocationKnownStep ==
  ASSUME TypeInv, KeysMade, RevocationKnown, RevokedKeyGone, [Next]_vars, OperationStep
  PROVE  RevocationKnown'
<1> USE DEF TypeInv, StoreInv
<1> SUFFICES ASSUME NEW b \in Attempts, Running(b)', NEW q, req'[b] = q, q.action = "revoke"
             PROVE  /\ creds'[q.cred] # None
                    /\ pc'[b] \in {"renew", "revokeKey"} => ctx'[b].keys = {creds'[q.cred].gkey}
                    /\ ctx'[b].prior => creds'[q.cred].status = "revoked"
                    /\ pc'[b] = "complete" => gKeys'[creds'[q.cred].gkey] = None
  BY DEF RevocationKnown
<1>1. CASE Begins(b, q) /\ q \in Requests
  <2>1. /\ creds' = creds /\ pc'[b] = "renew" /\ creds[q.cred] # None
        /\ ctx'[b].keys = {creds[q.cred].gkey}
        /\ ctx'[b].prior => creds[q.cred].status = "revoked"
    BY <1>1, BeginsContext
  <2> QED BY <2>1
<1>2. CASE GoesOn(b)
  <2>0. /\ Running(b) /\ Running(b)' /\ req[b] = q /\ q \in Requests /\ q.cred \in Keys
    BY <1>2, RunningRunsAt, RequestFields DEF GoesOn
  <2>1. /\ creds[q.cred] # None
        /\ pc[b] \in {"renew", "revokeKey"} => ctx[b].keys = {creds[q.cred].gkey}
        /\ ctx[b].prior => creds[q.cred].status = "revoked"
        /\ pc[b] = "complete" => gKeys[creds[q.cred].gkey] = None
    BY <2>0 DEF RevocationKnown
  <2>2. /\ creds'[q.cred] # None /\ creds'[q.cred].gkey = creds[q.cred].gkey
        /\ creds[q.cred].status = "revoked" => creds'[q.cred].status = "revoked"
    BY <2>0, <2>1, CredentialStays
  <2>3. ctx'[b].prior = ctx[b].prior
    BY <2>0, StartedKeeps DEF Running
  <2>4. gKeys[creds[q.cred].gkey] = None => gKeys'[creds[q.cred].gkey] = None
    BY <2>0, <2>1, CredentialKeyStaysGone
  <2>5. creds[q.cred].status = "revoked" => gKeys[creds[q.cred].gkey] = None
    BY <2>0, <2>1 DEF RevokedKeyGone
  <2>6. /\ pc'[b] \in {"renew", "revokeKey"} =>
             pc[b] \in {"renew", "revokeKey"} /\ ctx'[b].keys = ctx[b].keys
        /\ pc'[b] = "complete" =>
             \/ pc[b] = "complete"
             \/ pc[b] = "renew" /\ ctx[b].prior
             \/ pc[b] = "revokeKey" /\ \E g \in ctx[b].keys : gKeys'[g] = None
    BY <1>2, <2>0, RevocationMoves
  <2>7. pc'[b] = "complete" => gKeys'[creds[q.cred].gkey] = None
    BY <2>1, <2>4, <2>5, <2>6
  <2> QED BY <2>1, <2>2, <2>3, <2>6, <2>7
<1>3. ASSUME NEW r \in Requests, Begins(b, r)
      PROVE  r = q
  BY <1>3 DEF Begins, HandlerTypeOK
<1> QED BY <1>1, <1>2, <1>3, RunsOrBegins

\* What a completed deletion or revocation says is revoked is gone.
LEMMA RevokedKeyGoneStep ==
  ASSUME TypeInv, KeysMade, DeletionKnown, RevocationKnown, RevokedKeyGone, [Next]_vars, OperationStep
  PROVE  RevokedKeyGone'
<1> USE DEF TypeInv, StoreInv
<1> SUFFICES ASSUME NEW c \in Keys, creds'[c] # None, creds'[c].status = "revoked"
             PROVE  gKeys'[creds'[c].gkey] = None
  BY DEF RevokedKeyGone
<1>1. CASE creds[c] # None /\ gKeys[creds[c].gkey] = None
  BY <1>1, CredentialStays, CredentialKeyStaysGone
<1>2. CASE creds'[c] = creds[c]
  BY <1>1, <1>2 DEF RevokedKeyGone
<1>3. CASE creds'[c] # creds[c]
  <2>1. PICK a \in Attempts, r \in Requests : Ends(a, r)
    BY <1>3, RowsChange
  <2>2. /\ pc[a] = "complete" /\ creds[c] # None
        /\ \/ r.action = "delete" /\ c \in ActiveOf(r.svc)
           \/ r.action = "revoke" /\ c = r.cred
    BY <1>3, <2>1, EndsCredential
  <2>3. Running(a) /\ req[a] = r /\ Owns(r, a)
    BY <2>1, <2>2 DEF Running, Ends, CompleteReconcile, CompleteDelete, CompleteCreate, CompleteRevoke
  <2>4. CASE r.action = "delete" /\ c \in ActiveOf(r.svc)
    <3>1. creds[c].gkey \in ctx[a].keys \/ gKeys[creds[c].gkey] = None
      BY <2>3, <2>4 DEF DeletionKnown
    <3>2. ctx[a].keys = {}
      BY <2>2, <2>3, <2>4 DEF DeletionKnown
    <3> QED BY <1>1, <2>2, <3>1, <3>2
  <2>5. CASE r.action = "revoke" /\ c = r.cred
    BY <1>1, <2>2, <2>3, <2>5 DEF RevocationKnown
  <2> QED BY <2>2, <2>4, <2>5
<1> QED BY <1>2, <1>3

\* A deletion completes when bucket and keys are gone, and nothing creates
\* them again.
LEMMA DeletedIsGoneStep ==
  ASSUME TypeInv, OperationsSound, BucketsMade, DeletionKnown, DeletedIsGone,
         [Next]_vars, OperationStep
  PROVE  DeletedIsGone'
<1> USE DEF TypeInv, StoreInv
<1> SUFFICES ASSUME NEW s \in Services, Deleted(s)'
             PROVE  gBuckets'[buckets'[s].phys] = None /\ ActiveOf(s)' = {}
  BY DEF DeletedIsGone, ActiveOf
<1>0. ASSUME services[s] # None, gBuckets[buckets[s].phys] = None
      PROVE  gBuckets'[buckets[s].phys] = None
  <2>1. buckets[s] # None
    BY <1>0 DEF BucketRowPresent
  <2>2. buckets[s].phys \in Attempts /\ PastBucket(buckets[s].phys)
    BY <2>1 DEF StoreTypeOK, BucketRow, BucketsMade
  <2> QED BY <1>0, <2>2, BucketStaysGone
<1>1. CASE services' = services /\ buckets' = buckets /\ creds' = creds
  <2>1. Deleted(s)
    BY <1>1 DEF Deleted
  <2> QED BY <1>0, <1>1, <2>1 DEF DeletedIsGone, Deleted, ActiveOf
<1>2. ASSUME NEW a \in Attempts, NEW r \in Requests, Ends(a, r)
      PROVE  gBuckets'[buckets'[s].phys] = None /\ ActiveOf(s)' = {}
  <2>0. r.key \in Keys
    BY RequestFields
  <2>1. CASE services'[s] = services[s] /\ buckets'[s] = buckets[s]
    <3>1. Deleted(s) /\ services[s] # None
      BY <2>1 DEF Deleted
    <3>2. gBuckets[buckets[s].phys] = None /\ ActiveOf(s) = {}
      BY <3>1 DEF DeletedIsGone
    <3>3. ASSUME NEW c \in Keys, creds'[c] # None, creds'[c].svc = s, creds'[c].status = "active"
          PROVE  FALSE
      <4>1. CASE creds[c] # None
        <5>1. creds[c].svc = s /\ creds[c].status # "revoked"
          BY <3>3, <4>1, CredentialStays
        <5>2. c \in ActiveOf(s)
          BY <4>1, <5>1 DEF ActiveOf, StoreTypeOK, CredentialRow
        <5> QED BY <3>2, <5>2
      <4>2. CASE creds[c] = None
        <5>1. r.action = "create" /\ creds'[c].svc = r.svc
          BY <1>2, <3>3, <4>2, EndsCredential
        <5>2. Undertaken(r)
          BY <1>2, <2>0, EndsKeeps DEF OperationsSound
        <5>3. services[s].phase = "ready"
          BY <3>3, <5>1, <5>2 DEF Undertaken, ReadyBucket
        <5> QED BY <3>1, <5>3 DEF Deleted
      <4> QED BY <4>1, <4>2
    <3>4. ActiveOf(s)' = {}
      BY <3>3 DEF ActiveOf
    <3> QED BY <1>0, <2>1, <3>1, <3>2, <3>4
  <2>2. CASE /\ s = r.svc /\ pc[a] = "complete" /\ r.action = "delete"
             /\ services[s] # None
             /\ buckets'[s] = buckets[s]
             /\ creds' = [c \in Keys |-> IF c \in ActiveOf(r.svc)
                                           THEN [creds[c] EXCEPT !.status = "revoked"] ELSE creds[c]]
    <3>1. Running(a) /\ req[a] = r /\ Owns(r, a)
      BY <1>2, <2>2 DEF Running, Ends, CompleteReconcile, CompleteDelete, CompleteCreate,
         CompleteRevoke
    <3>2. gBuckets[ctx[a].bucket] = None /\ buckets[s].phys = ctx[a].bucket
      BY <2>2, <3>1 DEF DeletionKnown
    <3>3. ASSUME NEW c \in Keys, creds'[c] # None, creds'[c].svc = s, creds'[c].status = "active"
          PROVE  FALSE
      <4>1. CASE c \in ActiveOf(r.svc)
        <5>1. creds[c] \in CredentialRow
          BY <4>1 DEF ActiveOf, StoreTypeOK
        <5>2. creds'[c] = [creds[c] EXCEPT !.status = "revoked"]
          BY <2>2, <4>1
        <5> QED BY <3>3, <5>1, <5>2 DEF CredentialRow
      <4>2. CASE c \notin ActiveOf(r.svc)
        BY <2>2, <3>3, <4>2 DEF ActiveOf
      <4> QED BY <4>1, <4>2
    <3>4. ActiveOf(s)' = {}
      BY <3>3 DEF ActiveOf
    <3> QED BY <1>0, <2>2, <3>2, <3>4
  <2>3. services'[s].phase # "ready"
    BY DEF Deleted
  <2> QED BY <1>2, <2>1, <2>2, <2>3, EndsRows
<1> QED BY <1>1, <1>2, RowsChange

\* A reconciliation does not complete with the bucket of another service.
LEMMA BucketsDistinctStep ==
  ASSUME StoreTypeOK, BucketsDistinct, OperationStep
  PROVE  BucketsDistinct'
<1>1. CASE buckets' = buckets
  BY <1>1 DEF BucketsDistinct
<1>2. ASSUME NEW a \in Attempts, NEW r \in Requests, Ends(a, r)
      PROVE  BucketsDistinct'
  <2>1. ASSUME NEW s \in Services
        PROVE  \/ buckets'[s] = buckets[s]
               \/ /\ s = r.svc /\ buckets'[s].phys = ctx[a].bucket
                  /\ \A t \in Services \ {s} : buckets[t] # None => buckets[t].phys # ctx[a].bucket
    BY <1>2, EndsRows DEF ReconcileApplies
  <2> QED BY <2>1 DEF BucketsDistinct
<1> QED BY <1>1, <1>2, RowsChange

\* The name an operation reserved keeps it away from other services' buckets.
LEMMA OwnBucketKnownStep ==
  ASSUME OperationInv, BucketsMade, DeletedIsGone, BucketsDistinct, OwnBucketKnown,
         [Next]_vars, OperationStep
  PROVE  OwnBucketKnown'
<1> USE DEF OperationInv, TypeInv, StoreInv
<1> SUFFICES ASSUME NEW b \in Attempts, Running(b)', NEW q, req'[b] = q,
                    q.action = "reconcile", Owns(q, b)', NEW p, ctx'[b].bucket = p, p # None,
                    NEW s \in Services, s # q.svc, buckets'[s] # None, buckets'[s].phys = p
             PROVE  FALSE
  BY DEF OwnBucketKnown, Owns, Matches
<1>1. CASE Begins(b, q) /\ q \in Requests
  <2>1. buckets' = buckets /\ buckets[q.svc] # None /\ p = buckets[q.svc].phys
    BY <1>1, BeginsContext
  <2> QED BY <1>1, <2>1, RequestFields DEF BucketsDistinct
<1>2. CASE GoesOn(b)
  <2>0. /\ Running(b) /\ req[b] = q /\ q \in Requests /\ q.key \in Keys /\ q.bucket \in BucketNames
        /\ q.svc \in Services
    BY <1>2, RunningRunsAt, RequestFields DEF GoesOn
  <2>1. Owns(q, b)
    BY <2>0, OwnerAlone DEF Running
  <2>2. names[q.bucket] = q.svc
    BY <2>0, <2>1 DEF Owns, Matches, OperationsSound, InProgress, Undertaken
  <2>3. CASE buckets'[s] = buckets[s]
    <3>0. services[s] # None /\ buckets[s] # None
      BY <2>3 DEF RowsTogether
    <3>1. CASE p = ctx[b].bucket
      BY <2>0, <2>1, <2>3, <3>1 DEF OwnBucketKnown
    <3>2. CASE p \in BucketsWithAlias(q.bucket)
      <4>1. p \in Attempts /\ gBuckets[p] # None /\ gBuckets[p].alias = q.bucket
        BY <3>2 DEF BucketsWithAlias, BucketExists
      <4>2. req[p].bucket = q.bucket /\ req[p].bucket = buckets[s].bucket
        BY <2>3, <3>0, <4>1 DEF BucketsMade
      <4>3. Ready(s)
        <5>1. ~Deleted(s)
          BY <2>3, <4>1 DEF DeletedIsGone
        <5> QED BY <3>0, <5>1 DEF Ready, Deleted, StoreTypeOK, ServiceRow
      <4> QED BY <2>2, <4>2, <4>3 DEF NamesAccounted
    <3>3. CASE pc[b] = "createBucket" /\ p = b
      BY <2>3, <3>0, <3>3 DEF BucketsMade, PastBucket
    <3> QED BY <1>2, <2>0, <3>1, <3>2, <3>3, ContextBucket
  <2>4. CASE buckets'[s] # buckets[s]
    <3>1. PICK a \in Attempts, r \in Requests : Ends(a, r)
      BY <2>4, RowsChange
    <3>2. s = r.svc /\ pc[a] = "complete" /\ r.action = "reconcile" /\ p = ctx[a].bucket
      BY <2>4, <3>1, EndsRows
    <3>3. Running(a) /\ req[a] = r /\ r.key \in Keys
      BY <3>1, <3>2, RequestFields DEF Running, Ends
    <3>4. names[r.bucket] = s
      <4>1. InProgress(r.key) /\ receipts[r.key].req = r
        BY <3>1, EndsKeeps
      <4>2. Undertaken(r)
        BY <3>3, <4>1 DEF OperationsSound
      <4> QED BY <3>2, <4>2 DEF Undertaken
    <3>5. req[p].bucket = r.bucket
      BY <3>2, <3>3 DEF BucketsMade
    <3>6. p = ctx[b].bucket
      <4>1. ~(UNCHANGED storeVars)
        BY <2>4 DEF storeVars
      <4> QED BY <1>2, <4>1, ContextBucket
    <3>7. req[p].bucket = q.bucket
      BY <2>0, <3>6 DEF BucketsMade
    <3> QED BY <2>2, <3>4, <3>5, <3>7
  <2> QED BY <2>3, <2>4
<1>3. ASSUME NEW r \in Requests, Begins(b, r)
      PROVE  r = q
  BY <1>3 DEF Begins, HandlerTypeOK
<1> QED BY <1>1, <1>2, <1>3, RunsOrBegins

-----------------------------------------------------------------------------
(* The invariant *)

\* The invariant holds at first.
LEMMA GarageInvInit ==
  ASSUME Init
  PROVE  GarageInv
<1>1. /\ \A k \in Keys : creds[k] = None
      /\ \A s \in Services : services[s] = None /\ buckets[s] = None
      /\ \A a \in Attempts : pc[a] = "idle" /\ gBuckets[a] = None
  BY DEF Init, StoreInit, GarageInit
<1>2. BucketsMade /\ KeysMade /\ DeletionKnown /\ RevocationKnown
  BY <1>1 DEF BucketsMade, KeysMade, DeletionKnown, RevocationKnown, Running
<1>3. RevokedKeyGone /\ DeletedIsGone /\ BucketsDistinct /\ OwnBucketKnown
  BY <1>1 DEF RevokedKeyGone, DeletedIsGone, Deleted, BucketsDistinct, OwnBucketKnown, Running
<1> QED BY <1>2, <1>3, OperationInvInit DEF GarageInv

\* Every step keeps the invariant.
LEMMA GarageInvNext ==
  ASSUME GarageInv, [Next]_vars
  PROVE  GarageInv'
<1>1. OperationStep
  BY NextOperationStep DEF GarageInv, OperationInv, TypeInv
<1>2. OperationInv'
  BY OperationInvNext DEF GarageInv
<1>3. TypeInv /\ StoreTypeOK /\ HandlerTypeOK /\ SingleOperation /\ OperationsSound
  BY DEF GarageInv, OperationInv, TypeInv, StoreInv
<1>4. BucketsMade' /\ KeysMade'
  BY <1>1, <1>3, BucketsMadeStep, KeysMadeStep DEF GarageInv
<1>5. DeletionKnown' /\ RevocationKnown' /\ RevokedKeyGone'
  BY <1>1, <1>3, DeletionKnownStep, RevocationKnownStep, RevokedKeyGoneStep DEF GarageInv
<1>6. DeletedIsGone' /\ BucketsDistinct' /\ OwnBucketKnown'
  BY <1>1, <1>3, DeletedIsGoneStep, BucketsDistinctStep, OwnBucketKnownStep DEF GarageInv
<1> QED BY <1>2, <1>4, <1>5, <1>6 DEF GarageInv

\* The store and Garage agree as the invariant says, always.
LEMMA GarageInvAlways == Spec => []GarageInv
<1>1. GarageInv /\ [Next]_vars => GarageInv'
  BY GarageInvNext
<1> QED BY <1>1, GarageInvInit, PTL DEF Spec

\* A credential that the store calls revoked, by complete_revoke or by
\* complete_delete, has no key in Garage, whichever attempts took part and
\* whatever late attempts still do.
THEOREM RevokedKeysAreGone == Spec => []RevokedKeyGone
<1>1. GarageInv => RevokedKeyGone
  BY DEF GarageInv
<1> QED BY <1>1, GarageInvAlways, PTL

\* A service that complete_delete marked deleted has no bucket left in Garage
\* and no active credential, and never gets one again.
THEOREM DeletedServicesAreGone == Spec => []DeletedIsGone
<1>1. GarageInv => DeletedIsGone
  BY DEF GarageInv
<1> QED BY <1>1, GarageInvAlways, PTL

\* The owner of a reconciliation never sets quotas on, or completes with, the
\* bucket of another service, although reconcile_bucket adopts buckets by alias.
THEOREM OwnersTouchTheirBucket == Spec => []OwnerTouchesOwnBucket
<1>1. GarageInv => OwnerTouchesOwnBucket
  <2> SUFFICES ASSUME GarageInv, NEW a \in Attempts,
                      pc[a] \in {"updateQuotas", "complete"}, req[a].action = "reconcile",
                      Owns(req[a], a)
               PROVE  \A s \in Services \ {req[a].svc} :
                        buckets[s] # None => buckets[s].phys # ctx[a].bucket
    BY DEF OwnerTouchesOwnBucket
  <2>1. Running(a) /\ ctx[a].bucket # None
    BY DEF GarageInv, OperationInv, TypeInv, HandlerTypeOK, Running
  <2> QED BY <2>1 DEF GarageInv, OwnBucketKnown
<1> QED BY <1>1, GarageInvAlways, PTL

=============================================================================
