------------------------------- MODULE Garage -------------------------------
(***************************************************************************)
(* Garage, the S3 data plane, as Syouyu's admin client                     *)
(* (crates/syouyu-garage) uses it: buckets with one global alias and a     *)
(* quota, access keys with a name and at most one bucket they may use.     *)
(* The server is external; an operation here is the effect of one request  *)
(* of the client.  An id is never used twice.                              *)
(***************************************************************************)
EXTENDS Domain

VARIABLES gBuckets, gKeys

garageVars == <<gBuckets, gKeys>>

\* full: the bucket has an object or an unfinished upload.
GBucket == [alias : BucketNames, quota : Quotas \cup {None}, full : BOOLEAN]

GKey == [name : Keys, bucket : Attempts \cup {None}]

\* None is neither.
ASSUME NoGarageObjectAssumption == None \notin GBucket \cup GKey

GarageTypeOK ==
  /\ gBuckets \in [Attempts -> GBucket \cup {None}]
  /\ gKeys \in [Attempts -> GKey \cup {None}]

GarageInit ==
  /\ gBuckets = [p \in Attempts |-> None]
  /\ gKeys = [g \in Attempts |-> None]

BucketExists(p) == gBuckets[p] # None

\* get_bucket_by_alias
BucketsWithAlias(b) == {p \in Attempts : BucketExists(p) /\ gBuckets[p].alias = b}

\* list_keys, filtered by name
KeysNamed(n) == {g \in Attempts : gKeys[g] # None /\ gKeys[g].name = n}

\* create_bucket: refused (409) when the alias is in use.
CreateBucket(p, b) ==
  /\ BucketsWithAlias(b) = {}
  /\ gBuckets' = [gBuckets EXCEPT ![p] = [alias |-> b, quota |-> None, full |-> FALSE]]
  /\ UNCHANGED gKeys

\* update_bucket_quotas: 404 when the bucket is gone.
UpdateBucketQuotas(p, q) ==
  /\ BucketExists(p)
  /\ gBuckets' = [gBuckets EXCEPT ![p] = [@ EXCEPT !.quota = q]]
  /\ UNCHANGED gKeys

\* delete_bucket: refused while the bucket is not empty; a bucket that is
\* gone already counts as deleted.
DeleteBucket(p) ==
  /\ BucketExists(p) => ~gBuckets[p].full
  /\ gBuckets' = [gBuckets EXCEPT ![p] = None]
  /\ UNCHANGED gKeys

\* create_key
CreateKey(g, n) ==
  /\ gKeys' = [gKeys EXCEPT ![g] = [name |-> n, bucket |-> None]]
  /\ UNCHANGED gBuckets

\* delete_key: a key that is gone already counts as deleted.
DeleteKey(g) ==
  /\ gKeys' = [gKeys EXCEPT ![g] = None]
  /\ UNCHANGED gBuckets

\* set_bucket_key_permissions: 404 when the bucket or the key is gone.
AllowBucketKey(p, g) ==
  /\ BucketExists(p) /\ gKeys[g] # None
  /\ gKeys' = [gKeys EXCEPT ![g] = [@ EXCEPT !.bucket = p]]
  /\ UNCHANGED gBuckets

\* An S3 client with a key of the bucket stores its first object, or removes
\* its last one.
ClientWrites(p) ==
  /\ BucketExists(p)
  /\ \E g \in Attempts : gKeys[g] # None /\ gKeys[g].bucket = p
  /\ gBuckets' = [gBuckets EXCEPT ![p] = [@ EXCEPT !.full = ~gBuckets[p].full]]
  /\ UNCHANGED gKeys

=============================================================================
