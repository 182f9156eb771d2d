------------------------------- MODULE Domain -------------------------------
(***************************************************************************)
(* The values that the parts of Syouyu exchange.                           *)
(*                                                                         *)
(* Identifiers the code draws at random are named by what makes them       *)
(* unique: an operation id by the handler execution that drew it           *)
(* (Attempts), a credential id by the idempotency key whose first attempt  *)
(* reserved it (Keys), a Garage bucket or key by the execution that        *)
(* created it (Attempts).  No execution draws two of one kind.             *)
(***************************************************************************)
EXTENDS Naturals

CONSTANTS
  None,           \* SQL NULL, or no row
  Attempts,       \* handler executions, and the ids they draw
  Keys,           \* idempotency keys, and ids of the credentials they create
  Services,       \* service instance ids
  BucketNames,    \* S3 bucket names, which are Garage's global aliases
  Orgs,           \* organization ids
  Projects,       \* project ids
  Names,          \* names of services and of credentials
  Quotas,         \* bucket quotas
  Requests,       \* the requests that clients send
  MaxPerBucket,   \* PgStore::credential_limits.max_credentials_per_bucket
  MaxTotal        \* PgStore::credential_limits.max_total_credentials

Actions == {"reconcile", "delete", "create", "revoke"}

\* An authenticated, validated command.  Equality of two requests is what
\* ReceiptRow::matches decides: it compares scope, principal, action,
\* generation and the SHA-256 of the body.  Fields that an action does not
\* use have a fixed value.
Request ==
  [key : Keys, action : Actions, svc : Services, org : Orgs, project : Projects,
   gen : Nat, name : Names, bucket : BucketNames, quota : Quotas,
   cred : Keys, perBucket : Nat, total : Nat]

ASSUME RequestsAssumption == Requests \subseteq Request
ASSUME LimitsAssumption == MaxPerBucket \in Nat /\ MaxTotal \in Nat

\* None is no identifier; a row's columns are compared with it to tell
\* whether there is one.
ASSUME NoneAssumption == None \notin Attempts \cup Services \cup Keys \cup Requests
=============================================================================
