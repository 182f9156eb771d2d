---------------------------- MODULE LimitsChange ----------------------------
(***************************************************************************)
(* Retries while Heterocloud changes the credential limits of a customer.  *)
(* create_credential hashes the limits of the signed principal context     *)
(* together with the request body, so that a client that repeats its       *)
(* request after the change presents, to the store, another request.       *)
(***************************************************************************)
EXTENDS Retries

VARIABLE granted          \* max_credentials_per_bucket, as signed at present

limitVars == <<retryVars, granted>>

\* Limits that a client's context can have carried.
Limits == {r.perBucket : r \in {q \in Requests : q.action = "create"}}

\* The limits are those of the context that the request comes with.
SendSigned(r) ==
  /\ r.action = "create" => r.perBucket = granted
  /\ Send(r)
  /\ UNCHANGED granted

\* The limits are raised; they are not lowered here.
Raise ==
  /\ \E m \in Limits : m > granted /\ granted' = m
  /\ UNCHANGED retryVars

LimitInit == RetryInit /\ granted \in Limits

LimitNext ==
  \/ \E r \in Requests : SendSigned(r)
  \/ Raise
  \/ /\ \/ \E a \in Attempts : Proceed(a) \/ Lose(a) \/ Forget(a)
        \/ \E k \in Keys : InProgress(k) /\ (Overrun(k) \/ RunOut(k))
     /\ UNCHANGED granted

LimitFairness ==
  /\ \A a \in Attempts : /\ WF_limitVars(Proceed(a) /\ UNCHANGED granted)
                         /\ WF_limitVars(Forget(a) /\ UNCHANGED granted)
  /\ \A k \in Keys : WF_limitVars(InProgress(k) /\ RunOut(k) /\ UNCHANGED granted)
  /\ \A r \in Requests : SF_limitVars(SendSigned(r))

LimitSpec == LimitInit /\ [][LimitNext]_limitVars /\ LimitFairness
=============================================================================
