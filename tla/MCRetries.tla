----------------------------- MODULE MCRetries -----------------------------
(***************************************************************************)
(* Instances of Retries for TLC.                                           *)
(***************************************************************************)
EXTENDS Retries, MCSyouyu

\* A service that has a credential is deleted, or its credential revoked.
DeleteRequests == {Reconcile(k1, s1, 1), Create(k2, s1), Delete(k3, s1, 2)}

RevokeRequests == {Reconcile(k1, s1, 1), Create(k2, s1), Revoke(k3, s1, k2)}

\* Every request that some course has.
CourseRequests == IssueRequests \cup DeleteRequests \cup RevokeRequests

FinishCourses ==
  {[requests |-> IssueRequests, faults |-> 2],
   [requests |-> DeleteRequests, faults |-> 1],
   [requests |-> RevokeRequests, faults |-> 1]}
=============================================================================
