------------------------------ MODULE MCSyouyu ------------------------------
(***************************************************************************)
(* Instances of Syouyu for TLC: the requests that clients send.            *)
(***************************************************************************)
EXTENDS SyouyuRefinement, TLC

CONSTANTS s1, s2, k1, k2, k3, k4, b1, b2, o1, o2, p1, n1, n2

\* A request of service s; what its action does not read is left at this.
Base(k, s) ==
  [key |-> k, action |-> "reconcile", svc |-> s, org |-> o1, project |-> p1, gen |-> 1,
   name |-> IF s = s1 THEN n1 ELSE n2, bucket |-> IF s = s1 THEN b1 ELSE b2,
   quota |-> 1, cred |-> k, perBucket |-> 9, total |-> 9]

Reconcile(k, s, g) == [Base(k, s) EXCEPT !.gen = g, !.quota = g]

Delete(k, s, g) == [Base(k, s) EXCEPT !.action = "delete", !.gen = g]

Create(k, s) == [Base(k, s) EXCEPT !.action = "create"]

Revoke(k, s, c) == [Base(k, s) EXCEPT !.action = "revoke", !.cred = c]

\* One service is created, updated and deleted; k3 is used for two requests.
LifecycleRequests ==
  {Reconcile(k1, s1, 1), Reconcile(k2, s1, 2), Delete(k3, s1, 2), Delete(k3, s1, 3)}

\* Two services of different organizations want one bucket name.
SharedNameRequests ==
  {Reconcile(k1, s1, 1), [Reconcile(k2, s2, 1) EXCEPT !.org = o2, !.bucket = b1], Delete(k3, s1, 2)}

\* Both: the name of a service that is updated and deleted is wanted by another.
ServiceRequests ==
  LifecycleRequests \cup {[Reconcile(k4, s2, 1) EXCEPT !.org = o2, !.bucket = b1]}

\* One service whose credential is created, revoked and deleted with it.
CredentialRequests ==
  {Reconcile(k1, s1, 1), Create(k2, s1), Revoke(k3, s1, k2), Delete(k4, s1, 2)}

\* Two services of one organization issue credentials.
LimitRequests ==
  {Reconcile(k1, s1, 1), Reconcile(k2, s2, 1), Create(k3, s1), Create(k4, s2)}

\* A service is created, and its quota changed.
UpdateRequests == {Reconcile(k1, s1, 1), Reconcile(k2, s1, 2)}

\* A service is created, and one credential issued.
IssueRequests == {Reconcile(k1, s1, 1), Create(k2, s1)}

AttemptSymmetry == Permutations(Attempts)

\* LimitRequests do not tell the two services apart.
Swapped ==
  s1 :> s2 @@ s2 :> s1 @@ b1 :> b2 @@ b2 :> b1 @@ n1 :> n2 @@ n2 :> n1
  @@ k1 :> k2 @@ k2 :> k1 @@ k3 :> k4 @@ k4 :> k3

LimitSymmetry == AttemptSymmetry \cup {f @@ Swapped : f \in AttemptSymmetry}
=============================================================================
