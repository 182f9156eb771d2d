---------------------------- MODULE MCLockOrder ----------------------------
(***************************************************************************)
(* Instances of LockOrder for TLC.                                         *)
(***************************************************************************)
EXTENDS LockOrder, TLC

CONSTANTS k1, k2, k3, k4, k5, k6, s1, s2, o1, n1, n2

Of(action, s, name, bucket) ==
  [action |-> action, svc |-> s, org |-> o1, name |-> name, bucket |-> bucket, cred |-> k3]

\* A service is given a new name, perhaps that of another one.
Operations ==
  k1 :> Of("reconcile", s1, n2, n1) @@ k2 :> Of("delete", s1, n1, n1)
  @@ k3 :> Of("create", s1, n1, n1) @@ k4 :> Of("create", s2, n2, n2)
  @@ k5 :> Of("revoke", s1, n1, n1) @@ k6 :> Of("reconcile", s2, n1, n2)

\* One service is updated and deleted, renewals and measurements included;
\* two services of one organization issue a credential each, one of which is
\* revoked; two services exchange names while one of them is deleted.
SomeMixes ==
  LET own == s1 :> n1 @@ s2 :> n2
      exchanged == s1 :> n2 @@ s2 :> n1
  IN {[keys |-> {k1, k2}, kinds |-> Kinds, names |-> {own, exchanged}],
      [keys |-> {k3, k4, k5}, kinds |-> {"prepare", "complete", "fail"}, names |-> {own}],
      [keys |-> {k1, k2, k6}, kinds |-> {"prepare", "complete"}, names |-> {own}]}

TxSymmetry == Permutations(Txs)
=============================================================================
