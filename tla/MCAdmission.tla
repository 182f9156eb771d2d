---------------------------- MODULE MCAdmission ----------------------------
(***************************************************************************)
(* An instance of Admission for TLC.                                       *)
(***************************************************************************)
EXTENDS Admission, TLC

CONSTANTS s1, s2, k1, k2, u1, u2

JWT(k, s, action, g, ttl) ==
  [kind |-> "provider", jti |-> k, svc |-> s, sub |-> u1, allows |-> {action},
   gen |-> g, ttl |-> ttl]

Context(s, u, permissions, ttl) ==
  [kind |-> "principal", jti |-> None, svc |-> s, sub |-> u, allows |-> permissions,
   gen |-> None, ttl |-> ttl]

\* Commands for two services, one of them signed for too long, and a context.
SomeGrants ==
  {JWT(k1, s1, "reconcile", 1, ProviderTTL), JWT(k2, s2, "delete", 2, ProviderTTL + 3),
   Context(s1, u1, {"create"}, PrincipalTTL)}

CallSymmetry == Permutations(Calls)
=============================================================================
