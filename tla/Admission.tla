------------------------------ MODULE Admission ------------------------------
(***************************************************************************)
(* Who may have an operation executed, and when.  Provider commands        *)
(* (reconcile, delete) carry a JWT that Heterocloud signs for one command; *)
(* public requests (create, revoke) carry a signed principal context that  *)
(* is good for any number of requests (crates/syouyu-auth,                 *)
(* syouyu-api/principal_auth.rs, and what the handlers of routes.rs do     *)
(* before the store).  Admitted requests then compete for the receipt of   *)
(* their idempotency key, whose lease is measured by another clock.        *)
(* Nothing limits the time from the admission to the claim: beside the     *)
(* pool's acquire_timeout there are waits for locks and stalls.            *)
(*                                                                         *)
(* Time is that of the issuer and of the database; the clock of a replica  *)
(* differs from it by at most Drift.  What a signature covers is not       *)
(* forged; how it is combined with path, query and headers is up to the    *)
(* client.                                                                 *)
(***************************************************************************)
EXTENDS Integers, FiniteSets

CONSTANTS
  None,
  Calls,            \* HTTP requests
  Keys,             \* canonical UUIDs of Idempotency-Key and jti
  Services, Subjects, Generations, Bodies,
  Grants,           \* what Heterocloud signs, issue times aside
  ProviderTTL,      \* PROVIDER_MAX_TOKEN_TTL_SECONDS, 60
  NotBefore,        \* PROVIDER_NOT_BEFORE_OFFSET_SECONDS, 5
  ProviderSkew,     \* ProviderAuthenticator::clock_skew_seconds, 5
  PrincipalTTL,     \* SYOUYU_PRINCIPAL_MAX_TTL_SECONDS, at most 300
  PrincipalSkew,    \* PrincipalAuthenticator::clock_skew, 15
  Lease,            \* OPERATION_LEASE_SECONDS, 120
  Drift,            \* difference of a replica's clock
  MaxTime           \* bound

ProviderActions == {"reconcile", "delete"}
PublicActions == {"create", "revoke"}
Actions == ProviderActions \cup PublicActions

\* jti and gen are None in a principal context; a JWT allows one action.
Grant ==
  [kind : {"provider", "principal"}, jti : Keys \cup {None}, svc : Services,
   sub : Subjects, allows : SUBSET Actions, gen : Generations \cup {None}, ttl : Int]

Token == [grant : Grants, iat : Int]

\* OperationRequest: what ReceiptRow::matches compares.
Command ==
  [key : Keys, svc : Services, sub : Subjects, action : Actions,
   gen : Generations \cup {None}, body : Bodies]

\* Replicas keep time well enough for both skews.
ASSUME AdmissionAssumption ==
  /\ Grants \subseteq Grant
  /\ \A g \in Grants : g.kind = "provider" => g.jti # None /\ g.gen # None
  /\ ProviderTTL \in Nat /\ NotBefore \in Nat /\ ProviderSkew \in Nat
  /\ PrincipalTTL \in Nat /\ PrincipalSkew \in Nat
  /\ Lease \in Nat /\ Drift \in Nat
  /\ MaxTime \in Nat
  /\ None \notin Int \cup Command \cup Token
  /\ Drift <= ProviderSkew /\ Drift <= PrincipalSkew

VARIABLES
  now,
  receipts,         \* by key: command, owner, state and lease_expires_at
  calls             \* each request: its command, token, and times

vars == <<now, receipts, calls>>

Receipt == [cmd : Command, owner : Calls, state : {"in_progress", "done"}, lease : Int]

\* pc: "admitted" once authenticated, "running" once it owns the operation,
\* "finished" when it stored the response, "stopped" when it ended otherwise.
Call ==
  [pc : {"admitted", "running", "finished", "stopped"}, cmd : Command, token : Token,
   admitted : Int, claimed : Int \cup {None}]

\* None stands for no receipt and for a request that has not arrived.
ASSUME NoRowAssumption == None \notin Receipt \cup Call

AdmissionTypeOK ==
  /\ now \in 0..MaxTime
  /\ receipts \in [Keys -> Receipt \cup {None}]
  /\ calls \in [Calls -> Call \cup {None}]
  /\ \A a \in Calls : calls[a] # None =>
       /\ calls[a].token.iat <= calls[a].admitted /\ calls[a].admitted <= now
       /\ calls[a].pc = "admitted" <=> calls[a].claimed = None

Init ==
  /\ now = 0
  /\ receipts = [k \in Keys |-> None]
  /\ calls = [a \in Calls |-> None]

-----------------------------------------------------------------------------
(* Tokens *)

\* What Heterocloud has signed up to now.  It may sign the same command again
\* when it repeats it.
Signed == [grant : Grants, iat : 0..now]

Exp(t) == t.iat + t.grant.ttl

\* Variants of ProviderTimeOK: the lifetime is not limited; the skew is
\* taken off at the end, too.
ProviderTimeUnlimited(t, clock) ==
  /\ Exp(t) >= clock - ProviderSkew /\ t.iat - NotBefore <= clock + ProviderSkew
  /\ t.iat <= clock + ProviderSkew

ProviderTimeStrict(t, clock) ==
  /\ Exp(t) > clock /\ t.iat - NotBefore <= clock + ProviderSkew
  /\ Exp(t) > t.iat /\ t.grant.ttl <= ProviderTTL
  /\ t.iat <= clock + ProviderSkew

\* verify_token_for_action: jsonwebtoken compares exp and nbf with the
\* leeway; then the lifetime and iat are checked.
ProviderTimeOK(t, clock) ==
  /\ Exp(t) >= clock - ProviderSkew /\ t.iat - NotBefore <= clock + ProviderSkew
  /\ Exp(t) > t.iat /\ t.grant.ttl <= ProviderTTL
  /\ t.iat <= clock + ProviderSkew

\* PrincipalAuthenticator::authenticate
PrincipalTimeOK(t, clock) ==
  /\ Exp(t) > t.iat /\ t.grant.ttl <= PrincipalTTL
  /\ t.iat <= clock + PrincipalSkew /\ Exp(t) + PrincipalSkew > clock

-----------------------------------------------------------------------------
(* The beginnings of the handlers *)

Clocks == {now + d : d \in (0 - Drift)..Drift}

\* Variant of ProviderCommand that takes the key from the header.
ProviderCommandByHeader(t, action, svc, gen, header, body) ==
  IF t.grant.kind = "provider" /\ action \in t.grant.allows \cap ProviderActions
       /\ svc = t.grant.svc /\ gen = t.grant.gen
    THEN [key |-> header, svc |-> svc, sub |-> t.grant.sub, action |-> action,
          gen |-> gen, body |-> body]
    ELSE None

\* reconcile_service_instance and delete_service_instance: the JWT is for
\* this action, Idempotency-Key is its jti, and the service of the path and
\* the generation of the body or query are the signed ones.
ProviderCommand(t, action, svc, gen, header, body) ==
  IF t.grant.kind = "provider" /\ action \in t.grant.allows \cap ProviderActions
       /\ header = t.grant.jti /\ svc = t.grant.svc /\ gen = t.grant.gen
    THEN [key |-> t.grant.jti, svc |-> svc, sub |-> t.grant.sub, action |-> action,
          gen |-> gen, body |-> body]
    ELSE None

\* create_credential and revoke_credential: the permission is in the context,
\* the scope and the principal come from it, the key from the header.
PublicCommand(t, action, header, body) ==
  IF t.grant.kind = "principal" /\ action \in t.grant.allows \cap PublicActions
    THEN [key |-> header, svc |-> t.grant.svc, sub |-> t.grant.sub, action |-> action,
          gen |-> None, body |-> body]
    ELSE None

Admitted(a, t, cmd) ==
  /\ cmd # None
  /\ calls' = [calls EXCEPT ![a] = [pc |-> "admitted", cmd |-> cmd, token |-> t,
                                    admitted |-> now, claimed |-> None]]
  /\ UNCHANGED <<now, receipts>>

\* A replica gets a request and authenticates it; refusals leave no trace.
AdmitProvider(a) ==
  /\ calls[a] = None
  /\ \E t \in Signed, clock \in Clocks, action \in ProviderActions, svc \in Services,
        gen \in Generations, header \in Keys, body \in Bodies :
       /\ ProviderTimeOK(t, clock)
       /\ Admitted(a, t, ProviderCommand(t, action, svc, gen, header, body))

AdmitPublic(a) ==
  /\ calls[a] = None
  /\ \E t \in Signed, clock \in Clocks, action \in PublicActions, header \in Keys,
        body \in Bodies :
       /\ PrincipalTimeOK(t, clock)
       /\ Admitted(a, t, PublicCommand(t, action, header, body))

-----------------------------------------------------------------------------
(* The receipt *)

\* Variant of MayClaim that does not wait for the lease.
MayClaimAtOnce(row, cmd) ==
  row # None => row.cmd = cmd /\ row.state = "in_progress"

\* claim_existing_receipt: the key is new, or its operation is the same
\* command and its lease has run out.
MayClaim(row, cmd) ==
  row # None => row.cmd = cmd /\ row.state = "in_progress" /\ row.lease <= now

\* A prepare that is to execute, any time after the admission.
Claim(a) ==
  LET cmd == calls[a].cmd
  IN /\ calls[a] # None /\ calls[a].pc = "admitted"
     /\ MayClaim(receipts[cmd.key], cmd)
     /\ receipts' = [receipts EXCEPT ![cmd.key] =
          [cmd |-> cmd, owner |-> a, state |-> "in_progress", lease |-> now + Lease]]
     /\ calls' = [calls EXCEPT ![a] = [@ EXCEPT !.pc = "running", !.claimed = now]]
     /\ UNCHANGED now

Owns(a) ==
  /\ calls[a] # None /\ calls[a].pc = "running"
  /\ receipts[calls[a].cmd.key].owner = a
  /\ receipts[calls[a].cmd.key].state = "in_progress"

\* Variant of Renew that clears the lease.
RenewToNull(a) ==
  /\ Owns(a)
  /\ receipts' = [receipts EXCEPT ![calls[a].cmd.key] = [@ EXCEPT !.lease = None]]
  /\ UNCHANGED <<now, calls>>

\* renew_operation
Renew(a) ==
  /\ Owns(a)
  /\ receipts' = [receipts EXCEPT ![calls[a].cmd.key] = [@ EXCEPT !.lease = now + Lease]]
  /\ UNCHANGED <<now, calls>>

\* finish_receipt
Finish(a) ==
  /\ Owns(a)
  /\ receipts' = [receipts EXCEPT ![calls[a].cmd.key] = [@ EXCEPT !.state = "done"]]
  /\ calls' = [calls EXCEPT ![a] = [@ EXCEPT !.pc = "finished"]]
  /\ UNCHANGED now

\* Fenced off, or lost.
Stop(a) ==
  /\ calls[a] # None /\ calls[a].pc = "running"
  /\ calls' = [calls EXCEPT ![a] = [@ EXCEPT !.pc = "stopped"]]
  /\ UNCHANGED <<now, receipts>>

\* Replayed, refused, or lost before it executed anything: the request is
\* forgotten.
Dismiss(a) ==
  /\ calls[a] # None /\ calls[a].pc = "admitted"
  /\ calls' = [calls EXCEPT ![a] = None]
  /\ UNCHANGED <<now, receipts>>

Tick == now < MaxTime /\ now' = now + 1 /\ UNCHANGED <<receipts, calls>>

Next ==
  \/ Tick
  \/ \E a \in Calls : AdmitProvider(a) \/ AdmitPublic(a) \/ Claim(a) \/ Renew(a)
                       \/ Finish(a) \/ Stop(a) \/ Dismiss(a)

Spec == Init /\ [][Next]_vars

-----------------------------------------------------------------------------
(* Properties *)

\* Owned the operation at some time.
Executed(a) == calls[a] # None /\ calls[a].claimed # None

\* The signature covers the command.
Covers(t, cmd) ==
  /\ cmd.svc = t.grant.svc /\ cmd.sub = t.grant.sub /\ cmd.action \in t.grant.allows
  /\ t.grant.kind = "provider" => cmd.key = t.grant.jti /\ cmd.gen = t.grant.gen

\* However path, query, Idempotency-Key and tokens are mixed, and whoever
\* takes an operation over: all executions of a key are of one command, and
\* each was covered by the signature it came with.
ExecutionsAreSigned ==
  \A a \in Calls : Executed(a) =>
    /\ receipts[calls[a].cmd.key] # None
    /\ receipts[calls[a].cmd.key].cmd = calls[a].cmd
    /\ Covers(calls[a].token, calls[a].cmd)

\* Whoever renews, stops or takes over, on whatever replica: the executions of
\* one key begin at least a lease apart.
ExecutionsLeaseApart ==
  \A a, b \in Calls :
    Executed(a) /\ Executed(b) /\ a # b /\ calls[a].cmd.key = calls[b].cmd.key =>
      \/ calls[a].claimed + Lease <= calls[b].claimed
      \/ calls[b].claimed + Lease <= calls[a].claimed

\* A JWT that is presented again finds the operation finished or its lease
\* running.  It can start a second execution only if the request was admitted
\* in time and then held up, before its claim, for what a lease is longer than
\* the lifetime of a JWT and all tolerances.
RepeatedTokenWasDelayed ==
  \A a, b \in Calls :
    /\ Executed(a) /\ Executed(b) /\ a # b
    /\ calls[a].token = calls[b].token /\ calls[a].token.grant.kind = "provider"
    /\ calls[a].claimed <= calls[b].claimed
    => calls[b].claimed - calls[b].admitted >= Lease - (ProviderTTL + ProviderSkew + Drift)

\* Tolerances suffice: while a token of proper lifetime is valid by the
\* issuer's clock, no replica refuses it for its times.
ValidTokensAreAccepted ==
  \A t \in Signed : \A clock \in Clocks :
    /\ /\ t.grant.kind = "provider" /\ t.grant.ttl \in 1..ProviderTTL
       /\ t.iat <= now /\ now <= Exp(t)
       => ProviderTimeOK(t, clock)
    /\ /\ t.grant.kind = "principal" /\ t.grant.ttl \in 1..PrincipalTTL
       /\ t.iat <= now /\ now < Exp(t)
       => PrincipalTimeOK(t, clock)
==============================================================================
