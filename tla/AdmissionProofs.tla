--------------------------- MODULE AdmissionProofs ---------------------------
(***************************************************************************)
(* Proofs about Admission, for every value of its constants.               *)
(*                                                                         *)
(* The argument: a request keeps what its admission has checked, the       *)
(* signature's cover and the time that had passed since it was signed      *)
(* (Vouched); and the receipt of a key keeps the command of every          *)
(* execution of the key and a lease that outlasts the beginning of each by *)
(* Lease (Leased).  So the executions of a key begin a lease apart; and    *)
(* whoever executes a JWT again was admitted while it was valid and then   *)
(* waited for the rest of the first execution's lease.                     *)
(***************************************************************************)
EXTENDS Admission, TLAPS

\* How long after its signature a JWT is admitted at the latest.
AdmittedWithin == ProviderTTL + ProviderSkew + Drift

\* What is known of a request since its admission.
Vouched(a) ==
  calls[a] # None =>
    /\ Covers(calls[a].token, calls[a].cmd)
    /\ calls[a].token.iat <= calls[a].admitted /\ calls[a].admitted <= now
    /\ calls[a].token.grant.kind = "provider" =>
         calls[a].admitted <= calls[a].token.iat + AdmittedWithin
    /\ calls[a].pc = "admitted" => calls[a].claimed = None
    /\ calls[a].pc # "admitted" =>
         /\ calls[a].claimed \in Int
         /\ calls[a].admitted <= calls[a].claimed /\ calls[a].claimed <= now

\* What the receipt of a key remembers of an execution.
Leased(a) ==
  Executed(a) =>
    /\ receipts[calls[a].cmd.key] # None
    /\ receipts[calls[a].cmd.key].cmd = calls[a].cmd
    /\ receipts[calls[a].cmd.key].lease >= calls[a].claimed + Lease

Typed ==
  /\ now \in 0..MaxTime
  /\ receipts \in [Keys -> Receipt \cup {None}]
  /\ calls \in [Calls -> Call \cup {None}]

AdmissionInv ==
  /\ Typed
  /\ \A a \in Calls : Vouched(a)
  /\ \A a \in Calls : Leased(a)
  /\ ExecutionsLeaseApart

-----------------------------------------------------------------------------
(* What a step does *)

\* A provider command is admitted as it was signed, within its lifetime and
\* all tolerances.
LEMMA ProviderAdmitted ==
  ASSUME Typed, NEW a \in Calls, AdmitProvider(a)
  PROVE  \E t \in Token, cmd \in Command :
           /\ Admitted(a, t, cmd) /\ Covers(t, cmd)
           /\ t.iat <= now /\ now <= t.iat + AdmittedWithin
<1> USE AdmissionAssumption
<1>1. PICK t \in Signed, clock \in Clocks, action \in ProviderActions, svc \in Services,
           gen \in Generations, header \in Keys, body \in Bodies :
        /\ ProviderTimeOK(t, clock)
        /\ Admitted(a, t, ProviderCommand(t, action, svc, gen, header, body))
  BY DEF AdmitProvider
<1>2. t \in Token /\ t.iat \in Int /\ t.iat <= now /\ t.grant \in Grant /\ now \in Int
  BY DEF Signed, Token, Typed
<1>3. t.grant.ttl \in Int /\ t.grant.sub \in Subjects
  BY <1>2 DEF Grant
<1>4. clock \in Int /\ now <= clock + Drift
  BY <1>2 DEF Clocks
<1>5. now <= t.iat + AdmittedWithin
  BY <1>1, <1>2, <1>3, <1>4 DEF ProviderTimeOK, Exp, AdmittedWithin
<1> DEFINE cmd == ProviderCommand(t, action, svc, gen, header, body)
<1>6. cmd # None
  BY <1>1 DEF Admitted
<1>7. /\ t.grant.kind = "provider" /\ action \in t.grant.allows
      /\ header = t.grant.jti /\ svc = t.grant.svc /\ gen = t.grant.gen
      /\ cmd = [key |-> t.grant.jti, svc |-> svc, sub |-> t.grant.sub, action |-> action,
                gen |-> gen, body |-> body]
  BY <1>6 DEF ProviderCommand
<1>8. cmd \in Command /\ Covers(t, cmd)
  BY <1>3, <1>7 DEF Command, Covers, Actions
<1> QED BY <1>1, <1>2, <1>5, <1>8

\* A public request is admitted within the permissions and the scope of its
\* context.
LEMMA PublicAdmitted ==
  ASSUME Typed, NEW a \in Calls, AdmitPublic(a)
  PROVE  \E t \in Token, cmd \in Command :
           /\ Admitted(a, t, cmd) /\ Covers(t, cmd)
           /\ t.iat <= now /\ t.grant.kind = "principal"
<1> USE AdmissionAssumption
<1>1. PICK t \in Signed, clock \in Clocks, action \in PublicActions, header \in Keys,
           body \in Bodies :
        /\ PrincipalTimeOK(t, clock)
        /\ Admitted(a, t, PublicCommand(t, action, header, body))
  BY DEF AdmitPublic
<1>2. t \in Token /\ t.iat \in Int /\ t.iat <= now /\ t.grant \in Grant
  BY DEF Signed, Token, Typed
<1>3. t.grant.sub \in Subjects /\ t.grant.svc \in Services
  BY <1>2 DEF Grant
<1> DEFINE cmd == PublicCommand(t, action, header, body)
<1>4. cmd # None
  BY <1>1 DEF Admitted
<1>5. /\ t.grant.kind = "principal" /\ action \in t.grant.allows
      /\ cmd = [key |-> header, svc |-> t.grant.svc, sub |-> t.grant.sub, action |-> action,
                gen |-> None, body |-> body]
  BY <1>4 DEF PublicCommand
<1>6. cmd \in Command /\ Covers(t, cmd)
  BY <1>3, <1>5 DEF Command, Covers, Actions
<1> QED BY <1>1, <1>2, <1>5, <1>6

\* What a receipt never loses: its command, and time of its lease.
ReceiptsGrow ==
  \A k \in Keys : receipts[k] # None =>
    /\ receipts'[k] # None
    /\ receipts'[k].cmd = receipts[k].cmd
    /\ receipts'[k].lease >= receipts[k].lease \/ receipts'[k].lease >= now + Lease

\* A step leaves request b as it was, or only moves its pc among the states
\* that follow the claim.
Same(b) ==
  \/ calls'[b] = calls[b]
  \/ /\ calls[b] # None /\ calls'[b] # None
     /\ calls[b].pc # "admitted" /\ calls'[b].pc # "admitted"
     /\ calls'[b].cmd = calls[b].cmd /\ calls'[b].token = calls[b].token
     /\ calls'[b].admitted = calls[b].admitted /\ calls'[b].claimed = calls[b].claimed

\* What a step does to a request: it arrives, it executes, it is forgotten, or
\* it stays.
RequestStep(b) ==
  \/ Same(b)
  \/ calls'[b] = None
  \/ \E t \in Token, cmd \in Command :
       /\ Covers(t, cmd) /\ t.iat <= now /\ now' = now
       /\ t.grant.kind = "provider" => now <= t.iat + AdmittedWithin
       /\ calls'[b] = [pc |-> "admitted", cmd |-> cmd, token |-> t, admitted |-> now,
                       claimed |-> None]
  \/ /\ calls[b] # None /\ calls[b].pc = "admitted" /\ now' = now
     /\ MayClaim(receipts[calls[b].cmd.key], calls[b].cmd)
     /\ calls'[b] = [calls[b] EXCEPT !.pc = "running", !.claimed = now]
     /\ receipts'[calls[b].cmd.key] = [cmd |-> calls[b].cmd, owner |-> b,
                                       state |-> "in_progress", lease |-> now + Lease]
     /\ \A c \in Calls \ {b} : calls'[c] = calls[c]


\* An owner's update of its receipt keeps the type, the command and the lease.
LEMMA OwnerUpdates ==
  ASSUME Typed, NEW a \in Calls, NEW row, Owns(a), row \in Receipt,
         row.cmd = receipts[calls[a].cmd.key].cmd,
         \/ row.lease = receipts[calls[a].cmd.key].lease
         \/ row.lease = now + Lease,
         receipts' = [receipts EXCEPT ![calls[a].cmd.key] = row]
  PROVE  ReceiptsGrow /\ receipts' \in [Keys -> Receipt \cup {None}]
<1> USE AdmissionAssumption
<1>1. calls[a].cmd.key \in Keys /\ now \in Int
  BY DEF Owns, Typed, Call, Command
<1>2. row # None
  BY NoRowAssumption
<1>3. \A k \in Keys : receipts[k] # None => receipts[k].lease \in Int
  BY DEF Typed, Receipt
<1> QED BY <1>1, <1>2, <1>3 DEF Typed, ReceiptsGrow

\* An owner's receipt is one.
LEMMA OwnerHasReceipt ==
  ASSUME AdmissionInv, NEW a \in Calls, Owns(a)
  PROVE  receipts[calls[a].cmd.key] \in Receipt
<1>1. calls[a].cmd.key \in Keys
  BY DEF Owns, AdmissionInv, Typed, Call, Command
<1>2. Executed(a)
  BY AdmissionAssumption DEF Owns, AdmissionInv, Vouched, Executed
<1> QED BY <1>1, <1>2 DEF AdmissionInv, Leased, Typed

\* Every step is a RequestStep for every request, and no receipt loses
\* anything.
LEMMA NextRequestStep ==
  ASSUME AdmissionInv, [Next]_vars
  PROVE  /\ Typed' /\ now <= now' /\ ReceiptsGrow
         /\ \A b \in Calls : RequestStep(b)
<1> USE AdmissionAssumption
<1>0. /\ Typed /\ now \in Int /\ (UNCHANGED now => now <= now')
      /\ \A k \in Keys : receipts[k] # None => receipts[k].lease \in Int
  BY DEF AdmissionInv, Typed, Receipt
<1> DEFINE Goal == /\ Typed' /\ now <= now' /\ ReceiptsGrow
                   /\ \A b \in Calls : RequestStep(b)
<1>1. ASSUME UNCHANGED receipts
      PROVE  ReceiptsGrow /\ receipts' \in [Keys -> Receipt \cup {None}]
  BY <1>0, <1>1 DEF ReceiptsGrow, Typed
<1>2. ASSUME UNCHANGED calls
      PROVE  /\ calls' \in [Calls -> Call \cup {None}]
             /\ \A b \in Calls : RequestStep(b)
  BY <1>0, <1>2 DEF RequestStep, Same, Typed
<1>3. CASE UNCHANGED vars
  BY <1>0, <1>1, <1>2, <1>3 DEF vars, Typed
<1>4. CASE Tick
  BY <1>0, <1>1, <1>2, <1>4 DEF Tick, Typed
<1>5. ASSUME NEW a \in Calls, NEW t \in Token, NEW cmd \in Command, Admitted(a, t, cmd),
             Covers(t, cmd), t.iat <= now,
             t.grant.kind = "provider" => now <= t.iat + AdmittedWithin
      PROVE  Goal
  <2> DEFINE row == [pc |-> "admitted", cmd |-> cmd, token |-> t, admitted |-> now,
                     claimed |-> None]
  <2>1. row \in Call
    BY <1>0 DEF Call
  <2>2. calls' = [calls EXCEPT ![a] = row] /\ UNCHANGED <<now, receipts>>
    BY <1>5 DEF Admitted
  <2>3. calls' \in [Calls -> Call \cup {None}] /\ calls'[a] = row
    BY <1>0, <2>1, <2>2 DEF Typed
  <2>4. RequestStep(a)
    BY <1>5, <2>2, <2>3 DEF RequestStep
  <2>5. \A b \in Calls \ {a} : RequestStep(b)
    BY <1>0, <2>2 DEF RequestStep, Same, Typed
  <2> QED BY <1>0, <1>1, <2>2, <2>3, <2>4, <2>5 DEF Typed
<1>6. ASSUME NEW a \in Calls, AdmitProvider(a) \/ AdmitPublic(a)
      PROVE  Goal
  BY <1>0, <1>5, <1>6, ProviderAdmitted, PublicAdmitted
<1>7. ASSUME NEW a \in Calls, NEW row \in Call, calls[a] # None,
             calls' = [calls EXCEPT ![a] = row]
      PROVE  /\ calls' \in [Calls -> Call \cup {None}]
             /\ calls'[a] = row
             /\ \A b \in Calls \ {a} : calls'[b] = calls[b] /\ RequestStep(b)
  BY <1>0, <1>7 DEF Typed, RequestStep, Same
<1>8. ASSUME NEW a \in Calls, Claim(a)
      PROVE  Goal
  <2>1. /\ calls[a] \in Call /\ calls[a] # None /\ calls[a].pc = "admitted"
        /\ calls[a].cmd \in Command /\ calls[a].cmd.key \in Keys
    BY <1>0, <1>8 DEF Claim, Typed, Call, Command
  <2> DEFINE key == calls[a].cmd.key
             receipt == [cmd |-> calls[a].cmd, owner |-> a, state |-> "in_progress",
                         lease |-> now + Lease]
             row == [calls[a] EXCEPT !.pc = "running", !.claimed = now]
  <2>2. /\ MayClaim(receipts[key], calls[a].cmd)
        /\ receipts' = [receipts EXCEPT ![key] = receipt]
        /\ calls' = [calls EXCEPT ![a] = row] /\ now' = now
    BY <1>8 DEF Claim
  <2>3. receipt \in Receipt /\ receipt # None /\ receipt.cmd = calls[a].cmd
        /\ receipt.lease = now + Lease
    BY <1>0, <2>1, NoRowAssumption DEF Receipt
  <2>4. row \in Call
    BY <1>0, <2>1 DEF Call
  <2>5. /\ receipts' \in [Keys -> Receipt \cup {None}] /\ receipts'[key] = receipt
        /\ \A k \in Keys \ {key} : receipts'[k] = receipts[k]
    BY <1>0, <2>1, <2>2, <2>3 DEF Typed
  <2>6. ReceiptsGrow
    BY <1>0, <2>1, <2>2, <2>3, <2>5 DEF ReceiptsGrow, MayClaim
  <2>7. calls'[a] = row /\ \A b \in Calls \ {a} : calls'[b] = calls[b]
    BY <1>7, <2>1, <2>2, <2>4
  <2>8. RequestStep(a)
    BY <2>1, <2>2, <2>5, <2>7 DEF RequestStep
  <2> QED BY <1>0, <1>7, <2>1, <2>2, <2>4, <2>5, <2>6, <2>8 DEF Typed
<1>9. ASSUME NEW a \in Calls, Renew(a)
      PROVE  Goal
  <2> DEFINE key == calls[a].cmd.key
             row == [receipts[key] EXCEPT !.lease = now + Lease]
  <2>1. /\ Owns(a) /\ receipts' = [receipts EXCEPT ![key] = row] /\ UNCHANGED <<now, calls>>
        /\ receipts[key] \in Receipt
    BY <1>9, OwnerHasReceipt DEF Renew
  <2>2. row \in Receipt /\ row.cmd = receipts[key].cmd /\ row.lease = now + Lease
    BY <1>0, <2>1 DEF Receipt
  <2> HIDE DEF row
  <2>3. ReceiptsGrow /\ receipts' \in [Keys -> Receipt \cup {None}]
    BY <1>0, <2>1, <2>2, OwnerUpdates
  <2> QED BY <1>0, <1>2, <2>1, <2>3 DEF Typed
<1>10. ASSUME NEW a \in Calls, NEW pc \in {"finished", "stopped"}, calls[a] # None,
              calls[a].pc = "running", calls' = [calls EXCEPT ![a] = [@ EXCEPT !.pc = pc]]
       PROVE  /\ calls' \in [Calls -> Call \cup {None}]
              /\ \A b \in Calls : RequestStep(b)
  <2> DEFINE row == [calls[a] EXCEPT !.pc = pc]
  <2>1. calls[a] \in Call
    BY <1>0, <1>10 DEF Typed
  <2>2. /\ row \in Call /\ row # None /\ row.pc = pc
        /\ row.cmd = calls[a].cmd /\ row.token = calls[a].token
        /\ row.admitted = calls[a].admitted /\ row.claimed = calls[a].claimed
    BY <2>1, NoRowAssumption DEF Call
  <2>3. calls' = [calls EXCEPT ![a] = row]
    BY <1>10
  <2> HIDE DEF row
  <2>4. RequestStep(a)
    BY <1>7, <1>10, <2>2, <2>3 DEF RequestStep, Same
  <2> QED BY <1>7, <1>10, <2>2, <2>3, <2>4
<1>11. ASSUME NEW a \in Calls, Finish(a)
       PROVE  Goal
  <2> DEFINE key == calls[a].cmd.key
             row == [receipts[key] EXCEPT !.state = "done"]
  <2>1. /\ Owns(a) /\ receipts' = [receipts EXCEPT ![key] = row] /\ now' = now
        /\ receipts[key] \in Receipt
    BY <1>11, OwnerHasReceipt DEF Finish
  <2>2. row \in Receipt /\ row.cmd = receipts[key].cmd /\ row.lease = receipts[key].lease
    BY <2>1 DEF Receipt
  <2> HIDE DEF row
  <2>3. ReceiptsGrow /\ receipts' \in [Keys -> Receipt \cup {None}]
    BY <1>0, <2>1, <2>2, OwnerUpdates
  <2>4. calls' \in [Calls -> Call \cup {None}] /\ \A b \in Calls : RequestStep(b)
    BY <1>10, <1>11 DEF Finish, Owns
  <2> QED BY <1>0, <2>1, <2>3, <2>4 DEF Typed
<1>12. ASSUME NEW a \in Calls, Stop(a)
       PROVE  Goal
  <2>1. calls' \in [Calls -> Call \cup {None}] /\ \A b \in Calls : RequestStep(b)
    BY <1>10, <1>12 DEF Stop
  <2> QED BY <1>0, <1>1, <1>12, <2>1 DEF Stop, Typed
<1>13. ASSUME NEW a \in Calls, Dismiss(a)
       PROVE  Goal
  BY <1>0, <1>1, <1>13 DEF Dismiss, Typed, RequestStep, Same
<1> HIDE DEF Goal
<1>14. Goal
  BY <1>3, <1>4, <1>6, <1>8, <1>9, <1>11, <1>12, <1>13 DEF Next, Goal
<1> QED BY <1>14 DEF Goal

-----------------------------------------------------------------------------
(* The invariant is inductive *)

\* The types that Vouched speaks of.
LEMMA RequestTyped ==
  Typed => \A b \in Calls : calls[b] # None =>
    /\ calls[b] \in Call /\ calls[b].cmd.key \in Keys
    /\ calls[b].token.iat \in Int /\ calls[b].admitted \in Int
    /\ calls[b].pc \in {"admitted", "running", "finished", "stopped"}
BY DEF Typed, Call, Command, Token

\* A request has executed when it is past the claim.
LEMMA ExecutedIs ==
  \A b \in Calls : Vouched(b) /\ calls[b] # None => (Executed(b) <=> calls[b].pc # "admitted")
BY AdmissionAssumption DEF Vouched, Executed

\* A request keeps what is known of it.
LEMMA VouchedStep ==
  ASSUME AdmissionInv, Typed', now <= now', NEW b \in Calls, RequestStep(b)
  PROVE  Vouched(b)'
<1> USE AdmissionAssumption
<1>0. Typed /\ Vouched(b) /\ now \in Int /\ now' \in Int /\ AdmittedWithin \in Int
  BY DEF AdmissionInv, Typed, AdmittedWithin
<1>1. CASE Same(b)
  <2>1. CASE calls'[b] = calls[b]
    <3>1. CASE calls[b] = None
      BY <2>1, <3>1 DEF Vouched
    <3>2. CASE calls[b] # None
      <4>1. calls[b].admitted \in Int
        BY <1>0, <3>2, RequestTyped
      <4>2. calls[b].admitted <= now'
        BY <1>0, <3>2, <4>1 DEF Vouched
      <4>3. calls[b].pc # "admitted" => calls[b].claimed <= now'
        BY <1>0, <3>2 DEF Vouched
      <4> QED BY <1>0, <2>1, <3>2, <4>2, <4>3 DEF Vouched, Covers, AdmittedWithin
    <3> QED BY <3>1, <3>2
  <2>2. CASE calls'[b] # calls[b]
    <3>1. /\ calls[b] # None /\ calls'[b] # None
          /\ calls[b].pc # "admitted" /\ calls'[b].pc # "admitted"
          /\ calls'[b].cmd = calls[b].cmd /\ calls'[b].token = calls[b].token
          /\ calls'[b].admitted = calls[b].admitted /\ calls'[b].claimed = calls[b].claimed
      BY <1>1, <2>2 DEF Same
    <3>2. /\ Covers(calls[b].token, calls[b].cmd)
          /\ calls[b].token.iat <= calls[b].admitted /\ calls[b].admitted <= now
          /\ calls[b].token.grant.kind = "provider" =>
               calls[b].admitted <= calls[b].token.iat + AdmittedWithin
          /\ calls[b].claimed \in Int
          /\ calls[b].admitted <= calls[b].claimed /\ calls[b].claimed <= now
      BY <1>0, <3>1 DEF Vouched
    <3>3. calls[b].admitted \in Int
      BY <1>0, <3>1, RequestTyped
    <3>4. calls[b].claimed <= now' /\ calls[b].admitted <= now'
      BY <1>0, <3>2, <3>3
    <3>5. Covers(calls'[b].token, calls'[b].cmd)
      BY <3>1, <3>2
    <3> QED BY <3>1, <3>2, <3>4, <3>5 DEF Vouched, AdmittedWithin
  <2> QED BY <2>1, <2>2
<1>2. CASE calls'[b] = None
  BY <1>2 DEF Vouched
<1>3. ASSUME NEW t \in Token, NEW cmd \in Command, Covers(t, cmd), t.iat <= now, now' = now,
             t.grant.kind = "provider" => now <= t.iat + AdmittedWithin,
             calls'[b] = [pc |-> "admitted", cmd |-> cmd, token |-> t, admitted |-> now,
                          claimed |-> None]
      PROVE  Vouched(b)'
  <2>1. /\ calls'[b].pc = "admitted" /\ calls'[b].cmd = cmd /\ calls'[b].token = t
        /\ calls'[b].admitted = now /\ calls'[b].claimed = None
    BY <1>3
  <2>2. Covers(calls'[b].token, calls'[b].cmd)
    BY <1>3, <2>1
  <2> QED BY <1>0, <1>3, <2>1, <2>2 DEF Vouched, AdmittedWithin
<1>4. ASSUME calls[b] # None, calls[b].pc = "admitted", now' = now,
             calls'[b] = [calls[b] EXCEPT !.pc = "running", !.claimed = now]
      PROVE  Vouched(b)'
  <2>1. calls[b] \in Call
    BY <1>0, <1>4, RequestTyped
  <2>2. /\ calls'[b].pc = "running" /\ calls'[b].cmd = calls[b].cmd
        /\ calls'[b].token = calls[b].token
        /\ calls'[b].admitted = calls[b].admitted /\ calls'[b].claimed = now
    BY <1>4, <2>1 DEF Call
  <2>3. /\ Covers(calls[b].token, calls[b].cmd)
        /\ calls[b].token.iat <= calls[b].admitted /\ calls[b].admitted <= now
        /\ calls[b].token.grant.kind = "provider" =>
             calls[b].admitted <= calls[b].token.iat + AdmittedWithin
    BY <1>0, <1>4 DEF Vouched
  <2>4. Covers(calls'[b].token, calls'[b].cmd)
    BY <2>2, <2>3
  <2> QED BY <1>0, <1>4, <2>2, <2>3, <2>4 DEF Vouched, AdmittedWithin
<1> QED BY <1>1, <1>2, <1>3, <1>4 DEF RequestStep

\* The receipt of a key remembers every execution of it.
LEMMA LeasedStep ==
  ASSUME AdmissionInv, Typed', now <= now', ReceiptsGrow, NEW b \in Calls, RequestStep(b)
  PROVE  Leased(b)'
<1> USE AdmissionAssumption
<1>0. Typed /\ Vouched(b) /\ Leased(b) /\ now \in Int
  BY DEF AdmissionInv, Typed
<1>1. ASSUME Same(b), Executed(b)'
      PROVE  Leased(b)'
  <2>1. /\ Executed(b) /\ calls'[b].cmd = calls[b].cmd /\ calls'[b].claimed = calls[b].claimed
    BY <1>1 DEF Same, Executed
  <2>2. calls[b] # None /\ calls[b].claimed # None
    BY <2>1 DEF Executed
  <2>3. calls[b].cmd.key \in Keys /\ calls[b].pc # "admitted"
    BY <1>0, <2>2, RequestTyped DEF Vouched
  <2>4. calls[b].claimed \in Int /\ calls[b].claimed <= now
    BY <1>0, <2>2, <2>3 DEF Vouched
  <2> DEFINE key == calls[b].cmd.key
  <2>5. /\ receipts[key] # None /\ receipts[key].cmd = calls[b].cmd
        /\ receipts[key].lease >= calls[b].claimed + Lease
    BY <1>0, <2>1 DEF Leased
  <2>6. /\ receipts'[key] # None /\ receipts'[key].cmd = receipts[key].cmd
        /\ receipts'[key].lease >= receipts[key].lease \/ receipts'[key].lease >= now + Lease
    BY <2>3, <2>5 DEF ReceiptsGrow
  <2>7. receipts[key].lease \in Int /\ receipts'[key].lease \in Int
    BY <1>0, <2>3, <2>5, <2>6 DEF Typed, Receipt
  <2>8. receipts'[key].lease >= calls[b].claimed + Lease
    BY <1>0, <2>4, <2>5, <2>6, <2>7
  <2> QED BY <2>1, <2>5, <2>6, <2>8 DEF Leased
<1>2. ASSUME calls'[b] = None
      PROVE  ~Executed(b)'
  BY <1>2 DEF Executed
<1>3. ASSUME NEW t, NEW cmd,
             calls'[b] = [pc |-> "admitted", cmd |-> cmd, token |-> t, admitted |-> now,
                          claimed |-> None]
      PROVE  ~Executed(b)'
  BY <1>3 DEF Executed
<1>4. ASSUME calls[b] # None, NEW receipt,
             receipt = [cmd |-> calls[b].cmd, owner |-> b, state |-> "in_progress",
                        lease |-> now + Lease],
             calls'[b] = [calls[b] EXCEPT !.pc = "running", !.claimed = now],
             receipts'[calls[b].cmd.key] = receipt
      PROVE  Leased(b)'
  <2>1. calls[b] \in Call /\ calls[b].cmd.key \in Keys
    BY <1>0, <1>4, RequestTyped
  <2>2. calls'[b].cmd = calls[b].cmd /\ calls'[b].claimed = now
    BY <1>4, <2>1 DEF Call
  <2>3. receipt \in Receipt /\ receipt.cmd = calls[b].cmd /\ receipt.lease = now + Lease
    BY <1>0, <1>4, <2>1 DEF Call, Receipt
  <2>4. receipt # None
    BY <2>3, NoRowAssumption
  <2> QED BY <1>0, <1>4, <2>2, <2>3, <2>4 DEF Leased
<1>5. CASE ~Executed(b)'
  BY <1>5 DEF Leased
<1> QED BY <1>1, <1>2, <1>3, <1>4, <1>5 DEF RequestStep

\* Request b claims its operation.
Claims(b) ==
  /\ calls[b] # None
  /\ MayClaim(receipts[calls[b].cmd.key], calls[b].cmd)
  /\ calls'[b].cmd = calls[b].cmd /\ calls'[b].claimed = now
  /\ \A c \in Calls \ {b} : calls'[c] = calls[c]

\* Who has executed after a step has executed before it, or claims in it.
LEMMA ExecutionStep ==
  ASSUME AdmissionInv, NEW b \in Calls, RequestStep(b), Executed(b)'
  PROVE  \/ /\ Executed(b) /\ calls'[b].cmd = calls[b].cmd
            /\ calls'[b].claimed = calls[b].claimed
         \/ Claims(b)
<1>1. CASE Same(b)
  BY <1>1 DEF Same, Executed
<1>2. CASE calls'[b] = None
  BY <1>2 DEF Executed
<1>3. ASSUME NEW t, NEW cmd,
             calls'[b] = [pc |-> "admitted", cmd |-> cmd, token |-> t, admitted |-> now,
                          claimed |-> None]
      PROVE  FALSE
  BY <1>3 DEF Executed
<1>4. ASSUME calls[b] # None, calls'[b] = [calls[b] EXCEPT !.pc = "running", !.claimed = now]
      PROVE  calls'[b].cmd = calls[b].cmd /\ calls'[b].claimed = now
  BY <1>4, RequestTyped DEF AdmissionInv, Call
<1> QED BY <1>1, <1>2, <1>3, <1>4 DEF RequestStep, Claims

\* Whoever claims an operation that was executed before has waited for the
\* lease of that execution.
LEMMA ClaimsLater ==
  ASSUME AdmissionInv, NEW a \in Calls, NEW b \in Calls, Executed(a), Claims(b),
         calls[a].cmd.key = calls[b].cmd.key
  PROVE  calls[a].claimed + Lease <= now
<1> USE AdmissionAssumption
<1>0. Typed /\ Vouched(a) /\ Leased(a) /\ now \in Int
  BY DEF AdmissionInv, Typed
<1>1. calls[a] # None /\ calls[a].pc # "admitted"
  BY <1>0, ExecutedIs DEF Executed
<1>2. calls[a].cmd.key \in Keys /\ calls[a].claimed \in Int
  BY <1>0, <1>1, RequestTyped DEF Vouched
<1>3. /\ receipts[calls[a].cmd.key] # None
      /\ receipts[calls[a].cmd.key].lease >= calls[a].claimed + Lease
  BY <1>0 DEF Leased
<1>4. receipts[calls[a].cmd.key].lease <= now
  BY <1>3 DEF Claims, MayClaim
<1>5. receipts[calls[a].cmd.key].lease \in Int
  BY <1>0, <1>2, <1>3 DEF Typed, Receipt
<1> QED BY <1>0, <1>2, <1>3, <1>4, <1>5

\* The invariant holds when the service starts.
LEMMA AdmissionInvInit == Init => AdmissionInv
BY AdmissionAssumption DEF Init, AdmissionInv, Typed, Vouched, Leased, Executed,
   ExecutionsLeaseApart

\* Every step keeps it.
LEMMA AdmissionInvNext ==
  ASSUME AdmissionInv, [Next]_vars
  PROVE  AdmissionInv'
<1>1. /\ Typed' /\ now <= now' /\ ReceiptsGrow
      /\ \A b \in Calls : RequestStep(b)
  BY NextRequestStep
<1>2. \A b \in Calls : Vouched(b)' /\ Leased(b)'
  BY <1>1, VouchedStep, LeasedStep
<1>3. ASSUME NEW a \in Calls, NEW b \in Calls, Executed(a)', Executed(b)', a # b,
             calls'[a].cmd.key = calls'[b].cmd.key
      PROVE  \/ calls'[a].claimed + Lease <= calls'[b].claimed
             \/ calls'[b].claimed + Lease <= calls'[a].claimed
  <2>1. /\ \/ /\ Executed(a) /\ calls'[a].cmd = calls[a].cmd
              /\ calls'[a].claimed = calls[a].claimed
           \/ Claims(a)
        /\ \/ /\ Executed(b) /\ calls'[b].cmd = calls[b].cmd
              /\ calls'[b].claimed = calls[b].claimed
           \/ Claims(b)
    BY <1>1, <1>3, ExecutionStep
  <2>2. CASE Claims(a)
    <3>1. calls'[b] = calls[b] /\ calls'[a].cmd = calls[a].cmd /\ calls'[a].claimed = now
      BY <1>3, <2>2 DEF Claims
    <3>2. Executed(b)
      BY <1>3, <3>1 DEF Executed
    <3>3. calls[b].claimed + Lease <= now
      BY <1>3, <2>2, <3>1, <3>2, ClaimsLater
    <3> QED BY <3>1, <3>3
  <2>3. CASE Claims(b)
    <3>1. calls'[a] = calls[a] /\ calls'[b].cmd = calls[b].cmd /\ calls'[b].claimed = now
      BY <1>3, <2>3 DEF Claims
    <3>2. Executed(a)
      BY <1>3, <3>1 DEF Executed
    <3>3. calls[a].claimed + Lease <= now
      BY <1>3, <2>3, <3>1, <3>2, ClaimsLater
    <3> QED BY <3>1, <3>3
  <2>4. CASE ~Claims(a) /\ ~Claims(b)
    BY <1>3, <2>1, <2>4 DEF AdmissionInv, ExecutionsLeaseApart
  <2> QED BY <2>2, <2>3, <2>4
<1>4. ExecutionsLeaseApart'
  BY <1>3 DEF ExecutionsLeaseApart
<1> QED BY <1>1, <1>2, <1>4 DEF AdmissionInv

-----------------------------------------------------------------------------
(* Theorems *)

\* It holds in every reachable state.
LEMMA AdmissionInvAlways == Spec => []AdmissionInv
<1>1. AdmissionInv /\ [Next]_vars => AdmissionInv'
  BY AdmissionInvNext
<1> QED BY <1>1, AdmissionInvInit, PTL DEF Spec

\* Receipts and requests have their types; no request was admitted before its
\* token was signed, and it has the time of a claim from the claim on.
THEOREM AdmissionTypeCorrect == Spec => []AdmissionTypeOK
<1>1. ASSUME AdmissionInv
      PROVE  AdmissionTypeOK
  <2>1. Typed /\ now \in Int /\ \A a \in Calls : Vouched(a)
    BY <1>1 DEF AdmissionInv, Typed
  <2>2. ASSUME NEW a \in Calls, calls[a] # None
        PROVE  /\ calls[a].token.iat <= calls[a].admitted /\ calls[a].admitted <= now
               /\ calls[a].pc = "admitted" <=> calls[a].claimed = None
    <3>1. Vouched(a) /\ calls[a].token.iat \in Int
      BY <2>1, <2>2, RequestTyped
    <3>2. CASE calls[a].pc = "admitted"
      BY <2>1, <2>2, <3>1, <3>2, AdmissionAssumption DEF Vouched
    <3>3. CASE calls[a].pc # "admitted"
      BY <2>1, <2>2, <3>1, <3>3, AdmissionAssumption DEF Vouched
    <3> QED BY <3>2, <3>3
  <2> QED BY <2>1, <2>2 DEF AdmissionTypeOK, Typed
<1> QED BY <1>1, AdmissionInvAlways, PTL

\* However path, query, Idempotency-Key and tokens are mixed, and whoever
\* takes an operation over, all executions of a key are of one command, and
\* each is covered by the signature it came with.
THEOREM ExecutionsAlwaysSigned == Spec => []ExecutionsAreSigned
<1>1. ASSUME AdmissionInv
      PROVE  ExecutionsAreSigned
  BY <1>1 DEF AdmissionInv, Vouched, Leased, Executed, ExecutionsAreSigned
<1> QED BY <1>1, AdmissionInvAlways, PTL

\* Whoever renews, stops or takes over: the executions of one key begin at
\* least a lease apart.
THEOREM ExecutionsStayLeaseApart == Spec => []ExecutionsLeaseApart
<1>1. AdmissionInv => ExecutionsLeaseApart
  BY DEF AdmissionInv
<1> QED BY <1>1, AdmissionInvAlways, PTL

\* A JWT starts a second execution only in a request that was admitted in time
\* and then held up, before its claim, for what a lease is longer than the
\* lifetime of a JWT and all tolerances.
THEOREM RepeatedTokensWereDelayed == Spec => []RepeatedTokenWasDelayed
<1>1. ASSUME AdmissionInv
      PROVE  RepeatedTokenWasDelayed
  <2> SUFFICES ASSUME NEW a \in Calls, NEW b \in Calls, Executed(a), Executed(b), a # b,
                      calls[a].token = calls[b].token,
                      calls[a].token.grant.kind = "provider",
                      calls[a].claimed <= calls[b].claimed
               PROVE  calls[b].claimed - calls[b].admitted
                        >= Lease - (ProviderTTL + ProviderSkew + Drift)
    BY DEF RepeatedTokenWasDelayed
  <2>1. Typed /\ Vouched(a) /\ Vouched(b) /\ calls[a] # None /\ calls[b] # None
    BY <1>1 DEF AdmissionInv, Executed
  <2>2. calls[a].pc # "admitted" /\ calls[b].pc # "admitted"
    BY <2>1, ExecutedIs
  <2>3. calls[a].token.iat \in Int /\ calls[a].admitted \in Int /\ calls[b].admitted \in Int
    BY <2>1, RequestTyped
  <2>4. /\ calls[a].claimed \in Int /\ Covers(calls[a].token, calls[a].cmd)
        /\ calls[a].token.iat <= calls[a].admitted /\ calls[a].admitted <= calls[a].claimed
    BY <2>1, <2>2 DEF Vouched
  <2>5. /\ calls[b].claimed \in Int /\ Covers(calls[b].token, calls[b].cmd)
        /\ calls[b].admitted <= calls[a].token.iat + AdmittedWithin
    BY <2>1, <2>2 DEF Vouched
  <2>6. calls[a].cmd.key = calls[b].cmd.key
    BY <2>4, <2>5 DEF Covers
  <2>7. \/ calls[a].claimed + Lease <= calls[b].claimed
        \/ calls[b].claimed + Lease <= calls[a].claimed
    BY <1>1, <2>6 DEF AdmissionInv, ExecutionsLeaseApart
  <2>8. calls[a].claimed + Lease <= calls[b].claimed
    BY <2>4, <2>5, <2>7, AdmissionAssumption
  <2> QED BY <2>3, <2>4, <2>5, <2>8, AdmissionAssumption DEF AdmittedWithin
<1> QED BY <1>1, AdmissionInvAlways, PTL

\* No replica refuses a token for its times while it is valid by the issuer's
\* clock and of proper lifetime: the skews cover the drift.
THEOREM ValidTokensAlwaysAccepted == Spec => []ValidTokensAreAccepted
<1>1. ASSUME AdmissionInv
      PROVE  ValidTokensAreAccepted
  <2> USE AdmissionAssumption
  <2> SUFFICES ASSUME NEW t \in Signed, NEW clock \in Clocks
               PROVE  /\ /\ t.grant.kind = "provider" /\ t.grant.ttl \in 1..ProviderTTL
                         /\ t.iat <= now /\ now <= Exp(t)
                         => ProviderTimeOK(t, clock)
                      /\ /\ t.grant.kind = "principal" /\ t.grant.ttl \in 1..PrincipalTTL
                         /\ t.iat <= now /\ now < Exp(t)
                         => PrincipalTimeOK(t, clock)
    BY DEF ValidTokensAreAccepted
  <2>1. now \in Int /\ t.iat \in Int
    BY <1>1 DEF AdmissionInv, Typed, Signed
  <2>2. clock \in Int /\ clock <= now + Drift /\ now <= clock + Drift
    BY <2>1 DEF Clocks
  <2>3. ASSUME t.grant.ttl \in 1..ProviderTTL, t.iat <= now, now <= Exp(t)
        PROVE  ProviderTimeOK(t, clock)
    BY <2>1, <2>2, <2>3 DEF ProviderTimeOK, Exp
  <2>4. ASSUME t.grant.ttl \in 1..PrincipalTTL, t.iat <= now, now < Exp(t)
        PROVE  PrincipalTimeOK(t, clock)
    BY <2>1, <2>2, <2>4 DEF PrincipalTimeOK, Exp
  <2> QED BY <2>3, <2>4
<1> QED BY <1>1, AdmissionInvAlways, PTL

=============================================================================
