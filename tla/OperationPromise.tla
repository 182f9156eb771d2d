-------------------------- MODULE OperationPromise --------------------------
(***************************************************************************)
(* What Syouyu promises about its operations, without leases, retries,     *)
(* crashes or Garage: a key is decided once; every final answer for it is  *)
(* the decision; one operation at a time holds a service; and the records  *)
(* of a service change only in the step that decides the operation         *)
(* holding it, and not when that operation failed.                         *)
(***************************************************************************)
EXTENDS Domain

VARIABLES
  holder,    \* the key whose operation holds each service
  decision,  \* the response stored for each key
  answer,    \* the final answer each attempt gave
  records    \* the rows of each service

promiseVars == <<holder, decision, answer, records>>

PromiseInit ==
  /\ holder = [s \in Services |-> None]
  /\ decision = [k \in Keys |-> None]
  /\ answer = [a \in Attempts |-> None]
  /\ records = [s \in Services |-> {}]

\* An operation begins: its key is new and the service is free.
Begin(s, k) ==
  /\ holder[s] = None
  /\ decision[k] = None
  /\ \A t \in Services : holder[t] # k
  /\ holder' = [holder EXCEPT ![s] = k]
  /\ UNCHANGED <<decision, answer, records>>

\* Attempt a decides the operation that holds s, and may answer its client.
Decide(s, k, a, failed) ==
  LET resp == [by |-> a, failed |-> failed]
  IN /\ holder[s] = k
     /\ decision[k] = None
     /\ holder' = [holder EXCEPT ![s] = None]
     /\ decision' = [decision EXCEPT ![k] = resp]
     /\ answer' \in {answer, [answer EXCEPT ![a] = resp]}
     /\ \A t \in Services : t # s \/ failed => records'[t] = records[t]

\* An attempt repeats a decision.
Repeat(a, k) ==
  /\ answer[a] = None
  /\ decision[k] # None
  /\ answer' = [answer EXCEPT ![a] = decision[k]]
  /\ UNCHANGED <<holder, decision, records>>

PromiseNext ==
  \/ \E s \in Services, k \in Keys : Begin(s, k)
  \/ \E s \in Services, k \in Keys, a \in Attempts, failed \in BOOLEAN :
       Decide(s, k, a, failed)
  \/ \E a \in Attempts, k \in Keys : Repeat(a, k)

PromiseSpec == PromiseInit /\ [][PromiseNext]_promiseVars

=============================================================================
