-------------------------- MODULE SyouyuRefinement --------------------------
(***************************************************************************)
(* Syouyu keeps the promise of OperationPromise.                           *)
(***************************************************************************)
EXTENDS Syouyu

\* The operation in progress on the service; SingleOperation makes it unique.
Holder(s) ==
  LET running == {k \in Keys : InProgress(k) /\ receipts[k].req.svc = s}
  IN IF running = {} THEN None ELSE CHOOSE k \in running : TRUE

Decision(k) == IF receipts[k] = None THEN None ELSE receipts[k].resp

\* The rows of a service: its instance, its bucket and its credentials.
Records(s) ==
  (IF services[s] = None THEN {} ELSE {<<"service", services[s]>>})
  \cup (IF buckets[s] = None THEN {} ELSE {<<"bucket", buckets[s]>>})
  \cup {<<c, creds[c]>> : c \in {d \in Keys : creds[d] # None /\ creds[d].svc = s}}

Promise == INSTANCE OperationPromise WITH
  holder <- [s \in Services |-> Holder(s)],
  decision <- [k \in Keys |-> Decision(k)],
  answer <- [a \in Attempts |-> reply[a].resp],
  records <- [s \in Services |-> Records(s)]

\* Every behaviour of the handlers, with their takeovers, crashes, lost
\* answers and late attempts, is a behaviour of OperationPromise: each key is
\* decided once, under the hold of its service, and rows of a service change
\* with a successful decision only.
KeepsPromise == Promise!PromiseSpec

=============================================================================
