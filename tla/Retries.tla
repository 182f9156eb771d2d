------------------------------- MODULE Retries -------------------------------
(***************************************************************************)
(* Syouyu with clients that repeat a request under its idempotency key     *)
(* until they have a final answer, as 503 operation_in_progress with       *)
(* Retry-After asks them to.                                               *)
(*                                                                         *)
(* The number of requests is unbounded: the name of an execution that has  *)
(* ended and left no trace is used again for a later one.  Faults are      *)
(* bounded: executions that end without a trace, and executions that are   *)
(* slower than their lease.  A course says which requests the clients of a *)
(* behaviour have, and how many faults it meets.                           *)
(***************************************************************************)
EXTENDS Syouyu

CONSTANT Courses

ASSUME CoursesAssumption == Courses \subseteq [requests : SUBSET Requests, faults : Nat]

VARIABLES
  wanted,         \* the requests of this behaviour's course
  faults          \* lost executions and overrun leases that may still occur

retryVars == <<vars, wanted, faults>>

Running(a) == pc[a] \notin {"idle", "done"}

\* Some row, some resource of Garage, or some other execution carries an id
\* that this execution drew.
Recorded(a) ==
  \/ gBuckets[a] # None \/ gKeys[a] # None
  \/ \E k \in Keys :
       \/ receipts[k] # None /\ receipts[k].op = a
       \/ creds[k] # None /\ creds[k].gkey = a
       \/ credRes[k] # None /\ credRes[k].op = a
  \/ \E e \in audit : e.by = a
  \/ \E s \in Services : buckets[s] # None /\ buckets[s].phys = a
  \/ \E b \in Attempts \ {a} : ctx[b].bucket = a \/ a \in ctx[b].keys

RetryInit ==
  /\ Init
  /\ \E c \in Courses : wanted = c.requests /\ faults = c.faults

\* Names that are free are all alike: one of them is used next.
FreeName == CHOOSE a \in Attempts : pc[a] = "idle"

\* A client sends its request, for the first time or again, and it is
\* executed.  A request that is answered at once, with a stored response or a
\* refusal, changes nothing but what its client knows: it is a stuttering
\* step here.
Send(r) ==
  /\ r \in wanted
  /\ \E a \in Attempts : pc[a] = "idle"
  /\ Prepare(FreeName) /\ req'[FreeName] = r /\ pc'[FreeName] # "done"
  /\ UNCHANGED <<wanted, faults>>

\* The execution goes on.
Proceed(a) == Running(a) /\ Step(a) /\ UNCHANGED <<wanted, faults>>

Fault == faults > 0 /\ faults' = faults - 1 /\ UNCHANGED wanted

Lose(a) == Fault /\ Abandon(a)

\* A lease is 120 s, and is renewed before each call to Garage, which answers
\* or fails within its timeout: an operation that is still executed loses its
\* lease only through a fault.
Overrun(k) == Fault /\ Running(receipts[k].op) /\ ExpireLease(k)

\* The lease of an execution that has ended runs out.
RunOut(k) ==
  /\ InProgress(k) /\ ~Running(receipts[k].op)
  /\ ExpireLease(k)
  /\ UNCHANGED <<wanted, faults>>

\* An execution that has ended is forgotten, and its name is free.
Forget(a) ==
  /\ pc[a] = "done" /\ ~Recorded(a)
  /\ pc' = [pc EXCEPT ![a] = "idle"]
  /\ req' = [req EXCEPT ![a] = None]
  /\ reply' = [reply EXCEPT ![a] = Plain("none")]
  /\ UNCHANGED <<ctx, storeVars, garageVars, wanted, faults>>

RetryNext ==
  \/ \E r \in Requests : Send(r)
  \/ \E a \in Attempts : Proceed(a) \/ Lose(a) \/ Forget(a)
  \/ \E k \in Keys : InProgress(k) /\ (Overrun(k) \/ RunOut(k))

\* Handlers run on, time passes, and every client repeats its request.  A
\* replica always accepts a request; that Send waits for a free name here is
\* what makes its fairness strong.
Fairness ==
  /\ \A a \in Attempts : WF_retryVars(Proceed(a))
  /\ WF_retryVars(\E a \in Attempts : Forget(a))
  /\ WF_retryVars(\E k \in Keys : InProgress(k) /\ RunOut(k))
  /\ \A r \in Requests : SF_retryVars(Send(r))

RetrySpec == RetryInit /\ [][RetryNext]_retryVars /\ Fairness

-----------------------------------------------------------------------------

\* Every operation that was begun ends with a stored response, wherever its
\* executions were lost and however often they were fenced off: again and
\* again no operation is in progress.  reject_parallel_operation, which keeps
\* a service waiting for as long as one is, does not keep it waiting for good.
OperationsFinish == []<>(\A k \in Keys : ~InProgress(k))

\* What the repository says and the code does not always keep; see the README.

Busy(s) == \E k \in Keys : InProgress(k) /\ receipts[k].req.svc = s

\* error.rs sends Retry-After with "another operation for this service is
\* still in progress": a service that refuses requests because it is busy
\* comes free again while the client of that operation repeats its request.
RetryAfterHelps == \A s \in Services : Busy(s) ~> ~Busy(s)
==============================================================================
