------------------------------- MODULE Usage -------------------------------
(***************************************************************************)
(* The read endpoints of the Syouyu API for one service: service_overview, *)
(* service_usage and list_credentials.  They take no lock and no receipt.  *)
(* Each of their statements sees what is committed when it runs, and a     *)
(* usage measurement is stored after it was taken, so that calls on        *)
(* different replicas store theirs in any order.  Meanwhile operations     *)
(* complete and S3 clients change the bucket.                              *)
(***************************************************************************)
EXTENDS Naturals, FiniteSets

CONSTANTS
  None,
  Calls,          \* executions of a read handler
  Endpoints,      \* the handlers that clients call
  Contents,       \* bytes a bucket can hold, as Garage reports them (u64)
  MaxStored,      \* the largest value a column can hold (i64::MAX)
  MaxGen,         \* bound on generations
  MaxTime         \* bound on the clock

ASSUME UsageAssumption ==
  /\ Endpoints \subseteq {"overview", "usage", "list"}
  /\ Contents \subseteq Nat /\ 0 \in Contents
  /\ MaxStored \in Nat /\ MaxGen \in Nat \ {0} /\ MaxTime \in Nat
  /\ None \notin Nat \cup BOOLEAN

VARIABLES
  clock,          \* Utc::now() on every replica
  contents,       \* bytes in the Garage bucket; None once it is deleted
  phase,          \* of the service row
  gen,            \* generation whose name is in the service row
  quotaGen,       \* generation whose quota is in the bucket row
  active,         \* is the service's credential active
  usage,          \* used_bytes and usage_measured_at of the bucket row
  snapshot,       \* the syouyu_usage_snapshots row
  call,           \* the handler executions
  history         \* auxiliary: what the bucket held, and when

rows == <<phase, gen, quotaGen, active>>
vars == <<clock, contents, phase, gen, quotaGen, active, usage, snapshot, call, history>>

Times == 0..MaxTime

Measurement == [bytes : Contents, at : Times]

\* None stands for a bucket never measured.
ASSUME NoRowAssumption == None \notin Measurement

Steps == {"idle", "service", "bucket", "measure", "stamp", "record", "exists", "list",
          "audit", "done"}

\* What a call has learnt; the fields since* are auxiliary: the time, the
\* generation and the credential when it began.
NoCall == [pc |-> "idle", endpoint |-> None, since |-> None, sinceGen |-> None,
           sinceActive |-> None, gen |-> None, quotaGen |-> None, bytes |-> None,
           at |-> None, listed |-> None, ok |-> FALSE]

UsageTypeOK ==
  /\ clock \in Times
  /\ contents \in Contents \cup {None}
  /\ phase \in {"ready", "deleted"}
  /\ gen \in 1..MaxGen /\ quotaGen = gen
  /\ active \in BOOLEAN
  /\ usage \in Measurement \cup {None}
  /\ snapshot \in Measurement \cup {None}
  /\ history \subseteq Times \X Contents
  /\ \A c \in Calls :
       /\ call[c].pc \in Steps
       /\ call[c].pc \notin {"idle", "done"} => call[c].endpoint \in Endpoints /\ call[c].since \in 0..clock
       /\ call[c].pc = "record" => call[c].at \in Times
       /\ call[c].bytes \in Contents \cup {None}
       /\ \A m \in {usage, snapshot} \ {None} : m.bytes <= MaxStored

Init ==
  /\ clock = 0
  /\ contents = 0 /\ history = {<<0, 0>>}
  /\ phase = "ready" /\ gen = 1 /\ quotaGen = 1 /\ active = TRUE
  /\ usage = None /\ snapshot = None
  /\ call = [c \in Calls |-> NoCall]

-----------------------------------------------------------------------------
(* The handlers *)

At(c, step) == call[c].pc = step

Go(c, step) == call' = [call EXCEPT ![c].pc = step]

\* The handler ends with an error.
Refuse(c) == call' = [call EXCEPT ![c] = [NoCall EXCEPT !.pc = "done"]]

First(endpoint) == IF endpoint = "list" THEN "exists" ELSE "service"

\* An authorized request arrives.
Start(c) ==
  /\ At(c, "idle")
  /\ \E e \in Endpoints :
       call' = [call EXCEPT ![c] = [NoCall EXCEPT !.pc = First(e), !.endpoint = e,
                                                  !.since = clock, !.sinceGen = gen,
                                                  !.sinceActive = active]]
  /\ UNCHANGED <<clock, contents, rows, usage, snapshot, history>>

\* PgStore::service_overview reads the service row and, with a statement of
\* its own, the bucket row.
ReadService(c) ==
  /\ At(c, "service")
  /\ IF phase = "deleted" THEN Refuse(c)
     ELSE call' = [call EXCEPT ![c].pc = "bucket", ![c].gen = gen]
  /\ UNCHANGED <<clock, contents, rows, usage, snapshot, history>>

AfterBucket(c) == IF call[c].endpoint = "usage" THEN "measure" ELSE "exists"

\* Variant of QuotaRead: the bucket row was read first.
QuotaReadFirst(c) == call[c].sinceGen

QuotaRead(c) == quotaGen

ReadBucket(c) ==
  /\ At(c, "bucket")
  /\ call' = [call EXCEPT ![c] =
       IF usage # None /\ @.endpoint = "overview"
         THEN [@ EXCEPT !.pc = AfterBucket(c), !.quotaGen = QuotaRead(c),
                        !.bytes = usage.bytes, !.at = usage.at]
         ELSE [@ EXCEPT !.pc = AfterBucket(c), !.quotaGen = QuotaRead(c)]]
  /\ UNCHANGED <<clock, contents, rows, usage, snapshot, history>>

\* bucket_usage: the value is Garage's at some time during the request; an
\* absent bucket, or no answer, is an error.
Measure(c) ==
  /\ At(c, "measure")
  /\ \/ contents # None /\ call' = [call EXCEPT ![c].pc = "stamp", ![c].bytes = contents]
     \/ Refuse(c)
  /\ UNCHANGED <<clock, contents, rows, usage, snapshot, history>>

\* Variant of StampOf: the time at which the call began.
StampOfStart(c) == call[c].since

\* measured_at
StampOf(c) == clock

Stamp(c) ==
  /\ At(c, "stamp")
  /\ call' = [call EXCEPT ![c].pc = "record", ![c].at = StampOf(c)]
  /\ UNCHANGED <<clock, contents, rows, usage, snapshot, history>>

\* Variant of Supersedes: the later of two equal times loses.
SupersedesStrictly(old, at) == old = None \/ old.at < at

\* ON CONFLICT (service_instance_id) DO UPDATE ... WHERE measured_at <= ...
Supersedes(old, at) == old = None \/ old.at <= at

\* Variant of ToI64 that takes every value.
ToI64Unchecked(n) == TRUE

\* to_i64
ToI64(n) == n <= MaxStored

\* record_usage: values beyond i64 are refused before anything is written.
\* The row of a deleted service is written, too.
RecordUsage(c) ==
  /\ At(c, "record")
  /\ LET m == [bytes |-> call[c].bytes, at |-> call[c].at]
     IN IF ~ToI64(m.bytes)
          THEN Refuse(c) /\ UNCHANGED <<usage, snapshot>>
          ELSE /\ usage' = m
               /\ snapshot' = IF Supersedes(snapshot, m.at) THEN m ELSE snapshot
               /\ call' = [call EXCEPT ![c].pc = "audit", ![c].quotaGen = quotaGen]
  /\ UNCHANGED <<clock, contents, rows, history>>

\* PgStore::list_credentials: is the service there, then its credentials,
\* again in two statements.
CheckExists(c) ==
  /\ At(c, "exists")
  /\ IF phase = "deleted" THEN Refuse(c) ELSE Go(c, "list")
  /\ UNCHANGED <<clock, contents, rows, usage, snapshot, history>>

ListCredentials(c) ==
  /\ At(c, "list")
  /\ call' = [call EXCEPT ![c].pc = "audit", ![c].listed = active]
  /\ UNCHANGED <<clock, contents, rows, usage, snapshot, history>>

\* record_read_audit, then the answer.  A bucket never measured is reported
\* as measured now.
Answer(c) ==
  /\ At(c, "audit")
  /\ call' = [call EXCEPT ![c].pc = "done", ![c].ok = TRUE,
                          ![c].at = IF @ = None THEN clock ELSE @]
  /\ UNCHANGED <<clock, contents, rows, usage, snapshot, history>>

\* The process, the database or the client goes away.
Drop(c) ==
  /\ call[c].pc \notin {"idle", "done"}
  /\ Refuse(c)
  /\ UNCHANGED <<clock, contents, rows, usage, snapshot, history>>

Handle(c) ==
  \/ Start(c) \/ ReadService(c) \/ ReadBucket(c) \/ Measure(c) \/ Stamp(c) \/ RecordUsage(c)
  \/ CheckExists(c) \/ ListCredentials(c) \/ Answer(c) \/ Drop(c)

-----------------------------------------------------------------------------
(* What goes on meanwhile *)

\* complete_reconcile commits both rows of the next generation.
Reconciled ==
  /\ phase = "ready" /\ gen < MaxGen
  /\ gen' = gen + 1 /\ quotaGen' = gen + 1
  /\ UNCHANGED <<clock, contents, phase, active, usage, snapshot, call, history>>

\* complete_revoke_credential
Revoked ==
  /\ active /\ active' = FALSE
  /\ UNCHANGED <<clock, contents, phase, gen, quotaGen, usage, snapshot, call, history>>

\* The bucket is removed from Garage; then complete_delete revokes the
\* credentials and marks the service deleted, in one transaction.
BucketRemoved ==
  /\ phase = "ready" /\ contents = 0
  /\ contents' = None
  /\ UNCHANGED <<clock, rows, usage, snapshot, call, history>>

Deleted ==
  /\ phase = "ready" /\ contents = None
  /\ phase' = "deleted" /\ active' = FALSE
  /\ UNCHANGED <<clock, contents, gen, quotaGen, usage, snapshot, call, history>>

ClientChanges ==
  /\ contents # None
  /\ \E n \in Contents \ {contents} :
       contents' = n /\ history' = history \cup {<<clock, n>>}
  /\ UNCHANGED <<clock, rows, usage, snapshot, call>>

Tick ==
  /\ clock < MaxTime
  /\ clock' = clock + 1
  /\ history' = IF contents = None THEN history ELSE history \cup {<<clock + 1, contents>>}
  /\ UNCHANGED <<contents, rows, usage, snapshot, call>>

Next ==
  \/ \E c \in Calls : Handle(c)
  \/ Reconciled \/ Revoked \/ BucketRemoved \/ Deleted \/ ClientChanges \/ Tick

Spec == Init /\ [][Next]_vars

-----------------------------------------------------------------------------
(* Properties *)

\* record_usage writes the bucket row always and the snapshot only when its
\* measurement is not older: the snapshot is never older than what the
\* overview shows, and where both have the same time they have the same
\* value.
SnapshotIsNewest ==
  /\ (usage = None) <=> (snapshot = None)
  /\ usage # None =>
       /\ snapshot.at >= usage.at
       /\ snapshot.at = usage.at => snapshot = usage

\* measured_at is taken after Garage has answered: what is stored or
\* answered as measured was in the bucket at that time or before, and for a
\* usage call not before the call began.
MeasurementsAreTrue ==
  /\ \A m \in {usage, snapshot} \ {None} :
       \E t \in 0..m.at : <<t, m.bytes>> \in history
  /\ \A c \in Calls :
       call[c].ok /\ call[c].endpoint = "usage" =>
         \E t \in call[c].since..call[c].at : <<t, call[c].bytes>> \in history

\* An overview is put together from statements without a common snapshot:
\* its quota may be newer than its name, never older, and neither is older
\* than the generation that was applied when the call began.  A credential
\* revoked before an overview or a list was asked for is not active in it.
ReadsNotStale ==
  \A c \in Calls : call[c].ok =>
    /\ call[c].endpoint = "overview" =>
         call[c].sinceGen <= call[c].gen /\ call[c].gen <= call[c].quotaGen
    /\ call[c].listed = TRUE => call[c].sinceActive
=============================================================================
