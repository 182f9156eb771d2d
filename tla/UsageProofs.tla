----------------------------- MODULE UsageProofs -----------------------------
(***************************************************************************)
(* Proofs about Usage, for every number of concurrent calls, measured      *)
(* values, generations and times.                                          *)
(*                                                                         *)
(* The argument: clock, generation and history only grow and a credential  *)
(* is never active again, so what a call has read stays true in the sense  *)
(* of Known, whatever happens between its statements; and a measurement is *)
(* stamped after it was taken, so the history has it.                      *)
(***************************************************************************)
EXTENDS Usage, TLAPS

CallRecord ==
  [pc : Steps, endpoint : Endpoints \cup {None}, since : Times \cup {None},
   sinceGen : Nat \cup {None}, sinceActive : BOOLEAN \cup {None}, gen : Nat \cup {None},
   quotaGen : Nat \cup {None}, bytes : Contents \cup {None}, at : Times \cup {None},
   listed : BOOLEAN \cup {None}, ok : BOOLEAN]

\* The bucket held n at some time from lo to hi.
HeldBetween(lo, hi, n) == \E t \in lo..hi : <<t, n>> \in history

\* A call under way knows when it began; its endpoint gives the statements it
\* comes to.
UnderWay(x) ==
  x.pc \notin {"idle", "done"} =>
    /\ x.endpoint \in Endpoints
    /\ x.since \in 0..clock
    /\ x.sinceGen \in Nat /\ x.sinceGen <= gen
    /\ active => x.sinceActive = TRUE
    /\ x.endpoint # "usage" => x.pc \notin {"measure", "stamp", "record"}
    /\ x.endpoint = "usage" => x.pc \notin {"exists", "list"}

\* The name that an overview has read is not newer than the quota it has read
\* or will read.
ReadInOrder(x) ==
  /\ x.pc = "bucket" => x.gen \in Nat /\ x.sinceGen <= x.gen /\ x.gen <= gen
  /\ x.endpoint = "overview" /\ (x.pc \in {"exists", "list", "audit"} \/ x.ok = TRUE) =>
       /\ x.gen \in Nat /\ x.quotaGen \in Nat
       /\ x.sinceGen <= x.gen /\ x.gen <= x.quotaGen

\* A usage call holds a measurement taken since it began.
Measured(x) ==
  /\ x.pc = "stamp" => x.bytes \in Contents /\ HeldBetween(x.since, clock, x.bytes)
  /\ x.endpoint = "usage" /\ (x.pc \in {"record", "audit"} \/ x.ok = TRUE) =>
       /\ x.at \in 0..clock /\ x.bytes \in Contents
       /\ x.since \in Nat /\ HeldBetween(x.since, x.at, x.bytes)

\* What is known of a call.
Known(x) ==
  /\ UnderWay(x) /\ ReadInOrder(x) /\ Measured(x)
  /\ x.listed = TRUE => x.sinceActive = TRUE
  /\ x.ok = TRUE => x.pc = "done"

\* What is stored was measured.
Stored(m) ==
  m # None => /\ m.bytes <= MaxStored /\ m.at <= clock
              /\ HeldBetween(0, m.at, m.bytes)

WorldTyped ==
  /\ clock \in Times
  /\ contents \in Contents \cup {None}
  /\ phase \in {"ready", "deleted"}
  /\ gen \in 1..MaxGen /\ quotaGen = gen
  /\ active \in BOOLEAN
  /\ usage \in Measurement \cup {None}
  /\ snapshot \in Measurement \cup {None}
  /\ history \subseteq Times \X Contents
  /\ contents # None => <<clock, contents>> \in history

UsageInv ==
  /\ WorldTyped
  /\ call \in [Calls -> CallRecord]
  /\ \A c \in Calls : Known(call[c])
  /\ Stored(usage) /\ Stored(snapshot)
  /\ SnapshotIsNewest

-----------------------------------------------------------------------------
(* What is known stays known *)

\* What time, operations and clients do to the state that calls read.
WorldGrows ==
  /\ clock <= clock' /\ gen <= gen'
  /\ active' => active
  /\ history \subseteq history'

\* A call that stands still keeps what is known of it.
LEMMA KnownStays ==
  ASSUME WorldTyped, WorldTyped', WorldGrows, NEW x \in CallRecord, Known(x)
  PROVE  Known(x)'
<1> USE UsageAssumption
<1>0. clock \in Nat /\ clock' \in Nat /\ gen \in Nat /\ gen' \in Nat
  BY DEF WorldTyped, Times
<1>1. UnderWay(x)'
  <2>1. x.since \in 0..clock => x.since \in 0..clock'
    BY <1>0 DEF WorldGrows
  <2>2. x.sinceGen \in Nat /\ x.sinceGen <= gen => x.sinceGen <= gen'
    BY <1>0 DEF WorldGrows
  <2> QED BY <2>1, <2>2 DEF Known, UnderWay, WorldGrows
<1>2. ReadInOrder(x)'
  <2>1. x.gen \in Nat /\ x.gen <= gen => x.gen <= gen'
    BY <1>0 DEF WorldGrows
  <2> QED BY <2>1 DEF Known, ReadInOrder
<1>3. ASSUME NEW lo \in Nat, NEW hi \in Nat, NEW high \in Nat, NEW n, hi <= high,
             HeldBetween(lo, hi, n)
      PROVE  \E t \in lo..high : <<t, n>> \in history'
  BY <1>3 DEF HeldBetween, WorldGrows
<1>4. x.pc = "stamp" => x.since \in Nat
  BY DEF Known, UnderWay
<1>5. x.pc = "stamp" => x.bytes \in Contents /\ \E t \in x.since..clock' : <<t, x.bytes>> \in history'
  BY <1>0, <1>3, <1>4 DEF Known, Measured, WorldGrows
<1>6. x.endpoint = "usage" /\ (x.pc \in {"record", "audit"} \/ x.ok = TRUE) =>
        /\ x.at \in 0..clock' /\ x.bytes \in Contents
        /\ x.since \in Nat /\ \E t \in x.since..x.at : <<t, x.bytes>> \in history'
  <2> SUFFICES ASSUME x.endpoint = "usage", x.pc \in {"record", "audit"} \/ x.ok = TRUE
               PROVE  /\ x.at \in 0..clock' /\ x.bytes \in Contents
                      /\ x.since \in Nat /\ \E t \in x.since..x.at : <<t, x.bytes>> \in history'
    OBVIOUS
  <2>1. /\ x.at \in 0..clock /\ x.bytes \in Contents
        /\ x.since \in Nat /\ HeldBetween(x.since, x.at, x.bytes)
    BY DEF Known, Measured
  <2>2. x.at \in Nat /\ x.at <= x.at /\ x.at \in 0..clock'
    BY <1>0, <2>1 DEF WorldGrows
  <2> QED BY <1>3, <2>1, <2>2
<1>7. Measured(x)'
  BY <1>5, <1>6 DEF Measured, HeldBetween
<1> QED BY <1>1, <1>2, <1>7 DEF Known

\* A stored measurement was taken, and stays so.
LEMMA StoredStays ==
  ASSUME WorldTyped, WorldTyped', WorldGrows, NEW m \in Measurement \cup {None}, Stored(m)
  PROVE  Stored(m)'
<1> USE UsageAssumption
<1>1. clock \in Nat /\ clock' \in Nat
  BY DEF WorldTyped, Times
<1>2. m # None => m.at \in Nat
  BY DEF Measurement, Times
<1> QED BY <1>1, <1>2 DEF Stored, HeldBetween, WorldGrows

\* A call that takes a step leaves the others what they know.
LEMMA CallsKnown ==
  ASSUME UsageInv, NEW c \in Calls, NEW y \in CallRecord, Known(y),
         call' = [call EXCEPT ![c] = y], UNCHANGED <<clock, rows, history>>
  PROVE  /\ call' \in [Calls -> CallRecord]
         /\ \A d \in Calls : Known(call[d])'
<1>1. call' \in [Calls -> CallRecord]
  BY DEF UsageInv
<1>2. ASSUME NEW d \in Calls
      PROVE  Known(call'[d])
  BY <1>2 DEF UsageInv
<1>3. ASSUME NEW x \in CallRecord, Known(x)
      PROVE  Known(x)'
  BY <1>3 DEF Known, UnderWay, ReadInOrder, Measured, HeldBetween, rows
<1>4. ASSUME NEW d \in Calls, NEW x \in CallRecord, x = call'[d]
      PROVE  Known(call[d])'
  <2>1. Known(x)'
    BY <1>2, <1>3, <1>4
  <2> QED BY <1>4, <2>1
<1>5. \A d \in Calls : Known(call[d])'
  BY <1>1, <1>4
<1> QED BY <1>1, <1>5

\* A call that takes a step, while nothing else changes.
LEMMA CallMoves ==
  ASSUME UsageInv, NEW c \in Calls, NEW y \in CallRecord, Known(y),
         call' = [call EXCEPT ![c] = y],
         UNCHANGED <<clock, contents, rows, usage, snapshot, history>>
  PROVE  UsageInv'
<1>1. WorldTyped'
  BY DEF UsageInv, WorldTyped, rows
<1>2. (Stored(usage) /\ Stored(snapshot) /\ SnapshotIsNewest)'
  BY DEF UsageInv, Stored, HeldBetween, SnapshotIsNewest
<1> QED BY <1>1, <1>2, CallsKnown DEF UsageInv

\* A step of the world leaves the calls what they know.
LEMMA WorldMoves ==
  ASSUME UsageInv, WorldTyped', WorldGrows, UNCHANGED <<call, usage, snapshot>>
  PROVE  UsageInv'
<1>1. ASSUME NEW d \in Calls, NEW x \in CallRecord, x = call[d]
      PROVE  Known(call[d])'
  <2>1. Known(x)'
    BY <1>1, KnownStays DEF UsageInv
  <2> QED BY <1>1, <2>1
<1>2. \A d \in Calls : Known(call[d])'
  BY <1>1 DEF UsageInv
<1>3. ASSUME NEW m \in Measurement \cup {None}, Stored(m)
      PROVE  Stored(m)'
  BY <1>3, StoredStays DEF UsageInv
<1>4. ASSUME NEW m \in Measurement \cup {None}, NEW w \in Measurement \cup {None},
             m = usage, w = snapshot
      PROVE  Stored(usage)' /\ Stored(snapshot)'
  <2>1. Stored(m)' /\ Stored(w)'
    BY <1>3, <1>4 DEF UsageInv
  <2> QED BY <1>4, <2>1
<1>5. Stored(usage)' /\ Stored(snapshot)'
  BY <1>4 DEF UsageInv, WorldTyped
<1>6. SnapshotIsNewest'
  BY DEF UsageInv, SnapshotIsNewest
<1> QED BY <1>2, <1>5, <1>6 DEF UsageInv

-----------------------------------------------------------------------------
(* Steps of the handlers *)

\* A call that has not begun.
LEMMA NoCallTyped ==
  NoCall \in CallRecord /\ NoCall.listed = None /\ NoCall.ok = FALSE
BY DEF NoCall, CallRecord, Steps

\* A call that ends with an error has nothing to answer for.
LEMMA RefuseMoves ==
  ASSUME UsageInv, NEW c \in Calls, Refuse(c),
         UNCHANGED <<clock, contents, rows, usage, snapshot, history>>
  PROVE  UsageInv'
<1> USE UsageAssumption
<1> DEFINE y == [NoCall EXCEPT !.pc = "done"]
<1>2. call' = [call EXCEPT ![c] = y]
  BY DEF Refuse
<1>3. y \in CallRecord
  BY NoCallTyped DEF CallRecord, Steps
<1>4. y.pc = "done" /\ y.listed = None /\ y.ok = FALSE
  BY NoCallTyped DEF CallRecord
<1> HIDE DEF y
<1>5. Known(y)
  BY <1>4 DEF Known, UnderWay, ReadInOrder, Measured
<1> QED BY <1>2, <1>3, <1>5, CallMoves

\* A call starts.
LEMMA StartStep ==
  ASSUME UsageInv, NEW c \in Calls, Start(c)
  PROVE  UsageInv'
<1> USE UsageAssumption
<1>1. PICK e \in Endpoints :
        call' = [call EXCEPT ![c] = [NoCall EXCEPT !.pc = First(e), !.endpoint = e,
                                                   !.since = clock, !.sinceGen = gen,
                                                   !.sinceActive = active]]
  BY DEF Start
<1> DEFINE y == [NoCall EXCEPT !.pc = First(e), !.endpoint = e, !.since = clock,
                               !.sinceGen = gen, !.sinceActive = active]
<1>3. call' = [call EXCEPT ![c] = y]
  BY <1>1
<1>4. clock \in Times /\ clock \in Nat /\ gen \in Nat /\ active \in BOOLEAN
  BY DEF UsageInv, WorldTyped, Times
<1>5. First(e) \in Steps
  BY DEF First, Steps
<1>6. y \in CallRecord
  BY <1>4, <1>5, NoCallTyped, ZenonT(60) DEF CallRecord
<1>7. /\ y.pc = First(e) /\ y.endpoint = e /\ y.since = clock /\ y.sinceGen = gen
      /\ y.sinceActive = active /\ y.listed = None /\ y.ok = FALSE
  BY NoCallTyped DEF CallRecord
<1> HIDE DEF y
<1>8. y.pc \in {"exists", "service"} /\ (y.pc = "exists" <=> e = "list")
  BY <1>7 DEF First
<1>9. UnderWay(y)
  <2>1. active => y.sinceActive = TRUE
    BY <1>7
  <2> QED BY <1>4, <1>7, <1>8, <2>1 DEF UnderWay
<1>10. ReadInOrder(y) /\ Measured(y)
  BY <1>7, <1>8 DEF ReadInOrder, Measured
<1>11. Known(y)
  BY <1>7, <1>9, <1>10 DEF Known
<1> QED BY <1>3, <1>6, <1>11, CallMoves DEF Start

\* The service row is read.
LEMMA ReadServiceStep ==
  ASSUME UsageInv, NEW c \in Calls, ReadService(c)
  PROVE  UsageInv'
<1> USE UsageAssumption
<1>1. CASE Refuse(c)
  BY <1>1, RefuseMoves DEF ReadService
<1>2. CASE call' = [call EXCEPT ![c].pc = "bucket", ![c].gen = gen]
  <2>1. PICK x \in CallRecord : x = call[c] /\ Known(x) /\ x.pc = "service"
    BY DEF UsageInv, ReadService, At
  <2>2. PICK y : y = [x EXCEPT !.pc = "bucket", !.gen = gen]
    OBVIOUS
  <2>3. gen \in Nat
    BY DEF UsageInv, WorldTyped
  <2>4. y \in CallRecord
    BY <2>2, <2>3 DEF CallRecord, Steps
  <2>5. /\ y.pc = "bucket" /\ y.gen = gen /\ y.endpoint = x.endpoint /\ y.since = x.since
        /\ y.sinceGen = x.sinceGen /\ y.sinceActive = x.sinceActive
        /\ y.listed = x.listed /\ y.ok = x.ok
    BY <2>2 DEF CallRecord
  <2>6. call' = [call EXCEPT ![c] = y]
    BY <1>2, <2>1, <2>2 DEF UsageInv
  <2>7. x.ok # TRUE
    BY <2>1 DEF Known
  <2>8. UnderWay(y) /\ ReadInOrder(y) /\ Measured(y)
    BY <2>1, <2>3, <2>5, <2>7 DEF Known, UnderWay, ReadInOrder, Measured
  <2>9. Known(y)
    BY <2>1, <2>5, <2>7, <2>8 DEF Known
  <2> QED BY <2>4, <2>6, <2>9, CallMoves DEF ReadService
<1> QED BY <1>1, <1>2 DEF ReadService

\* The bucket row is read, after the service row.
LEMMA ReadBucketStep ==
  ASSUME UsageInv, NEW c \in Calls, ReadBucket(c)
  PROVE  UsageInv'
<1> USE UsageAssumption
<1>1. PICK x \in CallRecord : x = call[c] /\ Known(x) /\ x.pc = "bucket"
  BY DEF UsageInv, ReadBucket, At
<1>2. PICK step : step = AfterBucket(c)
  OBVIOUS
<1>3. /\ gen \in Nat /\ QuotaRead(c) = gen
      /\ usage # None => usage.bytes \in Contents /\ usage.at \in Times
  BY DEF UsageInv, WorldTyped, QuotaRead, Measurement
<1>4. step = (IF x.endpoint = "usage" THEN "measure" ELSE "exists") /\ step \in Steps
  BY <1>1, <1>2 DEF AfterBucket, Steps
<1> DEFINE plain == [x EXCEPT !.pc = step, !.quotaGen = gen]
           shown == [x EXCEPT !.pc = step, !.quotaGen = gen, !.bytes = usage.bytes,
                              !.at = usage.at]
           Moved(z) == /\ z.pc = step /\ z.quotaGen = gen /\ z.gen = x.gen
                       /\ z.endpoint = x.endpoint /\ z.since = x.since
                       /\ z.sinceGen = x.sinceGen /\ z.sinceActive = x.sinceActive
                       /\ z.listed = x.listed /\ z.ok = x.ok
<1>5. PICK y : y = IF usage # None /\ x.endpoint = "overview" THEN shown ELSE plain
  OBVIOUS
<1>6. step \in Steps /\ gen \in Nat \cup {None} /\ x \in CallRecord
  BY <1>3, <1>4
<1>7. /\ plain \in CallRecord
      /\ usage # None => shown \in CallRecord
  <2>1. plain \in CallRecord
    BY <1>6 DEF CallRecord
  <2>2. ASSUME usage # None PROVE shown \in CallRecord
    <3>1. usage.bytes \in Contents \cup {None} /\ usage.at \in Times \cup {None}
      BY <1>3, <2>2
    <3> QED BY <1>6, <3>1, ZenonT(60) DEF CallRecord
  <2> QED BY <2>1, <2>2
<1>8. Moved(plain)
  BY DEF CallRecord
<1>9. Moved(shown)
  BY DEF CallRecord
<1> HIDE DEF plain, shown
<1>10. y \in CallRecord /\ Moved(y)
  BY <1>5, <1>7, <1>8, <1>9
<1>11. call' = [call EXCEPT ![c] = y]
  BY <1>1, <1>2, <1>3, <1>5 DEF ReadBucket, UsageInv, plain, shown
<1>12. x.ok # TRUE
  BY <1>1 DEF Known
<1>13. UnderWay(y) /\ ReadInOrder(y) /\ Measured(y)
  BY <1>1, <1>3, <1>4, <1>10, <1>12 DEF Known, UnderWay, ReadInOrder, Measured
<1>14. Known(y)
  BY <1>1, <1>10, <1>12, <1>13 DEF Known
<1> QED BY <1>10, <1>11, <1>14, CallMoves DEF ReadBucket

\* Garage answers what the bucket holds now.
LEMMA MeasureStep ==
  ASSUME UsageInv, NEW c \in Calls, Measure(c)
  PROVE  UsageInv'
<1> USE UsageAssumption
<1>1. CASE Refuse(c)
  BY <1>1, RefuseMoves DEF Measure
<1>2. CASE contents # None /\ call' = [call EXCEPT ![c].pc = "stamp", ![c].bytes = contents]
  <2>1. PICK x \in CallRecord : x = call[c] /\ Known(x) /\ x.pc = "measure"
    BY DEF UsageInv, Measure, At
  <2>2. PICK y : y = [x EXCEPT !.pc = "stamp", !.bytes = contents]
    OBVIOUS
  <2>3. contents \in Contents /\ <<clock, contents>> \in history /\ clock \in Nat
    BY <1>2 DEF UsageInv, WorldTyped, Times
  <2>4. y \in CallRecord
    BY <2>2, <2>3 DEF CallRecord, Steps
  <2>5. /\ y.pc = "stamp" /\ y.bytes = contents /\ y.endpoint = x.endpoint /\ y.since = x.since
        /\ y.sinceGen = x.sinceGen /\ y.sinceActive = x.sinceActive
        /\ y.listed = x.listed /\ y.ok = x.ok
    BY <2>2 DEF CallRecord
  <2>6. call' = [call EXCEPT ![c] = y]
    BY <1>2, <2>1, <2>2 DEF UsageInv
  <2>7. x.ok # TRUE
    BY <2>1 DEF Known
  <2>8. UnderWay(y)
    BY <2>1, <2>5 DEF Known, UnderWay
  <2>9. y.since \in 0..clock
    BY <2>5, <2>8 DEF UnderWay
  <2>10. HeldBetween(y.since, clock, y.bytes)
    BY <2>3, <2>5, <2>9 DEF HeldBetween
  <2>11. ReadInOrder(y) /\ Measured(y)
    BY <2>3, <2>5, <2>7, <2>10 DEF ReadInOrder, Measured
  <2>12. Known(y)
    BY <2>1, <2>5, <2>7, <2>8, <2>11 DEF Known
  <2> QED BY <2>4, <2>6, <2>12, CallMoves DEF Measure
<1> QED BY <1>1, <1>2 DEF Measure

\* The measurement is stamped after it was taken.
LEMMA StampStep ==
  ASSUME UsageInv, NEW c \in Calls, Stamp(c)
  PROVE  UsageInv'
<1> USE UsageAssumption
<1>1. PICK x \in CallRecord : x = call[c] /\ Known(x) /\ x.pc = "stamp"
  BY DEF UsageInv, Stamp, At
<1>2. PICK y : y = [x EXCEPT !.pc = "record", !.at = clock]
  OBVIOUS
<1>3. clock \in Times /\ clock \in Nat
  BY DEF UsageInv, WorldTyped, Times
<1>4. y \in CallRecord
  BY <1>2, <1>3 DEF CallRecord, Steps
<1>5. /\ y.pc = "record" /\ y.at = clock /\ y.bytes = x.bytes
      /\ y.endpoint = x.endpoint /\ y.since = x.since
      /\ y.sinceGen = x.sinceGen /\ y.sinceActive = x.sinceActive
      /\ y.listed = x.listed /\ y.ok = x.ok
  BY <1>2 DEF CallRecord
<1>6. call' = [call EXCEPT ![c] = y]
  BY <1>1, <1>2 DEF Stamp, StampOf, UsageInv
<1>7. x.ok # TRUE
  BY <1>1 DEF Known
<1>8. UnderWay(y) /\ y.since \in Nat
  BY <1>1, <1>3, <1>5 DEF Known, UnderWay
<1>9. y.bytes \in Contents /\ HeldBetween(y.since, y.at, y.bytes)
  BY <1>1, <1>5 DEF Known, Measured
<1>10. ReadInOrder(y)
  BY <1>5, <1>7 DEF ReadInOrder
<1>11. y.at \in 0..clock
  BY <1>3, <1>5
<1>12. Measured(y)
  BY <1>5, <1>8, <1>9, <1>11 DEF Measured
<1>13. Known(y)
  BY <1>1, <1>5, <1>7, <1>8, <1>10, <1>12 DEF Known
<1> QED BY <1>4, <1>6, <1>13, CallMoves DEF Stamp

\* Credentials: the service is there, then they are listed.
LEMMA CheckExistsStep ==
  ASSUME UsageInv, NEW c \in Calls, CheckExists(c)
  PROVE  UsageInv'
<1>1. CASE Refuse(c)
  BY <1>1, RefuseMoves DEF CheckExists
<1>2. CASE Go(c, "list")
  <2>1. PICK x \in CallRecord : x = call[c] /\ Known(x) /\ x.pc = "exists"
    BY DEF UsageInv, CheckExists, At
  <2>2. PICK y : y = [x EXCEPT !.pc = "list"]
    OBVIOUS
  <2>3. y \in CallRecord
    BY <2>2 DEF CallRecord, Steps
  <2>4. /\ y.pc = "list" /\ y.endpoint = x.endpoint /\ y.since = x.since
        /\ y.sinceGen = x.sinceGen /\ y.sinceActive = x.sinceActive
        /\ y.gen = x.gen /\ y.quotaGen = x.quotaGen
        /\ y.listed = x.listed /\ y.ok = x.ok
    BY <2>2 DEF CallRecord
  <2>5. call' = [call EXCEPT ![c] = y]
    BY <1>2, <2>1, <2>2 DEF UsageInv, Go
  <2>6. x.ok # TRUE
    BY <2>1 DEF Known
  <2>7. UnderWay(y) /\ ReadInOrder(y) /\ Measured(y)
    BY <2>1, <2>4, <2>6 DEF Known, UnderWay, ReadInOrder, Measured
  <2>8. Known(y)
    BY <2>1, <2>4, <2>6, <2>7 DEF Known
  <2> QED BY <2>3, <2>5, <2>8, CallMoves DEF CheckExists
<1> QED BY <1>1, <1>2 DEF CheckExists

\* A credential that is listed as active is active now, so it was when the
\* call began.
LEMMA ListCredentialsStep ==
  ASSUME UsageInv, NEW c \in Calls, ListCredentials(c)
  PROVE  UsageInv'
<1>1. PICK x \in CallRecord : x = call[c] /\ Known(x) /\ x.pc = "list"
  BY DEF UsageInv, ListCredentials, At
<1>2. PICK y : y = [x EXCEPT !.pc = "audit", !.listed = active]
  OBVIOUS
<1>3. active \in BOOLEAN
  BY DEF UsageInv, WorldTyped
<1>4. y \in CallRecord
  BY <1>2, <1>3 DEF CallRecord, Steps
<1>5. /\ y.pc = "audit" /\ y.listed = active /\ y.endpoint = x.endpoint /\ y.since = x.since
      /\ y.sinceGen = x.sinceGen /\ y.sinceActive = x.sinceActive
      /\ y.gen = x.gen /\ y.quotaGen = x.quotaGen /\ y.ok = x.ok
  BY <1>2 DEF CallRecord
<1>6. call' = [call EXCEPT ![c] = y]
  BY <1>1, <1>2 DEF UsageInv, ListCredentials
<1>7. x.ok # TRUE /\ x.endpoint # "usage"
  BY <1>1 DEF Known, UnderWay
<1>8. UnderWay(y) /\ ReadInOrder(y) /\ Measured(y)
  BY <1>1, <1>5, <1>7 DEF Known, UnderWay, ReadInOrder, Measured
<1>9. y.listed = TRUE => y.sinceActive = TRUE
  BY <1>5, <1>8 DEF UnderWay
<1>10. Known(y)
  BY <1>5, <1>7, <1>8, <1>9 DEF Known
<1> QED BY <1>4, <1>6, <1>10, CallMoves DEF ListCredentials

\* The answer.
LEMMA AnswerStep ==
  ASSUME UsageInv, NEW c \in Calls, Answer(c)
  PROVE  UsageInv'
<1> USE UsageAssumption
<1>1. PICK x \in CallRecord : x = call[c] /\ Known(x) /\ x.pc = "audit"
  BY DEF UsageInv, Answer, At
<1>2. PICK at : at = IF x.at = None THEN clock ELSE x.at
  OBVIOUS
<1>3. PICK y : y = [x EXCEPT !.pc = "done", !.ok = TRUE, !.at = at]
  OBVIOUS
<1>4. clock \in Times /\ clock \in Nat /\ at \in Times
  BY <1>2 DEF UsageInv, WorldTyped, Times, CallRecord
<1>5. y \in CallRecord
  BY <1>3, <1>4 DEF CallRecord, Steps
<1>6. /\ y.pc = "done" /\ y.ok = TRUE /\ y.at = at /\ y.bytes = x.bytes
      /\ y.listed = x.listed /\ y.endpoint = x.endpoint /\ y.since = x.since
      /\ y.sinceGen = x.sinceGen /\ y.sinceActive = x.sinceActive
      /\ y.gen = x.gen /\ y.quotaGen = x.quotaGen
  BY <1>3 DEF CallRecord
<1>7. call' = [call EXCEPT ![c] = y]
  BY <1>1, <1>2, <1>3 DEF UsageInv, Answer
<1>8. ReadInOrder(y)
  BY <1>1, <1>6 DEF Known, ReadInOrder
<1>9. Measured(y)
  <2>1. CASE x.endpoint = "usage"
    <3>1. /\ x.at \in 0..clock /\ x.bytes \in Contents
          /\ x.since \in Nat /\ HeldBetween(x.since, x.at, x.bytes)
      BY <1>1, <2>1 DEF Known, Measured
    <3>2. at = x.at
      BY <1>2, <1>4, <3>1
    <3> QED BY <1>6, <3>1, <3>2 DEF Measured
  <2> QED BY <1>6, <2>1 DEF Measured
<1>10. Known(y)
  BY <1>1, <1>6, <1>8, <1>9 DEF Known, UnderWay
<1> QED BY <1>5, <1>7, <1>10, CallMoves DEF Answer

\* The measurement is stored; the snapshot takes it if it is not older.
LEMMA RecordUsageStep ==
  ASSUME UsageInv, NEW c \in Calls, RecordUsage(c)
  PROVE  UsageInv'
<1> USE UsageAssumption
<1>0. UNCHANGED <<clock, contents, rows, history>> /\ clock \in Nat /\ clock <= MaxTime
  BY DEF RecordUsage, UsageInv, WorldTyped, Times
<1>1. PICK x \in CallRecord : x = call[c] /\ Known(x) /\ x.pc = "record"
  BY DEF UsageInv, RecordUsage, At
<1>2. /\ x.endpoint = "usage" /\ x.ok # TRUE
      /\ x.at \in 0..clock /\ x.bytes \in Contents
      /\ x.since \in Nat /\ HeldBetween(x.since, x.at, x.bytes)
  BY <1>1 DEF Known, UnderWay, Measured
<1>3. PICK m : m = [bytes |-> x.bytes, at |-> x.at]
  OBVIOUS
<1>4. m \in Measurement /\ m.bytes = x.bytes /\ m.at = x.at /\ m # None
  <2>1. x.at \in Times
    BY <1>0, <1>2 DEF Times
  <2>2. m \in Measurement /\ m.bytes = x.bytes /\ m.at = x.at
    BY <1>2, <1>3, <2>1 DEF Measurement
  <2> QED BY <2>2, NoRowAssumption
<1>5. CASE ~ToI64(m.bytes)
  <2>1. Refuse(c) /\ UNCHANGED <<usage, snapshot>>
    BY <1>1, <1>3, <1>5 DEF RecordUsage
  <2> QED BY <1>0, <2>1, RefuseMoves
<1>6. CASE ToI64(m.bytes)
  <2>1. /\ usage' = m
        /\ snapshot' = IF Supersedes(snapshot, m.at) THEN m ELSE snapshot
        /\ call' = [call EXCEPT ![c].pc = "audit", ![c].quotaGen = quotaGen]
    BY <1>1, <1>3, <1>6 DEF RecordUsage
  <2>2. PICK y : y = [x EXCEPT !.pc = "audit", !.quotaGen = quotaGen]
    OBVIOUS
  <2>3. quotaGen \in Nat
    BY DEF UsageInv, WorldTyped
  <2>4. y \in CallRecord
    BY <2>2, <2>3 DEF CallRecord, Steps
  <2>5. /\ y.pc = "audit" /\ y.at = x.at /\ y.bytes = x.bytes
        /\ y.endpoint = x.endpoint /\ y.since = x.since
        /\ y.sinceGen = x.sinceGen /\ y.sinceActive = x.sinceActive
        /\ y.listed = x.listed /\ y.ok = x.ok
    BY <2>2 DEF CallRecord
  <2>6. call' = [call EXCEPT ![c] = y]
    BY <1>1, <2>1, <2>2 DEF UsageInv
  <2>7. UnderWay(y) /\ ReadInOrder(y) /\ Measured(y)
    BY <1>1, <1>2, <2>5 DEF Known, UnderWay, ReadInOrder, Measured
  <2>8. Known(y)
    BY <1>1, <1>2, <2>5, <2>7 DEF Known
  <2>9. call' \in [Calls -> CallRecord] /\ \A d \in Calls : Known(call[d])'
    BY <1>0, <2>4, <2>6, <2>8, CallsKnown
  <2>10. /\ snapshot \in Measurement \cup {None} /\ Stored(snapshot) /\ SnapshotIsNewest
         /\ usage \in Measurement \cup {None} /\ WorldTyped
    BY DEF UsageInv, WorldTyped
  <2>11. WorldTyped'
    BY <1>0, <1>4, <2>1, <2>10 DEF WorldTyped, rows
  <2>12. Stored(m)
    <3>1. \E t \in 0..x.at : <<t, x.bytes>> \in history
      BY <1>2 DEF HeldBetween
    <3> QED BY <1>0, <1>2, <1>4, <1>6, <3>1 DEF Stored, HeldBetween, ToI64
  <2>13. Stored(usage)' /\ Stored(snapshot)'
    <3>1. usage' = m /\ snapshot' \in {m, snapshot}
      BY <2>1
    <3>2. Stored(usage') /\ Stored(snapshot')
      BY <2>10, <2>12, <3>1
    <3> QED BY <1>0, <3>2 DEF Stored, HeldBetween
  <2>14. SnapshotIsNewest'
    <3>1. m.at \in Nat /\ (snapshot # None => snapshot.at \in Nat)
      BY <1>2, <1>4, <2>10 DEF Measurement, Times
    <3>2. CASE Supersedes(snapshot, m.at)
      BY <1>4, <2>1, <3>1, <3>2 DEF SnapshotIsNewest
    <3>3. CASE ~Supersedes(snapshot, m.at)
      BY <1>4, <2>1, <3>1, <3>3 DEF SnapshotIsNewest, Supersedes
    <3> QED BY <3>2, <3>3
  <2> QED BY <2>9, <2>11, <2>13, <2>14 DEF UsageInv
<1> QED BY <1>5, <1>6

-----------------------------------------------------------------------------
(* Theorems *)

\* Nothing is read, stored or known at the start.
LEMMA UsageInvInit == Init => UsageInv
<1> SUFFICES ASSUME Init PROVE UsageInv
  OBVIOUS
<1> USE UsageAssumption
<1>1. NoCall \in CallRecord /\ NoCall.pc = "idle" /\ NoCall.listed = None /\ NoCall.ok = FALSE
  <2>1. NoCall.pc = "idle"
    BY DEF NoCall
  <2> QED BY <2>1, NoCallTyped
<1>2. Known(NoCall)
  BY <1>1 DEF Known, UnderWay, ReadInOrder, Measured
<1>3. call \in [Calls -> CallRecord] /\ \A c \in Calls : Known(call[c])
  BY <1>1, <1>2 DEF Init
<1>4. WorldTyped
  BY DEF Init, WorldTyped, Times
<1>5. Stored(usage) /\ Stored(snapshot) /\ SnapshotIsNewest
  BY DEF Init, Stored, SnapshotIsNewest
<1> QED BY <1>3, <1>4, <1>5 DEF UsageInv


\* Every step keeps the invariant.
LEMMA UsageInvNext == UsageInv /\ [Next]_vars => UsageInv'
<1> SUFFICES ASSUME UsageInv, [Next]_vars PROVE UsageInv'
  OBVIOUS
<1> USE UsageAssumption
<1>0. /\ WorldTyped /\ clock \in Nat /\ gen \in Nat /\ clock <= MaxTime
      /\ contents # None => contents \in Contents
  BY DEF UsageInv, WorldTyped, Times
<1>1. CASE UNCHANGED vars
  <2>1. WorldTyped' /\ WorldGrows
    BY <1>0, <1>1 DEF vars, WorldTyped, WorldGrows
  <2> QED BY <1>1, <2>1, WorldMoves DEF vars
<1>2. ASSUME NEW c \in Calls, Handle(c)
      PROVE  UsageInv'
  <2>1. CASE Drop(c)
    BY <2>1, RefuseMoves DEF Drop
  <2> QED BY <1>2, <2>1, StartStep, ReadServiceStep, ReadBucketStep, MeasureStep, StampStep,
     RecordUsageStep, CheckExistsStep, ListCredentialsStep, AnswerStep DEF Handle
<1>3. CASE Reconciled
  <2>1. WorldTyped' /\ WorldGrows
    BY <1>0, <1>3 DEF Reconciled, WorldTyped, WorldGrows
  <2> QED BY <1>3, <2>1, WorldMoves DEF Reconciled
<1>4. CASE Revoked
  <2>1. active' \in BOOLEAN /\ ~active'
    BY <1>4 DEF Revoked
  <2>2. WorldTyped'
    BY <1>0, <1>4, <2>1 DEF Revoked, WorldTyped
  <2>3. WorldGrows
    BY <1>0, <1>4, <2>1 DEF Revoked, WorldGrows
  <2> QED BY <1>4, <2>2, <2>3, WorldMoves DEF Revoked
<1>5. CASE BucketRemoved
  <2>1. WorldTyped' /\ WorldGrows
    BY <1>0, <1>5 DEF BucketRemoved, rows, WorldTyped, WorldGrows
  <2> QED BY <1>5, <2>1, WorldMoves DEF BucketRemoved, rows
<1>6. CASE Deleted
  <2>1. active' \in BOOLEAN /\ ~active'
    BY <1>6 DEF Deleted
  <2>2. WorldTyped'
    BY <1>0, <1>6, <2>1 DEF Deleted, WorldTyped
  <2>3. WorldGrows
    BY <1>0, <1>6, <2>1 DEF Deleted, WorldGrows
  <2> QED BY <1>6, <2>2, <2>3, WorldMoves DEF Deleted
<1>7. CASE ClientChanges
  <2>1. PICK n \in Contents : contents' = n /\ history' = history \cup {<<clock, n>>}
    BY <1>7 DEF ClientChanges
  <2>2. history' \subseteq Times \X Contents /\ <<clock, contents'>> \in history'
    BY <1>0, <2>1 DEF WorldTyped
  <2>3. WorldTyped' /\ WorldGrows
    BY <1>0, <1>7, <2>1, <2>2 DEF ClientChanges, WorldTyped, WorldGrows, rows
  <2> QED BY <1>7, <2>3, WorldMoves DEF ClientChanges
<1>8. CASE Tick
  <2>1. clock' = clock + 1 /\ clock' \in Times /\ clock <= clock'
    BY <1>0, <1>8 DEF Tick, Times
  <2>2. /\ history' \subseteq Times \X Contents /\ history \subseteq history'
        /\ contents' # None => <<clock', contents'>> \in history'
    BY <1>0, <1>8, <2>1 DEF Tick, WorldTyped
  <2>3. WorldTyped' /\ WorldGrows
    BY <1>0, <1>8, <2>1, <2>2 DEF Tick, WorldTyped, WorldGrows, rows
  <2> QED BY <1>8, <2>3, WorldMoves DEF Tick
<1> QED BY <1>1, <1>2, <1>3, <1>4, <1>5, <1>6, <1>7, <1>8 DEF Next

\* It holds in every reachable state.
LEMMA UsageInvAlways == Spec => []UsageInv
BY UsageInvInit, UsageInvNext, PTL DEF Spec

\* Rows, measurements and calls have their types, and nothing is stored that
\* a column cannot hold.
THEOREM UsageTypeCorrect == Spec => []UsageTypeOK
<1>1. ASSUME UsageInv
      PROVE  UsageTypeOK
  <2>1. WorldTyped /\ Stored(usage) /\ Stored(snapshot)
    BY <1>1 DEF UsageInv
  <2>2. ASSUME NEW c \in Calls
        PROVE  /\ call[c].pc \in Steps
               /\ call[c].pc \notin {"idle", "done"} =>
                    call[c].endpoint \in Endpoints /\ call[c].since \in 0..clock
               /\ call[c].pc = "record" => call[c].at \in Times
               /\ call[c].bytes \in Contents \cup {None}
    <3>1. PICK x \in CallRecord : x = call[c] /\ Known(x)
      BY <1>1 DEF UsageInv
    <3>2. x.pc = "record" => x.at \in Times
      <4>1. x.pc = "record" => x.at \in 0..clock
        BY <3>1 DEF Known, UnderWay, Measured
      <4> QED BY <2>1, <4>1, UsageAssumption DEF WorldTyped, Times
    <3> QED BY <3>1, <3>2 DEF Known, UnderWay, CallRecord
  <2>3. \A m \in {usage, snapshot} \ {None} : m.bytes <= MaxStored
    BY <2>1 DEF Stored
  <2> QED BY <2>1, <2>2, <2>3 DEF UsageTypeOK, WorldTyped
<1> QED BY <1>1, UsageInvAlways, PTL

\* In whatever order concurrent calls store their measurements, the snapshot
\* is never older than the bucket row, and equal to it at equal times.
THEOREM SnapshotAlwaysNewest == Spec => []SnapshotIsNewest
<1>1. UsageInv => SnapshotIsNewest
  BY DEF UsageInv
<1> QED BY <1>1, UsageInvAlways, PTL

\* What is stored or answered as measured was in the bucket at that time or
\* before, and for a usage call not before the call began.
THEOREM MeasurementsAlwaysTrue == Spec => []MeasurementsAreTrue
<1>1. ASSUME UsageInv
      PROVE  MeasurementsAreTrue
  <2>1. \A m \in {usage, snapshot} \ {None} : \E t \in 0..m.at : <<t, m.bytes>> \in history
    BY <1>1 DEF UsageInv, Stored, HeldBetween
  <2>2. ASSUME NEW c \in Calls, call[c].ok, call[c].endpoint = "usage"
        PROVE  \E t \in call[c].since..call[c].at : <<t, call[c].bytes>> \in history
    <3>1. PICK x \in CallRecord : x = call[c] /\ Known(x)
      BY <1>1 DEF UsageInv
    <3>2. x.ok = TRUE
      <4>1. x.ok \in BOOLEAN
        BY DEF CallRecord
      <4> QED BY <2>2, <3>1, <4>1
    <3> QED BY <2>2, <3>1, <3>2 DEF Known, Measured, HeldBetween
  <2> QED BY <2>1, <2>2 DEF MeasurementsAreTrue
<1> QED BY <1>1, UsageInvAlways, PTL

\* An overview's quota may be newer than its name, never older, and neither
\* is older than when the call began; a credential revoked before the call is
\* not active in its answer.
THEOREM ReadsNeverStale == Spec => []ReadsNotStale
<1>1. ASSUME UsageInv
      PROVE  ReadsNotStale
  <2> SUFFICES ASSUME NEW c \in Calls, call[c].ok
               PROVE  /\ call[c].endpoint = "overview" =>
                           call[c].sinceGen <= call[c].gen /\ call[c].gen <= call[c].quotaGen
                      /\ call[c].listed = TRUE => call[c].sinceActive
    BY DEF ReadsNotStale
  <2>1. PICK x \in CallRecord : x = call[c] /\ Known(x)
    BY <1>1 DEF UsageInv
  <2>2. x.ok = TRUE
    <3>1. x.ok \in BOOLEAN
      BY DEF CallRecord
    <3> QED BY <2>1, <3>1
  <2>3. x.endpoint = "overview" => x.sinceGen <= x.gen /\ x.gen <= x.quotaGen
    BY <2>1, <2>2 DEF Known, ReadInOrder
  <2>4. x.listed = TRUE => x.sinceActive
    BY <2>1 DEF Known
  <2> QED BY <2>1, <2>3, <2>4
<1> QED BY <1>1, UsageInvAlways, PTL

=============================================================================
