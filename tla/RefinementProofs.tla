-------------------------- MODULE RefinementProofs --------------------------
(***************************************************************************)
(* The handlers, with their leases, takeovers, crashes and late attempts,  *)
(* implement OperationPromise, for every value of the constants.           *)
(*                                                                         *)
(* The argument: a step does one thing to the operations (OperationStep)   *)
(* and one thing to the answers (AnswerStep).  A new operation is Begin,   *)
(* one that ends is Decide, with or without an answer, a replay is Repeat; *)
(* leases, takeovers and calls to Garage are not seen.                     *)
(***************************************************************************)
EXTENDS SyouyuRefinement, GarageProofs

\* Only a final answer carries a response.
PlainAnswers == \A a \in Attempts : reply[a].kind # "final" => reply[a].resp = None

PromiseInv == OperationInv /\ PlainAnswers

-----------------------------------------------------------------------------
(* Answers *)

\* No attempt but a answers.
OthersSilent(a) == \A b \in Attempts \ {a} : reply'[b].resp = reply[b].resp

\* What a step does to the answers: nothing, it replays a stored response, or
\* it ends an operation and answers with what it stored.
AnswerStep ==
  \/ \A a \in Attempts : reply'[a].resp = reply[a].resp
  \/ \E a \in Attempts, k \in Keys :
       /\ UNCHANGED storeVars /\ Finished(k)
       /\ reply[a].resp = None /\ reply'[a].resp = receipts[k].resp
       /\ OthersSilent(a)
  \/ \E a \in Attempts, r \in Requests :
       Ends(a, r) /\ reply'[a].resp = receipts'[r.key].resp /\ OthersSilent(a)

\* An operation that ends stores the response of its attempt, and changes no
\* row when it failed.
LEMMA EndsDecides ==
  ASSUME NEW a \in Attempts, NEW r \in Requests, Ends(a, r)
  PROVE  \E failed \in BOOLEAN :
           /\ EndsReceipt(r, a, failed)
           /\ failed => services' = services /\ buckets' = buckets /\ creds' = creds
           /\ pc[a] = "fail" <=> failed
<1>1. CASE pc[a] = "fail" /\ FailOperation(r, a)
  BY <1>1 DEF FailOperation, EndsReceipt
<1>2. CASE pc[a] = "complete" /\ EndsReceipt(r, a, FALSE)
  BY <1>2
<1> QED
  BY <1>1, <1>2 DEF Ends, CompleteReconcile, CompleteDelete, CompleteCreate, CompleteRevoke,
     EndsReceipt

\* Every step is an AnswerStep, and keeps answers plain.
LEMMA NextAnswerStep ==
  ASSUME TypeInv, PlainAnswers, [Next]_vars
  PROVE  AnswerStep /\ PlainAnswers'
<1> USE DEF TypeInv
<1> DEFINE Goal == AnswerStep /\ PlainAnswers'
<1>0. reply \in [Attempts -> Replies]
  BY DEF HandlerTypeOK
<1>1. ASSUME reply' = reply
      PROVE  Goal
  BY <1>1 DEF AnswerStep, PlainAnswers
<1>2. ASSUME NEW a \in Attempts, pc[a] # "done",
             NEW kind \in {"none", "busy", "error"}, reply' = [reply EXCEPT ![a] = Plain(kind)]
      PROVE  Goal
  <2>1. reply[a].resp = None
    BY <1>2 DEF PlainAnswers, HandlerTypeOK
  <2>2. Plain(kind).resp = None
    BY DEF Plain
  <2> QED BY <1>0, <1>2, <2>1, <2>2 DEF AnswerStep, PlainAnswers
<1>3. ASSUME NEW a \in Attempts, pc[a] # "done",
             NEW resp, reply' = [reply EXCEPT ![a] = Final(resp)]
      PROVE  /\ reply[a].resp = None /\ reply'[a].resp = resp
             /\ OthersSilent(a) /\ PlainAnswers'
  <2>1. reply[a].resp = None
    BY <1>3 DEF PlainAnswers, HandlerTypeOK
  <2>2. Final(resp).resp = resp /\ Final(resp).kind = "final"
    BY DEF Final
  <2> QED BY <1>0, <1>3, <2>1, <2>2 DEF OthersSilent, PlainAnswers
<1>4. ASSUME NEW a \in Attempts, Ends(a, req[a]), req[a] \in Requests,
             reply' = [reply EXCEPT ![a] = Final([by |-> a, failed |-> pc[a] = "fail"])]
      PROVE  Goal
  <2>1. PICK failed \in BOOLEAN : EndsReceipt(req[a], a, failed) /\ (pc[a] = "fail" <=> failed)
    BY <1>4, EndsDecides
  <2>2. receipts'[req[a].key].resp = [by |-> a, failed |-> failed]
    BY <1>4, <2>1, FinishedAnswer DEF StoreInv
  <2>3. pc[a] # "done" /\ (pc[a] = "fail") = failed
    BY <1>4, <2>1 DEF Ends
  <2> DEFINE resp == [by |-> a, failed |-> failed]
  <2>4. reply' = [reply EXCEPT ![a] = Final(resp)]
    BY <1>4, <2>3
  <2> HIDE DEF resp
  <2>5. reply'[a].resp = resp /\ OthersSilent(a) /\ PlainAnswers'
    BY <1>3, <2>3, <2>4
  <2>6. receipts'[req[a].key].resp = resp
    BY <2>2 DEF resp
  <2> QED BY <1>4, <2>5, <2>6 DEF AnswerStep
<1> HIDE DEF Goal
<1>5. ASSUME NEW a \in Attempts, Prepare(a)
      PROVE  Goal
  <2>1. PICK r \in Requests :
          \/ UNCHANGED reply
          \/ /\ \/ /\ PrepareReplay(r)
                   /\ reply' = [reply EXCEPT ![a] = Final(receipts[r.key].resp)]
                \/ reply' = [reply EXCEPT ![a] = Plain("busy")]
                \/ reply' = [reply EXCEPT ![a] = Plain("error")]
             /\ UNCHANGED storeVars
    BY <1>5 DEF Prepare
  <2>2. pc[a] # "done" /\ r.key \in Keys
    BY <1>5, RequestFields DEF Prepare
  <2>3. CASE /\ PrepareReplay(r) /\ UNCHANGED storeVars
             /\ reply' = [reply EXCEPT ![a] = Final(receipts[r.key].resp)]
    BY <1>3, <2>2, <2>3 DEF PrepareReplay, AnswerStep, Goal
  <2> QED BY <1>1, <1>2, <2>1, <2>2, <2>3
<1>6. ASSUME NEW a \in Attempts, Complete(a)
      PROVE  Goal
  <2>0. pc[a] = "complete" /\ (pc[a] = "fail") = FALSE
    BY <1>6 DEF Complete
  <2>1. CASE CompleteOperation(a) /\ Return(a, Final([by |-> a, failed |-> FALSE]))
    BY <1>4, <2>0, <2>1, CompleteEnds DEF Return
  <2> QED BY <1>1, <1>2, <1>6, <2>0, <2>1 DEF Complete, NotOwner, Return, Goto
<1>7. ASSUME NEW a \in Attempts, Fail(a)
      PROVE  Goal
  <2>0. pc[a] = "fail" /\ (pc[a] = "fail") = TRUE /\ req[a] \in Requests
    BY <1>7 DEF Fail, HandlerTypeOK
  <2>1. CASE FailOperation(req[a], a) /\ Return(a, Final([by |-> a, failed |-> TRUE]))
    BY <1>4, <2>0, <2>1 DEF Return, Ends
  <2> QED BY <1>1, <1>2, <1>7, <2>0, <2>1 DEF Fail, NotOwner, Return
<1>8. ASSUME NEW a \in Attempts, Renew(a) \/ Cleanup(a) \/ Abandon(a)
      PROVE  Goal
  <2>1. pc[a] # "done"
    BY <1>8 DEF Renew, Cleanup, Abandon
  <2> QED BY <1>1, <1>2, <1>8, <2>1 DEF Renew, Cleanup, Abandon, NotOwner, Return, Goto
<1>9. ASSUME NEW a \in Attempts,
             \/ LookupBucket(a) \/ CreateServiceBucket(a) \/ UpdateQuotas(a)
             \/ CheckUsage(a) \/ RevokeKey(a) \/ DeleteServiceBucket(a)
             \/ ListKeys(a) \/ PurgeKey(a) \/ CreateAccessKey(a) \/ AllowKey(a) \/ UndoKey(a)
      PROVE  reply' = reply
  BY <1>9 DEF LookupBucket, CreateServiceBucket, UpdateQuotas, CheckUsage, RevokeKey,
     DeleteServiceBucket, ListKeys, PurgeKey, CreateAccessKey, AllowKey, UndoKey, GarageFails,
     Goto, Remember
<1>10. Goal
  BY <1>1, <1>5, <1>6, <1>7, <1>8, <1>9 DEF Next, Step, vars, ExpireLease, S3Client, handlerVars
<1> QED BY <1>10 DEF Goal

-----------------------------------------------------------------------------
(* The mapping *)

HoldsService(k, s) == InProgress(k) /\ receipts[k].req.svc = s

\* The holder of a service is the key with an operation in progress on it.
LEMMA HolderIs ==
  SingleOperation =>
    \A s \in Services :
      /\ \A k \in Keys : HoldsService(k, s) => Holder(s) = k
      /\ (\A k \in Keys : ~HoldsService(k, s)) => Holder(s) = None
<1> SUFFICES ASSUME SingleOperation, NEW s \in Services
             PROVE  /\ \A k \in Keys : HoldsService(k, s) => Holder(s) = k
                    /\ (\A k \in Keys : ~HoldsService(k, s)) => Holder(s) = None
  OBVIOUS
<1> DEFINE running == {k \in Keys : InProgress(k) /\ receipts[k].req.svc = s}
<1>1. Holder(s) = IF running = {} THEN None ELSE CHOOSE k \in running : TRUE
  BY DEF Holder
<1>2. ASSUME NEW k \in Keys, HoldsService(k, s)
      PROVE  Holder(s) = k
  <2>1. running = {k}
    BY <1>2 DEF HoldsService, SingleOperation
  <2> QED BY <1>1, <2>1
<1>3. ASSUME \A k \in Keys : ~HoldsService(k, s)
      PROVE  Holder(s) = None
  <2>1. running = {}
    BY <1>3 DEF HoldsService
  <2> QED BY <1>1, <2>1
<1> QED BY <1>2, <1>3

\* The same after a step.
LEMMA HolderIsNext ==
  (SingleOperation =>
    \A s \in Services :
      /\ \A k \in Keys : HoldsService(k, s) => Holder(s) = k
      /\ (\A k \in Keys : ~HoldsService(k, s)) => Holder(s) = None)'
BY HolderIs, PTL

\* A step that begins and ends no operation on a service leaves its holder.
LEMMA HolderSame ==
  ASSUME SingleOperation, SingleOperation', NEW s \in Services,
         \A k \in Keys : HoldsService(k, s)' <=> HoldsService(k, s)
  PROVE  Holder(s)' = Holder(s)
BY HolderIs, HolderIsNext

\* A transaction on another service leaves the records of a service.
LEMMA RecordsSame ==
  ASSUME NEW s \in Services,
         services'[s] = services[s], buckets'[s] = buckets[s],
         \A c \in Keys : \/ creds'[c] = creds[c]
                         \/ /\ creds[c] # None => creds[c].svc # s
                            /\ creds'[c] # None => creds'[c].svc # s
  PROVE  Records(s)' = Records(s)
<1> DEFINE mine == {d \in Keys : creds[d] # None /\ creds[d].svc = s}
<1>1. mine' = mine /\ \A c \in mine : creds'[c] = creds[c]
  OBVIOUS
<1>2. {<<c, creds'[c]>> : c \in mine'} = {<<c, creds[c]>> : c \in mine}
  BY <1>1
<1> QED BY <1>2 DEF Records

\* An operation that ends changes records of its own service only.
LEMMA EndsRecords ==
  ASSUME StoreTypeOK, NEW a \in Attempts, NEW r \in Requests, Ends(a, r),
         NEW s \in Services, s # r.svc
  PROVE  Records(s)' = Records(s)
<1>1. LocalTo(r.svc)
  BY EndsLocal
<1>2. services'[s] = services[s] /\ buckets'[s] = buckets[s]
  BY <1>1 DEF LocalTo
<1>3. ASSUME NEW c \in Keys
      PROVE  \/ creds'[c] = creds[c]
             \/ /\ creds[c] # None => creds[c].svc # s
                /\ creds'[c] # None => creds'[c].svc # s
  BY <1>1, EndsCredential DEF LocalTo
<1> QED BY <1>2, <1>3, RecordsSame

-----------------------------------------------------------------------------
(* Steps *)

\* A step that is not seen.
LEMMA UnseenStep ==
  ASSUME SingleOperation, SingleOperation',
         \A k \in Keys : /\ \A s \in Services : HoldsService(k, s)' <=> HoldsService(k, s)
                         /\ Decision(k)' = Decision(k),
         services' = services, buckets' = buckets, creds' = creds
  PROVE  /\ \A s \in Services : Holder(s)' = Holder(s) /\ Records(s)' = Records(s)
         /\ \A k \in Keys : Decision(k)' = Decision(k)
BY HolderSame, RecordsSame

\* Leases and takeovers are not seen; a new operation holds its service.
LEMMA BeginsSeen ==
  ASSUME StoreTypeOK, ReceiptShape, ReceiptShape', OperationsKnown,
         SingleOperation, SingleOperation', NEW a \in Attempts, NEW r \in Requests, Begins(a, r)
  PROVE  /\ \A s \in Services : Records(s)' = Records(s)
         /\ \A k \in Keys : Decision(k)' = Decision(k)
         /\ \/ \A s \in Services : Holder(s)' = Holder(s)
            \/ /\ Holder(r.svc) = None /\ Decision(r.key) = None
               /\ \A s \in Services : Holder(s) # r.key
               /\ \A s \in Services : Holder(s)' = IF s = r.svc THEN r.key ELSE Holder(s)
<1>0. r.key \in Keys /\ r.svc \in Services
  BY RequestFields
<1>1. /\ PrepareExecute(r, a) /\ services' = services /\ buckets' = buckets /\ creds' = creds
  BY DEF Begins, PrepareExecute
<1>2. /\ receipts'[r.key] # None
      /\ receipts'[r.key].req = r
      /\ receipts'[r.key].state = "in_progress"
      /\ \A j \in Keys \ {r.key} : receipts'[j] = receipts[j]
      /\ receipts[r.key] # None => InProgress(r.key) /\ receipts[r.key].req = r
      /\ ~ParallelOperation(r.key, r.svc)
  BY <1>1, BeginsKeeps
<1>3. \A s \in Services : Records(s)' = Records(s)
  BY <1>1, RecordsSame
<1>4. receipts'[r.key].resp = None /\ (receipts[r.key] # None => receipts[r.key].resp = None)
  BY <1>0, <1>2 DEF ReceiptShape, InProgress
<1>5. \A k \in Keys : Decision(k)' = Decision(k)
  BY <1>2, <1>4 DEF Decision
<1>6. CASE receipts[r.key] # None
  <2>1. \A k \in Keys, s \in Services : HoldsService(k, s)' <=> HoldsService(k, s)
    BY <1>0, <1>2, <1>6 DEF HoldsService, InProgress
  <2> QED BY <1>3, <1>5, <2>1, HolderSame
<1>7. CASE receipts[r.key] = None
  <2>1. ~(\E k \in Keys : HoldsService(k, r.svc))
    BY <1>0, <1>2, <1>7 DEF ParallelOperation, HoldsService, InProgress
  <2>2. Holder(r.svc) = None
    BY <1>0, <2>1, HolderIs
  <2>3. HoldsService(r.key, r.svc)'
    BY <1>2 DEF HoldsService, InProgress
  <2>4. Holder(r.svc)' = r.key
    BY <1>0, <2>3, HolderIsNext
  <2>5. ASSUME NEW s \in Services, s # r.svc
        PROVE  Holder(s)' = Holder(s)
    <3>1. \A k \in Keys : HoldsService(k, s)' <=> HoldsService(k, s)
      BY <1>0, <1>2, <1>7, <2>5 DEF HoldsService, InProgress
    <3> QED BY <3>1, HolderSame
  <2>6. ASSUME NEW s \in Services, Holder(s) = r.key
        PROVE  FALSE
    <3>1. PICK k \in Keys : HoldsService(k, s)
      BY <1>0, <2>6, HolderIs, NoneAssumption
    <3>2. k = r.key
      BY <2>6, <3>1, HolderIs
    <3> QED BY <1>7, <3>1, <3>2 DEF HoldsService, InProgress
  <2>7. Decision(r.key) = None
    BY <1>7 DEF Decision
  <2> QED BY <1>3, <1>5, <2>2, <2>4, <2>5, <2>6, <2>7
<1> QED BY <1>6, <1>7

\* An operation that ends is decided, and gives its service free.
LEMMA EndsSeen ==
  ASSUME StoreTypeOK, ReceiptShape, SingleOperation, SingleOperation',
         NEW a \in Attempts, NEW r \in Requests, Ends(a, r)
  PROVE  \E failed \in BOOLEAN :
           /\ Holder(r.svc) = r.key /\ Decision(r.key) = None
           /\ \A s \in Services : Holder(s)' = IF s = r.svc THEN None ELSE Holder(s)
           /\ \A k \in Keys : Decision(k)' = IF k = r.key THEN [by |-> a, failed |-> failed]
                                                          ELSE Decision(k)
           /\ \A s \in Services : s # r.svc \/ failed => Records(s)' = Records(s)
<1>0. r.key \in Keys /\ r.svc \in Services
  BY RequestFields
<1>1. /\ receipts[r.key] # None /\ receipts'[r.key] # None
      /\ InProgress(r.key)
      /\ receipts[r.key].req = r /\ receipts'[r.key].req = r
      /\ receipts'[r.key].state # "in_progress"
      /\ \A j \in Keys \ {r.key} : receipts'[j] = receipts[j]
  BY EndsKeeps
<1>2. PICK failed \in BOOLEAN :
        /\ EndsReceipt(r, a, failed)
        /\ failed => services' = services /\ buckets' = buckets /\ creds' = creds
  BY EndsDecides
<1>3. HoldsService(r.key, r.svc)
  BY <1>1 DEF HoldsService
<1>4. Holder(r.svc) = r.key
  BY <1>0, <1>3, HolderIs
<1>5. Decision(r.key) = None
  BY <1>0, <1>1 DEF Decision, ReceiptShape
<1>6. ~\E k \in Keys : HoldsService(k, r.svc)'
  BY <1>0, <1>1 DEF HoldsService, InProgress, SingleOperation
<1>7. Holder(r.svc)' = None
  BY <1>0, <1>6, HolderIsNext
<1>8. ASSUME NEW s \in Services, s # r.svc
      PROVE  Holder(s)' = Holder(s)
  <2>1. \A k \in Keys : HoldsService(k, s)' <=> HoldsService(k, s)
    BY <1>0, <1>1, <1>8 DEF HoldsService, InProgress
  <2> QED BY <2>1, HolderSame
<1>9. receipts'[r.key].resp = [by |-> a, failed |-> failed]
  BY <1>2, FinishedAnswer
<1>10. \A k \in Keys : Decision(k)' = IF k = r.key THEN [by |-> a, failed |-> failed]
                                                   ELSE Decision(k)
  BY <1>1, <1>9 DEF Decision
<1>11. \A s \in Services : s # r.svc \/ failed => Records(s)' = Records(s)
  BY <1>2, EndsRecords, RecordsSame
<1> QED BY <1>4, <1>5, <1>7, <1>8, <1>10, <1>11

-----------------------------------------------------------------------------
(* Steps of the promise *)

HolderMap == [s \in Services |-> Holder(s)]
DecisionMap == [k \in Keys |-> Decision(k)]
AnswerMap == [a \in Attempts |-> reply[a].resp]
RecordsMap == [s \in Services |-> Records(s)]

\* A step that changes nothing the promise speaks of is a stutter of it.
LEMMA PromiseStutter ==
  ASSUME \A s \in Services : Holder(s)' = Holder(s) /\ Records(s)' = Records(s),
         \A k \in Keys : Decision(k)' = Decision(k),
         \A a \in Attempts : reply'[a].resp = reply[a].resp
  PROVE  [Promise!PromiseNext]_(Promise!promiseVars)
<1>1. HolderMap' = HolderMap /\ RecordsMap' = RecordsMap
  BY DEF HolderMap, RecordsMap
<1>2. DecisionMap' = DecisionMap
  BY DEF DecisionMap
<1>3. AnswerMap' = AnswerMap
  BY DEF AnswerMap
<1> QED BY <1>1, <1>2, <1>3 DEF HolderMap, RecordsMap, DecisionMap, AnswerMap, Promise!promiseVars

\* A new operation is Begin.
LEMMA PromiseBegin ==
  ASSUME NEW h \in Services, NEW k \in Keys,
         Holder(h) = None, Decision(k) = None, \A s \in Services : Holder(s) # k,
         \A s \in Services : Holder(s)' = IF s = h THEN k ELSE Holder(s),
         \A s \in Services : Records(s)' = Records(s),
         \A j \in Keys : Decision(j)' = Decision(j),
         \A a \in Attempts : reply'[a].resp = reply[a].resp
  PROVE  [Promise!PromiseNext]_(Promise!promiseVars)
<1>1. HolderMap' = [HolderMap EXCEPT ![h] = k] /\ RecordsMap' = RecordsMap
  BY DEF HolderMap, RecordsMap
<1>2. DecisionMap' = DecisionMap
  BY DEF DecisionMap
<1>3. AnswerMap' = AnswerMap
  BY DEF AnswerMap
<1>4. /\ HolderMap[h] = None /\ DecisionMap[k] = None
      /\ \A s \in Services : HolderMap[s] # k
  BY DEF HolderMap, DecisionMap
<1>5. Promise!Begin(h, k)
  BY <1>1, <1>2, <1>3, <1>4 DEF HolderMap, RecordsMap, DecisionMap, AnswerMap, Promise!Begin
<1> QED BY <1>5 DEF Promise!PromiseNext

\* An operation that ends is Decide; its attempt answers, or is cut off before.
LEMMA PromiseDecide ==
  ASSUME NEW h \in Services, NEW k \in Keys, NEW a \in Attempts, NEW failed \in BOOLEAN,
         Holder(h) = k, Decision(k) = None,
         \A s \in Services : Holder(s)' = IF s = h THEN None ELSE Holder(s),
         \A j \in Keys : Decision(j)' = IF j = k THEN [by |-> a, failed |-> failed]
                                                 ELSE Decision(j),
         \A s \in Services : s # h \/ failed => Records(s)' = Records(s),
         \/ \A b \in Attempts : reply'[b].resp = reply[b].resp
         \/ reply'[a].resp = [by |-> a, failed |-> failed] /\ OthersSilent(a)
  PROVE  [Promise!PromiseNext]_(Promise!promiseVars)
<1> DEFINE resp == [by |-> a, failed |-> failed]
<1>0. /\ \A j \in Keys : Decision(j)' = IF j = k THEN resp ELSE Decision(j)
      /\ \/ \A b \in Attempts : reply'[b].resp = reply[b].resp
         \/ reply'[a].resp = resp /\ OthersSilent(a)
  OBVIOUS
<1> HIDE DEF resp
<1>1. HolderMap' = [HolderMap EXCEPT ![h] = None]
  BY DEF HolderMap
<1>2. DecisionMap' = [DecisionMap EXCEPT ![k] = resp]
  BY <1>0 DEF DecisionMap
<1>3. AnswerMap' \in {AnswerMap, [AnswerMap EXCEPT ![a] = resp]}
  <2>1. CASE \A b \in Attempts : reply'[b].resp = reply[b].resp
    BY <2>1 DEF AnswerMap
  <2>2. CASE reply'[a].resp = resp /\ OthersSilent(a)
    BY <2>2 DEF AnswerMap, OthersSilent
  <2> QED BY <1>0, <2>1, <2>2
<1>4. \A s \in Services : s # h \/ failed => RecordsMap'[s] = RecordsMap[s]
  BY DEF RecordsMap
<1>5. HolderMap[h] = k /\ DecisionMap[k] = None
  BY DEF HolderMap, DecisionMap
<1>6. Promise!Decide(h, k, a, failed)
  BY <1>1, <1>2, <1>3, <1>4, <1>5
     DEF HolderMap, RecordsMap, DecisionMap, AnswerMap, resp, Promise!Decide
<1> QED BY <1>6 DEF Promise!PromiseNext

\* A replay is Repeat.
LEMMA PromiseRepeat ==
  ASSUME NEW a \in Attempts, NEW k \in Keys,
         \A s \in Services : Holder(s)' = Holder(s) /\ Records(s)' = Records(s),
         \A j \in Keys : Decision(j)' = Decision(j),
         reply[a].resp = None, Decision(k) # None,
         reply'[a].resp = Decision(k), OthersSilent(a)
  PROVE  [Promise!PromiseNext]_(Promise!promiseVars)
<1>1. HolderMap' = HolderMap /\ RecordsMap' = RecordsMap
  BY DEF HolderMap, RecordsMap
<1>2. DecisionMap' = DecisionMap /\ DecisionMap[k] = Decision(k)
  BY DEF DecisionMap
<1>3. AnswerMap' = [AnswerMap EXCEPT ![a] = DecisionMap[k]] /\ AnswerMap[a] = None
  BY <1>2 DEF AnswerMap, OthersSilent
<1>4. Promise!Repeat(a, k)
  BY <1>1, <1>2, <1>3 DEF HolderMap, RecordsMap, DecisionMap, AnswerMap, Promise!Repeat
<1> QED BY <1>4 DEF Promise!PromiseNext

-----------------------------------------------------------------------------
(* The promise is kept *)

\* A step that leaves the store alone, or touches a lease, is not seen.
LEMMA QuietStep ==
  ASSUME StoreTypeOK, SingleOperation, SingleOperation',
         \/ UNCHANGED storeVars
         \/ \E k \in Keys, x \in BOOLEAN : Leases(k, x)
  PROVE  /\ \A s \in Services : Holder(s)' = Holder(s) /\ Records(s)' = Records(s)
         /\ \A k \in Keys : Decision(k)' = Decision(k)
<1>1. services' = services /\ buckets' = buckets /\ creds' = creds
  BY DEF storeVars, Leases, restOfStore
<1>2. \A j \in Keys :
        /\ receipts'[j] # None <=> receipts[j] # None
        /\ receipts[j] # None => /\ receipts'[j].req = receipts[j].req
                                 /\ receipts'[j].state = receipts[j].state
                                 /\ receipts'[j].resp = receipts[j].resp
  <2>1. CASE UNCHANGED storeVars
    BY <2>1 DEF storeVars
  <2> QED BY <2>1, LeasesKeeps
<1>3. \A k \in Keys : /\ \A s \in Services : HoldsService(k, s)' <=> HoldsService(k, s)
                      /\ Decision(k)' = Decision(k)
  BY <1>2 DEF HoldsService, InProgress, Decision
<1> QED BY <1>1, <1>3, UnseenStep

\* A step of the handlers is a step of the promise, or is not seen.
LEMMA PromiseStep ==
  ASSUME PromiseInv, PromiseInv', [Next]_vars
  PROVE  [Promise!PromiseNext]_(Promise!promiseVars)
<1>0. /\ TypeInv /\ HandlerTypeOK /\ StoreTypeOK /\ ReceiptShape /\ ReceiptShape'
      /\ OperationsKnown /\ SingleOperation /\ SingleOperation' /\ PlainAnswers
  BY DEF PromiseInv, OperationInv, TypeInv, StoreInv
<1>1. OperationStep /\ AnswerStep
  BY <1>0, NextOperationStep, NextAnswerStep
<1> DEFINE Goal == [Promise!PromiseNext]_(Promise!promiseVars)
           Silent == \A a \in Attempts : reply'[a].resp = reply[a].resp
<1>2. ASSUME NEW a \in Attempts, NEW r \in Requests, Ends(a, r),
             \/ Silent
             \/ reply'[a].resp = receipts'[r.key].resp /\ OthersSilent(a)
      PROVE  Goal
  <2>0. r.key \in Keys /\ r.svc \in Services
    BY RequestFields
  <2>1. PICK failed \in BOOLEAN :
          /\ Holder(r.svc) = r.key /\ Decision(r.key) = None
          /\ \A s \in Services : Holder(s)' = IF s = r.svc THEN None ELSE Holder(s)
          /\ \A k \in Keys : Decision(k)' = IF k = r.key THEN [by |-> a, failed |-> failed]
                                                         ELSE Decision(k)
          /\ \A s \in Services : s # r.svc \/ failed => Records(s)' = Records(s)
    BY <1>0, <1>2, EndsSeen
  <2>2. receipts'[r.key].resp = [by |-> a, failed |-> failed]
    <3>1. receipts'[r.key] # None
      BY <1>0, <1>2, EndsKeeps
    <3>2. Decision(r.key)' = receipts'[r.key].resp
      BY <3>1 DEF Decision
    <3> QED BY <2>0, <2>1, <3>2
  <2> QED BY <1>2, <2>0, <2>1, <2>2, PromiseDecide
<1>3. ASSUME Silent
      PROVE  Goal
  <2>1. CASE UNCHANGED storeVars \/ \E k \in Keys, x \in BOOLEAN : Leases(k, x)
    <3>1. /\ \A s \in Services : Holder(s)' = Holder(s) /\ Records(s)' = Records(s)
          /\ \A k \in Keys : Decision(k)' = Decision(k)
      BY <1>0, <2>1, QuietStep
    <3> QED BY <1>3, <3>1, PromiseStutter
  <2>2. ASSUME NEW a \in Attempts, NEW r \in Requests, Begins(a, r)
        PROVE  Goal
    <3>0. r.key \in Keys /\ r.svc \in Services
      BY RequestFields
    <3>1. /\ \A s \in Services : Records(s)' = Records(s)
          /\ \A k \in Keys : Decision(k)' = Decision(k)
          /\ \/ \A s \in Services : Holder(s)' = Holder(s)
             \/ /\ Holder(r.svc) = None /\ Decision(r.key) = None
                /\ \A s \in Services : Holder(s) # r.key
                /\ \A s \in Services : Holder(s)' = IF s = r.svc THEN r.key ELSE Holder(s)
      BY <1>0, <2>2, BeginsSeen
    <3>2. CASE \A s \in Services : Holder(s)' = Holder(s)
      BY <1>3, <3>1, <3>2, PromiseStutter
    <3> QED BY <1>3, <3>0, <3>1, <3>2, PromiseBegin
  <2>3. ASSUME NEW a \in Attempts, NEW r \in Requests, Ends(a, r)
        PROVE  Goal
    BY <1>2, <1>3, <2>3
  <2> QED BY <1>1, <2>1, <2>2, <2>3 DEF OperationStep
<1>4. ASSUME NEW a \in Attempts, NEW k \in Keys, UNCHANGED storeVars, Finished(k),
             reply[a].resp = None, reply'[a].resp = receipts[k].resp, OthersSilent(a)
      PROVE  Goal
  <2>1. /\ \A s \in Services : Holder(s)' = Holder(s) /\ Records(s)' = Records(s)
        /\ \A j \in Keys : Decision(j)' = Decision(j)
    BY <1>0, <1>4, QuietStep
  <2>2. Decision(k) = receipts[k].resp
    BY <1>4 DEF Decision, Finished
  <2>3. receipts[k].resp \in Response
    <3>1. receipts[k] \in Receipt
      BY <1>0, <1>4 DEF Finished, StoreTypeOK
    <3>2. receipts[k].op \in Attempts /\ (receipts[k].state = "failed") \in BOOLEAN
      BY <3>1 DEF Receipt
    <3>3. receipts[k].resp = [by |-> receipts[k].op, failed |-> receipts[k].state = "failed"]
      BY <1>0, <1>4 DEF ReceiptShape, ReceiptDecodes
    <3> QED BY <3>2, <3>3 DEF Response
  <2>4. Decision(k) # None
    BY <2>2, <2>3, NoRowAssumption
  <2> QED BY <1>4, <2>1, <2>2, <2>4, PromiseRepeat
<1> HIDE DEF Goal
<1>5. Goal
  BY <1>1, <1>2, <1>3, <1>4 DEF AnswerStep
<1> QED BY <1>5 DEF Goal

\* The handlers start where the promise starts: nothing held, decided,
\* answered or recorded.
LEMMA PromiseStarts ==
  ASSUME Init
  PROVE  Promise!PromiseInit /\ PlainAnswers
<1>1. /\ \A k \in Keys : receipts[k] = None /\ creds[k] = None
      /\ \A s \in Services : services[s] = None /\ buckets[s] = None
      /\ \A a \in Attempts : reply[a].resp = None
  BY DEF Init, StoreInit, Plain
<1>2. \A s \in Services : Holder(s) = None
  BY <1>1 DEF Holder, InProgress
<1>3. \A s \in Services : Records(s) = {}
  BY <1>1 DEF Records
<1>4. \A k \in Keys : Decision(k) = None
  BY <1>1 DEF Decision
<1> QED BY <1>1, <1>2, <1>3, <1>4 DEF Promise!PromiseInit, PlainAnswers

\* Every behaviour of the handlers is a behaviour of OperationPromise: with
\* leases, takeovers, crashes, retries and late attempts, each key is decided
\* once and every final answer for it is that decision, one operation at a
\* time holds a service, and the rows of a service change only in the step
\* that decides its operation successfully.
THEOREM HandlersKeepPromise == Spec => KeepsPromise
<1>1. Init => PromiseInv /\ Promise!PromiseInit
  BY OperationInvInit, PromiseStarts DEF PromiseInv
<1>2. PromiseInv /\ [Next]_vars => PromiseInv'
  BY OperationInvNext, NextAnswerStep DEF PromiseInv, OperationInv
<1>3. PromiseInv /\ PromiseInv' /\ [Next]_vars => [Promise!PromiseNext]_(Promise!promiseVars)
  BY PromiseStep
<1> QED BY <1>1, <1>2, <1>3, PTL DEF Spec, KeepsPromise, Promise!PromiseSpec

=============================================================================
