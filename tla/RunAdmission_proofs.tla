------------------------- MODULE RunAdmission_proofs -------------------------
(* What RunAdmission keeps true for every number of dates, suffixes,        *)
(* handlers, request ids, legacy Runs and restarts.                         *)
EXTENDS RunAdmission, DateLock, FiniteSetTheorems, TLAPS

\* The cron's Runs from before admission existed have ids of their dates.
LEMMA LegacyIds == LegacyRuns \subseteq RunIds
BY LegacyAssumption, SuffixSpaceAssumption DEF RunIds

LEMMA InitType == Init => TypeOK
<1> SUFFICES ASSUME Init PROVE TypeOK
  OBVIOUS
<1> USE LegacyAssumption, LegacyIds, RestartAssumption, ClockAssumption
<1>1. status \in [RunIds -> RunStatus] /\ drafts \in [RunIds -> BOOLEAN]
  BY DEF Init, RunStatus
<1>2. meta \in [RunIds -> [origin : Origins, prior : NoneOr(RunIds), started : Nat]]
  <2>1. PICK at \in [LegacyRuns -> LegacyStarted] :
          meta = [r \in RunIds |->
                    [origin |-> "scheduled", prior |-> None,
                     started |-> IF r \in LegacyRuns THEN at[r] ELSE 0]]
    BY DEF Init
  <2>2. \A r \in RunIds : (IF r \in LegacyRuns THEN at[r] ELSE 0) \in Nat
    BY <2>1
  <2>3. QED
    BY <2>1, <2>2 DEF NoneOr, Origins
<1>3. QED
  BY <1>1, <1>2 DEF Init, TypeOK, NoAdmission, IdleHandler, Origins, AdmissionState,
    InstanceStatus, TerminalInstance, Pcs, HandlerPcs, RecoverPcs, NoneOr,
    IsLegacy
-----------------------------------------------------------------------------
(* Type correctness, in the three parts that actions leave alone or change: *)
(* the database, the Workflow instances with their creates, the handlers.   *)

AdmissionRow == [state : AdmissionState, request : NoneOr(Requests),
                 instanceStatus : InstanceStatus, entered : BOOLEAN,
                 finished : BOOLEAN, released : BOOLEAN]
DbTypeOK ==
  /\ status \in [RunIds -> RunStatus]
  /\ meta \in [RunIds -> [origin : Origins, prior : NoneOr(RunIds), started : Nat]]
  /\ adm \in [RunIds -> AdmissionRow]
  /\ retired \subseteq RunIds
  /\ op \in [RunIds -> {"idle", "open"}]
  /\ drafts \in [RunIds -> BOOLEAN]
ServiceTypeOK ==
  /\ inst \in [Instances -> [status : InstanceStatus, pc : Pcs,
                   restarts : 0 .. MaxRestarts,
                   packaged : {"none", "skip", "zero", "drafts"}]]
  /\ creates \in [RunIds -> Nat]
HandlerRecord == [pc : HandlerPcs, request : NoneOr(Requests),
                  origin : Origins, date : NoneOr(Dates), supersede : BOOLEAN,
                  at : 0 .. MaxClock, run : NoneOr(RunIds), prior : NoneOr(RunIds),
                  observed : InstanceStatus]
NamesItsRun(rec) == rec.pc \in RecoverPcs \cup {"admit"} => rec.run \in RunIds
HandlersTypeOK ==
  /\ hs \in [Handlers -> HandlerRecord]
  /\ \A h \in Handlers : NamesItsRun(hs[h])

LEMMA TypeParts == TypeOK <=> DbTypeOK /\ ServiceTypeOK /\ HandlersTypeOK
BY DEF TypeOK, DbTypeOK, AdmissionRow, ServiceTypeOK, HandlersTypeOK,
       HandlerRecord, NamesItsRun
LEMMA TypePartsNext == TypeOK' <=> DbTypeOK' /\ ServiceTypeOK' /\ HandlersTypeOK'
BY DEF TypeOK, DbTypeOK, AdmissionRow, ServiceTypeOK, HandlersTypeOK,
       HandlerRecord, NamesItsRun

LEMMA SetHType ==
  ASSUME HandlersTypeOK, NEW h \in Handlers, NEW rec \in HandlerRecord,
         NamesItsRun(rec), SetH(h, rec)
  PROVE  HandlersTypeOK'
BY DEF HandlersTypeOK, SetH, NamesItsRun

LEMMA IdleType == IdleHandler \in HandlerRecord /\ NamesItsRun(IdleHandler)
BY ClockAssumption DEF IdleHandler, HandlerRecord, NamesItsRun, HandlerPcs,
       RecoverPcs, NoneOr, Origins, InstanceStatus

LEMMA RespondType ==
  ASSUME HandlersTypeOK, NEW h \in Handlers, Respond(h)
  PROVE  HandlersTypeOK'
BY SetHType, IdleType DEF Respond

\* A handler that goes on at another await, with the Run it has.
LEMMA GotoType ==
  ASSUME HandlersTypeOK, NEW h \in Handlers, NEW pc \in HandlerPcs, Goto(h, pc),
         hs[h].pc \in RecoverPcs \cup {"admit"}
  PROVE  HandlersTypeOK'
<1> DEFINE rec == [hs[h] EXCEPT !.pc = pc]
<1>1. rec \in HandlerRecord /\ NamesItsRun(rec)
  BY DEF HandlersTypeOK, HandlerRecord, NamesItsRun
<1>2. QED
  BY <1>1, SetHType DEF Goto

LEMMA PriorPublishType == ASSUME NEW d PROVE PriorPublish(d) \subseteq NoneOr(RunIds)
BY DEF PriorPublish, Published, OnDate, NoneOr

LEMMA ByRequestType == ASSUME NEW q PROVE ByRequest(q) \subseteq RunIds
BY DEF ByRequest

LEMMA InstanceOfType ==
  ASSUME DbTypeOK, NEW r \in RunIds
  PROVE  InstanceOf(r) \in Instances /\ RunOf(InstanceOf(r)) = r
<1>1. CASE LegacyClaim(r)
  <2>1. <<"legacy", r>> \in Requests
    BY <1>1, NoneAssumption DEF LegacyClaim, DbTypeOK, AdmissionRow, NoneOr, Requests
  <2>2. r \in LegacyRuns
    BY <2>1 DEF Requests
  <2>3. QED
    BY <1>1, <2>2 DEF InstanceOf, Instances, RunOf
<1>2. CASE ~LegacyClaim(r)
  BY <1>2 DEF InstanceOf, Instances, RunOf
<1>3. QED
  BY <1>1, <1>2

(* The repository's batches.                                               *)
LEMMA AdmitType ==
  ASSUME DbTypeOK, NEW r \in RunIds, NEW request \in NoneOr(Requests),
         NEW supersede, NEW prior \in NoneOr(RunIds), NEW origin \in Origins,
         NEW at \in Nat, NEW state \in {"pending", "uncertain"},
         Admit(r, request, supersede, prior, origin, at, state)
  PROVE  DbTypeOK'
<1> USE DEF Admit, DbTypeOK
<1>1. status' \in [RunIds -> RunStatus]
  BY DEF RunStatus
<1>2. meta' \in [RunIds -> [origin : Origins, prior : NoneOr(RunIds), started : Nat]]
  OBVIOUS
<1>3. [NoAdmission EXCEPT !.state = state, !.request = request] \in AdmissionRow
  BY DEF NoAdmission, AdmissionRow, AdmissionState, NoneOr, InstanceStatus
<1>4. adm' \in [RunIds -> AdmissionRow]
  <2>1. \A q \in RunIds : [adm[q] EXCEPT !.released = TRUE] \in AdmissionRow
    BY DEF AdmissionRow
  <2>2. QED
    BY <1>3, <2>1
<1>5. retired' \subseteq RunIds
  BY DEF Retires, OnDate
<1>6. QED
  BY <1>1, <1>2, <1>4, <1>5

LEMMA RecordType ==
  ASSUME DbTypeOK, NEW r \in RunIds, NEW state \in AdmissionState,
         NEW observed \in InstanceStatus, Record(r, state, observed),
         UNCHANGED <<status, meta, retired, op, drafts>>
  PROVE  DbTypeOK'
<1> DEFINE ended == adm[r].finished \/ Ended(observed)
           row == [adm[r] EXCEPT !.state = state, !.instanceStatus = observed,
                                 !.finished = ended]
<1>1. adm[r] \in AdmissionRow
  BY DEF DbTypeOK
<1>2. ended \in BOOLEAN
  BY <1>1 DEF Ended, AdmissionRow
<1> HIDE DEF ended
<1>3. row \in AdmissionRow
  BY <1>1, <1>2 DEF AdmissionRow
<1>4. adm' = adm \/ adm' = [adm EXCEPT ![r] = row]
  BY Zenon DEF Record, DbTypeOK, ended
<1> HIDE DEF row
<1>5. QED
  BY <1>3, <1>4 DEF DbTypeOK

LEMMA AttachLegacyType ==
  ASSUME DbTypeOK, NEW r \in LegacyRuns, AttachLegacy(r),
         UNCHANGED <<status, meta, retired, op, drafts>>
  PROVE  DbTypeOK'
<1>1. r \in RunIds
  BY LegacyAssumption, LegacyIds
<1>2. [NoAdmission EXCEPT !.state = "uncertain", !.request = <<"legacy", r>>] \in AdmissionRow
  BY DEF NoAdmission, AdmissionRow, AdmissionState, NoneOr, InstanceStatus, Requests
<1>3. QED
  BY <1>1, <1>2 DEF AttachLegacy, DbTypeOK
-----------------------------------------------------------------------------
(* The request handlers.                                                   *)

LEMMA RecoverType ==
  ASSUME HandlersTypeOK, NEW h \in Handlers, NEW r \in RunIds, Recover(h, r)
  PROVE  HandlersTypeOK'
<1>1. \A pc \in {"submit", "unbound"} :
        LET rec == [IdleHandler EXCEPT !.pc = pc, !.run = r]
        IN  rec \in HandlerRecord /\ NamesItsRun(rec)
  BY IdleType DEF HandlerRecord, NamesItsRun, NoneOr, HandlerPcs, RecoverPcs
<1>2. QED
  BY <1>1, SetHType, RespondType DEF Recover

LEMMA RetryType ==
  ASSUME HandlersTypeOK, NEW h \in Handlers, NEW request, NEW origin, NEW d,
         Retry(h, request, origin, d)
  PROVE  HandlersTypeOK'
BY RecoverType, RespondType, ByRequestType DEF Retry

LEMMA TriggerType ==
  ASSUME HandlersTypeOK, NEW h \in Handlers, NEW request \in Requests,
         NEW origin \in Origins, NEW d \in Dates, NEW supersede \in BOOLEAN,
         Trigger(h, request, origin, d, supersede)
  PROVE  HandlersTypeOK'
<1> DEFINE rec(now) == [IdleHandler EXCEPT !.pc = "list", !.request = request,
                          !.origin = origin, !.date = d, !.supersede = supersede,
                          !.at = now]
<1>1. ASSUME NEW now \in Clock
      PROVE  rec(now) \in HandlerRecord /\ NamesItsRun(rec(now))
  <2>1. now \in 0 .. MaxClock
    BY ClockAssumption DEF Clock
  <2>2. QED
    BY <2>1, IdleType DEF HandlerRecord, NamesItsRun, NoneOr, HandlerPcs, RecoverPcs
<1>2. ASSUME NEW now \in Clock, SetH(h, rec(now)) PROVE HandlersTypeOK'
  <2>1. rec(now) \in HandlerRecord /\ NamesItsRun(rec(now))
    BY <1>1
  <2> HIDE DEF rec
  <2>2. QED
    BY <1>2, <2>1, SetHType
<1>3. QED
  BY <1>2, RetryType DEF Trigger

LEMMA ListRunsType ==
  ASSUME HandlersTypeOK, NEW h \in Handlers, ListRuns(h)
  PROVE  HandlersTypeOK'
<1>1. ASSUME NEW r \in NextFreeRunId(hs[h].date, hs[h].origin),
             NEW prior \in PriorPublish(hs[h].date),
             SetH(h, [hs[h] EXCEPT !.pc = "admit", !.run = r, !.prior = prior])
      PROVE  HandlersTypeOK'
  <2> DEFINE rec == [hs[h] EXCEPT !.pc = "admit", !.run = r, !.prior = prior]
  <2>1. r \in RunIds
    BY DEF NextFreeRunId, FreeOn
  <2>2. prior \in NoneOr(RunIds)
    BY PriorPublishType
  <2>3. rec \in HandlerRecord /\ NamesItsRun(rec)
    BY <2>1, <2>2 DEF HandlersTypeOK, HandlerRecord, NamesItsRun, NoneOr, HandlerPcs
  <2>4. QED
    BY <1>1, <2>3, SetHType
<1>2. QED
  BY <1>1, RespondType DEF ListRuns

LEMMA HandlerStepType ==
  ASSUME TypeOK, NEW h \in Handlers, HandlerStep(h)
  PROVE  TypeOK'
<1> USE TypeParts, TypePartsNext
<1>1. DbTypeOK /\ ServiceTypeOK /\ HandlersTypeOK
  OBVIOUS
<1>2. hs[h] \in HandlerRecord /\ NamesItsRun(hs[h])
  BY <1>1 DEF HandlersTypeOK
<1>3. UNCHANGED dbVars => DbTypeOK'
  BY <1>1 DEF dbVars, DbTypeOK
<1>4. UNCHANGED serviceVars => ServiceTypeOK'
  BY <1>1 DEF serviceVars, ServiceTypeOK
<1>5. CASE ListRuns(h)
  BY <1>1, <1>3, <1>4, <1>5, ListRunsType DEF ListRuns
<1>6. CASE AdmitRun(h)
  <2> DEFINE rec == [IdleHandler EXCEPT !.pc = "recover", !.run = hs[h].run]
  <2>1. hs[h].run \in RunIds
    BY <1>2, <1>6 DEF AdmitRun, NamesItsRun
  <2>2. rec \in HandlerRecord /\ NamesItsRun(rec)
    BY <2>1, IdleType DEF HandlerRecord, NamesItsRun, NoneOr, HandlerPcs, RecoverPcs
  <2>3. HandlersTypeOK'
    BY <1>1, <1>6, <2>2, SetHType DEF AdmitRun
  <2>4. DbTypeOK'
    BY <1>1, <1>2, <1>6, <2>1, AdmitType DEF AdmitRun, HandlerRecord
  <2>5. QED
    BY <1>4, <1>6, <2>3, <2>4 DEF AdmitRun
<1>7. CASE AdmitAborts(h)
  BY <1>1, <1>3, <1>4, <1>7, GotoType DEF AdmitAborts, HandlerPcs
<1>8. CASE Raced(h)
  BY <1>1, <1>3, <1>4, <1>8, RetryType, RespondType DEF Raced
<1> DEFINE r == hs[h].run
<1>9. hs[h].pc \in RecoverPcs => r \in RunIds
  BY <1>2 DEF NamesItsRun
<1>10. CASE RecoverAdmitted(h)
  BY <1>1, <1>3, <1>4, <1>9, <1>10, RecoverType DEF RecoverAdmitted, RecoverPcs
<1>11. CASE RecordUnavailable(h)
  <2>1. DbTypeOK'
    BY <1>1, <1>9, <1>11, RecordType
       DEF RecordUnavailable, RecoverPcs, AdmissionState, InstanceStatus
  <2>2. QED
    BY <1>1, <1>4, <1>11, <2>1, RespondType DEF RecordUnavailable
<1>12. CASE ClaimSubmission(h)
  <2>1. HandlersTypeOK'
    BY <1>1, <1>12, GotoType DEF ClaimSubmission, HandlerPcs, RecoverPcs
  <2> DEFINE row == [adm[r] EXCEPT !.state = "submitting"]
  <2>6. r \in RunIds /\ adm \in [RunIds -> AdmissionRow]
    BY <1>1, <1>9, <1>12 DEF ClaimSubmission, DbTypeOK, RecoverPcs
  <2>2. row \in AdmissionRow
    BY <2>6 DEF AdmissionRow, AdmissionState
  <2>3. adm' = adm \/ adm' = [adm EXCEPT ![r] = row]
    BY <1>12 DEF ClaimSubmission
  <2>4. DbTypeOK'
    <3> HIDE DEF row
    <3> QED  BY <1>1, <1>12, <2>2, <2>3, <2>6 DEF ClaimSubmission, DbTypeOK
  <2>5. QED
    BY <1>4, <1>12, <2>1, <2>4 DEF ClaimSubmission
<1>13. CASE SendCreate(h)
  <2>1. HandlersTypeOK'
    BY <1>1, <1>13, GotoType DEF SendCreate, HandlerPcs, RecoverPcs
  <2>2. ServiceTypeOK'
    BY <1>1, <1>9, <1>13 DEF SendCreate, ServiceTypeOK, RecoverPcs
  <2>3. QED
    BY <1>3, <1>13, <2>1, <2>2 DEF SendCreate
<1>14. CASE Inspect(h)
  <2>1. PICK observed \in Observable(r) :
          SetH(h, [hs[h] EXCEPT !.pc = "record", !.observed = observed])
    BY <1>14 DEF Inspect
  <2>2. r \in RunIds
    BY <1>9, <1>14 DEF Inspect, RecoverPcs
  <2>3. observed \in InstanceStatus
    BY <1>1, <2>1, <2>2, InstanceOfType DEF Observable, ServiceTypeOK, InstanceStatus
  <2> DEFINE rec == [hs[h] EXCEPT !.pc = "record", !.observed = observed]
  <2>4. rec \in HandlerRecord /\ NamesItsRun(rec)
    BY <1>2, <2>2, <2>3 DEF HandlerRecord, NamesItsRun, HandlerPcs, RecoverPcs
  <2>5. HandlersTypeOK'
    BY <1>1, <2>1, <2>4, SetHType
  <2>6. QED
    BY <1>3, <1>4, <1>14, <2>5 DEF Inspect
<1>15. CASE RecordReceipt(h)
  <2>1. ReceiptState(hs[h].observed) \in AdmissionState
    BY DEF ReceiptState, AdmissionState
  <2>2. hs[h].observed \in InstanceStatus
    BY <1>2 DEF HandlerRecord
  <2>3. DbTypeOK'
    BY <1>1, <1>9, <1>15, <2>1, <2>2, RecordType DEF RecordReceipt, RecoverPcs
  <2>4. HandlersTypeOK'
    BY <1>1, <1>15, GotoType, RespondType DEF RecordReceipt, HandlerPcs, RecoverPcs
  <2>5. QED
    BY <1>4, <1>15, <2>3, <2>4 DEF RecordReceipt
<1>16. CASE Reread(h)
  BY <1>1, <1>3, <1>4, <1>16, RespondType DEF Reread
<1>17. QED
  BY <1>5, <1>6, <1>7, <1>8, <1>10, <1>11, <1>12, <1>13, <1>14, <1>15, <1>16
     DEF HandlerStep

\* What starts a handler, ends it early, or needs none.
LEMMA HandlerNextType == TypeOK /\ HandlerNext => TypeOK'
<1> SUFFICES ASSUME TypeOK, HandlerNext PROVE TypeOK'
  OBVIOUS
<1> USE TypeParts, TypePartsNext
<1>1. DbTypeOK /\ ServiceTypeOK /\ HandlersTypeOK
  OBVIOUS
<1>2. UNCHANGED dbVars => DbTypeOK'
  BY <1>1 DEF dbVars, DbTypeOK
<1>3. UNCHANGED serviceVars => ServiceTypeOK'
  BY <1>1 DEF serviceVars, ServiceTypeOK
<1>4. ASSUME NEW h \in Handlers, TriggerOperator(h) PROVE TypeOK'
  <2>1. PICK k \in Keys, origin \in OperatorOrigins, d \in Dates, supersede \in BOOLEAN :
          Trigger(h, <<"operator", k>>, origin, d, supersede)
    BY <1>4 DEF TriggerOperator
  <2>2. <<"operator", k>> \in Requests /\ origin \in Origins
    BY OriginAssumption DEF Requests, Origins
  <2>3. QED
    BY <1>1, <1>2, <1>3, <2>1, <2>2, TriggerType DEF Trigger
<1>5. ASSUME NEW h \in Handlers, TriggerScheduled(h) PROVE TypeOK'
  <2>1. PICK d \in Dates : Trigger(h, <<"scheduled", d>>, "scheduled", d, FALSE)
    BY <1>5 DEF TriggerScheduled
  <2>2. <<"scheduled", d>> \in Requests /\ "scheduled" \in Origins
    BY DEF Requests, Origins
  <2>3. QED
    BY <1>1, <1>2, <1>3, <2>1, <2>2, TriggerType DEF Trigger
<1>6. ASSUME NEW h \in Handlers, NEW r \in RunIds, Check(h, r) PROVE TypeOK'
  BY <1>1, <1>2, <1>3, <1>6, RecoverType DEF Check
<1>7. ASSUME NEW h \in Handlers, Evict(h) PROVE TypeOK'
  BY <1>1, <1>2, <1>3, <1>7, RespondType DEF Evict
<1>8. ASSUME NEW r \in RunIds, ResolveDispatch(r) PROVE TypeOK'
  <2> DEFINE row == [adm[r] EXCEPT !.released = TRUE, !.state = "resolved"]
  <2>1. adm[r] \in AdmissionRow
    BY <1>1 DEF DbTypeOK
  <2>2. row \in AdmissionRow
    BY <2>1 DEF AdmissionRow, AdmissionState
  <2>3. adm' = [adm EXCEPT ![r] = row]
    BY <1>1, <1>8, Zenon DEF ResolveDispatch, DbTypeOK
  <2>4. row \in AdmissionRow /\ adm' = [adm EXCEPT ![r] = row]
    BY <2>2, <2>3
  <2>5. status' \in [RunIds -> RunStatus]
    BY <1>1, <1>8 DEF ResolveDispatch, DbTypeOK, RunStatus
  <2>6. DbTypeOK'
    <3> HIDE DEF row
    <3>1. adm' \in [RunIds -> AdmissionRow]
      BY <1>1, <2>4 DEF DbTypeOK
    <3>2. UNCHANGED <<meta, retired, op, drafts>>
      BY <1>8 DEF ResolveDispatch
    <3>3. QED
      BY <1>1, <2>5, <3>1, <3>2 DEF DbTypeOK
  <2>7. HandlersTypeOK'
    BY <1>1, <1>8 DEF ResolveDispatch, HandlersTypeOK
  <2>8. QED
    BY <1>3, <1>8, <2>6, <2>7 DEF ResolveDispatch
<1>9. QED
  BY <1>4, <1>5, <1>6, <1>7, <1>8, HandlerStepType DEF HandlerNext
-----------------------------------------------------------------------------
(* The Workflow service.                                                   *)

InstanceRecord == [status : InstanceStatus, pc : Pcs, restarts : 0 .. MaxRestarts,
                   packaged : {"none", "skip", "zero", "drafts"}]

LEMMA ReplaceInstance ==
  ASSUME ServiceTypeOK, NEW i \in Instances, NEW rec \in InstanceRecord,
         inst' = [inst EXCEPT ![i] = rec], UNCHANGED creates
  PROVE  ServiceTypeOK'
BY DEF ServiceTypeOK, InstanceRecord

LEMMA InstanceMoves ==
  ASSUME ServiceTypeOK, NEW i \in Instances, UNCHANGED creates,
         \/ \E pc \in Pcs : Go(i, pc)
         \/ \E result \in {"skip", "zero", "drafts"} : Packaged(i, result)
         \/ \E end \in InstanceStatus : Ends(i, end)
  PROVE  ServiceTypeOK'
<1>1. inst[i] \in InstanceRecord
  BY DEF ServiceTypeOK, InstanceRecord
<1>2. ASSUME NEW pc \in Pcs, Go(i, pc) PROVE ServiceTypeOK'
  <2> DEFINE rec == [inst[i] EXCEPT !.pc = pc]
  <2>1. rec \in InstanceRecord /\ inst' = [inst EXCEPT ![i] = rec]
    BY <1>1, <1>2 DEF Go, InstanceRecord
  <2>2. QED
    BY <2>1, ReplaceInstance
<1>3. ASSUME NEW result \in {"skip", "zero", "drafts"}, Packaged(i, result)
      PROVE  ServiceTypeOK'
  <2> DEFINE rec == [inst[i] EXCEPT !.pc = "route", !.packaged = result]
  <2>1. rec \in InstanceRecord /\ inst' = [inst EXCEPT ![i] = rec]
    BY <1>1, <1>3 DEF Packaged, InstanceRecord, Pcs
  <2>2. QED
    BY <2>1, ReplaceInstance
<1>4. ASSUME NEW end \in InstanceStatus, Ends(i, end) PROVE ServiceTypeOK'
  <2> DEFINE rec == [inst[i] EXCEPT !.status = end, !.pc = "dead",
                                    !.packaged = "none"]
  <2>1. rec \in InstanceRecord /\ inst' = [inst EXCEPT ![i] = rec]
    BY <1>1, <1>4 DEF Ends, InstanceRecord, Pcs
  <2>2. QED
    BY <2>1, ReplaceInstance
<1>5. QED
  BY <1>2, <1>3, <1>4

LEMMA RunOfType == \A i \in Instances : RunOf(i) \in RunIds
BY LegacyAssumption, LegacyIds DEF Instances, RunOf

LEMMA LegacyRunOf == \A i \in Instances : IsLegacy(i) => RunOf(i) \in LegacyRuns
BY DEF Instances, RunOf, IsLegacy

\* Setting flags of an admission row keeps the database typed.
LEMMA FlagsType ==
  ASSUME DbTypeOK, NEW r \in RunIds, NEW row \in AdmissionRow,
         adm' = adm \/ adm' = [adm EXCEPT ![r] = row],
         UNCHANGED <<status, meta, retired, op, drafts>>
  PROVE  DbTypeOK'
BY DEF DbTypeOK

LEMMA CompleteDailyStepType ==
  ASSUME DbTypeOK, NEW r \in RunIds, NEW end \in RunStatus,
         CompleteDailyStep(r, end), UNCHANGED <<meta, adm, retired, op, drafts>>
  PROVE  DbTypeOK'
BY DEF CompleteDailyStep, DbTypeOK

LEMMA WorkflowStepType ==
  ASSUME TypeOK, NEW i \in Instances, WorkflowStep(i)
  PROVE  TypeOK'
<1> USE TypeParts, TypePartsNext
<1> DEFINE r == RunOf(i)
<1>1. DbTypeOK /\ ServiceTypeOK /\ HandlersTypeOK /\ r \in RunIds
  BY RunOfType
<1>2. UNCHANGED dbVars => DbTypeOK'
  BY <1>1 DEF dbVars, DbTypeOK
<1>3. UNCHANGED rest => HandlersTypeOK' /\ UNCHANGED creates
  BY <1>1 DEF rest, HandlersTypeOK
<1>4. inst[i].status \in InstanceStatus /\ adm[r] \in AdmissionRow
  BY <1>1 DEF ServiceTypeOK, DbTypeOK
<1>5. CASE AttachLegacyRun(i)
  <2>1. DbTypeOK'
    BY <1>1, <1>5, LegacyRunOf, AttachLegacyType DEF AttachLegacyRun
  <2>2. QED
    BY <1>1, <1>3, <1>5, <2>1, InstanceMoves DEF AttachLegacyRun, Pcs
<1>6. CASE AttachLegacyAdmits(i)
  <2>1. <<"legacy", r>> \in NoneOr(Requests) /\ None \in NoneOr(RunIds)
    BY <1>6, LegacyRunOf DEF AttachLegacyAdmits, NoneOr, Requests
  <2>2. PICK now \in Clock :
          Admit(r, <<"legacy", r>>, FALSE, None, "scheduled", now, "uncertain")
    BY <1>6 DEF AttachLegacyAdmits
  <2>3. now \in Nat /\ r \in RunIds /\ "scheduled" \in Origins
    BY <1>6, ClockAssumption, LegacyRunOf, LegacyIds
    DEF AttachLegacyAdmits, Clock, Origins
  <2>4. DbTypeOK'
    BY <1>1, <2>1, <2>2, <2>3, AdmitType
  <2>5. QED
    BY <1>1, <1>3, <1>6, <2>4, InstanceMoves DEF AttachLegacyAdmits, Pcs
<1>7. CASE ClaimLegacy(i)
  <2>1. DbTypeOK'
    BY <1>1, <1>7, LegacyRunOf, AttachLegacyType DEF ClaimLegacy
  <2>2. QED
    BY <1>1, <1>3, <1>7, <2>1, InstanceMoves DEF ClaimLegacy, Pcs
<1>8. CASE Enter(i)
  <2> DEFINE row == [adm[r] EXCEPT !.entered = TRUE, !.finished = FALSE]
  <2>1. row \in AdmissionRow /\ adm' = [adm EXCEPT ![r] = row]
    BY <1>4, <1>8 DEF Enter, AdmissionRow
  <2>2. DbTypeOK'
    BY <1>1, <1>8, <2>1, FlagsType DEF Enter
  <2>3. PICK pc \in Pcs : Go(i, pc)
    BY <1>8 DEF Enter, Pcs
  <2>4. QED
    BY <1>1, <1>3, <1>8, <2>2, <2>3, InstanceMoves DEF Enter
<1>9. CASE Package(i)
  <2>1. \/ \E pc \in Pcs : Go(i, pc)
        \/ \E result \in {"skip", "zero", "drafts"} : Packaged(i, result)
    BY <1>9 DEF Package, Pcs
  <2>2. QED
    BY <1>1, <1>2, <1>3, <1>9, <2>1, InstanceMoves DEF Package
<1>10. CASE MonitorDone(i)
  <2>1. \/ \E pc \in Pcs : Go(i, pc)
        \/ \E result \in {"skip", "zero", "drafts"} : Packaged(i, result)
    BY <1>10 DEF MonitorDone, Pcs
  <2>2. QED
    BY <1>1, <1>2, <1>3, <1>10, <2>1, InstanceMoves DEF MonitorDone
<1>11. CASE ZeroFinish(i)
  <2>1. DbTypeOK'
    BY <1>1, <1>11, CompleteDailyStepType DEF ZeroFinish, RunStatus
  <2>2. QED
    BY <1>1, <1>3, <1>11, <2>1, InstanceMoves DEF ZeroFinish
<1>12. CASE Route(i)
  <2>1. \E pc \in Pcs : Go(i, pc)
    BY <1>12 DEF Route, Pcs
  <2>2. QED
    BY <1>1, <1>2, <1>3, <1>12, <2>1, InstanceMoves DEF Route
<1>13. CASE ReviewDone(i)
  <2>1. DbTypeOK'
    BY <1>1, <1>13, CompleteDailyStepType DEF ReviewDone, RunStatus
  <2>2. QED
    BY <1>1, <1>3, <1>13, <2>1, InstanceMoves DEF ReviewDone, Pcs
<1>14. CASE Finish(i)
  <2> DEFINE row == [adm[r] EXCEPT !.finished = TRUE]
  <2>1. row \in AdmissionRow /\ (adm' = adm \/ adm' = [adm EXCEPT ![r] = row])
    BY <1>4, <1>14 DEF Finish, AdmissionRow
  <2>2. DbTypeOK'
    BY <1>1, <1>14, <2>1, FlagsType DEF Finish
  <2>3. QED
    BY <1>1, <1>3, <1>14, <2>2, InstanceMoves DEF Finish, Pcs
<1>15. CASE CompleteInstance(i)
  BY <1>1, <1>2, <1>3, <1>15, InstanceMoves DEF CompleteInstance, InstanceStatus,
     TerminalInstance
<1>16. CASE Throw(i)
  <2>1. \E end \in InstanceStatus : Ends(i, end)
    BY <1>4, <1>16 DEF Throw, InstanceStatus, TerminalInstance
  <2>2. QED
    BY <1>1, <1>2, <1>3, <1>16, <2>1, InstanceMoves DEF Throw
<1>17. CASE BodyEnds(i)
  BY <1>1, <1>2, <1>3, <1>4, <1>17, InstanceMoves DEF BodyEnds
<1>18. QED
  BY <1>5, <1>6, <1>7, <1>8, <1>9, <1>10, <1>11, <1>12, <1>13, <1>14, <1>15,
     <1>16, <1>17 DEF WorkflowStep

LEMMA ServiceNextType == TypeOK /\ ServiceNext => TypeOK'
<1> SUFFICES ASSUME TypeOK, ServiceNext PROVE TypeOK'
  OBVIOUS
<1> USE TypeParts, TypePartsNext
<1>1. DbTypeOK /\ ServiceTypeOK /\ HandlersTypeOK
  OBVIOUS
<1>2. UNCHANGED dbVars => DbTypeOK'
  BY <1>1 DEF dbVars, DbTypeOK
<1>3. UNCHANGED rest => HandlersTypeOK' /\ UNCHANGED creates
  BY <1>1 DEF rest, HandlersTypeOK
<1>4. \A i \in Instances : inst[i] \in InstanceRecord
  BY <1>1 DEF ServiceTypeOK, InstanceRecord
<1>5. ASSUME NEW r \in RunIds, AcceptCreate(r) PROVE TypeOK'
  <2> DEFINE i == <<"daily", r>>
             rec == [inst[i] EXCEPT !.status = "running", !.pc = "enter"]
  <2>1. i \in Instances
    BY DEF Instances
  <2>2. rec \in InstanceRecord /\ inst' = [inst EXCEPT ![i] = rec]
    BY <1>4, <1>5, <2>1 DEF AcceptCreate, InstanceRecord, InstanceStatus, Pcs
  <2>3. UNCHANGED <<creates, hs>> /\ UNCHANGED dbVars
    BY <1>5 DEF AcceptCreate
  <2>4. HandlersTypeOK'
    BY <1>1, <2>3 DEF HandlersTypeOK
  <2>5. QED
    BY <1>1, <1>2, <2>1, <2>2, <2>3, <2>4, ReplaceInstance
<1>6. ASSUME NEW i \in Instances, MonitorDraft(i) PROVE TypeOK'
  <2>1. DbTypeOK'
    BY <1>1, <1>6, RunOfType DEF MonitorDraft, DbTypeOK
  <2>2. ServiceTypeOK'
    BY <1>1, <1>3, <1>6 DEF MonitorDraft, ServiceTypeOK
  <2>3. QED
    BY <1>3, <1>6, <2>1, <2>2 DEF MonitorDraft
<1>7. ASSUME NEW i \in Instances, GiveUp(i) PROVE TypeOK'
  <2> DEFINE rec == [inst[i] EXCEPT !.status = "errored"]
  <2>1. rec \in InstanceRecord
    BY <1>4 DEF InstanceRecord, InstanceStatus, TerminalInstance
  <2>2. Ends(i, "errored") \/ inst' = [inst EXCEPT ![i] = rec]
    BY <1>7 DEF GiveUp
  <2>3. ServiceTypeOK'
    BY <1>1, <1>3, <1>7, <2>1, <2>2, ReplaceInstance, InstanceMoves
       DEF GiveUp, InstanceStatus, TerminalInstance
  <2>4. QED
    BY <1>2, <1>3, <1>7, <2>3 DEF GiveUp
<1>8. ASSUME NEW i \in Instances, Replay(i) PROVE TypeOK'
  <2>1. PICK pc \in Pcs, packaged \in {"none", "skip", "zero", "drafts"} :
          inst' = [inst EXCEPT ![i].pc = pc, ![i].packaged = packaged]
    BY <1>4, <1>8 DEF Replay, FirstPc, Pcs, InstanceRecord
  <2> DEFINE rec == [inst[i] EXCEPT !.pc = pc, !.packaged = packaged]
  <2>2. rec \in InstanceRecord /\ inst' = [inst EXCEPT ![i] = rec]
    BY <1>4, <2>1 DEF InstanceRecord
  <2>3. QED
    BY <1>1, <1>2, <1>3, <1>8, <2>2, ReplaceInstance DEF Replay
<1>9. ASSUME NEW i \in Instances, Restart(i) PROVE TypeOK'
  <2> DEFINE rec == [inst[i] EXCEPT !.status = "running", !.pc = FirstPc(i),
                                    !.restarts = @ + 1]
  <2>1. inst[i].restarts \in 0 .. MaxRestarts /\ inst[i].restarts < MaxRestarts
    BY <1>4, <1>9 DEF Restart, InstanceRecord
  <2>2. inst[i].restarts + 1 \in 0 .. MaxRestarts
    BY <2>1, RestartAssumption
  <2>3. rec \in InstanceRecord
    BY <1>4, <2>2 DEF InstanceRecord, InstanceStatus, FirstPc, Pcs
  <2>4. inst' = [inst EXCEPT ![i] = rec]
    BY <1>4, <1>9 DEF Restart, InstanceRecord
  <2>5. QED
    BY <1>1, <1>2, <1>3, <1>9, <2>3, <2>4, ReplaceInstance DEF Restart
<1>10. QED
  BY <1>5, <1>6, <1>7, <1>8, <1>9, WorkflowStepType DEF ServiceNext

LEMMA RunNextType == TypeOK /\ RunNext => TypeOK'
<1> SUFFICES ASSUME TypeOK, NEW r \in RunIds,
                    Reserve(r) \/ EndOperation(r) \/ BudgetStop(r) \/ Decide(r)
             PROVE  TypeOK'
  BY DEF RunNext
<1> USE TypeParts, TypePartsNext
<1>1. DbTypeOK'
  BY DEF Reserve, EndOperation, BudgetStop, Decide, runRest, DbTypeOK, RunStatus
<1>2. ServiceTypeOK' /\ HandlersTypeOK'
  BY DEF Reserve, EndOperation, BudgetStop, Decide, runRest, rest,
         ServiceTypeOK, HandlersTypeOK
<1>3. QED
  BY <1>1, <1>2

LEMMA StutterType == TypeOK /\ UNCHANGED vars => TypeOK'
BY DEF vars, TypeOK

\* Every row, instance and handler keeps the shape its table or type gives it.
THEOREM TypeCorrect == Spec => []TypeOK
<1>1. TypeOK /\ [Next]_vars => TypeOK'
  BY HandlerNextType, ServiceNextType, RunNextType, StutterType DEF Next
<1>2. QED
  BY <1>1, InitType, PTL DEF Spec
-----------------------------------------------------------------------------
(* The date lock.  AdmissionInv depends on an admission's existence and     *)
(* release, on retirements, and on which Runs exist and are live.           *)

\* A step that changes no such thing, or only ends work, keeps the invariant.
LEMMA WorkOnlyEnds ==
  ASSUME AdmissionInv, UNCHANGED retired,
         \A r \in RunIds : /\ Admitted(r)' = Admitted(r)
                           /\ adm'[r].released = adm[r].released
                           /\ Exists(r)' = Exists(r)
                           /\ Live(r)' => Live(r)
                           /\ ~Settled(r)' => Exists(r)
  PROVE  AdmissionInv'
<1> USE DEF AdmissionInv, SameDate
<1>1. RowsExist'
  BY DEF RowsExist
<1>2. OneOwnerPerDate'
  BY DEF OneOwnerPerDate, OwnsDate
<1>3. AdmittedWorkIsAlone'
  BY DEF AdmittedWorkIsAlone
<1>4. FencedIsSettled'
  BY DEF FencedIsSettled, Fenced
<1>5. QED
  BY <1>1, <1>2, <1>3, <1>4

LEMMA AdmitKeepsLock ==
  ASSUME DbTypeOK, AdmissionInv, NEW r \in RunIds, NEW request, NEW supersede,
         NEW prior, NEW origin, NEW at, NEW state \in {"pending", "uncertain"},
         Admit(r, request, supersede, prior, origin, at, state)
  PROVE  AdmissionInv'
<1> DEFINE Others == RunIds \ {r}
<1>1. ~Exists(r) /\ ~Admitted(r) /\ r \notin retired
  BY DEF Admit, AdmitOk, AdmissionInv, RowsExist
<1>2. /\ Exists(r)'
      /\ \A q \in Others : status'[q] = status[q]
  BY DEF Admit, DbTypeOK, Exists
<1>3. /\ Admitted(r)' /\ adm'[r].released = FALSE
      /\ \A q \in Others : Admitted(q)' = Admitted(q)
  BY DEF Admit, DbTypeOK, AdmissionRow, NoAdmission, Admitted
<1>4. \A q \in SameDate(r) \ {r} : ~OwnsDate(q)' /\ ~Live(q) /\ ~Live(q)'
  <2> SUFFICES ASSUME NEW q \in SameDate(r) \ {r}
               PROVE  ~OwnsDate(q)' /\ ~Live(q) /\ ~Live(q)'
    OBVIOUS
  <2>1. CASE Exists(q)
    <3>1. q \in OnDate(DateOf(r))
      BY <2>1 DEF OnDate, SameDate
    <3>2. ~Live(q) /\ (OwnsDate(q) => Releasable(q))
      BY <3>1 DEF Admit, AdmitOk, NothingLive, ClaimsReleased
    <3>3. ~Live(q)'
      BY <1>2, <3>2 DEF Live, Settled, Admit, SameDate
    <3>4. ~OwnsDate(q)'
      BY <1>3, <3>2 DEF Admit, DbTypeOK, AdmissionRow, SameDate, OwnsDate, Admitted
    <3>5. QED
      BY <3>2, <3>3, <3>4
  <2>2. CASE ~Exists(q)
    <3>1. ~OwnsDate(q)'
      BY <1>3, <2>2 DEF AdmissionInv, RowsExist, OwnsDate, SameDate
    <3>2. ~Live(q)
      BY <2>2 DEF AdmissionInv, RowsExist, Live, LiveStatus, Exists, SameDate
    <3>3. ~Live(q)'
      BY <1>2, <3>2 DEF Live, Settled, Admit, SameDate
    <3>4. QED
      BY <3>1, <3>2, <3>3
  <2>3. QED
    BY <2>1, <2>2
<1>5. \A q \in Others : /\ Exists(q)' = Exists(q)
                        /\ Live(q)' = Live(q)
                        /\ adm[q].released => adm'[q].released
  BY <1>2 DEF Exists, Live, Settled, Admit, DbTypeOK, AdmissionRow
<1>6. \A q \in RunIds : q \in retired' => q \in retired \/ q \in OnDate(DateOf(r))
  BY DEF Admit, Retires
<1>7. RowsExist'
  <2> SUFFICES ASSUME NEW q \in RunIds, (Admitted(q) \/ q \in retired \/ ~Settled(q))'
               PROVE  Exists(q)'
    BY DEF RowsExist
  <2>1. CASE q = r
    BY <1>2, <2>1
  <2>2. CASE q # r
    BY <1>3, <1>5, <1>6, <2>2
       DEF AdmissionInv, RowsExist, OnDate, Admit, Settled
  <2>3. QED
    BY <2>1, <2>2
<1>8. OneOwnerPerDate'
  <2> SUFFICES ASSUME NEW p \in RunIds, NEW q \in SameDate(p),
                      OwnsDate(p)', OwnsDate(q)'
               PROVE  p = q
    BY DEF OneOwnerPerDate, SameDate
  <2>1. CASE DateOf(p) = DateOf(r)
    BY <1>4, <2>1 DEF SameDate
  <2>2. CASE DateOf(p) # DateOf(r)
    <3>1. adm'[p] = adm[p] /\ adm'[q] = adm[q]
      BY <2>2 DEF Admit, SameDate
    <3>2. QED
      BY <3>1 DEF AdmissionInv, OneOwnerPerDate, OwnsDate, Admitted, SameDate
  <2>3. QED
    BY <2>1, <2>2
<1>9. AdmittedWorkIsAlone'
  <2> SUFFICES ASSUME NEW p \in RunIds, Admitted(p)', Live(p)',
                      NEW q \in SameDate(p) \ {p}
               PROVE  ~Live(q)'
    BY DEF AdmittedWorkIsAlone, SameDate
  <2>1. CASE DateOf(p) = DateOf(r)
    BY <1>4, <2>1 DEF SameDate
  <2>2. CASE DateOf(p) # DateOf(r)
    BY <1>3, <1>5, <2>2 DEF AdmissionInv, AdmittedWorkIsAlone, SameDate
  <2>3. QED
    BY <2>1, <2>2
<1>10. FencedIsSettled'
  <2> SUFFICES ASSUME NEW q \in RunIds, Fenced(q)' PROVE ~Live(q)'
    BY DEF FencedIsSettled
  <2>1. CASE q = r
    BY <1>1, <1>3, <2>1 DEF Fenced, Admit, Retires, OnDate
  <2>2. CASE q # r /\ DateOf(q) = DateOf(r)
    BY <1>4, <2>2 DEF SameDate
  <2>3. CASE DateOf(q) # DateOf(r)
    BY <1>3, <1>5, <1>6, <2>3
       DEF AdmissionInv, FencedIsSettled, Fenced, OnDate, Admit, SameDate
  <2>4. QED
    BY <2>1, <2>2, <2>3
<1>11. QED
  BY <1>7, <1>8, <1>9, <1>10 DEF AdmissionInv

LEMMA AttachKeepsLock ==
  ASSUME DbTypeOK, AdmissionInv, NEW r \in LegacyRuns, AttachLegacy(r),
         UNCHANGED <<status, retired, op>>
  PROVE  AdmissionInv'
<1>1. r \in RunIds /\ Exists(r) /\ ~Fenced(r)
  BY LegacyAssumption, LegacyIds DEF AttachLegacy, AttachLegacyOk, Owned, Fenced
<1>2. \A q \in SameDate(r) \ {r} : ~OwnsDate(q) /\ ~Live(q)
  BY DEF AttachLegacy, AttachLegacyOk, Owned, WorksAlone, AdmissionInv, RowsExist,
         Live, LiveStatus, Exists, SameDate
<1>3. \A q \in RunIds : Exists(q)' = Exists(q) /\ Live(q)' = Live(q)
  BY DEF Exists, Live, Settled
<1>4. CASE Admitted(r)
  BY <1>3, <1>4, WorkOnlyEnds
     DEF AttachLegacy, Admitted, Settled, AdmissionInv, RowsExist
<1>5. CASE ~Admitted(r)
  <2>1. /\ Admitted(r)' /\ adm'[r].released = FALSE
        /\ \A q \in RunIds \ {r} : adm'[q] = adm[q]
    BY <1>1, <1>5 DEF AttachLegacy, DbTypeOK, AdmissionRow, NoAdmission, Admitted
  <2>2. RowsExist'
    BY <1>1, <1>3, <2>1 DEF AdmissionInv, RowsExist, Admitted, Settled
  <2>3. OneOwnerPerDate'
    BY <1>1, <1>2, <2>1 DEF AdmissionInv, OneOwnerPerDate, OwnsDate, Admitted, SameDate
  <2>4. AdmittedWorkIsAlone'
    BY <1>1, <1>2, <1>3, <2>1
       DEF AdmissionInv, AdmittedWorkIsAlone, Admitted, SameDate
  <2>5. FencedIsSettled'
    BY <1>1, <1>3, <2>1 DEF AdmissionInv, FencedIsSettled, Fenced, Admitted
  <2>6. QED
    BY <2>2, <2>3, <2>4, <2>5 DEF AdmissionInv
<1>6. QED
  BY <1>4, <1>5

LEMMA ResolveKeepsLock ==
  ASSUME DbTypeOK, AdmissionInv, NEW r \in RunIds, ResolveDispatch(r)
  PROVE  AdmissionInv'
<1>1. /\ Admitted(r) /\ ~adm[r].released /\ Settled(r) /\ Exists(r)
      /\ status[r] # "awaiting"
  BY DEF ResolveDispatch, CanResolve, OwnsDate, NotAtTheGate, AdmissionInv, RowsExist
<1>2. /\ Admitted(r)' /\ Exists(r)' /\ ~Live(r)'
  BY <1>1 DEF ResolveDispatch, DbTypeOK, AdmissionRow, Admitted, Exists, Live,
              LiveStatus, Settled
<1>3. \A q \in RunIds \ {r} : /\ adm'[q] = adm[q]
                              /\ status'[q] = status[q]
  BY DEF ResolveDispatch, DbTypeOK
<1>4. \A q \in RunIds : /\ Exists(q)' = Exists(q)
                        /\ Live(q)' => Live(q)
                        /\ OwnsDate(q)' => OwnsDate(q)
                        /\ Admitted(q)' = Admitted(q)
  BY <1>1, <1>2, <1>3 DEF Exists, Live, Settled, OwnsDate, Admitted, ResolveDispatch
<1>5. UNCHANGED <<retired, op>>
  BY DEF ResolveDispatch
<1>6. RowsExist'
  BY <1>4, <1>5 DEF AdmissionInv, RowsExist, Settled
<1>7. OneOwnerPerDate'
  BY <1>4 DEF AdmissionInv, OneOwnerPerDate, SameDate
<1>8. AdmittedWorkIsAlone'
  BY <1>4 DEF AdmissionInv, AdmittedWorkIsAlone, SameDate
<1>9. FencedIsSettled'
  BY <1>2, <1>3, <1>4, <1>5 DEF AdmissionInv, FencedIsSettled, Fenced
<1>10. QED
  BY <1>6, <1>7, <1>8, <1>9 DEF AdmissionInv

\* Every other step of a Run: its row stays, it never becomes live, and nothing
\* about admissions and retirements changes.  (Only a Run that exists and is
\* live opens a paid operation.)
LEMMA RunStepsKeepLock ==
  ASSUME DbTypeOK, AdmissionInv, UNCHANGED <<adm, retired>>, NEW r \in RunIds,
         \/ /\ UNCHANGED op
            /\ \E end \in RunStatus \ {"absent"} :
                 /\ Exists(r)
                 /\ end \in LiveStatus => status[r] \in LiveStatus
                 /\ status' = [status EXCEPT ![r] = end]
         \/ UNCHANGED status /\ Reserve(r)
         \/ UNCHANGED status /\ EndOperation(r)
         \/ UNCHANGED <<status, op>>
  PROVE  AdmissionInv'
<1>1. \A q \in RunIds : /\ Admitted(q)' = Admitted(q)
                        /\ adm'[q].released = adm[q].released
  BY DEF Admitted
<1>2. \A q \in RunIds : /\ Exists(q)' = Exists(q)
                        /\ Live(q)' => Live(q)
                        /\ ~Settled(q)' => Exists(q)
  BY DEF DbTypeOK, Exists, Live, LiveStatus, Settled, Reserve, EndOperation,
         AdmissionInv, RowsExist
<1>3. QED
  BY <1>1, <1>2, WorkOnlyEnds

\* A step of an admission row that leaves its release and its existence alone.
LEMMA FlagsKeepLock ==
  ASSUME DbTypeOK, AdmissionInv, UNCHANGED <<status, retired, op>>,
         NEW r \in RunIds, NEW row \in AdmissionRow,
         adm' = adm \/ adm' = [adm EXCEPT ![r] = row],
         row.released = adm[r].released,
         (row.state # "absent") = Admitted(r)
  PROVE  AdmissionInv'
<1>1. \A q \in RunIds : /\ Admitted(q)' = Admitted(q)
                        /\ adm'[q].released = adm[q].released
  BY DEF Admitted, DbTypeOK
<1>2. \A q \in RunIds : /\ Exists(q)' = Exists(q)
                        /\ Live(q)' = Live(q)
                        /\ ~Settled(q)' => Exists(q)
  BY DEF Exists, Live, Settled, AdmissionInv, RowsExist
<1>3. QED
  BY <1>1, <1>2, WorkOnlyEnds

LEMMA UnchangedKeepsLock ==
  ASSUME AdmissionInv, UNCHANGED <<status, adm, retired, op>>
  PROVE  AdmissionInv'
BY DEF AdmissionInv, RowsExist, OneOwnerPerDate, AdmittedWorkIsAlone,
       FencedIsSettled, Fenced, OwnsDate, Admitted, Exists, Live, Settled, SameDate

LEMMA CompleteDailyStepKeepsLock ==
  ASSUME DbTypeOK, AdmissionInv, NEW r \in RunIds, NEW end \in {"closed", "awaiting"},
         CompleteDailyStep(r, end), UNCHANGED <<adm, retired, op>>
  PROVE  AdmissionInv'
<1>1. CASE status[r] = "running"
  <2>1. /\ end \in RunStatus \ {"absent"} /\ status[r] \in LiveStatus /\ Exists(r)
        /\ status' = [status EXCEPT ![r] = end]
    BY <1>1 DEF CompleteDailyStep, RunStatus, LiveStatus, Exists
  <2>2. QED
    BY <2>1, RunStepsKeepLock
<1>2. CASE status[r] # "running"
  <2>1. UNCHANGED status
    BY <1>2 DEF CompleteDailyStep, DbTypeOK
  <2>2. QED
    BY <2>1, UnchangedKeepsLock
<1>3. QED
  BY <1>1, <1>2

LEMMA HandlerNextKeepsLock == TypeOK /\ AdmissionInv /\ HandlerNext => AdmissionInv'
<1> SUFFICES ASSUME TypeOK, AdmissionInv, HandlerNext PROVE AdmissionInv'
  OBVIOUS
<1>1. DbTypeOK /\ HandlersTypeOK
  BY TypeParts
<1>2. UNCHANGED dbVars => AdmissionInv'
  BY UnchangedKeepsLock DEF dbVars
<1>3. ASSUME NEW h \in Handlers,
             TriggerOperator(h) \/ TriggerScheduled(h) \/ \E r \in RunIds : Check(h, r)
      PROVE  AdmissionInv'
  BY <1>2, <1>3 DEF TriggerOperator, TriggerScheduled, Trigger, Check
<1>4. ASSUME NEW h \in Handlers, HandlerStep(h) \/ Evict(h) PROVE AdmissionInv'
  <2> DEFINE r == hs[h].run
  <2>1. hs[h].pc \in RecoverPcs \cup {"admit"} => r \in RunIds /\ adm[r] \in AdmissionRow
    BY <1>1 DEF HandlersTypeOK, NamesItsRun, DbTypeOK
  <2>2. CASE AdmitRun(h)
    BY <1>1, <2>1, <2>2, AdmitKeepsLock DEF AdmitRun
  <2>3. CASE RecordUnavailable(h) \/ RecordReceipt(h)
    <3>1. r \in RunIds /\ adm[r] \in AdmissionRow
      BY <2>1, <2>3 DEF RecordUnavailable, RecordReceipt, RecoverPcs
    <3>2. PICK state \in {"unavailable", "confirmed", "uncertain"},
               observed \in InstanceStatus : Record(r, state, observed)
      BY <1>1, <2>3 DEF RecordUnavailable, RecordReceipt, ReceiptState, InstanceStatus,
                        HandlersTypeOK, HandlerRecord
    <3> DEFINE row == [adm[r] EXCEPT !.state = state, !.instanceStatus = observed,
                                     !.finished = @ \/ Ended(observed)]
    <3>3. CASE OwnsDate(r) /\ RecordApplies(r, state)
      <4>1. (adm[r].finished \/ Ended(observed)) \in BOOLEAN
        BY <3>1 DEF Ended, AdmissionRow
      <4>2. row \in AdmissionRow /\ row.released = adm[r].released
            /\ row.state # "absent" /\ Admitted(r)
        BY <3>1, <3>3, <4>1 DEF AdmissionRow, AdmissionState, OwnsDate
      <4>3. adm' = [adm EXCEPT ![r] = row]
        BY <1>1, <3>1, <3>2, <3>3 DEF Record, DbTypeOK, AdmissionRow
      <4>4. UNCHANGED <<status, retired, op>>
        BY <2>3 DEF RecordUnavailable, RecordReceipt
      <4>5. QED
        BY <1>1, <3>1, <4>2, <4>3, <4>4, FlagsKeepLock
    <3>4. CASE ~(OwnsDate(r) /\ RecordApplies(r, state))
      BY <2>3, <3>2, <3>4, UnchangedKeepsLock
         DEF Record, RecordUnavailable, RecordReceipt
    <3>5. QED
      BY <3>3, <3>4
  <2>4. CASE ClaimSubmission(h)
    <3> DEFINE row == [adm[r] EXCEPT !.state = "submitting"]
    <3>1. r \in RunIds /\ adm[r] \in AdmissionRow
      BY <2>1, <2>4 DEF ClaimSubmission, RecoverPcs
    <3>2. UNCHANGED <<status, retired, op>>
      BY <2>4 DEF ClaimSubmission
    <3>3. CASE Submittable(r)
      <4>1. row \in AdmissionRow /\ row.released = adm[r].released
            /\ row.state # "absent" /\ Admitted(r)
        BY <3>1, <3>3 DEF AdmissionRow, AdmissionState, Submittable, OwnsDate
      <4>2. adm' = [adm EXCEPT ![r] = row]
        BY <2>4, <3>3 DEF ClaimSubmission
      <4>3. QED
        BY <1>1, <3>1, <3>2, <4>1, <4>2, FlagsKeepLock
    <3>4. CASE ~Submittable(r)
      BY <2>4, <3>2, <3>4, UnchangedKeepsLock DEF ClaimSubmission
    <3>5. QED
      BY <3>3, <3>4
  <2>5. CASE \/ ListRuns(h) \/ AdmitAborts(h) \/ Raced(h) \/ RecoverAdmitted(h)
             \/ SendCreate(h) \/ Inspect(h) \/ Reread(h) \/ Evict(h)
    BY <1>2, <2>5 DEF ListRuns, AdmitAborts, Raced, RecoverAdmitted, SendCreate,
                      Inspect, Reread, Evict
  <2>6. QED
    BY <1>4, <2>2, <2>3, <2>4, <2>5 DEF HandlerStep
<1>5. ASSUME NEW r \in RunIds, ResolveDispatch(r) PROVE AdmissionInv'
  BY <1>1, <1>5, ResolveKeepsLock
<1>6. QED
  BY <1>3, <1>4, <1>5 DEF HandlerNext

LEMMA ServiceNextKeepsLock == TypeOK /\ AdmissionInv /\ ServiceNext => AdmissionInv'
<1> SUFFICES ASSUME TypeOK, AdmissionInv, ServiceNext PROVE AdmissionInv'
  OBVIOUS
<1>1. DbTypeOK
  BY TypeParts
<1>2. UNCHANGED dbVars => AdmissionInv'
  BY UnchangedKeepsLock DEF dbVars
<1>3. ASSUME NEW r \in RunIds, AcceptCreate(r) PROVE AdmissionInv'
  BY <1>2, <1>3 DEF AcceptCreate
<1>4. ASSUME NEW i \in Instances, GiveUp(i) \/ Replay(i) \/ Restart(i)
      PROVE  AdmissionInv'
  BY <1>2, <1>4 DEF GiveUp, Replay, Restart
<1>5. ASSUME NEW i \in Instances, MonitorDraft(i) PROVE AdmissionInv'
  BY <1>5, UnchangedKeepsLock DEF MonitorDraft
<1>6. ASSUME NEW i \in Instances, WorkflowStep(i) PROVE AdmissionInv'
  <2> DEFINE r == RunOf(i)
  <2>1. r \in RunIds /\ adm[r] \in AdmissionRow
    BY <1>1, RunOfType DEF DbTypeOK
  <2>2. CASE AttachLegacyRun(i) \/ ClaimLegacy(i)
    <3>1. r \in LegacyRuns
      BY <2>2, LegacyRunOf DEF AttachLegacyRun, ClaimLegacy
    <3>2. QED
      BY <1>1, <2>2, <3>1, AttachKeepsLock DEF AttachLegacyRun, ClaimLegacy
  <2>3. CASE AttachLegacyAdmits(i)
    BY <1>1, <2>1, <2>3, AdmitKeepsLock DEF AttachLegacyAdmits
  <2>4. CASE Enter(i)
    <3> DEFINE row == [adm[r] EXCEPT !.entered = TRUE, !.finished = FALSE]
    <3>1. row \in AdmissionRow /\ row.released = adm[r].released
          /\ row.state # "absent" /\ Admitted(r)
      BY <2>1, <2>4 DEF Enter, AdmissionRow, Admitted
    <3>2. adm' = [adm EXCEPT ![r] = row] /\ UNCHANGED <<status, retired, op>>
      BY <2>1, <2>4 DEF Enter, AdmissionRow
    <3>3. QED
      BY <1>1, <2>1, <3>1, <3>2, FlagsKeepLock
  <2>5. CASE Finish(i)
    <3> DEFINE row == [adm[r] EXCEPT !.finished = TRUE]
    <3>1. row \in AdmissionRow /\ row.released = adm[r].released
          /\ (row.state # "absent") = Admitted(r)
      BY <2>1 DEF AdmissionRow, Admitted
    <3>2. /\ adm' = adm \/ adm' = [adm EXCEPT ![r] = row]
          /\ UNCHANGED <<status, retired, op>>
      BY <2>5 DEF Finish
    <3>3. QED
      BY <1>1, <2>1, <3>1, <3>2, FlagsKeepLock
  <2>6. CASE ZeroFinish(i) \/ ReviewDone(i)
    BY <1>1, <2>1, <2>6, CompleteDailyStepKeepsLock DEF ZeroFinish, ReviewDone
  <2>7. CASE \/ Package(i) \/ MonitorDone(i) \/ Route(i) \/ CompleteInstance(i)
             \/ Throw(i) \/ BodyEnds(i)
    BY <1>2, <2>7 DEF Package, MonitorDone, Route, CompleteInstance, Throw, BodyEnds
  <2>8. QED
    BY <1>6, <2>2, <2>3, <2>4, <2>5, <2>6, <2>7 DEF WorkflowStep
<1>7. QED
  BY <1>3, <1>4, <1>5, <1>6 DEF ServiceNext

LEMMA RunNextKeepsLock == TypeOK /\ AdmissionInv /\ RunNext => AdmissionInv'
<1> SUFFICES ASSUME TypeOK, AdmissionInv, NEW r \in RunIds,
                    Reserve(r) \/ EndOperation(r) \/ BudgetStop(r) \/ Decide(r)
             PROVE  AdmissionInv'
  BY DEF RunNext
<1>1. DbTypeOK
  BY TypeParts
<1>2. CASE Reserve(r) \/ EndOperation(r)
  BY <1>1, <1>2, RunStepsKeepLock DEF Reserve, EndOperation, runRest
<1>3. CASE BudgetStop(r) \/ Decide(r)
  <2>1. PICK end \in {"stopped", "published", "closed"} :
          status' = [status EXCEPT ![r] = end]
    BY <1>3 DEF BudgetStop, Decide
  <2>2. Exists(r) /\ UNCHANGED <<adm, retired, op>>
    BY <1>3 DEF BudgetStop, Decide, Exists, runRest
  <2>3. QED
    BY <1>1, <2>1, <2>2, RunStepsKeepLock DEF RunStatus, LiveStatus
<1>4. QED
  BY <1>2, <1>3

LEMMA InitHasLock == Init => AdmissionInv
<1> SUFFICES ASSUME Init PROVE AdmissionInv
  OBVIOUS
<1>1. \A r \in RunIds : ~Admitted(r) /\ r \notin retired /\ Settled(r)
  BY DEF Init, NoAdmission, Admitted, Settled
<1>2. QED
  BY <1>1 DEF AdmissionInv, RowsExist, OneOwnerPerDate, AdmittedWorkIsAlone,
              FencedIsSettled, Fenced, OwnsDate, SameDate

\* The lock's invariant: every admission, retirement and unsettled operation is
\* of a Run that exists; one owner per date; admitted work is alone on its date;
\* what was fenced has no work left.
THEOREM AdmissionInvariant == Spec => []AdmissionInv
<1>1. TypeOK /\ AdmissionInv /\ [Next]_vars => AdmissionInv'
  <2>1. AdmissionInv /\ UNCHANGED vars => AdmissionInv'
    BY UnchangedKeepsLock DEF vars
  <2>2. QED
    BY <2>1, HandlerNextKeepsLock, ServiceNextKeepsLock, RunNextKeepsLock DEF Next
<1>2. QED
  BY <1>1, TypeCorrect, InitHasLock, PTL DEF Spec

\* At most one unreleased admission per date, and the work of an admitted Run
\* is the only work of its date, for every interleaving of handlers, Workflows,
\* the gate and accounting.
THEOREM AdmissionIsExclusive == Spec => [](OneOwnerPerDate /\ AdmittedWorkIsAlone)
<1>1. AdmissionInv => OneOwnerPerDate /\ AdmittedWorkIsAlone
  BY DEF AdmissionInv
<1>2. QED
  BY <1>1, AdmissionInvariant, PTL

\* What was released or retired is not running, not at its gate and has no
\* unsettled paid operation: the unfenced writes cannot reach it.
THEOREM FencedStaysSettled == Spec => []FencedIsSettled
<1>1. AdmissionInv => FencedIsSettled
  BY DEF AdmissionInv
<1>2. QED
  BY <1>1, AdmissionInvariant, PTL
-----------------------------------------------------------------------------
(* What a step of anyone does to the rows: an admission, the adoption of a  *)
(* legacy Run, a receipt or flag on an admission, the end of work, a        *)
(* resolution, a paid operation, a Draft, or nothing.                       *)

AdmitStep ==
  \/ \E h \in Handlers :
       /\ hs[h].pc = "admit"
       /\ Admit(hs[h].run, hs[h].request, hs[h].supersede, hs[h].prior,
                hs[h].origin, hs[h].at, "pending")
  \/ \E r \in LegacyRuns :
       (\E now \in Clock : Admit(r, <<"legacy", r>>, FALSE, None, "scheduled", now, "uncertain"))
AdoptStep(r) ==
  /\ ~Admitted(r) /\ AttachLegacy(r)
  /\ UNCHANGED <<status, meta, retired, op, drafts>>
FlagStep(r) ==
  /\ Admitted(r)
  /\ \E row \in AdmissionRow :
       /\ adm' = [adm EXCEPT ![r] = row]
       /\ row.released = adm[r].released /\ row.request = adm[r].request
       /\ row.state # "absent"
       /\ row.state \in {"pending", "unavailable"} =>
            adm[r].state \in {"pending", "unavailable"}
  /\ UNCHANGED <<status, meta, retired, op, drafts>>
WorkStep(r) ==
  /\ status[r] \in LiveStatus
  /\ \E end \in RunStatus \ {"absent", "running"} :
       /\ status' = [status EXCEPT ![r] = end]
       /\ end = "published" => status[r] = "awaiting"
  /\ UNCHANGED <<meta, adm, retired, op, drafts>>
DraftStep(r) ==
  /\ Owned(r)
  /\ drafts' = [drafts EXCEPT ![r] = TRUE]
  /\ UNCHANGED <<status, meta, adm, retired, op>>
RowStep ==
  \/ AdmitStep
  \/ \E r \in LegacyRuns : AdoptStep(r)
  \/ \E r \in RunIds : \/ FlagStep(r) \/ WorkStep(r) \/ ResolveDispatch(r)
                       \/ Reserve(r) \/ EndOperation(r) \/ DraftStep(r)
  \/ UNCHANGED dbVars

LEMMA RecordIsFlag ==
  ASSUME DbTypeOK, NEW r \in RunIds, NEW observed \in InstanceStatus,
         NEW state \in {"unavailable", "confirmed", "uncertain"},
         Record(r, state, observed), UNCHANGED <<status, meta, retired, op, drafts>>
  PROVE  FlagStep(r) \/ UNCHANGED dbVars
<1> DEFINE row == [adm[r] EXCEPT !.state = state, !.instanceStatus = observed,
                                 !.finished = @ \/ Ended(observed)]
<1>1. adm[r] \in AdmissionRow
  BY DEF DbTypeOK
<1>2. CASE OwnsDate(r) /\ RecordApplies(r, state)
  <2>1. (adm[r].finished \/ Ended(observed)) \in BOOLEAN
    BY <1>1 DEF Ended, AdmissionRow
  <2>2. row \in AdmissionRow
    BY <1>1, <2>1 DEF AdmissionRow, AdmissionState
  <2>3. /\ row.released = adm[r].released /\ row.request = adm[r].request
        /\ row.state = state /\ Admitted(r)
        /\ state = "unavailable" => adm[r].state = "pending"
    BY <1>1, <1>2 DEF AdmissionRow, OwnsDate, RecordApplies
  <2>4. adm' = [adm EXCEPT ![r] = row]
    BY <1>2 DEF Record, DbTypeOK, AdmissionRow
  <2> HIDE DEF row
  <2>5. QED
    BY <2>2, <2>3, <2>4 DEF FlagStep
<1>3. CASE ~(OwnsDate(r) /\ RecordApplies(r, state))
  BY <1>3 DEF Record, dbVars
<1>4. QED
  BY <1>2, <1>3

LEMMA CompleteIsWork ==
  ASSUME DbTypeOK, NEW r \in RunIds, NEW end \in {"closed", "awaiting"},
         CompleteDailyStep(r, end), UNCHANGED <<meta, adm, retired, op, drafts>>
  PROVE  WorkStep(r) \/ UNCHANGED dbVars
<1>1. CASE status[r] = "running"
  BY <1>1 DEF CompleteDailyStep, WorkStep, LiveStatus, RunStatus
<1>2. CASE status[r] # "running"
  BY <1>2 DEF CompleteDailyStep, dbVars, DbTypeOK
<1>3. QED
  BY <1>1, <1>2

LEMMA HandlerRowStep == TypeOK /\ HandlerNext => RowStep
<1> SUFFICES ASSUME TypeOK, HandlerNext PROVE RowStep
  OBVIOUS
<1>1. DbTypeOK /\ HandlersTypeOK
  BY TypeParts
<1>2. UNCHANGED dbVars => RowStep
  BY DEF RowStep
<1>3. ASSUME NEW h \in Handlers,
             TriggerOperator(h) \/ TriggerScheduled(h) \/ \E r \in RunIds : Check(h, r)
      PROVE  RowStep
  BY <1>2, <1>3 DEF TriggerOperator, TriggerScheduled, Trigger, Check
<1>4. ASSUME NEW h \in Handlers, HandlerStep(h) \/ Evict(h) PROVE RowStep
  <2> DEFINE r == hs[h].run
  <2>1. hs[h].pc \in RecoverPcs \cup {"admit"} => r \in RunIds /\ adm[r] \in AdmissionRow
    BY <1>1 DEF HandlersTypeOK, NamesItsRun, DbTypeOK
  <2>2. CASE AdmitRun(h)
    BY <2>2 DEF AdmitRun, RowStep, AdmitStep
  <2>3. CASE RecordUnavailable(h) \/ RecordReceipt(h)
    <3>1. r \in RunIds
      BY <2>1, <2>3 DEF RecordUnavailable, RecordReceipt, RecoverPcs
    <3>2. PICK state \in {"unavailable", "confirmed", "uncertain"},
               observed \in InstanceStatus : Record(r, state, observed)
      BY <1>1, <2>3 DEF RecordUnavailable, RecordReceipt, ReceiptState, InstanceStatus,
                        HandlersTypeOK, HandlerRecord
    <3>3. UNCHANGED <<status, meta, retired, op, drafts>>
      BY <2>3 DEF RecordUnavailable, RecordReceipt
    <3>4. QED
      BY <1>1, <3>1, <3>2, <3>3, RecordIsFlag DEF RowStep
  <2>4. CASE ClaimSubmission(h)
    <3> DEFINE row == [adm[r] EXCEPT !.state = "submitting"]
    <3>1. r \in RunIds /\ adm[r] \in AdmissionRow
      BY <2>1, <2>4 DEF ClaimSubmission, RecoverPcs
    <3>2. UNCHANGED <<status, meta, retired, op, drafts>>
      BY <2>4 DEF ClaimSubmission
    <3>3. CASE Submittable(r)
      <4>1. row \in AdmissionRow /\ row.released = adm[r].released
            /\ row.request = adm[r].request
            /\ row.state = "submitting" /\ Admitted(r)
        BY <3>1, <3>3 DEF AdmissionRow, AdmissionState, Submittable, OwnsDate
      <4>2. adm' = [adm EXCEPT ![r] = row]
        BY <2>4, <3>3 DEF ClaimSubmission
      <4> HIDE DEF row
      <4>3. QED
        BY <3>1, <3>2, <4>1, <4>2 DEF FlagStep, RowStep
    <3>4. CASE ~Submittable(r)
      BY <1>2, <2>4, <3>2, <3>4 DEF ClaimSubmission, dbVars
    <3>5. QED
      BY <3>3, <3>4
  <2>5. CASE \/ ListRuns(h) \/ AdmitAborts(h) \/ Raced(h) \/ RecoverAdmitted(h)
             \/ SendCreate(h) \/ Inspect(h) \/ Reread(h) \/ Evict(h)
    BY <1>2, <2>5 DEF ListRuns, AdmitAborts, Raced, RecoverAdmitted, SendCreate,
                      Inspect, Reread, Evict
  <2>6. QED
    BY <1>4, <2>2, <2>3, <2>4, <2>5 DEF HandlerStep
<1>5. ASSUME NEW r \in RunIds, ResolveDispatch(r) PROVE RowStep
  BY <1>5 DEF RowStep
<1>6. QED
  BY <1>3, <1>4, <1>5 DEF HandlerNext

LEMMA ServiceRowStep == TypeOK /\ ServiceNext => RowStep
<1> SUFFICES ASSUME TypeOK, ServiceNext PROVE RowStep
  OBVIOUS
<1>1. DbTypeOK
  BY TypeParts
<1>2. UNCHANGED dbVars => RowStep
  BY DEF RowStep
<1>3. ASSUME NEW r \in RunIds, AcceptCreate(r) PROVE RowStep
  BY <1>2, <1>3 DEF AcceptCreate
<1>4. ASSUME NEW i \in Instances, GiveUp(i) \/ Replay(i) \/ Restart(i)
      PROVE  RowStep
  BY <1>2, <1>4 DEF GiveUp, Replay, Restart
<1>5. ASSUME NEW i \in Instances, MonitorDraft(i) PROVE RowStep
  BY <1>5, RunOfType DEF MonitorDraft, RowStep, DraftStep
<1>6. ASSUME NEW i \in Instances, WorkflowStep(i) PROVE RowStep
  <2> DEFINE r == RunOf(i)
  <2>1. r \in RunIds /\ adm[r] \in AdmissionRow
    BY <1>1, RunOfType DEF DbTypeOK
  <2>2. CASE AttachLegacyRun(i) \/ ClaimLegacy(i)
    <3>1. r \in LegacyRuns
      BY <2>2, LegacyRunOf DEF AttachLegacyRun, ClaimLegacy
    <3>2. AttachLegacy(r) /\ UNCHANGED <<status, meta, retired, op, drafts>>
      BY <2>2 DEF AttachLegacyRun, ClaimLegacy
    <3>3. CASE Admitted(r)
      BY <1>2, <3>2, <3>3 DEF AttachLegacy, dbVars
    <3>4. CASE ~Admitted(r)
      BY <3>1, <3>2, <3>4 DEF AdoptStep, RowStep
    <3>5. QED
      BY <3>3, <3>4
  <2>3. CASE AttachLegacyAdmits(i)
    BY <2>3, LegacyRunOf DEF AttachLegacyAdmits, RowStep, AdmitStep
  <2>4. CASE Enter(i)
    <3> DEFINE row == [adm[r] EXCEPT !.entered = TRUE, !.finished = FALSE]
    <3>1. row \in AdmissionRow /\ row.released = adm[r].released
          /\ row.request = adm[r].request
          /\ row.state = adm[r].state /\ Admitted(r)
      BY <2>1, <2>4 DEF Enter, AdmissionRow
    <3>2. adm' = [adm EXCEPT ![r] = row] /\ UNCHANGED <<status, meta, retired, op, drafts>>
      BY <2>1, <2>4 DEF Enter, AdmissionRow
    <3> HIDE DEF row
    <3>3. QED
      BY <2>1, <3>1, <3>2 DEF FlagStep, RowStep, Admitted
  <2>5. CASE Finish(i)
    <3> DEFINE row == [adm[r] EXCEPT !.finished = TRUE]
    <3>1. row \in AdmissionRow /\ row.released = adm[r].released
          /\ row.request = adm[r].request /\ row.state = adm[r].state
      BY <2>1 DEF AdmissionRow, Admitted
    <3>2. UNCHANGED <<status, meta, retired, op, drafts>>
      BY <2>5 DEF Finish
    <3>3. \/ OwnsDate(r) /\ adm' = [adm EXCEPT ![r] = row]
          \/ adm' = adm
      BY <2>1, <2>5 DEF Finish
    <3> HIDE DEF row
    <3>4. QED
      BY <1>2, <2>1, <3>1, <3>2, <3>3 DEF FlagStep, RowStep, Admitted, OwnsDate, dbVars
  <2>6. CASE ZeroFinish(i) \/ ReviewDone(i)
    BY <1>1, <2>1, <2>6, CompleteIsWork DEF ZeroFinish, ReviewDone, RowStep
  <2>7. CASE \/ Package(i) \/ MonitorDone(i) \/ Route(i) \/ CompleteInstance(i)
             \/ Throw(i) \/ BodyEnds(i)
    BY <1>2, <2>7 DEF Package, MonitorDone, Route, CompleteInstance, Throw, BodyEnds
  <2>8. QED
    BY <1>6, <2>2, <2>3, <2>4, <2>5, <2>6, <2>7 DEF WorkflowStep
<1>7. QED
  BY <1>3, <1>4, <1>5, <1>6 DEF ServiceNext

LEMMA RunRowStep == TypeOK /\ RunNext => RowStep
<1> SUFFICES ASSUME TypeOK, NEW r \in RunIds,
                    Reserve(r) \/ EndOperation(r) \/ BudgetStop(r) \/ Decide(r)
             PROVE  RowStep
  BY DEF RunNext
<1>1. CASE Reserve(r) \/ EndOperation(r)
  BY <1>1 DEF RowStep
<1>2. CASE BudgetStop(r) \/ Decide(r)
  BY <1>2 DEF BudgetStop, Decide, runRest, RowStep, WorkStep, LiveStatus, RunStatus
<1>3. QED
  BY <1>1, <1>2

LEMMA RowSteps == TypeOK /\ [Next]_vars => RowStep
<1>1. UNCHANGED vars => RowStep
  BY DEF vars, RowStep, dbVars
<1>2. QED
  BY <1>1, HandlerRowStep, ServiceRowStep, RunRowStep DEF Next
-----------------------------------------------------------------------------
\* A Run's row and its request stay; what was fenced stays so, untouched.
LEMMA AdmitOthers ==
  ASSUME DbTypeOK, AdmissionInv, NEW r \in RunIds, NEW request, NEW supersede,
         NEW prior, NEW origin, NEW at, NEW state, state # "absent",
         Admit(r, request, supersede, prior, origin, at, state)
  PROVE  /\ ~Exists(r) /\ ~Admitted(r) /\ ~Fenced(r) /\ Settled(r)
         /\ Exists(r)' /\ status'[r] = "running"
         /\ Admitted(r)' /\ adm'[r].request = request /\ ~adm'[r].released
         /\ adm'[r].state = state
         /\ meta'[r] = [origin |-> origin, prior |-> prior, started |-> at]
         /\ \A q \in RunIds \ {r} :
              /\ status'[q] = status[q] /\ meta'[q] = meta[q]
              /\ adm'[q].state = adm[q].state /\ adm'[q].request = adm[q].request
              /\ adm[q].released => adm'[q].released
              /\ Exists(q)' = Exists(q) /\ Admitted(q)' = Admitted(q)
              /\ Live(q)' = Live(q)
         /\ \A q \in SameDate(r) \ {r} : ~Live(q)
<1>1. ~Exists(r) /\ ~Admitted(r) /\ r \notin retired /\ Settled(r)
  BY DEF Admit, AdmitOk, AdmissionInv, RowsExist
<1>2. status' = [status EXCEPT ![r] = "running"]
      /\ meta' = [meta EXCEPT ![r] = [origin |-> origin, prior |-> prior,
                                  started |-> at]]
      /\ UNCHANGED op
  BY DEF Admit
<1>3. Exists(r)' /\ status'[r] = "running"
  BY <1>2 DEF DbTypeOK, Exists
<1>4. adm'[r] = [NoAdmission EXCEPT !.state = state, !.request = request]
  BY DEF Admit
<1>5. Admitted(r)' /\ adm'[r].request = request /\ ~adm'[r].released
      /\ adm'[r].state = state
  BY <1>4 DEF NoAdmission, Admitted
<1>6. \A q \in RunIds \ {r} : status'[q] = status[q] /\ meta'[q] = meta[q]
  BY <1>2 DEF DbTypeOK
<1>7. \A q \in RunIds \ {r} :
              /\ adm'[q].state = adm[q].state /\ adm'[q].request = adm[q].request
              /\ adm[q].released => adm'[q].released
  BY DEF Admit, DbTypeOK, AdmissionRow
<1>8. \A q \in RunIds \ {r} :
        Exists(q)' = Exists(q) /\ Admitted(q)' = Admitted(q) /\ Live(q)' = Live(q)
  BY <1>2, <1>6, <1>7 DEF Exists, Admitted, Live, Settled
<1>9. \A q \in SameDate(r) \ {r} : ~Live(q)
  <2> SUFFICES ASSUME NEW q \in SameDate(r) \ {r}, Exists(q) PROVE ~Live(q)
    BY DEF AdmissionInv, RowsExist, Live, LiveStatus, Exists, SameDate
  <2>1. QED
    BY DEF SameDate, OnDate, Admit, AdmitOk, NothingLive
<1>10. meta'[r] = [origin |-> origin, prior |-> prior, started |-> at]
  BY <1>2 DEF DbTypeOK
<1>11. ~Fenced(r)
  BY <1>1 DEF Fenced
<1>12. QED
  BY <1>1, <1>3, <1>4, <1>5, <1>6, <1>7, <1>8, <1>9, <1>10, <1>11

LEMMA AdoptOthers ==
  ASSUME DbTypeOK, NEW r \in LegacyRuns, AdoptStep(r)
  PROVE  /\ r \in RunIds /\ Exists(r) /\ ~Fenced(r)
         /\ adm' = [adm EXCEPT ![r] = [NoAdmission EXCEPT !.state = "uncertain",
                                         !.request = <<"legacy", r>>]]
         /\ Admitted(r)' /\ adm'[r].request = <<"legacy", r>> /\ ~adm'[r].released
         /\ adm'[r].state = "uncertain"
         /\ \A q \in RunIds \ {r} : adm'[q] = adm[q]
         /\ UNCHANGED <<status, meta, retired, op, drafts>>
<1>1. r \in RunIds
  BY LegacyIds
<1>2. Exists(r) /\ ~Fenced(r)
  BY DEF AdoptStep, AttachLegacy, AttachLegacyOk, Owned, Fenced
<1>3. adm' = [adm EXCEPT ![r] = [NoAdmission EXCEPT !.state = "uncertain",
                                         !.request = <<"legacy", r>>]]
  BY DEF AdoptStep, AttachLegacy
<1>4. adm'[r] = [NoAdmission EXCEPT !.state = "uncertain", !.request = <<"legacy", r>>]
  BY <1>1, <1>3 DEF DbTypeOK
<1>5. Admitted(r)' /\ adm'[r].request = <<"legacy", r>> /\ ~adm'[r].released
      /\ adm'[r].state = "uncertain"
  BY <1>4 DEF NoAdmission, Admitted
<1>6. \A q \in RunIds \ {r} : adm'[q] = adm[q]
  BY <1>3 DEF DbTypeOK
<1>7. UNCHANGED <<status, meta, retired, op, drafts>>
  BY DEF AdoptStep
<1>8. QED
  BY <1>1, <1>2, <1>3, <1>5, <1>6, <1>7

LEMMA ResolveOthers ==
  ASSUME DbTypeOK, NEW r \in RunIds, ResolveDispatch(r)
  PROVE  /\ OwnsDate(r) /\ Settled(r) /\ status[r] # "awaiting"
         /\ adm'[r].released /\ adm'[r].state = "resolved"
         /\ adm'[r].request = adm[r].request
         /\ status'[r] = IF status[r] = "running" THEN "closed" ELSE status[r]
         /\ \A q \in RunIds \ {r} : adm'[q] = adm[q] /\ status'[q] = status[q]
         /\ UNCHANGED <<meta, retired, op, drafts>>
<1>1. adm[r] \in AdmissionRow
  BY DEF DbTypeOK
<1>2. OwnsDate(r) /\ Settled(r) /\ status[r] # "awaiting"
  BY DEF ResolveDispatch, CanResolve, NotAtTheGate
<1>3. /\ adm' = [adm EXCEPT ![r] = [adm[r] EXCEPT !.released = TRUE, !.state = "resolved"]]
      /\ \A q \in RunIds \ {r} : adm'[q] = adm[q] /\ status'[q] = status[q]
  BY <1>1 DEF ResolveDispatch, DbTypeOK, AdmissionRow
<1>4. /\ adm'[r].released /\ adm'[r].state = "resolved"
      /\ adm'[r].request = adm[r].request
  BY <1>1, <1>3 DEF DbTypeOK, AdmissionRow
<1>5. status'[r] = IF status[r] = "running" THEN "closed" ELSE status[r]
  BY DEF ResolveDispatch, DbTypeOK
<1>6. UNCHANGED <<meta, retired, op, drafts>>
  BY DEF ResolveDispatch
<1>7. QED
  BY <1>2, <1>3, <1>4, <1>5, <1>6

RowStays(r) ==
  /\ Exists(r) => Exists(r)' /\ meta'[r] = meta[r]
  /\ Admitted(r) => Admitted(r)' /\ adm'[r].request = adm[r].request
  /\ Admitted(r) /\ adm'[r].state \in {"pending", "unavailable"} =>
       adm[r].state \in {"pending", "unavailable"}
  /\ Fenced(r) => Fenced(r)' /\ UNCHANGED <<status[r], op[r], drafts[r], meta[r]>>

LEMMA RowsStay ==
  ASSUME TypeOK, AdmissionInv, RowStep
  PROVE  \A q \in RunIds : RowStays(q)
<1> USE TypeParts
<1> SUFFICES ASSUME NEW q \in RunIds PROVE RowStays(q)
  OBVIOUS
<1>1. Fenced(q) => Exists(q) /\ ~Live(q) /\ ~Owned(q)
  BY DEF AdmissionInv, RowsExist, FencedIsSettled, Fenced, Owned
<1>2. ASSUME NEW r \in RunIds, NEW request, NEW supersede, NEW prior, NEW origin,
             NEW at, NEW state \in {"pending", "uncertain"},
             Admit(r, request, supersede, prior, origin, at, state)
      PROVE  RowStays(q)
  <2>1. retired \subseteq retired' /\ UNCHANGED <<op, drafts>>
    BY <1>2 DEF Admit
  <2>2. CASE q = r
    BY <1>2, <2>2, AdmitOthers DEF RowStays
  <2>3. CASE q # r
    BY <1>2, <2>1, <2>3, AdmitOthers DEF RowStays, Fenced
  <2>4. QED
    BY <2>2, <2>3
<1>3. CASE AdmitStep
  <2>1. \A h \in Handlers : hs[h].pc = "admit" => hs[h].run \in RunIds
    BY DEF HandlersTypeOK, NamesItsRun
  <2>2. QED
    BY <1>2, <1>3, <2>1, LegacyIds DEF AdmitStep
<1>4. ASSUME NEW r \in LegacyRuns, AdoptStep(r) PROVE RowStays(q)
  <2>1. CASE q = r
    BY <1>4, <2>1, AdoptOthers DEF RowStays, Exists, AdoptStep
  <2>2. CASE q # r
    BY <1>4, <2>2, AdoptOthers DEF RowStays, Exists, Admitted, Fenced
  <2>3. QED
    BY <2>1, <2>2
<1>5. ASSUME NEW r \in RunIds, FlagStep(r) PROVE RowStays(q)
  <2>1. PICK row \in AdmissionRow :
       /\ adm' = [adm EXCEPT ![r] = row]
       /\ row.released = adm[r].released /\ row.request = adm[r].request
       /\ row.state # "absent"
       /\ row.state \in {"pending", "unavailable"} =>
            adm[r].state \in {"pending", "unavailable"}
    BY <1>5 DEF FlagStep
  <2>2. /\ adm'[q].released = adm[q].released /\ adm'[q].request = adm[q].request
        /\ Admitted(q)' = Admitted(q)
        /\ adm'[q].state \in {"pending", "unavailable"} =>
             adm[q].state \in {"pending", "unavailable"}
    BY <1>5, <2>1 DEF FlagStep, DbTypeOK, Admitted
  <2>3. UNCHANGED <<status, meta, retired, op, drafts>>
    BY <1>5 DEF FlagStep
  <2>4. QED
    BY <2>2, <2>3 DEF RowStays, Exists, Fenced
<1>6. ASSUME NEW r \in RunIds, WorkStep(r) PROVE RowStays(q)
  <2>1. PICK end \in RunStatus \ {"absent", "running"} :
          status' = [status EXCEPT ![r] = end]
    BY <1>6 DEF WorkStep
  <2>2. status[r] \in LiveStatus /\ UNCHANGED <<meta, adm, retired, op, drafts>>
    BY <1>6 DEF WorkStep
  <2>3. Exists(q) => Exists(q)'
    BY <2>1 DEF Exists, DbTypeOK
  <2>4. Fenced(q) => q # r
    BY <1>1, <2>2 DEF Live
  <2>5. QED
    BY <2>1, <2>2, <2>3, <2>4 DEF RowStays, Admitted, Fenced, DbTypeOK
<1>7. ASSUME NEW r \in RunIds, ResolveDispatch(r) PROVE RowStays(q)
  <2>1. CASE q = r
    <3>1. Exists(q) => Exists(q)'
      BY <1>7, <2>1, ResolveOthers DEF Exists
    <3>2. ~Live(q) => status'[q] = status[q]
      BY <1>7, <2>1, ResolveOthers DEF Live, LiveStatus
    <3>3. QED
      BY <1>1, <1>7, <2>1, <3>1, <3>2, ResolveOthers DEF RowStays, Admitted, Fenced
  <2>2. CASE q # r
    BY <1>7, <2>2, ResolveOthers DEF RowStays, Exists, Admitted, Fenced
  <2>3. QED
    BY <2>1, <2>2
<1>8. ASSUME NEW r \in RunIds, Reserve(r) \/ EndOperation(r) PROVE RowStays(q)
  <2>1. UNCHANGED <<status, meta, adm, retired, drafts>>
    BY <1>8 DEF Reserve, EndOperation, runRest
  <2>2. r # q => op'[q] = op[q]
    BY <1>8 DEF Reserve, EndOperation, DbTypeOK
  <2>3. Fenced(q) => r # q
    BY <1>1, <1>8 DEF Reserve, EndOperation, Live, Settled
  <2>4. QED
    BY <2>1, <2>2, <2>3 DEF RowStays, Exists, Admitted, Fenced
<1>9. ASSUME NEW r \in RunIds, DraftStep(r) PROVE RowStays(q)
  <2>1. Fenced(q) => r # q
    BY <1>1, <1>9 DEF DraftStep
  <2>2. QED
    BY <1>9, <2>1 DEF DraftStep, RowStays, Exists, Admitted, Fenced, DbTypeOK
<1>10. CASE UNCHANGED dbVars
  BY <1>10 DEF dbVars, RowStays, Exists, Admitted, Fenced
<1>11. QED
  BY <1>3, <1>4, <1>5, <1>6, <1>7, <1>8, <1>9, <1>10 DEF RowStep
-----------------------------------------------------------------------------
\* What was fenced stays fenced and is never written again, whatever request,
\* replayed instance or abandoned step body is still under way.
THEOREM SealedStaysSealedHolds == Spec => SealedStaysSealed
<1>1. TypeOK /\ AdmissionInv /\ [Next]_vars =>
        [\A r \in RunIds : Fenced(r) =>
           Fenced(r)' /\ UNCHANGED <<status[r], op[r], drafts[r], meta[r]>>]_vars
  BY RowSteps, RowsStay DEF RowStays
<1>2. QED
  BY <1>1, TypeCorrect, AdmissionInvariant, PTL DEF Spec, SealedStaysSealed
-----------------------------------------------------------------------------
(* What a step does to a request handler.                                  *)

TriggerRequests == ({"operator"} \X Keys) \cup ({"scheduled"} \X Dates)
HandlerMove(h) ==
  \/ hs'[h] = hs[h]
  \/ hs'[h] = IdleHandler
  \/ /\ hs'[h].pc = "list" /\ hs'[h].request \in TriggerRequests
     /\ hs'[h].origin = "scheduled" =>
          hs'[h].request = <<"scheduled", hs'[h].date>>
  \/ hs'[h].pc \in {"submit", "unbound"} /\ OwnsDate(hs'[h].run)
  \/ ListRuns(h) /\ hs'[h].pc = "admit"
  \/ AdmitRun(h) \/ AdmitAborts(h) \/ ClaimSubmission(h) \/ SendCreate(h) \/ Inspect(h)
  \/ RecordReceipt(h) /\ hs'[h] = [hs[h] EXCEPT !.pc = "reread"]

LEMMA RecoverMoves ==
  ASSUME HandlersTypeOK, NEW h \in Handlers, NEW r \in RunIds, Recover(h, r)
  PROVE  HandlerMove(h) /\ \A g \in Handlers \ {h} : hs'[g] = hs[g]
<1>1. Respond(h) => HandlerMove(h) /\ \A g \in Handlers \ {h} : hs'[g] = hs[g]
  BY DEF HandlersTypeOK, Respond, SetH, HandlerMove
<1>2. ASSUME NEW pc \in {"submit", "unbound"}, OwnsDate(r),
             SetH(h, [IdleHandler EXCEPT !.pc = pc, !.run = r])
      PROVE  HandlerMove(h) /\ \A g \in Handlers \ {h} : hs'[g] = hs[g]
  <2> DEFINE rec == [IdleHandler EXCEPT !.pc = pc, !.run = r]
  <2>1. hs'[h] = rec /\ \A g \in Handlers \ {h} : hs'[g] = hs[g]
    BY <1>2 DEF HandlersTypeOK, SetH
  <2>2. rec.pc = pc /\ rec.run = r
    BY DEF IdleHandler
  <2> HIDE DEF rec
  <2>3. QED
    BY <1>2, <2>1, <2>2 DEF HandlerMove
<1>3. QED
  BY <1>1, <1>2 DEF Recover

LEMMA RetryMoves ==
  ASSUME HandlersTypeOK, NEW h \in Handlers, NEW request, NEW origin, NEW d,
         Retry(h, request, origin, d)
  PROVE  HandlerMove(h) /\ \A g \in Handlers \ {h} : hs'[g] = hs[g]
<1>1. Respond(h) => HandlerMove(h) /\ \A g \in Handlers \ {h} : hs'[g] = hs[g]
  BY DEF HandlersTypeOK, Respond, SetH, HandlerMove
<1>2. QED
  BY <1>1, RecoverMoves, ByRequestType DEF Retry

LEMMA TriggerMoves ==
  ASSUME HandlersTypeOK, NEW h \in Handlers, NEW request \in TriggerRequests,
         NEW origin, NEW d \in Dates, NEW supersede, Trigger(h, request, origin, d, supersede),
         origin = "scheduled" => request = <<"scheduled", d>>
  PROVE  HandlerMove(h) /\ \A g \in Handlers \ {h} : hs'[g] = hs[g]
<1> DEFINE rec(now) == [IdleHandler EXCEPT !.pc = "list", !.request = request,
                          !.origin = origin, !.date = d, !.supersede = supersede,
                          !.at = now]
<1>1. ASSUME NEW now \in Clock, SetH(h, rec(now))
      PROVE  HandlerMove(h) /\ \A g \in Handlers \ {h} : hs'[g] = hs[g]
  <2>1. hs'[h] = rec(now) /\ \A g \in Handlers \ {h} : hs'[g] = hs[g]
    BY <1>1 DEF HandlersTypeOK, SetH
  <2>2. /\ rec(now).pc = "list" /\ rec(now).origin = origin
        /\ rec(now).request = request /\ rec(now).date = d
    BY DEF IdleHandler
  <2> HIDE DEF rec
  <2>3. QED
    BY <2>1, <2>2 DEF HandlerMove
<1>2. CASE Retry(h, request, origin, d)
  BY <1>2, RetryMoves
<1>3. QED
  BY <1>1, <1>2 DEF Trigger

LEMMA HandlerStepMoves ==
  ASSUME HandlersTypeOK, NEW h \in Handlers, HandlerStep(h)
  PROVE  HandlerMove(h) /\ \A g \in Handlers \ {h} : hs'[g] = hs[g]
<1>1. Respond(h) => HandlerMove(h) /\ \A g \in Handlers \ {h} : hs'[g] = hs[g]
  BY DEF HandlersTypeOK, Respond, SetH, HandlerMove
<1>2. \A pc : Goto(h, pc) => /\ hs'[h] = [hs[h] EXCEPT !.pc = pc]
                              /\ \A g \in Handlers \ {h} : hs'[g] = hs[g]
  BY DEF HandlersTypeOK, Goto, SetH
<1>3. hs[h].pc \in RecoverPcs \cup {"admit"} => hs[h].run \in RunIds
  BY DEF HandlersTypeOK, NamesItsRun
<1>4. CASE ListRuns(h)
  <2>1. ASSUME NEW r, NEW prior,
               SetH(h, [hs[h] EXCEPT !.pc = "admit", !.run = r, !.prior = prior])
        PROVE  HandlerMove(h) /\ \A g \in Handlers \ {h} : hs'[g] = hs[g]
    <3>1. /\ hs'[h] = [hs[h] EXCEPT !.pc = "admit", !.run = r, !.prior = prior]
          /\ \A g \in Handlers \ {h} : hs'[g] = hs[g]
      BY <2>1 DEF HandlersTypeOK, SetH
    <3>2. hs'[h].pc = "admit"
      BY <3>1 DEF HandlersTypeOK, HandlerRecord
    <3>3. QED
      BY <1>4, <3>1, <3>2 DEF HandlerMove
  <2>2. QED
    BY <1>1, <1>4, <2>1 DEF ListRuns
<1>5. CASE AdmitRun(h) \/ Inspect(h)
  <2>1. \A g \in Handlers \ {h} : hs'[g] = hs[g]
    BY <1>5 DEF AdmitRun, Inspect, SetH, HandlersTypeOK
  <2>2. QED
    BY <1>5, <2>1 DEF HandlerMove
<1>6. CASE AdmitAborts(h) \/ ClaimSubmission(h) \/ SendCreate(h)
  <2>1. \E pc : Goto(h, pc)
    BY <1>6 DEF AdmitAborts, ClaimSubmission, SendCreate
  <2>2. QED
    BY <1>2, <1>6, <2>1 DEF HandlerMove
<1>7. CASE Raced(h)
  BY <1>1, <1>7, RetryMoves DEF Raced
<1>8. CASE RecoverAdmitted(h)
  BY <1>3, <1>8, RecoverMoves DEF RecoverAdmitted, RecoverPcs
<1>9. CASE RecordUnavailable(h) \/ Reread(h)
  BY <1>1, <1>9 DEF RecordUnavailable, Reread
<1>10. CASE RecordReceipt(h)
  BY <1>1, <1>2, <1>10 DEF RecordReceipt, HandlerMove
<1>11. QED
  BY <1>4, <1>5, <1>6, <1>7, <1>8, <1>9, <1>10 DEF HandlerStep

\* Every other handler rests.
LEMMA HandlersMove ==
  ASSUME TypeOK, [Next]_vars, NEW g \in Handlers
  PROVE  HandlerMove(g)
<1>1. HandlersTypeOK
  BY TypeParts
<1>2. UNCHANGED hs => HandlerMove(g)
  BY DEF HandlerMove
<1>3. ASSUME NEW h \in Handlers,
             HandlerMove(h) /\ \A x \in Handlers \ {h} : hs'[x] = hs[x]
      PROVE  HandlerMove(g)
  BY <1>3 DEF HandlerMove
<1>4. ASSUME NEW h \in Handlers, TriggerOperator(h) PROVE HandlerMove(g)
  <2>1. PICK k \in Keys, origin \in OperatorOrigins, d \in Dates, supersede \in BOOLEAN :
          Trigger(h, <<"operator", k>>, origin, d, supersede)
    BY <1>4 DEF TriggerOperator
  <2>2. origin # "scheduled" /\ <<"operator", k>> \in TriggerRequests
    BY OriginAssumption DEF TriggerRequests
  <2>3. QED
    BY <1>1, <1>3, <2>1, <2>2, TriggerMoves
<1>5. ASSUME NEW h \in Handlers, TriggerScheduled(h) PROVE HandlerMove(g)
  <2>1. PICK d \in Dates : Trigger(h, <<"scheduled", d>>, "scheduled", d, FALSE)
    BY <1>5 DEF TriggerScheduled
  <2>2. <<"scheduled", d>> \in TriggerRequests
    BY DEF TriggerRequests
  <2>3. QED
    BY <1>1, <1>3, <2>1, <2>2, TriggerMoves
<1>6. ASSUME NEW h \in Handlers, NEW r \in RunIds, Check(h, r) PROVE HandlerMove(g)
  BY <1>1, <1>3, <1>6, RecoverMoves DEF Check
<1>7. ASSUME NEW h \in Handlers, Evict(h) PROVE HandlerMove(g)
  BY <1>1, <1>7 DEF Evict, Respond, SetH, HandlersTypeOK, HandlerMove
<1>8. ASSUME NEW h \in Handlers, HandlerStep(h) PROVE HandlerMove(g)
  BY <1>1, <1>3, <1>8, HandlerStepMoves
<1>9. CASE HandlerNext
  BY <1>2, <1>4, <1>5, <1>6, <1>7, <1>8, <1>9 DEF HandlerNext, ResolveDispatch
<1>10. ServiceNext \/ RunNext => UNCHANGED hs
  BY DEF ServiceNext, AcceptCreate, WorkflowStep, AttachLegacyRun, AttachLegacyAdmits,
     ClaimLegacy, Enter, Package, MonitorDone, ZeroFinish, Route, ReviewDone, Finish,
     CompleteInstance, Throw, BodyEnds, MonitorDraft, GiveUp, Replay, Restart, rest,
     RunNext, Reserve, EndOperation, BudgetStop, Decide, runRest
<1>11. QED
  BY <1>2, <1>9, <1>10 DEF Next, vars
-----------------------------------------------------------------------------
(* One create per Run: whoever may send it won the claim, and a claim that  *)
(* was submitted is never open to submission again.                         *)

Creating(h, r)  == hs[h].pc = "create" /\ hs[h].run = r
Submitted(r)    == Admitted(r) /\ adm[r].state \notin {"pending", "unavailable"}
CreateInv ==
  \A r \in RunIds :
    /\ creates[r] <= 1
    /\ creates[r] > 0 => Submitted(r)
    /\ \A h \in Handlers : Creating(h, r) => creates[r] = 0 /\ Submitted(r)
    /\ \A h, g \in Handlers : Creating(h, r) /\ Creating(g, r) => h = g

LEMMA SubmittedStays ==
  ASSUME TypeOK, AdmissionInv, [Next]_vars, NEW r \in RunIds, Submitted(r)
  PROVE  Submitted(r)'
BY RowSteps, RowsStay DEF RowStays, Submitted

LEMMA CreatesMove ==
  ASSUME [Next]_vars
  PROVE  creates' = creates \/ \E h \in Handlers : SendCreate(h)
<1>1. ASSUME NEW h \in Handlers, HandlerStep(h)
      PROVE  creates' = creates \/ SendCreate(h)
  BY <1>1 DEF HandlerStep, ListRuns, AdmitRun, AdmitAborts, Raced, RecoverAdmitted,
     RecordUnavailable, ClaimSubmission, Inspect, RecordReceipt, Reread, serviceVars
<1>2. HandlerNext => creates' = creates \/ \E h \in Handlers : SendCreate(h)
  BY <1>1 DEF HandlerNext, TriggerOperator, TriggerScheduled, Trigger, Check, Evict,
     ResolveDispatch, serviceVars
<1>3. ServiceNext \/ RunNext => creates' = creates
  BY DEF ServiceNext, AcceptCreate, WorkflowStep, AttachLegacyRun, AttachLegacyAdmits,
     ClaimLegacy, Enter, Package, MonitorDone, ZeroFinish, Route, ReviewDone, Finish,
     CompleteInstance, Throw, BodyEnds, MonitorDraft, GiveUp, Replay, Restart, rest,
     RunNext, Reserve, EndOperation, BudgetStop, Decide, runRest
<1>4. QED
  BY <1>2, <1>3 DEF Next, vars

\* Only the handler whose claim took the row out of pending goes on to create.
LEMMA CreatingMoves ==
  ASSUME TypeOK, [Next]_vars, NEW r \in RunIds, NEW h \in Handlers, Creating(h, r)'
  PROVE  \/ Creating(h, r) /\ ~SendCreate(h)
         \/ /\ ClaimSubmission(h) /\ hs[h].run = r /\ ~Submitted(r) /\ Submitted(r)'
            /\ \A g \in Handlers \ {h} : hs'[g] = hs[g]
<1>1. HandlersTypeOK /\ DbTypeOK
  BY TypeParts
<1>2. hs[h] \in HandlerRecord
  BY <1>1 DEF HandlersTypeOK
<1>3. HandlerMove(h)
  BY HandlersMove
<1>4. CASE SendCreate(h)
  <2>1. hs'[h].pc = "inspect"
    BY <1>1, <1>2, <1>4 DEF SendCreate, Goto, SetH, HandlersTypeOK, HandlerRecord
  <2>2. QED
    BY <2>1 DEF Creating
<1>5. CASE ClaimSubmission(h)
  <2>1. \A pc : Goto(h, pc) => /\ hs'[h].pc = pc /\ hs'[h].run = hs[h].run
                                /\ \A g \in Handlers \ {h} : hs'[g] = hs[g]
    BY <1>1, <1>2 DEF HandlersTypeOK, Goto, SetH, HandlerRecord
  <2>2. Submittable(r) /\ hs[h].run = r /\ adm' = [adm EXCEPT ![r].state = "submitting"]
        /\ \A g \in Handlers \ {h} : hs'[g] = hs[g]
    BY <1>5, <2>1 DEF ClaimSubmission, Creating
  <2>3. adm'[r].state = "submitting"
    BY <1>1, <2>2 DEF DbTypeOK, AdmissionRow
  <2>4. QED
    BY <1>5, <2>2, <2>3 DEF Submittable, Submitted, Admitted
<1>6. CASE ~SendCreate(h) /\ ~ClaimSubmission(h)
  <2>1. ~ListRuns(h) \/ hs'[h].pc # "admit"
    BY DEF Creating
  <2>2. AdmitRun(h) => hs'[h].pc = "recover"
    BY <1>1 DEF AdmitRun, SetH, HandlersTypeOK, IdleHandler
  <2>3. AdmitAborts(h) => hs'[h].pc = "raced"
    BY <1>1, <1>2 DEF AdmitAborts, Goto, SetH, HandlersTypeOK, HandlerRecord
  <2>4. Inspect(h) => hs'[h].pc = "record"
    BY <1>1, <1>2 DEF Inspect, SetH, HandlersTypeOK, HandlerRecord
  <2>5. hs'[h] = [hs[h] EXCEPT !.pc = "reread"] => hs'[h].pc = "reread"
    BY <1>2 DEF HandlerRecord
  <2>6. hs'[h] = IdleHandler => hs'[h].pc = "idle"
    BY DEF IdleHandler
  <2>7. QED
    BY <1>3, <1>6, <2>1, <2>2, <2>3, <2>4, <2>5, <2>6 DEF HandlerMove, Creating
<1>7. QED
  BY <1>4, <1>5, <1>6

LEMMA CreateStep ==
  ASSUME TypeOK, AdmissionInv, CreateInv, [Next]_vars
  PROVE  CreateInv'
<1> SUFFICES ASSUME NEW r \in RunIds
             PROVE  /\ creates'[r] <= 1
                    /\ creates'[r] > 0 => Submitted(r)'
                    /\ \A h \in Handlers : Creating(h, r)' => creates'[r] = 0 /\ Submitted(r)'
                    /\ \A h, g \in Handlers : Creating(h, r)' /\ Creating(g, r)' => h = g
  BY DEF CreateInv
<1> DEFINE old == creates[r]
<1>1. /\ creates[r] \in Nat /\ creates[r] <= 1
      /\ creates[r] > 0 => Submitted(r)
      /\ \A h \in Handlers : Creating(h, r) => creates[r] = 0 /\ Submitted(r)
      /\ \A h, g \in Handlers : Creating(h, r) /\ Creating(g, r) => h = g
  BY DEF CreateInv, TypeOK
<1>2. Submitted(r) => Submitted(r)'
  BY SubmittedStays
<1>3. creates'[r] = creates[r] \/ \E h \in Handlers : Creating(h, r) /\ SendCreate(h)
  <2>1. ASSUME NEW h \in Handlers, SendCreate(h), ~Creating(h, r)
        PROVE  creates'[r] = creates[r]
    BY <2>1 DEF SendCreate, Creating, TypeOK
  <2>2. QED
    BY <2>1, CreatesMove
<1>4. CASE \E h \in Handlers : Creating(h, r) /\ SendCreate(h)
  <2>1. PICK h \in Handlers : Creating(h, r) /\ SendCreate(h)
    BY <1>4
  <2>2. creates[r] = 0 /\ creates'[r] = 1 /\ Submitted(r)'
    BY <1>1, <1>2, <2>1 DEF SendCreate, Creating, TypeOK
  <2>3. \A g \in Handlers : ~Creating(g, r)'
    <3> SUFFICES ASSUME NEW g \in Handlers, Creating(g, r)' PROVE FALSE
      OBVIOUS
    <3>1. Creating(g, r) /\ ~SendCreate(g)
      BY <1>1, <2>1, CreatingMoves
    <3>2. QED
      BY <1>1, <2>1, <3>1
  <2>4. QED
    BY <2>2, <2>3
<1>5. CASE creates'[r] = creates[r]
  <2>1. \A h \in Handlers : Creating(h, r)' => creates[r] = 0 /\ Submitted(r)'
    BY <1>1, <1>2, CreatingMoves
  <2>2. ASSUME NEW h \in Handlers, NEW g \in Handlers, Creating(h, r)', Creating(g, r)',
               h # g
        PROVE  FALSE
    <3>1. Creating(h, r) \/ (~Submitted(r) /\ \A x \in Handlers \ {h} : hs'[x] = hs[x])
      BY <2>2, CreatingMoves
    <3>2. Creating(g, r) \/ (~Submitted(r) /\ \A x \in Handlers \ {g} : hs'[x] = hs[x])
      BY <2>2, CreatingMoves
    <3>3. (hs'[g] = hs[g] => Creating(g, r)) /\ (hs'[h] = hs[h] => Creating(h, r))
      BY <2>2 DEF Creating
    <3>4. QED
      BY <1>1, <2>2, <3>1, <3>2, <3>3
  <2>3. QED
    BY <1>1, <1>2, <1>5, <2>1, <2>2
<1>6. QED
  BY <1>3, <1>4, <1>5

LEMMA CreateInvariant == Spec => []CreateInv
<1>1. Init => CreateInv
  BY DEF Init, CreateInv, Creating, IdleHandler
<1>2. TypeOK /\ AdmissionInv /\ CreateInv /\ [Next]_vars => CreateInv'
  BY CreateStep
<1>3. QED
  BY <1>1, <1>2, TypeCorrect, AdmissionInvariant, PTL DEF Spec

\* However requests race, retry, stall or are evicted, at most one create is
\* sent to the Workflow service for a Run.
THEOREM AtMostOneCreateHolds == Spec => []AtMostOneCreate
<1>1. CreateInv => AtMostOneCreate
  BY DEF CreateInv, AtMostOneCreate
<1>2. QED
  BY <1>1, CreateInvariant, PTL
-----------------------------------------------------------------------------
(* What a step does to a Workflow instance.                                *)

InstanceMove(i) ==
  \/ inst'[i] = inst[i]
  \/ WorkflowStep(i) \/ GiveUp(i) \/ Replay(i) \/ Restart(i)
  \/ ~IsLegacy(i) /\ AcceptCreate(RunOf(i))

LEMMA WorkflowTouches ==
  ASSUME ServiceTypeOK, NEW i \in Instances, WorkflowStep(i)
  PROVE  \A j \in Instances \ {i} : inst'[j] = inst[j]
<1>1. \A pc : Go(i, pc) => \A j \in Instances \ {i} : inst'[j] = inst[j]
  BY DEF ServiceTypeOK, Go
<1>2. \A result : Packaged(i, result) => \A j \in Instances \ {i} : inst'[j] = inst[j]
  BY DEF ServiceTypeOK, Packaged
<1>3. \A end : Ends(i, end) => \A j \in Instances \ {i} : inst'[j] = inst[j]
  BY DEF ServiceTypeOK, Ends
<1>4. CASE Package(i) \/ MonitorDone(i) \/ Route(i) \/ ZeroFinish(i)
  BY <1>1, <1>2, <1>4 DEF Package, MonitorDone, Route, ZeroFinish
<1>5. CASE \/ AttachLegacyRun(i) \/ AttachLegacyAdmits(i) \/ ClaimLegacy(i)
           \/ Enter(i) \/ ReviewDone(i) \/ Finish(i)
  BY <1>1, <1>5 DEF AttachLegacyRun, AttachLegacyAdmits, ClaimLegacy, Enter,
                    ReviewDone, Finish
<1>6. CASE CompleteInstance(i) \/ Throw(i) \/ BodyEnds(i)
  BY <1>3, <1>6 DEF CompleteInstance, Throw, BodyEnds
<1>7. QED
  BY <1>4, <1>5, <1>6 DEF WorkflowStep

LEMMA InstancesMove ==
  ASSUME TypeOK, [Next]_vars, NEW j \in Instances
  PROVE  InstanceMove(j)
<1>1. ServiceTypeOK
  BY TypeParts
<1>2. UNCHANGED inst => InstanceMove(j)
  BY DEF InstanceMove
<1>3. ASSUME NEW r \in RunIds, AcceptCreate(r) PROVE InstanceMove(j)
  <2>1. j = <<"daily", r>> \/ inst'[j] = inst[j]
    BY <1>1, <1>3 DEF AcceptCreate, ServiceTypeOK
  <2>2. QED
    BY <1>3, <2>1 DEF InstanceMove, RunOf, IsLegacy
<1>4. ASSUME NEW i \in Instances, WorkflowStep(i) PROVE InstanceMove(j)
  BY <1>1, <1>4, WorkflowTouches DEF InstanceMove
<1>5. ASSUME NEW i \in Instances, GiveUp(i) \/ Replay(i) \/ Restart(i)
      PROVE  InstanceMove(j)
  <2>1. i = j \/ inst'[j] = inst[j]
    BY <1>1, <1>5 DEF GiveUp, Replay, Restart, Ends, ServiceTypeOK
  <2>2. QED
    BY <1>5, <2>1 DEF InstanceMove
<1>6. ASSUME NEW i \in Instances, MonitorDraft(i) PROVE InstanceMove(j)
  BY <1>2, <1>6 DEF MonitorDraft
<1>7. ServiceNext => InstanceMove(j)
  BY <1>3, <1>4, <1>5, <1>6 DEF ServiceNext
<1>8. HandlerNext \/ RunNext => UNCHANGED inst
  BY DEF HandlerNext, HandlerStep, ListRuns, AdmitRun, AdmitAborts, Raced, RecoverAdmitted,
     RecordUnavailable, ClaimSubmission, SendCreate, Inspect, RecordReceipt, Reread,
     TriggerOperator, TriggerScheduled, Trigger, Check, Evict, ResolveDispatch,
     serviceVars, RunNext, Reserve, EndOperation, BudgetStop, Decide, runRest
<1>9. QED
  BY <1>2, <1>7, <1>8 DEF Next, vars

\* An instance that exists never vanishes.
LEMMA InstanceStaysReal ==
  ASSUME TypeOK, [Next]_vars, NEW i \in Instances, inst[i].status # "none"
  PROVE  inst'[i].status # "none"
<1>1. inst[i] \in InstanceRecord /\ inst \in [Instances -> InstanceRecord]
  BY TypeParts DEF ServiceTypeOK, InstanceRecord
<1>2. \A pc : Go(i, pc) => inst'[i].status = inst[i].status
  BY <1>1 DEF Go, InstanceRecord
<1>3. \A result : Packaged(i, result) => inst'[i].status = inst[i].status
  BY <1>1 DEF Packaged, InstanceRecord
<1>4. \A end : Ends(i, end) => inst'[i].status = end
  BY <1>1 DEF Ends, InstanceRecord
<1>5. CASE Package(i) \/ MonitorDone(i) \/ Route(i) \/ ZeroFinish(i)
  BY <1>2, <1>3, <1>5 DEF Package, MonitorDone, Route, ZeroFinish
<1>6. CASE \/ AttachLegacyRun(i) \/ AttachLegacyAdmits(i) \/ ClaimLegacy(i)
           \/ Enter(i) \/ ReviewDone(i) \/ Finish(i)
  BY <1>2, <1>6 DEF AttachLegacyRun, AttachLegacyAdmits, ClaimLegacy, Enter,
                    ReviewDone, Finish
<1>7. CASE CompleteInstance(i) \/ Throw(i) \/ BodyEnds(i)
  BY <1>4, <1>7 DEF CompleteInstance, Throw, BodyEnds, TerminalInstance
<1>8. CASE GiveUp(i) \/ Replay(i) \/ Restart(i)
  BY <1>1, <1>4, <1>8 DEF GiveUp, Replay, Restart, InstanceRecord
<1>9. CASE AcceptCreate(RunOf(i)) /\ ~IsLegacy(i)
  <2>1. i = <<"daily", RunOf(i)>>
    BY <1>9 DEF Instances, RunOf, IsLegacy
  <2>2. QED
    BY <1>1, <1>9, <2>1 DEF AcceptCreate, InstanceRecord
<1>10. QED
  BY <1>5, <1>6, <1>7, <1>8, <1>9, InstancesMove DEF InstanceMove, WorkflowStep
-----------------------------------------------------------------------------
\* Where a handler that moved came from, by the await it is at now.
MovedTo(h, pc) == hs'[h].pc = pc /\ hs'[h] # hs[h]
Keeps(h) == /\ hs'[h].request = hs[h].request /\ hs'[h].origin = hs[h].origin
            /\ hs'[h].date = hs[h].date /\ hs'[h].run = hs[h].run

LEMMA MoveFields ==
  ASSUME HandlersTypeOK, NEW h \in Handlers, HandlerMove(h)
  PROVE  /\ MovedTo(h, "recover") => AdmitRun(h) /\ hs'[h].run = hs[h].run
         /\ MovedTo(h, "submit") \/ MovedTo(h, "unbound") => OwnsDate(hs'[h].run)
         /\ MovedTo(h, "create") \/ MovedTo(h, "inspect") =>
              Keeps(h) /\ hs[h].pc \in {"submit", "create"}
         /\ MovedTo(h, "record") =>
              Inspect(h) /\ Keeps(h) /\ hs'[h].observed \in Observable(hs[h].run)
         /\ MovedTo(h, "reread") =>
              RecordReceipt(h) /\ Keeps(h) /\ hs'[h].observed = hs[h].observed
         /\ MovedTo(h, "admit") => ListRuns(h)
         /\ MovedTo(h, "raced") => AdmitAborts(h) /\ Keeps(h)
         /\ MovedTo(h, "list") =>
              /\ hs'[h].request \in TriggerRequests
              /\ hs'[h].origin = "scheduled" =>
                   hs'[h].request = <<"scheduled", hs'[h].date>>
<1>1. hs[h] \in HandlerRecord
  BY DEF HandlersTypeOK
<1>2. \A pc : Goto(h, pc) => hs'[h].pc = pc /\ Keeps(h)
  BY <1>1 DEF HandlersTypeOK, Goto, SetH, HandlerRecord, Keeps
<1> USE DEF MovedTo
<1>3. CASE hs'[h] = IdleHandler
  BY <1>3 DEF IdleHandler
<1>4. CASE AdmitRun(h)
  <2>1. hs'[h].pc = "recover" /\ hs'[h].run = hs[h].run
    BY <1>4 DEF AdmitRun, SetH, HandlersTypeOK, IdleHandler
  <2>2. QED
    BY <1>4, <2>1
<1>5. CASE AdmitAborts(h)
  BY <1>2, <1>5 DEF AdmitAborts
<1>6. CASE ClaimSubmission(h)
  BY <1>2, <1>6 DEF ClaimSubmission
<1>7. CASE SendCreate(h)
  BY <1>2, <1>7 DEF SendCreate
<1>8. CASE Inspect(h)
  <2>1. PICK observed \in Observable(hs[h].run) :
          SetH(h, [hs[h] EXCEPT !.pc = "record", !.observed = observed])
    BY <1>8 DEF Inspect
  <2>2. hs'[h].pc = "record" /\ hs'[h].observed = observed /\ Keeps(h)
    BY <1>1, <2>1 DEF SetH, HandlersTypeOK, HandlerRecord, Keeps
  <2>3. QED
    BY <1>8, <2>1, <2>2
<1>9. CASE RecordReceipt(h) /\ hs'[h] = [hs[h] EXCEPT !.pc = "reread"]
  <2>1. hs'[h].pc = "reread" /\ hs'[h].observed = hs[h].observed /\ Keeps(h)
    BY <1>1, <1>9 DEF HandlerRecord, Keeps
  <2>2. QED
    BY <1>9, <2>1
<1>10. QED
  BY <1>3, <1>4, <1>5, <1>6, <1>7, <1>8, <1>9 DEF HandlerMove
-----------------------------------------------------------------------------
(* "started" is answered for an instance that was seen.                    *)

StartedInv ==
  \A h \in Handlers :
    /\ hs[h].pc \in RecoverPcs => Admitted(hs[h].run)
    /\ hs[h].pc \in {"record", "reread"} /\ hs[h].observed # "none" =>
         inst[InstanceOf(hs[h].run)].status # "none"

LEMMA InstanceOfStays ==
  ASSUME NEW r, RowStays(r), Admitted(r)
  PROVE  InstanceOf(r)' = InstanceOf(r)
BY DEF RowStays, InstanceOf, LegacyClaim

LEMMA TypeStep == TypeOK /\ [Next]_vars => TypeOK'
BY HandlerNextType, ServiceNextType, RunNextType, StutterType DEF Next

LEMMA StartedStep ==
  ASSUME TypeOK, AdmissionInv, StartedInv, [Next]_vars
  PROVE  StartedInv'
<1>1. DbTypeOK /\ HandlersTypeOK /\ HandlersTypeOK'
  BY TypeParts, TypePartsNext, TypeStep
<1>2. \A r \in RunIds : RowStays(r)
  BY RowSteps, RowsStay
<1>3. SUFFICES ASSUME NEW h \in Handlers, NEW r \in RunIds,
                      hs'[h].pc \in RecoverPcs, hs'[h].run = r
               PROVE  /\ Admitted(r)'
                      /\ hs'[h].pc \in {"record", "reread"} /\ hs'[h].observed # "none" =>
                           inst'[InstanceOf(r)'].status # "none"
  <2> SUFFICES ASSUME NEW h \in Handlers, hs'[h].pc \in RecoverPcs
               PROVE  /\ Admitted(hs[h].run)'
                      /\ hs'[h].pc \in {"record", "reread"} /\ hs'[h].observed # "none" =>
                           (inst[InstanceOf(hs[h].run)].status # "none")'
    BY DEF StartedInv, RecoverPcs
  <2>1. hs'[h].run \in RunIds
    BY <1>1 DEF HandlersTypeOK, NamesItsRun
  <2>2. PICK r \in RunIds : hs'[h].run = r
    BY <2>1
  <2>3. /\ Admitted(r)'
        /\ hs'[h].pc \in {"record", "reread"} /\ hs'[h].observed # "none" =>
             inst'[InstanceOf(r)'].status # "none"
    BY <1>3, <2>2
  <2>4. QED
    BY <2>2, <2>3 DEF Admitted, InstanceOf, LegacyClaim
<1>4. HandlerMove(h)
  BY HandlersMove
<1>5. ASSUME Admitted(r), inst[InstanceOf(r)].status # "none"
      PROVE  inst'[InstanceOf(r)'].status # "none"
  BY <1>1, <1>2, <1>5, InstanceOfType, InstanceOfStays, InstanceStaysReal
<1>6. Admitted(r) => Admitted(r)'
  BY <1>2 DEF RowStays
<1>7. CASE hs'[h] = hs[h]
  <2>1. hs[h].pc \in RecoverPcs /\ hs[h].run = r
    BY <1>3, <1>7
  <2>2. /\ Admitted(r)
        /\ hs[h].pc \in {"record", "reread"} /\ hs[h].observed # "none" =>
             inst[InstanceOf(r)].status # "none"
    BY <2>1 DEF StartedInv
  <2>3. QED
    BY <1>5, <1>6, <1>7, <2>2
<1>8. CASE hs'[h] # hs[h]
  <2>1. CASE hs'[h].pc = "recover"
    <3>1. AdmitRun(h) /\ r = hs[h].run
      BY <1>1, <1>3, <1>4, <1>8, <2>1, MoveFields DEF MovedTo
    <3>2. Admit(r, hs[h].request, hs[h].supersede, hs[h].prior, hs[h].origin, hs[h].at, "pending")
      BY <3>1 DEF AdmitRun
    <3>3. Admitted(r)'
      BY <1>1, <3>2, AdmitOthers
    <3>4. QED
      BY <2>1, <3>3
  <2>2. CASE hs'[h].pc \in {"submit", "unbound"}
    <3>1. OwnsDate(r)
      BY <1>1, <1>3, <1>4, <1>8, <2>2, MoveFields DEF MovedTo
    <3>2. QED
      BY <1>6, <2>2, <3>1 DEF OwnsDate
  <2>3. CASE hs'[h].pc \in {"create", "inspect"}
    <3>1. r = hs[h].run /\ hs[h].pc \in RecoverPcs
      BY <1>1, <1>3, <1>4, <1>8, <2>3, MoveFields DEF MovedTo, Keeps, RecoverPcs
    <3>2. QED
      BY <1>6, <2>3, <3>1 DEF StartedInv
  <2>4. CASE hs'[h].pc = "record"
    <3>1. Inspect(h) /\ r = hs[h].run /\ hs'[h].observed \in Observable(r)
      BY <1>1, <1>3, <1>4, <1>8, <2>4, MoveFields DEF MovedTo, Keeps
    <3>2. Admitted(r)
      BY <3>1 DEF Inspect, RecoverPcs, StartedInv
    <3>3. hs'[h].observed # "none" => inst[InstanceOf(r)].status # "none"
      BY <3>1 DEF Observable
    <3>4. QED
      BY <1>5, <1>6, <3>2, <3>3
  <2>5. CASE hs'[h].pc = "reread"
    <3>1. RecordReceipt(h) /\ r = hs[h].run /\ hs'[h].observed = hs[h].observed
      BY <1>1, <1>3, <1>4, <1>8, <2>5, MoveFields DEF MovedTo, Keeps
    <3>2. Admitted(r)
      BY <3>1 DEF RecordReceipt, RecoverPcs, StartedInv
    <3>3. hs'[h].observed # "none" => inst[InstanceOf(r)].status # "none"
      BY <3>1 DEF StartedInv, RecordReceipt
    <3>4. QED
      BY <1>5, <1>6, <3>2, <3>3
  <2>6. QED
    BY <1>3, <2>1, <2>2, <2>3, <2>4, <2>5 DEF RecoverPcs
<1>9. QED
  BY <1>7, <1>8

LEMMA StartedInvariant == Spec => []StartedInv
<1>1. Init => StartedInv
  BY DEF Init, StartedInv, IdleHandler, RecoverPcs
<1>2. TypeOK /\ AdmissionInv /\ StartedInv /\ [Next]_vars => StartedInv'
  BY StartedStep
<1>3. QED
  BY <1>1, <1>2, TypeCorrect, AdmissionInvariant, PTL DEF Spec

\* "started" is only ever answered for an instance that exists, however late
\* the lookup it rests on was.
THEOREM StartedIsRealHolds == Spec => []StartedIsReal
<1>1. StartedInv => StartedIsReal
  BY DEF StartedInv, StartedIsReal, AnswersStarted
<1>2. QED
  BY <1>1, StartedInvariant, PTL
-----------------------------------------------------------------------------
(* Which Runs appear, and which admissions.                                *)

\* The admission of q, by a request handler or by its legacy instance.
AdmittedNow(q) ==
  \/ \E h \in Handlers :
       /\ hs[h].pc = "admit" /\ hs[h].run = q
       /\ Admit(q, hs[h].request, hs[h].supersede, hs[h].prior, hs[h].origin, hs[h].at, "pending")
  \/ /\ q \in LegacyRuns
     /\ (\E now \in Clock : Admit(q, <<"legacy", q>>, FALSE, None, "scheduled", now, "uncertain"))

\* A Run appears only by its own admission; an admission of a Run that already
\* exists is the adoption of a legacy one.
LEMMA RowsAppear ==
  ASSUME TypeOK, AdmissionInv, RowStep, NEW q \in RunIds
  PROVE  /\ ~Exists(q) /\ Exists(q)' => AdmittedNow(q)
         /\ ~Admitted(q) /\ Admitted(q)' => AdmittedNow(q) \/ (q \in LegacyRuns /\ AdoptStep(q))
         /\ Exists(q)' /\ ~AdmittedNow(q) => Exists(q) /\ meta'[q] = meta[q]
<1>0. DbTypeOK /\ HandlersTypeOK
  BY TypeParts
<1>1. Exists(q) => Exists(q)' /\ meta'[q] = meta[q]
  BY RowsStay DEF RowStays
<1> SUFFICES /\ ~Exists(q) /\ Exists(q)' => AdmittedNow(q)
             /\ ~Admitted(q) /\ Admitted(q)' => AdmittedNow(q) \/ (q \in LegacyRuns /\ AdoptStep(q))
  BY <1>1
<1>2. CASE AdmitStep
  <2>1. ASSUME NEW r \in RunIds, NEW request, NEW supersede, NEW prior, NEW origin,
               NEW at, NEW state, state # "absent", r # q,
               Admit(r, request, supersede, prior, origin, at, state)
        PROVE  Exists(q)' = Exists(q) /\ Admitted(q)' = Admitted(q)
    <3>1. q \in RunIds \ {r}
      BY <2>1
    <3>2. \A p \in RunIds \ {r} : status'[p] = status[p] /\ adm'[p].state = adm[p].state
      BY <1>0, <2>1, AdmitOthers
    <3>4. status'[q] = status[q] /\ adm'[q].state = adm[q].state
      BY <3>1, <3>2
    <3>3. QED
      BY <3>4 DEF Exists, Admitted
  <2>2. \A h \in Handlers : hs[h].pc = "admit" => hs[h].run \in RunIds
    BY <1>0 DEF HandlersTypeOK, NamesItsRun
  <2>3. AdmittedNow(q) \/ (Exists(q)' = Exists(q) /\ Admitted(q)' = Admitted(q))
    BY <1>2, <2>1, <2>2, LegacyIds DEF AdmitStep, AdmittedNow
  <2>4. QED
    BY <2>3
<1>3. ASSUME NEW r \in LegacyRuns, AdoptStep(r)
      PROVE  Exists(q)' = Exists(q) /\ (q = r \/ Admitted(q)' = Admitted(q))
  BY <1>0, <1>3, AdoptOthers DEF Exists, Admitted
<1>4. ASSUME NEW r \in RunIds, FlagStep(r)
      PROVE  Exists(q)' = Exists(q) /\ Admitted(q)' = Admitted(q)
  BY <1>0, <1>4 DEF FlagStep, DbTypeOK, Exists, Admitted
<1>5. ASSUME NEW r \in RunIds, WorkStep(r)
      PROVE  Exists(q)' = Exists(q) /\ Admitted(q)' = Admitted(q)
  BY <1>0, <1>5 DEF WorkStep, LiveStatus, DbTypeOK, Exists, Admitted
<1>6. ASSUME NEW r \in RunIds, ResolveDispatch(r)
      PROVE  Exists(q)' = Exists(q) /\ Admitted(q)' = Admitted(q)
  BY <1>0, <1>6, ResolveOthers DEF Exists, Admitted, OwnsDate
<1>7. ASSUME NEW r \in RunIds, Reserve(r) \/ EndOperation(r) \/ DraftStep(r)
      PROVE  Exists(q)' = Exists(q) /\ Admitted(q)' = Admitted(q)
  BY <1>7 DEF Reserve, EndOperation, runRest, DraftStep, Exists, Admitted
<1>8. UNCHANGED dbVars => Exists(q)' = Exists(q) /\ Admitted(q)' = Admitted(q)
  BY DEF dbVars, Exists, Admitted
<1>9. QED
  BY <1>2, <1>3, <1>4, <1>5, <1>6, <1>7, <1>8 DEF RowStep
-----------------------------------------------------------------------------
(* One scheduled Run per date.  The cron's twins share a request id; a Run  *)
(* of the cron before admission existed has the suffix 0, which a scheduled *)
(* admission prefers: it takes another one only past a Run of an operator.  *)

TakenByOperator(d) ==
  Exists(<<d, 0>>) /\ meta[<<d, 0>>].origin # "scheduled"
ScheduledHandler(rec) ==
  rec.origin = "scheduled" =>
    /\ rec.pc \in {"list", "admit"} => rec.request = <<"scheduled", rec.date>>
    /\ rec.pc = "admit" =>
         /\ DateOf(rec.run) = rec.date
         /\ rec.run[2] # 0 => TakenByOperator(rec.date)
ScheduledInv ==
  /\ OneScheduledRun
  /\ \A q \in RunIds : Exists(q) /\ meta[q].origin = "scheduled" =>
       \/ q \in LegacyRuns
       \/ /\ Admitted(q) /\ adm[q].request = <<"scheduled", DateOf(q)>>
          /\ q[2] # 0 => TakenByOperator(DateOf(q))
  /\ \A h \in Handlers : ScheduledHandler(hs[h])

LEMMA RunIdParts ==
  ASSUME NEW r \in RunIds
  PROVE  /\ r = <<DateOf(r), r[2]>> /\ DateOf(r) \in Dates /\ r[2] \in 0 .. SuffixSpace - 1
         /\ <<DateOf(r), 0>> \in RunIds /\ DateOf(<<DateOf(r), 0>>) = DateOf(r)
         /\ r \in LegacyRuns => r = <<DateOf(r), 0>>
<1>1. r = <<DateOf(r), r[2]>> /\ DateOf(r) \in Dates /\ r[2] \in 0 .. SuffixSpace - 1
  BY DEF RunIds, DateOf
<1>2. 0 \in 0 .. SuffixSpace - 1
  BY SuffixSpaceAssumption
<1>3. QED
  BY <1>1, <1>2, LegacyAssumption DEF RunIds, DateOf

LEMMA ScheduledSuffix ==
  ASSUME NEW d \in Dates, NEW r \in NextFreeRunId(d, "scheduled")
  PROVE  /\ r \in RunIds /\ DateOf(r) = d /\ ~Exists(r)
         /\ r[2] # 0 => Exists(<<d, 0>>)
<1>1. r \in RunIds /\ DateOf(r) = d /\ ~Exists(r)
  BY DEF NextFreeRunId, FreeOn
<1>2. 0 % SuffixSpace = 0 /\ \A k \in 0 .. SuffixSpace - 1 : k % SuffixSpace = k
  BY SuffixSpaceAssumption
<1>3. Preferred("scheduled") = 0
  BY <1>2 DEF Preferred
<1>4. \A q \in RunIds : q[2] \in 0 .. SuffixSpace - 1 /\ Distance(q, "scheduled") = q[2]
  <2>1. \A q \in RunIds : q[2] \in 0 .. SuffixSpace - 1
    BY RunIdParts
  <2>2. \A q \in RunIds : q[2] - 0 = q[2]
    BY <2>1, SuffixSpaceAssumption
  <2>3. QED
    BY <1>2, <1>3, <2>1, <2>2 DEF Distance
<1>5. ASSUME ~Exists(<<d, 0>>) PROVE r[2] = 0
  <2>1. <<d, 0>> \in FreeOn(d)
    BY <1>1, <1>5, RunIdParts DEF FreeOn
  <2>2. Distance(r, "scheduled") <= Distance(<<d, 0>>, "scheduled")
    BY <2>1 DEF NextFreeRunId
  <2>3. r[2] <= 0
    BY <1>1, <1>4, <2>1, <2>2 DEF FreeOn
  <2>4. QED
    BY <1>1, <1>4, <2>3, SuffixSpaceAssumption
<1>6. QED
  BY <1>1, <1>5

LEMMA ListRunsFields ==
  ASSUME HandlersTypeOK, NEW h \in Handlers, ListRuns(h), hs'[h].pc = "admit"
  PROVE  /\ hs'[h].run \in NextFreeRunId(hs[h].date, hs[h].origin)
         /\ hs'[h].prior \in PriorPublish(hs[h].date)
         /\ hs'[h].date = hs[h].date /\ hs'[h].origin = hs[h].origin
         /\ hs'[h].request = hs[h].request /\ hs'[h].supersede = hs[h].supersede
         /\ ~ScheduledDuplicate(hs[h].origin, hs[h].date) /\ hs[h].pc = "list"
<1>1. hs[h] \in HandlerRecord
  BY DEF HandlersTypeOK
<1>2. ~Respond(h)
  BY DEF Respond, SetH, HandlersTypeOK, IdleHandler
<1>3. PICK r \in NextFreeRunId(hs[h].date, hs[h].origin),
           prior \in PriorPublish(hs[h].date) :
        SetH(h, [hs[h] EXCEPT !.pc = "admit", !.run = r, !.prior = prior])
  BY <1>2 DEF ListRuns
<1>4. hs'[h] = [hs[h] EXCEPT !.pc = "admit", !.run = r, !.prior = prior]
  BY <1>3 DEF SetH, HandlersTypeOK
<1>5. /\ hs'[h].run = r /\ hs'[h].prior = prior
      /\ hs'[h].date = hs[h].date /\ hs'[h].origin = hs[h].origin
      /\ hs'[h].request = hs[h].request /\ hs'[h].supersede = hs[h].supersede
  BY <1>1, <1>4 DEF HandlerRecord
<1>6. ~ScheduledDuplicate(hs[h].origin, hs[h].date) /\ hs[h].pc = "list"
  BY <1>2 DEF ListRuns
<1>7. QED
  BY <1>3, <1>5, <1>6

LEMMA AdmittedFresh ==
  ASSUME DbTypeOK, AdmissionInv, NEW q \in RunIds, AdmittedNow(q)
  PROVE  /\ ~Exists(q) /\ Exists(q)' /\ ~Admitted(q) /\ Admitted(q)' /\ status'[q] = "running"
         /\ \A p \in RunIds \ {q} :
              /\ status'[p] = status[p] /\ meta'[p] = meta[p]
              /\ adm'[p].state = adm[p].state /\ adm'[p].request = adm[p].request
              /\ ~AdmittedNow(p)
<1>1. ASSUME NEW p \in RunIds, AdmittedNow(p)
      PROVE  /\ ~Exists(p) /\ Exists(p)' /\ ~Admitted(p) /\ Admitted(p)' /\ status'[p] = "running"
             /\ \A x \in RunIds \ {p} :
                  /\ status'[x] = status[x] /\ meta'[x] = meta[x]
                  /\ adm'[x].state = adm[x].state /\ adm'[x].request = adm[x].request
  <2>1. CASE \E h \in Handlers :
               /\ hs[h].pc = "admit" /\ hs[h].run = p
               /\ Admit(p, hs[h].request, hs[h].supersede, hs[h].prior, hs[h].origin, hs[h].at, "pending")
    <3>1. PICK h \in Handlers :
             Admit(p, hs[h].request, hs[h].supersede, hs[h].prior, hs[h].origin, hs[h].at, "pending")
      BY <2>1
    <3>2. QED
      BY <3>1, AdmitOthers
  <2>2. CASE (\E now \in Clock : Admit(p, <<"legacy", p>>, FALSE, None, "scheduled", now, "uncertain"))
    BY <2>2, AdmitOthers
  <2>3. QED
    BY <1>1, <2>1, <2>2 DEF AdmittedNow
<1>2. \A p \in RunIds \ {q} : ~AdmittedNow(p)
  <2> SUFFICES ASSUME NEW p \in RunIds \ {q}, AdmittedNow(p) PROVE FALSE
    OBVIOUS
  <2>1. status'[p] = status[p]
    BY <1>1
  <2>2. ~Exists(p) /\ Exists(p)'
    BY <1>1
  <2>3. QED
    BY <2>1, <2>2 DEF Exists
<1>3. QED
  BY <1>1, <1>2

LEMMA TakenStays ==
  ASSUME TypeOK, AdmissionInv, RowStep, NEW d, <<d, 0>> \in RunIds, TakenByOperator(d)
  PROVE  TakenByOperator(d)'
BY RowsStay DEF RowStays, TakenByOperator

\* A scheduled Run is admitted while its date has no other scheduled Run.
LEMMA ScheduledAlone ==
  ASSUME TypeOK, AdmissionInv, ScheduledInv, RowStep, NEW q \in RunIds, AdmittedNow(q),
         meta'[q].origin = "scheduled"
  PROVE  /\ Exists(q)' /\ DateOf(q) \in Dates
         /\ \A p \in SameDate(q) \ {q} : ~(Exists(p) /\ meta[p].origin = "scheduled")
         /\ \/ q \in LegacyRuns
            \/ /\ Admitted(q)' /\ adm'[q].request = <<"scheduled", DateOf(q)>>
               /\ q[2] # 0 => TakenByOperator(DateOf(q))
<1>0. DbTypeOK /\ HandlersTypeOK
  BY TypeParts
<1>1. ASSUME NEW p \in SameDate(q) \ {q}, Exists(p), meta[p].origin = "scheduled",
             ~Exists(q)
      PROVE  /\ q \notin LegacyRuns
             /\ ~ /\ ByRequest(<<"scheduled", DateOf(q)>>) = {}
                  /\ q[2] # 0 => TakenByOperator(DateOf(q))
  <2>1. p \in RunIds /\ DateOf(p) = DateOf(q)
    BY <1>1 DEF SameDate
  <2>2. \/ p \in LegacyRuns
        \/ /\ Admitted(p) /\ adm[p].request = <<"scheduled", DateOf(q)>>
           /\ p[2] # 0 => TakenByOperator(DateOf(q))
    BY <1>1, <2>1 DEF ScheduledInv
  <2>3. p \in LegacyRuns => p = <<DateOf(q), 0>>
    BY <2>1, RunIdParts
  <2>4. q \in LegacyRuns => q = <<DateOf(q), 0>>
    BY RunIdParts
  <2>5. q[2] = 0 => q = <<DateOf(q), 0>>
    BY RunIdParts
  <2>6. p[2] = 0 => p = <<DateOf(q), 0>>
    BY <2>1, RunIdParts
  <2>7. TakenByOperator(DateOf(q)) => Exists(<<DateOf(q), 0>>) /\ p # <<DateOf(q), 0>>
    BY <1>1 DEF TakenByOperator
  <2>8. QED
    BY <1>1, <2>1, <2>2, <2>3, <2>4, <2>5, <2>6, <2>7 DEF ByRequest
<1>2. ASSUME NEW h \in Handlers, hs[h].pc = "admit", hs[h].run = q,
             Admit(q, hs[h].request, hs[h].supersede, hs[h].prior, hs[h].origin, hs[h].at, "pending")
      PROVE  /\ Exists(q)' /\ ~Exists(q) /\ hs[h].origin = "scheduled"
             /\ ByRequest(<<"scheduled", DateOf(q)>>) = {}
             /\ Admitted(q)' /\ adm'[q].request = <<"scheduled", DateOf(q)>>
             /\ q[2] # 0 => TakenByOperator(DateOf(q))
  <2>0. /\ ~Exists(q) /\ Exists(q)' /\ Admitted(q)' /\ adm'[q].request = hs[h].request
        /\ meta'[q] = [origin |-> hs[h].origin, prior |-> hs[h].prior,
                       started |-> hs[h].at]
    BY <1>0, <1>2, AdmitOthers
  <2>1. hs[h].origin = "scheduled"
    BY <2>0
  <2>2. /\ hs[h].request = <<"scheduled", DateOf(q)>>
        /\ q[2] # 0 => TakenByOperator(DateOf(q))
    BY <1>2, <2>1 DEF ScheduledInv, ScheduledHandler
  <2>3. ByRequest(hs[h].request) = {}
    BY <1>2 DEF Admit, AdmitOk
  <2>4. QED
    BY <2>0, <2>1, <2>2, <2>3
<1>3. ASSUME q \in LegacyRuns, (\E now \in Clock : Admit(q, <<"legacy", q>>, FALSE, None, "scheduled", now, "uncertain"))
      PROVE  Exists(q)' /\ ~Exists(q)
  BY <1>0, <1>3, AdmitOthers
<1>4. DateOf(q) \in Dates
  BY RunIdParts
<1>5. CASE \E h \in Handlers :
             /\ hs[h].pc = "admit" /\ hs[h].run = q
             /\ Admit(q, hs[h].request, hs[h].supersede, hs[h].prior, hs[h].origin, hs[h].at, "pending")
  BY <1>1, <1>2, <1>4, <1>5
<1>6. CASE ~ \E h \in Handlers :
               /\ hs[h].pc = "admit" /\ hs[h].run = q
               /\ Admit(q, hs[h].request, hs[h].supersede, hs[h].prior, hs[h].origin, hs[h].at, "pending")
  <2>1. q \in LegacyRuns /\ (\E now \in Clock : Admit(q, <<"legacy", q>>, FALSE, None, "scheduled", now, "uncertain"))
    BY <1>6 DEF AdmittedNow
  <2>2. QED
    BY <1>1, <1>3, <1>4, <2>1
<1>7. QED
  BY <1>5, <1>6

LEMMA ScheduledStep ==
  ASSUME TypeOK, AdmissionInv, ScheduledInv, [Next]_vars
  PROVE  ScheduledInv'
<1>0. DbTypeOK /\ HandlersTypeOK /\ RowStep
  BY TypeParts, RowSteps
<1>1. OneScheduledRun'
  <2> SUFFICES ASSUME NEW r \in RunIds, NEW q \in SameDate(r),
                      Exists(r)', meta'[r].origin = "scheduled",
                      Exists(q)', meta'[q].origin = "scheduled", r # q
               PROVE  FALSE
    BY DEF OneScheduledRun, SameDate
  <2>1. q \in RunIds /\ DateOf(q) = DateOf(r) /\ r \in SameDate(q)
    BY DEF SameDate
  <2>2. AdmittedNow(r) \/ (Exists(r) /\ meta[r].origin = "scheduled")
    BY <1>0, RowsAppear
  <2>3. AdmittedNow(q) \/ (Exists(q) /\ meta[q].origin = "scheduled")
    BY <1>0, <2>1, RowsAppear
  <2>4. CASE AdmittedNow(r)
    <3>1. ~(Exists(q) /\ meta[q].origin = "scheduled")
      BY <1>0, <2>4, ScheduledAlone
    <3>2. ~AdmittedNow(q)
      BY <1>0, <2>1, <2>4, AdmittedFresh
    <3>3. QED
      BY <2>3, <3>1, <3>2
  <2>5. CASE AdmittedNow(q) /\ ~AdmittedNow(r)
    BY <1>0, <2>1, <2>2, <2>5, ScheduledAlone
  <2>6. CASE ~AdmittedNow(q) /\ ~AdmittedNow(r)
    BY <2>1, <2>2, <2>3, <2>6 DEF ScheduledInv, OneScheduledRun
  <2>7. QED
    BY <2>4, <2>5, <2>6
<1>2. ASSUME NEW q \in RunIds, Exists(q)', meta'[q].origin = "scheduled"
      PROVE  \/ q \in LegacyRuns
             \/ /\ Admitted(q)' /\ adm'[q].request = <<"scheduled", DateOf(q)>>
                /\ q[2] # 0 => TakenByOperator(DateOf(q))'
  <2>1. TakenByOperator(DateOf(q)) => TakenByOperator(DateOf(q))'
    BY <1>0, TakenStays, RunIdParts
  <2>2. CASE AdmittedNow(q)
    BY <1>0, <1>2, <2>1, <2>2, ScheduledAlone
  <2>3. CASE ~AdmittedNow(q)
    <3>1. Exists(q) /\ meta[q].origin = "scheduled"
      BY <1>0, <1>2, <2>3, RowsAppear
    <3>2. \/ q \in LegacyRuns
          \/ /\ Admitted(q) /\ adm[q].request = <<"scheduled", DateOf(q)>>
             /\ q[2] # 0 => TakenByOperator(DateOf(q))
      BY <3>1 DEF ScheduledInv
    <3>3. RowStays(q)
      BY <1>0, RowsStay
    <3>4. QED
      BY <2>1, <3>2, <3>3 DEF RowStays
  <2>4. QED
    BY <2>2, <2>3
<1>3. ASSUME NEW h \in Handlers, NEW rec, rec = hs'[h]
      PROVE  ScheduledHandler(rec)'
  <2> DEFINE r == rec.run
             d == rec.date
  <2>0. HandlerMove(h) /\ rec \in HandlerRecord /\ NamesItsRun(rec)
    BY <1>0, <1>3, HandlersMove, TypeStep, TypePartsNext DEF HandlersTypeOK
  <2>4. rec.pc = "admit" => r \in RunIds
    BY <2>0 DEF NamesItsRun
  <2>5. ASSUME rec.pc = "admit", DateOf(r) = d, TakenByOperator(d)
        PROVE  TakenByOperator(d)'
    BY <1>0, <2>4, <2>5, TakenStays, RunIdParts
  <2>1. CASE rec = hs[h]
    <3>1. ScheduledHandler(rec)
      BY <2>1 DEF ScheduledInv
    <3>2. QED
      BY <2>5, <3>1 DEF ScheduledHandler
  <2>2. CASE rec # hs[h] /\ rec.pc = "list"
    BY <1>0, <1>3, <2>0, <2>2, MoveFields DEF MovedTo, ScheduledHandler
  <2>3. CASE rec # hs[h] /\ rec.pc = "admit" /\ rec.origin = "scheduled"
    <3>1. ListRuns(h)
      BY <1>0, <1>3, <2>0, <2>3, MoveFields DEF MovedTo
    <3>2. /\ r \in NextFreeRunId(d, "scheduled") /\ rec.request = hs[h].request
          /\ ~ScheduledDuplicate("scheduled", d)
          /\ hs[h].pc = "list" /\ hs[h].origin = "scheduled" /\ hs[h].date = d
      BY <1>0, <1>3, <2>3, <3>1, ListRunsFields
    <3>3. rec.request = <<"scheduled", d>>
      BY <3>2 DEF ScheduledInv, ScheduledHandler
    <3>4. DateOf(r) = d /\ d \in Dates
      BY <2>3, <2>4, <3>2, RunIdParts DEF NextFreeRunId, FreeOn
    <3>5. r[2] # 0 => Exists(<<d, 0>>)
      BY <3>2, <3>4, ScheduledSuffix
    <3>6. Exists(<<d, 0>>) => TakenByOperator(d)
      <4>1. <<d, 0>> \in RunIds /\ DateOf(<<d, 0>>) = d
        BY <2>3, <2>4, <3>4, RunIdParts
      <4>2. ~\E x \in OnDate(d) : meta[x].origin = "scheduled"
        BY <3>2 DEF ScheduledDuplicate
      <4>3. QED
        BY <4>1, <4>2 DEF OnDate, TakenByOperator
    <3>7. QED
      BY <2>3, <2>5, <3>3, <3>4, <3>5, <3>6 DEF ScheduledHandler
  <2>6. QED
    BY <2>1, <2>2, <2>3 DEF ScheduledHandler
<1>4. \A h \in Handlers : ScheduledHandler(hs[h])'
  <2> SUFFICES ASSUME NEW h \in Handlers PROVE ScheduledHandler(hs[h])'
    OBVIOUS
  <2>1. PICK rec : rec = hs'[h]
    OBVIOUS
  <2>2. ScheduledHandler(rec)'
    BY <1>3, <2>1
  <2>3. QED
    BY <2>1, <2>2 DEF ScheduledHandler, TakenByOperator, Exists
<1>5. QED
  BY <1>1, <1>2, <1>4 DEF ScheduledInv

LEMMA ScheduledInvariant == Spec => []ScheduledInv
<1>1. Init => ScheduledInv
  <2> SUFFICES ASSUME Init PROVE ScheduledInv
    OBVIOUS
  <2>1. \A q \in RunIds : Exists(q) => q \in LegacyRuns
    BY DEF Init, Exists
  <2>2. OneScheduledRun
    BY <2>1, RunIdParts DEF OneScheduledRun, SameDate
  <2>3. QED
    BY <2>1, <2>2 DEF Init, ScheduledInv, ScheduledHandler, IdleHandler
<1>2. TypeOK /\ AdmissionInv /\ ScheduledInv /\ [Next]_vars => ScheduledInv'
  BY ScheduledStep
<1>3. QED
  BY <1>1, <1>2, TypeCorrect, AdmissionInvariant, PTL DEF Spec

\* Whatever triggers race, and whether or not the cron had dispatched the date
\* before admission existed, a date has at most one scheduled Run.
THEOREM OneScheduledRunHolds == Spec => []OneScheduledRun
<1>1. ScheduledInv => OneScheduledRun
  BY DEF ScheduledInv
<1>2. QED
  BY <1>1, ScheduledInvariant, PTL
-----------------------------------------------------------------------------
(* Ownership is not taken from a Workflow at work, as long as the operator  *)
(* restarts no instance: an instance that ended stays ended, so that a late *)
(* terminal receipt never speaks of one at work.                            *)

\* What a step does to the admissions, flag by flag.
FlagsMove ==
  \/ UNCHANGED <<adm, retired>>
  \/ AdmitStep
  \/ \E r \in LegacyRuns : AttachLegacy(r) /\ UNCHANGED retired
  \/ \E h \in Handlers :
       /\ hs[h].pc \in RecoverPcs /\ UNCHANGED retired
       /\ \E state, observed :
            /\ Record(hs[h].run, state, observed)
            /\ Ended(observed) => hs[h].pc = "record" /\ observed = hs[h].observed
  \/ \E h \in Handlers : ClaimSubmission(h)
  \/ \E r \in RunIds : ResolveDispatch(r)
  \/ \E i \in Instances : Enter(i) \/ Finish(i)

LEMMA FlagsMoves == ASSUME [Next]_vars PROVE FlagsMove
<1>1. UNCHANGED dbVars => FlagsMove
  BY DEF dbVars, FlagsMove
<1>2. ASSUME NEW h \in Handlers, HandlerStep(h) PROVE FlagsMove
  <2>1. CASE AdmitRun(h)
    BY <2>1 DEF AdmitRun, AdmitStep, FlagsMove
  <2>2. CASE RecordUnavailable(h)
    <3>1. Record(hs[h].run, "unavailable", "none") /\ ~Ended("none")
      BY <2>2 DEF RecordUnavailable, Ended, TerminalInstance
    <3>2. hs[h].pc \in RecoverPcs /\ UNCHANGED retired
      BY <2>2 DEF RecordUnavailable, RecoverPcs
    <3>3. QED
      BY <3>1, <3>2 DEF FlagsMove
  <2>3. CASE RecordReceipt(h)
    <3>1. Record(hs[h].run, ReceiptState(hs[h].observed), hs[h].observed) /\ hs[h].pc = "record"
      BY <2>3 DEF RecordReceipt
    <3>2. hs[h].pc \in RecoverPcs /\ UNCHANGED retired
      BY <2>3 DEF RecordReceipt, RecoverPcs
    <3>3. QED
      BY <3>1, <3>2 DEF FlagsMove
  <2>4. CASE ClaimSubmission(h)
    BY <2>4 DEF FlagsMove
  <2>5. CASE \/ ListRuns(h) \/ AdmitAborts(h) \/ Raced(h) \/ RecoverAdmitted(h)
             \/ SendCreate(h) \/ Inspect(h) \/ Reread(h)
    BY <1>1, <2>5 DEF ListRuns, AdmitAborts, Raced, RecoverAdmitted, SendCreate,
                      Inspect, Reread
  <2>6. QED
    BY <1>2, <2>1, <2>2, <2>3, <2>4, <2>5 DEF HandlerStep
<1>3. HandlerNext => FlagsMove
  BY <1>1, <1>2 DEF HandlerNext, TriggerOperator, TriggerScheduled, Trigger, Check,
     Evict, FlagsMove
<1>4. ASSUME NEW i \in Instances, WorkflowStep(i) PROVE FlagsMove
  <2>1. CASE AttachLegacyRun(i) \/ ClaimLegacy(i)
    BY <2>1, LegacyRunOf DEF AttachLegacyRun, ClaimLegacy, FlagsMove
  <2>2. CASE AttachLegacyAdmits(i)
    BY <2>2, LegacyRunOf DEF AttachLegacyAdmits, AdmitStep, FlagsMove
  <2>3. CASE Enter(i) \/ Finish(i)
    BY <2>3 DEF FlagsMove
  <2>4. CASE ZeroFinish(i) \/ ReviewDone(i)
    BY <2>4 DEF ZeroFinish, ReviewDone, FlagsMove
  <2>5. CASE \/ Package(i) \/ MonitorDone(i) \/ Route(i) \/ CompleteInstance(i)
             \/ Throw(i) \/ BodyEnds(i)
    BY <1>1, <2>5 DEF Package, MonitorDone, Route, CompleteInstance, Throw, BodyEnds
  <2>6. QED
    BY <1>4, <2>1, <2>2, <2>3, <2>4, <2>5 DEF WorkflowStep
<1>5. ServiceNext => FlagsMove
  BY <1>1, <1>4 DEF ServiceNext, AcceptCreate, MonitorDraft, GiveUp, Replay, Restart,
     FlagsMove
<1>6. RunNext => FlagsMove
  BY DEF RunNext, Reserve, EndOperation, BudgetStop, Decide, runRest, FlagsMove
<1>7. QED
  BY <1>1, <1>3, <1>5, <1>6 DEF Next, vars, dbVars
-----------------------------------------------------------------------------
\* A Run keeps the instance its claim names: a legacy claim is never pending, so
\* no handler submits a create for it.
LegacyRequest(request) == \E r \in RunIds : request = <<"legacy", r>>
PinnedInv ==
  /\ \A h \in Handlers : hs[h].pc \in {"list", "admit"} => ~LegacyRequest(hs[h].request)
  /\ \A r \in RunIds : LegacyClaim(r) /\ Admitted(r) => Submitted(r)
  /\ \A r \in RunIds : creates[r] > 0 => ~LegacyClaim(r)
  /\ \A r \in RunIds, h \in Handlers : Creating(h, r) => ~LegacyClaim(r)

LEMMA TriggerIsNotLegacy ==
  \A request \in TriggerRequests : ~LegacyRequest(request)
BY DEF TriggerRequests, LegacyRequest

LEMMA PinnedStep ==
  ASSUME TypeOK, AdmissionInv, CreateInv, PinnedInv, [Next]_vars
  PROVE  PinnedInv'
<1>0. DbTypeOK /\ HandlersTypeOK /\ RowStep
  BY TypeParts, RowSteps
<1>1. \A r \in RunIds : RowStays(r)
  BY <1>0, RowsStay
<1>2. ASSUME NEW h \in Handlers, NEW rec, rec = hs'[h], rec.pc \in {"list", "admit"}
      PROVE  ~LegacyRequest(rec.request)
  <2>1. HandlerMove(h)
    BY HandlersMove
  <2>2. CASE rec = hs[h]
    BY <1>2, <2>2 DEF PinnedInv
  <2>3. CASE rec # hs[h] /\ rec.pc = "list"
    BY <1>0, <1>2, <2>1, <2>3, MoveFields, TriggerIsNotLegacy DEF MovedTo
  <2>4. CASE rec # hs[h] /\ rec.pc = "admit"
    <3>1. ListRuns(h)
      BY <1>0, <1>2, <2>1, <2>4, MoveFields DEF MovedTo
    <3>2. rec.request = hs[h].request /\ hs[h].pc = "list"
      BY <1>0, <1>2, <2>4, <3>1, ListRunsFields
    <3>3. QED
      BY <3>2 DEF PinnedInv
  <2>5. QED
    BY <1>2, <2>2, <2>3, <2>4
<1>3. ASSUME NEW r \in RunIds, LegacyClaim(r)', Admitted(r)'
      PROVE  Submitted(r)'
  <2>1. CASE Admitted(r)
    <3>1. Submitted(r)
      BY <1>1, <1>3, <2>1 DEF RowStays, LegacyClaim, PinnedInv
    <3>2. QED
      BY <3>1, SubmittedStays
  <2>2. CASE ~Admitted(r)
    <3>1. AdmittedNow(r) \/ (r \in LegacyRuns /\ AdoptStep(r))
      BY <1>0, <1>3, <2>2, RowsAppear
    <3>2. CASE r \in LegacyRuns /\ AdoptStep(r)
      BY <1>0, <1>3, <3>2, AdoptOthers DEF Submitted
    <3>3. CASE (\E now \in Clock : Admit(r, <<"legacy", r>>, FALSE, None, "scheduled", now, "uncertain"))
      <4>1. adm'[r].state = "uncertain"
        BY <3>3 DEF Admit, NoAdmission
      <4>2. QED
        BY <1>3, <4>1 DEF Submitted
    <3>4. ASSUME NEW h \in Handlers, hs[h].pc = "admit",
                 Admit(r, hs[h].request, hs[h].supersede, hs[h].prior, hs[h].origin, hs[h].at, "pending")
          PROVE  FALSE
      <4>1. adm'[r].request = hs[h].request
        BY <1>0, <3>4, AdmitOthers
      <4>2. ~LegacyRequest(hs[h].request)
        BY <3>4 DEF PinnedInv
      <4>3. QED
        BY <1>3, <4>1, <4>2 DEF LegacyClaim, LegacyRequest
    <3>5. QED
      BY <3>1, <3>2, <3>3, <3>4 DEF AdmittedNow
  <2>3. QED
    BY <2>1, <2>2
<1>4. ASSUME NEW r \in RunIds, NEW h \in Handlers, Creating(h, r)'
      PROVE  ~LegacyClaim(r)'
  <2>1. CASE Creating(h, r)
    <3>1. Admitted(r)
      BY <2>1 DEF CreateInv, Submitted
    <3>2. QED
      BY <1>1, <2>1, <3>1 DEF RowStays, PinnedInv, LegacyClaim
  <2>2. CASE ~Creating(h, r)
    <3>1. ClaimSubmission(h) /\ hs[h].run = r /\ Creating(h, r)'
      BY <1>4, <2>2, CreatingMoves
    <3>2. Submittable(r)
      <4>1. hs[h] \in HandlerRecord
        BY <1>0 DEF HandlersTypeOK
      <4>2. Goto(h, "inspect") => hs'[h].pc = "inspect"
        BY <1>0, <4>1 DEF Goto, SetH, HandlersTypeOK, HandlerRecord
      <4>3. QED
        BY <3>1, <4>2 DEF ClaimSubmission, Creating
    <3>3. Admitted(r) /\ ~LegacyClaim(r)
      BY <3>2 DEF Submittable, OwnsDate, PinnedInv, Submitted
    <3>4. QED
      BY <1>1, <3>3 DEF RowStays, LegacyClaim
  <2>3. QED
    BY <2>1, <2>2
<1>5. ASSUME NEW r \in RunIds, creates'[r] > 0
      PROVE  ~LegacyClaim(r)'
  <2>1. creates[r] > 0 \/ \E h \in Handlers : Creating(h, r)
    <3>1. CASE creates'[r] = creates[r]
      BY <1>5, <3>1
    <3>2. ASSUME NEW h \in Handlers, SendCreate(h), creates'[r] # creates[r]
          PROVE  Creating(h, r)
      BY <3>2 DEF SendCreate, Creating, TypeOK
    <3>3. QED
      BY <3>1, <3>2, CreatesMove
  <2>2. Admitted(r) /\ ~LegacyClaim(r)
    BY <2>1 DEF CreateInv, Submitted, PinnedInv
  <2>3. QED
    BY <1>1, <2>2 DEF RowStays, LegacyClaim
<1>6. \A h \in Handlers : hs'[h].pc \in {"list", "admit"} => ~LegacyRequest(hs'[h].request)
  BY <1>2
<1>7. QED
  BY <1>3, <1>4, <1>5, <1>6 DEF PinnedInv, LegacyRequest

LEMMA PinnedInvariant == Spec => []PinnedInv
<1>1. Init => PinnedInv
  <2> SUFFICES ASSUME Init PROVE PinnedInv
    OBVIOUS
  <2>1. \A r \in RunIds : ~Admitted(r) /\ creates[r] = 0
    BY DEF Init, Admitted, NoAdmission
  <2>2. \A h \in Handlers : hs[h].pc = "idle"
    BY DEF Init, IdleHandler
  <2>3. QED
    BY <2>1, <2>2 DEF PinnedInv, Creating
<1>2. TypeOK /\ AdmissionInv /\ CreateInv /\ PinnedInv /\ [Next]_vars => PinnedInv'
  BY PinnedStep
<1>3. QED
  BY <1>1, <1>2, TypeCorrect, AdmissionInvariant, CreateInvariant, PTL DEF Spec
-----------------------------------------------------------------------------
Terminal(i) == inst[i].status \in TerminalInstance
AtWork(i)   == Running(i) /\ inst[i].pc \in WorkPcs
Entered(i) ==
  LET r == RunOf(i) IN
  /\ Admitted(r) /\ adm[r].entered /\ ~adm[r].finished /\ ~adm[r].released
  /\ r \notin retired /\ i = InstanceOf(r)
QuietInv ==
  /\ \A i \in Instances :
       /\ inst[i].status = "none" => inst[i].pc = "dead" /\ ~IsLegacy(i)
       /\ ~IsLegacy(i) /\ inst[i].status # "none" => creates[RunOf(i)] > 0
       /\ ~IsLegacy(i) => inst[i].pc \notin {"attach", "claim"}
       /\ IsLegacy(i) /\ Running(i) /\ At(i, "enter") =>
            Admitted(RunOf(i)) /\ LegacyClaim(RunOf(i))
       /\ AtWork(i) => Entered(i)
  /\ \A h \in Handlers :
       hs[h].pc = "record" /\ Ended(hs[h].observed) => Terminal(InstanceOf(hs[h].run))

LEMMA GoMoves ==
  ASSUME ServiceTypeOK, NEW i \in Instances
  PROVE  /\ \A pc : Go(i, pc) => inst'[i].pc = pc /\ inst'[i].status = inst[i].status
         /\ \A result : Packaged(i, result) =>
              inst'[i].pc = "route" /\ inst'[i].status = inst[i].status
         /\ \A end : Ends(i, end) => inst'[i].pc = "dead" /\ inst'[i].status = end
<1>1. inst[i] \in InstanceRecord /\ inst \in [Instances -> InstanceRecord]
  BY DEF ServiceTypeOK, InstanceRecord
<1>2. \A pc : Go(i, pc) => inst'[i].pc = pc /\ inst'[i].status = inst[i].status
  BY <1>1 DEF Go, InstanceRecord
<1>3. \A result : Packaged(i, result) =>
        inst'[i].pc = "route" /\ inst'[i].status = inst[i].status
  BY <1>1 DEF Packaged, InstanceRecord
<1>4. \A end : Ends(i, end) => inst'[i].pc = "dead" /\ inst'[i].status = end
  BY <1>1 DEF Ends, InstanceRecord
<1>5. QED
  BY <1>2, <1>3, <1>4

\* Without restarts an instance that moved was running and entered before it works;
\* only a body its engine gave up on moves otherwise, and stays ended.
LEMMA InstanceMoveCases ==
  ASSUME TypeOK, MaxRestarts = 0, NEW i \in Instances, InstanceMove(i), inst'[i] # inst[i]
  PROVE  \/ Terminal(i) /\ Terminal(i)'
         \/ ~Running(i)'
         \/ AtWork(i) /\ inst'[i].pc \in WorkPcs \cup {"end"} /\ ~Finish(i)
         \/ Finish(i) /\ inst'[i].pc = "end" /\ AtWork(i)
         \/ Enter(i) /\ inst'[i].pc \in {"package", "route"}
         \/ ~IsLegacy(i) /\ inst'[i].pc = "enter"
         \/ IsLegacy(i) /\ inst'[i].pc \in {"attach", "claim"}
         \/ ClaimLegacy(i) /\ inst'[i].pc = "enter"
<1> USE DEF Running, At, Terminal, AtWork
<1>0. ServiceTypeOK
  BY TypeParts
<1>1. /\ \A pc : Go(i, pc) => inst'[i].pc = pc /\ inst'[i].status = inst[i].status
      /\ \A result : Packaged(i, result) =>
           inst'[i].pc = "route" /\ inst'[i].status = inst[i].status
      /\ \A end : Ends(i, end) => inst'[i].pc = "dead" /\ inst'[i].status = end
  BY <1>0, GoMoves
<1>2. inst[i].status \in InstanceStatus /\ inst[i].pc \in Pcs /\ inst[i].restarts \in 0 .. MaxRestarts
  BY <1>0 DEF ServiceTypeOK
<1>3. CASE AttachLegacyRun(i) \/ AttachLegacyAdmits(i)
  BY <1>1, <1>3 DEF AttachLegacyRun, AttachLegacyAdmits
<1>4. CASE ClaimLegacy(i)
  BY <1>1, <1>4 DEF ClaimLegacy
<1>5. CASE Enter(i)
  BY <1>1, <1>5 DEF Enter
<1>6. CASE Package(i) \/ Route(i)
  BY <1>1, <1>6 DEF Package, Route, WorkPcs, Pcs, Finish
<1>7. CASE MonitorDone(i) \/ ZeroFinish(i) \/ ReviewDone(i)
  <2>1. inst[i].pc \in WorkPcs /\ inst'[i].pc \in WorkPcs /\ inst'[i].status = inst[i].status
        /\ ~Finish(i)
    BY <1>1, <1>7 DEF MonitorDone, ZeroFinish, ReviewDone, WorkPcs, Pcs, Finish
  <2>2. QED
    BY <1>2, <2>1 DEF InstanceStatus, TerminalInstance
<1>8. CASE Finish(i)
  BY <1>1, <1>8 DEF Finish, WorkPcs, Pcs
<1>9. CASE CompleteInstance(i) \/ Throw(i) \/ BodyEnds(i) \/ GiveUp(i)
  BY <1>0, <1>1, <1>2, <1>9 DEF CompleteInstance, Throw, BodyEnds, GiveUp, InstanceStatus,
     TerminalInstance, ServiceTypeOK
<1>10. CASE Replay(i)
  <2>1. PICK pc \in {FirstPc(i), IF IsLegacy(i) THEN "claim" ELSE "enter"} :
          \E packaged : inst' = [inst EXCEPT ![i].pc = pc, ![i].packaged = packaged]
    BY <1>10 DEF Replay
  <2>2. inst'[i].pc = pc
    BY <1>0, <2>1 DEF ServiceTypeOK
  <2>3. QED
    BY <2>1, <2>2 DEF FirstPc
<1>11. CASE Restart(i)
  <2>1. inst[i].restarts = 0
    BY <1>2
  <2>2. QED
    BY <1>11, <2>1 DEF Restart
<1>12. CASE ~IsLegacy(i) /\ AcceptCreate(RunOf(i))
  <2>1. i = <<"daily", RunOf(i)>>
    BY <1>12 DEF Instances, RunOf, IsLegacy
  <2>2. inst'[i].pc = "enter"
    BY <1>0, <1>12, <2>1 DEF AcceptCreate, ServiceTypeOK
  <2>3. QED
    BY <1>12, <2>2
<1>13. QED
  BY <1>3, <1>4, <1>5, <1>6, <1>7, <1>8, <1>9, <1>10, <1>11, <1>12
     DEF InstanceMove, WorkflowStep

\* Nobody takes the claim of an instance at work, or calls it finished, but the
\* instance itself when it finishes.
LEMMA EnteredStays ==
  ASSUME TypeOK, AdmissionInv, QuietInv, [Next]_vars, NEW i \in Instances, AtWork(i)
  PROVE  Entered(i)' \/ Finish(i)
<1> DEFINE r == RunOf(i)
<1>0. DbTypeOK /\ RowStep /\ FlagsMove
  BY TypeParts, RowSteps, FlagsMoves
<1>1. r \in RunIds /\ adm[r] \in AdmissionRow
  BY <1>0, RunOfType DEF DbTypeOK
<1>2. /\ Admitted(r) /\ adm[r].entered /\ ~adm[r].finished /\ ~adm[r].released
      /\ r \notin retired /\ i = InstanceOf(r)
  BY DEF QuietInv, Entered
<1>3. Admitted(r)' /\ i = InstanceOf(r)'
  BY <1>0, <1>1, <1>2, RowsStay, InstanceOfStays DEF RowStays
<1>4. SUFFICES \/ /\ r \notin retired'
                  /\ adm'[r].entered /\ ~adm'[r].finished /\ ~adm'[r].released
               \/ Finish(i)
  BY <1>3 DEF Entered
<1>5. CASE UNCHANGED <<adm, retired>>
  BY <1>2, <1>5
<1>6. ASSUME NEW q \in RunIds, NEW request, NEW supersede, NEW prior, NEW origin,
             NEW at, NEW state,
             Admit(q, request, supersede, prior, origin, at, state)
      PROVE  r \notin retired' /\ adm'[r] = adm[r]
  <2>1. q # r
    BY <1>2, <1>6 DEF Admit, AdmitOk, AdmissionInv, RowsExist
  <2>2. ~Releasable(r) /\ r \notin Retires(DateOf(q))
    BY <1>2 DEF Releasable, Retires
  <2>3. QED
    BY <1>1, <1>2, <1>6, <2>1, <2>2 DEF Admit
<1>7. CASE AdmitStep
  <2>1. \A h \in Handlers : hs[h].pc = "admit" => hs[h].run \in RunIds
    BY TypeParts DEF HandlersTypeOK, NamesItsRun
  <2>2. r \notin retired' /\ adm'[r] = adm[r]
    BY <1>6, <1>7, <2>1, LegacyIds DEF AdmitStep
  <2>3. QED
    BY <1>2, <2>2
<1>8. ASSUME NEW q \in LegacyRuns, AttachLegacy(q), UNCHANGED retired
      PROVE  r \notin retired' /\ adm'[r] = adm[r]
  BY <1>0, <1>1, <1>2, <1>8 DEF AttachLegacy, DbTypeOK
<1>9. ASSUME NEW h \in Handlers, hs[h].pc \in RecoverPcs, UNCHANGED retired,
             NEW state, NEW observed, Record(hs[h].run, state, observed),
             Ended(observed) => hs[h].pc = "record" /\ observed = hs[h].observed
      PROVE  /\ r \notin retired'
             /\ adm'[r].entered /\ ~adm'[r].finished /\ ~adm'[r].released
  <2>1. CASE adm' = adm
    BY <1>2, <1>9, <2>1
  <2>2. CASE hs[h].run # r
    <3>1. adm'[r] = adm[r]
      BY <1>0, <1>1, <1>9, <2>2 DEF Record, DbTypeOK
    <3>2. QED
      BY <1>2, <1>9, <3>1
  <2>3. CASE hs[h].run = r /\ adm' # adm
    <3>1. ~Ended(observed)
      BY <1>2, <1>9, <2>3 DEF QuietInv, AtWork, Terminal, Running, TerminalInstance
    <3> DEFINE row == [adm[r] EXCEPT !.state = state, !.instanceStatus = observed,
                                     !.finished = @ \/ Ended(observed)]
    <3>2. adm' = [adm EXCEPT ![r] = row]
      BY <1>0, <1>9, <2>3 DEF Record, DbTypeOK, AdmissionRow
    <3>3. row.entered /\ ~row.finished /\ ~row.released
      BY <1>1, <1>2, <3>1 DEF AdmissionRow
    <3> HIDE DEF row
    <3>4. adm'[r] = row
      BY <1>0, <1>1, <3>2 DEF DbTypeOK
    <3>5. QED
      BY <1>2, <1>9, <3>3, <3>4
  <2>4. QED
    BY <2>1, <2>2, <2>3
<1>10. ASSUME NEW h \in Handlers, ClaimSubmission(h)
       PROVE  /\ r \notin retired'
              /\ adm'[r].entered /\ ~adm'[r].finished /\ ~adm'[r].released
  <2> DEFINE row == [adm[hs[h].run] EXCEPT !.state = "submitting"]
  <2>1. UNCHANGED retired /\ (adm' = adm \/ adm' = [adm EXCEPT ![hs[h].run] = row])
    BY <1>10 DEF ClaimSubmission
  <2>2. hs[h].run = r => row.entered /\ ~row.finished /\ ~row.released
    BY <1>1, <1>2 DEF AdmissionRow
  <2> HIDE DEF row
  <2>3. adm'[r] = adm[r] \/ (hs[h].run = r /\ adm'[r] = row)
    BY <1>0, <1>1, <2>1 DEF DbTypeOK
  <2>4. QED
    BY <1>2, <2>1, <2>2, <2>3
<1>11. ASSUME NEW q \in RunIds, ResolveDispatch(q)
       PROVE  r \notin retired' /\ adm'[r] = adm[r]
  <2>1. q # r
    BY <1>2, <1>11 DEF ResolveDispatch, CanResolve, NotAtWork
  <2>2. adm'[r] = adm[r] /\ UNCHANGED retired
    BY <1>0, <1>1, <1>11, <2>1, ResolveOthers
  <2>3. QED
    BY <1>2, <2>2
<1>12. ASSUME NEW j \in Instances, Enter(j)
       PROVE  /\ r \notin retired'
              /\ adm'[r].entered /\ ~adm'[r].finished /\ ~adm'[r].released
  BY <1>0, <1>1, <1>2, <1>12 DEF Enter, DbTypeOK, AdmissionRow
<1>13. ASSUME NEW j \in Instances, Finish(j)
       PROVE  \/ /\ r \notin retired'
                 /\ adm'[r].entered /\ ~adm'[r].finished /\ ~adm'[r].released
              \/ Finish(i)
  <2>1. CASE RunOf(j) = r
    <3>1. AtWork(j)
      BY <1>13 DEF Finish, AtWork, At, WorkPcs, Pcs
    <3>2. j = i
      BY <1>2, <2>1, <3>1 DEF QuietInv, Entered
    <3>3. QED
      BY <1>13, <3>2
  <2>2. CASE RunOf(j) # r
    <3>1. adm'[r] = adm[r] /\ UNCHANGED retired
      BY <1>0, <1>1, <1>13, <2>2 DEF Finish, DbTypeOK
    <3>2. QED
      BY <1>2, <3>1
  <2>3. QED
    BY <2>1, <2>2
<1>14. QED
  BY <1>0, <1>2, <1>5, <1>7, <1>8, <1>9, <1>10, <1>11, <1>12, <1>13 DEF FlagsMove

\* An instance begins with a create; only a legacy one attaches its own Run.
LEMMA InstancesBegin ==
  ASSUME TypeOK, MaxRestarts = 0, NEW i \in Instances, InstanceMove(i), inst'[i] # inst[i]
  PROVE  /\ inst'[i].pc \in {"attach", "claim"} => IsLegacy(i)
         /\ inst[i].status = "none" /\ inst[i].pc = "dead" =>
              /\ ~IsLegacy(i) /\ AcceptCreate(RunOf(i)) /\ inst'[i].status = "running"
<1>0. ServiceTypeOK
  BY TypeParts
<1>1. /\ \A pc : Go(i, pc) => inst'[i].pc = pc /\ inst'[i].status = inst[i].status
      /\ \A result : Packaged(i, result) =>
           inst'[i].pc = "route" /\ inst'[i].status = inst[i].status
      /\ \A end : Ends(i, end) => inst'[i].pc = "dead" /\ inst'[i].status = end
  BY <1>0, GoMoves
<1> USE DEF Running, At
<1>2. CASE \/ AttachLegacyRun(i) \/ AttachLegacyAdmits(i) \/ ClaimLegacy(i) \/ Enter(i)
           \/ Package(i) \/ Route(i) \/ Finish(i)
  <2>1. inst[i].status = "running"
    BY <1>2 DEF AttachLegacyRun, AttachLegacyAdmits, ClaimLegacy, Enter, Package, Route,
       Finish
  <2>2. CASE Package(i) \/ Route(i)
    BY <1>1, <2>1, <2>2 DEF Package, Route
  <2>3. CASE Enter(i) \/ Finish(i)
    BY <1>1, <2>1, <2>3 DEF Enter, Finish
  <2>4. CASE AttachLegacyRun(i) \/ AttachLegacyAdmits(i) \/ ClaimLegacy(i)
    BY <2>1, <2>4 DEF AttachLegacyRun, AttachLegacyAdmits, ClaimLegacy
  <2>5. QED
    BY <1>2, <2>2, <2>3, <2>4
<1>3. CASE MonitorDone(i) \/ ZeroFinish(i) \/ ReviewDone(i)
  BY <1>1, <1>3 DEF MonitorDone, ZeroFinish, ReviewDone
<1>4. CASE CompleteInstance(i) \/ BodyEnds(i)
  BY <1>1, <1>4 DEF CompleteInstance, BodyEnds, TerminalInstance
<1>5. CASE Throw(i)
  BY <1>1, <1>5 DEF Throw, Refused, FencedPcs
<1>6. CASE GiveUp(i)
  <2>1. inst[i].status = "running"
    BY <1>6 DEF GiveUp
  <2>2. CASE Ends(i, "errored")
    BY <1>1, <2>1, <2>2
  <2>3. CASE inst[i].pc \in BodyPcs /\ inst' = [inst EXCEPT ![i].status = "errored"]
    <3>1. inst'[i].pc = inst[i].pc
      BY <1>0, <2>3 DEF ServiceTypeOK
    <3>2. QED
      BY <2>1, <2>3, <3>1 DEF BodyPcs
  <2>4. QED
    BY <1>6, <2>2, <2>3 DEF GiveUp
<1>7. CASE Replay(i)
  <2>1. PICK pc \in {FirstPc(i), IF IsLegacy(i) THEN "claim" ELSE "enter"} :
          \E packaged : inst' = [inst EXCEPT ![i].pc = pc, ![i].packaged = packaged]
    BY <1>7 DEF Replay
  <2>2. inst'[i].pc = pc
    BY <1>0, <2>1 DEF ServiceTypeOK
  <2>3. QED
    BY <1>7, <2>1, <2>2 DEF FirstPc, Replay
<1>8. CASE Restart(i)
  <2>1. inst[i].restarts = 0
    BY <1>0 DEF ServiceTypeOK
  <2>2. QED
    BY <1>8, <2>1 DEF Restart
<1>9. CASE ~IsLegacy(i) /\ AcceptCreate(RunOf(i))
  <2>1. i = <<"daily", RunOf(i)>>
    BY <1>9 DEF Instances, RunOf, IsLegacy
  <2>2. inst'[i].pc = "enter" /\ inst'[i].status = "running"
    BY <1>0, <1>9, <2>1 DEF AcceptCreate, ServiceTypeOK
  <2>3. QED
    BY <1>9, <2>2
<1>10. QED
  BY <1>2, <1>3, <1>4, <1>5, <1>6, <1>7, <1>8, <1>9 DEF InstanceMove, WorkflowStep

LEMMA QuietInstances ==
  ASSUME TypeOK, AdmissionInv, PinnedInv, CreateInv, QuietInv, MaxRestarts = 0, [Next]_vars,
         NEW i \in Instances
  PROVE  /\ inst'[i].status = "none" => inst'[i].pc = "dead" /\ ~IsLegacy(i)
         /\ ~IsLegacy(i) /\ inst'[i].status # "none" => creates'[RunOf(i)] > 0
         /\ ~IsLegacy(i) => inst'[i].pc \notin {"attach", "claim"}
         /\ IsLegacy(i) /\ Running(i)' /\ At(i, "enter")' =>
              Admitted(RunOf(i))' /\ LegacyClaim(RunOf(i))'
         /\ AtWork(i)' => Entered(i)'
<1> DEFINE r == RunOf(i)
<1>0. DbTypeOK /\ RowStep /\ ServiceTypeOK /\ r \in RunIds /\ InstanceMove(i)
  BY TypeParts, RowSteps, RunOfType, InstancesMove
<1>1. RowStays(r)
  BY <1>0, RowsStay
<1>2. inst[i].status # "none" => inst'[i].status # "none"
  BY InstanceStaysReal
<1>3. creates[r] > 0 => creates'[r] > 0
  <2>1. \A h \in Handlers : SendCreate(h) => creates'[r] \in {creates[r], creates[r] + 1}
    BY <1>0 DEF SendCreate, ServiceTypeOK
  <2>2. QED
    BY <1>0, <2>1, CreatesMove DEF ServiceTypeOK
<1>4. CASE inst'[i] = inst[i]
  <2>1. Admitted(r) /\ LegacyClaim(r) => Admitted(r)' /\ LegacyClaim(r)'
    BY <1>1 DEF RowStays, LegacyClaim
  <2>2. Finish(i) => ~AtWork(i)'
    BY <1>0, GoMoves DEF Finish, AtWork, WorkPcs, Pcs
  <2>3. AtWork(i)' = AtWork(i)
    BY <1>4 DEF AtWork, Running
  <2>4. QED
    BY <1>3, <1>4, <2>1, <2>2, <2>3, EnteredStays DEF QuietInv, Running, At
<1>5. CASE inst'[i] # inst[i]
  <2>1. /\ inst'[i].status = "none" => inst'[i].pc = "dead" /\ ~IsLegacy(i)
        /\ ~IsLegacy(i) => inst'[i].pc \notin {"attach", "claim"}
    BY <1>0, <1>2, <1>5, InstancesBegin DEF QuietInv
  <2>2. ~IsLegacy(i) /\ inst'[i].status # "none" => creates'[r] > 0
    BY <1>0, <1>3, <1>5, InstancesBegin DEF QuietInv, AcceptCreate
  <2>3. IsLegacy(i) /\ Running(i)' /\ At(i, "enter")' => Admitted(r)' /\ LegacyClaim(r)'
    <3> SUFFICES ASSUME IsLegacy(i), Running(i)', At(i, "enter")' PROVE Admitted(r)' /\ LegacyClaim(r)'
      OBVIOUS
    <3>1. ClaimLegacy(i)
      BY <1>0, <1>5, InstanceMoveCases DEF Running, At, Terminal, TerminalInstance, WorkPcs
    <3>2. LegacyMayAttach(r) /\ AttachLegacy(r)
      BY <3>1 DEF ClaimLegacy
    <3>3. CASE Admitted(r)
      BY <1>1, <3>2, <3>3 DEF LegacyMayAttach, RowStays, LegacyClaim
    <3>4. CASE ~Admitted(r)
      BY <1>0, <3>2, <3>4 DEF AttachLegacy, DbTypeOK, NoAdmission, Admitted, LegacyClaim
    <3>5. QED
      BY <3>3, <3>4
  <2>4. AtWork(i)' => Entered(i)'
    <3> SUFFICES ASSUME AtWork(i)' PROVE Entered(i)'
      OBVIOUS
    <3>1. (AtWork(i) /\ ~Finish(i)) \/ Enter(i)
      BY <1>0, <1>5, InstanceMoveCases DEF AtWork, Running, Terminal, TerminalInstance, WorkPcs
    <3>2. CASE AtWork(i) /\ ~Finish(i)
      BY <3>2, EnteredStays
    <3>3. CASE Enter(i)
      <4>1. Owned(r) /\ Admitted(r) /\ Running(i) /\ At(i, "enter")
            /\ adm' = [adm EXCEPT ![r].entered = TRUE, ![r].finished = FALSE]
            /\ UNCHANGED retired
        BY <3>3 DEF Enter
      <4>2. r \notin retired /\ ~adm[r].released
        BY <4>1 DEF Owned
      <4>3. i = InstanceOf(r)
        <5>1. IsLegacy(i) => LegacyClaim(r)
          BY <4>1 DEF QuietInv
        <5>2. ~IsLegacy(i) => ~LegacyClaim(r)
          BY <1>0, <4>1 DEF QuietInv, Running, PinnedInv
        <5>3. (IsLegacy(i) /\ i = <<"legacy", r>>) \/ (~IsLegacy(i) /\ i = <<"daily", r>>)
          BY DEF IsLegacy, RunOf, Instances
        <5>4. QED
          BY <5>1, <5>2, <5>3 DEF InstanceOf
      <4>4. adm'[r].entered /\ ~adm'[r].finished /\ adm'[r].released = adm[r].released
        BY <1>0, <4>1 DEF DbTypeOK, AdmissionRow
      <4>5. Admitted(r)' /\ InstanceOf(r)' = InstanceOf(r)
        BY <1>1, <4>1, InstanceOfStays DEF RowStays
      <4>6. QED
        BY <4>1, <4>2, <4>3, <4>4, <4>5 DEF Entered
    <3>4. QED
      BY <3>1, <3>2, <3>3
  <2>5. QED
    BY <2>1, <2>2, <2>3, <2>4
<1>6. QED
  BY <1>4, <1>5

\* What ended stays ended.
LEMMA TerminalStays ==
  ASSUME TypeOK, MaxRestarts = 0, [Next]_vars, NEW i \in Instances, Terminal(i)
  PROVE  Terminal(i)'
<1>0. ServiceTypeOK /\ InstanceMove(i)
  BY TypeParts, InstancesMove
<1>1. /\ \A pc : Go(i, pc) => inst'[i].status = inst[i].status
      /\ \A result : Packaged(i, result) => inst'[i].status = inst[i].status
      /\ \A end : Ends(i, end) => inst'[i].status = end
  BY <1>0, GoMoves
<1> USE DEF Terminal, TerminalInstance, Running
<1>2. CASE \/ AttachLegacyRun(i) \/ AttachLegacyAdmits(i) \/ ClaimLegacy(i) \/ Enter(i)
           \/ Package(i) \/ Route(i) \/ Finish(i) \/ CompleteInstance(i) \/ GiveUp(i)
           \/ Replay(i)
  BY <1>2 DEF AttachLegacyRun, AttachLegacyAdmits, ClaimLegacy, Enter, Package,
     Route, Finish, CompleteInstance, GiveUp, Replay
<1>3. CASE \/ MonitorDone(i) \/ ZeroFinish(i) \/ ReviewDone(i) \/ BodyEnds(i) \/ Throw(i)
  BY <1>1, <1>3 DEF MonitorDone, ZeroFinish, ReviewDone, BodyEnds, Throw
<1>4. CASE Restart(i)
  <2>1. inst[i].restarts = 0
    BY <1>0 DEF ServiceTypeOK
  <2>2. QED
    BY <1>4, <2>1 DEF Restart
<1>5. CASE ~IsLegacy(i) /\ AcceptCreate(RunOf(i))
  <2>1. i = <<"daily", RunOf(i)>>
    BY <1>5 DEF Instances, RunOf, IsLegacy
  <2>2. QED
    BY <1>5, <2>1 DEF AcceptCreate
<1>6. QED
  BY <1>0, <1>2, <1>3, <1>4, <1>5 DEF InstanceMove, WorkflowStep

LEMMA QuietReceipts ==
  ASSUME TypeOK, AdmissionInv, StartedInv, QuietInv, MaxRestarts = 0, [Next]_vars,
         NEW h \in Handlers, NEW rec, rec = hs'[h], rec.pc = "record", Ended(rec.observed)
  PROVE  Terminal(InstanceOf(rec.run))'
<1>0. DbTypeOK /\ HandlersTypeOK /\ RowStep /\ HandlerMove(h)
  BY TypeParts, RowSteps, HandlersMove
<1>1. rec.run = hs[h].run /\ hs[h].pc \in {"inspect", "record"}
      /\ Terminal(InstanceOf(hs[h].run))
  <2>1. CASE rec = hs[h]
    BY <2>1 DEF QuietInv
  <2>2. CASE rec # hs[h]
    <3>1. Inspect(h) /\ rec.run = hs[h].run /\ rec.observed \in Observable(hs[h].run)
      BY <1>0, <2>2, MoveFields DEF MovedTo, Keeps
    <3>2. QED
      BY <3>1 DEF Inspect, Observable, Ended, Terminal, TerminalInstance
  <2>3. QED
    BY <2>1, <2>2
<1>2. PICK r \in RunIds : r = rec.run /\ Admitted(r) /\ Terminal(InstanceOf(r))
  BY <1>0, <1>1 DEF HandlersTypeOK, NamesItsRun, StartedInv, RecoverPcs
<1>3. InstanceOf(r) \in Instances /\ InstanceOf(r)' = InstanceOf(r)
  <2>1. RowStays(r)
    BY <1>0, RowsStay
  <2>2. InstanceOf(r) \in Instances
    BY <1>0, InstanceOfType
  <2>3. InstanceOf(r)' = InstanceOf(r)
    BY <1>2, <2>1, InstanceOfStays
  <2>4. QED
    BY <2>2, <2>3
<1>4. PICK i \in Instances : i = InstanceOf(r) /\ i = InstanceOf(r)'
  BY <1>3
<1>5. Terminal(i)'
  BY <1>2, <1>4, TerminalStays
<1>6. QED
  BY <1>2, <1>4, <1>5 DEF Terminal

LEMMA QuietStep ==
  ASSUME TypeOK, AdmissionInv, PinnedInv, CreateInv, StartedInv, QuietInv, MaxRestarts = 0,
         [Next]_vars
  PROVE  QuietInv'
<1>1. \A h \in Handlers :
        hs'[h].pc = "record" /\ Ended(hs'[h].observed) => Terminal(InstanceOf(hs[h].run))'
  <2> SUFFICES ASSUME NEW h \in Handlers, hs'[h].pc = "record", Ended(hs'[h].observed)
               PROVE  Terminal(InstanceOf(hs[h].run))'
    OBVIOUS
  <2>1. PICK rec : rec = hs'[h]
    OBVIOUS
  <2>2. Terminal(InstanceOf(rec.run))'
    BY <2>1, QuietReceipts
  <2>3. QED
    BY <2>1, <2>2 DEF Terminal, InstanceOf, LegacyClaim
<1>2. QED
  BY <1>1, QuietInstances DEF QuietInv, Ended

LEMMA QuietInvariant == MaxRestarts = 0 => (Spec => []QuietInv)
<1> SUFFICES ASSUME MaxRestarts = 0 PROVE Spec => []QuietInv
  OBVIOUS
<1>1. Init => QuietInv
  <2> SUFFICES ASSUME Init PROVE QuietInv
    OBVIOUS
  <2>1. \A i \in Instances :
          /\ inst[i].status = IF IsLegacy(i) THEN "running" ELSE "none"
          /\ inst[i].pc = IF IsLegacy(i) THEN "attach" ELSE "dead"
    BY DEF Init
  <2>2. \A h \in Handlers : hs[h].pc = "idle"
    BY DEF Init, IdleHandler
  <2>3. QED
    BY <2>1, <2>2 DEF QuietInv, AtWork, At, WorkPcs
<1>2. TypeOK /\ AdmissionInv /\ PinnedInv /\ CreateInv /\ StartedInv /\ QuietInv /\ [Next]_vars
        => QuietInv'
  BY QuietStep
<1>3. QED
  BY <1>1, <1>2, TypeCorrect, AdmissionInvariant, PinnedInvariant, CreateInvariant,
     StartedInvariant, PTL DEF Spec

\* While the operator restarts no instance, the claim of a Workflow that entered
\* and is at work is neither released, nor its Run retired: only a body its engine
\* already gave up on may still be executing.
THEOREM ReleasedIsQuiescentHolds ==
  ASSUME MaxRestarts = 0
  PROVE  Spec => []ReleasedIsQuiescent
<1>1. TypeOK /\ QuietInv => ReleasedIsQuiescent
  <2> SUFFICES ASSUME TypeOK, QuietInv, NEW i \in Instances, Fenced(RunOf(i)),
                      inst[i].pc \in WorkPcs
               PROVE  inst[i].status \in TerminalInstance
    BY DEF ReleasedIsQuiescent
  <2>1. inst[i].status \in InstanceStatus
    BY DEF TypeOK
  <2>2. ~AtWork(i)
    BY DEF QuietInv, Entered, Fenced
  <2>3. inst[i].status # "none"
    BY DEF QuietInv, WorkPcs
  <2>4. QED
    BY <2>1, <2>2, <2>3 DEF AtWork, Running, InstanceStatus
<1>2. QED
  BY <1>1, TypeCorrect, QuietInvariant, PTL
-----------------------------------------------------------------------------
(* The published Runs of a date form one chain.                            *)

\* A Run with work left superseded the newest of the list, and is the only one
\* of its date with work left: nothing is published until it is.
ChainInv ==
  /\ PublishedChain
  /\ \A r \in RunIds : status[r] \in LiveStatus =>
       /\ meta[r].prior \in PriorPublish(DateOf(r))
       /\ \A q \in SameDate(r) \ {r} : status[q] \notin LiveStatus

\* A Run appears running; what else moves its status had work left.
LEMMA StatusMoves ==
  ASSUME TypeOK, AdmissionInv, RowStep, NEW q \in RunIds
  PROVE  \/ status'[q] = status[q]
         \/ AdmittedNow(q)
         \/ /\ status[q] \in LiveStatus /\ status'[q] \notin {"absent", "running"}
            /\ status'[q] = "published" => status[q] = "awaiting"
<1>0. DbTypeOK /\ HandlersTypeOK
  BY TypeParts
<1>1. CASE AdmitStep
  <2>1. ASSUME NEW r \in RunIds, NEW request, NEW supersede, NEW prior, NEW origin,
               NEW at, NEW state, state # "absent", r # q,
               Admit(r, request, supersede, prior, origin, at, state)
        PROVE  status'[q] = status[q]
    BY <1>0, <2>1 DEF Admit, DbTypeOK
  <2>2. \A h \in Handlers : hs[h].pc = "admit" => hs[h].run \in RunIds
    BY <1>0 DEF HandlersTypeOK, NamesItsRun
  <2>3. QED
    BY <1>1, <2>1, <2>2, LegacyIds DEF AdmitStep, AdmittedNow
<1>2. ASSUME NEW r \in LegacyRuns, AdoptStep(r) PROVE status'[q] = status[q]
  BY <1>2 DEF AdoptStep
<1>3. ASSUME NEW r \in RunIds, FlagStep(r) \/ Reserve(r) \/ EndOperation(r) \/ DraftStep(r)
      PROVE  status'[q] = status[q]
  BY <1>3 DEF FlagStep, Reserve, EndOperation, DraftStep
<1>4. ASSUME NEW r \in RunIds, WorkStep(r)
      PROVE  \/ status'[q] = status[q]
             \/ /\ status[q] \in LiveStatus /\ status'[q] \notin {"absent", "running"}
                /\ status'[q] = "published" => status[q] = "awaiting"
  BY <1>0, <1>4 DEF WorkStep, DbTypeOK
<1>5. ASSUME NEW r \in RunIds, ResolveDispatch(r)
      PROVE  \/ status'[q] = status[q]
             \/ /\ status[q] \in LiveStatus /\ status'[q] \notin {"absent", "running"}
                /\ status'[q] = "published" => status[q] = "awaiting"
  BY <1>0, <1>5 DEF ResolveDispatch, DbTypeOK, LiveStatus
<1>6. UNCHANGED dbVars => status'[q] = status[q]
  BY DEF dbVars
<1>7. QED
  BY <1>1, <1>2, <1>3, <1>4, <1>5, <1>6 DEF RowStep

LEMMA AdmittedRow ==
  ASSUME DbTypeOK, AdmissionInv, NEW q \in RunIds, AdmittedNow(q)
  PROVE  /\ meta'[q].prior \in PriorPublish(DateOf(q))
         /\ \A p \in SameDate(q) \ {q} : status[p] \notin LiveStatus
<1>1. ASSUME NEW request, NEW supersede, NEW prior, NEW origin, NEW at, NEW state,
             state # "absent", Admit(q, request, supersede, prior, origin, at, state)
      PROVE  /\ meta'[q].prior \in PriorPublish(DateOf(q))
             /\ \A p \in SameDate(q) \ {q} : status[p] \notin LiveStatus
  <2>1. meta'[q] = [origin |-> origin, prior |-> prior, started |-> at]
    BY <1>1 DEF Admit, DbTypeOK
  <2>4. \A p \in SameDate(q) \ {q} : ~Live(p)
    BY <1>1, AdmitOthers
  <2>2. prior \in PriorPublish(DateOf(q))
    BY <1>1 DEF Admit, AdmitOk, IsPredecessor
  <2>3. QED
    BY <2>1, <2>2, <2>4 DEF Live
<1>2. QED
  BY <1>1 DEF AdmittedNow

\* What is published stays; what is published anew was awaiting its gate.
LEMMA PublishedMoves ==
  ASSUME TypeOK, AdmissionInv, RowStep, NEW d
  PROVE  /\ \A p \in Published(d) : p \in RunIds /\ p \in Published(d)' /\ meta'[p] = meta[p]
         /\ \A p \in Published(d)' \ Published(d) :
              p \in RunIds /\ DateOf(p) = d /\ status[p] = "awaiting" /\ meta'[p] = meta[p]
<1>0. DbTypeOK
  BY TypeParts
<1>1. ASSUME NEW p \in RunIds
      PROVE  /\ status[p] = "published" => status'[p] = "published" /\ meta'[p] = meta[p]
             /\ status'[p] = "published" /\ status[p] # "published" =>
                  status[p] = "awaiting" /\ meta'[p] = meta[p]
  <2>1. AdmittedNow(p) => status[p] = "absent" /\ status'[p] = "running"
    BY <1>0, AdmittedFresh DEF Exists
  <2>2. Exists(p) => meta'[p] = meta[p]
    BY RowsStay DEF RowStays
  <2>3. QED
    BY <2>1, <2>2, StatusMoves DEF Exists, LiveStatus
<1>2. QED
  BY <1>1 DEF Published, OnDate, Exists

LEMMA PriorStays ==
  ASSUME TypeOK, AdmissionInv, RowStep, NEW d,
         \A p \in RunIds : DateOf(p) = d /\ status[p] = "awaiting" => status'[p] # "published"
  PROVE  PriorPublish(d)' = PriorPublish(d)
<1>1. Published(d)' = Published(d)
  <2>1. \A p \in Published(d)' : status'[p] = "published"
    BY DEF Published
  <2>2. QED
    BY <2>1, PublishedMoves
<1>2. \A p, q \in Published(d) : Newer(p, q)' = Newer(p, q)
  BY PublishedMoves DEF Newer
<1>3. QED
  BY <1>1, <1>2 DEF PriorPublish

\* The list is ordered by what a Run started at and by its id: one of any two
\* Runs of a date is the newer.
LEMMA NewerOrders ==
  ASSUME DbTypeOK, NEW r \in RunIds, NEW q \in SameDate(r), NEW p \in SameDate(r)
  PROVE  /\ ~(Newer(r, q) /\ Newer(q, r))
         /\ Newer(r, q) /\ Newer(q, p) => Newer(r, p)
<1>1. \A x \in {r, q, p} : meta[x].started \in Nat /\ x[2] \in Int
  <2>1. \A x \in {r, q, p} : x \in RunIds
    BY DEF SameDate
  <2>2. \A x \in {r, q, p} : x[2] \in 0 .. SuffixSpace - 1
    BY <2>1, RunIdParts
  <2>3. QED
    BY <2>1, <2>2, SuffixSpaceAssumption DEF DbTypeOK
<1>2. QED
  BY <1>1 DEF Newer

\* One more Run is published, having superseded the newest of the list: it
\* supersedes what no other does, unless its reading is the older one.
LEMMA ChainGrows ==
  ASSUME DbTypeOK, DbTypeOK', NEW d \in Dates, NEW r \in RunIds,
         Published(d)' = Published(d) \cup {r}, r \notin Published(d), DateOf(r) = d,
         \A p \in Published(d)' : meta'[p] = meta[p],
         meta[r].prior \in PriorPublish(d), ChainOn(d)
  PROVE  ChainOn(d)'
<1> DEFINE P == Published(d)
           Q == Published(d)'
<1>0. /\ Q = P \cup {r} /\ r \notin P /\ \A p \in P : p \in RunIds
      /\ \A p, q \in Q : Newer(p, q)' <=> Newer(p, q)
  BY DEF Published, OnDate, Newer
<1>1. /\ P = {} => meta[r].prior = None
      /\ P # {} => /\ meta[r].prior \in P
                   /\ \A p \in P \ {meta[r].prior} : Newer(meta[r].prior, p)
  BY DEF PriorPublish
<1>2. None \notin RunIds
  BY NoneAssumption
<1>3. \A p \in P : meta[p].prior \in NoneOr(P \ {p})
  BY DEF ChainOn
<1>4. \A p \in Q : meta'[p].prior = meta[p].prior
  OBVIOUS
<1>5. \A p, q, x \in Q : ~(Newer(p, q) /\ Newer(q, p))
                         /\ (Newer(p, q) /\ Newer(q, x) => Newer(p, x))
  <2>1. \A p \in Q : p \in RunIds /\ DateOf(p) = d
    BY <1>0 DEF Published, OnDate
  <2>2. \A p \in Q : \A q \in Q : p \in RunIds /\ q \in SameDate(p)
    BY <2>1 DEF SameDate
  <2>3. QED
    BY <2>2, NewerOrders
<1>6. \A p \in Q : StartedInOrder(p)' <=> StartedInOrder(p)
  <2> SUFFICES ASSUME NEW p \in Q PROVE StartedInOrder(p)' <=> StartedInOrder(p)
    OBVIOUS
  <2>1. meta[p].prior \in NoneOr(Q)
    BY <1>0, <1>1, <1>3 DEF NoneOr
  <2>2. QED
    BY <1>0, <1>4, <2>1 DEF StartedInOrder, NoneOr
<1>7. \A p \in Q : meta'[p].prior \in NoneOr(Q \ {p})
  BY <1>0, <1>1, <1>3, <1>4 DEF NoneOr
<1>8. ASSUME NEW p \in P, meta[p].prior = meta[r].prior
      PROVE  meta[p].prior # None /\ ~StartedInOrder(p)
  <2>1. P # {} /\ meta[r].prior \in P /\ p # meta[r].prior
    BY <1>0, <1>1, <1>2, <1>3, <1>8 DEF NoneOr
  <2>2. Newer(meta[r].prior, p) /\ meta[r].prior # None
    BY <1>0, <1>1, <1>2, <2>1
  <2>3. QED
    BY <1>5, <1>8, <2>1, <2>2 DEF StartedInOrder
<1>9. ASSUME NEW p \in Q, NEW q \in Q, p # q, meta[p].prior = meta[q].prior
      PROVE  meta[p].prior # None /\ ~(StartedInOrder(p) /\ StartedInOrder(q))
  <2>1. CASE p \in P /\ q \in P
    BY <1>9, <2>1 DEF ChainOn
  <2>2. CASE p = r \/ q = r
    BY <1>0, <1>8, <1>9, <2>2
  <2>3. QED
    BY <1>0, <2>1, <2>2
<1>10. ASSUME \A p \in Q : StartedInOrder(p), NEW p \in Q, NEW q \in Q,
              NextInList(p, q, d)'
       PROVE  meta[p].prior = q
  <2>1. Newer(p, q) /\ ~\E x \in Q : Newer(p, x) /\ Newer(x, q)
    BY <1>0, <1>10 DEF NextInList
  <2>2. \A x \in P : Newer(r, x) /\ ~Newer(x, r)
    <3> SUFFICES ASSUME NEW x \in P PROVE Newer(r, x) /\ ~Newer(x, r)
      OBVIOUS
    <3>1. meta[r].prior \in P /\ meta[r].prior # None
      BY <1>0, <1>1, <1>2
    <3>2. Newer(r, meta[r].prior)
      BY <1>0, <1>10, <3>1 DEF StartedInOrder
    <3>3. x = meta[r].prior \/ Newer(meta[r].prior, x)
      BY <1>1
    <3>4. r \in Q /\ x \in Q /\ meta[r].prior \in Q
      BY <1>0, <3>1
    <3>5. QED
      BY <1>5, <3>2, <3>3, <3>4
  <2>3. ~Newer(r, r)
    BY <1>0, <1>5
  <2>4. CASE p \in P /\ q \in P
    <3>1. NextInList(p, q, d)
      BY <1>0, <2>1 DEF NextInList
    <3>2. QED
      BY <1>0, <1>10, <2>4, <3>1 DEF ChainOn, Supersedes
  <2>5. CASE p = r
    <3>1. q \in P
      BY <1>0, <2>1, <2>3, <2>5
    <3>2. QED
      BY <1>0, <1>1, <2>1, <2>2, <2>5, <3>1
  <2>6. CASE q = r
    BY <1>0, <2>1, <2>2, <2>3, <2>6
  <2>7. QED
    BY <1>0, <2>4, <2>5, <2>6
<1>11. QED
  BY <1>4, <1>6, <1>7, <1>9, <1>10 DEF ChainOn, Supersedes

LEMMA ChainStep ==
  ASSUME TypeOK, TypeOK', AdmissionInv, ChainInv, RowStep
  PROVE  ChainInv'
<1>0. DbTypeOK /\ DbTypeOK'
  BY TypeParts, TypePartsNext
<1>1. \A q \in RunIds : Exists(q) => Exists(q)' /\ meta'[q] = meta[q]
  BY RowsStay DEF RowStays
<1>2. ASSUME NEW r \in RunIds, status'[r] \in LiveStatus
      PROVE  /\ meta'[r].prior \in PriorPublish(DateOf(r))'
             /\ \A q \in SameDate(r) \ {r} : status'[q] \notin LiveStatus
  <2> DEFINE d == DateOf(r)
  <2>1. AdmittedNow(r) \/ status[r] \in LiveStatus
    BY <1>2, StatusMoves
  <2>2. \A q \in SameDate(r) \ {r} : status[q] \notin LiveStatus
    BY <1>0, <2>1, AdmittedRow DEF ChainInv
  <2>3. PriorPublish(d)' = PriorPublish(d)
    <3>1. \A p \in RunIds : DateOf(p) = d /\ status[p] = "awaiting" => status'[p] # "published"
      BY <1>2, <2>2 DEF SameDate, LiveStatus
    <3> HIDE DEF d
    <3>2. QED
      BY <3>1, PriorStays
  <2>4. meta'[r].prior \in PriorPublish(d)
    <3>1. CASE AdmittedNow(r)
      BY <1>0, <3>1, AdmittedRow
    <3>2. CASE status[r] \in LiveStatus
      BY <1>1, <3>2 DEF ChainInv, Exists, LiveStatus
    <3>3. QED
      BY <2>1, <3>1, <3>2
  <2>5. ASSUME NEW q \in SameDate(r) \ {r} PROVE status'[q] \notin LiveStatus
    <3>1. q \in RunIds /\ r \in SameDate(q) \ {q}
      BY DEF SameDate
    <3>2. ~AdmittedNow(q)
      <4>1. SUFFICES ASSUME AdmittedNow(q) PROVE FALSE
        OBVIOUS
      <4>2. status[r] \notin LiveStatus /\ ~AdmittedNow(r)
        BY <1>0, <3>1, <4>1, AdmittedRow, AdmittedFresh
      <4>3. QED
        BY <2>1, <4>2
    <3>3. QED
      BY <2>2, <3>1, <3>2, StatusMoves
  <2>6. QED
    BY <2>3, <2>4, <2>5
<1>3. ASSUME NEW d \in Dates PROVE ChainOn(d)'
  <2>1. ChainOn(d)
    BY DEF ChainInv, PublishedChain
  <2>2. /\ \A p \in Published(d) : p \in Published(d)'
        /\ \A p \in Published(d)' : meta'[p] = meta[p]
        /\ \A p \in Published(d)' \ Published(d) :
             p \in RunIds /\ DateOf(p) = d /\ status[p] = "awaiting"
    BY PublishedMoves
  <2>3. CASE Published(d)' = Published(d)
    <3>1. \A p, q \in RunIds : p \in Published(d) /\ q \in Published(d) =>
            (Newer(p, q)' <=> Newer(p, q))
      BY <2>2, <2>3 DEF Newer
    <3>2. \A p \in Published(d) : p \in RunIds /\ meta[p].prior \in NoneOr(Published(d) \ {p})
      BY <2>1 DEF ChainOn, Published, OnDate
    <3>3. \A p \in Published(d) : StartedInOrder(p)' <=> StartedInOrder(p)
      BY <2>2, <2>3, <3>1, <3>2 DEF StartedInOrder, NoneOr
    <3>4. \A p, q \in Published(d) : NextInList(p, q, d)' <=> NextInList(p, q, d)
      BY <2>3, <3>1, <3>2 DEF NextInList
    <3>5. QED
      BY <2>1, <2>2, <2>3, <3>3, <3>4 DEF ChainOn, Supersedes
  <2>4. CASE Published(d)' # Published(d)
    <3>1. PICK r \in Published(d)' \ Published(d) : TRUE
      BY <2>2, <2>4
    <3>2. r \in RunIds /\ DateOf(r) = d /\ status[r] \in LiveStatus
      BY <2>2, <3>1 DEF LiveStatus
    <3>3. ASSUME NEW p \in Published(d)' \ Published(d) PROVE p = r
      <4>1. p \in RunIds /\ DateOf(p) = d /\ status[p] \in LiveStatus
        BY <2>2, <3>3 DEF LiveStatus
      <4>2. QED
        BY <3>2, <4>1 DEF ChainInv, SameDate
    <3>4. Published(d)' = Published(d) \cup {r}
      BY <2>2, <3>1, <3>3
    <3>5. meta[r].prior \in PriorPublish(d)
      BY <3>2 DEF ChainInv
    <3>6. QED
      BY <1>0, <2>1, <2>2, <3>1, <3>2, <3>4, <3>5, ChainGrows
  <2>5. QED
    BY <2>3, <2>4
<1>4. QED
  BY <1>2, <1>3 DEF ChainInv, PublishedChain

LEMMA InitHasChain == Init => ChainInv
<1> SUFFICES ASSUME Init PROVE ChainInv
  OBVIOUS
<1>1. \A q \in RunIds : Exists(q) => q \in LegacyRuns
  BY DEF Init, Exists
<1>2. \A q \in RunIds : meta[q].prior = None
  BY DEF Init
<1>3. \A r \in RunIds : \A q \in SameDate(r) : Exists(r) /\ Exists(q) => r = q
  BY <1>1, RunIdParts DEF SameDate
<1>4. ASSUME NEW d \in Dates PROVE ChainOn(d)
  <2>1. \A r, q \in Published(d) : r = q /\ r \in RunIds
    BY <1>3 DEF Published, OnDate, SameDate
  <2>2. \A r \in Published(d) : meta[r].prior = None
    BY <1>2, <2>1
  <2>3. \A r \in Published(d) : ~Newer(r, r)
    <3> SUFFICES ASSUME NEW r \in Published(d) PROVE ~Newer(r, r)
      OBVIOUS
    <3>1. DbTypeOK /\ r \in RunIds /\ r \in SameDate(r)
      BY <2>1, InitType, TypeParts DEF SameDate
    <3>2. QED
      BY <3>1, NewerOrders
  <2>4. QED
    BY <2>1, <2>2, <2>3 DEF ChainOn, NextInList, NoneOr
<1>5. ASSUME NEW r \in RunIds, status[r] \in LiveStatus
      PROVE  /\ meta[r].prior \in PriorPublish(DateOf(r))
             /\ \A q \in SameDate(r) \ {r} : status[q] \notin LiveStatus
  <2>1. Exists(r)
    BY <1>5 DEF Exists, LiveStatus
  <2>2. Published(DateOf(r)) = {}
    <3>1. \A p \in OnDate(DateOf(r)) : p = r
      BY <1>3, <2>1 DEF OnDate, SameDate
    <3>2. QED
      BY <1>5, <3>1 DEF Published, LiveStatus
  <2>3. meta[r].prior \in PriorPublish(DateOf(r))
    BY <1>2, <2>2 DEF PriorPublish
  <2>4. \A q \in SameDate(r) \ {r} : status[q] \notin LiveStatus
    BY <1>3, <2>1 DEF Exists, LiveStatus
  <2>5. QED
    BY <2>3, <2>4
<1>6. QED
  BY <1>4, <1>5 DEF ChainInv, PublishedChain

\* However operators supersede, whatever readings of the clock requests bring
\* and whatever the cron published before admission existed: a published Run
\* superseded a published Run of its date, and only the first one none; two
\* supersede the same Run only where a reading was older than that of the Run
\* superseded, and without such readings supersession is the order of the list.
THEOREM PublishedChainHolds == Spec => []PublishedChain
<1>1. TypeOK /\ TypeOK' /\ AdmissionInv /\ ChainInv /\ [Next]_vars => ChainInv'
  BY RowSteps, ChainStep
<1>2. ChainInv => PublishedChain
  BY DEF ChainInv
<1>3. QED
  BY <1>1, <1>2, InitHasChain, TypeCorrect, AdmissionInvariant, PTL DEF Spec
-----------------------------------------------------------------------------
(* The promises of DateLock hold for every set of Runs and of days.        *)

\* The three invariants support each other: together they are inductive.
LockInv == LockTypeOK /\ SealedIsQuiet /\ HolderWorksAlone

LEMMA LockInitOK == LockConstants /\ LockInit => LockInv
BY DEF LockConstants, LockInit, LockInv, LockTypeOK, SealedIsQuiet, HolderWorksAlone

LEMMA LockStepOK == LockConstants /\ LockInv /\ [LockNext]_lockVars => LockInv'
<1> SUFFICES ASSUME LockConstants, LockInv, [LockNext]_lockVars
             PROVE  LockInv'
  OBVIOUS
<1> USE DEF LockConstants, LockInv, LockTypeOK, SealedIsQuiet, HolderWorksAlone, On
<1>1. ASSUME NEW r \in Runs, Grant(r) PROVE LockInv'
  BY <1>1 DEF Grant
<1>2. ASSUME NEW r \in Runs, Adopt(r) PROVE LockInv'
  BY <1>2 DEF Adopt
<1>3. ASSUME NEW r \in Runs, Quiesce(r) PROVE LockInv'
  BY <1>3 DEF Quiesce
<1>4. ASSUME NEW r \in Runs, Release(r) PROVE LockInv'
  BY <1>4 DEF Release
<1>5. CASE UNCHANGED lockVars
  BY <1>5 DEF lockVars
<1>6. QED
  BY <1>1, <1>2, <1>3, <1>4, <1>5 DEF LockNext

\* Whatever Runs and dates there are, the holder of a date is the only Run of
\* the date with work left, and no sealed Run has any.
THEOREM LockSafe ==
  ASSUME LockConstants
  PROVE  LockSpec => [](HolderWorksAlone /\ SealedIsQuiet)
<1>1. LockInv => HolderWorksAlone /\ SealedIsQuiet
  BY DEF LockInv
<1>2. QED
  BY <1>1, LockInitOK, LockStepOK, PTL DEF LockSpec
-----------------------------------------------------------------------------
(* RunAdmission implements DateLock.                                       *)

HolderOf(d) == {r \in RunIds : DateOf(r) = d /\ OwnsDate(r)}

LEMMA HolderFacts ==
  ASSUME OneOwnerPerDate, NEW d \in Dates
  PROVE  /\ \A r \in RunIds : DateOf(r) = d /\ OwnsDate(r) => Holder[d] = r
         /\ HolderOf(d) = {} => Holder[d] = None
         /\ Holder[d] \in RunIds \cup {None}
<1>1. Holder[d] = IF HolderOf(d) = {} THEN None ELSE CHOOSE r \in HolderOf(d) : TRUE
  BY DEF Holder, HolderOf
<1>2. \A r, q \in HolderOf(d) : r = q
  BY DEF HolderOf, OneOwnerPerDate, SameDate
<1>3. HolderOf(d) \subseteq RunIds
  BY DEF HolderOf
<1>4. HolderOf(d) # {} => Holder[d] \in HolderOf(d)
  BY <1>1
<1>5. \A r \in RunIds : DateOf(r) = d /\ OwnsDate(r) <=> r \in HolderOf(d)
  BY DEF HolderOf
<1>6. QED
  BY <1>1, <1>2, <1>3, <1>4, <1>5

Known  == {r \in RunIds : Exists(r)}
Alive  == {r \in RunIds : Live(r)}
Sealed == {r \in RunIds : Fenced(r)}

\* The holders of a step that moves the claims of one Run only.
LEMMA HolderMoves ==
  ASSUME OneOwnerPerDate, OneOwnerPerDate', NEW r \in RunIds,
         \A q \in RunIds \ {r} : OwnsDate(q)' = OwnsDate(q) \/ DateOf(q) = DateOf(r)
  PROVE  /\ Holder \in [Dates -> RunIds \cup {None}]
         /\ OwnsDate(r)' => Holder' = [Holder EXCEPT ![DateOf(r)] = r]
         /\ (\A q \in SameDate(r) : ~OwnsDate(q)') =>
              Holder' = [Holder EXCEPT ![DateOf(r)] = None]
         /\ (\A q \in SameDate(r) : OwnsDate(q)' = OwnsDate(q)) => Holder' = Holder
         /\ OwnsDate(r) => Holder[DateOf(r)] = r
         /\ (\A q \in SameDate(r) : ~OwnsDate(q)) => Holder[DateOf(r)] = None
<1> DEFINE e == DateOf(r)
<1>1. \A d \in Dates :
        /\ \A q \in RunIds : DateOf(q) = d /\ OwnsDate(q) => Holder[d] = q
        /\ (\A q \in RunIds : DateOf(q) = d => ~OwnsDate(q)) => Holder[d] = None
        /\ Holder[d] \in RunIds \cup {None}
  BY HolderFacts DEF HolderOf
<1>2. \A d \in Dates :
        /\ \A q \in RunIds : DateOf(q) = d /\ OwnsDate(q)' => Holder'[d] = q
        /\ (\A q \in RunIds : DateOf(q) = d => ~OwnsDate(q)') => Holder'[d] = None
        /\ Holder'[d] \in RunIds \cup {None}
  <2> SUFFICES ASSUME NEW d \in Dates
               PROVE  /\ \A q \in RunIds : DateOf(q) = d /\ OwnsDate(q)' => Holder'[d] = q
                      /\ (\A q \in RunIds : DateOf(q) = d => ~OwnsDate(q)') => Holder'[d] = None
                      /\ Holder'[d] \in RunIds \cup {None}
    OBVIOUS
  <2>1. Holder'[d] = IF HolderOf(d)' = {} THEN None ELSE CHOOSE q \in HolderOf(d)' : TRUE
    BY DEF Holder, HolderOf
  <2>2. \A q \in RunIds : DateOf(q) = d /\ OwnsDate(q)' <=> q \in HolderOf(d)'
    BY DEF HolderOf
  <2>3. HolderOf(d)' \subseteq RunIds /\ \A p, q \in HolderOf(d)' : p = q
    BY DEF HolderOf, OneOwnerPerDate, SameDate
  <2>4. HolderOf(d)' # {} => Holder'[d] \in HolderOf(d)'
    BY <2>1
  <2>5. QED
    BY <2>1, <2>2, <2>3, <2>4
<1>3. e \in Dates /\ \A q \in RunIds : q \in SameDate(r) <=> DateOf(q) = e
  BY RunIdParts DEF SameDate
<1>4. \A d \in Dates \ {e} : Holder'[d] = Holder[d]
  <2> SUFFICES ASSUME NEW d \in Dates \ {e} PROVE Holder'[d] = Holder[d]
    OBVIOUS
  <2>1. \A q \in RunIds : DateOf(q) = d => OwnsDate(q)' = OwnsDate(q)
    OBVIOUS
  <2>2. CASE \E q \in RunIds : DateOf(q) = d /\ OwnsDate(q)
    BY <1>1, <1>2, <2>1, <2>2
  <2>3. CASE \A q \in RunIds : DateOf(q) = d => ~OwnsDate(q)
    BY <1>1, <1>2, <2>1, <2>3
  <2>4. QED
    BY <2>2, <2>3
<1>5. Holder = [d \in Dates |-> Holder[d]] /\ Holder' = [d \in Dates |-> Holder'[d]]
  BY DEF Holder
<1>6. (\A q \in SameDate(r) : OwnsDate(q)' = OwnsDate(q)) => Holder'[e] = Holder[e]
  <2> SUFFICES ASSUME \A q \in SameDate(r) : OwnsDate(q)' = OwnsDate(q) PROVE Holder'[e] = Holder[e]
    OBVIOUS
  <2>2. CASE \E q \in RunIds : DateOf(q) = e /\ OwnsDate(q)
    BY <1>1, <1>2, <1>3, <2>2
  <2>3. CASE \A q \in RunIds : DateOf(q) = e => ~OwnsDate(q)
    BY <1>1, <1>2, <1>3, <2>3
  <2>4. QED
    BY <2>2, <2>3
<1> HIDE DEF e
<1>7. OwnsDate(r)' => Holder'[e] = r
  BY <1>2, <1>3 DEF e
<1>8. (\A q \in SameDate(r) : ~OwnsDate(q)') => Holder'[e] = None
  BY <1>2, <1>3
<1>9. OwnsDate(r) => Holder[e] = r
  BY <1>1, <1>3 DEF e
<1>10. (\A q \in SameDate(r) : ~OwnsDate(q)) => Holder[e] = None
  BY <1>1, <1>3
<1>11. \A v : Holder'[e] = v => Holder' = [Holder EXCEPT ![e] = v]
  BY <1>4, <1>5
<1>12. Holder'[e] = Holder[e] => Holder' = Holder
  BY <1>4, <1>5
<1>13. Holder \in [Dates -> RunIds \cup {None}]
  BY <1>1, <1>5
<1>14. QED
  BY <1>6, <1>7, <1>8, <1>9, <1>10, <1>11, <1>12, <1>13 DEF e

\* What the maps say of a step that leaves rows, work or fences of all Runs alone.
LEMMA MapsRest ==
  /\ (\A q \in RunIds : Exists(q)' = Exists(q)) => Known' = Known
  /\ (\A q \in RunIds : Live(q)' = Live(q)) => Alive' = Alive
  /\ (\A q \in RunIds : Fenced(q)' = Fenced(q)) => Sealed' = Sealed
BY DEF Known, Alive, Sealed

LEMMA LockVarsMap ==
  /\ Lock!lockVars = <<Holder, Known, Alive, Sealed>>
  /\ (UNCHANGED Lock!lockVars) <=> (UNCHANGED <<Holder, Known, Alive, Sealed>>)
BY DEF Lock!lockVars, Known, Alive, Sealed

LEMMA GrantMap ==
  ASSUME TypeOK, AdmissionInv, AdmissionInv', NEW r \in RunIds, NEW request, NEW supersede,
         NEW prior, NEW origin, NEW at, NEW state, state # "absent",
         Admit(r, request, supersede, prior, origin, at, state)
  PROVE  Lock!Grant(r)
<1> DEFINE d == DateOf(r)
<1>0. DbTypeOK /\ d \in Dates /\ \A q \in RunIds : q \in SameDate(r) <=> DateOf(q) = d
  BY TypeParts, RunIdParts DEF SameDate
<1>1. ~Exists(r) /\ ~Fenced(r) /\ Exists(r)' /\ status'[r] = "running"
      /\ Admitted(r)' /\ ~adm'[r].released
  BY <1>0, AdmitOthers
<1>2. /\ \A q \in RunIds \ {r} :
           /\ status'[q] = status[q] /\ adm'[q].state = adm[q].state
           /\ adm[q].released => adm'[q].released
      /\ op' = op
  <2>1. op' = op
    BY DEF Admit
  <2>2. QED
    BY <1>0, <2>1, AdmitOthers
<1>3. \A q \in RunIds \ {r} :
        /\ Exists(q)' = Exists(q) /\ Live(q)' = Live(q) /\ Admitted(q)' = Admitted(q)
  BY <1>2 DEF Exists, Live, Settled, Admitted
<1>4. \A q \in SameDate(r) \ {r} : ~Live(q)
  BY <1>0, AdmitOthers
<1>5. ~Live(r) /\ Live(r)'
  BY <1>0, <1>1, AdmitOthers DEF Live, LiveStatus, Exists
<1>6. OwnsDate(r)'
  BY <1>1 DEF OwnsDate
<1>7. \A q \in RunIds \ {r} : DateOf(q) # d => adm'[q] = adm[q]
  BY <1>0 DEF Admit, DbTypeOK
<1>8. \A q \in RunIds \ {r} : OwnsDate(q)' = OwnsDate(q) \/ DateOf(q) = d
  BY <1>7 DEF OwnsDate, Admitted
<1>9. Holder' = [Holder EXCEPT ![d] = r]
  BY <1>6, <1>8, HolderMoves DEF AdmissionInv
<1>10. Known' = Known \cup {r} /\ r \notin Known
  BY <1>1, <1>3 DEF Known
<1>11. Alive' = Alive \cup {r} /\ {q \in Alive : DateOf(q) = d} = {}
  BY <1>0, <1>3, <1>4, <1>5 DEF Alive
<1>12. \A q \in RunIds : Fenced(q)' <=> Fenced(q) \/ (q \in Known /\ DateOf(q) = d)
  <2> SUFFICES ASSUME NEW q \in RunIds
               PROVE  Fenced(q)' <=> Fenced(q) \/ (q \in Known /\ DateOf(q) = d)
    OBVIOUS
  <2>1. CASE q = r
    <3>1. r \notin retired'
      BY <1>1 DEF Admit, Retires, OnDate, Fenced
    <3>2. QED
      BY <1>1, <1>10, <2>1, <3>1 DEF Fenced
  <2>2. CASE q # r /\ DateOf(q) # d
    <3>1. q \in retired' <=> q \in retired
      BY <2>2 DEF Admit, Retires, OnDate
    <3>2. adm'[q] = adm[q]
      BY <1>7, <2>2
    <3>3. QED
      BY <2>2, <3>1, <3>2 DEF Fenced, Admitted
  <2>3. CASE q # r /\ DateOf(q) = d /\ Exists(q)
    <3>1. CASE ~Admitted(q)
      BY <2>3, <3>1 DEF Admit, Retires, OnDate, Fenced, Known
    <3>2. CASE Admitted(q) /\ adm[q].released
      BY <1>2, <1>3, <2>3, <3>2 DEF Fenced, Known
    <3>3. CASE OwnsDate(q)
      <4>1. Releasable(q)
        BY <2>3, <3>3 DEF Admit, AdmitOk, ClaimsReleased, OnDate
      <4>2. adm'[q] = [adm[q] EXCEPT !.released = TRUE]
        BY <1>0, <2>3, <4>1 DEF Admit
      <4>3. adm'[q].released
        BY <1>0, <4>2 DEF DbTypeOK, AdmissionRow
      <4>4. QED
        BY <1>3, <2>3, <3>3, <4>3 DEF Fenced, Known, OwnsDate
    <3>4. QED
      BY <3>1, <3>2, <3>3 DEF OwnsDate
  <2>4. CASE q # r /\ DateOf(q) = d /\ ~Exists(q)
    <3>1. ~Admitted(q) /\ q \notin retired
      BY <2>4 DEF AdmissionInv, RowsExist
    <3>2. ~Admitted(q)' /\ q \notin retired'
      BY <1>3, <2>4, <3>1 DEF Admit, Retires, OnDate
    <3>3. QED
      BY <2>4, <3>1, <3>2 DEF Fenced, Known
  <2>5. QED
    BY <2>1, <2>2, <2>3, <2>4
<1>13. Sealed' = Sealed \cup {q \in Known : DateOf(q) = d}
  BY <1>12 DEF Sealed, Known
<1>14. QED
  BY <1>9, <1>10, <1>11, <1>13 DEF Lock!Grant, Lock!On, Known, Alive, Sealed

LEMMA AdoptMap ==
  ASSUME TypeOK, AdmissionInv, AdmissionInv', NEW r \in LegacyRuns, AdoptStep(r)
  PROVE  Lock!Adopt(r)
<1> DEFINE d == DateOf(r)
<1>0. DbTypeOK /\ r \in RunIds /\ \A q \in RunIds : q \in SameDate(r) <=> DateOf(q) = d
  BY TypeParts, LegacyIds DEF SameDate
<1>1. /\ Exists(r) /\ ~Fenced(r) /\ Admitted(r)' /\ ~adm'[r].released
      /\ \A q \in RunIds \ {r} : adm'[q] = adm[q]
      /\ UNCHANGED <<status, retired, op>>
  BY <1>0, AdoptOthers
<1>2. OwnsDate(r)' /\ ~OwnsDate(r) /\ ~Fenced(r)'
  BY <1>1 DEF OwnsDate, AdoptStep, Fenced
<1>3. \A q \in RunIds \ {r} : OwnsDate(q)' = OwnsDate(q) /\ Fenced(q)' = Fenced(q)
  BY <1>1 DEF OwnsDate, Fenced, Admitted
<1>4. \A q \in RunIds : Exists(q)' = Exists(q) /\ Live(q)' = Live(q)
  BY <1>1 DEF Exists, Live, Settled
<1>5. \A q \in SameDate(r) : ~OwnsDate(q)
  BY <1>2 DEF AdoptStep, AttachLegacy, AttachLegacyOk, Owned
<1>6. \A q \in SameDate(r) \ {r} : ~Live(q)
  BY DEF AdoptStep, AttachLegacy, AttachLegacyOk, WorksAlone, AdmissionInv, RowsExist, Live,
     LiveStatus, Exists, SameDate
<1>7. Holder' = [Holder EXCEPT ![d] = r] /\ Holder[d] = None
  BY <1>0, <1>2, <1>3, <1>5, HolderMoves DEF AdmissionInv
<1>8. Known' = Known /\ Alive' = Alive /\ Sealed' = Sealed
  <2>1. \A q \in RunIds : Fenced(q)' <=> Fenced(q)
    BY <1>1, <1>2, <1>3
  <2>2. QED
    BY <1>4, <2>1 DEF Known, Alive, Sealed
<1>9. r \in Known \ Sealed /\ {q \in Alive : DateOf(q) = d} \subseteq {r}
  BY <1>0, <1>1, <1>6 DEF Known, Sealed, Alive
<1>10. QED
  BY <1>7, <1>8, <1>9 DEF Lock!Adopt, Lock!On, Known, Alive, Sealed

LEMMA ReleaseMap ==
  ASSUME TypeOK, AdmissionInv, AdmissionInv', NEW r \in RunIds, ResolveDispatch(r)
  PROVE  Lock!Release(r)
<1> DEFINE d == DateOf(r)
<1>0. DbTypeOK /\ \A q \in RunIds : q \in SameDate(r) <=> DateOf(q) = d
  BY TypeParts DEF SameDate
<1>1. /\ OwnsDate(r) /\ Settled(r) /\ status[r] # "awaiting"
      /\ adm'[r].released /\ adm'[r].state = "resolved"
      /\ status'[r] = IF status[r] = "running" THEN "closed" ELSE status[r]
      /\ \A q \in RunIds \ {r} : adm'[q] = adm[q] /\ status'[q] = status[q]
      /\ UNCHANGED <<retired, op>>
  BY <1>0, ResolveOthers
<1>2. ~OwnsDate(r)' /\ Fenced(r)'
  BY <1>1 DEF OwnsDate, Fenced, Admitted
<1>3. \A q \in RunIds \ {r} : OwnsDate(q)' = OwnsDate(q)
  BY <1>1 DEF OwnsDate, Admitted
<1>4. \A q \in RunIds \ {r} :
        Fenced(q)' = Fenced(q) /\ Live(q)' = Live(q) /\ Exists(q)' = Exists(q)
  BY <1>1 DEF Fenced, Admitted, Live, Settled, Exists
<1>5. ~Live(r)'
  BY <1>1 DEF Live, LiveStatus, Settled
<1>6. Exists(r) /\ Exists(r)'
  BY <1>1 DEF AdmissionInv, RowsExist, OwnsDate, Exists
<1>7. \A q \in SameDate(r) : ~OwnsDate(q)'
  BY <1>0, <1>1, <1>2, <1>3 DEF AdmissionInv, OneOwnerPerDate, SameDate
<1>8. Holder[d] = r /\ Holder' = [Holder EXCEPT ![d] = None]
  BY <1>1, <1>3, <1>7, HolderMoves DEF AdmissionInv
<1>9. Known' = Known /\ Alive' = Alive \ {r} /\ Sealed' = Sealed \cup {r}
  BY <1>2, <1>4, <1>5, <1>6 DEF Known, Alive, Sealed
<1>10. QED
  BY <1>8, <1>9 DEF Lock!Release, Known, Alive, Sealed

\* Work ends, or goes on: the rows, claims and fences rest.
LEMMA WorkMap ==
  ASSUME TypeOK, AdmissionInv, NEW r \in RunIds, UNCHANGED <<adm, retired>>,
         \A q \in RunIds : Exists(q)' = Exists(q),
         \A q \in RunIds \ {r} : Live(q)' = Live(q),
         Live(r)' => Live(r)
  PROVE  Lock!Quiesce(r) \/ UNCHANGED Lock!lockVars
<1>1. \A q \in RunIds : OwnsDate(q)' = OwnsDate(q) /\ Fenced(q)' = Fenced(q)
  BY DEF OwnsDate, Admitted, Fenced
<1>2. Known' = Known /\ Sealed' = Sealed
  BY <1>1, MapsRest
<1>3. Holder' = Holder
  BY DEF Holder, OwnsDate, Admitted
<1>4. CASE Live(r) /\ ~Live(r)'
  <2>1. r \in Alive /\ Alive' = Alive \ {r}
    BY <1>4 DEF Alive
  <2>2. QED
    BY <1>2, <1>3, <2>1 DEF Lock!Quiesce, Known, Alive, Sealed
<1>5. CASE ~Live(r) \/ Live(r)'
  <2>1. Alive' = Alive
    BY <1>5 DEF Alive
  <2>2. QED
    BY <1>2, <1>3, <2>1, LockVarsMap
<1>6. QED
  BY <1>4, <1>5

LEMMA LockStep ==
  ASSUME TypeOK, AdmissionInv, AdmissionInv', RowStep
  PROVE  [Lock!LockNext]_(Lock!lockVars)
<1>0. DbTypeOK /\ HandlersTypeOK
  BY TypeParts
<1>1. ASSUME NEW r \in RunIds,
             \/ Lock!Grant(r) \/ Lock!Adopt(r) \/ Lock!Quiesce(r) \/ Lock!Release(r)
             \/ UNCHANGED Lock!lockVars
      PROVE  [Lock!LockNext]_(Lock!lockVars)
  BY <1>1 DEF Lock!LockNext
<1>2. CASE AdmitStep
  <2>1. ASSUME NEW h \in Handlers, hs[h].pc = "admit",
               Admit(hs[h].run, hs[h].request, hs[h].supersede, hs[h].prior,
                     hs[h].origin, hs[h].at, "pending")
        PROVE  [Lock!LockNext]_(Lock!lockVars)
    <3>1. PICK r \in RunIds : r = hs[h].run
      BY <1>0, <2>1 DEF HandlersTypeOK, NamesItsRun
    <3>2. Lock!Grant(r)
      BY <2>1, <3>1, GrantMap
    <3>3. QED
      BY <1>1, <3>2
  <2>2. ASSUME NEW r \in LegacyRuns,
               (\E now \in Clock : Admit(r, <<"legacy", r>>, FALSE, None, "scheduled", now, "uncertain"))
        PROVE  [Lock!LockNext]_(Lock!lockVars)
    <3>1. r \in RunIds /\ Lock!Grant(r)
      BY <2>2, LegacyIds, GrantMap
    <3>2. QED
      BY <1>1, <3>1
  <2>3. QED
    BY <1>2, <2>1, <2>2 DEF AdmitStep
<1>3. ASSUME NEW r \in LegacyRuns, AdoptStep(r) PROVE [Lock!LockNext]_(Lock!lockVars)
  BY <1>1, <1>3, LegacyIds, AdoptMap
<1>4. ASSUME NEW r \in RunIds, ResolveDispatch(r) PROVE [Lock!LockNext]_(Lock!lockVars)
  BY <1>1, <1>4, ReleaseMap
<1>5. ASSUME NEW r \in RunIds, WorkStep(r) \/ Reserve(r) \/ EndOperation(r)
      PROVE  [Lock!LockNext]_(Lock!lockVars)
  <2>1. UNCHANGED <<adm, retired>>
    BY <1>5 DEF WorkStep, Reserve, EndOperation, runRest
  <2>2. \A q \in RunIds \ {r} : status'[q] = status[q] /\ op'[q] = op[q]
    BY <1>0, <1>5 DEF WorkStep, Reserve, EndOperation, DbTypeOK
  <2>3. Live(r) /\ (Exists(r) <=> Exists(r)')
    <3>1. CASE WorkStep(r)
      BY <1>0, <3>1 DEF WorkStep, DbTypeOK, Live, Exists, LiveStatus
    <3>2. CASE Reserve(r) \/ EndOperation(r)
      BY <3>2 DEF Reserve, EndOperation, Live, Settled, Exists
    <3>3. QED
      BY <1>5, <3>1, <3>2
  <2>4. \A q \in RunIds : Exists(q)' = Exists(q)
    BY <2>2, <2>3 DEF Exists
  <2>5. \A q \in RunIds \ {r} : Live(q)' = Live(q)
    BY <2>2 DEF Live, Settled
  <2>6. Lock!Quiesce(r) \/ UNCHANGED Lock!lockVars
    BY <2>1, <2>3, <2>4, <2>5, WorkMap
  <2>7. QED
    BY <1>1, <2>6
<1>6. ASSUME NEW r \in RunIds, FlagStep(r) PROVE [Lock!LockNext]_(Lock!lockVars)
  <2>1. UNCHANGED <<status, retired, op>>
    BY <1>6 DEF FlagStep
  <2>2. \A q \in RunIds : Admitted(q)' = Admitted(q) /\ adm'[q].released = adm[q].released
    <3>1. PICK row \in AdmissionRow :
            /\ adm' = [adm EXCEPT ![r] = row]
            /\ row.released = adm[r].released /\ row.state # "absent"
      BY <1>6 DEF FlagStep
    <3>2. Admitted(r)
      BY <1>6 DEF FlagStep
    <3>3. QED
      BY <1>0, <3>1, <3>2 DEF DbTypeOK, Admitted
  <2>3. \A q \in RunIds : /\ Exists(q)' = Exists(q) /\ Live(q)' = Live(q)
                          /\ OwnsDate(q)' = OwnsDate(q) /\ Fenced(q)' = Fenced(q)
    BY <2>1, <2>2 DEF Exists, Live, Settled, OwnsDate, Fenced
  <2>4. Holder' = Holder
    BY <1>6, <2>3, HolderMoves DEF AdmissionInv, SameDate
  <2>5. UNCHANGED Lock!lockVars
    BY <2>3, <2>4, MapsRest, LockVarsMap
  <2>6. QED
    BY <2>5
<1>7. ASSUME UNCHANGED <<status, adm, retired, op>> PROVE [Lock!LockNext]_(Lock!lockVars)
  <2>1. \A q \in RunIds : /\ Exists(q)' = Exists(q) /\ Live(q)' = Live(q)
                          /\ Fenced(q)' = Fenced(q)
    BY <1>7 DEF Exists, Live, Settled, Fenced, Admitted
  <2>2. Holder' = Holder
    BY <1>7 DEF Holder, OwnsDate, Admitted
  <2>3. QED
    BY <2>1, <2>2, MapsRest, LockVarsMap
<1>8. ASSUME NEW r \in RunIds, DraftStep(r) PROVE [Lock!LockNext]_(Lock!lockVars)
  BY <1>7, <1>8 DEF DraftStep
<1>9. CASE UNCHANGED dbVars
  BY <1>7, <1>9 DEF dbVars
<1>10. QED
  BY <1>2, <1>3, <1>4, <1>5, <1>6, <1>8, <1>9 DEF RowStep

LEMMA LockBegins == Init => Lock!LockInit
<1> SUFFICES ASSUME Init PROVE Lock!LockInit
  OBVIOUS
<1>1. \A r \in RunIds : ~Admitted(r) /\ ~Fenced(r) /\ (Live(r) => Exists(r))
  BY DEF Init, NoAdmission, Admitted, Fenced, Live, Settled, Exists, LiveStatus
<1>2. Holder = [d \in Dates |-> None]
  BY <1>1 DEF Holder, OwnsDate
<1>3. Known \in SUBSET RunIds /\ Alive \in SUBSET Known /\ Sealed = {}
  BY <1>1 DEF Known, Alive, Sealed
<1>4. QED
  BY <1>2, <1>3 DEF Lock!LockInit, Known, Alive, Sealed

\* Every handler, Workflow, gate and accounting step is a step of the lock, so
\* that what DateLock promises holds of the admission table, for every number of
\* dates, suffixes, request ids, handlers and instances.
THEOREM ImplementsDateLockHolds == Spec => ImplementsDateLock
<1>1. TypeOK /\ AdmissionInv /\ AdmissionInv' /\ [Next]_vars
        => [Lock!LockNext]_(Lock!lockVars)
  BY RowSteps, LockStep
<1>2. QED
  BY <1>1, LockBegins, TypeCorrect, AdmissionInvariant, PTL
     DEF Spec, ImplementsDateLock, Lock!LockSpec
=============================================================================
