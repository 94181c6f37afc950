------------------------- MODULE DiagnosticsProofs -------------------------
(***************************************************************************)
(* Type correctness of Diagnostics for every set of uploads and callers,   *)
(* every ordering of the leases and every bound on errors.                 *)
(***************************************************************************)
EXTENDS Diagnostics, DiagnosticRepositoryProofs

USE DEF Receiving, Stored, Discarded, Gone, Status, NoDeadline
USE DEF InDoubt, InDoubtAtBucket, RetryOrExpire, Reschedule

(***************************************************************************)
(* The bucket.                                                             *)
(***************************************************************************)

\* Replacing one value of a function by one of its range.
LEMMA ExceptType ==
  ASSUME NEW S, NEW T, NEW t \in T, NEW x
  PROVE  \A f \in [S -> T] : [f EXCEPT ![x] = t] \in [S -> T]
OBVIOUS

\* What the bucket does keeps objects objects and sessions sessions.
LEMMA StorageType ==
  ASSUME StorageTypeOK, NEW u
  PROVE  /\ OpenSession(u) => StorageTypeOK'
         /\ FinishSession(u) => StorageTypeOK'
         /\ AbandonCompletion(u) => StorageTypeOK'
         /\ AbortSession(u) => StorageTypeOK'
         /\ DeleteEveryVersion(u) => StorageTypeOK'
         /\ UNCHANGED provider => StorageTypeOK'
<1> USE DEF StorageTypeOK, Object, Session
<1>0. \A f \in [Uploads -> 0 .. UploadWindow] :
        [f EXCEPT ![u] = 0] \in [Uploads -> 0 .. UploadWindow]
  BY Times, 0 \in 0 .. UploadWindow, ExceptType
<1>1. OpenSession(u) => StorageTypeOK'
  BY <1>0 DEF OpenSession
<1>2. FinishSession(u) => StorageTypeOK'
  BY <1>0 DEF FinishSession
<1>3. AbandonCompletion(u) => StorageTypeOK'
  BY DEF AbandonCompletion
<1>4. ASSUME AbortSession(u) PROVE StorageTypeOK'
  <2>1. CASE Unfinished(u)
    BY <1>0, <1>4, <2>1 DEF AbortSession
  <2>2. CASE ~Unfinished(u)
    BY <1>4, <2>2 DEF AbortSession
  <2>3. QED
    BY <2>1, <2>2
<1>5. DeleteEveryVersion(u) => StorageTypeOK'
  BY DEF DeleteEveryVersion
<1>6. UNCHANGED provider => StorageTypeOK'
  BY DEF provider
<1>7. QED
  BY <1>1, <1>2, <1>3, <1>4, <1>5, <1>6

(***************************************************************************)
(* The requests.                                                           *)
(***************************************************************************)
RequestsTypeOK ==
  /\ req \in [Callers -> Request]
  /\ \A c \in Callers : ~At(c, "idle") => req[c].u \in Uploads

\* A caller that goes on, starts or ends has a request of the type.
LEMMA RequestsType ==
  ASSUME RequestsTypeOK, NEW c \in Callers
  PROVE  /\ \A pc \in Awaiting \ {"idle"} :
              ~At(c, "idle") /\ Goto(c, pc) => RequestsTypeOK'
         /\ \A pc \in Awaiting \ {"idle"}, u \in Uploads, fields \in Request :
              Start(c, pc, u, fields) => RequestsTypeOK'
         /\ Finish(c) => RequestsTypeOK'
<1>0. Idle \in Request
  BY Times, CallersAssumption DEF Idle, Request, Awaiting
<1>1. ASSUME NEW pc \in Awaiting \ {"idle"}, ~At(c, "idle"), Goto(c, pc) PROVE RequestsTypeOK'
  BY <1>1 DEF RequestsTypeOK, At, Goto, Request
<1>2. ASSUME NEW pc \in Awaiting \ {"idle"}, NEW u \in Uploads, NEW fields \in Request,
             Start(c, pc, u, fields)
      PROVE RequestsTypeOK'
  <2> DEFINE started == [fields EXCEPT !.pc = pc, !.u = u]
  <2>1. started \in Request /\ started.u = u
    BY DEF Request
  <2>2. req' = [req EXCEPT ![c] = started]
    BY <1>2 DEF Start
  <2> HIDE DEF started
  <2>3. QED
    BY <2>1, <2>2 DEF RequestsTypeOK, At
<1>3. ASSUME Finish(c) PROVE RequestsTypeOK'
  BY <1>0, <1>3 DEF RequestsTypeOK, At, Finish, Idle
<1>4. QED
  BY <1>1, <1>2, <1>3

\* The count of errors stays within its bound.
LEMMA FaultsType ==
  ASSUME faults \in 0 .. MaxFaults, Fault \/ UNCHANGED faults
  PROVE  faults' \in 0 .. MaxFaults
BY CallersAssumption DEF Fault

\* A statement on one row, or none, keeps the table a table.
LEMMA RowsType ==
  ASSUME RowTypeOK, NEW u \in Uploads
  PROVE  /\ \A s \in Status : Transition(u, s) => RowTypeOK'
         /\ \A s \in Status, d \in -1 .. VerifyLifetime :
              TransitionDeadline(u, s, d) => RowTypeOK'
         /\ \A s \in Status : TransitionClearingProvider(u, s) => RowTypeOK'
         /\ SetProviderUploadId(u) => RowTypeOK'
         /\ \A all \in BOOLEAN : RegisterPartGrant(u, all) => RowTypeOK'
         /\ \A d \in 0 .. VerifyBackoff : ScheduleVerificationRetry(u, d) => RowTypeOK'
         /\ \A d \in 0 .. DeletionBackoff : ScheduleDeletionRetry(u, d) => RowTypeOK'
         /\ UNCHANGED row => RowTypeOK'
<1>1. UNCHANGED row => RowTypeOK'
  BY DEF RowTypeOK
<1>2. QED
  BY <1>1, StatementsWrite, Zenon DEF Wrote

\* Every step of a request keeps the table, the bucket and the requests typed.
LEMMA RequestStepType ==
  ASSUME TypeOK, NEW c \in Callers, RequestStep(c)
  PROVE  RowTypeOK' /\ StorageTypeOK' /\ ServiceTypeOK'
<1> DEFINE SettingsTypeOK == granted \subseteq Uploads /\ preverify \in BOOLEAN
           Typed == RowTypeOK' /\ StorageTypeOK' /\ RequestsTypeOK' /\ SettingsTypeOK'
                      /\ faults' \in 0 .. MaxFaults
<1>1. /\ RowTypeOK /\ StorageTypeOK /\ RequestsTypeOK /\ SettingsTypeOK
      /\ faults \in 0 .. MaxFaults
  BY DEF TypeOK, ServiceTypeOK, RequestsTypeOK
<1>2. ~At(c, "idle")
  BY DEF RequestStep, At, CreateBegin, CreateRegister, CreateAbort, CreateUnregister,
         PartUrlGrant, CompleteClaim, CompleteProvider, CompleteVerifySize, CompleteFinish,
         CompleteFail, ModerateDelete, DownloadQueue
<1>3. req[c].u \in Uploads /\ req[c].deadline \in -1 .. VerifyLifetime
  BY <1>1, <1>2 DEF RequestsTypeOK, Request
<1>4. Goto(c, "register") \/ Goto(c, "unregister") \/ Goto(c, "abort") \/ Goto(c, "provider")
        \/ Goto(c, "head") \/ Goto(c, "finish") \/ Goto(c, "fail") \/ Finish(c)
        => RequestsTypeOK'
  BY <1>1, <1>2, RequestsType DEF Awaiting
<1>5. ASSUME CreateBegin(c) PROVE Typed
  <2>1. RowTypeOK'
    BY <1>1, <1>3, <1>5, RowsType DEF CreateBegin
  <2>2. StorageTypeOK'
    BY <1>1, <1>5, StorageType DEF CreateBegin
  <2>3. RequestsTypeOK' /\ faults' \in 0 .. MaxFaults
    BY <1>1, <1>4, <1>5, FaultsType DEF CreateBegin
  <2>4. SettingsTypeOK'
    BY <1>1, <1>3, <1>5 DEF CreateBegin
  <2>5. QED
    BY <2>1, <2>2, <2>3, <2>4
<1>6. ASSUME CreateRegister(c) PROVE Typed
  <2>1. RowTypeOK'
    BY <1>1, <1>3, <1>6, RowsType DEF CreateRegister
  <2>2. StorageTypeOK'
    BY <1>1, <1>6, StorageType DEF CreateRegister
  <2>3. RequestsTypeOK' /\ faults' \in 0 .. MaxFaults
    BY <1>1, <1>4, <1>6, FaultsType DEF CreateRegister
  <2>4. SettingsTypeOK'
    BY <1>1, <1>3, <1>6 DEF CreateRegister
  <2>5. QED
    BY <2>1, <2>2, <2>3, <2>4
<1>7. ASSUME CreateAbort(c) PROVE Typed
  <2>1. RowTypeOK'
    BY <1>1, <1>3, <1>7, RowsType DEF CreateAbort
  <2>2. StorageTypeOK'
    BY <1>1, <1>7, StorageType DEF CreateAbort
  <2>3. RequestsTypeOK' /\ faults' \in 0 .. MaxFaults
    BY <1>1, <1>4, <1>7, FaultsType DEF CreateAbort
  <2>4. SettingsTypeOK'
    BY <1>1, <1>3, <1>7 DEF CreateAbort
  <2>5. QED
    BY <2>1, <2>2, <2>3, <2>4
<1>8. ASSUME CreateUnregister(c) PROVE Typed
  <2>1. RowTypeOK'
    BY <1>1, <1>3, <1>8, RowsType DEF CreateUnregister
  <2>2. StorageTypeOK'
    BY <1>1, <1>8, StorageType DEF CreateUnregister
  <2>3. RequestsTypeOK' /\ faults' \in 0 .. MaxFaults
    BY <1>1, <1>4, <1>8, FaultsType DEF CreateUnregister
  <2>4. SettingsTypeOK'
    BY <1>1, <1>3, <1>8 DEF CreateUnregister
  <2>5. QED
    BY <2>1, <2>2, <2>3, <2>4
<1>9. ASSUME PartUrlGrant(c) PROVE Typed
  <2>1. RowTypeOK'
    BY <1>1, <1>3, <1>9, RowsType DEF PartUrlGrant
  <2>2. StorageTypeOK'
    BY <1>1, <1>9, StorageType DEF PartUrlGrant
  <2>3. RequestsTypeOK' /\ faults' \in 0 .. MaxFaults
    BY <1>1, <1>4, <1>9, FaultsType DEF PartUrlGrant
  <2>4. SettingsTypeOK'
    BY <1>1, <1>3, <1>9 DEF PartUrlGrant
  <2>5. QED
    BY <2>1, <2>2, <2>3, <2>4
<1>10. ASSUME CompleteClaim(c) PROVE Typed
  <2>1. RowTypeOK'
    BY <1>1, <1>3, <1>10, RowsType DEF CompleteClaim
  <2>2. StorageTypeOK'
    BY <1>1, <1>10, StorageType DEF CompleteClaim
  <2>3. RequestsTypeOK' /\ faults' \in 0 .. MaxFaults
    BY <1>1, <1>4, <1>10, FaultsType DEF CompleteClaim
  <2>4. SettingsTypeOK'
    BY <1>1, <1>3, <1>10 DEF CompleteClaim
  <2>5. QED
    BY <2>1, <2>2, <2>3, <2>4
<1>11. ASSUME CompleteProvider(c) PROVE Typed
  <2>1. RowTypeOK'
    BY <1>1, <1>3, <1>11, RowsType DEF CompleteProvider
  <2>2. StorageTypeOK'
    BY <1>1, <1>11, StorageType DEF CompleteProvider
  <2>3. RequestsTypeOK' /\ faults' \in 0 .. MaxFaults
    BY <1>1, <1>4, <1>11, FaultsType DEF CompleteProvider
  <2>4. SettingsTypeOK'
    BY <1>1, <1>3, <1>11 DEF CompleteProvider
  <2>5. QED
    BY <2>1, <2>2, <2>3, <2>4
<1>12. ASSUME CompleteVerifySize(c) PROVE Typed
  <2>1. RowTypeOK'
    BY <1>1, <1>3, <1>12, RowsType DEF CompleteVerifySize
  <2>2. StorageTypeOK'
    BY <1>1, <1>12, StorageType DEF CompleteVerifySize
  <2>3. RequestsTypeOK' /\ faults' \in 0 .. MaxFaults
    BY <1>1, <1>4, <1>12, FaultsType DEF CompleteVerifySize
  <2>4. SettingsTypeOK'
    BY <1>1, <1>3, <1>12 DEF CompleteVerifySize
  <2>5. QED
    BY <2>1, <2>2, <2>3, <2>4
<1>13. ASSUME CompleteFinish(c) PROVE Typed
  <2>1. RowTypeOK'
    BY <1>1, <1>3, <1>13, RowsType DEF CompleteFinish
  <2>2. StorageTypeOK'
    BY <1>1, <1>13, StorageType DEF CompleteFinish
  <2>3. RequestsTypeOK' /\ faults' \in 0 .. MaxFaults
    BY <1>1, <1>4, <1>13, FaultsType DEF CompleteFinish
  <2>4. SettingsTypeOK'
    BY <1>1, <1>3, <1>13 DEF CompleteFinish
  <2>5. QED
    BY <2>1, <2>2, <2>3, <2>4
<1>14. ASSUME CompleteFail(c) PROVE Typed
  <2>1. RowTypeOK'
    BY <1>1, <1>3, <1>14, RowsType DEF CompleteFail
  <2>2. StorageTypeOK'
    BY <1>1, <1>14, StorageType DEF CompleteFail
  <2>3. RequestsTypeOK' /\ faults' \in 0 .. MaxFaults
    BY <1>1, <1>4, <1>14, FaultsType DEF CompleteFail
  <2>4. SettingsTypeOK'
    BY <1>1, <1>3, <1>14 DEF CompleteFail
  <2>5. QED
    BY <2>1, <2>2, <2>3, <2>4
<1>15. ASSUME ModerateDelete(c) PROVE Typed
  <2>1. RowTypeOK'
    BY <1>1, <1>3, <1>15, RowsType DEF ModerateDelete
  <2>2. StorageTypeOK'
    BY <1>1, <1>15, StorageType DEF ModerateDelete
  <2>3. RequestsTypeOK' /\ faults' \in 0 .. MaxFaults
    BY <1>1, <1>4, <1>15, FaultsType DEF ModerateDelete
  <2>4. SettingsTypeOK'
    BY <1>1, <1>3, <1>15 DEF ModerateDelete
  <2>5. QED
    BY <2>1, <2>2, <2>3, <2>4
<1>16. ASSUME DownloadQueue(c) PROVE Typed
  <2>1. RowTypeOK'
    BY <1>1, <1>3, <1>16, RowsType DEF DownloadQueue
  <2>2. StorageTypeOK'
    BY <1>1, <1>16, StorageType DEF DownloadQueue
  <2>3. RequestsTypeOK' /\ faults' \in 0 .. MaxFaults
    BY <1>1, <1>4, <1>16, FaultsType DEF DownloadQueue
  <2>4. SettingsTypeOK'
    BY <1>1, <1>3, <1>16 DEF DownloadQueue
  <2>5. QED
    BY <2>1, <2>2, <2>3, <2>4
<1>17. QED
  BY <1>5, <1>6, <1>7, <1>8, <1>9, <1>10, <1>11, <1>12, <1>13, <1>14, <1>15, <1>16 DEF RequestStep, ServiceTypeOK, RequestsTypeOK

\* So does a new request, lost requests and a change of the setting.
LEMMA ServiceType ==
  ASSUME TypeOK, ServiceNext, UNCHANGED worker
  PROVE  TypeOK'
<1> DEFINE Typed == RowTypeOK' /\ StorageTypeOK' /\ ServiceTypeOK'
<1>1. /\ RowTypeOK /\ StorageTypeOK /\ RequestsTypeOK /\ granted \subseteq Uploads
      /\ preverify \in BOOLEAN /\ faults \in 0 .. MaxFaults
  BY DEF TypeOK, ServiceTypeOK, RequestsTypeOK
<1>2. ASSUME NEW c \in Callers, RequestStep(c) PROVE Typed
  BY <1>2, RequestStepType
<1>3. Idle \in Request
  BY Times, CallersAssumption DEF Idle, Request, Awaiting
<1>4. ASSUME NEW c \in Callers, NEW u \in Uploads, NEW pc \in Awaiting \ {"idle"},
             NEW fields \in Request, Start(c, pc, u, fields)
      PROVE  RequestsTypeOK'
  BY <1>1, <1>4, RequestsType
<1>5. ASSUME RequestsTypeOK', RowTypeOK',
             UNCHANGED <<granted, preverify, faults, provider>>
      PROVE  Typed
  BY <1>1, <1>5, StorageType DEF ServiceTypeOK, RequestsTypeOK
<1>6. ASSUME NEW c \in Callers, NewRequest(c) PROVE Typed
  <2>1. PICK u \in Uploads : \/ CreateInsert(c, u) \/ PartUrlFind(c, u) \/ CompleteFind(c, u)
                             \/ ModerateFind(c, u) \/ DownloadFind(c, u)
    BY <1>6 DEF NewRequest
  <2>2. row[u] \in Row
    BY <1>1 DEF RowTypeOK
  <2>3. CASE CreateInsert(c, u)
    <3>1. RowTypeOK'
      BY <1>1, <2>3, InsertWrites DEF CreateInsert
    <3>2. RequestsTypeOK'
      BY <1>3, <1>4, <2>3 DEF CreateInsert, Awaiting
    <3>3. QED
      BY <1>5, <2>3, <3>1, <3>2 DEF CreateInsert
  <2>4. CASE PartUrlFind(c, u)
    <3>1. RequestsTypeOK'
      BY <1>3, <1>4, <2>4 DEF PartUrlFind, Awaiting
    <3>2. QED
      BY <1>1, <1>5, <2>4, <3>1 DEF PartUrlFind, RowTypeOK
  <2>5. CASE CompleteFind(c, u)
    <3>1. [Idle EXCEPT !.prov = row[u].providerId, !.bound = row[u].bound] \in Request
      BY <1>3, <2>2 DEF Row, Request
    <3>2. RequestsTypeOK'
      BY <1>4, <2>5, <3>1 DEF CompleteFind, Awaiting
    <3>3. QED
      BY <1>1, <1>5, <2>5, <3>2 DEF CompleteFind, RowTypeOK
  <2>6. CASE ModerateFind(c, u)
    <3>1. [Idle EXCEPT !.seen = row[u].status] \in Request
      BY <1>3, <2>2 DEF Row, Request
    <3>2. RequestsTypeOK'
      BY <1>4, <2>6, <3>1 DEF ModerateFind, Awaiting
    <3>3. QED
      BY <1>1, <1>5, <2>6, <3>2 DEF ModerateFind, RowTypeOK
  <2>7. CASE DownloadFind(c, u)
    <3>1. LeastOf(Retention - row[u].age, VerifyLifetime) \in -1 .. VerifyLifetime
      BY <2>2, <2>7, Times DEF DownloadFind, LeastOf, Row
    <3>2. [Idle EXCEPT !.deadline = LeastOf(Retention - row[u].age, VerifyLifetime)] \in Request
      BY <1>3, <3>1 DEF Request
    <3>3. RequestsTypeOK'
      BY <1>4, <2>7, <3>2 DEF DownloadFind, Awaiting
    <3>4. QED
      BY <1>1, <1>5, <2>7, <3>3 DEF DownloadFind, RowTypeOK
  <2>8. QED
    BY <2>1, <2>3, <2>4, <2>5, <2>6, <2>7
<1>7. ASSUME NEW enabled \in BOOLEAN, SetPreverification(enabled) PROVE Typed
  <2>1. UNCHANGED <<row, provider, req>>
    BY <1>7 DEF SetPreverification
  <2>2. RowTypeOK' /\ StorageTypeOK' /\ RequestsTypeOK'
    BY <1>1, <2>1, StorageType DEF RowTypeOK, RequestsTypeOK, At
  <2>3. QED
    BY <1>1, <1>7, <2>2 DEF SetPreverification, ServiceTypeOK, RequestsTypeOK
<1>8. ASSUME NEW S, RequestsLost(S) PROVE Typed
  <2>1. UNCHANGED <<row, provider>>
    BY <1>8 DEF RequestsLost
  <2>2. RowTypeOK' /\ StorageTypeOK'
    BY <1>1, <2>1, StorageType DEF RowTypeOK
  <2>3. RequestsTypeOK'
    BY <1>1, <1>3, <1>8 DEF RequestsLost, RequestsTypeOK, At, Idle
  <2>4. QED
    BY <1>1, <1>8, <2>2, <2>3, FaultsType DEF RequestsLost, ServiceTypeOK, RequestsTypeOK
<1>9. Typed
  BY <1>2, <1>6, <1>7, <1>8 DEF ServiceNext
<1>10. QED
  BY <1>9 DEF TypeOK, WorkerTypeOK, worker

(***************************************************************************)
(* The worker.                                                             *)
(***************************************************************************)
LoopTypeOK == vloop \in [pc : {"idle", "claim", "await"}, includeStored : BOOLEAN]

MaintenanceTypeOK ==
  /\ mloop \in Maintenance
  /\ mloop.pc \in {"abort", "delete", "finish", "retry"} => mloop.u \in Uploads

\* A verification that goes on, returns or throws leaves verifications.
LEMMA TasksType ==
  ASSUME LoopTypeOK, task \subseteq Task, NEW t \in task
  PROVE  /\ \A pc \in Leased \cup {"removing", "invalidating", "rescheduling"} :
              Becomes(t, pc) => LoopTypeOK' /\ task' \subseteq Task
         /\ Returns(t) => LoopTypeOK' /\ task' \subseteq Task
         /\ Throws(t) => LoopTypeOK' /\ task' \subseteq Task
<1>1. ASSUME NEW pc \in Leased \cup {"removing", "invalidating", "rescheduling"},
             Becomes(t, pc)
      PROVE  LoopTypeOK' /\ task' \subseteq Task
  BY <1>1 DEF Becomes, LoopTypeOK, Task
<1>2. Returns(t) => LoopTypeOK' /\ task' \subseteq Task
  BY DEF Returns, LoopTypeOK
<1>3. ASSUME Throws(t) PROVE LoopTypeOK' /\ task' \subseteq Task
  <2>1. CASE t.joined
    <3>1. \A s \in Task : [s EXCEPT !.joined = FALSE] \in Task
      BY DEF Task
    <3>2. task' = {[s EXCEPT !.joined = FALSE] : s \in task \ {t}}
      BY <1>3, <2>1 DEF Throws
    <3>3. task' \subseteq Task
      BY <3>1, <3>2
    <3>4. LoopTypeOK'
      BY <1>3, <2>1 DEF Throws, LoopTypeOK
    <3>5. QED
      BY <3>3, <3>4
  <2>2. CASE ~t.joined
    BY <1>2, <1>3, <2>2 DEF Throws
  <2>3. QED
    BY <2>1, <2>2
<1>4. QED
  BY <1>1, <1>2, <1>3

\* Every step of a verification keeps table, bucket and verifications typed.
LEMMA TaskStepType ==
  ASSUME TypeOK, NEW t \in task, TaskStep(t)
  PROVE  /\ RowTypeOK' /\ StorageTypeOK' /\ LoopTypeOK' /\ task' \subseteq Task
         /\ faults' \in 0 .. MaxFaults /\ UNCHANGED <<req, granted, preverify, mloop>>
<1> DEFINE Typed == /\ RowTypeOK' /\ StorageTypeOK' /\ LoopTypeOK' /\ task' \subseteq Task
                    /\ faults' \in 0 .. MaxFaults
                    /\ UNCHANGED <<req, granted, preverify, mloop>>
<1>1. /\ RowTypeOK /\ StorageTypeOK /\ LoopTypeOK /\ task \subseteq Task
      /\ faults \in 0 .. MaxFaults /\ t.u \in Uploads
  BY DEF TypeOK, ServiceTypeOK, WorkerTypeOK, LoopTypeOK, Task
<1>2. -1 \in -1 .. VerifyLifetime
  BY Times
<1>3. Returns(t) \/ Throws(t) \/ Becomes(t, "accepting") \/ Becomes(t, "rejecting")
        \/ Becomes(t, "retrying") \/ Becomes(t, "removing") \/ Becomes(t, "invalidating")
        \/ Becomes(t, "rescheduling")
        => LoopTypeOK' /\ task' \subseteq Task
  BY <1>1, TasksType DEF Leased, Streaming
<1>4. ASSUME VerifyObject(t) PROVE Typed
  <2>1. RowTypeOK'
    BY <1>1, <1>2, <1>4, RowsType DEF VerifyObject
  <2>2. StorageTypeOK'
    BY <1>1, <1>4, StorageType DEF VerifyObject
  <2>3. LoopTypeOK' /\ task' \subseteq Task /\ faults' \in 0 .. MaxFaults
    BY <1>1, <1>3, <1>4, FaultsType DEF VerifyObject
  <2>4. QED
    BY <1>4, <2>1, <2>2, <2>3 DEF VerifyObject, service
<1>5. ASSUME VerifyInterrupted(t) PROVE Typed
  <2>1. RowTypeOK'
    BY <1>1, <1>2, <1>5, RowsType DEF VerifyInterrupted
  <2>2. StorageTypeOK'
    BY <1>1, <1>5, StorageType DEF VerifyInterrupted
  <2>3. LoopTypeOK' /\ task' \subseteq Task /\ faults' \in 0 .. MaxFaults
    BY <1>1, <1>3, <1>5, FaultsType DEF VerifyInterrupted
  <2>4. QED
    BY <1>5, <2>1, <2>2, <2>3 DEF VerifyInterrupted, service
<1>6. ASSUME VerifyAccept(t) PROVE Typed
  <2>1. RowTypeOK'
    BY <1>1, <1>2, <1>6, RowsType DEF VerifyAccept
  <2>2. StorageTypeOK'
    BY <1>1, <1>6, StorageType DEF VerifyAccept
  <2>3. LoopTypeOK' /\ task' \subseteq Task /\ faults' \in 0 .. MaxFaults
    BY <1>1, <1>3, <1>6, FaultsType DEF VerifyAccept
  <2>4. QED
    BY <1>6, <2>1, <2>2, <2>3 DEF VerifyAccept, service
<1>7. ASSUME VerifyRetry(t) PROVE Typed
  <2>1. RowTypeOK'
    BY <1>1, <1>2, <1>7, RowsType DEF VerifyRetry
  <2>2. StorageTypeOK'
    BY <1>1, <1>7, StorageType DEF VerifyRetry
  <2>3. LoopTypeOK' /\ task' \subseteq Task /\ faults' \in 0 .. MaxFaults
    BY <1>1, <1>3, <1>7, FaultsType DEF VerifyRetry
  <2>4. QED
    BY <1>7, <2>1, <2>2, <2>3 DEF VerifyRetry, service
<1>8. ASSUME RejectInvalid(t) PROVE Typed
  <2>1. RowTypeOK'
    BY <1>1, <1>2, <1>8, RowsType DEF RejectInvalid
  <2>2. StorageTypeOK'
    BY <1>1, <1>8, StorageType DEF RejectInvalid
  <2>3. LoopTypeOK' /\ task' \subseteq Task /\ faults' \in 0 .. MaxFaults
    BY <1>1, <1>3, <1>8, FaultsType DEF RejectInvalid
  <2>4. QED
    BY <1>8, <2>1, <2>2, <2>3 DEF RejectInvalid, service
<1>9. ASSUME RejectRemove(t) PROVE Typed
  <2>1. RowTypeOK'
    BY <1>1, <1>2, <1>9, RowsType DEF RejectRemove
  <2>2. StorageTypeOK'
    BY <1>1, <1>9, StorageType DEF RejectRemove
  <2>3. LoopTypeOK' /\ task' \subseteq Task /\ faults' \in 0 .. MaxFaults
    BY <1>1, <1>3, <1>9, FaultsType DEF RejectRemove
  <2>4. QED
    BY <1>9, <2>1, <2>2, <2>3 DEF RejectRemove, service
<1>10. ASSUME RejectFinish(t) PROVE Typed
  <2>1. RowTypeOK'
    BY <1>1, <1>2, <1>10, RowsType DEF RejectFinish
  <2>2. StorageTypeOK'
    BY <1>1, <1>10, StorageType DEF RejectFinish
  <2>3. LoopTypeOK' /\ task' \subseteq Task /\ faults' \in 0 .. MaxFaults
    BY <1>1, <1>3, <1>10, FaultsType DEF RejectFinish
  <2>4. QED
    BY <1>10, <2>1, <2>2, <2>3 DEF RejectFinish, service
<1>11. ASSUME RejectReschedule(t) PROVE Typed
  <2>1. RowTypeOK'
    BY <1>1, <1>2, <1>11, RowsType DEF RejectReschedule
  <2>2. StorageTypeOK'
    BY <1>1, <1>11, StorageType DEF RejectReschedule
  <2>3. LoopTypeOK' /\ task' \subseteq Task /\ faults' \in 0 .. MaxFaults
    BY <1>1, <1>3, <1>11, FaultsType DEF RejectReschedule
  <2>4. QED
    BY <1>11, <2>1, <2>2, <2>3 DEF RejectReschedule, service
<1>12. QED
  BY <1>4, <1>5, <1>6, <1>7, <1>8, <1>9, <1>10, <1>11 DEF TaskStep

\* Every step of the maintenance loop keeps table, bucket and loop typed.
LEMMA MaintenanceStepType ==
  ASSUME TypeOK, MaintenanceStep
  PROVE  /\ RowTypeOK' /\ StorageTypeOK' /\ MaintenanceTypeOK'
         /\ faults' \in 0 .. MaxFaults /\ UNCHANGED <<req, granted, preverify, vloop, task>>
<1> DEFINE Typed == /\ RowTypeOK' /\ StorageTypeOK' /\ MaintenanceTypeOK'
                    /\ faults' \in 0 .. MaxFaults
                    /\ UNCHANGED <<req, granted, preverify, vloop, task>>
<1>1. /\ RowTypeOK /\ StorageTypeOK /\ MaintenanceTypeOK /\ faults \in 0 .. MaxFaults
  BY DEF TypeOK, ServiceTypeOK, WorkerTypeOK, MaintenanceTypeOK
<1>2. MaintenanceIdle \in Maintenance
  BY CallersAssumption DEF MaintenanceIdle, Maintenance
<1>3. ASSUME CleanupClaim PROVE Typed
  <2>0. PICK S \in SUBSET Uploads :
          ClaimExpired(S) /\ mloop' = [mloop EXCEPT !.pc = "next", !.todo = S]
    BY <1>3 DEF CleanupClaim, DueBatches
  <2>1. RowTypeOK'
    BY <1>1, <2>0, ClaimExpiredWrites
  <2>2. StorageTypeOK'
    BY <1>1, <1>3, StorageType DEF CleanupClaim
  <2>3. MaintenanceTypeOK'
    BY <1>1, <1>2, <1>3, <2>0 DEF CleanupClaim, MaintenanceTypeOK, Maintenance, MaintenanceIdle
  <2>4. QED
    BY <1>1, <1>3, <2>1, <2>2, <2>3, FaultsType DEF CleanupClaim, service
<1>4. ASSUME CleanupNext PROVE Typed
  <2>1. RowTypeOK'
    BY <1>1, <1>4 DEF CleanupNext, RowTypeOK
  <2>2. StorageTypeOK'
    BY <1>1, <1>4, StorageType DEF CleanupNext
  <2>3. MaintenanceTypeOK'
    <3>1. CASE mloop' = [MaintenanceIdle EXCEPT !.pc = "reading"]
      BY <1>2, <3>1 DEF MaintenanceTypeOK, Maintenance, MaintenanceIdle
    <3>2. ASSUME NEW u \in mloop.todo, NEW pc \in {"abort", "retry"},
                 mloop' = [mloop EXCEPT !.pc = pc, !.todo = @ \ {u}, !.u = u,
                                        !.abortFailed = FALSE]
          PROVE MaintenanceTypeOK'
      <4> DEFINE m == [mloop EXCEPT !.pc = pc, !.todo = mloop.todo \ {u}, !.u = u,
                                    !.abortFailed = FALSE]
      <4>1. m \in Maintenance /\ m.u \in Uploads
        BY <1>1 DEF MaintenanceTypeOK, Maintenance
      <4>2. mloop' = m
        BY <3>2
      <4> HIDE DEF m
      <4>3. QED
        BY <4>1, <4>2 DEF MaintenanceTypeOK
    <3>3. QED
      BY <1>4, <3>1, <3>2 DEF CleanupNext
  <2>4. QED
    BY <1>1, <1>4, <2>1, <2>2, <2>3, FaultsType DEF CleanupNext, service
<1>5. ASSUME CleanupAbort PROVE Typed
  <2>1. RowTypeOK'
    BY <1>1, <1>5 DEF CleanupAbort, RowTypeOK
  <2>2. StorageTypeOK'
    BY <1>1, <1>5, StorageType DEF CleanupAbort
  <2>3. MaintenanceTypeOK'
    BY <1>1, <1>2, <1>5 DEF CleanupAbort, MGoto, MaintenanceTypeOK, Maintenance
  <2>4. QED
    BY <1>1, <1>5, <2>1, <2>2, <2>3, FaultsType DEF CleanupAbort, service
<1>6. ASSUME CleanupDelete PROVE Typed
  <2>1. RowTypeOK'
    BY <1>1, <1>6 DEF CleanupDelete, RowTypeOK
  <2>2. StorageTypeOK'
    BY <1>1, <1>6, StorageType DEF CleanupDelete
  <2>3. MaintenanceTypeOK'
    BY <1>1, <1>2, <1>6 DEF CleanupDelete, AfterDeletion, MGoto, MaintenanceTypeOK, Maintenance
  <2>4. QED
    BY <1>1, <1>6, <2>1, <2>2, <2>3, FaultsType DEF CleanupDelete, service
<1>7. ASSUME CleanupFinish PROVE Typed
  <2>1. RowTypeOK'
    BY <1>1, <1>7, RowsType DEF CleanupFinish, MaintenanceTypeOK
  <2>2. StorageTypeOK'
    BY <1>1, <1>7, StorageType DEF CleanupFinish
  <2>3. MaintenanceTypeOK'
    BY <1>1, <1>2, <1>7 DEF CleanupFinish, MGoto, MaintenanceTypeOK, Maintenance
  <2>4. QED
    BY <1>1, <1>7, <2>1, <2>2, <2>3, FaultsType DEF CleanupFinish, service
<1>8. ASSUME CleanupRetry PROVE Typed
  <2>1. RowTypeOK'
    BY <1>1, <1>8, RowsType DEF CleanupRetry, MaintenanceTypeOK
  <2>2. StorageTypeOK'
    BY <1>1, <1>8, StorageType DEF CleanupRetry
  <2>3. MaintenanceTypeOK'
    BY <1>1, <1>2, <1>8 DEF CleanupRetry, MGoto, MaintenanceTypeOK, Maintenance, MaintenanceIdle
  <2>4. QED
    BY <1>1, <1>8, <2>1, <2>2, <2>3, FaultsType DEF CleanupRetry, service
<1>9. ASSUME ReconcileList PROVE Typed
  <2>1. RowTypeOK'
    BY <1>1, <1>9 DEF ReconcileList, RowTypeOK
  <2>2. StorageTypeOK'
    BY <1>1, <1>9, StorageType DEF ReconcileList
  <2>3. MaintenanceTypeOK'
    BY <1>1, <1>2, <1>9 DEF ReconcileList, MaintenanceTypeOK, Maintenance, MaintenanceIdle
  <2>4. QED
    BY <1>1, <1>9, <2>1, <2>2, <2>3, FaultsType DEF ReconcileList, service
<1>10. ASSUME ReconcileReference PROVE Typed
  <2>1. RowTypeOK'
    BY <1>1, <1>10 DEF ReconcileReference, RowTypeOK
  <2>2. StorageTypeOK'
    BY <1>1, <1>10, StorageType DEF ReconcileReference
  <2>3. MaintenanceTypeOK'
    BY <1>1, <1>2, <1>10 DEF ReconcileReference, ProviderUploadIds, MaintenanceTypeOK, Maintenance
  <2>4. QED
    BY <1>1, <1>10, <2>1, <2>2, <2>3, FaultsType DEF ReconcileReference, service
<1>11. ASSUME ReconcileFail PROVE Typed
  <2>1. RowTypeOK'
    BY <1>1, <1>11 DEF ReconcileFail, RowTypeOK
  <2>2. StorageTypeOK'
    BY <1>1, <1>11, StorageType DEF ReconcileFail
  <2>3. MaintenanceTypeOK'
    BY <1>1, <1>2, <1>11 DEF ReconcileFail, MaintenanceTypeOK, Maintenance, MaintenanceIdle
  <2>4. QED
    BY <1>1, <1>11, <2>1, <2>2, <2>3, FaultsType DEF ReconcileFail, service
<1>12. ASSUME ReconcileCutoff PROVE Typed
  <2>1. RowTypeOK'
    BY <1>1, <1>12 DEF ReconcileCutoff, RowTypeOK
  <2>2. StorageTypeOK'
    BY <1>1, <1>12, StorageType DEF ReconcileCutoff
  <2>3. MaintenanceTypeOK'
    <3> DEFINE m == [MaintenanceIdle EXCEPT !.pc = "sweep", !.todo = Orphans]
    <3>1. Orphans \subseteq Uploads
      BY <1>1 DEF Orphans, MaintenanceTypeOK, Maintenance
    <3>2. m \in Maintenance /\ m.pc = "sweep"
      BY <1>2, <3>1 DEF Maintenance
    <3>3. mloop' = m
      BY <1>12 DEF ReconcileCutoff
    <3> HIDE DEF m
    <3>4. QED
      BY <3>2, <3>3 DEF MaintenanceTypeOK
  <2>4. QED
    BY <1>1, <1>12, <2>1, <2>2, <2>3, FaultsType DEF ReconcileCutoff, service
<1>13. ASSUME ReconcileAbort PROVE Typed
  <2>1. RowTypeOK'
    BY <1>1, <1>13 DEF ReconcileAbort, RowTypeOK
  <2>2. StorageTypeOK'
    BY <1>1, <1>13, StorageType DEF ReconcileAbort
  <2>3. MaintenanceTypeOK'
    BY <1>1, <1>2, <1>13 DEF ReconcileAbort, MaintenanceTypeOK, Maintenance, MaintenanceIdle
  <2>4. QED
    BY <1>1, <1>13, <2>1, <2>2, <2>3, FaultsType DEF ReconcileAbort, service
<1>14. QED
  BY <1>3, <1>4, <1>5, <1>6, <1>7, <1>8, <1>9, <1>10, <1>11, <1>12, <1>13 DEF MaintenanceStep

\* The verification loop and a crash of the worker.
LEMMA WorkerType ==
  ASSUME TypeOK, WorkerNext
  PROVE  TypeOK'
<1>1. /\ RowTypeOK /\ StorageTypeOK /\ LoopTypeOK /\ task \subseteq Task /\ MaintenanceTypeOK
      /\ RequestsTypeOK /\ granted \subseteq Uploads /\ preverify \in BOOLEAN
      /\ faults \in 0 .. MaxFaults
  BY DEF TypeOK, ServiceTypeOK, RequestsTypeOK, WorkerTypeOK, LoopTypeOK, MaintenanceTypeOK
<1>2. ASSUME RowTypeOK', StorageTypeOK', LoopTypeOK', task' \subseteq Task,
             MaintenanceTypeOK', faults' \in 0 .. MaxFaults,
             UNCHANGED <<req, granted, preverify>>
      PROVE  TypeOK'
  BY <1>1, <1>2 DEF TypeOK, ServiceTypeOK, RequestsTypeOK, WorkerTypeOK, LoopTypeOK,
                    MaintenanceTypeOK, At
<1>3. UNCHANGED mloop => MaintenanceTypeOK'
  BY <1>1 DEF MaintenanceTypeOK
<1>4. UNCHANGED <<row, provider>> => RowTypeOK' /\ StorageTypeOK'
  BY <1>1, StorageType DEF RowTypeOK
<1>5. CASE VerificationRead
  <2>1. LoopTypeOK'
    BY <1>1, <1>5 DEF VerificationRead, LoopTypeOK
  <2>2. QED
    BY <1>1, <1>2, <1>3, <1>4, <1>5, <2>1 DEF VerificationRead, service
<1>6. CASE VerificationClaim
  <2>1. PICK S \in VerificationBatches(vloop.includeStored, VerifyLimit) :
          ClaimForVerification(S) /\ task' = task \cup {NewTask(u) : u \in S}
    BY <1>6 DEF VerificationClaim
  <2>2. S \subseteq Uploads
    BY DEF VerificationBatches
  <2>3. RowTypeOK'
    BY <1>1, <2>1, ClaimForVerificationWrites
  <2>4. \A u \in S : NewTask(u) \in Task
    <3> TAKE u \in S
    <3>1. row[u].attempts \in Nat
      BY <1>1, <2>2 DEF RowTypeOK, Row
    <3>2. QED
      BY <2>2, <3>1, WorkerAssumption DEF NewTask, Task, Leased, Streaming
  <2>5. LoopTypeOK'
    BY <1>6 DEF VerificationClaim, LoopTypeOK
  <2>6. StorageTypeOK'
    BY <1>1, <1>6, StorageType DEF VerificationClaim
  <2>7. QED
    BY <1>1, <1>2, <1>3, <1>6, <2>1, <2>3, <2>4, <2>5, <2>6 DEF VerificationClaim, service
<1>7. CASE VerificationJoin
  <2>1. LoopTypeOK'
    BY <1>1, <1>7 DEF VerificationJoin, LoopTypeOK
  <2>2. QED
    BY <1>1, <1>2, <1>3, <1>4, <1>7, <2>1 DEF VerificationJoin, service
<1>8. ASSUME NEW t \in task, TaskStep(t) PROVE TypeOK'
  BY <1>2, <1>3, <1>8, TaskStepType
<1>9. CASE MaintenanceStep
  BY <1>1, <1>2, <1>9, MaintenanceStepType DEF LoopTypeOK
<1>10. CASE WorkerCrash
  <2>1. LoopTypeOK' /\ task' \subseteq Task
    BY <1>10 DEF WorkerCrash, LoopTypeOK, VLoopIdle
  <2>2. MaintenanceTypeOK'
    BY <1>10, CallersAssumption DEF WorkerCrash, MaintenanceTypeOK, MaintenanceIdle, Maintenance
  <2>3. QED
    BY <1>1, <1>2, <1>4, <1>10, <2>1, <2>2, FaultsType DEF WorkerCrash, service
<1>11. QED
  BY <1>5, <1>6, <1>7, <1>8, <1>9, <1>10 DEF WorkerNext, VerificationStep

(***************************************************************************)
(* The clock, the bucket's late completion, and the whole.                 *)
(***************************************************************************)

\* Time keeps everything typed: the guards of Tick stop it at each timer.
LEMMA TickType ==
  ASSUME TypeOK, Tick
  PROVE  TypeOK'
<1>1. /\ RowTypeOK /\ StorageTypeOK /\ ServiceTypeOK /\ WorkerTypeOK
  BY DEF TypeOK
<1>2. RowTypeOK'
  <2>1. \A u \in Uploads : Older(row[u]) \in Row
    BY <1>1, OlderRow DEF RowTypeOK
  <2>2. QED
    BY <2>1 DEF Tick, RowTypeOK
<1>3. StorageTypeOK'
  <2>1. \A u \in Uploads : UpTo(sessionAge[u], UploadWindow) \in 0 .. UploadWindow
    BY <1>1, Times DEF UpTo, StorageTypeOK
  <2>2. sessionAge' \in [Uploads -> 0 .. UploadWindow]
    BY <1>1, <2>1 DEF Tick, StorageTypeOK
  <2>3. QED
    BY <1>1, <2>2 DEF Tick, StorageTypeOK
<1>4. ServiceTypeOK'
  <2> DEFINE older(c) == [req[c] EXCEPT !.age = @ + 1]
             next(c)  == [older(c) EXCEPT !.deadline = Down(@)]
  <2>1. ASSUME NEW c \in Callers, ~At(c, "idle")
        PROVE  older(c) \in Request /\ older(c).u = req[c].u /\ older(c).pc = req[c].pc
    <3>1. req[c] \in Request /\ req[c].age < CallTime
      BY <1>1, <2>1 DEF Tick, ServiceTypeOK
    <3>2. req[c].age + 1 \in 0 .. CallTime
      BY <3>1, CallersAssumption DEF Request
    <3>3. QED
      BY <3>1, <3>2 DEF Request
  <2>2. ASSUME NEW c \in Callers, ~At(c, "idle")
        PROVE  next(c) \in Request /\ next(c).u = req[c].u /\ next(c).pc = req[c].pc
    <3> DEFINE o == older(c)
    <3>1. o \in Request /\ o.u = req[c].u /\ o.pc = req[c].pc
      BY <2>1, <2>2
    <3> HIDE DEF o
    <3>2. /\ [o EXCEPT !.deadline = Down(@)] \in Request
          /\ [o EXCEPT !.deadline = Down(@)].u = req[c].u
          /\ [o EXCEPT !.deadline = Down(@)].pc = req[c].pc
      BY <3>1, Times DEF Request, Down
    <3>3. QED
      BY <3>2 DEF o
  <2>3. req' = [c \in Callers |-> IF At(c, "idle") THEN req[c] ELSE next(c)]
    BY Zenon DEF Tick
  <2> HIDE DEF next
  <2>4. QED
    BY <1>1, <2>2, <2>3 DEF Tick, ServiceTypeOK, At
<1>5. WorkerTypeOK'
  <2>1. task' \subseteq Task
    <3>1. ASSUME NEW t \in task, t.pc \in Leased PROVE [t EXCEPT !.age = @ + 1] \in Task
      <4>1. t \in Task /\ t.age < VerifyDeadline
        BY <1>1, <3>1 DEF Tick, WorkerTypeOK
      <4>2. t.age + 1 \in 0 .. VerifyDeadline
        BY <4>1, WorkerAssumption DEF Task
      <4>3. QED
        BY <4>1, <4>2 DEF Task
    <3>2. QED
      BY <1>1, <3>1 DEF Tick, WorkerTypeOK
  <2>2. mloop' \in Maintenance /\ mloop'.pc = mloop.pc /\ mloop'.u = mloop.u
    <3>1. mloop \in Maintenance /\ (mloop.pc = "reading" => mloop.age < CallTime)
      BY <1>1 DEF Tick, WorkerTypeOK
    <3>2. (IF mloop.pc = "reading" THEN mloop.age + 1 ELSE mloop.age) \in 0 .. CallTime
      BY <3>1, CallersAssumption DEF Maintenance
    <3>3. QED
      BY <3>1, <3>2 DEF Tick, Maintenance
  <2>3. QED
    BY <1>1, <2>1, <2>2 DEF Tick, WorkerTypeOK
<1>6. QED
  BY <1>2, <1>3, <1>4, <1>5 DEF TypeOK

\* TypeOK is inductive.
LEMMA TypeStep == TypeOK /\ [Next]_vars => TypeOK'
<1> SUFFICES ASSUME TypeOK, [Next]_vars PROVE TypeOK'
  OBVIOUS
<1>1. CASE ServiceNext /\ UNCHANGED worker
  BY <1>1, ServiceType
<1>2. CASE WorkerNext
  BY <1>2, WorkerType
<1>3. CASE Tick
  BY <1>3, TickType
<1>4. ASSUME NEW u \in Uploads, LateCompletion(u) PROVE TypeOK'
  <2>1. StorageTypeOK'
    BY <1>4, StorageType DEF LateCompletion, TypeOK
  <2>2. QED
    BY <1>4, <2>1 DEF LateCompletion, TypeOK, RowTypeOK, ServiceTypeOK, WorkerTypeOK,
                      service, worker, At
<1>5. CASE UNCHANGED vars
  BY <1>5 DEF vars, TypeOK, RowTypeOK, StorageTypeOK, ServiceTypeOK, WorkerTypeOK, At
<1>6. QED
  BY <1>1, <1>2, <1>3, <1>4, <1>5 DEF Next

\* The initial states are typed.
LEMMA TypeInit == Init => TypeOK
<1> SUFFICES ASSUME Init PROVE TypeOK
  OBVIOUS
<1>1. RowTypeOK
  BY InitialRows DEF Init, RowInit, RowTypeOK
<1>2. StorageTypeOK
  BY Times DEF Init, StorageInit, StorageTypeOK, Session
<1>3. ServiceTypeOK
  <2>1. Idle \in Request /\ Idle.pc = "idle"
    BY Times, CallersAssumption DEF Idle, Request, Awaiting
  <2>2. QED
    BY <2>1, CallersAssumption DEF Init, ServiceInit, ServiceTypeOK, At
<1>4. WorkerTypeOK
  BY CallersAssumption DEF Init, WorkerInit, WorkerTypeOK, VLoopIdle, MaintenanceIdle, Maintenance
<1>5. QED
  BY <1>1, <1>2, <1>3, <1>4 DEF TypeOK

\* Every reachable state of rows, bucket, requests and worker is typed,
\* whatever the leases, limits and number of uploads and callers.
THEOREM TypeCorrect == Spec => []TypeOK
BY TypeInit, TypeStep, PTL DEF Spec
=============================================================================
