---------------------------- MODULE ArchiveProofs ----------------------------
(***************************************************************************)
(* ArchiveInv is an invariant of Diagnostics, and with it the safety of    *)
(* archives, for every set of uploads and callers, every ordering of the   *)
(* leases and every number of errors and crashes.                          *)
(***************************************************************************)
EXTENDS ArchiveInvariant, DiagnosticsProofs

USE DEF Receiving, Stored, Discarded, Gone, Status, NoDeadline
USE DEF InDoubt, InDoubtAtBucket, RetryOrExpire, Reschedule

(***************************************************************************)
(* What a step does to a request.                                          *)
(***************************************************************************)
Moved(c, pc, u, prov, seen) ==
  /\ req'[c].pc = pc /\ req'[c].u = u /\ req'[c].prov = prov /\ req'[c].seen = seen
  /\ \A d \in Callers \ {c} : req'[d] = req[d]

Ended(c) == req'[c].pc = "idle" /\ \A d \in Callers \ {c} : req'[d] = req[d]

\* A request goes on, begins or ends alone.
LEMMA RequestMoves ==
  ASSUME RequestsTypeOK, NEW c \in Callers
  PROVE  /\ \A pc : Goto(c, pc) => Moved(c, pc, req[c].u, req[c].prov, req[c].seen)
         /\ \A pc, u, fields : fields \in Request /\ Start(c, pc, u, fields) =>
              Moved(c, pc, u, fields.prov, fields.seen)
         /\ Finish(c) => Ended(c)
<1>1. ASSUME NEW pc, Goto(c, pc) PROVE Moved(c, pc, req[c].u, req[c].prov, req[c].seen)
  BY <1>1 DEF RequestsTypeOK, Goto, Moved, Request
<1>2. ASSUME NEW pc, NEW u, NEW fields \in Request, Start(c, pc, u, fields)
      PROVE  Moved(c, pc, u, fields.prov, fields.seen)
  <2> DEFINE started == [fields EXCEPT !.pc = pc, !.u = u]
  <2>1. /\ started.pc = pc /\ started.u = u
        /\ started.prov = fields.prov /\ started.seen = fields.seen
    BY DEF Request
  <2>2. req' = [req EXCEPT ![c] = started]
    BY <1>2 DEF Start
  <2> HIDE DEF started
  <2>3. QED
    BY <2>1, <2>2 DEF RequestsTypeOK, Moved
<1>3. Finish(c) => Ended(c)
  BY DEF RequestsTypeOK, Finish, Ended, Idle
<1>4. QED
  BY <1>1, <1>2, <1>3

(***************************************************************************)
(* Most steps disturb no part of the invariant: what they write stays      *)
(* within these bounds.  (P is the provider_upload_id of an archive.)      *)
(***************************************************************************)

\* A status stays, is discarded, moves on among the stored ones, or becomes
\* a tombstone once nothing is left.
RowCalm(u) ==
  \/ /\ row'[u].status = row[u].status
     /\ row[u].providerId => row'[u].providerId
  \/ /\ row[u].status \notin {"Absent"} \cup Gone /\ row'[u].status \in Discarded
     /\ row'[u].providerId = row[u].providerId
  \/ /\ row[u].status \in Stored /\ row'[u].status \in Stored \ {"Accepted"}
     /\ row'[u].providerId = row[u].providerId
  \/ /\ row[u].status \in Discarded /\ row'[u].status \in Gone
     /\ object[u] = "none" /\ ~Completable(u)

RowsCalm == \A u \in Uploads : RowCalm(u)

\* Sessions are only aborted, objects only deleted once they are given up.
BucketCalm ==
  /\ \A u \in Uploads :
       \/ session'[u] = session[u]
       \/ session[u] \in {"open", "completing"} /\ session'[u] = "aborted"
  /\ \A u \in Uploads :
       \/ object'[u] = object[u]
       \/ object'[u] = "none" /\ row[u].status \in Dead

\* Requests end, go on to a compensation, or begin with a read that gives
\* no right to complete.
RequestCalm(c) ==
  \/ req'[c] = req[c]
  \/ req'[c].pc = "idle"
  \/ /\ ~At(c, "idle") /\ req'[c].u = req[c].u
     /\ req'[c].pc \in {"abort", "unregister", "fail"}
  \/ /\ row[req'[c].u].status # "Absent"
     /\ req'[c].pc \in {"grant", "queue", "discard"}
     /\ req'[c].pc = "discard" => req'[c].seen \in Deletable

RequestsCalm == /\ granted' = granted
                /\ \A c \in Callers : RequestCalm(c)

\* Verifications end or go back to a stage that has decided nothing.
TasksCalm ==
  \A t \in task' : \E s \in task :
    s.u = t.u /\ (s.pc = t.pc \/ t.pc \in {"opening", "rejecting", "retrying"})

\* The maintenance loop stays, leaves the cleanup, or goes on with its batch.
Cleaning == {"next", "abort", "delete", "finish", "retry"}

MaintenanceCalm ==
  \/ mloop'.pc \notin Cleaning
  \/ /\ mloop'.pc = mloop.pc /\ mloop'.todo = mloop.todo /\ mloop'.u = mloop.u
     /\ mloop'.abortFailed = mloop.abortFailed
  \/ mloop.pc \in Cleaning /\ mloop'.pc = "next" /\ mloop'.todo = mloop.todo
  \/ /\ mloop.pc \in Cleaning \ {"next"} /\ mloop'.pc = "retry"
     /\ mloop'.todo = mloop.todo /\ mloop'.u = mloop.u

\* The types the lemmas below draw on.
LEMMA Types ==
  ASSUME TypeOK
  PROVE  /\ RowTypeOK /\ StorageTypeOK /\ RequestsTypeOK /\ MaintenanceTypeOK
         /\ granted \subseteq Uploads /\ task \subseteq Task
         /\ \A t \in task : t.u \in Uploads
         /\ \A c \in Callers : ~At(c, "idle") => req[c].u \in Uploads
         /\ mloop.todo \subseteq Uploads
         /\ mloop.pc \in Cleaning \ {"next"} => mloop.u \in Uploads
BY DEF TypeOK, ServiceTypeOK, RequestsTypeOK, WorkerTypeOK, MaintenanceTypeOK, Task,
       Maintenance, Cleaning

\* Calm requests and sessions make no new completion possible.
LEMMA CompletableKept ==
  ASSUME BucketCalm, RequestsCalm, NEW u \in Uploads, ~Completable(u)
  PROVE  ~Completable(u)'
BY DEF BucketCalm, RequestsCalm, RequestCalm, Completable, At

\* A calm step keeps what is known of unannounced uploads, ...
LEMMA AbsentKept ==
  ASSUME ArchiveInv, TypeOK', RowsCalm, BucketCalm, RequestsCalm
  PROVE  AbsentInv'
BY Types DEF ArchiveInv, AbsentInv, RowsCalm, RowCalm, BucketCalm, RequestsCalm, RequestCalm, At

\* ... of creations, ...
LEMMA CreationKept ==
  ASSUME ArchiveInv, TypeOK', BucketCalm, RequestsCalm
  PROVE  CreationInv'
<1>1. \A c \in Callers : req'[c].pc \in {"begin", "register"} => req'[c] = req[c]
  BY DEF RequestsCalm, RequestCalm
<1>2. QED
  BY <1>1, Types DEF ArchiveInv, CreationInv, BucketCalm, RequestsCalm, At

\* ... of completions, ...
LEMMA CompletionKept ==
  ASSUME ArchiveInv, TypeOK', RowsCalm, BucketCalm, RequestsCalm
  PROVE  CompletionInv'
<1>1. \A c \in Callers : req'[c].pc \in {"claim", "provider", "head", "finish"}
                           => req'[c] = req[c] /\ req[c].u \in Uploads
  BY Types DEF RequestsCalm, RequestCalm, ArchiveInv, At
<1>2. \A c \in Callers : At(c, "discard")' => req'[c].seen \in Deletable
  BY DEF RequestsCalm, RequestCalm, ArchiveInv, CompletionInv, At
<1>3. \A u \in Uploads : session'[u] = "completing" =>
        row'[u].providerId /\ row'[u].status \notin {"Absent", "Uploading"}
  BY DEF RowsCalm, RowCalm, BucketCalm, Completable, ArchiveInv, CompletionInv
<1>4. ASSUME NEW c \in Callers
      PROVE  /\ req'[c].pc \in {"claim", "provider", "head", "finish"} => req'[c].u \in granted'
             /\ req'[c].pc \in {"provider", "head", "finish"}
                  => row'[req'[c].u].status \notin {"Absent", "Uploading"}
             /\ req'[c].pc \in {"head", "finish"} => session'[req'[c].u] = "completed"
  BY <1>1 DEF RowsCalm, RowCalm, BucketCalm, RequestsCalm, ArchiveInv, CompletionInv, BytesInv
<1>5. ASSUME NEW c \in Callers
      PROVE  /\ At(c, "claim")' /\ req'[c].prov /\ row'[req'[c].u].status = "Uploading"
                  => row'[req'[c].u].providerId
             /\ At(c, "provider")' /\ session'[req'[c].u] = "open"
                  => row'[req'[c].u].providerId
             /\ At(c, "finish")' /\ row'[req'[c].u].status = "Completing"
                  => object'[req'[c].u] # "none"
  BY <1>1 DEF RowsCalm, RowCalm, BucketCalm, RequestsCalm, ArchiveInv, CompletionInv,
              Completable, Dead, At
<1>6. QED
  BY <1>2, <1>3, <1>4, <1>5 DEF CompletionInv

\* ... of the bytes, ...
LEMMA BytesKept ==
  ASSUME ArchiveInv, TypeOK', RowsCalm, BucketCalm, RequestsCalm
  PROVE  BytesInv'
<1> SUFFICES ASSUME NEW u \in Uploads
             PROVE  /\ session'[u] # "completed" => object'[u] = "none"
                    /\ row'[u].status \in Stored => session'[u] = "completed" /\ object'[u] # "none"
                    /\ row'[u].status = "Accepted" => object'[u] = "intact"
                    /\ row'[u].status \in Gone => object'[u] = "none" /\ ~Completable(u)'
  BY DEF BytesInv
<1>1. ~Completable(u) => ~Completable(u)'
  BY CompletableKept
<1>2. QED
  BY <1>1 DEF RowsCalm, RowCalm, BucketCalm, ArchiveInv, BytesInv, Dead

\* ... of verifications ...
LEMMA VerificationKept ==
  ASSUME ArchiveInv, TypeOK', RowsCalm, BucketCalm, TasksCalm
  PROVE  VerificationInv'
<1> SUFFICES ASSUME NEW t \in task'
             PROVE  /\ session'[t.u] = "completed"
                    /\ t.pc = "accepting" => object'[t.u] = "intact" \/ row'[t.u].status \in Dead
                    /\ t.pc \in {"removing", "invalidating", "rescheduling"}
                         => row'[t.u].status \in Dead
                    /\ t.pc = "invalidating" => object'[t.u] = "none"
  BY DEF VerificationInv
<1>1. PICK s \in task : s.u = t.u /\ (s.pc = t.pc \/ t.pc \in {"opening", "rejecting", "retrying"})
  BY DEF TasksCalm
<1>2. s.u \in Uploads
  BY Types DEF ArchiveInv
<1>3. QED
  BY <1>1, <1>2 DEF RowsCalm, RowCalm, BucketCalm, ArchiveInv, VerificationInv, Dead

\* ... and of the cleanup.
LEMMA CleanupKept ==
  ASSUME ArchiveInv, TypeOK', RowsCalm, BucketCalm, RequestsCalm, MaintenanceCalm
  PROVE  CleanupInv'
<1>1. \A u \in Uploads : row[u].status \in Dead => row'[u].status \in Dead
  BY DEF RowsCalm, RowCalm, Dead
<1>2. \A u \in Uploads : ~Completable(u) => ~Completable(u)'
  BY CompletableKept
<1>3. /\ mloop.todo \subseteq Uploads
      /\ mloop.pc \in Cleaning \ {"next"} => mloop.u \in Uploads
  BY Types DEF ArchiveInv
<1>4. CASE mloop'.pc \notin Cleaning
  BY <1>4 DEF CleanupInv, Cleaning
<1>5. CASE /\ mloop'.pc = mloop.pc /\ mloop'.todo = mloop.todo /\ mloop'.u = mloop.u
           /\ mloop'.abortFailed = mloop.abortFailed
  BY <1>1, <1>2, <1>3, <1>5 DEF ArchiveInv, CleanupInv, BucketCalm, Cleaning, Completable, At
<1>6. CASE mloop.pc \in Cleaning /\ mloop'.pc = "next" /\ mloop'.todo = mloop.todo
  BY <1>1, <1>3, <1>6 DEF ArchiveInv, CleanupInv, Cleaning
<1>7. CASE /\ mloop.pc \in Cleaning \ {"next"} /\ mloop'.pc = "retry"
           /\ mloop'.todo = mloop.todo /\ mloop'.u = mloop.u
  BY <1>1, <1>3, <1>7 DEF ArchiveInv, CleanupInv, Cleaning
<1>8. QED
  BY <1>4, <1>5, <1>6, <1>7 DEF MaintenanceCalm

\* Together:
LEMMA CalmKept ==
  ASSUME ArchiveInv, TypeOK', RowsCalm, BucketCalm, RequestsCalm, TasksCalm, MaintenanceCalm
  PROVE  ArchiveInv'
BY AbsentKept, CreationKept, CompletionKept, BytesKept, VerificationKept, CleanupKept
   DEF ArchiveInv

\* What does not change is calm.
LEMMA UnchangedCalm ==
  /\ UNCHANGED row => RowsCalm
  /\ UNCHANGED provider => BucketCalm
  /\ UNCHANGED <<req, granted>> => RequestsCalm
  /\ UNCHANGED task => TasksCalm
  /\ UNCHANGED mloop => MaintenanceCalm
BY DEF RowsCalm, RowCalm, provider, BucketCalm, RequestsCalm, RequestCalm, TasksCalm,
       MaintenanceCalm

\* A statement on one row is calm if its row is.
LEMMA WroteCalm ==
  ASSUME RowTypeOK, NEW u \in Uploads, NEW s, NEW p, Wrote(u, s, p),
         \/ s = row[u].status /\ (row[u].providerId => p)
         \/ /\ row[u].status \notin {"Absent"} \cup Gone /\ s \in Discarded
            /\ p = row[u].providerId
         \/ /\ row[u].status \in Stored /\ s \in Stored \ {"Accepted"}
            /\ p = row[u].providerId
         \/ /\ row[u].status \in Discarded /\ s \in Gone
            /\ object[u] = "none" /\ ~Completable(u)
  PROVE  RowsCalm
<1>1. RowCalm(u)
  BY DEF Wrote, RowCalm
<1>2. \A v \in Uploads \ {u} : RowCalm(v)
  BY DEF Wrote, RowCalm
<1>3. QED
  BY <1>1, <1>2 DEF RowsCalm

\* An aborted session was not completed.
LEMMA AbortCalm ==
  ASSUME StorageTypeOK, NEW u \in Uploads, AbortSession(u)
  PROVE  BucketCalm
BY DEF AbortSession, StorageTypeOK, BucketCalm, Unfinished

(***************************************************************************)
(* The requests.                                                           *)
(***************************************************************************)

\* A request that ends or turns to its compensation is calm, and so is a
\* request that begins without a right to complete.
LEMMA MovedCalm ==
  ASSUME granted' = granted, NEW c \in Callers
  PROVE  /\ Ended(c) => RequestsCalm
         /\ \A pc, prov, seen :
              /\ ~At(c, "idle") /\ pc \in {"abort", "unregister", "fail"}
              /\ Moved(c, pc, req[c].u, prov, seen)
              => RequestsCalm
         /\ \A pc, u, prov, seen :
              /\ row[u].status # "Absent" /\ pc \in {"grant", "queue", "discard"}
              /\ pc = "discard" => seen \in Deletable
              /\ Moved(c, pc, u, prov, seen)
              => RequestsCalm
BY DEF Ended, Moved, RequestsCalm, RequestCalm

\* The steps of requests that disturb nothing.
LEMMA QuietRequestStep ==
  ASSUME ArchiveInv, TypeOK', NEW c \in Callers, UNCHANGED worker,
         \/ CreateAbort(c) \/ CreateUnregister(c) \/ PartUrlGrant(c) \/ CompleteFail(c)
         \/ ModerateDelete(c) \/ DownloadQueue(c)
  PROVE  ArchiveInv'
<1> DEFINE u == req[c].u
<1>1. /\ RowTypeOK /\ StorageTypeOK /\ RequestsTypeOK
      /\ ~At(c, "idle") => u \in Uploads
  BY Types DEF ArchiveInv
<1>2. TasksCalm /\ MaintenanceCalm
  BY UnchangedCalm DEF worker
<1>3. ~At(c, "idle") /\ u \in Uploads /\ granted' = granted
  BY <1>1 DEF CreateAbort, CreateUnregister, PartUrlGrant, CompleteFail, ModerateDelete,
              DownloadQueue, At
<1>4. row[u].status # "Absent"
  BY <1>3 DEF ArchiveInv, AbsentInv
<1>5. RequestsCalm
  BY <1>1, <1>3, RequestMoves, MovedCalm
     DEF CreateAbort, CreateUnregister, PartUrlGrant, CompleteFail, ModerateDelete,
         DownloadQueue
<1>6. BucketCalm
  BY <1>1, <1>3, AbortCalm, UnchangedCalm
     DEF CreateAbort, CreateUnregister, PartUrlGrant, CompleteFail, ModerateDelete,
         DownloadQueue
<1>7. RowsCalm
  <2>1. UNCHANGED row => RowsCalm
    BY UnchangedCalm
  <2>2. CASE CreateAbort(c)
    BY <2>1, <2>2 DEF CreateAbort
  <2>3. CASE CreateUnregister(c)
    <3>1. CASE Transition(u, "Failed") /\ In(u, {"Uploading"})
      <4>1. Wrote(u, "Failed", row[u].providerId)
        BY <1>1, <1>3, <3>1, StatementsWrite
      <4>2. QED
        BY <1>1, <1>3, <3>1, <4>1, WroteCalm DEF In
    <3>2. QED
      BY <2>1, <2>3, <3>1 DEF CreateUnregister
  <2>4. CASE PartUrlGrant(c)
    <3>1. ASSUME NEW all \in BOOLEAN, RegisterPartGrant(u, all) PROVE RowsCalm
      <4>1. Wrote(u, row[u].status, row[u].providerId)
        BY <1>1, <1>3, <3>1, StatementsWrite
      <4>2. QED
        BY <1>1, <1>3, <4>1, WroteCalm
    <3>2. QED
      BY <2>1, <2>4, <3>1 DEF PartUrlGrant
  <2>5. CASE CompleteFail(c)
    <3>1. CASE Transition(u, "Failed") /\ In(u, {"Completing"})
      <4>1. Wrote(u, "Failed", row[u].providerId)
        BY <1>1, <1>3, <3>1, StatementsWrite
      <4>2. QED
        BY <1>1, <1>3, <3>1, <4>1, WroteCalm DEF In
    <3>2. QED
      BY <2>1, <2>5, <3>1 DEF CompleteFail
  <2>6. CASE ModerateDelete(c)
    <3>1. req[c].seen \in Deletable
      BY <2>6 DEF ArchiveInv, CompletionInv, ModerateDelete
    <3>2. CASE Transition(u, "Expired") /\ In(u, {req[c].seen})
      <4>1. Wrote(u, "Expired", row[u].providerId)
        BY <1>1, <1>3, <3>2, StatementsWrite
      <4>2. row[u].status \notin {"Absent"} \cup Gone
        BY <3>1, <3>2 DEF In, Deletable
      <4>3. QED
        BY <1>1, <1>3, <4>1, <4>2, WroteCalm
    <3>3. QED
      BY <2>1, <2>6, <3>2 DEF ModerateDelete
  <2>7. CASE DownloadQueue(c)
    <3>1. req[c].deadline \in -1 .. VerifyLifetime
      BY <1>1 DEF RequestsTypeOK, Request
    <3>2. CASE TransitionDeadline(u, "Verifying", req[c].deadline) /\ In(u, {"Pending"})
      <4>1. Wrote(u, "Verifying", row[u].providerId)
        BY <1>1, <1>3, <3>1, <3>2, StatementsWrite
      <4>2. QED
        BY <1>1, <1>3, <3>2, <4>1, WroteCalm DEF In
    <3>3. QED
      BY <2>1, <2>7, <3>2 DEF DownloadQueue
  <2>8. QED
    BY <2>2, <2>3, <2>4, <2>5, <2>6, <2>7
<1>8. QED
  BY <1>2, <1>5, <1>6, <1>7, CalmKept

\* A new row is the creator's alone, and eviction only discards.
LEMMA CreateInsertKeeps ==
  ASSUME ArchiveInv, TypeOK', NEW c \in Callers, NEW u \in Uploads, UNCHANGED worker,
         CreateInsert(c, u)
  PROVE  ArchiveInv'
<1>1. /\ RowTypeOK /\ StorageTypeOK /\ RequestsTypeOK
      /\ row[u].status = "Absent" /\ session[u] = "none" /\ u \notin granted /\ object[u] = "none"
      /\ \A d \in Callers : ~At(d, "idle") => req[d].u # u /\ req[d].u \in Uploads
  BY Types DEF ArchiveInv, AbsentInv, BytesInv, CreateInsert, In
<1>2. Moved(c, "begin", u, FALSE, "Absent")
  <2>1. Idle \in Request /\ Idle.prov = FALSE /\ Idle.seen = "Absent"
    BY Times, CallersAssumption DEF Idle, Request, Awaiting
  <2>2. QED
    BY <1>1, <2>1, RequestMoves DEF CreateInsert
<1>3. /\ row'[u].status = "Uploading"
      /\ \A v \in Uploads \ {u} : RowCalm(v)
  <2>1. PICK E \in SUBSET {v \in Uploads : Evictable(v)} : InsertWithinQuota(u, E)
    BY DEF CreateInsert
  <2>2. QED
    BY <1>1, <2>1, InsertWrites DEF RowCalm, Evictable
<1>4. UNCHANGED <<object, session, granted, vloop, task, mloop>>
  BY DEF CreateInsert, provider, worker
<1>5. \A v \in Uploads : session[v] = "completed" \/ row[v].status \in Dead => v # u
  BY <1>1 DEF Dead
<1>6. AbsentInv'
  BY <1>1, <1>2, <1>3, <1>4 DEF ArchiveInv, AbsentInv, RowCalm, Moved, At
<1>7. CreationInv'
  BY <1>1, <1>2, <1>4 DEF ArchiveInv, CreationInv, Moved, At
<1>8. CompletionInv'
  BY <1>1, <1>2, <1>3, <1>4 DEF ArchiveInv, CompletionInv, RowCalm, Moved, At, Completable
<1>9. \A v \in Uploads : ~Completable(v) => ~Completable(v)'
  BY <1>2, <1>4 DEF Completable, Moved, At
<1>10. BytesInv'
  BY <1>1, <1>3, <1>4, <1>9 DEF ArchiveInv, BytesInv, RowCalm
<1>11. VerificationInv'
  <2>1. \A t \in task : t.u \in Uploads \ {u}
    BY <1>1, Types DEF ArchiveInv, VerificationInv
  <2>2. \A v \in Uploads \ {u} : row[v].status \in Dead => row'[v].status \in Dead
    BY <1>3 DEF RowCalm, Dead
  <2>3. QED
    BY <1>4, <2>1, <2>2 DEF ArchiveInv, VerificationInv
<1>12. CleanupInv'
  BY <1>3, <1>4, <1>5, <1>9, Types DEF ArchiveInv, CleanupInv, RowCalm, Dead, Cleaning
<1>13. QED
  BY <1>6, <1>7, <1>8, <1>10, <1>11, <1>12 DEF ArchiveInv

\* The session of a new upload is opened while nobody can complete it.
LEMMA CreateBeginKeeps ==
  ASSUME ArchiveInv, TypeOK', NEW c \in Callers, UNCHANGED worker, CreateBegin(c)
  PROVE  ArchiveInv'
<1> DEFINE u == req[c].u
<1>1. /\ RowTypeOK /\ StorageTypeOK /\ RequestsTypeOK /\ u \in Uploads
      /\ u \notin granted /\ session[u] = "none" /\ object[u] = "none"
      /\ row[u].status # "Absent"
      /\ \A d \in Callers : ~At(d, "idle") => req[d].u \in Uploads
  BY Types DEF CreateBegin, At, ArchiveInv, CreationInv, BytesInv, AbsentInv
<1>2. \/ Moved(c, "register", u, req[c].prov, req[c].seen)
      \/ Moved(c, "unregister", u, req[c].prov, req[c].seen)
  BY <1>1, RequestMoves DEF CreateBegin
<1>3. /\ session'[u] \in {"open", "none"}
      /\ \A v \in Uploads \ {u} : session'[v] = session[v]
      /\ UNCHANGED <<object, row, granted, vloop, task, mloop>>
  BY <1>1 DEF CreateBegin, OpenSession, provider, StorageTypeOK, worker
<1>4. At(c, "begin")
  BY DEF CreateBegin
<1>5. \A v \in Uploads : ~Completable(v) => ~Completable(v)'
  BY <1>1, <1>2, <1>3, <1>4 DEF ArchiveInv, CompletionInv, Completable, Moved, At
<1>6. AbsentInv'
  BY <1>1, <1>2, <1>3, <1>4 DEF ArchiveInv, AbsentInv, At, Moved
<1>7. CreationInv'
  BY <1>1, <1>2, <1>3, <1>4 DEF ArchiveInv, CreationInv, At, Moved
<1>8. CompletionInv'
  BY <1>1, <1>2, <1>3, <1>4 DEF ArchiveInv, CompletionInv, At, Moved
<1>9. BytesInv'
  BY <1>1, <1>3, <1>5 DEF ArchiveInv, BytesInv
<1>10. VerificationInv'
  BY <1>1, <1>3, Types DEF ArchiveInv, VerificationInv
<1>11. CleanupInv'
  BY <1>1, <1>3, <1>5, Types DEF ArchiveInv, CleanupInv, Dead, Cleaning
<1>12. QED
  BY <1>6, <1>7, <1>8, <1>9, <1>10, <1>11 DEF ArchiveInv

\* The grant is handed out by the only creator, after its session.
LEMMA CreateRegisterKeeps ==
  ASSUME ArchiveInv, TypeOK', NEW c \in Callers, UNCHANGED worker, CreateRegister(c)
  PROVE  ArchiveInv'
<1> DEFINE u == req[c].u
<1>1. /\ RowTypeOK /\ StorageTypeOK /\ RequestsTypeOK /\ u \in Uploads
      /\ ~At(c, "idle") /\ row[u].status # "Absent"
  BY Types DEF CreateRegister, At, ArchiveInv, AbsentInv
<1>2. RowsCalm
  <2>1. CASE SetProviderUploadId(u)
    <3>1. Wrote(u, row[u].status, TRUE)
      BY <1>1, <2>1, StatementsWrite
    <3>2. QED
      BY <1>1, <3>1, WroteCalm
  <2>2. QED
    BY <2>1, UnchangedCalm DEF CreateRegister
<1>3. BucketCalm /\ TasksCalm /\ MaintenanceCalm
  BY UnchangedCalm DEF CreateRegister, worker
<1>4. CASE granted' = granted
  <2>1. RequestsCalm
    BY <1>1, <1>4, RequestMoves, MovedCalm DEF CreateRegister
  <2>2. QED
    BY <1>2, <1>3, <2>1, CalmKept
<1>5. CASE granted' = granted \cup {u} /\ Finish(c)
  <2>1. Ended(c)
    BY <1>1, <1>5, RequestMoves
  <2>2. \A d \in Callers : At(d, "begin") => req[d].u # u
    BY DEF ArchiveInv, CreationInv, CreateRegister, At
  <2>3. UNCHANGED <<object, session, task, mloop>>
    BY DEF CreateRegister, provider, worker
  <2>4. \A v \in Uploads : ~Completable(v) => ~Completable(v)'
    BY <2>1, <2>3 DEF Completable, Ended, At
  <2>5. \A v \in Uploads : row[v].status \in Dead => row'[v].status \in Dead
    BY <1>2 DEF RowsCalm, RowCalm, Dead
  <2>6. AbsentInv'
    BY <1>1, <1>2, <1>5, <2>1, <2>3 DEF ArchiveInv, AbsentInv, RowsCalm, RowCalm, Ended, At
  <2>7. CreationInv'
    BY <1>5, <2>1, <2>2, <2>3 DEF ArchiveInv, CreationInv, Ended, At
  <2>8. CompletionInv'
    BY <1>2, <1>5, <2>1, <2>3, Types
       DEF ArchiveInv, CompletionInv, RowsCalm, RowCalm, Ended, Completable, At
  <2>9. BytesInv'
    BY <1>2, <2>3, <2>4 DEF ArchiveInv, BytesInv, RowsCalm, RowCalm
  <2>10. VerificationInv'
    BY <1>2, <1>3, VerificationKept
  <2>11. CleanupInv'
    BY <2>3, <2>4, <2>5, Types DEF ArchiveInv, CleanupInv, Cleaning
  <2>12. QED
    BY <2>6, <2>7, <2>8, <2>9, <2>10, <2>11 DEF ArchiveInv
<1>6. QED
  BY <1>4, <1>5 DEF CreateRegister

\* Requests that begin with a read; a completion begins with the record of
\* an upload whose grant is out.
LEMMA FindKeeps ==
  ASSUME ArchiveInv, TypeOK', NEW c \in Callers, NEW u \in Uploads, UNCHANGED worker,
         \/ PartUrlFind(c, u) \/ CompleteFind(c, u) \/ ModerateFind(c, u) \/ DownloadFind(c, u)
  PROVE  ArchiveInv'
<1>1. RowTypeOK /\ RequestsTypeOK
  BY Types DEF ArchiveInv
<1>2. row[u] \in Row
  BY <1>1 DEF RowTypeOK
<1>3. Idle \in Request
  BY Times, CallersAssumption DEF Idle, Request, Awaiting
<1>4. RowsCalm /\ BucketCalm /\ TasksCalm /\ MaintenanceCalm /\ granted' = granted
  BY UnchangedCalm
     DEF PartUrlFind, CompleteFind, ModerateFind, DownloadFind, worker
<1>5. CASE PartUrlFind(c, u)
  <2>1. Moved(c, "grant", u, Idle.prov, Idle.seen)
    BY <1>1, <1>3, <1>5, RequestMoves DEF PartUrlFind
  <2>2. RequestsCalm
    BY <1>4, <1>5, <2>1, MovedCalm DEF PartUrlFind, RequireUploading, In
  <2>3. QED
    BY <1>4, <2>2, CalmKept
<1>6. CASE ModerateFind(c, u)
  <2> DEFINE fields == [Idle EXCEPT !.seen = row[u].status]
  <2>1. fields \in Request /\ fields.seen = row[u].status
    BY <1>2, <1>3 DEF Row, Request
  <2>2. Start(c, "discard", u, fields)
    BY <1>6 DEF ModerateFind
  <2> HIDE DEF fields
  <2>3. Moved(c, "discard", u, fields.prov, row[u].status)
    BY <1>1, <2>1, <2>2, RequestMoves
  <2>4. RequestsCalm
    BY <1>4, <1>6, <2>3, MovedCalm DEF ModerateFind, In, Deletable
  <2>5. QED
    BY <1>4, <2>4, CalmKept
<1>7. CASE DownloadFind(c, u)
  <2> DEFINE fields == [Idle EXCEPT !.deadline = LeastOf(Retention - row[u].age, VerifyLifetime)]
  <2>1. LeastOf(Retention - row[u].age, VerifyLifetime) \in -1 .. VerifyLifetime
    BY <1>2, <1>7, Times DEF DownloadFind, LeastOf, Row
  <2>2. fields \in Request
    BY <1>3, <2>1 DEF Request
  <2>3. Start(c, "queue", u, fields)
    BY <1>7 DEF DownloadFind
  <2> HIDE DEF fields
  <2>4. Moved(c, "queue", u, fields.prov, fields.seen)
    BY <1>1, <2>2, <2>3, RequestMoves
  <2>5. RequestsCalm
    BY <1>4, <1>7, <2>4, MovedCalm DEF DownloadFind, StoredForVerification
  <2>6. QED
    BY <1>4, <2>5, CalmKept
<1>8. CASE CompleteFind(c, u)
  <2> DEFINE fields == [Idle EXCEPT !.prov = row[u].providerId, !.bound = row[u].bound]
  <2>1. fields \in Request /\ fields.prov = row[u].providerId
    BY <1>2, <1>3 DEF Row, Request
  <2>2. Start(c, "claim", u, fields)
    BY <1>8 DEF CompleteFind
  <2> HIDE DEF fields
  <2>3. Moved(c, "claim", u, row[u].providerId, fields.seen)
    BY <1>1, <2>1, <2>2, RequestMoves
  <2>4. /\ u \in granted /\ row[u].status = "Uploading"
        /\ UNCHANGED <<row, object, session, granted, task, mloop>>
    BY <1>8 DEF CompleteFind, RequireUploading, In, provider, worker
  <2>5. \A v \in Uploads : ~Completable(v) => ~Completable(v)'
    BY <2>3, <2>4 DEF Completable, Moved, At
  <2>6. AbsentInv'
    BY <2>3, <2>4 DEF ArchiveInv, AbsentInv, Moved, At
  <2>7. CreationInv'
    BY <2>3, <2>4 DEF ArchiveInv, CreationInv, Moved, At
  <2>8. CompletionInv'
    BY <2>3, <2>4 DEF ArchiveInv, CompletionInv, Moved, At
  <2>9. BytesInv'
    BY <2>4, <2>5 DEF ArchiveInv, BytesInv
  <2>10. VerificationInv'
    BY <1>4, VerificationKept
  <2>11. CleanupInv'
    BY <2>4, <2>5, Types DEF ArchiveInv, CleanupInv, Cleaning
  <2>12. QED
    BY <2>6, <2>7, <2>8, <2>9, <2>10, <2>11 DEF ArchiveInv
<1>9. QED
  BY <1>5, <1>6, <1>7, <1>8

\* The claim of a completion takes the row of an upload that is still
\* receiving, whose session is on record if the caller read it there.
LEMMA CompleteClaimKeeps ==
  ASSUME ArchiveInv, TypeOK', NEW c \in Callers, UNCHANGED worker, CompleteClaim(c)
  PROVE  ArchiveInv'
<1> DEFINE u == req[c].u
<1>1. /\ RowTypeOK /\ RequestsTypeOK /\ u \in Uploads /\ At(c, "claim") /\ ~At(c, "idle")
      /\ u \in granted
  BY Types DEF CompleteClaim, At, ArchiveInv, CompletionInv
<1>2. /\ BucketCalm /\ TasksCalm /\ MaintenanceCalm
      /\ UNCHANGED <<object, session, granted, task, mloop>>
  BY UnchangedCalm DEF CompleteClaim, provider, worker
<1>3. CASE UNCHANGED row /\ Finish(c)
  BY <1>1, <1>2, <1>3, UnchangedCalm, RequestMoves, MovedCalm, CalmKept
<1>4. CASE /\ In(u, {"Uploading"}) /\ Transition(u, "Completing")
           /\ \/ req[c].prov /\ Goto(c, "provider")
              \/ Goto(c, "fail")
  <2>1. Wrote(u, "Completing", row[u].providerId)
    BY <1>1, <1>4, StatementsWrite
  <2>2. \/ req[c].prov /\ Moved(c, "provider", u, req[c].prov, req[c].seen)
        \/ Moved(c, "fail", u, req[c].prov, req[c].seen)
    BY <1>1, <1>4, RequestMoves
  <2>3. row[u].status = "Uploading"
    BY <1>4 DEF In
  <2>4. \A v \in Uploads : row[v].status \in Dead \cup Stored \cup {"Absent"} => v # u
    BY <2>3 DEF Dead
  <2>5. \A v \in Uploads \ {u} : ~Completable(v) => ~Completable(v)'
    BY <1>2, <2>2 DEF Completable, Moved, At
  <2>6. AbsentInv'
    BY <1>1, <1>2, <2>1, <2>2, <2>4 DEF ArchiveInv, AbsentInv, Wrote, Moved, At
  <2>7. CreationInv'
    BY <1>1, <1>2, <2>2 DEF ArchiveInv, CreationInv, Moved, At
  <2>8. CompletionInv'
    BY <1>1, <1>2, <2>1, <2>2, <2>3, Types DEF ArchiveInv, CompletionInv, Wrote, Moved, At
  <2>9. BytesInv'
    BY <1>2, <2>1, <2>3, <2>5 DEF ArchiveInv, BytesInv, Wrote
  <2>10. VerificationInv'
    BY <1>2, <2>1, <2>4, Types DEF ArchiveInv, VerificationInv, Wrote, Dead
  <2>11. CleanupInv'
    BY <1>2, <2>1, <2>4, <2>5, Types DEF ArchiveInv, CleanupInv, Wrote, Cleaning, Dead
  <2>12. QED
    BY <2>6, <2>7, <2>8, <2>9, <2>10, <2>11 DEF ArchiveInv
<1>5. QED
  BY <1>3, <1>4 DEF CompleteClaim

\* The bucket joins the parts only of an upload that is being completed, or
\* has been given up while it was; requests may go on to "head" for it.
LEMMA FinishSessionKeeps ==
  ASSUME ArchiveInv, TypeOK', NEW u \in Uploads, Completable(u), FinishSession(u),
         UNCHANGED <<row, granted, worker>>,
         \A c \in Callers : \/ req'[c] = req[c]
                            \/ /\ At(c, "provider") /\ req[c].u = u
                               /\ req'[c].pc = "head" /\ req'[c].u = u
  PROVE  ArchiveInv'
<1>1. /\ row[u].status \in {"Completing"} \cup Discarded
      /\ session[u] # "completed"
  BY Types DEF ArchiveInv, CompletionInv, BytesInv, Completable, RowTypeOK, Row, At
<1>2. /\ session'[u] = "completed" /\ object'[u] # "none"
      /\ \A v \in Uploads \ {u} : session'[v] = session[v] /\ object'[v] = object[v]
  BY Types DEF ArchiveInv, FinishSession, StorageTypeOK
<1>3. UNCHANGED <<row, granted, task, mloop>>
  BY DEF worker
<1>4. \A v \in Uploads : ~Completable(v) => v # u /\ ~Completable(v)'
  BY <1>2 DEF Completable, At
<1>5. \A c \in Callers : ~At(c, "idle") => req[c].u \in Uploads
  BY Types DEF ArchiveInv
<1>6. AbsentInv'
  BY <1>1, <1>2, <1>3 DEF ArchiveInv, AbsentInv, At
<1>7. CreationInv'
  BY <1>2, <1>3, <1>5 DEF ArchiveInv, CreationInv, Completable, At
<1>8. CompletionInv'
  BY <1>1, <1>2, <1>3, <1>5 DEF ArchiveInv, CompletionInv, At
<1>9. BytesInv'
  BY <1>1, <1>2, <1>3, <1>4 DEF ArchiveInv, BytesInv
<1>10. VerificationInv'
  BY <1>1, <1>2, <1>3, Types DEF ArchiveInv, VerificationInv
<1>11. CleanupInv'
  BY <1>2, <1>3, <1>4, Types DEF ArchiveInv, CleanupInv, Cleaning
<1>12. QED
  BY <1>6, <1>7, <1>8, <1>9, <1>10, <1>11 DEF ArchiveInv

\* The call of completeMultipart: done, refused, or abandoned half way.
LEMMA CompleteProviderKeeps ==
  ASSUME ArchiveInv, TypeOK', NEW c \in Callers, UNCHANGED worker, CompleteProvider(c)
  PROVE  ArchiveInv'
<1> DEFINE u == req[c].u
<1>1. /\ StorageTypeOK /\ RequestsTypeOK /\ u \in Uploads /\ At(c, "provider") /\ ~At(c, "idle")
      /\ row[u].status \notin {"Absent", "Uploading"}
  BY Types DEF CompleteProvider, At, ArchiveInv, CompletionInv
<1>2. UNCHANGED <<row, granted>> /\ RowsCalm /\ TasksCalm /\ MaintenanceCalm
  BY UnchangedCalm DEF CompleteProvider, worker
<1>3. CASE session[u] = "open" /\ FinishSession(u) /\ Goto(c, "head")
  <2>1. Moved(c, "head", u, req[c].prov, req[c].seen)
    BY <1>1, <1>3, RequestMoves
  <2>2. Completable(u)
    BY <1>1, <1>3 DEF Completable
  <2>3. QED
    BY <1>1, <1>2, <1>3, <2>1, <2>2, FinishSessionKeeps DEF Moved
<1>4. CASE Goto(c, "fail") /\ UNCHANGED provider
  BY <1>1, <1>2, <1>4, UnchangedCalm, RequestMoves, MovedCalm, CalmKept
<1>5. CASE AbandonCompletion(u) /\ Goto(c, "fail")
  <2>1. Moved(c, "fail", u, req[c].prov, req[c].seen)
    BY <1>1, <1>5, RequestMoves
  <2>2. RequestsCalm
    BY <1>1, <1>2, <2>1, MovedCalm
  <2>3. /\ session[u] = "open" /\ session'[u] = "completing"
        /\ \A v \in Uploads \ {u} : session'[v] = session[v]
        /\ UNCHANGED <<object, row, granted, task, mloop>>
    BY <1>1, <1>2, <1>5 DEF AbandonCompletion, StorageTypeOK, worker
  <2>4. Completable(u) /\ row[u].providerId
    BY <1>1, <2>3 DEF Completable, ArchiveInv, CompletionInv
  <2>5. \A v \in Uploads : ~Completable(v) => v # u /\ ~Completable(v)'
    BY <2>1, <2>3, <2>4 DEF Completable, Moved, At
  <2>6. AbsentInv'
    BY <1>1, <2>1, <2>3 DEF ArchiveInv, AbsentInv, Moved, At
  <2>7. CreationInv'
    BY <1>1, <2>1, <2>3, Types DEF ArchiveInv, CreationInv, Moved, At
  <2>8. CompletionInv'
    BY <1>1, <2>1, <2>3, <2>4, Types DEF ArchiveInv, CompletionInv, Moved, At
  <2>9. BytesInv'
    BY <2>3, <2>5 DEF ArchiveInv, BytesInv
  <2>10. VerificationInv'
    BY <2>3, Types DEF ArchiveInv, VerificationInv
  <2>11. CleanupInv'
    BY <2>3, <2>5, Types DEF ArchiveInv, CleanupInv, Cleaning
  <2>12. QED
    BY <2>6, <2>7, <2>8, <2>9, <2>10, <2>11 DEF ArchiveInv
<1>6. QED
  BY <1>3, <1>4, <1>5 DEF CompleteProvider

\* Only an object that is there goes on to be stored.
LEMMA CompleteVerifySizeKeeps ==
  ASSUME ArchiveInv, TypeOK', NEW c \in Callers, UNCHANGED worker, CompleteVerifySize(c)
  PROVE  ArchiveInv'
<1> DEFINE u == req[c].u
<1>1. RequestsTypeOK /\ u \in Uploads /\ At(c, "head") /\ ~At(c, "idle")
  BY Types DEF CompleteVerifySize, At, ArchiveInv
<1>2. /\ RowsCalm /\ BucketCalm /\ TasksCalm /\ MaintenanceCalm
      /\ UNCHANGED <<row, object, session, granted, task, mloop>>
  BY UnchangedCalm DEF CompleteVerifySize, provider, worker
<1>3. CASE Goto(c, "fail")
  BY <1>1, <1>2, <1>3, RequestMoves, MovedCalm, CalmKept
<1>4. CASE object[u] # "none" /\ Goto(c, "finish")
  <2>1. Moved(c, "finish", u, req[c].prov, req[c].seen)
    BY <1>1, <1>4, RequestMoves
  <2>2. \A v \in Uploads : ~Completable(v) => ~Completable(v)'
    BY <1>2, <2>1 DEF Completable, Moved, At
  <2>3. AbsentInv'
    BY <1>1, <1>2, <2>1 DEF ArchiveInv, AbsentInv, Moved, At
  <2>4. CreationInv'
    BY <1>1, <1>2, <2>1 DEF ArchiveInv, CreationInv, Moved, At
  <2>5. CompletionInv'
    BY <1>1, <1>2, <1>4, <2>1 DEF ArchiveInv, CompletionInv, Moved, At
  <2>6. BytesInv'
    BY <1>2, <2>2 DEF ArchiveInv, BytesInv
  <2>7. VerificationInv'
    BY <1>2, VerificationKept
  <2>8. CleanupInv'
    BY <1>2, <2>2, Types DEF ArchiveInv, CleanupInv, Cleaning
  <2>9. QED
    BY <2>3, <2>4, <2>5, <2>6, <2>7, <2>8 DEF ArchiveInv
<1>5. QED
  BY <1>3, <1>4 DEF CompleteVerifySize

\* The archive becomes stored with its bytes, and its session is over.
LEMMA CompleteFinishKeeps ==
  ASSUME ArchiveInv, TypeOK', NEW c \in Callers, UNCHANGED worker, CompleteFinish(c)
  PROVE  ArchiveInv'
<1> DEFINE u == req[c].u
<1>1. RowTypeOK /\ RequestsTypeOK /\ u \in Uploads /\ At(c, "finish") /\ ~At(c, "idle")
  BY Types DEF CompleteFinish, At, ArchiveInv
<1>2. /\ BucketCalm /\ TasksCalm /\ MaintenanceCalm
      /\ UNCHANGED <<object, session, granted, task, mloop>>
  BY UnchangedCalm DEF CompleteFinish, provider, worker
<1>3. RequestsCalm
  BY <1>1, <1>2, RequestMoves, MovedCalm DEF CompleteFinish
<1>4. CASE UNCHANGED row
  BY <1>2, <1>3, <1>4, UnchangedCalm, CalmKept
<1>5. CASE In(u, {"Completing"}) /\ TransitionClearingProvider(u, "Pending")
  <2>1. Wrote(u, "Pending", FALSE)
    BY <1>1, <1>5, StatementsWrite
  <2>2. /\ row[u].status = "Completing" /\ session[u] = "completed" /\ object[u] # "none"
    BY <1>1, <1>5 DEF In, At, ArchiveInv, CompletionInv
  <2>3. \A v \in Uploads : row[v].status \in Dead => v # u
    BY <2>2 DEF Dead
  <2>4. \A v \in Uploads : ~Completable(v) => ~Completable(v)'
    BY <1>2, <1>3, CompletableKept
  <2>5. AbsentInv'
    BY <1>2, <1>3, <2>1, <2>2, Types
       DEF ArchiveInv, AbsentInv, Wrote, RequestsCalm, RequestCalm, At
  <2>6. CreationInv'
    BY <1>2, <1>3, CreationKept
  <2>7. CompletionInv'
    <3>1. \A d \in Callers : req'[d].pc \in {"claim", "provider", "head", "finish"}
                               => req'[d] = req[d] /\ req[d].u \in Uploads
      BY <1>3, Types DEF ArchiveInv, RequestsCalm, RequestCalm, At
    <3>2. \A d \in Callers : At(d, "discard")' => req'[d].seen \in Deletable
      BY <1>3 DEF RequestsCalm, RequestCalm, ArchiveInv, CompletionInv, At
    <3>3. QED
      BY <1>2, <2>1, <2>2, <3>1, <3>2 DEF ArchiveInv, CompletionInv, Wrote, At
  <2>8. BytesInv'
    BY <1>2, <2>1, <2>2, <2>4 DEF ArchiveInv, BytesInv, Wrote
  <2>9. VerificationInv'
    BY <1>2, <2>1, <2>3, Types DEF ArchiveInv, VerificationInv, Wrote
  <2>10. CleanupInv'
    BY <1>2, <2>1, <2>3, <2>4, Types DEF ArchiveInv, CleanupInv, Wrote, Cleaning
  <2>11. QED
    BY <2>5, <2>6, <2>7, <2>8, <2>9, <2>10 DEF ArchiveInv
<1>6. QED
  BY <1>4, <1>5 DEF CompleteFinish

\* Every step of the API keeps the invariant.
LEMMA ServiceKeeps ==
  ASSUME ArchiveInv, TypeOK', ServiceNext, UNCHANGED worker
  PROVE  ArchiveInv'
<1>1. ASSUME NEW c \in Callers, RequestStep(c) PROVE ArchiveInv'
  BY <1>1, QuietRequestStep, CreateBeginKeeps, CreateRegisterKeeps, CompleteClaimKeeps,
     CompleteProviderKeeps, CompleteVerifySizeKeeps, CompleteFinishKeeps DEF RequestStep
<1>2. ASSUME NEW c \in Callers, NewRequest(c) PROVE ArchiveInv'
  BY <1>2, CreateInsertKeeps, FindKeeps DEF NewRequest
<1>3. ASSUME NEW enabled \in BOOLEAN, SetPreverification(enabled) PROVE ArchiveInv'
  BY <1>3, UnchangedCalm, CalmKept DEF SetPreverification, worker
<1>4. ASSUME NEW S, RequestsLost(S) PROVE ArchiveInv'
  <2>1. RequestsCalm
    BY <1>4 DEF RequestsLost, RequestsCalm, RequestCalm, Idle
  <2>2. QED
    BY <1>4, <2>1, UnchangedCalm, CalmKept DEF RequestsLost, worker
<1>5. QED
  BY <1>1, <1>2, <1>3, <1>4 DEF ServiceNext

(***************************************************************************)
(* The worker.                                                             *)
(***************************************************************************)

\* A verification that changes its stage keeps what is known of all of them,
\* when its new stage is justified.
LEMMA TaskKeeps ==
  ASSUME ArchiveInv, TypeOK', RowsCalm, BucketCalm, UNCHANGED <<req, granted, mloop>>,
         NEW t \in task, NEW pc, Becomes(t, pc),
         pc = "accepting" => object'[t.u] = "intact" \/ row'[t.u].status \in Dead,
         pc \in {"removing", "invalidating", "rescheduling"} => row'[t.u].status \in Dead,
         pc = "invalidating" => object'[t.u] = "none"
  PROVE  ArchiveInv'
<1> DEFINE moved == [t EXCEPT !.pc = pc]
<1>1. RequestsCalm /\ MaintenanceCalm
  BY UnchangedCalm
<1>2. /\ t \in Task /\ moved.u = t.u /\ moved.pc = pc
      /\ t.u \in Uploads
  BY Types DEF ArchiveInv, Task
<1>3. task' = (task \ {t}) \cup {moved}
  BY DEF Becomes
<1> HIDE DEF moved
<1>4. \A s \in task : /\ session'[s.u] = "completed"
                      /\ s.pc = "accepting" => object'[s.u] = "intact" \/ row'[s.u].status \in Dead
                      /\ s.pc \in {"removing", "invalidating", "rescheduling"}
                           => row'[s.u].status \in Dead
                      /\ s.pc = "invalidating" => object'[s.u] = "none"
  <2> TAKE s \in task
  <2>1. s.u \in Uploads
    BY Types DEF ArchiveInv
  <2>2. QED
    BY <2>1 DEF ArchiveInv, VerificationInv, RowsCalm, RowCalm, BucketCalm, Dead
<1>5. VerificationInv'
  BY <1>2, <1>3, <1>4 DEF VerificationInv
<1>6. QED
  BY <1>1, <1>5, AbsentKept, CreationKept, CompletionKept, BytesKept, CleanupKept DEF ArchiveInv

\* So does one that returns, throws, or starts again.
LEMMA TaskCalm ==
  ASSUME TypeOK, NEW t \in task,
         \/ Returns(t) \/ Throws(t) \/ Becomes(t, "rejecting") \/ Becomes(t, "retrying")
  PROVE  TasksCalm
<1>1. task \subseteq Task
  BY Types
<1>2. CASE Returns(t)
  BY <1>2 DEF Returns, TasksCalm
<1>3. CASE Throws(t)
  <2>1. CASE t.joined
    <3>1. \A s \in task : /\ [s EXCEPT !.joined = FALSE].u = s.u
                          /\ [s EXCEPT !.joined = FALSE].pc = s.pc
      BY <1>1 DEF Task
    <3>2. task' = {[s EXCEPT !.joined = FALSE] : s \in task \ {t}}
      BY <1>3, <2>1 DEF Throws
    <3>3. QED
      BY <3>1, <3>2 DEF TasksCalm
  <2>2. QED
    BY <1>2, <1>3, <2>1 DEF Throws, Returns, TasksCalm
<1>4. ASSUME NEW pc \in {"rejecting", "retrying"}, Becomes(t, pc) PROVE TasksCalm
  <2> DEFINE moved == [t EXCEPT !.pc = pc]
  <2>1. moved.u = t.u /\ moved.pc = pc
    BY <1>1 DEF Task
  <2>2. task' = (task \ {t}) \cup {moved}
    BY <1>4 DEF Becomes
  <2> HIDE DEF moved
  <2>3. QED
    BY <1>4, <2>1, <2>2 DEF TasksCalm
<1>5. QED
  BY <1>2, <1>3, <1>4

\* The lease is taken on stored archives; their verifications start afresh.
LEMMA VerificationClaimKeeps ==
  ASSUME ArchiveInv, TypeOK', VerificationClaim
  PROVE  ArchiveInv'
<1>1. PICK S \in VerificationBatches(vloop.includeStored, VerifyLimit) :
        ClaimForVerification(S) /\ task' = task \cup {NewTask(u) : u \in S}
  BY DEF VerificationClaim
<1>2. S \subseteq Uploads /\ \A u \in S : row[u].status \in Stored
  BY DEF VerificationBatches, RequestedForVerification, StoredForVerification
<1>3. RowsCalm
  BY <1>1, <1>2, Types, ClaimForVerificationWrites DEF ArchiveInv, RowsCalm, RowCalm
<1>4. BucketCalm /\ RequestsCalm /\ MaintenanceCalm /\ UNCHANGED <<object, session>>
  BY UnchangedCalm DEF VerificationClaim, service, provider
<1>5. VerificationInv'
  <2>1. \A u \in S : NewTask(u).u = u /\ NewTask(u).pc = "opening" /\ session[u] = "completed"
    BY <1>2 DEF NewTask, ArchiveInv, BytesInv
  <2>2. \A t \in task : t.u \in Uploads
    BY Types DEF ArchiveInv
  <2>3. \A u \in Uploads : row[u].status \in Dead => row'[u].status \in Dead
    BY <1>3 DEF RowsCalm, RowCalm, Dead
  <2>4. QED
    BY <1>1, <1>4, <2>1, <2>2, <2>3 DEF ArchiveInv, VerificationInv
<1>6. QED
  BY <1>3, <1>4, <1>5, AbsentKept, CreationKept, CompletionKept, BytesKept, CleanupKept
     DEF ArchiveInv

\* Accepting is only reached with the declared bytes, which nothing deletes
\* while the archive is stored.
LEMMA VerifyAcceptKeeps ==
  ASSUME ArchiveInv, TypeOK', NEW t \in task, VerifyAccept(t)
  PROVE  ArchiveInv'
<1>1. RowTypeOK /\ t.u \in Uploads /\ t.pc = "accepting"
  BY Types DEF ArchiveInv, VerifyAccept
<1>2. /\ BucketCalm /\ RequestsCalm /\ MaintenanceCalm /\ TasksCalm
      /\ UNCHANGED <<object, session, req, granted, mloop>>
  BY UnchangedCalm, TaskCalm DEF VerifyAccept, service, provider, ArchiveInv
<1>3. CASE UNCHANGED row
  BY <1>2, <1>3, UnchangedCalm, CalmKept
<1>4. CASE LeaseHeld(t) /\ TransitionDeadline(t.u, "Accepted", NoDeadline)
  <2>1. Wrote(t.u, "Accepted", row[t.u].providerId)
    <3>1. NoDeadline \in -1 .. VerifyLifetime
      BY Times
    <3>2. QED
      BY <1>1, <1>4, <3>1, StatementsWrite
  <2>2. /\ row[t.u].status = "VerifyingActive"
        /\ object[t.u] = "intact" /\ session[t.u] = "completed"
    BY <1>1, <1>4 DEF LeaseHeld, In, ArchiveInv, VerificationInv, Dead
  <2>3. \A v \in Uploads : row[v].status \in Dead => v # t.u
    BY <2>2 DEF Dead
  <2>4. AbsentInv'
    BY <1>2, <2>1, <2>2, Types DEF ArchiveInv, AbsentInv, Wrote, At
  <2>5. CreationInv'
    BY <1>2, CreationKept
  <2>6. CompletionInv'
    BY <1>2, <2>1, <2>2, Types DEF ArchiveInv, CompletionInv, Wrote, At
  <2>7. BytesInv'
    BY <1>2, <2>1, <2>2 DEF ArchiveInv, BytesInv, Completable, Wrote, At
  <2>8. VerificationInv'
    <3>1. \A v \in Uploads : row[v].status \in Dead => row'[v].status \in Dead
      BY <2>1, <2>3 DEF Wrote
    <3>2. ASSUME NEW s \in task'
          PROVE \E r \in task : r.u = s.u /\ (r.pc = s.pc \/ s.pc \in {"opening", "rejecting", "retrying"})
      BY <1>2 DEF TasksCalm
    <3>3. \A r \in task : r.u \in Uploads
      BY Types DEF ArchiveInv
    <3>4. QED
      BY <1>2, <3>1, <3>2, <3>3 DEF ArchiveInv, VerificationInv
  <2>9. CleanupInv'
    BY <1>2, <2>1, <2>3, Types DEF ArchiveInv, CleanupInv, Completable, Wrote, Cleaning, At
  <2>10. QED
    BY <2>4, <2>5, <2>6, <2>7, <2>8, <2>9 DEF ArchiveInv
<1>5. QED
  BY <1>3, <1>4 DEF VerifyAccept

\* Every step of a verification keeps the invariant.
LEMMA TaskStepKeeps ==
  ASSUME ArchiveInv, TypeOK', NEW t \in task, TaskStep(t)
  PROVE  ArchiveInv'
<1>1. /\ TypeOK /\ RowTypeOK /\ StorageTypeOK /\ t.u \in Uploads /\ session[t.u] = "completed"
  BY Types DEF ArchiveInv, VerificationInv
<1>2. ASSUME RowsCalm, BucketCalm, UNCHANGED <<req, granted, mloop>>,
             \/ Returns(t) \/ Throws(t) \/ Becomes(t, "rejecting") \/ Becomes(t, "retrying")
      PROVE  ArchiveInv'
  BY <1>1, <1>2, TaskCalm, UnchangedCalm, CalmKept
<1>3. /\ UNCHANGED row => RowsCalm
      /\ UNCHANGED provider => BucketCalm
  BY UnchangedCalm
<1>4. CASE VerifyObject(t)
  <2>1. RowsCalm /\ BucketCalm /\ UNCHANGED <<object, req, granted, mloop>>
    BY <1>3, <1>4 DEF VerifyObject, service, provider
  <2>2. CASE object[t.u] = "intact" /\ Becomes(t, "accepting")
    BY <2>1, <2>2, TaskKeeps
  <2>3. QED
    BY <1>2, <1>4, <2>1, <2>2 DEF VerifyObject
<1>5. CASE VerifyInterrupted(t)
  BY <1>2, <1>3, <1>5 DEF VerifyInterrupted, service
<1>6. CASE VerifyAccept(t)
  BY <1>6, VerifyAcceptKeeps
<1>7. CASE VerifyRetry(t)
  <2>1. RowsCalm
    <3>1. CASE LeaseHeld(t) /\ Transition(t.u, "Expired")
      <4>1. Wrote(t.u, "Expired", row[t.u].providerId)
        BY <1>1, <3>1, StatementsWrite
      <4>2. QED
        BY <1>1, <3>1, <4>1, WroteCalm DEF LeaseHeld, In
    <3>2. ASSUME LeaseHeld(t), NEW delay \in 0 .. VerifyBackoff,
                 ScheduleVerificationRetry(t.u, delay)
          PROVE  RowsCalm
      <4>1. Wrote(t.u, "Verifying", row[t.u].providerId)
        BY <1>1, <3>2, StatementsWrite
      <4>2. QED
        BY <1>1, <3>2, <4>1, WroteCalm DEF LeaseHeld, In
    <3>3. QED
      BY <1>3, <1>7, <3>1, <3>2 DEF VerifyRetry
  <2>2. QED
    BY <1>2, <1>3, <1>7, <2>1 DEF VerifyRetry, service
<1>8. CASE RejectInvalid(t)
  <2>1. BucketCalm /\ UNCHANGED <<object, req, granted, mloop>>
    BY <1>3, <1>8 DEF RejectInvalid, service, provider
  <2>2. CASE LeaseHeld(t) /\ Transition(t.u, "Deleting") /\ Becomes(t, "removing")
    <3>1. Wrote(t.u, "Deleting", row[t.u].providerId)
      BY <1>1, <2>2, StatementsWrite
    <3>2. RowsCalm /\ row'[t.u].status \in Dead
      BY <1>1, <2>2, <3>1, WroteCalm DEF LeaseHeld, In, Wrote, Dead
    <3>3. QED
      BY <2>1, <2>2, <3>2, TaskKeeps
  <2>3. CASE Throws(t) /\ UNCHANGED row
    BY <1>2, <1>3, <2>1, <2>3
  <2>4. CASE LeaseHeld(t) /\ Transition(t.u, "Deleting") /\ Throws(t)
    <3>1. Wrote(t.u, "Deleting", row[t.u].providerId)
      BY <1>1, <2>4, StatementsWrite
    <3>2. RowsCalm
      BY <1>1, <2>4, <3>1, WroteCalm DEF LeaseHeld, In
    <3>3. QED
      BY <1>2, <2>1, <2>4, <3>2
  <2>5. QED
    BY <1>8, <2>2, <2>3, <2>4 DEF RejectInvalid
<1>9. CASE RejectRemove(t)
  <2>1. RowsCalm /\ row'[t.u].status \in Dead /\ row[t.u].status \in Dead
        /\ UNCHANGED <<req, granted, mloop>>
    BY <1>3, <1>9 DEF RejectRemove, service, ArchiveInv, VerificationInv
  <2>2. CASE DeleteEveryVersion(t.u) /\ Becomes(t, "invalidating")
    <3>1. BucketCalm /\ object'[t.u] = "none"
      BY <1>1, <2>1, <2>2 DEF DeleteEveryVersion, StorageTypeOK, BucketCalm
    <3>2. QED
      BY <2>1, <2>2, <3>1, TaskKeeps
  <2>3. CASE Becomes(t, "rescheduling") /\ UNCHANGED provider
    BY <1>3, <2>1, <2>3, TaskKeeps
  <2>4. CASE Becomes(t, "rescheduling") /\ DeleteEveryVersion(t.u)
    <3>1. BucketCalm
      BY <1>1, <2>1, <2>4 DEF DeleteEveryVersion, StorageTypeOK, BucketCalm
    <3>2. QED
      BY <2>1, <2>4, <3>1, TaskKeeps
  <2>5. QED
    BY <1>9, <2>2, <2>3, <2>4 DEF RejectRemove
<1>10. CASE RejectFinish(t)
  <2>1. /\ BucketCalm /\ UNCHANGED <<req, granted, mloop>>
        /\ row[t.u].status \in Dead /\ object[t.u] = "none" /\ ~Completable(t.u)
    BY <1>1, <1>3, <1>10 DEF RejectFinish, service, ArchiveInv, VerificationInv, Completable
  <2>2. CASE In(t.u, {"Deleting"}) /\ Transition(t.u, "Invalid") /\ Returns(t)
    <3>1. Wrote(t.u, "Invalid", row[t.u].providerId)
      BY <1>1, <2>2, StatementsWrite
    <3>2. RowsCalm
      BY <1>1, <2>1, <2>2, <3>1, WroteCalm DEF LeaseHeld, In
    <3>3. QED
      BY <1>2, <2>1, <2>2, <3>2
  <2>3. CASE Becomes(t, "rescheduling") /\ UNCHANGED row
    BY <1>3, <2>1, <2>3, TaskKeeps
  <2>4. CASE In(t.u, {"Deleting"}) /\ Transition(t.u, "Invalid") /\ Becomes(t, "rescheduling")
    <3>1. Wrote(t.u, "Invalid", row[t.u].providerId)
      BY <1>1, <2>4, StatementsWrite
    <3>2. RowsCalm
      BY <1>1, <2>1, <2>4, <3>1, WroteCalm DEF LeaseHeld, In
    <3>3. row'[t.u].status \in Dead
      BY <1>1, <3>1 DEF Wrote, Dead
    <3>4. QED
      BY <1>3, <2>1, <2>4, <3>2, <3>3, TaskKeeps
  <2>5. QED
    BY <1>10, <2>2, <2>3, <2>4 DEF RejectFinish
<1>11. CASE RejectReschedule(t)
  <2>1. RowsCalm
    <3>1. ASSUME In(t.u, {"Deleting"}), NEW delay \in 0 .. DeletionBackoff,
                 ScheduleDeletionRetry(t.u, delay)
          PROVE  RowsCalm
      <4>1. Wrote(t.u, "Failed", row[t.u].providerId)
        BY <1>1, <3>1, StatementsWrite
      <4>2. QED
        BY <1>1, <3>1, <4>1, WroteCalm DEF LeaseHeld, In
    <3>2. QED
      BY <1>3, <1>11, <3>1 DEF RejectReschedule
  <2>2. QED
    BY <1>2, <1>3, <1>11, <2>1 DEF RejectReschedule, service
<1>12. QED
  BY <1>4, <1>5, <1>6, <1>7, <1>8, <1>9, <1>10, <1>11 DEF TaskStep

\* Every step of the maintenance loop keeps the invariant.
LEMMA MaintenanceKeeps ==
  ASSUME ArchiveInv, TypeOK', MaintenanceStep
  PROVE  ArchiveInv'
<1> DEFINE u == mloop.u
<1>1. /\ RowTypeOK /\ StorageTypeOK /\ mloop \in Maintenance /\ mloop.todo \subseteq Uploads
      /\ mloop.pc \in Cleaning \ {"next"} => u \in Uploads /\ row[u].status \in Dead
  BY Types DEF ArchiveInv, MaintenanceTypeOK, CleanupInv, Cleaning
<1>2. ASSUME RowsCalm, BucketCalm, CleanupInv', UNCHANGED <<req, granted, task>>
      PROVE  ArchiveInv'
  BY <1>2, UnchangedCalm, AbsentKept, CreationKept, CompletionKept, BytesKept, VerificationKept
     DEF ArchiveInv
<1>3. ASSUME RowsCalm, BucketCalm, MaintenanceCalm, UNCHANGED <<req, granted, task>>
      PROVE  ArchiveInv'
  BY <1>3, UnchangedCalm, CalmKept
<1>4. /\ UNCHANGED row => RowsCalm
      /\ UNCHANGED provider => BucketCalm
  BY UnchangedCalm
<1>5. CASE CleanupClaim
  <2>0. PICK S \in SUBSET Uploads :
          /\ ClaimExpired(S) /\ \A v \in S : Expired(v)
          /\ mloop' = [mloop EXCEPT !.pc = "next", !.todo = S]
    BY <1>5 DEF CleanupClaim, DueBatches
  <2>1. RowsCalm /\ \A v \in S : row'[v].status \in Dead
    BY <1>1, <2>0, ClaimExpiredWrites
       DEF RowsCalm, RowCalm, Expired, DeletionStalled, VerificationOver, Dead
  <2>2. mloop'.pc = "next" /\ mloop'.todo = S
    BY <1>1, <2>0 DEF Maintenance
  <2>3. CleanupInv'
    BY <2>1, <2>2 DEF CleanupInv
  <2>4. QED
    BY <1>2, <1>4, <1>5, <2>1, <2>3 DEF CleanupClaim, service
<1>6. CASE CleanupNext
  <2>1. UNCHANGED <<row, object, session, req, granted, task>>
    BY <1>6 DEF CleanupNext, service, provider
  <2>2. CleanupInv'
    <3>1. CASE mloop' = [MaintenanceIdle EXCEPT !.pc = "reading"]
      BY <3>1 DEF CleanupInv, MaintenanceIdle
    <3>2. ASSUME NEW v \in mloop.todo, NEW pc \in {"abort", "retry"},
                 mloop' = [mloop EXCEPT !.pc = pc, !.todo = @ \ {v}, !.u = v,
                                        !.abortFailed = FALSE]
          PROVE  CleanupInv'
      <4>1. mloop'.pc = pc /\ mloop'.todo = mloop.todo \ {v} /\ mloop'.u = v
        BY <1>1, <3>2 DEF Maintenance
      <4>2. \A w \in mloop.todo : row[w].status \in Dead
        BY <1>6 DEF CleanupNext, ArchiveInv, CleanupInv
      <4>3. QED
        BY <2>1, <3>2, <4>1, <4>2 DEF CleanupInv
    <3>3. QED
      BY <1>6, <3>1, <3>2 DEF CleanupNext
  <2>3. QED
    BY <1>2, <1>4, <1>6, <2>1, <2>2 DEF CleanupNext
<1>7. CASE CleanupAbort
  <2>1. /\ u \in Uploads /\ row[u].status \in Dead
        /\ \A v \in mloop.todo : row[v].status \in Dead
        /\ UNCHANGED <<row, req, granted, task>>
    BY <1>1, <1>7 DEF CleanupAbort, Cleaning, service, ArchiveInv, CleanupInv
  <2>2. mloop'.pc = "delete" /\ mloop'.todo = mloop.todo /\ mloop'.u = u
    BY <1>1, <1>7 DEF CleanupAbort, MGoto, Maintenance
  <2>3. CASE AbortSession(u)
    <3>1. BucketCalm /\ session'[u] \notin {"open", "completing"}
      BY <1>1, <2>1, <2>3, AbortCalm DEF AbortSession, Unfinished, StorageTypeOK
    <3>2. CleanupInv'
      BY <2>1, <2>2, <3>1 DEF CleanupInv, Completable
    <3>3. QED
      BY <1>2, <1>4, <2>1, <3>1, <3>2
  <2>4. CASE ~RecordedSession(u) /\ UNCHANGED provider
    <3>1. ~Completable(u)
      BY <2>1, <2>4 DEF RecordedSession, Completable, ArchiveInv, CompletionInv, At
    <3>2. \A v \in Uploads : ~Completable(v) => ~Completable(v)'
      BY <2>1, <2>4 DEF Completable, At, provider
    <3>3. CleanupInv'
      BY <2>1, <2>2, <3>1, <3>2 DEF CleanupInv
    <3>4. QED
      BY <1>2, <1>4, <2>1, <2>4, <3>3
  <2>5. CASE UNCHANGED provider /\ mloop' = [mloop EXCEPT !.pc = "delete", !.abortFailed = TRUE]
    <3>1. mloop'.abortFailed = TRUE
      BY <1>1, <2>5 DEF Maintenance
    <3>2. CleanupInv'
      BY <2>1, <2>2, <3>1 DEF CleanupInv
    <3>3. QED
      BY <1>2, <1>4, <2>1, <2>5, <3>2
  <2>6. QED
    BY <1>7, <2>3, <2>4, <2>5 DEF CleanupAbort
<1>8. CASE CleanupDelete
  <2>1. /\ u \in Uploads /\ row[u].status \in Dead
        /\ \A v \in mloop.todo : row[v].status \in Dead
        /\ ~mloop.abortFailed => ~Completable(u)
        /\ UNCHANGED <<row, req, granted, task>>
    BY <1>1, <1>8 DEF CleanupDelete, Cleaning, service, ArchiveInv, CleanupInv
  <2>2. CASE MGoto("retry") /\ UNCHANGED provider
    <3>1. MaintenanceCalm
      BY <1>1, <1>8, <2>2 DEF CleanupDelete, MGoto, Maintenance, MaintenanceCalm, Cleaning
    <3>2. QED
      BY <1>3, <1>4, <2>1, <2>2, <3>1
  <2>3. CASE /\ DeleteEveryVersion(u)
             /\ MGoto(AfterDeletion)
    <3>1. BucketCalm /\ object'[u] = "none" /\ session' = session
      BY <1>1, <2>1, <2>3 DEF DeleteEveryVersion, StorageTypeOK, BucketCalm
    <3>2. /\ mloop'.pc = AfterDeletion
          /\ mloop'.todo = mloop.todo /\ mloop'.u = u
      BY <1>1, <2>3 DEF MGoto, Maintenance
    <3>3. CleanupInv'
      BY <2>1, <3>1, <3>2 DEF CleanupInv, AfterDeletion, Completable, At
    <3>4. QED
      BY <1>2, <1>4, <2>1, <3>1, <3>3
  <2>4. CASE MGoto("retry") /\ DeleteEveryVersion(u)
    <3>1. BucketCalm
      BY <1>1, <2>1, <2>4 DEF DeleteEveryVersion, StorageTypeOK, BucketCalm
    <3>2. MaintenanceCalm
      BY <1>1, <1>8, <2>4 DEF CleanupDelete, MGoto, Maintenance, MaintenanceCalm, Cleaning
    <3>3. QED
      BY <1>3, <1>4, <2>1, <3>1, <3>2
  <2>5. QED
    BY <1>8, <2>2, <2>3, <2>4 DEF CleanupDelete
<1>9. CASE CleanupFinish
  <2>1. /\ u \in Uploads /\ row[u].status \in Dead
        /\ ~Completable(u) /\ object[u] = "none"
        /\ BucketCalm /\ UNCHANGED <<req, granted, task>>
    BY <1>1, <1>4, <1>9 DEF CleanupFinish, Cleaning, service, ArchiveInv, CleanupInv
  <2>2. RowsCalm
    <3>1. CASE In(u, {"Deleting"}) /\ TransitionClearingProvider(u, "Deleted")
      <4>1. Wrote(u, "Deleted", FALSE)
        BY <1>1, <2>1, <3>1, StatementsWrite
      <4>2. QED
        BY <1>1, <2>1, <3>1, <4>1, WroteCalm DEF In
    <3>2. QED
      BY <1>4, <1>9, <3>1 DEF CleanupFinish
  <2>3. MaintenanceCalm
    BY <1>1, <1>9 DEF CleanupFinish, MGoto, Maintenance, MaintenanceCalm, Cleaning
  <2>4. QED
    BY <1>3, <2>1, <2>2, <2>3
<1>10. CASE CleanupRetry
  <2>1. u \in Uploads /\ BucketCalm /\ UNCHANGED <<req, granted, task>>
    BY <1>1, <1>4, <1>10 DEF CleanupRetry, Cleaning, service
  <2>2. RowsCalm
    <3>1. ASSUME In(u, {"Deleting"}), NEW delay \in 0 .. DeletionBackoff,
                 ScheduleDeletionRetry(u, delay)
          PROVE  RowsCalm
      <4>1. Wrote(u, "Failed", row[u].providerId)
        BY <1>1, <2>1, <3>1, StatementsWrite
      <4>2. QED
        BY <1>1, <2>1, <3>1, <4>1, WroteCalm DEF In
    <3>2. QED
      BY <1>4, <1>10, <3>1 DEF CleanupRetry
  <2>3. MaintenanceCalm
    BY <1>1, <1>10
       DEF CleanupRetry, MGoto, Maintenance, MaintenanceIdle, MaintenanceCalm, Cleaning
  <2>4. QED
    BY <1>3, <2>1, <2>2, <2>3
<1>11. CASE ReconcileList \/ ReconcileReference \/ ReconcileFail \/ ReconcileCutoff
  <2>1. mloop'.pc \in {"idle", "reading", "sweep"}
    <3>1. ReconcileList \/ ReconcileReference => mloop'.pc = "reading"
      BY <1>1 DEF ReconcileList, ReconcileReference, Maintenance
    <3>2. ReconcileFail => mloop'.pc = "idle"
      BY DEF ReconcileFail, MaintenanceIdle
    <3>3. ReconcileCutoff => mloop'.pc = "sweep"
      BY DEF ReconcileCutoff, MaintenanceIdle
    <3>4. QED
      BY <1>11, <3>1, <3>2, <3>3
  <2>2. MaintenanceCalm
    BY <2>1 DEF MaintenanceCalm, Cleaning
  <2>3. QED
    BY <1>3, <1>4, <1>11, <2>2
       DEF ReconcileList, ReconcileReference, ReconcileFail, ReconcileCutoff, service
<1>12. CASE ReconcileAbort
  <2>1. mloop'.pc \in {"idle", "sweep"}
    BY <1>1, <1>12 DEF ReconcileAbort, Maintenance, MaintenanceIdle
  <2>2. MaintenanceCalm
    BY <2>1 DEF MaintenanceCalm, Cleaning
  <2>3. BucketCalm
    BY <1>1, <1>4, <1>12, AbortCalm DEF ReconcileAbort
  <2>4. QED
    BY <1>3, <1>4, <1>12, <2>2, <2>3 DEF ReconcileAbort, service
<1>13. QED
  BY <1>5, <1>6, <1>7, <1>8, <1>9, <1>10, <1>11, <1>12 DEF MaintenanceStep

\* Every step of the worker keeps the invariant.
LEMMA WorkerKeeps ==
  ASSUME ArchiveInv, TypeOK', WorkerNext
  PROVE  ArchiveInv'
<1>1. CASE VerificationRead \/ VerificationJoin
  BY <1>1, UnchangedCalm, CalmKept DEF VerificationRead, VerificationJoin, service
<1>2. CASE WorkerCrash
  <2>1. TasksCalm /\ MaintenanceCalm
    BY <1>2 DEF WorkerCrash, TasksCalm, MaintenanceCalm, MaintenanceIdle, Cleaning
  <2>2. QED
    BY <1>2, <2>1, UnchangedCalm, CalmKept DEF WorkerCrash, service
<1>3. QED
  BY <1>1, <1>2, VerificationClaimKeeps, TaskStepKeeps, MaintenanceKeeps
     DEF WorkerNext, VerificationStep

(***************************************************************************)
(* The clock, late completions, and the whole.                             *)
(***************************************************************************)

\* Time passing disturbs nothing.
LEMMA TickKeeps ==
  ASSUME ArchiveInv, TypeOK', Tick
  PROVE  ArchiveInv'
<1>1. /\ RowTypeOK /\ RequestsTypeOK /\ task \subseteq Task /\ mloop \in Maintenance
  BY Types DEF ArchiveInv, MaintenanceTypeOK
<1>2. RowsCalm
  <2>1. \A u \in Uploads : row[u] \in Row
    BY <1>1 DEF RowTypeOK
  <2>2. \A u \in Uploads : Older(row[u]).status = row[u].status
                             /\ Older(row[u]).providerId = row[u].providerId
    BY <2>1, OlderRow
  <2>3. QED
    BY <2>2 DEF Tick, RowsCalm, RowCalm
<1>3. UNCHANGED <<object, session, granted>>
  BY DEF Tick
<1>4. \A c \in Callers : /\ req'[c].pc = req[c].pc /\ req'[c].u = req[c].u
                         /\ req'[c].prov = req[c].prov /\ req'[c].seen = req[c].seen
  <2> TAKE c \in Callers
  <2>1. req[c] \in Request
    BY <1>1 DEF RequestsTypeOK
  <2> DEFINE older == [req[c] EXCEPT !.age = @ + 1]
  <2>2. /\ older.pc = req[c].pc /\ older.u = req[c].u
        /\ older.prov = req[c].prov /\ older.seen = req[c].seen
        /\ "deadline" \in DOMAIN older
    BY <2>1 DEF Request
  <2>3. req'[c] = IF At(c, "idle") THEN req[c] ELSE [older EXCEPT !.deadline = Down(@)]
    BY Zenon DEF Tick
  <2> HIDE DEF older
  <2>4. QED
    BY <2>2, <2>3
<1>5. TasksCalm
  <2>1. \A t \in task : [t EXCEPT !.age = @ + 1].u = t.u /\ [t EXCEPT !.age = @ + 1].pc = t.pc
    BY <1>1 DEF Task
  <2>2. QED
    BY <2>1 DEF Tick, TasksCalm
<1>6. MaintenanceCalm
  BY <1>1 DEF Tick, Maintenance, MaintenanceCalm
<1>7. \A u \in Uploads : ~Completable(u) => ~Completable(u)'
  BY <1>3, <1>4 DEF Completable, At
<1>8. AbsentInv'
  BY <1>2, <1>3, <1>4 DEF ArchiveInv, AbsentInv, RowsCalm, RowCalm, At
<1>9. CreationInv'
  BY <1>3, <1>4 DEF ArchiveInv, CreationInv, At
<1>10. CompletionInv'
  BY <1>2, <1>3, <1>4, Types
     DEF ArchiveInv, CompletionInv, Completable, RowsCalm, RowCalm, At
<1>11. BytesInv'
  BY <1>2, <1>3, <1>7 DEF ArchiveInv, BytesInv, RowsCalm, RowCalm
<1>12. VerificationInv'
  BY <1>2, <1>3, <1>5, VerificationKept DEF BucketCalm
<1>13. CleanupInv'
  <2>1. /\ mloop'.pc = mloop.pc /\ mloop'.todo = mloop.todo /\ mloop'.u = mloop.u
        /\ mloop'.abortFailed = mloop.abortFailed
    BY <1>1 DEF Tick, Maintenance
  <2>2. \A u \in Uploads : row[u].status \in Dead => row'[u].status \in Dead
    BY <1>2 DEF RowsCalm, RowCalm, Dead
  <2>3. QED
    BY <1>3, <1>7, <2>1, <2>2, Types DEF ArchiveInv, CleanupInv, Cleaning
<1>14. QED
  BY <1>8, <1>9, <1>10, <1>11, <1>12, <1>13 DEF ArchiveInv

\* ArchiveInv is inductive.
LEMMA ArchiveStep == ArchiveInv /\ [Next]_vars => ArchiveInv'
<1> SUFFICES ASSUME ArchiveInv, [Next]_vars PROVE ArchiveInv'
  OBVIOUS
<1>1. TypeOK'
  BY TypeStep DEF ArchiveInv
<1>2. CASE ServiceNext /\ UNCHANGED worker
  BY <1>1, <1>2, ServiceKeeps
<1>3. CASE WorkerNext
  BY <1>1, <1>3, WorkerKeeps
<1>4. CASE Tick
  BY <1>1, <1>4, TickKeeps
<1>5. ASSUME NEW u \in Uploads, LateCompletion(u) PROVE ArchiveInv'
  BY <1>1, <1>5, FinishSessionKeeps DEF LateCompletion, service, Completable
<1>6. CASE UNCHANGED vars
  BY <1>1, <1>6, UnchangedCalm, CalmKept DEF vars, provider
<1>7. QED
  BY <1>2, <1>3, <1>4, <1>5, <1>6 DEF Next

\* It holds at the start, where archives are absent or stored.
LEMMA ArchiveInit == Init => ArchiveInv
<1> SUFFICES ASSUME Init PROVE ArchiveInv
  OBVIOUS
<1>1. TypeOK
  BY TypeInit
<1>2. \A c \in Callers : req[c].pc = "idle"
  BY DEF Init, ServiceInit, Idle
<1>3. \A u \in Uploads :
        /\ row[u].status = IF u \in Preloaded THEN "Pending" ELSE "Absent"
        /\ session[u] = IF u \in Preloaded THEN "completed" ELSE "none"
        /\ (object[u] = "none") = (u \notin Preloaded)
  BY DEF Init, RowInit, StoredRow, NoRow, StorageInit
<1>4. granted = {} /\ task = {} /\ mloop.pc = "idle"
  BY DEF Init, ServiceInit, WorkerInit, MaintenanceIdle
<1>5. AbsentInv
  BY <1>2, <1>3, <1>4 DEF AbsentInv, At
<1>6. CreationInv /\ CompletionInv
  BY <1>2, <1>3 DEF CreationInv, CompletionInv, At
<1>7. BytesInv
  BY <1>3 DEF BytesInv
<1>8. VerificationInv /\ CleanupInv
  BY <1>4 DEF VerificationInv, CleanupInv
<1>9. QED
  BY <1>1, <1>5, <1>6, <1>7, <1>8 DEF ArchiveInv

\* The inductive invariant holds in every reachable state.
THEOREM ArchiveInvariance == Spec => []ArchiveInv
BY ArchiveInit, ArchiveStep, PTL DEF Spec

\* A Deleted or Invalid row means that nothing of the archive is in the
\* bucket and that no completion can put it back.
THEOREM TombstonesAreFinal == Spec => []TerminalMeansGone
<1>1. ArchiveInv => TerminalMeansGone
  BY DEF ArchiveInv, BytesInv, TerminalMeansGone, Completable
<1>2. QED
  BY <1>1, ArchiveInvariance, PTL

\* Whatever the interleaving of requests, verifications and cleanup, a
\* stored archive is in the bucket and an accepted one is as declared.
THEOREM StoredIsPresent == Spec => []StoredMeansPresent
<1>1. ArchiveInv => StoredMeansPresent
  BY DEF ArchiveInv, BytesInv, StoredMeansPresent
<1>2. QED
  BY <1>1, ArchiveInvariance, PTL
=============================================================================
