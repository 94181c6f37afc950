-------------------------- MODULE DiagnosticWorker --------------------------
(***************************************************************************)
(* The worker process: the verification loop with the verifications it     *)
(* starts, and the maintenance loop (cleanup, then the reconciliation of   *)
(* multipart sessions).  Both loops and every verification interleave with *)
(* each other and with the API at each await.                              *)
(***************************************************************************)
EXTENDS DiagnosticService

CONSTANTS
  VerifyLimit,        \* archives one claim may take (8)
  VerifyDeadline,     \* ticks a verification may last before its timer fires
  BodylessAnswers     \* may the bucket answer a GET without a body?

ASSUME WorkerAssumption ==
  /\ VerifyLimit \in Nat \ {0}
  /\ VerifyDeadline \in Nat
  /\ VerifyDeadline < StaleLease      \* at most 2 hours, against 6
  /\ BodylessAnswers \in BOOLEAN

VARIABLES
  vloop,     \* verification loop
  task,      \* verifications in progress
  mloop      \* maintenance loop

worker == <<vloop, task, mloop>>

\* stages before the verification is settled in the database
Streaming == {"opening", "accepting", "rejecting"}
Leased    == Streaming \cup {"retrying"}

Task == [u : Uploads,
         pc : Leased \cup {"removing", "invalidating", "rescheduling"},
         age : 0 .. VerifyDeadline,
         attempts : Nat,          \* verificationAttempts of the claimed record
         joined : BOOLEAN]        \* the loop still waits for it

NewTask(u) == [u |-> u, pc |-> "opening", age |-> 0,
               attempts |-> row[u].attempts, joined |-> TRUE]

(***************************************************************************)
(* diagnosticVerificationLoop: read the setting, claim a batch, wait for   *)
(* Promise.all.                                                            *)
(***************************************************************************)
VerificationRead ==
  /\ vloop.pc = "idle"
  /\ vloop' = [pc |-> "claim", includeStored |-> preverify]
  /\ UNCHANGED <<row, provider, service, faults, task, mloop>>

VerificationClaim ==
  /\ vloop.pc = "claim"
  /\ \E S \in VerificationBatches(vloop.includeStored, VerifyLimit) :
       /\ ClaimForVerification(S)
       /\ task' = task \cup {NewTask(u) : u \in S}
  /\ vloop' = [pc |-> "await", includeStored |-> FALSE]
  /\ UNCHANGED <<provider, service, faults, mloop>>

VerificationJoin ==
  /\ vloop.pc = "await"
  /\ \A t \in task : ~t.joined
  /\ vloop' = [vloop EXCEPT !.pc = "idle"]
  /\ UNCHANGED <<row, provider, service, faults, task, mloop>>

(***************************************************************************)
(* How one verification goes on, returns, or throws.  The first exception  *)
(* of a batch rejects Promise.all: the loop goes back to work while the    *)
(* other verifications of the batch run on by themselves.                  *)
(***************************************************************************)
Becomes(t, pc) ==
  /\ task' = (task \ {t}) \cup {[t EXCEPT !.pc = pc]}
  /\ UNCHANGED vloop

Returns(t) == task' = task \ {t} /\ UNCHANGED vloop

Throws(t) ==
  IF t.joined
    THEN /\ task' = {[s EXCEPT !.joined = FALSE] : s \in task \ {t}}
         /\ vloop' = [vloop EXCEPT !.pc = "idle"]
    ELSE Returns(t)

\* verifyObject: the answer to the GET fixes the bytes that will be hashed.
VerifyObject(t) ==
  /\ t.pc = "opening"
  /\ \/ object[t.u] = "intact" /\ Becomes(t, "accepting") /\ UNCHANGED faults
     \/ object[t.u] = "corrupt" /\ Becomes(t, "rejecting") /\ UNCHANGED faults
     \/ object[t.u] = "none" /\ Becomes(t, "retrying") /\ UNCHANGED faults
     \/ BodylessAnswers /\ object[t.u] # "none" /\ Becomes(t, "rejecting") /\ Fault
  /\ UNCHANGED <<row, provider, service, mloop>>

VerifyInterruptedRejects(t) ==       \* mutant: taken for an integrity failure
  /\ t.pc \in Streaming
  /\ Becomes(t, "rejecting")
  /\ \/ t.age = VerifyDeadline /\ UNCHANGED faults
     \/ Fault
  /\ UNCHANGED <<row, provider, service, mloop>>

\* A provider error, an interrupted transfer, or the timer of
\* verifyObjectWithinDeadline.
VerifyInterrupted(t) ==
  /\ t.pc \in Streaming
  /\ Becomes(t, "retrying")
  /\ \/ t.age = VerifyDeadline /\ UNCHANGED faults
     \/ Fault
  /\ UNCHANGED <<row, provider, service, mloop>>

LeaseHeldAssumed(t) == t \in task    \* mutant: the update is not conditional

\* the status every statement of a verification expects
LeaseHeld(t) == In(t.u, {"VerifyingActive"})

VerifyAccept(t) ==
  /\ t.pc = "accepting"
  /\ \/ /\ LeaseHeld(t) /\ TransitionDeadline(t.u, "Accepted", NoDeadline)
        /\ Returns(t) /\ UNCHANGED faults
     \/ /\ ~LeaseHeld(t) /\ Becomes(t, "retrying") /\ UNCHANGED <<row, faults>>
     \/ /\ Becomes(t, "retrying")
        /\ InDoubt(LeaseHeld(t) /\ TransitionDeadline(t.u, "Accepted", NoDeadline))
  /\ UNCHANGED <<provider, service, mloop>>

AttemptsSpentLate(t) == t.attempts >= MaxAttempts      \* mutant: one too many

AttemptsSpent(t) == t.attempts + 1 >= MaxAttempts

\* scheduleVerificationRetry
RetryOrExpire(t) ==
  /\ LeaseHeld(t)
  /\ IF AttemptsSpent(t) \/ VerificationExpired(t.u)
       THEN Transition(t.u, "Expired")
       ELSE \E delay \in 0 .. VerifyBackoff : ScheduleVerificationRetry(t.u, delay)

VerifyRetry(t) ==
  /\ t.pc = "retrying"
  /\ \/ RetryOrExpire(t) /\ Returns(t) /\ UNCHANGED faults
     \/ ~LeaseHeld(t) /\ Throws(t) /\ UNCHANGED <<row, faults>>
     \/ InDoubt(RetryOrExpire(t)) /\ Throws(t)
  /\ UNCHANGED <<provider, service, mloop>>

\* rejectInvalid
RejectInvalid(t) ==
  /\ t.pc = "rejecting"
  /\ \/ /\ LeaseHeld(t) /\ Transition(t.u, "Deleting")
        /\ Becomes(t, "removing") /\ UNCHANGED faults
     \/ ~LeaseHeld(t) /\ Throws(t) /\ UNCHANGED <<row, faults>>
     \/ InDoubt(LeaseHeld(t) /\ Transition(t.u, "Deleting")) /\ Throws(t)
  /\ UNCHANGED <<provider, service, mloop>>

RejectRemove(t) ==
  /\ t.pc = "removing"
  /\ \/ DeleteEveryVersion(t.u) /\ Becomes(t, "invalidating") /\ UNCHANGED faults
     \/ Becomes(t, "rescheduling") /\ InDoubtAtBucket(DeleteEveryVersion(t.u))
  /\ UNCHANGED <<row, service, mloop>>

RejectFinish(t) ==
  /\ t.pc = "invalidating"
  /\ \/ In(t.u, {"Deleting"}) /\ Transition(t.u, "Invalid") /\ Returns(t) /\ UNCHANGED faults
     \/ ~In(t.u, {"Deleting"}) /\ Becomes(t, "rescheduling") /\ UNCHANGED <<row, faults>>
     \/ /\ Becomes(t, "rescheduling")
        /\ InDoubt(In(t.u, {"Deleting"}) /\ Transition(t.u, "Invalid"))
  /\ UNCHANGED <<provider, service, mloop>>

\* scheduleDeletionRetry
Reschedule(u) ==
  /\ In(u, {"Deleting"})
  /\ \E delay \in 0 .. DeletionBackoff : ScheduleDeletionRetry(u, delay)

\* after it the removal's error is thrown again
RejectReschedule(t) ==
  /\ t.pc = "rescheduling"
  /\ Throws(t)
  /\ \/ Reschedule(t.u) /\ UNCHANGED faults
     \/ ~In(t.u, {"Deleting"}) /\ UNCHANGED <<row, faults>>
     \/ InDoubt(Reschedule(t.u))
  /\ UNCHANGED <<provider, service, mloop>>

TaskStep(t) ==
  \/ VerifyObject(t) \/ VerifyInterrupted(t) \/ VerifyAccept(t) \/ VerifyRetry(t)
  \/ RejectInvalid(t) \/ RejectRemove(t) \/ RejectFinish(t) \/ RejectReschedule(t)

(***************************************************************************)
(* diagnosticMaintenanceLoop.  "todo" holds what is left of the claimed    *)
(* batch, later of the orphaned sessions.  The record the claim returned   *)
(* carries provider_upload_id; nothing but the last transition of the      *)
(* deletion changes that column of a Deleting row, so it is read from the  *)
(* row.                                                                    *)
(***************************************************************************)
Maintenance ==
  [pc : {"idle", "next", "abort", "delete", "finish", "retry",
         "reading", "sweep"},
   todo : SUBSET Uploads,
   u : Uploads \cup {NoUpload},
   abortFailed : BOOLEAN,
   listed : SUBSET Uploads, gotListed : BOOLEAN,        \* the bucket's sessions
   referenced : SUBSET Uploads, gotReferenced : BOOLEAN, \* the table's
   age : 0 .. CallTime]                                 \* of the two reads

MaintenanceIdle ==
  [pc |-> "idle", todo |-> {}, u |-> NoUpload, abortFailed |-> FALSE,
   listed |-> {}, gotListed |-> FALSE, referenced |-> {}, gotReferenced |-> FALSE,
   age |-> 0]

MGoto(pc) == mloop' = [mloop EXCEPT !.pc = pc]

CleanupClaim ==
  /\ mloop.pc = "idle"
  /\ \E S \in DueBatches :
       /\ ClaimExpired(S)
       /\ mloop' = [mloop EXCEPT !.pc = "next", !.todo = S]
  /\ UNCHANGED <<provider, service, faults, vloop, task>>

\* The audit of the claim is inside the try block of its record.
CleanupNext ==
  /\ mloop.pc = "next"
  /\ UNCHANGED <<row, provider, service, vloop, task>>
  /\ \/ /\ mloop.todo = {} /\ mloop' = [MaintenanceIdle EXCEPT !.pc = "reading"]
        /\ UNCHANGED faults
     \/ \E u \in mloop.todo, pc \in {"abort", "retry"} :
          /\ mloop' = [mloop EXCEPT !.pc = pc, !.todo = @ \ {u}, !.u = u,
                                    !.abortFailed = FALSE]
          /\ \/ pc = "abort" /\ UNCHANGED faults
             \/ pc = "retry" /\ Fault

RecordedSessionLost(u) == FALSE      \* mutant: remove() without the identifier

RecordedSession(u) == row[u].providerId

\* remove: abort the session, remembering an error, ...
CleanupAbort ==
  /\ mloop.pc = "abort"
  /\ \/ /\ RecordedSession(mloop.u) /\ AbortSession(mloop.u)
        /\ MGoto("delete") /\ UNCHANGED faults
     \/ /\ ~RecordedSession(mloop.u) /\ UNCHANGED provider
        /\ MGoto("delete") /\ UNCHANGED faults
     \/ /\ RecordedSession(mloop.u) /\ InDoubtAtBucket(AbortSession(mloop.u))
        /\ mloop' = [mloop EXCEPT !.pc = "delete", !.abortFailed = TRUE]
  /\ UNCHANGED <<row, service, vloop, task>>

AfterDeletion == IF mloop.abortFailed THEN "retry" ELSE "finish"

\* ... delete every version, and only then throw it.
CleanupDelete ==
  /\ mloop.pc = "delete"
  /\ \/ /\ DeleteEveryVersion(mloop.u) /\ UNCHANGED faults
        /\ MGoto(AfterDeletion)
     \/ MGoto("retry") /\ InDoubtAtBucket(DeleteEveryVersion(mloop.u))
  /\ UNCHANGED <<row, service, vloop, task>>

CleanupFinish ==
  /\ mloop.pc = "finish"
  /\ \/ /\ IF In(mloop.u, {"Deleting"})
             THEN TransitionClearingProvider(mloop.u, "Deleted") ELSE UNCHANGED row
        /\ MGoto("next") /\ UNCHANGED faults
     \/ /\ MGoto("retry")
        /\ InDoubt(In(mloop.u, {"Deleting"}) /\ TransitionClearingProvider(mloop.u, "Deleted"))
  /\ UNCHANGED <<provider, service, vloop, task>>

\* A conflict here, or an error, leaves the loop over the batch.
CleanupRetry ==
  /\ mloop.pc = "retry"
  /\ \/ Reschedule(mloop.u) /\ MGoto("next") /\ UNCHANGED faults
     \/ /\ mloop' = [MaintenanceIdle EXCEPT !.pc = "reading"]
        /\ \/ ~In(mloop.u, {"Deleting"}) /\ UNCHANGED <<row, faults>>
           \/ InDoubt(Reschedule(mloop.u))
  /\ UNCHANGED <<provider, service, vloop, task>>

(***************************************************************************)
(* reconcileMultipartOrphans: two reads in either order, a cutoff taken    *)
(* after both, then one abort per orphan; an abort that fails is skipped.  *)
(***************************************************************************)
ReconcileList ==
  /\ mloop.pc = "reading" /\ ~mloop.gotListed
  /\ mloop' = [mloop EXCEPT !.listed = {u \in Uploads : Unfinished(u)}, !.gotListed = TRUE]
  /\ UNCHANGED <<row, provider, service, faults, vloop, task>>

ReconcileReference ==
  /\ mloop.pc = "reading" /\ ~mloop.gotReferenced
  /\ mloop' = [mloop EXCEPT !.referenced = ProviderUploadIds, !.gotReferenced = TRUE]
  /\ UNCHANGED <<row, provider, service, faults, vloop, task>>

ReconcileFail ==
  /\ mloop.pc = "reading" /\ Fault
  /\ mloop' = MaintenanceIdle
  /\ UNCHANGED <<row, provider, service, vloop, task>>

OrphansUncut == mloop.listed \ mloop.referenced        \* mutant: no cutoff

Orphans == {u \in mloop.listed \ mloop.referenced : sessionAge[u] >= UploadWindow}

ReconcileCutoff ==
  /\ mloop.pc = "reading" /\ mloop.gotListed /\ mloop.gotReferenced
  /\ mloop' = [MaintenanceIdle EXCEPT !.pc = "sweep", !.todo = Orphans]
  /\ UNCHANGED <<row, provider, service, faults, vloop, task>>

ReconcileAbort ==
  /\ mloop.pc = "sweep"
  /\ \/ /\ mloop.todo = {} /\ mloop' = MaintenanceIdle /\ UNCHANGED <<provider, faults>>
     \/ \E u \in mloop.todo :
          /\ mloop' = [mloop EXCEPT !.todo = @ \ {u}]
          /\ \/ AbortSession(u) /\ UNCHANGED faults
             \/ InDoubtAtBucket(AbortSession(u))
  /\ UNCHANGED <<row, service, vloop, task>>

MaintenanceStep ==
  \/ CleanupClaim \/ CleanupNext \/ CleanupAbort \/ CleanupDelete
  \/ CleanupFinish \/ CleanupRetry
  \/ ReconcileList \/ ReconcileReference \/ ReconcileFail
  \/ ReconcileCutoff \/ ReconcileAbort

VerificationStep == VerificationRead \/ VerificationClaim \/ VerificationJoin

VLoopIdle == [pc |-> "idle", includeStored |-> FALSE]

\* The worker process dies and is started again.
WorkerCrash ==
  /\ Fault
  /\ vloop' = VLoopIdle /\ task' = {} /\ mloop' = MaintenanceIdle
  /\ UNCHANGED <<row, provider, service>>

WorkerNext ==
  \/ VerificationStep
  \/ \E t \in task : TaskStep(t)
  \/ MaintenanceStep
  \/ WorkerCrash

WorkerInit == vloop = VLoopIdle /\ task = {} /\ mloop = MaintenanceIdle

WorkerTypeOK ==
  /\ vloop \in [pc : {"idle", "claim", "await"}, includeStored : BOOLEAN]
  /\ task \subseteq Task
  /\ mloop \in Maintenance
  /\ mloop.pc \in {"abort", "delete", "finish", "retry"} => mloop.u \in Uploads
=============================================================================
