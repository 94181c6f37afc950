---------------------------- MODULE Diagnostics ----------------------------
(***************************************************************************)
(* The life of diagnostic archives: the API, the worker, the table and the *)
(* bucket together, with the clock, and what must hold of them.            *)
(***************************************************************************)
EXTENDS DiagnosticWorker

vars == <<row, object, session, sessionAge, req, granted, preverify, faults,
          vloop, task, mloop>>

(***************************************************************************)
(* One tick for everything that is timed.  Timers fire: a verification     *)
(* does not outlive VerifyDeadline, nor a request or the reads of the      *)
(* reconciliation CallTime (provider calls are aborted after 1 to 5        *)
(* minutes, statements after 15 seconds).                                  *)
(***************************************************************************)
Tick ==
  /\ \A t \in task : t.pc \in Leased => t.age < VerifyDeadline
  /\ \A c \in Callers : ~At(c, "idle") => req[c].age < CallTime
  /\ mloop.pc = "reading" => mloop.age < CallTime
  /\ row' = [u \in Uploads |-> Older(row[u])]
  /\ sessionAge' = [u \in Uploads |-> IF Unfinished(u) THEN UpTo(sessionAge[u], UploadWindow)
                                                       ELSE sessionAge[u]]
  /\ req' = [c \in Callers |-> IF At(c, "idle") THEN req[c]
               ELSE [req[c] EXCEPT !.age = @ + 1, !.deadline = Down(@)]]
  /\ mloop' = [mloop EXCEPT !.age = IF mloop.pc = "reading" THEN @ + 1 ELSE @]
  /\ task' = {IF t.pc \in Leased THEN [t EXCEPT !.age = @ + 1] ELSE t : t \in task}
  /\ UNCHANGED <<object, session, granted, preverify, faults, vloop>>

\* The bucket performs a completion whose caller has given up.
LateCompletion(u) ==
  /\ session[u] = "completing" /\ FinishSession(u)
  /\ UNCHANGED <<row, service, faults, worker>>

Init == RowInit /\ StorageInit /\ ServiceInit /\ WorkerInit

Next ==
  \/ ServiceNext /\ UNCHANGED worker
  \/ WorkerNext
  \/ Tick
  \/ \E u \in Uploads : LateCompletion(u)

Spec == Init /\ [][Next]_vars

(***************************************************************************)
(* Fairness: Node runs every continuation that is ready, so a request, a   *)
(* verification and both loops go on; the clock moves; the process manager *)
(* restarts a dead process.  New requests and errors need not happen.      *)
(***************************************************************************)
TaskOf(u) == \E t \in task : t.u = u /\ TaskStep(t)

Fairness ==
  /\ WF_vars(Tick)
  /\ \A c \in Callers : WF_vars(RequestStep(c) /\ UNCHANGED worker)
  /\ WF_vars(VerificationStep)
  /\ \A u \in Uploads : WF_vars(TaskOf(u))
  /\ WF_vars(MaintenanceStep)

FairSpec == Spec /\ Fairness

TypeOK == RowTypeOK /\ StorageTypeOK /\ ServiceTypeOK /\ WorkerTypeOK

(***************************************************************************)
(* Safety                                                                  *)
(***************************************************************************)

\* A tombstone is final for the bucket too: once a row says Deleted or
\* Invalid nothing of the archive is stored, and no completion still under
\* way anywhere can store it afterwards (cleanup, rejectInvalid, remove).
TerminalMeansGone ==
  \A u \in Uploads :
    row[u].status \in Gone => object[u] = "none" /\ session[u] # "completing"

\* An archive that waits for, is in, or has passed verification is in the
\* bucket, and an accepted one is exactly what was declared: no deletion
\* overtakes an acceptance (verifyClaimed against cleanup and moderate).
StoredMeansPresent ==
  \A u \in Uploads :
    /\ row[u].status \in Stored => object[u] # "none"
    /\ row[u].status = "Accepted" => object[u] = "intact"

\* While the holder of a grant may still upload, or its completion is being
\* carried out, nobody aborts its session: neither create's compensation nor
\* the reconciliation of orphans with its two unsynchronised lists.
GrantedSessionKept ==
  \A u \in granted :
    \/ row[u].status = "Uploading" /\ row[u].age < UploadWindow
    \/ \E c \in Callers : row[u].status = "Completing" /\ At(c, "provider") /\ req[c].u = u
    => session[u] = "open"

\* Two verifications never read one archive at the same time: the lease of
\* a VerifyingActive row outlasts the timer of the verification that holds it,
\* also when that verification outlives the batch it belonged to.
OneVerificationPerArchive ==
  \A s, t \in task : s.pc \in Leased /\ t.pc \in Leased /\ s.u = t.u => s = t

\* An archive that still counts as being verified has attempts left:
\* retries, stale leases and restarts never take it past the budget.
RetryBudgetKept ==
  \A u \in Uploads :
    row[u].status \in {"Verifying", "VerifyingActive"} => row[u].attempts < MaxAttempts

\* Capacity lent to a new archive is only ever that of an archive on its way
\* out; one whose removal failed is counted again (scheduleDeletionRetry).
ReleasedIsLeaving ==
  \A u \in Uploads :
    row[u].released => row[u].status \in {"Expired", "Deleting"} \cup Gone

\* Only a mismatch rejects an archive: whatever goes wrong on the way, the
\* bytes that verifyClaimed hands to rejectInvalid are not the declared ones
\* (docs/OPERATIONS.md:87, "retries transient verification failures with
\* bounded backoff and deletes permanent mismatches").
IntactNeverRejected ==
  \A t \in task : t.pc \in {"rejecting", "removing"} => object[t.u] # "intact"

(***************************************************************************)
(* Refinement: the rows and the objects implement ArchiveLifecycle.        *)
(***************************************************************************)
PhaseOf(status) ==
  CASE status = "Absent" -> "absent"
    [] status \in Receiving -> "receiving"
    [] status \in {"Pending", "Verifying", "VerifyingActive"} -> "stored"
    [] status = "Accepted" -> "available"
    [] status \in Discarded -> "discarded"
    [] status \in Gone -> "gone"

Lifecycle == INSTANCE ArchiveLifecycle
               WITH Archives <- Uploads,
                    phase <- [u \in Uploads |-> PhaseOf(row[u].status)],
                    content <- object

\* Every step of the API, the worker, the bucket or the clock is a step of
\* the promised life of each archive, or leaves it as it is.
ImplementsLifecycle == Lifecycle!Spec

(***************************************************************************)
(* Action properties                                                       *)
(***************************************************************************)

\* Discarding is for ever: no late answer, retry or stale claim brings an
\* archive back into a live status, and a tombstone never changes again.
NeverRevived ==
  [][\A u \in Uploads :
       /\ row[u].status \in Discarded => row'[u].status \in Discarded \cup Gone
       /\ row[u].status \in Gone => row'[u].status = row[u].status]_vars

\* A stored, intact archive is given up only for a reason the service
\* states: an administrator's deletion, eviction for capacity, the end of
\* its retention, the deadline of its verification (24 hours after creation
\* unless a download was requested), or a spent retry budget.
DiscardReason(u) ==
  \/ \E c \in Callers : At(c, "discard") /\ req[c].u = u /\ req'[c] = Idle
  \/ row'[u].released
  \/ row[u].age >= Retention
  \/ row[u].deadline = 0
  \/ /\ row[u].status \in {"Verifying", "VerifyingActive"}
     /\ row[u].deadline = NoDeadline /\ row[u].age >= VerifyLifetime
  \/ row[u].status = "VerifyingActive" /\ row[u].attempts + 1 >= MaxAttempts

DiscardedForAReason ==
  [][\A u \in Uploads :
       row[u].status \in Stored /\ object[u] = "intact" /\ row'[u].status \in Discarded
         => DiscardReason(u)]_vars

\* The row of an archive as quotas and retained capacity see it.
Capacity == INSTANCE ArchivePhases

CapacityView(r) ==
  [phase |-> CASE r.status \in Receiving -> "Receiving"
               [] r.status = "Pending" -> IF r.deadline = NoDeadline THEN "Stored" ELSE "Queued"
               [] r.status = "Accepted" -> "Stored"
               [] r.status \in {"Verifying", "VerifyingActive"} -> "Verifying"
               [] r.status \in {"Failed", "Expired"} -> "Discarded"
               [] r.status \in Gone -> "Gone"
               [] OTHER -> r.status,
   released |-> r.released]

\* Whatever requests, worker and cleanup do to an archive, alone or against
\* each other, is a move that Admission counts on.
MovesAsCounted(u) ==
  \/ CapacityView(row'[u]) = CapacityView(row[u])
  \/ Capacity!MayBecome(CapacityView(row[u]), CapacityView(row'[u]))

\* The capacity of an archive is lent out only by its eviction, while it is on
\* its way out, and taken back only when its deletion failed, as Admission
\* expects.
CapacitySound == []ReleasedIsLeaving /\ [][\A u \in Uploads : MovesAsCounted(u)]_vars

(***************************************************************************)
(* Liveness, under FairSpec                                                *)
(***************************************************************************)

\* Whatever happens to it, every archive ends as a tombstone.
EveryArchiveEnds ==
  \A u \in Uploads : row[u].status # "Absent" ~> row[u].status \in Gone

\* No multipart session is left open for good, not even one whose identifier
\* was lost before it reached the table.
EverySessionEnds == \A u \in Uploads : Unfinished(u) ~> ~Unfinished(u)

\* Nothing stays for ever: neither an archive nor a multipart session.
EverythingEnds == EveryArchiveEnds /\ EverySessionEnds

(***************************************************************************)
(* What the documentation says                                             *)
(***************************************************************************)

\* docs/OPERATIONS.md:100, the worker "verifies up to eight archives
\* concurrently" (the bound of verifyPending is VerifyLimit).
VerificationsBounded ==
  Cardinality({t \in task : t.pc \in Streaming}) <= VerifyLimit

\* docs/OPERATIONS.md:94, archives "expire 72 hours after upload": an intact
\* archive nobody deletes, evicts or asks for is kept until then, whenever its
\* background verification happens.  (For instances without administrators,
\* new uploads and errors.)
ExpiresAfterRetention ==
  [][\A u \in Uploads :
       row[u].status \in Stored /\ object[u] = "intact" /\ row'[u].status \in Discarded
         => row[u].age >= Retention]_vars
=============================================================================
