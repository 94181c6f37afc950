------------------------ MODULE DiagnosticRepository ------------------------
(***************************************************************************)
(* The diagnostic_uploads table and the statements of                      *)
(* PostgresDiagnosticRepository.  Every statement is one transaction, so   *)
(* every operator below is one atomic change of "row".                     *)
(*                                                                         *)
(* Time.  The code compares timestamps with the clock only as "at least so *)
(* long ago" or "not yet due".  A row therefore keeps, in ticks, its age   *)
(* (since created_at), its idle time (since updated_at) and the time left  *)
(* until each due date, and Diagnostics!Tick moves them.  Ages stop at the  *)
(* largest bound anything compares them with.                              *)
(***************************************************************************)
EXTENDS Integers, FiniteSets

CONSTANTS
  Uploads,          \* identifiers create() may draw
  Preloaded,        \* archives already stored when a behaviour starts
  DeletingLease,    \* 15 minutes: a Deleting row is claimed again
  StaleLease,       \* 6 hours: a VerifyingActive row is claimed again
  UploadWindow,     \* 12 hours: an upload session, and a Completing row
  VerifyLifetime,   \* 24 hours: default bound on verification
  Retention,        \* 72 hours: expires_at - created_at
  MaxAttempts,      \* verificationMaximumAttempts, and the 8 of claimExpired
  VerifyBackoff,    \* longest verification backoff
  DeletionBackoff   \* longest deletion backoff

ASSUME UploadsAssumption == Preloaded \subseteq Uploads

ASSUME LeaseAssumption ==
  /\ {DeletingLease, StaleLease, UploadWindow, VerifyLifetime, Retention}
       \subseteq Nat \ {0}
  /\ DeletingLease <= StaleLease
  /\ StaleLease <= UploadWindow
  /\ UploadWindow <= VerifyLifetime
  /\ VerifyLifetime <= Retention

ASSUME RetryAssumption ==
  /\ MaxAttempts \in Nat \ {0}
  /\ VerifyBackoff \in Nat
  /\ DeletionBackoff \in Nat

VARIABLE row        \* diagnostic_uploads by id; status "Absent": no such row

(***************************************************************************)
(* uploadStatusSchema.  'Rejected' is in the schema but no statement       *)
(* writes it, so it is no status here.                                     *)
(***************************************************************************)
Receiving == {"Uploading", "Completing"}
Stored    == {"Pending", "Verifying", "VerifyingActive", "Accepted"}
Discarded == {"Failed", "Expired", "Deleting"}
Gone      == {"Deleted", "Invalid"}
Status    == {"Absent"} \cup Receiving \cup Stored \cup Discarded \cup Gone

NoDeadline == -1    \* acceptance_deadline IS NULL

Row == [status     : Status,
        age        : 0 .. Retention,                \* now - created_at
        idle       : 0 .. UploadWindow,             \* now - updated_at
        deadline   : -1 .. VerifyLifetime,          \* acceptance_deadline - now
        providerId : BOOLEAN,                       \* provider_upload_id set
        bound      : BOOLEAN,                       \* every part has its grant
        attempts   : Nat,                           \* verification_attempts
        nextV      : 0 .. VerifyBackoff,            \* until next_verification_attempt_at
        nextD      : 0 .. DeletionBackoff,          \* until next_deletion_attempt_at
        released   : BOOLEAN]                       \* capacity_released

NoRow == [status |-> "Absent", age |-> 0, idle |-> 0, deadline |-> NoDeadline,
          providerId |-> FALSE, bound |-> FALSE, attempts |-> 0,
          nextV |-> 0, nextD |-> 0, released |-> FALSE]

NewRow == [NoRow EXCEPT !.status = "Uploading"]

StoredRow == [NoRow EXCEPT !.status = "Pending", !.bound = TRUE]

(***************************************************************************)
(* A stored row.  The columns that no statement reads in the new status    *)
(* are put back to their initial value, so that rows the program cannot    *)
(* tell apart are one state.                                               *)
(***************************************************************************)
Settled(r) ==
  IF r.status \in Discarded \cup Gone
    THEN [NoRow EXCEPT !.status = r.status,
                       !.providerId = r.providerId,
                       !.nextD = IF r.status = "Failed" THEN r.nextD ELSE 0,
                       !.released = r.released]
    ELSE r

Put(u, r) == row' = [row EXCEPT ![u] = Settled(r)]

(***************************************************************************)
(* transition(id, expected, status, options): callers test the expected    *)
(* status with In and then write.  updated_at := now().                    *)
(***************************************************************************)
In(u, expected) == row[u].status \in expected

Transition(u, status) ==
  Put(u, [row[u] EXCEPT !.status = status, !.idle = 0])

TransitionDeadline(u, status, deadline) ==
  Put(u, [row[u] EXCEPT !.status = status, !.idle = 0, !.deadline = deadline])

TransitionClearingProvider(u, status) ==
  Put(u, [row[u] EXCEPT !.status = status, !.idle = 0, !.providerId = FALSE])

SetProviderUploadId(u) == Put(u, [row[u] EXCEPT !.providerId = TRUE, !.idle = 0])

\* registerPartGrant: "all" when this grant is the last one still missing
RegisterPartGrant(u, all) ==
  Put(u, [row[u] EXCEPT !.bound = @ \/ all, !.idle = 0])

(***************************************************************************)
(* insertWithinQuota.  Which archives are evicted, and whether a quota     *)
(* refuses the insert, is the business of the admission decision; here any *)
(* set of evictable archives may go.                                       *)
(***************************************************************************)
\* mutant: an archive under verification is evicted too
EvictableInUse(u) ==
  row[u].status \in Stored \cup {"Failed", "Expired"} /\ ~row[u].released

Evictable(u) ==
  /\ row[u].status \in {"Pending", "Accepted", "Failed", "Expired"}
  /\ ~row[u].released

InsertWithinQuota(u, evicted) ==
  row' = [v \in Uploads |->
            IF v = u THEN NewRow
            ELSE IF v \in evicted
              THEN Settled([row[v] EXCEPT !.status = "Expired", !.released = TRUE])
              ELSE row[v]]

(***************************************************************************)
(* claimVerification: at most "limit" rows.  SKIP LOCKED passes over every *)
(* row another statement holds at the moment, so ORDER BY promises nothing *)
(* about the rows that are left: the batch is any set of eligible rows.    *)
(***************************************************************************)
RequestedForVerificationEarly(u) ==      \* mutant: the lease of deletions
  \/ row[u].status = "Verifying" /\ row[u].nextV = 0
  \/ row[u].status = "VerifyingActive" /\ row[u].idle >= DeletingLease

RequestedForVerification(u) ==
  \/ row[u].status = "Verifying" /\ row[u].nextV = 0
  \/ row[u].status = "VerifyingActive" /\ row[u].idle >= StaleLease

StoredForVerification(u) ==
  row[u].status = "Pending" /\ row[u].deadline = NoDeadline

VerificationBatches(includeStored, limit) ==
  {S \in SUBSET {u \in Uploads : \/ RequestedForVerification(u)
                                 \/ includeStored /\ StoredForVerification(u)} :
     Cardinality(S) <= limit}

ClaimForVerification(S) ==
  row' = [u \in Uploads |->
            IF u \in S
              THEN [row[u] EXCEPT !.status = "VerifyingActive", !.idle = 0]
              ELSE row[u]]

ScheduleVerificationRetry(u, delay) ==
  Put(u, [row[u] EXCEPT !.status = "Verifying", !.attempts = @ + 1,
                        !.nextV = delay, !.idle = 0])

(***************************************************************************)
(* The bound on verification, read by claimExpired and by                  *)
(* verificationExpiresAt: the acceptance deadline, or 24 hours after       *)
(* created_at when the column is NULL.                                     *)
(***************************************************************************)
VerificationExpired(u) ==
  IF row[u].deadline = NoDeadline
    THEN row[u].age >= VerifyLifetime
    ELSE row[u].deadline = 0

\* mutant: a deletion that was interrupted is not taken up again
DeletionStalledNever(u) == row[u].status = "Deleting" /\ row[u].idle > UploadWindow

DeletionStalled(u) == row[u].status = "Deleting" /\ row[u].idle >= DeletingLease

\* mutant: one attempt too few
VerificationOverEarly(u) ==
  /\ row[u].status \in {"Verifying", "VerifyingActive"}
  /\ VerificationExpired(u) \/ row[u].attempts + 1 >= MaxAttempts

VerificationOver(u) ==
  /\ row[u].status \in {"Verifying", "VerifyingActive"}
  /\ VerificationExpired(u) \/ row[u].attempts >= MaxAttempts

\* claimExpired: the rows the cleanup takes at this moment
Expired(u) ==
  \/ DeletionStalled(u)
  \/ row[u].status = "Accepted" /\ row[u].age >= Retention
  \/ row[u].status = "Pending" /\ (row[u].age >= Retention \/ row[u].deadline = 0)
  \/ row[u].status = "Uploading" /\ row[u].age >= UploadWindow
  \/ row[u].status = "Completing" /\ row[u].idle >= UploadWindow
  \/ VerificationOver(u)
  \/ row[u].status = "Expired"
  \/ row[u].status = "Failed" /\ row[u].nextD = 0

\* LIMIT, and rows locked by others; of rows that are due some are taken
DueBatches ==
  LET due == {u \in Uploads : Expired(u)}
  IN  {S \in SUBSET due : S = {} => due = {}}

ClaimExpired(S) ==
  row' = [u \in Uploads |->
            IF u \in S
              THEN Settled([row[u] EXCEPT !.status = "Deleting"])
              ELSE row[u]]

\* scheduleDeletionRetry also takes the archive back into the capacity count
ScheduleDeletionRetry(u, delay) ==
  Put(u, [row[u] EXCEPT !.status = "Failed", !.nextD = delay, !.released = FALSE])

\* listProviderUploadIds
ProviderUploadIds ==
  {u \in Uploads : /\ row[u].providerId
                   /\ row[u].status \notin {"Deleted", "Expired", "Invalid"}}

(***************************************************************************)
(* One tick of the clock for a row.  idle is read only while the status is *)
(* a lease, age only until the archive is discarded.  UpTo is an           *)
(* abstraction: no query tells apart ages beyond the largest bound.        *)
(***************************************************************************)
UpTo(n, bound) == IF n < bound THEN n + 1 ELSE bound
Down(n) == IF n > 0 THEN n - 1 ELSE n

Older(r) ==
  [r EXCEPT
     !.age      = IF r.status \in Receiving \cup Stored THEN UpTo(@, Retention) ELSE @,
     !.idle     = IF r.status \in {"Completing", "VerifyingActive", "Deleting"}
                    THEN UpTo(@, UploadWindow) ELSE @,
     !.deadline = Down(@),
     !.nextV    = Down(@),
     !.nextD    = Down(@)]

RowInit == row = [u \in Uploads |-> IF u \in Preloaded THEN StoredRow ELSE NoRow]

RowTypeOK == row \in [Uploads -> Row]
=============================================================================
