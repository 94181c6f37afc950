------------------------- MODULE ArchiveLifeProofs -------------------------
(***************************************************************************)
(* What a step may do to an archive, the lease and the budget of its       *)
(* verification, its capacity, the custody of its session, and that        *)
(* Diagnostics implements ArchiveLifecycle.                                *)
(***************************************************************************)
EXTENDS ArchiveProofs

USE DEF Receiving, Stored, Discarded, Gone, Status, NoDeadline
USE DEF InDoubt, InDoubtAtBucket, RetryOrExpire, Reschedule

(***************************************************************************)
(* What the statements leave in the other columns.                         *)
(***************************************************************************)

\* Settling a row keeps its release, and all of it while the archive lives.
LEMMA SettledColumns ==
  ASSUME NEW r \in Row
  PROVE  /\ Settled(r).released = r.released
         /\ r.status \in Dead => Settled(r).attempts = 0
         /\ r.status \notin Dead => Settled(r) = r
<1>1. CASE r.status \in Dead
  <2> DEFINE delay == IF r.status = "Failed" THEN r.nextD ELSE 0
             kept  == [NoRow EXCEPT !.status = r.status, !.providerId = r.providerId,
                                    !.nextD = delay, !.released = r.released]
  <2>1. Settled(r) = kept
    BY <1>1 DEF Settled, Dead
  <2>2. kept.released = r.released /\ kept.attempts = 0
    BY DEF NoRow
  <2>3. QED
    BY <1>1, <2>1, <2>2
<1>2. CASE r.status \notin Dead
  BY <1>2 DEF Settled, Dead
<1>3. QED
  BY <1>1, <1>2

\* The columns a statement on the row of u leaves.
Columns(u, attempts, released) ==
  /\ row'[u].released = released
  /\ row'[u].status \in Dead => row'[u].attempts = 0
  /\ row'[u].status \notin Dead =>
       row'[u].age = row[u].age /\ row'[u].attempts = attempts /\ row'[u].idle = 0

\* Putting a row leaves its columns.
LEMMA PutColumns ==
  ASSUME RowTypeOK, NEW u \in Uploads, NEW r \in Row, Put(u, r),
         r.status \notin Dead => r.age = row[u].age /\ r.idle = 0
  PROVE  Columns(u, r.attempts, r.released)
<1>1. row'[u] = Settled(r)
  BY DEF RowTypeOK, Put
<1>2. Settled(r).status = r.status
  BY SettledRow
<1>3. QED
  BY <1>1, <1>2, SettledColumns DEF Columns

\* The statements on one row keep its age and its attempts while it lives;
\* the two retries count an attempt and take back a release.
LEMMA StatementColumns ==
  ASSUME RowTypeOK, NEW u \in Uploads
  PROVE  /\ \A s \in Status : Transition(u, s) => Columns(u, row[u].attempts, row[u].released)
         /\ \A s \in Status, d \in -1 .. VerifyLifetime :
              TransitionDeadline(u, s, d) => Columns(u, row[u].attempts, row[u].released)
         /\ \A s \in Status :
              TransitionClearingProvider(u, s) => Columns(u, row[u].attempts, row[u].released)
         /\ SetProviderUploadId(u) => Columns(u, row[u].attempts, row[u].released)
         /\ \A all \in BOOLEAN :
              RegisterPartGrant(u, all) => Columns(u, row[u].attempts, row[u].released)
         /\ \A d \in 0 .. VerifyBackoff :
              ScheduleVerificationRetry(u, d) => Columns(u, row[u].attempts + 1, row[u].released)
         /\ \A d \in 0 .. DeletionBackoff :
              ScheduleDeletionRetry(u, d) => Columns(u, row[u].attempts, FALSE)
<1> DEFINE r == row[u]
<1>0. r \in Row
  BY DEF RowTypeOK
<1> HIDE DEF r
<1> DEFINE As(q, attempts, released) ==
             /\ q.age = r.age /\ q.idle = 0 /\ q.attempts = attempts /\ q.released = released
<1>1. ASSUME NEW s \in Status, Transition(u, s)
      PROVE  Columns(u, row[u].attempts, row[u].released)
  <2> DEFINE q == [r EXCEPT !.status = s, !.idle = 0]
  <2>1. q \in Row
    BY <1>0, ColumnType, ColumnRange, Zenon
  <2>2. As(q, r.attempts, r.released)
    BY <1>0 DEF Row
  <2>3. Put(u, q)
    BY <1>1 DEF Transition, r
  <2> HIDE DEF q
  <2>4. QED
    BY <2>1, <2>2, <2>3, PutColumns DEF r
<1>2. ASSUME NEW s \in Status, NEW d \in -1 .. VerifyLifetime, TransitionDeadline(u, s, d)
      PROVE  Columns(u, row[u].attempts, row[u].released)
  <2> DEFINE q == [r EXCEPT !.status = s, !.idle = 0, !.deadline = d]
  <2>1. q \in Row
    BY <1>0, ColumnType, ColumnRange, Zenon
  <2>2. As(q, r.attempts, r.released)
    BY <1>0 DEF Row
  <2>3. Put(u, q)
    BY <1>2 DEF TransitionDeadline, r
  <2> HIDE DEF q
  <2>4. QED
    BY <2>1, <2>2, <2>3, PutColumns DEF r
<1>3. ASSUME NEW s \in Status, TransitionClearingProvider(u, s)
      PROVE  Columns(u, row[u].attempts, row[u].released)
  <2> DEFINE q == [r EXCEPT !.status = s, !.idle = 0, !.providerId = FALSE]
  <2>1. q \in Row
    BY <1>0, ColumnType, ColumnRange, Zenon
  <2>2. As(q, r.attempts, r.released)
    BY <1>0 DEF Row
  <2>3. Put(u, q)
    BY <1>3 DEF TransitionClearingProvider, r
  <2> HIDE DEF q
  <2>4. QED
    BY <2>1, <2>2, <2>3, PutColumns DEF r
<1>4. ASSUME SetProviderUploadId(u)
      PROVE  Columns(u, row[u].attempts, row[u].released)
  <2> DEFINE q == [r EXCEPT !.providerId = TRUE, !.idle = 0]
  <2>1. q \in Row
    BY <1>0, ColumnType, ColumnRange, Zenon
  <2>2. As(q, r.attempts, r.released)
    BY <1>0 DEF Row
  <2>3. Put(u, q)
    BY <1>4 DEF SetProviderUploadId, r
  <2> HIDE DEF q
  <2>4. QED
    BY <2>1, <2>2, <2>3, PutColumns DEF r
<1>5. ASSUME NEW all \in BOOLEAN, RegisterPartGrant(u, all)
      PROVE  Columns(u, row[u].attempts, row[u].released)
  <2> DEFINE q1 == [r EXCEPT !.bound = @ \/ all]
             q  == [q1 EXCEPT !.idle = 0]
  <2>1. q1 \in Row
    BY <1>0, ColumnType, ColumnRange, Zenon
  <2>2. q \in Row
    BY <2>1, ColumnType, ColumnRange, Zenon
  <2>3. As(q, r.attempts, r.released)
    BY <1>0 DEF Row
  <2>4. Put(u, q)
    BY <1>5, Zenon DEF RegisterPartGrant, r
  <2> HIDE DEF q
  <2>5. QED
    BY <2>2, <2>3, <2>4, PutColumns DEF r
<1>6. ASSUME NEW d \in 0 .. VerifyBackoff, ScheduleVerificationRetry(u, d)
      PROVE  Columns(u, row[u].attempts + 1, row[u].released)
  <2> DEFINE q1 == [r EXCEPT !.status = "Verifying"]
             q2 == [q1 EXCEPT !.attempts = @ + 1]
             q  == [q2 EXCEPT !.nextV = d, !.idle = 0]
  <2>1. /\ q1 \in Row /\ q1.attempts = r.attempts
        /\ q1.age = r.age /\ q1.released = r.released
    <3>1. q1 \in Row
      BY <1>0 DEF Row
    <3>2. q1.attempts = r.attempts /\ q1.age = r.age /\ q1.released = r.released
      BY <1>0 DEF Row
    <3>3. QED
      BY <3>1, <3>2
  <2>2. /\ q2 \in Row /\ q2.attempts = r.attempts + 1
        /\ q2.age = r.age /\ q2.released = r.released
    <3> HIDE DEF q1
    <3> QED
      BY <2>1 DEF Row
  <2>3. q \in Row /\ As(q, r.attempts + 1, r.released)
    <3> HIDE DEF q2
    <3>1. q \in Row
      BY <2>2, ColumnType, ColumnRange, Zenon
    <3>2. As(q, r.attempts + 1, r.released)
      BY <2>2 DEF Row
    <3>3. QED
      BY <3>1, <3>2
  <2>4. Put(u, q)
    BY <1>6, Zenon DEF ScheduleVerificationRetry, r
  <2> HIDE DEF q, q2, q1
  <2>5. QED
    BY <2>3, <2>4, PutColumns DEF r
<1>7. ASSUME NEW d \in 0 .. DeletionBackoff, ScheduleDeletionRetry(u, d)
      PROVE  Columns(u, row[u].attempts, FALSE)
  <2> DEFINE q == [r EXCEPT !.status = "Failed", !.nextD = d, !.released = FALSE]
  <2>1. q \in Row
    BY <1>0, ColumnType, ColumnRange, Zenon DEF Status, Discarded
  <2>2. /\ q.status = "Failed"
        /\ q.attempts = r.attempts /\ q.released = FALSE
    BY <1>0 DEF Row
  <2>3. Put(u, q)
    BY <1>7 DEF ScheduleDeletionRetry, r
  <2> HIDE DEF q
  <2>4. q.status \in Dead
    BY <2>2 DEF Dead
  <2>5. QED
    BY <2>1, <2>2, <2>3, <2>4, PutColumns, Zenon DEF r
<1>8. QED
  BY <1>1, <1>2, <1>3, <1>4, <1>5, <1>6, <1>7

\* insertWithinQuota starts a row and releases those it evicts; the two
\* claims write no column but their own.
LEMMA InsertColumns ==
  ASSUME RowTypeOK, NEW u \in Uploads, NEW E, InsertWithinQuota(u, E)
  PROVE  /\ row'[u] = NewRow
         /\ \A v \in E \cap (Uploads \ {u}) :
              row'[v].status = "Expired" /\ row'[v].released = TRUE /\ row'[v].attempts = 0
<1> DEFINE expired(v) == [row[v] EXCEPT !.status = "Expired", !.released = TRUE]
<1>1. \A v \in Uploads : /\ Settled(expired(v)).status = "Expired"
                         /\ Settled(expired(v)).released = TRUE
                         /\ Settled(expired(v)).attempts = 0
  <2> TAKE v \in Uploads
  <2>1. row[v] \in Row
    BY DEF RowTypeOK
  <2>2. expired(v) \in Row
    BY <2>1, ColumnType, Zenon
  <2>3. expired(v).status = "Expired" /\ expired(v).released = TRUE
    BY <2>1 DEF Row
  <2>4. expired(v).status \in Dead
    BY <2>3 DEF Dead
  <2> HIDE DEF expired
  <2>5. QED
    BY <2>2, <2>3, <2>4, SettledRow, SettledColumns
<1>2. row' = [v \in Uploads |-> IF v = u THEN NewRow
                               ELSE IF v \in E THEN Settled(expired(v)) ELSE row[v]]
  BY DEF InsertWithinQuota
<1> HIDE DEF expired
<1>3. QED
  BY <1>1, <1>2

\* A claimed row keeps all but its status and its idle time.
LEMMA ClaimForVerificationColumns ==
  ASSUME RowTypeOK, NEW S, ClaimForVerification(S), NEW v \in Uploads, v \in S
  PROVE  /\ row'[v].idle = 0 /\ row'[v].attempts = row[v].attempts
         /\ row'[v].released = row[v].released /\ row'[v].age = row[v].age
<1>1. row[v] \in Row
  BY DEF RowTypeOK
<1>2. row'[v] = [row[v] EXCEPT !.status = "VerifyingActive", !.idle = 0]
  BY DEF ClaimForVerification
<1>3. QED
  BY <1>1, <1>2 DEF Row

\* A row taken for deletion keeps its release and starts over.
LEMMA ClaimExpiredColumns ==
  ASSUME RowTypeOK, NEW S \in SUBSET Uploads, ClaimExpired(S), NEW v \in S
  PROVE  row'[v].released = row[v].released /\ row'[v].attempts = 0
<1> DEFINE taken == [row[v] EXCEPT !.status = "Deleting"]
<1>1. row[v] \in Row
  BY DEF RowTypeOK
<1>2. taken \in Row
  BY <1>1, ColumnType, Zenon
<1>3. taken.status \in Dead /\ taken.released = row[v].released
  BY <1>1 DEF Row, Dead
<1>4. row'[v] = Settled(taken)
  BY DEF ClaimExpired
<1> HIDE DEF taken
<1>5. QED
  BY <1>2, <1>3, <1>4, SettledColumns

\* A tick moves the ages and due dates of a row.
LEMMA OlderColumns ==
  ASSUME NEW r \in Row
  PROVE  /\ Older(r).attempts = r.attempts /\ Older(r).released = r.released
         /\ Older(r).age = IF r.status \in Receiving \cup Stored
                             THEN UpTo(r.age, Retention) ELSE r.age
         /\ Older(r).idle = IF r.status \in {"Completing", "VerifyingActive", "Deleting"}
                              THEN UpTo(r.idle, UploadWindow) ELSE r.idle
         /\ Older(r).deadline = Down(r.deadline)
<1> DEFINE
      age  == IF r.status \in Receiving \cup Stored THEN UpTo(r.age, Retention) ELSE r.age
      idle == IF r.status \in {"Completing", "VerifyingActive", "Deleting"}
                THEN UpTo(r.idle, UploadWindow) ELSE r.idle
      r1 == [r EXCEPT !.age = IF r.status \in Receiving \cup Stored
                                THEN UpTo(@, Retention) ELSE @]
      r2 == [r1 EXCEPT !.idle = IF r.status \in {"Completing", "VerifyingActive", "Deleting"}
                                  THEN UpTo(@, UploadWindow) ELSE @]
      r3 == [r2 EXCEPT !.deadline = Down(@)]
      r4 == [r3 EXCEPT !.nextV = Down(@)]
      r5 == [r4 EXCEPT !.nextD = Down(@)]
      Like(q) == /\ DOMAIN q = DOMAIN r
                 /\ q.attempts = r.attempts /\ q.released = r.released /\ q.age = age
<1>1. Like(r1) /\ r1.idle = r.idle /\ r1.deadline = r.deadline
  BY DEF Row
<1>2. Like(r2) /\ r2.idle = idle /\ r2.deadline = r.deadline
  <2> HIDE DEF r1, age
  <2> QED
    BY <1>1 DEF Row
<1>3. Like(r3) /\ r3.idle = idle /\ r3.deadline = Down(r.deadline)
  <2> HIDE DEF r2, age, idle
  <2> QED
    BY <1>2 DEF Row
<1>4. Like(r4) /\ r4.idle = idle /\ r4.deadline = Down(r.deadline)
  <2> HIDE DEF r3, age, idle
  <2> QED
    BY <1>3 DEF Row
<1>5. Like(r5) /\ r5.idle = idle /\ r5.deadline = Down(r.deadline)
  <2> HIDE DEF r4, age, idle
  <2> QED
    BY <1>4 DEF Row
<1>6. Older(r) = r5
  BY Zenon DEF Older
<1> HIDE DEF r5
<1>7. QED
  BY <1>5, <1>6

(***************************************************************************)
(* The fates of an archive in one step.                                    *)
(***************************************************************************)
Leaving == {"Expired", "Deleting"} \cup Gone

\* Why a stored archive is given up, its bytes being right or wrong.
Reason(u) == DiscardReason(u) \/ \E t \in task : t.pc = "rejecting" /\ t.u = u

\* Where the status of u goes.
Course(u) ==
  \/ row'[u].status = row[u].status
  \/ row[u].status = "Absent" /\ row'[u].status = "Uploading"
  \/ row[u].status = "Uploading" /\ row'[u].status = "Completing"
  \/ row[u].status = "Completing" /\ row'[u].status = "Pending" /\ object[u] # "none"
  \/ /\ row[u].status \in Stored \ {"Accepted"}
     /\ row'[u].status \in {"Verifying", "VerifyingActive"}
  \/ row[u].status = "VerifyingActive" /\ row'[u].status = "Accepted" /\ object[u] = "intact"
  \/ /\ row[u].status \notin {"Absent"} \cup Gone /\ row'[u].status \in Discarded
     /\ row[u].status \in Stored => Reason(u)
  \/ row[u].status \in Discarded /\ row'[u].status \in Gone /\ object[u] = "none"

\* What becomes of the capacity it takes: only eviction gives it away, only a
\* deletion that failed takes it back, and only a deletion ends it.
Accounted(u) ==
  /\ \/ row'[u].released = row[u].released
     \/ Evictable(u) /\ row'[u].status = "Expired" /\ row'[u].released = TRUE
     \/ row[u].status = "Deleting" /\ row'[u].status = "Failed" /\ row'[u].released = FALSE
     \/ /\ row[u].status = "Absent" /\ row'[u].status = "Uploading"
        /\ row'[u].released = FALSE
  /\ row[u].status = "Deleting" =>
       \/ row'[u].status \in {"Deleting"} \cup Gone
       \/ row'[u].status = "Failed" /\ row'[u].released = FALSE
  /\ row'[u].status \in Gone => row[u].status \in {"Deleting"} \cup Gone
  /\ row[u].status = "Pending" /\ row'[u].status = "Pending" =>
       (row'[u].deadline = NoDeadline <=> row[u].deadline = NoDeadline)

Fate(u) ==
  /\ row'[u].attempts < MaxAttempts
  /\ row'[u].released => row'[u].status \in Leaving
  /\ Course(u)
  /\ Accounted(u)

Fates == \A u \in Uploads : Fate(u)

\* A row nothing is written to stays within its bounds.
LEMMA UntouchedFate ==
  ASSUME LifeInv, NEW u \in Uploads,
         \/ row'[u] = row[u]
         \/ /\ row'[u].status = row[u].status /\ row'[u].attempts = row[u].attempts
            /\ row'[u].released = row[u].released
            /\ row'[u].deadline = NoDeadline <=> row[u].deadline = NoDeadline
  PROVE  Fate(u)
BY DEF LifeInv, BudgetInv, ReleasedIsLeaving, Fate, Course, Accounted, Leaving

\* If no row is written to, all stay.
LEMMA UnchangedFates == LifeInv /\ UNCHANGED row => Fates
BY UntouchedFate DEF Fates

\* A statement on one row decides only on its archive.
LEMMA StatementFates ==
  ASSUME LifeInv, NEW u \in Uploads, NEW s, NEW p, NEW n, NEW b,
         Wrote(u, s, p), Columns(u, n, b),
         s \in Dead \/ n < MaxAttempts, b => s \in Leaving, Course(u), Accounted(u)
  PROVE  Fates
<1>1. 0 < MaxAttempts
  BY RetryAssumption
<1>2. Fate(u)
  BY <1>1 DEF Wrote, Columns, Fate
<1>3. \A v \in Uploads \ {u} : Fate(v)
  BY UntouchedFate DEF Wrote
<1>4. QED
  BY <1>2, <1>3 DEF Fates

\* A statement that keeps the release buries only what is being deleted,
\* and leaves nothing but that of such an archive.
LEMMA StatementAccounted ==
  ASSUME NEW u \in Uploads, NEW s, NEW p, NEW n, Wrote(u, s, p), Columns(u, n, row[u].released),
         row[u].status = "Deleting" => s \in Gone, s \in Gone => row[u].status = "Deleting",
         s = "Pending" => row[u].status # "Pending"
  PROVE  Accounted(u)
BY DEF Wrote, Columns, Accounted

\* The transitions of an archive that is not on its way out, and of one that
\* stays on it.
LEMMA TransitionFates ==
  ASSUME LifeInv, RowTypeOK, NEW u \in Uploads, NEW s \in Status,
         row[u].status \in Leaving => s \in Leaving,
         row[u].status = "Deleting" => s \in Gone, s \in Gone => row[u].status = "Deleting",
         s = "Pending" => row[u].status # "Pending",
         \/ Transition(u, s)
         \/ \E d \in -1 .. VerifyLifetime : TransitionDeadline(u, s, d)
         \/ TransitionClearingProvider(u, s),
         row'[u].status = s => Course(u)
  PROVE  Fates
<1>1. row[u].released => s \in Leaving
  BY DEF LifeInv, ReleasedIsLeaving, Leaving
<1>2. row[u].attempts < MaxAttempts
  BY DEF LifeInv, BudgetInv
<1>3. Columns(u, row[u].attempts, row[u].released)
  BY StatementColumns
<1>4. PICK p : Wrote(u, s, p)
  BY StatementsWrite
<1>5. Course(u)
  BY <1>4 DEF Wrote
<1>6. Accounted(u)
  BY <1>3, <1>4, StatementAccounted
<1>7. QED
  BY <1>1, <1>2, <1>3, <1>4, <1>5, <1>6, StatementFates

\* A request gives an archive up only while it is being received, or with
\* the right of an administrator.
LEMMA RequestFates ==
  ASSUME ArchiveInv, LifeInv, NEW c \in Callers, RequestStep(c)
  PROVE  Fates
<1> DEFINE u == req[c].u
<1>1. RowTypeOK /\ RequestsTypeOK /\ \A d \in Callers : ~At(d, "idle") => req[d].u \in Uploads
  BY Types DEF ArchiveInv
<1>2. UNCHANGED row => Fates
  BY UnchangedFates
<1>3. CASE CreateBegin(c) \/ CreateAbort(c) \/ CompleteProvider(c) \/ CompleteVerifySize(c)
  BY <1>2, <1>3 DEF CreateBegin, CreateAbort, CompleteProvider, CompleteVerifySize
<1>4. CASE CreateRegister(c)
  <2>1. u \in Uploads
    BY <1>1, <1>4 DEF CreateRegister, At
  <2>2. CASE In(u, {"Uploading"}) /\ SetProviderUploadId(u)
    <3>1. Wrote(u, "Uploading", TRUE) /\ Columns(u, row[u].attempts, row[u].released)
      BY <1>1, <2>1, <2>2, StatementsWrite, StatementColumns DEF In
    <3>2. Course(u) /\ ~row[u].released /\ row[u].attempts < MaxAttempts
      BY <2>1, <2>2, <3>1 DEF Course, In, Wrote, LifeInv, ReleasedIsLeaving, BudgetInv
    <3>3. Accounted(u)
      BY <2>1, <2>2, <3>1, StatementAccounted DEF In
    <3>4. PICK p : Wrote(u, "Uploading", p)
      BY <3>1
    <3>5. QED
      BY <2>1, <3>1, <3>2, <3>3, <3>4, StatementFates
  <2>3. QED
    BY <1>2, <1>4, <2>2 DEF CreateRegister
<1>5. CASE PartUrlGrant(c)
  <2>1. u \in Uploads
    BY <1>1, <1>5 DEF PartUrlGrant, At
  <2>2. ASSUME In(u, {"Uploading"}), NEW all \in BOOLEAN, RegisterPartGrant(u, all) PROVE Fates
    <3>1. Wrote(u, "Uploading", row[u].providerId) /\ Columns(u, row[u].attempts, row[u].released)
      BY <1>1, <2>1, <2>2, StatementsWrite, StatementColumns DEF In
    <3>2. Course(u) /\ ~row[u].released /\ row[u].attempts < MaxAttempts
      BY <2>1, <2>2, <3>1 DEF Course, In, Wrote, LifeInv, ReleasedIsLeaving, BudgetInv
    <3>3. Accounted(u)
      BY <2>1, <2>2, <3>1, StatementAccounted DEF In
    <3>4. QED
      BY <2>1, <3>1, <3>2, <3>3, StatementFates
  <2>3. QED
    BY <1>2, <1>5, <2>2 DEF PartUrlGrant
<1>6. CASE CreateUnregister(c) \/ CompleteClaim(c) \/ CompleteFail(c)
  <2>1. u \in Uploads
    BY <1>1, <1>6 DEF CreateUnregister, CompleteClaim, CompleteFail, At
  <2>2. CASE In(u, {"Uploading", "Completing"}) /\ Transition(u, "Failed")
    BY <1>1, <2>1, <2>2, TransitionFates DEF In, Leaving, Course
  <2>3. CASE In(u, {"Uploading"}) /\ Transition(u, "Completing")
    BY <1>1, <2>1, <2>3, TransitionFates DEF In, Leaving, Course
  <2>4. QED
    BY <1>2, <1>6, <2>2, <2>3 DEF CreateUnregister, CompleteClaim, CompleteFail, In
<1>7. CASE CompleteFinish(c)
  <2>1. u \in Uploads /\ (row[u].status = "Completing" => object[u] # "none")
    BY <1>1, <1>7 DEF CompleteFinish, At, ArchiveInv, CompletionInv
  <2>2. CASE In(u, {"Completing"}) /\ TransitionClearingProvider(u, "Pending")
    BY <1>1, <2>1, <2>2, TransitionFates DEF In, Leaving, Course
  <2>3. QED
    BY <1>2, <1>7, <2>2 DEF CompleteFinish
<1>8. CASE ModerateDelete(c)
  <2>1. u \in Uploads /\ req[c].seen \in Deletable /\ At(c, "discard")
    BY <1>1, <1>8 DEF ModerateDelete, At, ArchiveInv, CompletionInv
  <2>2. CASE In(u, {req[c].seen}) /\ Transition(u, "Expired")
    <3>1. req'[c] = Idle
      BY <1>1, <1>8 DEF ModerateDelete, Finish, RequestsTypeOK
    <3>2. Reason(u)
      BY <2>1, <3>1 DEF Reason, DiscardReason
    <3>3. row[u].status \notin {"Absent", "Deleting"} \cup Gone
      BY <2>1, <2>2 DEF In, Deletable
    <3>4. QED
      BY <1>1, <2>1, <2>2, <3>2, <3>3, TransitionFates DEF Leaving, Course
  <2>3. QED
    BY <1>2, <1>8, <2>2 DEF ModerateDelete
<1>9. CASE DownloadQueue(c)
  <2>1. u \in Uploads /\ req[c].deadline \in -1 .. VerifyLifetime
    BY <1>1, <1>9 DEF DownloadQueue, At, RequestsTypeOK, Request
  <2>2. CASE In(u, {"Pending"}) /\ TransitionDeadline(u, "Verifying", req[c].deadline)
    BY <1>1, <2>1, <2>2, TransitionFates DEF In, Leaving, Course
  <2>3. QED
    BY <1>2, <1>9, <2>2 DEF DownloadQueue
<1>10. QED
  BY <1>3, <1>4, <1>5, <1>6, <1>7, <1>8, <1>9 DEF RequestStep

\* Every step of the API: eviction releases what it discards.
LEMMA ServiceFates ==
  ASSUME ArchiveInv, LifeInv, ServiceNext
  PROVE  Fates
<1>1. RowTypeOK
  BY Types DEF ArchiveInv
<1>2. ASSUME NEW c \in Callers, NEW u \in Uploads, CreateInsert(c, u) PROVE Fates
  <2>1. PICK E \in SUBSET {v \in Uploads : Evictable(v)} : InsertWithinQuota(u, E)
    BY <1>2 DEF CreateInsert
  <2>2. Fate(u)
    <3>1. row'[u] = NewRow /\ row[u].status = "Absent"
      BY <1>1, <1>2, <2>1, InsertColumns DEF CreateInsert, In
    <3>2. NewRow.status = "Uploading" /\ NewRow.attempts = 0 /\ NewRow.released = FALSE
      BY DEF NewRow, NoRow
    <3>3. QED
      BY <3>1, <3>2, RetryAssumption DEF Fate, Course, Accounted
  <2>3. ASSUME NEW v \in Uploads \ {u} PROVE Fate(v)
    <3>1. CASE v \in E
      <4>1. /\ row'[v].status = "Expired" /\ row'[v].released = TRUE /\ row'[v].attempts = 0
            /\ Evictable(v) /\ row[v].status \notin {"Absent", "Deleting"} \cup Gone
        BY <1>1, <2>1, <3>1, InsertColumns DEF Evictable
      <4>2. Reason(v)
        BY <4>1 DEF Reason, DiscardReason
      <4>3. QED
        BY <4>1, <4>2, RetryAssumption DEF Fate, Course, Accounted, Leaving
    <3>2. CASE v \notin E
      <4>1. row'[v] = row[v]
        BY <1>1, <2>1, <3>2, InsertWrites
      <4>2. QED
        BY <4>1, UntouchedFate
    <3>3. QED
      BY <3>1, <3>2
  <2>4. QED
    BY <2>2, <2>3 DEF Fates
<1>3. ASSUME NEW c \in Callers, NewRequest(c) PROVE Fates
  BY <1>2, <1>3, UnchangedFates DEF NewRequest, PartUrlFind, CompleteFind, ModerateFind, DownloadFind
<1>4. ASSUME NEW c \in Callers, RequestStep(c) PROVE Fates
  BY <1>4, RequestFates
<1>5. CASE \/ \E enabled \in BOOLEAN : SetPreverification(enabled)
           \/ \E S \in SUBSET Callers \ {{}} : RequestsLost(S)
  BY <1>5, UnchangedFates DEF SetPreverification, RequestsLost
<1>6. QED
  BY <1>3, <1>4, <1>5 DEF ServiceNext

\* An attempt is counted within the budget, or the archive is discarded
\* because it was the last one or came too late.
LEMMA RetryFates ==
  ASSUME ArchiveInv, LifeInv, NEW t \in task, t.pc = "retrying", RetryOrExpire(t)
  PROVE  Fates
<1> DEFINE u == t.u
<1>1. RowTypeOK /\ u \in Uploads /\ t \in Task /\ row[u] \in Row /\ MaxAttempts \in Nat
  BY Types, RetryAssumption DEF ArchiveInv, RowTypeOK
<1>2. /\ row[u].status = "VerifyingActive" /\ row[u].attempts = t.attempts
      /\ t.attempts \in Nat /\ ~row[u].released
  BY <1>1 DEF LeaseHeld, In, LifeInv, LeaseInv, ReleasedIsLeaving, Leased, Dead, Task
<1>3. CASE (AttemptsSpent(t) \/ VerificationExpired(u)) /\ Transition(u, "Expired")
  <2>1. Reason(u)
    BY <1>2, <1>3 DEF Reason, DiscardReason, AttemptsSpent, VerificationExpired
  <2>2. QED
    BY <1>1, <1>2, <1>3, <2>1, TransitionFates DEF Leaving, Course
<1>4. ASSUME ~AttemptsSpent(t), NEW delay \in 0 .. VerifyBackoff,
             ScheduleVerificationRetry(u, delay)
      PROVE  Fates
  <2>1. /\ Wrote(u, "Verifying", row[u].providerId)
        /\ Columns(u, row[u].attempts + 1, row[u].released)
    BY <1>1, <1>4, StatementsWrite, StatementColumns
  <2>2. row[u].attempts + 1 < MaxAttempts
    BY <1>1, <1>2, <1>4 DEF AttemptsSpent
  <2>3. Course(u)
    BY <1>2, <2>1 DEF Course, Wrote
  <2>4. Accounted(u)
    BY <1>1, <1>2, <2>1, StatementAccounted
  <2>5. QED
    BY <1>1, <1>2, <2>1, <2>2, <2>3, <2>4, StatementFates
<1>5. QED
  BY <1>3, <1>4

\* A deletion that is put off is counted again.
LEMMA RescheduleFates ==
  ASSUME ArchiveInv, LifeInv, NEW u \in Uploads, Reschedule(u)
  PROVE  Fates
<1>1. RowTypeOK /\ row[u].status = "Deleting"
  BY Types DEF ArchiveInv, In
<1>2. PICK delay \in 0 .. DeletionBackoff : ScheduleDeletionRetry(u, delay)
  OBVIOUS
<1>3. Wrote(u, "Failed", row[u].providerId) /\ Columns(u, row[u].attempts, FALSE)
  BY <1>1, <1>2, StatementsWrite, StatementColumns
<1>4. Course(u)
  BY <1>1, <1>3 DEF Course, Wrote
<1>5. row[u].attempts < MaxAttempts
  BY DEF LifeInv, BudgetInv
<1>6. Accounted(u)
  BY <1>1, <1>3 DEF Accounted, Wrote, Columns
<1>7. QED
  BY <1>3, <1>4, <1>5, <1>6, StatementFates

\* A verification accepts the declared bytes, counts an attempt, or gives
\* up what it found to be wrong.
LEMMA TaskFates ==
  ASSUME ArchiveInv, LifeInv, NEW t \in task, TaskStep(t)
  PROVE  Fates
<1> DEFINE u == t.u
<1>1. RowTypeOK /\ u \in Uploads
  BY Types DEF ArchiveInv
<1>2. UNCHANGED row => Fates
  BY UnchangedFates
<1>3. CASE VerifyObject(t) \/ VerifyInterrupted(t) \/ RejectRemove(t)
  BY <1>2, <1>3 DEF VerifyObject, VerifyInterrupted, RejectRemove
<1>4. CASE VerifyAccept(t)
  <2>1. CASE LeaseHeld(t) /\ TransitionDeadline(u, "Accepted", NoDeadline)
    <3>1. row[u].status = "VerifyingActive" /\ object[u] = "intact"
      BY <1>4, <2>1 DEF VerifyAccept, LeaseHeld, In, ArchiveInv, VerificationInv, Dead
    <3>2. NoDeadline \in -1 .. VerifyLifetime
      BY Times
    <3>3. row'[u].status = "Accepted" => Course(u)
      BY <3>1 DEF Course
    <3>4. QED
      BY <1>1, <2>1, <3>1, <3>2, <3>3, TransitionFates DEF Leaving
  <2>2. QED
    BY <1>2, <1>4, <2>1 DEF VerifyAccept
<1>5. CASE VerifyRetry(t)
  BY <1>2, <1>5, RetryFates DEF VerifyRetry
<1>6. CASE RejectInvalid(t)
  <2>1. CASE LeaseHeld(t) /\ Transition(u, "Deleting")
    <3>1. Reason(u)
      BY <1>6 DEF RejectInvalid, Reason
    <3>2. QED
      BY <1>1, <2>1, <3>1, TransitionFates DEF Leaving, Course, LeaseHeld, In
  <2>2. QED
    BY <1>2, <1>6, <2>1 DEF RejectInvalid
<1>7. CASE RejectFinish(t)
  <2>1. object[u] = "none"
    BY <1>7 DEF RejectFinish, ArchiveInv, VerificationInv
  <2>2. CASE In(u, {"Deleting"}) /\ Transition(u, "Invalid")
    BY <1>1, <2>1, <2>2, TransitionFates DEF Leaving, Course, In
  <2>3. QED
    BY <1>2, <1>7, <2>2 DEF RejectFinish
<1>8. CASE RejectReschedule(t)
  BY <1>1, <1>2, <1>8, RescheduleFates DEF RejectReschedule
<1>9. QED
  BY <1>3, <1>4, <1>5, <1>6, <1>7, <1>8 DEF TaskStep

\* The cleanup takes a stored archive only when its time or its budget is
\* over, and buries what it has deleted.
LEMMA MaintenanceFates ==
  ASSUME ArchiveInv, LifeInv, MaintenanceStep
  PROVE  Fates
<1> DEFINE u == mloop.u
<1>1. RowTypeOK /\ (mloop.pc \in Cleaning \ {"next"} => u \in Uploads)
  BY Types DEF ArchiveInv
<1>2. UNCHANGED row => Fates
  BY UnchangedFates
<1>3. CASE CleanupClaim
  <2> SUFFICES ASSUME NEW v \in Uploads PROVE Fate(v)
    BY DEF Fates
  <2>0. PICK S \in SUBSET Uploads : ClaimExpired(S) /\ \A w \in S : Expired(w)
    BY <1>3 DEF CleanupClaim, DueBatches
  <2>1. CASE v \notin S
    <3>1. row'[v] = row[v]
      BY <1>1, <2>0, <2>1, ClaimExpiredWrites
    <3>2. QED
      BY <3>1, UntouchedFate
  <2>2. CASE v \in S
    <3>0. Expired(v)
      BY <2>0, <2>2
    <3>1. /\ row'[v].status = "Deleting" /\ row'[v].attempts = 0
          /\ row'[v].released = row[v].released
      BY <1>1, <2>0, <2>2, ClaimExpiredWrites, ClaimExpiredColumns
    <3>2. row[v].status \notin {"Absent"} \cup Gone
      BY <3>0 DEF Expired, DeletionStalled, VerificationOver
    <3>3. ASSUME row[v].status \in Stored PROVE Reason(v)
      <4>1. row[v].attempts < MaxAttempts /\ row[v] \in Row /\ MaxAttempts \in Nat
        BY <1>1, RetryAssumption DEF LifeInv, BudgetInv, RowTypeOK
      <4>2. ~(row[v].attempts >= MaxAttempts)
        BY <4>1 DEF Row
      <4>3. QED
        BY <3>0, <3>3, <4>2
           DEF Expired, DeletionStalled, VerificationOver, VerificationExpired, Reason, DiscardReason
    <3>4. QED
      BY <3>1, <3>2, <3>3, RetryAssumption DEF Fate, Course, Accounted, Leaving
  <2>3. QED
    BY <2>1, <2>2
<1>4. CASE CleanupFinish
  <2>1. u \in Uploads /\ object[u] = "none"
    BY <1>1, <1>4 DEF CleanupFinish, Cleaning, ArchiveInv, CleanupInv
  <2>2. CASE In(u, {"Deleting"}) /\ TransitionClearingProvider(u, "Deleted")
    BY <1>1, <2>1, <2>2, TransitionFates DEF Leaving, Course, In
  <2>3. QED
    BY <1>2, <1>4, <2>2 DEF CleanupFinish
<1>5. CASE CleanupRetry
  <2>1. u \in Uploads
    BY <1>1, <1>5 DEF CleanupRetry, Cleaning
  <2>2. QED
    BY <1>2, <1>5, <2>1, RescheduleFates DEF CleanupRetry
<1>6. CASE \/ CleanupNext \/ CleanupAbort \/ CleanupDelete \/ ReconcileList \/ ReconcileReference
           \/ ReconcileFail \/ ReconcileCutoff \/ ReconcileAbort
  BY <1>2, <1>6
     DEF CleanupNext, CleanupAbort, CleanupDelete, ReconcileList, ReconcileReference,
         ReconcileFail, ReconcileCutoff, ReconcileAbort
<1>7. QED
  BY <1>3, <1>4, <1>5, <1>6 DEF MaintenanceStep

\* Every step leaves every archive to one of its fates.
LEMMA StepFates ==
  ASSUME ArchiveInv, LifeInv, [Next]_vars
  PROVE  Fates
<1>1. RowTypeOK
  BY Types DEF ArchiveInv
<1>2. CASE VerificationClaim
  <2>1. PICK S \in VerificationBatches(vloop.includeStored, VerifyLimit) : ClaimForVerification(S)
    BY <1>2 DEF VerificationClaim
  <2>2. S \subseteq Uploads /\ \A u \in S : row[u].status \in Stored \ {"Accepted"}
    BY DEF VerificationBatches, RequestedForVerification, StoredForVerification
  <2> SUFFICES ASSUME NEW v \in Uploads PROVE Fate(v)
    BY DEF Fates
  <2>3. CASE v \in S
    <3>1. /\ row'[v].status = "VerifyingActive" /\ row'[v].attempts = row[v].attempts
          /\ row'[v].released = row[v].released
      BY <1>1, <2>1, <2>3, ClaimForVerificationWrites, ClaimForVerificationColumns
    <3>2. row[v].status \in Stored \ {"Accepted"}
      BY <2>2, <2>3
    <3>3. QED
      BY <3>1, <3>2 DEF Fate, Course, Accounted, LifeInv, BudgetInv, ReleasedIsLeaving
  <2>4. CASE v \notin S
    <3>1. row'[v] = row[v]
      BY <1>1, <2>1, <2>4, ClaimForVerificationWrites
    <3>2. QED
      BY <3>1, UntouchedFate
  <2>5. QED
    BY <2>3, <2>4
<1>3. CASE Tick
  <2> SUFFICES ASSUME NEW v \in Uploads PROVE Fate(v)
    BY DEF Fates
  <2>1. row'[v] = Older(row[v]) /\ row[v] \in Row
    BY <1>1, <1>3 DEF Tick, RowTypeOK
  <2>2. row[v].deadline \in -1 .. VerifyLifetime
    BY <2>1 DEF Row
  <2>3. row'[v].deadline = NoDeadline <=> row[v].deadline = NoDeadline
    BY <2>1, <2>2, OlderColumns, Times DEF Down
  <2>4. QED
    BY <2>1, <2>3, OlderRow, OlderColumns, UntouchedFate
<1>4. CASE \/ VerificationRead \/ VerificationJoin \/ WorkerCrash
           \/ \E u \in Uploads : LateCompletion(u)
           \/ UNCHANGED vars
  BY <1>4, UnchangedFates
     DEF VerificationRead, VerificationJoin, WorkerCrash, LateCompletion, vars
<1>5. QED
  BY <1>2, <1>3, <1>4, ServiceFates, TaskFates, MaintenanceFates
     DEF Next, WorkerNext, VerificationStep

(***************************************************************************)
(* The bytes of an archive in one step.                                    *)
(***************************************************************************)

\* They arrive once, while it is completed or after it was given up, ...
Arrives(u) ==
  /\ object[u] = "none" /\ session[u] # "completed"
  /\ row[u].status \in {"Completing"} \cup Discarded

\* ... and are deleted once it is given up; the row waits for both.
ObjectFate(u) ==
  \/ object'[u] = object[u]
  \/ UNCHANGED row /\ Arrives(u)
  \/ UNCHANGED row /\ object'[u] = "none" /\ row[u].status \in Dead

ObjectFates == \A u \in Uploads : ObjectFate(u)

\* The bucket joins the parts of one archive ...
LEMMA FinishSessionFates ==
  ASSUME ArchiveInv, NEW u \in Uploads, Completable(u), FinishSession(u), UNCHANGED row
  PROVE  ObjectFates
<1>1. Arrives(u)
  BY Types DEF ArchiveInv, CompletionInv, BytesInv, Completable, RowTypeOK, Row, At, Arrives,
               FinishSession, Unfinished
<1>2. \A v \in Uploads \ {u} : object'[v] = object[v]
  BY Types DEF ArchiveInv, FinishSession, StorageTypeOK
<1>3. QED
  BY <1>1, <1>2 DEF ObjectFates, ObjectFate

\* ... and deletes those of one archive.
LEMMA DeleteFates ==
  ASSUME ArchiveInv, NEW u \in Uploads, row[u].status \in Dead, DeleteEveryVersion(u),
         UNCHANGED row
  PROVE  ObjectFates
<1>1. object'[u] = "none" /\ \A v \in Uploads \ {u} : object'[v] = object[v]
  BY Types DEF ArchiveInv, DeleteEveryVersion, StorageTypeOK
<1>2. QED
  BY <1>1 DEF ObjectFates, ObjectFate

\* Every step leaves the bytes of every archive to one of their fates.
LEMMA StepObjects ==
  ASSUME ArchiveInv, [Next]_vars
  PROVE  ObjectFates
<1>1. UNCHANGED object => ObjectFates
  BY DEF ObjectFates, ObjectFate
<1>2. /\ UNCHANGED provider => UNCHANGED object
      /\ \A u : OpenSession(u) \/ AbandonCompletion(u) \/ AbortSession(u) => UNCHANGED object
  BY DEF provider, OpenSession, AbandonCompletion, AbortSession
<1>3. ASSUME NEW c \in Callers, RequestStep(c) PROVE ObjectFates
  <2>1. CASE CompleteProvider(c)
    <3>1. /\ req[c].u \in Uploads /\ UNCHANGED row
          /\ session[req[c].u] = "open" => Completable(req[c].u)
      BY <2>1, Types DEF CompleteProvider, At, ArchiveInv, Completable
    <3>2. QED
      BY <1>1, <1>2, <2>1, <3>1, FinishSessionFates DEF CompleteProvider
  <2>2. CASE ~CompleteProvider(c)
    BY <1>1, <1>2, <1>3, <2>2
       DEF RequestStep, CreateBegin, CreateRegister, CreateAbort, CreateUnregister, PartUrlGrant,
           CompleteClaim, CompleteVerifySize, CompleteFinish, CompleteFail, ModerateDelete,
           DownloadQueue
  <2>3. QED
    BY <2>1, <2>2
<1>4. CASE ServiceNext
  <2>1. CASE \E c \in Callers : NewRequest(c)
    BY <1>1, <1>2, <2>1
       DEF NewRequest, CreateInsert, PartUrlFind, CompleteFind, ModerateFind, DownloadFind
  <2>2. CASE \/ \E enabled \in BOOLEAN : SetPreverification(enabled)
             \/ \E S \in SUBSET Callers \ {{}} : RequestsLost(S)
    BY <1>1, <1>2, <2>2 DEF SetPreverification, RequestsLost
  <2>3. QED
    BY <1>3, <1>4, <2>1, <2>2 DEF ServiceNext
<1>5. ASSUME NEW t \in task, TaskStep(t) PROVE ObjectFates
  <2>1. CASE RejectRemove(t)
    <3>1. t.u \in Uploads /\ row[t.u].status \in Dead /\ UNCHANGED row
      BY <2>1, Types DEF RejectRemove, ArchiveInv, VerificationInv
    <3>2. QED
      BY <1>1, <1>2, <2>1, <3>1, DeleteFates DEF RejectRemove
  <2>2. CASE ~RejectRemove(t)
    BY <1>1, <1>2, <1>5, <2>2
       DEF TaskStep, VerifyObject, VerifyInterrupted, VerifyAccept, VerifyRetry, RejectInvalid,
           RejectFinish, RejectReschedule
  <2>3. QED
    BY <2>1, <2>2
<1>6. CASE MaintenanceStep
  <2>1. CASE CleanupDelete
    <3>1. mloop.u \in Uploads /\ row[mloop.u].status \in Dead /\ UNCHANGED row
      BY <2>1, Types DEF CleanupDelete, ArchiveInv, CleanupInv, Cleaning
    <3>2. QED
      BY <1>1, <1>2, <2>1, <3>1, DeleteFates DEF CleanupDelete
  <2>2. CASE ~CleanupDelete
    BY <1>1, <1>2, <1>6, <2>2
       DEF MaintenanceStep, CleanupClaim, CleanupNext, CleanupAbort, CleanupFinish, CleanupRetry,
           ReconcileList, ReconcileReference, ReconcileFail, ReconcileCutoff, ReconcileAbort
  <2>3. QED
    BY <2>1, <2>2
<1>7. CASE VerificationStep \/ WorkerCrash \/ Tick \/ UNCHANGED vars
  BY <1>1, <1>2, <1>7
     DEF VerificationStep, VerificationRead, VerificationClaim, VerificationJoin, WorkerCrash,
         Tick, vars
<1>8. ASSUME NEW u \in Uploads, LateCompletion(u) PROVE ObjectFates
  BY <1>8, FinishSessionFates DEF LateCompletion, Completable
<1>9. QED
  BY <1>4, <1>5, <1>6, <1>7, <1>8 DEF Next, WorkerNext

(***************************************************************************)
(* Diagnostics implements ArchiveLifecycle.                                *)
(***************************************************************************)

\* The phase of each status.
LEMMA Phases ==
  /\ \A s \in Status : PhaseOf(s) \in Lifecycle!Phase
  /\ PhaseOf("Absent") = "absent"
  /\ \A s \in Receiving : PhaseOf(s) = "receiving"
  /\ \A s \in Stored \ {"Accepted"} : PhaseOf(s) = "stored"
  /\ PhaseOf("Accepted") = "available"
  /\ \A s \in Discarded : PhaseOf(s) = "discarded"
  /\ \A s \in Gone : PhaseOf(s) = "gone"
BY DEF PhaseOf, Lifecycle!Phase

\* What the fates of a row and of its bytes are in the life of the archive.
LEMMA FateIsAStep ==
  ASSUME TypeOK, TypeOK', ArchiveInv, NEW u \in Uploads, Course(u), ObjectFate(u)
  PROVE  Lifecycle!Step(u)
<1> DEFINE from == PhaseOf(row[u].status)
           to   == PhaseOf(row'[u].status)
<1>1. /\ row[u].status \in Status /\ row'[u].status \in Status
      /\ object[u] \in Object /\ object'[u] \in Object
  BY Types DEF TypeOK, RowTypeOK, StorageTypeOK, Row
<1>2. /\ [v \in Uploads |-> PhaseOf(row[v].status)][u] = from
      /\ [v \in Uploads |-> PhaseOf(row'[v].status)][u] = to
  OBVIOUS
<1> HIDE DEF from, to
<1>3. CASE object'[u] = object[u]
  <2>1. CASE row'[u].status = row[u].status
    <3>1. from = to
      BY <2>1 DEF from, to
    <3>2. QED
      BY <1>2, <1>3, <3>1 DEF Lifecycle!Step, Lifecycle!Keeps
  <2>2. CASE row[u].status = "Absent" /\ row'[u].status = "Uploading"
    <3>1. from = "absent" /\ to = "receiving"
      BY <2>2, Phases DEF from, to
    <3>2. QED
      BY <1>2, <1>3, <3>1 DEF Lifecycle!Step, Lifecycle!Announce, Lifecycle!Moves
  <2>3. CASE row[u].status = "Uploading" /\ row'[u].status = "Completing"
    <3>1. from = "receiving" /\ to = "receiving"
      BY <2>3, Phases DEF from, to
    <3>2. QED
      BY <1>2, <1>3, <3>1 DEF Lifecycle!Step, Lifecycle!Keeps
  <2>4. CASE row[u].status = "Completing" /\ row'[u].status = "Pending" /\ object[u] # "none"
    <3>1. from = "receiving" /\ to = "stored"
      BY <2>4, Phases DEF from, to
    <3>2. QED
      BY <1>2, <1>3, <2>4, <3>1 DEF Lifecycle!Step, Lifecycle!Store, Lifecycle!Moves
  <2>5. CASE /\ row[u].status \in Stored \ {"Accepted"}
             /\ row'[u].status \in {"Verifying", "VerifyingActive"}
    <3>1. from = "stored" /\ to = "stored"
      BY <2>5, Phases DEF from, to
    <3>2. QED
      BY <1>2, <1>3, <3>1 DEF Lifecycle!Step, Lifecycle!Keeps
  <2>6. CASE /\ row[u].status = "VerifyingActive" /\ row'[u].status = "Accepted"
             /\ object[u] = "intact"
    <3>1. from = "stored" /\ to = "available"
      BY <2>6, Phases DEF from, to
    <3>2. QED
      BY <1>2, <1>3, <2>6, <3>1 DEF Lifecycle!Step, Lifecycle!Release, Lifecycle!Moves
  <2>7. CASE row[u].status \notin {"Absent"} \cup Gone /\ row'[u].status \in Discarded
    <3>1. from \in {"receiving", "stored", "available", "discarded"} /\ to = "discarded"
      BY <1>1, <2>7, Phases DEF from, to
    <3>2. QED
      BY <1>2, <1>3, <3>1 DEF Lifecycle!Step, Lifecycle!Discard, Lifecycle!Moves, Lifecycle!Keeps
  <2>8. CASE row[u].status \in Discarded /\ row'[u].status \in Gone /\ object[u] = "none"
    <3>1. from = "discarded" /\ to = "gone"
      BY <2>8, Phases DEF from, to
    <3>2. QED
      BY <1>2, <1>3, <2>8, <3>1 DEF Lifecycle!Step, Lifecycle!Bury, Lifecycle!Moves
  <2>9. QED
    BY <2>1, <2>2, <2>3, <2>4, <2>5, <2>6, <2>7, <2>8 DEF Course
<1>4. CASE object'[u] # object[u] /\ UNCHANGED row /\ Arrives(u)
  <2>1. from = to /\ from \in {"receiving", "discarded"}
    BY <1>4, Phases DEF Arrives, from, to
  <2>2. object[u] = "none" /\ object'[u] \in {"intact", "corrupt"}
    BY <1>1, <1>4 DEF Arrives, Object
  <2>3. QED
    BY <1>2, <2>1, <2>2 DEF Lifecycle!Step, Lifecycle!Arrive, Lifecycle!Keeps
<1>5. CASE object'[u] # object[u] /\ UNCHANGED row /\ object'[u] = "none" /\ row[u].status \in Dead
  <2>1. row[u].status \in Discarded
    BY <1>5 DEF Dead, ArchiveInv, BytesInv
  <2>2. from = to /\ from = "discarded"
    BY <1>5, <2>1, Phases DEF from, to
  <2>3. QED
    BY <1>2, <1>5, <2>2 DEF Lifecycle!Step, Lifecycle!Erase, Lifecycle!Keeps
<1>6. QED
  BY <1>3, <1>4, <1>5 DEF ObjectFate

\* Every step is one of the lifecycle, ...
LEMMA LifecycleStep ==
  ArchiveInv /\ LifeInv /\ [Next]_vars => Lifecycle!Next
<1> SUFFICES ASSUME ArchiveInv, LifeInv, [Next]_vars PROVE Lifecycle!Next
  OBVIOUS
<1>1. TypeOK /\ TypeOK'
  BY TypeStep DEF ArchiveInv
<1>2. \A u \in Uploads : Lifecycle!Step(u)
  BY <1>1, StepFates, StepObjects, FateIsAStep DEF Fates, Fate, ObjectFates
<1>3. [u \in Uploads |-> PhaseOf(row'[u].status)] \in [Uploads -> Lifecycle!Phase]
  <2>1. \A u \in Uploads : row'[u].status \in Status
    BY <1>1 DEF TypeOK, RowTypeOK, Row
  <2>2. QED
    BY <2>1, Phases
<1>4. object' \in [Uploads -> Lifecycle!Content]
  BY <1>1 DEF TypeOK, StorageTypeOK, Object, Lifecycle!Content
<1>5. QED
  BY <1>2, <1>3, <1>4 DEF Lifecycle!Next

\* ... and the initial states are its initial states.
LEMMA LifecycleInit == Init => Lifecycle!Init
<1> SUFFICES ASSUME Init PROVE Lifecycle!Init
  OBVIOUS
<1>1. \A u \in Uploads :
        row[u].status = IF u \in Preloaded THEN "Pending" ELSE "Absent"
  BY DEF Init, RowInit, StoredRow, NoRow
<1>2. \A u \in Uploads :
        PhaseOf(row[u].status) = IF u \in Preloaded THEN "stored" ELSE "absent"
  BY <1>1, Phases
<1>3. /\ object \in [Uploads -> Object]
      /\ \A u \in Uploads : (object[u] = "none") = (u \notin Preloaded)
  BY DEF Init, StorageInit
<1>4. QED
  BY <1>2, <1>3 DEF Lifecycle!Init, Lifecycle!Content, Object

(***************************************************************************)
(* The lease, and what a verification rejects.                             *)
(***************************************************************************)
TaskInv == LeaseInv /\ OneVerificationPerArchive /\ (BodylessAnswers \/ IntactNeverRejected)

\* A statement that is not the verification's own leaves a row that a
\* verification may hold as it is, or discards it.
RowsHeld ==
  \A u \in Uploads : row[u].status \in {"VerifyingActive", "Accepted"} \cup Dead =>
    row'[u] = row[u] \/ row'[u].status \in Dead

\* What a statement on one row does to rows that are held.
LEMMA WroteHeld ==
  ASSUME RowTypeOK, NEW u \in Uploads, NEW s, NEW p, Wrote(u, s, p),
         s \in Dead \/ row[u].status \notin {"VerifyingActive", "Accepted"} \cup Dead
  PROVE  RowsHeld
BY DEF Wrote, RowsHeld

\* The bytes a verification has read do not become others.
LEMMA BytesRead ==
  ASSUME ArchiveInv, ObjectFates, NEW t \in task
  PROVE  object'[t.u] = object[t.u] \/ object'[t.u] = "none"
BY Types DEF ArchiveInv, VerificationInv, ObjectFates, ObjectFate, Arrives

\* Verifications that go on are those there were, at a stage that follows,
\* and as many.
TasksFollow ==
  /\ \A t \in task' : \E s \in task :
       /\ s.u = t.u /\ s.age = t.age /\ s.attempts = t.attempts
       /\ t.pc \in Leased => s.pc \in Leased
       /\ s.pc = "retrying" /\ t.pc \in Leased => t.pc = "retrying"
       /\ t.pc \in {"rejecting", "removing"} =>
            \/ s.pc \in {"rejecting", "removing"}
            \/ object[t.u] # "intact" \/ BodylessAnswers
  /\ \A t1, t2 \in task' : \E s1, s2 \in task :
       /\ s1.u = t1.u /\ s2.u = t2.u
       /\ t1.pc \in Leased => s1.pc \in Leased
       /\ t2.pc \in Leased => s2.pc \in Leased
       /\ s1 = s2 => t1 = t2

\* They keep their leases on rows nobody else writes to.
LEMMA TasksKept ==
  ASSUME ArchiveInv, TaskInv, TasksFollow, RowsHeld, ObjectFates
  PROVE  TaskInv'
<1>1. LeaseInv'
  <2> SUFFICES ASSUME NEW t \in task', t.pc \in Leased
               PROVE  \/ /\ row'[t.u].status = "VerifyingActive"
                         /\ row'[t.u].idle = t.age /\ row'[t.u].attempts = t.attempts
                      \/ row'[t.u].status \in Dead
                      \/ t.pc = "retrying" /\ row'[t.u].status = "Accepted"
    BY DEF LeaseInv
  <2>1. PICK s \in task : /\ s.u = t.u /\ s.age = t.age /\ s.attempts = t.attempts
                          /\ s.pc \in Leased
                          /\ s.pc = "retrying" => t.pc = "retrying"
    BY DEF TasksFollow
  <2>2. s.u \in Uploads
    BY Types DEF ArchiveInv
  <2>3. QED
    BY <2>1, <2>2 DEF TaskInv, LeaseInv, RowsHeld
<1>2. OneVerificationPerArchive'
  BY DEF TasksFollow, TaskInv, OneVerificationPerArchive
<1>3. BodylessAnswers \/ IntactNeverRejected'
  <2> SUFFICES ASSUME ~BodylessAnswers, NEW t \in task', t.pc \in {"rejecting", "removing"}
               PROVE  object'[t.u] # "intact"
    BY DEF IntactNeverRejected
  <2>1. PICK s \in task : /\ s.u = t.u
                          /\ s.pc \in {"rejecting", "removing"} \/ object[t.u] # "intact"
    BY DEF TasksFollow
  <2>2. object[t.u] # "intact"
    BY <2>1 DEF TaskInv, IntactNeverRejected
  <2>3. QED
    BY <2>1, <2>2, BytesRead
<1>4. QED
  BY <1>1, <1>2, <1>3 DEF TaskInv

\* A verification that ends, throws, or goes on to a later stage.
LEMMA TaskFollows ==
  ASSUME task \subseteq Task, NEW t \in task
  PROVE  /\ Returns(t) => TasksFollow
         /\ Throws(t) => TasksFollow
         /\ \A pc : /\ Becomes(t, pc)
                    /\ pc \in Leased => t.pc \in Leased
                    /\ t.pc = "retrying" /\ pc \in Leased => pc = "retrying"
                    /\ pc \in {"rejecting", "removing"} =>
                         \/ t.pc \in {"rejecting", "removing"}
                         \/ object[t.u] # "intact" \/ BodylessAnswers
                    => TasksFollow
<1>1. Returns(t) => TasksFollow
  BY DEF Returns, TasksFollow
<1>2. ASSUME Throws(t) PROVE TasksFollow
  <2> DEFINE alone(s) == [s EXCEPT !.joined = FALSE]
  <2>1. CASE t.joined
    <3>1. \A s \in task : /\ alone(s).u = s.u /\ alone(s).pc = s.pc /\ alone(s).age = s.age
                          /\ alone(s).attempts = s.attempts
      BY DEF Task
    <3>2. task' = {alone(s) : s \in task \ {t}}
      BY <1>2, <2>1 DEF Throws
    <3> HIDE DEF alone
    <3>3. QED
      BY <3>1, <3>2 DEF TasksFollow
  <2>2. QED
    BY <1>1, <1>2, <2>1 DEF Throws
<1>3. ASSUME NEW pc, Becomes(t, pc),
             pc \in Leased => t.pc \in Leased,
             t.pc = "retrying" /\ pc \in Leased => pc = "retrying",
             pc \in {"rejecting", "removing"} =>
               \/ t.pc \in {"rejecting", "removing"}
               \/ object[t.u] # "intact" \/ BodylessAnswers
      PROVE  TasksFollow
  <2> DEFINE moved == [t EXCEPT !.pc = pc]
  <2>1. moved.u = t.u /\ moved.pc = pc /\ moved.age = t.age /\ moved.attempts = t.attempts
    BY DEF Task
  <2>2. task' = (task \ {t}) \cup {moved}
    BY <1>3 DEF Becomes
  <2> HIDE DEF moved
  <2>3. \A r \in task' : \E s \in task :
          /\ r = IF s = t THEN moved ELSE s
          /\ s.u = r.u /\ s.age = r.age /\ s.attempts = r.attempts
          /\ r.pc \in Leased => s.pc \in Leased
          /\ s.pc = "retrying" /\ r.pc \in Leased => r.pc = "retrying"
          /\ r.pc \in {"rejecting", "removing"} =>
               \/ s.pc \in {"rejecting", "removing"}
               \/ object[r.u] # "intact" \/ BodylessAnswers
    BY <1>3, <2>1, <2>2
  <2>4. QED
    BY <2>3 DEF TasksFollow
<1>4. QED
  BY <1>1, <1>2, <1>3

\* Nobody else holds a lease that ends or goes on.
LEMMA LeaseGone ==
  ASSUME TaskInv, task \subseteq Task, NEW t \in task, t.pc \in Leased
  PROVE  /\ Returns(t) \/ Throws(t) => \A r \in task' : r.u = t.u => r.pc \notin Leased
         /\ \A pc : Becomes(t, pc) => \A r \in task' : r.u = t.u /\ r.pc \in Leased => r.pc = pc
<1>1. \A r \in task \ {t} : r.u = t.u => r.pc \notin Leased
  BY DEF TaskInv, OneVerificationPerArchive
<1>2. Returns(t) => \A r \in task' : r.u = t.u => r.pc \notin Leased
  BY <1>1 DEF Returns
<1>3. ASSUME Throws(t), NEW r \in task', r.u = t.u PROVE r.pc \notin Leased
  <2> DEFINE alone(s) == [s EXCEPT !.joined = FALSE]
  <2>1. CASE t.joined
    <3>1. \A s \in task : alone(s).u = s.u /\ alone(s).pc = s.pc
      BY DEF Task
    <3>2. task' = {alone(s) : s \in task \ {t}}
      BY <1>3, <2>1 DEF Throws
    <3> HIDE DEF alone
    <3>3. QED
      BY <1>1, <1>3, <3>1, <3>2
  <2>2. QED
    BY <1>2, <1>3, <2>1 DEF Throws
<1>4. ASSUME NEW pc, Becomes(t, pc), NEW r \in task', r.u = t.u, r.pc \in Leased PROVE r.pc = pc
  <2> DEFINE moved == [t EXCEPT !.pc = pc]
  <2>1. moved.pc = pc
    BY DEF Task
  <2>2. task' = (task \ {t}) \cup {moved}
    BY <1>4 DEF Becomes
  <2> HIDE DEF moved
  <2>3. QED
    BY <1>1, <1>4, <2>1, <2>2
<1>5. QED
  BY <1>2, <1>3, <1>4

\* A verification settles the row it holds, and lets go of it.
LEMMA SettlesItsRow ==
  ASSUME ArchiveInv, TaskInv, TasksFollow, ObjectFates, NEW t \in task, t.pc \in Leased,
         NEW s, NEW p, Wrote(t.u, s, p),
         \A r \in task' : r.u = t.u /\ r.pc \in Leased => r.pc = "retrying" /\ s = "Accepted"
  PROVE  TaskInv'
<1>1. t.u \in Uploads
  BY Types DEF ArchiveInv
<1>2. LeaseInv'
  <2> SUFFICES ASSUME NEW r \in task', r.pc \in Leased
               PROVE  \/ /\ row'[r.u].status = "VerifyingActive"
                         /\ row'[r.u].idle = r.age /\ row'[r.u].attempts = r.attempts
                      \/ row'[r.u].status \in Dead
                      \/ r.pc = "retrying" /\ row'[r.u].status = "Accepted"
    BY DEF LeaseInv
  <2>1. PICK q \in task : /\ q.u = r.u /\ q.age = r.age /\ q.attempts = r.attempts
                          /\ q.pc \in Leased
                          /\ q.pc = "retrying" => r.pc = "retrying"
    BY DEF TasksFollow
  <2>2. q.u \in Uploads
    BY Types DEF ArchiveInv
  <2>3. CASE r.u = t.u
    BY <1>1, <2>3 DEF Wrote
  <2>4. CASE r.u # t.u
    BY <2>1, <2>2, <2>4 DEF TaskInv, LeaseInv, Wrote
  <2>5. QED
    BY <2>3, <2>4
<1>3. OneVerificationPerArchive'
  BY DEF TasksFollow, TaskInv, OneVerificationPerArchive
<1>4. BodylessAnswers \/ IntactNeverRejected'
  <2> SUFFICES ASSUME ~BodylessAnswers, NEW r \in task', r.pc \in {"rejecting", "removing"}
               PROVE  object'[r.u] # "intact"
    BY DEF IntactNeverRejected
  <2>1. PICK q \in task : /\ q.u = r.u
                          /\ q.pc \in {"rejecting", "removing"} \/ object[r.u] # "intact"
    BY DEF TasksFollow
  <2>2. object[r.u] # "intact"
    BY <2>1 DEF TaskInv, IntactNeverRejected
  <2>3. QED
    BY <2>1, <2>2, BytesRead
<1>5. QED
  BY <1>2, <1>3, <1>4 DEF TaskInv

\* No verification is disturbed by a request ...
LEMMA ServiceTasks ==
  ASSUME ArchiveInv, TaskInv, ServiceNext, UNCHANGED task, ObjectFates
  PROVE  TaskInv'
<1>1. /\ RowTypeOK /\ RequestsTypeOK
      /\ \A c \in Callers : ~At(c, "idle") => req[c].u \in Uploads
  BY Types DEF ArchiveInv
<1>2. TasksFollow
  BY DEF TasksFollow
<1>3. UNCHANGED row => RowsHeld
  BY DEF RowsHeld
<1>4. ASSUME NEW c \in Callers, NEW u \in Uploads, CreateInsert(c, u) PROVE RowsHeld
  <2>1. row[u].status = "Absent"
    BY <1>4 DEF CreateInsert, In
  <2>2. PICK E \in SUBSET {v \in Uploads : Evictable(v)} : InsertWithinQuota(u, E)
    BY <1>4 DEF CreateInsert
  <2>3. QED
    BY <1>1, <2>1, <2>2, InsertWrites DEF RowsHeld, Dead
<1>5. ASSUME NEW c \in Callers, RequestStep(c) PROVE RowsHeld
  <2> DEFINE u == req[c].u
  <2>1. CASE CreateBegin(c) \/ CreateAbort(c) \/ CompleteProvider(c) \/ CompleteVerifySize(c)
    BY <1>3, <2>1 DEF CreateBegin, CreateAbort, CompleteProvider, CompleteVerifySize
  <2>2. CASE \/ CreateRegister(c) \/ CreateUnregister(c) \/ PartUrlGrant(c) \/ CompleteClaim(c)
             \/ CompleteFinish(c) \/ CompleteFail(c) \/ ModerateDelete(c) \/ DownloadQueue(c)
    <3>1. u \in Uploads /\ row[u] \in Row
      BY <1>1, <2>2
         DEF CreateRegister, CreateUnregister, PartUrlGrant, CompleteClaim, CompleteFinish,
             CompleteFail, ModerateDelete, DownloadQueue, At, RowTypeOK
    <3>2. req[c].deadline \in -1 .. VerifyLifetime
      BY <1>1 DEF RequestsTypeOK, Request
    <3>3. \/ UNCHANGED row
          \/ In(u, {"Uploading"}) /\ SetProviderUploadId(u)
          \/ In(u, {"Uploading"}) /\ \E all \in BOOLEAN : RegisterPartGrant(u, all)
          \/ /\ In(u, {"Uploading", "Completing"})
             /\ \E s \in {"Failed", "Completing"} : Transition(u, s)
          \/ In(u, {"Completing"}) /\ TransitionClearingProvider(u, "Pending")
          \/ Transition(u, "Expired")
          \/ In(u, {"Pending"}) /\ TransitionDeadline(u, "Verifying", req[c].deadline)
      BY <2>2
         DEF CreateRegister, CreateUnregister, PartUrlGrant, CompleteClaim, CompleteFinish,
             CompleteFail, ModerateDelete, DownloadQueue, In
    <3>4. \/ UNCHANGED row
          \/ \E s, p : Wrote(u, s, p) /\ (\/ s \in Dead
                                         \/ row[u].status \in {"Uploading", "Completing", "Pending"})
      <4>1. CASE In(u, {"Uploading"}) /\ SetProviderUploadId(u)
        BY <1>1, <3>1, <4>1, StatementsWrite DEF In
      <4>2. CASE In(u, {"Uploading"}) /\ \E all \in BOOLEAN : RegisterPartGrant(u, all)
        BY <1>1, <3>1, <4>2, StatementsWrite DEF In
      <4>3. CASE /\ In(u, {"Uploading", "Completing"})
                 /\ \E s \in {"Failed", "Completing"} : Transition(u, s)
        BY <1>1, <3>1, <4>3, StatementsWrite DEF In
      <4>4. CASE In(u, {"Completing"}) /\ TransitionClearingProvider(u, "Pending")
        BY <1>1, <3>1, <4>4, StatementsWrite DEF In
      <4>5. CASE Transition(u, "Expired")
        <5>1. Wrote(u, "Expired", row[u].providerId)
          BY <1>1, <3>1, <4>5, StatementsWrite
        <5>2. QED
          BY <5>1 DEF Dead
      <4>6. CASE In(u, {"Pending"}) /\ TransitionDeadline(u, "Verifying", req[c].deadline)
        BY <1>1, <3>1, <3>2, <4>6, StatementsWrite DEF In
      <4>7. QED
        BY <3>3, <4>1, <4>2, <4>3, <4>4, <4>5, <4>6
    <3>5. QED
      BY <1>1, <1>3, <3>1, <3>4, WroteHeld DEF Dead
  <2>3. QED
    BY <1>5, <2>1, <2>2 DEF RequestStep
<1>6. RowsHeld
  <2>1. CASE \E c \in Callers : NewRequest(c)
    BY <1>3, <1>4, <2>1 DEF NewRequest, PartUrlFind, CompleteFind, ModerateFind, DownloadFind
  <2>2. CASE \/ \E enabled \in BOOLEAN : SetPreverification(enabled)
             \/ \E S \in SUBSET Callers \ {{}} : RequestsLost(S)
    BY <1>3, <2>2 DEF SetPreverification, RequestsLost
  <2>3. QED
    BY <1>5, <2>1, <2>2 DEF ServiceNext
<1>7. QED
  BY <1>2, <1>6, TasksKept

\* ... nor by the maintenance loop.
LEMMA MaintenanceTasks ==
  ASSUME ArchiveInv, TaskInv, MaintenanceStep, ObjectFates
  PROVE  TaskInv'
<1> DEFINE u == mloop.u
<1>1. RowTypeOK /\ (mloop.pc \in Cleaning \ {"next"} => u \in Uploads)
  BY Types DEF ArchiveInv
<1>2. UNCHANGED row => RowsHeld
  BY DEF RowsHeld
<1>3. UNCHANGED task
  BY DEF MaintenanceStep, CleanupClaim, CleanupNext, CleanupAbort, CleanupDelete, CleanupFinish,
         CleanupRetry, ReconcileList, ReconcileReference, ReconcileFail, ReconcileCutoff,
         ReconcileAbort
<1>4. TasksFollow
  BY <1>3 DEF TasksFollow
<1>5. CASE CleanupClaim
  <2>0. PICK S \in SUBSET Uploads : ClaimExpired(S)
    BY <1>5 DEF CleanupClaim, DueBatches
  <2>1. \A v \in Uploads : row'[v] = row[v] \/ row'[v].status = "Deleting"
    BY <1>1, <2>0, ClaimExpiredWrites
  <2>2. RowsHeld
    BY <2>1 DEF RowsHeld, Dead
  <2>3. QED
    BY <1>4, <2>2, TasksKept
<1>6. CASE CleanupFinish
  <2>1. u \in Uploads
    BY <1>1, <1>6 DEF CleanupFinish, Cleaning
  <2>2. CASE TransitionClearingProvider(u, "Deleted")
    <3>1. Wrote(u, "Deleted", FALSE)
      BY <1>1, <2>1, <2>2, StatementsWrite
    <3>2. RowsHeld
      BY <1>1, <2>1, <3>1, WroteHeld DEF Dead
    <3>3. QED
      BY <1>4, <3>2, TasksKept
  <2>3. QED
    BY <1>2, <1>4, <1>6, <2>2, TasksKept DEF CleanupFinish
<1>7. CASE CleanupRetry
  <2>1. u \in Uploads
    BY <1>1, <1>7 DEF CleanupRetry, Cleaning
  <2>2. ASSUME NEW delay \in 0 .. DeletionBackoff, ScheduleDeletionRetry(u, delay) PROVE RowsHeld
    <3>1. Wrote(u, "Failed", row[u].providerId)
      BY <1>1, <2>1, <2>2, StatementsWrite
    <3>2. QED
      BY <1>1, <2>1, <3>1, WroteHeld DEF Dead
  <2>3. RowsHeld
    BY <1>2, <1>7, <2>2 DEF CleanupRetry
  <2>4. QED
    BY <1>4, <2>3, TasksKept
<1>8. CASE \/ CleanupNext \/ CleanupAbort \/ CleanupDelete \/ ReconcileList \/ ReconcileReference
           \/ ReconcileFail \/ ReconcileCutoff \/ ReconcileAbort
  <2>1. UNCHANGED row
    BY <1>8
       DEF CleanupNext, CleanupAbort, CleanupDelete, ReconcileList, ReconcileReference,
           ReconcileFail, ReconcileCutoff, ReconcileAbort
  <2>2. QED
    BY <1>2, <1>4, <2>1, TasksKept
<1>9. QED
  BY <1>5, <1>6, <1>7, <1>8 DEF MaintenanceStep

\* A verification keeps its own lease until it settles its row.
LEMMA TaskStepTasks ==
  ASSUME ArchiveInv, TaskInv, NEW t \in task, TaskStep(t), ObjectFates
  PROVE  TaskInv'
<1> DEFINE u == t.u
<1>1. RowTypeOK /\ u \in Uploads /\ task \subseteq Task
  BY Types DEF ArchiveInv
<1>2. UNCHANGED row => RowsHeld
  BY DEF RowsHeld
<1>3. Returns(t) \/ Throws(t) => TasksFollow
  BY <1>1, TaskFollows
<1>4. CASE VerifyObject(t)
  <2>1. CASE Becomes(t, "accepting") \/ Becomes(t, "retrying")
    BY <1>1, <1>2, <1>4, <2>1, TaskFollows, TasksKept DEF VerifyObject, Leased, Streaming
  <2>2. CASE Becomes(t, "rejecting") /\ (object[t.u] # "intact" \/ BodylessAnswers)
    BY <1>1, <1>2, <1>4, <2>2, TaskFollows, TasksKept DEF VerifyObject, Leased, Streaming
  <2>3. QED
    BY <1>4, <2>1, <2>2 DEF VerifyObject
<1>5. CASE VerifyInterrupted(t)
  BY <1>1, <1>2, <1>5, TaskFollows, TasksKept DEF VerifyInterrupted, Leased
<1>6. CASE VerifyAccept(t)
  <2>1. t.pc \in Leased /\ t.pc = "accepting"
    BY <1>6 DEF VerifyAccept, Leased, Streaming
  <2>2. CASE Becomes(t, "retrying") /\ UNCHANGED row
    BY <1>1, <1>2, <2>1, <2>2, TaskFollows, TasksKept
  <2>3. CASE /\ TransitionDeadline(u, "Accepted", NoDeadline)
             /\ Returns(t) \/ Becomes(t, "retrying")
    <3>1. NoDeadline \in -1 .. VerifyLifetime
      BY Times
    <3>2. PICK p : Wrote(u, "Accepted", p)
      BY <1>1, <2>3, <3>1, StatementsWrite
    <3>3. TasksFollow
      BY <1>1, <1>3, <2>1, <2>3, TaskFollows
    <3>4. \A r \in task' : r.u = u /\ r.pc \in Leased => r.pc = "retrying"
      BY <1>1, <2>1, <2>3, LeaseGone
    <3>5. QED
      BY <2>1, <3>2, <3>3, <3>4, SettlesItsRow
  <2>4. QED
    BY <1>6, <2>2, <2>3 DEF VerifyAccept
<1>7. CASE VerifyRetry(t)
  <2>1. t.pc \in Leased
    BY <1>7 DEF VerifyRetry, Leased
  <2>2. Returns(t) \/ Throws(t)
    BY <1>7 DEF VerifyRetry
  <2>3. UNCHANGED row \/ \E s, p : Wrote(u, s, p)
    BY <1>1, <1>7, StatementsWrite DEF VerifyRetry
  <2>4. \A r \in task' : r.u = u => r.pc \notin Leased
    BY <1>1, <2>1, <2>2, LeaseGone
  <2>5. QED
    BY <1>2, <1>3, <2>1, <2>2, <2>3, <2>4, TasksKept, SettlesItsRow
<1>8. CASE RejectInvalid(t)
  <2>1. UNCHANGED row \/ Transition(u, "Deleting")
    BY <1>8 DEF RejectInvalid
  <2>2. RowsHeld
    <3>1. CASE Transition(u, "Deleting")
      <4>1. Wrote(u, "Deleting", row[u].providerId)
        BY <1>1, <3>1, StatementsWrite
      <4>2. QED
        BY <1>1, <4>1, WroteHeld DEF Dead
    <3>2. QED
      BY <1>2, <2>1, <3>1
  <2>3. TasksFollow
    <3>1. CASE Becomes(t, "removing")
      BY <1>1, <1>8, <3>1, TaskFollows DEF RejectInvalid, Leased, Streaming
    <3>2. QED
      BY <1>3, <1>8, <3>1 DEF RejectInvalid
  <2>4. QED
    BY <2>2, <2>3, TasksKept
<1>9. CASE RejectRemove(t)
  <2>1. ASSUME NEW pc \in {"invalidating", "rescheduling"}, Becomes(t, pc) PROVE TasksFollow
    BY <1>1, <2>1, TaskFollows DEF Leased, Streaming
  <2>2. TasksFollow /\ UNCHANGED row
    BY <1>9, <2>1 DEF RejectRemove
  <2>3. QED
    BY <1>2, <2>2, TasksKept
<1>10. CASE RejectFinish(t)
  <2>1. TasksFollow
    <3>1. CASE Becomes(t, "rescheduling")
      BY <1>1, <3>1, TaskFollows DEF Leased, Streaming
    <3>2. QED
      BY <1>3, <1>10, <3>1 DEF RejectFinish
  <2>2. RowsHeld
    <3>1. CASE Transition(u, "Invalid")
      <4>1. Wrote(u, "Invalid", row[u].providerId)
        BY <1>1, <3>1, StatementsWrite
      <4>2. QED
        BY <1>1, <4>1, WroteHeld DEF Dead
    <3>2. QED
      BY <1>2, <1>10, <3>1 DEF RejectFinish
  <2>3. QED
    BY <2>1, <2>2, TasksKept
<1>11. CASE RejectReschedule(t)
  <2>1. TasksFollow
    BY <1>3, <1>11 DEF RejectReschedule
  <2>2. RowsHeld
    <3>1. ASSUME NEW delay \in 0 .. DeletionBackoff, ScheduleDeletionRetry(u, delay) PROVE RowsHeld
      <4>1. Wrote(u, "Failed", row[u].providerId)
        BY <1>1, <3>1, StatementsWrite
      <4>2. QED
        BY <1>1, <4>1, WroteHeld DEF Dead
    <3>2. QED
      BY <1>2, <1>11, <3>1 DEF RejectReschedule
  <2>3. QED
    BY <2>1, <2>2, TasksKept
<1>12. QED
  BY <1>4, <1>5, <1>6, <1>7, <1>8, <1>9, <1>10, <1>11 DEF TaskStep

\* The claim leases no archive whose verification may still be running: a
\* lease is stale only after the longest verification.
LEMMA ClaimTasks ==
  ASSUME ArchiveInv, TaskInv, VerificationClaim
  PROVE  TaskInv'
<1>1. PICK S \in VerificationBatches(vloop.includeStored, VerifyLimit) :
        ClaimForVerification(S) /\ task' = task \cup {NewTask(u) : u \in S}
  BY DEF VerificationClaim
<1>2. RowTypeOK /\ task \subseteq Task /\ \A t \in task : t.u \in Uploads
  BY Types DEF ArchiveInv
<1>3. S \subseteq Uploads /\ \A u \in S : RequestedForVerification(u) \/ StoredForVerification(u)
  BY DEF VerificationBatches
<1>4. \A t \in task : t.pc \in Leased => t.u \notin S
  <2> SUFFICES ASSUME NEW t \in task, t.pc \in Leased, t.u \in S PROVE FALSE
    OBVIOUS
  <2>1. t.age \in Nat /\ t.age <= VerifyDeadline
    BY <1>2, WorkerAssumption DEF Task
  <2>2. row[t.u].status \in {"Verifying", "VerifyingActive", "Pending"}
    BY <1>3 DEF RequestedForVerification, StoredForVerification
  <2>3. row[t.u].status = "VerifyingActive" /\ row[t.u].idle = t.age
    BY <2>2 DEF TaskInv, LeaseInv, Dead
  <2>4. row[t.u].idle >= StaleLease
    BY <1>3, <2>3 DEF RequestedForVerification, StoredForVerification
  <2>5. QED
    BY <2>1, <2>3, <2>4, Times, WorkerAssumption
<1>5. \A u \in S : /\ NewTask(u).u = u /\ NewTask(u).pc = "opening" /\ NewTask(u).age = 0
                   /\ NewTask(u).attempts = row[u].attempts
  BY DEF NewTask
<1>6. \A u \in S : /\ row'[u].status = "VerifyingActive" /\ row'[u].idle = 0
                   /\ row'[u].attempts = row[u].attempts
  BY <1>1, <1>2, <1>3, ClaimForVerificationWrites, ClaimForVerificationColumns
<1>7. \A u \in Uploads \ S : row'[u] = row[u]
  BY <1>1, <1>2, ClaimForVerificationWrites
<1> HIDE DEF NewTask
<1>8. LeaseInv'
  <2> SUFFICES ASSUME NEW t \in task', t.pc \in Leased
               PROVE  \/ /\ row'[t.u].status = "VerifyingActive"
                         /\ row'[t.u].idle = t.age /\ row'[t.u].attempts = t.attempts
                      \/ row'[t.u].status \in Dead
                      \/ t.pc = "retrying" /\ row'[t.u].status = "Accepted"
    BY DEF LeaseInv
  <2>1. CASE t \in task
    BY <1>2, <1>4, <1>7, <2>1 DEF TaskInv, LeaseInv
  <2>2. CASE t \notin task
    BY <1>1, <1>5, <1>6, <2>2
  <2>3. QED
    BY <2>1, <2>2
<1>9. OneVerificationPerArchive'
  BY <1>1, <1>4, <1>5 DEF TaskInv, OneVerificationPerArchive
<1>10. BodylessAnswers \/ IntactNeverRejected'
  <2>1. UNCHANGED object
    BY DEF VerificationClaim, provider
  <2>2. QED
    BY <1>1, <1>5, <2>1 DEF TaskInv, IntactNeverRejected
<1>11. QED
  BY <1>8, <1>9, <1>10 DEF TaskInv

\* A lease and its verification age together.
LEMMA TickTasks ==
  ASSUME ArchiveInv, TaskInv, Tick
  PROVE  TaskInv'
<1> DEFINE older(t) == IF t.pc \in Leased THEN [t EXCEPT !.age = @ + 1] ELSE t
<1>1. RowTypeOK /\ task \subseteq Task /\ \A t \in task : t.u \in Uploads
  BY Types DEF ArchiveInv
<1>2. \A t \in task : /\ older(t).u = t.u /\ older(t).pc = t.pc /\ older(t).attempts = t.attempts
                      /\ t.pc \in Leased => older(t).age = t.age + 1 /\ t.age < VerifyDeadline
  BY <1>1 DEF Task, Tick
<1>3. task' = {older(t) : t \in task} /\ UNCHANGED object
  BY DEF Tick
<1> HIDE DEF older
<1>4. \A u \in Uploads :
        /\ row'[u].status = row[u].status /\ row'[u].attempts = row[u].attempts
        /\ row[u].status = "VerifyingActive" => row'[u].idle = UpTo(row[u].idle, UploadWindow)
  <2> TAKE u \in Uploads
  <2>1. row'[u] = Older(row[u]) /\ row[u] \in Row
    BY <1>1 DEF Tick, RowTypeOK
  <2>2. QED
    BY <2>1, OlderRow, OlderColumns
<1>5. LeaseInv'
  <2> SUFFICES ASSUME NEW t \in task, t.pc \in Leased
               PROVE  \/ /\ row'[t.u].status = "VerifyingActive"
                         /\ row'[t.u].idle = older(t).age /\ row'[t.u].attempts = t.attempts
                      \/ row'[t.u].status \in Dead
                      \/ t.pc = "retrying" /\ row'[t.u].status = "Accepted"
    BY <1>2, <1>3 DEF LeaseInv
  <2>1. t.u \in Uploads /\ older(t).age = t.age + 1
    BY <1>1, <1>2
  <2>2. CASE row[t.u].status = "VerifyingActive"
    <3>1. t.age \in Nat /\ t.age < UploadWindow
      BY <1>1, <1>2, Times, WorkerAssumption DEF Task
    <3>2. row[t.u].idle = t.age /\ row[t.u].attempts = t.attempts
      BY <2>2 DEF TaskInv, LeaseInv, Dead
    <3>3. row'[t.u].idle = t.age + 1
      BY <1>4, <2>1, <2>2, <3>1, <3>2 DEF UpTo
    <3>4. QED
      BY <1>4, <2>1, <2>2, <3>2, <3>3
  <2>3. CASE row[t.u].status # "VerifyingActive"
    BY <1>4, <2>1, <2>3 DEF TaskInv, LeaseInv
  <2>4. QED
    BY <2>2, <2>3
<1>6. OneVerificationPerArchive'
  BY <1>2, <1>3 DEF TaskInv, OneVerificationPerArchive
<1>7. BodylessAnswers \/ IntactNeverRejected'
  BY <1>2, <1>3 DEF TaskInv, IntactNeverRejected
<1>8. QED
  BY <1>5, <1>6, <1>7 DEF TaskInv

\* LifeInv is inductive, relative to ArchiveInv.
LEMMA LifeStep == ArchiveInv /\ LifeInv /\ [Next]_vars => LifeInv'
<1> SUFFICES ASSUME ArchiveInv, LifeInv, [Next]_vars PROVE LifeInv'
  OBVIOUS
<1>1. Fates /\ ObjectFates /\ TaskInv
  BY StepFates, StepObjects DEF LifeInv, TaskInv
<1>2. BudgetInv' /\ ReleasedIsLeaving'
  BY <1>1 DEF Fates, Fate, BudgetInv, ReleasedIsLeaving, Leaving
<1>3. TaskInv'
  <2>1. CASE ServiceNext /\ UNCHANGED worker
    BY <1>1, <2>1, ServiceTasks DEF worker
  <2>2. CASE \E t \in task : TaskStep(t)
    BY <1>1, <2>2, TaskStepTasks
  <2>3. CASE MaintenanceStep
    BY <1>1, <2>3, MaintenanceTasks
  <2>4. CASE VerificationClaim
    BY <1>1, <2>4, ClaimTasks
  <2>5. CASE WorkerCrash
    BY <2>5 DEF WorkerCrash, TaskInv, LeaseInv, OneVerificationPerArchive, IntactNeverRejected
  <2>6. CASE Tick
    BY <1>1, <2>6, TickTasks
  <2>7. CASE \/ VerificationRead \/ VerificationJoin
             \/ \E u \in Uploads : LateCompletion(u)
             \/ UNCHANGED vars
    <3>1. UNCHANGED <<row, task>>
      BY <2>7 DEF VerificationRead, VerificationJoin, LateCompletion, worker, vars
    <3>2. QED
      BY <1>1, <3>1, TasksKept DEF RowsHeld, TasksFollow
  <2>8. QED
    BY <2>1, <2>2, <2>3, <2>4, <2>5, <2>6, <2>7 DEF Next, WorkerNext, VerificationStep
<1>4. QED
  BY <1>2, <1>3 DEF LifeInv, TaskInv

\* It holds at the start, where nothing is verified or released.
LEMMA LifeInit == Init => LifeInv
<1> SUFFICES ASSUME Init PROVE LifeInv
  OBVIOUS
<1>1. \A u \in Uploads : row[u].attempts = 0 /\ row[u].released = FALSE
  BY DEF Init, RowInit, StoredRow, NoRow
<1>2. BudgetInv /\ ReleasedIsLeaving
  BY <1>1, RetryAssumption DEF BudgetInv, ReleasedIsLeaving
<1>3. task = {}
  BY DEF Init, WorkerInit
<1>4. QED
  BY <1>2, <1>3 DEF LifeInv, LeaseInv, OneVerificationPerArchive, IntactNeverRejected

\* Both inductive invariants hold in every reachable state.
LEMMA LifeInvariance == Spec => [](ArchiveInv /\ LifeInv)
BY ArchiveInit, ArchiveStep, LifeInit, LifeStep, PTL DEF Spec

\* The lease of claimVerification outlasts the timer of the verification it
\* was given to: no archive is ever verified twice at the same time.
THEOREM LeasesAreExclusive == Spec => []OneVerificationPerArchive
<1>1. LifeInv => OneVerificationPerArchive
  BY DEF LifeInv
<1>2. QED
  BY <1>1, LifeInvariance, PTL

\* Because leases are exclusive, the attempts a verification has in hand are
\* those on record, and no retry takes an archive past its budget.
THEOREM BudgetIsKept == Spec => []RetryBudgetKept
<1>1. LifeInv => RetryBudgetKept
  BY DEF LifeInv, BudgetInv, RetryBudgetKept
<1>2. QED
  BY <1>1, LifeInvariance, PTL

\* Capacity is lent only by archives on their way out; scheduleDeletionRetry
\* takes it back.
THEOREM ReleaseIsForLeaving == Spec => []ReleasedIsLeaving
<1>1. LifeInv => ReleasedIsLeaving
  BY DEF LifeInv
<1>2. QED
  BY <1>1, LifeInvariance, PTL

\* As long as the bucket sends a body with every answer, rejectInvalid is
\* never reached with the declared bytes.
THEOREM RejectionsAreDeserved ==
  ASSUME BodylessAnswers = FALSE
  PROVE  Spec => []IntactNeverRejected
<1>1. LifeInv => IntactNeverRejected
  BY DEF LifeInv
<1>2. QED
  BY <1>1, LifeInvariance, PTL

\* No step of anybody brings back an archive that was discarded, or changes
\* a tombstone.
THEOREM DiscardingIsFinal == Spec => NeverRevived
<1>1. ArchiveInv /\ LifeInv /\ [Next]_vars =>
        [\A u \in Uploads :
           /\ row[u].status \in Discarded => row'[u].status \in Discarded \cup Gone
           /\ row[u].status \in Gone => row'[u].status = row[u].status]_vars
  BY StepFates DEF Fates, Fate, Course
<1>2. QED
  BY <1>1, LifeInvariance, PTL DEF Spec, NeverRevived

\* The phase in which quotas and retained capacity see a row.
PhaseSeen(r, p) ==
  /\ r.status \in Receiving => p = "Receiving"
  /\ r.status = "Pending" => p = IF r.deadline = NoDeadline THEN "Stored" ELSE "Queued"
  /\ r.status = "Accepted" => p = "Stored"
  /\ r.status \in {"Verifying", "VerifyingActive"} => p = "Verifying"
  /\ r.status \in {"Failed", "Expired"} => p = "Discarded"
  /\ r.status = "Deleting" => p = "Deleting"
  /\ r.status \in Gone => p = "Gone"
  /\ r.status = "Absent" => p = "Absent"

\* What may become of an archive, by phase and release.
LEMMA BecomesByPhase ==
  ASSUME NEW p, NEW n, NEW a \in BOOLEAN, NEW b \in BOOLEAN,
         \/ n \in Capacity!Successors(p) /\ b = a
         \/ p \in Capacity!Evictable /\ a = FALSE /\ n = "Discarded" /\ b = TRUE
         \/ p = "Deleting" /\ n = "Discarded" /\ b = FALSE
         \/ p = "Absent" /\ n = "Receiving" /\ b = FALSE
  PROVE  Capacity!MayBecome([phase |-> p, released |-> a], [phase |-> n, released |-> b])
<1>1. PICK from : from = [phase |-> p, released |-> a]
  OBVIOUS
<1>2. PICK to : to = [phase |-> n, released |-> b]
  OBVIOUS
<1>3. from.phase = p /\ from.released = a /\ to.phase = n /\ to.released = b
  BY <1>1, <1>2
<1>4. Capacity!MayBecome(from, to)
  BY <1>2, <1>3 DEF Capacity!MayBecome
<1>5. QED
  BY <1>1, <1>2, <1>4

\* The fates of an archive are what quotas and retained capacity count on.
LEMMA FateIsCounted ==
  ASSUME NEW u \in Uploads, row[u] \in Row, row'[u] \in Row, Fate(u)
  PROVE  MovesAsCounted(u)
<1>0. SUFFICES \/ CapacityView(row'[u]) = CapacityView(row[u])
               \/ Capacity!MayBecome(CapacityView(row[u]), CapacityView(row'[u]))
  BY DEF MovesAsCounted
<1>1. PICK r \in Row : r = row[u]
  OBVIOUS
<1>2. PICK q \in Row : q = row'[u]
  OBVIOUS
<1>3. PICK p : CapacityView(r) = [phase |-> p, released |-> r.released]
  BY DEF CapacityView
<1>4. PICK n : CapacityView(q) = [phase |-> n, released |-> q.released]
  BY DEF CapacityView
<1>5. /\ r.status \in Status /\ q.status \in Status
      /\ r.released \in BOOLEAN /\ q.released \in BOOLEAN
  BY DEF Row
<1>6. PhaseSeen(r, p)
  <2>1. CapacityView(r).phase = p
    BY <1>3
  <2>2. QED
    BY <1>5, <2>1 DEF CapacityView, PhaseSeen
<1>7. PhaseSeen(q, n)
  <2>1. CapacityView(q).phase = n
    BY <1>4
  <2>2. QED
    BY <1>5, <2>1 DEF CapacityView, PhaseSeen
<1>8. ASSUME \/ n \in Capacity!Successors(p) /\ q.released = r.released
             \/ p \in Capacity!Evictable /\ r.released = FALSE
                  /\ n = "Discarded" /\ q.released = TRUE
             \/ p = "Deleting" /\ n = "Discarded" /\ q.released = FALSE
             \/ p = "Absent" /\ n = "Receiving" /\ q.released = FALSE
      PROVE  Capacity!MayBecome(CapacityView(row[u]), CapacityView(row'[u]))
  <2>1. Capacity!MayBecome([phase |-> p, released |-> r.released],
                           [phase |-> n, released |-> q.released])
    BY <1>5, <1>8, BecomesByPhase
  <2>2. QED
    BY <1>1, <1>2, <1>3, <1>4, <2>1
<1>9. CASE q.released = r.released
  <2>1. CASE r.status = "Absent" /\ q.status = "Uploading"
    <3>1. q.released = FALSE
      BY <1>2, <1>5, <2>1 DEF Fate, Leaving
    <3>2. QED
      BY <1>6, <1>7, <1>5, <1>8, <2>1, <3>1 DEF PhaseSeen
  <2>2. CASE r.status = "Deleting" /\ q.status = "Failed" /\ q.released = FALSE
    BY <1>5, <1>6, <1>7, <1>8, <2>2 DEF PhaseSeen
  <2>3. CASE p = n
    BY <1>1, <1>2, <1>3, <1>4, <1>9, <2>3
  <2>4. CASE n \in Capacity!Successors(p)
    BY <1>5, <1>9, <1>8, <2>4
  <2>5. ASSUME ~(r.status = "Absent" /\ q.status = "Uploading"),
               ~(r.status = "Deleting" /\ q.status = "Failed" /\ q.released = FALSE)
        PROVE  p = n \/ n \in Capacity!Successors(p)
    <3>1. /\ r.status = "Deleting" => q.status \in {"Deleting"} \cup Gone
          /\ q.status \in Gone => r.status \in {"Deleting"} \cup Gone
          /\ r.status = "Pending" /\ q.status = "Pending" =>
               (q.deadline = NoDeadline <=> r.deadline = NoDeadline)
      BY <1>1, <1>2, <2>5 DEF Fate, Accounted
    <3>2. \/ q.status = r.status
          \/ r.status = "Uploading" /\ q.status = "Completing"
          \/ r.status = "Completing" /\ q.status = "Pending"
          \/ r.status \in Stored \ {"Accepted"} /\ q.status \in {"Verifying", "VerifyingActive"}
          \/ r.status = "VerifyingActive" /\ q.status = "Accepted"
          \/ r.status \notin {"Absent"} \cup Gone /\ q.status \in Discarded
          \/ r.status \in Discarded /\ q.status \in Gone
      BY <1>1, <1>2, <2>5 DEF Fate, Course
    <3>3. CASE q.status = r.status
      BY <1>5, <1>6, <1>7, <3>1, <3>3 DEF PhaseSeen
    <3>4. CASE \/ r.status = "Uploading" /\ q.status = "Completing"
               \/ r.status = "Completing" /\ q.status = "Pending"
               \/ r.status = "VerifyingActive" /\ q.status = "Accepted"
      BY <1>6, <1>7, <3>4 DEF PhaseSeen, Capacity!Successors
    <3>5. CASE r.status \in Stored \ {"Accepted"} /\ q.status \in {"Verifying", "VerifyingActive"}
      BY <1>6, <1>7, <3>5 DEF PhaseSeen, Capacity!Successors
    <3>6. CASE r.status \notin {"Absent"} \cup Gone /\ q.status \in Discarded
      BY <1>5, <1>6, <1>7, <3>1, <3>6 DEF PhaseSeen, Capacity!Successors
    <3>7. CASE r.status \in Discarded /\ q.status \in Gone
      BY <1>6, <1>7, <3>1, <3>7 DEF PhaseSeen, Capacity!Successors
    <3>8. QED
      BY <3>2, <3>3, <3>4, <3>5, <3>6, <3>7
  <2>6. QED
    BY <2>1, <2>2, <2>3, <2>4, <2>5
<1>10. CASE Evictable(u) /\ q.status = "Expired" /\ q.released = TRUE
  <2>1. r.status \in {"Pending", "Accepted", "Failed", "Expired"} /\ r.released = FALSE
    BY <1>1, <1>5, <1>10 DEF Evictable
  <2>2. p \in Capacity!Evictable /\ n = "Discarded"
    BY <1>6, <1>7, <1>10, <2>1 DEF PhaseSeen, Capacity!Evictable
  <2>3. QED
    BY <1>5, <1>10, <1>8, <2>1, <2>2
<1>11. CASE r.status = "Deleting" /\ q.status = "Failed" /\ q.released = FALSE
  BY <1>5, <1>6, <1>7, <1>8, <1>11 DEF PhaseSeen
<1>12. CASE r.status = "Absent" /\ q.status = "Uploading" /\ q.released = FALSE
  BY <1>5, <1>6, <1>7, <1>12, <1>8 DEF PhaseSeen
<1>13. QED
  BY <1>1, <1>2, <1>9, <1>10, <1>11, <1>12 DEF Fate, Accounted

\* The capacity of an archive is lent out and taken back only as Admission
\* counts on, whatever requests, worker and cleanup do to it in any order.
THEOREM CapacityStaysSound == Spec => CapacitySound
<1>1. ArchiveInv /\ LifeInv /\ [Next]_vars => [\A u \in Uploads : MovesAsCounted(u)]_vars
  <2> SUFFICES ASSUME ArchiveInv, LifeInv, [Next]_vars, NEW u \in Uploads
               PROVE  MovesAsCounted(u)
    OBVIOUS
  <2>1. row[u] \in Row /\ row'[u] \in Row
    BY TypeStep DEF ArchiveInv, TypeOK, RowTypeOK
  <2>2. Fate(u)
    BY StepFates DEF Fates
  <2>3. QED
    BY <2>1, <2>2, FateIsCounted
<1>2. QED
  BY <1>1, LifeInvariance, ReleaseIsForLeaving, PTL DEF Spec, CapacitySound

\* As long as the bucket sends a body with every answer, a stored archive
\* with the declared bytes is given up only for a reason the service states.
THEOREM IntactIsGivenUpForAReason ==
  ASSUME BodylessAnswers = FALSE
  PROVE  Spec => DiscardedForAReason
<1>1. ASSUME ArchiveInv, LifeInv, [Next]_vars, NEW u \in Uploads,
             row[u].status \in Stored, object[u] = "intact", row'[u].status \in Discarded
      PROVE  DiscardReason(u)
  <2>1. Reason(u)
    BY <1>1, StepFates DEF Fates, Fate, Course
  <2>2. ~\E t \in task : t.pc = "rejecting" /\ t.u = u
    BY <1>1 DEF LifeInv, IntactNeverRejected
  <2>3. QED
    BY <2>1, <2>2 DEF Reason
<1>2. ArchiveInv /\ LifeInv /\ [Next]_vars =>
        [\A u \in Uploads :
           row[u].status \in Stored /\ object[u] = "intact" /\ row'[u].status \in Discarded
             => DiscardReason(u)]_vars
  BY <1>1
<1>3. QED
  BY <1>2, LifeInvariance, PTL DEF Spec, DiscardedForAReason

\* The API, the worker, the bucket and the clock together implement the life
\* of an archive that ArchiveLifecycle promises: every step is one of its
\* steps.
THEOREM Refinement == Spec => ImplementsLifecycle
<1>1. ArchiveInv /\ LifeInv /\ [Next]_vars => [Lifecycle!Next]_(Lifecycle!archives)
  BY LifecycleStep
<1>2. QED
  BY <1>1, LifecycleInit, LifeInvariance, PTL DEF Spec, ImplementsLifecycle, Lifecycle!Spec

(***************************************************************************)
(* The custody of granted sessions.                                        *)
(***************************************************************************)

\* Most steps disturb none of it: rows that still receive stay, ...
RowsRest ==
  \A u \in Uploads : row'[u].status \in Receiving =>
    row'[u].status = row[u].status /\ (row[u].providerId => row'[u].providerId)

\* ... sessions that have to be open are left alone, ...
SessionsStand == \A u \in Uploads : Guarded(u) => session'[u] = session[u]

\* ... none is forgotten or grows older, ...
SessionsYoung ==
  \A u \in Uploads : /\ session[u] # "none" => session'[u] # "none"
                     /\ sessionAge'[u] <= sessionAge[u]

\* ... no request creates or completes an upload, ...
RequestRests(c) ==
  \/ req'[c] = req[c]
  \/ req'[c].pc \notin {"begin", "register", "abort", "provider"}
  \/ At(c, "register") /\ req'[c].pc = "abort" /\ req'[c].u = req[c].u

RequestsRest == granted' = granted /\ \A c \in Callers : RequestRests(c)

\* ... nobody owns a session but who did, or one that has just been opened, ...
OwnersRest ==
  \A u \in Uploads : Owned(u)' => Owned(u) \/ (session[u] = "none" /\ sessionAge'[u] = 0)

\* ... and the reconciliation learns nothing new.
ReconciliationRests ==
  \/ mloop'.pc \notin {"reading", "sweep"}
  \/ UNCHANGED mloop
  \/ mloop'.pc = "reading" /\ mloop'.listed = {} /\ ~mloop'.gotReferenced
  \/ mloop.pc = "sweep" /\ mloop'.pc = "sweep" /\ mloop'.todo \subseteq mloop.todo

\* A session that has to be open is owned.
LEMMA GuardedIsOwned ==
  ASSUME ArchiveInv, CustodyInv, NEW u \in Uploads, Guarded(u)
  PROVE  Owned(u) /\ session[u] = "open"
BY DEF Guarded, Owned, ArchiveInv, CompletionInv, CustodyInv, GrantInv, At

\* A resting step gives nobody a new interest in a session.
LEMMA InterestKept ==
  ASSUME RowsRest, RequestsRest
  PROVE  /\ OwnersRest
         /\ \A u \in Uploads : Guarded(u)' => Guarded(u)
BY DEF RowsRest, RequestsRest, RequestRests, OwnersRest, Owned, Guarded, At

\* It keeps what is known of creators and grants, ...
LEMMA GrantsKept ==
  ASSUME ArchiveInv, TypeOK', CustodyInv, RowsRest, SessionsStand, SessionsYoung, RequestsRest
  PROVE  CreatorInv' /\ GrantInv' /\ AgeInv'
<1>1. /\ granted \subseteq Uploads /\ StorageTypeOK /\ StorageTypeOK' /\ RequestsTypeOK
      /\ \A c \in Callers : ~At(c, "idle") => req[c].u \in Uploads
  BY Types DEF ArchiveInv, TypeOK
<1>2. CreatorInv'
  BY DEF CustodyInv, CreatorInv, RequestsRest, RequestRests, At
<1>3. GrantInv'
  <2>1. \A u \in granted' : row'[u].status \in Receiving => row'[u].providerId
    BY <1>1 DEF RowsRest, RequestsRest, CustodyInv, GrantInv
  <2>2. \A u \in Uploads : Guarded(u)' => session'[u] = "open"
    BY InterestKept, GuardedIsOwned DEF SessionsStand
  <2>3. \A c, d \in Callers :
          At(c, "provider")' /\ At(d, "provider")' /\ req'[c].u = req'[d].u => c = d
    BY DEF RequestsRest, RequestRests, CustodyInv, GrantInv, At
  <2>4. QED
    BY <2>1, <2>2, <2>3 DEF GrantInv
<1>4. AgeInv'
  <2> SUFFICES ASSUME NEW c \in Callers, At(c, "register")'
               PROVE  sessionAge'[req'[c].u] <= req'[c].age
    BY DEF AgeInv
  <2>1. req'[c] = req[c] /\ At(c, "register") /\ req[c].u \in Uploads
    BY <1>1 DEF RequestsRest, RequestRests, At
  <2>2. sessionAge[req[c].u] <= req[c].age /\ sessionAge'[req[c].u] <= sessionAge[req[c].u]
    BY <2>1 DEF CustodyInv, AgeInv, SessionsYoung
  <2>3. sessionAge[req[c].u] \in Int /\ sessionAge'[req[c].u] \in Int /\ req[c].age \in Int
    BY <1>1, <2>1 DEF StorageTypeOK, RequestsTypeOK, Request
  <2>4. QED
    BY <2>1, <2>2, <2>3
<1>5. QED
  BY <1>2, <1>3, <1>4

\* ... and of the reconciliation, as long as it learns nothing.
LEMMA ReconcileKept ==
  ASSUME ArchiveInv, TypeOK', CustodyInv, OwnersRest, SessionsYoung, ReconciliationRests
  PROVE  ReconcileInv'
<1>1. StorageTypeOK /\ StorageTypeOK' /\ mloop \in Maintenance
  BY Types DEF ArchiveInv, TypeOK, MaintenanceTypeOK
<1>2. CASE mloop'.pc \notin {"reading", "sweep"}
  BY <1>2 DEF ReconcileInv
<1>3. CASE UNCHANGED mloop
  <2>1. mloop.pc = "reading" => \A u \in mloop.listed : session'[u] # "none"
    BY <1>1 DEF SessionsYoung, CustodyInv, ReconcileInv, Maintenance
  <2>2. ASSUME mloop.pc = "reading", mloop.gotReferenced, NEW u \in Uploads \ mloop.referenced,
               Owned(u)'
        PROVE  sessionAge'[u] <= CallTime + mloop.age
    <3>1. /\ sessionAge'[u] <= sessionAge[u]
          /\ sessionAge[u] <= CallTime + mloop.age \/ sessionAge'[u] = 0
      BY <2>2 DEF OwnersRest, CustodyInv, ReconcileInv, SessionsYoung
    <3>2. sessionAge[u] \in Nat /\ sessionAge'[u] \in Nat /\ CallTime \in Nat /\ mloop.age \in Nat
      BY <1>1, Times, CallersAssumption DEF StorageTypeOK, Maintenance
    <3>3. QED
      BY <3>1, <3>2
  <2>3. mloop.pc = "sweep" => \A u \in mloop.todo : session'[u] # "none" /\ ~Owned(u)'
    BY <1>1 DEF OwnersRest, SessionsYoung, CustodyInv, ReconcileInv, Maintenance
  <2>4. QED
    BY <1>3, <2>1, <2>2, <2>3 DEF ReconcileInv
<1>4. CASE mloop'.pc = "reading" /\ mloop'.listed = {} /\ ~mloop'.gotReferenced
  BY <1>4 DEF ReconcileInv
<1>5. CASE mloop.pc = "sweep" /\ mloop'.pc = "sweep" /\ mloop'.todo \subseteq mloop.todo
  <2>1. \A u \in mloop.todo : u \in Uploads /\ session'[u] # "none" /\ ~Owned(u)'
    BY <1>1, <1>5 DEF OwnersRest, SessionsYoung, CustodyInv, ReconcileInv, Maintenance
  <2>2. QED
    BY <1>5, <2>1 DEF ReconcileInv
<1>6. QED
  BY <1>2, <1>3, <1>4, <1>5 DEF ReconciliationRests

\* A step that rests in every respect keeps the custody of every session.
LEMMA RestKept ==
  ASSUME ArchiveInv, TypeOK', CustodyInv, RowsRest, SessionsStand, SessionsYoung,
         RequestsRest, ReconciliationRests
  PROVE  CustodyInv'
BY GrantsKept, ReconcileKept, InterestKept DEF CustodyInv

(***************************************************************************)
(* What rests.                                                             *)
(***************************************************************************)

\* What does not change rests.
LEMMA UnchangedRests ==
  /\ RowsCalm => RowsRest
  /\ StorageTypeOK /\ UNCHANGED <<session, sessionAge>> => SessionsStand /\ SessionsYoung
  /\ UNCHANGED <<req, granted>> => RequestsRest
  /\ UNCHANGED mloop => ReconciliationRests
<1>1. StorageTypeOK => \A u \in Uploads : sessionAge[u] \in Int
  BY DEF StorageTypeOK
<1>2. QED
  BY <1>1 DEF RowsCalm, RowCalm, RowsRest, SessionsStand, SessionsYoung, RequestsRest,
              RequestRests, ReconciliationRests

\* A statement on one row rests if the row no longer receives, or stays.
LEMMA WroteRests ==
  ASSUME NEW u \in Uploads, NEW s, NEW p, Wrote(u, s, p),
         \/ s \notin Receiving
         \/ s = row[u].status /\ (row[u].providerId => p)
  PROVE  RowsRest
BY DEF Wrote, RowsRest

\* Aborting a session leaves those that have to be open alone if it is none
\* of them.
LEMMA AbortRests ==
  ASSUME StorageTypeOK, NEW u \in Uploads, ~Guarded(u), AbortSession(u)
  PROVE  SessionsStand /\ SessionsYoung
BY DEF StorageTypeOK, AbortSession, Unfinished, SessionsStand, SessionsYoung

\* A request that ends, or goes where nothing is created or completed, rests.
LEMMA MovedRests ==
  ASSUME granted' = granted, NEW c \in Callers
  PROVE  /\ Ended(c) => RequestsRest
         /\ \A pc, u, prov, seen :
              /\ Moved(c, pc, u, prov, seen)
              /\ \/ pc \notin {"begin", "register", "abort", "provider"}
                 \/ At(c, "register") /\ pc = "abort" /\ u = req[c].u
              => RequestsRest
BY DEF Ended, Moved, RequestsRest, RequestRests

(***************************************************************************)
(* The requests.                                                           *)
(***************************************************************************)

\* The steps of requests that rest in every respect.
LEMMA QuietRequestRests ==
  ASSUME ArchiveInv, CustodyInv, NEW c \in Callers,
         \/ CreateAbort(c) \/ CreateUnregister(c) \/ PartUrlGrant(c)
         \/ CompleteVerifySize(c) \/ CompleteFinish(c) \/ CompleteFail(c)
         \/ ModerateDelete(c) \/ DownloadQueue(c)
  PROVE  RowsRest /\ SessionsStand /\ SessionsYoung /\ RequestsRest
<1> DEFINE u == req[c].u
<1>1. RowTypeOK /\ StorageTypeOK /\ RequestsTypeOK
  BY Types DEF ArchiveInv
<1>2. u \in Uploads /\ granted' = granted
  BY Types DEF ArchiveInv, CreateAbort, CreateUnregister, PartUrlGrant, CompleteVerifySize,
               CompleteFinish, CompleteFail, ModerateDelete, DownloadQueue, At
<1>3. UNCHANGED row => RowsRest
  BY UnchangedCalm, UnchangedRests
<1>4. RowsRest
  <2>1. ASSUME NEW s \in Status \ Receiving, NEW p, Wrote(u, s, p) PROVE RowsRest
    BY <1>2, <2>1, WroteRests
  <2>2. CASE CreateAbort(c) \/ CompleteVerifySize(c)
    BY <1>3, <2>2 DEF CreateAbort, CompleteVerifySize
  <2>3. ASSUME NEW s \in Status \ Receiving, Transition(u, s) PROVE RowsRest
    BY <1>1, <1>2, <2>1, <2>3, StatementsWrite
  <2>4. CASE CreateUnregister(c) \/ CompleteFail(c)
    BY <1>3, <2>3, <2>4 DEF CreateUnregister, CompleteFail
  <2>5. CASE ModerateDelete(c)
    BY <1>3, <2>3, <2>5 DEF ModerateDelete
  <2>6. CASE CompleteFinish(c)
    <3>1. TransitionClearingProvider(u, "Pending") => RowsRest
      BY <1>1, <1>2, <2>1, StatementsWrite
    <3>2. QED
      BY <1>3, <2>6, <3>1 DEF CompleteFinish
  <2>7. CASE DownloadQueue(c)
    <3>1. req[c].deadline \in -1 .. VerifyLifetime
      BY <1>1 DEF RequestsTypeOK, Request
    <3>2. TransitionDeadline(u, "Verifying", req[c].deadline) => RowsRest
      BY <1>1, <1>2, <2>1, <3>1, StatementsWrite
    <3>3. QED
      BY <1>3, <2>7, <3>2 DEF DownloadQueue
  <2>8. CASE PartUrlGrant(c)
    <3>1. ASSUME NEW all \in BOOLEAN, RegisterPartGrant(u, all) PROVE RowsRest
      <4>1. Wrote(u, row[u].status, row[u].providerId)
        BY <1>1, <1>2, <3>1, StatementsWrite
      <4>2. QED
        BY <1>2, <4>1, WroteRests
    <3>2. QED
      BY <1>3, <2>8, <3>1 DEF PartUrlGrant
  <2>9. QED
    BY <2>2, <2>4, <2>5, <2>6, <2>7, <2>8
<1>5. SessionsStand /\ SessionsYoung
  <2>1. UNCHANGED provider => SessionsStand /\ SessionsYoung
    BY <1>1, UnchangedRests DEF provider
  <2>2. CASE CreateAbort(c)
    <3>1. ~Guarded(u)
      BY <2>2 DEF CreateAbort, At, Guarded, CustodyInv, CreatorInv, ArchiveInv, CompletionInv
    <3>2. QED
      BY <1>1, <1>2, <2>1, <2>2, <3>1, AbortRests DEF CreateAbort
  <2>3. QED
    BY <2>1, <2>2 DEF CreateUnregister, PartUrlGrant, CompleteVerifySize, CompleteFinish,
                      CompleteFail, ModerateDelete, DownloadQueue
<1>6. RequestsRest
  <2>1. Finish(c) => RequestsRest
    BY <1>1, <1>2, RequestMoves, MovedRests
  <2>2. ASSUME NEW pc \in {"unregister", "finish", "fail"}, Goto(c, pc) PROVE RequestsRest
    <3>1. Moved(c, pc, u, req[c].prov, req[c].seen)
      BY <1>1, <2>2, RequestMoves
    <3>2. QED
      BY <1>2, <3>1, MovedRests
  <2>3. QED
    BY <2>1, <2>2 DEF CreateAbort, CreateUnregister, PartUrlGrant, CompleteVerifySize,
                      CompleteFinish, CompleteFail, ModerateDelete, DownloadQueue
<1>7. QED
  BY <1>4, <1>5, <1>6

\* The reads a request begins with rest, too.
LEMMA FindRests ==
  ASSUME ArchiveInv, NEW c \in Callers, NEW u \in Uploads,
         \/ PartUrlFind(c, u) \/ CompleteFind(c, u) \/ ModerateFind(c, u) \/ DownloadFind(c, u)
  PROVE  RowsRest /\ SessionsStand /\ SessionsYoung /\ RequestsRest
<1>1. RowTypeOK /\ StorageTypeOK /\ RequestsTypeOK
  BY Types DEF ArchiveInv
<1>2. UNCHANGED <<row, provider, granted>>
  BY DEF PartUrlFind, CompleteFind, ModerateFind, DownloadFind
<1>3. ASSUME NEW pc \in {"grant", "claim", "discard", "queue"}, NEW fields,
             "pc" \in DOMAIN fields, Start(c, pc, u, fields)
      PROVE  RequestsRest
  <2> DEFINE chosen == [fields EXCEPT !.pc = pc]
             started == [fields EXCEPT !.pc = pc, !.u = u]
  <2>1. chosen.pc = pc /\ "pc" \in DOMAIN chosen
    BY <1>3
  <2>2. started = [chosen EXCEPT !.u = u]
    BY Zenon
  <2>3. req' = [req EXCEPT ![c] = started]
    BY <1>3 DEF Start
  <2> HIDE DEF chosen
  <2>4. started.pc = pc
    BY <2>1, <2>2
  <2> HIDE DEF started
  <2>5. req'[c].pc = pc /\ \A d \in Callers \ {c} : req'[d] = req[d]
    BY <1>1, <2>3, <2>4 DEF RequestsTypeOK
  <2>6. QED
    BY <1>2, <2>5 DEF RequestsRest, RequestRests
<1>4. RequestsRest
  <2>1. "pc" \in DOMAIN Idle
    BY DEF Idle
  <2> DEFINE found == [Idle EXCEPT !.prov = row[u].providerId, !.bound = row[u].bound]
             seen == [Idle EXCEPT !.seen = row[u].status]
             due == [Idle EXCEPT !.deadline = LeastOf(Retention - row[u].age, VerifyLifetime)]
  <2>2. "pc" \in DOMAIN found /\ "pc" \in DOMAIN seen /\ "pc" \in DOMAIN due
    BY DEF Idle
  <2>3. \/ Start(c, "grant", u, Idle) \/ Start(c, "claim", u, found)
        \/ Start(c, "discard", u, seen) \/ Start(c, "queue", u, due)
    BY Zenon DEF PartUrlFind, CompleteFind, ModerateFind, DownloadFind
  <2> HIDE DEF found, seen, due
  <2>4. QED
    BY <1>3, <2>1, <2>2, <2>3
<1>5. QED
  BY <1>1, <1>2, <1>4, UnchangedCalm, UnchangedRests DEF provider

\* A new upload is nobody's but its creator's, who has no session yet.
LEMMA CreateInsertCustody ==
  ASSUME ArchiveInv, TypeOK', CustodyInv, NEW c \in Callers, NEW u \in Uploads,
         UNCHANGED worker, CreateInsert(c, u)
  PROVE  CustodyInv'
<1>1. /\ RowTypeOK /\ StorageTypeOK /\ RequestsTypeOK
      /\ row[u].status = "Absent" /\ session[u] = "none" /\ u \notin granted
      /\ \A d \in Callers : ~At(d, "idle") => req[d].u # u /\ req[d].u \in Uploads
      /\ granted \subseteq Uploads
  BY Types DEF ArchiveInv, AbsentInv, BytesInv, CreateInsert, In
<1>2. Moved(c, "begin", u, FALSE, "Absent")
  <2>1. Idle \in Request /\ Idle.prov = FALSE /\ Idle.seen = "Absent"
    BY Times, CallersAssumption DEF Idle, Request, Awaiting
  <2>2. QED
    BY <1>1, <2>1, RequestMoves DEF CreateInsert
<1>3. \A v \in Uploads \ {u} : row'[v].status \in Receiving => row'[v] = row[v]
  <2>1. PICK E \in SUBSET {v \in Uploads : Evictable(v)} : InsertWithinQuota(u, E)
    BY DEF CreateInsert
  <2>2. QED
    BY <1>1, <2>1, InsertWrites
<1>4. UNCHANGED <<session, sessionAge, granted, mloop>>
  BY DEF CreateInsert, provider, worker
<1>5. At(c, "idle")
  BY DEF CreateInsert
<1>6. \A v \in Uploads : /\ Owned(v)' => Owned(v)
                         /\ Guarded(v)' => Guarded(v)
  BY <1>1, <1>2, <1>3, <1>4 DEF Owned, Guarded, Moved, At
<1>7. CreatorInv'
  BY <1>1, <1>2, <1>4 DEF CustodyInv, CreatorInv, Moved, At
<1>8. GrantInv'
  <2>1. \A v \in granted : row'[v].status \in Receiving => row'[v].providerId
    BY <1>1, <1>3 DEF CustodyInv, GrantInv
  <2>2. \A d, e \in Callers :
          At(d, "provider")' /\ At(e, "provider")' /\ req'[d].u = req'[e].u => d = e
    BY <1>2 DEF CustodyInv, GrantInv, Moved, At
  <2>3. \A v \in Uploads : Guarded(v)' => session'[v] = "open"
    BY <1>4, <1>6 DEF CustodyInv, GrantInv
  <2>4. QED
    BY <1>4, <2>1, <2>2, <2>3 DEF GrantInv
<1>9. AgeInv'
  BY <1>2, <1>4 DEF CustodyInv, AgeInv, Moved, At
<1>10. OwnersRest /\ SessionsYoung /\ ReconciliationRests
  BY <1>1, <1>4, <1>6, UnchangedRests DEF OwnersRest
<1>11. QED
  BY <1>7, <1>8, <1>9, <1>10, ReconcileKept DEF CustodyInv

\* Its session starts its life open, and is the creator's.
LEMMA CreateBeginCustody ==
  ASSUME ArchiveInv, TypeOK', CustodyInv, NEW c \in Callers, UNCHANGED worker, CreateBegin(c)
  PROVE  CustodyInv'
<1> DEFINE u == req[c].u
<1>1. /\ StorageTypeOK /\ RequestsTypeOK /\ u \in Uploads /\ At(c, "begin")
      /\ u \notin granted /\ session[u] = "none"
      /\ \A d \in Callers : ~At(d, "idle") => req[d].u \in Uploads
  BY Types DEF CreateBegin, At, ArchiveInv, CreationInv
<1>2. \A d \in Callers \ {c} :
        req[d].pc \in {"begin", "register", "abort", "provider"} => req[d].u # u
  BY <1>1 DEF At, CustodyInv, CreatorInv, ArchiveInv, CompletionInv
<1>3. ~Guarded(u)
  BY <1>1, <1>2 DEF Guarded, At
<1>4. UNCHANGED <<row, granted, mloop>>
  BY DEF CreateBegin, worker
<1>5. RowsRest /\ ReconciliationRests
  BY <1>4, UnchangedCalm, UnchangedRests
<1>6. SessionsStand /\ SessionsYoung
  <2>1. UNCHANGED provider => SessionsStand /\ SessionsYoung
    BY <1>1, UnchangedRests DEF provider
  <2>2. CASE OpenSession(u)
    BY <1>1, <1>3, <2>2 DEF OpenSession, StorageTypeOK, SessionsStand, SessionsYoung
  <2>3. QED
    BY <2>1, <2>2 DEF CreateBegin
<1>7. CASE Goto(c, "unregister")
  <2>1. Moved(c, "unregister", u, req[c].prov, req[c].seen)
    BY <1>1, <1>7, RequestMoves
  <2>2. RequestsRest
    BY <1>4, <2>1, MovedRests
  <2>3. QED
    BY <1>5, <1>6, <2>2, RestKept
<1>8. CASE OpenSession(u) /\ Goto(c, "register")
  <2>1. Moved(c, "register", u, req[c].prov, req[c].seen)
    BY <1>1, <1>8, RequestMoves
  <2>2. /\ session'[u] = "open" /\ sessionAge'[u] = 0
        /\ \A v \in Uploads \ {u} : session'[v] = session[v] /\ sessionAge'[v] = sessionAge[v]
    BY <1>1, <1>8 DEF OpenSession, StorageTypeOK
  <2>3. \A v \in Uploads \ {u} : /\ Owned(v)' => Owned(v)
                                 /\ Guarded(v)' => Guarded(v)
    BY <1>4, <2>1 DEF Owned, Guarded, Moved, At
  <2>4. CreatorInv'
    BY <1>1, <1>2, <1>4, <2>1 DEF CustodyInv, CreatorInv, Moved, At
  <2>5. GrantInv'
    <3>1. \A v \in Uploads : Guarded(v)' => session'[v] = "open"
      BY <2>2, <2>3 DEF CustodyInv, GrantInv
    <3>2. \A d, e \in Callers :
            At(d, "provider")' /\ At(e, "provider")' /\ req'[d].u = req'[e].u => d = e
      BY <2>1 DEF CustodyInv, GrantInv, Moved, At
    <3>3. QED
      BY <1>4, <3>1, <3>2 DEF CustodyInv, GrantInv
  <2>6. AgeInv'
    <3> SUFFICES ASSUME NEW d \in Callers, At(d, "register")'
                 PROVE  sessionAge'[req'[d].u] <= req'[d].age
      BY DEF AgeInv
    <3>1. CASE d = c
      <4>1. req'[c].u = u /\ req'[c].age \in Nat
        BY <2>1, Times, Types, CallersAssumption DEF Moved, TypeOK, ServiceTypeOK, Request
      <4>2. QED
        BY <2>2, <3>1, <4>1
    <3>2. CASE d # c
      <4>1. req'[d] = req[d] /\ req[d].u \in Uploads \ {u} /\ At(d, "register")
        BY <1>1, <1>2, <2>1, <3>2 DEF Moved, At
      <4>2. QED
        BY <2>2, <4>1 DEF CustodyInv, AgeInv
    <3>3. QED
      BY <3>1, <3>2
  <2>7. OwnersRest
    BY <1>1, <2>2, <2>3 DEF OwnersRest
  <2>8. QED
    BY <1>5, <1>6, <2>4, <2>5, <2>6, <2>7, ReconcileKept DEF CustodyInv
<1>9. QED
  BY <1>7, <1>8 DEF CreateBegin

\* The grant goes out when the session is on record.
LEMMA CreateRegisterCustody ==
  ASSUME ArchiveInv, TypeOK', CustodyInv, NEW c \in Callers, UNCHANGED worker, CreateRegister(c)
  PROVE  CustodyInv'
<1> DEFINE u == req[c].u
<1>1. /\ RowTypeOK /\ StorageTypeOK /\ RequestsTypeOK /\ u \in Uploads /\ At(c, "register")
      /\ u \notin granted
  BY Types DEF CreateRegister, At, ArchiveInv, CustodyInv, CreatorInv
<1>2. UNCHANGED <<session, sessionAge, mloop>>
  BY DEF CreateRegister, provider, worker
<1>3. SessionsStand /\ SessionsYoung /\ ReconciliationRests
  BY <1>1, <1>2, UnchangedRests
<1>4. SetProviderUploadId(u) => Wrote(u, row[u].status, TRUE)
  BY <1>1, StatementsWrite
<1>5. RowsRest
  <2>1. SetProviderUploadId(u) => RowsRest
    BY <1>1, <1>4, WroteRests
  <2>2. QED
    BY <2>1, UnchangedCalm, UnchangedRests DEF CreateRegister
<1>6. CASE Goto(c, "abort") /\ UNCHANGED granted
  <2>1. Moved(c, "abort", u, req[c].prov, req[c].seen)
    BY <1>1, <1>6, RequestMoves
  <2>2. RequestsRest
    BY <1>1, <1>6, <2>1, MovedRests
  <2>3. QED
    BY <1>3, <1>5, <2>2, RestKept
<1>7. CASE /\ In(u, {"Uploading"}) /\ SetProviderUploadId(u)
           /\ Finish(c) /\ granted' = granted \cup {u}
  <2>1. Ended(c) /\ row[u].status = "Uploading" /\ Wrote(u, "Uploading", TRUE)
    BY <1>1, <1>4, <1>7, RequestMoves DEF In
  <2>2. Guarded(u) /\ Owned(u) /\ session[u] = "open"
    BY <1>1, <2>1 DEF Guarded, Owned, CustodyInv, GrantInv
  <2>3. \A v \in Uploads : /\ Owned(v)' => Owned(v)
                           /\ Guarded(v)' => Guarded(v)
    BY <1>7, <2>1, <2>2 DEF Owned, Guarded, Ended, Wrote, At
  <2>4. CreatorInv'
    BY <1>1, <1>7, <2>1 DEF CustodyInv, CreatorInv, Ended, At
  <2>5. GrantInv'
    <3>1. \A v \in Uploads : Guarded(v)' => session'[v] = "open"
      BY <1>2, <2>3 DEF CustodyInv, GrantInv
    <3>2. \A v \in granted' : row'[v].status \in Receiving => row'[v].providerId
      BY <1>7, <2>1, Types DEF CustodyInv, GrantInv, Wrote, ArchiveInv
    <3>3. \A d, e \in Callers :
            At(d, "provider")' /\ At(e, "provider")' /\ req'[d].u = req'[e].u => d = e
      BY <2>1 DEF CustodyInv, GrantInv, Ended, At
    <3>4. QED
      BY <3>1, <3>2, <3>3 DEF GrantInv
  <2>6. AgeInv'
    BY <1>2, <2>1 DEF CustodyInv, AgeInv, Ended, At
  <2>7. OwnersRest
    BY <2>3 DEF OwnersRest
  <2>8. QED
    BY <1>3, <2>4, <2>5, <2>6, <2>7, ReconcileKept DEF CustodyInv
<1>8. QED
  BY <1>6, <1>7 DEF CreateRegister

\* One request takes over the row, and with it the session.
LEMMA CompleteClaimCustody ==
  ASSUME ArchiveInv, TypeOK', CustodyInv, NEW c \in Callers, UNCHANGED worker, CompleteClaim(c)
  PROVE  CustodyInv'
<1> DEFINE u == req[c].u
<1>1. /\ RowTypeOK /\ StorageTypeOK /\ RequestsTypeOK /\ u \in Uploads /\ At(c, "claim")
      /\ u \in granted
  BY Types DEF CompleteClaim, At, ArchiveInv, CompletionInv
<1>2. UNCHANGED <<session, sessionAge, granted, mloop>>
  BY DEF CompleteClaim, provider, worker
<1>3. SessionsStand /\ SessionsYoung /\ ReconciliationRests
  BY <1>1, <1>2, UnchangedRests
<1>4. CASE UNCHANGED row /\ Finish(c)
  <2>1. RowsRest /\ RequestsRest
    BY <1>1, <1>2, <1>4, UnchangedCalm, UnchangedRests, RequestMoves, MovedRests
  <2>2. QED
    BY <1>3, <2>1, RestKept
<1>5. CASE /\ In(u, {"Uploading"}) /\ Transition(u, "Completing")
           /\ \/ Goto(c, "provider")
              \/ Goto(c, "fail")
  <2>1. row[u].status = "Uploading" /\ Wrote(u, "Completing", row[u].providerId)
    BY <1>1, <1>5, StatementsWrite DEF In
  <2>2. PICK pc \in {"provider", "fail"} : Moved(c, pc, u, req[c].prov, req[c].seen)
    BY <1>1, <1>5, RequestMoves
  <2>3. Guarded(u) /\ Owned(u) /\ session[u] = "open"
    BY <1>1, <2>1 DEF Guarded, Owned, CustodyInv, GrantInv
  <2>4. \A v \in Uploads : /\ Owned(v)' => Owned(v)
                           /\ Guarded(v)' => Guarded(v)
    BY <1>2, <2>1, <2>2, <2>3 DEF Owned, Guarded, Moved, Wrote, At
  <2>5. \A d \in Callers : At(d, "provider") => req[d].u # u
    BY <2>1 DEF ArchiveInv, CompletionInv, At
  <2>6. CreatorInv'
    BY <1>1, <1>2, <2>2 DEF CustodyInv, CreatorInv, Moved, At
  <2>7. GrantInv'
    <3>1. \A v \in Uploads : Guarded(v)' => session'[v] = "open"
      BY <1>2, <2>4 DEF CustodyInv, GrantInv
    <3>2. \A v \in granted' : row'[v].status \in Receiving => row'[v].providerId
      BY <1>1, <1>2, <2>1, Types DEF CustodyInv, GrantInv, Wrote, ArchiveInv
    <3>3. \A d, e \in Callers :
            At(d, "provider")' /\ At(e, "provider")' /\ req'[d].u = req'[e].u => d = e
      BY <2>2, <2>5 DEF CustodyInv, GrantInv, Moved, At
    <3>4. QED
      BY <3>1, <3>2, <3>3 DEF GrantInv
  <2>8. AgeInv'
    BY <1>2, <2>2 DEF CustodyInv, AgeInv, Moved, At
  <2>9. OwnersRest
    BY <2>4 DEF OwnersRest
  <2>10. QED
    BY <1>3, <2>6, <2>7, <2>8, <2>9, ReconcileKept DEF CustodyInv
<1>6. QED
  BY <1>4, <1>5 DEF CompleteClaim

\* Whatever the provider answers, its caller does not ask again.
LEMMA CompleteProviderCustody ==
  ASSUME ArchiveInv, TypeOK', CustodyInv, NEW c \in Callers, UNCHANGED worker, CompleteProvider(c)
  PROVE  CustodyInv'
<1> DEFINE u == req[c].u
<1>1. /\ StorageTypeOK /\ RequestsTypeOK /\ u \in Uploads /\ At(c, "provider")
      /\ u \in granted /\ row[u].status \notin {"Absent", "Uploading"}
      /\ \A d \in Callers : ~At(d, "idle") => req[d].u \in Uploads
  BY Types DEF CompleteProvider, At, ArchiveInv, CompletionInv
<1>2. UNCHANGED <<row, granted, mloop>>
  BY DEF CompleteProvider, worker
<1>3. PICK pc \in {"head", "fail"} : Moved(c, pc, u, req[c].prov, req[c].seen)
  BY <1>1, RequestMoves DEF CompleteProvider
<1>4. RowsRest /\ ReconciliationRests /\ RequestsRest
  BY <1>1, <1>2, <1>3, UnchangedCalm, UnchangedRests, MovedRests
<1>5. CASE UNCHANGED provider
  <2>1. SessionsStand /\ SessionsYoung
    BY <1>1, <1>5, UnchangedRests DEF provider
  <2>2. QED
    BY <1>4, <2>1, RestKept
<1>6. CASE FinishSession(u) \/ AbandonCompletion(u)
  <2>1. /\ session'[u] # "none" /\ session[u] # "none"
        /\ \A v \in Uploads \ {u} : session'[v] = session[v]
        /\ \A v \in Uploads : sessionAge'[v] <= sessionAge[v]
    BY <1>1, <1>6 DEF FinishSession, AbandonCompletion, Unfinished, StorageTypeOK
  <2>2. SessionsYoung /\ OwnersRest
    BY <1>4, <2>1, InterestKept DEF SessionsYoung
  <2>3. \A v \in Uploads : Guarded(v)' => v # u /\ Guarded(v)
    BY <1>1, <1>2, <1>3 DEF Guarded, Moved, At, CustodyInv, GrantInv
  <2>4. CreatorInv'
    BY <1>2, <1>3 DEF CustodyInv, CreatorInv, Moved, At
  <2>5. GrantInv'
    <3>1. \A v \in Uploads : Guarded(v)' => session'[v] = "open"
      BY <2>1, <2>3 DEF CustodyInv, GrantInv
    <3>2. \A d, e \in Callers :
            At(d, "provider")' /\ At(e, "provider")' /\ req'[d].u = req'[e].u => d = e
      BY <1>3 DEF CustodyInv, GrantInv, Moved, At
    <3>3. QED
      BY <1>2, <3>1, <3>2 DEF CustodyInv, GrantInv
  <2>6. AgeInv'
    <3> SUFFICES ASSUME NEW d \in Callers, At(d, "register")'
                 PROVE  sessionAge'[req'[d].u] <= req'[d].age
      BY DEF AgeInv
    <3>1. req'[d] = req[d] /\ At(d, "register") /\ req[d].u \in Uploads
      BY <1>1, <1>3 DEF Moved, At
    <3>2. /\ sessionAge'[req[d].u] <= sessionAge[req[d].u]
          /\ sessionAge[req[d].u] <= req[d].age
      BY <2>1, <3>1 DEF CustodyInv, AgeInv
    <3>3. /\ sessionAge'[req[d].u] \in Int /\ sessionAge[req[d].u] \in Int
          /\ req[d].age \in Int
      BY <1>1, <3>1 DEF TypeOK, StorageTypeOK, RequestsTypeOK, Request
    <3>4. QED
      BY <3>1, <3>2, <3>3
  <2>7. QED
    BY <1>4, <2>2, <2>4, <2>5, <2>6, ReconcileKept DEF CustodyInv
<1>7. QED
  BY <1>5, <1>6 DEF CompleteProvider

\* Every step of the API keeps the custody of every session.
LEMMA ServiceCustody ==
  ASSUME ArchiveInv, TypeOK', CustodyInv, ServiceNext, UNCHANGED worker
  PROVE  CustodyInv'
<1>1. StorageTypeOK /\ RequestsTypeOK
  BY Types DEF ArchiveInv
<1>2. ReconciliationRests
  BY UnchangedRests DEF worker
<1>3. ASSUME NEW c \in Callers, RequestStep(c) PROVE CustodyInv'
  BY <1>2, <1>3, CreateBeginCustody, CreateRegisterCustody, CompleteClaimCustody,
     CompleteProviderCustody, QuietRequestRests, RestKept DEF RequestStep
<1>4. ASSUME NEW c \in Callers, NewRequest(c) PROVE CustodyInv'
  BY <1>2, <1>4, CreateInsertCustody, FindRests, RestKept DEF NewRequest
<1>5. ASSUME NEW enabled \in BOOLEAN, SetPreverification(enabled) PROVE CustodyInv'
  <2>1. UNCHANGED <<row, session, sessionAge, req, granted>>
    BY <1>5 DEF SetPreverification, provider
  <2>2. QED
    BY <1>1, <1>2, <2>1, UnchangedCalm, UnchangedRests, RestKept
<1>6. ASSUME NEW S \in SUBSET Callers, RequestsLost(S) PROVE CustodyInv'
  <2>1. UNCHANGED <<row, session, sessionAge, granted>>
    BY <1>6 DEF RequestsLost, provider
  <2>2. RequestsRest
    BY <1>6, <2>1 DEF RequestsLost, RequestsRest, RequestRests, Idle
  <2>3. QED
    BY <1>1, <1>2, <2>1, <2>2, UnchangedCalm, UnchangedRests, RestKept
<1>7. QED
  BY <1>3, <1>4, <1>5, <1>6 DEF ServiceNext

(***************************************************************************)
(* The worker, the bucket and the clock.                                   *)
(***************************************************************************)

\* Verifications write rows that no longer receive.
LEMMA TaskRests ==
  ASSUME ArchiveInv, NEW t \in task, TaskStep(t)
  PROVE  RowsRest
<1> DEFINE u == t.u
<1>1. RowTypeOK /\ u \in Uploads
  BY Types DEF ArchiveInv
<1>2. UNCHANGED row => RowsRest
  BY UnchangedCalm, UnchangedRests
<1>3. ASSUME NEW s \in Status \ Receiving, NEW p, Wrote(u, s, p) PROVE RowsRest
  BY <1>1, <1>3, WroteRests
<1>4. ASSUME NEW s \in Status \ Receiving, Transition(u, s) PROVE RowsRest
  BY <1>1, <1>3, <1>4, StatementsWrite
<1>5. ASSUME TransitionDeadline(u, "Accepted", NoDeadline) PROVE RowsRest
  <2>1. NoDeadline \in -1 .. VerifyLifetime
    BY Times
  <2>2. Wrote(u, "Accepted", row[u].providerId)
    BY <1>1, <1>5, <2>1, StatementsWrite
  <2>3. QED
    BY <1>3, <2>2
<1>6. ASSUME NEW delay \in 0 .. VerifyBackoff, ScheduleVerificationRetry(u, delay) PROVE RowsRest
  BY <1>1, <1>3, <1>6, StatementsWrite
<1>7. ASSUME NEW delay \in 0 .. DeletionBackoff, ScheduleDeletionRetry(u, delay) PROVE RowsRest
  BY <1>1, <1>3, <1>7, StatementsWrite
<1>8. RetryOrExpire(t) => RowsRest
  BY <1>4, <1>6
<1>9. Reschedule(u) => RowsRest
  BY <1>7
<1>10. QED
  BY <1>2, <1>4, <1>5, <1>8, <1>9
     DEF TaskStep, VerifyObject, VerifyInterrupted, VerifyAccept, VerifyRetry, RejectInvalid,
         RejectRemove, RejectFinish, RejectReschedule

\* The maintenance loop aborts sessions of discarded archives, and those
\* nobody owns.
LEMMA MaintenanceCustody ==
  ASSUME ArchiveInv, TypeOK', CustodyInv, MaintenanceStep
  PROVE  CustodyInv'
<1> DEFINE u == mloop.u
<1>1. /\ RowTypeOK /\ StorageTypeOK /\ mloop \in Maintenance /\ mloop.todo \subseteq Uploads
      /\ mloop.pc \in Cleaning \ {"next"} => u \in Uploads /\ row[u].status \in Dead
  BY Types DEF ArchiveInv, MaintenanceTypeOK, CleanupInv, Cleaning
<1>2. RequestsRest
  <2>1. UNCHANGED service => RequestsRest
    BY UnchangedRests DEF service
  <2>2. CASE CleanupClaim \/ CleanupNext \/ CleanupAbort
    BY <2>1, <2>2, Zenon DEF CleanupClaim, CleanupNext, CleanupAbort
  <2>3. CASE CleanupDelete \/ CleanupFinish \/ CleanupRetry
    BY <2>1, <2>3, Zenon DEF CleanupDelete, CleanupFinish, CleanupRetry
  <2>4. CASE ReconcileList \/ ReconcileReference \/ ReconcileFail \/ ReconcileCutoff
             \/ ReconcileAbort
    BY <2>1, <2>4, Zenon DEF ReconcileList, ReconcileReference, ReconcileFail, ReconcileCutoff,
                            ReconcileAbort
  <2>5. QED
    BY <2>2, <2>3, <2>4 DEF MaintenanceStep
<1>3. UNCHANGED row => RowsRest
  BY UnchangedCalm, UnchangedRests
<1>4. UNCHANGED provider => SessionsStand /\ SessionsYoung
  BY <1>1, UnchangedRests DEF provider
<1>5. RowsRest
  <2>1. ASSUME u \in Uploads, NEW s \in Status \ Receiving, NEW p, Wrote(u, s, p) PROVE RowsRest
    BY <2>1, WroteRests
  <2>2. CASE CleanupClaim
    <3>1. PICK S \in SUBSET Uploads : ClaimExpired(S)
      BY <2>2 DEF CleanupClaim, DueBatches
    <3>2. QED
      BY <1>1, <3>1, ClaimExpiredWrites DEF RowsRest
  <2>3. CASE CleanupFinish
    <3>1. u \in Uploads
      BY <1>1, <2>3 DEF CleanupFinish, Cleaning
    <3>2. TransitionClearingProvider(u, "Deleted") => RowsRest
      BY <1>1, <2>1, <3>1, StatementsWrite
    <3>3. QED
      BY <1>3, <2>3, <3>2 DEF CleanupFinish
  <2>4. CASE CleanupRetry
    <3>1. u \in Uploads
      BY <1>1, <2>4 DEF CleanupRetry, Cleaning
    <3>2. ASSUME NEW delay \in 0 .. DeletionBackoff, ScheduleDeletionRetry(u, delay)
          PROVE  RowsRest
      BY <1>1, <2>1, <3>1, <3>2, StatementsWrite
    <3>3. QED
      BY <1>3, <2>4, <3>2 DEF CleanupRetry
  <2>5. CASE \/ CleanupNext \/ CleanupAbort \/ CleanupDelete \/ ReconcileList
             \/ ReconcileReference \/ ReconcileFail \/ ReconcileCutoff \/ ReconcileAbort
    <3>1. UNCHANGED row
      BY <2>5, Zenon
         DEF CleanupNext, CleanupAbort, CleanupDelete, ReconcileList, ReconcileReference,
             ReconcileFail, ReconcileCutoff, ReconcileAbort
    <3>2. QED
      BY <1>3, <3>1
  <2>6. QED
    BY <2>2, <2>3, <2>4, <2>5 DEF MaintenanceStep
<1>6. SessionsStand /\ SessionsYoung
  <2>1. ASSUME DeleteEveryVersion(u) PROVE SessionsStand /\ SessionsYoung
    BY <1>1, <2>1, UnchangedRests DEF DeleteEveryVersion
  <2>2. CASE CleanupAbort
    <3>1. u \in Uploads /\ ~Guarded(u)
      BY <1>1, <2>2 DEF CleanupAbort, Cleaning, Guarded, Dead
    <3>2. QED
      BY <1>1, <1>4, <2>2, <3>1, AbortRests DEF CleanupAbort
  <2>3. CASE ReconcileAbort
    <3>1. \A v \in mloop.todo : v \in Uploads /\ ~Guarded(v)
      BY <1>1, <2>3, GuardedIsOwned DEF ReconcileAbort, CustodyInv, ReconcileInv
    <3>2. QED
      BY <1>1, <1>4, <2>3, <3>1, AbortRests DEF ReconcileAbort
  <2>4. CASE CleanupDelete
    BY <1>4, <2>1, <2>4, Zenon DEF CleanupDelete
  <2>5. CASE \/ CleanupClaim \/ CleanupNext \/ CleanupFinish \/ CleanupRetry \/ ReconcileList
             \/ ReconcileReference \/ ReconcileFail \/ ReconcileCutoff
    <3>1. UNCHANGED provider
      BY <2>5, Zenon
         DEF CleanupClaim, CleanupNext, CleanupFinish, CleanupRetry, ReconcileList,
             ReconcileReference, ReconcileFail, ReconcileCutoff
    <3>2. QED
      BY <1>4, <3>1
  <2>6. QED
    BY <2>2, <2>3, <2>4, <2>5 DEF MaintenanceStep
<1>7. CreatorInv' /\ GrantInv' /\ AgeInv' /\ OwnersRest
  BY <1>2, <1>5, <1>6, GrantsKept, InterestKept
<1>8. ReconcileInv'
  <2>1. ReconciliationRests => ReconcileInv'
    BY <1>6, <1>7, ReconcileKept
  <2>2. CASE \/ CleanupClaim \/ CleanupAbort \/ CleanupDelete \/ CleanupFinish \/ ReconcileFail
    <3>1. CASE CleanupClaim
      BY <1>1, <2>1, <3>1 DEF CleanupClaim, Maintenance, ReconciliationRests
    <3>2. CASE CleanupAbort
      <4>1. \/ mloop' = [mloop EXCEPT !.pc = "delete"]
            \/ mloop' = [mloop EXCEPT !.pc = "delete", !.abortFailed = TRUE]
        BY <3>2, Zenon DEF CleanupAbort, MGoto
      <4>2. QED
        BY <1>1, <2>1, <4>1 DEF Maintenance, ReconciliationRests
    <3>3. CASE CleanupDelete
      BY <1>1, <2>1, <3>3 DEF CleanupDelete, MGoto, AfterDeletion, Maintenance,
                              ReconciliationRests
    <3>4. CASE CleanupFinish
      <4>1. MGoto("next") \/ MGoto("retry")
        BY <3>4, Zenon DEF CleanupFinish
      <4>2. QED
        BY <1>1, <2>1, <4>1 DEF MGoto, Maintenance, ReconciliationRests
    <3>5. CASE ReconcileFail
      BY <2>1, <3>5 DEF ReconcileFail, MaintenanceIdle, ReconciliationRests
    <3>6. QED
      BY <2>2, <3>1, <3>2, <3>3, <3>4, <3>5
  <2>3. CASE CleanupNext \/ CleanupRetry
    <3>1. [MaintenanceIdle EXCEPT !.pc = "reading"].pc = "reading"
            /\ [MaintenanceIdle EXCEPT !.pc = "reading"].listed = {}
            /\ [MaintenanceIdle EXCEPT !.pc = "reading"].gotReferenced = FALSE
      BY DEF MaintenanceIdle
    <3>2. CASE CleanupNext
      <4>1. ASSUME NEW v, NEW pc \in {"abort", "retry"},
                   mloop' = [mloop EXCEPT !.pc = pc, !.todo = @ \ {v}, !.u = v,
                                          !.abortFailed = FALSE]
            PROVE  mloop'.pc = pc
        BY <1>1, <4>1 DEF Maintenance
      <4>2. \/ mloop'.pc \in {"abort", "retry"}
            \/ mloop' = [MaintenanceIdle EXCEPT !.pc = "reading"]
        BY <3>2, <4>1, Zenon DEF CleanupNext
      <4>3. QED
        BY <2>1, <3>1, <4>2 DEF ReconciliationRests
    <3>3. CASE CleanupRetry
      <4>1. MGoto("next") \/ mloop' = [MaintenanceIdle EXCEPT !.pc = "reading"]
        BY <3>3, Zenon DEF CleanupRetry
      <4>2. QED
        BY <1>1, <2>1, <3>1, <4>1 DEF MGoto, Maintenance, ReconciliationRests
    <3>4. QED
      BY <2>3, <3>2, <3>3
  <2>4. CASE ReconcileAbort
    <3>1. mloop' = MaintenanceIdle \/ \E v \in mloop.todo : mloop' = [mloop EXCEPT !.todo = @ \ {v}]
      BY <2>4 DEF ReconcileAbort
    <3>2. ReconciliationRests
      BY <1>1, <2>4, <3>1 DEF ReconcileAbort, ReconciliationRests, MaintenanceIdle, Maintenance
    <3>3. QED
      BY <2>1, <3>2
  <2>5. CASE ReconcileList
    <3>1. /\ mloop.pc = "reading" /\ mloop'.pc = "reading"
          /\ mloop'.listed = {v \in Uploads : Unfinished(v)}
          /\ mloop'.referenced = mloop.referenced /\ mloop'.gotReferenced = mloop.gotReferenced
          /\ mloop'.age = mloop.age
      BY <1>1, <2>5 DEF ReconcileList, Maintenance
    <3>2. UNCHANGED <<row, session, sessionAge, req, granted>>
      BY <2>5 DEF ReconcileList, provider, service
    <3>3. QED
      BY <3>1, <3>2 DEF CustodyInv, ReconcileInv, Owned, At, Unfinished
  <2>6. CASE ReconcileReference
    <3>1. /\ mloop.pc = "reading" /\ mloop'.pc = "reading" /\ mloop'.listed = mloop.listed
          /\ mloop'.referenced = ProviderUploadIds /\ mloop'.age = mloop.age
          /\ mloop.age \in Nat
      BY <1>1, <2>6, Times, CallersAssumption DEF ReconcileReference, Maintenance
    <3>2. UNCHANGED <<row, session, sessionAge, req, granted>>
      BY <2>6 DEF ReconcileReference, provider, service
    <3>3. ASSUME NEW v \in Uploads \ ProviderUploadIds, Owned(v)
          PROVE  sessionAge[v] <= CallTime + mloop.age
      <4>1. PICK c \in Callers : At(c, "register") /\ req[c].u = v
        BY <3>3 DEF ProviderUploadIds, Owned, CustodyInv, GrantInv
      <4>2. sessionAge[v] <= req[c].age
        BY <4>1 DEF CustodyInv, AgeInv
      <4>3. sessionAge[v] \in Nat /\ req[c].age \in 0 .. CallTime /\ CallTime \in Nat
        BY <1>1, Types, Times, CallersAssumption
           DEF StorageTypeOK, ArchiveInv, RequestsTypeOK, Request
      <4>4. QED
        BY <3>1, <4>2, <4>3
    <3>4. QED
      BY <3>1, <3>2, <3>3 DEF CustodyInv, ReconcileInv, Owned, At
  <2>7. CASE ReconcileCutoff
    <3>1. mloop'.pc = "sweep" /\ mloop'.todo = Orphans
      BY <2>7 DEF ReconcileCutoff, MaintenanceIdle
    <3>2. UNCHANGED <<row, session, sessionAge, req, granted>>
      BY <2>7 DEF ReconcileCutoff, provider, service
    <3>3. ASSUME NEW v \in Orphans PROVE session[v] # "none" /\ ~Owned(v)
      <4>1. /\ v \in mloop.listed /\ v \in Uploads \ mloop.referenced
            /\ sessionAge[v] >= UploadWindow
        BY <1>1, <3>3 DEF Orphans, Maintenance
      <4>2. session[v] # "none" /\ (Owned(v) => sessionAge[v] <= CallTime + mloop.age)
        BY <2>7, <4>1 DEF ReconcileCutoff, CustodyInv, ReconcileInv
      <4>3. /\ CallTime \in Nat /\ UploadWindow \in Nat /\ CallTime + CallTime < UploadWindow
            /\ mloop.age \in 0 .. CallTime /\ sessionAge[v] \in Nat
        BY <1>1, <4>1, Times, CallersAssumption DEF Maintenance, StorageTypeOK
      <4>4. QED
        BY <4>1, <4>2, <4>3
    <3>4. QED
      BY <3>1, <3>2, <3>3 DEF ReconcileInv, Owned, At
  <2>8. QED
    BY <2>2, <2>3, <2>4, <2>5, <2>6, <2>7 DEF MaintenanceStep
<1>9. QED
  BY <1>7, <1>8 DEF CustodyInv

\* Sessions grow as old as the request that opened them, and as the
\* reconciliation that has listed them.
LEMMA TickCustody ==
  ASSUME ArchiveInv, TypeOK', CustodyInv, Tick
  PROVE  CustodyInv'
<1>1. /\ RowTypeOK /\ StorageTypeOK /\ RequestsTypeOK /\ mloop \in Maintenance
      /\ \A c \in Callers : ~At(c, "idle") => req[c].u \in Uploads
  BY Types DEF ArchiveInv, MaintenanceTypeOK
<1>0. /\ row' = [u \in Uploads |-> Older(row[u])]
      /\ sessionAge' = [u \in Uploads |-> IF Unfinished(u) THEN UpTo(sessionAge[u], UploadWindow)
                                                           ELSE sessionAge[u]]
      /\ mloop' = [mloop EXCEPT !.age = IF mloop.pc = "reading" THEN @ + 1 ELSE @]
      /\ UNCHANGED <<session, granted>>
  BY Zenon DEF Tick
<1>2. \A u \in Uploads : row'[u].status = row[u].status /\ row'[u].providerId = row[u].providerId
  <2>1. \A u \in Uploads : row[u] \in Row
    BY <1>1 DEF RowTypeOK
  <2>2. QED
    BY <1>0, <2>1, OlderRow
<1>3. UNCHANGED <<session, granted>>
  BY <1>0
<1>4. \A c \in Callers :
        /\ req'[c].pc = req[c].pc /\ req'[c].u = req[c].u
        /\ ~At(c, "idle") => req'[c].age = req[c].age + 1
  <2> TAKE c \in Callers
  <2>1. req[c] \in Request
    BY <1>1 DEF RequestsTypeOK
  <2> DEFINE older == [req[c] EXCEPT !.age = @ + 1]
  <2>2. /\ older.pc = req[c].pc /\ older.u = req[c].u /\ older.age = req[c].age + 1
        /\ "deadline" \in DOMAIN older
    BY <2>1 DEF Request
  <2>3. req'[c] = IF At(c, "idle") THEN req[c] ELSE [older EXCEPT !.deadline = Down(@)]
    BY Zenon DEF Tick
  <2> HIDE DEF older
  <2>4. QED
    BY <2>2, <2>3
<1>5. \A u \in Uploads : /\ sessionAge[u] \in Nat /\ sessionAge'[u] \in Nat
                         /\ sessionAge'[u] <= sessionAge[u] + 1
  BY <1>0, <1>1, Times DEF StorageTypeOK, UpTo
<1>6. /\ mloop'.pc = mloop.pc /\ mloop'.todo = mloop.todo /\ mloop'.listed = mloop.listed
      /\ mloop'.referenced = mloop.referenced /\ mloop'.gotReferenced = mloop.gotReferenced
      /\ mloop.pc = "reading" => mloop'.age = mloop.age + 1
      /\ mloop.age \in Nat /\ CallTime \in Nat
  BY <1>0, <1>1, Times, CallersAssumption DEF Maintenance
<1>7. \A u \in Uploads : Owned(u)' = Owned(u) /\ Guarded(u)' = Guarded(u)
  BY <1>2, <1>3, <1>4 DEF Owned, Guarded, At
<1>8. CreatorInv'
  BY <1>3, <1>4 DEF CustodyInv, CreatorInv, At
<1>9. GrantInv'
  <2>1. \A u \in Uploads : Guarded(u)' => session'[u] = "open"
    BY <1>3, <1>7 DEF CustodyInv, GrantInv
  <2>2. \A u \in granted : row'[u].status \in Receiving => row'[u].providerId
    BY <1>2, Types DEF CustodyInv, GrantInv, ArchiveInv
  <2>3. QED
    BY <1>3, <1>4, <2>1, <2>2 DEF CustodyInv, GrantInv, At
<1>10. AgeInv'
  <2> SUFFICES ASSUME NEW c \in Callers, At(c, "register")'
               PROVE  sessionAge'[req'[c].u] <= req'[c].age
    BY DEF AgeInv
  <2>1. /\ At(c, "register") /\ req[c].u \in Uploads /\ req'[c].u = req[c].u
        /\ req'[c].age = req[c].age + 1
    BY <1>1, <1>4 DEF At
  <2>2. sessionAge[req[c].u] <= req[c].age /\ req[c].age \in Int
    BY <1>1, <2>1 DEF CustodyInv, AgeInv, RequestsTypeOK, Request
  <2>3. QED
    BY <1>5, <2>1, <2>2
<1>11. ReconcileInv'
  <2>1. mloop.pc = "reading" => \A u \in mloop.listed : session'[u] # "none"
    BY <1>3 DEF CustodyInv, ReconcileInv
  <2>2. ASSUME mloop.pc = "reading", mloop.gotReferenced, NEW u \in Uploads \ mloop.referenced,
               Owned(u)'
        PROVE  sessionAge'[u] <= CallTime + mloop'.age
    <3>1. sessionAge[u] <= CallTime + mloop.age
      BY <1>7, <2>2 DEF CustodyInv, ReconcileInv
    <3>2. QED
      BY <1>5, <1>6, <2>2, <3>1
  <2>3. mloop.pc = "sweep" => \A u \in mloop.todo : session'[u] # "none" /\ ~Owned(u)'
    BY <1>1, <1>3, <1>7 DEF CustodyInv, ReconcileInv, Maintenance
  <2>4. QED
    BY <1>6, <2>1, <2>2, <2>3 DEF ReconcileInv
<1>12. QED
  BY <1>8, <1>9, <1>10, <1>11 DEF CustodyInv

\* CustodyInv is inductive relative to ArchiveInv.
LEMMA CustodyStep == ArchiveInv /\ CustodyInv /\ [Next]_vars => CustodyInv'
<1> SUFFICES ASSUME ArchiveInv, CustodyInv, [Next]_vars PROVE CustodyInv'
  OBVIOUS
<1>1. TypeOK' /\ RowTypeOK /\ StorageTypeOK
  BY TypeStep, Types DEF ArchiveInv
<1>2. CASE ServiceNext /\ UNCHANGED worker
  BY <1>1, <1>2, ServiceCustody
<1>3. ASSUME NEW t \in task, TaskStep(t) PROVE CustodyInv'
  <2>1. UNCHANGED <<session, sessionAge, req, granted, mloop>>
    BY <1>3 DEF TaskStep, VerifyObject, VerifyInterrupted, VerifyAccept, VerifyRetry,
                RejectInvalid, RejectRemove, RejectFinish, RejectReschedule,
                DeleteEveryVersion, provider, service
  <2>2. QED
    BY <1>1, <1>3, <2>1, TaskRests, UnchangedRests, RestKept
<1>4. CASE MaintenanceStep
  BY <1>1, <1>4, MaintenanceCustody
<1>5. CASE VerificationClaim
  <2>1. PICK S \in VerificationBatches(vloop.includeStored, VerifyLimit) : ClaimForVerification(S)
    BY <1>5 DEF VerificationClaim
  <2>2. RowsRest
    BY <1>1, <2>1, ClaimForVerificationWrites DEF RowsRest
  <2>3. UNCHANGED <<session, sessionAge, req, granted, mloop>>
    BY <1>5 DEF VerificationClaim, provider, service
  <2>4. QED
    BY <1>1, <2>2, <2>3, UnchangedRests, RestKept
<1>6. CASE WorkerCrash
  <2>1. UNCHANGED <<row, session, sessionAge, req, granted>> /\ mloop'.pc = "idle"
    BY <1>6 DEF WorkerCrash, provider, service, MaintenanceIdle
  <2>2. ReconciliationRests
    BY <2>1 DEF ReconciliationRests
  <2>3. QED
    BY <1>1, <2>1, <2>2, UnchangedCalm, UnchangedRests, RestKept
<1>7. CASE Tick
  BY <1>1, <1>7, TickCustody
<1>8. ASSUME NEW u \in Uploads, LateCompletion(u) PROVE CustodyInv'
  <2>1. UNCHANGED <<row, req, granted, mloop>>
    BY <1>8 DEF LateCompletion, service, worker
  <2>2. session[u] = "completing" /\ ~Guarded(u)
    BY <1>8, GuardedIsOwned DEF LateCompletion
  <2>3. SessionsStand /\ SessionsYoung
    BY <1>1, <1>8, <2>2 DEF LateCompletion, FinishSession, StorageTypeOK, SessionsStand,
                            SessionsYoung
  <2>4. QED
    BY <1>1, <2>1, <2>3, UnchangedCalm, UnchangedRests, RestKept
<1>9. CASE VerificationRead \/ VerificationJoin \/ UNCHANGED vars
  <2>1. UNCHANGED <<row, session, sessionAge, req, granted, mloop>>
    BY <1>9 DEF VerificationRead, VerificationJoin, provider, service, vars
  <2>2. QED
    BY <1>1, <2>1, UnchangedCalm, UnchangedRests, RestKept
<1>10. QED
  BY <1>2, <1>3, <1>4, <1>5, <1>6, <1>7, <1>8, <1>9 DEF Next, WorkerNext, VerificationStep

\* It holds at the start, where nothing is asked, granted or reconciled.
LEMMA CustodyInit == Init => CustodyInv
<1> SUFFICES ASSUME Init PROVE CustodyInv
  OBVIOUS
<1>1. \A c \in Callers : req[c].pc = "idle"
  BY DEF Init, ServiceInit, Idle
<1>2. granted = {} /\ mloop.pc = "idle"
  BY DEF Init, ServiceInit, WorkerInit, MaintenanceIdle
<1>3. QED
  BY <1>1, <1>2 DEF CustodyInv, CreatorInv, GrantInv, Guarded, AgeInv, ReconcileInv, At

\* While the holder of a grant may upload, and while its completion is being
\* carried out, neither create's compensation, nor the cleanup, nor the
\* reconciliation with its two lists taken at different times aborts its
\* session.
THEOREM CustodyIsKept == Spec => []GrantedSessionKept
<1>1. ArchiveInv /\ CustodyInv => GrantedSessionKept
  <2> SUFFICES ASSUME ArchiveInv, CustodyInv, NEW u \in granted,
                      \/ row[u].status = "Uploading"
                      \/ \E c \in Callers : row[u].status = "Completing" /\ At(c, "provider")
                                            /\ req[c].u = u
               PROVE  session[u] = "open"
    BY DEF GrantedSessionKept
  <2>1. u \in Uploads /\ Guarded(u)
    BY Types DEF ArchiveInv, Guarded
  <2>2. QED
    BY <2>1 DEF CustodyInv, GrantInv
<1>2. QED
  BY <1>1, ArchiveInit, ArchiveStep, CustodyInit, CustodyStep, PTL DEF Spec
=============================================================================
