--------------------- MODULE DiagnosticRepositoryProofs ---------------------
(***************************************************************************)
(* What the statements of DiagnosticRepository write, for every ordering   *)
(* of the leases: lemmas for the proofs about Diagnostics.                 *)
(***************************************************************************)
EXTENDS DiagnosticRepository, TLAPS

USE DEF Receiving, Stored, Discarded, Gone, Status, NoDeadline

\* The leases and lifetimes are positive and ordered.
LEMMA Times ==
  /\ DeletingLease \in Nat \ {0} /\ StaleLease \in Nat \ {0} /\ UploadWindow \in Nat \ {0}
  /\ VerifyLifetime \in Nat \ {0} /\ Retention \in Nat \ {0}
  /\ DeletingLease <= StaleLease /\ StaleLease <= UploadWindow
  /\ UploadWindow <= VerifyLifetime /\ VerifyLifetime <= Retention
BY LeaseAssumption

\* Setting one column of a row to a value of its type gives a row.
LEMMA ColumnType ==
  ASSUME NEW r \in Row
  PROVE  /\ \A x \in Status : [r EXCEPT !.status = x] \in Row
         /\ \A x \in 0 .. Retention : [r EXCEPT !.age = x] \in Row
         /\ \A x \in 0 .. UploadWindow : [r EXCEPT !.idle = x] \in Row
         /\ \A x \in -1 .. VerifyLifetime : [r EXCEPT !.deadline = x] \in Row
         /\ \A x \in BOOLEAN : [r EXCEPT !.providerId = x] \in Row
         /\ \A x \in BOOLEAN : [r EXCEPT !.bound = x] \in Row
         /\ \A x \in Nat : [r EXCEPT !.attempts = x] \in Row
         /\ \A x \in 0 .. VerifyBackoff : [r EXCEPT !.nextV = x] \in Row
         /\ \A x \in 0 .. DeletionBackoff : [r EXCEPT !.nextD = x] \in Row
         /\ \A x \in BOOLEAN : [r EXCEPT !.released = x] \in Row
BY DEF Row

\* The values the statements write are of the columns' types.
LEMMA ColumnRange ==
  ASSUME NEW r \in Row
  PROVE  /\ 0 \in 0 .. UploadWindow
         /\ 0 \in 0 .. DeletionBackoff
         /\ r.status \in Status
         /\ r.providerId \in BOOLEAN
         /\ r.bound \in BOOLEAN
         /\ r.attempts \in Nat /\ r.attempts + 1 \in Nat
         /\ r.nextD \in 0 .. DeletionBackoff
         /\ r.released \in BOOLEAN
BY LeaseAssumption, RetryAssumption DEF Row

\* The rows the statements start from.
LEMMA InitialRows == NoRow \in Row /\ NewRow \in Row /\ StoredRow \in Row
<1>1. NoRow \in Row
  BY LeaseAssumption, RetryAssumption DEF NoRow, Row
<1>2. NewRow \in Row /\ StoredRow \in Row
  BY <1>1, ColumnType, Zenon DEF NewRow, StoredRow, Status, Receiving, Stored
<1>3. QED
  BY <1>1, <1>2

\* A row as the table keeps it is a row, with its status and session.
LEMMA SettledRow ==
  ASSUME NEW r \in Row
  PROVE  /\ Settled(r) \in Row
         /\ Settled(r).status = r.status
         /\ Settled(r).providerId = r.providerId
<1>1. CASE r.status \in Discarded \cup Gone
  <2> DEFINE delay == IF r.status = "Failed" THEN r.nextD ELSE 0
             kept  == [NoRow EXCEPT !.status = r.status, !.providerId = r.providerId,
                                    !.nextD = delay, !.released = r.released]
  <2>1. delay \in 0 .. DeletionBackoff
    BY ColumnRange
  <2>2. kept \in Row
    <3> HIDE DEF delay
    <3> QED
      BY <2>1, InitialRows, ColumnType, ColumnRange, Zenon
  <2>3. kept.status = r.status /\ kept.providerId = r.providerId
    BY DEF NoRow
  <2>4. Settled(r) = kept
    BY <1>1 DEF Settled
  <2>5. QED
    BY <2>2, <2>3, <2>4
<1>2. CASE r.status \notin Discarded \cup Gone
  BY <1>2 DEF Settled
<1>3. QED
  BY <1>1, <1>2

(***************************************************************************)
(* Wrote: a statement touched the row of u only, and left it with this     *)
(* status and this provider_upload_id.                                     *)
(***************************************************************************)
Wrote(u, status, providerId) ==
  /\ RowTypeOK'
  /\ row'[u].status = status
  /\ row'[u].providerId = providerId
  /\ \A v \in Uploads \ {u} : row'[v] = row[v]

\* Putting a row writes its status and session.
LEMMA PutWrote ==
  ASSUME RowTypeOK, NEW u \in Uploads, NEW r \in Row, Put(u, r)
  PROVE  Wrote(u, r.status, r.providerId)
<1>1. Settled(r) \in Row /\ Settled(r).status = r.status
        /\ Settled(r).providerId = r.providerId
  BY SettledRow
<1>2. row'[u] = Settled(r) /\ \A v \in Uploads \ {u} : row'[v] = row[v]
  BY DEF RowTypeOK, Put
<1>3. RowTypeOK'
  BY <1>1 DEF RowTypeOK, Put
<1>4. QED
  BY <1>1, <1>2, <1>3 DEF Wrote

(***************************************************************************)
(* The statements on one row.                                              *)
(***************************************************************************)

\* transition, setProviderUploadId, registerPartGrant and the two retries
\* touch their own row and no other column of Wrote than they name.
LEMMA StatementsWrite ==
  ASSUME RowTypeOK, NEW u \in Uploads
  PROVE  /\ \A s \in Status : Transition(u, s) => Wrote(u, s, row[u].providerId)
         /\ \A s \in Status, d \in -1 .. VerifyLifetime :
              TransitionDeadline(u, s, d) => Wrote(u, s, row[u].providerId)
         /\ \A s \in Status : TransitionClearingProvider(u, s) => Wrote(u, s, FALSE)
         /\ SetProviderUploadId(u) => Wrote(u, row[u].status, TRUE)
         /\ \A all \in BOOLEAN :
              RegisterPartGrant(u, all) => Wrote(u, row[u].status, row[u].providerId)
         /\ \A d \in 0 .. VerifyBackoff :
              ScheduleVerificationRetry(u, d) => Wrote(u, "Verifying", row[u].providerId)
         /\ \A d \in 0 .. DeletionBackoff :
              ScheduleDeletionRetry(u, d) => Wrote(u, "Failed", row[u].providerId)
<1> DEFINE r == row[u]
<1>0. r \in Row
  BY DEF RowTypeOK
<1> HIDE DEF r
<1>1. ASSUME NEW s \in Status, Transition(u, s) PROVE Wrote(u, s, row[u].providerId)
  <2> DEFINE q == [r EXCEPT !.status = s, !.idle = 0]
  <2>1. q \in Row
    BY <1>0, ColumnType, ColumnRange, Zenon
  <2>2. q.status = s /\ q.providerId = r.providerId
    BY <1>0 DEF Row
  <2>3. Put(u, q)
    BY <1>1 DEF Transition, r
  <2> HIDE DEF q
  <2>4. QED
    BY <2>1, <2>2, <2>3, PutWrote DEF r
<1>2. ASSUME NEW s \in Status, NEW d \in -1 .. VerifyLifetime, TransitionDeadline(u, s, d)
      PROVE Wrote(u, s, row[u].providerId)
  <2> DEFINE q == [r EXCEPT !.status = s, !.idle = 0, !.deadline = d]
  <2>1. q \in Row
    BY <1>0, ColumnType, ColumnRange, Zenon
  <2>2. q.status = s /\ q.providerId = r.providerId
    BY <1>0 DEF Row
  <2>3. Put(u, q)
    BY <1>2 DEF TransitionDeadline, r
  <2> HIDE DEF q
  <2>4. QED
    BY <2>1, <2>2, <2>3, PutWrote DEF r
<1>3. ASSUME NEW s \in Status, TransitionClearingProvider(u, s) PROVE Wrote(u, s, FALSE)
  <2> DEFINE q == [r EXCEPT !.status = s, !.idle = 0, !.providerId = FALSE]
  <2>1. q \in Row
    BY <1>0, ColumnType, ColumnRange, Zenon
  <2>2. q.status = s /\ q.providerId = FALSE
    BY <1>0 DEF Row
  <2>3. Put(u, q)
    BY <1>3 DEF TransitionClearingProvider, r
  <2> HIDE DEF q
  <2>4. QED
    BY <2>1, <2>2, <2>3, PutWrote
<1>4. ASSUME SetProviderUploadId(u) PROVE Wrote(u, row[u].status, TRUE)
  <2> DEFINE q == [r EXCEPT !.providerId = TRUE, !.idle = 0]
  <2>1. q \in Row
    BY <1>0, ColumnType, ColumnRange, Zenon
  <2>2. q.status = r.status /\ q.providerId = TRUE
    BY <1>0 DEF Row
  <2>3. Put(u, q)
    BY <1>4 DEF SetProviderUploadId, r
  <2> HIDE DEF q
  <2>4. QED
    BY <2>1, <2>2, <2>3, PutWrote DEF r
<1>5. ASSUME NEW all \in BOOLEAN, RegisterPartGrant(u, all)
      PROVE Wrote(u, row[u].status, row[u].providerId)
  <2> DEFINE q1 == [r EXCEPT !.bound = @ \/ all]
             q  == [q1 EXCEPT !.idle = 0]
  <2>1. q1 \in Row
    BY <1>0, ColumnType, ColumnRange, Zenon
  <2>2. q \in Row
    BY <2>1, ColumnType, ColumnRange, Zenon
  <2>3. q.status = r.status /\ q.providerId = r.providerId
    BY <1>0 DEF Row
  <2>4. Put(u, q)
    BY <1>5, Zenon DEF RegisterPartGrant, r
  <2> HIDE DEF q
  <2>5. QED
    BY <2>2, <2>3, <2>4, PutWrote DEF r
<1>6. ASSUME NEW d \in 0 .. VerifyBackoff, ScheduleVerificationRetry(u, d)
      PROVE Wrote(u, "Verifying", row[u].providerId)
  <2> DEFINE q1 == [r EXCEPT !.status = "Verifying"]
             q2 == [q1 EXCEPT !.attempts = @ + 1]
             q  == [q2 EXCEPT !.nextV = d, !.idle = 0]
  <2>1. q1 \in Row /\ q1.status = "Verifying" /\ q1.providerId = r.providerId
    BY <1>0 DEF Row
  <2>2. q2 \in Row /\ q2.status = q1.status /\ q2.providerId = q1.providerId
    <3> HIDE DEF q1
    <3> QED
      BY <2>1 DEF Row
  <2>3. q \in Row /\ q.status = q2.status /\ q.providerId = q2.providerId
    <3> HIDE DEF q2
    <3>1. q \in Row
      BY <2>2, ColumnType, ColumnRange, Zenon
    <3>2. q.status = q2.status /\ q.providerId = q2.providerId
      BY <2>2 DEF Row
    <3>3. QED
      BY <3>1, <3>2
  <2>4. Put(u, q)
    BY <1>6, Zenon DEF ScheduleVerificationRetry, r
  <2> HIDE DEF q, q2, q1
  <2>5. QED
    BY <2>1, <2>2, <2>3, <2>4, PutWrote DEF r
<1>7. ASSUME NEW d \in 0 .. DeletionBackoff, ScheduleDeletionRetry(u, d)
      PROVE Wrote(u, "Failed", row[u].providerId)
  <2> DEFINE q == [r EXCEPT !.status = "Failed", !.nextD = d, !.released = FALSE]
  <2>1. q \in Row
    BY <1>0, ColumnType, ColumnRange, Zenon DEF Status, Discarded
  <2>2. q.status = "Failed" /\ q.providerId = r.providerId
    BY <1>0 DEF Row
  <2>3. Put(u, q)
    BY <1>7 DEF ScheduleDeletionRetry, r
  <2> HIDE DEF q
  <2>4. QED
    BY <2>1, <2>2, <2>3, PutWrote DEF r
<1>8. QED
  BY <1>1, <1>2, <1>3, <1>4, <1>5, <1>6, <1>7

(***************************************************************************)
(* The statements on several rows, and the clock.                          *)
(***************************************************************************)

\* insertWithinQuota adds one row and expires the evicted ones.
LEMMA InsertWrites ==
  ASSUME RowTypeOK, NEW u \in Uploads, NEW E, InsertWithinQuota(u, E)
  PROVE  /\ RowTypeOK'
         /\ row'[u].status = "Uploading" /\ row'[u].providerId = FALSE
         /\ \A v \in E \cap (Uploads \ {u}) :
              row'[v].status = "Expired" /\ row'[v].providerId = row[v].providerId
         /\ \A v \in Uploads \ (E \cup {u}) : row'[v] = row[v]
<1> DEFINE expired(v) == [row[v] EXCEPT !.status = "Expired", !.released = TRUE]
<1>0. \A v \in Uploads : row[v] \in Row
  BY DEF RowTypeOK
<1>1. \A v \in Uploads : /\ Settled(expired(v)) \in Row
                         /\ Settled(expired(v)).status = "Expired"
                         /\ Settled(expired(v)).providerId = row[v].providerId
  <2> TAKE v \in Uploads
  <2>1. expired(v) \in Row
    BY <1>0, ColumnType, Zenon DEF Status, Discarded
  <2>2. expired(v).status = "Expired" /\ expired(v).providerId = row[v].providerId
    BY <1>0 DEF Row
  <2> HIDE DEF expired
  <2>3. QED
    BY <2>1, <2>2, SettledRow
<1>2. row' = [v \in Uploads |-> IF v = u THEN NewRow
                               ELSE IF v \in E THEN Settled(expired(v)) ELSE row[v]]
  BY DEF InsertWithinQuota
<1>3. NewRow \in Row /\ NewRow.status = "Uploading" /\ NewRow.providerId = FALSE
  BY InitialRows DEF NewRow, NoRow
<1> HIDE DEF expired
<1>4. QED
  BY <1>0, <1>1, <1>2, <1>3 DEF RowTypeOK

\* claimVerification leases the rows of its batch.
LEMMA ClaimForVerificationWrites ==
  ASSUME RowTypeOK, NEW S, ClaimForVerification(S)
  PROVE  /\ RowTypeOK'
         /\ \A v \in Uploads \cap S : /\ row'[v].status = "VerifyingActive"
                                     /\ row'[v].providerId = row[v].providerId
         /\ \A v \in Uploads \ S : row'[v] = row[v]
<1> DEFINE leased(v) == [row[v] EXCEPT !.status = "VerifyingActive", !.idle = 0]
<1>0. \A v \in Uploads : row[v] \in Row
  BY DEF RowTypeOK
<1>1. \A v \in Uploads : leased(v) \in Row
  BY <1>0, ColumnType, ColumnRange, Zenon DEF Status, Stored
<1>2. \A v \in Uploads : /\ leased(v).status = "VerifyingActive"
                         /\ leased(v).providerId = row[v].providerId
  BY <1>0 DEF Row
<1>3. row' = [v \in Uploads |-> IF v \in S THEN leased(v) ELSE row[v]]
  BY DEF ClaimForVerification
<1> HIDE DEF leased
<1>4. QED
  BY <1>0, <1>1, <1>2, <1>3 DEF RowTypeOK

\* claimExpired takes the rows of its batch for deletion and no other.
LEMMA ClaimExpiredWrites ==
  ASSUME RowTypeOK, NEW S \in SUBSET Uploads, ClaimExpired(S)
  PROVE  /\ RowTypeOK'
         /\ \A v \in Uploads :
              IF v \in S
                THEN row'[v].status = "Deleting" /\ row'[v].providerId = row[v].providerId
                ELSE row'[v] = row[v]
<1> DEFINE taken(v) == [row[v] EXCEPT !.status = "Deleting"]
<1>0. \A v \in Uploads : row[v] \in Row
  BY DEF RowTypeOK
<1>1. \A v \in Uploads : /\ Settled(taken(v)) \in Row
                         /\ Settled(taken(v)).status = "Deleting"
                         /\ Settled(taken(v)).providerId = row[v].providerId
  <2> TAKE v \in Uploads
  <2>1. taken(v) \in Row
    BY <1>0, ColumnType, Zenon DEF Status, Discarded
  <2>2. taken(v).status = "Deleting" /\ taken(v).providerId = row[v].providerId
    BY <1>0 DEF Row
  <2> HIDE DEF taken
  <2>3. QED
    BY <2>1, <2>2, SettledRow
<1>2. row' = [v \in Uploads |-> IF v \in S THEN Settled(taken(v)) ELSE row[v]]
  BY DEF ClaimExpired
<1> HIDE DEF taken
<1>3. QED
  BY <1>0, <1>1, <1>2 DEF RowTypeOK

\* A tick leaves a row a row, with its status and session.
LEMMA OlderRow ==
  ASSUME NEW r \in Row
  PROVE  /\ Older(r) \in Row
         /\ Older(r).status = r.status
         /\ Older(r).providerId = r.providerId
<1> DEFINE
      r1 == [r EXCEPT !.age = IF r.status \in Receiving \cup Stored
                                THEN UpTo(@, Retention) ELSE @]
      r2 == [r1 EXCEPT !.idle = IF r.status \in {"Completing", "VerifyingActive", "Deleting"}
                                  THEN UpTo(@, UploadWindow) ELSE @]
      r3 == [r2 EXCEPT !.deadline = Down(@)]
      r4 == [r3 EXCEPT !.nextV = Down(@)]
      r5 == [r4 EXCEPT !.nextD = Down(@)]
      Like(q) == q \in Row /\ q.status = r.status /\ q.providerId = r.providerId
<1> USE LeaseAssumption, RetryAssumption
<1>1. Like(r1)
  BY DEF Row, UpTo
<1>2. Like(r2)
  <2> HIDE DEF r1
  <2> QED
    BY <1>1 DEF Row, UpTo
<1>3. Like(r3)
  <2> HIDE DEF r2
  <2> QED
    BY <1>2 DEF Row, Down
<1>4. Like(r4)
  <2> HIDE DEF r3
  <2> QED
    BY <1>3 DEF Row, Down
<1>5. Like(r5)
  <2> HIDE DEF r4
  <2> QED
    BY <1>4 DEF Row, Down
<1>6. Older(r) = r5
  BY Zenon DEF Older
<1> HIDE DEF r5
<1>7. QED
  BY <1>5, <1>6
=============================================================================
