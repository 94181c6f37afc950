------------------------- MODULE DiagnosticService -------------------------
(***************************************************************************)
(* The API's operations on an upload (DiagnosticService), each split where *)
(* the handler awaits: what it read before an await is kept in the caller  *)
(* and may be stale when the next step runs.                               *)
(***************************************************************************)
EXTENDS ObjectStorage

CONSTANTS
  Callers,       \* requests the API serves at the same time
  NoUpload,      \* the upload of an idle caller
  Operations,    \* the operations callers use in this instance
  CallTime,      \* ticks a request may last: every await in it has a timeout
  PreverifyAtStart,  \* settings a behaviour may start from
  MaxFaults      \* bound on provider errors, database errors and crashes

ASSUME CallersAssumption ==
  /\ NoUpload \notin Uploads
  /\ CallTime \in Nat
  /\ CallTime + CallTime < UploadWindow      \* minutes, against 12 hours
  /\ PreverifyAtStart \subseteq BOOLEAN
  /\ MaxFaults \in Nat

VARIABLES
  req,           \* per caller: where its request is and what it has read
  granted,       \* uploads whose creator has received its upload grant
  preverify,     \* diagnostic_settings.preverify_new_uploads
  faults         \* errors and crashes so far

service == <<req, granted, preverify>>

Idle == [pc |-> "idle", u |-> NoUpload, prov |-> FALSE, bound |-> FALSE,
         seen |-> "Absent", deadline |-> NoDeadline, age |-> 0]

Awaiting ==
  {"idle",
   "begin", "register", "abort", "unregister",             \* create
   "grant",                                               \* partUrl
   "claim", "provider", "head", "finish", "fail",         \* complete
   "discard",                                             \* moderate
   "queue"}                                               \* requestDownload

Request ==
  [pc : Awaiting,
   u : Uploads \cup {NoUpload},
   prov : BOOLEAN, bound : BOOLEAN,        \* of the record find() returned
   seen : Status,
   deadline : -1 .. VerifyLifetime,
   age : 0 .. CallTime]

At(c, pc) == req[c].pc = pc
Goto(c, pc) == req' = [req EXCEPT ![c].pc = pc]
Start(c, pc, u, fields) == req' = [req EXCEPT ![c] = [fields EXCEPT !.pc = pc, !.u = u]]
Finish(c) == req' = [req EXCEPT ![c] = Idle]
Fault == faults < MaxFaults /\ faults' = faults + 1

\* A statement throws: it was not carried out, or its COMMIT was and the
\* answer got lost.
InDoubt(effect) == Fault /\ (effect \/ UNCHANGED row)

\* The same of a call to the bucket.
InDoubtAtBucket(effect) == Fault /\ (effect \/ UNCHANGED provider)

(***************************************************************************)
(* create: insert the row, open the session, remember its identifier; any  *)
(* failure after the insert aborts the session and fails the row.          *)
(***************************************************************************)
CreateInsert(c, u) ==
  /\ "create" \in Operations /\ At(c, "idle") /\ In(u, {"Absent"})
  /\ \E evicted \in SUBSET {v \in Uploads : Evictable(v)} : InsertWithinQuota(u, evicted)
  /\ Start(c, "begin", u, Idle)
  /\ UNCHANGED <<granted, preverify, faults, provider>>

CreateBegin(c) ==
  /\ At(c, "begin")
  /\ \/ OpenSession(req[c].u) /\ Goto(c, "register") /\ UNCHANGED faults
     \/ OpenSession(req[c].u) /\ Goto(c, "unregister") /\ Fault   \* answer lost
     \/ Goto(c, "unregister") /\ Fault /\ UNCHANGED provider
  /\ UNCHANGED <<row, granted, preverify>>

CreateRegister(c) ==
  LET u == req[c].u IN
  /\ At(c, "register")
  /\ \/ /\ In(u, {"Uploading"}) /\ SetProviderUploadId(u)
        /\ Finish(c) /\ granted' = granted \cup {u} /\ UNCHANGED faults
     \/ /\ ~In(u, {"Uploading"}) /\ Goto(c, "abort")
        /\ UNCHANGED <<row, granted, faults>>
     \/ /\ Goto(c, "abort") /\ UNCHANGED granted
        /\ InDoubt(In(u, {"Uploading"}) /\ SetProviderUploadId(u))
  /\ UNCHANGED <<preverify, provider>>

CreateAbort(c) ==
  /\ At(c, "abort") /\ Goto(c, "unregister")
  /\ \/ AbortSession(req[c].u) /\ UNCHANGED faults
     \/ InDoubtAtBucket(AbortSession(req[c].u))     \* audited and swallowed
  /\ UNCHANGED <<row, granted, preverify>>

CreateUnregister(c) ==
  LET u == req[c].u IN
  /\ At(c, "unregister") /\ Finish(c)
  /\ IF In(u, {"Uploading"}) THEN Transition(u, "Failed") ELSE UNCHANGED row
  /\ UNCHANGED <<granted, preverify, faults, provider>>

(***************************************************************************)
(* partUrl and complete need the grant's token and requireUploading.       *)
(***************************************************************************)
RequireUploading(u) ==
  u \in granted /\ In(u, {"Uploading"}) /\ row[u].age < UploadWindow

PartUrlFind(c, u) ==
  /\ "partUrl" \in Operations /\ At(c, "idle")
  /\ RequireUploading(u) /\ row[u].providerId
  /\ Start(c, "grant", u, Idle)
  /\ UNCHANGED <<row, granted, preverify, faults, provider>>

\* "all": this was the last declared part without a grant
PartUrlGrant(c) ==
  LET u == req[c].u IN
  /\ At(c, "grant") /\ Finish(c)
  /\ \/ In(u, {"Uploading"}) /\ \E all \in BOOLEAN : RegisterPartGrant(u, all)
     \/ UNCHANGED row                         \* no such status, or another grant is bound
  /\ UNCHANGED <<granted, preverify, faults, provider>>

CompleteFind(c, u) ==
  /\ "complete" \in Operations /\ At(c, "idle") /\ RequireUploading(u)
  /\ Start(c, "claim", u, [Idle EXCEPT !.prov = row[u].providerId, !.bound = row[u].bound])
  /\ UNCHANGED <<row, granted, preverify, faults, provider>>

\* The parts are checked against the record read before the claim.
CompleteClaim(c) ==
  LET u == req[c].u IN
  /\ At(c, "claim")
  /\ IF In(u, {"Uploading"})
       THEN /\ Transition(u, "Completing")
            /\ \/ req[c].prov /\ req[c].bound /\ Goto(c, "provider")
               \/ Goto(c, "fail")             \* validateParts refuses the list
       ELSE UNCHANGED row /\ Finish(c)
  /\ UNCHANGED <<granted, preverify, faults, provider>>

CompleteProvider(c) ==
  LET u == req[c].u IN
  /\ At(c, "provider")
  /\ \/ session[u] = "open" /\ FinishSession(u) /\ Goto(c, "head") /\ UNCHANGED faults
     \/ AbandonCompletion(u) /\ Goto(c, "fail") /\ Fault
     \/ Goto(c, "fail") /\ UNCHANGED <<provider, faults>>   \* refused: no session, wrong parts
  /\ UNCHANGED <<row, granted, preverify>>

CompleteVerifySize(c) ==
  LET u == req[c].u IN
  /\ At(c, "head")
  /\ \/ object[u] # "none" /\ Goto(c, "finish") /\ UNCHANGED faults
     \/ object[u] # "intact" /\ Goto(c, "fail") /\ UNCHANGED faults
     \/ Goto(c, "fail") /\ Fault
  /\ UNCHANGED <<row, granted, preverify, provider>>

CompleteFinish(c) ==
  LET u == req[c].u IN
  /\ At(c, "finish")
  /\ \/ /\ In(u, {"Completing"}) /\ TransitionClearingProvider(u, "Pending")
        /\ Finish(c) /\ UNCHANGED faults
     \/ /\ ~In(u, {"Completing"}) /\ Goto(c, "fail") /\ UNCHANGED <<row, faults>>
     \/ /\ Goto(c, "fail")
        /\ InDoubt(In(u, {"Completing"}) /\ TransitionClearingProvider(u, "Pending"))
  /\ UNCHANGED <<granted, preverify, provider>>

CompleteFail(c) ==
  LET u == req[c].u IN
  /\ At(c, "fail") /\ Finish(c)
  /\ IF In(u, {"Completing"}) THEN Transition(u, "Failed") ELSE UNCHANGED row
  /\ UNCHANGED <<granted, preverify, faults, provider>>

(***************************************************************************)
(* moderate: an administrator deletes from any status that no request and  *)
(* no worker owns.                                                         *)
(***************************************************************************)
Deletable == {"Uploading", "Verifying", "Pending", "Accepted", "Failed", "Expired"}

ModerateFind(c, u) ==
  /\ "moderate" \in Operations /\ At(c, "idle") /\ In(u, Deletable)
  /\ Start(c, "discard", u, [Idle EXCEPT !.seen = row[u].status])
  /\ UNCHANGED <<row, granted, preverify, faults, provider>>

ModerateDeleteUnchecked(c) ==        \* mutant: whatever became of the archive
  /\ At(c, "discard") /\ Finish(c)
  /\ Transition(req[c].u, "Expired")
  /\ UNCHANGED <<granted, preverify, faults, provider>>

ModerateDelete(c) ==
  LET u == req[c].u IN
  /\ At(c, "discard") /\ Finish(c)
  /\ IF In(u, {req[c].seen}) THEN Transition(u, "Expired") ELSE UNCHANGED row
  /\ UNCHANGED <<granted, preverify, faults, provider>>

(***************************************************************************)
(* requestDownload queues the verification of a stored archive, at most to *)
(* its expiry.  The other replies (busy, presigned URL) change no state.   *)
(***************************************************************************)
LeastOfUnbounded(m, n) == m           \* mutant: the 24 hours are not applied

LeastOf(m, n) == IF m < n THEN m ELSE n

DownloadFind(c, u) ==
  /\ "download" \in Operations /\ At(c, "idle")
  /\ row[u].age < Retention /\ StoredForVerification(u)
  /\ Start(c, "queue", u,
           [Idle EXCEPT !.deadline = LeastOf(Retention - row[u].age, VerifyLifetime)])
  /\ UNCHANGED <<row, granted, preverify, faults, provider>>

DownloadQueue(c) ==
  LET u == req[c].u IN
  /\ At(c, "queue") /\ Finish(c)
  /\ IF In(u, {"Pending"})
       THEN TransitionDeadline(u, "Verifying", req[c].deadline)
       ELSE UNCHANGED row
  /\ UNCHANGED <<granted, preverify, faults, provider>>

SetPreverification(enabled) ==
  /\ "preverify" \in Operations
  /\ preverify' = enabled
  /\ UNCHANGED <<row, req, granted, faults, provider>>

\* The API process dies, or a compensating statement throws: requests end
\* where they are.
RequestsLost(S) ==
  /\ \A c \in S : ~At(c, "idle")
  /\ req' = [c \in Callers |-> IF c \in S THEN Idle ELSE req[c]]
  /\ Fault
  /\ UNCHANGED <<row, granted, preverify, provider>>

RequestStep(c) ==
  \/ CreateBegin(c) \/ CreateRegister(c) \/ CreateAbort(c) \/ CreateUnregister(c)
  \/ PartUrlGrant(c)
  \/ CompleteClaim(c) \/ CompleteProvider(c) \/ CompleteVerifySize(c)
  \/ CompleteFinish(c) \/ CompleteFail(c)
  \/ ModerateDelete(c)
  \/ DownloadQueue(c)

NewRequest(c) ==
  \E u \in Uploads :
    \/ CreateInsert(c, u) \/ PartUrlFind(c, u) \/ CompleteFind(c, u)
    \/ ModerateFind(c, u) \/ DownloadFind(c, u)

ServiceNext ==
  \/ \E c \in Callers : NewRequest(c) \/ RequestStep(c)
  \/ \E enabled \in BOOLEAN : SetPreverification(enabled)
  \/ \E S \in SUBSET Callers \ {{}} : RequestsLost(S)

ServiceInit ==
  /\ req = [c \in Callers |-> Idle]
  /\ granted = {}
  /\ preverify \in PreverifyAtStart
  /\ faults = 0

ServiceTypeOK ==
  /\ req \in [Callers -> Request]
  /\ \A c \in Callers : ~At(c, "idle") => req[c].u \in Uploads
  /\ granted \subseteq Uploads
  /\ preverify \in BOOLEAN
  /\ faults \in 0 .. MaxFaults
=============================================================================
