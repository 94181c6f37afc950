-------------------------- MODULE ArchiveInvariant --------------------------
(***************************************************************************)
(* Why the safety properties of Diagnostics hold: an inductive invariant   *)
(* that follows one archive through its creation, its completion, its      *)
(* verification and its deletion.                                          *)
(***************************************************************************)
EXTENDS Diagnostics

Dead == Discarded \cup Gone

\* Somebody can still make the bucket join the parts of u.
Completable(u) ==
  \/ session[u] = "completing"
  \/ session[u] = "open" /\ \E c \in Callers : At(c, "provider") /\ req[c].u = u

\* Nobody holds on to an upload that was never announced.
AbsentInv ==
  \A u \in Uploads : row[u].status = "Absent" =>
    /\ session[u] = "none"
    /\ u \notin granted
    /\ \A c \in Callers : ~At(c, "idle") => req[c].u # u

\* One caller creates an upload, opens its session once, and hands out its
\* grant after that.
CreationInv ==
  /\ \A c \in Callers : At(c, "begin") => session[req[c].u] = "none" /\ req[c].u \notin granted
  /\ \A c, d \in Callers :
       /\ req[c].pc \in {"begin", "register"}
       /\ req[d].pc \in {"begin", "register"}
       /\ req[c].u = req[d].u
       => c = d

\* Completions are asked for with a grant, carried out by who claimed the
\* row, and their session is on record until it is over.
CompletionInv ==
  /\ \A c \in Callers :
       /\ req[c].pc \in {"claim", "provider", "head", "finish"} => req[c].u \in granted
       /\ req[c].pc \in {"provider", "head", "finish"}
            => row[req[c].u].status \notin {"Absent", "Uploading"}
       /\ At(c, "claim") /\ req[c].prov /\ row[req[c].u].status = "Uploading"
            => row[req[c].u].providerId
       /\ At(c, "provider") /\ session[req[c].u] = "open" => row[req[c].u].providerId
       /\ req[c].pc \in {"head", "finish"} => session[req[c].u] = "completed"
       /\ At(c, "finish") /\ row[req[c].u].status = "Completing" => object[req[c].u] # "none"
       /\ At(c, "discard") => req[c].seen \in Deletable
  /\ \A u \in Uploads : session[u] = "completing" =>
       row[u].providerId /\ row[u].status \notin {"Absent", "Uploading"}

\* What is in the bucket for each status.
BytesInv ==
  \A u \in Uploads :
    /\ session[u] # "completed" => object[u] = "none"
    /\ row[u].status \in Stored => session[u] = "completed" /\ object[u] # "none"
    /\ row[u].status = "Accepted" => object[u] = "intact"
    /\ row[u].status \in Gone => object[u] = "none" /\ ~Completable(u)

\* Verifications read finished objects, and delete only after giving up.
VerificationInv ==
  \A t \in task :
    /\ session[t.u] = "completed"
    /\ t.pc = "accepting" => object[t.u] = "intact" \/ row[t.u].status \in Dead
    /\ t.pc \in {"removing", "invalidating", "rescheduling"} => row[t.u].status \in Dead
    /\ t.pc = "invalidating" => object[t.u] = "none"

\* The cleanup owns discarded archives, and reports one as deleted when no
\* completion of it is possible any more and its versions are gone.
CleanupInv ==
  /\ mloop.pc \in {"next", "abort", "delete", "finish", "retry"} =>
       \A u \in mloop.todo : row[u].status \in Dead
  /\ mloop.pc \in {"abort", "delete", "finish", "retry"} => row[mloop.u].status \in Dead
  /\ mloop.pc = "delete" /\ ~mloop.abortFailed => ~Completable(mloop.u)
  /\ mloop.pc = "finish" => ~Completable(mloop.u) /\ object[mloop.u] = "none"

ArchiveInv ==
  TypeOK /\ AbsentInv /\ CreationInv /\ CompletionInv /\ BytesInv /\ VerificationInv /\ CleanupInv

(***************************************************************************)
(* The lease and the budget of a verification.                             *)
(***************************************************************************)

\* A verification that has not been settled holds its row, which has been
\* idle since the claim and counts the attempts the claim returned; or its
\* row has been settled without it (or by a statement it takes for failed).
LeaseInv ==
  \A t \in task : t.pc \in Leased =>
    \/ /\ row[t.u].status = "VerifyingActive"
       /\ row[t.u].idle = t.age /\ row[t.u].attempts = t.attempts
    \/ row[t.u].status \in Dead
    \/ t.pc = "retrying" /\ row[t.u].status = "Accepted"

\* No row ever reaches the budget: the attempt that would spend it discards.
BudgetInv == \A u \in Uploads : row[u].attempts < MaxAttempts

LifeInv ==
  /\ LeaseInv /\ OneVerificationPerArchive
  /\ BudgetInv /\ ReleasedIsLeaving
  /\ BodylessAnswers \/ IntactNeverRejected

(***************************************************************************)
(* The custody of multipart sessions.                                      *)
(***************************************************************************)

\* Somebody counts on the session of u: the holder of its grant, or the
\* request that is about to hand the grant out.
Owned(u) ==
  \/ row[u].status \in Receiving /\ u \in granted
  \/ row[u].status = "Uploading" /\ \E c \in Callers : At(c, "register") /\ req[c].u = u

\* Until the grant is out the upload is its creator's alone.
CreatorInv ==
  \A c, d \in Callers :
    /\ req[c].pc \in {"begin", "register", "abort"} => req[c].u \notin granted
    /\ /\ req[c].pc \in {"begin", "register", "abort"}
       /\ req[d].pc \in {"begin", "register", "abort"}
       /\ req[c].u = req[d].u
       => c = d

\* The session of u has to be open: its parts may still come, its identifier
\* is about to be recorded, or the provider is being asked to join the parts.
Guarded(u) ==
  \/ row[u].status = "Uploading" /\ u \in granted
  \/ row[u].status = "Uploading" /\ \E c \in Callers : At(c, "register") /\ req[c].u = u
  \/ row[u].status = "Completing" /\ \E c \in Callers : At(c, "provider") /\ req[c].u = u

\* Granted sessions are on record and, while they have to be, open; only one
\* request asks the provider to join the parts.
GrantInv ==
  /\ \A u \in granted : row[u].status \in Receiving => row[u].providerId
  /\ \A u \in Uploads : Guarded(u) => session[u] = "open"
  /\ \A c, d \in Callers : At(c, "provider") /\ At(d, "provider") /\ req[c].u = req[d].u => c = d

\* How old a session can be before its identifier is on record.
AgeInv ==
  \A c \in Callers : At(c, "register") => sessionAge[req[c].u] <= req[c].age

\* What the reconciliation lists without a reference and somebody counts on
\* is younger than a request and a reconciliation last, and never swept.
ReconcileInv ==
  /\ mloop.pc = "reading" =>
       /\ \A u \in mloop.listed : session[u] # "none"
       /\ mloop.gotReferenced =>
            \A u \in Uploads \ mloop.referenced :
              Owned(u) => sessionAge[u] <= CallTime + mloop.age
  /\ mloop.pc = "sweep" => \A u \in mloop.todo : session[u] # "none" /\ ~Owned(u)

CustodyInv == CreatorInv /\ GrantInv /\ AgeInv /\ ReconcileInv
=============================================================================
