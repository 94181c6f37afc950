--------------------------- MODULE ObjectStorage ---------------------------
(***************************************************************************)
(* The Backblaze bucket as BackblazeStorage uses it: per archive one       *)
(* object key (all of its versions together) and one multipart session.    *)
(* The bucket is outside the repository; what it does is taken from the    *)
(* calls src/infrastructure/backblaze-storage.ts makes and the replies it  *)
(* expects.                                                                *)
(***************************************************************************)
EXTENDS DiagnosticRepository

VARIABLES
  object,      \* the stored object, if any
  session,     \* the multipart session of the archive's key
  sessionAge   \* ticks since Initiated

provider == <<object, session, sessionAge>>

\* "corrupt": bytes that are not the declared archive (size or SHA-256)
Object == {"none", "intact", "corrupt"}

\* "completing": the caller gave up on a completion the bucket may still perform
Session == {"none", "open", "completing", "completed", "aborted"}

Unfinished(u) == session[u] \in {"open", "completing"}

\* CreateMultipartUpload
OpenSession(u) ==
  /\ session' = [session EXCEPT ![u] = "open"]
  /\ sessionAge' = [sessionAge EXCEPT ![u] = 0]
  /\ UNCHANGED object

\* CompleteMultipartUpload joins the parts into the object
FinishSession(u) ==
  /\ Unfinished(u)
  /\ session' = [session EXCEPT ![u] = "completed"]
  /\ sessionAge' = [sessionAge EXCEPT ![u] = 0]
  /\ \E o \in {"intact", "corrupt"} : object' = [object EXCEPT ![u] = o]

\* the caller's abort signal fires while the bucket is still at it
AbandonCompletion(u) ==
  /\ session[u] = "open"
  /\ session' = [session EXCEPT ![u] = "completing"]
  /\ UNCHANGED <<object, sessionAge>>

\* AbortMultipartUpload; a session that is over answers NoSuchUpload
AbortSession(u) ==
  /\ session' = [session EXCEPT ![u] = IF Unfinished(u) THEN "aborted" ELSE @]
  /\ sessionAge' = [sessionAge EXCEPT ![u] = IF Unfinished(u) THEN 0 ELSE @]
  /\ UNCHANGED object

\* deleteEveryVersion, which lists the key again before it returns
DeleteEveryVersion(u) ==
  /\ object' = [object EXCEPT ![u] = "none"]
  /\ UNCHANGED <<session, sessionAge>>

StorageInit ==
  /\ object \in [Uploads -> Object]
  /\ \A u \in Uploads : (object[u] = "none") = (u \notin Preloaded)
  /\ session = [u \in Uploads |-> IF u \in Preloaded THEN "completed" ELSE "none"]
  /\ sessionAge = [u \in Uploads |-> 0]

StorageTypeOK ==
  /\ object \in [Uploads -> Object]
  /\ session \in [Uploads -> Session]
  /\ sessionAge \in [Uploads -> 0 .. UploadWindow]
=============================================================================
