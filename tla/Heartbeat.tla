----------------------------- MODULE Heartbeat -----------------------------
(***************************************************************************)
(* ServiceHeartbeat and the container's health check: a timer calls        *)
(* refresh(), which asks a probe and writes or removes a file; the check   *)
(* looks at the file's age.  The probe may hang, the file system may fail, *)
(* and stop() does not wait for a refresh that is under way.               *)
(***************************************************************************)
EXTENDS Integers, FiniteSets

CONSTANTS
  Refreshes,    \* calls of refresh() at one time
  MaxAge,       \* the age, in timer intervals, up to which the check passes
  MaxIoFaults   \* bound on failing writes and removals

ASSUME HeartbeatAssumption == MaxAge \in Nat \ {0}

VARIABLES
  file,       \* age of the heartbeat file, up to MaxAge + 1, or NoFile
  running,    \* the flag of the instance
  refresh,    \* the calls; "before": calls under way when it started,
              \* "overtaken": a call that started later has answered
  timer,      \* whether the interval is set
  ioFaults

heartbeatVars == <<file, running, refresh, timer, ioFaults>>

NoFile == -1
Resting == [step |-> "idle", before |-> {}, overtaken |-> FALSE]

HeartbeatInit ==
  /\ file = NoFile
  /\ running = FALSE
  /\ refresh = [r \in Refreshes |-> Resting]
  /\ timer = TRUE
  /\ ioFaults = 0

UnderWay == {r \in Refreshes : refresh[r].step # "idle"}

MayRefresh == timer /\ ~running

\* mutant: the file is touched before the probe is asked
FileAtStartTouched == 0

FileAtStart == file

\* the interval fires; a call that finds another running returns at once
Refresh(r) ==
  /\ MayRefresh /\ refresh[r].step = "idle"
  /\ running' = TRUE
  /\ file' = FileAtStart
  /\ refresh' = [refresh EXCEPT ![r] = [step |-> "probing", before |-> UnderWay, overtaken |-> FALSE]]
  /\ UNCHANGED <<timer, ioFaults>>

\* await this.probe(): TRUE, FALSE or an exception; or it never answers
ProbeAnswers(r, step) ==
  /\ refresh[r].step = "probing"
  /\ refresh' = [s \in Refreshes |->
       IF s = r THEN [refresh[r] EXCEPT !.step = step]
       ELSE [refresh[s] EXCEPT !.overtaken = @ \/ s \in refresh[r].before]]
  /\ UNCHANGED <<file, running, timer, ioFaults>>

\* writeFile or rm; when it throws, rm once more, and whatever comes of that
ApplyAnswer(r) ==
  /\ refresh[r].step \in {"yes", "no"}
  /\ \/ file' = (IF refresh[r].step = "yes" THEN 0 ELSE NoFile) /\ UNCHANGED ioFaults
     \/ ioFaults < MaxIoFaults /\ ioFaults' = ioFaults + 1 /\ file' \in {file, NoFile}
  /\ running' = FALSE
  /\ refresh' = [s \in Refreshes |->
       IF s = r THEN Resting ELSE [refresh[s] EXCEPT !.before = @ \ {r}]]
  /\ UNCHANGED timer

\* stop(): the interval is cleared and the file removed
StopHeartbeat ==
  /\ timer
  /\ timer' = FALSE
  /\ file' = NoFile
  /\ UNCHANGED <<running, refresh, ioFaults>>

HeartbeatTick ==
  /\ file \in 0 .. MaxAge
  /\ file' = file + 1
  /\ UNCHANGED <<running, refresh, timer, ioFaults>>

HeartbeatNext ==
  \/ \E r \in Refreshes :
       \/ Refresh(r) \/ ApplyAnswer(r)
       \/ \E step \in {"yes", "no"} : ProbeAnswers(r, step)
  \/ StopHeartbeat
  \/ HeartbeatTick

\* time passes, and started I/O ends; no probe needs to answer
HeartbeatFairness ==
  /\ WF_heartbeatVars(HeartbeatTick)
  /\ \A r \in Refreshes : WF_heartbeatVars(ApplyAnswer(r))

HeartbeatSpec == HeartbeatInit /\ [][HeartbeatNext]_heartbeatVars

-----------------------------------------------------------------------------
(***************************************************************************)
(* An answer is not applied after the answer of a refresh that started     *)
(* later: a slow yes never covers a newer no.                              *)
(***************************************************************************)
NewestAnswerStands == \A r \in Refreshes : refresh[r].step = "yes" => ~refresh[r].overtaken

(***************************************************************************)
(* A service whose probe no longer answers yes, because it fails or hangs  *)
(* or the service was stopped in the middle of a refresh, is reported      *)
(* unhealthy from some time on, also when the file could not be removed.   *)
(***************************************************************************)
SilenceTurnsUnhealthy ==
  <>[](\A r \in Refreshes : refresh[r].step # "yes") => <>[](file \notin 0 .. MaxAge)

(***************************************************************************)
(* The health check believes neither an overtaken answer nor a silent      *)
(* service.                                                                *)
(***************************************************************************)
HeartbeatHonest == []NewestAnswerStands /\ SilenceTurnsUnhealthy
=============================================================================
