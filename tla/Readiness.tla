----------------------------- MODULE Readiness -----------------------------
(***************************************************************************)
(* The API's readiness probe beside the control plane, whose tables it     *)
(* reads.                                                                  *)
(***************************************************************************)
EXTENDS ControlPlane

\* Two attempts do not take as long as a snapshot is valid: a connection and a
\* handful of statements of 15 seconds each, against 10 minutes.
ASSUME ReadinessAssumption == 2 * CallTime < Lifetime

VARIABLE ready              \* the API's /health/ready

readinessVars == <<vars, ready>>

(***************************************************************************)
(* /health/ready: the state and the newest snapshot are read on two        *)
(* connections at the same time, then compared.                            *)
(***************************************************************************)
NotReading == [pc |-> "idle", since |-> 0, gotState |-> FALSE, revision |-> 0,
               gotSnapshot |-> FALSE, snapshot |-> None]

ReadyStart ==
  /\ ready.pc # "reading"
  /\ ready' = [NotReading EXCEPT !.pc = "reading", !.since = clock]
  /\ UNCHANGED vars

ReadyState ==
  /\ ready.pc = "reading" /\ ~ready.gotState
  /\ ready' = [ready EXCEPT !.gotState = TRUE, !.revision = control.revision]
  /\ UNCHANGED vars

ReadySnapshot ==
  /\ ready.pc = "reading" /\ ~ready.gotSnapshot
  /\ ready' = [ready EXCEPT !.gotSnapshot = TRUE, !.snapshot = ReadPublished]
  /\ UNCHANGED vars

SnapshotAcceptedStale(snapshot, revision) ==          \* mutant: the expiry is not looked at
  snapshot # None /\ snapshot.revision = revision

SnapshotAccepted(snapshot, revision) ==
  /\ snapshot # None
  /\ Fresh(snapshot, clock, revision)
  /\ snapshot.revision = revision

ReadyAnswer ==
  /\ ready.pc = "reading" /\ ready.gotState /\ ready.gotSnapshot
  /\ ready' = [NotReading EXCEPT !.pc =
       IF SnapshotAccepted(ready.snapshot, ready.revision) THEN "200" ELSE "503"]
  /\ UNCHANGED vars

ReadyStep == ReadyStart \/ ReadyState \/ ReadySnapshot \/ ReadyAnswer

(***************************************************************************)

ReadinessInit == Init /\ ready = NotReading

\* a probe does not outlast the timeouts of its statements
ReadinessNext ==
  \/ ReadyStep
  \/ /\ Next /\ UNCHANGED ready
     /\ ready.pc = "reading" /\ clock' # clock => clock < ready.since + CallTime

ReadinessSpec == ReadinessInit /\ [][ReadinessNext]_readinessVars

(***************************************************************************)

\* A ready API serves a snapshot clients accept: the newest one is valid when
\* the probe answers, also if another was published since the probe read it,
\* by a request that had taken its time stamp long before.
ReadyMeansServed ==
  [][ready.pc = "reading" /\ ready'.pc = "200" =>
       Revisions # {} /\ Fresh(ReadPublished, clock, ready.revision)]_readinessVars
=============================================================================
