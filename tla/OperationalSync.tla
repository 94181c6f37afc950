--------------------------- MODULE OperationalSync ---------------------------
(***************************************************************************)
(* The worker's control loop: bring the published release in line with     *)
(* what GitHub shows, withdraw it when that fails, report whether the game *)
(* is public, sign the state anew, and rest for five minutes.              *)
(***************************************************************************)
EXTENDS ControlService

CONSTANTS
  Sources,       \* releases the source may show, None when none is verifiable
  HasPlayabilityProbe

ASSUME OperationalSyncAssumption ==
  /\ Sources \subseteq [version : Versions, assets : Assets] \cup {None}
  /\ HasPlayabilityProbe \in BOOLEAN

VARIABLES
  source,        \* what GitHubReleaseProbe.current() finds
  sync           \* the loop: where it is, and releaseStateSynchronized

SyncSteps == {"probe", "setting", "clear", "clearing", "playability", "observing",
              "republish", "republishing", "rest"}

SyncAt(at) == sync.at = at
SyncGoto(at) == sync' = [sync EXCEPT !.at = at]
Answered == call[Worker].status # "sent"
Succeeded == call[Worker].status = "done"

Order(id, command) ==
  Submit([caller |-> Worker, route |-> "fresh", id |-> id, command |-> command, expected |-> 0])

AfterFailedSyncPlayability == "playability"           \* mutant: nothing is withdrawn

AfterFailedSync == "clear"

\* syncRelease
ProbeRelease ==
  /\ SyncAt("probe")
  /\ \/ /\ source # None
        /\ \E id \in 1 .. MaxIds :
             /\ Drawn(id, ForOthers)
             /\ Order(id, [Blank EXCEPT !.type = "release.set",
                  !.evidence = [version |-> source.version, assets |-> source.assets,
                                verified |-> id]])
        /\ SyncGoto("setting") /\ UNCHANGED faults
     \/ source = None /\ SyncGoto(AfterFailedSync) /\ UNCHANGED <<handler, call, faults>>
     \/ Fault /\ SyncGoto(AfterFailedSync) /\ UNCHANGED <<handler, call>>
  /\ UNCHANGED <<database, clock, source>>

ReleaseSynchronized ==
  /\ SyncAt("setting") /\ Answered
  /\ SyncGoto(IF Succeeded THEN "playability" ELSE AfterFailedSync)
  /\ UNCHANGED <<database, service, clock, source>>

\* clearRelease
ClearRelease ==
  /\ SyncAt("clear")
  /\ \E id \in 1 .. MaxIds : Drawn(id, ForWithdrawals) /\ Order(id, Blank)
  /\ SyncGoto("clearing")
  /\ UNCHANGED <<database, clock, faults, source>>

ReleaseCleared ==
  /\ SyncAt("clearing") /\ Answered
  /\ sync' = [at |-> "playability", synchronized |-> Succeeded]
  /\ UNCHANGED <<database, service, clock, source>>

\* syncPlayability; an error is only logged
Playability ==
  /\ SyncAt("playability")
  /\ \/ /\ HasPlayabilityProbe
        /\ \E id \in 1 .. MaxIds, public \in BOOLEAN :
             /\ Drawn(id, ForOthers)
             /\ Order(id, [Blank EXCEPT !.type = "game.observation", !.on = public])
        /\ SyncGoto("observing") /\ UNCHANGED faults
     \/ ~HasPlayabilityProbe /\ SyncGoto("republish") /\ UNCHANGED <<handler, call, faults>>
     \/ Fault /\ SyncGoto("republish") /\ UNCHANGED <<handler, call>>
  /\ UNCHANGED <<database, clock, source>>

PlayabilityObserved ==
  /\ SyncAt("observing") /\ Answered /\ SyncGoto("republish")
  /\ UNCHANGED <<database, service, clock, source>>

\* A state that may still offer a withdrawn release is not signed anew.
SyncRepublish ==
  /\ SyncAt("republish")
  /\ IF sync.synchronized
       THEN Submit(NoRequest) /\ SyncGoto("republishing")
       ELSE SyncGoto("rest") /\ UNCHANGED <<handler, call>>
  /\ UNCHANGED <<database, clock, faults, source>>

SyncRepublished ==
  /\ SyncAt("republishing") /\ Answered /\ SyncGoto("rest")
  /\ UNCHANGED <<database, service, clock, source>>

SyncWake ==
  /\ SyncAt("rest")
  /\ sync' = [at |-> "probe", synchronized |-> TRUE]
  /\ UNCHANGED <<database, service, clock, source>>

SyncStep ==
  \/ ProbeRelease \/ ReleaseSynchronized \/ ClearRelease \/ ReleaseCleared
  \/ Playability \/ PlayabilityObserved \/ SyncRepublish \/ SyncRepublished \/ SyncWake

\* The worker process dies and is started again; its call is forgotten.
SyncRestart ==
  /\ Fault
  /\ sync' = [at |-> "probe", synchronized |-> TRUE]
  /\ call' = [call EXCEPT ![Worker] = IdleCall]
  /\ UNCHANGED <<database, handler, clock, source>>

SourceChanges ==
  /\ source' \in Sources
  /\ UNCHANGED <<database, service, clock, sync>>

SyncInit ==
  /\ source \in Sources
  /\ sync = [at |-> "probe", synchronized |-> TRUE]
=============================================================================
