---------------------------- MODULE ControlState ----------------------------
(***************************************************************************)
(* The control state: what administrators and the worker command, what a   *)
(* command makes of the state, and what of the state is published.         *)
(* Code and feature names, times, texts and installer assets are only told *)
(* apart; entries of a list are a set, since nothing depends on the order. *)
(***************************************************************************)
EXTENDS Naturals, FiniteSets

CONSTANTS
  Keys,          \* redemption codes, features and schedules that are commanded
  Assets,        \* the tag, size, digest and source commit of an installer
  Versions,      \* release versions, in their order
  MaxIds,        \* bound on command identifiers
  MaxCodes,      \* active codes a snapshot has room for (100)
  Lifetime,      \* ticks a snapshot is valid (10 minutes, in ticks of 3)
  Never,         \* the expiry of what does not expire
  None           \* null

ASSUME ControlStateAssumption ==
  /\ Versions \subseteq Nat \ {0}
  /\ MaxIds \in Nat /\ MaxCodes \in Nat
  /\ Lifetime \in Nat \ {0}
  /\ Never \notin Nat
  /\ None \notin [version : Versions, assets : Assets, verified : 1 .. MaxIds]

Expiry == Nat \cup {Never}
Entries == [key : Keys, until : Expiry]

\* What the worker found published; "verified" is the moment it did (every
\* observation has its own).
ReleaseEvidence == [version : Versions, assets : Assets, verified : 1 .. MaxIds]

SystemCommands == {"game.observation", "release.set", "release.clear"}
AdminCommands == {"code.add", "code.remove", "feature.disable", "feature.enable",
                  "schedule.set", "game.availability"}

Command == [type : SystemCommands \cup AdminCommands,
            key : Keys \cup {None},
            until : Expiry,
            on : BOOLEAN,                       \* available, public
            evidence : ReleaseEvidence \cup {None}]

KeyedCommands == {"code.add", "code.remove", "feature.disable", "feature.enable", "schedule.set"}

\* A command has the fields its type requires.
Complete(command) ==
  /\ command.type \in KeyedCommands => command.key # None
  /\ command.type = "release.set" => command.evidence # None

Blank == [type |-> "release.clear", key |-> None, until |-> Never, on |-> TRUE, evidence |-> None]

State == [revision : Nat,
          operator : BOOLEAN,
          observed : {"unknown", "public", "private"},
          codes : SUBSET Entries,
          disablements : SUBSET Entries,
          schedules : SUBSET Entries,
          release : Versions \cup {0},          \* 0: none is offered
          evidence : ReleaseEvidence \cup {None},
          floor : Versions \cup {0}]

InitialState == [revision |-> 0, operator |-> TRUE, observed |-> "unknown",
                 codes |-> {}, disablements |-> {}, schedules |-> {},
                 release |-> 0, evidence |-> None, floor |-> 0]

(***************************************************************************)
(* applyAdminCommand                                                       *)
(***************************************************************************)
Without(entries, key) == {e \in entries : e.key # key}
With(entries, key, until) == Without(entries, key) \cup {[key |-> key, until |-> until]}

\* releaseFloorVersion ?? releaseEvidence?.version ?? release?.version
Floor(state) ==
  IF state.floor # 0 THEN state.floor
  ELSE IF state.evidence # None THEN state.evidence.version
  ELSE state.release

ReleaseProgressesFromOffer(state, evidence) ==        \* mutant: the floor is what is on offer
  /\ state.release <= evidence.version
  /\ state.evidence # None /\ state.evidence.version = evidence.version
       => state.evidence.assets = evidence.assets

ReleaseProgressesByVersion(state, evidence) ==        \* mutant: assets are not compared
  Floor(state) <= evidence.version

\* assertReleaseProgression
ReleaseProgresses(state, evidence) ==
  /\ Floor(state) <= evidence.version
  /\ state.evidence # None /\ state.evidence.version = evidence.version
       => state.evidence.assets = evidence.assets

Applicable(state, command) ==
  command.type = "release.set" => ReleaseProgresses(state, command.evidence)

Apply(state, command) ==
  CASE command.type = "code.add" ->
         [state EXCEPT !.codes = With(@, command.key, command.until)]
    [] command.type = "code.remove" ->
         [state EXCEPT !.codes = Without(@, command.key)]
    [] command.type = "feature.disable" ->
         [state EXCEPT !.disablements = With(@, command.key, command.until)]
    [] command.type = "feature.enable" ->
         [state EXCEPT !.disablements = Without(@, command.key)]
    [] command.type = "schedule.set" ->
         [state EXCEPT !.schedules = With(@, command.key, command.until)]
    [] command.type = "game.availability" ->
         [state EXCEPT !.operator = command.on]
    [] command.type = "game.observation" ->
         [state EXCEPT !.observed = IF command.on THEN "public" ELSE "private"]
    [] command.type = "release.set" ->
         [state EXCEPT !.release = command.evidence.version,
                       !.evidence = command.evidence,
                       !.floor = command.evidence.version]
    [] command.type = "release.clear" ->
         [state EXCEPT !.release = 0, !.floor = Floor(state)]

(***************************************************************************)
(* publishPayload, and the snapshot schema's room for codes                *)
(***************************************************************************)
Active(entries, now) == {e \in entries : e.until = Never \/ e.until > now}

SignableAlways(state, now) == TRUE                    \* mutant: no limit on codes

Signable(state, now) == Cardinality(Active(state.codes, now)) <= MaxCodes

Payload(state, now) ==
  [revision |-> state.revision,
   available |-> state.operator /\ state.observed # "private",
   operator |-> state.operator,
   observed |-> state.observed,
   schedules |-> state.schedules,
   release |-> state.release,
   codes |-> Active(state.codes, now),
   disablements |-> Active(state.disablements, now),
   generated |-> now,
   expires |-> now + Lifetime]

Snapshots == [revision : Nat, available : BOOLEAN, operator : BOOLEAN,
              observed : {"unknown", "public", "private"},
              schedules : SUBSET Entries, release : Versions \cup {0},
              codes : SUBSET Entries, disablements : SUBSET Entries,
              generated : Nat, expires : Nat]

\* validateSnapshotFreshness, for a snapshot this service signed
Fresh(payload, now, minimum) == payload.revision >= minimum /\ payload.expires > now
=============================================================================
