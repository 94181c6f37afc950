----------------------------- MODULE Deployment -----------------------------
(***************************************************************************)
(* Deployment of a release: ops/apply-release.sh with the deploy.sh,       *)
(* migrate.ts and verify-runtime.sh it runs, for the candidate and, when   *)
(* that fails, from the EXIT trap for the release that was there before.   *)
(*                                                                         *)
(* A tree on the disk is the release its files are of and the release its  *)
(* .release-sha names.  A copy that is cut short leaves a tree of neither  *)
(* release; whether its services become healthy, and which migrations are  *)
(* in it, is open.  Any step may fail; a killed deployment runs no trap.   *)
(***************************************************************************)
EXTENDS Integers, FiniteSets

CONSTANTS
  Deployers,     \* runs of apply-release.sh
  Installed,     \* the release that runs at the start
  Brings,        \* the release each run applies: [Deployers -> release]
  Sound,         \* releases whose services become healthy
  Needs,         \* release -> number of its migration files
  MaxFailures,   \* bound on failing steps
  MaxKills       \* bound on killed runs

Releases == {Installed} \cup {Brings[d] : d \in Deployers}
NoRelease == "none"
Mixed == "mixed"     \* files of more than one release

ASSUME DeploymentAssumption ==
  /\ Sound \subseteq Releases /\ Installed \in Sound
  /\ Needs \in [Releases -> Nat]
  /\ {NoRelease, Mixed} \cap Releases = {} /\ NoRelease \notin Deployers

VARIABLES
  app,         \* ${APP_DIR}
  previous,    \* ${state}/previous
  building,    \* ${previous}.building
  holder,      \* who has flock on deploy.lock
  serving,     \* the release the containers are of
  schema,      \* migrations applied, a prefix of the files
  deployer,    \* the runs; "start" is the tree found when the lock was taken
  verified,    \* the last release, whole, that passed verify-runtime.sh
  failures, kills

disk == <<app, previous, building>>
deployVars == <<app, previous, building, holder, serving, schema, deployer, verified, failures, kills>>

Tree(r) == [files |-> r, marker |-> r]
NoTree == Tree(NoRelease)

DeployInit ==
  /\ \E r \in {Installed, NoRelease} :     \* the first deployment finds an empty directory
       /\ app = Tree(r) /\ serving = r /\ verified = r
       /\ schema = IF r = NoRelease THEN 0 ELSE Needs[r]
  /\ previous = NoTree /\ building = NoTree
  /\ holder = NoRelease
  /\ deployer = [d \in Deployers |-> [step |-> "Idle"]]
  /\ failures = 0 /\ kills = 0

AtStep(d, step) == deployer[d].step = step
Go(d, step) == deployer' = [deployer EXCEPT ![d].step = step]
Ended == {"Succeeded", "RolledBack", "Fatal", "Aborted", "Killed"}

\* the process ends and its descriptor is closed
End(d, step) == Go(d, step) /\ holder' = NoRelease

Fails == failures < MaxFailures /\ failures' = failures + 1

\* what rsync leaves when it stops on the way
CutShort(from, to) == {[files |-> Mixed, marker |-> m] : m \in {from.marker, to.marker}}

-----------------------------------------------------------------------------
\* mutant: the lock is not waited for
MayEnterAnyway(d) == AtStep(d, "Idle")

MayEnter(d) == AtStep(d, "Idle") /\ holder = NoRelease

\* flock 9; the marker is read
TakeLock(d) ==
  /\ MayEnter(d)
  /\ holder' = d
  /\ deployer' = [deployer EXCEPT ![d] = [step |-> "Locked", mode |-> "candidate", start |-> app]]
  /\ UNCHANGED <<disk, serving, schema, verified, failures, kills>>

\* rm -rf building; rsync app to building
BackUp(d) ==
  /\ AtStep(d, "Locked")
  /\ \/ building' = app /\ Go(d, "BackedUp") /\ UNCHANGED <<holder, failures>>
     \/ Fails /\ building' \in CutShort(app, NoTree) /\ End(d, "Aborted")
  /\ UNCHANGED <<app, previous, serving, schema, verified, kills>>

RemovePrevious(d) ==
  /\ AtStep(d, "BackedUp")
  /\ \/ previous' = NoTree /\ Go(d, "Removed") /\ UNCHANGED <<holder, failures>>
     \/ Fails /\ previous' \in CutShort(previous, NoTree) \cup {previous} /\ End(d, "Aborted")
  /\ UNCHANGED <<app, building, serving, schema, verified, kills>>

\* mv building previous; trap restore EXIT
MovePrevious(d) ==
  /\ AtStep(d, "Removed")
  /\ \/ /\ previous' = building /\ building' = NoTree
        /\ Go(d, "Armed")
        /\ UNCHANGED <<holder, failures>>
     \/ Fails /\ End(d, "Aborted") /\ UNCHANGED <<previous, building>>
  /\ UNCHANGED <<app, serving, schema, verified, kills>>

CopyIncoming(d) ==
  /\ AtStep(d, "Armed")
  /\ \/ app' = Tree(Brings[d]) /\ Go(d, "Copied") /\ UNCHANGED failures
     \/ Fails /\ app' \in CutShort(Tree(Brings[d]), app) /\ Go(d, "Restoring")
  /\ UNCHANGED <<previous, building, holder, serving, schema, verified, kills>>

-----------------------------------------------------------------------------
(* ops/deploy.sh, for the candidate or from the trap *)
Candidate(d) == deployer[d].mode = "candidate"

\* where a failing command of deploy.sh leads: the trap, or exit 70 inside it
FailDeploy(d) ==
  IF Candidate(d) THEN Go(d, "Restoring") /\ UNCHANGED holder ELSE End(d, "Fatal")

Sha(d) == IF Candidate(d) THEN Brings[d] ELSE deployer[d].start.marker

\* the marker test, the configuration, docker build, postgres, the runtime roles
Prepare(d) ==
  /\ AtStep(d, "Copied")
  /\ \/ /\ app.marker = Sha(d)
        /\ Go(d, "Prepared")
        /\ UNCHANGED <<holder, failures>>
     \/ app.marker # Sha(d) /\ FailDeploy(d) /\ UNCHANGED failures
     \/ Fails /\ FailDeploy(d)
  /\ UNCHANGED <<disk, serving, schema, verified, kills>>

\* how many migrations a tree may hold: a mixture, any number that a release has
MayBring(files) ==
  IF files \in Releases THEN {Needs[files]} ELSE UNION {0 .. Needs[r] : r \in Releases}

\* how far migrate.ts may take the schema
Wanted == {IF n > schema THEN n ELSE schema : n \in MayBring(app.files)}

\* migrate.ts has run to the end
StopsAt(n, wanted) == n = wanted

\* migrate.ts: the missing files in order, each in a transaction of its own
Migrate(d) ==
  /\ AtStep(d, "Prepared")
  /\ \E wanted \in Wanted : \E n \in schema .. wanted :
       /\ schema' = n
       /\ IF StopsAt(n, wanted)
            THEN Go(d, "Migrated") /\ UNCHANGED <<holder, failures>>
            ELSE Fails /\ FailDeploy(d)
  /\ UNCHANGED <<disk, serving, verified, kills>>

\* docker compose up of the built image
StartServices(d) ==
  /\ AtStep(d, "Migrated")
  /\ \/ serving' = app.files /\ Go(d, "Started") /\ UNCHANGED <<holder, failures>>
     \/ Fails /\ serving' = Mixed /\ FailDeploy(d)
  /\ UNCHANGED <<disk, schema, verified, kills>>

\* verify-runtime.sh: healthy within the deadline, stable, signed state served; it
\* looks at the services only, so that those of a mixture may pass too
Verify(d) ==
  /\ AtStep(d, "Started")
  /\ \/ /\ serving \in Sound \cup {Mixed}
        /\ verified' = IF serving = Mixed THEN verified ELSE serving
        /\ End(d, CASE Candidate(d) -> "Succeeded"
                    [] deployer[d].mode = "rollback" -> "RolledBack"
                    [] OTHER -> "Fatal")
        /\ UNCHANGED failures
     \/ serving \notin Sound /\ FailDeploy(d) /\ UNCHANGED <<verified, failures>>
     \/ Fails /\ FailDeploy(d) /\ UNCHANGED verified
  /\ UNCHANGED <<disk, serving, schema, kills>>

-----------------------------------------------------------------------------
\* restore: docker compose down; a failure is remembered and the rest still runs
StopServices(d) ==
  /\ AtStep(d, "Restoring")
  /\ \/ serving' = NoRelease /\ Go(d, "Stopped") /\ UNCHANGED failures
     \/ Fails /\ serving' = Mixed /\ Go(d, "Stopped badly")
  /\ UNCHANGED <<disk, holder, schema, verified, kills>>

Restored(d) == previous

\* rsync previous to app; if it fails, set -e ends the trap there
CopyPrevious(d) ==
  /\ AtStep(d, "Stopped") \/ AtStep(d, "Stopped badly")
  /\ \/ /\ app' = Restored(d)
        /\ IF deployer[d].start.marker = NoRelease
             THEN End(d, "Fatal")
             ELSE /\ deployer' = [deployer EXCEPT
                       ![d].mode = IF AtStep(d, "Stopped") THEN "rollback" ELSE "bad rollback",
                       ![d].step = "Copied"]
                  /\ UNCHANGED holder
        /\ UNCHANGED failures
     \/ Fails /\ app' \in CutShort(previous, app) /\ End(d, "Aborted")
  /\ UNCHANGED <<previous, building, serving, schema, verified, kills>>

\* mutant: a dead run's lock stays taken
HolderAfterKillStale(d) == holder

HolderAfterKill(d) == NoRelease

\* SIGKILL, the job's time limit, the host: no trap runs, a copy stops where it is
Kill(d) ==
  /\ kills < MaxKills
  /\ deployer[d].step \notin Ended \cup {"Idle"}
  /\ kills' = kills + 1
  /\ Go(d, "Killed")
  /\ holder' = HolderAfterKill(d)
  /\ \/ UNCHANGED <<disk, serving, schema>>
     \/ /\ AtStep(d, "Locked")
        /\ building' \in CutShort(app, NoTree)
        /\ UNCHANGED <<app, previous, serving, schema>>
     \/ /\ AtStep(d, "BackedUp")
        /\ previous' \in CutShort(previous, NoTree)
        /\ UNCHANGED <<app, building, serving, schema>>
     \/ /\ \/ AtStep(d, "Armed") /\ app' \in CutShort(Tree(Brings[d]), app)
           \/ deployer[d].step \in {"Stopped", "Stopped badly"} /\ app' \in CutShort(previous, app)
        /\ UNCHANGED <<previous, building, serving, schema>>
     \/ /\ AtStep(d, "Prepared")
        /\ \E wanted \in Wanted : schema' \in schema .. wanted
        /\ UNCHANGED <<disk, serving>>
     \/ /\ deployer[d].step \in {"Migrated", "Restoring"}
        /\ serving' = Mixed
        /\ UNCHANGED <<disk, schema>>
  /\ UNCHANGED <<verified, failures>>

DeployStep(d) ==
  \/ TakeLock(d) \/ BackUp(d) \/ RemovePrevious(d) \/ MovePrevious(d) \/ CopyIncoming(d)
  \/ Prepare(d) \/ Migrate(d) \/ StartServices(d) \/ Verify(d)
  \/ StopServices(d) \/ CopyPrevious(d)

DeployNext == \E d \in Deployers : DeployStep(d) \/ Kill(d)

\* a shell script goes on while it runs; flock wakes a waiting run
DeployFairness == \A d \in Deployers : WF_deployVars(DeployStep(d))

DeploySpec == DeployInit /\ [][DeployNext]_deployVars

-----------------------------------------------------------------------------
Becomes(d, step) == ~AtStep(d, step) /\ deployer'[d].step = step

(***************************************************************************)
(* A deployment succeeds with its own release, whole, on the disk and in   *)
(* the containers, on a schema that has every migration of it, however     *)
(* other deployments wait or were killed before.                           *)
(***************************************************************************)
SuccessServesRelease ==
  [][\A d \in Deployers : Becomes(d, "Succeeded") =>
       /\ app' = Tree(Brings[d]) /\ serving' = Brings[d]
       /\ Needs[Brings[d]] <= schema']_deployVars

(***************************************************************************)
(* A deployment that reports the prior release restored has put back the   *)
(* tree it found and serves the files of that tree.  When those were a     *)
(* release and not the mixture a killed deployment left, it is the release *)
(* the report names that is served, on a schema that has its migrations.   *)
(* Without that condition the report is not true: the marker of a tree is  *)
(* believed whatever its other files are, and a mixture may be healthy.    *)
(***************************************************************************)
RollbackServesPrior ==
  [][\A d \in Deployers : Becomes(d, "RolledBack") =>
       /\ app' = deployer[d].start /\ serving' = app'.files
       /\ serving' \in Releases =>
            serving' = deployer[d].start.marker /\ Needs[serving'] <= schema']_deployVars

(***************************************************************************)
(* What a deployment reports is so: its own release is served, or the tree *)
(* it found and with it the release named, unless that tree was a mixture. *)
(***************************************************************************)
OutcomesTruthful == SuccessServesRelease /\ RollbackServesPrior

(***************************************************************************)
(* The containers never run a release on a schema that lacks a migration   *)
(* of that release.                                                        *)
(***************************************************************************)
SchemaCoversServing == serving \in Releases => Needs[serving] <= schema

(***************************************************************************)
(* While the trap may still need it, previous/ is the whole tree that was  *)
(* found, even when an earlier run was killed at any step.                 *)
(***************************************************************************)
RollbackTargetIntact ==
  \A d \in Deployers :
    "start" \in DOMAIN deployer[d] /\ deployer[d].step \notin Ended \cup {"Locked", "BackedUp", "Removed"}
      => previous = deployer[d].start

Unharmed ==
  /\ kills = 0
  /\ \A d \in Deployers : "start" \in DOMAIN deployer[d] => deployer[d].start.files # Mixed

(***************************************************************************)
(* The last release that passed its health gate is on the disk, whole,     *)
(* however many candidates fail: previous/ is given up for a newer copy    *)
(* only.                                                                   *)
(***************************************************************************)
VerifiedOnDisk == Tree(verified) \in {app, previous}

VerifiedReleaseKept == verified # NoRelease /\ Unharmed => VerifiedOnDisk

(***************************************************************************)
(* A deployment that found it in app/ loses it at no step, whatever fails  *)
(* and wherever it is killed.  Only one that found another tree there, as  *)
(* a killed deployment or a restoring copy that was cut short left it,     *)
(* puts that in its place.                                                 *)
(***************************************************************************)
FoundAnother(d) == holder = d /\ deployer[d].start # Tree(verified)

VerifiedOutlivesFaults ==
  [][verified # NoRelease /\ VerifiedOnDisk /\ ~VerifiedOnDisk' =>
       \E d \in Deployers : FoundAnother(d)]_deployVars

(***************************************************************************)
(* At every step, failed and killed deployments included, there is a tree  *)
(* to go back to and a schema that carries what runs.                      *)
(***************************************************************************)
TreesAndSchemaSound ==
  /\ [](SchemaCoversServing /\ RollbackTargetIntact /\ VerifiedReleaseKept)
  /\ VerifiedOutlivesFaults

(***************************************************************************)
(* Every deployment that was started ends, also behind one that was        *)
(* killed with the lock taken.                                             *)
(***************************************************************************)
DeploymentsEnd == \A d \in Deployers : <>(deployer[d].step \in Ended)
=============================================================================
