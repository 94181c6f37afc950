-------------------------- MODULE OperationsProofs --------------------------
(***************************************************************************)
(* The commands an operator runs, for any number of runs, failures and     *)
(* kills: deployment (TreesAndSchemaSound, OutcomesTruthful), provisioning *)
(* of the edge (EdgeSound) and of the storage keys (StorageKeysSound); and *)
(* the heartbeat of the services they start (NewestAnswerStands).          *)
(***************************************************************************)
EXTENDS Deployment, EdgeProvisioning, StorageKeys, Heartbeat, FiniteSetTheorems, TLAPS

(***************************************************************************)
(* Deployment                                                              *)
(***************************************************************************)
Marks == Releases \cup {NoRelease}

\* A tree is whole, or a copy was cut short in it.
Trees == {Tree(r) : r \in Marks} \cup [files : {Mixed}, marker : Marks]

Early == {"Locked", "BackedUp", "Removed"}
Deploying == {"Copied", "Prepared", "Migrated", "Started"}
Trapped == {"Restoring", "Stopped", "Stopped badly"}

Phases == Early \cup {"Armed"} \cup Deploying \cup Trapped

DeployerState ==
  [step : {"Idle"}] \cup
  [step : Phases \cup Ended, mode : {"candidate", "rollback", "bad rollback"}, start : Trees]

DeployType ==
  /\ {app, previous, building} \subseteq Trees
  /\ holder \in Deployers \cup {NoRelease}
  /\ serving \in Marks \cup {Mixed}
  /\ schema \in Nat /\ kills \in Nat
  /\ deployer \in [Deployers -> DeployerState]
  /\ verified \in Sound \cup {NoRelease}

Underway(d) == deployer[d].step \in Phases

\* The lock is with the run that is under way.
AloneInv ==
  /\ \A d \in Deployers : Underway(d) => holder = d
  /\ holder \in Deployers => Underway(holder)

\* Where the tree that the run found is, and what it has put in its place.
TreesInv(d) ==
  /\ deployer[d].step \in Early \cup {"Armed"} => Candidate(d)
  /\ deployer[d].step \in Early => app = deployer[d].start
  /\ deployer[d].step \in {"BackedUp", "Removed"} => building = deployer[d].start
  /\ deployer[d].step \in Phases \ Early => previous = deployer[d].start
  /\ deployer[d].step \in Deploying =>
       app = IF Candidate(d) THEN Tree(Brings[d]) ELSE deployer[d].start

\* What is being deployed has its migrations, and then its containers.
ServicesInv(d) ==
  /\ deployer[d].step \in {"Migrated", "Started"} /\ app.files \in Releases
       => Needs[app.files] <= schema
  /\ AtStep(d, "Started") => serving = app.files

\* The verified release is what the run that is under way has found.  Nobody
\* leaves app/ without it, but for a restoring copy that is cut short.
VerifiedInv ==
  verified # NoRelease /\ Unharmed =>
    /\ \A d \in Deployers : Underway(d) => deployer[d].start = Tree(verified)
    /\ holder = NoRelease =>
         app = Tree(verified) \/ (previous = Tree(verified) /\ app.files = Mixed)

DeployInv ==
  /\ DeployType /\ AloneInv /\ SchemaCoversServing /\ VerifiedInv
  /\ \A d \in Deployers : TreesInv(d) /\ ServicesInv(d)

-----------------------------------------------------------------------------
\* A tree that is not mixed is one release.
LEMMA WholeTrees ==
  /\ \A t \in Trees : t.files \in Marks \cup {Mixed} /\ t.marker \in Marks
  /\ \A t \in Trees : t.files # Mixed => t = Tree(t.files)
  /\ \A r \in Marks : Tree(r) \in Trees /\ Tree(r).files = r
  /\ NoTree \in Trees
<1>1. \A r \in Marks : Tree(r).files = r /\ Tree(r).marker = r /\ Tree(r) \in Trees
  BY DEF Tree, Trees
<1>2. \A t \in [files : {Mixed}, marker : Marks] : t.files = Mixed /\ t.marker \in Marks
  OBVIOUS
<1>3. \A t \in Trees : t.files \in Marks \cup {Mixed} /\ t.marker \in Marks
  BY <1>1, <1>2 DEF Trees
<1>4. \A t \in Trees : t.files # Mixed => t = Tree(t.files)
  BY <1>1, <1>2 DEF Trees
<1>5. NoTree \in Trees
  BY <1>1 DEF NoTree, Marks
<1>6. QED
  BY <1>1, <1>3, <1>4, <1>5

\* A copy that is cut short leaves a mixed tree.
LEMMA CutShortTrees ==
  ASSUME NEW from \in Trees, NEW to \in Trees, NEW t \in CutShort(from, to)
  PROVE  t \in Trees /\ t.files = Mixed
BY WholeTrees DEF CutShort, Trees

\* Every step of a run goes to a step of it.
LEMMA Going ==
  ASSUME DeployType, NEW d \in Deployers, Underway(d),
         NEW step \in Phases \cup Ended, Go(d, step)
  PROVE  \E next \in DeployerState :
           /\ deployer' = [deployer EXCEPT ![d] = next]
           /\ next.step = step /\ next.start = deployer[d].start /\ next.mode = deployer[d].mode
<1>1. deployer[d] \in [step : Phases \cup Ended, mode : {"candidate", "rollback", "bad rollback"},
                       start : Trees]
  BY DEF DeployType, DeployerState, Underway, Phases, Early, Deploying, Trapped
<1> DEFINE next == [deployer[d] EXCEPT !.step = step]
<1>2. /\ next \in DeployerState /\ next.step = step
      /\ next.start = deployer[d].start /\ next.mode = deployer[d].mode
  BY <1>1 DEF DeployerState
<1>3. deployer' = [deployer EXCEPT ![d] = next]
  BY DEF Go
<1>4. QED
  BY <1>2, <1>3

\* The runs that are not under way ask for nothing.
LEMMA OthersRest ==
  ASSUME DeployInv, NEW d \in Deployers, Underway(d), NEW next,
         deployer' = [deployer EXCEPT ![d] = next]
  PROVE  /\ deployer'[d] = next
         /\ \A e \in Deployers \ {d} :
              deployer'[e] = deployer[e] /\ ~Underway(e)' /\ TreesInv(e)' /\ ServicesInv(e)'
<1>1. /\ deployer'[d] = next
      /\ \A e \in Deployers \ {d} : deployer'[e] = deployer[e] /\ ~Underway(e)
  BY DEF DeployInv, DeployType, AloneInv
<1>2. ASSUME NEW e \in Deployers \ {d}
      PROVE  ~Underway(e)' /\ TreesInv(e)' /\ ServicesInv(e)'
    BY <1>1, <1>2 DEF Underway, TreesInv, ServicesInv, AtStep, Candidate, Phases, Early, Deploying, Trapped
<1>3. QED
  BY <1>1, <1>2

\* What a step of a run has to show.
LEMMA RunKeeps ==
  ASSUME DeployInv, NEW d \in Deployers, Underway(d), NEW next \in DeployerState,
         deployer' = [deployer EXCEPT ![d] = next], next.step # "Idle",
         {app', previous', building'} \subseteq Trees,
         serving' \in Marks \cup {Mixed}, schema' \in Nat, kills' \in Nat,
         verified' \in Sound \cup {NoRelease},
         holder' = IF next.step \in Phases THEN holder ELSE NoRelease,
         TreesInv(d)', ServicesInv(d)', SchemaCoversServing', VerifiedInv'
  PROVE  DeployInv'
<1>1. holder = d /\ d # NoRelease
  BY DeploymentAssumption DEF DeployInv, AloneInv
<1>2. /\ deployer'[d] = next
      /\ \A e \in Deployers \ {d} : ~Underway(e)' /\ TreesInv(e)' /\ ServicesInv(e)'
  BY OthersRest
<1>3. DeployType'
  BY <1>1 DEF DeployInv, DeployType
<1>4. AloneInv'
  BY <1>1, <1>2, DeploymentAssumption DEF AloneInv, Underway
<1>5. QED
  BY <1>2, <1>3, <1>4 DEF DeployInv

\* As long as nothing new is verified, the verified release stays where it is
\* while a run is under way, and the run must leave it when it ends.
LEMMA VerifiedStays ==
  ASSUME DeployInv, NEW d \in Deployers, Underway(d), NEW next \in DeployerState,
         deployer' = [deployer EXCEPT ![d] = next], next.step # "Idle",
         next.start = deployer[d].start,
         verified' = verified, kills' \in {kills, kills + 1},
         next.step \in Phases => holder' = holder,
         next.step \notin Phases /\ kills' = 0
           => app' = deployer[d].start \/ (previous' = deployer[d].start /\ app'.files = Mixed)
  PROVE  VerifiedInv'
<1> SUFFICES ASSUME verified # NoRelease, Unharmed'
             PROVE  /\ \A e \in Deployers : Underway(e)' => deployer'[e].start = Tree(verified)
                    /\ holder' = NoRelease =>
                         app' = Tree(verified) \/ (previous' = Tree(verified) /\ app'.files = Mixed)
  BY DEF VerifiedInv
<1>1. holder = d /\ d # NoRelease /\ kills \in Nat
  BY DeploymentAssumption DEF DeployInv, DeployType, AloneInv
<1>2. /\ deployer'[d] = next
      /\ \A e \in Deployers \ {d} : deployer'[e] = deployer[e] /\ ~Underway(e)'
  BY OthersRest
<1>3. kills' = 0 /\ kills = 0
  BY <1>1 DEF Unharmed
<1>4. ASSUME NEW e \in Deployers, "start" \in DOMAIN deployer[e]
      PROVE  deployer[e].start.files # Mixed
  <2>1. "start" \in DOMAIN next
    BY DEF DeployerState
  <2>2. "start" \in DOMAIN deployer'[e] /\ deployer'[e].start = deployer[e].start
    BY <1>2, <1>4, <2>1
  <2>3. QED
    BY <2>2 DEF Unharmed
<1>5. deployer[d].start = Tree(verified)
  BY <1>3, <1>4 DEF Unharmed, VerifiedInv, DeployInv
<1>6. QED
  BY <1>1, <1>2, <1>3, <1>5

-----------------------------------------------------------------------------
\* What is known of a run that is under way.
LEMMA RunOf ==
  ASSUME DeployInv, NEW d \in Deployers, Underway(d)
  PROVE  /\ DeployType /\ holder = d /\ d # NoRelease
         /\ TreesInv(d) /\ ServicesInv(d) /\ SchemaCoversServing /\ VerifiedInv
         /\ deployer[d] \in [step : Phases \cup Ended,
                             mode : {"candidate", "rollback", "bad rollback"}, start : Trees]
<1>1. holder = d /\ d # NoRelease
  BY DeploymentAssumption DEF DeployInv, AloneInv
<1>2. deployer[d] \in [step : Phases \cup Ended,
                       mode : {"candidate", "rollback", "bad rollback"}, start : Trees]
  BY DEF DeployInv, DeployType, DeployerState, Underway, Phases, Early, Deploying, Trapped
<1>3. QED
  BY <1>1, <1>2 DEF DeployInv

\* A run that ends asks for nothing any more, and lets go of the lock.
LEMMA Ending ==
  ASSUME DeployInv, NEW d \in Deployers, Underway(d), NEW step \in Ended, End(d, step)
  PROVE  /\ holder' = NoRelease
         /\ TreesInv(d)' /\ ServicesInv(d)'
         /\ \E next \in DeployerState :
              /\ deployer' = [deployer EXCEPT ![d] = next]
              /\ next.step = step /\ next.step \notin Phases /\ next.step # "Idle"
              /\ next.start = deployer[d].start
<1>1. step \notin Phases /\ step # "Idle"
  BY DEF Ended, Phases, Early, Deploying, Trapped
<1>2. holder' = NoRelease /\ Go(d, step)
  BY DEF End
<1>3. PICK next \in DeployerState :
        /\ deployer' = [deployer EXCEPT ![d] = next]
        /\ next.step = step /\ next.start = deployer[d].start /\ next.mode = deployer[d].mode
  BY <1>2, RunOf, Going
<1>4. deployer'[d].step = step
  BY <1>3, OthersRest
<1>5. TreesInv(d)' /\ ServicesInv(d)'
  BY <1>1, <1>4 DEF TreesInv, ServicesInv, AtStep, Candidate, Phases, Early, Deploying, Trapped
<1>6. QED
  BY <1>1, <1>2, <1>3, <1>5

\* flock: nobody else is under way.
LEMMA TakeLockKeeps ==
  ASSUME DeployInv, NEW d \in Deployers, TakeLock(d)
  PROVE  DeployInv'
<1> DEFINE next == [step |-> "Locked", mode |-> "candidate", start |-> app]
<1>1. /\ deployer[d].step = "Idle" /\ holder = NoRelease /\ holder' = d
      /\ deployer' = [deployer EXCEPT ![d] = next]
      /\ UNCHANGED <<app, previous, building, serving, schema, verified, kills>>
  BY DEF TakeLock, MayEnter, AtStep, disk
<1>2. next \in DeployerState
  BY DEF DeployInv, DeployType, DeployerState, Phases, Early
<1>3. /\ deployer'[d] = next
      /\ \A e \in Deployers \ {d} : deployer'[e] = deployer[e] /\ ~Underway(e)
  BY <1>1, DeploymentAssumption DEF DeployInv, DeployType, AloneInv
<1>4. DeployType'
  BY <1>1, <1>2 DEF DeployInv, DeployType
<1>5. AloneInv'
  BY <1>1, <1>3 DEF AloneInv, Underway, Phases, Early
<1>6. ASSUME NEW e \in Deployers PROVE TreesInv(e)' /\ ServicesInv(e)'
  <2>1. CASE e = d
    <3>1. /\ deployer'[e].step = "Locked" /\ deployer'[e].start = app'
          /\ deployer'[e].mode = "candidate"
      BY <1>1, <1>3, <2>1
    <3>2. TreesInv(e)'
      BY <3>1 DEF TreesInv, Candidate, Early, Deploying, Phases
    <3>3. ServicesInv(e)'
      BY <3>1 DEF ServicesInv, AtStep
    <3>4. QED
      BY <3>2, <3>3
  <2>2. CASE e # d
    <3>1. deployer'[e].step \notin Phases
      BY <1>3, <2>2 DEF Underway
    <3>2. QED
      BY <3>1 DEF TreesInv, ServicesInv, AtStep, Candidate, Phases, Early, Deploying, Trapped
  <2>3. QED
    BY <2>1, <2>2
<1>7. SchemaCoversServing'
  BY <1>1 DEF DeployInv, SchemaCoversServing
<1>8. VerifiedInv'
  <2> SUFFICES ASSUME verified # NoRelease, Unharmed'
               PROVE  /\ \A e \in Deployers : Underway(e)' => deployer'[e].start = Tree(verified)
                      /\ holder' # NoRelease
    BY <1>1 DEF VerifiedInv
  <2>1. app.files # Mixed
    BY <1>3 DEF Unharmed
  <2>2. Unharmed
    <3>1. ASSUME NEW e \in Deployers, "start" \in DOMAIN deployer[e]
          PROVE  deployer[e].start.files # Mixed
      <4>1. e # d
        BY <1>1, <3>1 DEF DeployInv, DeployType, DeployerState, Phases, Early, Deploying, Trapped, Ended
      <4>2. QED
        BY <1>3, <3>1, <4>1 DEF Unharmed
    <3>2. QED
      BY <1>1, <3>1 DEF Unharmed
  <2>3. app = Tree(verified)
    BY <1>1, <2>1, <2>2 DEF DeployInv, VerifiedInv
  <2>4. QED
    BY <1>1, <1>3, <2>3, DeploymentAssumption DEF Underway
<1>9. QED
  BY <1>4, <1>5, <1>6, <1>7, <1>8 DEF DeployInv

\* The copy of app/ and the moves that make it previous/.
LEMMA BackUpKeeps ==
  ASSUME DeployInv, NEW d \in Deployers, BackUp(d)
  PROVE  DeployInv'
<1>1. AtStep(d, "Locked") /\ Underway(d)
  BY DEF BackUp, AtStep, Underway, Phases, Early
<1>2. UNCHANGED <<app, previous, serving, schema, verified, kills>>
  BY DEF BackUp
<1>3. CASE building' = app /\ Go(d, "BackedUp") /\ UNCHANGED <<holder, failures>>
  <2>1. PICK next \in DeployerState :
          /\ deployer' = [deployer EXCEPT ![d] = next]
          /\ next.step = "BackedUp" /\ next.start = deployer[d].start /\ next.mode = deployer[d].mode
    BY <1>1, <1>3, RunOf, Going DEF Phases, Early
  <2>2. deployer'[d] = next
    BY <1>1, <2>1, OthersRest
  <2>3. next.step \in Phases
    BY <2>1 DEF Phases, Early
  <2>4. TreesInv(d)' /\ ServicesInv(d)'
    BY <1>1, <1>2, <1>3, <2>1, <2>2, RunOf
       DEF TreesInv, ServicesInv, AtStep, Candidate, Phases, Early, Deploying, Trapped
  <2>5. VerifiedInv' /\ SchemaCoversServing'
    BY <1>1, <1>2, <1>3, <2>1, <2>3, RunOf, VerifiedStays DEF SchemaCoversServing
  <2>6. QED
    BY <1>1, <1>2, <1>3, <2>1, <2>3, <2>4, <2>5, RunOf, RunKeeps DEF DeployType
<1>4. CASE building' \in CutShort(app, NoTree) /\ End(d, "Aborted")
  <2>1. End(d, "Aborted") /\ "Aborted" \in Ended
    BY <1>4 DEF Ended
  <2>2. PICK next \in DeployerState :
          /\ deployer' = [deployer EXCEPT ![d] = next]
          /\ next.step \notin Phases /\ next.step # "Idle" /\ next.start = deployer[d].start
    BY <1>1, <2>1, Ending
  <2>3. holder' = NoRelease /\ TreesInv(d)' /\ ServicesInv(d)'
    BY <1>1, <2>1, Ending
  <2>4. app = deployer[d].start
    BY <1>1, RunOf DEF TreesInv, AtStep, Early
  <2>5. VerifiedInv' /\ SchemaCoversServing'
    BY <1>1, <1>2, <2>2, <2>4, RunOf, VerifiedStays DEF SchemaCoversServing
  <2>6. building' \in Trees
    BY <1>1, <1>4, RunOf, CutShortTrees, WholeTrees DEF DeployType
  <2>7. QED
    BY <1>1, <1>2, <2>2, <2>3, <2>5, <2>6, RunOf, RunKeeps DEF DeployType
<1>5. QED
  BY <1>3, <1>4 DEF BackUp

\* rm -rf previous: the whole tree is in building.
LEMMA RemovePreviousKeeps ==
  ASSUME DeployInv, NEW d \in Deployers, RemovePrevious(d)
  PROVE  DeployInv'
<1>1. AtStep(d, "BackedUp") /\ Underway(d)
  BY DEF RemovePrevious, AtStep, Underway, Phases, Early
<1>2. UNCHANGED <<app, building, serving, schema, verified, kills>>
  BY DEF RemovePrevious
<1>3. CASE previous' = NoTree /\ Go(d, "Removed") /\ UNCHANGED <<holder, failures>>
  <2>1. "Removed" \in Phases
    BY DEF Phases, Early
  <2>2. PICK next \in DeployerState :
          /\ deployer' = [deployer EXCEPT ![d] = next]
          /\ next.step = "Removed" /\ next.start = deployer[d].start /\ next.mode = deployer[d].mode
    BY <1>1, <1>3, <2>1, RunOf, Going
  <2>3. deployer'[d] = next
    BY <1>1, <2>2, OthersRest
  <2>4. TreesInv(d)' /\ ServicesInv(d)'
    BY <1>1, <1>2, <2>2, <2>3, RunOf
       DEF TreesInv, ServicesInv, AtStep, Candidate, Phases, Early, Deploying, Trapped
  <2>5. VerifiedInv' /\ SchemaCoversServing'
    BY <1>1, <1>2, <1>3, <2>1, <2>2, RunOf, VerifiedStays DEF SchemaCoversServing
  <2>6. QED
    BY <1>1, <1>2, <1>3, <2>1, <2>2, <2>4, <2>5, RunOf, RunKeeps, WholeTrees DEF DeployType
<1>4. CASE previous' \in CutShort(previous, NoTree) \cup {previous} /\ End(d, "Aborted")
  <2>1. End(d, "Aborted") /\ "Aborted" \in Ended
    BY <1>4 DEF Ended
  <2>2. PICK next \in DeployerState :
          /\ deployer' = [deployer EXCEPT ![d] = next]
          /\ next.step \notin Phases /\ next.step # "Idle" /\ next.start = deployer[d].start
    BY <1>1, <2>1, Ending
  <2>3. holder' = NoRelease /\ TreesInv(d)' /\ ServicesInv(d)'
    BY <1>1, <2>1, Ending
  <2>4. app = deployer[d].start
    BY <1>1, RunOf DEF TreesInv, AtStep, Early
  <2>5. VerifiedInv' /\ SchemaCoversServing'
    BY <1>1, <1>2, <2>2, <2>4, RunOf, VerifiedStays DEF SchemaCoversServing
  <2>6. previous' \in Trees
    BY <1>1, <1>4, RunOf, CutShortTrees, WholeTrees DEF DeployType
  <2>7. QED
    BY <1>1, <1>2, <2>2, <2>3, <2>5, <2>6, RunOf, RunKeeps DEF DeployType
<1>5. QED
  BY <1>3, <1>4 DEF RemovePrevious

\* mv building previous.
LEMMA MovePreviousKeeps ==
  ASSUME DeployInv, NEW d \in Deployers, MovePrevious(d)
  PROVE  DeployInv'
<1>1. AtStep(d, "Removed") /\ Underway(d)
  BY DEF MovePrevious, AtStep, Underway, Phases, Early
<1>2. UNCHANGED <<app, serving, schema, verified, kills>>
  BY DEF MovePrevious
<1>3. CASE previous' = building /\ building' = NoTree /\ Go(d, "Armed") /\ UNCHANGED <<holder, failures>>
  <2>1. "Armed" \in Phases
    BY DEF Phases
  <2>2. PICK next \in DeployerState :
          /\ deployer' = [deployer EXCEPT ![d] = next]
          /\ next.step = "Armed" /\ next.start = deployer[d].start /\ next.mode = deployer[d].mode
    BY <1>1, <1>3, <2>1, RunOf, Going
  <2>3. deployer'[d] = next
    BY <1>1, <2>2, OthersRest
  <2>4. TreesInv(d)' /\ ServicesInv(d)'
    BY <1>1, <1>2, <1>3, <2>2, <2>3, RunOf
       DEF TreesInv, ServicesInv, AtStep, Candidate, Phases, Early, Deploying, Trapped
  <2>5. VerifiedInv' /\ SchemaCoversServing'
    BY <1>1, <1>2, <1>3, <2>1, <2>2, RunOf, VerifiedStays DEF SchemaCoversServing
  <2>6. QED
    BY <1>1, <1>2, <1>3, <2>1, <2>2, <2>4, <2>5, RunOf, RunKeeps, WholeTrees DEF DeployType
<1>4. CASE End(d, "Aborted") /\ UNCHANGED <<previous, building>>
  <2>1. End(d, "Aborted") /\ "Aborted" \in Ended
    BY <1>4 DEF Ended
  <2>2. PICK next \in DeployerState :
          /\ deployer' = [deployer EXCEPT ![d] = next]
          /\ next.step \notin Phases /\ next.step # "Idle" /\ next.start = deployer[d].start
    BY <1>1, <2>1, Ending
  <2>3. holder' = NoRelease /\ TreesInv(d)' /\ ServicesInv(d)'
    BY <1>1, <2>1, Ending
  <2>4. app = deployer[d].start
    BY <1>1, RunOf DEF TreesInv, AtStep, Early
  <2>5. VerifiedInv' /\ SchemaCoversServing'
    BY <1>1, <1>2, <2>2, <2>4, RunOf, VerifiedStays DEF SchemaCoversServing
  <2>6. {previous', building'} \subseteq Trees /\ previous' \in Trees
    BY <1>1, <1>4, RunOf, CutShortTrees, WholeTrees DEF DeployType
  <2>7. QED
    BY <1>1, <1>2, <2>2, <2>3, <2>5, <2>6, RunOf, RunKeeps DEF DeployType
<1>5. QED
  BY <1>3, <1>4 DEF MovePrevious

\* The copy of the incoming release to app/, whole or cut short.
LEMMA CopyIncomingKeeps ==
  ASSUME DeployInv, NEW d \in Deployers, CopyIncoming(d)
  PROVE  DeployInv'
<1>1. AtStep(d, "Armed") /\ Underway(d)
  BY DEF CopyIncoming, AtStep, Underway, Phases
<1>2. UNCHANGED <<previous, building, holder, serving, schema, verified, kills>>
  BY DEF CopyIncoming
<1>3. Tree(Brings[d]) \in Trees
  BY WholeTrees DEF Marks, Releases
<1>4. PICK step \in {"Copied", "Restoring"} :
        /\ Go(d, step) /\ app' \in Trees
        /\ step = "Copied" => app' = Tree(Brings[d])
  BY <1>1, <1>3, RunOf, CutShortTrees DEF CopyIncoming, DeployType
<1>5. step \in Phases /\ step \notin Early
  BY DEF Phases, Early, Deploying, Trapped
<1>6. PICK next \in DeployerState :
        /\ deployer' = [deployer EXCEPT ![d] = next]
        /\ next.step = step /\ next.start = deployer[d].start /\ next.mode = deployer[d].mode
  BY <1>1, <1>4, <1>5, RunOf, Going
<1>7. deployer'[d] = next
  BY <1>1, <1>6, OthersRest
<1>8. TreesInv(d)' /\ ServicesInv(d)'
  BY <1>1, <1>2, <1>4, <1>5, <1>6, <1>7, RunOf
     DEF TreesInv, ServicesInv, AtStep, Candidate, Phases, Early, Deploying, Trapped
<1>9. VerifiedInv' /\ SchemaCoversServing' /\ next.step # "Idle"
  BY <1>1, <1>2, <1>5, <1>6, RunOf, VerifiedStays DEF SchemaCoversServing
<1>10. QED
  BY <1>1, <1>2, <1>4, <1>5, <1>6, <1>8, <1>9, RunOf, RunKeeps DEF DeployType

\* A failing command of deploy.sh: the candidate's run goes to the trap, and
\* the trap's own run ends, with the tree that was found in app/.
LEMMA FailDeployKeeps ==
  ASSUME DeployInv, NEW d \in Deployers, deployer[d].step \in Deploying, FailDeploy(d),
         UNCHANGED <<app, previous, building, verified, kills>>,
         serving' \in Marks \cup {Mixed}, schema' \in Nat, SchemaCoversServing'
  PROVE  DeployInv'
<1>1. Underway(d) /\ deployer[d].step \in Phases \ Early
  BY DEF Underway, Phases, Early, Deploying
<1>2. CASE Go(d, "Restoring") /\ UNCHANGED holder
  <2>1. "Restoring" \in Phases /\ "Restoring" # "Idle"
    BY DEF Phases, Trapped
  <2>2. PICK next \in DeployerState :
          /\ deployer' = [deployer EXCEPT ![d] = next]
          /\ next.step = "Restoring" /\ next.start = deployer[d].start /\ next.mode = deployer[d].mode
    BY <1>1, <1>2, <2>1, RunOf, Going
  <2>3. deployer'[d] = next
    BY <1>1, <2>2, OthersRest
  <2>4. TreesInv(d)' /\ ServicesInv(d)'
    BY <1>1, <2>2, <2>3, RunOf
       DEF TreesInv, ServicesInv, AtStep, Candidate, Early, Deploying
  <2>5. VerifiedInv'
    BY <1>1, <1>2, <2>1, <2>2, RunOf, VerifiedStays
  <2>6. QED
    BY <1>1, <1>2, <2>1, <2>2, <2>4, <2>5, RunOf, RunKeeps DEF DeployType
<1>3. CASE ~Candidate(d) /\ End(d, "Fatal")
  <2>1. "Fatal" \in Ended
    BY DEF Ended
  <2>2. PICK next \in DeployerState :
          /\ deployer' = [deployer EXCEPT ![d] = next]
          /\ next.step \notin Phases /\ next.step # "Idle" /\ next.start = deployer[d].start
    BY <1>1, <1>3, <2>1, Ending
  <2>3. holder' = NoRelease /\ TreesInv(d)' /\ ServicesInv(d)'
    BY <1>1, <1>3, <2>1, Ending
  <2>4. app = deployer[d].start
    BY <1>1, <1>3, RunOf DEF TreesInv
  <2>5. VerifiedInv'
    BY <1>1, <2>2, <2>4, VerifiedStays
  <2>6. QED
    BY <1>1, <2>2, <2>3, <2>5, RunOf, RunKeeps DEF DeployType
<1>4. QED
  BY <1>2, <1>3 DEF FailDeploy

\* A step of deploy.sh that succeeds leads to the next, with what it did.
LEMMA DeployGoesOn ==
  ASSUME DeployInv, NEW d \in Deployers, deployer[d].step \in Deploying,
         NEW step \in Deploying, Go(d, step),
         UNCHANGED <<app, previous, building, holder, verified, kills>>,
         serving' \in Marks \cup {Mixed}, schema' \in Nat, SchemaCoversServing',
         step \in {"Migrated", "Started"} /\ app.files \in Releases => Needs[app.files] <= schema',
         step = "Started" => serving' = app.files
  PROVE  DeployInv'
<1>1. Underway(d) /\ step \in Phases \ Early /\ step # "Armed" /\ step # "Idle"
  BY DEF Underway, Phases, Early, Deploying
<1>2. PICK next \in DeployerState :
        /\ deployer' = [deployer EXCEPT ![d] = next]
        /\ next.step = step /\ next.start = deployer[d].start /\ next.mode = deployer[d].mode
  <2>1. DeployType /\ step \in Phases \cup Ended
    BY <1>1, RunOf
  <2>2. QED
    BY <1>1, <2>1, Going
<1>3. deployer'[d] = next
  BY <1>1, <1>2, OthersRest
<1>4. deployer[d].step \in Phases \ Early
  BY DEF Phases, Early, Deploying
<1>5. TreesInv(d)'
  BY <1>1, <1>2, <1>3, <1>4, RunOf DEF TreesInv, Candidate, Early
<1>6. ServicesInv(d)'
  BY <1>2, <1>3 DEF ServicesInv, AtStep
<1>7. VerifiedInv'
  BY <1>1, <1>2, RunOf, VerifiedStays
<1>8. QED
  BY <1>1, <1>2, <1>5, <1>6, <1>7, RunOf, RunKeeps DEF DeployType

\* The test of the marker and the build.
LEMMA PrepareKeeps ==
  ASSUME DeployInv, NEW d \in Deployers, Prepare(d)
  PROVE  DeployInv'
<1>1. AtStep(d, "Copied") /\ deployer[d].step \in Deploying /\ Underway(d)
  BY DEF Prepare, AtStep, Deploying, Underway, Phases
<1>2. UNCHANGED <<app, previous, building, serving, schema, verified, kills>>
  BY DEF Prepare, disk
<1>3. serving' \in Marks \cup {Mixed} /\ schema' \in Nat /\ SchemaCoversServing'
  BY <1>1, <1>2, RunOf DEF DeployType, SchemaCoversServing
<1>4. CASE Go(d, "Prepared") /\ UNCHANGED <<holder, failures>>
  <2>1. "Prepared" \in Deploying /\ "Prepared" \notin {"Migrated", "Started"}
    BY DEF Deploying
  <2>2. QED
    BY <1>1, <1>2, <1>3, <1>4, <2>1, DeployGoesOn
<1>5. CASE FailDeploy(d)
  BY <1>1, <1>2, <1>3, <1>5, FailDeployKeeps
<1>6. QED
  BY <1>4, <1>5 DEF Prepare

\* A tree never asks for fewer migrations than the schema has, and a release
\* for no fewer than it needs.
LEMMA WantedCovers ==
  ASSUME schema \in Nat, NEW wanted \in Wanted
  PROVE  /\ wanted \in Nat /\ schema <= wanted
         /\ app.files \in Releases => Needs[app.files] <= wanted
<1>1. PICK n \in MayBring(app.files) : wanted = IF n > schema THEN n ELSE schema
  BY DEF Wanted
<1>2. n \in Nat /\ (app.files \in Releases => n = Needs[app.files])
  BY DeploymentAssumption DEF MayBring
<1>3. QED
  BY <1>1, <1>2

\* The migrations: the schema only grows, and at their end has what app/ needs.
LEMMA MigrateKeeps ==
  ASSUME DeployInv, NEW d \in Deployers, Migrate(d)
  PROVE  DeployInv'
<1>1. AtStep(d, "Prepared") /\ deployer[d].step \in Deploying /\ Underway(d)
  BY DEF Migrate, AtStep, Deploying, Underway, Phases
<1>2. UNCHANGED <<app, previous, building, serving, verified, kills>>
  BY DEF Migrate, disk
<1>3. app.files \in Marks \cup {Mixed} /\ schema \in Nat /\ serving \in Marks \cup {Mixed}
  BY <1>1, RunOf, WholeTrees DEF DeployType
<1>4. PICK wanted \in Wanted : \E n \in schema .. wanted :
        /\ schema' = n
        /\ \/ n = wanted /\ Go(d, "Migrated") /\ UNCHANGED <<holder, failures>>
           \/ FailDeploy(d)
  BY DEF Migrate, StopsAt
<1>5. PICK n \in schema .. wanted :
        /\ schema' = n
        /\ \/ n = wanted /\ Go(d, "Migrated") /\ UNCHANGED <<holder, failures>>
           \/ FailDeploy(d)
  BY <1>4
<1>6. /\ wanted \in Nat /\ schema <= wanted
      /\ app.files \in Releases => Needs[app.files] <= wanted
  BY <1>3, WantedCovers
<1>7. /\ serving' \in Marks \cup {Mixed} /\ schema' \in Nat /\ schema <= schema'
  BY <1>2, <1>3, <1>5, <1>6
<1>8. SchemaCoversServing'
  <2> SUFFICES ASSUME serving \in Releases PROVE Needs[serving] <= schema'
    BY <1>2 DEF SchemaCoversServing
  <2>1. Needs[serving] \in Nat
    BY DeploymentAssumption
  <2>2. Needs[serving] <= schema
    BY <1>1, RunOf DEF SchemaCoversServing
  <2>3. QED
    BY <1>3, <1>7, <2>1, <2>2
<1>9. CASE n = wanted /\ Go(d, "Migrated") /\ UNCHANGED <<holder, failures>>
  <2>1. "Migrated" \in Deploying /\ "Migrated" # "Started"
    BY DEF Deploying
  <2>2. app.files \in Releases => Needs[app.files] <= schema'
    BY <1>5, <1>6, <1>9
  <2>3. QED
    BY <1>1, <1>2, <1>7, <1>8, <1>9, <2>1, <2>2, DeployGoesOn
<1>10. CASE FailDeploy(d)
  BY <1>1, <1>2, <1>7, <1>8, <1>10, FailDeployKeeps
<1>11. QED
  BY <1>5, <1>9, <1>10

\* The containers of what is in app/.
LEMMA StartServicesKeeps ==
  ASSUME DeployInv, NEW d \in Deployers, StartServices(d)
  PROVE  DeployInv'
<1>1. AtStep(d, "Migrated") /\ deployer[d].step \in Deploying /\ Underway(d)
  BY DEF StartServices, AtStep, Deploying, Underway, Phases
<1>2. UNCHANGED <<app, previous, building, schema, verified, kills>>
  BY DEF StartServices, disk
<1>3. app.files \in Marks \cup {Mixed} /\ schema' \in Nat
  BY <1>1, <1>2, RunOf, WholeTrees DEF DeployType
<1>4. app.files \in Releases => Needs[app.files] <= schema'
  BY <1>1, <1>2, RunOf DEF ServicesInv, AtStep
<1>5. CASE serving' = app.files /\ Go(d, "Started") /\ UNCHANGED <<holder, failures>>
  <2>1. "Started" \in Deploying
    BY DEF Deploying
  <2>2. SchemaCoversServing'
    BY <1>4, <1>5 DEF SchemaCoversServing
  <2>3. QED
    BY <1>1, <1>2, <1>3, <1>4, <1>5, <2>1, <2>2, DeployGoesOn
<1>6. CASE serving' = Mixed /\ FailDeploy(d)
  <2>1. SchemaCoversServing'
    BY <1>6, DeploymentAssumption DEF SchemaCoversServing
  <2>2. QED
    BY <1>1, <1>2, <1>3, <1>6, <2>1, FailDeployKeeps
<1>7. QED
  BY <1>5, <1>6 DEF StartServices

\* The health gate: a release that passes it is in app/, whole, when the lock
\* is let go; a mixture can only be the tree that the run has found.
LEMMA VerifyKeeps ==
  ASSUME DeployInv, NEW d \in Deployers, Verify(d)
  PROVE  DeployInv'
<1>1. AtStep(d, "Started") /\ deployer[d].step \in Deploying /\ Underway(d)
  BY DEF Verify, AtStep, Deploying, Underway, Phases
<1>2. UNCHANGED <<app, previous, building, serving, schema, kills>>
  BY DEF Verify, disk
<1>3. serving' \in Marks \cup {Mixed} /\ schema' \in Nat /\ SchemaCoversServing'
  BY <1>1, <1>2, RunOf DEF DeployType, SchemaCoversServing
<1>4. ASSUME serving \in Sound \cup {Mixed},
             verified' = IF serving = Mixed THEN verified ELSE serving,
             NEW step \in Ended, End(d, step)
      PROVE  DeployInv'
  <2>1. PICK next \in DeployerState :
          /\ deployer' = [deployer EXCEPT ![d] = next]
          /\ next.step \notin Phases /\ next.step # "Idle" /\ next.start = deployer[d].start
    BY <1>1, <1>4, Ending
  <2>2. holder' = NoRelease /\ TreesInv(d)' /\ ServicesInv(d)'
    BY <1>1, <1>4, Ending
  <2>3. \A e \in Deployers : ~Underway(e)'
    BY <1>1, <2>1, OthersRest DEF Underway
  <2>4. app.files = serving /\ app \in Trees /\ verified \in Sound \cup {NoRelease}
    BY <1>1, RunOf DEF ServicesInv, DeployType
  <2>5. VerifiedInv'
    <3>1. CASE serving # Mixed
      <4>1. app = Tree(serving) /\ verified' = serving
        BY <1>4, <2>4, <3>1, WholeTrees
      <4>2. QED
        BY <1>2, <2>3, <4>1 DEF VerifiedInv
    <3>2. CASE serving = Mixed
      <4>1. ~Candidate(d)
        <5>1. \A r \in Releases : Tree(r).files # Mixed
          BY DeploymentAssumption DEF Tree
        <5>2. QED
          BY <1>1, <2>4, <3>2, <5>1, RunOf, DeploymentAssumption DEF TreesInv, Releases
      <4>2. app' = deployer[d].start /\ verified' = verified
        BY <1>1, <1>2, <1>4, <3>2, <4>1, RunOf DEF TreesInv
      <4>3. QED
        BY <1>1, <1>2, <2>1, <4>2, VerifiedStays
    <3>3. QED
      BY <3>1, <3>2
  <2>7. verified' \in Sound \cup {NoRelease}
    BY <1>4, <2>4
  <2>6. QED
    BY <1>1, <1>2, <1>3, <1>4, <2>1, <2>2, <2>5, <2>7, RunOf, RunKeeps DEF DeployType
<1>5. CASE FailDeploy(d) /\ UNCHANGED verified
  BY <1>1, <1>2, <1>3, <1>5, FailDeployKeeps
<1>6. CASE /\ serving \in Sound \cup {Mixed}
           /\ verified' = IF serving = Mixed THEN verified ELSE serving
           /\ End(d, CASE Candidate(d) -> "Succeeded"
                       [] deployer[d].mode = "rollback" -> "RolledBack"
                       [] OTHER -> "Fatal")
  <2>1. (CASE Candidate(d) -> "Succeeded"
           [] deployer[d].mode = "rollback" -> "RolledBack"
           [] OTHER -> "Fatal") \in Ended
    BY DEF Ended, Candidate
  <2>2. QED
    BY <1>4, <1>6, <2>1
<1>7. QED
  BY <1>5, <1>6 DEF Verify

\* docker compose down in the trap.
LEMMA StopServicesKeeps ==
  ASSUME DeployInv, NEW d \in Deployers, StopServices(d)
  PROVE  DeployInv'
<1>1. AtStep(d, "Restoring") /\ Underway(d)
  BY DEF StopServices, AtStep, Underway, Phases, Trapped
<1>2. UNCHANGED <<app, previous, building, holder, schema, verified, kills>>
  BY DEF StopServices, disk
<1>3. PICK step \in {"Stopped", "Stopped badly"} : Go(d, step) /\ serving' \in {NoRelease, Mixed}
  BY DEF StopServices
<1>4. step \in Phases \ Early /\ step \notin Deploying /\ step # "Armed" /\ step # "Idle"
  BY DEF Phases, Early, Deploying, Trapped
<1>5. PICK next \in DeployerState :
        /\ deployer' = [deployer EXCEPT ![d] = next]
        /\ next.step = step /\ next.start = deployer[d].start /\ next.mode = deployer[d].mode
  BY <1>1, <1>3, <1>4, RunOf, Going
<1>6. deployer'[d] = next
  BY <1>1, <1>5, OthersRest
<1>7. TreesInv(d)' /\ ServicesInv(d)'
  BY <1>1, <1>2, <1>4, <1>5, <1>6, RunOf
     DEF TreesInv, ServicesInv, AtStep, Candidate, Phases, Early, Deploying, Trapped
<1>8. VerifiedInv' /\ SchemaCoversServing'
  BY <1>1, <1>2, <1>3, <1>4, <1>5, RunOf, VerifiedStays, DeploymentAssumption DEF SchemaCoversServing
<1>9. QED
  BY <1>1, <1>2, <1>3, <1>4, <1>5, <1>7, <1>8, RunOf, RunKeeps DEF DeployType, Marks

\* The trap puts back what was found, or is cut short.
LEMMA CopyPreviousKeeps ==
  ASSUME DeployInv, NEW d \in Deployers, CopyPrevious(d)
  PROVE  DeployInv'
<1>1. deployer[d].step \in Trapped /\ Underway(d)
  BY DEF CopyPrevious, AtStep, Underway, Phases, Trapped
<1>2. /\ UNCHANGED <<previous, building, serving, schema, verified, kills>>
      /\ SchemaCoversServing'
  BY <1>1, RunOf DEF CopyPrevious, SchemaCoversServing
<1>3. previous = deployer[d].start /\ previous \in Trees /\ app \in Trees
  BY <1>1, RunOf DEF TreesInv, Phases, Early, Deploying, Trapped, DeployType
<1>4. ASSUME NEW step \in Ended, End(d, step), app' \in Trees,
             app' = previous \/ app'.files = Mixed
      PROVE  DeployInv'
  <2>1. PICK next \in DeployerState :
          /\ deployer' = [deployer EXCEPT ![d] = next]
          /\ next.step \notin Phases /\ next.step # "Idle" /\ next.start = deployer[d].start
    BY <1>1, <1>4, Ending
  <2>2. holder' = NoRelease /\ TreesInv(d)' /\ ServicesInv(d)'
    BY <1>1, <1>4, Ending
  <2>3. VerifiedInv'
    <3>1. app' = deployer[d].start \/ (previous' = deployer[d].start /\ app'.files = Mixed)
      BY <1>2, <1>3, <1>4
    <3>2. verified' = verified /\ kills' \in {kills, kills + 1}
      BY <1>2
    <3>3. Underway(d)
      BY <1>1
    <3>4. QED
      BY <2>1, <3>1, <3>2, <3>3, VerifiedStays
  <2>4. QED
    BY <1>1, <1>2, <1>4, <2>1, <2>2, <2>3, RunOf, RunKeeps DEF DeployType
<1>5. ASSUME NEW mode \in {"rollback", "bad rollback"}, app' = previous, UNCHANGED holder,
             deployer' = [deployer EXCEPT ![d].mode = mode, ![d].step = "Copied"]
      PROVE  DeployInv'
  <2> DEFINE next == [deployer[d] EXCEPT !.mode = mode, !.step = "Copied"]
  <2>1. deployer' = [deployer EXCEPT ![d] = next]
    BY <1>5
  <2>2. /\ next.step = "Copied" /\ next.start = deployer[d].start /\ next.mode = mode
        /\ next \in [step : {"Copied"}, mode : {"rollback", "bad rollback"}, start : Trees]
    BY <1>1, RunOf
  <2> HIDE DEF next
  <2>3. "Copied" \in Phases \ Early /\ "Copied" \notin {"Armed", "Migrated", "Started"}
    BY DEF Phases, Early, Deploying
  <2>4. next \in DeployerState
    BY <2>2, <2>3 DEF DeployerState
  <2>5. deployer'[d] = next
    BY <1>1, <2>1, OthersRest
  <2>6. TreesInv(d)'
    BY <1>2, <1>3, <1>5, <2>2, <2>3, <2>5 DEF TreesInv, Candidate, Early
  <2>7. ServicesInv(d)'
    BY <2>2, <2>3, <2>5 DEF ServicesInv, AtStep
  <2>8. VerifiedInv'
    <3>1. /\ next.step \in Phases /\ next.step # "Idle" /\ next.start = deployer[d].start
          /\ verified' = verified /\ kills' \in {kills, kills + 1} /\ holder' = holder
      BY <1>2, <1>5, <2>2, <2>3
    <3>2. QED
      BY <1>1, <2>1, <2>4, <3>1, VerifiedStays
  <2>9. QED
    BY <1>1, <1>2, <1>3, <1>5, <2>1, <2>2, <2>3, <2>4, <2>6, <2>7, <2>8, RunOf, RunKeeps DEF DeployType
<1>6. CASE app' = previous /\ End(d, "Fatal")
  <2>1. "Fatal" \in Ended
    BY DEF Ended
  <2>2. QED
    BY <1>3, <1>4, <1>6, <2>1
<1>7. CASE app' \in CutShort(previous, app) /\ End(d, "Aborted")
  <2>1. "Aborted" \in Ended
    BY DEF Ended
  <2>2. QED
    BY <1>3, <1>4, <1>7, <2>1, CutShortTrees
<1>8. CASE /\ app' = previous /\ UNCHANGED holder
           /\ deployer' = [deployer EXCEPT
                ![d].mode = IF AtStep(d, "Stopped") THEN "rollback" ELSE "bad rollback",
                ![d].step = "Copied"]
  BY <1>5, <1>8
<1>9. QED
  BY <1>6, <1>7, <1>8 DEF CopyPrevious, Restored

\* A kill frees the lock with the process; what it leaves half done is mixed,
\* and counts as a kill from then on.
LEMMA KillKeeps ==
  ASSUME DeployInv, NEW d \in Deployers, Kill(d)
  PROVE  DeployInv'
<1>1. deployer[d].step \in Phases
  BY DEF Kill, DeployInv, DeployType, DeployerState
<1>2. Underway(d)
  BY <1>1 DEF Underway
<1>3. "Killed" \in Ended /\ End(d, "Killed")
  BY DEF Kill, End, HolderAfterKill, Ended
<1>4. verified' = verified /\ kills' = kills + 1 /\ kills \in Nat
  BY <1>2, RunOf DEF Kill, DeployType
<1>5. /\ {app, previous, building, Tree(Brings[d]), NoTree} \subseteq Trees
      /\ schema \in Nat /\ serving \in Marks \cup {Mixed}
  BY <1>2, RunOf, WholeTrees DEF DeployType, Marks, Releases
<1>6. \A wanted \in Wanted : wanted \in Nat /\ schema <= wanted
  BY <1>5, WantedCovers
<1>7. /\ {app', previous', building'} \subseteq Trees
      /\ schema' \in Nat /\ schema <= schema'
      /\ serving' = serving \/ serving' = Mixed
  <2>1. CASE UNCHANGED <<disk, serving, schema>>
    BY <1>5, <2>1 DEF disk
  <2>2. CASE building' \in CutShort(app, NoTree) /\ UNCHANGED <<app, previous, serving, schema>>
    BY <1>5, <2>2, CutShortTrees
  <2>3. CASE previous' \in CutShort(previous, NoTree) /\ UNCHANGED <<app, building, serving, schema>>
    BY <1>5, <2>3, CutShortTrees
  <2>4. CASE /\ app' \in CutShort(Tree(Brings[d]), app) \/ app' \in CutShort(previous, app)
             /\ UNCHANGED <<previous, building, serving, schema>>
    BY <1>5, <2>4, CutShortTrees
  <2>5. CASE (\E wanted \in Wanted : schema' \in schema .. wanted) /\ UNCHANGED <<disk, serving>>
    BY <1>5, <1>6, <2>5 DEF disk
  <2>6. CASE serving' = Mixed /\ UNCHANGED <<disk, schema>>
    BY <1>5, <2>6 DEF disk
  <2>7. QED
    BY <2>1, <2>2, <2>3, <2>4, <2>5, <2>6, Zenon DEF Kill
<1>8. SchemaCoversServing'
  <2> SUFFICES ASSUME serving' \in Releases PROVE Needs[serving'] <= schema'
    BY DEF SchemaCoversServing
  <2>1. serving' = serving
    BY <1>7, DeploymentAssumption
  <2>2. Needs[serving] \in Nat /\ Needs[serving] <= schema
    BY <1>2, <2>1, RunOf, DeploymentAssumption DEF SchemaCoversServing
  <2>3. QED
    BY <1>5, <1>7, <2>1, <2>2
<1>9. PICK next \in DeployerState :
        /\ deployer' = [deployer EXCEPT ![d] = next]
        /\ next.step \notin Phases /\ next.step # "Idle" /\ next.start = deployer[d].start
  BY <1>2, <1>3, Ending
<1>10. holder' = NoRelease /\ TreesInv(d)' /\ ServicesInv(d)'
  BY <1>2, <1>3, Ending
<1>11. VerifiedInv'
  <2>1. kills' \in {kills, kills + 1} /\ kills' # 0
    BY <1>4
  <2>2. QED
    BY <1>2, <1>4, <1>9, <2>1, VerifiedStays
<1>12. verified' \in Sound \cup {NoRelease} /\ kills' \in Nat /\ serving' \in Marks \cup {Mixed}
  <2>1. verified \in Sound \cup {NoRelease}
    BY <1>2, RunOf DEF DeployType
  <2>2. kills' \in Nat
    BY <1>4
  <2>3. serving' \in Marks \cup {Mixed}
    BY <1>5, <1>7
  <2>4. QED
    BY <1>4, <2>1, <2>2, <2>3
<1>13. holder' = IF next.step \in Phases THEN holder ELSE NoRelease
  BY <1>9, <1>10
<1>14. QED
  BY <1>2, <1>7, <1>8, <1>9, <1>10, <1>11, <1>12, <1>13, RunKeeps

-----------------------------------------------------------------------------
\* The initial states, with a release in place or an empty directory.
LEMMA DeployStarts == DeployInit => DeployInv
<1> SUFFICES ASSUME DeployInit PROVE DeployInv
  OBVIOUS
<1>1. PICK r \in {Installed, NoRelease} :
        /\ app = Tree(r) /\ serving = r /\ verified = r
        /\ schema = IF r = NoRelease THEN 0 ELSE Needs[r]
  BY DEF DeployInit
<1>2. /\ previous = NoTree /\ building = NoTree /\ holder = NoRelease /\ kills = 0
      /\ deployer = [d \in Deployers |-> [step |-> "Idle"]]
  BY DEF DeployInit
<1>3. r \in Marks /\ r \in Sound \cup {NoRelease} /\ schema \in Nat
  BY <1>1, DeploymentAssumption DEF Marks, Releases
<1>4. DeployType
  BY <1>1, <1>2, <1>3, WholeTrees DEF DeployType, DeployerState
<1>5. \A d \in Deployers : deployer[d].step \notin Phases
  BY <1>2 DEF Phases, Early, Deploying, Trapped
<1>6. AloneInv
  BY <1>2, <1>5, DeploymentAssumption DEF AloneInv, Underway
<1>7. SchemaCoversServing
  BY <1>1, <1>3, DeploymentAssumption DEF SchemaCoversServing
<1>8. VerifiedInv
  BY <1>1, <1>5 DEF VerifiedInv, Underway
<1>9. \A d \in Deployers : TreesInv(d) /\ ServicesInv(d)
  BY <1>5 DEF TreesInv, ServicesInv, AtStep, Phases, Early, Deploying, Trapped
<1>10. QED
  BY <1>4, <1>6, <1>7, <1>8, <1>9 DEF DeployInv

\* Every step keeps the invariant.
LEMMA DeployKeeps == DeployInv /\ [DeployNext]_deployVars => DeployInv'
<1>1. ASSUME DeployInv, NEW d \in Deployers, DeployStep(d) \/ Kill(d)
      PROVE  DeployInv'
  BY <1>1, TakeLockKeeps, BackUpKeeps, RemovePreviousKeeps, MovePreviousKeeps,
     CopyIncomingKeeps, PrepareKeeps, MigrateKeeps, StartServicesKeeps, VerifyKeeps,
     StopServicesKeeps, CopyPreviousKeeps, KillKeeps DEF DeployStep
<1>2. ASSUME DeployInv, UNCHANGED deployVars
      PROVE  DeployInv'
  BY <1>2 DEF deployVars, DeployInv, DeployType, AloneInv, SchemaCoversServing, VerifiedInv,
     Unharmed, TreesInv, ServicesInv, Underway, AtStep, Candidate
<1>3. QED
  BY <1>1, <1>2 DEF DeployNext

\* The invariant, over every behaviour.
LEMMA DeployInvariance == DeploySpec => []DeployInv
BY DeployStarts, DeployKeeps, PTL DEF DeploySpec

\* A run touches app/ only when previous/ has what it found there, and
\* previous/ only while app/ has.
LEMMA RunSparesWhatItFound ==
  ASSUME DeployInv, NEW d \in Deployers, Underway(d), DeployStep(d) \/ Kill(d)
  PROVE  deployer[d].start \in {app', previous'}
<1>1. \/ deployer[d].step \in Early /\ app = deployer[d].start
      \/ deployer[d].step \in Phases \ Early /\ previous = deployer[d].start
  BY RunOf DEF TreesInv, Underway
<1>2. CASE deployer[d].step \in Early
  <2>1. app' = app
    <3>1. CASE Kill(d)
      BY <1>2, <3>1 DEF Kill, AtStep, Early, disk
    <3>2. CASE DeployStep(d)
      BY <1>2, <3>2 DEF DeployStep, TakeLock, MayEnter, BackUp, RemovePrevious, MovePrevious,
           CopyIncoming, Prepare, Migrate, StartServices, Verify, StopServices, CopyPrevious,
           AtStep, Early, disk
    <3>3. QED
      BY <3>1, <3>2
  <2>2. QED
    BY <1>1, <1>2, <2>1
<1>3. CASE deployer[d].step \in Phases \ Early
  <2>1. previous' = previous
    <3>1. CASE Kill(d)
      BY <1>3, <3>1 DEF Kill, AtStep, Early, disk
    <3>2. CASE DeployStep(d)
      BY <1>3, <3>2 DEF DeployStep, TakeLock, MayEnter, BackUp, RemovePrevious, MovePrevious,
           CopyIncoming, Prepare, Migrate, StartServices, Verify, StopServices, CopyPrevious,
           AtStep, Early, Phases, Deploying, Trapped, disk
    <3>3. QED
      BY <3>1, <3>2
  <2>2. QED
    BY <1>1, <1>3, <2>1
<1>4. QED
  BY <1>2, <1>3 DEF Underway

\* What passes the health gate is in app/.
LEMMA GatePassedOnDisk ==
  ASSUME DeployInv, NEW d \in Deployers, Underway(d), DeployStep(d) \/ Kill(d)
  PROVE  verified' = verified \/ app' = Tree(verified')
<1>1. CASE Verify(d)
  <2>1. SUFFICES ASSUME verified' # verified PROVE app' = Tree(verified')
    OBVIOUS
  <2>2. AtStep(d, "Started") /\ serving \in Sound /\ verified' = serving /\ app' = app
    BY <1>1, <2>1 DEF Verify, disk
  <2>3. serving = app.files
    BY <2>2, RunOf DEF ServicesInv
  <2>4. app \in Trees /\ app.files # Mixed
    BY <2>2, <2>3, RunOf, DeploymentAssumption DEF DeployType
  <2>5. QED
    BY <2>2, <2>3, <2>4, WholeTrees
<1>2. CASE Kill(d)
  BY <1>2 DEF Kill
<1>3. CASE DeployStep(d) /\ ~Verify(d)
  BY <1>3 DEF DeployStep, TakeLock, BackUp, RemovePrevious, MovePrevious,
       CopyIncoming, Prepare, Migrate, StartServices, StopServices, CopyPrevious
<1>4. QED
  BY <1>1, <1>2, <1>3

\* Whatever fails, whoever waits for the lock and whichever run was killed
\* before, the containers have their migrations, the trap has its tree and
\* the verified release is on the disk; and a run that found it there does
\* not lose it (apply-release.sh, deploy.sh).
THEOREM TreesAndSchemaStaySound == DeploySpec => TreesAndSchemaSound
<1>1. DeployInv => RollbackTargetIntact
  <2> SUFFICES ASSUME DeployInv, NEW d \in Deployers, "start" \in DOMAIN deployer[d],
                      deployer[d].step \notin Ended \cup {"Locked", "BackedUp", "Removed"}
               PROVE  previous = deployer[d].start
    BY DEF RollbackTargetIntact
  <2>1. deployer[d].step \in Phases \ Early
    BY DEF DeployInv, DeployType, DeployerState, Early
  <2>2. QED
    BY <2>1 DEF DeployInv, TreesInv
<1>2. DeployInv => VerifiedReleaseKept
  <2> SUFFICES ASSUME DeployInv, verified # NoRelease, Unharmed
               PROVE  Tree(verified) \in {app, previous}
    BY DEF VerifiedReleaseKept, VerifiedOnDisk
  <2>1. CASE holder = NoRelease
    BY <2>1 DEF DeployInv, VerifiedInv
  <2>2. CASE holder \in Deployers
    <3>1. Underway(holder) /\ TreesInv(holder) /\ deployer[holder].start = Tree(verified)
      BY <2>2 DEF DeployInv, AloneInv, VerifiedInv
    <3>2. deployer[holder].step \in Early \/ deployer[holder].step \in Phases \ Early
      BY <3>1 DEF Underway
    <3>3. QED
      BY <3>1, <3>2 DEF TreesInv
  <2>3. QED
    BY <2>1, <2>2 DEF DeployInv, DeployType
<1>3. DeployInv /\ [DeployNext]_deployVars =>
        [verified # NoRelease /\ VerifiedOnDisk /\ ~VerifiedOnDisk' =>
           \E d \in Deployers : FoundAnother(d)]_deployVars
  <2> SUFFICES ASSUME DeployInv, DeployNext, VerifiedOnDisk, ~VerifiedOnDisk'
               PROVE  \E d \in Deployers : FoundAnother(d)
    BY DEF VerifiedOnDisk, deployVars
  <2>1. PICK d \in Deployers : DeployStep(d) \/ Kill(d)
    BY DEF DeployNext
  <2>2. CASE Underway(d)
    <3>1. deployer[d].start \in {app', previous'}
      BY <2>1, <2>2, RunSparesWhatItFound
    <3>2. verified' = verified
      BY <2>1, <2>2, GatePassedOnDisk DEF VerifiedOnDisk
    <3>3. holder = d /\ deployer[d].start # Tree(verified)
      BY <2>2, <3>1, <3>2, RunOf DEF VerifiedOnDisk
    <3>4. QED
      BY <3>3 DEF FoundAnother
  <2>3. CASE ~Underway(d)
    <3>1. TakeLock(d)
      <4>1. ~Kill(d)
        BY <2>3 DEF Kill, Underway, DeployInv, DeployType, DeployerState
      <4>2. QED
        BY <2>1, <2>3, <4>1 DEF DeployStep, Underway, BackUp, RemovePrevious, MovePrevious,
             CopyIncoming, Prepare, Migrate, StartServices, Verify, StopServices, CopyPrevious,
             AtStep, Phases, Early, Deploying, Trapped
    <3>2. QED
      BY <3>1 DEF TakeLock, VerifiedOnDisk, disk
  <2>4. QED
    BY <2>2, <2>3
<1>4. DeployInv => SchemaCoversServing
  BY DEF DeployInv
<1>5. QED
  BY <1>1, <1>2, <1>3, <1>4, DeployInvariance, PTL
     DEF DeploySpec, TreesAndSchemaSound, VerifiedOutlivesFaults

\* A step of one run moves nobody else.
LEMMA GoesThere ==
  ASSUME DeployInv, NEW d \in Deployers, NEW e \in Deployers, NEW step, Go(e, step)
  PROVE  deployer'[d].step \in {deployer[d].step, step}
<1>1. DOMAIN deployer = Deployers /\ "step" \in DOMAIN deployer[e]
  BY DEF DeployInv, DeployType, DeployerState
<1>2. CASE d = e
  BY <1>1, <1>2 DEF Go
<1>3. CASE d # e
  BY <1>1, <1>3 DEF Go
<1>4. QED
  BY <1>2, <1>3

\* Only the health gate lets a run report success or a rollback.
LEMMA OutcomeIsVerified ==
  ASSUME DeployInv, [DeployNext]_deployVars, NEW d \in Deployers,
         NEW step \in {"Succeeded", "RolledBack"}, Becomes(d, step)
  PROVE  /\ Verify(d) /\ serving \in Sound \cup {Mixed}
         /\ Candidate(d) <=> step = "Succeeded"
<1>1. deployer[d].step # step /\ deployer'[d].step = step
  BY DEF Becomes, AtStep
<1>2. PICK e \in Deployers : DeployStep(e) \/ Kill(e)
  BY <1>1 DEF DeployNext, deployVars
<1>3. deployer \in [Deployers -> DeployerState]
  BY DEF DeployInv, DeployType
<1>4. \A other : Go(e, other) => other = step
  BY <1>1, GoesThere
<1>5. ~FailDeploy(e)
  <2>1. step # "Restoring" /\ step # "Fatal"
    OBVIOUS
  <2>2. QED
    BY <1>4, <2>1 DEF FailDeploy, End
<1>6. ~(TakeLock(e) \/ BackUp(e) \/ RemovePrevious(e) \/ MovePrevious(e) \/ CopyIncoming(e))
  <2>1. ~TakeLock(e)
    BY <1>1, <1>3 DEF TakeLock
  <2>2. ~BackUp(e) /\ ~RemovePrevious(e) /\ ~MovePrevious(e) /\ ~CopyIncoming(e)
    BY <1>4 DEF BackUp, RemovePrevious, MovePrevious, CopyIncoming, End
  <2>3. QED
    BY <2>1, <2>2
<1>7. ~(Prepare(e) \/ Migrate(e) \/ StartServices(e) \/ StopServices(e) \/ Kill(e))
  BY <1>4, <1>5 DEF Prepare, Migrate, StartServices, StopServices, Kill
<1>8. Verify(e)
  <2>1. ~CopyPrevious(e)
    <3>1. CASE End(e, "Fatal") \/ End(e, "Aborted")
      BY <1>4, <3>1 DEF End
    <3>2. CASE deployer' = [deployer EXCEPT
                 ![e].mode = IF AtStep(e, "Stopped") THEN "rollback" ELSE "bad rollback",
                 ![e].step = "Copied"]
      BY <1>1, <1>3, <3>2 DEF DeployerState
    <3>3. QED
      BY <3>1, <3>2, Zenon DEF CopyPrevious
  <2>2. QED
    BY <1>2, <1>6, <1>7, <2>1 DEF DeployStep
<1>9. /\ serving \in Sound \cup {Mixed}
      /\ deployer' = [deployer EXCEPT ![e].step =
           CASE Candidate(e) -> "Succeeded"
             [] deployer[e].mode = "rollback" -> "RolledBack"
             [] OTHER -> "Fatal"]
  BY <1>5, <1>8 DEF Verify, End, Go
<1>10. e = d
  BY <1>1, <1>3, <1>9
<1>11. Candidate(d) <=> step = "Succeeded"
  BY <1>1, <1>3, <1>9, <1>10 DEF Candidate
<1>12. QED
  BY <1>8, <1>9, <1>10, <1>11

\* A run that reports success serves its own release, whole and migrated,
\* also after runs that were killed.  One that reports a rollback has put back
\* the tree it found and serves its files: the release it names with its
\* migrations, unless what it found was a mixture (apply-release.sh:28-71,
\* verify-runtime.sh).
THEOREM OutcomesAreTruthful == DeploySpec => OutcomesTruthful
<1>1. ASSUME DeployInv, [DeployNext]_deployVars, NEW d \in Deployers,
             NEW step \in {"Succeeded", "RolledBack"}, Becomes(d, step)
      PROVE  /\ app' = IF step = "Succeeded" THEN Tree(Brings[d]) ELSE deployer[d].start
             /\ app' \in Trees /\ serving' = app'.files
             /\ serving' \in Releases => Needs[serving'] <= schema'
  <2>1. Verify(d) /\ (Candidate(d) <=> step = "Succeeded")
    BY <1>1, OutcomeIsVerified
  <2>2. AtStep(d, "Started") /\ UNCHANGED <<app, serving, schema>>
    BY <2>1 DEF Verify, disk
  <2>3. TreesInv(d) /\ ServicesInv(d) /\ deployer[d].step = "Started" /\ app \in Trees
    BY <1>1, <2>2 DEF DeployInv, DeployType, AtStep
  <2>4. app = IF Candidate(d) THEN Tree(Brings[d]) ELSE deployer[d].start
    BY <2>3 DEF TreesInv, Deploying
  <2>5. serving = app.files
    BY <2>2, <2>3 DEF ServicesInv
  <2>6. app.files \in Releases => Needs[app.files] <= schema
    BY <2>3 DEF ServicesInv
  <2>7. QED
    BY <2>1, <2>2, <2>3, <2>4, <2>5, <2>6
<1>2. DeployInv /\ [DeployNext]_deployVars =>
        [\A d \in Deployers : Becomes(d, "Succeeded") =>
           /\ app' = Tree(Brings[d]) /\ serving' = Brings[d]
           /\ Needs[Brings[d]] <= schema']_deployVars
  <2> SUFFICES ASSUME DeployInv, [DeployNext]_deployVars, NEW d \in Deployers,
                      Becomes(d, "Succeeded")
               PROVE  /\ app' = Tree(Brings[d]) /\ serving' = Brings[d]
                      /\ Needs[Brings[d]] <= schema'
    OBVIOUS
  <2>1. /\ app' = Tree(Brings[d]) /\ serving' = app'.files
        /\ serving' \in Releases => Needs[serving'] <= schema'
    BY <1>1
  <2>2. Tree(Brings[d]).files = Brings[d] /\ Brings[d] \in Releases
    BY DEF Tree, Releases
  <2>3. QED
    BY <2>1, <2>2
<1>3. DeployInv /\ [DeployNext]_deployVars =>
        [\A d \in Deployers : Becomes(d, "RolledBack") =>
           /\ app' = deployer[d].start /\ serving' = app'.files
           /\ serving' \in Releases =>
                serving' = deployer[d].start.marker /\ Needs[serving'] <= schema']_deployVars
  <2> SUFFICES ASSUME DeployInv, [DeployNext]_deployVars, NEW d \in Deployers,
                      Becomes(d, "RolledBack")
               PROVE  /\ app' = deployer[d].start /\ serving' = app'.files
                      /\ serving' \in Releases =>
                           serving' = deployer[d].start.marker /\ Needs[serving'] <= schema'
    OBVIOUS
  <2>1. /\ app' = deployer[d].start /\ app' \in Trees /\ serving' = app'.files
        /\ serving' \in Releases => Needs[serving'] <= schema'
    BY <1>1
  <2>2. serving' \in Releases => app'.marker = serving'
    <3>1. serving' \in Releases => app' = Tree(serving')
      BY <2>1, WholeTrees, DeploymentAssumption
    <3>2. QED
      BY <3>1 DEF Tree
  <2>3. QED
    BY <2>1, <2>2
<1>4. QED
  BY <1>2, <1>3, DeployInvariance, PTL
     DEF DeploySpec, OutcomesTruthful, SuccessServesRelease, RollbackServesPrior

-----------------------------------------------------------------------------
(***************************************************************************)
(* The edge: what a run has reached, by the step it is at.                 *)
(***************************************************************************)
AfterRedirect == {"Token", "Id", "Done"}
AfterApex == {"www", "Redirect"} \cup AfterRedirect
AfterPublic == {"apex"} \cup AfterApex
AfterIngress == {"public"} \cup AfterPublic
AfterTunnel == {"Ingress"} \cup AfterIngress

Reached(z, s, step, t) ==
  /\ step \in {"Stopped", "Refused", "Tunnel"} \cup AfterTunnel
  /\ step \in AfterTunnel => t \in Tunnels /\ z.tunnels = {t}
  /\ step \in AfterIngress => t \in z.ingress
  /\ step \in AfterPublic => z.records["public"] = {Alias(t)}
  /\ step \in AfterApex => z.records["apex"] = {Alias(t)}
  /\ step \in AfterApex \ {"www"} => z.records["www"] = {Alias(t)}
  /\ step \in AfterRedirect => z.redirects = 1
  /\ step \in {"Id", "Done"} => s.token = t
  /\ step = "Done" => s.id = t

IsSecrets(s) == s = [token |-> s.token, id |-> s.id]

EdgeInv ==
  /\ IsZone(zone) /\ NamesRoute(zone) /\ IsSecrets(secrets)
  /\ Reached(zone, secrets, run.step, run.tunnel)

\* The order of the steps.
LEMMA StepsInOrder ==
  /\ After("Tunnel") = "Ingress" /\ After("Ingress") = "public" /\ After("public") = "apex"
  /\ After("apex") = "www" /\ After("www") = "Redirect" /\ After("Redirect") = "Token"
  /\ After("Token") = "Id" /\ After("Id") = "Done"
<1>1. /\ Len(Steps) = 9 /\ Steps[1] = "Tunnel" /\ Steps[2] = "Ingress" /\ Steps[3] = "public"
      /\ Steps[4] = "apex" /\ Steps[5] = "www" /\ Steps[6] = "Redirect" /\ Steps[7] = "Token"
      /\ Steps[8] = "Id" /\ Steps[9] = "Done"
  BY DEF Steps
<1>2. \A n \in 1 .. Len(Steps) - 1 : n \in {1, 2, 3, 4, 5, 6, 7, 8}
  BY <1>1
<1>3. \A m, n \in 1 .. Len(Steps) - 1 : Steps[m] = Steps[n] => m = n
  BY <1>1, <1>2
<1>4. ASSUME NEW m \in 1 .. Len(Steps) - 1 PROVE After(Steps[m]) = Steps[1 + m]
  <2>1. (CHOOSE n \in 1 .. Len(Steps) - 1 : Steps[n] = Steps[m]) = m
    BY <1>3
  <2>2. QED
    BY <2>1 DEF After
<1>5. \A m \in 1 .. 8 : After(Steps[m]) = Steps[1 + m]
  BY <1>1, <1>4
<1>6. /\ After(Steps[1]) = Steps[2] /\ After(Steps[2]) = Steps[3] /\ After(Steps[3]) = Steps[4]
      /\ After(Steps[4]) = Steps[5] /\ After(Steps[5]) = Steps[6] /\ After(Steps[6]) = Steps[7]
      /\ After(Steps[7]) = Steps[8] /\ After(Steps[8]) = Steps[9]
  BY <1>5
<1>7. QED
  BY <1>1, <1>6

\* A request that keeps the invariant when it succeeds keeps it when it fails.
LEMMA RequestKeepsEdge ==
  ASSUME EdgeInv, NEW z, NEW s, NEW step, NEW t, EdgeRequest(z, s, step, t),
         IsZone(z), NamesRoute(z), IsSecrets(s), Reached(z, s, step, t)
  PROVE  EdgeInv'
<1>1. CASE zone' = z /\ secrets' = s /\ run' = [step |-> step, tunnel |-> t]
  BY <1>1 DEF EdgeInv
<1>2. CASE /\ run' = [step |-> "Stopped", tunnel |-> Unset]
           /\ (zone' = z /\ secrets' = s) \/ UNCHANGED <<zone, secrets>>
  <2>1. Reached(zone', secrets', "Stopped", Unset)
    BY DEF Reached, AfterTunnel, AfterIngress, AfterPublic, AfterApex, AfterRedirect
  <2>2. IsZone(zone') /\ NamesRoute(zone') /\ IsSecrets(secrets')
    BY <1>2 DEF EdgeInv
  <2>3. QED
    BY <1>2, <2>1, <2>2 DEF EdgeInv
<1>3. QED
  BY <1>1, <1>2 DEF EdgeRequest

\* A step of the script itself.
LEMMA ScriptKeepsEdge ==
  ASSUME EdgeInv, UNCHANGED <<zone, secrets>>,
         NEW step \in {"Stopped", "Refused", "Tunnel"}, run' = [step |-> step, tunnel |-> Unset]
  PROVE  EdgeInv'
<1>1. Reached(zone, secrets, step, Unset)
  BY DEF Reached, AfterTunnel, AfterIngress, AfterPublic, AfterApex, AfterRedirect
<1>2. QED
  BY <1>1 DEF EdgeInv

\* A name that is set to the run's tunnel, which routes: the public one, or
\* another when that is served.
LEMMA AliasKeepsZone ==
  ASSUME EdgeInv, NEW host \in Hosts, run.tunnel \in zone.ingress,
         host = "public" \/ zone.records["public"] = {Alias(run.tunnel)}
  PROVE  /\ IsZone(SetAlias(host)) /\ NamesRoute(SetAlias(host))
         /\ SetAlias(host).records[host] = {Alias(run.tunnel)}
         /\ \A other \in Hosts \ {host} : SetAlias(host).records[other] = zone.records[other]
         /\ SetAlias(host).tunnels = zone.tunnels /\ SetAlias(host).ingress = zone.ingress
         /\ SetAlias(host).redirects = zone.redirects
<1>1. IsZone(zone) /\ NamesRoute(zone)
  BY DEF EdgeInv
<1>2. PICK records : records = [zone.records EXCEPT ![host] = {Alias(run.tunnel)}]
  OBVIOUS
<1>3. /\ records = [h \in Hosts |-> records[h]] /\ records[host] = {Alias(run.tunnel)}
      /\ \A other \in Hosts \ {host} : records[other] = zone.records[other]
  BY <1>1, <1>2 DEF IsZone
<1>4. SetAlias(host) = [zone EXCEPT !.records = records]
  BY <1>1, <1>2 DEF SetAlias, IsZone
<1>5. /\ SetAlias(host).records = records /\ SetAlias(host).tunnels = zone.tunnels
      /\ SetAlias(host).ingress = zone.ingress /\ SetAlias(host).redirects = zone.redirects
      /\ SetAlias(host) = [tunnels |-> zone.tunnels, ingress |-> zone.ingress, records |-> records,
                           redirects |-> zone.redirects]
  BY <1>1, <1>4 DEF IsZone
<1>6. IsZone(SetAlias(host))
  BY <1>1, <1>3, <1>5 DEF IsZone
<1>7. NamesRoute(SetAlias(host))
  <2>1. SetAlias(host).records["public"] = {Alias(run.tunnel)}
    BY <1>3, <1>5 DEF Hosts
  <2>2. PublicServed(SetAlias(host))
    BY <1>5, <2>1 DEF PublicServed
  <2>3. \A t \in Tunnels : Alias(t) \in {Alias(run.tunnel)} => t = run.tunnel
    BY DEF Alias
  <2>4. QED
    BY <1>5, <2>1, <2>2, <2>3 DEF NamesRoute
<1>8. QED
  BY <1>3, <1>5, <1>6, <1>7

\* The tunnel: the one there is, or a new one.
LEMMA TunnelKeepsEdge ==
  ASSUME EdgeInv, RequireTunnel
  PROVE  EdgeInv'
<1>1. /\ IsZone(zone) /\ NamesRoute(zone) /\ IsSecrets(secrets)
  BY DEF EdgeInv
<1>2. CASE Refuse
  BY <1>2, ScriptKeepsEdge DEF Refuse
<1>3. ASSUME NEW t \in zone.tunnels, Cardinality(zone.tunnels) = 1,
             EdgeRequest(zone, secrets, "Ingress", t)
      PROVE  EdgeInv'
  <2>1. t \in Tunnels /\ IsFiniteSet(zone.tunnels)
    BY <1>1 DEF IsZone
  <2>2. zone.tunnels = {t}
    BY <1>3, <2>1, FS_Singleton
  <2>3. Reached(zone, secrets, "Ingress", t)
    BY <2>1, <2>2 DEF Reached, AfterTunnel, AfterIngress, AfterPublic, AfterApex, AfterRedirect
  <2>4. QED
    BY <1>1, <1>3, <2>3, RequestKeepsEdge
<1>4. ASSUME NEW t \in Tunnels \ zone.tunnels, zone.tunnels = {},
             EdgeRequest([zone EXCEPT !.tunnels = @ \cup {t}], secrets, "Ingress", t)
      PROVE  EdgeInv'
  <2>1. PICK z : z = [zone EXCEPT !.tunnels = @ \cup {t}]
    OBVIOUS
  <2>2. /\ z = [tunnels |-> {t}, ingress |-> zone.ingress, records |-> zone.records, redirects |-> zone.redirects]
    BY <1>1, <1>4, <2>1 DEF IsZone
  <2>3. IsFiniteSet({t})
    BY FS_Singleton
  <2>4. IsZone(z)
    BY <1>1, <2>2, <2>3 DEF IsZone
  <2>5. NamesRoute(z)
    BY <1>1, <2>2 DEF NamesRoute, LeadsToTunnel, PublicServed
  <2>6. Reached(z, secrets, "Ingress", t)
    BY <2>2 DEF Reached, AfterTunnel, AfterIngress, AfterPublic, AfterApex, AfterRedirect
  <2>7. QED
    BY <1>1, <1>4, <2>1, <2>4, <2>5, <2>6, RequestKeepsEdge
<1>5. QED
  BY <1>2, <1>3, <1>4, StepsInOrder DEF RequireTunnel, TunnelsFound

\* The ingress of the tunnel.
LEMMA IngressKeepsEdge ==
  ASSUME EdgeInv, ConfigureTunnel
  PROVE  EdgeInv'
<1>1. IsZone(zone) /\ NamesRoute(zone) /\ IsSecrets(secrets)
  BY DEF EdgeInv
<1>2. run.tunnel \in Tunnels /\ zone.tunnels = {run.tunnel}
  BY DEF EdgeInv, Reached, AfterTunnel, ConfigureTunnel
<1>3. PICK z : z = [zone EXCEPT !.ingress = @ \cup {run.tunnel}]
  OBVIOUS
<1>4. z = [tunnels |-> zone.tunnels, ingress |-> zone.ingress \cup {run.tunnel},
           records |-> zone.records, redirects |-> zone.redirects]
  BY <1>1, <1>3 DEF IsZone
<1>5. IsZone(z)
  BY <1>1, <1>2, <1>4 DEF IsZone
<1>6. NamesRoute(z)
  BY <1>1, <1>4 DEF NamesRoute, LeadsToTunnel, PublicServed
<1>7. Reached(z, secrets, "public", run.tunnel)
  BY <1>2, <1>4 DEF Reached, AfterTunnel, AfterIngress, AfterPublic, AfterApex, AfterRedirect
<1>8. EdgeRequest(z, secrets, "public", run.tunnel)
  BY <1>3, StepsInOrder DEF ConfigureTunnel
<1>9. QED
  BY <1>1, <1>5, <1>6, <1>7, <1>8, RequestKeepsEdge

\* What a run at one of the names has reached.
LEMMA AtName ==
  ASSUME EdgeInv, run.step \in Hosts
  PROVE  /\ run.tunnel \in Tunnels /\ zone.tunnels = {run.tunnel} /\ run.tunnel \in zone.ingress
         /\ run.step \in {"apex", "www"} => zone.records["public"] = {Alias(run.tunnel)}
         /\ run.step = "www" => zone.records["apex"] = {Alias(run.tunnel)}
BY DEF EdgeInv, Reached, AfterTunnel, AfterIngress, AfterPublic, AfterApex, Hosts

\* The public name.
LEMMA PublicKeepsEdge ==
  ASSUME EdgeInv, UpsertPublic
  PROVE  EdgeInv'
<1>1. CASE Refuse
  BY <1>1, ScriptKeepsEdge DEF Refuse
<1>2. CASE EdgeRequest(SetAlias("public"), secrets, "apex", run.tunnel)
  <2>1. run.step \in Hosts /\ "public" \in Hosts /\ IsSecrets(secrets)
    BY DEF UpsertPublic, Hosts, EdgeInv
  <2>2. run.tunnel \in Tunnels /\ zone.tunnels = {run.tunnel} /\ run.tunnel \in zone.ingress
    BY <2>1, AtName
  <2>3. /\ IsZone(SetAlias("public")) /\ NamesRoute(SetAlias("public"))
        /\ SetAlias("public").records["public"] = {Alias(run.tunnel)}
        /\ SetAlias("public").tunnels = zone.tunnels /\ SetAlias("public").ingress = zone.ingress
        /\ SetAlias("public").redirects = zone.redirects
    BY <2>1, <2>2, AliasKeepsZone
  <2>4. Reached(SetAlias("public"), secrets, "apex", run.tunnel)
    BY <2>2, <2>3 DEF Reached, AfterTunnel, AfterIngress, AfterPublic, AfterApex, AfterRedirect
  <2>5. QED
    BY <1>2, <2>1, <2>3, <2>4, RequestKeepsEdge
<1>3. QED
  BY <1>1, <1>2, StepsInOrder DEF UpsertPublic

\* The names that replace others: records of another kind leave one by one.
LEMMA ReplacementKeepsEdge ==
  ASSUME EdgeInv, NEW host \in {"apex", "www"}, ReplaceAlias(host)
  PROVE  EdgeInv'
<1>1. /\ IsZone(zone) /\ NamesRoute(zone) /\ IsSecrets(secrets) /\ host \in Hosts /\ run.step = host
  BY DEF EdgeInv, Hosts, ReplaceAlias
<1>2. /\ run.tunnel \in Tunnels /\ zone.tunnels = {run.tunnel} /\ run.tunnel \in zone.ingress
      /\ zone.records["public"] = {Alias(run.tunnel)}
      /\ host = "www" => zone.records["apex"] = {Alias(run.tunnel)}
  BY <1>1, AtName
<1>3. CASE Refuse
  BY <1>3, ScriptKeepsEdge DEF Refuse
<1>4. ASSUME NEW record \in zone.records[host],
             EdgeRequest([zone EXCEPT !.records[host] = @ \ {record}], secrets, host, run.tunnel)
      PROVE  EdgeInv'
  <2>1. PICK records : records = [zone.records EXCEPT ![host] = @ \ {record}]
    OBVIOUS
  <2>2. /\ records = [h \in Hosts |-> records[h]]
        /\ \A h \in Hosts : records[h] \subseteq zone.records[h]
        /\ \A h \in Hosts \ {host} : records[h] = zone.records[h]
    BY <1>1, <2>1 DEF IsZone
  <2>3. PICK z : z = [zone EXCEPT !.records[host] = @ \ {record}]
    OBVIOUS
  <2>4. z = [tunnels |-> zone.tunnels, ingress |-> zone.ingress, records |-> records,
             redirects |-> zone.redirects]
    BY <1>1, <2>1, <2>3 DEF IsZone
  <2>5. IsZone(z)
    BY <1>1, <2>2, <2>4 DEF IsZone
  <2>6. NamesRoute(z)
    <3>1. PublicServed(z)
      BY <1>2, <2>2, <2>4 DEF PublicServed, Hosts
    <3>2. \A t \in Tunnels : Alias(t) \in z.records["public"] => t \in z.ingress
      BY <1>1, <2>2, <2>4 DEF NamesRoute, Hosts
    <3>3. QED
      BY <3>1, <3>2 DEF NamesRoute
  <2>7. Reached(z, secrets, host, run.tunnel)
    BY <1>2, <2>2, <2>4
    DEF Reached, AfterTunnel, AfterIngress, AfterPublic, AfterApex, AfterRedirect, Hosts
  <2>8. QED
    BY <1>1, <1>4, <2>3, <2>5, <2>6, <2>7, RequestKeepsEdge
<1>5. CASE EdgeRequest(SetAlias(host), secrets, After(host), run.tunnel)
  <2>1. /\ IsZone(SetAlias(host)) /\ NamesRoute(SetAlias(host))
        /\ SetAlias(host).records[host] = {Alias(run.tunnel)}
        /\ \A other \in Hosts \ {host} : SetAlias(host).records[other] = zone.records[other]
        /\ SetAlias(host).tunnels = zone.tunnels /\ SetAlias(host).ingress = zone.ingress
        /\ SetAlias(host).redirects = zone.redirects
    BY <1>1, <1>2, AliasKeepsZone
  <2>2. Reached(SetAlias(host), secrets, After(host), run.tunnel)
    BY <1>2, <2>1, StepsInOrder
    DEF Reached, AfterTunnel, AfterIngress, AfterPublic, AfterApex, AfterRedirect, Hosts
  <2>3. QED
    BY <1>1, <1>5, <2>1, <2>2, RequestKeepsEdge
<1>6. QED
  BY <1>3, <1>4, <1>5 DEF ReplaceAlias

\* The redirect rule: the one there is, or a new one.
LEMMA RedirectKeepsEdge ==
  ASSUME EdgeInv, UpsertRedirect
  PROVE  EdgeInv'
<1>1. /\ IsZone(zone) /\ NamesRoute(zone) /\ IsSecrets(secrets) /\ run.step = "Redirect"
      /\ Reached(zone, secrets, "Redirect", run.tunnel)
  BY DEF EdgeInv, UpsertRedirect
<1>2. CASE Refuse
  BY <1>2, ScriptKeepsEdge DEF Refuse
<1>3. CASE /\ ~(zone.redirects > 1)
           /\ EdgeRequest([zone EXCEPT !.redirects = RulesetWith(@)], secrets, "Token", run.tunnel)
  <2>1. PICK z : z = [zone EXCEPT !.redirects = RulesetWith(@)]
    OBVIOUS
  <2>2. RulesetWith(zone.redirects) = 1
    BY <1>1, <1>3 DEF RulesetWith, IsZone
  <2>3. z = [tunnels |-> zone.tunnels, ingress |-> zone.ingress, records |-> zone.records,
             redirects |-> 1]
    BY <1>1, <2>1, <2>2 DEF IsZone
  <2>4. IsZone(z) /\ NamesRoute(z)
    <3>1. IsZone(z)
      BY <1>1, <2>3 DEF IsZone
    <3>2. PublicServed(z)
      BY <1>1, <2>3 DEF PublicServed, Reached, AfterIngress, AfterPublic, AfterApex
    <3>3. QED
      BY <1>1, <2>3, <3>1, <3>2 DEF NamesRoute
  <2>5. Reached(z, secrets, "Token", run.tunnel)
    BY <1>1, <2>3 DEF Reached, AfterTunnel, AfterIngress, AfterPublic, AfterApex, AfterRedirect
  <2>6. QED
    BY <1>1, <1>3, <2>1, <2>4, <2>5, RequestKeepsEdge
<1>4. QED
  BY <1>2, <1>3, StepsInOrder DEF UpsertRedirect

\* The two secrets.
LEMMA SecretsKeepEdge ==
  ASSUME EdgeInv, StoreToken \/ StoreId
  PROVE  EdgeInv'
<1>1. /\ IsZone(zone) /\ NamesRoute(zone) /\ IsSecrets(secrets)
      /\ Reached(zone, secrets, run.step, run.tunnel)
  BY DEF EdgeInv
<1>2. CASE StoreToken
  <2>1. PICK s : s = [secrets EXCEPT !.token = run.tunnel]
    OBVIOUS
  <2>2. s = [token |-> run.tunnel, id |-> secrets.id]
    BY <1>1, <2>1 DEF IsSecrets
  <2>3. IsSecrets(s) /\ Reached(zone, s, "Id", run.tunnel)
    BY <1>1, <1>2, <2>2
    DEF StoreToken, IsSecrets, Reached, AfterTunnel, AfterIngress, AfterPublic, AfterApex, AfterRedirect
  <2>4. EdgeRequest(zone, s, "Id", run.tunnel)
    BY <1>2, <2>1, StepsInOrder DEF StoreToken
  <2>5. QED
    BY <1>1, <2>3, <2>4, RequestKeepsEdge
<1>3. CASE StoreId
  <2>1. PICK s : s = [secrets EXCEPT !.id = run.tunnel]
    OBVIOUS
  <2>2. s = [token |-> secrets.token, id |-> run.tunnel]
    BY <1>1, <2>1 DEF IsSecrets
  <2>3. IsSecrets(s) /\ Reached(zone, s, "Done", run.tunnel)
    BY <1>1, <1>3, <2>2
    DEF StoreId, IsSecrets, Reached, AfterTunnel, AfterIngress, AfterPublic, AfterApex, AfterRedirect
  <2>4. EdgeRequest(zone, s, "Done", run.tunnel)
    BY <1>3, <2>1, StepsInOrder DEF StoreId
  <2>5. QED
    BY <1>1, <2>3, <2>4, RequestKeepsEdge
<1>4. QED
  BY <1>2, <1>3

\* A run that is done has reached everything.
LEMMA DoneHasReached ==
  ASSUME EdgeInv
  PROVE  NamedTunnelRoutes /\ DoneMeansConfigured
<1>1. NamedTunnelRoutes
  BY DEF EdgeInv, NamedTunnelRoutes
<1>2. ASSUME run.step = "Done"
      PROVE  \E t \in Tunnels :
               /\ zone.tunnels = {t} /\ t \in zone.ingress
               /\ \A host \in Hosts : zone.records[host] = {Alias(t)}
               /\ zone.redirects = 1
               /\ secrets = [token |-> t, id |-> t]
  <2>1. Reached(zone, secrets, "Done", run.tunnel) /\ IsSecrets(secrets)
    BY <1>2 DEF EdgeInv
  <2>2. QED
    BY <2>1 DEF IsSecrets, Reached, AfterTunnel, AfterIngress, AfterPublic, AfterApex,
       AfterRedirect, Hosts
<1>3. QED
  BY <1>1, <1>2 DEF DoneMeansConfigured

(***************************************************************************)
(* However often provisioning stops half-way and is run again, on whatever *)
(* the zone held before: the public name leads to no tunnel that does not  *)
(* route it, apex, www and the redirect rule follow only when it is        *)
(* served, and a run that reports success has put everything in place      *)
(* (cloudflare-provisioner.ts, provision).                                 *)
(***************************************************************************)
THEOREM EdgeStaysSound == EdgeSpec => []EdgeSound
<1>1. EdgeInit => EdgeInv
  BY EdgeAssumption
  DEF EdgeInit, EdgeInv, IsSecrets, Reached, AfterTunnel, AfterIngress, AfterPublic, AfterApex, AfterRedirect
<1>2. EdgeInv /\ [EdgeNext]_edgeVars => EdgeInv'
  <2> SUFFICES ASSUME EdgeInv, [EdgeNext]_edgeVars
               PROVE  EdgeInv'
    OBVIOUS
  <2>1. CASE StartRun
    BY <2>1, ScriptKeepsEdge DEF StartRun, Steps
  <2>2. CASE RunAgain
    BY <2>2, ScriptKeepsEdge DEF RunAgain
  <2>3. CASE UNCHANGED edgeVars
    BY <2>3 DEF edgeVars, EdgeInv
  <2>4. QED
    BY <2>1, <2>2, <2>3, TunnelKeepsEdge, IngressKeepsEdge, PublicKeepsEdge, ReplacementKeepsEdge,
       RedirectKeepsEdge, SecretsKeepEdge DEF EdgeNext
<1>3. EdgeInv => EdgeSound
  BY DoneHasReached DEF EdgeSound
<1>4. QED
  BY <1>1, <1>2, <1>3, PTL DEF EdgeSpec

-----------------------------------------------------------------------------
(***************************************************************************)
(* Storage keys: the keys of a role at the provider, its secrets, and what *)
(* the run holds.                                                          *)
(***************************************************************************)
Pair == [id : StorageKeyIds \cup {Absent}, key : StorageKeyIds \cup {Absent}]
Env == [PlanNames -> Pair]
NoSecrets == [id |-> Absent, key |-> Absent]

BothStored(p) == Absent \notin {doppler[p].id, doppler[p].key}
Live(p) == {k \in StorageKeyIds : stored[k] = p}
Works(p) == BothStored(p) => doppler[p].id = doppler[p].key /\ stored[doppler[p].id] = p

\* Roles before the n-th have their secrets; of those after it the run knows.
Passed(e, n) ==
  /\ lifecycle = OthersRules \cup {Retention}
  /\ n = 2 => BothStored("api")
  /\ n = 1 => doppler["worker"] = e["worker"]

Creates(e, n) ==
  provision = [step |-> "Plan", env |-> e, number |-> n] /\ doppler[Plans[n]] = e[Plans[n]]

Stores(e, n, k) ==
  /\ stored[k] = Plans[n]
  /\ \/ /\ provision = [step |-> "StoreId", env |-> e, number |-> n, created |-> k]
        /\ doppler[Plans[n]] = NoSecrets
     \/ /\ provision = [step |-> "StoreKey", env |-> e, number |-> n, created |-> k]
        /\ doppler[Plans[n]] = [id |-> k, key |-> Absent]

\* After one fault, the store's, the compensation does all it is there for.
Compensates(e, n, k, todo) ==
  /\ provision = [step |-> "Compensate", env |-> e, todo |-> todo, number |-> n, created |-> k]
  /\ provisionFaults >= 1
  /\ "key" \in todo => stored[k] = Plans[n]
  /\ provisionFaults = 1 /\ "secrets" \notin todo => doppler[Plans[n]] = NoSecrets

RunReached ==
  \/ provision \in [step : {"Stopped", "Refused"}]
  \/ /\ provision = [step |-> "Done"] /\ lifecycle = OthersRules \cup {Retention}
     /\ BothStored("api") /\ BothStored("worker")
  \/ provision = [step |-> "Lifecycle", env |-> doppler]
  \/ \E e \in Env, n \in {1, 2} :
       /\ Passed(e, n)
       /\ \/ Creates(e, n)
          \/ \E k \in StorageKeyIds :
               \/ Stores(e, n, k)
               \/ \E todo \in SUBSET {"key", "secrets"} : Compensates(e, n, k, todo)

\* A run holds a key of p from its creation to the end of the compensation.
Holding(p) ==
  provision.step \in {"StoreId", "StoreKey", "Compensate"} /\ Plans[provision.number] = p

Credit(p) ==
  IF Holding(p) THEN (IF provision.step = "Compensate" /\ "key" \notin provision.todo THEN 0 ELSE 1)
  ELSE IF BothStored(p) THEN 1 ELSE 0

StorageType ==
  /\ stored \in [StorageKeyIds -> PlanNames \cup {Nobody}] /\ doppler \in Env
  /\ lifecycle \in {OthersRules, OthersRules \cup {Retention}} /\ provisionFaults \in Nat

PairsWork == \A p \in PlanNames : provisionFaults <= 1 /\ ~Holding(p) => Works(p)

\* Every key of a role but the one in use, or at work on, took a fault.
KeysCounted == \A p \in PlanNames : Cardinality(Live(p)) <= provisionFaults + Credit(p)

StorageInv == StorageType /\ RunReached /\ PairsWork /\ KeysCounted

-----------------------------------------------------------------------------
\* The two roles.
LEMMA PlansAreTwo ==
  /\ Plans[1] = "api" /\ Plans[2] = "worker" /\ Len(Plans) = 2
  /\ \A n \in {1, 2} : Plans[n] \in PlanNames
  /\ \A p \in PlanNames : p # Nobody
BY DEF Plans, PlanNames, Nobody

\* A run that holds nothing.
LEMMA HoldsNothing ==
  ASSUME provision.step \notin {"StoreId", "StoreKey", "Compensate"}
  PROVE  \A p : ~Holding(p) /\ Credit(p) = (IF BothStored(p) THEN 1 ELSE 0)
BY DEF Holding, Credit

\* A role counts for one key at most.
LEMMA CreditBounded == \A p : Credit(p) \in {0, 1}
BY DEF Credit

\* The keys of a role are finitely many.
LEMMA LiveFinite == \A p : IsFiniteSet(Live(p)) /\ Cardinality(Live(p)) \in Nat
<1> SUFFICES ASSUME NEW p PROVE IsFiniteSet(Live(p)) /\ Cardinality(Live(p)) \in Nat
  OBVIOUS
<1>1. Live(p) \subseteq StorageKeyIds
  BY DEF Live
<1>2. QED
  BY <1>1, StorageKeysAssumption, FS_Subset, FS_CardinalityType

\* A key that is created is one more of its role, and of no pair.
LEMMA KeyAppears ==
  ASSUME StorageInv, NEW p \in PlanNames, NEW k \in StorageKeyIds, stored[k] = Nobody,
         doppler' = doppler, stored' \in {stored, [stored EXCEPT ![k] = p]}
  PROVE  /\ stored' \in [StorageKeyIds -> PlanNames \cup {Nobody}]
         /\ \A q \in PlanNames : Works(q) => Works(q)'
         /\ \A q \in PlanNames \ {p} : Cardinality(Live(q)') = Cardinality(Live(q))
         /\ Cardinality(Live(p)') <= Cardinality(Live(p)) + 1
<1>1. StorageType /\ p # Nobody
  BY PlansAreTwo DEF StorageInv
<1>2. stored' \in [StorageKeyIds -> PlanNames \cup {Nobody}]
  BY <1>1 DEF StorageType
<1>3. \A j \in StorageKeyIds \ {k} : stored'[j] = stored[j]
  BY <1>1 DEF StorageType
<1>4. \A j \in StorageKeyIds, q \in PlanNames : stored[j] = q => stored'[j] = q
  BY <1>3, PlansAreTwo
<1>5. \A q \in PlanNames : Works(q) => Works(q)'
  <2> SUFFICES ASSUME NEW q \in PlanNames, Works(q), BothStored(q)
               PROVE  doppler[q].id = doppler[q].key /\ stored'[doppler[q].id] = q
    BY DEF Works, BothStored
  <2>1. doppler[q].id \in StorageKeyIds
    BY <1>1 DEF StorageType, Env, Pair, BothStored
  <2>2. QED
    BY <1>4, <2>1 DEF Works
<1>6. \A q \in PlanNames \ {p} : Live(q)' = Live(q)
  <2>1. \A q \in PlanNames \ {p} : stored'[k] # q /\ stored[k] # q
    BY <1>1, PlansAreTwo DEF StorageType
  <2>2. QED
    BY <1>3, <2>1 DEF Live
<1>7. Cardinality(Live(p)') <= Cardinality(Live(p)) + 1
  <2>1. k \notin Live(p) /\ (Live(p)' = Live(p) \/ Live(p)' = Live(p) \cup {k})
    BY <1>1, <1>3 DEF Live, StorageType
  <2>2. IsFiniteSet(Live(p)) /\ Cardinality(Live(p)) \in Nat
    BY LiveFinite
  <2>3. Cardinality(Live(p) \cup {k}) = Cardinality(Live(p)) + 1
    BY <2>1, <2>2, FS_AddElement
  <2>4. CASE Live(p)' = Live(p)
    BY <2>2, <2>4
  <2>5. CASE Live(p)' = Live(p) \cup {k}
    BY <2>2, <2>3, <2>5
  <2>6. QED
    BY <2>1, <2>4, <2>5
<1>8. QED
  BY <1>2, <1>5, <1>6, <1>7

\* A key that is deleted is one less of its role, and of no other's pair.
LEMMA KeyLeaves ==
  ASSUME StorageInv, NEW p \in PlanNames, NEW k \in StorageKeyIds,
         stored' = stored \/ stored' = [stored EXCEPT ![k] = Nobody],
         stored[k] \in {p, Nobody}
  PROVE  /\ stored' \in [StorageKeyIds -> PlanNames \cup {Nobody}]
         /\ \A q \in PlanNames \ {p} : doppler'[q] = doppler[q] /\ Works(q) => Works(q)'
         /\ \A q \in PlanNames \ {p} : Cardinality(Live(q)') = Cardinality(Live(q))
         /\ Cardinality(Live(p)') <= Cardinality(Live(p))
         /\ stored[k] = p /\ stored' = [stored EXCEPT ![k] = Nobody]
              => Cardinality(Live(p)') = Cardinality(Live(p)) - 1
<1>1. StorageType /\ p # Nobody
  BY PlansAreTwo DEF StorageInv
<1>2. stored' \in [StorageKeyIds -> PlanNames \cup {Nobody}]
  BY <1>1 DEF StorageType
<1>3. /\ \A j \in StorageKeyIds \ {k} : stored'[j] = stored[j]
      /\ stored'[k] = stored[k] \/ stored'[k] = Nobody
  BY <1>1 DEF StorageType
<1>4. \A j \in StorageKeyIds, q \in PlanNames \ {p} : stored[j] = q <=> stored'[j] = q
  <2>1. \A q \in PlanNames \ {p} : stored'[k] # q /\ stored[k] # q
    BY <1>3, PlansAreTwo
  <2>2. QED
    BY <1>3, <2>1
<1>5. \A q \in PlanNames \ {p} : doppler'[q] = doppler[q] /\ Works(q) => Works(q)'
  <2> SUFFICES ASSUME NEW q \in PlanNames \ {p}, doppler'[q] = doppler[q], Works(q), BothStored(q)
               PROVE  doppler[q].id = doppler[q].key /\ stored'[doppler[q].id] = q
    BY DEF Works, BothStored
  <2>1. doppler[q].id \in StorageKeyIds
    BY <1>1 DEF StorageType, Env, Pair, BothStored
  <2>2. QED
    BY <1>4, <2>1 DEF Works
<1>6. \A q \in PlanNames \ {p} : Live(q)' = Live(q)
  BY <1>4 DEF Live
<1>7. IsFiniteSet(Live(p)) /\ Cardinality(Live(p)) \in Nat
  BY LiveFinite
<1>8. ASSUME stored[k] = p, stored' = [stored EXCEPT ![k] = Nobody]
      PROVE  Cardinality(Live(p)') = Cardinality(Live(p)) - 1
  <2>1. k \in Live(p) /\ Live(p)' = Live(p) \ {k}
    BY <1>1, <1>8 DEF Live, StorageType
  <2>2. QED
    BY <1>7, <2>1, FS_RemoveElement
<1>9. Cardinality(Live(p)') <= Cardinality(Live(p))
  <2>1. CASE Live(p)' = Live(p)
    BY <1>7, <2>1
  <2>2. CASE stored[k] = p /\ stored' = [stored EXCEPT ![k] = Nobody]
    BY <1>7, <1>8, <2>2
  <2>3. Live(p)' = Live(p) \/ (stored[k] = p /\ stored' = [stored EXCEPT ![k] = Nobody])
    BY <1>1, <1>3 DEF Live
  <2>4. QED
    BY <2>1, <2>2, <2>3
<1>10. QED
  BY <1>2, <1>5, <1>6, <1>8, <1>9

\* A run that is at a plan, or beyond.
LEMMA RunAt ==
  ASSUME RunReached
  PROVE  /\ provision.step = "Lifecycle" => provision.env = doppler
         /\ provision.step = "Done" => /\ lifecycle = OthersRules \cup {Retention}
                                       /\ BothStored("api") /\ BothStored("worker")
         /\ provision.step = "Plan" => \E e \in Env, n \in {1, 2} : Passed(e, n) /\ Creates(e, n)
         /\ provision.step \in {"StoreId", "StoreKey"} =>
              \E e \in Env, n \in {1, 2}, k \in StorageKeyIds : Passed(e, n) /\ Stores(e, n, k)
         /\ provision.step = "Compensate" =>
              \E e \in Env, n \in {1, 2}, k \in StorageKeyIds, todo \in SUBSET {"key", "secrets"} :
                Passed(e, n) /\ Compensates(e, n, k, todo)
<1>1. CASE \/ provision \in [step : {"Stopped", "Refused"}]
           \/ /\ provision = [step |-> "Done"] /\ lifecycle = OthersRules \cup {Retention}
              /\ BothStored("api") /\ BothStored("worker")
           \/ provision = [step |-> "Lifecycle", env |-> doppler]
  BY <1>1
<1>2. ASSUME NEW e \in Env, NEW n \in {1, 2}, Passed(e, n), Creates(e, n)
      PROVE  provision.step = "Plan"
  BY <1>2 DEF Creates
<1>3. ASSUME NEW e \in Env, NEW n \in {1, 2}, NEW k \in StorageKeyIds, Passed(e, n), Stores(e, n, k)
      PROVE  provision.step \in {"StoreId", "StoreKey"}
  BY <1>3 DEF Stores
<1>4. ASSUME NEW e \in Env, NEW n \in {1, 2}, NEW k \in StorageKeyIds,
             NEW todo \in SUBSET {"key", "secrets"}, Passed(e, n), Compensates(e, n, k, todo)
      PROVE  provision.step = "Compensate"
  BY <1>4 DEF Compensates
<1>5. QED
  BY <1>1, <1>2, <1>3, <1>4 DEF RunReached

\* A run that stops at a fault leaves at most half a pair.
LEMMA FaultStops ==
  ASSUME StorageInv, provisionFaults' = provisionFaults + 1, provision' = [step |-> "Stopped"],
         UNCHANGED <<stored, doppler>>,
         lifecycle' \in {OthersRules, OthersRules \cup {Retention}}
  PROVE  StorageInv'
<1>1. StorageType /\ RunReached /\ PairsWork /\ KeysCounted
  BY DEF StorageInv
<1>2. StorageType' /\ RunReached'
  BY <1>1 DEF StorageType, RunReached
<1>3. PairsWork'
  <2> SUFFICES ASSUME NEW p \in PlanNames, provisionFaults + 1 <= 1 PROVE Works(p)
    BY DEF PairsWork, Works, BothStored
  <2>1. provisionFaults = 0
    BY <1>1 DEF StorageType
  <2>2. CASE ~Holding(p)
    BY <1>1, <2>1, <2>2 DEF PairsWork
  <2>3. CASE Holding(p)
    <3>1. provision.step # "Compensate"
      BY <1>1, <2>1, RunAt DEF Compensates
    <3>2. PICK e \in Env, n \in {1, 2}, k \in StorageKeyIds : Stores(e, n, k)
      BY <1>1, <2>3, <3>1, RunAt DEF Holding
    <3>3. Plans[n] = p
      BY <2>3, <3>2 DEF Holding, Stores
    <3>4. doppler[p].key = Absent
      BY <3>2, <3>3 DEF Stores, NoSecrets
    <3>5. QED
      BY <3>4 DEF Works, BothStored
  <2>4. QED
    BY <2>2, <2>3
<1>4. KeysCounted'
  <2> SUFFICES ASSUME NEW p \in PlanNames
               PROVE  Cardinality(Live(p)') <= provisionFaults' + Credit(p)'
    BY DEF KeysCounted
  <2>1. Live(p)' = Live(p)
    BY DEF Live
  <2>2. /\ Cardinality(Live(p)) <= provisionFaults + Credit(p) /\ Credit(p) \in {0, 1}
        /\ Credit(p)' \in {0, 1} /\ Cardinality(Live(p)) \in Nat
    BY <1>1, CreditBounded, LiveFinite DEF KeysCounted, Credit
  <2>3. provisionFaults \in Nat
    BY <1>1 DEF StorageType
  <2>4. QED
    BY <2>1, <2>2, <2>3
<1>5. QED
  BY <1>2, <1>3, <1>4 DEF StorageInv

\* Steps that write neither keys nor secrets and hold nothing before or after.
LEMMA QuietRun ==
  ASSUME StorageInv, UNCHANGED <<stored, doppler, provisionFaults>>, StorageType', RunReached',
         provision.step \notin {"StoreId", "StoreKey", "Compensate"},
         provision'.step \notin {"StoreId", "StoreKey", "Compensate"}
  PROVE  StorageInv'
<1>1. PairsWork'
  BY HoldsNothing DEF StorageInv, PairsWork, Works, BothStored, Holding
<1>2. KeysCounted'
  <2>1. \A p \in PlanNames : Credit(p)' = Credit(p) /\ Live(p)' = Live(p)
    BY DEF Credit, Holding, BothStored, Live
  <2>2. QED
    BY <2>1 DEF StorageInv, KeysCounted
<1>3. QED
  BY <1>1, <1>2 DEF StorageInv

\* The plan after n, or the end of the run.
LEMMA NextPlanReached ==
  ASSUME StorageType, NEW e \in Env, NEW n \in {1, 2}, Passed(e, n), NEW env, env = e,
         lifecycle' = lifecycle, doppler' \in Env, BothStored(Plans[n])',
         \A p \in PlanNames \ {Plans[n]} : doppler'[p] = doppler[p],
         provision' = (IF n = 2 THEN [step |-> "Done"]
                       ELSE [step |-> "Plan", env |-> env, number |-> n + 1])
  PROVE  RunReached' /\ provision'.step \notin {"StoreId", "StoreKey", "Compensate"}
<1>1. CASE n = 2
  <2>1. provision' = [step |-> "Done"]
    BY <1>1
  <2>2. BothStored("api")' /\ BothStored("worker")'
    BY <1>1, PlansAreTwo DEF Passed, BothStored, PlanNames
  <2>3. QED
    BY <2>1, <2>2 DEF RunReached, Passed
<1>2. CASE n = 1
  <2>1. provision' = [step |-> "Plan", env |-> e, number |-> 2]
    BY <1>2
  <2>2. doppler'["worker"] = e["worker"]
    BY <1>2, PlansAreTwo DEF Passed, PlanNames
  <2>3. BothStored("api")'
    BY <1>2, PlansAreTwo
  <2>4. Passed(e, 2)' /\ Creates(e, 2)'
    BY <2>1, <2>2, <2>3, PlansAreTwo DEF Passed, Creates
  <2>5. QED
    BY <2>1, <2>4 DEF RunReached
<1>3. QED
  BY <1>1, <1>2

-----------------------------------------------------------------------------
\* The run starts, and configures the bucket.
LEMMA BucketKeeps ==
  ASSUME StorageInv, StartProvision \/ ConfigureLifecycle
  PROVE  StorageInv'
<1>1. StorageType /\ RunReached
  BY DEF StorageInv
<1>2. CASE StartProvision
  <2>1. provision' = [step |-> "Lifecycle", env |-> doppler] /\ provision.step = "Stopped"
        /\ UNCHANGED <<stored, doppler, lifecycle, provisionFaults>>
    BY <1>2 DEF StartProvision
  <2>2. StorageType' /\ RunReached'
    BY <1>1, <2>1 DEF StorageType, RunReached
  <2>3. QED
    BY <2>1, <2>2, QuietRun
<1>3. CASE ConfigureLifecycle
  <2>1. /\ provision.step = "Lifecycle" /\ UNCHANGED <<stored, doppler>>
        /\ RulesWith(lifecycle) = OthersRules \cup {Retention}
    BY <1>1, <1>3 DEF ConfigureLifecycle, RulesWith, StorageType
  <2>2. CASE /\ lifecycle' \in {lifecycle, RulesWith(lifecycle)} /\ ProvisionFault /\ Stop
    BY <1>1, <2>1, <2>2, FaultStops DEF StorageType, ProvisionFault, Stop
  <2>3. CASE /\ lifecycle' = RulesWith(lifecycle) /\ NoFault
             /\ provision' = [step |-> "Plan", env |-> provision.env, number |-> 1]
    <3>1. provision.env = doppler
      BY <1>1, <2>1, RunAt
    <3>2. StorageType' /\ doppler \in Env
      BY <1>1, <2>1, <2>3 DEF StorageType, NoFault
    <3>3. Passed(doppler, 1)' /\ Creates(doppler, 1)'
      BY <2>1, <2>3, <3>1 DEF Passed, Creates
    <3>4. \E e \in Env : Passed(e, 1)' /\ Creates(e, 1)'
      <4>1. PICK e \in Env : e = doppler
        BY <3>2
      <4>2. Passed(e, 1)' /\ Creates(e, 1)'
        BY <2>1, <2>3, <3>1, <4>1 DEF Passed, Creates
      <4>3. QED
        BY <4>2
    <3>5. RunReached'
      BY <3>4 DEF RunReached
    <3>6. QED
      BY <2>1, <2>3, <3>2, <3>5, QuietRun DEF NoFault
  <2>4. QED
    BY <1>3, <2>2, <2>3 DEF ConfigureLifecycle
<1>4. QED
  BY <1>2, <1>3

\* A key is created for a role without secrets, or its answer is lost.
LEMMA CreateKeeps ==
  ASSUME StorageInv, CreateStorageKey
  PROVE  StorageInv'
<1>1. /\ StorageType /\ RunReached /\ PairsWork /\ KeysCounted
      /\ provision.step = "Plan" /\ UNCHANGED <<doppler, lifecycle>>
  BY DEF StorageInv, CreateStorageKey
<1>2. PICK e \in Env, n \in {1, 2} : Passed(e, n) /\ Creates(e, n)
  BY <1>1, RunAt
<1>3. PICK p \in PlanNames : p = Plans[n]
  BY PlansAreTwo
<1>4. /\ provision.env = e /\ provision.number = n /\ Current = p /\ doppler[p] = e[p]
      /\ provision = [step |-> "Plan", env |-> e, number |-> n]
  BY <1>2, <1>3 DEF Creates, Current
<1>5. doppler[p] \in Pair /\ doppler \in Env
  BY <1>1 DEF StorageType, Env
<1>6. CASE Configured /\ NextPlan /\ NoFault /\ UNCHANGED stored
  <2>1. BothStored(p)
    BY <1>4, <1>6 DEF Configured, InEnvironment, BothStored
  <2>2. provision' = (IF n = 2 THEN [step |-> "Done"]
                      ELSE [step |-> "Plan", env |-> e, number |-> n + 1])
    BY <1>4, <1>6, PlansAreTwo DEF NextPlan
  <2>3. BothStored(Plans[n])'
    BY <1>1, <1>3, <2>1 DEF BothStored
  <2>4. /\ RunReached' /\ provision'.step \notin {"StoreId", "StoreKey", "Compensate"}
    BY <1>1, <1>2, <1>5, <2>2, <2>3, NextPlanReached
  <2>5. StorageType'
    BY <1>1, <1>6 DEF StorageType, NoFault
  <2>6. QED
    BY <1>1, <1>6, <2>4, <2>5, QuietRun DEF NoFault
<1>7. CASE provision' = [step |-> "Refused"] /\ NoFault /\ UNCHANGED stored
  <2>1. StorageType' /\ RunReached'
    BY <1>1, <1>7 DEF StorageType, RunReached, NoFault
  <2>2. QED
    BY <1>1, <1>7, <2>1, QuietRun DEF NoFault
<1>8. ASSUME NEW k \in StorageKeyIds, stored[k] = Nobody, ~Configured,
             InEnvironment("id") = InEnvironment("key"),
             stored' \in {stored, [stored EXCEPT ![k] = p]},
             \/ /\ stored' = [stored EXCEPT ![k] = p] /\ NoFault
                /\ provision' = [step |-> "StoreId", env |-> e, number |-> n, created |-> k]
             \/ ProvisionFault /\ Stop
      PROVE  StorageInv'
  <2>1. doppler[p] = NoSecrets
    BY <1>4, <1>5, <1>8 DEF Configured, InEnvironment, NoSecrets, Pair
  <2>2. /\ stored' \in [StorageKeyIds -> PlanNames \cup {Nobody}]
        /\ \A q \in PlanNames : Works(q) => Works(q)'
        /\ \A q \in PlanNames \ {p} : Cardinality(Live(q)') = Cardinality(Live(q))
        /\ Cardinality(Live(p)') <= Cardinality(Live(p)) + 1
    BY <1>1, <1>8, KeyAppears
  <2>3. \A q : ~Holding(q) /\ Credit(q) = (IF BothStored(q) THEN 1 ELSE 0)
    BY <1>1, HoldsNothing
  <2>4. \A q \in PlanNames : provisionFaults <= 1 => Works(q)
    BY <1>1, <2>3 DEF PairsWork
  <2>5. ~BothStored(p) /\ Credit(p) = 0
    BY <2>1, <2>3 DEF BothStored, NoSecrets
  <2>6. \A q \in PlanNames : /\ Cardinality(Live(q)) \in Nat /\ Cardinality(Live(q)') \in Nat
                             /\ Cardinality(Live(q)) <= provisionFaults + Credit(q)
    <3>1. \A q : Cardinality(Live(q)') \in Nat
      BY StorageKeysAssumption, FS_Subset, FS_CardinalityType DEF Live
    <3>2. QED
      BY <1>1, <3>1, LiveFinite DEF KeysCounted
  <2>7. provisionFaults \in Nat
    BY <1>1 DEF StorageType
  <2>8. CASE /\ stored' = [stored EXCEPT ![k] = p] /\ NoFault
             /\ provision' = [step |-> "StoreId", env |-> e, number |-> n, created |-> k]
    <3>1. StorageType'
      BY <1>1, <2>2, <2>8 DEF StorageType, NoFault
    <3>2. stored'[k] = p
      BY <1>1, <2>8 DEF StorageType
    <3>3. Passed(e, n)' /\ Stores(e, n, k)'
      BY <1>1, <1>2, <1>3, <2>1, <2>8, <3>2 DEF Passed, Stores, BothStored
    <3>4. RunReached'
      BY <3>3 DEF RunReached
    <3>5. PairsWork'
      BY <2>2, <2>4, <2>8 DEF PairsWork, NoFault
    <3>6. ASSUME NEW q \in PlanNames PROVE Cardinality(Live(q)') <= provisionFaults' + Credit(q)'
      <4>1. CASE q = p
        <5>1. Holding(p)' /\ Credit(p)' = 1
          BY <1>3, <2>8 DEF Holding, Credit
        <5>2. Cardinality(Live(p)') <= provisionFaults + 1
          BY <2>2, <2>5, <2>6, <2>7
        <5>3. QED
          BY <2>8, <4>1, <5>1, <5>2 DEF NoFault
      <4>2. CASE q # p
        <5>1. ~Holding(q)' /\ BothStored(q)' = BothStored(q)
          BY <1>1, <1>3, <2>8, <4>2 DEF Holding, BothStored
        <5>2. Credit(q)' = Credit(q)
          BY <2>3, <5>1 DEF Credit
        <5>3. Cardinality(Live(q)') = Cardinality(Live(q))
          BY <2>2, <4>2
        <5>4. QED
          BY <2>6, <2>8, <5>2, <5>3 DEF NoFault
      <4>3. QED
        BY <4>1, <4>2
    <3>7. KeysCounted'
      BY <3>6 DEF KeysCounted
    <3>8. QED
      BY <3>1, <3>4, <3>5, <3>7 DEF StorageInv
  <2>9. CASE ProvisionFault /\ Stop
    <3>1. StorageType' /\ RunReached'
      BY <1>1, <2>2, <2>9 DEF StorageType, RunReached, ProvisionFault, Stop
    <3>2. PairsWork'
      BY <2>2, <2>4, <2>7, <2>9 DEF PairsWork, ProvisionFault
    <3>3. ASSUME NEW q \in PlanNames PROVE Cardinality(Live(q)') <= provisionFaults' + Credit(q)'
      <4>1. ~Holding(q)' /\ BothStored(q)' = BothStored(q)
        BY <1>1, <2>9 DEF Holding, BothStored, Stop
      <4>2. Credit(q)' = Credit(q) /\ Credit(q) \in {0, 1}
        BY <2>3, <4>1, CreditBounded DEF Credit
      <4>3. Cardinality(Live(q)') <= Cardinality(Live(q)) + 1
        <5>1. CASE q = p
          BY <2>2, <5>1
        <5>2. CASE q # p
          <6>1. Cardinality(Live(q)') = Cardinality(Live(q))
            BY <2>2, <5>2
          <6>2. QED
            BY <2>6, <6>1
        <5>3. QED
          BY <5>1, <5>2
      <4>4. /\ Cardinality(Live(q)) \in Nat /\ Cardinality(Live(q)') \in Nat
            /\ Cardinality(Live(q)) <= provisionFaults + Credit(q)
        BY <2>6
      <4>5. provisionFaults' = provisionFaults + 1
        BY <2>9 DEF ProvisionFault
      <4>6. QED
        BY <2>7, <4>2, <4>3, <4>4, <4>5
    <3>4. KeysCounted'
      BY <3>3 DEF KeysCounted
    <3>5. QED
      BY <3>1, <3>2, <3>4 DEF StorageInv
  <2>10. QED
    BY <1>8, <2>8, <2>9
<1>9. QED
  BY <1>4, <1>6, <1>7, <1>8 DEF CreateStorageKey

\* One of the two secrets of the key is stored, or the store fails.
LEMMA StoreKeeps ==
  ASSUME StorageInv, StoreSecrets
  PROVE  StorageInv'
<1>1. /\ StorageType /\ RunReached /\ PairsWork /\ KeysCounted
      /\ provision.step \in {"StoreId", "StoreKey"} /\ UNCHANGED <<stored, lifecycle>>
  BY DEF StorageInv, StoreSecrets, StoreSecret
<1>2. PICK e \in Env, n \in {1, 2}, k \in StorageKeyIds : Passed(e, n) /\ Stores(e, n, k)
  BY <1>1, RunAt
<1>3. PICK p \in PlanNames : p = Plans[n]
  BY PlansAreTwo
<1>4. /\ provision.env = e /\ provision.number = n /\ provision.created = k /\ Current = p
      /\ stored[k] = p /\ k # Absent
  BY <1>2, <1>3, StorageKeysAssumption DEF Stores, Current, Absent
<1>5. /\ Holding(p) /\ Credit(p) = 1 /\ \A q \in PlanNames \ {p} : ~Holding(q)
  BY <1>1, <1>3, <1>4 DEF Holding, Credit
<1>6. \A q : Cardinality(Live(q)) \in Nat /\ Live(q)' = Live(q)
  BY <1>1, LiveFinite DEF Live
<1>7. provisionFaults \in Nat /\ doppler \in Env
  BY <1>1 DEF StorageType
<1>8. PICK secret \in {"id", "key"} :
        \/ secret = "id" /\ provision.step = "StoreId" /\ StoreSecret("StoreId", "id", "StoreKey")
        \/ secret = "key" /\ provision.step = "StoreKey" /\ StoreSecret("StoreKey", "key", "Plan")
  BY DEF StoreSecrets, StoreSecret
<1>9. PICK after : after = [doppler EXCEPT ![p][secret] = k]
  OBVIOUS
<1>10. PICK pair : pair = after[p]
  OBVIOUS
<1>11. /\ after \in Env /\ pair \in Pair
       /\ \A q \in PlanNames \ {p} : after[q] = doppler[q]
  BY <1>7, <1>9, <1>10 DEF Env, Pair
<1>12. /\ provision.step = "StoreId" => pair = [id |-> k, key |-> Absent]
       /\ provision.step = "StoreKey" => pair = [id |-> k, key |-> k]
  <2>1. doppler[p] \in Pair
    BY <1>7 DEF Env
  <2>2. pair = [doppler[p] EXCEPT ![secret] = k]
    BY <1>7, <1>9, <1>10 DEF Env
  <2>3. /\ provision.step = "StoreId" => doppler[p] = NoSecrets
        /\ provision.step = "StoreKey" => doppler[p] = [id |-> k, key |-> Absent]
    BY <1>2, <1>3 DEF Stores
  <2>4. CASE provision.step = "StoreId"
    BY <1>8, <2>2, <2>3, <2>4 DEF NoSecrets
  <2>5. CASE provision.step = "StoreKey"
    BY <1>8, <2>2, <2>3, <2>5
  <2>6. QED
    BY <1>1, <2>4, <2>5
<1>13. doppler' \in {doppler, after}
  BY <1>4, <1>8, <1>9 DEF StoreSecret
<1>14. /\ doppler' \in Env /\ \A q \in PlanNames \ {p} : doppler'[q] = doppler[q]
  BY <1>7, <1>11, <1>13
<1>15. \A q \in PlanNames \ {p} : /\ provisionFaults <= 1 => Works(q)
                                  /\ Works(q) => Works(q)'
                                  /\ BothStored(q)' = BothStored(q)
                                  /\ Cardinality(Live(q)) <= provisionFaults + Credit(q)
                                  /\ Credit(q) = (IF BothStored(q) THEN 1 ELSE 0)
  BY <1>1, <1>5, <1>14 DEF PairsWork, Works, BothStored, KeysCounted, Credit
<1>16. Cardinality(Live(p)) <= provisionFaults + 1
  BY <1>1, <1>5 DEF KeysCounted
<1>17. Passed(e, n)'
  BY <1>1, <1>2, <1>3, <1>14, PlansAreTwo DEF Passed, BothStored, PlanNames
<1>18. CASE /\ provision.step = "StoreId" /\ doppler' = after /\ NoFault
            /\ provision' = [provision EXCEPT !.step = "StoreKey"]
  <2>1. provision' = [step |-> "StoreKey", env |-> e, number |-> n, created |-> k]
    BY <1>2, <1>18 DEF Stores
  <2>2. Stores(e, n, k)'
    BY <1>1, <1>3, <1>4, <1>10, <1>12, <1>18, <2>1 DEF Stores
  <2>3. StorageType' /\ RunReached'
    BY <1>1, <1>14, <1>17, <1>18, <2>2 DEF StorageType, RunReached, NoFault
  <2>4. Holding(p)' /\ Credit(p)' = 1 /\ \A q \in PlanNames \ {p} : ~Holding(q)'
    BY <1>3, <2>1 DEF Holding, Credit
  <2>5. PairsWork'
    BY <1>15, <1>18, <2>4 DEF PairsWork, NoFault
  <2>6. KeysCounted'
    BY <1>6, <1>15, <1>16, <1>18, <2>4 DEF KeysCounted, NoFault, Credit
  <2>7. QED
    BY <2>3, <2>5, <2>6 DEF StorageInv
<1>19. CASE provision.step = "StoreKey" /\ doppler' = after /\ NoFault /\ NextPlan
  <2>1. provision' = (IF n = 2 THEN [step |-> "Done"]
                      ELSE [step |-> "Plan", env |-> e, number |-> n + 1])
    BY <1>4, <1>19, PlansAreTwo DEF NextPlan
  <2>2. doppler'[p] = [id |-> k, key |-> k]
    BY <1>10, <1>12, <1>19
  <2>3. BothStored(p)' /\ Works(p)'
    BY <1>1, <1>4, <2>2 DEF BothStored, Works
  <2>4. BothStored(Plans[n])'
    BY <1>3, <2>2, <1>4 DEF BothStored
  <2>5. RunReached' /\ provision'.step \notin {"StoreId", "StoreKey", "Compensate"}
    BY <1>1, <1>2, <1>3, <1>14, <2>1, <2>4, NextPlanReached
  <2>6. StorageType'
    BY <1>1, <1>14, <1>19 DEF StorageType, NoFault
  <2>7. PairsWork'
    BY <1>15, <1>19, <2>3 DEF PairsWork, NoFault
  <2>8. \A q \in PlanNames : ~Holding(q)' /\ Credit(q)' = (IF BothStored(q)' THEN 1 ELSE 0)
    BY <2>5 DEF Holding, Credit
  <2>9. KeysCounted'
    <3> SUFFICES ASSUME NEW q \in PlanNames
                 PROVE  Cardinality(Live(q)') <= provisionFaults' + Credit(q)'
      BY DEF KeysCounted
    <3>1. CASE q = p
      <4>1. Credit(p)' = 1
        BY <2>3, <2>8
      <4>2. QED
        BY <1>6, <1>16, <1>19, <3>1, <4>1 DEF NoFault
    <3>2. CASE q # p
      <4>1. Credit(q)' = Credit(q)
        BY <1>15, <2>8, <3>2
      <4>2. QED
        BY <1>6, <1>15, <1>19, <3>2, <4>1 DEF NoFault
    <3>3. QED
      BY <3>1, <3>2
  <2>10. QED
    BY <2>5, <2>6, <2>7, <2>9 DEF StorageInv
<1>20. CASE /\ ProvisionFault
            /\ provision' = [step |-> "Compensate", env |-> provision.env,
                             todo |-> {"key", "secrets"}, number |-> provision.number,
                             created |-> provision.created]
  <2>1. PICK todo \in SUBSET {"key", "secrets"} : todo = {"key", "secrets"}
    OBVIOUS
  <2>2. provision' = [step |-> "Compensate", env |-> e, todo |-> todo, number |-> n, created |-> k]
    BY <1>4, <1>20, <2>1
  <2>3. provisionFaults' = provisionFaults + 1
    BY <1>20 DEF ProvisionFault
  <2>4. Compensates(e, n, k, todo)'
    BY <1>1, <1>3, <1>4, <1>7, <2>1, <2>2, <2>3 DEF Compensates
  <2>5. StorageType' /\ RunReached'
    BY <1>1, <1>7, <1>14, <1>17, <2>3, <2>4 DEF StorageType, RunReached
  <2>6. Holding(p)' /\ Credit(p)' = 1 /\ \A q \in PlanNames \ {p} : ~Holding(q)'
    BY <1>3, <2>1, <2>2 DEF Holding, Credit
  <2>7. PairsWork'
    <3>1. provisionFaults' <= 1 => provisionFaults <= 1
      BY <1>7, <2>3
    <3>2. QED
      BY <1>15, <2>6, <3>1 DEF PairsWork
  <2>8. KeysCounted'
    <3> SUFFICES ASSUME NEW q \in PlanNames
                 PROVE  Cardinality(Live(q)') <= provisionFaults' + Credit(q)'
      BY DEF KeysCounted
    <3>1. CASE q = p
      BY <1>6, <1>7, <1>16, <2>3, <2>6, <3>1
    <3>2. CASE q # p
      <4>1. Credit(q)' = Credit(q) /\ Credit(q) \in {0, 1}
        BY <1>15, <2>6, <3>2 DEF Credit
      <4>2. QED
        BY <1>6, <1>7, <1>15, <2>3, <3>2, <4>1
    <3>3. QED
      BY <3>1, <3>2
  <2>9. QED
    BY <2>5, <2>7, <2>8 DEF StorageInv
<1>21. QED
  BY <1>4, <1>8, <1>9, <1>18, <1>19, <1>20 DEF StoreSecret

\* One part of the compensation is done, or fails.
LEMMA CompensationKeeps ==
  ASSUME StorageInv, NEW what \in {"key", "secrets"}, Compensate(what)
  PROVE  StorageInv'
<1>1. /\ StorageType /\ RunReached /\ PairsWork /\ KeysCounted
      /\ provision.step = "Compensate" /\ lifecycle' = lifecycle
  BY DEF StorageInv, Compensate
<1>2. PICK e \in Env, n \in {1, 2}, k \in StorageKeyIds, todo \in SUBSET {"key", "secrets"} :
        Passed(e, n) /\ Compensates(e, n, k, todo)
  BY <1>1, RunAt
<1>3. PICK p \in PlanNames : p = Plans[n]
  BY PlansAreTwo
<1>4. /\ provision = [step |-> "Compensate", env |-> e, todo |-> todo, number |-> n, created |-> k]
      /\ Current = p /\ what \in todo
      /\ provisionFaults >= 1 /\ provisionFaults \in Nat /\ doppler \in Env
      /\ "key" \in todo => stored[k] = p
      /\ provisionFaults = 1 /\ "secrets" \notin todo => doppler[p] = NoSecrets
  BY <1>1, <1>2, <1>3 DEF Compensates, Current, StorageType, Compensate
<1>5. PICK left : left = todo \ {what}
  OBVIOUS
<1>6. /\ Holding(p) /\ Credit(p) = (IF "key" \in todo THEN 1 ELSE 0)
      /\ \A q \in PlanNames \ {p} : ~Holding(q)
  BY <1>3, <1>4 DEF Holding, Credit
<1>7. PICK after : after = [doppler EXCEPT ![p] = NoSecrets]
  OBVIOUS
<1>8. after \in Env /\ after[p] = NoSecrets /\ \A q \in PlanNames \ {p} : after[q] = doppler[q]
  BY <1>4, <1>7 DEF Env, Pair, NoSecrets
<1>9. \/ what = "key" /\ stored' = [stored EXCEPT ![k] = Nobody] /\ doppler' = doppler /\ NoFault
      \/ what = "secrets" /\ doppler' = after /\ stored' = stored /\ NoFault
      \/ /\ what = "key" /\ stored' \in {stored, [stored EXCEPT ![k] = Nobody]}
         /\ doppler' = doppler /\ ProvisionFault
      \/ what = "secrets" /\ doppler' \in {doppler, after} /\ stored' = stored /\ ProvisionFault
  BY <1>4, <1>7 DEF Compensate, SecretsAfterFailure, NoSecrets
<1>10. /\ provisionFaults' \in {provisionFaults, provisionFaults + 1}
       /\ doppler' \in Env /\ \A q \in PlanNames \ {p} : doppler'[q] = doppler[q]
  BY <1>4, <1>8, <1>9 DEF NoFault, ProvisionFault
<1>11. /\ stored' \in [StorageKeyIds -> PlanNames \cup {Nobody}]
       /\ \A q \in PlanNames \ {p} : doppler'[q] = doppler[q] /\ Works(q) => Works(q)'
       /\ \A q \in PlanNames \ {p} : Cardinality(Live(q)') = Cardinality(Live(q))
       /\ what = "key" => /\ Cardinality(Live(p)') <= Cardinality(Live(p))
                          /\ stored' = [stored EXCEPT ![k] = Nobody]
                               => Cardinality(Live(p)') = Cardinality(Live(p)) - 1
       /\ what = "secrets" => Cardinality(Live(p)') = Cardinality(Live(p))
  <2>1. CASE what = "key"
    <3>1. stored[k] = p /\ (stored' = stored \/ stored' = [stored EXCEPT ![k] = Nobody])
      BY <1>4, <1>9, <2>1
    <3>2. QED
      BY <2>1, <3>1, KeyLeaves
  <2>2. CASE what = "secrets"
    <3>1. stored' = stored
      BY <1>9, <2>2
    <3>2. QED
      BY <1>1, <2>2, <3>1 DEF Works, BothStored, Live, StorageType
  <2>3. QED
    BY <2>1, <2>2
<1>12. /\ \A q : Cardinality(Live(q)) \in Nat
       /\ \A q : Cardinality(Live(q)') \in Nat
  <2>1. \A q : Cardinality(Live(q)') \in Nat
    BY StorageKeysAssumption, FS_Subset, FS_CardinalityType DEF Live
  <2>2. QED
    BY <2>1, LiveFinite
<1>13. provisionFaults' <= 1 /\ "secrets" \notin left => doppler'[p] = NoSecrets
  <2> SUFFICES ASSUME provisionFaults' <= 1, "secrets" \notin left PROVE doppler'[p] = NoSecrets
    OBVIOUS
  <2>1. provisionFaults = 1 /\ provisionFaults' = provisionFaults
    BY <1>4, <1>10
  <2>2. ~ProvisionFault
    BY <2>1 DEF ProvisionFault
  <2>3. CASE what = "key"
    BY <1>4, <1>5, <1>9, <2>1, <2>2, <2>3
  <2>4. CASE what = "secrets"
    BY <1>8, <1>9, <2>2, <2>4
  <2>5. QED
    BY <2>3, <2>4
<1>14. Cardinality(Live(p)') <= provisionFaults' + (IF "key" \in left THEN 1 ELSE 0)
  <2>1. Cardinality(Live(p)) <= provisionFaults + (IF "key" \in todo THEN 1 ELSE 0)
    BY <1>1, <1>6 DEF KeysCounted
  <2>2. CASE what = "secrets"
    BY <1>4, <1>5, <1>10, <1>11, <1>12, <2>1, <2>2
  <2>3. CASE what = "key" /\ NoFault
    <3>1. "key" \in todo /\ "key" \notin left /\ provisionFaults' = provisionFaults
      BY <1>4, <1>5, <2>3 DEF NoFault
    <3>2. Cardinality(Live(p)') = Cardinality(Live(p)) - 1
      <4>1. ~ProvisionFault
        BY <1>4, <3>1 DEF ProvisionFault
      <4>2. QED
        BY <1>9, <1>11, <2>3, <4>1
    <3>3. QED
      BY <1>4, <1>12, <2>1, <3>1, <3>2
  <2>4. CASE what = "key" /\ ProvisionFault
    <3>1. "key" \in todo /\ "key" \notin left /\ provisionFaults' = provisionFaults + 1
      BY <1>4, <1>5, <2>4 DEF ProvisionFault
    <3>2. QED
      BY <1>4, <1>11, <1>12, <2>1, <2>4, <3>1
  <2>5. QED
    BY <1>9, <2>2, <2>3, <2>4
<1>15. \A q \in PlanNames \ {p} : /\ provisionFaults' <= 1 => Works(q)'
                                  /\ BothStored(q)' = BothStored(q)
                                  /\ Cardinality(Live(q)') <= provisionFaults' + Credit(q)
                                  /\ Credit(q) = (IF BothStored(q) THEN 1 ELSE 0)
  <2> SUFFICES ASSUME NEW q \in PlanNames \ {p}
               PROVE  /\ provisionFaults' <= 1 => Works(q)'
                      /\ BothStored(q)' = BothStored(q)
                      /\ Cardinality(Live(q)') <= provisionFaults' + Credit(q)
                      /\ Credit(q) = (IF BothStored(q) THEN 1 ELSE 0)
    OBVIOUS
  <2>1. ~Holding(q) /\ doppler'[q] = doppler[q]
    BY <1>6, <1>10
  <2>2. provisionFaults' <= 1 => Works(q)'
    <3>1. provisionFaults' <= 1 => provisionFaults <= 1
      BY <1>4, <1>10
    <3>2. QED
      BY <1>1, <1>11, <2>1, <3>1 DEF PairsWork
  <2>3. Credit(q) = (IF BothStored(q) THEN 1 ELSE 0) /\ BothStored(q)' = BothStored(q)
    BY <2>1 DEF Credit, BothStored
  <2>4. Cardinality(Live(q)') <= provisionFaults' + Credit(q)
    <3>1. /\ Cardinality(Live(q)) <= provisionFaults + Credit(q) /\ Credit(q) \in {0, 1}
          /\ Cardinality(Live(q)') = Cardinality(Live(q))
      BY <1>1, <1>11, CreditBounded DEF KeysCounted
    <3>2. QED
      BY <1>4, <1>10, <1>12, <3>1
  <2>5. QED
    BY <2>2, <2>3, <2>4
<1>16. StorageType'
  BY <1>1, <1>4, <1>10, <1>11 DEF StorageType
<1>17. Passed(e, n)'
  BY <1>1, <1>2, <1>3, <1>10, PlansAreTwo DEF Passed, BothStored, PlanNames
<1>18. CASE left = {}
  <2>1. provision' = [step |-> "Stopped"]
    BY <1>4, <1>5, <1>18 DEF Compensate, Stop
  <2>2. RunReached'
    BY <2>1 DEF RunReached
  <2>3. \A q : ~Holding(q)' /\ Credit(q)' = (IF BothStored(q)' THEN 1 ELSE 0)
    BY <2>1 DEF Holding, Credit
  <2>4. provisionFaults' <= 1 => Works(p)'
    BY <1>13, <1>18 DEF Works, BothStored, NoSecrets
  <2>5. PairsWork'
    BY <1>15, <2>4 DEF PairsWork
  <2>6. KeysCounted'
    <3> SUFFICES ASSUME NEW q \in PlanNames
                 PROVE  Cardinality(Live(q)') <= provisionFaults' + Credit(q)'
      BY DEF KeysCounted
    <3>1. CASE q = p
      <4>1. Cardinality(Live(p)') <= provisionFaults' + 0
        BY <1>14, <1>18
      <4>2. Credit(p)' \in {0, 1}
        BY <2>3
      <4>3. QED
        BY <1>4, <1>10, <1>12, <3>1, <4>1, <4>2
    <3>2. CASE q # p
      BY <1>15, <2>3, <3>2
    <3>3. QED
      BY <3>1, <3>2
  <2>7. QED
    BY <1>16, <2>2, <2>5, <2>6 DEF StorageInv
<1>19. CASE left # {}
  <2>1. provision' = [step |-> "Compensate", env |-> e, todo |-> left, number |-> n, created |-> k]
    BY <1>4, <1>5, <1>19 DEF Compensate
  <2>2. left \in SUBSET {"key", "secrets"}
    BY <1>5
  <2>3. "key" \in left => stored'[k] = p
    BY <1>4, <1>5, <1>9
  <2>4. provisionFaults' >= 1
    BY <1>4, <1>10
  <2>5. Compensates(e, n, k, left)'
    BY <1>3, <1>13, <2>1, <2>3, <2>4 DEF Compensates
  <2>6. RunReached'
    BY <1>17, <2>2, <2>5 DEF RunReached
  <2>7. /\ Holding(p)' /\ Credit(p)' = (IF "key" \in left THEN 1 ELSE 0)
        /\ \A q \in PlanNames \ {p} : ~Holding(q)'
    BY <1>3, <2>1 DEF Holding, Credit
  <2>8. PairsWork'
    BY <1>15, <2>7 DEF PairsWork
  <2>9. KeysCounted'
    <3> SUFFICES ASSUME NEW q \in PlanNames
                 PROVE  Cardinality(Live(q)') <= provisionFaults' + Credit(q)'
      BY DEF KeysCounted
    <3>1. CASE q = p
      BY <1>14, <2>7, <3>1
    <3>2. CASE q # p
      <4>1. Credit(q)' = Credit(q)
        BY <1>15, <2>7, <3>2 DEF Credit
      <4>2. QED
        BY <1>15, <3>2, <4>1
    <3>3. QED
      BY <3>1, <3>2
  <2>10. QED
    BY <1>16, <2>6, <2>8, <2>9 DEF StorageInv
<1>20. QED
  BY <1>18, <1>19

(***************************************************************************)
(* Wherever a run fails or is killed, for any number of keys and faults:   *)
(* secrets that a first fault leaves behind are those of one living key,   *)
(* success means that both roles have theirs, and every further key of a   *)
(* role took a fault.                                                      *)
(***************************************************************************)
THEOREM StorageKeysStaySound == StorageKeysSpec => []StorageKeysSound
<1>1. StorageKeysInit => StorageInv
  <2> SUFFICES ASSUME StorageKeysInit PROVE StorageInv
    OBVIOUS
  <2>1. StorageType /\ RunReached
    BY DEF StorageKeysInit, StorageType, RunReached, Env, Pair
  <2>2. \A p \in PlanNames : ~BothStored(p)
    BY DEF StorageKeysInit, BothStored
  <2>3. \A p \in PlanNames : Live(p) = {}
    BY PlansAreTwo DEF StorageKeysInit, Live
  <2>4. PairsWork
    BY <2>2 DEF PairsWork, Works
  <2>5. KeysCounted
    BY <2>3, FS_EmptySet, CreditBounded DEF StorageKeysInit, KeysCounted
  <2>6. QED
    BY <2>1, <2>4, <2>5 DEF StorageInv
<1>2. StorageInv /\ [StorageKeysNext]_storageKeysVars => StorageInv'
  <2> SUFFICES ASSUME StorageInv, [StorageKeysNext]_storageKeysVars PROVE StorageInv'
    OBVIOUS
  <2>1. CASE KillProvision
    <3>1. lifecycle \in {OthersRules, OthersRules \cup {Retention}}
      BY DEF StorageInv, StorageType
    <3>2. QED
      BY <2>1, <3>1, FaultStops DEF KillProvision, ProvisionFault, Stop
  <2>2. CASE UNCHANGED storageKeysVars
    <3>1. UNCHANGED <<stored, doppler, lifecycle, provision, provisionFaults>>
      BY <2>2 DEF storageKeysVars
    <3>2. StorageType'
      BY <3>1 DEF StorageInv, StorageType
    <3>3. RunReached'
      <4>1. \A e, n : Passed(e, n) => Passed(e, n)'
        BY <3>1 DEF Passed, BothStored
      <4>2. \A e, n : Creates(e, n) => Creates(e, n)'
        BY <3>1 DEF Creates
      <4>3. \A e, n, k : Stores(e, n, k) => Stores(e, n, k)'
        BY <3>1 DEF Stores
      <4>4. \A e, n, k, todo : Compensates(e, n, k, todo) => Compensates(e, n, k, todo)'
        BY <3>1 DEF Compensates
      <4>5. RunReached
        BY DEF StorageInv
      <4>6. ASSUME NEW e \in Env, NEW n \in {1, 2}, Passed(e, n),
                   \/ Creates(e, n)
                   \/ \E k \in StorageKeyIds :
                        \/ Stores(e, n, k)
                        \/ \E todo \in SUBSET {"key", "secrets"} : Compensates(e, n, k, todo)
            PROVE  RunReached'
        <5>1. /\ Passed(e, n)'
              /\ \/ Creates(e, n)'
                 \/ \E k \in StorageKeyIds :
                      \/ Stores(e, n, k)'
                      \/ \E todo \in SUBSET {"key", "secrets"} : Compensates(e, n, k, todo)'
          BY <4>1, <4>2, <4>3, <4>4, <4>6
        <5>2. QED
          BY <5>1 DEF RunReached
      <4>7. CASE \/ provision \in [step : {"Stopped", "Refused"}]
                 \/ /\ provision = [step |-> "Done"] /\ lifecycle = OthersRules \cup {Retention}
                    /\ BothStored("api") /\ BothStored("worker")
                 \/ provision = [step |-> "Lifecycle", env |-> doppler]
        BY <3>1, <4>7 DEF RunReached, BothStored
      <4>8. QED
        BY <4>5, <4>6, <4>7 DEF RunReached
    <3>4. PairsWork'
      BY <3>1 DEF StorageInv, PairsWork, Works, Holding, BothStored
    <3>5. KeysCounted'
      <4>1. \A p \in PlanNames : Credit(p)' = Credit(p) /\ Live(p)' = Live(p)
        BY <3>1 DEF Credit, Holding, BothStored, Live
      <4>2. QED
        BY <3>1, <4>1 DEF StorageInv, KeysCounted
    <3>6. QED
      BY <3>2, <3>3, <3>4, <3>5 DEF StorageInv
  <2>3. QED
    BY <2>1, <2>2, BucketKeeps, CreateKeeps, StoreKeeps, CompensationKeeps DEF StorageKeysNext
<1>3. StorageInv => StorageKeysSound
  <2> SUFFICES ASSUME StorageInv PROVE StorageKeysSound
    OBVIOUS
  <2>1. StoredPairWorks
    <3>1. provision.step \in {"Stopped", "Done", "Refused"} => \A p : ~Holding(p)
      BY DEF Holding
    <3>2. QED
      BY <3>1 DEF StoredPairWorks, StorageInv, PairsWork, Works, BothStored, Secrets
  <2>2. DoneMeansProvisioned
    <3> SUFFICES ASSUME provision.step = "Done" PROVE
          /\ \A p \in PlanNames :
               /\ Absent \notin {Secrets(p).id, Secrets(p).key}
               /\ Cardinality({k \in StorageKeyIds : stored[k] = p}) <= 1 + provisionFaults
          /\ lifecycle = OthersRules \cup {Retention}
      BY DEF DoneMeansProvisioned
    <3>1. /\ lifecycle = OthersRules \cup {Retention} /\ BothStored("api") /\ BothStored("worker")
      BY RunAt DEF StorageInv
    <3>2. \A p \in PlanNames : Cardinality(Live(p)) <= 1 + provisionFaults
      BY CreditBounded, LiveFinite DEF StorageInv, KeysCounted, StorageType
    <3>3. QED
      BY <3>1, <3>2 DEF BothStored, Secrets, Live, PlanNames
  <2>3. QED
    BY <2>1, <2>2 DEF StorageKeysSound
<1>4. QED
  BY <1>1, <1>2, <1>3, PTL DEF StorageKeysSpec

-----------------------------------------------------------------------------
(***************************************************************************)
(* Heartbeat                                                               *)
(***************************************************************************)
RefreshCall ==
  [step : {"idle", "probing", "yes", "no"}, before : SUBSET Refreshes, overtaken : BOOLEAN]

\* The flag is set while a call is under way, so that none starts beside it,
\* whatever the file system or the timer does.
HeartbeatInv ==
  /\ refresh \in [Refreshes -> RefreshCall]
  /\ \A r \in Refreshes :
       /\ refresh[r].step # "idle" => running
       /\ refresh[r].before = {} /\ refresh[r].overtaken = FALSE
  /\ \A r, s \in Refreshes : refresh[r].step # "idle" /\ refresh[s].step # "idle" => r = s

(***************************************************************************)
(* A slow yes never covers a newer no, for any number of calls of          *)
(* ServiceHeartbeat.refresh and any faults of the file system.             *)
(***************************************************************************)
THEOREM AnswersAreTheNewest == HeartbeatSpec => []NewestAnswerStands
<1>1. HeartbeatInit => HeartbeatInv
  BY DEF HeartbeatInit, HeartbeatInv, RefreshCall, Resting
<1>2. HeartbeatInv /\ [HeartbeatNext]_heartbeatVars => HeartbeatInv'
  <2>1. SUFFICES ASSUME HeartbeatInv, [HeartbeatNext]_heartbeatVars PROVE HeartbeatInv'
    OBVIOUS
  <2>2. ASSUME NEW r \in Refreshes, Refresh(r) PROVE HeartbeatInv'
    <3>1. UnderWay = {}
      BY <2>1, <2>2 DEF HeartbeatInv, Refresh, MayRefresh, UnderWay
    <3>2. /\ refresh' = [refresh EXCEPT ![r] = [step |-> "probing", before |-> {}, overtaken |-> FALSE]]
          /\ running' = TRUE
      BY <2>2, <3>1 DEF Refresh
    <3>3. \A s \in Refreshes : refresh[s].step = "idle"
      BY <3>1 DEF UnderWay
    <3>4. /\ refresh'[r] = [step |-> "probing", before |-> {}, overtaken |-> FALSE]
          /\ \A s \in Refreshes : s # r => refresh'[s] = refresh[s]
          /\ refresh' \in [Refreshes -> RefreshCall]
      BY <2>1, <3>2 DEF HeartbeatInv, RefreshCall
    <3>5. QED
      BY <2>1, <3>2, <3>3, <3>4 DEF HeartbeatInv
  <2>3. ASSUME NEW r \in Refreshes, NEW step \in {"yes", "no"}, ProbeAnswers(r, step)
        PROVE  HeartbeatInv'
    <3>1. /\ refresh[r].step = "probing" /\ UNCHANGED running
          /\ refresh' = [s \in Refreshes |->
               IF s = r THEN [refresh[r] EXCEPT !.step = step]
               ELSE [refresh[s] EXCEPT !.overtaken = @ \/ s \in refresh[r].before]]
      BY <2>3 DEF ProbeAnswers
    <3>2. refresh'[r] = [refresh[r] EXCEPT !.step = step]
      BY <3>1
    <3>3. /\ refresh'[r] \in RefreshCall /\ refresh'[r].step = step
          /\ refresh'[r].before = {} /\ refresh'[r].overtaken = FALSE
      BY <2>1, <3>2 DEF HeartbeatInv, RefreshCall
    <3>4. ASSUME NEW s \in Refreshes, s # r PROVE refresh'[s] = refresh[s]
      <4>1. (refresh[s].overtaken \/ s \in refresh[r].before) = FALSE
        BY <2>1 DEF HeartbeatInv
      <4>2. refresh'[s] = [refresh[s] EXCEPT !.overtaken = FALSE]
        BY <3>1, <3>4, <4>1
      <4>3. QED
        BY <2>1, <4>2 DEF HeartbeatInv, RefreshCall
    <3>5. refresh' \in [Refreshes -> RefreshCall]
      <4>1. \A s \in Refreshes : refresh'[s] \in RefreshCall
        BY <2>1, <3>3, <3>4 DEF HeartbeatInv
      <4>2. refresh' = [s \in Refreshes |-> refresh'[s]]
        BY <3>1
      <4>3. QED
        BY <4>1, <4>2
    <3>6. QED
      BY <2>1, <3>1, <3>3, <3>4, <3>5 DEF HeartbeatInv
  <2>4. ASSUME NEW r \in Refreshes, ApplyAnswer(r) PROVE HeartbeatInv'
    <3>1. /\ refresh[r].step # "idle"
          /\ refresh' = [s \in Refreshes |->
               IF s = r THEN Resting ELSE [refresh[s] EXCEPT !.before = @ \ {r}]]
      BY <2>4 DEF ApplyAnswer
    <3>2. refresh'[r] = Resting
      BY <3>1
    <3>3. ASSUME NEW s \in Refreshes, s # r PROVE refresh'[s] = refresh[s]
      <4>1. refresh[s].before \ {r} = {}
        BY <2>1 DEF HeartbeatInv
      <4>2. refresh'[s] = [refresh[s] EXCEPT !.before = {}]
        BY <3>1, <3>3, <4>1
      <4>3. QED
        BY <2>1, <4>2 DEF HeartbeatInv, RefreshCall
    <3>4. refresh' \in [Refreshes -> RefreshCall]
      <4>1. Resting \in RefreshCall
        BY DEF Resting, RefreshCall
      <4>2. \A s \in Refreshes : refresh[s] \in RefreshCall
        BY <2>1 DEF HeartbeatInv
      <4>3. ASSUME NEW s \in Refreshes PROVE refresh'[s] \in RefreshCall
        <5>1. CASE s = r
          BY <3>2, <4>1, <5>1
        <5>2. CASE s # r
          BY <3>3, <4>2, <5>2
        <5>3. QED
          BY <5>1, <5>2
      <4>4. refresh' = [s \in Refreshes |-> refresh'[s]]
        BY <3>1
      <4>5. QED
        BY <4>3, <4>4
    <3>5. \A s \in Refreshes : refresh'[s].step = "idle"
      BY <2>1, <3>1, <3>2, <3>3 DEF HeartbeatInv, Resting
    <3>6. QED
      BY <2>1, <3>2, <3>3, <3>4, <3>5 DEF HeartbeatInv, Resting
  <2>5. CASE StopHeartbeat \/ HeartbeatTick \/ UNCHANGED heartbeatVars
    BY <2>1, <2>5 DEF StopHeartbeat, HeartbeatTick, heartbeatVars, HeartbeatInv
  <2>6. QED
    BY <2>1, <2>2, <2>3, <2>4, <2>5 DEF HeartbeatNext
<1>3. HeartbeatInv => NewestAnswerStands
  BY DEF HeartbeatInv, NewestAnswerStands
<1>4. QED
  BY <1>1, <1>2, <1>3, PTL DEF HeartbeatSpec
=============================================================================
