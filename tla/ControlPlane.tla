---------------------------- MODULE ControlPlane ----------------------------
(***************************************************************************)
(* Administrators, the worker's control loop and the control service with  *)
(* its tables, under a clock.                                              *)
(***************************************************************************)
EXTENDS OperationalSync

CONSTANT AdminRequests      \* the commands administrators give in this instance

ASSUME ControlPlaneAssumption ==
  \A command \in AdminRequests : command \in Command /\ Complete(command)

vars == <<database, service, clock, source, sync>>

worker == <<source, sync>>

\* Attempts do not outlast their timeouts.
Tick ==
  /\ clock < MaxTime /\ clock' = clock + 1
  /\ \A h \in Handlers : ~At(h, "idle") => clock < handler[h].stamp + CallTime
  /\ UNCHANGED <<database, service, worker>>

Init == RepositoryInit /\ ServiceInit /\ SyncInit

Serve(h) == HandlerStep(h) /\ UNCHANGED worker

Next ==
  \/ \E h \in Handlers : Serve(h)
  \/ \E h \in Handlers : Break(h) /\ UNCHANGED worker
  \/ \E c \in Callers : Abandon(c) /\ UNCHANGED worker
  \/ \E a \in Administrators :
       /\ Resend(a) \/ \E command \in AdminRequests : Administrate(a, command)
       /\ UNCHANGED worker
  \/ "sync" \in Scope /\ (SyncStep \/ SyncRestart \/ SourceChanges)
  \/ Tick

Spec == Init /\ [][Next]_vars

(***************************************************************************)
(* Fairness: Node runs what is ready and PostgreSQL answers, so every      *)
(* handler and the worker's loop go on; PostgreSQL grants a row lock in    *)
(* turn, so a handler that waits for one gets it although others take it   *)
(* again and again.  Administrators, faults, the source and the clock are  *)
(* free.                                                                   *)
(***************************************************************************)
Fairness ==
  /\ \A h \in Handlers :
       /\ WF_vars(Serve(h))
       /\ SF_vars(Lock(h) /\ UNCHANGED worker)
  /\ WF_vars(SyncStep)

FairSpec == Spec /\ Fairness

(***************************************************************************)
(* Types                                                                   *)
(***************************************************************************)
LogEntry == [id : 1 .. MaxIds, actor : Callers, command : Command,
             revision : Nat, previous : 0 .. MaxIds]

Seen == [revision : Nat, entries : Nat, publication : Snapshots \cup {None}]

DatabaseTypeOK ==
  /\ control \in State
  /\ commands \in Seq(LogEntry)
  /\ Revisions \subseteq Nat
  /\ \A r \in Revisions : published[r] \in Snapshots
  /\ lock \in Handlers \cup {None}

ServiceTypeOK ==
  /\ handler \in [Handlers -> [pc : {"idle", "check", "read", "begin", "lock", "commit"},
                              attempt : 0 .. 1, stamp : 0 .. MaxTime,
                              request : Request, seen : Seen \cup {None}]]
  /\ call \in [Callers -> [status : Outcomes \cup {"none", "sent"},
                           handler : Handlers \cup {None}, request : Request]]
  /\ clock \in 0 .. MaxTime
  /\ faults \in 0 .. MaxFaults

SyncTypeOK ==
  /\ source \in Sources
  /\ sync \in [at : SyncSteps, synchronized : BOOLEAN]

TypeOK == DatabaseTypeOK /\ ServiceTypeOK /\ SyncTypeOK

(***************************************************************************)
(* Safety                                                                  *)
(***************************************************************************)

Entry(i) == commands[i]

\* The audit log is a chain: an entry per revision, each naming the one
\* before it, no identifier twice, and its last entry made the stored state's
\* revision, whatever requests ran at the same time or broke off
\* (executeAndPublish).
AuditChained ==
  /\ Len(commands) = control.revision
  /\ \A i \in DOMAIN commands :
       /\ Entry(i).revision = i
       /\ Entry(i).previous = IF i = 1 THEN 0 ELSE Entry(i - 1).id
       /\ \A j \in DOMAIN commands : Entry(i).id = Entry(j).id => i = j

\* The request was carried out: its command is in the log under its
\* identifier and as its actor's, at the revision it named if it named one.
CarriedOut(request) ==
  \E i \in DOMAIN commands :
    /\ Entry(i).id = request.id
    /\ Entry(i).actor = request.caller
    /\ Entry(i).command = request.command
    /\ request.route = "api" => i = request.expected + 1

\* Who is told that a request was done finds it carried out, however often it
\* was sent: a replay is answered only for the request it repeats.
SuccessIsLogged ==
  \A a \in Administrators : call[a].status = "done" => CarriedOut(call[a].request)

\* Who is told of a revision conflict may decide anew: the request was not
\* carried out, not even by an earlier copy of it that is still being served.
ConflictMeansNotDone ==
  \A a \in Administrators : call[a].status = "conflict" => ~CarriedOut(call[a].request)

\* What an administrator is told is true, whatever was sent twice or lost.
AnswersTruthful == SuccessIsLogged /\ ConflictMeansNotDone

\* Releases only move forward, and the installer behind a version never
\* changes: over the whole history, through withdrawals and whatever the
\* source shows in between (assertReleaseProgression).
ReleasesMoveForward ==
  \A i, j \in DOMAIN commands :
    i < j /\ Entry(i).command.type = "release.set" /\ Entry(j).command.type = "release.set" =>
      LET old == Entry(i).command.evidence
          new == Entry(j).command.evidence
      IN  /\ old.version <= new.version
          /\ old.version = new.version => old.assets = new.assets

\* Once anything is published, the newest snapshot says what the stored state
\* says: the state and its publication change together.
PublishedIsCurrent ==
  Revisions # {} =>
    LET newest == ReadPublished IN newest = Payload(control, newest.generated)

\* No sequence of accepted commands leaves a state the worker cannot sign.
StateSignable == Cardinality(Active(control.codes, clock)) <= MaxCodes

\* What is served never goes back: the newest revision does not decrease, and
\* what was published under a revision only loses what has expired.
PublicationMovesForward ==
  \A r \in Revisions :
    /\ r \in Revisions'
    /\ published'[r] # published[r] =>
         /\ r = control.revision
         /\ published'[r].release = published[r].release
         /\ published'[r].available = published[r].available

\* No step takes the releases of the log or what is published back.
NothingGoesBack == [][ReleasesMoveForward' /\ PublicationMovesForward]_vars

(***************************************************************************)
(* Refinement: the tables, handlers and calls implement CommandLog.        *)
(***************************************************************************)

\* What of a request its caller decides: one of the route "api" names the
\* revision it follows.
OrderOf(r) ==
  [id |-> r.id, actor |-> r.caller, command |-> r.command,
   at |-> IF r.route = "api" THEN r.expected + 1 ELSE 0]

Commanding == {h \in Handlers : ~At(h, "idle") /\ handler[h].request.route # "republish"}

Promise == INSTANCE CommandLog
           WITH Clients <- Administrators,
                Start <- InitialState, Allowed <- Applicable, Effect <- NextState,
                state <- control,
                log <- [i \in DOMAIN commands |->
                          [id |-> Entry(i).id, actor |-> Entry(i).actor, command |-> Entry(i).command]],
                underway <- {OrderOf(handler[h].request) : h \in Commanding},
                told <- [a \in Administrators |->
                           [verdict |-> call[a].status, order |-> OrderOf(call[a].request)]]

\* Whatever handlers, transactions, repeats and lost answers there are, each
\* command takes effect at once or not at all, at one moment while its request
\* is served, on the state the log has made; what administrators are told of it
\* stays true.
ImplementsCommandLog == Promise!Spec

(***************************************************************************)
(* Liveness, under FairSpec                                                *)
(***************************************************************************)

\* A release the source has stopped vouching for is withdrawn.
WithdrawnReleaseLeaves == <>[](source = None) => <>[](control.release = 0)

\* Every request comes to an end: no handler waits for the control row for ever.
EveryRequestEnds == \A h \in Handlers : ~At(h, "idle") ~> At(h, "idle")
=============================================================================
