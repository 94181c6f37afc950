-------------------------- MODULE ControlInvariant --------------------------
(***************************************************************************)
(* Why the safety properties of ControlPlane hold: an inductive invariant  *)
(* of the tables and of the requests on their way to them.                 *)
(***************************************************************************)
EXTENDS ControlPlane

Executes(request) == request.route # "republish"

IsRelease(command) == command.type = "release.set"

\* A request that would execute a command names an identifier and comes from
\* who may give the command.
WellFormed(request) ==
  /\ request \in Request
  /\ Complete(request.command)
  /\ Executes(request) => request.id # 0 /\ Authorized(request.caller, request.command)
  /\ request.caller # Worker => Executes(request)

\* A request names no revision that is still to come.
Timely(request) == request.expected <= control.revision

(***************************************************************************)
(* The tables                                                              *)
(***************************************************************************)

\* The floor is the version of the last release the worker vouched for.
FloorInv ==
  /\ control \in State
  /\ control.evidence = None => control.release = 0 /\ control.floor = 0
  /\ control.evidence # None => control.floor = control.evidence.version

\* No release in the log is ahead of the last one, or has other assets under
\* its version.
HistoryInv ==
  \A i \in DOMAIN commands :
    IsRelease(Entry(i).command) =>
      /\ Entry(i).command.evidence # None
      /\ control.evidence # None
      /\ Entry(i).command.evidence.version <= control.evidence.version
      /\ Entry(i).command.evidence.version = control.evidence.version
           => Entry(i).command.evidence.assets = control.evidence.assets

\* The newest snapshot is that of the stored revision, and says what it says.
PublicationInv ==
  /\ Revisions \subseteq 0 .. control.revision
  /\ \A r \in Revisions : published[r] \in Snapshots
  /\ Revisions # {} =>
       /\ control.revision \in Revisions
       /\ published[control.revision] = Payload(control, published[control.revision].generated)

\* There is room for the codes that are active.
RoomInv == IsFiniteSet(control.codes) /\ StateSignable

TablesInv ==
  /\ FloorInv /\ HistoryInv /\ PublicationInv
  /\ commands \in Seq(LogEntry)
  /\ AuditChained /\ ReleasesMoveForward

(***************************************************************************)
(* The handlers                                                            *)
(***************************************************************************)

HandlerState ==
  [pc : {"idle", "check", "read", "begin", "lock", "commit"},
   attempt : 0 .. 1, stamp : 0 .. MaxTime, request : Request, seen : Seen \cup {None}]

\* Only requests that look up the revision themselves are at "check" and
\* "read", and only the worker's at "check".
HandlerInv(h) ==
  /\ handler[h].stamp <= clock
  /\ At(h, "idle") => handler[h].request.id = 0
  /\ ~At(h, "idle") => WellFormed(handler[h].request) /\ Timely(handler[h].request)
  /\ handler[h].pc \in {"check", "read"} => handler[h].request.route = "fresh"
  /\ At(h, "check") => handler[h].request.caller = Worker

\* A transaction that waits for the row has seen a log that is still the log
\* while the revision is; one that holds the row has seen the current one,
\* and its command may be carried out.
TransactionInv(h) ==
  LET seen == handler[h].seen
      request == handler[h].request
  IN  /\ handler[h].pc \in {"lock", "commit"} =>
           /\ seen \in Seen
           /\ seen.revision <= control.revision
           /\ seen.entries = seen.revision
           /\ seen.revision = control.revision /\ Executes(request) => ~Logged(request.id)
      /\ At(h, "commit") =>
           /\ lock = h
           /\ seen.revision = control.revision
           /\ Executes(request) =>
                /\ request.expected = control.revision
                /\ Applicable(control, request.command)
                /\ Signable(NextState(control, request.command), handler[h].stamp)

HandlersInv ==
  /\ handler \in [Handlers -> HandlerState]
  /\ clock \in 0 .. MaxTime
  /\ lock \in Handlers \cup {None}
  /\ \A h \in Handlers : HandlerInv(h) /\ TransactionInv(h)

(***************************************************************************)
(* The calls                                                               *)
(***************************************************************************)

CallState ==
  [status : Outcomes \cup {"none", "sent"}, handler : Handlers \cup {None}, request : Request]

SameRequest(served, sent) ==
  /\ served.caller = sent.caller /\ served.route = sent.route
  /\ served.id = sent.id /\ served.command = sent.command
  /\ sent.route = "api" => served.expected = sent.expected

\* Whom a caller waits for serves its request.
CallInv(c) ==
  /\ call[c].status # "none" =>
       WellFormed(call[c].request) /\ Timely(call[c].request) /\ call[c].request.caller = c
  /\ \A h \in Handlers : Waiting(c, h) =>
       ~At(h, "idle") /\ SameRequest(handler[h].request, call[c].request)

\* Identifiers are an administrator's own, and those of requests that are
\* sent once only are with one handler.
IdentifierInv(a) ==
  LET id == call[a].request.id IN
  id # 0 =>
    /\ \A b \in Administrators : call[b].request.id = id => b = a
    /\ call[a].request.route = "fresh" =>
         \A g, h \in Handlers : handler[g].request.id = id /\ handler[h].request.id = id => g = h

\* The revision a refused request named is taken by another command, or
\* nobody serves the request any more.
RefusalInv(a) ==
  call[a].status = "conflict" =>
    /\ call[a].request.route = "api" => call[a].request.expected < Len(commands)
    /\ call[a].request.route # "api" => \A h \in Handlers : handler[h].request.id # call[a].request.id

CallsInv ==
  /\ call \in [Callers -> CallState]
  /\ \A c \in Callers : CallInv(c)
  /\ \A a \in Administrators : IdentifierInv(a) /\ RefusalInv(a)
  /\ AnswersTruthful

\* The worker's loop, and the bound on errors.
LoopInv == SyncTypeOK /\ faults \in 0 .. MaxFaults

ControlInv == TablesInv /\ RoomInv /\ HandlersInv /\ CallsInv /\ LoopInv
=============================================================================
