--------------------------- MODULE ControlService ---------------------------
(***************************************************************************)
(* The control service's request handlers, one step per statement that     *)
(* reads or writes the tables, and the calls they answer: a caller may     *)
(* stop waiting (after 15 seconds) while its handler goes on.              *)
(***************************************************************************)
EXTENDS ControlRepository

CONSTANTS
  Worker,        \* the caller with the system identity
  Scope,         \* actors this instance has: "sync", "reuse"
  Kept,          \* the model's identifiers kept for withdrawing releases
  CallTime,      \* ticks an attempt may last: its connection and each of its
                 \* statements time out, after 3 and 15 seconds
  MaxTime,       \* bound on the clock
  MaxFaults      \* bound on errors, timeouts and restarts

ASSUME ControlServiceAssumption ==
  /\ Worker \in Callers
  /\ None \notin Handlers
  /\ Handlers \subseteq Nat
  /\ Kept \in 0 .. MaxIds /\ CallTime \in Nat /\ MaxTime \in Nat /\ MaxFaults \in Nat

VARIABLES
  handler,       \* per handler: the request it serves and where it is
  call,          \* per caller: its latest request and what it was told
  clock,
  faults

service == <<handler, call, faults>>

Administrators == Callers \ {Worker}

Outcomes == {"done",        \* 201
             "conflict",    \* revision conflict
             "refused",     \* rollback, changed assets, too many codes
             "mismatch",    \* the identifier belongs to another request
             "failed"}      \* serialization failure, lost connection, ...

Request == [caller : Callers,
            route : {"api",          \* the caller states the revision it saw
                     "fresh",        \* executeFresh looks it up
                     "republish"},
            id : 0 .. MaxIds,
            command : Command,
            expected : Nat]

NoRequest == [caller |-> Worker, route |-> "republish", id |-> 0,
              command |-> Blank, expected |-> 0]

IdleHandler ==
  [pc |-> "idle", attempt |-> 0, stamp |-> 0, request |-> NoRequest, seen |-> None]

IdleCall == [status |-> "none", handler |-> None, request |-> NoRequest]

At(h, pc) == handler[h].pc = pc

\* what the repository is given
Envelope(h) ==
  [caller |-> handler[h].request.caller, route |-> handler[h].request.route,
   id |-> handler[h].request.id, command |-> handler[h].request.command,
   expected |-> handler[h].request.expected,
   stamp |-> handler[h].stamp, seen |-> handler[h].seen]

Fault == faults < MaxFaults /\ faults' = faults + 1

(***************************************************************************)
(* A request reaches a free handler.  execute() and republish() take the   *)
(* time before they wait for a connection.                                 *)
(***************************************************************************)
Free(h) == At(h, "idle") /\ \A g \in Handlers : At(g, "idle") => h <= g

\* authorizeCommand and the routes: system commands are the worker's, and
\* only those
Authorized(caller, command) == (caller = Worker) = (command.type \in SystemCommands)

FirstStep(request) ==
  IF request.route # "fresh" THEN "begin"
  ELSE IF request.command.type \in {"release.set", "release.clear"} THEN "check"
  ELSE "read"

Submit(request) ==
  /\ request.route # "republish" => Authorized(request.caller, request.command)
  /\ \E h \in Handlers :
       /\ Free(h)
       /\ handler' = [handler EXCEPT ![h] =
            [IdleHandler EXCEPT !.pc = FirstStep(request), !.stamp = clock, !.request = request]]
       /\ call' = [call EXCEPT ![request.caller] =
            [status |-> "sent", handler |-> h, request |-> request]]

Waiting(c, h) == call[c].status = "sent" /\ call[c].handler = h

\* The handler is done; who still waits for it learns the outcome.
Answer(h, outcome) ==
  LET c == handler[h].request.caller IN
  /\ handler' = [handler EXCEPT ![h] = IdleHandler]
  /\ IF Waiting(c, h)
       THEN call' = [call EXCEPT ![c].status = outcome, ![c].handler = None]
       ELSE UNCHANGED call

Goto(h, pc) ==
  /\ handler' = [handler EXCEPT ![h].pc = pc]
  /\ UNCHANGED call

(***************************************************************************)
(* Routes                                                                  *)
(***************************************************************************)

\* Nothing to do: the same observation is stored, or nothing is on offer.
\* (Every observation the worker makes is a new one.)
AlreadySo(command) ==
  \/ command.type = "release.set" /\ control.evidence = command.evidence
  \/ command.type = "release.clear" /\ control.release = 0

CheckRelease(h) ==
  /\ At(h, "check")
  /\ IF AlreadySo(handler[h].request.command) THEN Answer(h, "done") ELSE Goto(h, "read")
  /\ UNCHANGED <<database, clock, faults>>

\* executeFresh: readState, then execute
ReadRevision(h) ==
  /\ At(h, "read")
  /\ handler' = [handler EXCEPT ![h].pc = "begin", ![h].stamp = clock,
                                ![h].request.expected = control.revision]
  /\ UNCHANGED <<database, call, clock, faults>>

(***************************************************************************)
(* Transactions                                                            *)
(***************************************************************************)

\* The first statement fixes what the transaction sees; for a command it is
\* the search for an earlier execution.
Begin(h) ==
  /\ At(h, "begin")
  /\ IF handler[h].request.route # "republish" /\ Logged(handler[h].request.id)
       THEN Answer(h, IF ReplayMatches(Envelope(h)) THEN "done" ELSE "mismatch")
       ELSE /\ handler' = [handler EXCEPT ![h].pc = "lock", ![h].seen = Snapshot]
            /\ UNCHANGED call
  /\ UNCHANGED <<database, clock, faults>>

RetryConflictAlways(h) ==                             \* mutant: as often as it takes
  handler[h].request.route = "fresh"

RetryConflictAny(h) == handler[h].attempt = 0           \* mutant: on every route

\* executeFresh tries a second time after a conflict, after nothing else
RetryConflict(h) == handler[h].request.route = "fresh" /\ handler[h].attempt = 0

Conflict(h) ==
  IF RetryConflict(h)
    THEN /\ handler' = [handler EXCEPT ![h].pc = "read", ![h].attempt = @ + 1, ![h].seen = None]
         /\ UNCHANGED call
    ELSE Answer(h, "conflict")

\* SELECT ... FOR UPDATE, and the checks that need the row
Lock(h) ==
  LET e == Envelope(h) IN
  /\ At(h, "lock") /\ lock = None
  /\ IF NoLongerCurrent(e) THEN Answer(h, "failed") /\ UNCHANGED lock
     ELSE IF e.route = "republish"
       THEN IF Signable(control, e.stamp)
              THEN Goto(h, "commit") /\ LockControlState(h)
              ELSE Answer(h, "refused") /\ UNCHANGED lock
     ELSE IF control.revision # e.expected THEN Conflict(h) /\ UNCHANGED lock
     ELSE IF Applicable(control, e.command) /\ Signable(NextState(control, e.command), e.stamp)
       THEN Goto(h, "commit") /\ LockControlState(h)
       ELSE Answer(h, "refused") /\ UNCHANGED lock
  /\ UNCHANGED <<tables, clock, faults>>

Perform(h) ==
  IF handler[h].request.route = "republish" THEN Republish(Envelope(h)) ELSE PublishCommand(Envelope(h))

Commit(h) ==
  /\ At(h, "commit") /\ Perform(h) /\ Released
  /\ Answer(h, "done")
  /\ UNCHANGED <<clock, faults>>

\* An error: the transaction is rolled back, or its COMMIT was carried out
\* and the answer to it got lost.
Break(h) ==
  /\ ~At(h, "idle") /\ Fault
  /\ \/ UNCHANGED tables
     \/ At(h, "commit") /\ Perform(h)
  /\ IF lock = h THEN Released ELSE UNCHANGED lock
  /\ Answer(h, "failed")
  /\ UNCHANGED clock

HandlerStep(h) == CheckRelease(h) \/ ReadRevision(h) \/ Begin(h) \/ Lock(h) \/ Commit(h)

\* The caller's timeout; also how a lost answer looks to it.
Abandon(c) ==
  /\ call[c].status = "sent" /\ Fault
  /\ call' = [call EXCEPT ![c].status = "failed", ![c].handler = None]
  /\ UNCHANGED <<database, handler, clock>>

(***************************************************************************)
(* Administrators: the console and API keys state a revision they have     *)
(* read, the bot does not.  An API client may send a request again whose   *)
(* outcome it does not know, or draw its next identifier wrongly.          *)
(***************************************************************************)

\* A random identifier is one nobody else has or may send again.
InUse(id) ==
  \/ Logged(id)
  \/ \E h \in Handlers : handler[h].request.id = id
  \/ \E a \in Administrators : call[a].request.id = id

\* The model's identifiers are divided, so that other commands never leave
\* the worker without one for a withdrawal.
ForWithdrawals == MaxIds - Kept + 1 .. MaxIds
ForOthers == 1 .. MaxIds - Kept

Drawn(id, ids) == id \in ids /\ ~InUse(id) /\ \A i \in ids : i < id => InUse(i)

Administer(a, command, route) ==
  \E id \in 1 .. MaxIds, expected \in 0 .. control.revision :
    /\ \/ Drawn(id, ForOthers)
       \/ "reuse" \in Scope /\ id = call[a].request.id /\ route = "api"
    /\ route = "fresh" => expected = 0
    /\ Submit([caller |-> a, route |-> route, id |-> id, command |-> command, expected |-> expected])

Administrate(a, command) ==
  /\ a \in Administrators /\ call[a].status # "sent"
  /\ \E route \in {"api", "fresh"} : Administer(a, command, route)
  /\ UNCHANGED <<database, clock, faults>>

Resend(a) ==
  /\ a \in Administrators /\ call[a].status = "failed" /\ call[a].request.route = "api"
  /\ Submit(call[a].request)
  /\ UNCHANGED <<database, clock, faults>>

ServiceInit ==
  /\ handler = [h \in Handlers |-> IdleHandler]
  /\ call = [c \in Callers |-> IdleCall]
  /\ clock = 0 /\ faults = 0
=============================================================================
