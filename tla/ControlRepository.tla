------------------------- MODULE ControlRepository -------------------------
(***************************************************************************)
(* The control tables and the two transactions on them.  Both run at       *)
(* isolation level SERIALIZABLE: a transaction reads the tables as they    *)
(* were at its first statement, waits for the lock on the control row, and *)
(* fails when that row was changed in between.                             *)
(***************************************************************************)
EXTENDS ControlState, Sequences

CONSTANTS
  Callers,       \* who may command: administrators and the worker
  Handlers       \* requests the control service may serve at a time

VARIABLES
  control,       \* the row of control_state
  commands,      \* control_commands in the order of resulting_revision
  published,     \* published_snapshots: a snapshot per revision
  lock           \* the handler whose transaction has locked the control row

tables == <<control, commands, published>>
database == <<control, commands, published, lock>>

Revisions == DOMAIN published
Newest == CHOOSE r \in Revisions : \A s \in Revisions : s <= r

\* readPublished: the newest snapshot, or null
ReadPublished == IF Revisions = {} THEN None ELSE published[Newest]

PublishedAt(revision) == IF revision \in Revisions THEN published[revision] ELSE None

\* what a transaction sees from its first statement on
Snapshot == [revision |-> control.revision,
             entries |-> Len(commands),
             publication |-> PublishedAt(control.revision)]

Logged(id) == \E i \in DOMAIN commands : commands[i].id = id
EntryOf(id) == commands[CHOOSE i \in DOMAIN commands : commands[i].id = id]

ReplayMatchesById(h) == TRUE                          \* mutant: the identifier is enough

\* A command that was executed before is answered from the log when it is
\* the same request of the same actor.
ReplayMatches(h) ==
  LET original == EntryOf(h.id) IN
  /\ original.actor = h.caller
  /\ original.revision = h.expected + 1
  /\ original.command = h.command

\* "could not serialize access due to concurrent update" of the row, or of
\* the snapshot a republish replaces
NoLongerCurrent(h) ==
  \/ control.revision # h.seen.revision
  \/ h.route = "republish" /\ PublishedAt(control.revision) # h.seen.publication

LockControlStateUnlocked(self) == UNCHANGED lock      \* mutant: no FOR UPDATE

LockControlState(self) == lock = None /\ lock' = self

ReleasedNever == UNCHANGED lock                       \* mutant: no ROLLBACK or COMMIT

Released == lock' = None

NextState(state, command) == [Apply(state, command) EXCEPT !.revision = state.revision + 1]

PublishedBefore(state, stamp) ==                      \* mutant: the state before the command
  [r \in Revisions \cup {state.revision} |->
     IF r = state.revision THEN Payload([control EXCEPT !.revision = r], stamp) ELSE published[r]]

\* the published snapshots with that of this state
Published(state, stamp) ==
  [r \in Revisions \cup {state.revision} |->
     IF r = state.revision THEN Payload(state, stamp) ELSE published[r]]

\* executeAndPublish, after the checks: the state, the audit entry chained to
\* the last one this transaction sees, and the signed snapshot, at once.
PublishCommand(h) ==
  LET next == NextState(control, h.command) IN
  /\ control' = next
  /\ commands' = Append(commands,
       [id |-> h.id, actor |-> h.caller, command |-> h.command,
        revision |-> next.revision,
        previous |-> IF h.seen.entries = 0 THEN 0 ELSE commands[h.seen.entries].id])
  /\ published' = Published(next, h.stamp)

\* republish: the stored state signed anew
Republish(h) ==
  /\ published' = Published(control, h.stamp)
  /\ UNCHANGED <<control, commands>>

RepositoryInit ==
  /\ control = InitialState
  /\ commands = <<>>
  /\ published = [r \in {} |-> None]
  /\ lock = None
=============================================================================
