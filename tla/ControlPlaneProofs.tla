------------------------- MODULE ControlPlaneProofs -------------------------
(***************************************************************************)
(* The control plane for any number of callers, handlers, errors and       *)
(* commands: the invariant of ControlInvariant is inductive, and the       *)
(* safety properties of ControlPlane follow from it.  First what the       *)
(* transactions do to the tables, for any command: the log stays a chain   *)
(* in which releases only move forward, and the publication stays that of  *)
(* the stored state.  Last, the refinement of CommandLog, and the API's    *)
(* readiness probe beside the control plane.                               *)
(***************************************************************************)
EXTENDS ControlInvariant, Readiness, FiniteSetTheorems, SequenceTheorems, TLAPS

(***************************************************************************)
(* The state and what a command makes of it.                               *)
(***************************************************************************)

\* What the constants of the state are.
LEMMA StateConstants ==
  /\ Versions \subseteq Nat \ {0} /\ MaxIds \in Nat /\ MaxCodes \in Nat /\ Lifetime \in Nat
  /\ None \notin ReleaseEvidence
BY ControlStateAssumption DEF ReleaseEvidence

\* Entries are only replaced by entries.
LEMMA EntriesType ==
  ASSUME NEW entries \in SUBSET Entries, NEW command \in Command, command.key # None
  PROVE  /\ Without(entries, command.key) \in SUBSET Entries
         /\ With(entries, command.key, command.until) \in SUBSET Entries
BY DEF Without, With, Entries, Command

\* A list stays finite.
LEMMA EntriesFinite ==
  ASSUME NEW entries, IsFiniteSet(entries), NEW key, NEW until
  PROVE  IsFiniteSet(Without(entries, key)) /\ IsFiniteSet(With(entries, key, until))
<1>1. IsFiniteSet(Without(entries, key))
  BY FS_Subset DEF Without
<1>2. QED
  BY <1>1, FS_AddElement DEF With

\* What is active later was active before.
LEMMA ActiveShrinks ==
  ASSUME NEW entries \in SUBSET Entries, NEW now \in Nat, NEW later \in Nat, now <= later
  PROVE  Active(entries, later) \subseteq Active(entries, now)
BY ControlStateAssumption DEF Active, Entries, Expiry

\* Whoever reads the state's floor reads a version or nothing.
LEMMA FloorType ==
  ASSUME NEW state \in State
  PROVE  Floor(state) \in Versions \cup {0}
BY DEF Floor, State, ReleaseEvidence

\* Every command makes a state of a state, one revision on.
LEMMA NextStateType ==
  ASSUME NEW state \in State, NEW command \in Command, Complete(command)
  PROVE  NextState(state, command) \in State
<1>1. Apply(state, command) \in State
  <2> USE DEF State
  <2>1. CASE command.type = "code.add"
    BY <2>1, EntriesType DEF Apply, Complete, KeyedCommands
  <2>2. CASE command.type = "code.remove"
    BY <2>2, EntriesType DEF Apply, Complete, KeyedCommands
  <2>3. CASE command.type = "feature.disable"
    BY <2>3, EntriesType DEF Apply, Complete, KeyedCommands
  <2>4. CASE command.type = "feature.enable"
    BY <2>4, EntriesType DEF Apply, Complete, KeyedCommands
  <2>5. CASE command.type = "schedule.set"
    BY <2>5, EntriesType DEF Apply, Complete, KeyedCommands
  <2>6. CASE command.type = "game.availability"
    BY <2>6 DEF Apply, Command
  <2>7. CASE command.type = "game.observation"
    BY <2>7 DEF Apply, Command
  <2>8. CASE command.type = "release.set"
    <3>1. command.evidence \in ReleaseEvidence
      BY <2>8 DEF Complete, Command
    <3>2. command.evidence.version \in Versions
      BY <3>1 DEF ReleaseEvidence
    <3>3. QED
      BY <2>8, <3>1, <3>2 DEF Apply
  <2>9. CASE command.type = "release.clear"
    <3>1. Floor(state) \in Versions \cup {0}
      BY FloorType DEF State
    <3>2. QED
      BY <2>9, <3>1 DEF Apply
  <2>10. QED
    BY <2>1, <2>2, <2>3, <2>4, <2>5, <2>6, <2>7, <2>8, <2>9
       DEF Command, SystemCommands, AdminCommands
<1>2. QED
  BY <1>1 DEF NextState, State

\* What a command does not touch.
LEMMA NextStateFields ==
  ASSUME NEW state \in State, NEW command \in Command
  PROVE  LET next == NextState(state, command) IN
         /\ next.revision = state.revision + 1
         /\ command.type \notin {"release.set", "release.clear"} =>
              next.release = state.release /\ next.evidence = state.evidence /\ next.floor = state.floor
         /\ command.type = "release.set" =>
              /\ next.evidence = command.evidence
              /\ next.release = command.evidence.version
              /\ next.floor = command.evidence.version
         /\ command.type = "release.clear" =>
              next.evidence = state.evidence /\ next.release = 0 /\ next.floor = Floor(state)
         /\ \/ next.codes = state.codes
            \/ next.codes = With(state.codes, command.key, command.until)
            \/ next.codes = Without(state.codes, command.key)
<1> USE DEF State, NextState, Apply
<1>1. CASE command.type = "code.add"
  BY <1>1
<1>2. CASE command.type = "code.remove"
  BY <1>2
<1>3. CASE command.type = "feature.disable"
  BY <1>3
<1>4. CASE command.type = "feature.enable"
  BY <1>4
<1>5. CASE command.type = "schedule.set"
  BY <1>5
<1>6. CASE command.type = "game.availability"
  BY <1>6
<1>7. CASE command.type = "game.observation"
  BY <1>7
<1>8. CASE command.type = "release.set"
  BY <1>8
<1>9. CASE command.type = "release.clear"
  BY <1>9
<1>10. QED
  BY <1>1, <1>2, <1>3, <1>4, <1>5, <1>6, <1>7, <1>8, <1>9 DEF Command, SystemCommands, AdminCommands

\* What is published of a state is a snapshot.
LEMMA PayloadType ==
  ASSUME NEW state \in State, NEW now \in Nat
  PROVE  Payload(state, now) \in Snapshots
<1>1. (state.operator /\ state.observed # "private") \in BOOLEAN
  OBVIOUS
<1>2. Active(state.codes, now) \subseteq Entries /\ Active(state.disablements, now) \subseteq Entries
  BY DEF Active, State
<1>3. now + Lifetime \in Nat
  BY StateConstants
<1> DEFINE available == state.operator /\ state.observed # "private"
<1>4. Payload(state, now) = [Payload(state, now) EXCEPT !.available = available]
  BY DEF Payload
<1>5. available \in BOOLEAN
  BY <1>1
<1> HIDE DEF available
<1>6. QED
  BY <1>2, <1>3, <1>4, <1>5 DEF Payload, Snapshots, State

(***************************************************************************)
(* The transactions.  A command that is carried out is applicable, its     *)
(* identifier is not in the log, and its transaction has seen all of it.   *)
(***************************************************************************)
Executable(e) ==
  /\ e.command \in Command /\ Complete(e.command)
  /\ e.id \in 1 .. MaxIds /\ e.caller \in Callers /\ e.stamp \in Nat
  /\ e.seen.entries = control.revision
  /\ ~Logged(e.id)
  /\ Applicable(control, e.command)

\* The entry a command leaves in the log.
NewEntry(e) ==
  [id |-> e.id, actor |-> e.caller, command |-> e.command, revision |-> control.revision + 1,
   previous |-> IF e.seen.entries = 0 THEN 0 ELSE commands[e.seen.entries].id]

\* A command makes the next state and appends its entry to the log.
LEMMA ExecutionStep ==
  ASSUME TablesInv, NEW e, Executable(e), PublishCommand(e)
  PROVE  /\ control' = NextState(control, e.command)
         /\ control' \in State
         /\ control'.revision = control.revision + 1
         /\ control.revision \in Nat
         /\ commands' = Append(commands, NewEntry(e))
         /\ NewEntry(e) \in LogEntry
         /\ Len(commands) = control.revision
         /\ Len(commands') = control.revision + 1
         /\ commands' \in Seq(LogEntry)
         /\ DOMAIN commands = 1 .. control.revision
         /\ DOMAIN commands' = 1 .. control.revision + 1
         /\ \A i \in 1 .. control.revision : commands'[i] = commands[i]
         /\ commands'[control.revision + 1] = NewEntry(e)
<1> USE DEF TablesInv
<1>1. control \in State /\ control.revision \in Nat
  BY DEF FloorInv, State
<1>2. control' = NextState(control, e.command)
  BY DEF PublishCommand
<1>3. control' \in State
  BY <1>1, <1>2, NextStateType DEF Executable
<1>4. control'.revision = control.revision + 1
  BY <1>1, <1>2, NextStateFields DEF Executable
<1>5. commands' = Append(commands, NewEntry(e))
  BY <1>2, <1>4 DEF PublishCommand, NewEntry
<1>6. commands \in Seq(LogEntry) /\ Len(commands) = control.revision
  BY DEF AuditChained
<1>7. NewEntry(e) \in LogEntry
  <2>1. (IF e.seen.entries = 0 THEN 0 ELSE commands[e.seen.entries].id) \in 0 .. MaxIds
    <3>1. CASE control.revision = 0
      BY <3>1, StateConstants DEF Executable
    <3>2. CASE control.revision # 0
      <4>1. commands[control.revision] \in LogEntry
        BY <1>1, <1>6, <3>2
      <4>2. QED
        BY <3>2, <4>1, StateConstants DEF Executable, LogEntry
    <3>3. QED
      BY <3>1, <3>2
  <2>2. QED
    BY <1>1, <2>1 DEF NewEntry, LogEntry, Executable
<1>8. QED
  BY <1>1, <1>2, <1>3, <1>4, <1>5, <1>6, <1>7

\* Carrying out a command keeps the floor.
LEMMA FloorKept ==
  ASSUME TablesInv, NEW e, Executable(e), PublishCommand(e)
  PROVE  FloorInv'
<1>1. control \in State /\ FloorInv /\ e.command \in Command /\ Complete(e.command)
  BY DEF TablesInv, FloorInv, Executable
<1>2. control' = NextState(control, e.command) /\ control' \in State
  BY ExecutionStep
<1>3. CASE IsRelease(e.command)
  <2>1. e.command.evidence \in ReleaseEvidence
    BY <1>1, <1>3 DEF Complete, IsRelease, Command
  <2>2. QED
    BY <1>1, <1>2, <1>3, <2>1, NextStateFields, StateConstants DEF FloorInv, IsRelease
<1>4. CASE e.command.type = "release.clear"
  <2>1. Floor(control) = control.floor
    BY <1>1, StateConstants DEF Floor, FloorInv, State, ReleaseEvidence
  <2>2. QED
    BY <1>1, <1>2, <1>4, <2>1, NextStateFields DEF FloorInv
<1>5. CASE e.command.type \notin {"release.set", "release.clear"}
  BY <1>1, <1>2, <1>5, NextStateFields DEF FloorInv
<1>6. QED
  BY <1>3, <1>4, <1>5 DEF IsRelease

\* A release that is applicable is not behind the last one, and keeps the
\* installer of a version it shares with it.
LEMMA Progress ==
  ASSUME TablesInv, NEW e, Executable(e), IsRelease(e.command), control.evidence # None
  PROVE  /\ control.evidence.version <= e.command.evidence.version
         /\ control.evidence.version = e.command.evidence.version
              => control.evidence.assets = e.command.evidence.assets
<1>1. control.evidence \in ReleaseEvidence /\ control.floor = control.evidence.version
  BY DEF TablesInv, FloorInv, State
<1>2. control.floor # 0
  BY <1>1, StateConstants DEF ReleaseEvidence
<1>3. QED
  BY <1>1, <1>2 DEF Executable, Applicable, ReleaseProgresses, Floor, IsRelease

\* Carrying out a command keeps the history behind the last release.
LEMMA HistoryKept ==
  ASSUME TablesInv, NEW e, Executable(e), PublishCommand(e)
  PROVE  HistoryInv' /\ ReleasesMoveForward'
<1> DEFINE r == control.revision
<1>1. /\ control' = NextState(control, e.command) /\ control.revision \in Nat
      /\ DOMAIN commands = 1 .. r /\ DOMAIN commands' = 1 .. r + 1
      /\ \A i \in 1 .. r : commands'[i] = commands[i]
      /\ commands'[r + 1] = NewEntry(e)
  BY ExecutionStep
<1>0. commands'[r + 1].command = e.command
  BY <1>1 DEF NewEntry
<1>2. control \in State /\ e.command \in Command /\ Complete(e.command)
  BY DEF TablesInv, FloorInv, Executable
<1>3. IsRelease(e.command) => e.command.evidence \in ReleaseEvidence
  BY <1>2 DEF Complete, IsRelease, Command
<1>4. \A i \in 1 .. r : Entry(i)' = Entry(i)
  BY <1>1 DEF Entry
<1>5. \A i \in 1 .. r : IsRelease(Entry(i).command) =>
        /\ Entry(i).command.evidence \in ReleaseEvidence
        /\ control.evidence \in ReleaseEvidence /\ control.evidence # None
  <2> SUFFICES ASSUME NEW i \in 1 .. r, IsRelease(Entry(i).command)
               PROVE  /\ Entry(i).command.evidence \in ReleaseEvidence
                      /\ control.evidence \in ReleaseEvidence /\ control.evidence # None
    OBVIOUS
  <2>1. Entry(i) \in LogEntry
    BY <1>1 DEF TablesInv, Entry
  <2>2. Entry(i).command \in Command
    BY <2>1 DEF LogEntry
  <2>3. Entry(i).command.evidence # None /\ control.evidence # None
    BY <1>1 DEF TablesInv, HistoryInv
  <2>4. QED
    BY <1>2, <2>2, <2>3 DEF Command, State
<1>6. HistoryInv /\ ReleasesMoveForward
  BY DEF TablesInv
<1>7. Versions \subseteq Nat
  BY StateConstants
<1>8. CASE IsRelease(e.command)
  <2>1. control'.evidence = e.command.evidence
    BY <1>1, <1>2, <1>8, NextStateFields DEF IsRelease
  <2>2. \A i \in 1 .. r : IsRelease(Entry(i).command) =>
          /\ Entry(i).command.evidence.version <= e.command.evidence.version
          /\ Entry(i).command.evidence.version = e.command.evidence.version
               => Entry(i).command.evidence.assets = e.command.evidence.assets
    <3> SUFFICES ASSUME NEW i \in 1 .. r, IsRelease(Entry(i).command)
                 PROVE  /\ Entry(i).command.evidence.version <= e.command.evidence.version
                        /\ Entry(i).command.evidence.version = e.command.evidence.version
                             => Entry(i).command.evidence.assets = e.command.evidence.assets
      OBVIOUS
    <3>1. /\ Entry(i).command.evidence.version <= control.evidence.version
          /\ Entry(i).command.evidence.version = control.evidence.version
               => Entry(i).command.evidence.assets = control.evidence.assets
      BY <1>1, <1>6 DEF HistoryInv
    <3>2. /\ control.evidence.version <= e.command.evidence.version
          /\ control.evidence.version = e.command.evidence.version
               => control.evidence.assets = e.command.evidence.assets
      BY <1>5, <1>8, Progress
    <3>3. /\ Entry(i).command.evidence.version \in Nat
          /\ control.evidence.version \in Nat /\ e.command.evidence.version \in Nat
      BY <1>3, <1>5, <1>7, <1>8 DEF ReleaseEvidence
    <3>4. QED
      BY <3>1, <3>2, <3>3
  <2>3. e.command.evidence.version \in Nat
    BY <1>3, <1>7, <1>8 DEF ReleaseEvidence
  <2>4. HistoryInv'
    BY <1>0, <1>1, <1>3, <1>4, <1>5, <1>8, <2>1, <2>2, <2>3, StateConstants DEF HistoryInv, Entry
  <2>5. ReleasesMoveForward'
    <3> SUFFICES ASSUME NEW i \in 1 .. r + 1, NEW j \in 1 .. r + 1, i < j,
                        commands'[i].command.type = "release.set",
                        commands'[j].command.type = "release.set"
                 PROVE  LET old == commands'[i].command.evidence
                            new == commands'[j].command.evidence
                        IN  /\ old.version <= new.version
                            /\ old.version = new.version => old.assets = new.assets
      BY <1>1 DEF ReleasesMoveForward, Entry
    <3>1. i \in 1 .. r /\ commands'[i] = commands[i]
      BY <1>1
    <3>2. CASE j \in 1 .. r
      BY <1>1, <1>6, <3>1, <3>2 DEF ReleasesMoveForward, Entry
    <3>3. CASE j = r + 1
      BY <1>0, <1>1, <2>2, <3>1, <3>3 DEF IsRelease, Entry
    <3>4. QED
      BY <1>1, <3>2, <3>3
  <2>6. QED
    BY <2>4, <2>5
<1>9. CASE ~IsRelease(e.command)
  <2>1. control'.evidence = control.evidence
    BY <1>1, <1>2, <1>9, NextStateFields DEF IsRelease
  <2>2. HistoryInv'
    BY <1>0, <1>1, <1>4, <1>6, <1>9, <2>1 DEF HistoryInv, Entry
  <2>3. ReleasesMoveForward'
    <3>1. \A i \in 1 .. r + 1 : commands'[i].command.type = "release.set" => i \in 1 .. r
      BY <1>0, <1>1, <1>9 DEF IsRelease
    <3>2. QED
      BY <1>1, <1>6, <3>1 DEF ReleasesMoveForward, Entry
  <2>4. QED
    BY <2>2, <2>3
<1>10. QED
  BY <1>8, <1>9

\* The log stays a chain.
LEMMA ChainKept ==
  ASSUME TablesInv, NEW e, Executable(e), PublishCommand(e)
  PROVE  AuditChained'
<1> DEFINE r == control.revision
<1>1. /\ r \in Nat /\ control'.revision = r + 1 /\ Len(commands') = r + 1
      /\ DOMAIN commands = 1 .. r /\ DOMAIN commands' = 1 .. r + 1
      /\ \A i \in 1 .. r : commands'[i] = commands[i]
      /\ commands'[r + 1] = NewEntry(e)
  BY ExecutionStep
<1>2. \A i \in 1 .. r :
        /\ commands[i].revision = i
        /\ commands[i].previous = IF i = 1 THEN 0 ELSE commands[i - 1].id
        /\ \A j \in 1 .. r : commands[i].id = commands[j].id => i = j
  BY <1>1 DEF TablesInv, AuditChained, Entry
<1>3. e.seen.entries = r /\ \A i \in 1 .. r : commands[i].id # e.id
  BY <1>1 DEF Executable, Logged
<1>4. /\ commands'[r + 1].revision = r + 1
      /\ commands'[r + 1].id = e.id
      /\ commands'[r + 1].previous = IF r = 0 THEN 0 ELSE commands[r].id
  BY <1>1, <1>3 DEF NewEntry
<1>5. ASSUME NEW i \in 1 .. r + 1
      PROVE  /\ commands'[i].revision = i
             /\ commands'[i].previous = IF i = 1 THEN 0 ELSE commands'[i - 1].id
             /\ \A j \in 1 .. r + 1 : commands'[i].id = commands'[j].id => i = j
  <2>1. CASE i \in 1 .. r
    <3>1. i # 1 => commands'[i - 1] = commands[i - 1]
      BY <1>1, <2>1
    <3>2. \A j \in 1 .. r + 1 : commands'[i].id = commands'[j].id => i = j
      BY <1>1, <1>2, <1>3, <1>4, <2>1
    <3>3. QED
      BY <1>1, <1>2, <2>1, <3>1, <3>2
  <2>2. CASE i = r + 1
    <3>1. r # 0 => commands'[r] = commands[r]
      BY <1>1
    <3>2. \A j \in 1 .. r + 1 : commands'[i].id = commands'[j].id => i = j
      BY <1>1, <1>3, <1>4, <2>2
    <3>3. QED
      BY <1>1, <1>4, <2>2, <3>1, <3>2
  <2>3. QED
    BY <1>1, <2>1, <2>2
<1>6. QED
  BY <1>1, <1>5 DEF AuditChained, Entry

\* The snapshots after a state was signed.
LEMMA PublishedFields ==
  ASSUME NEW state \in State, NEW stamp \in Nat,
         published' = Published(state, stamp)
  PROVE  /\ Revisions' = Revisions \cup {state.revision}
         /\ published'[state.revision] = Payload(state, stamp)
         /\ \A r \in Revisions : r # state.revision => published'[r] = published[r]
BY DEF Published, Revisions

\* Signing the stored state, or the one that replaces it, keeps the
\* publication up to date.
LEMMA PublicationKept ==
  ASSUME FloorInv, PublicationInv, NEW state \in State, NEW stamp \in Nat,
         state.revision \in {control.revision, control.revision + 1},
         control' = state, published' = Published(state, stamp)
  PROVE  PublicationInv'
<1>1. control.revision \in Nat
  BY DEF FloorInv, State
<1>2. /\ Revisions' = Revisions \cup {state.revision}
      /\ published'[state.revision] = Payload(state, stamp)
      /\ \A r \in Revisions : r # state.revision => published'[r] = published[r]
  BY PublishedFields
<1>3. Payload(state, stamp) \in Snapshots
  BY PayloadType
<1>4. Revisions' \subseteq 0 .. control'.revision
  <2>1. Revisions \subseteq 0 .. control.revision
    BY DEF PublicationInv
  <2>2. control'.revision \in {control.revision, control.revision + 1}
    OBVIOUS
  <2>3. Revisions' \subseteq Revisions \cup {control'.revision}
    BY <1>2
  <2>4. QED
    BY <1>1, <2>1, <2>2, <2>3
<1>5. \A r \in Revisions' : published'[r] \in Snapshots
  BY <1>2, <1>3 DEF PublicationInv
<1>6. Payload(state, stamp).generated = stamp
  BY DEF Payload
<1>7. QED
  BY <1>2, <1>4, <1>5, <1>6 DEF PublicationInv

\* Carrying out a command, or signing anew what is stored, takes nothing of
\* what is published back.
LEMMA PublicationForward ==
  ASSUME FloorInv, PublicationInv, NEW stamp \in Nat, NEW state \in State,
         \/ state = control
         \/ state.revision = control.revision + 1,
         published' = Published(state, stamp)
  PROVE  PublicationMovesForward
<1>1. control.revision \in Nat
  BY DEF FloorInv, State
<1>2. /\ Revisions' = Revisions \cup {state.revision}
      /\ published'[state.revision] = Payload(state, stamp)
      /\ \A r \in Revisions : r # state.revision => published'[r] = published[r]
  BY PublishedFields
<1>3. CASE state.revision = control.revision + 1
  <2>1. \A r \in Revisions : r # state.revision
    BY <1>1, <1>3 DEF PublicationInv
  <2>2. QED
    BY <1>2, <2>1 DEF PublicationMovesForward
<1>4. CASE state = control
  <2>1. ASSUME NEW r \in Revisions, r = control.revision
        PROVE  /\ published'[r].release = published[r].release
               /\ published'[r].available = published[r].available
    <3>1. published[r] = Payload(control, published[r].generated)
      BY <2>1 DEF PublicationInv
    <3>2. QED
      BY <1>2, <1>4, <2>1, <3>1 DEF Payload
  <2>2. QED
    BY <1>2, <1>4, <2>1 DEF PublicationMovesForward
<1>5. QED
  BY <1>3, <1>4

\* The next state has room for its codes when the transaction found so with
\* an earlier clock.
LEMMA RoomKept ==
  ASSUME NEW state \in State, NEW command \in Command,
         NEW stamp \in Nat, NEW now \in Nat, stamp <= now, Complete(command),
         IsFiniteSet(state.codes), Signable(NextState(state, command), stamp)
  PROVE  /\ IsFiniteSet(NextState(state, command).codes)
         /\ Cardinality(Active(NextState(state, command).codes, now)) <= MaxCodes
<1> DEFINE next == NextState(state, command)
<1>1. IsFiniteSet(next.codes)
  BY NextStateFields, EntriesFinite
<1>2. next \in State
  BY NextStateType
<1>3. next.codes \in SUBSET Entries
  BY <1>2 DEF State
<1>4. Active(next.codes, now) \subseteq Active(next.codes, stamp)
  BY <1>3, ActiveShrinks
<1>5. IsFiniteSet(Active(next.codes, stamp))
  BY <1>1, FS_Subset DEF Active
<1>6. /\ IsFiniteSet(Active(next.codes, now))
      /\ Cardinality(Active(next.codes, now)) <= Cardinality(Active(next.codes, stamp))
  BY <1>4, <1>5, FS_Subset
<1>7. Cardinality(Active(next.codes, stamp)) <= MaxCodes
  BY DEF Signable
<1>8. Cardinality(Active(next.codes, now)) \in Nat /\ Cardinality(Active(next.codes, stamp)) \in Nat
  BY <1>5, <1>6, FS_CardinalityType
<1>9. QED
  BY <1>1, <1>6, <1>7, <1>8, StateConstants

\* Time passes, and codes expire.
LEMMA RoomLater ==
  ASSUME NEW state \in State, NEW now \in Nat, NEW later \in Nat, now <= later,
         IsFiniteSet(state.codes), Cardinality(Active(state.codes, now)) <= MaxCodes
  PROVE  Cardinality(Active(state.codes, later)) <= MaxCodes
<1>1. Active(state.codes, later) \subseteq Active(state.codes, now)
  BY ActiveShrinks DEF State
<1>2. IsFiniteSet(Active(state.codes, now))
  BY FS_Subset DEF Active
<1>3. /\ IsFiniteSet(Active(state.codes, later))
      /\ Cardinality(Active(state.codes, later)) <= Cardinality(Active(state.codes, now))
  BY <1>1, <1>2, FS_Subset
<1>4. Cardinality(Active(state.codes, now)) \in Nat /\ Cardinality(Active(state.codes, later)) \in Nat
  BY <1>2, <1>3, FS_CardinalityType
<1>5. QED
  BY <1>3, <1>4, StateConstants

-----------------------------------------------------------------------------
(***************************************************************************)
(* Requests                                                                *)
(***************************************************************************)

\* What the constants of the service are.
LEMMA ServiceConstants ==
  /\ MaxIds \in Nat /\ Kept \in 0 .. MaxIds /\ MaxTime \in Nat /\ MaxFaults \in Nat
  /\ ForOthers \subseteq 1 .. MaxIds /\ ForWithdrawals \subseteq 1 .. MaxIds
  /\ Worker \in Callers /\ None \notin Handlers
BY ControlStateAssumption, ControlServiceAssumption DEF ForOthers, ForWithdrawals

\* The blank command is a withdrawal.
LEMMA BlankType == Blank \in Command /\ Complete(Blank) /\ Blank.type = "release.clear"
BY DEF Blank, Command, Expiry, SystemCommands, AdminCommands, Complete, KeyedCommands

\* The worker's other orders are commands.
LEMMA OrdersType ==
  /\ \A e \in ReleaseEvidence :
       LET set == [Blank EXCEPT !.type = "release.set", !.evidence = e]
       IN set \in Command /\ set.type = "release.set" /\ set.evidence = e /\ Complete(set)
  /\ \A public \in BOOLEAN :
       LET observation == [Blank EXCEPT !.type = "game.observation", !.on = public]
       IN observation \in Command /\ observation.type = "game.observation" /\ Complete(observation)
<1>2. ASSUME NEW e \in ReleaseEvidence
      PROVE  LET set == [Blank EXCEPT !.type = "release.set", !.evidence = e]
             IN set \in Command /\ set.type = "release.set" /\ set.evidence = e /\ Complete(set)
  BY BlankType, StateConstants DEF Blank, Command, SystemCommands, Complete, KeyedCommands
<1>3. ASSUME NEW public \in BOOLEAN
      PROVE  LET observation == [Blank EXCEPT !.type = "game.observation", !.on = public]
             IN observation \in Command /\ observation.type = "game.observation" /\ Complete(observation)
  BY BlankType DEF Blank, Command, SystemCommands, Complete, KeyedCommands
<1>4. QED
  BY <1>2, <1>3

\* The request for a new signature is a request; so is what an idle handler
\* and a caller that never called are left with.
LEMMA IdleType ==
  /\ NoRequest \in Request /\ WellFormed(NoRequest) /\ NoRequest.id = 0 /\ NoRequest.expected = 0
  /\ IdleHandler \in HandlerState
  /\ IdleCall \in CallState
<1>1. NoRequest \in Request /\ NoRequest.command = Blank
  <2>1. Blank \in Command /\ Worker \in Callers /\ 0 \in 0 .. MaxIds /\ 0 \in Nat
    BY BlankType, ServiceConstants
  <2>2. QED
    BY <2>1 DEF NoRequest, Request
<1>2. WellFormed(NoRequest)
  BY <1>1, BlankType DEF WellFormed, NoRequest, Executes
<1>3. IdleHandler \in HandlerState
  BY <1>1, ServiceConstants DEF IdleHandler, HandlerState
<1>4. IdleCall \in CallState
  BY <1>1 DEF IdleCall, CallState
<1>5. QED
  BY <1>1, <1>2, <1>3, <1>4 DEF NoRequest

(***************************************************************************)
(* The log grows by what is being served, and the revision with it.        *)
(***************************************************************************)
Advances ==
  /\ control.revision \in Nat /\ control'.revision \in Nat
  /\ control.revision <= control'.revision
  /\ control'.revision = control.revision => control' = control /\ commands' = commands
  /\ Len(commands) \in Nat /\ Len(commands') \in Nat /\ Len(commands) <= Len(commands')
  /\ DOMAIN commands = 1 .. Len(commands) /\ DOMAIN commands' = 1 .. Len(commands')
  /\ \A i \in DOMAIN commands : commands'[i] = commands[i]
  /\ \A i \in DOMAIN commands' : i \notin DOMAIN commands =>
       \E h \in Handlers : commands'[i].id = handler[h].request.id /\ ~At(h, "idle")

\* Steps that leave the tables alone.
LEMMA AdvancesNot ==
  ASSUME TablesInv, UNCHANGED <<control, commands>>
  PROVE  Advances
<1>1. control.revision \in Nat /\ commands \in Seq(LogEntry)
  BY DEF TablesInv, FloorInv, State
<1>2. QED
  BY <1>1 DEF Advances

(***************************************************************************)
(* What callers are told.                                                  *)
(***************************************************************************)

\* The request is in the log: CarriedOut, with the log as a parameter.
Recorded(log, request) ==
  \E i \in DOMAIN log :
    /\ log[i].id = request.id
    /\ log[i].actor = request.caller
    /\ log[i].command = request.command
    /\ request.route = "api" => i = request.expected + 1

\* Nobody's answer is wrong, before and after a step.
LEMMA AnswersByLog ==
  /\ AnswersTruthful <=>
       \A a \in Administrators :
         /\ call[a].status = "done" => Recorded(commands, call[a].request)
         /\ call[a].status = "conflict" => ~Recorded(commands, call[a].request)
  /\ AnswersTruthful' <=>
       \A a \in Administrators :
         /\ call'[a].status = "done" => Recorded(commands', call'[a].request)
         /\ call'[a].status = "conflict" => ~Recorded(commands', call'[a].request)
BY DEF AnswersTruthful, SuccessIsLogged, ConflictMeansNotDone, CarriedOut, Recorded, Entry

\* What is in the log stays in it.
LEMMA RecordedStays ==
  ASSUME Advances, NEW request, Recorded(commands, request)
  PROVE  Recorded(commands', request)
<1>1. PICK i \in DOMAIN commands :
        /\ commands[i].id = request.id
        /\ commands[i].actor = request.caller
        /\ commands[i].command = request.command
        /\ request.route = "api" => i = request.expected + 1
  BY DEF Recorded
<1>2. commands'[i] = commands[i] /\ i \in DOMAIN commands'
  BY DEF Advances
<1>3. QED
  BY <1>1, <1>2 DEF Recorded

\* Administrators' calls are requests of the kinds they can send.
LEMMA AdministratorsCall ==
  ASSUME CallsInv, NEW a \in Administrators, call[a].status # "none"
  PROVE  /\ a \in Callers /\ a # Worker
         /\ WellFormed(call[a].request) /\ Timely(call[a].request)
         /\ call[a].request.caller = a
         /\ call[a].request.route \in {"api", "fresh"}
         /\ call[a].request.id \in 1 .. MaxIds
         /\ call[a].request.expected \in Nat
<1>1. a \in Callers /\ a # Worker
  BY DEF Administrators
<1>2. WellFormed(call[a].request) /\ Timely(call[a].request) /\ call[a].request.caller = a
  BY <1>1 DEF CallsInv, CallInv
<1>3. call[a].request \in Request /\ Executes(call[a].request) /\ call[a].request.id # 0
  BY <1>1, <1>2 DEF WellFormed
<1>4. QED
  BY <1>1, <1>2, <1>3, ServiceConstants DEF Request, Executes

\* Who was refused stays refused: the entry the request would have made is
\* another one, or nobody serves it.
LEMMA RefusedStays ==
  ASSUME CallsInv, Advances, NEW a \in Administrators, call[a].status = "conflict"
  PROVE  ~Recorded(commands', call[a].request)
<1> DEFINE r == call[a].request
<1>1. ~Recorded(commands, r)
  BY AnswersByLog DEF CallsInv
<1>2. r.route \in {"api", "fresh"} /\ r.expected \in Nat
  BY AdministratorsCall
<1>3. RefusalInv(a)
  BY DEF CallsInv
<1>4. SUFFICES ASSUME NEW i \in DOMAIN commands',
                      commands'[i].id = r.id,
                      commands'[i].actor = r.caller,
                      commands'[i].command = r.command,
                      r.route = "api" => i = r.expected + 1
               PROVE  FALSE
  BY DEF Recorded
<1>5. i \notin DOMAIN commands
  BY <1>1, <1>4 DEF Recorded, Advances
<1>6. CASE r.route = "api"
  <2>1. i = r.expected + 1 /\ r.expected < Len(commands)
    BY <1>3, <1>4, <1>6 DEF RefusalInv
  <2>2. i \in DOMAIN commands
    BY <1>2, <2>1 DEF Advances
  <2>3. QED
    BY <1>5, <2>2
<1>7. CASE r.route # "api"
  <2>1. PICK h \in Handlers : commands'[i].id = handler[h].request.id
    BY <1>5 DEF Advances
  <2>2. QED
    BY <1>3, <1>4, <1>7, <2>1 DEF RefusalInv
<1>8. QED
  BY <1>6, <1>7

\* What a step may tell an administrator.
Told(a) ==
  LET r == call[a].request IN
  /\ call'[a].request = r
  /\ \/ call'[a].status = call[a].status
     \/ call'[a].status \notin {"done", "conflict"}
     \/ call'[a].status = "done" /\ Recorded(commands', r)
     \/ /\ call'[a].status = "conflict"
        /\ ~Recorded(commands', r)
        /\ r.route = "api" => r.expected < Len(commands')
        /\ r.route # "api" => \A h \in Handlers : handler'[h].request.id # r.id

\* A step that brings no new request keeps what is said of the old ones.
LEMMA NoNewRequests ==
  ASSUME CallsInv, Advances,
         \A h \in Handlers : handler'[h].request.id \in {0, handler[h].request.id},
         \A a \in Administrators : Told(a)
  PROVE  /\ \A a \in Administrators : IdentifierInv(a)' /\ RefusalInv(a)'
         /\ AnswersTruthful'
<1>1. \A a \in Administrators : call'[a].request = call[a].request
  BY DEF Told
<1>2. ASSUME NEW a \in Administrators
      PROVE  IdentifierInv(a)'
  <2>1. IdentifierInv(a)
    BY DEF CallsInv
  <2>2. QED
    BY <1>1, <2>1 DEF IdentifierInv
<1>3. ASSUME NEW a \in Administrators
      PROVE  RefusalInv(a)'
  <2>1. RefusalInv(a) /\ Told(a)
    BY DEF CallsInv
  <2>2. CASE call'[a].status = call[a].status /\ call[a].status = "conflict"
    <3>1. call[a].request.id # 0 /\ call[a].request.expected \in Nat
      BY <2>2, AdministratorsCall
    <3>2. call[a].request.route # "api" => \A h \in Handlers : handler'[h].request.id # call[a].request.id
      BY <2>1, <2>2, <3>1 DEF RefusalInv
    <3>3. call[a].request.route = "api" => call[a].request.expected < Len(commands')
      BY <2>1, <2>2, <3>1 DEF RefusalInv, Advances
    <3>4. QED
      BY <1>1, <3>2, <3>3 DEF RefusalInv
  <2>3. QED
    BY <1>1, <2>1, <2>2 DEF RefusalInv, Told
<1>4. ASSUME NEW a \in Administrators
      PROVE  /\ call'[a].status = "done" => Recorded(commands', call'[a].request)
             /\ call'[a].status = "conflict" => ~Recorded(commands', call'[a].request)
  <2>1. Told(a) /\ (call[a].status = "done" => Recorded(commands, call[a].request))
    BY AnswersByLog DEF CallsInv
  <2>2. call[a].status = "done" => Recorded(commands', call[a].request)
    BY <2>1, RecordedStays
  <2>3. call[a].status = "conflict" => ~Recorded(commands', call[a].request)
    BY RefusedStays
  <2>4. QED
    BY <2>1, <2>2, <2>3 DEF Told
<1>5. QED
  BY <1>2, <1>3, <1>4, AnswersByLog

(***************************************************************************)
(* How a handler's steps show to the callers.                              *)
(***************************************************************************)

\* A request stays the same under SameRequest.
LEMMA SameRequestTransitive ==
  ASSUME NEW p, NEW q, NEW r, SameRequest(p, q), SameRequest(q, r)
  PROVE  SameRequest(p, r)
BY DEF SameRequest

\* A caller whose request is still served, or who no longer waits.
LEMMA CallKept ==
  ASSUME CallsInv, Advances, NEW c \in Callers,
         call'[c].request = call[c].request,
         call'[c].status # "none" => call[c].status # "none",
         \A h \in Handlers : call'[c].status = "sent" /\ call'[c].handler = h =>
           /\ Waiting(c, h)
           /\ handler'[h].pc # "idle"
           /\ SameRequest(handler'[h].request, handler[h].request)
  PROVE  CallInv(c)'
<1>1. CallInv(c)
  BY DEF CallsInv
<1>2. call'[c].status # "none" =>
        /\ WellFormed(call'[c].request) /\ call'[c].request.caller = c
        /\ call'[c].request.expected <= control'.revision
  <2> SUFFICES ASSUME call'[c].status # "none"
               PROVE  /\ WellFormed(call[c].request) /\ call[c].request.caller = c
                      /\ call[c].request.expected <= control'.revision
    OBVIOUS
  <2>1. WellFormed(call[c].request) /\ call[c].request.caller = c /\ Timely(call[c].request)
    BY <1>1 DEF CallInv
  <2>2. call[c].request.expected \in Nat
    BY <2>1 DEF WellFormed, Request
  <2>3. QED
    BY <2>1, <2>2 DEF Timely, Advances
<1>3. ASSUME NEW h \in Handlers, call'[c].status = "sent", call'[c].handler = h
      PROVE  handler'[h].pc # "idle" /\ SameRequest(handler'[h].request, call'[c].request)
  <2>1. /\ SameRequest(handler'[h].request, handler[h].request)
        /\ SameRequest(handler[h].request, call[c].request)
    BY <1>1, <1>3 DEF CallInv
  <2>2. QED
    BY <1>3, <2>1, SameRequestTransitive
<1>4. QED
  BY <1>2, <1>3 DEF CallInv, Waiting, At, Timely

\* A handler goes on to its next step.
LEMMA MoveStep ==
  ASSUME CallsInv, Advances, handler \in [Handlers -> HandlerState], NEW h \in Handlers,
         NEW next, handler' = [handler EXCEPT ![h] = next], next.pc # "idle",
         SameRequest(next.request, handler[h].request), UNCHANGED call
  PROVE  CallsInv'
<1>1. \A g \in Handlers :
        /\ SameRequest(handler'[g].request, handler[g].request)
        /\ g = h \/ handler'[g] = handler[g]
        /\ handler'[h].pc # "idle"
  BY DEF SameRequest
<1>2. ASSUME NEW c \in Callers PROVE CallInv(c)'
  <2>1. \A g \in Handlers : Waiting(c, g) => handler[g].pc # "idle"
    BY DEF CallsInv, CallInv, At
  <2>2. QED
    BY <1>1, <2>1, CallKept DEF Waiting
<1>3. \A g \in Handlers : handler'[g].request.id \in {0, handler[g].request.id}
  BY <1>1 DEF SameRequest
<1>4. \A a \in Administrators : Told(a)
  BY DEF Told
<1>5. QED
  BY <1>2, <1>3, <1>4, NoNewRequests DEF CallsInv

\* A handler is done, and what it answers is true.
LEMMA AnswerStep ==
  ASSUME CallsInv, Advances, handler \in [Handlers -> HandlerState], NEW h \in Handlers,
         ~At(h, "idle"), NEW outcome \in Outcomes, Answer(h, outcome),
         handler[h].request.caller # Worker /\ outcome = "done" =>
           Recorded(commands', handler[h].request),
         handler[h].request.caller # Worker /\ outcome = "conflict" =>
           /\ \A i \in DOMAIN commands' : commands'[i].id # handler[h].request.id
           /\ handler[h].request.route = "api" => handler[h].request.expected < Len(commands')
  PROVE  CallsInv'
<1> DEFINE c == handler[h].request.caller
<1>1. handler' = [handler EXCEPT ![h] = IdleHandler] /\ handler[h] \in HandlerState
  BY DEF Answer
<1>2. c \in Callers /\ call \in [Callers -> CallState]
  BY <1>1 DEF HandlerState, Request, CallsInv
<1>3. /\ handler'[h] = IdleHandler
      /\ \A g \in Handlers : g # h => handler'[g] = handler[g]
  BY <1>1
<1>4. \A d \in Callers : Waiting(d, h) => d = c
  BY DEF CallsInv, CallInv, SameRequest, Waiting
<1>5. \A d \in Callers :
        IF Waiting(d, h) THEN call'[d] = [call[d] EXCEPT !.status = outcome, !.handler = None]
        ELSE call'[d] = call[d]
  <2>1. CASE Waiting(c, h)
    <3>1. call' = [call EXCEPT ![c].status = outcome, ![c].handler = None]
      BY <2>1 DEF Answer
    <3>2. QED
      BY <1>2, <1>4, <2>1, <3>1
  <2>2. CASE ~Waiting(c, h)
    <3>1. call' = call
      BY <2>2 DEF Answer
    <3>2. QED
      BY <1>4, <2>2, <3>1
  <2>3. QED
    BY <2>1, <2>2
<1>6. call' \in [Callers -> CallState]
  <2>1. CASE Waiting(c, h)
    <3>1. call' = [call EXCEPT ![c].status = outcome, ![c].handler = None]
      BY <2>1 DEF Answer
    <3>2. QED
      BY <1>2, <3>1 DEF CallState
  <2>2. CASE ~Waiting(c, h)
    BY <1>2, <2>2 DEF Answer
  <2>3. QED
    BY <2>1, <2>2
<1>7. outcome \notin {"none", "sent"}
  BY DEF Outcomes
<1>8. \A d \in Callers :
        /\ call'[d].request = call[d].request
        /\ IF Waiting(d, h) THEN call'[d].status = outcome /\ call[d].status = "sent"
           ELSE call'[d] = call[d]
  BY <1>2, <1>5 DEF CallState, Waiting
<1>9. ASSUME NEW d \in Callers PROVE CallInv(d)'
  <2>1. CallInv(d)
    BY DEF CallsInv
  <2>2. ASSUME NEW g \in Handlers, call'[d].status = "sent", call'[d].handler = g
        PROVE  /\ Waiting(d, g)
               /\ handler'[g].pc # "idle"
               /\ SameRequest(handler'[g].request, handler[g].request)
    <3>1. ~Waiting(d, h) /\ Waiting(d, g)
      BY <1>7, <1>8, <2>2 DEF Waiting
    <3>2. g # h
      BY <3>1
    <3>3. QED
      BY <1>3, <2>1, <3>1, <3>2 DEF CallInv, At, SameRequest
  <2>3. call'[d].status # "none" => call[d].status # "none"
    BY <1>8
  <2>4. QED
    BY <1>8, <2>2, <2>3, CallKept
<1>10. \A g \in Handlers : handler'[g].request.id \in {0, handler[g].request.id}
  BY <1>3, IdleType DEF IdleHandler
<1>11. ASSUME NEW a \in Administrators PROVE Told(a)
  <2>1. a \in Callers /\ a # Worker
    BY DEF Administrators
  <2>2. CASE ~Waiting(a, h)
    BY <1>8, <2>1, <2>2 DEF Told
  <2>3. CASE Waiting(a, h)
    <3>1. a = c /\ SameRequest(handler[h].request, call[a].request)
      BY <1>4, <2>1, <2>3 DEF CallsInv, CallInv
    <3>2. /\ call'[a].request = call[a].request /\ call'[a].status = outcome
          /\ call[a].status = "sent"
      BY <1>8, <2>1, <2>3
    <3>3. CASE outcome = "done"
      <4>1. Recorded(commands', handler[h].request)
        BY <2>1, <3>1, <3>3
      <4>2. Recorded(commands', call[a].request)
        BY <3>1, <4>1 DEF SameRequest, Recorded
      <4>3. QED
        BY <3>2, <3>3, <4>2 DEF Told
    <3>4. CASE outcome = "conflict"
      <4>1. /\ \A i \in DOMAIN commands' : commands'[i].id # call[a].request.id
            /\ call[a].request.route = "api" => call[a].request.expected < Len(commands')
        BY <2>1, <3>1, <3>4 DEF SameRequest
      <4>2. ~Recorded(commands', call[a].request)
        BY <4>1 DEF Recorded
      <4>3. call[a].request.id # 0 /\ call[a].request.route \in {"api", "fresh"}
        BY <3>2, AdministratorsCall
      <4>4. ASSUME call[a].request.route # "api", NEW g \in Handlers
            PROVE  handler'[g].request.id # call[a].request.id
        <5>1. IdentifierInv(a)
          BY DEF CallsInv
        <5>2. g # h => handler[g].request.id # call[a].request.id
          BY <3>1, <4>3, <4>4, <5>1 DEF IdentifierInv, SameRequest
        <5>3. handler'[h].request.id = 0
          BY <1>3, IdleType DEF IdleHandler
        <5>4. QED
          BY <1>3, <4>3, <5>2, <5>3
      <4>5. QED
        BY <3>2, <3>4, <4>1, <4>2, <4>4 DEF Told
    <3>5. CASE outcome \notin {"done", "conflict"}
      BY <3>2, <3>5 DEF Told
    <3>6. QED
      BY <3>3, <3>4, <3>5
  <2>4. QED
    BY <2>2, <2>3
<1>12. QED
  BY <1>6, <1>9, <1>10, <1>11, NoNewRequests DEF CallsInv

(***************************************************************************)
(* Handlers next to the one that takes a step, and idle ones.              *)
(***************************************************************************)

\* A handler that does not move finds the tables further on, and as they were
\* when it holds the row.
LEMMA Bystander ==
  ASSUME HandlersInv, Advances, NEW g \in Handlers,
         handler'[g] = handler[g], clock' \in Nat, clock <= clock',
         At(g, "commit") => UNCHANGED <<control, commands, lock>>
  PROVE  HandlerInv(g)' /\ TransactionInv(g)'
<1> DEFINE request == handler[g].request
           seen == handler[g].seen
<1>1. HandlerInv(g) /\ TransactionInv(g) /\ handler[g] \in HandlerState /\ clock \in Nat
  BY DEF HandlersInv
<1>2. handler[g].stamp <= clock'
  <2>1. handler[g].stamp \in Nat /\ handler[g].stamp <= clock
    BY <1>1, ServiceConstants DEF HandlerInv, HandlerState
  <2>2. QED
    BY <1>1, <2>1
<1>3. Timely(request) => request.expected <= control'.revision
  <2>1. request.expected \in Nat
    BY <1>1 DEF HandlerState, Request
  <2>2. QED
    BY <2>1 DEF Timely, Advances
<1>4. HandlerInv(g)'
  BY <1>1, <1>2, <1>3 DEF HandlerInv, At, Timely
<1>5. ASSUME handler[g].pc \in {"lock", "commit"}
      PROVE  /\ seen \in Seen
             /\ seen.revision <= control'.revision
             /\ seen.entries = seen.revision
             /\ seen.revision = control'.revision /\ Executes(request) => ~Logged(request.id)'
  <2>1. /\ seen \in Seen
        /\ seen.revision <= control.revision
        /\ seen.entries = seen.revision
        /\ seen.revision = control.revision /\ Executes(request) => ~Logged(request.id)
    BY <1>1, <1>5 DEF TransactionInv
  <2>2. seen.revision \in Nat
    BY <2>1 DEF Seen
  <2>3. seen.revision <= control'.revision
    BY <2>1, <2>2 DEF Advances
  <2>4. ASSUME seen.revision = control'.revision, Executes(request)
        PROVE  \A i \in DOMAIN commands' : commands'[i].id # request.id
    <3>1. control'.revision = control.revision
      BY <2>1, <2>2, <2>4 DEF Advances
    <3>2. commands' = commands /\ ~Logged(request.id)
      BY <2>1, <2>4, <3>1 DEF Advances
    <3>3. QED
      BY <3>2 DEF Logged
  <2>5. QED
    BY <2>1, <2>3, <2>4 DEF Logged
<1>6. ASSUME handler[g].pc = "commit"
      PROVE  /\ lock' = g
             /\ seen.revision = control'.revision
             /\ Executes(request) =>
                  /\ request.expected = control'.revision
                  /\ Applicable(control', request.command)
                  /\ Signable(NextState(control', request.command), handler[g].stamp)
  <2>1. UNCHANGED <<control, lock>>
    BY <1>6 DEF At
  <2>2. QED
    BY <1>1, <1>6, <2>1 DEF TransactionInv, At
<1>7. TransactionInv(g)'
  BY <1>5, <1>6 DEF TransactionInv, At, Logged
<1>8. QED
  BY <1>4, <1>7

\* One handler moves, and is found in order.
LEMMA HandlersStep ==
  ASSUME HandlersInv, Advances, NEW h \in Handlers, NEW next \in HandlerState,
         handler' = [handler EXCEPT ![h] = next], UNCHANGED clock,
         lock' \in Handlers \cup {None},
         \A g \in Handlers : g # h /\ At(g, "commit") => UNCHANGED <<control, commands, lock>>,
         HandlerInv(h)', TransactionInv(h)'
  PROVE  HandlersInv'
<1>1. handler \in [Handlers -> HandlerState] /\ clock \in 0 .. MaxTime /\ clock \in Nat
  BY DEF HandlersInv
<1>2. handler' \in [Handlers -> HandlerState]
  BY <1>1
<1>3. ASSUME NEW g \in Handlers PROVE HandlerInv(g)' /\ TransactionInv(g)'
  <2>1. CASE g = h
    BY <2>1
  <2>2. CASE g # h
    <3>1. handler'[g] = handler[g]
      BY <1>1, <2>2
    <3>2. clock' \in Nat /\ clock <= clock'
      BY <1>1
    <3>3. At(g, "commit") => UNCHANGED <<control, commands, lock>>
      BY <2>2
    <3>4. QED
      BY <3>1, <3>2, <3>3, Bystander
  <2>3. QED
    BY <2>1, <2>2
<1>4. QED
  BY <1>1, <1>2, <1>3 DEF HandlersInv

\* A handler that is done is in order.
LEMMA AnswerHandlers ==
  ASSUME HandlersInv, Advances, NEW h \in Handlers, NEW outcome, Answer(h, outcome),
         UNCHANGED clock, lock' \in Handlers \cup {None},
         \A g \in Handlers : g # h /\ At(g, "commit") => UNCHANGED <<control, commands, lock>>
  PROVE  HandlersInv'
<1>1. handler' = [handler EXCEPT ![h] = IdleHandler] /\ handler \in [Handlers -> HandlerState]
  BY DEF Answer, HandlersInv
<1>2. handler'[h] = IdleHandler /\ clock' \in Nat
  BY <1>1 DEF HandlersInv
<1>3. IdleHandler.pc = "idle" /\ IdleHandler.stamp = 0 /\ IdleHandler.request.id = 0
  BY IdleType DEF IdleHandler
<1>4. HandlerInv(h)' /\ TransactionInv(h)'
  BY <1>2, <1>3 DEF HandlerInv, TransactionInv, At
<1>5. QED
  BY <1>1, <1>4, IdleType, HandlersStep

(***************************************************************************)
(* A request arrives.                                                      *)
(***************************************************************************)
Submittable(request) ==
  /\ WellFormed(request) /\ Timely(request)
  /\ ~Executes(request) => request.id = 0
  /\ Executes(request) =>
       \/ ~InUse(request.id)
       \/ /\ request.caller \in Administrators /\ request.route = "api"
          /\ request.id = call[request.caller].request.id

Submission(request) ==
  Submittable(request) /\ Submit(request) /\ UNCHANGED <<database, clock>>

\* What a handler starts with.
Started(pc, stamp, request) ==
  [IdleHandler EXCEPT !.pc = pc, !.stamp = stamp, !.request = request]

\* It is a handler's state, with the request in it.
LEMMA StartedType ==
  ASSUME NEW pc \in {"begin", "check", "read"}, NEW stamp \in 0 .. MaxTime, NEW request \in Request
  PROVE  /\ Started(pc, stamp, request) \in HandlerState
         /\ Started(pc, stamp, request).pc = pc
         /\ Started(pc, stamp, request).stamp = stamp
         /\ Started(pc, stamp, request).request = request
<1>1. IdleHandler \in HandlerState
  BY IdleType
<1> HIDE DEF IdleHandler
<1>2. QED
  BY <1>1 DEF Started, HandlerState

\* The handler that takes a request is in order, and the callers' requests
\* stay their own.
LEMMA SubmissionStep ==
  ASSUME TablesInv, HandlersInv, CallsInv, NEW request, Submission(request)
  PROVE  HandlersInv' /\ CallsInv'
<1> DEFINE c == request.caller
<1>1. Advances /\ UNCHANGED <<control, commands, published, lock, clock>>
  BY AdvancesNot DEF Submission, database
<1>2. WellFormed(request) /\ Timely(request) /\ request \in Request /\ c \in Callers
  BY DEF Submission, Submittable, WellFormed, Request
<1>3. PICK h \in Handlers :
        /\ Free(h)
        /\ handler' = [handler EXCEPT ![h] = Started(FirstStep(request), clock, request)]
        /\ call' = [call EXCEPT ![c] = [status |-> "sent", handler |-> h, request |-> request]]
  BY DEF Submission, Submit, Started
<1> DEFINE next == Started(FirstStep(request), clock, request)
           sent == [status |-> "sent", handler |-> h, request |-> request]
<1>4. /\ handler \in [Handlers -> HandlerState] /\ call \in [Callers -> CallState]
      /\ clock \in 0 .. MaxTime /\ lock \in Handlers \cup {None}
  BY DEF HandlersInv, CallsInv
<1>5. FirstStep(request) \in {"begin", "check", "read"}
  BY DEF FirstStep
<1>6. next.pc = FirstStep(request) /\ next.stamp = clock /\ next.request = request
  BY <1>2, <1>4, <1>5, StartedType
<1>7. next \in HandlerState
  BY <1>2, <1>4, <1>5, StartedType
<1>8. sent \in CallState
  BY <1>2 DEF CallState, Outcomes
<1>9. handler'[h] = next /\ \A g \in Handlers : g # h => handler'[g] = handler[g]
  BY <1>3, <1>4
<1>10. call'[c] = sent /\ \A d \in Callers : d # c => call'[d] = call[d]
  BY <1>2, <1>3, <1>4
<1>11. At(h, "idle") /\ handler[h].request.id = 0
  BY <1>3 DEF Free, HandlersInv, HandlerInv
<1>12. \A d \in Callers : ~Waiting(d, h)
  BY <1>11 DEF CallsInv, CallInv
<1>13. HandlersInv'
  <2>1. next.pc = "check" => request.caller = Worker
    BY <1>2, <1>6 DEF FirstStep, WellFormed, Authorized, Executes, SystemCommands
  <2>2. next.pc \in {"check", "read"} => request.route = "fresh"
    BY <1>2, <1>6 DEF FirstStep, Request
  <2>3. next.pc \notin {"idle", "lock", "commit"}
    BY <1>5, <1>6
  <2>4. clock \in Nat /\ clock' = clock
    BY <1>1, <1>4
  <2>5. request.expected <= control'.revision
    BY <1>1, <1>2 DEF Timely
  <2> HIDE DEF next
  <2>6. HandlerInv(h)'
    BY <1>2, <1>6, <1>9, <2>1, <2>2, <2>3, <2>4, <2>5 DEF HandlerInv, At, Timely
  <2>7. TransactionInv(h)'
    BY <1>9, <2>3 DEF TransactionInv, At
  <2>8. handler' = [handler EXCEPT ![h] = next]
    BY <1>3 DEF next
  <2>9. QED
    BY <1>1, <1>4, <1>7, <2>6, <2>7, <2>8, HandlersStep
<1> HIDE DEF next, sent
<1>14. sent.status = "sent" /\ sent.handler = h /\ sent.request = request
  BY DEF sent
<1>15. ASSUME NEW d \in Callers PROVE CallInv(d)'
  <2>1. CASE d = c
    <3>1. \A g \in Handlers : call'[c].handler = g => g = h
      BY <1>10, <1>14
    <3>2. handler'[h].pc # "idle" /\ SameRequest(handler'[h].request, request)
      BY <1>5, <1>6, <1>9 DEF SameRequest
    <3>3. request.expected <= control'.revision
      BY <1>1, <1>2 DEF Timely
    <3>4. QED
      BY <1>2, <1>10, <1>14, <2>1, <3>1, <3>2, <3>3 DEF CallInv, Waiting, At, Timely
  <2>2. CASE d # c
    <3>1. ASSUME NEW g \in Handlers, Waiting(d, g)
          PROVE  handler'[g].pc # "idle" /\ SameRequest(handler'[g].request, handler[g].request)
      <4>1. g # h /\ ~At(g, "idle")
        BY <1>12, <3>1 DEF CallsInv, CallInv
      <4>2. QED
        BY <1>9, <4>1 DEF At, SameRequest
    <3>2. call'[d] = call[d]
      BY <1>10, <2>2
    <3>3. QED
      BY <1>1, <3>1, <3>2, CallKept DEF Waiting
  <2>3. QED
    BY <2>1, <2>2
<1>16. ASSUME NEW a \in Administrators, a # c, call[a].request.id # 0
       PROVE  request.id # call[a].request.id
  <2>1. CASE ~Executes(request)
    BY <1>16, <2>1 DEF Submission, Submittable
  <2>2. CASE ~InUse(request.id)
    BY <2>2 DEF InUse
  <2>3. CASE c \in Administrators /\ request.id = call[c].request.id
    BY <1>16, <2>3 DEF CallsInv, IdentifierInv
  <2>4. QED
    BY <2>1, <2>2, <2>3 DEF Submission, Submittable
<1>17. Administrators \subseteq Callers
  BY DEF Administrators
<1>18. ASSUME NEW a \in Administrators PROVE IdentifierInv(a)'
  <2>1. IdentifierInv(a)
    BY DEF CallsInv
  <2>2. CASE a # c
    <3>1. call'[a] = call[a]
      BY <1>10, <1>17, <2>2
    <3> SUFFICES ASSUME call[a].request.id # 0
                 PROVE  /\ \A b \in Administrators : call'[b].request.id = call[a].request.id => b = a
                        /\ call[a].request.route = "fresh" =>
                             \A f, g \in Handlers : /\ handler'[f].request.id = call[a].request.id
                                                    /\ handler'[g].request.id = call[a].request.id
                                                    => f = g
      BY <3>1 DEF IdentifierInv
    <3>2. request.id # call[a].request.id
      BY <1>16, <2>2
    <3>3. call'[c].request.id = request.id /\ handler'[h].request.id = request.id
      BY <1>6, <1>9, <1>10, <1>14
    <3>4. \A b \in Administrators : call'[b].request.id = call[a].request.id => b = a
      BY <1>10, <1>17, <2>1, <3>2, <3>3 DEF IdentifierInv
    <3>5. \A f \in Handlers : handler'[f].request.id = call[a].request.id =>
            handler[f].request.id = call[a].request.id
      BY <1>9, <3>2, <3>3
    <3>6. QED
      BY <2>1, <3>4, <3>5 DEF IdentifierInv
  <2>3. CASE a = c
    <3>1. call'[a].request = request
      BY <1>10, <1>14, <2>3
    <3> SUFFICES ASSUME request.id # 0
                 PROVE  /\ \A b \in Administrators : call'[b].request.id = request.id => b = a
                        /\ request.route = "fresh" =>
                             \A f, g \in Handlers : /\ handler'[f].request.id = request.id
                                                    /\ handler'[g].request.id = request.id
                                                    => f = g
      BY <3>1 DEF IdentifierInv
    <3>2. \A b \in Administrators : call'[b].request.id = request.id => b = a
      BY <1>10, <1>16, <1>17, <2>3
    <3>3. ASSUME request.route = "fresh", NEW f \in Handlers, handler'[f].request.id = request.id
          PROVE  f = h
      <4>1. ~InUse(request.id)
        BY <3>3 DEF Submission, Submittable, Executes
      <4>2. QED
        BY <1>9, <3>3, <4>1 DEF InUse
    <3>4. QED
      BY <3>2, <3>3
  <2>4. QED
    BY <2>2, <2>3
<1>19. ASSUME NEW a \in Administrators PROVE RefusalInv(a)'
  <2>1. CASE a = c
    BY <1>10, <1>14, <1>17, <2>1 DEF RefusalInv
  <2>2. CASE a # c
    <3>1. call'[a] = call[a] /\ RefusalInv(a)
      BY <1>10, <1>17, <2>2 DEF CallsInv
    <3> SUFFICES ASSUME call[a].status = "conflict"
                 PROVE  /\ call[a].request.route = "api" => call[a].request.expected < Len(commands)
                        /\ call[a].request.route # "api" =>
                             \A g \in Handlers : handler'[g].request.id # call[a].request.id
      BY <1>1, <3>1 DEF RefusalInv
    <3>2. call[a].request.id # 0
      BY AdministratorsCall
    <3>3. request.id # call[a].request.id /\ handler'[h].request.id = request.id
      BY <1>6, <1>9, <1>16, <2>2, <3>2
    <3>4. QED
      BY <1>9, <3>1, <3>3 DEF RefusalInv
  <2>3. QED
    BY <2>1, <2>2
<1>20. AnswersTruthful'
  <2>1. commands' = commands
    BY <1>1
  <2>2. ASSUME NEW a \in Administrators
        PROVE  /\ call'[a].status = "done" => Recorded(commands', call'[a].request)
               /\ call'[a].status = "conflict" => ~Recorded(commands', call'[a].request)
    <3>1. CASE a = c
      BY <1>10, <1>14, <3>1
    <3>2. CASE a # c
      BY <1>10, <1>17, <2>1, <3>2, AnswersByLog DEF CallsInv
    <3>3. QED
      BY <3>1, <3>2
  <2>3. QED
    BY <2>2, AnswersByLog
<1>21. call' \in [Callers -> CallState]
  BY <1>2, <1>3, <1>4, <1>8 DEF sent
<1>22. QED
  BY <1>13, <1>15, <1>18, <1>19, <1>20, <1>21 DEF CallsInv

(***************************************************************************)
(* The steps of a handler that leave the tables alone.                     *)
(***************************************************************************)

\* The tables stay in order when nobody writes to them.
LEMMA TablesStay ==
  ASSUME TablesInv, RoomInv, UNCHANGED <<control, commands, published, clock>>
  PROVE  TablesInv' /\ RoomInv'
<1>1. FloorInv' /\ HistoryInv' /\ PublicationInv'
  BY DEF TablesInv, FloorInv, HistoryInv, PublicationInv, Entry, Revisions
<1>2. AuditChained' /\ ReleasesMoveForward'
  BY DEF TablesInv, AuditChained, ReleasesMoveForward, Entry
<1>3. RoomInv'
  BY DEF RoomInv, StateSignable
<1>4. QED
  BY <1>1, <1>2, <1>3 DEF TablesInv

\* What remains of a handler that only goes on.
LEMMA GoesOn ==
  ASSUME NEW s \in HandlerState, NEW pc \in {"check", "read", "begin", "lock", "commit"}
  PROVE  LET next == [s EXCEPT !.pc = pc] IN
         /\ next \in HandlerState
         /\ next.pc = pc /\ next.stamp = s.stamp /\ next.request = s.request /\ next.seen = s.seen
BY DEF HandlerState

\* The worker's release route finds nothing to do, or goes on (CheckRelease).
LEMMA CheckReleaseStep ==
  ASSUME ControlInv, NEW h \in Handlers, CheckRelease(h)
  PROVE  HandlersInv' /\ CallsInv'
<1> USE DEF ControlInv
<1>1. Advances /\ UNCHANGED <<control, commands, published, lock, clock>> /\ At(h, "check")
  BY AdvancesNot DEF CheckRelease, database
<1>2. /\ handler \in [Handlers -> HandlerState] /\ handler[h] \in HandlerState
      /\ HandlerInv(h) /\ lock' \in Handlers \cup {None}
  BY <1>1 DEF HandlersInv
<1>3. handler[h].request.caller = Worker /\ handler[h].request.route = "fresh" /\ ~At(h, "idle")
  BY <1>1, <1>2 DEF HandlerInv, At
<1>4. CASE Answer(h, "done")
  <2>1. HandlersInv'
    BY <1>1, <1>2, <1>4, AnswerHandlers
  <2>2. CallsInv'
    BY <1>1, <1>2, <1>3, <1>4, AnswerStep DEF Outcomes
  <2>3. QED
    BY <2>1, <2>2
<1>5. CASE Goto(h, "read")
  <2> DEFINE next == [handler[h] EXCEPT !.pc = "read"]
  <2>1. handler' = [handler EXCEPT ![h] = next] /\ UNCHANGED call
    BY <1>5 DEF Goto
  <2>2. /\ next \in HandlerState /\ next.pc = "read"
        /\ next.stamp = handler[h].stamp /\ next.request = handler[h].request
    BY <1>2, GoesOn
  <2> HIDE DEF next
  <2>3. handler'[h] = next
    BY <1>2, <2>1
  <2>4. HandlerInv(h)' /\ TransactionInv(h)'
    BY <1>1, <1>2, <1>3, <2>2, <2>3 DEF HandlerInv, TransactionInv, At, Timely
  <2>5. HandlersInv'
    BY <1>1, <1>2, <2>1, <2>2, <2>4, HandlersStep
  <2>6. SameRequest(next.request, handler[h].request)
    BY <2>2 DEF SameRequest
  <2>7. CallsInv'
    BY <1>1, <1>2, <2>1, <2>2, <2>6, MoveStep
  <2>8. QED
    BY <2>5, <2>7
<1>6. QED
  BY <1>4, <1>5 DEF CheckRelease

\* A handler that looked up the revision.
LookedUp(s, now, revision) ==
  [s EXCEPT !.pc = "begin", !.stamp = now, !.request.expected = revision]

\* It is a handler's state, with the revision in its request.
LEMMA LooksUp ==
  ASSUME NEW s \in HandlerState, NEW now \in 0 .. MaxTime, NEW revision \in Nat
  PROVE  /\ LookedUp(s, now, revision) \in HandlerState
         /\ LookedUp(s, now, revision).pc = "begin"
         /\ LookedUp(s, now, revision).stamp = now
         /\ LookedUp(s, now, revision).request = [s.request EXCEPT !.expected = revision]
<1>1. s.request \in Request
  BY DEF HandlerState
<1>2. [s.request EXCEPT !.expected = revision] \in Request
  BY <1>1 DEF Request
<1>3. QED
  BY <1>2 DEF HandlerState, LookedUp

\* What looking up the revision leaves of a request.
LEMMA LooksUpRequest ==
  ASSUME NEW r \in Request, NEW revision \in Nat
  PROVE  LET next == [r EXCEPT !.expected = revision] IN
         /\ next.expected = revision
         /\ next.caller = r.caller /\ next.route = r.route /\ next.id = r.id
         /\ next.command = r.command
         /\ WellFormed(r) => WellFormed(next)
<1> DEFINE next == [r EXCEPT !.expected = revision]
<1>1. /\ next \in Request /\ next.expected = revision
      /\ next.caller = r.caller /\ next.route = r.route /\ next.id = r.id
      /\ next.command = r.command
  BY DEF Request
<1> HIDE DEF next
<1>2. WellFormed(r) => WellFormed(next)
  BY <1>1 DEF WellFormed, Executes
<1>3. QED
  BY <1>1, <1>2 DEF next

\* executeFresh looks the revision up.
LEMMA ReadRevisionStep ==
  ASSUME ControlInv, NEW h \in Handlers, ReadRevision(h)
  PROVE  HandlersInv' /\ CallsInv'
<1> USE DEF ControlInv
<1> DEFINE next == LookedUp(handler[h], clock, control.revision)
           request == handler[h].request
<1>1. /\ Advances /\ UNCHANGED <<control, commands, published, lock, clock>> /\ At(h, "read")
      /\ UNCHANGED call
  BY AdvancesNot DEF ReadRevision, database
<1>2. /\ handler \in [Handlers -> HandlerState] /\ handler[h] \in HandlerState
      /\ HandlerInv(h) /\ lock' \in Handlers \cup {None} /\ clock \in 0 .. MaxTime
  BY <1>1 DEF HandlersInv
<1>3. /\ control.revision \in Nat /\ request \in Request
      /\ request.route = "fresh" /\ WellFormed(request)
  BY <1>1, <1>2 DEF Advances, HandlerInv, At, WellFormed
<1>4. handler' = [handler EXCEPT ![h] = next]
  BY DEF ReadRevision, LookedUp
<1>5. /\ next \in HandlerState /\ next.pc = "begin" /\ next.stamp = clock
      /\ next.request = [request EXCEPT !.expected = control.revision]
  BY <1>2, <1>3, LooksUp
<1> HIDE DEF next
<1>6. /\ next.request.expected = control.revision /\ WellFormed(next.request)
      /\ next.request.caller = request.caller /\ next.request.route = request.route
      /\ next.request.id = request.id /\ next.request.command = request.command
  BY <1>3, <1>5, LooksUpRequest
<1>7. SameRequest(next.request, handler[h].request)
  BY <1>3, <1>6 DEF SameRequest
<1>8. handler'[h] = next
  BY <1>2, <1>4
<1>9. HandlerInv(h)' /\ TransactionInv(h)'
  <2>1. next.stamp <= clock' /\ next.request.expected <= control'.revision
    BY <1>1, <1>2, <1>3, <1>5, <1>6
  <2>2. HandlerInv(h)'
    BY <1>5, <1>6, <1>8, <2>1 DEF HandlerInv, At, Timely
  <2>3. TransactionInv(h)'
    BY <1>5, <1>8 DEF TransactionInv, At
  <2>4. QED
    BY <2>2, <2>3
<1>10. HandlersInv'
  BY <1>1, <1>2, <1>4, <1>5, <1>9, HandlersStep
<1>11. CallsInv'
  BY <1>1, <1>2, <1>4, <1>5, <1>7, MoveStep
<1>12. QED
  BY <1>10, <1>11

\* A replay is answered for the request that is in the log.
LEMMA ReplayRecorded ==
  ASSUME TablesInv, NEW h \in Handlers, Logged(handler[h].request.id), ReplayMatches(Envelope(h))
  PROVE  Recorded(commands, handler[h].request)
<1> DEFINE r == handler[h].request
           i == CHOOSE i \in DOMAIN commands : commands[i].id = r.id
<1>1. i \in DOMAIN commands /\ commands[i].id = r.id
  BY DEF Logged
<1>2. /\ commands[i].actor = r.caller /\ commands[i].revision = r.expected + 1
      /\ commands[i].command = r.command
  BY DEF ReplayMatches, Envelope, EntryOf
<1> HIDE DEF i
<1>3. commands[i].revision = i
  BY <1>1 DEF TablesInv, AuditChained, Entry
<1>4. QED
  BY <1>1, <1>2, <1>3 DEF Recorded

\* A transaction sees the tables as they are.
LEMMA SnapshotType ==
  ASSUME TablesInv
  PROVE  /\ Snapshot \in Seen
         /\ Snapshot.revision = control.revision /\ Snapshot.entries = control.revision
<1>1. control.revision \in Nat /\ Len(commands) = control.revision
  BY DEF TablesInv, FloorInv, State, AuditChained
<1>2. PublishedAt(control.revision) \in Snapshots \cup {None}
  BY DEF TablesInv, PublicationInv, PublishedAt
<1>3. QED
  BY <1>1, <1>2 DEF Snapshot, Seen

\* A handler that takes up what its transaction sees, or forgets it.
TookUp(s, seen) == [s EXCEPT !.pc = "lock", !.seen = seen]
Retried(s) == [s EXCEPT !.pc = "read", !.attempt = s.attempt + 1, !.seen = None]

\* Taking up what the transaction sees leaves the request alone.
LEMMA TakesUp ==
  ASSUME NEW s \in HandlerState, NEW seen \in Seen
  PROVE  /\ TookUp(s, seen) \in HandlerState
         /\ TookUp(s, seen).pc = "lock" /\ TookUp(s, seen).seen = seen
         /\ TookUp(s, seen).stamp = s.stamp /\ TookUp(s, seen).request = s.request
BY DEF HandlerState, TookUp

\* So does the second attempt.
LEMMA Retries ==
  ASSUME NEW s \in HandlerState, s.attempt = 0
  PROVE  /\ Retried(s) \in HandlerState
         /\ Retried(s).pc = "read"
         /\ Retried(s).stamp = s.stamp /\ Retried(s).request = s.request
<1>1. s.attempt + 1 \in 0 .. 1
  OBVIOUS
<1>2. QED
  BY <1>1 DEF HandlerState, Retried

\* A transaction starts: it answers a replay, or takes up what it sees.
LEMMA BeginStep ==
  ASSUME ControlInv, NEW h \in Handlers, Begin(h)
  PROVE  HandlersInv' /\ CallsInv'
<1> USE DEF ControlInv
<1> DEFINE request == handler[h].request
<1>1. Advances /\ UNCHANGED <<control, commands, published, lock, clock>> /\ At(h, "begin")
  BY AdvancesNot DEF Begin, database
<1>2. /\ handler \in [Handlers -> HandlerState] /\ handler[h] \in HandlerState
      /\ HandlerInv(h) /\ lock' \in Handlers \cup {None} /\ clock \in 0 .. MaxTime
      /\ ~At(h, "idle") /\ WellFormed(request) /\ Timely(request)
  BY <1>1 DEF HandlersInv, HandlerInv, At
<1>3. CASE Executes(request) /\ Logged(request.id)
  <2> DEFINE outcome == IF ReplayMatches(Envelope(h)) THEN "done" ELSE "mismatch"
  <2>1. Answer(h, outcome) /\ outcome \in Outcomes
    BY <1>3 DEF Begin, Executes, Outcomes
  <2>2. outcome = "done" => Recorded(commands', request)
    BY <1>1, <1>3, ReplayRecorded
  <2>3. outcome # "conflict"
    OBVIOUS
  <2> HIDE DEF outcome
  <2>4. HandlersInv'
    BY <1>1, <1>2, <2>1, AnswerHandlers
  <2>5. CallsInv'
    BY <1>1, <1>2, <2>1, <2>2, <2>3, AnswerStep
  <2>6. QED
    BY <2>4, <2>5
<1>4. CASE ~(Executes(request) /\ Logged(request.id))
  <2> DEFINE next == TookUp(handler[h], Snapshot)
  <2>1. handler' = [handler EXCEPT ![h] = next] /\ UNCHANGED call
    BY <1>4 DEF Begin, Executes, TookUp
  <2>2. /\ Snapshot \in Seen
        /\ Snapshot.revision = control.revision /\ Snapshot.entries = control.revision
    BY SnapshotType
  <2>3. /\ next \in HandlerState /\ next.pc = "lock" /\ next.stamp = handler[h].stamp
        /\ next.request = request /\ next.seen = Snapshot
    BY <1>2, <2>2, TakesUp
  <2> HIDE DEF next
  <2>4. handler'[h] = next
    BY <1>2, <2>1
  <2>5. HandlerInv(h)'
    BY <1>1, <1>2, <2>3, <2>4 DEF HandlerInv, At, Timely
  <2>6. control.revision \in Nat
    BY <1>1 DEF Advances
  <2>7. TransactionInv(h)'
    BY <1>1, <1>4, <2>2, <2>3, <2>4, <2>6 DEF TransactionInv, At, Logged
  <2>8. HandlersInv'
    BY <1>1, <1>2, <2>1, <2>3, <2>5, <2>7, HandlersStep
  <2>9. SameRequest(next.request, handler[h].request)
    BY <2>3 DEF SameRequest
  <2>10. CallsInv'
    BY <1>1, <1>2, <2>1, <2>3, <2>9, MoveStep
  <2>11. QED
    BY <2>8, <2>10
<1>5. QED
  BY <1>3, <1>4

\* A transaction gets the row and finds that it may go on, or answers.
LEMMA LockStep ==
  ASSUME ControlInv, NEW h \in Handlers, Lock(h)
  PROVE  HandlersInv' /\ CallsInv'
<1> USE DEF ControlInv
<1> DEFINE request == handler[h].request
           seen == handler[h].seen
           e == Envelope(h)
<1>1. Advances /\ UNCHANGED <<control, commands, published, clock>> /\ At(h, "lock") /\ lock = None
  BY AdvancesNot DEF Lock, tables
<1>2. /\ handler \in [Handlers -> HandlerState] /\ handler[h] \in HandlerState
      /\ HandlerInv(h) /\ clock \in 0 .. MaxTime
      /\ ~At(h, "idle") /\ WellFormed(request) /\ Timely(request)
      /\ TransactionInv(h)
  BY <1>1 DEF HandlersInv, HandlerInv, At
<1>3. \A g \in Handlers : ~At(g, "commit")
  BY <1>1, ServiceConstants DEF HandlersInv, TransactionInv
<1>4. /\ e.route = request.route /\ e.seen = seen /\ e.expected = request.expected
      /\ e.command = request.command /\ e.stamp = handler[h].stamp
  BY DEF Envelope
<1>5. /\ seen \in Seen /\ seen.entries = seen.revision
      /\ seen.revision = control.revision /\ Executes(request) => ~Logged(request.id)
  BY <1>1, <1>2 DEF TransactionInv, At
<1>6. lock' \in Handlers \cup {None}
  BY <1>1 DEF Lock, LockControlState
<1>7. request.expected \in Nat /\ control.revision \in Nat /\ Len(commands) = control.revision
  BY <1>1, <1>2 DEF WellFormed, Request, Advances, TablesInv, AuditChained
<1>8. ASSUME NEW outcome \in {"failed", "refused"}, Answer(h, outcome)
      PROVE  HandlersInv' /\ CallsInv'
  <2>1. HandlersInv'
    BY <1>1, <1>3, <1>6, <1>8, AnswerHandlers
  <2>2. outcome \in Outcomes /\ outcome # "done" /\ outcome # "conflict"
    BY DEF Outcomes
  <2>3. CallsInv'
    BY <1>1, <1>2, <1>8, <2>2, AnswerStep
  <2>4. QED
    BY <2>1, <2>3
<1>9. ASSUME Conflict(h), Executes(request), control.revision # request.expected,
             seen.revision = control.revision
      PROVE  HandlersInv' /\ CallsInv'
  <2>1. CASE RetryConflict(h)
    <3> DEFINE next == Retried(handler[h])
    <3>1. handler' = [handler EXCEPT ![h] = next] /\ UNCHANGED call
      BY <1>9, <2>1 DEF Conflict, Retried
    <3>2. /\ next \in HandlerState /\ next.pc = "read" /\ next.stamp = handler[h].stamp
          /\ next.request = request /\ request.route = "fresh"
      BY <1>2, <2>1, Retries DEF RetryConflict
    <3> HIDE DEF next
    <3>3. handler'[h] = next
      BY <1>2, <3>1
    <3>4. HandlerInv(h)' /\ TransactionInv(h)'
      BY <1>1, <1>2, <3>2, <3>3 DEF HandlerInv, TransactionInv, At, Timely
    <3>5. HandlersInv'
      BY <1>1, <1>3, <1>6, <3>1, <3>2, <3>4, HandlersStep
    <3>6. SameRequest(next.request, handler[h].request)
      BY <3>2 DEF SameRequest
    <3>7. CallsInv'
      BY <1>1, <1>2, <3>1, <3>2, <3>6, MoveStep
    <3>8. QED
      BY <3>5, <3>7
  <2>2. CASE ~RetryConflict(h)
    <3>1. Answer(h, "conflict") /\ "conflict" \in Outcomes
      BY <1>9, <2>2 DEF Conflict, Outcomes
    <3>2. HandlersInv'
      BY <1>1, <1>3, <1>6, <3>1, AnswerHandlers
    <3>3. \A i \in DOMAIN commands' : commands'[i].id # request.id
      BY <1>1, <1>5, <1>9 DEF Logged
    <3>4. request.expected < Len(commands')
      BY <1>1, <1>2, <1>7, <1>9 DEF Timely
    <3>5. CallsInv'
      BY <1>1, <1>2, <3>1, <3>3, <3>4, AnswerStep
    <3>6. QED
      BY <3>2, <3>5
  <2>3. QED
    BY <2>1, <2>2
<1>10. ASSUME Goto(h, "commit"), LockControlState(h), seen.revision = control.revision,
              Executes(request) =>
                /\ request.expected = control.revision
                /\ Applicable(control, request.command)
                /\ Signable(NextState(control, request.command), handler[h].stamp)
       PROVE  HandlersInv' /\ CallsInv'
  <2> DEFINE next == [handler[h] EXCEPT !.pc = "commit"]
  <2>1. handler' = [handler EXCEPT ![h] = next] /\ UNCHANGED call
    BY <1>10 DEF Goto
  <2>2. /\ next \in HandlerState /\ next.pc = "commit"
        /\ next.stamp = handler[h].stamp /\ next.request = handler[h].request
        /\ next.seen = handler[h].seen
    BY <1>2, GoesOn
  <2> HIDE DEF next
  <2>3. handler'[h] = next /\ lock' = h
    BY <1>2, <1>10, <2>1 DEF LockControlState
  <2>4. HandlerInv(h)'
    BY <1>1, <1>2, <2>2, <2>3 DEF HandlerInv, At, Timely
  <2>5. TransactionInv(h)'
    BY <1>1, <1>5, <1>7, <1>10, <2>2, <2>3 DEF TransactionInv, At, Logged
  <2>6. HandlersInv'
    BY <1>1, <1>3, <1>6, <2>1, <2>2, <2>4, <2>5, HandlersStep
  <2>7. SameRequest(next.request, handler[h].request)
    BY <2>2 DEF SameRequest
  <2>8. CallsInv'
    BY <1>1, <1>2, <2>1, <2>2, <2>7, MoveStep
  <2>9. QED
    BY <2>6, <2>8
<1>11. CASE NoLongerCurrent(e)
  BY <1>8, <1>11 DEF Lock
<1>12. CASE ~NoLongerCurrent(e)
  <2>1. seen.revision = control.revision
    BY <1>4, <1>12 DEF NoLongerCurrent
  <2>2. CASE ~Executes(request)
    BY <1>4, <1>8, <1>10, <1>12, <2>1, <2>2 DEF Lock, Executes
  <2>3. CASE Executes(request)
    BY <1>4, <1>8, <1>9, <1>10, <1>12, <2>1, <2>3 DEF Lock, Executes
  <2>4. QED
    BY <2>2, <2>3
<1>13. QED
  BY <1>11, <1>12

(***************************************************************************)
(* The steps that write to the tables.                                     *)
(***************************************************************************)

\* A transaction that has the row may carry out what it came for.
LEMMA PerformStep ==
  ASSUME ControlInv, NEW h \in Handlers, At(h, "commit"), Perform(h), UNCHANGED clock
  PROVE  /\ Advances /\ TablesInv' /\ RoomInv' /\ PublicationMovesForward
         /\ Executes(handler[h].request) => Recorded(commands', handler[h].request)
<1> USE DEF ControlInv
<1> DEFINE request == handler[h].request
           seen == handler[h].seen
           e == Envelope(h)
<1>1. /\ handler[h] \in HandlerState /\ HandlerInv(h) /\ TransactionInv(h) /\ clock \in Nat
      /\ ~At(h, "idle") /\ WellFormed(request)
  BY DEF HandlersInv, HandlerInv, At
<1>2. /\ e.route = request.route /\ e.seen = seen /\ e.expected = request.expected
      /\ e.command = request.command /\ e.stamp = handler[h].stamp
      /\ e.id = request.id /\ e.caller = request.caller
  BY DEF Envelope
<1>3. /\ handler[h].stamp \in Nat /\ handler[h].stamp <= clock
      /\ request \in Request /\ request.command \in Command /\ Complete(request.command)
  BY <1>1, ServiceConstants DEF HandlerInv, HandlerState, WellFormed, Request
<1>4. /\ seen.revision = control.revision /\ seen.entries = control.revision
      /\ Executes(request) =>
           /\ ~Logged(request.id)
           /\ request.expected = control.revision
           /\ Applicable(control, request.command)
           /\ Signable(NextState(control, request.command), handler[h].stamp)
  BY <1>1 DEF TransactionInv, At
<1>5. control \in State /\ FloorInv /\ PublicationInv /\ control.revision \in Nat
  BY DEF TablesInv, FloorInv, State
<1>6. CASE Executes(request)
  <2>1. PublishCommand(e)
    BY <1>6 DEF Perform, Executes
  <2>2. Executable(e)
    BY <1>1, <1>2, <1>3, <1>4, <1>6, ServiceConstants DEF Executable, WellFormed, Request
  <2> HIDE DEF e
  <2>3. /\ control' = NextState(control, request.command) /\ control' \in State
        /\ control'.revision = control.revision + 1
        /\ commands' = Append(commands, NewEntry(e))
        /\ Len(commands) = control.revision
        /\ Len(commands') = control.revision + 1
        /\ commands' \in Seq(LogEntry)
        /\ DOMAIN commands = 1 .. control.revision
        /\ DOMAIN commands' = 1 .. control.revision + 1
        /\ \A i \in 1 .. control.revision : commands'[i] = commands[i]
        /\ commands'[control.revision + 1] = NewEntry(e)
    BY <1>2, <2>1, <2>2, ExecutionStep
  <2>4. published' = Published(control', handler[h].stamp)
    BY <1>2, <2>1, <2>3 DEF PublishCommand
  <2>5. PublicationInv' /\ PublicationMovesForward
    <3> DEFINE next == NextState(control, request.command)
    <3>1. next \in State /\ next.revision = control.revision + 1
          /\ control' = next /\ published' = Published(next, handler[h].stamp)
      BY <2>3, <2>4
    <3> HIDE DEF next
    <3>2. QED
      BY <1>3, <1>5, <3>1, PublicationKept, PublicationForward
  <2>6. FloorInv' /\ HistoryInv' /\ ReleasesMoveForward' /\ AuditChained'
    BY <2>1, <2>2, FloorKept, HistoryKept, ChainKept
  <2>7. RoomInv'
    <3>1. IsFiniteSet(control.codes)
      BY DEF RoomInv
    <3>2. /\ IsFiniteSet(NextState(control, request.command).codes)
          /\ Cardinality(Active(NextState(control, request.command).codes, clock)) <= MaxCodes
      BY <1>1, <1>3, <1>4, <1>5, <1>6, <3>1, RoomKept
    <3>3. QED
      BY <2>3, <3>2 DEF RoomInv, StateSignable
  <2>8. NewEntry(e).id = request.id /\ NewEntry(e).actor = request.caller
        /\ NewEntry(e).command = request.command
    BY <1>2 DEF NewEntry
  <2>9. Recorded(commands', request)
    BY <1>4, <1>5, <1>6, <2>3, <2>8 DEF Recorded
  <2>10. Advances
    BY <1>1, <1>5, <2>3, <2>8 DEF Advances
  <2>11. QED
    BY <2>3, <2>5, <2>6, <2>7, <2>9, <2>10 DEF TablesInv
<1>7. CASE ~Executes(request)
  <2>1. published' = Published(control, handler[h].stamp) /\ UNCHANGED <<control, commands>>
    BY <1>2, <1>7 DEF Perform, Executes, Republish
  <2>2. Advances
    BY <2>1, AdvancesNot
  <2>3. PublicationInv' /\ PublicationMovesForward
    BY <1>3, <1>5, <2>1, PublicationKept, PublicationForward
  <2>4. FloorInv' /\ HistoryInv' /\ AuditChained' /\ ReleasesMoveForward'
    BY <2>1 DEF TablesInv, FloorInv, HistoryInv, AuditChained, ReleasesMoveForward, Entry
  <2>5. RoomInv'
    BY <2>1 DEF RoomInv, StateSignable
  <2>6. QED
    BY <1>7, <2>1, <2>2, <2>3, <2>4, <2>5 DEF TablesInv
<1>8. QED
  BY <1>6, <1>7

\* A transaction commits, and its caller is told so.
LEMMA CommitStep ==
  ASSUME ControlInv, NEW h \in Handlers, Commit(h)
  PROVE  TablesInv' /\ RoomInv' /\ HandlersInv' /\ CallsInv' /\ PublicationMovesForward
<1> USE DEF ControlInv
<1>1. At(h, "commit") /\ Perform(h) /\ UNCHANGED clock /\ lock' = None /\ Answer(h, "done")
  BY DEF Commit, Released
<1>2. /\ Advances /\ TablesInv' /\ RoomInv' /\ PublicationMovesForward
      /\ Executes(handler[h].request) => Recorded(commands', handler[h].request)
  BY <1>1, PerformStep
<1>3. /\ handler \in [Handlers -> HandlerState] /\ ~At(h, "idle")
      /\ handler[h].request.caller # Worker => Executes(handler[h].request)
  BY <1>1 DEF HandlersInv, HandlerInv, At, WellFormed
<1>4. \A g \in Handlers : At(g, "commit") => g = h
  BY <1>1 DEF HandlersInv, TransactionInv
<1>5. HandlersInv'
  BY <1>1, <1>2, <1>4, AnswerHandlers
<1>6. "done" \in Outcomes
  BY DEF Outcomes
<1>7. CallsInv'
  BY <1>1, <1>2, <1>3, <1>6, AnswerStep
<1>8. QED
  BY <1>2, <1>5, <1>7

\* Nothing that is published changes when nobody writes.
LEMMA PublicationRests ==
  ASSUME UNCHANGED published
  PROVE  PublicationMovesForward
BY DEF PublicationMovesForward, Revisions

\* A transaction breaks off, before its commit or after it.
LEMMA BreakStep ==
  ASSUME ControlInv, NEW h \in Handlers, Break(h)
  PROVE  TablesInv' /\ RoomInv' /\ HandlersInv' /\ CallsInv' /\ PublicationMovesForward
<1> USE DEF ControlInv
<1>1. /\ ~At(h, "idle") /\ UNCHANGED clock /\ Answer(h, "failed")
      /\ lock' = IF lock = h THEN None ELSE lock
      /\ UNCHANGED tables \/ (At(h, "commit") /\ Perform(h))
  BY DEF Break, Released
<1>2. Advances /\ TablesInv' /\ RoomInv' /\ PublicationMovesForward
  <2>1. CASE UNCHANGED tables
    BY <1>1, <2>1, AdvancesNot, TablesStay, PublicationRests DEF tables
  <2>2. CASE At(h, "commit") /\ Perform(h)
    BY <1>1, <2>2, PerformStep
  <2>3. QED
    BY <1>1, <2>1, <2>2
<1>3. /\ handler \in [Handlers -> HandlerState]
      /\ lock' \in Handlers \cup {None}
  BY <1>1 DEF HandlersInv
<1>4. \A g \in Handlers : g # h /\ At(g, "commit") => UNCHANGED <<control, commands, lock>>
  <2> SUFFICES ASSUME NEW g \in Handlers, g # h, At(g, "commit")
               PROVE  UNCHANGED <<control, commands, lock>>
    OBVIOUS
  <2>1. lock = g
    BY DEF HandlersInv, TransactionInv
  <2>2. ~At(h, "commit")
    BY <2>1 DEF HandlersInv, TransactionInv
  <2>3. QED
    BY <1>1, <2>1, <2>2 DEF tables
<1>5. HandlersInv'
  BY <1>1, <1>2, <1>3, <1>4, AnswerHandlers
<1>6. "failed" \in Outcomes
  BY DEF Outcomes
<1>7. CallsInv'
  BY <1>1, <1>2, <1>3, <1>6, AnswerStep
<1>8. QED
  BY <1>2, <1>5, <1>7

(***************************************************************************)
(* Steps of the callers and of time.                                       *)
(***************************************************************************)

\* Handlers are in order while nothing but time changes for them.
LEMMA HandlersRest ==
  ASSUME TablesInv, HandlersInv, UNCHANGED <<control, commands, lock, handler>>,
         clock' \in 0 .. MaxTime, clock <= clock'
  PROVE  HandlersInv'
<1>1. Advances
  BY AdvancesNot
<1>2. ASSUME NEW g \in Handlers PROVE HandlerInv(g)' /\ TransactionInv(g)'
  <2>1. clock' \in Nat /\ handler'[g] = handler[g]
    OBVIOUS
  <2>2. QED
    BY <1>1, <2>1, Bystander
<1>3. QED
  BY <1>2 DEF HandlersInv

\* Callers may forget or give up their calls.
LEMMA CallsRest ==
  ASSUME TablesInv, CallsInv, UNCHANGED <<control, commands, handler>>,
         call' \in [Callers -> CallState],
         \A c \in Callers :
           /\ call'[c].status \in {call[c].status, "none", "failed"}
           /\ call'[c].status = "none" \/ call'[c].request = call[c].request
           /\ call'[c].status = "sent" => call'[c] = call[c]
           /\ c # Worker => call'[c].request = call[c].request
           /\ call'[c].status # "none" => call[c].status # "none"
  PROVE  CallsInv'
<1>1. Advances
  BY AdvancesNot
<1>2. ASSUME NEW c \in Callers PROVE CallInv(c)'
  <2>1. CASE call'[c].status = "none"
    BY <2>1 DEF CallInv, Waiting
  <2>2. CASE call'[c].status # "none"
    <3>1. ASSUME NEW h \in Handlers, call'[c].status = "sent", call'[c].handler = h
          PROVE  Waiting(c, h) /\ handler'[h].pc # "idle"
                 /\ SameRequest(handler'[h].request, handler[h].request)
      <4>1. Waiting(c, h)
        BY <3>1 DEF Waiting
      <4>2. QED
        BY <4>1 DEF CallsInv, CallInv, At, SameRequest
    <3>2. call'[c].request = call[c].request /\ call[c].status # "none"
      BY <2>2
    <3>3. QED
      BY <1>1, <3>1, <3>2, CallKept
  <2>3. QED
    BY <2>1, <2>2
<1>3. \A h \in Handlers : handler'[h].request.id \in {0, handler[h].request.id}
  OBVIOUS
<1>4. \A a \in Administrators : Told(a)
  BY DEF Told, Administrators
<1>5. QED
  BY <1>1, <1>2, <1>3, <1>4, NoNewRequests DEF CallsInv

\* A caller stops waiting.
LEMMA AbandonStep ==
  ASSUME ControlInv, NEW c \in Callers, Abandon(c)
  PROVE  HandlersInv' /\ CallsInv'
<1> USE DEF ControlInv
<1>1. /\ UNCHANGED <<control, commands, lock, handler, clock>> /\ call[c].status = "sent"
      /\ call' = [call EXCEPT ![c].status = "failed", ![c].handler = None]
  BY DEF Abandon, database
<1>2. call \in [Callers -> CallState] /\ clock \in 0 .. MaxTime
  BY DEF CallsInv, HandlersInv
<1>3. call' \in [Callers -> CallState]
  BY <1>1, <1>2 DEF CallState, Outcomes
<1>4. /\ call'[c].status = "failed" /\ call'[c].request = call[c].request
      /\ \A d \in Callers : d # c => call'[d] = call[d]
  BY <1>1, <1>2 DEF CallState
<1>5. CallsInv'
  BY <1>1, <1>3, <1>4, CallsRest
<1>6. HandlersInv'
  BY <1>1, <1>2, HandlersRest
<1>7. QED
  BY <1>5, <1>6

\* Nothing happens to the tables, the handlers and the administrators' calls.
Quiet ==
  /\ UNCHANGED <<database, handler, clock>>
  /\ UNCHANGED call \/ call' = [call EXCEPT ![Worker] = IdleCall]

\* The loop does something else, or is started again.
LEMMA QuietStep ==
  ASSUME ControlInv, Quiet
  PROVE  HandlersInv' /\ CallsInv'
<1> USE DEF ControlInv
<1>1. UNCHANGED <<control, commands, lock, handler, clock>>
  BY DEF Quiet, database
<1>2. call \in [Callers -> CallState] /\ clock \in 0 .. MaxTime
  BY DEF CallsInv, HandlersInv
<1>3. call' \in [Callers -> CallState]
  BY <1>2, IdleType DEF Quiet
<1>4. \A c \in Callers : call'[c] = call[c] \/ (c = Worker /\ call'[c] = IdleCall)
  BY <1>2 DEF Quiet
<1>5. IdleCall.status = "none"
  BY DEF IdleCall
<1>6. CallsInv'
  BY <1>1, <1>3, <1>4, <1>5, CallsRest
<1>7. HandlersInv'
  BY <1>1, <1>2, HandlersRest
<1>8. QED
  BY <1>6, <1>7

(***************************************************************************)
(* What a step of the system is: one of the service, or a request, or      *)
(* nothing to the service.                                                 *)
(***************************************************************************)

\* A drawn identifier is nobody's.
LEMMA DrawnType ==
  ASSUME NEW id, NEW ids \in SUBSET (1 .. MaxIds), Drawn(id, ids)
  PROVE  id \in 1 .. MaxIds /\ id # 0 /\ ~InUse(id)
BY ServiceConstants DEF Drawn

\* What an administrator sends.
LEMMA AdministrateStep ==
  ASSUME ControlInv, NEW a \in Administrators, NEW command \in AdminRequests,
         Administrate(a, command)
  PROVE  \E request : Submission(request)
<1>1. PICK route \in {"api", "fresh"} : Administer(a, command, route)
  BY DEF Administrate
<1>2. PICK id \in 1 .. MaxIds, expected \in 0 .. control.revision :
        /\ \/ Drawn(id, ForOthers)
           \/ "reuse" \in Scope /\ id = call[a].request.id /\ route = "api"
        /\ Submit([caller |-> a, route |-> route, id |-> id, command |-> command, expected |-> expected])
  BY <1>1 DEF Administer
<1> DEFINE request == [caller |-> a, route |-> route, id |-> id, command |-> command, expected |-> expected]
<1>3. command \in Command /\ Complete(command) /\ a \in Callers /\ a # Worker
  BY ControlPlaneAssumption DEF Administrators
<1>4. control.revision \in Nat /\ expected \in Nat /\ expected <= control.revision
  BY DEF ControlInv, TablesInv, FloorInv, State
<1>5. request \in Request
  BY <1>3, <1>4, ServiceConstants DEF Request
<1>6. Authorized(a, command)
  BY <1>2 DEF Submit
<1>7. WellFormed(request) /\ Timely(request) /\ Executes(request)
  BY <1>3, <1>4, <1>5, <1>6 DEF WellFormed, Timely, Executes
<1>8. ~InUse(id) \/ (id = call[a].request.id /\ route = "api")
  BY <1>2, DrawnType, ServiceConstants
<1>9. Submittable(request)
  BY <1>7, <1>8 DEF Submittable
<1>10. UNCHANGED <<database, clock>>
  BY DEF Administrate
<1>11. QED
  BY <1>2, <1>9, <1>10 DEF Submission

\* An administrator sends a request again whose outcome is unknown.
LEMMA ResendStep ==
  ASSUME ControlInv, NEW a \in Administrators, Resend(a)
  PROVE  Submission(call[a].request)
<1>1. /\ call[a].status = "failed" /\ call[a].request.route = "api" /\ Submit(call[a].request)
      /\ UNCHANGED <<database, clock>>
  BY DEF Resend
<1>2. WellFormed(call[a].request) /\ Timely(call[a].request) /\ call[a].request.caller = a
  BY <1>1, AdministratorsCall DEF ControlInv
<1>3. Submittable(call[a].request)
  BY <1>1, <1>2 DEF Submittable, Executes
<1>4. QED
  BY <1>1, <1>3 DEF Submission

\* What the worker orders.
LEMMA OrderStep ==
  ASSUME ControlInv, NEW id, NEW ids \in SUBSET (1 .. MaxIds), Drawn(id, ids),
         NEW command \in Command, Complete(command), command.type \in SystemCommands,
         Order(id, command), UNCHANGED <<database, clock>>
  PROVE  \E request : Submission(request)
<1> DEFINE request == [caller |-> Worker, route |-> "fresh", id |-> id, command |-> command, expected |-> 0]
<1>1. id \in 1 .. MaxIds /\ id # 0 /\ ~InUse(id)
  BY DrawnType
<1>2. id \in 0 .. MaxIds /\ control.revision \in Nat
  BY <1>1, ServiceConstants DEF ControlInv, TablesInv, FloorInv, State
<1>3. request \in Request
  BY <1>2, ServiceConstants DEF Request
<1>4. WellFormed(request) /\ Timely(request) /\ Executes(request)
  BY <1>1, <1>2, <1>3 DEF WellFormed, Timely, Executes, Authorized
<1>5. Submittable(request)
  BY <1>1, <1>4 DEF Submittable
<1>6. QED
  BY <1>5 DEF Submission, Order

\* The loop goes on to one of its steps, with one more error at most.
LEMMA LoopKept ==
  ASSUME LoopInv, NEW at \in SyncSteps, sync' = [sync EXCEPT !.at = at], UNCHANGED source,
         UNCHANGED faults \/ Fault
  PROVE  LoopInv'
<1>1. sync' \in [at : SyncSteps, synchronized : BOOLEAN]
  BY DEF LoopInv, SyncTypeOK
<1>2. faults' \in 0 .. MaxFaults
  BY ServiceConstants DEF LoopInv, Fault
<1>3. QED
  BY <1>1, <1>2 DEF LoopInv, SyncTypeOK

\* What the worker's loop does to the service, and where it goes.
LEMMA LoopStep ==
  ASSUME ControlInv, SyncStep \/ SyncRestart \/ SourceChanges
  PROVE  /\ Quiet \/ \E request : Submission(request)
         /\ UNCHANGED tables
         /\ LoopInv'
<1>1. LoopInv /\ faults \in Nat /\ MaxFaults \in Nat
  BY ServiceConstants DEF ControlInv, LoopInv
<1>2. CASE ProbeRelease
  <2>1. UNCHANGED <<database, clock, source>>
    BY <1>2 DEF ProbeRelease
  <2>2. ASSUME source # None, NEW id \in 1 .. MaxIds, Drawn(id, ForOthers),
               Order(id, [Blank EXCEPT !.type = "release.set",
                 !.evidence = [version |-> source.version, assets |-> source.assets, verified |-> id]])
        PROVE  \E request : Submission(request)
    <3> DEFINE e == [version |-> source.version, assets |-> source.assets, verified |-> id]
               set == [Blank EXCEPT !.type = "release.set", !.evidence = e]
    <3>1. e \in ReleaseEvidence
      BY <1>1, <2>2, OperationalSyncAssumption DEF ReleaseEvidence, LoopInv, SyncTypeOK
    <3>2. set \in Command /\ set.type = "release.set" /\ Complete(set)
      BY <3>1, OrdersType
    <3>3. Order(id, set)
      BY <2>2
    <3> HIDE DEF set
    <3>4. QED
      BY <2>1, <2>2, <3>2, <3>3, OrderStep, ServiceConstants DEF SystemCommands
  <2>3. Quiet \/ \E request : Submission(request)
    BY <1>2, <2>1, <2>2 DEF ProbeRelease, Quiet
  <2>4. LoopInv'
    BY <1>1, <1>2, <2>1, LoopKept DEF ProbeRelease, SyncGoto, AfterFailedSync, SyncSteps
  <2>5. QED
    BY <2>1, <2>3, <2>4 DEF database, tables
<1>3. CASE ClearRelease
  <2>1. UNCHANGED <<database, clock, faults, source>>
    BY <1>3 DEF ClearRelease
  <2>2. PICK id \in 1 .. MaxIds : Drawn(id, ForWithdrawals) /\ Order(id, Blank)
    BY <1>3 DEF ClearRelease
  <2>3. \E request : Submission(request)
    BY <2>1, <2>2, OrderStep, BlankType, ServiceConstants DEF SystemCommands
  <2>4. LoopInv'
    BY <1>1, <1>3, <2>1, LoopKept DEF ClearRelease, SyncGoto, SyncSteps
  <2>5. QED
    BY <2>1, <2>3, <2>4 DEF database, tables
<1>4. CASE Playability
  <2>1. UNCHANGED <<database, clock, source>>
    BY <1>4 DEF Playability
  <2>2. ASSUME NEW id \in 1 .. MaxIds, NEW public \in BOOLEAN, Drawn(id, ForOthers),
               Order(id, [Blank EXCEPT !.type = "game.observation", !.on = public])
        PROVE  \E request : Submission(request)
    <3> DEFINE observation == [Blank EXCEPT !.type = "game.observation", !.on = public]
    <3>1. /\ observation \in Command /\ observation.type = "game.observation"
          /\ Complete(observation) /\ Order(id, observation)
      BY <2>2, OrdersType
    <3> HIDE DEF observation
    <3>2. QED
      BY <2>1, <2>2, <3>1, OrderStep, ServiceConstants DEF SystemCommands
  <2>3. Quiet \/ \E request : Submission(request)
    BY <1>4, <2>1, <2>2 DEF Playability, Quiet
  <2>4. LoopInv'
    BY <1>1, <1>4, <2>1, LoopKept DEF Playability, SyncGoto, SyncSteps
  <2>5. QED
    BY <2>1, <2>3, <2>4 DEF database, tables
<1>5. CASE SyncRepublish
  <2>1. UNCHANGED <<database, clock, faults, source>>
    BY <1>5 DEF SyncRepublish
  <2>2. ASSUME Submit(NoRequest)
        PROVE  Submission(NoRequest)
    <3>1. /\ WellFormed(NoRequest) /\ ~Executes(NoRequest) /\ NoRequest.id = 0
          /\ NoRequest.expected = 0 /\ control.revision \in Nat
      BY IdleType DEF NoRequest, Executes, ControlInv, TablesInv, FloorInv, State
    <3>2. Submittable(NoRequest)
      BY <3>1 DEF Submittable, Timely
    <3>3. QED
      BY <2>1, <2>2, <3>2 DEF Submission
  <2>3. Quiet \/ \E request : Submission(request)
    BY <1>5, <2>1, <2>2 DEF SyncRepublish, Quiet
  <2>4. LoopInv'
    BY <1>1, <1>5, <2>1, LoopKept DEF SyncRepublish, SyncGoto, SyncSteps
  <2>5. QED
    BY <2>1, <2>3, <2>4 DEF database, tables
<1>6. CASE ReleaseSynchronized \/ ReleaseCleared \/ PlayabilityObserved \/ SyncRepublished \/ SyncWake
  <2>1. UNCHANGED <<database, service, clock, source>>
    BY <1>6 DEF ReleaseSynchronized, ReleaseCleared, PlayabilityObserved, SyncRepublished, SyncWake
  <2>2. UNCHANGED faults /\ Quiet /\ UNCHANGED tables
    BY <2>1 DEF service, Quiet, database, tables
  <2>3. CASE ReleaseSynchronized
    BY <1>1, <2>1, <2>2, <2>3, LoopKept DEF ReleaseSynchronized, SyncGoto, SyncSteps, AfterFailedSync
  <2>4. CASE ReleaseCleared
    <3>1. Succeeded \in BOOLEAN
      BY DEF Succeeded
    <3>2. sync' \in [at : SyncSteps, synchronized : BOOLEAN]
      BY <2>4, <3>1 DEF ReleaseCleared, SyncSteps
    <3>3. QED
      BY <1>1, <2>1, <2>2, <3>2 DEF LoopInv, SyncTypeOK
  <2>5. CASE PlayabilityObserved
    BY <1>1, <2>1, <2>2, <2>5, LoopKept DEF PlayabilityObserved, SyncGoto, SyncSteps
  <2>6. CASE SyncRepublished
    BY <1>1, <2>1, <2>2, <2>6, LoopKept DEF SyncRepublished, SyncGoto, SyncSteps
  <2>7. CASE SyncWake
    <3>1. sync' \in [at : SyncSteps, synchronized : BOOLEAN]
      BY <2>7 DEF SyncWake, SyncSteps
    <3>2. QED
      BY <1>1, <2>1, <2>2, <3>1 DEF LoopInv, SyncTypeOK
  <2>8. QED
    BY <1>6, <2>3, <2>4, <2>5, <2>6, <2>7
<1>7. CASE SyncRestart
  <2>1. Quiet /\ UNCHANGED tables /\ UNCHANGED source
    BY <1>7 DEF SyncRestart, Quiet, database, tables
  <2>2. sync' \in [at : SyncSteps, synchronized : BOOLEAN]
    BY <1>7 DEF SyncRestart, SyncSteps
  <2>3. faults' \in 0 .. MaxFaults
    BY <1>1, <1>7 DEF SyncRestart, Fault, LoopInv
  <2>4. QED
    BY <1>1, <2>1, <2>2, <2>3 DEF LoopInv, SyncTypeOK
<1>8. CASE SourceChanges
  BY <1>1, <1>8 DEF SourceChanges, Quiet, service, database, tables, LoopInv, SyncTypeOK
<1>9. QED
  BY <1>2, <1>3, <1>4, <1>5, <1>6, <1>7, <1>8 DEF SyncStep

(***************************************************************************)
(* The invariant.                                                          *)
(***************************************************************************)

\* It holds in the beginning.
LEMMA InitControlInv == Init => ControlInv
<1> SUFFICES ASSUME Init PROVE ControlInv
  OBVIOUS
<1> USE DEF Init, RepositoryInit, ServiceInit, SyncInit
<1>1. control \in State /\ control.revision = 0 /\ control.evidence = None
      /\ control.release = 0 /\ control.floor = 0 /\ control.codes = {}
  BY DEF InitialState, State
<1>2. commands = <<>> /\ commands \in Seq(LogEntry) /\ DOMAIN commands = {} /\ Len(commands) = 0
  OBVIOUS
<1>3. Revisions = {}
  BY DEF Revisions
<1>4. TablesInv
  BY <1>1, <1>2, <1>3
     DEF TablesInv, FloorInv, HistoryInv, PublicationInv, AuditChained, ReleasesMoveForward
<1>5. RoomInv
  <2>1. Active(control.codes, clock) = {}
    BY <1>1 DEF Active
  <2>2. IsFiniteSet({}) /\ Cardinality({}) = 0
    BY FS_EmptySet
  <2>3. Cardinality(Active(control.codes, clock)) <= MaxCodes
    <3>1. Cardinality(Active(control.codes, clock)) = 0
      BY <2>1, <2>2
    <3>2. QED
      BY <3>1, StateConstants
  <2>4. QED
    BY <1>1, <2>2, <2>3 DEF RoomInv, StateSignable
<1>6. \A h \in Handlers : handler[h] = IdleHandler
  OBVIOUS
<1>7. IdleHandler.pc = "idle" /\ IdleHandler.stamp = 0 /\ IdleHandler.request.id = 0
  BY IdleType DEF IdleHandler
<1>8. HandlersInv
  <2>1. \A h \in Handlers : HandlerInv(h) /\ TransactionInv(h)
    BY <1>6, <1>7 DEF HandlerInv, TransactionInv, At
  <2>2. handler \in [Handlers -> HandlerState] /\ clock \in 0 .. MaxTime
    BY IdleType, ServiceConstants
  <2>3. QED
    BY <2>1, <2>2 DEF HandlersInv
<1>9. \A c \in Callers : call[c] = IdleCall
  OBVIOUS
<1>10. IdleCall.status = "none" /\ IdleCall.request = NoRequest /\ NoRequest.id = 0
  BY IdleType DEF IdleCall
<1>11. CallsInv
  <2>1. \A c \in Callers : CallInv(c)
    BY <1>9, <1>10 DEF CallInv, Waiting
  <2>2. \A a \in Administrators : IdentifierInv(a) /\ RefusalInv(a)
    BY <1>9, <1>10 DEF IdentifierInv, RefusalInv, Administrators
  <2>3. AnswersTruthful
    BY <1>9, <1>10 DEF AnswersTruthful, SuccessIsLogged, ConflictMeansNotDone, Administrators
  <2>4. call \in [Callers -> CallState]
    BY IdleType
  <2>5. QED
    BY <2>1, <2>2, <2>3, <2>4 DEF CallsInv
<1>12. LoopInv
  BY ServiceConstants DEF LoopInv, SyncTypeOK, SyncSteps
<1>13. QED
  BY <1>4, <1>5, <1>8, <1>11, <1>12 DEF ControlInv

\* Every step keeps it, and takes nothing that is published back.
LEMMA NextControlInv ==
  ASSUME ControlInv, [Next]_vars
  PROVE  ControlInv' /\ PublicationMovesForward
<1> USE DEF ControlInv
<1>1. ASSUME NEW h \in Handlers, Serve(h)
      PROVE  ControlInv' /\ PublicationMovesForward
  <2>1. UNCHANGED <<source, sync>> /\ HandlerStep(h)
    BY <1>1 DEF Serve, worker
  <2>2. UNCHANGED faults
    BY <2>1 DEF HandlerStep, CheckRelease, ReadRevision, Begin, Lock, Commit
  <2>3. LoopInv'
    BY <2>1, <2>2 DEF LoopInv, SyncTypeOK
  <2>4. CASE Commit(h)
    BY <2>3, <2>4, CommitStep
  <2>5. CASE CheckRelease(h) \/ ReadRevision(h) \/ Begin(h) \/ Lock(h)
    <3>1. UNCHANGED <<control, commands, published, clock>>
      BY <2>5 DEF CheckRelease, ReadRevision, Begin, Lock, database, tables
    <3>2. HandlersInv' /\ CallsInv'
      BY <2>5, CheckReleaseStep, ReadRevisionStep, BeginStep, LockStep
    <3>3. QED
      BY <2>3, <3>1, <3>2, TablesStay, PublicationRests
  <2>6. QED
    BY <2>1, <2>4, <2>5 DEF HandlerStep
<1>2. ASSUME NEW h \in Handlers, Break(h), UNCHANGED worker
      PROVE  ControlInv' /\ PublicationMovesForward
  <2>1. LoopInv'
    BY <1>2, ServiceConstants DEF Break, Fault, worker, LoopInv, SyncTypeOK
  <2>2. QED
    BY <1>2, <2>1, BreakStep
<1>3. ASSUME NEW c \in Callers, Abandon(c), UNCHANGED worker
      PROVE  ControlInv' /\ PublicationMovesForward
  <2>1. LoopInv'
    BY <1>3, ServiceConstants DEF Abandon, Fault, worker, LoopInv, SyncTypeOK
  <2>2. UNCHANGED <<control, commands, published, clock>>
    BY <1>3 DEF Abandon, database
  <2>3. QED
    BY <1>3, <2>1, <2>2, AbandonStep, TablesStay, PublicationRests
<1>4. ASSUME Quiet \/ \E request : Submission(request), LoopInv'
      PROVE  ControlInv' /\ PublicationMovesForward
  <2>1. UNCHANGED <<control, commands, published, clock>>
    BY <1>4 DEF Quiet, Submission, database
  <2>2. HandlersInv' /\ CallsInv'
    BY <1>4, QuietStep, SubmissionStep
  <2>3. QED
    BY <1>4, <2>1, <2>2, TablesStay, PublicationRests
<1>5. ASSUME NEW a \in Administrators,
             Resend(a) \/ \E command \in AdminRequests : Administrate(a, command),
             UNCHANGED worker
      PROVE  ControlInv' /\ PublicationMovesForward
  <2>1. \E request : Submission(request)
    BY <1>5, ResendStep, AdministrateStep
  <2>2. UNCHANGED faults
    BY <1>5 DEF Resend, Administrate
  <2>3. LoopInv'
    BY <1>5, <2>2 DEF worker, LoopInv, SyncTypeOK
  <2>4. QED
    BY <1>4, <2>1, <2>3
<1>6. CASE SyncStep \/ SyncRestart \/ SourceChanges
  BY <1>4, <1>6, LoopStep
<1>7. CASE Tick
  <2>1. /\ UNCHANGED <<control, commands, published, lock, handler, call, faults, source, sync>>
        /\ clock < MaxTime /\ clock' = clock + 1 /\ clock \in 0 .. MaxTime
    BY <1>7 DEF Tick, database, service, worker, HandlersInv
  <2>2. clock' \in 0 .. MaxTime /\ clock <= clock' /\ clock \in Nat /\ clock' \in Nat
    BY <2>1, ServiceConstants
  <2>3. TablesInv'
    BY <2>1 DEF TablesInv, FloorInv, HistoryInv, PublicationInv, Entry, Revisions,
       AuditChained, ReleasesMoveForward
  <2>4. RoomInv'
    <3>1. control \in State
      BY DEF TablesInv, FloorInv
    <3>2. Cardinality(Active(control.codes, clock')) <= MaxCodes
      BY <2>2, <3>1, RoomLater DEF RoomInv, StateSignable
    <3>3. QED
      BY <2>1, <3>2 DEF RoomInv, StateSignable
  <2>5. HandlersInv'
    BY <2>1, <2>2, HandlersRest
  <2>6. CallsInv'
    <3>1. call \in [Callers -> CallState]
      BY DEF CallsInv
    <3>2. QED
      BY <2>1, <3>1, CallsRest
  <2>7. LoopInv'
    BY <2>1 DEF LoopInv, SyncTypeOK
  <2>8. QED
    BY <2>1, <2>3, <2>4, <2>5, <2>6, <2>7, PublicationRests
<1>8. CASE UNCHANGED vars
  BY <1>4, <1>8 DEF vars, Quiet, service, LoopInv, SyncTypeOK
<1>9. QED
  BY <1>1, <1>2, <1>3, <1>5, <1>6, <1>7, <1>8 DEF Next

\* The invariant, over every run.
THEOREM ControlPlaneInvariant == Spec => []ControlInv
<1>1. Init => ControlInv
  BY InitControlInv
<1>2. ControlInv /\ [Next]_vars => ControlInv'
  BY NextControlInv
<1>3. QED
  BY <1>1, <1>2, PTL DEF Spec

(***************************************************************************)
(* What follows.                                                           *)
(***************************************************************************)

\* Every variable keeps its type: what is stored is what the schemas accept.
THEOREM ControlPlaneTypeOK == Spec => []TypeOK
<1>1. ControlInv => TypeOK
  <2> SUFFICES ASSUME ControlInv PROVE TypeOK
    OBVIOUS
  <2>1. control \in State /\ control.revision \in Nat /\ commands \in Seq(LogEntry)
    BY DEF ControlInv, TablesInv, FloorInv, State
  <2>2. Revisions \subseteq 0 .. control.revision /\ \A r \in Revisions : published[r] \in Snapshots
    BY DEF ControlInv, TablesInv, PublicationInv
  <2>3. DatabaseTypeOK
    BY <2>1, <2>2 DEF DatabaseTypeOK, ControlInv, HandlersInv
  <2>4. ServiceTypeOK
    BY DEF ServiceTypeOK, ControlInv, HandlersInv, HandlerState, CallsInv, CallState, LoopInv
  <2>5. QED
    BY <2>3, <2>4 DEF TypeOK, ControlInv, LoopInv
<1>2. QED
  BY <1>1, ControlPlaneInvariant, PTL

\* The audit log is a chain without a gap or a repetition, and ends with the
\* entry that made the stored state (executeAndPublish).
THEOREM LogIsAChain == Spec => []AuditChained
<1>1. ControlInv => AuditChained
  BY DEF ControlInv, TablesInv
<1>2. QED
  BY <1>1, ControlPlaneInvariant, PTL

\* Whoever is told that a request was done finds it in the log, and whoever is
\* told of a conflict never will, whatever is sent again, retried or lost.
THEOREM AnswersAreTruthful == Spec => []AnswersTruthful
<1>1. ControlInv => AnswersTruthful
  BY DEF ControlInv, CallsInv
<1>2. QED
  BY <1>1, ControlPlaneInvariant, PTL

\* The worker can always sign the stored state: no sequence of commands leaves
\* more active codes in it than a snapshot has room for (LocalSnapshotSigner).
THEOREM StateStaysSignable == Spec => []StateSignable
<1>1. ControlInv => StateSignable
  BY DEF ControlInv, RoomInv
<1>2. QED
  BY <1>1, ControlPlaneInvariant, PTL

\* The newest published snapshot is that of the stored state.
THEOREM PublicationIsCurrent == Spec => []PublishedIsCurrent
<1>1. ControlInv => PublishedIsCurrent
  <2> SUFFICES ASSUME ControlInv, Revisions # {}
               PROVE  ReadPublished = Payload(control, ReadPublished.generated)
    BY DEF PublishedIsCurrent
  <2>1. /\ control.revision \in Nat /\ Revisions \subseteq 0 .. control.revision
        /\ control.revision \in Revisions
        /\ published[control.revision] = Payload(control, published[control.revision].generated)
    BY DEF ControlInv, TablesInv, FloorInv, PublicationInv, State
  <2>2. Newest = control.revision
    <3>1. \A s \in Revisions : s <= control.revision
      BY <2>1
    <3>2. \A r \in Revisions : (\A s \in Revisions : s <= r) => r = control.revision
      BY <2>1
    <3>3. QED
      BY <2>1, <3>1, <3>2 DEF Newest
  <2>3. QED
    BY <2>1, <2>2 DEF ReadPublished
<1>2. QED
  BY <1>1, ControlPlaneInvariant, PTL

\* Releases only move forward, and no step takes back what is published under
\* a revision (assertReleaseProgression, republish).
THEOREM NothingIsTakenBack == Spec => NothingGoesBack
<1>1. ControlInv /\ [Next]_vars => [ReleasesMoveForward' /\ PublicationMovesForward]_vars
  BY NextControlInv DEF ControlInv, TablesInv
<1>2. QED
  BY <1>1, ControlPlaneInvariant, PTL DEF Spec, NothingGoesBack

-----------------------------------------------------------------------------
(***************************************************************************)
(* The refinement of CommandLog.  Three things are shown of every step:    *)
(* what it does to the log is one order carried out, which is under way    *)
(* (PublishesOrder); a handler goes on with the order it has, or takes one *)
(* that its caller sends in the same step (ServesOn, Sends); and callers   *)
(* hear of the order they wait for (Hears).                                *)
(***************************************************************************)

\* What CommandLog keeps of a log.
Record(entry) == [id |-> entry.id, actor |-> entry.actor, command |-> entry.command]
Records(l) == [i \in DOMAIN l |-> Record(l[i])]

\* A sequence is the map of its positions to its elements.
LEMMA SequenceIsItsMap ==
  ASSUME NEW T, NEW s \in Seq(T)
  PROVE  s = [i \in DOMAIN s |-> s[i]]
<1>1. s \in [1 .. Len(s) -> T]
  BY LenProperties
<1>2. QED
  BY <1>1, Zenon

\* It is a sequence as long as the log, and grows with it.
LEMMA RecordsGrow ==
  ASSUME NEW l \in Seq(LogEntry), NEW entry \in LogEntry
  PROVE  /\ DOMAIN Records(l) = 1 .. Len(l) /\ Len(Records(l)) = Len(l)
         /\ Records(Append(l, entry)) = Append(Records(l), Record(entry))
<1> DEFINE S == {Record(e) : e \in LogEntry}
<1>1. Records(l) \in [1 .. Len(l) -> S]
  BY DEF Records
<1>2. Len(l) \in Nat
  OBVIOUS
<1>3. Records(l) \in Seq(S)
  BY <1>1, <1>2
<1>4. Len(Records(l)) = Len(l) /\ DOMAIN Records(l) = 1 .. Len(l)
  BY <1>1, <1>2, <1>3
<1>5. Record(entry) \in S
  OBVIOUS
<1> HIDE DEF S
<1> DEFINE R == Records(l)
           e == Record(entry)
<1>6. /\ Append(R, e) \in Seq(S) /\ DOMAIN Append(R, e) = 1 .. Len(l) + 1
      /\ Append(R, e)[Len(l) + 1] = e
      /\ \A i \in 1 .. Len(l) : Append(R, e)[i] = R[i]
  <2> HIDE DEF R, e
  <2>1. R \in Seq(S) /\ e \in S /\ Len(R) = Len(l)
    BY <1>3, <1>4, <1>5 DEF R, e
  <2>2. QED
    BY <2>1
<1>7. /\ DOMAIN Append(l, entry) = 1 .. Len(l) + 1
      /\ Append(l, entry)[Len(l) + 1] = entry
      /\ \A i \in 1 .. Len(l) : Append(l, entry)[i] = l[i]
  BY <1>2
<1>8. \A i \in 1 .. Len(l) : R[i] = Record(l[i])
  BY DEF Records
<1>9. \A i \in 1 .. Len(l) + 1 : Record(Append(l, entry)[i]) = Append(R, e)[i]
  <2> HIDE DEF R
  <2>1. QED
    BY <1>2, <1>6, <1>7, <1>8
<1>10. Records(Append(l, entry)) = Append(R, e)
  <2> HIDE DEF R, e
  <2>1. Append(R, e) = [i \in 1 .. Len(l) + 1 |-> Append(R, e)[i]]
    <3>1. Append(R, e) = [i \in DOMAIN Append(R, e) |-> Append(R, e)[i]]
      BY <1>6, SequenceIsItsMap
    <3>2. QED
      BY <1>6, <3>1
  <2>2. Records(Append(l, entry)) = [i \in 1 .. Len(l) + 1 |-> Record(Append(l, entry)[i])]
    BY <1>7 DEF Records
  <2>3. QED
    BY <1>9, <2>1, <2>2
<1>11. QED
  BY <1>4, <1>10

\* A handler that commits carries out the order it serves, on the state and
\* at the place the log has at that moment.
PublishesOrder(h) ==
  /\ h \in Commanding
  /\ control' = NextState(control, handler[h].request.command)
  /\ Applicable(control, handler[h].request.command)
  /\ \A i \in DOMAIN commands : commands[i].id # handler[h].request.id
  /\ handler[h].request.expected = Len(commands)
  /\ commands \in Seq(LogEntry)
  /\ \E entry \in LogEntry :
       /\ commands' = Append(commands, entry)
       /\ entry.id = handler[h].request.id /\ entry.actor = handler[h].request.caller
       /\ entry.command = handler[h].request.command

\* What a transaction makes of the log.
LEMMA PerformPublishes ==
  ASSUME ControlInv, NEW h \in Handlers, At(h, "commit"), Perform(h)
  PROVE  UNCHANGED <<control, commands>> \/ PublishesOrder(h)
<1> USE DEF ControlInv
<1> DEFINE request == handler[h].request
           e == Envelope(h)
<1>1. /\ handler[h] \in HandlerState /\ HandlerInv(h) /\ TransactionInv(h)
      /\ ~At(h, "idle") /\ WellFormed(request)
  BY DEF HandlersInv, HandlerInv, At
<1>2. /\ e.route = request.route /\ e.seen = handler[h].seen /\ e.expected = request.expected
      /\ e.command = request.command /\ e.stamp = handler[h].stamp
      /\ e.id = request.id /\ e.caller = request.caller
  BY DEF Envelope
<1>3. CASE ~Executes(request)
  BY <1>3 DEF Perform, Executes, Republish
<1>4. CASE Executes(request)
  <2>1. /\ handler[h].seen.revision = control.revision
        /\ handler[h].seen.entries = control.revision
        /\ ~Logged(request.id)
        /\ request.expected = control.revision
        /\ Applicable(control, request.command)
        /\ Signable(NextState(control, request.command), handler[h].stamp)
    BY <1>1, <1>4 DEF TransactionInv, At
  <2>2. /\ handler[h].stamp \in Nat /\ request \in Request
        /\ request.command \in Command /\ Complete(request.command)
    BY <1>1, ServiceConstants DEF HandlerState, WellFormed, Request
  <2>3. PublishCommand(e)
    BY <1>4 DEF Perform, Executes
  <2>4. Executable(e)
    BY <1>1, <1>2, <1>4, <2>1, <2>2, ServiceConstants DEF Executable, WellFormed, Request
  <2> HIDE DEF e
  <2>5. /\ control' = NextState(control, request.command)
        /\ commands' = Append(commands, NewEntry(e)) /\ NewEntry(e) \in LogEntry
        /\ Len(commands) = control.revision
    BY <1>2, <2>3, <2>4, ExecutionStep
  <2>6. /\ NewEntry(e).id = request.id /\ NewEntry(e).actor = request.caller
        /\ NewEntry(e).command = request.command
    BY <1>2 DEF NewEntry
  <2>7. h \in Commanding
    BY <1>1, <1>4 DEF Commanding, Executes
  <2>8. commands \in Seq(LogEntry)
    BY DEF TablesInv
  <2>9. QED
    BY <2>1, <2>5, <2>6, <2>7, <2>8 DEF PublishesOrder, Logged
<1>5. QED
  BY <1>3, <1>4

\* That is a step of CommandLog.
LEMMA PublishesCarriesOut ==
  ASSUME NEW h, PublishesOrder(h)
  PROVE  \E order \in {OrderOf(handler[g].request) : g \in Commanding} : Promise!CarryOut(order)
<1> DEFINE request == handler[h].request
           order == OrderOf(request)
<1>1. PICK entry \in LogEntry :
        /\ commands' = Append(commands, entry)
        /\ entry.id = request.id /\ entry.actor = request.caller
        /\ entry.command = request.command
  BY DEF PublishesOrder
<1>2. commands \in Seq(LogEntry) /\ Len(commands) \in Nat /\ DOMAIN commands = 1 .. Len(commands)
  BY DEF PublishesOrder
<1>3. /\ DOMAIN Records(commands) = 1 .. Len(commands) /\ Len(Records(commands)) = Len(commands)
      /\ Records(commands') = Append(Records(commands), Record(entry))
  BY <1>1, <1>2, RecordsGrow
<1>4. /\ order.id = request.id /\ order.actor = request.caller /\ order.command = request.command
      /\ order.at \in {0, request.expected + 1}
  BY DEF OrderOf
<1>5. Promise!Record(order) = Record(entry)
  BY <1>1, <1>4 DEF Promise!Record, Record
<1>6. Promise!MayStandAt(order, Len(Records(commands)) + 1)
  BY <1>3, <1>4 DEF Promise!MayStandAt, Promise!Anywhere, PublishesOrder
<1>7. \A i \in DOMAIN Records(commands) : Records(commands)[i].id # order.id
  BY <1>2, <1>3, <1>4 DEF Records, Record, PublishesOrder
<1>8. order \in {OrderOf(handler[g].request) : g \in Commanding}
  BY DEF PublishesOrder
<1>9. Applicable(control, order.command) /\ control' = NextState(control, order.command)
  BY <1>4 DEF PublishesOrder
<1> HIDE DEF order
<1>10. Promise!CarryOut(order)
  BY <1>3, <1>5, <1>6, <1>7, <1>9 DEF Promise!CarryOut, Records, Record, Entry
<1>11. QED
  BY <1>8, <1>10

\* A handler goes on with its order, or is done with it.
ServesOn(h) ==
  ~At(h, "idle")' => ~At(h, "idle") /\ SameRequest(handler'[h].request, handler[h].request)

\* A caller hears of its request, or goes on waiting.
Hears(a) ==
  \/ call'[a] = call[a]
  \/ /\ call[a].status = "sent" /\ call'[a].status # "sent"
     /\ call'[a].request = call[a].request

GoesWell == (\A h \in Handlers : ServesOn(h)) /\ (\A a \in Administrators : Hears(a))

\* The same request is the same order.
LEMMA SameOrder ==
  ASSUME NEW served, NEW sent, SameRequest(served, sent)
  PROVE  OrderOf(served) = OrderOf(sent) /\ (served.route = "republish") = (sent.route = "republish")
BY DEF SameRequest, OrderOf

\* A handler that answers.
LEMMA AnswerGoesWell ==
  ASSUME ControlInv, NEW h \in Handlers, NEW outcome \in Outcomes, Answer(h, outcome)
  PROVE  GoesWell
<1> USE DEF ControlInv
<1> DEFINE c == handler[h].request.caller
<1>1. handler \in [Handlers -> HandlerState] /\ call \in [Callers -> CallState]
  BY DEF HandlersInv, CallsInv
<1>2. /\ handler'[h] = IdleHandler /\ IdleHandler.pc = "idle"
      /\ \A g \in Handlers : g # h => handler'[g] = handler[g]
  BY <1>1 DEF Answer, IdleHandler
<1>3. \A g \in Handlers : ServesOn(g)
  BY <1>2 DEF ServesOn, At, SameRequest
<1>4. outcome # "sent"
  BY DEF Outcomes
<1>5. CASE Waiting(c, h)
  <2>1. call' = [call EXCEPT ![c].status = outcome, ![c].handler = None]
    BY <1>5 DEF Answer
  <2>2. ASSUME NEW a \in Administrators PROVE Hears(a)
    <3>1. a \in Callers /\ call[a] \in CallState
      BY <1>1 DEF Administrators
    <3>2. CASE a = c
      BY <1>1, <1>4, <1>5, <2>1, <3>1, <3>2 DEF Hears, Waiting, CallState
    <3>3. CASE a # c
      BY <1>1, <2>1, <3>1, <3>3 DEF Hears
    <3>4. QED
      BY <3>2, <3>3
  <2>3. QED
    BY <1>3, <2>2 DEF GoesWell
<1>6. CASE ~Waiting(c, h)
  BY <1>3, <1>6 DEF Answer, GoesWell, Hears
<1>7. QED
  BY <1>5, <1>6

\* A handler that goes on.
LEMMA MoveGoesWell ==
  ASSUME NEW h \in Handlers, handler \in [Handlers -> HandlerState], ~At(h, "idle"),
         NEW next, handler' = [handler EXCEPT ![h] = next],
         SameRequest(next.request, handler[h].request), UNCHANGED call
  PROVE  GoesWell
<1>1. handler'[h] = next /\ \A g \in Handlers : g # h => handler'[g] = handler[g]
  OBVIOUS
<1>2. \A g \in Handlers : ServesOn(g)
  BY <1>1 DEF ServesOn, At, SameRequest
<1>3. QED
  BY <1>2 DEF GoesWell, Hears

\* Each step of a handler.
LEMMA HandlerGoesWell ==
  ASSUME ControlInv, NEW h \in Handlers, HandlerStep(h) \/ Break(h)
  PROVE  GoesWell
<1> USE DEF ControlInv
<1> DEFINE request == handler[h].request
<1>1. handler \in [Handlers -> HandlerState] /\ handler[h] \in HandlerState /\ HandlerInv(h)
  BY DEF HandlersInv
<1>2. ~At(h, "idle")
  BY DEF HandlerStep, CheckRelease, ReadRevision, Begin, Lock, Commit, Break, At
<1>3. ASSUME NEW pc \in {"read", "commit"}, Goto(h, pc)
      PROVE  GoesWell
  <2> DEFINE next == [handler[h] EXCEPT !.pc = pc]
  <2>1. handler' = [handler EXCEPT ![h] = next] /\ UNCHANGED call
    BY <1>3 DEF Goto
  <2>2. next.request = request
    BY <1>1, GoesOn
  <2> HIDE DEF next
  <2>3. SameRequest(next.request, handler[h].request)
    BY <2>2 DEF SameRequest
  <2>4. QED
    BY <1>1, <1>2, <2>1, <2>3, MoveGoesWell
<1>4. ASSUME NEW outcome \in {"done", "mismatch", "failed", "refused", "conflict"}, Answer(h, outcome)
      PROVE  GoesWell
  BY <1>4, AnswerGoesWell DEF Outcomes
<1>5. CASE CheckRelease(h)
  BY <1>3, <1>4, <1>5 DEF CheckRelease
<1>6. CASE ReadRevision(h)
  <2> DEFINE next == LookedUp(handler[h], clock, control.revision)
  <2>1. handler' = [handler EXCEPT ![h] = next] /\ UNCHANGED call
    BY <1>6 DEF ReadRevision, LookedUp
  <2>2. control.revision \in Nat /\ clock \in 0 .. MaxTime /\ request \in Request /\ request.route = "fresh"
    BY <1>1, <1>2, <1>6 DEF TablesInv, FloorInv, State, HandlersInv, HandlerInv, HandlerState,
       ReadRevision, At
  <2>3. next.request = [request EXCEPT !.expected = control.revision]
    BY <1>1, <2>2, LooksUp
  <2> HIDE DEF next
  <2>4. SameRequest(next.request, handler[h].request)
    BY <2>2, <2>3, LooksUpRequest DEF SameRequest
  <2>5. QED
    BY <1>1, <1>2, <2>1, <2>4, MoveGoesWell
<1>7. CASE Begin(h)
  <2>1. CASE request.route # "republish" /\ Logged(request.id)
    BY <1>4, <1>7, <2>1 DEF Begin
  <2>2. CASE ~(request.route # "republish" /\ Logged(request.id))
    <3> DEFINE next == TookUp(handler[h], Snapshot)
    <3>1. handler' = [handler EXCEPT ![h] = next] /\ UNCHANGED call
      BY <1>7, <2>2 DEF Begin, TookUp
    <3>2. next.request = request
      BY <1>1, SnapshotType, TakesUp
    <3> HIDE DEF next
    <3>3. SameRequest(next.request, handler[h].request)
      BY <3>2 DEF SameRequest
    <3>4. QED
      BY <1>1, <1>2, <3>1, <3>3, MoveGoesWell
  <2>3. QED
    BY <2>1, <2>2
<1>8. CASE Lock(h)
  <2>1. CASE Conflict(h)
    <3>1. CASE RetryConflict(h)
      <4> DEFINE next == Retried(handler[h])
      <4>1. handler' = [handler EXCEPT ![h] = next] /\ UNCHANGED call
        BY <2>1, <3>1 DEF Conflict, Retried
      <4>2. next.request = request
        BY <1>1, <3>1, Retries DEF RetryConflict
      <4> HIDE DEF next
      <4>3. SameRequest(next.request, handler[h].request)
        BY <4>2 DEF SameRequest
      <4>4. QED
        BY <1>1, <1>2, <4>1, <4>3, MoveGoesWell
    <3>2. CASE ~RetryConflict(h)
      BY <1>4, <2>1, <3>2 DEF Conflict
    <3>3. QED
      BY <3>1, <3>2
  <2>2. CASE ~Conflict(h)
    <3>1. Goto(h, "commit") \/ Answer(h, "failed") \/ Answer(h, "refused")
      BY <1>8, <2>2 DEF Lock
    <3>2. QED
      BY <1>3, <1>4, <3>1
  <2>3. QED
    BY <2>1, <2>2
<1>9. CASE Commit(h) \/ Break(h)
  BY <1>4, <1>9 DEF Commit, Break
<1>10. QED
  BY <1>5, <1>6, <1>7, <1>8, <1>9 DEF HandlerStep

\* A new request: a handler takes what its caller sends, who is the worker or
\* an administrator that waits for nothing.
Submits ==
  \E h \in Handlers :
    LET request == handler'[h].request
        c == request.caller
    IN  /\ \A g \in Handlers : g # h => handler'[g] = handler[g]
        /\ \A d \in Administrators : d # c => call'[d] = call[d]
        /\ c \in Administrators =>
             call[c].status # "sent" /\ call'[c].status = "sent" /\ call'[c].request = request

\* What a handler and a caller become by it.
LEMMA SubmitMakes ==
  ASSUME ControlInv, NEW request, request.caller \in Callers, Submit(request)
  PROVE  \E h \in Handlers :
           /\ At(h, "idle")
           /\ handler'[h].request = request
           /\ \A g \in Handlers : g # h => handler'[g] = handler[g]
           /\ call'[request.caller] = [status |-> "sent", handler |-> h, request |-> request]
           /\ \A d \in Callers : d # request.caller => call'[d] = call[d]
<1>1. handler \in [Handlers -> HandlerState] /\ call \in [Callers -> CallState]
  BY DEF ControlInv, HandlersInv, CallsInv
<1>2. PICK h \in Handlers :
        /\ Free(h)
        /\ handler' = [handler EXCEPT ![h] = [IdleHandler EXCEPT !.pc = FirstStep(request),
                                                                 !.stamp = clock, !.request = request]]
        /\ call' = [call EXCEPT ![request.caller] = [status |-> "sent", handler |-> h, request |-> request]]
  BY DEF Submit
<1>3. handler'[h].request = request /\ \A g \in Handlers : g # h => handler'[g] = handler[g]
  BY <1>1, <1>2 DEF IdleHandler
<1>4. /\ call'[request.caller] = [status |-> "sent", handler |-> h, request |-> request]
      /\ \A d \in Callers : d # request.caller => call'[d] = call[d]
  BY <1>1, <1>2
<1>5. QED
  BY <1>2, <1>3, <1>4 DEF Free

\* The administrators' submissions.
LEMMA AdministratorSubmits ==
  ASSUME ControlInv, NEW a \in Administrators, NEW request, request.caller = a,
         Submit(request), call[a].status # "sent"
  PROVE  Submits
<1>1. request.caller \in Callers
  BY DEF Administrators
<1>2. PICK h \in Handlers :
        /\ handler'[h].request = request
        /\ \A g \in Handlers : g # h => handler'[g] = handler[g]
        /\ call'[request.caller] = [status |-> "sent", handler |-> h, request |-> request]
        /\ \A d \in Callers : d # request.caller => call'[d] = call[d]
  BY <1>1, SubmitMakes
<1>3. QED
  BY <1>2 DEF Submits, Administrators

\* The worker's steps leave the administrators' calls alone.
LEMMA WorkerCallsAlone ==
  ASSUME ControlInv, SyncStep \/ SyncRestart \/ SourceChanges, NEW a \in Administrators
  PROVE  call'[a] = call[a]
<1>1. call \in [Callers -> CallState] /\ a \in Callers /\ a # Worker /\ Worker \in Callers
  BY ServiceConstants DEF ControlInv, CallsInv, Administrators
<1>2. ASSUME NEW request, request.caller = Worker, Submit(request) PROVE call'[a] = call[a]
  BY <1>1, <1>2, SubmitMakes
<1>3. ASSUME NEW id, NEW command, Order(id, command) PROVE call'[a] = call[a]
  BY <1>2, <1>3 DEF Order
<1>4. CASE ProbeRelease
  BY <1>3, <1>4 DEF ProbeRelease
<1>5. CASE ClearRelease
  BY <1>3, <1>5 DEF ClearRelease
<1>6. CASE Playability
  BY <1>3, <1>6 DEF Playability
<1>7. CASE SyncRepublish
  BY <1>2, <1>7 DEF SyncRepublish, NoRequest
<1>8. CASE ReleaseSynchronized \/ ReleaseCleared \/ PlayabilityObserved \/ SyncRepublished \/ SyncWake
  BY <1>8 DEF ReleaseSynchronized, ReleaseCleared, PlayabilityObserved, SyncRepublished, SyncWake, service
<1>9. CASE SyncRestart
  BY <1>1, <1>9 DEF SyncRestart
<1>10. CASE SourceChanges
  BY <1>10 DEF SourceChanges, service
<1>11. QED
  BY <1>4, <1>5, <1>6, <1>7, <1>8, <1>9, <1>10 DEF SyncStep

\* Its submissions.
LEMMA WorkerSubmits ==
  ASSUME ControlInv, SyncStep \/ SyncRestart \/ SourceChanges
  PROVE  UNCHANGED tables /\ (GoesWell \/ Submits)
<1>1. UNCHANGED tables /\ (Quiet \/ \E request : Submission(request))
  BY LoopStep
<1>2. \A a \in Administrators : call'[a] = call[a]
  BY WorkerCallsAlone
<1>3. CASE Quiet
  BY <1>1, <1>2, <1>3 DEF Quiet, GoesWell, ServesOn, Hears, At, SameRequest
<1>4. ASSUME NEW request, Submission(request) PROVE Submits
  <2>1. request.caller \in Callers /\ Submit(request)
    BY <1>4 DEF Submission, Submittable, WellFormed, Request
  <2>2. PICK h \in Handlers :
          /\ At(h, "idle")
          /\ handler'[h].request = request
          /\ \A g \in Handlers : g # h => handler'[g] = handler[g]
          /\ call'[request.caller] = [status |-> "sent", handler |-> h, request |-> request]
    BY <2>1, SubmitMakes
  <2>3. ~Waiting(request.caller, h)
    BY <2>1, <2>2 DEF ControlInv, CallsInv, CallInv
  <2>4. request.caller \notin Administrators
    BY <1>2, <2>2, <2>3 DEF Waiting
  <2>5. QED
    BY <1>2, <2>2, <2>4 DEF Submits
<1>5. QED
  BY <1>1, <1>3, <1>4

\* Every step, sorted by what it does to log and orders.
LEMMA StepsSorted ==
  ASSUME ControlInv, [Next]_vars
  PROVE  /\ UNCHANGED <<control, commands>> \/ \E h \in Handlers : PublishesOrder(h)
         /\ GoesWell \/ Submits
<1>1. ASSUME NEW h \in Handlers, HandlerStep(h) \/ Break(h)
      PROVE  UNCHANGED <<control, commands>> \/ PublishesOrder(h)
  <2>1. UNCHANGED tables \/ (At(h, "commit") /\ Perform(h))
    BY <1>1 DEF HandlerStep, CheckRelease, ReadRevision, Begin, Lock, Commit, Break, database, tables
  <2>2. QED
    BY <2>1, PerformPublishes DEF tables
<1>2. ASSUME NEW h \in Handlers, Serve(h) \/ Break(h)
      PROVE  (UNCHANGED <<control, commands>> \/ PublishesOrder(h)) /\ GoesWell
  BY <1>1, <1>2, HandlerGoesWell DEF Serve
<1>3. ASSUME NEW c \in Callers, Abandon(c)
      PROVE  UNCHANGED <<control, commands>> /\ GoesWell
  <2>1. call \in [Callers -> CallState]
    BY DEF ControlInv, CallsInv
  <2>2. /\ call[c].status = "sent" /\ call' = [call EXCEPT ![c].status = "failed", ![c].handler = None]
        /\ UNCHANGED <<database, handler>>
    BY <1>3 DEF Abandon
  <2>3. \A a \in Administrators : Hears(a)
    BY <2>1, <2>2 DEF Hears, Administrators, CallState
  <2>4. QED
    BY <2>2, <2>3 DEF database, GoesWell, ServesOn, At, SameRequest
<1>4. ASSUME NEW a \in Administrators,
             Resend(a) \/ \E command \in AdminRequests : Administrate(a, command)
      PROVE  UNCHANGED <<control, commands>> /\ Submits
  <2>1. CASE Resend(a)
    <3>1. /\ call[a].status = "failed" /\ Submit(call[a].request) /\ UNCHANGED database
          /\ call[a].request.caller = a
      BY <2>1, AdministratorsCall DEF Resend, ControlInv
    <3>2. QED
      BY <3>1, AdministratorSubmits DEF database
  <2>2. ASSUME NEW command, Administrate(a, command) PROVE UNCHANGED <<control, commands>> /\ Submits
    <3>1. PICK route \in {"api", "fresh"} : Administer(a, command, route)
      BY <2>2 DEF Administrate
    <3>2. PICK id \in 1 .. MaxIds, expected \in 0 .. control.revision :
            Submit([caller |-> a, route |-> route, id |-> id, command |-> command, expected |-> expected])
      BY <3>1 DEF Administer
    <3>3. Submits
      BY <2>2, <3>2, AdministratorSubmits DEF Administrate
    <3>4. QED
      BY <2>2, <3>3 DEF Administrate, database
  <2>3. QED
    BY <1>4, <2>1, <2>2
<1>5. CASE Tick \/ UNCHANGED vars
  BY <1>5 DEF Tick, vars, database, service, GoesWell, ServesOn, Hears, At, SameRequest
<1>6. CASE SyncStep \/ SyncRestart \/ SourceChanges
  BY <1>6, WorkerSubmits DEF tables
<1>7. QED
  BY <1>2, <1>3, <1>4, <1>5, <1>6 DEF Next

\* A request stands in the log of CommandLog if it is recorded in commands.
LEMMA StandsIfRecorded ==
  ASSUME NEW l \in Seq(LogEntry), NEW r \in Request
  PROVE  Promise!StandsIn(Records(l), OrderOf(r)) <=> Recorded(l, r)
<1> DEFINE order == OrderOf(r)
<1>1. DOMAIN Records(l) = DOMAIN l /\ DOMAIN l = 1 .. Len(l) /\ Len(l) \in Nat
  BY DEF Records
<1>2. /\ order.id = r.id /\ order.actor = r.caller /\ order.command = r.command
      /\ order.at = IF r.route = "api" THEN r.expected + 1 ELSE 0
  BY DEF OrderOf
<1>3. r.expected \in Nat
  BY DEF Request
<1> HIDE DEF order
<1>4. ASSUME NEW i \in DOMAIN l
      PROVE  /\ Records(l)[i] = Promise!Record(order) <=>
                  l[i].id = r.id /\ l[i].actor = r.caller /\ l[i].command = r.command
             /\ Promise!MayStandAt(order, i) <=> (r.route = "api" => i = r.expected + 1)
  <2>1. Records(l)[i] = [id |-> l[i].id, actor |-> l[i].actor, command |-> l[i].command]
    BY DEF Records, Record
  <2>2. Promise!Record(order) = [id |-> r.id, actor |-> r.caller, command |-> r.command]
    BY <1>2 DEF Promise!Record
  <2>3. i \in Nat \ {0}
    BY <1>1
  <2>4. Promise!MayStandAt(order, i) <=> (r.route = "api" => i = r.expected + 1)
    BY <1>2, <1>3, <2>3 DEF Promise!MayStandAt, Promise!Anywhere
  <2>5. QED
    BY <2>1, <2>2, <2>4
<1>5. Promise!StandsIn(Records(l), order) <=> Recorded(l, r)
  BY <1>1, <1>4 DEF Promise!StandsIn, Recorded
<1>6. QED
  BY <1>5 DEF order

Underway == {OrderOf(handler[h].request) : h \in Commanding}
ToldOf == [a \in Administrators |-> [verdict |-> call[a].status, order |-> OrderOf(call[a].request)]]

\* The orders under way are those of before, or one that was sent.
LEMMA OrdersCome ==
  ASSUME GoesWell \/ Submits, NEW order \in Underway', order \notin Underway,
         order.actor \in Administrators
  PROVE  /\ call[order.actor].status # "sent"
         /\ call'[order.actor].status = "sent"
         /\ order = OrderOf(call'[order.actor].request)
<1>1. PICK h \in Handlers :
        /\ ~At(h, "idle")' /\ handler'[h].request.route # "republish"
        /\ order = OrderOf(handler'[h].request)
  BY DEF Underway, Commanding
<1>2. order.actor = handler'[h].request.caller
  BY <1>1 DEF OrderOf
<1>3. ASSUME ~At(h, "idle"), SameRequest(handler'[h].request, handler[h].request) PROVE FALSE
  BY <1>1, <1>3, SameOrder DEF Underway, Commanding
<1>4. CASE GoesWell
  BY <1>1, <1>3, <1>4 DEF GoesWell, ServesOn
<1>5. CASE Submits
  <2>1. PICK g \in Handlers :
          LET request == handler'[g].request
              c == request.caller
          IN  /\ \A k \in Handlers : k # g => handler'[k] = handler[k]
              /\ c \in Administrators =>
                   call[c].status # "sent" /\ call'[c].status = "sent" /\ call'[c].request = request
    BY <1>5 DEF Submits
  <2>2. CASE h # g
    <3>1. handler'[h] = handler[h]
      BY <2>1, <2>2
    <3>2. QED
      BY <1>1, <1>3, <3>1 DEF At, SameRequest
  <2>3. CASE h = g
    BY <1>1, <1>2, <2>1, <2>3
  <2>4. QED
    BY <2>2, <2>3
<1>6. QED
  BY <1>4, <1>5

\* What an administrator is told is one of the answers CommandLog gives.
LEMMA AnswersCome ==
  ASSUME GoesWell \/ Submits, NEW a \in Administrators
  PROVE  \/ call'[a] = call[a]
         \/ call[a].status # "sent" /\ call'[a].status = "sent"
         \/ /\ call[a].status = "sent" /\ call'[a].status # "sent"
            /\ call'[a].request = call[a].request
<1>1. CASE GoesWell
  BY <1>1 DEF GoesWell, Hears
<1>2. CASE Submits
  BY <1>2 DEF Submits
<1>3. QED
  BY <1>1, <1>2

\* Every step is one of CommandLog.
LEMMA PromiseStep ==
  ASSUME ControlInv, ControlInv', [Next]_vars
  PROVE  Promise!Next
<1>1. /\ UNCHANGED <<control, commands>> \/ \E h \in Handlers : PublishesOrder(h)
      /\ GoesWell \/ Submits
  BY StepsSorted
<1>2. \/ UNCHANGED <<control, [i \in DOMAIN commands |->
            [id |-> Entry(i).id, actor |-> Entry(i).actor, command |-> Entry(i).command]]>>
      \/ \E order \in {OrderOf(handler[h].request) : h \in Commanding} : Promise!CarryOut(order)
  BY <1>1, PublishesCarriesOut DEF Entry
<1>3. ASSUME NEW order \in Underway' \ Underway PROVE Promise!Comes(order)
  <2>1. SUFFICES ASSUME order.actor \in Administrators PROVE Promise!Comes(order)
    BY DEF Promise!Comes
  <2>2. /\ call[order.actor].status # "sent" /\ call'[order.actor].status = "sent"
        /\ order = OrderOf(call'[order.actor].request)
    BY <1>1, <2>1, OrdersCome
  <2>3. /\ ToldOf[order.actor].verdict # "sent" /\ ToldOf'[order.actor].verdict = "sent"
        /\ ToldOf'[order.actor].order = order
    BY <2>1, <2>2 DEF ToldOf, OrderOf, Administrators
  <2>4. QED
    BY <2>1, <2>3 DEF Promise!Comes, Promise!Orders, ToldOf, OrderOf
<1>4. ASSUME NEW a \in Administrators
      PROVE  ToldOf'[a] = ToldOf[a] \/ Promise!Orders(a) \/ Promise!IsAnswered(a)
  <2>1. /\ ToldOf[a] = [verdict |-> call[a].status, order |-> OrderOf(call[a].request)]
        /\ ToldOf'[a] = [verdict |-> call'[a].status, order |-> OrderOf(call'[a].request)]
    BY <1>4 DEF ToldOf, OrderOf, Administrators
  <2>2. Promise!Orders(a) <=> call[a].status # "sent" /\ call'[a].status = "sent"
    BY <1>4 DEF Promise!Orders, Administrators
  <2>3. Promise!IsAnswered(a) <=>
          /\ call[a].status = "sent" /\ call'[a].status # "sent"
          /\ OrderOf(call'[a].request) = OrderOf(call[a].request)
    BY <1>4 DEF Promise!IsAnswered, OrderOf, Administrators
  <2>4. QED
    BY <1>1, <2>1, <2>2, <2>3, AnswersCome
<1>5. ASSUME NEW a \in Administrators PROVE Promise!Truthful(a)
  <2>1. commands' \in Seq(LogEntry) /\ call'[a].request \in Request
    BY DEF ControlInv, TablesInv, CallsInv, CallState, Administrators
  <2>2. Promise!StandsIn(Records(commands'), OrderOf(call'[a].request)) <=>
          Recorded(commands', call'[a].request)
    BY <2>1, StandsIfRecorded
  <2>3. /\ call'[a].status = "done" => Recorded(commands', call'[a].request)
        /\ call'[a].status = "conflict" => ~Recorded(commands', call'[a].request)
    BY <1>5, AnswersByLog DEF ControlInv, CallsInv
  <2>4. Promise!Truthful(a) <=>
          /\ call'[a].status = "done" =>
               Promise!StandsIn(Records(commands'), OrderOf(call'[a].request))
          /\ call'[a].status = "conflict" =>
               ~Promise!StandsIn(Records(commands'), OrderOf(call'[a].request))
    BY DEF Promise!Truthful, Records, Record, Entry, OrderOf, Administrators
  <2>5. QED
    BY <2>2, <2>3, <2>4
<1>6. QED
  BY <1>2, <1>3, <1>4, <1>5 DEF Promise!Next, Underway, ToldOf

\* In the beginning there is no order.
LEMMA PromiseInit == Init => Promise!Init
<1> SUFFICES ASSUME Init PROVE Promise!Init
  OBVIOUS
<1>1. control = InitialState /\ commands = <<>>
  BY DEF Init, RepositoryInit
<1>2. \A h \in Handlers : At(h, "idle")
  BY DEF Init, ServiceInit, At, IdleHandler
<1>3. Commanding = {}
  BY <1>2 DEF Commanding
<1>4. \A a \in Administrators : call[a].status = "none"
  BY DEF Init, ServiceInit, IdleCall, Administrators
<1>5. [i \in DOMAIN commands |->
         [id |-> Entry(i).id, actor |-> Entry(i).actor, command |-> Entry(i).command]] = <<>>
  BY <1>1
<1>6. QED
  BY <1>1, <1>3, <1>4, <1>5 DEF Promise!Init

\* Tables, transactions, retries and copies of requests implement CommandLog:
\* each command takes effect in one step, while it is under way, on the state
\* the log has made, at the place it names; and the answers stay true
\* (executeAndPublish, executeFresh).
THEOREM CommandsAreAtomic == Spec => ImplementsCommandLog
<1>1. ControlInv /\ ControlInv' /\ [Next]_vars => [Promise!Next]_(Promise!promise)
  BY PromiseStep
<1>2. QED
  BY <1>1, PromiseInit, ControlPlaneInvariant, PTL DEF Spec, ImplementsCommandLog, Promise!Spec

-----------------------------------------------------------------------------
(***************************************************************************)
(* The API's readiness probe: a snapshot published while it reads is one   *)
(* of a request that took its time stamp not long before, so that it       *)
(* outlasts the probe.                                                     *)
(***************************************************************************)
ProbeState ==
  [pc : {"idle", "reading", "200", "503"}, since : Nat, gotState : BOOLEAN, revision : Nat,
   gotSnapshot : BOOLEAN, snapshot : Snapshots \cup {None}]

\* No request has outlived its timeouts.
StampsRecent == \A h \in Handlers : ~At(h, "idle") => clock <= handler[h].stamp + CallTime

\* What is served now was read by the probe, or is valid for longer than it lasts.
ServedStands ==
  /\ Revisions # {}
  /\ \/ published[control.revision] = ready.snapshot
     \/ published[control.revision].expires >= ready.since - CallTime + Lifetime

ProbeInv ==
  /\ ready \in ProbeState
  /\ ready.pc = "reading" =>
       /\ ready.since <= clock /\ clock <= ready.since + CallTime
       /\ ready.gotState => ready.revision <= control.revision
       /\ ready.gotSnapshot /\ ready.snapshot # None => ServedStands

ReadinessInv == ControlInv /\ StampsRecent /\ ProbeInv

\* The newest snapshot is that of the stored revision.
LEMMA NewestServed ==
  ASSUME ControlInv, Revisions # {}
  PROVE  /\ ReadPublished = published[control.revision]
         /\ ReadPublished \in Snapshots /\ ReadPublished.revision = control.revision
<1>1. /\ control.revision \in Nat /\ Revisions \subseteq 0 .. control.revision
      /\ control.revision \in Revisions /\ published[control.revision] \in Snapshots
      /\ published[control.revision] = Payload(control, published[control.revision].generated)
  BY DEF ControlInv, TablesInv, FloorInv, PublicationInv, State
<1>2. Newest = control.revision
  <2>1. \A s \in Revisions : s <= control.revision
    BY <1>1
  <2>2. \A r \in Revisions : (\A s \in Revisions : s <= r) => r = control.revision
    BY <1>1
  <2>3. QED
    BY <1>1, <2>1, <2>2 DEF Newest
<1>3. published[control.revision].revision = control.revision
  BY <1>1 DEF Payload
<1>4. QED
  BY <1>1, <1>2, <1>3 DEF ReadPublished

\* What a commit publishes is as young as its request.
LEMMA CommitServes ==
  ASSUME ControlInv, StampsRecent, NEW h \in Handlers, At(h, "commit"), Perform(h), UNCHANGED clock
  PROVE  /\ Revisions' # {}
         /\ published'[control'.revision].expires >= clock - CallTime + Lifetime
<1>1. /\ handler[h] \in HandlerState /\ ~At(h, "idle")
      /\ control.revision \in Nat
  BY DEF ControlInv, HandlersInv, At, TablesInv, FloorInv, State
<1>2. PICK stamp \in Nat : stamp = handler[h].stamp
  BY <1>1, ServiceConstants DEF HandlerState
<1>3. clock <= stamp + CallTime /\ clock \in Nat /\ CallTime \in Nat /\ Lifetime \in Nat
  BY <1>1, <1>2, ServiceConstants, StateConstants, ControlServiceAssumption
     DEF StampsRecent, ControlInv, HandlersInv
<1>4. control' \in State
  BY PerformStep DEF TablesInv, FloorInv
<1>5. published' = Published(control', stamp)
  <2>1. Envelope(h).stamp = stamp /\ Envelope(h).command = handler[h].request.command
    BY <1>2 DEF Envelope
  <2>2. CASE handler[h].request.route = "republish"
    BY <2>1, <2>2 DEF Perform, Republish
  <2>3. CASE handler[h].request.route # "republish"
    BY <2>1, <2>3 DEF Perform, PublishCommand
  <2>4. QED
    BY <2>2, <2>3
<1>6. PICK state \in State : state = control'
  BY <1>4
<1>7. Revisions' = Revisions \cup {state.revision} /\ published'[state.revision] = Payload(state, stamp)
  BY <1>5, <1>6, PublishedFields
<1>8. Payload(state, stamp).expires = stamp + Lifetime
  BY DEF Payload
<1>9. QED
  BY <1>2, <1>3, <1>6, <1>7, <1>8

\* A handler goes on with its time stamp, takes a new one, or is done.
LEMMA StampsStay ==
  ASSUME StampsRecent, HandlersInv, UNCHANGED clock, NEW h \in Handlers,
         \A g \in Handlers : g # h => handler'[g] = handler[g],
         \/ handler'[h].pc = "idle"
         \/ handler'[h].stamp = clock
         \/ handler'[h].stamp = handler[h].stamp /\ ~At(h, "idle")
  PROVE  StampsRecent'
<1>1. clock \in Nat /\ CallTime \in Nat
  BY ServiceConstants, ControlServiceAssumption DEF HandlersInv
<1>2. QED
  BY <1>1 DEF StampsRecent, At

\* No step of the control plane leaves a request behind its timeouts.
LEMMA StampsKept == ASSUME ControlInv, StampsRecent, [Next]_vars PROVE StampsRecent'
<1> USE DEF ControlInv
<1>1. handler \in [Handlers -> HandlerState]
  BY DEF HandlersInv
<1>2. ASSUME NEW h \in Handlers, NEW outcome, Answer(h, outcome), UNCHANGED clock
      PROVE  StampsRecent'
  <2>1. handler' = [handler EXCEPT ![h] = IdleHandler] /\ IdleHandler.pc = "idle"
    BY <1>2 DEF Answer, IdleHandler
  <2>2. handler'[h].pc = "idle" /\ \A g \in Handlers : g # h => handler'[g] = handler[g]
    BY <1>1, <2>1
  <2>3. QED
    BY <1>2, <2>2, StampsStay
<1>3. ASSUME NEW h \in Handlers, ~At(h, "idle"), UNCHANGED clock,
             handler'[h].stamp \in {clock, handler[h].stamp},
             \A g \in Handlers : g # h => handler'[g] = handler[g]
      PROVE  StampsRecent'
  BY <1>3, StampsStay
<1>4. ASSUME NEW h \in Handlers, NEW pc, ~At(h, "idle"), UNCHANGED clock, Goto(h, pc)
      PROVE  StampsRecent'
  <2>1. /\ handler'[h].stamp = handler[h].stamp
        /\ \A g \in Handlers : g # h => handler'[g] = handler[g]
    BY <1>1, <1>4 DEF Goto, HandlerState
  <2>2. QED
    BY <1>3, <1>4, <2>1
<1>5. ASSUME NEW h \in Handlers, Serve(h) PROVE StampsRecent'
  <2>1. CASE CheckRelease(h)
    BY <1>2, <1>4, <2>1 DEF CheckRelease, At
  <2>2. CASE ReadRevision(h)
    <3>1. /\ handler'[h].stamp = clock /\ ~At(h, "idle") /\ UNCHANGED clock
          /\ \A g \in Handlers : g # h => handler'[g] = handler[g]
      BY <1>1, <2>2 DEF ReadRevision, HandlerState, At
    <3>2. QED
      BY <1>3, <3>1
  <2>3. CASE Begin(h)
    <3>1. ASSUME handler' = [handler EXCEPT ![h].pc = "lock", ![h].seen = Snapshot]
          PROVE  StampsRecent'
      <4>1. /\ handler'[h].stamp = handler[h].stamp /\ ~At(h, "idle") /\ UNCHANGED clock
            /\ \A g \in Handlers : g # h => handler'[g] = handler[g]
        BY <1>1, <2>3, <3>1 DEF HandlerState, At, Begin
      <4>2. QED
        BY <1>3, <4>1
    <3>2. QED
      BY <1>2, <2>3, <3>1 DEF Begin
  <2>4. CASE Lock(h)
    <3>1. ~At(h, "idle") /\ UNCHANGED clock
      BY <2>4 DEF Lock, At
    <3>2. ASSUME Conflict(h) PROVE StampsRecent'
      <4>1. ASSUME handler' = [handler EXCEPT ![h].pc = "read", ![h].attempt = @ + 1, ![h].seen = None]
            PROVE  StampsRecent'
        <5>1. /\ handler'[h].stamp = handler[h].stamp
              /\ \A g \in Handlers : g # h => handler'[g] = handler[g]
          BY <1>1, <4>1 DEF HandlerState
        <5>2. QED
          BY <1>3, <3>1, <5>1
      <4>2. QED
        BY <1>2, <3>1, <3>2, <4>1 DEF Conflict
    <3>3. \/ \E outcome : Answer(h, outcome)
          \/ Goto(h, "commit")
          \/ Conflict(h)
      BY <2>4 DEF Lock
    <3>4. QED
      BY <1>2, <1>4, <3>1, <3>2, <3>3
  <2>5. CASE Commit(h)
    BY <1>2, <2>5 DEF Commit
  <2>6. QED
    BY <1>5, <2>1, <2>2, <2>3, <2>4, <2>5 DEF Serve, HandlerStep
<1>6. ASSUME NEW h \in Handlers, Break(h) PROVE StampsRecent'
  BY <1>2, <1>6 DEF Break
<1>7. ASSUME UNCHANGED <<handler, clock>> PROVE StampsRecent'
  BY <1>7 DEF StampsRecent, At
<1>8. ASSUME NEW request, Submission(request) PROVE StampsRecent'
  <2>1. UNCHANGED clock
    BY <1>8 DEF Submission
  <2>2. PICK h \in Handlers : handler' = [handler EXCEPT ![h] =
               [IdleHandler EXCEPT !.pc = FirstStep(request), !.stamp = clock, !.request = request]]
    BY <1>8 DEF Submission, Submit
  <2>3. /\ handler'[h].stamp = clock
        /\ \A g \in Handlers : g # h => handler'[g] = handler[g]
    BY <1>1, <2>2 DEF IdleHandler
  <2>4. QED
    BY <2>1, <2>3, StampsStay
<1>9. ASSUME NEW c \in Callers, Abandon(c) PROVE StampsRecent'
  BY <1>7, <1>9 DEF Abandon
<1>10. ASSUME NEW a \in Administrators,
              Resend(a) \/ \E command \in AdminRequests : Administrate(a, command)
       PROVE  StampsRecent'
  BY <1>8, <1>10, ResendStep, AdministrateStep
<1>11. CASE SyncStep \/ SyncRestart \/ SourceChanges
  BY <1>7, <1>8, <1>11, LoopStep DEF Quiet
<1>12. CASE Tick
  <2>1. /\ handler' = handler /\ clock' = clock + 1 /\ clock \in Nat /\ CallTime \in Nat
        /\ \A h \in Handlers : ~At(h, "idle") => clock < handler[h].stamp + CallTime
    BY <1>12, ServiceConstants, ControlServiceAssumption DEF Tick, service, HandlersInv
  <2>2. \A h \in Handlers : handler[h].stamp \in Nat
    BY <1>1, ServiceConstants DEF HandlerState
  <2>3. QED
    BY <2>1, <2>2 DEF StampsRecent, At
<1>13. CASE UNCHANGED vars
  BY <1>7, <1>13 DEF vars, service
<1>14. QED
  BY <1>5, <1>6, <1>9, <1>10, <1>11, <1>12, <1>13 DEF Next

\* Who writes the tables: nobody, or a transaction that commits.
LEMMA WhoWrites ==
  ASSUME ControlInv, [Next]_vars
  PROVE  \/ UNCHANGED tables
         \/ UNCHANGED clock /\ \E h \in Handlers : At(h, "commit") /\ Perform(h)
<1>1. ASSUME NEW h \in Handlers, Serve(h)
      PROVE  UNCHANGED tables \/ (UNCHANGED clock /\ At(h, "commit") /\ Perform(h))
  BY <1>1 DEF Serve, HandlerStep, CheckRelease, ReadRevision, Begin, Lock, Commit, database, tables
<1>2. ASSUME NEW h \in Handlers, Break(h)
      PROVE  UNCHANGED tables \/ (UNCHANGED clock /\ At(h, "commit") /\ Perform(h))
  BY <1>2 DEF Break
<1>3. ASSUME NEW c \in Callers, Abandon(c) PROVE UNCHANGED tables
  BY <1>3 DEF Abandon, database, tables
<1>4. ASSUME NEW a \in Administrators,
             Resend(a) \/ \E command \in AdminRequests : Administrate(a, command)
      PROVE  UNCHANGED tables
  BY <1>4 DEF Resend, Administrate, database, tables
<1>5. CASE SyncStep \/ SyncRestart \/ SourceChanges
  BY <1>5, LoopStep
<1>6. CASE Tick
  BY <1>6 DEF Tick, database, tables
<1>7. CASE UNCHANGED vars
  BY <1>7 DEF vars, database, tables
<1>8. QED
  BY <1>1, <1>2, <1>3, <1>4, <1>5, <1>6, <1>7 DEF Next

\* A step of the control plane while the probe is under way.
LEMMA ProbeWaits ==
  ASSUME ReadinessInv, [Next]_vars, UNCHANGED ready,
         ready.pc = "reading" /\ clock' # clock => clock < ready.since + CallTime
  PROVE  ProbeInv'
<1>1. ControlInv /\ StampsRecent /\ ready \in ProbeState /\ CallTime \in Nat /\ Lifetime \in Nat
  BY ControlServiceAssumption, StateConstants DEF ReadinessInv, ProbeInv
<1>2. SUFFICES ASSUME ready.pc = "reading"
               PROVE  /\ ready.since <= clock' /\ clock' <= ready.since + CallTime
                      /\ ready.gotState => ready.revision <= control'.revision
                      /\ ready.gotSnapshot /\ ready.snapshot # None => ServedStands'
  BY <1>1 DEF ProbeInv
<1>3. /\ ready.since <= clock /\ clock <= ready.since + CallTime
      /\ ready.gotState => ready.revision <= control.revision
      /\ ready.gotSnapshot /\ ready.snapshot # None => ServedStands
      /\ ready.since \in Nat /\ ready.revision \in Nat
  BY <1>1, <1>2 DEF ReadinessInv, ProbeInv, ProbeState
<1>4. clock \in Nat /\ clock' \in {clock, clock + 1}
  <2>1. clock \in Nat
    BY <1>1, ServiceConstants DEF ControlInv, HandlersInv
  <2>2. clock' = clock \/ clock' = clock + 1
    <3>1. ASSUME NEW h \in Handlers, Serve(h) \/ Break(h) PROVE UNCHANGED clock
      BY <3>1 DEF Serve, HandlerStep, CheckRelease, ReadRevision, Begin, Lock, Commit, Break
    <3>2. ASSUME NEW c \in Callers, Abandon(c) PROVE UNCHANGED clock
      BY <3>2 DEF Abandon
    <3>3. ASSUME NEW a \in Administrators,
                 Resend(a) \/ \E command \in AdminRequests : Administrate(a, command)
          PROVE  UNCHANGED clock
      BY <3>3 DEF Resend, Administrate
    <3>4. CASE SyncStep \/ SyncRestart \/ SourceChanges
      BY <1>1, <3>4, LoopStep DEF Quiet, Submission
    <3>5. CASE Tick
      BY <3>5 DEF Tick
    <3>6. CASE UNCHANGED vars
      BY <3>6 DEF vars
    <3>7. QED
      BY <3>1, <3>2, <3>3, <3>4, <3>5, <3>6 DEF Next
  <2>3. QED
    BY <2>1, <2>2
<1>5. ready.since <= clock' /\ clock' <= ready.since + CallTime
  BY <1>1, <1>2, <1>3, <1>4
<1>6. CASE UNCHANGED tables
  BY <1>3, <1>5, <1>6 DEF tables, ServedStands, Revisions
<1>7. CASE UNCHANGED clock /\ \E h \in Handlers : At(h, "commit") /\ Perform(h)
  <2>1. PICK h \in Handlers : At(h, "commit") /\ Perform(h)
    BY <1>7
  <2>2. Advances
    BY <1>1, <1>7, <2>1, PerformStep
  <2>3. ready.gotState => ready.revision <= control'.revision
    BY <1>3, <2>2 DEF Advances
  <2>4. /\ Revisions' # {}
        /\ published'[control'.revision].expires >= clock - CallTime + Lifetime
    BY <1>1, <1>7, <2>1, CommitServes
  <2>5. control'.revision \in Revisions' /\ published'[control'.revision].expires \in Nat
    <3>1. PublicationInv'
      BY <1>1, <1>7, <2>1, PerformStep DEF TablesInv
    <3>2. control'.revision \in Revisions' /\ published'[control'.revision] \in Snapshots
      BY <2>4, <3>1 DEF PublicationInv
    <3>3. QED
      BY <3>2 DEF Snapshots
  <2>6. published'[control'.revision].expires >= ready.since - CallTime + Lifetime
    BY <1>1, <1>3, <1>4, <2>4, <2>5
  <2>7. QED
    BY <1>5, <2>3, <2>4, <2>6 DEF ServedStands
<1>8. QED
  BY <1>1, <1>6, <1>7, WhoWrites

\* A step of the probe, which writes nothing.
LEMMA ProbeSteps == ASSUME ReadinessInv, ReadyStep PROVE ProbeInv'
<1>1. ControlInv /\ ready \in ProbeState /\ UNCHANGED vars
  BY DEF ReadinessInv, ProbeInv, ReadyStep, ReadyStart, ReadyState, ReadySnapshot, ReadyAnswer
<1>2. UNCHANGED <<control, published, clock>> /\ Revisions' = Revisions
  BY <1>1 DEF vars, database, Revisions
<1>3. clock \in Nat /\ control.revision \in Nat /\ CallTime \in Nat
  BY <1>1, ServiceConstants, ControlServiceAssumption
     DEF ControlInv, HandlersInv, TablesInv, FloorInv, State
<1>4. NotReading \in ProbeState /\ NotReading.gotState = FALSE /\ NotReading.gotSnapshot = FALSE
  BY DEF NotReading, ProbeState
<1>5. CASE ReadyStart
  <2>1. ready' = [NotReading EXCEPT !.pc = "reading", !.since = clock]
    BY <1>5 DEF ReadyStart
  <2>2. /\ ready' \in ProbeState /\ ready'.since = clock
        /\ ready'.gotState = FALSE /\ ready'.gotSnapshot = FALSE
    BY <1>3, <1>4, <2>1 DEF NotReading, ProbeState
  <2>3. QED
    BY <1>2, <1>3, <2>2 DEF ProbeInv
<1>6. CASE ReadyState
  <2>1. ready' = [ready EXCEPT !.gotState = TRUE, !.revision = control.revision] /\ ready.pc = "reading"
    BY <1>6 DEF ReadyState
  <2>2. /\ ready' \in ProbeState /\ ready'.since = ready.since /\ ready'.revision = control.revision
        /\ ready'.gotSnapshot = ready.gotSnapshot /\ ready'.snapshot = ready.snapshot
    BY <1>1, <1>3, <2>1 DEF ProbeState
  <2>3. QED
    BY <1>2, <1>3, <2>1, <2>2 DEF ProbeInv, ReadinessInv, ServedStands
<1>7. CASE ReadySnapshot
  <2>1. ready' = [ready EXCEPT !.gotSnapshot = TRUE, !.snapshot = ReadPublished] /\ ready.pc = "reading"
    BY <1>7 DEF ReadySnapshot
  <2>2. Revisions # {} => ReadPublished = published[control.revision] /\ ReadPublished \in Snapshots
    BY <1>1, NewestServed
  <2>3. Revisions = {} => ReadPublished = None
    BY DEF ReadPublished
  <2>4. /\ ready' \in ProbeState /\ ready'.since = ready.since /\ ready'.revision = ready.revision
        /\ ready'.gotState = ready.gotState /\ ready'.snapshot = ReadPublished
    <3>1. ReadPublished \in Snapshots \cup {None}
      BY <2>2, <2>3
    <3> HIDE DEF ReadPublished
    <3>2. QED
      BY <1>1, <2>1, <3>1 DEF ProbeState
  <2>5. ready'.snapshot # None => ServedStands'
    BY <1>2, <2>2, <2>3, <2>4 DEF ServedStands
  <2>6. QED
    BY <1>2, <2>1, <2>4, <2>5 DEF ProbeInv, ReadinessInv
<1>8. CASE ReadyAnswer
  <2>1. PICK pc \in {"200", "503"} : ready' = [NotReading EXCEPT !.pc = pc]
    BY <1>8 DEF ReadyAnswer
  <2>2. ready' \in ProbeState /\ ready'.pc # "reading"
    BY <1>4, <2>1 DEF NotReading, ProbeState
  <2>3. QED
    BY <2>2 DEF ProbeInv
<1>9. QED
  BY <1>5, <1>6, <1>7, <1>8 DEF ReadyStep

\* Every step keeps it.
LEMMA ReadinessStep ==
  ASSUME ReadinessInv, [ReadinessNext]_readinessVars PROVE ReadinessInv'
<1>1. ControlInv /\ StampsRecent
  BY DEF ReadinessInv
<1>2. [Next]_vars
  BY DEF ReadinessNext, ReadyStep, ReadyStart, ReadyState, ReadySnapshot, ReadyAnswer, readinessVars
<1>3. ControlInv' /\ StampsRecent'
  BY <1>1, <1>2, NextControlInv, StampsKept
<1>4. ProbeInv'
  <2>1. CASE ReadyStep
    BY <2>1, ProbeSteps
  <2>2. CASE /\ Next /\ UNCHANGED ready
             /\ ready.pc = "reading" /\ clock' # clock => clock < ready.since + CallTime
    BY <2>2, ProbeWaits
  <2>3. CASE UNCHANGED readinessVars
    <3>1. UNCHANGED ready /\ UNCHANGED vars /\ clock' = clock
      BY <2>3 DEF readinessVars, vars
    <3>2. QED
      BY <3>1, ProbeWaits
  <2>4. QED
    BY <2>1, <2>2, <2>3 DEF ReadinessNext
<1>5. QED
  BY <1>3, <1>4 DEF ReadinessInv

\* The probe answers 200 only when what is served at that moment is valid.
LEMMA ReadyIsServed ==
  ASSUME ReadinessInv, [ReadinessNext]_readinessVars, ready.pc = "reading", ready'.pc = "200"
  PROVE  Revisions # {} /\ Fresh(ReadPublished, clock, ready.revision)
<1>1. ControlInv /\ ready \in ProbeState /\ 2 * CallTime < Lifetime
      /\ CallTime \in Nat /\ Lifetime \in Nat /\ clock \in Nat /\ control.revision \in Nat
  BY ReadinessAssumption, ControlServiceAssumption, StateConstants, ServiceConstants
     DEF ReadinessInv, ProbeInv, ControlInv, HandlersInv, TablesInv, FloorInv, State
<1>2. ReadyAnswer
  <2>1. ready' # ready
    BY <1>1
  <2>2. ASSUME ReadyStart \/ ReadyState \/ ReadySnapshot PROVE FALSE
    BY <1>1, <2>2 DEF ReadyStart, ReadyState, ReadySnapshot, ProbeState
  <2>3. QED
    BY <2>1, <2>2 DEF ReadinessNext, ReadyStep, readinessVars
<1>3. /\ ready.gotState /\ ready.gotSnapshot
      /\ SnapshotAccepted(ready.snapshot, ready.revision)
  <2>1. ASSUME ~SnapshotAccepted(ready.snapshot, ready.revision) PROVE FALSE
    <3>1. ready' = [NotReading EXCEPT !.pc = "503"]
      BY <1>2, <2>1 DEF ReadyAnswer
    <3>2. ready'.pc = "503"
      BY <3>1 DEF NotReading
    <3>3. QED
      BY <3>2
  <2>2. QED
    BY <1>2, <2>1 DEF ReadyAnswer
<1>4. ready.snapshot # None /\ ready.snapshot.expires > clock
  BY <1>3 DEF SnapshotAccepted, Fresh
<1>5. /\ ready.since \in Nat /\ ready.revision \in Nat
      /\ clock <= ready.since + CallTime /\ ready.revision <= control.revision /\ ServedStands
  BY <1>1, <1>3, <1>4 DEF ReadinessInv, ProbeInv, ProbeState
<1>6. /\ Revisions # {} /\ ReadPublished = published[control.revision]
      /\ ReadPublished \in Snapshots /\ ReadPublished.revision = control.revision
  BY <1>1, <1>5, NewestServed DEF ServedStands
<1>7. ReadPublished.expires \in Nat
  BY <1>6 DEF Snapshots
<1>8. ReadPublished.expires > clock
  <2>1. CASE published[control.revision] = ready.snapshot
    BY <1>4, <1>6, <2>1
  <2>2. CASE published[control.revision].expires >= ready.since - CallTime + Lifetime
    BY <1>1, <1>5, <1>6, <1>7, <2>2
  <2>3. QED
    BY <1>5, <2>1, <2>2 DEF ServedStands
<1>9. QED
  BY <1>1, <1>5, <1>6, <1>8 DEF Fresh

\* A ready API serves a snapshot clients accept, whatever was published between
\* the probe's two reads (/health/ready).
THEOREM ReadyIsHonest == ReadinessSpec => ReadyMeansServed
<1>1. ReadinessInit => ReadinessInv
  <2> SUFFICES ASSUME ReadinessInit PROVE ReadinessInv
    OBVIOUS
  <2>1. ControlInv
    BY InitControlInv DEF ReadinessInit
  <2>2. StampsRecent
    BY DEF ReadinessInit, Init, ServiceInit, IdleHandler, StampsRecent, At
  <2>3. ProbeInv
    BY DEF ReadinessInit, NotReading, ProbeInv, ProbeState
  <2>4. QED
    BY <2>1, <2>2, <2>3 DEF ReadinessInv
<1>2. ReadinessInv /\ [ReadinessNext]_readinessVars => ReadinessInv'
  BY ReadinessStep
<1>3. ReadinessInv /\ [ReadinessNext]_readinessVars
        => [ready.pc = "reading" /\ ready'.pc = "200" =>
              Revisions # {} /\ Fresh(ReadPublished, clock, ready.revision)]_readinessVars
  BY ReadyIsServed
<1>4. QED
  BY <1>1, <1>2, <1>3, PTL DEF ReadinessSpec, ReadyMeansServed
=============================================================================
