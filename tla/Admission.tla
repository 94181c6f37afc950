----------------------------- MODULE Admission -----------------------------
(***************************************************************************)
(* PostgresDiagnosticRepository.insertWithinQuota: concurrent creates      *)
(* under the three advisory locks, the quotas they count, the archives     *)
(* they evict, and the rest of an archive's life as far as quotas and      *)
(* retained capacity see it.                                               *)
(***************************************************************************)
EXTENDS CapacityEviction, ArchivePhases

CONSTANTS
  Installs, Networks, Sizes,
  Creates,          \* identifiers of the creates, and of their archives
  Earlier,          \* identifiers of archives created before
  EarlierArchives,  \* what those may be
  Quota,            \* diagnosticQuotaLimits
  Day,              \* 24 hours
  MaxClock,         \* bound on the clock
  MaxMoves          \* bound on the steps of archives already created

Archives == Creates \cup Earlier

NoArchive == [phase |-> "Absent"]

ArchiveRows ==
  [phase : {"Receiving", "Queued", "Stored", "Verifying", "Discarded", "Deleting", "Gone"},
   released : BOOLEAN, restored : BOOLEAN,
   install : Installs, network : Networks, size : Sizes, created : Int]

QuotaLimits ==
  [installDailyUploads : Nat, networkDailyUploads : Nat, globalDailyUploads : Nat,
   installActiveUploads : Nat, networkActiveUploads : Nat, globalActiveUploads : Nat,
   installDailyBytes : Nat, networkDailyBytes : Nat, globalDailyBytes : Nat,
   globalRetainedBytes : Nat]

\* the archives there already are within the retained capacity
ASSUME AdmissionAssumption ==
  /\ Archives \subseteq Nat /\ IsFiniteSet(Archives) /\ Creates \cap Earlier = {}
  /\ Sizes \subseteq Nat \ {0} /\ {Day, MaxClock, MaxMoves} \subseteq Nat
  /\ Quota \in QuotaLimits
  /\ \A earlier \in EarlierArchives :
       /\ \A a \in Earlier : earlier[a] = NoArchive \/ earlier[a] \in ArchiveRows
       /\ Bytes({[id |-> a, size |-> earlier[a].size] :
                   a \in {b \in Earlier : /\ earlier[b].phase \notin {"Absent", "Gone"}
                                          /\ ~earlier[b].released /\ ~earlier[b].restored}})
            <= Quota.globalRetainedBytes

VARIABLES
  archive,        \* diagnostic_uploads: the columns admission reads
  draft,          \* each create's transaction and what it has read so far
  admissionTime,  \* the API's clock
  archiveMoves    \* steps the archives have taken

admissionVars == <<archive, draft, admissionTime, archiveMoves>>

Existing == {a \in Archives : archive[a].phase # "Absent"}

(***************************************************************************)
(* The advisory locks, taken left to right and held until the transaction  *)
(* ends.                                                                   *)
(***************************************************************************)
Locks(c) == <<<<"install", draft[c].install>>, <<"network", draft[c].network>>,
              <<"global">>>>

\* mutant: the network and the global lock do not exclude anyone
InstallLockOnly(c) == <<<<"install", draft[c].install>>, <<"network", c>>, <<"global", c>>>>

\* mutant: the locks are taken in an order that depends on the create
LocksInAnyOrder(c) ==
  IF draft[c].size = 1 THEN <<<<"install", draft[c].install>>,
                              <<"network", draft[c].network>>, <<"global">>>>
  ELSE <<<<"global">>, <<"network", draft[c].network>>, <<"install", draft[c].install>>>>

LockOrder(c) == Locks(c)

Holding(c) == {LockOrder(c)[n] : n \in 1 .. draft[c].locks}

LockFree(lock) == \A c \in Creates : lock \notin Holding(c)

NextLock(c) == LockOrder(c)[draft[c].locks + 1]

NoDraft == [step |-> "Idle", locks |-> 0]

Transacting(c) == draft[c].step \in {"Locking", "Counting", "Selecting", "Choosing", "Inserting"}

EndCreate(c, step) == draft' = [draft EXCEPT ![c] = [NoDraft EXCEPT !.step = step]]

(***************************************************************************)
(* The first query: everything created since "since".                     *)
(***************************************************************************)
CreatedSince(c) == {a \in Existing : archive[a].created >= draft[c].created - Day}

OfInstall(c, S) == {a \in S : archive[a].install = draft[c].install}
OfNetwork(c, S) == {a \in S : archive[a].network = draft[c].network}
ActiveOf(S) == {a \in S : archive[a].phase \in ActivePhases}
BytesOf(S) == Bytes({[id |-> a, size |-> archive[a].size] : a \in S})

QuotaExceeded(c) ==
  LET recent    == CreatedSince(c)
      ofInstall == OfInstall(c, recent)
      ofNetwork == OfNetwork(c, recent)
  IN \/ Cardinality(ofInstall) >= Quota.installDailyUploads
     \/ Cardinality(ofNetwork) >= Quota.networkDailyUploads
     \/ Cardinality(ActiveOf(ofInstall)) >= Quota.installActiveUploads
     \/ Cardinality(ActiveOf(ofNetwork)) >= Quota.networkActiveUploads
     \/ Cardinality(recent) >= Quota.globalDailyUploads
     \/ Cardinality(ActiveOf(recent)) >= Quota.globalActiveUploads
     \/ BytesOf(ofInstall) + draft[c].size > Quota.installDailyBytes
     \/ BytesOf(ofNetwork) + draft[c].size > Quota.networkDailyBytes
     \/ BytesOf(recent) + draft[c].size > Quota.globalDailyBytes

(***************************************************************************)
(* The second query: the archives whose bytes are retained, locked FOR     *)
(* UPDATE until the transaction ends.                                      *)
(***************************************************************************)
\* mutant: a discarded archive's bytes are not counted
RetainedUntilDiscarded ==
  {a \in Existing : archive[a].phase \notin {"Gone", "Discarded"} /\ ~archive[a].released}

Retained == {a \in Existing : archive[a].phase # "Gone" /\ ~archive[a].released}

AsRetained(a) == [id |-> a, install |-> archive[a].install, size |-> archive[a].size,
                  created |-> archive[a].created,
                  evictable |-> archive[a].phase \in Evictable]

RowsHeld(c) ==
  IF draft[c].step \in {"Choosing", "Inserting"} THEN {r.id : r \in draft[c].rows} ELSE {}

RowLocked(a) == \E c \in Creates : a \in RowsHeld(c)

\* what selectCapacityEvictions has not chosen so far
StillKept(c) == {r \in draft[c].rows : r.id \notin draft[c].evicted}

IncomingFits(c) == Fits(StillKept(c), draft[c].size, Quota.globalRetainedBytes)

-----------------------------------------------------------------------------
AdmissionInit ==
  /\ \E earlier \in EarlierArchives :
       archive = [a \in Archives |-> IF a \in Earlier THEN earlier[a] ELSE NoArchive]
  /\ draft = [c \in Creates |-> NoDraft]
  /\ admissionTime = 0
  /\ archiveMoves = 0

BeginCreate(c, i, n, s) ==
  /\ draft[c].step = "Idle"
  /\ draft' = [draft EXCEPT ![c] = [step |-> "Locking", locks |-> 0, install |-> i,
                                    network |-> n, size |-> s, created |-> admissionTime,
                                    rows |-> {}, evicted |-> {}]]
  /\ UNCHANGED <<archive, admissionTime, archiveMoves>>

AcquireLock(c) ==
  /\ draft[c].step = "Locking"
  /\ LockFree(NextLock(c))
  /\ draft' = [draft EXCEPT ![c].locks = @ + 1,
                            ![c].step = IF draft[c].locks = 2 THEN "Counting" ELSE @]
  /\ UNCHANGED <<archive, admissionTime, archiveMoves>>

CountUsage(c) ==
  /\ draft[c].step = "Counting"
  /\ IF QuotaExceeded(c)
       THEN EndCreate(c, "Refused")
       ELSE draft' = [draft EXCEPT ![c].step = "Selecting"]
  /\ UNCHANGED <<archive, admissionTime, archiveMoves>>

SelectRetained(c) ==
  /\ draft[c].step = "Selecting"
  /\ draft' = [draft EXCEPT ![c].step = "Choosing", ![c].evicted = {},
                            ![c].rows = {AsRetained(a) : a \in Retained}]
  /\ UNCHANGED <<archive, admissionTime, archiveMoves>>

\* one round of the loop of selectCapacityEvictions
ChooseEviction(c) ==
  /\ draft[c].step = "Choosing"
  /\ ~IncomingFits(c)
  /\ \E r \in Candidates(StillKept(c)) : draft' = [draft EXCEPT ![c].evicted = @ \cup {r.id}]
  /\ UNCHANGED <<archive, admissionTime, archiveMoves>>

\* its end: the incoming archive fits, or there is no candidate (null)
EndSelection(c) ==
  /\ draft[c].step = "Choosing"
  /\ \/ IncomingFits(c) /\ draft' = [draft EXCEPT ![c].step = "Inserting"]
     \/ ~IncomingFits(c) /\ Candidates(StillKept(c)) = {} /\ EndCreate(c, "Refused")
  /\ UNCHANGED <<archive, admissionTime, archiveMoves>>

\* the eviction, its audit, the row and the COMMIT
InsertArchive(c) ==
  /\ draft[c].step = "Inserting"
  /\ archive' = [a \in Archives |->
       IF a = c
         THEN [phase |-> "Receiving", released |-> FALSE, restored |-> FALSE,
               install |-> draft[c].install, network |-> draft[c].network,
               size |-> draft[c].size, created |-> draft[c].created]
       ELSE IF a \in draft[c].evicted
         THEN [archive[a] EXCEPT !.phase = "Discarded", !.released = TRUE]
       ELSE archive[a]]
  /\ EndCreate(c, "Created")
  /\ UNCHANGED <<admissionTime, archiveMoves>>

\* a query fails or the connection is lost: the transaction is rolled back
RollbackCreate(c) ==
  /\ Transacting(c)
  /\ EndCreate(c, "Failed")
  /\ UNCHANGED <<archive, admissionTime, archiveMoves>>

(***************************************************************************)
(* What the other statements of DiagnosticRepository do to a row: they     *)
(* wait for the row lock.                                                  *)
(***************************************************************************)
ArchiveMoves(a, r) ==
  /\ ~RowLocked(a)
  /\ archiveMoves < MaxMoves
  /\ archiveMoves' = archiveMoves + 1
  /\ archive' = [archive EXCEPT ![a] = r]
  /\ UNCHANGED <<draft, admissionTime>>

ArchiveProceeds(a, phase) ==
  /\ phase \in Successors(archive[a].phase)
  /\ ArchiveMoves(a, [archive[a] EXCEPT !.phase = phase])

\* scheduleDeletionRetry: the bytes are still there and are counted again
Restored(r) == [r EXCEPT !.phase = "Discarded", !.released = FALSE,
                         !.restored = r.released \/ r.restored]

DeletionFails(a) ==
  /\ archive[a].phase = "Deleting"
  /\ ArchiveMoves(a, Restored(archive[a]))

AdmissionTick ==
  /\ admissionTime < MaxClock
  /\ admissionTime' = admissionTime + 1
  /\ UNCHANGED <<archive, draft, archiveMoves>>

CreateStep(c) ==
  \/ AcquireLock(c) \/ CountUsage(c) \/ SelectRetained(c) \/ ChooseEviction(c)
  \/ EndSelection(c) \/ InsertArchive(c)

AdmissionNext ==
  \/ \E c \in Creates :
       \/ \E i \in Installs, n \in Networks, s \in Sizes : BeginCreate(c, i, n, s)
       \/ CreateStep(c)
       \/ RollbackCreate(c)
  \/ \E a \in Archives :
       \/ DeletionFails(a)
       \/ \E phase \in Successors(archive[a].phase) : ArchiveProceeds(a, phase)
  \/ AdmissionTick

AdmissionSpec == AdmissionInit /\ [][AdmissionNext]_admissionVars

-----------------------------------------------------------------------------
CreatedBefore(S, a) == {b \in S : archive[a].created - archive[b].created \in 0 .. Day}

Counted == {a \in Existing : archive[a].phase # "Gone" /\ ~archive[a].released}

Admitted == {a \in Creates : archive[a].phase # "Absent"}

(***************************************************************************)
(* In no 24 hours are more archives or bytes admitted than an install, a   *)
(* network and the service may create, however many creates run at once.   *)
(***************************************************************************)
DailyQuotaHolds ==
  \A a \in Admitted :
    LET recent    == CreatedBefore(Existing, a)
        ofInstall == {b \in recent : archive[b].install = archive[a].install}
        ofNetwork == {b \in recent : archive[b].network = archive[a].network}
    IN /\ Cardinality(ofInstall) <= Quota.installDailyUploads
       /\ Cardinality(ofNetwork) <= Quota.networkDailyUploads
       /\ Cardinality(recent) <= Quota.globalDailyUploads
       /\ BytesOf(ofInstall) <= Quota.installDailyBytes
       /\ BytesOf(ofNetwork) <= Quota.networkDailyBytes
       /\ BytesOf(recent) <= Quota.globalDailyBytes

(***************************************************************************)
(* No install and no network sends more archives at a time than its limit  *)
(* of active uploads, whatever becomes of the archives already stored.     *)
(***************************************************************************)
ReceivingBounded ==
  \A a \in Admitted :
    LET receiving == {b \in CreatedBefore(Existing, a) : archive[b].phase = "Receiving"}
    IN /\ Cardinality({b \in receiving : archive[b].install = archive[a].install})
            <= Quota.installActiveUploads
       /\ Cardinality({b \in receiving : archive[b].network = archive[a].network})
            <= Quota.networkActiveUploads
       /\ Cardinality(receiving) <= Quota.globalActiveUploads

(***************************************************************************)
(* However many creates run at once and whatever becomes of the archives,  *)
(* install, network and service stay within their quotas of a day and of   *)
(* uploads at a time.                                                      *)
(***************************************************************************)
QuotaHolds == DailyQuotaHolds /\ ReceivingBounded

(***************************************************************************)
(* Retained capacity is over its cap by no more than the archives whose    *)
(* eviction was taken back, because their deletion failed.                 *)
(***************************************************************************)
OnlyRestoredExceed ==
  BytesOf({a \in Counted : ~archive[a].restored}) <= Quota.globalRetainedBytes

(***************************************************************************)
(* The cap as docs/OPERATIONS.md states it: retained bytes never exceed    *)
(* it.                                                                     *)
(***************************************************************************)
RetainedWithinBudget == BytesOf(Counted) <= Quota.globalRetainedBytes

Evicting(c) == draft[c].step = "Inserting" /\ draft[c].evicted # {}

(***************************************************************************)
(* Eviction goes on until the incoming archive fits and not any longer:    *)
(* with some archive it chose, its last, kept after all, the incoming one  *)
(* would not fit.  And it touches nothing in use: no worker or upload owns *)
(* a chosen archive.  It is not "the minimum eviction set", as the comment *)
(* at domain/diagnostic-capacity.ts:10 has it: the loop never takes back a *)
(* choice that a later, larger one makes unnecessary.                      *)
(***************************************************************************)
EvictionStopsWhenItFits ==
  \A c \in Creates : Evicting(c) =>
    LET kept == RowsHeld(c) \ draft[c].evicted
    IN /\ BytesOf(kept) + draft[c].size <= Quota.globalRetainedBytes
       /\ \E a \in draft[c].evicted :
            BytesOf(kept \cup {a}) + draft[c].size > Quota.globalRetainedBytes
       /\ \A a \in draft[c].evicted : archive[a].phase \notin ActivePhases \ {"Queued"}

(***************************************************************************)
(* Eviction is fair: it leaves no install more than one archive behind     *)
(* another that still has one to give, and takes an install's oldest first. *)
(***************************************************************************)
EvictionFair ==
  \A c \in Creates : Evicting(c) =>
    LET kept == RowsHeld(c) \ draft[c].evicted
        count(i) == Cardinality({a \in kept : archive[a].install = i})
    IN \A a \in draft[c].evicted, b \in kept :
         archive[b].phase \in Evictable =>
           /\ count(archive[b].install) <= count(archive[a].install) + 1
           /\ archive[a].install = archive[b].install =>
                archive[a].created <= archive[b].created

(***************************************************************************)
(* The archives given up for an incoming one are those docs/OPERATIONS.md  *)
(* promises: the oldest one that can be, of the install that holds most,   *)
(* again and again "only until enough capacity is available".              *)
(***************************************************************************)
EvictionSound == EvictionStopsWhenItFits /\ EvictionFair

(***************************************************************************)
(* Creates never wait for each other in a ring: while transactions are     *)
(* open, one of them waits for no lock that another one holds.             *)
(***************************************************************************)
Waits(c) == draft[c].step = "Locking" /\ ~LockFree(NextLock(c))

SomeCreateProceeds ==
  (\E c \in Creates : Transacting(c)) => \E c \in Creates : Transacting(c) /\ ~Waits(c)
=============================================================================
