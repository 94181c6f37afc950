---------------------------- MODULE QuotaProofs ----------------------------
(***************************************************************************)
(* The limits that are counted, for any number of requests, archives and   *)
(* clients and any limits: the events of telemetry (EventsAccounted), the  *)
(* quotas of uploads (QuotaHolds) and the retained capacity with the       *)
(* archives given up for it (OnlyRestoredExceed, EvictionSound); and that  *)
(* creates never wait for each other in a ring (SomeCreateProceeds).       *)
(***************************************************************************)
EXTENDS Telemetry, Admission, FiniteSetTheorems, TLAPS

(***************************************************************************)
(* Sums, counted: z[x] things of each x in S.                              *)
(***************************************************************************)
Lots(S, z) == UNION {{x} \X (1 .. z[x]) : x \in S}

\* The things of one owner.
LEMMA LotOfOne ==
  ASSUME NEW x, NEW n \in Nat
  PROVE  IsFiniteSet({x} \X (1 .. n)) /\ Cardinality({x} \X (1 .. n)) = n
<1>1. IsFiniteSet({x}) /\ Cardinality({x}) = 1
  BY FS_Singleton
<1>2. IsFiniteSet(1 .. n) /\ Cardinality(1 .. n) = n
  BY FS_Interval
<1>3. Cardinality({x} \X (1 .. n)) = Cardinality({x}) * Cardinality(1 .. n)
  BY <1>1, <1>2, FS_Product
<1>4. IsFiniteSet({x} \X (1 .. n))
  BY <1>1, <1>2, FS_Product
<1>5. QED
  BY <1>1, <1>2, <1>3, <1>4

\* The things of finitely many owners are finitely many.
LEMMA LotsFinite ==
  ASSUME NEW S, IsFiniteSet(S), NEW z \in [S -> Nat]
  PROVE  IsFiniteSet(Lots(S, z)) /\ Cardinality(Lots(S, z)) \in Nat
<1> DEFINE lot == [x \in S |-> {x} \X (1 .. z[x])]
           all == {{x} \X (1 .. z[x]) : x \in S}
<1>1. lot \in Surjection(S, all)
  BY DEF Surjection
<1>2. IsFiniteSet(all)
  BY <1>1, FS_Surjection
<1>3. \A T \in all : IsFiniteSet(T)
  <2>1. TAKE T \in all
  <2>2. PICK x \in S : T = {x} \X (1 .. z[x])
    BY <2>1
  <2>3. z[x] \in Nat
    BY <2>2
  <2>4. QED
    BY <2>2, <2>3, LotOfOne
<1>4. IsFiniteSet(Lots(S, z))
  BY <1>2, <1>3, FS_UNION DEF Lots
<1>5. QED
  BY <1>4, FS_CardinalityType

\* One owner more brings its own.
LEMMA LotsAdd ==
  ASSUME NEW S, IsFiniteSet(S), NEW x, x \notin S, NEW z \in [S \cup {x} -> Nat]
  PROVE  Cardinality(Lots(S \cup {x}, z)) = Cardinality(Lots(S, z)) + z[x]
<1> DEFINE own == {x} \X (1 .. z[x])
<1>1. IsFiniteSet(own) /\ Cardinality(own) = z[x]
  BY LotOfOne
<1>2. Lots(S, z) = Lots(S, [y \in S |-> z[y]])
  BY DEF Lots
<1>3. IsFiniteSet(Lots(S, z)) /\ Cardinality(Lots(S, z)) \in Nat
  BY <1>2, LotsFinite
<1>4. Lots(S \cup {x}, z) = Lots(S, z) \cup own
  BY DEF Lots
<1>5. Lots(S, z) \cap own = {}
  BY DEF Lots
<1>6. Cardinality(Lots(S, z) \cup own)
        = Cardinality(Lots(S, z)) + Cardinality(own) - Cardinality(Lots(S, z) \cap own)
  <2> HIDE DEF own
  <2> QED
    BY <1>1, <1>3, FS_Union
<1>7. Cardinality(Lots(S, z) \cap own) = 0
  BY <1>5, FS_EmptySet
<1>8. z[x] \in Nat
  OBVIOUS
<1>9. Cardinality(own) = z[x]
  BY <1>1
<1> HIDE DEF own
<1>10. Cardinality(Lots(S \cup {x}, z)) = Cardinality(Lots(S, z) \cup own)
  BY <1>4
<1>11. QED
  BY <1>3, <1>6, <1>7, <1>8, <1>9, <1>10

\* Fewer owners, fewer things.
LEMMA LotsFewer ==
  ASSUME NEW S, IsFiniteSet(S), NEW T, T \subseteq S, NEW z \in [S -> Nat]
  PROVE  Cardinality(Lots(T, z)) <= Cardinality(Lots(S, z))
<1>1. Lots(T, z) \subseteq Lots(S, z)
  BY DEF Lots
<1>2. QED
  BY <1>1, LotsFinite, FS_Subset

-----------------------------------------------------------------------------
(***************************************************************************)
(* Telemetry                                                               *)
(***************************************************************************)

(***************************************************************************)
(* What the requests are at each step, and what each has established.  A   *)
(* reservation holds while its transaction has the day's counters locked,  *)
(* so that the limits still hold when it commits.                          *)
(***************************************************************************)
Batches ==
  [step : {"Idle", "Refused", "Failed"}]
    \cup [step : {"Parsed"}, network : TelemetryNetworks, size : BatchSizes,
          receivedAt : Int, fits : {TRUE}]
    \cup [step : {"Reserved"}, day : TelemetryDays, network : TelemetryNetworks,
          size : BatchSizes, receivedAt : Int, fits : {TRUE}]
    \cup [step : {"Stored", "Unanswered"}, day : TelemetryDays, network : TelemetryNetworks,
          size : BatchSizes, receivedAt : Int, rows : BOOLEAN]

EventTypes ==
  /\ request \in [Requests -> Batches]
  /\ eventDaily \in [TelemetryDays -> Nat]
  /\ eventNetworkDaily \in [TelemetryDays -> [TelemetryNetworks -> Nat]]
  /\ telemetryTime \in TelemetryDays

ReservationsHold ==
  \A r \in Requests : InTransaction(r) =>
    /\ Reservable(request[r].day, request[r].network, request[r].size)
    /\ \A q \in Requests : InTransaction(q) /\ request[q].day = request[r].day => q = r

EventInv == EventTypes /\ ReservationsHold /\ EventsCounted /\ RowsKeptForLifetime

\* What the strict schemas accept, the CHECK of migration 010 accepts.
LEMMA ContractFitsTable == Parsed \subseteq {TRUE}
<1>1. SUFFICES ASSUME NEW kind \in EventKinds, NEW fields, ContractAccepts(kind, fields)
               PROVE  TableAccepts(kind, fields)
  <2>1. SUFFICES ASSUME NEW event \in Accepted PROVE TableAccepts(event.kind, event.fields)
    <3>1. \A event \in Accepted : TableAccepts(event.kind, event.fields) \in BOOLEAN
      BY DEF TableAccepts
    <3>2. QED
      BY <3>1 DEF Parsed
  <2>2. PICK kind \in EventKinds :
          event \in {[kind |-> kind, fields |-> fields] :
                      fields \in {f \in Sendable(kind) : ContractAccepts(kind, f)}}
    BY DEF Accepted
  <2>3. ContractAccepts(event.kind, event.fields) /\ event.kind \in EventKinds
    BY <2>2
  <2>4. QED
    BY <2>3
<1>2. CASE kind = "session-started"
  BY <1>1, <1>2 DEF ContractAccepts, TableAccepts, Required, Optional, NotNull, Nullable,
       Named, Hosted
<1>3. CASE kind \in {"feature-used", "operation-error"}
  BY <1>1, <1>3 DEF ContractAccepts, TableAccepts, Required, Optional, NotNull, Nullable, Named
<1>4. CASE kind = "expedition-reward-observed"
  BY <1>1, <1>4 DEF ContractAccepts, TableAccepts, Required, Optional, NotNull, Nullable, Named
<1>5. CASE kind = "ocr-timing"
  BY <1>1, <1>5 DEF ContractAccepts, TableAccepts, Required, Optional, NotNull, Nullable,
       Named, Timed
<1>6. CASE kind = "ocr-setup-failure"
  BY <1>1, <1>6 DEF ContractAccepts, TableAccepts, Required, Optional, NotNull, Nullable,
       Named, Timed, Hosted, Setup
<1>7. CASE kind = "local-instance-failure"
  BY <1>1, <1>7 DEF ContractAccepts, TableAccepts, Required, Optional, NotNull, Nullable,
       Named, Timed, Hosted, Instance
<1>8. CASE kind = "ui-scale-calibration"
  BY <1>1, <1>8 DEF ContractAccepts, TableAccepts, Required, Optional, NotNull, Nullable,
       Named, Calibration
<1>9. QED
  BY <1>2, <1>3, <1>4, <1>5, <1>6, <1>7, <1>8 DEF EventKinds

\* Nothing is counted at first.
LEMMA EventsInitially == ASSUME TelemetryInit PROVE EventInv
<1>1. EventTypes
  BY TelemetryAssumption DEF TelemetryInit, EventTypes, Batches, TelemetryDays
<1>2. \A d : StoredOn(d) = {}
  BY DEF TelemetryInit, StoredOn
<1>3. \A S : S = {} => EventsOf(S) = 0
  BY FS_EmptySet DEF EventsOf
<1>4. EventsCounted
  <2>1. \A d \in TelemetryDays : eventDaily[d] = 0
           /\ \A n \in TelemetryNetworks : eventNetworkDaily[d][n] = 0
    BY DEF TelemetryInit
  <2>2. \A d, n : {r \in StoredOn(d) : request[r].network = n} = {}
    BY <1>2
  <2>3. EventLimit \in Nat /\ NetworkEventLimit \in Nat
    BY TelemetryAssumption
  <2>4. QED
    BY <1>2, <1>3, <2>1, <2>2, <2>3 DEF EventsCounted
<1>5. QED
  BY <1>1, <1>4 DEF EventInv, ReservationsHold, RowsKeptForLifetime, TelemetryInit, InTransaction

\* The batches stored and their sizes rest: so do the counts.
LEMMA CountsRest ==
  ASSUME \A d \in TelemetryDays : StoredOn(d)' = StoredOn(d),
         \A r \in Requests : request[r].step \in {"Stored", "Unanswered"} =>
           request'[r].size = request[r].size /\ request'[r].network = request[r].network
  PROVE  \A d \in TelemetryDays :
           /\ EventsOf(StoredOn(d))' = EventsOf(StoredOn(d))
           /\ \A n : EventsOf({r \in StoredOn(d) : request[r].network = n})'
                       = EventsOf({r \in StoredOn(d) : request[r].network = n})
<1>1. TAKE d \in TelemetryDays
<1>2. \A r \in StoredOn(d) : /\ request'[r].size = request[r].size
                             /\ request'[r].network = request[r].network
  BY DEF StoredOn
<1>3. EventsOf(StoredOn(d))' = EventsOf(StoredOn(d))
  <2>1. UNION {{r} \X (1 .. request'[r].size) : r \in StoredOn(d)'}
          = UNION {{r} \X (1 .. request[r].size) : r \in StoredOn(d)}
    BY <1>2
  <2>2. QED
    BY <2>1 DEF EventsOf
<1>4. \A n : EventsOf({r \in StoredOn(d) : request[r].network = n})'
               = EventsOf({r \in StoredOn(d) : request[r].network = n})
  <2>1. TAKE n
  <2>2. {r \in StoredOn(d)' : request'[r].network = n} = {r \in StoredOn(d) : request[r].network = n}
    BY <1>2
  <2>3. UNION {{r} \X (1 .. request'[r].size) : r \in {q \in StoredOn(d)' : request'[q].network = n}}
          = UNION {{r} \X (1 .. request[r].size) : r \in {q \in StoredOn(d) : request[q].network = n}}
    BY <1>2, <2>2
  <2>4. QED
    BY <2>3 DEF EventsOf
<1>5. QED
  BY <1>3, <1>4

\* What is counted rests: so does the account.
LEMMA CountedStays ==
  ASSUME EventsCounted, UNCHANGED <<eventDaily, eventNetworkDaily, telemetryTime>>,
         \A d \in TelemetryDays : StoredOn(d)' = StoredOn(d),
         \A r \in Requests : request[r].step \in {"Stored", "Unanswered"} =>
           request'[r].size = request[r].size /\ request'[r].network = request[r].network
  PROVE  EventsCounted'
<1>1. SUFFICES ASSUME NEW d \in TelemetryDays, d >= telemetryTime - RowLifetime
               PROVE  /\ eventDaily'[d] = EventsOf(StoredOn(d))'
                      /\ eventDaily'[d] <= EventLimit
                      /\ \A m \in TelemetryNetworks :
                           /\ eventNetworkDaily'[d][m]
                                = EventsOf({q \in StoredOn(d) : request[q].network = m})'
                           /\ eventNetworkDaily'[d][m] <= NetworkEventLimit
  BY DEF EventsCounted
<1>2. /\ eventDaily[d] = EventsOf(StoredOn(d))
      /\ eventDaily[d] <= EventLimit
      /\ \A m \in TelemetryNetworks :
           /\ eventNetworkDaily[d][m] = EventsOf({q \in StoredOn(d) : request[q].network = m})
           /\ eventNetworkDaily[d][m] <= NetworkEventLimit
  BY <1>1 DEF EventsCounted
<1>3. /\ EventsOf(StoredOn(d))' = EventsOf(StoredOn(d))
      /\ \A m : EventsOf({q \in StoredOn(d) : request[q].network = m})'
                  = EventsOf({q \in StoredOn(d) : request[q].network = m})
  BY CountsRest
<1>4. QED
  BY <1>2, <1>3

\* A step that changes one request and stores nothing keeps the counts.
LEMMA PostKeeps ==
  ASSUME EventInv, NEW r \in Requests, NEW n \in TelemetryNetworks, NEW size \in BatchSizes,
         NEW fits \in Parsed, NEW skew \in ClockSkews, PostBatch(r, n, size, fits, skew)
  PROVE  EventInv'
<1> USE DEF EventInv
<1>1. EventTypes'
  <2>1. fits = TRUE
    BY ContractFitsTable
  <2>2. telemetryTime \in Int /\ skew \in Int
    BY TelemetryAssumption DEF EventTypes, TelemetryDays
  <2>3. telemetryTime + skew \in Int
    BY <2>2
  <2>4. QED
    BY <2>1, <2>3 DEF PostBatch, EventTypes, eventCounters, Batches
<1>2. \A q \in Requests : q # r => request'[q] = request[q]
  BY DEF PostBatch, EventTypes
<1>3. request[r].step = "Idle" /\ request'[r].step = "Parsed"
  BY DEF PostBatch, EventTypes
<1>4. ReservationsHold'
  BY <1>2, <1>3 DEF PostBatch, eventCounters, ReservationsHold, InTransaction, Reservable
<1>5. EventsCounted'
  <2>1. \A d \in TelemetryDays : StoredOn(d)' = StoredOn(d)
    BY <1>2, <1>3 DEF StoredOn
  <2>2. \A q \in Requests : request[q].step \in {"Stored", "Unanswered"} =>
           request'[q].size = request[q].size /\ request'[q].network = request[q].network
    BY <1>2, <1>3
  <2>3. telemetryTime' = telemetryTime /\ UNCHANGED eventCounters
    BY DEF PostBatch
  <2>4. UNCHANGED <<eventDaily, eventNetworkDaily, telemetryTime>>
    BY <2>3 DEF eventCounters
  <2>5. QED
    BY <2>1, <2>2, <2>4, CountedStays
<1>6. RowsKeptForLifetime'
  BY <1>2, <1>3 DEF RowsKeptForLifetime, PostBatch
<1>7. QED
  BY <1>1, <1>4, <1>5, <1>6

\* A reservation is made when no other transaction has the day.
LEMMA ReserveKeeps ==
  ASSUME EventInv, NEW r \in Requests, ReserveBatch(r)
  PROVE  EventInv'
<1> USE DEF EventInv
<1>1. /\ request[r].step = "Parsed"
      /\ request[r] \in [step : {"Parsed"}, network : TelemetryNetworks, size : BatchSizes,
                         receivedAt : Int, fits : {TRUE}]
  BY DEF ReserveBatch, EventTypes, Batches
<1>2. EventTypes'
  BY <1>1 DEF ReserveBatch, EventTypes, eventCounters, Batches
<1>3. \A q \in Requests : q # r => request'[q] = request[q]
  BY DEF ReserveBatch, EventTypes
<1>4. \/ /\ request'[r].step = "Reserved" /\ request'[r].day = telemetryTime
         /\ request'[r].network = request[r].network /\ request'[r].size = request[r].size
         /\ Reservable(telemetryTime, request[r].network, request[r].size)
      \/ request'[r].step = "Refused"
  BY DEF ReserveBatch, EventTypes
<1>5. UNCHANGED <<eventDaily, eventNetworkDaily, telemetryTime>>
  BY DEF ReserveBatch, eventCounters
<1>6. ReservationsHold'
  <2>1. \A q \in Requests : InTransaction(q) => request[q].day # telemetryTime
    BY DEF ReserveBatch
  <2>2. QED
    BY <1>1, <1>3, <1>4, <1>5, <2>1 DEF ReservationsHold, InTransaction, Reservable
<1>7. EventsCounted'
  <2>1. \A d \in TelemetryDays : StoredOn(d)' = StoredOn(d)
    BY <1>1, <1>3, <1>4 DEF StoredOn
  <2>2. \A q \in Requests : request[q].step \in {"Stored", "Unanswered"} =>
           request'[q].size = request[q].size /\ request'[q].network = request[q].network
    BY <1>1, <1>3
  <2>3. QED
    BY <1>5, <2>1, <2>2, CountedStays
<1>8. RowsKeptForLifetime'
  BY <1>1, <1>3, <1>4, <1>5 DEF RowsKeptForLifetime
<1>9. QED
  BY <1>2, <1>6, <1>7, <1>8

\* A batch more of its size: the day's events grow by it.
LEMMA BatchAdds ==
  ASSUME NEW S, S \subseteq Requests, NEW r \in Requests, r \notin S,
         \A q \in S \cup {r} : request[q].size \in Nat /\ request'[q].size = request[q].size
  PROVE  EventsOf(S \cup {r})' = EventsOf(S) + request[r].size
<1> DEFINE z == [q \in S \cup {r} |-> request[q].size]
<1>1. IsFiniteSet(S)
  BY TelemetryAssumption, FS_Subset
<1>2. z \in [S \cup {r} -> Nat] /\ z[r] = request[r].size
  OBVIOUS
<1>3. UNION {{q} \X (1 .. request'[q].size) : q \in S \cup {r}} = Lots(S \cup {r}, z)
  BY DEF Lots
<1>4. UNION {{q} \X (1 .. request[q].size) : q \in S} = Lots(S, z)
  BY DEF Lots
<1> HIDE DEF z
<1>5. Cardinality(Lots(S \cup {r}, z)) = Cardinality(Lots(S, z)) + z[r]
  BY <1>1, <1>2, LotsAdd
<1>6. QED
  BY <1>2, <1>3, <1>4, <1>5 DEF EventsOf

\* COMMIT counts what it stores, as far as was reserved.
LEMMA StoreKeeps ==
  ASSUME EventInv, NEW r \in Requests, NEW step \in {"Stored", "Unanswered"},
         StoreBatch(r, step)
  PROVE  EventInv'
<1> USE DEF EventInv
<1>1. /\ request[r].step = "Reserved"
      /\ request[r] \in [step : {"Reserved"}, day : TelemetryDays, network : TelemetryNetworks,
                         size : BatchSizes, receivedAt : Int, fits : {TRUE}]
  BY DEF StoreBatch, EventTypes, Batches, InTransaction
<1>2. PICK day \in TelemetryDays, n \in TelemetryNetworks, size \in Nat :
        day = request[r].day /\ n = request[r].network /\ size = request[r].size
  BY <1>1, TelemetryAssumption
<1>3. /\ request' = [request EXCEPT ![r] = [step |-> step, day |-> day, network |-> n,
            size |-> request[r].size, receivedAt |-> request[r].receivedAt, rows |-> TRUE]]
      /\ CountedEvents(day, n, size)
      /\ telemetryTime' = telemetryTime
  BY <1>2 DEF StoreBatch
<1>4. \A q \in Requests : q # r => request'[q] = request[q]
  BY <1>3 DEF EventTypes
<1>5. /\ request'[r].step = step /\ request'[r].day = day /\ request'[r].network = n
      /\ request'[r].size = request[r].size /\ request'[r].rows = TRUE
  BY <1>3 DEF EventTypes
<1>6. /\ eventDaily' = [eventDaily EXCEPT ![day] = @ + size]
      /\ eventNetworkDaily' = [eventNetworkDaily EXCEPT ![day][n] = @ + size]
  BY <1>3 DEF CountedEvents
<1>7. /\ eventDaily'[day] = eventDaily[day] + size
      /\ \A d \in TelemetryDays : d # day => eventDaily'[d] = eventDaily[d]
      /\ eventDaily' \in [TelemetryDays -> Nat]
  BY <1>6 DEF EventTypes
<1>8. /\ eventNetworkDaily'[day][n] = eventNetworkDaily[day][n] + size
      /\ \A d \in TelemetryDays, m \in TelemetryNetworks : d # day \/ m # n =>
           eventNetworkDaily'[d][m] = eventNetworkDaily[d][m]
      /\ eventNetworkDaily' \in [TelemetryDays -> [TelemetryNetworks -> Nat]]
  BY <1>6 DEF EventTypes
<1>9. EventTypes'
  BY <1>1, <1>3, <1>7, <1>8 DEF EventTypes, Batches
<1>10. ReservationsHold'
  <2>1. SUFFICES ASSUME NEW q \in Requests, InTransaction(q)'
                 PROVE  /\ Reservable(request[q].day, request[q].network, request[q].size)'
                        /\ \A p \in Requests :
                             InTransaction(p)' /\ request'[p].day = request'[q].day => p = q
    BY DEF ReservationsHold
  <2>2. q # r /\ request'[q] = request[q] /\ InTransaction(q)
    BY <1>4, <1>5, <2>1 DEF InTransaction
  <2>3. request[q].day # day /\ request[q].day \in TelemetryDays
          /\ request[q].network \in TelemetryNetworks
    BY <1>1, <1>2, <2>2 DEF ReservationsHold, InTransaction, EventTypes, Batches
  <2>4. Reservable(request[q].day, request[q].network, request[q].size)'
    BY <1>7, <1>8, <2>2, <2>3 DEF ReservationsHold, Reservable
  <2>5. \A p \in Requests : InTransaction(p)' => request'[p] = request[p] /\ InTransaction(p)
    BY <1>4, <1>5 DEF InTransaction
  <2>6. QED
    BY <2>2, <2>4, <2>5 DEF ReservationsHold
<1>11. EventsCounted'
  <2>1. SUFFICES ASSUME NEW d \in TelemetryDays, d >= telemetryTime - RowLifetime
                 PROVE  /\ eventDaily'[d] = EventsOf(StoredOn(d))'
                        /\ eventDaily'[d] <= EventLimit
                        /\ \A m \in TelemetryNetworks :
                             /\ eventNetworkDaily'[d][m]
                                  = EventsOf({q \in StoredOn(d) : request[q].network = m})'
                             /\ eventNetworkDaily'[d][m] <= NetworkEventLimit
    BY <1>3 DEF EventsCounted
  <2>2. /\ eventDaily[d] = EventsOf(StoredOn(d))
        /\ eventDaily[d] <= EventLimit
        /\ \A m \in TelemetryNetworks :
             /\ eventNetworkDaily[d][m] = EventsOf({q \in StoredOn(d) : request[q].network = m})
             /\ eventNetworkDaily[d][m] <= NetworkEventLimit
    BY <2>1 DEF EventsCounted
  <2>3. \A q \in StoredOn(d) : /\ request'[q] = request[q] /\ q # r
                               /\ request[q].size \in Nat
    BY <1>1, <1>4, TelemetryAssumption DEF StoredOn, EventTypes, Batches
  <2>4. CASE d # day
    <3>1. StoredOn(d)' = StoredOn(d)
      BY <1>1, <1>4, <1>5, <2>4 DEF StoredOn
    <3>2. UNION {{q} \X (1 .. request'[q].size) : q \in StoredOn(d)}
            = UNION {{q} \X (1 .. request[q].size) : q \in StoredOn(d)}
      BY <2>3
    <3>3. EventsOf(StoredOn(d))' = EventsOf(StoredOn(d))
      BY <3>1, <3>2 DEF EventsOf
    <3>4. ASSUME NEW m \in TelemetryNetworks
          PROVE  EventsOf({q \in StoredOn(d) : request[q].network = m})'
                   = EventsOf({q \in StoredOn(d) : request[q].network = m})
      <4>1. {q \in StoredOn(d)' : request'[q].network = m}
              = {q \in StoredOn(d) : request[q].network = m}
        BY <2>3, <3>1
      <4>2. UNION {{p} \X (1 .. request'[p].size) : p \in {q \in StoredOn(d)' : request'[q].network = m}}
              = UNION {{p} \X (1 .. request[p].size) : p \in {q \in StoredOn(d) : request[q].network = m}}
        BY <2>3, <4>1
      <4>3. QED
        BY <4>2 DEF EventsOf
    <3>5. QED
      BY <1>7, <1>8, <2>2, <2>4, <3>3, <3>4
  <2>5. CASE d = day
    <3>1. StoredOn(d)' = StoredOn(d) \cup {r}
      BY <1>4, <1>5, <2>3, <2>5 DEF StoredOn
    <3>2. StoredOn(d) \subseteq Requests /\ r \notin StoredOn(d)
      BY <2>3 DEF StoredOn
    <3>3. Reservable(day, n, size)
      BY <1>1, <1>2 DEF ReservationsHold, InTransaction
    <3>4. eventDaily'[d] = EventsOf(StoredOn(d))' /\ eventDaily'[d] <= EventLimit
      <4>1. EventsOf(StoredOn(d) \cup {r})' = EventsOf(StoredOn(d)) + size
        <5>1. \A q \in StoredOn(d) \cup {r} :
                request[q].size \in Nat /\ request'[q].size = request[q].size
          BY <1>2, <1>5, <2>3
        <5>2. PICK S : S = StoredOn(d)
          OBVIOUS
        <5>3. EventsOf(S \cup {r})' = EventsOf(S) + request[r].size
          BY <3>2, <5>1, <5>2, BatchAdds
        <5>4. EventsOf(StoredOn(d))' = EventsOf(S \cup {r})'
          BY <3>1, <5>2
        <5>5. QED
          BY <1>2, <3>1, <5>2, <5>3, <5>4
      <4>2. QED
        BY <1>7, <2>2, <2>5, <3>1, <3>3, <4>1 DEF Reservable
    <3>5. ASSUME NEW m \in TelemetryNetworks
          PROVE  /\ eventNetworkDaily'[d][m]
                      = EventsOf({q \in StoredOn(d) : request[q].network = m})'
                 /\ eventNetworkDaily'[d][m] <= NetworkEventLimit
      <4>1. CASE m # n
        <5>1. {q \in StoredOn(d)' : request'[q].network = m}
                = {q \in StoredOn(d) : request[q].network = m}
          BY <1>5, <2>3, <3>1, <4>1
        <5>2. UNION {{p} \X (1 .. request'[p].size) : p \in {q \in StoredOn(d)' : request'[q].network = m}}
                = UNION {{p} \X (1 .. request[p].size) : p \in {q \in StoredOn(d) : request[q].network = m}}
          BY <2>3, <5>1
        <5>3. EventsOf({q \in StoredOn(d) : request[q].network = m})'
                = EventsOf({q \in StoredOn(d) : request[q].network = m})
          BY <5>2 DEF EventsOf
        <5>4. QED
          BY <1>8, <2>2, <4>1, <5>3
      <4>2. CASE m = n
        <5>1. {q \in StoredOn(d)' : request'[q].network = m}
                = {q \in StoredOn(d) : request[q].network = m} \cup {r}
          BY <1>5, <2>3, <3>1, <4>2
        <5>2. PICK S : S = {q \in StoredOn(d) : request[q].network = m}
          OBVIOUS
        <5>3. S \subseteq Requests /\ r \notin S
          BY <3>2, <5>2
        <5>4. \A q \in S \cup {r} :
                request[q].size \in Nat /\ request'[q].size = request[q].size
          BY <1>2, <1>5, <2>3, <5>2
        <5>5. EventsOf(S \cup {r})' = EventsOf(S) + request[r].size
          BY <5>3, <5>4, BatchAdds
        <5>6. EventsOf({q \in StoredOn(d) : request[q].network = m})' = EventsOf(S \cup {r})'
          BY <5>1, <5>2
        <5>7. eventNetworkDaily'[d][m] = eventNetworkDaily[d][m] + size
          BY <1>8, <2>5, <4>2
        <5>8. eventNetworkDaily[d][m] + size <= NetworkEventLimit
          BY <2>5, <3>3, <4>2 DEF Reservable
        <5>9. eventNetworkDaily[d][m] = EventsOf(S)
          BY <2>2, <5>2
        <5>10. QED
          BY <1>2, <5>5, <5>6, <5>7, <5>8, <5>9
      <4>3. QED
        BY <4>1, <4>2
    <3>6. QED
      BY <3>4, <3>5
  <2>6. QED
    BY <2>4, <2>5
<1>12. RowsKeptForLifetime'
  BY <1>3, <1>4, <1>5 DEF RowsKeptForLifetime
<1>13. QED
  BY <1>9, <1>10, <1>11, <1>12

\* A transaction rolled back leaves the counters as they were.
LEMMA AbortKeeps ==
  ASSUME EventInv, NEW r \in Requests, AbortBatch(r)
  PROVE  EventInv'
<1> USE DEF EventInv
<1>1. request[r].step = "Reserved" /\ request[r].fits = TRUE
  BY DEF AbortBatch, EventTypes, Batches, InTransaction
<1>2. request' = [request EXCEPT ![r] = [step |-> "Failed"]]
  BY <1>1 DEF AbortBatch
<1>3. UNCHANGED <<eventDaily, eventNetworkDaily, telemetryTime>>
  BY DEF AbortBatch, DropReservation, eventCounters
<1>4. EventTypes'
  BY <1>2, <1>3 DEF EventTypes, Batches
<1>5. request'[r].step = "Failed" /\ \A q \in Requests : q # r => request'[q] = request[q]
  BY <1>2 DEF EventTypes
<1>6. ReservationsHold'
  BY <1>3, <1>5 DEF ReservationsHold, InTransaction, Reservable
<1>7. EventsCounted'
  <2>1. \A d \in TelemetryDays : StoredOn(d)' = StoredOn(d)
    BY <1>1, <1>5 DEF StoredOn
  <2>2. \A q \in Requests : request[q].step \in {"Stored", "Unanswered"} =>
           request'[q].size = request[q].size /\ request'[q].network = request[q].network
    BY <1>1, <1>5
  <2>3. QED
    BY <1>3, <2>1, <2>2, CountedStays
<1>8. RowsKeptForLifetime'
  BY <1>3, <1>5 DEF RowsKeptForLifetime
<1>9. QED
  BY <1>4, <1>6, <1>7, <1>8

\* The sweep takes rows past their lifetime and counters of days past it.
LEMMA SweepKeeps ==
  ASSUME EventInv, NEW skew \in ClockSkews, DeleteBatches(skew)
  PROVE  EventInv'
<1> USE DEF EventInv
<1>1. PICK B \in Oldest({r \in Requests : Overdue(r, telemetryTime + skew)}) :
        request' = [r \in Requests |->
                      IF r \in B THEN [request[r] EXCEPT !.rows = FALSE] ELSE request[r]]
  BY DEF DeleteBatches
<1>2. \A r \in B : /\ r \in Requests /\ request[r].step \in {"Stored", "Unanswered"}
                   /\ request[r].receivedAt < telemetryTime - RowLifetime
  BY DEF Oldest, Overdue, HasRows
<1>3. telemetryTime' = telemetryTime /\ telemetryTime \in Int /\ RowLifetime \in Int
  BY TelemetryAssumption DEF DeleteBatches, EventTypes, TelemetryDays
<1>4. \A r \in Requests :
        \/ r \notin B /\ request'[r] = request[r]
        \/ /\ r \in B /\ request[r].step \in {"Stored", "Unanswered"}
           /\ request'[r] = [request[r] EXCEPT !.rows = FALSE]
           /\ request[r] \in [step : {"Stored", "Unanswered"}, day : TelemetryDays,
                 network : TelemetryNetworks, size : BatchSizes, receivedAt : Int, rows : BOOLEAN]
  BY <1>1, <1>2 DEF EventTypes, Batches
<1>5. \A r \in Requests : /\ request'[r].step = request[r].step
                          /\ InTransaction(r)' <=> InTransaction(r)
                          /\ InTransaction(r) => request'[r] = request[r]
  BY <1>4 DEF InTransaction
<1>6. \A r \in Requests : request[r].step \in {"Stored", "Unanswered"} =>
        /\ request'[r].day = request[r].day /\ request'[r].size = request[r].size
        /\ request'[r].network = request[r].network
        /\ request'[r].receivedAt = request[r].receivedAt
        /\ request'[r].rows # request[r].rows => r \in B
  BY <1>4
<1>7. \A d \in TelemetryDays : d >= telemetryTime - RowLifetime =>
        eventDaily'[d] = eventDaily[d] /\ eventNetworkDaily'[d] = eventNetworkDaily[d]
  BY <1>3 DEF DeleteBatches, TelemetryDays
<1>8. /\ eventDaily' \in [TelemetryDays -> Nat]
      /\ eventNetworkDaily' \in [TelemetryDays -> [TelemetryNetworks -> Nat]]
      /\ \A d \in TelemetryDays : /\ eventDaily'[d] <= eventDaily[d]
           /\ \A n \in TelemetryNetworks : eventNetworkDaily'[d][n] <= eventNetworkDaily[d][n]
  BY DEF DeleteBatches, EventTypes
<1>9. EventTypes'
  <2>1. \A r \in Requests : request'[r] \in Batches
    <3>1. TAKE r \in Requests
    <3>2. CASE request'[r] = request[r]
      BY <3>2 DEF EventTypes
    <3>3. CASE r \in B
      <4>1. request'[r] \in [step : {"Stored", "Unanswered"}, day : TelemetryDays,
               network : TelemetryNetworks, size : BatchSizes, receivedAt : Int, rows : BOOLEAN]
        BY <1>4, <3>3
      <4>2. QED
        BY <4>1 DEF Batches
    <3>4. QED
      BY <1>4, <3>2, <3>3
  <2>2. request' \in [Requests -> Batches]
    BY <1>1, <2>1
  <2>3. QED
    BY <1>3, <1>8, <2>2 DEF EventTypes
<1>10. ReservationsHold'
  <2>1. SUFFICES ASSUME NEW r \in Requests, InTransaction(r)'
                 PROVE  /\ Reservable(request[r].day, request[r].network, request[r].size)'
                        /\ \A q \in Requests :
                             InTransaction(q)' /\ request'[q].day = request'[r].day => q = r
    BY DEF ReservationsHold
  <2>2. InTransaction(r) /\ request'[r] = request[r]
    BY <1>5, <2>1
  <2>3. /\ request[r].day \in TelemetryDays /\ request[r].network \in TelemetryNetworks
        /\ request[r].size \in Nat
    BY <2>2, TelemetryAssumption DEF InTransaction, EventTypes, Batches
  <2>4. Reservable(request[r].day, request[r].network, request[r].size)
    BY <2>2 DEF ReservationsHold
  <2>5. Reservable(request[r].day, request[r].network, request[r].size)'
    <3>1. /\ eventDaily'[request[r].day] <= eventDaily[request[r].day]
          /\ eventNetworkDaily'[request[r].day][request[r].network]
               <= eventNetworkDaily[request[r].day][request[r].network]
      BY <1>8, <2>3
    <3>2. /\ {eventDaily[request[r].day], eventDaily'[request[r].day]} \subseteq Nat
          /\ {eventNetworkDaily[request[r].day][request[r].network],
              eventNetworkDaily'[request[r].day][request[r].network]} \subseteq Nat
          /\ EventLimit \in Nat /\ NetworkEventLimit \in Nat
      BY <1>8, <2>3, TelemetryAssumption DEF EventTypes
    <3>3. QED
      BY <2>2, <2>3, <2>4, <3>1, <3>2 DEF Reservable
  <2>6. QED
    BY <1>5, <2>2, <2>5 DEF ReservationsHold
<1>11. EventsCounted'
  <2>1. SUFFICES ASSUME NEW d \in TelemetryDays, d >= telemetryTime - RowLifetime
                 PROVE  /\ eventDaily'[d] = EventsOf(StoredOn(d))'
                        /\ eventDaily'[d] <= EventLimit
                        /\ \A m \in TelemetryNetworks :
                             /\ eventNetworkDaily'[d][m]
                                  = EventsOf({q \in StoredOn(d) : request[q].network = m})'
                             /\ eventNetworkDaily'[d][m] <= NetworkEventLimit
    BY <1>3 DEF EventsCounted
  <2>2. /\ eventDaily[d] = EventsOf(StoredOn(d))
        /\ eventDaily[d] <= EventLimit
        /\ \A m \in TelemetryNetworks :
             /\ eventNetworkDaily[d][m] = EventsOf({q \in StoredOn(d) : request[q].network = m})
             /\ eventNetworkDaily[d][m] <= NetworkEventLimit
    BY <2>1 DEF EventsCounted
  <2>3. \A e \in TelemetryDays : StoredOn(e)' = StoredOn(e)
    BY <1>5, <1>6 DEF StoredOn
  <2>4. /\ EventsOf(StoredOn(d))' = EventsOf(StoredOn(d))
        /\ \A m : EventsOf({q \in StoredOn(d) : request[q].network = m})'
                    = EventsOf({q \in StoredOn(d) : request[q].network = m})
    BY <1>6, <2>3, CountsRest
  <2>5. QED
    BY <1>7, <2>1, <2>2, <2>4
<1>12. RowsKeptForLifetime'
  BY <1>2, <1>3, <1>5, <1>6 DEF RowsKeptForLifetime
<1>13. QED
  BY <1>9, <1>10, <1>11, <1>12

\* A day passes: the counted days are fewer, and the rest stays.
LEMMA DayPasses ==
  ASSUME EventInv, TelemetryTick
  PROVE  EventInv'
<1> USE DEF EventInv
<1>1. /\ telemetryTime' = telemetryTime + 1 /\ UNCHANGED <<request, eventDaily, eventNetworkDaily>>
      /\ telemetryTime \in Int /\ RowLifetime \in Int
  BY TelemetryAssumption DEF TelemetryTick, eventCounters, EventTypes, TelemetryDays
<1>2. EventTypes'
  BY <1>1, TelemetryAssumption DEF TelemetryTick, EventTypes, TelemetryDays
<1>3. ReservationsHold'
  BY <1>1 DEF ReservationsHold, InTransaction, Reservable
<1>4. EventsCounted'
  <2>1. SUFFICES ASSUME NEW d \in TelemetryDays, d >= telemetryTime' - RowLifetime
                 PROVE  /\ eventDaily'[d] = EventsOf(StoredOn(d))'
                        /\ eventDaily'[d] <= EventLimit
                        /\ \A m \in TelemetryNetworks :
                             /\ eventNetworkDaily'[d][m]
                                  = EventsOf({q \in StoredOn(d) : request[q].network = m})'
                             /\ eventNetworkDaily'[d][m] <= NetworkEventLimit
    BY DEF EventsCounted
  <2>2. d >= telemetryTime - RowLifetime
    BY <1>1, <2>1 DEF TelemetryDays
  <2>3. /\ eventDaily[d] = EventsOf(StoredOn(d))
        /\ eventDaily[d] <= EventLimit
        /\ \A m \in TelemetryNetworks :
             /\ eventNetworkDaily[d][m] = EventsOf({q \in StoredOn(d) : request[q].network = m})
             /\ eventNetworkDaily[d][m] <= NetworkEventLimit
    BY <2>2 DEF EventsCounted
  <2>4. \A e \in TelemetryDays : StoredOn(e)' = StoredOn(e)
    BY <1>1 DEF StoredOn
  <2>5. \A r \in Requests : request[r].step \in {"Stored", "Unanswered"} =>
           request'[r].size = request[r].size /\ request'[r].network = request[r].network
    BY <1>1
  <2>6. /\ EventsOf(StoredOn(d))' = EventsOf(StoredOn(d))
        /\ \A m : EventsOf({q \in StoredOn(d) : request[q].network = m})'
                    = EventsOf({q \in StoredOn(d) : request[q].network = m})
    BY <2>4, <2>5, CountsRest
  <2>7. QED
    BY <1>1, <2>3, <2>6
<1>5. RowsKeptForLifetime'
  <2>1. \A r \in Requests : request[r].step \in {"Stored", "Unanswered"} => request[r].receivedAt \in Int
    BY DEF EventTypes, Batches
  <2>2. QED
    BY <1>1, <2>1 DEF RowsKeptForLifetime
<1>6. QED
  BY <1>2, <1>3, <1>4, <1>5

(***************************************************************************)
(* For any number of requests and networks and any limits: the counters    *)
(* of a day are the events stored that day and within the limits, whatever *)
(* transaction failed; what the contract accepts is never refused by the   *)
(* table; and no row is deleted within its lifetime, whatever the worker's *)
(* clock says.                                                             *)
(***************************************************************************)
THEOREM EventsAreAccounted == TelemetrySpec => []EventsAccounted
<1>1. TelemetryInit => EventInv
  BY EventsInitially
<1>2. EventInv /\ [TelemetryNext]_telemetryVars => EventInv'
  <2>1. SUFFICES ASSUME EventInv, [TelemetryNext]_telemetryVars PROVE EventInv'
    OBVIOUS
  <2>2. ASSUME NEW r \in Requests, NEW n \in TelemetryNetworks, NEW size \in BatchSizes,
               NEW fits \in Parsed, NEW skew \in ClockSkews, PostBatch(r, n, size, fits, skew)
        PROVE  EventInv'
    BY <2>1, <2>2, PostKeeps
  <2>3. ASSUME NEW r \in Requests, ReserveBatch(r) PROVE EventInv'
    BY <2>1, <2>3, ReserveKeeps
  <2>4. ASSUME NEW r \in Requests, NEW step \in {"Stored", "Unanswered"}, StoreBatch(r, step)
        PROVE  EventInv'
    BY <2>1, <2>4, StoreKeeps
  <2>5. ASSUME NEW r \in Requests, AbortBatch(r) PROVE EventInv'
    BY <2>1, <2>5, AbortKeeps
  <2>6. ASSUME NEW skew \in ClockSkews, DeleteBatches(skew) PROVE EventInv'
    BY <2>1, <2>6, SweepKeeps
  <2>7. CASE TelemetryTick
    BY <2>1, <2>7, DayPasses
  <2>8. CASE UNCHANGED telemetryVars
    <3>1. UNCHANGED <<request, eventDaily, eventNetworkDaily, telemetryTime>>
      BY <2>8 DEF telemetryVars, eventCounters
    <3>2. EventTypes' /\ ReservationsHold' /\ RowsKeptForLifetime'
      BY <2>1, <3>1 DEF EventInv, EventTypes, ReservationsHold, RowsKeptForLifetime,
           InTransaction, Reservable
    <3>3. EventsCounted'
      <4>1. \A d \in TelemetryDays : StoredOn(d)' = StoredOn(d)
        BY <3>1 DEF StoredOn
      <4>2. \A r \in Requests : request[r].step \in {"Stored", "Unanswered"} =>
               request'[r].size = request[r].size /\ request'[r].network = request[r].network
        BY <3>1
      <4>3. QED
        BY <2>1, <3>1, <4>1, <4>2, CountedStays DEF EventInv
    <3>4. QED
      BY <3>2, <3>3 DEF EventInv
  <2>9. QED
    BY <2>1, <2>2, <2>3, <2>4, <2>5, <2>6, <2>7, <2>8 DEF TelemetryNext
<1>3. EventInv => EventsAccounted
  <2>1. ASSUME EventInv PROVE AcceptedEventsFit
    BY <2>1 DEF EventInv, EventTypes, Batches, AcceptedEventsFit
  <2>2. QED
    BY <2>1 DEF EventInv, EventsAccounted
<1>4. QED
  BY <1>1, <1>2, <1>3, PTL DEF TelemetrySpec

-----------------------------------------------------------------------------
(***************************************************************************)
(* Admission                                                               *)
(***************************************************************************)

(***************************************************************************)
(* Types, and what the three advisory locks give: one create at a time     *)
(* between its first query and its COMMIT.                                 *)
(***************************************************************************)
RetainedRows ==
  [id : Archives, install : Installs, size : Sizes, created : Int, evictable : BOOLEAN]

OpenDrafts ==
  [step : {"Locking", "Counting", "Selecting", "Choosing", "Inserting"}, locks : 0 .. 3,
   install : Installs, network : Networks, size : Sizes, created : Int,
   rows : SUBSET RetainedRows, evicted : SUBSET Archives]

Drafts == [step : {"Idle", "Refused", "Created", "Failed"}, locks : {0}] \cup OpenDrafts

AdmissionTypes ==
  /\ archive \in [Archives -> ArchiveRows \cup {NoArchive}]
  /\ draft \in [Creates -> Drafts]
  /\ admissionTime \in Int

LocksExclude ==
  /\ \A c \in Creates :
       /\ draft[c].step = "Locking" => draft[c].locks \in 0 .. 2
       /\ draft[c].step \in {"Counting", "Selecting", "Choosing", "Inserting"} => draft[c].locks = 3
       /\ draft[c].step # "Created" => archive[c] = NoArchive
  /\ \A c, d \in Creates : draft[c].locks = 3 /\ draft[d].locks = 3 => c = d

(***************************************************************************)
(* What counting established: room for one more in every quota.            *)
(***************************************************************************)
Since(t) == {a \in Existing : archive[a].created >= t - Day}
ByInstall(S, i) == {a \in S : archive[a].install = i}
ByNetwork(S, n) == {a \in S : archive[a].network = n}
ReceivingOf(S) == {a \in S : archive[a].phase = "Receiving"}

Admits(S, uploads, bytes, active, size) ==
  /\ Cardinality(S) < uploads
  /\ BytesOf(S) + size <= bytes
  /\ Cardinality(ReceivingOf(S)) < active

Within(S, uploads, bytes, active) ==
  /\ Cardinality(S) <= uploads
  /\ BytesOf(S) <= bytes
  /\ Cardinality(ReceivingOf(S)) <= active

RoomFor(i, n, size, t) ==
  /\ Admits(ByInstall(Since(t), i), Quota.installDailyUploads, Quota.installDailyBytes,
            Quota.installActiveUploads, size)
  /\ Admits(ByNetwork(Since(t), n), Quota.networkDailyUploads, Quota.networkDailyBytes,
            Quota.networkActiveUploads, size)
  /\ Admits(Since(t), Quota.globalDailyUploads, Quota.globalDailyBytes,
            Quota.globalActiveUploads, size)

CountedRoom ==
  \A c \in Creates : draft[c].step \in {"Selecting", "Choosing", "Inserting"} =>
    RoomFor(draft[c].install, draft[c].network, draft[c].size, draft[c].created)

\* QuotaHolds, archive by archive
Window(a) == CreatedBefore(Existing, a)

WindowsWithin ==
  \A a \in Admitted :
    /\ Within(ByInstall(Window(a), archive[a].install), Quota.installDailyUploads,
              Quota.installDailyBytes, Quota.installActiveUploads)
    /\ Within(ByNetwork(Window(a), archive[a].network), Quota.networkDailyUploads,
              Quota.networkDailyBytes, Quota.networkActiveUploads)
    /\ Within(Window(a), Quota.globalDailyUploads, Quota.globalDailyBytes,
              Quota.globalActiveUploads)

\* The limits are numbers.
LEMMA LimitsAreNumbers ==
  /\ Quota.installDailyUploads \in Nat /\ Quota.networkDailyUploads \in Nat
  /\ Quota.globalDailyUploads \in Nat /\ Quota.installActiveUploads \in Nat
  /\ Quota.networkActiveUploads \in Nat /\ Quota.globalActiveUploads \in Nat
  /\ Quota.installDailyBytes \in Nat /\ Quota.networkDailyBytes \in Nat
  /\ Quota.globalDailyBytes \in Nat /\ Quota.globalRetainedBytes \in Nat
BY AdmissionAssumption DEF QuotaLimits

\* An archive that exists has its columns; the archives are finitely many.
LEMMA ExistingRows ==
  ASSUME AdmissionTypes
  PROVE  /\ Existing \subseteq Archives /\ IsFiniteSet(Existing)
         /\ \A a \in Existing : archive[a] \in ArchiveRows /\ archive[a].size \in Nat
<1>1. Existing \subseteq Archives
  BY DEF Existing
<1>2. IsFiniteSet(Existing)
  BY <1>1, AdmissionAssumption, FS_Subset
<1>3. \A a \in Existing : archive[a] \in ArchiveRows
  BY DEF Existing, AdmissionTypes, NoArchive
<1>4. QED
  BY <1>1, <1>2, <1>3, AdmissionAssumption DEF ArchiveRows

\* The bytes of records are the things their sizes count.
LEMMA RecordsAreLots ==
  ASSUME NEW S, NEW z
  PROVE  BytesIn({[id |-> a, size |-> z[a]] : a \in S}) = Lots(S, z)
<1> DEFINE records == {[id |-> a, size |-> z[a]] : a \in S}
<1>1. ASSUME NEW x \in BytesIn(records) PROVE x \in Lots(S, z)
  <2>1. PICK r \in records : x \in {r.id} \X (1 .. r.size)
    BY DEF BytesIn
  <2>2. PICK a \in S : r = [id |-> a, size |-> z[a]]
    BY <2>1
  <2>3. x \in {a} \X (1 .. z[a])
    BY <2>1, <2>2
  <2>4. QED
    BY <2>3 DEF Lots
<1>2. ASSUME NEW x \in Lots(S, z) PROVE x \in BytesIn(records)
  <2>1. PICK a \in S : x \in {a} \X (1 .. z[a])
    BY DEF Lots
  <2>2. PICK r : r = [id |-> a, size |-> z[a]]
    OBVIOUS
  <2>3. r \in records /\ r.id = a /\ r.size = z[a]
    BY <2>2
  <2>4. x \in {r.id} \X (1 .. r.size)
    BY <2>1, <2>3
  <2> HIDE DEF records
  <2>5. QED
    BY <2>3, <2>4 DEF BytesIn
<1>3. QED
  BY <1>1, <1>2

\* The bytes of archives are the things their sizes count.
LEMMA BytesAreLots ==
  ASSUME NEW S
  PROVE  BytesOf(S) = Cardinality(Lots(S, [a \in S |-> archive[a].size]))
<1>1. PICK z : z = [a \in S |-> archive[a].size]
  OBVIOUS
<1>2. {[id |-> a, size |-> archive[a].size] : a \in S} = {[id |-> a, size |-> z[a]] : a \in S}
  BY <1>1
<1>3. QED
  BY <1>1, <1>2, RecordsAreLots DEF BytesOf, Bytes

\* Archives that keep their sizes keep their bytes.
LEMMA BytesStay ==
  ASSUME NEW S, \A a \in S : archive'[a].size = archive[a].size
  PROVE  BytesOf(S)' = BytesOf(S)
<1>1. {[id |-> a, size |-> archive'[a].size] : a \in S}
        = {[id |-> a, size |-> archive[a].size] : a \in S}
  OBVIOUS
<1>2. QED
  BY <1>1 DEF BytesOf

\* A finite set of archives has a number of bytes, and no fewer than a part of it.
LEMMA BytesOfPart ==
  ASSUME NEW S, IsFiniteSet(S), \A a \in S : archive[a].size \in Nat, NEW T, T \subseteq S
  PROVE  BytesOf(S) \in Nat /\ BytesOf(T) \in Nat /\ BytesOf(T) <= BytesOf(S)
<1> DEFINE z == [a \in S |-> archive[a].size]
           y == [a \in T |-> archive[a].size]
<1>1. z \in [S -> Nat] /\ y \in [T -> Nat]
  OBVIOUS
<1>2. Lots(T, y) = Lots(T, z)
  BY DEF Lots
<1>3. IsFiniteSet(T)
  BY FS_Subset
<1>4. BytesOf(S) = Cardinality(Lots(S, z)) /\ BytesOf(T) = Cardinality(Lots(T, y))
  BY BytesAreLots
<1> HIDE DEF y, z
<1>5. QED
  BY <1>1, <1>2, <1>3, <1>4, LotsFinite, LotsFewer

\* One archive more brings its size.
LEMMA BytesJoin ==
  ASSUME NEW S, IsFiniteSet(S), NEW c, c \notin S, archive'[c].size \in Nat,
         \A a \in S : archive'[a].size = archive[a].size /\ archive[a].size \in Nat
  PROVE  BytesOf(S \cup {c})' = BytesOf(S) + archive'[c].size
<1> DEFINE z == [a \in S \cup {c} |-> archive'[a].size]
           y == [a \in S |-> archive[a].size]
<1>1. z \in [S \cup {c} -> Nat] /\ z[c] = archive'[c].size
  OBVIOUS
<1>2. Lots(S, y) = Lots(S, z)
  BY DEF Lots
<1>3. BytesOf(S \cup {c})' = Cardinality(Lots(S \cup {c}, z))
  <2>1. {[id |-> a, size |-> archive'[a].size] : a \in S \cup {c}}
          = {[id |-> a, size |-> z[a]] : a \in S \cup {c}}
    OBVIOUS
  <2> HIDE DEF z
  <2>2. QED
    BY <2>1, RecordsAreLots DEF BytesOf, Bytes
<1>4. BytesOf(S) = Cardinality(Lots(S, y))
  BY BytesAreLots
<1>5. Cardinality(Lots(S \cup {c}, z)) = Cardinality(Lots(S, z)) + z[c]
  BY <1>1, LotsAdd
<1> HIDE DEF y, z
<1>6. QED
  BY <1>1, <1>2, <1>3, <1>4, <1>5

\* The same of the archives after a step.
LEMMA BytesOfPartNext ==
  ASSUME NEW S, IsFiniteSet(S), \A a \in S : archive'[a].size \in Nat, NEW T, T \subseteq S
  PROVE  BytesOf(S)' \in Nat /\ BytesOf(T)' \in Nat /\ BytesOf(T)' <= BytesOf(S)'
<1> DEFINE z == [a \in S |-> archive'[a].size]
           y == [a \in T |-> archive'[a].size]
<1>1. z \in [S -> Nat] /\ y \in [T -> Nat]
  OBVIOUS
<1>2. Lots(T, y) = Lots(T, z)
  BY DEF Lots
<1>3. /\ {[id |-> a, size |-> archive'[a].size] : a \in S} = {[id |-> a, size |-> z[a]] : a \in S}
      /\ {[id |-> a, size |-> archive'[a].size] : a \in T} = {[id |-> a, size |-> y[a]] : a \in T}
  OBVIOUS
<1>4. IsFiniteSet(T)
  BY FS_Subset
<1> HIDE DEF z, y
<1>5. BytesOf(S)' = Cardinality(Lots(S, z)) /\ BytesOf(T)' = Cardinality(Lots(T, y))
  BY <1>3, RecordsAreLots DEF BytesOf, Bytes
<1>6. QED
  BY <1>1, <1>2, <1>4, <1>5, LotsFinite, LotsFewer

(***************************************************************************)
(* What no step does to an archive: nobody changes whose it is, its size   *)
(* or its age, and none is received twice.                                 *)
(***************************************************************************)
ColumnsKept ==
  \A a \in Existing :
    /\ archive'[a].phase # "Absent"
    /\ archive'[a].install = archive[a].install /\ archive'[a].network = archive[a].network
    /\ archive'[a].size = archive[a].size /\ archive'[a].created = archive[a].created
    /\ archive'[a].phase = "Receiving" => archive[a].phase = "Receiving"

\* Room stays while no archive is added.
LEMMA AdmitsStays ==
  ASSUME AdmissionTypes, ColumnsKept, NEW S, S \subseteq Existing,
         NEW u \in Nat, NEW b \in Nat, NEW k \in Nat, NEW s, Admits(S, u, b, k, s)
  PROVE  Admits(S, u, b, k, s)'
<1>1. BytesOf(S)' = BytesOf(S)
  BY BytesStay DEF ColumnsKept
<1>2. ReceivingOf(S)' \subseteq ReceivingOf(S)
  BY DEF ReceivingOf, ColumnsKept
<1>3. ReceivingOf(S) \subseteq Existing
  BY DEF ReceivingOf
<1>4. IsFiniteSet(ReceivingOf(S))
  BY <1>3, ExistingRows, FS_Subset
<1>5. Cardinality(ReceivingOf(S)) \in Nat
  BY <1>4, FS_CardinalityType
<1>6. IsFiniteSet(ReceivingOf(S)') /\ Cardinality(ReceivingOf(S)') <= Cardinality(ReceivingOf(S))
  BY <1>2, <1>4, FS_Subset
<1>7. Cardinality(ReceivingOf(S)') \in Nat
  BY <1>6, FS_CardinalityType
<1>8. Cardinality(ReceivingOf(S)') < k
  BY <1>5, <1>6, <1>7 DEF Admits
<1>9. QED
  BY <1>1, <1>8 DEF Admits

\* What is within its limits stays so while no archive is added.
LEMMA WithinStays ==
  ASSUME AdmissionTypes, ColumnsKept, NEW S, S \subseteq Existing,
         NEW u \in Nat, NEW b \in Nat, NEW k \in Nat, Within(S, u, b, k)
  PROVE  Within(S, u, b, k)'
<1>1. BytesOf(S)' = BytesOf(S)
  BY BytesStay DEF ColumnsKept
<1>2. ReceivingOf(S)' \subseteq ReceivingOf(S)
  BY DEF ReceivingOf, ColumnsKept
<1>3. ReceivingOf(S) \subseteq Existing
  BY DEF ReceivingOf
<1>4. IsFiniteSet(ReceivingOf(S))
  BY <1>3, ExistingRows, FS_Subset
<1>5. Cardinality(ReceivingOf(S)) \in Nat
  BY <1>4, FS_CardinalityType
<1>6. IsFiniteSet(ReceivingOf(S)') /\ Cardinality(ReceivingOf(S)') <= Cardinality(ReceivingOf(S))
  BY <1>2, <1>4, FS_Subset
<1>7. Cardinality(ReceivingOf(S)') \in Nat
  BY <1>6, FS_CardinalityType
<1>8. Cardinality(ReceivingOf(S)') <= k
  BY <1>5, <1>6, <1>7 DEF Within
<1>9. QED
  BY <1>1, <1>8 DEF Within

\* The archive added stays within the limits if there was room for it.
LEMMA AddedWithin ==
  ASSUME AdmissionTypes, ColumnsKept, NEW S, S \subseteq Existing,
         NEW u \in Nat, NEW b \in Nat, NEW k \in Nat, NEW s \in Nat, Admits(S, u, b, k, s),
         NEW c, c \notin S, archive'[c].size = s,
         NEW T, T \subseteq S \cup {c}
  PROVE  Within(T, u, b, k)'
<1>1. IsFiniteSet(S) /\ \A a \in S : archive[a].size \in Nat
  <2>1. IsFiniteSet(Existing)
    BY ExistingRows
  <2>2. IsFiniteSet(S)
    BY <2>1, FS_Subset
  <2>3. QED
    BY <2>2, ExistingRows
<1>2. \A a \in S : archive'[a].size = archive[a].size
  BY DEF ColumnsKept
<1>3. /\ IsFiniteSet(S \cup {c}) /\ Cardinality(S \cup {c}) = Cardinality(S) + 1
      /\ Cardinality(S) \in Nat
  BY <1>1, FS_AddElement, FS_CardinalityType
<1>4. IsFiniteSet(T) /\ Cardinality(T) <= Cardinality(S \cup {c})
  BY <1>3, FS_Subset
<1>5. Cardinality(T) \in Nat
  BY <1>4, FS_CardinalityType
<1>6. Cardinality(T) <= u
  BY <1>3, <1>4, <1>5 DEF Admits
<1>7. BytesOf(T)' <= b
  <2>1. BytesOf(S \cup {c})' = BytesOf(S) + s
    BY <1>1, <1>2, BytesJoin
  <2>2. BytesOf(S \cup {c})' \in Nat /\ BytesOf(T)' \in Nat /\ BytesOf(T)' <= BytesOf(S \cup {c})'
    <3>1. \A a \in S \cup {c} : archive'[a].size \in Nat
      BY <1>1, <1>2
    <3>2. QED
      BY <1>3, <3>1, BytesOfPartNext
  <2>3. QED
    BY <2>1, <2>2 DEF Admits
<1>8. Cardinality(ReceivingOf(T)') <= k
  <2>1. ReceivingOf(T)' \subseteq ReceivingOf(S) \cup {c}
    BY DEF ReceivingOf, ColumnsKept
  <2>2. ReceivingOf(S) \subseteq S
    BY DEF ReceivingOf
  <2>3. IsFiniteSet(ReceivingOf(S))
    BY <1>1, <2>2, FS_Subset
  <2>4. /\ IsFiniteSet(ReceivingOf(S) \cup {c})
        /\ Cardinality(ReceivingOf(S) \cup {c}) = Cardinality(ReceivingOf(S)) + 1
        /\ Cardinality(ReceivingOf(S)) \in Nat
    BY <2>2, <2>3, FS_AddElement, FS_CardinalityType
  <2>5. /\ IsFiniteSet(ReceivingOf(T)')
        /\ Cardinality(ReceivingOf(T)') <= Cardinality(ReceivingOf(S) \cup {c})
    BY <2>1, <2>4, FS_Subset
  <2>6. Cardinality(ReceivingOf(T)') \in Nat
    BY <2>5, FS_CardinalityType
  <2>7. QED
    BY <2>4, <2>5, <2>6 DEF Admits
<1>9. QED
  BY <1>6, <1>7, <1>8 DEF Within

\* Room in every quota stays while no archive is added.
LEMMA RoomStays ==
  ASSUME AdmissionTypes, ColumnsKept, Existing' = Existing,
         NEW i, NEW n, NEW s, NEW t, RoomFor(i, n, s, t)
  PROVE  RoomFor(i, n, s, t)'
<1>1. PICK S : S = Since(t)
  OBVIOUS
<1>2. PICK I : I = ByInstall(S, i)
  OBVIOUS
<1>3. PICK N : N = ByNetwork(S, n)
  OBVIOUS
<1>4. S \subseteq Existing /\ I \subseteq S /\ N \subseteq S
  BY <1>1, <1>2, <1>3 DEF Since, ByInstall, ByNetwork
<1>5. Since(t)' = S
  BY <1>1 DEF Since, ColumnsKept
<1>6. ByInstall(Since(t), i)' = I /\ ByNetwork(Since(t), n)' = N
  BY <1>2, <1>3, <1>4, <1>5 DEF ByInstall, ByNetwork, ColumnsKept
<1>7. /\ Admits(I, Quota.installDailyUploads, Quota.installDailyBytes, Quota.installActiveUploads, s)
      /\ Admits(N, Quota.networkDailyUploads, Quota.networkDailyBytes, Quota.networkActiveUploads, s)
      /\ Admits(S, Quota.globalDailyUploads, Quota.globalDailyBytes, Quota.globalActiveUploads, s)
  BY <1>1, <1>2, <1>3 DEF RoomFor
<1>8. /\ Admits(I, Quota.installDailyUploads, Quota.installDailyBytes, Quota.installActiveUploads, s)'
      /\ Admits(N, Quota.networkDailyUploads, Quota.networkDailyBytes, Quota.networkActiveUploads, s)'
      /\ Admits(S, Quota.globalDailyUploads, Quota.globalDailyBytes, Quota.globalActiveUploads, s)'
  BY <1>4, <1>7, LimitsAreNumbers, AdmitsStays
<1>9. QED
  BY <1>5, <1>6, <1>8 DEF RoomFor

\* The windows are the quotas of QuotaHolds.
LEMMA WindowsAreQuotas == ASSUME WindowsWithin PROVE QuotaHolds
<1>1. ASSUME NEW a \in Admitted
      PROVE  LET recent    == CreatedBefore(Existing, a)
                 ofInstall == {b \in recent : archive[b].install = archive[a].install}
                 ofNetwork == {b \in recent : archive[b].network = archive[a].network}
             IN /\ Cardinality(ofInstall) <= Quota.installDailyUploads
                /\ Cardinality(ofNetwork) <= Quota.networkDailyUploads
                /\ Cardinality(recent) <= Quota.globalDailyUploads
                /\ BytesOf(ofInstall) <= Quota.installDailyBytes
                /\ BytesOf(ofNetwork) <= Quota.networkDailyBytes
                /\ BytesOf(recent) <= Quota.globalDailyBytes
  BY DEF WindowsWithin, Within, Window, ByInstall, ByNetwork
<1>2. ASSUME NEW a \in Admitted
      PROVE  LET receiving == {b \in CreatedBefore(Existing, a) : archive[b].phase = "Receiving"}
             IN /\ Cardinality({b \in receiving : archive[b].install = archive[a].install})
                     <= Quota.installActiveUploads
                /\ Cardinality({b \in receiving : archive[b].network = archive[a].network})
                     <= Quota.networkActiveUploads
                /\ Cardinality(receiving) <= Quota.globalActiveUploads
  <2> DEFINE receiving == {b \in Window(a) : archive[b].phase = "Receiving"}
  <2>1. /\ {b \in receiving : archive[b].install = archive[a].install}
             = ReceivingOf(ByInstall(Window(a), archive[a].install))
        /\ {b \in receiving : archive[b].network = archive[a].network}
             = ReceivingOf(ByNetwork(Window(a), archive[a].network))
        /\ receiving = ReceivingOf(Window(a))
    BY DEF ReceivingOf, ByInstall, ByNetwork
  <2>2. /\ Cardinality(ReceivingOf(ByInstall(Window(a), archive[a].install)))
             <= Quota.installActiveUploads
        /\ Cardinality(ReceivingOf(ByNetwork(Window(a), archive[a].network)))
             <= Quota.networkActiveUploads
        /\ Cardinality(ReceivingOf(Window(a))) <= Quota.globalActiveUploads
    BY DEF WindowsWithin, Within
  <2>3. QED
    BY <2>1, <2>2 DEF Window
<1>3. QED
  BY <1>1, <1>2 DEF QuotaHolds, DailyQuotaHolds, ReceivingBounded

\* No archive is added: the windows are within their limits as before.
LEMMA WindowsStay ==
  ASSUME AdmissionTypes, ColumnsKept, Existing' = Existing, WindowsWithin
  PROVE  WindowsWithin'
<1>1. SUFFICES ASSUME NEW a \in Admitted'
               PROVE  /\ Within(ByInstall(Window(a), archive[a].install),
                                Quota.installDailyUploads, Quota.installDailyBytes,
                                Quota.installActiveUploads)'
                      /\ Within(ByNetwork(Window(a), archive[a].network),
                                Quota.networkDailyUploads, Quota.networkDailyBytes,
                                Quota.networkActiveUploads)'
                      /\ Within(Window(a), Quota.globalDailyUploads, Quota.globalDailyBytes,
                                Quota.globalActiveUploads)'
  BY DEF WindowsWithin
<1>2. a \in Admitted /\ a \in Existing
  BY <1>1 DEF Admitted, Existing, Archives
<1>3. PICK S : S = Window(a)
  OBVIOUS
<1>4. PICK I : I = ByInstall(S, archive[a].install)
  OBVIOUS
<1>5. PICK N : N = ByNetwork(S, archive[a].network)
  OBVIOUS
<1>6. S \subseteq Existing /\ I \subseteq S /\ N \subseteq S
  BY <1>3, <1>4, <1>5 DEF Window, CreatedBefore, ByInstall, ByNetwork
<1>7. Window(a)' = S
  BY <1>2, <1>3 DEF Window, CreatedBefore, ColumnsKept
<1>8. ByInstall(Window(a), archive[a].install)' = I /\ ByNetwork(Window(a), archive[a].network)' = N
  BY <1>2, <1>4, <1>5, <1>6, <1>7 DEF ByInstall, ByNetwork, ColumnsKept
<1>9. /\ Within(I, Quota.installDailyUploads, Quota.installDailyBytes, Quota.installActiveUploads)
      /\ Within(N, Quota.networkDailyUploads, Quota.networkDailyBytes, Quota.networkActiveUploads)
      /\ Within(S, Quota.globalDailyUploads, Quota.globalDailyBytes, Quota.globalActiveUploads)
  BY <1>2, <1>3, <1>4, <1>5 DEF WindowsWithin
<1>10. /\ Within(I, Quota.installDailyUploads, Quota.installDailyBytes, Quota.installActiveUploads)'
       /\ Within(N, Quota.networkDailyUploads, Quota.networkDailyBytes, Quota.networkActiveUploads)'
       /\ Within(S, Quota.globalDailyUploads, Quota.globalDailyBytes, Quota.globalActiveUploads)'
  BY <1>6, <1>9, LimitsAreNumbers, WithinStays
<1>11. QED
  BY <1>7, <1>8, <1>10

(***************************************************************************)
(* An archive is added where there is room.  A window it falls into is     *)
(* part of what its create counted, for which nothing is too young; the    *)
(* others do not change.                                                   *)
(***************************************************************************)
LEMMA WindowsGrow ==
  ASSUME AdmissionTypes, AdmissionTypes', ColumnsKept, WindowsWithin, NEW c \in Creates,
         c \notin Existing, Existing' = Existing \cup {c}, Admitted' = Admitted \cup {c},
         NEW i, NEW n, NEW s \in Nat, NEW t \in Int, RoomFor(i, n, s, t),
         archive'[c].install = i, archive'[c].network = n, archive'[c].size = s,
         archive'[c].created = t
  PROVE  WindowsWithin'
<1>1. SUFFICES ASSUME NEW a \in Admitted'
               PROVE  /\ Within(ByInstall(Window(a), archive[a].install),
                                Quota.installDailyUploads, Quota.installDailyBytes,
                                Quota.installActiveUploads)'
                      /\ Within(ByNetwork(Window(a), archive[a].network),
                                Quota.networkDailyUploads, Quota.networkDailyBytes,
                                Quota.networkActiveUploads)'
                      /\ Within(Window(a), Quota.globalDailyUploads, Quota.globalDailyBytes,
                                Quota.globalActiveUploads)'
  BY DEF WindowsWithin
<1>2. a \in Existing' /\ Day \in Nat
  BY <1>1, AdmissionAssumption DEF Admitted, Existing, Archives
<1>3. /\ \A b \in Existing : archive[b].created \in Int /\ archive'[b].created = archive[b].created
      /\ archive'[a].created \in Int
  BY <1>2, ExistingRows DEF ColumnsKept, ArchiveRows
<1>4. PICK X : X = Window(a)'
  OBVIOUS
<1>5. PICK XI : XI = ByInstall(X, archive[a].install)'
  OBVIOUS
<1>6. PICK XN : XN = ByNetwork(X, archive[a].network)'
  OBVIOUS
<1>7. PICK S : S = Since(t)
  OBVIOUS
<1>8. PICK I : I = ByInstall(S, i)
  OBVIOUS
<1>9. PICK N : N = ByNetwork(S, n)
  OBVIOUS
<1>10. S \subseteq Existing /\ I \subseteq S /\ N \subseteq S
  BY <1>7, <1>8, <1>9 DEF Since, ByInstall, ByNetwork
<1>11. X = {b \in Existing \cup {c} : archive'[a].created - archive'[b].created \in 0 .. Day}
  BY <1>4 DEF Window, CreatedBefore
<1>12. /\ XI = {b \in X : archive'[b].install = archive'[a].install}
       /\ XN = {b \in X : archive'[b].network = archive'[a].network}
  BY <1>5, <1>6 DEF ByInstall, ByNetwork
<1>13. /\ Admits(I, Quota.installDailyUploads, Quota.installDailyBytes, Quota.installActiveUploads, s)
       /\ Admits(N, Quota.networkDailyUploads, Quota.networkDailyBytes, Quota.networkActiveUploads, s)
       /\ Admits(S, Quota.globalDailyUploads, Quota.globalDailyBytes, Quota.globalActiveUploads, s)
  BY <1>7, <1>8, <1>9 DEF RoomFor
<1>14. c \in X => X \subseteq S \cup {c}
  <2>1. SUFFICES ASSUME c \in X, NEW b \in X, b # c PROVE b \in S
    OBVIOUS
  <2>2. /\ archive'[a].created - t \in 0 .. Day
        /\ b \in Existing /\ archive'[a].created - archive[b].created \in 0 .. Day
    BY <1>3, <1>11, <2>1
  <2>3. archive[b].created >= t - Day
    BY <1>2, <1>3, <2>2
  <2>4. QED
    BY <1>7, <2>2, <2>3 DEF Since
<1>15. c \notin X => a \in Admitted /\ a \in Existing /\ X = Window(a)
  <2>1. SUFFICES ASSUME c \notin X PROVE a \in Admitted /\ a \in Existing /\ X = Window(a)
    OBVIOUS
  <2>2. a # c
    <3>1. SUFFICES ASSUME a = c PROVE FALSE
      OBVIOUS
    <3>2. archive'[a].created - archive'[c].created \in 0 .. Day
      BY <1>2, <1>3, <3>1
    <3>3. QED
      BY <1>11, <2>1, <3>2
  <2>3. a \in Admitted /\ a \in Existing
    BY <1>1, <1>2, <2>2
  <2>4. X = {b \in Existing : archive'[a].created - archive'[b].created \in 0 .. Day}
    BY <1>11, <2>1
  <2>5. X = Window(a)
    BY <1>3, <2>3, <2>4 DEF Window, CreatedBefore
  <2>6. QED
    BY <2>3, <2>5
<1>16. Within(X, Quota.globalDailyUploads, Quota.globalDailyBytes, Quota.globalActiveUploads)'
  <2>1. CASE c \in X
    BY <1>10, <1>13, <1>14, <2>1, LimitsAreNumbers, AddedWithin
  <2>2. CASE c \notin X
    <3>1. /\ X \subseteq Existing
          /\ Within(X, Quota.globalDailyUploads, Quota.globalDailyBytes, Quota.globalActiveUploads)
      BY <1>15, <2>2 DEF WindowsWithin, Window, CreatedBefore
    <3>2. QED
      BY <3>1, LimitsAreNumbers, WithinStays
  <2>3. QED
    BY <2>1, <2>2
<1>17. Within(XI, Quota.installDailyUploads, Quota.installDailyBytes, Quota.installActiveUploads)'
  <2>1. CASE c \in XI
    <3>1. archive'[a].install = i /\ c \in X
      BY <1>12, <2>1
    <3>2. XI \subseteq I \cup {c}
      <4>1. SUFFICES ASSUME NEW b \in XI, b # c PROVE b \in I
        OBVIOUS
      <4>2. b \in S /\ archive'[b].install = i
        BY <1>12, <1>14, <3>1, <4>1
      <4>3. archive[b].install = i
        BY <1>10, <4>2 DEF ColumnsKept
      <4>4. QED
        BY <1>8, <4>2, <4>3 DEF ByInstall
    <3>3. I \subseteq Existing /\ c \notin I
      BY <1>10
    <3>4. QED
      BY <1>13, <3>2, <3>3, LimitsAreNumbers, AddedWithin
  <2>2. CASE c \notin XI /\ c \in X
    <3>1. a # c /\ a \in Existing /\ a \in Admitted
      BY <1>1, <1>2, <1>12, <2>2
    <3>2. XI = ByInstall(Window(a), archive[a].install)
      <4>1. XI = {b \in Existing : /\ archive'[a].created - archive'[b].created \in 0 .. Day
                                   /\ archive'[b].install = archive'[a].install}
        BY <1>11, <1>12, <2>2
      <4>2. QED
        BY <1>3, <3>1, <4>1 DEF Window, CreatedBefore, ByInstall, ColumnsKept
    <3>3. XI \subseteq Existing
      BY <3>2 DEF Window, CreatedBefore, ByInstall
    <3>4. Within(XI, Quota.installDailyUploads, Quota.installDailyBytes, Quota.installActiveUploads)
      BY <3>1, <3>2 DEF WindowsWithin
    <3>5. QED
      BY <3>3, <3>4, LimitsAreNumbers, WithinStays
  <2>3. CASE c \notin X
    <3>1. XI = ByInstall(Window(a), archive[a].install)
      BY <1>12, <1>15, <2>3 DEF Window, CreatedBefore, ByInstall, ColumnsKept
    <3>2. XI \subseteq Existing
      BY <3>1 DEF Window, CreatedBefore, ByInstall
    <3>3. Within(XI, Quota.installDailyUploads, Quota.installDailyBytes, Quota.installActiveUploads)
      BY <1>15, <2>3, <3>1 DEF WindowsWithin
    <3>4. QED
      BY <3>2, <3>3, LimitsAreNumbers, WithinStays
  <2>4. QED
    BY <2>1, <2>2, <2>3
<1>18. Within(XN, Quota.networkDailyUploads, Quota.networkDailyBytes, Quota.networkActiveUploads)'
  <2>1. CASE c \in XN
    <3>1. archive'[a].network = n /\ c \in X
      BY <1>12, <2>1
    <3>2. XN \subseteq N \cup {c}
      <4>1. SUFFICES ASSUME NEW b \in XN, b # c PROVE b \in N
        OBVIOUS
      <4>2. b \in S /\ archive'[b].network = n
        BY <1>12, <1>14, <3>1, <4>1
      <4>3. archive[b].network = n
        BY <1>10, <4>2 DEF ColumnsKept
      <4>4. QED
        BY <1>9, <4>2, <4>3 DEF ByNetwork
    <3>3. N \subseteq Existing /\ c \notin N
      BY <1>10
    <3>4. QED
      BY <1>13, <3>2, <3>3, LimitsAreNumbers, AddedWithin
  <2>2. CASE c \notin XN /\ c \in X
    <3>1. a # c /\ a \in Existing /\ a \in Admitted
      BY <1>1, <1>2, <1>12, <2>2
    <3>2. XN = ByNetwork(Window(a), archive[a].network)
      <4>1. XN = {b \in Existing : /\ archive'[a].created - archive'[b].created \in 0 .. Day
                                   /\ archive'[b].network = archive'[a].network}
        BY <1>11, <1>12, <2>2
      <4>2. QED
        BY <1>3, <3>1, <4>1 DEF Window, CreatedBefore, ByNetwork, ColumnsKept
    <3>3. XN \subseteq Existing
      BY <3>2 DEF Window, CreatedBefore, ByNetwork
    <3>4. Within(XN, Quota.networkDailyUploads, Quota.networkDailyBytes, Quota.networkActiveUploads)
      BY <3>1, <3>2 DEF WindowsWithin
    <3>5. QED
      BY <3>3, <3>4, LimitsAreNumbers, WithinStays
  <2>3. CASE c \notin X
    <3>1. XN = ByNetwork(Window(a), archive[a].network)
      BY <1>12, <1>15, <2>3 DEF Window, CreatedBefore, ByNetwork, ColumnsKept
    <3>2. XN \subseteq Existing
      BY <3>1 DEF Window, CreatedBefore, ByNetwork
    <3>3. Within(XN, Quota.networkDailyUploads, Quota.networkDailyBytes, Quota.networkActiveUploads)
      BY <1>15, <2>3, <3>1 DEF WindowsWithin
    <3>4. QED
      BY <3>2, <3>3, LimitsAreNumbers, WithinStays
  <2>4. QED
    BY <2>1, <2>2, <2>3
<1>19. QED
  BY <1>4, <1>5, <1>6, <1>16, <1>17, <1>18

-----------------------------------------------------------------------------
(***************************************************************************)
(* The choice of archives to give up: R are the rows read, E the archives  *)
(* chosen so far.  A round is made only while the incoming archive does    *)
(* not fit, and keeps the choice as fair as EvictionSound asks for.        *)
(***************************************************************************)
Left(R, E) == {r \in R : r.id \notin E}

FairlyChosen(R, E) ==
  \A r \in R, q \in Left(R, E) : r.id \in E /\ q.evictable =>
    /\ HeldBy(q.install, Left(R, E)) <= HeldBy(r.install, Left(R, E)) + 1
    /\ r.install = q.install => r.created <= q.created

ChoiceSound(R, E, size) ==
  /\ \A e \in E : \E r \in R : r.id = e /\ r.evictable
  /\ E # {} => \E r \in R : /\ r.id \in E
                            /\ ~Fits(Left(R, E) \cup {r}, size, Quota.globalRetainedBytes)
  /\ FairlyChosen(R, E)

\* One row less: its install holds one less.
LEMMA HeldWithout ==
  ASSUME NEW L, IsFiniteSet(L), NEW x \in L, NEW i
  PROVE  /\ HeldBy(i, L) \in Nat /\ HeldBy(i, L \ {x}) \in Nat
         /\ HeldBy(i, L \ {x}) = IF i = x.install THEN HeldBy(i, L) - 1 ELSE HeldBy(i, L)
<1> DEFINE held == {r \in L : r.install = i}
<1>1. IsFiniteSet(held)
  BY FS_Subset
<1>2. {r \in L \ {x} : r.install = i} = IF i = x.install THEN held \ {x} ELSE held
  OBVIOUS
<1>3. i = x.install => x \in held
  OBVIOUS
<1>4. HeldBy(i, L) = Cardinality(held)
  BY DEF HeldBy
<1>5. Cardinality(held) \in Nat
  BY <1>1, FS_CardinalityType
<1>6. IsFiniteSet({r \in L \ {x} : r.install = i})
  BY FS_Subset
<1>7. HeldBy(i, L \ {x}) \in Nat
  BY <1>6, FS_CardinalityType DEF HeldBy
<1> HIDE DEF held
<1>8. CASE i = x.install
  <2>1. Cardinality(held \ {x}) = Cardinality(held) - 1
    BY <1>1, <1>3, <1>8, FS_RemoveElement
  <2>2. QED
    BY <1>2, <1>4, <1>5, <1>7, <1>8, <2>1 DEF HeldBy
<1>9. CASE i # x.install
  BY <1>2, <1>4, <1>5, <1>7, <1>9 DEF HeldBy
<1>10. QED
  BY <1>8, <1>9

\* A round of the loop takes the row that precedes all others.
LEMMA RoundKeepsChoice ==
  ASSUME NEW R, R \subseteq RetainedRows, IsFiniteSet(R),
         \A r, q \in R : r.id = q.id => r = q,
         NEW E, NEW size, ChoiceSound(R, E, size),
         ~Fits(Left(R, E), size, Quota.globalRetainedBytes),
         NEW x \in Candidates(Left(R, E))
  PROVE  ChoiceSound(R, E \cup {x.id}, size)
<1>1. PICK L : L = Left(R, E)
  OBVIOUS
<1>2. L \subseteq R /\ IsFiniteSet(L)
  BY <1>1, FS_Subset DEF Left
<1>3. x \in L /\ x.evictable /\ x.id \notin E
      /\ \A b \in L : b.evictable => b = x \/ Precedes(x, b, L)
  BY <1>1 DEF Candidates, Left
<1>4. Left(R, E \cup {x.id}) = L \ {x}
  BY <1>1, <1>2, <1>3 DEF Left
<1>5. \A r \in R : r.created \in Int
  BY DEF RetainedRows
<1>6. ASSUME NEW b \in L, b.evictable, b # x
      PROVE  /\ HeldBy(b.install, L) <= HeldBy(x.install, L)
             /\ b.install = x.install => x.created <= b.created
  <2>1. Precedes(x, b, L)
    BY <1>3, <1>6
  <2>2. HeldBy(b.install, L) \in Nat /\ HeldBy(x.install, L) \in Nat
    BY <1>2, <1>3, HeldWithout
  <2>3. x.created \in Int /\ b.created \in Int
    BY <1>2, <1>3, <1>5
  <2>4. \/ HeldBy(x.install, L) - HeldBy(b.install, L) > 0
        \/ HeldBy(x.install, L) - HeldBy(b.install, L) = 0 /\ Older(x, b)
    BY <2>1 DEF Precedes
  <2>5. Older(x, b) => x.created <= b.created
    BY <2>3 DEF Older
  <2>6. b.install = x.install => HeldBy(x.install, L) - HeldBy(b.install, L) = 0
    BY <2>2
  <2>7. QED
    BY <2>2, <2>4, <2>5, <2>6
<1>7. ASSUME NEW r \in R, NEW q \in L \ {x}, r.id \in E \cup {x.id}, q.evictable
      PROVE  /\ HeldBy(q.install, L \ {x}) <= HeldBy(r.install, L \ {x}) + 1
             /\ r.install = q.install => r.created <= q.created
  <2>1. /\ HeldBy(q.install, L) \in Nat /\ HeldBy(q.install, L \ {x}) \in Nat
        /\ HeldBy(q.install, L \ {x})
             = IF q.install = x.install THEN HeldBy(q.install, L) - 1 ELSE HeldBy(q.install, L)
    BY <1>2, <1>3, HeldWithout
  <2>2. /\ HeldBy(r.install, L) \in Nat /\ HeldBy(r.install, L \ {x}) \in Nat
        /\ HeldBy(r.install, L \ {x})
             = IF r.install = x.install THEN HeldBy(r.install, L) - 1 ELSE HeldBy(r.install, L)
    BY <1>2, <1>3, HeldWithout
  <2>3. HeldBy(x.install, L) \in Nat
    BY <1>2, <1>3, HeldWithout
  <2>4. HeldBy(q.install, L) <= HeldBy(x.install, L)
    BY <1>6, <1>7
  <2>5. CASE r = x
    BY <1>6, <1>7, <2>1, <2>2, <2>4, <2>5
  <2>6. CASE r # x
    <3>1. r.id \in E
      BY <1>2, <1>3, <1>7, <2>6
    <3>2. /\ HeldBy(q.install, L) <= HeldBy(r.install, L) + 1
          /\ r.install = q.install => r.created <= q.created
      BY <1>1, <1>7, <3>1 DEF ChoiceSound, FairlyChosen
    <3>3. QED
      BY <2>1, <2>2, <2>3, <2>4, <3>2
  <2>7. QED
    BY <2>5, <2>6
<1>8. FairlyChosen(R, E \cup {x.id})
  BY <1>4, <1>7 DEF FairlyChosen
<1>9. ~Fits(Left(R, E \cup {x.id}) \cup {x}, size, Quota.globalRetainedBytes)
  <2>1. Left(R, E \cup {x.id}) \cup {x} = L
    BY <1>3, <1>4
  <2>2. QED
    BY <1>1, <2>1
<1>10. \A e \in E \cup {x.id} : \E r \in R : r.id = e /\ r.evictable
  BY <1>2, <1>3 DEF ChoiceSound
<1>11. QED
  BY <1>2, <1>3, <1>8, <1>9, <1>10 DEF ChoiceSound

\* The rows of archives are as many, and of as many bytes, as the archives.
LEMMA RowsAreArchives ==
  ASSUME NEW K, \A a \in K : archive[a].size \in Nat,
         NEW R, R = {AsRetained(a) : a \in K}
  PROVE  /\ Bytes(R) = BytesOf(K)
         /\ IsFiniteSet(K) => /\ IsFiniteSet(R)
              /\ \A i : HeldBy(i, R) = Cardinality({a \in K : archive[a].install = i})
<1>1. \A r \in R : r.id \in K /\ r = AsRetained(r.id) /\ r.size = archive[r.id].size
  BY DEF AsRetained
<1>2. \A a \in K : AsRetained(a) \in R /\ AsRetained(a).id = a
         /\ AsRetained(a).size = archive[a].size /\ AsRetained(a).install = archive[a].install
  BY DEF AsRetained
<1>3. Bytes(R) = BytesOf(K)
  <2>1. BytesIn(R) = Lots(K, [a \in K |-> archive[a].size])
    <3>1. ASSUME NEW y \in BytesIn(R) PROVE y \in Lots(K, [a \in K |-> archive[a].size])
      <4>1. PICK r \in R : y \in {r.id} \X (1 .. r.size)
        BY DEF BytesIn
      <4>2. r.id \in K /\ r.size = archive[r.id].size
        BY <1>1
      <4>3. QED
        BY <4>1, <4>2 DEF Lots
    <3>2. ASSUME NEW y \in Lots(K, [a \in K |-> archive[a].size]) PROVE y \in BytesIn(R)
      <4>1. PICK a \in K : y \in {a} \X (1 .. archive[a].size)
        BY DEF Lots
      <4>2. PICK r \in R : r.id = a /\ r.size = archive[a].size
        BY <1>2
      <4>3. y \in {r.id} \X (1 .. r.size)
        BY <4>1, <4>2
      <4>4. QED
        BY <4>3 DEF BytesIn
    <3>3. QED
      BY <3>1, <3>2
  <2>2. QED
    BY <2>1, BytesAreLots DEF Bytes
<1>4. ASSUME IsFiniteSet(K)
      PROVE  /\ IsFiniteSet(R)
             /\ \A i : HeldBy(i, R) = Cardinality({a \in K : archive[a].install = i})
  <2>1. IsFiniteSet(R)
    <3> DEFINE f == [a \in K |-> AsRetained(a)]
    <3>1. f \in Surjection(K, R)
      BY DEF Surjection
    <3>2. QED
      BY <1>4, <3>1, FS_Surjection
  <2>2. ASSUME NEW i PROVE HeldBy(i, R) = Cardinality({a \in K : archive[a].install = i})
    <3> DEFINE A == {a \in K : archive[a].install = i}
               B == {r \in R : r.install = i}
               f == [a \in A |-> AsRetained(a)]
    <3>1. f \in Bijection(A, B)
      <4>1. f \in [A -> B]
        BY <1>2
      <4>2. \A a, b \in A : f[a] = f[b] => a = b
        BY <1>2
      <4>3. \A r \in B : r.id \in A /\ f[r.id] = r
        BY <1>1, <1>2
      <4> HIDE DEF f, A, B
      <4>4. QED
        <5>1. f \in Injection(A, B)
          BY <4>1, <4>2 DEF Injection, IsInjective
        <5>2. f \in Surjection(A, B)
          BY <4>1, <4>3 DEF Surjection
        <5>3. QED
          BY <5>1, <5>2 DEF Bijection
    <3>2. IsFiniteSet(A)
      BY <1>4, FS_Subset
    <3>3. Cardinality(B) = Cardinality(A)
      <4> HIDE DEF f, A, B
      <4> QED
        BY <3>1, <3>2, FS_Bijection DEF ExistsBijection
    <3>4. QED
      BY <3>3 DEF HeldBy
  <2>3. QED
    BY <2>1, <2>2
<1>5. QED
  BY <1>3, <1>4

-----------------------------------------------------------------------------
(***************************************************************************)
(* A create that chooses has every row that is retained, as it is, except  *)
(* those an eviction taken back has added since.                           *)
(***************************************************************************)
RowsCurrent(c) ==
  /\ \A r \in draft[c].rows : r.id \in Retained /\ r = AsRetained(r.id)
  /\ \A a \in Retained : archive[a].restored \/ AsRetained(a) \in draft[c].rows

SelectionsHold ==
  \A c \in Creates : draft[c].step \in {"Choosing", "Inserting"} =>
    /\ RowsCurrent(c)
    /\ ChoiceSound(draft[c].rows, draft[c].evicted, draft[c].size)
    /\ draft[c].step = "Inserting" => IncomingFits(c)

AdmissionInv ==
  /\ AdmissionTypes /\ LocksExclude /\ CountedRoom /\ WindowsWithin
  /\ SelectionsHold /\ OnlyRestoredExceed

\* The kinds of drafts.
LEMMA DraftKinds ==
  ASSUME AdmissionTypes, NEW c \in Creates
  PROVE  /\ draft[c].locks \in 0 .. 3
         /\ Transacting(c) =>
              draft[c] \in OpenDrafts
         /\ ~Transacting(c) =>
              draft[c] \in [step : {"Idle", "Refused", "Created", "Failed"}, locks : {0}]
BY DEF AdmissionTypes, Drafts, OpenDrafts, Transacting

\* A step of one create that changes no archive: what it must show of itself.
LEMMA DraftSteps ==
  ASSUME AdmissionInv, NEW c \in Creates, UNCHANGED <<archive, admissionTime>>,
         draft' \in [Creates -> Drafts], \A d \in Creates : d # c => draft'[d] = draft[d],
         draft'[c].step = "Locking" => draft'[c].locks \in 0 .. 2,
         draft'[c].step \in {"Counting", "Selecting", "Choosing", "Inserting"} =>
           draft'[c].locks = 3,
         draft'[c].step # "Created" => archive[c] = NoArchive,
         draft'[c].locks = 3 => \A d \in Creates : d # c => draft[d].locks # 3,
         draft'[c].step \in {"Selecting", "Choosing", "Inserting"} =>
           RoomFor(draft[c].install, draft[c].network, draft[c].size, draft[c].created)',
         draft'[c].step \in {"Choosing", "Inserting"} =>
           /\ RowsCurrent(c)'
           /\ ChoiceSound(draft'[c].rows, draft'[c].evicted, draft'[c].size)
           /\ draft'[c].step = "Inserting" => IncomingFits(c)'
  PROVE  AdmissionInv'
<1> USE DEF AdmissionInv
<1>1. AdmissionTypes'
  BY DEF AdmissionTypes
<1>2. LocksExclude'
  BY DEF LocksExclude
<1>3. CountedRoom'
  <2>1. SUFFICES ASSUME NEW d \in Creates, d # c,
                        draft'[d].step \in {"Selecting", "Choosing", "Inserting"}
                 PROVE  RoomFor(draft[d].install, draft[d].network, draft[d].size, draft[d].created)'
    BY DEF CountedRoom
  <2>2. PICK i, n, s, t : i = draft[d].install /\ n = draft[d].network /\ s = draft[d].size
                            /\ t = draft[d].created
    OBVIOUS
  <2>3. RoomFor(i, n, s, t)
    BY <2>1, <2>2 DEF CountedRoom
  <2>4. Existing' = Existing /\ ColumnsKept
    BY DEF Existing, ColumnsKept
  <2>5. RoomFor(i, n, s, t)'
    BY <2>3, <2>4, RoomStays
  <2>6. QED
    BY <2>1, <2>2, <2>5
<1>4. WindowsWithin'
  BY WindowsStay DEF Existing, ColumnsKept
<1>5. SelectionsHold'
  <2>1. SUFFICES ASSUME NEW d \in Creates, d # c, draft'[d].step \in {"Choosing", "Inserting"}
                 PROVE  /\ RowsCurrent(d)'
                        /\ ChoiceSound(draft'[d].rows, draft'[d].evicted, draft'[d].size)
                        /\ draft'[d].step = "Inserting" => IncomingFits(d)'
    BY DEF SelectionsHold
  <2>2. draft'[d] = draft[d]
    BY <2>1
  <2>3. /\ RowsCurrent(d)
        /\ ChoiceSound(draft[d].rows, draft[d].evicted, draft[d].size)
        /\ draft[d].step = "Inserting" => IncomingFits(d)
    BY <2>1, <2>2 DEF SelectionsHold
  <2>4. RowsCurrent(d)'
    BY <2>2, <2>3 DEF RowsCurrent, Retained, Existing, AsRetained
  <2>5. StillKept(d)' = StillKept(d)
    BY <2>2 DEF StillKept
  <2>6. QED
    BY <2>2, <2>3, <2>4, <2>5 DEF IncomingFits
<1>6. OnlyRestoredExceed'
  BY DEF OnlyRestoredExceed, Counted, Existing, BytesOf
<1>7. QED
  BY <1>1, <1>2, <1>3, <1>4, <1>5, <1>6

\* A create begins, and is given up: it has read nothing.
LEMMA BeginKeeps ==
  ASSUME AdmissionInv, NEW c \in Creates, NEW i \in Installs, NEW n \in Networks, NEW s \in Sizes,
         BeginCreate(c, i, n, s)
  PROVE  AdmissionInv'
<1>1. draft' \in [Creates -> Drafts]
  BY DEF AdmissionInv, AdmissionTypes, BeginCreate, Drafts, OpenDrafts
<1>2. draft'[c].step = "Locking" /\ draft'[c].locks = 0
      /\ \A d \in Creates : d # c => draft'[d] = draft[d]
  BY DEF AdmissionInv, AdmissionTypes, BeginCreate
<1>3. archive[c] = NoArchive
  BY DEF AdmissionInv, LocksExclude, BeginCreate
<1>4. UNCHANGED <<archive, admissionTime>>
  BY DEF BeginCreate
<1>5. QED
  BY <1>1, <1>2, <1>3, <1>4, DraftSteps

\* A create that ends without an archive.
LEMMA EndKeeps ==
  ASSUME AdmissionInv, NEW c \in Creates, Transacting(c), NEW step \in {"Refused", "Failed"},
         EndCreate(c, step), UNCHANGED <<archive, admissionTime>>
  PROVE  AdmissionInv'
<1>1. draft' = [draft EXCEPT ![c] = [step |-> step, locks |-> 0]]
  <2>1. [NoDraft EXCEPT !.step = step] = [step |-> step, locks |-> 0]
    BY DEF NoDraft
  <2>2. QED
    BY <2>1 DEF EndCreate
<1>2. draft' \in [Creates -> Drafts]
  BY <1>1 DEF AdmissionInv, AdmissionTypes, Drafts
<1>3. draft'[c].step = step /\ draft'[c].locks = 0
      /\ \A d \in Creates : d # c => draft'[d] = draft[d]
  BY <1>1 DEF AdmissionInv, AdmissionTypes
<1>4. archive[c] = NoArchive
  BY DEF AdmissionInv, LocksExclude, Transacting
<1>5. QED
  BY <1>2, <1>3, <1>4, DraftSteps

\* The third lock is one for all: whoever has it is alone.
LEMMA AcquireKeeps ==
  ASSUME AdmissionInv, NEW c \in Creates, AcquireLock(c)
  PROVE  AdmissionInv'
<1> DEFINE next == IF draft[c].locks = 2 THEN "Counting" ELSE "Locking"
<1>1. /\ draft[c].step = "Locking" /\ draft[c].locks \in 0 .. 2 /\ Transacting(c)
      /\ UNCHANGED <<archive, admissionTime>> /\ archive[c] = NoArchive
  BY DEF AdmissionInv, LocksExclude, AcquireLock, Transacting
<1>2. draft[c] \in OpenDrafts
  BY <1>1, DraftKinds DEF AdmissionInv
<1>3. draft' = [draft EXCEPT ![c] = [draft[c] EXCEPT !.locks = draft[c].locks + 1, !.step = next]]
  BY <1>1 DEF AcquireLock, AdmissionInv, AdmissionTypes
<1>4. draft'[c] = [draft[c] EXCEPT !.locks = draft[c].locks + 1, !.step = next]
      /\ \A d \in Creates : d # c => draft'[d] = draft[d]
  BY <1>3 DEF AdmissionInv, AdmissionTypes
<1>5. draft'[c].locks = draft[c].locks + 1 /\ draft'[c].step = next
  BY <1>2, <1>4
<1>6. draft'[c] \in OpenDrafts
  <2>1. draft[c].locks + 1 \in 0 .. 3
    BY <1>1
  <2>2. next \in {"Locking", "Counting", "Selecting", "Choosing", "Inserting"}
    OBVIOUS
  <2> HIDE DEF next
  <2>3. QED
    BY <1>2, <1>4, <2>1, <2>2 DEF OpenDrafts
<1>7. draft' \in [Creates -> Drafts]
  BY <1>3, <1>4, <1>6 DEF AdmissionInv, AdmissionTypes, Drafts
<1>8. draft'[c].locks = 3 => \A d \in Creates : d # c => draft[d].locks # 3
  <2>1. SUFFICES ASSUME draft[c].locks = 2, NEW d \in Creates, draft[d].locks = 3 PROVE FALSE
    BY <1>1, <1>5
  <2>2. LockOrder(c)[3] = <<"global">> /\ LockOrder(d)[3] = <<"global">>
    BY DEF LockOrder, Locks
  <2>3. <<"global">> \in Holding(d)
    BY <2>1, <2>2 DEF Holding
  <2>4. LockFree(<<"global">>)
    BY <2>1, <2>2 DEF AcquireLock, NextLock
  <2>5. QED
    BY <2>3, <2>4 DEF LockFree
<1>9. /\ draft'[c].step \in {"Locking", "Counting"}
      /\ draft'[c].step = "Locking" => draft'[c].locks \in 0 .. 2
      /\ draft'[c].step = "Counting" => draft'[c].locks = 3
  BY <1>1, <1>5
<1> HIDE DEF next
<1>10. QED
  BY <1>1, <1>4, <1>7, <1>8, <1>9, DraftSteps

\* A create goes on.
LEMMA DraftGoesOn ==
  ASSUME AdmissionTypes, NEW c \in Creates, draft' = [d \in Creates |-> draft'[d]],
         \A d \in Creates : d # c => draft'[d] = draft[d], draft'[c] \in OpenDrafts
  PROVE  draft' \in [Creates -> Drafts]
<1>1. \A d \in Creates : draft'[d] \in Drafts
  BY DEF AdmissionTypes, Drafts
<1>2. QED
  BY <1>1

\* A set of archives that exist, counted under its limits, has room for one more.
LEMMA CountedAdmits ==
  ASSUME AdmissionTypes, NEW S, S \subseteq Existing, NEW u \in Nat, NEW b \in Nat, NEW k \in Nat,
         NEW s \in Nat, ~(Cardinality(S) >= u), ~(BytesOf(S) + s > b),
         ~(Cardinality(ActiveOf(S)) >= k)
  PROVE  Admits(S, u, b, k, s)
<1>1. IsFiniteSet(S) /\ \A a \in S : archive[a].size \in Nat
  <2>1. IsFiniteSet(Existing)
    BY ExistingRows
  <2>2. IsFiniteSet(S)
    BY <2>1, FS_Subset
  <2>3. QED
    BY <2>2, ExistingRows DEF OpenDrafts
<1>2. Cardinality(S) \in Nat
  BY <1>1, FS_CardinalityType
<1>3. BytesOf(S) \in Nat
  BY <1>1, BytesOfPart
<1>4. ActiveOf(S) \subseteq S /\ ReceivingOf(S) \subseteq ActiveOf(S)
  BY DEF ActiveOf, ReceivingOf, ActivePhases
<1>5. IsFiniteSet(ActiveOf(S))
  BY <1>1, <1>4, FS_Subset
<1>6. Cardinality(ActiveOf(S)) \in Nat
  BY <1>5, FS_CardinalityType
<1>7. IsFiniteSet(ReceivingOf(S)) /\ Cardinality(ReceivingOf(S)) <= Cardinality(ActiveOf(S))
  BY <1>4, <1>5, FS_Subset
<1>8. Cardinality(ReceivingOf(S)) \in Nat
  BY <1>7, FS_CardinalityType
<1>9. QED
  BY <1>2, <1>3, <1>6, <1>7, <1>8 DEF Admits

\* The first query finds room, or the create is refused.
LEMMA CountKeeps ==
  ASSUME AdmissionInv, NEW c \in Creates, CountUsage(c)
  PROVE  AdmissionInv'
<1>1. /\ draft[c].step = "Counting" /\ Transacting(c) /\ draft[c].locks = 3
      /\ UNCHANGED <<archive, admissionTime>> /\ archive[c] = NoArchive
  BY DEF AdmissionInv, LocksExclude, CountUsage, Transacting
<1>2. CASE QuotaExceeded(c)
  <2>1. EndCreate(c, "Refused")
    BY <1>2 DEF CountUsage
  <2>2. QED
    BY <1>1, <2>1, EndKeeps
<1>3. CASE ~QuotaExceeded(c)
  <2>1. draft' = [draft EXCEPT ![c].step = "Selecting"]
    BY <1>3 DEF CountUsage
  <2>2. draft[c] \in OpenDrafts
    BY <1>1, DraftKinds DEF AdmissionInv
  <2>3. /\ draft'[c] = [draft[c] EXCEPT !.step = "Selecting"]
        /\ \A d \in Creates : d # c => draft'[d] = draft[d]
        /\ draft' = [d \in Creates |-> draft'[d]]
    BY <2>1 DEF AdmissionInv, AdmissionTypes
  <2>4. draft'[c] \in OpenDrafts
    BY <2>2, <2>3 DEF OpenDrafts
  <2>5. /\ draft' \in [Creates -> Drafts]
        /\ draft'[c].step = "Selecting" /\ draft'[c].locks = draft[c].locks
        /\ draft'[c].install = draft[c].install /\ draft'[c].network = draft[c].network
        /\ draft'[c].size = draft[c].size /\ draft'[c].created = draft[c].created
    BY <2>2, <2>3, <2>4, DraftGoesOn DEF AdmissionInv, OpenDrafts
  <2>6. PICK i, n, s, t : i = draft[c].install /\ n = draft[c].network /\ s = draft[c].size
                            /\ t = draft[c].created
    OBVIOUS
  <2>7. RoomFor(i, n, s, t)
    <3>1. CreatedSince(c) = Since(t)
      BY <2>6 DEF CreatedSince, Since
    <3>2. /\ OfInstall(c, CreatedSince(c)) = ByInstall(Since(t), i)
          /\ OfNetwork(c, CreatedSince(c)) = ByNetwork(Since(t), n)
      BY <2>6, <3>1 DEF OfInstall, OfNetwork, ByInstall, ByNetwork
    <3>3. /\ Since(t) \subseteq Existing /\ ByInstall(Since(t), i) \subseteq Existing
          /\ ByNetwork(Since(t), n) \subseteq Existing
      BY DEF Since, ByInstall, ByNetwork
    <3>4. s \in Nat
      BY <2>2, <2>6, AdmissionAssumption DEF OpenDrafts
    <3>5. /\ ~(Cardinality(ByInstall(Since(t), i)) >= Quota.installDailyUploads)
          /\ ~(BytesOf(ByInstall(Since(t), i)) + s > Quota.installDailyBytes)
          /\ ~(Cardinality(ActiveOf(ByInstall(Since(t), i))) >= Quota.installActiveUploads)
      BY <1>3, <2>6, <3>1, <3>2 DEF QuotaExceeded
    <3>6. /\ ~(Cardinality(ByNetwork(Since(t), n)) >= Quota.networkDailyUploads)
          /\ ~(BytesOf(ByNetwork(Since(t), n)) + s > Quota.networkDailyBytes)
          /\ ~(Cardinality(ActiveOf(ByNetwork(Since(t), n))) >= Quota.networkActiveUploads)
      BY <1>3, <2>6, <3>1, <3>2 DEF QuotaExceeded
    <3>7. /\ ~(Cardinality(Since(t)) >= Quota.globalDailyUploads)
          /\ ~(BytesOf(Since(t)) + s > Quota.globalDailyBytes)
          /\ ~(Cardinality(ActiveOf(Since(t))) >= Quota.globalActiveUploads)
      BY <1>3, <2>6, <3>1, <3>2 DEF QuotaExceeded
    <3>8. Admits(ByInstall(Since(t), i), Quota.installDailyUploads, Quota.installDailyBytes,
                 Quota.installActiveUploads, s)
      BY <3>3, <3>4, <3>5, LimitsAreNumbers, CountedAdmits DEF AdmissionInv
    <3>9. Admits(ByNetwork(Since(t), n), Quota.networkDailyUploads, Quota.networkDailyBytes,
                 Quota.networkActiveUploads, s)
      BY <3>3, <3>4, <3>6, LimitsAreNumbers, CountedAdmits DEF AdmissionInv
    <3>10. Admits(Since(t), Quota.globalDailyUploads, Quota.globalDailyBytes,
                  Quota.globalActiveUploads, s)
      BY <3>3, <3>4, <3>7, LimitsAreNumbers, CountedAdmits DEF AdmissionInv
    <3>11. QED
      BY <3>8, <3>9, <3>10 DEF RoomFor
  <2>8. RoomFor(draft[c].install, draft[c].network, draft[c].size, draft[c].created)'
    <3>1. Existing' = Existing /\ ColumnsKept
      BY <1>1 DEF Existing, ColumnsKept
    <3>2. RoomFor(i, n, s, t)'
      BY <2>7, <3>1, RoomStays DEF AdmissionInv
    <3>3. QED
      BY <2>5, <2>6, <3>2
  <2>9. \A d \in Creates : d # c => draft[d].locks # 3
    BY <1>1 DEF AdmissionInv, LocksExclude
  <2>10. QED
    BY <1>1, <2>3, <2>5, <2>8, <2>9, DraftSteps
<1>4. QED
  BY <1>2, <1>3

\* What was counted is carried along.
LEMMA RoomCarried ==
  ASSUME AdmissionInv, NEW c \in Creates, draft[c].step \in {"Selecting", "Choosing", "Inserting"},
         archive' = archive, draft'[c].install = draft[c].install,
         draft'[c].network = draft[c].network, draft'[c].size = draft[c].size,
         draft'[c].created = draft[c].created
  PROVE  RoomFor(draft[c].install, draft[c].network, draft[c].size, draft[c].created)'
<1>1. PICK i, n, s, t : i = draft[c].install /\ n = draft[c].network /\ s = draft[c].size
                          /\ t = draft[c].created
  OBVIOUS
<1>2. RoomFor(i, n, s, t)
  BY <1>1 DEF AdmissionInv, CountedRoom
<1>3. Existing' = Existing /\ ColumnsKept
  BY DEF Existing, ColumnsKept
<1>4. RoomFor(i, n, s, t)'
  BY <1>2, <1>3, RoomStays DEF AdmissionInv
<1>5. QED
  BY <1>1, <1>4

\* Nothing is chosen yet.
LEMMA NothingChosen ==
  ASSUME NEW R, NEW size PROVE ChoiceSound(R, {}, size)
BY DEF ChoiceSound, FairlyChosen

\* The rows of the second query are those retained.
LEMMA SelectKeeps ==
  ASSUME AdmissionInv, NEW c \in Creates, SelectRetained(c)
  PROVE  AdmissionInv'
<1>1. /\ draft[c].step = "Selecting" /\ Transacting(c) /\ draft[c].locks = 3
      /\ UNCHANGED <<archive, admissionTime>> /\ archive[c] = NoArchive
      /\ draft[c] \in OpenDrafts
  BY DraftKinds DEF AdmissionInv, LocksExclude, SelectRetained, Transacting
<1>2. PICK R : R = {AsRetained(a) : a \in Retained}
  OBVIOUS
<1>3. R \in SUBSET RetainedRows
  <2>1. SUFFICES ASSUME NEW a \in Retained PROVE AsRetained(a) \in RetainedRows
    BY <1>2
  <2>2. a \in Archives /\ archive[a] \in ArchiveRows
    BY ExistingRows DEF Retained, AdmissionInv
  <2>3. (archive[a].phase \in Evictable) \in BOOLEAN
    OBVIOUS
  <2>4. QED
    BY <2>2, <2>3 DEF AsRetained, RetainedRows, ArchiveRows
<1>4. /\ draft'[c] = [draft[c] EXCEPT !.step = "Choosing", !.evicted = {}, !.rows = R]
      /\ \A d \in Creates : d # c => draft'[d] = draft[d]
      /\ draft' = [d \in Creates |-> draft'[d]]
  BY <1>2 DEF SelectRetained, AdmissionInv, AdmissionTypes
<1>5. draft'[c] \in OpenDrafts
  BY <1>1, <1>3, <1>4 DEF OpenDrafts
<1>6. /\ draft' \in [Creates -> Drafts]
      /\ draft'[c].step = "Choosing" /\ draft'[c].locks = 3
      /\ draft'[c].install = draft[c].install /\ draft'[c].network = draft[c].network
      /\ draft'[c].size = draft[c].size /\ draft'[c].created = draft[c].created
      /\ draft'[c].rows = R /\ draft'[c].evicted = {}
  BY <1>1, <1>4, <1>5, DraftGoesOn DEF AdmissionInv, OpenDrafts
<1>7. RoomFor(draft[c].install, draft[c].network, draft[c].size, draft[c].created)'
  BY <1>1, <1>6, RoomCarried
<1>8. RowsCurrent(c)'
  <2>1. Retained' = Retained
    BY <1>1 DEF Retained, Existing
  <2>2. \A a \in Retained : AsRetained(a)' = AsRetained(a)
    BY <1>1 DEF AsRetained
  <2>3. \A r \in R : r.id \in Retained /\ r = AsRetained(r.id)
    BY <1>2 DEF AsRetained
  <2>4. \A a \in Retained : AsRetained(a) \in R
    BY <1>2
  <2>5. QED
    BY <1>6, <2>1, <2>2, <2>3, <2>4 DEF RowsCurrent
<1>9. ChoiceSound(draft'[c].rows, draft'[c].evicted, draft'[c].size)
  BY <1>6, NothingChosen
<1>10. \A d \in Creates : d # c => draft[d].locks # 3
  BY <1>1 DEF AdmissionInv, LocksExclude
<1>11. QED
  BY <1>1, <1>4, <1>6, <1>7, <1>8, <1>9, <1>10, DraftSteps

\* What a create has read, while it chooses.
LEMMA RowsRead ==
  ASSUME AdmissionInv, NEW c \in Creates, draft[c].step \in {"Choosing", "Inserting"}
  PROVE  /\ draft[c] \in OpenDrafts /\ draft[c].locks = 3 /\ archive[c] = NoArchive
         /\ draft[c].rows \subseteq RetainedRows /\ IsFiniteSet(draft[c].rows)
         /\ \A r, q \in draft[c].rows : r.id = q.id => r = q
         /\ StillKept(c) = Left(draft[c].rows, draft[c].evicted)
         /\ \A d \in Creates : d # c => draft[d].locks # 3
<1>1. draft[c] \in OpenDrafts
  BY DraftKinds DEF AdmissionInv, Transacting
<1>2. draft[c].rows \subseteq RetainedRows
  BY <1>1 DEF OpenDrafts
<1>3. RowsCurrent(c)
  BY DEF AdmissionInv, SelectionsHold
<1>4. \A r, q \in draft[c].rows : r.id = q.id => r = q
  BY <1>3 DEF RowsCurrent
<1>5. IsFiniteSet(draft[c].rows)
  <2>1. PICK R : R = draft[c].rows
    OBVIOUS
  <2>2. PICK K : K = {r.id : r \in R}
    OBVIOUS
  <2>3. K \subseteq Existing
    BY <1>3, <2>1, <2>2 DEF RowsCurrent, Retained
  <2>4. IsFiniteSet(K)
    <3>1. IsFiniteSet(Existing)
      BY ExistingRows DEF AdmissionInv
    <3>2. QED
      BY <2>3, <3>1, FS_Subset
  <2>5. [r \in R |-> r.id] \in Injection(R, K)
    BY <1>4, <2>1, <2>2 DEF Injection, IsInjective
  <2>6. IsFiniteSet(R)
    BY <2>4, <2>5, FS_Injection
  <2>7. QED
    BY <2>1, <2>6
<1>6. StillKept(c) = Left(draft[c].rows, draft[c].evicted)
  BY DEF StillKept, Left
<1>7. draft[c].locks = 3 /\ archive[c] = NoArchive /\ \A d \in Creates : d # c => draft[d].locks # 3
  BY DEF AdmissionInv, LocksExclude
<1>8. QED
  BY <1>1, <1>2, <1>4, <1>5, <1>6, <1>7

\* A round of the loop.
LEMMA ChooseKeeps ==
  ASSUME AdmissionInv, NEW c \in Creates, ChooseEviction(c)
  PROVE  AdmissionInv'
<1>1. /\ draft[c].step = "Choosing" /\ UNCHANGED <<archive, admissionTime>> /\ ~IncomingFits(c)
  BY DEF ChooseEviction
<1>2. PICK x \in Candidates(StillKept(c)) : draft' = [draft EXCEPT ![c].evicted = @ \cup {x.id}]
  BY DEF ChooseEviction
<1>3. /\ draft[c] \in OpenDrafts /\ draft[c].locks = 3 /\ archive[c] = NoArchive
      /\ draft[c].rows \subseteq RetainedRows /\ IsFiniteSet(draft[c].rows)
      /\ \A r, q \in draft[c].rows : r.id = q.id => r = q
      /\ StillKept(c) = Left(draft[c].rows, draft[c].evicted)
      /\ \A d \in Creates : d # c => draft[d].locks # 3
  BY <1>1, RowsRead
<1>4. PICK R, E, s : R = draft[c].rows /\ E = draft[c].evicted /\ s = draft[c].size
  OBVIOUS
<1>5. x \in R /\ x.id \in Archives
  BY <1>2, <1>3, <1>4 DEF Candidates, Left, RetainedRows
<1>6. /\ draft'[c] = [draft[c] EXCEPT !.evicted = E \cup {x.id}]
      /\ \A d \in Creates : d # c => draft'[d] = draft[d]
      /\ draft' = [d \in Creates |-> draft'[d]]
  BY <1>2, <1>4 DEF AdmissionInv, AdmissionTypes
<1>7. draft'[c] \in OpenDrafts
  BY <1>3, <1>4, <1>5, <1>6 DEF OpenDrafts
<1>8. /\ draft' \in [Creates -> Drafts]
      /\ draft'[c].step = "Choosing" /\ draft'[c].locks = 3
      /\ draft'[c].install = draft[c].install /\ draft'[c].network = draft[c].network
      /\ draft'[c].size = s /\ draft'[c].created = draft[c].created
      /\ draft'[c].rows = R /\ draft'[c].evicted = E \cup {x.id}
  BY <1>1, <1>3, <1>4, <1>6, <1>7, DraftGoesOn DEF AdmissionInv, OpenDrafts
<1>9. RoomFor(draft[c].install, draft[c].network, draft[c].size, draft[c].created)'
  BY <1>1, <1>4, <1>8, RoomCarried
<1>10. RowsCurrent(c)'
  <2>1. RowsCurrent(c)
    BY <1>1 DEF AdmissionInv, SelectionsHold
  <2>2. Retained' = Retained
    BY <1>1 DEF Retained, Existing
  <2>3. \A a : AsRetained(a)' = AsRetained(a)
    BY <1>1 DEF AsRetained
  <2>4. QED
    BY <1>1, <1>4, <1>8, <2>1, <2>2, <2>3 DEF RowsCurrent
<1>11. ChoiceSound(R, E \cup {x.id}, s)
  <2>1. ChoiceSound(R, E, s)
    BY <1>1, <1>4 DEF AdmissionInv, SelectionsHold
  <2>2. ~Fits(Left(R, E), s, Quota.globalRetainedBytes) /\ x \in Candidates(Left(R, E))
    BY <1>1, <1>2, <1>3, <1>4 DEF IncomingFits
  <2>3. R \subseteq RetainedRows /\ IsFiniteSet(R) /\ \A r, q \in R : r.id = q.id => r = q
    BY <1>3, <1>4
  <2>4. QED
    BY <2>1, <2>2, <2>3, RoundKeepsChoice
<1>12. ChoiceSound(draft'[c].rows, draft'[c].evicted, draft'[c].size)
  BY <1>8, <1>11
<1>13. QED
  BY <1>1, <1>3, <1>6, <1>8, <1>9, <1>10, <1>12, DraftSteps

\* The end of the loop.
LEMMA EndSelectionKeeps ==
  ASSUME AdmissionInv, NEW c \in Creates, EndSelection(c)
  PROVE  AdmissionInv'
<1>1. /\ draft[c].step = "Choosing" /\ Transacting(c) /\ UNCHANGED <<archive, admissionTime>>
  BY DEF EndSelection, Transacting
<1>2. CASE EndCreate(c, "Refused")
  BY <1>1, <1>2, EndKeeps
<1>3. CASE IncomingFits(c) /\ draft' = [draft EXCEPT ![c].step = "Inserting"]
  <2>1. /\ draft[c] \in OpenDrafts /\ draft[c].locks = 3 /\ archive[c] = NoArchive
        /\ \A d \in Creates : d # c => draft[d].locks # 3
    BY <1>1, RowsRead
  <2>2. /\ draft'[c] = [draft[c] EXCEPT !.step = "Inserting"]
        /\ \A d \in Creates : d # c => draft'[d] = draft[d]
        /\ draft' = [d \in Creates |-> draft'[d]]
    BY <1>3 DEF AdmissionInv, AdmissionTypes
  <2>3. draft'[c] \in OpenDrafts
    BY <2>1, <2>2 DEF OpenDrafts
  <2>4. /\ draft' \in [Creates -> Drafts]
        /\ draft'[c].step = "Inserting" /\ draft'[c].locks = 3
        /\ draft'[c].install = draft[c].install /\ draft'[c].network = draft[c].network
        /\ draft'[c].size = draft[c].size /\ draft'[c].created = draft[c].created
        /\ draft'[c].rows = draft[c].rows /\ draft'[c].evicted = draft[c].evicted
    BY <2>1, <2>2, <2>3, DraftGoesOn DEF AdmissionInv, OpenDrafts
  <2>5. RoomFor(draft[c].install, draft[c].network, draft[c].size, draft[c].created)'
    BY <1>1, <2>4, RoomCarried
  <2>6. RowsCurrent(c) /\ ChoiceSound(draft[c].rows, draft[c].evicted, draft[c].size)
    BY <1>1 DEF AdmissionInv, SelectionsHold
  <2>7. RowsCurrent(c)'
    <3>1. Retained' = Retained
      BY <1>1 DEF Retained, Existing
    <3>2. \A a : AsRetained(a)' = AsRetained(a)
      BY <1>1 DEF AsRetained
    <3>3. QED
      BY <1>1, <2>4, <2>6, <3>1, <3>2 DEF RowsCurrent
  <2>8. IncomingFits(c)'
    BY <1>3, <2>4 DEF IncomingFits, StillKept
  <2>9. ChoiceSound(draft'[c].rows, draft'[c].evicted, draft'[c].size)
    BY <2>4, <2>6
  <2>10. QED
    BY <1>1, <2>1, <2>2, <2>4, <2>5, <2>7, <2>8, <2>9, DraftSteps
<1>4. QED
  BY <1>2, <1>3 DEF EndSelection

\* What a create that is about to insert has in hand.
LEMMA AboutToInsert ==
  ASSUME AdmissionInv, NEW c \in Creates, InsertArchive(c)
  PROVE  /\ c \in Archives /\ c \notin Existing /\ draft[c].evicted \subseteq Existing
         /\ draft[c] \in OpenDrafts /\ draft[c].size \in Nat
         /\ archive'[c] \in ArchiveRows /\ archive'[c].phase = "Receiving"
         /\ archive'[c].released = FALSE /\ archive'[c].restored = FALSE
         /\ archive'[c].install = draft[c].install /\ archive'[c].network = draft[c].network
         /\ archive'[c].size = draft[c].size /\ archive'[c].created = draft[c].created
         /\ \A a \in Archives \ {c} : archive'[a] =
              IF a \in draft[c].evicted
                THEN [archive[a] EXCEPT !.phase = "Discarded", !.released = TRUE] ELSE archive[a]
         /\ archive' = [a \in Archives |-> archive'[a]]
<1>1. draft[c].step = "Inserting"
  BY DEF InsertArchive
<1>2. draft[c] \in OpenDrafts /\ archive[c] = NoArchive
  BY <1>1, RowsRead
<1>3. c \in Archives /\ c \notin Existing
  BY <1>2 DEF Archives, Existing, NoArchive
<1>4. draft[c].evicted \subseteq Existing
  <2>1. RowsCurrent(c) /\ ChoiceSound(draft[c].rows, draft[c].evicted, draft[c].size)
    BY <1>1 DEF AdmissionInv, SelectionsHold
  <2>2. QED
    BY <2>1 DEF RowsCurrent, ChoiceSound, Retained
<1>5. archive'[c] = [phase |-> "Receiving", released |-> FALSE, restored |-> FALSE,
                     install |-> draft[c].install, network |-> draft[c].network,
                     size |-> draft[c].size, created |-> draft[c].created]
  BY <1>3 DEF InsertArchive
<1>6. archive'[c] \in ArchiveRows /\ draft[c].size \in Nat
  <2>1. /\ draft[c].install \in Installs /\ draft[c].network \in Networks
        /\ draft[c].size \in Sizes /\ draft[c].created \in Int
    BY <1>2 DEF OpenDrafts
  <2>2. archive'[c] \in ArchiveRows
    BY <1>5, <2>1 DEF ArchiveRows
  <2>3. QED
    BY <2>1, <2>2, AdmissionAssumption
<1>7. /\ \A a \in Archives \ {c} : archive'[a] =
           IF a \in draft[c].evicted
             THEN [archive[a] EXCEPT !.phase = "Discarded", !.released = TRUE] ELSE archive[a]
      /\ archive' = [a \in Archives |-> archive'[a]]
  BY DEF InsertArchive
<1>8. /\ archive'[c].phase = "Receiving"
      /\ archive'[c].released = FALSE /\ archive'[c].restored = FALSE
      /\ archive'[c].install = draft[c].install /\ archive'[c].network = draft[c].network
      /\ archive'[c].size = draft[c].size /\ archive'[c].created = draft[c].created
  BY <1>5
<1>9. QED
  BY <1>2, <1>3, <1>4, <1>6, <1>7, <1>8

\* The archive is added and the chosen ones are given up.
LEMMA InsertChanges ==
  ASSUME AdmissionInv, NEW c \in Creates, InsertArchive(c)
  PROVE  /\ ColumnsKept /\ Existing' = Existing \cup {c} /\ Admitted' = Admitted \cup {c}
         /\ AdmissionTypes'
<1>1. /\ c \in Archives /\ c \notin Existing /\ draft[c].evicted \subseteq Existing
      /\ archive'[c] \in ArchiveRows /\ archive'[c].phase = "Receiving"
      /\ \A a \in Archives \ {c} : archive'[a] =
           IF a \in draft[c].evicted
             THEN [archive[a] EXCEPT !.phase = "Discarded", !.released = TRUE] ELSE archive[a]
      /\ archive' = [a \in Archives |-> archive'[a]]
  BY AboutToInsert
<1>2. \A a \in Existing : a \in Archives /\ archive[a] \in ArchiveRows
  BY ExistingRows DEF AdmissionInv
<1>3. ASSUME NEW a \in Existing, a \in draft[c].evicted
      PROVE  /\ archive'[a] = [archive[a] EXCEPT !.phase = "Discarded", !.released = TRUE]
             /\ archive'[a] \in ArchiveRows /\ archive'[a].phase = "Discarded"
             /\ archive'[a].install = archive[a].install /\ archive'[a].network = archive[a].network
             /\ archive'[a].size = archive[a].size /\ archive'[a].created = archive[a].created
  <2>1. archive'[a] = [archive[a] EXCEPT !.phase = "Discarded", !.released = TRUE]
    BY <1>1, <1>2, <1>3
  <2>2. archive[a] \in ArchiveRows
    BY <1>2
  <2>3. QED
    BY <2>1, <2>2 DEF ArchiveRows
<1>4. \A a \in Archives \ {c} : a \notin draft[c].evicted => archive'[a] = archive[a]
  BY <1>1
<1>5. ColumnsKept
  BY <1>1, <1>2, <1>3, <1>4 DEF ColumnsKept, Existing
<1>6. Existing' = Existing \cup {c}
  <2>1. \A a \in Archives \ {c} : archive'[a].phase # "Absent" <=> archive[a].phase # "Absent"
    <3>1. TAKE a \in Archives \ {c}
    <3>2. CASE a \in draft[c].evicted
      <4>1. a \in Existing
        BY <1>1, <3>2
      <4>2. archive'[a].phase = "Discarded"
        BY <1>3, <3>2, <4>1
      <4>3. QED
        BY <4>1, <4>2 DEF Existing
    <3>3. CASE a \notin draft[c].evicted
      BY <1>4, <3>3
    <3>4. QED
      BY <3>2, <3>3
  <2>2. c \in Archives /\ archive'[c].phase # "Absent"
    BY <1>1
  <2>3. QED
    BY <2>1, <2>2 DEF Existing
<1>7. Admitted' = Admitted \cup {c}
  BY <1>6 DEF Admitted, Existing, Archives
<1>8. AdmissionTypes'
  <2>1. \A a \in Archives : archive'[a] \in ArchiveRows \cup {NoArchive}
    BY <1>1, <1>3, <1>4 DEF AdmissionInv, AdmissionTypes
  <2>2. archive' \in [Archives -> ArchiveRows \cup {NoArchive}]
    BY <1>1, <2>1
  <2>3. draft' \in [Creates -> Drafts]
    <3>1. [NoDraft EXCEPT !.step = "Created"] = [step |-> "Created", locks |-> 0]
      BY DEF NoDraft
    <3>2. draft' = [draft EXCEPT ![c] = [step |-> "Created", locks |-> 0]]
      BY <3>1 DEF InsertArchive, EndCreate
    <3>3. QED
      BY <3>2 DEF AdmissionInv, AdmissionTypes, Drafts
  <2>4. QED
    BY <2>2, <2>3 DEF AdmissionInv, AdmissionTypes, InsertArchive
<1>9. QED
  BY <1>5, <1>6, <1>7, <1>8

\* Of the archives that count, the cap holds those kept and the new one.
LEMMA InsertFits ==
  ASSUME AdmissionInv, NEW c \in Creates, InsertArchive(c)
  PROVE  OnlyRestoredExceed'
<1>1. /\ c \in Archives /\ c \notin Existing /\ draft[c].evicted \subseteq Existing
      /\ draft[c].size \in Nat /\ archive'[c].size = draft[c].size
      /\ \A a \in Archives \ {c} : archive'[a] =
           IF a \in draft[c].evicted
             THEN [archive[a] EXCEPT !.phase = "Discarded", !.released = TRUE] ELSE archive[a]
  BY AboutToInsert
<1>2. ColumnsKept /\ Existing' = Existing \cup {c}
  BY InsertChanges
<1>3. draft[c].step = "Inserting"
  BY DEF InsertArchive
<1>4. /\ RowsCurrent(c) /\ IncomingFits(c)
      /\ StillKept(c) = Left(draft[c].rows, draft[c].evicted)
  BY <1>3, RowsRead DEF AdmissionInv, SelectionsHold
<1>5. PICK L : L = StillKept(c)
  OBVIOUS
<1>6. PICK K : K = {r.id : r \in L}
  OBVIOUS
<1>7. \A r \in L : r.id \in Retained /\ r = AsRetained(r.id) /\ r.id \notin draft[c].evicted
  BY <1>4, <1>5 DEF RowsCurrent, Left
<1>8. K \subseteq Existing /\ L = {AsRetained(a) : a \in K}
  BY <1>6, <1>7 DEF Retained
<1>9. IsFiniteSet(K) /\ \A a \in K : archive[a].size \in Nat
  <2>1. IsFiniteSet(Existing)
    BY ExistingRows DEF AdmissionInv
  <2>2. IsFiniteSet(K)
    BY <1>8, <2>1, FS_Subset
  <2>3. QED
    BY <1>8, <2>2, ExistingRows DEF AdmissionInv
<1>10. BytesOf(K) + draft[c].size <= Quota.globalRetainedBytes
  <2>1. Bytes(L) = BytesOf(K)
    BY <1>8, <1>9, RowsAreArchives
  <2>2. QED
    BY <1>4, <1>5, <2>1 DEF IncomingFits, Fits
<1>11. \A a \in K : archive'[a].size = archive[a].size
  BY <1>2, <1>8 DEF ColumnsKept
<1>12. BytesOf(K \cup {c})' = BytesOf(K) + draft[c].size
  BY <1>1, <1>8, <1>9, <1>11, BytesJoin
<1>13. PICK T : T = {a \in Counted : ~archive[a].restored}'
  OBVIOUS
<1>14. T \subseteq K \cup {c}
  <2>1. SUFFICES ASSUME NEW a \in T, a # c PROVE a \in K
    OBVIOUS
  <2>2. /\ a \in Existing /\ archive'[a].phase # "Gone" /\ ~archive'[a].released
        /\ ~archive'[a].restored
    BY <1>2, <1>13, <2>1 DEF Counted
  <2>3. archive[a] \in ArchiveRows /\ a \in Archives \ {c}
    BY <2>1, <2>2, ExistingRows DEF AdmissionInv
  <2>4. a \notin draft[c].evicted
    <3>1. SUFFICES ASSUME a \in draft[c].evicted PROVE FALSE
      OBVIOUS
    <3>2. archive'[a] = [archive[a] EXCEPT !.phase = "Discarded", !.released = TRUE]
      BY <1>1, <2>3, <3>1
    <3>3. archive'[a].released = TRUE
      BY <2>3, <3>2 DEF ArchiveRows
    <3>4. QED
      BY <2>2, <3>3
  <2>5. archive'[a] = archive[a]
    BY <1>1, <2>3, <2>4
  <2>6. a \in Retained /\ ~archive[a].restored
    BY <2>2, <2>5 DEF Retained
  <2>7. AsRetained(a) \in draft[c].rows /\ AsRetained(a).id = a
    BY <1>4, <2>6 DEF RowsCurrent, AsRetained
  <2>8. AsRetained(a) \in L
    BY <1>4, <1>5, <2>4, <2>7 DEF Left
  <2>9. QED
    BY <1>6, <2>7, <2>8
<1>15. IsFiniteSet(K \cup {c})
  BY <1>9, FS_AddElement
<1>16. \A a \in K \cup {c} : archive'[a].size \in Nat
  BY <1>1, <1>9, <1>11
<1>17. BytesOf(K \cup {c})' \in Nat /\ BytesOf(T)' \in Nat /\ BytesOf(T)' <= BytesOf(K \cup {c})'
  BY <1>14, <1>15, <1>16, BytesOfPartNext
<1>18. BytesOf(T)' <= Quota.globalRetainedBytes
  BY <1>10, <1>12, <1>17, LimitsAreNumbers
<1>19. QED
  BY <1>13, <1>18 DEF OnlyRestoredExceed

\* The row is inserted by the one create that holds the locks.
LEMMA InsertKeeps ==
  ASSUME AdmissionInv, NEW c \in Creates, InsertArchive(c)
  PROVE  AdmissionInv'
<1>1. draft[c].step = "Inserting"
  BY DEF InsertArchive
<1>2. \A d \in Creates : d # c => draft[d].locks # 3
  BY <1>1, RowsRead
<1>3. ColumnsKept /\ Existing' = Existing \cup {c} /\ Admitted' = Admitted \cup {c} /\ AdmissionTypes'
  BY InsertChanges
<1>4. /\ c \in Archives /\ c \notin Existing /\ draft[c].evicted \subseteq Existing
      /\ draft[c] \in OpenDrafts /\ draft[c].size \in Nat
      /\ archive'[c].install = draft[c].install /\ archive'[c].network = draft[c].network
      /\ archive'[c].size = draft[c].size /\ archive'[c].created = draft[c].created
      /\ \A a \in Archives \ {c} : archive'[a] =
           IF a \in draft[c].evicted
             THEN [archive[a] EXCEPT !.phase = "Discarded", !.released = TRUE] ELSE archive[a]
  BY AboutToInsert
<1>5. /\ \A d \in Creates : d # c => draft'[d] = draft[d]
      /\ draft'[c].step = "Created" /\ draft'[c].locks = 0
  <2>1. [NoDraft EXCEPT !.step = "Created"] = [step |-> "Created", locks |-> 0]
    BY DEF NoDraft
  <2>2. draft' = [draft EXCEPT ![c] = [step |-> "Created", locks |-> 0]]
    BY <2>1 DEF InsertArchive, EndCreate
  <2>3. QED
    BY <2>2 DEF AdmissionInv, AdmissionTypes
<1>6. LocksExclude'
  <2>1. ASSUME NEW d \in Creates, d # c, archive[d] = NoArchive PROVE archive'[d] = NoArchive
    <3>1. d \in Archives \ {c} /\ d \notin Existing
      BY <2>1 DEF Archives, Existing, NoArchive
    <3>2. d \notin draft[c].evicted
      BY <1>4, <3>1
    <3>3. QED
      BY <1>4, <2>1, <3>1, <3>2
  <2>2. QED
    BY <1>2, <1>5, <2>1 DEF AdmissionInv, LocksExclude
<1>7. \A d \in Creates : draft'[d].step \notin {"Selecting", "Choosing", "Inserting"}
  BY <1>2, <1>5 DEF AdmissionInv, LocksExclude
<1>8. CountedRoom' /\ SelectionsHold'
  BY <1>7 DEF CountedRoom, SelectionsHold
<1>9. WindowsWithin'
  <2>1. PICK i, n, s, t : i = draft[c].install /\ n = draft[c].network /\ s = draft[c].size
                            /\ t = draft[c].created
    OBVIOUS
  <2>2. s \in Nat /\ t \in Int
    BY <1>4, <2>1 DEF OpenDrafts
  <2>3. RoomFor(i, n, s, t)
    BY <1>1, <2>1 DEF AdmissionInv, CountedRoom
  <2>4. QED
    BY <1>3, <1>4, <2>1, <2>2, <2>3, WindowsGrow DEF AdmissionInv
<1>10. OnlyRestoredExceed'
  BY InsertFits
<1>11. QED
  BY <1>3, <1>6, <1>8, <1>9, <1>10 DEF AdmissionInv

-----------------------------------------------------------------------------
(***************************************************************************)
(* The rest of an archive's life.  No create that chooses has its row, and *)
(* of its bytes only those of an eviction taken back are counted again.    *)
(***************************************************************************)
LEMMA MoveKeeps ==
  ASSUME AdmissionInv, NEW a \in Existing, NEW r \in ArchiveRows, ArchiveMoves(a, r),
         r.install = archive[a].install, r.network = archive[a].network,
         r.size = archive[a].size, r.created = archive[a].created, r.phase # "Receiving",
         r.phase # "Gone" /\ ~r.released /\ ~r.restored => a \in Retained /\ ~archive[a].restored
  PROVE  AdmissionInv'
<1>1. /\ \A c \in Creates : a \notin RowsHeld(c)
      /\ UNCHANGED <<draft, admissionTime>>
      /\ archive' = [archive EXCEPT ![a] = r]
  BY DEF ArchiveMoves, RowLocked
<1>2. a \in Archives /\ archive[a] \in ArchiveRows /\ Existing \subseteq Archives
  BY ExistingRows DEF AdmissionInv
<1>3. /\ archive'[a] = r /\ \A b \in Archives : b # a => archive'[b] = archive[b]
      /\ archive' \in [Archives -> ArchiveRows \cup {NoArchive}]
  BY <1>1, <1>2 DEF AdmissionInv, AdmissionTypes
<1>4. r.phase # "Absent"
  BY DEF ArchiveRows
<1>5. Existing' = Existing
  BY <1>3, <1>4 DEF Existing
<1>6. Admitted' = Admitted
  BY <1>2, <1>3, <1>4 DEF Admitted, Existing, Archives
<1>7. ColumnsKept
  BY <1>2, <1>3, <1>4 DEF ColumnsKept, Existing
<1>8. AdmissionTypes'
  BY <1>1, <1>3 DEF AdmissionInv, AdmissionTypes
<1>9. LocksExclude'
  <2>1. \A c \in Creates : archive[c] = NoArchive => archive'[c] = NoArchive
    BY <1>3 DEF Archives, Existing, NoArchive
  <2>2. QED
    BY <1>1, <2>1 DEF AdmissionInv, LocksExclude
<1>10. CountedRoom'
  <2>1. SUFFICES ASSUME NEW c \in Creates,
                        draft'[c].step \in {"Selecting", "Choosing", "Inserting"}
                 PROVE  RoomFor(draft[c].install, draft[c].network, draft[c].size, draft[c].created)'
    BY DEF CountedRoom
  <2>2. PICK i, n, s, t : i = draft[c].install /\ n = draft[c].network /\ s = draft[c].size
                            /\ t = draft[c].created
    OBVIOUS
  <2>3. RoomFor(i, n, s, t)
    BY <1>1, <2>1, <2>2 DEF AdmissionInv, CountedRoom
  <2>4. RoomFor(i, n, s, t)'
    BY <1>5, <1>7, <2>3, RoomStays DEF AdmissionInv
  <2>5. QED
    BY <1>1, <2>2, <2>4
<1>11. WindowsWithin'
  BY <1>5, <1>7, WindowsStay DEF AdmissionInv
<1>12. SelectionsHold'
  <2>1. SUFFICES ASSUME NEW c \in Creates, draft[c].step \in {"Choosing", "Inserting"}
                 PROVE  /\ RowsCurrent(c)'
                        /\ ChoiceSound(draft[c].rows, draft[c].evicted, draft[c].size)
                        /\ draft[c].step = "Inserting" => IncomingFits(c)'
    BY <1>1 DEF SelectionsHold
  <2>2. /\ RowsCurrent(c)
        /\ ChoiceSound(draft[c].rows, draft[c].evicted, draft[c].size)
        /\ draft[c].step = "Inserting" => IncomingFits(c)
    BY <2>1 DEF AdmissionInv, SelectionsHold
  <2>3. \A q \in draft[c].rows : q.id # a
    BY <1>1, <2>1 DEF RowsHeld
  <2>4. a \notin Retained \/ archive[a].restored
    <3>1. SUFFICES ASSUME a \in Retained, ~archive[a].restored PROVE FALSE
      OBVIOUS
    <3>2. AsRetained(a) \in draft[c].rows /\ AsRetained(a).id = a
      BY <2>2, <3>1 DEF RowsCurrent, AsRetained
    <3>3. QED
      BY <2>3, <3>2
  <2>5. \A b \in Existing : b # a => /\ AsRetained(b)' = AsRetained(b)
                                     /\ (b \in Retained)' <=> b \in Retained
    BY <1>2, <1>3, <1>5 DEF AsRetained, Retained
  <2>6. \A q \in draft[c].rows : q.id \in Retained' /\ q = AsRetained(q.id)'
    BY <2>2, <2>3, <2>5 DEF RowsCurrent, Retained
  <2>7. ASSUME NEW b \in Retained' PROVE archive'[b].restored \/ AsRetained(b)' \in draft[c].rows
    <3>1. b \in Existing
      BY <1>5, <2>7 DEF Retained
    <3>2. CASE b = a
      <4>1. r.phase # "Gone" /\ ~r.released
        BY <1>3, <2>7, <3>2 DEF Retained
      <4>2. r.restored
        BY <2>4, <4>1
      <4>3. QED
        BY <1>3, <3>2, <4>2
    <3>3. CASE b # a
      <4>1. b \in Retained /\ archive'[b] = archive[b]
        BY <1>2, <1>3, <2>5, <2>7, <3>1, <3>3
      <4>2. QED
        BY <2>2, <2>5, <3>1, <3>3, <4>1 DEF RowsCurrent
    <3>4. QED
      BY <3>2, <3>3
  <2>8. RowsCurrent(c)'
    BY <1>1, <2>6, <2>7 DEF RowsCurrent
  <2>9. IncomingFits(c)' <=> IncomingFits(c)
    BY <1>1 DEF IncomingFits, StillKept
  <2>10. QED
    BY <2>2, <2>8, <2>9
<1>13. OnlyRestoredExceed'
  <2>1. PICK S : S = {b \in Counted : ~archive[b].restored}
    OBVIOUS
  <2>2. PICK T : T = {b \in Counted : ~archive[b].restored}'
    OBVIOUS
  <2>3. T \subseteq S
    <3>1. SUFFICES ASSUME NEW b \in T PROVE b \in S
      OBVIOUS
    <3>2. /\ b \in Existing /\ archive'[b].phase # "Gone" /\ ~archive'[b].released
          /\ ~archive'[b].restored
      BY <1>5, <2>2 DEF Counted
    <3>3. CASE b = a
      <4>1. a \in Retained /\ ~archive[a].restored
        BY <1>3, <3>2, <3>3
      <4>2. QED
        BY <2>1, <3>3, <4>1 DEF Counted, Retained
    <3>4. CASE b # a
      BY <1>2, <1>3, <2>1, <3>2, <3>4 DEF Counted
    <3>5. QED
      BY <3>3, <3>4
  <2>4. S \subseteq Existing
    BY <2>1 DEF Counted
  <2>5. IsFiniteSet(S) /\ \A b \in S : archive[b].size \in Nat
    <3>1. IsFiniteSet(Existing) /\ \A b \in Existing : archive[b].size \in Nat
      BY ExistingRows DEF AdmissionInv
    <3>2. IsFiniteSet(S)
      BY <2>4, <3>1, FS_Subset
    <3>3. QED
      BY <2>4, <3>1, <3>2
  <2>6. BytesOf(S) \in Nat /\ BytesOf(T) \in Nat /\ BytesOf(T) <= BytesOf(S)
    BY <2>3, <2>5, BytesOfPart
  <2>7. \A b \in T : archive'[b].size = archive[b].size
    BY <1>7, <2>3, <2>4 DEF ColumnsKept
  <2>8. BytesOf(T)' = BytesOf(T)
    BY <2>7, BytesStay
  <2>9. BytesOf(S) <= Quota.globalRetainedBytes
    BY <2>1 DEF AdmissionInv, OnlyRestoredExceed
  <2>10. BytesOf(T)' <= Quota.globalRetainedBytes
    BY <2>6, <2>8, <2>9, LimitsAreNumbers
  <2>11. QED
    BY <2>2, <2>10 DEF OnlyRestoredExceed
<1>14. QED
  BY <1>8, <1>9, <1>10, <1>11, <1>12, <1>13 DEF AdmissionInv

\* An archive goes on: what was given up stays given up.
LEMMA ProceedsKeeps ==
  ASSUME AdmissionInv, NEW a \in Archives, NEW phase \in Successors(archive[a].phase),
         ArchiveProceeds(a, phase)
  PROVE  AdmissionInv'
<1>1. /\ archive[a].phase \notin {"Absent", "Gone"} /\ phase # "Receiving"
      /\ phase \in {"Receiving", "Queued", "Stored", "Verifying", "Discarded", "Deleting", "Gone"}
  BY DEF Successors
<1>2. a \in Existing
  BY <1>1 DEF Existing
<1>3. archive[a] \in ArchiveRows
  BY <1>2, ExistingRows DEF AdmissionInv
<1>4. PICK r : r = [archive[a] EXCEPT !.phase = phase]
  OBVIOUS
<1>5. ArchiveMoves(a, r)
  BY <1>4 DEF ArchiveProceeds
<1>6. /\ r \in ArchiveRows /\ r.install = archive[a].install /\ r.network = archive[a].network
      /\ r.size = archive[a].size /\ r.created = archive[a].created /\ r.phase = phase
      /\ r.released = archive[a].released /\ r.restored = archive[a].restored
  BY <1>1, <1>3, <1>4 DEF ArchiveRows
<1>7. ~r.released /\ ~r.restored => a \in Retained /\ ~archive[a].restored
  BY <1>1, <1>2, <1>6 DEF Retained
<1>8. QED
  BY <1>1, <1>2, <1>5, <1>6, <1>7, MoveKeeps

\* A deletion fails: an eviction is taken back.
LEMMA DeletionKeeps ==
  ASSUME AdmissionInv, NEW a \in Archives, DeletionFails(a)
  PROVE  AdmissionInv'
<1>1. archive[a].phase = "Deleting" /\ a \in Existing
  BY DEF DeletionFails, Existing
<1>2. archive[a] \in ArchiveRows
  BY <1>1, ExistingRows DEF AdmissionInv
<1>3. PICK r : r = Restored(archive[a])
  OBVIOUS
<1>4. ArchiveMoves(a, r)
  BY <1>3 DEF DeletionFails
<1>5. /\ r \in ArchiveRows /\ r.install = archive[a].install /\ r.network = archive[a].network
      /\ r.size = archive[a].size /\ r.created = archive[a].created /\ r.phase = "Discarded"
      /\ r.restored = (archive[a].released \/ archive[a].restored)
  <2>1. (archive[a].released \/ archive[a].restored) \in BOOLEAN
    OBVIOUS
  <2>2. QED
    BY <1>2, <1>3, <2>1 DEF ArchiveRows, Restored
<1>6. ~r.restored => a \in Retained /\ ~archive[a].restored
  BY <1>1, <1>5 DEF Retained
<1>7. QED
  BY <1>1, <1>4, <1>5, <1>6, MoveKeeps

\* Nothing but the clock changes.
LEMMA ClockKeeps ==
  ASSUME AdmissionInv, UNCHANGED <<archive, draft>>, admissionTime' \in Int
  PROVE  AdmissionInv'
<1>1. Existing' = Existing /\ Retained' = Retained /\ ColumnsKept
  BY DEF Existing, Retained, ColumnsKept
<1>2. AdmissionTypes' /\ LocksExclude'
  BY DEF AdmissionInv, AdmissionTypes, LocksExclude
<1>3. CountedRoom'
  <2>1. SUFFICES ASSUME NEW c \in Creates,
                        draft'[c].step \in {"Selecting", "Choosing", "Inserting"}
                 PROVE  RoomFor(draft[c].install, draft[c].network, draft[c].size, draft[c].created)'
    BY DEF CountedRoom
  <2>2. draft[c].step \in {"Selecting", "Choosing", "Inserting"}
    BY <2>1
  <2>3. QED
    BY <2>2, RoomCarried
<1>4. WindowsWithin'
  BY <1>1, WindowsStay DEF AdmissionInv
<1>5. SelectionsHold'
  <2>1. \A c \in Creates : RowsCurrent(c) => RowsCurrent(c)'
    BY <1>1 DEF RowsCurrent, AsRetained
  <2>2. \A c \in Creates : IncomingFits(c)' <=> IncomingFits(c)
    BY DEF IncomingFits, StillKept
  <2>3. QED
    BY <2>1, <2>2 DEF AdmissionInv, SelectionsHold
<1>6. OnlyRestoredExceed'
  BY <1>1 DEF AdmissionInv, OnlyRestoredExceed, Counted, BytesOf
<1>7. QED
  BY <1>2, <1>3, <1>4, <1>5, <1>6 DEF AdmissionInv

\* At the start there is nothing to count but what was there.
LEMMA AdmissionStarts == ASSUME AdmissionInit PROVE AdmissionInv
<1>1. PICK earlier \in EarlierArchives :
        archive = [a \in Archives |-> IF a \in Earlier THEN earlier[a] ELSE NoArchive]
  BY DEF AdmissionInit
<1>2. \A a \in Earlier : earlier[a] = NoArchive \/ earlier[a] \in ArchiveRows
  BY <1>1, AdmissionAssumption
<1>3. \A c \in Creates : archive[c] = NoArchive
  BY <1>1, AdmissionAssumption DEF Archives
<1>4. \A c \in Creates : draft[c] = [step |-> "Idle", locks |-> 0]
  BY DEF AdmissionInit, NoDraft
<1>5. AdmissionTypes
  <2>1. archive \in [Archives -> ArchiveRows \cup {NoArchive}]
    BY <1>1, <1>2 DEF Archives
  <2>2. draft \in [Creates -> Drafts]
    BY DEF AdmissionInit, NoDraft, Drafts
  <2>3. QED
    BY <2>1, <2>2 DEF AdmissionTypes, AdmissionInit
<1>6. LocksExclude
  BY <1>3, <1>4 DEF LocksExclude
<1>7. CountedRoom /\ SelectionsHold
  BY <1>4 DEF CountedRoom, SelectionsHold
<1>8. WindowsWithin
  BY <1>3 DEF WindowsWithin, Admitted, NoArchive
<1>9. OnlyRestoredExceed
  <2>1. {[id |-> a, size |-> archive[a].size] : a \in {b \in Counted : ~archive[b].restored}}
          = {[id |-> a, size |-> earlier[a].size] :
               a \in {b \in Earlier : /\ earlier[b].phase \notin {"Absent", "Gone"}
                                      /\ ~earlier[b].released /\ ~earlier[b].restored}}
    <3>1. {b \in Counted : ~archive[b].restored}
            = {b \in Earlier : /\ earlier[b].phase \notin {"Absent", "Gone"}
                               /\ ~earlier[b].released /\ ~earlier[b].restored}
      BY <1>1, <1>3 DEF Counted, Existing, Archives, NoArchive
    <3>2. \A a \in Earlier : archive[a] = earlier[a]
      BY <1>1 DEF Archives
    <3>3. QED
      BY <3>1, <3>2
  <2>2. QED
    BY <1>1, <2>1, AdmissionAssumption DEF OnlyRestoredExceed, BytesOf
<1>10. QED
  BY <1>5, <1>6, <1>7, <1>8, <1>9 DEF AdmissionInv

\* Every step keeps it.
LEMMA AdmissionGoesOn == ASSUME AdmissionInv, [AdmissionNext]_admissionVars PROVE AdmissionInv'
<1>1. ASSUME NEW c \in Creates, NEW i \in Installs, NEW n \in Networks, NEW s \in Sizes,
             BeginCreate(c, i, n, s)
      PROVE  AdmissionInv'
  BY <1>1, BeginKeeps
<1>2. ASSUME NEW c \in Creates, CreateStep(c) PROVE AdmissionInv'
  BY <1>2, AcquireKeeps, CountKeeps, SelectKeeps, ChooseKeeps, EndSelectionKeeps, InsertKeeps
     DEF CreateStep
<1>3. ASSUME NEW c \in Creates, RollbackCreate(c) PROVE AdmissionInv'
  BY <1>3, EndKeeps DEF RollbackCreate
<1>4. ASSUME NEW a \in Archives, DeletionFails(a) PROVE AdmissionInv'
  BY <1>4, DeletionKeeps
<1>5. ASSUME NEW a \in Archives, NEW phase \in Successors(archive[a].phase),
             ArchiveProceeds(a, phase)
      PROVE  AdmissionInv'
  BY <1>5, ProceedsKeeps
<1>6. ASSUME AdmissionTick PROVE AdmissionInv'
  <2>1. admissionTime' \in Int
    BY <1>6 DEF AdmissionInv, AdmissionTypes, AdmissionTick
  <2>2. QED
    BY <1>6, <2>1, ClockKeeps DEF AdmissionTick
<1>7. ASSUME UNCHANGED admissionVars PROVE AdmissionInv'
  BY <1>7, ClockKeeps DEF admissionVars, AdmissionInv, AdmissionTypes
<1>8. QED
  BY <1>1, <1>2, <1>3, <1>4, <1>5, <1>6, <1>7 DEF AdmissionNext

\* The invariant of admission.
LEMMA AdmissionInvariance == AdmissionSpec => []AdmissionInv
<1>1. AdmissionInit => AdmissionInv
  BY AdmissionStarts
<1>2. AdmissionInv /\ [AdmissionNext]_admissionVars => AdmissionInv'
  BY AdmissionGoesOn
<1>3. QED
  BY <1>1, <1>2, PTL DEF AdmissionSpec

\* What was chosen from the rows read is chosen from the archives.
LEMMA ChoiceIsSound == ASSUME AdmissionInv PROVE EvictionSound
<1>1. SUFFICES ASSUME NEW c \in Creates, Evicting(c)
               PROVE  LET kept == RowsHeld(c) \ draft[c].evicted
                          count(i) == Cardinality({a \in kept : archive[a].install = i})
                      IN /\ BytesOf(kept) + draft[c].size <= Quota.globalRetainedBytes
                         /\ \E a \in draft[c].evicted :
                              BytesOf(kept \cup {a}) + draft[c].size > Quota.globalRetainedBytes
                         /\ \A a \in draft[c].evicted :
                              archive[a].phase \notin ActivePhases \ {"Queued"}
                         /\ \A a \in draft[c].evicted, b \in kept :
                              archive[b].phase \in Evictable =>
                                /\ count(archive[b].install) <= count(archive[a].install) + 1
                                /\ archive[a].install = archive[b].install =>
                                     archive[a].created <= archive[b].created
  BY DEF EvictionSound, EvictionStopsWhenItFits, EvictionFair
<1>2. draft[c].step = "Inserting" /\ draft[c].evicted # {}
  BY <1>1 DEF Evicting
<1>3. PICK R, E, s : R = draft[c].rows /\ E = draft[c].evicted /\ s = draft[c].size
  OBVIOUS
<1>4. PICK kept : kept = RowsHeld(c) \ E
  OBVIOUS
<1>5. /\ RowsCurrent(c) /\ ChoiceSound(R, E, s) /\ IncomingFits(c)
      /\ StillKept(c) = Left(R, E) /\ draft[c] \in OpenDrafts
  BY <1>2, <1>3, RowsRead DEF AdmissionInv, SelectionsHold
<1>6. \A r \in R : r.id \in Retained /\ r = AsRetained(r.id)
  BY <1>3, <1>5 DEF RowsCurrent
<1>7. RowsHeld(c) = {r.id : r \in R}
  BY <1>2, <1>3 DEF RowsHeld
<1>8. kept = {r.id : r \in Left(R, E)}
  BY <1>4, <1>7 DEF Left
<1>9. kept \subseteq Existing /\ Left(R, E) = {AsRetained(a) : a \in kept}
  <2>1. \A r \in Left(R, E) : r.id \in Existing /\ r = AsRetained(r.id)
    BY <1>6 DEF Left, Retained
  <2>2. QED
    BY <1>8, <2>1
<1>10. IsFiniteSet(kept) /\ \A a \in Existing : archive[a].size \in Nat
  <2>1. IsFiniteSet(Existing) /\ \A a \in Existing : archive[a].size \in Nat
    BY ExistingRows DEF AdmissionInv
  <2>2. IsFiniteSet(kept)
    BY <1>9, <2>1, FS_Subset
  <2>3. QED
    BY <2>1, <2>2
<1>11. s \in Nat
  BY <1>3, <1>5, AdmissionAssumption DEF OpenDrafts
<1>12. /\ Bytes(Left(R, E)) = BytesOf(kept)
       /\ \A i : HeldBy(i, Left(R, E)) = Cardinality({a \in kept : archive[a].install = i})
  BY <1>9, <1>10, RowsAreArchives
<1>13. BytesOf(kept) + s <= Quota.globalRetainedBytes
  BY <1>3, <1>5, <1>12 DEF IncomingFits, Fits
<1>14. \A e \in E : \E r \in R : r.id = e /\ r.evictable
  BY <1>5 DEF ChoiceSound
<1>15. \A e \in E : e \in Existing /\ AsRetained(e) \in R /\ archive[e].phase \in Evictable
  <2>1. TAKE e \in E
  <2>2. PICK r \in R : r.id = e /\ r.evictable
    BY <1>14
  <2>3. e \in Retained /\ r = AsRetained(e)
    BY <1>6, <2>2
  <2>4. archive[e].phase \in Evictable
    <3>1. AsRetained(e).evictable = (archive[e].phase \in Evictable)
      BY DEF AsRetained
    <3>2. AsRetained(e).evictable
      BY <2>2, <2>3
    <3>3. QED
      BY <3>1, <3>2
  <2>5. e \in Existing /\ AsRetained(e) \in R
    BY <2>2, <2>3 DEF Retained
  <2>6. QED
    BY <2>4, <2>5
<1>16. \E a \in E : BytesOf(kept \cup {a}) + s > Quota.globalRetainedBytes
  <2>1. PICK r \in R : r.id \in E /\ ~Fits(Left(R, E) \cup {r}, s, Quota.globalRetainedBytes)
    BY <1>2, <1>3, <1>5 DEF ChoiceSound
  <2>2. PICK a : a = r.id
    OBVIOUS
  <2>3. a \in E /\ a \in Existing /\ r = AsRetained(a)
    BY <1>6, <2>1, <2>2 DEF Retained
  <2>4. PICK M : M = kept \cup {a}
    OBVIOUS
  <2>5. Left(R, E) \cup {r} = {AsRetained(b) : b \in M}
    BY <1>9, <2>3, <2>4
  <2>6. M \subseteq Existing /\ IsFiniteSet(M)
    BY <1>9, <1>10, <2>3, <2>4, FS_AddElement
  <2>7. \A b \in M : archive[b].size \in Nat
    BY <1>10, <2>6
  <2>8. Bytes(Left(R, E) \cup {r}) = BytesOf(M)
    BY <2>5, <2>7, RowsAreArchives
  <2>9. BytesOf(M) \in Nat
    BY <2>6, <2>7, BytesOfPart
  <2>10. ~(BytesOf(M) + s <= Quota.globalRetainedBytes)
    BY <2>1, <2>8 DEF Fits
  <2>11. BytesOf(M) + s > Quota.globalRetainedBytes
    BY <1>11, <2>9, <2>10, LimitsAreNumbers
  <2>12. QED
    BY <2>3, <2>4, <2>11
<1>17. \A a \in E : archive[a].phase \notin ActivePhases \ {"Queued"}
  BY <1>15 DEF Evictable, ActivePhases
<1>18. ASSUME NEW a \in E, NEW b \in kept, archive[b].phase \in Evictable
       PROVE  /\ Cardinality({x \in kept : archive[x].install = archive[b].install})
                   <= Cardinality({x \in kept : archive[x].install = archive[a].install}) + 1
              /\ archive[a].install = archive[b].install => archive[a].created <= archive[b].created
  <2>1. PICK r : r = AsRetained(a)
    OBVIOUS
  <2>2. PICK q : q = AsRetained(b)
    OBVIOUS
  <2>3. /\ r \in R /\ r.id = a /\ r.install = archive[a].install /\ r.created = archive[a].created
        /\ q \in Left(R, E) /\ q.install = archive[b].install /\ q.created = archive[b].created
        /\ q.evictable
    BY <1>9, <1>15, <1>18, <2>1, <2>2 DEF AsRetained
  <2>4. /\ HeldBy(q.install, Left(R, E)) <= HeldBy(r.install, Left(R, E)) + 1
        /\ r.install = q.install => r.created <= q.created
    BY <1>5, <2>3 DEF ChoiceSound, FairlyChosen
  <2>5. QED
    BY <1>12, <2>3, <2>4
<1>19. QED
  BY <1>3, <1>4, <1>13, <1>16, <1>17, <1>18

(***************************************************************************)
(* Install, network and service stay within their quotas of a day and of   *)
(* uploads at a time (the counting of insertWithinQuota under its three    *)
(* advisory locks), for any number of creates, archives and limits.        *)
(***************************************************************************)
THEOREM QuotasHold == AdmissionSpec => []QuotaHolds
<1>1. AdmissionInv => QuotaHolds
  BY WindowsAreQuotas DEF AdmissionInv
<1>2. QED
  BY <1>1, AdmissionInvariance, PTL

(***************************************************************************)
(* The archives retained exceed the cap of insertWithinQuota by no more    *)
(* than those whose eviction scheduleDeletionRetry took back.              *)
(***************************************************************************)
THEOREM CapHoldsButForRestored == AdmissionSpec => []OnlyRestoredExceed
<1>1. AdmissionInv => OnlyRestoredExceed
  BY DEF AdmissionInv
<1>2. QED
  BY <1>1, AdmissionInvariance, PTL

(***************************************************************************)
(* selectCapacityEvictions stops as soon as the incoming archive fits,     *)
(* gives up none that is in use, and takes the oldest of the install that  *)
(* holds most, so that none is left more than one archive behind another.  *)
(* That each archive given up was needed is not so, and not claimed.       *)
(***************************************************************************)
THEOREM EvictionsAreSound == AdmissionSpec => []EvictionSound
<1>1. AdmissionInv => EvictionSound
  BY ChoiceIsSound
<1>2. QED
  BY <1>1, AdmissionInvariance, PTL

\* Every create takes its locks from one order of kinds.
LEMMA LocksOrdered ==
  ASSUME NEW c \in Creates, NEW d \in Creates, NEW m \in 1 .. 3, NEW n \in 1 .. 3,
         LockOrder(c)[m] = LockOrder(d)[n]
  PROVE  m = n
<1> DEFINE kinds == <<"install", "network", "global">>
<1>1. \A e \in Creates : \A k \in 1 .. 3 : LockOrder(e)[k][1] = kinds[k]
  BY DEF LockOrder, Locks
<1>2. kinds[m] = kinds[n]
  BY <1>1
<1>3. QED
  BY <1>2

\* Who waits waits for one that has come further.
LEMMA WaitsForOneAhead ==
  ASSUME AdmissionInv, NEW c \in Creates, Waits(c)
  PROVE  \E d \in Creates : draft[d].locks > draft[c].locks
<1>1. draft[c].locks \in 0 .. 2
  BY DEF Waits, AdmissionInv, LocksExclude
<1>2. PICK d \in Creates : NextLock(c) \in Holding(d)
  BY DEF Waits, LockFree
<1>3. draft[d].locks \in 0 .. 3
  BY DraftKinds DEF AdmissionInv
<1>4. PICK n \in 1 .. draft[d].locks : LockOrder(c)[draft[c].locks + 1] = LockOrder(d)[n]
  BY <1>2 DEF Holding, NextLock
<1>5. draft[c].locks + 1 = n
  BY <1>1, <1>3, <1>4, LocksOrdered
<1>6. QED
  BY <1>1, <1>3, <1>5

(***************************************************************************)
(* However many creates wait for the advisory locks of insertWithinQuota,  *)
(* one of them waits for nobody.                                           *)
(***************************************************************************)
THEOREM CreatesNeverDeadlock == AdmissionSpec => []SomeCreateProceeds
<1>1. AdmissionInv => SomeCreateProceeds
  <2> SUFFICES ASSUME AdmissionInv, NEW c \in Creates, Transacting(c),
                      \A d \in Creates : Transacting(d) => Waits(d)
               PROVE  FALSE
    BY DEF SomeCreateProceeds
  <2>1. \A d \in Creates : draft[d].locks \in 0 .. 3 /\ (draft[d].locks > 0 => Transacting(d))
    BY DraftKinds DEF AdmissionInv
  <2>2. \A d \in Creates : Transacting(d) =>
          draft[d].locks < 3 /\ \E e \in Creates : draft[e].locks > draft[d].locks
    BY WaitsForOneAhead DEF Waits, AdmissionInv, LocksExclude
  <2>3. PICK d \in Creates : draft[d].locks >= 1
    BY <2>1, <2>2
  <2>4. PICK e \in Creates : draft[e].locks >= 2
    BY <2>1, <2>2, <2>3
  <2>5. PICK f \in Creates : draft[f].locks >= 3
    BY <2>1, <2>2, <2>4
  <2>6. QED
    BY <2>1, <2>2, <2>5
<1>2. QED
  BY <1>1, AdmissionInvariance, PTL
=============================================================================
