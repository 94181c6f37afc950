----------------------------- MODULE Telemetry -----------------------------
(***************************************************************************)
(* POST /v1/telemetry/events and PostgresTelemetryRepository: one          *)
(* transaction reserves the day's and the network's capacity and inserts   *)
(* the batch.  A client that did not see an answer sends the batch again.  *)
(* The worker deletes what is older than RowLifetime.  The counted bytes   *)
(* of a request follow the same rules as its events and are left out.      *)
(***************************************************************************)
EXTENDS TelemetryContract, Integers, FiniteSets

CONSTANTS
  Requests,          \* POST requests, resent ones included
  TelemetryNetworks,
  BatchSizes,        \* events.length
  ClockSkews,        \* how far a process' clock may be off, in days
  EventLimit, NetworkEventLimit,   \* 100,000 and 2,048 events a day
  RowLifetime,       \* 90 days: rows and counters
  DeleteLimit,       \* 10,000 rows a sweep; here in batches
  MaxTelemetryTime   \* bound on the clock, in days

ASSUME TelemetryAssumption ==
  /\ ClockSkews \subseteq Int /\ 0 \in ClockSkews
  /\ BatchSizes \subseteq Nat \ {0} /\ {DeleteLimit, RowLifetime} \subseteq Nat \ {0}
  /\ {EventLimit, NetworkEventLimit, MaxTelemetryTime} \subseteq Nat
  /\ IsFiniteSet(Requests)

VARIABLES
  request,           \* the requests, their transaction and the rows they left
  eventDaily,        \* telemetry_daily_capacity: event_count by day
  eventNetworkDaily, \* telemetry_network_daily_capacity
  telemetryTime      \* now() of the database

eventCounters == <<eventDaily, eventNetworkDaily>>
telemetryVars == <<request, eventCounters, telemetryTime>>

TelemetryDays == 0 .. MaxTelemetryTime

InTransaction(r) == request[r].step = "Reserved"

HasRows(r) == request[r].step \in {"Stored", "Unanswered"} /\ request[r].rows

\* telemetry_reserve_capacity
Reservable(day, n, size) ==
  /\ eventDaily[day] + size <= EventLimit
  /\ eventNetworkDaily[day][n] + size <= NetworkEventLimit

-----------------------------------------------------------------------------
TelemetryInit ==
  /\ request = [r \in Requests |-> [step |-> "Idle"]]
  /\ eventDaily = [d \in TelemetryDays |-> 0]
  /\ eventNetworkDaily = [d \in TelemetryDays |-> [n \in TelemetryNetworks |-> 0]]
  /\ telemetryTime = 0

\* does the table take what the schema parses (the rest is answered 400)?
Parsed == {TableAccepts(event.kind, event.fields) : event \in Accepted}

\* the route parses the body and reads the clock
PostBatch(r, n, size, fits, skew) ==
  /\ request[r].step = "Idle"
  /\ request' = [request EXCEPT ![r] =
       [step |-> "Parsed", network |-> n, size |-> size, receivedAt |-> telemetryTime + skew,
        fits |-> fits]]
  /\ UNCHANGED <<eventCounters, telemetryTime>>

(***************************************************************************)
(* BEGIN and the reservation.  The day's row stays locked until the        *)
(* transaction ends, so that two transactions of a day exclude each other. *)
(***************************************************************************)
ReserveBatch(r) ==
  /\ request[r].step = "Parsed"
  /\ ~\E q \in Requests : InTransaction(q) /\ request[q].day = telemetryTime
  /\ request' = [request EXCEPT ![r] =
       IF Reservable(telemetryTime, request[r].network, request[r].size)
         THEN [step |-> "Reserved", day |-> telemetryTime, network |-> request[r].network,
               size |-> request[r].size, receivedAt |-> request[r].receivedAt,
               fits |-> request[r].fits]
         ELSE [step |-> "Refused"]]
  /\ UNCHANGED <<eventCounters, telemetryTime>>

CountedEvents(day, n, size) ==
  /\ eventDaily' = [eventDaily EXCEPT ![day] = @ + size]
  /\ eventNetworkDaily' = [eventNetworkDaily EXCEPT ![day][n] = @ + size]

\* the rows and the COMMIT; "Unanswered": the answer, or COMMIT's, is lost
StoreBatch(r, step) ==
  /\ InTransaction(r)
  /\ request[r].fits
  /\ request' = [request EXCEPT ![r] =
       [step |-> step, day |-> request[r].day, network |-> request[r].network,
        size |-> request[r].size, receivedAt |-> request[r].receivedAt, rows |-> TRUE]]
  /\ CountedEvents(request[r].day, request[r].network, request[r].size)
  /\ UNCHANGED telemetryTime

\* mutant: the reservation is a transaction of its own
KeepReservation(r) == CountedEvents(request[r].day, request[r].network, request[r].size)

DropReservation(r) == UNCHANGED eventCounters

\* the insert fails, on a CHECK or by a fault: ROLLBACK, answered 500
AbortBatch(r) ==
  /\ InTransaction(r)
  /\ request' = [request EXCEPT ![r] = [step |-> IF request[r].fits THEN "Failed" ELSE "Broken"]]
  /\ DropReservation(r)
  /\ UNCHANGED telemetryTime

\* LEAST(_cutoff, now() - 90 days)
Overdue(r, at) ==
  /\ HasRows(r)
  /\ request[r].receivedAt < at - RowLifetime
  /\ request[r].receivedAt < telemetryTime - RowLifetime

\* ORDER BY received_at LIMIT
Oldest(S) ==
  {B \in SUBSET S :
     /\ Cardinality(B) = IF Cardinality(S) < DeleteLimit THEN Cardinality(S) ELSE DeleteLimit
     /\ \A b \in B, c \in S \ B : request[b].receivedAt <= request[c].receivedAt}

\* telemetry_delete_before, called by the worker's loop
DeleteBatches(skew) ==
  /\ \E B \in Oldest({r \in Requests : Overdue(r, telemetryTime + skew)}) :
       request' = [r \in Requests |->
                     IF r \in B THEN [request[r] EXCEPT !.rows = FALSE] ELSE request[r]]
  /\ eventDaily' = [d \in TelemetryDays |->
                      IF d < telemetryTime - RowLifetime THEN 0 ELSE eventDaily[d]]
  /\ eventNetworkDaily' = [d \in TelemetryDays |->
       IF d < telemetryTime - RowLifetime THEN [n \in TelemetryNetworks |-> 0]
       ELSE eventNetworkDaily[d]]
  /\ UNCHANGED telemetryTime

TelemetryTick ==
  /\ telemetryTime < MaxTelemetryTime
  /\ telemetryTime' = telemetryTime + 1
  /\ UNCHANGED <<request, eventCounters>>

TelemetryNext ==
  \/ \E r \in Requests :
       \/ \E n \in TelemetryNetworks, size \in BatchSizes, fits \in Parsed,
             skew \in ClockSkews : PostBatch(r, n, size, fits, skew)
       \/ ReserveBatch(r)
       \/ \E step \in {"Stored", "Unanswered"} : StoreBatch(r, step)
       \/ AbortBatch(r)
  \/ \E skew \in ClockSkews : DeleteBatches(skew)
  \/ TelemetryTick

TelemetrySpec == TelemetryInit /\ [][TelemetryNext]_telemetryVars

TelemetryFairness == WF_telemetryVars(DeleteBatches(0))

-----------------------------------------------------------------------------
StoredOn(d) ==
  {r \in Requests : request[r].step \in {"Stored", "Unanswered"} /\ request[r].day = d}

\* the events of these batches, counted one by one
EventsOf(S) == Cardinality(UNION {{r} \X (1 .. request[r].size) : r \in S})

(***************************************************************************)
(* The counters of a day are exactly the events stored that day, in all    *)
(* and by network, and within their limits, whatever transaction failed.   *)
(***************************************************************************)
EventsCounted ==
  \A d \in TelemetryDays : d >= telemetryTime - RowLifetime =>
    /\ eventDaily[d] = EventsOf(StoredOn(d))
    /\ eventDaily[d] <= EventLimit
    /\ \A n \in TelemetryNetworks :
         /\ eventNetworkDaily[d][n] = EventsOf({r \in StoredOn(d) : request[r].network = n})
         /\ eventNetworkDaily[d][n] <= NetworkEventLimit

(***************************************************************************)
(* An event the contract accepts never breaks its whole batch in the       *)
(* database: contract and table agree on every kind.                       *)
(***************************************************************************)
AcceptedEventsFit == \A r \in Requests : request[r].step # "Broken"

(***************************************************************************)
(* No event is deleted within RowLifetime of its receipt by the database's *)
(* clock, however far ahead the worker's clock is.                         *)
(***************************************************************************)
RowsKeptForLifetime ==
  \A r \in Requests :
    request[r].step \in {"Stored", "Unanswered"} /\ ~request[r].rows =>
      request[r].receivedAt < telemetryTime - RowLifetime

(***************************************************************************)
(* Counters and table agree, what the contract accepts is stored, and what *)
(* is stored stays for its lifetime, through failed transactions, lost     *)
(* answers and wrong clocks.                                               *)
(***************************************************************************)
EventsAccounted == EventsCounted /\ AcceptedEventsFit /\ RowsKeptForLifetime

(***************************************************************************)
(* Every event older than RowLifetime is deleted in the end, a backlog of  *)
(* more than one sweep included.                                           *)
(***************************************************************************)
OldEventsLeave ==
  \A r \in Requests :
    (HasRows(r) /\ request[r].receivedAt < telemetryTime - RowLifetime) ~> ~HasRows(r)
=============================================================================
