------------------------------- MODULE Shares -------------------------------
(***************************************************************************)
(* Configuration shares: POST /v1/shares and /v1/shares/resolve, the       *)
(* PostgreSQL functions of migration 007 they call, and the worker's       *)
(* deletion of expired shares.                                             *)
(*                                                                         *)
(* A process reads its own clock first and calls the database later.  The  *)
(* database's clock is shareTime; a process' clock is off by a member of   *)
(* Skews.  One tick is a UTC day.  The minute by which created_at may be   *)
(* ahead is less than a tick.                                              *)
(***************************************************************************)
EXTENDS Integers, FiniteSets

CONSTANTS
  Codes,           \* what randomInt may draw
  Sharers,         \* POST requests
  ShareNetworks,
  Skews,           \* how far a process' clock may be off, in ticks
  ShareLifetime,   \* 30 days
  CounterLifetime, \* 31 days
  ShareLimit, NetworkShareLimit,   \* 1000 and 20 shares a day
  CodeAttempts,    \* 8
  SweepLimit,      \* 1000 rows a sweep
  MaxShareTime     \* bound on the clock

ASSUME SharesAssumption ==
  /\ Skews \subseteq Int /\ 0 \in Skews
  /\ {ShareLifetime, SweepLimit, CodeAttempts} \subseteq Nat \ {0}
  /\ CounterLifetime \in Nat /\ CounterLifetime > ShareLifetime
  /\ {ShareLimit, NetworkShareLimit, MaxShareTime} \subseteq Nat
  /\ IsFiniteSet(Sharers)

VARIABLES
  shares,        \* shared_configurations by code
  daily,         \* configuration_share_daily_capacity: share_count by day
  networkDaily,  \* configuration_share_network_daily_capacity
  sharer,        \* the POST requests; "day" when a request made a share
  resolver,      \* one resolve request; "age" of the share it found
  shareTime      \* now() of the database

shareTables == <<shares, daily, networkDaily>>
sharesVars == <<shares, daily, networkDaily, sharer, resolver, shareTime>>

Days == 0 .. MaxShareTime
NoDay == -1
NoShare == [of |-> "none"]
Stands(code) == shares[code] # NoShare

-----------------------------------------------------------------------------
\* INSERT .. ON CONFLICT DO UPDATE .. WHERE, for the day and for the network
HasDailyRoom(day) == daily[day] + 1 <= ShareLimit
HasNetworkRoom(day, n) == networkDaily[day][n] + 1 <= NetworkShareLimit
Reserved(day, n) == HasDailyRoom(day) /\ HasNetworkRoom(day, n)

\* mutant: a share refused for its network stays counted for the day
DailyUncompensated(day, n) == IF HasDailyRoom(day) THEN daily[day] + 1 ELSE daily[day]

\* the day is counted first; the last UPDATE takes it back
DailyAfter(day, n) ==
  LET counted == IF HasDailyRoom(day) THEN daily[day] + 1 ELSE daily[day]
  IN IF HasDailyRoom(day) /\ ~HasNetworkRoom(day, n) THEN counted - 1 ELSE counted

\* configuration_share_reserve_capacity
Reserve(day, n) ==
  /\ daily' = [daily EXCEPT ![day] = DailyAfter(day, n)]
  /\ networkDaily' = [networkDaily EXCEPT ![day][n] = IF Reserved(day, n) THEN @ + 1 ELSE @]

Collides(code) == Stands(code)

\* the checks of configuration_share_create that compare the two clocks
Invalid(r) ==
  \/ sharer[r].at > shareTime
  \/ sharer[r].at + ShareLifetime <= shareTime

-----------------------------------------------------------------------------
SharesInit ==
  /\ shares = [c \in Codes |-> NoShare]
  /\ daily = [d \in Days |-> 0]
  /\ networkDaily = [d \in Days |-> [n \in ShareNetworks |-> 0]]
  /\ sharer = [r \in Sharers |-> [step |-> "Idle"]]
  /\ resolver = [step |-> "Idle"]
  /\ shareTime = 0

\* the route reads the clock and the network
PostShare(r, n, skew) ==
  /\ sharer[r].step = "Idle"
  /\ sharer' = [sharer EXCEPT ![r] = [step |-> "Calling", network |-> n, day |-> NoDay,
                                      at |-> shareTime + skew, attempts |-> 0]]
  /\ UNCHANGED <<shareTables, resolver, shareTime>>

Calling(r) == sharer[r].step = "Calling" /\ UNCHANGED <<resolver, shareTime>>

\* nothing was stored
EndShare(r, step) == sharer' = [sharer EXCEPT ![r] = [step |-> step, day |-> NoDay]]

ShareInvalid(r) ==
  /\ Calling(r)
  /\ Invalid(r)
  /\ EndShare(r, "Failed")
  /\ UNCHANGED shareTables

ShareCollides(r, code) ==
  /\ Calling(r)
  /\ ~Invalid(r)
  /\ Collides(code)
  /\ IF sharer[r].attempts + 1 = CodeAttempts
       THEN EndShare(r, "Failed")
       ELSE sharer' = [sharer EXCEPT ![r].attempts = @ + 1]
  /\ UNCHANGED shareTables

ShareRefused(r, code) ==
  /\ Calling(r)
  /\ ~Invalid(r)
  /\ ~Collides(code)
  /\ ~Reserved(shareTime, sharer[r].network)
  /\ Reserve(shareTime, sharer[r].network)
  /\ EndShare(r, "Refused")
  /\ UNCHANGED shares

\* told: the answer reached the client; otherwise nobody learns the code
ShareCreated(r, code, told) ==
  /\ Calling(r)
  /\ ~Invalid(r)
  /\ ~Collides(code)
  /\ Reserved(shareTime, sharer[r].network)
  /\ Reserve(shareTime, sharer[r].network)
  /\ LET expires == sharer[r].at + ShareLifetime
     IN /\ shares' = [shares EXCEPT ![code] =
                        [of |-> r, day |-> shareTime, expires |-> expires]]
        /\ sharer' = [sharer EXCEPT ![r] =
                        [step |-> IF told THEN "Created" ELSE "Failed", day |-> shareTime,
                         network |-> sharer[r].network, code |-> code, expires |-> expires]]

PostResolve(code, skew) ==
  /\ resolver.step = "Idle"
  /\ resolver' = [step |-> "Calling", code |-> code, at |-> shareTime + skew]
  /\ UNCHANGED <<shareTables, sharer, shareTime>>

Later(a, b) == IF a < b THEN b ELSE a
Lesser(a, b) == IF a < b THEN a ELSE b

\* mutant: the API's clock alone decides
FoundByCaller(code, at) == Stands(code) /\ shares[code].expires > at

\* configuration_share_find
FoundAt(code, at) == Stands(code) /\ shares[code].expires > Later(at, shareTime)

FindShare ==
  /\ resolver.step = "Calling"
  /\ resolver' = IF FoundAt(resolver.code, resolver.at)
                   THEN [step |-> "Found", age |-> shareTime - shares[resolver.code].day]
                   ELSE [step |-> "Unknown"]
  /\ UNCHANGED <<shareTables, sharer, shareTime>>

Swept(code, at) == Stands(code) /\ shares[code].expires <= Lesser(at, shareTime)

\* mutant: a backlog of more than one sweep is not touched
BatchesWhole(S) == IF Cardinality(S) <= SweepLimit THEN {S} ELSE {{}}

\* one sweep: the oldest SweepLimit of the expired shares, and the counters
Batches(S) ==
  {B \in SUBSET S :
     /\ Cardinality(B) = Lesser(SweepLimit, Cardinality(S))
     /\ \A b \in B, c \in S \ B : shares[b].expires <= shares[c].expires}

KeptDay(day) == day >= shareTime - CounterLifetime

\* configuration_share_delete_expired, called by the worker's loop
SweepShares(skew) ==
  /\ \E batch \in Batches({c \in Codes : Swept(c, shareTime + skew)}) :
       shares' = [c \in Codes |-> IF c \in batch THEN NoShare ELSE shares[c]]
  /\ daily' = [d \in Days |-> IF KeptDay(d) THEN daily[d] ELSE 0]
  /\ networkDaily' = [d \in Days |-> IF KeptDay(d) THEN networkDaily[d]
                                     ELSE [n \in ShareNetworks |-> 0]]
  /\ UNCHANGED <<sharer, resolver, shareTime>>

ShareTick ==
  /\ shareTime < MaxShareTime
  /\ shareTime' = shareTime + 1
  /\ UNCHANGED <<shareTables, sharer, resolver>>

SharesNext ==
  \/ \E r \in Sharers :
       \/ \E n \in ShareNetworks, skew \in Skews : PostShare(r, n, skew)
       \/ ShareInvalid(r)
       \/ \E code \in Codes :
            \/ ShareCollides(r, code)
            \/ ShareRefused(r, code)
            \/ \E told \in BOOLEAN : ShareCreated(r, code, told)
  \/ \E code \in Codes, skew \in Skews : PostResolve(code, skew)
  \/ FindShare
  \/ \E skew \in Skews : SweepShares(skew)
  \/ ShareTick

\* the worker's loop comes back, and its clock is right again and again
SharesFairness == WF_sharesVars(SweepShares(0))

SharesSpec == SharesInit /\ [][SharesNext]_sharesVars

-----------------------------------------------------------------------------
MadeOn(d) == {r \in Sharers : sharer[r].step # "Idle" /\ sharer[r].day = d}

(***************************************************************************)
(* The counters of a day are exactly the shares made that day, in all and  *)
(* by network, and within their limits: no refusal, collision, lost answer *)
(* or deletion leaves them off, so the limits hold for the shares.         *)
(***************************************************************************)
SharesCounted ==
  \A d \in Days : d >= shareTime - CounterLifetime =>
    /\ daily[d] = Cardinality(MadeOn(d))
    /\ daily[d] <= ShareLimit
    /\ \A n \in ShareNetworks :
         /\ networkDaily[d][n] = Cardinality({r \in MadeOn(d) : sharer[r].network = n})
         /\ networkDaily[d][n] <= NetworkShareLimit

(***************************************************************************)
(* A code a client was given stands for that client's configuration until  *)
(* it expires, whatever the codes drawn later and however wrong the        *)
(* worker's clock.                                                         *)
(***************************************************************************)
CodeKept ==
  \A r \in Sharers :
    sharer[r].step = "Created" /\ sharer[r].expires > shareTime =>
      shares[sharer[r].code].of = r

(***************************************************************************)
(* A share is answered less than ShareLifetime after it was made, by the   *)
(* database's clock, however wrong the API's clock was then and is now.    *)
(***************************************************************************)
FoundWithinLifetime ==
  resolver.step = "Found" => resolver.age < ShareLifetime

(***************************************************************************)
(* A code leads to the configuration it was given for, for as long as it   *)
(* was promised and no longer, whichever host's clock is wrong.            *)
(***************************************************************************)
CodeStandsForLifetime == CodeKept /\ FoundWithinLifetime

(***************************************************************************)
(* Every expired share is deleted in the end, more of them than one sweep  *)
(* takes included.                                                         *)
(***************************************************************************)
ExpiredSharesLeave ==
  \A c \in Codes :
    (Stands(c) /\ shares[c].expires <= shareTime) ~> ~Stands(c)
=============================================================================
