----------------------------- MODULE CommandLog -----------------------------
(***************************************************************************)
(* What the control service promises to those who command it, without      *)
(* tables, transactions, locks, retries or copies of requests: an order is *)
(* carried out at most once, in one step, while it is under way, on the    *)
(* state as it is at that step, and at the place in the log it names if it *)
(* names one; and what a client is told of its order is true for as long   *)
(* as it may act on it.                                                    *)
(***************************************************************************)
EXTENDS Naturals, Sequences

CONSTANTS
  Clients,           \* who is told of its orders
  Start,             \* the state before any order
  Allowed(_, _),     \* whether a state admits a command
  Effect(_, _)       \* what a command makes of a state

VARIABLES
  state,
  log,               \* what was carried out, in order
  underway,          \* the orders that may still be carried out
  told               \* per client: its latest order, and what it knows of it

promise == <<state, log, underway, told>>

\* An order that names no place may be carried out at any.
Anywhere == 0
MayStandAt(order, i) == order.at \in {Anywhere, i}

Record(order) == [id |-> order.id, actor |-> order.actor, command |-> order.command]

StandsIn(l, order) == \E i \in DOMAIN l : l[i] = Record(order) /\ MayStandAt(order, i)

CarryOut(order) ==
  /\ MayStandAt(order, Len(log) + 1)
  /\ \A i \in DOMAIN log : log[i].id # order.id
  /\ Allowed(state, order.command)
  /\ state' = Effect(state, order.command)
  /\ log' = Append(log, Record(order))

\* A client orders when it waits for no answer.
Orders(c) == told[c].verdict # "sent" /\ told'[c].verdict = "sent"

IsAnswered(c) ==
  /\ told[c].verdict = "sent" /\ told'[c].verdict # "sent"
  /\ told'[c].order = told[c].order

\* An order of a client comes under way when it orders.
Comes(order) ==
  order.actor \in Clients =>
    Orders(order.actor) /\ told'[order.actor].order = order

\* "conflict": the client may decide anew
Truthful(c) ==
  /\ told'[c].verdict = "done" => StandsIn(log', told'[c].order)
  /\ told'[c].verdict = "conflict" => ~StandsIn(log', told'[c].order)

Init ==
  /\ state = Start /\ log = <<>> /\ underway = {}
  /\ \A c \in Clients : told[c].verdict = "none"

Next ==
  /\ UNCHANGED <<state, log>> \/ \E order \in underway : CarryOut(order)
  /\ \A order \in underway' \ underway : Comes(order)
  /\ \A c \in Clients : (told'[c] = told[c] \/ Orders(c) \/ IsAnswered(c)) /\ Truthful(c)

Spec == Init /\ [][Next]_promise
=============================================================================
