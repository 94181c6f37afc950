------------------------------ MODULE Console ------------------------------
(***************************************************************************)
(* Commands of the control desk in the browser (public/admin.js): a page   *)
(* sends a command with the revision it has loaded and loads the state     *)
(* again after a success only.  Answers are lost, requests arrive late, a  *)
(* page is reloaded while one is under way, and the administrator sends    *)
(* again what the page does not show as done.  The server is what the page *)
(* relies on: a command for another than the current revision is refused.  *)
(***************************************************************************)
EXTENDS Integers, Sequences, FiniteSets

CONSTANTS
  Pages,        \* open pages
  Intents,      \* the changes each administrator wants, once each
  MaxRevision,  \* bound on the server's revision
  MaxLosses,    \* bound on lost answers and failing requests
  MaxReloads    \* bound on reloads

VARIABLES
  desk,     \* the server: the commands carried out, in order; their number is the revision
  wire,     \* requests that have not arrived
  page,     \* the pages: "view" is the revision of "state", "seen" the changes it shows
  mishaps   \* losses and reloads so far

consoleVars == <<desk, wire, page, mishaps>>

NoState == -1
Opened(n) == [view |-> NoState, seen |-> {}, pending |-> "no", opening |-> n]
Revision == Len(desk)
Carried(p) == {n \in Intents : \E m \in 1 .. Len(desk) : desk[m] = <<p, n>>}

ConsoleInit ==
  /\ desk = <<>>
  /\ wire = {}
  /\ page = [p \in Pages |-> Opened(0)]
  /\ mishaps = [losses |-> 0, reloads |-> 0]

Loses == mishaps.losses < MaxLosses /\ mishaps' = [mishaps EXCEPT !.losses = @ + 1]

Loaded(p) ==
  [page EXCEPT ![p].view = Revision, ![p].seen = Carried(p), ![p].pending = "no"]

\* the first loadState of a page; if it fails, commands only show an error
Open(p) ==
  /\ page[p].view = NoState
  /\ page' = Loaded(p)
  /\ UNCHANGED <<desk, wire, mishaps>>

\* command(): not while one is pending; a new commandId each time
SendCommand(p, intent) ==
  /\ page[p].pending = "no" /\ page[p].view # NoState
  /\ intent \notin page[p].seen
  /\ page' = [page EXCEPT ![p].pending = "sent"]
  /\ wire' = wire \cup {[from |-> p, opening |-> page[p].opening, intent |-> intent,
                       expected |-> page[p].view]}
  /\ UNCHANGED <<desk, mishaps>>

\* a page opened anew does not hear of what was sent before
AnswerTo(request, outcome) ==
  page' = IF page[request.from].opening = request.opening
            THEN [page EXCEPT ![request.from].pending = outcome] ELSE page

\* POST /admin/api/commands, of a page that may have been reloaded since
Carry(request) ==
  /\ request \in wire /\ wire' = wire \ {request}
  /\ request.expected = Revision /\ Revision < MaxRevision
  /\ desk' = Append(desk, <<request.from, request.intent>>)
  /\ \/ AnswerTo(request, "ok") /\ UNCHANGED mishaps
     \/ Loses /\ AnswerTo(request, "failed")

RefuseCommand(request) ==
  /\ request \in wire /\ wire' = wire \ {request}
  /\ \/ request.expected # Revision /\ UNCHANGED mishaps
     \/ Loses
  /\ AnswerTo(request, "failed")
  /\ UNCHANGED desk

\* mutant: the error handler takes the newest revision and not the changes
ViewAfterErrorNewest(p) == Revision

ViewAfterError(p) == page[p].view

\* the catch of command(): a notice; state stays as it was loaded
ShowError(p) ==
  /\ page[p].pending = "failed"
  /\ page' = [page EXCEPT ![p].pending = "no", ![p].view = ViewAfterError(p)]
  /\ UNCHANGED <<desk, wire, mishaps>>

\* loadState after a success; when it fails, the catch as well
LoadAfter(p) ==
  /\ page[p].pending = "ok"
  /\ \/ page' = Loaded(p) /\ UNCHANGED mishaps
     \/ Loses /\ page' = [page EXCEPT ![p].pending = "failed"]
  /\ UNCHANGED <<desk, wire>>

Reload(p) ==
  /\ mishaps.reloads < MaxReloads /\ mishaps' = [mishaps EXCEPT !.reloads = @ + 1]
  /\ page' = [page EXCEPT ![p] = Opened(mishaps.reloads + 1)]
  /\ UNCHANGED <<desk, wire>>

ConsoleNext ==
  \/ \E p \in Pages :
       \/ Open(p) \/ ShowError(p) \/ LoadAfter(p) \/ Reload(p)
       \/ \E intent \in Intents : SendCommand(p, intent)
  \/ \E request \in wire : Carry(request) \/ RefuseCommand(request)

ConsoleSpec == ConsoleInit /\ [][ConsoleNext]_consoleVars

-----------------------------------------------------------------------------
(***************************************************************************)
(* A change an administrator wants is made once, even if the answer was    *)
(* lost and it is sent again, with the page reloaded or not: the page's    *)
(* old revision refuses it.  (The new commandId would not.)                *)
(***************************************************************************)
ChangeMadeOnce == \A m, n \in 1 .. Len(desk) : desk[m] = desk[n] => m = n
=============================================================================
