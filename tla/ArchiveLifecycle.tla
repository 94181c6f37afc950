-------------------------- MODULE ArchiveLifecycle --------------------------
(***************************************************************************)
(* What the service promises about every archive, without requests,        *)
(* workers, retries, leases or sessions: it is received, stored, made      *)
(* available once its bytes are the declared ones, discarded, and finally  *)
(* gone; and the bytes are never gone while it is on offer, nor left when  *)
(* it is gone.  Archives are independent: in one step any number of them   *)
(* take a step of their own.                                               *)
(***************************************************************************)
CONSTANT Archives

VARIABLES
  phase,     \* where each archive is in its life
  content    \* its bytes in the bucket

archives == <<phase, content>>

Phase == {"absent", "receiving", "stored", "available", "discarded", "gone"}
Content == {"none", "intact", "corrupt"}

Moves(a, from, to) == phase[a] \in from /\ phase'[a] = to /\ content'[a] = content[a]
Keeps(a) == phase'[a] = phase[a]

Announce(a) == Moves(a, {"absent"}, "receiving")

\* The bytes arrive in one piece, possibly after the upload was given up.
Arrive(a) ==
  /\ phase[a] \in {"receiving", "discarded"} /\ content[a] = "none" /\ Keeps(a)
  /\ content'[a] \in {"intact", "corrupt"}

Store(a) == content[a] # "none" /\ Moves(a, {"receiving"}, "stored")

Release(a) == content[a] = "intact" /\ Moves(a, {"stored"}, "available")

Discard(a) == Moves(a, {"receiving", "stored", "available"}, "discarded")

Erase(a) == phase[a] = "discarded" /\ Keeps(a) /\ content'[a] = "none"

Bury(a) == content[a] = "none" /\ Moves(a, {"discarded"}, "gone")

Step(a) == \/ Announce(a) \/ Arrive(a) \/ Store(a) \/ Release(a)
           \/ Discard(a) \/ Erase(a) \/ Bury(a)
           \/ Keeps(a) /\ content'[a] = content[a]

Init ==
  /\ phase \in [Archives -> {"absent", "stored"}]
  /\ content \in [Archives -> Content]
  /\ \A a \in Archives : (content[a] = "none") = (phase[a] = "absent")

Next ==
  /\ phase' \in [Archives -> Phase] /\ content' \in [Archives -> Content]
  /\ \A a \in Archives : Step(a)

Spec == Init /\ [][Next]_archives
=============================================================================
