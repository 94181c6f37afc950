--------------------------- MODULE ArchivePhases ---------------------------
(***************************************************************************)
(* What insertWithinQuota tells apart in the life of an archive: the       *)
(* statuses, as far as its two queries read them, whether the archive's    *)
(* capacity is released, and what the statements of                        *)
(* PostgresDiagnosticRepository may make of both.                          *)
(*   Receiving  Uploading, Completing           active                     *)
(*   Queued     Pending with a deadline         active, evictable          *)
(*   Stored     Pending without one, Accepted   evictable                  *)
(*   Verifying  Verifying, VerifyingActive      active                     *)
(*   Discarded  Failed, Expired                 evictable                  *)
(*   Deleting   Deleting                        active                     *)
(*   Gone       Deleted, Invalid                                           *)
(***************************************************************************)
ActivePhases == {"Receiving", "Queued", "Verifying", "Deleting"}
Evictable == {"Queued", "Stored", "Discarded"}

(***************************************************************************)
(* Where an archive goes on to, its capacity staying as it is.  Until it is *)
(* being deleted it may be discarded at any time: its upload expires or    *)
(* fails, its verification is given up, an administrator deletes it.       *)
(***************************************************************************)
Successors(phase) ==
  CASE phase = "Receiving" -> {"Queued", "Stored", "Discarded", "Deleting"}
    [] phase \in {"Queued", "Stored"} -> {"Verifying", "Discarded", "Deleting"}
    [] phase = "Verifying" -> {"Queued", "Stored", "Discarded", "Deleting"}
    [] phase = "Discarded" -> {"Deleting"}
    [] phase = "Deleting" -> {"Gone"}
    [] OTHER -> {}

(***************************************************************************)
(* All that may become of an archive: it goes on, it is evicted for an     *)
(* incoming one, its deletion fails and its capacity is counted again, or  *)
(* it is inserted.                                                         *)
(***************************************************************************)
MayBecome(from, to) ==
  \/ to.phase \in Successors(from.phase) /\ to.released = from.released
  \/ /\ from.phase \in Evictable /\ ~from.released
     /\ to = [phase |-> "Discarded", released |-> TRUE]
  \/ from.phase = "Deleting" /\ to = [phase |-> "Discarded", released |-> FALSE]
  \/ from.phase = "Absent" /\ to = [phase |-> "Receiving", released |-> FALSE]
=============================================================================
