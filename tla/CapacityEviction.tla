-------------------------- MODULE CapacityEviction --------------------------
(***************************************************************************)
(* selectCapacityEvictions of domain/diagnostic-capacity.ts.  An archive   *)
(* is [id, install, size, created, evictable]; identifiers are integers,   *)
(* which gives them the order compareOldest needs.  Admission runs the     *)
(* loop, one step for each archive it gives up.                            *)
(***************************************************************************)
EXTENDS Integers, FiniteSets

\* the sum of the sizes, as the number of all bytes: <<archive, 1>>, <<archive, 2>> ...
BytesIn(archives) == UNION {{a.id} \X (1 .. a.size) : a \in archives}

Bytes(archives) == Cardinality(BytesIn(archives))

Older(a, b) == a.created < b.created \/ (a.created = b.created /\ a.id < b.id)

HeldBy(install, archives) == Cardinality({a \in archives : a.install = install})

\* mutant: the install's count is not read, the oldest archive goes
PrecedesByAge(a, b, archives) == Older(a, b)

\* counts includes the archives that cannot be evicted, and follows each choice
Precedes(a, b, archives) ==
  LET more == HeldBy(a.install, archives) - HeldBy(b.install, archives)
  IN more > 0 \/ (more = 0 /\ Older(a, b))

\* the head of the chosen install's queue: at most one archive
Candidates(archives) ==
  LET evictable == {a \in archives : a.evictable}
  IN {a \in evictable : \A b \in evictable : a = b \/ Precedes(a, b, archives)}

\* mutant: it must leave a byte free
FitsBelow(archives, incoming, maximum) == Bytes(archives) + incoming < maximum

Fits(archives, incoming, maximum) == Bytes(archives) + incoming <= maximum
=============================================================================
