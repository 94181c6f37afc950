--------------------------- MODULE MCControlPlane ---------------------------
EXTENDS ControlPlane, TLC

CONSTANTS admin, script, worker1, k1, k2, good, other

AddCode(key, until) == [Blank EXCEPT !.type = "code.add", !.key = key, !.until = until]

AdminSymmetry == Permutations({admin, script})

\* codes with and without an expiry; one room only
CodeRequests == {AddCode(k1, 1), AddCode(k2, Never)}

EveryRequest ==
  {AddCode(k1, 1), [Blank EXCEPT !.type = "code.remove", !.key = k1],
   [Blank EXCEPT !.type = "feature.disable", !.key = k1, !.until = 1],
   [Blank EXCEPT !.type = "feature.enable", !.key = k1],
   [Blank EXCEPT !.type = "schedule.set", !.key = k1, !.until = 1],
   [Blank EXCEPT !.type = "game.availability", !.on = FALSE]}

OneRequest == {AddCode(k1, 1)}
NoRequests == {}

Release(version, assets) == [version |-> version, assets |-> assets]

AnySource == {Release(1, good), Release(2, good), Release(2, other), None}
GoodSource == {Release(1, good), None}
=============================================================================
