----------------------------- MODULE MCServices -----------------------------
(***************************************************************************)
(* The components that share nothing but the process they run in, checked  *)
(* together: a behaviour is one of the component "part".  Their states do  *)
(* not multiply, and what a component does cannot depend on the others,    *)
(* which it neither reads nor writes.                                      *)
(***************************************************************************)
EXTENDS Readiness, Admission, Shares, Telemetry, ApiKeys, Sessions, Console

CONSTANTS
  Parts,                                          \* the components this instance exercises
  admin, script, worker1, k1, k2, good, other,    \* Readiness
  i1, i2, n1, n2,                                 \* Admission
  p1, p2, a1, a2, b1, b2, manage, read        \* the others, which use the same values

VARIABLE part

everything == <<readinessVars, admissionVars, sharesVars, telemetryVars, keysVars, authVars, consoleVars, part>>

ServicesInit ==
  /\ part \in Parts
  /\ ReadinessInit /\ AdmissionInit /\ SharesInit /\ TelemetryInit /\ KeysInit /\ AuthInit /\ ConsoleInit
  /\ part # "admission" => Existing = {}

ServicesNext ==
  /\ UNCHANGED part
  /\ \/ /\ part = "readiness" /\ ReadinessNext
        /\ UNCHANGED <<admissionVars, sharesVars, telemetryVars, keysVars, authVars, consoleVars>>
     \/ /\ part = "admission" /\ AdmissionNext
        /\ UNCHANGED <<readinessVars, sharesVars, telemetryVars, keysVars, authVars, consoleVars>>
     \/ /\ part = "shares" /\ SharesNext
        /\ UNCHANGED <<readinessVars, admissionVars, telemetryVars, keysVars, authVars, consoleVars>>
     \/ /\ part = "telemetry" /\ TelemetryNext
        /\ UNCHANGED <<readinessVars, admissionVars, sharesVars, keysVars, authVars, consoleVars>>
     \/ /\ part = "keys" /\ KeysNext
        /\ UNCHANGED <<readinessVars, admissionVars, sharesVars, telemetryVars, authVars, consoleVars>>
     \/ /\ part = "sessions" /\ AuthNext
        /\ UNCHANGED <<readinessVars, admissionVars, sharesVars, telemetryVars, keysVars, consoleVars>>
     \/ /\ part = "console" /\ ConsoleNext
        /\ UNCHANGED <<readinessVars, admissionVars, sharesVars, telemetryVars, keysVars, authVars>>

-----------------------------------------------------------------------------
(* Readiness: one room for codes, one kind of request *)
OneRequest == {[Blank EXCEPT !.type = "code.add", !.key = k1, !.until = 1]}

(* Admission: limits of a few archives, and four histories before *)
SmallQuota ==
  [installDailyUploads |-> 2, networkDailyUploads |-> 3, globalDailyUploads |-> 4,
   installActiveUploads |-> 1, networkActiveUploads |-> 2, globalActiveUploads |-> 2,
   installDailyBytes |-> 4, networkDailyBytes |-> 5, globalDailyBytes |-> 6,
   globalRetainedBytes |-> 5]

Was(phase, i, s, t) ==
  [phase |-> phase, released |-> FALSE, restored |-> FALSE, install |-> i, network |-> n1,
   size |-> s, created |-> t]

Histories ==
  {[a \in Earlier |-> NoArchive],
   <<Was("Stored", i1, 1, -2), Was("Stored", i1, 1, -1), Was("Stored", i2, 2, -2)>>,
   <<Was("Verifying", i1, 2, -2), Was("Stored", i1, 1, -1), Was("Stored", i2, 1, 0)>>,
   <<Was("Stored", i1, 2, -2), Was("Gone", i2, 1, -1), Was("Discarded", i1, 2, 0)>>}

(* Shares and Telemetry: clocks that agree, or are a tick behind or ahead *)
AnySkew == {-1, 0, 1}
SmallSkew == {0, 1}

ServicesSpec == ServicesInit /\ [][ServicesNext]_everything
=============================================================================
