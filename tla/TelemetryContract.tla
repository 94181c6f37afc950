------------------------- MODULE TelemetryContract -------------------------
(***************************************************************************)
(* Which fields each kind of telemetry event carries: the strict schemas   *)
(* of contracts/telemetry.ts, and the row CHECK of migration 010.  A field *)
(* an event lacks is stored as NULL.                                       *)
(***************************************************************************)

Named == {"feature", "outcome"}
Setup == {"setupStage", "requestedDevice", "pythonLauncherPresent", "wingetPresent",
          "existingOcrPythonPresent", "runtimeMarkerPresent"}
Instance == {"operation", "configurationMode", "runnerCount"}
Calibration == {"displayWidth", "displayHeight", "inputScaleMilli", "renderedScaleMilli"}
Timed == {"durationMilliseconds"}
Hosted == {"operatingSystem"}

EventKinds == {"session-started", "feature-used", "operation-error",
               "expedition-reward-observed", "ocr-timing", "ocr-setup-failure",
               "local-instance-failure", "ui-scale-calibration"}

EventFields == Named \cup Setup \cup Instance \cup Calibration \cup Timed \cup Hosted \cup
  {"logicalProcessorCount", "graphicsCapability", "material", "quantity",
   "processExitCode", "failureCode", "hardwareModel"}

\* the z.object of each kind: what must be there
Required(kind) == Named \cup
  CASE kind = "session-started" ->
         Hosted \cup {"logicalProcessorCount", "graphicsCapability"}
    [] kind = "expedition-reward-observed" -> {"material", "quantity"}
    [] kind = "ocr-timing" -> Timed \cup {"graphicsCapability"}
    [] kind = "ocr-setup-failure" -> Timed \cup Hosted \cup Setup
    [] kind = "local-instance-failure" -> Timed \cup Hosted \cup Instance \cup {"failureCode"}
    [] kind = "ui-scale-calibration" -> Calibration
    [] OTHER -> {}

\* .optional()
Optional(kind) ==
  CASE kind = "ocr-timing" -> {"hardwareModel"}
    [] kind \in {"ocr-setup-failure", "local-instance-failure"} -> {"processExitCode"}
    [] OTHER -> {}

ContractAccepts(kind, fields) ==
  Required(kind) \subseteq fields /\ fields \subseteq Required(kind) \cup Optional(kind)

\* telemetry_events_kind_fields_check: IS NOT NULL
NotNull(kind) ==
  CASE kind = "session-started" -> {"logicalProcessorCount"}
    [] kind = "expedition-reward-observed" -> {"quantity"}
    [] kind = "ocr-timing" -> Timed
    [] kind = "ocr-setup-failure" -> Timed \cup Setup
    [] kind = "local-instance-failure" -> Timed \cup Instance
    [] kind = "ui-scale-calibration" -> Calibration
    [] OTHER -> {}

\* compared with values only, or not mentioned: NULL makes no CHECK false
Nullable(kind) == Named \cup
  CASE kind = "session-started" -> Hosted \cup {"graphicsCapability"}
    [] kind = "expedition-reward-observed" -> {"material"}
    [] kind = "ocr-timing" -> {"graphicsCapability", "hardwareModel"}
    [] kind = "ocr-setup-failure" -> Hosted \cup {"processExitCode"}
    [] kind = "local-instance-failure" -> Hosted \cup {"failureCode", "processExitCode"}
    [] OTHER -> {}

TableAccepts(kind, fields) ==
  NotNull(kind) \subseteq fields /\ fields \subseteq NotNull(kind) \cup Nullable(kind)

\* what a client may send: what the contract asks for, with one more or less
Sendable(kind) ==
  {Required(kind) \cup more : more \in SUBSET Optional(kind)}
    \cup {Required(kind) \cup {f} : f \in EventFields}
    \cup {Required(kind) \ {f} : f \in Required(kind)}

Accepted == UNION {{[kind |-> kind, fields |-> fields] :
                      fields \in {f \in Sendable(kind) : ContractAccepts(kind, f)}} :
                   kind \in EventKinds}
=============================================================================
