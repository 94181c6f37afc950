----------------------------- MODULE StorageKeys -----------------------------
(***************************************************************************)
(* provision:backblaze-keys: the lifecycle rule of the bucket, then, for   *)
(* the API and for the worker, a key at the provider and its two secrets   *)
(* in Doppler, with a compensation when the secrets cannot be stored.  A   *)
(* run sees the secrets as they were when it was started.  A request may   *)
(* be refused, or take effect and lose its answer; the run may be killed.  *)
(***************************************************************************)
EXTENDS Integers, FiniteSets, Sequences

CONSTANTS
  StorageKeyIds,    \* identifiers the provider draws
  OthersRules,      \* lifecycle rules of others on the bucket
  MaxKeyFaults      \* bound on failures and kills

ASSUME StorageKeysAssumption ==
  /\ IsFiniteSet(StorageKeyIds) /\ {"nobody", "absent"} \cap StorageKeyIds = {}
  /\ MaxKeyFaults \in Nat

VARIABLES
  stored,        \* keys at the provider: plan of each, or Nobody
  doppler,       \* the two secrets of each plan
  lifecycle,     \* rules on the bucket
  provision,     \* the run: step, plan, environment, the key it created
  provisionFaults

storageKeysVars == <<stored, doppler, lifecycle, provision, provisionFaults>>

Plans == <<"api", "worker">>
PlanNames == {"api", "worker"}
Nobody == "nobody"
Absent == "absent"
Retention == "lilacmacro-diagnostics-retention-v1"
Secrets(p) == doppler[p]

StorageKeysInit ==
  /\ stored = [k \in StorageKeyIds |-> Nobody]
  /\ doppler = [p \in PlanNames |-> [id |-> Absent, key |-> Absent]]
  /\ lifecycle \in {OthersRules, OthersRules \cup {Retention}}
  /\ provision = [step |-> "Stopped"]
  /\ provisionFaults = 0

ProvisionFault == provisionFaults < MaxKeyFaults /\ provisionFaults' = provisionFaults + 1
NoFault == UNCHANGED provisionFaults
Stop == provision' = [step |-> "Stopped"]

\* the environment of a started process; authorize and assertPrivateBucket
StartProvision ==
  /\ provision.step = "Stopped"
  /\ provision' = [step |-> "Lifecycle", env |-> doppler]
  /\ UNCHANGED <<stored, doppler, lifecycle, provisionFaults>>

RulesWith(rules) == (rules \ {Retention}) \cup {Retention}

\* GetBucketLifecycleConfiguration, Put, and Get to verify
ConfigureLifecycle ==
  /\ provision.step = "Lifecycle"
  /\ \/ /\ lifecycle' = RulesWith(lifecycle) /\ NoFault
        /\ provision' = [step |-> "Plan", env |-> provision.env, number |-> 1]
     \/ lifecycle' \in {lifecycle, RulesWith(lifecycle)} /\ ProvisionFault /\ Stop
  /\ UNCHANGED <<stored, doppler>>

Current == Plans[provision.number]
InEnvironment(secret) == provision.env[Current][secret] # Absent

NextPlan ==
  provision' = IF provision.number = Len(Plans) THEN [step |-> "Done"]
               ELSE [step |-> "Plan", env |-> provision.env, number |-> provision.number + 1]

Configured == InEnvironment("id") /\ InEnvironment("key")

\* a configured plan is passed over; half of one ends the run; else b2_create_key
CreateStorageKey ==
  /\ provision.step = "Plan"
  /\ \/ Configured /\ NextPlan /\ NoFault /\ UNCHANGED stored
     \/ /\ ~Configured
        /\ InEnvironment("id") # InEnvironment("key")
        /\ provision' = [step |-> "Refused"] /\ NoFault /\ UNCHANGED stored
     \/ /\ ~Configured
        /\ InEnvironment("id") = InEnvironment("key")
        /\ \E k \in StorageKeyIds :
             /\ stored[k] = Nobody
             /\ \/ /\ stored' = [stored EXCEPT ![k] = Current] /\ NoFault
                   /\ provision' = [step |-> "StoreId", env |-> provision.env,
                                    number |-> provision.number, created |-> k]
                \/ /\ stored' \in {stored, [stored EXCEPT ![k] = Current]}
                   /\ ProvisionFault /\ Stop
  /\ UNCHANGED <<doppler, lifecycle>>

\* storeDopplerSecret of the identifier, then of the key
StoreSecret(step, secret, next) ==
  LET after == [doppler EXCEPT ![Current][secret] = provision.created]
  IN /\ provision.step = step
     /\ \/ /\ doppler' = after /\ NoFault
           /\ IF next = "Plan" THEN NextPlan ELSE provision' = [provision EXCEPT !.step = next]
        \/ /\ doppler' \in {doppler, after} /\ ProvisionFault
           /\ provision' = [step |-> "Compensate", env |-> provision.env, todo |-> {"key", "secrets"},
                            number |-> provision.number, created |-> provision.created]
     /\ UNCHANGED <<stored, lifecycle>>

StoreSecrets == StoreSecret("StoreId", "id", "StoreKey") \/ StoreSecret("StoreKey", "key", "Plan")

\* mutant: the secrets are left where they are
SecretsAfterFailureKept == doppler

SecretsAfterFailure == [doppler EXCEPT ![Current] = [id |-> Absent, key |-> Absent]]

\* Promise.allSettled of deleteKey and deleteDopplerSecrets, in either order; then the run throws
Compensate(what) ==
  LET without == [stored EXCEPT ![provision.created] = Nobody]
      left == provision.todo \ {what}
  IN /\ provision.step = "Compensate" /\ what \in provision.todo
     /\ \/ what = "key" /\ stored' = without /\ UNCHANGED doppler /\ NoFault
        \/ what = "secrets" /\ doppler' = SecretsAfterFailure /\ UNCHANGED stored /\ NoFault
        \/ what = "key" /\ stored' \in {stored, without} /\ UNCHANGED doppler /\ ProvisionFault
        \/ what = "secrets" /\ doppler' \in {doppler, SecretsAfterFailure}
             /\ UNCHANGED stored /\ ProvisionFault
     /\ IF left = {} THEN Stop ELSE provision' = [provision EXCEPT !.todo = left]
     /\ UNCHANGED lifecycle

KillProvision ==
  /\ provision.step \notin {"Stopped", "Done", "Refused"}
  /\ ProvisionFault /\ Stop
  /\ UNCHANGED <<stored, doppler, lifecycle>>

StorageKeysNext ==
  \/ StartProvision \/ ConfigureLifecycle \/ CreateStorageKey \/ StoreSecrets
  \/ \E what \in {"key", "secrets"} : Compensate(what)
  \/ KillProvision

StorageKeysSpec == StorageKeysInit /\ [][StorageKeysNext]_storageKeysVars

-----------------------------------------------------------------------------
(***************************************************************************)
(* Wherever a single failure or kill strikes, a role that ends up with     *)
(* both secrets has those of one key, and the provider still has that key  *)
(* for that role.  (A failure of the compensation itself breaks this.)     *)
(***************************************************************************)
StoredPairWorks ==
  \A p \in PlanNames :
    /\ provisionFaults <= 1
    /\ provision.step \in {"Stopped", "Done", "Refused"}
    /\ Absent \notin {Secrets(p).id, Secrets(p).key}
    => Secrets(p).id = Secrets(p).key /\ stored[Secrets(p).id] = p

(***************************************************************************)
(* A run that ends well leaves both roles with a key, and no role with two *)
(* unless an answer was lost or a run killed; the bucket keeps all rules.  *)
(***************************************************************************)
DoneMeansProvisioned ==
  provision.step = "Done" =>
    /\ \A p \in PlanNames :
         /\ Absent \notin {Secrets(p).id, Secrets(p).key}
         /\ Cardinality({k \in StorageKeyIds : stored[k] = p}) <= 1 + provisionFaults
    /\ lifecycle = OthersRules \cup {Retention}

(***************************************************************************)
(* Whichever single step fails or is the last, the secrets that are left   *)
(* are usable, and success means both roles have theirs.                   *)
(***************************************************************************)
StorageKeysSound == StoredPairWorks /\ DoneMeansProvisioned
=============================================================================
