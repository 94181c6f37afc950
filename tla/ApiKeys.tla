------------------------------ MODULE ApiKeys ------------------------------
(***************************************************************************)
(* Administrator API keys: PostgresAdminApiKeyStore and the routes that    *)
(* create, use and revoke keys, from the browser and with a key.  A bearer *)
(* request reads the key's row, counts its use, and acts later.            *)
(***************************************************************************)
EXTENDS Integers, FiniteSets, Sequences

CONSTANTS
  KeyIds,        \* identifiers create() may draw
  Scopes,        \* adminApiKeyScopeSchema
  Bearers,       \* bearer requests
  Manage,        \* 'keys:manage'
  Terms,         \* expiresInDays, in ticks
  MaxKeyTime     \* bound on the clock

ASSUME ApiKeysAssumption ==
  /\ Manage \in Scopes /\ Terms \subseteq Nat \ {0} /\ MaxKeyTime \in Nat
  /\ {"browser", "nobody"} \cap KeyIds = {} /\ IsFiniteSet(Bearers)

VARIABLES
  keys,          \* admin_api_keys
  keyAudit,      \* admin_api_key_audit, in order
  bearer,        \* the bearer requests; "seen": audit entries when it was authorized
  keyTime        \* the API's clock

keysVars == <<keys, keyAudit, bearer, keyTime>>

NoKey == [by |-> "nobody"]
Browser == "browser"
Issued(k) == keys[k] # NoKey
ByKey(k) == Issued(k) /\ keys[k].by # Browser

KeyEntry(action, k, actor) == [action |-> action, key |-> k, actor |-> actor]

\* the INSERT, its CHECK on the expiry, the audit and the COMMIT
InsertKey(k, scopes, expires, actor) ==
  /\ ~Issued(k)
  /\ expires > keyTime
  /\ keys' = [keys EXCEPT ![k] = [scopes |-> scopes, expires |-> expires, by |-> actor,
                                  revoked |-> FALSE, uses |-> 0]]
  /\ keyAudit' = Append(keyAudit, KeyEntry("key.created", k, actor))

Revocable(k) == Issued(k) /\ ~keys[k].revoked

\* PostgresAdminApiKeyStore.revoke
RevokeKey(k, actor) ==
  /\ Revocable(k)
  /\ keys' = [keys EXCEPT ![k].revoked = TRUE]
  /\ keyAudit' = Append(keyAudit, KeyEntry("key.revoked", k, actor))

-----------------------------------------------------------------------------
KeysInit ==
  /\ keys = [k \in KeyIds |-> NoKey]
  /\ keyAudit = <<>>
  /\ bearer = [b \in Bearers |-> [step |-> "Idle"]]
  /\ keyTime = 0

\* POST /admin/api/keys
BrowserCreates(k, scopes, term) ==
  /\ InsertKey(k, scopes, keyTime + term, Browser)
  /\ UNCHANGED <<bearer, keyTime>>

\* POST /admin/api/keys/:id/revoke
BrowserRevokes(k) ==
  /\ RevokeKey(k, Browser)
  /\ UNCHANGED <<bearer, keyTime>>

\* the SELECT of authorizeToken and the tests on its row
Authorizes(k, scope) ==
  /\ Issued(k)
  /\ ~keys[k].revoked
  /\ keys[k].expires > keyTime
  /\ scope \in keys[k].scopes

Authorize(b, k, scope) ==
  /\ bearer[b].step = "Idle"
  /\ Issued(k)
  /\ bearer' = [bearer EXCEPT ![b] =
       IF Authorizes(k, scope)
         THEN [step |-> "Read", key |-> k, scope |-> scope, uses |-> keys[k].uses,
               seen |-> Len(keyAudit)]
         ELSE [step |-> "Refused"]]
  /\ UNCHANGED <<keys, keyAudit, keyTime>>

\* mutant: the count is written back from the row that was read
UsesFromRow(b) == bearer[b].uses + 1

UsesAfter(b) == keys[bearer[b].key].uses + 1

\* UPDATE .. SET use_count = use_count + 1
CountUse(b) ==
  /\ bearer[b].step = "Read"
  /\ keys' = [keys EXCEPT ![bearer[b].key].uses = UsesAfter(b)]
  /\ bearer' = [bearer EXCEPT ![b] = [step |-> "Authorized", key |-> bearer[b].key,
                                      scope |-> bearer[b].scope, seen |-> bearer[b].seen]]
  /\ UNCHANGED <<keyAudit, keyTime>>

Acting(b) == bearer[b].step = "Authorized"

EndBearer(b, step) ==
  bearer' = [bearer EXCEPT ![b] = [step |-> step, key |-> bearer[b].key, seen |-> bearer[b].seen]]

\* after a COMMIT, whose answer may be lost
EndActed(b) == EndBearer(b, "Acted") \/ EndBearer(b, "Failed")

\* any other route: the action is another component's
ActWithKey(b) ==
  /\ Acting(b)
  /\ bearer[b].scope # Manage
  /\ EndBearer(b, "Acted")
  /\ UNCHANGED <<keys, keyAudit, keyTime>>

\* mutant: the child's own term alone
ChildExpiryUnbounded(k, term) == keyTime + term

ChildExpiry(k, term) ==
  IF keyTime + term < keys[k].expires THEN keyTime + term ELSE keys[k].expires

\* POST /v1/admin-data/keys
CreateChild(b, k, scopes, term) ==
  /\ Acting(b)
  /\ bearer[b].scope = Manage
  /\ scopes \subseteq keys[bearer[b].key].scopes     \* else 403
  /\ InsertKey(k, scopes, ChildExpiry(bearer[b].key, term), bearer[b].key)
  /\ EndActed(b)
  /\ UNCHANGED keyTime

\* POST /v1/admin-data/keys/:id/revoke
RevokeWithKey(b, k) ==
  /\ Acting(b)
  /\ bearer[b].scope = Manage
  /\ RevokeKey(k, bearer[b].key)
  /\ EndActed(b)
  /\ UNCHANGED keyTime

\* 403, 404, a CHECK that fails, a connection lost before the COMMIT, or after the use
\* was counted: nothing more is stored
EndUnchanged(b) ==
  /\ Acting(b) \/ bearer[b].step = "Read"
  /\ EndBearer(b, IF Acting(b) THEN "Failed" ELSE "Uncounted")
  /\ UNCHANGED <<keys, keyAudit, keyTime>>

KeyTick ==
  /\ keyTime < MaxKeyTime
  /\ keyTime' = keyTime + 1
  /\ UNCHANGED <<keys, keyAudit, bearer>>

KeysNext ==
  \/ \E k \in KeyIds :
       \/ \E scopes \in SUBSET Scopes \ {{}}, term \in Terms :
            \/ BrowserCreates(k, scopes, term)
            \/ \E b \in Bearers : CreateChild(b, k, scopes, term)
       \/ BrowserRevokes(k)
       \/ \E b \in Bearers :
            \/ \E scope \in Scopes : Authorize(b, k, scope)
            \/ RevokeWithKey(b, k)
  \/ \E b \in Bearers : CountUse(b) \/ ActWithKey(b) \/ EndUnchanged(b)
  \/ KeyTick

KeysSpec == KeysInit /\ [][KeysNext]_keysVars

-----------------------------------------------------------------------------
EntriesOf(k, action) ==
  {n \in 1 .. Len(keyAudit) : keyAudit[n].key = k /\ keyAudit[n].action = action}

(***************************************************************************)
(* A key made with a key reaches no further than its parent, in scope and  *)
(* in time, whenever the parent's request was authorized.                  *)
(***************************************************************************)
ChildWithinParent ==
  \A k \in KeyIds : ByKey(k) =>
    LET parent == keys[k].by
    IN /\ Issued(parent)
       /\ Manage \in keys[parent].scopes
       /\ keys[k].scopes \subseteq keys[parent].scopes
       /\ keys[k].expires <= keys[parent].expires

(***************************************************************************)
(* The audit tells each key's life: created once, before anything done     *)
(* with it, and revoked once if it is revoked.                             *)
(***************************************************************************)
AuditTellsKeys ==
  \A k \in KeyIds :
    /\ Cardinality(EntriesOf(k, "key.created")) = (IF Issued(k) THEN 1 ELSE 0)
    /\ Cardinality(EntriesOf(k, "key.revoked"))
         = (IF Issued(k) /\ keys[k].revoked THEN 1 ELSE 0)
    /\ \A n \in EntriesOf(k, "key.created"), m \in 1 .. Len(keyAudit) :
         keyAudit[m].actor = k \/ keyAudit[m].key = k => n <= m

(***************************************************************************)
(* Once a revocation is recorded, no later request is authorized with the  *)
(* key; only one that was authorized before may still act.                 *)
(***************************************************************************)
RevokedKeyIsDead ==
  \A b \in Bearers : "seen" \in DOMAIN bearer[b] =>
    \A n \in EntriesOf(bearer[b].key, "key.revoked") : n > bearer[b].seen

(***************************************************************************)
(* The use counts add up to the requests that were counted: concurrent     *)
(* requests lose none.                                                     *)
(***************************************************************************)
UsesCounted ==
  \A k \in KeyIds : Issued(k) =>
    keys[k].uses = Cardinality({b \in Bearers :
      bearer[b].step \in {"Authorized", "Acted", "Failed"} /\ bearer[b].key = k})

(***************************************************************************)
(* However the requests interleave, no key outlives its revocation, and    *)
(* audit and use counts account for everything done to and with it.        *)
(***************************************************************************)
KeysSound == RevokedKeyIsDead /\ AuditTellsKeys /\ UsesCounted
=============================================================================
