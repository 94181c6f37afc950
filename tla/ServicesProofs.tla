--------------------------- MODULE ServicesProofs ---------------------------
(***************************************************************************)
(* The services that keep state of their own, for any number of clients:   *)
(* administrator API keys (ChildWithinParent, KeysSound), the              *)
(* administrator console (ChangeMadeOnce), web sessions (SessionsSound)    *)
(* and configuration shares (SharesCounted, CodeStandsForLifetime).        *)
(***************************************************************************)
EXTENDS ApiKeys, Console, Sessions, Shares, FiniteSetTheorems, TLAPS

(***************************************************************************)
(* Administrator API keys                                                  *)
(***************************************************************************)
KeyRow ==
  [scopes : SUBSET Scopes, expires : Int, by : KeyIds \cup {Browser}, revoked : BOOLEAN, uses : Int]

Entry == [action : {"key.created", "key.revoked"}, key : KeyIds, actor : KeyIds \cup {Browser}]

KeysType ==
  /\ keyTime \in Int
  /\ keys = [k \in KeyIds |-> keys[k]]
  /\ \A k \in KeyIds : Issued(k) => keys[k] \in KeyRow
  /\ keyAudit \in Seq(Entry)
  /\ bearer = [b \in Bearers |-> bearer[b]]

(***************************************************************************)
(* What a request has seen of its key stays true of the key: it was        *)
(* issued, with the scope that was asked for.                              *)
(***************************************************************************)
SeesKey(b) ==
  \/ bearer[b] \in [step : {"Idle", "Refused"}]
  \/ bearer[b] \in [step : {"Acted", "Failed", "Uncounted"}, key : KeyIds, seen : Nat]
  \/ /\ \/ bearer[b] \in [step : {"Read"}, key : KeyIds, scope : Scopes, uses : Int, seen : Nat]
        \/ bearer[b] \in [step : {"Authorized"}, key : KeyIds, scope : Scopes, seen : Nat]
     /\ Issued(bearer[b].key)
     /\ bearer[b].scope \in keys[bearer[b].key].scopes

(***************************************************************************)
(* What a request has seen of the audit is there, and held no revocation   *)
(* of its key.                                                             *)
(***************************************************************************)
SeesAudit(b) ==
  "seen" \in DOMAIN bearer[b] =>
    /\ bearer[b].seen <= Len(keyAudit)
    /\ \A n \in EntriesOf(bearer[b].key, "key.revoked") : n > bearer[b].seen

(***************************************************************************)
(* A revocation in the audit is one in the table.                          *)
(***************************************************************************)
RevocationsTold ==
  \A n \in 1 .. Len(keyAudit) :
    keyAudit[n].action = "key.revoked" =>
      Issued(keyAudit[n].key) /\ keys[keyAudit[n].key].revoked

KeysInv ==
  /\ KeysType /\ ChildWithinParent /\ RevocationsTold
  /\ \A b \in Bearers : SeesKey(b) /\ SeesAudit(b)

-----------------------------------------------------------------------------
\* A row that was written is told apart from no row.
LEMMA RowIsIssued ==
  \A row \in KeyRow : row # NoKey
BY ApiKeysAssumption DEF KeyRow, NoKey, Browser

\* Every entry of the audit names a key.
LEMMA AuditEntries ==
  ASSUME KeysType
  PROVE  /\ Len(keyAudit) \in Nat
         /\ \A n \in 1 .. Len(keyAudit) : keyAudit[n].key \in KeyIds
<1>1. Len(keyAudit) \in Nat /\ \A n \in 1 .. Len(keyAudit) : keyAudit[n] \in Entry
  BY DEF KeysType
<1>2. QED
  BY <1>1 DEF Entry

\* Issued keys stay, with their scopes, and the audit grows at its end.
KeysGrow ==
  /\ \A k \in KeyIds : Issued(k) => keys'[k] # NoKey /\ keys'[k].scopes = keys[k].scopes
  /\ Len(keyAudit) \in Nat /\ Len(keyAudit') \in Nat /\ Len(keyAudit) <= Len(keyAudit')
  /\ \A n \in 1 .. Len(keyAudit) : keyAudit'[n] = keyAudit[n]

\* The audit with one more entry.
LEMMA AuditGrows ==
  ASSUME KeysType, NEW e \in Entry, keyAudit' = Append(keyAudit, e)
  PROVE  /\ keyAudit' \in Seq(Entry)
         /\ Len(keyAudit) \in Nat /\ Len(keyAudit') = Len(keyAudit) + 1
         /\ \A n \in 1 .. Len(keyAudit) : keyAudit'[n] = keyAudit[n]
         /\ keyAudit'[Len(keyAudit')] = e
BY DEF KeysType

\* What a request has seen stays true while keys and audit grow.
LEMMA RequestKept ==
  ASSUME KeysInv, KeysGrow, NEW b \in Bearers, bearer'[b] = bearer[b]
  PROVE  SeesKey(b)' /\ SeesAudit(b)'
<1>1. SeesKey(b) /\ SeesAudit(b)
  BY DEF KeysInv
<1>2. SeesKey(b)'
  BY <1>1 DEF SeesKey, KeysGrow, Issued
<1>3. "seen" \in DOMAIN bearer[b] => bearer[b].seen \in Nat
  BY <1>1 DEF SeesKey
<1>4. SeesAudit(b)'
  BY <1>1, <1>3 DEF SeesAudit, KeysGrow, EntriesOf
<1>5. QED
  BY <1>2, <1>4

\* A request that ends remembers its key and what it has seen.
LEMMA RequestEnded ==
  ASSUME KeysInv, KeysGrow, NEW b \in Bearers, bearer[b].step \in {"Read", "Authorized"},
         NEW step \in {"Acted", "Failed", "Uncounted"}, EndBearer(b, step)
  PROVE  /\ bearer' = [c \in Bearers |-> bearer'[c]]
         /\ \A c \in Bearers : SeesKey(c)' /\ SeesAudit(c)'
<1>1. KeysType /\ SeesKey(b) /\ SeesAudit(b)
  BY DEF KeysInv
<1>2. bearer' = [c \in Bearers |-> bearer'[c]]
  BY <1>1 DEF KeysType, EndBearer
<1>3. /\ bearer'[b] = [step |-> step, key |-> bearer[b].key, seen |-> bearer[b].seen]
      /\ \A c \in Bearers \ {b} : bearer'[c] = bearer[c]
  BY <1>1 DEF KeysType, EndBearer
<1>4. /\ bearer[b].key \in KeyIds /\ bearer[b].seen \in Nat
      /\ "seen" \in DOMAIN bearer[b]
  BY <1>1 DEF SeesKey
<1>5. SeesKey(b)'
  BY <1>3, <1>4 DEF SeesKey
<1>6. SeesAudit(b)'
  BY <1>1, <1>3, <1>4 DEF SeesAudit, KeysGrow, EntriesOf
<1>7. QED
  BY <1>2, <1>3, <1>5, <1>6, RequestKept

-----------------------------------------------------------------------------
\* A new key keeps the invariant if its maker, when it is a key, allows it.
LEMMA InsertKeeps ==
  ASSUME KeysInv, NEW k \in KeyIds, NEW scopes \in SUBSET Scopes, NEW expires \in Int,
         NEW actor \in KeyIds \cup {Browser},
         InsertKey(k, scopes, expires, actor),
         actor # Browser => /\ Issued(actor) /\ Manage \in keys[actor].scopes
                            /\ scopes \subseteq keys[actor].scopes
                            /\ expires <= keys[actor].expires
  PROVE  /\ keys' = [j \in KeyIds |-> keys'[j]]
         /\ \A j \in KeyIds : Issued(j)' => keys'[j] \in KeyRow
         /\ keyAudit' \in Seq(Entry)
         /\ KeysGrow /\ ChildWithinParent' /\ RevocationsTold'
<1> DEFINE row == [scopes |-> scopes, expires |-> expires, by |-> actor,
                   revoked |-> FALSE, uses |-> 0]
           e == KeyEntry("key.created", k, actor)
<1>1. /\ keys' = [keys EXCEPT ![k] = row] /\ ~Issued(k) /\ keyAudit' = Append(keyAudit, e)
      /\ row \in KeyRow /\ e \in Entry /\ e.action # "key.revoked"
  BY DEF InsertKey, KeyRow, KeyEntry, Entry
<1>2. KeysType /\ ChildWithinParent /\ RevocationsTold
  BY DEF KeysInv
<1>3. /\ keys' = [j \in KeyIds |-> keys'[j]]
      /\ keys'[k] = row /\ row # NoKey /\ \A j \in KeyIds \ {k} : keys'[j] = keys[j]
  BY <1>1, <1>2, RowIsIssued DEF KeysType
<1>4. \A j \in KeyIds : Issued(j) => j # k /\ keys'[j] # NoKey /\ keys'[j] = keys[j]
  BY <1>1, <1>3 DEF Issued
<1>5. /\ keyAudit' \in Seq(Entry)
      /\ Len(keyAudit) \in Nat /\ Len(keyAudit') = Len(keyAudit) + 1
      /\ \A n \in 1 .. Len(keyAudit) : keyAudit'[n] = keyAudit[n]
      /\ keyAudit'[Len(keyAudit')] = e
  BY <1>1, <1>2, AuditGrows
<1>6. \A j \in KeyIds : Issued(j)' => keys'[j] \in KeyRow
  BY <1>1, <1>2, <1>3 DEF KeysType, Issued
<1>7. KeysGrow
  BY <1>4, <1>5 DEF KeysGrow
<1>8. ChildWithinParent'
  <2> SUFFICES ASSUME NEW j \in KeyIds, ByKey(j)'
               PROVE  /\ keys'[keys'[j].by] # NoKey
                      /\ Manage \in keys'[keys'[j].by].scopes
                      /\ keys'[j].scopes \subseteq keys'[keys'[j].by].scopes
                      /\ keys'[j].expires <= keys'[keys'[j].by].expires
    BY DEF ChildWithinParent, Issued
  <2>1. CASE j = k
    <3>1. keys'[j] = row /\ row.by = actor /\ actor \in KeyIds /\ actor # Browser
      BY <1>3, <2>1 DEF ByKey
    <3>2. keys'[actor] = keys[actor] /\ keys'[actor] # NoKey
      BY <1>4, <3>1
    <3>3. QED
      BY <3>1, <3>2
  <2>2. CASE j # k
    <3>1. ByKey(j) /\ keys'[j] = keys[j] /\ keys[j].by \in KeyIds
      BY <1>2, <1>3, <2>2 DEF ByKey, Issued, KeysType, KeyRow
    <3>2. QED
      BY <1>2, <1>4, <3>1 DEF ChildWithinParent, Issued
  <2>3. QED
    BY <2>1, <2>2
<1>9. RevocationsTold'
  <2>1. \A n \in 1 .. Len(keyAudit') :
          keyAudit'[n].action = "key.revoked" =>
            n \in 1 .. Len(keyAudit) /\ keyAudit'[n] = keyAudit[n]
    BY <1>1, <1>5
  <2>2. \A n \in 1 .. Len(keyAudit') :
          keyAudit'[n].action = "key.revoked" =>
            keys'[keyAudit'[n].key] # NoKey /\ keys'[keyAudit'[n].key].revoked
    BY <1>2, <1>4, <2>1, AuditEntries DEF RevocationsTold, Issued
  <2>3. QED
    BY <2>2 DEF RevocationsTold, Issued
<1>10. QED
  BY <1>3, <1>5, <1>6, <1>7, <1>8, <1>9

\* Writing a row's counter or its revocation changes nothing a child rests on.
LEMMA RowKeeps ==
  ASSUME KeysInv, NEW k \in KeyIds, Issued(k), NEW row \in KeyRow,
         row.scopes = keys[k].scopes, row.expires = keys[k].expires, row.by = keys[k].by,
         keys' = [keys EXCEPT ![k] = row]
  PROVE  /\ keys' = [j \in KeyIds |-> keys'[j]]
         /\ \A j \in KeyIds : Issued(j)' => keys'[j] \in KeyRow
         /\ \A j \in KeyIds : Issued(j) => keys'[j] # NoKey /\ keys'[j].scopes = keys[j].scopes
         /\ ChildWithinParent'
<1>1. KeysType /\ ChildWithinParent
  BY DEF KeysInv
<1>2. /\ keys' = [j \in KeyIds |-> keys'[j]]
      /\ keys'[k] = row /\ row # NoKey /\ \A j \in KeyIds \ {k} : keys'[j] = keys[j]
  BY <1>1, RowIsIssued DEF KeysType
<1>3. \A j \in KeyIds : /\ keys'[j] # NoKey <=> Issued(j)
                        /\ Issued(j) => /\ keys'[j].scopes = keys[j].scopes
                                        /\ keys'[j].expires = keys[j].expires
                                        /\ keys'[j].by = keys[j].by
  BY <1>2 DEF Issued
<1>4. \A j \in KeyIds : Issued(j)' => keys'[j] \in KeyRow
  BY <1>1, <1>2 DEF KeysType, Issued
<1>5. ChildWithinParent'
  <2> SUFFICES ASSUME NEW j \in KeyIds, ByKey(j)'
               PROVE  /\ keys'[keys'[j].by] # NoKey
                      /\ Manage \in keys'[keys'[j].by].scopes
                      /\ keys'[j].scopes \subseteq keys'[keys'[j].by].scopes
                      /\ keys'[j].expires <= keys'[keys'[j].by].expires
    BY DEF ChildWithinParent, Issued
  <2>1. Issued(j) /\ ByKey(j) /\ keys[j].by \in KeyIds
    BY <1>1, <1>3 DEF ByKey, Issued, KeysType, KeyRow
  <2>2. QED
    BY <1>1, <1>3, <2>1 DEF ChildWithinParent
<1>6. QED
  BY <1>2, <1>3, <1>4, <1>5

\* A revocation comes after all that any request has seen.
LEMMA RevokeKeeps ==
  ASSUME KeysInv, NEW k \in KeyIds, NEW actor \in KeyIds \cup {Browser}, RevokeKey(k, actor)
  PROVE  /\ keys' = [j \in KeyIds |-> keys'[j]]
         /\ \A j \in KeyIds : Issued(j)' => keys'[j] \in KeyRow
         /\ keyAudit' \in Seq(Entry)
         /\ KeysGrow /\ ChildWithinParent' /\ RevocationsTold'
<1> DEFINE row == [keys[k] EXCEPT !.revoked = TRUE]
           e == KeyEntry("key.revoked", k, actor)
<1>1. /\ keys' = [keys EXCEPT ![k] = row] /\ Issued(k) /\ keyAudit' = Append(keyAudit, e)
      /\ e \in Entry /\ e.key = k
  BY DEF RevokeKey, Revocable, KeyEntry, Entry
<1>2. KeysType /\ RevocationsTold
  BY DEF KeysInv
<1>3. /\ row \in KeyRow /\ row.revoked = TRUE
      /\ row.scopes = keys[k].scopes /\ row.expires = keys[k].expires /\ row.by = keys[k].by
  BY <1>1, <1>2 DEF KeysType, KeyRow
<1>4. /\ keys' = [j \in KeyIds |-> keys'[j]]
      /\ \A j \in KeyIds : Issued(j)' => keys'[j] \in KeyRow
      /\ \A j \in KeyIds : Issued(j) => keys'[j] # NoKey /\ keys'[j].scopes = keys[j].scopes
      /\ ChildWithinParent'
  BY <1>1, <1>3, RowKeeps
<1>5. /\ keyAudit' \in Seq(Entry)
      /\ Len(keyAudit) \in Nat /\ Len(keyAudit') = Len(keyAudit) + 1
      /\ \A n \in 1 .. Len(keyAudit) : keyAudit'[n] = keyAudit[n]
      /\ keyAudit'[Len(keyAudit')] = e
  BY <1>1, <1>2, AuditGrows
<1>6. KeysGrow
  BY <1>4, <1>5 DEF KeysGrow
<1>7. keys'[k].revoked /\ keys'[k] # NoKey /\ \A j \in KeyIds \ {k} : keys'[j] = keys[j]
  BY <1>1, <1>2, <1>3, <1>4 DEF KeysType
<1>8. RevocationsTold'
  <2> SUFFICES ASSUME NEW n \in 1 .. Len(keyAudit'), keyAudit'[n].action = "key.revoked"
               PROVE  keys'[keyAudit'[n].key] # NoKey /\ keys'[keyAudit'[n].key].revoked
    BY DEF RevocationsTold, Issued
  <2>1. CASE n \in 1 .. Len(keyAudit)
    <3>1. /\ keyAudit'[n] = keyAudit[n] /\ keyAudit[n].key \in KeyIds
          /\ Issued(keyAudit[n].key) /\ keys[keyAudit[n].key].revoked
      BY <1>2, <1>5, <2>1, AuditEntries DEF RevocationsTold
    <3>2. QED
      BY <1>7, <3>1 DEF Issued
  <2>2. CASE n = Len(keyAudit')
    BY <1>1, <1>5, <1>7, <2>2
  <2>3. QED
    BY <1>5, <2>1, <2>2
<1>9. QED
  BY <1>4, <1>5, <1>6, <1>8

-----------------------------------------------------------------------------
\* The pieces of the invariant after a step that leaves the clock an integer.
LEMMA KeysInvAgain ==
  ASSUME keyTime' \in Int, keys' = [j \in KeyIds |-> keys'[j]],
         \A j \in KeyIds : Issued(j)' => keys'[j] \in KeyRow,
         keyAudit' \in Seq(Entry), ChildWithinParent', RevocationsTold',
         bearer' = [c \in Bearers |-> bearer'[c]],
         \A c \in Bearers : SeesKey(c)' /\ SeesAudit(c)'
  PROVE  KeysInv'
BY DEF KeysInv, KeysType

\* A step that changes neither keys nor audit.
LEMMA TablesKept ==
  ASSUME KeysInv, UNCHANGED <<keys, keyAudit>>
  PROVE  /\ keys' = [j \in KeyIds |-> keys'[j]]
         /\ \A j \in KeyIds : Issued(j)' => keys'[j] \in KeyRow
         /\ keyAudit' \in Seq(Entry)
         /\ KeysGrow /\ ChildWithinParent' /\ RevocationsTold'
<1>1. KeysType /\ ChildWithinParent /\ RevocationsTold /\ keys' = keys /\ keyAudit' = keyAudit
  BY DEF KeysInv
<1>2. Len(keyAudit) \in Nat
  BY <1>1, AuditEntries
<1>3. KeysGrow
  BY <1>1, <1>2 DEF KeysGrow, Issued
<1>4. ChildWithinParent' /\ RevocationsTold'
  BY <1>1 DEF ChildWithinParent, RevocationsTold, ByKey, Issued
<1>5. QED
  BY <1>1, <1>3, <1>4 DEF KeysType, Issued

\* A request that is authorized has seen a key that is alive.
LEMMA AuthorizeKeeps ==
  ASSUME KeysInv, NEW b \in Bearers, NEW k \in KeyIds, NEW scope \in Scopes,
         Authorize(b, k, scope)
  PROVE  KeysInv'
<1>1. KeysType /\ RevocationsTold /\ Len(keyAudit) \in Nat
  BY AuditEntries DEF KeysInv
<1>2. /\ keys' = [j \in KeyIds |-> keys'[j]]
      /\ \A j \in KeyIds : Issued(j)' => keys'[j] \in KeyRow
      /\ keyAudit' \in Seq(Entry)
      /\ KeysGrow /\ ChildWithinParent' /\ RevocationsTold'
  BY TablesKept DEF Authorize
<1>3. /\ bearer' = [c \in Bearers |-> bearer'[c]]
      /\ \A c \in Bearers \ {b} : bearer'[c] = bearer[c]
      /\ keys' = keys /\ keyAudit' = keyAudit /\ keyTime' = keyTime
  BY <1>1 DEF KeysType, Authorize
<1>4. SeesKey(b)' /\ SeesAudit(b)'
  <2>1. CASE ~Authorizes(k, scope)
    <3>1. bearer'[b] = [step |-> "Refused"]
      BY <1>1, <2>1 DEF KeysType, Authorize
    <3>2. QED
      BY <3>1 DEF SeesKey, SeesAudit
  <2>2. CASE Authorizes(k, scope)
    <3>1. bearer'[b] = [step |-> "Read", key |-> k, scope |-> scope, uses |-> keys[k].uses,
                        seen |-> Len(keyAudit)]
      BY <1>1, <2>2 DEF KeysType, Authorize
    <3>2. Issued(k) /\ ~keys[k].revoked /\ scope \in keys[k].scopes /\ keys[k].uses \in Int
      BY <1>1, <2>2 DEF Authorizes, KeysType, KeyRow
    <3>3. SeesKey(b)'
      BY <1>1, <1>3, <3>1, <3>2 DEF SeesKey, Issued
    <3>4. \A n \in 1 .. Len(keyAudit) :
            ~(keyAudit[n].key = k /\ keyAudit[n].action = "key.revoked")
      BY <1>1, <3>2 DEF RevocationsTold
    <3>5. SeesAudit(b)'
      BY <1>1, <1>3, <3>1, <3>4 DEF SeesAudit, EntriesOf
    <3>6. QED
      BY <3>3, <3>5
  <2>3. QED
    BY <2>1, <2>2
<1>5. \A c \in Bearers : SeesKey(c)' /\ SeesAudit(c)'
  BY <1>2, <1>3, <1>4, RequestKept
<1>6. keyTime' \in Int
  BY <1>1, <1>3 DEF KeysType
<1>7. QED
  BY <1>2, <1>3, <1>5, <1>6, KeysInvAgain

\* Counting a use writes one column of the key.
LEMMA CountUseKeeps ==
  ASSUME KeysInv, NEW b \in Bearers, CountUse(b)
  PROVE  KeysInv'
<1> DEFINE k == bearer[b].key
           row == [keys[k] EXCEPT !.uses = UsesAfter(b)]
<1>1. /\ KeysType /\ SeesKey(b) /\ SeesAudit(b) /\ RevocationsTold
      /\ Len(keyAudit) \in Nat
  BY AuditEntries DEF KeysInv
<1>2. /\ k \in KeyIds /\ Issued(k) /\ bearer[b].scope \in Scopes /\ bearer[b].seen \in Nat
      /\ bearer[b].scope \in keys[k].scopes /\ "seen" \in DOMAIN bearer[b]
  BY <1>1 DEF SeesKey, CountUse
<1>3. /\ keys' = [keys EXCEPT ![k] = row] /\ keyAudit' = keyAudit /\ keyTime' = keyTime
  BY DEF CountUse
<1>4. /\ row \in KeyRow /\ row.revoked = keys[k].revoked
      /\ row.scopes = keys[k].scopes /\ row.expires = keys[k].expires /\ row.by = keys[k].by
  <2>1. keys[k] \in KeyRow
    BY <1>1, <1>2 DEF KeysType
  <2>2. UsesAfter(b) \in Int
    BY <2>1 DEF UsesAfter, KeyRow
  <2>3. QED
    BY <2>1, <2>2 DEF KeyRow
<1>5. /\ keys' = [j \in KeyIds |-> keys'[j]]
      /\ \A j \in KeyIds : Issued(j)' => keys'[j] \in KeyRow
      /\ \A j \in KeyIds : Issued(j) => keys'[j] # NoKey /\ keys'[j].scopes = keys[j].scopes
      /\ ChildWithinParent'
  BY <1>2, <1>3, <1>4, RowKeeps
<1>6. KeysGrow
  BY <1>1, <1>3, <1>5 DEF KeysGrow
<1>7. \A j \in KeyIds : Issued(j) => keys'[j].revoked = keys[j].revoked
  BY <1>1, <1>3, <1>4 DEF KeysType
<1>8. RevocationsTold'
  <2> SUFFICES ASSUME NEW n \in 1 .. Len(keyAudit), keyAudit[n].action = "key.revoked"
               PROVE  keys'[keyAudit[n].key] # NoKey /\ keys'[keyAudit[n].key].revoked
    BY <1>3 DEF RevocationsTold, Issued
  <2>1. keyAudit[n].key \in KeyIds /\ Issued(keyAudit[n].key) /\ keys[keyAudit[n].key].revoked
    BY <1>1, AuditEntries DEF RevocationsTold
  <2>2. QED
    BY <1>5, <1>7, <2>1
<1>9. /\ bearer' = [c \in Bearers |-> bearer'[c]]
      /\ \A c \in Bearers \ {b} : bearer'[c] = bearer[c]
      /\ bearer'[b] = [step |-> "Authorized", key |-> k, scope |-> bearer[b].scope,
                       seen |-> bearer[b].seen]
  BY <1>1 DEF KeysType, CountUse
<1>10. SeesKey(b)'
  BY <1>2, <1>5, <1>9 DEF SeesKey, Issued
<1>11. SeesAudit(b)'
  BY <1>1, <1>2, <1>3, <1>9 DEF SeesAudit, EntriesOf
<1>12. \A c \in Bearers : SeesKey(c)' /\ SeesAudit(c)'
  BY <1>6, <1>9, <1>10, <1>11, RequestKept
<1>13. keyTime' \in Int /\ keyAudit' \in Seq(Entry)
  BY <1>1, <1>3 DEF KeysType
<1>14. QED
  BY <1>5, <1>8, <1>9, <1>12, <1>13, KeysInvAgain

\* A child is made by a request whose key was issued with keys:manage.
LEMMA CreateChildKeeps ==
  ASSUME KeysInv, NEW b \in Bearers, NEW k \in KeyIds, NEW scopes \in SUBSET Scopes,
         NEW term \in Terms, CreateChild(b, k, scopes, term)
  PROVE  KeysInv'
<1> DEFINE parent == bearer[b].key
           expires == ChildExpiry(parent, term)
<1>1. KeysType /\ SeesKey(b)
  BY DEF KeysInv
<1>2. /\ bearer[b].step = "Authorized" /\ bearer[b].scope = Manage
      /\ scopes \subseteq keys[parent].scopes
      /\ InsertKey(k, scopes, expires, parent)
      /\ \E step \in {"Acted", "Failed"} : EndBearer(b, step)
      /\ keyTime' = keyTime
  BY DEF CreateChild, Acting, EndActed
<1>3. parent \in KeyIds /\ Issued(parent) /\ Manage \in keys[parent].scopes
  BY <1>1, <1>2 DEF SeesKey
<1>4. keys[parent].expires \in Int /\ keyTime \in Int /\ term \in Int
  BY <1>1, <1>3, ApiKeysAssumption DEF KeysType, KeyRow
<1>5. expires \in Int /\ expires <= keys[parent].expires
  BY <1>4 DEF ChildExpiry
<1>6. /\ keys' = [j \in KeyIds |-> keys'[j]]
      /\ \A j \in KeyIds : Issued(j)' => keys'[j] \in KeyRow
      /\ keyAudit' \in Seq(Entry)
      /\ KeysGrow /\ ChildWithinParent' /\ RevocationsTold'
  BY <1>2, <1>3, <1>5, InsertKeeps
<1>7. /\ bearer' = [c \in Bearers |-> bearer'[c]]
      /\ \A c \in Bearers : SeesKey(c)' /\ SeesAudit(c)'
  BY <1>2, <1>6, RequestEnded
<1>8. QED
  BY <1>2, <1>4, <1>6, <1>7, KeysInvAgain

\* A revocation by a request ends the request; one from the browser none.
LEMMA RevocationKeeps ==
  ASSUME KeysInv, NEW k \in KeyIds
  PROVE  /\ BrowserRevokes(k) => KeysInv'
         /\ \A b \in Bearers : RevokeWithKey(b, k) => KeysInv'
<1>1. KeysType
  BY DEF KeysInv
<1>2. ASSUME BrowserRevokes(k) PROVE KeysInv'
  <2>1. RevokeKey(k, Browser) /\ bearer' = bearer /\ keyTime' \in Int
    BY <1>1, <1>2 DEF BrowserRevokes, KeysType
  <2>2. /\ keys' = [j \in KeyIds |-> keys'[j]]
        /\ \A j \in KeyIds : Issued(j)' => keys'[j] \in KeyRow
        /\ keyAudit' \in Seq(Entry)
        /\ KeysGrow /\ ChildWithinParent' /\ RevocationsTold'
    BY <2>1, RevokeKeeps
  <2>3. \A c \in Bearers : SeesKey(c)' /\ SeesAudit(c)'
    BY <2>1, <2>2, RequestKept
  <2>4. bearer' = [c \in Bearers |-> bearer'[c]]
    BY <1>1, <2>1 DEF KeysType
  <2>5. QED
    BY <2>1, <2>2, <2>3, <2>4, KeysInvAgain
<1>3. ASSUME NEW b \in Bearers, RevokeWithKey(b, k) PROVE KeysInv'
  <2>1. /\ RevokeKey(k, bearer[b].key) /\ keyTime' \in Int
        /\ \E step \in {"Acted", "Failed"} : EndBearer(b, step)
        /\ bearer[b].step = "Authorized"
    BY <1>1, <1>3 DEF RevokeWithKey, Acting, EndActed, KeysType
  <2>2. SeesKey(b)
    BY DEF KeysInv
  <2>3. bearer[b].key \in KeyIds
    BY <2>1, <2>2 DEF SeesKey
  <2>4. /\ keys' = [j \in KeyIds |-> keys'[j]]
        /\ \A j \in KeyIds : Issued(j)' => keys'[j] \in KeyRow
        /\ keyAudit' \in Seq(Entry)
        /\ KeysGrow /\ ChildWithinParent' /\ RevocationsTold'
    BY <2>1, <2>3, RevokeKeeps
  <2>5. /\ bearer' = [c \in Bearers |-> bearer'[c]]
        /\ \A c \in Bearers : SeesKey(c)' /\ SeesAudit(c)'
    BY <2>1, <2>4, RequestEnded
  <2>6. QED
    BY <2>1, <2>4, <2>5, KeysInvAgain
<1>4. QED
  BY <1>2, <1>3

\* The console may make any key.
LEMMA BrowserCreatesKeeps ==
  ASSUME KeysInv, NEW k \in KeyIds, NEW scopes \in SUBSET Scopes, NEW term \in Terms,
         BrowserCreates(k, scopes, term)
  PROVE  KeysInv'
<1>1. KeysType
  BY DEF KeysInv
<1>2. /\ InsertKey(k, scopes, keyTime + term, Browser) /\ bearer' = bearer
      /\ keyTime' \in Int /\ keyTime + term \in Int
  BY <1>1, ApiKeysAssumption DEF BrowserCreates, KeysType
<1>3. /\ keys' = [j \in KeyIds |-> keys'[j]]
      /\ \A j \in KeyIds : Issued(j)' => keys'[j] \in KeyRow
      /\ keyAudit' \in Seq(Entry)
      /\ KeysGrow /\ ChildWithinParent' /\ RevocationsTold'
  BY <1>2, InsertKeeps
<1>4. \A c \in Bearers : SeesKey(c)' /\ SeesAudit(c)'
  BY <1>2, <1>3, RequestKept
<1>5. bearer' = [c \in Bearers |-> bearer'[c]]
  BY <1>1, <1>2 DEF KeysType
<1>6. QED
  BY <1>2, <1>3, <1>4, <1>5, KeysInvAgain

\* Steps that write neither table: a request that ends, the clock.
LEMMA QuietStepKeeps ==
  ASSUME KeysInv, UNCHANGED <<keys, keyAudit>>
  PROVE  /\ \A b \in Bearers : ActWithKey(b) \/ EndUnchanged(b) => KeysInv'
         /\ KeyTick \/ UNCHANGED keysVars => KeysInv'
<1>1. KeysType
  BY DEF KeysInv
<1>2. /\ keys' = [j \in KeyIds |-> keys'[j]]
      /\ \A j \in KeyIds : Issued(j)' => keys'[j] \in KeyRow
      /\ keyAudit' \in Seq(Entry)
      /\ KeysGrow /\ ChildWithinParent' /\ RevocationsTold'
  BY TablesKept
<1>3. ASSUME NEW b \in Bearers, ActWithKey(b) \/ EndUnchanged(b) PROVE KeysInv'
  <2>1. /\ keyTime' \in Int /\ bearer[b].step \in {"Read", "Authorized"}
        /\ \E step \in {"Acted", "Failed", "Uncounted"} : EndBearer(b, step)
    BY <1>1, <1>3 DEF ActWithKey, EndUnchanged, Acting, KeysType
  <2>2. /\ bearer' = [c \in Bearers |-> bearer'[c]]
        /\ \A c \in Bearers : SeesKey(c)' /\ SeesAudit(c)'
    BY <1>2, <2>1, RequestEnded
  <2>3. QED
    BY <1>2, <2>1, <2>2, KeysInvAgain
<1>4. ASSUME KeyTick \/ UNCHANGED keysVars PROVE KeysInv'
  <2>1. keyTime' \in Int /\ bearer' = bearer
    BY <1>1, <1>4 DEF KeyTick, keysVars, KeysType
  <2>2. \A c \in Bearers : SeesKey(c)' /\ SeesAudit(c)'
    BY <1>2, <2>1, RequestKept
  <2>3. bearer' = [c \in Bearers |-> bearer'[c]]
    BY <1>1, <2>1 DEF KeysType
  <2>4. QED
    BY <1>2, <2>1, <2>2, <2>3, KeysInvAgain
<1>5. QED
  BY <1>3, <1>4

-----------------------------------------------------------------------------
(***************************************************************************)
(* The invariant of the keys, their audit and the requests: what a request *)
(* has seen before it waited still bounds what it may do afterwards.       *)
(***************************************************************************)
THEOREM KeysInvariance == KeysSpec => []KeysInv
<1>1. KeysInit => KeysInv
  <2> SUFFICES ASSUME KeysInit PROVE KeysInv
    OBVIOUS
  <2>1. \A k \in KeyIds : ~Issued(k)
    BY DEF KeysInit, Issued
  <2>2. KeysType
    BY <2>1 DEF KeysInit, KeysType
  <2>3. ChildWithinParent
    BY <2>1 DEF ChildWithinParent, ByKey
  <2>4. RevocationsTold
    BY DEF KeysInit, RevocationsTold
  <2>5. \A b \in Bearers : SeesKey(b) /\ SeesAudit(b)
    BY DEF KeysInit, SeesKey, SeesAudit
  <2>6. QED
    BY <2>2, <2>3, <2>4, <2>5 DEF KeysInv
<1>2. KeysInv /\ [KeysNext]_keysVars => KeysInv'
  <2> SUFFICES ASSUME KeysInv, [KeysNext]_keysVars PROVE KeysInv'
    OBVIOUS
  <2>1. ASSUME NEW k \in KeyIds, NEW scopes \in SUBSET Scopes \ {{}}, NEW term \in Terms,
               BrowserCreates(k, scopes, term)
        PROVE  KeysInv'
    BY <2>1, BrowserCreatesKeeps
  <2>2. ASSUME NEW k \in KeyIds, NEW scopes \in SUBSET Scopes \ {{}}, NEW term \in Terms,
               NEW b \in Bearers, CreateChild(b, k, scopes, term)
        PROVE  KeysInv'
    BY <2>2, CreateChildKeeps
  <2>3. ASSUME NEW k \in KeyIds, BrowserRevokes(k) \/ \E b \in Bearers : RevokeWithKey(b, k)
        PROVE  KeysInv'
    BY <2>3, RevocationKeeps
  <2>4. ASSUME NEW k \in KeyIds, NEW b \in Bearers, NEW scope \in Scopes, Authorize(b, k, scope)
        PROVE  KeysInv'
    BY <2>4, AuthorizeKeeps
  <2>5. ASSUME NEW b \in Bearers, CountUse(b) PROVE KeysInv'
    BY <2>5, CountUseKeeps
  <2>6. ASSUME NEW b \in Bearers, ActWithKey(b) \/ EndUnchanged(b) PROVE KeysInv'
    <3>1. UNCHANGED <<keys, keyAudit>>
      BY <2>6 DEF ActWithKey, EndUnchanged
    <3>2. QED
      BY <2>6, <3>1, QuietStepKeeps
  <2>7. ASSUME KeyTick \/ UNCHANGED keysVars PROVE KeysInv'
    <3>1. UNCHANGED <<keys, keyAudit>>
      BY <2>7 DEF KeyTick, keysVars
    <3>2. QED
      BY <2>7, <3>1, QuietStepKeeps
  <2>8. QED
    BY <2>1, <2>2, <2>3, <2>4, <2>5, <2>6, <2>7 DEF KeysNext
<1>3. QED
  BY <1>1, <1>2, PTL DEF KeysSpec

(***************************************************************************)
(* A key made with a key never reaches further than its maker, however     *)
(* requests interleave with revocations and with each other.               *)
(***************************************************************************)
THEOREM ChildrenWithinParents == KeysSpec => []ChildWithinParent
<1>1. KeysInv => ChildWithinParent
  BY DEF KeysInv
<1>2. QED
  BY <1>1, KeysInvariance, PTL

(***************************************************************************)
(* A request with a revoked key was authorized before the revocation was   *)
(* recorded.                                                               *)
(***************************************************************************)
THEOREM RevokedKeysAreDead == KeysSpec => []RevokedKeyIsDead
<1>1. KeysInv => RevokedKeyIsDead
  BY DEF KeysInv, SeesAudit, RevokedKeyIsDead
<1>2. QED
  BY <1>1, KeysInvariance, PTL

-----------------------------------------------------------------------------
UsersOf(k) ==
  {b \in Bearers : bearer[b].step \in {"Authorized", "Acted", "Failed"} /\ bearer[b].key = k}

(***************************************************************************)
(* What the account rests on: the audit and the counted requests name keys *)
(* that were issued.                                                       *)
(***************************************************************************)
TracesIssued ==
  /\ \A n \in 1 .. Len(keyAudit) :
       /\ Issued(keyAudit[n].key)
       /\ keyAudit[n].actor \in KeyIds => Issued(keyAudit[n].actor)
  /\ \A k \in KeyIds : ~Issued(k) => UsersOf(k) = {}

AccountInv == AuditTellsKeys /\ UsesCounted /\ TracesIssued

\* The entries of a key of one kind, after one more entry.
LEMMA EntriesGrow ==
  ASSUME KeysType, NEW e \in Entry, keyAudit' = Append(keyAudit, e),
         NEW k \in KeyIds, NEW action
  PROVE  /\ e.key = k /\ e.action = action =>
              /\ EntriesOf(k, action)' = EntriesOf(k, action) \cup {Len(keyAudit) + 1}
              /\ Cardinality(EntriesOf(k, action)') = Cardinality(EntriesOf(k, action)) + 1
         /\ ~(e.key = k /\ e.action = action) => EntriesOf(k, action)' = EntriesOf(k, action)
<1>1. /\ Len(keyAudit) \in Nat /\ Len(keyAudit') = Len(keyAudit) + 1
      /\ \A n \in 1 .. Len(keyAudit) : keyAudit'[n] = keyAudit[n]
      /\ keyAudit'[Len(keyAudit) + 1] = e
  BY AuditGrows
<1>2. ~(e.key = k /\ e.action = action) => EntriesOf(k, action)' = EntriesOf(k, action)
  BY <1>1 DEF EntriesOf
<1>3. ASSUME e.key = k, e.action = action
      PROVE  /\ EntriesOf(k, action)' = EntriesOf(k, action) \cup {Len(keyAudit) + 1}
             /\ Cardinality(EntriesOf(k, action)') = Cardinality(EntriesOf(k, action)) + 1
  <2>1. EntriesOf(k, action)' = EntriesOf(k, action) \cup {Len(keyAudit) + 1}
    BY <1>1, <1>3 DEF EntriesOf
  <2>2. IsFiniteSet(EntriesOf(k, action))
    <3>1. IsFiniteSet(1 .. Len(keyAudit))
      BY <1>1, FS_Interval
    <3>2. EntriesOf(k, action) \subseteq 1 .. Len(keyAudit)
      BY DEF EntriesOf
    <3>3. QED
      BY <3>1, <3>2, FS_Subset
  <2>3. Len(keyAudit) + 1 \notin EntriesOf(k, action)
    BY <1>1 DEF EntriesOf
  <2>4. QED
    BY <2>1, <2>2, <2>3, FS_AddElement
<1>4. QED
  BY <1>2, <1>3

\* Requests that end, or that do not begin to be counted, leave the counts.
LEMMA UsersRest ==
  ASSUME KeysInv, NEW b \in Bearers,
         \/ /\ bearer[b].step = "Authorized"
            /\ EndBearer(b, "Acted") \/ EndBearer(b, "Failed")
         \/ bearer[b].step = "Read" /\ EndBearer(b, "Uncounted")
  PROVE  \A k \in KeyIds : UsersOf(k)' = UsersOf(k)
<1>1. bearer = [c \in Bearers |-> bearer[c]]
  BY DEF KeysInv, KeysType
<1>2. \A c \in Bearers \ {b} : bearer'[c] = bearer[c]
  BY <1>1 DEF EndBearer
<1>3. bearer'[b].key = bearer[b].key
  BY <1>1 DEF EndBearer
<1>4. bearer'[b].step \in {"Authorized", "Acted", "Failed"}
        <=> bearer[b].step \in {"Authorized", "Acted", "Failed"}
  BY <1>1 DEF EndBearer
<1>5. QED
  BY <1>2, <1>3, <1>4 DEF UsersOf

\* The counts after a step that counts no use.
LEMMA UsesRest ==
  ASSUME AccountInv, \A k \in KeyIds : UsersOf(k)' = UsersOf(k),
         \A k \in KeyIds : Issued(k) => Issued(k)' /\ keys'[k].uses = keys[k].uses,
         \A k \in KeyIds : ~Issued(k) /\ Issued(k)' => keys'[k].uses = 0
  PROVE  UsesCounted' /\ \A k \in KeyIds : ~Issued(k)' => UsersOf(k)' = {}
<1>1. ASSUME NEW k \in KeyIds, Issued(k)' PROVE keys'[k].uses = Cardinality(UsersOf(k)')
  <2>1. CASE Issued(k)
    BY <2>1 DEF AccountInv, UsesCounted, UsersOf
  <2>2. CASE ~Issued(k)
    <3>1. UsersOf(k)' = {}
      BY <2>2 DEF AccountInv, TracesIssued
    <3>2. QED
      BY <1>1, <2>2, <3>1, FS_EmptySet
  <2>3. QED
    BY <2>1, <2>2
<1>2. QED
  BY <1>1 DEF AccountInv, TracesIssued, UsesCounted, UsersOf

\* A new key begins its own account.
LEMMA InsertAccounts ==
  ASSUME KeysInv, AccountInv, NEW k \in KeyIds, NEW scopes \in SUBSET Scopes, NEW expires \in Int,
         NEW actor \in KeyIds \cup {Browser}, InsertKey(k, scopes, expires, actor),
         actor # Browser => Issued(actor),
         \A j \in KeyIds : UsersOf(j)' = UsersOf(j)
  PROVE  AccountInv'
<1> DEFINE row == [scopes |-> scopes, expires |-> expires, by |-> actor,
                   revoked |-> FALSE, uses |-> 0]
           e == KeyEntry("key.created", k, actor)
<1>1. /\ keys' = [keys EXCEPT ![k] = row] /\ ~Issued(k) /\ keyAudit' = Append(keyAudit, e)
      /\ row \in KeyRow /\ e \in Entry
  BY DEF InsertKey, KeyRow, KeyEntry, Entry
<1>2. /\ e.action = "key.created" /\ e.key = k /\ e.actor = actor
      /\ row.revoked = FALSE /\ row.uses = 0
  BY DEF KeyEntry
<1> HIDE DEF row, e
<1>3. KeysType /\ Len(keyAudit) \in Nat
  BY AuditEntries DEF KeysInv
<1>4. /\ keys'[k] = row /\ row # NoKey /\ \A j \in KeyIds \ {k} : keys'[j] = keys[j]
  BY <1>1, <1>3, RowIsIssued DEF KeysType
<1>5. /\ Len(keyAudit') = Len(keyAudit) + 1 /\ keyAudit'[Len(keyAudit) + 1] = e
      /\ \A n \in 1 .. Len(keyAudit) : keyAudit'[n] = keyAudit[n]
  BY <1>1, <1>3, AuditGrows
<1>6. \A j \in KeyIds : (Issued(j)' <=> Issued(j) \/ j = k)
  BY <1>1, <1>4 DEF Issued
<1>7. \A n \in 1 .. Len(keyAudit) : keyAudit[n].key # k /\ keyAudit[n].actor # k
  BY <1>1 DEF AccountInv, TracesIssued
<1>8. ASSUME NEW j \in KeyIds
      PROVE  /\ Cardinality(EntriesOf(j, "key.created")') = (IF Issued(j)' THEN 1 ELSE 0)
             /\ Cardinality(EntriesOf(j, "key.revoked")')
                  = (IF Issued(j)' /\ keys'[j].revoked THEN 1 ELSE 0)
             /\ \A n \in EntriesOf(j, "key.created")', m \in 1 .. Len(keyAudit') :
                  keyAudit'[m].actor = j \/ keyAudit'[m].key = j => n <= m
  <2>1. /\ Cardinality(EntriesOf(j, "key.created")) = (IF Issued(j) THEN 1 ELSE 0)
        /\ Cardinality(EntriesOf(j, "key.revoked")) = (IF Issued(j) /\ keys[j].revoked THEN 1 ELSE 0)
        /\ \A n \in EntriesOf(j, "key.created"), m \in 1 .. Len(keyAudit) :
             keyAudit[m].actor = j \/ keyAudit[m].key = j => n <= m
    BY <1>8 DEF AccountInv, AuditTellsKeys
  <2>2. EntriesOf(j, "key.revoked")' = EntriesOf(j, "key.revoked")
    BY <1>1, <1>2, <1>3, <1>8, EntriesGrow
  <2>3. CASE j = k
    <3>1. /\ EntriesOf(k, "key.created")' = EntriesOf(k, "key.created") \cup {Len(keyAudit) + 1}
          /\ Cardinality(EntriesOf(k, "key.created")') = Cardinality(EntriesOf(k, "key.created")) + 1
      BY <1>1, <1>2, <1>3, EntriesGrow
    <3>2. EntriesOf(k, "key.created") = {}
      BY <1>7 DEF EntriesOf
    <3>3. \A m \in 1 .. Len(keyAudit') :
            keyAudit'[m].actor = k \/ keyAudit'[m].key = k => m = Len(keyAudit) + 1
      BY <1>3, <1>5, <1>7
    <3>4. QED
      BY <1>1, <1>2, <1>4, <1>6, <2>1, <2>2, <2>3, <3>1, <3>2, <3>3
  <2>4. CASE j # k
    <3>1. EntriesOf(j, "key.created")' = EntriesOf(j, "key.created")
      BY <1>1, <1>2, <1>3, <1>8, <2>4, EntriesGrow
    <3>2. \A n \in EntriesOf(j, "key.created") : n \in 1 .. Len(keyAudit)
      BY DEF EntriesOf
    <3>3. \A n \in EntriesOf(j, "key.created"), m \in 1 .. Len(keyAudit') :
            keyAudit'[m].actor = j \/ keyAudit'[m].key = j => n <= m
      <4> SUFFICES ASSUME NEW n \in EntriesOf(j, "key.created"), NEW m \in 1 .. Len(keyAudit'),
                          keyAudit'[m].actor = j \/ keyAudit'[m].key = j
                   PROVE  n <= m
        OBVIOUS
      <4>1. CASE m \in 1 .. Len(keyAudit)
        BY <1>5, <2>1, <4>1
      <4>2. CASE m = Len(keyAudit) + 1
        BY <1>3, <3>2, <4>2
      <4>3. QED
        BY <1>3, <1>5, <4>1, <4>2
    <3>4. QED
      BY <1>4, <1>6, <2>1, <2>2, <2>4, <3>1, <3>3
  <2>5. QED
    BY <2>3, <2>4
<1>9. AuditTellsKeys'
  BY <1>8 DEF AuditTellsKeys
<1>10. UsesCounted' /\ \A j \in KeyIds : ~Issued(j)' => UsersOf(j)' = {}
  <2>1. \A j \in KeyIds : Issued(j) => Issued(j)' /\ keys'[j].uses = keys[j].uses
    BY <1>1, <1>4, <1>6
  <2>2. \A j \in KeyIds : ~Issued(j) /\ Issued(j)' => keys'[j].uses = 0
    BY <1>2, <1>4, <1>6
  <2>3. QED
    BY <2>1, <2>2, UsesRest
<1>11. \A n \in 1 .. Len(keyAudit') :
         /\ keys'[keyAudit'[n].key] # NoKey
         /\ keyAudit'[n].actor \in KeyIds => keys'[keyAudit'[n].actor] # NoKey
  <2> SUFFICES ASSUME NEW n \in 1 .. Len(keyAudit')
               PROVE  /\ keys'[keyAudit'[n].key] # NoKey
                      /\ keyAudit'[n].actor \in KeyIds => keys'[keyAudit'[n].actor] # NoKey
    OBVIOUS
  <2>1. CASE n \in 1 .. Len(keyAudit)
    <3>1. /\ keyAudit'[n] = keyAudit[n] /\ keyAudit[n].key \in KeyIds /\ Issued(keyAudit[n].key)
          /\ keyAudit[n].actor \in KeyIds => Issued(keyAudit[n].actor)
      BY <1>3, <1>5, <2>1, AuditEntries DEF AccountInv, TracesIssued
    <3>2. QED
      BY <1>6, <3>1 DEF Issued
  <2>2. CASE n = Len(keyAudit) + 1
    <3>1. keyAudit'[n].key = k /\ keyAudit'[n].actor = actor
      BY <1>2, <1>5, <2>2
    <3>2. actor \in KeyIds => Issued(actor)
      BY ApiKeysAssumption DEF Browser
    <3>3. QED
      BY <1>6, <3>1, <3>2 DEF Issued
  <2>3. QED
    BY <1>3, <1>5, <2>1, <2>2
<1>12. QED
  BY <1>9, <1>10, <1>11 DEF AccountInv, TracesIssued, Issued

\* A revocation is told once.
LEMMA RevokeAccounts ==
  ASSUME KeysInv, AccountInv, NEW k \in KeyIds, NEW actor \in KeyIds \cup {Browser},
         RevokeKey(k, actor), actor # Browser => Issued(actor),
         \A j \in KeyIds : UsersOf(j)' = UsersOf(j)
  PROVE  AccountInv'
<1> DEFINE row == [keys[k] EXCEPT !.revoked = TRUE]
           e == KeyEntry("key.revoked", k, actor)
<1>1. /\ keys' = [keys EXCEPT ![k] = row] /\ Issued(k) /\ ~keys[k].revoked
      /\ keyAudit' = Append(keyAudit, e) /\ e \in Entry
  BY DEF RevokeKey, Revocable, KeyEntry, Entry
<1>2. e.action = "key.revoked" /\ e.key = k /\ e.actor = actor
  BY DEF KeyEntry
<1>3. KeysType /\ Len(keyAudit) \in Nat
  BY AuditEntries DEF KeysInv
<1>4. row \in KeyRow /\ row.revoked = TRUE /\ row.uses = keys[k].uses
  BY <1>1, <1>3 DEF KeysType, KeyRow
<1> HIDE DEF row, e
<1>5. /\ keys'[k] = row /\ row # NoKey /\ \A j \in KeyIds \ {k} : keys'[j] = keys[j]
  BY <1>1, <1>3, <1>4, RowIsIssued DEF KeysType
<1>6. /\ Len(keyAudit') = Len(keyAudit) + 1 /\ keyAudit'[Len(keyAudit) + 1] = e
      /\ \A n \in 1 .. Len(keyAudit) : keyAudit'[n] = keyAudit[n]
  BY <1>1, <1>3, AuditGrows
<1>7. \A j \in KeyIds : Issued(j)' <=> Issued(j)
  BY <1>1, <1>5 DEF Issued
<1>8. ASSUME NEW j \in KeyIds
      PROVE  /\ Cardinality(EntriesOf(j, "key.created")') = (IF Issued(j)' THEN 1 ELSE 0)
             /\ Cardinality(EntriesOf(j, "key.revoked")')
                  = (IF Issued(j)' /\ keys'[j].revoked THEN 1 ELSE 0)
             /\ \A n \in EntriesOf(j, "key.created")', m \in 1 .. Len(keyAudit') :
                  keyAudit'[m].actor = j \/ keyAudit'[m].key = j => n <= m
  <2>1. /\ Cardinality(EntriesOf(j, "key.created")) = (IF Issued(j) THEN 1 ELSE 0)
        /\ Cardinality(EntriesOf(j, "key.revoked")) = (IF Issued(j) /\ keys[j].revoked THEN 1 ELSE 0)
        /\ \A n \in EntriesOf(j, "key.created"), m \in 1 .. Len(keyAudit) :
             keyAudit[m].actor = j \/ keyAudit[m].key = j => n <= m
    BY <1>8 DEF AccountInv, AuditTellsKeys
  <2>2. EntriesOf(j, "key.created")' = EntriesOf(j, "key.created")
    BY <1>1, <1>2, <1>3, <1>8, EntriesGrow
  <2>3. Cardinality(EntriesOf(j, "key.revoked")')
          = (IF Issued(j)' /\ keys'[j].revoked THEN 1 ELSE 0)
    <3>1. CASE j = k
      <4>1. Cardinality(EntriesOf(k, "key.revoked")') = Cardinality(EntriesOf(k, "key.revoked")) + 1
        BY <1>1, <1>2, <1>3, EntriesGrow
      <4>2. QED
        BY <1>1, <1>4, <1>5, <1>7, <2>1, <3>1, <4>1
    <3>2. CASE j # k
      <4>1. EntriesOf(j, "key.revoked")' = EntriesOf(j, "key.revoked")
        BY <1>1, <1>2, <1>3, <1>8, <3>2, EntriesGrow
      <4>2. QED
        BY <1>5, <1>7, <2>1, <3>2, <4>1
    <3>3. QED
      BY <3>1, <3>2
  <2>4. \A n \in EntriesOf(j, "key.created") : n \in 1 .. Len(keyAudit)
    BY DEF EntriesOf
  <2>5. \A n \in EntriesOf(j, "key.created"), m \in 1 .. Len(keyAudit') :
          keyAudit'[m].actor = j \/ keyAudit'[m].key = j => n <= m
    <3> SUFFICES ASSUME NEW n \in EntriesOf(j, "key.created"), NEW m \in 1 .. Len(keyAudit'),
                        keyAudit'[m].actor = j \/ keyAudit'[m].key = j
                 PROVE  n <= m
      OBVIOUS
    <3>1. CASE m \in 1 .. Len(keyAudit)
      BY <1>6, <2>1, <3>1
    <3>2. CASE m = Len(keyAudit) + 1
      BY <1>3, <2>4, <3>2
    <3>3. QED
      BY <1>3, <1>6, <3>1, <3>2
  <2>6. QED
    BY <1>7, <2>1, <2>2, <2>3, <2>5
<1>9. AuditTellsKeys'
  BY <1>8 DEF AuditTellsKeys
<1>10. UsesCounted' /\ \A j \in KeyIds : ~Issued(j)' => UsersOf(j)' = {}
  <2>1. \A j \in KeyIds : Issued(j) => Issued(j)' /\ keys'[j].uses = keys[j].uses
    BY <1>4, <1>5, <1>7
  <2>2. QED
    BY <1>7, <2>1, UsesRest
<1>11. \A n \in 1 .. Len(keyAudit') :
         /\ keys'[keyAudit'[n].key] # NoKey
         /\ keyAudit'[n].actor \in KeyIds => keys'[keyAudit'[n].actor] # NoKey
  <2> SUFFICES ASSUME NEW n \in 1 .. Len(keyAudit')
               PROVE  /\ keys'[keyAudit'[n].key] # NoKey
                      /\ keyAudit'[n].actor \in KeyIds => keys'[keyAudit'[n].actor] # NoKey
    OBVIOUS
  <2>1. CASE n \in 1 .. Len(keyAudit)
    <3>1. /\ keyAudit'[n] = keyAudit[n] /\ keyAudit[n].key \in KeyIds /\ Issued(keyAudit[n].key)
          /\ keyAudit[n].actor \in KeyIds => Issued(keyAudit[n].actor)
      BY <1>3, <1>6, <2>1, AuditEntries DEF AccountInv, TracesIssued
    <3>2. QED
      BY <1>7, <3>1 DEF Issued
  <2>2. CASE n = Len(keyAudit) + 1
    <3>1. keyAudit'[n].key = k /\ keyAudit'[n].actor = actor
      BY <1>2, <1>6, <2>2
    <3>2. actor \in KeyIds => Issued(actor)
      BY ApiKeysAssumption DEF Browser
    <3>3. QED
      BY <1>1, <1>7, <3>1, <3>2 DEF Issued
  <2>3. QED
    BY <1>3, <1>6, <2>1, <2>2
<1>12. QED
  BY <1>9, <1>10, <1>11 DEF AccountInv, TracesIssued, Issued

\* Tables that rest, and counts that rest, keep the account.
LEMMA TablesAccounted ==
  ASSUME AccountInv, UNCHANGED <<keys, keyAudit>>, \A k \in KeyIds : UsersOf(k)' = UsersOf(k)
  PROVE  AccountInv'
<1>1. keys' = keys /\ keyAudit' = keyAudit
  OBVIOUS
<1>2. AuditTellsKeys'
  <2>1. \A k \in KeyIds : \A action : EntriesOf(k, action)' = EntriesOf(k, action)
    BY <1>1 DEF EntriesOf
  <2>2. QED
    BY <1>1, <2>1 DEF AccountInv, AuditTellsKeys, Issued
<1>3. UsesCounted' /\ \A k \in KeyIds : ~Issued(k)' => UsersOf(k)' = {}
  BY <1>1, UsesRest DEF Issued
<1>4. QED
  BY <1>1, <1>2, <1>3 DEF AccountInv, TracesIssued, Issued

\* A request that has been read is not counted yet.
LEMMA AuthorizeAccounts ==
  ASSUME KeysInv, AccountInv, NEW b \in Bearers, NEW k \in KeyIds, NEW scope \in Scopes,
         Authorize(b, k, scope)
  PROVE  AccountInv'
<1>1. bearer = [c \in Bearers |-> bearer[c]] /\ bearer[b].step = "Idle"
  BY DEF KeysInv, KeysType, Authorize
<1>2. \A c \in Bearers \ {b} : bearer'[c] = bearer[c]
  BY <1>1 DEF Authorize
<1>3. bearer'[b].step \in {"Read", "Refused"}
  BY <1>1 DEF Authorize
<1>4. \A j \in KeyIds : UsersOf(j)' = UsersOf(j)
  BY <1>1, <1>2, <1>3 DEF UsersOf
<1>5. QED
  BY <1>4, TablesAccounted DEF Authorize

\* One request is counted, and its key's count is one more.
LEMMA CountAccounts ==
  ASSUME KeysInv, AccountInv, NEW b \in Bearers, CountUse(b)
  PROVE  AccountInv'
<1>0. PICK k \in KeyIds : k = bearer[b].key
  BY DEF KeysInv, SeesKey, CountUse
<1>1. KeysType /\ SeesKey(b) /\ bearer[b].step = "Read"
  BY DEF KeysInv, CountUse
<1> DEFINE row == [keys[k] EXCEPT !.uses = UsesAfter(b)]
<1>2. k \in KeyIds /\ Issued(k) /\ keys[k] \in KeyRow
  BY <1>0, <1>1 DEF SeesKey, KeysType
<1>3. /\ keys' = [keys EXCEPT ![k] = row] /\ keyAudit' = keyAudit
  BY <1>0 DEF CountUse
<1>4. /\ row \in KeyRow /\ row.revoked = keys[k].revoked /\ row.uses = keys[k].uses + 1
  BY <1>0, <1>2 DEF UsesAfter, KeyRow
<1>5. /\ \A c \in Bearers \ {b} : bearer'[c] = bearer[c]
      /\ bearer'[b].step = "Authorized" /\ bearer'[b].key = k
  BY <1>0, <1>1 DEF CountUse, KeysType
<1> HIDE DEF row
<1>6. /\ keys'[k] = row /\ row # NoKey /\ \A j \in KeyIds \ {k} : keys'[j] = keys[j]
  BY <1>1, <1>2, <1>3, <1>4, RowIsIssued DEF KeysType
<1>7. \A j \in KeyIds : /\ Issued(j)' <=> Issued(j)
                        /\ Issued(j) => keys'[j].revoked = keys[j].revoked
  BY <1>2, <1>4, <1>6 DEF Issued
<1>8. AuditTellsKeys'
  <2>1. \A j \in KeyIds : \A action : EntriesOf(j, action)' = EntriesOf(j, action)
    BY <1>3 DEF EntriesOf
  <2>2. QED
    BY <1>3, <1>7, <2>1 DEF AccountInv, AuditTellsKeys
<1>9. /\ UsersOf(k)' = UsersOf(k) \cup {b} /\ b \notin UsersOf(k)
      /\ \A j \in KeyIds \ {k} : UsersOf(j)' = UsersOf(j)
  BY <1>1, <1>5 DEF UsersOf
<1>10. Cardinality(UsersOf(k)') = Cardinality(UsersOf(k)) + 1
  <2>1. UsersOf(k) \subseteq Bearers
    BY DEF UsersOf
  <2>2. IsFiniteSet(UsersOf(k))
    BY <2>1, ApiKeysAssumption, FS_Subset
  <2>3. QED
    BY <1>9, <2>2, FS_AddElement
<1>11. UsesCounted'
  <2>1. \A j \in KeyIds : Issued(j) => keys[j].uses = Cardinality(UsersOf(j))
    BY DEF AccountInv, UsesCounted, UsersOf
  <2>2. ASSUME NEW j \in KeyIds, Issued(j)' PROVE keys'[j].uses = Cardinality(UsersOf(j)')
    <3>1. CASE j = k
      <4>1. keys[k].uses = Cardinality(UsersOf(k)) /\ keys'[k].uses = keys[k].uses + 1
        BY <1>2, <1>4, <1>6, <2>1
      <4>2. keys'[k].uses = Cardinality(UsersOf(k)')
        BY <1>10, <4>1
      <4>3. QED
        BY <3>1, <4>2
    <3>2. CASE j # k
      <4>1. keys'[j] = keys[j] /\ Issued(j)
        BY <1>6, <1>7, <2>2, <3>2
      <4>2. UsersOf(j)' = UsersOf(j)
        BY <1>9, <3>2
      <4>3. keys[j].uses = Cardinality(UsersOf(j))
        BY <2>1, <4>1
      <4>4. QED
        BY <4>1, <4>2, <4>3
    <3>3. QED
      BY <3>1, <3>2
  <2>3. QED
    BY <2>2 DEF UsesCounted, UsersOf
<1>12. TracesIssued'
  <2>1. \A j \in KeyIds : ~Issued(j)' => UsersOf(j)' = {}
    BY <1>2, <1>7, <1>9 DEF AccountInv, TracesIssued
  <2>2. \A n \in 1 .. Len(keyAudit) : keyAudit[n].key \in KeyIds
    BY <1>1, AuditEntries
  <2>3. \A n \in 1 .. Len(keyAudit) :
          /\ Issued(keyAudit[n].key)'
          /\ keyAudit[n].actor \in KeyIds => Issued(keyAudit[n].actor)'
    <3>1. \A n \in 1 .. Len(keyAudit) :
            /\ keys'[keyAudit[n].key] # NoKey
            /\ keyAudit[n].actor \in KeyIds => keys'[keyAudit[n].actor] # NoKey
      BY <1>7, <2>2 DEF AccountInv, TracesIssued, Issued
    <3>2. QED
      BY <1>3, <3>1 DEF Issued
  <2>4. QED
    BY <1>3, <2>1, <2>3 DEF TracesIssued
<1>13. QED
  BY <1>8, <1>11, <1>12 DEF AccountInv

\* A request acts with a key that was issued.
LEMMA ActorIssued ==
  ASSUME KeysInv, NEW b \in Bearers, bearer[b].step = "Authorized"
  PROVE  bearer[b].key \in KeyIds /\ Issued(bearer[b].key)
BY DEF KeysInv, SeesKey

(***************************************************************************)
(* Revoked keys are dead, and audit and use counts account for every key,  *)
(* for any number of keys and of requests that overlap.                    *)
(***************************************************************************)
THEOREM KeysAreSound == KeysSpec => []KeysSound
<1>1. KeysInit => AccountInv
  <2> SUFFICES ASSUME KeysInit PROVE AccountInv
    OBVIOUS
  <2>1. \A k \in KeyIds : ~Issued(k)
    BY DEF KeysInit, Issued
  <2>2. \A k \in KeyIds : \A action : EntriesOf(k, action) = {}
    BY DEF KeysInit, EntriesOf
  <2>3. AuditTellsKeys
    BY <2>1, <2>2, FS_EmptySet DEF AuditTellsKeys
  <2>4. UsesCounted
    BY <2>1 DEF UsesCounted
  <2>5. TracesIssued
    BY DEF KeysInit, TracesIssued, UsersOf
  <2>6. QED
    BY <2>3, <2>4, <2>5 DEF AccountInv
<1>2. KeysInv /\ AccountInv /\ [KeysNext]_keysVars => AccountInv'
  <2> SUFFICES ASSUME KeysInv, AccountInv, [KeysNext]_keysVars PROVE AccountInv'
    OBVIOUS
  <2>1. ASSUME NEW k \in KeyIds, NEW scopes \in SUBSET Scopes \ {{}}, NEW term \in Terms,
               BrowserCreates(k, scopes, term)
        PROVE  AccountInv'
    <3>1. InsertKey(k, scopes, keyTime + term, Browser) /\ bearer' = bearer
      BY <2>1 DEF BrowserCreates
    <3>2. keyTime + term \in Int
      BY ApiKeysAssumption DEF KeysInv, KeysType
    <3>3. \A j \in KeyIds : UsersOf(j)' = UsersOf(j)
      BY <3>1 DEF UsersOf
    <3>4. QED
      BY <3>1, <3>2, <3>3, InsertAccounts
  <2>2. ASSUME NEW k \in KeyIds, NEW scopes \in SUBSET Scopes \ {{}}, NEW term \in Terms,
               NEW b \in Bearers, CreateChild(b, k, scopes, term)
        PROVE  AccountInv'
    <3>1. /\ bearer[b].step = "Authorized" /\ EndActed(b)
          /\ InsertKey(k, scopes, ChildExpiry(bearer[b].key, term), bearer[b].key)
      BY <2>2 DEF CreateChild, Acting
    <3>2. bearer[b].key \in KeyIds /\ Issued(bearer[b].key)
      BY <3>1, ActorIssued
    <3>3. keys[bearer[b].key].expires \in Int /\ keyTime \in Int /\ term \in Int
      BY <3>2, ApiKeysAssumption DEF KeysInv, KeysType, KeyRow
    <3>4. ChildExpiry(bearer[b].key, term) \in Int
      BY <3>3 DEF ChildExpiry
    <3>5. \A j \in KeyIds : UsersOf(j)' = UsersOf(j)
      BY <3>1, UsersRest DEF EndActed
    <3>6. QED
      BY <3>1, <3>2, <3>4, <3>5, InsertAccounts
  <2>3. ASSUME NEW k \in KeyIds, BrowserRevokes(k) PROVE AccountInv'
    <3>1. RevokeKey(k, Browser) /\ bearer' = bearer
      BY <2>3 DEF BrowserRevokes
    <3>2. \A j \in KeyIds : UsersOf(j)' = UsersOf(j)
      BY <3>1 DEF UsersOf
    <3>3. QED
      BY <3>1, <3>2, RevokeAccounts
  <2>4. ASSUME NEW k \in KeyIds, NEW b \in Bearers, RevokeWithKey(b, k) PROVE AccountInv'
    <3>1. /\ bearer[b].step = "Authorized" /\ EndActed(b)
          /\ RevokeKey(k, bearer[b].key)
      BY <2>4 DEF RevokeWithKey, Acting
    <3>2. bearer[b].key \in KeyIds /\ Issued(bearer[b].key)
      BY <3>1, ActorIssued
    <3>3. \A j \in KeyIds : UsersOf(j)' = UsersOf(j)
      BY <3>1, UsersRest DEF EndActed
    <3>4. QED
      BY <3>1, <3>2, <3>3, RevokeAccounts
  <2>5. ASSUME NEW k \in KeyIds, NEW b \in Bearers, NEW scope \in Scopes, Authorize(b, k, scope)
        PROVE  AccountInv'
    BY <2>5, AuthorizeAccounts
  <2>6. ASSUME NEW b \in Bearers, CountUse(b) PROVE AccountInv'
    BY <2>6, CountAccounts
  <2>7. ASSUME NEW b \in Bearers, ActWithKey(b) \/ EndUnchanged(b) PROVE AccountInv'
    <3>1. /\ UNCHANGED <<keys, keyAudit>>
          /\ \/ /\ bearer[b].step = "Authorized"
                /\ EndBearer(b, "Acted") \/ EndBearer(b, "Failed")
             \/ bearer[b].step = "Read" /\ EndBearer(b, "Uncounted")
      BY <2>7 DEF ActWithKey, EndUnchanged, Acting
    <3>2. \A j \in KeyIds : UsersOf(j)' = UsersOf(j)
      BY <3>1, UsersRest
    <3>3. QED
      BY <3>1, <3>2, TablesAccounted
  <2>8. ASSUME KeyTick \/ UNCHANGED keysVars PROVE AccountInv'
    <3>1. UNCHANGED <<keys, keyAudit>> /\ bearer' = bearer
      BY <2>8 DEF KeyTick, keysVars
    <3>2. \A j \in KeyIds : UsersOf(j)' = UsersOf(j)
      BY <3>1 DEF UsersOf
    <3>3. QED
      BY <3>1, <3>2, TablesAccounted
  <2>9. QED
    BY <2>1, <2>2, <2>3, <2>4, <2>5, <2>6, <2>7, <2>8 DEF KeysNext
<1>3. AccountInv => AuditTellsKeys /\ UsesCounted
  BY DEF AccountInv
<1>4. QED
  BY <1>1, <1>2, <1>3, KeysInvariance, RevokedKeysAreDead, PTL DEF KeysSpec, KeysSound

-----------------------------------------------------------------------------
(***************************************************************************)
(* The console                                                             *)
(***************************************************************************)
PageState ==
  [view : Int, seen : SUBSET Intents, pending : {"no", "sent", "ok", "failed"}, opening : Nat]

Sent == [from : Pages, opening : Nat, intent : Intents, expected : Int]

ConsoleType ==
  /\ desk \in Seq(Pages \X Intents) /\ wire \subseteq Sent
  /\ page \in [Pages -> PageState] /\ mishaps.reloads \in Nat
  /\ mishaps = [losses |-> mishaps.losses, reloads |-> mishaps.reloads]

\* What a page shows of the revision it has loaded is all there is of it, for
\* as long as that revision is the server's.
ShowsAll(p) ==
  page[p].view <= Revision /\ (page[p].view = Revision => Carried(p) \subseteq page[p].seen)

\* A request that will be carried out asks for what was not done.
AsksForNew(request) ==
  /\ request.expected <= Revision
  /\ request.expected = Revision => request.intent \notin Carried(request.from)

ConsoleInv ==
  /\ ConsoleType /\ ChangeMadeOnce
  /\ \A p \in Pages : ShowsAll(p)
  /\ \A request \in wire : AsksForNew(request)

\* Most steps change what one page waits for, and nothing of what it shows.
LEMMA PendingChanges ==
  ASSUME ConsoleType, NEW p \in Pages, NEW pending \in {"no", "sent", "ok", "failed"},
         page' = [page EXCEPT ![p].pending = pending]
  PROVE  /\ page' \in [Pages -> PageState]
         /\ \A q \in Pages : page'[q].view = page[q].view /\ page'[q].seen = page[q].seen
<1> DEFINE next == [page[p] EXCEPT !.pending = pending]
<1>1. next \in PageState /\ next.view = page[p].view /\ next.seen = page[p].seen
  BY DEF ConsoleType, PageState
<1>2. page' = [page EXCEPT ![p] = next]
  OBVIOUS
<1> HIDE DEF next
<1>3. QED
  BY <1>1, <1>2 DEF ConsoleType

\* While the server does nothing, pages and requests stay right that are not
\* touched.
LEMMA DeskRests ==
  ASSUME desk' = desk
  PROVE  /\ \A p \in Pages : page'[p].view = page[p].view /\ page'[p].seen = page[p].seen /\ ShowsAll(p)
              => ShowsAll(p)'
         /\ \A request : AsksForNew(request) => AsksForNew(request)'
         /\ ChangeMadeOnce => ChangeMadeOnce'
<1>1. Revision' = Revision /\ \A p : Carried(p)' = Carried(p)
  BY DEF Revision, Carried
<1>2. QED
  BY <1>1 DEF ShowsAll, AsksForNew, ChangeMadeOnce

\* A page that loads the state shows all of it.
LEMMA LoadingKeeps ==
  ASSUME ConsoleInv, NEW p \in Pages, page' = Loaded(p), UNCHANGED <<desk, wire, mishaps>>
  PROVE  ConsoleInv'
<1>1. Revision \in Nat /\ Revision' = Revision /\ Carried(p)' = Carried(p) /\ Carried(p) \subseteq Intents
  BY DEF ConsoleInv, ConsoleType, Revision, Carried
<1>2. PICK q \in PageState, view \in Int, seen \in SUBSET Intents :
        q = page[p] /\ view = Revision /\ seen = Carried(p)
  BY <1>1 DEF ConsoleInv, ConsoleType
<1> DEFINE next == [q EXCEPT !.view = view, !.seen = seen, !.pending = "no"]
<1>3. next \in PageState /\ next.view = view /\ next.seen = seen
  BY DEF PageState
<1>4. page' = [page EXCEPT ![p] = next]
  BY <1>2 DEF Loaded
<1> HIDE DEF next
<1>5. /\ page' \in [Pages -> PageState] /\ page'[p] = next
      /\ \A o \in Pages \ {p} : page'[o] = page[o]
  BY <1>3, <1>4 DEF ConsoleInv, ConsoleType
<1>6. ShowsAll(p)'
  BY <1>1, <1>2, <1>3, <1>5 DEF ShowsAll
<1>7. ConsoleType'
  BY <1>5 DEF ConsoleInv, ConsoleType
<1>8. QED
  BY <1>5, <1>6, <1>7, DeskRests DEF ConsoleInv

\* A page that is reloaded shows nothing yet.
LEMMA ReloadKeeps ==
  ASSUME ConsoleInv, NEW p \in Pages, Reload(p)
  PROVE  ConsoleInv'
<1>1. /\ page' = [page EXCEPT ![p] = Opened(mishaps.reloads + 1)]
      /\ mishaps' = [mishaps EXCEPT !.reloads = @ + 1]
      /\ UNCHANGED <<desk, wire>>
  BY DEF Reload
<1>2. ConsoleType'
  <2>1. mishaps' = [losses |-> mishaps'.losses, reloads |-> mishaps'.reloads] /\ mishaps'.reloads \in Nat
    BY <1>1 DEF ConsoleInv, ConsoleType
  <2>2. page' \in [Pages -> PageState]
    BY <1>1 DEF ConsoleInv, ConsoleType, PageState, Opened, NoState
  <2>3. QED
    BY <1>1, <2>1, <2>2 DEF ConsoleInv, ConsoleType
<1>3. ShowsAll(p)'
  <2>1. page'[p].view = NoState /\ Revision' \in Nat
    BY <1>1 DEF ConsoleInv, ConsoleType, Opened, Revision
  <2>2. QED
    BY <2>1 DEF ShowsAll, NoState
<1>4. \A q \in Pages \ {p} : page'[q] = page[q]
  BY <1>1 DEF ConsoleInv, ConsoleType
<1>5. QED
  BY <1>1, <1>2, <1>3, <1>4, DeskRests DEF ConsoleInv

\* What a page does not show at the server's revision has not been done.
LEMMA SendKeeps ==
  ASSUME ConsoleInv, NEW p \in Pages, NEW intent \in Intents, SendCommand(p, intent)
  PROVE  ConsoleInv'
<1> DEFINE request == [from |-> p, opening |-> page[p].opening, intent |-> intent,
                       expected |-> page[p].view]
<1>1. /\ intent \notin page[p].seen
      /\ page' = [page EXCEPT ![p].pending = "sent"]
      /\ wire' = wire \cup {request} /\ UNCHANGED <<desk, mishaps>>
  BY DEF SendCommand
<1>2. /\ page' \in [Pages -> PageState]
      /\ \A q \in Pages : page'[q].view = page[q].view /\ page'[q].seen = page[q].seen
  BY <1>1, PendingChanges DEF ConsoleInv
<1>3. request \in Sent
  BY DEF ConsoleInv, ConsoleType, PageState, Sent
<1>4. AsksForNew(request)
  BY <1>1 DEF ConsoleInv, ShowsAll, AsksForNew
<1> HIDE DEF request
<1>5. ConsoleType'
  BY <1>1, <1>2, <1>3 DEF ConsoleInv, ConsoleType
<1>6. QED
  BY <1>1, <1>2, <1>4, <1>5, DeskRests DEF ConsoleInv

\* An answer changes what a page waits for, or nothing.
LEMMA AnswerChanges ==
  ASSUME ConsoleInv, NEW request \in wire, NEW outcome \in {"ok", "failed"},
         AnswerTo(request, outcome), mishaps' = mishaps \/ Loses
  PROVE  /\ page' \in [Pages -> PageState]
         /\ \A q \in Pages : page'[q].view = page[q].view /\ page'[q].seen = page[q].seen
         /\ mishaps'.reloads \in Nat
         /\ mishaps' = [losses |-> mishaps'.losses, reloads |-> mishaps'.reloads]
<1>1. request.from \in Pages
  BY DEF ConsoleInv, ConsoleType, Sent
<1>2. CASE page' = page
  BY <1>2 DEF ConsoleInv, ConsoleType, Loses
<1>3. CASE page' = [page EXCEPT ![request.from].pending = outcome]
  BY <1>1, <1>3, PendingChanges DEF ConsoleInv, ConsoleType, Loses
<1>4. QED
  BY <1>2, <1>3 DEF AnswerTo

\* The server carries out what the current revision asks for; whatever else
\* was sent or loaded is of an older one.
LEMMA CarryKeeps ==
  ASSUME ConsoleInv, NEW request \in wire, Carry(request)
  PROVE  ConsoleInv'
<1> DEFINE change == <<request.from, request.intent>>
<1>1. /\ wire' = wire \ {request} /\ request.expected = Revision
      /\ desk' = Append(desk, change)
  BY DEF Carry
<1>2. /\ page' \in [Pages -> PageState]
      /\ \A q \in Pages : page'[q].view = page[q].view /\ page'[q].seen = page[q].seen
      /\ mishaps'.reloads \in Nat
      /\ mishaps' = [losses |-> mishaps'.losses, reloads |-> mishaps'.reloads]
  <2>1. CASE AnswerTo(request, "ok") /\ UNCHANGED mishaps
    BY <2>1, AnswerChanges
  <2>2. CASE Loses /\ AnswerTo(request, "failed")
    BY <2>2, AnswerChanges
  <2>3. QED
    BY <2>1, <2>2 DEF Carry
<1>3. request.from \in Pages /\ request.intent \in Intents /\ change \in Pages \X Intents
  BY DEF ConsoleInv, ConsoleType, Sent
<1>4. request.intent \notin Carried(request.from)
  BY <1>1 DEF ConsoleInv, AsksForNew
<1>5. \A m \in 1 .. Len(desk) : desk[m] # change
  BY <1>3, <1>4 DEF Carried
<1> HIDE DEF change
<1>6. /\ Len(desk) \in Nat /\ Len(desk') = Len(desk) + 1
      /\ \A m \in 1 .. Len(desk) : desk'[m] = desk[m]
      /\ desk'[Len(desk) + 1] = change /\ desk' \in Seq(Pages \X Intents)
  BY <1>1, <1>3 DEF ConsoleInv, ConsoleType
<1>7. ChangeMadeOnce'
  BY <1>5, <1>6 DEF ConsoleInv, ChangeMadeOnce
<1>8. ASSUME NEW q \in Pages PROVE ShowsAll(q)'
  <2>1. page[q].view \in Int /\ page[q].view <= Len(desk)
    BY DEF ConsoleInv, ConsoleType, PageState, ShowsAll, Revision
  <2>2. page'[q].view < Len(desk')
    BY <1>2, <1>6, <2>1
  <2>3. QED
    BY <1>2, <1>6, <2>1, <2>2 DEF ShowsAll, Revision
<1>9. \A r \in wire' : AsksForNew(r)'
  BY <1>1, <1>6 DEF ConsoleInv, ConsoleType, Sent, AsksForNew, Revision
<1>10. ConsoleType'
  BY <1>1, <1>2, <1>6 DEF ConsoleInv, ConsoleType
<1>11. QED
  BY <1>7, <1>8, <1>9, <1>10 DEF ConsoleInv

\* Any other step leaves server, views and requests alone.
LEMMA QuietConsoleKeeps ==
  ASSUME ConsoleInv, desk' = desk, wire' \subseteq wire,
         page' \in [Pages -> PageState],
         \A q \in Pages : page'[q].view = page[q].view /\ page'[q].seen = page[q].seen,
         mishaps'.reloads \in Nat,
         mishaps' = [losses |-> mishaps'.losses, reloads |-> mishaps'.reloads]
  PROVE  ConsoleInv'
<1>1. ConsoleType'
  BY DEF ConsoleInv, ConsoleType
<1>2. QED
  BY <1>1, DeskRests DEF ConsoleInv

\* A change an administrator wants is made once, however answers are lost and
\* pages reloaded (admin.js, command): the revision of the page refuses it.
THEOREM ChangesAreMadeOnce == ConsoleSpec => []ChangeMadeOnce
<1>1. ConsoleInit => ConsoleInv
  BY DEF ConsoleInit, ConsoleInv, ConsoleType, ChangeMadeOnce, ShowsAll, Opened, NoState,
     PageState, Revision, Carried
<1>2. ConsoleInv /\ [ConsoleNext]_consoleVars => ConsoleInv'
  <2> SUFFICES ASSUME ConsoleInv, [ConsoleNext]_consoleVars PROVE ConsoleInv'
    OBVIOUS
  <2>1. ASSUME NEW p \in Pages, Open(p) PROVE ConsoleInv'
    BY <2>1, LoadingKeeps DEF Open
  <2>2. ASSUME NEW p \in Pages, LoadAfter(p) PROVE ConsoleInv'
    <3>1. CASE page' = Loaded(p) /\ UNCHANGED mishaps
      BY <2>2, <3>1, LoadingKeeps DEF LoadAfter
    <3>2. CASE Loses /\ page' = [page EXCEPT ![p].pending = "failed"]
      <4>1. /\ page' \in [Pages -> PageState]
            /\ \A q \in Pages : page'[q].view = page[q].view /\ page'[q].seen = page[q].seen
        BY <3>2, PendingChanges DEF ConsoleInv
      <4>2. /\ mishaps'.reloads \in Nat
            /\ mishaps' = [losses |-> mishaps'.losses, reloads |-> mishaps'.reloads]
        BY <3>2 DEF ConsoleInv, ConsoleType, Loses
      <4>3. QED
        BY <2>2, <4>1, <4>2, QuietConsoleKeeps DEF LoadAfter
    <3>3. QED
      BY <2>2, <3>1, <3>2 DEF LoadAfter
  <2>3. ASSUME NEW p \in Pages, ShowError(p) PROVE ConsoleInv'
    <3>1. page' = [page EXCEPT ![p].pending = "no", ![p].view = page[p].view]
          /\ UNCHANGED <<desk, wire, mishaps>>
      BY <2>3 DEF ShowError, ViewAfterError
    <3>2. page' = [page EXCEPT ![p].pending = "no"]
      <4>1. [page[p] EXCEPT !.pending = "no", !.view = page[p].view] = [page[p] EXCEPT !.pending = "no"]
        BY DEF ConsoleInv, ConsoleType, PageState
      <4>2. QED
        BY <3>1, <4>1
    <3>3. /\ page' \in [Pages -> PageState]
          /\ \A q \in Pages : page'[q].view = page[q].view /\ page'[q].seen = page[q].seen
      BY <3>2, PendingChanges DEF ConsoleInv
    <3>4. QED
      BY <3>1, <3>3, QuietConsoleKeeps DEF ConsoleInv, ConsoleType
  <2>4. ASSUME NEW request \in wire, RefuseCommand(request) PROVE ConsoleInv'
    <3>1. /\ AnswerTo(request, "failed") /\ UNCHANGED desk /\ wire' = wire \ {request}
          /\ mishaps' = mishaps \/ Loses
      BY <2>4 DEF RefuseCommand
    <3>2. QED
      BY <3>1, AnswerChanges, QuietConsoleKeeps
  <2>5. CASE UNCHANGED consoleVars
    BY <2>5, QuietConsoleKeeps DEF consoleVars, ConsoleInv, ConsoleType
  <2>6. QED
    BY <2>1, <2>2, <2>3, <2>4, <2>5, ReloadKeeps, SendKeeps, CarryKeeps DEF ConsoleNext
<1>3. ConsoleInv => ChangeMadeOnce
  BY DEF ConsoleInv
<1>4. QED
  BY <1>1, <1>2, <1>3, PTL DEF ConsoleSpec

-----------------------------------------------------------------------------
(***************************************************************************)
(* Web sessions                                                            *)
(***************************************************************************)
AttemptRow == [standing : BOOLEAN, expires : Int, consumed : Int, starter : Browsers]
SessionRow == [standing : BOOLEAN, expires : Int, revoked : Int]

OpenSteps == {"Received", "Refused", "Consumed", "Admin", "Created"}

SessionsType ==
  /\ attempts = [a \in Attempts |-> attempts[a]]
  /\ \A a \in Attempts : ~Unused(a) => attempts[a] \in AttemptRow
  /\ sessions = [c \in Callbacks |-> sessions[c]]
  /\ \A c \in Callbacks : Signed(c) => sessions[c] \in SessionRow
  /\ jar \in [Browsers -> [oauth : Attempts \cup {NoCookie}, session : Callbacks \cup {NoCookie}]]
  /\ callback = [c \in Callbacks |-> callback[c]]
  /\ \A c \in Callbacks :
       \/ callback[c] \in [step : {"Idle"}]
       \/ callback[c] \in [step : {"Done"}, from : Browsers, attempt : Attempts]
       \/ callback[c] \in [step : OpenSteps, from : Browsers, attempt : Attempts,
                           binding : Attempts \cup {NoCookie}]
  /\ authTime \in Nat

\* An attempt's binding is with the browser that began it.
BoundTo(a, b) == a \in Attempts /\ ~Unused(a) /\ attempts[a].starter = b

CookieInv(b) == jar[b].oauth # NoCookie => BoundTo(jar[b].oauth, b)

\* Who has consumed its attempt.
Winner(c) == callback[c].step \in {"Consumed", "Admin", "Created"} \/ Signed(c)

CallbackInv(c) ==
  /\ callback[c].step = "Received" => BoundTo(callback[c].binding, callback[c].from)
  /\ Winner(c) =>
       /\ BoundTo(callback[c].attempt, callback[c].from)
       /\ attempts[callback[c].attempt].consumed # NotYet
  /\ Signed(c) => callback[c].step \in {"Created", "Done"}

OneWinner ==
  \A c, d \in Callbacks : Winner(c) /\ Winner(d) /\ callback[c].attempt = callback[d].attempt => c = d

SessionsInv ==
  /\ SessionsType /\ OneWinner /\ LiveSessionKept
  /\ \A b \in Browsers : CookieInv(b)
  /\ \A c \in Callbacks : CallbackInv(c)

\* A stored row is told apart from no row.
LEMMA StoredRows ==
  /\ \A row \in AttemptRow : row # NoRow
  /\ \A row \in SessionRow : row # NoRow
<1>1. \A row \in AttemptRow : "expires" \in DOMAIN row
  BY DEF AttemptRow
<1>2. \A row \in SessionRow : "expires" \in DOMAIN row
  BY DEF SessionRow
<1>3. "expires" \notin DOMAIN NoRow
  BY DEF NoRow
<1>4. QED
  BY <1>1, <1>2, <1>3

\* Attempts stay with who began them, and consumed when they are.
AttemptsGrow ==
  \A a \in Attempts : ~Unused(a) =>
    /\ ~Unused(a)' /\ attempts'[a].starter = attempts[a].starter
    /\ attempts[a].consumed # NotYet => attempts'[a].consumed # NotYet

\* While attempts grow, what cookies and callbacks rely on stays so.
LEMMA BindingsKept ==
  ASSUME AttemptsGrow
  PROVE  /\ \A b \in Browsers : CookieInv(b) /\ jar'[b].oauth \in {jar[b].oauth, NoCookie} => CookieInv(b)'
         /\ \A c \in Callbacks :
              /\ CallbackInv(c) /\ callback'[c] = callback[c] /\ (Signed(c)' <=> Signed(c))
              => CallbackInv(c)' /\ (Winner(c)' <=> Winner(c))
<1>1. \A a, b : BoundTo(a, b) => BoundTo(a, b)'
  BY DEF AttemptsGrow, BoundTo
<1>2. ASSUME NEW b \in Browsers, CookieInv(b), jar'[b].oauth \in {jar[b].oauth, NoCookie}
      PROVE  CookieInv(b)'
  BY <1>1, <1>2 DEF CookieInv
<1>3. ASSUME NEW c \in Callbacks, CallbackInv(c), callback'[c] = callback[c], Signed(c)' <=> Signed(c)
      PROVE  CallbackInv(c)' /\ (Winner(c)' <=> Winner(c))
  <2>1. Winner(c)' <=> Winner(c)
    BY <1>3 DEF Winner
  <2>2. Winner(c) => attempts'[callback[c].attempt].consumed # NotYet
    BY <1>3 DEF CallbackInv, AttemptsGrow, BoundTo
  <2>3. QED
    BY <1>1, <1>3, <2>1, <2>2 DEF CallbackInv
<1>4. QED
  BY <1>2, <1>3

\* Steps that touch neither sessions nor the clock.
LEMMA SessionsRest ==
  ASSUME UNCHANGED <<sessions, authTime>>
  PROVE  (LiveSessionKept => LiveSessionKept') /\ \A c \in Callbacks : Signed(c)' <=> Signed(c)
BY DEF LiveSessionKept, Signed

\* A browser begins a sign-in; it alone may hold the binding.
LEMMA StartLoginKeeps ==
  ASSUME SessionsInv, NEW b \in Browsers, NEW a \in Attempts, NEW answered \in BOOLEAN,
         StartLogin(b, a, answered), AttemptTtl \in Nat
  PROVE  SessionsInv'
<1> DEFINE row == [standing |-> TRUE, expires |-> authTime + AttemptTtl, consumed |-> NotYet, starter |-> b]
<1>1. /\ Unused(a) /\ attempts' = [attempts EXCEPT ![a] = row]
      /\ jar' = IF answered THEN [jar EXCEPT ![b].oauth = a] ELSE jar
      /\ UNCHANGED <<sessions, callback, asking, authTime>>
  BY DEF StartLogin
<1>2. row \in AttemptRow /\ row.starter = b
  BY DEF AttemptRow, SessionsInv, SessionsType, NotYet
<1> HIDE DEF row
<1>3. /\ attempts' = [x \in Attempts |-> attempts'[x]]
      /\ attempts'[a] = row /\ \A x \in Attempts \ {a} : attempts'[x] = attempts[x]
  BY <1>1 DEF SessionsInv, SessionsType
<1>4. row # NoRow
  BY <1>2, StoredRows
<1>5. AttemptsGrow
  BY <1>1, <1>3, <1>4 DEF AttemptsGrow, Unused
<1>6. jar' \in [Browsers -> [oauth : Attempts \cup {NoCookie}, session : Callbacks \cup {NoCookie}]]
  BY <1>1 DEF SessionsInv, SessionsType
<1>7. SessionsType'
  <2>1. \A x \in Attempts : ~Unused(x)' => attempts'[x] \in AttemptRow
    BY <1>2, <1>3 DEF SessionsInv, SessionsType, Unused
  <2>2. QED
    BY <1>1, <1>3, <1>6, <2>1 DEF SessionsInv, SessionsType, Signed
<1>8. ASSUME NEW x \in Browsers PROVE CookieInv(x)'
  <2>1. CASE jar'[x].oauth \in {jar[x].oauth, NoCookie}
    BY <1>5, <2>1, BindingsKept DEF SessionsInv
  <2>2. CASE x = b /\ jar'[x].oauth = a
    BY <1>2, <1>3, <1>4, <2>2 DEF CookieInv, BoundTo, Unused
  <2>3. QED
    BY <1>1, <2>1, <2>2 DEF SessionsInv, SessionsType
<1>9. \A c \in Callbacks : CallbackInv(c)' /\ (Winner(c)' <=> Winner(c))
  BY <1>1, <1>5, BindingsKept, SessionsRest DEF SessionsInv
<1>10. OneWinner' /\ LiveSessionKept'
  BY <1>1, <1>9, SessionsRest DEF SessionsInv, OneWinner
<1>11. QED
  BY <1>7, <1>8, <1>9, <1>10 DEF SessionsInv

\* A step of one callback that leaves sessions and clock alone: what has to be
\* shown is that it still has its cookie or its attempt.
LEMMA CallbackMoves ==
  ASSUME SessionsInv, NEW c \in Callbacks, NEW next,
         callback' = [callback EXCEPT ![c] = next],
         UNCHANGED <<sessions, jar, authTime>>,
         AttemptsGrow, attempts' = [a \in Attempts |-> attempts'[a]],
         \A a \in Attempts : ~Unused(a)' => attempts'[a] \in AttemptRow,
         \/ next \in [step : {"Done"}, from : Browsers, attempt : Attempts]
         \/ next \in [step : OpenSteps, from : Browsers, attempt : Attempts,
                      binding : Attempts \cup {NoCookie}],
         CallbackInv(c)',
         \A d \in Callbacks \ {c} : Winner(c)' /\ Winner(d) => callback[d].attempt # next.attempt
  PROVE  SessionsInv'
<1>1. /\ callback' = [d \in Callbacks |-> callback'[d]]
      /\ callback'[c] = next /\ \A d \in Callbacks \ {c} : callback'[d] = callback[d]
  BY DEF SessionsInv, SessionsType
<1>2. SessionsType'
  BY <1>1 DEF SessionsInv, SessionsType, Signed
<1>3. \A b \in Browsers : CookieInv(b)'
  BY BindingsKept DEF SessionsInv
<1>4. \A d \in Callbacks \ {c} : CallbackInv(d)' /\ (Winner(d)' <=> Winner(d))
  BY <1>1, BindingsKept, SessionsRest DEF SessionsInv
<1>5. OneWinner'
  BY <1>1, <1>4 DEF SessionsInv, OneWinner
<1>6. LiveSessionKept'
  BY SessionsRest DEF SessionsInv
<1>7. QED
  BY <1>2, <1>3, <1>4, <1>5, <1>6 DEF SessionsInv

\* A callback arrives with the cookie of its browser.
LEMMA ReturnKeeps ==
  ASSUME SessionsInv, NEW c \in Callbacks, NEW b \in Browsers, NEW a \in Attempts, Return(c, b, a)
  PROVE  SessionsInv'
<1> DEFINE next == [step |-> IF jar[b].oauth = NoCookie THEN "Refused" ELSE "Received",
                    from |-> b, attempt |-> a, binding |-> jar[b].oauth]
<1>1. /\ callback[c].step = "Idle" /\ callback' = [callback EXCEPT ![c] = next]
      /\ UNCHANGED <<attempts, sessions, jar, asking, authTime>>
  BY DEF Return
<1>2. /\ next \in [step : OpenSteps, from : Browsers, attempt : Attempts, binding : Attempts \cup {NoCookie}]
      /\ next.from = b /\ next.binding = jar[b].oauth
      /\ next.step \in {"Refused", "Received"} /\ (next.step = "Received" => jar[b].oauth # NoCookie)
  BY DEF SessionsInv, SessionsType, OpenSteps
<1> HIDE DEF next
<1>3. callback'[c] = next /\ ~Signed(c)'
  BY <1>1 DEF SessionsInv, SessionsType, CallbackInv, Signed
<1>4. AttemptsGrow /\ UNCHANGED <<attempts, sessions, jar, authTime>>
  BY <1>1 DEF AttemptsGrow, Unused
<1>5. ~Winner(c)'
  BY <1>2, <1>3 DEF Winner
<1>6. CallbackInv(c)'
  BY <1>2, <1>3, <1>4, <1>5 DEF CallbackInv, SessionsInv, CookieInv, BoundTo, Unused
<1>7. attempts' = [x \in Attempts |-> attempts'[x]] /\ \A x \in Attempts : ~Unused(x)' => attempts'[x] \in AttemptRow
  BY <1>4 DEF SessionsInv, SessionsType, Unused
<1>8. QED
  BY <1>1, <1>2, <1>4, <1>5, <1>6, <1>7, CallbackMoves

\* What an open callback looks like, and what it becomes.
LEMMA OpenCallback ==
  ASSUME SessionsInv, NEW c \in Callbacks, callback[c].step \in OpenSteps,
         NEW step \in OpenSteps, callback' = [callback EXCEPT ![c].step = step]
  PROVE  \E next \in [step : OpenSteps, from : Browsers, attempt : Attempts,
                      binding : Attempts \cup {NoCookie}] :
           /\ callback' = [callback EXCEPT ![c] = next] /\ callback'[c] = next
           /\ next.step = step /\ next.from = callback[c].from
           /\ next.attempt = callback[c].attempt /\ next.binding = callback[c].binding
<1>1. callback[c] \in [step : OpenSteps, from : Browsers, attempt : Attempts,
                       binding : Attempts \cup {NoCookie}]
  BY DEF SessionsInv, SessionsType, OpenSteps
<1> DEFINE next == [callback[c] EXCEPT !.step = step]
<1>2. /\ next \in [step : OpenSteps, from : Browsers, attempt : Attempts, binding : Attempts \cup {NoCookie}]
      /\ next.step = step /\ next.from = callback[c].from
      /\ next.attempt = callback[c].attempt /\ next.binding = callback[c].binding
  BY <1>1
<1>3. callback' = [callback EXCEPT ![c] = next]
  OBVIOUS
<1> HIDE DEF next
<1>4. callback'[c] = next
  BY <1>3 DEF SessionsInv, SessionsType
<1>5. QED
  BY <1>2, <1>3, <1>4

\* consumeAttempt: the one UPDATE that finds the attempt unconsumed wins.
LEMMA ConsumeKeeps ==
  ASSUME SessionsInv, NEW c \in Callbacks, Consume(c)
  PROVE  SessionsInv'
<1> DEFINE a == callback[c].attempt
           found == Consumable(a, callback[c].binding)
           step == IF found THEN "Consumed" ELSE "Refused"
<1>1. /\ callback[c].step = "Received"
      /\ attempts' = IF found THEN [attempts EXCEPT ![a].consumed = authTime] ELSE attempts
      /\ callback' = [callback EXCEPT ![c].step = step]
      /\ UNCHANGED <<sessions, jar, asking, authTime>>
  BY DEF Consume
<1>2. step \in {"Consumed", "Refused"} /\ step \in OpenSteps /\ callback[c].step \in OpenSteps
  BY <1>1 DEF OpenSteps
<1>3. PICK next \in [step : OpenSteps, from : Browsers, attempt : Attempts,
                     binding : Attempts \cup {NoCookie}] :
        /\ callback' = [callback EXCEPT ![c] = next] /\ callback'[c] = next
        /\ next.step = step /\ next.from = callback[c].from
        /\ next.attempt = a /\ next.binding = callback[c].binding
  BY <1>1, <1>2, OpenCallback
<1>4. ~Signed(c) /\ BoundTo(callback[c].binding, callback[c].from) /\ authTime \in Nat
  BY <1>1 DEF SessionsInv, SessionsType, CallbackInv
<1>5. ~Signed(c)'
  BY <1>1, <1>4 DEF Signed
<1>6. CASE ~found
  <2>1. attempts' = attempts /\ next.step = "Refused"
    BY <1>1, <1>3, <1>6
  <2>2. AttemptsGrow
    BY <2>1 DEF AttemptsGrow, Unused
  <2>3. ~Winner(c)' /\ CallbackInv(c)'
    BY <1>3, <1>5, <2>1 DEF Winner, CallbackInv
  <2>4. attempts' = [x \in Attempts |-> attempts'[x]] /\ \A x \in Attempts : ~Unused(x)' => attempts'[x] \in AttemptRow
    BY <2>1 DEF SessionsInv, SessionsType, Unused
  <2>5. QED
    BY <1>1, <1>3, <2>2, <2>3, <2>4, CallbackMoves
<1>7. CASE found
  <2>1. /\ callback[c].binding = a /\ attempts[a].consumed = NotYet
        /\ a \in Attempts /\ ~Unused(a) /\ attempts[a].starter = callback[c].from
    BY <1>4, <1>7 DEF Consumable, BoundTo
  <2>2. next.step = "Consumed" /\ attempts' = [attempts EXCEPT ![a].consumed = authTime]
    BY <1>1, <1>3, <1>7
  <2>3. attempts[a] \in AttemptRow
    BY <2>1 DEF SessionsInv, SessionsType
  <2> DEFINE row == [attempts[a] EXCEPT !.consumed = authTime]
  <2>4. row \in AttemptRow /\ row.starter = attempts[a].starter /\ row.consumed = authTime
    BY <1>4, <2>3 DEF AttemptRow
  <2>5. attempts' = [attempts EXCEPT ![a] = row]
    BY <2>2
  <2> HIDE DEF a, found, step, row
  <2>6. /\ attempts' = [x \in Attempts |-> attempts'[x]] /\ attempts'[a] = row
        /\ \A x \in Attempts \ {a} : attempts'[x] = attempts[x]
    BY <2>1, <2>5 DEF SessionsInv, SessionsType
  <2>7. row # NoRow /\ authTime # NotYet
    BY <1>4, <2>4, StoredRows DEF NotYet
  <2>8. AttemptsGrow
    BY <2>4, <2>6, <2>7 DEF AttemptsGrow, Unused
  <2>9. \A x \in Attempts : ~Unused(x)' => attempts'[x] \in AttemptRow
    BY <2>4, <2>6 DEF SessionsInv, SessionsType, Unused
  <2>10. \A d \in Callbacks : Winner(d) => callback[d].attempt # a
    BY <2>1 DEF SessionsInv, CallbackInv
  <2>11. CallbackInv(c)'
    BY <1>3, <1>5, <2>1, <2>2, <2>4, <2>6, <2>7 DEF CallbackInv, BoundTo, Unused
  <2>12. \A d \in Callbacks \ {c} : Winner(c)' /\ Winner(d) => callback[d].attempt # next.attempt
    BY <1>3, <2>10
  <2>13. QED
    BY <1>1, <1>3, <2>6, <2>8, <2>9, <2>11, <2>12, CallbackMoves
<1>8. QED
  BY <1>6, <1>7

\* A callback that goes on, or fails, with what it has.
LEMMA StepKeepsSessions ==
  ASSUME SessionsInv, NEW c \in Callbacks, callback[c].step \in OpenSteps, ~Signed(c),
         NEW step \in OpenSteps \ {"Received", "Created"},
         callback' = [callback EXCEPT ![c].step = step],
         step \in {"Consumed", "Admin"} => callback[c].step \in {"Consumed", "Admin"},
         UNCHANGED <<attempts, sessions, jar, authTime>>
  PROVE  SessionsInv'
<1>1. PICK next \in [step : OpenSteps, from : Browsers, attempt : Attempts,
                     binding : Attempts \cup {NoCookie}] :
        /\ callback' = [callback EXCEPT ![c] = next] /\ callback'[c] = next
        /\ next.step = step /\ next.from = callback[c].from
        /\ next.attempt = callback[c].attempt /\ next.binding = callback[c].binding
  BY OpenCallback
<1>2. AttemptsGrow /\ ~Signed(c)'
  BY DEF AttemptsGrow, Unused, Signed
<1>3. Winner(c)' => Winner(c)
  BY <1>1, <1>2 DEF Winner
<1>4. CallbackInv(c)'
  BY <1>1, <1>2, <1>3 DEF SessionsInv, CallbackInv, BoundTo, Unused
<1>5. attempts' = [x \in Attempts |-> attempts'[x]] /\ \A x \in Attempts : ~Unused(x)' => attempts'[x] \in AttemptRow
  BY DEF SessionsInv, SessionsType, Unused
<1>6. \A d \in Callbacks \ {c} : Winner(c)' /\ Winner(d) => callback[d].attempt # next.attempt
  BY <1>1, <1>3 DEF SessionsInv, OneWinner
<1>7. QED
  BY <1>1, <1>2, <1>4, <1>5, <1>6, CallbackMoves

\* Discord's answer, or none.
LEMMA ExchangeKeeps ==
  ASSUME SessionsInv, NEW c \in Callbacks, Exchange(c) \/ FailCallback(c)
  PROVE  SessionsInv'
<1>1. PICK step \in {"Admin", "Refused"} :
        /\ callback' = [callback EXCEPT ![c].step = step]
        /\ step = "Admin" => callback[c].step = "Consumed"
  BY DEF Exchange, FailCallback
<1>2. /\ callback[c].step \in {"Received", "Consumed", "Admin"}
      /\ UNCHANGED <<attempts, sessions, jar, authTime>>
  BY DEF Exchange, FailCallback
<1>3. ~Signed(c)
  BY <1>2 DEF SessionsInv, CallbackInv
<1>4. callback[c].step \in OpenSteps /\ step \in OpenSteps \ {"Received", "Created"}
  BY <1>1, <1>2 DEF OpenSteps
<1>5. step \in {"Consumed", "Admin"} => callback[c].step \in {"Consumed", "Admin"}
  BY <1>1
<1>6. QED
  BY <1>1, <1>2, <1>3, <1>4, <1>5, StepKeepsSessions

\* The INSERT of a session.
LEMMA CreateSessionKeeps ==
  ASSUME SessionsInv, NEW c \in Callbacks, CreateSession(c), SessionTtl \in Nat
  PROVE  SessionsInv'
<1> DEFINE row == [standing |-> TRUE, expires |-> authTime + SessionTtl, revoked |-> NotYet]
<1>1. /\ callback[c].step = "Admin" /\ sessions' = [sessions EXCEPT ![c] = row]
      /\ callback' = [callback EXCEPT ![c].step = "Created"]
      /\ UNCHANGED <<attempts, jar, asking, authTime>>
  BY DEF CreateSession
<1>2. row \in SessionRow /\ row.standing
  BY DEF SessionRow, SessionsInv, SessionsType, NotYet
<1> HIDE DEF row
<1>3. callback[c].step \in OpenSteps /\ "Created" \in OpenSteps
  BY <1>1 DEF OpenSteps
<1>4. PICK next \in [step : OpenSteps, from : Browsers, attempt : Attempts,
                     binding : Attempts \cup {NoCookie}] :
        /\ callback' = [callback EXCEPT ![c] = next] /\ callback'[c] = next
        /\ next.step = "Created" /\ next.from = callback[c].from
        /\ next.attempt = callback[c].attempt /\ next.binding = callback[c].binding
  BY <1>1, <1>3, OpenCallback
<1>5. /\ sessions' = [d \in Callbacks |-> sessions'[d]] /\ sessions'[c] = row
      /\ \A d \in Callbacks \ {c} : sessions'[d] = sessions[d]
  BY <1>1 DEF SessionsInv, SessionsType
<1>6. /\ callback' = [d \in Callbacks |-> callback'[d]]
      /\ \A d \in Callbacks \ {c} : callback'[d] = callback[d]
  BY <1>4 DEF SessionsInv, SessionsType
<1>7. \A d \in Callbacks \ {c} : Signed(d)' <=> Signed(d)
  BY <1>5 DEF Signed
<1>8. AttemptsGrow
  BY <1>1 DEF AttemptsGrow, Unused
<1>9. SessionsType'
  <2>1. \A d \in Callbacks : Signed(d)' => sessions'[d] \in SessionRow
    BY <1>2, <1>5, <1>7 DEF SessionsInv, SessionsType
  <2>2. QED
    BY <1>1, <1>4, <1>5, <1>6, <2>1 DEF SessionsInv, SessionsType, Unused
<1>10. \A d \in Callbacks \ {c} : CallbackInv(d)' /\ (Winner(d)' <=> Winner(d))
  BY <1>6, <1>7, <1>8, BindingsKept DEF SessionsInv
<1>11. Winner(c)
  BY <1>1 DEF Winner
<1>12. CallbackInv(c)'
  BY <1>1, <1>4, <1>11 DEF SessionsInv, CallbackInv, BoundTo, Unused
<1>13. OneWinner'
  BY <1>4, <1>6, <1>10, <1>11 DEF SessionsInv, OneWinner
<1>14. LiveSessionKept'
  BY <1>1, <1>2, <1>5, <1>7 DEF SessionsInv, LiveSessionKept
<1>15. \A b \in Browsers : CookieInv(b)'
  BY <1>1, <1>8, BindingsKept DEF SessionsInv
<1>16. QED
  BY <1>9, <1>10, <1>12, <1>13, <1>14, <1>15 DEF SessionsInv

\* The answer of a callback, with the cookies it sets.
LEMMA AnswerCallbackKeeps ==
  ASSUME SessionsInv, NEW c \in Callbacks, NEW arrives \in BOOLEAN, AnswerCallback(c, arrives)
  PROVE  SessionsInv'
<1> DEFINE b == callback[c].from
           cookies == [oauth |-> NoCookie,
                       session |-> IF callback[c].step = "Created" THEN c ELSE jar[b].session]
           next == [step |-> "Done", from |-> b, attempt |-> callback[c].attempt]
<1>1. /\ callback[c].step \in {"Created", "Refused"}
      /\ jar' = IF arrives THEN [jar EXCEPT ![b] = cookies] ELSE jar
      /\ callback' = [callback EXCEPT ![c] = next]
      /\ UNCHANGED <<attempts, sessions, asking, authTime>>
  BY DEF AnswerCallback
<1>2. b \in Browsers /\ callback[c].attempt \in Attempts
  BY <1>1 DEF SessionsInv, SessionsType
<1>3. cookies \in [oauth : Attempts \cup {NoCookie}, session : Callbacks \cup {NoCookie}]
  BY <1>2 DEF SessionsInv, SessionsType
<1>4. /\ next \in [step : {"Done"}, from : Browsers, attempt : Attempts]
      /\ next.step = "Done" /\ next.from = b /\ next.attempt = callback[c].attempt
      /\ cookies.oauth = NoCookie
  BY <1>2
<1> HIDE DEF b, cookies, next
<1>5. /\ jar' \in [Browsers -> [oauth : Attempts \cup {NoCookie}, session : Callbacks \cup {NoCookie}]]
      /\ \A x \in Browsers : jar'[x].oauth \in {jar[x].oauth, NoCookie}
  BY <1>1, <1>3, <1>4 DEF SessionsInv, SessionsType
<1>6. /\ callback' = [d \in Callbacks |-> callback'[d]] /\ callback'[c] = next
      /\ \A d \in Callbacks \ {c} : callback'[d] = callback[d]
  BY <1>1 DEF SessionsInv, SessionsType
<1>7. AttemptsGrow /\ \A d \in Callbacks : Signed(d)' <=> Signed(d)
  BY <1>1 DEF AttemptsGrow, Unused, Signed
<1>8. SessionsType'
  BY <1>1, <1>4, <1>5, <1>6 DEF SessionsInv, SessionsType, Unused, Signed
<1>9. \A d \in Callbacks \ {c} : CallbackInv(d)' /\ (Winner(d)' <=> Winner(d))
  BY <1>6, <1>7, BindingsKept DEF SessionsInv
<1>10. Winner(c)' => Winner(c)
  BY <1>4, <1>6, <1>7 DEF Winner
<1>11. CallbackInv(c)'
  BY <1>1, <1>4, <1>6, <1>7, <1>10 DEF SessionsInv, CallbackInv, BoundTo, Unused, b
<1>12. OneWinner'
  BY <1>4, <1>6, <1>9, <1>10 DEF SessionsInv, OneWinner
<1>13. \A x \in Browsers : CookieInv(x)'
  BY <1>5, <1>7, BindingsKept DEF SessionsInv
<1>14. LiveSessionKept'
  BY <1>1, SessionsRest DEF SessionsInv
<1>15. QED
  BY <1>8, <1>9, <1>11, <1>12, <1>13, <1>14 DEF SessionsInv

\* A step that leaves attempts and callbacks alone, revokes sessions or takes
\* cookies away.
LEMMA SessionsEnd ==
  ASSUME SessionsInv, UNCHANGED <<callback>>, authTime' \in Nat,
         AttemptsGrow, attempts' = [a \in Attempts |-> attempts'[a]],
         \A a \in Attempts : ~Unused(a)' => attempts'[a] \in AttemptRow,
         jar' \in [Browsers -> [oauth : Attempts \cup {NoCookie}, session : Callbacks \cup {NoCookie}]],
         \A b \in Browsers : jar'[b].oauth = jar[b].oauth,
         sessions' = [c \in Callbacks |-> sessions'[c]],
         \A c \in Callbacks : Signed(c)' <=> Signed(c),
         \A c \in Callbacks : Signed(c) => sessions'[c] \in SessionRow,
         LiveSessionKept'
  PROVE  SessionsInv'
<1>1. SessionsType'
  BY DEF SessionsInv, SessionsType
<1>2. \A b \in Browsers : CookieInv(b)'
  BY BindingsKept DEF SessionsInv
<1>3. \A c \in Callbacks : CallbackInv(c)' /\ (Winner(c)' <=> Winner(c))
  BY BindingsKept DEF SessionsInv
<1>4. OneWinner'
  BY <1>3 DEF SessionsInv, OneWinner
<1>5. QED
  BY <1>1, <1>2, <1>3, <1>4 DEF SessionsInv

\* POST /auth/logout revokes; nothing is taken from a session that stands.
LEMMA LogoutKeeps ==
  ASSUME SessionsInv, NEW r \in SignedRequests, NEW arrives \in BOOLEAN, Logout(r, arrives)
  PROVE  SessionsInv'
<1> DEFINE s == asking[r].session
           row == [sessions[s] EXCEPT !.revoked = authTime]
<1>1. /\ sessions' = IF sessions[s].standing THEN [sessions EXCEPT ![s] = row] ELSE sessions
      /\ jar' = IF arrives THEN [jar EXCEPT ![asking[r].from].session = NoCookie] ELSE jar
      /\ UNCHANGED <<attempts, callback, authTime>>
  BY DEF Logout
<1>2. /\ authTime \in Nat /\ authTime' = authTime /\ AttemptsGrow
      /\ attempts' = [a \in Attempts |-> attempts'[a]]
      /\ \A a \in Attempts : ~Unused(a)' => attempts'[a] \in AttemptRow
  BY <1>1 DEF SessionsInv, SessionsType, AttemptsGrow, Unused
<1>3. /\ jar' \in [Browsers -> [oauth : Attempts \cup {NoCookie}, session : Callbacks \cup {NoCookie}]]
      /\ \A b \in Browsers : jar'[b].oauth = jar[b].oauth
  BY <1>1 DEF SessionsInv, SessionsType
<1>4. CASE sessions' = sessions
  <2>1. LiveSessionKept' /\ \A c \in Callbacks : Signed(c)' <=> Signed(c)
    BY <1>2, <1>4, SessionsRest DEF SessionsInv
  <2>2. QED
    BY <1>1, <1>2, <1>3, <1>4, <2>1, SessionsEnd DEF SessionsInv, SessionsType
<1>5. CASE s \in Callbacks /\ sessions[s].standing /\ sessions' = [sessions EXCEPT ![s] = row]
  <2>1. Signed(s)
    BY <1>5 DEF Signed, NoRow
  <2>2. sessions[s] \in SessionRow
    BY <1>5, <2>1 DEF SessionsInv, SessionsType
  <2>3. row \in SessionRow /\ row.revoked = authTime
    BY <1>2, <2>2 DEF SessionRow
  <2>4. row # NoRow /\ authTime # NotYet
    BY <1>2, <2>3, StoredRows DEF NotYet
  <2> HIDE DEF s, row
  <2>5. /\ sessions' = [c \in Callbacks |-> sessions'[c]] /\ sessions'[s] = row
        /\ \A c \in Callbacks \ {s} : sessions'[c] = sessions[c]
    BY <1>5 DEF SessionsInv, SessionsType
  <2>6. \A c \in Callbacks : Signed(c)' <=> Signed(c)
    BY <2>1, <2>4, <2>5 DEF Signed
  <2>7. \A c \in Callbacks : Signed(c) => sessions'[c] \in SessionRow
    BY <2>3, <2>5 DEF SessionsInv, SessionsType
  <2>8. LiveSessionKept'
    BY <1>2, <2>3, <2>4, <2>5, <2>6 DEF SessionsInv, LiveSessionKept
  <2>9. QED
    BY <1>1, <1>2, <1>3, <2>5, <2>6, <2>7, <2>8, SessionsEnd
<1>6. CASE s \notin Callbacks /\ sessions' = [sessions EXCEPT ![s] = row]
  <2>1. sessions' = sessions
    BY <1>6 DEF SessionsInv, SessionsType
  <2>2. QED
    BY <1>4, <2>1
<1>7. QED
  BY <1>1, <1>4, <1>5, <1>6

\* The cleanup takes what has expired or was used.
LEMMA CleanupKeeps ==
  ASSUME SessionsInv, CleanupExpired
  PROVE  SessionsInv'
<1>1. PICK x \in SUBSET Attempts, y \in SUBSET Callbacks :
        /\ attempts' = LeftOf(attempts, x) /\ sessions' = LeftOf(sessions, y)
        /\ \A a \in x : attempts[a].standing
        /\ \A c \in y : sessions[c].standing /\ Stale(sessions[c], sessions[c].revoked)
  <2> DEFINE staleAttempts == {a \in Attempts : attempts[a].standing
                                                /\ Stale(attempts[a], attempts[a].consumed)}
             staleSessions == {c \in Callbacks : sessions[c].standing
                                                 /\ Stale(sessions[c], sessions[c].revoked)}
  <2>1. PICK x \in Removals(attempts, staleAttempts), y \in Removals(sessions, staleSessions) :
          attempts' = LeftOf(attempts, x) /\ sessions' = LeftOf(sessions, y)
    BY DEF CleanupExpired
  <2>2. x \subseteq staleAttempts /\ y \subseteq staleSessions
    BY <2>1, Zenon DEF Removals
  <2>3. QED
    BY <2>1, <2>2
<1>2. UNCHANGED <<jar, callback, authTime>>
  BY DEF CleanupExpired
<1>3. /\ attempts' = [a \in Attempts |-> IF a \in x THEN [attempts[a] EXCEPT !.standing = FALSE] ELSE attempts[a]]
      /\ sessions' = [c \in Callbacks |-> IF c \in y THEN [sessions[c] EXCEPT !.standing = FALSE] ELSE sessions[c]]
  <2>1. DOMAIN attempts = Attempts /\ DOMAIN sessions = Callbacks
    BY DEF SessionsInv, SessionsType
  <2>2. QED
    BY <1>1, <2>1 DEF LeftOf
<1>4. ASSUME NEW a \in Attempts
      PROVE  /\ Unused(a)' <=> Unused(a)
             /\ ~Unused(a) => /\ attempts'[a] \in AttemptRow
                              /\ attempts'[a].starter = attempts[a].starter
                              /\ attempts'[a].consumed = attempts[a].consumed
  <2>1. CASE a \in x
    <3>1. ~Unused(a)
      BY <1>1, <2>1 DEF Unused, NoRow
    <3>2. PICK row \in AttemptRow : row = attempts[a]
      BY <3>1 DEF SessionsInv, SessionsType
    <3> DEFINE gone == [row EXCEPT !.standing = FALSE]
    <3>3. gone \in AttemptRow /\ gone.starter = row.starter /\ gone.consumed = row.consumed
      BY DEF AttemptRow
    <3>4. attempts'[a] = gone
      BY <1>3, <2>1, <3>2
    <3> HIDE DEF gone
    <3>5. QED
      BY <3>1, <3>2, <3>3, <3>4, StoredRows DEF Unused
  <2>2. CASE a \notin x
    BY <1>3, <2>2 DEF SessionsInv, SessionsType, Unused
  <2>3. QED
    BY <2>1, <2>2
<1>5. ASSUME NEW c \in Callbacks
      PROVE  /\ Signed(c)' <=> Signed(c)
             /\ Signed(c) => /\ sessions'[c] \in SessionRow
                             /\ sessions'[c].expires = sessions[c].expires
                             /\ sessions'[c].revoked = sessions[c].revoked
                             /\ c \notin y => sessions'[c] = sessions[c]
  <2>1. CASE c \in y
    <3>1. Signed(c)
      BY <1>1, <2>1 DEF Signed, NoRow
    <3>2. PICK row \in SessionRow : row = sessions[c]
      BY <3>1 DEF SessionsInv, SessionsType
    <3> DEFINE gone == [row EXCEPT !.standing = FALSE]
    <3>3. gone \in SessionRow /\ gone.expires = row.expires /\ gone.revoked = row.revoked
      BY DEF SessionRow
    <3>4. sessions'[c] = gone
      BY <1>3, <2>1, <3>2
    <3> HIDE DEF gone
    <3>5. QED
      BY <2>1, <3>1, <3>2, <3>3, <3>4, StoredRows DEF Signed
  <2>2. CASE c \notin y
    BY <1>3, <2>2 DEF SessionsInv, SessionsType, Signed
  <2>3. QED
    BY <2>1, <2>2
<1>6. AttemptsGrow
  BY <1>4 DEF AttemptsGrow
<1>7. LiveSessionKept'
  <2> SUFFICES ASSUME NEW c \in Callbacks, Signed(c)', sessions'[c].revoked = NotYet,
                      sessions'[c].expires > authTime
               PROVE  sessions'[c].standing
    BY <1>2 DEF LiveSessionKept
  <2>1. Signed(c) /\ sessions[c].revoked = NotYet /\ sessions[c].expires > authTime
    BY <1>5
  <2>2. sessions[c].expires \in Int /\ authTime \in Nat
    BY <2>1 DEF SessionsInv, SessionsType, SessionRow
  <2>3. c \notin y
    BY <1>1, <2>1, <2>2 DEF Stale
  <2>4. QED
    BY <1>5, <2>1, <2>3 DEF SessionsInv, LiveSessionKept
<1>8. /\ attempts' = [a \in Attempts |-> attempts'[a]] /\ sessions' = [c \in Callbacks |-> sessions'[c]]
  BY <1>3
<1>9. QED
  BY <1>2, <1>4, <1>5, <1>6, <1>7, <1>8, SessionsEnd DEF SessionsInv, SessionsType

\* A sign-in yields one session, to the browser that began it, and the session
\* stands until it ends (consumeAttempt, createSession, cleanupExpired).
THEOREM SessionsAreSound == SessionsSpec => []SessionsSound
<1>1. AuthInit => SessionsInv
  BY DEF AuthInit, SessionsInv, SessionsType, OneWinner, LiveSessionKept, CookieInv, CallbackInv,
     Winner, Unused, Signed
<1>2. SessionsInv /\ [AuthNext]_authVars => SessionsInv'
  <2> SUFFICES ASSUME SessionsInv, [AuthNext]_authVars PROVE SessionsInv'
    OBVIOUS
  <2>1. AttemptTtl \in Nat /\ SessionTtl \in Nat
    BY SessionsAssumption
  <2>2. ASSUME UNCHANGED <<attempts, sessions, jar, callback>>, authTime' \in {authTime, authTime + 1}
        PROVE  SessionsInv'
    <3>1. AttemptsGrow /\ \A c \in Callbacks : Signed(c)' <=> Signed(c)
      BY <2>2 DEF AttemptsGrow, Unused, Signed
    <3>2. authTime' \in Nat /\ authTime <= authTime'
      BY <2>2 DEF SessionsInv, SessionsType
    <3>3. LiveSessionKept'
      BY <2>2, <3>1, <3>2 DEF SessionsInv, SessionsType, SessionRow, LiveSessionKept
    <3>4. QED
      BY <2>2, <3>1, <3>2, <3>3, SessionsEnd DEF SessionsInv, SessionsType, Unused
  <2>3. ASSUME NEW r \in SignedRequests, ActSignedIn(r) \/ \E b \in Browsers : AuthorizeAdmin(r, b)
        PROVE  SessionsInv'
    BY <2>2, <2>3 DEF ActSignedIn, AuthorizeAdmin
  <2>4. ASSUME AuthTick \/ UNCHANGED authVars PROVE SessionsInv'
    BY <2>2, <2>4 DEF AuthTick, authVars
  <2>5. ASSUME NEW b \in Browsers, NEW a \in Attempts,
               (\E answered \in BOOLEAN : StartLogin(b, a, answered)) \/ \E c \in Callbacks : Return(c, b, a)
        PROVE  SessionsInv'
    BY <2>1, <2>5, StartLoginKeeps, ReturnKeeps
  <2>6. ASSUME NEW c \in Callbacks,
               \/ Consume(c) \/ Exchange(c) \/ CreateSession(c) \/ FailCallback(c)
               \/ \E arrives \in BOOLEAN : AnswerCallback(c, arrives)
        PROVE  SessionsInv'
    BY <2>1, <2>6, ConsumeKeeps, ExchangeKeeps, CreateSessionKeeps, AnswerCallbackKeeps
  <2>7. ASSUME NEW r \in SignedRequests, \E arrives \in BOOLEAN : Logout(r, arrives)
        PROVE  SessionsInv'
    BY <2>7, LogoutKeeps
  <2>8. QED
    BY <2>3, <2>4, <2>5, <2>6, <2>7, CleanupKeeps DEF AuthNext
<1>3. SessionsInv => SessionsSound
  <2> SUFFICES ASSUME SessionsInv PROVE SessionsSound
    OBVIOUS
  <2>1. OneSessionPerAttempt
    BY DEF SessionsInv, OneWinner, Winner, OneSessionPerAttempt
  <2>2. SessionOfStarter
    BY DEF SessionsInv, CallbackInv, Winner, BoundTo, SessionOfStarter
  <2>3. QED
    BY <2>1, <2>2 DEF SessionsInv, SessionsSound
<1>4. QED
  BY <1>1, <1>2, <1>3, PTL DEF SessionsSpec

-----------------------------------------------------------------------------
(***************************************************************************)
(* Configuration shares                                                    *)
(***************************************************************************)
ShareRow == [of : Sharers, day : Days, expires : Int]

\* A request that has made no share, and one that has.
Empty ==
  [step : {"Idle"}] \cup [step : {"Failed", "Refused"}, day : {NoDay}] \cup
  [step : {"Calling"}, network : ShareNetworks, day : {NoDay}, at : Int, attempts : Int]
Made == [step : {"Created", "Failed"}, day : Days, network : ShareNetworks, code : Codes, expires : Int]

SharesType ==
  /\ shares = [c \in Codes |-> shares[c]]
  /\ \A c \in Codes : Stands(c) => shares[c] \in ShareRow
  /\ daily \in [Days -> Int] /\ networkDaily \in [Days -> [ShareNetworks -> Int]]
  /\ sharer \in [Sharers -> Empty \cup Made]
  /\ \/ resolver \in [step : {"Idle", "Unknown"}]
     \/ resolver \in [step : {"Calling"}, code : Codes, at : Int]
     \/ resolver \in [step : {"Found"}, age : Int]
  /\ shareTime \in Days

\* A share lasts no longer than from the day on which it was made.
RowsInv == \A c \in Codes : Stands(c) => shares[c].expires <= shares[c].day + ShareLifetime

\* The code of a share that lasts is its maker's.
CodesInv ==
  \A r \in Sharers : sharer[r].step = "Created" /\ sharer[r].expires > shareTime =>
    /\ Stands(sharer[r].code)
    /\ shares[sharer[r].code].of = r /\ shares[sharer[r].code].expires = sharer[r].expires

SharesInv ==
  SharesType /\ RowsInv /\ CodesInv /\ SharesCounted /\ FoundWithinLifetime

MadeFor(d, n) == {r \in MadeOn(d) : sharer[r].network = n}

\* A stored share is told apart from no share.
LEMMA StoredShares == \A row \in ShareRow : row # NoShare
<1>1. \A row \in ShareRow : "expires" \in DOMAIN row
  BY DEF ShareRow
<1>2. "expires" \notin DOMAIN NoShare
  BY DEF NoShare
<1>3. QED
  BY <1>1, <1>2

\* A request that has made no share is on no day.
LEMMA EmptyMakesNothing ==
  ASSUME NEW r \in Sharers, sharer[r] \in Empty, NEW d \in Days
  PROVE  r \notin MadeOn(d)
<1>1. NoDay \notin Days
  BY SharesAssumption DEF NoDay, Days
<1>2. QED
  BY <1>1 DEF Empty, MadeOn

\* The days are numbers.
LEMMA DaysAreNumbers == Days \subseteq Nat /\ NoDay \notin Days
BY SharesAssumption DEF Days, NoDay

\* A step between two states without a share leaves what was made.
LEMMA MadeRests ==
  ASSUME SharesType, NEW r \in Sharers, sharer[r] \in Empty, NEW next \in Empty,
         sharer' = [sharer EXCEPT ![r] = next]
  PROVE  \A d \in Days : MadeOn(d)' = MadeOn(d) /\ \A n : MadeFor(d, n)' = MadeFor(d, n)
<1>1. sharer'[r] = next /\ \A q \in Sharers \ {r} : sharer'[q] = sharer[q]
  BY DEF SharesType
<1>2. ASSUME NEW d \in Days
      PROVE  MadeOn(d)' = MadeOn(d) /\ \A n : MadeFor(d, n)' = MadeFor(d, n)
  <2>1. r \notin MadeOn(d)
    BY <1>2, EmptyMakesNothing
  <2>2. ~(next.step # "Idle" /\ next.day = d)
    BY <1>2, DaysAreNumbers DEF Empty
  <2>3. r \notin MadeOn(d)'
    BY <1>1, <2>2 DEF MadeOn
  <2>4. \A q \in Sharers \ {r} : q \in MadeOn(d)' <=> q \in MadeOn(d)
    BY <1>1 DEF MadeOn
  <2>5. MadeOn(d)' = MadeOn(d)
    BY <2>1, <2>3, <2>4 DEF MadeOn
  <2>6. QED
    BY <1>1, <2>1, <2>3, <2>5 DEF MadeFor, MadeOn
<1>3. QED
  BY <1>2

\* Counters and requests that rest keep the account.
LEMMA AccountRests ==
  ASSUME SharesCounted, SharesType, shareTime' \in Days, shareTime <= shareTime',
         \A d \in Days : MadeOn(d)' = MadeOn(d) /\ \A n : MadeFor(d, n)' = MadeFor(d, n),
         \A d \in Days : d >= shareTime' - CounterLifetime =>
           /\ daily'[d] = daily[d]
           /\ \A n \in ShareNetworks : networkDaily'[d][n] = networkDaily[d][n]
  PROVE  SharesCounted'
<1> SUFFICES ASSUME NEW d \in Days, d >= shareTime' - CounterLifetime
             PROVE  /\ daily'[d] = Cardinality(MadeOn(d)')
                    /\ daily'[d] <= ShareLimit
                    /\ \A n \in ShareNetworks :
                         /\ networkDaily'[d][n] = Cardinality(MadeFor(d, n)')
                         /\ networkDaily'[d][n] <= NetworkShareLimit
  BY DEF SharesCounted, MadeFor
<1>1. d >= shareTime - CounterLifetime
  BY DaysAreNumbers, SharesAssumption DEF SharesType
<1>2. /\ daily[d] = Cardinality(MadeOn(d)) /\ daily[d] <= ShareLimit
      /\ \A n \in ShareNetworks :
           networkDaily[d][n] = Cardinality(MadeFor(d, n)) /\ networkDaily[d][n] <= NetworkShareLimit
  BY <1>1 DEF SharesCounted, MadeFor
<1>3. MadeOn(d)' = MadeOn(d) /\ \A n : MadeFor(d, n)' = MadeFor(d, n)
  OBVIOUS
<1>4. daily'[d] = daily[d] /\ \A n \in ShareNetworks : networkDaily'[d][n] = networkDaily[d][n]
  OBVIOUS
<1>5. QED
  BY <1>2, <1>3, <1>4

\* A request that was refused for its network is not counted for the day
\* (configuration_share_reserve_capacity takes it back).
LEMMA RefusalCountsNothing ==
  ASSUME SharesType, NEW n \in ShareNetworks, Reserve(shareTime, n), ~Reserved(shareTime, n)
  PROVE  daily' = daily /\ networkDaily' = networkDaily
<1>1. daily[shareTime] \in Int /\ DailyAfter(shareTime, n) = daily[shareTime]
  BY DEF SharesType, DailyAfter, Reserved
<1>2. daily' = daily
  BY <1>1 DEF Reserve, SharesType
<1>3. networkDaily' = [networkDaily EXCEPT ![shareTime][n] = networkDaily[shareTime][n]]
  BY DEF Reserve
<1>4. networkDaily' = networkDaily
  BY <1>3 DEF SharesType
<1>5. QED
  BY <1>2, <1>4

\* A share is counted once for the day and once for its network.
LEMMA ReservationCounts ==
  ASSUME SharesType, NEW n \in ShareNetworks, Reserve(shareTime, n), Reserved(shareTime, n)
  PROVE  /\ daily' \in [Days -> Int] /\ networkDaily' \in [Days -> [ShareNetworks -> Int]]
         /\ daily'[shareTime] = daily[shareTime] + 1 /\ daily[shareTime] + 1 <= ShareLimit
         /\ networkDaily'[shareTime][n] = networkDaily[shareTime][n] + 1
         /\ networkDaily[shareTime][n] + 1 <= NetworkShareLimit
         /\ \A d \in Days : \A m \in ShareNetworks :
              /\ d # shareTime => daily'[d] = daily[d]
              /\ d # shareTime \/ m # n => networkDaily'[d][m] = networkDaily[d][m]
<1>1. HasDailyRoom(shareTime) /\ HasNetworkRoom(shareTime, n)
  BY DEF Reserved
<1>2. /\ daily' = [daily EXCEPT ![shareTime] = daily[shareTime] + 1]
      /\ networkDaily' = [networkDaily EXCEPT ![shareTime][n] = networkDaily[shareTime][n] + 1]
  BY <1>1 DEF Reserve, DailyAfter
<1>3. shareTime \in Days /\ daily[shareTime] \in Int /\ networkDaily[shareTime] \in [ShareNetworks -> Int]
  BY DEF SharesType
<1> DEFINE counts == [networkDaily[shareTime] EXCEPT ![n] = networkDaily[shareTime][n] + 1]
<1>4. /\ counts \in [ShareNetworks -> Int] /\ counts[n] = networkDaily[shareTime][n] + 1
      /\ \A m \in ShareNetworks \ {n} : counts[m] = networkDaily[shareTime][m]
  BY <1>3
<1>5. networkDaily' = [networkDaily EXCEPT ![shareTime] = counts]
  BY <1>2
<1> HIDE DEF counts
<1>6. /\ networkDaily' \in [Days -> [ShareNetworks -> Int]] /\ networkDaily'[shareTime] = counts
      /\ \A d \in Days \ {shareTime} : networkDaily'[d] = networkDaily[d]
  BY <1>3, <1>4, <1>5 DEF SharesType
<1>7. /\ daily' \in [Days -> Int] /\ daily'[shareTime] = daily[shareTime] + 1
      /\ \A d \in Days \ {shareTime} : daily'[d] = daily[d]
  BY <1>2, <1>3 DEF SharesType
<1>8. daily[shareTime] + 1 <= ShareLimit /\ networkDaily[shareTime][n] + 1 <= NetworkShareLimit
  BY <1>1 DEF HasDailyRoom, HasNetworkRoom
<1>9. QED
  BY <1>4, <1>6, <1>7, <1>8

\* One more share on its day, and for its network, and nowhere else.
LEMMA CreationCounts ==
  ASSUME SharesType, SharesCounted, NEW r \in Sharers, sharer[r] \in Empty,
         NEW next \in Made, next.day = shareTime, sharer' = [sharer EXCEPT ![r] = next],
         Reserve(shareTime, next.network), Reserved(shareTime, next.network), shareTime' = shareTime
  PROVE  SharesCounted'
<1> DEFINE n == next.network
<1>1. n \in ShareNetworks /\ next.step # "Idle" /\ shareTime \in Days
  BY DEF Made, SharesType
<1>2. sharer'[r] = next /\ \A q \in Sharers \ {r} : sharer'[q] = sharer[q]
  BY DEF SharesType
<1> HIDE DEF n
<1>3. ASSUME NEW d \in Days
      PROVE  MadeOn(d)' = IF d = shareTime THEN MadeOn(d) \cup {r} ELSE MadeOn(d)
  <2>1. r \in MadeOn(d)' <=> d = shareTime
    BY <1>1, <1>2 DEF MadeOn
  <2>2. \A q \in Sharers \ {r} : q \in MadeOn(d)' <=> q \in MadeOn(d)
    BY <1>2 DEF MadeOn
  <2>3. r \notin MadeOn(d)
    BY EmptyMakesNothing
  <2>4. MadeOn(d) \subseteq Sharers /\ MadeOn(d)' \subseteq Sharers
    BY DEF MadeOn
  <2>5. QED
    BY <2>1, <2>2, <2>3, <2>4
<1>4. ASSUME NEW d \in Days, NEW m
      PROVE  MadeFor(d, m)' = IF d = shareTime /\ m = n THEN MadeFor(d, m) \cup {r} ELSE MadeFor(d, m)
  <2>1. r \in MadeFor(d, m)' <=> d = shareTime /\ m = n
    BY <1>2, <1>3, EmptyMakesNothing DEF MadeFor, n
  <2>2. \A q \in Sharers \ {r} : q \in MadeFor(d, m)' <=> q \in MadeFor(d, m)
    BY <1>2, <1>3 DEF MadeFor
  <2>3. r \notin MadeFor(d, m)
    BY EmptyMakesNothing DEF MadeFor
  <2>4. MadeFor(d, m) \subseteq Sharers /\ MadeFor(d, m)' \subseteq Sharers
    BY DEF MadeFor, MadeOn
  <2>5. QED
    BY <2>1, <2>2, <2>3, <2>4
<1>5. \A S \in SUBSET Sharers : IsFiniteSet(S)
  BY SharesAssumption, FS_Subset
<1>6. \A S \in SUBSET Sharers : r \notin S => Cardinality(S \cup {r}) = Cardinality(S) + 1
  BY <1>5, FS_AddElement
<1> SUFFICES ASSUME NEW d \in Days, d >= shareTime - CounterLifetime
             PROVE  /\ daily'[d] = Cardinality(MadeOn(d)')
                    /\ daily'[d] <= ShareLimit
                    /\ \A m \in ShareNetworks :
                         /\ networkDaily'[d][m] = Cardinality(MadeFor(d, m)')
                         /\ networkDaily'[d][m] <= NetworkShareLimit
  BY DEF SharesCounted, MadeFor
<1>7. /\ daily[d] = Cardinality(MadeOn(d)) /\ daily[d] <= ShareLimit
      /\ \A m \in ShareNetworks :
           networkDaily[d][m] = Cardinality(MadeFor(d, m)) /\ networkDaily[d][m] <= NetworkShareLimit
  BY DEF SharesCounted, MadeFor
<1>8. /\ MadeOn(d) \in SUBSET Sharers /\ r \notin MadeOn(d)
      /\ \A m : MadeFor(d, m) \in SUBSET Sharers /\ r \notin MadeFor(d, m)
  BY EmptyMakesNothing DEF MadeOn, MadeFor
<1>9. Reserve(shareTime, n) /\ Reserved(shareTime, n)
  BY DEF n
<1>10. daily'[d] = Cardinality(MadeOn(d)') /\ daily'[d] <= ShareLimit
  BY <1>1, <1>3, <1>6, <1>7, <1>8, <1>9, ReservationCounts
<1>11. ASSUME NEW m \in ShareNetworks
       PROVE  /\ networkDaily'[d][m] = Cardinality(MadeFor(d, m)')
              /\ networkDaily'[d][m] <= NetworkShareLimit
  <2>1. CASE d = shareTime /\ m = n
    BY <1>1, <1>4, <1>6, <1>7, <1>8, <1>9, <2>1, ReservationCounts
  <2>2. CASE d # shareTime \/ m # n
    BY <1>1, <1>4, <1>7, <1>9, <2>2, ReservationCounts
  <2>3. QED
    BY <2>1, <2>2
<1>12. QED
  BY <1>10, <1>11

\* A request that calls the database.
LEMMA CallingRequest ==
  ASSUME SharesType, NEW r \in Sharers, sharer[r].step = "Calling"
  PROVE  /\ sharer[r] \in Empty
         /\ sharer[r] \in [step : {"Calling"}, network : ShareNetworks, day : {NoDay}, at : Int, attempts : Int]
BY DEF SharesType, Empty, Made

\* A request moves on without a share.
LEMMA RequestKeeps ==
  ASSUME SharesInv, NEW r \in Sharers, sharer[r] \in Empty, NEW next \in Empty,
         sharer' = [sharer EXCEPT ![r] = next],
         UNCHANGED <<shares, daily, networkDaily, resolver, shareTime>>
  PROVE  SharesInv'
<1>1. SharesType /\ shareTime \in Days /\ shareTime <= shareTime'
  BY DaysAreNumbers DEF SharesInv, SharesType
<1>2. SharesCounted'
  BY <1>1, MadeRests, AccountRests DEF SharesInv
<1>3. SharesType'
  BY DEF SharesInv, SharesType, Stands
<1>4. sharer'[r] = next /\ next.step # "Created" /\ \A q \in Sharers \ {r} : sharer'[q] = sharer[q]
  BY <1>1 DEF SharesType, Empty
<1>5. CodesInv'
  BY <1>4 DEF SharesInv, CodesInv, Stands
<1>6. RowsInv' /\ FoundWithinLifetime'
  BY DEF SharesInv, RowsInv, FoundWithinLifetime, Stands
<1>7. QED
  BY <1>2, <1>3, <1>5, <1>6 DEF SharesInv

\* The route, the checks, a collision and a refusal store nothing.
LEMMA UnsuccessfulKeeps ==
  ASSUME SharesInv, NEW r \in Sharers,
         \/ \E n \in ShareNetworks, skew \in Skews : PostShare(r, n, skew)
         \/ ShareInvalid(r)
         \/ \E code \in Codes : ShareCollides(r, code) \/ ShareRefused(r, code)
  PROVE  SharesInv'
<1>1. SharesType /\ shareTime \in Int
  BY DaysAreNumbers DEF SharesInv, SharesType
<1>2. CASE \E n \in ShareNetworks, skew \in Skews : PostShare(r, n, skew)
  <2>1. PICK n \in ShareNetworks, skew \in Skews : PostShare(r, n, skew)
    BY <1>2
  <2> DEFINE next == [step |-> "Calling", network |-> n, day |-> NoDay, at |-> shareTime + skew, attempts |-> 0]
  <2>2. next \in Empty
    BY <1>1, SharesAssumption DEF Empty
  <2>3. sharer[r] \in Empty
    BY <1>1, <2>1 DEF PostShare, SharesType, Made
  <2>4. QED
    BY <2>1, <2>2, <2>3, RequestKeeps DEF PostShare, shareTables
<1>3. CASE ShareInvalid(r)
  <2>1. [step |-> "Failed", day |-> NoDay] \in Empty
    BY DEF Empty
  <2>2. sharer[r] \in Empty
    BY <1>1, <1>3, CallingRequest DEF ShareInvalid, Calling
  <2>3. QED
    BY <1>3, <2>1, <2>2, RequestKeeps DEF ShareInvalid, Calling, EndShare, shareTables
<1>4. ASSUME NEW code \in Codes, ShareCollides(r, code) PROVE SharesInv'
  <2>1. sharer[r] \in [step : {"Calling"}, network : ShareNetworks, day : {NoDay}, at : Int, attempts : Int]
    BY <1>1, <1>4, CallingRequest DEF ShareCollides, Calling
  <2>2. sharer[r] \in Empty
    BY <2>1 DEF Empty
  <2>3. CASE EndShare(r, "Failed")
    <3>1. [step |-> "Failed", day |-> NoDay] \in Empty
      BY DEF Empty
    <3>2. QED
      BY <1>4, <2>2, <2>3, <3>1, RequestKeeps DEF ShareCollides, Calling, EndShare, shareTables
  <2>4. CASE sharer' = [sharer EXCEPT ![r].attempts = @ + 1]
    <3> DEFINE next == [sharer[r] EXCEPT !.attempts = sharer[r].attempts + 1]
    <3>1. next \in [step : {"Calling"}, network : ShareNetworks, day : {NoDay}, at : Int, attempts : Int]
      BY <2>1
    <3>2. sharer' = [sharer EXCEPT ![r] = next]
      BY <2>4
    <3> HIDE DEF next
    <3>3. next \in Empty
      BY <3>1 DEF Empty
    <3>4. QED
      BY <1>4, <2>2, <3>2, <3>3, RequestKeeps DEF ShareCollides, Calling, shareTables
  <2>5. QED
    BY <1>4, <2>3, <2>4 DEF ShareCollides
<1>5. ASSUME NEW code \in Codes, ShareRefused(r, code) PROVE SharesInv'
  <2>1. sharer[r] \in Empty /\ sharer[r].network \in ShareNetworks
    BY <1>1, <1>5, CallingRequest DEF ShareRefused, Calling
  <2>2. daily' = daily /\ networkDaily' = networkDaily
    BY <1>1, <1>5, <2>1, RefusalCountsNothing DEF ShareRefused
  <2>3. [step |-> "Refused", day |-> NoDay] \in Empty
    BY DEF Empty
  <2>4. QED
    BY <1>5, <2>1, <2>2, <2>3, RequestKeeps DEF ShareRefused, Calling, EndShare
<1>6. QED
  BY <1>2, <1>3, <1>4, <1>5

\* A share is made: counted, under a code that stood for nothing.
LEMMA CreateKeeps ==
  ASSUME SharesInv, NEW r \in Sharers, NEW code \in Codes, NEW told \in BOOLEAN,
         ShareCreated(r, code, told)
  PROVE  SharesInv'
<1> DEFINE expires == sharer[r].at + ShareLifetime
           row == [of |-> r, day |-> shareTime, expires |-> expires]
           next == [step |-> IF told THEN "Created" ELSE "Failed", day |-> shareTime,
                    network |-> sharer[r].network, code |-> code, expires |-> expires]
<1>1. /\ ~Stands(code) /\ ~Invalid(r)
      /\ Reserve(shareTime, sharer[r].network) /\ Reserved(shareTime, sharer[r].network)
      /\ shares' = [shares EXCEPT ![code] = row] /\ sharer' = [sharer EXCEPT ![r] = next]
      /\ UNCHANGED <<resolver, shareTime>> /\ sharer[r].step = "Calling"
  BY DEF ShareCreated, Calling, Collides
<1>2. /\ SharesType /\ shareTime \in Days /\ shareTime \in Nat /\ ShareLifetime \in Nat
      /\ sharer[r] \in Empty /\ sharer[r].network \in ShareNetworks /\ sharer[r].at \in Int
  BY <1>1, CallingRequest, DaysAreNumbers, SharesAssumption DEF SharesInv, SharesType
<1>3. expires \in Int /\ expires <= shareTime + ShareLifetime
  BY <1>1, <1>2 DEF Invalid
<1>4. /\ row \in ShareRow /\ row.of = r /\ row.day = shareTime /\ row.expires = expires
      /\ next \in Made /\ next.day = shareTime /\ next.code = code /\ next.expires = expires
      /\ next.network = sharer[r].network
  BY <1>2, <1>3 DEF ShareRow, Made
<1> HIDE DEF expires, row, next
<1>5. /\ shares' = [c \in Codes |-> shares'[c]] /\ shares'[code] = row
      /\ \A c \in Codes \ {code} : shares'[c] = shares[c]
  BY <1>1, <1>2 DEF SharesType
<1>6. sharer'[r] = next /\ \A q \in Sharers \ {r} : sharer'[q] = sharer[q]
  BY <1>1, <1>2 DEF SharesType
<1>7. row # NoShare
  BY <1>4, StoredShares
<1>8. SharesCounted'
  BY <1>1, <1>2, <1>4, CreationCounts DEF SharesInv
<1>9. SharesType'
  <2>1. \A c \in Codes : Stands(c)' => shares'[c] \in ShareRow
    BY <1>2, <1>4, <1>5 DEF SharesType, Stands
  <2>2. daily' \in [Days -> Int] /\ networkDaily' \in [Days -> [ShareNetworks -> Int]]
    BY <1>1, <1>2, ReservationCounts
  <2>3. QED
    BY <1>1, <1>2, <1>4, <1>5, <2>1, <2>2 DEF SharesType
<1>10. RowsInv'
  BY <1>3, <1>4, <1>5 DEF SharesInv, RowsInv, Stands
<1>11. CodesInv'
  <2> SUFFICES ASSUME NEW q \in Sharers, sharer'[q].step = "Created", sharer'[q].expires > shareTime
               PROVE  /\ shares'[sharer'[q].code] # NoShare /\ shares'[sharer'[q].code].of = q
                      /\ shares'[sharer'[q].code].expires = sharer'[q].expires
    BY <1>1 DEF CodesInv, Stands
  <2>1. CASE q = r
    BY <1>4, <1>5, <1>6, <1>7, <2>1
  <2>2. CASE q # r
    <3>1. sharer'[q] = sharer[q]
      BY <1>6, <2>2
    <3>2. /\ Stands(sharer[q].code) /\ shares[sharer[q].code].of = q
          /\ shares[sharer[q].code].expires = sharer[q].expires
      BY <3>1 DEF SharesInv, CodesInv
    <3>3. sharer[q].code \in Codes
      BY <1>2, <3>1 DEF SharesType, Empty, Made
    <3>4. sharer[q].code \in Codes \ {code}
      BY <1>1, <3>2, <3>3
    <3>5. shares'[sharer[q].code] = shares[sharer[q].code]
      BY <1>5, <3>4
    <3>6. QED
      BY <3>1, <3>2, <3>5 DEF Stands
  <2>3. QED
    BY <2>1, <2>2
<1>12. FoundWithinLifetime'
  BY <1>1 DEF SharesInv, FoundWithinLifetime
<1>13. QED
  BY <1>8, <1>9, <1>10, <1>11, <1>12 DEF SharesInv

\* A code is looked up: what is found was made less than a lifetime ago.
LEMMA ResolveKeeps ==
  ASSUME SharesInv, FindShare \/ \E code \in Codes, skew \in Skews : PostResolve(code, skew)
  PROVE  SharesInv'
<1>1. UNCHANGED <<shares, daily, networkDaily, sharer, shareTime>>
  BY DEF FindShare, PostResolve, shareTables
<1>2. SharesType /\ shareTime \in Nat /\ ShareLifetime \in Nat /\ shareTime \in Days
  BY DaysAreNumbers, SharesAssumption DEF SharesInv, SharesType
<1>3. SharesCounted'
  BY <1>1 DEF SharesInv, SharesCounted, MadeOn
<1>4. RowsInv' /\ CodesInv'
  BY <1>1 DEF SharesInv, RowsInv, CodesInv, Stands
<1>5. /\ \/ resolver' \in [step : {"Idle", "Unknown"}]
         \/ resolver' \in [step : {"Calling"}, code : Codes, at : Int]
         \/ resolver' \in [step : {"Found"}, age : Int]
      /\ resolver'.step = "Found" => resolver'.age < ShareLifetime
  <2>1. CASE \E code \in Codes, skew \in Skews : PostResolve(code, skew)
    BY <1>2, <2>1, SharesAssumption DEF PostResolve
  <2>2. CASE FindShare
    <3>1. resolver \in [step : {"Calling"}, code : Codes, at : Int]
      BY <1>2, <2>2 DEF FindShare, SharesType
    <3>2. CASE FoundAt(resolver.code, resolver.at)
      <4>1. /\ Stands(resolver.code) /\ resolver.code \in Codes
            /\ shares[resolver.code].expires > Later(resolver.at, shareTime)
        BY <3>1, <3>2 DEF FoundAt
      <4>2. /\ shares[resolver.code].expires \in Int /\ shares[resolver.code].day \in Nat
            /\ shares[resolver.code].expires <= shares[resolver.code].day + ShareLifetime
        BY <1>2, <4>1, DaysAreNumbers DEF SharesInv, SharesType, RowsInv, ShareRow
      <4>3. resolver.at \in Int /\ Later(resolver.at, shareTime) \in Int /\ Later(resolver.at, shareTime) >= shareTime
        BY <1>2, <3>1 DEF Later
      <4>4. resolver' = [step |-> "Found", age |-> shareTime - shares[resolver.code].day]
        BY <2>2, <3>2 DEF FindShare
      <4>5. shareTime - shares[resolver.code].day \in Int /\ shareTime - shares[resolver.code].day < ShareLifetime
        BY <1>2, <4>1, <4>2, <4>3
      <4>6. QED
        BY <4>4, <4>5
    <3>3. CASE ~FoundAt(resolver.code, resolver.at)
      BY <2>2, <3>3 DEF FindShare
    <3>4. QED
      BY <3>2, <3>3
  <2>3. QED
    BY <2>1, <2>2
<1>6. SharesType' /\ FoundWithinLifetime'
  BY <1>1, <1>2, <1>5 DEF SharesType, FoundWithinLifetime, Stands
<1>7. QED
  BY <1>3, <1>4, <1>6 DEF SharesInv

\* A sweep takes what has expired by both clocks, and counters of days that no
\* share of is left of.
LEMMA SweepKeeps ==
  ASSUME SharesInv, NEW skew \in Skews, SweepShares(skew)
  PROVE  SharesInv'
<1>1. UNCHANGED <<sharer, resolver, shareTime>>
  BY DEF SweepShares
<1>2. SharesType /\ shareTime \in Nat /\ shareTime \in Days /\ skew \in Int
  BY DaysAreNumbers, SharesAssumption DEF SharesInv, SharesType
<1>3. PICK batch \in SUBSET Codes :
        /\ shares' = [c \in Codes |-> IF c \in batch THEN NoShare ELSE shares[c]]
        /\ \A c \in batch : Swept(c, shareTime + skew)
  <2> DEFINE expired == {c \in Codes : Swept(c, shareTime + skew)}
  <2>1. PICK batch \in Batches(expired) :
          shares' = [c \in Codes |-> IF c \in batch THEN NoShare ELSE shares[c]]
    BY DEF SweepShares
  <2>2. batch \subseteq expired
    BY <2>1, Zenon DEF Batches
  <2>3. QED
    BY <2>1, <2>2
<1>4. \A c \in batch : shares[c].expires <= shareTime
  <2> SUFFICES ASSUME NEW c \in batch PROVE shares[c].expires <= shareTime
    OBVIOUS
  <2>1. Stands(c) /\ shares[c].expires <= Lesser(shareTime + skew, shareTime)
    BY <1>3 DEF Swept
  <2>2. shares[c].expires \in Int
    BY <1>2, <1>3, <2>1 DEF SharesType, ShareRow
  <2>3. Lesser(shareTime + skew, shareTime) \in Int /\ Lesser(shareTime + skew, shareTime) <= shareTime
    BY <1>2 DEF Lesser
  <2>4. QED
    BY <1>2, <2>1, <2>2, <2>3
<1>5. /\ daily' = [d \in Days |-> IF KeptDay(d) THEN daily[d] ELSE 0]
      /\ networkDaily' = [d \in Days |-> IF KeptDay(d) THEN networkDaily[d] ELSE [n \in ShareNetworks |-> 0]]
  BY DEF SweepShares
<1>6. SharesCounted'
  <2>1. \A d \in Days : MadeOn(d)' = MadeOn(d) /\ \A n : MadeFor(d, n)' = MadeFor(d, n)
    BY <1>1 DEF MadeOn, MadeFor
  <2>2. \A d \in Days : d >= shareTime' - CounterLifetime =>
          daily'[d] = daily[d] /\ \A n \in ShareNetworks : networkDaily'[d][n] = networkDaily[d][n]
    BY <1>1, <1>5 DEF KeptDay
  <2>3. QED
    BY <1>1, <1>2, <2>1, <2>2, AccountRests DEF SharesInv
<1>7. /\ \A c \in Codes : Stands(c)' => Stands(c) /\ shares'[c] = shares[c]
      /\ \A c \in Codes \ batch : shares'[c] = shares[c]
  BY <1>3 DEF Stands
<1>8. SharesType'
  <2>1. daily' \in [Days -> Int] /\ networkDaily' \in [Days -> [ShareNetworks -> Int]]
    BY <1>2, <1>5 DEF SharesType
  <2>2. shares' = [c \in Codes |-> shares'[c]]
    BY <1>3
  <2>3. QED
    BY <1>1, <1>2, <1>7, <2>1, <2>2 DEF SharesType
<1>9. RowsInv' /\ FoundWithinLifetime'
  BY <1>1, <1>7 DEF SharesInv, RowsInv, FoundWithinLifetime
<1>10. CodesInv'
  <2> SUFFICES ASSUME NEW r \in Sharers, sharer[r].step = "Created", sharer[r].expires > shareTime
               PROVE  /\ shares'[sharer[r].code] # NoShare /\ shares'[sharer[r].code].of = r
                      /\ shares'[sharer[r].code].expires = sharer[r].expires
    BY <1>1 DEF CodesInv, Stands
  <2>1. /\ Stands(sharer[r].code) /\ shares[sharer[r].code].of = r
        /\ shares[sharer[r].code].expires = sharer[r].expires
    BY DEF SharesInv, CodesInv
  <2>2. sharer[r].code \in Codes /\ sharer[r].expires \in Int
    BY <1>2 DEF SharesType, Empty, Made
  <2>3. sharer[r].code \notin batch
    BY <1>2, <1>4, <2>1, <2>2
  <2>4. shares'[sharer[r].code] = shares[sharer[r].code]
    BY <1>7, <2>2, <2>3
  <2>5. QED
    BY <1>1, <2>1, <2>4 DEF Stands
<1>11. QED
  BY <1>6, <1>8, <1>9, <1>10 DEF SharesInv

\* A day passes.
LEMMA ShareTickKeeps ==
  ASSUME SharesInv, ShareTick
  PROVE  SharesInv'
<1>1. /\ shareTime' = shareTime + 1 /\ shareTime < MaxShareTime
      /\ UNCHANGED <<shares, daily, networkDaily, sharer, resolver>>
  BY DEF ShareTick, shareTables
<1>2. shareTime \in Nat /\ shareTime' \in Days /\ shareTime <= shareTime'
  BY <1>1, SharesAssumption DEF SharesInv, SharesType, Days
<1>3. SharesCounted'
  <2>1. \A d \in Days : MadeOn(d)' = MadeOn(d) /\ \A n : MadeFor(d, n)' = MadeFor(d, n)
    BY <1>1 DEF MadeOn, MadeFor
  <2>2. QED
    BY <1>1, <1>2, <2>1, AccountRests DEF SharesInv
<1>4. SharesType' /\ RowsInv' /\ FoundWithinLifetime'
  BY <1>1, <1>2 DEF SharesInv, SharesType, RowsInv, FoundWithinLifetime, Stands
<1>5. CodesInv'
  <2> SUFFICES ASSUME NEW r \in Sharers, sharer[r].step = "Created", sharer[r].expires > shareTime'
               PROVE  /\ Stands(sharer[r].code) /\ shares[sharer[r].code].of = r
                      /\ shares[sharer[r].code].expires = sharer[r].expires
    BY <1>1 DEF CodesInv, Stands
  <2>1. sharer[r].expires \in Int
    BY DEF SharesInv, SharesType, Empty, Made
  <2>2. sharer[r].expires > shareTime
    BY <1>1, <1>2, <2>1
  <2>3. QED
    BY <2>2 DEF SharesInv, CodesInv
<1>6. QED
  BY <1>3, <1>4, <1>5 DEF SharesInv

\* The invariant, over every behaviour.
LEMMA SharesInvariance == SharesSpec => []SharesInv
<1>1. SharesInit => SharesInv
  <2> SUFFICES ASSUME SharesInit PROVE SharesInv
    OBVIOUS
  <2>1. 0 \in Days
    BY SharesAssumption DEF Days
  <2>2. SharesType
    BY <2>1 DEF SharesInit, SharesType, Stands, Empty
  <2>3. RowsInv /\ CodesInv /\ FoundWithinLifetime
    BY DEF SharesInit, RowsInv, CodesInv, FoundWithinLifetime, Stands
  <2>4. \A d \in Days : MadeOn(d) = {} /\ \A n : MadeFor(d, n) = {}
    BY DEF SharesInit, MadeOn, MadeFor
  <2>5. SharesCounted
    <3> SUFFICES ASSUME NEW d \in Days
                 PROVE  /\ daily[d] = Cardinality(MadeOn(d)) /\ daily[d] <= ShareLimit
                        /\ \A n \in ShareNetworks :
                             /\ networkDaily[d][n] = Cardinality(MadeFor(d, n))
                             /\ networkDaily[d][n] <= NetworkShareLimit
      BY DEF SharesCounted, MadeFor
    <3>1. Cardinality(MadeOn(d)) = 0 /\ \A n : Cardinality(MadeFor(d, n)) = 0
      BY <2>4, FS_EmptySet
    <3>2. daily[d] = 0 /\ \A n \in ShareNetworks : networkDaily[d][n] = 0
      BY DEF SharesInit
    <3>3. QED
      BY <3>1, <3>2, SharesAssumption
  <2>6. QED
    BY <2>2, <2>3, <2>5 DEF SharesInv
<1>2. SharesInv /\ [SharesNext]_sharesVars => SharesInv'
  <2>1. ASSUME SharesInv, UNCHANGED sharesVars PROVE SharesInv'
    <3>1. UNCHANGED <<shares, daily, networkDaily, sharer, resolver, shareTime>>
      BY <2>1 DEF sharesVars
    <3>2. SharesCounted'
      BY <2>1, <3>1 DEF SharesInv, SharesCounted, MadeOn
    <3>3. SharesType' /\ RowsInv' /\ CodesInv' /\ FoundWithinLifetime'
      BY <2>1, <3>1 DEF SharesInv, SharesType, RowsInv, CodesInv, FoundWithinLifetime, Stands
    <3>4. QED
      BY <3>2, <3>3 DEF SharesInv
  <2>2. QED
    BY <2>1, UnsuccessfulKeeps, CreateKeeps, ResolveKeeps, SweepKeeps, ShareTickKeeps DEF SharesNext
<1>3. QED
  BY <1>1, <1>2, PTL DEF SharesSpec

\* The counters of migration 007 are the shares that were made, and within the
\* limits, whatever is refused, collides or is swept.
THEOREM SharesAreCounted == SharesSpec => []SharesCounted
<1>1. SharesInv => SharesCounted
  BY DEF SharesInv
<1>2. QED
  BY <1>1, SharesInvariance, PTL

\* A code stands for the share it was given for, as long as that lasts and no
\* longer, whichever clock is off.
THEOREM CodesStandForLifetime == SharesSpec => []CodeStandsForLifetime
<1>1. SharesInv => CodeStandsForLifetime
  BY DEF SharesInv, CodesInv, CodeStandsForLifetime, CodeKept
<1>2. QED
  BY <1>1, SharesInvariance, PTL
=============================================================================
