------------------------- MODULE IntegrationsProofs -------------------------
(***************************************************************************)
(* Theorems about Integrations: the nonce of a flow, the lock under which  *)
(* a list of channels is fetched, and the list in the cache.               *)
(***************************************************************************)
EXTENDS Integrations, FiniteSetTheorems, TLAPS

Records == [at : Steps, flow : Nonces \cup {NoNonce}, id : Gens, gen : Gens]

\* The types, and what a request in a flow and an absent row look like.
Typed ==
    /\ signed \in [Nonces -> Providers \cup {"none"}]
    /\ stored \subseteq Nonces
    /\ spent \subseteq Nonces
    /\ row \in [{"slack", "discord"} -> [id : Gens, gen : Gens]]
    /\ gen \in Gens
    /\ links \subseteq {n \in Nonces : signed[n] = "google"}
    /\ cache \in [Gens -> Gens]
    /\ lock \in [Gens -> BOOLEAN]
    /\ req \in [Requests -> Records]
    /\ faultsLeft \in 0 .. MaxFaults
    /\ exchanges \in [Nonces -> Nat]
    /\ unchecked \in [Nonces -> Nat]
    /\ expiries \in [Gens -> Nat]
    /\ tainted \in [Gens -> BOOLEAN]
    /\ \A r \in Requests : req[r].at \in {"exchange", "save"} => req[r].flow \in Nonces
    /\ \A p \in {"slack", "discord"} : row[p].id = 0 => row[p].gen = 0
    /\ revoked \subseteq {"slack", "discord"}
    /\ \A p \in revoked : row[p].id # 0
    /\ \A r \in Requests : req[r].at = "send" => req[r].id # 0

\* Before a flow begins nothing has come of it; while its nonce is stored every
\* request that passed did so unchecked.
NonceInv ==
    \A n \in Nonces :
        /\ exchanges[n] <= 1 + unchecked[n]
        /\ n \in stored => exchanges[n] <= unchecked[n]
        /\ signed[n] = "none" => exchanges[n] = 0 /\ n \notin stored

Held(i) == IF lock[i] THEN 1 ELSE 0

\* Each enumerator holds the lock or a reason not to.
LockInv == \A i \in Gens : Cardinality(Enumerators(i)) <= expiries[i] + Held(i)

IInv == Typed /\ NonceInv /\ LockInv /\ ListIsCurrent

-----------------------------------------------------------------------------
(* Requests come and go one at a time.                                     *)

\* A request changes: the others stay as they are.
LEMMA OneRequest ==
    ASSUME Typed, NEW r \in Requests, NEW v \in Records, req' = [req EXCEPT ![r] = v]
    PROVE  /\ req' \in [Requests -> Records]
           /\ \A q \in Requests : req'[q] = IF q = r THEN v ELSE req[q]
  BY DEF Typed

\* A request that takes a step keeps what it knows.
LEMMA GoesOn ==
    ASSUME Typed, NEW r \in Requests, NEW step \in Steps, Goto(r, step)
    PROVE  \E v \in Records : /\ v = [req[r] EXCEPT !.at = step]
                              /\ req' = [req EXCEPT ![r] = v]
                              /\ v.at = step /\ v.flow = req[r].flow
                              /\ v.id = req[r].id /\ v.gen = req[r].gen
<1> DEFINE v == [req[r] EXCEPT !.at = step]
<1>1. req[r] \in Records
  BY DEF Typed
<1>2. /\ v \in Records /\ v.at = step /\ v.flow = req[r].flow
      /\ v.id = req[r].id /\ v.gen = req[r].gen
  BY <1>1 DEF Records
<1>3. req' = [req EXCEPT ![r] = v]
  BY <1>1 DEF Goto, Records, Typed
<1> QED
  BY <1>2, <1>3

\* A request that ends.
LEMMA Ends ==
    ASSUME Typed, NEW r \in Requests, End(r)
    PROVE  Idle \in Records /\ req' = [req EXCEPT ![r] = Idle] /\ Idle.at = "idle"
  BY IntegrationsAssumption DEF Idle, Records, Gens, Steps, End

\* No enumerator more.
LEMMA FewerEnumerators ==
    ASSUME Typed, LockInv, NEW i \in Gens, Enumerators(i)' \subseteq Enumerators(i)
    PROVE  Cardinality(Enumerators(i)') \in Nat
           /\ Cardinality(Enumerators(i)') <= Cardinality(Enumerators(i))
           /\ Cardinality(Enumerators(i)) \in Nat
<1>1. IsFiniteSet(Enumerators(i))
  BY IntegrationsAssumption, FS_Subset DEF Enumerators
<1>2. /\ IsFiniteSet(Enumerators(i)')
      /\ Cardinality(Enumerators(i)') <= Cardinality(Enumerators(i))
  BY <1>1, FS_Subset
<1> QED
  BY <1>1, <1>2, FS_CardinalityType

\* One enumerator more.
LEMMA OneMoreEnumerator ==
    ASSUME Typed, NEW i \in Gens, NEW r \in Requests,
           Enumerators(i)' \subseteq Enumerators(i) \cup {r}
    PROVE  /\ Cardinality(Enumerators(i)') \in Nat
           /\ Cardinality(Enumerators(i)) \in Nat
           /\ Cardinality(Enumerators(i)') <= Cardinality(Enumerators(i)) + 1
<1>1. IsFiniteSet(Enumerators(i))
  BY IntegrationsAssumption, FS_Subset DEF Enumerators
<1>2. /\ IsFiniteSet(Enumerators(i) \cup {r})
      /\ Cardinality(Enumerators(i)) \in Nat
      /\ Cardinality(Enumerators(i) \cup {r}) =
            IF r \in Enumerators(i) THEN Cardinality(Enumerators(i))
            ELSE Cardinality(Enumerators(i)) + 1
  <2>1. Cardinality(Enumerators(i)) \in Nat
    BY <1>1, FS_CardinalityType
  <2> HIDE DEF Enumerators
  <2> QED
    BY <1>1, <2>1, FS_AddElement
<1>3. /\ IsFiniteSet(Enumerators(i)')
      /\ Cardinality(Enumerators(i)') <= Cardinality(Enumerators(i) \cup {r})
  BY <1>2, FS_Subset
<1> QED
  BY <1>2, <1>3, FS_CardinalityType

\* One enumerator less.
LEMMA OneLessEnumerator ==
    ASSUME Typed, NEW i \in Gens, NEW r \in Enumerators(i),
           Enumerators(i)' = Enumerators(i) \ {r}
    PROVE  /\ Cardinality(Enumerators(i)) \in Nat
           /\ Cardinality(Enumerators(i)') = Cardinality(Enumerators(i)) - 1
<1>1. IsFiniteSet(Enumerators(i))
  BY IntegrationsAssumption, FS_Subset DEF Enumerators
<1> QED
  BY <1>1, FS_RemoveElement, FS_CardinalityType

\* A step that leaves the lock and its history alone and lets nobody begin to
\* enumerate.
LEMMA LockKept ==
    ASSUME Typed, LockInv, UNCHANGED <<lock, expiries>>,
           \A i \in Gens : Enumerators(i)' \subseteq Enumerators(i)
    PROVE  LockInv'
  BY FewerEnumerators DEF LockInv, Held, Typed

-----------------------------------------------------------------------------
(* The invariant.                                                          *)

\* Nothing has begun.
LEMMA InitInv == Init => IInv
<1> SUFFICES ASSUME Init PROVE IInv
  OBVIOUS
<1>1. Typed
  BY IntegrationsAssumption DEF Init, Typed, Records, Idle, NoRow, Gens, Steps, Providers
<1>2. NonceInv
  BY DEF Init, NonceInv
<1>3. \A i \in Gens : Enumerators(i) = {}
  BY DEF Init, Enumerators, Idle
<1>4. LockInv
  <2>1. \A i \in Gens : expiries[i] = 0 /\ Held(i) = 0
    BY DEF Init, Held
  <2>2. Cardinality({}) = 0
    BY FS_EmptySet
  <2> QED
    BY <1>3, <2>1, <2>2 DEF LockInv
<1>5. ListIsCurrent
  BY DEF Init, ListIsCurrent
<1> QED
  BY <1>1, <1>2, <1>4, <1>5 DEF IInv

\* A request that authorizes, saves or clears enumerates nothing, nor do the
\* steps that begin or end one.
LEMMA Elsewhere ==
    ASSUME Typed, NEW r \in Requests, NEW v \in Records, req' = [req EXCEPT ![r] = v],
           v.at \notin {"fetch", "store", "unlock"}
    PROVE  \A i \in Gens : Enumerators(i)' \subseteq Enumerators(i)
  BY OneRequest DEF Enumerators

\* Nonces are stored; nonces, locks and lists expire.
LEMMA BeginOrExpire ==
    ASSUME IInv,
           \/ \E n \in Nonces : NonceExpires(n) \/ \E p \in Providers : Connect(n, p)
           \/ \E i \in Gens : LockExpires(i) \/ CacheExpires(i)
    PROVE  IInv'
<1> USE IntegrationsAssumption
<1> USE DEF IInv
<1>1. ASSUME NEW n \in Nonces, NEW p \in Providers, Connect(n, p) PROVE IInv'
  <2>1. Typed'
    BY <1>1 DEF Connect, Typed, NoFault, Fault, rows, list
  <2>2. NonceInv'
    BY <1>1 DEF Connect, NonceInv, Typed, Providers
  <2>3. LockInv' /\ ListIsCurrent'
    BY <1>1 DEF Connect, rows, list, LockInv, Held, Enumerators, ListIsCurrent
  <2> QED
    BY <2>1, <2>2, <2>3
<1>2. ASSUME NEW n \in Nonces, NonceExpires(n) PROVE IInv'
  <2>1. Typed' /\ NonceInv'
    BY <1>2 DEF NonceExpires, Typed, NonceInv, rows, list
  <2>2. LockInv' /\ ListIsCurrent'
    BY <1>2 DEF NonceExpires, rows, list, LockInv, Held, Enumerators, ListIsCurrent
  <2> QED
    BY <2>1, <2>2
<1>3. ASSUME NEW i \in Gens, LockExpires(i) PROVE IInv'
  <2>1. Typed'
    BY <1>3 DEF LockExpires, Typed, flow, rows, Fault
  <2>2. NonceInv' /\ ListIsCurrent'
    BY <1>3 DEF LockExpires, NonceInv, flow, rows, ListIsCurrent
  <2>3. ASSUME NEW j \in Gens PROVE expiries[j] + Held(j) = expiries'[j] + Held(j)'
    BY <1>3 DEF LockExpires, Held, Typed
  <2>4. ASSUME NEW j \in Gens PROVE Enumerators(j)' = Enumerators(j)
    BY <1>3 DEF LockExpires, Enumerators
  <2> QED
    BY <2>1, <2>2, <2>3, <2>4 DEF LockInv
<1>4. ASSUME NEW i \in Gens, CacheExpires(i) PROVE IInv'
  <2>1. /\ cache' \in [Gens -> Gens] /\ cache'[i] = 0
        /\ tainted' \in [Gens -> BOOLEAN]
        /\ \A j \in Gens \ {i} : cache'[j] = cache[j] /\ tainted'[j] = tainted[j]
    <3>1. 0 \in Gens
      BY DEF Gens
    <3> QED
      BY <1>4, <3>1 DEF CacheExpires, Typed
  <2>2. Typed' /\ NonceInv'
    BY <1>4, <2>1 DEF CacheExpires, Typed, NonceInv, flow, rows
  <2>3. LockInv'
    BY <1>4 DEF CacheExpires, LockInv, Held, Enumerators
  <2>4. ListIsCurrent'
    BY <1>4, <2>1 DEF CacheExpires, rows, ListIsCurrent
  <2> QED
    BY <2>2, <2>3, <2>4
<1> QED
  BY <1>1, <1>2, <1>3, <1>4

\* The flow of a sign-in or of a connection.
LEMMA FlowStep ==
    ASSUME IInv, NEW r \in Requests,
           Authorize(r) \/ SendAlert(r) \/ DeleteIntegration(r) \/ ClearSlackChannels(r)
    PROVE  IInv'
<1> USE IntegrationsAssumption
<1> USE DEF IInv
<1>0. Typed /\ req[r] \in Records /\ "clear" \in Steps /\ "save" \in Steps /\ "exchange" \in Steps
  BY DEF Typed, Steps
<1>1. ASSUME Callback(r) PROVE IInv'
  <2>1. PICK n \in Nonces :
          /\ signed[n] # "none"
          /\ Start(r, "exchange", n, 0, 0)
          /\ exchanges' = [exchanges EXCEPT ![n] = @ + 1]
          /\ \/ /\ NoFault
                /\ n \in stored
                /\ stored' = stored \ {n}
                /\ UNCHANGED unchecked
             \/ /\ Fault
                /\ stored' \in {stored, stored \ {n}}
                /\ unchecked' = [unchecked EXCEPT ![n] = @ + 1]
    BY <1>1 DEF Callback
  <2> DEFINE v == [at |-> "exchange", flow |-> n, id |-> 0, gen |-> 0]
  <2>2. v \in Records /\ req' = [req EXCEPT ![r] = v] /\ req[r] = Idle
    BY <2>1, <1>0 DEF Start, Records, Gens
  <2>3. Typed'
    BY <1>1, <2>1, <2>2, OneRequest DEF Callback, Typed, NoFault, Fault, rows, list
  <2>4. NonceInv'
    BY <1>1, <2>1 DEF Callback, NonceInv, Typed
  <2>5. LockInv'
    BY <1>1, <2>2, Elsewhere, LockKept DEF Callback, list
  <2>6. ListIsCurrent'
    BY <1>1, <2>2, OneRequest DEF Callback, list, rows, ListIsCurrent, Idle
  <2> QED
    BY <2>3, <2>4, <2>5, <2>6
<1>2. ASSUME Exchange(r) PROVE IInv'
  <2>1. PICK v \in Records : req' = [req EXCEPT ![r] = v] /\ v.at \in {"save", "idle"}
                             /\ (v.at = "save" => v.flow = req[r].flow)
    <3>1. CASE Goto(r, "save")
      BY <1>0, <3>1, GoesOn
    <3>2. CASE End(r)
      BY <1>0, <3>2, Ends
    <3> QED
      BY <1>2, <3>1, <3>2 DEF Exchange
  <2>2. req[r].flow \in Nonces
    BY <1>2 DEF Exchange, Typed
  <2>3. Typed'
    BY <1>2, <2>1, <2>2, OneRequest DEF Exchange, Typed, NoFault, Fault, rows, list
  <2>4. NonceInv'
    BY <1>2 DEF Exchange, NonceInv
  <2>5. LockInv'
    BY <1>2, <2>1, Elsewhere, LockKept DEF Exchange, list
  <2>6. ListIsCurrent'
    BY <1>2, <2>1, OneRequest DEF Exchange, list, rows, ListIsCurrent
  <2> QED
    BY <2>3, <2>4, <2>5, <2>6
<1>3. ASSUME SaveSlack(r) PROVE IInv'
  <2>1. /\ gen + 1 \in Gens
        /\ row' \in [{"slack", "discord"} -> [id : Gens, gen : Gens]]
        /\ \A p \in {"slack", "discord"} : row'[p].id = 0 => row'[p].gen = 0
        /\ \A p \in {"slack", "discord"} \ {"slack"} : row'[p] = row[p]
    BY <1>3 DEF SaveSlack, Upsert, Typed, Upserted, Gens
  <2> DEFINE v == [req[r] EXCEPT !.at = "clear", !.id = row'["slack"].id]
  <2>2. v \in Records /\ req' = [req EXCEPT ![r] = v] /\ v.at = "clear" /\ v.id = row'["slack"].id
    BY <1>0, <1>3, <2>1 DEF SaveSlack, Upsert, Records
  <2>3. Typed'
    BY <1>3, <2>1, <2>2, OneRequest DEF SaveSlack, Upsert, Typed, flow, list
  <2>4. NonceInv'
    BY <1>3 DEF SaveSlack, NonceInv, flow
  <2>5. LockInv'
    BY <1>3, <2>2, Elsewhere, LockKept DEF SaveSlack, list
  <2>6. row'["slack"].id = IF row["slack"].id = 0 THEN gen + 1 ELSE row["slack"].id
    BY <1>3 DEF SaveSlack, Upsert, Upserted, Typed
  <2>7. ASSUME NEW i \in Gens, cache[i] # 0, ~tainted[i],
               ~\E q \in Requests : req'[q].at = "clear" /\ req'[q].id = i
        PROVE  FALSE
    <3>1. \A q \in Requests : req[q].at = "clear" /\ req[q].id = i => q = r
      BY <2>2, <2>7, OneRequest
    <3>2. row["slack"] = [id |-> i, gen |-> cache[i]]
      BY <1>3, <2>7, <3>1 DEF SaveSlack, ListIsCurrent
    <3>3. row'["slack"].id = i
      BY <2>6, <2>7, <3>2 DEF Typed
    <3> QED
      BY <2>2, <2>7, <3>3, OneRequest
  <2>8. ListIsCurrent'
    BY <1>3, <2>7 DEF SaveSlack, list, ListIsCurrent
  <2> QED
    BY <2>3, <2>4, <2>5, <2>8
<1>4. ASSUME SaveDiscord(r) PROVE IInv'
  <2>1. /\ gen + 1 \in Gens
        /\ row' \in [{"slack", "discord"} -> [id : Gens, gen : Gens]]
        /\ row'["slack"] = row["slack"]
        /\ \A p \in {"slack", "discord"} : row'[p].id = 0 => row'[p].gen = 0
        /\ \A p \in {"slack", "discord"} \ {"discord"} : row'[p] = row[p]
    <3> DEFINE d == [id |-> IF row["discord"].id = 0 THEN gen + 1 ELSE row["discord"].id,
                     gen |-> gen + 1]
    <3>1. gen + 1 \in Gens /\ gen + 1 # 0 /\ row["discord"] \in [id : Gens, gen : Gens]
      BY <1>4 DEF SaveDiscord, Upsert, Typed, Gens
    <3>2. d \in [id : Gens, gen : Gens] /\ d.id # 0
      BY <3>1
    <3>3. row' = [row EXCEPT !["discord"] = d]
      BY <1>4 DEF SaveDiscord, Upsert, Upserted, Typed
    <3> QED
      BY <3>1, <3>2, <3>3 DEF Typed
  <2>2. Idle \in Records /\ req' = [req EXCEPT ![r] = Idle] /\ Idle.at = "idle"
    BY <1>4, Ends DEF SaveDiscord
  <2>3. Typed'
    BY <1>4, <2>1, <2>2, OneRequest DEF SaveDiscord, Upsert, Typed, flow, list
  <2>4. NonceInv'
    BY <1>4 DEF SaveDiscord, NonceInv, flow
  <2>5. LockInv'
    BY <1>4, <2>2, Elsewhere, LockKept DEF SaveDiscord, list
  <2>6. ListIsCurrent'
    BY <1>4, <2>1, <2>2, OneRequest DEF SaveDiscord, list, ListIsCurrent
  <2> QED
    BY <2>3, <2>4, <2>5, <2>6
<1>5. ASSUME SaveGoogle(r) PROVE IInv'
  <2>1. Idle \in Records /\ req' = [req EXCEPT ![r] = Idle] /\ Idle.at = "idle"
    BY <1>5, Ends DEF SaveGoogle
  <2>2. Typed'
    BY <1>5, <2>1, OneRequest DEF SaveGoogle, Typed, flow, list
  <2>3. NonceInv'
    BY <1>5 DEF SaveGoogle, NonceInv, flow
  <2>4. LockInv'
    BY <1>5, <2>1, Elsewhere, LockKept DEF SaveGoogle, list
  <2>5. ListIsCurrent'
    BY <1>5, <2>1, OneRequest DEF SaveGoogle, list, ListIsCurrent
  <2> QED
    BY <2>2, <2>3, <2>4, <2>5
<1>6. ASSUME DeleteIntegration(r) PROVE IInv'
  <2>1. PICK p \in DOMAIN row : /\ row[p].id # 0
                                /\ row' = [row EXCEPT ![p] = NoRow]
                                /\ revoked' = revoked \ {p}
                                /\ Start(r, "clear", NoNonce, row[p].id, 0)
    BY <1>6 DEF DeleteIntegration
  <2> DEFINE v == [at |-> "clear", flow |-> NoNonce, id |-> row[p].id, gen |-> 0]
  <2>0. p \in {"slack", "discord"} /\ row[p] \in [id : Gens, gen : Gens] /\ 0 \in Gens
    <3>1. DOMAIN row = {"slack", "discord"}
      BY <1>0 DEF Typed
    <3>2. \A x \in {"slack", "discord"} : row[x] \in [id : Gens, gen : Gens]
      BY <1>0 DEF Typed
    <3>3. 0 \in Gens
      BY DEF Gens
    <3> QED
      BY <2>1, <3>1, <3>2, <3>3
  <2>2. v \in Records /\ req' = [req EXCEPT ![r] = v] /\ req[r] = Idle
    BY <2>0, <2>1, <1>0 DEF Start, Records
  <2>3. /\ row' \in [{"slack", "discord"} -> [id : Gens, gen : Gens]]
        /\ \A x \in {"slack", "discord"} : row'[x].id = 0 => row'[x].gen = 0
        /\ \A x \in {"slack", "discord"} \ {p} : row'[x] = row[x]
    <3>1. NoRow \in [id : Gens, gen : Gens] /\ NoRow.gen = 0
      BY <2>0 DEF NoRow
    <3> QED
      BY <2>0, <2>1, <3>1 DEF Typed
  <2>4. Typed'
    BY <1>6, <2>1, <2>2, <2>3, OneRequest DEF DeleteIntegration, Typed, flow, list
  <2>5. NonceInv'
    BY <1>6 DEF DeleteIntegration, NonceInv, flow
  <2>6. LockInv'
    BY <1>6, <2>2, Elsewhere, LockKept DEF DeleteIntegration, list
  <2>7. row'["slack"] = row["slack"] \/ (p = "slack" /\ v.id = row["slack"].id)
    BY <2>1 DEF Typed
  <2>8. v.at = "clear" /\ \A q \in Requests : req[q].at = "clear" => q # r
    BY <2>2 DEF Idle
  <2>9. ASSUME NEW i \in Gens, cache[i] # 0, ~tainted[i],
               ~\E q \in Requests : req'[q].at = "clear" /\ req'[q].id = i
        PROVE  row'["slack"] = [id |-> i, gen |-> cache[i]]
    <3>1. ~\E q \in Requests : req[q].at = "clear" /\ req[q].id = i
      BY <2>2, <2>8, <2>9, OneRequest
    <3>2. row["slack"] = [id |-> i, gen |-> cache[i]]
      BY <2>9, <3>1 DEF ListIsCurrent
    <3>3. v.id # i
      BY <2>2, <2>8, <2>9, OneRequest
    <3> QED
      BY <2>7, <3>2, <3>3
  <2>10. ListIsCurrent'
    BY <1>6, <2>9 DEF DeleteIntegration, list, ListIsCurrent
  <2> QED
    BY <2>4, <2>5, <2>6, <2>10
<1>7. ASSUME ClearSlackChannels(r) PROVE IInv'
  <2>1. Idle \in Records /\ req' = [req EXCEPT ![r] = Idle] /\ Idle.at = "idle"
    BY <1>7, Ends DEF ClearSlackChannels
  <2>2. req[r].id \in Gens
    BY <1>0 DEF Records
  <2>3. Typed'
    <3>1. /\ cache' \in [Gens -> Gens] /\ tainted' \in [Gens -> BOOLEAN]
          /\ faultsLeft' \in 0 .. MaxFaults
      <4>1. 0 \in Gens
        BY DEF Gens
      <4>2. faultsLeft' \in 0 .. MaxFaults
        BY <1>7, <1>0 DEF ClearSlackChannels, Typed, NoFault, Fault
      <4>3. \/ /\ cache' = [cache EXCEPT ![req[r].id] = 0]
               /\ tainted' = [tainted EXCEPT ![req[r].id] = FALSE]
            \/ /\ cache' = cache
               /\ tainted' = [tainted EXCEPT ![req[r].id] = TRUE]
        BY <1>7 DEF ClearSlackChannels
      <4>4. PICK i \in Gens : i = req[r].id
        BY <2>2
      <4>5. cache \in [Gens -> Gens] /\ tainted \in [Gens -> BOOLEAN]
        BY <1>0 DEF Typed
      <4>6. cache' \in [Gens -> Gens]
        BY <4>1, <4>3, <4>4, <4>5
      <4>7. tainted' \in [Gens -> BOOLEAN]
        BY <4>3, <4>4, <4>5
      <4> QED
        BY <4>2, <4>6, <4>7
    <3> QED
      BY <1>7, <2>1, <3>1, OneRequest DEF ClearSlackChannels, Typed, flow, rows
  <2>4. NonceInv'
    BY <1>7 DEF ClearSlackChannels, NonceInv, flow
  <2>5. LockInv'
    BY <1>7, <2>1, Elsewhere, LockKept DEF ClearSlackChannels
  <2>6. ListIsCurrent'
    BY <1>7, <2>1, <2>2, OneRequest DEF ClearSlackChannels, rows, ListIsCurrent, Typed
  <2> QED
    BY <2>3, <2>4, <2>5, <2>6
<1>8. ASSUME Deliver(r) PROVE IInv'
  <2>1. PICK p \in DOMAIN row : /\ row[p].id # 0
                                /\ Start(r, "send", NoNonce, row[p].id, row[p].gen)
    BY <1>8 DEF Deliver
  <2> DEFINE v == [at |-> "send", flow |-> NoNonce, id |-> row[p].id, gen |-> row[p].gen]
  <2>2. row[p] \in [id : Gens, gen : Gens]
    BY <1>0 DEF Typed
  <2>3. v \in Records /\ req' = [req EXCEPT ![r] = v] /\ req[r] = Idle
    <3>1. "send" \in Steps
      BY DEF Steps
    <3> QED
      BY <2>1, <2>2, <3>1 DEF Start, Records
  <2>4. Typed'
    BY <1>8, <2>1, <2>3, OneRequest DEF Deliver, Typed, flow, rows, list
  <2>5. NonceInv'
    BY <1>8 DEF Deliver, NonceInv, flow
  <2>6. LockInv'
    BY <1>8, <2>3, Elsewhere, LockKept DEF Deliver, list
  <2>7. ListIsCurrent'
    BY <1>8, <2>3, OneRequest DEF Deliver, rows, list, ListIsCurrent, Idle
  <2> QED
    BY <2>4, <2>5, <2>6, <2>7
<1>9. ASSUME Sent(r) PROVE IInv'
  <2>1. Idle \in Records /\ req' = [req EXCEPT ![r] = Idle] /\ Idle.at = "idle"
    BY <1>9, Ends DEF Sent
  <2>2. Typed'
    BY <1>9, <2>1, OneRequest DEF Sent, Typed, flow, rows, list
  <2>3. NonceInv'
    BY <1>9 DEF Sent, NonceInv, flow
  <2>4. LockInv'
    BY <1>9, <2>1, Elsewhere, LockKept DEF Sent, list
  <2>5. ListIsCurrent'
    BY <1>9, <2>1, OneRequest DEF Sent, rows, list, ListIsCurrent
  <2> QED
    BY <2>2, <2>3, <2>4, <2>5
<1>10. ASSUME MarkRevoked(r) PROVE IInv'
  <2>1. PICK v \in Records : /\ req' = [req EXCEPT ![r] = v]
                             /\ v.at = "clear" /\ v.id = req[r].id
    BY <1>0, <1>10, GoesOn DEF MarkRevoked
  <2>2. /\ revoked' \subseteq {"slack", "discord"}
        /\ \A p \in revoked' : row'[p].id # 0
        /\ faultsLeft' \in 0 .. MaxFaults
    <3>1. req[r].id # 0 /\ row' = row /\ DOMAIN row = {"slack", "discord"}
      BY <1>0, <1>10 DEF MarkRevoked, Typed
    <3>2. \A p \in revoked' : p \in revoked \/ (p \in DOMAIN row /\ row[p].id = req[r].id)
      BY <1>10 DEF MarkRevoked
    <3>3. faultsLeft' \in 0 .. MaxFaults
      BY <1>0, <1>10 DEF MarkRevoked, Typed, NoFault, Fault
    <3> QED
      BY <1>0, <3>1, <3>2, <3>3 DEF Typed
  <2>3. Typed'
    BY <1>10, <2>1, <2>2, OneRequest DEF MarkRevoked, Typed, flow, list
  <2>4. NonceInv'
    BY <1>10 DEF MarkRevoked, NonceInv, flow
  <2>5. LockInv'
    BY <1>10, <2>1, Elsewhere, LockKept DEF MarkRevoked, list
  <2>6. ListIsCurrent'
    BY <1>10, <2>1, OneRequest DEF MarkRevoked, list, ListIsCurrent
  <2> QED
    BY <2>3, <2>4, <2>5, <2>6
<1> QED
  BY <1>1, <1>2, <1>3, <1>4, <1>5, <1>6, <1>7, <1>8, <1>9, <1>10 DEF Authorize, SendAlert

\* The list of channels.
LEMMA ListStep ==
    ASSUME IInv, NEW r \in Requests,
           PickChannel(r) \/ Drop(r)
    PROVE  IInv'
<1> USE IntegrationsAssumption
<1> USE DEF IInv
<1>0. /\ Typed /\ req[r] \in Records /\ req[r].id \in Gens /\ req[r].gen \in Gens
      /\ {"read", "lock", "wait", "fetch", "store", "unlock"} \subseteq Steps
  BY DEF Typed, Steps, Records
<1>1. ASSUME SlackChannels(r) PROVE IInv'
  <2>1. PICK step \in {"read", "lock"} :
            Start(r, step, NoNonce, row["slack"].id, row["slack"].gen)
    BY <1>1 DEF SlackChannels
  <2> DEFINE v == [at |-> step, flow |-> NoNonce, id |-> row["slack"].id,
                   gen |-> row["slack"].gen]
  <2>2. row["slack"] \in [id : Gens, gen : Gens]
    BY DEF Typed
  <2>3. v \in Records /\ req' = [req EXCEPT ![r] = v] /\ req[r] = Idle
    BY <1>0, <2>1, <2>2 DEF Start, Records
  <2>4. Typed'
    BY <1>1, <2>3, OneRequest DEF SlackChannels, Typed, flow, rows, list
  <2>5. NonceInv'
    BY <1>1 DEF SlackChannels, NonceInv, flow
  <2>6. LockInv'
    BY <1>1, <2>3, Elsewhere, LockKept DEF SlackChannels, list
  <2>7. ListIsCurrent'
    BY <1>1, <2>3, OneRequest DEF SlackChannels, rows, list, ListIsCurrent, Idle
  <2> QED
    BY <2>4, <2>5, <2>6, <2>7
<1>2. ASSUME ReadCache(r) \/ Wait(r) PROVE IInv'
  <2>1. PICK v \in Records : /\ req' = [req EXCEPT ![r] = v]
                             /\ v.at \notin {"exchange", "save", "clear", "send", "fetch", "store", "unlock"}
    BY <1>0, <1>2, GoesOn, Ends DEF ReadCache, Wait
  <2>2. Typed'
    <3>1. faultsLeft' \in 0 .. MaxFaults
      BY <1>0, <1>2 DEF ReadCache, Wait, Typed, NoFault, Fault
    <3>2. UNCHANGED <<flow, rows, list>>
      BY <1>2 DEF ReadCache, Wait
    <3> QED
      BY <2>1, <3>1, <3>2, OneRequest DEF Typed, flow, rows, list
  <2>3. NonceInv'
    BY <1>2 DEF ReadCache, Wait, NonceInv, flow
  <2>4. LockInv'
    BY <1>2, <2>1, Elsewhere, LockKept DEF ReadCache, Wait, list
  <2>5. ListIsCurrent'
    BY <1>2, <2>1, OneRequest DEF ReadCache, Wait, rows, list, ListIsCurrent
  <2> QED
    BY <2>2, <2>3, <2>4, <2>5
<1>3. ASSUME TryLock(r) PROVE IInv'
  <2>0. PICK i \in Gens : i = req[r].id
    BY <1>0
  <2>1. PICK v \in Records :
            /\ req' = [req EXCEPT ![r] = v]
            /\ v.at \in {"fetch", "wait"} /\ v.id = i
            /\ \/ v.at = "wait" /\ UNCHANGED <<lock, expiries>>
               \/ /\ v.at = "fetch" /\ ~lock[i]
                  /\ lock' = [lock EXCEPT ![i] = TRUE] /\ UNCHANGED expiries
               \/ /\ v.at = "fetch"
                  /\ lock' \in {lock, [lock EXCEPT ![i] = TRUE]}
                  /\ expiries' = [expiries EXCEPT ![i] = @ + 1]
    <3>1. CASE Goto(r, "fetch") /\ \/ ~lock[i] /\ lock' = [lock EXCEPT ![i] = TRUE]
                                                /\ UNCHANGED expiries
                                   \/ /\ lock' \in {lock, [lock EXCEPT ![i] = TRUE]}
                                      /\ expiries' = [expiries EXCEPT ![i] = @ + 1]
      BY <1>0, <2>0, <3>1, GoesOn
    <3>2. CASE Goto(r, "wait") /\ UNCHANGED <<lock, expiries>>
      BY <1>0, <2>0, <3>2, GoesOn
    <3> QED
      BY <1>3, <2>0, <3>1, <3>2 DEF TryLock
  <2>2. /\ lock' \in [Gens -> BOOLEAN] /\ expiries' \in [Gens -> Nat]
        /\ faultsLeft' \in 0 .. MaxFaults
        /\ \A j \in Gens \ {i} : lock'[j] = lock[j] /\ expiries'[j] = expiries[j]
        /\ v.at = "fetch" => \/ ~lock[i] /\ lock'[i] /\ expiries'[i] = expiries[i]
                             \/ (lock[i] => lock'[i]) /\ expiries'[i] = expiries[i] + 1
    <3>1. faultsLeft' \in 0 .. MaxFaults
      BY <1>0, <1>3 DEF TryLock, Typed, NoFault, Fault
    <3>2. CASE ~lock[i] /\ lock' = [lock EXCEPT ![i] = TRUE] /\ UNCHANGED expiries
      BY <1>0, <3>1, <3>2 DEF Typed
    <3>3. CASE v.at = "wait" /\ UNCHANGED <<lock, expiries>>
      BY <1>0, <3>1, <3>3 DEF Typed
    <3>4. CASE lock' = lock /\ expiries' = [expiries EXCEPT ![i] = @ + 1]
      BY <1>0, <3>1, <3>4 DEF Typed
    <3>5. CASE lock' = [lock EXCEPT ![i] = TRUE] /\ expiries' = [expiries EXCEPT ![i] = @ + 1]
      BY <1>0, <3>1, <3>5 DEF Typed
    <3> QED
      BY <2>1, <3>2, <3>3, <3>4, <3>5
  <2>3. Typed'
    BY <1>3, <2>1, <2>2, OneRequest DEF TryLock, Typed, flow, rows
  <2>4. NonceInv'
    BY <1>3 DEF TryLock, NonceInv, flow
  <2>5. LockInv'
    <3>1. CASE v.at = "wait"
      BY <2>1, <3>1, Elsewhere, LockKept
    <3>2. CASE v.at = "fetch"
      <4> SUFFICES ASSUME NEW j \in Gens
                   PROVE  Cardinality(Enumerators(j)') <= expiries'[j] + Held(j)'
        BY DEF LockInv
      <4>1. CASE j = i
        <5>1. Enumerators(i)' \subseteq Enumerators(i) \cup {r}
          BY <2>1, OneRequest DEF Enumerators
        <5>2. Cardinality(Enumerators(i)') <= Cardinality(Enumerators(i)) + 1
              /\ Cardinality(Enumerators(i)') \in Nat /\ Cardinality(Enumerators(i)) \in Nat
          BY <1>0, <5>1, OneMoreEnumerator
        <5>3. Cardinality(Enumerators(i)) <= expiries[i] + Held(i)
          BY <1>0 DEF LockInv
        <5>4. expiries[i] + Held(i) + 1 <= expiries'[i] + Held(i)'
          BY <1>0, <2>2, <3>2 DEF Held, Typed
        <5>5. expiries[i] + Held(i) \in Nat /\ expiries'[i] + Held(i)' \in Nat
          BY <1>0, <2>2 DEF Held, Typed
        <5> QED
          BY <4>1, <5>2, <5>3, <5>4, <5>5
      <4>2. CASE j # i
        <5>1. Enumerators(j)' \subseteq Enumerators(j)
          BY <2>1, <4>2, OneRequest DEF Enumerators
        <5>2. Cardinality(Enumerators(j)') <= Cardinality(Enumerators(j))
              /\ Cardinality(Enumerators(j)') \in Nat /\ Cardinality(Enumerators(j)) \in Nat
          BY <5>1, FewerEnumerators
        <5>3. Held(j)' = Held(j) /\ expiries'[j] = expiries[j]
          BY <2>2, <4>2 DEF Held
        <5>4. Cardinality(Enumerators(j)) <= expiries[j] + Held(j)
              /\ expiries[j] + Held(j) \in Nat
          BY DEF LockInv, Held, Typed
        <5> QED
          BY <5>2, <5>3, <5>4
      <4> QED
        BY <4>1, <4>2
    <3> QED
      BY <2>1, <3>1, <3>2
  <2>6. ListIsCurrent'
    <3>1. req[r].at # "clear"
      BY <1>3 DEF TryLock
    <3> QED
      BY <1>3, <2>1, <3>1, OneRequest DEF TryLock, rows, ListIsCurrent
  <2> QED
    BY <2>3, <2>4, <2>5, <2>6
<1>4. ASSUME FetchAll(r) PROVE IInv'
  <2>1. PICK v \in Records : /\ req' = [req EXCEPT ![r] = v]
                             /\ v.at \in {"store", "unlock"} /\ v.id = req[r].id
    BY <1>0, <1>4, GoesOn DEF FetchAll
  <2>2. Typed'
    BY <1>4, <2>1, OneRequest DEF FetchAll, Typed, flow, rows, list, NoFault, Fault
  <2>3. NonceInv'
    BY <1>4 DEF FetchAll, NonceInv, flow
  <2>4. \A i \in Gens : Enumerators(i)' \subseteq Enumerators(i)
    BY <1>4, <2>1, OneRequest DEF FetchAll, Enumerators
  <2>5. LockInv'
    BY <1>4, <2>4, LockKept DEF FetchAll, list
  <2>6. ListIsCurrent'
    BY <1>4, <2>1, OneRequest DEF FetchAll, rows, list, ListIsCurrent
  <2> QED
    BY <2>2, <2>3, <2>5, <2>6
<1>5. ASSUME StoreList(r) PROVE IInv'
  <2>0. PICK i \in Gens : i = req[r].id
    BY <1>0
  <2>1. PICK v \in Records : /\ req' = [req EXCEPT ![r] = v]
                             /\ v.at = "unlock" /\ v.id = req[r].id
    BY <1>0, <1>5, GoesOn DEF StoreList
  <2>2. /\ cache' \in [Gens -> Gens] /\ tainted' \in [Gens -> BOOLEAN]
        /\ \A j \in Gens \ {i} : cache'[j] = cache[j] /\ tainted'[j] = tainted[j]
        /\ \/ cache'[i] = cache[i] /\ tainted'[i] = tainted[i]
           \/ tainted'[i] \/ row["slack"] = [id |-> i, gen |-> cache'[i]]
    <3>1. CASE UNCHANGED <<cache, tainted>>
      BY <3>1 DEF Typed
    <3>2. CASE /\ cache' = [cache EXCEPT ![i] = req[r].gen]
               /\ tainted' = [tainted EXCEPT ![i] = row["slack"] # [id |-> i, gen |-> req[r].gen]]
      <4>1. (row["slack"] # [id |-> i, gen |-> req[r].gen]) \in BOOLEAN
        OBVIOUS
      <4>2. cache' \in [Gens -> Gens] /\ cache'[i] = req[r].gen
            /\ \A j \in Gens \ {i} : cache'[j] = cache[j]
        BY <1>0, <3>2 DEF Typed
      <4>3. tainted' \in [Gens -> BOOLEAN] /\ \A j \in Gens \ {i} : tainted'[j] = tainted[j]
        BY <1>0, <3>2, <4>1 DEF Typed
      <4>4. tainted'[i] = (row["slack"] # [id |-> i, gen |-> req[r].gen])
        BY <1>0, <3>2 DEF Typed
      <4> QED
        BY <4>2, <4>3, <4>4
    <3> QED
      BY <1>5, <2>0, <3>1, <3>2 DEF StoreList
  <2>3. Typed'
    <3>1. faultsLeft' \in 0 .. MaxFaults
      BY <1>0, <1>5 DEF StoreList, Typed, NoFault, Fault
    <3> QED
      BY <1>5, <2>1, <2>2, <3>1, OneRequest DEF StoreList, Typed, flow, rows
  <2>4. NonceInv'
    BY <1>5 DEF StoreList, NonceInv, flow
  <2>5. \A j \in Gens : Enumerators(j)' \subseteq Enumerators(j)
    BY <1>5, <2>1, OneRequest DEF StoreList, Enumerators
  <2>6. LockInv'
    BY <1>5, <2>5, LockKept DEF StoreList
  <2>7. ListIsCurrent'
    <3>1. req[r].at # "clear"
      BY <1>5 DEF StoreList
    <3> QED
      BY <1>5, <2>1, <2>2, <3>1, OneRequest DEF StoreList, rows, ListIsCurrent
  <2> QED
    BY <2>3, <2>4, <2>6, <2>7
<1>6. ASSUME Unlock(r) PROVE IInv'
  <2>0. PICK i \in Gens : i = req[r].id
    BY <1>0
  <2>1. Idle \in Records /\ req' = [req EXCEPT ![r] = Idle] /\ Idle.at = "idle"
    BY <1>6, Ends DEF Unlock
  <2>2. /\ lock' \in [Gens -> BOOLEAN]
        /\ \A j \in Gens \ {i} : lock'[j] = lock[j]
        /\ expiries' = expiries /\ faultsLeft' \in 0 .. MaxFaults
    <3>1. expiries' = expiries /\ faultsLeft' \in 0 .. MaxFaults
      BY <1>0, <1>6 DEF Unlock, Typed, NoFault, Fault
    <3>2. lock' = lock \/ lock' = [lock EXCEPT ![i] = FALSE]
      BY <1>6, <2>0 DEF Unlock
    <3> QED
      BY <3>1, <3>2 DEF Typed
  <2>3. Typed'
    BY <1>6, <2>1, <2>2, OneRequest DEF Unlock, Typed, flow, rows
  <2>4. NonceInv'
    BY <1>6 DEF Unlock, NonceInv, flow
  <2>5. LockInv'
    <3> SUFFICES ASSUME NEW j \in Gens
                 PROVE  Cardinality(Enumerators(j)') <= expiries'[j] + Held(j)'
      BY DEF LockInv
    <3>1. CASE j = i
      <4>1. r \in Enumerators(i) /\ Enumerators(i)' = Enumerators(i) \ {r}
        BY <1>6, <2>0, <2>1, OneRequest DEF Unlock, Enumerators
      <4>2. Cardinality(Enumerators(i)) \in Nat
            /\ Cardinality(Enumerators(i)') = Cardinality(Enumerators(i)) - 1
        BY <1>0, <4>1, OneLessEnumerator
      <4>3. Cardinality(Enumerators(i)) <= expiries[i] + Held(i)
        BY DEF LockInv
      <4>4. expiries[i] \in Nat /\ Held(i) \in {0, 1} /\ Held(i)' \in {0, 1}
        BY DEF Held, Typed
      <4> QED
        BY <2>2, <3>1, <4>2, <4>3, <4>4
    <3>2. CASE j # i
      <4>1. Enumerators(j)' \subseteq Enumerators(j)
        BY <2>1, OneRequest DEF Enumerators
      <4>2. Cardinality(Enumerators(j)') <= Cardinality(Enumerators(j))
            /\ Cardinality(Enumerators(j)') \in Nat /\ Cardinality(Enumerators(j)) \in Nat
        BY <4>1, FewerEnumerators
      <4>3. Held(j)' = Held(j)
        BY <2>2, <3>2 DEF Held
      <4>4. Cardinality(Enumerators(j)) <= expiries[j] + Held(j)
            /\ expiries[j] + Held(j) \in Nat
        BY DEF LockInv, Held, Typed
      <4> QED
        BY <2>2, <4>2, <4>3, <4>4
    <3> QED
      BY <3>1, <3>2
  <2>6. ListIsCurrent'
    <3>1. req[r].at # "clear"
      BY <1>6 DEF Unlock
    <3> QED
      BY <1>6, <2>1, <3>1, OneRequest DEF Unlock, rows, ListIsCurrent
  <2> QED
    BY <2>3, <2>4, <2>5, <2>6
<1>7. ASSUME Drop(r) PROVE IInv'
  <2>1. Idle \in Records /\ req' = [req EXCEPT ![r] = Idle] /\ Idle.at = "idle"
    BY <1>7, Ends DEF Drop
  <2>2. PICK i \in Gens : i = req[r].id
    BY <1>0
  <2>3. /\ tainted' \in [Gens -> BOOLEAN] /\ faultsLeft' \in 0 .. MaxFaults
        /\ \A j \in Gens : tainted[j] => tainted'[j]
        /\ req[r].at = "clear" => tainted'[i]
    BY <1>0, <1>7, <2>2 DEF Drop, Typed, Fault
  <2>4. Typed'
    BY <1>7, <2>1, <2>3, OneRequest DEF Drop, Typed, flow, rows
  <2>5. NonceInv'
    BY <1>7 DEF Drop, NonceInv, flow
  <2>6. LockInv'
    BY <1>7, <2>1, Elsewhere, LockKept DEF Drop
  <2>7. ListIsCurrent'
    BY <1>7, <2>1, <2>2, <2>3, OneRequest DEF Drop, rows, ListIsCurrent
  <2> QED
    BY <2>4, <2>5, <2>6, <2>7
<1> QED
  BY <1>1, <1>2, <1>3, <1>4, <1>5, <1>6, <1>7 DEF PickChannel

-----------------------------------------------------------------------------
(* The theorems.                                                           *)

\* Whatever Redis, the providers and the clients do, the invariant holds.
THEOREM IntegrationsInvariant == Spec => []IInv
<1>1. IInv /\ [Next]_vars => IInv'
  <2> SUFFICES ASSUME IInv, [Next]_vars PROVE IInv'
    OBVIOUS
  <2>1. CASE UNCHANGED vars
    BY <2>1 DEF vars, flow, rows, list, IInv, Typed, NonceInv, LockInv, Held, Enumerators,
                ListIsCurrent
  <2> QED
    BY <2>1, BeginOrExpire, FlowStep, ListStep DEF Next
<1> QED
  BY InitInv, <1>1, PTL DEF Spec

\* Every variable keeps its type, and no more requests enumerate the channels
\* of an integration than hold its lock or lost it to time or to Redis.
THEOREM LockIsHeld == Spec => []TypeOK
<1>1. IInv => TypeOK
  BY DEF IInv, Typed, Records, LockInv, Held, TypeOK
<1> QED
  BY IntegrationsInvariant, <1>1, PTL

\* A flow passes the nonce check once, but for times Redis did not answer.
THEOREM NoncesAreSpentOnce == Spec => []NonceIsSingleUse
<1>1. IInv => NonceIsSingleUse
  BY DEF IInv, NonceInv, NonceIsSingleUse
<1> QED
  BY IntegrationsInvariant, <1>1, PTL

\* A cached list is that of the token in the row, but in the cases it names.
THEOREM CachedListsAreCurrent == Spec => []ListIsCurrent
<1>1. IInv => ListIsCurrent
  BY DEF IInv
<1> QED
  BY IntegrationsInvariant, <1>1, PTL
=============================================================================
