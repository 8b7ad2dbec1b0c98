---------------------------- MODULE Integrations ----------------------------
(***************************************************************************)
(* How a tenant connects Slack and Discord and how a person signs in with  *)
(* Google (api/src/routes/oauth_*.rs), and the cached list of a Slack      *)
(* workspace's channels, filled by one request at a time under a lock in   *)
(* Redis.                                                                  *)
(*                                                                         *)
(* Each provider knows one workspace, server or account here.  A row has   *)
(* an id, new whenever it is inserted, and a generation, new with every    *)
(* token saved in it; a list of channels is known by the generation of the *)
(* token that fetched it.  Requests share nothing but Postgres, Redis and  *)
(* the provider, and may end at any step: the client goes away, a          *)
(* statement fails, the process stops.                                     *)
(***************************************************************************)
EXTENDS Integers, FiniteSets

CONSTANTS
    Nonces,      \* the flows that may be started
    Requests,    \* slots for requests under way
    NoNonce,
    MaxGen,      \* bound: tokens saved in a behaviour
    MaxFaults    \* bound: failures of Redis, of a provider, and expired locks

ASSUME IntegrationsAssumption ==
    /\ NoNonce \notin Nonces
    /\ IsFiniteSet(Requests)
    /\ MaxGen \in Nat /\ MaxFaults \in Nat

\* Each has a domain of its own, under which its state is signed.
Providers == {"slack", "discord", "google"}

VARIABLES
    signed,      \* the provider a flow's state was signed for, or "none"
    stored,      \* oauth_nonce keys in Redis
    spent,       \* flows whose authorization code the provider has exchanged
    row,         \* the row of a provider: id 0 is no row
    revoked,     \* the rows whose status is "revoked"
    gen,         \* the last generation given
    links,       \* flows that made a sign-in token: magic_link_tokens
    cache,       \* slack_channels of an integration: a generation, or 0
    lock,        \* its :lock key
    req,         \* the requests under way
    faultsLeft

\* History variables.
VARIABLES
    exchanges,   \* requests of a flow that passed the nonce check
    unchecked,   \* those that passed because Redis did not answer
    expiries,    \* locks of an integration lost by expiry or never had
    tainted      \* lists stored by a request older than the row, or not cleared

flow   == <<signed, stored, spent, exchanges, unchecked>>
rows   == <<row, revoked, gen, links>>
list   == <<cache, lock, expiries, tainted>>
vars   == <<flow, rows, list, req, faultsLeft>>

Gens == 0 .. MaxGen
NoRow == [id |-> 0, gen |-> 0]
Idle == [at |-> "idle", flow |-> NoNonce, id |-> 0, gen |-> 0]

Init ==
    /\ signed = [n \in Nonces |-> "none"]
    /\ stored = {}
    /\ spent = {}
    /\ row = [p \in {"slack", "discord"} |-> NoRow]
    /\ revoked = {}
    /\ gen = 0
    /\ links = {}
    /\ cache = [i \in Gens |-> 0]
    /\ lock = [i \in Gens |-> FALSE]
    /\ req = [r \in Requests |-> Idle]
    /\ faultsLeft = MaxFaults
    /\ exchanges = [n \in Nonces |-> 0]
    /\ unchecked = [n \in Nonces |-> 0]
    /\ expiries = [i \in Gens |-> 0]
    /\ tainted = [i \in Gens |-> FALSE]

NoFault == faultsLeft' = faultsLeft

Fault == faultsLeft > 0 /\ faultsLeft' = faultsLeft - 1

Start(r, step, n, i, g) ==
    /\ req[r] = Idle
    /\ req' = [req EXCEPT ![r] = [at |-> step, flow |-> n, id |-> i, gen |-> g]]

Goto(r, step) == req' = [req EXCEPT ![r].at = step]

End(r) == req' = [req EXCEPT ![r] = Idle]

-----------------------------------------------------------------------------
(* The flow: slack_connect, discord_connect, google_connect.               *)

\* The nonce is stored for ten minutes; a failure is logged and passed over.
Connect(n, p) ==
    /\ signed[n] = "none"
    /\ signed' = [signed EXCEPT ![n] = p]
    /\ \/ NoFault /\ stored' = stored \cup {n}
       \/ Fault /\ stored' = stored
    /\ UNCHANGED <<spent, exchanges, unchecked, rows, list, req>>

NonceExpires(n) ==
    /\ n \in stored
    /\ stored' = stored \ {n}
    /\ UNCHANGED <<signed, spent, exchanges, unchecked, rows, list, req, faultsLeft>>

\* Slip: a nonce is looked at and left.
CallbackReading(r) ==
    /\ \E n \in Nonces : n \in stored /\ Start(r, "exchange", n, 0, 0)
                         /\ exchanges' = [exchanges EXCEPT ![n] = @ + 1]
    /\ NoFault
    /\ UNCHANGED <<signed, stored, spent, unchecked, rows, list>>

\* The callback up to consume_oauth_nonce, whose DEL tells whether the nonce
\* was there.  An error, before or after the DEL took place, lets it pass.
Callback(r) ==
    /\ \E n \in Nonces :
          /\ signed[n] # "none"
          /\ Start(r, "exchange", n, 0, 0)
          /\ exchanges' = [exchanges EXCEPT ![n] = @ + 1]
          /\ \/ /\ NoFault
                /\ n \in stored
                /\ stored' = stored \ {n}
                /\ UNCHANGED unchecked
             \/ /\ Fault
                /\ stored' \in {stored, stored \ {n}}
                /\ unchecked' = [unchecked EXCEPT ![n] = @ + 1]
    /\ UNCHANGED <<signed, spent, rows, list>>

\* The provider exchanges a code once; its answer may not arrive.
Exchange(r) ==
    LET n == req[r].flow IN
    /\ req[r].at = "exchange"
    /\ spent' = spent \cup {n}
    /\ \/ n \notin spent /\ NoFault /\ Goto(r, "save")
       \/ n \in spent /\ NoFault /\ End(r)
       \/ Fault /\ End(r)
    /\ UNCHANGED <<signed, stored, exchanges, unchecked, rows, list>>

\* upsert_on_config_key: the row of this workspace or channel gets the token,
\* keeps its id and is active.
Upserted(p) == [row EXCEPT ![p] = [id |-> IF @.id = 0 THEN gen + 1 ELSE @.id, gen |-> gen + 1]]

Upsert(p) ==
    /\ gen < MaxGen
    /\ gen' = gen + 1
    /\ row' = Upserted(p)
    /\ revoked' = revoked \ {p}

\* Slip: the cached list is left for a new token.
SaveSlackOnly(r) ==
    /\ req[r].at = "save" /\ signed[req[r].flow] = "slack"
    /\ Upsert("slack")
    /\ End(r)
    /\ UNCHANGED <<flow, links, list, faultsLeft>>

\* upsert_slack_integration; the list of the old token goes next.
SaveSlack(r) ==
    /\ req[r].at = "save" /\ signed[req[r].flow] = "slack"
    /\ Upsert("slack")
    /\ req' = [req EXCEPT ![r].at = "clear", ![r].id = row'["slack"].id]
    /\ UNCHANGED <<flow, links, list, faultsLeft>>

SaveDiscord(r) ==
    /\ req[r].at = "save" /\ signed[req[r].flow] = "discord"
    /\ Upsert("discord")
    /\ End(r)
    /\ UNCHANGED <<flow, links, list, faultsLeft>>

\* google_callback_inner: a magic link for the verified address, if it is a
\* user's (Sessions has the rest).
SaveGoogle(r) ==
    /\ req[r].at = "save" /\ signed[req[r].flow] = "google"
    /\ links' \in {links, links \cup {req[r].flow}}
    /\ End(r)
    /\ UNCHANGED <<flow, row, revoked, gen, list, faultsLeft>>

\* delete_integration.
DeleteIntegration(r) ==
    /\ \E p \in DOMAIN row :
          /\ row[p].id # 0
          /\ row' = [row EXCEPT ![p] = NoRow]
          /\ revoked' = revoked \ {p}
          /\ Start(r, "clear", NoNonce, row[p].id, 0)
    /\ UNCHANGED <<flow, gen, links, list, faultsLeft>>

\* deliver_channel of an alert or of test_integration, with a row read before;
\* one that is not active is refused.
Deliver(r) ==
    /\ \E p \in DOMAIN row \ revoked :
          /\ row[p].id # 0
          /\ Start(r, "send", NoNonce, row[p].id, row[p].gen)
    /\ UNCHANGED <<flow, rows, list, faultsLeft>>

\* The provider takes the alert, or fails.
Sent(r) ==
    /\ req[r].at = "send"
    /\ End(r)
    /\ UNCHANGED <<flow, rows, list, faultsLeft>>

\* mark_integration_revoked, when the provider says that the token is dead:
\* whichever token the row has by now.  The list goes next, also after an error.
MarkRevoked(r) ==
    /\ req[r].at = "send"
    /\ \/ NoFault /\ revoked' = revoked \cup {p \in DOMAIN row : row[p].id = req[r].id}
       \/ Fault /\ UNCHANGED revoked
    /\ Goto(r, "clear")
    /\ UNCHANGED <<flow, row, gen, links, list>>

\* clear_slack_channels; a failure is ignored.
ClearSlackChannels(r) ==
    LET i == req[r].id IN
    /\ req[r].at = "clear"
    /\ \/ /\ NoFault
          /\ cache' = [cache EXCEPT ![i] = 0]
          /\ tainted' = [tainted EXCEPT ![i] = FALSE]
       \/ /\ Fault
          /\ tainted' = [tainted EXCEPT ![i] = TRUE]
          /\ UNCHANGED cache
    /\ End(r)
    /\ UNCHANGED <<flow, rows, lock, expiries>>

-----------------------------------------------------------------------------
(* slack_channels.                                                         *)

\* The row, with the token of now, is read first; a refresh skips the cache.
SlackChannels(r) ==
    /\ row["slack"].id # 0
    /\ \E step \in {"read", "lock"} :
          Start(r, step, NoNonce, row["slack"].id, row["slack"].gen)
    /\ UNCHANGED <<flow, rows, list, faultsLeft>>

\* A list in the cache is served; an error reads as none.
ReadCache(r) ==
    /\ req[r].at = "read"
    /\ \/ NoFault /\ cache[req[r].id] # 0 /\ End(r)
       \/ NoFault /\ cache[req[r].id] = 0 /\ Goto(r, "lock")
       \/ Fault /\ Goto(r, "lock")
    /\ UNCHANGED <<flow, rows, list>>

\* Slip: whoever finds the lock taken enumerates all the same.
LockOrNot(r) ==
    /\ req[r].at = "lock"
    /\ lock' = [lock EXCEPT ![req[r].id] = TRUE]
    /\ Goto(r, "fetch")
    /\ NoFault
    /\ UNCHANGED <<flow, rows, cache, expiries, tainted>>

\* load_channels_single_flight: try_lock_slack_channels is SET NX with an
\* expiry.  When Redis does not answer the request enumerates without it, or
\* with it and not knowing.
TryLock(r) ==
    LET i == req[r].id IN
    /\ req[r].at = "lock"
    /\ \/ /\ NoFault /\ ~lock[i]
          /\ lock' = [lock EXCEPT ![i] = TRUE]
          /\ Goto(r, "fetch")
          /\ UNCHANGED expiries
       \/ /\ NoFault /\ lock[i]
          /\ Goto(r, "wait")
          /\ UNCHANGED <<lock, expiries>>
       \/ /\ Fault
          /\ lock' \in {lock, [lock EXCEPT ![i] = TRUE]}
          /\ expiries' = [expiries EXCEPT ![i] = @ + 1]
          /\ Goto(r, "fetch")
    /\ UNCHANGED <<flow, rows, cache, tainted>>

\* Six polls: the list appears and is served, or the answer is 429.
Wait(r) ==
    /\ req[r].at = "wait"
    /\ End(r)
    /\ UNCHANGED <<flow, rows, list, faultsLeft>>

\* fetch_all_slack_channels: pages and back-off may outlast the lock.
FetchAll(r) ==
    /\ req[r].at = "fetch"
    /\ \/ NoFault /\ Goto(r, "store")
       \/ Fault /\ Goto(r, "unlock")
    /\ UNCHANGED <<flow, rows, list>>

\* set_json; a failure is ignored.
StoreList(r) ==
    LET i == req[r].id IN
    /\ req[r].at = "store"
    /\ \/ /\ NoFault
          /\ cache' = [cache EXCEPT ![i] = req[r].gen]
          /\ tainted' = [tainted EXCEPT ![i] = row["slack"] # [id |-> i, gen |-> req[r].gen]]
       \/ Fault /\ UNCHANGED <<cache, tainted>>
    /\ Goto(r, "unlock")
    /\ UNCHANGED <<flow, rows, lock, expiries>>

\* unlock_slack_channels deletes the key, whoever set it.
Unlock(r) ==
    /\ req[r].at = "unlock"
    /\ \/ NoFault /\ lock' = [lock EXCEPT ![req[r].id] = FALSE]
       \/ Fault /\ UNCHANGED lock
    /\ End(r)
    /\ UNCHANGED <<flow, rows, cache, expiries, tainted>>

\* Thirty seconds, and five minutes.
LockExpires(i) ==
    /\ lock[i]
    /\ Fault
    /\ lock' = [lock EXCEPT ![i] = FALSE]
    /\ expiries' = [expiries EXCEPT ![i] = @ + 1]
    /\ UNCHANGED <<flow, rows, cache, tainted, req>>

CacheExpires(i) ==
    /\ cache[i] # 0
    /\ cache' = [cache EXCEPT ![i] = 0]
    /\ tainted' = [tainted EXCEPT ![i] = FALSE]
    /\ UNCHANGED <<flow, rows, lock, expiries, req, faultsLeft>>

\* A request that ends between its writes: what it would have cleared stays.
Drop(r) ==
    /\ req[r] # Idle
    /\ Fault
    /\ End(r)
    /\ tainted' = IF req[r].at = "clear" THEN [tainted EXCEPT ![req[r].id] = TRUE] ELSE tainted
    /\ UNCHANGED <<flow, rows, cache, lock, expiries>>

Authorize(r) ==
    Callback(r) \/ Exchange(r) \/ SaveSlack(r) \/ SaveDiscord(r) \/ SaveGoogle(r)

SendAlert(r) == Deliver(r) \/ Sent(r) \/ MarkRevoked(r)

PickChannel(r) ==
    \/ SlackChannels(r) \/ ReadCache(r) \/ TryLock(r) \/ Wait(r)
    \/ FetchAll(r) \/ StoreList(r) \/ Unlock(r)

Next ==
    \/ \E n \in Nonces : NonceExpires(n) \/ \E p \in Providers : Connect(n, p)
    \/ \E r \in Requests : \/ Authorize(r) \/ SendAlert(r) \/ PickChannel(r)
                           \/ DeleteIntegration(r) \/ ClearSlackChannels(r) \/ Drop(r)
    \/ \E i \in Gens : LockExpires(i) \/ CacheExpires(i)

Spec == Init /\ [][Next]_vars

-----------------------------------------------------------------------------
(* Properties.                                                             *)

Steps == {"idle", "exchange", "save", "clear", "send", "read", "lock", "wait", "fetch",
          "store", "unlock"}

\* The requests that enumerate the channels of an integration.
Enumerators(i) == {r \in Requests : req[r].id = i /\ req[r].at \in {"fetch", "store", "unlock"}}

\* Every variable stays in its type, and only a flow begun for Google signs in.
\* One request enumerates the channels at a time, under the lock, and at most
\* one more for each time the lock of the integration expired or Redis did not
\* answer for it, in the whole behaviour: releasing a lock that is another's
\* never raises their number.
TypeOK ==
    /\ signed \in [Nonces -> Providers \cup {"none"}]
    /\ stored \subseteq Nonces
    /\ spent \subseteq Nonces
    /\ row \in [{"slack", "discord"} -> [id : Gens, gen : Gens]]
    /\ revoked \subseteq {p \in DOMAIN row : row[p].id # 0}
    /\ gen \in Gens
    /\ links \subseteq {n \in Nonces : signed[n] = "google"}
    /\ cache \in [Gens -> Gens]
    /\ lock \in [Gens -> BOOLEAN]
    /\ req \in [Requests -> [at : Steps, flow : Nonces \cup {NoNonce}, id : Gens, gen : Gens]]
    /\ faultsLeft \in 0 .. MaxFaults
    /\ exchanges \in [Nonces -> Nat]
    /\ unchecked \in [Nonces -> Nat]
    /\ expiries \in [Gens -> Nat]
    /\ tainted \in [Gens -> BOOLEAN]
    /\ \A i \in Gens : Cardinality(Enumerators(i)) <= expiries[i] + (IF lock[i] THEN 1 ELSE 0)

\* A flow is exchanged with the provider once, and once more for each time that
\* Redis did not answer the check of its nonce.
NonceIsSingleUse == \A n \in Nonces : exchanges[n] <= 1 + unchecked[n]

\* A cached list is that of the token in the row, but while a reconnection has
\* still to clear it, when that failed, or when a request that read the old
\* token stored its list after the new one was saved.
ListIsCurrent ==
    \A i \in Gens :
        \/ cache[i] = 0
        \/ tainted[i]
        \/ \E r \in Requests : req[r].at = "clear" /\ req[r].id = i
        \/ row["slack"] = [id |-> i, gen |-> cache[i]]

=============================================================================
