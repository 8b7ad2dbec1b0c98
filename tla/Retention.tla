------------------------------ MODULE Retention ------------------------------
(***************************************************************************)
(* Retention: what an organisation asks for and what the tables are given  *)
(* (routes/tenants.rs get_retention and update_retention, postgres and     *)
(* clickhouse retention.rs, enforce_retention of main.rs), over the        *)
(* permissions of AccessRules.                                             *)
(*                                                                         *)
(* A save writes its resources one upsert at a time.  Once an hour a sweep *)
(* reads the rows of every tenant, one tenant at a time, and gives each    *)
(* ClickHouse table the shortest retention it saw: TTL is per table, not   *)
(* per tenant.  A tenant whose rows cannot be read counts as one that has  *)
(* none, and a table that cannot be altered ends the sweep.                *)
(*                                                                         *)
(* Bound: retention and the team share the permission check and nothing    *)
(* else, so in one behaviour (focus) either of them changes.               *)
(***************************************************************************)
EXTENDS AccessRules

CONSTANTS
    Tenants,   \* active organisations
    Home,      \* the one AccessRules is about
    Asks,      \* what a save may be sent: the days of each resource
    Default,   \* a table's TTL where nobody asked: 90 and 30 days in the code
    MaxSaves,  \* bound: saves in a behaviour
    MaxFaults  \* bound: reads and statements that fail in a behaviour

Tables == {"task_events", "worker_events"}

\* In the order update_retention writes them; nothing enforces the third.
Resources == <<"task_events", "worker_events", "alert_history">>
ResourceNames == {Resources[i] : i \in DOMAIN Resources}

Unset == 0  \* no row of retention_policies

Days == {ask[i] : ask \in Asks, i \in DOMAIN Resources}

ASSUME RetentionAssumption ==
    /\ Home \in Tenants
    /\ Asks \subseteq [DOMAIN Resources -> Nat \ {Unset}]
    /\ Default \in [Tables -> Nat \ {Unset}]
    /\ MaxSaves \in Nat
    /\ MaxFaults \in Nat

VARIABLES
    focus,      \* which of the two changes in this behaviour
    policy,     \* retention_policies of every tenant
    saving,     \* per slot, the days a save was sent and the rows written
    ttl,        \* TTL of each table
    sweep,      \* enforce_retention under way: tenants to read, minimum so far
    savesLeft,  \* bound counters
    faultsLeft

settingsVars == <<policy, saving, ttl, sweep, savesLeft, faultsLeft>>
vars == <<accessVars, settingsVars, focus>>

NoSave == [days |-> <<>>, written |-> 0]
AtRest == [at |-> "rest", todo |-> {}, min |-> Default]

\* Other tenants' rows are as they are: Home's are the ones saved.
SettingsInit ==
    /\ Init
    /\ focus \in {"team", "retention"}
    /\ policy \in [Tenants -> [ResourceNames -> {Unset} \cup Days]]
    /\ \A r \in ResourceNames : policy[Home][r] = Unset
    /\ \A t \in Tenants, r \in ResourceNames :
          focus = "team" \/ r \notin Tables => policy[t][r] = Unset
    /\ saving = [q \in Requests |-> NoSave]
    /\ ttl = Default
    /\ sweep = AtRest
    /\ savesLeft = MaxSaves
    /\ faultsLeft = MaxFaults

Shorter(a, b) == IF b < a THEN b ELSE a

Fault ==
    /\ faultsLeft > 0
    /\ faultsLeft' = faultsLeft - 1

-----------------------------------------------------------------------------
(* The page that saves retention.                                          *)

\* update_retention: the permission and the input are checked first.  The rest
\* of the handler runs in saving[q].
SaveRetention(q, days) ==
    /\ Allowed(q, "settings_write")
    /\ saving[q] = NoSave
    /\ savesLeft > 0
    /\ saving' = [saving EXCEPT ![q] = [days |-> days, written |-> 0]]
    /\ savesLeft' = savesLeft - 1
    /\ Answer(q)
    /\ UNCHANGED <<status, role, signing, tokens, keys, policy, ttl, sweep, faultsLeft>>

\* upsert_retention_policy, once per resource.
Upsert(q) ==
    LET n == saving[q].written + 1
    IN  /\ saving[q] # NoSave
        /\ policy' = [policy EXCEPT ![Home][Resources[n]] = saving[q].days[n]]
        /\ saving' = [saving EXCEPT ![q] = IF n = Len(Resources) THEN NoSave
                                           ELSE [@ EXCEPT !.written = n]]
        /\ UNCHANGED <<accessVars, ttl, sweep, savesLeft, faultsLeft>>

\* An upsert fails: the rows before it stay as written.
SaveFails(q) ==
    /\ saving[q] # NoSave
    /\ saving' = [saving EXCEPT ![q] = NoSave]
    /\ Fault
    /\ UNCHANGED <<accessVars, policy, ttl, sweep, savesLeft>>

-----------------------------------------------------------------------------
(* The hourly sweep.                                                       *)

\* Slip: the minimum starts at what the tables have.
BeginSweepLowered ==
    /\ sweep.at = "rest"
    /\ sweep' = [at |-> "read", todo |-> Tenants, min |-> ttl]
    /\ UNCHANGED <<accessVars, policy, saving, ttl, savesLeft, faultsLeft>>

BeginSweep ==
    /\ sweep.at = "rest"
    /\ sweep' = [at |-> "read", todo |-> Tenants, min |-> Default]
    /\ UNCHANGED <<accessVars, policy, saving, ttl, savesLeft, faultsLeft>>

\* The shorter of the minimum so far and what a tenant's rows ask for.
Lower(min, rows) ==
    [t \in Tables |-> IF rows[t] = Unset THEN min[t] ELSE Shorter(min[t], rows[t])]

\* One tenant's rows, all at once.
ReadPolicies(t) ==
    /\ sweep.at = "read"
    /\ t \in sweep.todo
    /\ \/ /\ sweep' = [sweep EXCEPT !.todo = @ \ {t}, !.min = Lower(@, policy[t])]
          /\ UNCHANGED faultsLeft
       \/ /\ sweep' = [sweep EXCEPT !.todo = @ \ {t}]
          /\ Fault
    /\ UNCHANGED <<accessVars, policy, saving, ttl, savesLeft>>

\* apply_table_ttl: task_events, then worker_events.
ApplyTtl(table, from, to) ==
    /\ sweep.at = from
    /\ sweep.todo = {}
    /\ ttl' = [ttl EXCEPT ![table] = sweep.min[table]]
    /\ sweep' = IF to = "rest" THEN AtRest ELSE [sweep EXCEPT !.at = to]
    /\ UNCHANGED <<accessVars, policy, saving, savesLeft, faultsLeft>>

\* The list of tenants or an ALTER fails, or the process restarts.
SweepFails ==
    /\ sweep # AtRest
    /\ sweep' = AtRest
    /\ Fault
    /\ UNCHANGED <<accessVars, policy, saving, ttl, savesLeft>>

Sweep ==
    \/ BeginSweep
    \/ \E t \in Tenants : ReadPolicies(t)
    \/ ApplyTtl("task_events", "read", "worker_events")
    \/ ApplyTtl("worker_events", "worker_events", "rest")

SettingsNext ==
    \/ \E q \in Requests :
          \/ \E t \in tokens : BySession(q, t) /\ UNCHANGED settingsVars
          \/ \E days \in Asks : SaveRetention(q, days)
          \/ Upsert(q) \/ SaveFails(q)
    \/ \E m \in Members : (FindUser(m) \/ IssueToken(m)) /\ UNCHANGED settingsVars
    \/ Sweep \/ SweepFails

Next ==
    /\ \/ focus = "team" /\ TeamNext /\ UNCHANGED settingsVars
       \/ focus = "retention" /\ SettingsNext
    /\ UNCHANGED focus

Spec == SettingsInit /\ [][Next]_vars

\* interval.tick() comes every hour, and the sweep runs to its end.
FairSpec == Spec /\ WF_vars(focus = "retention" /\ Sweep /\ UNCHANGED focus)

-----------------------------------------------------------------------------
(* Properties.                                                             *)

\* The types of AccessRules and of this module's variables; a minimum is at
\* most the default, and a save under way still has a row to write.
SettingsTypeOK ==
    /\ TypeOK
    /\ policy \in [Tenants -> [ResourceNames -> {Unset} \cup Days]]
    /\ ttl \in [Tables -> Nat \ {Unset}]
    /\ \A q \in Requests :
          saving[q] # NoSave => /\ saving[q].days \in Asks
                                /\ saving[q].written + 1 \in DOMAIN Resources
    /\ sweep.at \in {"rest", "read", "worker_events"}
    /\ sweep.todo \subseteq Tenants
    /\ \A t \in Tables : sweep.min[t] \in 1 .. Default[t]

\* The shortest retention any tenant has asked of a table.
Shortest(t) ==
    LET asked == {policy[n][t] : n \in Tenants} \ {Unset}
    IN  CHOOSE d \in asked \cup {Default[t]} :
            \A e \in asked \cup {Default[t]} : d <= e

\* Once the saves, whole or cut short, and the failures are over, every table
\* comes to keep what the shortest stored retention says, and stays there
\* (enforce_retention: "apply the shortest per table").
RetentionIsEnforced == <>[](focus = "retention" => \A t \in Tables : ttl[t] = Shortest(t))

=============================================================================
