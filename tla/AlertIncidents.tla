--------------------------- MODULE AlertIncidents ---------------------------
(***************************************************************************)
(* The alert evaluator of one tenant (run_alert_evaluation in              *)
(* src/crates/api/src/main.rs) against the rules, silences and history     *)
(* rows it shares, through Postgres, with the HTTP handlers.               *)
(*                                                                         *)
(* A pass takes snapshots one read at a time (enabled rules, open          *)
(* incidents, active silences) and then works through the rules, awaiting  *)
(* at every read, send and write.  Between two of its steps a rule can be  *)
(* edited, disabled or deleted, a silence can start or end, the metrics    *)
(* can move, and the process can restart, which loses the clear streaks    *)
(* and the flap throttle but no row.                                       *)
(*                                                                         *)
(* A closed history row is never read again by the evaluator, so openRows  *)
(* keeps the unresolved rows only.  Delivery outcomes and their retries    *)
(* are the subject of DeliveryRetry.                                       *)
(***************************************************************************)
EXTENDS Integers, Sequences, FiniteSets

CONSTANTS
    Rules,          \* the tenant's alert rules, existing or yet to be created
    NoRule,         \* no rule is being worked on
    Tenant,         \* the scope of a silence with rule_id NULL: every rule
    Channels,       \* the notification channels the rules list
    RuleSeverities, \* the severities a rule of the instance may carry
    Floor,          \* a channel's min_severity, "none" when it has no floor
    Cooldown,       \* a rule's cooldown_secs, in clock ticks
    CleanupAge,     \* the hour after which throttle.cleanup forgets, in ticks
    MaxAge,         \* bound: ages saturate here, where nothing throttles
    Faults,         \* the kinds of failure the instance lets happen
    MaxFaults       \* bound: how many failures happen in one behaviour

Severities == {"info", "warning", "critical"}

FaultKinds == {"rules_read", "open_read", "silence_read", "write", "restart"}

ASSUME RuleAssumption ==
    /\ NoRule \notin Rules
    /\ Tenant \notin Rules
    /\ RuleSeverities \subseteq Severities
    /\ RuleSeverities # {}
    /\ Floor \in [Channels -> Severities \cup {"none"}]

ASSUME BoundAssumption ==
    /\ MaxAge \in Nat
    /\ CleanupAge \in Nat
    /\ Cooldown \in [Rules -> 0 .. MaxAge]
    /\ Faults \subseteq FaultKinds
    /\ MaxFaults \in Nat

VARIABLES
    rule,           \* alert_rules: a rule's status and severity
    silences,       \* alert_silences: the scopes of the active silences
    openRows,       \* alert_history: a rule's unresolved rows, oldest first
    firing,         \* what evaluating the rule's condition would yield now
    streak,         \* ResolveTracker.clear_streaks, 0 for no entry
    age,            \* time since AlertThrottle.last_fired, MaxAge for no entry
    pc,             \* where the evaluator's pass is
    dbRules,        \* snapshot: severity of the rules listed as enabled
    openAlerts,     \* snapshot: rules with an open incident
    activeSilences, \* snapshot: scopes of the active silences
    todo,           \* what is left of the loop the pass is in
    cur,            \* the rule whose incident is being opened or resolved
    pending,        \* the channels its notification has still to go to
    faultsLeft      \* failures that may still happen

\* History variables: no guard reads them, the properties do.
VARIABLES
    clearRun,       \* evaluations in a row that found the rule clear, to 2
    sinceFired,     \* age, without what cleanup forgets
    covered,        \* rules silenced at every moment since the pass began
    retired         \* open rules not enabled at some moment since they opened

db    == <<rule, silences, openRows>>
mem   == <<streak, age>>
snap  == <<dbRules, openAlerts, activeSilences>>
prog  == <<todo, cur, pending>>
hist  == <<clearRun, sinceFired, covered, retired>>
vars  == <<db, firing, mem, pc, snap, prog, faultsLeft, hist>>

\* The evaluator's own steps change the database through openRows alone.
tables == <<rule, silences>>

-----------------------------------------------------------------------------
(* The pure parts: alerting/src/recovery.rs and alerting/src/throttle.rs.  *)

CLEAR_STREAK_TO_RESOLVE == 2

SeverityRank(s) == CASE s = "critical" -> 2
                     [] s = "warning"  -> 1
                     [] OTHER          -> 0

ChannelAccepts(floor, s) ==
    floor = "none" \/ SeverityRank(s) >= SeverityRank(floor)

\* The channels a notification of an incident of severity s goes to.
Accepting(s) == {c \in Channels : ChannelAccepts(Floor[c], s)}

IsSilenced(active, r) == Tenant \in active \/ r \in active

IsThrottled(r) == age[r] < Cooldown[r]

\* Slip: a firing evaluation leaves the streak alone.
RecordFiringNoReset(r) == streak' = streak

RecordFiring(r) == streak' = [streak EXCEPT ![r] = 0]

Forget(r) == streak' = [streak EXCEPT ![r] = 0]

\* Slip: the first clear evaluation completes the streak.
ClearCountEager(r) == CLEAR_STREAK_TO_RESOLVE

ClearCount(r) == streak[r] + 1

\* Slip: cleanup forgets every rule.
CleanupAll(a) == [r \in Rules |-> MaxAge]

Cleanup(a) == [r \in Rules |-> IF a[r] < CleanupAge THEN a[r] ELSE MaxAge]

-----------------------------------------------------------------------------
Phases == {"idle", "load_open", "close", "rules", "deliver", "resolve", "notice"}

\* An alert_history row: its severity and the channels of its channels_sent.
Row == [severity : RuleSeverities, log : SUBSET Channels]

RuleRow == [status   : {"none", "enabled", "disabled", "deleted"},
            severity : RuleSeverities]

\* A rule row exists in alert_rules.
Exists(r) == rule[r].status \in {"enabled", "disabled"}

Listed == {r \in Rules : dbRules[r] # "unlisted"}

Init ==
    /\ rule \in [Rules -> {x \in RuleRow : x.status = "none"}]
    /\ silences = {}
    /\ openRows = [r \in Rules |-> <<>>]
    /\ firing = [r \in Rules |-> FALSE]
    /\ streak = [r \in Rules |-> 0]
    /\ age = [r \in Rules |-> MaxAge]
    /\ pc = "idle"
    /\ dbRules = [r \in Rules |-> "unlisted"]
    /\ openAlerts = {}
    /\ activeSilences = {}
    /\ todo = {}
    /\ cur = NoRule
    /\ pending = {}
    /\ faultsLeft = MaxFaults
    /\ clearRun = [r \in Rules |-> 0]
    /\ sinceFired = [r \in Rules |-> MaxAge]
    /\ covered = {}
    /\ retired = {}

\* One failure of the given kind, if the instance has any left.
Fault(kind) ==
    /\ kind \in Faults
    /\ faultsLeft > 0
    /\ faultsLeft' = faultsLeft - 1

NoFault == faultsLeft' = faultsLeft

-----------------------------------------------------------------------------
(* The HTTP handlers of routes/alerts.rs, the metrics and the clock.       *)

\* create_rule: the row starts enabled (column default).
CreateRule(r, s) ==
    /\ rule[r].status = "none"
    /\ rule' = [rule EXCEPT ![r] = [status |-> "enabled", severity |-> s]]
    /\ UNCHANGED <<silences, openRows, firing, mem, pc, snap, prog, faultsLeft, hist>>

\* update_rule overwrites enabled flag and severity together.
UpdateRule(r, st, s) ==
    /\ Exists(r)
    /\ rule' = [rule EXCEPT ![r] = [status |-> st, severity |-> s]]
    /\ retired' = IF st = "disabled" /\ openRows[r] # <<>>
                  THEN retired \cup {r} ELSE retired
    /\ UNCHANGED <<silences, openRows, firing, mem, pc, snap, prog, faultsLeft,
                   clearRun, sinceFired, covered>>

\* delete_rule: history rows and silences of the rule go with it (CASCADE).
DeleteRule(r) ==
    /\ Exists(r)
    /\ rule' = [rule EXCEPT ![r].status = "deleted"]
    /\ openRows' = [openRows EXCEPT ![r] = <<>>]
    /\ silences' = silences \ {r}
    /\ covered' = covered \cap {q \in Rules : IsSilenced(silences', q)}
    /\ retired' = retired \ {r}
    /\ UNCHANGED <<firing, mem, pc, snap, prog, faultsLeft,
                   clearRun, sinceFired>>

\* create_silence: a tenant-wide scope, or that of an existing rule.
CreateSilence(scope) ==
    /\ scope = Tenant \/ (scope \in Rules /\ Exists(scope))
    /\ scope \notin silences
    /\ silences' = silences \cup {scope}
    /\ UNCHANGED <<rule, openRows, firing, mem, pc, snap, prog, faultsLeft, hist>>

\* expire_silence, or ends_at is reached.
EndSilence(scope) ==
    /\ scope \in silences
    /\ silences' = silences \ {scope}
    /\ covered' = covered \cap {q \in Rules : IsSilenced(silences', q)}
    /\ UNCHANGED <<rule, openRows, firing, mem, pc, snap, prog, faultsLeft,
                   clearRun, sinceFired, retired>>

MetricsMove(r) ==
    /\ firing' = [firing EXCEPT ![r] = ~@]
    /\ UNCHANGED <<db, mem, pc, snap, prog, faultsLeft, hist>>

Older(a) == [r \in Rules |-> IF a[r] < MaxAge THEN a[r] + 1 ELSE MaxAge]

ClockTick ==
    /\ age' = Older(age)
    /\ sinceFired' = Older(sinceFired)
    /\ UNCHANGED <<db, firing, streak, pc, snap, prog, faultsLeft,
                   clearRun, covered, retired>>

-----------------------------------------------------------------------------
(* One pass of run_alert_evaluation.  A failing read is read as "nothing"  *)
(* (unwrap_or_default), a failing write is logged and passed over.         *)

LoadRules ==
    /\ pc = "idle"
    /\ \/ /\ NoFault
          /\ dbRules' = [r \in Rules |-> IF rule[r].status = "enabled"
                                         THEN rule[r].severity ELSE "unlisted"]
       \/ /\ Fault("rules_read")
          /\ dbRules' = [r \in Rules |-> "unlisted"]
    /\ covered' = {r \in Rules : IsSilenced(silences, r)}
    /\ pc' = "load_open"
    /\ UNCHANGED <<db, firing, mem, openAlerts, activeSilences, prog,
                   clearRun, sinceFired, retired>>

\* Slip: rows with no delivery are not listed.
LoadOpenDelivered ==
    /\ pc = "load_open"
    /\ NoFault
    /\ openAlerts' = {r \in Rules : \E i \in 1 .. Len(openRows[r]) : openRows[r][i].log # {}}
    /\ todo' = openAlerts' \ Listed
    /\ pc' = "close"
    /\ UNCHANGED <<db, firing, mem, dbRules, activeSilences, cur, pending, hist>>

\* list_open_alerts; the orphans are the open rules missing from dbRules.
LoadOpen ==
    /\ pc = "load_open"
    /\ \/ /\ NoFault
          /\ openAlerts' = {r \in Rules : openRows[r] # <<>>}
       \/ /\ Fault("open_read")
          /\ openAlerts' = {}
    /\ todo' = openAlerts' \ Listed
    /\ pc' = "close"
    /\ UNCHANGED <<db, firing, mem, dbRules, activeSilences, cur, pending, hist>>

\* resolve_alerts_for_rule closes every open row of the rule, or fails.
ResolveAlertsForRule(r) ==
    \/ /\ NoFault
       /\ openRows' = [openRows EXCEPT ![r] = <<>>]
       /\ retired' = retired \ {r}
    \/ /\ Fault("write")
       /\ UNCHANGED <<openRows, retired>>

CloseOrphan(r) ==
    /\ pc = "close"
    /\ r \in todo
    /\ todo' = todo \ {r}
    /\ ResolveAlertsForRule(r)
    /\ Forget(r)
    /\ UNCHANGED <<tables, firing, age, pc, snap, cur, pending,
                   clearRun, sinceFired, covered>>

\* list_active_silences, once the orphans are closed.  With neither rules nor
\* open incidents the pass skips this read, which leaves it nothing to do.
LoadSilences ==
    /\ pc = "close"
    /\ todo = {}
    /\ \/ /\ NoFault
          /\ activeSilences' = silences
       \/ /\ Fault("silence_read")
          /\ activeSilences' = {}
    /\ todo' = Listed
    /\ pc' = "rules"
    /\ UNCHANGED <<db, firing, mem, dbRules, openAlerts, cur, pending, hist>>

\* evaluate_condition on the metrics of this moment yields f for rule r.
Evaluate(r, f) ==
    /\ pc = "rules"
    /\ r \in todo
    /\ todo' = todo \ {r}
    /\ firing[r] = f
    /\ clearRun' = [clearRun EXCEPT ![r] =
                        IF f THEN 0
                        ELSE IF @ < CLEAR_STREAK_TO_RESOLVE THEN @ + 1 ELSE @]

\* (true, Some): already notified when the incident opened.
StillFiring(r) ==
    /\ Evaluate(r, TRUE)
    /\ r \in openAlerts
    /\ RecordFiring(r)
    /\ UNCHANGED <<db, firing, age, pc, snap, cur, pending, faultsLeft,
                   sinceFired, covered, retired>>

\* (true, None) inside the flap cooldown.
FiringThrottled(r) ==
    /\ Evaluate(r, TRUE)
    /\ r \notin openAlerts
    /\ IsThrottled(r)
    /\ RecordFiring(r)
    /\ UNCHANGED <<db, firing, age, pc, snap, cur, pending, faultsLeft,
                   sinceFired, covered, retired>>

\* (true, None): a new incident, notified before it is recorded.
NewIncident(r) ==
    /\ Evaluate(r, TRUE)
    /\ r \notin openAlerts
    /\ ~IsThrottled(r)
    /\ RecordFiring(r)
    /\ cur' = r
    /\ pending' = IF IsSilenced(activeSilences, r) THEN {} ELSE Accepting(dbRules[r])
    /\ pc' = "deliver"
    /\ UNCHANGED <<db, firing, age, snap, faultsLeft,
                   sinceFired, covered, retired>>

\* deliver_channel to one channel of the loop, fire or resolve notice.
Deliver(c) ==
    /\ pc \in {"deliver", "notice"}
    /\ c \in pending
    /\ pending' = pending \ {c}
    /\ UNCHANGED <<db, firing, mem, pc, snap, todo, cur, faultsLeft, hist>>

\* The row record_alert_fired inserts: severity and log follow the snapshot.
NewRow(r) ==
    [severity |-> dbRules[r],
     log |-> IF IsSilenced(activeSilences, r) THEN {} ELSE Accepting(dbRules[r])]

\* record_alert_fired, the AlertFired broadcast and throttle.record_fired.
\* The insert fails for a rule deleted meanwhile (foreign key).
RecordFired ==
    /\ pc = "deliver"
    /\ pending = {}
    /\ \/ /\ Exists(cur)
          /\ NoFault
          /\ openRows' = [openRows EXCEPT ![cur] = Append(@, NewRow(cur))]
          /\ retired' = IF rule[cur].status = "enabled"
                        THEN retired ELSE retired \cup {cur}
       \/ /\ Exists(cur)
          /\ Fault("write")
          /\ UNCHANGED <<openRows, retired>>
       \/ /\ ~Exists(cur)
          /\ NoFault
          /\ UNCHANGED <<openRows, retired>>
    /\ age' = [age EXCEPT ![cur] = 0]
    /\ sinceFired' = [sinceFired EXCEPT ![cur] = 0]
    /\ pc' = "rules"
    /\ cur' = NoRule
    /\ UNCHANGED <<tables, firing, streak, snap, todo, pending,
                   clearRun, covered>>

\* (false, Some) before the streak is complete.
StreakGrows(r) ==
    /\ Evaluate(r, FALSE)
    /\ r \in openAlerts
    /\ ClearCount(r) < CLEAR_STREAK_TO_RESOLVE
    /\ streak' = [streak EXCEPT ![r] = ClearCount(r)]
    /\ UNCHANGED <<db, firing, age, pc, snap, cur, pending, faultsLeft,
                   sinceFired, covered, retired>>

\* (false, Some) with the streak complete.
StreakComplete(r) ==
    /\ Evaluate(r, FALSE)
    /\ r \in openAlerts
    /\ ClearCount(r) >= CLEAR_STREAK_TO_RESOLVE
    /\ streak' = [streak EXCEPT ![r] = ClearCount(r)]
    /\ cur' = r
    /\ pc' = "resolve"
    /\ UNCHANGED <<db, firing, age, snap, pending, faultsLeft,
                   sinceFired, covered, retired>>

\* Slip: the tracker keeps the streak of an incident that was resolved.
ResolveIncidentRemembers ==
    /\ pc = "resolve"
    /\ ResolveAlertsForRule(cur)
    /\ pending' = IF IsSilenced(activeSilences, cur)
                  THEN {} ELSE Accepting(dbRules[cur])
    /\ pc' = "notice"
    /\ UNCHANGED <<tables, firing, mem, snap, todo, cur,
                   clearRun, sinceFired, covered>>

\* Slip: the resolve notice is sent without asking for silences.
ResolveIncidentLoud ==
    /\ pc = "resolve"
    /\ ResolveAlertsForRule(cur)
    /\ Forget(cur)
    /\ pending' = Accepting(dbRules[cur])
    /\ pc' = "notice"
    /\ UNCHANGED <<tables, firing, age, snap, todo, cur,
                   clearRun, sinceFired, covered>>

\* resolve_alerts_for_rule and forget; the notice goes out either way, on the
\* severity the rule has in this pass's snapshot.
ResolveIncident ==
    /\ pc = "resolve"
    /\ ResolveAlertsForRule(cur)
    /\ Forget(cur)
    /\ pending' = IF IsSilenced(activeSilences, cur)
                  THEN {} ELSE Accepting(dbRules[cur])
    /\ pc' = "notice"
    /\ UNCHANGED <<tables, firing, age, snap, todo, cur,
                   clearRun, sinceFired, covered>>

\* The AlertResolved broadcast; on to the next rule.
NoticeSent ==
    /\ pc = "notice"
    /\ pending = {}
    /\ pc' = "rules"
    /\ cur' = NoRule
    /\ UNCHANGED <<db, firing, mem, snap, todo, pending, faultsLeft,
                   clearRun, sinceFired, covered, retired>>

\* (false, None): drop any leftover streak.
Quiet(r) ==
    /\ Evaluate(r, FALSE)
    /\ r \notin openAlerts
    /\ Forget(r)
    /\ UNCHANGED <<db, firing, age, pc, snap, cur, pending, faultsLeft,
                   sinceFired, covered, retired>>

ClearSnapshots ==
    /\ dbRules' = [r \in Rules |-> "unlisted"]
    /\ openAlerts' = {}
    /\ activeSilences' = {}
    /\ covered' = {}

\* Slip: the tracker lives for one pass.
EndPassForgetsStreaks ==
    /\ pc = "rules"
    /\ todo = {}
    /\ age' = Cleanup(age)
    /\ streak' = [r \in Rules |-> 0]
    /\ pc' = "idle"
    /\ ClearSnapshots
    /\ UNCHANGED <<db, firing, prog, faultsLeft,
                   clearRun, sinceFired, retired>>

\* The pass ends with throttle.cleanup.  (When the tenants cannot be listed
\* there is no pass at all.)
EndPass ==
    /\ pc = "rules"
    /\ todo = {}
    /\ age' = Cleanup(age)
    /\ pc' = "idle"
    /\ ClearSnapshots
    /\ UNCHANGED <<db, firing, streak, prog, faultsLeft,
                   clearRun, sinceFired, retired>>

\* The process stops anywhere in the pass and starts again: tracker, throttle
\* and the pass itself are gone.
Restart ==
    /\ Fault("restart")
    /\ streak' = [r \in Rules |-> 0]
    /\ age' = [r \in Rules |-> MaxAge]
    /\ sinceFired' = [r \in Rules |-> MaxAge]
    /\ pc' = "idle"
    /\ ClearSnapshots
    /\ todo' = {}
    /\ cur' = NoRule
    /\ pending' = {}
    /\ UNCHANGED <<db, firing, clearRun, retired>>

-----------------------------------------------------------------------------
Handlers ==
    \/ \E r \in Rules :
          \/ \E s \in RuleSeverities :
                \/ CreateRule(r, s)
                \/ \E st \in {"enabled", "disabled"} : UpdateRule(r, st, s)
          \/ DeleteRule(r)
    \/ \E scope \in Rules \cup {Tenant} : CreateSilence(scope) \/ EndSilence(scope)

Evaluator ==
    \/ LoadRules
    \/ LoadOpen
    \/ \E r \in Rules : CloseOrphan(r)
    \/ LoadSilences
    \/ \E r \in Rules : StillFiring(r) \/ FiringThrottled(r) \/ NewIncident(r)
    \/ \E c \in Channels : Deliver(c)
    \/ RecordFired
    \/ \E r \in Rules : StreakGrows(r) \/ StreakComplete(r) \/ Quiet(r)
    \/ ResolveIncident
    \/ NoticeSent
    \/ EndPass

Next ==
    \/ Handlers
    \/ \E r \in Rules : MetricsMove(r)
    \/ ClockTick
    \/ Evaluator
    \/ Restart

Spec == Init /\ [][Next]_vars

\* The runtime keeps polling the evaluator's task and time keeps passing;
\* nothing is assumed of the handlers or the metrics.
FairSpec == Spec /\ WF_vars(Evaluator) /\ WF_vars(ClockTick)

-----------------------------------------------------------------------------
(* Properties.                                                             *)

\* Every variable stays in its type, the pass holds a rule exactly while it opens
\* or resolves an incident, and a streak is complete only while the incident it
\* completes is being resolved: no later incident can close on what is left of it.
TypeOK ==
    /\ rule \in [Rules -> RuleRow]
    /\ silences \subseteq Rules \cup {Tenant}
    /\ openRows \in [Rules -> Seq(Row)]
    /\ firing \in [Rules -> BOOLEAN]
    /\ streak \in [Rules -> 0 .. CLEAR_STREAK_TO_RESOLVE]
    /\ \A r \in Rules : streak[r] = CLEAR_STREAK_TO_RESOLVE => pc = "resolve" /\ cur = r
    /\ age \in [Rules -> 0 .. MaxAge]
    /\ pc \in Phases
    /\ dbRules \in [Rules -> RuleSeverities \cup {"unlisted"}]
    /\ openAlerts \subseteq Rules
    /\ activeSilences \subseteq Rules \cup {Tenant}
    /\ todo \subseteq Rules
    /\ pending \subseteq Channels
    /\ faultsLeft \in 0 .. MaxFaults
    /\ clearRun \in [Rules -> 0 .. CLEAR_STREAK_TO_RESOLVE]
    /\ sinceFired \in [Rules -> 0 .. MaxAge]
    /\ covered \subseteq Rules
    /\ retired \subseteq Rules
    /\ IF pc \in {"deliver", "resolve", "notice"} THEN cur \in Rules ELSE cur = NoRule

\* A rule never has two unresolved history rows: the dedup through the
\* open-incident snapshot survives edits, restarts and failed writes.
OneOpenIncident == \A r \in Rules : Len(openRows[r]) <= 1

\* An open incident is closed only because its rule was deleted, was found not
\* enabled at some moment since the incident opened, or evaluated clear twice
\* in a row with no firing evaluation in between, restarts included.
IncidentCloses(r) == openRows[r] # <<>> /\ openRows'[r] = <<>>

ClosedForCause ==
    [][\A r \in Rules : IncidentCloses(r) =>
          \/ rule'[r].status = "deleted"
          \/ r \in retired
          \/ clearRun[r] >= CLEAR_STREAK_TO_RESOLVE]_vars

\* A silence that has covered a rule since before the pass began holds every
\* notification of that pass about the rule, fire and resolve notice alike.
Sends == pc \in {"deliver", "notice"} /\ pc' = pc /\ pending' # pending

SilenceHoldsNotifications == [][Sends => cur \notin covered]_vars

\* Within one life of the process two incidents of a rule open at least its
\* cooldown apart, or as much of it as the throttle keeps in mind: cleanup takes
\* an hour for the longest cooldown, which no handler makes sure of.
Opens(r) == pc = "rules" /\ pc' = "deliver" /\ cur' = r

Separation(r) == IF Cooldown[r] < CleanupAge THEN Cooldown[r] ELSE CleanupAge

CooldownSeparatesIncidents ==
    [][\A r \in Rules : Opens(r) => sinceFired[r] >= Separation(r)]_vars

\* Incidents follow conditions in the end, whatever reads and writes failed on
\* the way: a rule that stays enabled and firing ends with an open incident,
\* one that stays enabled and clear, or disabled, ends with none.
IncidentsFollowConditions ==
    \A r \in Rules :
        /\ <>[](rule[r].status = "enabled" /\ firing[r]) => <>[](openRows[r] # <<>>)
        /\ <>[](rule[r].status = "enabled" /\ ~firing[r]) => <>[](openRows[r] = <<>>)
        /\ <>[](rule[r].status = "disabled") => <>[](openRows[r] = <<>>)

\* Whatever passes, faults and restarts do, the rows of alert_history keep the
\* contract of IncidentContract.
Contract == INSTANCE IncidentContract
    WITH ClearsToResolve <- CLEAR_STREAK_TO_RESOLVE,
         incident  <- {r \in Rules : openRows[r] # <<>>},
         clears    <- clearRun,
         withdrawn <- retired,
         deleted   <- {r \in Rules : rule[r].status = "deleted"}

ImplementsContract == Contract!Spec

=============================================================================
