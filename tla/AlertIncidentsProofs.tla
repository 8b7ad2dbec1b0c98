------------------------ MODULE AlertIncidentsProofs ------------------------
(***************************************************************************)
(* Proofs about AlertIncidents, for any rules, channels, severities,       *)
(* floors, cooldowns and any budget of failures.                           *)
(***************************************************************************)
EXTENDS AlertIncidents, SequenceTheorems, TLAPS

\* From the evaluation loop on, a pass works on rules its snapshot lists.
PassOK ==
    /\ pc \in {"rules", "deliver", "resolve", "notice"} => todo \subseteq Listed
    /\ pc \in {"deliver", "resolve", "notice"} => cur \in Listed

\* The severities of NewRow are typed because of PassOK.
TypeInv == TypeOK /\ PassOK

(***************************************************************************)
(* Type correctness, one lemma per group of actions.                       *)
(***************************************************************************)

\* The initial states have the types: no rule, no row, an idle evaluator.
LEMMA InitTypeOK == Init => TypeInv
BY RuleAssumption, BoundAssumption
   DEF Init, TypeInv, PassOK, TypeOK, RuleRow, Phases, CLEAR_STREAK_TO_RESOLVE

\* Closing the rows of a rule, by resolving or deleting, leaves a typed table.
LEMMA ClosedRowsTyped ==
    ASSUME openRows \in [Rules -> Seq(Row)], NEW r
    PROVE  [openRows EXCEPT ![r] = <<>>] \in [Rules -> Seq(Row)]
<1>1. <<>> \in Seq(Row)
  BY EmptySeq
<1>2. QED
  BY <1>1

\* Setting the rows of one rule leaves a typed table.
LEMMA OneRowTyped ==
    ASSUME openRows \in [Rules -> Seq(Row)], NEW r, NEW s \in Seq(Row)
    PROVE  [openRows EXCEPT ![r] = s] \in [Rules -> Seq(Row)]
OBVIOUS

\* What resolve_alerts_for_rule leaves behind, done or failed.
LEMMA ResolveTyped ==
    ASSUME TypeOK, NEW r \in Rules, ResolveAlertsForRule(r)
    PROVE  /\ openRows' \in [Rules -> Seq(Row)]
           /\ retired' \subseteq Rules
           /\ faultsLeft' \in 0 .. MaxFaults
<1>1. faultsLeft' \in 0 .. MaxFaults
  BY BoundAssumption DEF TypeOK, ResolveAlertsForRule, NoFault, Fault
<1>2. retired' \subseteq Rules
  BY DEF TypeOK, ResolveAlertsForRule
<1>3. openRows' \in [Rules -> Seq(Row)]
  <2>1. openRows \in [Rules -> Seq(Row)]
    BY DEF TypeOK
  <2>2. [openRows EXCEPT ![r] = <<>>] \in [Rules -> Seq(Row)]
    BY <2>1, ClosedRowsTyped
  <2>3. openRows' = openRows \/ openRows' = [openRows EXCEPT ![r] = <<>>]
    BY DEF ResolveAlertsForRule
  <2> QED
    BY <2>1, <2>2, <2>3
<1>4. QED
  BY <1>1, <1>2, <1>3

\* An evaluation shortens the loop and counts on in clearRun.
LEMMA EvaluateTyped ==
    ASSUME TypeOK, NEW r \in Rules, NEW f \in BOOLEAN, Evaluate(r, f)
    PROVE  /\ todo' \subseteq Rules
           /\ clearRun' \in [Rules -> 0 .. CLEAR_STREAK_TO_RESOLVE]
BY DEF TypeOK, Evaluate, CLEAR_STREAK_TO_RESOLVE

\* Marking a rule deleted leaves a rule row.
LEMMA DeletedRowTyped ==
    ASSUME NEW x \in RuleRow
    PROVE  [x EXCEPT !.status = "deleted"] \in RuleRow
BY DEF RuleRow

\* A tick leaves every age within its bound.
LEMMA OlderTyped ==
    ASSUME NEW a \in [Rules -> 0 .. MaxAge]
    PROVE  Older(a) \in [Rules -> 0 .. MaxAge]
<1>1. ASSUME NEW r \in Rules
      PROVE  (IF a[r] < MaxAge THEN a[r] + 1 ELSE MaxAge) \in 0 .. MaxAge
  <2>1. a[r] \in 0 .. MaxAge
    OBVIOUS
  <2>2. QED
    BY <2>1, BoundAssumption
<1>2. QED
  BY <1>1 DEF Older

\* The handlers, the metrics, the clock and a restart keep the types.
LEMMA EnvironmentTypeOK ==
    ASSUME TypeOK,
           \/ Handlers
           \/ \E r \in Rules : MetricsMove(r)
           \/ ClockTick
           \/ Restart
    PROVE  TypeOK'
<1> USE RuleAssumption, BoundAssumption
        DEF TypeOK, vars, db, mem, snap, prog, hist, tables
<1>1. ASSUME NEW r \in Rules, NEW s \in RuleSeverities, CreateRule(r, s)
      PROVE  TypeOK'
  BY <1>1 DEF CreateRule, RuleRow
<1>2. ASSUME NEW r \in Rules, NEW s \in RuleSeverities,
             NEW st \in {"enabled", "disabled"}, UpdateRule(r, st, s)
      PROVE  TypeOK'
  BY <1>2 DEF UpdateRule, RuleRow
<1>3. ASSUME NEW r \in Rules, DeleteRule(r)
      PROVE  TypeOK'
  <2>1. rule' \in [Rules -> RuleRow]
    <3>1. [rule[r] EXCEPT !.status = "deleted"] \in RuleRow
      BY DeletedRowTyped
    <3>2. rule' = [rule EXCEPT ![r] = [rule[r] EXCEPT !.status = "deleted"]]
      BY <1>3 DEF DeleteRule
    <3>3. QED
      BY <3>1, <3>2
  <2>2. openRows' \in [Rules -> Seq(Row)]
    BY <1>3, ClosedRowsTyped DEF DeleteRule
  <2>3. QED
    BY <1>3, <2>1, <2>2 DEF DeleteRule
<1>4. ASSUME NEW scope \in Rules \cup {Tenant}, CreateSilence(scope)
      PROVE  TypeOK'
  BY <1>4 DEF CreateSilence
<1>5. ASSUME NEW scope \in Rules \cup {Tenant}, EndSilence(scope)
      PROVE  TypeOK'
  BY <1>5 DEF EndSilence
<1>6. ASSUME NEW r \in Rules, MetricsMove(r)
      PROVE  TypeOK'
  BY <1>6 DEF MetricsMove
<1>7. CASE ClockTick
  <2>1. /\ age' \in [Rules -> 0 .. MaxAge]
        /\ sinceFired' \in [Rules -> 0 .. MaxAge]
    BY <1>7, OlderTyped DEF ClockTick
  <2>2. UNCHANGED <<db, firing, streak, pc, snap, prog, faultsLeft,
                    clearRun, covered, retired>>
    BY <1>7 DEF ClockTick
  <2>3. QED
    BY <2>1, <2>2
<1>8. CASE Restart
  BY <1>8 DEF Restart, Fault, ClearSnapshots, Phases, CLEAR_STREAK_TO_RESOLVE
<1> HIDE DEF TypeOK
<1>9. QED
  BY <1>1, <1>2, <1>3, <1>4, <1>5, <1>6, <1>7, <1>8 DEF Handlers

\* Every step of a pass keeps the types.
LEMMA EvaluatorTypeOK ==
    ASSUME TypeInv, Evaluator
    PROVE  TypeOK'
<1> USE RuleAssumption, BoundAssumption
        DEF TypeInv, TypeOK, vars, db, mem, snap, prog, hist, tables, Phases,
            CLEAR_STREAK_TO_RESOLVE
<1>1. CASE LoadRules
  BY <1>1 DEF LoadRules, NoFault, Fault, RuleRow
<1>2. CASE LoadOpen
  BY <1>2 DEF LoadOpen, NoFault, Fault
<1>3. ASSUME NEW r \in Rules, CloseOrphan(r)
      PROVE  TypeOK'
  BY <1>3, ResolveTyped DEF CloseOrphan, Forget
<1>4. CASE LoadSilences
  BY <1>4 DEF LoadSilences, NoFault, Fault, Listed
<1>5. ASSUME NEW r \in Rules, StillFiring(r) \/ FiringThrottled(r) \/ Quiet(r)
      PROVE  TypeOK'
  <2>1. /\ todo' \subseteq Rules
        /\ clearRun' \in [Rules -> 0 .. CLEAR_STREAK_TO_RESOLVE]
    BY <1>5, EvaluateTyped DEF StillFiring, FiringThrottled, Quiet
  <2>2. streak' = [streak EXCEPT ![r] = 0]
    BY <1>5 DEF StillFiring, FiringThrottled, Quiet, RecordFiring, Forget
  <2>3. UNCHANGED <<db, firing, age, pc, snap, cur, pending, faultsLeft,
                    sinceFired, covered, retired>>
    BY <1>5 DEF StillFiring, FiringThrottled, Quiet
  <2>4. QED
    BY <2>1, <2>2, <2>3
<1>6. ASSUME NEW r \in Rules, NewIncident(r)
      PROVE  TypeOK'
  <2>1. /\ todo' \subseteq Rules
        /\ clearRun' \in [Rules -> 0 .. CLEAR_STREAK_TO_RESOLVE]
    BY <1>6, EvaluateTyped DEF NewIncident
  <2>2. pending' \subseteq Channels
    BY <1>6 DEF NewIncident, Accepting
  <2>3. /\ streak' = [streak EXCEPT ![r] = 0]
        /\ cur' = r
        /\ pc' = "deliver"
        /\ UNCHANGED <<db, firing, age, snap, faultsLeft,
                       sinceFired, covered, retired>>
    BY <1>6 DEF NewIncident, RecordFiring
  <2>4. \A q \in Rules : streak'[q] # 2
    BY <1>6, <2>3 DEF NewIncident, Evaluate
  <2>5. QED
    BY <2>1, <2>2, <2>3, <2>4
<1>7. ASSUME NEW c \in Channels, Deliver(c)
      PROVE  TypeOK'
  BY <1>7 DEF Deliver
<1>8. CASE RecordFired
  <2>1. cur \in Rules /\ dbRules[cur] \in RuleSeverities
    BY <1>8 DEF RecordFired, PassOK, Listed
  <2>2. NewRow(cur) \in Row
    BY <2>1 DEF NewRow, Row, Accepting, IsSilenced
  <2>3. openRows' \in [Rules -> Seq(Row)]
    <3>1. Append(openRows[cur], NewRow(cur)) \in Seq(Row)
      BY <2>1, <2>2, AppendProperties
    <3>2. \/ openRows' = openRows
          \/ openRows' = [openRows EXCEPT ![cur] = Append(openRows[cur], NewRow(cur))]
      BY <1>8, <2>1 DEF RecordFired
    <3>3. CASE openRows' = openRows
      BY <3>3
    <3>4. CASE openRows' = [openRows EXCEPT ![cur] = Append(openRows[cur], NewRow(cur))]
      BY <3>1, <3>4, OneRowTyped
    <3>5. QED
      BY <3>2, <3>3, <3>4
  <2>4. retired' \subseteq Rules /\ faultsLeft' \in 0 .. MaxFaults
    BY <1>8, <2>1 DEF RecordFired, NoFault, Fault
  <2>5. /\ age' = [age EXCEPT ![cur] = 0]
        /\ sinceFired' = [sinceFired EXCEPT ![cur] = 0]
        /\ pc' = "rules"
        /\ cur' = NoRule
        /\ UNCHANGED <<tables, firing, streak, snap, todo, pending,
                       clearRun, covered>>
    BY <1>8 DEF RecordFired
  <2>6. \A q \in Rules : streak'[q] # 2
    BY <1>8, <2>5 DEF RecordFired
  <2>7. QED
    BY <2>1, <2>3, <2>4, <2>5, <2>6
<1>9. ASSUME NEW r \in Rules, StreakGrows(r) \/ StreakComplete(r)
      PROVE  TypeOK'
  <2>1. /\ todo' \subseteq Rules
        /\ clearRun' \in [Rules -> 0 .. CLEAR_STREAK_TO_RESOLVE]
    BY <1>9, EvaluateTyped DEF StreakGrows, StreakComplete
  <2>2. ClearCount(r) \in 0 .. CLEAR_STREAK_TO_RESOLVE
    <3>1. streak[r] \in 0 .. 1
      BY <1>9 DEF StreakGrows, StreakComplete, Evaluate
    <3>2. QED
      BY <3>1 DEF ClearCount
  <2>3. CASE StreakGrows(r)
    BY <2>1, <2>2, <2>3, SMTT(30) DEF StreakGrows
  <2>4. CASE StreakComplete(r)
    <3>1. \A q \in Rules : streak'[q] = 2 => q = r
      BY <2>4 DEF StreakComplete, Evaluate
    <3>2. streak' \in [Rules -> 0 .. 2] /\ pc' = "resolve" /\ cur' = r
      BY <2>2, <2>4 DEF StreakComplete
    <3>3. UNCHANGED <<db, firing, age, snap, pending, faultsLeft, sinceFired, covered, retired>>
      BY <2>4 DEF StreakComplete
    <3>4. QED
      BY <2>1, <3>1, <3>2, <3>3
  <2>5. QED
    BY <1>9, <2>3, <2>4
<1>10. CASE ResolveIncident
  <2>1. cur \in Rules
    BY <1>10 DEF ResolveIncident
  <2>2. pending' \subseteq Channels
    BY <1>10 DEF ResolveIncident, Accepting
  <2>3. /\ openRows' \in [Rules -> Seq(Row)]
        /\ retired' \subseteq Rules
        /\ faultsLeft' \in 0 .. MaxFaults
    BY <1>10, <2>1, ResolveTyped DEF ResolveIncident
  <2>4. /\ streak' = [streak EXCEPT ![cur] = 0]
        /\ pc' = "notice"
        /\ UNCHANGED <<tables, firing, age, snap, todo, cur,
                       clearRun, sinceFired, covered>>
    BY <1>10 DEF ResolveIncident, Forget
  <2>5. QED
    BY <2>1, <2>2, <2>3, <2>4
<1>11. CASE NoticeSent
  BY <1>11 DEF NoticeSent
<1>12. CASE EndPass
  BY <1>12 DEF EndPass, Cleanup, ClearSnapshots
<1> HIDE DEF TypeInv, TypeOK
<1>13. QED
  BY <1>1, <1>2, <1>3, <1>4, <1>5, <1>6, <1>7, <1>8, <1>9, <1>10, <1>11, <1>12
     DEF Evaluator

\* The snapshot a pass works from does not change under it.
LEMMA PassStep ==
    ASSUME TypeOK, PassOK, [Next]_vars
    PROVE  PassOK'
<1> USE DEF PassOK, vars, db, mem, snap, prog, hist, tables
<1>1. CASE Handlers \/ (\E r \in Rules : MetricsMove(r)) \/ ClockTick \/ UNCHANGED vars
  <2>1. UNCHANGED <<pc, snap, prog>>
    BY <1>1 DEF Handlers, CreateRule, UpdateRule, DeleteRule, CreateSilence,
                EndSilence, MetricsMove, ClockTick
  <2>2. QED
    BY <2>1 DEF Listed
<1>2. CASE Restart \/ LoadRules \/ LoadOpen \/ EndPass
  BY <1>2 DEF Restart, LoadRules, LoadOpen, EndPass
<1>3. CASE \E r \in Rules : CloseOrphan(r)
  BY <1>3 DEF CloseOrphan
<1>4. CASE LoadSilences
  BY <1>4 DEF LoadSilences, Listed
<1>5. CASE \E r \in Rules : \/ StillFiring(r) \/ FiringThrottled(r) \/ NewIncident(r)
                           \/ StreakGrows(r) \/ StreakComplete(r) \/ Quiet(r)
  BY <1>5 DEF StillFiring, FiringThrottled, NewIncident, StreakGrows,
              StreakComplete, Quiet, Evaluate, Listed
<1>6. CASE (\E c \in Channels : Deliver(c)) \/ RecordFired \/ ResolveIncident \/ NoticeSent
  BY <1>6 DEF Deliver, RecordFired, ResolveIncident, NoticeSent, Listed, TypeOK
<1>7. QED
  BY <1>1, <1>2, <1>3, <1>4, <1>5, <1>6 DEF Next, Evaluator

\* TypeInv is inductive.
LEMMA TypeInvStep ==
    ASSUME TypeInv, [Next]_vars
    PROVE  TypeInv'
<1>1. TypeOK'
  <2>1. CASE UNCHANGED vars
    BY <2>1 DEF TypeInv, TypeOK, vars, db, mem, snap, prog, hist
  <2>2. CASE Next
    BY <2>2, EnvironmentTypeOK, EvaluatorTypeOK DEF Next, TypeInv
  <2>3. QED
    BY <2>1, <2>2
<1>2. PassOK'
  BY PassStep DEF TypeInv
<1>3. QED
  BY <1>1, <1>2 DEF TypeInv

\* Type correctness: whatever the handlers, the failures and the restarts do,
\* every variable of the evaluator keeps its type.
THEOREM TypeCorrect == Spec => []TypeOK
<1>1. TypeInv => TypeOK
  BY DEF TypeInv
<1>2. QED
  BY <1>1, InitTypeOK, TypeInvStep, PTL DEF Spec

(***************************************************************************)
(* One open incident.  The evaluator inserts a row for a rule its snapshot *)
(* of open incidents misses, so the invariant says what the snapshot may   *)
(* miss: nothing among the rules still to be evaluated.                    *)
(***************************************************************************)
SnapshotComplete ==
    /\ pc = "close" => \A r \in Rules : openRows[r] # <<>> => r \in openAlerts
    /\ pc \in {"rules", "deliver", "resolve", "notice"} =>
          \A r \in todo : openRows[r] # <<>> => r \in openAlerts
    /\ pc \in {"deliver", "resolve", "notice"} => cur \notin todo
    /\ pc = "deliver" => openRows[cur] = <<>>

OpenInv == OneOpenIncident /\ SnapshotComplete

\* No row, no pass: the invariant holds at the start.
LEMMA InitOpenInv == Init => OpenInv
BY EmptySeq DEF Init, OpenInv, OneOpenIncident, SnapshotComplete

\* Resolving or deleting can only remove rows.
LEMMA ClosingKeepsOpenInv ==
    ASSUME TypeOK, OpenInv, NEW r,
           openRows' = [openRows EXCEPT ![r] = <<>>],
           UNCHANGED <<pc, openAlerts, todo, cur>>
    PROVE  OpenInv'
<1>1. \A q \in Rules : openRows'[q] = <<>> \/ openRows'[q] = openRows[q]
  BY DEF TypeOK
<1>2. OneOpenIncident'
  BY <1>1, EmptySeq DEF OpenInv, OneOpenIncident
<1>3. SnapshotComplete'
  BY <1>1 DEF OpenInv, SnapshotComplete, TypeOK
<1>4. QED
  BY <1>2, <1>3 DEF OpenInv

\* The handlers, the metrics and the clock keep the invariant.
LEMMA EnvironmentOpenInv ==
    ASSUME TypeOK, OpenInv,
           \/ Handlers
           \/ \E r \in Rules : MetricsMove(r)
           \/ ClockTick
           \/ UNCHANGED vars
    PROVE  OpenInv'
<1> USE DEF vars, db, mem, snap, prog, hist
<1>1. CASE \E r \in Rules : DeleteRule(r)
  BY <1>1, ClosingKeepsOpenInv DEF DeleteRule
<1>2. CASE UNCHANGED <<openRows, pc, openAlerts, todo, cur>>
  BY <1>2 DEF OpenInv, OneOpenIncident, SnapshotComplete
<1>3. QED
  BY <1>1, <1>2 DEF Handlers, CreateRule, UpdateRule, CreateSilence, EndSilence,
                    MetricsMove, ClockTick

\* Every step of a pass keeps the invariant, the open rules being read.
LEMMA EvaluatorOpenInv ==
    ASSUME "open_read" \notin Faults, TypeInv, OpenInv, Evaluator \/ Restart
    PROVE  OpenInv'
<1> USE DEF db, mem, snap, prog, hist, tables
<1> TypeOK /\ PassOK
  BY DEF TypeInv
<1>1. CASE Restart \/ LoadRules \/ EndPass
  BY <1>1 DEF Restart, LoadRules, EndPass, OpenInv, OneOpenIncident, SnapshotComplete
<1>2. CASE LoadOpen
  BY <1>2 DEF LoadOpen, Fault, OpenInv, OneOpenIncident, SnapshotComplete
<1>3. ASSUME NEW r \in Rules, CloseOrphan(r)
      PROVE  OpenInv'
  <2>1. \A q \in Rules : openRows'[q] = <<>> \/ openRows'[q] = openRows[q]
    BY <1>3 DEF CloseOrphan, ResolveAlertsForRule, TypeOK
  <2>2. OneOpenIncident'
    BY <2>1, EmptySeq DEF OpenInv, OneOpenIncident
  <2>3. SnapshotComplete'
    BY <1>3, <2>1 DEF CloseOrphan, OpenInv, SnapshotComplete
  <2>4. QED
    BY <2>2, <2>3 DEF OpenInv
<1>4. CASE LoadSilences
  BY <1>4 DEF LoadSilences, OpenInv, OneOpenIncident, SnapshotComplete, Listed
<1>5. ASSUME NEW r \in Rules, \/ StillFiring(r) \/ FiringThrottled(r)
                              \/ StreakGrows(r) \/ Quiet(r)
      PROVE  OpenInv'
  BY <1>5 DEF StillFiring, FiringThrottled, StreakGrows, Quiet, Evaluate,
              OpenInv, OneOpenIncident, SnapshotComplete
<1>6. ASSUME NEW r \in Rules, NewIncident(r)
      PROVE  OpenInv'
  BY <1>6 DEF NewIncident, Evaluate, OpenInv, OneOpenIncident, SnapshotComplete
<1>7. ASSUME NEW r \in Rules, StreakComplete(r)
      PROVE  OpenInv'
  BY <1>7 DEF StreakComplete, Evaluate, OpenInv, OneOpenIncident, SnapshotComplete
<1>8. CASE (\E c \in Channels : Deliver(c)) \/ NoticeSent
  BY <1>8 DEF Deliver, NoticeSent, OpenInv, OneOpenIncident, SnapshotComplete
<1>9. CASE RecordFired
  <2>1. cur \in Rules /\ openRows[cur] = <<>> /\ cur \notin todo
    BY <1>9 DEF RecordFired, OpenInv, SnapshotComplete, TypeOK
  <2>2. Len(Append(openRows[cur], NewRow(cur))) = 1
    BY <2>1
  <2>3. \A q \in Rules : q # cur => openRows'[q] = openRows[q]
    BY <1>9, <2>1 DEF RecordFired, TypeOK
  <2>4. openRows'[cur] = openRows[cur] \/ Len(openRows'[cur]) = 1
    BY <1>9, <2>1, <2>2 DEF RecordFired, TypeOK
  <2>5. OneOpenIncident'
    <3>1. \A q \in Rules : Len(openRows[q]) <= 1
      BY DEF OpenInv, OneOpenIncident
    <3>2. ASSUME NEW q \in Rules
          PROVE  Len(openRows'[q]) <= 1
      <4>1. CASE q = cur
        <5>1. CASE Len(openRows'[cur]) = 1
          BY <4>1, <5>1
        <5>2. CASE openRows'[cur] = openRows[cur]
          BY <3>1, <4>1, <5>2
        <5>3. QED
          BY <2>4, <5>1, <5>2
      <4>2. CASE q # cur
        BY <2>3, <3>1, <4>2
      <4>3. QED
        BY <4>1, <4>2
    <3>3. QED
      BY <3>2 DEF OneOpenIncident
  <2>6. SnapshotComplete'
    BY <1>9, <2>1, <2>3 DEF RecordFired, OpenInv, SnapshotComplete, TypeOK
  <2>7. QED
    BY <2>5, <2>6 DEF OpenInv
<1>10. CASE ResolveIncident
  <2>1. \A q \in Rules : openRows'[q] = <<>> \/ openRows'[q] = openRows[q]
    BY <1>10 DEF ResolveIncident, ResolveAlertsForRule, TypeOK
  <2>2. OneOpenIncident'
    BY <2>1, EmptySeq DEF OpenInv, OneOpenIncident
  <2>3. SnapshotComplete'
    BY <1>10, <2>1 DEF ResolveIncident, OpenInv, SnapshotComplete, TypeOK
  <2>4. QED
    BY <2>2, <2>3 DEF OpenInv
<1>11. QED
  BY <1>1, <1>2, <1>3, <1>4, <1>5, <1>6, <1>7, <1>8, <1>9, <1>10 DEF Evaluator

\* As long as the open incidents can be read, no rule ever has two of them:
\* not by an edit under a pass, a failed write or a restart.
THEOREM OneIncidentPerRule ==
    ASSUME "open_read" \notin Faults
    PROVE  Spec => []OneOpenIncident
<1>1. ASSUME TypeInv, OpenInv, [Next]_vars
      PROVE  OpenInv'
  BY <1>1, EnvironmentOpenInv, EvaluatorOpenInv DEF Next, TypeInv
<1>2. OpenInv => OneOpenIncident
  BY DEF OpenInv
<1>3. QED
  BY <1>1, <1>2, InitTypeOK, TypeInvStep, InitOpenInv, PTL DEF Spec

(***************************************************************************)
(* The cooldown: what the throttle remembers is the time since the last    *)
(* firing, or nothing once that is CleanupAge or more.                     *)
(***************************************************************************)
ThrottleInv ==
    \A r \in Rules : \/ age[r] = sinceFired[r]
                     \/ age[r] = MaxAge /\ sinceFired[r] >= CleanupAge

\* Time passes for both ages alike, cleanup spares what is young.
LEMMA ThrottleInvStep ==
    ASSUME TypeOK, ThrottleInv, [Next]_vars
    PROVE  ThrottleInv'
<1> USE DEF ThrottleInv, vars, db, mem, snap, prog, hist, tables
<1>1. CASE UNCHANGED <<age, sinceFired>>
  BY <1>1
<1>2. CASE ClockTick
  <2>1. \A r \in Rules : age[r] \in 0 .. MaxAge /\ sinceFired[r] \in 0 .. MaxAge
    BY DEF TypeOK
  <2>2. QED
    BY <1>2, <2>1, BoundAssumption DEF ClockTick, Older
<1>3. CASE RecordFired \/ Restart
  BY <1>3 DEF RecordFired, Restart, TypeOK
<1>4. CASE EndPass
  <2>1. \A r \in Rules : age[r] \in 0 .. MaxAge
    BY DEF TypeOK
  <2>2. QED
    BY <1>4, <2>1, BoundAssumption DEF EndPass, Cleanup
<1>5. QED
  BY <1>1, <1>2, <1>3, <1>4
     DEF Next, Handlers, CreateRule, UpdateRule, DeleteRule, CreateSilence,
         EndSilence, MetricsMove, Evaluator, LoadRules, LoadOpen, CloseOrphan,
         LoadSilences, StillFiring, FiringThrottled, NewIncident, Deliver,
         StreakGrows, StreakComplete, Quiet, ResolveIncident, NoticeSent

\* Within one life of the process two incidents of a rule are separated by its
\* cooldown, or by the hour that cleanup assumes, whichever is less: for any
\* cooldowns, and whichever writes fail in between.
THEOREM CooldownHolds == Spec => CooldownSeparatesIncidents
<1>1. Init => ThrottleInv
  BY DEF Init, ThrottleInv
<1>2. TypeInv /\ ThrottleInv /\ [Next]_vars => ThrottleInv'
  BY ThrottleInvStep DEF TypeInv
<1>3. TypeInv /\ ThrottleInv /\ [Next]_vars
      => [\A r \in Rules : Opens(r) => sinceFired[r] >= Separation(r)]_vars
  <2> SUFFICES ASSUME TypeInv, ThrottleInv, Next, NEW r \in Rules, Opens(r)
               PROVE  sinceFired[r] >= Separation(r)
    BY DEF vars, Opens
  <2> USE DEF vars, db, mem, snap, prog, hist, tables
  <2>1. NewIncident(r)
    <3>1. pc = "rules" /\ pc' = "deliver" /\ cur' = r
      BY DEF Opens
    <3>2. \E q \in Rules : NewIncident(q)
      BY <3>1 DEF Next, Handlers, CreateRule, UpdateRule, DeleteRule, CreateSilence,
         EndSilence, MetricsMove, ClockTick, Restart, Evaluator, LoadRules, LoadOpen,
         CloseOrphan, LoadSilences, StillFiring, FiringThrottled, Deliver, RecordFired,
         StreakGrows, StreakComplete, Quiet, ResolveIncident, NoticeSent, EndPass
    <3>3. QED
      BY <3>1, <3>2 DEF NewIncident
  <2>2. /\ age[r] \in 0 .. MaxAge
        /\ sinceFired[r] \in 0 .. MaxAge
        /\ Cooldown[r] \in 0 .. MaxAge
        /\ CleanupAge \in Nat
    BY BoundAssumption DEF TypeInv, TypeOK
  <2>3. age[r] >= Cooldown[r]
    BY <2>1, <2>2, BoundAssumption DEF NewIncident, IsThrottled
  <2>4. QED
    BY <2>2, <2>3 DEF ThrottleInv, Separation
<1>4. QED
  BY <1>1, <1>2, <1>3, InitTypeOK, TypeInvStep, PTL DEF Spec, CooldownSeparatesIncidents

(***************************************************************************)
(* Silences: a rule covered since the pass began is covered in the pass's  *)
(* snapshot, so nothing is pending for it.                                 *)
(***************************************************************************)
SilenceInv ==
    /\ \A r \in covered : IsSilenced(silences, r)
    /\ pc \in {"rules", "deliver", "resolve", "notice"} =>
          \A r \in covered : IsSilenced(activeSilences, r)
    /\ pc \in {"deliver", "notice"} /\ cur \in covered => pending = {}

\* covered only shrinks within a pass, and the snapshot is taken within it.
LEMMA SilenceInvStep ==
    ASSUME "silence_read" \notin Faults, TypeOK, SilenceInv, [Next]_vars
    PROVE  SilenceInv'
<1> USE DEF SilenceInv, vars, db, mem, snap, prog, hist, tables
<1>1. ASSUME NEW scope, CreateSilence(scope)
      PROVE  SilenceInv'
  BY <1>1 DEF CreateSilence, IsSilenced
<1>2. ASSUME NEW r, DeleteRule(r) \/ EndSilence(r)
      PROVE  SilenceInv'
  BY <1>2 DEF DeleteRule, EndSilence
<1>3. CASE UNCHANGED <<silences, pc, activeSilences, cur, pending, covered>>
  BY <1>3
<1>4. CASE LoadRules
  BY <1>4 DEF LoadRules
<1>5. CASE LoadOpen \/ (\E r \in Rules : CloseOrphan(r))
  BY <1>5 DEF LoadOpen, CloseOrphan
<1>6. CASE LoadSilences
  BY <1>6 DEF LoadSilences, Fault
<1>7. ASSUME NEW r \in Rules, \/ StillFiring(r) \/ FiringThrottled(r) \/ NewIncident(r)
                              \/ StreakGrows(r) \/ StreakComplete(r) \/ Quiet(r)
      PROVE  SilenceInv'
  BY <1>7 DEF StillFiring, FiringThrottled, NewIncident, StreakGrows, StreakComplete,
              Quiet, Evaluate
<1>8. CASE (\E c \in Channels : Deliver(c)) \/ RecordFired \/ ResolveIncident \/ NoticeSent
  BY <1>8 DEF Deliver, RecordFired, ResolveIncident, NoticeSent
<1>9. CASE EndPass \/ Restart
  BY <1>9 DEF EndPass, Restart, ClearSnapshots
<1>10. QED
  BY <1>1, <1>2, <1>3, <1>4, <1>5, <1>6, <1>7, <1>8, <1>9
     DEF Next, Handlers, CreateRule, UpdateRule, MetricsMove, ClockTick, Evaluator

\* As long as the silences can be read, a silence that has covered a rule
\* since before the pass began holds every notification of the pass about it.
THEOREM SilencesHold ==
    ASSUME "silence_read" \notin Faults
    PROVE  Spec => SilenceHoldsNotifications
<1>1. Init => SilenceInv
  BY DEF Init, SilenceInv
<1>2. TypeInv /\ SilenceInv /\ [Next]_vars => SilenceInv'
  BY SilenceInvStep DEF TypeInv
<1>3. TypeInv /\ SilenceInv /\ [Next]_vars => [Sends => cur \notin covered]_vars
  <2> SUFFICES ASSUME SilenceInv, [Next]_vars, Sends, cur \in covered
               PROVE  FALSE
    OBVIOUS
  <2>1. pending = {} /\ pending' # {} /\ pc' = pc /\ pc \in {"deliver", "notice"}
    BY DEF SilenceInv, Sends
  <2>2. QED
    BY <2>1
       DEF vars, db, mem, snap, prog, hist, tables, Next, Handlers, CreateRule,
           UpdateRule, DeleteRule, CreateSilence, EndSilence, MetricsMove,
           ClockTick, Restart, Evaluator, LoadRules, LoadOpen, CloseOrphan,
           LoadSilences, StillFiring, FiringThrottled, NewIncident, Deliver,
           RecordFired, StreakGrows, StreakComplete, Quiet, Evaluate,
           ResolveIncident, NoticeSent, EndPass
<1>4. QED
  BY <1>1, <1>2, <1>3, InitTypeOK, TypeInvStep, PTL DEF Spec, SilenceHoldsNotifications

(***************************************************************************)
(* The evaluator keeps the contract of IncidentContract: an incident       *)
(* closes for a cause, and every step is one of the contract or none.      *)
(* Both need the rule list to be read: a failed read is an empty list, and *)
(* the pass then closes what it should not (run alerts_rules_unread).      *)
(***************************************************************************)

\* What the tables say: rows belong to existing rules, and an open rule that
\* is disabled now has been so at some moment.
TableInv ==
    \A r \in Rules : openRows[r] # <<>> =>
        /\ Exists(r)
        /\ rule[r].status = "disabled" => r \in retired

\* What the pass knows: an open rule its snapshot does not list is retired,
\* the orphans are not listed, and the streak never runs ahead of clearRun.
CauseInv ==
    /\ TableInv
    /\ pc \in {"load_open", "close"} =>
          \A r \in Rules : openRows[r] # <<>> /\ r \notin Listed => r \in retired
    /\ pc = "close" => todo \cap Listed = {}
    /\ \A r \in Rules : streak[r] <= clearRun[r]
    /\ pc = "resolve" => clearRun[cur] >= CLEAR_STREAK_TO_RESOLVE
    /\ pc = "deliver" => clearRun[cur] = 0

\* No rule has a row at the start.
LEMMA InitCauseInv == Init => CauseInv
BY DEF Init, CauseInv, TableInv

\* A handler that keeps the rows keeps the invariant; only delete_rule does not.
LEMMA HandlersCauseInv ==
    ASSUME TypeOK, CauseInv, Handlers
    PROVE  CauseInv'
<1> USE DEF db, mem, snap, prog, hist, TypeOK, CauseInv, TableInv, Listed, Exists
<1>1. ASSUME NEW r \in Rules, NEW s \in RuleSeverities, CreateRule(r, s)
      PROVE  CauseInv'
  BY <1>1 DEF CreateRule, RuleRow
<1>2. ASSUME NEW r \in Rules, NEW s \in RuleSeverities,
             NEW st \in {"enabled", "disabled"}, UpdateRule(r, st, s)
      PROVE  CauseInv'
  BY <1>2 DEF UpdateRule, RuleRow
<1>3. ASSUME NEW r \in Rules, DeleteRule(r)
      PROVE  CauseInv'
  BY <1>3 DEF DeleteRule, RuleRow
<1>4. ASSUME NEW scope \in Rules \cup {Tenant}, CreateSilence(scope) \/ EndSilence(scope)
      PROVE  CauseInv'
  BY <1>4 DEF CreateSilence, EndSilence
<1> HIDE DEF TypeOK, CauseInv
<1>5. QED
  BY <1>1, <1>2, <1>3, <1>4 DEF Handlers

\* A step that resolves the rows of a rule, or fails to.
LEMMA ResolvingKeepsTables ==
    ASSUME TypeOK, TableInv, NEW r \in Rules, ResolveAlertsForRule(r), rule' = rule
    PROVE  /\ TableInv'
           /\ \A q \in Rules : openRows'[q] # <<>> => openRows[q] # <<>>
           /\ \A q \in Rules : openRows'[q] # <<>> /\ q \in retired => q \in retired'
BY DEF TypeOK, TableInv, ResolveAlertsForRule, Exists

\* Breaking streaks keeps them behind clearRun.
LEMMA StreakStaysBehind ==
    ASSUME TypeOK, CauseInv, clearRun' = clearRun,
           \A q \in Rules : streak'[q] = streak[q] \/ streak'[q] = 0
    PROVE  \A q \in Rules : streak'[q] <= clearRun'[q]
<1>1. \A q \in Rules : clearRun[q] \in 0 .. 2
  BY DEF TypeOK, CLEAR_STREAK_TO_RESOLVE
<1>2. \A q \in Rules : streak[q] <= clearRun[q]
  BY DEF CauseInv
<1>3. ASSUME NEW q \in Rules
      PROVE  streak'[q] <= clearRun[q]
  <2>1. CASE streak'[q] = streak[q]
    BY <1>2, <2>1
  <2>2. CASE streak'[q] = 0
    BY <1>1, <2>2
  <2>3. QED
    BY <2>1, <2>2
<1>4. QED
  BY <1>3

\* Every step of a pass keeps the invariant, the rule list being read.
LEMMA EvaluatorCauseInv ==
    ASSUME "rules_read" \notin Faults, TypeInv, CauseInv, Evaluator
    PROVE  CauseInv'
<1> USE DEF db, mem, snap, prog, hist, tables, CLEAR_STREAK_TO_RESOLVE
<1> TypeOK /\ PassOK
  BY DEF TypeInv
<1>1. CASE LoadRules
  <2>1. \A r \in Rules : dbRules'[r] = IF rule[r].status = "enabled"
                                       THEN rule[r].severity ELSE "unlisted"
    BY <1>1 DEF LoadRules, Fault
  <2>2. \A r \in Rules : rule[r].severity # "unlisted"
    BY RuleAssumption DEF TypeOK, RuleRow, Severities
  <2>3. QED
    BY <1>1, <2>1, <2>2 DEF LoadRules, CauseInv, TableInv, Exists, Listed
<1>2. CASE LoadOpen
  BY <1>2 DEF LoadOpen, CauseInv, TableInv, Exists, Listed
<1>3. ASSUME NEW r \in Rules, CloseOrphan(r)
      PROVE  CauseInv'
  <2>1. \A q \in Rules : streak'[q] <= clearRun'[q]
    <3>1. \A q \in Rules : streak'[q] = streak[q] \/ streak'[q] = 0
      BY <1>3 DEF CloseOrphan, Forget, TypeOK
    <3>2. QED
      BY <1>3, <3>1, StreakStaysBehind DEF CloseOrphan
  <2>2. QED
    BY <1>3, <2>1, ResolvingKeepsTables DEF CloseOrphan, CauseInv, Listed
<1>4. CASE LoadSilences
  BY <1>4 DEF LoadSilences, CauseInv, TableInv, Exists
<1>5. ASSUME NEW r \in Rules, StillFiring(r) \/ FiringThrottled(r) \/ NewIncident(r) \/ Quiet(r)
      PROVE  CauseInv'
  <2>1. streak' = [streak EXCEPT ![r] = 0]
    BY <1>5 DEF StillFiring, FiringThrottled, NewIncident, Quiet, RecordFiring, Forget
  <2>2. /\ pc = "rules"
        /\ pc' = "rules" \/ (pc' = "deliver" /\ cur' = r /\ clearRun'[r] = 0)
    BY <1>5 DEF StillFiring, FiringThrottled, NewIncident, Quiet, Evaluate, TypeOK
  <2>3. \A q \in Rules : clearRun'[q] = clearRun[q] \/ q = r
    BY <1>5 DEF StillFiring, FiringThrottled, NewIncident, Quiet, Evaluate, TypeOK
  <2>4. clearRun'[r] \in 0 .. CLEAR_STREAK_TO_RESOLVE
    <3>1. clearRun' \in [Rules -> 0 .. CLEAR_STREAK_TO_RESOLVE]
      BY <1>5, EvaluateTyped DEF StillFiring, FiringThrottled, NewIncident, Quiet
    <3>2. QED
      BY <3>1
  <2>5. \A q \in Rules : streak'[q] <= clearRun'[q]
    BY <2>1, <2>3, <2>4 DEF CauseInv, TypeOK
  <2>6. UNCHANGED db /\ UNCHANGED retired
    BY <1>5 DEF StillFiring, FiringThrottled, NewIncident, Quiet
  <2>7. QED
    BY <2>2, <2>5, <2>6 DEF CauseInv, TableInv, Exists
<1>6. CASE (\E c \in Channels : Deliver(c)) \/ NoticeSent \/ EndPass
  BY <1>6 DEF Deliver, NoticeSent, EndPass, CauseInv, TableInv, Exists
<1>7. CASE RecordFired
  <2>1. cur \in Rules /\ pc = "deliver" /\ pc' = "rules" /\ UNCHANGED <<rule, streak, clearRun>>
    BY <1>7 DEF RecordFired, TypeOK
  <2>2. \A q \in Rules : q # cur => openRows'[q] = openRows[q]
    BY <1>7, <2>1 DEF RecordFired, TypeOK
  <2>3. /\ retired \subseteq retired'
        /\ openRows'[cur] # openRows[cur] =>
              Exists(cur) /\ (rule[cur].status = "enabled" \/ cur \in retired')
    BY <1>7, <2>1 DEF RecordFired
  <2>4. TableInv'
    BY <2>1, <2>2, <2>3 DEF CauseInv, TableInv, Exists
  <2>5. QED
    BY <2>1, <2>4 DEF CauseInv
<1>8. ASSUME NEW r \in Rules, StreakGrows(r) \/ StreakComplete(r)
      PROVE  CauseInv'
  <2>1. streak' = [streak EXCEPT ![r] = ClearCount(r)]
    BY <1>8 DEF StreakGrows, StreakComplete
  <2>2. clearRun' = [clearRun EXCEPT ![r] = IF @ < 2 THEN @ + 1 ELSE @]
    BY <1>8 DEF StreakGrows, StreakComplete, Evaluate
  <2>3. streak[r] \in 0 .. 1 /\ clearRun[r] \in 0 .. 2 /\ streak[r] <= clearRun[r]
    BY <1>8 DEF CauseInv, TypeOK, StreakGrows, StreakComplete, Evaluate, CLEAR_STREAK_TO_RESOLVE
  <2>4. ClearCount(r) <= clearRun'[r]
    BY <2>2, <2>3 DEF ClearCount, TypeOK
  <2>5. \A q \in Rules : streak'[q] <= clearRun'[q]
    BY <2>1, <2>2, <2>4 DEF CauseInv, TypeOK
  <2>6. /\ pc' = "rules" \/ (pc' = "resolve" /\ cur' = r /\ ClearCount(r) >= 2)
        /\ UNCHANGED <<db, retired>>
    BY <1>8 DEF StreakGrows, StreakComplete, Evaluate
  <2>7. ClearCount(r) >= 2 => clearRun'[r] >= 2
    BY <2>2, <2>3 DEF ClearCount, TypeOK
  <2>8. QED
    BY <2>5, <2>6, <2>7 DEF CauseInv, TableInv, Exists
<1>9. CASE ResolveIncident
  <2>1. cur \in Rules /\ pc = "resolve" /\ pc' = "notice" /\ rule' = rule
    BY <1>9 DEF ResolveIncident, TypeOK
  <2>2. \A q \in Rules : streak'[q] <= clearRun'[q]
    <3>1. \A q \in Rules : streak'[q] = streak[q] \/ streak'[q] = 0
      BY <1>9, <2>1 DEF ResolveIncident, Forget, TypeOK
    <3>2. QED
      BY <1>9, <3>1, StreakStaysBehind DEF ResolveIncident
  <2>3. TableInv'
    BY <1>9, <2>1, ResolvingKeepsTables DEF ResolveIncident, CauseInv
  <2>4. QED
    BY <2>1, <2>2, <2>3 DEF CauseInv
<1>10. QED
  BY <1>1, <1>2, <1>3, <1>4, <1>5, <1>6, <1>7, <1>8, <1>9 DEF Evaluator

\* CauseInv is inductive relative to the types.
LEMMA CauseInvStep ==
    ASSUME "rules_read" \notin Faults, TypeInv, CauseInv, [Next]_vars
    PROVE  CauseInv'
<1> USE DEF vars, db, mem, snap, prog, hist
<1>1. CASE Restart
  <2>1. \A q \in Rules : streak'[q] = 0
    BY <1>1 DEF Restart
  <2>2. \A q \in Rules : streak'[q] <= clearRun'[q]
    BY <1>1, <2>1, StreakStaysBehind DEF Restart, TypeInv
  <2>3. QED
    BY <1>1, <2>2 DEF Restart, CauseInv, TableInv, Exists
<1>2. CASE (\E r \in Rules : MetricsMove(r)) \/ ClockTick \/ UNCHANGED vars
  <2>1. UNCHANGED <<db, streak, pc, snap, prog, clearRun, retired>>
    BY <1>2 DEF MetricsMove, ClockTick
  <2>2. QED
    BY <2>1 DEF CauseInv, TableInv, Exists, Listed
<1>3. QED
  BY <1>1, <1>2, HandlersCauseInv, EvaluatorCauseInv DEF Next, TypeInv

\* A step that takes the last row of a rule away is one of three.
LEMMA ClosingStep ==
    ASSUME TypeOK, CauseInv, [Next]_vars, NEW r \in Rules, IncidentCloses(r)
    PROVE  \/ DeleteRule(r)
           \/ /\ r \in retired
              /\ CloseOrphan(r)
           \/ /\ ResolveIncident
              /\ cur = r
              /\ clearRun[r] >= CLEAR_STREAK_TO_RESOLVE
<1> USE DEF IncidentCloses, vars, db, mem, snap, prog, hist, tables
<1>1. CASE UNCHANGED openRows
  BY <1>1
<1>2. ASSUME NEW q \in Rules, DeleteRule(q)
      PROVE  DeleteRule(r)
  BY <1>2 DEF DeleteRule, TypeOK
<1>3. ASSUME NEW q \in Rules, CloseOrphan(q)
      PROVE  r \in retired /\ CloseOrphan(r)
  <2>1. q = r
    BY <1>3 DEF CloseOrphan, ResolveAlertsForRule, TypeOK
  <2>2. r \in retired
    BY <1>3, <2>1 DEF CloseOrphan, CauseInv
  <2>3. QED
    BY <1>3, <2>1, <2>2
<1>4. CASE RecordFired
  <2>1. cur \in Rules
    BY <1>4 DEF RecordFired, TypeOK
  <2>2. Append(openRows[cur], NewRow(cur)) # <<>>
    <3>1. openRows[cur] \in Seq(Row)
      BY <2>1 DEF TypeOK
    <3>2. QED
      BY <3>1
  <2>3. QED
    BY <1>4, <2>1, <2>2 DEF RecordFired, TypeOK
<1>5. CASE ResolveIncident
  <2>1. cur = r
    BY <1>5 DEF ResolveIncident, ResolveAlertsForRule, TypeOK
  <2>2. QED
    BY <1>5, <2>1 DEF ResolveIncident, CauseInv
<1>6. QED
  BY <1>1, <1>2, <1>3, <1>4, <1>5
     DEF Next, Handlers, CreateRule, UpdateRule, CreateSilence, EndSilence,
         MetricsMove, ClockTick, Restart, Evaluator, LoadRules, LoadOpen,
         LoadSilences, StillFiring, FiringThrottled, NewIncident, StreakGrows,
         StreakComplete, Quiet, Deliver, NoticeSent, EndPass

\* An open incident closes only because its rule is deleted, was disabled at
\* some moment of the incident, or evaluated clear twice in a row.
THEOREM IncidentsCloseForCause ==
    ASSUME "rules_read" \notin Faults
    PROVE  Spec => ClosedForCause
<1>1. ASSUME TypeInv, CauseInv, [Next]_vars, NEW r \in Rules, IncidentCloses(r)
      PROVE  \/ rule'[r].status = "deleted"
             \/ r \in retired
             \/ clearRun[r] >= CLEAR_STREAK_TO_RESOLVE
  <2>1. CASE DeleteRule(r)
    BY <1>1, <2>1 DEF DeleteRule, TypeInv, TypeOK, RuleRow
  <2>2. QED
    BY <1>1, <2>1, ClosingStep DEF TypeInv
<1>2. TypeInv /\ CauseInv /\ [Next]_vars
      => [\A r \in Rules : IncidentCloses(r) =>
             \/ rule'[r].status = "deleted"
             \/ r \in retired
             \/ clearRun[r] >= CLEAR_STREAK_TO_RESOLVE]_vars
  BY <1>1
<1>3. QED
  BY <1>2, InitTypeOK, TypeInvStep, InitCauseInv, CauseInvStep, PTL
     DEF Spec, ClosedForCause

(***************************************************************************)
(* The refinement, step by step.                                           *)
(***************************************************************************)

\* Only open rules are retired.
RetiredOpen == retired \subseteq {r \in Rules : openRows[r] # <<>>}

\* Rows come and go with the mark that the rule was disabled.
LEMMA RetiredOpenStep ==
    ASSUME TypeOK, RetiredOpen, [Next]_vars
    PROVE  RetiredOpen'
<1> USE DEF RetiredOpen, vars, db, mem, snap, prog, hist, tables
<1>1. CASE UNCHANGED <<openRows, retired>>
  BY <1>1
<1>2. ASSUME NEW r \in Rules, NEW st, NEW s, UpdateRule(r, st, s)
      PROVE  RetiredOpen'
  BY <1>2 DEF UpdateRule
<1>3. ASSUME NEW r \in Rules, openRows' = [openRows EXCEPT ![r] = <<>>],
             retired' = retired \ {r}
      PROVE  RetiredOpen'
  BY <1>3 DEF TypeOK
<1>4. ASSUME NEW r \in Rules, DeleteRule(r) \/ CloseOrphan(r)
      PROVE  RetiredOpen'
  BY <1>1, <1>3, <1>4 DEF DeleteRule, CloseOrphan, ResolveAlertsForRule
<1>5. CASE ResolveIncident
  BY <1>1, <1>3, <1>5 DEF ResolveIncident, ResolveAlertsForRule, TypeOK
<1>6. CASE RecordFired
  <2>1. cur \in Rules /\ openRows[cur] \in Seq(Row)
    BY <1>6 DEF RecordFired, TypeOK
  <2>2. Append(openRows[cur], NewRow(cur)) # <<>>
    BY <2>1
  <2>3. CASE openRows' = [openRows EXCEPT ![cur] = Append(@, NewRow(cur))]
             /\ retired' \subseteq retired \cup {cur}
    BY <2>1, <2>2, <2>3 DEF TypeOK
  <2>4. QED
    BY <1>1, <1>6, <2>3 DEF RecordFired
<1>7. QED
  BY <1>1, <1>2, <1>4, <1>5, <1>6
     DEF Next, Handlers, CreateRule, CreateSilence, EndSilence,
         MetricsMove, ClockTick, Restart, Evaluator, LoadRules, LoadOpen,
         LoadSilences, StillFiring, FiringThrottled, NewIncident, StreakGrows,
         StreakComplete, Quiet, Deliver, NoticeSent, EndPass

\* An evaluation is an observation of the contract.
LEMMA EvaluationObserves ==
    ASSUME TypeOK, NEW r \in Rules, NEW f \in BOOLEAN, Evaluate(r, f),
           UNCHANGED <<db, retired>>
    PROVE  Contract!ObserveFiring(r) \/ Contract!ObserveClear(r)
BY DEF Evaluate, db, TypeOK, CLEAR_STREAK_TO_RESOLVE,
       Contract!ObserveFiring, Contract!ObserveClear

\* Resolving the rows of a rule for a cause closes its incident, or does nothing.
LEMMA ResolvingCloses ==
    ASSUME TypeOK, RetiredOpen, NEW r \in Rules, ResolveAlertsForRule(r),
           UNCHANGED <<tables, clearRun>>,
           openRows[r] # <<>> => r \in retired \/ clearRun[r] >= CLEAR_STREAK_TO_RESOLVE
    PROVE  [Contract!Next]_(Contract!vars)
<1> USE DEF tables, TypeOK
<1>1. CASE UNCHANGED <<openRows, retired>>
  BY <1>1 DEF Contract!vars
<1>2. CASE openRows' = [openRows EXCEPT ![r] = <<>>] /\ retired' = retired \ {r}
  <2>1. {q \in Rules : openRows'[q] # <<>>} = {q \in Rules : openRows[q] # <<>>} \ {r}
    BY <1>2
  <2>2. CASE openRows[r] = <<>>
    BY <1>2, <2>1, <2>2 DEF RetiredOpen, Contract!vars
  <2>3. CASE openRows[r] # <<>>
    BY <1>2, <2>1, <2>3
       DEF Contract!Next, Contract!Resolve, Contract!CloseWithdrawn
  <2>4. QED
    BY <2>2, <2>3
<1>3. QED
  BY <1>1, <1>2 DEF ResolveAlertsForRule

\* Every step of the evaluator and its environment is one of the contract or none.
LEMMA StepRefines ==
    ASSUME TypeInv, CauseInv, RetiredOpen, [Next]_vars
    PROVE  [Contract!Next]_(Contract!vars)
<1> USE DEF vars, db, mem, snap, prog, hist, tables
<1> TypeOK
  BY DEF TypeInv
<1>1. CASE UNCHANGED <<rule, openRows, clearRun, retired>>
  BY <1>1 DEF Contract!vars
<1>2. ASSUME NEW r \in Rules, NEW s \in RuleSeverities, CreateRule(r, s)
      PROVE  [Contract!Next]_(Contract!vars)
  <2>1. {q \in Rules : rule'[q].status = "deleted"} = {q \in Rules : rule[q].status = "deleted"}
    BY <1>2 DEF CreateRule, TypeOK
  <2>2. QED
    BY <1>2, <2>1 DEF CreateRule, Contract!vars
<1>3. ASSUME NEW r \in Rules, NEW s \in RuleSeverities,
             NEW st \in {"enabled", "disabled"}, UpdateRule(r, st, s)
      PROVE  [Contract!Next]_(Contract!vars)
  <2>1. {q \in Rules : rule'[q].status = "deleted"} = {q \in Rules : rule[q].status = "deleted"}
    BY <1>3 DEF UpdateRule, TypeOK, Exists
  <2>2. CASE retired' = retired
    BY <1>3, <2>1, <2>2 DEF UpdateRule, Contract!vars
  <2>3. CASE openRows[r] # <<>> /\ retired' = retired \cup {r}
    BY <1>3, <2>1, <2>3 DEF UpdateRule, Contract!Next, Contract!Withdraw
  <2>4. QED
    BY <1>3, <2>2, <2>3 DEF UpdateRule
<1>4. ASSUME NEW r \in Rules, DeleteRule(r)
      PROVE  [Contract!Next]_(Contract!vars)
  <2>1. {q \in Rules : rule'[q].status = "deleted"}
         = {q \in Rules : rule[q].status = "deleted"} \cup {r}
    BY <1>4 DEF DeleteRule, TypeOK, RuleRow
  <2>2. {q \in Rules : openRows'[q] # <<>>} = {q \in Rules : openRows[q] # <<>>} \ {r}
    BY <1>4 DEF DeleteRule, TypeOK
  <2>3. rule[r].status # "deleted"
    BY <1>4 DEF DeleteRule, Exists
  <2>4. QED
    BY <1>4, <2>1, <2>2, <2>3 DEF DeleteRule, Contract!Next, Contract!Delete
<1>5. ASSUME NEW r \in Rules, \/ StillFiring(r) \/ FiringThrottled(r) \/ NewIncident(r)
                              \/ StreakGrows(r) \/ StreakComplete(r) \/ Quiet(r)
      PROVE  [Contract!Next]_(Contract!vars)
  <2>1. \E f \in BOOLEAN : Evaluate(r, f)
    BY <1>5 DEF StillFiring, FiringThrottled, NewIncident, StreakGrows,
                StreakComplete, Quiet
  <2>2. UNCHANGED <<db, retired>>
    BY <1>5 DEF StillFiring, FiringThrottled, NewIncident, StreakGrows,
                StreakComplete, Quiet
  <2>3. QED
    BY <2>1, <2>2, EvaluationObserves DEF Contract!Next
<1>6. ASSUME NEW r \in Rules, CloseOrphan(r)
      PROVE  [Contract!Next]_(Contract!vars)
  BY <1>6, ResolvingCloses DEF CloseOrphan, CauseInv
<1>7. CASE ResolveIncident
  BY <1>7, ResolvingCloses DEF ResolveIncident, CauseInv, TypeOK
<1>8. CASE RecordFired
  <2>1. cur \in Rules /\ openRows[cur] \in Seq(Row) /\ clearRun[cur] = 0
    BY <1>8 DEF RecordFired, TypeOK, CauseInv
  <2>2. Append(openRows[cur], NewRow(cur)) # <<>>
    BY <2>1
  <2>3. CASE UNCHANGED <<openRows, retired>>
    BY <1>8, <2>3 DEF RecordFired, Contract!vars
  <2>4. CASE /\ Exists(cur)
             /\ openRows' = [openRows EXCEPT ![cur] = Append(@, NewRow(cur))]
             /\ retired' \in {retired, retired \cup {cur}}
    <3>1. {q \in Rules : openRows'[q] # <<>>} = {q \in Rules : openRows[q] # <<>>} \cup {cur}
      BY <2>1, <2>2, <2>4 DEF TypeOK
    <3>2. UNCHANGED <<rule, clearRun>>
      BY <1>8 DEF RecordFired
    <3>3. CASE openRows[cur] = <<>>
      BY <2>1, <2>4, <3>1, <3>2, <3>3 DEF Exists, Contract!Next, Contract!Open
    <3>4. CASE openRows[cur] # <<>>
      BY <2>1, <2>4, <3>1, <3>2, <3>4 DEF Contract!Next, Contract!Withdraw, Contract!vars
    <3>5. QED
      BY <3>3, <3>4
  <2>5. QED
    BY <1>8, <2>3, <2>4 DEF RecordFired
<1>9. QED
  BY <1>1, <1>2, <1>3, <1>4, <1>5, <1>6, <1>7, <1>8
     DEF Next, Handlers, CreateSilence, EndSilence, MetricsMove, ClockTick,
         Restart, Evaluator, LoadRules, LoadOpen, LoadSilences, Deliver,
         NoticeSent, EndPass

\* The evaluator implements the contract, whatever else fails, as long as the
\* rule list can be read.
THEOREM EvaluatorKeepsContract ==
    ASSUME "rules_read" \notin Faults
    PROVE  Spec => ImplementsContract
<1>1. Init => Contract!Init /\ RetiredOpen
  BY DEF Init, Contract!Init, RetiredOpen, RuleRow
<1>2. TypeInv /\ RetiredOpen /\ [Next]_vars => RetiredOpen'
  BY RetiredOpenStep DEF TypeInv
<1>3. QED
  BY <1>1, <1>2, InitTypeOK, TypeInvStep, InitCauseInv, CauseInvStep,
     StepRefines, PTL DEF Spec, ImplementsContract, Contract!Spec

=============================================================================
