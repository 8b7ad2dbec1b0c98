-------------------------- MODULE AlertConditions --------------------------
(***************************************************************************)
(* When the condition of an alert rule is met: what the alert loop reads   *)
(* for it (api/src/alert_context.rs), the statistics it takes of that      *)
(* (alerting/src/stats.rs) and the comparison (alerting/src/engine.rs).    *)
(* AlertIncidents takes the answer from here as MetricsMove.               *)
(*                                                                         *)
(* A read may fail, each on its own.  What is read from Redis and Postgres *)
(* is whatever Readings allows; the events are those of EventStore.        *)
(*                                                                         *)
(* Comparisons of quotients and roots are made by cross-multiplying and    *)
(* squaring.                                                               *)
(***************************************************************************)
EXTENDS Dashboards

CONSTANTS
    Conditions,               \* the conditions looked at
    Readings,                 \* what Redis and Postgres may hold
    DEFAULT_WINDOW_MINUTES, ANOMALY_BASELINE, MAX_WINDOW_MINUTES, MAX_BASELINE,
    NO_EVENTS_LOOKBACK,       \* ticks, as are all durations
    MIN_CURRENT_SAMPLES, MIN_BASELINE_SAMPLES, MIN_SPIKE_SAMPLES, SPIKE_FACTOR_CAP

\* Rates are per cent, thresholds and durations whole and not negative.
AlertCondition ==
    LET Patterns == {AnyName} \cup SUBSET Given("name") IN
    [on : {"TaskFailureRate"}, percent : Nat, window : Nat, names : Patterns]
    \cup [on : {"TaskFailed"}, names : Patterns]
    \cup [on : {"TaskDuration"}, seconds : Nat, names : Patterns]
    \cup [on : {"QueueDepth"}, depth : Nat, queue : {AnyName} \cup Given("queue")]
    \cup [on : {"WorkerOffline"}, grace : Nat]
    \cup [on : {"BeatMissed"}]
    \cup [on : {"NoEvents"}, silence : Nat]
    \cup [on : {"ThroughputAnomaly", "LatencyAnomaly"}, z : Nat, window : Nat, names : Patterns]
    \cup [on : {"ErrorRateSpike"}, factor : Nat, baseline : Nat, names : Patterns]

ASSUME ConditionsAssumption ==
    /\ Conditions \subseteq AlertCondition
    /\ \A env \in Readings : /\ IsFiniteSet(DOMAIN env.depths)
                             /\ \A q \in DOMAIN env.depths : env.depths[q] \in Nat
    /\ {DEFAULT_WINDOW_MINUTES, ANOMALY_BASELINE, MAX_WINDOW_MINUTES, MAX_BASELINE} \subseteq Nat \ {0}
    /\ {NO_EVENTS_LOOKBACK, SPIKE_FACTOR_CAP} \subseteq Nat
    /\ {MIN_CURRENT_SAMPLES, MIN_BASELINE_SAMPLES, MIN_SPIKE_SAMPLES} \subseteq Nat \ {0}

Reads == {"overview", "queue depths", "beat", "liveness", "last seen", "brokers",
          "last event", "throughput", "latency", "error rate"}

Clamp(n, top) == IF n < 1 THEN 1 ELSE Min({n, top})
clamp_window(n) == Clamp(n, MAX_WINDOW_MINUTES)

-----------------------------------------------------------------------------
(* stats.rs: is the statistic above the threshold?                         *)

\* throughput_zscore, either way: absent buckets are zeros, the deviation is at
\* least that of a Poisson count and at least one.
ThroughputBeyond(z, current, moments, n) ==
    /\ n >= 1
    /\ LET off == n * current - moments.sum
           spread == Max({n * moments.sumsq - moments.sum * moments.sum, moments.sum * n, n * n})
       IN  off * off > z * z * spread

\* latency_zscore: not without enough samples, and the deviation is at least a
\* twentieth of the mean.
LatencyBeyond(z, current, baseline) ==
    LET c == Cardinality(current)
        b == Cardinality(baseline)
        C == SumFunction([r \in current |-> Runtime(r)])
        B == SumFunction([r \in baseline |-> Runtime(r)])
        Q == SumFunction([r \in baseline |-> Runtime(r) * Runtime(r)])
        off == C * b - B * c
    IN  /\ c >= MIN_CURRENT_SAMPLES /\ b >= MIN_BASELINE_SAMPLES
        /\ off > 0
        /\ 400 * off * off > z * z * c * c * Max({400 * (b * Q - B * B), B * B})

\* error_spike_factor: not without enough tasks; with no baseline any failure
\* is the greatest spike; the baseline has at least half a failure.
SpikeBeyond(factor, current, baseline) ==
    LET ct == Cardinality(current)
        cf == CountOf(current, "FAILURE")
        bt == Cardinality(baseline)
        bf == CountOf(baseline, "FAILURE")
    IN  /\ ct >= MIN_SPIKE_SAMPLES
        /\ SPIKE_FACTOR_CAP > factor
        /\ IF bt = 0 THEN cf > 0 ELSE 2 * cf * bt > factor * ct * Max({2 * bf, 1})

-----------------------------------------------------------------------------
(* alert_context.rs and engine.rs, condition by condition.                 *)

NothingDone == [total |-> 0, success |-> 0, failure |-> 0, timed |-> {}]

OverviewRead(failing, minutes, names) ==
    IF "overview" \in failing THEN NothingDone ELSE Overview(minutes, names)

has_active_broker(failing, env) == "brokers" \notin failing /\ env.active

\* workers_offline: a failed look at the live workers counts as one live; a
\* failed look at when one was last seen counts as never.
WorkersOffline(c, failing, env) ==
    LET live == IF "liveness" \in failing THEN 1 ELSE env.live
        seen == IF "last seen" \in failing THEN None ELSE env.seen
    IN  live = 0 /\ has_active_broker(failing, env) /\ (seen = None \/ seen >= c.grace)

\* Slip: when the newest event cannot be read, there is none.
SilenceUnread(c, failing, env) ==
    /\ has_active_broker(failing, env)
    /\ LET known == {r \in rows : "last event" \notin failing /\ clock - r.at <= NO_EVENTS_LOOKBACK}
           age == IF known = {} THEN NO_EVENTS_LOOKBACK ELSE clock - Newest(known)
       IN  age > c.silence

\* seconds_since_last_event: a tenant without an event in the lookback is as
\* old as that; one whose newest event cannot be read has just had one.
Silence(c, failing, env) ==
    /\ has_active_broker(failing, env) /\ "last event" \notin failing
    /\ LET known == {r \in rows : clock - r.at <= NO_EVENTS_LOOKBACK}
           age == IF known = {} THEN NO_EVENTS_LOOKBACK ELSE clock - Newest(known)
       IN  age > c.silence

\* depth_for_queue.
DepthFor(depths, queue) ==
    IF queue = AnyName THEN Max({0} \cup {depths[q] : q \in DOMAIN depths})
    ELSE IF queue \in DOMAIN depths THEN depths[queue] ELSE 0

\* With as few rows as here every level from a half up lies at the longest run.
Percentile(timed) == Max({0} \cup {Runtime(r) : r \in timed})

\* context_for followed by evaluate_condition.
Met(c, failing, env) ==
    CASE c.on = "TaskFailureRate" ->
            LET o == OverviewRead(failing, clamp_window(c.window), c.names)
            IN  o.total > 0 /\ 100 * o.failure > c.percent * o.total
      [] c.on = "TaskFailed" -> OverviewRead(failing, DEFAULT_WINDOW_MINUTES, c.names).failure > 0
      [] c.on = "TaskDuration" ->
            Percentile(OverviewRead(failing, DEFAULT_WINDOW_MINUTES, c.names).timed) > c.seconds
      [] c.on = "QueueDepth" ->
            "queue depths" \notin failing /\ DepthFor(env.depths, c.queue) > c.depth
      [] c.on = "WorkerOffline" -> WorkersOffline(c, failing, env)
      [] c.on = "BeatMissed" -> "beat" \notin failing /\ env.missed > 0
      [] c.on = "NoEvents" -> Silence(c, failing, env)
      [] c.on = "ThroughputAnomaly" ->
            LET w == clamp_window(c.window) IN
            /\ "throughput" \notin failing
            /\ ThroughputBeyond(c.z, RecentCompleted(w, c.names),
                                Moments(w, ANOMALY_BASELINE, c.names), ANOMALY_BASELINE \div w)
      [] c.on = "LatencyAnomaly" ->
            LET a == Against(clamp_window(c.window), ANOMALY_BASELINE, c.names)
            IN  "latency" \notin failing /\ LatencyBeyond(c.z, Timed(a.current), Timed(a.baseline))
      [] c.on = "ErrorRateSpike" ->
            LET a == Against(DEFAULT_WINDOW_MINUTES, Clamp(c.baseline, MAX_BASELINE), c.names)
            IN  "error rate" \notin failing /\ SpikeBeyond(c.factor, a.current, a.baseline)

-----------------------------------------------------------------------------
(* Properties.                                                             *)

\* What must be true of the tenant's tasks, workers and queues for an alert on
\* the condition to be about something.
FailureIn(minutes, names) == \E r \in Done(minutes, names) : StateOf(r) = "FAILURE"

Cause(c, env) ==
    CASE c.on = "TaskFailureRate" -> FailureIn(clamp_window(c.window), c.names)
      [] c.on \in {"TaskFailed", "ErrorRateSpike"} -> FailureIn(DEFAULT_WINDOW_MINUTES, c.names)
      [] c.on = "TaskDuration" ->
            \E r \in Done(DEFAULT_WINDOW_MINUTES, c.names) : Runtime(r) > c.seconds
      [] c.on = "QueueDepth" -> \E q \in DOMAIN env.depths : env.depths[q] > c.depth
      [] c.on = "WorkerOffline" ->
            env.active /\ env.live = 0 /\ (env.seen = None \/ env.seen >= c.grace)
      [] c.on = "BeatMissed" -> env.missed > 0
      [] c.on = "NoEvents" -> env.active /\ \A r \in rows : clock - r.at > c.silence
      [] c.on = "ThroughputAnomaly" ->
            Done(ANOMALY_BASELINE, c.names) \cup Done(clamp_window(c.window), c.names) # {}
      [] c.on = "LatencyAnomaly" ->
            \E r \in Done(clamp_window(c.window), c.names),
               s \in Timed(Done(ANOMALY_BASELINE, c.names)) : Runtime(r) > Runtime(s)

\* The reads of a condition, and what they may return besides the events.
ReadsOf(c) ==
    CASE c.on \in {"TaskFailureRate", "TaskFailed", "TaskDuration"} -> {"overview"}
      [] c.on = "QueueDepth"        -> {"queue depths"}
      [] c.on = "WorkerOffline"     -> {"liveness", "brokers", "last seen"}
      [] c.on = "BeatMissed"        -> {"beat"}
      [] c.on = "NoEvents"          -> {"brokers", "last event"}
      [] c.on = "ThroughputAnomaly" -> {"throughput"}
      [] c.on = "LatencyAnomaly"    -> {"latency"}
      [] c.on = "ErrorRateSpike"    -> {"error rate"}

ReadingsOf(c) ==
    IF ReadsOf(c) \cap {"queue depths", "liveness", "beat", "brokers"} # {} THEN Readings
    ELSE {CHOOSE env \in Readings : TRUE}

MetForCause(readsThatFail) ==
    Idle => \A c \in Conditions : \A env \in ReadingsOf(c) :
        ~Cause(c, env) => \A failing \in SUBSET (ReadsOf(c) \cap readsThatFail) :
                              ~Met(c, failing, env)

\* Whichever reads fail, together or alone, a rule's condition is met only when
\* there is cause for it; but for the one read that is not closed, when a
\* worker was last seen (alert_context.rs:237-243).
FailsClosed == MetForCause(Reads \ {"last seen"})

=============================================================================
