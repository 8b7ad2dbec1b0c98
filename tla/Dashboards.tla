----------------------------- MODULE Dashboards -----------------------------
(***************************************************************************)
(* What the pages and the alert conditions count in the task events and in *)
(* the views (db/src/clickhouse/aggregations.rs, api/src/routes/metrics.rs *)
(* only passes it on).  One operator per query; no state of its own.       *)
(*                                                                         *)
(* Counts, windows and groups are kept; averages and quantiles are left to *)
(* the runtimes they are taken from, and the waiting times, which nothing  *)
(* ever fills in, are left out.                                            *)
(***************************************************************************)
EXTENDS TaskQueries

CONSTANTS
    AnyName,          \* a task pattern that is empty or "*"
    Windows,          \* the windows looked at, in minutes
    TaskNameLimit,    \* the length of get_task_name_stats
    FailureLimits     \* bound: the lengths asked of get_failure_groups

ASSUME DashboardsAssumption ==
    /\ Windows \subseteq Nat \ {0}
    /\ TaskNameLimit \in Nat \ {0} /\ FailureLimits \subseteq Nat \ {0}

-----------------------------------------------------------------------------
(* From the events.                                                        *)

Since(minutes) == {r \in rows : r.at >= clock - minutes * MINUTE}

\* task_predicate: any other pattern is the set of the names it matches.
Matches(name, names) == names = AnyName \/ name \in names

Done(minutes, names) ==
    {r \in Since(minutes) : StateOf(r) \in Finished /\ Matches(r.name, names)}

CountOf(rs, state) == Cardinality({r \in rs : StateOf(r) = state})

\* Only task-succeeded says how long the task ran.
Runtime(r) == IF r.type = "task-succeeded" THEN life[r.task].runtime ELSE 0
Timed(rs) == {r \in rs : Runtime(r) > 0}

\* get_overview_stats (for AnyName) and get_alert_overview_stats.
Overview(minutes, names) ==
    LET rs == Done(minutes, names) IN
    [total |-> Cardinality(rs), success |-> CountOf(rs, "SUCCESS"),
     failure |-> CountOf(rs, "FAILURE"), timed |-> Timed(rs)]

Groups(rs, Key(_)) ==
    [k \in {Key(r) : r \in rs} |-> {r \in rs : Key(r) = k}]

GroupTotal(groups) == SumFunction([k \in DOMAIN groups |-> Cardinality(groups[k])])

\* ORDER BY count() DESC LIMIT n: of equally large groups, any.
TopGroups(groups, n) ==
    {Restrict(groups, K) : K \in
        {K \in SUBSET DOMAIN groups :
            /\ Cardinality(K) = Min({n, Cardinality(DOMAIN groups)})
            /\ \A k \in K, j \in DOMAIN groups \ K : Cardinality(groups[k]) >= Cardinality(groups[j])}}

\* get_failure_groups: failures that say why.
FailureGroups(minutes, limit) ==
    LET rs == {r \in Since(minutes) : StateOf(r) = "FAILURE" /\ life[r.task].error # None}
    IN  TopGroups(Groups(rs, LAMBDA r : life[r.task].error), limit)

\* get_task_name_stats.
TaskNameStats(minutes) ==
    TopGroups(Groups({r \in Done(minutes, AnyName) : r.name # None}, LAMBDA r : r.name),
              TaskNameLimit)

\* get_broker_stats, over all time and every type of event.
BrokerStats(b) ==
    LET rs == {r \in rows : life[r.task].broker = b} IN
    [total |-> Cardinality(rs), success |-> CountOf(rs, "SUCCESS"),
     failure |-> CountOf(rs, "FAILURE")]

\* count_task_events.
TaskEventsTotal(states) == Cardinality(Matching("events", states))

\* get_latency_moments and get_error_rate_stats: the window against the rest of
\* the baseline before it.
Against(minutes, baseline, names) ==
    [current |-> {r \in Done(baseline, names) : r.at >= clock - minutes * MINUTE},
     baseline |-> {r \in Done(baseline, names) : r.at < clock - minutes * MINUTE}]

-----------------------------------------------------------------------------
(* From the views, by the minute.                                          *)

Parts(view, minutes) ==
    {p \in parts : p.view = view /\ p.minute >= clock - minutes * MINUTE}

Counted(ps) == SumFunction([p \in ps |-> SumFunction(p.count)])

\* get_throughput_metrics (with an agent it counts the events) and
\* get_queue_metrics: the parts themselves.
ThroughputMetrics(minutes) == Parts("tasks", minutes)
QueueMetrics(queue, minutes) == {p \in Parts("queues", minutes) : p.key = queue}

\* get_recent_completed_count.
RecentCompleted(minutes, names) ==
    Counted({p \in Parts("tasks", minutes) : Matches(p.key, names)})

\* get_throughput_moments, over the full buckets of the baseline.
Moments(minutes, baseline, names) ==
    LET start(m) == m - (m % (minutes * MINUTE))
        past == {p \in Parts("tasks", baseline) : p.minute < start(clock) /\ Matches(p.key, names)}
        buckets == {start(p.minute) : p \in past}
        count == [b \in buckets |-> Counted({p \in past : start(p.minute) = b})]
    IN  [sum |-> SumFunction(count), sumsq |-> SumFunction([b \in buckets |-> count[b] * count[b]])]

\* get_queue_overview.
QueueOverview(minutes) ==
    LET named == {p \in Parts("queues", minutes) : p.key # None}
        sum(q, c) == SumFunction([p \in QueueMetrics(q, minutes) |-> p.count[c]])
    IN  [q \in {p.key : p \in named} |->
            [enqueued |-> sum(q, "enqueued"), completed |-> sum(q, "completed"),
             failed |-> sum(q, "failed"),
             backlog |-> sum(q, "enqueued") - sum(q, "completed") - sum(q, "failed")]]

-----------------------------------------------------------------------------
(* Properties.                                                             *)

\* A view counts by the minute an event was in, so what it counts of a window
\* lies between the events of the window and those of one a minute longer.
ViewsFollow(w) ==
    LET overview == Overview(w, AnyName)
        ended(s, m) == SumFunction([p \in ThroughputMetrics(m) |-> p.count[s]])
        sent(q) == {r \in Since(w) : r.type = "task-sent" /\ Carried(r, "queue") = q}
        enqueued(q, m) == IF q \in DOMAIN QueueOverview(m) THEN QueueOverview(m)[q].enqueued ELSE 0
    IN  /\ RecentCompleted(w, AnyName) <= overview.total
        /\ overview.total <= RecentCompleted(w + 1, AnyName)
        /\ ended("SUCCESS", w) <= overview.success /\ overview.success <= ended("SUCCESS", w + 1)
        /\ ended("FAILURE", w) <= overview.failure /\ overview.failure <= ended("FAILURE", w + 1)
        /\ \A q \in Given("queue") \ {None} :
              /\ enqueued(q, w) <= Cardinality(sent(q))
              /\ Cardinality(sent(q)) <= enqueued(q, w + 1)

\* A breakdown never says more than the overview and, but for the rows it has no
\* place for, as much unless it is as long as it may be.
AddsUp(groups, limit, placeless, total) ==
    LET shown == GroupTotal(groups) + Cardinality(placeless)
    IN  shown <= total /\ (Cardinality(DOMAIN groups) < limit => shown = total)

BreakdownsAddUp(w) ==
    LET done == Done(w, AnyName)
        overview == Overview(w, AnyName)
        unnamed == {r \in done : r.name = None}
        unexplained == {r \in done : StateOf(r) = "FAILURE" /\ life[r.task].error = None}
    IN  /\ \A stats \in TaskNameStats(w) : AddsUp(stats, TaskNameLimit, unnamed, overview.total)
        /\ \A n \in FailureLimits : \A groups \in FailureGroups(w, n) :
              AddsUp(groups, n, unexplained, overview.failure)

\* The brokers' pages count what the list of events shows and, in their totals
\* alone, the events of the types that it leaves out.
BrokersAddUp ==
    LET unlisted == {r \in rows : r.type \notin TASK_EVENT_TYPES_IN}
    IN  /\ SumFunction([b \in Brokers |-> BrokerStats(b).total])
               = TaskEventsTotal({}) + Cardinality(unlisted)
        /\ SumFunction([b \in Brokers |-> BrokerStats(b).success]) = TaskEventsTotal({"SUCCESS"})
        /\ SumFunction([b \in Brokers |-> BrokerStats(b).failure]) = TaskEventsTotal({"FAILURE"})

\* Numbers shown side by side agree, in whatever order and batches the events
\* came: the charts, summed from the views, with the overview, counted in the
\* events; the breakdowns with the overview; the brokers with the list.
DashboardsAgree ==
    Idle => /\ \A w \in Windows : ViewsFollow(w) /\ BreakdownsAddUp(w)
            /\ BrokersAddUp

=============================================================================
