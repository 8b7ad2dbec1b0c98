----------------------------- MODULE EventStore -----------------------------
(***************************************************************************)
(* The task events in ClickHouse and the views summed from them            *)
(* (db/src/clickhouse), and the two requests that act on a task            *)
(* (api/src/routes/tasks.rs).  What is read back is in TaskQueries and     *)
(* AlertConditions.                                                        *)
(*                                                                         *)
(* A task runs at a worker, outside this code, and emits one event per     *)
(* step of its life.  Only the events in Carrying say what the task is     *)
(* called, which queue it was sent to and which tasks it hangs on          *)
(* (pipeline.rs:266-270, metrics.rs:139-142); the name is stitched back by *)
(* Ingest, or not.  Events come in batches, in any order.                  *)
(*                                                                         *)
(* One tenant: every query is bound to one.  Time is counted in ticks, a   *)
(* millisecond of the cursors and MINUTE of them to a minute of the views. *)
(***************************************************************************)
EXTENDS Integers, Sequences, FiniteSets, SequencesExt

CONSTANTS
    Tasks,
    Origins,       \* what the application's own tasks may be
    Brokers,
    None,          \* an empty field
    Carrying,      \* event types that carry name, queue and links
    MayLackName,   \* bound: event types Ingest may store without a name
    MINUTE,        \* ticks to a minute
    MaxClock,      \* bound: ticks
    MaxEvents,     \* bound: rows, and events on the wire
    MaxBatch       \* bound: events in one insert

\* What the worker may report next.  A rejected task may be delivered again, and
\* a running one may report what it likes.
NextTypes(phase) ==
    CASE phase = "born"         -> {"task-received"}
      [] phase = "task-received" -> {"task-started", "task-rejected"}
      [] phase = "task-started"  -> {"task-succeeded", "task-failed", "task-retried",
                                     "task-rejected", "task-other"}
      [] phase = "task-other"    -> {"task-succeeded", "task-failed", "task-retried"}
      [] phase \in {"task-retried", "task-rejected"} -> {"task-received"}
      [] OTHER                   -> {}

\* Every type that begins with "task-" is taken in (redis_consumer.rs:347); those
\* not known here are "task-other".
event_type_to_state ==
    [type \in {"task-sent", "task-received", "task-started", "task-succeeded",
               "task-failed", "task-retried", "task-revoked", "task-rejected",
               "task-other"} |->
        CASE type = "task-sent"      -> "PENDING"
          [] type = "task-received"  -> "RECEIVED"
          [] type = "task-started"   -> "STARTED"
          [] type = "task-succeeded" -> "SUCCESS"
          [] type = "task-failed"    -> "FAILURE"
          [] type = "task-retried"   -> "RETRY"
          [] type = "task-revoked"   -> "REVOKED"
          [] type = "task-rejected"  -> "REJECTED"
          [] OTHER                   -> "PENDING"]

EventTypes == DOMAIN event_type_to_state
Finished == {"SUCCESS", "FAILURE", "RETRY", "REVOKED"}

\* What a task may be.  Its message says what it is called, where it was sent
\* and which tasks it hangs on; the worker makes the rest of it.
Given(field) == UNION {{o[t][field] : t \in DOMAIN o} : o \in Origins}
Lives == [name : Given("name"), queue : Given("queue"), broker : Brokers,
          worker : Given("worker"), error : Given("error") \cup {None}, runtime : Nat,
          parent : Tasks \cup {None}, root : Tasks \cup {None},
          group : Given("group") \cup {None}, chord : Given("chord") \cup {None},
          phase : {"born"} \cup EventTypes]

ASSUME EventStoreAssumption ==
    /\ \A o \in Origins : DOMAIN o \subseteq Tasks /\ \A t \in DOMAIN o : o[t] \in Lives
    /\ None \notin Lives
    /\ IsFiniteSet(Brokers)
    /\ Carrying \subseteq EventTypes /\ "task-sent" \in Carrying
    /\ MayLackName \subseteq EventTypes \ Carrying
    /\ \A type \in Carrying : event_type_to_state[type] \notin Finished
    /\ MINUTE \in Nat \ {0}
    /\ MaxClock \in Nat /\ MaxEvents \in Nat /\ MaxBatch \in Nat \ {0}

VARIABLES
    life,      \* what each task is; None before it exists
    phase,     \* the last event of each task
    clock,
    wire,      \* events emitted and not yet inserted
    rows,      \* task_events
    parts      \* task_metrics_mv and queue_metrics_mv

storeVars == <<life, phase, clock, wire, rows, parts>>

StoreInit ==
    /\ \E o \in Origins : life = [t \in Tasks |-> IF t \in DOMAIN o THEN o[t] ELSE None]
    /\ phase = [t \in Tasks |-> IF life[t] = None THEN "born" ELSE life[t].phase]
    /\ clock = 0
    /\ wire = {} /\ rows = {}
    /\ parts = {}

Emitted == Cardinality(wire) + Cardinality(rows)

\* try: how often it has been inserted before.
Event(t, type) == [task |-> t, type |-> type, at |-> clock, try |-> 0]

Tick ==
    /\ clock < MaxClock
    /\ clock' = clock + 1
    /\ UNCHANGED <<life, phase, wire, rows, parts>>

\* A task is not received twice in one tick: a retry takes longer than that.
Unreported(e) == \A x \in wire \cup rows : <<x.task, x.type, x.at>> # <<e.task, e.type, e.at>>

\* The application's worker takes the next step with a task.
Emit(t) ==
    /\ life[t] # None /\ Emitted < MaxEvents
    /\ \E type \in NextTypes(phase[t]) :
          /\ Unreported(Event(t, type))
          /\ wire' = wire \cup {Event(t, type)}
          /\ phase' = [phase EXCEPT ![t] = type]
    /\ UNCHANGED <<life, clock, rows, parts>>

-----------------------------------------------------------------------------
(* Rows and views.                                                         *)

StateOf(r) == event_type_to_state[r.type]
MinuteOf(r) == r.at - (r.at % MINUTE)
Carried(r, field) == IF r.type \in Carrying THEN life[r.task][field] ELSE None

\* normalize_task_event, with the name Ingest found.
Row(e, blank) ==
    [task |-> e.task, type |-> e.type, at |-> e.at, try |-> e.try,
     name |-> IF e \in blank THEN None ELSE life[e.task].name]

\* Slip: retries are not taken for finished.
TaskMetricsSparingRetries(batch) ==
    LET done == {r \in batch : StateOf(r) \in Finished \ {"RETRY"}} IN
    { [view |-> "tasks", key |-> g[1], minute |-> g[2],
       count |-> [s \in Finished |->
            Cardinality({r \in done : <<r.name, MinuteOf(r)>> = g /\ StateOf(r) = s})]] :
      g \in {<<r.name, MinuteOf(r)>> : r \in done} }

\* task_metrics_mv and queue_metrics_mv: what one insert adds to them.  Events
\* that finish a task carry no queue, so the name alone is the key.
TaskMetricsMv(batch) ==
    LET done == {r \in batch : StateOf(r) \in Finished} IN
    { [view |-> "tasks", key |-> g[1], minute |-> g[2],
       count |-> [s \in Finished |->
            Cardinality({r \in done : <<r.name, MinuteOf(r)>> = g /\ StateOf(r) = s})]] :
      g \in {<<r.name, MinuteOf(r)>> : r \in done} }

QueueColumn == [enqueued |-> "task-sent", dequeued |-> "task-started",
                completed |-> "task-succeeded", failed |-> "task-failed"]

QueueMetricsMv(batch) ==
    LET counted == {r \in batch : \E c \in DOMAIN QueueColumn : QueueColumn[c] = r.type}
        group(r) == <<Carried(r, "queue"), MinuteOf(r)>>
    IN  { [view |-> "queues", key |-> g[1], minute |-> g[2],
           count |-> [c \in DOMAIN QueueColumn |->
                Cardinality({r \in counted : group(r) = g /\ r.type = QueueColumn[c]})]] :
          g \in {group(r) : r \in counted} }

\* SummingMergeTree: rows of one key become their sum.  They do so at any time
\* after the insert; here they do at once, since sums over the parts are all
\* that is taken of the counts.
Summed(ps, qs) ==
    LET Key(p) == <<p.view, p.key, p.minute>>
        both(p) == {q \in qs : Key(q) = Key(p)}
        plus(p, q) == [p EXCEPT !.count = [c \in DOMAIN @ |-> @[c] + q.count[c]]]
    IN  {p \in ps : both(p) = {}} \cup {q \in qs : \A p \in ps : Key(p) # Key(q)}
        \cup UNION {{plus(p, q) : q \in both(p)} : p \in ps}

Again(e) == [e EXCEPT !.try = @ + 1]

\* insert_task_events.  An insert that was carried out and not heard of is made
\* again, at once (pipeline.rs:208) or by the drain: the table keeps both.  More
\* loosely than the code, it may be so in other batches and with other blanks.
InsertTaskEvents ==
    /\ \E events \in SUBSET wire :
          /\ Cardinality(events) \in 1 .. MaxBatch
          /\ \/ wire' = wire \ events
             \/ /\ Emitted + Cardinality(events) <= MaxEvents
                /\ wire' = (wire \ events) \cup {Again(e) : e \in events}
          /\ \E blank \in SUBSET {e \in events : e.type \in MayLackName} :
                LET batch == {Row(e, blank) : e \in events} IN
                /\ rows' = rows \cup batch
                /\ parts' = Summed(parts, TaskMetricsMv(batch) \cup QueueMetricsMv(batch))
    /\ UNCHANGED <<life, phase, clock>>

-----------------------------------------------------------------------------
(* One task, put together from its rows (MERGED_TASK_SELECT).              *)

RowsOf(t) == {r \in rows : r.task = t}

\* argMaxIf(field, timestamp, field is set) and max(timestamp).
Merged(rs, field) ==
    LET set == {r \in rs : Carried(r, field) # None} IN
    IF set = {} THEN None
    ELSE Carried(CHOOSE r \in set : \A s \in set : r.at >= s.at, field)

MergedName(rs) ==
    IF \E r \in rs : r.name # None THEN (CHOOSE r \in rs : r.name # None).name ELSE None

Newest(rs) == Max({r.at : r \in rs})

\* argMax(state, timestamp): of equally young rows, any.
MergedStates(rs) == {StateOf(r) : r \in {s \in rs : s.at = Newest(rs)}}

-----------------------------------------------------------------------------
(* retry_task and revoke_task.                                             *)

\* redis_publish_task: the message of a new task that hangs on t.
publish_task(t, root, b) ==
    [life[t] EXCEPT !.parent = t, !.root = IF root = None THEN t ELSE root,
                    !.group = None, !.chord = None, !.broker = b, !.phase = "born"]

\* Slip: the event is made up before the message is published, which may fail.
AnnounceFirst(t, b) ==
    LET n == CHOOSE n \in Tasks : life[n] = None
    IN  /\ life[t] # None /\ Emitted < MaxEvents
        /\ \E u \in Tasks : life[u] = None
        /\ \/ life' = [life EXCEPT ![n] = publish_task(t, Merged(RowsOf(t), "root"), b)]
           \/ UNCHANGED life
        /\ wire' = wire \cup {Event(n, "task-sent")}
        /\ UNCHANGED <<phase, clock, rows, parts>>

\* The new task goes under the root that the rows of the old one tell; any of
\* the tenant's connected brokers may get it.  If the broker took it but its
\* answer is lost, the client is told that it failed and no event is made up
\* (synthetic_sent).  Arguments that cannot be read and a tenant without a
\* broker are refused before anything happens.
RetryTask(t, b) ==
    LET n == CHOOSE n \in Tasks : life[n] = None
    IN  /\ life[t] # None /\ Emitted < MaxEvents
        /\ \E u \in Tasks : life[u] = None
        /\ life' = [life EXCEPT ![n] = publish_task(t, Merged(RowsOf(t), "root"), b)]
        /\ \/ wire' = wire \cup {Event(n, "task-sent")}
           \/ UNCHANGED wire
        /\ UNCHANGED <<phase, clock, rows, parts>>

\* redis_revoke_task: the workers drop the task if it has not started, and end
\* it if they are told to terminate.
RevokeTask(t) ==
    /\ life[t] # None /\ Emitted < MaxEvents
    /\ phase[t] \in {"born", "task-received", "task-started", "task-other"}
    /\ phase' = [phase EXCEPT ![t] = "task-revoked"]
    /\ wire' = wire \cup {Event(t, "task-revoked")}
    /\ UNCHANGED <<life, clock, rows, parts>>

StoreNext ==
    \/ Tick \/ InsertTaskEvents
    \/ \E t \in Tasks : Emit(t) \/ RevokeTask(t) \/ \E b \in Brokers : RetryTask(t, b)

=============================================================================
