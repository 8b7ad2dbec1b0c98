---------------------------- MODULE DeliveryRetry ----------------------------
(***************************************************************************)
(* Alert deliveries and their retries (api/src/alert_dispatch.rs over the  *)
(* Redis ZSET of db/src/redis/cache.rs).  The evaluator sends the fired    *)
(* notification of an incident to each channel, records the history row    *)
(* with its delivery log, then queues a retry for every transient failure. *)
(* Every 30 seconds the drain takes the due jobs out of the ZSET, sends    *)
(* again, overwrites the log entry and queues what is left of the budget.  *)
(*                                                                         *)
(* The two tasks share the queue with no lock: the length check (ZCARD)    *)
(* and the insertion (ZADD) are two commands, and so are the range and the *)
(* removal of the due jobs.  Either task loses what it holds in a restart. *)
(***************************************************************************)
EXTENDS Integers, FiniteSets, DeliveryOutcome

CONSTANTS
    Incidents,     \* the incidents, one history row each
    NoIncident,
    Channels,      \* the channels that accept the incidents' severity
    Kind,          \* which sender a channel uses
    Key,           \* the delivery_key of a channel: its type, with the integration if
                   \* it has one; channels of one type or integration share theirs
    MaxRetryLen,   \* MAX_DELIVERY_RETRY_LEN
    DrainBatch,    \* RETRY_DRAIN_BATCH
    Answers,       \* the outcomes of a send that the instance tries
    Faults,        \* the kinds of failure the instance lets happen
    MaxFaults      \* bound: how many failures happen in one behaviour

FaultKinds == {"record", "log", "redis", "tenant_read", "restart"}

ASSUME DeliveryAssumption ==
    /\ NoIncident \notin Incidents
    /\ Kind \in [Channels -> Kinds]
    /\ DOMAIN Key = Channels
    /\ MaxRetryLen \in Nat
    /\ DrainBatch \in Nat \ {0}
    /\ Answers \subseteq Responses
    /\ Faults \subseteq FaultKinds
    /\ MaxFaults \in Nat

VARIABLES
    row,        \* the incident's history row
    log,        \* the row's channels_sent, an entry per delivery key
    queue,      \* the ZSET of retry jobs
    due,        \* the queued jobs whose time has come
    evPc,       \* the evaluator: idle, sending, or queueing retries
    evInc,      \* the incident it works on
    evTodo,     \* the channels left in its loop
    evLog,      \* its delivery_log, to be inserted with the row
    drPc,       \* the drain: where it is in its pass
    drBatch,    \* the jobs it took and has not sent yet
    drJob,      \* the job it is at, if any (a set of at most one)
    adding,     \* per task, the job between its ZCARD and its ZADD
    faultsLeft

\* History variables: what was sent and what came of it.
VARIABLES
    tries,      \* sends of the incident's notification to the channel
    last,       \* how the last of them went
    received,   \* the deliveries a provider accepted
    dropped,    \* the deliveries given up for want of queue, Redis or memory
    unlogged    \* the deliveries whose last send did not get into the log

evVars == <<evPc, evInc, evTodo, evLog>>
drVars == <<drPc, drBatch, drJob>>
hist   == <<tries, last, received, dropped, unlogged>>
vars   == <<row, log, queue, due, evVars, drVars, adding, faultsLeft, hist>>

Tasks == {"evaluator", "drain"}

Job == [incident : Incidents, channel : Channels, attempt : 2 .. MAX_DELIVERY_ATTEMPTS]

Deliveries == Incidents \X Channels

Delivery(j) == <<j.incident, j.channel>>

Keys == {Key[c] : c \in Channels}

\* No entry yet, under any key.
EmptyLog == [k \in Keys |-> "none"]

\* The SendResult of the last send of a delivery.
Result(i, c) == DeliverChannel(Kind[c], last[i][c])

\* Slip: only an HTTP error is a failure.
LogEntryByStatus(result) == IF result.status < 400 THEN "ok" ELSE "failed"

LogEntry(result) == IF result.success THEN "ok" ELSE "failed"

Init ==
    /\ row = [i \in Incidents |-> "none"]
    /\ log = [i \in Incidents |-> EmptyLog]
    /\ queue = {}
    /\ due = {}
    /\ evPc = "idle"
    /\ evInc = NoIncident
    /\ evTodo = {}
    /\ evLog = EmptyLog
    /\ drPc = "idle"
    /\ drBatch = {}
    /\ drJob = {}
    /\ adding = [t \in Tasks |-> {}]
    /\ faultsLeft = MaxFaults
    /\ tries = [i \in Incidents |-> [c \in Channels |-> 0]]
    /\ last = [i \in Incidents |-> [c \in Channels |-> "none"]]
    /\ received = {}
    /\ dropped = {}
    /\ unlogged = {}

Fault(kind) ==
    /\ kind \in Faults
    /\ faultsLeft > 0
    /\ faultsLeft' = faultsLeft - 1

NoFault == faultsLeft' = faultsLeft

\* One send of incident i's notification to channel c, with outcome resp.
Send(i, c, resp) ==
    /\ tries' = [tries EXCEPT ![i][c] = @ + 1]
    /\ last' = [last EXCEPT ![i][c] = resp]
    /\ received' = IF resp = "accepted" THEN received \cup {<<i, c>>} ELSE received

WorthRetrying(i, c, attempt) ==
    IsRetryable(Result(i, c)) /\ attempt < MAX_DELIVERY_ATTEMPTS

\* Slips of the next operator: the length of the queue is not checked; a retry
\* of a retry starts counting anew.
MaybeScheduleUnchecked(t, i, c, attempt) ==
    /\ IF WorthRetrying(i, c, attempt)
       THEN adding' = [adding EXCEPT ![t] =
                          {[incident |-> i, channel |-> c, attempt |-> attempt + 1]}]
       ELSE UNCHANGED adding
    /\ NoFault
    /\ UNCHANGED dropped

MaybeScheduleRecounting(t, i, c, attempt) ==
    /\ IF WorthRetrying(i, c, attempt) /\ Cardinality(queue) < MaxRetryLen
       THEN adding' = [adding EXCEPT ![t] =
                          {[incident |-> i, channel |-> c, attempt |-> 2]}]
       ELSE UNCHANGED adding
    /\ NoFault
    /\ UNCHANGED dropped

\* maybe_schedule_retry up to the ZCARD: the job is on its way to the ZADD, or
\* there is no job, or the queue is full, or Redis fails.
MaybeScheduleRetry(t, i, c, attempt) ==
    \/ /\ WorthRetrying(i, c, attempt)
       /\ Cardinality(queue) < MaxRetryLen
       /\ adding' = [adding EXCEPT ![t] =
                        {[incident |-> i, channel |-> c, attempt |-> attempt + 1]}]
       /\ NoFault
       /\ UNCHANGED dropped
    \/ /\ ~WorthRetrying(i, c, attempt)
       /\ NoFault
       /\ UNCHANGED <<adding, dropped>>
    \/ /\ WorthRetrying(i, c, attempt)
       /\ \/ Cardinality(queue) >= MaxRetryLen /\ NoFault
          \/ Fault("redis")
       /\ dropped' = dropped \cup {<<i, c>>}
       /\ UNCHANGED adding

\* The ZADD of task t.
Enqueue(t) ==
    /\ adding[t] # {}
    /\ adding' = [adding EXCEPT ![t] = {}]
    /\ \/ /\ NoFault
          /\ queue' = queue \cup adding[t]
          /\ UNCHANGED dropped
       \/ /\ Fault("redis")
          /\ dropped' = dropped \cup {Delivery(j) : j \in adding[t]}
          /\ UNCHANGED queue

-----------------------------------------------------------------------------
(* The evaluator: fire branch of run_alert_evaluation.                     *)

\* Silenced incidents send nothing, so only unsilenced openings matter here.
OpenIncident(i) ==
    /\ evPc = "idle"
    /\ row[i] = "none"
    /\ row' = [row EXCEPT ![i] = "opening"]
    /\ evPc' = "send"
    /\ evInc' = i
    /\ evTodo' = Channels
    /\ evLog' = EmptyLog
    /\ UNCHANGED <<log, queue, due, drVars, adding, faultsLeft, hist>>

\* The delivery_log is a map: of channels with one key, the last sent stays.
FirstSend(c, resp) ==
    /\ evPc = "send"
    /\ c \in evTodo
    /\ Send(evInc, c, resp)
    /\ evTodo' = evTodo \ {c}
    /\ evLog' = [evLog EXCEPT ![Key[c]] = LogEntry(DeliverChannel(Kind[c], resp))]
    /\ UNCHANGED <<row, log, queue, due, evPc, evInc, drVars, adding,
                   faultsLeft, dropped, unlogged>>

EvaluatorIdle ==
    evPc' = "idle" /\ evInc' = NoIncident /\ evTodo' = {} /\ evLog' = EmptyLog

InsertRow(i, state) ==
    /\ row' = [row EXCEPT ![i] = state]
    /\ log' = [log EXCEPT ![i] = evLog]

\* record_alert_fired returns the row: retries are queued against it.
RecordOk ==
    /\ evPc = "send"
    /\ evTodo = {}
    /\ row[evInc] = "opening"
    /\ InsertRow(evInc, "recorded")
    /\ evPc' = "schedule"
    /\ evTodo' = {c \in Channels : ~Result(evInc, c).success}
    /\ evLog' = EmptyLog
    /\ UNCHANGED <<queue, due, evInc, drVars, adding, faultsLeft, hist>>

\* record_alert_fired fails: the insert itself, or the update of the rule that
\* follows it and leaves the row.  Either way no retry is queued.
RecordFails ==
    /\ evPc = "send"
    /\ evTodo = {}
    /\ \/ /\ row[evInc] = "opening"
          /\ Fault("record")
          /\ \/ InsertRow(evInc, "half_recorded")
             \/ row' = [row EXCEPT ![evInc] = "unrecorded"] /\ UNCHANGED log
       \/ /\ row[evInc] = "deleted"
          /\ NoFault
          /\ UNCHANGED <<row, log>>
    /\ EvaluatorIdle
    /\ UNCHANGED <<queue, due, drVars, adding, hist>>

QueueFirstRetry(c) ==
    /\ evPc = "schedule"
    /\ c \in evTodo
    /\ adding["evaluator"] = {}
    /\ MaybeScheduleRetry("evaluator", evInc, c, 1)
    /\ evTodo' = evTodo \ {c}
    /\ UNCHANGED <<row, log, queue, due, evPc, evInc, evLog, drVars,
                   tries, last, received, unlogged>>

AddFirstRetry ==
    /\ Enqueue("evaluator")
    /\ UNCHANGED <<row, log, due, evVars, drVars, tries, last, received, unlogged>>

RetriesQueued ==
    /\ evPc = "schedule"
    /\ evTodo = {}
    /\ adding["evaluator"] = {}
    /\ EvaluatorIdle
    /\ UNCHANGED <<row, log, queue, due, drVars, adding, faultsLeft, hist>>

-----------------------------------------------------------------------------
(* The drain: drain_delivery_retries and pop_due_delivery_retries.         *)

\* Slip: the drain waits for a full batch.
ReadFullBatch ==
    /\ drPc = "idle"
    /\ \E batch \in SUBSET due :
          /\ Cardinality(batch) = DrainBatch
          /\ drBatch' = batch
    /\ drPc' = "remove"
    /\ UNCHANGED <<row, log, queue, due, evVars, drJob, adding, faultsLeft, hist>>

\* ZRANGEBYSCORE up to the batch size.
ReadDue ==
    /\ drPc = "idle"
    /\ due # {}
    /\ \E batch \in SUBSET due :
          /\ batch # {}
          /\ Cardinality(batch) = DrainBatch \/ (batch = due /\ Cardinality(due) < DrainBatch)
          /\ drBatch' = batch
    /\ drPc' = "remove"
    /\ UNCHANGED <<row, log, queue, due, evVars, drJob, adding, faultsLeft, hist>>

\* Slip: what has come due is removed by its score, read or not.
RemoveByScore ==
    /\ drPc = "remove"
    /\ NoFault
    /\ queue' = queue \ due
    /\ due' = {}
    /\ drPc' = "jobs"
    /\ UNCHANGED <<row, log, evVars, drBatch, drJob, adding, hist>>

\* ZREM of exactly what was read; an error ends the pass with nothing sent,
\* whether Redis removed the jobs or not.
RemoveDue ==
    /\ drPc = "remove"
    /\ \/ /\ NoFault
          /\ queue' = queue \ drBatch
          /\ due' = due \ drBatch
          /\ drPc' = "jobs"
          /\ UNCHANGED <<drBatch, dropped>>
       \/ /\ Fault("redis")
          /\ drPc' = "idle"
          /\ drBatch' = {}
          /\ \/ UNCHANGED <<queue, due, dropped>>
             \/ /\ queue' = queue \ drBatch
                /\ due' = due \ drBatch
                /\ dropped' = dropped \cup {Delivery(j) : j \in drBatch}
    /\ UNCHANGED <<row, log, evVars, drJob, adding, tries, last, received, unlogged>>

\* The job's tenant cannot be read: the job is dropped.
SkipJob(j) ==
    /\ drPc = "jobs"
    /\ j \in drBatch
    /\ Fault("tenant_read")
    /\ drBatch' = drBatch \ {j}
    /\ dropped' = dropped \cup {Delivery(j)}
    /\ UNCHANGED <<row, log, queue, due, evVars, drPc, drJob, adding,
                   tries, last, received, unlogged>>

RetrySend(j, resp) ==
    /\ drPc = "jobs"
    /\ j \in drBatch
    /\ Send(j.incident, j.channel, resp)
    /\ drBatch' = drBatch \ {j}
    /\ drJob' = {j}
    /\ drPc' = "log"
    /\ UNCHANGED <<row, log, queue, due, evVars, adding, faultsLeft, dropped, unlogged>>

\* update_delivery_status overwrites the entry of the channel's key, and
\* nothing in a row that is gone.  An error is only logged, and may be a reply
\* lost after the write.
RetryLog(j) ==
    /\ drPc = "log"
    /\ j \in drJob
    /\ LET i == j.incident
           c == j.channel
       IN  /\ \/ /\ NoFault \/ Fault("log")
                 /\ log' = IF row[i] \in {"recorded", "half_recorded"}
                           THEN [log EXCEPT ![i][Key[c]] = LogEntry(Result(i, c))] ELSE log
                 /\ unlogged' = unlogged \ {<<i, c>>}
              \/ /\ Fault("log")
                 /\ unlogged' = unlogged \cup {<<i, c>>}
                 /\ UNCHANGED log
           /\ IF Result(i, c).success
              THEN drPc' = "jobs" /\ drJob' = {}
              ELSE drPc' = "schedule" /\ UNCHANGED drJob
    /\ UNCHANGED <<row, queue, due, evVars, drBatch, adding, tries, last, received, dropped>>

QueueNextRetry(j) ==
    /\ drPc = "schedule"
    /\ j \in drJob
    /\ MaybeScheduleRetry("drain", j.incident, j.channel, j.attempt)
    /\ drPc' = IF adding'["drain"] = {} THEN "jobs" ELSE "add"
    /\ drJob' = {}
    /\ UNCHANGED <<row, log, queue, due, evVars, drBatch, tries, last, received, unlogged>>

AddNextRetry ==
    /\ drPc = "add"
    /\ Enqueue("drain")
    /\ drPc' = "jobs"
    /\ UNCHANGED <<row, log, due, evVars, drBatch, drJob, tries, last, received, unlogged>>

BatchDone ==
    /\ drPc = "jobs"
    /\ drBatch = {}
    /\ drPc' = "idle"
    /\ UNCHANGED <<row, log, queue, due, evVars, drBatch, drJob, adding,
                   faultsLeft, hist>>

-----------------------------------------------------------------------------
JobComesDue(j) ==
    /\ j \in queue \ due
    /\ due' = due \cup {j}
    /\ UNCHANGED <<row, log, queue, evVars, drVars, adding, faultsLeft, hist>>

\* Deleting the rule deletes its history (CASCADE); queued jobs know nothing.
DeleteRow(i) ==
    /\ row[i] \in {"opening", "recorded", "half_recorded"}
    /\ row' = [row EXCEPT ![i] = "deleted"]
    /\ log' = [log EXCEPT ![i] = EmptyLog]
    /\ UNCHANGED <<queue, due, evVars, drVars, adding, faultsLeft, hist>>

\* What a task holds in memory, and a restart loses.
InHand ==
    {Delivery(j) : j \in drJob \cup UNION {adding[t] : t \in Tasks}}
    \cup (IF drPc = "remove" THEN {} ELSE {Delivery(j) : j \in drBatch})
    \cup {<<evInc, c>> : c \in IF evPc = "schedule" THEN evTodo ELSE {}}

\* What was sent again and is not in the log yet.
BeingLogged == {Delivery(j) : j \in IF drPc = "log" THEN drJob ELSE {}}

Restart ==
    /\ Fault("restart")
    /\ unlogged' = unlogged \cup BeingLogged
    /\ dropped' = dropped \cup InHand
    /\ row' = [i \in Incidents |-> IF row[i] = "opening" THEN "unrecorded" ELSE row[i]]
    /\ EvaluatorIdle
    /\ drPc' = "idle"
    /\ drBatch' = {}
    /\ drJob' = {}
    /\ adding' = [t \in Tasks |-> {}]
    /\ UNCHANGED <<log, queue, due, tries, last, received>>

-----------------------------------------------------------------------------
Evaluator ==
    \/ \E c \in Channels : (\E resp \in Answers : FirstSend(c, resp)) \/ QueueFirstRetry(c)
    \/ RecordOk
    \/ RecordFails
    \/ AddFirstRetry
    \/ RetriesQueued

Drain ==
    \/ ReadDue
    \/ RemoveDue
    \/ \E j \in drBatch : SkipJob(j) \/ \E resp \in Answers : RetrySend(j, resp)
    \/ \E j \in drJob : RetryLog(j) \/ QueueNextRetry(j)
    \/ AddNextRetry
    \/ BatchDone

Next ==
    \/ \E i \in Incidents : OpenIncident(i) \/ DeleteRow(i)
    \/ Evaluator
    \/ Drain
    \/ \E j \in queue : JobComesDue(j)
    \/ Restart

Spec == Init /\ [][Next]_vars

\* Both tasks are polled and backoffs elapse.
FairSpec == /\ Spec
            /\ WF_vars(Evaluator)
            /\ WF_vars(Drain)
            /\ WF_vars(\E j \in queue : JobComesDue(j))

-----------------------------------------------------------------------------
(* Properties.                                                             *)

\* Every variable stays in its type, what is due is queued, and the queue is
\* longer than its cap by one job at most, though two tasks check its length
\* before they add to it.
TypeOK ==
    /\ row \in [Incidents -> {"none", "opening", "recorded", "half_recorded",
                            "unrecorded", "deleted"}]
    /\ log \in [Incidents -> [Keys -> {"none", "ok", "failed"}]]
    /\ queue \subseteq Job
    /\ due \subseteq queue
    /\ evPc \in {"idle", "send", "schedule"}
    /\ evInc \in Incidents \cup {NoIncident}
    /\ evTodo \subseteq Channels
    /\ evLog \in [Keys -> {"none", "ok", "failed"}]
    /\ drPc \in {"idle", "remove", "jobs", "log", "schedule", "add"}
    /\ drBatch \subseteq Job
    /\ drJob \subseteq Job
    /\ adding \in [Tasks -> SUBSET Job]
    /\ faultsLeft \in 0 .. MaxFaults
    /\ tries \in [Incidents -> [Channels -> Nat]]
    /\ last \in [Incidents -> [Channels -> Responses \cup {"none"}]]
    /\ received \subseteq Deliveries
    /\ dropped \subseteq Deliveries
    /\ unlogged \subseteq Deliveries
    /\ Cardinality(queue) <= MaxRetryLen + 1

\* The jobs that stand for a delivery, wherever they are.
Waiting == queue \cup drBatch \cup UNION {adding[t] : t \in Tasks}

\* A channel is sent one incident's notification MAX_DELIVERY_ATTEMPTS times
\* at most, the first send included, whatever the two tasks and restarts do: a
\* delivery never waits for two retries at once, and the retry that waits knows
\* how many sends came before it.
RetriesWithinBudget ==
    /\ \A i \in Incidents, c \in Channels : tries[i][c] <= MAX_DELIVERY_ATTEMPTS
    /\ \A j \in Waiting :
          /\ j.attempt = tries[j.incident][j.channel] + 1
          /\ \A k \in Waiting : Delivery(k) = Delivery(j) => k = j

\* The log tells what was sent.  Every entry of a recorded row is what the last
\* send of a channel with that key came to, unless that send is still to be
\* logged or could not be; and whatever was not logged, an entry says "ok" only
\* if the provider accepted the message of a channel with that key.  Of a
\* channel whose key is its own it tells that channel's sends; channels that
\* share a key overwrite each other's entry, and one can hide another's failure.
LogTellsSends ==
    \A i \in Incidents, k \in Keys :
        /\ row[i] \in {"recorded", "half_recorded"} =>
              \E c \in Channels :
                 /\ Key[c] = k
                 /\ \/ log[i][k] = LogEntry(Result(i, c))
                    \/ <<i, c>> \in unlogged \cup BeingLogged
        /\ log[i][k] = "ok" => \E c \in Channels : Key[c] = k /\ <<i, c>> \in received

\* A transient failure of a recorded incident with budget left has a retry
\* waiting or in hand, unless Redis, the full queue or a restart dropped it:
\* in particular none is lost between the drain's range and its removal.  (Of a
\* half-recorded incident none is retried: its opening ended in an error.)
InFlight(i, c) == <<i, c>> \in InHand \cup {Delivery(j) : j \in queue}

RetryNotForgotten ==
    \A i \in Incidents, c \in Channels :
        row[i] = "recorded" /\ tries[i][c] \in 1 .. MAX_DELIVERY_ATTEMPTS - 1
        /\ IsRetryable(Result(i, c))
        => InFlight(i, c) \/ <<i, c>> \in dropped

\* Every retry leaves the queue and the tasks in the end.
RetriesSettle ==
    \A i \in Incidents, c \in Channels : InFlight(i, c) ~> ~InFlight(i, c)

=============================================================================
