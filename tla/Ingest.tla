------------------------------- MODULE Ingest -------------------------------
(***************************************************************************)
(* From the broker's events to rows, live worker state and the broadcast   *)
(* (api/src/broker_conn/redis_consumer.rs and pipeline.rs, with the Redis  *)
(* side in db/src/redis/cache.rs).                                         *)
(*                                                                         *)
(* A consumer gathers events into a batch of tasks and a batch of workers  *)
(* and, when one is full or the flush timer fires, works it off before it  *)
(* looks at the broker again.  Consumers of the same tenant overlap: two   *)
(* brokers of one Celery cluster, or an old consumer that flushes its last *)
(* batch next to its successor.  Each Redis command is a step.             *)
(*                                                                         *)
(* How rows reach ClickHouse, and the counters of the pipeline, are in     *)
(* RetryBuffer.  A row here is one handed to the insert.  A task's name is *)
(* stood for by the task; an event that carries none has NoName.           *)
(***************************************************************************)
EXTENDS Integers, Sequences, FiniteSets, SequencesExt

CONSTANTS
    Tenants,
    Consumers,
    TenantOf,     \* the tenant a consumer ingests for
    Tasks,
    Workers,
    Messages,     \* what a broker may hand over: sequences of events
    NoName,       \* the empty task name
    TaskCap,      \* FP_TASK_BATCH_SIZE
    WorkerCap,    \* FP_WORKER_BATCH_SIZE
    MaxMessages,  \* bound: messages received in a behaviour
    MaxFaults     \* bound: failing Redis commands

TaskEvents == {e \in [kind : {"task"}, task : Tasks, name : {NoName} \cup Tasks] :
                 e.name \in {NoName, e.task}}

WorkerEvents == [kind : {"worker"}, worker : Workers,
                 type : {"online", "heartbeat", "offline"}, at : Nat]

\* The events of a message that go to the one batch or the other.
OfKind(m, k) ==
    LET taken[i \in 0 .. Len(m)] ==
            IF i = 0 THEN <<>>
            ELSE IF m[i].kind = k THEN Append(taken[i - 1], m[i]) ELSE taken[i - 1]
    IN  taken[Len(m)]

ASSUME IngestAssumption ==
    /\ TenantOf \in [Consumers -> Tenants]
    /\ NoName \notin Tasks
    /\ Messages \subseteq Seq(TaskEvents \cup WorkerEvents \cup {[kind |-> "junk"]})
    /\ TaskCap \in Nat \ {0} /\ WorkerCap \in Nat \ {0}
    /\ MaxMessages \in Nat /\ MaxFaults \in Nat

VARIABLES
    batch,      \* per consumer: the two batches being gathered
    job,        \* per consumer: the batch being worked off
    names,      \* Redis: the tasks of a tenant whose name is cached
    live,       \* Redis: state, heartbeat and sample keys, and the online set
    rows,       \* history: the task rows handed to the insert
    told,       \* history: names a consumer of the tenant cached, not expired
    word,       \* history: what the last undisturbed update said of a worker
    sent,       \* what was broadcast, in order
    received, faultsLeft

ingestVars == <<batch, job, names, live, rows, told, word, sent, received, faultsLeft>>

\* todo, nr: the workers left to update, and the command the first of them is
\* at.  owed, spoilt: history, the tasks whose name the lookup must have found,
\* and whether another consumer interfered with the update of a worker.
Idle == [at |-> "idle", events |-> <<>>, todo |-> <<>>, nr |-> 1, owed |-> {}, spoilt |-> FALSE]

NoKeys == [state |-> {}, hb |-> {}, online |-> {}, sampled |-> {}, samples |-> [w \in Workers |-> 0]]

Init ==
    /\ batch = [c \in Consumers |-> [task |-> <<>>, worker |-> <<>>]]
    /\ job = [c \in Consumers |-> Idle]
    /\ names = [n \in Tenants |-> {}]
    /\ live = [n \in Tenants |-> NoKeys]
    /\ rows = {}
    /\ told = [n \in Tenants |-> {}]
    /\ word = [n \in Tenants |-> [w \in Workers |-> "none"]]
    /\ sent = <<>>
    /\ received = 0
    /\ faultsLeft = MaxFaults

Goto(c, step) == job' = [job EXCEPT ![c].at = step]

-----------------------------------------------------------------------------
(* The consumer's loop.                                                    *)

\* process_pubsub_payload, route_parsed_event, drain_list_queues: what parses
\* goes to its batch, the rest is lost.  A full batch is worked off first.
Receive(c) ==
    /\ job[c] = Idle
    /\ Len(batch[c].task) < TaskCap /\ Len(batch[c].worker) < WorkerCap
    /\ received < MaxMessages
    /\ received' = received + 1
    /\ \E m \in Messages :
          batch' = [batch EXCEPT ![c].task = @ \o OfKind(m, "task"),
                                 ![c].worker = @ \o OfKind(m, "worker")]
    /\ UNCHANGED <<job, names, live, rows, told, word, sent, faultsLeft>>

\* A batch is full, the timer fires, or the consumer was told to stop.
TakeTasks(c) ==
    /\ job[c] = Idle
    /\ batch[c].task # <<>>
    /\ job' = [job EXCEPT ![c] = [Idle EXCEPT !.at = "lookup", !.events = batch[c].task]]
    /\ batch' = [batch EXCEPT ![c].task = <<>>]
    /\ UNCHANGED <<names, live, rows, told, word, sent, received, faultsLeft>>

TakeWorkers(c) ==
    /\ job[c] = Idle
    /\ batch[c].worker # <<>>
    /\ job' = [job EXCEPT ![c] = [Idle EXCEPT !.at = "sample", !.events = batch[c].worker]]
    /\ batch' = [batch EXCEPT ![c].worker = <<>>]
    /\ UNCHANGED <<names, live, rows, told, word, sent, received, faultsLeft>>

-----------------------------------------------------------------------------
(* ingest_raw_task_events.                                                 *)

\* The tasks named by some event.
Known(events) == {e.task : e \in {f \in ToSet(events) : f.name # NoName}}

Need(events) == {e.task : e \in ToSet(events)} \ Known(events)

\* The loop over the events that fills the blanks.
Named(events, known) ==
    [i \in DOMAIN events |->
        IF events[i].name = NoName /\ events[i].task \in known
        THEN [events[i] EXCEPT !.name = events[i].task] ELSE events[i]]

\* backfill_task_names up to the MGET, which is sent when a name is missing
\* and whose failure is taken for an empty answer.
LookupNames(c) ==
    LET evs == job[c].events
        n == TenantOf[c]
        found(hit, owed) == [job EXCEPT ![c].at = "cache", ![c].owed = owed,
                                        ![c].events = Named(evs, Known(evs) \cup hit)]
    IN  /\ job[c].at = "lookup"
        /\ \/ /\ job' = found(Need(evs) \cap names[n], Known(evs) \cup told[n])
              /\ UNCHANGED faultsLeft
           \/ /\ Need(evs) # {} /\ faultsLeft > 0
              /\ job' = found({}, Known(evs))
              /\ faultsLeft' = faultsLeft - 1
        /\ UNCHANGED <<batch, names, live, rows, told, word, sent, received>>

\* cache_task_names: every name known by now, for an hour from now.  A failing
\* pipeline may have set some of them.
CacheNames(c) ==
    LET n == TenantOf[c]
        known == Known(job[c].events)
    IN  /\ job[c].at = "cache"
        /\ \/ /\ names' = [names EXCEPT ![n] = @ \cup known]
              /\ told' = [told EXCEPT ![n] = @ \cup known]
              /\ UNCHANGED faultsLeft
           \/ /\ known # {} /\ faultsLeft > 0
              /\ \E some \in SUBSET known : names' = [names EXCEPT ![n] = @ \cup some]
              /\ faultsLeft' = faultsLeft - 1
              /\ UNCHANGED told
        /\ Goto(c, "store")
        /\ UNCHANGED <<batch, live, rows, word, sent, received>>

\* normalize_task_event and the insert.
StoreTasks(c) ==
    /\ job[c].at = "store"
    /\ rows' = rows \cup {[task |-> e.task, name |-> e.name,
                           owed |-> e.task \in job[c].owed] : e \in ToSet(job[c].events)}
    /\ Goto(c, "sendTasks")
    /\ UNCHANGED <<batch, names, live, told, word, sent, received, faultsLeft>>

TaskUpdate(c, e) == [tenant |-> TenantOf[c], kind |-> "task", id |-> e.task, name |-> e.name]

\* The broadcast does not wait for, or depend on, the insert.
SendTasks(c) ==
    /\ job[c].at = "sendTasks"
    /\ sent' = sent \o [i \in DOMAIN job[c].events |-> TaskUpdate(c, job[c].events[i])]
    /\ job' = [job EXCEPT ![c] = Idle]
    /\ UNCHANGED <<batch, names, live, rows, told, word, received, faultsLeft>>

-----------------------------------------------------------------------------
(* ingest_raw_worker_events.                                               *)

WorkersOf(events) == {e.worker : e \in ToSet(events)}

\* latest_per_worker: an event replaces the one kept if it is younger.
Latest(events, w) ==
    LET best[i \in 0 .. Len(events)] ==
            IF i = 0 THEN [at |-> -1]
            ELSE IF events[i].worker = w /\ events[i].at > best[i - 1].at
                 THEN events[i] ELSE best[i - 1]
    IN  best[Len(events)]

\* should_sample_heartbeat: SET NX for thirty seconds; only who set the key
\* stores the heartbeat.  A failure stores nothing.
Sample(c) ==
    LET n == TenantOf[c]
        beats == {w \in WorkersOf(job[c].events) : Latest(job[c].events, w).type = "heartbeat"}
        fresh == beats \ live[n].sampled
    IN  /\ job[c].at = "sample"
        /\ \/ /\ live' = [live EXCEPT ![n].sampled = @ \cup fresh,
                                      ![n].samples = [w \in Workers |->
                                            @[w] + IF w \in fresh THEN 1 ELSE 0]]
              /\ UNCHANGED faultsLeft
           \/ /\ beats # {} /\ faultsLeft > 0
              /\ faultsLeft' = faultsLeft - 1
              /\ UNCHANGED live
        /\ Goto(c, "plan")
        /\ UNCHANGED <<batch, names, rows, told, word, sent, received>>

\* The workers of a batch, in the order of a HashMap: any.
PlanUpdates(c) ==
    LET evs == job[c].events IN
    /\ job[c].at = "plan"
    /\ \E order \in SetToSeqs(WorkersOf(evs)) :
          LET updates == [i \in DOMAIN order |-> Latest(evs, order[i])]
          IN  job' = [job EXCEPT ![c].at = "update", ![c].events = updates, ![c].todo = updates]
    /\ UNCHANGED <<batch, names, live, rows, told, word, sent, received, faultsLeft>>

\* The commands of set_worker_state.  The fourth, when any worker was last seen
\* (cache.rs:61-65), is one of the Readings of AlertConditions.
SetWorkerState(keys, w, nr) ==
    CASE nr = 1 -> [keys EXCEPT !.state = @ \cup {w}]
      [] nr = 2 -> [keys EXCEPT !.hb = @ \cup {w}]
      [] nr = 3 -> [keys EXCEPT !.online = @ \cup {w}]

\* Slip: the heartbeat is left to expire.
SetWorkerOfflineKeepingHb(keys, w, nr) ==
    CASE nr = 1 -> [keys EXCEPT !.state = @ \ {w}]
      [] nr = 2 -> keys
      [] nr = 3 -> [keys EXCEPT !.online = @ \ {w}]

SetWorkerOffline(keys, w, nr) ==
    CASE nr = 1 -> [keys EXCEPT !.state = @ \ {w}]
      [] nr = 2 -> [keys EXCEPT !.hb = @ \ {w}]
      [] nr = 3 -> [keys EXCEPT !.online = @ \ {w}]

\* A consumer of the tenant is in the middle of updating worker w.
Amid(d, n, w) ==
    TenantOf[d] = n /\ job[d].nr > 1 /\ Head(job[d].todo).worker = w

NextWorker(j) == [j EXCEPT !.todo = Tail(@), !.nr = 1, !.spoilt = FALSE]

\* One command takes effect, or fails and takes the rest of this worker's
\* update with it; the error is ignored and the next worker follows.
RedisCommand(c) ==
    LET e == Head(job[c].todo)
        n == TenantOf[c]
        w == e.worker
        others == {d \in Consumers \ {c} : Amid(d, n, w)}
        spoilt == others # {} \/ job[c].spoilt
        done == job[c].nr = 3
        offline == e.type = "offline"
    IN  /\ job[c].at = "update"
        /\ job[c].todo # <<>>
        /\ \/ /\ live' = [live EXCEPT ![n] = IF offline THEN SetWorkerOffline(@, w, job[c].nr)
                                             ELSE SetWorkerState(@, w, job[c].nr)]
              /\ job' = [d \in Consumers |->
                            IF d # c THEN [job[d] EXCEPT !.spoilt = @ \/ d \in others]
                            ELSE IF done THEN NextWorker(job[c])
                            ELSE [job[c] EXCEPT !.nr = @ + 1, !.spoilt = spoilt]]
              /\ word' = [word EXCEPT ![n][w] = IF spoilt \/ ~done THEN "mixed"
                                                ELSE IF offline THEN "offline" ELSE "online"]
              /\ UNCHANGED faultsLeft
           \/ /\ faultsLeft > 0
              /\ faultsLeft' = faultsLeft - 1
              /\ job' = [job EXCEPT ![c] = NextWorker(@)]
              /\ word' = [word EXCEPT ![n][w] = "mixed"]
              /\ UNCHANGED live
        /\ UNCHANGED <<batch, names, rows, told, sent, received>>

WorkerUpdate(c, e) == [tenant |-> TenantOf[c], kind |-> "worker", id |-> e.worker, name |-> e.type]

SendWorkers(c) ==
    /\ job[c].at = "update" /\ job[c].todo = <<>>
    /\ sent' = sent \o [i \in DOMAIN job[c].events |-> WorkerUpdate(c, job[c].events[i])]
    /\ job' = [job EXCEPT ![c] = Idle]
    /\ UNCHANGED <<batch, names, live, rows, told, word, received, faultsLeft>>

-----------------------------------------------------------------------------
(* Keys expire: a name after an hour, a sample key after thirty seconds, a *)
(* heartbeat after ninety and then the state, set just before it for a     *)
(* hundred and twenty: never before the update that sets both is done.     *)

NameExpires(n) ==
    /\ \E t \in names[n] :
          /\ names' = [names EXCEPT ![n] = @ \ {t}]
          /\ told' = [told EXCEPT ![n] = @ \ {t}]
    /\ UNCHANGED <<batch, job, live, rows, word, sent, received, faultsLeft>>

KeyExpires(n) ==
    /\ \E w \in Workers :
          \/ w \in live[n].hb /\ live' = [live EXCEPT ![n].hb = @ \ {w}]
          \/ /\ w \in live[n].state \ live[n].hb
             /\ \A c \in Consumers : ~Amid(c, n, w)
             /\ live' = [live EXCEPT ![n].state = @ \ {w}]
          \/ /\ w \in live[n].sampled
             /\ live' = [live EXCEPT ![n].sampled = @ \ {w}, ![n].samples[w] = 0]
    /\ UNCHANGED <<batch, job, names, rows, told, word, sent, received, faultsLeft>>

IngestNext ==
    \/ \E c \in Consumers :
          \/ Receive(c) \/ TakeTasks(c) \/ TakeWorkers(c)
          \/ LookupNames(c) \/ CacheNames(c) \/ StoreTasks(c) \/ SendTasks(c)
          \/ Sample(c) \/ PlanUpdates(c) \/ RedisCommand(c) \/ SendWorkers(c)
    \/ \E n \in Tenants : NameExpires(n) \/ KeyExpires(n)

-----------------------------------------------------------------------------
(* Properties.                                                             *)

\* count_live_workers: online and not silent for ninety seconds.
LiveWorkers(n) == live[n].online \cap live[n].hb

\* Once a task's name was in a batch whose names were cached, no later batch
\* of the tenant, of whichever consumer, stores a row of that task without it,
\* until the entry expires or the lookup fails; and a batch that holds the name
\* anywhere stores no row without it.  A name is never another task's.
NamesStick ==
    \A r \in rows : r.name \in {r.task} \/ (r.name = NoName /\ ~r.owed)

\* The newest of a batch's events for a worker; of equally old ones the first.
Newest(events, w) ==
    CHOOSE e \in {events[i] : i \in {j \in DOMAIN events :
        /\ events[j].worker = w
        /\ \A k \in DOMAIN events :
              events[k].worker = w => \/ events[k].at < events[j].at
                                      \/ events[k].at = events[j].at /\ j <= k}} : TRUE

\* What goes to Redis and to the feed for a worker is the newest event of its
\* batch.
LatestIsNewest ==
    \A c \in Consumers : job[c].at = "plan" =>
        \A w \in WorkersOf(job[c].events) :
            Latest(job[c].events, w) = Newest(job[c].events, w)

\* What Redis says of a worker is what the last update said, once it went
\* through undisturbed by other consumers and failures: a worker that left is
\* in none of the keys, and one that is here is online, and counted live only
\* with its state.  A heartbeat is stored once in thirty seconds.
StatusFollowsWord ==
    \A n \in Tenants, w \in Workers :
        /\ word[n][w] = "offline"
              => w \notin live[n].state \cup live[n].hb \cup live[n].online
        /\ word[n][w] = "online"
              => w \in live[n].online /\ (w \in LiveWorkers(n) => w \in live[n].state)
        /\ live[n].samples[w] <= 1

\* What consumers of a tenant tell the tables and Redis agrees with the events,
\* however their lookups, caching and updates interleave.
IngestIsTrue == NamesStick /\ StatusFollowsWord

=============================================================================
