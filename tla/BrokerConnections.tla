-------------------------- MODULE BrokerConnections --------------------------
(***************************************************************************)
(* The connection of one broker: the handlers of routes/brokers.rs, the    *)
(* map of broker_conn/manager.rs, and the supervised consumer tasks.       *)
(*                                                                         *)
(* Handlers run concurrently and await between the row and the map;        *)
(* manager.start itself removes, spawns and inserts in three steps.  A     *)
(* consumer learns of its cancellation only where it waits for it, and     *)
(* writes its status to the row whoever else wrote there last.             *)
(*                                                                         *)
(* The map is keyed by broker, so brokers share nothing and one is enough. *)
(* What a consumer ingests is the subject of RetryBuffer.                  *)
(***************************************************************************)
EXTENDS Integers, FiniteSets

CONSTANTS
    Requests,     \* bound: HTTP requests in progress at once
    Tasks,        \* bound: spawned tasks alive at once
    NoTask,
    Outcomes,     \* the configurations the instance tries
    Faults,       \* the kinds of failure the instance lets happen
    MaxFaults     \* bound: how many failures happen in one behaviour

\* A configuration the consumers can use, one whose URL cannot be decrypted,
\* and one of a type no consumer serves.
AllOutcomes == {"runs", "unreadable", "unsupported"}

\* db: a write to the row fails, or its request is dropped before it; unheard: the
\* row is written, and the request fails or is dropped before it goes on; restart:
\* the process starts again; unlisted: it does, and cannot list the active brokers.
FaultKinds == {"db", "unheard", "restart", "unlisted"}

ASSUME BrokerAssumption ==
    /\ NoTask \notin Tasks
    /\ Outcomes \subseteq AllOutcomes
    /\ Faults \subseteq FaultKinds
    /\ MaxFaults \in Nat

VARIABLES
    row,          \* broker_configs: none, present or deleted
    active,       \* its is_active
    status,       \* its status
    config,       \* what a task started for it will find its configuration to be
    connections,  \* the map's entry for the broker, or NoTask
    cancelled,    \* the tasks whose token was cancelled
    pc,           \* where a task is
    reqPc,        \* where a request is
    reqTask,      \* the task a request spawned and has not inserted yet
    faultsLeft

\* History variables.
VARIABLES
    torn,         \* two requests were in progress at once since the process started
    stranded      \* a request or the start ended between the row and the map, or a
                  \* delete found no row of its organisation; nothing made up for it yet

rowVars == <<row, active, status, config>>
tskVars == <<connections, cancelled, pc>>
reqVars == <<reqPc, reqTask>>
history == <<torn, stranded>>
vars    == <<rowVars, tskVars, reqVars, faultsLeft, history>>

Init ==
    /\ row = "none"
    /\ active = FALSE
    /\ status = "disconnected"
    /\ config \in Outcomes
    /\ connections = NoTask
    /\ cancelled = {}
    /\ pc = [t \in Tasks |-> "over"]
    /\ reqPc = [q \in Requests |-> "idle"]
    /\ reqTask = [q \in Requests |-> NoTask]
    /\ faultsLeft = MaxFaults
    /\ torn = FALSE
    /\ stranded = FALSE

Fault(kind) ==
    /\ kind \in Faults
    /\ faultsLeft > 0
    /\ faultsLeft' = faultsLeft - 1

NoFault == faultsLeft' = faultsLeft

\* update_broker_config_status, errors ignored: a deleted row stays deleted.
WriteStatus(s) ==
    \/ NoFault /\ status' = IF row = "present" THEN s ELSE status
    \/ Fault("db") /\ UNCHANGED status

\* manager.stop: take the entry out of the map and cancel its task.
ManagerStop ==
    /\ cancelled' = IF connections = NoTask THEN cancelled ELSE cancelled \cup {connections}
    /\ connections' = NoTask

Goto(q, from, to) ==
    /\ reqPc[q] = from
    /\ reqPc' = [reqPc EXCEPT ![q] = to]

\* Request q begins, alone or not.
Begins(q) == torn' = (torn \/ \E o \in Requests \ {q} : reqPc[o] # "idle")

\* Tasks that ended and that nobody refers to: their names are free again.
Unused == {t \in Tasks : pc[t] = "over" /\ t # connections
                         /\ \A q \in Requests : reqTask[q] # t}

FirstStep == IF config = "runs" THEN "connecting" ELSE "reject"

-----------------------------------------------------------------------------
(* create_broker, start_broker: the row first, then manager.start.         *)

\* An INSERT that fails leaves nothing; one whose reply is lost leaves an active
\* row that nothing is started for.
CreateBroker(q) ==
    /\ row = "none"
    /\ \/ /\ NoFault
          /\ Goto(q, "idle", "stop_old")
          /\ row' = "present" /\ active' = TRUE
          /\ UNCHANGED stranded
       \/ /\ Fault("unheard")
          /\ Goto(q, "idle", "idle")
          /\ row' = "present" /\ active' = TRUE
          /\ stranded' = TRUE
       \/ /\ Fault("db")
          /\ Goto(q, "idle", "idle")
          /\ UNCHANGED <<row, active, stranded>>
    /\ Begins(q)
    /\ UNCHANGED <<status, config, tskVars, reqTask>>

GetForStart(q) ==
    /\ row = "present"
    /\ Goto(q, "idle", "activate")
    /\ Begins(q)
    /\ UNCHANGED <<rowVars, tskVars, reqTask, faultsLeft, stranded>>

\* set_broker_active: an error ends the request, with is_active written or not;
\* no row, no error.
SetActive(q, value, from, to) ==
    /\ \/ /\ NoFault
          /\ Goto(q, from, to)
          /\ active' = IF row = "present" THEN value ELSE active
          /\ UNCHANGED stranded
       \/ /\ Fault("unheard")
          /\ Goto(q, from, "idle")
          /\ active' = IF row = "present" THEN value ELSE active
          /\ stranded' = (stranded \/ active' # active)
       \/ /\ Fault("db")
          /\ Goto(q, from, "idle")
          /\ UNCHANGED <<active, stranded>>
    /\ UNCHANGED <<row, status, config, tskVars, reqTask, torn>>

Activate(q) == SetActive(q, TRUE, "activate", "stop_old")

\* Slip: the old connection is left in place.
KeepOld(q) ==
    /\ Goto(q, "stop_old", "spawn")
    /\ UNCHANGED <<rowVars, tskVars, reqTask, faultsLeft, history>>

StopOld(q) ==
    /\ Goto(q, "stop_old", "spawn")
    /\ ManagerStop
    /\ stranded' = FALSE
    /\ UNCHANGED <<rowVars, pc, reqTask, faultsLeft, torn>>

\* An unreadable URL spawns a task that reports it and never enters the map.
\* The request waits for a name when every one is taken (the bound Tasks).
Spawn(q, t) ==
    /\ t \in Unused
    /\ IF config = "unreadable"
       THEN Goto(q, "spawn", "idle") /\ UNCHANGED reqTask
       ELSE Goto(q, "spawn", "insert") /\ reqTask' = [reqTask EXCEPT ![q] = t]
    /\ pc' = [pc EXCEPT ![t] = FirstStep]
    /\ cancelled' = cancelled \ {t}
    /\ UNCHANGED <<rowVars, connections, faultsLeft, history>>

\* The insert drops the entry it replaces, which does not cancel its token.
Insert(q) ==
    /\ Goto(q, "insert", "idle")
    /\ connections' = reqTask[q]
    /\ reqTask' = [reqTask EXCEPT ![q] = NoTask]
    /\ UNCHANGED <<rowVars, cancelled, pc, faultsLeft, history>>

-----------------------------------------------------------------------------
(* stop_broker and delete_broker.                                          *)

GetForStop(q) ==
    /\ row = "present"
    /\ Goto(q, "idle", "deactivate")
    /\ Begins(q)
    /\ UNCHANGED <<rowVars, tskVars, reqTask, faultsLeft, stranded>>

Deactivate(q) == SetActive(q, FALSE, "deactivate", "stop")

\* Slips of the next action: the map is not asked to stop anything; the entry
\* is cancelled where it is and stays in the map.
LeaveRunning(q) ==
    /\ Goto(q, "stop", "mark")
    /\ stranded' = FALSE
    /\ UNCHANGED <<rowVars, tskVars, reqTask, faultsLeft, torn>>

CancelInPlace(q) ==
    /\ Goto(q, "stop", "mark")
    /\ cancelled' = cancelled \cup ({connections} \ {NoTask})
    /\ stranded' = FALSE
    /\ UNCHANGED <<rowVars, connections, pc, reqTask, faultsLeft, torn>>

StopCurrent(q) ==
    /\ Goto(q, "stop", "mark")
    /\ ManagerStop
    /\ stranded' = FALSE
    /\ UNCHANGED <<rowVars, pc, reqTask, faultsLeft, torn>>

MarkDisconnected(q) ==
    /\ Goto(q, "mark", "idle")
    /\ WriteStatus("disconnected")
    /\ UNCHANGED <<row, active, config, tskVars, reqTask, history>>

\* delete_broker stops first, before it knows of any row.
DeleteStop(q) ==
    /\ row # "none"
    /\ Goto(q, "idle", "delete")
    /\ ManagerStop
    /\ Begins(q)
    /\ UNCHANGED <<rowVars, pc, reqTask, faultsLeft, stranded>>

\* The DELETE names the organisation of the request: with that of the broker the
\* row goes, heard of or not.
DeleteRow(q) ==
    /\ Goto(q, "delete", "idle")
    /\ row' = "deleted"
    /\ stranded' = FALSE
    /\ UNCHANGED <<active, status, config, tskVars, reqTask, faultsLeft, torn>>

\* With another, it matches no row and succeeds; or it fails.  The row stays, and
\* the consumer is gone.
KeepRow(q) ==
    /\ Goto(q, "delete", "idle")
    /\ NoFault \/ Fault("db")
    /\ stranded' = (row = "present" /\ active)
    /\ UNCHANGED <<rowVars, tskVars, reqTask, torn>>

-----------------------------------------------------------------------------
(* The supervisor loop around run_redis_consumer or run_amqp_consumer.     *)

Step(t, from, to) ==
    /\ pc[t] = from
    /\ pc' = [pc EXCEPT ![t] = to]

\* Connecting does not look at the token.
Connect(t) ==
    /\ Step(t, "connecting", "connected")
    /\ UNCHANGED <<rowVars, connections, cancelled, reqVars, faultsLeft, history>>

ConnectFails(t) ==
    /\ Step(t, "connecting", "failed")
    /\ UNCHANGED <<rowVars, connections, cancelled, reqVars, faultsLeft, history>>

ReportConnected(t) ==
    /\ Step(t, "connected", "running")
    /\ WriteStatus("connected")
    /\ UNCHANGED <<row, active, config, connections, cancelled, reqVars, history>>

ReportFailed(t) ==
    /\ Step(t, "failed", "exited")
    /\ WriteStatus("error")
    /\ UNCHANGED <<row, active, config, connections, cancelled, reqVars, history>>

SeesCancel(t) ==
    /\ t \in cancelled
    /\ Step(t, "running", "flushing")
    /\ UNCHANGED <<rowVars, connections, cancelled, reqVars, faultsLeft, history>>

StreamCloses(t) ==
    /\ Step(t, "running", "flushing")
    /\ UNCHANGED <<rowVars, connections, cancelled, reqVars, faultsLeft, history>>

\* Slip: only a closed stream is reported, not a requested stop.
ReportUnlessCancelled(t) ==
    /\ Step(t, "flushing", "exited")
    /\ IF t \in cancelled THEN NoFault /\ UNCHANGED status ELSE WriteStatus("disconnected")
    /\ UNCHANGED <<row, active, config, connections, cancelled, reqVars, history>>

\* The last batches are ingested and the broker clients closed by then.
ReportDisconnected(t) ==
    /\ Step(t, "flushing", "exited")
    /\ WriteStatus("disconnected")
    /\ UNCHANGED <<row, active, config, connections, cancelled, reqVars, history>>

\* Slip: a consumer that exits is not restarted.
NeverRestarts(t) ==
    /\ Step(t, "exited", "over")
    /\ UNCHANGED <<rowVars, connections, cancelled, reqVars, faultsLeft, history>>

Exited(t) ==
    /\ Step(t, "exited", IF t \in cancelled THEN "over" ELSE "backoff")
    /\ UNCHANGED <<rowVars, connections, cancelled, reqVars, faultsLeft, history>>

\* The unbiased select: with the token cancelled either branch may win.
BackoffEnds(t) ==
    /\ \/ Step(t, "backoff", "connecting")
       \/ t \in cancelled /\ Step(t, "backoff", "over")
    /\ UNCHANGED <<rowVars, connections, cancelled, reqVars, faultsLeft, history>>

\* No consumer for the type, or no URL: one status write is all the task does.
Reject(t) ==
    /\ Step(t, "reject", "over")
    /\ WriteStatus("error")
    /\ UNCHANGED <<row, active, config, connections, cancelled, reqVars, history>>

-----------------------------------------------------------------------------
\* auto_start_active, before the server listens: it meets no request.
AutoStart ==
    \/ /\ row = "present" /\ active
       /\ \E t \in Tasks :
             /\ connections' = IF config = "unreadable" THEN NoTask ELSE t
             /\ pc' = [u \in Tasks |-> IF u = t THEN FirstStep ELSE "over"]
    \/ /\ ~(row = "present" /\ active)
       /\ connections' = NoTask
       /\ pc' = [u \in Tasks |-> "over"]

\* The process stops and starts again; the status stays as it was.  When the
\* active brokers cannot be listed, none is started.
Restart ==
    /\ \/ /\ Fault("restart")
          /\ AutoStart
          /\ stranded' = FALSE
       \/ /\ Fault("unlisted")
          /\ connections' = NoTask
          /\ pc' = [u \in Tasks |-> "over"]
          /\ stranded' = (row = "present" /\ active)
    /\ torn' = FALSE
    /\ reqPc' = [q \in Requests |-> "idle"]
    /\ reqTask' = [q \in Requests |-> NoTask]
    /\ cancelled' = {}
    /\ UNCHANGED rowVars

Handler(q) ==
    \/ Activate(q) \/ StopOld(q) \/ Insert(q)
    \/ \E t \in Tasks : Spawn(q, t)
    \/ Deactivate(q) \/ StopCurrent(q) \/ MarkDisconnected(q)
    \/ DeleteRow(q) \/ KeepRow(q)

Request(q) == CreateBroker(q) \/ GetForStart(q) \/ GetForStop(q) \/ DeleteStop(q)

Consumer(t) ==
    \/ Connect(t) \/ ConnectFails(t)
    \/ ReportConnected(t) \/ ReportFailed(t) \/ ReportDisconnected(t)
    \/ SeesCancel(t) \/ Exited(t) \/ BackoffEnds(t) \/ Reject(t)

Next ==
    \/ \E q \in Requests : Request(q) \/ Handler(q)
    \/ \E t \in Tasks : Consumer(t) \/ StreamCloses(t)
    \/ Restart

Spec == Init /\ [][Next]_vars

\* Requests and tasks are polled; a broker that can be tried again and again is
\* reached in the end.
FairSpec ==
    /\ Spec
    /\ \A q \in Requests : WF_vars(Handler(q))
    /\ \A t \in Tasks : WF_vars(Consumer(t)) /\ SF_vars(Connect(t))

-----------------------------------------------------------------------------
(* Properties.                                                             *)

TaskPhases == {"over", "connecting", "connected", "failed", "running",
               "flushing", "exited", "backoff", "reject"}

RequestPhases == {"idle", "activate", "stop_old", "spawn", "insert",
                  "deactivate", "stop", "mark", "delete"}

\* Every variable stays in its type, and a request holds a task exactly between
\* spawning and inserting it.  Whatever requests overlap, the entry in the map
\* and the task a request is about to insert were not told to stop: a start or
\* a stop that is over never leaves behind an entry that looks like a
\* connection and is none.
TypeOK ==
    /\ row \in {"none", "present", "deleted"}
    /\ active \in BOOLEAN
    /\ status \in {"connected", "error", "disconnected"}
    /\ config \in Outcomes
    /\ connections \in Tasks \cup {NoTask}
    /\ cancelled \subseteq Tasks
    /\ pc \in [Tasks -> TaskPhases]
    /\ reqPc \in [Requests -> RequestPhases]
    /\ reqTask \in [Requests -> Tasks \cup {NoTask}]
    /\ \A q \in Requests : reqTask[q] # NoTask <=> reqPc[q] = "insert"
    /\ faultsLeft \in 0 .. MaxFaults
    /\ torn \in BOOLEAN
    /\ stranded \in BOOLEAN
    /\ connections \notin cancelled
    /\ \A q \in Requests : reqTask[q] \notin cancelled

\* The consumers nobody asked to stop.
Live == {t \in Tasks : pc[t] \notin {"over", "reject"} /\ t \notin cancelled}

\* A broker never has two consumers that were not told to stop.
OneConsumer == Cardinality(Live) <= 1

\* While requests about a broker come one after the other, it has one live
\* consumer at most, and the next stop will reach it: through the map, or once
\* it is inserted there.
OneConsumerInTurn ==
    torn \/ /\ OneConsumer
            /\ \A t \in Live : t = connections \/ \E q \in Requests : reqTask[q] = t

NoRequest == \A q \in Requests : reqPc[q] = "idle"

\* While requests come one after the other, a broker has a consumer if and only
\* if it is active: stopped or deleted it keeps none; active, with no request
\* in progress, it has one in the map, whatever streams closed, writes failed
\* and processes restarted.  Three things part the row from the map, until the
\* next start, stop, delete or restart that gets through makes up for it: a
\* create, start or stop that ends once the row is written; a delete that stops
\* the consumer and deletes no row; a process that cannot list its brokers.
ConsumerIffActive ==
    NoRequest /\ ~torn /\ ~stranded =>
        /\ row = "deleted" \/ ~active => Live = {}
        /\ row = "present" /\ active /\ config = "runs" => connections \in Live

\* Whatever requests overlap, once every task of a broker is over its status is
\* not connected, as long as no write failed and the process kept running.
RestIsNotConnected ==
    row = "present" /\ faultsLeft = MaxFaults /\ (\A t \in Tasks : pc[t] = "over")
    => status # "connected"

\* A consumer told to stop does not go on for ever, and a broker that stays
\* active, with its requests one after the other and its row and map not parted
\* for good, is consumed from again and again.
ConsumersStopAndServe ==
    /\ \A t \in Tasks : []<>(t \in cancelled => pc[t] = "over")
    /\ <>[](row = "present" /\ active /\ config = "runs" /\ ~torn /\ ~stranded)
       => []<>(\E t \in Tasks : pc[t] = "running")

=============================================================================
