------------------------------ MODULE LiveFeed ------------------------------
(***************************************************************************)
(* A dashboard's WebSocket (api/src/ws/handler.rs) on the broadcast channel *)
(* that the consumers of Ingest and the alert evaluator send to.           *)
(*                                                                         *)
(* The socket is one task that waits for the first of three: a message of  *)
(* the client, an event of the channel, the flush timer.  Whatever it does *)
(* then, it finishes before it waits again, so each branch is one step;    *)
(* a send that fails ends the socket, and Drop is that.  The channel keeps *)
(* the last ChannelCap events; who falls further behind is told so and     *)
(* goes on with the oldest one kept.                                       *)
(***************************************************************************)
EXTENDS Ingest

CONSTANTS
    Home,            \* the tenant of the socket's access token
    Topics,          \* what the client may subscribe to
    ChannelCap,      \* capacity of the broadcast channel
    TASK_LATEST_CAP,
    MaxAlerts,       \* bound: alerts broadcast in a behaviour
    MaxCommands      \* bound: commands the client sends

DefaultTopics == {[on |-> "tasks"], [on |-> "workers"], [on |-> "alerts"]}

ASSUME LiveFeedAssumption ==
    /\ Home \in Tenants
    /\ Topics \subseteq ({[on |-> "tasks"], [on |-> "workers"], [on |-> "alerts"]}
                         \cup [on : {"task"}, id : Tasks]
                         \cup [on : {"taskType"}, name : Tasks]
                         \cup [on : {"worker"}, id : Workers])
    /\ ChannelCap \in Nat \ {0} /\ TASK_LATEST_CAP \in Nat \ {0}
    /\ MaxAlerts \in Nat /\ MaxCommands \in Nat

VARIABLES
    open,            \* the socket is open
    pos,             \* the events of the channel it has taken or skipped
    subscriptions,
    task_count, task_latest, other_batch,
    alerts, commands,   \* counted against their bounds
    eventFrames, taskFrames,    \* history: the messages the client was sent, of
                                \* each kind in order
    othersWanted, tasksWanted   \* history: the events it should have been sent

history == <<eventFrames, taskFrames, othersWanted, tasksWanted>>
feedVars == <<open, pos, subscriptions, task_count, task_latest, other_batch,
              alerts, commands, history>>
vars == <<ingestVars, feedVars>>

FeedInit ==
    /\ Init
    /\ open = TRUE
    /\ pos = 0
    /\ subscriptions = DefaultTopics
    /\ task_count = 0 /\ task_latest = <<>> /\ other_batch = <<>>
    /\ alerts = 0 /\ commands = 0
    /\ eventFrames = <<>> /\ taskFrames = <<>>
    /\ othersWanted = <<>> /\ tasksWanted = <<>>

\* run_alert_evaluation broadcasts the incidents it opens and closes.
AlertSent(n) ==
    /\ alerts < MaxAlerts
    /\ alerts' = alerts + 1
    /\ sent' = Append(sent, [tenant |-> n, kind |-> "alert", id |-> n, name |-> NoName])
    /\ UNCHANGED <<batch, job, names, live, rows, told, word, received, faultsLeft>>
    /\ UNCHANGED <<open, pos, subscriptions, task_count, task_latest, other_batch,
                   commands, history>>

-----------------------------------------------------------------------------
(* The three branches.                                                     *)

Subscribe ==
    /\ open /\ commands < MaxCommands
    /\ \E t \in Topics : subscriptions' = subscriptions \cup {t}
    /\ commands' = commands + 1
    /\ UNCHANGED <<ingestVars, open, pos, task_count, task_latest, other_batch,
                   alerts, history>>

Unsubscribe ==
    /\ open /\ commands < MaxCommands
    /\ \E t \in Topics : subscriptions' = subscriptions \ {t}
    /\ commands' = commands + 1
    /\ UNCHANGED <<ingestVars, open, pos, task_count, task_latest, other_batch,
                   alerts, history>>

\* matches_any_subscription.  Queue topics work like those of a task; beat and
\* metrics events are never broadcast.
Matches(e, t) ==
    \/ e.kind = "task" /\ t.on = "tasks"
    \/ e.kind = "task" /\ t.on = "task" /\ t.id = e.id
    \/ e.kind = "task" /\ t.on = "taskType" /\ t.name = e.name
    \/ e.kind = "worker" /\ t.on = "workers"
    \/ e.kind = "worker" /\ t.on = "worker" /\ t.id = e.id
    \/ e.kind = "alert" /\ t.on = "alerts"

Wanted(e) == e.tenant = Home /\ \E t \in subscriptions : Matches(e, t)

Kept(q, e) == Append(IF Len(q) >= TASK_LATEST_CAP THEN Tail(q) ELSE q, e)

Lagging == Len(sent) - pos > ChannelCap

\* recv, an event.
Recv ==
    LET e == sent[pos + 1] IN
    /\ open /\ pos < Len(sent) /\ ~Lagging
    /\ pos' = pos + 1
    /\ IF ~Wanted(e) THEN UNCHANGED <<task_count, task_latest, other_batch>>
       ELSE IF e.kind = "task"
       THEN /\ task_count' = task_count + 1
            /\ task_latest' = Kept(task_latest, e)
            /\ UNCHANGED other_batch
       ELSE /\ other_batch' = Append(other_batch, e)
            /\ UNCHANGED <<task_count, task_latest>>
    /\ tasksWanted' = IF Wanted(e) /\ e.kind = "task" THEN Append(tasksWanted, e) ELSE tasksWanted
    /\ othersWanted' = IF Wanted(e) /\ e.kind # "task" THEN Append(othersWanted, e) ELSE othersWanted
    /\ UNCHANGED <<ingestVars, open, subscriptions, alerts, commands, eventFrames, taskFrames>>

\* recv, RecvError::Lagged: what the client missed is logged, not told.
RecvLagged ==
    /\ open /\ Lagging
    /\ pos' = Len(sent) - ChannelCap
    /\ UNCHANGED <<ingestVars, open, subscriptions, task_count, task_latest, other_batch,
                   alerts, commands, history>>

TaskBatchUpdate == [count |-> task_count, latest |-> task_latest]

\* How many tasks the first i batches announced.
Announced(i) == IF i = 0 THEN 0 ELSE taskFrames[i].upto

\* The single events go out first, then the tasks in one message that has
\* their number and the last few of them; upto is history, the sum of the
\* numbers so far.
SendGathered ==
    /\ eventFrames' = eventFrames \o other_batch
    /\ taskFrames' = IF task_count = 0 THEN taskFrames
                     ELSE Append(taskFrames, [message |-> TaskBatchUpdate,
                                              upto |-> Announced(Len(taskFrames)) + task_count])
    /\ task_latest' = <<>> /\ other_batch' = <<>>
    /\ UNCHANGED <<ingestVars, open, pos, subscriptions, alerts, commands,
                   othersWanted, tasksWanted>>

\* Slips: the count of one batch is carried into the next; alerts wait for a
\* task.
FlushKeepingCount ==
    /\ open
    /\ task_count # 0 \/ other_batch # <<>>
    /\ SendGathered
    /\ UNCHANGED task_count

FlushTasksOnly ==
    /\ open
    /\ task_count # 0
    /\ SendGathered
    /\ task_count' = 0

\* The timer, every second.
Flush ==
    /\ open
    /\ task_count # 0 \/ other_batch # <<>>
    /\ SendGathered
    /\ task_count' = 0

\* The client closes, or a send fails: what was gathered is gone.
Drop ==
    /\ open
    /\ open' = FALSE
    /\ UNCHANGED <<ingestVars, pos, subscriptions, task_count, task_latest, other_batch,
                   alerts, commands, history>>

Next ==
    \/ IngestNext /\ UNCHANGED feedVars
    \/ \E n \in Tenants : AlertSent(n)
    \/ Subscribe \/ Unsubscribe \/ Recv \/ RecvLagged \/ Flush \/ Drop

\* The timer comes up again and again, and select! picks it in the end.
Spec == FeedInit /\ [][Next]_vars /\ WF_vars(Flush)

-----------------------------------------------------------------------------
(* Properties.                                                             *)

\* The last few of the tasks number a + 1 to b.
LastOf(a, b) ==
    LET first == IF b - a > TASK_LATEST_CAP THEN b - TASK_LATEST_CAP ELSE a
    IN  SubSeq(tasksWanted, first + 1, b)

\* What the client was sent and what is still gathered add up to the wanted
\* events of its tenant, each counted once, through flushes, changes of the
\* subscriptions and lags: the counts to the tasks, every batch with the last
\* of its own tasks, and the other events one by one in order.  Of the events a
\* batch holds for a worker, the newest is the one broadcast.
FeedAddsUp ==
    /\ Announced(Len(taskFrames)) + task_count = Len(tasksWanted)
    /\ \A i \in DOMAIN taskFrames :
          taskFrames[i].message = [count |-> Announced(i) - Announced(i - 1),
                                   latest |-> LastOf(Announced(i - 1), Announced(i))]
    /\ task_latest = LastOf(Announced(Len(taskFrames)), Len(tasksWanted))
    /\ eventFrames \o other_batch = othersWanted
    /\ \A i \in DOMAIN tasksWanted : tasksWanted[i].tenant = Home
    /\ \A i \in DOMAIN othersWanted : othersWanted[i].tenant = Home
    /\ LatestIsNewest

\* An event the socket gathered is sent within one of the next flushes, alone
\* or with others, unless the socket closes.
FeedFlushes ==
    (task_count # 0 \/ other_batch # <<>>)
        ~> (~open \/ (task_count = 0 /\ other_batch = <<>>))

=============================================================================
