----------------------------- MODULE MC_LiveFeed -----------------------------
(* Small instances of LiveFeed for TLC.                                    *)
EXTENDS LiveFeed

CONSTANTS acme, globex, c1, c2, t1, w1

MCTenantOf == [c \in Consumers |-> acme]

Task(t, name) == [kind |-> "task", task |-> t, name |-> name]
Beat(type, at) == [kind |-> "worker", worker |-> w1, type |-> type, at |-> at]

\* A task's events with and without its name, a message with a part that does
\* not parse, and a worker's events in and out of order.
MCMessages ==
    { <<Task(t1, t1)>>, <<Task(t1, NoName)>>,
      <<Task(t1, NoName), [kind |-> "junk"], Task(t1, t1)>>,
      <<Beat("offline", 2), Beat("heartbeat", 1)>>,
      <<Beat("heartbeat", 2)>> }

MCTopics == {[on |-> "taskType", name |-> t1], [on |-> "tasks"]}

=============================================================================
