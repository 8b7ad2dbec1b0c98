----------------------------- MODULE RetryBuffer -----------------------------
(***************************************************************************)
(* How event batches reach ClickHouse (api/src/broker_conn/pipeline.rs)    *)
(* and the Redis list that holds them through an outage (the retry queues  *)
(* of db/src/redis/cache.rs, drained by drain_retry_queue of main.rs).     *)
(*                                                                         *)
(* The consumer of a broker inserts its batches one after the other, tries *)
(* each twice, and otherwise pushes it at the head of the list and, with a *)
(* second command, trims the tail.  Every ten seconds the drain pops       *)
(* batches from the tail, replays them in one insert, and puts them back   *)
(* at the head when that fails.  Between any two of these calls, and of    *)
(* the commands a call sends, the other side may act, ClickHouse may fail  *)
(* or recover, and the process may stop.                                   *)
(*                                                                         *)
(* A batch counts as one: the counters of the code count its events.  Task *)
(* and worker batches have a list each and share nothing, so one list is   *)
(* modelled.                                                               *)
(***************************************************************************)
EXTENDS Integers, Sequences, FiniteSets, SequencesExt

CONSTANTS
    Batches,         \* the batches the brokers will ever send
    Earlier,         \* the batches the broker of a batch sends before it
    MaxQueueLen,     \* MAX_RETRY_QUEUE_LEN
    DrainPerCycle,   \* RETRY_DRAIN_PER_CYCLE
    Faults,          \* the kinds of failure the instance lets happen
    MaxFaults        \* bound: how many failures happen in one behaviour

\* lost_reply: ClickHouse keeps the rows and the client gets an error; push,
\* trim, requeue, count: Redis does not carry out the LPUSH, the LTRIM, the
\* LPUSH of the drain, the increment of a counter; push_reply, pop_reply: Redis
\* obeys and the client gets an error; unreadable: a buffered batch no longer
\* parses; restart: the process stops.
FaultKinds == {"lost_reply", "push", "trim", "push_reply", "pop_reply", "requeue",
               "count", "unreadable", "restart"}

ASSUME BufferAssumption ==
    /\ Earlier \in [Batches -> SUBSET Batches]
    /\ MaxQueueLen \in Nat \ {0}
    /\ DrainPerCycle \in Nat \ {0}
    /\ Faults \subseteq FaultKinds
    /\ MaxFaults \in Nat

VARIABLES
    stage,      \* where ingestion is with a batch
    chUp,       \* ClickHouse takes inserts
    stored,     \* copies of a batch in ClickHouse
    buffer,     \* the Redis list, head first
    drPc,       \* the drain: idle, or what it does next
    hand,       \* the batches it popped, oldest pop first
    inserted,   \* times a batch was counted in events_inserted
    dropped,    \* times a batch was counted in events_dropped
    faultsLeft

\* History variables.
VARIABLES
    unanswered, \* inserts of a batch that succeeded and reported an error
    unheard,    \* batches whose push succeeded and reported an error
    untrimmed,  \* batches pushed and never followed by their LTRIM, or a later one
    lost        \* batches gone from the list, or from the drain, uncounted

drVars  == <<drPc, hand>>
counts  == <<inserted, dropped>>
ghosts  == <<unanswered, unheard, untrimmed, lost>>
vars    == <<stage, chUp, stored, buffer, drVars, counts, faultsLeft, ghosts>>

\* Between two calls of its consumer a batch is about to be inserted, pushed,
\* followed by a trim, or counted as dropped or as inserted.
Ingesting(b) == stage[b] \in {"first", "second", "push", "trim", "drop", "count"}

Stages == {"waiting", "first", "second", "push", "trim", "drop", "count", "done", "stopped"}

Init ==
    /\ stage = [b \in Batches |-> "waiting"]
    /\ chUp = TRUE
    /\ stored = [b \in Batches |-> 0]
    /\ buffer = <<>>
    /\ drPc = "idle"
    /\ hand = <<>>
    /\ inserted = [b \in Batches |-> 0]
    /\ dropped = [b \in Batches |-> 0]
    /\ faultsLeft = MaxFaults
    /\ unanswered = [b \in Batches |-> 0]
    /\ unheard = {}
    /\ untrimmed = {}
    /\ lost = {}

Fault(kind) ==
    /\ kind \in Faults
    /\ faultsLeft > 0
    /\ faultsLeft' = faultsLeft - 1

NoFault == faultsLeft' = faultsLeft

\* f with one more for every batch of S.
OneMore(f, S) == [b \in Batches |-> IF b \in S THEN f[b] + 1 ELSE f[b]]

\* One insert of the batches of S: insert_task_events, insert_worker_events.
InsertOk(S) ==
    /\ chUp
    /\ stored' = OneMore(stored, S)
    /\ NoFault
    /\ UNCHANGED unanswered

InsertFails(S) ==
    \/ /\ ~chUp
       /\ NoFault
       /\ UNCHANGED <<stored, unanswered>>
    \/ /\ chUp
       /\ Fault("lost_reply")
       /\ stored' = OneMore(stored, S)
       /\ unanswered' = OneMore(unanswered, S)

\* Slip: the list is never trimmed.
TrimNothing(list) == list

Trim(list) == SubSeq(list, 1, IF Len(list) < MaxQueueLen THEN Len(list) ELSE MaxQueueLen)

\* LTRIM.  Nobody counts what it removes.
TrimBuffer ==
    /\ buffer' = Trim(buffer)
    /\ untrimmed' = {}
    /\ lost' = lost \cup (ToSet(buffer) \ ToSet(buffer'))

\* Slip: the last batch is left in the list.
PopCountShort == IF Len(buffer) > DrainPerCycle THEN DrainPerCycle ELSE Len(buffer) - 1

\* RPOP takes up to DrainPerCycle batches,
PopCount == IF Len(buffer) < DrainPerCycle THEN Len(buffer) ELSE DrainPerCycle

\* those at the tail, the tail first,
Popped == Reverse(SubSeq(buffer, Len(buffer) - PopCount + 1, Len(buffer)))

\* Slip: they are read and not removed.
RemainingAll == buffer

\* and leaves the others.
Remaining == SubSeq(buffer, 1, Len(buffer) - PopCount)

\* requeue_retry_batches: LPUSH of one batch after the other, no trim.
Requeued == Reverse(hand) \o buffer

-----------------------------------------------------------------------------
(* ingest_raw_task_events and the storing half of its worker twin.         *)

Receive(b) ==
    /\ stage[b] = "waiting"
    /\ \A o \in Earlier[b] : stage[o] \in {"done", "stopped"}
    /\ stage' = [stage EXCEPT ![b] = "first"]
    /\ UNCHANGED <<chUp, stored, buffer, drVars, counts, faultsLeft, ghosts>>

\* An attempt of insert_with_retry that succeeds.
Insert(b) ==
    /\ stage[b] \in {"first", "second"}
    /\ InsertOk({b})
    /\ stage' = [stage EXCEPT ![b] = "count"]
    /\ UNCHANGED <<chUp, buffer, drVars, counts, unheard, untrimmed, lost>>

\* One that fails: a second attempt follows the first, the buffer the second.
InsertError(b) ==
    /\ stage[b] \in {"first", "second"}
    /\ InsertFails({b})
    /\ stage' = [stage EXCEPT ![b] = IF @ = "first" THEN "second" ELSE "push"]
    /\ UNCHANGED <<chUp, buffer, drVars, counts, unheard, untrimmed, lost>>

\* Slip: a push that fails goes unnoticed.
PushUnnoticed(b) ==
    /\ stage[b] = "push"
    /\ \/ NoFault /\ buffer' = <<b>> \o buffer /\ UNCHANGED <<untrimmed, lost>>
       \/ Fault("push") /\ UNCHANGED <<buffer, untrimmed, lost>>
    /\ stage' = [stage EXCEPT ![b] = IF faultsLeft' = faultsLeft THEN "trim" ELSE "done"]
    /\ UNCHANGED <<chUp, stored, drVars, counts, unanswered, unheard>>

\* push_retry_batch sends LPUSH and LTRIM without a transaction.  When the LPUSH
\* is refused the LTRIM may be carried out still.
Push(b) ==
    /\ stage[b] = "push"
    /\ \/ /\ NoFault
          /\ buffer' = <<b>> \o buffer
          /\ stage' = [stage EXCEPT ![b] = "trim"]
          /\ UNCHANGED <<untrimmed, lost>>
       \/ /\ Fault("push")
          /\ TrimBuffer \/ UNCHANGED <<buffer, untrimmed, lost>>
          /\ stage' = [stage EXCEPT ![b] = "drop"]
    /\ UNCHANGED <<chUp, stored, drVars, counts, unanswered, unheard>>

\* The LTRIM; an error of it, or of the connection, is the error of the push.
TrimAfterPush(b) ==
    /\ stage[b] = "trim"
    /\ \/ /\ NoFault
          /\ TrimBuffer
          /\ stage' = [stage EXCEPT ![b] = "done"]
          /\ UNCHANGED unheard
       \/ /\ \/ Fault("push_reply") /\ TrimBuffer
             \/ Fault("trim") /\ untrimmed' = untrimmed \cup {b} /\ UNCHANGED <<buffer, lost>>
          /\ unheard' = unheard \cup {b}
          /\ stage' = [stage EXCEPT ![b] = "drop"]
    /\ UNCHANGED <<chUp, stored, drVars, counts, unanswered>>

\* buffer_for_retry counts what it could not push.  An increment that fails is
\* ignored, like every other one.
CountDropped(b) ==
    /\ stage[b] = "drop"
    /\ \/ NoFault /\ dropped' = OneMore(dropped, {b}) /\ UNCHANGED lost
       \/ /\ Fault("count")
          /\ lost' = IF b \in unheard THEN lost ELSE lost \cup {b}
          /\ UNCHANGED dropped
    /\ stage' = [stage EXCEPT ![b] = "done"]
    /\ UNCHANGED <<chUp, stored, buffer, drVars, inserted, unanswered, unheard, untrimmed>>

CountInserted(b) ==
    /\ stage[b] = "count"
    /\ \/ NoFault /\ inserted' = OneMore(inserted, {b})
       \/ Fault("count") /\ UNCHANGED inserted
    /\ stage' = [stage EXCEPT ![b] = "done"]
    /\ UNCHANGED <<chUp, stored, buffer, drVars, dropped, ghosts>>

-----------------------------------------------------------------------------
(* drain_retry_queue.                                                      *)

PopBatches ==
    /\ drPc = "idle"
    /\ PopCount > 0
    /\ buffer' = Remaining
    /\ \/ NoFault /\ hand' = Popped /\ drPc' = "insert" /\ UNCHANGED lost
       \/ /\ Fault("pop_reply")
          /\ lost' = lost \cup ToSet(Popped)
          /\ UNCHANGED drVars
    /\ UNCHANGED <<stage, chUp, stored, counts, unanswered, unheard, untrimmed>>

\* One of the batches popped does not parse;
Unreadable ==
    /\ drPc = "insert"
    /\ Fault("unreadable")
    /\ drPc' = "discard"
    /\ UNCHANGED <<stage, chUp, stored, buffer, hand, counts, ghosts>>

\* it is counted as dropped and forgotten.
Discard ==
    /\ drPc = "discard"
    /\ \E bad \in DOMAIN hand :
          /\ hand' = RemoveAt(hand, bad)
          /\ \/ NoFault /\ dropped' = OneMore(dropped, {hand[bad]}) /\ UNCHANGED lost
             \/ Fault("count") /\ lost' = lost \cup {hand[bad]} /\ UNCHANGED dropped
    /\ drPc' = IF hand' = <<>> THEN "idle" ELSE "insert"
    /\ UNCHANGED <<stage, chUp, stored, buffer, inserted, unanswered, unheard, untrimmed>>

\* Everything that parses goes into one insert.
Replay ==
    /\ drPc = "insert"
    /\ \/ InsertOk(ToSet(hand)) /\ drPc' = "count"
       \/ InsertFails(ToSet(hand)) /\ drPc' = "requeue"
    /\ UNCHANGED <<stage, chUp, buffer, hand, counts, unheard, untrimmed, lost>>

CountReplayed ==
    /\ drPc = "count"
    /\ \/ NoFault /\ inserted' = OneMore(inserted, ToSet(hand))
       \/ Fault("count") /\ UNCHANGED inserted
    /\ drPc' = "idle"
    /\ hand' = <<>>
    /\ UNCHANGED <<stage, chUp, stored, buffer, dropped, ghosts>>

\* A failing LPUSH is ignored: the batches are gone.
Requeue ==
    /\ drPc = "requeue"
    /\ \/ NoFault /\ buffer' = Requeued /\ UNCHANGED lost
       \/ Fault("requeue") /\ lost' = lost \cup ToSet(hand) /\ UNCHANGED buffer
    /\ drPc' = "idle"
    /\ hand' = <<>>
    /\ UNCHANGED <<stage, chUp, stored, counts, unanswered, unheard, untrimmed>>

-----------------------------------------------------------------------------
Outage ==
    /\ chUp' = ~chUp
    /\ UNCHANGED <<stage, stored, buffer, drVars, counts, faultsLeft, ghosts>>

\* Redis and ClickHouse keep what they have, the process nothing.
Restart ==
    /\ Fault("restart")
    /\ stage' = [b \in Batches |-> IF Ingesting(b) THEN "stopped" ELSE stage[b]]
    /\ untrimmed' = untrimmed \cup {b \in Batches : stage[b] = "trim"}
    /\ drPc' = "idle"
    /\ hand' = <<>>
    /\ lost' = lost \cup ToSet(hand)
    /\ UNCHANGED <<chUp, stored, buffer, counts, unanswered, unheard>>

Ingest(b) ==
    \/ Insert(b) \/ InsertError(b) \/ CountInserted(b)
    \/ Push(b) \/ TrimAfterPush(b) \/ CountDropped(b)

Drain == PopBatches \/ Unreadable \/ Discard \/ Replay \/ CountReplayed \/ Requeue

Next ==
    \/ \E b \in Batches : Receive(b) \/ Ingest(b)
    \/ Drain
    \/ Outage
    \/ Restart

Spec == Init /\ [][Next]_vars

\* The drain's task and the consumers' tasks keep being polled.
FairSpec == Spec /\ WF_vars(Drain) /\ \A b \in Batches : WF_vars(Ingest(b))

-----------------------------------------------------------------------------
(* Properties.                                                             *)

\* The batches pushed whose trim is still to come, or never came.
Untrimmed == {b \in Batches : stage[b] = "trim"} \cup untrimmed

\* Every variable stays in its type, the drain holds batches exactly while it
\* is at work on them, and the list is bounded: all that may exceed its length
\* is what the drain puts back untrimmed, and one batch for each push whose
\* trim is under way or failed.
TypeOK ==
    /\ stage \in [Batches -> Stages]
    /\ chUp \in BOOLEAN
    /\ stored \in [Batches -> Nat]
    /\ buffer \in Seq(Batches)
    /\ drPc \in {"idle", "insert", "discard", "count", "requeue"}
    /\ hand \in Seq(Batches)
    /\ (hand = <<>>) <=> (drPc = "idle")
    /\ inserted \in [Batches -> Nat]
    /\ dropped \in [Batches -> Nat]
    /\ faultsLeft \in 0 .. MaxFaults
    /\ unanswered \in [Batches -> Nat]
    /\ unheard \subseteq Batches
    /\ untrimmed \subseteq Batches
    /\ lost \subseteq Batches
    /\ Len(buffer) + Len(hand) <= MaxQueueLen + DrainPerCycle + Cardinality(Untrimmed)

\* ClickHouse has a batch at most once, and once more for each insert that
\* succeeded without the client hearing of it.
StoredOnce == \A b \in Batches : stored[b] <= 1 + unanswered[b]

\* The success and drop rates of the system page: a batch is counted as inserted
\* or as dropped once at most, and only after it was received, but that a push
\* that took place and reported an error counts it twice, dropped then and
\* inserted when it is replayed.  And a batch whose ingestion ended is in
\* ClickHouse, waits for its replay, or is counted as dropped, but for those
\* trimmed off a full list, popped without an answer, refused when put back, in
\* the drain's hands at a restart, or dropped while Redis refused the count.
EveryBatchAccounted ==
    /\ \A b \in Batches :
          inserted[b] + dropped[b] <= (IF stage[b] = "waiting" THEN 0 ELSE 1)
                                      + (IF b \in unheard THEN 1 ELSE 0)
    /\ \A b \in Batches \ lost :
          stage[b] = "done"
          => stored[b] > 0 \/ dropped[b] > 0 \/ b \in ToSet(buffer) \cup ToSet(hand)

\* When ClickHouse stays up, every buffered batch leaves the list for good.
BufferDrains == <>[]chUp => <>[](buffer = <<>> /\ hand = <<>>)

=============================================================================
