------------------------ MODULE DeliveryRetryProofs ------------------------
(***************************************************************************)
(* Theorems about DeliveryRetry: how often a delivery is sent, and what    *)
(* becomes of the retries of those that failed.                            *)
(***************************************************************************)
EXTENDS DeliveryRetry, FiniteSetTheorems, TLAPS

\* Every job there is, waiting or just sent.
Jobs == queue \cup drBatch \cup adding["evaluator"] \cup adding["drain"] \cup drJob

For(j, i, c) == j.incident = i /\ j.channel = c

\* A job is in one place, but that the drain's batch is queued until it is
\* removed.
Placed ==
    /\ drPc = "idle" => drBatch = {}
    /\ drPc = "remove" => drBatch \subseteq due
    /\ drPc # "remove" => queue \cap drBatch = {}
    /\ adding["evaluator"] \cap (queue \cup drBatch \cup adding["drain"] \cup drJob) = {}
    /\ adding["drain"] \cap (queue \cup drBatch \cup drJob) = {}
    /\ drJob \cap (queue \cup drBatch) = {}
    /\ drJob # {} => drPc \in {"log", "schedule"}
    /\ \A j, k \in drJob : j = k
    /\ adding["drain"] # {} => drPc = "add"
    /\ adding["evaluator"] # {} => evPc = "schedule"

\* A delivery has one job at most, which knows how many sends came before it;
\* the job just sent counts its own.
Counted ==
    /\ \A j, k \in Jobs : For(j, k.incident, k.channel) => j = k
    /\ \A j \in Jobs : tries[j.incident][j.channel]
                       = IF j \in drJob THEN j.attempt ELSE j.attempt - 1

\* The evaluator is at work on an incident of its own: what it has not sent yet
\* was never sent, and what it has not queued yet has no job.
Opening ==
    /\ evPc # "idle" => evInc \in Incidents
    /\ evPc = "send" =>
          /\ row[evInc] \in {"opening", "deleted"}
          /\ \A c \in Channels : tries[evInc][c] = IF c \in evTodo THEN 0 ELSE 1
          /\ \A j \in Jobs : j.incident # evInc
    /\ evPc = "schedule" =>
          /\ row[evInc] \in {"recorded", "deleted"}
          /\ \A c \in evTodo : /\ tries[evInc][c] = 1
                               /\ \A j \in Jobs : ~For(j, evInc, c)

\* An incident not opened yet was never sent.
Untouched ==
    \A i \in Incidents : row[i] = "none" =>
        /\ \A c \in Channels : tries[i][c] = 0
        /\ \A j \in Jobs : j.incident # i

\* A task between its ZCARD and its ZADD has a place in the queue.
Capped ==
    /\ IsFiniteSet(queue)
    /\ \A t \in Tasks : adding[t] = {} \/ \E j \in Job : adding[t] = {j}
    /\ Cardinality(queue) + (IF adding["evaluator"] = {} THEN 0 ELSE 1)
                          + (IF adding["drain"] = {} THEN 0 ELSE 1) <= MaxRetryLen + 1

\* No delivery is sent more often than it may be.
Budget == \A i \in Incidents, c \in Channels : tries[i][c] <= MAX_DELIVERY_ATTEMPTS

\* What the last send of a delivery reports was reported by the provider.
Honest == \A i \in Incidents, c \in Channels : last[i][c] = "accepted" => <<i, c>> \in received

Types ==
    /\ row \in [Incidents -> {"none", "opening", "recorded", "half_recorded",
                            "unrecorded", "deleted"}]
    /\ queue \subseteq Job
    /\ due \subseteq queue
    /\ evPc \in {"idle", "send", "schedule"}
    /\ evInc \in Incidents \cup {NoIncident}
    /\ evTodo \subseteq Channels
    /\ drPc \in {"idle", "remove", "jobs", "log", "schedule", "add"}
    /\ drBatch \subseteq Job
    /\ drJob \subseteq Job
    /\ adding \in [Tasks -> SUBSET Job]
    /\ faultsLeft \in 0 .. MaxFaults
    /\ tries \in [Incidents -> [Channels -> Nat]]
    /\ last \in [Incidents -> [Channels -> Responses \cup {"none"}]]
    /\ received \subseteq Deliveries
    /\ dropped \subseteq Deliveries

IInv == /\ Types /\ Placed /\ Counted /\ Opening /\ Untouched /\ Capped /\ Budget /\ Honest
        /\ RetryNotForgotten

-----------------------------------------------------------------------------
(* Operators.                                                              *)

\* A sender reports success of what the provider accepted, and of nothing else.
LEMMA SuccessIsAccepted ==
    ASSUME NEW i, NEW c
    PROVE  /\ Result(i, c).success = (last[i][c] = "accepted")
           /\ IsRetryable(Result(i, c)) => ~Result(i, c).success
           /\ LogEntry(Result(i, c)) \in {"ok", "failed"}
           /\ LogEntry(Result(i, c)) = "ok" <=> last[i][c] = "accepted"
<1> DEFINE resp == last[i][c]
           res  == DeliverChannel(Kind[c], resp)
<1>1. res.success = (resp = "accepted")
  <2>1. \A k : Ok(k).success /\ ~Err(k).success
    BY DEF Ok, Err
  <2>2. CASE resp = "accepted"
    BY <2>1, <2>2 DEF DeliverChannel, SendDiscord, SendSlackBot, SendPlain
  <2>3. CASE resp # "accepted"
    <3>1. ~SendDiscord(resp).success /\ ~SendPlain(resp).success /\ ~Err(NoStatus).success
      BY <2>1, <2>3 DEF SendDiscord, SendPlain
    <3>2. ~SendSlackBot(resp).success
      BY <2>1, <2>3 DEF SendSlackBot
    <3>3. \/ res = Err(NoStatus) \/ res = SendDiscord(resp)
          \/ res = SendSlackBot(resp) \/ res = SendPlain(resp)
      BY DEF DeliverChannel
    <3>4. ~res.success
      BY <3>1, <3>2, <3>3
    <3>5. res.success \in BOOLEAN
      BY <3>3 DEF DeliverChannel, SendDiscord, SendSlackBot, SendPlain, Ok, Err
    <3> QED
      BY <2>3, <3>4, <3>5
  <2> QED
    BY <2>2, <2>3
<1>2. Result(i, c) = res
  BY DEF Result
<1> HIDE DEF res, resp
<1> QED
  BY <1>1, <1>2 DEF IsRetryable, LogEntry, resp

\* A send counts for its delivery and for no other.
LEMMA Sending ==
    ASSUME Types, Honest, NEW i \in Incidents, NEW c \in Channels, NEW resp \in Answers,
           Send(i, c, resp)
    PROVE  /\ tries' \in [Incidents -> [Channels -> Nat]]
           /\ last' \in [Incidents -> [Channels -> Responses \cup {"none"}]]
           /\ received' \subseteq Deliveries /\ received \subseteq received'
           /\ tries'[i][c] = tries[i][c] + 1
           /\ \A k \in Incidents, d \in Channels :
                 k # i \/ d # c => tries'[k][d] = tries[k][d] /\ last'[k][d] = last[k][d]
           /\ Honest'
<1>1. /\ tries \in [Incidents -> [Channels -> Nat]]
      /\ last \in [Incidents -> [Channels -> Responses \cup {"none"}]]
      /\ received \subseteq Deliveries /\ resp \in Responses
  BY DeliveryAssumption DEF Types
<1>2. /\ tries' = [tries EXCEPT ![i][c] = @ + 1]
      /\ last' = [last EXCEPT ![i][c] = resp]
      /\ received' = IF resp = "accepted" THEN received \cup {<<i, c>>} ELSE received
  BY DEF Send
<1>3. /\ tries' \in [Incidents -> [Channels -> Nat]]
      /\ tries'[i][c] = tries[i][c] + 1
      /\ \A k \in Incidents, d \in Channels : k # i \/ d # c => tries'[k][d] = tries[k][d]
  BY <1>1, <1>2
<1>4. /\ last' \in [Incidents -> [Channels -> Responses \cup {"none"}]]
      /\ last'[i][c] = resp
      /\ \A k \in Incidents, d \in Channels : k # i \/ d # c => last'[k][d] = last[k][d]
  BY <1>1, <1>2
<1>5. /\ received' \subseteq Deliveries /\ received \subseteq received'
      /\ resp = "accepted" => <<i, c>> \in received'
  BY <1>1, <1>2 DEF Deliveries
<1>6. Honest'
  <2> SUFFICES ASSUME NEW k \in Incidents, NEW d \in Channels, last'[k][d] = "accepted"
               PROVE  <<k, d>> \in received'
    BY DEF Honest
  <2>1. CASE k = i /\ d = c
    BY <1>4, <1>5, <2>1
  <2>2. CASE k # i \/ d # c
    BY <1>4, <1>5, <2>2 DEF Honest
  <2> QED
    BY <2>1, <2>2
<1> QED
  BY <1>3, <1>4, <1>5, <1>6

LEMMA FaultsBounded ==
    ASSUME Types, NoFault \/ \E kind \in FaultKinds : Fault(kind)
    PROVE  faultsLeft' \in 0 .. MaxFaults
  BY DeliveryAssumption DEF Types, NoFault, Fault

LEMMA JobFields ==
    ASSUME NEW j \in Job
    PROVE  /\ j.incident \in Incidents /\ j.channel \in Channels
           /\ j.attempt \in 2 .. MAX_DELIVERY_ATTEMPTS /\ j.attempt \in Nat
           /\ Delivery(j) \in Deliveries
           /\ \A i \in Incidents, c \in Channels : Delivery(j) = <<i, c>> <=> For(j, i, c)
  BY DEF Job, Delivery, Deliveries, For, MAX_DELIVERY_ATTEMPTS

LEMMA JobsAreJobs ==
    ASSUME Types
    PROVE  /\ Jobs \subseteq Job
           /\ adding["evaluator"] \subseteq Job /\ adding["drain"] \subseteq Job
           /\ "evaluator" \in Tasks /\ "drain" \in Tasks
           /\ UNION {adding[t] : t \in Tasks} = adding["evaluator"] \cup adding["drain"]
<1>1. "evaluator" \in Tasks /\ "drain" \in Tasks
  BY DEF Tasks
<1>2. adding["evaluator"] \subseteq Job /\ adding["drain"] \subseteq Job
  BY <1>1 DEF Types
<1>3. {adding[t] : t \in Tasks} = {adding["evaluator"], adding["drain"]}
  BY DEF Tasks
<1> QED
  BY <1>1, <1>2, <1>3 DEF Types, Jobs

\* A retry is in flight when there is a job for it, or the evaluator is about
\* to make one.
WaitsOrIsDue ==
    \A i \in Incidents, c \in Channels :
        InFlight(i, c) <=> \/ \E j \in Jobs : For(j, i, c)
                           \/ evPc = "schedule" /\ evInc = i /\ c \in evTodo

LEMMA InFlightMeans == Types /\ Placed => WaitsOrIsDue
<1> SUFFICES ASSUME Types, Placed, NEW i \in Incidents, NEW c \in Channels
             PROVE  InFlight(i, c) <=> \/ \E j \in Jobs : For(j, i, c)
                                       \/ evPc = "schedule" /\ evInc = i /\ c \in evTodo
  BY DEF WaitsOrIsDue
<1>1. /\ Jobs \subseteq Job /\ queue \subseteq Job /\ drBatch \subseteq Job /\ drJob \subseteq Job
      /\ UNION {adding[t] : t \in Tasks} = adding["evaluator"] \cup adding["drain"]
  BY JobsAreJobs DEF Types
<1>2. \A j \in Jobs : Delivery(j) = <<i, c>> <=> For(j, i, c)
  BY <1>1, JobFields
<1>3. <<i, c>> \in {<<evInc, d>> : d \in IF evPc = "schedule" THEN evTodo ELSE {}}
      <=> evPc = "schedule" /\ evInc = i /\ c \in evTodo
  OBVIOUS
<1>4. drPc = "remove" => drBatch \subseteq queue
  BY DEF Placed, Types
<1>5. \A S : <<i, c>> \in {Delivery(j) : j \in S} <=> \E j \in S : Delivery(j) = <<i, c>>
  OBVIOUS
<1>6. InFlight(i, c) <=>
         \/ \E j \in (adding["evaluator"] \cup adding["drain"]) \cup drJob : Delivery(j) = <<i, c>>
         \/ drPc # "remove" /\ \E j \in drBatch : Delivery(j) = <<i, c>>
         \/ evPc = "schedule" /\ evInc = i /\ c \in evTodo
         \/ \E j \in queue : Delivery(j) = <<i, c>>
  <2> DEFINE Del(S) == {Delivery(j) : j \in S}
             memory == drJob \cup (adding["evaluator"] \cup adding["drain"])
             taken  == IF drPc = "remove" THEN {} ELSE Del(drBatch)
             todo   == {<<evInc, d>> : d \in IF evPc = "schedule" THEN evTodo ELSE {}}
  <2>1. InFlight(i, c) <=> <<i, c>> \in Del(memory) \cup taken \cup todo \cup Del(queue)
    BY <1>1 DEF InFlight, InHand
  <2>2. <<i, c>> \in taken <=> drPc # "remove" /\ \E j \in drBatch : Delivery(j) = <<i, c>>
    BY <1>5
  <2>3. <<i, c>> \in Del(memory) <=> \E j \in memory : Delivery(j) = <<i, c>>
    BY <1>5
  <2>4. <<i, c>> \in Del(queue) <=> \E j \in queue : Delivery(j) = <<i, c>>
    BY <1>5
  <2> HIDE DEF Del, taken, todo
  <2>5. <<i, c>> \in todo <=> evPc = "schedule" /\ evInc = i /\ c \in evTodo
    BY <1>3 DEF todo
  <2> QED
    BY <2>1, <2>2, <2>3, <2>4, <2>5
<1>7. InFlight(i, c) <=> \/ \E j \in Jobs : Delivery(j) = <<i, c>>
                         \/ evPc = "schedule" /\ evInc = i /\ c \in evTodo
  BY <1>4, <1>6 DEF Jobs
<1> QED
  BY <1>2, <1>7

-----------------------------------------------------------------------------
(* Jobs are taken, dropped or added, and nothing is sent.                  *)

\* Fewer jobs stay as well counted.
LEMMA FewerJobs ==
    ASSUME Types, Counted, Untouched, Budget, Honest, Jobs' \subseteq Jobs,
           \A j \in Jobs' : j \in drJob' <=> j \in drJob,
           UNCHANGED <<tries, last, received>>,
           \A i \in Incidents : row'[i] = "none" => row[i] = "none"
    PROVE  Counted' /\ Untouched' /\ Budget' /\ Honest'
<1>1. Counted'
  BY DEF Counted
<1>2. Untouched'
  BY DEF Untouched
<1> QED
  BY <1>1, <1>2 DEF Budget, Honest

\* No retry is forgotten while jobs that are worth it stay or are dropped.
LEMMA NotForgotten ==
    ASSUME Types, Placed, Types', Placed', RetryNotForgotten,
           UNCHANGED <<tries, last>>, dropped \subseteq dropped',
           \A i \in Incidents : row'[i] = "recorded" => row[i] = "recorded",
           \A j \in Jobs : \/ j \in Jobs' \/ Delivery(j) \in dropped'
                           \/ ~WorthRetrying(j.incident, j.channel, tries[j.incident][j.channel])
                           \/ \E k \in Jobs' : For(k, j.incident, j.channel),
           \A c \in evTodo : evPc = "schedule" =>
              \/ evPc' = "schedule" /\ evInc' = evInc /\ c \in evTodo'
              \/ <<evInc, c>> \in dropped'
              \/ ~WorthRetrying(evInc, c, tries[evInc][c])
              \/ \E j \in Jobs' : For(j, evInc, c)
    PROVE  RetryNotForgotten'
<1> SUFFICES ASSUME NEW i \in Incidents, NEW c \in Channels, row'[i] = "recorded",
                    tries'[i][c] \in 1 .. MAX_DELIVERY_ATTEMPTS - 1, IsRetryable(Result(i, c))'
             PROVE  InFlight(i, c)' \/ <<i, c>> \in dropped'
  BY DEF RetryNotForgotten
<1>1. /\ row[i] = "recorded" /\ tries[i][c] \in 1 .. MAX_DELIVERY_ATTEMPTS - 1
      /\ IsRetryable(Result(i, c))
  BY DEF Result
<1>2. WorthRetrying(i, c, tries[i][c])
  BY <1>1 DEF WorthRetrying, MAX_DELIVERY_ATTEMPTS
<1>3. CASE <<i, c>> \in dropped
  BY <1>3
<1>4. ASSUME NEW j \in Jobs, For(j, i, c)
      PROVE  (\E k \in Jobs' : For(k, i, c)) \/ <<i, c>> \in dropped'
  <2>1. Delivery(j) = <<i, c>> /\ j.incident = i /\ j.channel = c
    BY <1>4 DEF For, Delivery
  <2> QED
    BY <1>2, <1>4, <2>1
<1>5. ASSUME evPc = "schedule", evInc = i, c \in evTodo
      PROVE  \/ \E k \in Jobs' : For(k, i, c)
             \/ evPc' = "schedule" /\ evInc' = i /\ c \in evTodo'
             \/ <<i, c>> \in dropped'
  BY <1>2, <1>5
<1>6. InFlight(i, c)' <=> \/ \E j \in Jobs' : For(j, i, c)
                          \/ evPc' = "schedule" /\ evInc' = i /\ c \in evTodo'
  <2>1. Types' /\ Placed' => WaitsOrIsDue'
    BY InFlightMeans, PTL
  <2> QED
    BY <2>1 DEF WaitsOrIsDue, For
<1>7. InFlight(i, c) \/ <<i, c>> \in dropped
  BY <1>1 DEF RetryNotForgotten
<1> QED
  BY <1>3, <1>4, <1>5, <1>6, <1>7, InFlightMeans DEF WaitsOrIsDue

\* The evaluator and the sends are left alone; jobs go to the log, to the
\* queue, to be dropped, or because they are not worth a retry.
LEMMA JobsMove ==
    ASSUME IInv, Types', Placed', Capped',
           UNCHANGED <<row, evVars, tries, last, received>>, dropped \subseteq dropped',
           Jobs' \subseteq Jobs, \A j \in Jobs' : j \in drJob' <=> j \in drJob,
           \A j \in Jobs : \/ j \in Jobs' \/ Delivery(j) \in dropped'
                           \/ ~WorthRetrying(j.incident, j.channel, tries[j.incident][j.channel])
    PROVE  IInv'
<1> USE DEF IInv
<1>1. Counted' /\ Untouched' /\ Budget' /\ Honest'
  BY FewerJobs
<1>2. Opening'
  BY DEF Opening, evVars
<1>3. RetryNotForgotten'
  BY NotForgotten DEF evVars
<1> QED
  BY <1>1, <1>2, <1>3

\* A task has at most one job between its ZCARD and its ZADD.
Pending(S) == IF S = {} THEN 0 ELSE 1

LEMMA Room ==
    ASSUME Types, Capped
    PROVE  /\ IsFiniteSet(queue) /\ Cardinality(queue) \in Nat /\ MaxRetryLen \in Nat
           /\ Cardinality(queue) + Pending(adding["evaluator"]) + Pending(adding["drain"])
              <= MaxRetryLen + 1
           /\ Cardinality(queue) <= MaxRetryLen + 1
<1>1. /\ IsFiniteSet(queue) /\ MaxRetryLen \in Nat
      /\ Cardinality(queue) + Pending(adding["evaluator"]) + Pending(adding["drain"])
         <= MaxRetryLen + 1
  BY DeliveryAssumption DEF Capped, Pending
<1>2. Cardinality(queue) \in Nat
  BY <1>1, FS_CardinalityType
<1>3. Pending(adding["evaluator"]) \in 0 .. 1 /\ Pending(adding["drain"]) \in 0 .. 1
  BY DEF Pending
<1> QED
  BY <1>1, <1>2, <1>3

\* Taking jobs away keeps the queue within its bound.
LEMMA StillCapped ==
    ASSUME Types, Capped, queue' \subseteq queue,
           \A t \in Tasks : adding'[t] = adding[t] \/ adding'[t] = {}
    PROVE  Capped'
<1>1. /\ IsFiniteSet(queue) /\ Cardinality(queue) \in Nat /\ MaxRetryLen \in Nat
      /\ Cardinality(queue) + Pending(adding["evaluator"]) + Pending(adding["drain"])
         <= MaxRetryLen + 1
  BY Room
<1>2. IsFiniteSet(queue') /\ Cardinality(queue') <= Cardinality(queue) /\ Cardinality(queue') \in Nat
  BY <1>1, FS_Subset, FS_CardinalityType
<1>3. /\ Pending(adding["evaluator"]) \in 0 .. 1 /\ Pending(adding["drain"]) \in 0 .. 1
      /\ Pending(adding'["evaluator"]) \in 0 .. 1 /\ Pending(adding'["drain"]) \in 0 .. 1
      /\ Pending(adding'["evaluator"]) <= Pending(adding["evaluator"])
      /\ Pending(adding'["drain"]) <= Pending(adding["drain"])
  BY JobsAreJobs DEF Pending
<1>4. Cardinality(queue') + Pending(adding'["evaluator"]) + Pending(adding'["drain"])
      <= MaxRetryLen + 1
  BY <1>1, <1>2, <1>3
<1>5. \A t \in Tasks : adding'[t] = {} \/ \E j \in Job : adding'[t] = {j}
  BY DEF Capped
<1> QED
  BY <1>2, <1>4, <1>5 DEF Capped, Pending

\* The place the ZCARD found is the place the ZADD takes.
LEMMA Enqueued ==
    ASSUME Types, Capped, NEW t \in Tasks, Enqueue(t)
    PROVE  /\ Capped'
           /\ adding' \in [Tasks -> SUBSET Job] /\ adding'[t] = {}
           /\ \A u \in Tasks \ {t} : adding'[u] = adding[u]
           /\ faultsLeft' \in 0 .. MaxFaults
           /\ dropped' \subseteq Deliveries /\ dropped \subseteq dropped'
           /\ \/ queue' = queue \cup adding[t]
              \/ queue' = queue /\ \A j \in adding[t] : Delivery(j) \in dropped'
<1>1. /\ adding' \in [Tasks -> SUBSET Job] /\ adding'[t] = {} /\ adding[t] \subseteq Job
      /\ \A u \in Tasks \ {t} : adding'[u] = adding[u]
  BY DEF Enqueue, Types
<1>2. faultsLeft' \in 0 .. MaxFaults
  BY FaultsBounded DEF Enqueue, FaultKinds
<1>3. CASE queue' = queue /\ dropped' = dropped \cup {Delivery(j) : j \in adding[t]}
  <2>1. \A j \in adding[t] : Delivery(j) \in Deliveries
    BY <1>1, JobFields
  <2>2. Capped'
    BY <1>1, <1>3, StillCapped
  <2> QED
    BY <1>1, <1>2, <1>3, <2>1, <2>2 DEF Types
<1>4. CASE queue' = queue \cup adding[t] /\ UNCHANGED dropped
  <2>1. PICK j \in Job : adding[t] = {j}
    BY DEF Enqueue, Capped
  <2>2. /\ IsFiniteSet(queue) /\ Cardinality(queue) \in Nat /\ MaxRetryLen \in Nat
        /\ Cardinality(queue) + Pending(adding["evaluator"]) + Pending(adding["drain"])
           <= MaxRetryLen + 1
    BY Room
  <2>3. /\ IsFiniteSet(queue') /\ Cardinality(queue') <= Cardinality(queue) + 1
        /\ Cardinality(queue') \in Nat
    <3>1. queue' = queue \cup {j}
      BY <1>4, <2>1
    <3>2. /\ IsFiniteSet(queue \cup {j})
          /\ Cardinality(queue \cup {j}) = IF j \in queue THEN Cardinality(queue)
                                           ELSE Cardinality(queue) + 1
      BY <2>2, FS_AddElement
    <3> QED
      BY <2>2, <3>1, <3>2
  <2>4. /\ Pending(adding["evaluator"]) \in 0 .. 1 /\ Pending(adding["drain"]) \in 0 .. 1
        /\ \/ /\ Pending(adding["evaluator"]) = 1 /\ Pending(adding'["evaluator"]) = 0
              /\ Pending(adding'["drain"]) = Pending(adding["drain"])
           \/ /\ Pending(adding["drain"]) = 1 /\ Pending(adding'["drain"]) = 0
              /\ Pending(adding'["evaluator"]) = Pending(adding["evaluator"])
    BY <1>1, <2>1 DEF Pending, Tasks
  <2>5. Cardinality(queue') + Pending(adding'["evaluator"]) + Pending(adding'["drain"])
        <= MaxRetryLen + 1
    BY <2>2, <2>3, <2>4
  <2>6. \A u \in Tasks : adding'[u] = {} \/ \E k \in Job : adding'[u] = {k}
    BY <1>1 DEF Capped
  <2>7. Capped'
    BY <2>3, <2>5, <2>6 DEF Capped, Pending
  <2> QED
    BY <1>1, <1>2, <1>4, <2>7 DEF Types
<1> QED
  BY <1>3, <1>4 DEF Enqueue

\* maybe_schedule_retry makes a job for the next attempt and has a place for
\* it, or the retry is dropped, or is not worth making.
LEMMA Scheduled ==
    ASSUME Types, Capped, NEW t \in Tasks, adding[t] = {}, UNCHANGED queue,
           NEW i \in Incidents, NEW c \in Channels, NEW a \in 1 .. MAX_DELIVERY_ATTEMPTS,
           MaybeScheduleRetry(t, i, c, a)
    PROVE  /\ Capped'
           /\ adding' \in [Tasks -> SUBSET Job]
           /\ \A u \in Tasks \ {t} : adding'[u] = adding[u]
           /\ faultsLeft' \in 0 .. MaxFaults
           /\ dropped' \subseteq Deliveries /\ dropped \subseteq dropped'
           /\ \/ \E j \in Job : adding'[t] = {j} /\ For(j, i, c) /\ j.attempt = a + 1
              \/ adding' = adding /\ <<i, c>> \in dropped'
              \/ adding' = adding /\ ~WorthRetrying(i, c, a)
<1>1. faultsLeft' \in 0 .. MaxFaults
  BY FaultsBounded DEF MaybeScheduleRetry, FaultKinds
<1>2. dropped' \subseteq Deliveries /\ dropped \subseteq dropped'
  BY DEF MaybeScheduleRetry, Types, Deliveries
<1>3. CASE adding' = adding
  <2>1. Capped'
    BY <1>3, StillCapped
  <2>2. <<i, c>> \in dropped' \/ ~WorthRetrying(i, c, a)
    <3>1. ASSUME adding' = [adding EXCEPT ![t] = {[incident |-> i, channel |-> c,
                                                     attempt |-> a + 1]}]
          PROVE  FALSE
      BY <1>3, <3>1 DEF Types
    <3> QED
      BY <3>1 DEF MaybeScheduleRetry
  <2> QED
    BY <1>1, <1>2, <1>3, <2>1, <2>2 DEF Types
<1>4. CASE /\ WorthRetrying(i, c, a) /\ Cardinality(queue) < MaxRetryLen
           /\ adding' = [adding EXCEPT ![t] =
                            {[incident |-> i, channel |-> c, attempt |-> a + 1]}]
  <2> DEFINE j == [incident |-> i, channel |-> c, attempt |-> a + 1]
  <2>1. j \in Job /\ For(j, i, c) /\ j.attempt = a + 1
    BY <1>4 DEF Job, For, WorthRetrying, MAX_DELIVERY_ATTEMPTS
  <2>2. /\ adding' \in [Tasks -> SUBSET Job] /\ adding'[t] = {j}
        /\ \A u \in Tasks \ {t} : adding'[u] = adding[u]
    BY <1>4, <2>1 DEF Types
  <2> HIDE DEF j
  <2>3. IsFiniteSet(queue) /\ Cardinality(queue) \in Nat /\ MaxRetryLen \in Nat
    BY Room
  <2>4. Pending(adding'["evaluator"]) \in 0 .. 1 /\ Pending(adding'["drain"]) \in 0 .. 1
    BY DEF Pending
  <2>5. Cardinality(queue') + Pending(adding'["evaluator"]) + Pending(adding'["drain"])
        <= MaxRetryLen + 1
    BY <1>4, <2>3, <2>4
  <2>6. Capped'
    <3>1. \A u \in Tasks : adding'[u] = {} \/ \E k \in Job : adding'[u] = {k}
      BY <2>1, <2>2 DEF Capped
    <3> QED
      BY <2>3, <2>5, <3>1 DEF Capped, Pending
  <2> QED
    BY <1>1, <1>2, <2>1, <2>2, <2>6
<1> QED
  BY <1>3, <1>4 DEF MaybeScheduleRetry

-----------------------------------------------------------------------------
(* The drain, and the clock.                                               *)

\* Jobs are read, come due, and are sent no more: nothing else changes.
LEMMA QuietDrainSteps ==
    ASSUME IInv, \/ ReadDue \/ BatchDone \/ \E j \in queue : JobComesDue(j)
                 \/ \E j \in drBatch : SkipJob(j)
    PROVE  IInv'
<1> USE DEF IInv
<1>1. /\ UNCHANGED <<row, log, queue, evVars, adding, tries, last, received, drJob>>
      /\ dropped \subseteq dropped'
  BY DEF ReadDue, BatchDone, JobComesDue, SkipJob, evVars, drVars, hist
<1>2. Types'
  <2>1. CASE ReadDue \/ BatchDone \/ \E j \in queue : JobComesDue(j)
    BY <2>1 DEF ReadDue, BatchDone, JobComesDue, Types, evVars, drVars, hist
  <2>2. ASSUME NEW j \in drBatch, SkipJob(j)
        PROVE  Types'
    <3>1. Delivery(j) \in Deliveries
      BY JobFields DEF Types
    <3>2. faultsLeft' \in 0 .. MaxFaults
      BY <2>2, FaultsBounded DEF SkipJob, FaultKinds
    <3> QED
      BY <2>2, <3>1, <3>2 DEF SkipJob, Types, evVars
  <2> QED
    BY <2>1, <2>2
<1>3. Placed'
  <2>1. CASE ReadDue
    BY <1>1, <2>1 DEF ReadDue, Placed, Types, evVars
  <2>2. CASE BatchDone
    BY <1>1, <2>2 DEF BatchDone, Placed, evVars
  <2>3. CASE \E j \in queue : JobComesDue(j)
    BY <1>1, <2>3 DEF JobComesDue, Placed, evVars, drVars
  <2>4. CASE \E j \in drBatch : SkipJob(j)
    BY <1>1, <2>4 DEF SkipJob, Placed, evVars
  <2> QED
    BY <2>1, <2>2, <2>3, <2>4
<1>4. Capped'
  BY <1>1, StillCapped
<1>6. /\ Jobs' \subseteq Jobs
      /\ \A j \in Jobs : j \in Jobs' \/ Delivery(j) \in dropped'
  <2>1. CASE ReadDue
    BY <1>1, <2>1 DEF ReadDue, Jobs, Placed, Types
  <2>2. CASE BatchDone \/ \E j \in queue : JobComesDue(j)
    BY <1>1, <2>2 DEF BatchDone, JobComesDue, Jobs, drVars
  <2>3. CASE \E j \in drBatch : SkipJob(j)
    BY <1>1, <2>3 DEF SkipJob, Jobs
  <2> QED
    BY <2>1, <2>2, <2>3
<1>7. \A j \in Jobs' : j \in drJob' <=> j \in drJob
  BY <1>1
<1> QED
  BY <1>1, <1>2, <1>3, <1>4, <1>6, <1>7, JobsMove

\* Jobs leave the queue: they are in hand, or still queued, or dropped.
LEMMA RemoveStep ==
    ASSUME IInv, RemoveDue
    PROVE  IInv'
<1> USE DEF IInv
<1>1. /\ UNCHANGED <<row, log, evVars, adding, tries, last, received, drJob>>
      /\ drPc = "remove" /\ drJob = {} /\ drBatch \subseteq due /\ due \subseteq queue
      /\ adding["drain"] = {}
  BY DEF RemoveDue, evVars, Placed, Types
<1>2. \A j \in drBatch : Delivery(j) \in Deliveries
  BY JobFields DEF Types
<1>3. faultsLeft' \in 0 .. MaxFaults
  BY FaultsBounded DEF RemoveDue, FaultKinds
<1>4. Types' /\ dropped \subseteq dropped' /\ queue' \subseteq queue
  BY <1>1, <1>2, <1>3 DEF RemoveDue, Types, evVars
<1>5. Placed'
  BY <1>1 DEF RemoveDue, Placed, evVars
<1>6. Capped'
  BY <1>1, <1>4, StillCapped
<1>7. Jobs' \subseteq Jobs /\ \A j \in Jobs' : j \in drJob' <=> j \in drJob
  BY <1>1 DEF RemoveDue, Jobs
<1>8. \A j \in Jobs : j \in Jobs' \/ Delivery(j) \in dropped'
  BY <1>1 DEF RemoveDue, Jobs
<1> QED
  BY <1>1, <1>4, <1>5, <1>6, <1>7, <1>8, JobsMove

\* The ZADD of either task.
LEMMA AddSteps ==
    ASSUME IInv, AddFirstRetry \/ AddNextRetry
    PROVE  IInv'
<1> USE DEF IInv
<1>1. ASSUME NEW t \in Tasks, Enqueue(t),
             UNCHANGED <<row, log, due, evVars, drBatch, drJob, tries, last, received>>,
             drPc' = drPc \/ (t = "drain" /\ drPc = "add" /\ drPc' = "jobs")
      PROVE  IInv'
  <2>1. /\ Capped'
        /\ adding' \in [Tasks -> SUBSET Job] /\ adding'[t] = {}
        /\ \A u \in Tasks \ {t} : adding'[u] = adding[u]
        /\ faultsLeft' \in 0 .. MaxFaults
        /\ dropped' \subseteq Deliveries /\ dropped \subseteq dropped'
        /\ \/ queue' = queue \cup adding[t]
           \/ queue' = queue /\ \A j \in adding[t] : Delivery(j) \in dropped'
    BY <1>1, Enqueued
  <2>2. Types'
    BY <1>1, <2>1 DEF Types, evVars
  <2>3. /\ \/ t = "evaluator" /\ adding'["drain"] = adding["drain"]
           \/ t = "drain" /\ adding'["evaluator"] = adding["evaluator"]
        /\ t = "evaluator" \/ t = "drain"
    BY <1>1, <2>1 DEF Tasks
  <2>4. Placed'
    <3>1. CASE t = "evaluator"
      BY <1>1, <2>1, <2>3, <3>1 DEF Placed, evVars
    <3>2. CASE t = "drain"
      BY <1>1, <2>1, <2>3, <3>2 DEF Placed, evVars
    <3> QED
      BY <2>3, <3>1, <3>2
  <2>6. Jobs' \subseteq Jobs /\ \A j \in Jobs' : j \in drJob' <=> j \in drJob
    BY <1>1, <2>1, <2>3 DEF Jobs
  <2>7. \A j \in Jobs : j \in Jobs' \/ Delivery(j) \in dropped'
    BY <1>1, <2>1, <2>3 DEF Jobs
  <2> QED
    BY <1>1, <2>1, <2>2, <2>4, <2>6, <2>7, JobsMove
<1>2. CASE AddFirstRetry
  BY <1>1, <1>2, JobsAreJobs DEF AddFirstRetry, drVars
<1>3. CASE AddNextRetry
  BY <1>1, <1>3, JobsAreJobs DEF AddNextRetry
<1> QED
  BY <1>2, <1>3

\* The result of a retry is logged; a success needs no more of it.
LEMMA LogStep ==
    ASSUME IInv, NEW j \in drJob, RetryLog(j)
    PROVE  IInv'
<1> USE DEF IInv
<1> DEFINE i == j.incident
           c == j.channel
<1>1. /\ UNCHANGED <<row, queue, due, evVars, drBatch, adding, tries, last, received, dropped>>
      /\ drPc = "log" /\ drJob = {j} /\ j \in Job /\ i \in Incidents /\ c \in Channels
  BY JobFields DEF RetryLog, Placed, Types
<1>2. IF Result(i, c).success
      THEN drPc' = "jobs" /\ drJob' = {}
      ELSE drPc' = "schedule" /\ UNCHANGED drJob
  BY DEF RetryLog
<1>5. faultsLeft' \in 0 .. MaxFaults
  BY FaultsBounded DEF FaultKinds, RetryLog
<1> HIDE DEF i, c
<1>6. Types'
  BY <1>1, <1>2, <1>5 DEF Types, evVars
<1>7. Placed'
  BY <1>1, <1>2 DEF Placed, evVars
<1>8. Capped'
  BY <1>1, StillCapped
<1>9. Jobs' \subseteq Jobs /\ \A k \in Jobs' : k \in drJob' <=> k \in drJob
  BY <1>1, <1>2 DEF Jobs, Placed
<1>10. \A k \in Jobs : k \in Jobs' \/ (k = j /\ Result(i, c).success)
  BY <1>1, <1>2 DEF Jobs
<1>11. Result(i, c).success => ~WorthRetrying(i, c, tries[i][c])
  BY SuccessIsAccepted DEF WorthRetrying
<1> QED
  BY <1>1, <1>6, <1>7, <1>8, <1>9, <1>10, <1>11, JobsMove DEF i, c

\* A retry is sent: its job now counts this send too.
LEMMA RetrySendStep ==
    ASSUME IInv, NEW j \in drBatch, NEW resp \in Answers, RetrySend(j, resp)
    PROVE  IInv'
<1> USE DEF IInv
<1> DEFINE i == j.incident
           c == j.channel
<1>1. /\ UNCHANGED <<row, log, queue, due, evVars, adding, faultsLeft, dropped>>
      /\ drPc = "jobs" /\ drBatch' = drBatch \ {j} /\ drJob' = {j} /\ drPc' = "log"
      /\ drJob = {} /\ adding["drain"] = {}
      /\ j \in Job /\ i \in Incidents /\ c \in Channels
      /\ Send(i, c, resp)
  BY JobFields DEF RetrySend, Placed, Types
<1>2. /\ tries' \in [Incidents -> [Channels -> Nat]]
      /\ last' \in [Incidents -> [Channels -> Responses \cup {"none"}]]
      /\ received' \subseteq Deliveries /\ received \subseteq received'
      /\ tries'[i][c] = tries[i][c] + 1
      /\ \A k \in Incidents, d \in Channels :
            k # i \/ d # c => tries'[k][d] = tries[k][d] /\ last'[k][d] = last[k][d]
      /\ Honest'
  BY <1>1, Sending
<1>3. Types'
  BY <1>1, <1>2 DEF Types, evVars
<1>4. Placed'
  BY <1>1 DEF Placed, evVars
<1>5. Jobs' = Jobs /\ j \in Jobs /\ Jobs \subseteq Job
  BY <1>1, JobsAreJobs DEF Jobs
<1>6. /\ j.attempt \in 2 .. MAX_DELIVERY_ATTEMPTS /\ j.attempt \in Nat
      /\ tries[i][c] = j.attempt - 1 /\ tries'[i][c] = j.attempt
  <2>1. j.attempt \in 2 .. MAX_DELIVERY_ATTEMPTS /\ j.attempt \in Nat
    BY <1>1, JobFields
  <2>2. tries[i][c] = j.attempt - 1
    BY <1>1, <1>5 DEF Counted
  <2> QED
    BY <1>2, <2>1, <2>2
<1>7. \A k \in Jobs : k # j => /\ ~For(k, i, c)
                               /\ tries'[k.incident][k.channel] = tries[k.incident][k.channel]
  <2> SUFFICES ASSUME NEW k \in Jobs, k # j
               PROVE  /\ ~For(k, i, c)
                      /\ tries'[k.incident][k.channel] = tries[k.incident][k.channel]
    OBVIOUS
  <2>1. ~For(k, i, c)
    BY <1>5 DEF Counted
  <2>2. k.incident \in Incidents /\ k.channel \in Channels
    BY <1>5, JobFields
  <2> QED
    BY <1>2, <2>1, <2>2 DEF For
<1> HIDE DEF i, c
<1>8. Counted'
  <2>1. \A k, l \in Jobs' : For(k, l.incident, l.channel)' => k = l
    BY <1>5 DEF Counted, For
  <2>2. \A k \in Jobs' : tries'[k.incident][k.channel]
                         = IF k \in drJob' THEN k.attempt ELSE k.attempt - 1
    <3> SUFFICES ASSUME NEW k \in Jobs
                 PROVE  tries'[k.incident][k.channel]
                        = IF k \in drJob' THEN k.attempt ELSE k.attempt - 1
      BY <1>5
    <3>1. CASE k = j
      BY <1>1, <1>6, <3>1 DEF i, c
    <3>2. CASE k # j
      BY <1>1, <1>7, <3>2 DEF Counted
    <3> QED
      BY <3>1, <3>2
  <2> QED
    BY <2>1, <2>2 DEF Counted, For
<1>9. Opening'
  <2>1. CASE evPc = "send"
    <3>1. evInc # i /\ evInc \in Incidents
      BY <1>5, <2>1 DEF Opening, i
    <3> QED
      BY <1>1, <1>2, <1>5, <2>1, <3>1 DEF Opening, evVars
  <2>2. CASE evPc = "schedule"
    <3>1. evInc \in Incidents /\ evTodo \subseteq Channels
          /\ \A d \in evTodo : evInc # i \/ d # c
      BY <1>5, <2>2 DEF Opening, For, Types, i, c
    <3> QED
      BY <1>1, <1>2, <1>5, <2>2, <3>1 DEF Opening, For, evVars
  <2>3. CASE evPc = "idle"
    BY <1>1, <2>3 DEF Opening, evVars
  <2> QED
    BY <2>1, <2>2, <2>3 DEF Types
<1>10. Untouched'
  <2>1. row[i] # "none" /\ row' = row
    BY <1>1, <1>5 DEF Untouched, i
  <2> SUFFICES ASSUME NEW k \in Incidents, row[k] = "none"
               PROVE  /\ \A d \in Channels : tries'[k][d] = 0
                      /\ \A l \in Jobs : l.incident # k
    BY <1>5, <2>1 DEF Untouched
  <2>2. /\ \A d \in Channels : tries[k][d] = 0
        /\ \A l \in Jobs : l.incident # k
    BY DEF Untouched
  <2> QED
    BY <1>2, <2>1, <2>2
<1>11. Budget'
  BY <1>1, <1>2, <1>6 DEF Budget, MAX_DELIVERY_ATTEMPTS
<1>12. Capped'
  BY <1>1, StillCapped
<1>14. RetryNotForgotten'
  <2> SUFFICES ASSUME NEW k \in Incidents, NEW d \in Channels, row'[k] = "recorded",
                      tries'[k][d] \in 1 .. MAX_DELIVERY_ATTEMPTS - 1, IsRetryable(Result(k, d))'
               PROVE  InFlight(k, d)' \/ <<k, d>> \in dropped'
    BY DEF RetryNotForgotten
  <2>1. InFlight(k, d)' <=> \/ \E l \in Jobs : For(l, k, d)
                            \/ evPc = "schedule" /\ evInc = k /\ d \in evTodo
    <3>1. WaitsOrIsDue'
      BY <1>3, <1>4, InFlightMeans, PTL
    <3> QED
      BY <1>1, <1>5, <3>1 DEF WaitsOrIsDue, For, evVars
  <2>2. CASE k = i /\ d = c
    BY <1>5, <2>1, <2>2 DEF For, i, c
  <2>3. CASE k # i \/ d # c
    <3>1. IsRetryable(Result(k, d))
      BY <1>2, <2>3 DEF Result
    <3>2. InFlight(k, d) \/ <<k, d>> \in dropped
      BY <1>1, <1>2, <2>3, <3>1 DEF RetryNotForgotten
    <3> QED
      BY <1>1, <2>1, <3>2, InFlightMeans DEF WaitsOrIsDue
  <2> QED
    BY <2>2, <2>3
<1> QED
  BY <1>2, <1>3, <1>4, <1>8, <1>9, <1>10, <1>11, <1>12, <1>14

\* What is left of the budget is queued: the job gives way to the next one.
LEMMA NextRetryStep ==
    ASSUME IInv, NEW j \in drJob, QueueNextRetry(j)
    PROVE  IInv'
<1> USE DEF IInv
<1> DEFINE i == j.incident
           c == j.channel
           a == j.attempt
<1>1. /\ UNCHANGED <<row, log, queue, due, evVars, drBatch, tries, last, received>>
      /\ drPc = "schedule" /\ drJob = {j} /\ drJob' = {} /\ adding["drain"] = {}
      /\ drPc' = IF adding'["drain"] = {} THEN "jobs" ELSE "add"
      /\ j \in Job /\ j \in Jobs /\ i \in Incidents /\ c \in Channels
      /\ a \in 1 .. MAX_DELIVERY_ATTEMPTS /\ a \in Nat
      /\ MaybeScheduleRetry("drain", i, c, a)
  BY JobFields DEF QueueNextRetry, Placed, Types, Jobs, MAX_DELIVERY_ATTEMPTS
<1>2. tries[i][c] = a
  BY <1>1 DEF Counted
<1>3. /\ Capped' /\ adding' \in [Tasks -> SUBSET Job]
      /\ adding'["evaluator"] = adding["evaluator"]
      /\ faultsLeft' \in 0 .. MaxFaults
      /\ dropped' \subseteq Deliveries /\ dropped \subseteq dropped'
      /\ \/ \E n \in Job : adding'["drain"] = {n} /\ For(n, i, c) /\ n.attempt = a + 1
         \/ adding' = adding /\ <<i, c>> \in dropped'
         \/ adding' = adding /\ ~WorthRetrying(i, c, a)
  <2>1. "drain" \in Tasks /\ "evaluator" \in Tasks \ {"drain"} /\ UNCHANGED queue
    BY <1>1 DEF Tasks
  <2> HIDE DEF i, c, a
  <2> QED
    BY <1>1, <2>1, Scheduled
<1> HIDE DEF i, c, a
<1>4. Types'
  BY <1>1, <1>3 DEF Types, evVars
<1>5. CASE adding' = adding
  <2>1. Placed'
    BY <1>1, <1>5 DEF Placed, evVars
  <2>2. Jobs' \subseteq Jobs /\ \A k \in Jobs' : k \in drJob' <=> k \in drJob
    BY <1>1, <1>5 DEF Jobs, Placed
  <2>3. \A k \in Jobs : k \in Jobs' \/ k = j
    BY <1>1, <1>5 DEF Jobs
  <2>4. Delivery(j) \in dropped' \/ ~WorthRetrying(i, c, tries[i][c])
    <3>1. ~\E n \in Job : adding'["drain"] = {n}
      BY <1>1, <1>5
    <3> QED
      BY <1>2, <1>3, <3>1 DEF Delivery, i, c
  <2> QED
    BY <1>1, <1>3, <1>4, <2>1, <2>2, <2>3, <2>4, JobsMove DEF i, c
<1>6. ASSUME NEW n \in Job, adding'["drain"] = {n}, For(n, i, c), n.attempt = a + 1
      PROVE  IInv'
  <2>1. n \notin Jobs
    <3>1. n \in Jobs => n = j
      BY <1>1, <1>6 DEF Counted, i, c
    <3> QED
      BY <1>1, <1>6, <3>1 DEF a
  <2>2. Placed'
    BY <1>1, <1>3, <1>6, <2>1 DEF Placed, Jobs, evVars
  <2>3. Jobs' = (Jobs \ {j}) \cup {n}
    BY <1>1, <1>3, <1>6 DEF Jobs, Placed
  <2>4. Counted'
    <3>1. \A k, l \in Jobs' : For(k, l.incident, l.channel) => k = l
      <4>1. \A k \in Jobs : For(k, i, c) => k = j
        BY <1>1 DEF Counted, i, c
      <4>2. \A k \in Jobs \ {j} : ~For(k, n.incident, n.channel) /\ ~For(n, k.incident, k.channel)
        BY <1>6, <4>1 DEF For
      <4> QED
        BY <2>3, <4>2 DEF Counted
    <3>2. \A k \in Jobs' : tries[k.incident][k.channel] = k.attempt - 1
      <4>1. \A k \in Jobs \ {j} : tries[k.incident][k.channel] = k.attempt - 1
        BY <1>1 DEF Counted
      <4>2. tries[n.incident][n.channel] = n.attempt - 1
        BY <1>1, <1>2, <1>6 DEF For
      <4> QED
        BY <2>3, <4>1, <4>2
    <3> QED
      BY <1>1, <3>1, <3>2 DEF Counted, For
  <2>5. Opening'
    <3>1. evPc = "send" => n.incident # evInc
      BY <1>1, <1>6 DEF Opening, For, i
    <3>2. evPc = "schedule" => \A d \in evTodo : ~For(n, evInc, d)
      BY <1>1, <1>6 DEF Opening, For, i, c
    <3>3. Opening /\ UNCHANGED <<row, evPc, evInc, evTodo, tries>>
      BY <1>1 DEF evVars
    <3>4. evPc = "send" => \A k \in Jobs' : k.incident # evInc
      BY <2>3, <3>1 DEF Opening
    <3>5. evPc = "schedule" => \A d \in evTodo : \A k \in Jobs' : ~For(k, evInc, d)
      BY <2>3, <3>2 DEF Opening
    <3> QED
      BY <3>3, <3>4, <3>5 DEF Opening, For
  <2>6. Untouched'
    <3>1. \A k \in Incidents : row[k] = "none" => n.incident # k
      BY <1>1, <1>6 DEF Untouched, For, i
    <3> QED
      BY <1>1, <2>3, <3>1 DEF Untouched
  <2>7. Budget' /\ Honest'
    BY <1>1 DEF Budget, Honest
  <2>8. RetryNotForgotten'
    <3>1. \A k \in Jobs : k \in Jobs' \/ \E l \in Jobs' : For(l, k.incident, k.channel)
      BY <1>6, <2>3 DEF For, i, c
    <3> QED
      BY <1>1, <1>3, <1>4, <2>2, <3>1, NotForgotten DEF evVars
  <2> QED
    BY <1>3, <1>4, <2>2, <2>4, <2>5, <2>6, <2>7, <2>8
<1> QED
  BY <1>3, <1>5, <1>6

-----------------------------------------------------------------------------
(* The evaluator.                                                          *)

\* The evaluator queues the first retry of a channel that failed.
LEMMA FirstRetryStep ==
    ASSUME IInv, NEW c \in Channels, QueueFirstRetry(c)
    PROVE  IInv'
<1> USE DEF IInv
<1> DEFINE i == evInc
<1>1. /\ UNCHANGED <<row, log, queue, due, evPc, evInc, drVars, tries, last, received>>
      /\ UNCHANGED <<drPc, drBatch, drJob>>
      /\ evPc = "schedule" /\ c \in evTodo /\ evTodo' = evTodo \ {c}
      /\ adding["evaluator"] = {} /\ i \in Incidents
      /\ MaybeScheduleRetry("evaluator", i, c, 1)
      /\ tries[i][c] = 1 /\ \A k \in Jobs : ~For(k, i, c)
      /\ row[i] \in {"recorded", "deleted"}
  BY DEF QueueFirstRetry, Opening, drVars
<1>2. /\ Capped' /\ adding' \in [Tasks -> SUBSET Job]
      /\ adding'["drain"] = adding["drain"]
      /\ faultsLeft' \in 0 .. MaxFaults
      /\ dropped' \subseteq Deliveries /\ dropped \subseteq dropped'
      /\ \/ \E n \in Job : adding'["evaluator"] = {n} /\ For(n, i, c) /\ n.attempt = 1 + 1
         \/ adding' = adding /\ <<i, c>> \in dropped'
         \/ adding' = adding /\ ~WorthRetrying(i, c, 1)
  <2>1. /\ "evaluator" \in Tasks /\ "drain" \in Tasks \ {"evaluator"} /\ UNCHANGED queue
        /\ 1 \in 1 .. MAX_DELIVERY_ATTEMPTS
    BY <1>1 DEF Tasks, MAX_DELIVERY_ATTEMPTS
  <2> HIDE DEF i
  <2> QED
    BY <1>1, <2>1, Scheduled
<1> HIDE DEF i
<1>3. Types'
  BY <1>1, <1>2 DEF Types
<1>4. Budget' /\ Honest'
  BY <1>1 DEF Budget, Honest
<1>5. ASSUME Jobs' = Jobs, Placed',
             <<i, c>> \in dropped' \/ ~WorthRetrying(i, c, 1)
      PROVE  IInv'
  <2>1. Counted' /\ Untouched'
    BY <1>1, <1>5 DEF Counted, Untouched, For
  <2>2. Opening'
    BY <1>1, <1>5 DEF Opening, For
  <2>3. RetryNotForgotten'
    BY <1>1, <1>2, <1>3, <1>5, NotForgotten DEF i
  <2> QED
    BY <1>2, <1>3, <1>4, <1>5, <2>1, <2>2, <2>3
<1>6. CASE adding' = adding
  <2>1. Jobs' = Jobs
    BY <1>1, <1>6 DEF Jobs
  <2>2. Placed'
    BY <1>1, <1>6 DEF Placed
  <2>3. <<i, c>> \in dropped' \/ ~WorthRetrying(i, c, 1)
    BY <1>1, <1>2, <1>6
  <2> QED
    BY <1>5, <2>1, <2>2, <2>3
<1>7. ASSUME NEW n \in Job, adding'["evaluator"] = {n}, For(n, i, c), n.attempt = 1 + 1
      PROVE  IInv'
  <2>1. n \notin Jobs
    BY <1>1, <1>7
  <2>2. Placed'
    BY <1>1, <1>2, <1>7, <2>1 DEF Placed, Jobs
  <2>3. Jobs' = Jobs \cup {n}
    BY <1>1, <1>2, <1>7 DEF Jobs
  <2>4. Counted'
    <3>1. \A k, l \in Jobs' : For(k, l.incident, l.channel) => k = l
      <4>1. \A k \in Jobs : ~For(k, n.incident, n.channel) /\ ~For(n, k.incident, k.channel)
        BY <1>1, <1>7 DEF For
      <4> QED
        BY <2>3, <4>1 DEF Counted
    <3>2. \A k \in Jobs' : tries[k.incident][k.channel]
                           = IF k \in drJob THEN k.attempt ELSE k.attempt - 1
      <4>1. tries[n.incident][n.channel] = n.attempt - 1 /\ n \notin drJob
        BY <1>1, <1>7, <2>1 DEF For, Jobs
      <4> QED
        BY <2>3, <4>1 DEF Counted
    <3> QED
      BY <1>1, <3>1, <3>2 DEF Counted, For
  <2>5. Opening'
    <3>1. \A d \in evTodo' : d # c
      BY <1>1
    <3>2. \A d \in evTodo' : \A k \in Jobs' : ~For(k, i, d)
      BY <1>1, <1>7, <2>3, <3>1 DEF Opening, For, i
    <3> QED
      BY <1>1, <3>2 DEF Opening, For, i
  <2>6. Untouched'
    <3>1. \A k \in Incidents : row[k] = "none" => n.incident # k
      BY <1>1, <1>7 DEF For
    <3> QED
      BY <1>1, <2>3, <3>1 DEF Untouched
  <2>7. RetryNotForgotten'
    <3>1. \A d \in evTodo : \/ evPc' = "schedule" /\ evInc' = evInc /\ d \in evTodo'
                            \/ \E k \in Jobs' : For(k, evInc, d)
      BY <1>1, <1>7, <2>3 DEF i
    <3>2. Jobs \subseteq Jobs'
      BY <2>3
    <3> QED
      BY <1>1, <1>2, <1>3, <2>2, <3>1, <3>2, NotForgotten
  <2> QED
    BY <1>2, <1>3, <1>4, <2>2, <2>4, <2>5, <2>6, <2>7
<1> QED
  BY <1>2, <1>6, <1>7

\* The notification of an incident being opened is sent to one channel.
LEMMA FirstSendStep ==
    ASSUME IInv, NEW c \in Channels, NEW resp \in Answers, FirstSend(c, resp)
    PROVE  IInv'
<1> USE DEF IInv
<1> DEFINE i == evInc
<1>1. /\ UNCHANGED <<row, log, queue, due, evPc, evInc, drVars, adding, faultsLeft, dropped>>
      /\ UNCHANGED <<drPc, drBatch, drJob>>
      /\ evPc = "send" /\ c \in evTodo /\ evTodo' = evTodo \ {c}
      /\ i \in Incidents /\ row[i] \in {"opening", "deleted"}
      /\ \A d \in Channels : tries[i][d] = IF d \in evTodo THEN 0 ELSE 1
      /\ \A k \in Jobs : k.incident # i
      /\ Send(i, c, resp)
  BY DEF FirstSend, Opening, drVars
<1> HIDE DEF i
<1>2. /\ tries' \in [Incidents -> [Channels -> Nat]]
      /\ last' \in [Incidents -> [Channels -> Responses \cup {"none"}]]
      /\ received' \subseteq Deliveries /\ received \subseteq received'
      /\ tries'[i][c] = tries[i][c] + 1
      /\ \A k \in Incidents, d \in Channels :
            k # i \/ d # c => tries'[k][d] = tries[k][d] /\ last'[k][d] = last[k][d]
      /\ Honest'
  BY <1>1, Sending
<1>3. Types'
  BY <1>1, <1>2 DEF Types
<1>4. Placed' /\ Jobs' = Jobs
  BY <1>1 DEF Placed, Jobs
<1>5. tries'[i][c] = 1
  BY <1>1, <1>2
<1>6. Counted'
  <2>1. \A k \in Jobs : tries'[k.incident][k.channel] = tries[k.incident][k.channel]
    BY <1>1, <1>2, JobsAreJobs, JobFields
  <2> QED
    BY <1>1, <1>4, <2>1 DEF Counted, For
<1>7. Opening'
  <2>1. \A d \in Channels : tries'[i][d] = IF d \in evTodo' THEN 0 ELSE 1
    <3> TAKE d \in Channels
    <3>1. CASE d = c
      BY <1>1, <1>5, <3>1
    <3>2. CASE d # c
      BY <1>1, <1>2, <3>2
    <3> QED
      BY <3>1, <3>2
  <2> QED
    BY <1>1, <1>4, <2>1 DEF Opening, i
<1>8. Untouched'
  <2> SUFFICES ASSUME NEW k \in Incidents, row[k] = "none"
               PROVE  /\ \A d \in Channels : tries'[k][d] = 0
                      /\ \A l \in Jobs : l.incident # k
    BY <1>1, <1>4 DEF Untouched
  <2>1. k # i
    BY <1>1
  <2> QED
    BY <1>2, <2>1 DEF Untouched
<1>9. Budget'
  BY <1>2, <1>5 DEF Budget, MAX_DELIVERY_ATTEMPTS
<1>10. Capped'
  BY <1>1, StillCapped
<1>12. RetryNotForgotten'
  <2> SUFFICES ASSUME NEW k \in Incidents, NEW d \in Channels, row'[k] = "recorded",
                      tries'[k][d] \in 1 .. MAX_DELIVERY_ATTEMPTS - 1, IsRetryable(Result(k, d))'
               PROVE  InFlight(k, d)' \/ <<k, d>> \in dropped'
    BY DEF RetryNotForgotten
  <2>1. k # i
    BY <1>1
  <2>2. InFlight(k, d) \/ <<k, d>> \in dropped
    <3>1. /\ row[k] = "recorded" /\ tries[k][d] \in 1 .. MAX_DELIVERY_ATTEMPTS - 1
          /\ IsRetryable(Result(k, d))
      BY <1>1, <1>2, <2>1 DEF Result
    <3> QED
      BY <3>1 DEF RetryNotForgotten
  <2>3. InFlight(k, d)' <=> \E l \in Jobs : For(l, k, d)
    <3>1. WaitsOrIsDue'
      BY <1>3, <1>4, InFlightMeans, PTL
    <3> QED
      BY <1>1, <1>4, <3>1 DEF WaitsOrIsDue, For
  <2>4. InFlight(k, d) <=> \E l \in Jobs : For(l, k, d)
    BY <1>1, InFlightMeans DEF WaitsOrIsDue
  <2> QED
    BY <1>1, <2>2, <2>3, <2>4
<1> QED
  BY <1>2, <1>3, <1>4, <1>6, <1>7, <1>8, <1>9, <1>10, <1>12

LEMMA RowWritten ==
    ASSUME Types, NEW i \in Incidents, NEW state \in {"recorded", "half_recorded"},
           InsertRow(i, state)
    PROVE  /\ row' \in [Incidents -> {"none", "opening", "recorded", "half_recorded",
                                      "unrecorded", "deleted"}]
           /\ row'[i] = state /\ \A k \in Incidents \ {i} : row'[k] = row[k]
  BY DEF Types, InsertRow

\* The row is written: every failed channel is left to queue a retry for.
LEMMA RecordOkStep ==
    ASSUME IInv, RecordOk
    PROVE  IInv'
<1> USE DEF IInv
<1> DEFINE i == evInc
<1>1. /\ UNCHANGED <<queue, due, evInc, adding, faultsLeft, tries, last, received, dropped>>
      /\ UNCHANGED <<drPc, drBatch, drJob>>
      /\ evPc = "send" /\ evTodo = {} /\ evPc' = "schedule"
      /\ evTodo' = {c \in Channels : ~Result(i, c).success}
      /\ i \in Incidents /\ row[i] = "opening"
      /\ \A c \in Channels : tries[i][c] = 1
      /\ \A k \in Jobs : k.incident # i
      /\ InsertRow(i, "recorded")
  BY DEF RecordOk, Opening, drVars, hist
<1> HIDE DEF i
<1>2. /\ row' \in [Incidents -> {"none", "opening", "recorded", "half_recorded",
                                 "unrecorded", "deleted"}]
      /\ row'[i] = "recorded" /\ \A k \in Incidents \ {i} : row'[k] = row[k]
  BY <1>1, RowWritten
<1>3. Types'
  BY <1>1, <1>2 DEF Types
<1>4. Placed' /\ Jobs' = Jobs
  BY <1>1 DEF Placed, Jobs
<1>5. Counted' /\ Untouched' /\ Budget' /\ Honest'
  BY <1>1, <1>2, <1>4, FewerJobs
<1>6. Opening'
  BY <1>1, <1>2, <1>4 DEF Opening, For, i
<1>7. Capped'
  BY <1>1, StillCapped
<1>8. RetryNotForgotten'
  <2> SUFFICES ASSUME NEW k \in Incidents, NEW d \in Channels, row'[k] = "recorded",
                      tries'[k][d] \in 1 .. MAX_DELIVERY_ATTEMPTS - 1, IsRetryable(Result(k, d))'
               PROVE  InFlight(k, d)' \/ <<k, d>> \in dropped'
    BY DEF RetryNotForgotten
  <2>1. InFlight(k, d)' <=> \/ \E l \in Jobs : For(l, k, d)
                            \/ i = k /\ d \in evTodo'
    <3>1. WaitsOrIsDue'
      BY <1>3, <1>4, InFlightMeans, PTL
    <3> QED
      BY <1>1, <1>4, <3>1 DEF WaitsOrIsDue, For, i
  <2>2. CASE k = i
    <3>1. IsRetryable(Result(k, d))
      BY <1>1 DEF Result
    <3>2. ~Result(k, d).success
      BY <3>1, SuccessIsAccepted
    <3> QED
      BY <1>1, <2>1, <2>2, <3>2
  <2>3. CASE k # i
    <3>1. row[k] = "recorded" /\ IsRetryable(Result(k, d))
      BY <1>1, <1>2, <2>3 DEF Result
    <3>2. InFlight(k, d) \/ <<k, d>> \in dropped
      BY <1>1, <3>1 DEF RetryNotForgotten
    <3>3. InFlight(k, d) <=> \E l \in Jobs : For(l, k, d)
      BY <1>1, InFlightMeans DEF WaitsOrIsDue
    <3> QED
      BY <1>1, <2>1, <3>2, <3>3
  <2> QED
    BY <2>2, <2>3
<1> QED
  BY <1>2, <1>3, <1>4, <1>5, <1>6, <1>7, <1>8

\* The evaluator is done with an incident, and leaves no job of its own.
LEMMA EvaluatorRests ==
    ASSUME IInv, EvaluatorIdle, adding["evaluator"] = {},
           evPc = "schedule" => evTodo = {},
           UNCHANGED <<queue, due, drPc, drBatch, drJob, adding, tries, last, received, dropped>>,
           row' \in [Incidents -> {"none", "opening", "recorded", "half_recorded",
                                   "unrecorded", "deleted"}],
           faultsLeft' \in 0 .. MaxFaults,
           \A k \in Incidents : /\ row'[k] = "none" => row[k] = "none"
                                /\ row'[k] = "recorded" => row[k] = "recorded"
    PROVE  IInv'
<1> USE DEF IInv
<1>1. Types'
  BY DEF Types, EvaluatorIdle
<1>2. Placed' /\ Jobs' = Jobs
  BY DEF Placed, Jobs, EvaluatorIdle
<1>3. Counted' /\ Untouched' /\ Budget' /\ Honest'
  BY <1>2, FewerJobs
<1>4. Opening'
  BY DEF Opening, EvaluatorIdle
<1>5. Capped'
  BY StillCapped
<1>6. RetryNotForgotten'
  BY <1>1, <1>2, NotForgotten
<1> QED
  BY <1>1, <1>2, <1>3, <1>4, <1>5, <1>6

\* The incident ends unrecorded, half recorded, deleted, or fully queued.
LEMMA EvaluatorEnds ==
    ASSUME IInv, RecordFails \/ RetriesQueued
    PROVE  IInv'
<1> USE DEF IInv
<1>1. /\ UNCHANGED <<queue, due, drPc, drBatch, drJob, adding, tries, last, received, dropped>>
      /\ EvaluatorIdle /\ evTodo = {} /\ adding["evaluator"] = {}
  BY DEF RecordFails, RetriesQueued, drVars, hist, Placed
<1>2. CASE RetriesQueued
  <2>1. UNCHANGED <<row, log, faultsLeft>>
    BY <1>2 DEF RetriesQueued
  <2> QED
    BY <1>1, <2>1, EvaluatorRests DEF Types
<1>3. CASE RecordFails
  <2>1. evInc \in Incidents /\ faultsLeft' \in 0 .. MaxFaults
    BY <1>3, FaultsBounded DEF RecordFails, Opening, FaultKinds
  <2>2. CASE UNCHANGED <<row, log>>
    BY <1>1, <2>1, <2>2, EvaluatorRests DEF Types
  <2>3. CASE InsertRow(evInc, "half_recorded")
    BY <1>1, <2>1, <2>3, RowWritten, EvaluatorRests
  <2>4. CASE row' = [row EXCEPT ![evInc] = "unrecorded"] /\ UNCHANGED log
    <3>1. row \in [Incidents -> {"none", "opening", "recorded", "half_recorded",
                                 "unrecorded", "deleted"}]
      BY DEF Types
    <3>2. /\ row' \in [Incidents -> {"none", "opening", "recorded", "half_recorded",
                                     "unrecorded", "deleted"}]
          /\ row'[evInc] = "unrecorded" /\ \A k \in Incidents \ {evInc} : row'[k] = row[k]
      BY <2>1, <2>4, <3>1
    <3> QED
      BY <1>1, <2>1, <3>2, EvaluatorRests
  <2> QED
    BY <1>3, <2>2, <2>3, <2>4 DEF RecordFails
<1> QED
  BY <1>2, <1>3

-----------------------------------------------------------------------------
(* Incidents open and are deleted, and the process restarts.               *)

LEMMA OpenStep ==
    ASSUME IInv, NEW i \in Incidents, OpenIncident(i)
    PROVE  IInv'
<1> USE DEF IInv
<1>1. /\ UNCHANGED <<log, queue, due, adding, faultsLeft, tries, last, received, dropped>>
      /\ UNCHANGED <<drPc, drBatch, drJob>>
      /\ evPc = "idle" /\ row[i] = "none" /\ row' = [row EXCEPT ![i] = "opening"]
      /\ evPc' = "send" /\ evInc' = i /\ evTodo' = Channels
  BY DEF OpenIncident, drVars, hist
<1>2. row \in [Incidents -> {"none", "opening", "recorded", "half_recorded",
                             "unrecorded", "deleted"}]
  BY DEF Types
<1>3. /\ row' \in [Incidents -> {"none", "opening", "recorded", "half_recorded",
                                 "unrecorded", "deleted"}]
      /\ row'[i] = "opening" /\ \A k \in Incidents \ {i} : row'[k] = row[k]
  BY <1>1, <1>2
<1>4. Types'
  BY <1>1, <1>3 DEF Types
<1>5. Placed' /\ Jobs' = Jobs
  BY <1>1 DEF Placed, Jobs
<1>6. Counted' /\ Untouched' /\ Budget' /\ Honest'
  BY <1>1, <1>3, <1>5, FewerJobs
<1>7. Opening'
  <2>1. (\A c \in Channels : tries[i][c] = 0) /\ \A k \in Jobs : k.incident # i
    BY <1>1 DEF Untouched
  <2> QED
    BY <1>1, <1>3, <1>5, <2>1 DEF Opening
<1>8. Capped'
  BY <1>1, StillCapped
<1>10. RetryNotForgotten'
  BY <1>1, <1>3, <1>4, <1>5, NotForgotten
<1> QED
  BY <1>4, <1>5, <1>6, <1>7, <1>8, <1>10

\* The row goes with its rule; the jobs stay.
LEMMA DeleteStep ==
    ASSUME IInv, NEW i \in Incidents, DeleteRow(i)
    PROVE  IInv'
<1> USE DEF IInv
<1>1. /\ UNCHANGED <<queue, due, evPc, evInc, evTodo, adding, faultsLeft>>
      /\ UNCHANGED <<drPc, drBatch, drJob, tries, last, received, dropped>>
      /\ row' = [row EXCEPT ![i] = "deleted"]
  BY DEF DeleteRow, evVars, drVars, hist
<1>2. /\ row \in [Incidents -> {"none", "opening", "recorded", "half_recorded",
                                "unrecorded", "deleted"}]
  BY DEF Types
<1>3. /\ row' \in [Incidents -> {"none", "opening", "recorded", "half_recorded",
                                 "unrecorded", "deleted"}]
      /\ row'[i] = "deleted" /\ \A k \in Incidents \ {i} : row'[k] = row[k]
  BY <1>1, <1>2
<1>5. Types'
  BY <1>1, <1>3 DEF Types
<1>6. Placed' /\ Jobs' = Jobs
  BY <1>1 DEF Placed, Jobs
<1>7. Counted' /\ Untouched' /\ Budget' /\ Honest'
  BY <1>1, <1>3, <1>6, FewerJobs
<1>8. Opening'
  BY <1>1, <1>3, <1>6 DEF Opening, For
<1>9. Capped'
  BY <1>1, StillCapped
<1>11. RetryNotForgotten'
  BY <1>1, <1>3, <1>5, <1>6, NotForgotten
<1> QED
  BY <1>5, <1>6, <1>7, <1>8, <1>9, <1>11

\* What is queued survives; what is in hand is dropped.
LEMMA RestartStep ==
    ASSUME IInv, Restart
    PROVE  IInv'
<1> USE DEF IInv
<1>1. /\ UNCHANGED <<log, queue, due, tries, last, received>>
      /\ evPc' = "idle" /\ evInc' = NoIncident /\ evTodo' = {}
      /\ drPc' = "idle" /\ drBatch' = {} /\ drJob' = {}
      /\ adding' = [t \in Tasks |-> {}]
      /\ dropped' = dropped \cup InHand
      /\ row' = [i \in Incidents |-> IF row[i] = "opening" THEN "unrecorded" ELSE row[i]]
  BY DEF Restart, EvaluatorIdle
<1>2. faultsLeft' \in 0 .. MaxFaults
  BY FaultsBounded DEF Restart, FaultKinds
<1>3. /\ row' \in [Incidents -> {"none", "opening", "recorded", "half_recorded",
                                 "unrecorded", "deleted"}]
      /\ \A i \in Incidents : row'[i] = IF row[i] = "opening" THEN "unrecorded" ELSE row[i]
  BY <1>1 DEF Types
<1>4. adding' \in [Tasks -> SUBSET Job] /\ adding'["evaluator"] = {} /\ adding'["drain"] = {}
  BY <1>1 DEF Tasks
<1>5. InHand \subseteq Deliveries
  <2>1. /\ drJob \cup UNION {adding[t] : t \in Tasks} \subseteq Job
        /\ drBatch \subseteq Job /\ evTodo \subseteq Channels
        /\ evPc = "schedule" => evInc \in Incidents
    BY JobsAreJobs DEF Types, Opening
  <2>2. \A S \in SUBSET Job : {Delivery(j) : j \in S} \subseteq Deliveries
    BY JobFields
  <2>3. {<<evInc, c>> : c \in IF evPc = "schedule" THEN evTodo ELSE {}} \subseteq Deliveries
    BY <2>1 DEF Deliveries
  <2> QED
    BY <2>1, <2>2, <2>3 DEF InHand
<1>6. Types'
  BY <1>1, <1>2, <1>3, <1>4, <1>5 DEF Types
<1>7. Placed'
  BY <1>1, <1>4 DEF Placed
<1>8. Jobs' = queue
  BY <1>1, <1>4 DEF Jobs
<1>9. Counted' /\ Untouched' /\ Budget' /\ Honest'
  <2>1. queue \subseteq Jobs /\ queue \cap drJob = {}
    BY DEF Jobs, Placed
  <2> QED
    BY <1>1, <1>3, <1>8, <2>1, FewerJobs
<1>10. Opening'
  BY <1>1 DEF Opening
<1>11. Capped'
  <2>1. IsFiniteSet(queue) /\ Cardinality(queue) \in Nat /\ MaxRetryLen \in Nat
        /\ Cardinality(queue) <= MaxRetryLen + 1
    BY Room
  <2> QED
    BY <1>1, <1>4, <2>1 DEF Capped, Tasks
<1>13. RetryNotForgotten'
  <2>1. \A i \in Incidents, c \in Channels :
            InFlight(i, c) => (\E j \in queue : For(j, i, c)) \/ <<i, c>> \in dropped'
    <3> TAKE i \in Incidents, c \in Channels
    <3>1. \A j \in queue : Delivery(j) = <<i, c>> <=> For(j, i, c)
      BY JobFields DEF Types
    <3> QED
      BY <1>1, <3>1 DEF InFlight
  <2>2. \A i \in Incidents, c \in Channels :
            InFlight(i, c)' <=> \E j \in queue : For(j, i, c)
    <3>1. WaitsOrIsDue'
      BY <1>6, <1>7, InFlightMeans, PTL
    <3> QED
      BY <1>1, <1>8, <3>1 DEF WaitsOrIsDue, For
  <2>3. \A i \in Incidents, c \in Channels :
            IsRetryable(Result(i, c))' <=> IsRetryable(Result(i, c))
    BY <1>1 DEF Result
  <2> QED
    BY <1>1, <1>3, <2>1, <2>2, <2>3 DEF RetryNotForgotten
<1> QED
  BY <1>6, <1>7, <1>9, <1>10, <1>11, <1>13

-----------------------------------------------------------------------------
(* The invariant.                                                          *)

LEMMA InitInv == Init => IInv
<1> SUFFICES ASSUME Init PROVE IInv
  OBVIOUS
<1>1. /\ row = [i \in Incidents |-> "none"]
      /\ tries = [i \in Incidents |-> [c \in Channels |-> 0]]
      /\ last = [i \in Incidents |-> [c \in Channels |-> "none"]]
      /\ adding = [t \in Tasks |-> {}]
      /\ queue = {} /\ due = {} /\ drBatch = {} /\ drJob = {}
      /\ evPc = "idle" /\ evTodo = {} /\ drPc = "idle" /\ received = {}
  BY DEF Init
<1>2. Types
  BY DeliveryAssumption DEF Init, Types
<1>3. Jobs = {} /\ Placed
  BY <1>1 DEF Jobs, Placed, Tasks
<1>4. Counted /\ Opening /\ Untouched
  BY <1>1, <1>3 DEF Counted, Opening, Untouched
<1>5. Capped
  BY <1>1, FS_EmptySet, DeliveryAssumption DEF Capped, Tasks
<1>6. Budget /\ Honest /\ RetryNotForgotten
  BY <1>1 DEF Budget, Honest, RetryNotForgotten, MAX_DELIVERY_ATTEMPTS
<1> QED
  BY <1>2, <1>3, <1>4, <1>5, <1>6 DEF IInv

LEMMA NextInv == IInv /\ [Next]_vars => IInv'
<1> SUFFICES ASSUME IInv, [Next]_vars PROVE IInv'
  OBVIOUS
<1>1. ASSUME NEW i \in Incidents, OpenIncident(i) \/ DeleteRow(i) PROVE IInv'
  BY <1>1, OpenStep, DeleteStep
<1>2. CASE Evaluator
  <2>1. ASSUME NEW c \in Channels, NEW resp \in Answers, FirstSend(c, resp) PROVE IInv'
    BY <2>1, FirstSendStep
  <2>2. ASSUME NEW c \in Channels, QueueFirstRetry(c) PROVE IInv'
    BY <2>2, FirstRetryStep
  <2>3. CASE RecordOk
    BY <2>3, RecordOkStep
  <2>4. CASE RecordFails \/ RetriesQueued
    BY <2>4, EvaluatorEnds
  <2>5. CASE AddFirstRetry
    BY <2>5, AddSteps
  <2> QED
    BY <1>2, <2>1, <2>2, <2>3, <2>4, <2>5 DEF Evaluator
<1>3. CASE Drain
  <2>1. CASE ReadDue \/ BatchDone \/ \E j \in drBatch : SkipJob(j)
    BY <2>1, QuietDrainSteps
  <2>2. CASE RemoveDue
    BY <2>2, RemoveStep
  <2>3. ASSUME NEW j \in drBatch, NEW resp \in Answers, RetrySend(j, resp) PROVE IInv'
    BY <2>3, RetrySendStep
  <2>4. ASSUME NEW j \in drJob, RetryLog(j) PROVE IInv'
    BY <2>4, LogStep
  <2>5. ASSUME NEW j \in drJob, QueueNextRetry(j) PROVE IInv'
    BY <2>5, NextRetryStep
  <2>6. CASE AddNextRetry
    BY <2>6, AddSteps
  <2> QED
    BY <1>3, <2>1, <2>2, <2>3, <2>4, <2>5, <2>6 DEF Drain
<1>4. CASE \E j \in queue : JobComesDue(j)
  BY <1>4, QuietDrainSteps
<1>5. CASE Restart
  BY <1>5, RestartStep
<1>6. CASE UNCHANGED vars
  <2>1. /\ UNCHANGED <<row, log, queue, due, evPc, evInc, evTodo, drPc, drBatch, drJob>>
        /\ UNCHANGED <<adding, faultsLeft, tries, last, received, dropped, evVars>>
    BY <1>6 DEF vars, evVars, drVars, hist
  <2>2. Types' /\ Placed'
    BY <2>1 DEF IInv, Types, Placed
  <2>3. Capped'
    BY <2>1, StillCapped DEF IInv
  <2>4. Jobs' = Jobs
    BY <2>1 DEF Jobs
  <2> QED
    BY <2>1, <2>2, <2>3, <2>4, JobsMove
<1> QED
  BY <1>1, <1>2, <1>3, <1>4, <1>5, <1>6 DEF Next

LEMMA InvHolds == Spec => []IInv
  BY InitInv, NextInv, PTL DEF Spec

-----------------------------------------------------------------------------
(* The delivery log.                                                       *)

LogTypes ==
    /\ log \in [Incidents -> [Keys -> {"none", "ok", "failed"}]]
    /\ evLog \in [Keys -> {"none", "ok", "failed"}]
    /\ unlogged \subseteq Deliveries

\* The entry of a key tells the last send of a channel c that has it.
Tells(entry, i, c, k) == Key[c] = k /\ entry = LogEntry(Result(i, c))

\* While an incident is sent, the delivery_log has an entry for every key sent
\* to, and it tells a send.
Gathered ==
    evPc = "send" =>
        \A c \in Channels \ evTodo :
            \E d \in Channels \ evTodo : Tells(evLog[Key[c]], evInc, d, Key[c])

LogInv == LogTypes /\ Gathered /\ LogTellsSends

LEMMA KeysOfChannels ==
    /\ \A c \in Channels : Key[c] \in Keys
    /\ \A k \in Keys : \E c \in Channels : Key[c] = k
    /\ EmptyLog \in [Keys -> {"none", "ok", "failed"}]
    /\ \A k \in Keys : EmptyLog[k] = "none"
  BY DEF Keys, EmptyLog

\* The log of a row as LogTellsSends wants it.
RowTells(i) ==
    \A k \in Keys :
        /\ row[i] \in {"recorded", "half_recorded"} =>
              \E c \in Channels :
                 Tells(log[i][k], i, c, k)
                 \/ (Key[c] = k /\ <<i, c>> \in unlogged \cup BeingLogged)
        /\ log[i][k] = "ok" => \E c \in Channels : Key[c] = k /\ <<i, c>> \in received

LEMMA RowsTell == LogTellsSends <=> \A i \in Incidents : RowTells(i)
  BY DEF LogTellsSends, RowTells, Tells

\* A step that leaves a row, its log and its sends alone leaves what it tells,
\* if it takes nothing out of what is not logged.
LEMMA RowLeftAlone ==
    ASSUME NEW i \in Incidents, RowTells(i), log'[i] = log[i],
           row'[i] \in {"recorded", "half_recorded"} => row[i] = row'[i],
           \A c \in Channels : last'[i][c] = last[i][c],
           received \subseteq received',
           \A c \in Channels : <<i, c>> \in unlogged \cup BeingLogged
                               => <<i, c>> \in (unlogged \cup BeingLogged)'
    PROVE  RowTells(i)'
<1>1. \A c \in Channels, k \in Keys : Tells(log[i][k], i, c, k) => Tells(log[i][k], i, c, k)'
  BY DEF Tells, Result
<1> QED
  BY <1>1 DEF RowTells

\* A step that writes no log, sends nothing and takes nothing out of what is
\* not logged.
LEMMA LogLeftAlone ==
    ASSUME LogInv, UNCHANGED <<log, last, received>>,
           unlogged' \subseteq Deliveries,
           \A x \in unlogged \cup BeingLogged : x \in (unlogged \cup BeingLogged)',
           \A i \in Incidents : row'[i] \in {"recorded", "half_recorded"} => row[i] = row'[i],
           evLog' \in [Keys -> {"none", "ok", "failed"}], Gathered'
    PROVE  LogInv'
<1>1. LogTypes'
  BY DEF LogInv, LogTypes
<1>2. \A i \in Incidents : RowTells(i)'
  BY RowsTell, RowLeftAlone DEF LogInv
<1>3. LogTellsSends'
  BY <1>2 DEF LogTellsSends, RowTells, Tells
<1> QED
  BY <1>1, <1>3 DEF LogInv

LEMMA LogQuietSteps ==
    ASSUME IInv, LogInv,
           \/ AddFirstRetry \/ RetriesQueued \/ ReadDue \/ RemoveDue \/ AddNextRetry \/ BatchDone
           \/ \E c \in Channels : QueueFirstRetry(c)
           \/ \E j \in drBatch : SkipJob(j)
           \/ \E j \in drJob : QueueNextRetry(j)
           \/ \E j \in queue : JobComesDue(j)
           \/ UNCHANGED vars
    PROVE  LogInv'
<1>1. /\ UNCHANGED <<row, log, last, received, unlogged>>
      /\ evLog' = evLog \/ evLog' = EmptyLog
      /\ drPc = "log" => drPc' = "log" /\ drJob' = drJob
      /\ evPc' = "send" => UNCHANGED evVars
  BY DEF AddFirstRetry, RetriesQueued, ReadDue, RemoveDue, AddNextRetry, BatchDone,
         QueueFirstRetry, SkipJob, QueueNextRetry, JobComesDue, EvaluatorIdle, Enqueue,
         vars, evVars, drVars, hist
<1>2. \A x \in unlogged \cup BeingLogged : x \in (unlogged \cup BeingLogged)'
  BY <1>1 DEF BeingLogged
<1>3. Gathered'
  BY <1>1 DEF LogInv, Gathered, Tells, Result, evVars
<1>4. evLog' \in [Keys -> {"none", "ok", "failed"}] /\ unlogged' \subseteq Deliveries
  BY <1>1, KeysOfChannels DEF LogInv, LogTypes
<1> QED
  BY <1>1, <1>2, <1>3, <1>4, LogLeftAlone

\* An incident is opened or deleted; its log is empty then.
LEMMA LogOpenAndDelete ==
    ASSUME IInv, LogInv, NEW i \in Incidents, OpenIncident(i) \/ DeleteRow(i)
    PROVE  LogInv'
<1>1. /\ UNCHANGED <<last, received, unlogged, drPc, drJob>>
      /\ row \in [Incidents -> {"none", "opening", "recorded", "half_recorded",
                                "unrecorded", "deleted"}]
  BY DEF OpenIncident, DeleteRow, drVars, hist, IInv, Types
<1>2. BeingLogged' = BeingLogged
  BY <1>1 DEF BeingLogged
<1>3. CASE OpenIncident(i)
  <2>1. /\ row'[i] = "opening" /\ \A k \in Incidents \ {i} : row'[k] = row[k]
        /\ evTodo' = Channels /\ evLog' = EmptyLog /\ log' = log
    BY <1>1, <1>3 DEF OpenIncident
  <2>2. Gathered'
    BY <2>1 DEF Gathered
  <2>3. \A k \in Incidents : row'[k] \in {"recorded", "half_recorded"} => row[k] = row'[k]
    BY <2>1
  <2> QED
    BY <1>1, <1>2, <2>1, <2>2, <2>3, LogLeftAlone, KeysOfChannels DEF LogInv, LogTypes
<1>4. CASE DeleteRow(i)
  <2>1. /\ row'[i] = "deleted" /\ \A k \in Incidents \ {i} : row'[k] = row[k]
        /\ UNCHANGED <<evPc, evInc, evTodo, evLog>>
        /\ log' = [log EXCEPT ![i] = EmptyLog]
    BY <1>1, <1>4 DEF DeleteRow, evVars
  <2>2. /\ log' \in [Incidents -> [Keys -> {"none", "ok", "failed"}]]
        /\ log'[i] = EmptyLog /\ \A k \in Incidents \ {i} : log'[k] = log[k]
    BY <2>1, KeysOfChannels DEF LogInv, LogTypes
  <2>3. Gathered'
    BY <1>1, <2>1 DEF LogInv, Gathered, Tells, Result
  <2>4. RowTells(i)'
    BY <2>1, <2>2, KeysOfChannels DEF RowTells
  <2>5. \A k \in Incidents \ {i} : RowTells(k)'
    BY <1>1, <1>2, <2>1, <2>2, RowLeftAlone, RowsTell DEF LogInv
  <2>6. LogTellsSends'
    <3>1. \A k \in Incidents : RowTells(k)'
      BY <2>4, <2>5
    <3> QED
      BY <3>1 DEF LogTellsSends, RowTells, Tells
  <2> QED
    BY <1>1, <2>1, <2>2, <2>3, <2>6 DEF LogInv, LogTypes
<1> QED
  BY <1>3, <1>4

\* The first send of a channel writes the entry of its key; the row is not
\* there yet.
LEMMA LogFirstSend ==
    ASSUME IInv, LogInv, NEW c \in Channels, NEW resp \in Answers, FirstSend(c, resp)
    PROVE  LogInv'
<1> DEFINE entry == LogEntry(DeliverChannel(Kind[c], resp))
<1>0. PICK i \in Incidents : i = evInc
  BY DEF FirstSend, IInv, Opening
<1>1. /\ UNCHANGED <<row, log, evPc, evInc, drPc, drJob, unlogged>>
      /\ i = evInc /\ evPc = "send" /\ c \in evTodo /\ evTodo' = evTodo \ {c} /\ i \in Incidents
      /\ row[i] \in {"opening", "deleted"}
      /\ Send(i, c, resp) /\ evLog' = [evLog EXCEPT ![Key[c]] = entry]
  BY <1>0 DEF FirstSend, drVars, IInv, Opening
<1>2. /\ received \subseteq received' /\ \A d \in Channels : d # c => last'[i][d] = last[i][d]
      /\ \A k \in Incidents \ {i}, d \in Channels : last'[k][d] = last[k][d]
      /\ last'[i][c] = resp
  <2>1. last \in [Incidents -> [Channels -> Responses \cup {"none"}]]
    BY DEF IInv, Types
  <2> QED
    BY <1>1, <2>1 DEF Send
<1>3. /\ entry = LogEntry(Result(i, c))' /\ LogEntry(Result(i, c))' \in {"ok", "failed"}
  <2>1. (LogEntry(Result(i, c)) \in {"ok", "failed"})'
    <3>1. \A x, y : LogEntry(Result(x, y)) \in {"ok", "failed"}
      BY DEF LogEntry
    <3> QED
      BY <3>1 DEF LogEntry
  <2> QED
    BY <1>1, <1>2, <2>1 DEF Result
<1> HIDE DEF entry
<1>4. /\ evLog' \in [Keys -> {"none", "ok", "failed"}] /\ evLog'[Key[c]] = entry
      /\ \A k \in Keys \ {Key[c]} : evLog'[k] = evLog[k]
  BY <1>1, <1>3, KeysOfChannels DEF LogInv, LogTypes
<1>5. Gathered'
  <2> SUFFICES ASSUME NEW d \in Channels \ evTodo'
               PROVE  \E e \in Channels \ evTodo' : Tells(evLog[Key[d]], evInc, e, Key[d])'
    BY DEF Gathered
  <2>1. CASE Key[d] = Key[c]
    <3>1. Tells(evLog[Key[d]], evInc, c, Key[d])'
      BY <1>1, <1>3, <1>4, <2>1 DEF Tells
    <3> QED
      BY <1>1, <3>1
  <2>2. CASE Key[d] # Key[c]
    <3>1. PICK e \in Channels \ evTodo : Tells(evLog[Key[d]], evInc, e, Key[d])
      BY <1>1, <2>2 DEF LogInv, Gathered
    <3>2. Tells(evLog[Key[d]], evInc, e, Key[d])' /\ e \notin evTodo'
      BY <1>1, <1>2, <1>4, <2>2, <3>1, KeysOfChannels DEF Tells, Result
    <3> QED
      BY <3>1, <3>2
  <2> QED
    BY <2>1, <2>2
<1>6. BeingLogged' = BeingLogged
  BY <1>1 DEF BeingLogged
<1>7. RowTells(i)'
  <2>1. RowTells(i)
    BY <1>1, RowsTell DEF LogInv
  <2> QED
    BY <1>1, <1>2, <2>1 DEF RowTells
<1>8. \A k \in Incidents \ {i} : RowTells(k)'
  BY <1>1, <1>2, <1>6, RowLeftAlone, RowsTell DEF LogInv
<1>9. LogTellsSends'
  <2>1. \A k \in Incidents : RowTells(k)'
    BY <1>7, <1>8
  <2> QED
    BY <2>1 DEF LogTellsSends, RowTells, Tells
<1> QED
  BY <1>1, <1>4, <1>5, <1>9 DEF LogInv, LogTypes

\* The row is inserted with what was gathered, which covers every key by then.
LEMMA LogRecord ==
    ASSUME IInv, LogInv, RecordOk \/ RecordFails
    PROVE  LogInv'
<1>0. PICK i \in Incidents : i = evInc
  BY DEF RecordOk, RecordFails, IInv, Opening
<1>1. /\ UNCHANGED <<last, received, unlogged, drPc, drJob>>
      /\ i = evInc /\ evPc = "send" /\ evTodo = {} /\ i \in Incidents /\ evPc' # "send"
      /\ evLog' = EmptyLog
  BY <1>0 DEF RecordOk, RecordFails, EvaluatorIdle, drVars, hist
<1>2. Gathered' /\ BeingLogged' = BeingLogged
  BY <1>1 DEF Gathered, BeingLogged
<1>3. \/ \E state \in {"recorded", "half_recorded"} : InsertRow(i, state)
      \/ UNCHANGED log /\ row' = [row EXCEPT ![i] = "unrecorded"]
      \/ UNCHANGED <<row, log>>
  BY <1>0 DEF RecordOk, RecordFails
<1>4. row \in [Incidents -> {"none", "opening", "recorded", "half_recorded",
                             "unrecorded", "deleted"}]
  BY DEF IInv, Types
<1>5. CASE UNCHANGED log /\ (row' = [row EXCEPT ![i] = "unrecorded"] \/ UNCHANGED row)
  <2>1. \A k \in Incidents : row'[k] \in {"recorded", "half_recorded"} => row[k] = row'[k]
    BY <1>4, <1>5
  <2> QED
    BY <1>1, <1>2, <1>5, <2>1, LogLeftAlone, KeysOfChannels DEF LogInv, LogTypes
<1>6. ASSUME NEW state \in {"recorded", "half_recorded"}, InsertRow(i, state)
      PROVE  LogInv'
  <2>1. /\ log' \in [Incidents -> [Keys -> {"none", "ok", "failed"}]]
        /\ log'[i] = evLog /\ \A k \in Incidents \ {i} : log'[k] = log[k] /\ row'[k] = row[k]
    BY <1>1, <1>4, <1>6 DEF LogInv, LogTypes, InsertRow
  <2>2. RowTells(i)'
    <3> SUFFICES ASSUME NEW k \in Keys
                 PROVE  \E c \in Channels :
                           /\ Tells(log[i][k], i, c, k)'
                           /\ log'[i][k] = "ok" => <<i, c>> \in received'
      BY <1>1 DEF RowTells, Tells
    <3>1. PICK c \in Channels : Tells(evLog[k], i, c, k)
      <4>1. PICK d \in Channels : Key[d] = k
        BY KeysOfChannels
      <4> QED
        BY <1>1, <4>1 DEF LogInv, Gathered
    <3>2. evLog[k] = "ok" => last[i][c] = "accepted"
      BY <3>1, SuccessIsAccepted DEF Tells
    <3>3. Tells(log[i][k], i, c, k)'
      BY <1>1, <2>1, <3>1 DEF Tells, Result
    <3> QED
      BY <1>1, <2>1, <3>2, <3>3 DEF IInv, Honest
  <2>3. \A k \in Incidents \ {i} : RowTells(k)'
    BY <1>1, <1>2, <2>1, RowLeftAlone, RowsTell DEF LogInv
  <2>4. LogTellsSends'
    <3>1. \A k \in Incidents : RowTells(k)'
      BY <2>2, <2>3
    <3> QED
      BY <3>1 DEF LogTellsSends, RowTells, Tells
  <2> QED
    BY <1>1, <1>2, <2>1, <2>4, KeysOfChannels DEF LogInv, LogTypes
<1> QED
  BY <1>3, <1>5, <1>6

\* A retry is sent: the log is to tell of it next.
LEMMA LogRetrySend ==
    ASSUME IInv, LogInv, NEW j \in drBatch, NEW resp \in Answers, RetrySend(j, resp)
    PROVE  LogInv'
<1> DEFINE i == j.incident
           c == j.channel
<1>1. /\ UNCHANGED <<row, log, evPc, evInc, evTodo, evLog, unlogged>>
      /\ drPc = "jobs" /\ drPc' = "log" /\ drJob' = {j}
      /\ j \in Job /\ i \in Incidents /\ c \in Channels /\ j \in Jobs
      /\ Send(i, c, resp)
  BY JobFields DEF RetrySend, IInv, Types, Jobs, evVars
<1>2. BeingLogged = {} /\ BeingLogged' = {<<i, c>>}
  BY <1>1 DEF BeingLogged, Delivery
<1>3. evPc = "send" => evInc # i
  BY <1>1 DEF IInv, Opening
<1> HIDE DEF i, c
<1>4. /\ received \subseteq received'
      /\ \A k \in Incidents, d \in Channels : k # i \/ d # c => last'[k][d] = last[k][d]
  BY <1>1, Sending DEF IInv
<1>5. Gathered'
  <2>1. evPc = "send" => evInc \in Incidents
    BY DEF IInv, Opening
  <2> QED
    BY <1>1, <1>3, <1>4, <2>1 DEF LogInv, Gathered, Tells, Result
<1>6. RowTells(i)'
  <2> SUFFICES ASSUME NEW k \in Keys
               PROVE  /\ row'[i] \in {"recorded", "half_recorded"} =>
                            \E d \in Channels :
                               Tells(log[i][k], i, d, k)'
                               \/ (Key[d] = k /\ <<i, d>> \in (unlogged \cup BeingLogged)')
                      /\ log'[i][k] = "ok" =>
                            \E d \in Channels : Key[d] = k /\ <<i, d>> \in received'
    BY DEF RowTells
  <2>1. RowTells(i)
    BY <1>1, RowsTell DEF LogInv
  <2>2. log'[i][k] = "ok" => \E d \in Channels : Key[d] = k /\ <<i, d>> \in received'
    BY <1>1, <1>4, <2>1 DEF RowTells
  <2>3. CASE Key[c] = k
    BY <1>1, <1>2, <2>2, <2>3
  <2>4. CASE Key[c] # k
    <3>1. ASSUME NEW d \in Channels, Tells(log[i][k], i, d, k)
          PROVE  Tells(log[i][k], i, d, k)'
      BY <1>1, <1>4, <2>4, <3>1 DEF Tells, Result
    <3> QED
      BY <1>1, <1>2, <2>1, <2>2, <3>1 DEF RowTells
  <2> QED
    BY <2>3, <2>4
<1>7. \A k \in Incidents \ {i} : RowTells(k)'
  BY <1>1, <1>2, <1>4, RowLeftAlone, RowsTell DEF LogInv
<1>8. LogTellsSends'
  <2>1. \A k \in Incidents : RowTells(k)'
    BY <1>6, <1>7
  <2> QED
    BY <2>1 DEF LogTellsSends, RowTells, Tells
<1> QED
  BY <1>1, <1>5, <1>8 DEF LogInv, LogTypes

\* The entry of the key is overwritten, or the delivery is not logged.
LEMMA LogRetryLog ==
    ASSUME IInv, LogInv, NEW j \in drJob, RetryLog(j)
    PROVE  LogInv'
<1> DEFINE i == j.incident
           c == j.channel
<1>1. /\ UNCHANGED <<row, evPc, evInc, evTodo, evLog, last, received>>
      /\ drPc = "log" /\ drJob = {j} /\ drPc' # "log"
      /\ i \in Incidents /\ c \in Channels /\ <<i, c>> \in Deliveries
  BY JobFields DEF RetryLog, Delivery, IInv, Placed, Types, evVars
<1>2. \/ log' = log /\ unlogged' = unlogged \cup {<<i, c>>}
      \/ /\ log' = IF row[i] \in {"recorded", "half_recorded"}
                   THEN [log EXCEPT ![i][Key[c]] = LogEntry(Result(i, c))] ELSE log
         /\ unlogged' = unlogged \ {<<i, c>>}
  BY DEF RetryLog
<1>3. BeingLogged = {<<i, c>>} /\ BeingLogged' = {}
  BY <1>1 DEF BeingLogged, Delivery
<1> HIDE DEF i, c
<1>4. Gathered'
  BY <1>1 DEF LogInv, Gathered, Tells, Result
<1>5. CASE log' = log /\ unlogged' = unlogged \cup {<<i, c>>}
  BY <1>1, <1>3, <1>4, <1>5, LogLeftAlone DEF LogInv, LogTypes
<1>6. CASE /\ log' = IF row[i] \in {"recorded", "half_recorded"}
                     THEN [log EXCEPT ![i][Key[c]] = LogEntry(Result(i, c))] ELSE log
           /\ unlogged' = unlogged \ {<<i, c>>}
  <2>1. /\ LogEntry(Result(i, c)) \in {"ok", "failed"} /\ Key[c] \in Keys
        /\ LogEntry(Result(i, c)) = "ok" => <<i, c>> \in received
    BY <1>1, SuccessIsAccepted, KeysOfChannels DEF IInv, Honest
  <2>2. /\ log' \in [Incidents -> [Keys -> {"none", "ok", "failed"}]]
        /\ \A k \in Incidents \ {i} : log'[k] = log[k]
        /\ \A k \in Keys \ {Key[c]} : log'[i][k] = log[i][k]
        /\ row[i] \in {"recorded", "half_recorded"} => log'[i][Key[c]] = LogEntry(Result(i, c))
        /\ row[i] \notin {"recorded", "half_recorded"} => log'[i] = log[i]
    BY <1>1, <1>6, <2>1 DEF LogInv, LogTypes
  <2>4. RowTells(i)
    BY <1>1, RowsTell DEF LogInv
  <2>5. RowTells(i)'
    <3> SUFFICES ASSUME NEW k \in Keys
                 PROVE  /\ row[i] \in {"recorded", "half_recorded"} =>
                              \E d \in Channels :
                                 \/ Key[d] = k /\ log'[i][k] = LogEntry(Result(i, d))
                                 \/ Key[d] = k /\ <<i, d>> \in unlogged'
                        /\ log'[i][k] = "ok" =>
                              \E d \in Channels : Key[d] = k /\ <<i, d>> \in received
      BY <1>1, <1>3 DEF RowTells, Tells, Result
    <3>1. CASE k = Key[c] /\ row[i] \in {"recorded", "half_recorded"}
      BY <1>1, <2>1, <2>2, <3>1
    <3>2. CASE k # Key[c] \/ row[i] \notin {"recorded", "half_recorded"}
      <4>1. log'[i][k] = log[i][k]
        BY <2>2, <3>2
      <4>2. \A d \in Channels : Key[d] = k /\ k # Key[c] => <<i, d>> # <<i, c>>
        OBVIOUS
      <4> QED
        BY <1>3, <1>6, <2>4, <3>2, <4>1, <4>2 DEF RowTells, Tells
    <3> QED
      BY <3>1, <3>2
  <2>6. \A k \in Incidents \ {i} : RowTells(k)'
    BY <1>1, <1>3, <1>6, <2>2, RowLeftAlone, RowsTell DEF LogInv
  <2>7. LogTellsSends'
    <3>1. \A k \in Incidents : RowTells(k)'
      BY <2>5, <2>6
    <3> QED
      BY <3>1 DEF LogTellsSends, RowTells, Tells
  <2> QED
    BY <1>1, <1>4, <1>6, <2>2, <2>7 DEF LogInv, LogTypes
<1> QED
  BY <1>2, <1>5, <1>6

\* What was sent again and not logged stays so.
LEMMA LogRestart ==
    ASSUME IInv, LogInv, Restart
    PROVE  LogInv'
<1>1. /\ UNCHANGED <<log, last, received>> /\ unlogged' = unlogged \cup BeingLogged
      /\ evLog' = EmptyLog /\ evPc' = "idle"
      /\ row' = [k \in Incidents |-> IF row[k] = "opening" THEN "unrecorded" ELSE row[k]]
  BY DEF Restart, EvaluatorIdle
<1>2. BeingLogged \subseteq Deliveries
  BY JobFields DEF IInv, Types, BeingLogged
<1>3. Gathered' /\ unlogged' \subseteq Deliveries
  BY <1>1, <1>2 DEF Gathered, LogInv, LogTypes
<1>4. \A k \in Incidents : row'[k] \in {"recorded", "half_recorded"} => row[k] = row'[k]
  BY <1>1
<1> QED
  BY <1>1, <1>3, <1>4, LogLeftAlone, KeysOfChannels

LEMMA InitLog == Init => LogInv
  BY KeysOfChannels DEF Init, LogInv, LogTypes, Gathered, LogTellsSends

LEMMA NextLog == IInv /\ LogInv /\ [Next]_vars => LogInv'
<1> SUFFICES ASSUME IInv, LogInv, [Next]_vars PROVE LogInv'
  OBVIOUS
<1>1. ASSUME NEW i \in Incidents, OpenIncident(i) \/ DeleteRow(i) PROVE LogInv'
  BY <1>1, LogOpenAndDelete
<1>2. CASE Evaluator
  <2>1. ASSUME NEW c \in Channels, NEW resp \in Answers, FirstSend(c, resp) PROVE LogInv'
    BY <2>1, LogFirstSend
  <2>2. CASE RecordOk \/ RecordFails
    BY <2>2, LogRecord
  <2>3. CASE AddFirstRetry \/ RetriesQueued \/ \E c \in Channels : QueueFirstRetry(c)
    BY <2>3, LogQuietSteps
  <2> QED
    BY <1>2, <2>1, <2>2, <2>3 DEF Evaluator
<1>3. CASE Drain
  <2>1. ASSUME NEW j \in drBatch, NEW resp \in Answers, RetrySend(j, resp) PROVE LogInv'
    BY <2>1, LogRetrySend
  <2>2. ASSUME NEW j \in drJob, RetryLog(j) PROVE LogInv'
    BY <2>2, LogRetryLog
  <2>3. CASE \/ ReadDue \/ RemoveDue \/ AddNextRetry \/ BatchDone
             \/ \E j \in drBatch : SkipJob(j)
             \/ \E j \in drJob : QueueNextRetry(j)
    BY <2>3, LogQuietSteps
  <2> QED
    BY <1>3, <2>1, <2>2, <2>3 DEF Drain
<1>4. CASE (\E j \in queue : JobComesDue(j)) \/ UNCHANGED vars
  BY <1>4, LogQuietSteps
<1>5. CASE Restart
  BY <1>5, LogRestart
<1> QED
  BY <1>1, <1>2, <1>3, <1>4, <1>5 DEF Next

LEMMA LogInvHolds == Spec => []LogInv
  BY InitLog, NextLog, InvHolds, PTL DEF Spec

-----------------------------------------------------------------------------
(* Theorems.                                                               *)

\* However many jobs the two tasks add with no lock between the length check
\* and the insertion, the queue is one job over its cap at most, what is due is
\* queued, and every variable keeps its type (push_delivery_retry).
THEOREM QueueIsCapped == Spec => []TypeOK
<1>1. IInv /\ LogInv => TypeOK
  <2> SUFFICES ASSUME IInv, LogInv PROVE TypeOK
    OBVIOUS
  <2>1. Cardinality(queue) <= MaxRetryLen + 1
    BY Room DEF IInv
  <2> QED
    BY <2>1 DEF IInv, Types, TypeOK, LogInv, LogTypes
<1> QED
  BY <1>1, InvHolds, LogInvHolds, PTL

\* No delivery is sent more than MAX_DELIVERY_ATTEMPTS times, no delivery has
\* two retries waiting, and the one that waits knows which attempt it is
\* (maybe_schedule_retry, drain_delivery_retries).
THEOREM RetriesKeepTheBudget == Spec => []RetriesWithinBudget
<1>1. IInv => RetriesWithinBudget
  <2> SUFFICES ASSUME IInv PROVE RetriesWithinBudget
    OBVIOUS
  <2>1. /\ Waiting = queue \cup drBatch \cup (adding["evaluator"] \cup adding["drain"])
        /\ Jobs \subseteq Job
    BY JobsAreJobs DEF IInv, Waiting
  <2>2. \A j \in Waiting : j \in Jobs /\ j \notin drJob /\ j \in Job
    BY <2>1 DEF IInv, Jobs, Placed
  <2>3. ASSUME NEW j \in Waiting
        PROVE  j.attempt = tries[j.incident][j.channel] + 1
    <3>1. j.attempt \in Nat /\ tries[j.incident][j.channel] = j.attempt - 1
      BY <2>2, JobFields DEF IInv, Counted
    <3> QED
      BY <3>1
  <2>4. ASSUME NEW j \in Waiting, NEW k \in Waiting, Delivery(k) = Delivery(j)
        PROVE  k = j
    <3>1. For(k, j.incident, j.channel)
      BY <2>4 DEF Delivery, For
    <3> QED
      BY <2>2, <3>1 DEF IInv, Counted
  <2> QED
    BY <2>3, <2>4 DEF IInv, Budget, RetriesWithinBudget
<1> QED
  BY <1>1, InvHolds, PTL

\* The delivery log tells what was sent: an entry is the outcome of the last
\* send of a channel with its key, unless that one is not logged yet or could
\* not be, and "ok" was accepted by the provider, however retries overwrite
\* the entries (SendResult::delivery_key, update_delivery_status).
THEOREM LogIsHonest == Spec => []LogTellsSends
  BY LogInvHolds, PTL DEF LogInv

\* A transient failure of a recorded incident has a retry waiting or in hand
\* while it has budget left, or Redis, a full queue or a restart dropped it.
THEOREM RetriesAreNotForgotten == Spec => []RetryNotForgotten
  BY InvHolds, PTL DEF IInv

=============================================================================
