---------------------------- MODULE IngestProofs ----------------------------
(***************************************************************************)
(* Theorems about Ingest and the LiveFeed that follows it: the names of    *)
(* tasks, and what Redis says of workers, with consumers of one tenant     *)
(* overlapping command by command; and what a dashboard is sent.           *)
(***************************************************************************)
EXTENDS LiveFeed, SequenceTheorems, WellFoundedInduction, TLAPS

Phases == {"idle", "lookup", "cache", "store", "sendTasks", "sample", "plan", "update"}

\* A job is a record; only one that updates workers is past a first command.
JobOK(j) ==
    /\ DOMAIN j = {"at", "events", "todo", "nr", "owed", "spoilt"}
    /\ j.at \in Phases /\ j.nr \in 1 .. 3 /\ j.spoilt \in BOOLEAN
    /\ j.nr > 1 => j.at = "update"
    /\ j.at \in {"lookup", "cache", "store", "sendTasks"} => j.events \in Seq(TaskEvents)
    /\ j.at \in {"sample", "plan"} => j.events \in Seq(WorkerEvents)

\* After the lookup no event of a task whose name was to be found is without it.
Filled(j) ==
    j.at \in {"cache", "store"} =>
        \A e \in ToSet(j.events) : e.name = NoName => e.task \notin j.owed

Jobs ==
    /\ job = [c \in Consumers |-> job[c]]
    /\ \A c \in Consumers : JobOK(job[c]) /\ Filled(job[c])
    /\ batch \in [Consumers -> [task : Seq(TaskEvents), worker : Seq(WorkerEvents)]]

\* A name a consumer cached is in the cache until it expires.
Cached ==
    /\ names \in [Tenants -> SUBSET Tasks]
    /\ told \in [Tenants -> SUBSET Tasks]
    /\ \A n \in Tenants : told[n] \subseteq names[n]

\* The keys of a tenant; no heartbeat was stored since the sample key expired.
KeysOK(keys) ==
    /\ DOMAIN keys = {"state", "hb", "online", "sampled", "samples"}
    /\ keys.samples \in [Workers -> Nat]
    /\ \A w \in Workers \ keys.sampled : keys.samples[w] = 0

Keys ==
    /\ live = [n \in Tenants |-> live[n]]
    /\ \A n \in Tenants : KeysOK(live[n])
    /\ word \in [Tenants -> [Workers -> {"none", "mixed", "offline", "online"}]]

\* What an update nobody interfered with has brought about so far.
Partway(c) ==
    LET j == job[c]
        e == Head(j.todo)
        keys == live[TenantOf[c]]
    IN  j.nr > 1 /\ ~j.spoilt =>
            IF e.type = "offline"
            THEN e.worker \notin keys.state /\ (j.nr = 3 => e.worker \notin keys.hb)
            ELSE e.worker \in keys.state

Updates == \A c \in Consumers : Partway(c)

IInv == Jobs /\ Cached /\ Keys /\ Updates /\ NamesStick /\ StatusFollowsWord

-----------------------------------------------------------------------------
(* The events of a kind.                                                   *)

\* A set of numbers has a least one.
LEMMA LeastNumber ==
    ASSUME NEW T \in SUBSET Nat, T # {}
    PROVE  \E x \in T : \A y \in T : x <= y
<1>1. PICK R : R = OpToRel(<, Nat)
  BY Zenon
<1>2. IsWellFoundedOn(R, Nat)
  BY <1>1, NatLessThanWellFounded, Zenon
<1>3. PICK x \in T : \A y \in T : ~ (<<y, x>> \in R)
  BY <1>2, WFMin, Zenon
<1>4. \A y \in T : ~(y < x)
  BY <1>1, <1>3 DEF OpToRel
<1> QED BY <1>4

Taking(m, k, i, q) == IF m[i].kind = k THEN Append(q, m[i]) ELSE q

Takes(m, k, n, t) ==
    t = [i \in 0 .. n |-> IF i = 0 THEN <<>> ELSE Taking(m, k, i, t[i - 1])]

LEMMA TakesExists ==
    ASSUME NEW m, NEW k, NEW n \in Nat
    PROVE  \E t : Takes(m, k, n, t)
<1> DEFINE T == {l \in Nat : ~ \E t : Takes(m, k, l, t)}
<1> SUFFICES T = {}
  OBVIOUS
<1> SUFFICES ASSUME T # {} PROVE FALSE
  OBVIOUS
<1>1. PICK l \in T : \A y \in T : l <= y
  <2>1. T \in SUBSET Nat
    OBVIOUS
  <2> HIDE DEF T
  <2> QED BY <2>1, LeastNumber
<1>2. CASE l = 0
  <2>1. PICK t : t = [i \in {0} |-> <<>>]
    OBVIOUS
  <2>2. 0 .. l = {0}
    BY <1>2
  <2>3. Takes(m, k, l, t)
    BY <2>1, <2>2 DEF Takes
  <2> QED BY <1>1, <2>3
<1>3. CASE l # 0
  <2>1. PICK j \in Nat : j = l - 1 /\ l = j + 1
    BY <1>1, <1>3
  <2>2. j \notin T
    BY <1>1, <2>1
  <2>3. PICK t : Takes(m, k, j, t)
    BY <2>2
  <2>4. PICK d : d = [i \in 0 .. l |-> IF i = l THEN Taking(m, k, l, t[j]) ELSE t[i]]
    OBVIOUS
  <2>5. \A i \in 0 .. j : t[i] = IF i = 0 THEN <<>> ELSE Taking(m, k, i, t[i - 1])
    BY <2>3 DEF Takes
  <2>6. \A i \in 0 .. l : d[i] = IF i = 0 THEN <<>> ELSE Taking(m, k, i, d[i - 1])
    <3> TAKE i \in 0 .. l
    <3>1. CASE i = l
      <4>1. i # 0 /\ i - 1 = j /\ j \in 0 .. l /\ j # l /\ i \in 0 .. l
        BY <2>1, <3>1
      <4>2. d[i] = Taking(m, k, l, t[j]) /\ d[j] = t[j]
        BY <2>4, <3>1, <4>1
      <4> QED BY <3>1, <4>1, <4>2
    <3>2. CASE i # l /\ i # 0
      <4>1. i \in 0 .. j /\ i - 1 \in 0 .. j /\ i - 1 \in 0 .. l /\ i - 1 # l
        BY <2>1, <3>2
      <4>2. d[i] = t[i] /\ d[i - 1] = t[i - 1]
        BY <2>4, <3>2, <4>1
      <4> QED BY <2>5, <3>2, <4>1, <4>2
    <3>3. CASE i = 0 /\ i # l
      BY <2>1, <2>4, <2>5, <3>3
    <3> QED BY <3>1, <3>2, <3>3
  <2>7. Takes(m, k, l, d)
    <3>1. d = [i \in 0 .. l |-> d[i]]
      BY <2>4
    <3> QED BY <2>6, <3>1 DEF Takes
  <2> QED BY <1>1, <2>7
<1> QED BY <1>2, <1>3

LEMMA TakesOne ==
    ASSUME NEW V, NEW W, NEW m \in Seq(V), NEW k, NEW i \in 1 .. Len(m), NEW q \in Seq(W),
           \A e \in V : e.kind = k => e \in W
    PROVE  Taking(m, k, i, q) \in Seq(W)
<1>1. m[i] \in V
  BY ElementOfSeq
<1>2. CASE m[i].kind = k
  <2>1. PICK e \in W : e = m[i]
    BY <1>1, <1>2
  <2>2. Append(q, e) \in Seq(W)
    BY AppendProperties
  <2> QED BY <1>2, <2>1, <2>2 DEF Taking
<1>3. CASE m[i].kind # k
  BY <1>3 DEF Taking
<1> QED BY <1>2, <1>3

LEMMA OfKindIs ==
    ASSUME NEW V, NEW W, NEW m \in Seq(V), NEW k, \A e \in V : e.kind = k => e \in W
    PROVE  OfKind(m, k) \in Seq(W)
<1>1. PICK n \in Nat : n = Len(m)
  BY LenProperties
<1>2. PICK t : OfKind(m, k) = t[Len(m)] /\ Takes(m, k, Len(m), t)
  <2> DEFINE taken == CHOOSE d : Takes(m, k, Len(m), d)
  <2>1. \E d : Takes(m, k, Len(m), d)
    BY <1>1, TakesExists
  <2>2. Takes(m, k, Len(m), taken)
    BY <2>1
  <2>3. OfKind(m, k) = taken[Len(m)]
    BY DEF OfKind, Takes, Taking
  <2> QED BY <2>2, <2>3
<1>3. \A i \in 0 .. n : t[i] = IF i = 0 THEN <<>> ELSE Taking(m, k, i, t[i - 1])
  BY <1>1, <1>2 DEF Takes
<1> DEFINE T == {l \in 0 .. n : t[l] \notin Seq(W)}
<1>4. ASSUME T # {} PROVE FALSE
  <2>1. PICK l \in T : \A y \in T : l <= y
    <3>1. T \in SUBSET Nat
      OBVIOUS
    <3> HIDE DEF T
    <3> QED BY <1>4, <3>1, LeastNumber
  <2>2. CASE l = 0
    <3>1. t[0] = <<>> /\ <<>> \in Seq(W)
      BY <1>3, <2>1, <2>2, EmptySeq
    <3> QED BY <2>1, <2>2, <3>1
  <2>3. CASE l # 0
    <3>1. PICK j \in Nat : j = l - 1 /\ j \in 0 .. n /\ l \in 1 .. Len(m) /\ ~(l <= j)
      BY <1>1, <2>1, <2>3
    <3>2. PICK q \in Seq(W) : q = t[j]
      BY <2>1, <3>1
    <3>3. Taking(m, k, l, q) \in Seq(W)
      BY <3>1, TakesOne
    <3>4. t[l] = Taking(m, k, l, q)
      BY <1>3, <2>1, <2>3, <3>1, <3>2
    <3> QED BY <2>1, <3>3, <3>4
  <2> QED BY <2>2, <2>3
<1>5. t[n] \in Seq(W)
  BY <1>4
<1> QED BY <1>1, <1>2, <1>5

LEMMA KindsOfAMessage ==
    ASSUME NEW m \in Messages
    PROVE  OfKind(m, "task") \in Seq(TaskEvents) /\ OfKind(m, "worker") \in Seq(WorkerEvents)
<1>1. PICK V : V = TaskEvents \cup WorkerEvents \cup {[kind |-> "junk"]}
  OBVIOUS
<1>2. m \in Seq(V)
  BY <1>1, IngestAssumption
<1>3. \A e \in V : e.kind = "task" => e \in TaskEvents
  BY <1>1 DEF TaskEvents, WorkerEvents
<1>4. \A e \in V : e.kind = "worker" => e \in WorkerEvents
  BY <1>1 DEF TaskEvents, WorkerEvents
<1>5. OfKind(m, "task") \in Seq(TaskEvents)
  BY <1>2, <1>3, OfKindIs
<1>6. OfKind(m, "worker") \in Seq(WorkerEvents)
  BY <1>2, <1>4, OfKindIs
<1> QED BY <1>5, <1>6

-----------------------------------------------------------------------------
(* The batch of tasks.                                                     *)

\* The consumer's job changes, and no worker is being updated by it.
LEMMA OneJob ==
    ASSUME IInv, NEW c \in Consumers, NEW j, job' = [job EXCEPT ![c] = j],
           JobOK(j), Filled(j), j.nr = 1,
           batch' \in [Consumers -> [task : Seq(TaskEvents), worker : Seq(WorkerEvents)]]
    PROVE  /\ Jobs'
           /\ live' = live => Updates'
<1>1. job = [d \in Consumers |-> job[d]]
  BY DEF IInv, Jobs
<1>2. /\ job' = [d \in Consumers |-> job'[d]] /\ job'[c] = j
      /\ \A d \in Consumers \ {c} : job'[d] = job[d]
  BY <1>1
<1>3. \A d \in Consumers : JobOK(job'[d]) /\ Filled(job'[d])
  BY <1>2 DEF IInv, Jobs
<1>4. Jobs'
  BY <1>2, <1>3 DEF Jobs, JobOK, Filled
<1>5. ASSUME live' = live PROVE Updates'
  BY <1>2, <1>5 DEF IInv, Updates, Partway
<1> QED
  BY <1>4, <1>5

\* Nothing Redis says of workers changes.
LEMMA KeysKept ==
    ASSUME IInv, UNCHANGED <<live, word>>
    PROVE  Keys' /\ StatusFollowsWord'
  BY DEF IInv, Keys, StatusFollowsWord, LiveWorkers

LEMMA NothingKept ==
    ASSUME IInv, UNCHANGED <<batch, job, names, live, rows, told, word>>
    PROVE  IInv'
<1>1. Keys' /\ StatusFollowsWord'
  BY KeysKept
<1> QED
  BY <1>1 DEF IInv, Jobs, Cached, Updates, Partway, NamesStick, JobOK, Filled

\* The tasks that an event names are tasks.
LEMMA KnownTasks ==
    ASSUME NEW events \in Seq(TaskEvents)
    PROVE  /\ Known(events) \in SUBSET Tasks
           /\ \A e \in ToSet(events) : e \in TaskEvents
           /\ \A e \in ToSet(events) : e.name # NoName => e.task \in Known(events)
  BY DEF Known, ToSet, TaskEvents

\* The blanks are filled, and nothing else changes.
LEMMA NamedEvents ==
    ASSUME NEW events \in Seq(TaskEvents), NEW known
    PROVE  /\ Named(events, known) \in Seq(TaskEvents)
           /\ \A e \in ToSet(Named(events, known)) :
                 \E f \in ToSet(events) :
                    /\ e.task = f.task
                    /\ e.name = NoName => f.name = NoName /\ f.task \notin known
<1> DEFINE out == Named(events, known)
<1>1. /\ Len(events) \in Nat /\ DOMAIN events = 1 .. Len(events)
      /\ \A i \in 1 .. Len(events) : events[i] \in TaskEvents
  BY LenProperties, ElementOfSeq
<1>2. out = [i \in 1 .. Len(events) |->
               IF events[i].name = NoName /\ events[i].task \in known
               THEN [events[i] EXCEPT !.name = events[i].task] ELSE events[i]]
  BY <1>1 DEF Named
<1>3. \A i \in 1 .. Len(events) :
         /\ out[i] \in TaskEvents /\ out[i].task = events[i].task
         /\ out[i].name = NoName => events[i].name = NoName /\ events[i].task \notin known
  <2> TAKE i \in 1 .. Len(events)
  <2>1. /\ events[i] \in [kind : {"task"}, task : Tasks, name : {NoName} \cup Tasks]
        /\ events[i].name \in {NoName, events[i].task} /\ events[i].task # NoName
    BY <1>1, IngestAssumption DEF TaskEvents
  <2>2. CASE events[i].name = NoName /\ events[i].task \in known
    BY <1>2, <2>1, <2>2 DEF TaskEvents
  <2>3. CASE ~(events[i].name = NoName /\ events[i].task \in known)
    BY <1>1, <1>2, <2>3
  <2> QED
    BY <2>2, <2>3
<1> HIDE DEF out
<1>4. out \in Seq(TaskEvents) /\ DOMAIN out = 1 .. Len(events)
  BY <1>1, <1>2, <1>3, IsASeq
<1>5. \A e \in ToSet(out) : \E i \in 1 .. Len(events) : e = out[i]
  BY <1>4 DEF ToSet
<1>6. \A i \in 1 .. Len(events) : events[i] \in ToSet(events)
  BY <1>1 DEF ToSet
<1> QED
  BY <1>3, <1>4, <1>5, <1>6 DEF out

\* A batch is gathered, and taken to be worked off.
LEMMA BatchSteps ==
    ASSUME IInv, NEW c \in Consumers, Receive(c) \/ TakeTasks(c) \/ TakeWorkers(c)
    PROVE  IInv'
<1> USE DEF IInv
<1>1. /\ UNCHANGED <<names, live, rows, told, word>> /\ job[c] = Idle
      /\ batch \in [Consumers -> [task : Seq(TaskEvents), worker : Seq(WorkerEvents)]]
      /\ job = [d \in Consumers |-> job[d]]
  BY DEF Receive, TakeTasks, TakeWorkers, Jobs
<1>2. Cached' /\ NamesStick'
  BY <1>1 DEF Cached, NamesStick
<1>3. CASE Receive(c)
  <2>1. PICK m \in Messages : batch' = [batch EXCEPT ![c].task = @ \o OfKind(m, "task"),
                                                   ![c].worker = @ \o OfKind(m, "worker")]
    BY <1>3 DEF Receive
  <2>2. /\ batch[c].task \in Seq(TaskEvents) /\ batch[c].worker \in Seq(WorkerEvents)
        /\ OfKind(m, "task") \in Seq(TaskEvents) /\ OfKind(m, "worker") \in Seq(WorkerEvents)
    BY <1>1, KindsOfAMessage
  <2>3. /\ batch[c].task \o OfKind(m, "task") \in Seq(TaskEvents)
        /\ batch[c].worker \o OfKind(m, "worker") \in Seq(WorkerEvents)
    BY <2>2, ConcatProperties
  <2>4. batch' \in [Consumers -> [task : Seq(TaskEvents), worker : Seq(WorkerEvents)]]
    BY <1>1, <2>1, <2>3
  <2>5. job' = job
    BY <1>3 DEF Receive
  <2> QED
    BY <1>1, <1>2, <2>4, <2>5, KeysKept DEF Jobs, JobOK, Filled, Updates, Partway
<1>4. CASE TakeTasks(c)
  <2> DEFINE j == [Idle EXCEPT !.at = "lookup", !.events = batch[c].task]
  <2>1. batch[c].task \in Seq(TaskEvents) /\ job' = [job EXCEPT ![c] = j]
    BY <1>1, <1>4 DEF TakeTasks
  <2>2. /\ DOMAIN j = {"at", "events", "todo", "nr", "owed", "spoilt"} /\ j.at = "lookup"
        /\ j.events = batch[c].task /\ j.nr = 1 /\ j.spoilt \in BOOLEAN
    BY DEF Idle
  <2> HIDE DEF j
  <2>4. JobOK(j) /\ Filled(j) /\ j.nr = 1
    BY <2>1, <2>2 DEF JobOK, Filled, Phases
  <2>3. batch' \in [Consumers -> [task : Seq(TaskEvents), worker : Seq(WorkerEvents)]]
    BY <1>1, <1>4, EmptySeq DEF TakeTasks
  <2> QED
    BY <1>1, <1>2, <2>1, <2>3, <2>4, OneJob, KeysKept
<1>5. CASE TakeWorkers(c)
  <2> DEFINE j == [Idle EXCEPT !.at = "sample", !.events = batch[c].worker]
  <2>1. batch[c].worker \in Seq(WorkerEvents) /\ job' = [job EXCEPT ![c] = j]
    BY <1>1, <1>5 DEF TakeWorkers
  <2>2. /\ DOMAIN j = {"at", "events", "todo", "nr", "owed", "spoilt"} /\ j.at = "sample"
        /\ j.events = batch[c].worker /\ j.nr = 1 /\ j.spoilt \in BOOLEAN
    BY DEF Idle
  <2> HIDE DEF j
  <2>4. JobOK(j) /\ Filled(j) /\ j.nr = 1
    BY <2>1, <2>2 DEF JobOK, Filled, Phases
  <2>3. batch' \in [Consumers -> [task : Seq(TaskEvents), worker : Seq(WorkerEvents)]]
    BY <1>1, <1>5, EmptySeq DEF TakeWorkers
  <2> QED
    BY <1>1, <1>2, <2>1, <2>3, <2>4, OneJob, KeysKept
<1> QED
  BY <1>3, <1>4, <1>5

\* The lookup, and what is put in the cache.
LEMMA NameSteps ==
    ASSUME IInv, NEW c \in Consumers, LookupNames(c) \/ CacheNames(c)
    PROVE  IInv'
<1> USE DEF IInv
<1> DEFINE evs == job[c].events
           n == TenantOf[c]
<1>1. /\ UNCHANGED <<batch, live, rows, word>> /\ job[c].at \in {"lookup", "cache"}
      /\ batch \in [Consumers -> [task : Seq(TaskEvents), worker : Seq(WorkerEvents)]]
      /\ JobOK(job[c]) /\ Filled(job[c]) /\ evs \in Seq(TaskEvents) /\ n \in Tenants
      /\ DOMAIN job = Consumers
  BY IngestAssumption DEF LookupNames, CacheNames, Jobs, JobOK
<1>2. NamesStick' /\ Keys' /\ StatusFollowsWord'
  BY <1>1, KeysKept DEF NamesStick
<1>3. Known(evs) \in SUBSET Tasks
  BY <1>1, KnownTasks
<1>4. CASE LookupNames(c)
  <2>1. PICK hit, owed :
           /\ job' = [job EXCEPT ![c].at = "cache", ![c].owed = owed,
                                 ![c].events = Named(evs, Known(evs) \cup hit)]
           /\ \/ hit = Need(evs) \cap names[n] /\ owed = Known(evs) \cup told[n]
              \/ owed = Known(evs)
    BY <1>4 DEF LookupNames
  <2> DEFINE out == Named(evs, Known(evs) \cup hit)
             j == [job[c] EXCEPT !.at = "cache", !.owed = owed, !.events = out]
  <2>2. job' = [job EXCEPT ![c] = j]
    BY <1>1, <2>1
  <2>3. /\ DOMAIN j = {"at", "events", "todo", "nr", "owed", "spoilt"} /\ j.at = "cache"
        /\ j.nr = job[c].nr /\ j.spoilt = job[c].spoilt /\ j.owed = owed /\ j.events = out
    BY <1>1 DEF JobOK
  <2>4. /\ out \in Seq(TaskEvents)
        /\ \A e \in ToSet(out) : \E f \in ToSet(evs) :
              /\ e.task = f.task
              /\ e.name = NoName => f.name = NoName /\ f.task \notin Known(evs) \cup hit
    <3> HIDE DEF evs
    <3> QED
      BY <1>1, NamedEvents
  <2> HIDE DEF j, out
  <2>5. JobOK(j) /\ j.nr = 1
    BY <1>1, <1>4, <2>3, <2>4 DEF JobOK, Phases, LookupNames
  <2>6. Filled(j)
    <3> SUFFICES ASSUME NEW e \in ToSet(out), e.name = NoName
                 PROVE  e.task \notin owed
      BY <2>3 DEF Filled
    <3>1. PICK f \in ToSet(evs) : e.task = f.task /\ f.task \notin Known(evs) \cup hit
      BY <2>4
    <3>2. f.task \in Need(evs)
      BY <3>1 DEF Need
    <3>3. told[n] \subseteq names[n]
      BY <1>1 DEF Cached
    <3> QED
      BY <2>1, <3>1, <3>2, <3>3
  <2>7. Cached'
    BY <1>4 DEF LookupNames, Cached
  <2> QED
    BY <1>1, <1>2, <2>2, <2>5, <2>6, <2>7, OneJob
<1>5. CASE CacheNames(c)
  <2> DEFINE j == [job[c] EXCEPT !.at = "store"]
  <2>1. job' = [job EXCEPT ![c] = j]
    BY <1>1, <1>5 DEF CacheNames, Goto
  <2>2. /\ DOMAIN j = {"at", "events", "todo", "nr", "owed", "spoilt"} /\ j.at = "store"
        /\ j.nr = job[c].nr /\ j.spoilt = job[c].spoilt /\ j.owed = job[c].owed
        /\ j.events = evs
    BY <1>1 DEF JobOK
  <2> HIDE DEF j
  <2>3. JobOK(j) /\ Filled(j) /\ j.nr = 1
    BY <1>1, <1>5, <2>2 DEF JobOK, Filled, Phases, CacheNames
  <2>4. Cached'
    <3>1. /\ names \in [Tenants -> SUBSET Tasks] /\ told \in [Tenants -> SUBSET Tasks]
          /\ \A m \in Tenants : told[m] \subseteq names[m]
      BY DEF Cached
    <3>2. \/ /\ names' = [names EXCEPT ![n] = @ \cup Known(evs)]
             /\ told' = [told EXCEPT ![n] = @ \cup Known(evs)]
          \/ \E some \in SUBSET Known(evs) :
                names' = [names EXCEPT ![n] = @ \cup some] /\ told' = told
      BY <1>5 DEF CacheNames
    <3> HIDE DEF evs, n
    <3> QED
      BY <1>1, <1>3, <3>1, <3>2 DEF Cached
  <2> QED
    BY <1>1, <1>2, <2>1, <2>3, <2>4, OneJob
<1> QED
  BY <1>4, <1>5

\* The rows are handed to the insert, the updates broadcast.
LEMMA StoreSteps ==
    ASSUME IInv, NEW c \in Consumers, StoreTasks(c) \/ SendTasks(c) \/ SendWorkers(c)
    PROVE  IInv'
<1> USE DEF IInv
<1>1. /\ UNCHANGED <<batch, names, live, told, word>> /\ DOMAIN job = Consumers
      /\ batch \in [Consumers -> [task : Seq(TaskEvents), worker : Seq(WorkerEvents)]]
      /\ JobOK(job[c]) /\ Filled(job[c])
  BY DEF StoreTasks, SendTasks, SendWorkers, Jobs
<1>2. Cached' /\ Keys' /\ StatusFollowsWord'
  BY <1>1, KeysKept DEF Cached
<1>3. CASE StoreTasks(c)
  <2> DEFINE j == [job[c] EXCEPT !.at = "sendTasks"]
             evs == job[c].events
  <2>1. job' = [job EXCEPT ![c] = j]
    BY <1>1, <1>3 DEF StoreTasks, Goto
  <2>2. /\ DOMAIN j = {"at", "events", "todo", "nr", "owed", "spoilt"} /\ j.at = "sendTasks"
        /\ j.nr = job[c].nr /\ j.spoilt = job[c].spoilt /\ j.events = evs
    BY <1>1 DEF JobOK
  <2> HIDE DEF j
  <2>3. JobOK(j) /\ Filled(j) /\ j.nr = 1
    BY <1>1, <1>3, <2>2 DEF JobOK, Filled, Phases, StoreTasks
  <2>4. NamesStick'
    <3>1. evs \in Seq(TaskEvents)
      BY <1>1, <1>3 DEF JobOK, StoreTasks
    <3>2. \A e \in ToSet(evs) : /\ e.name \in {NoName, e.task}
                                /\ e.name = NoName => e.task \notin job[c].owed
      BY <1>1, <1>3, <3>1, KnownTasks DEF Filled, StoreTasks, TaskEvents
    <3>3. rows' = rows \cup {[task |-> e.task, name |-> e.name,
                              owed |-> e.task \in job[c].owed] : e \in ToSet(evs)}
      BY <1>3 DEF StoreTasks
    <3>4. \A e \in ToSet(evs) : LET r == [task |-> e.task, name |-> e.name,
                                          owed |-> e.task \in job[c].owed]
                                IN  r.name \in {r.task} \/ (r.name = NoName /\ ~r.owed)
      BY <3>2
    <3> HIDE DEF evs
    <3> QED
      BY <3>3, <3>4 DEF NamesStick
  <2> QED
    BY <1>1, <1>2, <2>1, <2>3, <2>4, OneJob
<1>4. CASE SendTasks(c) \/ SendWorkers(c)
  <2>1. job' = [job EXCEPT ![c] = Idle] /\ rows' = rows
    BY <1>4 DEF SendTasks, SendWorkers
  <2>2. JobOK(Idle) /\ Filled(Idle) /\ Idle.nr = 1
    BY DEF Idle, JobOK, Filled, Phases
  <2> QED
    BY <1>1, <1>2, <2>1, <2>2, OneJob DEF NamesStick
<1> QED
  BY <1>3, <1>4

-----------------------------------------------------------------------------
(* The batch of workers.                                                   *)

\* The keys of one tenant change.
LEMMA OneTenant ==
    ASSUME IInv, NEW n \in Tenants, NEW keys, KeysOK(keys),
           live' = [live EXCEPT ![n] = keys],
           word' \in [Tenants -> [Workers -> {"none", "mixed", "offline", "online"}]]
    PROVE  /\ Keys'
           /\ live'[n] = keys
           /\ \A m \in Tenants \ {n} : live'[m] = live[m]
<1>1. live = [m \in Tenants |-> live[m]] /\ \A m \in Tenants : KeysOK(live[m])
  BY DEF IInv, Keys
<1>2. /\ live' = [m \in Tenants |-> live'[m]] /\ live'[n] = keys
      /\ \A m \in Tenants \ {n} : live'[m] = live[m]
  BY <1>1
<1>3. \A m \in Tenants : KeysOK(live'[m])
  BY <1>1, <1>2
<1> QED
  BY <1>2, <1>3 DEF Keys, KeysOK

\* A heartbeat is stored for a sample key that is set, once.
LEMMA SampleStep ==
    ASSUME IInv, NEW c \in Consumers, Sample(c)
    PROVE  IInv'
<1> USE DEF IInv
<1> DEFINE n == TenantOf[c]
           j == [job[c] EXCEPT !.at = "plan"]
<1>1. /\ UNCHANGED <<batch, names, rows, told, word>> /\ DOMAIN job = Consumers
      /\ batch \in [Consumers -> [task : Seq(TaskEvents), worker : Seq(WorkerEvents)]]
      /\ JobOK(job[c]) /\ job[c].at = "sample" /\ n \in Tenants
      /\ job' = [job EXCEPT ![c] = j]
  BY IngestAssumption DEF Sample, Goto, Jobs
<1>2. /\ DOMAIN j = {"at", "events", "todo", "nr", "owed", "spoilt"} /\ j.at = "plan"
      /\ j.events = job[c].events /\ j.nr = job[c].nr /\ j.spoilt = job[c].spoilt
  BY <1>1 DEF JobOK
<1> HIDE DEF j
<1>3. JobOK(j) /\ Filled(j) /\ j.nr = 1
  BY <1>1, <1>2 DEF JobOK, Filled, Phases
<1>4. Jobs' /\ (live' = live => Updates')
  BY <1>1, <1>3, OneJob
<1>5. Cached' /\ NamesStick'
  BY <1>1 DEF Cached, NamesStick
<1>6. CASE live' = live
  BY <1>1, <1>4, <1>5, <1>6, KeysKept
<1>7. ASSUME NEW fresh, fresh \cap live[n].sampled = {},
             live' = [live EXCEPT ![n].sampled = @ \cup fresh,
                                  ![n].samples = [w \in Workers |->
                                        @[w] + IF w \in fresh THEN 1 ELSE 0]]
      PROVE  IInv'
  <2> DEFINE keys == live[n]
             counts == [w \in Workers |-> keys.samples[w] + IF w \in fresh THEN 1 ELSE 0]
             k == [keys EXCEPT !.sampled = @ \cup fresh, !.samples = counts]
  <2>1. KeysOK(keys) /\ \A w \in Workers : keys.samples[w] <= 1
    BY <1>1 DEF Keys, StatusFollowsWord
  <2>2. live' = [live EXCEPT ![n] = k]
    BY <1>1, <1>7 DEF Keys
  <2> HIDE DEF keys
  <2>3. /\ DOMAIN k = DOMAIN keys /\ k.samples = counts
        /\ k.sampled = keys.sampled \cup fresh
        /\ k.state = keys.state /\ k.hb = keys.hb /\ k.online = keys.online
    BY <2>1 DEF KeysOK
  <2>4. /\ counts \in [Workers -> Nat]
        /\ \A w \in Workers : counts[w] <= 1 /\ (w \notin keys.sampled \cup fresh => counts[w] = 0)
    BY <1>7, <2>1 DEF keys, KeysOK
  <2> HIDE DEF counts, k
  <2>5. KeysOK(k)
    BY <2>1, <2>3, <2>4 DEF KeysOK
  <2>6. /\ Keys' /\ live'[n] = k
        /\ \A m \in Tenants \ {n} : live'[m] = live[m]
    BY <1>1, <2>2, <2>5, OneTenant DEF Keys
  <2>7. \A m \in Tenants : /\ live'[m].state = live[m].state /\ live'[m].hb = live[m].hb
                           /\ live'[m].online = live[m].online
    BY <2>3, <2>6 DEF keys
  <2>8. \A m \in Tenants, w \in Workers : live'[m].samples[w] <= 1
    BY <2>3, <2>4, <2>6 DEF StatusFollowsWord
  <2>9. StatusFollowsWord'
    BY <1>1, <2>7, <2>8 DEF StatusFollowsWord, LiveWorkers
  <2>10. Updates'
    <3>1. job'[c].nr = 1 /\ \A d \in Consumers \ {c} : job'[d] = job[d]
      BY <1>1, <1>3
    <3>2. \A d \in Consumers : TenantOf[d] \in Tenants
      BY IngestAssumption
    <3> QED
      BY <2>7, <3>1, <3>2 DEF Updates, Partway
  <2> QED
    BY <1>4, <1>5, <2>6, <2>9, <2>10
<1>8. \/ live' = live
      \/ \E fresh : /\ fresh \cap live[n].sampled = {}
                    /\ live' = [live EXCEPT ![n].sampled = @ \cup fresh,
                                            ![n].samples = [w \in Workers |->
                                                  @[w] + IF w \in fresh THEN 1 ELSE 0]]
  <2> DEFINE beats == {w \in WorkersOf(job[c].events) :
                          Latest(job[c].events, w).type = "heartbeat"}
  <2>1. (beats \ live[n].sampled) \cap live[n].sampled = {}
    OBVIOUS
  <2> QED
    BY <2>1 DEF Sample
<1> QED
  BY <1>6, <1>7, <1>8

\* The consumer plans its updates and is at the first command of the first.
LEMMA PlanStep ==
    ASSUME IInv, NEW c \in Consumers, PlanUpdates(c)
    PROVE  IInv'
<1> USE DEF IInv
<1>1. /\ UNCHANGED <<batch, names, live, rows, told, word>> /\ DOMAIN job = Consumers
      /\ batch \in [Consumers -> [task : Seq(TaskEvents), worker : Seq(WorkerEvents)]]
      /\ JobOK(job[c]) /\ job[c].at = "plan"
  BY DEF PlanUpdates, Jobs
<1>2. PICK updates :
         job' = [job EXCEPT ![c].at = "update", ![c].events = updates, ![c].todo = updates]
  <2>1. \E order \in SetToSeqs(WorkersOf(job[c].events)) :
           LET updates == [i \in DOMAIN order |-> Latest(job[c].events, order[i])]
           IN  job' = [job EXCEPT ![c].at = "update", ![c].events = updates,
                                  ![c].todo = updates]
    BY DEF PlanUpdates
  <2> QED
    BY <2>1
<1> DEFINE j == [job[c] EXCEPT !.at = "update", !.events = updates, !.todo = updates]
<1>3. job' = [job EXCEPT ![c] = j]
  BY <1>1, <1>2
<1>4. /\ DOMAIN j = {"at", "events", "todo", "nr", "owed", "spoilt"} /\ j.at = "update"
      /\ j.nr = job[c].nr /\ j.spoilt = job[c].spoilt
  BY <1>1 DEF JobOK
<1> HIDE DEF j
<1>5. JobOK(j) /\ Filled(j) /\ j.nr = 1
  BY <1>1, <1>4 DEF JobOK, Filled, Phases
<1>6. Jobs' /\ Updates'
  BY <1>1, <1>3, <1>5, OneJob
<1> QED
  BY <1>1, <1>6, KeysKept DEF Cached, NamesStick

\* What a command of either update does to the keys: to those of its worker
\* what it says, to those of other workers and to the samples nothing.
Untouched(keys, k, w) ==
    /\ KeysOK(k) /\ k.samples = keys.samples
    /\ \A v : v # w => /\ v \in k.state <=> v \in keys.state
                       /\ v \in k.hb <=> v \in keys.hb
                       /\ v \in k.online <=> v \in keys.online

LEMMA OfflineWritten ==
    ASSUME NEW keys, KeysOK(keys), NEW w, NEW nr \in 1 .. 3
    PROVE  LET k == SetWorkerOffline(keys, w, nr)
           IN  /\ Untouched(keys, k, w)
               /\ nr = 1 \/ w \notin keys.state => w \notin k.state
               /\ nr = 2 \/ w \notin keys.hb => w \notin k.hb
               /\ nr = 3 => w \notin k.online
<1>1. CASE nr = 1
  BY <1>1 DEF KeysOK, SetWorkerOffline, Untouched
<1>2. CASE nr = 2
  BY <1>2 DEF KeysOK, SetWorkerOffline, Untouched
<1>3. CASE nr = 3
  BY <1>3 DEF KeysOK, SetWorkerOffline, Untouched
<1> QED
  BY <1>1, <1>2, <1>3

LEMMA StateWritten ==
    ASSUME NEW keys, KeysOK(keys), NEW w, NEW nr \in 1 .. 3
    PROVE  LET k == SetWorkerState(keys, w, nr)
           IN  /\ Untouched(keys, k, w)
               /\ nr = 1 \/ w \in keys.state => w \in k.state
               /\ nr = 3 => w \in k.online
<1>1. CASE nr = 1
  BY <1>1 DEF KeysOK, SetWorkerState, Untouched
<1>2. CASE nr = 2
  <2>1. SetWorkerState(keys, w, nr) = [keys EXCEPT !.hb = @ \cup {w}]
    BY <1>2 DEF SetWorkerState
  <2> QED
    BY <1>2, <2>1 DEF KeysOK, Untouched
<1>3. CASE nr = 3
  BY <1>3 DEF KeysOK, SetWorkerState, Untouched
<1> QED
  BY <1>1, <1>2, <1>3

\* The next worker of a batch starts with the first command.
LEMMA NextWorkerJob ==
    ASSUME NEW j, JobOK(j), j.at = "update"
    PROVE  JobOK(NextWorker(j)) /\ Filled(NextWorker(j)) /\ NextWorker(j).nr = 1
<1> DEFINE k == NextWorker(j)
<1>1. /\ DOMAIN k = {"at", "events", "todo", "nr", "owed", "spoilt"} /\ k.at = "update"
      /\ k.nr = 1 /\ k.spoilt \in BOOLEAN
  BY DEF NextWorker, JobOK
<1> QED
  BY <1>1 DEF JobOK, Filled, Phases

\* The next command of the same worker.
LEMMA NextCommandJob ==
    ASSUME NEW j, JobOK(j), j.at = "update", j.nr # 3,
           NEW k, DOMAIN k = DOMAIN j, k.at = "update", k.nr = j.nr + 1, k.spoilt \in BOOLEAN
    PROVE  JobOK(k) /\ Filled(k)
<1>1. j.nr \in 1 .. 3 /\ j.nr # 3
  BY DEF JobOK
<1>2. k.nr \in 1 .. 3
  BY <1>1
<1> QED
  BY <1>2 DEF JobOK, Filled, Phases

\* A command fails: the rest of the worker's update is not sent.
LEMMA CommandFails ==
    ASSUME IInv, NEW c \in Consumers, job[c].at = "update",
           job' = [job EXCEPT ![c] = NextWorker(@)], NEW w,
           word' = [word EXCEPT ![TenantOf[c]][w] = "mixed"],
           UNCHANGED <<batch, names, live, rows, told>>
    PROVE  IInv'
<1> USE DEF IInv
<1>1. /\ job' = [job EXCEPT ![c] = NextWorker(job[c])]
      /\ batch' \in [Consumers -> [task : Seq(TaskEvents), worker : Seq(WorkerEvents)]]
      /\ JobOK(job[c])
  BY DEF Jobs
<1>2. JobOK(NextWorker(job[c])) /\ Filled(NextWorker(job[c])) /\ NextWorker(job[c]).nr = 1
  BY <1>1, NextWorkerJob
<1>3. Jobs' /\ Updates'
  BY <1>1, <1>2, OneJob
<1>4. /\ word \in [Tenants -> [Workers -> {"none", "mixed", "offline", "online"}]]
      /\ TenantOf[c] \in Tenants
  BY IngestAssumption DEF Keys
<1>5. /\ word' \in [Tenants -> [Workers -> {"none", "mixed", "offline", "online"}]]
      /\ \A n \in Tenants, v \in Workers : word'[n][v] = word[n][v] \/ word'[n][v] = "mixed"
  BY <1>4
<1>6. Keys'
  BY <1>5 DEF Keys, KeysOK
<1>7. StatusFollowsWord'
  BY <1>5 DEF StatusFollowsWord, LiveWorkers
<1> QED
  BY <1>3, <1>6, <1>7 DEF Cached, NamesStick

\* A command takes effect: the jobs of the consumers it disturbed are marked.
LEMMA CommandJobs ==
    ASSUME Jobs, NEW c \in Consumers, job[c].at = "update", NEW others,
           UNCHANGED batch,
           job' = [d \in Consumers |->
                      IF d # c THEN [job[d] EXCEPT !.spoilt = @ \/ d \in others]
                      ELSE IF job[c].nr = 3 THEN NextWorker(job[c])
                      ELSE [job[c] EXCEPT !.nr = @ + 1, !.spoilt = others # {} \/ @]]
    PROVE  /\ Jobs'
           /\ \A d \in Consumers \ {c} :
                 /\ job'[d].nr = job[d].nr /\ job'[d].todo = job[d].todo
                 /\ ~job'[d].spoilt => ~job[d].spoilt /\ d \notin others
           /\ IF job[c].nr = 3 THEN job'[c].nr = 1
              ELSE /\ job'[c].nr = job[c].nr + 1 /\ job'[c].todo = job[c].todo
                   /\ job'[c].spoilt = (others # {} \/ job[c].spoilt)
<1>1. /\ job' = [d \in Consumers |-> job'[d]]
      /\ \A d \in Consumers : JobOK(job[d]) /\ Filled(job[d])
  BY DEF Jobs
<1>2. \A d \in Consumers \ {c} :
         /\ JobOK(job'[d]) /\ Filled(job'[d])
         /\ job'[d].nr = job[d].nr /\ job'[d].todo = job[d].todo
         /\ ~job'[d].spoilt => ~job[d].spoilt /\ d \notin others
  <2> TAKE d \in Consumers \ {c}
  <2> DEFINE j == job[d]
             k == [j EXCEPT !.spoilt = @ \/ d \in others]
  <2>1. job'[d] = k /\ JobOK(j) /\ Filled(j)
    BY <1>1
  <2> HIDE DEF j
  <2>2. /\ DOMAIN k = DOMAIN j /\ k.at = j.at /\ k.events = j.events /\ k.todo = j.todo
        /\ k.nr = j.nr /\ k.owed = j.owed /\ k.spoilt = (j.spoilt \/ d \in others)
    BY <2>1 DEF JobOK
  <2>3. k.spoilt \in BOOLEAN
    BY <2>2
  <2> HIDE DEF k
  <2>4. JobOK(k) /\ Filled(k)
    BY <2>1, <2>2, <2>3 DEF JobOK, Filled
  <2> QED
    BY <2>1, <2>2, <2>4 DEF j
<1>3. CASE job[c].nr = 3
  <2>1. JobOK(NextWorker(job[c])) /\ Filled(NextWorker(job[c])) /\ NextWorker(job[c]).nr = 1
    <3>1. JobOK(job[c])
      BY <1>1
    <3> QED
      BY <3>1, NextWorkerJob
  <2>2. JobOK(job'[c]) /\ Filled(job'[c]) /\ job'[c].nr = 1
    BY <1>3, <2>1
  <2> QED
    BY <1>1, <1>2, <1>3, <2>2 DEF Jobs, JobOK, Filled
<1>4. CASE job[c].nr # 3
  <2> DEFINE j == job[c]
             k == [j EXCEPT !.nr = @ + 1, !.spoilt = others # {} \/ @]
  <2>1. job'[c] = k /\ JobOK(j) /\ Filled(j) /\ j.at = "update" /\ j.nr # 3
    BY <1>1, <1>4
  <2> HIDE DEF j
  <2>2. /\ DOMAIN k = DOMAIN j /\ k.at = "update" /\ k.todo = j.todo
        /\ k.nr = j.nr + 1 /\ k.spoilt = (others # {} \/ j.spoilt)
    BY <2>1 DEF JobOK
  <2>6. k.spoilt \in BOOLEAN
    BY <2>2
  <2> HIDE DEF k
  <2>3. JobOK(k) /\ Filled(k)
    BY <2>1, <2>2, <2>6, NextCommandJob
  <2>4. \A d \in Consumers : JobOK(job'[d]) /\ Filled(job'[d])
    BY <1>2, <2>1, <2>3
  <2>5. Jobs'
    BY <1>1, <2>4 DEF Jobs, JobOK, Filled
  <2> QED
    BY <1>2, <1>4, <2>1, <2>2, <2>5 DEF j
<1> QED
  BY <1>3, <1>4

\* What a command does that takes effect.
Effect(c) ==
    LET e == Head(job[c].todo)
        n == TenantOf[c]
        others == {d \in Consumers \ {c} : Amid(d, n, e.worker)}
        spoilt == others # {} \/ job[c].spoilt
        offline == e.type = "offline"
    IN  /\ live' = [live EXCEPT ![n] =
                        IF offline THEN SetWorkerOffline(@, e.worker, job[c].nr)
                        ELSE SetWorkerState(@, e.worker, job[c].nr)]
        /\ job' = [d \in Consumers |->
                      IF d # c THEN [job[d] EXCEPT !.spoilt = @ \/ d \in others]
                      ELSE IF job[c].nr = 3 THEN NextWorker(job[c])
                      ELSE [job[c] EXCEPT !.nr = @ + 1, !.spoilt = spoilt]]
        /\ word' = [word EXCEPT ![n][e.worker] =
                        IF spoilt \/ job[c].nr # 3 THEN "mixed"
                        ELSE IF offline THEN "offline" ELSE "online"]

\* The keys of a worker after an update nobody interfered with are what its
\* event says; who was in the middle of an update of that worker is disturbed.
LEMMA CommandWrites ==
    ASSUME IInv, NEW c \in Consumers, job[c].at = "update", Effect(c),
           UNCHANGED <<batch, names, rows, told>>
    PROVE  IInv'
<1> USE DEF IInv
<1> DEFINE e == Head(job[c].todo)
           n == TenantOf[c]
           w == e.worker
           nr == job[c].nr
           others == {d \in Consumers \ {c} : Amid(d, n, w)}
           spoilt == others # {} \/ job[c].spoilt
           done == nr = 3
           offline == e.type = "offline"
           keys == live[n]
           k == IF offline THEN SetWorkerOffline(keys, w, nr) ELSE SetWorkerState(keys, w, nr)
<1>1. /\ JobOK(job[c]) /\ n \in Tenants /\ nr \in 1 .. 3 /\ KeysOK(keys)
      /\ DOMAIN live = Tenants
      /\ word \in [Tenants -> [Workers -> {"none", "mixed", "offline", "online"}]]
  BY IngestAssumption DEF Jobs, JobOK, Keys
<1>2. /\ live' = [live EXCEPT ![n] = k]
      /\ job' = [d \in Consumers |->
                    IF d # c THEN [job[d] EXCEPT !.spoilt = @ \/ d \in others]
                    ELSE IF done THEN NextWorker(job[c])
                    ELSE [job[c] EXCEPT !.nr = @ + 1, !.spoilt = spoilt]]
      /\ word' = [word EXCEPT ![n][w] = IF spoilt \/ ~done THEN "mixed"
                                        ELSE IF offline THEN "offline" ELSE "online"]
  BY <1>1 DEF Effect
<1>3. /\ KeysOK(k) /\ k.samples = keys.samples
      /\ \A v : v # w => /\ v \in k.state <=> v \in keys.state
                         /\ v \in k.hb <=> v \in keys.hb
                         /\ v \in k.online <=> v \in keys.online
      /\ offline => /\ nr = 1 \/ w \notin keys.state => w \notin k.state
                    /\ nr = 2 \/ w \notin keys.hb => w \notin k.hb
                    /\ nr = 3 => w \notin k.online
      /\ ~offline => /\ nr = 1 \/ w \in keys.state => w \in k.state
                     /\ nr = 3 => w \in k.online
  <2>1. KeysOK(keys) /\ nr \in 1 .. 3
    BY <1>1
  <2>2. CASE offline
    <3>1. k = SetWorkerOffline(keys, w, nr)
      BY <2>2
    <3> HIDE DEF keys, w, nr, k
    <3> QED
      BY <2>1, <2>2, <3>1, OfflineWritten DEF Untouched
  <2>3. CASE ~offline
    <3>1. k = SetWorkerState(keys, w, nr)
      BY <2>3
    <3> HIDE DEF keys, w, nr, k
    <3> QED
      BY <2>1, <2>3, <3>1, StateWritten DEF Untouched
  <2> QED
    BY <2>2, <2>3
<1>4. /\ Jobs'
      /\ \A d \in Consumers \ {c} :
            /\ job'[d].nr = job[d].nr /\ job'[d].todo = job[d].todo
            /\ ~job'[d].spoilt => ~job[d].spoilt /\ d \notin others
      /\ IF nr = 3 THEN job'[c].nr = 1
         ELSE /\ job'[c].nr = nr + 1 /\ job'[c].todo = job[c].todo /\ job'[c].spoilt = spoilt
  <2>1. Jobs
    OBVIOUS
  <2>2. job' = [d \in Consumers |->
                    IF d # c THEN [job[d] EXCEPT !.spoilt = @ \/ d \in others]
                    ELSE IF job[c].nr = 3 THEN NextWorker(job[c])
                    ELSE [job[c] EXCEPT !.nr = @ + 1, !.spoilt = others # {} \/ @]]
    BY <1>2
  <2> HIDE DEF others
  <2> QED
    BY <2>1, <2>2, CommandJobs
<1>5. /\ word' \in [Tenants -> [Workers -> {"none", "mixed", "offline", "online"}]]
      /\ \A m \in Tenants, v \in Workers :
            IF m = n /\ v = w
            THEN \/ word'[m][v] = "mixed"
                 \/ ~spoilt /\ done /\ offline /\ word'[m][v] = "offline"
                 \/ ~spoilt /\ done /\ ~offline /\ word'[m][v] = "online"
            ELSE word'[m][v] = word[m][v]
  <2> HIDE DEF w, spoilt, done, offline, n
  <2> QED
    BY <1>1, <1>2
<1> HIDE DEF k
<1>6. /\ Keys' /\ live'[n] = k
      /\ \A m \in Tenants \ {n} : live'[m] = live[m]
  BY <1>1, <1>2, <1>3, <1>5, OneTenant
<1>7. nr > 1 /\ ~spoilt => IF offline
                           THEN w \notin keys.state /\ (nr = 3 => w \notin keys.hb)
                           ELSE w \in keys.state
  BY DEF Updates, Partway
<1>8. StatusFollowsWord'
  <2> SUFFICES ASSUME NEW m \in Tenants, NEW v \in Workers
               PROVE  /\ word'[m][v] = "offline"
                            => v \notin live'[m].state \cup live'[m].hb \cup live'[m].online
                      /\ word'[m][v] = "online"
                            => /\ v \in live'[m].online
                               /\ v \in live'[m].online \cap live'[m].hb => v \in live'[m].state
                      /\ live'[m].samples[v] <= 1
    BY DEF StatusFollowsWord, LiveWorkers
  <2>1. /\ word[m][v] = "offline"
              => v \notin live[m].state \cup live[m].hb \cup live[m].online
        /\ word[m][v] = "online"
              => /\ v \in live[m].online
                 /\ v \in live[m].online \cap live[m].hb => v \in live[m].state
        /\ live[m].samples[v] <= 1
    BY DEF StatusFollowsWord, LiveWorkers
  <2> HIDE DEF w, spoilt, offline, n, nr
  <2>2. CASE m # n
    BY <1>5, <1>6, <2>1, <2>2
  <2>3. CASE m = n /\ v # w
    BY <1>3, <1>5, <1>6, <2>1, <2>3
  <2>4. CASE m = n /\ v = w
    BY <1>3, <1>5, <1>6, <1>7, <2>1, <2>4
  <2> QED
    BY <2>2, <2>3, <2>4
<1>9. Updates'
  <2> SUFFICES ASSUME NEW d \in Consumers
               PROVE  Partway(d)'
    BY DEF Updates
  <2>1. CASE d = c
    <3>1. CASE nr = 3
      BY <1>4, <2>1, <3>1 DEF Partway
    <3>2. CASE nr # 3
      <4>1. /\ job'[d].nr = nr + 1 /\ Head(job'[d].todo) = e /\ job'[d].spoilt = spoilt
            /\ live'[TenantOf[d]] = k /\ nr \in 1 .. 2
        BY <1>1, <1>4, <1>6, <2>1, <3>2
      <4> HIDE DEF e, nr, spoilt
      <4> QED
        BY <1>3, <1>7, <4>1 DEF Partway
    <3> QED
      BY <3>1, <3>2
  <2>2. CASE d # c
    <3> SUFFICES ASSUME job'[d].nr > 1, ~job'[d].spoilt
                 PROVE  LET f == Head(job'[d].todo)
                            after == live'[TenantOf[d]]
                        IN  IF f.type = "offline"
                            THEN /\ f.worker \notin after.state
                                 /\ job'[d].nr = 3 => f.worker \notin after.hb
                            ELSE f.worker \in after.state
      BY DEF Partway
    <3> DEFINE f == Head(job[d].todo)
               before == live[TenantOf[d]]
               after == live'[TenantOf[d]]
    <3>1. /\ job[d].nr = job'[d].nr /\ job[d].nr > 1 /\ Head(job'[d].todo) = f
          /\ ~job[d].spoilt /\ d \notin others
      BY <1>4, <2>2
    <3>2. IF f.type = "offline"
          THEN f.worker \notin before.state /\ (job[d].nr = 3 => f.worker \notin before.hb)
          ELSE f.worker \in before.state
      BY <3>1 DEF Updates, Partway
    <3>3. TenantOf[d] # n \/ f.worker # w
      BY <2>2, <3>1 DEF Amid
    <3>4. TenantOf[d] \in Tenants
      BY IngestAssumption
    <3>5. CASE TenantOf[d] # n
      <4>1. after = before
        BY <1>6, <3>4, <3>5
      <4> QED
        BY <3>1, <3>2, <4>1
    <3>6. CASE TenantOf[d] = n /\ f.worker # w
      <4>1. /\ f.worker \in after.state <=> f.worker \in before.state
            /\ f.worker \in after.hb <=> f.worker \in before.hb
        <5> HIDE DEF f, w
        <5> QED
          BY <1>3, <1>6, <3>6
      <4> QED
        BY <3>1, <3>2, <4>1
    <3> QED
      BY <3>3, <3>5, <3>6
  <2> QED
    BY <2>1, <2>2
<1> QED
  BY <1>1, <1>4, <1>6, <1>8, <1>9 DEF Cached, NamesStick

LEMMA CommandStep ==
    ASSUME IInv, NEW c \in Consumers, RedisCommand(c)
    PROVE  IInv'
<1>1. /\ job[c].at = "update" /\ UNCHANGED <<batch, names, rows, told>>
      /\ \/ Effect(c)
         \/ /\ job' = [job EXCEPT ![c] = NextWorker(@)] /\ live' = live
            /\ word' = [word EXCEPT ![TenantOf[c]][Head(job[c].todo).worker] = "mixed"]
  BY DEF RedisCommand, Effect
<1>2. CASE Effect(c)
  BY <1>1, <1>2, CommandWrites
<1>3. CASE ~Effect(c)
  <2> DEFINE w == Head(job[c].todo).worker
  <2>1. /\ job' = [job EXCEPT ![c] = NextWorker(@)] /\ live' = live
        /\ word' = [word EXCEPT ![TenantOf[c]][w] = "mixed"]
    BY <1>1, <1>3
  <2> HIDE DEF w
  <2> QED
    BY <1>1, <2>1, CommandFails
<1> QED
  BY <1>2, <1>3

-----------------------------------------------------------------------------
(* Keys expire, and the socket listens.                                    *)

LEMMA NameExpiresStep ==
    ASSUME IInv, NEW n \in Tenants, NameExpires(n)
    PROVE  IInv'
<1> USE DEF IInv
<1>1. PICK t : /\ names' = [names EXCEPT ![n] = @ \ {t}]
               /\ told' = [told EXCEPT ![n] = @ \ {t}]
  BY DEF NameExpires
<1>2. UNCHANGED <<batch, job, live, rows, word>>
  BY DEF NameExpires
<1>3. Cached'
  BY <1>1 DEF Cached
<1> QED
  BY <1>2, <1>3, KeysKept DEF Jobs, JobOK, Filled, Updates, Partway, NamesStick

\* A heartbeat goes before the state it was set with, and the state not while
\* an update of its worker is under way.
LEMMA KeyExpiresStep ==
    ASSUME IInv, NEW n \in Tenants, KeyExpires(n)
    PROVE  IInv'
<1> USE DEF IInv
<1> DEFINE keys == live[n]
<1>1. /\ UNCHANGED <<batch, job, names, rows, told, word>> /\ KeysOK(keys)
      /\ DOMAIN live = Tenants
      /\ word' \in [Tenants -> [Workers -> {"none", "mixed", "offline", "online"}]]
  BY DEF KeyExpires, Keys
<1>2. PICK w \in Workers :
         \/ live' = [live EXCEPT ![n] = [keys EXCEPT !.hb = @ \ {w}]]
         \/ /\ w \notin keys.hb
            /\ \A c \in Consumers : ~Amid(c, n, w)
            /\ live' = [live EXCEPT ![n] = [keys EXCEPT !.state = @ \ {w}]]
         \/ live' = [live EXCEPT ![n] = [keys EXCEPT !.sampled = @ \ {w},
                                                     !.samples = [@ EXCEPT ![w] = 0]]]
  <2>1. PICK w \in Workers :
           \/ live' = [live EXCEPT ![n].hb = @ \ {w}]
           \/ /\ w \notin keys.hb
              /\ \A c \in Consumers : ~Amid(c, n, w)
              /\ live' = [live EXCEPT ![n].state = @ \ {w}]
           \/ live' = [live EXCEPT ![n].sampled = @ \ {w}, ![n].samples[w] = 0]
    BY DEF KeyExpires
  <2>2. /\ [live EXCEPT ![n].hb = @ \ {w}] = [live EXCEPT ![n] = [keys EXCEPT !.hb = @ \ {w}]]
        /\ [live EXCEPT ![n].state = @ \ {w}]
              = [live EXCEPT ![n] = [keys EXCEPT !.state = @ \ {w}]]
    OBVIOUS
  <2>3. [live EXCEPT ![n].sampled = @ \ {w}, ![n].samples[w] = 0]
           = [live EXCEPT ![n] = [keys EXCEPT !.sampled = @ \ {w},
                                              !.samples = [@ EXCEPT ![w] = 0]]]
    BY <1>1 DEF KeysOK
  <2> QED
    BY <2>1, <2>2, <2>3
<1>3. PICK k :
         /\ live' = [live EXCEPT ![n] = k] /\ KeysOK(k)
         /\ \A v \in Workers : k.samples[v] <= keys.samples[v] \/ k.samples[v] = 0
         /\ k.online = keys.online
         /\ \/ k.state = keys.state /\ k.hb \subseteq keys.hb
            \/ /\ k.state = keys.state \ {w} /\ k.hb = keys.hb /\ w \notin keys.hb
               /\ \A c \in Consumers : ~Amid(c, n, w)
  <2>1. /\ DOMAIN keys = {"state", "hb", "online", "sampled", "samples"}
        /\ keys.samples \in [Workers -> Nat]
        /\ \A v \in Workers \ keys.sampled : keys.samples[v] = 0
    BY <1>1 DEF KeysOK
  <2>2. CASE live' = [live EXCEPT ![n] = [keys EXCEPT !.hb = @ \ {w}]]
    <3> DEFINE k == [keys EXCEPT !.hb = @ \ {w}]
    <3> HIDE DEF keys
    <3>1. /\ DOMAIN k = DOMAIN keys /\ k.state = keys.state /\ k.online = keys.online
          /\ k.hb = keys.hb \ {w} /\ k.sampled = keys.sampled /\ k.samples = keys.samples
      BY <2>1
    <3> HIDE DEF k
    <3>2. KeysOK(k) /\ \A v \in Workers : k.samples[v] <= keys.samples[v]
      BY <2>1, <3>1 DEF KeysOK
    <3>3. live' = [live EXCEPT ![n] = k]
      BY <2>2 DEF k
    <3> QED
      BY <3>1, <3>2, <3>3
  <2>3. CASE /\ w \notin keys.hb
             /\ \A c \in Consumers : ~Amid(c, n, w)
             /\ live' = [live EXCEPT ![n] = [keys EXCEPT !.state = @ \ {w}]]
    <3> DEFINE k == [keys EXCEPT !.state = @ \ {w}]
    <3> HIDE DEF keys
    <3>1. /\ DOMAIN k = DOMAIN keys /\ k.state = keys.state \ {w} /\ k.online = keys.online
          /\ k.hb = keys.hb /\ k.sampled = keys.sampled /\ k.samples = keys.samples
      BY <2>1
    <3> HIDE DEF k
    <3>2. KeysOK(k) /\ \A v \in Workers : k.samples[v] <= keys.samples[v]
      BY <2>1, <3>1 DEF KeysOK
    <3>3. live' = [live EXCEPT ![n] = k]
      BY <2>3 DEF k
    <3> QED
      BY <2>3, <3>1, <3>2, <3>3
  <2>4. CASE live' = [live EXCEPT ![n] = [keys EXCEPT !.sampled = @ \ {w},
                                                      !.samples = [@ EXCEPT ![w] = 0]]]
    <3> DEFINE k == [keys EXCEPT !.sampled = @ \ {w}, !.samples = [@ EXCEPT ![w] = 0]]
    <3> HIDE DEF keys
    <3>1. /\ DOMAIN k = DOMAIN keys /\ k.state = keys.state /\ k.online = keys.online
          /\ k.hb = keys.hb /\ k.sampled = keys.sampled \ {w}
          /\ k.samples = [keys.samples EXCEPT ![w] = 0]
      BY <2>1
    <3> HIDE DEF k
    <3>2. /\ k.samples \in [Workers -> Nat] /\ k.samples[w] = 0
          /\ \A v \in Workers \ {w} : k.samples[v] = keys.samples[v]
      BY <2>1, <3>1
    <3>3. KeysOK(k)
      BY <2>1, <3>1, <3>2 DEF KeysOK
    <3>4. \A v \in Workers : k.samples[v] <= keys.samples[v] \/ k.samples[v] = 0
      BY <2>1, <3>2
    <3>5. live' = [live EXCEPT ![n] = k]
      BY <2>4 DEF k
    <3> QED
      BY <3>1, <3>3, <3>4, <3>5
  <2> QED
    BY <1>2, <2>2, <2>3, <2>4
<1>4. /\ Keys' /\ live'[n] = k
      /\ \A m \in Tenants \ {n} : live'[m] = live[m]
  BY <1>1, <1>3, OneTenant
<1>5. StatusFollowsWord'
  <2> SUFFICES ASSUME NEW m \in Tenants, NEW v \in Workers
               PROVE  /\ word[m][v] = "offline"
                            => v \notin live'[m].state \cup live'[m].hb \cup live'[m].online
                      /\ word[m][v] = "online"
                            => /\ v \in live'[m].online
                               /\ v \in live'[m].online \cap live'[m].hb => v \in live'[m].state
                      /\ live'[m].samples[v] <= 1
    BY <1>1 DEF StatusFollowsWord, LiveWorkers
  <2>1. /\ word[m][v] = "offline"
              => v \notin live[m].state \cup live[m].hb \cup live[m].online
        /\ word[m][v] = "online"
              => /\ v \in live[m].online
                 /\ v \in live[m].online \cap live[m].hb => v \in live[m].state
        /\ live[m].samples[v] <= 1 /\ live[m].samples[v] \in Nat
    BY DEF StatusFollowsWord, LiveWorkers, Keys, KeysOK
  <2>2. CASE m # n
    BY <1>4, <2>1, <2>2
  <2>3. CASE m = n
    <3>1. live'[m].samples[v] <= 1
      <4>1. k.samples[v] \in Nat
        BY <1>3 DEF KeysOK
      <4> QED
        BY <1>3, <1>4, <2>1, <2>3, <4>1
    <3> QED
      BY <1>3, <1>4, <2>1, <2>3, <3>1
  <2> QED
    BY <2>2, <2>3
<1>6. Updates'
  <2> SUFFICES ASSUME NEW d \in Consumers
               PROVE  Partway(d)'
    BY DEF Updates
  <2>1. Partway(d) /\ TenantOf[d] \in Tenants /\ job'[d] = job[d]
    BY <1>1, IngestAssumption DEF Updates
  <2>2. CASE TenantOf[d] # n
    BY <1>4, <2>1, <2>2 DEF Partway
  <2>3. CASE TenantOf[d] = n
    <3>1. live'[TenantOf[d]] = k /\ live[TenantOf[d]] = keys
      BY <1>4, <2>3
    <3>2. CASE k.state = keys.state /\ k.hb \subseteq keys.hb
      BY <2>1, <3>1, <3>2 DEF Partway
    <3>3. CASE /\ k.state = keys.state \ {w} /\ k.hb = keys.hb
               /\ \A c \in Consumers : ~Amid(c, n, w)
      <4>1. job[d].nr > 1 => Head(job[d].todo).worker # w
        BY <2>3, <3>3 DEF Amid
      <4> QED
        BY <2>1, <3>1, <3>3, <4>1 DEF Partway
    <3> QED
      BY <1>3, <3>2, <3>3
  <2> QED
    BY <2>2, <2>3
<1> QED
  BY <1>1, <1>4, <1>5, <1>6 DEF Jobs, JobOK, Filled, Cached, NamesStick

-----------------------------------------------------------------------------
(* The feed.                                                               *)

\* The last few of the events number a + 1 to b of a sequence, and how many
\* there are before them.
Before(a, b) == IF b - a > TASK_LATEST_CAP THEN b - TASK_LATEST_CAP ELSE a
Final(q, a, b) == SubSeq(q, Before(a, b) + 1, b)

LEMMA BeforeIs ==
    ASSUME NEW a \in Nat, NEW b \in Nat, a <= b
    PROVE  Before(a, b) \in Nat /\ Before(a, b) <= b
BY LiveFeedAssumption DEF Before

LEMMA FinalIs ==
    ASSUME NEW S, NEW q \in Seq(S), NEW a \in Nat, NEW b \in Nat, a <= b, b <= Len(q)
    PROVE  /\ Final(q, a, b) \in Seq(S)
           /\ Len(Final(q, a, b)) = b - Before(a, b)
           /\ \A i \in 1 .. (b - Before(a, b)) : Final(q, a, b)[i] = q[Before(a, b) + i]
<1>1. PICK f \in Nat : f = Before(a, b) /\ f <= b
  BY BeforeIs
<1>2. Len(q) \in Nat
  BY LenProperties
<1>3. \A i \in f + 1 .. b : q[i] \in S
  BY <1>2, ElementOfSeq
<1>4. /\ SubSeq(q, f + 1, b) \in Seq(S)
      /\ Len(SubSeq(q, f + 1, b)) = IF f + 1 <= b THEN b - (f + 1) + 1 ELSE 0
      /\ \A i \in 1 .. b - (f + 1) + 1 : SubSeq(q, f + 1, b)[i] = q[(f + 1) + i - 1]
  BY <1>3, SubSeqProperties
<1>5. Len(SubSeq(q, f + 1, b)) = b - f
  BY <1>1, <1>4
<1>6. \A i \in 1 .. (b - f) : i \in 1 .. b - (f + 1) + 1 /\ (f + 1) + i - 1 = f + i
  OBVIOUS
<1>7. \A i \in 1 .. (b - f) : SubSeq(q, f + 1, b)[i] = q[f + i]
  BY <1>4, <1>6
<1> QED BY <1>1, <1>4, <1>5, <1>7 DEF Final

\* What comes later leaves them as they are.
LEMMA FinalStays ==
    ASSUME NEW S, NEW q \in Seq(S), NEW e \in S, NEW a \in Nat, NEW b \in Nat, a <= b, b <= Len(q)
    PROVE  Final(Append(q, e), a, b) = Final(q, a, b)
<1>1. /\ Len(q) \in Nat
      /\ Append(q, e) \in Seq(S) /\ Len(Append(q, e)) = Len(q) + 1
      /\ \A i \in 1 .. Len(q) : Append(q, e)[i] = q[i]
  BY LenProperties, AppendProperties
<1>2. PICK f \in Nat : f = Before(a, b) /\ f <= b
  BY BeforeIs
<1>3. PICK r \in Seq(S) : r = Append(q, e)
  BY <1>1, Zenon
<1>4. Len(r) = Len(q) + 1 /\ \A i \in 1 .. Len(q) : r[i] = q[i]
  BY <1>1, <1>3, Zenon
<1>5. b <= Len(r)
  BY <1>1, <1>4
<1>6. /\ Final(q, a, b) \in Seq(S) /\ Len(Final(q, a, b)) = b - f
      /\ \A i \in 1 .. (b - f) : Final(q, a, b)[i] = q[f + i]
  <2>1. /\ Final(q, a, b) \in Seq(S) /\ Len(Final(q, a, b)) = b - Before(a, b)
        /\ \A i \in 1 .. (b - Before(a, b)) : Final(q, a, b)[i] = q[Before(a, b) + i]
    BY FinalIs
  <2> QED BY <1>2, <2>1, Zenon
<1>7. /\ Final(r, a, b) \in Seq(S) /\ Len(Final(r, a, b)) = b - f
      /\ \A i \in 1 .. (b - f) : Final(r, a, b)[i] = r[f + i]
  <2>1. /\ Final(r, a, b) \in Seq(S) /\ Len(Final(r, a, b)) = b - Before(a, b)
        /\ \A i \in 1 .. (b - Before(a, b)) : Final(r, a, b)[i] = r[Before(a, b) + i]
    BY <1>5, FinalIs
  <2> QED BY <1>2, <2>1, Zenon
<1>8. \A i \in 1 .. (b - f) : f + i \in 1 .. Len(q)
  BY <1>1, <1>2
<1>9. Final(r, a, b) = Final(q, a, b)
  BY <1>4, <1>6, <1>7, <1>8, SeqEqual
<1> QED BY <1>3, <1>9

\* One more event, and the oldest of a full queue gives way to it.
LEMMA FinalKept ==
    ASSUME NEW S, NEW q \in Seq(S), NEW e \in S, NEW a \in Nat, a <= Len(q)
    PROVE  Final(Append(q, e), a, Len(q) + 1) = Kept(Final(q, a, Len(q)), e)
<1>0. PICK n \in Nat : n = Len(q)
  BY LenProperties
<1>1. /\ Append(q, e) \in Seq(S) /\ Len(Append(q, e)) = n + 1
      /\ \A i \in 1 .. n : Append(q, e)[i] = q[i]
      /\ Append(q, e)[n + 1] = e
  BY <1>0, AppendProperties
<1>2. PICK f \in Nat : f = Before(a, n) /\ f <= n
  BY <1>0, BeforeIs
<1>10. PICK k \in Nat : k = n + 1 /\ a <= k
  BY <1>0
<1>3. PICK g \in Nat : g = Before(a, k) /\ g <= n + 1
  BY <1>10, BeforeIs
<1>4. PICK r \in Seq(S) : r = Append(q, e)
  BY <1>1, Zenon
<1>5. Len(r) = n + 1 /\ (\A i \in 1 .. n : r[i] = q[i]) /\ r[n + 1] = e
  BY <1>1, <1>4, Zenon
<1>6. PICK l \in Seq(S) : /\ l = Final(q, a, n) /\ Len(l) = n - f
                          /\ \A i \in 1 .. (n - f) : l[i] = q[f + i]
  <2>1. /\ Final(q, a, n) \in Seq(S) /\ Len(Final(q, a, n)) = n - f
        /\ \A i \in 1 .. (n - f) : Final(q, a, n)[i] = q[f + i]
    <3>1. a <= n /\ n <= Len(q)
      BY <1>0
    <3>2. /\ Final(q, a, n) \in Seq(S) /\ Len(Final(q, a, n)) = n - Before(a, n)
          /\ \A i \in 1 .. (n - Before(a, n)) : Final(q, a, n)[i] = q[Before(a, n) + i]
      BY <3>1, FinalIs, SMTT(30)
    <3> QED BY <1>2, <3>2, Zenon
  <2> QED BY <2>1, Zenon
<1>7. PICK m \in Seq(S) : /\ m = Final(r, a, n + 1) /\ Len(m) = n + 1 - g
                          /\ \A i \in 1 .. (n + 1 - g) : m[i] = r[g + i]
  <2>1. k <= Len(r)
    BY <1>5, <1>10
  <2>2. /\ Final(r, a, k) \in Seq(S) /\ Len(Final(r, a, k)) = k - Before(a, k)
        /\ \A i \in 1 .. (k - Before(a, k)) : Final(r, a, k)[i] = r[Before(a, k) + i]
    BY <1>10, <2>1, FinalIs, SMTT(30)
  <2>3. /\ Final(r, a, n + 1) \in Seq(S) /\ Len(Final(r, a, n + 1)) = n + 1 - g
        /\ \A i \in 1 .. (n + 1 - g) : Final(r, a, n + 1)[i] = r[g + i]
    <3>1. k - Before(a, k) = n + 1 - g
      BY <1>3, <1>10
    <3>2. /\ Final(r, a, k) \in Seq(S) /\ Len(Final(r, a, k)) = n + 1 - g
          /\ \A i \in 1 .. (n + 1 - g) : Final(r, a, k)[i] = r[g + i]
      BY <1>3, <2>2, <3>1, Zenon
    <3> QED BY <1>10, <3>2, Zenon
  <2> QED BY <2>3, Zenon
<1>8. CASE Len(l) >= TASK_LATEST_CAP
  <2>1. g = f + 1 /\ f < n
    BY <1>0, <1>2, <1>3, <1>6, <1>8, <1>10, LiveFeedAssumption DEF Before
  <2>2. PICK t \in Seq(S) : /\ t = Tail(l) /\ Len(t) = n - g
                            /\ \A i \in 1 .. (n - g) : t[i] = l[i + 1]
    <3>1. l # <<>>
      BY <1>6, <2>1, EmptySeq
    <3>2. Tail(l) \in Seq(S) /\ Len(Tail(l)) = Len(l) - 1 /\ \A i \in 1 .. Len(Tail(l)) : Tail(l)[i] = l[i + 1]
      BY <3>1, HeadTailProperties
    <3>3. Len(l) - 1 = n - g
      BY <1>6, <2>1
    <3> QED BY <3>2, <3>3, Zenon
  <2>3. PICK z \in Seq(S) : /\ z = Append(t, e) /\ Len(z) = n - g + 1
                            /\ \A i \in 1 .. (n - g) : z[i] = t[i]
                            /\ z[n - g + 1] = e
    <3>1. /\ Append(t, e) \in Seq(S) /\ Len(Append(t, e)) = n - g + 1
          /\ \A i \in 1 .. (n - g) : Append(t, e)[i] = t[i]
          /\ Append(t, e)[n - g + 1] = e
      BY <2>2, AppendProperties
    <3> QED BY <3>1, Zenon
  <2>4. \A i \in 1 .. (n + 1 - g) : z[i] = m[i]
    <3> TAKE i \in 1 .. (n + 1 - g)
    <3>1. CASE i = n + 1 - g
      <4>1. i = n - g + 1 /\ g + i = n + 1
        BY <3>1
      <4>2. z[i] = e /\ m[i] = r[g + i]
        BY <1>7, <2>3, <4>1
      <4> QED BY <1>5, <4>1, <4>2
    <3>2. CASE i # n + 1 - g
      <4>1. /\ i \in 1 .. (n - g) /\ i + 1 \in 1 .. (n - f) /\ f + (i + 1) = g + i
            /\ g + i \in 1 .. n
        BY <2>1, <3>2
      <4>2. z[i] = q[f + (i + 1)]
        BY <1>6, <2>2, <2>3, <4>1
      <4>3. m[i] = q[g + i]
        BY <1>5, <1>7, <4>1
      <4> QED BY <4>1, <4>2, <4>3
    <3> QED BY <3>1, <3>2
  <2>5. z = m
    <3>1. Len(z) = Len(m) /\ \A i \in 1 .. Len(z) : z[i] = m[i]
      <4>1. n - g + 1 = n + 1 - g
        OBVIOUS
      <4> QED BY <1>7, <2>3, <2>4, <4>1, Zenon
    <3> QED BY <3>1, SeqEqual
  <2>6. Kept(l, e) = Append(t, e)
    BY <1>8, <2>2 DEF Kept
  <2> QED BY <1>0, <1>4, <1>6, <1>7, <2>3, <2>5, <2>6
<1>9. CASE ~(Len(l) >= TASK_LATEST_CAP)
  <2>1. g = f
    BY <1>0, <1>2, <1>3, <1>6, <1>9, <1>10, LiveFeedAssumption DEF Before
  <2>2. PICK z \in Seq(S) : /\ z = Append(l, e) /\ Len(z) = n - f + 1
                            /\ \A i \in 1 .. (n - f) : z[i] = l[i]
                            /\ z[n - f + 1] = e
    <3>1. /\ Append(l, e) \in Seq(S) /\ Len(Append(l, e)) = n - f + 1
          /\ \A i \in 1 .. (n - f) : Append(l, e)[i] = l[i]
          /\ Append(l, e)[n - f + 1] = e
      BY <1>6, AppendProperties
    <3> QED BY <3>1, Zenon
  <2>3. \A i \in 1 .. (n + 1 - g) : z[i] = m[i]
    <3> TAKE i \in 1 .. (n + 1 - g)
    <3>1. CASE i = n + 1 - g
      BY <1>3, <1>5, <1>7, <2>1, <2>2, <3>1
    <3>2. CASE i # n + 1 - g
      <4>1. i \in 1 .. (n - f) /\ g + i \in 1 .. n
        BY <2>1, <3>2
      <4>2. z[i] = q[f + i]
        BY <1>6, <2>2, <4>1
      <4>3. m[i] = q[g + i]
        BY <1>5, <1>7, <4>1
      <4> QED BY <2>1, <4>2, <4>3
    <3> QED BY <3>1, <3>2
  <2>4. z = m
    <3>1. Len(z) = Len(m) /\ \A i \in 1 .. Len(z) : z[i] = m[i]
      <4>1. n - f + 1 = n + 1 - g
        BY <2>1
      <4> QED BY <1>7, <2>2, <2>3, <4>1, Zenon
    <3> QED BY <3>1, SeqEqual
  <2>5. Kept(l, e) = Append(l, e)
    BY <1>9 DEF Kept
  <2> QED BY <1>0, <1>4, <1>6, <1>7, <2>2, <2>4, <2>5
<1> QED BY <1>8, <1>9

-----------------------------------------------------------------------------
(* The messages of the tasks.                                              *)

Update(S) == [message : [count : Nat, latest : Seq(S)], upto : Nat]
Upto(tf, i) == IF i = 0 THEN 0 ELSE tf[i].upto

\* The counts of the messages tf and of what is gathered add up to the tasks
\* tw, and every message has the last of its own.
TasksAddUp(S, tf, count, latest, tw) ==
    /\ tf \in Seq(Update(S)) /\ count \in Nat /\ latest \in Seq(S) /\ tw \in Seq(S)
    /\ \A i \in 0 .. Len(tf) : Upto(tf, i) <= Len(tw)
    /\ Upto(tf, Len(tf)) + count = Len(tw)
    /\ \A i \in 1 .. Len(tf) :
          /\ Upto(tf, i - 1) <= Upto(tf, i)
          /\ tf[i].message = [count |-> Upto(tf, i) - Upto(tf, i - 1),
                              latest |-> Final(tw, Upto(tf, i - 1), Upto(tf, i))]
    /\ latest = Final(tw, Upto(tf, Len(tf)), Len(tw))

LEMMA WiderSeq ==
    ASSUME NEW S, NEW T, S \subseteq T, NEW q \in Seq(S)
    PROVE  q \in Seq(T)
<1>1. /\ Len(q) \in Nat /\ q \in [1 .. Len(q) -> S]
  BY LenProperties
<1>2. q \in [1 .. Len(q) -> T]
  BY <1>1
<1> QED BY <1>1, <1>2, SeqDef

LEMMA TasksAmongMore ==
    ASSUME NEW S, NEW T, S \subseteq T, NEW tf, NEW count, NEW latest, NEW tw,
           TasksAddUp(S, tf, count, latest, tw)
    PROVE  TasksAddUp(T, tf, count, latest, tw)
<1>1. Update(S) \subseteq Update(T)
  <2>1. Seq(S) \subseteq Seq(T)
    BY WiderSeq
  <2> QED BY <2>1 DEF Update
<1>2. PICK U, V : U = Update(S) /\ V = Update(T)
  OBVIOUS
<1>3. tf \in Seq(V)
  BY <1>1, <1>2, WiderSeq DEF TasksAddUp
<1>4. latest \in Seq(T) /\ tw \in Seq(T)
  BY WiderSeq DEF TasksAddUp
<1> QED BY <1>2, <1>3, <1>4 DEF TasksAddUp

LEMMA UptoIs ==
    ASSUME NEW S, NEW tf \in Seq(Update(S))
    PROVE  Len(tf) \in Nat /\ \A i \in 0 .. Len(tf) : Upto(tf, i) \in Nat
<1>1. Len(tf) \in Nat
  BY LenProperties
<1>2. \A i \in 1 .. Len(tf) : tf[i] \in Update(S)
  BY ElementOfSeq
<1> QED BY <1>1, <1>2 DEF Upto, Update

\* A task is gathered.
LEMMA TaskGathered ==
    ASSUME NEW S, NEW tf, NEW count, NEW latest, NEW tw, NEW e \in S,
           TasksAddUp(S, tf, count, latest, tw)
    PROVE  TasksAddUp(S, tf, count + 1, Kept(latest, e), Append(tw, e))
<1> USE DEF TasksAddUp
<1>1. Len(tf) \in Nat /\ \A i \in 0 .. Len(tf) : Upto(tf, i) \in Nat
  BY UptoIs
<1>2. /\ Len(tw) \in Nat /\ Append(tw, e) \in Seq(S) /\ Len(Append(tw, e)) = Len(tw) + 1
  BY LenProperties, AppendProperties
<1>3. PICK p \in Nat : p = Upto(tf, Len(tf)) /\ p <= Len(tw)
  BY <1>1
<1>4. Final(Append(tw, e), p, Len(tw) + 1) = Kept(latest, e)
  BY <1>3, FinalKept
<1>5. Kept(latest, e) \in Seq(S)
  <2>1. Len(latest) >= TASK_LATEST_CAP => Tail(latest) \in Seq(S)
    <3>1. Len(latest) >= TASK_LATEST_CAP => latest # <<>>
      BY LiveFeedAssumption, EmptySeq
    <3> QED BY <3>1, HeadTailProperties
  <2>2. PICK k \in Seq(S) : k = IF Len(latest) >= TASK_LATEST_CAP THEN Tail(latest) ELSE latest
    BY <2>1
  <2> QED BY <2>2, AppendProperties DEF Kept
<1>6. ASSUME NEW i \in 1 .. Len(tf)
      PROVE  Final(Append(tw, e), Upto(tf, i - 1), Upto(tf, i)) = Final(tw, Upto(tf, i - 1), Upto(tf, i))
  <2>1. i \in 0 .. Len(tf) /\ i - 1 \in 0 .. Len(tf)
    BY <1>1
  <2>2. PICK a \in Nat, b \in Nat : a = Upto(tf, i - 1) /\ b = Upto(tf, i) /\ a <= b /\ b <= Len(tw)
    BY <1>1, <2>1
  <2>3. Final(Append(tw, e), a, b) = Final(tw, a, b)
    BY <2>2, FinalStays
  <2> QED BY <2>2, <2>3
<1>7. \A i \in 0 .. Len(tf) : Upto(tf, i) <= Len(Append(tw, e))
  <2> TAKE i \in 0 .. Len(tf)
  <2>1. Upto(tf, i) \in Nat /\ Upto(tf, i) <= Len(tw)
    BY <1>1
  <2>2. PICK u \in Nat, l \in Nat : u = Upto(tf, i) /\ l = Len(tw)
    BY <1>2, <2>1
  <2>3. u <= l + 1
    BY <2>1, <2>2
  <2> QED BY <1>2, <2>2, <2>3
<1>8. Upto(tf, Len(tf)) + (count + 1) = Len(Append(tw, e))
  BY <1>2, <1>3
<1>9. Kept(latest, e) = Final(Append(tw, e), Upto(tf, Len(tf)), Len(Append(tw, e)))
  BY <1>2, <1>3, <1>4
<1>10. count + 1 \in Nat
  OBVIOUS
<1> QED BY <1>2, <1>5, <1>6, <1>7, <1>8, <1>9, <1>10

LEMMA FinalOfNone ==
    ASSUME NEW S, NEW q \in Seq(S)
    PROVE  Final(q, Len(q), Len(q)) = <<>>
<1>1. PICK n \in Nat : n = Len(q)
  BY LenProperties
<1>2. Final(q, n, n) \in Seq(S) /\ Len(Final(q, n, n)) = n - Before(n, n)
  BY <1>1, FinalIs
<1>3. n - Before(n, n) = 0
  BY LiveFeedAssumption DEF Before
<1> QED BY <1>1, <1>2, <1>3, EmptySeq

\* They are sent.
LEMMA NothingSent ==
    ASSUME NEW S, NEW tf, NEW latest, NEW tw, TasksAddUp(S, tf, 0, latest, tw)
    PROVE  TasksAddUp(S, tf, 0, <<>>, tw)
<1> USE DEF TasksAddUp
<1>1. Len(tf) \in Nat /\ \A i \in 0 .. Len(tf) : Upto(tf, i) \in Nat
  BY UptoIs
<1>2. Upto(tf, Len(tf)) = Len(tw)
  <2>1. Upto(tf, Len(tf)) \in Nat
    BY <1>1
  <2> QED BY <2>1
<1>3. Final(tw, Len(tw), Len(tw)) = <<>>
  BY FinalOfNone
<1>4. <<>> \in Seq(S)
  BY EmptySeq
<1> QED BY <1>2, <1>3, <1>4

LEMMA TasksSent ==
    ASSUME NEW S, NEW tf, NEW count, NEW latest, NEW tw, TasksAddUp(S, tf, count, latest, tw),
           NEW f, f = [message |-> [count |-> count, latest |-> latest],
                       upto |-> Upto(tf, Len(tf)) + count]
    PROVE  TasksAddUp(S, Append(tf, f), 0, <<>>, tw)
<1>1. Len(tf) \in Nat /\ \A i \in 0 .. Len(tf) : Upto(tf, i) \in Nat
  BY UptoIs DEF TasksAddUp
<1>2. PICK n \in Nat : n = Len(tf)
  BY <1>1
<1>3. PICK p \in Nat : p = Upto(tf, n) /\ p + count = Len(tw) /\ p <= Len(tw)
  <2>1. n \in 0 .. n
    OBVIOUS
  <2>2. Upto(tf, n) \in Nat
    BY <1>1, <1>2, <2>1
  <2>3. Upto(tf, n) + count = Len(tw) /\ Upto(tf, n) <= Len(tw)
    BY <1>2, <2>1 DEF TasksAddUp
  <2> QED BY <2>2, <2>3, Zenon
<1>4. count \in Nat /\ latest \in Seq(S) /\ tw \in Seq(S) /\ Len(tw) \in Nat /\ <<>> \in Seq(S)
  BY LenProperties, EmptySeq DEF TasksAddUp
<1>5. f \in Update(S) /\ f.upto = Len(tw)
  <2>1. f = [message |-> [count |-> count, latest |-> latest], upto |-> Len(tw)]
    BY <1>2, <1>3
  <2> QED BY <1>4, <2>1 DEF Update
<1>6. PICK g \in Seq(Update(S)) :
         /\ g = Append(tf, f) /\ Len(g) = n + 1
         /\ \A i \in 1 .. n : g[i] = tf[i]
         /\ g[n + 1] = f
  <2>1. PICK U : U = Update(S)
    OBVIOUS
  <2>2. tf \in Seq(U) /\ f \in U
    BY <1>5, <2>1 DEF TasksAddUp
  <2>3. /\ Append(tf, f) \in Seq(U) /\ Len(Append(tf, f)) = Len(tf) + 1
        /\ \A i \in 1 .. Len(tf) : Append(tf, f)[i] = tf[i]
        /\ Append(tf, f)[Len(tf) + 1] = f
    BY <2>2, AppendProperties
  <2> QED BY <1>2, <2>1, <2>3, Zenon
<1>7. \A i \in 0 .. n : Upto(g, i) = Upto(tf, i)
  BY <1>6 DEF Upto
<1>8. Upto(g, n + 1) = Len(tw)
  BY <1>5, <1>6 DEF Upto
<1>9. \A i \in 0 .. n : Upto(tf, i) <= Len(tw)
  BY <1>2 DEF TasksAddUp
<1>10. \A i \in 0 .. n + 1 : Upto(g, i) <= Len(tw)
  BY <1>4, <1>7, <1>8, <1>9
<1>11. ASSUME NEW i \in 1 .. n + 1
       PROVE  /\ Upto(g, i - 1) <= Upto(g, i)
              /\ g[i].message = [count |-> Upto(g, i) - Upto(g, i - 1),
                                 latest |-> Final(tw, Upto(g, i - 1), Upto(g, i))]
  <2>1. CASE i = n + 1
    <3>1. i - 1 = n /\ n \in 0 .. n
      BY <2>1
    <3>2. Upto(g, i - 1) = p /\ Upto(g, i) = Len(tw)
      BY <1>3, <1>7, <1>8, <2>1, <3>1
    <3>3. g[i].message = [count |-> count, latest |-> latest]
      BY <1>6, <2>1
    <3>4. latest = Final(tw, p, Len(tw))
      BY <1>2, <1>3 DEF TasksAddUp
    <3>5. count = Len(tw) - p
      BY <1>3, <1>4
    <3> QED BY <1>3, <3>2, <3>3, <3>4, <3>5
  <2>2. CASE i # n + 1
    <3>1. i \in 1 .. n /\ i \in 0 .. n /\ i - 1 \in 0 .. n
      BY <2>2
    <3>2. Upto(g, i - 1) = Upto(tf, i - 1) /\ Upto(g, i) = Upto(tf, i) /\ g[i] = tf[i]
      BY <1>6, <1>7, <3>1
    <3>3. /\ Upto(tf, i - 1) <= Upto(tf, i)
          /\ tf[i].message = [count |-> Upto(tf, i) - Upto(tf, i - 1),
                              latest |-> Final(tw, Upto(tf, i - 1), Upto(tf, i))]
      BY <1>2, <3>1 DEF TasksAddUp
    <3> QED BY <3>2, <3>3
  <2> QED BY <2>1, <2>2
<1>12. Final(tw, Len(tw), Len(tw)) = <<>>
  BY <1>4, FinalOfNone
<1>13. PICK m \in Nat : m = n + 1
  OBVIOUS
<1>14. /\ Len(g) = m /\ Upto(g, m) = Len(tw) /\ Upto(g, m) + 0 = Len(tw)
  BY <1>4, <1>6, <1>8, <1>13
<1>15. TasksAddUp(S, g, 0, <<>>, tw)
  BY <1>4, <1>6, <1>10, <1>11, <1>12, <1>13, <1>14 DEF TasksAddUp
<1> QED BY <1>6, <1>15

-----------------------------------------------------------------------------
(* The newest event of a worker.                                           *)

\* One step of latest_per_worker.
Younger(events, w, i, kept) ==
    IF events[i].worker = w /\ events[i].at > kept.at THEN events[i] ELSE kept

\* The fold, as far as the first n events.
Folds(events, w, n, b) ==
    b = [i \in 0 .. n |-> IF i = 0 THEN [at |-> -1] ELSE Younger(events, w, i, b[i - 1])]

LEMMA FoldExists ==
    ASSUME NEW events, NEW w, NEW n \in Nat
    PROVE  \E b : Folds(events, w, n, b)
<1> DEFINE T == {k \in Nat : ~ \E b : Folds(events, w, k, b)}
<1> SUFFICES T = {}
  OBVIOUS
<1> SUFFICES ASSUME T # {} PROVE FALSE
  OBVIOUS
<1>1. PICK k \in T : \A y \in T : k <= y
  <2>1. T \in SUBSET Nat
    OBVIOUS
  <2> HIDE DEF T
  <2> QED BY <2>1, LeastNumber
<1>2. CASE k = 0
  <2>1. PICK b : b = [i \in {0} |-> [at |-> -1]]
    OBVIOUS
  <2>2. 0 .. k = {0}
    BY <1>2
  <2>3. Folds(events, w, k, b)
    BY <2>1, <2>2 DEF Folds
  <2> QED BY <1>1, <2>3
<1>3. CASE k # 0
  <2>1. PICK j \in Nat : j = k - 1 /\ k = j + 1
    BY <1>1, <1>3
  <2>2. j \notin T
    BY <1>1, <2>1
  <2>3. PICK b : Folds(events, w, j, b)
    BY <2>2
  <2>4. PICK d : d = [i \in 0 .. k |-> IF i = k THEN Younger(events, w, k, b[j]) ELSE b[i]]
    OBVIOUS
  <2>5. \A i \in 0 .. j : b[i] = IF i = 0 THEN [at |-> -1] ELSE Younger(events, w, i, b[i - 1])
    BY <2>3 DEF Folds
  <2>6. \A i \in 0 .. k : d[i] = IF i = 0 THEN [at |-> -1] ELSE Younger(events, w, i, d[i - 1])
    <3> TAKE i \in 0 .. k
    <3>1. CASE i = k
      <4>1. i # 0 /\ i - 1 = j /\ j \in 0 .. k /\ j # k /\ i \in 0 .. k
        BY <2>1, <3>1
      <4>2. d[i] = Younger(events, w, k, b[j]) /\ d[j] = b[j]
        BY <2>4, <3>1, <4>1
      <4> QED BY <3>1, <4>1, <4>2
    <3>2. CASE i # k /\ i # 0
      <4>1. i \in 0 .. j /\ i - 1 \in 0 .. j /\ i - 1 \in 0 .. k /\ i - 1 # k
        BY <2>1, <3>2
      <4>2. d[i] = b[i] /\ d[i - 1] = b[i - 1]
        BY <2>4, <3>2, <4>1
      <4> QED BY <2>5, <3>2, <4>1, <4>2
    <3>3. CASE i = 0 /\ i # k
      BY <2>1, <2>4, <2>5, <3>3
    <3> QED BY <3>1, <3>2, <3>3
  <2>7. Folds(events, w, k, d)
    <3>1. d = [i \in 0 .. k |-> d[i]]
      BY <2>4
    <3> QED BY <2>6, <3>1 DEF Folds
  <2> QED BY <1>1, <2>7
<1> QED BY <1>2, <1>3

\* Event number j is the first of the youngest of w among the first n.
IsNewest(events, w, n, j) ==
    /\ j \in 1 .. n /\ events[j].worker = w
    /\ \A k \in 1 .. n : events[k].worker = w =>
          events[k].at < events[j].at \/ (events[k].at = events[j].at /\ j <= k)

\* What the fold has found when it comes to event n.
Found(events, w, n, b) ==
    \/ b = [at |-> -1] /\ \A k \in 1 .. n : events[k].worker # w
    \/ \E j \in 1 .. n : b = events[j] /\ IsNewest(events, w, n, j)

LEMMA FoundNext ==
    ASSUME NEW events \in Seq(WorkerEvents), NEW w, NEW n \in Nat, n + 1 <= Len(events),
           NEW b, Found(events, w, n, b)
    PROVE  Found(events, w, n + 1, Younger(events, w, n + 1, b))
<1>1. \A k \in 1 .. n + 1 : events[k].at \in Nat
  <2>1. \A k \in 1 .. n + 1 : k \in 1 .. Len(events)
    BY LenProperties
  <2>2. \A k \in 1 .. n + 1 : events[k] \in WorkerEvents
    BY <2>1, ElementOfSeq
  <2> QED BY <2>2 DEF WorkerEvents
<1>2. PICK m \in Nat : m = n + 1 /\ m \in 1 .. m /\ \A k \in 1 .. m : k \in 1 .. n \/ k = m
  OBVIOUS
<1>3. \A k \in 1 .. n : k \in 1 .. m /\ k < m
  BY <1>2
<1>4. \A k \in 1 .. m : events[k].at \in Nat
  BY <1>1, <1>2
<1>5. Found(events, w, m, Younger(events, w, m, b))
  <2>1. CASE b = [at |-> -1] /\ \A k \in 1 .. n : events[k].worker # w
    <3>1. b.at = -1
      BY <2>1
    <3>2. events[m].at > -1
      BY <1>2, <1>4
    <3>3. CASE events[m].worker = w
      <4>1. Younger(events, w, m, b) = events[m]
        BY <3>1, <3>2, <3>3 DEF Younger
      <4>2. IsNewest(events, w, m, m)
        BY <1>2, <1>4, <2>1, <3>3 DEF IsNewest
      <4> QED BY <1>2, <4>1, <4>2 DEF Found
    <3>4. CASE events[m].worker # w
      <4>1. Younger(events, w, m, b) = b
        BY <3>4 DEF Younger
      <4> QED BY <1>2, <2>1, <3>4, <4>1 DEF Found
    <3> QED BY <3>3, <3>4
  <2>2. ASSUME NEW j \in 1 .. n, b = events[j], IsNewest(events, w, n, j)
        PROVE  Found(events, w, m, Younger(events, w, m, b))
    <3>1. events[j].at \in Nat /\ events[m].at \in Nat /\ j < m /\ j \in 1 .. m
      BY <1>2, <1>3, <1>4
    <3>2. CASE events[m].worker = w /\ events[m].at > events[j].at
      <4>1. Younger(events, w, m, b) = events[m]
        BY <2>2, <3>2 DEF Younger
      <4>2. IsNewest(events, w, m, m)
        <5>1. ASSUME NEW k \in 1 .. m, events[k].worker = w
              PROVE  events[k].at < events[m].at \/ (events[k].at = events[m].at /\ m <= k)
          <6>1. CASE k = m
            BY <1>2, <1>4, <6>1
          <6>2. CASE k \in 1 .. n
            <7>1. events[k].at <= events[j].at /\ events[k].at \in Nat
              BY <1>3, <1>4, <2>2, <3>1, <5>1, <6>2 DEF IsNewest
            <7> QED BY <3>1, <3>2, <7>1
          <6> QED BY <1>2, <6>1, <6>2
        <5> QED BY <1>2, <3>2, <5>1 DEF IsNewest
      <4> QED BY <1>2, <4>1, <4>2 DEF Found
    <3>3. CASE ~(events[m].worker = w /\ events[m].at > events[j].at)
      <4>1. Younger(events, w, m, b) = events[j]
        BY <2>2, <3>3 DEF Younger
      <4>2. IsNewest(events, w, m, j)
        <5>1. ASSUME NEW k \in 1 .. m, events[k].worker = w
              PROVE  events[k].at < events[j].at \/ (events[k].at = events[j].at /\ j <= k)
          <6>1. CASE k = m
            <7>1. ~(events[m].at > events[j].at)
              BY <3>3, <5>1, <6>1
            <7>2. events[m].at <= events[j].at
              BY <3>1, <7>1
            <7> QED BY <3>1, <6>1, <7>2
          <6>2. CASE k \in 1 .. n
            BY <2>2, <5>1, <6>2 DEF IsNewest
          <6> QED BY <1>2, <6>1, <6>2
        <5> QED BY <2>2, <3>1, <5>1 DEF IsNewest
      <4> QED BY <3>1, <4>1, <4>2 DEF Found
    <3> QED BY <3>2, <3>3
  <2> QED BY <2>1, <2>2 DEF Found
<1> QED BY <1>2, <1>5

LEMMA FoldFinds ==
    ASSUME NEW events \in Seq(WorkerEvents), NEW w, NEW b, Folds(events, w, Len(events), b)
    PROVE  Found(events, w, Len(events), b[Len(events)])
<1>1. PICK l \in Nat : l = Len(events)
  BY LenProperties
<1>2. \A i \in 0 .. l : b[i] = IF i = 0 THEN [at |-> -1] ELSE Younger(events, w, i, b[i - 1])
  BY <1>1 DEF Folds
<1> DEFINE T == {k \in 0 .. l : ~Found(events, w, k, b[k])}
<1>3. ASSUME T # {} PROVE FALSE
  <2>1. PICK k \in T : \A y \in T : k <= y
    <3>1. T \in SUBSET Nat
      OBVIOUS
    <3> HIDE DEF T
    <3> QED BY <1>3, <3>1, LeastNumber
  <2>2. CASE k = 0
    <3>1. b[0] = [at |-> -1]
      BY <1>2, <2>1, <2>2
    <3>2. 1 .. 0 = {}
      OBVIOUS
    <3>3. Found(events, w, 0, b[0])
      BY <3>1, <3>2 DEF Found
    <3> QED BY <2>1, <2>2, <3>3
  <2>3. CASE k # 0
    <3>1. PICK j \in Nat : j = k - 1 /\ k = j + 1 /\ j \in 0 .. l /\ j + 1 <= Len(events)
      BY <1>1, <2>1, <2>3
    <3>2. j \notin T
      BY <2>1, <3>1
    <3>3. Found(events, w, j, b[j])
      BY <3>1, <3>2
    <3>4. PICK x : x = b[j]
      OBVIOUS
    <3>5. Found(events, w, j + 1, Younger(events, w, j + 1, x))
      BY <3>1, <3>3, <3>4, FoundNext
    <3>6. b[k] = Younger(events, w, k, b[j])
      BY <1>2, <2>1, <2>3, <3>1
    <3>7. Found(events, w, k, b[k])
      BY <3>1, <3>4, <3>5, <3>6
    <3> QED BY <2>1, <3>7
  <2> QED BY <2>2, <2>3
<1>4. l \in 0 .. l
  OBVIOUS
<1>5. Found(events, w, l, b[l])
  BY <1>3, <1>4
<1> QED BY <1>1, <1>5

LEMMA LatestIsTheNewest ==
    ASSUME NEW events \in Seq(WorkerEvents), NEW w \in WorkersOf(events)
    PROVE  Latest(events, w) = Newest(events, w)
<1>1. PICK l \in Nat : l = Len(events) /\ DOMAIN events = 1 .. l
  BY LenProperties
<1>2. PICK b : Latest(events, w) = b[Len(events)] /\ Folds(events, w, Len(events), b)
  <2> DEFINE best == CHOOSE d : Folds(events, w, Len(events), d)
  <2>1. \E d : Folds(events, w, Len(events), d)
    BY <1>1, FoldExists
  <2>2. Folds(events, w, Len(events), best)
    BY <2>1
  <2>3. Latest(events, w) = best[Len(events)]
    BY DEF Latest, Folds, Younger
  <2> QED BY <2>2, <2>3
<1>3. Found(events, w, l, b[l])
  BY <1>1, <1>2, FoldFinds
<1>4. PICK i \in 1 .. l : events[i].worker = w
  BY <1>1 DEF WorkersOf, ToSet
<1>5. PICK j \in 1 .. l : b[l] = events[j] /\ IsNewest(events, w, l, j)
  BY <1>3, <1>4 DEF Found
<1>6. \A k \in 1 .. l : events[k].at \in Nat
  <2>1. \A k \in 1 .. l : events[k] \in WorkerEvents
    BY <1>1, ElementOfSeq
  <2> QED BY <2>1 DEF WorkerEvents
<1>7. ASSUME NEW k \in 1 .. l, IsNewest(events, w, l, k) PROVE k = j
  BY <1>5, <1>6, <1>7 DEF IsNewest
<1> DEFINE N == {events[k] : k \in {h \in DOMAIN events :
                   /\ events[h].worker = w
                   /\ \A g \in DOMAIN events :
                         events[g].worker = w => \/ events[g].at < events[h].at
                                                 \/ events[g].at = events[h].at /\ h <= g}}
<1>8. {h \in DOMAIN events :
                   /\ events[h].worker = w
                   /\ \A g \in DOMAIN events :
                         events[g].worker = w => \/ events[g].at < events[h].at
                                                 \/ events[g].at = events[h].at /\ h <= g} = {j}
  BY <1>1, <1>5, <1>7 DEF IsNewest
<1>9. N = {events[j]}
  BY <1>8
<1>10. Newest(events, w) = events[j]
  <2>1. Newest(events, w) = CHOOSE e \in N : TRUE
    BY DEF Newest
  <2> HIDE DEF N
  <2> QED BY <1>9, <2>1
<1> QED BY <1>1, <1>2, <1>5, <1>10

-----------------------------------------------------------------------------
(* The invariant of the feed.                                              *)

OthersAddUp(S) ==
    /\ other_batch \in Seq(S) /\ eventFrames \in Seq(S) /\ othersWanted \in Seq(S)
    /\ eventFrames \o other_batch = othersWanted

AtHome ==
    /\ \A i \in DOMAIN tasksWanted : tasksWanted[i].tenant = Home
    /\ \A i \in DOMAIN othersWanted : othersWanted[i].tenant = Home

FeedInv ==
    /\ \E S : TasksAddUp(S, taskFrames, task_count, task_latest, tasksWanted) /\ OthersAddUp(S)
    /\ AtHome

LEMMA FeedInitInv == FeedInit => FeedInv
<1> SUFFICES ASSUME FeedInit PROVE FeedInv
  OBVIOUS
<1> USE DEF FeedInit
<1>1. <<>> \in Seq({}) /\ Len(<<>>) = 0 /\ <<>> \in Seq(Update({}))
  BY EmptySeq
<1>2. Final(<<>>, 0, 0) = <<>>
  BY <1>1, FinalOfNone
<1>3. TasksAddUp({}, <<>>, 0, <<>>, <<>>)
  <2>1. Upto(<<>>, 0) = 0
    BY DEF Upto
  <2>2. 0 .. 0 = {0} /\ 1 .. 0 = {}
    OBVIOUS
  <2> QED BY <1>1, <1>2, <2>1, <2>2 DEF TasksAddUp
<1>4. OthersAddUp({})
  <2>1. <<>> \o <<>> = <<>>
    BY <1>1, ConcatEmptySeq
  <2> QED BY <1>1, <2>1 DEF OthersAddUp
<1>5. AtHome
  <2>1. DOMAIN <<>> = {}
    BY EmptySeq, LenProperties, <1>1
  <2> QED BY <2>1 DEF AtHome
<1> QED BY <1>3, <1>4, <1>5 DEF FeedInv

LEMMA FeedKept ==
    ASSUME FeedInv, UNCHANGED <<task_count, task_latest, other_batch, history>>
    PROVE  FeedInv'
  BY DEF FeedInv, OthersAddUp, AtHome, history

LEMMA HomeAppended ==
    ASSUME NEW S, NEW q \in Seq(S), NEW e \in S, e.tenant = Home,
           \A i \in DOMAIN q : q[i].tenant = Home
    PROVE  \A i \in DOMAIN Append(q, e) : Append(q, e)[i].tenant = Home
<1>1. PICK n \in Nat : n = Len(q) /\ DOMAIN q = 1 .. n
  BY LenProperties
<1>2. PICK r : r = Append(q, e)
  OBVIOUS
<1>3. /\ r \in Seq(S) /\ Len(r) = n + 1
      /\ \A i \in 1 .. n : r[i] = q[i]
      /\ r[n + 1] = e
  BY <1>1, <1>2, AppendProperties
<1>4. DOMAIN r = 1 .. n + 1
  BY <1>3, LenProperties
<1>5. \A i \in 1 .. n + 1 : r[i].tenant = Home
  BY <1>1, <1>3
<1> QED BY <1>2, <1>4, <1>5

LEMMA RecvStep ==
    ASSUME FeedInv, Recv
    PROVE  FeedInv'
<1>1. PICK e : e = sent[pos + 1]
  OBVIOUS
<1>2. PICK S : TasksAddUp(S, taskFrames, task_count, task_latest, tasksWanted) /\ OthersAddUp(S)
  BY DEF FeedInv
<1>3. PICK T : S \subseteq T /\ e \in T
  <2>1. S \subseteq S \cup {e} /\ e \in S \cup {e}
    OBVIOUS
  <2> QED BY <2>1, Zenon
<1>4. TasksAddUp(T, taskFrames, task_count, task_latest, tasksWanted)
  BY <1>2, <1>3, TasksAmongMore
<1>5. OthersAddUp(T)
  BY <1>2, <1>3, WiderSeq DEF OthersAddUp
<1>6. eventFrames' = eventFrames /\ taskFrames' = taskFrames
  BY DEF Recv
<1>7. CASE ~Wanted(e)
  <2>1. UNCHANGED <<task_count, task_latest, other_batch, tasksWanted, othersWanted>>
    BY <1>1, <1>7 DEF Recv
  <2> QED BY <1>6, <2>1, FeedKept DEF history
<1>8. CASE Wanted(e) /\ e.kind = "task"
  <2>1. /\ task_count' = task_count + 1 /\ task_latest' = Kept(task_latest, e)
        /\ tasksWanted' = Append(tasksWanted, e)
        /\ UNCHANGED <<other_batch, othersWanted>>
    BY <1>1, <1>8 DEF Recv
  <2>2. TasksAddUp(T, taskFrames, task_count + 1, Kept(task_latest, e), Append(tasksWanted, e))
    BY <1>3, <1>4, TaskGathered
  <2>3. TasksAddUp(T, taskFrames', task_count', task_latest', tasksWanted')
    BY <1>6, <2>1, <2>2
  <2>4. OthersAddUp(T)'
    BY <1>5, <1>6, <2>1 DEF OthersAddUp
  <2>5. AtHome'
    <3>1. e.tenant = Home /\ tasksWanted \in Seq(T)
      BY <1>4, <1>8 DEF Wanted, TasksAddUp
    <3>2. \A i \in DOMAIN Append(tasksWanted, e) : Append(tasksWanted, e)[i].tenant = Home
      BY <1>3, <3>1, HomeAppended DEF FeedInv, AtHome
    <3> QED BY <2>1, <3>2 DEF FeedInv, AtHome
  <2> QED BY <2>3, <2>4, <2>5 DEF FeedInv
<1>9. CASE Wanted(e) /\ e.kind # "task"
  <2>1. /\ other_batch' = Append(other_batch, e)
        /\ othersWanted' = Append(othersWanted, e)
        /\ UNCHANGED <<task_count, task_latest, tasksWanted>>
    BY <1>1, <1>9 DEF Recv
  <2>2. TasksAddUp(T, taskFrames', task_count', task_latest', tasksWanted')
    BY <1>4, <1>6, <2>1
  <2>3. OthersAddUp(T)'
    <3>1. /\ other_batch \in Seq(T) /\ eventFrames \in Seq(T) /\ othersWanted \in Seq(T)
          /\ eventFrames \o other_batch = othersWanted
      BY <1>5 DEF OthersAddUp
    <3>2. Append(other_batch, e) \in Seq(T) /\ Append(othersWanted, e) \in Seq(T)
      BY <1>3, <3>1, AppendProperties
    <3>3. <<e>> \in Seq(T)
      BY <1>3
    <3>4. /\ Append(other_batch, e) = other_batch \o <<e>>
          /\ Append(othersWanted, e) = othersWanted \o <<e>>
      BY <1>3, <3>1, AppendIsConcat
    <3>5. (eventFrames \o other_batch) \o <<e>> = eventFrames \o (other_batch \o <<e>>)
      BY <3>1, <3>3, ConcatAssociative
    <3> QED BY <1>6, <2>1, <3>1, <3>2, <3>4, <3>5 DEF OthersAddUp
  <2>4. AtHome'
    <3>1. e.tenant = Home /\ othersWanted \in Seq(T)
      BY <1>5, <1>9 DEF Wanted, OthersAddUp
    <3>2. \A i \in DOMAIN Append(othersWanted, e) : Append(othersWanted, e)[i].tenant = Home
      BY <1>3, <3>1, HomeAppended DEF FeedInv, AtHome
    <3> QED BY <2>1, <3>2 DEF FeedInv, AtHome
  <2> QED BY <2>2, <2>3, <2>4 DEF FeedInv
<1> QED BY <1>7, <1>8, <1>9

LEMMA FlushStep ==
    ASSUME FeedInv, Flush
    PROVE  FeedInv'
<1>1. PICK S : TasksAddUp(S, taskFrames, task_count, task_latest, tasksWanted) /\ OthersAddUp(S)
  BY DEF FeedInv
<1>2. /\ eventFrames' = eventFrames \o other_batch
      /\ taskFrames' = IF task_count = 0 THEN taskFrames
                       ELSE Append(taskFrames, [message |-> TaskBatchUpdate,
                                                upto |-> Announced(Len(taskFrames)) + task_count])
      /\ task_latest' = <<>> /\ other_batch' = <<>> /\ task_count' = 0
      /\ UNCHANGED <<othersWanted, tasksWanted>>
  BY DEF Flush, SendGathered
<1>3. OthersAddUp(S)'
  <2>1. /\ other_batch \in Seq(S) /\ eventFrames \in Seq(S) /\ othersWanted \in Seq(S)
        /\ eventFrames \o other_batch = othersWanted
    BY <1>1 DEF OthersAddUp
  <2>2. <<>> \in Seq(S) /\ othersWanted \o <<>> = othersWanted
    BY <2>1, EmptySeq, ConcatEmptySeq
  <2> QED BY <1>2, <2>1, <2>2 DEF OthersAddUp
<1>4. AtHome'
  BY <1>2 DEF FeedInv, AtHome
<1>5. TasksAddUp(S, taskFrames', task_count', task_latest', tasksWanted')
  <2>1. CASE task_count = 0
    <3>1. TasksAddUp(S, taskFrames, 0, task_latest, tasksWanted)
      BY <1>1, <2>1
    <3>2. TasksAddUp(S, taskFrames, 0, <<>>, tasksWanted)
      BY <3>1, NothingSent
    <3> QED BY <1>2, <2>1, <3>2
  <2>2. CASE task_count # 0
    <3>1. PICK f : f = [message |-> [count |-> task_count, latest |-> task_latest],
                        upto |-> Upto(taskFrames, Len(taskFrames)) + task_count]
      OBVIOUS
    <3>2. TasksAddUp(S, Append(taskFrames, f), 0, <<>>, tasksWanted)
      BY <1>1, <3>1, TasksSent
    <3>3. taskFrames' = Append(taskFrames, f)
      BY <1>2, <2>2, <3>1 DEF TaskBatchUpdate, Announced, Upto
    <3> QED BY <1>2, <3>2, <3>3
  <2> QED BY <2>1, <2>2
<1> QED BY <1>3, <1>4, <1>5 DEF FeedInv

LEMMA FeedNextInv == FeedInv /\ [Next]_vars => FeedInv'
<1> SUFFICES ASSUME FeedInv, [Next]_vars PROVE FeedInv'
  OBVIOUS
<1>1. CASE \/ IngestNext /\ UNCHANGED feedVars
           \/ \E n \in Tenants : AlertSent(n)
           \/ Subscribe \/ Unsubscribe \/ RecvLagged \/ Drop
           \/ UNCHANGED vars
  <2>1. UNCHANGED <<task_count, task_latest, other_batch, history>>
    BY <1>1 DEF AlertSent, Subscribe, Unsubscribe, RecvLagged, Drop, vars, feedVars
  <2> QED BY <2>1, FeedKept
<1> QED BY <1>1, RecvStep, FlushStep DEF Next

LEMMA FeedIsRight == IInv /\ FeedInv => FeedAddsUp
<1> SUFFICES ASSUME IInv, FeedInv PROVE FeedAddsUp
  OBVIOUS
<1>1. PICK S : TasksAddUp(S, taskFrames, task_count, task_latest, tasksWanted) /\ OthersAddUp(S)
  BY DEF FeedInv
<1>2. \A i : Announced(i) = Upto(taskFrames, i)
  BY DEF Announced, Upto
<1>3. \A a, b : LastOf(a, b) = Final(tasksWanted, a, b)
  BY DEF LastOf, Final, Before
<1>4. PICK U : taskFrames \in Seq(U)
  BY <1>1 DEF TasksAddUp
<1>5. DOMAIN taskFrames = 1 .. Len(taskFrames)
  BY <1>4, LenProperties
<1>6. LatestIsNewest
  <2> SUFFICES ASSUME NEW c \in Consumers, job[c].at = "plan",
                      NEW w \in WorkersOf(job[c].events)
               PROVE  Latest(job[c].events, w) = Newest(job[c].events, w)
    BY DEF LatestIsNewest
  <2>1. PICK evs \in Seq(WorkerEvents) : evs = job[c].events
    BY DEF IInv, Jobs, JobOK
  <2>2. Latest(evs, w) = Newest(evs, w)
    BY <2>1, LatestIsTheNewest
  <2> QED BY <2>1, <2>2
<1>7. Announced(Len(taskFrames)) + task_count = Len(tasksWanted)
  BY <1>1, <1>2 DEF TasksAddUp
<1>8. \A i \in DOMAIN taskFrames :
          taskFrames[i].message = [count |-> Announced(i) - Announced(i - 1),
                                   latest |-> LastOf(Announced(i - 1), Announced(i))]
  BY <1>1, <1>2, <1>3, <1>5 DEF TasksAddUp
<1>9. task_latest = LastOf(Announced(Len(taskFrames)), Len(tasksWanted))
  BY <1>1, <1>2, <1>3 DEF TasksAddUp
<1> QED
  BY <1>1, <1>6, <1>7, <1>8, <1>9 DEF FeedAddsUp, FeedInv, AtHome, OthersAddUp

-----------------------------------------------------------------------------
(* The theorems.                                                           *)

LEMMA InitInv == FeedInit => IInv
<1> SUFFICES ASSUME FeedInit PROVE IInv
  OBVIOUS
<1> USE DEF FeedInit, Init
<1>1. JobOK(Idle) /\ Filled(Idle) /\ Idle.nr = 1
  BY DEF Idle, JobOK, Filled, Phases
<1>2. batch \in [Consumers -> [task : Seq(TaskEvents), worker : Seq(WorkerEvents)]]
  BY EmptySeq
<1>3. Jobs /\ Updates
  BY <1>1, <1>2 DEF Jobs, Updates, Partway
<1>4. /\ NoKeys.state = {} /\ NoKeys.hb = {} /\ NoKeys.online = {} /\ KeysOK(NoKeys)
      /\ \A w \in Workers : NoKeys.samples[w] = 0
  BY DEF NoKeys, KeysOK
<1>5. Keys /\ StatusFollowsWord
  BY <1>4 DEF Keys, StatusFollowsWord, LiveWorkers
<1>6. Cached /\ NamesStick
  BY DEF Cached, NamesStick
<1> QED
  BY <1>3, <1>5, <1>6 DEF IInv

LEMMA NextInv == IInv /\ [Next]_vars => IInv'
<1> SUFFICES ASSUME IInv, [Next]_vars PROVE IInv'
  OBVIOUS
<1>1. CASE IngestNext
  <2>1. ASSUME NEW c \in Consumers,
               \/ Receive(c) \/ TakeTasks(c) \/ TakeWorkers(c)
               \/ LookupNames(c) \/ CacheNames(c) \/ StoreTasks(c) \/ SendTasks(c)
               \/ Sample(c) \/ PlanUpdates(c) \/ RedisCommand(c) \/ SendWorkers(c)
        PROVE  IInv'
    BY <2>1, BatchSteps, NameSteps, StoreSteps, SampleStep, PlanStep, CommandStep
  <2>2. ASSUME NEW n \in Tenants, NameExpires(n) \/ KeyExpires(n)
        PROVE  IInv'
    BY <2>2, NameExpiresStep, KeyExpiresStep
  <2> QED
    BY <1>1, <2>1, <2>2 DEF IngestNext
<1>2. CASE \/ \E n \in Tenants : AlertSent(n)
           \/ Subscribe \/ Unsubscribe \/ Recv \/ RecvLagged \/ Flush \/ Drop
           \/ UNCHANGED vars
  <2>1. UNCHANGED <<batch, job, names, live, rows, told, word>>
    BY <1>2 DEF AlertSent, Subscribe, Unsubscribe, Recv, RecvLagged, Flush, SendGathered,
                Drop, vars, ingestVars
  <2> QED
    BY <2>1, NothingKept
<1> QED
  BY <1>1, <1>2 DEF Next

\* backfill_task_names and cache_task_names keep the name of a task for the
\* rows of every later batch, of whichever consumer of the tenant, until the
\* entry expires or the lookup fails, and a row's name is its task's.  After
\* set_worker_state or set_worker_offline went through undisturbed, the keys of
\* the worker say what the event said, whatever other consumers update in
\* between and whatever expires.
THEOREM IngestionIsTrue == Spec => []IngestIsTrue
<1>1. IInv => IngestIsTrue
  BY DEF IInv, IngestIsTrue
<1> QED
  BY <1>1, InitInv, NextInv, PTL DEF Spec

\* What the ticks of the socket's flush_interval sent the client, and
\* what the socket has gathered since, are the events of its tenant that it
\* subscribed to, each counted once, for every order of events, commands of the
\* client, lags and ticks of the timer; and latest_per_worker keeps the newest
\* event of a worker, whatever the batch.
THEOREM FeedIsComplete == Spec => []FeedAddsUp
  BY InitInv, NextInv, FeedInitInv, FeedNextInv, FeedIsRight, PTL DEF Spec

=============================================================================
