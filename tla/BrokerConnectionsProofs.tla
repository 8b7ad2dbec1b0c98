----------------------- MODULE BrokerConnectionsProofs -----------------------
(***************************************************************************)
(* Theorems about BrokerConnections: what the map and the row of a broker  *)
(* say of its consumer tasks.                                              *)
(***************************************************************************)
EXTENDS BrokerConnections, FiniteSetTheorems, TLAPS

\* Nobody else refers to the task a request is about to insert.
Distinct ==
    \A q \in Requests :
        reqTask[q] # NoTask =>
            /\ reqTask[q] # connections
            /\ \A p \in Requests : reqTask[p] = reqTask[q] => p = q

\* A configuration that runs is not rejected.
NoReject == config = "runs" => \A t \in Tasks : pc[t] # "reject"

\* As long as no write failed, a task stands behind "connected", and nothing is
\* written before there is a row.
StatusInv ==
    /\ row = "none" => status # "connected"
    /\ row = "present" /\ faultsLeft = MaxFaults /\ status = "connected"
       => \E t \in Tasks : pc[t] \in {"running", "flushing"}

-----------------------------------------------------------------------------
(* While requests come one after the other.                                *)

Solo ==
    \A p, q \in Requests : reqPc[p] # "idle" /\ reqPc[q] # "idle" => p = q

Reached == \A t \in Live : t = connections \/ \E q \in Requests : reqTask[q] = t

\* What a request has brought about so far.
Progress ==
    \A q \in Requests :
        /\ reqPc[q] \in {"activate", "stop_old", "spawn", "insert",
                         "deactivate", "stop", "mark"} => row = "present"
        /\ reqPc[q] \in {"stop_old", "spawn", "insert"} => active
        /\ reqPc[q] \in {"stop", "mark"} => ~active
        /\ reqPc[q] \in {"spawn", "insert", "mark", "delete"} => connections = NoTask
        /\ reqPc[q] \in {"mark", "delete"} => Live = {}
        /\ reqPc[q] = "insert" /\ config = "runs" => reqTask[q] \in Live

Agreement ==
    /\ row = "deleted" \/ ~active => Live = {}
    /\ row = "present" /\ active /\ config = "runs" => connections \in Live

\* No request has changed anything yet.
Untouched == \A q \in Requests : reqPc[q] \in {"idle", "activate", "deactivate"}

TurnInv ==
    ~torn => Solo /\ Reached /\ Progress /\ (Untouched /\ ~stranded => Agreement)

IInv == TypeOK /\ Distinct /\ NoReject /\ StatusInv /\ TurnInv

-----------------------------------------------------------------------------
(* Kinds of step.                                                          *)

\* A request takes a step, the others stay where they are.
LEMMA OneRequest ==
    ASSUME TypeOK, NEW q \in Requests, NEW from \in RequestPhases,
           NEW to \in RequestPhases, Goto(q, from, to)
    PROVE  /\ reqPc[q] = from
           /\ reqPc' \in [Requests -> RequestPhases]
           /\ reqPc'[q] = to
           /\ \A p \in Requests \ {q} : reqPc'[p] = reqPc[p]
  BY DEF TypeOK, Goto

\* Failures are counted down.
LEMMA FaultsCounted ==
    ASSUME TypeOK, NoFault \/ Fault("db") \/ Fault("unheard")
    PROVE  /\ faultsLeft' \in 0 .. MaxFaults
           /\ faultsLeft' = MaxFaults => faultsLeft = MaxFaults
  BY BrokerAssumption DEF TypeOK, Fault, NoFault

\* A write of the status, and what it means to StatusInv: after a failure there
\* is nothing to show, and a row that is not there is not written.
LEMMA StatusWritten ==
    ASSUME TypeOK, NEW s \in {"connected", "error", "disconnected"}, WriteStatus(s)
    PROVE  /\ status' \in {"connected", "error", "disconnected"}
           /\ faultsLeft' \in 0 .. MaxFaults
           /\ faultsLeft' = MaxFaults => faultsLeft = MaxFaults
           /\ faultsLeft' = MaxFaults /\ row = "present" => status' = s
           /\ row # "present" => status' = status
  BY BrokerAssumption DEF TypeOK, WriteStatus, Fault, NoFault

\* The steps of a consumer leave it as live as it was: only one told to stop,
\* or rejected, ever ends.
LEMMA OneTask ==
    ASSUME TypeOK, NEW t \in Tasks, Consumer(t) \/ StreamCloses(t)
    PROVE  /\ pc' \in [Tasks -> TaskPhases]
           /\ \A u \in Tasks \ {t} : pc'[u] = pc[u]
           /\ Live' = Live
           /\ pc[t] # "over"
           /\ pc'[t] # "reject"
           /\ UNCHANGED <<row, active, config, connections, cancelled, reqVars, history>>
<1> DEFINE Kept == UNCHANGED <<row, active, config, connections, cancelled, reqVars, history>>
<1> SUFFICES ASSUME NEW to \in TaskPhases, pc' = [pc EXCEPT ![t] = to], Kept,
                    pc[t] # "over", to # "reject",
                    (to = "over") => (t \in cancelled \/ pc[t] = "reject"),
                    (pc[t] = "reject") => (to = "over")
             PROVE  /\ pc' \in [Tasks -> TaskPhases]
                    /\ \A u \in Tasks \ {t} : pc'[u] = pc[u]
                    /\ Live' = Live
                    /\ pc'[t] # "reject"
  <2>1. CASE Connect(t) \/ ConnectFails(t) \/ ReportConnected(t) \/ ReportFailed(t)
    BY <2>1 DEF Connect, ConnectFails, ReportConnected, ReportFailed, Step, TaskPhases, rowVars
  <2>2. CASE SeesCancel(t) \/ StreamCloses(t) \/ ReportDisconnected(t) \/ Reject(t)
    BY <2>2 DEF SeesCancel, StreamCloses, ReportDisconnected, Reject, Step, TaskPhases, rowVars
  <2>3. CASE Exited(t) \/ BackoffEnds(t)
    BY <2>3 DEF Exited, BackoffEnds, Step, TaskPhases, rowVars
  <2> QED
    BY <2>1, <2>2, <2>3 DEF Consumer
<1>1. pc' \in [Tasks -> TaskPhases] /\ pc'[t] = to /\ \A u \in Tasks \ {t} : pc'[u] = pc[u]
  BY DEF TypeOK
<1>2. \A u \in Tasks : u \in Live' <=> u \in Live
  BY <1>1 DEF Live, Kept
<1> QED
  BY <1>1, <1>2 DEF Live

\* Tasks and their tokens stay as they are.
LEMMA SameLive == UNCHANGED <<pc, cancelled>> => Live' = Live
  BY DEF Live

-----------------------------------------------------------------------------
(* The handlers.                                                           *)

\* Steps of a request that neither spawn, insert nor stop a task.
LEMMA RowSteps ==
    ASSUME IInv, NEW q \in Requests,
           \/ CreateBroker(q) \/ GetForStart(q) \/ Activate(q)
           \/ GetForStop(q) \/ Deactivate(q) \/ MarkDisconnected(q)
           \/ DeleteRow(q) \/ KeepRow(q)
    PROVE  IInv'
<1> USE DEF IInv
<1>1. UNCHANGED <<config, connections, cancelled, pc, reqTask>> /\ Live' = Live
  BY SameLive DEF CreateBroker, GetForStart, Activate, GetForStop, Deactivate,
                  MarkDisconnected, DeleteRow, KeepRow, SetActive, rowVars, tskVars, history
<1>2. TypeOK' /\ (reqPc[q] # "insert" /\ reqPc'[q] # "insert")
  <2> SUFFICES ASSUME NEW from \in RequestPhases \ {"insert"}, NEW to \in RequestPhases \ {"insert"},
                      Goto(q, from, to)
               PROVE  TypeOK' /\ (reqPc[q] # "insert" /\ reqPc'[q] # "insert")
    BY DEF CreateBroker, GetForStart, Activate, GetForStop, Deactivate, MarkDisconnected,
           DeleteRow, KeepRow, SetActive, RequestPhases
  <2>1. /\ reqPc[q] = from /\ reqPc'[q] = to
        /\ reqPc' \in [Requests -> RequestPhases]
        /\ \A p \in Requests \ {q} : reqPc'[p] = reqPc[p]
    BY OneRequest
  <2>2. /\ row' \in {"none", "present", "deleted"} /\ active' \in BOOLEAN
        /\ torn' \in BOOLEAN /\ stranded' \in BOOLEAN
    BY DEF TypeOK, CreateBroker, GetForStart, Activate, GetForStop, Deactivate, SetActive,
           MarkDisconnected, DeleteRow, KeepRow, rowVars, history, Begins
  <2>3. /\ status' \in {"connected", "error", "disconnected"}
        /\ faultsLeft' \in 0 .. MaxFaults
    <3>1. CASE MarkDisconnected(q)
      BY <3>1, StatusWritten DEF MarkDisconnected
    <3>2. CASE ~MarkDisconnected(q)
      <4>1. status' = status /\ (NoFault \/ Fault("db") \/ Fault("unheard"))
        BY <3>2 DEF CreateBroker, GetForStart, Activate, GetForStop, Deactivate, SetActive,
                    DeleteRow, KeepRow, rowVars, NoFault
      <4> QED
        BY <4>1, FaultsCounted DEF TypeOK
    <3> QED
      BY <3>1, <3>2
  <2> QED
    BY <1>1, <2>1, <2>2, <2>3 DEF TypeOK
<1>3. Distinct' /\ NoReject'
  BY <1>1 DEF Distinct, NoReject
<1>4. StatusInv'
  <2>1. CASE CreateBroker(q)
    <3>1. status' = status /\ row = "none" /\ status # "connected"
      BY <2>1 DEF StatusInv, CreateBroker
    <3> QED
      BY <3>1 DEF StatusInv
  <2>2. CASE MarkDisconnected(q)
    BY <1>1, <2>2, StatusWritten DEF StatusInv, MarkDisconnected, TypeOK
  <2>3. CASE \/ GetForStart(q) \/ Activate(q) \/ GetForStop(q) \/ Deactivate(q)
             \/ DeleteRow(q) \/ KeepRow(q)
    <3>1. /\ status' = status /\ (row' = row \/ row' = "deleted")
          /\ NoFault \/ Fault("db") \/ Fault("unheard")
      BY <2>3 DEF GetForStart, Activate, GetForStop, Deactivate, SetActive, DeleteRow, KeepRow,
                  rowVars, NoFault
    <3> QED
      BY <1>1, <3>1, FaultsCounted DEF StatusInv
  <2> QED
    BY <2>1, <2>2, <2>3
<1>5. TurnInv'
  <2> SUFFICES ASSUME ~torn' PROVE /\ Solo' /\ Reached' /\ Progress'
                                 /\ (Untouched /\ ~stranded => Agreement)'
    BY DEF TurnInv
  <2>1. ~torn
    BY DEF CreateBroker, GetForStart, Activate, GetForStop, Deactivate, MarkDisconnected,
           DeleteRow, KeepRow, SetActive, Begins, history, TypeOK
  <2>2. Solo /\ Reached /\ Progress /\ (Untouched /\ ~stranded => Agreement)
    BY <2>1 DEF TurnInv
  <2>3. \A p \in Requests \ {q} : reqPc[p] = "idle" /\ reqPc'[p] = "idle"
    <3>1. \A p \in Requests \ {q} : reqPc[p] = "idle"
      BY <2>1, <2>2 DEF Solo, CreateBroker, GetForStart, Activate, GetForStop, Deactivate,
                   MarkDisconnected, DeleteRow, KeepRow, SetActive, Begins, Goto
    <3> QED
      BY <3>1 DEF CreateBroker, GetForStart, Activate, GetForStop, Deactivate,
                  MarkDisconnected, DeleteRow, KeepRow, SetActive, Goto, TypeOK
  <2>4. Solo' /\ Reached'
    BY <1>1, <2>2, <2>3 DEF Solo, Reached
  <2>5. Progress' /\ (Untouched /\ ~stranded => Agreement)'
    <3>1. CASE CreateBroker(q)
      BY <3>1, <1>1, <2>2, <2>3 DEF CreateBroker, Goto, Progress, Untouched, Agreement, TypeOK
    <3>2. CASE GetForStart(q) \/ GetForStop(q)
      BY <3>2, <1>1, <2>2, <2>3
         DEF GetForStart, GetForStop, Goto, Progress, Untouched, Agreement, TypeOK, rowVars
    <3>3. CASE Activate(q)
      <4>1. reqPc[q] = "activate" /\ row = "present" /\ row' = row
        BY <3>3, <2>2 DEF Activate, SetActive, Goto, Progress
      <4>2. CASE NoFault /\ Goto(q, "activate", "stop_old") /\ active' = TRUE
        <5>1. reqPc'[q] = "stop_old" /\ ~Untouched'
          BY <4>2 DEF Goto, Untouched, TypeOK
        <5> QED
          BY <1>1, <2>3, <4>1, <4>2, <5>1 DEF Progress
      <4>3. CASE Goto(q, "activate", "idle") /\ (~stranded' => ~stranded /\ active' = active)
        <5>1. reqPc'[q] = "idle"
          BY <4>3 DEF Goto, TypeOK
        <5>2. ~stranded' => Agreement
          BY <2>2, <2>3, <4>1, <4>3 DEF Untouched
        <5> QED
          BY <1>1, <2>3, <4>1, <4>3, <5>1, <5>2 DEF Progress, Agreement
      <4> QED
        BY <3>3, <4>1, <4>2, <4>3 DEF Activate, SetActive, TypeOK
    <3>4. CASE Deactivate(q)
      <4>1. reqPc[q] = "deactivate" /\ row = "present" /\ row' = row
        BY <3>4, <2>2 DEF Deactivate, SetActive, Goto, Progress
      <4>2. CASE NoFault /\ Goto(q, "deactivate", "stop") /\ active' = FALSE
        <5>1. reqPc'[q] = "stop" /\ ~Untouched'
          BY <4>2 DEF Goto, Untouched, TypeOK
        <5> QED
          BY <1>1, <2>3, <4>1, <4>2, <5>1 DEF Progress
      <4>3. CASE Goto(q, "deactivate", "idle") /\ (~stranded' => ~stranded /\ active' = active)
        <5>1. reqPc'[q] = "idle"
          BY <4>3 DEF Goto, TypeOK
        <5>2. ~stranded' => Agreement
          BY <2>2, <2>3, <4>1, <4>3 DEF Untouched
        <5> QED
          BY <1>1, <2>3, <4>1, <4>3, <5>1, <5>2 DEF Progress, Agreement
      <4> QED
        BY <3>4, <4>1, <4>2, <4>3 DEF Deactivate, SetActive, TypeOK
    <3>5. CASE MarkDisconnected(q)
      BY <3>5, <1>1, <2>2, <2>3 DEF MarkDisconnected, Goto, Progress, Untouched, Agreement, TypeOK
    <3>6. CASE DeleteRow(q)
      BY <3>6, <1>1, <2>2, <2>3 DEF DeleteRow, Goto, Progress, Untouched, Agreement, TypeOK
    <3>7. CASE KeepRow(q)
      BY <3>7, <1>1, <2>2, <2>3 DEF KeepRow, Goto, Progress, Untouched, Agreement, TypeOK, rowVars
    <3> QED
      BY <3>1, <3>2, <3>3, <3>4, <3>5, <3>6, <3>7
  <2> QED
    BY <2>4, <2>5
<1> QED
  BY <1>2, <1>3, <1>4, <1>5

\* The steps that take the entry out of the map and cancel its task.
LEMMA StopSteps ==
    ASSUME IInv, NEW q \in Requests, StopOld(q) \/ StopCurrent(q) \/ DeleteStop(q)
    PROVE  IInv'
<1> USE DEF IInv
<1>1. /\ UNCHANGED <<rowVars, pc, reqTask, faultsLeft>>
      /\ ManagerStop
      /\ torn' \in BOOLEAN /\ (torn => torn') /\ stranded' \in BOOLEAN
  BY DEF StopOld, StopCurrent, DeleteStop, Begins, TypeOK
<1>2. reqPc[q] # "insert" /\ reqPc'[q] # "insert"
      /\ reqPc' \in [Requests -> RequestPhases]
      /\ \A p \in Requests \ {q} : reqPc'[p] = reqPc[p]
  <2> SUFFICES ASSUME NEW from \in RequestPhases \ {"insert"},
                      NEW to \in RequestPhases \ {"insert"}, Goto(q, from, to)
               PROVE  reqPc[q] # "insert" /\ reqPc'[q] # "insert"
                      /\ reqPc' \in [Requests -> RequestPhases]
                      /\ \A p \in Requests \ {q} : reqPc'[p] = reqPc[p]
    BY DEF StopOld, StopCurrent, DeleteStop, RequestPhases
  <2> QED
    BY OneRequest
<1>3. TypeOK' /\ Distinct' /\ NoReject' /\ StatusInv'
  <2>1. TypeOK'
    BY <1>1, <1>2, BrokerAssumption DEF TypeOK, Distinct, ManagerStop, rowVars
  <2>2. Distinct'
    BY <1>1 DEF Distinct, ManagerStop
  <2>3. NoReject' /\ StatusInv'
    BY <1>1 DEF NoReject, StatusInv, rowVars
  <2> QED
    BY <2>1, <2>2, <2>3
<1>4. TurnInv'
  <2> SUFFICES ASSUME ~torn' PROVE /\ Solo' /\ Reached' /\ Progress'
                                 /\ (Untouched /\ ~stranded => Agreement)'
    BY DEF TurnInv
  <2>1. ~torn /\ Solo /\ Reached /\ Progress
    BY <1>1 DEF TurnInv
  <2>2. \A p \in Requests \ {q} : reqPc[p] = "idle" /\ reqPc'[p] = "idle"
    <3>1. \A p \in Requests \ {q} : reqPc[p] = "idle"
      BY <2>1 DEF Solo, StopOld, StopCurrent, DeleteStop, Begins, Goto
    <3> QED
      BY <3>1, <1>2
  <2>3. \A p \in Requests : reqTask[p] = NoTask
    BY <1>2, <2>2 DEF TypeOK
  <2>4. Live' = {} /\ connections' = NoTask
    BY <1>1, <2>1, <2>3, BrokerAssumption DEF Reached, Live, ManagerStop
  <2>5. Solo' /\ Reached'
    BY <2>2, <2>4 DEF Solo, Reached
  <2>6. Progress' /\ ~Untouched'
    <3>1. CASE StopOld(q)
      BY <3>1, <1>1, <2>1, <2>2, <2>4 DEF StopOld, Goto, Progress, Untouched, TypeOK, rowVars
    <3>2. CASE StopCurrent(q)
      BY <3>2, <1>1, <2>1, <2>2, <2>4 DEF StopCurrent, Goto, Progress, Untouched, TypeOK, rowVars
    <3>3. CASE DeleteStop(q)
      BY <3>3, <1>1, <2>1, <2>2, <2>4 DEF DeleteStop, Goto, Progress, Untouched, TypeOK, rowVars
    <3> QED
      BY <3>1, <3>2, <3>3
  <2> QED
    BY <2>5, <2>6
<1> QED
  BY <1>3, <1>4

\* A task is spawned under a name nobody uses, and lives if its configuration
\* runs.
LEMMA SpawnStep ==
    ASSUME IInv, NEW q \in Requests, NEW t \in Tasks, Spawn(q, t)
    PROVE  IInv'
<1> USE DEF IInv
<1> DEFINE to == IF config = "unreadable" THEN "idle" ELSE "insert"
<1>1. /\ reqPc[q] = "spawn" /\ reqPc'[q] = to
      /\ reqPc' \in [Requests -> RequestPhases]
      /\ \A p \in Requests \ {q} : reqPc'[p] = reqPc[p]
  <2>1. Goto(q, "spawn", to)
    BY DEF Spawn
  <2> QED
    BY <2>1, OneRequest DEF RequestPhases
<1>2. /\ UNCHANGED <<rowVars, connections, faultsLeft, history>>
      /\ pc' \in [Tasks -> TaskPhases] /\ pc'[t] = FirstStep
      /\ \A u \in Tasks \ {t} : pc'[u] = pc[u]
      /\ cancelled' = cancelled \ {t}
      /\ pc[t] = "over" /\ t # connections
      /\ \A p \in Requests : reqTask[p] # t
  BY DEF Spawn, Unused, TypeOK, TaskPhases, FirstStep
<1>3. /\ reqTask[q] = NoTask
      /\ \A p \in Requests \ {q} : reqTask'[p] = reqTask[p]
      /\ reqTask'[q] = IF config = "unreadable" THEN NoTask ELSE t
      /\ reqTask' \in [Requests -> Tasks \cup {NoTask}]
  BY <1>1 DEF Spawn, TypeOK
<1>4. TypeOK'
  BY <1>1, <1>2, <1>3, BrokerAssumption DEF TypeOK, rowVars, history
<1>5. Distinct'
  BY <1>2, <1>3 DEF Distinct
<1>6. NoReject' /\ StatusInv'
  BY <1>2 DEF NoReject, StatusInv, FirstStep, rowVars
<1>7. TurnInv'
  <2> SUFFICES ASSUME ~torn' PROVE /\ Solo' /\ Reached' /\ Progress'
                                 /\ (Untouched /\ ~stranded => Agreement)'
    BY DEF TurnInv
  <2>1. ~torn /\ Solo /\ Reached /\ Progress
    BY <1>2 DEF TurnInv, history
  <2>2. \A p \in Requests \ {q} : /\ reqPc[p] = "idle" /\ reqPc'[p] = "idle"
                                  /\ reqTask[p] = NoTask /\ reqTask'[p] = NoTask
    BY <1>1, <1>3, <2>1 DEF Solo, TypeOK
  <2>3. row = "present" /\ active /\ connections = NoTask
    BY <1>1, <2>1 DEF Progress
  <2>4. Live = {}
    BY <1>3, <2>1, <2>2, <2>3, BrokerAssumption DEF Reached, Live
  <2>5. Live' = IF config = "runs" THEN {t} ELSE {}
    BY <1>2, <2>4 DEF Live, FirstStep, rowVars
  <2>6. Solo'
    BY <2>2 DEF Solo
  <2>7. CASE config = "unreadable"
    BY <1>1, <1>2, <2>2, <2>3, <2>5, <2>6, <2>7 DEF Reached, Progress, Agreement, rowVars
  <2>8. CASE config # "unreadable"
    BY <1>1, <1>2, <1>3, <2>2, <2>3, <2>5, <2>6, <2>8 DEF Reached, Progress, Untouched, rowVars
  <2> QED
    BY <2>7, <2>8
<1> QED
  BY <1>4, <1>5, <1>6, <1>7

\* The task enters the map.
LEMMA InsertStep ==
    ASSUME IInv, NEW q \in Requests, Insert(q)
    PROVE  IInv'
<1> USE DEF IInv
<1>1. /\ reqPc[q] = "insert" /\ reqPc'[q] = "idle"
      /\ reqPc' \in [Requests -> RequestPhases]
      /\ \A p \in Requests \ {q} : reqPc'[p] = reqPc[p]
  BY OneRequest DEF Insert, RequestPhases
<1>2. /\ UNCHANGED <<rowVars, cancelled, pc, faultsLeft, history>> /\ Live' = Live
      /\ connections' = reqTask[q] /\ reqTask[q] \in Tasks
      /\ reqTask' \in [Requests -> Tasks \cup {NoTask}] /\ reqTask'[q] = NoTask
      /\ \A p \in Requests \ {q} : reqTask'[p] = reqTask[p]
  BY <1>1, SameLive DEF Insert, TypeOK
<1>3. TypeOK'
  BY <1>1, <1>2, BrokerAssumption DEF TypeOK, rowVars, history
<1>4. Distinct'
  BY <1>2, BrokerAssumption DEF Distinct
<1>5. NoReject' /\ StatusInv'
  BY <1>2 DEF NoReject, StatusInv, rowVars
<1>6. TurnInv'
  <2> SUFFICES ASSUME ~torn' PROVE /\ Solo' /\ Reached' /\ Progress'
                                 /\ (Untouched /\ ~stranded => Agreement)'
    BY DEF TurnInv
  <2>1. ~torn /\ Solo /\ Reached /\ Progress
    BY <1>2 DEF TurnInv, history
  <2>2. \A p \in Requests \ {q} : reqPc[p] = "idle" /\ reqPc'[p] = "idle"
    BY <1>1, <2>1 DEF Solo
  <2>3. /\ row = "present" /\ active /\ connections = NoTask
        /\ config = "runs" => reqTask[q] \in Live
    BY <1>1, <2>1 DEF Progress
  <2>4. Solo'
    BY <1>1, <2>2 DEF Solo
  <2>5. Reached'
    BY <1>2, <2>1, <2>3, BrokerAssumption DEF Reached, Live
  <2>6. Progress' /\ Agreement'
    BY <1>1, <1>2, <2>2, <2>3 DEF Progress, Agreement, rowVars
  <2> QED
    BY <2>4, <2>5, <2>6
<1> QED
  BY <1>3, <1>4, <1>5, <1>6

-----------------------------------------------------------------------------
(* The consumers, and the process.                                         *)

\* A consumer only moves on and writes the status of the row.
LEMMA ConsumerSteps ==
    ASSUME IInv, NEW t \in Tasks, Consumer(t) \/ StreamCloses(t)
    PROVE  IInv'
<1> USE DEF IInv
<1>1. /\ pc' \in [Tasks -> TaskPhases]
      /\ \A u \in Tasks \ {t} : pc'[u] = pc[u]
      /\ Live' = Live
      /\ pc[t] # "over" /\ pc'[t] # "reject"
      /\ UNCHANGED <<row, active, config, connections, cancelled, reqVars, history>>
  BY OneTask
<1>2. \/ UNCHANGED <<status, faultsLeft>>
      \/ WriteStatus("connected") \/ WriteStatus("error") \/ WriteStatus("disconnected")
  BY DEF Consumer, StreamCloses, Connect, ConnectFails, ReportConnected, ReportFailed,
         ReportDisconnected, SeesCancel, Exited, BackoffEnds, Reject, rowVars
<1>3. TypeOK'
  <2>1. /\ status' \in {"connected", "error", "disconnected"}
        /\ faultsLeft' \in 0 .. MaxFaults
    BY <1>2, StatusWritten DEF TypeOK
  <2> QED
    BY <1>1, <2>1 DEF TypeOK, reqVars, history
<1>4. Distinct' /\ NoReject'
  BY <1>1 DEF Distinct, NoReject, reqVars
<1>5. StatusInv'
  <2>1. CASE WriteStatus("error") \/ WriteStatus("disconnected")
    BY <1>1, <2>1, StatusWritten DEF StatusInv
  <2>2. CASE ReportConnected(t)
    <3>1. pc'[t] = "running"
      BY <2>2 DEF ReportConnected, Step, TypeOK
    <3> QED
      BY <1>1, <2>2, <3>1, StatusWritten DEF StatusInv, ReportConnected
  <2>3. CASE UNCHANGED <<status, faultsLeft>> /\ ~ReportConnected(t)
    <3>1. pc[t] \in {"running", "flushing"} => pc'[t] = "flushing" \/ ReportDisconnected(t)
      BY <2>3 DEF Consumer, StreamCloses, Connect, ConnectFails, ReportFailed,
                  SeesCancel, Exited, BackoffEnds, Reject, Step, TypeOK
    <3>2. CASE ReportDisconnected(t)
      BY <1>1, <3>2, StatusWritten DEF StatusInv, ReportDisconnected
    <3>3. CASE ~ReportDisconnected(t)
      BY <1>1, <2>3, <3>1, <3>3 DEF StatusInv
    <3> QED
      BY <3>2, <3>3
  <2>4. WriteStatus("connected") => ReportConnected(t) \/ UNCHANGED <<status, faultsLeft>>
                                   \/ WriteStatus("error") \/ WriteStatus("disconnected")
    BY DEF Consumer, StreamCloses, Connect, ConnectFails, ReportConnected, ReportFailed,
           ReportDisconnected, SeesCancel, Exited, BackoffEnds, Reject, rowVars
  <2> QED
    BY <1>2, <2>1, <2>2, <2>3, <2>4
<1>6. TurnInv'
  BY <1>1 DEF TurnInv, Solo, Reached, Progress, Untouched, Agreement, reqVars, history
<1> QED
  BY <1>3, <1>4, <1>5, <1>6

\* The process stops and starts again.
LEMMA RestartStep == ASSUME IInv, Restart PROVE IInv'
<1> USE DEF IInv
<1>1. /\ UNCHANGED rowVars /\ cancelled' = {}
      /\ reqPc' = [q \in Requests |-> "idle"]
      /\ reqTask' = [q \in Requests |-> NoTask]
      /\ torn' = FALSE /\ stranded' \in BOOLEAN
      /\ AutoStart \/ /\ pc' = [t \in Tasks |-> "over"] /\ connections' = NoTask
                      /\ stranded' = (row = "present" /\ active)
  BY DEF Restart
<1>2. faultsLeft' \in 0 .. MaxFaults /\ faultsLeft' # MaxFaults
  <2>1. faultsLeft \in 0 .. MaxFaults /\ faultsLeft > 0 /\ faultsLeft' = faultsLeft - 1
    BY DEF Restart, Fault, TypeOK
  <2> QED
    BY <2>1, BrokerAssumption
<1>3. /\ connections' \in Tasks \cup {NoTask}
      /\ pc' \in [Tasks -> TaskPhases]
      /\ config = "runs" => \A t \in Tasks : pc'[t] # "reject"
  <2>1. CASE AutoStart
    BY <2>1 DEF AutoStart, FirstStep, TaskPhases
  <2>2. CASE ~AutoStart
    BY <1>1, <2>2 DEF TaskPhases
  <2> QED
    BY <2>1, <2>2
<1>4. TypeOK' /\ Distinct' /\ NoReject' /\ StatusInv'
  <2>1. TypeOK'
    BY <1>1, <1>2, <1>3, BrokerAssumption DEF TypeOK, rowVars, RequestPhases
  <2>2. Distinct'
    BY <1>1 DEF Distinct
  <2>3. NoReject' /\ StatusInv'
    BY <1>1, <1>2, <1>3 DEF NoReject, StatusInv, rowVars
  <2> QED
    BY <2>1, <2>2, <2>3
<1>5. TurnInv'
  <2> SUFFICES ASSUME ~torn' PROVE /\ Solo' /\ Reached' /\ Progress'
                                 /\ (Untouched /\ ~stranded => Agreement)'
    BY DEF TurnInv
  <2>1. Solo' /\ Progress'
    BY <1>1 DEF Solo, Progress
  <2>2. CASE row = "present" /\ active /\ AutoStart
    <3>1. PICK t \in Tasks :
             /\ connections' = IF config = "unreadable" THEN NoTask ELSE t
             /\ pc' = [u \in Tasks |-> IF u = t THEN FirstStep ELSE "over"]
      BY <2>2 DEF AutoStart
    <3>2. Live' = IF config = "runs" THEN {t} ELSE {}
      BY <1>1, <3>1 DEF Live, FirstStep
    <3> QED
      BY <1>1, <2>1, <2>2, <3>1, <3>2 DEF Reached, Agreement, rowVars
  <2>3. CASE ~(row = "present" /\ active) \/ ~AutoStart
    <3>1. Live' = {}
      BY <1>1, <2>3 DEF AutoStart, Live
    <3> QED
      BY <1>1, <2>1, <2>3, <3>1 DEF Reached, Agreement, rowVars
  <2> QED
    BY <2>2, <2>3
<1> QED
  BY <1>4, <1>5

-----------------------------------------------------------------------------
(* The theorems.                                                           *)

\* There is no broker yet.
LEMMA InitInv == Init => IInv
<1> SUFFICES ASSUME Init PROVE IInv
  OBVIOUS
<1>1. TypeOK
  <2>1. faultsLeft \in 0 .. MaxFaults
    BY BrokerAssumption DEF Init
  <2>2. /\ pc \in [Tasks -> TaskPhases]
        /\ reqPc \in [Requests -> RequestPhases]
        /\ reqTask \in [Requests -> Tasks \cup {NoTask}]
    BY DEF Init, TaskPhases, RequestPhases
  <2> QED
    BY <2>1, <2>2 DEF Init, TypeOK
<1>2. Distinct /\ NoReject /\ StatusInv
  BY DEF Init, Distinct, NoReject, StatusInv
<1>3. Live = {}
  BY DEF Init, Live
<1>4. TurnInv
  BY <1>3 DEF Init, TurnInv, Solo, Reached, Progress, Untouched, Agreement
<1> QED
  BY <1>1, <1>2, <1>4 DEF IInv

\* Every step of a handler, a consumer or the process keeps the invariant.
LEMMA NextInv == IInv /\ [Next]_vars => IInv'
<1> SUFFICES ASSUME IInv, [Next]_vars PROVE IInv'
  OBVIOUS
<1>1. ASSUME NEW q \in Requests, Request(q) \/ Handler(q) PROVE IInv'
  BY <1>1, RowSteps, StopSteps, SpawnStep, InsertStep DEF Request, Handler
<1>2. ASSUME NEW t \in Tasks, Consumer(t) \/ StreamCloses(t) PROVE IInv'
  BY <1>2, ConsumerSteps
<1>3. CASE Restart
  BY <1>3, RestartStep
<1>4. CASE UNCHANGED vars
  BY <1>4 DEF vars, rowVars, history, tskVars, reqVars, IInv, TypeOK, Distinct, NoReject, StatusInv,
              TurnInv, Solo, Reached, Progress, Untouched, Agreement, Live
<1> QED
  BY <1>1, <1>2, <1>3, <1>4 DEF Next

LEMMA InvHolds == Spec => []IInv
  BY InitInv, NextInv, PTL DEF Spec

\* Whatever requests overlap (create_broker, start_broker, stop_broker,
\* delete_broker), the entry in the map and a task about to be inserted were
\* not told to stop.
THEOREM EntriesAreUncancelled == Spec => []TypeOK
  BY InvHolds, PTL DEF IInv

\* While requests come one after the other, manager.start and manager.stop
\* leave a broker one live consumer at most, and one the next stop will find.
THEOREM ConsumersTakeTurns == Spec => []OneConsumerInTurn
<1>1. IInv => OneConsumerInTurn
  <2> SUFFICES ASSUME IInv, ~torn PROVE OneConsumer /\ Reached
    BY DEF OneConsumerInTurn, Reached
  <2>1. Solo /\ Reached /\ Progress
    BY DEF IInv, TurnInv
  <2>2. PICK u : Live \subseteq {u}
    <3>1. CASE \E q \in Requests : reqPc[q] = "insert"
      <4>1. PICK q \in Requests : reqPc[q] = "insert"
        BY <3>1
      <4>2. connections = NoTask /\ \A p \in Requests \ {q} : reqTask[p] = NoTask
        BY <2>1, <4>1 DEF Solo, Progress, IInv, TypeOK
      <4> QED
        BY <2>1, <4>2, BrokerAssumption DEF Reached, Live
    <3>2. CASE \A q \in Requests : reqPc[q] # "insert"
      BY <2>1, <3>2, BrokerAssumption DEF Reached, Live, IInv, TypeOK
    <3> QED
      BY <3>1, <3>2
  <2>3. IsFiniteSet({u}) /\ Cardinality({u}) = 1
    BY FS_Singleton
  <2>4. Cardinality(Live) <= 1
    BY <2>2, <2>3, FS_Subset
  <2> QED
    BY <2>1, <2>4 DEF OneConsumer
<1> QED
  BY <1>1, InvHolds, PTL

\* While requests come one after the other, a broker has a consumer if and
\* only if its row says it is active: after a request that ended between the
\* row and the map, or a delete that found no row, again from the next start,
\* stop, delete or restart on.
THEOREM ActiveIsConsumed == Spec => []ConsumerIffActive
<1>1. IInv => ConsumerIffActive
  BY DEF IInv, TurnInv, Untouched, Agreement, ConsumerIffActive, NoRequest
<1> QED
  BY <1>1, InvHolds, PTL

\* A broker at rest is not shown as connected: the last status a consumer
\* writes (update_broker_config_status) is never "connected".
THEOREM RestIsShown == Spec => []RestIsNotConnected
<1>1. IInv => RestIsNotConnected
  BY DEF IInv, StatusInv, RestIsNotConnected
<1> QED
  BY <1>1, InvHolds, PTL

=============================================================================
