------------------------- MODULE MC_AlertConditions -------------------------
(* Small instances of AlertConditions, with all it is built on, for TLC.   *)
EXTENDS AlertConditions

CONSTANTS t1, t2, t3, red, default

Own(name, parent, group, chord) ==
    [name |-> name, queue |-> default, broker |-> red, worker |-> t1, error |-> name,
     runtime |-> 1, parent |-> parent, root |-> t1, group |-> group, chord |-> chord,
     phase |-> "born"]

\* A task that began before its broker was connected.
Running(name, worker, runtime) ==
    [Own(name, None, None, None) EXCEPT !.phase = "task-started", !.worker = worker,
                                        !.runtime = runtime]

\* A task that may be retried by hand, twice; a chord, whose first member hangs
\* on itself, the member added by it and its callback; two tasks about to
\* finish beside one that has.
MCOrigins ==
    { (t1 :> Own("load", None, None, None)),
      (t1 :> Own("load", t1, "g", t3)) @@ (t2 :> Own("load", t1, "g", t3))
          @@ (t3 :> Own("save", t2, None, None)),
      (t1 :> Running("load", t1, 1)) @@ (t2 :> [Running("load", t2, 4) EXCEPT !.error = None])
          @@ (t3 :> [Running("save", t1, 1) EXCEPT !.phase = "task-succeeded"]) }

MCAsked == {{Unknown}, {Unknown, "FAILURE"}}

MCConditions ==
    { [on |-> "TaskFailureRate", window |-> 1, percent |-> 50, names |-> {"load"}],
      [on |-> "TaskFailed", names |-> {"save"}],
      [on |-> "TaskDuration", seconds |-> 2, names |-> AnyName],
      [on |-> "QueueDepth", queue |-> AnyName, depth |-> 1],
      [on |-> "QueueDepth", queue |-> default, depth |-> 1],
      [on |-> "WorkerOffline", grace |-> 2],
      [on |-> "BeatMissed"],
      [on |-> "NoEvents", silence |-> 1],
      [on |-> "ThroughputAnomaly", window |-> 0, z |-> 1, names |-> AnyName],
      [on |-> "LatencyAnomaly", window |-> 1, z |-> 2, names |-> {"load"}],
      [on |-> "ErrorRateSpike", baseline |-> 2, factor |-> 1, names |-> AnyName] }

MCReadings ==
    [active : BOOLEAN, live : {0}, seen : {None, 1, 2}, missed : {0}, depths : {[q \in {} |-> 0]}]
    \cup [active : {TRUE}, live : {1}, seen : {1}, missed : {0, 1}, depths : {[q \in {default} |-> 2]}]

=============================================================================
