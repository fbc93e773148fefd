--------------------------------- MODULE Pool ---------------------------------
(***************************************************************************)
(* One parallel run: the coordinator, its workers and the two queues.       *)
(***************************************************************************)
EXTENDS Worker, Coordinator

\* The process is gone, and so is everything it started.
Terminated ==
    /\ cpc = "exited"
    /\ UNCHANGED vars

Next ==
    \/ CoordStep \/ SpawnFails \/ Interrupt \/ Crash
    \/ FeedTask
    \/ \E p \in Procs : WorkerStep(p) \/ SignalDeath(p) \/ Kill(p)
    \/ Terminated

\* The coordinator's two threads are scheduled, and a signal is delivered.
\* Nothing is assumed of a worker: a step definition may never return.
Fairness ==
    /\ WF_vars(CoordStep)
    /\ WF_vars(FeedTask)
    /\ \A p \in Procs : WF_vars(SignalDeath(p))

\* Every hook and every step returns, and the workers are scheduled.
HealthyWorkers ==
    \A p \in Procs : WF_vars(LoopStep(p)) /\ WF_vars(ResultFeeder(p))

Spec == Init /\ [][Next]_vars /\ Fairness
HealthySpec == Spec /\ HealthyWorkers

-----------------------------------------------------------------------------
(* Safety.                                                                  *)

Started(u) == ran[u] # "none"
Finished(u) == ran[u] \in {"passed", "failed"}
Running(u) == ran[u] = "running"

\* While a @serial unit runs, no other unit runs and no worker of the parallel
\* phase is left: not one that was terminated and has not died yet, not one
\* that is still tearing down (docs/serial-scenarios.md).
SerialExclusion ==
    \A u \in SerialUnits : Running(u) =>
        /\ \A v \in Units \ {u} : ~Running(v)
        /\ \A p \in ParallelProcs : ~Alive(p)

\* The serial units run in their order: one starts only when each one before
\* it has come to a result.
SerialOrder ==
    \A i, j \in DOMAIN SerialBatch :
        i < j /\ Started(SerialBatch[j]) => Finished(SerialBatch[i])

\* Whatever a crash leaves in the task queue, no parallel unit starts once a
\* serial unit has started.
ParallelBeforeSerial ==
    [][(\E s \in SerialUnits : Started(s)) =>
        \A u \in ParallelUnits : ran[u] = "none" => ran'[u] = "none"]_vars

\* No unit is run twice, whichever workers share the queue, die or are skipped.
AtMostOnce ==
    [][\A u \in Units : Started(u) => ran'[u] # "none" /\ (Running(u)' => Running(u))]_vars

\* A result that reached the coordinator tells what happened to its unit, and
\* no unit has two: counting results is counting units.
ResultsTruthful ==
    /\ \A i \in DOMAIN results : results[i].unit \in Units =>
          ran[results[i].unit] = IF results[i].failed THEN "failed" ELSE "passed"
    /\ \A i, j \in DOMAIN results :
          results[i].unit = results[j].unit /\ results[i].unit \in Units => i = j

\* The run passes only if every unit that was dispatched ran and passed:
\* a dropped, lost or unread result can never turn into a pass.
VerdictSound ==
    verdict = "passed" => \A u \in ToSet(dispatched) : ran[u] = "passed"

Holders == {p \in Procs : item[p] # 0}

\* The JoinableQueue's counter is the entries nobody took plus the entries in
\* hand, so no task_done() finds it at zero and raises ValueError.
TaskAccounting == unfinished = (Len(log) - taken) + Cardinality(Holders)

\* A worker that will call get() again.
Consuming(p) ==
    \/ pc[p] \in {"setup", "loop", "get", "poll", "checked", "running", "ack"}
    \/ pc[p] = "got" /\ Held(p) # None

Readers == {p \in Procs : Consuming(p)}
Sentinels == {i \in (taken + 1)..Len(log) : log[i] = None}

\* While a phase is joined there is a sentinel left for each worker that will
\* still read the queue, however unevenly they took the units and whichever
\* were terminated meanwhile: no healthy worker is left polling an empty queue.
SentinelForEach ==
    cpc \in {"join", "terminate"} => Cardinality(Readers) <= Cardinality(Sentinels)

-----------------------------------------------------------------------------
(* Liveness.                                                                *)

\* _collect reads a result whose writer died after its first half: get() has
\* no timeout once a message has begun.
ReadsTorn == cpc = "collect" /\ WantsMore /\ rpipe # <<>> /\ Head(rpipe) = Torn

\* The process waits at its exit for a feeder thread that has tasks left and
\* no room in the pipe for them.
FeederStuck == cpc = "exiting" /\ flushed < Len(log) /\ flushed - taken >= TaskCap

\* run() returns (or raises), with workers that hang in user code as well.
\* Nothing keeps it from that but a torn result.
Returns ==
    <>(cpc \in {"returned", "raised", "exiting", "exited", "crashed"} \/ ReadsTorn)

\* ... and the process ends, leaving no worker behind.  Nothing keeps it from
\* that but a torn result, or more unread tasks than the pipe holds.
Exits ==
    <>[](\/ cpc = "exited" /\ \A p \in Procs : ~Alive(p)
         \/ ReadsTorn
         \/ FeederStuck)

\* With healthy workers every unit, parallel and serial, runs to a result that
\* the coordinator has, and the verdict is that of the units.
HealthyRunCompletes ==
    <>(/\ verdict # "none"
       /\ \A u \in Units : Finished(u) /\ \E i \in DOMAIN results : results[i].unit = u
       /\ verdict = "failed" <=> \E u \in Units : ran[u] = "failed")

-----------------------------------------------------------------------------
(* The promise (see PoolPromise), which every run keeps.                    *)

Promise == INSTANCE PoolPromise WITH
    Slots <- N, offered <- ToSet(dispatched), status <- ran

\* Forgetting queues, locks and processes, each step of a run is a step of the
\* promise or changes nothing the promise speaks of.
KeepsPromise == Promise!PromiseSpec

-----------------------------------------------------------------------------
(* What the documents and comments say and the code does not do.  Each is    *)
(* the property of a run in which TLC finds it violated.                    *)

\* Every WorkerResult a worker puts is drained by _collect and counts
\* (architecture.md, "Result queue"): no failed result is left unread by a
\* run that passes.
FailureCounts ==
    verdict = "passed" =>
        \A i \in DOMAIN rpipe : rpipe[i] # Torn => ~rpipe[i].failed

\* Units without a result are treated as failures (architecture.md, "Timeout
\* handling"): the "status" of the merged report is the outcome of the run.
ReportAgrees == cpc = "returned" => report = verdict
=============================================================================
