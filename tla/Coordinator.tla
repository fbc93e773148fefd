----------------------------- MODULE Coordinator -----------------------------
(***************************************************************************)
(* The coordinating process: ParallelRunner._dispatch and ._collect of      *)
(* behave_pool/runner.py, the finally block of _run_parallel, and the exit  *)
(* of the interpreter, which kills the daemonic workers that are left.      *)
(***************************************************************************)
EXTENDS PoolState

\* Put a batch with n sentinels on the task queue and start the processes ps.
\* Starting a worker only creates its process, so it is one step for all.
Launch(batch, n, ps) ==
    /\ PutTasks(batch, n)
    /\ dispatched' = dispatched \o batch
    /\ pc' = [p \in Procs |-> IF p \in ps THEN "setup" ELSE pc[p]]

-----------------------------------------------------------------------------
(* _dispatch: phase 1.                                                      *)

\* Mutant: one sentinel too few.
DispatchSentinelShort ==
    /\ cpc = "dispatch" /\ ParallelBatch # <<>>
    /\ Launch(ParallelBatch, N - 1, ParallelProcs)
    /\ cpc' = "join" /\ k' = 0
    /\ UNCHANGED <<results, verdict, report, flushed, taken, rlock, stop,
                   resultVars, item, sig, kills, ran>>

DispatchParallel ==
    /\ cpc = "dispatch" /\ ParallelBatch # <<>>
    /\ Launch(ParallelBatch, N, ParallelProcs)
    /\ cpc' = "join" /\ k' = 0
    /\ UNCHANGED <<results, verdict, report, flushed, taken, rlock, stop,
                   resultVars, item, sig, kills, ran>>

NothingParallel ==
    /\ cpc = "dispatch" /\ ParallelBatch = <<>>
    /\ cpc' = "serial"
    /\ UNCHANGED <<k, dispatched, results, verdict, report, taskVars,
                   resultVars, workerVars>>

-----------------------------------------------------------------------------
(* _dispatch: joining the workers of a phase one after the other.           *)

\* Mutant: only the first worker is joined.
AfterFirstJoin == k' = k /\ cpc' = "drain"

\* The next worker to join; after the last one of the phase, the drain.
AfterJoin ==
    IF k + 1 < N THEN k' = k + 1 /\ cpc' = "join"
                 ELSE k' = k /\ cpc' = "drain"

\* join(timeout=300) returns because the worker has ended.
JoinDone ==
    /\ cpc = "join" /\ ~Alive(k) /\ FeederIdle
    /\ AfterJoin
    /\ UNCHANGED <<dispatched, results, verdict, report, taskVars, resultVars,
                   workerVars>>

\* Mutant: join() without a timeout.
NeverExpires(p) == FALSE

\* Whether the join may expire.  A patient instance is one whose suite and
\* hooks are fast enough; there only a blocked worker exceeds the timeout.
MayExpire(p) == Patient => Blocked(p)

\* Mutant: terminate() without stop_event.set().
TimeoutWithoutStop ==
    /\ cpc = "join" /\ Alive(k) /\ MayExpire(k)
    /\ cpc' = "terminate"
    /\ UNCHANGED <<k, dispatched, results, verdict, report, taskVars, resultVars,
                   workerVars>>

\* It returns with the worker still alive: stop everybody ...
JoinTimeout ==
    /\ cpc = "join" /\ Alive(k) /\ MayExpire(k)
    /\ stop' = TRUE
    /\ cpc' = "terminate"
    /\ UNCHANGED <<k, dispatched, results, verdict, report, log, flushed, taken,
                   unfinished, rlock, resultVars, workerVars>>

\* ... and terminate() this one, without waiting for it to die.
Terminate ==
    /\ cpc = "terminate"
    /\ sig' = IF Alive(k) THEN sig \cup {k} ELSE sig
    /\ AfterJoin
    /\ UNCHANGED <<dispatched, results, verdict, report, taskVars, resultVars,
                   pc, item, kills, ran>>

-----------------------------------------------------------------------------
(* _dispatch: draining the task queue after a phase.                        *)

\* get_nowait() finds an entry and the readers' lock is free.
DrainOne ==
    /\ cpc = "drain" /\ taken < flushed /\ rlock = Nobody
    /\ taken' = taken + 1
    /\ TaskDone
    /\ UNCHANGED <<coordVars, log, flushed, rlock, stop, resultVars, workerVars>>

\* empty() is true, or get_nowait() raises queue.Empty on the readers' lock.
DrainEnd ==
    /\ cpc = "drain" /\ (taken = flushed \/ rlock # Nobody)
    /\ cpc' = IF k = SerialProc THEN "collect" ELSE "serial"
    /\ UNCHANGED <<k, dispatched, results, verdict, report, taskVars, resultVars,
                   workerVars>>

-----------------------------------------------------------------------------
(* _dispatch: phase 2.                                                      *)

MaySerial == SerialBatch # <<>> /\ ~stop

DispatchSerial ==
    /\ cpc = "serial" /\ MaySerial
    /\ Launch(SerialBatch, 1, {SerialProc})
    /\ cpc' = "join" /\ k' = SerialProc
    /\ UNCHANGED <<results, verdict, report, flushed, taken, rlock, stop,
                   resultVars, item, sig, kills, ran>>

SkipSerial ==
    /\ cpc = "serial" /\ ~MaySerial
    /\ cpc' = "collect"
    /\ UNCHANGED <<k, dispatched, results, verdict, report, taskVars, resultVars,
                   workerVars>>

-----------------------------------------------------------------------------
(* _collect.                                                                *)

Missing == {u \in ToSet(dispatched) : \A i \in DOMAIN results : results[i].unit # u}
AnyFailed == \E i \in DOMAIN results : results[i].failed

\* Mutants: missing results forgiven; failed results forgiven.
VerdictOfResults == IF AnyFailed THEN "failed" ELSE "passed"
VerdictOfMissing == IF Missing # {} THEN "failed" ELSE "passed"

Verdict == IF AnyFailed \/ Missing # {} THEN "failed" ELSE "passed"

\* execution.status of the merged report, computed by _build_execution.
ReportStatus == IF AnyFailed THEN "failed" ELSE "passed"

\* Mutant: off by one.
WantsAllButOne == Len(results) + 1 < Len(dispatched)

\* One result is expected of each dispatched unit.
WantsMore == Len(results) < Len(dispatched)

\* A cut-short result makes recv_bytes() wait for the rest of it for ever.
CollectGet ==
    /\ cpc = "collect" /\ WantsMore
    /\ rpipe # <<>> /\ Head(rpipe) # Torn
    /\ results' = Append(results, Head(rpipe))
    /\ rpipe' = Tail(rpipe)
    /\ UNCHANGED <<cpc, k, dispatched, verdict, report, taskVars, obuf, wlock,
                   workerVars>>

\* The loop ends with the last expected result, or 30 seconds after it began
\* with nothing left to read.  The timing file (see TimingStore), the
\* report and the verdict follow, then the finally block of _run_parallel.
CollectReturn ==
    /\ cpc = "collect" /\ (~WantsMore \/ rpipe = <<>>)
    /\ verdict' = Verdict
    /\ report' = ReportStatus
    /\ stop' = TRUE
    /\ cpc' = "returned"
    /\ UNCHANGED <<k, dispatched, results, log, flushed, taken, unfinished, rlock,
                   resultVars, workerVars>>

-----------------------------------------------------------------------------
(* Exceptions and the end of the process.                                   *)

\* A worker cannot be started: the first m of a phase are running, and the
\* exception leaves _run_parallel through its finally block.
SpawnFails ==
    /\ "spawn" \in Faults
    /\ \/ /\ cpc = "dispatch" /\ ParallelBatch # <<>>
          /\ \E m \in ParallelProcs : Launch(ParallelBatch, N, 0..(m - 1))
       \/ /\ cpc = "serial" /\ MaySerial
          /\ Launch(SerialBatch, 1, {})
    /\ stop' = TRUE
    /\ cpc' = "raised"
    /\ UNCHANGED <<k, results, verdict, report, flushed, taken, rlock, resultVars,
                   item, sig, kills, ran>>

\* Ctrl-C reaches the coordinator while it waits or collects.
Interrupt ==
    /\ "interrupt" \in Faults
    /\ cpc \in {"join", "terminate", "drain", "serial", "collect"}
    /\ stop' = TRUE
    /\ cpc' = "raised"
    /\ UNCHANGED <<k, dispatched, results, verdict, report, log, flushed, taken,
                   unfinished, rlock, resultVars, workerVars>>

\* Mutant: workers that are not daemons.
KeepWorkers ==
    /\ cpc \in {"returned", "raised"}
    /\ cpc' = "exiting"
    /\ UNCHANGED <<k, dispatched, results, verdict, report, taskVars, resultVars,
                   workerVars>>

\* The interpreter exits: it terminates the children that are left, because
\* start() makes them daemons ...
KillDaemons ==
    /\ cpc \in {"returned", "raised"}
    /\ sig' = sig \cup {p \in Procs : Alive(p)}
    /\ cpc' = "exiting"
    /\ UNCHANGED <<k, dispatched, results, verdict, report, taskVars, resultVars,
                   pc, item, kills, ran>>

\* ... joins them, and joins the feeder thread of the task queue.
ExitProcess ==
    /\ cpc = "exiting"
    /\ \A p \in Procs : ~Alive(p)
    /\ flushed = Len(log)
    /\ cpc' = "exited"
    /\ UNCHANGED <<k, dispatched, results, verdict, report, taskVars, resultVars,
                   workerVars>>

\* SIGKILL: no finally block, no exit handlers, no feeder thread.
Crash ==
    /\ "crash" \in Faults
    /\ cpc \notin {"exited", "crashed"}
    /\ cpc' = "crashed"
    /\ UNCHANGED <<k, dispatched, results, verdict, report, taskVars, resultVars,
                   workerVars>>

-----------------------------------------------------------------------------
\* What the coordinator does of its own accord.
CoordStep ==
    \/ DispatchParallel \/ NothingParallel
    \/ JoinDone \/ JoinTimeout \/ Terminate \/ DrainOne \/ DrainEnd
    \/ DispatchSerial \/ SkipSerial \/ CollectGet \/ CollectReturn
    \/ KillDaemons \/ ExitProcess
=============================================================================
