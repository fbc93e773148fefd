-------------------------------- MODULE Worker --------------------------------
(***************************************************************************)
(* One worker process: _worker_run_loop of behave_pool/worker.py, and the   *)
(* feeder thread that moves its results to the result pipe.                 *)
(***************************************************************************)
EXTENDS PoolState

Goto(p, label) == pc' = [pc EXCEPT ![p] = label]
PutResult(p, u, f) == obuf' = [obuf EXCEPT ![p] = Append(@, [unit |-> u, failed |-> f])]
Release(p) == rlock' = IF rlock = p THEN Nobody ELSE rlock

-----------------------------------------------------------------------------
(* Setup.                                                                   *)

SetupOk(p) ==
    /\ pc[p] = "setup"
    /\ Goto(p, "loop")
    /\ UNCHANGED <<coordVars, taskVars, resultVars, item, sig, kills, ran>>

SetupFails(p) ==
    /\ "setup" \in Faults
    /\ pc[p] = "setup"
    /\ stop' = TRUE
    /\ PutResult(p, SetupId, TRUE)
    /\ Goto(p, "teardown")
    /\ UNCHANGED <<coordVars, log, flushed, taken, unfinished, rlock, wlock, rpipe,
                   item, sig, kills, ran>>

-----------------------------------------------------------------------------
(* The loop.                                                                *)

CheckStop(p) ==
    /\ pc[p] = "loop"
    /\ Goto(p, IF stop THEN "teardown" ELSE "get")
    /\ UNCHANGED <<coordVars, taskVars, resultVars, item, sig, kills, ran>>

\* get(timeout=5) first acquires the readers' lock ...
AcquireReader(p) ==
    /\ pc[p] = "get" /\ rlock = Nobody
    /\ rlock' = p
    /\ Goto(p, "poll")
    /\ UNCHANGED <<coordVars, log, flushed, taken, unfinished, stop, resultVars,
                   item, sig, kills, ran>>

\* ... or times out on it: queue.Empty, back to the stop check.
ReaderBusy(p) ==
    /\ pc[p] = "get" /\ rlock # Nobody
    /\ Goto(p, "loop")
    /\ UNCHANGED <<coordVars, taskVars, resultVars, item, sig, kills, ran>>

\* Mutant: the entry is read without being removed.
Peek(p) ==
    /\ pc[p] = "poll" /\ taken < flushed
    /\ item' = [item EXCEPT ![p] = taken + 1]
    /\ Release(p)
    /\ Goto(p, "got")
    /\ UNCHANGED <<coordVars, log, flushed, taken, unfinished, stop, resultVars, sig, kills, ran>>

\* With the lock held it waits for an entry and reads it ...
Take(p) ==
    /\ pc[p] = "poll" /\ taken < flushed
    /\ taken' = taken + 1
    /\ item' = [item EXCEPT ![p] = taken + 1]
    /\ Release(p)
    /\ Goto(p, "got")
    /\ UNCHANGED <<coordVars, log, flushed, unfinished, stop, resultVars, sig, kills, ran>>

\* ... or times out on an empty pipe: queue.Empty again.
NothingToTake(p) ==
    /\ pc[p] = "poll" /\ taken = flushed
    /\ Release(p)
    /\ Goto(p, "loop")
    /\ UNCHANGED <<coordVars, log, flushed, taken, unfinished, stop, resultVars,
                   item, sig, kills, ran>>

\* What every task_done() in the loop does to the entry in hand.
Done(p) ==
    /\ TaskDone
    /\ item' = [item EXCEPT ![p] = 0]

TakeSentinel(p) ==
    /\ pc[p] = "got" /\ Held(p) = None
    /\ Done(p)
    /\ Goto(p, "teardown")
    /\ UNCHANGED <<coordVars, log, flushed, taken, rlock, stop, resultVars, sig, kills, ran>>

\* Mutant: `continue` without task_done().
SkipWithoutDone(p) ==
    /\ pc[p] = "got" /\ Held(p) # None /\ stop
    /\ item' = [item EXCEPT ![p] = 0]
    /\ Goto(p, "loop")
    /\ UNCHANGED <<coordVars, taskVars, resultVars, sig, kills, ran>>

\* The second look at the stop event: the unit in hand is dropped ...
SkipUnit(p) ==
    /\ pc[p] = "got" /\ Held(p) # None /\ stop
    /\ Done(p)
    /\ Goto(p, "loop")
    /\ UNCHANGED <<coordVars, log, flushed, taken, rlock, stop, resultVars, sig, kills, ran>>

\* ... or the worker is past it, whatever becomes of the event then ...
CheckAgain(p) ==
    /\ pc[p] = "got" /\ Held(p) # None /\ ~stop
    /\ Goto(p, "checked")
    /\ UNCHANGED <<coordVars, taskVars, resultVars, item, sig, kills, ran>>

\* ... and calls run_work_unit().
StartUnit(p) ==
    /\ pc[p] = "checked"
    /\ ran' = [ran EXCEPT ![Held(p)] = "running"]
    /\ Goto(p, "running")
    /\ UNCHANGED <<coordVars, taskVars, resultVars, item, sig, kills>>

\* Mutant: _run_features forgets `or self.aborted`.
FinishAbortedOk(p) ==
    /\ pc[p] = "running"
    /\ \E failed \in BOOLEAN, aborted \in BOOLEAN :
        /\ aborted => failed /\ "abort" \in Faults
        /\ ran' = [ran EXCEPT ![Held(p)] = IF failed THEN "failed" ELSE "passed"]
        /\ PutResult(p, Held(p), failed /\ ~aborted)
        /\ Goto(p, IF aborted THEN "ackAborted" ELSE "ack")
    /\ UNCHANGED <<coordVars, taskVars, wlock, rpipe, item, sig, kills>>

\* run_work_unit() returns and its result is put on the result queue.  A unit
\* that aborted (KeyboardInterrupt in a step, context.abort()) has failed.
FinishUnit(p) ==
    /\ pc[p] = "running"
    /\ \E failed \in BOOLEAN, aborted \in BOOLEAN :
        /\ aborted => failed /\ "abort" \in Faults
        /\ ran' = [ran EXCEPT ![Held(p)] = IF failed THEN "failed" ELSE "passed"]
        /\ PutResult(p, Held(p), failed)
        /\ Goto(p, IF aborted THEN "ackAborted" ELSE "ack")
    /\ UNCHANGED <<coordVars, taskVars, wlock, rpipe, item, sig, kills>>

AckUnit(p) ==
    /\ pc[p] = "ack"
    /\ Done(p)
    /\ Goto(p, "loop")
    /\ UNCHANGED <<coordVars, log, flushed, taken, rlock, stop, resultVars, sig, kills, ran>>

\* An aborted unit stops every worker.
AckAborted(p) ==
    /\ pc[p] = "ackAborted"
    /\ Done(p)
    /\ stop' = TRUE
    /\ Goto(p, "teardown")
    /\ UNCHANGED <<coordVars, log, flushed, taken, rlock, resultVars, sig, kills, ran>>

\* Mutant: the worker catches BaseException and goes on with its loop.
EscapeGoesOn(p) ==
    /\ "escape" \in Faults /\ pc[p] = "running"
    /\ ran' = [ran EXCEPT ![Held(p)] = "lost"]
    /\ Goto(p, "loop")
    /\ UNCHANGED <<coordVars, taskVars, resultVars, item, sig, kills>>

\* What `except Exception` lets through: SystemExit from a hook or a step, and
\* the KeyboardInterrupt a Ctrl-C delivers to every process of the group.  The
\* entry in hand is never task_done() and has no result.
Escape(p) ==
    /\ \/ "escape" \in Faults /\ pc[p] \in {"setup", "running"}
       \/ "interrupt" \in Faults /\ pc[p] \in {"setup", "loop", "get", "poll", "got", "checked", "ack", "ackAborted"}
    /\ ran' = IF pc[p] = "running" THEN [ran EXCEPT ![Held(p)] = "lost"] ELSE ran
    /\ Release(p)
    /\ Goto(p, "teardown")
    /\ UNCHANGED <<coordVars, log, flushed, taken, unfinished, stop, resultVars,
                   item, sig, kills>>

-----------------------------------------------------------------------------
(* The end of the process.                                                  *)

\* teardown(): after_all hooks and formatters.
Teardown(p) ==
    /\ pc[p] = "teardown"
    /\ Goto(p, "exiting")
    /\ UNCHANGED <<coordVars, taskVars, resultVars, item, sig, kills, ran>>

\* The interpreter joins the feeder thread before the process ends, so it
\* ends only when every result it put has reached the pipe.
ExitWorker(p) ==
    /\ pc[p] = "exiting" /\ obuf[p] = <<>>
    /\ Goto(p, "dead")
    /\ UNCHANGED <<coordVars, taskVars, resultVars, item, sig, kills, ran>>

-----------------------------------------------------------------------------
(* The feeder thread of the worker's result queue.                          *)

LockPipe(p) ==
    /\ Alive(p) /\ obuf[p] # <<>> /\ wlock = Nobody
    /\ wlock' = p
    /\ UNCHANGED <<coordVars, taskVars, obuf, rpipe, workerVars>>

SendResult(p) ==
    /\ Alive(p) /\ wlock = p /\ obuf[p] # <<>>
    /\ Len(rpipe) < ResultCap
    /\ rpipe' = Append(rpipe, Head(obuf[p]))
    /\ obuf' = [obuf EXCEPT ![p] = Tail(@)]
    /\ wlock' = Nobody
    /\ UNCHANGED <<coordVars, taskVars, workerVars>>

\* A result that cannot be pickled is logged by the thread and dropped.
DropResult(p) ==
    /\ "pickle" \in Faults
    /\ Alive(p) /\ obuf[p] # <<>> /\ wlock # p
    /\ obuf' = [obuf EXCEPT ![p] = Tail(@)]
    /\ UNCHANGED <<coordVars, taskVars, wlock, rpipe, workerVars>>

-----------------------------------------------------------------------------
LoopStep(p) ==
    \/ SetupOk(p) \/ SetupFails(p) \/ CheckStop(p)
    \/ AcquireReader(p) \/ ReaderBusy(p) \/ Take(p) \/ NothingToTake(p)
    \/ TakeSentinel(p) \/ SkipUnit(p) \/ CheckAgain(p) \/ StartUnit(p) \/ FinishUnit(p)
    \/ AckUnit(p) \/ AckAborted(p) \/ Escape(p) \/ Teardown(p) \/ ExitWorker(p)

ResultFeeder(p) == LockPipe(p) \/ SendResult(p) \/ DropResult(p)

WorkerStep(p) == LoopStep(p) \/ ResultFeeder(p)
=============================================================================
