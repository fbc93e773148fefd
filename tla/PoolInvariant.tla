---------------------------- MODULE PoolInvariant ----------------------------
(***************************************************************************)
(* The inductive invariant behind the safety properties of Pool: what is    *)
(* true of the queues, the workers and the coordinator between any two of   *)
(* their steps.                                                             *)
(***************************************************************************)
EXTENDS Pool

\* A worker past get() holds an entry, and past the sentinel test a unit.
HeldOK ==
    \A p \in Procs :
        /\ pc[p] \in {"got", "checked", "running", "ack", "ackAborted"} => item[p] # 0
        /\ pc[p] \in {"checked", "running", "ack", "ackAborted"} => Held(p) \in Units

\* No two workers hold the same entry of the task queue, and no two entries
\* are the same unit.
ItemsDistinct ==
    \A p, q \in Procs : p # q /\ item[p] # 0 => item[p] # item[q]
LogInjective ==
    \A i, j \in DOMAIN log : log[i] = log[j] /\ log[i] # None => i = j

\* Units nobody has started: those still in the queue, those a worker took and
\* did not start yet, and those that were never put.
FreshAhead ==
    \A i \in DOMAIN log : i > taken /\ log[i] \in Units => ran[log[i]] = "none"
FreshInHand ==
    \A p \in Procs : pc[p] \in {"got", "checked"} /\ Held(p) \in Units => ran[Held(p)] = "none"
StartedInLog ==
    \A u \in Units : Started(u) => \E i \in DOMAIN log : log[i] = u

\* A unit runs exactly while some worker runs it.
RunningHeld ==
    /\ \A p \in Procs : pc[p] = "running" => Running(Held(p))
    /\ \A u \in Units : Running(u) => \E p \in Procs : pc[p] = "running" /\ Held(p) = u

\* Before phase 2 the queue has never held a serial unit, and the serial worker
\* does not exist ...
BeforeSerial == cpc = "serial" \/ (cpc \in {"join", "terminate", "drain"} /\ k # SerialProc)
NoSerialYet ==
    /\ cpc = "dispatch" => log = <<>> /\ \A p \in Procs : pc[p] = "off"
    /\ BeforeSerial => pc[SerialProc] = "off" /\ \A i \in DOMAIN log : log[i] \notin SerialUnits

\* ... and a worker that was joined is gone, unless everybody was told to stop.
Joined(q) == cpc \in {"drain", "serial"} \/ (cpc = "join" /\ q < k)
JoinedGone ==
    /\ cpc = "terminate" => stop
    /\ BeforeSerial /\ ~stop => \A q \in ParallelProcs : Joined(q) => ~Alive(q)

\* So when a serial unit is in the queue, no worker of phase 1 is left.
SerialAlone ==
    (\E i \in DOMAIN log : log[i] \in SerialUnits) => \A q \in ParallelProcs : ~Alive(q)

\* A result tells what happened to its unit, wherever it is on its way.
TrueResult(r) ==
    r.unit \in Units => ran[r.unit] = IF r.failed THEN "failed" ELSE "passed"
AllTrue ==
    /\ \A p \in Procs : \A i \in DOMAIN obuf[p] : TrueResult(obuf[p][i])
    /\ \A i \in DOMAIN rpipe : rpipe[i] # Torn => TrueResult(rpipe[i])
    /\ \A i \in DOMAIN results : TrueResult(results[i])

\* The verdict comes last.
VerdictLast == verdict # "none" => cpc \in {"returned", "exiting", "exited", "crashed"}

IInv ==
    /\ TypeOK
    /\ HeldOK /\ ItemsDistinct /\ LogInjective
    /\ FreshAhead /\ FreshInHand /\ StartedInLog /\ RunningHeld
    /\ NoSerialYet /\ JoinedGone /\ SerialAlone
    /\ AllTrue /\ VerdictLast /\ VerdictSound
-----------------------------------------------------------------------------
(* What follows is inductive together with IInv.                            *)

\* Only a worker past get() holds an entry, and one that has left the loop
\* may hold it for ever.
InHandLate ==
    \A p \in Procs : item[p] # 0 =>
        pc[p] \in {"got", "checked", "running", "ack", "ackAborted",
                  "teardown", "exiting", "dead"}

QueueInv == InHandLate /\ TaskAccounting /\ SentinelForEach

\* A unit has at most one result, wherever it is: in a worker's buffer, in the
\* pipe or with the coordinator.
SameUnit(r, s) == r.unit = s.unit /\ r.unit \in Units
InPipe == {i \in DOMAIN rpipe : rpipe[i] # Torn}
OneInBuffers ==
    \A p, q \in Procs : \A i \in DOMAIN obuf[p], j \in DOMAIN obuf[q] :
        SameUnit(obuf[p][i], obuf[q][j]) => p = q /\ i = j
OneInPipe ==
    /\ \A i, j \in InPipe : SameUnit(rpipe[i], rpipe[j]) => i = j
    /\ \A i \in InPipe, p \in Procs : \A j \in DOMAIN obuf[p] : ~SameUnit(rpipe[i], obuf[p][j])
OneInResults ==
    /\ \A i, j \in DOMAIN results : SameUnit(results[i], results[j]) => i = j
    /\ \A i \in DOMAIN results, j \in InPipe : ~SameUnit(results[i], rpipe[j])
    /\ \A i \in DOMAIN results, p \in Procs : \A j \in DOMAIN obuf[p] : ~SameUnit(results[i], obuf[p][j])

ResultInv == OneInBuffers /\ OneInPipe /\ OneInResults

\* Phase 2 has begun when the serial batch is in the queue: behind every
\* parallel unit, and in its order.
SerialQueued == \E i \in DOMAIN log : log[i] \in SerialUnits
LogOrdered ==
    /\ \A i, j \in DOMAIN log : log[i] \in SerialUnits /\ log[j] \in ParallelUnits => j < i
    /\ \A i, j \in DOMAIN SerialBatch, y \in DOMAIN log :
          i < j /\ log[y] = SerialBatch[j] => \E x \in DOMAIN log : x < y /\ log[x] = SerialBatch[i]

\* The serial worker exists from then on, or nothing more is started.
SerialWorker ==
    /\ SerialQueued => stop \/ pc[SerialProc] # "off"
    /\ pc[SerialProc] # "off" => SerialQueued
    /\ SerialQueued /\ cpc = "drain" => stop \/ pc[SerialProc] = "dead"

\* What it holds is the newest entry taken; each serial unit taken before has
\* come to a result, as long as the worker is in its loop.
InLoop(p) == pc[p] \notin {"teardown", "exiting", "dead"}
HoldsNewest ==
    SerialQueued /\ ~stop /\ pc[SerialProc] \in {"got", "checked", "running", "ack", "ackAborted"} =>
        item[SerialProc] = taken
SerialBehind ==
    ~stop /\ InLoop(SerialProc) =>
        \A i \in 1..taken : log[i] \in SerialUnits =>
            \/ Finished(log[i])
            \/ item[SerialProc] = i /\ pc[SerialProc] \in {"got", "checked", "running"}


\* The unit it is about to start it will start, even if everybody is told to
\* stop now and the queue is drained: what is before that unit has come to a
\* result, and what is behind it has not started.
StartsInOrder ==
    pc[SerialProc] = "checked" => \A i \in DOMAIN log :
        /\ i < item[SerialProc] /\ log[i] \in SerialUnits => Finished(log[i])
        /\ i > item[SerialProc] /\ log[i] \in Units => ran[log[i]] = "none"

\* What is offered in the promise is what is in the queue, in two lots.
Offered ==
    /\ \A i \in DOMAIN log : log[i] \in Units => log[i] \in ToSet(dispatched)
    /\ cpc = "dispatch" => dispatched = <<>>
    /\ BeforeSerial => ToSet(dispatched) = ParallelUnits

PhaseInv ==
    LogOrdered /\ SerialWorker /\ HoldsNewest /\ SerialBehind /\ StartsInOrder /\ SerialOrder
        /\ Offered

PoolInv == IInv /\ QueueInv /\ ResultInv /\ PhaseInv
=============================================================================
