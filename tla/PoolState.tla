------------------------------ MODULE PoolState ------------------------------
(***************************************************************************)
(* The state that the coordinator (behave_pool/runner.py) and the worker    *)
(* processes (behave_pool/worker.py) of one parallel run share:             *)
(*                                                                         *)
(*   - task_queue, a multiprocessing.JoinableQueue: an immutable log of     *)
(*     what the coordinator put, with two cursors.  Entries up to flushed   *)
(*     have been written to the pipe by the feeder thread, entries up to    *)
(*     taken have been read from it.                                        *)
(*   - result_queue, a multiprocessing.Queue: one buffer per worker (drained *)
(*     by that worker's feeder thread) in front of one pipe.                *)
(*   - stop_event, a multiprocessing.Event that nobody ever clears.         *)
(*                                                                         *)
(* Process p \in 0..N-1 is a worker of phase 1; process N is the serial      *)
(* worker of phase 2 (which the code also calls worker 0).                  *)
(***************************************************************************)
EXTENDS Integers, FiniteSets, SequencesExt

CONSTANTS
    N,              \* config.parallel: workers of phase 1
    ParallelBatch,  \* units without @serial, in dispatch order
    SerialBatch,    \* units with @serial, in dispatch order
    None,           \* the sentinel that ends a worker's loop
    SetupId,        \* work_unit_id "setup" of a failed worker setup
    Torn,           \* the length of a result whose writer died before the body
    Nobody,         \* owner of a free lock
    TaskCap,        \* units and sentinels the task pipe holds
    ResultCap,      \* results the result pipe holds
    LargeResults,   \* results exceed 16 KiB: two writes, length then body
    MaxKills,       \* bound on the workers killed from outside
    Faults,         \* what may go wrong in this instance
    Patient         \* a 300s join expires only on a worker that cannot move

ParallelUnits == ToSet(ParallelBatch)
SerialUnits == ToSet(SerialBatch)
Units == ParallelUnits \cup SerialUnits

\* Work units are distinct (their ids are the relative paths of distinct
\* feature files), and no marker is a unit.  Below two workers the code takes
\* the sequential path and there is no pool.
ASSUME PoolAssumption ==
    /\ N \in Nat /\ N >= 2
    /\ ParallelBatch \in Seq(Units)
    /\ SerialBatch \in Seq(Units)
    /\ IsInjective(ParallelBatch)
    /\ IsInjective(SerialBatch)
    /\ ParallelUnits \cap SerialUnits = {}
    /\ None \notin Units
    /\ SetupId \notin Units
    /\ Torn \notin [unit : Units \cup {SetupId}, failed : BOOLEAN]
    /\ Nobody \notin 0..N
    /\ TaskCap \in Nat \ {0}
    /\ ResultCap \in Nat \ {0}
    /\ LargeResults \in BOOLEAN
    /\ MaxKills \in Nat
    /\ Patient \in BOOLEAN

ParallelProcs == 0..(N - 1)
SerialProc == N
Procs == 0..N

Result == [unit : Units \cup {SetupId}, failed : BOOLEAN]

VARIABLES
    \* the coordinator
    cpc,         \* where _run_parallel is
    k,           \* the worker it is joining
    dispatched,  \* units put on the task queue so far
    results,     \* results _collect has read
    verdict,     \* what run() returned: "failed" is True
    report,      \* execution.status of the merged report
    \* task_queue and stop_event
    log, flushed, taken,
    unfinished,  \* the counter task_done() decrements
    rlock,       \* owner of the lock that serialises readers
    stop,
    \* result_queue
    obuf,        \* results in the buffer of each worker
    wlock,       \* owner of the lock that serialises writers
    rpipe,
    \* the workers
    pc,
    item,        \* log index of the entry a worker took and did not task_done()
    sig,         \* workers sent SIGTERM
    kills,
    ran          \* history: what happened to each unit

coordVars == <<cpc, k, dispatched, results, verdict, report>>
taskVars == <<log, flushed, taken, unfinished, rlock, stop>>
resultVars == <<obuf, wlock, rpipe>>
workerVars == <<pc, item, sig, kills, ran>>
vars == <<coordVars, taskVars, resultVars, workerVars>>

CoordStates == {"dispatch", "join", "terminate", "drain", "serial", "collect",
                "returned", "raised", "exiting", "exited", "crashed"}
WorkerStates == {"off", "setup", "loop", "get", "poll", "got", "checked", "running",
                 "ack", "ackAborted", "teardown", "exiting", "dead"}
Outcomes == {"none", "running", "passed", "failed", "lost"}

Init ==
    /\ cpc = "dispatch" /\ k = 0 /\ dispatched = <<>> /\ results = <<>>
    /\ verdict = "none" /\ report = "none"
    /\ log = <<>> /\ flushed = 0 /\ taken = 0 /\ unfinished = 0
    /\ rlock = Nobody /\ stop = FALSE
    /\ obuf = [p \in Procs |-> <<>>] /\ wlock = Nobody /\ rpipe = <<>>
    /\ pc = [p \in Procs |-> "off"] /\ item = [p \in Procs |-> 0]
    /\ sig = {} /\ kills = 0 /\ ran = [u \in Units |-> "none"]

TypeOK ==
    /\ cpc \in CoordStates /\ k \in Procs
    /\ dispatched \in Seq(Units) /\ results \in Seq(Result)
    /\ verdict \in {"none", "passed", "failed"}
    /\ report \in {"none", "passed", "failed"}
    /\ log \in Seq(Units \cup {None})
    /\ flushed \in 0..Len(log) /\ taken \in 0..flushed
    /\ unfinished \in Int
    /\ rlock \in Procs \cup {Nobody} /\ stop \in BOOLEAN
    /\ obuf \in [Procs -> Seq(Result)]
    /\ wlock \in Procs \cup {Nobody}
    /\ rpipe \in Seq(Result \cup {Torn})
    /\ pc \in [Procs -> WorkerStates] /\ item \in [Procs -> 0..taken]
    /\ sig \subseteq Procs /\ kills \in 0..MaxKills
    /\ ran \in [Units -> Outcomes]

-----------------------------------------------------------------------------
(* multiprocessing.Process and the queues, as the code uses them.           *)

Alive(p) == pc[p] \notin {"off", "dead"}

\* The entry that worker p holds.
Held(p) == log[item[p]]

\* put() on the JoinableQueue: the entries go to the coordinator's buffer and
\* are counted at once.  n sentinels follow the batch.
PutTasks(batch, n) ==
    /\ log' = log \o batch \o [i \in 1..n |-> None]
    /\ unfinished' = unfinished + Len(batch) + n

TaskDone == unfinished' = unfinished - 1

\* The coordinator's feeder thread writes one entry to the task pipe, which
\* blocks while the pipe is full.
FeedTask ==
    /\ cpc \notin {"crashed", "exited"}
    /\ flushed < Len(log)
    /\ flushed - taken < TaskCap
    /\ flushed' = flushed + 1
    /\ UNCHANGED <<coordVars, log, taken, unfinished, rlock, stop, resultVars, workerVars>>

\* The feeder thread has nothing to do: starting a process takes far longer
\* than writing to a pipe that has room.
FeederIdle == flushed = Len(log) \/ flushed - taken >= TaskCap

\* Worker p dies on the spot.  Its buffered results are gone, the locks it
\* holds stay locked, and a result it was writing may be cut short.
Die(p) ==
    /\ Alive(p)
    /\ pc' = [pc EXCEPT ![p] = "dead"]
    /\ obuf' = [obuf EXCEPT ![p] = <<>>]
    /\ ran' = IF pc[p] = "running" THEN [ran EXCEPT ![Held(p)] = "lost"] ELSE ran
    /\ \/ rpipe' = rpipe
       \/ LargeResults /\ wlock = p /\ Len(rpipe) < ResultCap /\ rpipe' = Append(rpipe, Torn)
    /\ UNCHANGED <<coordVars, taskVars, wlock, item>>

\* SIGTERM from WorkerProcess.terminate(), or from the interpreter's exit.
SignalDeath(p) ==
    /\ p \in sig
    /\ Die(p)
    /\ UNCHANGED <<sig, kills>>

\* SIGKILL from outside: the OOM killer, an operator, a native crash.
Kill(p) ==
    /\ "kill" \in Faults /\ kills < MaxKills
    /\ kills' = kills + 1
    /\ Die(p)
    /\ UNCHANGED sig

\* A worker that no step of its own can bring to its end.  While the
\* coordinator joins, nobody reads the result pipe.
Blocked(p) ==
    \/ /\ pc[p] = "exiting" /\ obuf[p] # <<>>
       /\ \/ Len(rpipe) >= ResultCap
          \/ wlock # Nobody /\ ~Alive(wlock)
    \/ /\ pc[p] \in {"loop", "get", "poll"} /\ ~stop
       /\ \/ rlock # Nobody /\ ~Alive(rlock)
          \/ taken = Len(log)
=============================================================================
