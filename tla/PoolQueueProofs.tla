--------------------------- MODULE PoolQueueProofs ---------------------------
(***************************************************************************)
(* What passes through the two queues of a run: every entry of the task     *)
(* queue is accounted for, there is a sentinel for each worker that will     *)
(* read one, and no unit has two results.                                   *)
(***************************************************************************)
EXTENDS PoolProofs, FiniteSetTheorems

-----------------------------------------------------------------------------
(* Counting.                                                                *)

\* Sets of workers are finite.
LEMMA FiniteProcs ==
    ASSUME NEW S, S \subseteq Procs
    PROVE  IsFiniteSet(S) /\ Cardinality(S) \in Nat
  <1>1. IsFiniteSet(Procs)
    BY PoolAssumption, FS_Interval DEF Procs
  <1> QED
    BY <1>1, FS_Subset, FS_CardinalityType

\* The positions of the sentinels in the queue are a finite set.
LEMMA FiniteSentinels ==
    ASSUME TypeOK, NEW S, S \subseteq (taken + 1)..Len(log)
    PROVE  IsFiniteSet(S) /\ Cardinality(S) \in Nat
  <1>1. IsFiniteSet((taken + 1)..Len(log))
    BY FS_Interval DEF TypeOK
  <1> QED
    BY <1>1, FS_Subset, FS_CardinalityType

\* The length and the elements of a concatenation.
LEMMA Concatenation ==
    ASSUME NEW S, NEW a \in Seq(S), NEW b \in Seq(S)
    PROVE  /\ Len(a) \in Nat /\ Len(b) \in Nat /\ Len(a \o b) = Len(a) + Len(b)
           /\ \A i \in 1..Len(a) : (a \o b)[i] = a[i]
           /\ \A i \in 1..Len(a \o b) : i > Len(a) =>
                 i - Len(a) \in 1..Len(b) /\ (a \o b)[i] = b[i - Len(a)]
  OBVIOUS

\* A put makes the log longer by the batch and the sentinels behind it.
LEMMA PutTasksLog ==
    ASSUME TypeOK, NEW batch \in Seq(Units), NEW n \in Nat, PutTasks(batch, n)
    PROVE  /\ Len(log') = Len(log) + Len(batch) + n
           /\ \A i \in (Len(log) + Len(batch) + 1)..Len(log') : log'[i] = None
           /\ \A i \in 1..Len(log') : i > Len(log) /\ log'[i] = None => i > Len(log) + Len(batch)
  <1> DEFINE s == [i \in 1..n |-> None]
  <1>1. s \in Seq(Units \cup {None}) /\ Len(s) = n /\ \A i \in 1..n : s[i] = None
    OBVIOUS
  <1>2. log \in Seq(Units \cup {None}) /\ batch \in Seq(Units \cup {None})
    BY DEF TypeOK
  <1>3. log' = log \o batch \o s
    BY DEF PutTasks
  <1>4. \A i \in DOMAIN batch : batch[i] \in Units
    OBVIOUS
  <1> HIDE DEF s
  <1> DEFINE t == log \o batch
  <1>5. t \in Seq(Units \cup {None}) /\ Len(t) = Len(log) + Len(batch)
        /\ Len(log) \in Nat /\ Len(batch) \in Nat
        /\ \A i \in 1..Len(t) : i > Len(log) => t[i] = batch[i - Len(log)] /\ i - Len(log) \in DOMAIN batch
    BY <1>2, Concatenation
  <1>6. log' = t \o s
    BY <1>3
  <1> HIDE DEF t
  <1>7. /\ Len(log') = Len(t) + n
        /\ \A i \in 1..Len(t) : log'[i] = t[i]
        /\ \A i \in 1..Len(log') : i > Len(t) => log'[i] = s[i - Len(t)] /\ i - Len(t) \in 1..n
    BY <1>1, <1>5, <1>6, Concatenation, ZenonT(30)
  <1>8. \A i \in 1..Len(log') : i > Len(t) => log'[i] = None
    BY <1>1, <1>5, <1>7
  <1>9. \A i \in 1..Len(log') : i > Len(log) /\ i <= Len(t) => log'[i] # None
    BY <1>4, <1>5, <1>7, PoolAssumption
  <1> QED
    BY <1>5, <1>7, <1>8, <1>9

-----------------------------------------------------------------------------
(* The entries in hand.                                                     *)

\* InHandLate is preserved: an entry is taken at "got" and given up by every
\* step that goes back to the loop.
LEMMA InHandStep ==
    ASSUME IInv, InHandLate, [Next]_vars PROVE InHandLate'
  <1> USE DEF IInv, TypeOK, InHandLate, WorkerStates
  <1>1. ASSUME NEW p \in Procs,
               Take(p) \/ CheckAgain(p) \/ StartUnit(p) \/ FinishUnit(p) \/ Escape(p)
        PROVE  InHandLate'
    BY <1>1 DEF Take, CheckAgain, StartUnit, FinishUnit, Escape, Goto
  <1>2. ASSUME NEW p \in Procs, TakeSentinel(p) \/ SkipUnit(p) \/ AckUnit(p) \/ AckAborted(p)
        PROVE  InHandLate'
    BY <1>2 DEF TakeSentinel, SkipUnit, AckUnit, AckAborted, Goto, Done
  <1>3. ASSUME NEW p \in Procs,
               \/ SetupOk(p) \/ SetupFails(p) \/ CheckStop(p) \/ AcquireReader(p)
               \/ ReaderBusy(p) \/ NothingToTake(p) \/ Teardown(p) \/ ExitWorker(p)
        PROVE  InHandLate'
    BY <1>3 DEF SetupOk, SetupFails, CheckStop, AcquireReader, ReaderBusy, NothingToTake,
                Teardown, ExitWorker, Goto
  <1>4. ASSUME NEW p \in Procs, ResultFeeder(p) \/ SignalDeath(p) \/ Kill(p)
        PROVE  InHandLate'
    BY <1>4 DEF ResultFeeder, LockPipe, SendResult, DropResult, SignalDeath, Kill, Die, workerVars
  <1>5. CASE MainStep
    <2>1. item' = item /\ \A p \in Procs : pc'[p] = pc[p] \/ pc[p] = "off"
      BY <1>5, MainEffect DEF Quiet, Puts
    <2> QED
      BY <2>1
  <1> QED
    BY <1>1, <1>2, <1>3, <1>4, <1>5, StepCases DEF ProcessStep, WorkerStep, LoopStep

\* The counter falls by one with each task_done(), as the holders do; it does
\* not change when an entry goes from the queue into a hand.
LEMMA AccountingStep ==
    ASSUME IInv, InHandLate, TaskAccounting, [Next]_vars PROVE TaskAccounting'
  <1> USE DEF IInv, TypeOK, TaskAccounting
  <1>0. Len(log) \in Nat /\ taken \in Nat /\ Holders \subseteq Procs /\ Cardinality(Holders) \in Nat
        /\ IsFiniteSet(Holders)
    BY FiniteProcs DEF Holders
  <1>1. ASSUME NEW p \in Procs, Done(p), pc[p] \in {"got", "ack", "ackAborted"},
               log' = log, taken' = taken
        PROVE  TaskAccounting'
    <2>1. p \in Holders
      BY <1>1 DEF HeldOK, Holders
    <2>2. Holders' = Holders \ {p}
      BY <1>1 DEF Done, Holders
    <2>3. Cardinality(Holders') = Cardinality(Holders) - 1
      BY <1>0, <2>1, <2>2, FS_RemoveElement
    <2> QED
      BY <1>0, <1>1, <2>3 DEF Done, TaskDone
  <1>2. ASSUME NEW p \in Procs, Take(p) PROVE TaskAccounting'
    <2>1. p \notin Holders
      BY <1>2 DEF Take, InHandLate, Holders
    <2>2. Holders' = Holders \cup {p}
      BY <1>0, <1>2, SMTT(20) DEF Take, Holders
    <2>3. Cardinality(Holders') = Cardinality(Holders) + 1
      BY <1>0, <2>1, <2>2, FS_AddElement
    <2> QED
      BY <1>0, <1>2, <2>3 DEF Take
  <1>3. ASSUME item' = item, taken' = taken, log' = log, unfinished' = unfinished
        PROVE  TaskAccounting'
    BY <1>3 DEF Holders
  <1>4. ASSUME NEW p \in Procs, TakeSentinel(p) \/ SkipUnit(p) \/ AckUnit(p) \/ AckAborted(p)
        PROVE  TaskAccounting'
    BY <1>1, <1>4 DEF TakeSentinel, SkipUnit, AckUnit, AckAborted
  <1>5. ASSUME NEW p \in Procs, LoopStep(p), ~Take(p), ~TakeSentinel(p), ~SkipUnit(p),
               ~AckUnit(p), ~AckAborted(p)
        PROVE  TaskAccounting'
    BY <1>3, <1>5 DEF LoopStep, SetupOk, SetupFails, CheckStop, AcquireReader, ReaderBusy,
       NothingToTake, CheckAgain, StartUnit, FinishUnit, Escape, Teardown, ExitWorker, taskVars
  <1>6. ASSUME NEW p \in Procs, ResultFeeder(p) \/ SignalDeath(p) \/ Kill(p)
        PROVE  TaskAccounting'
    BY <1>3, <1>6 DEF ResultFeeder, LockPipe, SendResult, DropResult, SignalDeath, Kill, Die,
       taskVars, workerVars
  <1>7. ASSUME NEW batch \in Seq(Units), NEW n \in Nat, PutTasks(batch, n), item' = item, taken' = taken
        PROVE  TaskAccounting'
    <2>1. Len(log') = Len(log) + Len(batch) + n /\ Len(batch) \in Nat
      BY <1>7, PutTasksLog, SMTT(20)
    <2>2. Holders' = Holders /\ unfinished' = unfinished + Len(batch) + n
      BY <1>7 DEF Holders, PutTasks
    <2>3. Cardinality(Holders') = Cardinality(Holders) /\ unfinished = Len(log) - taken + Cardinality(Holders)
      BY <2>2
    <2> HIDE DEF IInv, TypeOK, TaskAccounting
    <2> QED
      BY <1>0, <1>7, <2>1, <2>2, <2>3 DEF TaskAccounting
  <1>8. CASE DispatchParallel \/ DispatchSerial \/ SpawnFails
    BY <1>7, <1>8, BatchFacts, PoolAssumption DEF DispatchParallel, DispatchSerial, SpawnFails, Launch
  <1>9. CASE DrainOne
    <2>1. Holders' = Holders
      BY <1>9 DEF DrainOne, Holders, workerVars
    <2> QED
      BY <1>0, <1>9, <2>1 DEF DrainOne, TaskDone
  <1>10. ASSUME MainStep, ~DispatchParallel, ~DispatchSerial, ~SpawnFails, ~DrainOne
         PROVE  TaskAccounting'
    BY <1>3, <1>10 DEF MainStep, CoordStep, NothingParallel, JoinDone, JoinTimeout, Terminate,
       DrainEnd, SkipSerial, CollectGet, CollectReturn, KillDaemons, ExitProcess, Interrupt,
       Crash, FeedTask, taskVars, workerVars, vars
  <1> QED
    BY <1>2, <1>4, <1>5, <1>6, <1>8, <1>9, <1>10, StepCases DEF ProcessStep, WorkerStep
-----------------------------------------------------------------------------
(* The sentinels.                                                           *)

\* A worker that will read the queue was one before, unless it was just
\* started; it is no longer one when it takes a sentinel.
LEMMA ReadersFall ==
    ASSUME IInv, NEW p \in Procs, ProcessStep(p)
    PROVE  /\ Readers' \subseteq Readers
           /\ Take(p) => p \in Readers /\ taken < Len(log)
           /\ Take(p) /\ log[taken + 1] = None => p \notin Readers'
           /\ ~Take(p) => taken' = taken
  <1> USE DEF IInv, TypeOK
  <1>1. log' = log /\ \A q \in Procs \ {p} : pc'[q] = pc[q] /\ item'[q] = item[q]
    BY ProcessEffect DEF OthersKeep
  <1>2. \A q \in Procs \ {p} : Consuming(q)' <=> Consuming(q)
    BY <1>1 DEF Consuming, Held
  <1>3. CASE Take(p)
    BY <1>1, <1>2, <1>3, SMTT(20) DEF Take, Goto, Readers, Consuming, Held
  <1>4. CASE CheckAgain(p) \/ StartUnit(p) \/ FinishUnit(p) \/ Escape(p)
    BY <1>1, <1>2, <1>4
    DEF CheckAgain, StartUnit, FinishUnit, Escape, Take, Goto, Readers, Consuming, Held, taskVars
  <1>5. CASE TakeSentinel(p) \/ SkipUnit(p) \/ AckUnit(p) \/ AckAborted(p)
    BY <1>2, <1>5 DEF TakeSentinel, SkipUnit, AckUnit, AckAborted, Take, Goto, Readers, Consuming
  <1>6. CASE \/ SetupOk(p) \/ SetupFails(p) \/ CheckStop(p) \/ AcquireReader(p)
             \/ ReaderBusy(p) \/ NothingToTake(p) \/ Teardown(p) \/ ExitWorker(p)
    BY <1>2, <1>6 DEF SetupOk, SetupFails, CheckStop, AcquireReader, ReaderBusy, NothingToTake,
       Teardown, ExitWorker, Take, Goto, Readers, Consuming, taskVars
  <1>7. CASE ResultFeeder(p) \/ SignalDeath(p) \/ Kill(p)
    <2>1. taken' = taken /\ item' = item /\ pc'[p] \in {pc[p], "dead"}
      BY <1>7 DEF ResultFeeder, LockPipe, SendResult, DropResult, SignalDeath, Kill, Die,
         taskVars, workerVars
    <2> QED
      BY <1>1, <1>2, <2>1 DEF Take, Readers, Consuming, Held
  <1> QED
    BY <1>3, <1>4, <1>5, <1>6, <1>7 DEF ProcessStep, WorkerStep, LoopStep

\* A phase begins with a sentinel for each worker it starts.
LEMMA EnoughSentinels ==
    ASSUME IInv, NEW batch \in Seq(Units), NEW n \in Nat, PutTasks(batch, n), taken' = taken,
           NEW ps, ps \subseteq Procs, Cardinality(ps) <= n, Readers' \subseteq ps
    PROVE  Cardinality(Readers') <= Cardinality(Sentinels')
  <1>0. Len(log) \in Nat /\ taken \in 0..Len(log) /\ Len(batch) \in Nat
    BY DEF IInv, TypeOK
  <1>1. /\ Len(log') = Len(log) + Len(batch) + n
        /\ \A i \in (Len(log) + Len(batch) + 1)..Len(log') : log'[i] = None
    BY PutTasksLog DEF IInv
  <1> DEFINE new == (Len(log) + Len(batch) + 1)..Len(log')
             all == (taken' + 1)..Len(log')
  <1>2. Cardinality(new) = n
    BY <1>0, <1>1, FS_Interval
  <1>3. IsFiniteSet(all) /\ Sentinels' \subseteq all
    BY <1>0, <1>1, FS_Interval DEF Sentinels
  <1>4. new \subseteq Sentinels'
    BY <1>0, <1>1 DEF Sentinels
  <1>5. Cardinality(new) <= Cardinality(Sentinels') /\ Cardinality(Sentinels') \in Nat
    BY <1>3, <1>4, FS_Subset, FS_CardinalityType
  <1>6. Cardinality(Readers') <= Cardinality(ps) /\ Cardinality(ps) \in Nat
        /\ Cardinality(Readers') \in Nat
    BY FiniteProcs, FS_Subset
  <1> QED
    BY <1>2, <1>5, <1>6

\* SentinelForEach is preserved: a worker that takes a sentinel is not going
\* to read any more.
LEMMA SentinelStep ==
    ASSUME IInv, SentinelForEach, [Next]_vars PROVE SentinelForEach'
  <1> USE DEF SentinelForEach
  <1>0. /\ Readers \subseteq Procs /\ Sentinels \subseteq (taken + 1)..Len(log)
        /\ IsFiniteSet(Readers) /\ Cardinality(Readers) \in Nat
        /\ IsFiniteSet(Sentinels) /\ Cardinality(Sentinels) \in Nat
        /\ N \in Nat /\ N >= 2
        /\ Len(log) \in Nat /\ taken \in Nat
    BY FiniteProcs, FiniteSentinels, PoolAssumption DEF Readers, Sentinels, IInv, TypeOK
  <1>1. ASSUME NEW p \in Procs, ProcessStep(p) PROVE SentinelForEach'
    <2>0. cpc' = cpc /\ log' = log
      BY <1>1, ProcessEffect DEF OthersKeep, coordVars, IInv
    <2>1. CASE ~Take(p)
      <3>1. Sentinels' = Sentinels
        BY <1>1, <2>0, <2>1, ReadersFall DEF Sentinels
      <3>2. Cardinality(Readers') <= Cardinality(Readers)
        BY <1>0, <1>1, ReadersFall, FS_Subset
      <3>3. Cardinality(Readers') \in Nat
        BY <1>0, <1>1, ReadersFall, FiniteProcs
      <3> QED
        BY <1>0, <2>0, <3>1, <3>2, <3>3
    <2>2. CASE Take(p) /\ log[taken + 1] # None
      <3>1. Sentinels' = Sentinels
        BY <1>0, <2>0, <2>2 DEF Sentinels, Take
      <3>2. Cardinality(Readers') <= Cardinality(Readers)
        BY <1>0, <1>1, ReadersFall, FS_Subset
      <3>3. Cardinality(Readers') \in Nat
        BY <1>0, <1>1, ReadersFall, FiniteProcs
      <3> QED
        BY <1>0, <2>0, <3>1, <3>2, <3>3
    <2>3. CASE Take(p) /\ log[taken + 1] = None
      <3>1. Sentinels' = Sentinels \ {taken + 1} /\ taken + 1 \in Sentinels
        BY <1>0, <1>1, <2>0, <2>3, ReadersFall DEF Sentinels, Take
      <3>2. Readers' \subseteq Readers \ {p} /\ p \in Readers
        BY <1>1, <2>3, ReadersFall
      <3>3. Cardinality(Sentinels') = Cardinality(Sentinels) - 1
        BY <1>0, <3>1, FS_RemoveElement
      <3>4. IsFiniteSet(Readers \ {p}) /\ Cardinality(Readers \ {p}) = Cardinality(Readers) - 1
        BY <1>0, <3>2, FS_RemoveElement
      <3>5. Cardinality(Readers') <= Cardinality(Readers \ {p}) /\ Cardinality(Readers') \in Nat
        BY <3>2, <3>4, FS_Subset, FS_CardinalityType
      <3> QED
        BY <1>0, <2>0, <3>3, <3>4, <3>5
    <2> QED
      BY <2>1, <2>2, <2>3
  <1>2. CASE DispatchParallel
    <2>1. /\ PutTasks(ParallelBatch, N) /\ taken' = taken /\ item' = item
          /\ pc' = [p \in Procs |-> IF p \in ParallelProcs THEN "setup" ELSE pc[p]]
          /\ cpc = "dispatch"
      BY <1>2 DEF DispatchParallel, Launch
    <2>2. \A p \in Procs : pc[p] = "off"
      BY <2>1 DEF IInv, NoSerialYet
    <2>3. Readers' \subseteq ParallelProcs /\ ParallelProcs \subseteq Procs
      BY <1>0, <2>1, <2>2 DEF Readers, Consuming, ParallelProcs, Procs
    <2>4. Cardinality(ParallelProcs) = N
      BY <1>0, FS_Interval DEF ParallelProcs
    <2>5. Cardinality(Readers') <= Cardinality(Sentinels')
      BY <1>0, <2>1, <2>3, <2>4, EnoughSentinels, BatchFacts
    <2> QED
      BY <2>5
  <1>3. CASE DispatchSerial
    <2>1. /\ PutTasks(SerialBatch, 1) /\ taken' = taken /\ item' = item
          /\ pc' = [p \in Procs |-> IF p \in {SerialProc} THEN "setup" ELSE pc[p]]
          /\ cpc = "serial" /\ ~stop
      BY <1>3 DEF DispatchSerial, Launch, MaySerial
    <2>2. \A p \in ParallelProcs : pc[p] \in {"off", "dead"}
      BY <2>1 DEF IInv, JoinedGone, BeforeSerial, Joined, Alive
    <2>3. \A p \in Procs : p \in ParallelProcs \/ p = SerialProc
      BY <1>0 DEF Procs, ParallelProcs, SerialProc
    <2>4. Readers' \subseteq {SerialProc} /\ {SerialProc} \subseteq Procs
      BY <1>0, <2>1, <2>2, <2>3 DEF Readers, Consuming, SerialProc, Procs
    <2>5. Cardinality({SerialProc}) = 1
      BY FS_Singleton
    <2>6. Cardinality(Readers') <= Cardinality(Sentinels')
      BY <2>1, <2>4, <2>5, EnoughSentinels, BatchFacts
    <2> QED
      BY <2>6
  <1>4. CASE MainStep /\ ~DispatchParallel /\ ~DispatchSerial /\ cpc' \in {"join", "terminate"}
    <2>1. /\ cpc \in {"join", "terminate"}
          /\ taken' = taken /\ log' = log /\ pc' = pc /\ item' = item
      BY <1>4 DEF MainStep, CoordStep, NothingParallel, JoinDone, JoinTimeout, Terminate,
         DrainOne, DrainEnd, SkipSerial, CollectGet, CollectReturn, KillDaemons, ExitProcess,
         SpawnFails, Interrupt, Crash, FeedTask, coordVars, taskVars, workerVars, vars
    <2>2. Readers' = Readers /\ Sentinels' = Sentinels
      BY <2>1 DEF Readers, Sentinels, Consuming, Held
    <2> QED
      BY <2>1, <2>2
  <1> QED
    BY <1>1, <1>2, <1>3, <1>4, StepCases

\* QueueInv is inductive beside IInv.
LEMMA QueueInvInit == Init => QueueInv
  <1> SUFFICES ASSUME Init PROVE QueueInv
    OBVIOUS
  <1>1. Holders = {}
    BY DEF Init, Holders
  <1>2. Cardinality(Holders) = 0
    BY <1>1, FS_EmptySet
  <1> QED
    BY <1>2 DEF Init, QueueInv, InHandLate, TaskAccounting, SentinelForEach

LEMMA QueueInvStep == IInv /\ QueueInv /\ [Next]_vars => QueueInv'
  BY InHandStep, AccountingStep, SentinelStep DEF QueueInv

\* The queue's books are right in every state of every run.
LEMMA QueueInvariance == Spec => []QueueInv
  BY QueueInvInit, QueueInvStep, Invariance, PTL DEF Spec

\* The counter of the task queue is exact, so that no task_done() raises
\* (multiprocessing.JoinableQueue), however workers die with an entry in hand.
THEOREM TasksAreAccounted == Spec => []TaskAccounting
  BY QueueInvariance, PTL DEF QueueInv

\* While a phase is joined no worker can find the queue empty for good: there
\* is a sentinel for each that reads it (_dispatch puts one per worker).
THEOREM SentinelsSuffice == Spec => []SentinelForEach
  BY QueueInvariance, PTL DEF QueueInv

-----------------------------------------------------------------------------
(* The results.                                                             *)

\* The results on their way are records; what is in the pipe may be torn.
LEMMA ResultTypes ==
    ASSUME IInv
    PROVE  /\ \A p \in Procs : /\ obuf[p] \in Seq(Result) /\ DOMAIN obuf[p] = 1..Len(obuf[p])
                               /\ Len(obuf[p]) \in Nat
           /\ rpipe \in Seq(Result \cup {Torn}) /\ DOMAIN rpipe = 1..Len(rpipe) /\ Len(rpipe) \in Nat
           /\ results \in Seq(Result) /\ DOMAIN results = 1..Len(results) /\ Len(results) \in Nat
           /\ InPipe \subseteq DOMAIN rpipe
  BY DEF IInv, TypeOK, InPipe

\* A unit that still runs has no result.
LEMMA NoResultYet ==
    ASSUME IInv, NEW u \in Units, Running(u), NEW r, r.unit = u
    PROVE  /\ \A p \in Procs : \A i \in DOMAIN obuf[p] : ~SameUnit(obuf[p][i], r)
           /\ \A i \in InPipe : ~SameUnit(rpipe[i], r)
           /\ \A i \in DOMAIN results : ~SameUnit(results[i], r)
  BY DEF IInv, AllTrue, TrueResult, SameUnit, Running, InPipe

\* Sharing a unit is symmetric.
LEMMA SameUnitSymmetric == \A r, s : SameUnit(r, s) <=> SameUnit(s, r)
  BY DEF SameUnit

\* A new result goes to the end of a buffer.
LEMMA PutKeepsOne ==
    ASSUME IInv, ResultInv, NEW p \in Procs, NEW r \in Result,
           obuf' = [obuf EXCEPT ![p] = Append(@, r)], rpipe' = rpipe, results' = results,
           \A q \in Procs : \A i \in DOMAIN obuf[q] : ~SameUnit(obuf[q][i], r),
           \A i \in InPipe : ~SameUnit(rpipe[i], r),
           \A i \in DOMAIN results : ~SameUnit(results[i], r)
    PROVE  ResultInv'
  <1> USE DEF ResultInv
  <1>1. /\ \A q \in Procs \ {p} : obuf'[q] = obuf[q]
        /\ \A i \in DOMAIN obuf'[p] : \/ i \in DOMAIN obuf[p] /\ obuf'[p][i] = obuf[p][i]
                                      \/ i = Len(obuf[p]) + 1 /\ obuf'[p][i] = r
    BY ResultTypes DEF IInv, TypeOK
  <1>2. InPipe' = InPipe
    BY DEF InPipe
  <1>3. OneInBuffers'
    BY <1>1, SameUnitSymmetric DEF OneInBuffers
  <1>4. OneInPipe'
    BY <1>1, <1>2, SameUnitSymmetric DEF OneInPipe
  <1>5. OneInResults'
    BY <1>1, <1>2, SameUnitSymmetric DEF OneInResults
  <1> QED
    BY <1>3, <1>4, <1>5

\* The first result of a buffer leaves it, and is sent or lost; what is torn
\* is no result.
LEMMA SendKeepsOne ==
    ASSUME IInv, ResultInv, NEW p \in Procs, obuf[p] # <<>>,
           obuf' = [obuf EXCEPT ![p] = Tail(@)], results' = results,
           rpipe' = rpipe \/ rpipe' = Append(rpipe, Head(obuf[p]))
    PROVE  ResultInv'
  <1> USE DEF ResultInv
  <1>1. /\ \A q \in Procs \ {p} : obuf'[q] = obuf[q]
        /\ 1 \in DOMAIN obuf[p] /\ Head(obuf[p]) = obuf[p][1]
        /\ \A i \in DOMAIN obuf'[p] : i \in Nat /\ i # 0 /\ i + 1 \in DOMAIN obuf[p] /\ obuf'[p][i] = obuf[p][i + 1]
    BY ResultTypes, SMTT(20) DEF IInv, TypeOK
  <1>2. \A i \in InPipe' : \/ i \in InPipe /\ rpipe'[i] = rpipe[i]
                           \/ i = Len(rpipe) + 1 /\ rpipe'[i] = obuf[p][1] /\ rpipe' # rpipe
    BY <1>1, ResultTypes DEF InPipe
  <1>3. OneInBuffers'
    BY <1>1 DEF OneInBuffers
  <1>4. OneInPipe'
    <2>1. ASSUME NEW i \in InPipe', NEW j \in InPipe', SameUnit(rpipe'[i], rpipe'[j]) PROVE i = j
      BY <1>1, <1>2, <2>1, SameUnitSymmetric DEF OneInPipe
    <2>2. ASSUME NEW i \in InPipe', NEW q \in Procs, NEW j \in DOMAIN obuf'[q],
                 SameUnit(rpipe'[i], obuf'[q][j])
          PROVE  FALSE
      <3>1. \E n \in DOMAIN obuf[q] : obuf'[q][j] = obuf[q][n] /\ (q = p => n # 1)
        BY <1>1
      <3> QED
        BY <1>1, <1>2, <2>2, <3>1 DEF OneInPipe, OneInBuffers
    <2> QED
      BY <2>1, <2>2 DEF OneInPipe
  <1>5. OneInResults'
    BY <1>1, <1>2 DEF OneInResults
  <1> QED
    BY <1>3, <1>4, <1>5

\* A worker that dies takes its buffer with it, and may leave a torn result.
LEMMA DieKeepsOne ==
    ASSUME IInv, ResultInv, NEW p \in Procs, Die(p)
    PROVE  ResultInv'
  <1> USE DEF ResultInv
  <1>1. obuf' = [obuf EXCEPT ![p] = <<>>] /\ results' = results
        /\ (rpipe' = rpipe \/ rpipe' = Append(rpipe, Torn))
    BY DEF Die, coordVars
  <1>2. \A q \in Procs : \A i \in DOMAIN obuf'[q] : i \in DOMAIN obuf[q] /\ obuf'[q][i] = obuf[q][i]
    BY <1>1, ResultTypes DEF IInv, TypeOK
  <1>3. \A i \in InPipe' : i \in InPipe /\ rpipe'[i] = rpipe[i]
    BY <1>1, ResultTypes DEF InPipe
  <1> QED
    BY <1>1, <1>2, <1>3 DEF OneInBuffers, OneInPipe, OneInResults

\* The coordinator reads the first result of the pipe.
LEMMA GetKeepsOne ==
    ASSUME IInv, ResultInv, CollectGet
    PROVE  ResultInv'
  <1> USE DEF ResultInv
  <1>1. /\ results' = Append(results, Head(rpipe)) /\ rpipe' = Tail(rpipe) /\ obuf' = obuf
        /\ rpipe # <<>> /\ Head(rpipe) # Torn
    BY DEF CollectGet
  <1>2. 1 \in InPipe /\ Head(rpipe) = rpipe[1]
    BY <1>1, ResultTypes DEF InPipe
  <1>3. \A i \in InPipe' : i \in Nat /\ i # 0 /\ i + 1 \in InPipe /\ rpipe'[i] = rpipe[i + 1]
    BY <1>1, ResultTypes DEF InPipe
  <1>4. \A i \in DOMAIN results' : \/ i \in DOMAIN results /\ results'[i] = results[i]
                                   \/ i = Len(results) + 1 /\ results'[i] = rpipe[1]
    BY <1>1, <1>2, ResultTypes
  <1>5. OneInBuffers' /\ OneInPipe'
    <2>1. OneInBuffers'
      BY <1>1 DEF OneInBuffers
    <2>2. ASSUME NEW i \in InPipe', NEW j \in InPipe', SameUnit(rpipe'[i], rpipe'[j]) PROVE i = j
      <3>1. i + 1 = j + 1
        BY <1>3, <2>2 DEF OneInPipe
      <3> QED
        BY <1>3, <3>1
    <2>3. \A i \in InPipe', q \in Procs : \A j \in DOMAIN obuf'[q] : ~SameUnit(rpipe'[i], obuf'[q][j])
      BY <1>1, <1>3 DEF OneInPipe
    <2> QED
      BY <2>1, <2>2, <2>3 DEF OneInPipe
  <1>6. OneInResults'
    <2>1. ASSUME NEW i \in DOMAIN results', NEW j \in DOMAIN results', SameUnit(results'[i], results'[j])
          PROVE  i = j
      BY <1>2, <1>4, <2>1, SameUnitSymmetric DEF OneInResults
    <2>2. ASSUME NEW i \in DOMAIN results', NEW j \in InPipe', SameUnit(results'[i], rpipe'[j])
          PROVE  FALSE
      BY <1>2, <1>3, <1>4, <2>2 DEF OneInResults, OneInPipe
    <2>3. ASSUME NEW i \in DOMAIN results', NEW q \in Procs, NEW j \in DOMAIN obuf'[q],
                 SameUnit(results'[i], obuf'[q][j])
          PROVE  FALSE
      BY <1>1, <1>2, <1>4, <2>3 DEF OneInResults, OneInPipe
    <2> QED
      BY <2>1, <2>2, <2>3 DEF OneInResults
  <1> QED
    BY <1>5, <1>6

\* ResultInv is preserved: a result is put once, when its unit ends, and moves
\* from one place to the next.
LEMMA ResultStep ==
    ASSUME IInv, ResultInv, [Next]_vars PROVE ResultInv'
  <1>1. ASSUME obuf' = obuf, rpipe' = rpipe, results' = results PROVE ResultInv'
    BY <1>1 DEF ResultInv, OneInBuffers, OneInPipe, OneInResults, InPipe
  <1>2. ASSUME NEW p \in Procs, SetupFails(p) PROVE ResultInv'
    <2> DEFINE r == [unit |-> SetupId, failed |-> TRUE]
    <2>1. r \in Result /\ \A s : ~SameUnit(s, r)
      BY PoolAssumption DEF Result, SameUnit
    <2>2. obuf' = [obuf EXCEPT ![p] = Append(@, r)] /\ rpipe' = rpipe /\ results' = results
      BY <1>2 DEF SetupFails, PutResult, coordVars
    <2> HIDE DEF r
    <2> QED
      BY <2>1, <2>2, PutKeepsOne
  <1>3. ASSUME NEW p \in Procs, FinishUnit(p) PROVE ResultInv'
    <2>1. PICK f \in BOOLEAN : PutResult(p, Held(p), f)
      BY <1>3 DEF FinishUnit
    <2> DEFINE r == [unit |-> Held(p), failed |-> f]
    <2>2. Held(p) \in Units /\ Running(Held(p)) /\ r.unit = Held(p)
      BY <1>3 DEF FinishUnit, IInv, HeldOK, RunningHeld
    <2>3. r \in Result
      BY <2>2 DEF Result
    <2>4. obuf' = [obuf EXCEPT ![p] = Append(@, r)] /\ rpipe' = rpipe /\ results' = results
      BY <1>3, <2>1 DEF FinishUnit, PutResult, coordVars
    <2> HIDE DEF r
    <2> QED
      BY <2>2, <2>3, <2>4, NoResultYet, PutKeepsOne
  <1>4. ASSUME NEW p \in Procs, SendResult(p) \/ DropResult(p) PROVE ResultInv'
    BY <1>4, SendKeepsOne DEF SendResult, DropResult, coordVars
  <1>5. ASSUME NEW p \in Procs, SignalDeath(p) \/ Kill(p) PROVE ResultInv'
    BY <1>5, DieKeepsOne DEF SignalDeath, Kill
  <1>6. ASSUME NEW p \in Procs, LoopStep(p) \/ LockPipe(p), ~SetupFails(p), ~FinishUnit(p)
        PROVE  obuf' = obuf /\ rpipe' = rpipe /\ results' = results
    BY <1>6 DEF LoopStep, LockPipe, SetupOk, CheckStop, AcquireReader, ReaderBusy, Take,
                NothingToTake, TakeSentinel, SkipUnit, CheckAgain, StartUnit, AckUnit,
                AckAborted, Escape, Teardown, ExitWorker, coordVars, resultVars
  <1>7. ASSUME MainStep, ~CollectGet
        PROVE  obuf' = obuf /\ rpipe' = rpipe /\ results' = results
    BY <1>7 DEF MainStep, CoordStep, DispatchParallel, NothingParallel, JoinDone, JoinTimeout,
                Terminate, DrainOne, DrainEnd, DispatchSerial, SkipSerial, CollectReturn,
                KillDaemons, ExitProcess, SpawnFails, Interrupt, Crash, FeedTask,
                coordVars, resultVars, vars
  <1> QED
    BY <1>1, <1>2, <1>3, <1>4, <1>5, <1>6, <1>7, GetKeepsOne, StepCases
    DEF ProcessStep, WorkerStep, ResultFeeder

\* No result is anywhere in the beginning.
LEMMA ResultInit == Init => ResultInv
  BY DEF Init, ResultInv, OneInBuffers, OneInPipe, OneInResults, InPipe

\* Wherever a unit's result is, it is there alone.
LEMMA ResultInvariance == Spec => []ResultInv
  BY ResultInit, ResultStep, Invariance, PTL DEF Spec

\* The results _collect has are true and of different units: when it counts
\* results against dispatched units it counts units.
THEOREM ResultsAreTruthful == Spec => []ResultsTruthful
  <1>1. IInv /\ ResultInv => ResultsTruthful
    BY DEF IInv, AllTrue, TrueResult, ResultInv, OneInResults, SameUnit, ResultsTruthful
  <1> QED
    BY <1>1, ResultInvariance, Invariance, PTL
=============================================================================
