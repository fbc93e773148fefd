---------------------------- MODULE PoolOrderProofs ----------------------------
(***************************************************************************)
(* The two phases of a run: serial units run in their order, parallel units *)
(* before them, and every step of a run is one that PoolPromise allows.      *)
(*                                                                         *)
(* The argument: once the serial batch is in the queue one process is left  *)
(* that can take from it, and until somebody sets the stop event nobody     *)
(* else removes an entry.  So what that process holds is the newest entry    *)
(* taken, and all serial units before it have come to a result.             *)
(***************************************************************************)
EXTENDS PoolQueueProofs

-----------------------------------------------------------------------------
(* What single steps do to the phases.                                      *)

\* The stop event is never cleared.
LEMMA StopStays ==
    ASSUME TypeOK, NoSerialYet, [Next]_vars, stop PROVE stop'
  <1>1. ASSUME NEW p \in Procs, ProcessStep(p) PROVE stop'
    BY <1>1, ProcessEffect DEF OthersKeep
  <1>2. CASE MainStep
    BY <1>2 DEF MainStep, CoordStep, DispatchParallel, NothingParallel, JoinDone, JoinTimeout,
       Terminate, DrainOne, DrainEnd, DispatchSerial, SkipSerial, CollectGet, CollectReturn,
       KillDaemons, ExitProcess, SpawnFails, Interrupt, Crash, FeedTask, taskVars, vars
  <1> QED
    BY <1>1, <1>2, StepCases

\* How a worker goes on: it leaves the loop for good, it drops a unit only
\* when it is told to stop or leaves, but not after its second look at the stop
\* event, and a unit that does not come to a result takes its worker with it.
LEMMA ProcessMoves ==
    ASSUME TypeOK, NEW p \in Procs, ProcessStep(p)
    PROVE  /\ pc[p] # "off" /\ pc'[p] # "off"
           /\ InLoop(p)' => InLoop(p)
           /\ pc[p] = "got" /\ pc'[p] \notin {"got", "checked", "running"} => stop \/ ~InLoop(p)'
           /\ pc[p] = "checked" /\ pc'[p] \notin {"checked", "running"} => ~InLoop(p)'
           /\ pc[p] = "running" /\ pc'[p] # "running" =>
                 ~InLoop(p)' \/ ran'[Held(p)] \in {"passed", "failed"} \/ Held(p) \notin Units
  <1> USE DEF TypeOK, InLoop, WorkerStates
  <1>1. CASE CheckAgain(p) \/ StartUnit(p) \/ Take(p) \/ Escape(p)
    BY <1>1 DEF CheckAgain, StartUnit, Take, Escape, Goto
  <1>2. CASE FinishUnit(p)
    BY <1>2 DEF FinishUnit, Goto
  <1>3. CASE TakeSentinel(p) \/ SkipUnit(p) \/ AckUnit(p) \/ AckAborted(p)
    BY <1>3 DEF TakeSentinel, SkipUnit, AckUnit, AckAborted, Goto
  <1>4. CASE \/ SetupOk(p) \/ SetupFails(p) \/ CheckStop(p) \/ AcquireReader(p)
             \/ ReaderBusy(p) \/ NothingToTake(p) \/ Teardown(p) \/ ExitWorker(p)
    BY <1>4 DEF SetupOk, SetupFails, CheckStop, AcquireReader, ReaderBusy, NothingToTake,
       Teardown, ExitWorker, Goto
  <1>5. CASE ResultFeeder(p) \/ SignalDeath(p) \/ Kill(p)
    BY <1>5 DEF ResultFeeder, LockPipe, SendResult, DropResult, SignalDeath, Kill, Die,
       Alive, workerVars
  <1> QED
    BY <1>1, <1>2, <1>3, <1>4, <1>5 DEF ProcessStep, WorkerStep, LoopStep

\* Once the serial batch is in the queue, only the serial worker can step.
LEMMA OnlySerialSteps ==
    ASSUME IInv, SerialQueued, NEW p \in Procs, ProcessStep(p)
    PROVE  p = SerialProc
  <1>1. Alive(p)
    BY ProcessEffect DEF OthersKeep, IInv
  <1>2. \A q \in ParallelProcs : ~Alive(q)
    BY DEF IInv, SerialAlone, SerialQueued
  <1> QED
    BY <1>1, <1>2, PoolAssumption DEF Procs, ParallelProcs, SerialProc

\* What the coordinator takes from the queue it takes in the drain.
LEMMA TakenInDrain ==
    ASSUME MainStep, taken' # taken
    PROVE  cpc = "drain" /\ Quiet
  BY DEF MainStep, CoordStep, DispatchParallel, NothingParallel, JoinDone, JoinTimeout,
     Terminate, DrainOne, DrainEnd, DispatchSerial, SkipSerial, CollectGet, CollectReturn,
     KillDaemons, ExitProcess, SpawnFails, Interrupt, Crash, FeedTask, Quiet, taskVars, workerVars, vars

\* Where the units of a batch go.
LEMMA BatchInLog ==
    ASSUME TypeOK, NEW batch \in Seq(Units), Puts(batch)
    PROVE  \A i \in DOMAIN batch : Len(log) + i \in DOMAIN log' /\ log'[Len(log) + i] = batch[i]
  <1>1. PICK n \in Nat : PutTasks(batch, n)
    BY DEF Puts
  <1>2. Len(log) \in Nat /\ Len(batch) \in Nat /\ DOMAIN batch = 1..Len(batch)
    BY DEF TypeOK
  <1>3. Len(log') = Len(log) + Len(batch) + n /\ DOMAIN log' = 1..Len(log')
    BY <1>1, PutTasksLog, PutsLog
  <1>4. ASSUME NEW i \in DOMAIN batch
        PROVE  Len(log) + i \in DOMAIN log' /\ log'[Len(log) + i] = batch[i]
    <2>1. Len(log) + i \in 1..Len(log') /\ Len(log) + i > Len(log) /\ Len(log) + i <= Len(log) + Len(batch)
      BY <1>2, <1>3
    <2>2. log'[Len(log) + i] # None
      BY <1>1, <1>2, <2>1, PutTasksLog
    <2>3. (Len(log) + i) - Len(log) = i
      BY <1>2
    <2> QED
      BY <1>2, <1>3, <2>1, <2>2, <2>3, PutsLog
  <1> QED
    BY <1>4

-----------------------------------------------------------------------------
(* The conjuncts of PhaseInv.                                               *)

\* LogOrdered is preserved: the serial batch is put last and in order.
LEMMA LogOrderedStep ==
    ASSUME IInv, LogOrdered, [Next]_vars PROVE LogOrdered'
  <1> USE DEF LogOrdered
  <1>0. Len(log) \in Nat /\ DOMAIN log = 1..Len(log)
    BY DEF IInv, TypeOK
  <1>1. CASE log' = log
    BY <1>1
  <1>2. CASE cpc = "dispatch" /\ Puts(ParallelBatch)
    <2>1. Len(log) = 0
      BY <1>2 DEF IInv, NoSerialYet
    <2>2. \A i \in DOMAIN log' : log'[i] \notin SerialUnits
      BY <1>2, <2>1, PutsLog, BatchFacts DEF IInv
    <2> QED
      BY <2>2, BatchFacts
  <1>3. CASE cpc = "serial" /\ Puts(SerialBatch)
    <2>1. \A i \in DOMAIN log : log[i] \notin SerialUnits
      BY <1>3 DEF IInv, NoSerialYet, BeforeSerial
    <2>2. \A i \in DOMAIN log' : i \in Nat /\
            \/ i \in DOMAIN log /\ log'[i] = log[i] /\ log'[i] \notin SerialUnits
            \/ i > Len(log) /\ log'[i] = None
            \/ /\ i > Len(log) /\ i - Len(log) \in DOMAIN SerialBatch
               /\ log'[i] = SerialBatch[i - Len(log)] /\ log'[i] \in SerialUnits
      BY <1>0, <1>3, <2>1, PutsLog, BatchFacts DEF IInv
    <2>3. None \notin Units /\ ParallelUnits \subseteq Units /\ ParallelUnits \cap SerialUnits = {}
      BY PoolAssumption DEF Units
    <2>4. ASSUME NEW i \in DOMAIN log', NEW j \in DOMAIN log',
                 log'[i] \in SerialUnits, log'[j] \in ParallelUnits
          PROVE  j < i
      BY <1>0, <2>2, <2>3, <2>4, BatchFacts
    <2>5. ASSUME NEW i \in DOMAIN SerialBatch, NEW j \in DOMAIN SerialBatch, NEW y \in DOMAIN log',
                 i < j, log'[y] = SerialBatch[j]
          PROVE  \E x \in DOMAIN log' : x < y /\ log'[x] = SerialBatch[i]
      <3>1. y - Len(log) \in DOMAIN SerialBatch /\ SerialBatch[y - Len(log)] = SerialBatch[j]
        BY <2>2, <2>5, BatchFacts
      <3>2. y - Len(log) = j /\ y \in Nat
        BY <2>2, <3>1, BatchFacts
      <3>3. Len(log) + i \in DOMAIN log' /\ log'[Len(log) + i] = SerialBatch[i]
        BY <1>3, BatchInLog, BatchFacts DEF IInv
      <3>4. i \in Nat /\ j \in Nat
        BY BatchFacts
      <3>5. Len(log) + i < y
        BY <1>0, <2>5, <3>2, <3>4
      <3> QED
        BY <3>3, <3>5
    <2> QED
      BY <2>4, <2>5
  <1> QED
    BY <1>1, <1>2, <1>3, StepCases, MainEffect, ProcessEffect DEF IInv, Quiet, OthersKeep

\* SerialWorker is preserved: phase 2 puts its batch and starts its worker in
\* one step, and drains when that one is dead or told to stop.
LEMMA SerialWorkerStep ==
    ASSUME IInv, SerialWorker, [Next]_vars PROVE SerialWorker'
  <1> USE DEF SerialWorker
  <1>0. N \in Nat /\ N >= 2 /\ SerialProc \in Procs
    BY PoolAssumption DEF SerialProc, Procs
  <1>1. ASSUME NEW p \in Procs, ProcessStep(p) PROVE SerialWorker'
    <2>1. log' = log /\ cpc' = cpc /\ Alive(p) /\ (stop => stop')
          /\ \A q \in Procs \ {p} : pc'[q] = pc[q]
      BY <1>1, ProcessEffect DEF OthersKeep, coordVars, IInv
    <2>2. SerialQueued' <=> SerialQueued
      BY <2>1 DEF SerialQueued
    <2>3. pc[p] # "off" /\ pc'[p] # "off" /\ pc[p] # "dead"
      BY <1>1, <2>1, ProcessMoves DEF IInv, Alive
    <2> QED
      BY <1>0, <2>1, <2>2, <2>3
  <1>2. ASSUME log' = log, pc' = pc, (stop => stop'), cpc' = "drain" => cpc = "drain"
        PROVE  SerialWorker'
    BY <1>2 DEF SerialQueued
  <1>3. CASE DispatchParallel \/ (cpc = "dispatch" /\ SpawnFails)
    <2>1. Puts(ParallelBatch) /\ pc'[SerialProc] = "off" /\ cpc = "dispatch" /\ cpc' # "drain"
      <3>1. \A p \in Procs : pc[p] = "off"
        BY <1>3 DEF IInv, NoSerialYet, DispatchParallel
      <3>2. PICK ps : Launch(ParallelBatch, N, ps) /\ SerialProc \notin ps
        BY <1>0, <1>3 DEF DispatchParallel, SpawnFails, ParallelProcs, SerialProc
      <3> QED
        BY <1>0, <1>3, <3>1, <3>2 DEF Launch, Puts, DispatchParallel, SpawnFails
    <2>2. Len(log) = 0
      BY <2>1 DEF IInv, NoSerialYet
    <2>3. ~SerialQueued'
      BY <2>1, <2>2, PutsLog, BatchFacts DEF SerialQueued, IInv
    <2> QED
      BY <2>1, <2>3
  <1>4. CASE DispatchSerial
    <2>1. /\ PutTasks(SerialBatch, 1) /\ cpc' # "drain" /\ cpc = "serial" /\ SerialBatch # <<>>
          /\ pc' = [p \in Procs |-> IF p \in {SerialProc} THEN "setup" ELSE pc[p]]
      BY <1>4 DEF DispatchSerial, Launch, MaySerial
    <2>2. pc[SerialProc] = "off"
      BY <2>1 DEF IInv, NoSerialYet, BeforeSerial
    <2>3. Puts(SerialBatch) /\ pc'[SerialProc] = "setup"
      BY <1>0, <2>1, <2>2 DEF Puts
    <2>4. 1 \in DOMAIN SerialBatch
      BY <2>1, BatchFacts
    <2>5. SerialQueued'
      BY <2>3, <2>4, BatchInLog, BatchFacts DEF IInv, SerialQueued
    <2> QED
      BY <2>1, <2>3, <2>5
  <1>5. CASE cpc # "dispatch" /\ SpawnFails
    <2>1. /\ stop' /\ cpc' = "raised" /\ Launch(SerialBatch, 1, {}) /\ cpc = "serial"
      BY <1>5 DEF SpawnFails
    <2>2. pc'[SerialProc] = "off"
      BY <1>0, <2>1 DEF Launch, IInv, NoSerialYet, BeforeSerial
    <2> QED
      BY <2>1, <2>2
  <1>6. CASE JoinDone \/ Terminate
    <2>1. log' = log /\ pc' = pc /\ stop' = stop /\ AfterJoin /\ cpc \in {"join", "terminate"}
      BY <1>6 DEF JoinDone, Terminate, taskVars, workerVars
    <2>2. CASE SerialQueued
      <3>1. k = SerialProc
        BY <2>1, <2>2 DEF IInv, NoSerialYet, BeforeSerial, SerialQueued
      <3>2. stop \/ pc[SerialProc] = "dead"
        BY <1>6, <2>2, <3>1 DEF JoinDone, Terminate, Alive, IInv, JoinedGone
      <3> QED
        BY <2>1, <2>2, <3>2 DEF SerialQueued
    <2>3. CASE ~SerialQueued
      BY <2>1, <2>3 DEF SerialQueued
    <2> QED
      BY <2>2, <2>3
  <1>7. ASSUME MainStep, ~DispatchParallel, ~DispatchSerial, ~SpawnFails, ~JoinDone, ~Terminate
        PROVE  SerialWorker'
    BY <1>2, <1>7 DEF MainStep, CoordStep, NothingParallel, JoinTimeout,
       DrainOne, DrainEnd, SkipSerial, CollectGet, CollectReturn, KillDaemons, ExitProcess,
       Interrupt, Crash, FeedTask, coordVars, taskVars, workerVars, vars
  <1> QED
    BY <1>1, <1>3, <1>4, <1>5, <1>6, <1>7, StepCases

\* The serial worker exists only when the serial batch is queued, so a batch
\* is put only while it does not.
LEMMA PutsBeforeSerial ==
    ASSUME IInv, NEW batch \in Seq(Units), Puts(batch), cpc \in {"dispatch", "serial"}
    PROVE  /\ pc[SerialProc] = "off" /\ pc'[SerialProc] \in {"off", "setup"}
           /\ \A i \in DOMAIN log : log[i] \notin SerialUnits
  <1>1. SerialProc \in Procs
    BY PoolAssumption DEF SerialProc, Procs
  <1>2. pc[SerialProc] = "off" /\ \A i \in DOMAIN log : log[i] \notin SerialUnits
    BY <1>1 DEF IInv, NoSerialYet, BeforeSerial
  <1> QED
    BY <1>1, <1>2 DEF Puts

\* HoldsNewest is preserved: nobody but the serial worker takes.
LEMMA HoldsNewestStep ==
    ASSUME IInv, SerialWorker, HoldsNewest, [Next]_vars PROVE HoldsNewest'
  <1> SUFFICES ASSUME SerialQueued', ~stop', pc'[SerialProc] \in {"got", "checked", "running", "ack", "ackAborted"}
               PROVE  item'[SerialProc] = taken'
    BY DEF HoldsNewest
  <1>0. ~stop
    BY StopStays DEF IInv
  <1>1. ASSUME NEW p \in Procs, ProcessStep(p) PROVE item'[SerialProc] = taken'
    <2>1. OthersKeep(p) /\ (Begins(p) \/ Ends(p) \/ Takes(p) \/ Idles(p))
      BY <1>1, ProcessEffect DEF IInv
    <2>2. SerialQueued
      BY <2>1 DEF OthersKeep, SerialQueued
    <2>3. p = SerialProc
      BY <1>1, <2>2, OnlySerialSteps
    <2> QED
      BY <1>0, <2>1, <2>2, <2>3 DEF Begins, Ends, Takes, Idles, HoldsNewest
  <1>2. CASE MainStep
    <2>1. item' = item
      BY <1>2, MainEffect DEF IInv
    <2>2. Quiet
      BY <1>2, MainEffect, PutsBeforeSerial, BatchFacts DEF IInv
    <2>3. SerialQueued /\ pc' = pc
      BY <2>2 DEF Quiet, SerialQueued
    <2>4. taken' = taken
      BY <1>0, <1>2, <2>3, TakenInDrain DEF SerialWorker
    <2> QED
      BY <1>0, <2>1, <2>3, <2>4 DEF HoldsNewest
  <1> QED
    BY <1>1, <1>2, StepCases

\* SerialBehind is preserved: the serial worker takes only after it came to an
\* end with the unit it held.
LEMMA SerialBehindStep ==
    ASSUME IInv, SerialWorker, SerialBehind, [Next]_vars PROVE SerialBehind'
  <1> SUFFICES ASSUME ~stop', InLoop(SerialProc)', NEW i \in 1..taken', log'[i] \in SerialUnits
               PROVE  \/ Finished(log[i])'
                      \/ item'[SerialProc] = i /\ pc'[SerialProc] \in {"got", "checked", "running"}
    BY DEF SerialBehind
  <1>0. ~stop /\ taken \in Nat /\ SerialUnits \subseteq Units /\ (\A j \in 1..taken : j \in DOMAIN log)
    BY StopStays, BatchFacts DEF IInv, TypeOK
  <1>1. i \in DOMAIN log'
    <2>1. TypeOK'
      BY TypeStep DEF IInv
    <2>2. log' \in Seq(Units \cup {None}) /\ flushed' \in 0..Len(log') /\ taken' \in 0..flushed'
      BY <2>1 DEF TypeOK
    <2> QED
      BY <2>2
  <1>2. ASSUME log' = log, i \in 1..taken, Finished(log[i]) PROVE Finished(log[i])'
    BY <1>0, <1>2, FinishedStays DEF IInv, Finished
  <1>3. ASSUME NEW p \in Procs, ProcessStep(p)
        PROVE  \/ Finished(log[i])'
               \/ item'[SerialProc] = i /\ pc'[SerialProc] \in {"got", "checked", "running"}
    <2>1. OthersKeep(p) /\ (Begins(p) \/ Ends(p) \/ Takes(p) \/ Idles(p)) /\ log' = log
      BY <1>3, ProcessEffect DEF IInv, OthersKeep
    <2>2. p = SerialProc
      BY <1>1, <1>3, <2>1, OnlySerialSteps DEF SerialQueued
    <2>3. InLoop(SerialProc)
      BY <1>3, <2>2, ProcessMoves DEF IInv
    <2>4. i \in 1..taken =>
            \/ Finished(log[i])'
            \/ item[SerialProc] = i /\ pc[SerialProc] \in {"got", "checked", "running"}
      BY <1>0, <1>2, <2>1, <2>3 DEF SerialBehind
    <2>5. CASE i \notin 1..taken
      BY <1>0, <2>1, <2>2, <2>5 DEF Begins, Ends, Takes, Idles
    <2>6. CASE item[SerialProc] = i /\ pc[SerialProc] = "got"
      BY <1>0, <1>3, <2>1, <2>2, <2>6, ProcessMoves DEF Begins, Ends, Takes, Idles, IInv
    <2>8. CASE item[SerialProc] = i /\ pc[SerialProc] = "checked"
      BY <1>0, <1>3, <2>1, <2>2, <2>8, ProcessMoves DEF Begins, Ends, Takes, Idles, IInv
    <2>7. CASE item[SerialProc] = i /\ pc[SerialProc] = "running"
      <3>1. Held(p) = log[i] /\ log[i] \in Units /\ log'[i] = log[i]
        BY <1>0, <2>1, <2>2, <2>7 DEF Held
      <3>2. CASE pc'[p] = "running"
        BY <2>1, <2>2, <2>7, <3>2 DEF Begins, Ends, Takes, Idles
      <3>3. CASE pc'[p] # "running"
        <4>1. ran'[log[i]] \in {"passed", "failed"}
          BY <1>3, <2>2, <2>7, <3>1, <3>3, ProcessMoves DEF IInv
        <4> QED
          BY <3>1, <4>1 DEF Finished
      <3> QED
        BY <3>2, <3>3
    <2> QED
      BY <2>4, <2>5, <2>6, <2>7, <2>8
  <1>4. CASE MainStep
    <2>1. item' = item /\ taken' \in Nat
      BY <1>4, MainEffect DEF IInv
    <2>2. CASE Quiet
      <3>1. SerialQueued /\ pc' = pc /\ log' = log
        BY <1>1, <2>2 DEF Quiet, SerialQueued
      <3>2. taken' = taken
        BY <1>0, <1>4, <3>1, TakenInDrain DEF SerialWorker, InLoop
      <3> QED
        BY <1>0, <1>2, <2>1, <3>1, <3>2 DEF SerialBehind, InLoop
    <2>3. ASSUME NEW batch \in Seq(Units), Puts(batch), cpc \in {"dispatch", "serial"}, taken' = taken
          PROVE  FALSE
      <3>1. i \in DOMAIN log /\ log'[i] = log[i]
        BY <1>0, <2>3, PutsLog DEF IInv
      <3> QED
        BY <2>3, <3>1, PutsBeforeSerial
    <2> QED
      BY <1>4, <2>2, <2>3, MainEffect, BatchFacts DEF IInv
  <1> QED
    BY <1>3, <1>4, StepCases

\* StartsInOrder is preserved: it holds when the serial worker has looked at the
\* stop event, and nobody else starts anything then.
LEMMA StartsInOrderStep ==
    ASSUME IInv, SerialWorker, HoldsNewest, SerialBehind, StartsInOrder, [Next]_vars
    PROVE  StartsInOrder'
  <1> SUFFICES ASSUME pc'[SerialProc] = "checked", NEW i \in DOMAIN log'
               PROVE  /\ i < item'[SerialProc] /\ log'[i] \in SerialUnits => Finished(log[i])'
                      /\ i > item'[SerialProc] /\ log'[i] \in Units => ran'[log'[i]] = "none"
    BY DEF StartsInOrder
  <1> DEFINE Before == \A j \in DOMAIN log : j < item[SerialProc] /\ log[j] \in SerialUnits =>
                           Finished(log[j])
             Behind == \A j \in DOMAIN log : j > item[SerialProc] /\ log[j] \in Units =>
                           ran[log[j]] = "none"
  <1>0. SerialProc \in Procs
    BY PoolAssumption DEF SerialProc, Procs
  <1>1. SUFFICES log' = log /\ ran' = ran /\ item'[SerialProc] = item[SerialProc] /\ Before /\ Behind
    BY <1>1 DEF Finished
  <1>2. ASSUME pc[SerialProc] = "checked" PROVE Before /\ Behind
    BY <1>2 DEF StartsInOrder
  <1>3. ASSUME NEW p \in Procs, ProcessStep(p)
        PROVE  log' = log /\ ran' = ran /\ item'[SerialProc] = item[SerialProc] /\ Before /\ Behind
    <2>1. OthersKeep(p) /\ (Begins(p) \/ Ends(p) \/ Takes(p) \/ Idles(p)) /\ log' = log
      BY <1>3, ProcessEffect DEF IInv, OthersKeep
    <2>2. p = SerialProc
      <3>1. CASE pc[SerialProc] = "checked"
        BY <1>3, <3>1, OnlySerialSteps DEF SerialWorker
      <3>2. CASE pc[SerialProc] # "checked"
        BY <1>0, <2>1, <3>2 DEF OthersKeep
      <3> QED
        BY <3>1, <3>2
    <2>3. Idles(p)
      BY <2>1, <2>2 DEF Begins, Ends, Takes
    <2>4. ran' = ran /\ item'[SerialProc] = item[SerialProc]
      BY <2>2, <2>3 DEF Idles
    <2>5. CASE pc[SerialProc] = "got" /\ ~stop
      <3>1. item[SerialProc] = taken /\ InLoop(SerialProc)
        BY <2>5 DEF SerialWorker, HoldsNewest, InLoop
      <3>2. taken \in Nat /\ \A j \in DOMAIN log : j \in Nat /\ j >= 1
        <4>1. log \in Seq(Units \cup {None}) /\ flushed \in 0..Len(log) /\ taken \in 0..flushed
          BY DEF IInv, TypeOK
        <4>2. Len(log) \in Nat /\ DOMAIN log = 1..Len(log)
          BY <4>1
        <4> QED
          BY <4>1, <4>2
      <3>3. Before
        BY <2>5, <3>1, <3>2 DEF SerialBehind
      <3>4. Behind
        BY <3>1 DEF IInv, FreshAhead
      <3> QED
        BY <2>1, <2>4, <3>3, <3>4
    <2> QED
      BY <1>2, <2>1, <2>2, <2>3, <2>4, <2>5 DEF Idles
  <1>4. CASE MainStep
    <2>1. item' = item /\ ran' = ran
      BY <1>4, MainEffect DEF IInv
    <2>2. Quiet
      BY <1>4, MainEffect, PutsBeforeSerial, BatchFacts DEF IInv
    <2> QED
      BY <1>2, <2>1, <2>2 DEF Quiet
  <1> QED
    BY <1>3, <1>4, StepCases

\* Who begins a unit in phase 2 is the serial worker.
LEMMA BeginsInOrder ==
    ASSUME IInv, PhaseInv, NEW p \in Procs, ProcessStep(p), Begins(p)
    PROVE  /\ pc[p] = "checked"
           /\ Held(p) \in Units /\ ran[Held(p)] = "none" /\ item[p] \in DOMAIN log
           /\ SerialQueued => p = SerialProc
  <1>1. item[p] \in DOMAIN log /\ Held(p) \in Units
    BY HeldIndex DEF IInv, Begins, HeldOK
  <1> QED
    BY <1>1, OnlySerialSteps DEF IInv, FreshInHand, Begins

\* SerialOrder is preserved: a serial unit begins when all serial units before
\* it in the queue have been taken and have come to a result.
LEMMA SerialOrderStep ==
    ASSUME IInv, PhaseInv, [Next]_vars PROVE SerialOrder'
  <1> SUFFICES ASSUME NEW i \in DOMAIN SerialBatch, NEW j \in DOMAIN SerialBatch, i < j,
                      Started(SerialBatch[j])'
               PROVE  Finished(SerialBatch[i])'
    BY DEF SerialOrder
  <1>0. SerialBatch[i] \in SerialUnits /\ SerialBatch[j] \in SerialUnits /\ SerialUnits \subseteq Units
    BY BatchFacts
  <1>1. SUFFICES Finished(SerialBatch[i])
    BY <1>0, <1>1, FinishedStays DEF IInv, Finished
  <1>2. CASE Started(SerialBatch[j])
    BY <1>2 DEF PhaseInv, SerialOrder
  <1>3. ASSUME ~Started(SerialBatch[j]), NEW p \in Procs, ProcessStep(p)
        PROVE  Finished(SerialBatch[i])
    <2>1. Begins(p) /\ Held(p) = SerialBatch[j]
      <3>1. Begins(p) \/ Ends(p) \/ Takes(p) \/ Idles(p)
        BY <1>3, ProcessEffect DEF IInv
      <3>2. pc[p] = "running" => ran[Held(p)] = "running"
        BY DEF IInv, RunningHeld, Running
      <3> QED
        BY <1>0, <1>3, <3>1, <3>2 DEF Begins, Ends, Takes, Idles, Started, IInv, TypeOK
    <2>2. /\ item[p] \in DOMAIN log /\ log[item[p]] = SerialBatch[j]
          /\ p = SerialProc /\ pc[p] = "checked"
      BY <1>0, <1>3, <2>1, BeginsInOrder DEF Held, SerialQueued
    <2>3. PICK x \in DOMAIN log : x < item[p] /\ log[x] = SerialBatch[i]
      BY <2>2 DEF PhaseInv, LogOrdered
    <2> QED
      BY <1>0, <2>2, <2>3 DEF PhaseInv, StartsInOrder
  <1>4. CASE MainStep
    BY <1>2, <1>4, MainEffect DEF IInv, Started
  <1> QED
    BY <1>2, <1>3, <1>4, StepCases

\* The elements of a concatenation.
LEMMA ElementsOfBoth ==
    ASSUME NEW S, NEW a \in Seq(S), NEW b \in Seq(S)
    PROVE  ToSet(a \o b) = ToSet(a) \cup ToSet(b)
  <1>1. /\ a \o b \in Seq(S) /\ Len(a \o b) = Len(a) + Len(b)
        /\ Len(a) \in Nat /\ Len(b) \in Nat
        /\ DOMAIN (a \o b) = 1..(Len(a) + Len(b)) /\ DOMAIN a = 1..Len(a) /\ DOMAIN b = 1..Len(b)
        /\ \A i \in 1..(Len(a) + Len(b)) : (a \o b)[i] = IF i <= Len(a) THEN a[i] ELSE b[i - Len(a)]
    OBVIOUS
  <1>2. \A i \in DOMAIN (a \o b) : (a \o b)[i] \in ToSet(a) \cup ToSet(b)
    BY <1>1 DEF ToSet
  <1>3. \A i \in DOMAIN a : a[i] \in ToSet(a \o b)
    BY <1>1 DEF ToSet
  <1>4. ASSUME NEW i \in DOMAIN b PROVE b[i] \in ToSet(a \o b)
    <2>1. i + Len(a) \in DOMAIN (a \o b) /\ (a \o b)[i + Len(a)] = b[i]
      BY <1>1
    <2> QED
      BY <2>1 DEF ToSet
  <1> QED
    BY <1>2, <1>3, <1>4 DEF ToSet

\* What a put adds to the log is offered.
LEMMA PutsOffers ==
    ASSUME TypeOK, NEW batch \in Seq(Units), Puts(batch), dispatched' = dispatched \o batch,
           \A i \in DOMAIN log : log[i] \in Units => log[i] \in ToSet(dispatched)
    PROVE  /\ ToSet(dispatched') = ToSet(dispatched) \cup ToSet(batch)
           /\ \A i \in DOMAIN log' : log'[i] \in Units => log'[i] \in ToSet(dispatched')
  <1>1. ToSet(dispatched') = ToSet(dispatched) \cup ToSet(batch)
    BY ElementsOfBoth DEF TypeOK
  <1>2. None \notin Units
    BY BatchFacts
  <1>3. ASSUME NEW i \in DOMAIN log', log'[i] \in Units PROVE log'[i] \in ToSet(dispatched')
    <2>1. CASE i > Len(log)
      <3>1. i - Len(log) \in DOMAIN batch /\ log'[i] = batch[i - Len(log)]
        BY <1>2, <1>3, <2>1, PutsLog
      <3> QED
        BY <1>1, <3>1 DEF ToSet
    <2>2. CASE ~(i > Len(log))
      BY <1>1, <1>3, <2>2, PutsLog
    <2> QED
      BY <2>1, <2>2
  <1> QED
    BY <1>1, <1>3

\* The launch of a phase puts its batch and starts processes that were not
\* there.
LEMMA LaunchPuts ==
    ASSUME IInv, NEW batch, NEW n \in Nat, NEW ps, Launch(batch, n, ps),
           cpc = "dispatch" \/ (cpc = "serial" /\ ps \subseteq {SerialProc})
    PROVE  Puts(batch) /\ dispatched' = dispatched \o batch
  BY PoolAssumption DEF Launch, Puts, IInv, NoSerialYet, BeforeSerial, SerialProc, Procs

\* The two launches, completed or not, of either phase.
LaunchParallel == DispatchParallel \/ (cpc = "dispatch" /\ SpawnFails)
LaunchSerial == DispatchSerial \/ (cpc = "serial" /\ SpawnFails)
Launched(batch) == Puts(batch) /\ dispatched' = dispatched \o batch

\* The main step's other effects on what is offered, on the verdict and on
\* the phase.
LEMMA LaunchCases ==
    ASSUME IInv, MainStep
    PROVE  \/ LaunchParallel /\ cpc = "dispatch" /\ cpc' \in {"join", "raised"}
              /\ Launched(ParallelBatch) /\ verdict' = verdict
           \/ LaunchSerial /\ cpc = "serial" /\ verdict' = verdict /\ ~stop
              /\ Launched(SerialBatch) /\ (cpc' = "raised" \/ (cpc' = "join" /\ k' = SerialProc))
           \/ CollectReturn
           \/ NothingParallel
           \/ /\ log' = log /\ dispatched' = dispatched /\ verdict' = verdict
              /\ cpc' = "dispatch" => cpc = "dispatch"
              /\ BeforeSerial' => BeforeSerial
  <1>0. N \in Nat /\ N >= 2 /\ 0 \in Nat /\ 1 \in Nat /\ k \in Nat /\ SerialProc = N
    BY PoolAssumption DEF IInv, TypeOK, Procs, SerialProc
  <1>1. CASE LaunchParallel
    <2>1. cpc = "dispatch" /\ cpc' \in {"join", "raised"} /\ verdict' = verdict
          /\ \E ps : Launch(ParallelBatch, N, ps)
      BY <1>1 DEF LaunchParallel, DispatchParallel, SpawnFails
    <2> QED
      BY <1>0, <1>1, <2>1, LaunchPuts DEF Launched
  <1>2. CASE LaunchSerial
    <2>1. /\ cpc = "serial" /\ verdict' = verdict /\ ~stop
          /\ cpc' = "raised" \/ (cpc' = "join" /\ k' = SerialProc)
      BY <1>2 DEF LaunchSerial, DispatchSerial, SpawnFails, MaySerial
    <2>2. Launch(SerialBatch, 1, {SerialProc}) \/ Launch(SerialBatch, 1, {})
      BY <1>2 DEF LaunchSerial, DispatchSerial, SpawnFails
    <2>3. Launched(SerialBatch)
      BY <1>0, <2>1, <2>2, LaunchPuts DEF Launched
    <2> QED
      BY <1>2, <2>1, <2>3, Zenon
  <1>3. CASE JoinDone \/ Terminate \/ DrainEnd
    BY <1>0, <1>3 DEF JoinDone, Terminate, DrainEnd, AfterJoin, BeforeSerial, taskVars
  <1>4. CASE \/ JoinTimeout \/ DrainOne \/ SkipSerial \/ CollectGet \/ KillDaemons
             \/ ExitProcess \/ Interrupt \/ Crash \/ FeedTask \/ UNCHANGED vars
    BY <1>4 DEF JoinTimeout, DrainOne, SkipSerial, CollectGet, KillDaemons, ExitProcess,
       Interrupt, Crash, FeedTask, BeforeSerial, coordVars, taskVars, vars
  <1>5. SpawnFails => LaunchParallel \/ LaunchSerial
    BY DEF SpawnFails, LaunchParallel, LaunchSerial
  <1> QED
    BY <1>1, <1>2, <1>3, <1>4, <1>5 DEF MainStep, CoordStep, LaunchParallel, LaunchSerial

\* Offered is preserved.
LEMMA OfferedStep ==
    ASSUME IInv, Offered, [Next]_vars PROVE Offered'
  <1> USE DEF Offered
  <1>1. ASSUME NEW p \in Procs, ProcessStep(p) PROVE Offered'
    BY <1>1, ProcessEffect DEF IInv, OthersKeep, coordVars, BeforeSerial
  <1>2. stop => stop'
    BY StopStays DEF IInv
  <1>3. CASE LaunchParallel /\ cpc = "dispatch" /\ cpc' \in {"join", "raised"}
             /\ Launched(ParallelBatch) /\ verdict' = verdict
    <2>1. ToSet(dispatched) = {}
      BY <1>3 DEF ToSet
    <2>2. /\ ToSet(dispatched') = ParallelUnits
          /\ \A i \in DOMAIN log' : log'[i] \in Units => log'[i] \in ToSet(dispatched')
      BY <1>3, <2>1, PutsOffers, BatchFacts DEF IInv, Launched, ParallelUnits
    <2> QED
      BY <1>2, <1>3, <2>2
  <1>4. CASE cpc = "serial" /\ verdict' = verdict /\ Launched(SerialBatch)
             /\ (cpc' = "raised" \/ (cpc' = "join" /\ k' = SerialProc))
    <2>1. \A i \in DOMAIN log' : log'[i] \in Units => log'[i] \in ToSet(dispatched')
      BY <1>4, PutsOffers, BatchFacts DEF IInv, Launched
    <2> QED
      BY <1>2, <1>4, <2>1 DEF BeforeSerial
  <1>5. CASE NothingParallel
    <2>1. ToSet(<<>>) = {} /\ ParallelUnits = ToSet(<<>>)
      BY <1>5 DEF ToSet, NothingParallel, ParallelUnits
    <2> QED
      BY <1>5, <2>1 DEF NothingParallel, taskVars
  <1>6. CASE CollectReturn
    BY <1>6 DEF CollectReturn, BeforeSerial
  <1>7. ASSUME log' = log, dispatched' = dispatched, verdict' = verdict,
               cpc' = "dispatch" => cpc = "dispatch", BeforeSerial' => BeforeSerial
        PROVE  Offered'
    BY <1>2, <1>7
  <1> QED
    BY <1>1, <1>3, <1>4, <1>5, <1>6, <1>7, StepCases, LaunchCases

\* The beginning of a run.
LEMMA PhaseInit == Init => PhaseInv
  <1> SUFFICES ASSUME Init PROVE PhaseInv
    OBVIOUS
  <1>1. DOMAIN log = {} /\ taken = 0 /\ SerialProc \in Procs
    BY PoolAssumption DEF Init, SerialProc, Procs
  <1>2. LogOrdered /\ SerialWorker /\ HoldsNewest /\ SerialBehind /\ StartsInOrder
    BY <1>1 DEF Init, LogOrdered, SerialWorker, HoldsNewest, SerialBehind, StartsInOrder, SerialQueued
  <1>3. SerialOrder
    BY BatchFacts DEF Init, SerialOrder, Started
  <1>4. Offered
    BY <1>1 DEF Init, Offered, BeforeSerial
  <1> QED
    BY <1>2, <1>3, <1>4 DEF PhaseInv

\* PhaseInv is an invariant of every run.
LEMMA PhaseInvariance == Spec => []PhaseInv
  <1>1. IInv /\ PhaseInv /\ [Next]_vars => PhaseInv'
    BY LogOrderedStep, SerialWorkerStep, HoldsNewestStep, SerialBehindStep, StartsInOrderStep,
       SerialOrderStep, OfferedStep
    DEF PhaseInv
  <1> QED
    BY <1>1, PhaseInit, Invariance, PTL DEF Spec

\* All of it together: the invariant from which every safety property of the
\* pool follows.
THEOREM PoolInvariance == Spec => []PoolInv
  BY Invariance, QueueInvariance, ResultInvariance, PhaseInvariance, PTL DEF PoolInv

\* The serial units of a run start one after the other in their order, each
\* when the one before it has come to a result.
THEOREM SerialUnitsInOrder == Spec => []SerialOrder
  BY PhaseInvariance, PTL DEF PhaseInv

\* No unit but a serial one begins once a serial one has: what the serial
\* worker holds then lies behind every parallel unit.
LEMMA OnlySerialFollow ==
    ASSUME IInv, PhaseInv, NEW p \in Procs, ProcessStep(p), Begins(p), Held(p) \notin SerialUnits,
           NEW s \in SerialUnits
    PROVE  ran[s] = "none"
  <1> SUFFICES ASSUME ran[s] # "none" PROVE FALSE
    OBVIOUS
  <1>1. PICK i \in DOMAIN log : log[i] = s
    BY BatchFacts DEF IInv, StartedInLog, Started
  <1>2. /\ Held(p) \in ParallelUnits /\ item[p] \in DOMAIN log
        /\ p = SerialProc /\ pc[p] = "checked"
    BY <1>1, BeginsInOrder DEF SerialQueued, Units
  <1>3. item[p] < i
    BY <1>1, <1>2 DEF PhaseInv, LogOrdered, Held
  <1>4. s \in Units /\ i \in DOMAIN log /\ DOMAIN log \subseteq Nat
    <2>1. log \in Seq(Units \cup {None})
      BY DEF IInv, TypeOK
    <2>2. DOMAIN log = 1..Len(log) /\ Len(log) \in Nat
      BY <2>1
    <2> QED
      BY <1>1, <2>2, BatchFacts
  <1> QED
    BY <1>1, <1>2, <1>3, <1>4 DEF PhaseInv, StartsInOrder

\* A unit that starts is begun by the process that holds it.
LEMMA StartIsBegin ==
    ASSUME IInv, [Next]_vars, NEW u \in Units, ran[u] = "none", ran'[u] # "none"
    PROVE  \E p \in Procs : ProcessStep(p) /\ Begins(p) /\ Held(p) = u
  <1>1. \A p \in Procs : pc[p] = "running" => ran[Held(p)] = "running"
    BY DEF IInv, RunningHeld, Running
  <1>2. ASSUME NEW p \in Procs, ProcessStep(p) PROVE Begins(p) /\ Held(p) = u
    <2>1. Begins(p) \/ Ends(p) \/ Takes(p) \/ Idles(p)
      BY <1>2, ProcessEffect DEF IInv
    <2> QED
      BY <1>1, <2>1 DEF Begins, Ends, Takes, Idles, IInv, TypeOK
  <1> QED
    BY <1>2, StepCases, MainEffect DEF IInv

\* The action of ParallelBeforeSerial.
NoneAfterSerial ==
    (\E s \in SerialUnits : Started(s)) =>
        \A u \in ParallelUnits : ran[u] = "none" => ran'[u] = "none"

\* A step keeps the phases apart.
LEMMA NoneAfterStep == IInv /\ PhaseInv /\ [Next]_vars => NoneAfterSerial
  <1> SUFFICES ASSUME IInv, PhaseInv, [Next]_vars, NEW s \in SerialUnits, Started(s),
                      NEW u \in ParallelUnits, ran[u] = "none", ran'[u] # "none"
               PROVE  FALSE
    BY DEF NoneAfterSerial
  <1>1. u \in Units /\ u \notin SerialUnits
    BY PoolAssumption DEF Units
  <1> QED
    BY <1>1, StartIsBegin, OnlySerialFollow DEF Started

\* Whatever a crashed or stopped worker leaves in the queue, no unit of phase 1
\* starts once a unit of phase 2 has.
THEOREM PhasesKeptApart == Spec => ParallelBeforeSerial
  BY NoneAfterStep, Invariance, PhaseInvariance, PTL
  DEF ParallelBeforeSerial, NoneAfterSerial, Spec

-----------------------------------------------------------------------------
(* What the promise speaks of, in the terms of the pool.                     *)

\* The cardinality of the instance is the pool's.
LEMMA SameCardinality == ASSUME NEW S PROVE Promise!Cardinality(S) = Cardinality(S)
  BY DEF Promise!Cardinality, Cardinality

\* The same units, and the same of them run.
LEMMA SameUnits ==
    /\ Promise!AllUnits = Units
    /\ Promise!RunningUnits = {u \in Units : Running(u)}
  BY DEF Promise!RunningUnits, Promise!AllUnits, Units, Running

\* Nothing runs while no process does.
LEMMA NothingRuns ==
    ASSUME IInv, \A p \in Procs : pc[p] # "running" PROVE Promise!RunningUnits = {}
  BY SameUnits DEF IInv, RunningHeld

\* In phase 2 nothing runs when a unit begins: the serial worker begins it.
LEMMA SerialBeginsAlone ==
    ASSUME IInv, PhaseInv, NEW p \in Procs, ProcessStep(p), Begins(p), SerialQueued
    PROVE  Promise!RunningUnits = {}
  <1>1. p = SerialProc /\ pc[p] = "checked"
    BY BeginsInOrder DEF Begins
  <1>2. \A q \in ParallelProcs : ~Alive(q)
    BY DEF IInv, SerialAlone, SerialQueued
  <1>3. \A q \in Procs : q = SerialProc \/ q \in ParallelProcs
    BY PoolAssumption DEF Procs, ParallelProcs, SerialProc
  <1> QED
    BY <1>1, <1>2, <1>3, NothingRuns DEF Alive

\* Whenever a unit begins there is room for it: those that run are run by
\* other processes, one each, and in phase 1 these are N workers.
LEMMA RoomToBegin ==
    ASSUME IInv, PhaseInv, NEW p \in Procs, ProcessStep(p), Begins(p)
    PROVE  Promise!Cardinality(Promise!RunningUnits) < N
  <1>0. N \in Nat /\ N >= 2
    BY PoolAssumption
  <1> DEFINE S == Promise!RunningUnits
  <1>1. CASE SerialQueued
    <2>1. S = {}
      BY <1>1, SerialBeginsAlone
    <2> QED
      BY <1>0, <2>1, SameCardinality, FS_EmptySet
  <1>2. CASE ~SerialQueued
    <2> DEFINE T == ParallelProcs \ {p}
               f == [u \in S |-> CHOOSE q \in Procs : pc[q] = "running" /\ Held(q) = u]
    <2>1. \A q \in Procs : pc[q] # "off" => q \in ParallelProcs
      BY <1>0, <1>2 DEF PhaseInv, SerialWorker, Procs, ParallelProcs, SerialProc
    <2>2. \A u \in S : f[u] \in Procs /\ pc[f[u]] = "running" /\ Held(f[u]) = u
      BY SameUnits DEF IInv, RunningHeld
    <2>3. p \in ParallelProcs /\ pc[p] = "checked"
      BY <2>1 DEF Begins
    <2>4. \A u \in S : f[u] \in T
      BY <2>1, <2>2, <2>3
    <2> HIDE DEF S
    <2>5. f \in Injection(S, T)
      BY <2>2, <2>4 DEF Injection, IsInjective
    <2>6. IsFiniteSet(ParallelProcs) /\ Cardinality(ParallelProcs) = N
      BY <1>0, FS_Interval DEF ParallelProcs
    <2>7. IsFiniteSet(T) /\ Cardinality(T) = N - 1
      BY <2>3, <2>6, FS_RemoveElement
    <2>8. IsFiniteSet(S) /\ Cardinality(S) <= N - 1
      BY <2>5, <2>7, FS_Injection
    <2>9. Cardinality(S) \in Nat
      BY <2>8, FS_CardinalityType
    <2> QED
      BY <1>0, <2>8, <2>9, SameCardinality DEF S
  <1> QED
    BY <1>1, <1>2

-----------------------------------------------------------------------------
(* The steps.                                                               *)

\* A process step maps to Begin, to End or to nothing.
LEMMA ProcessKeepsPromise ==
    ASSUME IInv, PhaseInv, NEW p \in Procs, ProcessStep(p)
    PROVE  Promise!PromiseNext \/ UNCHANGED Promise!promiseVars
  <1>1. OthersKeep(p) /\ (Begins(p) \/ Ends(p) \/ Takes(p) \/ Idles(p))
    BY ProcessEffect DEF IInv
  <1>2. dispatched' = dispatched /\ verdict' = verdict
    BY <1>1 DEF OthersKeep, coordVars
  <1>3. CASE Begins(p)
    <2>1. Held(p) \in Units /\ ran[Held(p)] = "none" /\ item[p] \in DOMAIN log
      BY <1>3, BeginsInOrder
    <2>2. Held(p) \in ToSet(dispatched)
      BY <2>1 DEF PhaseInv, Offered, Held
    <2>3. Held(p) \in SerialUnits => Promise!RunningUnits = {}
      BY <1>3, <2>1, SerialBeginsAlone DEF SerialQueued, Held
    <2>4. Held(p) \notin SerialUnits => \A s \in SerialUnits : ran[s] = "none"
      BY <1>3, OnlySerialFollow
    <2>5. Promise!Begin(Held(p))
      BY <1>2, <1>3, <2>1, <2>2, <2>3, <2>4, RoomToBegin DEF Promise!Begin, Begins
    <2> QED
      BY <2>1, <2>5, SameUnits DEF Promise!PromiseNext
  <1>4. CASE Ends(p)
    <2>1. Held(p) \in Units /\ ran[Held(p)] = "running"
      BY <1>4 DEF Ends, IInv, HeldOK, RunningHeld, Running
    <2>2. Promise!End(Held(p))
      BY <1>2, <1>4, <2>1 DEF Promise!End, Ends
    <2> QED
      BY <2>1, <2>2, SameUnits DEF Promise!PromiseNext
  <1>5. CASE Takes(p) \/ Idles(p)
    BY <1>2, <1>5 DEF Takes, Idles, Promise!promiseVars
  <1> QED
    BY <1>1, <1>3, <1>4, <1>5

\* A main step maps to Offer, to Judge or to nothing.
LEMMA MainKeepsPromise ==
    ASSUME IInv, PhaseInv, MainStep
    PROVE  Promise!PromiseNext \/ UNCHANGED Promise!promiseVars
  <1>1. ran' = ran
    BY MainEffect DEF IInv
  <1>2. cpc \in {"dispatch", "serial", "collect"} => verdict = "none"
    BY DEF IInv, VerdictLast
  <1>3. CASE cpc = "dispatch" /\ Launched(ParallelBatch) /\ verdict' = verdict
    <2>1. dispatched = <<>> /\ ToSet(dispatched) = {}
      BY <1>3 DEF PhaseInv, Offered, ToSet
    <2>2. ToSet(dispatched') = ParallelUnits
      BY <1>3, <2>1, ElementsOfBoth, BatchFacts DEF Launched, ParallelUnits, IInv, TypeOK
    <2> QED
      BY <1>1, <1>2, <1>3, <2>1, <2>2 DEF Promise!PromiseNext, Promise!Offer
  <1>4. CASE cpc = "serial" /\ ~stop /\ Launched(SerialBatch) /\ verdict' = verdict
    <2>1. ToSet(dispatched) = ParallelUnits
      BY <1>4 DEF PhaseInv, Offered, BeforeSerial
    <2>2. ToSet(dispatched') = Units
      BY <1>4, <2>1, ElementsOfBoth, BatchFacts DEF Launched, SerialUnits, Units, IInv, TypeOK
    <2>3. \A q \in Procs : q = SerialProc \/ q \in ParallelProcs
      BY PoolAssumption DEF Procs, ParallelProcs, SerialProc
    <2>4. \A q \in Procs : pc[q] # "running"
      BY <1>4, <2>3 DEF IInv, JoinedGone, NoSerialYet, BeforeSerial, Joined, Alive
    <2>5. Promise!RunningUnits = {}
      BY <2>4, NothingRuns
    <2> QED
      BY <1>1, <1>2, <1>4, <2>1, <2>2, <2>5, SameUnits DEF Promise!PromiseNext, Promise!Offer
  <1>5. CASE CollectReturn
    <2>1. VerdictSound'
      BY <1>5, VerdictSoundStep DEF IInv, Next, CoordStep
    <2>2. verdict' \in {"passed", "failed"} /\ dispatched' = dispatched /\ verdict = "none"
      BY <1>2, <1>5 DEF CollectReturn, Verdict
    <2> QED
      BY <1>1, <2>1, <2>2 DEF VerdictSound, Promise!PromiseNext, Promise!Judge
  <1>6. CASE dispatched' = dispatched /\ verdict' = verdict
    BY <1>1, <1>6 DEF Promise!promiseVars
  <1> QED
    BY <1>3, <1>4, <1>5, <1>6, LaunchCases DEF NothingParallel

\* A run keeps its promise: at most N parallel units at a time, then the
\* serial ones alone, none twice, and a pass only when all of them passed.
THEOREM PromiseKept == Spec => KeepsPromise
  <1>1. Init => Promise!PromiseInit
    BY SameUnits DEF Init, Promise!PromiseInit, ToSet
  <1>2. IInv /\ PhaseInv /\ [Next]_vars => [Promise!PromiseNext]_Promise!promiseVars
    BY StepCases, ProcessKeepsPromise, MainKeepsPromise
  <1> QED
    BY <1>1, <1>2, Invariance, PhaseInvariance, PTL DEF Spec, KeepsPromise, Promise!PromiseSpec
=============================================================================
