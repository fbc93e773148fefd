------------------------------ MODULE PoolProofs ------------------------------
(***************************************************************************)
(* Pool's safety properties for every number of workers, every batch of     *)
(* units, every queue capacity and every set of faults.                     *)
(*                                                                         *)
(* The proof that IInv is inductive goes through the effect of a step: a    *)
(* step of one process begins a unit, ends one, takes an entry of the task  *)
(* queue or does none of these; a step of the coordinator puts a batch or   *)
(* leaves the queue's log and the processes alone.  Each conjunct of IInv   *)
(* is then preserved by a case analysis over these few effects.             *)
(***************************************************************************)
EXTENDS PoolInvariant, TLAPS

-----------------------------------------------------------------------------
(* The effects of a step.                                                   *)

\* A step of the process of worker p, and one of the main process.
ProcessStep(p) == WorkerStep(p) \/ SignalDeath(p) \/ Kill(p)
MainStep == CoordStep \/ SpawnFails \/ Interrupt \/ Crash \/ FeedTask \/ UNCHANGED vars

\* Every step is one of the main process or one of a worker process.
LEMMA StepCases == [Next]_vars => MainStep \/ \E p \in Procs : ProcessStep(p)
  BY DEF Next, ProcessStep, MainStep, Terminated

\* The four effects of a process step, and what none of them touches.
OthersKeep(p) ==
    /\ Alive(p)
    /\ log' = log /\ (stop => stop') /\ UNCHANGED coordVars
    /\ \A q \in Procs \ {p} : pc'[q] = pc[q] /\ item'[q] = item[q]
Begins(p) ==
    /\ pc[p] = "checked" /\ pc'[p] = "running"
    /\ item' = item /\ taken' = taken
    /\ ran' = [ran EXCEPT ![Held(p)] = "running"]
Ends(p) ==
    /\ pc[p] = "running" /\ pc'[p] \notin {"got", "checked", "running"}
    /\ item' = item /\ taken' = taken
    /\ \E o \in {"passed", "failed", "lost"} : ran' = [ran EXCEPT ![Held(p)] = o]
Takes(p) ==
    /\ pc[p] = "poll" /\ pc'[p] = "got"
    /\ taken < Len(log) /\ taken' = taken + 1 /\ item'[p] = taken + 1
    /\ ran' = ran
Idles(p) ==
    /\ taken' = taken /\ ran' = ran
    /\ item'[p] \in {0, item[p]}
    /\ pc[p] = "running" => pc'[p] = "running"
    /\ pc'[p] \in {"got", "checked", "running", "ack", "ackAborted"} =>
          /\ item'[p] = item[p]
          /\ pc'[p] = pc[p] \/ (pc[p] = "got" /\ pc'[p] = "checked" /\ Held(p) # None /\ ~stop)

\* A step of worker p touches no other worker, no entry of the queue and
\* nothing of the coordinator, and has one of the four effects.
LEMMA ProcessEffect ==
    ASSUME TypeOK, NEW p \in Procs, ProcessStep(p)
    PROVE  OthersKeep(p) /\ (Begins(p) \/ Ends(p) \/ Takes(p) \/ Idles(p))
  <1> USE DEF TypeOK, OthersKeep, Alive, coordVars, taskVars, resultVars, workerVars
  <1>1. CASE StartUnit(p)
    BY <1>1 DEF StartUnit, Goto, Begins
  <1>2. CASE FinishUnit(p)
    BY <1>2 DEF FinishUnit, Goto, PutResult, Ends
  <1>11. CASE CheckAgain(p)
    BY <1>11 DEF CheckAgain, Goto, Idles
  <1>3. CASE Take(p)
    BY <1>3 DEF Take, Goto, Takes
  <1>4. CASE Escape(p)
    BY <1>4 DEF Escape, Goto, Ends, Idles
  <1>5. CASE SignalDeath(p) \/ Kill(p)
    BY <1>5 DEF SignalDeath, Kill, Die, Ends, Idles
  <1>6. CASE AckUnit(p) \/ AckAborted(p) \/ TakeSentinel(p) \/ SkipUnit(p)
    BY <1>6 DEF AckUnit, AckAborted, TakeSentinel, SkipUnit, Goto, Done, Idles
  <1>7. CASE SetupOk(p) \/ SetupFails(p) \/ CheckStop(p)
    BY <1>7 DEF SetupOk, SetupFails, CheckStop, Goto, PutResult, Idles
  <1>8. CASE AcquireReader(p) \/ ReaderBusy(p) \/ NothingToTake(p)
    BY <1>8 DEF AcquireReader, ReaderBusy, NothingToTake, Goto, Idles
  <1>9. CASE Teardown(p) \/ ExitWorker(p)
    BY <1>9 DEF Teardown, ExitWorker, Goto, Idles
  <1>10. CASE ResultFeeder(p)
    BY <1>10 DEF ResultFeeder, LockPipe, SendResult, DropResult, Idles
  <1> QED
    BY <1>1, <1>2, <1>3, <1>4, <1>5, <1>6, <1>7, <1>8, <1>9, <1>10, <1>11
    DEF ProcessStep, WorkerStep, LoopStep

\* The two effects of a main step.
Puts(batch) ==
    /\ \E n \in Nat : PutTasks(batch, n)
    /\ \A p \in Procs : pc'[p] = pc[p] \/ (pc[p] = "off" /\ pc'[p] = "setup")
Quiet == log' = log /\ pc' = pc

\* A step of the main process leaves every unit as it is, and puts a batch
\* only before phase 1, or before phase 2 with the stop event clear.
LEMMA MainEffect ==
    ASSUME TypeOK, NoSerialYet, MainStep
    PROVE  /\ ran' = ran /\ item' = item
           /\ taken' \in Nat /\ taken' >= taken
           /\ \/ Quiet
              \/ cpc = "dispatch" /\ taken' = taken /\ Puts(ParallelBatch)
              \/ /\ cpc = "serial" /\ ~stop /\ taken' = taken /\ Puts(SerialBatch)
                 /\ \A q \in ParallelProcs : pc'[q] = pc[q]
  <1> USE DEF TypeOK, coordVars, taskVars, resultVars, workerVars
  <1>0. N \in Nat /\ N >= 2
    BY PoolAssumption
  <1>1. CASE DispatchParallel
    <2>1. Launch(ParallelBatch, N, ParallelProcs)
      BY <1>1 DEF DispatchParallel
    <2>2. \A p \in Procs : pc[p] = "off"
      BY <1>1 DEF DispatchParallel, NoSerialYet
    <2> QED
      BY <2>1, <2>2, <1>1, <1>0 DEF DispatchParallel, Launch, Puts
  <1>2. CASE DispatchSerial
    <2>1. PutTasks(SerialBatch, 1)
      BY <1>2 DEF DispatchSerial, Launch
    <2>2. pc' = [p \in Procs |-> IF p \in {SerialProc} THEN "setup" ELSE pc[p]]
      BY <1>2 DEF DispatchSerial, Launch
    <2>3. \A q \in ParallelProcs : pc'[q] = pc[q]
      BY <2>2, <1>0 DEF ParallelProcs, SerialProc, Procs
    <2>4. pc[SerialProc] = "off"
      BY <1>2 DEF DispatchSerial, NoSerialYet, BeforeSerial
    <2> QED
      BY <2>1, <2>2, <2>3, <2>4, <1>2 DEF DispatchSerial, MaySerial, Puts
  <1>3. CASE SpawnFails
    <2>1. CASE cpc = "dispatch"
      BY <2>1, <1>3, <1>0 DEF SpawnFails, NoSerialYet, Launch, Puts
    <2>2. CASE cpc = "serial" /\ MaySerial /\ Launch(SerialBatch, 1, {})
      <3>1. \A q \in Procs : pc'[q] = pc[q]
        BY <2>2 DEF Launch
      <3>2. ParallelProcs \subseteq Procs
        BY <1>0 DEF ParallelProcs, Procs
      <3> QED
        BY <2>2, <3>1, <3>2, <1>3 DEF SpawnFails, Launch, MaySerial, Puts
    <2> QED
      BY <2>1, <2>2, <1>3 DEF SpawnFails
  <1>4. CASE NothingParallel \/ JoinDone \/ JoinTimeout \/ Terminate \/ DrainOne \/ DrainEnd
    BY <1>4 DEF NothingParallel, JoinDone, JoinTimeout, Terminate, DrainOne, DrainEnd, Quiet
  <1>5. CASE SkipSerial \/ CollectGet \/ CollectReturn \/ KillDaemons \/ ExitProcess
    BY <1>5 DEF SkipSerial, CollectGet, CollectReturn, KillDaemons, ExitProcess, Quiet
  <1>6. CASE Interrupt \/ Crash \/ FeedTask \/ UNCHANGED vars
    BY <1>6 DEF Interrupt, Crash, FeedTask, Quiet, vars
  <1> QED
    BY <1>1, <1>2, <1>3, <1>4, <1>5, <1>6 DEF MainStep, CoordStep

-----------------------------------------------------------------------------
(* The task queue and the entries in hand.                                  *)

\* What PoolAssumption says of the two batches, without its definitions.
LEMMA BatchFacts ==
    /\ ParallelBatch \in Seq(Units) /\ SerialBatch \in Seq(Units)
    /\ \A i \in DOMAIN SerialBatch : SerialBatch[i] \in SerialUnits
    /\ \A i \in DOMAIN ParallelBatch : ParallelBatch[i] \in Units /\ ParallelBatch[i] \notin SerialUnits
    /\ \A i, j \in DOMAIN ParallelBatch : ParallelBatch[i] = ParallelBatch[j] => i = j
    /\ \A i, j \in DOMAIN SerialBatch : SerialBatch[i] = SerialBatch[j] => i = j
    /\ SerialUnits \subseteq Units /\ None \notin Units
  BY PoolAssumption DEF IsInjective, Units, SerialUnits, ParallelUnits, ToSet

\* A put extends the log: old entries stay, new ones are the batch or
\* sentinels.
LEMMA PutsLog ==
    ASSUME TypeOK, NEW batch \in Seq(Units), Puts(batch)
    PROVE  /\ log' \in Seq(Units \cup {None})
           /\ DOMAIN log = 1..Len(log) /\ DOMAIN log' = 1..Len(log')
           /\ Len(log) \in Nat /\ Len(log') \in Nat /\ Len(log') >= Len(log)
           /\ \A i \in DOMAIN log : i \in DOMAIN log' /\ log'[i] = log[i]
           /\ \A i \in DOMAIN log' : i > Len(log) =>
                 log'[i] = None \/ (i - Len(log) \in DOMAIN batch /\ log'[i] = batch[i - Len(log)])
  <1>1. PICK n \in Nat : log' = log \o batch \o [i \in 1..n |-> None]
    BY DEF Puts, PutTasks
  <1> DEFINE s == [i \in 1..n |-> None]
  <1>2. s \in Seq(Units \cup {None}) /\ Len(s) = n /\ \A i \in 1..n : s[i] = None
    OBVIOUS
  <1>3. log \in Seq(Units \cup {None}) /\ batch \in Seq(Units \cup {None})
    BY DEF TypeOK
  <1>4. log' = log \o batch \o s
    BY <1>1
  <1> HIDE DEF s
  <1> QED
    BY <1>2, <1>3, <1>4

\* No step changes an entry of the log.
LEMMA LogGrows ==
    ASSUME TypeOK, NoSerialYet, [Next]_vars
    PROVE  \A i \in DOMAIN log : i \in DOMAIN log' /\ log'[i] = log[i]
  BY StepCases, MainEffect, ProcessEffect, PutsLog, BatchFacts DEF Quiet, OthersKeep

\* A worker that keeps its index keeps its entry.
LEMMA HeldKept ==
    ASSUME TypeOK, NoSerialYet, [Next]_vars, NEW p \in Procs, item[p] # 0, item'[p] = item[p]
    PROVE  Held(p)' = Held(p)
  <1>1. item[p] \in 0..taken /\ taken \in 0..flushed /\ flushed \in 0..Len(log)
    BY DEF TypeOK
  <1>2. log \in Seq(Units \cup {None}) /\ Len(log) \in Nat /\ DOMAIN log = 1..Len(log)
    BY DEF TypeOK
  <1>3. item[p] \in DOMAIN log
    BY <1>1, <1>2
  <1> QED
    BY <1>3, LogGrows DEF Held

\* The index of an entry in hand is one that was taken.
LEMMA HeldIndex ==
    ASSUME TypeOK, HeldOK, NEW p \in Procs, pc[p] \in {"got", "checked", "running", "ack", "ackAborted"}
    PROVE  item[p] # 0 /\ item[p] \in 1..taken /\ item[p] \in DOMAIN log
  <1>1. item[p] # 0
    BY DEF HeldOK
  <1>2. /\ item[p] \in 0..taken /\ taken \in 0..flushed /\ flushed \in 0..Len(log)
        /\ Len(log) \in Nat /\ DOMAIN log = 1..Len(log)
    BY DEF TypeOK
  <1> QED
    BY <1>1, <1>2

\* HeldOK is preserved: only CheckAgain lets a worker past the sentinel test.
LEMMA HeldStep ==
    ASSUME TypeOK, HeldOK, NoSerialYet, [Next]_vars PROVE HeldOK'
  <1> USE DEF HeldOK
  <1>1. ASSUME NEW p \in Procs, ProcessStep(p) PROVE HeldOK'
    <2>1. SUFFICES ASSUME NEW q \in Procs
          PROVE /\ pc'[q] \in {"got", "checked", "running", "ack", "ackAborted"} => item'[q] # 0
                /\ pc'[q] \in {"checked", "running", "ack", "ackAborted"} => Held(q)' \in Units
      OBVIOUS
    <2>2. log' = log
      BY <1>1, ProcessEffect DEF OthersKeep
    <2>3. CASE q # p
      BY <2>2, <2>3, <1>1, ProcessEffect DEF OthersKeep, Held
    <2>4. CASE q = p
      <3>1. CASE Begins(p)
        BY <3>1, <2>2, <2>4 DEF Begins, TypeOK, Held
      <3>2. CASE Ends(p) \/ Takes(p) \/ Idles(p)
        BY <3>2, <2>2, <2>4 DEF Ends, Takes, Idles, TypeOK, Held
      <3> QED
        BY <3>1, <3>2, <1>1, ProcessEffect
    <2> QED
      BY <2>3, <2>4
  <1>2. CASE MainStep
    BY <1>2, MainEffect, HeldKept DEF Quiet, Puts
  <1> QED
    BY <1>1, <1>2, StepCases

\* ItemsDistinct is preserved: an entry is taken once, by one worker.
LEMMA ItemsStep ==
    ASSUME TypeOK, ItemsDistinct, NoSerialYet, [Next]_vars PROVE ItemsDistinct'
  <1>1. ASSUME NEW p \in Procs, ProcessStep(p) PROVE ItemsDistinct'
    <2>1. \A q \in Procs \ {p} : item'[q] = item[q]
      BY <1>1, ProcessEffect DEF OthersKeep
    <2>2. CASE item'[p] \in {0, item[p]}
      BY <2>1, <2>2 DEF ItemsDistinct
    <2>3. CASE Takes(p)
      <3>1. item'[p] = taken + 1 /\ taken \in Nat /\ \A q \in Procs : item[q] \in 0..taken
        BY <2>3 DEF Takes, TypeOK
      <3>2. \A q \in Procs \ {p} : item'[q] # item'[p] /\ item'[p] # 0
        BY <2>1, <3>1
      <3> QED
        BY <2>1, <3>2 DEF ItemsDistinct
    <2> QED
      BY <1>1, <2>2, <2>3, ProcessEffect DEF Begins, Ends, Idles
  <1>2. CASE MainStep
    BY <1>2, MainEffect DEF ItemsDistinct
  <1> QED
    BY <1>1, <1>2, StepCases

\* LogInjective is preserved: the two batches share no unit.
LEMMA LogStep ==
    ASSUME TypeOK, NoSerialYet, LogInjective, [Next]_vars PROVE LogInjective'
  <1>1. CASE log' = log
    BY <1>1 DEF LogInjective
  <1>2. CASE cpc = "dispatch" /\ Puts(ParallelBatch)
    <2>1. log = <<>>
      BY <1>2 DEF NoSerialYet
    <2>2. \A i \in DOMAIN log' : log'[i] # None =>
            i \in DOMAIN ParallelBatch /\ log'[i] = ParallelBatch[i]
      <3>1. Len(log) = 0
        BY <2>1
      <3> QED
        BY <1>2, <3>1, PutsLog, BatchFacts
    <2> QED
      BY <2>2, BatchFacts DEF LogInjective
  <1>3. CASE cpc = "serial" /\ Puts(SerialBatch)
    <2>1. \A i \in DOMAIN log : log[i] \notin SerialUnits
      BY <1>3 DEF NoSerialYet, BeforeSerial
    <2>2. \A i \in DOMAIN log' : log'[i] # None =>
            \/ i \in DOMAIN log /\ log'[i] = log[i] /\ log'[i] \notin SerialUnits
            \/ /\ i > Len(log) /\ i - Len(log) \in DOMAIN SerialBatch
               /\ log'[i] = SerialBatch[i - Len(log)] /\ log'[i] \in SerialUnits
      BY <1>3, <2>1, PutsLog, BatchFacts, SMTT(20) DEF TypeOK
    <2>3. \A i \in DOMAIN log' : i \in Nat
      BY <1>3, PutsLog, BatchFacts
    <2>4. Len(log) \in Nat
      BY DEF TypeOK
    <2> QED
      BY <2>2, <2>3, <2>4, BatchFacts DEF LogInjective
  <1> QED
    BY <1>1, <1>2, <1>3, StepCases, MainEffect, ProcessEffect DEF Quiet, OthersKeep

\* FreshAhead is preserved: a unit that begins or ends was taken before.
LEMMA FreshAheadStep ==
    ASSUME TypeOK, HeldOK, NoSerialYet, LogInjective, StartedInLog, FreshAhead, [Next]_vars
    PROVE  FreshAhead'
  <1>1. ASSUME NEW p \in Procs, ProcessStep(p) PROVE FreshAhead'
    <2>0. log' = log
      BY <1>1, ProcessEffect DEF OthersKeep
    <2>1. CASE Begins(p) \/ Ends(p)
      <3>1. pc[p] \in {"got", "checked", "running"} /\ taken' = taken
        BY <2>1 DEF Begins, Ends
      <3>2. item[p] \in 1..taken /\ item[p] \in DOMAIN log
        BY <3>1 DEF HeldOK, TypeOK
      <3>3. \A u \in Units \ {Held(p)} : ran'[u] = ran[u]
        BY <2>1 DEF Begins, Ends, TypeOK
      <3>4. Held(p) = log[item[p]] /\ taken \in Nat
        BY DEF Held, TypeOK
      <3>5. ASSUME NEW i \in DOMAIN log, i > taken, log[i] \in Units
            PROVE  log[i] # Held(p)
        BY <3>2, <3>4, <3>5, BatchFacts DEF LogInjective
      <3> QED
        BY <2>0, <3>1, <3>3, <3>5 DEF FreshAhead
    <2>2. CASE Takes(p) \/ Idles(p)
      BY <2>0, <2>2 DEF Takes, Idles, FreshAhead, TypeOK
    <2> QED
      BY <1>1, <2>1, <2>2, ProcessEffect
  <1>2. CASE MainStep
    <2>1. ran' = ran /\ taken' \in Nat /\ taken' >= taken
      BY <1>2, MainEffect
    <2>2. CASE Quiet
      BY <2>1, <2>2 DEF Quiet, FreshAhead, TypeOK
    <2>3. CASE cpc = "dispatch" /\ taken' = taken /\ Puts(ParallelBatch)
      <3>1. \A u \in Units : ran[u] = "none"
        BY <2>3 DEF NoSerialYet, StartedInLog, Started
      <3> QED
        BY <2>1, <3>1 DEF FreshAhead
    <2>4. CASE cpc = "serial" /\ taken' = taken /\ Puts(SerialBatch)
      <3>1. \A u \in SerialUnits : ran[u] = "none"
        BY <2>4, BatchFacts DEF NoSerialYet, BeforeSerial, StartedInLog, Started
      <3> QED
        <4> SUFFICES ASSUME NEW i \in DOMAIN log', i > taken', log'[i] \in Units
                     PROVE  ran[log'[i]] = "none"
          BY <2>1 DEF FreshAhead
        <4>1. CASE i \in DOMAIN log
          BY <4>1, <2>4, PutsLog, BatchFacts DEF FreshAhead
        <4>2. CASE i \notin DOMAIN log
          BY <4>2, <2>4, <3>1, PutsLog, BatchFacts
        <4> QED
          BY <4>1, <4>2
    <2> QED
      BY <1>2, <2>2, <2>3, <2>4, MainEffect
  <1> QED
    BY <1>1, <1>2, StepCases

\* FreshInHand is preserved: two workers never hold the same unit.
LEMMA FreshInHandStep ==
    ASSUME TypeOK, HeldOK, NoSerialYet, ItemsDistinct, LogInjective, FreshAhead, FreshInHand, [Next]_vars
    PROVE  FreshInHand'
  <1>1. ASSUME NEW p \in Procs, ProcessStep(p) PROVE FreshInHand'
    <2> SUFFICES ASSUME NEW q \in Procs, pc'[q] \in {"got", "checked"}, Held(q)' \in Units
                 PROVE  ran'[Held(q)'] = "none"
      BY DEF FreshInHand
    <2>1. log' = log /\ \A r \in Procs \ {p} : pc'[r] = pc[r] /\ item'[r] = item[r]
      BY <1>1, ProcessEffect DEF OthersKeep
    <2>2. CASE Takes(p) /\ q = p
      <3>1. taken + 1 \in DOMAIN log /\ taken + 1 > taken /\ Held(q)' = log[taken + 1]
        BY <2>1, <2>2 DEF Takes, Held, TypeOK
      <3> QED
        BY <2>2, <3>1 DEF Takes, FreshAhead
    <2>3. CASE Idles(p) /\ q = p
      BY <2>1, <2>3 DEF Idles, Held, FreshInHand
    <2>4. CASE q # p
      <3>1. pc[q] \in {"got", "checked"} /\ item'[q] = item[q] /\ Held(q)' = Held(q)
        BY <2>1, <2>4 DEF Held
      <3>2. item[q] \in DOMAIN log /\ item[q] # 0
        BY <3>1, HeldIndex
      <3>3. CASE Begins(p) \/ Ends(p)
        <4>1. item[p] \in DOMAIN log /\ item[p] # item[q]
          BY <2>4, <3>2, <3>3, HeldIndex DEF Begins, Ends, ItemsDistinct
        <4>2. Held(p) # Held(q)
          BY <3>1, <3>2, <4>1, BatchFacts DEF LogInjective, Held
        <4> QED
          BY <3>1, <3>3, <4>2 DEF Begins, Ends, FreshInHand, TypeOK
      <3>4. CASE Takes(p) \/ Idles(p)
        BY <3>1, <3>4 DEF Takes, Idles, FreshInHand
      <3> QED
        BY <1>1, <3>3, <3>4, ProcessEffect
    <2> QED
      BY <1>1, <2>2, <2>3, <2>4, ProcessEffect DEF Begins, Ends
  <1>2. CASE MainStep
    <2> SUFFICES ASSUME NEW q \in Procs, pc'[q] \in {"got", "checked"}, Held(q)' \in Units
                 PROVE  ran'[Held(q)'] = "none"
      BY DEF FreshInHand
    <2>1. ran' = ran /\ item' = item /\ pc[q] \in {"got", "checked"}
      BY <1>2, MainEffect DEF Quiet, Puts
    <2>2. Held(q)' = Held(q)
      BY <2>1, HeldKept DEF HeldOK
    <2> QED
      BY <2>1, <2>2 DEF FreshInHand
  <1> QED
    BY <1>1, <1>2, StepCases

\* StartedInLog is preserved: a unit that begins is in someone's hand.
LEMMA StartedStep ==
    ASSUME TypeOK, HeldOK, NoSerialYet, StartedInLog, [Next]_vars PROVE StartedInLog'
  <1> SUFFICES ASSUME NEW u \in Units, ran'[u] # "none"
               PROVE  \E i \in DOMAIN log' : log'[i] = u
    BY DEF StartedInLog, Started
  <1>1. CASE ran[u] # "none"
    BY <1>1, LogGrows DEF StartedInLog, Started
  <1>2. ASSUME NEW p \in Procs, ProcessStep(p), ran[u] = "none"
        PROVE  \E i \in DOMAIN log' : log'[i] = u
    <2>1. Begins(p) \/ Ends(p)
      BY <1>2, ProcessEffect DEF Takes, Idles
    <2>2. u = Held(p)
      BY <1>2, <2>1 DEF Begins, Ends, TypeOK
    <2>3. item[p] \in DOMAIN log
      BY <2>1 DEF Begins, Ends, HeldOK, TypeOK
    <2> QED
      BY <2>2, <2>3, LogGrows DEF Held
  <1> QED
    BY <1>1, <1>2, StepCases, MainEffect

\* RunningHeld is preserved: a unit runs as long as its worker runs it.
LEMMA RunningStep ==
    ASSUME TypeOK, HeldOK, NoSerialYet, ItemsDistinct, LogInjective, RunningHeld, [Next]_vars
    PROVE  RunningHeld'
  <1>1. ASSUME NEW p \in Procs, ProcessStep(p) PROVE RunningHeld'
    <2>1. log' = log /\ \A r \in Procs \ {p} : pc'[r] = pc[r] /\ item'[r] = item[r]
      BY <1>1, ProcessEffect DEF OthersKeep
    <2>2. \A r \in Procs : pc[r] \in {"got", "checked", "running"} => item[r] \in DOMAIN log /\ item[r] # 0
      BY SMTT(20) DEF HeldOK, TypeOK
    <2>3. \A q, r \in Procs : q # r /\ pc[q] \in {"got", "checked", "running"} /\ pc[r] = "running" => Held(q) # Held(r)
      BY <2>2, BatchFacts DEF ItemsDistinct, LogInjective, HeldOK, Held
    <2>4. \A r \in Procs \ {p} : Held(r)' = Held(r)
      BY <2>1 DEF Held
    <2>5. CASE Begins(p)
      <3>1. Held(p) \in Units /\ Held(p)' = Held(p)
        BY <2>1, <2>5 DEF Begins, Held, HeldOK
      <3>2. \A u \in Units : ran'[u] = IF u = Held(p) THEN "running" ELSE ran[u]
        BY <2>5 DEF Begins, TypeOK
      <3>3. \A r \in Procs : pc[r] = "running" => pc'[r] = "running" /\ Held(r)' = Held(r)
        BY <2>1, <2>4, <2>5 DEF Begins
      <3>4. \A r \in Procs : pc'[r] = "running" => r = p \/ pc[r] = "running"
        BY <2>1
      <3>5. pc'[p] = "running" /\ pc[p] = "checked"
        BY <2>5 DEF Begins
      <3> QED
        BY <2>3, <2>4, <3>1, <3>2, <3>3, <3>4, <3>5 DEF RunningHeld, Running, HeldOK
    <2>6. CASE Ends(p)
      <3>1. Held(p) \in Units /\ pc[p] = "running" /\ pc'[p] # "running"
        BY <2>6 DEF Ends, HeldOK
      <3>2. \A u \in Units \ {Held(p)} : ran'[u] = ran[u]
        BY <2>6 DEF Ends, TypeOK
      <3>3. ran'[Held(p)] # "running"
        BY <2>6, <3>1 DEF Ends, TypeOK
      <3>4. \A r \in Procs \ {p} : pc[r] = "running" => Held(r) # Held(p) /\ Held(r) \in Units
        BY <2>3, <3>1 DEF HeldOK
      <3>5. ASSUME NEW r \in Procs, pc'[r] = "running" PROVE Running(Held(r))'
        BY <2>1, <2>4, <3>1, <3>2, <3>4, <3>5 DEF RunningHeld, Running
      <3>6. ASSUME NEW u \in Units, Running(u)'
            PROVE  \E r \in Procs : pc'[r] = "running" /\ Held(r)' = u
        BY <2>1, <2>4, <3>2, <3>3, <3>6 DEF RunningHeld, Running
      <3> QED
        BY <3>5, <3>6 DEF RunningHeld
    <2>7. CASE Takes(p) \/ Idles(p)
      <3>1. ran' = ran /\ (pc[p] = "running" <=> pc'[p] = "running")
        BY <2>7 DEF Takes, Idles
      <3>2. pc[p] = "running" => Held(p)' = Held(p)
        BY <2>1, <2>7, <3>1 DEF Takes, Idles, Held
      <3> QED
        BY <2>1, <2>4, <3>1, <3>2 DEF RunningHeld, Running
    <2> QED
      BY <1>1, <2>5, <2>6, <2>7, ProcessEffect
  <1>2. CASE MainStep
    <2>1. ran' = ran /\ \A r \in Procs : pc[r] = "running" <=> pc'[r] = "running"
      BY <1>2, MainEffect DEF Quiet, Puts
    <2> QED
      BY <1>2, <2>1, HeldKept, MainEffect DEF RunningHeld, Running, HeldOK
  <1> QED
    BY <1>1, <1>2, StepCases

-----------------------------------------------------------------------------
(* The two phases.                                                          *)

\* NoSerialYet is preserved: the serial batch is put by leaving phase 1.
LEMMA NoSerialStep ==
    ASSUME TypeOK, NoSerialYet, [Next]_vars PROVE NoSerialYet'
  <1>0. N \in Nat /\ N >= 2
    BY PoolAssumption
  <1>1. ASSUME NEW p \in Procs, ProcessStep(p) PROVE NoSerialYet'
    <2>1. log' = log /\ cpc' = cpc /\ k' = k
      BY <1>1, ProcessEffect DEF OthersKeep, coordVars
    <2>2. \A q \in Procs : pc[q] = "off" => pc'[q] = "off"
      BY <1>1, ProcessEffect DEF OthersKeep, Alive
    <2>3. SerialProc \in Procs
      BY <1>0 DEF SerialProc, Procs
    <2> QED
      BY <2>1, <2>2, <2>3 DEF NoSerialYet, BeforeSerial
  <1>2. CASE MainStep
    <2>1. CASE DispatchParallel
      <3>1. cpc = "dispatch" /\ log = <<>> /\ cpc' = "join" /\ k' = 0
        BY <2>1 DEF DispatchParallel, NoSerialYet
      <3>2. PutTasks(ParallelBatch, N) /\ pc[SerialProc] = "off"
        BY <2>1, <1>0 DEF DispatchParallel, Launch, NoSerialYet, SerialProc, Procs
      <3>3. Puts(ParallelBatch)
        BY <1>2, <3>1, MainEffect, <2>1, <3>2, <1>0 DEF DispatchParallel, Launch, Puts, NoSerialYet
      <3>4. \A i \in DOMAIN log' : log'[i] \notin SerialUnits
        <4>1. Len(log) = 0
          BY <3>1
        <4> QED
          BY <3>3, <4>1, PutsLog, BatchFacts
      <3>5. pc' = [p \in Procs |-> IF p \in ParallelProcs THEN "setup" ELSE pc[p]]
        BY <2>1 DEF DispatchParallel, Launch
      <3>6. pc'[SerialProc] = "off"
        BY <3>2, <3>5, <1>0 DEF SerialProc, ParallelProcs, Procs
      <3> QED
        BY <3>1, <3>4, <3>6 DEF NoSerialYet, BeforeSerial
    <2>2. CASE \/ DispatchSerial \/ SkipSerial \/ CollectReturn \/ SpawnFails \/ Interrupt
               \/ KillDaemons \/ ExitProcess \/ Crash
      BY <2>2 DEF DispatchSerial, SkipSerial, CollectReturn, SpawnFails, Interrupt,
                  KillDaemons, ExitProcess, Crash, NoSerialYet, BeforeSerial
    <2>3. CASE NothingParallel \/ JoinDone \/ JoinTimeout \/ Terminate
      BY <2>3, <1>0 DEF NothingParallel, JoinDone, JoinTimeout, Terminate, AfterJoin,
                  NoSerialYet, BeforeSerial, SerialProc, Procs, taskVars, workerVars
    <2>4. CASE DrainOne \/ DrainEnd \/ CollectGet \/ FeedTask \/ UNCHANGED vars
      BY <2>4 DEF DrainOne, DrainEnd, CollectGet, FeedTask, NoSerialYet, BeforeSerial,
                  SerialProc, coordVars, taskVars, workerVars, vars
    <2> QED
      BY <1>2, <2>1, <2>2, <2>3, <2>4 DEF MainStep, CoordStep
  <1> QED
    BY <1>1, <1>2, StepCases

\* JoinedGone is preserved: a join ends with the worker dead or with stop set.
LEMMA JoinedStep ==
    ASSUME TypeOK, NoSerialYet, JoinedGone, [Next]_vars PROVE JoinedGone'
  <1>0. N \in Nat /\ N >= 2 /\ ParallelProcs \subseteq Procs
    BY PoolAssumption DEF ParallelProcs, Procs
  <1>1. ASSUME NEW p \in Procs, ProcessStep(p) PROVE JoinedGone'
    <2>1. cpc' = cpc /\ k' = k /\ (stop => stop')
      BY <1>1, ProcessEffect DEF OthersKeep, coordVars
    <2>2. \A q \in Procs : ~Alive(q) => ~Alive(q)'
      BY <1>1, ProcessEffect DEF OthersKeep, Alive
    <2> QED
      BY <1>0, <2>1, <2>2 DEF JoinedGone, BeforeSerial, Joined
  <1>2. CASE MainStep
    <2>1. CASE NothingParallel
      BY <2>1, <1>0 DEF NothingParallel, NoSerialYet, JoinedGone, BeforeSerial, Joined, Alive, workerVars
    <2>2. CASE DispatchParallel
      BY <2>2, <1>0 DEF DispatchParallel, JoinedGone, BeforeSerial, Joined, ParallelProcs
    <2>3. CASE JoinDone \/ Terminate
      <3>1. pc' = pc /\ stop' = stop /\ k \in 0..N /\ AfterJoin
        BY <2>3 DEF JoinDone, Terminate, TypeOK, Procs, taskVars, workerVars
      <3>2. BeforeSerial' => BeforeSerial /\ k < N
        BY <2>3, <3>1, <1>0 DEF JoinDone, Terminate, AfterJoin, BeforeSerial, SerialProc
      <3>3. ASSUME ~stop, BeforeSerial', NEW q \in ParallelProcs, Joined(q)'
            PROVE  q = k \/ q < k
        BY <3>1, <3>2, <3>3, <1>0 DEF AfterJoin, Joined, ParallelProcs
      <3>4. ~stop => cpc = "join" /\ ~Alive(k)
        BY <2>3 DEF JoinDone, Terminate, JoinedGone
      <3>5. cpc' # "terminate"
        BY <3>1 DEF AfterJoin
      <3> QED
        BY <3>1, <3>2, <3>3, <3>4, <3>5 DEF JoinedGone, Joined, Alive
    <2>4. CASE JoinTimeout \/ DrainOne \/ DrainEnd \/ CollectGet \/ FeedTask \/ UNCHANGED vars
      BY <2>4 DEF JoinTimeout, DrainOne, DrainEnd, CollectGet, FeedTask, JoinedGone, BeforeSerial,
                  Joined, Alive, SerialProc, coordVars, taskVars, workerVars, vars
    <2>5. CASE \/ DispatchSerial \/ SkipSerial \/ CollectReturn \/ SpawnFails \/ Interrupt
               \/ KillDaemons \/ ExitProcess \/ Crash
      BY <2>5 DEF DispatchSerial, SkipSerial, CollectReturn, SpawnFails, Interrupt,
                  KillDaemons, ExitProcess, Crash, JoinedGone, BeforeSerial
    <2> QED
      BY <1>2, <2>1, <2>2, <2>3, <2>4, <2>5 DEF MainStep, CoordStep
  <1> QED
    BY <1>1, <1>2, StepCases

\* SerialAlone is preserved: phase 2 begins only with every worker joined.
LEMMA SerialAloneStep ==
    ASSUME TypeOK, NoSerialYet, JoinedGone, SerialAlone, [Next]_vars PROVE SerialAlone'
  <1>0. ParallelProcs \subseteq Procs
    BY PoolAssumption DEF ParallelProcs, Procs
  <1>1. ASSUME NEW p \in Procs, ProcessStep(p) PROVE SerialAlone'
    BY <1>0, <1>1, ProcessEffect DEF OthersKeep, SerialAlone, Alive
  <1>2. CASE MainStep
    <2>1. CASE Quiet
      BY <2>1 DEF Quiet, SerialAlone, Alive
    <2>2. CASE cpc = "dispatch" /\ Puts(ParallelBatch)
      <3>1. Len(log) = 0
        BY <2>2 DEF NoSerialYet
      <3> QED
        BY <2>2, <3>1, PutsLog, BatchFacts DEF SerialAlone
    <2>3. CASE cpc = "serial" /\ ~stop /\ \A q \in ParallelProcs : pc'[q] = pc[q]
      BY <2>3 DEF JoinedGone, BeforeSerial, Joined, SerialAlone, Alive
    <2> QED
      BY <1>2, <2>1, <2>2, <2>3, MainEffect
  <1> QED
    BY <1>1, <1>2, StepCases

-----------------------------------------------------------------------------
(* Results and verdict.                                                     *)

\* VerdictLast is preserved: only CollectReturn gives a verdict.
LEMMA VerdictLastStep ==
    ASSUME VerdictLast, [Next]_vars, TypeOK, NoSerialYet PROVE VerdictLast'
  <1>1. ASSUME NEW p \in Procs, ProcessStep(p) PROVE VerdictLast'
    BY <1>1, ProcessEffect DEF OthersKeep, coordVars, VerdictLast
  <1>2. CASE CoordStep
    BY <1>2 DEF CoordStep, DispatchParallel, NothingParallel, JoinDone, JoinTimeout, Terminate,
                DrainOne, DrainEnd, DispatchSerial, SkipSerial, CollectGet, CollectReturn,
                KillDaemons, ExitProcess, VerdictLast, coordVars
  <1>3. CASE SpawnFails \/ Interrupt \/ Crash \/ FeedTask \/ UNCHANGED vars
    BY <1>3 DEF SpawnFails, Interrupt, Crash, FeedTask, VerdictLast, coordVars, vars
  <1> QED
    BY <1>1, <1>2, <1>3, StepCases DEF MainStep

\* A unit that came to a result never leaves it.
LEMMA FinishedStays ==
    ASSUME TypeOK, HeldOK, NoSerialYet, FreshInHand, RunningHeld, [Next]_vars,
           NEW u \in Units, Finished(u)
    PROVE  ran'[u] = ran[u]
  <1>1. ASSUME NEW p \in Procs, ProcessStep(p) PROVE ran'[u] = ran[u]
    <2>1. CASE Begins(p)
      <3>1. Held(p) \in Units
        BY <2>1 DEF Begins, HeldOK
      <3> QED
        BY <2>1, <3>1 DEF Begins, FreshInHand, Finished, TypeOK
    <2>2. CASE Ends(p)
      BY <2>2 DEF Ends, RunningHeld, Running, Finished, TypeOK
    <2> QED
      BY <1>1, <2>1, <2>2, ProcessEffect DEF Takes, Idles
  <1> QED
    BY <1>1, StepCases, MainEffect

\* VerdictSound is preserved: a verdict is computed from true results, one of
\* every dispatched unit, and a unit that passed stays passed.
LEMMA VerdictSoundStep ==
    ASSUME TypeOK, HeldOK, NoSerialYet, FreshInHand, RunningHeld, AllTrue, VerdictLast,
           VerdictSound, [Next]_vars
    PROVE  VerdictSound'
  <1>1. CASE CollectReturn
    <2> SUFFICES ASSUME verdict' = "passed", NEW u \in ToSet(dispatched)
                 PROVE  ran[u] = "passed"
      BY <1>1 DEF CollectReturn, VerdictSound, workerVars
    <2>1. ~AnyFailed /\ Missing = {}
      BY <1>1 DEF CollectReturn, Verdict
    <2>2. PICK i \in DOMAIN results : results[i].unit = u
      BY <2>1 DEF Missing
    <2>3. ~results[i].failed /\ TrueResult(results[i])
      BY <2>1 DEF AnyFailed, AllTrue
    <2>4. u \in Units
      BY DEF TypeOK, ToSet
    <2> QED
      BY <2>2, <2>3, <2>4 DEF TrueResult
  <1>2. CASE verdict' = verdict /\ (verdict # "none" => dispatched' = dispatched)
    <2> SUFFICES ASSUME verdict = "passed", NEW u \in ToSet(dispatched)
                 PROVE  ran'[u] = "passed"
      BY <1>2 DEF VerdictSound
    <2>1. u \in Units /\ ran[u] = "passed"
      BY DEF VerdictSound, TypeOK, ToSet
    <2> QED
      BY <2>1, FinishedStays DEF Finished
  <1>3. ASSUME NEW p \in Procs, ProcessStep(p) PROVE UNCHANGED coordVars
    BY <1>3, ProcessEffect DEF OthersKeep
  <1>4. ASSUME MainStep, ~CollectReturn
        PROVE  verdict' = verdict /\ (verdict # "none" => dispatched' = dispatched)
    BY <1>4 DEF MainStep, CoordStep, DispatchParallel, NothingParallel, JoinDone, JoinTimeout,
                Terminate, DrainOne, DrainEnd, DispatchSerial, SkipSerial, CollectGet,
                KillDaemons, ExitProcess, SpawnFails, Interrupt, Crash, FeedTask, VerdictLast,
                coordVars, vars
  <1> QED
    BY <1>1, <1>2, <1>3, <1>4, StepCases DEF coordVars

\* AllTrue is preserved: a result is put when its unit ends, and travels
\* unchanged.
LEMMA AllTrueStep ==
    ASSUME TypeOK, HeldOK, NoSerialYet, FreshInHand, RunningHeld, AllTrue, [Next]_vars
    PROVE  AllTrue'
  <1> DEFINE StillTrue(r) ==
        r.unit \in Units => ran'[r.unit] = IF r.failed THEN "failed" ELSE "passed"
  <1>1. \A r \in Result : TrueResult(r) => StillTrue(r)
    BY FinishedStays DEF TrueResult, Finished
  <1>0. /\ \A p \in Procs : obuf[p] \in Seq(Result) /\ DOMAIN obuf[p] = 1..Len(obuf[p])
        /\ rpipe \in Seq(Result \cup {Torn}) /\ results \in Seq(Result)
        /\ \A p \in Procs : \A i \in DOMAIN obuf[p] : obuf[p][i] \in Result
        /\ \A i \in DOMAIN rpipe : rpipe[i] # Torn => rpipe[i] \in Result
        /\ \A i \in DOMAIN results : results[i] \in Result
    BY DEF TypeOK
  <1>2. /\ \A p \in Procs : \A i \in DOMAIN obuf[p] : StillTrue(obuf[p][i])
        /\ \A i \in DOMAIN rpipe : rpipe[i] # Torn => StillTrue(rpipe[i])
        /\ \A i \in DOMAIN results : StillTrue(results[i])
    BY <1>0, <1>1 DEF AllTrue
  <1>12. ASSUME \A p \in Procs : \A i \in DOMAIN obuf'[p] : StillTrue(obuf'[p][i]),
               \A i \in DOMAIN rpipe' : rpipe'[i] # Torn => StillTrue(rpipe'[i]),
               \A i \in DOMAIN results' : StillTrue(results'[i])
        PROVE  AllTrue'
    BY <1>12 DEF AllTrue, TrueResult
  <1> HIDE DEF StillTrue
  <1>3. CASE obuf' = obuf /\ rpipe' = rpipe /\ results' = results
    BY <1>2, <1>3, <1>12
  <1>4. CASE CollectGet
    <2>1. results' = Append(results, Head(rpipe)) /\ rpipe' = Tail(rpipe) /\ obuf' = obuf
      BY <1>4 DEF CollectGet
    <2>2. rpipe # <<>> /\ Head(rpipe) = rpipe[1] /\ Head(rpipe) # Torn /\ 1 \in DOMAIN rpipe
      BY <1>4 DEF CollectGet, TypeOK
    <2>3. \A i \in DOMAIN rpipe' : i + 1 \in DOMAIN rpipe /\ rpipe'[i] = rpipe[i + 1]
      BY <2>1, <2>2 DEF TypeOK
    <2>4. \A i \in DOMAIN results' :
            (i \in DOMAIN results /\ results'[i] = results[i]) \/ results'[i] = rpipe[1]
      BY <2>1, <2>2, <1>0
    <2> QED
      BY <1>2, <1>12, <2>1, <2>2, <2>3, <2>4
  <1>5. ASSUME NEW p \in Procs, SetupFails(p) PROVE AllTrue'
    <2>1. obuf' = [obuf EXCEPT ![p] = Append(@, [unit |-> SetupId, failed |-> TRUE])]
      BY <1>5 DEF SetupFails, PutResult
    <2>2. StillTrue([unit |-> SetupId, failed |-> TRUE])
      BY PoolAssumption DEF StillTrue
    <2>3. rpipe' = rpipe /\ results' = results
      BY <1>5 DEF SetupFails, coordVars
    <2>4. \A q \in Procs : \A i \in DOMAIN obuf'[q] :
            (i \in DOMAIN obuf[q] /\ obuf'[q][i] = obuf[q][i]) \/ obuf'[q][i] = [unit |-> SetupId, failed |-> TRUE]
      <3>1. \A q \in Procs : q # p => obuf'[q] = obuf[q]
        BY <2>1 DEF TypeOK
      <3>2. \A i \in DOMAIN obuf'[p] :
              (i \in DOMAIN obuf[p] /\ obuf'[p][i] = obuf[p][i]) \/ obuf'[p][i] = [unit |-> SetupId, failed |-> TRUE]
        BY <2>1, <1>0, SMTT(20) DEF TypeOK
      <3> QED
        BY <3>1, <3>2
    <2> QED
      BY <1>2, <1>12, <2>2, <2>3, <2>4
  <1>6. ASSUME NEW p \in Procs, FinishUnit(p) PROVE AllTrue'
    <2>1. PICK f \in BOOLEAN :
            /\ ran' = [ran EXCEPT ![Held(p)] = IF f THEN "failed" ELSE "passed"]
            /\ obuf' = [obuf EXCEPT ![p] = Append(@, [unit |-> Held(p), failed |-> f])]
      BY <1>6 DEF FinishUnit, PutResult
    <2>2. StillTrue([unit |-> Held(p), failed |-> f])
      BY <2>1 DEF StillTrue, TypeOK
    <2>3. rpipe' = rpipe /\ results' = results
      BY <1>6 DEF FinishUnit, coordVars
    <2>4. \A q \in Procs : \A i \in DOMAIN obuf'[q] :
            (i \in DOMAIN obuf[q] /\ obuf'[q][i] = obuf[q][i]) \/ obuf'[q][i] = [unit |-> Held(p), failed |-> f]
      <3>1. \A q \in Procs : q # p => obuf'[q] = obuf[q]
        BY <2>1 DEF TypeOK
      <3>2. \A i \in DOMAIN obuf'[p] :
              (i \in DOMAIN obuf[p] /\ obuf'[p][i] = obuf[p][i]) \/ obuf'[p][i] = [unit |-> Held(p), failed |-> f]
        BY <2>1, <1>0, SMTT(20) DEF TypeOK
      <3> QED
        BY <3>1, <3>2
    <2> QED
      BY <1>2, <1>12, <2>2, <2>3, <2>4
  <1>7. ASSUME NEW p \in Procs, SendResult(p) PROVE AllTrue'
    <2>1. obuf[p] # <<>> /\ rpipe' = Append(rpipe, Head(obuf[p]))
          /\ obuf' = [obuf EXCEPT ![p] = Tail(@)] /\ results' = results
      BY <1>7 DEF SendResult, coordVars
    <2>2. 1 \in DOMAIN obuf[p] /\ Head(obuf[p]) = obuf[p][1]
      BY <2>1 DEF TypeOK
    <2>3. \A i \in DOMAIN Tail(obuf[p]) : i + 1 \in DOMAIN obuf[p] /\ Tail(obuf[p])[i] = obuf[p][i + 1]
      BY <2>1 DEF TypeOK
    <2>4. \A i \in DOMAIN rpipe' : (i \in DOMAIN rpipe /\ rpipe'[i] = rpipe[i]) \/ rpipe'[i] = obuf[p][1]
      BY <2>1, <2>2, <1>0
    <2>5. \A q \in Procs : obuf'[q] = IF q = p THEN Tail(obuf[p]) ELSE obuf[q]
      BY <2>1 DEF TypeOK
    <2> QED
      BY <1>2, <1>12, <2>1, <2>2, <2>3, <2>4, <2>5
  <1>8. ASSUME NEW p \in Procs, DropResult(p) PROVE AllTrue'
    <2>1. obuf[p] # <<>> /\ obuf' = [obuf EXCEPT ![p] = Tail(@)] /\ rpipe' = rpipe /\ results' = results
      BY <1>8 DEF DropResult, coordVars
    <2>2. \A i \in DOMAIN Tail(obuf[p]) : i + 1 \in DOMAIN obuf[p] /\ Tail(obuf[p])[i] = obuf[p][i + 1]
      BY <2>1 DEF TypeOK
    <2>3. \A q \in Procs : obuf'[q] = IF q = p THEN Tail(obuf[p]) ELSE obuf[q]
      BY <2>1 DEF TypeOK
    <2> QED
      BY <1>2, <1>12, <2>1, <2>2, <2>3
  <1>9. ASSUME NEW p \in Procs, Die(p) PROVE AllTrue'
    <2>1. results' = results /\ obuf' = [obuf EXCEPT ![p] = <<>>]
          /\ (rpipe' = rpipe \/ rpipe' = Append(rpipe, Torn))
      BY <1>9 DEF Die, coordVars
    <2>2. \A i \in DOMAIN rpipe' : (i \in DOMAIN rpipe /\ rpipe'[i] = rpipe[i]) \/ rpipe'[i] = Torn
      BY <2>1, <1>0
    <2>3. \A q \in Procs : obuf'[q] = IF q = p THEN <<>> ELSE obuf[q]
      BY <2>1 DEF TypeOK
    <2> QED
      BY <1>2, <1>12, <2>1, <2>2, <2>3
  <1>10. ASSUME NEW p \in Procs, LoopStep(p) \/ LockPipe(p), ~SetupFails(p), ~FinishUnit(p)
         PROVE  obuf' = obuf /\ rpipe' = rpipe /\ results' = results
    BY <1>10 DEF LoopStep, LockPipe, SetupOk, CheckStop, AcquireReader, ReaderBusy, Take,
                 NothingToTake, TakeSentinel, SkipUnit, CheckAgain, StartUnit, AckUnit,
                 AckAborted, Escape, Teardown, ExitWorker, coordVars, resultVars
  <1>11. ASSUME MainStep, ~CollectGet
         PROVE  obuf' = obuf /\ rpipe' = rpipe /\ results' = results
    BY <1>11 DEF MainStep, CoordStep, DispatchParallel, NothingParallel, JoinDone, JoinTimeout,
                Terminate, DrainOne, DrainEnd, DispatchSerial, SkipSerial, CollectReturn,
                KillDaemons, ExitProcess, SpawnFails, Interrupt, Crash, FeedTask,
                coordVars, resultVars, vars
  <1> QED
    BY <1>3, <1>4, <1>5, <1>6, <1>7, <1>8, <1>9, <1>10, <1>11, StepCases
    DEF ProcessStep, WorkerStep, ResultFeeder, SignalDeath, Kill

-----------------------------------------------------------------------------
(* Types.                                                                   *)

\* The initial state is type-correct.
LEMMA TypeInit == Init => TypeOK
  <1>1. N \in Nat /\ MaxKills \in Nat
    BY PoolAssumption
  <1> QED
    BY <1>1 DEF Init, TypeOK, Procs, CoordStates, WorkerStates, Outcomes

\* TypeOK is preserved.
LEMMA TypeStep ==
    ASSUME TypeOK, HeldOK, NoSerialYet, [Next]_vars PROVE TypeOK'
  <1> USE DEF coordVars, taskVars, resultVars, workerVars
  <1>0. N \in Nat /\ N >= 2 /\ MaxKills \in Nat /\ SetupId \notin Units
    BY PoolAssumption
  <1>1. ASSUME NEW p \in Procs, SetupFails(p) PROVE TypeOK'
    <2>1. [unit |-> SetupId, failed |-> TRUE] \in Result
      BY DEF Result
    <2>2. obuf' \in [Procs -> Seq(Result)]
      BY <1>1, <2>1 DEF SetupFails, PutResult, TypeOK
    <2> QED
      BY <1>1, <2>2 DEF SetupFails, Goto, TypeOK, WorkerStates
  <1>2. ASSUME NEW p \in Procs, FinishUnit(p) PROVE TypeOK'
    <2>1. PICK f \in BOOLEAN, a \in BOOLEAN :
            /\ ran' = [ran EXCEPT ![Held(p)] = IF f THEN "failed" ELSE "passed"]
            /\ PutResult(p, Held(p), f)
            /\ Goto(p, IF a THEN "ackAborted" ELSE "ack")
      BY <1>2 DEF FinishUnit
    <2>2. [unit |-> Held(p), failed |-> f] \in Result
      BY <1>2 DEF FinishUnit, HeldOK, Result
    <2>3. obuf' \in [Procs -> Seq(Result)]
      BY <2>1, <2>2 DEF PutResult, TypeOK
    <2>4. ran' \in [Units -> Outcomes] /\ pc' \in [Procs -> WorkerStates]
      BY <2>1 DEF Goto, TypeOK, Outcomes, WorkerStates
    <2> QED
      BY <1>2, <2>3, <2>4 DEF FinishUnit, TypeOK
  <1>3. ASSUME NEW p \in Procs, SignalDeath(p) \/ Kill(p) PROVE TypeOK'
    <2>1. Die(p) /\ sig' = sig /\ kills' \in 0..MaxKills
      BY <1>3, <1>0, SMTT(20) DEF SignalDeath, Kill, TypeOK
    <2>2. obuf' \in [Procs -> Seq(Result)]
      BY <2>1 DEF Die, TypeOK
    <2>4. rpipe' \in Seq(Result \cup {Torn})
      <3>1. rpipe' = rpipe \/ rpipe' = Append(rpipe, Torn)
        BY <2>1 DEF Die
      <3>2. rpipe \in Seq(Result \cup {Torn}) /\ Torn \in Result \cup {Torn}
        BY DEF TypeOK
      <3> QED
        BY <3>1, <3>2
    <2>3. ran' \in [Units -> Outcomes] /\ pc' \in [Procs -> WorkerStates]
      BY <2>1 DEF Die, TypeOK, Outcomes, WorkerStates
    <2> QED
      BY <2>1, <2>2, <2>3, <2>4 DEF Die, TypeOK
  <1>4. ASSUME NEW p \in Procs,
               Take(p) \/ CheckAgain(p) \/ StartUnit(p) \/ Escape(p) \/ NothingToTake(p)
                   \/ AcquireReader(p)
        PROVE  TypeOK'
    <2>1. CASE Take(p)
      BY <2>1 DEF Take, Goto, Release, TypeOK, Outcomes, WorkerStates
    <2>2. CASE StartUnit(p)
      BY <2>2 DEF StartUnit, Goto, Release, TypeOK, Outcomes, WorkerStates
    <2>6. CASE CheckAgain(p)
      BY <2>6 DEF CheckAgain, Goto, TypeOK, WorkerStates
    <2>3. CASE Escape(p)
      BY <2>3 DEF Escape, Goto, Release, TypeOK, Outcomes, WorkerStates
    <2>4. CASE NothingToTake(p)
      BY <2>4 DEF NothingToTake, Goto, Release, TypeOK, Outcomes, WorkerStates
    <2>5. CASE AcquireReader(p)
      BY <2>5 DEF AcquireReader, Goto, Release, TypeOK, Outcomes, WorkerStates
    <2> QED
      BY <1>4, <2>1, <2>2, <2>3, <2>4, <2>5, <2>6
  <1>5. ASSUME NEW p \in Procs,
               TakeSentinel(p) \/ SkipUnit(p) \/ AckUnit(p) \/ AckAborted(p)
        PROVE  TypeOK'
    <2>1. CASE TakeSentinel(p)
      BY <2>1, SMTT(20) DEF TakeSentinel, Goto, Done, TaskDone, TypeOK, WorkerStates
    <2>2. CASE SkipUnit(p)
      BY <2>2, SMTT(20) DEF SkipUnit, Goto, Done, TaskDone, TypeOK, WorkerStates
    <2>3. CASE AckUnit(p)
      BY <2>3, SMTT(20) DEF AckUnit, Goto, Done, TaskDone, TypeOK, WorkerStates
    <2>4. CASE AckAborted(p)
      BY <2>4 DEF AckAborted, Goto, Done, TaskDone, TypeOK, WorkerStates
    <2> QED
      BY <1>5, <2>1, <2>2, <2>3, <2>4
  <1>6. ASSUME NEW p \in Procs,
               SetupOk(p) \/ CheckStop(p) \/ ReaderBusy(p) \/ Teardown(p) \/ ExitWorker(p)
        PROVE  TypeOK'
    <2>1. CASE SetupOk(p)
      BY <2>1 DEF SetupOk, Goto, TypeOK, WorkerStates
    <2>2. CASE CheckStop(p)
      BY <2>2 DEF CheckStop, Goto, TypeOK, WorkerStates
    <2>3. CASE ReaderBusy(p)
      BY <2>3 DEF ReaderBusy, Goto, TypeOK, WorkerStates
    <2>4. CASE Teardown(p)
      BY <2>4 DEF Teardown, Goto, TypeOK, WorkerStates
    <2>5. CASE ExitWorker(p)
      BY <2>5 DEF ExitWorker, Goto, TypeOK, WorkerStates
    <2> QED
      BY <1>6, <2>1, <2>2, <2>3, <2>4, <2>5
  <1>7. ASSUME NEW p \in Procs, ResultFeeder(p) PROVE TypeOK'
    <2>1. CASE LockPipe(p)
      BY <2>1 DEF LockPipe, TypeOK
    <2>2. CASE SendResult(p)
      BY <2>2, SMTT(20) DEF SendResult, TypeOK
    <2>3. CASE DropResult(p)
      BY <2>3, SMTT(20) DEF DropResult, TypeOK
    <2> QED
      BY <1>7, <2>1, <2>2, <2>3 DEF ResultFeeder
  <1>8. ASSUME NEW batch \in Seq(Units), NEW n \in Nat, NEW ps, Launch(batch, n, ps),
               flushed' = flushed, taken' = taken, item' = item
        PROVE  /\ log' \in Seq(Units \cup {None})
               /\ flushed' \in 0..Len(log') /\ taken' \in 0..flushed' /\ item' \in [Procs -> 0..taken']
               /\ unfinished' \in Int /\ dispatched' \in Seq(Units)
               /\ pc' \in [Procs -> WorkerStates]
    <2> DEFINE s == [i \in 1..n |-> None]
    <2>1. s \in Seq(Units \cup {None}) /\ Len(s) = n
      OBVIOUS
    <2>2. log' = log \o batch \o s /\ unfinished' = unfinished + Len(batch) + n
      BY <1>8 DEF Launch, PutTasks
    <2> HIDE DEF s
    <2>3. log' \in Seq(Units \cup {None}) /\ Len(log') >= Len(log)
      BY <2>1, <2>2 DEF TypeOK
    <2>4. dispatched' \in Seq(Units) /\ unfinished' \in Int
      BY <1>8, <2>2 DEF Launch, TypeOK
    <2>5. pc' \in [Procs -> WorkerStates]
      BY <1>8 DEF Launch, TypeOK, WorkerStates
    <2> QED
      BY <1>8, <2>3, <2>4, <2>5, SMTT(20) DEF TypeOK
  <1>9. ASSUME DispatchParallel \/ DispatchSerial PROVE TypeOK'
    <2>1. k' \in Procs /\ cpc' \in CoordStates
      BY <1>9, <1>0 DEF DispatchParallel, DispatchSerial, Procs, SerialProc, CoordStates
    <2>2. /\ log' \in Seq(Units \cup {None})
          /\ flushed' \in 0..Len(log') /\ taken' \in 0..flushed' /\ item' \in [Procs -> 0..taken']
          /\ unfinished' \in Int /\ dispatched' \in Seq(Units)
          /\ pc' \in [Procs -> WorkerStates]
      BY <1>9, <1>8, <1>0, BatchFacts DEF DispatchParallel, DispatchSerial
    <2> QED
      BY <1>9, <2>1, <2>2 DEF DispatchParallel, DispatchSerial, TypeOK
  <1>10. ASSUME SpawnFails PROVE TypeOK'
    <2>1. /\ log' \in Seq(Units \cup {None})
          /\ flushed' \in 0..Len(log') /\ taken' \in 0..flushed' /\ item' \in [Procs -> 0..taken']
          /\ unfinished' \in Int /\ dispatched' \in Seq(Units)
          /\ pc' \in [Procs -> WorkerStates]
      BY <1>10, <1>8, <1>0, BatchFacts DEF SpawnFails
    <2> QED
      BY <1>10, <2>1 DEF SpawnFails, TypeOK, CoordStates
  <1>11. ASSUME JoinDone \/ JoinTimeout \/ Terminate PROVE TypeOK'
    <2>1. AfterJoin => k' \in Procs /\ cpc' \in CoordStates
      <3>1. k \in 0..N
        BY DEF TypeOK, Procs
      <3> QED
        BY <1>0, <3>1 DEF AfterJoin, Procs, CoordStates
    <2>2. CASE JoinDone
      BY <2>1, <2>2 DEF JoinDone, TypeOK
    <2>3. CASE JoinTimeout
      BY <2>3 DEF JoinTimeout, TypeOK, CoordStates
    <2>4. CASE Terminate
      BY <2>1, <2>4 DEF Terminate, TypeOK
    <2> QED
      BY <1>11, <2>2, <2>3, <2>4
  <1>12. ASSUME CollectReturn PROVE TypeOK'
    <2>1. verdict' \in {"none", "passed", "failed"} /\ report' \in {"none", "passed", "failed"}
      BY <1>12 DEF CollectReturn, Verdict, ReportStatus
    <2> QED
      BY <1>12, <2>1 DEF CollectReturn, TypeOK, CoordStates
  <1>13. ASSUME CollectGet \/ DrainOne \/ FeedTask \/ UNCHANGED vars PROVE TypeOK'
    <2>1. CASE CollectGet
      <3>1. Head(rpipe) \in Result /\ Tail(rpipe) \in Seq(Result \cup {Torn})
        BY <2>1 DEF CollectGet, TypeOK
      <3> QED
        BY <2>1, <3>1, SMTT(20) DEF CollectGet, TypeOK
    <2>2. CASE DrainOne
      BY <2>2 DEF DrainOne, TaskDone, TypeOK
    <2>3. CASE FeedTask
      BY <2>3 DEF FeedTask, TypeOK
    <2>4. CASE UNCHANGED vars
      BY <2>4 DEF vars, TypeOK
    <2> QED
      BY <1>13, <2>1, <2>2, <2>3, <2>4
  <1>14. ASSUME \/ NothingParallel \/ DrainEnd \/ SkipSerial \/ Interrupt
                \/ KillDaemons \/ ExitProcess \/ Crash
         PROVE  TypeOK'
    BY <1>14 DEF NothingParallel, DrainEnd, SkipSerial, Interrupt, KillDaemons, ExitProcess,
                 Crash, TypeOK, CoordStates
  <1> QED
    BY <1>1, <1>2, <1>3, <1>4, <1>5, <1>6, <1>7, <1>9, <1>10, <1>11, <1>12, <1>13, <1>14, StepCases
    DEF ProcessStep, WorkerStep, LoopStep, MainStep, CoordStep

-----------------------------------------------------------------------------
(* The theorems.                                                            *)

\* IInv holds initially.
LEMMA InvariantInit == Init => IInv
  <1> SUFFICES ASSUME Init PROVE IInv
    OBVIOUS
  <1>1. TypeOK
    BY TypeInit
  <1>2. HeldOK /\ ItemsDistinct /\ LogInjective /\ FreshAhead /\ FreshInHand
    BY DEF Init, HeldOK, ItemsDistinct, LogInjective, FreshAhead, FreshInHand
  <1>3. StartedInLog /\ RunningHeld
    BY DEF Init, StartedInLog, Started, RunningHeld, Running
  <1>4. NoSerialYet /\ JoinedGone /\ SerialAlone
    BY PoolAssumption DEF Init, NoSerialYet, BeforeSerial, JoinedGone, Joined, SerialAlone
  <1>5. AllTrue /\ VerdictLast /\ VerdictSound
    BY DEF Init, AllTrue, VerdictLast, VerdictSound
  <1> QED
    BY <1>1, <1>2, <1>3, <1>4, <1>5 DEF IInv

\* IInv is inductive.
LEMMA InvariantStep == IInv /\ [Next]_vars => IInv'
  BY TypeStep, HeldStep, ItemsStep, LogStep, FreshAheadStep, FreshInHandStep, StartedStep,
     RunningStep, NoSerialStep, JoinedStep, SerialAloneStep, AllTrueStep, VerdictLastStep,
     VerdictSoundStep
  DEF IInv

\* IInv is an invariant of every run.
THEOREM Invariance == Spec => []IInv
  BY InvariantInit, InvariantStep, PTL DEF Spec

\* The state of a run is always type-correct.
THEOREM TypeCorrect == Spec => []TypeOK
  BY Invariance, PTL DEF IInv

\* A run passes only if every unit it dispatched ran and passed, whatever
\* workers, results or signals were lost (_collect).
THEOREM VerdictIsSound == Spec => []VerdictSound
  BY Invariance, PTL DEF IInv

\* IInv makes a serial unit the only one: the worker that runs it is the
\* serial worker, and no other process is alive.
LEMMA Exclusion == IInv => SerialExclusion
  <1> SUFFICES ASSUME IInv, NEW u \in SerialUnits, Running(u)
               PROVE  /\ \A v \in Units \ {u} : ~Running(v)
                      /\ \A p \in ParallelProcs : ~Alive(p)
    BY DEF SerialExclusion
  <1> USE DEF IInv
  <1>1. u \in Units /\ \E i \in DOMAIN log : log[i] = u
    BY BatchFacts DEF StartedInLog, Started, Running
  <1>2. \A p \in ParallelProcs : ~Alive(p)
    BY <1>1 DEF SerialAlone
  <1>3. \A p \in Procs : pc[p] = "running" => p = SerialProc
    BY <1>2, PoolAssumption DEF Alive, Procs, ParallelProcs, SerialProc
  <1>4. ASSUME NEW v \in Units, Running(v) PROVE v = u
    BY <1>1, <1>3, <1>4 DEF RunningHeld
  <1> QED
    BY <1>2, <1>4

\* No unit and no worker of phase 1 ever coexists with a running @serial unit
\* (_dispatch), even when workers hang and are terminated without being joined.
THEOREM SerialUnitsRunAlone == Spec => []SerialExclusion
  BY Invariance, Exclusion, PTL

\* The action of AtMostOnce.
RunsOnce == \A u \in Units : Started(u) => ran'[u] # "none" /\ (Running(u)' => Running(u))

\* A step never restarts a unit.
LEMMA OnceStep == IInv /\ [Next]_vars => RunsOnce
  <1> SUFFICES ASSUME IInv, [Next]_vars, NEW u \in Units, Started(u)
               PROVE  ran'[u] # "none" /\ (Running(u)' => Running(u))
    BY DEF RunsOnce
  <1> USE DEF IInv, Started, Running
  <1>1. ASSUME NEW p \in Procs, ProcessStep(p) PROVE ran'[u] # "none" /\ (Running(u)' => Running(u))
    <2>1. CASE Begins(p)
      <3>1. Held(p) \in Units
        BY <2>1 DEF Begins, HeldOK
      <3> QED
        BY <2>1, <3>1 DEF Begins, FreshInHand, TypeOK
    <2>2. CASE Ends(p)
      BY <2>2 DEF Ends, TypeOK
    <2>3. CASE Takes(p) \/ Idles(p)
      BY <2>3 DEF Takes, Idles
    <2> QED
      BY <1>1, <2>1, <2>2, <2>3, ProcessEffect
  <1> QED
    BY <1>1, StepCases, MainEffect

\* No unit runs twice, however the workers interleave on the task queue, die
\* or are stopped.
THEOREM UnitsRunOnce == Spec => AtMostOnce
  BY Invariance, OnceStep, PTL DEF AtMostOnce, RunsOnce, Spec
=============================================================================
