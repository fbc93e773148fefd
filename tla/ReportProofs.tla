----------------------------- MODULE ReportProofs -----------------------------
(***************************************************************************)
(* Proofs about Reports, for any number of runs that share a directory, any  *)
(* features, whatever these do, and any file names, colliding ones too.      *)
(*                                                                         *)
(* A step of one run leaves the worker and the coordinator of every other    *)
(* run as they are, so each conjunct of the invariant that speaks of one run *)
(* is shown for the run that steps; what the others can do to it is in the   *)
(* directory.                                                               *)
(***************************************************************************)
EXTENDS ReportsInvariant, ListProofs, TLAPS

-----------------------------------------------------------------------------
(* The effects of a step.                                                   *)

Step(r) ==
    \/ WorkerStep(r) /\ UNCHANGED run
    \/ Start(r) \/ Collect(r) \/ SignalDeath(r) \/ Kill(r)
    \/ Merge(r) \/ Crash(r)

\* Every step is a run's.
LEMMA StepOfRun == [Next]_vars => (\E r \in Runs : Step(r)) \/ UNCHANGED vars
  BY DEF Next, Step

\* What a step of run r leaves alone.
OthersKeep(r) ==
    /\ plan' = plan /\ foreign' = foreign
    /\ \A q \in Runs \ {r} :
          /\ worker'[q] = worker[q] /\ results'[q] = results[q]
          /\ happened'[q] = happened[q] /\ run'[q] = run[q]

\* The worker puts the result of its unit: a failed one of a unit it could not
\* run, or what it has in its fields.
Gives(r) ==
    /\ worker[r].todo # <<>> /\ happened' = happened /\ run' = run
    /\ \E failed \in BOOLEAN, undefined \in 0..1, path \in {SafeId[u] : u \in Units} \cup {None} :
          /\ PutResult(r, failed, undefined, path)
          /\ \/ worker[r].pc \in {"idle", "parsed"} /\ failed
             \/ /\ worker[r].pc \in Reporting
                /\ failed = worker[r].failed /\ undefined = worker[r].undefined

\* The worker goes on with the unit in hand, or comes to its end.
Moves(r) ==
    /\ results' = results /\ happened' = happened /\ run' = run
    /\ Alive(r)
    /\ \E label \in Reporting \cup {"done", "dead"} :
          /\ Goto(r, label)
          /\ label \in Reporting => worker[r].pc \in Reporting
          /\ label = "done" => worker[r].pc \notin Reporting

\* The coordinator goes on.
Coordinates(r) ==
    /\ UNCHANGED workerVars
    /\ run[r].pc # "new"
    /\ \E label \in RunPlaces \ {"new"} : run'[r].pc = label

\* A step has one of these effects.
Effect(r) ==
    \/ Setup(r) /\ UNCHANGED run
    \/ SetupFails(r) /\ UNCHANGED run
    \/ Parse(r) /\ UNCHANGED run
    \/ RunFeatures(r) /\ UNCHANGED run
    \/ Gives(r)
    \/ Moves(r)
    \/ Start(r)
    \/ Coordinates(r)

\* Records and functions of the state, as SMT needs them.
LEMMA ShapeFacts ==
    ASSUME Shapes, TypeOK
    PROVE  /\ worker \in [Runs -> WorkerState]
           /\ results \in [Runs -> Seq(Result)]
           /\ happened \in [Runs -> [Units -> Outcome \cup {None}]]
           /\ DOMAIN run = Runs
  BY DEF Shapes, TypeOK

\* The effects of the steps in which the worker puts a result.
LEMMA GivesEffect ==
    ASSUME Shapes, TypeOK, OnceEach, NEW r \in Runs, run' = run,
           UnitRaises(r) \/ FillReport(r) \/ WriteFails(r)
    PROVE  Gives(r)
  <1>0. worker[r] \in WorkerState /\ worker[r].failed \in BOOLEAN /\ worker[r].undefined \in 0..1
    BY ShapeFacts DEF WorkerState
  <1>1. CASE UnitRaises(r)
    <2>1. PutResult(r, TRUE, 0, None) /\ happened' = happened
      BY <1>1 DEF UnitRaises
    <2>2. worker[r].pc \in {"idle", "parsed"} /\ worker[r].todo # <<>>
      BY <1>1 DEF UnitRaises
    <2>3. TRUE \in BOOLEAN /\ 0 \in 0..1 /\ None \in {SafeId[u] : u \in Units} \cup {None}
      OBVIOUS
    <2> QED
      BY <2>1, <2>2, <2>3, Zenon DEF Gives
  <1>2. CASE WriteFails(r)
    <2>1. worker[r].pc \in Reporting /\ worker[r].todo # <<>>
      BY <1>2 DEF WriteFails, Reporting, OnceEach
    <2> QED
      BY <1>0, <1>2, <2>1 DEF WriteFails, Gives, dirVars
  <1>3. CASE FillReport(r)
    <2>1. worker[r].pc \in Reporting /\ worker[r].todo # <<>>
      BY <1>3 DEF FillReport, Reporting, OnceEach
    <2>2. Unit(r) \in Units
      BY <1>0, <2>1 DEF WorkerState, Unit
    <2>3. ReportFile(Unit(r)) \in {SafeId[u] : u \in Units}
      BY <2>2 DEF ReportFile
    <2> QED
      BY <1>0, <1>3, <2>1, <2>3 DEF FillReport, Gives
  <1> QED
    BY <1>1, <1>2, <1>3

\* Every step has one of the effects.
LEMMA StepEffect ==
    ASSUME Shapes, TypeOK, Unstarted, OnceEach, NEW r \in Runs, Step(r)
    PROVE  Effect(r)
  <1>1. CASE WorkerStep(r) /\ UNCHANGED run
    <2>1. CASE MakeDir(r) \/ OpenReport(r) \/ Teardown(r)
      BY <1>1, <2>1 DEF MakeDir, OpenReport, Teardown, Moves, Effect, Reporting, Alive
    <2> QED
      BY <1>1, <2>1, GivesEffect DEF WorkerStep, Effect
  <1>2. CASE SignalDeath(r) \/ Kill(r)
    <2>1. Alive(r) /\ Goto(r, "dead") /\ results' = results /\ happened' = happened /\ run' = run
      BY <1>2 DEF SignalDeath, Kill, Die
    <2>2. "dead" \in Reporting \cup {"done", "dead"} /\ "dead" \notin Reporting
      BY DEF Reporting
    <2> QED
      BY <2>1, <2>2, Zenon DEF Moves, Effect
  <1>3. CASE Collect(r) \/ Merge(r) \/ Crash(r)
    <2>1. UNCHANGED workerVars
      BY <1>3 DEF Collect, Merge, MergeNext, BuildReport, List, Unlink, UnlinkRefused,
         CheckEmpty, RemoveDir, RemoveDirRefused, Crash
    <2>2. run[r].pc # "new"
      BY <1>3 DEF Collect, Merge, MergeNext, BuildReport, List, Unlink, UnlinkRefused,
         CheckEmpty, RemoveDir, RemoveDirRefused, Crash, Active
    <2>3. run'[r].pc \in RunPlaces \ {"new"}
      <3>1. DOMAIN run = Runs /\ run[r].pc \in RunPlaces /\ DOMAIN run[r] = RunFields
        BY DEF TypeOK, Shapes
      <3>2. CASE Collect(r) \/ MergeNext(r) \/ BuildReport(r)
        BY <2>2, <3>1, <3>2, ZenonT(30) DEF Collect, MergeNext, BuildReport, RunPlaces, RunFields
      <3>3. CASE List(r) \/ Unlink(r)
        BY <2>2, <3>1, <3>3, ZenonT(30) DEF List, Unlink, RunPlaces, RunFields
      <3>4. CASE CheckEmpty(r) \/ RemoveDir(r) \/ Crash(r)
        BY <2>2, <3>1, <3>4 DEF CheckEmpty, RemoveDir, Crash, RunGoto, RunPlaces, RunFields
      <3>5. CASE UnlinkRefused(r) \/ RemoveDirRefused(r)
        BY <2>2, <3>1, <3>5, ZenonT(30) DEF UnlinkRefused, RemoveDirRefused, RunPlaces, RunFields
      <3> QED
        BY <1>3, <3>2, <3>3, <3>4, <3>5 DEF Merge
    <2> QED
      BY <2>1, <2>2, <2>3 DEF Coordinates, Effect
  <1> QED
    BY <1>1, <1>2, <1>3 DEF Step, Effect

-----------------------------------------------------------------------------
(* The coordinator's record after a step.                                   *)

\* Run r's record has these fields now, and no file that it kept is forgotten;
\* no other record has changed.
RunIs(r, pc, rushed, collected, n, listing) ==
    /\ run'[r].pc = pc /\ run'[r].rushed = rushed /\ run'[r].collected = collected
    /\ run'[r].n = n /\ run'[r].listing = listing /\ run[r].kept \subseteq run'[r].kept
    /\ DOMAIN run' = Runs /\ DOMAIN run'[r] = RunFields
    /\ \A q \in Runs \ {r} : run'[q] = run[q]
RunMoves(r, pc) == RunIs(r, pc, run[r].rushed, run[r].collected, run[r].n, run[r].listing)

\* What each step of a coordinator makes of it.
LEMMA CoordEffect ==
    ASSUME Shapes, NEW r \in Runs
    PROVE  /\ Start(r) => RunMoves(r, "working")
           /\ Collect(r) => \E m \in 0..Len(results[r]) :
                 RunIs(r, "merging", Alive(r), SubSeq(results[r], 1, m), run[r].n, run[r].listing)
           /\ MergeNext(r) =>
                 RunIs(r, "merging", run[r].rushed, run[r].collected, run[r].n + 1, run[r].listing)
           /\ BuildReport(r) => RunMoves(r, "listing")
           /\ List(r) => RunIs(r, IF tmp THEN "unlinking" ELSE "done",
                               run[r].rushed, run[r].collected, run[r].n, DOMAIN files)
           /\ Unlink(r) => \E f \in run[r].listing :
                 /\ RunIs(r, "unlinking", run[r].rushed, run[r].collected, run[r].n, run[r].listing \ {f})
                 /\ files' = [x \in DOMAIN files \ {f} |-> files[x]]
           /\ UnlinkRefused(r) => \E f \in run[r].listing :
                 /\ RunIs(r, "unlinking", run[r].rushed, run[r].collected, run[r].n, run[r].listing \ {f})
                 /\ f \in run'[r].kept
           /\ CheckEmpty(r) => RunMoves(r, IF ~tmp THEN "raised"
                  ELSE IF DOMAIN files = {} /\ ~foreign THEN "removing" ELSE "done")
           /\ RemoveDir(r) => RunMoves(r, "done")
           /\ RemoveDirRefused(r) => RunMoves(r, "done") /\ run'[r].dirKept
           /\ Crash(r) => RunMoves(r, "crashed")
  <1>1. DOMAIN run = Runs /\ DOMAIN run[r] = RunFields
    BY DEF Shapes
  <1>2. ASSUME NEW x, RunGoto(r, x) PROVE RunMoves(r, x)
    BY <1>1, <1>2 DEF RunGoto, RunMoves, RunIs, RunFields
  <1> USE DEF RunIs, RunFields
  <1>3. ASSUME Collect(r)
        PROVE  \E m \in 0..Len(results[r]) :
                 RunIs(r, "merging", Alive(r), SubSeq(results[r], 1, m), run[r].n, run[r].listing)
    BY <1>1, <1>3 DEF Collect
  <1>4. ASSUME MergeNext(r)
        PROVE  RunIs(r, "merging", run[r].rushed, run[r].collected, run[r].n + 1, run[r].listing)
    BY <1>1, <1>4 DEF MergeNext
  <1>5. ASSUME BuildReport(r) PROVE RunMoves(r, "listing")
    BY <1>1, <1>5 DEF BuildReport, RunMoves
  <1>6. ASSUME List(r)
        PROVE  RunIs(r, IF tmp THEN "unlinking" ELSE "done",
                     run[r].rushed, run[r].collected, run[r].n, DOMAIN files)
    BY <1>1, <1>6 DEF List, IsDir, Glob
  <1>7. ASSUME Unlink(r)
        PROVE  \E f \in run[r].listing :
                 /\ RunIs(r, "unlinking", run[r].rushed, run[r].collected, run[r].n, run[r].listing \ {f})
                 /\ files' = [x \in DOMAIN files \ {f} |-> files[x]]
    BY <1>1, <1>7 DEF Unlink
  <1>8. ASSUME UnlinkRefused(r)
        PROVE  \E f \in run[r].listing :
                 /\ RunIs(r, "unlinking", run[r].rushed, run[r].collected, run[r].n, run[r].listing \ {f})
                 /\ f \in run'[r].kept
    BY <1>1, <1>8 DEF UnlinkRefused
  <1>9. ASSUME RemoveDirRefused(r) PROVE RunMoves(r, "done") /\ run'[r].dirKept
    BY <1>1, <1>9 DEF RemoveDirRefused, RunMoves
  <1> HIDE DEF RunIs, RunFields
  <1> QED
    BY <1>2, <1>3, <1>4, <1>5, <1>6, <1>7, <1>8, <1>9 DEF Start, CheckEmpty, RemoveDir, Crash

-----------------------------------------------------------------------------
(* Prefixes and suffixes.                                                   *)

\* A prefix, element by element.
LEMMA PrefixMeans ==
    ASSUME NEW S, NEW s \in Seq(S), NEW t \in Seq(S)
    PROVE  IsPrefix(s, t) <=> Len(s) <= Len(t) /\ \A i \in 1..Len(s) : s[i] = t[i]
  <1>1. Len(s) \in Nat /\ Len(t) \in Nat
    OBVIOUS
  <1>2. ASSUME Len(s) <= Len(t), \A i \in 1..Len(s) : s[i] = t[i]
        PROVE  SubSeq(s, 1, Len(s)) = SubSeq(t, 1, Len(s))
    BY <1>1, <1>2
  <1>3. ASSUME Len(s) <= Len(t), SubSeq(s, 1, Len(s)) = SubSeq(t, 1, Len(s)), NEW i \in 1..Len(s)
        PROVE  s[i] = t[i]
    <2>1. SubSeq(s, 1, Len(s))[i] = s[i] /\ SubSeq(t, 1, Len(s))[i] = t[i]
      BY <1>1, <1>3
    <2> QED
      BY <1>3, <2>1
  <1> QED
    BY <1>2, <1>3 DEF IsPrefix

\* The reverse of a sequence.
LEMMA ReverseIs ==
    ASSUME NEW S, NEW s \in Seq(S)
    PROVE  /\ Reverse(s) \in Seq(S) /\ Len(Reverse(s)) = Len(s)
           /\ \A i \in 1..Len(s) : Reverse(s)[i] = s[Len(s) - i + 1]
  BY DEF Reverse

\* What is left of a sequence is still a suffix when its head has gone.
LEMMA TailOfSuffix ==
    ASSUME NEW S, NEW s \in Seq(S), NEW t \in Seq(S), IsSuffix(s, t), s # <<>>
    PROVE  IsSuffix(Tail(s), t)
  <1>1. /\ Tail(s) \in Seq(S) /\ Len(Tail(s)) = Len(s) - 1 /\ Len(s) \in Nat /\ Len(t) \in Nat
        /\ \A i \in 1..(Len(s) - 1) : Tail(s)[i] = s[i + 1]
    OBVIOUS
  <1>2. Len(s) <= Len(t) /\ \A i \in 1..Len(s) : Reverse(s)[i] = Reverse(t)[i]
    BY ReverseIs, PrefixMeans DEF IsSuffix
  <1>3. ASSUME NEW i \in 1..(Len(s) - 1) PROVE Reverse(Tail(s))[i] = Reverse(t)[i]
    <2>4. i \in 1..Len(Tail(s)) /\ Len(Tail(s)) - i + 1 = Len(s) - 1 - i + 1
      BY <1>1
    <2>5. Reverse(Tail(s))[i] = Tail(s)[Len(Tail(s)) - i + 1]
      BY <1>1, <2>4, ReverseIs, Zenon
    <2>1. Reverse(Tail(s))[i] = Tail(s)[Len(s) - 1 - i + 1]
      BY <2>4, <2>5
    <2>2. Tail(s)[Len(s) - 1 - i + 1] = s[Len(s) - i + 1]
      BY <1>1
    <2>3. Reverse(s)[i] = s[Len(s) - i + 1] /\ i \in 1..Len(s)
      BY <1>1, ReverseIs
    <2> QED
      BY <1>2, <2>1, <2>2, <2>3
  <1>4. Reverse(Tail(s)) \in Seq(S) /\ Len(Reverse(Tail(s))) = Len(s) - 1
        /\ Reverse(t) \in Seq(S) /\ Len(Reverse(t)) = Len(t)
    BY <1>1, ReverseIs
  <1> QED
    BY <1>1, <1>2, <1>3, <1>4, PrefixMeans DEF IsSuffix

\* Every sequence and the empty one are suffixes of a sequence.
LEMMA SuffixEnds ==
    ASSUME NEW S, NEW t \in Seq(S)
    PROVE  IsSuffix(t, t) /\ IsSuffix(<<>>, t)
  <1>1. <<>> \in Seq(S) /\ Len(<<>>) = 0 /\ Len(t) \in Nat
    OBVIOUS
  <1>2. Reverse(<<>>) \in Seq(S) /\ Len(Reverse(<<>>)) = 0
    BY <1>1, ReverseIs
  <1> QED
    BY <1>1, <1>2, ReverseIs, PrefixMeans DEF IsSuffix

\* A prefix stays one when the sequence grows ...
LEMMA PrefixGrows ==
    ASSUME NEW S, NEW s \in Seq(S), NEW t \in Seq(S), IsPrefix(s, t), NEW x \in S
    PROVE  IsPrefix(s, Append(t, x))
  <1>1. /\ Append(t, x) \in Seq(S) /\ Len(Append(t, x)) = Len(t) + 1
        /\ \A i \in 1..Len(t) : Append(t, x)[i] = t[i]
        /\ Len(s) \in Nat /\ Len(t) \in Nat
    OBVIOUS
  <1>2. Len(s) <= Len(t) /\ \A i \in 1..Len(s) : s[i] = t[i]
    BY PrefixMeans
  <1>3. Len(s) <= Len(Append(t, x)) /\ \A i \in 1..Len(s) : s[i] = Append(t, x)[i]
    BY <1>1, <1>2
  <1> QED
    BY <1>1, <1>3, PrefixMeans

\* ... and what was read of it in order is one.
LEMMA PrefixRead ==
    ASSUME NEW S, NEW t \in Seq(S), NEW m \in 0..Len(t)
    PROVE  /\ SubSeq(t, 1, m) \in Seq(S) /\ Len(SubSeq(t, 1, m)) = m
           /\ IsPrefix(SubSeq(t, 1, m), t)
  <1>1. /\ SubSeq(t, 1, m) \in Seq(S) /\ Len(SubSeq(t, 1, m)) = m
        /\ Len(t) \in Nat /\ m <= Len(t)
        /\ \A i \in 1..m : SubSeq(t, 1, m)[i] = t[i]
    OBVIOUS
  <1> QED
    BY <1>1, PrefixMeans

-----------------------------------------------------------------------------
(* Types.                                                                   *)

\* The plan of a run.
LEMMA PlanFacts ==
    ASSUME TypeOK, NEW r \in Runs
    PROVE  plan[r].units \in Seq(Units) /\ IsInjective(plan[r].units) /\ plan[r].config \in Config
  BY RunnerAssumption DEF TypeOK

\* What behave does with a feature is an outcome.
LEMMA PossibleOutcomes ==
    ASSUME Shapes, TypeOK, NEW r \in Runs, NEW u \in Units
    PROVE  Possible(r, u) \subseteq Outcome
  <1>1. Outcomes[u] \subseteq Outcome
    BY RunnerAssumption
  <1>2. \A s \in {"untested", "skipped", "undefined"}, n \in 0..1 : Idle(s, n) \in Outcome
    BY DEF Idle, Outcome, TagStatuses, CountedStatuses
  <1> QED
    BY <1>1, <1>2 DEF Possible

\* Putting a result keeps the types.
LEMMA PutTypes ==
    ASSUME Shapes, TypeOK, NEW r \in Runs, Gives(r)
    PROVE  /\ worker' \in [Runs -> WorkerState] /\ results' \in [Runs -> Seq(Result)]
           /\ worker'[r].todo = Tail(worker[r].todo)
           /\ worker'[r].pc \in {"teardown", "idle"} /\ worker'[r].stops = worker[r].aborted
           /\ \A q \in Runs \ {r} : worker'[q] = worker[q] /\ results'[q] = results[q]
           /\ \E res \in Result :
                 /\ results'[r] = Append(results[r], res) /\ res.unit = Unit(r)
                 /\ \/ worker[r].pc \in {"idle", "parsed"} /\ res.failed
                    \/ /\ worker[r].pc \in Reporting
                       /\ res.failed = worker[r].failed /\ res.undefined = worker[r].undefined
  <1>1. PICK failed \in BOOLEAN, undefined \in 0..1, path \in {SafeId[u] : u \in Units} \cup {None} :
          /\ PutResult(r, failed, undefined, path)
          /\ \/ worker[r].pc \in {"idle", "parsed"} /\ failed
             \/ /\ worker[r].pc \in Reporting
                /\ failed = worker[r].failed /\ undefined = worker[r].undefined
    BY DEF Gives
  <1> DEFINE res == [unit |-> Unit(r), failed |-> failed, undefined |-> undefined, path |-> path]
  <1>2. worker[r] \in WorkerState /\ results[r] \in Seq(Result) /\ worker[r].todo # <<>>
    BY ShapeFacts DEF Gives
  <1>3. Unit(r) \in Units /\ Tail(worker[r].todo) \in Seq(Units) /\ worker[r].aborted \in BOOLEAN
    BY <1>2 DEF WorkerState, Unit
  <1>4. /\ res \in Result /\ res.unit = Unit(r) /\ res.failed = failed /\ res.undefined = undefined
    BY <1>1, <1>3 DEF Result
  <1>5. results' = [results EXCEPT ![r] = Append(@, res)]
    BY <1>1 DEF PutResult
  <1> HIDE DEF res
  <1>6. /\ results' \in [Runs -> Seq(Result)] /\ results'[r] = Append(results[r], res)
        /\ \A q \in Runs \ {r} : results'[q] = results[q]
    BY <1>2, <1>4, <1>5, ShapeFacts
  <1>7. /\ worker' \in [Runs -> WorkerState] /\ worker'[r].todo = Tail(worker[r].todo)
        /\ worker'[r].pc \in {"teardown", "idle"} /\ worker'[r].stops = worker[r].aborted
        /\ \A q \in Runs \ {r} : worker'[q] = worker[q]
    BY <1>1, <1>2, <1>3, ShapeFacts DEF PutResult, WorkerState, Places
  <1> QED
    BY <1>1, <1>4, <1>6, <1>7

\* Every step keeps the types of the workers, and each worker's list is what
\* is left of its plan.
WorkerTypes ==
    /\ worker \in [Runs -> WorkerState]
    /\ results \in [Runs -> Seq(Result)]
    /\ happened \in [Runs -> [Units -> Outcome \cup {None}]]
    /\ \A r \in Runs : IsSuffix(worker[r].todo, plan[r].units)

LEMMA WorkerTypesStep ==
    ASSUME Shapes, TypeOK, Unstarted, OnceEach, FreshStart, NEW r \in Runs, Step(r)
    PROVE  WorkerTypes' /\ OthersKeep(r)
  <1> DEFINE Same == \A q \in Runs \ {r} :
               worker'[q] = worker[q] /\ results'[q] = results[q] /\ happened'[q] = happened[q]
  <1>0. /\ worker \in [Runs -> WorkerState] /\ worker[r] \in WorkerState
        /\ results \in [Runs -> Seq(Result)] /\ results[r] \in Seq(Result)
        /\ happened \in [Runs -> [Units -> Outcome \cup {None}]]
        /\ \A q \in Runs : IsSuffix(worker[q].todo, plan[q].units)
    BY ShapeFacts DEF TypeOK
  <1>1. plan' = plan /\ foreign' = foreign
    BY DEF Step, WorkerStep, Setup, SetupFails, Parse, UnitRaises, RunFeatures, MakeDir, OpenReport,
       FillReport, WriteFails, Teardown, Start, Collect, SignalDeath, Kill, Die, Merge, MergeNext,
       BuildReport, List, Unlink, UnlinkRefused, CheckEmpty, RemoveDir, RemoveDirRefused, Crash,
       workerVars, dirVars
  <1>2. \A q \in Runs \ {r} : run'[q] = run[q]
    <2>1. Start(r) \/ Collect(r) \/ Merge(r) \/ Crash(r) \/ run' = run
      BY DEF Step, SignalDeath, Kill
    <2> QED
      BY <2>1, CoordEffect DEF Merge, RunIs, RunMoves
  <1>3. /\ worker' \in [Runs -> WorkerState] /\ results' \in [Runs -> Seq(Result)]
        /\ happened' \in [Runs -> [Units -> Outcome \cup {None}]]
        /\ Same /\ IsSuffix(worker'[r].todo, plan[r].units)
    <2>9. ASSUME NEW s \in WorkerState, worker' = [worker EXCEPT ![r] = s], s.todo = worker[r].todo
          PROVE  /\ worker' \in [Runs -> WorkerState] /\ IsSuffix(worker'[r].todo, plan[r].units)
                 /\ \A q \in Runs \ {r} : worker'[q] = worker[q]
      BY <1>0, <2>9
    <2>1. CASE Setup(r)
      <3>1. PICK broken \in BOOLEAN :
              worker' = [worker EXCEPT ![r].pc = "idle", ![r].aborted = broken,
                                       ![r].hook_failures = IF broken THEN 1 ELSE 0]
        BY <2>1 DEF Setup
      <3> DEFINE s == [worker[r] EXCEPT !.pc = "idle", !.aborted = broken,
                                        !.hook_failures = IF broken THEN 1 ELSE 0]
      <3>2. worker' = [worker EXCEPT ![r] = s]
        BY <1>0, <3>1
      <3>3. s \in WorkerState /\ s.todo = worker[r].todo
        <4>1. ASSUME NEW h \in 0..1
              PROVE  LET t == [worker[r] EXCEPT !.pc = "idle", !.aborted = broken, !.hook_failures = h]
                     IN  t \in WorkerState /\ t.todo = worker[r].todo
          BY <1>0 DEF WorkerState, Places
        <4>2. (IF broken THEN 1 ELSE 0) \in 0..1
          OBVIOUS
        <4> QED
          BY <4>1, <4>2
      <3> HIDE DEF s
      <3> QED
        BY <1>0, <2>1, <2>9, <3>2, <3>3 DEF Setup
    <2>2. CASE SetupFails(r)
      <3> DEFINE res == [unit |-> SetupId, failed |-> TRUE, undefined |-> 0, path |-> None]
      <3>1. res \in Result
        BY DEF Result
      <3>2. results' = [results EXCEPT ![r] = Append(@, res)]
        BY <2>2 DEF SetupFails
      <3> HIDE DEF res
      <3>3. results' \in [Runs -> Seq(Result)] /\ \A q \in Runs \ {r} : results'[q] = results[q]
        BY <1>0, <3>1, <3>2
      <3> QED
        BY <1>0, <2>2, <3>3 DEF SetupFails, WorkerState, Places
    <2>3. CASE Parse(r)
      <3> DEFINE s == [Reset(worker[r]) EXCEPT !.pc = "parsed"]
      <3>1. worker' = [worker EXCEPT ![r] = s]
        BY <1>0, <2>3 DEF Parse
      <3>2. s \in WorkerState /\ s.todo = worker[r].todo
        <4>1. Reset(worker[r]) \in WorkerState /\ Reset(worker[r]).todo = worker[r].todo
          <5>1. ASSUME NEW h \in 0..1, NEW g \in 0..1, NEW b \in BOOLEAN
                PROVE  LET t == [worker[r] EXCEPT !.undefined = h, !.hook_failures = g, !.aborted = b]
                       IN  t \in WorkerState /\ t.todo = worker[r].todo
            BY <1>0 DEF WorkerState
          <5>2. 0 \in 0..1 /\ FALSE \in BOOLEAN
            OBVIOUS
          <5> QED
            BY <5>1, <5>2, Zenon DEF Reset
        <4> QED
          BY <4>1 DEF WorkerState, Places
      <3> HIDE DEF s
      <3> QED
        BY <1>0, <2>3, <2>9, <3>1, <3>2 DEF Parse
    <2>4. CASE RunFeatures(r)
      <3>1. PICK o \in Possible(r, Unit(r)) :
              /\ happened' = [happened EXCEPT ![r][Unit(r)] = o]
              /\ worker' = [worker EXCEPT ![r].pc = "ran", ![r].failed = Failed(r, o),
                        ![r].aborted = @ \/ o.aborted,
                        ![r].hook_failures = @ + o.hook_failures,
                        ![r].undefined = @ + o.undefined]
        BY <2>4 DEF RunFeatures
      <3>2. worker[r].pc = "parsed" /\ worker[r].todo # <<>> /\ results' = results
        BY <2>4 DEF RunFeatures, OnceEach
      <3>3. Unit(r) \in Units
        BY <1>0, <3>2 DEF WorkerState, Unit
      <3>4. o \in Outcome
        BY <3>1, <3>3, PossibleOutcomes
      <3>5. happened' \in [Runs -> [Units -> Outcome \cup {None}]]
            /\ \A q \in Runs \ {r} : happened'[q] = happened[q]
        BY <1>0, <3>1, <3>3, <3>4
      <3>6. worker[r].hook_failures = 0 /\ worker[r].undefined = 0 /\ worker[r].aborted = FALSE
        BY <1>0, <3>2 DEF FreshStart, WorkerState
      <3>7. /\ o.hook_failures \in 0..1 /\ o.undefined \in 0..1 /\ o.aborted \in BOOLEAN
            /\ Failed(r, o) \in BOOLEAN
        BY <1>0, <3>4 DEF Outcome, Failed, WorkerState
      <3> DEFINE s == [worker[r] EXCEPT !.pc = "ran", !.failed = Failed(r, o),
                        !.aborted = worker[r].aborted \/ o.aborted,
                        !.hook_failures = worker[r].hook_failures + o.hook_failures,
                        !.undefined = worker[r].undefined + o.undefined]
      <3>8. worker' = [worker EXCEPT ![r] = s]
        BY <1>0, <3>1
      <3>9. s \in WorkerState /\ s.todo = worker[r].todo
        <4>1. /\ worker[r].hook_failures + o.hook_failures \in 0..1
              /\ worker[r].undefined + o.undefined \in 0..1
              /\ (worker[r].aborted \/ o.aborted) \in BOOLEAN
          BY <3>6, <3>7
        <4> QED
          BY <1>0, <3>7, <4>1 DEF WorkerState, Places
      <3> HIDE DEF s
      <3> QED
        BY <1>0, <2>9, <3>2, <3>5, <3>8, <3>9
    <2>5. CASE Gives(r)
      <3>1. IsSuffix(Tail(worker[r].todo), plan[r].units)
        BY <1>0, <2>5, TailOfSuffix, PlanFacts DEF WorkerState, Gives
      <3> QED
        BY <1>0, <2>5, <3>1, PutTypes DEF Gives
    <2>6. CASE Moves(r)
      <3>1. PICK label \in Reporting \cup {"done", "dead"} : Goto(r, label)
        BY <2>6 DEF Moves
      <3> DEFINE s == [worker[r] EXCEPT !.pc = label]
      <3>2. worker' = [worker EXCEPT ![r] = s]
        BY <1>0, <3>1 DEF Goto
      <3>3. s \in WorkerState /\ s.todo = worker[r].todo
        BY <1>0 DEF WorkerState, Places, Reporting
      <3> HIDE DEF s
      <3> QED
        BY <1>0, <2>6, <2>9, <3>2, <3>3 DEF Moves
    <2>7. CASE Start(r)
      <3>1. plan[r].units \in Seq(Units) /\ IsSuffix(plan[r].units, plan[r].units)
        BY PlanFacts, SuffixEnds
      <3> QED
        BY <1>0, <2>7, <3>1 DEF Start, WorkerState, Places
    <2>8. CASE Coordinates(r)
      BY <1>0, <2>8 DEF Coordinates, workerVars
    <2> QED
      BY <2>1, <2>2, <2>3, <2>4, <2>5, <2>6, <2>7, <2>8, StepEffect DEF Effect
  <1> QED
    BY <1>0, <1>1, <1>2, <1>3 DEF WorkerTypes, OthersKeep

-----------------------------------------------------------------------------
(* The worker's record after a step.                                        *)

\* Its place is pc now, and the rest of it as it was.
Goes(r, pc) ==
    /\ worker'[r].pc = pc /\ worker'[r].todo = worker[r].todo
    /\ worker'[r].aborted = worker[r].aborted /\ worker'[r].failed = worker[r].failed
    /\ worker'[r].hook_failures = worker[r].hook_failures
    /\ worker'[r].undefined = worker[r].undefined /\ worker'[r].stops = worker[r].stops

LEMMA WorkerAfter ==
    ASSUME Shapes, TypeOK, OnceEach, FreshStart, NEW r \in Runs
    PROVE  /\ Setup(r) => /\ worker'[r].pc = "idle" /\ worker'[r].todo = worker[r].todo
                          /\ worker'[r].stops = worker[r].stops /\ worker[r].pc = "setup"
           /\ SetupFails(r) =>
                 /\ worker'[r].pc = "teardown" /\ worker'[r].todo = worker[r].todo
                 /\ worker[r].pc = "setup"
                 /\ \E res \in Result : results'[r] = Append(results[r], res)
                                       /\ res.unit = SetupId /\ res.failed
           /\ Parse(r) => /\ worker'[r].pc = "parsed" /\ worker'[r].todo = worker[r].todo
                          /\ worker'[r].stops = worker[r].stops /\ ~worker'[r].aborted
                          /\ worker'[r].hook_failures = 0 /\ worker'[r].undefined = 0
                          /\ worker[r].pc = "idle" /\ worker[r].todo # <<>>
           /\ RunFeatures(r) => \E o \in Outcome :
                 /\ o \in Possible(r, Unit(r)) /\ happened'[r] = [happened[r] EXCEPT ![Unit(r)] = o]
                 /\ worker'[r].pc = "ran" /\ worker'[r].todo = worker[r].todo
                 /\ worker'[r].stops = worker[r].stops /\ worker[r].pc = "parsed"
                 /\ worker'[r].failed = Bad(o) /\ worker'[r].undefined = o.undefined
                 /\ worker'[r].aborted = o.aborted
           /\ Moves(r) => \E label \in Reporting \cup {"done", "dead"} :
                 /\ Goes(r, label)
                 /\ label \in Reporting => worker[r].pc \in Reporting
                 /\ label = "done" => worker[r].pc \notin Reporting
           /\ Start(r) => /\ worker'[r].pc = "setup" /\ worker'[r].todo = plan[r].units
                          /\ worker'[r].stops = worker[r].stops
  <1>0. worker \in [Runs -> WorkerState] /\ worker[r] \in WorkerState
        /\ results \in [Runs -> Seq(Result)]
        /\ happened \in [Runs -> [Units -> Outcome \cup {None}]]
    BY ShapeFacts
  <1>1. ASSUME SetupFails(r)
        PROVE  /\ worker'[r].pc = "teardown" /\ worker'[r].todo = worker[r].todo
               /\ worker[r].pc = "setup"
               /\ \E res \in Result : results'[r] = Append(results[r], res)
                                     /\ res.unit = SetupId /\ res.failed
    <2> DEFINE res == [unit |-> SetupId, failed |-> TRUE, undefined |-> 0, path |-> None]
    <2>1. res \in Result /\ res.unit = SetupId /\ res.failed
      BY DEF Result
    <2>2. results' = [results EXCEPT ![r] = Append(@, res)]
      BY <1>1 DEF SetupFails
    <2> HIDE DEF res
    <2>3. results'[r] = Append(results[r], res)
      BY <1>0, <2>2
    <2>4. worker'[r].pc = "teardown" /\ worker'[r].todo = worker[r].todo /\ worker[r].pc = "setup"
      BY <1>0, <1>1 DEF SetupFails, WorkerState
    <2> QED
      BY <2>1, <2>3, <2>4
  <1>2. ASSUME Parse(r)
        PROVE  /\ worker'[r].pc = "parsed" /\ worker'[r].todo = worker[r].todo
               /\ worker'[r].stops = worker[r].stops /\ ~worker'[r].aborted
               /\ worker'[r].hook_failures = 0 /\ worker'[r].undefined = 0
               /\ worker[r].pc = "idle" /\ worker[r].todo # <<>>
    BY <1>0, <1>2 DEF Parse, Reset, WorkerState
  <1>3. ASSUME RunFeatures(r)
        PROVE  \E o \in Outcome :
                 /\ o \in Possible(r, Unit(r)) /\ happened'[r] = [happened[r] EXCEPT ![Unit(r)] = o]
                 /\ worker'[r].pc = "ran" /\ worker'[r].todo = worker[r].todo
                 /\ worker'[r].stops = worker[r].stops /\ worker[r].pc = "parsed"
                 /\ worker'[r].failed = Bad(o) /\ worker'[r].undefined = o.undefined
                 /\ worker'[r].aborted = o.aborted
    <2>1. PICK o \in Possible(r, Unit(r)) :
            /\ happened' = [happened EXCEPT ![r][Unit(r)] = o]
            /\ worker' = [worker EXCEPT ![r].pc = "ran", ![r].failed = Failed(r, o),
                      ![r].aborted = @ \/ o.aborted,
                      ![r].hook_failures = @ + o.hook_failures,
                      ![r].undefined = @ + o.undefined]
      BY <1>3 DEF RunFeatures
    <2>2. worker[r].pc = "parsed" /\ worker[r].todo # <<>>
      BY <1>3 DEF RunFeatures, OnceEach
    <2>3. o \in Outcome
      BY <1>0, <2>1, <2>2, PossibleOutcomes DEF WorkerState, Unit
    <2>4. worker[r].hook_failures = 0 /\ worker[r].undefined = 0 /\ worker[r].aborted = FALSE
      BY <1>0, <2>2 DEF FreshStart, WorkerState
    <2>5. /\ o.hook_failures \in 0..1 /\ o.undefined \in 0..1 /\ o.aborted \in BOOLEAN
          /\ o.returns \in BOOLEAN
      BY <2>3 DEF Outcome
    <2>6. Failed(r, o) = Bad(o) /\ (worker[r].aborted \/ o.aborted) = o.aborted
          /\ worker[r].undefined + o.undefined = o.undefined
      <3>1. worker[r].undefined + o.undefined = o.undefined /\ (worker[r].aborted \/ o.aborted) = o.aborted
        BY <2>4, <2>5
      <3>2. (worker[r].hook_failures + o.hook_failures > 0) <=> o.hook_failures = 1
        BY <2>4, <2>5
      <3>3. o.undefined > 0 <=> o.undefined = 1
        BY <2>5
      <3>4. Failed(r, o) <=> Bad(o)
        BY <2>4, <3>2, <3>3 DEF Failed, Bad
      <3>5. Failed(r, o) \in BOOLEAN /\ Bad(o) \in BOOLEAN
        BY DEF Failed, Bad
      <3> QED
        BY <3>1, <3>4, <3>5
    <2>7. /\ worker'[r].pc = "ran" /\ worker'[r].todo = worker[r].todo
          /\ worker'[r].stops = worker[r].stops
          /\ worker'[r].failed = Failed(r, o)
          /\ worker'[r].undefined = worker[r].undefined + o.undefined
          /\ worker'[r].aborted = (worker[r].aborted \/ o.aborted)
      BY <1>0, <2>1 DEF WorkerState
    <2>8. happened'[r] = [happened[r] EXCEPT ![Unit(r)] = o]
      BY <1>0, <2>1
    <2> QED
      BY <2>1, <2>2, <2>3, <2>6, <2>7, <2>8
  <1>4. ASSUME Moves(r)
        PROVE  \E label \in Reporting \cup {"done", "dead"} :
                 /\ Goes(r, label)
                 /\ label \in Reporting => worker[r].pc \in Reporting
                 /\ label = "done" => worker[r].pc \notin Reporting
    <2>1. ASSUME NEW label, Goto(r, label) PROVE Goes(r, label)
      BY <1>0, <2>1 DEF Goto, Goes, WorkerState
    <2> QED
      BY <1>4, <2>1 DEF Moves
  <1>5. ASSUME Setup(r)
        PROVE  /\ worker'[r].pc = "idle" /\ worker'[r].todo = worker[r].todo
               /\ worker'[r].stops = worker[r].stops /\ worker[r].pc = "setup"
    BY <1>0, <1>5 DEF Setup, WorkerState
  <1>6. ASSUME Start(r)
        PROVE  /\ worker'[r].pc = "setup" /\ worker'[r].todo = plan[r].units
               /\ worker'[r].stops = worker[r].stops
    BY <1>0, <1>6 DEF Start, WorkerState
  <1> QED
    BY <1>1, <1>2, <1>3, <1>4, <1>5, <1>6

-----------------------------------------------------------------------------
(* The conjuncts of WorkerInv.                                              *)

\* What every proof below starts from.
LEMMA StepFacts ==
    ASSUME WorkerInv, NEW r \in Runs, Step(r)
    PROVE  /\ OthersKeep(r) /\ Effect(r) /\ WorkerTypes'
           /\ worker[r] \in WorkerState /\ results[r] \in Seq(Result)
           /\ happened[r] \in [Units -> Outcome \cup {None}]
           /\ plan[r].units \in Seq(Units) /\ IsInjective(plan[r].units)
  BY WorkerTypesStep, StepEffect, ShapeFacts, PlanFacts DEF WorkerInv

\* Only a run that was not started starts, and after its step it has been.
LEMMA StartedOnce ==
    ASSUME WorkerInv, NEW r \in Runs, Step(r)
    PROVE  /\ worker'[r].pc # "off" /\ run'[r].pc # "new"
           /\ Start(r) \/ (worker[r].pc # "off" /\ run[r].pc # "new")
  <1>1. Effect(r)
    BY StepFacts
  <1>2. run[r].pc = "new" <=> worker[r].pc = "off"
    BY DEF WorkerInv, Unstarted
  <1>3. CASE Setup(r) /\ run' = run
    BY <1>2, <1>3, WorkerAfter DEF WorkerInv
  <1>4. CASE SetupFails(r) /\ run' = run
    BY <1>2, <1>4, WorkerAfter DEF WorkerInv
  <1>5. CASE (Parse(r) \/ RunFeatures(r)) /\ run' = run
    BY <1>2, <1>5, WorkerAfter DEF WorkerInv
  <1>6. CASE Gives(r)
    BY <1>2, <1>6, PutTypes DEF WorkerInv, Gives, Reporting
  <1>7. CASE Moves(r)
    <2>1. worker'[r].pc \in Reporting \cup {"done", "dead"}
      BY <1>7, WorkerAfter DEF WorkerInv, Goes
    <2> QED
      BY <1>2, <1>7, <2>1 DEF Moves, Alive, Reporting
  <1>8. CASE Start(r)
    BY <1>8, WorkerAfter, CoordEffect DEF WorkerInv, RunMoves, RunIs
  <1>9. CASE Coordinates(r)
    BY <1>2, <1>9 DEF Coordinates, workerVars
  <1> QED
    BY <1>1, <1>3, <1>4, <1>5, <1>6, <1>7, <1>8, <1>9 DEF Effect

\* Unstarted is preserved.
LEMMA UnstartedStep ==
    ASSUME WorkerInv, NEW r \in Runs, Step(r) PROVE Unstarted'
  BY StepFacts, StartedOnce DEF WorkerInv, Unstarted, OthersKeep

\* OnceEach is preserved: a unit leaves the list with its result.
LEMMA OnceEachStep ==
    ASSUME WorkerInv, NEW r \in Runs, Step(r) PROVE OnceEach'
  <1> DEFINE Once(q) ==
        /\ \A i, j \in DOMAIN worker[q].todo : worker[q].todo[i] = worker[q].todo[j] => i = j
        /\ worker[q].pc \in {"parsed"} \cup Reporting => worker[q].todo # <<>>
        /\ \A i \in DOMAIN results[q], j \in DOMAIN worker[q].todo :
              results[q][i].unit # worker[q].todo[j]
        /\ worker[q].pc # "dead" => \A j \in DOMAIN worker[q].todo :
              happened[q][worker[q].todo[j]] = None \/ (j = 1 /\ worker[q].pc \in Reporting)
  <1>1. \A q \in Runs : Once(q)
    BY DEF WorkerInv, OnceEach
  <1>2. \A q \in Runs \ {r} : Once(q)'
    BY <1>1, StepFacts DEF OthersKeep
  <1>3. SUFFICES Once(r)'
    BY <1>2, <1>3 DEF OnceEach
  <1>0. /\ Effect(r) /\ worker[r] \in WorkerState /\ results[r] \in Seq(Result)
        /\ worker[r].todo \in Seq(Units)
    BY StepFacts DEF WorkerState
  <1>4. Once(r)
    BY <1>1
  <1>5. CASE Setup(r) \/ Parse(r)
    <2>1. /\ worker'[r].pc \in {"idle", "parsed"} /\ worker'[r].todo = worker[r].todo
          /\ worker[r].pc \in {"setup", "idle"} /\ results' = results /\ happened' = happened
          /\ worker'[r].pc = "parsed" => worker[r].todo # <<>>
      <3>1. CASE Setup(r)
        BY <3>1, WorkerAfter DEF WorkerInv, Setup
      <3>2. CASE Parse(r)
        BY <3>2, WorkerAfter DEF WorkerInv, Parse
      <3> QED
        BY <1>5, <3>1, <3>2
    <2> QED
      BY <1>4, <2>1 DEF Reporting
  <1>6. CASE SetupFails(r)
    <2>1. PICK res \in Result : results'[r] = Append(results[r], res) /\ res.unit = SetupId
      BY <1>6, WorkerAfter DEF WorkerInv
    <2>2. \A i \in DOMAIN results'[r] : (i \in DOMAIN results[r] /\ results'[r][i] = results[r][i])
                                       \/ results'[r][i] = res
      BY <1>0, <2>1
    <2>3. \A j \in DOMAIN worker[r].todo : worker[r].todo[j] # SetupId
      BY <1>0, RunnerAssumption
    <2>4. /\ worker'[r].pc = "teardown" /\ worker'[r].todo = worker[r].todo
          /\ worker[r].pc = "setup" /\ happened' = happened
      BY <1>6, WorkerAfter DEF WorkerInv, SetupFails
    <2>5. \A i \in DOMAIN results'[r], j \in DOMAIN worker[r].todo :
            results'[r][i].unit # worker[r].todo[j]
      BY <1>4, <2>1, <2>2, <2>3
    <2> QED
      BY <1>4, <2>4, <2>5 DEF Reporting
  <1>7. CASE RunFeatures(r)
    <2>1. PICK o \in Outcome :
            /\ happened'[r] = [happened[r] EXCEPT ![Unit(r)] = o]
            /\ worker'[r].pc = "ran" /\ worker'[r].todo = worker[r].todo
            /\ worker[r].pc = "parsed"
      BY <1>7, WorkerAfter DEF WorkerInv
    <2>2. /\ worker[r].todo # <<>> /\ Unit(r) = worker[r].todo[1] /\ 1 \in DOMAIN worker[r].todo
          /\ results' = results
      BY <1>0, <1>4, <1>7, <2>1 DEF Unit, RunFeatures
    <2>3. \A j \in DOMAIN worker[r].todo : j # 1 => happened'[r][worker[r].todo[j]] = None
      BY <1>0, <1>4, <2>1, <2>2, StepFacts DEF Reporting
    <2> QED
      BY <1>4, <2>1, <2>2, <2>3 DEF Reporting
  <1>8. CASE Gives(r)
    <2>1. PICK res \in Result : results'[r] = Append(results[r], res) /\ res.unit = Unit(r)
      BY <1>8, PutTypes DEF WorkerInv
    <2>2. /\ worker'[r].todo = Tail(worker[r].todo) /\ worker'[r].pc \in {"teardown", "idle"}
          /\ worker[r].todo # <<>> /\ happened' = happened /\ worker[r].pc # "dead"
      BY <1>8, PutTypes DEF WorkerInv, Gives, Reporting
    <2>3. Unit(r) = worker[r].todo[1] /\ 1 \in DOMAIN worker[r].todo
      BY <1>0, <2>2 DEF Unit
    <2>4. \A j \in DOMAIN worker'[r].todo :
            /\ j + 1 \in DOMAIN worker[r].todo /\ j \in Nat /\ j + 1 # 1
            /\ worker'[r].todo[j] = worker[r].todo[j + 1]
      BY <1>0, <2>2
    <2>5. \A i \in DOMAIN results'[r] : (i \in DOMAIN results[r] /\ results'[r][i] = results[r][i])
                                       \/ results'[r][i] = res
      BY <1>0, <2>1
    <2>6. \A i, j \in DOMAIN worker'[r].todo : worker'[r].todo[i] = worker'[r].todo[j] => i = j
      BY <1>4, <2>4
    <2>7. \A i \in DOMAIN results'[r], j \in DOMAIN worker'[r].todo :
            results'[r][i].unit # worker'[r].todo[j]
      BY <1>4, <2>1, <2>3, <2>4, <2>5
    <2>8. \A j \in DOMAIN worker'[r].todo : happened'[r][worker'[r].todo[j]] = None
      BY <1>4, <2>2, <2>4
    <2> QED
      BY <2>2, <2>6, <2>7, <2>8 DEF Reporting
  <1>9. CASE Moves(r)
    <2>1. PICK label \in Reporting \cup {"done", "dead"} :
            /\ Goes(r, label)
            /\ label \in Reporting => worker[r].pc \in Reporting
            /\ label = "done" => worker[r].pc \notin Reporting
      BY <1>9, WorkerAfter DEF WorkerInv
    <2>2. worker[r].pc # "dead" /\ results' = results /\ happened' = happened
      BY <1>9 DEF Moves, Alive
    <2> QED
      BY <1>4, <2>1, <2>2 DEF Goes, Reporting
  <1>10. CASE Start(r)
    <2>1. /\ results[r] = <<>> /\ \A u \in Units : happened[r][u] = None
          /\ results' = results /\ happened' = happened
      BY <1>10 DEF Start, WorkerInv, Unstarted
    <2>2. worker'[r].pc = "setup" /\ worker'[r].todo = plan[r].units
      BY <1>10, WorkerAfter DEF WorkerInv
    <2>3. \A j \in DOMAIN plan[r].units : plan[r].units[j] \in Units
      BY StepFacts
    <2>4. \A i, j \in DOMAIN plan[r].units : plan[r].units[i] = plan[r].units[j] => i = j
      BY StepFacts DEF IsInjective
    <2> QED
      BY <2>1, <2>2, <2>3, <2>4 DEF Reporting
  <1>11. CASE Coordinates(r)
    BY <1>4, <1>11 DEF Coordinates, workerVars
  <1> QED
    BY <1>0, <1>5, <1>6, <1>7, <1>8, <1>9, <1>10, <1>11 DEF Effect

\* Which steps lead to a unit that is parsed, or to one that was run.
LEMMA UnitInHand ==
    ASSUME WorkerInv, NEW r \in Runs, Step(r)
    PROVE  /\ worker'[r].pc = "parsed" => Parse(r) \/ worker' = worker
           /\ worker'[r].pc \in Reporting =>
                 \/ RunFeatures(r)
                 \/ worker[r].pc \in Reporting /\ Goes(r, worker'[r].pc) /\ happened' = happened
           /\ RunFeatures(r) \/ happened' = happened
  <1>1. Effect(r)
    BY StepFacts
  <1>2. CASE Setup(r) \/ SetupFails(r) \/ Parse(r)
    <2>1. worker'[r].pc \notin Reporting /\ (worker'[r].pc = "parsed" => Parse(r))
      <3>1. CASE Setup(r)
        BY <3>1, WorkerAfter DEF WorkerInv, Reporting
      <3>2. CASE SetupFails(r)
        BY <3>2, WorkerAfter DEF WorkerInv, Reporting
      <3>3. CASE Parse(r)
        BY <3>3, WorkerAfter DEF WorkerInv, Reporting
      <3> QED
        BY <1>2, <3>1, <3>2, <3>3
    <2> QED
      BY <1>2, <2>1 DEF Setup, SetupFails, Parse
  <1>3. CASE RunFeatures(r)
    <2>1. worker'[r].pc = "ran"
      BY <1>3, WorkerAfter DEF WorkerInv
    <2> QED
      BY <1>3, <2>1
  <1>4. CASE Gives(r)
    <2>1. worker'[r].pc \in {"teardown", "idle"} /\ happened' = happened
      BY <1>4, PutTypes DEF WorkerInv, Gives
    <2> QED
      BY <2>1 DEF Reporting
  <1>5. CASE Moves(r)
    <2>1. PICK label \in Reporting \cup {"done", "dead"} :
            Goes(r, label) /\ (label \in Reporting => worker[r].pc \in Reporting)
      BY <1>5, WorkerAfter DEF WorkerInv
    <2>2. worker'[r].pc = label
      BY <2>1 DEF Goes
    <2> QED
      BY <1>5, <2>1, <2>2 DEF Moves, Reporting
  <1>6. CASE Start(r)
    <2>1. worker'[r].pc = "setup" /\ happened' = happened
      BY <1>6, WorkerAfter DEF WorkerInv, Start
    <2> QED
      BY <2>1 DEF Reporting
  <1>7. CASE Coordinates(r)
    BY <1>7 DEF Coordinates, workerVars, Goes
  <1> QED
    BY <1>1, <1>2, <1>3, <1>4, <1>5, <1>6, <1>7 DEF Effect

\* FreshStart is preserved: only Parse leads to a parsed unit.
LEMMA FreshStartStep ==
    ASSUME WorkerInv, NEW r \in Runs, Step(r) PROVE FreshStart'
  <1>1. \A q \in Runs \ {r} : worker'[q] = worker[q]
    BY StepFacts DEF OthersKeep
  <1>2. Parse(r) => ~worker'[r].aborted /\ worker'[r].hook_failures = 0 /\ worker'[r].undefined = 0
    BY WorkerAfter DEF WorkerInv
  <1> QED
    BY <1>1, <1>2, UnitInHand DEF WorkerInv, FreshStart

\* OwnOutcome is preserved: the fields are set from the unit's outcome, and
\* kept until its result is put.
LEMMA OwnOutcomeStep ==
    ASSUME WorkerInv, NEW r \in Runs, Step(r) PROVE OwnOutcome'
  <1> DEFINE Own(q) == worker[q].pc \in Reporting =>
                LET o == happened[q][Unit(q)] IN
                /\ o \in Outcome
                /\ worker[q].failed <=> Bad(o)
                /\ worker[q].undefined = o.undefined
                /\ worker[q].aborted => worker[q].failed
  <1>1. \A q \in Runs : Own(q)
    BY DEF WorkerInv, OwnOutcome
  <1>2. \A q \in Runs \ {r} : Own(q)'
    BY <1>1, StepFacts DEF OthersKeep, Unit
  <1>3. ASSUME worker'[r].pc \in Reporting, RunFeatures(r) PROVE Own(r)'
    <2>1. PICK o \in Outcome :
            /\ happened'[r] = [happened[r] EXCEPT ![Unit(r)] = o]
            /\ worker'[r].todo = worker[r].todo /\ worker[r].pc = "parsed"
            /\ worker'[r].failed = Bad(o) /\ worker'[r].undefined = o.undefined
            /\ worker'[r].aborted = o.aborted
      BY <1>3, WorkerAfter DEF WorkerInv
    <2>2. worker[r].todo # <<>>
      BY <2>1 DEF WorkerInv, OnceEach
    <2>3. Unit(r) \in Units
      BY <2>2, StepFacts DEF WorkerState, Unit
    <2>4. Unit(r)' = Unit(r)
      BY <2>1 DEF Unit
    <2>5. happened'[r][Unit(r)'] = o
      BY <2>1, <2>3, <2>4, StepFacts
    <2>6. worker'[r].aborted => worker'[r].failed
      BY <2>1 DEF Bad
    <2> QED
      BY <2>1, <2>5, <2>6
  <1>4. ASSUME worker[r].pc \in Reporting, Goes(r, worker'[r].pc), happened' = happened
        PROVE  Own(r)'
    BY <1>1, <1>4 DEF Goes, Unit
  <1>5. Own(r)'
    BY <1>3, <1>4, UnitInHand
  <1> QED
    BY <1>2, <1>5 DEF OwnOutcome

\* A step puts no result, one of a failed setup, or that of the unit in hand.
NewResult(r, res) ==
    /\ results'[r] = Append(results[r], res)
    /\ happened' = happened
    /\ \/ res.unit = SetupId /\ res.failed
       \/ /\ res.unit = Unit(r) /\ worker[r].todo # <<>>
          /\ worker'[r].stops = worker[r].aborted
          /\ \/ worker[r].pc \in {"idle", "parsed"} /\ res.failed
             \/ /\ worker[r].pc \in Reporting
                /\ res.failed = worker[r].failed /\ res.undefined = worker[r].undefined

LEMMA ResultsAfter ==
    ASSUME WorkerInv, NEW r \in Runs, Step(r)
    PROVE  \/ /\ results'[r] = results[r]
              /\ worker'[r].stops = worker[r].stops
           \/ \E res \in Result : NewResult(r, res)
  <1>1. Effect(r)
    BY StepFacts
  <1>2. CASE SetupFails(r)
    BY <1>2, WorkerAfter, Zenon DEF WorkerInv, SetupFails, NewResult
  <1>3. CASE Gives(r)
    BY <1>3, PutTypes, Zenon DEF WorkerInv, Gives, NewResult
  <1>4. CASE Moves(r)
    BY <1>4, WorkerAfter DEF WorkerInv, Moves, Goes
  <1>5. CASE Setup(r)
    BY <1>5, WorkerAfter DEF WorkerInv, Setup
  <1>6. CASE Parse(r)
    BY <1>6, WorkerAfter DEF WorkerInv, Parse
  <1>7. CASE RunFeatures(r)
    BY <1>7, WorkerAfter DEF WorkerInv, RunFeatures
  <1>8. CASE Start(r)
    BY <1>8, WorkerAfter DEF WorkerInv, Start
  <1>9. CASE Coordinates(r)
    BY <1>9 DEF Coordinates, workerVars
  <1> QED
    BY <1>1, <1>2, <1>3, <1>4, <1>5, <1>6, <1>7, <1>8, <1>9 DEF Effect

\* UnitsIsolated is preserved.  A unit that is run has no result yet, and the
\* result that is put is made of the fields, which are the unit's own.
LEMMA UnitsIsolatedStep ==
    ASSUME WorkerInv, NEW r \in Runs, Step(r) PROVE UnitsIsolated'
  <1> DEFINE Tells(res, o) ==
               /\ res.failed <=> o.returns \/ o.aborted \/ o.hook_failures = 1 \/ o.undefined = 1
               /\ res.undefined = o.undefined
             Isolated(res, h) == res.unit \in Units /\ h[res.unit] # None =>
                                    Tells(res, h[res.unit])
  <1>1. \A q \in Runs : \A i \in DOMAIN results[q] : Isolated(results[q][i], happened[q])
    BY DEF WorkerInv, UnitsIsolated
  <1>2. \A q \in Runs \ {r} : \A i \in DOMAIN results'[q] :
          results'[q] = results[q] /\ happened'[q] = happened[q]
    BY StepFacts DEF OthersKeep
  <1>a. (\A q \in Runs : \A i \in DOMAIN results'[q] : Isolated(results'[q][i], happened'[q]))
          => UnitsIsolated'
    BY DEF UnitsIsolated
  <1> HIDE DEF Isolated
  <1>b. \A q \in Runs \ {r} : \A i \in DOMAIN results'[q] : Isolated(results'[q][i], happened'[q])
    BY <1>1, <1>2
  <1>3. SUFFICES \A i \in DOMAIN results'[r] : Isolated(results'[r][i], happened'[r])
    BY <1>a, <1>b, <1>3
  <1> USE DEF Isolated
  <1>4. CASE results'[r] = results[r] /\ RunFeatures(r)
    <2>1. PICK o \in Outcome :
            happened'[r] = [happened[r] EXCEPT ![Unit(r)] = o] /\ worker[r].pc = "parsed"
      BY <1>4, WorkerAfter DEF WorkerInv
    <2>2. worker[r].todo # <<>>
      BY <2>1 DEF WorkerInv, OnceEach
    <2>3. 1 \in DOMAIN worker[r].todo /\ Unit(r) = worker[r].todo[1]
      BY <2>2, StepFacts DEF WorkerState, Unit
    <2>4. \A i \in DOMAIN results[r] : results[r][i].unit # Unit(r)
      BY <2>3 DEF WorkerInv, OnceEach
    <2>5. \A u \in Units : u # Unit(r) => happened'[r][u] = happened[r][u]
      BY <2>1, StepFacts
    <2> QED
      BY <1>1, <1>4, <2>4, <2>5
  <1>5. CASE results'[r] = results[r] /\ happened' = happened
    BY <1>1, <1>5
  <1>6. ASSUME NEW res \in Result, NewResult(r, res)
        PROVE  \A i \in DOMAIN results'[r] : Isolated(results'[r][i], happened'[r])
    <2>1. happened' = happened /\ results'[r] = Append(results[r], res)
      BY <1>6 DEF NewResult
    <2>2. \A i \in DOMAIN results'[r] : (i \in DOMAIN results[r] /\ results'[r][i] = results[r][i])
                                       \/ results'[r][i] = res
      BY <2>1, StepFacts
    <2>3. Isolated(res, happened[r])
      <3>1. CASE res.unit = SetupId
        BY <3>1, RunnerAssumption
      <3>2. CASE res.unit = Unit(r) /\ worker[r].todo # <<>> /\ worker[r].pc \in {"idle", "parsed"}
        <4>1. 1 \in DOMAIN worker[r].todo /\ Unit(r) = worker[r].todo[1]
          BY <3>2, StepFacts DEF WorkerState, Unit
        <4>2. happened[r][Unit(r)] = None
          BY <3>2, <4>1 DEF WorkerInv, OnceEach, Reporting
        <4> QED
          BY <3>2, <4>2
      <3>3. CASE /\ res.unit = Unit(r) /\ worker[r].pc \in Reporting
                 /\ res.failed = worker[r].failed /\ res.undefined = worker[r].undefined
        BY <3>3 DEF WorkerInv, OwnOutcome, Bad
      <3> QED
        BY <1>6, <3>1, <3>2, <3>3 DEF NewResult
    <2> QED
      BY <1>1, <2>1, <2>2, <2>3
  <1> QED
    BY <1>4, <1>5, <1>6, ResultsAfter, UnitInHand

\* StopsOnlyOnFailure is preserved: results stay, and an abort makes the
\* result that is put with it a failed one.
LEMMA StopsStep ==
    ASSUME WorkerInv, NEW r \in Runs, Step(r) PROVE StopsOnlyOnFailure'
  <1>1. \A q \in Runs \ {r} : worker'[q] = worker[q] /\ results'[q] = results[q]
    BY StepFacts DEF OthersKeep
  <1>2. \A q \in Runs : worker[q].stops => \E i \in DOMAIN results[q] : results[q][i].failed
    BY DEF WorkerInv, StopsOnlyOnFailure
  <1>3. SUFFICES worker'[r].stops => \E i \in DOMAIN results'[r] : results'[r][i].failed
    BY <1>1, <1>2, <1>3 DEF StopsOnlyOnFailure
  <1>4. ASSUME NEW res \in Result, NewResult(r, res), worker'[r].stops
        PROVE  \E i \in DOMAIN results'[r] : results'[r][i].failed
    <2>1. /\ Len(results[r]) + 1 \in DOMAIN results'[r]
          /\ results'[r][Len(results[r]) + 1] = res
      BY <1>4, StepFacts DEF NewResult
    <2>2. res.failed
      BY <1>4 DEF NewResult, WorkerInv, OwnOutcome
    <2> QED
      BY <2>1, <2>2
  <1> QED
    BY <1>2, <1>4, ResultsAfter

\* DryRunsNothing is preserved: the option is one of those a worker gets.
LEMMA DryRunStep ==
    ASSUME WorkerInv, NEW r \in Runs, Step(r) PROVE DryRunsNothing'
  <1>1. plan' = plan /\ \A q \in Runs \ {r} : happened'[q] = happened[q]
    BY StepFacts DEF OthersKeep
  <1>2. \A q \in Runs, u \in Units : plan[q].config.dry_run => ~Executed(q, u)
    BY DEF WorkerInv, DryRunsNothing
  <1>3. ASSUME NEW u \in Units, plan[r].config.dry_run, RunFeatures(r)
        PROVE  ~Executed(r, u)'
    <2>1. PICK o \in Outcome :
            /\ o \in Possible(r, Unit(r)) /\ happened'[r] = [happened[r] EXCEPT ![Unit(r)] = o]
      BY <1>3, WorkerAfter DEF WorkerInv
    <2>2. WorkerConfig(r).dry_run
      BY <1>3 DEF WorkerConfig, make_config, snapshot_config
    <2>3. o.status \in {"untested", "skipped", "undefined"}
      BY <2>1, <2>2 DEF Possible, Idle
    <2>4. happened'[r][u] = o \/ happened'[r][u] = happened[r][u]
      BY <2>1, StepFacts
    <2> QED
      BY <1>2, <1>3, <2>3, <2>4 DEF Executed
  <1>4. ASSUME NEW u \in Units, plan[r].config.dry_run PROVE ~Executed(r, u)'
    BY <1>2, <1>3, <1>4, UnitInHand DEF Executed
  <1> QED
    BY <1>1, <1>2, <1>4 DEF DryRunsNothing, Executed

-----------------------------------------------------------------------------
(* What a step does to the directory.                                       *)

\* Only a run's worker acts for it while its coordinator's record stays.
LEMMA WorkerActs ==
    ASSUME WorkerInv, NEW r \in Runs, Step(r)
    PROVE  \/ run' = run /\ Alive(r)
           \/ /\ Start(r) \/ Collect(r) \/ MergeNext(r) \/ BuildReport(r) \/ List(r) \/ Unlink(r)
                 \/ UnlinkRefused(r) \/ CheckEmpty(r) \/ RemoveDir(r) \/ RemoveDirRefused(r) \/ Crash(r)
              /\ happened' = happened /\ results' = results
              /\ worker' = worker \/ Start(r)
  <1>1. CASE WorkerStep(r) /\ run' = run
    <2>1. worker[r].pc \in {"setup", "idle", "parsed", "ran", "mkdir", "opened", "teardown"}
      BY <1>1 DEF WorkerStep, Setup, SetupFails, Parse, UnitRaises, RunFeatures, MakeDir,
         OpenReport, FillReport, WriteFails, Teardown
    <2> QED
      BY <1>1, <2>1 DEF Alive
  <1>2. CASE SignalDeath(r) \/ Kill(r)
    BY <1>2 DEF SignalDeath, Kill, Die
  <1>3. CASE Start(r) \/ Collect(r) \/ Merge(r) \/ Crash(r)
    BY <1>3 DEF Start, Collect, Merge, MergeNext, BuildReport, List, Unlink, UnlinkRefused, CheckEmpty,
       RemoveDir, RemoveDirRefused, Crash, workerVars
  <1> QED
    BY <1>1, <1>2, <1>3 DEF Step

\* The steps that do anything there.
LEMMA DirSteps ==
    ASSUME NEW r \in Runs, Step(r)
    PROVE  \/ UNCHANGED dirVars
           \/ (MakeDir(r) \/ OpenReport(r) \/ FillReport(r)) /\ run' = run
           \/ Unlink(r) \/ RemoveDir(r)
  BY DEF Step, WorkerStep, Setup, SetupFails, Parse, UnitRaises, RunFeatures, WriteFails, Teardown,
     Start, Collect, SignalDeath, Kill, Die, Merge, MergeNext, BuildReport, List, UnlinkRefused,
     CheckEmpty, RemoveDirRefused, Crash, dirVars

\* A file that is there after a step was there, or the run that steps wrote it.
LEMMA FilesAfter ==
    ASSUME WorkerInv, NEW r \in Runs, Step(r)
    PROVE  \A f \in DOMAIN files' :
              /\ DOMAIN files'[f] = {"run", "feature"}
              /\ f \in DOMAIN files \/ OpenReport(r)
              /\ (f \in DOMAIN files /\ files'[f].run = files[f].run)
                 \/ (files'[f].run = r /\ Alive(r) /\ run' = run)
  <1>1. \A f \in DOMAIN files : DOMAIN files[f] = {"run", "feature"}
    BY DEF WorkerInv, Shapes
  <1>2. CASE files' = files
    BY <1>1, <1>2
  <1>3. CASE OpenReport(r) /\ run' = run
    <2>1. Alive(r)
      BY <1>3 DEF OpenReport, Alive
    <2> QED
      BY <1>1, <1>3, <2>1 DEF OpenReport
  <1>4. CASE FillReport(r) /\ run' = run
    <2>1. Alive(r)
      BY <1>4 DEF FillReport, Alive
    <2> QED
      BY <1>1, <1>4, <2>1 DEF FillReport
  <1>5. CASE Unlink(r)
    BY <1>1, <1>5 DEF Unlink
  <1> QED
    BY <1>2, <1>3, <1>4, <1>5, DirSteps DEF MakeDir, RemoveDir, dirVars

\* The directory after a step, and who was disturbed.
LEMMA DirAfter ==
    ASSUME WorkerInv, NEW r \in Runs, Step(r)
    PROVE  /\ tmp' \in BOOLEAN
           /\ \/ tmp' = tmp
              \/ tmp' /\ run' = run
              \/ /\ RemoveDir(r) /\ ~tmp' /\ DOMAIN files = {} /\ files' = files
                 /\ \A q \in Runs \ {r} : Active(q) => "dir" \in disturbed'[q]
           /\ RemoveDir(r) => files' = files /\ (DOMAIN files = {} => ~tmp')
           /\ disturbed' \in [Runs -> SUBSET {"file", "dir"}]
           /\ \A q \in Runs : disturbed[q] \subseteq disturbed'[q]
  <1>0. tmp \in BOOLEAN /\ disturbed \in [Runs -> SUBSET {"file", "dir"}]
    BY DEF WorkerInv, TypeOK
  <1>1. ASSUME NEW f, Touch(r, f)
        PROVE  /\ disturbed' \in [Runs -> SUBSET {"file", "dir"}]
               /\ \A q \in Runs : disturbed[q] \subseteq disturbed'[q]
    BY <1>0, <1>1 DEF Touch
  <1>2. CASE RemoveDir(r)
    <2> DEFINE removed == tmp /\ DOMAIN files = {}
    <2>1. /\ tmp' = (tmp /\ ~removed) /\ files' = files
          /\ disturbed' = [q \in Runs |-> disturbed[q] \cup
                IF q # r /\ Active(q) /\ removed THEN {"dir"} ELSE {}]
      BY <1>2 DEF RemoveDir
    <2>2. /\ disturbed' \in [Runs -> SUBSET {"file", "dir"}]
          /\ \A q \in Runs : disturbed[q] \subseteq disturbed'[q]
          /\ removed => \A q \in Runs \ {r} : Active(q) => "dir" \in disturbed'[q]
      BY <1>0, <2>1
    <2> QED
      BY <1>0, <1>2, <2>1, <2>2
  <1>3. CASE UNCHANGED dirVars
    BY <1>0, <1>2, <1>3 DEF dirVars
  <1>4. CASE MakeDir(r) /\ run' = run
    BY <1>0, <1>2, <1>4 DEF MakeDir
  <1>5. CASE OpenReport(r) \/ FillReport(r) \/ Unlink(r)
    <2>1. tmp' = tmp /\ \E f : Touch(r, f)
      BY <1>5 DEF OpenReport, FillReport, Unlink
    <2> QED
      BY <1>0, <1>1, <1>2, <2>1
  <1> QED
    BY <1>2, <1>3, <1>4, <1>5, DirSteps

-----------------------------------------------------------------------------
(* The rest of WorkerInv.                                                   *)

\* The coordinator's record has its types after every step, and what it has
\* read of the results is still a prefix of them.
LEMMA CoordinatorTypes ==
    ASSUME WorkerInv, NEW r \in Runs, Step(r)
    PROVE  /\ DOMAIN run' = Runs /\ DOMAIN run'[r] = RunFields
           /\ run'[r].pc \in RunPlaces /\ run'[r].rushed \in BOOLEAN
           /\ run'[r].collected \in Seq(Result) /\ IsPrefix(run'[r].collected, results'[r])
           /\ run'[r].n \in 0..Len(run'[r].collected)
           /\ run'[r].pc \in {"new", "working"} => run'[r].n = 0
  <1>0. /\ DOMAIN run = Runs /\ DOMAIN run[r] = RunFields
        /\ run[r].pc \in RunPlaces /\ run[r].rushed \in BOOLEAN
        /\ run[r].collected \in Seq(Result) /\ IsPrefix(run[r].collected, results[r])
        /\ run[r].n \in 0..Len(run[r].collected)
        /\ run[r].pc \in {"new", "working"} => run[r].n = 0
    BY DEF WorkerInv, TypeOK, Shapes, Unread
  <1>1. CASE run' = run
    <2>1. ASSUME NEW res \in Result, results'[r] = Append(results[r], res)
          PROVE  IsPrefix(run[r].collected, results'[r])
      BY <1>0, <2>1, PrefixGrows, StepFacts
    <2>2. IsPrefix(run[r].collected, results'[r])
      BY <1>0, <2>1, ResultsAfter DEF NewResult
    <2> QED
      BY <1>0, <1>1, <2>2
  <1>2. CASE Collect(r) /\ results' = results
    <2>1. PICK m \in 0..Len(results[r]) :
            RunIs(r, "merging", Alive(r), SubSeq(results[r], 1, m), run[r].n, run[r].listing)
      BY <1>2, CoordEffect DEF WorkerInv
    <2>2. /\ SubSeq(results[r], 1, m) \in Seq(Result) /\ Len(SubSeq(results[r], 1, m)) = m
          /\ IsPrefix(SubSeq(results[r], 1, m), results[r])
      BY PrefixRead, StepFacts
    <2>3. Alive(r) \in BOOLEAN /\ run[r].n = 0 /\ 0 \in 0..m
      BY <1>0, <1>2, StepFacts DEF Alive, Collect
    <2> QED
      BY <1>2, <2>1, <2>2, <2>3 DEF RunIs, RunPlaces
  <1>3. CASE MergeNext(r) /\ results' = results
    <2>1. RunIs(r, "merging", run[r].rushed, run[r].collected, run[r].n + 1, run[r].listing)
      BY <1>3, CoordEffect DEF WorkerInv
    <2>2. run[r].n + 1 \in 0..Len(run[r].collected)
      BY <1>0, <1>3 DEF MergeNext
    <2> QED
      BY <1>0, <1>3, <2>1, <2>2 DEF RunIs, RunPlaces
  <1>4. ASSUME NEW pc \in RunPlaces, NEW listing,
               RunIs(r, pc, run[r].rushed, run[r].collected, run[r].n, listing), results' = results,
               pc \in {"new", "working"} => run[r].pc \in {"new", "working"}
        PROVE  /\ DOMAIN run' = Runs /\ DOMAIN run'[r] = RunFields
               /\ run'[r].pc \in RunPlaces /\ run'[r].rushed \in BOOLEAN
               /\ run'[r].collected \in Seq(Result) /\ IsPrefix(run'[r].collected, results'[r])
               /\ run'[r].n \in 0..Len(run'[r].collected)
               /\ run'[r].pc \in {"new", "working"} => run'[r].n = 0
    BY <1>0, <1>4 DEF RunIs
  <1>5. CASE Start(r) /\ results' = results
    <2>1. RunMoves(r, "working") /\ run[r].pc = "new"
      BY <1>5, CoordEffect DEF WorkerInv, Start
    <2> QED
      BY <1>4, <1>5, <2>1 DEF RunMoves, RunPlaces
  <1>6. CASE (BuildReport(r) \/ List(r) \/ Unlink(r) \/ UnlinkRefused(r)) /\ results' = results
    <2>1. \E pc \in {"listing", "unlinking", "done"} : \E listing :
            RunIs(r, pc, run[r].rushed, run[r].collected, run[r].n, listing)
      BY <1>6, CoordEffect DEF WorkerInv, RunMoves
    <2> QED
      BY <1>4, <1>6, <2>1 DEF RunPlaces
  <1>7. CASE (CheckEmpty(r) \/ RemoveDir(r) \/ RemoveDirRefused(r) \/ Crash(r)) /\ results' = results
    <2>1. \E pc \in {"raised", "removing", "done", "crashed"} :
            RunMoves(r, pc)
      BY <1>7, CoordEffect DEF WorkerInv
    <2> QED
      BY <1>4, <1>7, <2>1 DEF RunPlaces, RunMoves
  <1> QED
    BY <1>1, <1>2, <1>3, <1>5, <1>6, <1>7, WorkerActs

\* TypeOK, Shapes and Unread are preserved.
LEMMA TypeStep ==
    ASSUME WorkerInv, NEW r \in Runs, Step(r) PROVE TypeOK' /\ Shapes' /\ Unread'
  <1>1. /\ plan' = plan /\ foreign' = foreign
        /\ \A q \in Runs \ {r} : run'[q] = run[q] /\ results'[q] = results[q]
    BY StepFacts DEF OthersKeep
  <1>2. /\ worker' \in [Runs -> WorkerState] /\ results' \in [Runs -> Seq(Result)]
        /\ happened' \in [Runs -> [Units -> Outcome \cup {None}]]
        /\ \A q \in Runs : IsSuffix(worker'[q].todo, plan'[q].units)
    BY StepFacts DEF WorkerTypes
  <1>3. \A q \in Runs :
          /\ DOMAIN run'[q] = RunFields
          /\ run'[q].pc \in RunPlaces /\ run'[q].rushed \in BOOLEAN
          /\ run'[q].collected \in Seq(Result) /\ IsPrefix(run'[q].collected, results'[q])
          /\ run'[q].n \in 0..Len(run'[q].collected)
          /\ run'[q].pc \in {"new", "working"} => run'[q].n = 0
    BY <1>1, CoordinatorTypes DEF WorkerInv, TypeOK, Shapes, Unread
  <1>4. \A f \in DOMAIN files' : files'[f].run \in Runs /\ DOMAIN files'[f] = {"run", "feature"}
    BY FilesAfter DEF WorkerInv, TypeOK
  <1>5. plan' \in Plans /\ foreign' \in BOOLEAN
    BY <1>1 DEF WorkerInv, TypeOK
  <1>6. tmp' \in BOOLEAN /\ disturbed' \in [Runs -> SUBSET {"file", "dir"}]
    BY DirAfter
  <1>7. \A q \in Runs :
          /\ worker'[q].pc \in Places
          /\ {worker'[q].aborted, worker'[q].failed, worker'[q].stops} \subseteq BOOLEAN
          /\ worker'[q].hook_failures \in 0..1 /\ worker'[q].undefined \in 0..1
          /\ results'[q] \in Seq(Result)
    BY <1>2 DEF WorkerState
  <1>8. TypeOK'
    BY <1>2, <1>3, <1>4, <1>5, <1>6, <1>7 DEF TypeOK
  <1>9. Shapes' /\ Unread'
    BY <1>2, <1>3, <1>4, CoordinatorTypes DEF Shapes, Unread
  <1> QED
    BY <1>8, <1>9

-----------------------------------------------------------------------------
(* The conjuncts of DirInv.                                                 *)

\* FilesInTmp is preserved: a file is created in a directory that is there,
\* and only an empty directory is removed.
LEMMA FilesInTmpStep ==
    ASSUME SharedInv, NEW r \in Runs, Step(r) PROVE FilesInTmp'
  <1>1. /\ DOMAIN files # {} => tmp
        /\ \A f \in DOMAIN files : files[f].run \in Runs /\ run[files[f].run].pc # "new"
    BY DEF SharedInv, DirInv, FilesInTmp, WorkerInv, TypeOK
  <1>2. \A f \in DOMAIN files' : (f \in DOMAIN files /\ files'[f].run = files[f].run) \/ files'[f].run = r
    BY FilesAfter DEF SharedInv
  <1>3. \A q \in Runs : run[q].pc # "new" \/ q = r => run'[q].pc # "new"
    BY StartedOnce, StepFacts DEF SharedInv, OthersKeep
  <1>4. \A f \in DOMAIN files' : run'[files'[f].run].pc # "new"
    BY <1>1, <1>2, <1>3
  <1>5. ASSUME DOMAIN files' # {} PROVE tmp'
    <2>1. DOMAIN files # {} \/ OpenReport(r)
      BY <1>5, FilesAfter DEF SharedInv
    <2>2. tmp
      BY <1>1, <2>1 DEF OpenReport
    <2>3. tmp' \in BOOLEAN /\ (tmp' = tmp \/ tmp' \/ (DOMAIN files = {} /\ files' = files))
      BY DirAfter DEF SharedInv
    <2> QED
      BY <1>5, <2>2, <2>3
  <1> QED
    BY <1>4, <1>5 DEF FilesInTmp

\* WorkerEnded is preserved: Collect notes whether the worker is alive, and a
\* worker that has ended does nothing any more.
LEMMA WorkerEndedStep ==
    ASSUME SharedInv, NEW r \in Runs, Step(r) PROVE WorkerEnded'
  <1> DEFINE After == {"merging", "listing", "unlinking", "removing", "done", "raised"}
  <1>0. /\ WorkerInv
        /\ \A q \in Runs : run[q].pc \in After /\ ~run[q].rushed => worker[q].pc \in {"done", "dead"}
    BY DEF SharedInv, DirInv, WorkerEnded
  <1>1. \A q \in Runs \ {r} : run'[q] = run[q] /\ worker'[q] = worker[q]
    BY <1>0, StepFacts DEF OthersKeep
  <1>2. ASSUME run'[r].pc \in After, ~run'[r].rushed PROVE worker'[r].pc \in {"done", "dead"}
    <2>1. CASE run' = run /\ Alive(r)
      BY <1>0, <1>2, <2>1 DEF Alive
    <2>2. CASE Start(r)
      BY <1>0, <1>2, <2>2, CoordEffect DEF WorkerInv, RunMoves, RunIs
    <2>3. CASE Collect(r) /\ worker' = worker
      <3>1. ~Alive(r) /\ worker[r].pc # "off"
        BY <1>0, <1>2, <2>3, CoordEffect DEF WorkerInv, RunIs, Unstarted, Collect
      <3> QED
        BY <2>3, <3>1 DEF Alive
    <2>4. CASE /\ MergeNext(r) \/ BuildReport(r) \/ List(r) \/ Unlink(r) \/ UnlinkRefused(r)
               /\ worker' = worker
      <3>1. run'[r].rushed = run[r].rushed /\ run[r].pc \in After
        <4>1. CASE MergeNext(r) \/ BuildReport(r)
          BY <1>0, <4>1, CoordEffect DEF WorkerInv, RunMoves, RunIs, MergeNext, BuildReport
        <4>2. CASE List(r) \/ Unlink(r) \/ UnlinkRefused(r)
          BY <1>0, <4>2, CoordEffect DEF WorkerInv, RunIs, List, Unlink, UnlinkRefused
        <4> QED
          BY <2>4, <4>1, <4>2
      <3> QED
        BY <1>0, <1>2, <2>4, <3>1
    <2>5. CASE (CheckEmpty(r) \/ RemoveDir(r) \/ RemoveDirRefused(r)) /\ worker' = worker
      <3>1. run'[r].rushed = run[r].rushed /\ run[r].pc \in After
        BY <1>0, <2>5, CoordEffect DEF WorkerInv, RunMoves, RunIs, CheckEmpty, RemoveDir,
           RemoveDirRefused
      <3> QED
        BY <1>0, <1>2, <2>5, <3>1
    <2>6. CASE Crash(r)
      BY <1>0, <1>2, <2>6, CoordEffect DEF WorkerInv, RunMoves, RunIs
    <2> QED
      BY <1>0, <2>1, <2>2, <2>3, <2>4, <2>5, <2>6, WorkerActs
  <1> QED
    BY <1>0, <1>1, <1>2 DEF WorkerEnded

\* What is left to each coordinator that did not leave its worker behind.
LEMMA EndedFacts ==
    ASSUME SharedInv, NEW r \in Runs, Step(r), ~run[r].rushed,
           run[r].pc \in {"merging", "listing", "unlinking", "removing", "done", "raised"}
    PROVE  ~Alive(r)
  BY DEF SharedInv, DirInv, WorkerEnded, Alive

\* ListedOnly is preserved: the glob sees every file of the run, after its worker
\* has ended there are no new ones, and what is refused is kept.
LEMMA ListedOnlyStep ==
    ASSUME SharedInv, NEW r \in Runs, Step(r) PROVE ListedOnly'
  <1> DEFINE Listed(q) == ~run[q].rushed => \A f \in DOMAIN files : files[f].run = q =>
                /\ run[q].pc = "unlinking" => f \in run[q].listing \cup run[q].kept
                /\ run[q].pc \in {"removing", "done", "raised"} => f \in run[q].kept
  <1>0. /\ WorkerInv
        /\ DOMAIN files # {} => tmp
        /\ \A q \in Runs : Listed(q)
    BY DEF SharedInv, DirInv, ListedOnly, FilesInTmp
  <1>1. \A q \in Runs \ {r} : run'[q] = run[q]
    BY <1>0, StepFacts DEF OthersKeep
  <1>2. \A f \in DOMAIN files' : (f \in DOMAIN files /\ files'[f].run = files[f].run) \/
                                  (files'[f].run = r /\ Alive(r) /\ run' = run)
    BY <1>0, FilesAfter
  <1>3. ASSUME NEW q \in Runs \ {r} PROVE Listed(q)'
    BY <1>0, <1>1, <1>2, <1>3
  <1>4. ASSUME ~run'[r].rushed, NEW x \in DOMAIN files', files'[x].run = r
        PROVE  /\ run'[r].pc = "unlinking" => x \in run'[r].listing \cup run'[r].kept
               /\ run'[r].pc \in {"removing", "done", "raised"} => x \in run'[r].kept
    <2>1. CASE run' = run /\ Alive(r)
      BY <1>4, <2>1, EndedFacts
    <2>2. CASE Start(r) \/ Collect(r) \/ MergeNext(r) \/ BuildReport(r) \/ Crash(r)
      <3>1. run'[r].pc \in {"working", "merging", "listing", "crashed"}
        BY <1>0, <2>2, CoordEffect DEF WorkerInv, RunMoves, RunIs
      <3> QED
        BY <3>1
    <2>3. CASE List(r)
      <3>1. /\ run'[r].pc = (IF tmp THEN "unlinking" ELSE "done") /\ run'[r].listing = DOMAIN files
            /\ files' = files
        BY <1>0, <2>3, CoordEffect DEF WorkerInv, RunIs, List, dirVars
      <3> QED
        BY <1>0, <3>1
    <2>4. CASE Unlink(r)
      <3>1. PICK f \in run[r].listing :
              /\ RunIs(r, "unlinking", run[r].rushed, run[r].collected, run[r].n, run[r].listing \ {f})
              /\ files' = [y \in DOMAIN files \ {f} |-> files[y]]
        BY <1>0, <2>4, CoordEffect DEF WorkerInv
      <3>2. run[r].pc = "unlinking" /\ ~run[r].rushed
        BY <1>4, <2>4, <3>1 DEF RunIs, Unlink
      <3>3. /\ run'[r].pc = "unlinking" /\ run'[r].listing = run[r].listing \ {f}
            /\ run[r].kept \subseteq run'[r].kept
        BY <3>1 DEF RunIs
      <3>4. x \in DOMAIN files /\ x # f /\ files'[x] = files[x]
        BY <1>4, <3>1
      <3> QED
        BY <1>0, <1>4, <3>2, <3>3, <3>4
    <2>7. CASE UnlinkRefused(r)
      <3>1. PICK f \in run[r].listing :
              /\ RunIs(r, "unlinking", run[r].rushed, run[r].collected, run[r].n, run[r].listing \ {f})
              /\ f \in run'[r].kept
        BY <1>0, <2>7, CoordEffect DEF WorkerInv
      <3>2. run[r].pc = "unlinking" /\ ~run[r].rushed /\ files' = files
        BY <1>4, <2>7, <3>1 DEF RunIs, UnlinkRefused, dirVars
      <3>3. /\ run'[r].pc = "unlinking" /\ run'[r].listing = run[r].listing \ {f}
            /\ run[r].kept \subseteq run'[r].kept
        BY <3>1 DEF RunIs
      <3> QED
        BY <1>0, <1>4, <3>1, <3>2, <3>3
    <2>5. CASE CheckEmpty(r)
      <3>1. /\ run[r].pc = "unlinking" /\ run[r].listing = {} /\ files' = files
            /\ run'[r].rushed = run[r].rushed /\ run'[r].pc \in {"raised", "removing", "done"}
            /\ run[r].kept \subseteq run'[r].kept
        BY <1>0, <2>5, CoordEffect DEF WorkerInv, RunMoves, RunIs, CheckEmpty, dirVars
      <3> QED
        BY <1>0, <1>4, <3>1
    <2>6. CASE RemoveDir(r) \/ RemoveDirRefused(r)
      <3>1. /\ run[r].pc = "removing" /\ files' = files
            /\ run'[r].rushed = run[r].rushed /\ run'[r].pc = "done"
            /\ run[r].kept \subseteq run'[r].kept
        BY <1>0, <2>6, CoordEffect
           DEF WorkerInv, RunMoves, RunIs, RemoveDir, RemoveDirRefused, dirVars
      <3> QED
        BY <1>0, <1>4, <3>1
    <2> QED
      BY <1>0, <2>1, <2>2, <2>3, <2>4, <2>5, <2>6, <2>7, WorkerActs
  <1> QED
    BY <1>3, <1>4 DEF ListedOnly

\* DirOrDisturbed is preserved: a directory is created or stays, or the run
\* that removes it marks those that are at work.
LEMMA DirOrDisturbedStep ==
    ASSUME SharedInv, NEW r \in Runs, Step(r) PROVE DirOrDisturbed'
  <1>0. /\ WorkerInv
        /\ \A q \in Runs : run[q].pc = "unlinking" => tmp \/ "dir" \in disturbed[q]
    BY DEF SharedInv, DirInv, DirOrDisturbed
  <1>1. \A q \in Runs \ {r} : run'[q] = run[q]
    BY <1>0, StepFacts DEF OthersKeep
  <1>2. \A q \in Runs : disturbed[q] \subseteq disturbed'[q]
    BY <1>0, DirAfter
  <1>3. ASSUME NEW q \in Runs \ {r}, run'[q].pc = "unlinking"
        PROVE  tmp' \/ "dir" \in disturbed'[q]
    <2>1. run[q].pc = "unlinking" /\ Active(q)
      BY <1>1, <1>3 DEF Active
    <2> QED
      BY <1>0, <1>2, <2>1, DirAfter
  <1>4. ASSUME run'[r].pc = "unlinking" PROVE tmp' \/ "dir" \in disturbed'[r]
    <2>1. CASE RemoveDir(r) \/ RemoveDirRefused(r)
      BY <1>0, <1>4, <2>1, CoordEffect DEF WorkerInv, RunMoves, RunIs
    <2>2. CASE List(r)
      <3>1. run'[r].pc = (IF tmp THEN "unlinking" ELSE "done") /\ tmp' = tmp
        BY <1>0, <2>2, CoordEffect DEF WorkerInv, RunIs, List, dirVars
      <3> QED
        BY <1>4, <3>1
    <2>3. CASE run[r].pc = "unlinking" /\ ~RemoveDir(r)
      BY <1>0, <1>2, <2>3, DirAfter
    <2>4. run[r].pc = "unlinking" \/ List(r)
      <3>1. CASE Start(r) \/ Collect(r) \/ MergeNext(r) \/ BuildReport(r) \/ Crash(r)
        BY <1>0, <1>4, <3>1, CoordEffect DEF WorkerInv, RunMoves, RunIs
      <3>2. CASE Unlink(r) \/ UnlinkRefused(r) \/ CheckEmpty(r)
        BY <3>2 DEF Unlink, UnlinkRefused, CheckEmpty
      <3>3. CASE RemoveDir(r) \/ RemoveDirRefused(r)
        BY <1>0, <1>4, <3>3, CoordEffect DEF WorkerInv, RunMoves, RunIs
      <3> QED
        BY <1>0, <1>4, <3>1, <3>2, <3>3, WorkerActs
    <2> QED
      BY <2>1, <2>2, <2>3, <2>4
  <1> QED
    BY <1>3, <1>4 DEF DirOrDisturbed

\* MergeReturns is preserved: iterdir() raises only when the directory is gone.
LEMMA MergeReturnsStep ==
    ASSUME SharedInv, NEW r \in Runs, Step(r) PROVE MergeReturns'
  <1>0. /\ WorkerInv /\ DirOrDisturbed
        /\ \A q \in Runs : run[q].pc = "raised" => "dir" \in disturbed[q]
    BY DEF SharedInv, DirInv, MergeReturns
  <1>1. \A q \in Runs \ {r} : run'[q] = run[q]
    BY <1>0, StepFacts DEF OthersKeep
  <1>2. \A q \in Runs : disturbed[q] \subseteq disturbed'[q]
    BY <1>0, DirAfter
  <1>3. ASSUME run'[r].pc = "raised" PROVE "dir" \in disturbed[r]
    <2>1. CASE run' = run
      BY <1>0, <1>3, <2>1
    <2>2. CASE CheckEmpty(r)
      <3>1. run[r].pc = "unlinking" /\ ~tmp
        BY <1>0, <1>3, <2>2, CoordEffect DEF WorkerInv, RunMoves, RunIs, CheckEmpty
      <3> QED
        BY <1>0, <3>1 DEF DirOrDisturbed
    <2>3. ~(Start(r) \/ Collect(r) \/ MergeNext(r) \/ BuildReport(r) \/ Crash(r) \/ List(r)
            \/ Unlink(r) \/ UnlinkRefused(r) \/ RemoveDir(r) \/ RemoveDirRefused(r))
      BY <1>0, <1>3, CoordEffect DEF WorkerInv, RunMoves, RunIs
    <2> QED
      BY <1>0, <2>1, <2>2, <2>3, WorkerActs
  <1> QED
    BY <1>0, <1>1, <1>2, <1>3 DEF MergeReturns

\* CleanTmp is preserved: a run that ends leaves tmp/ when there is something in
\* it or the system keeps it, and what is there of its own it listed.
LEMMA CleanTmpStep ==
    ASSUME SharedInv, NEW r \in Runs, Step(r) PROVE CleanTmp'
  <1>0. WorkerInv
    BY DEF SharedInv
  <1>1. foreign' = foreign /\ run'[r].pc # "new"
    BY <1>0, StartedOnce, StepFacts DEF OthersKeep
  <1>2. ASSUME run'[r].pc = "done", ~run'[r].rushed, ~foreign', tmp'
        PROVE  DOMAIN files' # {} \/ run'[r].dirKept
    <2>1. CASE run' = run /\ Alive(r)
      BY <1>2, <2>1, EndedFacts
    <2>2. CASE List(r)
      <3>1. run'[r].pc = (IF tmp THEN "unlinking" ELSE "done") /\ tmp' = tmp
        BY <1>0, <2>2, CoordEffect DEF WorkerInv, RunIs, List, dirVars
      <3> QED
        BY <1>2, <3>1
    <2>3. CASE CheckEmpty(r)
      <3>1. /\ files' = files
            /\ run'[r].pc = (IF ~tmp THEN "raised"
                             ELSE IF DOMAIN files = {} /\ ~foreign THEN "removing" ELSE "done")
        BY <1>0, <2>3, CoordEffect DEF WorkerInv, RunMoves, RunIs, CheckEmpty, dirVars
      <3> QED
        BY <1>1, <1>2, <3>1
    <2>4. CASE RemoveDir(r)
      BY <1>0, <1>2, <2>4, DirAfter
    <2>5. CASE RemoveDirRefused(r)
      BY <1>0, <2>5, CoordEffect DEF WorkerInv
    <2>6. ~(Start(r) \/ Collect(r) \/ MergeNext(r) \/ BuildReport(r) \/ Crash(r) \/ Unlink(r)
            \/ UnlinkRefused(r))
      BY <1>0, <1>2, CoordEffect DEF WorkerInv, RunMoves, RunIs
    <2> QED
      BY <1>0, <2>1, <2>2, <2>3, <2>4, <2>5, <2>6, WorkerActs
  <1>3. \A q \in Runs : run'[q].pc = "done" /\ ~run'[q].rushed =>
          \A f \in DOMAIN files' : files'[f].run = q => f \in run'[q].kept
    BY ListedOnlyStep DEF ListedOnly
  <1> QED
    BY <1>1, <1>2, <1>3 DEF CleanTmp

-----------------------------------------------------------------------------
(* The invariant.                                                           *)

\* It holds at the start.
LEMMA ReportsStart == Init => SharedInv
  <1> SUFFICES ASSUME Init PROVE SharedInv
    OBVIOUS
  <1> DEFINE w == [pc |-> "off", todo |-> <<>>, aborted |-> FALSE,
                   hook_failures |-> 0, undefined |-> 0, failed |-> FALSE, stops |-> FALSE]
             c == [pc |-> "new", rushed |-> FALSE, collected |-> <<>>, n |-> 0,
                   merged |-> <<>>, listing |-> {}, kept |-> {}, dirKept |-> FALSE, report |-> None]
  <1>1. /\ plan \in Plans /\ foreign \in BOOLEAN /\ tmp = foreign /\ DOMAIN files = {}
        /\ worker = [r \in Runs |-> w] /\ results = [r \in Runs |-> <<>>]
        /\ happened = [r \in Runs |-> [u \in Units |-> None]]
        /\ disturbed = [r \in Runs |-> {}] /\ run = [r \in Runs |-> c]
    BY DEF Init, WorkerInit
  <1>2. /\ w \in WorkerState /\ w.pc = "off" /\ w.todo = <<>> /\ ~w.stops
        /\ w.aborted = FALSE /\ w.failed = FALSE /\ w.stops = FALSE
        /\ w.hook_failures = 0 /\ w.undefined = 0
    BY DEF WorkerState, Places
  <1>3. /\ c.pc = "new" /\ c.rushed = FALSE /\ c.collected = <<>> /\ c.n = 0 /\ DOMAIN c = RunFields
    BY DEF RunFields
  <1> HIDE DEF w, c
  <1>4. \A r \in Runs : IsSuffix(<<>>, plan[r].units)
    BY <1>1, RunnerAssumption, SuffixEnds
  <1>5. IsPrefix(<<>>, <<>>)
    <2>1. <<>> \in Seq(Result) /\ Len(<<>>) = 0
      OBVIOUS
    <2> QED
      BY <2>1 DEF IsPrefix
  <1>6. <<>> \in Seq(Result) /\ Len(<<>>) = 0 /\ DOMAIN <<>> = {}
    OBVIOUS
  <1>7. TypeOK
    <2>1. \A r \in Runs :
            /\ worker[r].pc \in Places /\ IsSuffix(worker[r].todo, plan[r].units)
            /\ {worker[r].aborted, worker[r].failed, worker[r].stops} \subseteq BOOLEAN
            /\ worker[r].hook_failures \in 0..1 /\ worker[r].undefined \in 0..1
            /\ results[r] \in Seq(Result)
      <3>1. ASSUME NEW r \in Runs PROVE worker[r] = w /\ results[r] = <<>>
        BY <1>1
      <3>2. "off" \in Places /\ {FALSE} \subseteq BOOLEAN
        BY DEF Places
      <3> QED
        <4> SUFFICES ASSUME NEW r \in Runs
                     PROVE  /\ worker[r].pc \in Places /\ IsSuffix(worker[r].todo, plan[r].units)
                            /\ {worker[r].aborted, worker[r].failed, worker[r].stops} \subseteq BOOLEAN
                            /\ worker[r].hook_failures \in 0..1 /\ worker[r].undefined \in 0..1
                            /\ results[r] \in Seq(Result)
          OBVIOUS
        <4>1. IsSuffix(worker[r].todo, plan[r].units)
          BY <1>2, <1>4, <3>1, Zenon
        <4>2. results[r] \in Seq(Result)
          BY <1>6, <3>1, Zenon
        <4>3. worker[r].pc \in Places
          BY <1>2, <3>1, <3>2, Zenon
        <4>4. worker[r].hook_failures \in 0..1 /\ worker[r].undefined \in 0..1
          BY <1>2, <3>1
        <4>5. {worker[r].aborted, worker[r].failed, worker[r].stops} \subseteq BOOLEAN
          BY <1>2, <3>1
        <4> QED
          BY <4>1, <4>2, <4>3, <4>4, <4>5
    <2>2. \A r \in Runs :
            /\ run[r].pc \in RunPlaces /\ run[r].rushed \in BOOLEAN
            /\ IsPrefix(run[r].collected, results[r]) /\ run[r].n \in 0..Len(run[r].collected)
      <3>1. ASSUME NEW r \in Runs PROVE run[r] = c /\ results[r] = <<>>
        BY <1>1
      <3> QED
        <4> SUFFICES ASSUME NEW r \in Runs
                     PROVE  /\ run[r].pc \in RunPlaces /\ run[r].rushed \in BOOLEAN
                            /\ IsPrefix(run[r].collected, results[r])
                            /\ run[r].n \in 0..Len(run[r].collected)
          OBVIOUS
        <4>1. IsPrefix(run[r].collected, results[r])
          BY <1>3, <1>5, <3>1, Zenon
        <4>2. run[r].pc \in RunPlaces /\ run[r].rushed \in BOOLEAN
          BY <1>3, <3>1 DEF RunPlaces
        <4>3. Len(run[r].collected) = 0 /\ run[r].n = 0
          BY <1>3, <1>6, <3>1, Zenon
        <4> QED
          BY <4>1, <4>2, <4>3
    <2> QED
      BY <1>1, <2>1, <2>2 DEF TypeOK
  <1>8. Shapes /\ Unread
    BY <1>1, <1>2, <1>3, <1>6 DEF Shapes, Unread
  <1>9. Unstarted /\ OnceEach /\ FreshStart /\ OwnOutcome
    BY <1>1, <1>2, <1>3, <1>6 DEF Unstarted, OnceEach, FreshStart, OwnOutcome, Reporting
  <1>10. UnitsIsolated /\ StopsOnlyOnFailure /\ DryRunsNothing
    BY <1>1, <1>2, <1>6 DEF UnitsIsolated, StopsOnlyOnFailure, DryRunsNothing, Executed
  <1>11. DirInv
    BY <1>1, <1>2, <1>3 DEF DirInv, FilesInTmp, WorkerEnded, ListedOnly, DirOrDisturbed, CleanTmp,
       MergeReturns
  <1> QED
    BY <1>7, <1>8, <1>9, <1>10, <1>11 DEF SharedInv, WorkerInv

\* Every step of a run preserves it.
LEMMA ReportsStep ==
    ASSUME SharedInv, NEW r \in Runs, Step(r) PROVE SharedInv'
  <1>1. WorkerInv
    BY DEF SharedInv
  <1>2. WorkerInv'
    BY <1>1, TypeStep, UnstartedStep, OnceEachStep, FreshStartStep, OwnOutcomeStep,
       UnitsIsolatedStep, StopsStep, DryRunStep DEF WorkerInv
  <1>3. DirInv'
    BY FilesInTmpStep, WorkerEndedStep, ListedOnlyStep, DirOrDisturbedStep, CleanTmpStep,
       MergeReturnsStep DEF DirInv
  <1> QED
    BY <1>2, <1>3 DEF SharedInv

\* A step of nobody does not touch it.
LEMMA ReportsStutter ==
    ASSUME SharedInv, UNCHANGED vars PROVE SharedInv'
  <1>1. WorkerInv'
    <2>1. TypeOK' /\ Shapes' /\ Unstarted' /\ Unread'
      BY DEF vars, workerVars, dirVars, SharedInv, WorkerInv, TypeOK, Shapes, Unstarted, Unread
    <2>2. OnceEach' /\ FreshStart' /\ OwnOutcome'
      BY DEF vars, workerVars, SharedInv, WorkerInv, OnceEach, FreshStart, OwnOutcome, Unit
    <2>3. UnitsIsolated' /\ StopsOnlyOnFailure' /\ DryRunsNothing'
      BY DEF vars, workerVars, SharedInv, WorkerInv, UnitsIsolated, StopsOnlyOnFailure,
         DryRunsNothing, Executed
    <2> QED
      BY <2>1, <2>2, <2>3 DEF WorkerInv
  <1>2. FilesInTmp' /\ WorkerEnded' /\ ListedOnly' /\ DirOrDisturbed' /\ MergeReturns'
    BY DEF vars, workerVars, dirVars, SharedInv, DirInv, FilesInTmp, WorkerEnded, ListedOnly,
       DirOrDisturbed, MergeReturns
  <1>3. CleanTmp'
    BY DEF vars, workerVars, dirVars, SharedInv, DirInv, CleanTmp
  <1> QED
    BY <1>1, <1>2, <1>3 DEF SharedInv, DirInv

\* The invariant, for any runs, plans, faults, outcomes and file names.
THEOREM SharedInvariance == Spec => []SharedInv
  <1>1. Init => SharedInv
    BY ReportsStart
  <1>2. SharedInv /\ [Next]_vars => SharedInv'
    BY StepOfRun, ReportsStep, ReportsStutter
  <1> QED
    BY <1>1, <1>2, PTL DEF Spec

\* Every variable of every run keeps its type; the counters of a worker never
\* say more than one unit can have left in them.
THEOREM ReportsTypeCorrect == Spec => []TypeOK
  <1>1. SharedInv => TypeOK
    BY DEF SharedInv, WorkerInv
  <1> QED
    BY <1>1, SharedInvariance, PTL

\* The result of a unit tells of that unit alone, whatever hooks fail, steps are
\* missing and runs are aborted before and in it.
THEOREM UnitsDoNotInfect == Spec => []UnitsIsolated
  <1>1. SharedInv => UnitsIsolated
    BY DEF SharedInv, WorkerInv
  <1> QED
    BY <1>1, SharedInvariance, PTL

\* No worker stops all others without having put a failed result.
THEOREM StopsWithAFailure == Spec => []StopsOnlyOnFailure
  <1>1. SharedInv => StopsOnlyOnFailure
    BY DEF SharedInv, WorkerInv
  <1> QED
    BY <1>1, SharedInvariance, PTL

\* With --dry-run no worker executes anything.
THEOREM DryRunIsDry == Spec => []DryRunsNothing
  <1>1. SharedInv => DryRunsNothing
    BY DEF SharedInv, WorkerInv
  <1> QED
    BY <1>1, SharedInvariance, PTL

\* A run that waited for its worker leaves none of its files, and alone it
\* leaves no tmp/, however many runs shared it and whenever they were killed.
THEOREM TmpIsLeftClean == Spec => []CleanTmp
  <1>1. SharedInv => CleanTmp
    BY DEF SharedInv, DirInv
  <1> QED
    BY <1>1, SharedInvariance, PTL

\* The clean-up fails only when another run removed the directory meanwhile.
THEOREM MergeFailsOnlyDisturbed == Spec => []MergeReturns
  <1>1. SharedInv => MergeReturns
    BY DEF SharedInv, DirInv
  <1> QED
    BY <1>1, SharedInvariance, PTL
=============================================================================
