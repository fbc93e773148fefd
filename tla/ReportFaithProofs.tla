-------------------------- MODULE ReportFaithProofs --------------------------
(***************************************************************************)
(* The merged report has what the worker executed: proof of ReportFaithful   *)
(* of Reports, for any runs, plans, outcomes and faults.                    *)
(*                                                                         *)
(* A run whose files are its own has a file for each result with a path, and *)
(* nobody writes to it again: not the run, which does each unit once and     *)
(* whose units have different file names, and no other run, which would      *)
(* leave its mark in disturbed.  So what is merged of a result is its        *)
(* feature, and what was merged of the first n results what is expected.     *)
(***************************************************************************)
EXTENDS ReportProofs, FiniteSetTheorems

-----------------------------------------------------------------------------
(* What is expected of a list of results.                                   *)

WithPath == {res \in Result : res.path # None}

\* The expected features, with what happened in each unit as a parameter.
ExpectedOf(h, c) ==
    [i \in DOMAIN Only(c, WithPath) |->
        LET u == Only(c, WithPath)[i].unit IN SerializeFeature(u, h[u])]

LEMMA ExpectedIs ==
    \A r, c : ExpectedFeatures(r, c) = ExpectedOf(happened[r], c)
  BY DEF ExpectedFeatures, Reported, ExpectedOf, WithPath

\* Mapping a list with one more element.
Mapped(F, s) == [i \in DOMAIN s |-> F[s[i]]]

LEMMA MapAppend ==
    ASSUME NEW X, NEW Y, NEW F \in [X -> Y], NEW s \in Seq(X), NEW x \in X
    PROVE  Mapped(F, s) \in Seq(Y) /\ Mapped(F, Append(s, x)) = Append(Mapped(F, s), F[x])
  <1> DEFINE t == Append(s, x)
             m == [i \in DOMAIN s |-> F[s[i]]]
             g == [i \in DOMAIN t |-> F[t[i]]]
             a == Append(m, F[x])
  <1>1. /\ t \in Seq(X) /\ Len(t) = Len(s) + 1 /\ Len(s) \in Nat /\ t[Len(s) + 1] = x
        /\ \A i \in 1..Len(s) : t[i] = s[i]
    BY Appended
  <1>2. DOMAIN s = 1..Len(s) /\ \A i \in 1..Len(s) : s[i] \in X
    OBVIOUS
  <1>3. m \in [1..Len(s) -> Y]
    BY <1>2
  <1>4. m \in Seq(Y) /\ Len(m) = Len(s) /\ \A i \in 1..Len(s) : m[i] = F[s[i]]
    BY <1>1, <1>2, <1>3
  <1> HIDE DEF t, m
  <1>5. /\ a \in Seq(Y) /\ Len(a) = Len(s) + 1 /\ a[Len(s) + 1] = F[x]
        /\ \A i \in 1..Len(s) : a[i] = m[i]
    BY <1>4, Appended
  <1>6. DOMAIN t = 1..(Len(s) + 1)
    BY <1>1
  <1>7. \A i \in 1..(Len(s) + 1) : i \in 1..Len(s) \/ i = Len(s) + 1
    BY <1>1
  <1>8. \A i \in 1..(Len(s) + 1) : a[i] = F[t[i]]
    <2> HIDE DEF a
    <2> QED
      BY <1>1, <1>4, <1>5, <1>7
  <1>9. a = [i \in 1..(Len(s) + 1) |-> a[i]]
    <2> HIDE DEF a
    <2> QED
      BY <1>5
  <1>10. g = a
    <2> HIDE DEF a
    <2> QED
      BY <1>6, <1>8, <1>9
  <1> QED
    BY <1>4, <1>10 DEF t, m, Mapped

\* One more result has one more feature, if it has a path.
LEMMA ExpectedGrows ==
    ASSUME NEW h, NEW c \in Seq(Result), NEW res \in Result
    PROVE  \E Y : /\ ExpectedOf(h, c) \in Seq(Y) /\ SerializeFeature(res.unit, h[res.unit]) \in Y
                  /\ ExpectedOf(h, Append(c, res)) =
                        IF res.path = None THEN ExpectedOf(h, c)
                        ELSE Append(ExpectedOf(h, c), SerializeFeature(res.unit, h[res.unit]))
  <1> DEFINE G(x) == SerializeFeature(x.unit, h[x.unit])
             Y == {G(x) : x \in Result}
             F == [x \in Result |-> G(x)]
             s == Only(c, WithPath)
             E(l) == [i \in DOMAIN l |-> G(l[i])]
             M(l) == Mapped(F, l)
  <1>1. s \in Seq(Result)
    BY OnlyElements
  <1>2. Only(Append(c, res), WithPath) = IF res \in WithPath THEN Append(s, res) ELSE s
    BY OnlyAppend
  <1>3. Append(s, res) \in Seq(Result)
    BY <1>1, Appended
  <1>4. \A l \in Seq(Result) : E(l) = M(l)
    <2> SUFFICES ASSUME NEW l \in Seq(Result) PROVE E(l) = M(l)
      OBVIOUS
    <2>1. \A i \in DOMAIN l : l[i] \in Result
      OBVIOUS
    <2> HIDE DEF G
    <2> QED
      BY <2>1 DEF Mapped
  <1>5. F \in [Result -> Y] /\ F[res] = G(res) /\ G(res) \in Y
    <2> HIDE DEF G
    <2> QED
      OBVIOUS
  <1>6. ExpectedOf(h, c) = E(s) /\ ExpectedOf(h, Append(c, res)) = E(Only(Append(c, res), WithPath))
    BY DEF ExpectedOf
  <1>7. res \in WithPath <=> res.path # None
    BY DEF WithPath
  <1> HIDE DEF F, Y, s
  <1>8. M(s) \in Seq(Y) /\ M(Append(s, res)) = Append(M(s), F[res])
    BY <1>1, <1>5, MapAppend
  <1> HIDE DEF E, M, G
  <1>9. ExpectedOf(h, c) = M(s) /\ G(res) \in Y
    BY <1>1, <1>4, <1>5, <1>6
  <1>10. ExpectedOf(h, Append(c, res)) = IF res.path = None THEN M(s) ELSE Append(M(s), G(res))
    BY <1>1, <1>2, <1>3, <1>4, <1>5, <1>6, <1>7, <1>8
  <1> QED
    BY <1>8, <1>9, <1>10 DEF G

\* It depends on what happened in the units of the results alone.
LEMMA ExpectedSame ==
    ASSUME NEW h, NEW g, NEW c \in Seq(Result), \A i \in DOMAIN c : h[c[i].unit] = g[c[i].unit] \/ c[i].path = None
    PROVE  ExpectedOf(h, c) = ExpectedOf(g, c)
  <1> DEFINE s == Only(c, WithPath)
  <1>1. s \in Seq(Result) /\ ToSet(s) = ToSet(c) \cap WithPath
    BY OnlyElements
  <1>2. ASSUME NEW i \in DOMAIN s PROVE h[s[i].unit] = g[s[i].unit]
    <2>1. s[i] \in ToSet(c) /\ s[i] \in WithPath
      BY <1>1 DEF ToSet
    <2>2. PICK j \in DOMAIN c : c[j] = s[i]
      BY <2>1 DEF ToSet
    <2>3. s[i].path # None
      BY <2>1 DEF WithPath
    <2> QED
      BY <2>2, <2>3
  <1> HIDE DEF s
  <1>3. [i \in DOMAIN s |-> SerializeFeature(s[i].unit, h[s[i].unit])]
        = [i \in DOMAIN s |-> SerializeFeature(s[i].unit, g[s[i].unit])]
    BY <1>2
  <1> QED
    BY <1>3 DEF s, ExpectedOf

\* Nothing is expected of no results.
LEMMA ExpectedOfNone == ASSUME NEW h PROVE ExpectedOf(h, <<>>) = <<>>
  <1>1. Only(<<>>, WithPath) = <<>>
    BY OnlyEmpty
  <1>2. ExpectedOf(h, <<>>) = [i \in DOMAIN <<>> |->
          LET u == Only(<<>>, WithPath)[i].unit IN SerializeFeature(u, h[u])]
    BY <1>1 DEF ExpectedOf
  <1>3. DOMAIN <<>> = {}
    OBVIOUS
  <1>4. DOMAIN ExpectedOf(h, <<>>) = {}
    BY <1>2, <1>3
  <1> DEFINE e == ExpectedOf(h, <<>>)
  <1>5. e = [i \in {} |-> e[i]]
    BY <1>2, <1>3
  <1> HIDE DEF e
  <1>6. e \in [1..0 -> {}]
    BY <1>5
  <1>7. e \in Seq({}) /\ Len(e) = 0
    BY <1>6
  <1>8. e = <<>>
    BY <1>7
  <1> QED
    BY <1>8 DEF e
-----------------------------------------------------------------------------
(* Whose files are whose.                                                   *)

\* The elements of a suffix are elements of the list.
LEMMA SuffixElements ==
    ASSUME NEW S, NEW s \in Seq(S), NEW t \in Seq(S), IsSuffix(s, t)
    PROVE  ToSet(s) \subseteq ToSet(t)
  <1>1. Len(s) <= Len(t) /\ \A i \in 1..Len(s) : Reverse(s)[i] = Reverse(t)[i]
    BY ReverseIs, PrefixMeans DEF IsSuffix
  <1>2. Len(s) \in Nat /\ Len(t) \in Nat /\ DOMAIN s = 1..Len(s) /\ DOMAIN t = 1..Len(t)
    OBVIOUS
  <1>3. ASSUME NEW i \in 1..Len(s) PROVE \E j \in 1..Len(t) : t[j] = s[i]
    <2> DEFINE k == Len(s) - i + 1
    <2>1. k \in 1..Len(s) /\ k \in 1..Len(t) /\ Len(s) - k + 1 = i /\ Len(t) - k + 1 \in 1..Len(t)
      BY <1>1, <1>2
    <2> HIDE DEF k
    <2>2. Reverse(s)[k] = s[Len(s) - k + 1] /\ Reverse(t)[k] = t[Len(t) - k + 1]
      BY <2>1, ReverseIs
    <2> QED
      BY <1>1, <2>1, <2>2
  <1> QED
    BY <1>2, <1>3 DEF ToSet

\* The unit in hand is one of the plan and has no result yet.
LEMMA UnitOfPlan ==
    ASSUME WorkerInv, NEW r \in Runs, worker[r].todo # <<>>
    PROVE  /\ Unit(r) \in Units /\ Unit(r) \in ToSet(plan[r].units)
           /\ \A i \in DOMAIN results[r] : results[r][i].unit # Unit(r)
  <1>1. /\ worker[r].todo \in Seq(Units) /\ plan[r].units \in Seq(Units)
        /\ IsSuffix(worker[r].todo, plan[r].units)
    BY ShapeFacts, PlanFacts DEF WorkerInv, WorkerState, TypeOK
  <1>2. /\ 1 \in DOMAIN worker[r].todo /\ Unit(r) = worker[r].todo[1]
        /\ worker[r].todo[1] \in Units
    BY <1>1 DEF Unit
  <1>3. Unit(r) \in ToSet(worker[r].todo)
    BY <1>2 DEF ToSet
  <1>4. ToSet(worker[r].todo) \subseteq ToSet(plan[r].units)
    BY <1>1, SuffixElements
  <1>5. \A i \in DOMAIN results[r] : results[r][i].unit # worker[r].todo[1]
    BY <1>2 DEF WorkerInv, OnceEach
  <1> QED
    BY <1>2, <1>3, <1>4, <1>5

\* As long as its files are its own, no two units of a run share a file.
LEMMA OwnNames ==
    ASSUME NEW r \in Runs, FilesOwn(r),
           NEW u \in ToSet(plan[r].units), NEW v \in ToSet(plan[r].units),
           ReportFile(u) = ReportFile(v)
    PROVE  u = v
  BY DEF FilesOwn, ToSet, ReportFile

\* Files that are a run's own have been so.
LEMMA OwnBefore ==
    ASSUME WorkerInv, NEW r \in Runs, Step(r), NEW q \in Runs, FilesOwn(q)'
    PROVE  FilesOwn(q)
  BY StepFacts, DirAfter DEF FilesOwn, OthersKeep

\* Another run that touches a file leaves its mark.
LEMMA OthersFiles ==
    ASSUME WorkerInv, NEW r \in Runs, Step(r), NEW q \in Runs \ {r}, "file" \notin disturbed'[q],
           NEW f \in DOMAIN files, files[f].run = q
    PROVE  f \in DOMAIN files' /\ files'[f] = files[f]
  <1>1. ASSUME NEW g, Touch(r, g) PROVE g # f
    BY <1>1 DEF Touch
  <1>2. CASE OpenReport(r)
    <2>1. ReportFile(Unit(r)) # f
      BY <1>1, <1>2 DEF OpenReport
    <2> QED
      BY <1>2, <2>1 DEF OpenReport
  <1>3. CASE FillReport(r)
    <2>1. ReportFile(Unit(r)) # f
      BY <1>1, <1>3 DEF FillReport
    <2> QED
      BY <1>3, <2>1 DEF FillReport
  <1>4. CASE Unlink(r)
    <2>1. PICK g \in run[r].listing : files' = [x \in DOMAIN files \ {g} |-> files[x]] /\ Touch(r, g)
      BY <1>4 DEF Unlink
    <2>2. g # f
      BY <1>1, <2>1
    <2> QED
      BY <2>1, <2>2
  <1>5. CASE UNCHANGED dirVars \/ MakeDir(r) \/ RemoveDir(r)
    BY <1>5 DEF dirVars, MakeDir, RemoveDir
  <1> QED
    BY <1>2, <1>3, <1>4, <1>5, DirSteps

\* Before it cleans up, a run writes to the file of the unit in hand alone.
LEMMA OwnFiles ==
    ASSUME WorkerInv, NEW r \in Runs, Step(r), run[r].pc # "unlinking", NEW f \in DOMAIN files
    PROVE  /\ f \in DOMAIN files'
           /\ \/ files'[f] = files[f]
              \/ (OpenReport(r) \/ FillReport(r)) /\ worker[r].todo # <<>> /\ f = ReportFile(Unit(r))
  <1>1. CASE OpenReport(r)
    <2>1. worker[r].todo # <<>>
      BY <1>1 DEF OpenReport, WorkerInv, OnceEach, Reporting
    <2> QED
      BY <1>1, <2>1 DEF OpenReport
  <1>2. CASE FillReport(r)
    <2>1. worker[r].todo # <<>>
      BY <1>2 DEF FillReport, WorkerInv, OnceEach, Reporting
    <2> QED
      BY <1>2, <2>1 DEF FillReport
  <1>3. CASE UNCHANGED dirVars \/ MakeDir(r) \/ RemoveDir(r)
    BY <1>3 DEF dirVars, MakeDir, RemoveDir
  <1>4. ~Unlink(r)
    BY DEF Unlink
  <1> QED
    BY <1>1, <1>2, <1>3, <1>4, DirSteps

\* A result has no path, or it is put by FillReport, which names its file.
LEMMA PathOfResult ==
    ASSUME WorkerInv, NEW r \in Runs, Step(r)
    PROVE  \/ results'[r] = results[r]
           \/ \E res \in Result :
                 /\ results'[r] = Append(results[r], res) /\ happened' = happened
                 /\ \/ res.path = None
                    \/ FillReport(r) /\ res.unit = Unit(r) /\ res.path = ReportFile(Unit(r))
  <1>0. results \in [Runs -> Seq(Result)] /\ worker[r] \in WorkerState
    BY ShapeFacts DEF WorkerInv
  <1>1. ASSUME NEW unit \in Units \cup {SetupId}, NEW failed \in BOOLEAN, NEW undefined \in 0..1,
               NEW path \in {SafeId[u] : u \in Units} \cup {None}, happened' = happened,
               path = None \/ (FillReport(r) /\ unit = Unit(r) /\ path = ReportFile(Unit(r))),
               results' = [results EXCEPT ![r] = Append(@,
                  [unit |-> unit, failed |-> failed, undefined |-> undefined, path |-> path])]
        PROVE  \E res \in Result :
                 /\ results'[r] = Append(results[r], res) /\ happened' = happened
                 /\ \/ res.path = None
                    \/ FillReport(r) /\ res.unit = Unit(r) /\ res.path = ReportFile(Unit(r))
    <2> DEFINE res == [unit |-> unit, failed |-> failed, undefined |-> undefined, path |-> path]
    <2>1. res \in Result /\ res.unit = unit /\ res.path = path
      BY DEF Result
    <2> HIDE DEF res
    <2>2. results' = [results EXCEPT ![r] = Append(@, res)]
      BY <1>1 DEF res
    <2>3. results'[r] = Append(results[r], res)
      BY <1>0, <2>2
    <2> QED
      BY <1>1, <2>1, <2>3
  <1>2. worker[r].todo # <<>> => Unit(r) \in Units \cup {SetupId}
    BY UnitOfPlan
  <1>3. CASE SetupFails(r)
    <2>1. /\ happened' = happened
          /\ results' = [results EXCEPT ![r] = Append(@,
                [unit |-> SetupId, failed |-> TRUE, undefined |-> 0, path |-> None])]
      BY <1>3 DEF SetupFails
    <2>2. SetupId \in Units \cup {SetupId} /\ TRUE \in BOOLEAN /\ 0 \in 0..1
          /\ None \in {SafeId[u] : u \in Units} \cup {None}
      OBVIOUS
    <2> QED
      BY <1>1, <2>1, <2>2, Zenon
  <1>4. CASE UnitRaises(r)
    <2>1. /\ happened' = happened /\ worker[r].todo # <<>>
          /\ results' = [results EXCEPT ![r] = Append(@,
                [unit |-> Unit(r), failed |-> TRUE, undefined |-> 0, path |-> None])]
      BY <1>4 DEF UnitRaises, PutResult
    <2>2. Unit(r) \in Units \cup {SetupId} /\ TRUE \in BOOLEAN /\ 0 \in 0..1
          /\ None \in {SafeId[u] : u \in Units} \cup {None}
      BY <1>2, <2>1
    <2> QED
      BY <1>1, <2>1, <2>2, Zenon
  <1>5. CASE WriteFails(r)
    <2>1. worker[r].todo # <<>> /\ worker[r].failed \in BOOLEAN /\ worker[r].undefined \in 0..1
      BY <1>0, <1>5 DEF WriteFails, WorkerInv, OnceEach, Reporting, WorkerState
    <2> QED
      BY <1>1, <1>2, <1>5, <2>1 DEF WriteFails, PutResult
  <1>6. CASE FillReport(r)
    <2>1. worker[r].todo # <<>> /\ worker[r].failed \in BOOLEAN /\ worker[r].undefined \in 0..1
      BY <1>0, <1>6 DEF FillReport, WorkerInv, OnceEach, Reporting, WorkerState
    <2>2. ReportFile(Unit(r)) \in {SafeId[u] : u \in Units} \cup {None}
      BY <2>1, UnitOfPlan DEF ReportFile
    <2>3. happened' = happened /\ PutResult(r, worker[r].failed, worker[r].undefined, ReportFile(Unit(r)))
      BY <1>6 DEF FillReport
    <2> QED
      BY <1>1, <1>2, <1>6, <2>1, <2>2, <2>3 DEF PutResult
  <1>7. results' = results \/ SetupFails(r) \/ UnitRaises(r) \/ WriteFails(r) \/ FillReport(r)
    BY DEF Step, WorkerStep, Setup, Parse, RunFeatures, MakeDir, OpenReport, Teardown, Start,
       Collect, SignalDeath, Kill, Die, Merge, MergeNext, BuildReport, List, Unlink, UnlinkRefused,
       CheckEmpty, RemoveDir, RemoveDirRefused, Crash, workerVars
  <1> QED
    BY <1>3, <1>4, <1>5, <1>6, <1>7
-----------------------------------------------------------------------------
(* The files of the results that are to be merged.                          *)

Reading(r) == run[r].pc \in {"working", "merging"}

\* Which steps of a run leave it with files to merge.
LEMMA StillReading ==
    ASSUME WorkerInv, NEW r \in Runs, Step(r), Reading(r)'
    PROVE  \/ run' = run /\ Reading(r)
           \/ Start(r)
           \/ (Collect(r) \/ MergeNext(r)) /\ UNCHANGED <<workerVars, dirVars>> /\ Reading(r)
  <1>1. CASE run' = run
    BY <1>1 DEF Reading
  <1>2. CASE Collect(r) \/ MergeNext(r)
    BY <1>2 DEF Collect, MergeNext, Reading
  <1>3. CASE BuildReport(r) \/ CheckEmpty(r) \/ RemoveDir(r) \/ RemoveDirRefused(r) \/ Crash(r)
    <2>1. run'[r].pc \in {"listing", "raised", "removing", "done", "crashed"}
      BY <1>3, CoordEffect DEF WorkerInv, RunMoves, RunIs
    <2> QED
      BY <2>1 DEF Reading
  <1>4. CASE List(r) \/ Unlink(r) \/ UnlinkRefused(r)
    <2>1. run'[r].pc \in {"unlinking", "done"}
      BY <1>4, CoordEffect DEF WorkerInv, RunIs
    <2> QED
      BY <2>1 DEF Reading
  <1> QED
    BY <1>1, <1>2, <1>3, <1>4, WorkerActs

\* OpenedOwn is preserved.
LEMMA OpenedOwnStep ==
    ASSUME WorkerInv, OpenedOwn, NEW r \in Runs, Step(r) PROVE OpenedOwn'
  <1> DEFINE There(q) == /\ ReportFile(Unit(q)) \in DOMAIN files
                         /\ files[ReportFile(Unit(q))].run = q
  <1>1. ASSUME NEW q \in Runs \ {r}, Reading(q)', worker'[q].pc = "opened", FilesOwn(q)'
        PROVE  There(q)'
    <2>1. worker'[q] = worker[q] /\ run'[q] = run[q] /\ FilesOwn(q) /\ "file" \notin disturbed'[q]
      BY <1>1, StepFacts, OwnBefore DEF OthersKeep, FilesOwn
    <2>2. There(q) /\ Unit(q)' = Unit(q)
      BY <1>1, <2>1 DEF OpenedOwn, Unit, Reading
    <2>3. /\ ReportFile(Unit(q)) \in DOMAIN files'
          /\ files'[ReportFile(Unit(q))] = files[ReportFile(Unit(q))]
      BY <2>1, <2>2, OthersFiles
    <2> QED
      BY <2>2, <2>3 DEF ReportFile
  <1>2. ASSUME Reading(r)', worker'[r].pc = "opened", FilesOwn(r)'
        PROVE  There(r)'
    <2>1. CASE OpenReport(r)
      <3>1. Unit(r)' = Unit(r)
        <4>1. Goto(r, "opened") /\ worker \in [Runs -> WorkerState]
          BY <2>1, ShapeFacts DEF OpenReport, WorkerInv
        <4> QED
          BY <4>1 DEF Goto, Unit, WorkerState
      <3>2. files' = [x \in DOMAIN files \cup {ReportFile(Unit(r))} |->
                IF x = ReportFile(Unit(r)) THEN [run |-> r, feature |-> Torn] ELSE files[x]]
        BY <2>1 DEF OpenReport
      <3> QED
        BY <3>1, <3>2 DEF ReportFile
    <2>2. CASE ~OpenReport(r)
      <3>1. "opened" \in Reporting
        BY DEF Reporting
      <3>2. ~RunFeatures(r)
        <4>1. RunFeatures(r) => worker'[r].pc = "ran"
          BY WorkerAfter DEF WorkerInv
        <4> QED
          BY <1>2, <4>1
      <3>3. worker[r].pc \in Reporting /\ Goes(r, "opened")
        BY <1>2, <3>1, <3>2, UnitInHand
      <3>4. worker' = worker /\ UNCHANGED dirVars /\ Reading(r)
        <4>1. CASE WorkerStep(r) \/ SignalDeath(r) \/ Kill(r)
          <5>1. worker \in [Runs -> WorkerState]
            BY ShapeFacts DEF WorkerInv
          <5>2. ASSUME NEW label, Goto(r, label) PROVE worker'[r].pc = label
            BY <5>1, <5>2 DEF Goto, WorkerState
          <5>3. ASSUME UnitRaises(r) \/ FillReport(r) \/ WriteFails(r) PROVE worker'[r].pc # "opened"
            <6>1. worker'[r].pc = IF worker[r].aborted THEN "teardown" ELSE "idle"
              BY <5>1, <5>3 DEF UnitRaises, FillReport, WriteFails, PutResult, WorkerState
            <6> QED
              BY <6>1
          <5>4. ASSUME Setup(r) \/ SetupFails(r) \/ Parse(r) PROVE FALSE
            BY <3>3, <5>4 DEF Setup, SetupFails, Parse, Reporting
          <5>5. MakeDir(r) \/ Teardown(r) \/ SignalDeath(r) \/ Kill(r) => worker'[r].pc # "opened"
            BY <5>2 DEF MakeDir, Teardown, SignalDeath, Kill, Die
          <5> QED
            BY <1>2, <2>2, <3>2, <4>1, <5>3, <5>4, <5>5 DEF WorkerStep
        <4>2. CASE Start(r)
          BY <1>2, <4>2, WorkerAfter DEF WorkerInv
        <4>3. CASE (Collect(r) \/ MergeNext(r)) /\ UNCHANGED <<workerVars, dirVars>> /\ Reading(r)
          BY <4>3 DEF workerVars
        <4>4. CASE (Merge(r) \/ Collect(r) \/ Crash(r)) /\ run' = run
          <5>1. worker' = worker
            BY <4>4 DEF Merge, Collect, MergeNext, BuildReport, List, Unlink, UnlinkRefused,
               CheckEmpty, RemoveDir, RemoveDirRefused, Crash, workerVars
          <5>2. ~Unlink(r) /\ ~RemoveDir(r) /\ Reading(r)
            BY <1>2, <4>4 DEF Unlink, RemoveDir, Reading
          <5>3. UNCHANGED dirVars
            BY <4>4, <5>2 DEF Merge, Collect, MergeNext, BuildReport, List, UnlinkRefused, CheckEmpty,
               RemoveDirRefused, Crash, dirVars
          <5> QED
            BY <5>1, <5>2, <5>3
        <4> QED
          BY <1>2, <4>1, <4>2, <4>3, <4>4, StillReading DEF Step
      <3>5. There(r)
        BY <1>2, <3>4, OwnBefore DEF OpenedOwn, Reading
      <3> QED
        BY <3>4, <3>5 DEF dirVars, Unit
    <2> QED
      BY <2>1, <2>2
  <1> QED
    BY <1>1, <1>2 DEF OpenedOwn, Reading

\* What FilesKept says of one result.
Kept(r, res) ==
    /\ res.unit \in ToSet(plan[r].units) /\ res.path = ReportFile(res.unit)
    /\ happened[r][res.unit] \in Outcome
    /\ res.path \in DOMAIN files
    /\ files[res.path].run = r
    /\ files[res.path].feature = SerializeFeature(res.unit, happened[r][res.unit])

\* No step of another run disturbs it without leaving its mark.
LEMMA KeptByOthers ==
    ASSUME WorkerInv, NEW r \in Runs, Step(r), NEW q \in Runs \ {r}, "file" \notin disturbed'[q],
           NEW res, Kept(q, res)
    PROVE  Kept(q, res)'
  <1>1. plan' = plan /\ happened'[q] = happened[q]
    BY StepFacts DEF OthersKeep
  <1>2. res.path \in DOMAIN files' /\ files'[res.path] = files[res.path]
    BY OthersFiles DEF Kept
  <1> QED
    BY <1>1, <1>2 DEF Kept, ReportFile

\* Nor does one of its own run, while its files are its own.
LEMMA KeptBySelf ==
    ASSUME WorkerInv, NEW r \in Runs, Step(r), FilesOwn(r), run[r].pc # "unlinking",
           NEW res, Kept(r, res), \E i \in DOMAIN results[r] : results[r][i] = res
    PROVE  Kept(r, res)'
  <1>0. worker[r].todo # <<>> => res.unit # Unit(r)
    BY UnitOfPlan
  <1>1. plan' = plan
    BY StepFacts DEF OthersKeep
  <1>2. ToSet(plan[r].units) \subseteq Units
    BY PlanFacts DEF WorkerInv, ToSet
  <1>3. happened'[r][res.unit] = happened[r][res.unit]
    <2>1. CASE RunFeatures(r)
      <3>1. worker[r].todo # <<>> /\ \E o : happened'[r] = [happened[r] EXCEPT ![Unit(r)] = o]
        BY <2>1, WorkerAfter DEF WorkerInv, OnceEach
      <3> QED
        BY <1>0, <1>2, <3>1, StepFacts DEF Kept
    <2> QED
      BY <2>1, UnitInHand
  <1>4. res.path \in DOMAIN files' /\ files'[res.path] = files[res.path]
    <2>1. ASSUME worker[r].todo # <<>> PROVE res.path # ReportFile(Unit(r))
      BY <1>0, <2>1, UnitOfPlan, OwnNames DEF Kept
    <2> QED
      BY <2>1, OwnFiles DEF Kept
  <1> QED
    BY <1>1, <1>3, <1>4 DEF Kept, ReportFile
\* FilesKept is preserved: FillReport finds the file its own, and makes it what
\* the result is to have.
LEMMA FilesKeptStep ==
    ASSUME WorkerInv, OpenedOwn, FilesKept, NEW r \in Runs, Step(r) PROVE FilesKept'
  <1> DEFINE AllKept(q) == \A i \in DOMAIN results[q] : results[q][i].path # None => Kept(q, results[q][i])
  <1>1. \A q \in Runs : Reading(q) /\ FilesOwn(q) => AllKept(q)
    BY DEF FilesKept, Reading, Kept
  <1>2. ASSUME NEW q \in Runs \ {r}, Reading(q)', FilesOwn(q)',
               NEW i \in DOMAIN results'[q], results'[q][i].path # None
        PROVE  Kept(q, results[q][i])'
    <2>1. results'[q] = results[q] /\ run'[q] = run[q] /\ FilesOwn(q) /\ "file" \notin disturbed'[q]
      BY <1>2, StepFacts, OwnBefore DEF OthersKeep, FilesOwn
    <2>2. Kept(q, results[q][i])
      BY <1>1, <1>2, <2>1 DEF Reading
    <2>3. PICK res : res = results[q][i]
      OBVIOUS
    <2>4. Kept(q, res)'
      BY <2>1, <2>2, <2>3, KeptByOthers
    <2> QED
      BY <2>1, <2>3, <2>4 DEF Kept
  <1>3. ASSUME Reading(r)', FilesOwn(r)', NEW i \in DOMAIN results'[r], results'[r][i].path # None
        PROVE  Kept(r, results[r][i])'
    <2>0. FilesOwn(r) /\ results[r] \in Seq(Result)
      BY <1>3, OwnBefore, StepFacts
    <2>1. PICK x : x = results'[r][i]
      OBVIOUS
    <2>2. CASE Start(r)
      <3>1. results' = results /\ results[r] = <<>>
        BY <2>2 DEF Start, WorkerInv, Unstarted
      <3>2. i \in DOMAIN <<>>
        BY <1>3, <3>1
      <3>3. DOMAIN <<>> = {}
        OBVIOUS
      <3> QED
        BY <3>2, <3>3
    <2>3. ASSUME Reading(r), i \in DOMAIN results[r], results'[r][i] = results[r][i]
          PROVE  Kept(r, results[r][i])'
      <3>1. Kept(r, x)
        BY <1>1, <1>3, <2>0, <2>1, <2>3
      <3>2. run[r].pc # "unlinking" /\ \E j \in DOMAIN results[r] : results[r][j] = x
        BY <2>1, <2>3 DEF Reading
      <3>3. Kept(r, x)'
        BY <2>0, <3>1, <3>2, KeptBySelf
      <3> QED
        BY <2>1, <3>3 DEF Kept
    <2>4. ASSUME NEW res \in Result, Reading(r), results'[r][i] = res, happened' = happened,
                 FillReport(r), res.unit = Unit(r), res.path = ReportFile(Unit(r))
          PROVE  Kept(r, results[r][i])'
      <3>1. worker[r].pc = "opened" /\ worker[r].todo # <<>>
        BY <2>4 DEF FillReport, WorkerInv, OnceEach, Reporting
      <3>2. /\ Unit(r) \in ToSet(plan[r].units) /\ plan' = plan
            /\ happened[r][Unit(r)] \in Outcome
        BY <3>1, UnitOfPlan, StepFacts DEF OthersKeep, WorkerInv, OwnOutcome, Reporting
      <3>3. ReportFile(Unit(r)) \in DOMAIN files /\ files[ReportFile(Unit(r))].run = r
        BY <2>0, <2>4, <3>1 DEF OpenedOwn, Reading
      <3>4. files' = [files EXCEPT ![ReportFile(Unit(r))] =
                        [run |-> r, feature |-> SerializeFeature(Unit(r), happened[r][Unit(r)])]]
        BY <2>4, <3>3 DEF FillReport
      <3>5. /\ ReportFile(Unit(r)) \in DOMAIN files'
            /\ files'[ReportFile(Unit(r))].run = r
            /\ files'[ReportFile(Unit(r))].feature = SerializeFeature(Unit(r), happened[r][Unit(r)])
        BY <3>3, <3>4
      <3>6. Kept(r, res)'
        BY <2>4, <3>2, <3>5 DEF Kept, ReportFile
      <3> QED
        BY <2>4, <3>6 DEF Kept
    <2>5. ASSUME NEW res \in Result, results'[r] = Append(results[r], res)
          PROVE  (i \in DOMAIN results[r] /\ results'[r][i] = results[r][i]) \/ results'[r][i] = res
      BY <1>3, <2>0, <2>5
    <2>6. Reading(r) \/ Start(r)
      BY <1>3, StillReading
    <2> QED
      BY <1>3, <2>2, <2>3, <2>4, <2>5, <2>6, PathOfResult
  <1> QED
    BY <1>2, <1>3 DEF FilesKept, Reading, Kept

-----------------------------------------------------------------------------
(* The merge.                                                               *)

\* What each step makes of a coordinator's merged features and report.
LEMMA ReportEffect ==
    ASSUME Shapes, NEW r \in Runs
    PROVE  /\ Start(r) \/ Collect(r) =>
                 run'[r].merged = run[r].merged /\ run'[r].report = run[r].report
           /\ MergeNext(r) =>
                 /\ run'[r].merged = run[r].merged \o FeaturesOf(run[r].collected[run[r].n + 1].path)
                 /\ run'[r].report = run[r].report
           /\ BuildReport(r) =>
                 /\ run'[r].collected = run[r].collected
                 /\ \/ run'[r].report = None
                    \/ /\ run'[r].report.features = run[r].merged
                       /\ run'[r].report.status = Status(run[r].collected)
                       /\ run'[r].report.statistics = Compute(run[r].merged)
           /\ List(r) \/ Unlink(r) \/ UnlinkRefused(r) \/ CheckEmpty(r) \/ RemoveDir(r)
                 \/ RemoveDirRefused(r) \/ Crash(r) =>
                 run'[r].report = run[r].report /\ run'[r].collected = run[r].collected
  <1>1. DOMAIN run = Runs /\ DOMAIN run[r] = RunFields
    BY DEF Shapes
  <1> USE DEF RunFields
  <1>2. ASSUME Start(r) \/ Collect(r)
        PROVE  run'[r].merged = run[r].merged /\ run'[r].report = run[r].report
    BY <1>1, <1>2 DEF Start, Collect, RunGoto
  <1>3. ASSUME MergeNext(r)
        PROVE  /\ run'[r].merged = run[r].merged \o FeaturesOf(run[r].collected[run[r].n + 1].path)
               /\ run'[r].report = run[r].report
    BY <1>1, <1>3 DEF MergeNext
  <1>4. ASSUME BuildReport(r)
        PROVE  /\ run'[r].collected = run[r].collected
               /\ \/ run'[r].report = None
                  \/ /\ run'[r].report.features = run[r].merged
                     /\ run'[r].report.status = Status(run[r].collected)
                     /\ run'[r].report.statistics = Compute(run[r].merged)
    <2>1. PICK written \in BOOLEAN :
            run' = [run EXCEPT ![r].pc = "listing", ![r].report =
              IF ~written THEN None
              ELSE [status |-> Status(run[r].collected), features |-> run[r].merged,
                    statistics |-> Compute(run[r].merged)]]
      BY <1>4 DEF BuildReport
    <2> QED
      BY <1>1, <2>1
  <1>5. ASSUME List(r) \/ Unlink(r) \/ UnlinkRefused(r) \/ CheckEmpty(r) \/ RemoveDir(r)
                 \/ RemoveDirRefused(r) \/ Crash(r)
        PROVE  run'[r].report = run[r].report /\ run'[r].collected = run[r].collected
    <2>1. CASE List(r)
      BY <1>1, <2>1 DEF List
    <2>2. CASE Unlink(r)
      BY <1>1, <2>2 DEF Unlink
    <2>4. CASE UnlinkRefused(r)
      BY <1>1, <2>4 DEF UnlinkRefused
    <2>5. CASE RemoveDirRefused(r)
      BY <1>1, <2>5 DEF RemoveDirRefused
    <2>3. CASE CheckEmpty(r) \/ RemoveDir(r) \/ Crash(r)
      <3>1. ASSUME NEW x, RunGoto(r, x)
            PROVE  run'[r].report = run[r].report /\ run'[r].collected = run[r].collected
        BY <1>1, <3>1 DEF RunGoto
      <3> QED
        BY <2>3, <3>1 DEF CheckEmpty, RemoveDir, Crash
    <2> QED
      BY <1>5, <2>1, <2>2, <2>3, <2>4, <2>5
  <1> QED
    BY <1>2, <1>3, <1>4, <1>5

\* What is expected of results that were read does not change any more: their
\* units are not run again.
LEMMA ExpectedStays ==
    ASSUME WorkerInv, NEW r \in Runs, Step(r), NEW q \in Runs,
           NEW c \in Seq(Result), IsPrefix(c, results[q])
    PROVE  ExpectedOf(happened'[q], c) = ExpectedOf(happened[q], c)
  <1>1. results[q] \in Seq(Result)
    BY ShapeFacts DEF WorkerInv
  <1>2. \A i \in DOMAIN c : i \in DOMAIN results[q] /\ c[i] = results[q][i]
    BY <1>1, PrefixMeans
  <1>3. CASE q # r \/ ~RunFeatures(r)
    <2>1. happened'[q] = happened[q]
      BY <1>3, StepFacts, UnitInHand DEF OthersKeep
    <2> QED
      BY <2>1
  <1>4. CASE q = r /\ RunFeatures(r)
    <2>1. PICK o : happened'[r] = [happened[r] EXCEPT ![Unit(r)] = o]
      BY <1>4, WorkerAfter DEF WorkerInv
    <2>2. worker[r].todo # <<>>
      BY <1>4 DEF RunFeatures, WorkerInv, OnceEach
    <2>3. \A i \in DOMAIN c : c[i].unit # Unit(r)
      BY <1>2, <1>4, <2>2, UnitOfPlan
    <2>4. \A u : u # Unit(r) => happened'[r][u] = happened[r][u]
      BY <2>1
    <2>5. \A i \in DOMAIN c : happened'[r][c[i].unit] = happened[r][c[i].unit]
      BY <2>3, <2>4
    <2> QED
      BY <1>4, <2>5, ExpectedSame
  <1> QED
    BY <1>3, <1>4
\* The facts about one coordinator that the proofs below start from.
LEMMA CoordinatorFacts ==
    ASSUME WorkerInv, NEW r \in Runs
    PROVE  /\ run[r].collected \in Seq(Result) /\ results[r] \in Seq(Result)
           /\ IsPrefix(run[r].collected, results[r])
           /\ run[r].n \in 0..Len(run[r].collected)
           /\ run[r].pc \in {"new", "working"} => run[r].n = 0
  BY ShapeFacts DEF WorkerInv, Shapes, TypeOK, Unread

\* The first n results that were read are results.
LEMMA ReadSoFar ==
    ASSUME WorkerInv, NEW r \in Runs, NEW n \in 0..Len(run[r].collected)
    PROVE  /\ SubSeq(run[r].collected, 1, n) \in Seq(Result)
           /\ IsPrefix(SubSeq(run[r].collected, 1, n), results[r])
           /\ n < Len(run[r].collected) =>
                 /\ n + 1 \in DOMAIN results[r]
                 /\ run[r].collected[n + 1] = results[r][n + 1]
                 /\ run[r].collected[n + 1] \in Result
                 /\ SubSeq(run[r].collected, 1, n + 1)
                       = Append(SubSeq(run[r].collected, 1, n), run[r].collected[n + 1])
  <1> DEFINE c == run[r].collected
             t == results[r]
  <1>1. c \in Seq(Result) /\ t \in Seq(Result) /\ IsPrefix(c, t)
    BY CoordinatorFacts
  <1> HIDE DEF c, t
  <1>2. /\ Len(c) <= Len(t) /\ Len(c) \in Nat /\ Len(t) \in Nat
        /\ \A i \in 1..Len(c) : c[i] = t[i]
    BY <1>1, PrefixMeans
  <1>3. n \in 0..Len(c)
    BY DEF c
  <1>4. /\ SubSeq(c, 1, n) \in Seq(Result) /\ Len(SubSeq(c, 1, n)) = n
        /\ \A i \in 1..n : SubSeq(c, 1, n)[i] = c[i]
    BY <1>1, <1>3, FrontOf
  <1>5. IsPrefix(SubSeq(c, 1, n), t)
    <2> DEFINE p == SubSeq(c, 1, n)
    <2>1. p \in Seq(Result) /\ Len(p) = n /\ \A i \in 1..n : p[i] = c[i]
      BY <1>4
    <2> HIDE DEF p
    <2>2. Len(p) <= Len(t) /\ \A i \in 1..Len(p) : p[i] = t[i]
      BY <1>2, <1>3, <2>1
    <2>3. IsPrefix(p, t)
      BY <1>1, <2>1, <2>2, PrefixMeans
    <2> QED
      BY <2>3 DEF p
  <1>6. ASSUME n < Len(c)
        PROVE  /\ n + 1 \in DOMAIN t /\ c[n + 1] = t[n + 1] /\ c[n + 1] \in Result
               /\ SubSeq(c, 1, n + 1) = Append(SubSeq(c, 1, n), c[n + 1])
    <2>1. n \in 0..(Len(c) - 1) /\ n + 1 \in 1..Len(c) /\ n + 1 \in DOMAIN t
      BY <1>1, <1>2, <1>3, <1>6
    <2> QED
      BY <1>1, <1>2, <2>1, FrontGrows
  <1> QED
    BY <1>4, <1>5, <1>6 DEF c, t

\* What is merged of a result is its feature, if it has a path.
LEMMA FeatureMerged ==
    ASSUME WorkerInv, NEW r \in Runs, NEW res, res.path # None => Kept(r, res)
    PROVE  FeaturesOf(res.path) =
              IF res.path = None THEN <<>> ELSE <<SerializeFeature(res.unit, happened[r][res.unit])>>
  <1>1. ASSUME res.path # None
        PROVE  FeaturesOf(res.path) = <<SerializeFeature(res.unit, happened[r][res.unit])>>
    <2>1. res.unit \in Units
      BY <1>1, PlanFacts DEF WorkerInv, Kept, ToSet
    <2>2. SerializeFeature(res.unit, happened[r][res.unit]) # Torn
      BY <1>1, <2>1, TornAssumption DEF Kept
    <2> QED
      BY <1>1, <2>2 DEF Kept, FeaturesOf
  <1> QED
    BY <1>1 DEF FeaturesOf

\* So each step of the merge adds what is expected.
LEMMA MergeNextStep ==
    ASSUME WorkerInv, FilesKept, MergedSoFar, NEW r \in Runs, MergeNext(r), FilesOwn(r)
    PROVE  run'[r].merged = ExpectedOf(happened[r], SubSeq(run[r].collected, 1, run[r].n + 1))
  <1> DEFINE n == run[r].n
             res == run[r].collected[n + 1]
             front == SubSeq(run[r].collected, 1, n)
             f == SerializeFeature(res.unit, happened[r][res.unit])
  <1>1. run[r].pc = "merging" /\ n < Len(run[r].collected) /\ n \in 0..Len(run[r].collected)
    BY CoordinatorFacts DEF MergeNext
  <1>2. /\ front \in Seq(Result) /\ res \in Result
        /\ n + 1 \in DOMAIN results[r] /\ res = results[r][n + 1]
        /\ SubSeq(run[r].collected, 1, n + 1) = Append(front, res)
    BY <1>1, ReadSoFar
  <1>3. run[r].merged = ExpectedOf(happened[r], front)
    BY <1>1, ExpectedIs DEF MergedSoFar
  <1>4. run'[r].merged = run[r].merged \o FeaturesOf(res.path)
    BY ReportEffect DEF WorkerInv
  <1>5. res.path # None => Kept(r, res)
    <2>1. \A i \in DOMAIN results[r] : results[r][i].path # None => Kept(r, results[r][i])
      BY <1>1 DEF FilesKept, Kept
    <2> HIDE DEF res
    <2> QED
      BY <1>2, <2>1
  <1> HIDE DEF n, res, front
  <1>6. FeaturesOf(res.path) = IF res.path = None THEN <<>> ELSE <<f>>
    BY <1>5, FeatureMerged
  <1>7. PICK Y : /\ ExpectedOf(happened[r], front) \in Seq(Y) /\ f \in Y
                 /\ ExpectedOf(happened[r], Append(front, res)) =
                       IF res.path = None THEN ExpectedOf(happened[r], front)
                       ELSE Append(ExpectedOf(happened[r], front), f)
    BY <1>2, ExpectedGrows
  <1> HIDE DEF f
  <1>8. \A s \in Seq(Y) : s \o <<>> = s /\ s \o <<f>> = Append(s, f)
    BY <1>7
  <1>9. run'[r].merged = ExpectedOf(happened[r], Append(front, res))
    BY <1>3, <1>4, <1>6, <1>7, <1>8
  <1> QED
    BY <1>2, <1>9 DEF n

\* MergedSoFar is preserved.
LEMMA MergedSoFarStep ==
    ASSUME WorkerInv, FilesKept, MergedSoFar, NEW r \in Runs, Step(r) PROVE MergedSoFar'
  <1> DEFINE So(q) ==
        /\ run[q].pc \in {"new", "working"} => run[q].merged = <<>>
        /\ run[q].pc \in {"new", "working", "merging"} => run[q].report = None
        /\ run[q].pc = "merging" /\ FilesOwn(q) =>
              run[q].merged = ExpectedOf(happened[q], SubSeq(run[q].collected, 1, run[q].n))
  <1>1. \A q \in Runs : So(q)
    BY ExpectedIs DEF MergedSoFar
  <1>2. \A q \in Runs \ {r} : So(q)'
    BY <1>1, StepFacts, OwnBefore DEF OthersKeep
  <1>3. run'[r].pc # "new"
    BY StartedOnce
  <1>4. So(r)'
    <2>1. CASE run' = run
      <3>1. ASSUME run[r].pc = "merging", FilesOwn(r)'
            PROVE  run[r].merged = ExpectedOf(happened'[r], SubSeq(run[r].collected, 1, run[r].n))
        <4>1. run[r].merged = ExpectedOf(happened[r], SubSeq(run[r].collected, 1, run[r].n))
          BY <1>1, <3>1, OwnBefore
        <4>2. /\ SubSeq(run[r].collected, 1, run[r].n) \in Seq(Result)
              /\ IsPrefix(SubSeq(run[r].collected, 1, run[r].n), results[r])
          BY CoordinatorFacts, ReadSoFar
        <4> QED
          BY <4>1, <4>2, ExpectedStays
      <3> QED
        BY <1>1, <2>1, <3>1
    <2>2. CASE Start(r)
      <3>1. run[r].pc = "new" /\ run'[r].pc = "working"
        BY <2>2, CoordEffect DEF WorkerInv, Start, RunMoves, RunIs
      <3>2. run'[r].merged = run[r].merged /\ run'[r].report = run[r].report
        BY <2>2, ReportEffect DEF WorkerInv
      <3> QED
        BY <1>1, <3>1, <3>2
    <2>3. CASE Collect(r)
      <3>1. PICK m \in 0..Len(results[r]) :
              RunIs(r, "merging", Alive(r), SubSeq(results[r], 1, m), run[r].n, run[r].listing)
        BY <2>3, CoordEffect DEF WorkerInv
      <3>2. run[r].pc = "working" /\ run[r].n = 0 /\ run'[r].n = 0 /\ run'[r].pc = "merging"
        BY <2>3, <3>1, CoordinatorFacts DEF Collect, RunIs
      <3>3. run'[r].merged = <<>> /\ run'[r].report = None
        BY <1>1, <2>3, <3>2, ReportEffect DEF WorkerInv
      <3>4. SubSeq(run'[r].collected, 1, 0) = <<>>
        <4>1. run'[r].collected \in Seq(Result)
          BY CoordinatorTypes
        <4>2. \A s \in Seq(Result) : SubSeq(s, 1, 0) = <<>>
          OBVIOUS
        <4> QED
          BY <4>1, <4>2
      <3> QED
        BY <3>2, <3>3, <3>4, ExpectedOfNone
    <2>4. CASE MergeNext(r)
      <3>1. /\ run[r].pc = "merging" /\ run'[r].pc = "merging" /\ run'[r].n = run[r].n + 1
            /\ run'[r].collected = run[r].collected
        BY <2>4, CoordEffect DEF WorkerInv, RunIs, MergeNext
      <3>2. run'[r].report = None
        BY <1>1, <2>4, <3>1, ReportEffect DEF WorkerInv
      <3>3. happened' = happened
        BY <2>4 DEF MergeNext, workerVars
      <3>4. FilesOwn(r)' =>
              run'[r].merged = ExpectedOf(happened[r], SubSeq(run[r].collected, 1, run[r].n + 1))
        BY <2>4, MergeNextStep, OwnBefore
      <3> QED
        BY <3>1, <3>2, <3>3, <3>4
    <2>5. CASE run'[r].pc \notin {"new", "working", "merging"}
      BY <2>5
    <2> QED
      BY <1>3, <2>1, <2>2, <2>3, <2>4, <2>5, StillReading DEF Reading
  <1>5. \A q \in Runs : So(q)'
    BY <1>2, <1>4
  <1> QED
    BY <1>5 DEF MergedSoFar, ExpectedFeatures, Reported, ExpectedOf, WithPath

\* ReportFaithful is preserved: the report has what was merged when all results
\* were read, and its run reads none after that.
LEMMA ReportFaithfulStep ==
    ASSUME WorkerInv, FilesKept, MergedSoFar, ReportFaithful, NEW r \in Runs, Step(r)
    PROVE  ReportFaithful'
  <1> DEFINE Faithful(q) == run[q].report # None /\ FilesOwn(q) =>
               run[q].report.features = ExpectedOf(happened[q], run[q].collected)
  <1>1. \A q \in Runs : Faithful(q)
    BY ExpectedIs DEF ReportFaithful
  <1>2. \A q \in Runs \ {r} : Faithful(q)'
    BY <1>1, StepFacts, OwnBefore DEF OthersKeep
  <1>3. Faithful(r)'
    <2>1. CASE run'[r].report = run[r].report /\ run'[r].collected = run[r].collected
      <3>1. ExpectedOf(happened'[r], run[r].collected) = ExpectedOf(happened[r], run[r].collected)
        BY CoordinatorFacts, ExpectedStays
      <3> QED
        BY <1>1, <2>1, <3>1, OwnBefore
    <2>2. CASE BuildReport(r)
      <3>1. /\ run[r].pc = "merging" /\ run[r].n = Len(run[r].collected)
            /\ happened' = happened
        BY <2>2 DEF BuildReport, workerVars
      <3>2. /\ run'[r].collected = run[r].collected
            /\ run'[r].report = None \/ run'[r].report.features = run[r].merged
        BY <2>2, ReportEffect DEF WorkerInv
      <3>3. SubSeq(run[r].collected, 1, run[r].n) = run[r].collected
        BY <3>1, CoordinatorFacts, FrontIsAll
      <3>4. FilesOwn(r)' => run[r].merged = ExpectedOf(happened[r], run[r].collected)
        BY <3>1, <3>3, OwnBefore, ExpectedIs DEF MergedSoFar
      <3> QED
        BY <3>1, <3>2, <3>4
    <2>3. CASE Start(r) \/ Collect(r) \/ MergeNext(r)
      <3>1. run[r].pc \in {"new", "working", "merging"} /\ run'[r].report = run[r].report
        BY <2>3, ReportEffect DEF WorkerInv, Start, Collect, MergeNext
      <3>2. run'[r].report = None
        BY <3>1 DEF MergedSoFar
      <3> QED
        BY <3>2
    <2> QED
      BY <2>1, <2>2, <2>3, WorkerActs, ReportEffect DEF WorkerInv
  <1>4. \A q \in Runs : Faithful(q)'
    BY <1>2, <1>3
  <1> QED
    BY <1>4 DEF ReportFaithful, ExpectedFeatures, Reported, ExpectedOf, WithPath

\* OutcomesKnown is preserved: what behave does is consistent, and a report is
\* written of what was executed.
LEMMA OutcomesKnownStep ==
    ASSUME WorkerInv, OutcomesKnown, NEW r \in Runs, Step(r) PROVE OutcomesKnown'
  <1>0. /\ results[r] \in Seq(Result)
        /\ \A q \in Runs : happened[q] \in [Units -> Outcome \cup {None}]
    BY StepFacts, ShapeFacts DEF WorkerInv
  <1>1. \A q \in Runs \ {r} : results'[q] = results[q] /\ happened'[q] = happened[q]
    BY StepFacts DEF OthersKeep
  <1>2. ASSUME RunFeatures(r)
        PROVE  \E o \in Outcome : Consistent(o) /\ happened'[r] = [happened[r] EXCEPT ![Unit(r)] = o]
    <2>1. PICK o \in Outcome :
            o \in Possible(r, Unit(r)) /\ happened'[r] = [happened[r] EXCEPT ![Unit(r)] = o]
      BY <1>2, WorkerAfter DEF WorkerInv
    <2>2. Unit(r) \in Units
      BY <1>2, UnitOfPlan DEF RunFeatures, WorkerInv, OnceEach
    <2>3. \A x \in Outcomes[Unit(r)] : Consistent(x)
      BY <2>2, BehaveAssumption
    <2>4. /\ Consistent(Idle("untested", 0)) /\ Consistent(Idle("skipped", 0))
          /\ Consistent(Idle("undefined", 1))
      BY DEF Consistent, Idle, FailedStatuses
    <2> QED
      BY <2>1, <2>3, <2>4 DEF Possible
  <1>3. \A u \in Units : happened'[r][u] # None => Consistent(happened'[r][u])
    <2>1. CASE RunFeatures(r)
      BY <1>0, <1>2, <2>1 DEF OutcomesKnown
    <2>2. CASE happened' = happened
      BY <2>2 DEF OutcomesKnown
    <2> QED
      BY <2>1, <2>2, UnitInHand
  <1>4. \A u \in Units : happened[r][u] \in Outcome => happened'[r][u] \in Outcome
    BY <1>0, <1>2, UnitInHand
  <1>5. ASSUME NEW i \in DOMAIN results'[r], results'[r][i].path # None
        PROVE  results'[r][i].unit \in Units /\ happened'[r][results'[r][i].unit] \in Outcome
    <2>1. CASE i \in DOMAIN results[r] /\ results'[r][i] = results[r][i]
      BY <1>4, <1>5, <2>1 DEF OutcomesKnown
    <2>2. ASSUME FillReport(r), happened' = happened, results'[r][i].unit = Unit(r)
          PROVE  results'[r][i].unit \in Units /\ happened'[r][results'[r][i].unit] \in Outcome
      <3>1. worker[r].pc \in Reporting /\ worker[r].todo # <<>>
        BY <2>2 DEF FillReport, WorkerInv, OnceEach, Reporting
      <3>2. Unit(r) \in Units /\ happened[r][Unit(r)] \in Outcome
        BY <3>1, UnitOfPlan DEF WorkerInv, OwnOutcome
      <3> QED
        BY <2>2, <3>2
    <2>3. ASSUME NEW res \in Result, results'[r] = Append(results[r], res)
          PROVE  (i \in DOMAIN results[r] /\ results'[r][i] = results[r][i]) \/ results'[r][i] = res
      BY <1>0, <1>5, <2>3
    <2> QED
      BY <1>5, <2>1, <2>2, <2>3, PathOfResult
  <1> QED
    BY <1>1, <1>3, <1>5 DEF OutcomesKnown

\* StatusAndStatistics is preserved: a report is not changed any more.
LEMMA StatusAndStatisticsStep ==
    ASSUME WorkerInv, MergedSoFar, StatusAndStatistics, NEW r \in Runs, Step(r)
    PROVE  StatusAndStatistics'
  <1>1. \A q \in Runs \ {r} : run'[q] = run[q]
    BY StepFacts DEF OthersKeep
  <1>2. ASSUME run'[r].report # None
        PROVE  /\ run'[r].report.status = Status(run'[r].collected)
               /\ run'[r].report.statistics = Compute(run'[r].report.features)
    <2>1. CASE run'[r].report = run[r].report /\ run'[r].collected = run[r].collected
      BY <1>2, <2>1 DEF StatusAndStatistics
    <2>2. CASE BuildReport(r)
      BY <1>2, <2>2, ReportEffect DEF WorkerInv
    <2>3. CASE Start(r) \/ Collect(r) \/ MergeNext(r)
      <3>1. run[r].pc \in {"new", "working", "merging"} /\ run'[r].report = run[r].report
        BY <2>3, ReportEffect DEF WorkerInv, Start, Collect, MergeNext
      <3> QED
        BY <1>2, <3>1 DEF MergedSoFar
    <2> QED
      BY <2>1, <2>2, <2>3, WorkerActs, ReportEffect DEF WorkerInv
  <1>3. ASSUME NEW q \in Runs, run'[q].report # None
        PROVE  /\ run'[q].report.status = Status(run'[q].collected)
               /\ run'[q].report.statistics = Compute(run'[q].report.features)
    <2>1. CASE q = r
      BY <1>2, <1>3, <2>1, Zenon
    <2>2. CASE q # r
      <3>1. run'[q] = run[q]
        BY <1>1, <2>2
      <3> QED
        BY <1>3, <3>1, Zenon DEF StatusAndStatistics
    <2> QED
      BY <2>1, <2>2
  <1> QED
    BY <1>3, ZenonT(30) DEF StatusAndStatistics, Status

-----------------------------------------------------------------------------
(* The invariant.                                                           *)

\* It holds at the start: nothing was written, read or merged.
LEMMA FaithStart == Init => ReportInv
  <1> SUFFICES ASSUME Init PROVE ReportInv
    OBVIOUS
  <1>1. \A r \in Runs :
          /\ run[r].pc = "new" /\ run[r].merged = <<>> /\ run[r].report = None
          /\ results[r] = <<>> /\ \A u \in Units : happened[r][u] = None
    BY DEF Init, WorkerInit
  <1> QED
    BY <1>1 DEF ReportInv, OpenedOwn, FilesKept, MergedSoFar, ReportFaithful,
       OutcomesKnown, StatusAndStatistics

\* A step of nobody does not touch it.
LEMMA FaithStutter ==
    ASSUME ReportInv, UNCHANGED vars PROVE ReportInv'
  <1>1. /\ plan' = plan /\ worker' = worker /\ results' = results /\ happened' = happened
        /\ files' = files /\ disturbed' = disturbed /\ run' = run
    BY DEF vars, workerVars, dirVars
  <1>2. \A r \in Runs : FilesOwn(r)' = FilesOwn(r)
    BY <1>1 DEF FilesOwn
  <1>3. OpenedOwn'
    BY <1>1, <1>2 DEF ReportInv, OpenedOwn, Unit, ReportFile
  <1>4. FilesKept'
    BY <1>1, <1>2 DEF ReportInv, FilesKept, ReportFile
  <1>5. MergedSoFar' /\ ReportFaithful'
    BY <1>1, <1>2, ZenonT(30) DEF ReportInv, MergedSoFar, ReportFaithful, ExpectedFeatures, Reported
  <1>6. OutcomesKnown' /\ StatusAndStatistics'
    BY <1>1 DEF ReportInv, OutcomesKnown, StatusAndStatistics
  <1> QED
    BY <1>3, <1>4, <1>5, <1>6 DEF ReportInv

\* The invariant, for any runs, plans, faults, outcomes and file names.
THEOREM ReportsInvariance == Spec => []ReportsInv
  <1>1. Init => ReportsInv
    BY ReportsStart, FaithStart DEF ReportsInv
  <1>2. ReportsInv /\ [Next]_vars => ReportsInv'
    <2>1. ASSUME ReportsInv, NEW r \in Runs, Step(r) PROVE ReportsInv'
      BY <2>1, ReportsStep, OpenedOwnStep, FilesKeptStep, MergedSoFarStep, ReportFaithfulStep,
         OutcomesKnownStep, StatusAndStatisticsStep
         DEF ReportsInv, ReportInv, SharedInv
    <2>2. ASSUME ReportsInv, UNCHANGED vars PROVE ReportsInv'
      BY <2>2, ReportsStutter, FaithStutter DEF ReportsInv
    <2> QED
      BY <2>1, <2>2, StepOfRun
  <1> QED
    BY <1>1, <1>2, PTL DEF Spec

\* As long as the files of a run are its own, its report has the feature of each
\* result with a path once, in order, as its worker executed it, and nothing
\* else.
THEOREM ReportsAreFaithful == Spec => []ReportFaithful
  <1>1. ReportsInv => ReportFaithful
    BY DEF ReportsInv, ReportInv
  <1> QED
    BY <1>1, ReportsInvariance, PTL

-----------------------------------------------------------------------------
(* The statistics.                                                          *)

\* A feature whose scenarios and steps have statuses of P.
ScenarioOf(P) == [tags : SUBSET Tags, status : P, steps : Seq(P)]
FeatureOf(P) == [unit : Units, tags : SUBSET Tags, scenarios : Seq(ScenarioOf(P))]

\* Nothing is counted of what is not there.
LEMMA NothingCounted ==
    ASSUME NEW P, NEW s \in Seq(P), NEW S, P \cap S = {}
    PROVE  CountOf(s, S) = 0
  <1>1. {i \in DOMAIN s : s[i] \in S} = {}
    OBVIOUS
  <1> QED
    BY <1>1, FS_EmptySet DEF CountOf

\* A scenario with the tags of its feature is a scenario with these statuses.
LEMMA AllScenariosType ==
    ASSUME NEW P, NEW E \in Seq(FeatureOf(P))
    PROVE  AllScenarios(E) \in Seq(ScenarioOf(P))
  <1> DEFINE In(f) == [j \in DOMAIN f.scenarios |-> [f.scenarios[j] EXCEPT !.tags = @ \cup f.tags]]
             ss == [i \in DOMAIN E |-> In(E[i])]
  <1>1. ASSUME NEW f \in FeatureOf(P) PROVE In(f) \in Seq(ScenarioOf(P))
    <2>1. f.scenarios \in Seq(ScenarioOf(P)) /\ f.tags \in SUBSET Tags
      BY DEF FeatureOf
    <2>2. ASSUME NEW sc \in ScenarioOf(P) PROVE [sc EXCEPT !.tags = @ \cup f.tags] \in ScenarioOf(P)
      BY <2>1 DEF ScenarioOf
    <2>3. \A j \in 1..Len(f.scenarios) : f.scenarios[j] \in ScenarioOf(P)
      BY <2>1
    <2>4. DOMAIN f.scenarios = 1..Len(f.scenarios) /\ Len(f.scenarios) \in Nat
      BY <2>1
    <2>5. In(f) \in [1..Len(f.scenarios) -> ScenarioOf(P)]
      BY <2>2, <2>3, <2>4
    <2> HIDE DEF In
    <2> QED
      BY <2>4, <2>5
  <1> HIDE DEF In
  <1>2. \A i \in 1..Len(E) : E[i] \in FeatureOf(P)
    OBVIOUS
  <1>3. DOMAIN E = 1..Len(E) /\ Len(E) \in Nat
    OBVIOUS
  <1>4. ss \in [1..Len(E) -> Seq(ScenarioOf(P))]
    BY <1>1, <1>2, <1>3
  <1>5. ss \in Seq(Seq(ScenarioOf(P)))
    <2> HIDE DEF ss
    <2> QED
      BY <1>3, <1>4
  <1>6. AllScenarios(E) = FlattenSeq(ss)
    BY DEF AllScenarios, In
  <1> QED
    BY <1>5, <1>6, FlattenType

\* What the statistics say of features with statuses of P.
LEMMA StatisticsOf ==
    ASSUME NEW P, NEW E \in Seq(FeatureOf(P))
    PROVE  /\ P \cap FailedStatuses = {} =>
                 /\ Compute(E).errorCount = 0
                 /\ \A t \in DOMAIN Compute(E).byTag, s \in FailedStatuses :
                       Compute(E).byTag[t].statuses[s] = 0
           /\ "undefined" \notin P => Compute(E).counts["undefined"] = 0
           /\ \A t \in DOMAIN Compute(E).byTag : Compute(E).byTag[t].count <= Compute(E).scenarios
  <1> DEFINE scenarios == AllScenarios(E)
             perScenario == [i \in DOMAIN scenarios |-> scenarios[i].steps]
             steps == FlattenSeq(perScenario)
             Tagged(t) == Only(scenarios, {s \in ToSet(scenarios) : t \in s.tags})
             Statuses(t) == [i \in DOMAIN Tagged(t) |-> Tagged(t)[i].status]
             C == Compute(E)
  <1>1. scenarios \in Seq(ScenarioOf(P))
    BY AllScenariosType
  <1>2. steps \in Seq(P)
    <2> HIDE DEF scenarios
    <2>1. \A i \in 1..Len(scenarios) : scenarios[i] \in ScenarioOf(P)
      BY <1>1
    <2>2. DOMAIN scenarios = 1..Len(scenarios) /\ Len(scenarios) \in Nat
      BY <1>1
    <2>3. \A sc \in ScenarioOf(P) : sc.steps \in Seq(P)
      BY DEF ScenarioOf
    <2>4. perScenario \in [1..Len(scenarios) -> Seq(P)]
      BY <2>1, <2>2, <2>3
    <2>5. perScenario \in Seq(Seq(P))
      <3> HIDE DEF perScenario
      <3> QED
        BY <2>2, <2>4
    <2> HIDE DEF perScenario
    <2> QED
      BY <2>5, FlattenType
  <1>3. ASSUME NEW t
        PROVE  Statuses(t) \in Seq(P) /\ Len(Tagged(t)) <= Len(scenarios)
    <2> DEFINE tagged == Tagged(t)
               st == Statuses(t)
    <2>1. tagged \in Seq(ScenarioOf(P)) /\ Len(tagged) <= Len(scenarios)
      BY <1>1, OnlyElements, OnlyLength
    <2> HIDE DEF scenarios
    <2>2. st = [i \in DOMAIN tagged |-> tagged[i].status]
      OBVIOUS
    <2> HIDE DEF tagged, st
    <2>3. DOMAIN tagged = 1..Len(tagged) /\ Len(tagged) \in Nat
          /\ \A i \in 1..Len(tagged) : tagged[i] \in ScenarioOf(P)
      BY <2>1
    <2>4. \A sc \in ScenarioOf(P) : sc.status \in P
      BY DEF ScenarioOf
    <2>5. st \in [1..Len(tagged) -> P]
      BY <2>2, <2>3, <2>4
    <2>6. st \in Seq(P)
      BY <2>3, <2>5
    <2> QED
      BY <2>1, <2>6 DEF tagged, st
  <1>4. /\ C.scenarios = Len(scenarios)
        /\ C.counts = [s \in CountedStatuses |-> CountOf(steps, {s})]
        /\ C.errorCount = CountOf(steps, FailedStatuses)
        /\ C.byTag = ByTag(scenarios)
    BY DEF Compute
  <1>5. \A t \in DOMAIN C.byTag :
          /\ C.byTag[t].count = Len(Tagged(t))
          /\ C.byTag[t].statuses = [s \in TagStatuses |-> CountOf(Statuses(t), {s})]
    <2> HIDE DEF scenarios, C
    <2> QED
      BY <1>4 DEF ByTag
  <1> HIDE DEF C, steps, Statuses, Tagged, scenarios
  <1>6. ASSUME P \cap FailedStatuses = {}
        PROVE  /\ C.errorCount = 0
               /\ \A t \in DOMAIN C.byTag, s \in FailedStatuses : C.byTag[t].statuses[s] = 0
    <2>1. C.errorCount = 0
      BY <1>2, <1>4, <1>6, NothingCounted
    <2>2. ASSUME NEW t \in DOMAIN C.byTag, NEW s \in FailedStatuses
          PROVE  C.byTag[t].statuses[s] = 0
      <3>1. P \cap {s} = {}
        BY <1>6
      <3>2. CountOf(Statuses(t), {s}) = 0
        BY <1>3, <3>1, NothingCounted
      <3>3. s \in TagStatuses
        BY DEF TagStatuses
      <3> QED
        BY <1>5, <3>2, <3>3
    <2> QED
      BY <2>1, <2>2
  <1>7. ASSUME "undefined" \notin P PROVE C.counts["undefined"] = 0
    <2>1. P \cap {"undefined"} = {}
      BY <1>7
    <2>2. CountOf(steps, {"undefined"}) = 0
      BY <1>2, <2>1, NothingCounted
    <2> QED
      BY <1>4, <2>2 DEF CountedStatuses
  <1>8. \A t \in DOMAIN C.byTag : C.byTag[t].count <= C.scenarios
    BY <1>3, <1>4, <1>5
  <1> QED
    BY <1>6, <1>7, <1>8 DEF C

\* What is expected of results of executed units, with statuses of P.
LEMMA ExpectedType ==
    ASSUME NEW P, NEW h, NEW c \in Seq(Result),
           \A i \in DOMAIN c : c[i].path # None =>
              c[i].unit \in Units /\ h[c[i].unit] \in Outcome /\ h[c[i].unit].status \in P
    PROVE  ExpectedOf(h, c) \in Seq(FeatureOf(P))
  <1> DEFINE s == Only(c, WithPath)
  <1>1. s \in Seq(Result) /\ ToSet(s) = ToSet(c) \cap WithPath
    BY OnlyElements
  <1> HIDE DEF s
  <1>2. ASSUME NEW u \in Units, NEW o \in Outcome, o.status \in P
        PROVE  SerializeFeature(u, o) \in FeatureOf(P)
    <2>1. FeatureTags[u] \in SUBSET Tags /\ ScenarioTags[u] \in SUBSET Tags
      BY RunnerAssumption
    <2> DEFINE sc == [tags |-> ScenarioTags[u], status |-> o.status, steps |-> <<o.status>>]
    <2>2. sc \in ScenarioOf(P)
      BY <1>2, <2>1 DEF ScenarioOf
    <2>3. SerializeFeature(u, o) = [unit |-> u, tags |-> FeatureTags[u], scenarios |-> <<sc>>]
      BY DEF SerializeFeature
    <2> HIDE DEF sc
    <2>4. <<sc>> \in Seq(ScenarioOf(P))
      BY <2>2
    <2> QED
      BY <2>1, <2>3, <2>4 DEF FeatureOf
  <1>3. ASSUME NEW i \in DOMAIN s PROVE SerializeFeature(s[i].unit, h[s[i].unit]) \in FeatureOf(P)
    <2>1. s[i] \in ToSet(c) /\ s[i].path # None
      BY <1>1 DEF ToSet, WithPath
    <2>2. PICK j \in DOMAIN c : c[j] = s[i]
      BY <2>1 DEF ToSet
    <2>3. s[i].unit \in Units /\ h[s[i].unit] \in Outcome /\ h[s[i].unit].status \in P
      BY <2>1, <2>2
    <2> QED
      BY <1>2, <2>3
  <1>4. DOMAIN s = 1..Len(s) /\ Len(s) \in Nat
    BY <1>1
  <1>5. ExpectedOf(h, c) = [i \in 1..Len(s) |-> SerializeFeature(s[i].unit, h[s[i].unit])]
    BY <1>4 DEF ExpectedOf, s
  <1>6. ExpectedOf(h, c) \in [1..Len(s) -> FeatureOf(P)]
    BY <1>3, <1>4, <1>5
  <1> QED
    BY <1>4, <1>6

\* StatusMatchesStatistics follows: a result that is not failed tells of a unit
\* with no failure and no undefined step.
LEMMA StatusFollows == ReportsInv => StatusMatchesStatistics
  <1> SUFFICES ASSUME ReportsInv, NEW r \in Runs, run[r].report # None, FilesOwn(r)
               PROVE  LET stats == run[r].report.statistics IN
                      /\ run[r].report.status = "passed" =>
                            /\ stats.errorCount = 0 /\ stats.counts["undefined"] = 0
                            /\ \A t \in DOMAIN stats.byTag, s \in FailedStatuses :
                                  stats.byTag[t].statuses[s] = 0
                      /\ \A t \in DOMAIN stats.byTag : stats.byTag[t].count <= stats.scenarios
    BY DEF StatusMatchesStatistics
  <1> DEFINE c == run[r].collected
             h == happened[r]
             E == ExpectedOf(h, c)
  <1>0. WorkerInv /\ UnitsIsolated /\ OutcomesKnown
    BY DEF ReportsInv, SharedInv, WorkerInv, ReportInv
  <1>1. /\ c \in Seq(Result) /\ results[r] \in Seq(Result) /\ IsPrefix(c, results[r])
    BY <1>0, CoordinatorFacts
  <1>2. run[r].report.statistics = Compute(E) /\ run[r].report.status = Status(c)
    BY ExpectedIs DEF ReportsInv, ReportInv, ReportFaithful, StatusAndStatistics
  <1>3. \A i \in DOMAIN c : i \in DOMAIN results[r] /\ c[i] = results[r][i]
    BY <1>1, PrefixMeans
  <1> HIDE DEF c
  <1>4. \A i \in DOMAIN c : c[i].path # None => c[i].unit \in Units /\ h[c[i].unit] \in Outcome
    BY <1>0, <1>3 DEF OutcomesKnown
  <1>5. \A i \in DOMAIN c : c[i].path # None /\ ~c[i].failed =>
          h[c[i].unit].status \notin FailedStatuses \cup {"undefined"}
    <2> SUFFICES ASSUME NEW i \in DOMAIN c, c[i].path # None, ~c[i].failed
                 PROVE  h[c[i].unit].status \notin FailedStatuses \cup {"undefined"}
      OBVIOUS
    <2>1. c[i].unit \in Units /\ h[c[i].unit] \in Outcome /\ h[c[i].unit] # None
      BY <1>4, RunnerAssumption
    <2>2. ~Bad(h[c[i].unit])
      BY <1>0, <1>3, <2>1 DEF UnitsIsolated, Bad
    <2>3. Consistent(h[c[i].unit])
      BY <1>0, <2>1 DEF OutcomesKnown
    <2> QED
      BY <2>2, <2>3 DEF Consistent, Bad
  <1>6. \A i \in DOMAIN c : c[i].path # None => h[c[i].unit].status \in TagStatuses
    BY <1>4 DEF Outcome
  <1> DEFINE P == TagStatuses \ (FailedStatuses \cup {"undefined"})
  <1>7. CASE Status(c) = "passed"
    <2>1. \A i \in DOMAIN c : ~c[i].failed
      BY <1>7 DEF Status
    <2>2. \A i \in DOMAIN c : c[i].path # None => h[c[i].unit].status \in P
      BY <1>5, <1>6, <2>1
    <2>3. P \cap FailedStatuses = {} /\ "undefined" \notin P
      OBVIOUS
    <2> HIDE DEF P, h
    <2>4. E \in Seq(FeatureOf(P))
      BY <1>1, <1>4, <2>2, ExpectedType
    <2> HIDE DEF E
    <2> QED
      BY <1>2, <2>3, <2>4, StatisticsOf
  <1>8. CASE Status(c) # "passed"
    <2> HIDE DEF h
    <2>1. E \in Seq(FeatureOf(TagStatuses))
      BY <1>1, <1>4, <1>6, ExpectedType
    <2> HIDE DEF E
    <2> QED
      BY <1>2, <1>8, <2>1, StatisticsOf
  <1> QED
    BY <1>7, <1>8

\* A report that says passed shows no failure and no undefined step anywhere in
\* its statistics, and no tag counts a scenario twice.
THEOREM StatusAgreesWithStatistics == Spec => []StatusMatchesStatistics
  BY StatusFollows, ReportsInvariance, PTL
=============================================================================
