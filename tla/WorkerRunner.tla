----------------------------- MODULE WorkerRunner -----------------------------
(***************************************************************************)
(* What a worker does with its work units: WorkerRunner of                  *)
(* behave_pool/worker.py, from setup to teardown, and the report files it    *)
(* leaves in tmp/.  Several runs share the directory; each has one worker    *)
(* here, which does its units one after the other.                          *)
(*                                                                         *)
(* What behave does with a feature is an outcome: the status of its         *)
(* scenario (and of the step that decides it), what feature.run() returns,   *)
(* and what it leaves in aborted, hook_failures and undefined_steps of the   *)
(* runner.                                                                  *)
(***************************************************************************)
EXTENDS Statistics

CONSTANTS
    Runs,           \* behave processes started in one directory
    Units,          \* features, one work unit each
    Tags,
    Plans,          \* units and options the runs may be given, and faults they may meet
    Outcomes,       \* what each feature may do
    FeatureTags,
    ScenarioTags,
    SafeId,         \* the id of a unit with :, / and \ replaced by _
    SetupId,        \* work_unit_id "setup" of a failed setup
    None,           \* no path, no report, no outcome
    Torn,           \* the content of a file that is still being written
    AllTags         \* no --tags option

Outcome == [status : TagStatuses, returns : BOOLEAN, aborted : BOOLEAN,
            hook_failures : 0..1, undefined : 0..1]
Config == [tags : {AllTags} \cup SUBSET Tags, dry_run : BOOLEAN]
Result == [unit : Units \cup {SetupId}, failed : BOOLEAN, undefined : 0..1,
           path : {SafeId[u] : u \in Units} \cup {None}]

ASSUME RunnerAssumption ==
    /\ \A p \in Plans : DOMAIN p = Runs /\ \A r \in Runs :
          p[r].units \in Seq(Units) /\ IsInjective(p[r].units) /\ p[r].config \in Config
    /\ Outcomes \in [Units -> SUBSET Outcome]
    /\ FeatureTags \in [Units -> SUBSET Tags] /\ ScenarioTags \in [Units -> SUBSET Tags]
    /\ DOMAIN SafeId = Units /\ None \notin {SafeId[u] : u \in Units}
    /\ SetupId \notin Units /\ None \notin Outcome

VARIABLES
    plan,
    worker,     \* the state of each run's WorkerRunner
    results,    \* what it put on the result queue
    happened,   \* history: the outcome of each unit that was run
    tmp,        \* the directory tmp/ exists
    foreign,    \* ... and holds a file that is not a worker's
    files,      \* the worker_*.json in it
    disturbed   \* history: what another run did to a run's files

workerVars == <<plan, worker, results, happened>>
dirVars == <<tmp, foreign, files, disturbed>>

Places == {"off", "setup", "idle", "parsed", "ran", "mkdir", "opened", "teardown", "done", "dead"}
Alive(r) == worker[r].pc \notin {"off", "done", "dead"}
Unit(r) == Head(worker[r].todo)
MayFail(r, fault) == fault \in plan[r].faults

WorkerInit ==
    /\ plan \in Plans
    /\ worker = [r \in Runs |-> [pc |-> "off", todo |-> <<>>, aborted |-> FALSE,
                    hook_failures |-> 0, undefined |-> 0, failed |-> FALSE, stops |-> FALSE]]
    /\ results = [r \in Runs |-> <<>>]
    /\ happened = [r \in Runs |-> [u \in Units |-> None]]
    /\ foreign \in BOOLEAN /\ tmp = foreign
    /\ files = [f \in {} |-> None]
    /\ disturbed = [r \in Runs |-> {}]

-----------------------------------------------------------------------------
(* The options.                                                             *)

\* Mutant: a field that is copied nowhere.
ForgetfulSnapshot(config) == [dry_run |-> FALSE]

\* The fields of the snapshot; --tags is none of them.
snapshot_config(config) == [dry_run |-> config.dry_run]

make_config(snapshot) == [tags |-> AllTags, dry_run |-> snapshot.dry_run]

WorkerConfig(r) == make_config(snapshot_config(plan[r].config))

Selects(config, u) ==
    config.tags = AllTags \/ config.tags \cap (FeatureTags[u] \cup ScenarioTags[u]) # {}

-----------------------------------------------------------------------------
(* Setup.                                                                   *)

\* before_all is a hook behave calls (but not with dry_run): when it raises,
\* it is recorded in the runner, and setup() goes on.
Setup(r) ==
    /\ worker[r].pc = "setup"
    /\ \E broken \in BOOLEAN :
        /\ broken => MayFail(r, "hook") /\ ~WorkerConfig(r).dry_run
        /\ worker' = [worker EXCEPT ![r].pc = "idle", ![r].aborted = broken,
                                    ![r].hook_failures = IF broken THEN 1 ELSE 0]
    /\ UNCHANGED <<plan, results, happened, dirVars>>

\* environment.py or a step module does not load: every worker is to stop.
SetupFails(r) ==
    /\ MayFail(r, "setup")
    /\ worker[r].pc = "setup"
    /\ worker' = [worker EXCEPT ![r].pc = "teardown", ![r].stops = TRUE]
    /\ results' = [results EXCEPT ![r] = Append(@,
          [unit |-> SetupId, failed |-> TRUE, undefined |-> 0, path |-> None])]
    /\ UNCHANGED <<plan, happened, dirVars>>

-----------------------------------------------------------------------------
(* run_work_unit().                                                         *)

\* The result is put; an aborted worker stops all others and leaves its loop.
PutResult(r, failed, undefined, path) ==
    /\ results' = [results EXCEPT ![r] = Append(@,
          [unit |-> Unit(r), failed |-> failed, undefined |-> undefined, path |-> path])]
    /\ worker' = [worker EXCEPT ![r].todo = Tail(@), ![r].stops = worker[r].aborted,
                                ![r].pc = IF worker[r].aborted THEN "teardown" ELSE "idle"]

\* The feature file does not parse (any more), or behave itself raises: a
\* failed result, without a report.  Before Parse, aborted is what it was.
UnitRaises(r) ==
    /\ MayFail(r, "raise")
    /\ worker[r].pc \in {"idle", "parsed"} /\ worker[r].todo # <<>>
    /\ PutResult(r, TRUE, 0, None)
    /\ UNCHANGED <<plan, happened, dirVars>>

\* Mutants: something is not reset.
KeepHooks(w) == [w EXCEPT !.undefined = 0, !.aborted = FALSE]
KeepUndefined(w) == [w EXCEPT !.hook_failures = 0, !.aborted = FALSE]

\* What the runner forgets before a unit: whatever the last one, or before_all,
\* left in it.
Reset(w) == [w EXCEPT !.undefined = 0, !.hook_failures = 0, !.aborted = FALSE]

Parse(r) ==
    /\ worker[r].pc = "idle" /\ worker[r].todo # <<>>
    /\ worker' = [worker EXCEPT ![r] = [Reset(@) EXCEPT !.pc = "parsed"]]
    /\ UNCHANGED <<plan, results, happened, dirVars>>

Idle(status, n) ==
    [status |-> status, returns |-> FALSE, aborted |-> FALSE, hook_failures |-> 0, undefined |-> n]

\* What behave may do with a feature.  With dry_run no step is executed, but
\* undefined ones are noticed.
Possible(r, u) ==
    IF worker[r].aborted THEN {Idle("untested", 0)}
    ELSE IF ~Selects(WorkerConfig(r), u) THEN {Idle("skipped", 0)}
    ELSE IF WorkerConfig(r).dry_run THEN {Idle("untested", 0), Idle("undefined", 1)}
    ELSE Outcomes[u]

\* feature.run() returns a failure for each failed scenario (or the runner counts
\* the failed hook), and an undefined step is among the undefined_steps.
Consistent(o) ==
    /\ o.status \in FailedStatuses => o.returns \/ o.hook_failures = 1
    /\ o.status = "undefined" => o.undefined = 1

ASSUME BehaveAssumption == \A u \in Units : \A o \in Outcomes[u] : Consistent(o)

\* Mutant: `or self.aborted` is missing.
FailedUnlessAborted(r, o) ==
    o.returns \/ worker[r].hook_failures + o.hook_failures > 0 \/ o.undefined > 0

\* Mutant: undefined steps are not counted.
FailedIfReturned(r, o) ==
    o.returns \/ worker[r].aborted \/ o.aborted \/ worker[r].hook_failures + o.hook_failures > 0

\* What _run_features returns: any sign of failure counts.
Failed(r, o) ==
    \/ o.returns
    \/ worker[r].aborted \/ o.aborted
    \/ worker[r].hook_failures + o.hook_failures > 0
    \/ o.undefined > 0

RunFeatures(r) ==
    /\ worker[r].pc = "parsed"
    /\ \E o \in Possible(r, Unit(r)) :
        /\ happened' = [happened EXCEPT ![r][Unit(r)] = o]
        /\ worker' = [worker EXCEPT ![r].pc = "ran", ![r].failed = Failed(r, o),
                        ![r].aborted = @ \/ o.aborted,
                        ![r].hook_failures = @ + o.hook_failures,
                        ![r].undefined = @ + o.undefined]
    /\ UNCHANGED <<plan, results, dirVars>>

-----------------------------------------------------------------------------
(* The report of a unit.                                                    *)

\* The feature as its report has it.  A scenario has the one step that
\* decides its status.
SerializeFeature(u, o) ==
    [unit |-> u, tags |-> FeatureTags[u],
     scenarios |-> <<[tags |-> ScenarioTags[u], status |-> o.status, steps |-> <<o.status>>]>>]

\* No feature looks like a half-written file, which does not parse.
ASSUME TornAssumption == \A u \in Units, o \in Outcome : SerializeFeature(u, o) # Torn

\* Mutant: one report per worker.
ReportOfWorker(u) == "worker_0.json"

\* worker_0_<safe id>.json
ReportFile(u) == SafeId[u]

\* Run r writes or removes f, which may be the file of another run.
Touch(r, f) ==
    disturbed' = [q \in Runs |-> disturbed[q] \cup
        IF q # r /\ f \in DOMAIN files /\ files[f].run = q THEN {"file"} ELSE {}]

Goto(r, label) == worker' = [worker EXCEPT ![r].pc = label]

MakeDir(r) ==
    /\ worker[r].pc = "ran"
    /\ tmp' = TRUE
    /\ Goto(r, "mkdir")
    /\ UNCHANGED <<plan, results, happened, foreign, files, disturbed>>

\* write_text() creates the file, or empties the one that is there ...
OpenReport(r) ==
    /\ worker[r].pc = "mkdir" /\ tmp
    /\ LET f == ReportFile(Unit(r)) IN
        /\ files' = [x \in DOMAIN files \cup {f} |->
              IF x = f THEN [run |-> r, feature |-> Torn] ELSE files[x]]
        /\ Touch(r, f)
    /\ Goto(r, "opened")
    /\ UNCHANGED <<plan, results, happened, tmp, foreign>>

\* ... and writes it.  If the file was removed since, the text goes nowhere;
\* if another run opened it since, one text or the other or a mixture stays.
FillReport(r) ==
    /\ worker[r].pc = "opened"
    /\ LET f == ReportFile(Unit(r))
           mine == [run |-> r, feature |-> SerializeFeature(Unit(r), happened[r][Unit(r)])]
       IN  /\ \/ f \notin DOMAIN files /\ files' = files
              \/ f \in DOMAIN files /\ files' = [files EXCEPT ![f] = mine]
              \/ /\ f \in DOMAIN files /\ files[f].run # r
                 /\ \E mix \in {files[f], [files[f] EXCEPT !.feature = Torn]} :
                        files' = [files EXCEPT ![f] = mix]
           /\ Touch(r, f)
           /\ PutResult(r, worker[r].failed, worker[r].undefined, f)
    /\ UNCHANGED <<plan, happened, tmp, foreign>>

\* Mutant: the path was set before the writing failed.
WriteFailsWithPath(r) ==
    /\ worker[r].pc \in {"mkdir", "opened"} /\ MayFail(r, "disk")
    /\ PutResult(r, worker[r].failed, worker[r].undefined, ReportFile(Unit(r)))
    /\ UNCHANGED <<plan, happened, dirVars>>

\* Whatever goes wrong there, the unit has a result, without a report.
WriteFails(r) ==
    /\ \/ worker[r].pc = "mkdir" /\ ~tmp
       \/ worker[r].pc \in {"ran", "mkdir", "opened"} /\ MayFail(r, "disk")
    /\ PutResult(r, worker[r].failed, worker[r].undefined, None)
    /\ UNCHANGED <<plan, happened, dirVars>>

-----------------------------------------------------------------------------
(* The end.                                                                 *)

\* Nothing is left to do: after_all, whose failure nobody asks for.
Teardown(r) ==
    /\ \/ worker[r].pc = "teardown"
       \/ worker[r].pc = "idle" /\ worker[r].todo = <<>>
    /\ Goto(r, "done")
    /\ UNCHANGED <<plan, results, happened, dirVars>>

Die(r) ==
    /\ Alive(r)
    /\ Goto(r, "dead")
    /\ UNCHANGED <<plan, results, happened, dirVars>>

WorkerStep(r) ==
    \/ Setup(r) \/ SetupFails(r) \/ Parse(r) \/ UnitRaises(r) \/ RunFeatures(r)
    \/ MakeDir(r) \/ OpenReport(r) \/ FillReport(r) \/ WriteFails(r) \/ Teardown(r)
=============================================================================
