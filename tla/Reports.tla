-------------------------------- MODULE Reports --------------------------------
(***************************************************************************)
(* Runs that share a directory: what the coordinator of each does with the  *)
(* reports of its worker, _merge_reports of behave_pool/runner.py.          *)
(*                                                                         *)
(* How units and results travel between the two is the matter of Pool; here *)
(* the coordinator starts its worker with its units and reads the results   *)
(* that arrived.                                                            *)
(***************************************************************************)
EXTENDS WorkerRunner

VARIABLE
    run     \* the state of each run's coordinator

vars == <<run, workerVars, dirVars>>

RunPlaces == {"new", "working", "merging", "listing", "unlinking", "removing",
              "done", "raised", "crashed"}
Active(r) == run[r].pc \notin {"new", "done", "raised", "crashed"}

Init ==
    /\ WorkerInit
    /\ run = [r \in Runs |-> [pc |-> "new", rushed |-> FALSE, collected |-> <<>>, n |-> 0,
                 merged |-> <<>>, listing |-> {}, kept |-> {}, dirKept |-> FALSE, report |-> None]]

RunGoto(r, label) == run' = [run EXCEPT ![r].pc = label]

Start(r) ==
    /\ run[r].pc = "new" /\ plan[r].units # <<>>
    /\ RunGoto(r, "working")
    /\ worker' = [worker EXCEPT ![r].pc = "setup", ![r].todo = plan[r].units]
    /\ UNCHANGED <<plan, results, happened, dirVars>>

\* The results that arrived: all of them if the worker ended.  A worker that
\* was killed loses what it had not written; so does one that was still at
\* work when the join expired, and that one gets a SIGTERM nobody waits for.
Collect(r) ==
    /\ run[r].pc = "working"
    /\ Alive(r) => MayFail(r, "late")
    /\ \E m \in 0..Len(results[r]) :
        /\ worker[r].pc = "done" => m = Len(results[r])
        /\ run' = [run EXCEPT ![r].pc = "merging", ![r].rushed = Alive(r),
                              ![r].collected = SubSeq(results[r], 1, m)]
    /\ UNCHANGED <<workerVars, dirVars>>

SignalDeath(r) == run[r].rushed /\ Die(r) /\ UNCHANGED run

Kill(r) == MayFail(r, "kill") /\ Die(r) /\ UNCHANGED run

-----------------------------------------------------------------------------
(* _merge_reports().                                                        *)

\* The features of one report file, none if it is missing or does not parse.
FeaturesOf(path) ==
    IF path # None /\ path \in DOMAIN files /\ files[path].feature # Torn
    THEN <<files[path].feature>> ELSE <<>>

MergeNext(r) ==
    /\ run[r].pc = "merging" /\ run[r].n < Len(run[r].collected)
    /\ run' = [run EXCEPT ![r].n = @ + 1,
                 ![r].merged = @ \o FeaturesOf(run[r].collected[run[r].n + 1].path)]
    /\ UNCHANGED <<workerVars, dirVars>>

\* execution.status of the report.
Status(collected) ==
    IF \E i \in DOMAIN collected : collected[i].failed THEN "failed" ELSE "passed"

BuildReport(r) ==
    /\ run[r].pc = "merging" /\ run[r].n = Len(run[r].collected)
    /\ \E written \in BOOLEAN :
        /\ ~written => MayFail(r, "disk")
        /\ run' = [run EXCEPT ![r].pc = "listing", ![r].report =
              IF ~written THEN None
              ELSE [status |-> Status(run[r].collected), features |-> run[r].merged,
                    statistics |-> Compute(run[r].merged)]]
    /\ UNCHANGED <<workerVars, dirVars>>

\* Mutant: no is_dir().
NotAsked == TRUE

IsDir == tmp

\* Mutant: only the reports of the results are removed.
CollectedFiles(r) ==
    DOMAIN files \cap {run[r].collected[i].path : i \in DOMAIN run[r].collected}

\* Every worker_*.json, whosever it is.
Glob(r) == DOMAIN files

List(r) ==
    /\ run[r].pc = "listing"
    /\ run' = [run EXCEPT ![r].pc = IF IsDir THEN "unlinking" ELSE "done",
                          ![r].listing = Glob(r)]
    /\ UNCHANGED <<workerVars, dirVars>>

\* unlink() of the next one; it does not matter if it is gone.
Unlink(r) ==
    /\ run[r].pc = "unlinking"
    /\ \E f \in run[r].listing :
        /\ run' = [run EXCEPT ![r].listing = @ \ {f}]
        /\ files' = [x \in DOMAIN files \ {f} |-> files[x]]
        /\ Touch(r, f)
    /\ UNCHANGED <<workerVars, tmp, foreign>>

\* The system refuses it: the error is suppressed, and the loop goes on.
UnlinkRefused(r) ==
    /\ run[r].pc = "unlinking" /\ MayFail(r, "locked")
    /\ \E f \in run[r].listing :
        run' = [run EXCEPT ![r].listing = @ \ {f}, ![r].kept = @ \cup {f}]
    /\ UNCHANGED <<workerVars, dirVars>>

\* iterdir() of a directory that is gone raises, and nobody catches it.
CheckEmpty(r) ==
    /\ run[r].pc = "unlinking" /\ run[r].listing = {}
    /\ RunGoto(r, IF ~tmp THEN "raised"
                  ELSE IF DOMAIN files = {} /\ ~foreign THEN "removing" ELSE "done")
    /\ UNCHANGED <<workerVars, dirVars>>

\* rmdir(), which fails quietly if the directory is gone or has a file again.
RemoveDir(r) ==
    /\ run[r].pc = "removing"
    /\ LET removed == tmp /\ DOMAIN files = {} IN
        /\ tmp' = (tmp /\ ~removed)
        /\ disturbed' = [q \in Runs |-> disturbed[q] \cup
              IF q # r /\ Active(q) /\ removed THEN {"dir"} ELSE {}]
    /\ RunGoto(r, "done")
    /\ UNCHANGED <<workerVars, foreign, files>>

\* ... or if the system refuses it.
RemoveDirRefused(r) ==
    /\ run[r].pc = "removing" /\ MayFail(r, "locked")
    /\ run' = [run EXCEPT ![r].pc = "done", ![r].dirKept = TRUE]
    /\ UNCHANGED <<workerVars, dirVars>>

\* The coordinator is killed: its worker goes on, its files stay.
Crash(r) ==
    /\ MayFail(r, "crash") /\ Active(r)
    /\ RunGoto(r, "crashed")
    /\ UNCHANGED <<workerVars, dirVars>>

Merge(r) ==
    \/ MergeNext(r) \/ BuildReport(r) \/ List(r) \/ Unlink(r) \/ UnlinkRefused(r)
    \/ CheckEmpty(r) \/ RemoveDir(r) \/ RemoveDirRefused(r)

Next ==
    \E r \in Runs :
        \/ WorkerStep(r) /\ UNCHANGED run
        \/ Start(r) \/ Collect(r) \/ SignalDeath(r) \/ Kill(r)
        \/ Merge(r) \/ Crash(r)

Spec == Init /\ [][Next]_vars

-----------------------------------------------------------------------------
(* Properties.                                                              *)

\* Every variable has its type; the worker's counters say at most what one
\* unit can leave in them, as each unit starts from zero.
TypeOK ==
    /\ plan \in Plans
    /\ \A r \in Runs :
        /\ worker[r].pc \in Places
        /\ IsSuffix(worker[r].todo, plan[r].units)
        /\ {worker[r].aborted, worker[r].failed, worker[r].stops} \subseteq BOOLEAN
        /\ worker[r].hook_failures \in 0..1 /\ worker[r].undefined \in 0..1
        /\ results[r] \in Seq(Result)
        /\ run[r].pc \in RunPlaces /\ run[r].rushed \in BOOLEAN
        /\ IsPrefix(run[r].collected, results[r]) /\ run[r].n \in 0..Len(run[r].collected)
    /\ happened \in [Runs -> [Units -> Outcome \cup {None}]]
    /\ tmp \in BOOLEAN /\ foreign \in BOOLEAN
    /\ \A f \in DOMAIN files : files[f].run \in Runs
    /\ disturbed \in [Runs -> SUBSET {"file", "dir"}]

\* The result of a unit tells of that unit alone: a failed hook, an undefined
\* step or an abort neither gets lost nor fails a later unit (run_work_unit).
UnitsIsolated ==
    \A r \in Runs : \A i \in DOMAIN results[r] :
        LET res == results[r][i] IN
        res.unit \in Units /\ happened[r][res.unit] # None =>
            LET o == happened[r][res.unit] IN
            /\ res.failed <=> o.returns \/ o.aborted \/ o.hook_failures = 1 \/ o.undefined = 1
            /\ res.undefined = o.undefined

\* A worker that stops all others has put a failed result before: no run is
\* cut short and passes (_worker_run_loop).  Pool's FinishUnit rests on it.
StopsOnlyOnFailure ==
    \A r \in Runs : worker[r].stops => \E i \in DOMAIN results[r] : results[r][i].failed

Executed(r, u) ==
    happened[r][u] # None /\ happened[r][u].status \notin {"untested", "undefined", "skipped"}

\* With --dry-run no worker executes anything (config.py, snapshot_config).
DryRunsNothing ==
    \A r \in Runs, u \in Units : plan[r].config.dry_run => ~Executed(r, u)

\* The features of the results that have a report, as the worker executed them.
Reported(collected) == Only(collected, {res \in Result : res.path # None})
ExpectedFeatures(r, collected) ==
    [i \in DOMAIN Reported(collected) |->
        LET u == Reported(collected)[i].unit IN SerializeFeature(u, happened[r][u])]

\* The files of a run are its own: no two units of it have the same file name,
\* and no other run wrote over one or removed one.
FilesOwn(r) ==
    /\ "file" \notin disturbed[r]
    /\ \A i, j \in DOMAIN plan[r].units :
          SafeId[plan[r].units[i]] = SafeId[plan[r].units[j]] => i = j

\* As long as its files are its own, a run's report has the feature of each
\* result with a path once, in order and as this run's worker executed it, and
\* nothing else: no torn file, nothing of an earlier run (_merge_reports).
ReportFaithful ==
    \A r \in Runs : run[r].report # None /\ FilesOwn(r) =>
        run[r].report.features = ExpectedFeatures(r, run[r].collected)

\* A report that says passed shows no failure anywhere in its statistics, and
\* counts no scenario twice under a tag (_build_execution and
\* _compute_statistics look at different data).
StatusMatchesStatistics ==
    \A r \in Runs : run[r].report # None /\ FilesOwn(r) =>
        LET stats == run[r].report.statistics IN
        /\ run[r].report.status = "passed" =>
            /\ stats.errorCount = 0 /\ stats.counts["undefined"] = 0
            /\ \A t \in DOMAIN stats.byTag, s \in FailedStatuses :
                   stats.byTag[t].statuses[s] = 0
        /\ \A t \in DOMAIN stats.byTag : stats.byTag[t].count <= stats.scenarios

\* A run that waited for its worker leaves no report file of its own in tmp/,
\* not even one of a worker that was killed, but those whose unlink() the
\* system refused; alone, it leaves no tmp/ either, unless such a file is in it
\* or the rmdir() was refused (architecture.md, "Clean up tmp/ directory").
CleanTmp ==
    \A r \in Runs : run[r].pc = "done" /\ ~run[r].rushed =>
        /\ \A f \in DOMAIN files : files[f].run = r => f \in run[r].kept
        /\ (\A q \in Runs \ {r} : run[q].pc = "new") /\ ~foreign =>
              (tmp => DOMAIN files # {} \/ run[r].dirKept)

\* A run whose tests are done does not fail in its clean-up, unless another
\* run removed the directory meanwhile.
MergeReturns ==
    \A r \in Runs : run[r].pc = "raised" => "dir" \in disturbed[r]

-----------------------------------------------------------------------------
\* --tags is applied before anything runs (sharding.md): only scenarios that
\* match are executed.
SelectedOnly ==
    \A r \in Runs, u \in Units : Executed(r, u) => Selects(plan[r].config, u)
=============================================================================
