--------------------------- MODULE ReportsInvariant ---------------------------
(***************************************************************************)
(* The inductive invariant behind the safety properties of Reports: what is  *)
(* true of every run's worker and coordinator, and of the directory they     *)
(* share, between any two steps.                                            *)
(***************************************************************************)
EXTENDS Reports

\* The fields of the records.
WorkerState == [pc : Places, todo : Seq(Units), aborted : BOOLEAN, hook_failures : 0..1,
                undefined : 0..1, failed : BOOLEAN, stops : BOOLEAN]
RunFields == {"pc", "rushed", "collected", "n", "merged", "listing", "kept", "dirKept",
              "report"}
Shapes ==
    /\ worker \in [Runs -> WorkerState]
    /\ results \in [Runs -> Seq(Result)]
    /\ DOMAIN run = Runs
    /\ \A r \in Runs : DOMAIN run[r] = RunFields /\ run[r].collected \in Seq(Result)
    /\ \A f \in DOMAIN files : DOMAIN files[f] = {"run", "feature"}

\* A worker that was not started has done nothing.
Unstarted ==
    \A r \in Runs :
        /\ run[r].pc = "new" <=> worker[r].pc = "off"
        /\ worker[r].pc = "off" =>
              /\ worker[r].todo = <<>> /\ results[r] = <<>> /\ ~worker[r].stops
              /\ \A u \in Units : happened[r][u] = None

\* A coordinator has merged nothing before it has read its results.
Unread == \A r \in Runs : run[r].pc \in {"new", "working"} => run[r].n = 0

\* Each unit is run once: those that a worker has still to do have no result
\* and, but for the one whose report it writes, no outcome.
Reporting == {"ran", "mkdir", "opened"}
OnceEach ==
    \A r \in Runs :
        /\ \A i, j \in DOMAIN worker[r].todo : worker[r].todo[i] = worker[r].todo[j] => i = j
        /\ worker[r].pc \in {"parsed"} \cup Reporting => worker[r].todo # <<>>
        /\ \A i \in DOMAIN results[r], j \in DOMAIN worker[r].todo :
              results[r][i].unit # worker[r].todo[j]
        /\ worker[r].pc # "dead" => \A j \in DOMAIN worker[r].todo :
              happened[r][worker[r].todo[j]] = None \/ (j = 1 /\ worker[r].pc \in Reporting)

\* The runner starts each unit from zero, and what it then has in its fields
\* is what this unit left in them.
Bad(o) == o.returns \/ o.aborted \/ o.hook_failures = 1 \/ o.undefined = 1
FreshStart ==
    \A r \in Runs : worker[r].pc = "parsed" =>
        ~worker[r].aborted /\ worker[r].hook_failures = 0 /\ worker[r].undefined = 0
OwnOutcome ==
    \A r \in Runs : worker[r].pc \in Reporting =>
        LET o == happened[r][Unit(r)] IN
        /\ o \in Outcome
        /\ worker[r].failed <=> Bad(o)
        /\ worker[r].undefined = o.undefined
        /\ worker[r].aborted => worker[r].failed

WorkerInv ==
    /\ TypeOK /\ Shapes /\ Unstarted /\ Unread /\ OnceEach /\ FreshStart /\ OwnOutcome
    /\ UnitsIsolated /\ StopsOnlyOnFailure /\ DryRunsNothing

-----------------------------------------------------------------------------
(* The directory.                                                           *)

\* Report files lie in tmp/, and a run that was not started has none.
FilesInTmp ==
    /\ DOMAIN files # {} => tmp
    /\ \A f \in DOMAIN files : run[files[f].run].pc # "new"

\* Who waited for its worker merges when the worker has ended.
WorkerEnded ==
    \A r \in Runs :
        run[r].pc \in {"merging", "listing", "unlinking", "removing", "done", "raised"}
            /\ ~run[r].rushed => worker[r].pc \in {"done", "dead"}

\* So its files are those it listed and then, when it has tried to remove
\* these, those whose removal was refused.
ListedOnly ==
    \A r \in Runs : ~run[r].rushed => \A f \in DOMAIN files : files[f].run = r =>
        /\ run[r].pc = "unlinking" => f \in run[r].listing \cup run[r].kept
        /\ run[r].pc \in {"removing", "done", "raised"} => f \in run[r].kept

\* The directory is there until some run removes it, and that run knows whom
\* it disturbs.
DirOrDisturbed ==
    \A r \in Runs : run[r].pc = "unlinking" => tmp \/ "dir" \in disturbed[r]

DirInv == FilesInTmp /\ WorkerEnded /\ ListedOnly /\ DirOrDisturbed /\ CleanTmp /\ MergeReturns

SharedInv == WorkerInv /\ DirInv

-----------------------------------------------------------------------------
(* The reports, as long as the files of a run are its own.                  *)

\* The file that is being written is there and belongs to who writes it ...
OpenedOwn ==
    \A r \in Runs :
        run[r].pc \in {"working", "merging"} /\ worker[r].pc = "opened" /\ FilesOwn(r) =>
            /\ ReportFile(Unit(r)) \in DOMAIN files
            /\ files[ReportFile(Unit(r))].run = r

\* ... and, once written, stays as it is until it is merged.
FilesKept ==
    \A r \in Runs : run[r].pc \in {"working", "merging"} /\ FilesOwn(r) =>
        \A i \in DOMAIN results[r] :
            LET res == results[r][i] IN
            res.path # None =>
                /\ res.unit \in ToSet(plan[r].units) /\ res.path = ReportFile(res.unit)
                /\ happened[r][res.unit] \in Outcome
                /\ res.path \in DOMAIN files
                /\ files[res.path].run = r
                /\ files[res.path].feature = SerializeFeature(res.unit, happened[r][res.unit])

\* So what is merged is what is expected of the results read so far.
MergedSoFar ==
    \A r \in Runs :
        /\ run[r].pc \in {"new", "working"} => run[r].merged = <<>>
        /\ run[r].pc \in {"new", "working", "merging"} => run[r].report = None
        /\ run[r].pc = "merging" /\ FilesOwn(r) =>
              run[r].merged = ExpectedFeatures(r, SubSeq(run[r].collected, 1, run[r].n))

\* What is executed leaves an outcome that is consistent, and what has a report
\* was executed.
OutcomesKnown ==
    \A r \in Runs :
        /\ \A u \in Units : happened[r][u] # None => Consistent(happened[r][u])
        /\ \A i \in DOMAIN results[r] : results[r][i].path # None =>
              results[r][i].unit \in Units /\ happened[r][results[r][i].unit] \in Outcome

\* The status and the statistics of a report, each from its own source.
StatusAndStatistics ==
    \A r \in Runs : run[r].report # None =>
        /\ run[r].report.status = Status(run[r].collected)
        /\ run[r].report.statistics = Compute(run[r].report.features)

ReportInv ==
    /\ OpenedOwn /\ FilesKept /\ MergedSoFar /\ ReportFaithful
    /\ OutcomesKnown /\ StatusAndStatistics

ReportsInv == SharedInv /\ ReportInv
=============================================================================
