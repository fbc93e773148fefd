------------------------------ MODULE Statistics ------------------------------
(***************************************************************************)
(* The statistics of a merged report: ParallelRunner._compute_statistics of *)
(* behave_pool/runner.py, durations left out.                               *)
(*                                                                         *)
(* A feature has tags and scenarios, a scenario has tags, a status and the  *)
(* statuses of its steps.                                                   *)
(***************************************************************************)
EXTENDS Lists, FiniteSets, SequencesExt

CountedStatuses == {"passed", "failed", "skipped", "undefined", "pending"}
FailedStatuses == {"failed", "error", "hook_error", "cleanup_error"}
TagStatuses == CountedStatuses \cup FailedStatuses \cup {"untested", "xfailed", "xpassed"}

\* How many entries of seq are in S.
CountOf(seq, S) == Cardinality({i \in DOMAIN seq : seq[i] \in S})

\* The scenarios of all features, each with the tags it is counted under.
AllScenarios(features) ==
    FlattenSeq([i \in DOMAIN features |->
        [j \in DOMAIN features[i].scenarios |->
            [features[i].scenarios[j] EXCEPT !.tags = @ \cup features[i].tags]]])

\* A scenario counts once under each tag, also under one that it shares with
\* its feature.
ByTag(scenarios) ==
    [t \in UNION {scenarios[i].tags : i \in DOMAIN scenarios} |->
        LET tagged == Only(scenarios, {s \in ToSet(scenarios) : t \in s.tags})
            statuses == [i \in DOMAIN tagged |-> tagged[i].status]
        IN  [count |-> Len(tagged),
             statuses |-> [s \in TagStatuses |-> CountOf(statuses, {s})]]]

Compute(features) ==
    LET scenarios == AllScenarios(features)
        steps == FlattenSeq([i \in DOMAIN scenarios |-> scenarios[i].steps])
    IN  [features |-> Len(features),
         scenarios |-> Len(scenarios),
         steps |-> Len(steps),
         counts |-> [s \in CountedStatuses |-> CountOf(steps, {s})],
         errorCount |-> CountOf(steps, FailedStatuses),
         byTag |-> ByTag(scenarios)]
=============================================================================
