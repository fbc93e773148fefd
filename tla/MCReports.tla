------------------------------- MODULE MCReports -------------------------------
(***************************************************************************)
(* Small instances of Reports for TLC.                                      *)
(***************************************************************************)
EXTENDS ReportsInvariant

CONSTANTS a, b, u1, u2, u3, v1, v2, slow, web

MCFeatureTags == [u \in Units |-> IF u \in {u1, v1} THEN {web} ELSE {}]
MCScenarioTags == [u \in Units |-> IF u \in {u1, v2} THEN {web, slow} ELSE {web}]

\* u3 is a_b/c where u1 is a/b_c.
MCSafeId == [u \in Units |-> IF u = u3 THEN u1 ELSE u]

\* What behave may leave behind: a failed status is reported by feature.run(),
\* and a failed hook or an undefined step by the runner.
Sensible(o) ==
    /\ o.status \in {"passed", "failed", "error", "hook_error", "undefined"}
    /\ o.status \in FailedStatuses => o.returns
    /\ o.status = "hook_error" => o.hook_failures = 1
    /\ o.status = "undefined" <=> o.undefined = 1

Pass == Idle("passed", 0)
Fail == [Idle("failed", 0) EXCEPT !.returns = TRUE]

\* v1 does whatever there is.
MCOutcomes ==
    [u \in Units |->
        IF u = v1 THEN {o \in Outcome : Sensible(o)}
        ELSE IF u \in {u2, v2} THEN {Pass, Fail} ELSE {Pass}]

Job(units, faults) ==
    [units |-> units, faults |-> faults, config |-> [tags |-> AllTags, dry_run |-> FALSE]]
Two(ja, jb) == [r \in Runs |-> IF r = a THEN ja ELSE jb]
Nothing == Job(<<>>, {})

EveryFault == {"setup", "hook", "raise", "disk", "locked", "kill", "late", "crash"}

\* A run and its repetition; two shards, one of them with colliding ids; a run
\* of features that do anything, and a dry run of them.
Repeated == Two(Job(<<u1, u2>>, {"kill", "late", "crash"}), Job(<<u2>>, {"locked"}))
Sharded == Two(Job(<<u1, u3>>, {"disk"}), Job(<<u2>>, {"late", "crash"}))
Alone == Two(Job(<<v1, v2>>, EveryFault), Nothing)
Dry == Two([Job(<<v1, v2>>, EveryFault) EXCEPT !.config.dry_run = TRUE], Nothing)

MCPlans == {Repeated, Sharded, Alone, Dry}

TagPlans == {Two([Job(<<u1, u2>>, {}) EXCEPT !.config.tags = {slow}], Nothing)}
=============================================================================
