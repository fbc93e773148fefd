----------------------------- MODULE PoolPromise -----------------------------
(***************************************************************************)
(* What a parallel run promises its user, with no queue, no process and no  *)
(* coordinator: which units may run together, that none runs twice, and      *)
(* that a pass means that every unit it offered ran and passed.             *)
(***************************************************************************)
EXTENDS Naturals, FiniteSets

CONSTANTS ParallelUnits, SerialUnits, Slots

VARIABLES offered, status, verdict

promiseVars == <<offered, status, verdict>>

AllUnits == ParallelUnits \cup SerialUnits
RunningUnits == {u \in AllUnits : status[u] = "running"}

PromiseInit ==
    /\ offered = {}
    /\ status = [u \in AllUnits |-> "none"]
    /\ verdict = "none"

\* The units are offered in two lots, the serial ones only when nothing runs.
Offer ==
    /\ verdict = "none"
    /\ \/ offered = {} /\ offered' = ParallelUnits
       \/ /\ offered = ParallelUnits /\ RunningUnits = {}
          /\ offered' = AllUnits
    /\ UNCHANGED <<status, verdict>>

\* At most Slots parallel units run at a time, and none once a serial unit has
\* begun; a serial unit runs alone.  A verdict does not hold back a worker that
\* had made up its mind; after a pass there is nothing left to begin.
Begin(u) ==
    /\ u \in offered /\ status[u] = "none"
    /\ IF u \in SerialUnits
       THEN RunningUnits = {}
       ELSE /\ Cardinality(RunningUnits) < Slots
            /\ \A s \in SerialUnits : status[s] = "none"
    /\ status' = [status EXCEPT ![u] = "running"]
    /\ UNCHANGED <<offered, verdict>>

\* A unit comes to a result, or its worker does not live to give one.
End(u) ==
    /\ status[u] = "running"
    /\ \E outcome \in {"passed", "failed", "lost"} :
          status' = [status EXCEPT ![u] = outcome]
    /\ UNCHANGED <<offered, verdict>>

\* The verdict.  It may be a failure for reasons that no unit shows: a failed
\* setup, or a result that got lost.
Judge ==
    /\ verdict = "none"
    /\ \/ verdict' = "passed" /\ \A u \in offered : status[u] = "passed"
       \/ verdict' = "failed"
    /\ UNCHANGED <<offered, status>>

PromiseNext == Offer \/ Judge \/ \E u \in AllUnits : Begin(u) \/ End(u)

PromiseSpec == PromiseInit /\ [][PromiseNext]_promiseVars
=============================================================================
