--------------------------------- MODULE Plan ---------------------------------
(***************************************************************************)
(* Planning: how the machines of a CI pipeline, each started with its own   *)
(* --shard INDEX/TOTAL, agree without communicating on who runs what, and    *)
(* in which order a machine dispatches its share (runner.py, shard.py).     *)
(*                                                                         *)
(* A feature is its rank in the order of the work unit ids.  In sequential   *)
(* mode features are sorted by filename instead; the id is the filename      *)
(* behind a constant prefix, so the order is the same.                      *)
(***************************************************************************)
EXTENDS Lists, FiniteSets, SequencesExt

CONSTANTS
    NumFeatures,  \* features the machines find, the same on each
    Serials,      \* which of them may have a @serial tag
    Total,        \* TOTAL of --shard INDEX/TOTAL
    Orders,       \* orders in which a machine may discover the features
    Histories,    \* durations a machine's timing file may hold
    Jobs          \* values of --parallel

Features == 1..NumFeatures
Rearrangements == {s \in [Features -> Features] : ToSet(s) = Features}

ASSUME PlanAssumption ==
    /\ NumFeatures \in Nat /\ Serials \subseteq SUBSET Features
    /\ Total \in Nat \ {0}
    /\ Orders \subseteq Rearrangements
    /\ Histories \subseteq [Features -> Nat]
    /\ Jobs \subseteq Nat \ {0}

\* Machine m is started with --shard m/Total; 0 and Total + 1 are mistakes.
Machines == 0..(Total + 1)

VARIABLES
    serial,          \* the features with a @serial tag
    sharding,        \* whether --shard is given
    pc,              \* where each machine is
    jobs, balance,   \* its config.parallel and config.parallel_balance
    history,         \* the durations it sorted by
    units,           \* the features it has planned so far
    parallel_batch, serial_batch

vars == <<serial, sharding, pc, jobs, balance, history, units, parallel_batch, serial_batch>>

Init ==
    /\ serial \in Serials
    /\ sharding \in BOOLEAN
    /\ pc = [m \in Machines |-> "start"]
    /\ jobs = [m \in Machines |-> 1]
    /\ balance = [m \in Machines |-> "lpt"]
    /\ history = [m \in Machines |-> [f \in Features |-> 0]]
    /\ units = [m \in Machines |-> <<>>]
    /\ parallel_batch = [m \in Machines |-> <<>>]
    /\ serial_batch = [m \in Machines |-> <<>>]

-----------------------------------------------------------------------------
(* shard.py.                                                                *)

validate_shard(index, total) == total >= 1 /\ index >= 1 /\ index <= total

Smaller(a, b) == IF a <= b THEN a ELSE b

\* How many items come before shard index, and how many are in it.
Offset(n, index, total) ==
    (index - 1) * (n \div total) + Smaller(index - 1, n % total)

Count(n, index, total) ==
    n \div total + IF index <= n % total THEN 1 ELSE 0

\* Mutant: the extra items of the earlier shards are forgotten.
SliceFromBase(items, index, total) ==
    LET start == (index - 1) * (Len(items) \div total)
    IN  SubSeq(items, start + 1, start + Count(Len(items), index, total))

\* Mutant: the last shard takes the whole remainder.
RemainderLast(items, index, total) ==
    LET base == Len(items) \div total
    IN  SubSeq(items, (index - 1) * base + 1,
               IF index = total THEN Len(items) ELSE index * base)

split_shards(items, index, total) ==
    LET start == Offset(Len(items), index, total)
    IN  SubSeq(items, start + 1, start + Count(Len(items), index, total))

\* sorted(..., key=id): the permutation in ascending order.
SortById(us) ==
    CHOOSE s \in [DOMAIN us -> ToSet(us)] :
        /\ ToSet(s) = ToSet(us)
        /\ \A i, j \in DOMAIN s : i < j => s[i] < s[j]

\* Mutant: the shard is cut out of the units as they come.
ShardUnsorted(us, index, total) == split_shards(us, index, total)

select_shard_work_units(us, index, total) == split_shards(SortById(us), index, total)

-----------------------------------------------------------------------------
(* runner.py.                                                               *)

Position(us, u) == CHOOSE i \in DOMAIN us : us[i] = u

\* Mutant: reverse=True is dropped.
IsAscending(s, us, d) ==
    \A i, j \in DOMAIN s : i < j =>
        \/ d[s[i]] < d[s[j]]
        \/ d[s[i]] = d[s[j]] /\ Position(us, s[i]) < Position(us, s[j])

\* sorted(..., key=duration, reverse=True): longest first, and stable.
IsLpt(s, us, d) ==
    \A i, j \in DOMAIN s : i < j =>
        \/ d[s[i]] > d[s[j]]
        \/ d[s[i]] = d[s[j]] /\ Position(us, s[i]) < Position(us, s[j])

Goto(m, label) == pc' = [pc EXCEPT ![m] = label]

\* The command line: a wrong shard ends the program.
Configure(m) ==
    /\ pc[m] = "start"
    /\ sharding \/ m = 1
    /\ Goto(m, IF sharding /\ ~validate_shard(m, Total) THEN "error" ELSE "parse")
    /\ UNCHANGED <<serial, sharding, jobs, balance, history, units, parallel_batch, serial_batch>>

\* One work unit per feature, in the order of discovery.  With one job the
\* features themselves are run, one after the other.
Parse(m) ==
    /\ pc[m] = "parse"
    /\ \E order \in Orders, n \in Jobs, b \in {"lpt", "fifo"} :
        /\ units' = [units EXCEPT ![m] = order]
        /\ jobs' = [jobs EXCEPT ![m] = n]
        /\ balance' = [balance EXCEPT ![m] = b]
        /\ Goto(m, IF n <= 1 THEN "filter" ELSE "sort")
    /\ UNCHANGED <<serial, sharding, history, parallel_batch, serial_batch>>

\* fifo keeps the order of discovery and does not look at the timing file.
SortByDuration(m) ==
    /\ pc[m] = "sort"
    /\ \/ /\ balance[m] = "fifo"
          /\ UNCHANGED <<history, units>>
       \/ /\ balance[m] = "lpt"
          /\ \E d \in Histories, s \in Rearrangements :
                /\ IsLpt(s, units[m], d)
                /\ history' = [history EXCEPT ![m] = d]
                /\ units' = [units EXCEPT ![m] = s]
    /\ Goto(m, "shard")
    /\ UNCHANGED <<serial, sharding, jobs, balance, parallel_batch, serial_batch>>

Share(m) ==
    IF sharding THEN select_shard_work_units(units[m], m, Total) ELSE units[m]

ApplyShard(m) ==
    /\ pc[m] = "shard"
    /\ units' = [units EXCEPT ![m] = Share(m)]
    /\ Goto(m, "split")
    /\ UNCHANGED <<serial, sharding, jobs, balance, history, parallel_batch, serial_batch>>

\* _filter_features_by_shard, in sequential mode.
FilterFeatures(m) ==
    /\ pc[m] = "filter"
    /\ units' = [units EXCEPT ![m] = Share(m)]
    /\ Goto(m, "sequential")
    /\ UNCHANGED <<serial, sharding, jobs, balance, history, parallel_batch, serial_batch>>

is_serial(u) == u \in serial

\* Mutant: the serial units stay in the parallel batch.
SplitOverlapping(m) ==
    /\ pc[m] = "split"
    /\ parallel_batch' = [parallel_batch EXCEPT ![m] = units[m]]
    /\ serial_batch' = [serial_batch EXCEPT ![m] = Only(units[m], {u \in Features : is_serial(u)})]
    /\ Goto(m, "dispatch")
    /\ UNCHANGED <<serial, sharding, jobs, balance, history, units>>

SplitBySerialTag(m) ==
    /\ pc[m] = "split"
    /\ parallel_batch' = [parallel_batch EXCEPT ![m] = Only(units[m], {u \in Features : ~is_serial(u)})]
    /\ serial_batch' = [serial_batch EXCEPT ![m] = Only(units[m], {u \in Features : is_serial(u)})]
    /\ Goto(m, "dispatch")
    /\ UNCHANGED <<serial, sharding, jobs, balance, history, units>>

Step(m) ==
    \/ Configure(m) \/ Parse(m) \/ SortByDuration(m)
    \/ ApplyShard(m) \/ FilterFeatures(m) \/ SplitBySerialTag(m)

Next == \E m \in Machines : Step(m)

Spec == Init /\ [][Next]_vars

-----------------------------------------------------------------------------
TypeOK ==
    /\ serial \in Serials
    /\ sharding \in BOOLEAN
    /\ pc \in [Machines -> {"start", "error", "parse", "filter", "sequential", "sort",
                            "shard", "split", "dispatch"}]
    /\ jobs \in [Machines -> Nat \ {0}]
    /\ balance \in [Machines -> {"lpt", "fifo"}]
    /\ history \in [Machines -> [Features -> Nat]]
    /\ units \in [Machines -> Seq(Features)]
    /\ parallel_batch \in [Machines -> Seq(Features)]
    /\ serial_batch \in [Machines -> Seq(Features)]

\* The machines that know their share.
Planned == {m \in Machines : pc[m] \in {"split", "dispatch", "sequential"}}

\* The machines hold all features until they take their share of the one order
\* that all of them agree on, and no share has a feature twice.
ById == SortById([f \in Features |-> f])
AgreedShare(m) == m \in 1..Total /\ units[m] = split_shards(ById, m, Total)
ShareInv ==
    /\ TypeOK
    /\ \A m \in Machines : pc[m] \in {"filter", "sort", "shard"} => units[m] \in Rearrangements
    /\ \A m \in Machines : pc[m] = "split" => IsInjective(units[m])
    /\ sharding => \A m \in Machines : pc[m] \notin {"start", "error"} => m \in 1..Total
    /\ sharding => \A m \in Planned : AgreedShare(m)

\* Once every rightly started machine has its share, each feature is run by
\* exactly one of them: whatever order each machine found the features in,
\* whatever its timing file says, sequential or parallel (docs/sharding.md).
EachFeatureOnce ==
    sharding /\ 1..Total \subseteq Planned =>
        \A f \in Features : \E m \in Planned :
            /\ f \in ToSet(units[m])
            /\ \A o \in Planned \ {m} : f \notin ToSet(units[o])

\* The shares differ by at most one feature.
SharesBalanced ==
    sharding => \A m, o \in Planned : Len(units[m]) <= Len(units[o]) + 1

\* What is dispatched is what a Pool may be given (PoolAssumption): units once
\* each, in one of the two batches, none of them lost.
BatchesFitPool ==
    \A m \in Machines : pc[m] = "dispatch" =>
        /\ IsInjective(parallel_batch[m]) /\ IsInjective(serial_batch[m])
        /\ ToSet(parallel_batch[m]) \cap ToSet(serial_batch[m]) = {}
        /\ ToSet(parallel_batch[m]) \cup ToSet(serial_batch[m]) = ToSet(units[m])

\* Without sharding, the order by duration lasts to the dispatch.
LongestFirst(us, d) == \A i, j \in DOMAIN us : i < j => d[us[i]] >= d[us[j]]
OrderInv ==
    \A m \in Machines : balance[m] = "lpt" =>
        /\ pc[m] = "shard" \/ (pc[m] = "split" /\ ~sharding) => LongestFirst(units[m], history[m])
        /\ pc[m] = "dispatch" /\ ~sharding => LongestFirst(parallel_batch[m], history[m])

PlanInv == ShareInv /\ BatchesFitPool /\ OrderInv

-----------------------------------------------------------------------------
(* How long n workers take for a batch, if its units take the times d.      *)

\* Who runs each unit of the batch.
Schedules(batch, n) == [DOMAIN batch -> 1..n]

\* For each i: how long each worker is busy with its part of the first i units.
BusyUpTo(batch, who, n, d) ==
    LET busy[i \in 0..Len(batch)] ==
            IF i = 0 THEN [w \in 1..n |-> 0]
            ELSE [busy[i - 1] EXCEPT ![who[i]] = @ + d[batch[i]]]
    IN  busy

\* Mutant: who runs a unit does not depend on who is free.
TakesAny(batch, who, n, d) == who \in Schedules(batch, n)

\* The queue: the next unit goes to a worker that is done with its last one
\* before, or when, any other is.
TakesWhenFree(batch, who, n, d) ==
    \A i \in DOMAIN batch, w \in 1..n :
        BusyUpTo(batch, who, n, d)[i - 1][who[i]] <= BusyUpTo(batch, who, n, d)[i - 1][w]

Makespan(batch, who, n, d) ==
    LET busy == BusyUpTo(batch, who, n, d)[Len(batch)]
    IN  CHOOSE t \in ToSet(busy) : \A w \in 1..n : busy[w] <= t

\* Longest first is at most 4/3 - 1/(3n) times as long as the best schedule,
\* if each unit takes the time its last run took, whoever wins a race for a
\* unit (docs/lpt-balancing.md).  Without sharding: _apply_shard sorts by id
\* what was sorted by duration.
LptBound ==
    \A m \in Machines : pc[m] = "dispatch" /\ balance[m] = "lpt" /\ ~sharding =>
        LET n == jobs[m]
            batch == parallel_batch[m]
            d == history[m]
        IN \A who, best \in Schedules(batch, n) : TakesWhenFree(batch, who, n, d) =>
              3 * n * Makespan(batch, who, n, d) <= (4 * n - 1) * Makespan(batch, best, n, d)

\* In any order, and whatever time the units take, one queue for all workers is
\* at most 2 - 1/n times as long as the best schedule: fifo, the order of ids
\* that sharding leaves, or a timing file that is out of date.
QueueBound ==
    \A m \in Machines : pc[m] = "dispatch" =>
        LET n == jobs[m]
            batch == parallel_batch[m]
        IN \A d \in Histories : \A who, best \in Schedules(batch, n) :
              TakesWhenFree(batch, who, n, d) =>
                  n * Makespan(batch, who, n, d) <= (2 * n - 1) * Makespan(batch, best, n, d)
=============================================================================
