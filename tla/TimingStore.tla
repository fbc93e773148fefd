------------------------------ MODULE TimingStore ------------------------------
(***************************************************************************)
(* The timing file (timing.py) and the runs that update it at their end      *)
(* (runner.py, _update_timings): each loads it, merges the durations it      *)
(* measured, and replaces it by way of a temporary file.  Runs that share a  *)
(* directory, such as the shards of a pipeline on one machine, do so at the  *)
(* same time; a run may crash and the disk may be full.                     *)
(***************************************************************************)
EXTENDS Naturals, FiniteSets

CONSTANTS
    Runs,       \* the runs that share the file
    Ids,        \* work unit ids
    Durations,  \* finite durations
    Bad,        \* an entry that is no finite number
    Missing,    \* the file does not exist
    Garbage     \* the file is not a JSON object: empty, cut short, corrupt

Tables(values) == UNION {[ids -> values] : ids \in SUBSET Ids}

ASSUME TimingAssumption ==
    /\ Bad \notin Durations
    /\ Missing # Garbage
    /\ {Missing, Garbage} \cap Tables(Durations \cup {Bad}) = {}

VARIABLES
    file,      \* what is at store.path
    temp,      \* the temporary file of each run
    pc,        \* where each run is
    measured,  \* the durations of its results
    data,      \* its store._data
    raced      \* history: another run replaced the file since this one loaded it

vars == <<file, temp, pc, measured, data, raced>>

Init ==
    /\ file \in {Missing, Garbage} \cup Tables(Durations \cup {Bad})
    /\ temp = [r \in Runs |-> Missing]
    /\ pc = [r \in Runs |-> "load"]
    /\ measured \in [Runs -> Tables(Durations)]
    /\ data = [r \in Runs |-> <<>>]
    /\ raced = [r \in Runs |-> FALSE]

TypeOK ==
    /\ file \in {Missing, Garbage} \cup Tables(Durations \cup {Bad})
    /\ temp \in [Runs -> {Missing, Garbage} \cup Tables(Durations)]
    /\ pc \in [Runs -> {"load", "update", "compare", "mkstemp", "write", "replace",
                        "unlink", "done", "failed", "littered", "crashed"}]
    /\ measured \in [Runs -> Tables(Durations)]
    /\ data \in [Runs -> Tables(Durations)]
    /\ raced \in [Runs -> BOOLEAN]

-----------------------------------------------------------------------------
\* What a reader makes of the file: nothing if it is missing or corrupt, and
\* otherwise its valid entries.
Entries(content) ==
    IF content \in {Missing, Garbage} THEN <<>>
    ELSE [id \in {i \in DOMAIN content : content[i] # Bad} |-> content[id]]

\* dict.update().
Merge(new, old) ==
    [id \in DOMAIN new \cup DOMAIN old |-> IF id \in DOMAIN new THEN new[id] ELSE old[id]]

Goto(r, label) == pc' = [pc EXCEPT ![r] = label]

Load(r) ==
    /\ pc[r] = "load"
    /\ data' = [data EXCEPT ![r] = Entries(file)]
    /\ Goto(r, "update")
    /\ UNCHANGED <<file, temp, measured, raced>>

\* Mutant: the store starts from what this run measured.
UpdateOnly(r) ==
    /\ pc[r] = "update"
    /\ data' = [data EXCEPT ![r] = measured[r]]
    /\ Goto(r, "compare")
    /\ UNCHANGED <<file, temp, measured, raced>>

Update(r) ==
    /\ pc[r] = "update"
    /\ data' = [data EXCEPT ![r] = Merge(measured[r], @)]
    /\ Goto(r, "compare")
    /\ UNCHANGED <<file, temp, measured, raced>>

\* Mutant: only new ids count as a change.
CompareIds(r) ==
    /\ pc[r] = "compare"
    /\ Goto(r, IF DOMAIN data[r] = DOMAIN Entries(file) THEN "done" ELSE "mkstemp")
    /\ UNCHANGED <<file, temp, measured, data, raced>>

\* save_if_changed() reads the file again.
Compare(r) ==
    /\ pc[r] = "compare"
    /\ Goto(r, IF data[r] = Entries(file) THEN "done" ELSE "mkstemp")
    /\ UNCHANGED <<file, temp, measured, data, raced>>

\* Mutant: the file is opened for writing where it is.
MakeTempInPlace(r) ==
    /\ pc[r] = "mkstemp"
    /\ file' = Garbage
    /\ temp' = [temp EXCEPT ![r] = Garbage]
    /\ Goto(r, "write")
    /\ UNCHANGED <<measured, data, raced>>

\* save(): an empty temporary file next to the target ...
MakeTemp(r) ==
    /\ pc[r] = "mkstemp"
    /\ temp' = [temp EXCEPT ![r] = Garbage]
    /\ Goto(r, "write")
    /\ UNCHANGED <<file, measured, data, raced>>

MakeTempFails(r) ==
    /\ pc[r] = "mkstemp"
    /\ Goto(r, "failed")
    /\ UNCHANGED <<file, temp, measured, data, raced>>

\* ... the text in it ...
WriteTemp(r) ==
    /\ pc[r] = "write"
    /\ temp' = [temp EXCEPT ![r] = data[r]]
    /\ Goto(r, "replace")
    /\ UNCHANGED <<file, measured, data, raced>>

\* ... and os.replace().
Replace(r) ==
    /\ pc[r] = "replace"
    /\ file' = temp[r]
    /\ temp' = [temp EXCEPT ![r] = Missing]
    /\ raced' = [o \in Runs |-> raced[o] \/ (o # r /\ pc[o] # "load")]
    /\ Goto(r, "done")
    /\ UNCHANGED <<measured, data>>

\* Mutant: the except branch re-raises at once.
SaveFailsAtOnce(r) ==
    /\ pc[r] \in {"write", "replace"}
    /\ Goto(r, "failed")
    /\ UNCHANGED <<file, temp, measured, data, raced>>

\* An OSError while writing or replacing.
SaveFails(r) ==
    /\ pc[r] \in {"write", "replace"}
    /\ Goto(r, "unlink")
    /\ UNCHANGED <<file, temp, measured, data, raced>>

\* The temporary file is removed; _update_timings logs the error and goes on.
Unlink(r) ==
    /\ pc[r] = "unlink"
    /\ temp' = [temp EXCEPT ![r] = Missing]
    /\ Goto(r, "failed")
    /\ UNCHANGED <<file, measured, data, raced>>

\* Or it cannot be removed either, and stays.
UnlinkFails(r) ==
    /\ pc[r] = "unlink"
    /\ Goto(r, "littered")
    /\ UNCHANGED <<file, temp, measured, data, raced>>

Crash(r) ==
    /\ pc[r] \notin {"done", "failed", "littered", "crashed"}
    /\ Goto(r, "crashed")
    /\ UNCHANGED <<file, temp, measured, data, raced>>

Step(r) ==
    \/ Load(r) \/ Update(r) \/ Compare(r)
    \/ MakeTemp(r) \/ MakeTempFails(r) \/ WriteTemp(r) \/ Replace(r)
    \/ SaveFails(r) \/ Unlink(r) \/ UnlinkFails(r) \/ Crash(r)

Next == \E r \in Runs : Step(r)

Spec == Init /\ [][Next]_vars

-----------------------------------------------------------------------------
\* Whenever the file changes, it changes into a whole table without invalid
\* entries: no crash, full disk or concurrent run leaves half of one.
NeverTorn == [][file' # file => file' \in Tables(Durations)]_vars

\* Only a run that crashed leaves its temporary file behind, or one that could
\* neither save nor remove it.
NoLitter ==
    \A r \in Runs : pc[r] \in {"done", "failed"} => temp[r] = Missing

EndsWell(r) == pc[r] # "done" /\ pc'[r] = "done"

\* Between its steps a run holds what it will write: what it measured, over
\* what is in the file if it is not in a race.
Merging == {"compare", "mkstemp", "write", "replace"}
StoreInv ==
    /\ TypeOK
    /\ \A r \in Runs :
        /\ pc[r] \notin {"write", "replace", "unlink", "littered", "crashed"} => temp[r] = Missing
        /\ pc[r] = "replace" => temp[r] = data[r]
        /\ pc[r] = "load" => ~raced[r]
        /\ pc[r] = "update" /\ ~raced[r] => data[r] = Entries(file)
        /\ pc[r] \in Merging =>
              \A id \in DOMAIN measured[r] : id \in DOMAIN data[r] /\ data[r][id] = measured[r][id]
        /\ pc[r] \in Merging /\ ~raced[r] => data[r] = Merge(measured[r], Entries(file))

\* A run that ends without an error has each duration it measured in the file,
\* whatever other runs did to the file since it was loaded.
OwnEntriesSaved ==
    [][\A r \in Runs : EndsWell(r) =>
        \A id \in DOMAIN measured[r] :
            id \in DOMAIN Entries(file') /\ Entries(file')[id] = measured[r][id]]_vars

\* And if none replaced it meanwhile, every other valid entry is still there:
\* the durations are merged into the file (docs/lpt-balancing.md).  A run that
\* did lose the race undoes what the other one saved.
OthersKept ==
    [][\A r \in Runs : EndsWell(r) /\ ~raced[r] =>
        Entries(file') = Merge(measured[r], Entries(file))]_vars
=============================================================================
