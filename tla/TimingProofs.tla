----------------------------- MODULE TimingProofs -----------------------------
(***************************************************************************)
(* Proofs about TimingStore, for any number of runs that share the file.     *)
(***************************************************************************)
EXTENDS TimingStore, TLAPS

\* Tables are tables of more values as well.
LEMMA TableSubset ==
    ASSUME NEW d \in Tables(Durations)
    PROVE  d \in Tables(Durations \cup {Bad}) /\ d \notin {Missing, Garbage}
  <1>1. PICK ids \in SUBSET Ids : d \in [ids -> Durations]
    BY DEF Tables
  <1>2. d \in [ids -> Durations \cup {Bad}]
    BY <1>1
  <1>3. d \in Tables(Durations \cup {Bad})
    BY <1>2 DEF Tables
  <1> QED
    BY <1>3, TimingAssumption

\* A table of durations reads back as it is.
LEMMA EntriesOfTable ==
    ASSUME NEW d \in Tables(Durations)
    PROVE  Entries(d) = d
  <1>1. PICK ids \in SUBSET Ids : d \in [ids -> Durations]
    BY DEF Tables
  <1>2. \A i \in DOMAIN d : d[i] # Bad
    BY <1>1, TimingAssumption
  <1>3. {i \in DOMAIN d : d[i] # Bad} = DOMAIN d
    BY <1>2
  <1>4. d = [id \in DOMAIN d |-> d[id]]
    BY <1>1
  <1> QED
    BY <1>3, <1>4, TableSubset DEF Entries

\* Whatever the file holds, its valid entries are a table.
LEMMA EntriesType ==
    ASSUME NEW c \in {Missing, Garbage} \cup Tables(Durations \cup {Bad})
    PROVE  Entries(c) \in Tables(Durations)
  <1>1. CASE c \in {Missing, Garbage}
    <2>1. <<>> \in [{} -> Durations]
      OBVIOUS
    <2> QED
      BY <1>1, <2>1 DEF Entries, Tables
  <1>2. CASE c \notin {Missing, Garbage}
    <2>1. PICK ids \in SUBSET Ids : c \in [ids -> Durations \cup {Bad}]
      BY <1>2 DEF Tables
    <2> DEFINE valid == {i \in DOMAIN c : c[i] # Bad}
    <2>2. valid \in SUBSET Ids /\ \A i \in valid : c[i] \in Durations
      BY <2>1
    <2>3. Entries(c) = [id \in valid |-> c[id]]
      BY <1>2 DEF Entries
    <2> HIDE DEF valid
    <2>4. Entries(c) \in [valid -> Durations]
      BY <2>2, <2>3
    <2> QED
      BY <2>2, <2>4 DEF Tables
  <1> QED
    BY <1>1, <1>2

\* Merging two tables gives a table with all entries of the first.
LEMMA MergeTables ==
    ASSUME NEW new \in Tables(Durations), NEW old \in Tables(Durations)
    PROVE  /\ Merge(new, old) \in Tables(Durations)
           /\ \A id \in DOMAIN new :
                 id \in DOMAIN Merge(new, old) /\ Merge(new, old)[id] = new[id]
  <1>1. PICK a \in SUBSET Ids : new \in [a -> Durations]
    BY DEF Tables
  <1>2. PICK b \in SUBSET Ids : old \in [b -> Durations]
    BY DEF Tables
  <1>3. Merge(new, old) \in [a \cup b -> Durations]
    BY <1>1, <1>2 DEF Merge
  <1>4. a \cup b \in SUBSET Ids
    OBVIOUS
  <1>5. Merge(new, old) \in Tables(Durations)
    BY <1>3, <1>4 DEF Tables
  <1> QED
    BY <1>1, <1>2, <1>5 DEF Merge

\* The invariant holds before any run has loaded the file.
LEMMA InitStore == Init => StoreInv
  <1> SUFFICES ASSUME Init PROVE StoreInv
    OBVIOUS
  <1>1. <<>> \in Tables(Durations)
    BY EntriesType DEF Entries
  <1>2. TypeOK
    BY <1>1 DEF Init, TypeOK
  <1> QED
    BY <1>2 DEF Init, StoreInv, Merging

\* Every step of a run keeps the invariant, its own part and that of every other run.
LEMMA NextStore == StoreInv /\ [Next]_vars => StoreInv'
  <1> SUFFICES ASSUME StoreInv, [Next]_vars PROVE StoreInv'
    OBVIOUS
  <1> USE DEF StoreInv, TypeOK, Merging
  <1>1. CASE UNCHANGED vars
    BY <1>1 DEF vars
  <1>2. ASSUME NEW r \in Runs, Step(r) PROVE StoreInv'
    <2>1. CASE Load(r)
      <3>1. Entries(file) \in Tables(Durations)
        BY EntriesType
      <3> QED
        BY <2>1, <3>1 DEF Load, Goto
    <2>2. CASE Update(r)
      <3> DEFINE merged == Merge(measured[r], data[r])
      <3>1. /\ merged \in Tables(Durations)
            /\ \A id \in DOMAIN measured[r] :
                  id \in DOMAIN merged /\ merged[id] = measured[r][id]
        BY MergeTables
      <3>2. ~raced[r] => merged = Merge(measured[r], Entries(file))
        BY <2>2 DEF Update
      <3>3. /\ data' = [data EXCEPT ![r] = merged]
            /\ pc' = [pc EXCEPT ![r] = "compare"]
            /\ pc[r] = "update"
            /\ UNCHANGED <<file, temp, measured, raced>>
        BY <2>2 DEF Update, Goto
      <3> HIDE DEF merged
      <3> QED
        BY <3>1, <3>2, <3>3
    <2>3. CASE Compare(r)
      BY <2>3 DEF Compare, Goto
    <2>4. CASE MakeTemp(r)
      BY <2>4 DEF MakeTemp, Goto
    <2>5. CASE MakeTempFails(r)
      BY <2>5 DEF MakeTempFails, Goto
    <2>6. CASE WriteTemp(r)
      BY <2>6 DEF WriteTemp, Goto
    <2>7. CASE Replace(r)
      <3>1. file' \in Tables(Durations \cup {Bad})
        BY <2>7, TableSubset DEF Replace
      <3> QED
        BY <2>7, <3>1 DEF Replace, Goto
    <2>8. CASE SaveFails(r)
      BY <2>8 DEF SaveFails, Goto
    <2>9. CASE Unlink(r)
      BY <2>9 DEF Unlink, Goto
    <2>10. CASE UnlinkFails(r)
      BY <2>10 DEF UnlinkFails, Goto
    <2>11. CASE Crash(r)
      BY <2>11 DEF Crash, Goto
    <2> QED
      BY <1>2, <2>1, <2>2, <2>3, <2>4, <2>5, <2>6, <2>7, <2>8, <2>9, <2>10, <2>11 DEF Step
  <1> QED
    BY <1>1, <1>2 DEF Next

\* What a run holds between the steps of its update, with any number of other
\* runs in between.
THEOREM StoreInvariance == Spec => []StoreInv
  <1>1. Init => StoreInv
    BY InitStore
  <1>2. StoreInv /\ [Next]_vars => StoreInv'
    BY NextStore
  <1> QED
    BY <1>1, <1>2, PTL DEF Spec

\* The timing file is never torn.
THEOREM FileStaysWhole == Spec => NeverTorn
  <1>1. StoreInv /\ [Next]_vars => [file' # file => file' \in Tables(Durations)]_vars
    BY DEF StoreInv, TypeOK, Next, Step, Load, Update, Compare, MakeTemp, MakeTempFails,
           WriteTemp, Replace, SaveFails, Unlink, UnlinkFails, Crash, vars
  <1> QED
    BY <1>1, StoreInvariance, PTL DEF Spec, NeverTorn

\* A run that ends has removed its temporary file, unless that failed as well.
THEOREM NoLitterIsLeft == Spec => []NoLitter
  <1>1. StoreInv => NoLitter
    BY DEF StoreInv, NoLitter
  <1> QED
    BY <1>1, StoreInvariance, PTL

\* What ends a run well: an equal file, or a replacement by what it holds.
LEMMA Endings ==
    ASSUME StoreInv, Next, NEW r \in Runs, EndsWell(r)
    PROVE  pc[r] \in Merging /\ Entries(file') = data[r] /\ measured' = measured
  <1>1. PICK o \in Runs : Step(o)
    BY DEF Next
  <1>2. pc' = [pc EXCEPT ![o] = pc'[o]] /\ pc'[r] = "done" /\ pc[r] # "done"
    BY <1>1 DEF EndsWell, StoreInv, TypeOK, Step, Load, Update, Compare, MakeTemp, MakeTempFails,
           WriteTemp, Replace, SaveFails, Unlink, UnlinkFails, Crash, Goto
  <1>3. o = r
    BY <1>2 DEF StoreInv, TypeOK
  <1>4. CASE Compare(r)
    BY <1>2, <1>4 DEF Compare, Goto, Merging, StoreInv, TypeOK
  <1>5. CASE Replace(r)
    BY <1>2, <1>5, EntriesOfTable DEF Replace, Goto, Merging, StoreInv, TypeOK
  <1> QED
    BY <1>1, <1>2, <1>3, <1>4, <1>5 DEF StoreInv, TypeOK, Step, Load, Update, MakeTemp,
       MakeTempFails, WriteTemp, SaveFails, Unlink, UnlinkFails, Crash, Goto

\* A run that ends well has its own durations in the file.
THEOREM OwnDurationsAreSaved == Spec => OwnEntriesSaved
  <1>1. StoreInv /\ [Next]_vars =>
          [\A r \in Runs : EndsWell(r) =>
             \A id \in DOMAIN measured[r] :
               id \in DOMAIN Entries(file') /\ Entries(file')[id] = measured[r][id]]_vars
    BY Endings DEF StoreInv
  <1> QED
    BY <1>1, StoreInvariance, PTL DEF Spec, OwnEntriesSaved

\* A run that was not in a race kept everything else that was in it.
THEOREM OtherDurationsAreKept == Spec => OthersKept
  <1>1. StoreInv /\ [Next]_vars =>
          [\A r \in Runs : EndsWell(r) /\ ~raced[r] =>
             Entries(file') = Merge(measured[r], Entries(file))]_vars
    BY Endings DEF StoreInv
  <1> QED
    BY <1>1, StoreInvariance, PTL DEF Spec, OthersKept
=============================================================================
