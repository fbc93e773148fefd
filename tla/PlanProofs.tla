------------------------------ MODULE PlanProofs ------------------------------
(***************************************************************************)
(* Proofs about Plan: the shards of any list into any number of shards are   *)
(* a partition into nearly equal parts, and so are the shares that the       *)
(* machines of a pipeline compute on their own; and the workers of a machine *)
(* take at most 4/3, or 2, times as long for its batch as they could.        *)
(***************************************************************************)
EXTENDS Plan, ListProofs, FiniteSetTheorems, TLAPS

-----------------------------------------------------------------------------
(* The arithmetic of split_shards.                                          *)

\* The quotient and the remainder of split_shards.
LEMMA Division ==
    ASSUME NEW n \in Nat, NEW t \in Nat \ {0}
    PROVE  /\ n \div t \in Nat
           /\ n % t \in 0..(t - 1)
           /\ n = t * (n \div t) + (n % t)
  OBVIOUS

\* A larger factor gives a larger product.
LEMMA Monotone ==
    ASSUME NEW a \in Nat, NEW b \in Nat, NEW c \in Nat, a <= b
    PROVE  a * c <= b * c
  OBVIOUS

\* Where a shard starts and how long it is, with the quotient and remainder
\* named.
LEMMA Extent ==
    ASSUME NEW n \in Nat, NEW t \in Nat \ {0}, NEW i \in 1..t
    PROVE  \E q \in Nat, r \in 0..(t - 1) :
              /\ n = t * q + r
              /\ q = n \div t /\ r = n % t
              /\ Offset(n, i, t) = (i - 1) * q + Smaller(i - 1, r)
              /\ Count(n, i, t) = q + (IF i <= r THEN 1 ELSE 0)
              /\ Offset(n, i, t) \in Nat /\ Count(n, i, t) \in Nat
  <1> DEFINE q == n \div t
             r == n % t
  <1>1. q \in Nat /\ r \in 0..(t - 1) /\ n = t * q + r
    BY Division
  <1>2. (i - 1) * q \in Nat
    BY <1>1
  <1>3. /\ Offset(n, i, t) = (i - 1) * q + Smaller(i - 1, r)
        /\ Count(n, i, t) = q + (IF i <= r THEN 1 ELSE 0)
    BY DEF Offset, Count
  <1>4. Offset(n, i, t) \in Nat /\ Count(n, i, t) \in Nat
    BY <1>1, <1>2, <1>3 DEF Smaller
  <1> QED
    BY <1>1, <1>3, <1>4

\* Where a shard starts and how long it is are natural numbers.
LEMMA ExtentType ==
    ASSUME NEW n \in Nat, NEW t \in Nat \ {0}, NEW i \in 1..t
    PROVE  Offset(n, i, t) \in Nat /\ Count(n, i, t) \in Nat
  BY Extent

\* A shard ends where the quotient and the remainder say: where the next begins.
LEMMA EndOf ==
    ASSUME NEW n \in Nat, NEW t \in Nat \ {0}, NEW i \in 1..t, NEW q \in Nat,
           NEW r \in 0..(t - 1), q = n \div t, r = n % t
    PROVE  Offset(n, i, t) + Count(n, i, t) = i * q + Smaller(i, r)
  <1>1. (i - 1) * q \in Nat /\ (i - 1) * q + q = i * q
    OBVIOUS
  <1>2. Smaller(i - 1, r) + (IF i <= r THEN 1 ELSE 0) = Smaller(i, r)
    BY DEF Smaller
  <1>3. Smaller(i - 1, r) \in Nat
    BY DEF Smaller
  <1> QED
    BY <1>1, <1>2, <1>3 DEF Offset, Count

\* A shard ends before any later one starts ...
LEMMA ShardsApart ==
    ASSUME NEW n \in Nat, NEW t \in Nat \ {0}, NEW i \in 1..t, NEW j \in 1..t, i < j
    PROVE  Offset(n, i, t) + Count(n, i, t) <= Offset(n, j, t)
  <1> DEFINE q == n \div t
             r == n % t
  <1>1. q \in Nat /\ r \in 0..(t - 1)
    BY Division
  <1> HIDE DEF q, r
  <1>2. Offset(n, i, t) + Count(n, i, t) = i * q + Smaller(i, r)
    BY <1>1, EndOf DEF q, r
  <1>3. Offset(n, j, t) = (j - 1) * q + Smaller(j - 1, r)
    BY DEF Offset, q, r
  <1>4. i * q <= (j - 1) * q
    BY <1>1, Monotone
  <1>5. Smaller(i, r) <= Smaller(j - 1, r) /\ Smaller(i, r) \in Nat /\ Smaller(j - 1, r) \in Nat
    BY <1>1 DEF Smaller
  <1>6. i * q \in Nat /\ (j - 1) * q \in Nat
    BY <1>1
  <1> QED
    BY <1>2, <1>3, <1>4, <1>5, <1>6

\* ... and the last one ends with the list.
LEMMA ShardInside ==
    ASSUME NEW n \in Nat, NEW t \in Nat \ {0}, NEW i \in 1..t
    PROVE  Offset(n, i, t) + Count(n, i, t) <= n
  <1> DEFINE q == n \div t
             r == n % t
  <1>1. q \in Nat /\ r \in 0..(t - 1) /\ n = t * q + r
    BY Division
  <1> HIDE DEF q, r
  <1>2. Offset(n, i, t) + Count(n, i, t) = i * q + Smaller(i, r)
    BY <1>1, EndOf DEF q, r
  <1>3. i * q <= t * q /\ i * q \in Nat /\ t * q \in Nat
    BY <1>1, Monotone
  <1>4. Smaller(i, r) <= r /\ Smaller(i, r) \in Nat
    BY <1>1 DEF Smaller
  <1> QED
    BY <1>1, <1>2, <1>3, <1>4

\* Every position is in a shard: in one of the longer ones at the front, or in
\* one of the others.
LEMMA ShardOfPosition ==
    ASSUME NEW n \in Nat, NEW t \in Nat \ {0}, NEW pos \in 1..n
    PROVE  \E i \in 1..t :
              Offset(n, i, t) < pos /\ pos <= Offset(n, i, t) + Count(n, i, t)
  <1> DEFINE q == n \div t
             r == n % t
  <1>1. q \in Nat /\ r \in 0..(t - 1) /\ n = t * q + r
    BY Division
  <1>2. \A i \in 1..t : /\ Offset(n, i, t) = (i - 1) * q + Smaller(i - 1, r)
                        /\ Offset(n, i, t) + Count(n, i, t) = i * q + Smaller(i, r)
    BY <1>1, EndOf DEF Offset
  <1> HIDE DEF q, r
  <1>3. CASE pos <= r * (q + 1)
    <2> DEFINE d == (pos - 1) \div (q + 1)
               e == (pos - 1) % (q + 1)
    <2>1. d \in Nat /\ e \in 0..q /\ pos - 1 = (q + 1) * d + e
      <3>1. q + 1 \in Nat \ {0} /\ pos - 1 \in Nat /\ (q + 1) - 1 = q
        BY <1>1
      <3> QED
        BY <3>1, Division
    <2> HIDE DEF d, e
    <2>2. d < r
      <3>1. (q + 1) * d < r * (q + 1)
        BY <1>1, <1>3, <2>1
      <3>2. CASE r <= d
        BY <1>1, <2>1, <3>1, <3>2, Monotone
      <3> QED
        BY <1>1, <2>1, <3>2
    <2>3. d + 1 \in 1..t /\ Smaller(d, r) = d /\ Smaller(d + 1, r) = d + 1
      BY <1>1, <2>1, <2>2 DEF Smaller
    <2>4. d * q + d = (q + 1) * d /\ (d + 1) * q + (d + 1) = (q + 1) * d + q + 1
      BY <1>1, <2>1
    <2>5. /\ Offset(n, d + 1, t) = d * q + d
          /\ Offset(n, d + 1, t) + Count(n, d + 1, t) = (d + 1) * q + (d + 1)
      BY <1>2, <2>1, <2>3
    <2>6. (q + 1) * d \in Nat
      BY <1>1, <2>1
    <2>7. Offset(n, d + 1, t) < pos /\ pos <= Offset(n, d + 1, t) + Count(n, d + 1, t)
      BY <1>1, <2>1, <2>4, <2>5, <2>6
    <2> QED
      BY <2>3, <2>7
  <1>4. CASE pos > r * (q + 1)
    <2>1. q # 0 /\ pos - 1 - r \in Nat /\ r * q \in Nat /\ r * q <= pos - 1 - r
      <3>1. r * (q + 1) = r * q + r /\ r * q \in Nat /\ t * 0 = 0
        BY <1>1
      <3>2. q # 0
        BY <1>1, <1>4, <3>1
      <3> QED
        BY <1>1, <1>4, <3>1, <3>2
    <2> DEFINE d == (pos - 1 - r) \div q
               e == (pos - 1 - r) % q
    <2>2. d \in Nat /\ e \in 0..(q - 1) /\ pos - 1 - r = q * d + e
      BY <1>1, <2>1, Division
    <2> HIDE DEF d, e
    <2>3. r <= d
      <3>1. CASE d + 1 <= r
        <4>1. (d + 1) * q <= r * q /\ (d + 1) * q = q * d + q /\ q * d \in Nat
          BY <1>1, <2>2, <3>1, Monotone
        <4> QED
          BY <1>1, <2>1, <2>2, <4>1
      <3> QED
        BY <1>1, <2>2, <3>1
    <2>4. d < t
      <3>1. CASE t <= d
        <4>1. t * q <= d * q /\ d * q = q * d /\ t * q \in Nat
          BY <1>1, <2>2, <3>1, Monotone
        <4> QED
          BY <1>1, <2>1, <2>2, <4>1
      <3> QED
        BY <2>2, <3>1
    <2>5. d + 1 \in 1..t /\ Smaller(d, r) = r /\ Smaller(d + 1, r) = r
      BY <1>1, <2>2, <2>3, <2>4 DEF Smaller
    <2>6. /\ Offset(n, d + 1, t) = d * q + r
          /\ Offset(n, d + 1, t) + Count(n, d + 1, t) = (d + 1) * q + r
      BY <1>2, <2>2, <2>5
    <2>7. d * q = q * d /\ (d + 1) * q = q * d + q /\ q * d \in Nat
      BY <1>1, <2>2
    <2>8. Offset(n, d + 1, t) < pos /\ pos <= Offset(n, d + 1, t) + Count(n, d + 1, t)
      BY <1>1, <2>1, <2>2, <2>6, <2>7
    <2> QED
      BY <2>5, <2>8
  <1> QED
    <2>1. r * (q + 1) \in Nat
      BY <1>1
    <2> QED
      BY <1>3, <1>4, <2>1

-----------------------------------------------------------------------------
(* split_shards on a list of any elements.                                  *)

\* The items of a shard are those at its positions.
LEMMA ShardElements ==
    ASSUME NEW S, NEW items \in Seq(S), NEW t \in Nat \ {0}, NEW i \in 1..t
    PROVE  LET n == Len(items)
               shard == split_shards(items, i, t)
           IN  /\ shard \in Seq(S)
               /\ Len(shard) = Count(n, i, t)
               /\ \A k \in 1..Len(shard) : shard[k] = items[Offset(n, i, t) + k]
  <1> DEFINE n == Len(items)
             a == Offset(n, i, t)
             c == Count(n, i, t)
  <1>1. a \in Nat /\ c \in Nat /\ a + c <= n /\ n \in Nat
    <2>1. n \in Nat
      OBVIOUS
    <2> QED
      BY <2>1, ExtentType, ShardInside
  <1>2. split_shards(items, i, t) = SubSeq(items, a + 1, a + c)
    BY DEF split_shards
  <1> HIDE DEF a, c
  <1>3. Len(SubSeq(items, a + 1, a + c)) = c
    BY <1>1
  <1>4. \A k \in 1..c : SubSeq(items, a + 1, a + c)[k] = items[a + k]
    BY <1>1
  <1>5. SubSeq(items, a + 1, a + c) \in Seq(S)
    BY <1>1
  <1> QED
    BY <1>2, <1>3, <1>4, <1>5 DEF a, c

\* Shards of one list into t parts: every element is in a shard ...
LEMMA ShardsCover ==
    ASSUME NEW S, NEW items \in Seq(S), NEW t \in Nat \ {0}, NEW x \in ToSet(items)
    PROVE  \E i \in 1..t : x \in ToSet(split_shards(items, i, t))
  <1>1. PICK pos \in 1..Len(items) : items[pos] = x
    BY DEF ToSet
  <1>2. PICK i \in 1..t : /\ Offset(Len(items), i, t) < pos
                          /\ pos <= Offset(Len(items), i, t) + Count(Len(items), i, t)
    <2>1. Len(items) \in Nat
      OBVIOUS
    <2> QED
      BY <2>1, ShardOfPosition
  <1> DEFINE k == pos - Offset(Len(items), i, t)
             shard == split_shards(items, i, t)
  <1>3. Offset(Len(items), i, t) \in Nat /\ Count(Len(items), i, t) \in Nat
    <2>1. Len(items) \in Nat
      OBVIOUS
    <2> QED
      BY <2>1, ExtentType
  <1>4. k \in 1..Count(Len(items), i, t) /\ Offset(Len(items), i, t) + k = pos
    BY <1>2, <1>3
  <1>5. k \in 1..Len(shard) /\ shard[k] = x /\ shard \in Seq(S)
    BY <1>1, <1>4, ShardElements
  <1> QED
    BY <1>5 DEF ToSet

\* ... and, when the elements are distinct, in no second one.
LEMMA ShardsDisjoint ==
    ASSUME NEW S, NEW items \in Seq(S), NEW t \in Nat \ {0},
           NEW i \in 1..t, NEW j \in 1..t, i < j,
           \A a, b \in 1..Len(items) : items[a] = items[b] => a = b
    PROVE  ToSet(split_shards(items, i, t)) \cap ToSet(split_shards(items, j, t)) = {}
  <1> DEFINE n == Len(items)
             si == split_shards(items, i, t)
             sj == split_shards(items, j, t)
  <1>1. SUFFICES ASSUME NEW x \in ToSet(si), x \in ToSet(sj)
                 PROVE  FALSE
    OBVIOUS
  <1>2. /\ si \in Seq(S) /\ Len(si) = Count(n, i, t)
        /\ \A k \in 1..Len(si) : si[k] = items[Offset(n, i, t) + k]
    BY ShardElements
  <1>3. /\ sj \in Seq(S) /\ Len(sj) = Count(n, j, t)
        /\ \A k \in 1..Len(sj) : sj[k] = items[Offset(n, j, t) + k]
    BY ShardElements
  <1> HIDE DEF si, sj
  <1>4. PICK a \in 1..Len(si) : si[a] = x
    BY <1>1, <1>2 DEF ToSet
  <1>5. PICK b \in 1..Len(sj) : sj[b] = x
    BY <1>1, <1>3 DEF ToSet
  <1>6. /\ Offset(n, i, t) \in Nat /\ Count(n, i, t) \in Nat
        /\ Offset(n, j, t) \in Nat /\ Count(n, j, t) \in Nat /\ n \in Nat
    <2>1. n \in Nat
      OBVIOUS
    <2> HIDE DEF n
    <2> QED
      BY <2>1, ExtentType
  <1>7. /\ Offset(n, i, t) + Count(n, i, t) <= Offset(n, j, t)
        /\ Offset(n, j, t) + Count(n, j, t) <= n
    BY ShardsApart, ShardInside
  <1> HIDE DEF n
  <1>8. Offset(n, i, t) + a \in 1..n /\ Offset(n, j, t) + b \in 1..n
    BY <1>2, <1>3, <1>6, <1>7
  <1>9. items[Offset(n, i, t) + a] = items[Offset(n, j, t) + b]
    BY <1>2, <1>3, <1>4, <1>5
  <1>10. Offset(n, i, t) + a = Offset(n, j, t) + b
    BY <1>8, <1>9 DEF n
  <1> QED
    BY <1>2, <1>3, <1>6, <1>7, <1>10

-----------------------------------------------------------------------------
(* The order the machines agree on.                                         *)

\* Sorting any rearrangement of the features gives the same list.
LEMMA SortingForgets ==
    ASSUME NEW us \in Rearrangements
    PROVE  us \in Seq(Features) /\ SortById(us) = ById
  <1> DEFINE id == [f \in Features |-> f]
  <1>1. NumFeatures \in Nat
    BY PlanAssumption
  <1>2. us \in [Features -> Features] /\ \A f \in Features : \E g \in Features : us[g] = f
    BY DEF Rearrangements, ToSet
  <1>3. DOMAIN us = DOMAIN id
    BY <1>2
  <1>4. ToSet(us) = Features /\ ToSet(id) = Features
    BY <1>2 DEF ToSet
  <1>5. us \in Seq(Features)
    BY <1>1, <1>2 DEF Features
  <1> HIDE DEF id
  <1>6. SortById(us) = SortById(id)
    BY <1>3, <1>4 DEF SortById
  <1> QED
    BY <1>5, <1>6 DEF ById, id

\* It holds every feature once.
LEMMA SortedFeatures ==
    /\ ById \in Seq(Features) /\ Len(ById) = NumFeatures /\ ToSet(ById) = Features
    /\ \A a, b \in 1..Len(ById) : ById[a] = ById[b] => a = b
  <1> DEFINE id == [f \in Features |-> f]
             P(s) == /\ ToSet(s) = ToSet(id)
                     /\ \A i, j \in DOMAIN s : i < j => s[i] < s[j]
  <1>1. NumFeatures \in Nat
    BY PlanAssumption
  <1>2. ToSet(id) = Features /\ DOMAIN id = Features
    BY DEF ToSet
  <1>3. id \in [Features -> Features] /\ P(id)
    BY DEF Features
  <1>4. ById = CHOOSE s \in [Features -> Features] : P(s)
    BY <1>2 DEF ById, SortById
  <1> HIDE DEF P
  <1>5. ById \in [Features -> Features] /\ P(ById)
    BY <1>3, <1>4
  <1>6. ById \in Seq(Features) /\ Len(ById) = NumFeatures
    BY <1>1, <1>5 DEF Features
  <1>7. ToSet(ById) = Features
    BY <1>2, <1>5 DEF P
  <1>8. \A i, j \in 1..NumFeatures : ById[i] \in Nat /\ (i < j => ById[i] < ById[j])
    BY <1>5 DEF P, Features
  <1>9. \A a, b \in 1..NumFeatures : ById[a] = ById[b] => a = b
    BY <1>1, <1>8
  <1> QED
    BY <1>6, <1>7, <1>9

\* A rearrangement has each feature once.
LEMMA RearrangedOnce == ASSUME NEW us \in Rearrangements PROVE IsInjective(us)
  <1>1. IsFiniteSet(Features) /\ us \in Surjection(Features, Features)
    <2>1. us \in [Features -> Features] /\ ToSet(us) = Features
      BY DEF Rearrangements
    <2>2. \A f \in Features : \E g \in Features : us[g] = f
      BY <2>1 DEF ToSet
    <2>3. IsFiniteSet(Features)
      BY FS_Interval, PlanAssumption DEF Features
    <2> QED
      BY <2>1, <2>2, <2>3 DEF Surjection
  <1>2. us \in Injection(Features, Features)
    BY <1>1, FS_Surjection
  <1> QED
    BY <1>2 DEF Injection, IsInjective

\* Nor has a shard of the sorted list one twice.
LEMMA ShareOnce ==
    ASSUME NEW m \in 1..Total
    PROVE  IsInjective(split_shards(ById, m, Total))
  <1> DEFINE shard == split_shards(ById, m, Total)
             n == Len(ById)
             a == Offset(n, m, Total)
  <1>1. /\ shard \in Seq(Features) /\ Len(shard) = Count(n, m, Total)
        /\ \A k \in 1..Len(shard) : shard[k] = ById[a + k]
    BY SortedFeatures, ShardElements, PlanAssumption
  <1>2. a \in Nat /\ Count(n, m, Total) \in Nat /\ a + Count(n, m, Total) <= n /\ n \in Nat
    <2>1. n \in Nat
      BY SortedFeatures, PlanAssumption
    <2> QED
      BY <2>1, ExtentType, ShardInside, PlanAssumption
  <1> HIDE DEF shard, a
  <1>3. \A i, j \in 1..Len(shard) : shard[i] = shard[j] => i = j
    <2>1. \A i \in 1..Len(shard) : a + i \in 1..n
      BY <1>1, <1>2
    <2> QED
      BY <1>1, <1>2, <2>1, SortedFeatures
  <1>4. DOMAIN shard = 1..Len(shard)
    BY <1>1
  <1> QED
    BY <1>3, <1>4 DEF IsInjective, shard

\* The share a machine computes out of any rearrangement is the agreed one.
LEMMA ShareOfAll ==
    ASSUME NEW m \in 1..Total, NEW us \in Rearrangements
    PROVE  /\ select_shard_work_units(us, m, Total) = split_shards(ById, m, Total)
           /\ select_shard_work_units(us, m, Total) \in Seq(Features)
  <1>1. select_shard_work_units(us, m, Total) = split_shards(ById, m, Total)
    BY SortingForgets DEF select_shard_work_units
  <1>2. split_shards(ById, m, Total) \in Seq(Features)
    BY SortedFeatures, ShardElements, PlanAssumption
  <1> QED
    BY <1>1, <1>2

-----------------------------------------------------------------------------
(* The machines.                                                            *)

\* No machine has planned anything, so the invariant holds at the start.
LEMMA InitPlan == Init => ShareInv
  <1> SUFFICES ASSUME Init PROVE ShareInv
    OBVIOUS
  <1>1. TypeOK
    BY DEF Init, TypeOK
  <1> QED
    BY <1>1 DEF Init, ShareInv, Planned

\* Every step of a machine keeps the invariant.
LEMMA NextPlan == ShareInv /\ [Next]_vars => ShareInv'
  <1> SUFFICES ASSUME ShareInv, [Next]_vars PROVE ShareInv'
    OBVIOUS
  <1> USE DEF ShareInv, TypeOK, Planned, AgreedShare
  <1>1. CASE UNCHANGED vars
    BY <1>1 DEF vars
  <1>2. ASSUME NEW m \in Machines, Step(m) PROVE ShareInv'
    <2>1. CASE Configure(m)
      <3>1. TypeOK'
        BY <2>1 DEF Configure, Goto
      <3>2. sharding /\ pc'[m] # "error" => m \in 1..Total
        BY <2>1, PlanAssumption DEF Configure, Goto, validate_shard, Machines
      <3> QED
        BY <2>1, <3>1, <3>2 DEF Configure, Goto
    <2>2. CASE Parse(m)
      <3>1. PICK order \in Orders, n \in Jobs, b \in {"lpt", "fifo"} :
               /\ units' = [units EXCEPT ![m] = order]
               /\ jobs' = [jobs EXCEPT ![m] = n]
               /\ balance' = [balance EXCEPT ![m] = b]
               /\ Goto(m, IF n <= 1 THEN "filter" ELSE "sort")
        BY <2>2 DEF Parse
      <3>2. order \in Rearrangements /\ order \in Seq(Features) /\ n \in Nat \ {0}
        BY PlanAssumption, SortingForgets
      <3>3. TypeOK'
        BY <2>2, <3>1, <3>2 DEF Parse, Goto
      <3> QED
        BY <2>2, <3>1, <3>2, <3>3 DEF Parse, Goto
    <2>3. CASE SortByDuration(m)
      <3>1. CASE UNCHANGED <<history, units>>
        BY <2>3, <3>1 DEF SortByDuration, Goto
      <3>2. CASE \E d \in Histories, s \in Rearrangements :
                    /\ history' = [history EXCEPT ![m] = d]
                    /\ units' = [units EXCEPT ![m] = s]
        <4>1. PICK d \in Histories, s \in Rearrangements :
                    /\ history' = [history EXCEPT ![m] = d]
                    /\ units' = [units EXCEPT ![m] = s]
          BY <3>2
        <4>2. s \in Seq(Features) /\ d \in [Features -> Nat]
          BY PlanAssumption, SortingForgets
        <4>3. TypeOK'
          BY <2>3, <4>1, <4>2 DEF SortByDuration, Goto
        <4> QED
          BY <2>3, <4>1, <4>3 DEF SortByDuration, Goto
      <3> QED
        BY <2>3, <3>1, <3>2 DEF SortByDuration
    <2>4. CASE ApplyShard(m) \/ FilterFeatures(m)
      <3>1. /\ pc[m] \in {"filter", "shard"}
            /\ units' = [units EXCEPT ![m] = Share(m)]
            /\ pc' = [pc EXCEPT ![m] = IF pc[m] = "shard" THEN "split" ELSE "sequential"]
            /\ UNCHANGED <<serial, sharding, jobs, balance, history, parallel_batch, serial_batch>>
        BY <2>4 DEF ApplyShard, FilterFeatures, Goto
      <3>2. Share(m) \in Seq(Features)
        BY <3>1, ShareOfAll DEF Share
      <3>3. sharding => m \in 1..Total /\ Share(m) = split_shards(ById, m, Total)
        BY <3>1, ShareOfAll DEF Share
      <3>4. TypeOK'
        BY <3>1, <3>2
      <3>5. IsInjective(Share(m))
        BY <3>1, <3>3, RearrangedOnce, ShareOnce DEF Share
      <3> QED
        BY <3>1, <3>3, <3>4, <3>5
    <2>5. CASE SplitBySerialTag(m)
      <3>1. /\ Only(units[m], {u \in Features : ~is_serial(u)}) \in Seq(Features)
            /\ Only(units[m], {u \in Features : is_serial(u)}) \in Seq(Features)
        BY OnlyElements
      <3>2. TypeOK'
        BY <2>5, <3>1 DEF SplitBySerialTag, Goto
      <3> QED
        BY <2>5, <3>2 DEF SplitBySerialTag, Goto
    <2> QED
      BY <1>2, <2>1, <2>2, <2>3, <2>4, <2>5 DEF Step
  <1> QED
    BY <1>1, <1>2 DEF Next

\* Agreed shares are a partition of the features.
LEMMA FeaturesAreShared == ShareInv => EachFeatureOnce
  <1> SUFFICES ASSUME ShareInv, sharding, 1..Total \subseteq Planned, NEW f \in Features
               PROVE  \E m \in Planned : /\ f \in ToSet(units[m])
                                        /\ \A o \in Planned \ {m} : f \notin ToSet(units[o])
    BY DEF EachFeatureOnce
  <1>1. \A m \in Planned : m \in 1..Total /\ units[m] = split_shards(ById, m, Total)
    BY DEF ShareInv, AgreedShare
  <1>2. PICK m \in 1..Total : f \in ToSet(split_shards(ById, m, Total))
    BY SortedFeatures, ShardsCover, PlanAssumption
  <1>3. ASSUME NEW o \in 1..Total, o # m
        PROVE  f \notin ToSet(split_shards(ById, o, Total))
    <2>1. o < m \/ m < o
      BY <1>3
    <2> QED
      BY <1>2, <2>1, SortedFeatures, ShardsDisjoint, PlanAssumption
  <1> QED
    BY <1>1, <1>2, <1>3

\* Agreed shares differ by at most one feature.
LEMMA SharesAreBalanced == ShareInv => SharesBalanced
  <1> SUFFICES ASSUME ShareInv, sharding, NEW m \in Planned, NEW o \in Planned
               PROVE  Len(units[m]) <= Len(units[o]) + 1
    BY DEF SharesBalanced
  <1>1. \A p \in Planned : p \in 1..Total /\ units[p] = split_shards(ById, p, Total)
    BY DEF ShareInv, AgreedShare
  <1>2. \A p \in Planned : Len(units[p]) = Count(Len(ById), p, Total)
    <2>1. ASSUME NEW p \in 1..Total
          PROVE  Len(split_shards(ById, p, Total)) = Count(Len(ById), p, Total)
      <3>1. ById \in Seq(Features) /\ Total \in Nat \ {0}
        BY SortedFeatures, PlanAssumption
      <3> QED
        BY <3>1, ShardElements
    <2> QED
      BY <1>1, <2>1
  <1>3. Len(ById) \div Total \in Nat
    BY SortedFeatures, PlanAssumption, Division
  <1> QED
    BY <1>2, <1>3 DEF Count

\* A list that holds its elements once, split in two, can be given to a Pool.
LEMMA BatchesFit ==
    ASSUME NEW us \in Seq(Features), IsInjective(us)
    PROVE  LET p == Only(us, {u \in Features : ~is_serial(u)})
               s == Only(us, {u \in Features : is_serial(u)})
           IN  /\ IsInjective(p) /\ IsInjective(s)
               /\ ToSet(p) \cap ToSet(s) = {} /\ ToSet(p) \cup ToSet(s) = ToSet(us)
  <1> DEFINE P == {u \in Features : ~is_serial(u)}
             S == {u \in Features : is_serial(u)}
  <1>1. P \cap S = {} /\ P \cup S = Features
    OBVIOUS
  <1> HIDE DEF P, S
  <1>2. /\ ToSet(Only(us, P)) = ToSet(us) \cap P /\ ToSet(Only(us, S)) = ToSet(us) \cap S
        /\ IsInjective(Only(us, P)) /\ IsInjective(Only(us, S))
    BY OnlyElements
  <1>3. ToSet(us) \subseteq Features
    BY DEF ToSet
  <1>4. /\ ToSet(Only(us, P)) \cap ToSet(Only(us, S)) = {}
        /\ ToSet(Only(us, P)) \cup ToSet(Only(us, S)) = ToSet(us)
    BY <1>1, <1>2, <1>3
  <1> QED
    BY <1>2, <1>4 DEF P, S

\* The batches are what the split leaves in them.
LEMMA NextBatches == ShareInv /\ BatchesFitPool /\ [Next]_vars => BatchesFitPool'
  <1> DEFINE Fit(us, p, s) == /\ IsInjective(p) /\ IsInjective(s)
                              /\ ToSet(p) \cap ToSet(s) = {} /\ ToSet(p) \cup ToSet(s) = ToSet(us)
  <1> SUFFICES ASSUME ShareInv, \A m \in Machines : pc[m] = "dispatch" =>
                         Fit(units[m], parallel_batch[m], serial_batch[m]),
                      [Next]_vars,
                      NEW m \in Machines, pc'[m] = "dispatch"
               PROVE  Fit(units'[m], parallel_batch'[m], serial_batch'[m])
    BY DEF BatchesFitPool
  <1>0. TypeOK
    BY DEF ShareInv
  <1>1. CASE UNCHANGED vars
    BY <1>1 DEF vars
  <1>2. ASSUME NEW o \in Machines, Step(o)
        PROVE  Fit(units'[m], parallel_batch'[m], serial_batch'[m])
    <2>1. CASE o # m
      <3>1. /\ pc'[m] = pc[m] /\ units'[m] = units[m]
            /\ parallel_batch'[m] = parallel_batch[m] /\ serial_batch'[m] = serial_batch[m]
        BY <1>0, <1>2, <2>1 DEF TypeOK, Step, Configure, Parse, SortByDuration, ApplyShard,
           FilterFeatures, SplitBySerialTag, Goto
      <3> QED
        BY <3>1
    <2>2. CASE o = m /\ SplitBySerialTag(m)
      <3>1. /\ pc[m] = "split" /\ units' = units
            /\ parallel_batch'[m] = Only(units[m], {u \in Features : ~is_serial(u)})
            /\ serial_batch'[m] = Only(units[m], {u \in Features : is_serial(u)})
        BY <1>0, <2>2 DEF SplitBySerialTag, TypeOK
      <3>2. units[m] \in Seq(Features) /\ IsInjective(units[m])
        BY <1>0, <3>1 DEF ShareInv, TypeOK
      <3> QED
        BY <3>1, <3>2, BatchesFit
    <2>3. CASE o = m /\ ~SplitBySerialTag(m)
      <3>1. pc'[m] \in {"error", "parse", "filter", "sort", "shard", "split", "sequential"}
        BY <1>0, <1>2, <2>3 DEF TypeOK, Step, Configure, Parse, SortByDuration, ApplyShard,
           FilterFeatures, Goto
      <3> QED
        BY <3>1
    <2> QED
      BY <2>1, <2>2, <2>3
  <1> QED
    BY <1>1, <1>2 DEF Next

-----------------------------------------------------------------------------
(* The order by duration.                                                   *)

\* The pairs of features in this order.
InOrder(d) == {p \in Features \X Features : d[p[1]] >= d[p[2]]}

LEMMA LongestFirstIsOrdered ==
    ASSUME NEW us \in Seq(Features), NEW d
    PROVE  LongestFirst(us, d) <=> Ordered(us, InOrder(d))
  <1>1. DOMAIN us = 1..Len(us) /\ \A i \in 1..Len(us) : us[i] \in Features
    OBVIOUS
  <1>2. \A i, j \in 1..Len(us) : <<us[i], us[j]>> \in InOrder(d) <=> d[us[i]] >= d[us[j]]
    BY <1>1 DEF InOrder
  <1> QED
    BY <1>1, <1>2 DEF LongestFirst, Ordered

\* What sorted() returns is in order, and the split leaves it so.
LEMMA SortedLongestFirst ==
    ASSUME NEW s \in Rearrangements, NEW us, NEW d \in [Features -> Nat], IsLpt(s, us, d)
    PROVE  LongestFirst(s, d)
  <1> SUFFICES ASSUME NEW i \in DOMAIN s, NEW j \in DOMAIN s, i < j PROVE d[s[i]] >= d[s[j]]
    BY DEF LongestFirst
  <1>1. s[i] \in Features /\ s[j] \in Features
    BY DEF Rearrangements
  <1>2. d[s[i]] \in Nat /\ d[s[j]] \in Nat
    BY <1>1
  <1>3. d[s[i]] > d[s[j]] \/ d[s[i]] = d[s[j]]
    BY DEF IsLpt
  <1> QED
    BY <1>2, <1>3

LEMMA SplitLongestFirst ==
    ASSUME NEW us \in Seq(Features), NEW S, NEW d, LongestFirst(us, d)
    PROVE  LongestFirst(Only(us, S), d)
  <1>1. Ordered(us, InOrder(d))
    BY LongestFirstIsOrdered
  <1>2. Ordered(Only(us, S), InOrder(d))
    BY <1>1, OnlyOrdered
  <1>3. Only(us, S) \in Seq(Features)
    BY OnlyElements
  <1> QED
    BY <1>2, <1>3, LongestFirstIsOrdered

LEMMA NextOrder == ShareInv /\ OrderInv /\ [Next]_vars => OrderInv'
  <1> DEFINE Kept(p, us, batch, d) ==
                /\ p = "shard" \/ (p = "split" /\ ~sharding) => LongestFirst(us, d)
                /\ p = "dispatch" /\ ~sharding => LongestFirst(batch, d)
  <1> SUFFICES ASSUME ShareInv, \A m \in Machines : balance[m] = "lpt" =>
                         Kept(pc[m], units[m], parallel_batch[m], history[m]),
                      [Next]_vars,
                      NEW m \in Machines, balance'[m] = "lpt"
               PROVE  Kept(pc'[m], units'[m], parallel_batch'[m], history'[m])
    <2>1. ASSUME [Next]_vars
          PROVE  sharding' = sharding
      <3>1. CASE UNCHANGED vars
        BY <3>1 DEF vars
      <3>2. ASSUME NEW o \in Machines, Step(o)
            PROVE  sharding' = sharding
        BY <3>2 DEF Step, Configure, Parse, SortByDuration, ApplyShard, FilterFeatures,
           SplitBySerialTag
      <3> QED
        BY <2>1, <3>1, <3>2 DEF Next
    <2> QED
      BY <2>1 DEF OrderInv
  <1>0. TypeOK
    BY DEF ShareInv
  <1>1. CASE UNCHANGED vars
    BY <1>1 DEF vars
  <1>2. ASSUME NEW o \in Machines, Step(o)
        PROVE  Kept(pc'[m], units'[m], parallel_batch'[m], history'[m])
    <2>1. CASE o # m
      <3>1. /\ pc'[m] = pc[m] /\ units'[m] = units[m] /\ balance'[m] = balance[m]
            /\ parallel_batch'[m] = parallel_batch[m] /\ history'[m] = history[m]
        BY <1>0, <1>2, <2>1 DEF TypeOK, Step, Configure, Parse, SortByDuration, ApplyShard,
           FilterFeatures, SplitBySerialTag, Goto
      <3> QED
        BY <3>1
    <2>2. CASE o = m /\ (Configure(m) \/ Parse(m) \/ FilterFeatures(m))
      <3>1. pc'[m] \in {"error", "parse", "filter", "sort", "sequential"}
        BY <1>0, <2>2 DEF TypeOK, Configure, Parse, FilterFeatures, Goto
      <3> QED
        BY <3>1
    <2>3. CASE o = m /\ SortByDuration(m)
      <3>1. pc'[m] = "shard" /\ balance[m] = "lpt"
        BY <1>0, <2>3 DEF TypeOK, SortByDuration, Goto
      <3>2. PICK d \in Histories, s \in Rearrangements :
               /\ IsLpt(s, units[m], d)
               /\ history' = [history EXCEPT ![m] = d]
               /\ units' = [units EXCEPT ![m] = s]
        BY <2>3, <3>1 DEF SortByDuration
      <3>3. history'[m] = d /\ units'[m] = s /\ d \in [Features -> Nat]
        BY <1>0, <3>2, PlanAssumption DEF TypeOK
      <3>4. LongestFirst(s, d)
        BY <3>2, <3>3, SortedLongestFirst
      <3> QED
        BY <3>1, <3>3, <3>4
    <2>4. CASE o = m /\ ApplyShard(m)
      <3>1. /\ pc[m] = "shard" /\ pc'[m] = "split" /\ balance[m] = "lpt"
            /\ history'[m] = history[m] /\ (~sharding => units'[m] = units[m])
        BY <1>0, <2>4 DEF TypeOK, ApplyShard, Share, Goto
      <3> QED
        BY <3>1
    <2>5. CASE o = m /\ SplitBySerialTag(m)
      <3>1. /\ pc[m] = "split" /\ pc'[m] = "dispatch" /\ balance[m] = "lpt"
            /\ history'[m] = history[m]
            /\ parallel_batch'[m] = Only(units[m], {u \in Features : ~is_serial(u)})
        BY <1>0, <2>5 DEF TypeOK, SplitBySerialTag, Goto
      <3>2. units[m] \in Seq(Features)
        BY <1>0 DEF TypeOK
      <3> QED
        BY <3>1, <3>2, SplitLongestFirst
    <2> QED
      BY <1>2, <2>1, <2>2, <2>3, <2>4, <2>5 DEF Step
  <1> QED
    BY <1>1, <1>2 DEF Next

\* The inductive invariant of planning: machines who never talk to each other
\* hold the agreed shares of one list, split them into two fit batches, and
\* keep the order by duration unless they shard.
THEOREM PlanInvariance == Spec => []PlanInv
  <1>1. Init => PlanInv
    BY InitPlan DEF Init, PlanInv, BatchesFitPool, OrderInv
  <1>2. PlanInv /\ [Next]_vars => PlanInv'
    BY NextPlan, NextBatches, NextOrder DEF PlanInv
  <1> QED
    BY <1>1, <1>2, PTL DEF Spec

\* Each feature is run by exactly one machine, for any suite, any number of
\* shards, any order of discovery and any timing files.
THEOREM EachFeatureRunsOnce == Spec => []EachFeatureOnce
  <1>1. PlanInv => EachFeatureOnce
    BY FeaturesAreShared DEF PlanInv
  <1> QED
    BY <1>1, PlanInvariance, PTL

\* No machine has more than one feature more than another.
THEOREM SharesDifferByOne == Spec => []SharesBalanced
  <1>1. PlanInv => SharesBalanced
    BY SharesAreBalanced DEF PlanInv
  <1> QED
    BY <1>1, PlanInvariance, PTL

\* What every machine dispatches satisfies the assumption of Pool, so what is
\* proved of a Pool holds of the batches that are planned.
THEOREM BatchesAreFit == Spec => []BatchesFitPool
  <1>1. PlanInv => BatchesFitPool
    BY DEF PlanInv
  <1> QED
    BY <1>1, PlanInvariance, PTL

-----------------------------------------------------------------------------
(* Schedules of any list of times e: when each worker is done with its part  *)
(* of the first i units.                                                    *)

\* b[i][w] is the sum of e[j] over all j <= i that w runs.
Accumulates(b, who, e, K, n) ==
    /\ K \in Nat /\ n \in Nat /\ who \in [1..K -> 1..n] /\ e \in [1..K -> Nat]
    /\ b \in [0..K -> [1..n -> Nat]]
    /\ b[0] = [w \in 1..n |-> 0]
    /\ \A i \in 1..K : b[i] = [b[i - 1] EXCEPT ![who[i]] = @ + e[i]]

\* There is such a b for any times.
LEMMA BusyExists ==
    ASSUME NEW K \in Nat, NEW n \in Nat, NEW who \in [1..K -> 1..n], NEW e \in [1..K -> Nat]
    PROVE  \E b : Accumulates(b, who, e, K, n)
  <1> DEFINE V == [1..n -> Nat]
             G == [p \in Nat \X V |->
                     IF p[1] \in 1..K THEN [p[2] EXCEPT ![who[p[1]]] = @ + e[p[1]]] ELSE p[2]]
             zero == [w \in 1..n |-> 0]
  <1>1. zero \in V
    OBVIOUS
  <1>2. ASSUME NEW i \in 1..K, NEW f \in V PROVE [f EXCEPT ![who[i]] = @ + e[i]] \in V
    OBVIOUS
  <1>3. ASSUME NEW i \in 1..K, NEW f \in V PROVE G[<<i, f>>] = [f EXCEPT ![who[i]] = @ + e[i]]
    <2>1. <<i, f>> \in Nat \X V /\ <<i, f>>[1] = i /\ <<i, f>>[2] = f
      OBVIOUS
    <2> HIDE DEF V
    <2> QED
      BY <2>1
  <1>4. G \in [Nat \X V -> V]
    <2> HIDE DEF V
    <2>1. ASSUME NEW p \in Nat \X V
          PROVE  (IF p[1] \in 1..K THEN [p[2] EXCEPT ![who[p[1]]] = @ + e[p[1]]] ELSE p[2]) \in V
      BY <1>2
    <2> QED
      BY <2>1
  <1> HIDE DEF G, zero, V
  <1>5. PICK b \in [0..K -> V] : Recurs(b, zero, G, K)
    BY <1>1, <1>4, Recursion
  <1>6. ASSUME NEW i \in 1..K PROVE b[i] = [b[i - 1] EXCEPT ![who[i]] = @ + e[i]]
    <2>1. i - 1 \in 0..K
      OBVIOUS
    <2>2. b[i - 1] \in V
      BY <2>1
    <2> QED
      BY <1>3, <1>5, <2>2 DEF Recurs
  <1>7. b \in [0..K -> [1..n -> Nat]] /\ b[0] = [w \in 1..n |-> 0]
    BY <1>5 DEF Recurs, V, zero
  <1> QED
    BY <1>6, <1>7 DEF Accumulates

\* A unit adds to the time of its worker.
LEMMA OneUnit ==
    ASSUME NEW K, NEW n, NEW who, NEW e, NEW b, Accumulates(b, who, e, K, n),
           NEW i \in 1..K
    PROVE  /\ i - 1 \in 0..K /\ b[i - 1] \in [1..n -> Nat] /\ b[i] \in [1..n -> Nat]
           /\ who[i] \in 1..n /\ e[i] \in Nat
           /\ b[i][who[i]] = b[i - 1][who[i]] + e[i]
           /\ \A w \in 1..n : w # who[i] => b[i][w] = b[i - 1][w]
  <1>1. i - 1 \in 0..K /\ i \in 0..K /\ who[i] \in 1..n /\ e[i] \in Nat
    BY DEF Accumulates
  <1>2. b[i - 1] \in [1..n -> Nat] /\ b[i] \in [1..n -> Nat]
    BY <1>1 DEF Accumulates
  <1>3. b[i] = [b[i - 1] EXCEPT ![who[i]] = @ + e[i]]
    BY DEF Accumulates
  <1> QED
    BY <1>1, <1>2, <1>3

\* Nobody's time shrinks.
LEMMA BusyGrows ==
    ASSUME NEW K, NEW n, NEW who, NEW e, NEW b, Accumulates(b, who, e, K, n),
           NEW i \in 0..K, NEW w \in 1..n
    PROVE  b[i][w] <= b[K][w]
  <1> DEFINE T == {k \in Nat : k \in i..K => b[i][w] <= b[k][w]}
  <1>0. K \in Nat /\ \A k \in 0..K : b[k][w] \in Nat
    BY DEF Accumulates
  <1>9. \A k \in 1..K : /\ b[k][who[k]] = b[k - 1][who[k]] + e[k] /\ e[k] \in Nat
                        /\ w # who[k] => b[k][w] = b[k - 1][w]
    BY OneUnit
  <1>1. 0 \in T
    BY <1>0
  <1>2. ASSUME NEW k \in T PROVE k + 1 \in T
    <2>1. CASE k + 1 \in i..K
      <3>1. k + 1 \in 1..K /\ (k + 1) - 1 = k /\ k \in 0..K /\ k + 1 \in 0..K
        BY <1>0, <2>1
      <3>2. b[k][w] <= b[k + 1][w]
        <4>1. /\ b[k + 1][who[k + 1]] = b[k][who[k + 1]] + e[k + 1]
              /\ w # who[k + 1] => b[k + 1][w] = b[k][w]
              /\ e[k + 1] \in Nat
          BY <1>9, <3>1
        <4> QED
          BY <1>0, <3>1, <4>1
      <3>3. k \in i..K => b[i][w] <= b[k][w]
        BY <1>2
      <3>4. k \in i..K \/ i = k + 1
        BY <1>0, <2>1
      <3>5. b[i][w] <= b[k + 1][w]
        BY <1>0, <3>1, <3>2, <3>3, <3>4
      <3> QED
        BY <3>5
    <2> QED
      BY <2>1
  <1>3. T = Nat
    <2> HIDE DEF T
    <2>1. T \in SUBSET Nat
      BY DEF T
    <2> QED
      BY <1>1, <1>2, <2>1, NumberInduction
  <1>4. K \in T
    BY <1>0, <1>3
  <1>5. K \in i..K
    BY <1>0
  <1> QED
    BY <1>4, <1>5

\* It adds its time to the total.
LEMMA TotalGrows ==
    ASSUME NEW K, NEW n, NEW who, NEW e, NEW b, Accumulates(b, who, e, K, n),
           NEW i \in 1..K
    PROVE  Sum(b[i], n) = Sum(b[i - 1], n) + e[i]
  <1>0. n \in Nat
    BY DEF Accumulates
  <1>1. /\ b[i - 1] \in [1..n -> Nat] /\ b[i] \in [1..n -> Nat]
        /\ who[i] \in 1..n /\ e[i] \in Nat
        /\ b[i][who[i]] = b[i - 1][who[i]] + e[i]
    BY OneUnit
  <1>2. ASSUME NEW w \in 1..n, w # who[i] PROVE b[i][w] = b[i - 1][w]
    BY <1>2, OneUnit
  <1> QED
    BY <1>0, <1>1, <1>2, SumAdds

\* All schedules of the same units have the same total.
LEMMA SameTotal ==
    ASSUME NEW K, NEW n, NEW e, NEW p, NEW b, Accumulates(b, p, e, K, n),
           NEW q, NEW c, Accumulates(c, q, e, K, n),
           NEW i \in 0..K
    PROVE  Sum(b[i], n) = Sum(c[i], n)
  <1>0. \A k \in 1..K : /\ Sum(b[k], n) = Sum(b[k - 1], n) + e[k]
                        /\ Sum(c[k], n) = Sum(c[k - 1], n) + e[k]
    BY TotalGrows
  <1>4. K \in Nat
    BY DEF Accumulates
  <1> DEFINE T == {k \in Nat : k \in 0..K => Sum(b[k], n) = Sum(c[k], n)}
  <1>1. 0 \in T
    BY DEF Accumulates
  <1>2. ASSUME NEW k \in T PROVE k + 1 \in T
    <2>1. CASE k + 1 \in 0..K
      <3>1. k + 1 \in 1..K /\ (k + 1) - 1 = k /\ k \in 0..K
        BY <1>4, <2>1
      <3>2. Sum(b[k + 1], n) = Sum(b[k], n) + e[k + 1]
        BY <1>0, <3>1
      <3>3. Sum(c[k + 1], n) = Sum(c[k], n) + e[k + 1]
        BY <1>0, <3>1
      <3>4. Sum(b[k], n) = Sum(c[k], n)
        BY <1>2, <3>1
      <3> QED
        BY <3>2, <3>3, <3>4
    <2> QED
      BY <2>1
  <1>3. T = Nat
    <2> HIDE DEF T
    <2>1. T \in SUBSET Nat
      BY DEF T
    <2> QED
      BY <1>1, <1>2, <2>1, NumberInduction
  <1> QED
    BY <1>3

LEMMA NaturalProduct == ASSUME NEW x \in Nat, NEW y \in Nat PROVE x * y \in Nat
  OBVIOUS

\* Who takes the next unit has been busy for at most the average of the best
\* schedule, without this unit.
LEMMA QueueStep ==
    ASSUME NEW K, NEW n, NEW e, NEW p, NEW b, Accumulates(b, p, e, K, n),
           NEW q, NEW c, Accumulates(c, q, e, K, n),
           NEW M \in Nat, \A w \in 1..n : c[K][w] <= M,
           NEW i \in 1..K, \A w \in 1..n : b[i - 1][p[i]] <= b[i - 1][w]
    PROVE  n * b[i - 1][p[i]] + e[i] <= n * M
  <1>1. /\ i - 1 \in 0..K /\ i \in 0..K /\ n \in Nat /\ e[i] \in Nat /\ p[i] \in 1..n
        /\ b[i - 1] \in [1..n -> Nat] /\ c[i] \in [1..n -> Nat] /\ c[K] \in [1..n -> Nat]
    <2>1. K \in Nat /\ K \in 0..K /\ i - 1 \in 0..K /\ i \in 0..K
      BY DEF Accumulates
    <2>2. n \in Nat /\ e[i] \in Nat /\ p[i] \in 1..n
      BY DEF Accumulates
    <2>3. \A k \in 0..K : b[k] \in [1..n -> Nat] /\ c[k] \in [1..n -> Nat]
      BY DEF Accumulates
    <2> QED
      BY <2>1, <2>2, <2>3
  <1>2. b[i - 1][p[i]] \in Nat
    BY <1>1
  <1>3. Sum(b[i - 1], n) \in Nat /\ Sum(b[i - 1], n) >= n * b[i - 1][p[i]]
    BY <1>1, <1>2, SumBounds
  <1>4. Sum(b[i], n) = Sum(b[i - 1], n) + e[i]
    BY TotalGrows
  <1>5. ASSUME NEW w \in 1..n PROVE c[i][w] <= M
    <2>1. c[i][w] <= c[K][w]
      BY <1>1, BusyGrows
    <2> QED
      BY <1>1, <2>1
  <1>6. Sum(c[i], n) \in Nat /\ Sum(c[i], n) <= n * M
    BY <1>1, <1>5, SumBounds
  <1>7. Sum(b[i], n) = Sum(c[i], n)
    BY <1>1, SameTotal
  <1>8. n * b[i - 1][p[i]] \in Nat /\ n * M \in Nat
    <2>1. n \in Nat
      BY <1>1
    <2> QED
      BY <2>1, <1>2, NaturalProduct
  <1> DEFINE low == n * b[i - 1][p[i]]
             high == n * M
  <1> HIDE DEF low, high
  <1>9. low \in Nat /\ high \in Nat /\ low <= Sum(b[i - 1], n) /\ Sum(c[i], n) <= high
    BY <1>3, <1>6, <1>8 DEF low, high
  <1>10. low + e[i] <= high
    BY <1>1, <1>3, <1>4, <1>6, <1>7, <1>9
  <1> QED
    BY <1>10 DEF low, high

\* Long units weigh 2: those that leave no room for another one of length x.
Weighs(t, e, K, x, M) ==
    /\ t \in [1..K -> Nat]
    /\ \A j \in 1..K : t[j] = IF e[j] + x > M THEN 2 ELSE 1

\* When units take more than a third of M, a worker that ends by M has a weight
\* of at most 2: one long unit or two others.
LEMMA AtMostTwo ==
    ASSUME NEW K, NEW n, NEW e, NEW q, NEW c, Accumulates(c, q, e, K, n),
           NEW t, NEW s, Accumulates(s, q, t, K, n),
           NEW M \in Nat, NEW x \in Nat, 3 * x > M, Weighs(t, e, K, x, M),
           NEW i \in 0..K, \A j \in 1..i : e[j] >= x,
           \A w \in 1..n : c[K][w] <= M,
           NEW w \in 1..n
    PROVE  s[i][w] <= 2
  <1> DEFINE Light(k) == /\ s[k][w] <= 2
                         /\ s[k][w] >= 1 => c[k][w] >= x
                         /\ s[k][w] = 2 => c[k][w] + x > M
             T == {k \in Nat : k \in 0..i => Light(k)}
  <1>1. K \in Nat /\ \A k \in 0..K : c[k][w] \in Nat /\ s[k][w] \in Nat
    <2>1. K \in Nat /\ c \in [0..K -> [1..n -> Nat]]
      BY DEF Accumulates
    <2>2. s \in [0..K -> [1..n -> Nat]]
      BY DEF Accumulates
    <2> QED
      BY <2>1, <2>2
  <1>2. \A k \in 0..K : c[k][w] <= M
    <2>1. \A k \in 0..K : c[k][w] <= c[K][w]
      BY BusyGrows
    <2> QED
      BY <1>1, <2>1
  <1>3. 0 \in T
    <2>1. s[0][w] = 0
      BY DEF Accumulates
    <2> QED
      BY <2>1
  <1>4. \A k \in 1..K : e[k] \in Nat /\ t[k] = IF e[k] + x > M THEN 2 ELSE 1
    BY DEF Weighs, Accumulates
  <1>5. ASSUME NEW k \in T PROVE k + 1 \in T
    <2>1. CASE k + 1 \in 0..i
      <3>1. k + 1 \in 1..K /\ (k + 1) - 1 = k /\ k \in 0..K /\ k + 1 \in 0..K /\ k \in 0..i
            /\ k + 1 \in 1..i
        BY <1>1, <2>1
      <3>2. Light(k)
        BY <1>5, <3>1
      <3>3. CASE q[k + 1] = w
        <4>1. c[k + 1][w] = c[k][w] + e[k + 1]
          <5>1. c[k + 1][q[k + 1]] = c[(k + 1) - 1][q[k + 1]] + e[k + 1]
            BY <3>1, OneUnit
          <5> QED
            BY <3>1, <3>3, <5>1
        <4>2. s[k + 1][w] = s[k][w] + t[k + 1]
          <5>1. s[k + 1][q[k + 1]] = s[(k + 1) - 1][q[k + 1]] + t[k + 1]
            BY <3>1, OneUnit
          <5> QED
            BY <3>1, <3>3, <5>1
        <4>3. /\ c[k + 1][w] <= M /\ e[k + 1] \in Nat /\ e[k + 1] >= x
              /\ c[k][w] \in Nat /\ s[k][w] \in Nat
              /\ t[k + 1] = IF e[k + 1] + x > M THEN 2 ELSE 1
          BY <1>1, <1>2, <1>4, <3>1
        <4>4. s[k][w] \in {0, 1}
          BY <3>2, <4>1, <4>3
        <4>5. CASE s[k][w] = 0
          BY <4>1, <4>2, <4>3, <4>5
        <4>6. CASE s[k][w] = 1
          BY <3>2, <4>1, <4>2, <4>3, <4>6
        <4> QED
          BY <4>4, <4>5, <4>6
      <3>4. CASE q[k + 1] # w
        <4>1. c[k + 1][w] = c[(k + 1) - 1][w]
          BY <3>1, <3>4, OneUnit
        <4>2. s[k + 1][w] = s[(k + 1) - 1][w]
          BY <3>1, <3>4, OneUnit
        <4> QED
          BY <3>1, <3>2, <4>1, <4>2
      <3> QED
        BY <3>3, <3>4
    <2> QED
      BY <2>1
  <1>6. T = Nat
    <2> HIDE DEF T
    <2>1. T \in SUBSET Nat
      BY DEF T
    <2> QED
      BY <1>3, <1>5, <2>1, NumberInduction
  <1>7. i \in T /\ i \in 0..i
    BY <1>1, <1>6
  <1> QED
    BY <1>7

\* A worker that is too busy for another unit of length x has at least 2.
LEMMA AtLeastTwo ==
    ASSUME NEW K, NEW n, NEW e, NEW p, NEW b, Accumulates(b, p, e, K, n),
           NEW t, NEW s, Accumulates(s, p, t, K, n),
           NEW M \in Nat, NEW x \in Nat, x <= M, Weighs(t, e, K, x, M),
           NEW i \in 0..K, NEW w \in 1..n, b[i][w] + x > M
    PROVE  s[i][w] >= 2
  <1> DEFINE Room(k) == /\ s[k][w] = 0 => b[k][w] = 0
                        /\ s[k][w] = 1 => b[k][w] + x <= M
             T == {k \in Nat : k \in 0..K => Room(k)}
  <1>1. K \in Nat /\ \A k \in 0..K : b[k][w] \in Nat /\ s[k][w] \in Nat
    <2>1. K \in Nat /\ b \in [0..K -> [1..n -> Nat]]
      BY DEF Accumulates
    <2>2. s \in [0..K -> [1..n -> Nat]]
      BY DEF Accumulates
    <2> QED
      BY <2>1, <2>2
  <1>3. 0 \in T
    <2>1. s[0][w] = 0 /\ b[0][w] = 0
      BY DEF Accumulates
    <2> QED
      BY <2>1
  <1>4. \A k \in 1..K : e[k] \in Nat /\ t[k] = IF e[k] + x > M THEN 2 ELSE 1
    BY DEF Weighs, Accumulates
  <1>5. ASSUME NEW k \in T PROVE k + 1 \in T
    <2>1. CASE k + 1 \in 0..K
      <3>1. k + 1 \in 1..K /\ (k + 1) - 1 = k /\ k \in 0..K /\ k + 1 \in 0..K
        BY <1>1, <2>1
      <3>2. Room(k)
        BY <1>5, <3>1
      <3>3. CASE p[k + 1] = w
        <4>1. b[k + 1][w] = b[k][w] + e[k + 1]
          <5>1. b[k + 1][p[k + 1]] = b[(k + 1) - 1][p[k + 1]] + e[k + 1]
            BY <3>1, OneUnit
          <5> QED
            BY <3>1, <3>3, <5>1
        <4>2. s[k + 1][w] = s[k][w] + t[k + 1]
          <5>1. s[k + 1][p[k + 1]] = s[(k + 1) - 1][p[k + 1]] + t[k + 1]
            BY <3>1, OneUnit
          <5> QED
            BY <3>1, <3>3, <5>1
        <4>3. /\ e[k + 1] \in Nat /\ b[k][w] \in Nat /\ s[k][w] \in Nat
              /\ t[k + 1] = IF e[k + 1] + x > M THEN 2 ELSE 1
          BY <1>1, <1>4, <3>1
        <4>4. CASE s[k][w] = 0
          BY <3>2, <4>1, <4>2, <4>3, <4>4
        <4>5. CASE s[k][w] # 0
          <5>1. s[k + 1][w] >= 2
            BY <4>2, <4>3, <4>5
          <5> QED
            BY <5>1
        <4> QED
          BY <4>4, <4>5
      <3>4. CASE p[k + 1] # w
        <4>1. b[k + 1][w] = b[(k + 1) - 1][w]
          BY <3>1, <3>4, OneUnit
        <4>2. s[k + 1][w] = s[(k + 1) - 1][w]
          BY <3>1, <3>4, OneUnit
        <4> QED
          BY <3>1, <3>2, <4>1, <4>2
      <3> QED
        BY <3>3, <3>4
    <2> QED
      BY <2>1
  <1>6. T = Nat
    <2> HIDE DEF T
    <2>1. T \in SUBSET Nat
      BY DEF T
    <2> QED
      BY <1>3, <1>5, <2>1, NumberInduction
  <1>7. i \in T
    BY <1>1, <1>6
  <1>8. Room(i)
    BY <1>7
  <1> QED
    BY <1>1, <1>8

\* No unit is longer than the best schedule.
LEMMA OneFits ==
    ASSUME NEW K, NEW n, NEW e, NEW q, NEW c, Accumulates(c, q, e, K, n),
           NEW M \in Nat, \A w \in 1..n : c[K][w] <= M, NEW i \in 1..K
    PROVE  e[i] \in Nat /\ e[i] <= M
  <1>1. K \in Nat /\ i \in 0..K /\ i - 1 \in 0..K
    BY DEF Accumulates
  <1>2. q[i] \in 1..n /\ e[i] \in Nat
    BY DEF Accumulates
  <1>3. \A k \in 0..K : c[k][q[i]] \in Nat
    BY <1>2 DEF Accumulates
  <1>4. c[i][q[i]] = c[i - 1][q[i]] + e[i]
    BY OneUnit
  <1>5. c[i][q[i]] <= c[K][q[i]]
    BY <1>1, <1>2, BusyGrows
  <1>6. c[K][q[i]] <= M /\ c[K][q[i]] \in Nat /\ c[i][q[i]] \in Nat /\ c[i - 1][q[i]] \in Nat
    <2>1. K \in 0..K
      BY <1>1
    <2> QED
      BY <1>1, <1>2, <1>3, <2>1
  <1> QED
    BY <1>2, <1>4, <1>5, <1>6

\* If the next unit is not longer than any before it, and longer than a third
\* of the best schedule, then it ends in time: otherwise every worker would
\* have a long unit or two others already, and the best schedule has no room for
\* one more.
LEMMA LongEndsInTime ==
    ASSUME NEW K, NEW n, NEW e, NEW p, NEW b, Accumulates(b, p, e, K, n),
           NEW q, NEW c, Accumulates(c, q, e, K, n),
           NEW M \in Nat, \A w \in 1..n : c[K][w] <= M,
           NEW i \in 1..K, \A w \in 1..n : b[i - 1][p[i]] <= b[i - 1][w],
           \A j \in 1..i : e[j] >= e[i], 3 * e[i] > M
    PROVE  b[i - 1][p[i]] + e[i] <= M
  <1> SUFFICES ASSUME b[i - 1][p[i]] + e[i] > M PROVE FALSE
    <2>1. b[i - 1][p[i]] + e[i] \in Nat
      <3>1. i - 1 \in 0..K /\ p[i] \in 1..n /\ e[i] \in Nat
        BY DEF Accumulates
      <3>2. b[i - 1][p[i]] \in Nat
        BY <3>1 DEF Accumulates
      <3> QED
        BY <3>1, <3>2
    <2> QED
      BY <2>1
  <1> DEFINE x == e[i]
             t == [j \in 1..K |-> IF e[j] + x > M THEN 2 ELSE 1]
  <1>1. K \in Nat /\ n \in Nat /\ p \in [1..K -> 1..n] /\ q \in [1..K -> 1..n]
    BY DEF Accumulates
  <1>2. i - 1 \in 0..K /\ i \in 0..K /\ p[i] \in 1..n
    BY <1>1
  <1>3. x \in Nat /\ x <= M
    BY OneFits
  <1>4. Weighs(t, e, K, x, M)
    BY DEF Weighs
  <1>5. t \in [1..K -> Nat] /\ t[i] \in Nat /\ t[i] >= 1
    <2>1. t[i] = IF e[i] + x > M THEN 2 ELSE 1
      OBVIOUS
    <2> QED
      BY <1>4, <2>1 DEF Weighs
  <1> HIDE DEF t
  <1>6. PICK r : Accumulates(r, p, t, K, n)
    BY <1>1, <1>5, BusyExists
  <1>7. PICK s : Accumulates(s, q, t, K, n)
    BY <1>1, <1>5, BusyExists
  <1>8. ASSUME NEW w \in 1..n PROVE s[i][w] <= 2
    <2>1. \A j \in 1..i : e[j] >= x
      OBVIOUS
    <2>2. 3 * x > M
      OBVIOUS
    <2> HIDE DEF x
    <2> QED
      BY <1>2, <1>3, <1>4, <1>7, <2>1, <2>2, AtMostTwo
  <1>9. ASSUME NEW w \in 1..n PROVE r[i - 1][w] >= 2
    <2>1. b[i - 1][w] + x > M
      <3>1. b[i - 1][w] \in Nat /\ b[i - 1][p[i]] \in Nat
        <4>1. b[i - 1] \in [1..n -> Nat]
          BY <1>2 DEF Accumulates
        <4> QED
          BY <1>2, <4>1
      <3>2. b[i - 1][p[i]] <= b[i - 1][w] /\ b[i - 1][p[i]] + x > M
        OBVIOUS
      <3> HIDE DEF x
      <3> QED
        BY <1>3, <3>1, <3>2
    <2> HIDE DEF x
    <2> QED
      BY <1>2, <1>3, <1>4, <1>6, <2>1, AtLeastTwo
  <1>10. r[i - 1] \in [1..n -> Nat] /\ s[i] \in [1..n -> Nat]
    BY <1>2, <1>6, <1>7 DEF Accumulates
  <1>11. Sum(r[i - 1], n) \in Nat /\ Sum(r[i - 1], n) >= n * 2
    BY <1>1, <1>9, <1>10, SumBounds
  <1>12. Sum(s[i], n) \in Nat /\ Sum(s[i], n) <= n * 2
    BY <1>1, <1>8, <1>10, SumBounds
  <1>13. Sum(r[i], n) = Sum(r[i - 1], n) + t[i]
    BY <1>6, TotalGrows
  <1>14. Sum(r[i], n) = Sum(s[i], n)
    BY <1>2, <1>6, <1>7, SameTotal
  <1> QED
    BY <1>1, <1>5, <1>11, <1>12, <1>13, <1>14

\* The arithmetic of the two bounds.
LEMMA QueueArithmetic ==
    ASSUME NEW n \in Nat \ {0}, NEW L \in Nat, NEW x \in Nat, NEW M \in Nat,
           n * L + x <= n * M, x <= M
    PROVE  n * (L + x) <= (2 * n - 1) * M
  <1>1. PICK m \in Nat : n = m + 1
    <2>1. n - 1 \in Nat /\ n = (n - 1) + 1
      OBVIOUS
    <2> QED
      BY <2>1
  <1>2. m * x <= m * M
    BY <1>1
  <1>3. n * (L + x) = n * L + (m * x + x)
    BY <1>1
  <1>4. (2 * n - 1) * M = n * M + m * M
    BY <1>1
  <1>5. n * L \in Nat /\ n * M \in Nat /\ m * x \in Nat /\ m * M \in Nat
    BY <1>1
  <1> QED
    BY <1>2, <1>3, <1>4, <1>5

LEMMA LptArithmetic ==
    ASSUME NEW n \in Nat \ {0}, NEW L \in Nat, NEW x \in Nat, NEW M \in Nat,
           n * L + x <= n * M, 3 * x <= M
    PROVE  3 * n * (L + x) <= (4 * n - 1) * M
  <1>1. PICK m \in Nat : n = m + 1
    <2>1. n - 1 \in Nat /\ n = (n - 1) + 1
      OBVIOUS
    <2> QED
      BY <2>1
  <1>2. m * (3 * x) <= m * M
    BY <1>1
  <1>3. 3 * n * (L + x) = 3 * (n * L + x) + m * (3 * x)
    BY <1>1
  <1>4. (4 * n - 1) * M = 3 * (n * M) + m * M
    BY <1>1
  <1>5. n * L \in Nat /\ n * M \in Nat /\ m * (3 * x) \in Nat /\ m * M \in Nat
    BY <1>1
  <1> QED
    BY <1>2, <1>3, <1>4, <1>5

LEMMA EndsInTimeArithmetic ==
    ASSUME NEW n \in Nat \ {0}, NEW x \in Nat, NEW M \in Nat, x <= M
    PROVE  3 * n * x <= 3 * n * M /\ 3 * n * M <= (4 * n - 1) * M
  <1>1. PICK m \in Nat : n = m + 1
    <2>1. n - 1 \in Nat /\ n = (n - 1) + 1
      OBVIOUS
    <2> QED
      BY <2>1
  <1>2. (4 * n - 1) * M = 3 * n * M + m * M /\ m * M \in Nat /\ 3 * n * M \in Nat
    BY <1>1
  <1>3. 3 * n * M <= (4 * n - 1) * M
    BY <1>2
  <1>4. 3 * n \in Nat
    OBVIOUS
  <1>5. 3 * n * x <= 3 * n * M
    BY <1>4
  <1> QED
    BY <1>3, <1>5

\* Each unit goes to a worker that is free first.
FreeFirst(b, p, K, n) == \A i \in 1..K, w \in 1..n : b[i - 1][p[i]] <= b[i - 1][w]

\* A bound on the time of each worker, from a bound for who takes a unit.
LEMMA BoundedWhenTaken ==
    ASSUME NEW K, NEW n, NEW e, NEW p, NEW b, Accumulates(b, p, e, K, n),
           NEW f \in Nat, NEW B \in Nat,
           \A i \in 1..K : f * (b[i - 1][p[i]] + e[i]) <= B,
           NEW w \in 1..n
    PROVE  f * b[K][w] <= B
  <1> DEFINE T == {k \in Nat : k \in 0..K => f * b[k][w] <= B}
  <1>1. K \in Nat /\ \A k \in 0..K : b[k][w] \in Nat
    BY DEF Accumulates
  <1>2. 0 \in T
    <2>1. b[0][w] = 0
      BY DEF Accumulates
    <2>2. f * 0 = 0
      OBVIOUS
    <2> QED
      BY <2>1, <2>2
  <1>3. ASSUME NEW k \in T PROVE k + 1 \in T
    <2>1. CASE k + 1 \in 0..K
      <3>1. k + 1 \in 1..K /\ (k + 1) - 1 = k /\ k \in 0..K
        BY <1>1, <2>1
      <3>2. CASE p[k + 1] = w
        <4>1. b[k + 1][p[k + 1]] = b[(k + 1) - 1][p[k + 1]] + e[k + 1]
          BY <3>1, OneUnit
        <4>2. f * (b[(k + 1) - 1][p[k + 1]] + e[k + 1]) <= B
          BY <3>1
        <4>3. f * b[k + 1][w] <= B
          BY <3>2, <4>1, <4>2
        <4> QED
          BY <4>3
      <3>3. CASE p[k + 1] # w
        <4>1. b[k + 1][w] = b[(k + 1) - 1][w]
          BY <3>1, <3>3, OneUnit
        <4>2. b[k + 1][w] = b[k][w]
          BY <3>1, <4>1
        <4>3. f * b[k][w] <= B
          BY <1>3, <3>1
        <4> QED
          BY <4>2, <4>3
      <3> QED
        BY <3>2, <3>3
    <2> QED
      BY <2>1
  <1>4. T = Nat
    <2> HIDE DEF T
    <2>1. T \in SUBSET Nat
      BY DEF T
    <2> QED
      BY <1>2, <1>3, <2>1, NumberInduction
  <1>5. K \in T /\ K \in 0..K
    BY <1>1, <1>4
  <1> QED
    BY <1>5

\* One queue for all workers, in any order.
LEMMA QueueIsBounded ==
    ASSUME NEW K, NEW n \in Nat \ {0}, NEW e, NEW p, NEW b, Accumulates(b, p, e, K, n),
           FreeFirst(b, p, K, n),
           NEW q, NEW c, Accumulates(c, q, e, K, n),
           NEW M \in Nat, \A w \in 1..n : c[K][w] <= M
    PROVE  \A w \in 1..n : n * b[K][w] <= (2 * n - 1) * M
  <1>1. (2 * n - 1) * M \in Nat /\ n \in Nat
    <2>1. 2 * n - 1 \in Nat
      OBVIOUS
    <2> QED
      BY <2>1
  <1>2. ASSUME NEW i \in 1..K
        PROVE  n * (b[i - 1][p[i]] + e[i]) <= (2 * n - 1) * M
    <2>1. n * b[i - 1][p[i]] + e[i] <= n * M
      BY QueueStep DEF FreeFirst
    <2>2. e[i] \in Nat /\ e[i] <= M
      BY OneFits
    <2>3. b[i - 1][p[i]] \in Nat
      <3>1. b[i - 1] \in [1..n -> Nat] /\ p[i] \in 1..n
        BY OneUnit
      <3> QED
        BY <3>1
    <2> QED
      BY <2>1, <2>2, <2>3, QueueArithmetic
  <1>3. ASSUME NEW w \in 1..n PROVE n * b[K][w] <= (2 * n - 1) * M
    BY <1>1, <1>2, BoundedWhenTaken
  <1> QED
    BY <1>3

\* The same, longest first.
LEMMA LongestFirstIsBounded ==
    ASSUME NEW K, NEW n \in Nat \ {0}, NEW e, NEW p, NEW b, Accumulates(b, p, e, K, n),
           FreeFirst(b, p, K, n),
           NEW q, NEW c, Accumulates(c, q, e, K, n),
           \A i, j \in 1..K : i < j => e[i] >= e[j],
           NEW M \in Nat, \A w \in 1..n : c[K][w] <= M
    PROVE  \A w \in 1..n : 3 * n * b[K][w] <= (4 * n - 1) * M
  <1>1. (4 * n - 1) * M \in Nat /\ 3 * n \in Nat
    <2>1. 4 * n - 1 \in Nat
      OBVIOUS
    <2> QED
      BY <2>1
  <1>2. ASSUME NEW i \in 1..K
        PROVE  3 * n * (b[i - 1][p[i]] + e[i]) <= (4 * n - 1) * M
    <2>1. n * b[i - 1][p[i]] + e[i] <= n * M
      BY QueueStep DEF FreeFirst
    <2>2. e[i] \in Nat
      <3>1. e \in [1..K -> Nat]
        BY DEF Accumulates
      <3> QED
        BY <3>1
    <2>3. b[i - 1][p[i]] \in Nat
      <3>1. b[i - 1] \in [1..n -> Nat] /\ p[i] \in 1..n
        BY OneUnit
      <3> QED
        BY <3>1
    <2>4. CASE 3 * e[i] <= M
      BY <2>1, <2>2, <2>3, <2>4, LptArithmetic
    <2>5. CASE 3 * e[i] > M
      <3>1. ASSUME NEW j \in 1..i PROVE e[j] >= e[i]
        <4>1. j \in 1..K /\ (j = i \/ j < i)
          <5>1. K \in Nat
            BY DEF Accumulates
          <5> QED
            BY <5>1
        <4> QED
          BY <2>2, <4>1
      <3>2. \A w \in 1..n : b[i - 1][p[i]] <= b[i - 1][w]
        BY DEF FreeFirst
      <3>3. b[i - 1][p[i]] + e[i] <= M
        BY <2>5, <3>1, <3>2, LongEndsInTime
      <3> DEFINE x == b[i - 1][p[i]] + e[i]
      <3>4. x \in Nat /\ x <= M
        BY <2>2, <2>3, <3>3
      <3> HIDE DEF x
      <3>5. 3 * n * x <= 3 * n * M /\ 3 * n * M <= (4 * n - 1) * M
        BY <3>4, EndsInTimeArithmetic
      <3>6. 3 * n * x \in Nat /\ 3 * n * M \in Nat
        BY <3>4
      <3>7. 3 * n * x <= (4 * n - 1) * M
        BY <1>1, <3>5, <3>6
      <3> QED
        BY <3>7 DEF x
    <2>6. 3 * e[i] <= M \/ 3 * e[i] > M
      BY <2>2
    <2> QED
      BY <2>4, <2>5, <2>6
  <1>3. ASSUME NEW w \in 1..n PROVE 3 * n * b[K][w] <= (4 * n - 1) * M
    BY <1>1, <1>2, BoundedWhenTaken
  <1> QED
    BY <1>3

-----------------------------------------------------------------------------
(* The schedules of a batch.                                                *)

\* How long its units take.
Times(batch, d) == [i \in DOMAIN batch |-> d[batch[i]]]

\* What BusyUpTo is at i, given what it is below.
BusyAt(batch, who, n, d, f, i) ==
    IF i = 0 THEN [w \in 1..n |-> 0]
    ELSE [f[i - 1] EXCEPT ![who[i]] = @ + d[batch[i]]]

LEMMA BusyAccumulates ==
    ASSUME NEW batch \in Seq(Features), NEW n \in Nat, NEW who \in Schedules(batch, n),
           NEW d \in [Features -> Nat]
    PROVE  Accumulates(BusyUpTo(batch, who, n, d), who, Times(batch, d), Len(batch), n)
  <1> DEFINE K == Len(batch)
             e == Times(batch, d)
             At(f, i) == BusyAt(batch, who, n, d, f, i)
             Defines(f) == f = [i \in 0..K |-> At(f, i)]
             g == BusyUpTo(batch, who, n, d)
  <1>1. K \in Nat /\ who \in [1..K -> 1..n] /\ e \in [1..K -> Nat]
        /\ \A i \in 1..K : e[i] = d[batch[i]]
    BY DEF Schedules, Times
  <1>2. PICK b : Accumulates(b, who, e, K, n)
    <2> HIDE DEF e, K
    <2> QED
      BY <1>1, BusyExists
  <1>3. /\ b \in [0..K -> [1..n -> Nat]] /\ b[0] = [w \in 1..n |-> 0]
        /\ \A i \in 1..K : b[i] = [b[i - 1] EXCEPT ![who[i]] = @ + e[i]]
    <2> HIDE DEF e, K
    <2> QED
      BY <1>2 DEF Accumulates
  <1>4. \A i \in 0..K : b[i] = At(b, i)
    <2> HIDE DEF e, K
    <2>1. b[0] = At(b, 0)
      BY <1>3 DEF BusyAt
    <2>2. ASSUME NEW i \in 1..K PROVE b[i] = At(b, i)
      <3>1. i # 0 /\ e[i] = d[batch[i]] /\ b[i] = [b[i - 1] EXCEPT ![who[i]] = @ + e[i]]
        <4>1. i # 0 /\ e[i] = d[batch[i]]
          BY <1>1
        <4>2. b[i] = [b[i - 1] EXCEPT ![who[i]] = @ + e[i]]
          BY <1>3
        <4> QED
          BY <4>1, <4>2
      <3> QED
        BY <3>1 DEF BusyAt
    <2>3. \A i \in 0..K : i = 0 \/ i \in 1..K
      BY <1>1
    <2> HIDE DEF At
    <2> QED
      BY <2>1, <2>2, <2>3
  <1>5. Defines(b)
    <2> HIDE DEF At, K
    <2>1. b = [i \in 0..K |-> b[i]]
      BY <1>3
    <2> QED
      BY <1>4, <2>1
  <1>6. g = CHOOSE f : Defines(f)
    BY DEF BusyUpTo, BusyAt
  <1>7. Defines(g)
    <2> HIDE DEF Defines, g
    <2> QED
      BY <1>5, <1>6, Zenon
  <1>8. \A i \in 0..K : g[i] = At(g, i)
    <2> HIDE DEF At, K, g
    <2> QED
      BY <1>7
  <1> HIDE DEF g, e, K
  <1>9. \A i \in 0..K : g[i] = b[i]
    <2> DEFINE T == {i \in Nat : i \in 0..K => g[i] = b[i]}
    <2>1. 0 \in T
      <3>1. 0 \in 0..K
        BY <1>1
      <3>2. g[0] = At(g, 0) /\ b[0] = At(b, 0)
        BY <1>4, <1>8, <3>1
      <3>3. g[0] = b[0]
        BY <3>2 DEF BusyAt
      <3> QED
        BY <3>3
    <2>2. ASSUME NEW i \in T PROVE i + 1 \in T
      <3>1. CASE i + 1 \in 0..K
        <4>1. i \in 0..K /\ i + 1 # 0 /\ (i + 1) - 1 = i
          BY <1>1, <3>1
        <4>2. g[i] = b[i]
          BY <2>2, <4>1
        <4>3. g[i + 1] = At(g, i + 1) /\ b[i + 1] = At(b, i + 1)
          BY <1>4, <1>8, <3>1
        <4>4. At(g, i + 1) = At(b, i + 1)
          BY <4>1, <4>2 DEF BusyAt
        <4>5. g[i + 1] = b[i + 1]
          BY <4>3, <4>4
        <4> QED
          BY <4>5
      <3> QED
        BY <3>1
    <2>3. T = Nat
      <3> HIDE DEF T
      <3>1. T \in SUBSET Nat
        BY DEF T
      <3> QED
        BY <2>1, <2>2, <3>1, NumberInduction
    <2> QED
      BY <2>3
  <1>10. g = b
    <2>1. g = [i \in 0..K |-> g[i]]
      <3> HIDE DEF At
      <3> QED
        BY <1>7
    <2> QED
      BY <1>3, <1>9, <2>1
  <1> QED
    BY <1>2, <1>10 DEF g, e, K

\* The makespan is the time of the worker that is busy longest.
LEMMA MakespanIs ==
    ASSUME NEW batch \in Seq(Features), NEW n \in Nat \ {0}, NEW who \in Schedules(batch, n),
           NEW d \in [Features -> Nat]
    PROVE  LET busy == BusyUpTo(batch, who, n, d)[Len(batch)]
               M == Makespan(batch, who, n, d)
           IN  M \in Nat /\ (\A w \in 1..n : busy[w] <= M) /\ \E w \in 1..n : busy[w] = M
  <1> DEFINE busy == BusyUpTo(batch, who, n, d)[Len(batch)]
             Longest(t) == \A w \in 1..n : busy[w] <= t
             M == CHOOSE t \in ToSet(busy) : Longest(t)
  <1>1. busy \in [1..n -> Nat]
    <2>1. Accumulates(BusyUpTo(batch, who, n, d), who, Times(batch, d), Len(batch), n)
      BY BusyAccumulates
    <2>2. Len(batch) \in 0..Len(batch)
      OBVIOUS
    <2> QED
      BY <2>1, <2>2 DEF Accumulates
  <1>2. Makespan(batch, who, n, d) = M
    BY DEF Makespan
  <1> HIDE DEF busy
  <1>3. ToSet(busy) = {busy[w] : w \in 1..n}
    BY <1>1 DEF ToSet
  <1>4. PICK v \in 1..n : \A w \in 1..n : busy[w] <= busy[v]
    BY <1>1, GreatestExists
  <1>5. busy[v] \in ToSet(busy) /\ Longest(busy[v])
    BY <1>3, <1>4
  <1>6. M \in ToSet(busy) /\ Longest(M)
    <2> HIDE DEF Longest
    <2> QED
      BY <1>5, Zenon
  <1> HIDE DEF M
  <1>7. M \in Nat /\ \E w \in 1..n : busy[w] = M
    BY <1>1, <1>3, <1>6
  <1> QED
    BY <1>2, <1>6, <1>7 DEF busy

\* The two bounds of a batch.
LEMMA BatchBounds ==
    ASSUME NEW batch \in Seq(Features), NEW n \in Nat \ {0}, NEW d \in [Features -> Nat],
           NEW who \in Schedules(batch, n), NEW best \in Schedules(batch, n),
           TakesWhenFree(batch, who, n, d)
    PROVE  /\ n * Makespan(batch, who, n, d) <= (2 * n - 1) * Makespan(batch, best, n, d)
           /\ LongestFirst(batch, d) =>
                 3 * n * Makespan(batch, who, n, d) <= (4 * n - 1) * Makespan(batch, best, n, d)
  <1> DEFINE K == Len(batch)
             e == Times(batch, d)
             b == BusyUpTo(batch, who, n, d)
             c == BusyUpTo(batch, best, n, d)
             M == Makespan(batch, best, n, d)
             N == Makespan(batch, who, n, d)
  <1>1. Accumulates(b, who, e, K, n) /\ Accumulates(c, best, e, K, n)
    BY BusyAccumulates
  <1>2. M \in Nat /\ \A w \in 1..n : c[K][w] <= M
    BY MakespanIs
  <1>3. \E w \in 1..n : b[K][w] = N
    BY MakespanIs
  <1>4. FreeFirst(b, who, K, n)
    BY DEF FreeFirst, TakesWhenFree
  <1>5. LongestFirst(batch, d) => \A i, j \in 1..K : i < j => e[i] >= e[j]
    <2>1. \A i \in 1..K : e[i] = d[batch[i]]
      BY DEF Times
    <2>2. DOMAIN batch = 1..K
      OBVIOUS
    <2> HIDE DEF e, K
    <2> QED
      BY <2>1, <2>2 DEF LongestFirst
  <1> HIDE DEF K, e, b, c, M, N
  <1>6. \A w \in 1..n : n * b[K][w] <= (2 * n - 1) * M
    BY <1>1, <1>2, <1>4, QueueIsBounded
  <1>7. LongestFirst(batch, d) => \A w \in 1..n : 3 * n * b[K][w] <= (4 * n - 1) * M
    BY <1>1, <1>2, <1>4, <1>5, LongestFirstIsBounded
  <1>8. n * N <= (2 * n - 1) * M
    BY <1>3, <1>6
  <1>9. LongestFirst(batch, d) => 3 * n * N <= (4 * n - 1) * M
    BY <1>3, <1>7
  <1> QED
    BY <1>8, <1>9 DEF M, N

\* The parallel batch that a machine dispatches, at any time.
LEMMA DispatchedBatch ==
    ASSUME PlanInv, NEW m \in Machines
    PROVE  /\ parallel_batch[m] \in Seq(Features) /\ jobs[m] \in Nat \ {0}
           /\ history[m] \in [Features -> Nat]
  BY DEF PlanInv, ShareInv, TypeOK

\* Longest first never takes longer than 4/3 - 1/(3n) times the best schedule,
\* for any suite, durations, number of workers and races between them.
THEOREM LptIsBounded == Spec => []LptBound
  <1>1. PlanInv => LptBound
    <2> SUFFICES ASSUME PlanInv, NEW m \in Machines,
                        pc[m] = "dispatch", balance[m] = "lpt", ~sharding,
                        NEW who \in Schedules(parallel_batch[m], jobs[m]),
                        NEW best \in Schedules(parallel_batch[m], jobs[m]),
                        TakesWhenFree(parallel_batch[m], who, jobs[m], history[m])
                 PROVE  3 * jobs[m] * Makespan(parallel_batch[m], who, jobs[m], history[m])
                          <= (4 * jobs[m] - 1)
                               * Makespan(parallel_batch[m], best, jobs[m], history[m])
      BY DEF LptBound
    <2>1. LongestFirst(parallel_batch[m], history[m])
      BY DEF PlanInv, OrderInv
    <2> QED
      BY <2>1, DispatchedBatch, BatchBounds
  <1> QED
    BY <1>1, PlanInvariance, PTL

\* One queue for all workers never takes longer than 2 - 1/n times the best
\* schedule, in whatever order the units are and however long they take.
THEOREM QueueIsFair == Spec => []QueueBound
  <1>1. PlanInv => QueueBound
    <2> SUFFICES ASSUME PlanInv, NEW m \in Machines, pc[m] = "dispatch", NEW d \in Histories,
                        NEW who \in Schedules(parallel_batch[m], jobs[m]),
                        NEW best \in Schedules(parallel_batch[m], jobs[m]),
                        TakesWhenFree(parallel_batch[m], who, jobs[m], d)
                 PROVE  jobs[m] * Makespan(parallel_batch[m], who, jobs[m], d)
                          <= (2 * jobs[m] - 1) * Makespan(parallel_batch[m], best, jobs[m], d)
      BY DEF QueueBound
    <2>1. d \in [Features -> Nat]
      BY PlanAssumption
    <2> QED
      BY <2>1, DispatchedBatch, BatchBounds
  <1> QED
    BY <1>1, PlanInvariance, PTL
=============================================================================
