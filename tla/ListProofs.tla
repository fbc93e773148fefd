------------------------------ MODULE ListProofs ------------------------------
(***************************************************************************)
(* Induction over numbers and lists; what it shows of Lists; and sums.        *)
(*                                                                         *)
(* The induction theorems of the library take the property as an operator,  *)
(* which the provers cannot instantiate.  Here it is a set, and the          *)
(* principle follows from its least element.                                *)
(***************************************************************************)
EXTENDS Lists, SequencesExt, WellFoundedInduction, TLAPS

\* A set of numbers with 0 and the successor of each of its elements.
LEMMA NumberInduction ==
    ASSUME NEW T \in SUBSET Nat, 0 \in T, \A n \in T : n + 1 \in T
    PROVE  T = Nat
  <1> DEFINE R == {s \in Nat \X Nat : s[1] < s[2]}
  <1>1. SUFFICES ASSUME T # Nat PROVE FALSE
    OBVIOUS
  <1>2. IsWellFoundedOn(R, Nat)
    BY NatLessThanWellFounded DEF OpToRel
  <1>3. Nat \ T \subseteq Nat /\ Nat \ T # {}
    BY <1>1
  <1>4. \A a, b \in Nat : a < b => <<a, b>> \in R
    OBVIOUS
  <1> HIDE DEF R
  <1>5. PICK n \in Nat \ T : \A m \in Nat \ T : <<m, n>> \notin R
    BY <1>2, <1>3, WFMin, Zenon
  <1>6. n \in Nat /\ n - 1 \in Nat /\ n - 1 < n /\ n = (n - 1) + 1
    BY <1>5
  <1>7. n - 1 \in T
    BY <1>4, <1>5, <1>6
  <1> QED
    BY <1>5, <1>6, <1>7

\* A list with one more element, and the front of a list.
LEMMA Appended ==
    ASSUME NEW X, NEW s \in Seq(X), NEW x \in X
    PROVE  /\ Append(s, x) \in Seq(X) /\ Len(Append(s, x)) = Len(s) + 1 /\ Len(s) \in Nat
           /\ Append(s, x)[Len(s) + 1] = x
           /\ \A i \in 1..Len(s) : Append(s, x)[i] = s[i]
  OBVIOUS

LEMMA FrontOf ==
    ASSUME NEW X, NEW s \in Seq(X), NEW n \in 0..Len(s)
    PROVE  /\ SubSeq(s, 1, n) \in Seq(X) /\ Len(SubSeq(s, 1, n)) = n
           /\ \A i \in 1..n : SubSeq(s, 1, n)[i] = s[i]
  OBVIOUS

\* A longer front is a front with one more element, and the longest the list.
LEMMA FrontGrows ==
    ASSUME NEW X, NEW s \in Seq(X), NEW n \in 0..(Len(s) - 1)
    PROVE  s[n + 1] \in X /\ SubSeq(s, 1, n + 1) = Append(SubSeq(s, 1, n), s[n + 1])
  <1> DEFINE f == SubSeq(s, 1, n)
             g == SubSeq(s, 1, n + 1)
             t == Append(f, s[n + 1])
  <1>1. n \in 0..Len(s) /\ n + 1 \in 0..Len(s) /\ n \in Nat
    OBVIOUS
  <1>2. /\ f \in Seq(X) /\ Len(f) = n /\ \A i \in 1..n : f[i] = s[i]
        /\ g \in Seq(X) /\ Len(g) = n + 1 /\ \A i \in 1..(n + 1) : g[i] = s[i]
    BY <1>1, FrontOf, Zenon
  <1>3. s[n + 1] \in X
    OBVIOUS
  <1> HIDE DEF f, g
  <1>4. t \in Seq(X) /\ Len(t) = n + 1 /\ t[n + 1] = s[n + 1] /\ \A i \in 1..n : t[i] = f[i]
    BY <1>2, <1>3, Appended
  <1> HIDE DEF t
  <1>5. \A i \in 1..(n + 1) : i \in 1..n \/ i = n + 1
    BY <1>1
  <1>6. \A i \in 1..(n + 1) : t[i] = g[i]
    BY <1>1, <1>2, <1>4, <1>5
  <1>7. t = g
    BY <1>2, <1>4, <1>6
  <1> QED
    BY <1>3, <1>7 DEF t, f, g

LEMMA FrontIsAll ==
    ASSUME NEW X, NEW s \in Seq(X)
    PROVE  SubSeq(s, 1, Len(s)) = s
  <1> DEFINE f == SubSeq(s, 1, Len(s))
  <1>1. Len(s) \in 0..Len(s)
    OBVIOUS
  <1>2. f \in Seq(X) /\ Len(f) = Len(s) /\ \A i \in 1..Len(s) : f[i] = s[i]
    BY <1>1, FrontOf, Zenon
  <1> HIDE DEF f
  <1>3. f = s
    BY <1>2
  <1> QED
    BY <1>3 DEF f

\* A set of lists with the empty one and each of its lists with one more
\* element.
LEMMA ListInduction ==
    ASSUME NEW X, NEW T \in SUBSET Seq(X), <<>> \in T,
           \A s \in T, x \in X : Append(s, x) \in T
    PROVE  T = Seq(X)
  <1> DEFINE L == {n \in Nat : \A s \in Seq(X) : Len(s) = n => s \in T}
  <1>1. 0 \in L
    <2>1. \A s \in Seq(X) : Len(s) = 0 => s = <<>>
      OBVIOUS
    <2> QED
      BY <2>1
  <1>2. ASSUME NEW n \in L PROVE n + 1 \in L
    <2>1. ASSUME NEW s \in Seq(X), Len(s) = n + 1 PROVE s \in T
      <3>1. n \in 0..(Len(s) - 1) /\ n \in 0..Len(s)
        BY <2>1
      <3>2. SubSeq(s, 1, n) \in T
        BY <3>1, <1>2, FrontOf
      <3>3. s = Append(SubSeq(s, 1, n), s[n + 1]) /\ s[n + 1] \in X
        BY <2>1, <3>1, FrontGrows, FrontIsAll
      <3> QED
        BY <3>2, <3>3
    <2> QED
      BY <2>1
  <1>3. L = Nat
    <2> HIDE DEF L
    <2>1. L \in SUBSET Nat
      BY DEF L
    <2> QED
      BY <1>1, <1>2, <2>1, NumberInduction
  <1>4. \A s \in Seq(X) : Len(s) \in Nat
    OBVIOUS
  <1> QED
    BY <1>3, <1>4

-----------------------------------------------------------------------------
(* The recursive function.                                                  *)

\* What it is at n, given what it is below.
OnlyAt(s, S, f, n) ==
    IF n = 0 THEN <<>>
    ELSE IF s[n] \in S THEN Append(f[n - 1], s[n]) ELSE f[n - 1]

\* There is such a function.
LEMMA OnlyDefined ==
    ASSUME NEW X, NEW s \in Seq(X), NEW S
    PROVE  \A n \in 0..Len(s) : OnlyUpTo(s, S)[n] = OnlyAt(s, S, OnlyUpTo(s, S), n)
  <1> DEFINE Defines(f, k) == f = [n \in 0..k |-> OnlyAt(s, S, f, n)]
             T == {k \in Nat : \E f : Defines(f, k)}
  <1>1. 0 \in T
    <2> DEFINE f == [n \in 0..0 |-> <<>>]
    <2>1. Defines(f, 0)
      BY DEF OnlyAt
    <2> QED
      BY <2>1
  <1>2. ASSUME NEW k \in T PROVE k + 1 \in T
    <2>1. PICK f : Defines(f, k)
      BY <1>2
    <2> DEFINE g == [n \in 0..(k + 1) |->
                        IF n = k + 1 THEN OnlyAt(s, S, f, n) ELSE f[n]]
    <2>2. k \in Nat
      BY <1>2
    <2>3. \A n \in 0..(k + 1) : OnlyAt(s, S, g, n) = g[n]
      <3>1. ASSUME NEW n \in 1..(k + 1) PROVE g[n - 1] = f[n - 1] /\ n # 0
        BY <2>2
      <3>2. ASSUME NEW n \in 1..(k + 1) PROVE OnlyAt(s, S, g, n) = OnlyAt(s, S, f, n)
        BY <3>1 DEF OnlyAt
      <3>3. ASSUME NEW n \in 0..k PROVE f[n] = OnlyAt(s, S, f, n) /\ g[n] = f[n]
        <4>1. n \in 0..(k + 1) /\ n # k + 1
          BY <2>2
        <4>2. f[n] = OnlyAt(s, S, f, n)
          BY <2>1
        <4> QED
          BY <4>1, <4>2
      <3>4. g[k + 1] = OnlyAt(s, S, f, k + 1)
        BY <2>2
      <3>5. OnlyAt(s, S, g, 0) = OnlyAt(s, S, f, 0)
        BY DEF OnlyAt
      <3>6. \A n \in 0..(k + 1) : n = 0 \/ n = k + 1 \/ (n \in 1..k /\ n \in 1..(k + 1) /\ n \in 0..k)
        BY <2>2
      <3>7. 0 \in 0..k /\ k + 1 \in 1..(k + 1)
        BY <2>2
      <3> HIDE DEF g
      <3> QED
        BY <3>2, <3>3, <3>4, <3>5, <3>6, <3>7
    <2>4. Defines(g, k + 1)
      <3>1. g = [n \in 0..(k + 1) |-> g[n]]
        OBVIOUS
      <3> HIDE DEF g
      <3> QED
        BY <2>3, <3>1
    <2> QED
      BY <2>2, <2>4
  <1>3. Len(s) \in T
    <2> HIDE DEF T
    <2>1. T \in SUBSET Nat /\ Len(s) \in Nat
      BY DEF T
    <2> QED
      BY <1>1, <1>2, <2>1, NumberInduction
  <1>4. \E f : Defines(f, Len(s))
    BY <1>3
  <1>5. OnlyUpTo(s, S) = CHOOSE f : Defines(f, Len(s))
    BY DEF OnlyUpTo, OnlyAt
  <1>6. Defines(OnlyUpTo(s, S), Len(s))
    <2> HIDE DEF Defines
    <2> QED
      BY <1>4, <1>5, Zenon
  <1> QED
    BY <1>6

-----------------------------------------------------------------------------
(* Only.                                                                    *)

\* It does not depend on what comes later.
LEMMA OnlyOfFront ==
    ASSUME NEW X, NEW s \in Seq(X), NEW e \in X, NEW S
    PROVE  \A n \in 0..Len(s) : OnlyUpTo(Append(s, e), S)[n] = OnlyUpTo(s, S)[n]
  <1> DEFINE T == {n \in Nat : n \in 0..Len(s) => OnlyUpTo(Append(s, e), S)[n] = OnlyUpTo(s, S)[n]}
  <1>1. /\ Append(s, e) \in Seq(X) /\ Len(Append(s, e)) = Len(s) + 1 /\ Len(s) \in Nat
        /\ \A i \in 1..Len(s) : Append(s, e)[i] = s[i]
    BY Appended
  <1>2. /\ \A n \in 0..Len(s) : OnlyUpTo(s, S)[n] = OnlyAt(s, S, OnlyUpTo(s, S), n)
        /\ \A n \in 0..Len(s) :
              OnlyUpTo(Append(s, e), S)[n] = OnlyAt(Append(s, e), S, OnlyUpTo(Append(s, e), S), n)
    <2>1. \A n \in 0..Len(s) : n \in 0..Len(Append(s, e))
      BY <1>1
    <2> QED
      BY <1>1, <2>1, OnlyDefined
  <1>3. 0 \in T
    BY <1>1, <1>2 DEF OnlyAt
  <1>4. ASSUME NEW n \in T PROVE n + 1 \in T
    <2>1. n \in Nat /\ n + 1 \in Nat
      BY <1>4
    <2>2. ASSUME n + 1 \in 0..Len(s)
          PROVE  OnlyUpTo(Append(s, e), S)[n + 1] = OnlyUpTo(s, S)[n + 1]
      <3>1. n \in 0..Len(s) /\ n + 1 \in 1..Len(s) /\ n + 1 # 0 /\ (n + 1) - 1 = n
        BY <1>1, <2>1, <2>2
      <3>2. Append(s, e)[n + 1] = s[n + 1]
        BY <1>1, <3>1
      <3>3. OnlyUpTo(Append(s, e), S)[n] = OnlyUpTo(s, S)[n]
        BY <1>4, <3>1
      <3> QED
        BY <1>2, <2>2, <3>1, <3>2, <3>3 DEF OnlyAt
    <2> QED
      BY <2>1, <2>2
  <1>5. T = Nat
    <2> HIDE DEF T
    <2>1. T \in SUBSET Nat
      BY DEF T
    <2> QED
      BY <1>3, <1>4, <2>1, NumberInduction
  <1> QED
    BY <1>1, <1>5

\* What it is, element by element.
LEMMA OnlyEmpty == ASSUME NEW S PROVE Only(<<>>, S) = <<>>
  <1>1. <<>> \in Seq({}) /\ Len(<<>>) = 0 /\ 0 \in 0..0
    OBVIOUS
  <1>2. OnlyUpTo(<<>>, S)[0] = OnlyAt(<<>>, S, OnlyUpTo(<<>>, S), 0)
    BY <1>1, OnlyDefined
  <1> QED
    BY <1>1, <1>2 DEF Only, OnlyAt

LEMMA OnlyAppend ==
    ASSUME NEW X, NEW s \in Seq(X), NEW e \in X, NEW S
    PROVE  Only(Append(s, e), S) = IF e \in S THEN Append(Only(s, S), e) ELSE Only(s, S)
  <1> DEFINE t == Append(s, e)
             n == Len(s) + 1
  <1>1. t \in Seq(X) /\ Len(t) = n /\ Len(s) \in Nat /\ t[n] = e
    BY Appended
  <1>2. n \in 0..Len(t) /\ n # 0 /\ n - 1 = Len(s) /\ Len(s) \in 0..Len(s)
    BY <1>1
  <1>3. OnlyUpTo(t, S)[n] = OnlyAt(t, S, OnlyUpTo(t, S), n)
    BY <1>1, <1>2, OnlyDefined
  <1>4. OnlyUpTo(t, S)[Len(s)] = Only(s, S)
    BY <1>2, OnlyOfFront DEF Only
  <1>5. Only(t, S) = OnlyUpTo(t, S)[n]
    BY <1>1 DEF Only
  <1> HIDE DEF t, n
  <1>6. Only(t, S) = IF e \in S THEN Append(Only(s, S), e) ELSE Only(s, S)
    BY <1>1, <1>2, <1>3, <1>4, <1>5 DEF OnlyAt
  <1> QED
    BY <1>6 DEF t

\* The elements of a list with one more.
LEMMA AppendedElements ==
    ASSUME NEW X, NEW s \in Seq(X), NEW e \in X
    PROVE  /\ ToSet(Append(s, e)) = ToSet(s) \cup {e}
           /\ IsInjective(Append(s, e)) <=> IsInjective(s) /\ e \notin ToSet(s)
  <1> DEFINE t == Append(s, e)
  <1>1. /\ t \in Seq(X) /\ Len(t) = Len(s) + 1 /\ Len(s) \in Nat
        /\ t[Len(s) + 1] = e /\ \A i \in 1..Len(s) : t[i] = s[i]
    BY Appended
  <1> HIDE DEF t
  <1>2. /\ DOMAIN t = 1..(Len(s) + 1) /\ DOMAIN s = 1..Len(s)
        /\ \A i \in 1..(Len(s) + 1) : i \in 1..Len(s) \/ i = Len(s) + 1
        /\ \A i \in 1..Len(s) : i \in 1..(Len(s) + 1) /\ i # Len(s) + 1
        /\ Len(s) + 1 \in 1..(Len(s) + 1)
    BY <1>1
  <1>3. ToSet(t) = ToSet(s) \cup {e}
    BY <1>1, <1>2 DEF ToSet
  <1>4. IsInjective(t) => IsInjective(s) /\ e \notin ToSet(s)
    BY <1>1, <1>2 DEF IsInjective, ToSet
  <1>5. IsInjective(s) /\ e \notin ToSet(s) => IsInjective(t)
    BY <1>1, <1>2 DEF IsInjective, ToSet
  <1> QED
    BY <1>3, <1>4, <1>5 DEF t

\* It has the elements of the list that are in S, and each as often.
LEMMA OnlyElements ==
    ASSUME NEW X, NEW s \in Seq(X), NEW S
    PROVE  /\ Only(s, S) \in Seq(X)
           /\ ToSet(Only(s, S)) = ToSet(s) \cap S
           /\ IsInjective(s) => IsInjective(Only(s, S))
  <1> DEFINE Good(l) == /\ Only(l, S) \in Seq(X)
                        /\ ToSet(Only(l, S)) = ToSet(l) \cap S
                        /\ IsInjective(l) => IsInjective(Only(l, S))
             T == {l \in Seq(X) : Good(l)}
  <1>1. <<>> \in T
    <2>1. <<>> \in Seq(X) /\ DOMAIN <<>> = {}
      OBVIOUS
    <2>2. ToSet(<<>>) = {} /\ IsInjective(<<>>)
      BY <2>1 DEF ToSet, IsInjective
    <2> QED
      BY <2>1, <2>2, OnlyEmpty
  <1>2. ASSUME NEW l \in T, NEW e \in X PROVE Append(l, e) \in T
    <2>1. l \in Seq(X) /\ Good(l) /\ Append(l, e) \in Seq(X)
      BY <1>2
    <2>2. CASE e \in S
      <3>1. Only(Append(l, e), S) = Append(Only(l, S), e)
        BY <2>1, <2>2, OnlyAppend
      <3>2. /\ ToSet(Append(l, e)) = ToSet(l) \cup {e}
            /\ IsInjective(Append(l, e)) => IsInjective(l) /\ e \notin ToSet(l)
        BY <2>1, AppendedElements
      <3>3. /\ ToSet(Append(Only(l, S), e)) = ToSet(Only(l, S)) \cup {e}
            /\ IsInjective(Only(l, S)) /\ e \notin ToSet(Only(l, S)) => IsInjective(Append(Only(l, S), e))
            /\ Append(Only(l, S), e) \in Seq(X)
        BY <2>1, AppendedElements
      <3> QED
        BY <2>1, <2>2, <3>1, <3>2, <3>3
    <2>3. CASE e \notin S
      <3>1. Only(Append(l, e), S) = Only(l, S)
        BY <2>1, <2>3, OnlyAppend
      <3>2. /\ ToSet(Append(l, e)) = ToSet(l) \cup {e}
            /\ IsInjective(Append(l, e)) => IsInjective(l)
        BY <2>1, AppendedElements
      <3> QED
        BY <2>1, <2>3, <3>1, <3>2
    <2> QED
      BY <2>2, <2>3
  <1>3. T = Seq(X)
    <2> HIDE DEF T
    <2>1. T \in SUBSET Seq(X)
      BY DEF T
    <2> QED
      BY <1>1, <1>2, <2>1, ListInduction
  <1> QED
    BY <1>3

\* It is no longer than the list.
LEMMA OnlyLength ==
    ASSUME NEW X, NEW s \in Seq(X), NEW S
    PROVE  Len(Only(s, S)) \in Nat /\ Len(Only(s, S)) <= Len(s)
  <1> DEFINE T == {l \in Seq(X) : Len(Only(l, S)) <= Len(l)}
  <1>1. <<>> \in T
    BY OnlyEmpty
  <1>2. ASSUME NEW l \in T, NEW e \in X PROVE Append(l, e) \in T
    <2>1. /\ Only(l, S) \in Seq(X) /\ l \in Seq(X) /\ Len(Only(l, S)) <= Len(l)
          /\ Only(Append(l, e), S) = IF e \in S THEN Append(Only(l, S), e) ELSE Only(l, S)
      BY <1>2, OnlyElements, OnlyAppend
    <2>2. /\ Append(l, e) \in Seq(X) /\ Len(Append(l, e)) = Len(l) + 1 /\ Len(l) \in Nat
          /\ Len(Append(Only(l, S), e)) = Len(Only(l, S)) + 1 /\ Len(Only(l, S)) \in Nat
      BY <2>1, Appended
    <2> QED
      BY <2>1, <2>2
  <1>3. T = Seq(X)
    <2> HIDE DEF T
    <2>1. T \in SUBSET Seq(X)
      BY DEF T
    <2> QED
      BY <1>1, <1>2, <2>1, ListInduction
  <1>4. Only(s, S) \in Seq(X)
    BY OnlyElements
  <1> QED
    BY <1>3, <1>4

\* It keeps the order of the elements, whatever relation they are in.
Ordered(s, R) == \A i, j \in 1..Len(s) : i < j => <<s[i], s[j]>> \in R

LEMMA OrderedAppend ==
    ASSUME NEW X, NEW s \in Seq(X), NEW x \in X, NEW R
    PROVE  Ordered(Append(s, x), R) <=> Ordered(s, R) /\ \A y \in ToSet(s) : <<y, x>> \in R
  <1> DEFINE t == Append(s, x)
             n == Len(s) + 1
  <1>1. /\ t \in Seq(X) /\ Len(t) = n /\ n - 1 = Len(s) /\ Len(s) \in Nat /\ t[n] = x
        /\ \A i \in 1..Len(s) : t[i] = s[i]
    BY Appended
  <1>2. ToSet(s) = {s[i] : i \in 1..Len(s)}
    BY DEF ToSet
  <1> HIDE DEF t
  <1>3. ASSUME Ordered(t, R) PROVE Ordered(s, R) /\ \A y \in ToSet(s) : <<y, x>> \in R
    <2>1. ASSUME NEW i \in 1..Len(s), NEW j \in 1..Len(s), i < j PROVE <<s[i], s[j]>> \in R
      <3>1. i \in 1..Len(t) /\ j \in 1..Len(t)
        BY <1>1
      <3> QED
        BY <1>1, <1>3, <2>1, <3>1 DEF Ordered
    <2>2. ASSUME NEW i \in 1..Len(s) PROVE <<s[i], x>> \in R
      <3>1. i \in 1..Len(t) /\ n \in 1..Len(t) /\ i < n
        BY <1>1
      <3>2. <<t[i], t[n]>> \in R
        BY <1>3, <3>1 DEF Ordered
      <3> QED
        BY <1>1, <3>2
    <2> QED
      BY <1>2, <2>1, <2>2 DEF Ordered
  <1>4. ASSUME Ordered(s, R), \A y \in ToSet(s) : <<y, x>> \in R PROVE Ordered(t, R)
    <2>1. ASSUME NEW i \in 1..Len(t), NEW j \in 1..Len(t), i < j PROVE <<t[i], t[j]>> \in R
      <3>1. i \in 1..Len(s) /\ t[i] = s[i] /\ s[i] \in ToSet(s)
        BY <1>1, <1>2, <2>1
      <3>2. CASE j = n
        BY <1>1, <1>4, <3>1, <3>2
      <3>3. CASE j # n
        <4>1. j \in 1..Len(s) /\ t[j] = s[j]
          BY <1>1, <3>3
        <4> QED
          BY <1>4, <2>1, <3>1, <4>1 DEF Ordered
      <3> QED
        BY <3>2, <3>3
    <2> QED
      BY <2>1 DEF Ordered
  <1> QED
    BY <1>3, <1>4 DEF t

LEMMA OnlyOrdered ==
    ASSUME NEW X, NEW s \in Seq(X), NEW S, NEW R, Ordered(s, R)
    PROVE  Ordered(Only(s, S), R)
  <1> DEFINE Good(l) == Ordered(l, R) => Ordered(Only(l, S), R)
             T == {l \in Seq(X) : Good(l)}
  <1>1. <<>> \in T
    <2>1. <<>> \in Seq(X) /\ Len(<<>>) = 0
      OBVIOUS
    <2>2. Good(<<>>)
      BY OnlyEmpty
    <2> QED
      BY <2>1, <2>2
  <1>2. ASSUME NEW l \in T, NEW x \in X PROVE Append(l, x) \in T
    <2>1. l \in Seq(X) /\ Good(l) /\ Append(l, x) \in Seq(X)
      BY <1>2
    <2>2. /\ Only(l, S) \in Seq(X) /\ ToSet(Only(l, S)) = ToSet(l) \cap S
      BY <2>1, OnlyElements
    <2>3. Only(Append(l, x), S) = IF x \in S THEN Append(Only(l, S), x) ELSE Only(l, S)
      BY <2>1, OnlyAppend
    <2>4. ASSUME Ordered(Append(l, x), R) PROVE Ordered(Only(Append(l, x), S), R)
      <3>1. Ordered(l, R) /\ \A y \in ToSet(l) : <<y, x>> \in R
        BY <2>1, <2>4, OrderedAppend
      <3>2. Ordered(Only(l, S), R) /\ \A y \in ToSet(Only(l, S)) : <<y, x>> \in R
        BY <2>1, <2>2, <3>1
      <3>3. Ordered(Append(Only(l, S), x), R)
        BY <2>2, <3>2, OrderedAppend
      <3> QED
        BY <2>3, <3>2, <3>3
    <2> QED
      BY <2>1, <2>4
  <1>3. T = Seq(X)
    <2> HIDE DEF T
    <2>1. T \in SUBSET Seq(X)
      BY DEF T
    <2> QED
      BY <1>1, <1>2, <2>1, ListInduction
  <1> QED
    BY <1>3

-----------------------------------------------------------------------------
(* FlattenSeq of SequencesExt.                                              *)

\* What it is at i, given what it is below.
FlatAt(ss, f, i) == IF i = 1 THEN ss[i] ELSE f[i - 1] \o ss[i]

\* There is the function that its definition chooses.
LEMMA FlattenDefined ==
    ASSUME NEW X, NEW ss \in Seq(X), Len(ss) # 0
    PROVE  \E f : f = [i \in 1..Len(ss) |-> FlatAt(ss, f, i)] /\ FlattenSeq(ss) = f[Len(ss)]
  <1> DEFINE Defines(f, k) == f = [i \in 1..k |-> FlatAt(ss, f, i)]
             T == {k \in Nat : \E f : Defines(f, k)}
  <1>1. 0 \in T
    <2> DEFINE f == [i \in 1..0 |-> <<>>]
    <2>1. Defines(f, 0)
      OBVIOUS
    <2> QED
      BY <2>1
  <1>2. ASSUME NEW k \in T PROVE k + 1 \in T
    <2>1. PICK f : Defines(f, k)
      BY <1>2
    <2> DEFINE g == [i \in 1..(k + 1) |-> IF i = k + 1 THEN FlatAt(ss, f, i) ELSE f[i]]
    <2>2. k \in Nat
      BY <1>2
    <2>3. ASSUME NEW i \in 1..(k + 1) PROVE FlatAt(ss, g, i) = g[i]
      <3>1. i = 1 \/ (i - 1 \in 1..k /\ i - 1 # k + 1 /\ i - 1 \in 1..(k + 1))
        BY <2>2
      <3>2. i # 1 => g[i - 1] = f[i - 1]
        BY <3>1
      <3>3. FlatAt(ss, g, i) = FlatAt(ss, f, i)
        <4> HIDE DEF g
        <4> QED
          BY <3>2 DEF FlatAt
      <3>4. i # k + 1 => i \in 1..k
        BY <2>2
      <3>5. i # k + 1 => f[i] = FlatAt(ss, f, i)
        BY <2>1, <3>4
      <3> QED
        BY <3>3, <3>5
    <2>4. Defines(g, k + 1)
      <3>1. g = [i \in 1..(k + 1) |-> g[i]]
        OBVIOUS
      <3> HIDE DEF g
      <3> QED
        BY <2>3, <3>1
    <2>5. k + 1 \in Nat /\ \E h : Defines(h, k + 1)
      <3> HIDE DEF Defines, g
      <3> QED
        BY <2>2, <2>4
    <2> QED
      BY <2>5
  <1>3. Len(ss) \in T
    <2> HIDE DEF T
    <2>1. T \in SUBSET Nat /\ Len(ss) \in Nat
      BY DEF T
    <2> QED
      BY <1>1, <1>2, <2>1, NumberInduction
  <1>4. \E f : Defines(f, Len(ss))
    BY <1>3
  <1> DEFINE c == CHOOSE f : Defines(f, Len(ss))
  <1>5. FlattenSeq(ss) = c[Len(ss)]
    BY DEF FlattenSeq, FlatAt
  <1>6. Defines(c, Len(ss))
    <2> HIDE DEF Defines
    <2> QED
      BY <1>4, Zenon
  <1> HIDE DEF c
  <1> QED
    BY <1>5, <1>6

\* It has elements of the lists alone.
LEMMA FlattenType ==
    ASSUME NEW X, NEW ss \in Seq(Seq(X))
    PROVE  FlattenSeq(ss) \in Seq(X)
  <1> DEFINE From(s) == s \in Seq(X)
  <1>1. CASE Len(ss) = 0
    <2>1. FlattenSeq(ss) = <<>> /\ <<>> \in Seq(X)
      BY <1>1 DEF FlattenSeq
    <2> QED
      BY <2>1
  <1>2. CASE Len(ss) # 0
    <2>1. PICK f : f = [i \in 1..Len(ss) |-> FlatAt(ss, f, i)] /\ FlattenSeq(ss) = f[Len(ss)]
      BY <1>2, FlattenDefined
    <2>2. Len(ss) \in Nat /\ DOMAIN ss = 1..Len(ss) /\ \A i \in 1..Len(ss) : ss[i] \in Seq(X)
      OBVIOUS
    <2>3. \A i \in 1..Len(ss) : f[i] = FlatAt(ss, f, i)
      <3>1. \A i \in 1..Len(ss) : [j \in 1..Len(ss) |-> FlatAt(ss, f, j)][i] = FlatAt(ss, f, i)
        OBVIOUS
      <3> QED
        BY <2>1, <3>1, Zenon
    <2> DEFINE T == {n \in Nat : n \in 1..Len(ss) => From(f[n])}
    <2>4. 0 \in T
      OBVIOUS
    <2>5. ASSUME NEW n \in T, n + 1 \in 1..Len(ss) PROVE From(f[n + 1])
      <3>1. CASE n = 0
        <4>1. f[1] = ss[1] /\ 1 \in DOMAIN ss /\ ss[1] \in Seq(X) /\ n + 1 = 1
          BY <2>2, <2>3, <2>5, <3>1 DEF FlatAt
        <4>2. From(ss[1])
          BY <4>1
        <4> HIDE DEF From
        <4> QED
          BY <4>1, <4>2
      <3>2. CASE n # 0
        <4>1. n \in 1..Len(ss) /\ n + 1 # 1 /\ (n + 1) - 1 = n
          BY <2>2, <2>5, <3>2
        <4>2. f[n + 1] = f[n] \o ss[n + 1] /\ From(f[n]) /\ n + 1 \in DOMAIN ss /\ ss[n + 1] \in Seq(X)
          BY <2>2, <2>3, <2>5, <4>1 DEF FlatAt
        <4> QED
          BY <4>2
      <3> QED
        BY <3>1, <3>2
    <2>6. T = Nat
      <3> HIDE DEF From
      <3>1. ASSUME NEW n \in T PROVE n + 1 \in T
        <4>1. n + 1 \in Nat /\ (n + 1 \in 1..Len(ss) => From(f[n + 1]))
          <5>1. n + 1 \in Nat
            OBVIOUS
          <5> HIDE DEF T
          <5> QED
            BY <2>5, <5>1
        <4> HIDE DEF From
        <4> QED
          BY <4>1
      <3>2. T \in SUBSET Nat
        OBVIOUS
      <3> HIDE DEF T
      <3> QED
        BY <2>4, <3>1, <3>2, NumberInduction
    <2>7. Len(ss) \in T /\ Len(ss) \in 1..Len(ss)
      <3> HIDE DEF T
      <3> QED
        BY <1>2, <2>2, <2>6
    <2>8. From(f[Len(ss)])
      <3> HIDE DEF From
      <3> QED
        BY <2>7
    <2> QED
      BY <2>1, <2>8
  <1> QED
    BY <1>1, <1>2
-----------------------------------------------------------------------------
(* Recursion over numbers, with the step as a function.                     *)

Recurs(f, v, G, N) == f[0] = v /\ \A k \in 1..N : f[k] = G[<<k, f[k - 1]>>]

LEMMA Recursion ==
    ASSUME NEW V, NEW v \in V, NEW G \in [Nat \X V -> V], NEW N \in Nat
    PROVE  \E f \in [0..N -> V] : Recurs(f, v, G, N)
  <1> DEFINE At(f, k) == IF k = 0 THEN v ELSE G[<<k, f[k - 1]>>]
             T == {m \in Nat : \E f \in [0..m -> V] : \A k \in 0..m : f[k] = At(f, k)}
  <1>1. 0 \in T
    <2> DEFINE f == [k \in 0..0 |-> v]
    <2>1. f \in [0..0 -> V] /\ \A k \in 0..0 : f[k] = At(f, k)
      OBVIOUS
    <2> QED
      BY <2>1
  <1>2. ASSUME NEW m \in T PROVE m + 1 \in T
    <2>0. m \in Nat
      BY <1>2
    <2>1. PICK f \in [0..m -> V] : \A k \in 0..m : f[k] = At(f, k)
      BY <1>2
    <2> DEFINE x == G[<<m + 1, f[m]>>]
               g == [k \in 0..(m + 1) |-> IF k = m + 1 THEN x ELSE f[k]]
    <2>2. x \in V
      BY <2>0, <2>1
    <2>3. g \in [0..(m + 1) -> V] /\ g[m + 1] = x /\ \A k \in 0..m : g[k] = f[k]
      BY <2>0, <2>1, <2>2
    <2>4. (m + 1) - 1 = m /\ m + 1 # 0 /\ m \in 0..m
      BY <2>0
    <2> HIDE DEF g
    <2>5. g[m + 1] = At(g, m + 1)
      BY <2>3, <2>4
    <2>6. ASSUME NEW k \in 0..m PROVE g[k] = At(g, k)
      <3>1. CASE k = 0
        BY <2>1, <2>3, <3>1
      <3>2. CASE k # 0
        <4>1. k - 1 \in 0..m
          BY <2>0, <3>2
        <4>2. g[k] = f[k] /\ g[k - 1] = f[k - 1] /\ f[k] = At(f, k)
          BY <2>1, <2>3, <4>1
        <4> QED
          BY <4>2
      <3> QED
        BY <3>1, <3>2
    <2>7. \A k \in 0..(m + 1) : k \in 0..m \/ k = m + 1
      BY <2>0
    <2> HIDE DEF At
    <2>8. \A k \in 0..(m + 1) : g[k] = At(g, k)
      BY <2>5, <2>6, <2>7
    <2>9. m + 1 \in Nat
      BY <2>0
    <2> QED
      BY <2>3, <2>8, <2>9
  <1>3. N \in T
    <2> HIDE DEF T
    <2>1. T \in SUBSET Nat
      BY DEF T
    <2> QED
      BY <1>1, <1>2, <2>1, NumberInduction
  <1>4. PICK f \in [0..N -> V] : \A k \in 0..N : f[k] = At(f, k)
    BY <1>3
  <1>5. Recurs(f, v, G, N)
    <2>1. f[0] = v
      <3>1. 0 \in 0..N
        OBVIOUS
      <3>2. f[0] = At(f, 0)
        BY <1>4, <3>1
      <3> QED
        BY <3>2
    <2>2. ASSUME NEW k \in 1..N PROVE f[k] = G[<<k, f[k - 1]>>]
      <3>1. k \in 0..N /\ k # 0
        OBVIOUS
      <3>2. f[k] = At(f, k)
        BY <1>4, <3>1
      <3> QED
        BY <3>1, <3>2
    <2> QED
      BY <2>1, <2>2 DEF Recurs
  <1> QED
    BY <1>5

-----------------------------------------------------------------------------
(* Sums.                                                                    *)

\* For each k: f[1] + ... + f[k].
SumTo(f, n) == LET sum[k \in 0..n] == IF k = 0 THEN 0 ELSE sum[k - 1] + f[k]
               IN  sum

LEMMA SumDefined ==
    ASSUME NEW n \in Nat, NEW f \in [1..n -> Nat]
    PROVE  /\ SumTo(f, n) \in [0..n -> Nat] /\ SumTo(f, n)[0] = 0
           /\ \A k \in 1..n : SumTo(f, n)[k] = SumTo(f, n)[k - 1] + f[k]
  <1> DEFINE G == [s \in Nat \X Nat |-> s[2] + (IF s[1] \in 1..n THEN f[s[1]] ELSE 0)]
             Defines(s) == s = [k \in 0..n |-> IF k = 0 THEN 0 ELSE s[k - 1] + f[k]]
  <1>1. G \in [Nat \X Nat -> Nat] /\ 0 \in Nat
    OBVIOUS
  <1>2. \A k \in 1..n, x \in Nat : G[<<k, x>>] = x + f[k]
    OBVIOUS
  <1> HIDE DEF G
  <1>3. PICK s \in [0..n -> Nat] : Recurs(s, 0, G, n)
    BY <1>1, Recursion
  <1>4. \A k \in 0..n : s[k] = IF k = 0 THEN 0 ELSE s[k - 1] + f[k]
    <2>1. ASSUME NEW k \in 0..n, k # 0 PROVE s[k] = s[k - 1] + f[k]
      <3>1. k \in 1..n /\ s[k - 1] \in Nat
        BY <2>1
      <3> QED
        BY <1>2, <1>3, <3>1 DEF Recurs
    <2> QED
      BY <1>3, <2>1 DEF Recurs
  <1>5. Defines(s)
    BY <1>4
  <1>6. SumTo(f, n) = CHOOSE t : Defines(t)
    BY DEF SumTo
  <1>7. Defines(SumTo(f, n))
    <2> HIDE DEF Defines
    <2> QED
      BY <1>5, <1>6, Zenon
  <1>8. \A k \in 0..n : SumTo(f, n)[k] = s[k]
    <2> DEFINE t == SumTo(f, n)
               T == {k \in Nat : k \in 0..n => t[k] = s[k]}
    <2>0. \A k \in 0..n : t[k] = IF k = 0 THEN 0 ELSE t[k - 1] + f[k]
      BY <1>7
    <2> HIDE DEF t
    <2>1. 0 \in T
      BY <1>4, <2>0
    <2>2. ASSUME NEW k \in T PROVE k + 1 \in T
      <3>1. CASE k + 1 \in 0..n
        <4>1. k \in 0..n /\ k + 1 # 0 /\ (k + 1) - 1 = k
          BY <3>1
        <4> QED
          BY <1>4, <2>0, <3>1, <4>1
      <3> QED
        BY <3>1
    <2>3. T = Nat
      <3> HIDE DEF T
      <3>1. T \in SUBSET Nat
        BY DEF T
      <3> QED
        BY <2>1, <2>2, <3>1, NumberInduction
    <2> QED
      BY <2>3 DEF t
  <1>9. SumTo(f, n) = s
    <2>1. SumTo(f, n) = [k \in 0..n |-> SumTo(f, n)[k]]
      BY <1>7
    <2> QED
      BY <1>8, <2>1
  <1> QED
    BY <1>4, <1>9

Sum(f, n) == SumTo(f, n)[n]

\* A sum of numbers that are at least, or at most, c.
LEMMA SumBounds ==
    ASSUME NEW n \in Nat, NEW f \in [1..n -> Nat], NEW c \in Nat
    PROVE  /\ Sum(f, n) \in Nat
           /\ (\A w \in 1..n : f[w] >= c) => Sum(f, n) >= n * c
           /\ (\A w \in 1..n : f[w] <= c) => Sum(f, n) <= n * c
  <1> DEFINE s == SumTo(f, n)
             T == {k \in Nat : k \in 0..n =>
                      /\ (\A w \in 1..n : f[w] >= c) => s[k] >= k * c
                      /\ (\A w \in 1..n : f[w] <= c) => s[k] <= k * c}
  <1>1. s \in [0..n -> Nat] /\ s[0] = 0 /\ \A k \in 1..n : s[k] = s[k - 1] + f[k]
    BY SumDefined
  <1> HIDE DEF s
  <1>2. 0 \in T
    BY <1>1
  <1>3. ASSUME NEW k \in T PROVE k + 1 \in T
    <2>1. CASE k + 1 \in 0..n
      <3>1. k \in 0..n /\ k + 1 \in 1..n /\ (k + 1) - 1 = k /\ k \in Nat
        BY <2>1
      <3>2. s[k + 1] = s[k] + f[k + 1] /\ s[k] \in Nat /\ f[k + 1] \in Nat
        BY <1>1, <3>1
      <3>3. (k + 1) * c = k * c + c /\ k * c \in Nat
        BY <3>1
      <3>4. /\ (\A w \in 1..n : f[w] >= c) => s[k] >= k * c
            /\ (\A w \in 1..n : f[w] <= c) => s[k] <= k * c
        BY <1>3, <3>1
      <3>5. /\ (\A w \in 1..n : f[w] >= c) => s[k + 1] >= k * c + c
            /\ (\A w \in 1..n : f[w] <= c) => s[k + 1] <= k * c + c
        BY <3>1, <3>2, <3>3, <3>4
      <3> QED
        BY <3>1, <3>3, <3>5
    <2> QED
      BY <2>1
  <1>4. T = Nat
    <2> HIDE DEF T
    <2>1. T \in SUBSET Nat
      BY DEF T
    <2> QED
      BY <1>2, <1>3, <2>1, NumberInduction
  <1>5. n \in T /\ n \in 0..n
    BY <1>4
  <1> QED
    BY <1>1, <1>5 DEF Sum, s

\* A sum grows by what one of its parts grows.
LEMMA SumAdds ==
    ASSUME NEW n \in Nat, NEW f \in [1..n -> Nat], NEW v \in 1..n, NEW x \in Nat,
           NEW g \in [1..n -> Nat], g[v] = f[v] + x, \A w \in 1..n : w # v => g[w] = f[w]
    PROVE  Sum(g, n) = Sum(f, n) + x
  <1> DEFINE s == SumTo(f, n)
             t == SumTo(g, n)
             T == {k \in Nat : k \in 0..n => t[k] = IF k < v THEN s[k] ELSE s[k] + x}
  <1>1. s \in [0..n -> Nat] /\ s[0] = 0 /\ \A k \in 1..n : s[k] = s[k - 1] + f[k]
    BY SumDefined
  <1>2. t \in [0..n -> Nat] /\ t[0] = 0 /\ \A k \in 1..n : t[k] = t[k - 1] + g[k]
    BY SumDefined
  <1> HIDE DEF s, t
  <1>3. 0 \in T
    BY <1>1, <1>2
  <1>4. ASSUME NEW k \in T PROVE k + 1 \in T
    <2>1. CASE k + 1 \in 0..n
      <3>1. k \in 0..n /\ k + 1 \in 1..n /\ (k + 1) - 1 = k /\ k \in Nat
        BY <2>1
      <3>2. /\ s[k + 1] = s[k] + f[k + 1] /\ s[k] \in Nat /\ f[k + 1] \in Nat
            /\ t[k + 1] = t[k] + g[k + 1] /\ t[k] \in Nat /\ g[k + 1] \in Nat
        BY <1>1, <1>2, <3>1
      <3>3. t[k] = IF k < v THEN s[k] ELSE s[k] + x
        BY <1>4, <3>1
      <3>4. t[k + 1] = IF k + 1 < v THEN s[k + 1] ELSE s[k + 1] + x
        <4>1. CASE k + 1 = v
          <5>1. t[k] = s[k] /\ g[k + 1] = f[k + 1] + x
            <6>1. k < v /\ ~(k + 1 < v)
              BY <3>1, <4>1
            <6> QED
              BY <3>3, <4>1, <6>1
          <5> QED
            BY <3>2, <4>1, <5>1
        <4>2. CASE k + 1 # v
          <5>1. g[k + 1] = f[k + 1] /\ (k < v <=> k + 1 < v)
            BY <3>1, <4>2
          <5>2. CASE k < v
            <6>1. t[k] = s[k]
              BY <3>3, <5>2
            <6> QED
              BY <3>2, <5>1, <5>2, <6>1
          <5>3. CASE ~(k < v)
            <6>1. t[k] = s[k] + x
              BY <3>3, <5>3
            <6>2. ~(k + 1 < v)
              BY <5>1, <5>3
            <6>3. t[k + 1] = s[k + 1] + x
              <7> DEFINE y == s[k]
                         z == f[k + 1]
              <7>1. y \in Nat /\ z \in Nat
                BY <3>2
              <7>2. t[k + 1] = (y + x) + z /\ s[k + 1] = y + z
                BY <3>2, <5>1, <6>1
              <7> HIDE DEF y, z
              <7>3. (y + x) + z = (y + z) + x
                BY <7>1
              <7> QED
                BY <7>2, <7>3
            <6> QED
              BY <6>2, <6>3
          <5> QED
            BY <5>2, <5>3
        <4> QED
          BY <4>1, <4>2
      <3> QED
        BY <3>1, <3>4
    <2> QED
      BY <2>1
  <1>5. T = Nat
    <2> HIDE DEF T
    <2>1. T \in SUBSET Nat
      BY DEF T
    <2> QED
      BY <1>3, <1>4, <2>1, NumberInduction
  <1>6. n \in T /\ n \in 0..n
    BY <1>5
  <1>7. t[n] = s[n] + x
    BY <1>6
  <1> QED
    BY <1>7 DEF Sum, s, t

\* A list of numbers has a greatest one.
LEMMA GreatestExists ==
    ASSUME NEW n \in Nat \ {0}, NEW f \in [1..n -> Nat]
    PROVE  \E v \in 1..n : \A w \in 1..n : f[w] <= f[v]
  <1> DEFINE T == {k \in Nat : k \in 0..(n - 1) =>
                      \E v \in 1..(k + 1) : \A w \in 1..(k + 1) : f[w] <= f[v]}
  <1>0. \A w \in 1..n : f[w] \in Nat
    OBVIOUS
  <1>1. 0 \in T
    <2>1. \A w \in 1..(0 + 1) : f[w] <= f[1]
      <3>1. \A w \in 1..(0 + 1) : w = 1
        OBVIOUS
      <3>2. 1 \in 1..n /\ f[1] \in Nat
        OBVIOUS
      <3> QED
        BY <3>1, <3>2
    <2>2. 1 \in 1..(0 + 1)
      OBVIOUS
    <2> QED
      BY <2>1, <2>2
  <1>2. ASSUME NEW k \in T PROVE k + 1 \in T
    <2>1. CASE k + 1 \in 0..(n - 1)
      <3>1. k \in Nat /\ k \in 0..(n - 1) /\ k + 2 \in 1..n
        BY <2>1
      <3>2. PICK v \in 1..(k + 1) : \A w \in 1..(k + 1) : f[w] <= f[v]
        BY <1>2, <3>1
      <3>3. v \in 1..n /\ f[v] \in Nat /\ f[k + 2] \in Nat
        BY <1>0, <3>1
      <3>4. \A w \in 1..((k + 1) + 1) : w \in 1..(k + 1) \/ w = k + 2
        BY <3>1
      <3>5. v \in 1..((k + 1) + 1) /\ k + 2 \in 1..((k + 1) + 1)
        BY <3>1
      <3>6. CASE f[v] >= f[k + 2]
        <4>1. \A w \in 1..((k + 1) + 1) : f[w] <= f[v]
          BY <3>2, <3>3, <3>4, <3>6
        <4> QED
          BY <3>5, <4>1
      <3>7. CASE f[v] < f[k + 2]
        <4>1. \A w \in 1..((k + 1) + 1) : f[w] <= f[k + 2]
          <5>1. ASSUME NEW w \in 1..(k + 1) PROVE f[w] <= f[k + 2]
            <6>1. f[w] \in Nat /\ f[w] <= f[v]
              BY <1>0, <3>1, <3>2
            <6> QED
              BY <3>3, <3>7, <6>1
          <5>2. f[k + 2] <= f[k + 2]
            BY <3>3
          <5> QED
            BY <3>4, <5>1, <5>2
        <4> QED
          BY <3>5, <4>1
      <3> QED
        BY <3>3, <3>6, <3>7
    <2> QED
      BY <2>1
  <1>3. T = Nat
    <2> HIDE DEF T
    <2>1. T \in SUBSET Nat
      BY DEF T
    <2> QED
      BY <1>1, <1>2, <2>1, NumberInduction
  <1>4. n - 1 \in Nat /\ n - 1 \in 0..(n - 1) /\ (n - 1) + 1 = n
    OBVIOUS
  <1>5. n - 1 \in T
    BY <1>3, <1>4
  <1>6. \E v \in 1..((n - 1) + 1) : \A w \in 1..((n - 1) + 1) : f[w] <= f[v]
    BY <1>4, <1>5
  <1> QED
    BY <1>4, <1>6
=============================================================================
