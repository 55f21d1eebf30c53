------------------------------- MODULE Tallies -------------------------------
(***************************************************************************)
(* Sums as cardinalities.  The sum of f over a finite set is the number of *)
(* its units, pairs of an element and a position up to its value; so what  *)
(* the counters of Admission and CacheBudget add up can be proved from the *)
(* cardinalities of unions, without an induction over the set.             *)
(* And least and greatest numbers of sets, with the induction they give.   *)
(***************************************************************************)
EXTENDS Integers, FiniteSets, FiniteSetTheorems, WellFoundedInduction, TLAPS

Units(x, n) == {x} \X (1 .. n)
Tally(S, f) == UNION {Units(x, f[x]) : x \in S}

\* The units of one element.
LEMMA UnitsCounted ==
    ASSUME NEW x, NEW n \in Nat
    PROVE  IsFiniteSet(Units(x, n)) /\ Cardinality(Units(x, n)) = n
<1>1. IsFiniteSet({x}) /\ Cardinality({x}) = 1
  BY FS_Singleton
<1>2. IsFiniteSet(1 .. n) /\ Cardinality(1 .. n) = n
  <2>1. IsFiniteSet(1 .. n) /\ Cardinality(1 .. n) = IF 1 > n THEN 0 ELSE n - 1 + 1
    BY FS_Interval
  <2>2. (IF 1 > n THEN 0 ELSE n - 1 + 1) = n
    OBVIOUS
  <2> QED
    BY <2>1, <2>2
<1>3. IsFiniteSet(Units(x, n)) /\ Cardinality(Units(x, n)) = Cardinality({x}) * Cardinality(1 .. n)
  BY <1>1, <1>2, FS_Product DEF Units
<1> QED
  BY <1>1, <1>2, <1>3

\* The units of one element beside those of others.
LEMMA TallyJoined ==
    ASSUME NEW S, NEW f, NEW x, IsFiniteSet(Tally(S, f)), x \notin S, NEW n \in Nat
    PROVE  Cardinality(Tally(S, f) \cup Units(x, n)) = Cardinality(Tally(S, f)) + n
<1> DEFINE X == Units(x, n)
           Y == Tally(S, f)
<1>1. Y \cap X = {}
  BY DEF Tally, Units
<1> HIDE DEF X, Y
<1>2. IsFiniteSet(X) /\ Cardinality(X) = n
  BY UnitsCounted DEF X
<1>3. IsFiniteSet(Y) /\ Cardinality(Y) \in Nat
  BY FS_CardinalityType DEF Y
<1>4. Cardinality(Y \cap X) = 0
  BY <1>1, FS_EmptySet
<1>5. Cardinality(Y \cup X) = Cardinality(Y) + Cardinality(X) - Cardinality(Y \cap X)
  BY <1>2, <1>3, FS_Union
<1>6. Cardinality(Y \cup X) = Cardinality(Y) + n
  BY <1>2, <1>3, <1>4, <1>5
<1> QED
  BY <1>6 DEF X, Y

\* One element more, the values of the others unchanged.
LEMMA TallyAdded ==
    ASSUME NEW S, NEW x, x \notin S, NEW f, NEW g, NEW n \in Nat, n = g[x],
           \A y \in S : g[y] = f[y], IsFiniteSet(Tally(S, f))
    PROVE  Cardinality(Tally(S \cup {x}, g)) = Cardinality(Tally(S, f)) + n
<1>1. Tally(S \cup {x}, g) = Tally(S, f) \cup Units(x, n)
  BY DEF Tally
<1>2. Cardinality(Tally(S, f) \cup Units(x, n)) = Cardinality(Tally(S, f)) + n
  BY TallyJoined
<1> QED
  BY <1>1, <1>2

LEMMA TallyAddedFinite ==
    ASSUME NEW S, NEW x, NEW f, NEW g, g[x] \in Nat,
           \A y \in S : g[y] = f[y], IsFiniteSet(Tally(S, f))
    PROVE  IsFiniteSet(Tally(S \cup {x}, g))
<1>1. Tally(S \cup {x}, g) = Tally(S, f) \cup Units(x, g[x])
  BY DEF Tally
<1>2. IsFiniteSet(Tally(S, f) \cup Units(x, g[x]))
  BY UnitsCounted, FS_Union
<1> QED
  BY <1>1, <1>2

\* One element less.
LEMMA TallyRemovedFinite ==
    ASSUME NEW S, NEW x, NEW f, NEW g,
           \A y \in S \ {x} : g[y] = f[y], IsFiniteSet(Tally(S, f))
    PROVE  IsFiniteSet(Tally(S \ {x}, g))
<1>1. Tally(S \ {x}, g) \subseteq Tally(S, f)
  BY DEF Tally
<1> QED
  BY <1>1, FS_Subset

LEMMA TallyRemoved ==
    ASSUME NEW S, NEW x \in S, NEW f, NEW g, NEW n \in Nat, n = f[x],
           \A y \in S \ {x} : g[y] = f[y], IsFiniteSet(Tally(S, f))
    PROVE  Cardinality(Tally(S \ {x}, g)) = Cardinality(Tally(S, f)) - n
<1>1. PICK T : T = S \ {x}
  OBVIOUS
<1>2. x \notin T /\ IsFiniteSet(Tally(T, g))
  BY <1>1, TallyRemovedFinite
<1>3. Cardinality(Tally(T, g)) \in Nat
  BY <1>2, FS_CardinalityType
<1>4. Tally(S, f) = Tally(T, g) \cup Units(x, n)
  BY <1>1 DEF Tally
<1>5. Cardinality(Tally(T, g) \cup Units(x, n)) = Cardinality(Tally(T, g)) + n
  BY <1>2, TallyJoined
<1>6. Cardinality(Tally(T, g)) = Cardinality(Tally(S, f)) - n
  BY <1>3, <1>4, <1>5
<1> QED
  BY <1>1, <1>6

\* One element with another value.
LEMMA TallyChanged ==
    ASSUME NEW S, NEW x \in S, NEW f, NEW g, NEW n \in Nat, n = f[x], NEW m \in Nat, m = g[x],
           \A y \in S \ {x} : g[y] = f[y], IsFiniteSet(Tally(S, f))
    PROVE  Cardinality(Tally(S, g)) + n = Cardinality(Tally(S, f)) + m
<1>1. PICK T : T = S \ {x}
  OBVIOUS
<1>2. x \notin T /\ IsFiniteSet(Tally(T, g))
  BY <1>1, TallyRemovedFinite
<1>3. Cardinality(Tally(S \ {x}, g)) = Cardinality(Tally(S, f)) - n /\ Cardinality(Tally(S, f)) \in Nat
  BY TallyRemoved, FS_CardinalityType
<1>4. Tally(S, g) = Tally(T, g) \cup Units(x, m)
  BY <1>1 DEF Tally
<1>5. Cardinality(Tally(T, g) \cup Units(x, m)) = Cardinality(Tally(T, g)) + m
  BY <1>2, TallyJoined
<1> QED
  BY <1>1, <1>3, <1>4, <1>5

LEMMA TallyChangedFinite ==
    ASSUME NEW S, NEW x \in S, NEW f, NEW g, g[x] \in Nat,
           \A y \in S \ {x} : g[y] = f[y], IsFiniteSet(Tally(S, f))
    PROVE  IsFiniteSet(Tally(S, g))
<1>1. IsFiniteSet(Tally(S \ {x}, g)) /\ IsFiniteSet(Units(x, g[x]))
  BY TallyRemovedFinite, UnitsCounted
<1>2. Tally(S, g) = Tally(S \ {x}, g) \cup Units(x, g[x])
  BY DEF Tally
<1> QED
  BY <1>1, <1>2, FS_Union

\* The same elements with the same values, and no elements.
LEMMA TallySame ==
    ASSUME NEW S, NEW f, NEW g, \A x \in S : g[x] = f[x]
    PROVE  Tally(S, g) = Tally(S, f)
BY DEF Tally

LEMMA TallyEmpty == ASSUME NEW f PROVE Tally({}, f) = {} /\ IsFiniteSet(Tally({}, f)) /\ Cardinality(Tally({}, f)) = 0
<1>1. Tally({}, f) = {}
  BY DEF Tally
<1> QED
  BY <1>1, FS_EmptySet

\* Fewer elements have no more units.
LEMMA TallyWithin ==
    ASSUME NEW S, NEW T, T \subseteq S, NEW f, IsFiniteSet(Tally(S, f))
    PROVE  IsFiniteSet(Tally(T, f)) /\ Cardinality(Tally(T, f)) <= Cardinality(Tally(S, f))
<1>1. Tally(T, f) \subseteq Tally(S, f)
  BY DEF Tally
<1> QED
  BY <1>1, FS_Subset

\* A set of numbers has a least one.
LEMMA LeastNatural == ASSUME NEW S, S \subseteq Nat, S # {} PROVE \E x \in S : \A y \in S : x <= y
<1> DEFINE R == OpToRel(<,Nat)
<1>1. IsWellFoundedOn(R, Nat)
  BY NatLessThanWellFounded
<1>2. \A x, y \in Nat : <<y, x>> \in R <=> y < x
  BY DEF OpToRel
<1> HIDE DEF R
<1>3. \E x \in S : \A y \in S : ~ (<<y, x>> \in R)
  BY <1>1, WFMin
<1>4. PICK x \in S : \A y \in S : ~ (<<y, x>> \in R)
  BY <1>3
<1>5. ASSUME NEW y \in S PROVE x <= y
  <2>1. x \in Nat /\ y \in Nat /\ ~(<<y, x>> \in R)
    BY <1>4
  <2>2. ~(y < x)
    BY <1>2, <2>1
  <2> QED
    BY <2>1, <2>2
<1> QED
  BY <1>5

\* Induction, over a set.
LEMMA NaturalsReached ==
    ASSUME NEW S, 0 \in S, \A n \in Nat : n \in S => n + 1 \in S
    PROVE  Nat \subseteq S
<1> SUFFICES ASSUME NEW m \in Nat, m \notin S PROVE FALSE
  OBVIOUS
<1>1. PICK n \in Nat \ S : \A y \in Nat \ S : n <= y
  BY LeastNatural
<1>2. n # 0 /\ n - 1 \in Nat
  BY <1>1
<1>3. n - 1 \in S
  BY <1>1, <1>2
<1> QED
  BY <1>1, <1>2, <1>3

\* A finite set of numbers has a greatest one.
LEMMA GreatestNatural ==
    ASSUME NEW S, S \subseteq Nat, IsFiniteSet(S), S # {}
    PROVE  \E x \in S : \A y \in S : y <= x
<1>1. PICK n \in Nat : ExistsSurjection(1 .. n, S)
  BY FS_NatSurjection
<1>2. PICK f : f \in [1 .. n -> S] /\ \A y \in S : \E i \in 1 .. n : f[i] = y
  BY <1>1 DEF ExistsSurjection, Surjection
<1>0. \A i \in 1 .. n : f[i] \in Nat
  BY <1>2
<1> DEFINE Bounded == {m \in Nat : m > n \/ \E b \in Nat : \A i \in 1 .. m : f[i] <= b}
<1>3. 0 \in Bounded
  OBVIOUS
<1>4. ASSUME NEW m \in Nat, m \in Bounded PROVE m + 1 \in Bounded
  <2>1. CASE m + 1 > n
    BY <2>1
  <2>2. CASE m + 1 <= n
    <3>1. PICK b \in Nat : \A i \in 1 .. m : f[i] <= b
      BY <1>4, <2>2
    <3>2. f[m + 1] \in Nat
      BY <1>0, <1>1, <2>2
    <3>3. \A i \in 1 .. m + 1 : f[i] <= b + f[m + 1]
      <4>1. \A i \in 1 .. m + 1 : i \in 1 .. m \/ i = m + 1
        OBVIOUS
      <4>2. \A i \in 1 .. m : f[i] \in Nat
        BY <1>0, <1>1, <2>2
      <4> QED
        BY <3>1, <3>2, <4>1, <4>2
    <3>4. b + f[m + 1] \in Nat
      BY <3>2
    <3> QED
      BY <3>3, <3>4
  <2> QED
    BY <1>1, <2>1, <2>2
<1>5. n \in Bounded
  <2> HIDE DEF Bounded
  <2> QED
    BY <1>1, <1>3, <1>4, NaturalsReached
<1>6. PICK b \in Nat : \A y \in S : y <= b
  <2>1. PICK b \in Nat : \A i \in 1 .. n : f[i] <= b
    BY <1>1, <1>5
  <2> QED
    BY <1>2, <2>1
<1> DEFINE T == {b - y : y \in S}
<1>7. T \subseteq Nat /\ T # {}
  <2>1. ASSUME NEW y \in S PROVE b - y \in Nat
    BY <1>6
  <2> QED
    BY <2>1
<1>8. PICK t \in T : \A u \in T : t <= u
  BY <1>7, LeastNatural
<1>9. PICK x \in S : t = b - x
  BY <1>8
<1>10. \A y \in S : b - x <= b - y
  BY <1>8, <1>9
<1> QED
  BY <1>6, <1>9, <1>10
=============================================================================
