------------------------------ MODULE FoldLemmas ------------------------------
(***************************************************************************)
(* What the folds of the community modules compute, for inputs of any      *)
(* size.  A set of naturals that is not empty has a least one, as < is     *)
(* well-founded on Nat; from that induction follows with the induction     *)
(* hypothesis given as a set: over Nat, and over the subsets of a finite   *)
(* set.  It yields that the recursive function a fold chooses exists, and  *)
(* with it what SumFunction is on sequences.                               *)
(***************************************************************************)
EXTENDS Integers, Sequences, Functions, Folds, FiniteSetTheorems, WellFoundedInduction, TLAPS

-----------------------------------------------------------------------------
(* Induction. *)

Below == {p \in Nat \X Nat : p[1] < p[2]}

\* The library states this for naturals, in a form of its own.
LEMMA BelowIsWellFounded == IsWellFoundedOn(Below, Nat)
<1>1. Below = OpToRel(<, Nat)
      BY DEF OpToRel, Below
<1> QED
    BY <1>1, NatLessThanWellFounded

\* Any set of naturals but the empty one has a least member.
LEMMA LeastNumber ==
    ASSUME NEW T \in SUBSET Nat, T # {}
    PROVE  \E n \in T : \A m \in T : n <= m
<1>1. PICK n \in T : \A m \in T : <<m, n>> \notin Below
      BY BelowIsWellFounded, WFMin
<1>2. \A m \in T : ~(m < n)
      BY <1>1 DEF Below
<1> QED
    BY <1>2

\* A set of naturals with 0 and the successor of each member has them all: one that it
\* lacked would have a least.
LEMMA SetInduction ==
    ASSUME NEW S \in SUBSET Nat, 0 \in S, \A n \in S : n + 1 \in S
    PROVE  S = Nat
<1> SUFFICES ASSUME Nat \ S # {} PROVE FALSE
    OBVIOUS
<1>1. PICK n \in Nat \ S : \A m \in Nat \ S : n <= m
      BY LeastNumber
<1>2. n - 1 \in Nat /\ n - 1 \in S
      BY <1>1
<1> QED
    BY <1>1, <1>2

\* One that has a bound has a greatest member, by the least of its distances to the bound.
LEMMA GreatestNumber ==
    ASSUME NEW n \in Nat, NEW T \in SUBSET (1 .. n), T # {}
    PROVE  \E m \in T : \A k \in T : m >= k
<1> DEFINE Gaps == {n - k : k \in T}
<1>1. Gaps \in SUBSET Nat /\ Gaps # {}
  <2>1. PICK k \in T : TRUE
        OBVIOUS
  <2>2. n - k \in Gaps
        BY <2>1
  <2>3. \A h \in Gaps : h \in Nat
        OBVIOUS
  <2> QED
      BY <2>2, <2>3
<1>2. PICK g \in Gaps : \A h \in Gaps : g <= h
  <2> HIDE DEF Gaps
  <2> QED
      BY <1>1, LeastNumber
<1>3. PICK m \in T : g = n - m
      OBVIOUS
<1>4. ASSUME NEW k \in T PROVE m >= k
  <2>1. n - m <= n - k
        BY <1>2, <1>3
  <2> QED
      BY <2>1
<1> QED
    BY <1>4

\* A set of subsets of a finite set that has the empty one, and each one all of whose
\* parts it has, has them all.
LEMMA SubsetInduction ==
    ASSUME NEW D, IsFiniteSet(D), NEW Good \in SUBSET (SUBSET D), {} \in Good,
           \A s \in SUBSET D : s # {} /\ (\A x \in s : s \ {x} \in Good) => s \in Good
    PROVE  Good = SUBSET D
<1> DEFINE UpTo == {n \in Nat : \A s \in SUBSET D : Cardinality(s) <= n => s \in Good}
<1>1. \A s \in SUBSET D : IsFiniteSet(s) /\ Cardinality(s) \in Nat
      BY FS_Subset, FS_CardinalityType
<1>2. 0 \in UpTo
      BY <1>1, FS_EmptySet
<1>3. ASSUME NEW n \in UpTo PROVE n + 1 \in UpTo
  <2>1. ASSUME NEW s \in SUBSET D, Cardinality(s) <= n + 1, s # {}, NEW x \in s
        PROVE  s \ {x} \in Good
    <3>1. Cardinality(s \ {x}) = Cardinality(s) - 1
          BY <1>1, FS_RemoveElement
    <3>2. Cardinality(s \ {x}) <= n
          BY <1>1, <2>1, <3>1
    <3> QED
        BY <3>2
  <2>2. ASSUME NEW s \in SUBSET D, Cardinality(s) <= n + 1 PROVE s \in Good
        BY <2>1, <2>2
  <2> QED
      BY <2>2
<1>4. UpTo = Nat
  <2>1. UpTo \in SUBSET Nat
        OBVIOUS
  <2> HIDE DEF UpTo
  <2> QED
      BY <1>2, <1>3, <2>1, SetInduction, Zenon
<1>5. ASSUME NEW s \in SUBSET D PROVE s \in Good
  <2>1. Cardinality(s) \in UpTo
        BY <1>1, <1>4
  <2> QED
      BY <1>1, <2>1
<1> QED
    BY <1>5

-----------------------------------------------------------------------------
(* Folds over finite sets. *)

\* The equation of a fold over D: of a set of its elements that are left, pick takes
\* the next, and step adds it to what the others give.
PicksFrom(D, pick) == \A s \in SUBSET D : s # {} => pick[s] \in s

IsFold(it, D, base, pick, step) ==
    \A s \in SUBSET D : it[s] = IF s = {} THEN base ELSE step[<<pick[s], it[s \ {pick[s]}]>>]

\* What the recursive function of a fold over a finite set stands for exists.
LEMMA FoldExists ==
    ASSUME NEW D, IsFiniteSet(D), NEW V, NEW base \in V,
           NEW pick, PicksFrom(D, pick),
           NEW step \in [D \X V -> V]
    PROVE  \E it \in [SUBSET D -> V] : IsFold(it, D, base, pick, step)
<1> USE DEF PicksFrom, IsFold
<1> DEFINE Small(n) == {s \in SUBSET D : Cardinality(s) <= n}
           Folds(n, it) == /\ it \in [Small(n) -> V]
                           /\ \A s \in Small(n) :
                                 it[s] = IF s = {} THEN base
                                         ELSE step[<<pick[s], it[s \ {pick[s]}]>>]
           Done == {n \in Nat : \E it : Folds(n, it)}
<1>1. \A s \in SUBSET D : IsFiniteSet(s) /\ Cardinality(s) \in Nat
      BY FS_Subset, FS_CardinalityType
<1>2. ASSUME NEW s \in SUBSET D, s # {}
      PROVE  /\ s \ {pick[s]} \in SUBSET D
             /\ Cardinality(s \ {pick[s]}) = Cardinality(s) - 1
      BY <1>1, <1>2, FS_RemoveElement
<1>3. 0 \in Done
  <2>1. Small(0) = {{}}
        BY <1>1, FS_EmptySet
  <2>2. Folds(0, [s \in Small(0) |-> base])
        BY <2>1
  <2> QED
      BY <2>2
<1>4. ASSUME NEW n \in Done PROVE n + 1 \in Done
  <2>1. PICK it : Folds(n, it)
        OBVIOUS
  <2> DEFINE next == [s \in Small(n + 1) |->
                         IF s \in Small(n) THEN it[s]
                         ELSE step[<<pick[s], it[s \ {pick[s]}]>>]]
  <2>2. ASSUME NEW s \in Small(n + 1), s # {}
        PROVE  s \ {pick[s]} \in Small(n)
        BY <1>1, <1>2, <2>2
  <2>3. Small(n) \subseteq Small(n + 1) /\ {} \in Small(n)
        BY <1>1, FS_EmptySet
  <2> HIDE DEF Small
  <2>4. \A s \in Small(n) : it[s] \in V
        BY <2>1
  <2>5. ASSUME NEW s \in Small(n + 1)
        PROVE  /\ next[s] \in V
               /\ next[s] = IF s = {} THEN base
                            ELSE step[<<pick[s], next[s \ {pick[s]}]>>]
    <3>1. CASE s = {}
          BY <2>1, <2>3, <2>4, <3>1
    <3>2. CASE s # {}
      <4>1. s \ {pick[s]} \in Small(n) /\ pick[s] \in D
            BY <2>2, <2>5, <3>2 DEF Small
      <4>2. next[s \ {pick[s]}] = it[s \ {pick[s]}]
            BY <2>3, <4>1
      <4>3. next[s] = step[<<pick[s], it[s \ {pick[s]}]>>]
            BY <2>1, <3>2
      <4>4. step[<<pick[s], it[s \ {pick[s]}]>>] \in V
            BY <2>4, <4>1
      <4> QED
          BY <3>2, <4>2, <4>3, <4>4
    <3> QED
        BY <3>1, <3>2
  <2>6. Folds(n + 1, next)
        BY <2>5
  <2> HIDE DEF Folds, next
  <2>7. \E jt : Folds(n + 1, jt)
        BY <2>6
  <2> QED
      BY <2>7
<1>5. Done = Nat
  <2>1. Done \in SUBSET Nat
        OBVIOUS
  <2> HIDE DEF Done
  <2> QED
      BY <1>3, <1>4, <2>1, SetInduction, Zenon
<1> DEFINE c == Cardinality(D)
<1>6. c \in Nat /\ Small(c) = SUBSET D
  <2>1. \A s \in SUBSET D : Cardinality(s) <= c
        BY FS_Subset
  <2> QED
      BY <2>1, FS_CardinalityType
<1>7. PICK it : Folds(c, it)
  <2> HIDE DEF Folds, c
  <2> QED
      BY <1>5, <1>6
<1> HIDE DEF Small, c
<1>8. /\ it \in [SUBSET D -> V]
      /\ \A s \in SUBSET D : it[s] = IF s = {} THEN base
                                     ELSE step[<<pick[s], it[s \ {pick[s]}]>>]
      BY <1>6, <1>7
<1> QED
    BY <1>8

\* What SumFunction adds up may be taken in any order.
LEMMA SumInAnyOrder ==
    ASSUME NEW D, IsFiniteSet(D), NEW f \in [D -> Nat]
    PROVE  \E it \in [SUBSET D -> Nat] :
               /\ it[{}] = 0
               /\ \A s \in SUBSET D : \A x \in s : it[s] = f[x] + it[s \ {x}]
               /\ SumFunction(f) = it[D]
<1> DEFINE any(s) == CHOOSE x \in s : TRUE
           pick == [s \in SUBSET D |-> any(s)]
           step == [p \in D \X Nat |-> f[p[1]] + p[2]]
           IsSum(it) == it = [s \in SUBSET D |->
                                 IF s = {} THEN 0 ELSE f[any(s)] + it[s \ {any(s)}]]
           sum == CHOOSE it : IsSum(it)
<1>1. PicksFrom(D, pick)
      BY DEF PicksFrom
<1>2. step \in [D \X Nat -> Nat]
      OBVIOUS
<1>3. PICK it \in [SUBSET D -> Nat] : IsFold(it, D, 0, pick, step)
  <2>1. 0 \in Nat
        OBVIOUS
  <2> HIDE DEF pick, step
  <2> QED
      BY <1>1, <1>2, <2>1, FoldExists
<1>4. IsSum(it)
  <2>1. ASSUME NEW s \in SUBSET D, s # {}
        PROVE  step[<<pick[s], it[s \ {pick[s]}]>>] = f[any(s)] + it[s \ {any(s)}]
    <3>1. pick[s] = any(s) /\ pick[s] \in D
          BY <1>1, <2>1 DEF PicksFrom
    <3>2. it[s \ {pick[s]}] \in Nat
          OBVIOUS
    <3> HIDE DEF pick, any
    <3> QED
        BY <3>1, <3>2
  <2> HIDE DEF pick, step, any
  <2> QED
      BY <1>3, <2>1 DEF IsFold
<1>5. IsSum(sum)
  <2> HIDE DEF IsSum
  <2> QED
      BY <1>4
<1> HIDE DEF sum
<1>6. /\ sum[{}] = 0
      /\ \A s \in SUBSET D : s # {} => sum[s] = f[any(s)] + sum[s \ {any(s)}]
      /\ DOMAIN sum = SUBSET D /\ sum = [s \in SUBSET D |-> sum[s]]
      BY <1>5
<1>7. \A s \in SUBSET D : s # {} => any(s) \in s
      OBVIOUS
<1> HIDE DEF any, IsSum
<1>8. ASSUME NEW s \in SUBSET D PROVE sum[s] \in Nat
  <2> DEFINE Good == {t \in SUBSET D : sum[t] \in Nat}
  <2>1. {} \in Good
        BY <1>6
  <2>2. ASSUME NEW t \in SUBSET D, t # {}, \A x \in t : t \ {x} \in Good
        PROVE  t \in Good
    <3>1. any(t) \in t /\ sum[t] = f[any(t)] + sum[t \ {any(t)}]
          BY <1>6, <1>7, <2>2
    <3>2. sum[t \ {any(t)}] \in Nat /\ f[any(t)] \in Nat
          BY <2>2, <3>1
    <3> QED
        BY <3>1, <3>2
  <2>3. Good \in SUBSET (SUBSET D)
        OBVIOUS
  <2>4. Good = SUBSET D
    <3> HIDE DEF Good
    <3> QED
        BY <2>1, <2>2, <2>3, SubsetInduction
  <2> QED
      BY <2>4
<1>9. \A s \in SUBSET D : \A x \in s : sum[s] = f[x] + sum[s \ {x}]
  <2> DEFINE Good == {t \in SUBSET D : \A x \in t : sum[t] = f[x] + sum[t \ {x}]}
  <2>1. {} \in Good
        OBVIOUS
  <2>2. ASSUME NEW t \in SUBSET D, t # {}, \A y \in t : t \ {y} \in Good, NEW x \in t
        PROVE  sum[t] = f[x] + sum[t \ {x}]
    <3> DEFINE c == any(t)
    <3>1. c \in t /\ sum[t] = f[c] + sum[t \ {c}]
          BY <1>6, <1>7, <2>2
    <3> HIDE DEF c
    <3>2. CASE x = c
          BY <3>1, <3>2
    <3>3. CASE x # c
      <4>1. sum[t \ {c}] = f[x] + sum[(t \ {c}) \ {x}]
            BY <2>2, <3>1, <3>3
      <4>2. sum[t \ {x}] = f[c] + sum[(t \ {x}) \ {c}]
            BY <2>2, <3>1, <3>3
      <4>3. (t \ {c}) \ {x} = (t \ {x}) \ {c}
            OBVIOUS
      <4> DEFINE rest == sum[(t \ {x}) \ {c}]
      <4>4. f[x] \in Nat /\ f[c] \in Nat /\ rest \in Nat
            BY <1>8, <2>2, <3>1
      <4>5. sum[t \ {c}] = f[x] + rest /\ sum[t \ {x}] = f[c] + rest
            BY <4>1, <4>2, <4>3
      <4> HIDE DEF rest
      <4> QED
          BY <3>1, <4>4, <4>5
    <3> QED
        BY <3>2, <3>3
  <2>3. Good \in SUBSET (SUBSET D)
        OBVIOUS
  <2>4. ASSUME NEW t \in SUBSET D, t # {}, \A y \in t : t \ {y} \in Good
        PROVE  t \in Good
        BY <2>2, <2>4
  <2>5. Good = SUBSET D
    <3> HIDE DEF Good
    <3> QED
        BY <2>1, <2>3, <2>4, SubsetInduction
  <2> QED
      BY <2>5
<1>10. SumFunction(f) = sum[D]
       BY DEF SumFunction, SumFunctionOnSet, FoldFunctionOnSet, MapThenFoldSet, sum, IsSum, any
<1>11. sum \in [SUBSET D -> Nat]
       BY <1>6, <1>8
<1> QED
    BY <1>6, <1>9, <1>10, <1>11

\* A sum is the sum of the values, whatever else the function is defined for.
LEMMA SumAddsOne ==
    ASSUME NEW D, IsFiniteSet(D), NEW f \in [D -> Nat], NEW x \in D
    PROVE  SumFunction(f) = f[x] + SumFunction([y \in D \ {x} |-> f[y]])
<1> DEFINE E == D \ {x}
           g == [y \in E |-> f[y]]
<1>1. IsFiniteSet(E) /\ g \in [E -> Nat]
      BY FS_Subset
<1>2. PICK a \in [SUBSET D -> Nat] :
          /\ a[{}] = 0
          /\ \A s \in SUBSET D : \A y \in s : a[s] = f[y] + a[s \ {y}]
          /\ SumFunction(f) = a[D]
      BY SumInAnyOrder
<1>3. PICK b \in [SUBSET E -> Nat] :
          /\ b[{}] = 0
          /\ \A s \in SUBSET E : \A y \in s : b[s] = g[y] + b[s \ {y}]
          /\ SumFunction(g) = b[E]
  <2> HIDE DEF E, g
  <2> QED
      BY <1>1, SumInAnyOrder
<1>4. a[E] = b[E]
  <2> DEFINE Good == {s \in SUBSET E : a[s] = b[s]}
  <2>1. {} \in Good /\ Good \in SUBSET (SUBSET E)
        BY <1>2, <1>3
  <2>2. ASSUME NEW s \in SUBSET E, s # {}, \A y \in s : s \ {y} \in Good
        PROVE  s \in Good
    <3>1. PICK y \in s : TRUE
          BY <2>2
    <3>2. a[s] = f[y] + a[s \ {y}] /\ b[s] = g[y] + b[s \ {y}] /\ f[y] = g[y]
          BY <1>2, <1>3
    <3>3. a[s \ {y}] = b[s \ {y}]
          BY <2>2
    <3> QED
        BY <3>2, <3>3
  <2>3. Good = SUBSET E
    <3>1. IsFiniteSet(E)
          BY <1>1
    <3> HIDE DEF Good, E
    <3> QED
        BY <2>1, <2>2, <3>1, SubsetInduction
  <2> QED
      BY <2>3
<1>5. a[D] = f[x] + a[E]
      BY <1>2
<1> QED
    BY <1>2, <1>3, <1>4, <1>5

\* A sum of naturals is one, and 0 if there is nothing to add.
LEMMA SumIsNatural ==
    ASSUME NEW D, IsFiniteSet(D), NEW f \in [D -> Nat]
    PROVE  SumFunction(f) \in Nat /\ (D = {} => SumFunction(f) = 0)
<1>1. PICK a \in [SUBSET D -> Nat] : a[{}] = 0 /\ SumFunction(f) = a[D]
      BY SumInAnyOrder
<1> QED
    BY <1>1

-----------------------------------------------------------------------------
(* Sums over sequences. *)

\* Sequences with the same elements in the same places are equal.
LEMMA SameSequence ==
    ASSUME NEW S, NEW p \in Seq(S), NEW q \in Seq(S), Len(p) = Len(q),
           \A i \in 1 .. Len(p) : p[i] = q[i]
    PROVE  p = q
  <1>1. p = [i \in 1 .. Len(p) |-> p[i]] /\ q = [i \in 1 .. Len(q) |-> q[i]]
    OBVIOUS
  <1>2. [i \in 1 .. Len(p) |-> p[i]] = [i \in 1 .. Len(q) |-> q[i]]
    OBVIOUS
  <1> QED BY <1>1, <1>2, Zenon

\* What is where in two sequences in a row.
LEMMA ConcatByIndex ==
    ASSUME NEW S, NEW p \in Seq(S), NEW q \in Seq(S)
    PROVE  /\ p \o q \in Seq(S)
           /\ Len(p \o q) = Len(p) + Len(q)
           /\ \A i \in 1 .. (Len(p) + Len(q)) :
                 (p \o q)[i] = IF i <= Len(p) THEN p[i] ELSE q[i - Len(p)]
  OBVIOUS

\* A sequence is a function with a finite domain, as the lemmas above want it.
LEMMA SequenceIsFinite ==
    ASSUME NEW s \in Seq(Nat)
    PROVE  IsFiniteSet(1 .. Len(s)) /\ s \in [1 .. Len(s) -> Nat]
BY FS_Interval

\* The sum of a sequence of naturals is a natural.
LEMMA SumOfSequence == \A s \in Seq(Nat) : SumFunction(s) \in Nat
BY SequenceIsFinite, SumIsNatural

\* Of no element at all it is 0.
LEMMA SumOfEmpty == SumFunction(<<>>) = 0
<1>1. IsFiniteSet({}) /\ <<>> \in [{} -> Nat]
      BY FS_EmptySet
<1> QED
    BY <1>1, SumIsNatural

\* One element more adds its value.
LEMMA SumOfAppend ==
    ASSUME NEW s \in Seq(Nat), NEW n \in Nat
    PROVE  SumFunction(Append(s, n)) = SumFunction(s) + n
<1> DEFINE t == Append(s, n)
           D == 1 .. Len(t)
           last == Len(t)
<1>1. t \in Seq(Nat) /\ Len(t) = Len(s) + 1 /\ t[last] = n
      OBVIOUS
<1>2. [i \in D \ {last} |-> t[i]] = s
  <2>1. D \ {last} = 1 .. Len(s) /\ \A i \in 1 .. Len(s) : t[i] = s[i]
        BY <1>1
  <2>2. s = [i \in 1 .. Len(s) |-> s[i]]
        OBVIOUS
  <2> HIDE DEF D, last, t
  <2> QED
      BY <2>1, <2>2
<1>3. SumFunction(t) = t[last] + SumFunction([i \in D \ {last} |-> t[i]])
  <2>1. last \in D
        BY <1>1
  <2> HIDE DEF t
  <2>2. IsFiniteSet(D) /\ t \in [D -> Nat]
        BY <1>1, SequenceIsFinite
  <2> HIDE DEF last, D
  <2> QED
      BY <2>1, <2>2, SumAddsOne
<1>4. SumFunction(s) \in Nat
      BY SumOfSequence
<1> QED
    BY <1>1, <1>2, <1>3, <1>4

\* Of two sequences in a row it is what both have, by induction over the second.
LEMMA SumOfConcat ==
    ASSUME NEW s \in Seq(Nat), NEW t \in Seq(Nat)
    PROVE  SumFunction(s \o t) = SumFunction(s) + SumFunction(t)
<1> DEFINE Good == {n \in Nat : \A u \in Seq(Nat) :
                       Len(u) = n => SumFunction(s \o u) = SumFunction(s) + SumFunction(u)}
<1>1. 0 \in Good
  <2>1. ASSUME NEW u \in Seq(Nat), Len(u) = 0
        PROVE  SumFunction(s \o u) = SumFunction(s) + SumFunction(u)
    <3>1. u = <<>> /\ s \o u = s
          BY <2>1
    <3>2. SumFunction(s) \in Nat
          BY SumOfSequence
    <3> QED
        BY <3>1, <3>2, SumOfEmpty
  <2> QED
      BY <2>1
<1>2. ASSUME NEW n \in Good PROVE n + 1 \in Good
  <2> SUFFICES ASSUME NEW u \in Seq(Nat), Len(u) = n + 1
               PROVE  SumFunction(s \o u) = SumFunction(s) + SumFunction(u)
      OBVIOUS
  <2> DEFINE v == SubSeq(u, 1, n)
             m == u[n + 1]
  <2>1. v \in Seq(Nat) /\ Len(v) = n /\ m \in Nat
        OBVIOUS
  <2>2. u = Append(v, m)
        OBVIOUS
  <2>7. s \o v \in Seq(Nat) /\ s \o Append(v, m) = Append(s \o v, m)
    <3> HIDE DEF v, m
    <3> QED
        BY <2>1
  <2>3. SumFunction(s \o v) = SumFunction(s) + SumFunction(v)
        BY <2>1
  <2>4. SumFunction(s) \in Nat /\ SumFunction(v) \in Nat
        BY <2>1, SumOfSequence
  <2> HIDE DEF v, m
  <2>5. SumFunction(u) = SumFunction(v) + m
        BY <2>1, <2>2, SumOfAppend
  <2>6. SumFunction(s \o u) = SumFunction(s \o v) + m
        BY <2>1, <2>2, <2>7, SumOfAppend
  <2> QED
      BY <2>1, <2>3, <2>4, <2>5, <2>6
<1>3. Good \in SUBSET Nat
      OBVIOUS
<1>4. Good = Nat
  <2> HIDE DEF Good
  <2> QED
      BY <1>1, <1>2, <1>3, SetInduction
<1> QED
    BY <1>4
=============================================================================
