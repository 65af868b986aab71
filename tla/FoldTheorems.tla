---------------------------- MODULE FoldTheorems ----------------------------
(***************************************************************************)
(* Induction, sums and remainders, for the proofs about the models.        *)
(*                                                                         *)
(* The induction principles are stated with sets: what is proved of every  *)
(* number is that it belongs to a set.  SumFunctionOnSet, of the community *)
(* modules, adds up a function over a finite set in an order it does not   *)
(* say; here is what may be used of it.                                    *)
(***************************************************************************)
EXTENDS Integers, FiniteSets, Functions, FiniteSetTheorems, TLAPS

----------------------------------------------------------------------------
\* Induction over the natural numbers: a set that has 0, and the successor of
\* each of its numbers, has all of them.
LEMMA NatSetInduction ==
  ASSUME NEW S, 0 \in S, \A n \in Nat : n \in S => n + 1 \in S
  PROVE  Nat \subseteq S
<1>. DEFINE T == Nat \ S
            R == {ss \in Nat \X Nat : ss[1] < ss[2]}
<1>1. SUFFICES ASSUME T # {} PROVE FALSE
  OBVIOUS
<1>2. T \subseteq Nat
  OBVIOUS
<1>3. IsWellFoundedOn(R, Nat)
  BY NatLessThanWellFounded, Zenon DEF OpToRel
<1>4. PICK x \in T : \A y \in T : ~ (<<y, x>> \in R)
  <2>. HIDE DEF T, R
  <2>. QED BY <1>1, <1>2, <1>3, WFMin
<1>5. \A y \in T : ~(y < x)
  BY <1>2, <1>4
<1>6. x \in Nat /\ x # 0
  BY <1>4
<1>7. x - 1 \in Nat /\ x - 1 < x /\ (x - 1) + 1 = x
  BY <1>6
<1>8. x - 1 \in S
  BY <1>5, <1>7
<1>. QED BY <1>4, <1>7, <1>8

\* Induction over the subsets of a finite set: a collection that has the empty
\* set, and each set from which some element can be taken to leave one of
\* the collection, has all of them.
LEMMA SubsetInduction ==
  ASSUME NEW D, IsFiniteSet(D), NEW C, {} \in C,
         \A T \in SUBSET D : T # {} /\ (\A x \in T : T \ {x} \in C) => T \in C
  PROVE  SUBSET D \subseteq C
<1>. DEFINE S == {n \in Nat : \A T \in SUBSET D : Cardinality(T) = n => T \in C}
<1>1. \A T \in SUBSET D : IsFiniteSet(T) /\ Cardinality(T) \in Nat
  BY FS_Subset, FS_CardinalityType
<1>2. 0 \in S
  BY <1>1, FS_EmptySet
<1>3. ASSUME NEW n \in Nat, n \in S PROVE n + 1 \in S
  <2>. SUFFICES ASSUME NEW T \in SUBSET D, Cardinality(T) = n + 1 PROVE T \in C
    OBVIOUS
  <2>1. T # {}
    BY FS_EmptySet
  <2>2. ASSUME NEW x \in T PROVE T \ {x} \in C
    <3>1. Cardinality(T \ {x}) = n
      BY <1>1, FS_RemoveElement
    <3>. QED BY <1>3, <3>1
  <2>. QED BY <2>1, <2>2
<1>4. Nat \subseteq S
  <2>. HIDE DEF S
  <2>. QED BY <1>2, <1>3, NatSetInduction
<1>. QED BY <1>1, <1>4

----------------------------------------------------------------------------
(* Sums                                                                    *)

\* The element that is added next, and the sum of a set from those of smaller
\* ones.
Pick(s) == CHOOSE x \in s : TRUE
SumStep(f, g, s) == IF s = {} THEN 0 ELSE f[Pick(s)] + g[s \ {Pick(s)}]
Sums(f, g, D) == g = [s \in D |-> SumStep(f, g, s)]
AllSums(f, g, D) == Sums(f, g, SUBSET D)

\* There are partial sums of every finite set.
LEMMA SumsExist ==
  ASSUME NEW f, NEW D, IsFiniteSet(D)
  PROVE  \E g : AllSums(f, g, D)
<1>. DEFINE Small(n) == {T \in SUBSET D : Cardinality(T) <= n}
            S == {n \in Nat : \E g : Sums(f, g, Small(n))}
<1>1. \A T \in SUBSET D : IsFiniteSet(T) /\ Cardinality(T) \in Nat
  BY FS_Subset, FS_CardinalityType
<1>2. 0 \in S
  <2>. DEFINE g == [s \in Small(0) |-> 0]
  <2>1. \A s \in Small(0) : s = {}
    BY <1>1, FS_EmptySet
  <2>2. Sums(f, g, Small(0))
    BY <2>1 DEF Sums, SumStep
  <2>. QED BY <2>2
<1>3. ASSUME NEW n \in Nat, n \in S PROVE n + 1 \in S
  <2>1. PICK g : Sums(f, g, Small(n))
    BY <1>3
  <2>. DEFINE h == [s \in Small(n + 1) |-> SumStep(f, g, s)]
  <2>2. ASSUME NEW s \in Small(n + 1), s # {}
        PROVE  s \ {Pick(s)} \in Small(n) /\ s \ {Pick(s)} \in Small(n + 1)
    <3>1. Pick(s) \in s
      BY <2>2 DEF Pick
    <3>2. Cardinality(s \ {Pick(s)}) = Cardinality(s) - 1
      BY <1>1, <3>1, FS_RemoveElement
    <3>. QED BY <1>1, <2>2, <3>2
  <2>3. ASSUME NEW s \in Small(n), s \in Small(n + 1) PROVE h[s] = g[s]
    BY <2>1, <2>3 DEF Sums
  <2>4. ASSUME NEW s \in Small(n + 1) PROVE SumStep(f, g, s) = SumStep(f, h, s)
    <3>1. CASE s = {}
      BY <3>1 DEF SumStep
    <3>2. CASE s # {}
      <4>1. h[s \ {Pick(s)}] = g[s \ {Pick(s)}]
        BY <2>2, <2>3, <3>2
      <4>. HIDE DEF h
      <4>. QED BY <3>2, <4>1 DEF SumStep
    <3>. QED BY <3>1, <3>2
  <2>5. Sums(f, h, Small(n + 1))
    BY <2>4 DEF Sums
  <2>6. \E k : Sums(f, k, Small(n + 1))
    <3>. HIDE DEF h, Small
    <3>. QED BY <2>5
  <2>. HIDE DEF h, Small
  <2>. QED BY <2>6
<1>4. Nat \subseteq S
  <2>. HIDE DEF S
  <2>. QED BY <1>2, <1>3, NatSetInduction
<1>5. Cardinality(D) \in Nat /\ Small(Cardinality(D)) = SUBSET D
  BY <1>1, FS_CardinalityType, FS_Subset
<1>. QED BY <1>4, <1>5 DEF AllSums

\* Partial sums agree wherever they are defined.
LEMMA SumsUnique ==
  ASSUME NEW f, NEW D, IsFiniteSet(D), NEW E \in SUBSET D, NEW g, AllSums(f, g, D),
         NEW h, AllSums(f, h, E)
  PROVE  g[E] = h[E]
<1>. DEFINE C == {T \in SUBSET E : g[T] = h[T]}
<1>1. \A T \in SUBSET E : g[T] = SumStep(f, g, T) /\ h[T] = SumStep(f, h, T)
  BY DEF AllSums, Sums
<1>2. {} \in C
  BY <1>1 DEF SumStep
<1>3. ASSUME NEW T \in SUBSET E, T # {}, \A x \in T : T \ {x} \in C PROVE T \in C
  <2>1. Pick(T) \in T
    BY <1>3 DEF Pick
  <2>. QED BY <1>1, <1>3, <2>1 DEF SumStep
<1>4. IsFiniteSet(E)
  BY FS_Subset
<1>5. SUBSET E \subseteq C
  <2>. HIDE DEF C
  <2>. QED BY <1>2, <1>3, <1>4, SubsetInduction
<1>. QED BY <1>5

\* SumFunctionOnSet is the last of the partial sums.
LEMMA SumIsPartialSum ==
  ASSUME NEW f, NEW D, IsFiniteSet(D), NEW g, AllSums(f, g, D)
  PROVE  \A T \in SUBSET D : SumFunctionOnSet(f, T) = g[T]
<1>. SUFFICES ASSUME NEW T \in SUBSET D PROVE SumFunctionOnSet(f, T) = g[T]
  OBVIOUS
<1>. DEFINE h == CHOOSE h : h = [s \in SUBSET T |-> SumStep(f, h, s)]
<1>1. IsFiniteSet(T)
  BY FS_Subset
<1>2. h = [s \in SUBSET T |-> SumStep(f, h, s)]
  BY <1>1, SumsExist DEF AllSums, Sums
<1>3. SumFunctionOnSet(f, T) = h[T]
  BY DEF SumFunctionOnSet, FoldFunctionOnSet, MapThenFoldSet, SumStep, Pick
<1>4. AllSums(f, h, T)
  <2>. HIDE DEF h
  <2>. QED BY <1>2 DEF AllSums, Sums
<1>5. g[T] = h[T]
  <2>. HIDE DEF h
  <2>. QED BY <1>4, SumsUnique
<1>. QED BY <1>3, <1>5

\* The empty sum, and the sum of the others with the one added next.
LEMMA SumUnfold ==
  ASSUME NEW f, NEW D, IsFiniteSet(D)
  PROVE  SumFunctionOnSet(f, D) =
           IF D = {} THEN 0 ELSE f[Pick(D)] + SumFunctionOnSet(f, D \ {Pick(D)})
<1>1. PICK g : AllSums(f, g, D)
  BY SumsExist
<1>2. \A T \in SUBSET D : SumFunctionOnSet(f, T) = g[T]
  BY <1>1, SumIsPartialSum
<1>3. g[D] = SumStep(f, g, D)
  BY <1>1 DEF AllSums, Sums
<1>. QED BY <1>2, <1>3 DEF SumStep

\* A sum of integers is one, of natural numbers too.
LEMMA SumType ==
  ASSUME NEW D, IsFiniteSet(D), NEW R, R \in {Nat, Int}, NEW f, \A x \in D : f[x] \in R
  PROVE  SumFunctionOnSet(f, D) \in R
<1>. DEFINE C == {T \in SUBSET D : SumFunctionOnSet(f, T) \in R}
<1>1. \A T \in SUBSET D : IsFiniteSet(T)
  BY FS_Subset
<1>2. {} \in C
  <2>1. SumFunctionOnSet(f, {}) = 0
    BY FS_EmptySet, SumUnfold
  <2>. QED BY <2>1
<1>3. ASSUME NEW T \in SUBSET D, T # {}, \A x \in T : T \ {x} \in C PROVE T \in C
  <2>1. Pick(T) \in T
    BY <1>3 DEF Pick
  <2>2. f[Pick(T)] \in R /\ SumFunctionOnSet(f, T \ {Pick(T)}) \in R
    BY <1>3, <2>1
  <2>3. SumFunctionOnSet(f, T) = f[Pick(T)] + SumFunctionOnSet(f, T \ {Pick(T)})
    BY <1>1, <1>3, SumUnfold
  <2>. QED BY <2>2, <2>3
<1>4. SUBSET D \subseteq C
  <2>. HIDE DEF C
  <2>. QED BY <1>2, <1>3, SubsetInduction
<1>. QED BY <1>4

\* Any element may be the one that is added last.
LEMMA SumRemove ==
  ASSUME NEW D, IsFiniteSet(D), NEW f, \A x \in D : f[x] \in Int
  PROVE  \A x \in D : SumFunctionOnSet(f, D) = f[x] + SumFunctionOnSet(f, D \ {x})
<1>. DEFINE C == {T \in SUBSET D : \A x \in T :
                    SumFunctionOnSet(f, T) = f[x] + SumFunctionOnSet(f, T \ {x})}
<1>1. ASSUME NEW T \in SUBSET D PROVE IsFiniteSet(T) /\ SumFunctionOnSet(f, T) \in Int
  <2>1. IsFiniteSet(T)
    BY FS_Subset
  <2>2. \A x \in T : f[x] \in Int
    OBVIOUS
  <2>3. SumFunctionOnSet(f, T) \in Int
    BY <2>1, <2>2, SumType
  <2>. QED BY <2>1, <2>3
<1>2. {} \in C
  OBVIOUS
<1>3. ASSUME NEW T \in SUBSET D, T # {}, \A x \in T : T \ {x} \in C PROVE T \in C
  <2>. DEFINE p == Pick(T)
  <2>1. p \in T
    BY <1>3 DEF Pick
  <2>2. SumFunctionOnSet(f, T) = f[p] + SumFunctionOnSet(f, T \ {p})
    BY <1>1, <1>3, SumUnfold
  <2>. HIDE DEF p
  <2>3. ASSUME NEW x \in T, x # p
        PROVE  SumFunctionOnSet(f, T) = f[x] + SumFunctionOnSet(f, T \ {x})
    <3>. DEFINE U == T \ {p, x}
    <3>1. T \ {p} \in C /\ T \ {x} \in C
      BY <1>3, <2>1
    <3>2. (T \ {p}) \ {x} = U /\ (T \ {x}) \ {p} = U /\ U \in SUBSET D
      OBVIOUS
    <3>3. SumFunctionOnSet(f, T \ {p}) = f[x] + SumFunctionOnSet(f, U)
      BY <2>3, <3>1, <3>2
    <3>4. SumFunctionOnSet(f, T \ {x}) = f[p] + SumFunctionOnSet(f, U)
      BY <2>1, <2>3, <3>1, <3>2
    <3>5. f[x] \in Int /\ f[p] \in Int /\ SumFunctionOnSet(f, U) \in Int
      BY <1>1, <2>1, <3>2
    <3>. HIDE DEF U
    <3>. QED BY <2>2, <3>3, <3>4, <3>5
  <2>. QED BY <2>2, <2>3
<1>4. SUBSET D \subseteq C
  <2>. HIDE DEF C
  <2>. QED BY <1>2, <1>3, SubsetInduction
<1>. QED BY <1>4

\* A sum depends on the values it adds only.
LEMMA SumEqual ==
  ASSUME NEW D, IsFiniteSet(D), NEW f, NEW g, \A x \in D : f[x] = g[x]
  PROVE  SumFunctionOnSet(f, D) = SumFunctionOnSet(g, D)
<1>. DEFINE C == {T \in SUBSET D : SumFunctionOnSet(f, T) = SumFunctionOnSet(g, T)}
<1>1. \A T \in SUBSET D : IsFiniteSet(T)
  BY FS_Subset
<1>2. {} \in C
  BY <1>1, SumUnfold
<1>3. ASSUME NEW T \in SUBSET D, T # {}, \A x \in T : T \ {x} \in C PROVE T \in C
  <2>1. Pick(T) \in T /\ f[Pick(T)] = g[Pick(T)]
    BY <1>3 DEF Pick
  <2>2. SumFunctionOnSet(f, T \ {Pick(T)}) = SumFunctionOnSet(g, T \ {Pick(T)})
    BY <1>3, <2>1
  <2>3. /\ SumFunctionOnSet(f, T) = f[Pick(T)] + SumFunctionOnSet(f, T \ {Pick(T)})
        /\ SumFunctionOnSet(g, T) = g[Pick(T)] + SumFunctionOnSet(g, T \ {Pick(T)})
    BY <1>1, <1>3, SumUnfold
  <2>. QED BY <2>1, <2>2, <2>3
<1>4. SUBSET D \subseteq C
  <2>. HIDE DEF C
  <2>. QED BY <1>2, <1>3, SubsetInduction
<1>. QED BY <1>4

\* If one value changes, the sum changes as much.
LEMMA SumUpdate ==
  ASSUME NEW D, IsFiniteSet(D), NEW f, \A y \in D : f[y] \in Int, NEW g,
         NEW x \in D, g[x] \in Int, \A y \in D \ {x} : g[y] = f[y]
  PROVE  SumFunctionOnSet(g, D) = SumFunctionOnSet(f, D) - f[x] + g[x]
<1>1. \A y \in D : g[y] \in Int
  OBVIOUS
<1>2. IsFiniteSet(D \ {x})
  BY FS_RemoveElement
<1>3. SumFunctionOnSet(f, D \ {x}) = SumFunctionOnSet(g, D \ {x})
  BY <1>2, SumEqual
<1>4. SumFunctionOnSet(f, D \ {x}) \in Int
  <2>1. \A y \in D \ {x} : f[y] \in Int
    OBVIOUS
  <2>. QED BY <1>2, <2>1, SumType
<1>5. /\ SumFunctionOnSet(f, D) = f[x] + SumFunctionOnSet(f, D \ {x})
      /\ SumFunctionOnSet(g, D) = g[x] + SumFunctionOnSet(g, D \ {x})
  BY <1>1, SumRemove
<1>. QED BY <1>3, <1>4, <1>5

\* A sum of zeros.
LEMMA SumZero ==
  ASSUME NEW D, IsFiniteSet(D), NEW f, \A x \in D : f[x] = 0
  PROVE  SumFunctionOnSet(f, D) = 0
<1>. DEFINE C == {T \in SUBSET D : SumFunctionOnSet(f, T) = 0}
<1>1. \A T \in SUBSET D : IsFiniteSet(T)
  BY FS_Subset
<1>2. {} \in C
  BY <1>1, SumUnfold
<1>3. ASSUME NEW T \in SUBSET D, T # {}, \A x \in T : T \ {x} \in C PROVE T \in C
  <2>1. Pick(T) \in T
    BY <1>3 DEF Pick
  <2>2. f[Pick(T)] = 0 /\ SumFunctionOnSet(f, T \ {Pick(T)}) = 0
    BY <1>3, <2>1
  <2>. QED BY <1>1, <1>3, <2>2, SumUnfold
<1>4. SUBSET D \subseteq C
  <2>. HIDE DEF C
  <2>. QED BY <1>2, <1>3, SubsetInduction
<1>. QED BY <1>4

----------------------------------------------------------------------------
(* Remainders                                                              *)

\* Numbers that are less than P apart have the same remainder only if equal.
LEMMA ModSame ==
  ASSUME NEW P \in Nat \ {0}, NEW k \in Nat, NEW p \in Nat, k % P = p % P, k - p < P, p - k < P
  PROVE  k = p
<1>. DEFINE a == k \div P
            b == p \div P
<1>1. a \in Int /\ b \in Int /\ k = P * a + (k % P) /\ p = P * b + (p % P)
  OBVIOUS
<1>. HIDE DEF a, b
<1>2. k - p = P * (a - b)
  BY <1>1
<1>3. CASE a - b >= 1
  <2>1. P * (a - b) >= P
    BY <1>1, <1>3
  <2>. QED BY <1>2, <2>1
<1>4. CASE a - b <= -1
  <2>1. P * (a - b) <= -P
    BY <1>1, <1>4
  <2>. QED BY <1>2, <2>1
<1>5. CASE a - b = 0
  BY <1>2, <1>5
<1>. QED BY <1>1, <1>3, <1>4, <1>5

\* The range of a remainder.
LEMMA ModRange == ASSUME NEW P \in Nat \ {0}, NEW k \in Nat PROVE k % P \in 0 .. P - 1
OBVIOUS
=============================================================================
