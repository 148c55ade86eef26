---------------------------- MODULE Sums_proofs ----------------------------
(***************************************************************************)
(* Sums of a function over a finite set, as SumFunctionOnSet of Functions  *)
(* defines them: every "add up the entries of a map" in the properties is  *)
(* one.  The definition is a recursive function on subsets, in the order   *)
(* of a CHOOSE, so the proofs are by induction on finite sets.  They use   *)
(* it as a minimal counterexample: inclusion is well-founded on the        *)
(* subsets of a finite set, so a set of subsets, such as those where a     *)
(* claim fails, has a minimal element unless it is empty.                  *)
(***************************************************************************)
EXTENDS Integers, FiniteSetsExt, Functions, FiniteSetTheorems, TLAPS

\* The recursion of a sum: the element taken out of s, the value at s, and the
\* function on all subsets of S.
Taken(s) == CHOOSE x \in s : TRUE
SumStep(g, it, s) == IF s = {} THEN 0 ELSE g[Taken(s)] + it[s \ {Taken(s)}]
SumIter(g, S) == CHOOSE it : it = [s \in SUBSET S |-> SumStep(g, it, s)]

\* A set that is not empty has the element taken out of it.
LEMMA PickIn == ASSUME NEW s, s # {} PROVE Taken(s) \in s
  BY DEF Taken

\* Induction on finite sets: a set of subsets of S has a minimal one.
LEMMA MinimalSubset ==
    ASSUME NEW S, IsFiniteSet(S), NEW T, T \subseteq SUBSET S, T # {}
    PROVE  \E U \in T : \A V \in T : ~(V \subseteq U /\ V # U)
  <1>1. IsWellFoundedOn(StrictSubsetOrdering(S), SUBSET S)
    BY FS_StrictSubsetOrderingWellFounded, FS_FiniteSubsetsOfFinite
  <1>2. PICK U \in T : \A V \in T : <<V, U>> \notin StrictSubsetOrdering(S)
    BY <1>1, WFMin
  <1> QED
    BY <1>2 DEF StrictSubsetOrdering

\* Induction on the naturals: a set of naturals has a least one.
LEMMA LeastNatural ==
    ASSUME NEW T \in SUBSET Nat, T # {}
    PROVE  \E m \in T : \A n \in T : m <= n
  <1>1. PICK n \in T : TRUE
    OBVIOUS
  <1> DEFINE below == {U \in SUBSET (0 .. n) : \E k \in T : k <= n /\ U = 0 .. k}
  <1>2. /\ IsFiniteSet(0 .. n)
        /\ below \subseteq SUBSET (0 .. n)
        /\ below # {}
    <2>1. n \in Nat /\ 0 \in Int /\ n \in Int /\ n <= n
      OBVIOUS
    <2>2. 0 .. n \in below
      BY <2>1
    <2>3. IsFiniteSet(0 .. n)
      BY <2>1, FS_Interval
    <2> QED
      BY <2>2, <2>3
  <1>3. PICK U \in below : \A V \in below : ~(V \subseteq U /\ V # U)
    <2> DEFINE all == 0 .. n
    <2>1. IsFiniteSet(all) /\ below \subseteq SUBSET all /\ below # {}
      BY <1>2
    <2> HIDE DEF below, all
    <2> QED
      BY <2>1, MinimalSubset
  <1>4. PICK m \in T : m <= n /\ U = 0 .. m
    BY <1>3
  <1>5. ASSUME NEW k \in T, k < m PROVE FALSE
    <2>1. k \in Nat /\ m \in Nat /\ n \in Nat
      OBVIOUS
    <2>2. 0 .. k \in below
      <3>1. k <= n /\ 0 .. k \subseteq 0 .. n
        BY <1>4, <1>5, <2>1
      <3> QED
        BY <3>1
    <2>3. 0 .. k \subseteq 0 .. m /\ 0 .. k # 0 .. m
      <3>1. m \in 0 .. m /\ m \notin 0 .. k
        BY <1>5, <2>1
      <3> QED
        BY <3>1, <1>5, <2>1
    <2> QED
      BY <1>3, <1>4, <2>2, <2>3
  <1> QED
    BY <1>5

\* h folds F over the subsets of S, taking their elements out in the order p.
Folds(h, S, base, F, p) ==
    \A s \in SUBSET S :
       h[s] = IF s = {} THEN base ELSE F[p[s]][h[s \ {p[s]}]]

\* p chooses an element of every subset of S that has one.
Chooses(p, S) == \A s \in SUBSET S : s # {} => p[s] \in s

\* A function on the subsets of a finite set, defined by taking the elements
\* out in the order of a choice p, exists.
LEMMA FoldExists ==
    ASSUME NEW S, IsFiniteSet(S), NEW V, NEW base \in V,
           NEW F \in [S -> [V -> V]], NEW p, Chooses(p, S)
    PROVE  \E h \in [SUBSET S -> V] : Folds(h, S, base, F, p)
  <1> USE DEF Folds, Chooses
  <1> DEFINE Eq(h, s) == IF s = {} THEN base ELSE F[p[s]][h[s \ {p[s]}]]
             Upto(h, n) == \A s \in SUBSET S :
                               Cardinality(s) <= n => h[s] = Eq(h, s)
             Good(n) == \E h \in [SUBSET S -> V] : Upto(h, n)
             bad == {n \in Nat : ~Good(n)}
  <1>1. \A s \in SUBSET S : IsFiniteSet(s) /\ Cardinality(s) \in Nat
    BY FS_Subset, FS_CardinalityType
  <1>2. Good(0)
    <2>1. \A s \in SUBSET S : Cardinality(s) <= 0 => s = {}
      BY <1>1, FS_EmptySet
    <2> DEFINE h == [s \in SUBSET S |-> base]
    <2>2. h \in [SUBSET S -> V] /\ Upto(h, 0)
      BY <2>1
    <2> QED
      BY <2>2
  <1>3. ASSUME NEW n \in Nat, Good(n) PROVE Good(n + 1)
    <2>1. PICK h \in [SUBSET S -> V] : Upto(h, n)
      BY <1>3
    <2> DEFINE k == [s \in SUBSET S |-> IF Cardinality(s) <= n THEN h[s]
                                        ELSE Eq(h, s)]
    <2>2. ASSUME NEW s \in SUBSET S, s # {}
          PROVE  /\ p[s] \in S /\ s \ {p[s]} \in SUBSET S
                 /\ Cardinality(s \ {p[s]}) = Cardinality(s) - 1
      BY <2>2, <1>1, FS_RemoveElement
    <2>3. k \in [SUBSET S -> V]
      <3>1. \A s \in SUBSET S : Eq(h, s) \in V
        BY <2>2
      <3> QED
        BY <3>1
    <2>4. ASSUME NEW s \in SUBSET S, Cardinality(s) <= n + 1
          PROVE  k[s] = Eq(k, s)
      <3>1. CASE s = {}
        BY <3>1, <2>1, <1>1
      <3>2. CASE s # {}
        <4> DEFINE r == s \ {p[s]}
        <4>1. r \in SUBSET S /\ Cardinality(r) <= n
          BY <3>2, <2>2, <2>4, <1>1
        <4>2. k[r] = h[r]
          BY <4>1
        <4>3. Eq(k, s) = Eq(h, s)
          BY <3>2, <4>2
        <4>4. k[s] = Eq(h, s)
          BY <2>1
        <4> QED
          BY <4>3, <4>4
      <3> QED
        BY <3>1, <3>2
    <2> HIDE DEF k
    <2> QED
      BY <2>3, <2>4
  <1>4. bad = {}
    <2> SUFFICES ASSUME bad # {} PROVE FALSE
      OBVIOUS
    <2>0. bad \in SUBSET Nat
      OBVIOUS
    <2>1. PICK m \in bad : \A n \in bad : m <= n
      <3> HIDE DEF bad
      <3> QED
        BY <2>0, LeastNatural
    <2>7. m \in Nat /\ ~Good(m)
      OBVIOUS
    <2> HIDE DEF Good
    <2>2. m # 0
      BY <1>2, <2>7
    <2>3. m \in Nat /\ m - 1 \in Nat /\ ~(m <= m - 1)
      BY <2>1, <2>2
    <2>4. Good(m - 1)
      BY <2>1, <2>3
    <2>5. Good((m - 1) + 1)
      BY <1>3, <2>3, <2>4
    <2>6. (m - 1) + 1 = m
      BY <2>1
    <2> QED
      BY <2>5, <2>6, <2>7
  <1>5. /\ Cardinality(S) \in Nat
        /\ \A s \in SUBSET S : Cardinality(s) <= Cardinality(S)
    BY FS_Subset, FS_CardinalityType
  <1>6. Good(Cardinality(S))
    BY <1>4, <1>5
  <1> QED
    BY <1>5, <1>6

\* The recursion of a sum of integers has a solution.
LEMMA IterExists ==
    ASSUME NEW S, IsFiniteSet(S), NEW g, \A x \in S : g[x] \in Int
    PROVE  \E h \in [SUBSET S -> Int] :
              \A s \in SUBSET S : h[s] = SumStep(g, h, s)
  <1> DEFINE F == [x \in S |-> [v \in Int |-> g[x] + v]]
             p == [s \in SUBSET S |-> Taken(s)]
  <1>1. /\ F \in [S -> [Int -> Int]]
        /\ \A s \in SUBSET S : s # {} => p[s] \in s
    BY PickIn
  <1>2. PICK h \in [SUBSET S -> Int] : \A s \in SUBSET S :
                 h[s] = IF s = {} THEN 0 ELSE F[p[s]][h[s \ {p[s]}]]
    <2> DEFINE V == Int
               base == 0
    <2>1. base \in V /\ F \in [S -> [V -> V]]
      BY <1>1
    <2>2. Chooses(p, S)
      BY <1>1 DEF Chooses
    <2> HIDE DEF F, p, V, base
    <2>3. \E h \in [SUBSET S -> V] : Folds(h, S, base, F, p)
      BY <2>1, <2>2, FoldExists
    <2> QED
      BY <2>3 DEF V, base, Folds
  <1>3. ASSUME NEW s \in SUBSET S PROVE h[s] = SumStep(g, h, s)
    <2>1. CASE s = {}
      BY <1>2, <2>1 DEF SumStep
    <2>2. CASE s # {}
      <3>1. p[s] = Taken(s) /\ Taken(s) \in S /\ s \ {Taken(s)} \in SUBSET S
        BY <2>2, PickIn
      <3>2. h[s] = F[Taken(s)][h[s \ {Taken(s)}]]
        BY <1>2, <2>2, <3>1
      <3> QED
        BY <2>2, <3>1, <3>2 DEF SumStep
    <2> QED
      BY <2>1, <2>2
  <1> QED
    BY <1>3

\* So the recursive function satisfies its equation.
LEMMA IterStep ==
    ASSUME NEW S, IsFiniteSet(S), NEW g, \A x \in S : g[x] \in Int
    PROVE  \A s \in SUBSET S : SumIter(g, S)[s] = SumStep(g, SumIter(g, S), s)
  <1>1. PICK h \in [SUBSET S -> Int] : \A s \in SUBSET S : h[s] = SumStep(g, h, s)
    BY IterExists
  <1>2. h = [s \in SUBSET S |-> SumStep(g, h, s)]
    BY <1>1
  <1>3. SumIter(g, S) = [s \in SUBSET S |-> SumStep(g, SumIter(g, S), s)]
    BY <1>2 DEF SumIter
  <1> QED
    BY <1>3

\* Its values are integers.
LEMMA IterType ==
    ASSUME NEW S, IsFiniteSet(S), NEW g, \A x \in S : g[x] \in Int
    PROVE  \A s \in SUBSET S : SumIter(g, S)[s] \in Int
  <1> DEFINE bad == {s \in SUBSET S : SumIter(g, S)[s] \notin Int}
  <1> SUFFICES ASSUME bad # {} PROVE FALSE
    OBVIOUS
  <1>1. PICK s \in bad : \A r \in bad : ~(r \subseteq s /\ r # s)
    <2>1. bad \subseteq SUBSET S
      OBVIOUS
    <2> HIDE DEF bad
    <2> QED
      BY <2>1, MinimalSubset
  <1>2. SumIter(g, S)[s] = SumStep(g, SumIter(g, S), s)
    BY IterStep
  <1>3. s # {}
    BY <1>2 DEF SumStep
  <1>4. Taken(s) \in s /\ s \ {Taken(s)} \notin bad
    BY <1>1, <1>3, PickIn
  <1> QED
    BY <1>2, <1>3, <1>4 DEF SumStep

\* Its value at a set does not depend on the set the recursion runs over.
LEMMA IterSame ==
    ASSUME NEW S, IsFiniteSet(S), NEW g, \A x \in S : g[x] \in Int,
           NEW T \in SUBSET S
    PROVE  SumIter(g, S)[T] = SumIter(g, T)[T]
  <1> DEFINE bad == {s \in SUBSET S : \E r \in SUBSET S :
                        s \subseteq r /\ SumIter(g, r)[s] # SumIter(g, s)[s]}
  <1> SUFFICES ASSUME bad # {} PROVE FALSE
    OBVIOUS
  <1>1. PICK s \in bad : \A r \in bad : ~(r \subseteq s /\ r # s)
    <2>1. bad \subseteq SUBSET S
      OBVIOUS
    <2> HIDE DEF bad
    <2> QED
      BY <2>1, MinimalSubset
  <1>2. PICK r \in SUBSET S : s \subseteq r /\ SumIter(g, r)[s] # SumIter(g, s)[s]
    OBVIOUS
  <1>3. IsFiniteSet(r) /\ IsFiniteSet(s)
    BY FS_Subset
  <1>4. /\ SumIter(g, r)[s] = SumStep(g, SumIter(g, r), s)
        /\ SumIter(g, s)[s] = SumStep(g, SumIter(g, s), s)
    BY <1>2, <1>3, IterStep
  <1>5. s # {}
    BY <1>2, <1>4 DEF SumStep
  <1> DEFINE less == s \ {Taken(s)}
  <1>6. /\ less \in SUBSET S /\ less \subseteq s /\ less # s
        /\ less \notin bad
    BY <1>1, <1>5, PickIn
  <1>7. /\ SumIter(g, r)[less] = SumIter(g, less)[less]
        /\ SumIter(g, s)[less] = SumIter(g, less)[less]
    BY <1>2, <1>6
  <1> QED
    BY <1>2, <1>4, <1>5, <1>7 DEF SumStep

\* A sum is the value of that function.
LEMMA SumIsIter ==
    ASSUME NEW g, NEW S
    PROVE  SumFunctionOnSet(g, S) = SumIter(g, S)[S]
  BY DEF SumFunctionOnSet, FoldFunctionOnSet, MapThenFoldSet, SumIter, SumStep, Taken

\* The sum over nothing, as of a map without entries, is 0.
LEMMA SumEmpty ==
    ASSUME NEW g
    PROVE  SumFunctionOnSet(g, {}) = 0
  BY SumIsIter, IterStep, FS_EmptySet DEF SumStep

\* A sum of integers is an integer.
LEMMA SumType ==
    ASSUME NEW S, IsFiniteSet(S), NEW g, \A x \in S : g[x] \in Int
    PROVE  SumFunctionOnSet(g, S) \in Int
  BY SumIsIter, IterType

\* A sum is one element, that of the CHOOSE, and the rest.
LEMMA SumPick ==
    ASSUME NEW S, IsFiniteSet(S), S # {}, NEW g, \A x \in S : g[x] \in Int
    PROVE  /\ Taken(S) \in S
           /\ SumFunctionOnSet(g, S)
                 = g[Taken(S)] + SumFunctionOnSet(g, S \ {Taken(S)})
  <1>1. Taken(S) \in S
    BY PickIn
  <1>2. SumIter(g, S)[S] = g[Taken(S)] + SumIter(g, S)[S \ {Taken(S)}]
    BY IterStep DEF SumStep
  <1>3. SumIter(g, S)[S \ {Taken(S)}] = SumIter(g, S \ {Taken(S)})[S \ {Taken(S)}]
    BY IterSame
  <1> QED
    BY <1>1, <1>2, <1>3, SumIsIter

\* A sum is any one of its elements and the rest: the order does not matter.
LEMMA SumRemove ==
    ASSUME NEW S, IsFiniteSet(S), NEW g, \A x \in S : g[x] \in Int,
           NEW x \in S
    PROVE  SumFunctionOnSet(g, S) = g[x] + SumFunctionOnSet(g, S \ {x})
  <1> DEFINE Sum(s) == SumFunctionOnSet(g, s)
             bad == {s \in SUBSET S : \E y \in s : Sum(s) # g[y] + Sum(s \ {y})}
  <1> SUFFICES ASSUME bad # {} PROVE FALSE
    OBVIOUS
  <1>1. PICK s \in bad : \A r \in bad : ~(r \subseteq s /\ r # s)
    <2>1. bad \subseteq SUBSET S
      OBVIOUS
    <2> HIDE DEF bad
    <2> QED
      BY <2>1, MinimalSubset
  <1>2. PICK y \in s : Sum(s) # g[y] + Sum(s \ {y})
    OBVIOUS
  <1>3. \A r \in SUBSET S : IsFiniteSet(r) /\ Sum(r) \in Int
    BY FS_Subset, SumType
  <1>4. PICK c \in s : Sum(s) = g[c] + Sum(s \ {c})
    BY <1>3, SumPick
  <1>5. c # y
    BY <1>2, <1>4
  <1>6. /\ s \ {c} \notin bad /\ s \ {y} \notin bad
        /\ s \ {c} \in SUBSET S /\ s \ {y} \in SUBSET S
        /\ c \in s \ {y} /\ y \in s \ {c}
    BY <1>1, <1>4, <1>5
  <1>7. /\ Sum(s \ {c}) = g[y] + Sum((s \ {c}) \ {y})
        /\ Sum(s \ {y}) = g[c] + Sum((s \ {y}) \ {c})
    BY <1>6
  <1>8. (s \ {c}) \ {y} = (s \ {y}) \ {c}
    OBVIOUS
  <1>9. g[c] \in Int /\ g[y] \in Int /\ Sum((s \ {c}) \ {y}) \in Int
    BY <1>3, <1>4
  <1> HIDE DEF Sum
  <1> QED
    BY <1>2, <1>4, <1>7, <1>8, <1>9

\* A sum depends on the values that are summed only.
LEMMA SumSame ==
    ASSUME NEW S, IsFiniteSet(S), NEW g, NEW h,
           \A x \in S : g[x] \in Int /\ h[x] = g[x]
    PROVE  SumFunctionOnSet(h, S) = SumFunctionOnSet(g, S)
  <1> DEFINE bad == {s \in SUBSET S :
                        SumFunctionOnSet(h, s) # SumFunctionOnSet(g, s)}
  <1> SUFFICES ASSUME bad # {} PROVE FALSE
    OBVIOUS
  <1>1. PICK s \in bad : \A r \in bad : ~(r \subseteq s /\ r # s)
    <2>1. bad \subseteq SUBSET S
      OBVIOUS
    <2> HIDE DEF bad
    <2> QED
      BY <2>1, MinimalSubset
  <1>2. s # {}
    BY SumEmpty
  <1>3. IsFiniteSet(s)
    BY FS_Subset
  <1>4. PICK x \in s : TRUE
    BY <1>2
  <1>5. /\ SumFunctionOnSet(g, s) = g[x] + SumFunctionOnSet(g, s \ {x})
        /\ SumFunctionOnSet(h, s) = h[x] + SumFunctionOnSet(h, s \ {x})
    BY <1>3, SumRemove
  <1>6. s \ {x} \notin bad
    BY <1>1
  <1> QED
    BY <1>5, <1>6

\* Changing the entry of x, as big.Int.Add on a map entry does, changes the sum
\* by the same amount.
LEMMA SumUpdate ==
    ASSUME NEW S, IsFiniteSet(S), NEW g, NEW h, NEW x \in S,
           \A y \in S : g[y] \in Int /\ h[y] \in Int,
           \A y \in S \ {x} : h[y] = g[y]
    PROVE  SumFunctionOnSet(h, S) = SumFunctionOnSet(g, S) + (h[x] - g[x])
  <1>1. IsFiniteSet(S \ {x})
    BY FS_Subset
  <1>2. SumFunctionOnSet(h, S \ {x}) = SumFunctionOnSet(g, S \ {x})
    BY <1>1, SumSame
  <1>3. /\ SumFunctionOnSet(g, S) = g[x] + SumFunctionOnSet(g, S \ {x})
        /\ SumFunctionOnSet(h, S) = h[x] + SumFunctionOnSet(h, S \ {x})
    BY SumRemove
  <1>4. SumFunctionOnSet(g, S \ {x}) \in Int
    BY <1>1, SumType
  <1> QED
    BY <1>2, <1>3, <1>4

\* Adding entry by entry adds the sums.
LEMMA SumOfSums ==
    ASSUME NEW S, IsFiniteSet(S), NEW f, NEW g, NEW h,
           \A x \in S : f[x] \in Int /\ g[x] \in Int /\ h[x] = f[x] + g[x]
    PROVE  SumFunctionOnSet(h, S)
             = SumFunctionOnSet(f, S) + SumFunctionOnSet(g, S)
  <1> DEFINE bad == {s \in SUBSET S : SumFunctionOnSet(h, s)
                       # SumFunctionOnSet(f, s) + SumFunctionOnSet(g, s)}
  <1> SUFFICES ASSUME bad # {} PROVE FALSE
    OBVIOUS
  <1>1. PICK s \in bad : \A r \in bad : ~(r \subseteq s /\ r # s)
    <2>1. bad \subseteq SUBSET S
      OBVIOUS
    <2> HIDE DEF bad
    <2> QED
      BY <2>1, MinimalSubset
  <1>2. s # {}
    <2>1. /\ SumFunctionOnSet(f, {}) = 0 /\ SumFunctionOnSet(g, {}) = 0
          /\ SumFunctionOnSet(h, {}) = 0
      BY SumEmpty
    <2> SUFFICES ASSUME s = {} PROVE FALSE
      OBVIOUS
    <2> QED
      BY <2>1, s = {}
  <1>3. IsFiniteSet(s) /\ IsFiniteSet(s \ {CHOOSE x \in s : TRUE})
    BY FS_Subset
  <1>4. PICK x \in s : IsFiniteSet(s \ {x})
    BY <1>2, <1>3
  <1>5. /\ SumFunctionOnSet(f, s) = f[x] + SumFunctionOnSet(f, s \ {x})
        /\ SumFunctionOnSet(g, s) = g[x] + SumFunctionOnSet(g, s \ {x})
        /\ SumFunctionOnSet(h, s) = h[x] + SumFunctionOnSet(h, s \ {x})
    BY <1>3, SumRemove
  <1>6. s \ {x} \notin bad
    BY <1>1
  <1>7. /\ SumFunctionOnSet(f, s \ {x}) \in Int
        /\ SumFunctionOnSet(g, s \ {x}) \in Int
    BY <1>4, SumType
  <1> QED
    BY <1>5, <1>6, <1>7

\* Multiplying every entry multiplies the sum.
LEMMA SumScaled ==
    ASSUME NEW S, IsFiniteSet(S), NEW g, NEW h, NEW d \in Int,
           \A x \in S : g[x] \in Int /\ h[x] = d * g[x]
    PROVE  SumFunctionOnSet(h, S) = d * SumFunctionOnSet(g, S)
  <1> DEFINE bad == {s \in SUBSET S : SumFunctionOnSet(h, s)
                       # d * SumFunctionOnSet(g, s)}
  <1> SUFFICES ASSUME bad # {} PROVE FALSE
    OBVIOUS
  <1>1. PICK s \in bad : \A r \in bad : ~(r \subseteq s /\ r # s)
    <2>1. bad \subseteq SUBSET S
      OBVIOUS
    <2> HIDE DEF bad
    <2> QED
      BY <2>1, MinimalSubset
  <1>2. s # {}
    <2>1. SumFunctionOnSet(g, {}) = 0 /\ SumFunctionOnSet(h, {}) = 0
      BY SumEmpty
    <2> SUFFICES ASSUME s = {} PROVE FALSE
      OBVIOUS
    <2> QED
      BY <2>1, s = {}
  <1>3. IsFiniteSet(s) /\ IsFiniteSet(s \ {CHOOSE x \in s : TRUE})
    BY FS_Subset
  <1>4. PICK x \in s : IsFiniteSet(s \ {x})
    BY <1>2, <1>3
  <1>5. /\ SumFunctionOnSet(g, s) = g[x] + SumFunctionOnSet(g, s \ {x})
        /\ SumFunctionOnSet(h, s) = h[x] + SumFunctionOnSet(h, s \ {x})
    BY <1>3, SumRemove
  <1>6. SumFunctionOnSet(h, s \ {x}) = d * SumFunctionOnSet(g, s \ {x})
    BY <1>1
  <1>7. /\ SumFunctionOnSet(g, s \ {x}) \in Int
        /\ g[x] \in Int /\ h[x] = d * g[x]
    BY <1>4, SumType
  <1>8. SumFunctionOnSet(h, s) # d * SumFunctionOnSet(g, s)
    OBVIOUS
  <1>9. \A a, b \in Int : d * (a + b) = d * a + d * b
    OBVIOUS
  <1> QED
    BY <1>5, <1>6, <1>7, <1>8, <1>9

\* Entries that are all 0 add up to 0.
LEMMA SumZero ==
    ASSUME NEW S, IsFiniteSet(S), NEW g, \A x \in S : g[x] = 0
    PROVE  SumFunctionOnSet(g, S) = 0
  <1> DEFINE zero == 0
  <1>1. SumFunctionOnSet(g, S) \in Int
    BY SumType
  <1>2. zero \in Int /\ \A x \in S : g[x] \in Int /\ g[x] = zero * g[x]
    OBVIOUS
  <1> HIDE DEF zero
  <1>3. SumFunctionOnSet(g, S) = zero * SumFunctionOnSet(g, S)
    BY <1>2, SumScaled
  <1> QED
    BY <1>1, <1>3 DEF zero

\* Entries that are no greater have a sum that is no greater.
LEMMA SumAtMost ==
    ASSUME NEW S, IsFiniteSet(S), NEW g, NEW h,
           \A x \in S : g[x] \in Int /\ h[x] \in Int /\ g[x] <= h[x]
    PROVE  SumFunctionOnSet(g, S) <= SumFunctionOnSet(h, S)
  <1> DEFINE bad == {s \in SUBSET S : ~(SumFunctionOnSet(g, s)
                       <= SumFunctionOnSet(h, s))}
  <1> SUFFICES ASSUME bad # {} PROVE FALSE
    OBVIOUS
  <1>1. PICK s \in bad : \A r \in bad : ~(r \subseteq s /\ r # s)
    <2>1. bad \subseteq SUBSET S
      OBVIOUS
    <2> HIDE DEF bad
    <2> QED
      BY <2>1, MinimalSubset
  <1>2. s # {}
    BY SumEmpty
  <1>3. IsFiniteSet(s) /\ IsFiniteSet(s \ {CHOOSE x \in s : TRUE})
    BY FS_Subset
  <1>4. PICK x \in s : IsFiniteSet(s \ {x})
    BY <1>2, <1>3
  <1>5. /\ SumFunctionOnSet(g, s) = g[x] + SumFunctionOnSet(g, s \ {x})
        /\ SumFunctionOnSet(h, s) = h[x] + SumFunctionOnSet(h, s \ {x})
    BY <1>3, SumRemove
  <1>6. s \ {x} \notin bad
    BY <1>1
  <1>7. /\ SumFunctionOnSet(g, s \ {x}) \in Int
        /\ SumFunctionOnSet(h, s \ {x}) \in Int
    BY <1>4, SumType
  <1> QED
    BY <1>5, <1>6, <1>7

\* A sum of naturals is a natural.
LEMMA SumNat ==
    ASSUME NEW S, IsFiniteSet(S), NEW g, \A x \in S : g[x] \in Nat
    PROVE  SumFunctionOnSet(g, S) \in Nat
  <1> DEFINE z == [x \in S |-> 0]
  <1>1. \A x \in S : z[x] = 0
    OBVIOUS
  <1>2. \A x \in S : z[x] \in Int /\ g[x] \in Int /\ z[x] <= g[x]
    OBVIOUS
  <1> HIDE DEF z
  <1>3. SumFunctionOnSet(z, S) = 0
    BY <1>1, SumZero
  <1>4. SumFunctionOnSet(z, S) <= SumFunctionOnSet(g, S)
    BY <1>2, SumAtMost
  <1>5. SumFunctionOnSet(g, S) \in Int
    BY <1>2, SumType
  <1> QED
    BY <1>3, <1>4, <1>5

\* Elements that count nothing can be left out of a sum.
LEMMA SumRestrict ==
    ASSUME NEW S, IsFiniteSet(S), NEW T \in SUBSET S, NEW g,
           \A x \in S : g[x] \in Int, \A x \in S \ T : g[x] = 0
    PROVE  SumFunctionOnSet(g, S) = SumFunctionOnSet(g, T)
  <1> DEFINE bad == {U \in SUBSET S : T \subseteq U
                        /\ SumFunctionOnSet(g, U) # SumFunctionOnSet(g, T)}
  <1> SUFFICES ASSUME bad # {} PROVE FALSE
    OBVIOUS
  <1>1. PICK U \in bad : \A r \in bad : ~(r \subseteq U /\ r # U)
    <2>1. bad \subseteq SUBSET S
      OBVIOUS
    <2> HIDE DEF bad
    <2> QED
      BY <2>1, MinimalSubset
  <1>2. PICK x \in U : x \notin T
    <2>1. U # T /\ T \subseteq U
      BY <1>1
    <2> QED
      BY <2>1
  <1>3. IsFiniteSet(U)
    BY <1>1, FS_Subset
  <1>4. SumFunctionOnSet(g, U) = g[x] + SumFunctionOnSet(g, U \ {x})
    <2>1. \A y \in U : g[y] \in Int
      BY <1>1
    <2> HIDE DEF bad
    <2> QED
      BY <1>2, <1>3, <2>1, SumRemove
  <1>5. SumFunctionOnSet(g, U \ {x}) = SumFunctionOnSet(g, T)
    BY <1>1, <1>2
  <1>6. SumFunctionOnSet(g, T) \in Int
    BY FS_Subset, SumType
  <1>7. g[x] = 0
    BY <1>1, <1>2
  <1> QED
    BY <1>1, <1>4, <1>5, <1>6, <1>7

\* Going up in a finite set ends somewhere.
LEMMA TopExists ==
    ASSUME NEW S, IsFiniteSet(S), S # {}, NEW above \in [S -> SUBSET S],
           \A x \in S : \A y \in above[x] : /\ above[y] \subseteq above[x]
                                            /\ y \notin above[y]
    PROVE  \E m \in S : above[m] = {}
  <1> DEFINE cuts == {U \in SUBSET S : \E m \in S : U = above[m]}
  <1>1. cuts # {} /\ cuts \subseteq SUBSET S
    OBVIOUS
  <1>2. PICK U \in cuts : \A V \in cuts : ~(V \subseteq U /\ V # U)
    <2> HIDE DEF cuts
    <2> QED
      BY <1>1, MinimalSubset
  <1>3. PICK m \in S : U = above[m]
    OBVIOUS
  <1>4. ASSUME NEW y \in above[m] PROVE FALSE
    <2>1. y \in S /\ above[y] \in cuts
      OBVIOUS
    <2>2. above[y] \subseteq U /\ above[y] # U
      BY <1>3, <1>4
    <2> QED
      BY <1>2, <2>1, <2>2
  <1> QED
    BY <1>4

\* Finitely many numbers, and at least one, have a greatest.
LEMMA MaxOf ==
    ASSUME NEW S, S \subseteq Nat, IsFiniteSet(S), S # {}
    PROVE  /\ Max(S) \in S
           /\ \A y \in S : y <= Max(S)
  <1> DEFINE above == [x \in S |-> {y \in S : x < y}]
  <1>1. /\ above \in [S -> SUBSET S]
        /\ \A x \in S : \A y \in above[x] : /\ above[y] \subseteq above[x]
                                            /\ y \notin above[y]
    <2>1. \A x, y, z \in Nat : x < y /\ y < z => x < z
      OBVIOUS
    <2>2. \A x \in Nat : ~(x < x)
      OBVIOUS
    <2> QED
      BY <2>1, <2>2
  <1>2. \A x, y \in S : y \notin above[x] => x >= y
    OBVIOUS
  <1> HIDE DEF above
  <1>3. PICK m \in S : above[m] = {}
    BY <1>1, TopExists
  <1>4. \E x \in S : \A y \in S : x >= y
    BY <1>2, <1>3
  <1>5. Max(S) \in S /\ \A y \in S : Max(S) >= y
    BY <1>4 DEF Max
  <1> QED
    BY <1>5
=============================================================================
