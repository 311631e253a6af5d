-------------------------- MODULE Aggregates_proofs --------------------------
(***************************************************************************)
(* The algebra of Aggregates: what a state stands for, and that partial,   *)
(* state_agg, merge and finalize keep it, whatever the grouping, for every *)
(* hash and k.                                                             *)
(***************************************************************************)
EXTENDS Aggregates, FiniteSetTheorems, WellFoundedInduction, TLAPS

-----------------------------------------------------------------------------
(***************************************************************************)
(* Sums.                                                                   *)
(***************************************************************************)

\* Among subsets of a finite set there is one that has no other one within it.
LEMMA MinimalSet ==
    ASSUME NEW S, IsFiniteSet(S), NEW bad, bad \subseteq SUBSET S, bad # {}
    PROVE  \E m \in bad : IsFiniteSet(m) /\ \A s \in bad : s \subseteq m => s = m
<1>1. IsWellFoundedOn(StrictSubsetOrdering(S), SUBSET S)
  BY FS_StrictSubsetOrderingWellFounded, FS_FiniteSubsetsOfFinite
<1>2. PICK m \in bad : \A s \in bad : ~(<<s, m>> \in StrictSubsetOrdering(S))
  BY <1>1, WFMin
<1>3. \A s \in bad : s \subseteq m => s = m
  BY <1>2 DEF StrictSubsetOrdering
<1> QED BY <1>3, FS_Subset

LEMMA FiniteImage ==
    ASSUME NEW S, IsFiniteSet(S), NEW f
    PROVE  IsFiniteSet({f[x] : x \in S})
<1> DEFINE F == [x \in S |-> f[x]]
<1>1. F \in Surjection(S, {f[x] : x \in S})
  BY DEF Surjection
<1> QED BY <1>1, FS_Surjection

LEMMA FiniteUnion ==
    ASSUME NEW S, IsFiniteSet(S), NEW f, \A x \in S : IsFiniteSet(f[x])
    PROVE  IsFiniteSet(UNION {f[x] : x \in S})
BY FiniteImage, FS_UNION

\* t sums f up over the subsets of S.
Additive(f, S, t) ==
    /\ \A x \in S : f[x] \in Int
    /\ t \in [SUBSET S -> Int]
    /\ t[{}] = 0
    /\ \A s \in SUBSET S : \A x \in s : t[s] = f[x] + t[s \ {x}]

LEMMA AddOne ==
    ASSUME NEW S, NEW f, NEW t, Additive(f, S, t), NEW a, a \notin S, f[a] \in Int
    PROVE  \E u : Additive(f, S \cup {a}, u)
<1> DEFINE u == [s \in SUBSET (S \cup {a}) |-> IF a \in s THEN f[a] + t[s \ {a}] ELSE t[s]]
<1>1. \A s \in SUBSET (S \cup {a}) : s \ {a} \in SUBSET S /\ t[s \ {a}] \in Int
  BY DEF Additive
<1>2. \A s \in SUBSET (S \cup {a}) : a \notin s => s \ {a} = s
  OBVIOUS
<1>3. u \in [SUBSET (S \cup {a}) -> Int]
  <2>1. ASSUME NEW s \in SUBSET (S \cup {a}) PROVE f[a] + t[s \ {a}] \in Int
    BY <1>1
  <2>2. \A s \in SUBSET (S \cup {a}) : a \notin s => t[s] \in Int
    BY <1>1, <1>2
  <2> QED BY <2>1, <2>2
<1>4. u[{}] = 0
  BY DEF Additive
<1>5. ASSUME NEW s \in SUBSET (S \cup {a}), NEW x \in s
      PROVE  u[s] = f[x] + u[s \ {x}]
  <2>1. CASE x = a
    BY <2>1
  <2>2. CASE x # a /\ a \in s
    <3>1. s \ {a} \in SUBSET S /\ x \in s \ {a} /\ x \in S
      BY <2>2
    <3>2. t[s \ {a}] = f[x] + t[(s \ {a}) \ {x}]
      BY <3>1 DEF Additive
    <3>3. (s \ {a}) \ {x} = (s \ {x}) \ {a} /\ a \in s \ {x}
      BY <2>2
    <3>4. u[s] = f[a] + t[s \ {a}] /\ u[s \ {x}] = f[a] + t[(s \ {a}) \ {x}]
      BY <2>2, <3>3
    <3>5. f[x] \in Int /\ t[s \ {a}] \in Int /\ t[(s \ {a}) \ {x}] \in Int
      BY <3>1 DEF Additive
    <3> QED BY <3>2, <3>4, <3>5
  <2>3. CASE x # a /\ a \notin s
    <3>1. s \in SUBSET S /\ a \notin s \ {x}
      BY <2>3
    <3> QED BY <3>1, <2>3 DEF Additive
  <2> QED BY <2>1, <2>2, <2>3
<1>6. \A x \in S \cup {a} : f[x] \in Int
  BY DEF Additive
<1>7. Additive(f, S \cup {a}, u)
  <2> HIDE DEF u
  <2> QED BY <1>3, <1>4, <1>5, <1>6 DEF Additive
<1> QED BY <1>7

LEMMA AdditiveExists ==
    ASSUME NEW S, IsFiniteSet(S), NEW f, \A x \in S : f[x] \in Int
    PROVE  \E t : Additive(f, S, t)
<1> DEFINE bad == {s \in SUBSET S : ~ \E t : Additive(f, s, t)}
<1> SUFFICES ASSUME bad # {} PROVE FALSE
  BY DEF bad
<1>1. PICK m \in bad : IsFiniteSet(m) /\ \A s \in bad : s \subseteq m => s = m
  <2>1. bad \subseteq SUBSET S
    OBVIOUS
  <2> HIDE DEF bad
  <2> QED BY <2>1, MinimalSet
<1>2. CASE m = {}
  <2>1. Additive(f, {}, [s \in SUBSET {} |-> 0])
    BY DEF Additive
  <2> QED BY <1>1, <1>2, <2>1
<1>3. CASE m # {}
  <2>1. PICK a \in m : TRUE
    BY <1>3
  <2>2. m \ {a} \in SUBSET S /\ m \ {a} # m
    BY <2>1
  <2>3. PICK t : Additive(f, m \ {a}, t)
    BY <1>1, <2>2
  <2>4. f[a] \in Int /\ a \notin m \ {a} /\ (m \ {a}) \cup {a} = m
    BY <2>1
  <2>5. \E u : Additive(f, m, u)
    <3> HIDE DEF bad
    <3>1. \E u : Additive(f, (m \ {a}) \cup {a}, u)
      BY <2>3, <2>4, AddOne
    <3> QED BY <2>4, <3>1
  <2> QED BY <1>1, <2>5
<1> QED BY <1>2, <1>3

\* The recursion that defines a sum takes the elements in some order of its own.
LEMMA TotalIs ==
    ASSUME NEW S, IsFiniteSet(S), NEW f, NEW t, Additive(f, S, t)
    PROVE  Total(f, S) = t[S]
<1> DEFINE some(s) == CHOOSE x \in s : TRUE
           Eq(g) == g = [s \in SUBSET S |-> IF s = {} THEN 0 ELSE f[some(s)] + g[s \ {some(s)}]]
           g0 == CHOOSE g : Eq(g)
<1>1. Total(f, S) = g0[S]
  BY DEF Total, MapThenSumSet, MapThenFoldSet
<1>2. \A s \in SUBSET S : s # {} => some(s) \in s
  OBVIOUS
<1>3. Eq(t)
  <2>1. DOMAIN t = SUBSET S /\ t = [s \in SUBSET S |-> t[s]]
    BY DEF Additive
  <2>2. ASSUME NEW s \in SUBSET S
        PROVE  t[s] = IF s = {} THEN 0 ELSE f[some(s)] + t[s \ {some(s)}]
    <3> HIDE DEF some
    <3> QED BY <1>2 DEF Additive
  <2> HIDE DEF some
  <2> QED BY <2>1, <2>2
<1>4. Eq(g0)
  <2> HIDE DEF Eq
  <2> QED BY <1>3
<1> DEFINE bad == {s \in SUBSET S : g0[s] # t[s]}
<1>5. bad = {}
  <2> SUFFICES ASSUME bad # {} PROVE FALSE
    OBVIOUS
  <2>1. PICK m \in bad : \A s \in bad : s \subseteq m => s = m
    <3>1. bad \subseteq SUBSET S
      OBVIOUS
    <3> HIDE DEF bad
    <3> QED BY <3>1, MinimalSet
  <2>2. g0[m] = IF m = {} THEN 0 ELSE f[some(m)] + g0[m \ {some(m)}]
    <3> HIDE DEF g0, some
    <3> QED BY <1>4, <2>1
  <2>3. t[m] = IF m = {} THEN 0 ELSE f[some(m)] + t[m \ {some(m)}]
    <3> HIDE DEF g0, some
    <3> QED BY <1>3, <2>1
  <2>4. m # {} => m \ {some(m)} \in SUBSET S /\ m \ {some(m)} # m
    <3>1. m # {} => some(m) \in m
      BY <1>2, <2>1
    <3> HIDE DEF g0, some
    <3> QED BY <2>1, <3>1
  <2>5. m # {} => g0[m \ {some(m)}] = t[m \ {some(m)}]
    <3> HIDE DEF g0, some
    <3> QED BY <2>1, <2>4
  <2> HIDE DEF g0, some
  <2> QED BY <2>1, <2>2, <2>3, <2>5
<1> HIDE DEF g0
<1> QED BY <1>1, <1>5

\* What a sum is: nothing over nothing, and one more element adds its value.
LEMMA TotalStep ==
    ASSUME NEW S, IsFiniteSet(S), NEW f, \A x \in S : f[x] \in Int
    PROVE  /\ Total(f, {}) = 0
           /\ Total(f, S) \in Int
           /\ \A x \in S : Total(f, S \ {x}) \in Int /\ Total(f, S) = f[x] + Total(f, S \ {x})
<1>1. ASSUME NEW A, IsFiniteSet(A), \A x \in A : f[x] \in Int
      PROVE  Total(f, A) \in Int
  <2>1. PICK t : Additive(f, A, t)
    BY <1>1, AdditiveExists
  <2>2. Total(f, A) = t[A] /\ A \in SUBSET A
    BY <1>1, <2>1, TotalIs
  <2> QED BY <2>1, <2>2 DEF Additive
<1>2. Total(f, {}) = 0
  <2>1. PICK t : Additive(f, {}, t)
    BY AdditiveExists, FS_EmptySet
  <2> QED BY <2>1, TotalIs, FS_EmptySet DEF Additive
<1>3. ASSUME NEW x \in S
      PROVE  Total(f, S \ {x}) \in Int /\ Total(f, S) = f[x] + Total(f, S \ {x})
  <2>1. IsFiniteSet(S \ {x}) /\ S \ {x} \subseteq S
    BY FS_RemoveElement
  <2>2. PICK t : Additive(f, S, t)
    BY AdditiveExists
  <2> DEFINE u == [s \in SUBSET (S \ {x}) |-> t[s]]
  <2>3. Additive(f, S \ {x}, u)
    BY <2>2 DEF Additive
  <2>4. Total(f, S \ {x}) = u[S \ {x}]
    <3> HIDE DEF u
    <3> QED BY <2>1, <2>3, TotalIs
  <2>5. Total(f, S) = t[S] /\ t[S] = f[x] + t[S \ {x}]
    BY <2>2, TotalIs DEF Additive
  <2> QED BY <1>1, <2>1, <2>4, <2>5
<1> QED BY <1>1, <1>2, <1>3

LEMMA TotalSame ==
    ASSUME NEW S, IsFiniteSet(S), NEW f, NEW g, \A x \in S : f[x] \in Int /\ f[x] = g[x]
    PROVE  Total(f, S) = Total(g, S)
<1>1. PICK t : Additive(f, S, t)
  BY AdditiveExists
<1>2. Additive(g, S, t)
  BY <1>1 DEF Additive
<1> QED BY <1>1, <1>2, TotalIs

LEMMA TotalUnion ==
    ASSUME NEW A, NEW B, IsFiniteSet(A), IsFiniteSet(B), A \cap B = {},
           NEW f, \A x \in A \cup B : f[x] \in Int
    PROVE  Total(f, A \cup B) = Total(f, A) + Total(f, B)
<1> DEFINE bad == {s \in SUBSET B : Total(f, A \cup s) # Total(f, A) + Total(f, s)}
<1> SUFFICES ASSUME bad # {} PROVE FALSE
  OBVIOUS
<1>1. PICK m \in bad : IsFiniteSet(m) /\ \A s \in bad : s \subseteq m => s = m
  <2>1. bad \subseteq SUBSET B
    OBVIOUS
  <2> HIDE DEF bad
  <2> QED BY <2>1, MinimalSet
<1>2. Total(f, A) \in Int /\ Total(f, {}) = 0
  BY TotalStep
<1>3. CASE m = {}
  BY <1>1, <1>2, <1>3
<1>4. CASE m # {}
  <2>1. PICK a \in m : TRUE
    BY <1>4
  <2>2. m \ {a} \in SUBSET B /\ m \ {a} # m /\ m \in SUBSET B
    BY <2>1
  <2>3. Total(f, A \cup (m \ {a})) = Total(f, A) + Total(f, m \ {a})
    BY <1>1, <2>2
  <2>4. Total(f, m) = f[a] + Total(f, m \ {a}) /\ Total(f, m \ {a}) \in Int
    <3>1. \A x \in m : f[x] \in Int
      BY <2>2
    <3> QED BY <1>1, <2>1, <3>1, TotalStep
  <2>5. /\ Total(f, A \cup m) = f[a] + Total(f, (A \cup m) \ {a})
        /\ Total(f, (A \cup m) \ {a}) \in Int
    <3>1. IsFiniteSet(A \cup m) /\ a \in A \cup m /\ \A x \in A \cup m : f[x] \in Int
      BY <1>1, <2>1, <2>2, FS_Union
    <3> HIDE DEF bad
    <3> QED BY <3>1, TotalStep
  <2>6. (A \cup m) \ {a} = A \cup (m \ {a})
    BY <2>1, <2>2
  <2>7. f[a] \in Int /\ Total(f, A \cup m) # Total(f, A) + Total(f, m)
    BY <2>1, <2>2
  <2>8. Total(f, (A \cup m) \ {a}) = Total(f, A) + Total(f, m \ {a})
    BY <2>3, <2>6
  <2>9. f[a] + (Total(f, A) + Total(f, m \ {a})) = Total(f, A) + (f[a] + Total(f, m \ {a}))
    BY <1>2, <2>4, <2>7
  <2> HIDE DEF bad
  <2> QED BY <2>4, <2>5, <2>7, <2>8, <2>9
<1> QED BY <1>3, <1>4

LEMMA TotalGrows ==
    ASSUME NEW S, IsFiniteSet(S), NEW A \in SUBSET S, NEW f, \A x \in S : f[x] \in Nat
    PROVE  Total(f, A) <= Total(f, S) /\ Total(f, A) \in Nat
<1>1. ASSUME NEW B \in SUBSET S PROVE Total(f, B) \in Nat
  <2> DEFINE bad == {s \in SUBSET S : Total(f, s) \notin Nat}
  <2> SUFFICES ASSUME bad # {} PROVE FALSE
    OBVIOUS
  <2>1. PICK m \in bad : IsFiniteSet(m) /\ \A s \in bad : s \subseteq m => s = m
    <3>1. bad \subseteq SUBSET S
      OBVIOUS
    <3> HIDE DEF bad
    <3> QED BY <3>1, MinimalSet
  <2>2. \A x \in m : f[x] \in Nat /\ f[x] \in Int
    BY <2>1
  <2>3. Total(f, {}) = 0 /\ \A x \in m : Total(f, m) = f[x] + Total(f, m \ {x})
    BY <2>1, <2>2, TotalStep
  <2>4. \A x \in m : m \ {x} \in SUBSET S /\ m \ {x} # m
    OBVIOUS
  <2>5. \A x \in m : Total(f, m \ {x}) \in Nat
    BY <2>1, <2>4
  <2>6. Total(f, m) \in Nat
    <3>1. ASSUME NEW x \in m PROVE f[x] + Total(f, m \ {x}) \in Nat
      BY <2>2, <2>5
    <3>2. m # {} => \E x \in m : Total(f, m) = f[x] + Total(f, m \ {x})
      BY <2>3
    <3>3. CASE m = {}
      BY <2>3, <3>3
    <3>4. CASE m # {}
      BY <3>1, <3>2, <3>4
    <3> QED BY <3>3, <3>4
  <2> QED BY <2>6
<1>2. IsFiniteSet(A) /\ IsFiniteSet(S \ A) /\ A \cup (S \ A) = S
  BY FS_Subset, FS_Difference
<1>3. Total(f, S) = Total(f, A) + Total(f, S \ A)
  <2>1. \A x \in A \cup (S \ A) : f[x] \in Int
    OBVIOUS
  <2> QED BY <1>2, <2>1, TotalUnion
<1>4. Total(f, A) \in Nat /\ Total(f, S \ A) \in Nat
  BY <1>1
<1> QED BY <1>3, <1>4

\* Counting is a sum of ones.
LEMMA CountIsTotal ==
    ASSUME NEW S, IsFiniteSet(S)
    PROVE  Cardinality(S) = Total([x \in S |-> 1], S)
<1> DEFINE one == [x \in S |-> 1]
           t == [s \in SUBSET S |-> Cardinality(s)]
<1>1. Additive(one, S, t)
  <2>1. \A s \in SUBSET S : IsFiniteSet(s) /\ Cardinality(s) \in Int
    BY FS_Subset, FS_CardinalityType
  <2>2. ASSUME NEW s \in SUBSET S, NEW x \in s
        PROVE  t[s] = one[x] + t[s \ {x}]
    <3>1. Cardinality(s \ {x}) = Cardinality(s) - 1
      BY <2>1, FS_RemoveElement
    <3> QED BY <2>1, <3>1
  <2>3. t[{}] = 0
    BY FS_EmptySet
  <2>4. t \in [SUBSET S -> Int] /\ \A x \in S : one[x] \in Int
    BY <2>1
  <2> HIDE DEF one, t
  <2> QED BY <2>2, <2>3, <2>4 DEF Additive
<1>2. Total(one, S) = t[S]
  <2> HIDE DEF one, t
  <2> QED BY <1>1, TotalIs
<1> QED BY <1>2

\* A sum of sums over disjoint parts is the sum over the whole.
LEMMA TotalOfTotals ==
    ASSUME NEW D, IsFiniteSet(D), NEW part, \A d \in D : IsFiniteSet(part[d]),
           \A d, e \in D : d # e => part[d] \cap part[e] = {},
           NEW f, \A d \in D : \A x \in part[d] : f[x] \in Int,
           NEW g, \A d \in D : g[d] = Total(f, part[d])
    PROVE  Total(g, D) = Total(f, UNION {part[d] : d \in D})
<1> DEFINE all(s) == UNION {part[d] : d \in s}
           bad == {s \in SUBSET D : Total(g, s) # Total(f, all(s))}
<1> SUFFICES ASSUME bad # {} PROVE FALSE
  OBVIOUS
<1>1. PICK m \in bad : IsFiniteSet(m) /\ \A s \in bad : s \subseteq m => s = m
  <2>1. bad \subseteq SUBSET D
    OBVIOUS
  <2> HIDE DEF bad
  <2> QED BY <2>1, MinimalSet
<1>2. \A d \in D : g[d] \in Int
  BY TotalStep
<1>3. CASE m = {}
  <2>1. all(m) = {}
    BY <1>3
  <2>2. Total(g, {}) = 0 /\ Total(f, {}) = 0
    BY TotalStep, FS_EmptySet
  <2> QED BY <1>1, <1>3, <2>1, <2>2
<1>4. CASE m # {}
  <2>1. PICK a \in m : TRUE
    BY <1>4
  <2>2. m \ {a} \in SUBSET D /\ m \ {a} # m /\ m \in SUBSET D /\ a \in D
    BY <2>1
  <2>3. Total(g, m \ {a}) = Total(f, all(m \ {a}))
    BY <1>1, <2>2
  <2>4. Total(g, m) = g[a] + Total(g, m \ {a}) /\ Total(g, m \ {a}) \in Int
    <3>1. \A x \in m : g[x] \in Int
      BY <1>2, <2>2
    <3> QED BY <1>1, <2>1, <3>1, TotalStep
  <2>5. all(m) = part[a] \cup all(m \ {a}) /\ part[a] \cap all(m \ {a}) = {}
    BY <2>1, <2>2
  <2>6. IsFiniteSet(all(m \ {a}))
    <3>1. IsFiniteSet(m \ {a}) /\ \A d \in m \ {a} : IsFiniteSet(part[d])
      BY <1>1, <2>2, FS_RemoveElement
    <3> QED BY <3>1, FiniteUnion
  <2>7. Total(f, all(m)) = Total(f, part[a]) + Total(f, all(m \ {a}))
    <3>1. \A x \in part[a] \cup all(m \ {a}) : f[x] \in Int
      BY <2>2
    <3>2. IsFiniteSet(part[a])
      BY <2>2
    <3> DEFINE rest == all(m \ {a})
    <3>3. Total(f, part[a] \cup rest) = Total(f, part[a]) + Total(f, rest)
      <4> HIDE DEF rest
      <4> QED BY <2>5, <2>6, <3>1, <3>2, TotalUnion DEF rest
    <3> QED BY <2>5, <3>3
  <2>8. Total(g, m) # Total(f, all(m))
    BY <1>1
  <2> HIDE DEF all, bad
  <2> QED BY <2>2, <2>3, <2>4, <2>7, <2>8
<1> QED BY <1>3, <1>4

-----------------------------------------------------------------------------
(***************************************************************************)
(* Extremes and the heads of sorted arrays.                                *)
(***************************************************************************)

LEMMA MaxIs ==
    ASSUME NEW S, IsFiniteSet(S), S \subseteq Int, S # {}
    PROVE  Max(S) \in S /\ \A y \in S : y <= Max(S)
<1> DEFINE top(s) == \E x \in s : \A y \in s : x >= y
           bad == {s \in SUBSET S : s # {} /\ ~top(s)}
<1>1. bad = {}
  <2> SUFFICES ASSUME bad # {} PROVE FALSE
    OBVIOUS
  <2>1. PICK m \in bad : \A s \in bad : s \subseteq m => s = m
    <3>1. bad \subseteq SUBSET S
      OBVIOUS
    <3> HIDE DEF bad, top
    <3>2. bad # {}
      OBVIOUS
    <3> QED BY ONLY IsFiniteSet(S), <3>1, <3>2, MinimalSet
  <2>2. PICK a \in m : a \in Int
    BY <2>1
  <2>3. m \ {a} \in SUBSET S /\ m \ {a} # m
    BY <2>2
  <2>4. m \ {a} # {} /\ top(m \ {a})
    <3>1. m \ {a} # {}
      <4>1. m \ {a} = {} => m = {a}
        BY <2>2
      <4>2. top({a})
        BY <2>2
      <4> QED BY <2>1, <4>1, <4>2
    <3> HIDE DEF top
    <3> QED BY <2>1, <2>3, <3>1
  <2>5. PICK b \in m \ {a} : \A y \in m \ {a} : b >= y
    BY <2>4
  <2>6. b \in Int
    BY <2>5
  <2>7. CASE a >= b
    <3>1. \A y \in m : a >= y
      BY <2>2, <2>5, <2>6, <2>7
    <3> QED BY <2>1, <2>2, <3>1
  <2>8. CASE ~(a >= b)
    <3>1. \A y \in m : b >= y
      BY <2>2, <2>5, <2>6, <2>8
    <3> QED BY <2>1, <2>5, <3>1
  <2> QED BY <2>7, <2>8
<1>2. PICK x \in S : \A y \in S : x >= y
  BY <1>1
<1>3. Max(S) \in S /\ \A y \in S : Max(S) >= y
  BY <1>2 DEF Max
<1> QED BY <1>3

LEMMA MinIs ==
    ASSUME NEW S, IsFiniteSet(S), S \subseteq Int, S # {}
    PROVE  Min(S) \in S /\ \A y \in S : Min(S) <= y
<1> DEFINE neg == [x \in S |-> -x]
           T == {neg[x] : x \in S}
<1>1. IsFiniteSet(T)
  <2> HIDE DEF neg
  <2> QED BY FiniteImage
<1>2. T \subseteq Int /\ T # {}
  <2>1. \A x \in S : neg[x] \in Int
    OBVIOUS
  <2> HIDE DEF neg
  <2> QED BY <2>1
<1>3. Max(T) \in T /\ \A y \in T : y <= Max(T)
  <2> HIDE DEF T
  <2> QED BY <1>1, <1>2, MaxIs
<1>4. PICK x \in S : Max(T) = neg[x]
  BY <1>3
<1>5. \A y \in S : neg[y] <= neg[x]
  BY <1>3, <1>4
<1>6. \A y \in S : x =< y
  <2> SUFFICES ASSUME NEW y \in S PROVE x =< y
    OBVIOUS
  <2>1. -y <= -x /\ x \in Int /\ y \in Int
    BY <1>5
  <2> QED BY <2>1
<1>7. Min(S) \in S /\ \A y \in S : Min(S) =< y
  BY <1>6 DEF Min
<1> QED BY <1>7

\* An extreme is known by being one.
LEMMA MaxUnique ==
    ASSUME NEW S, S \subseteq Int, NEW x \in S, \A y \in S : y <= x
    PROVE  Max(S) = x
<1>1. Max(S) \in S /\ \A y \in S : Max(S) >= y
  <2>1. \A y \in S : x >= y
    BY SMT
  <2> QED BY <2>1 DEF Max
<1>2. Max(S) <= x /\ Max(S) >= x /\ x \in Int /\ Max(S) \in Int
  BY <1>1
<1> QED BY <1>2

LEMMA MinUnique ==
    ASSUME NEW S, S \subseteq Int, NEW x \in S, \A y \in S : x <= y
    PROVE  Min(S) = x
<1>1. Min(S) \in S /\ \A y \in S : Min(S) =< y
  BY DEF Min
<1>2. Min(S) <= x /\ Min(S) >= x /\ x \in Int /\ Min(S) \in Int
  BY <1>1
<1> QED BY <1>2

LEMMA ExtremesNest ==
    ASSUME NEW S, IsFiniteSet(S), S \subseteq Int, NEW A \in SUBSET S, A # {}
    PROVE  /\ Min(A) \in Int /\ Max(A) \in Int /\ Min(S) \in Int /\ Max(S) \in Int
           /\ Min(S) <= Min(A) /\ Max(A) <= Max(S) /\ Min(S) <= Max(S)
<1>1. IsFiniteSet(A) /\ A \subseteq Int /\ S # {}
  BY FS_Subset
<1>2. Min(A) \in A /\ Max(A) \in A
  BY <1>1, MinIs, MaxIs
<1>3. Min(S) \in S /\ Max(S) \in S /\ \A y \in S : Min(S) <= y /\ y <= Max(S)
  BY <1>1, MinIs, MaxIs
<1> QED BY <1>2, <1>3

LEMMA SmallestType ==
    ASSUME NEW S, IsFiniteSet(S), NEW n
    PROVE  Smallest(S, n) \subseteq S /\ IsFiniteSet(Smallest(S, n))
<1>1. Smallest(S, n) \subseteq S
  BY DEF Smallest
<1> QED BY <1>1, FS_Subset

\* The n smallest elements are as many, if there are as many.
LEMMA SmallestSize ==
    ASSUME NEW S, IsFiniteSet(S), S \subseteq Int, NEW n \in Nat, n <= Cardinality(S)
    PROVE  n <= Cardinality(Smallest(S, n))
<1> DEFINE below(s, x) == {y \in s : y < x}
           bad == {s \in SUBSET S : n <= Cardinality(s) /\ ~(n <= Cardinality(Smallest(s, n)))}
<1> SUFFICES ASSUME bad # {} PROVE FALSE
  BY DEF bad
<1>1. PICK m \in bad : IsFiniteSet(m) /\ \A s \in bad : s \subseteq m => s = m
  <2>1. bad \subseteq SUBSET S
    OBVIOUS
  <2> HIDE DEF bad, below
  <2> QED BY ONLY IsFiniteSet(S), bad # {}, <2>1, MinimalSet
<1>2. Smallest(m, n) # m
  BY <1>1
<1>3. PICK x \in m : ~(Cardinality(below(m, x)) < n)
  BY <1>2 DEF Smallest
<1> DEFINE b == below(m, x)
<1>4. b \in SUBSET S /\ b \subseteq m /\ x \notin b /\ IsFiniteSet(b)
  <2>1. x \in Int /\ ~(x < x)
    BY <1>1
  <2> QED BY <1>1, <2>1, FS_Subset
<1>5. n <= Cardinality(b)
  BY <1>3, <1>4, FS_CardinalityType
<1>6. n <= Cardinality(Smallest(b, n))
  BY <1>1, <1>4, <1>5
<1>7. Smallest(b, n) \subseteq Smallest(m, n)
  <2> SUFFICES ASSUME NEW y \in Smallest(b, n) PROVE y \in Smallest(m, n)
    OBVIOUS
  <2>1. y \in b /\ Cardinality(below(b, y)) < n
    BY DEF Smallest
  <2>2. below(b, y) = below(m, y)
    <3>1. y \in m /\ y < x /\ x \in Int /\ \A z \in m : z \in Int
      BY <1>1, <2>1
    <3>2. \A z \in m : z < y => z < x
      BY <3>1
    <3> QED BY <3>2
  <2> QED BY <2>1, <2>2, <1>4 DEF Smallest
<1>8. Smallest(m, n) \subseteq m
  BY DEF Smallest
<1>9. /\ IsFiniteSet(Smallest(m, n)) /\ IsFiniteSet(Smallest(b, n))
      /\ Cardinality(Smallest(b, n)) <= Cardinality(Smallest(m, n))
  BY <1>1, <1>7, <1>8, FS_Subset
<1>10. Cardinality(Smallest(b, n)) \in Nat /\ Cardinality(Smallest(m, n)) \in Nat
  BY <1>9, FS_CardinalityType
<1>11. ~(n <= Cardinality(Smallest(m, n)))
  BY <1>1
<1> HIDE DEF b, bad
<1> QED BY <1>6, <1>9, <1>10, <1>11

\* Merging loses nothing: whatever lies between the n smallest elements and the whole has the
\* same n smallest elements.
LEMMA SmallestOfPart ==
    ASSUME NEW U, IsFiniteSet(U), U \subseteq Int, NEW n \in Nat,
           NEW V \in SUBSET U, Smallest(U, n) \subseteq V
    PROVE  Smallest(V, n) = Smallest(U, n)
<1> DEFINE below(s, x) == {y \in s : y < x}
<1>1. \A x \in U : /\ IsFiniteSet(below(U, x)) /\ IsFiniteSet(below(V, x))
                   /\ below(V, x) \subseteq below(U, x)
                   /\ Cardinality(below(V, x)) <= Cardinality(below(U, x))
                   /\ Cardinality(below(V, x)) \in Nat /\ Cardinality(below(U, x)) \in Nat
  <2> SUFFICES ASSUME NEW x \in U
               PROVE  /\ IsFiniteSet(below(U, x)) /\ IsFiniteSet(below(V, x))
                      /\ below(V, x) \subseteq below(U, x)
                      /\ Cardinality(below(V, x)) <= Cardinality(below(U, x))
                      /\ Cardinality(below(V, x)) \in Nat /\ Cardinality(below(U, x)) \in Nat
    OBVIOUS
  <2>1. below(U, x) \in SUBSET U /\ below(V, x) \in SUBSET below(U, x)
    OBVIOUS
  <2> HIDE DEF below
  <2>2. IsFiniteSet(below(U, x))
    BY <2>1, FS_Subset
  <2> QED BY <2>1, <2>2, FS_Subset, FS_CardinalityType
<1>2. ASSUME NEW x \in Smallest(U, n) PROVE x \in Smallest(V, n)
  <2>1. x \in U /\ x \in V /\ Cardinality(below(U, x)) < n
    BY DEF Smallest
  <2>2. Cardinality(below(V, x)) < n
    <3> HIDE DEF below
    <3> QED BY <1>1, <2>1
  <2> QED BY <2>1, <2>2 DEF Smallest
<1>3. ASSUME NEW x \in Smallest(V, n), x \notin Smallest(U, n) PROVE FALSE
  <2>1. x \in V /\ x \in U /\ Cardinality(below(V, x)) < n /\ ~(Cardinality(below(U, x)) < n)
    BY <1>3 DEF Smallest
  <2> DEFINE A == below(U, x)
  <2>2. IsFiniteSet(A) /\ A \subseteq Int /\ n <= Cardinality(A)
    <3>1. A \subseteq Int
      OBVIOUS
    <3> HIDE DEF below
    <3> QED BY <1>1, <2>1, <3>1
  <2>3. n <= Cardinality(Smallest(A, n))
    <3> HIDE DEF A
    <3> QED BY <2>2, SmallestSize
  <2>4. Smallest(A, n) \subseteq below(V, x)
    <3> SUFFICES ASSUME NEW y \in Smallest(A, n) PROVE y \in below(V, x)
      OBVIOUS
    <3>1. y \in U /\ y < x /\ Cardinality(below(A, y)) < n
      BY DEF Smallest
    <3>2. below(A, y) = below(U, y)
      <4>1. x \in Int /\ y \in Int /\ \A z \in U : z \in Int
        BY <2>1, <3>1
      <4>2. \A z \in U : z < y => z < x
        BY <3>1, <4>1
      <4> QED BY <4>2
    <3>3. y \in Smallest(U, n)
      BY <3>1, <3>2 DEF Smallest
    <3> QED BY <3>1, <3>3
  <2>5. Cardinality(Smallest(A, n)) <= Cardinality(below(V, x))
    <3> HIDE DEF below
    <3> QED BY <1>1, <2>1, <2>4, FS_Subset
  <2>6. Cardinality(Smallest(A, n)) \in Nat
    <3> HIDE DEF below
    <3> QED BY <1>1, <2>1, <2>4, FS_Subset, FS_CardinalityType
  <2>7. Cardinality(below(V, x)) \in Nat
    BY <1>1, <2>1
  <2> HIDE DEF A, below
  <2> QED BY <2>1, <2>3, <2>5, <2>6, <2>7
<1> QED BY <1>2, <1>3

\* A set of fewer than n elements is its own n smallest.
LEMMA SmallestOfFew ==
    ASSUME NEW S, IsFiniteSet(S), NEW n \in Nat, Cardinality(S) < n
    PROVE  Smallest(S, n) = S
<1>1. ASSUME NEW x \in S PROVE Cardinality({y \in S : y < x}) < n
  <2>1. {y \in S : y < x} \in SUBSET S
    OBVIOUS
  <2>2. /\ Cardinality({y \in S : y < x}) \in Nat /\ Cardinality(S) \in Nat
        /\ Cardinality({y \in S : y < x}) <= Cardinality(S)
    BY <2>1, FS_Subset, FS_CardinalityType
  <2> QED BY <2>2
<1> QED BY <1>1 DEF Smallest

LEMMA SmallestAtMost ==
    ASSUME NEW S, IsFiniteSet(S), S \subseteq Int, NEW n \in Nat
    PROVE  Cardinality(Smallest(S, n)) <= n
<1> DEFINE A == Smallest(S, n)
<1>1. IsFiniteSet(A) /\ A \subseteq S /\ A \subseteq Int
  BY SmallestType
<1>2. CASE A = {}
  BY <1>2, FS_EmptySet
<1>3. CASE A # {}
  <2> DEFINE m == Max(A)
             below == {y \in S : y < m}
  <2>1. m \in A /\ \A y \in A : y <= m
    <3> HIDE DEF A
    <3> QED BY <1>1, <1>3, MaxIs
  <2>2. Cardinality(below) < n
    <3> HIDE DEF m
    <3> QED BY <2>1 DEF Smallest
  <2>3. A \ {m} \subseteq below
    <3> HIDE DEF A, m
    <3> QED BY <1>1, <2>1
  <2>4. IsFiniteSet(below)
    BY FS_Subset
  <2> HIDE DEF A, m, below
  <2>5. Cardinality(A \ {m}) <= Cardinality(below)
    BY <2>3, <2>4, FS_Subset
  <2>6. Cardinality(A \ {m}) = Cardinality(A) - 1
    BY <1>1, <2>1, FS_RemoveElement
  <2>7. Cardinality(A) \in Nat /\ Cardinality(below) \in Nat
    BY <1>1, <2>4, FS_CardinalityType
  <2> QED BY <2>2, <2>5, <2>6, <2>7 DEF A
<1> QED BY <1>2, <1>3

\* The n smallest of more elements are more of them, and those of n are smaller.
LEMMA SmallestOfMore ==
    ASSUME NEW S, IsFiniteSet(S), S \subseteq Int, NEW A \in SUBSET S, NEW n \in Nat
    PROVE  /\ Cardinality(Smallest(A, n)) <= Cardinality(Smallest(S, n))
           /\ n <= Cardinality(Smallest(A, n)) =>
                 \A x \in Smallest(S, n) : Smallest(A, n) # {} => x <= Max(Smallest(A, n))
<1> DEFINE few  == Smallest(A, n)
           many == Smallest(S, n)
<1>1. IsFiniteSet(A) /\ A \subseteq Int
  BY FS_Subset
<1>2. IsFiniteSet(few) /\ IsFiniteSet(many) /\ few \subseteq A /\ many \subseteq S
  BY <1>1, SmallestType
<1>3. Cardinality(few) \in Nat /\ Cardinality(many) \in Nat /\ Cardinality(S) \in Nat
  BY <1>2, FS_CardinalityType
<1>4. Cardinality(few) <= Cardinality(many)
  <2>1. CASE Cardinality(S) < n
    <3>1. many = S
      BY <2>1, SmallestOfFew
    <3>2. few \in SUBSET S
      BY <1>2
    <3> HIDE DEF few, many
    <3> QED BY <3>1, <3>2, FS_Subset
  <2>2. CASE n <= Cardinality(S)
    <3>1. n <= Cardinality(many) /\ Cardinality(few) <= n
      BY <1>1, <2>2, SmallestSize, SmallestAtMost
    <3> HIDE DEF few, many
    <3> QED BY <1>3, <3>1
  <2> QED BY <1>3, <2>1, <2>2
<1>5. ASSUME n <= Cardinality(few), NEW x \in many, few # {} PROVE x <= Max(few)
  <2>1. Max(few) \in few /\ Max(few) \in Int /\ \A y \in few : y <= Max(few)
    <3>1. few \subseteq Int
      BY <1>1, <1>2
    <3> HIDE DEF few, many
    <3> QED BY <1>2, <1>5, <3>1, MaxIs
  <2>2. x \in Int /\ Cardinality({y \in S : y < x}) < n
    BY <1>5 DEF Smallest
  <2>3. CASE Max(few) < x
    <3> DEFINE below == {y \in S : y < x}
    <3>1. few \subseteq below
      <4>1. few \subseteq S /\ few \subseteq Int
        BY <1>1, <1>2
      <4> HIDE DEF few, many
      <4> QED BY <2>1, <2>2, <2>3, <4>1
    <3>2. IsFiniteSet(below)
      BY FS_Subset
    <3> HIDE DEF few, many
    <3>3. Cardinality(few) <= Cardinality(below) /\ Cardinality(below) \in Nat
      <4> HIDE DEF below
      <4> QED BY <3>1, <3>2, FS_Subset, FS_CardinalityType
    <3> QED BY <1>3, <1>5, <2>2, <3>3
  <2> HIDE DEF few, many
  <2> QED BY <2>1, <2>2, <2>3
<1> QED BY <1>4, <1>5

-----------------------------------------------------------------------------
(***************************************************************************)
(* States: what a state stands for, and what the operations on states do.  *)
(***************************************************************************)

Elements(array) == IF array = Null THEN {} ELSE array
ValuesOf(v, S)  == {v[r] : r \in S}
HashesOf(v, S)  == {Hash[x] : x \in ValuesOf(v, S)}

\* S is a finite set of rows in which v has a value that can be aggregated.
Fits(agg, v, S) ==
    /\ agg \in Aggregate /\ IsFiniteSet(S)
    /\ \A r \in S : v[r] \in Int
    /\ agg \in Sets => \A r \in S : v[r] \in DOMAIN Hash

\* The state x is what agg keeps of the values of v in the rows S.
Stands(agg, x, v, S) ==
    /\ agg = "count" => x \in Int \cup {Null} /\ Coalesce(x, 0) = Cardinality(S)
    /\ agg = "sum" => x \in Int \cup {Null} /\ Coalesce(x, 0) = Total(v, S)
    /\ agg = "min" => x = IF S = {} THEN Null ELSE Min(ValuesOf(v, S))
    /\ agg = "max" => x = IF S = {} THEN Null ELSE Max(ValuesOf(v, S))
    /\ agg = "distinct_exact" => Elements(x) = ValuesOf(v, S)
    /\ agg = "distinct_approx" => Elements(x) = Smallest(HashesOf(v, S), K)

\* What it is finalized to.
Value(agg, v, S) ==
    CASE agg = "count" -> Cardinality(S)
      [] agg = "sum" -> Total(v, S)
      [] agg = "min" -> IF S = {} THEN Null ELSE Min(ValuesOf(v, S))
      [] agg = "max" -> IF S = {} THEN Null ELSE Max(ValuesOf(v, S))
      [] agg = "distinct_exact" -> Cardinality(ValuesOf(v, S))
      [] agg = "distinct_approx" -> Estimate(Smallest(HashesOf(v, S), K))

LEMMA ValuesType ==
    ASSUME NEW agg, NEW v, NEW S, Fits(agg, v, S)
    PROVE  /\ IsFiniteSet(ValuesOf(v, S)) /\ ValuesOf(v, S) \subseteq Int
           /\ agg \in Sets => /\ ValuesOf(v, S) \subseteq DOMAIN Hash
                              /\ IsFiniteSet(HashesOf(v, S)) /\ HashesOf(v, S) \subseteq Nat
                              /\ HashesOf(v, S) \subseteq {Hash[x] : x \in DOMAIN Hash}
<1>1. IsFiniteSet(ValuesOf(v, S))
  BY FiniteImage DEF Fits, ValuesOf
<1>2. ValuesOf(v, S) \subseteq Int /\ (agg \in Sets => ValuesOf(v, S) \subseteq DOMAIN Hash)
  BY DEF Fits, ValuesOf
<1>3. IsFiniteSet(HashesOf(v, S))
  BY <1>1, FiniteImage DEF HashesOf
<1>4. ASSUME agg \in Sets PROVE HashesOf(v, S) \subseteq {Hash[x] : x \in DOMAIN Hash}
  BY <1>2, <1>4 DEF HashesOf
<1>5. {Hash[x] : x \in DOMAIN Hash} \subseteq Nat
  BY KmvAssumption
<1> QED BY <1>1, <1>2, <1>3, <1>4, <1>5

\* No array of values or of hashes is NULL.
LEMMA ArraysAreNotNull ==
    ASSUME NEW agg \in Sets, NEW v, NEW S, Fits(agg, v, S), NEW n
    PROVE  ValuesOf(v, S) # Null /\ Smallest(HashesOf(v, S), n) # Null
<1>1. ValuesOf(v, S) \in SUBSET DOMAIN Hash
  BY ValuesType
<1>2. Smallest(HashesOf(v, S), n) \in SUBSET {Hash[x] : x \in DOMAIN Hash}
  BY ValuesType, SmallestType
<1> QED BY <1>1, <1>2, NullAssumption

LEMMA NoRows == ASSUME NEW agg \in Aggregate, NEW v PROVE Stands(agg, Null, v, {})
<1>1. Total(v, {}) = 0 /\ Cardinality({}) = 0
  BY TotalStep, FS_EmptySet
<1>2. ValuesOf(v, {}) = {} /\ HashesOf(v, {}) = {} /\ Smallest({}, K) = {}
  BY DEF ValuesOf, HashesOf, Smallest
<1> QED BY <1>1, <1>2 DEF Stands, Coalesce, Elements

\* A state of rows is finalized to the value of these rows.
LEMMA Finalized ==
    ASSUME NEW agg, NEW v, NEW S, Fits(agg, v, S), NEW x, Stands(agg, x, v, S)
    PROVE  Finalize(agg, x) = Value(agg, v, S)
<1>1. CASE agg = "count"
  BY <1>1 DEF Finalize, Value, Stands
<1>2. CASE agg = "sum"
  BY <1>2 DEF Finalize, Value, Stands
<1>3. CASE agg \in {"min", "max"}
  BY <1>3 DEF Finalize, Value, Stands
<1>4. CASE agg = "distinct_exact"
  <2>1. ArraySize(x) = Cardinality(Elements(x))
    BY FS_EmptySet DEF ArraySize, Elements
  <2> QED BY <1>4, <2>1 DEF Finalize, Value, Stands
<1>5. CASE agg = "distinct_approx"
  <2>1. Elements(x) = Smallest(HashesOf(v, S), K)
    BY <1>5 DEF Stands
  <2>2. CASE x # Null
    BY <1>5, <2>1, <2>2 DEF Finalize, Value, Elements
  <2>3. CASE x = Null
    <3>1. Estimate(Null) = 0 /\ Estimate({}) = 0
      BY KmvAssumption, FS_EmptySet DEF Estimate, ArraySize
    <3> QED BY <1>5, <2>1, <2>3, <3>1 DEF Finalize, Value, Elements
  <2> QED BY <2>2, <2>3
<1> QED BY <1>1, <1>2, <1>3, <1>4, <1>5 DEF Fits, Aggregate, Sets

\* A partial row holds states of the rows of its group in which the column is not NULL.
LEMMA PartialStands ==
    ASSUME NEW agg, NEW rows, NEW val, NEW S, S = {r \in rows : val[r] # Null},
           Fits(agg, val, S)
    PROVE  Stands(agg, Partial(agg, rows, val), val, S)
<1>1. {val[r] : r \in {x \in rows : val[x] # Null}} = ValuesOf(val, S)
  BY DEF ValuesOf
<1>2. CASE agg = "count"
  <2>1. Cardinality(S) \in Int /\ Cardinality(S) # Null
    BY FS_CardinalityType, NullAssumption DEF Fits
  <2> QED BY <1>2, <2>1 DEF Partial, Stands, Coalesce
<1>3. CASE agg = "sum"
  <2>1. Total(val, S) \in Int /\ Total(val, S) # Null /\ (S = {} => Total(val, S) = 0)
    BY TotalStep, NullAssumption DEF Fits
  <2> QED BY <1>3, <2>1 DEF Partial, Stands, Coalesce
<1>4. CASE agg \in {"min", "max"}
  BY <1>1, <1>4 DEF Partial, Stands
<1>5. CASE agg = "distinct_exact"
  <2>1. ValuesOf(val, S) # Null
    BY <1>5, ArraysAreNotNull DEF Sets
  <2> QED BY <1>1, <1>5, <2>1 DEF Partial, Stands, Elements
<1>6. CASE agg = "distinct_approx"
  <2>1. {val[r] : r \in rows} \ {Null} = ValuesOf(val, S)
    BY DEF ValuesOf
  <2>2. SketchOf({val[r] : r \in rows}) = Smallest(HashesOf(val, S), K)
    BY <2>1 DEF SketchOf, HashesOf
  <2>3. Smallest(HashesOf(val, S), K) # Null
    BY <1>6, ArraysAreNotNull DEF Sets
  <2> QED BY <1>6, <2>2, <2>3 DEF Partial, Stands, Elements
<1> QED BY <1>2, <1>3, <1>4, <1>5, <1>6 DEF Fits, Aggregate, Sets

LEMMA TotalOfZeros ==
    ASSUME NEW S, IsFiniteSet(S), NEW f, \A x \in S : f[x] = 0
    PROVE  Total(f, S) = 0
<1> DEFINE t == [s \in SUBSET S |-> 0]
<1>1. Additive(f, S, t)
  BY DEF Additive
<1> QED BY <1>1, TotalIs

\* Cutting a union of sketches, or of arrays, to K elements gives the sketch of all that was
\* sketched.
LEMMA SketchOfUnion ==
    ASSUME NEW parts, IsFiniteSet(UNION parts), UNION parts \subseteq Int,
           NEW V \in SUBSET (UNION parts), \A S \in parts : Smallest(S, K) \subseteq V
    PROVE  Smallest(V, K) = Smallest(UNION parts, K)
<1> DEFINE U == UNION parts
<1>1. ASSUME NEW x \in Smallest(U, K) PROVE x \in V
  <2>1. x \in U /\ Cardinality({y \in U : y < x}) < K
    BY DEF Smallest
  <2>2. PICK S \in parts : x \in S
    BY <2>1
  <2> DEFINE mine == {y \in S : y < x}
             all  == {y \in U : y < x}
  <2>3. mine \in SUBSET all /\ all \in SUBSET U
    OBVIOUS
  <2> HIDE DEF mine, all
  <2>4. IsFiniteSet(all) /\ IsFiniteSet(mine) /\ Cardinality(mine) <= Cardinality(all)
    BY <2>3, FS_Subset
  <2>5. Cardinality(mine) \in Nat /\ Cardinality(all) \in Nat /\ Cardinality(all) < K
    BY <2>1, <2>4, FS_CardinalityType DEF all
  <2>6. Cardinality(mine) < K
    BY <2>4, <2>5, KmvAssumption
  <2> QED BY <2>2, <2>6 DEF Smallest, mine
<1> HIDE DEF U
<1> QED BY <1>1, KmvAssumption, SmallestOfPart DEF U

\* An aggregation over states of disjoint groups of rows gives a state of all their rows, in
\* whatever way the rows were grouped.
LEMMA StateAggStands ==
    ASSUME NEW agg, NEW D, IsFiniteSet(D), NEW state, DOMAIN state = D, NEW v, NEW part,
           \A d \in D : Fits(agg, v, part[d]) /\ Stands(agg, state[d], v, part[d]),
           \A d, e \in D : d # e => part[d] \cap part[e] = {},
           agg \in Aggregate,
           NEW all, \A r : r \in all <=> \E d \in D : r \in part[d]
    PROVE  Fits(agg, v, all) /\ Stands(agg, StateAgg(agg, state), v, all)
<1>0. all = UNION {part[d] : d \in D}
  OBVIOUS
<1> DEFINE some   == {d \in D : state[d] # Null}
           states == {state[d] : d \in some}
<1>1. Fits(agg, v, all)
  <2>1. IsFiniteSet(all)
    BY <1>0, FiniteUnion DEF Fits
  <2> QED BY <2>1 DEF Fits
<1>2. IsFiniteSet(some) /\ IsFiniteSet(D \ some) /\ some \cup (D \ some) = D
  BY FS_Subset, FS_Difference
<1>3. CASE agg \in {"count", "sum"}
  <2> DEFINE f == IF agg = "count" THEN [r \in all |-> 1] ELSE v
             g == [d \in D |-> Coalesce(state[d], 0)]
  <2>1. \A d \in D : IsFiniteSet(part[d]) /\ part[d] \subseteq all
    BY DEF Fits
  <2>2. \A d \in D : \A r \in part[d] : f[r] \in Int
    BY <1>3 DEF Fits
  <2>3. \A A \in SUBSET all : agg = "count" => Cardinality(A) = Total(f, A)
    <3> SUFFICES ASSUME NEW A \in SUBSET all, agg = "count"
                 PROVE  Cardinality(A) = Total(f, A)
      OBVIOUS
    <3>1. IsFiniteSet(A)
      BY <1>1, FS_Subset DEF Fits
    <3>2. Cardinality(A) = Total([r \in A |-> 1], A)
      BY <3>1, CountIsTotal
    <3>3. Total([r \in A |-> 1], A) = Total(f, A)
      <4>1. \A r \in A : [q \in A |-> 1][r] \in Int /\ [q \in A |-> 1][r] = f[r]
        OBVIOUS
      <4> HIDE DEF f
      <4> QED BY <3>1, <4>1, TotalSame
    <3> QED BY <3>2, <3>3
  <2>4. \A d \in D : g[d] = Total(f, part[d])
    <3> SUFFICES ASSUME NEW d \in D PROVE Coalesce(state[d], 0) = Total(f, part[d])
      OBVIOUS
    <3>1. CASE agg = "count"
      BY <2>1, <2>3, <3>1 DEF Stands
    <3>2. CASE agg = "sum"
      BY <3>2 DEF Stands
    <3> QED BY <1>3, <3>1, <3>2
  <2>5. Total(g, D) = Total(f, all)
    <3> HIDE DEF f, g
    <3> QED BY <1>0, <2>1, <2>2, <2>4, TotalOfTotals
  <2>6. \A d \in D : state[d] \in Int \cup {Null}
    BY <1>3 DEF Stands
  <2>7. \A d \in D : g[d] \in Int
    BY <2>6 DEF Coalesce
  <2>8. Total(g, D \ some) = 0
    <3>1. \A d \in D \ some : g[d] = 0
      BY DEF Coalesce
    <3> HIDE DEF g
    <3> QED BY <1>2, <3>1, TotalOfZeros
  <2>9. Total(g, some) = Total(state, some)
    <3>1. \A d \in some : state[d] \in Int /\ state[d] = g[d]
      BY <2>6 DEF Coalesce
    <3> HIDE DEF g, some
    <3> QED BY <1>2, <3>1, TotalSame
  <2>10. Total(g, D) = Total(g, some) + Total(g, D \ some) /\ Total(g, some) \in Int
    <3>1. \A d \in some \cup (D \ some) : g[d] \in Int
      BY <2>7
    <3>2. some \cap (D \ some) = {}
      OBVIOUS
    <3> HIDE DEF g, some
    <3> QED BY <1>2, <3>1, <3>2, TotalUnion, TotalStep
  <2>11. Total(f, all) = Total(state, some) /\ Total(state, some) \in Int
    <3> HIDE DEF f, g, some
    <3> QED BY <2>5, <2>8, <2>9, <2>10
  <2>12. some = {} => Total(state, some) = 0
    BY TotalStep, FS_EmptySet
  <2>13. agg = "count" => Total(f, all) = Cardinality(all)
    BY <2>3
  <2>14. agg = "sum" => f = v
    OBVIOUS
  <2>15. StateAgg(agg, state) = IF some = {} THEN Null ELSE Total(state, some)
    BY <1>3 DEF StateAgg, Sets
  <2>16. Coalesce(StateAgg(agg, state), 0) = Total(f, all)
         /\ StateAgg(agg, state) \in Int \cup {Null}
    <3> HIDE DEF f, g, some
    <3> QED BY <2>11, <2>12, <2>15, NullAssumption DEF Coalesce
  <2>17. Stands(agg, StateAgg(agg, state), v, all)
    <3> HIDE DEF f, g, some
    <3> QED BY <1>3, <2>13, <2>14, <2>16 DEF Stands
  <2> QED BY <1>1, <2>17
<1>4. ASSUME NEW d \in D, agg \in {"min", "max"}
      PROVE  /\ IsFiniteSet(ValuesOf(v, part[d])) /\ ValuesOf(v, part[d]) \subseteq Int
             /\ state[d] = Null <=> part[d] = {}
             /\ part[d] # {} =>
                  /\ state[d] \in ValuesOf(v, part[d])
                  /\ agg = "min" => \A y \in ValuesOf(v, part[d]) : state[d] <= y
                  /\ agg = "max" => \A y \in ValuesOf(v, part[d]) : y <= state[d]
  <2> DEFINE vals == ValuesOf(v, part[d])
  <2>1. IsFiniteSet(vals) /\ vals \subseteq Int
    BY ValuesType
  <2>2. part[d] # {} => vals # {}
    BY DEF ValuesOf
  <2>3. Stands(agg, state[d], v, part[d])
    OBVIOUS
  <2>4. state[d] = IF part[d] = {} THEN Null ELSE IF agg = "min" THEN Min(vals) ELSE Max(vals)
    BY <1>4, <2>3 DEF Stands
  <2> HIDE DEF vals
  <2>5. part[d] # {} => /\ Min(vals) \in vals /\ \A y \in vals : Min(vals) <= y
                        /\ Max(vals) \in vals /\ \A y \in vals : y <= Max(vals)
    BY <2>1, <2>2, MinIs, MaxIs
  <2>6. part[d] # {} => Min(vals) # Null /\ Max(vals) # Null
    BY <2>1, <2>5, NullAssumption
  <2> QED BY <1>4, <2>1, <2>4, <2>5, <2>6 DEF vals
<1>5. CASE agg \in {"min", "max"}
  <2>1. all = {} <=> some = {}
    BY <1>4, <1>5
  <2>2. some = {} => StateAgg(agg, state) = Null
    BY <1>5 DEF StateAgg, Sets
  <2>3. CASE some = {}
    BY <1>1, <1>5, <2>1, <2>2, <2>3 DEF Stands
  <2>4. CASE some # {}
    <3>1. IsFiniteSet(states)
      BY <1>2, FiniteImage
    <3>2. states # {} /\ states \subseteq Int
      BY <1>4, <1>5, <2>4
    <3>3. /\ Min(states) \in states /\ \A y \in states : Min(states) <= y
          /\ Max(states) \in states /\ \A y \in states : y <= Max(states)
      <4> HIDE DEF states
      <4> QED BY <3>1, <3>2, MinIs, MaxIs
    <3>4. ValuesOf(v, all) \subseteq Int
      BY <1>1, ValuesType
    <3>5. states \subseteq ValuesOf(v, all)
      <4>1. \A d \in D : ValuesOf(v, part[d]) \subseteq ValuesOf(v, all)
        BY DEF ValuesOf
      <4>2. \A d \in some : state[d] \in ValuesOf(v, part[d])
        BY <1>4, <1>5
      <4> QED BY <4>1, <4>2
    <3>6. ASSUME NEW y \in ValuesOf(v, all)
          PROVE  \E d \in some : y \in ValuesOf(v, part[d]) /\ part[d] # {}
      <4>1. PICK d \in D : y \in ValuesOf(v, part[d]) /\ part[d] # {}
        BY DEF ValuesOf
      <4> QED BY <1>4, <1>5, <4>1
    <3>7. CASE agg = "min"
      <4>1. ASSUME NEW y \in ValuesOf(v, all) PROVE Min(states) <= y
        <5>1. PICK d \in some : y \in ValuesOf(v, part[d]) /\ part[d] # {}
          BY <3>6
        <5>2. state[d] <= y /\ Min(states) <= state[d]
          BY <1>4, <3>3, <3>7, <5>1
        <5>3. y \in Int /\ state[d] \in Int /\ Min(states) \in Int
          BY <3>2, <3>3, <3>4
        <5> HIDE DEF states
        <5> QED BY <5>2, <5>3
      <4>2. Min(states) \in ValuesOf(v, all)
        BY <3>3, <3>5
      <4>3. Min(ValuesOf(v, all)) = Min(states)
        <5> HIDE DEF states
        <5> QED BY <3>4, <4>1, <4>2, MinUnique
      <4>4. StateAgg(agg, state) = Min(states)
        BY <2>4, <3>7 DEF StateAgg, Sets
      <4>5. Stands(agg, StateAgg(agg, state), v, all)
        <5> HIDE DEF states, some
        <5> QED BY <2>1, <2>4, <3>7, <4>3, <4>4 DEF Stands
      <4> QED BY <1>1, <4>5
    <3>8. CASE agg = "max"
      <4>1. ASSUME NEW y \in ValuesOf(v, all) PROVE y <= Max(states)
        <5>1. PICK d \in some : y \in ValuesOf(v, part[d]) /\ part[d] # {}
          BY <3>6
        <5>2. y <= state[d] /\ state[d] <= Max(states)
          BY <1>4, <3>3, <3>8, <5>1
        <5>3. y \in Int /\ state[d] \in Int /\ Max(states) \in Int
          BY <3>2, <3>3, <3>4
        <5> HIDE DEF states
        <5> QED BY <5>2, <5>3
      <4>2. Max(states) \in ValuesOf(v, all)
        BY <3>3, <3>5
      <4>3. Max(ValuesOf(v, all)) = Max(states)
        <5> HIDE DEF states
        <5> QED BY <3>4, <4>1, <4>2, MaxUnique
      <4>4. StateAgg(agg, state) = Max(states)
        BY <2>4, <3>8 DEF StateAgg, Sets
      <4>5. Stands(agg, StateAgg(agg, state), v, all)
        <5> HIDE DEF states, some
        <5> QED BY <2>1, <2>4, <3>8, <4>3, <4>4 DEF Stands
      <4> QED BY <1>1, <4>5
    <3> QED BY <1>5, <3>7, <3>8
  <2> QED BY <2>3, <2>4
<1>6. UnionOf(states) = UNION {Elements(state[d]) : d \in D}
  BY DEF UnionOf, Elements
<1>7. CASE agg = "distinct_exact"
  <2>1. \A d \in D : Elements(state[d]) = ValuesOf(v, part[d])
    BY <1>7 DEF Stands
  <2>2. UnionOf(states) = ValuesOf(v, all)
    BY <1>6, <2>1 DEF ValuesOf
  <2>3. StateAgg(agg, state) = UnionOf(states)
    BY <1>7 DEF StateAgg, Sets
  <2>4. ValuesOf(v, all) # Null
    <3> QED BY <1>1, <1>7, ArraysAreNotNull DEF Sets
  <2>5. Stands(agg, StateAgg(agg, state), v, all)
    <3> HIDE DEF states
    <3> QED BY <1>7, <2>2, <2>3, <2>4 DEF Stands, Elements
  <2> QED BY <1>1, <2>5
<1>8. CASE agg = "distinct_approx"
  <2> DEFINE parts == {HashesOf(v, part[d]) : d \in D}
  <2>1. \A d \in D : Elements(state[d]) = Smallest(HashesOf(v, part[d]), K)
    BY <1>8 DEF Stands
  <2>2. HashesOf(v, all) = UNION parts
    BY DEF HashesOf, ValuesOf
  <2>3. IsFiniteSet(UNION parts) /\ UNION parts \subseteq Int
    <3> HIDE DEF parts
    <3>1. IsFiniteSet(HashesOf(v, all)) /\ HashesOf(v, all) \subseteq Nat
      BY <1>1, <1>8, ValuesType DEF Sets
    <3> QED BY <2>2, <3>1
  <2>4. /\ \A S \in parts : Smallest(S, K) \subseteq UnionOf(states)
        /\ UnionOf(states) \in SUBSET (UNION parts)
    <3>1. \A S \in parts : Smallest(S, K) \subseteq S
      BY DEF Smallest
    <3> HIDE DEF states
    <3> QED BY <1>6, <2>1, <3>1
  <2>5. Smallest(UnionOf(states), K) = Smallest(HashesOf(v, all), K)
    <3> HIDE DEF states, parts
    <3> QED BY <2>2, <2>3, <2>4, SketchOfUnion
  <2>6. StateAgg(agg, state) = Smallest(UnionOf(states), K)
    BY <1>8 DEF StateAgg, Sets
  <2>7. Smallest(HashesOf(v, all), K) # Null
    <3> QED BY <1>1, <1>8, ArraysAreNotNull DEF Sets
  <2>8. Stands(agg, StateAgg(agg, state), v, all)
    <3> HIDE DEF states
    <3> QED BY <1>8, <2>5, <2>6, <2>7 DEF Stands, Elements
  <2> QED BY <1>1, <2>8
<1> QED BY <1>3, <1>5, <1>7, <1>8 DEF Aggregate, Sets

\* Merging two states gives a state of the rows of both.
LEMMA MergeStands ==
    ASSUME NEW agg, NEW v, NEW A, NEW B, Fits(agg, v, A), Fits(agg, v, B), A \cap B = {},
           NEW x, Stands(agg, x, v, A), NEW y, Stands(agg, y, v, B)
    PROVE  Fits(agg, v, A \cup B) /\ Stands(agg, Merge(agg, x, y), v, A \cup B)
<1>1. Fits(agg, v, A \cup B)
  BY FS_Union DEF Fits
<1>2. ValuesOf(v, A \cup B) = ValuesOf(v, A) \cup ValuesOf(v, B)
  BY DEF ValuesOf
<1>3. UnionOf({x, y}) = Elements(x) \cup Elements(y)
  BY DEF UnionOf, Elements
<1>4. CASE agg \in {"count", "sum"}
  <2>1. agg = "count" =>
           /\ Cardinality(A \cup B) = Cardinality(A) + Cardinality(B)
           /\ Cardinality(A) \in Int /\ Cardinality(B) \in Int
    <3>1. IsFiniteSet(A) /\ IsFiniteSet(B)
      BY DEF Fits
    <3>2. Cardinality(A \cup B) = Cardinality(A) + Cardinality(B) - Cardinality(A \cap B)
      BY <3>1, FS_Union
    <3>3. Cardinality(A \cap B) = 0 /\ Cardinality(A) \in Nat /\ Cardinality(B) \in Nat
      BY <3>1, FS_EmptySet, FS_CardinalityType
    <3> QED BY <3>2, <3>3
  <2>2. agg = "sum" => /\ Total(v, A \cup B) = Total(v, A) + Total(v, B)
                       /\ Total(v, A) \in Int /\ Total(v, B) \in Int
    BY <1>1, TotalUnion, TotalStep DEF Fits
  <2>3. Merge(agg, x, y) = Coalesce(x, 0) + Coalesce(y, 0)
    BY <1>4 DEF Merge
  <2>4. Merge(agg, x, y) \in Int /\ Merge(agg, x, y) # Null
    BY <1>4, <2>1, <2>2, <2>3, NullAssumption DEF Stands
  <2>5. Coalesce(Merge(agg, x, y), 0) = Merge(agg, x, y)
    BY <2>4 DEF Coalesce
  <2>6. agg = "count" => Merge(agg, x, y) = Cardinality(A \cup B)
    BY <2>1, <2>3 DEF Stands
  <2>7. agg = "sum" => Merge(agg, x, y) = Total(v, A \cup B)
    BY <2>2, <2>3 DEF Stands
  <2> QED BY <1>1, <1>4, <2>4, <2>5, <2>6, <2>7 DEF Stands
<1>5. CASE agg \in {"min", "max"}
  <2> DEFINE va == ValuesOf(v, A)
             vb == ValuesOf(v, B)
  <2>1. /\ IsFiniteSet(va) /\ va \subseteq Int /\ (A = {} <=> va = {})
        /\ IsFiniteSet(vb) /\ vb \subseteq Int /\ (B = {} <=> vb = {})
    <3>1. (A = {} <=> va = {}) /\ (B = {} <=> vb = {})
      BY DEF ValuesOf
    <3> QED BY <3>1, ValuesType
  <2>2. /\ agg = "min" => /\ x = IF A = {} THEN Null ELSE Min(va)
                          /\ y = IF B = {} THEN Null ELSE Min(vb)
                          /\ Merge(agg, x, y) = Least2(x, y)
        /\ agg = "max" => /\ x = IF A = {} THEN Null ELSE Max(va)
                          /\ y = IF B = {} THEN Null ELSE Max(vb)
                          /\ Merge(agg, x, y) = Greatest2(x, y)
    BY DEF Stands, Merge
  <2> HIDE DEF va, vb
  <2>3. A # {} => /\ Min(va) \in va /\ (\A z \in va : Min(va) <= z) /\ Min(va) # Null
                  /\ Max(va) \in va /\ (\A z \in va : z <= Max(va)) /\ Max(va) # Null
    BY <2>1, MinIs, MaxIs, NullAssumption
  <2>4. B # {} => /\ Min(vb) \in vb /\ (\A z \in vb : Min(vb) <= z) /\ Min(vb) # Null
                  /\ Max(vb) \in vb /\ (\A z \in vb : z <= Max(vb)) /\ Max(vb) # Null
    BY <2>1, MinIs, MaxIs, NullAssumption
  <2>5. CASE A = {} \/ B = {}
    <3>1. A = {} => va \cup vb = vb /\ A \cup B = B
      BY <2>1
    <3>2. B = {} => va \cup vb = va /\ A \cup B = A
      BY <2>1
    <3>3. CASE agg = "min"
      <4>1. Least2(x, y) = IF A \cup B = {} THEN Null ELSE Min(va \cup vb)
        BY <2>2, <2>3, <2>4, <2>5, <3>1, <3>2, <3>3 DEF Least2
      <4> QED BY <1>1, <1>2, <2>2, <3>3, <4>1 DEF Stands, va, vb
    <3>4. CASE agg = "max"
      <4>1. Greatest2(x, y) = IF A \cup B = {} THEN Null ELSE Max(va \cup vb)
        BY <2>2, <2>3, <2>4, <2>5, <3>1, <3>2, <3>4 DEF Greatest2
      <4> QED BY <1>1, <1>2, <2>2, <3>4, <4>1 DEF Stands, va, vb
    <3> QED BY <1>5, <3>3, <3>4
  <2>6. CASE A # {} /\ B # {}
    <3>1. va \cup vb \subseteq Int /\ A \cup B # {}
      BY <2>1, <2>6
    <3>2. CASE agg = "min"
      <4> DEFINE z == Least2(x, y)
      <4>1. x \in Int /\ y \in Int /\ z = IF x <= y THEN x ELSE y
        BY <2>1, <2>2, <2>3, <2>4, <2>6, <3>2 DEF Least2
      <4>2. \A u \in va \cup vb : z <= u
        BY <2>1, <2>2, <2>3, <2>4, <2>6, <3>2, <4>1
      <4>3. z \in va \cup vb
        BY <2>2, <2>3, <2>4, <2>6, <3>2, <4>1
      <4>4. Min(va \cup vb) = z
        <5> HIDE DEF z
        <5> QED BY <3>1, <4>2, <4>3, MinUnique
      <4> QED BY <1>1, <1>2, <2>2, <3>1, <3>2, <4>4 DEF Stands, va, vb
    <3>3. CASE agg = "max"
      <4> DEFINE z == Greatest2(x, y)
      <4>1. x \in Int /\ y \in Int /\ z = IF x >= y THEN x ELSE y
        BY <2>1, <2>2, <2>3, <2>4, <2>6, <3>3 DEF Greatest2
      <4>2. \A u \in va \cup vb : u <= z
        BY <2>1, <2>2, <2>3, <2>4, <2>6, <3>3, <4>1
      <4>3. z \in va \cup vb
        BY <2>2, <2>3, <2>4, <2>6, <3>3, <4>1
      <4>4. Max(va \cup vb) = z
        <5> HIDE DEF z
        <5> QED BY <3>1, <4>2, <4>3, MaxUnique
      <4> QED BY <1>1, <1>2, <2>2, <3>1, <3>3, <4>4 DEF Stands, va, vb
    <3> QED BY <1>5, <3>2, <3>3
  <2> QED BY <2>5, <2>6
<1>6. CASE agg = "distinct_exact"
  <2>1. Merge(agg, x, y) = ValuesOf(v, A \cup B)
    BY <1>2, <1>3, <1>6 DEF Merge, Stands
  <2>2. ValuesOf(v, A \cup B) # Null
    BY <1>1, <1>6, ArraysAreNotNull DEF Sets
  <2> QED BY <1>1, <1>6, <2>1, <2>2 DEF Stands, Elements
<1>7. CASE agg = "distinct_approx"
  <2> DEFINE parts == {HashesOf(v, A), HashesOf(v, B)}
  <2>1. HashesOf(v, A \cup B) = UNION parts
    BY <1>2 DEF HashesOf
  <2>2. IsFiniteSet(UNION parts) /\ UNION parts \subseteq Int
    <3>1. IsFiniteSet(HashesOf(v, A \cup B)) /\ HashesOf(v, A \cup B) \subseteq Nat
      BY <1>1, <1>7, ValuesType DEF Sets
    <3>2. \A S : S \subseteq Nat => S \subseteq Int
      OBVIOUS
    <3> HIDE DEF parts
    <3> QED BY <2>1, <3>1, <3>2
  <2>3. /\ \A S \in parts : Smallest(S, K) \subseteq UnionOf({x, y})
        /\ UnionOf({x, y}) \in SUBSET (UNION parts)
    <3>1. \A S \in parts : Smallest(S, K) \subseteq S
      BY DEF Smallest
    <3> QED BY <1>3, <1>7, <3>1 DEF Stands
  <2>4. Smallest(UnionOf({x, y}), K) = Smallest(HashesOf(v, A \cup B), K)
    <3> HIDE DEF parts
    <3> QED BY <2>1, <2>2, <2>3, SketchOfUnion
  <2>5. Smallest(HashesOf(v, A \cup B), K) # Null
    BY <1>1, <1>7, ArraysAreNotNull DEF Sets
  <2> QED BY <1>1, <1>7, <2>4, <2>5 DEF Stands, Elements, Merge
<1> QED BY <1>4, <1>5, <1>6, <1>7 DEF Fits, Aggregate, Sets

\* A state depends on the values in its rows alone.
LEMMA StandsSame ==
    ASSUME NEW agg, NEW v, NEW w, NEW S, Fits(agg, v, S), \A r \in S : v[r] = w[r], NEW x,
           Stands(agg, x, v, S)
    PROVE  Stands(agg, x, w, S)
<1>1. ValuesOf(w, S) = ValuesOf(v, S)
  BY DEF ValuesOf
<1>2. HashesOf(w, S) = HashesOf(v, S)
  BY <1>1 DEF HashesOf
<1>3. Total(w, S) = Total(v, S)
  BY TotalSame DEF Fits
<1> QED BY <1>1, <1>2, <1>3 DEF Stands

LEMMA EstimateType ==
    ASSUME NEW S, IsFiniteSet(S), S \subseteq Nat
    PROVE  Estimate(S) \in Nat
<1>1. CASE S = Null \/ S = {}
  <2>1. ArraySize(S) = 0
    BY <1>1, FS_EmptySet DEF ArraySize
  <2> QED BY <2>1, KmvAssumption DEF Estimate
<1>2. CASE S # Null /\ S # {}
  <2>1. ArraySize(S) \in Nat
    BY <1>2, FS_CardinalityType DEF ArraySize
  <2>2. Max(S) \in Nat
    <3>1. S \subseteq Int
      OBVIOUS
    <3>2. Max(S) \in S
      BY <1>2, <3>1, MaxIs
    <3> QED BY <3>2
  <2>3. (K - 1) * HashMod \in Nat
    BY KmvAssumption
  <2> DEFINE scaled == (K - 1) * HashMod
             kth == Max(S)
  <2>4. Estimate(S) = IF ArraySize(S) < K \/ kth = 0 THEN ArraySize(S)
                      ELSE IF Rounds THEN (2 * scaled + kth) \div (2 * kth) ELSE scaled \div kth
    BY DEF Estimate
  <2>5. scaled \in Nat /\ kth \in Nat
    BY <2>2, <2>3
  <2> HIDE DEF scaled, kth
  <2>6. kth # 0 => (2 * scaled + kth) \div (2 * kth) \in Nat /\ scaled \div kth \in Nat
    BY <2>5
  <2> QED BY <2>1, <2>4, <2>6
<1> QED BY <1>1, <1>2

LEMMA ValueType ==
    ASSUME NEW agg \in ZeroFilled, NEW v, NEW S, Fits(agg, v, S)
    PROVE  /\ Value(agg, v, S) \in Int /\ Value(agg, v, S) # Null
           /\ S = {} => Value(agg, v, S) = 0
<1>1. agg \in {"count", "sum", "distinct_exact", "distinct_approx"}
  BY DEF ZeroFilled, Sets
<1>2. CASE agg = "count"
  <2>1. Value(agg, v, S) = Cardinality(S)
    BY <1>2 DEF Value
  <2>2. Cardinality(S) \in Nat /\ (S = {} => Cardinality(S) = 0)
    BY FS_CardinalityType, FS_EmptySet DEF Fits
  <2> QED BY <2>1, <2>2, NullAssumption
<1>3. CASE agg = "sum"
  <2>1. Value(agg, v, S) = Total(v, S)
    BY <1>3 DEF Value
  <2>2. Total(v, S) \in Int /\ Total(v, {}) = 0
    BY TotalStep DEF Fits
  <2> QED BY <2>1, <2>2, NullAssumption
<1>4. CASE agg = "distinct_exact"
  <2>1. IsFiniteSet(ValuesOf(v, S)) /\ (S = {} => ValuesOf(v, S) = {})
    BY ValuesType DEF ValuesOf
  <2>2. Value(agg, v, S) = Cardinality(ValuesOf(v, S))
    BY <1>4 DEF Value
  <2>3. Cardinality(ValuesOf(v, S)) \in Nat /\ (S = {} => Cardinality(ValuesOf(v, S)) = 0)
    BY <2>1, FS_CardinalityType, FS_EmptySet
  <2> QED BY <2>2, <2>3, NullAssumption
<1>5. CASE agg = "distinct_approx"
  <2>1. IsFiniteSet(HashesOf(v, S)) /\ HashesOf(v, S) \subseteq Nat
    BY <1>5, ValuesType DEF Sets
  <2>2. Estimate(Smallest(HashesOf(v, S), K)) \in Nat
    BY <2>1, SmallestType, EstimateType
  <2>3. ASSUME S = {} PROVE Estimate(Smallest(HashesOf(v, S), K)) = 0
    <3>1. HashesOf(v, S) = {} /\ Smallest({}, K) = {}
      BY <2>3 DEF HashesOf, ValuesOf, Smallest
    <3>2. ArraySize({}) = 0
      BY FS_EmptySet DEF ArraySize
    <3>3. Estimate({}) = 0
      BY <3>2, KmvAssumption DEF Estimate
    <3> QED BY <3>1, <3>3
  <2>4. Value(agg, v, S) = Estimate(Smallest(HashesOf(v, S), K))
    BY <1>5 DEF Value
  <2> QED BY <2>2, <2>3, <2>4, NullAssumption
<1> QED BY <1>1, <1>2, <1>3, <1>4, <1>5

-----------------------------------------------------------------------------
(***************************************************************************)
(* The estimate of a sketch: it never falls when values are added.         *)
(***************************************************************************)

LEMMA TimesGrows ==
    ASSUME NEW q \in Nat, NEW x \in Nat, NEW y \in Nat, x <= y
    PROVE  q * x <= q * y
OBVIOUS

LEMMA DivIs ==
    ASSUME NEW a \in Nat, NEW x \in Nat \ {0}
    PROVE  /\ a \div x \in Nat /\ (a \div x) * x <= a
           /\ \A q \in Nat : q * x <= a => q <= a \div x
<1>1. a \div x \in Nat
  OBVIOUS
<1> DEFINE d == a \div x
<1>2. d * x <= a /\ a < d * x + x
  OBVIOUS
<1>3. ASSUME NEW q \in Nat, q * x <= a PROVE q <= d
  <2>1. CASE q >= d + 1
    <3>1. d \in Nat
      BY <1>1
    <3> HIDE DEF d
    <3>2. q = (d + 1) + (q - (d + 1)) /\ q - (d + 1) \in Nat
      BY <2>1, <3>1
    <3>3. q * x = (d + 1) * x + (q - (d + 1)) * x
      BY <3>1
    <3>4. (q - (d + 1)) * x \in Nat
      BY <3>2
    <3>5. (d + 1) * x = d * x + x
      BY <3>1
    <3>6. d * x \in Nat
      BY <3>1
    <3>7. q * x \in Nat /\ (d + 1) * x \in Nat
      BY <3>1
    <3> HIDE DEF d
    <3> QED BY <1>2, <1>3, <3>3, <3>4, <3>5, <3>6, <3>7
  <2> QED BY <1>1, <2>1
<1> QED BY <1>1, <1>2, <1>3

\* What a quotient loses by a greater divisor, truncated or rounded.
LEMMA DivFalls ==
    ASSUME NEW a \in Nat, NEW x \in Nat \ {0}, NEW y \in Nat, x <= y
    PROVE  a \div y <= a \div x
<1> DEFINE q == a \div y
<1>1. q \in Nat /\ q * y <= a
  BY DivIs
<1>2. q * x <= q * y /\ q * x \in Nat /\ q * y \in Nat
  <2> HIDE DEF q
  <2> QED BY <1>1, TimesGrows
<1>3. q * x <= a
  <2> HIDE DEF q
  <2> QED BY <1>1, <1>2
<1> HIDE DEF q
<1>4. q <= a \div x
  BY <1>1, <1>3, DivIs
<1> QED BY <1>4 DEF q

LEMMA RoundFalls ==
    ASSUME NEW a \in Nat, NEW x \in Nat \ {0}, NEW y \in Nat, x <= y
    PROVE  (2 * a + y) \div (2 * y) <= (2 * a + x) \div (2 * x)
<1> DEFINE q == (2 * a + y) \div (2 * y)
<1>1. q \in Nat /\ q * (2 * y) <= 2 * a + y
  <2>1. 2 * a + y \in Nat /\ 2 * y \in Nat \ {0}
    OBVIOUS
  <2> QED BY <2>1, DivIs
<1> HIDE DEF q
<1>2. q * (2 * x) <= 2 * a + x
  <2>1. CASE q = 0
    BY <2>1
  <2>2. CASE q # 0
    <3> DEFINE p == 2 * q - 1
    <3>1. p \in Nat
      BY <1>1, <2>2
    <3>2. p * y = q * (2 * y) - y /\ p * x = q * (2 * x) - x
      BY <1>1
    <3>3. p * x <= p * y /\ p * x \in Nat /\ p * y \in Nat
      <4> HIDE DEF p
      <4> QED BY <3>1, TimesGrows
    <3>4. q * (2 * y) \in Nat /\ q * (2 * x) \in Nat
      BY <1>1
    <3> HIDE DEF p
    <3> QED BY <1>1, <3>2, <3>3, <3>4
  <2> QED BY <2>1, <2>2
<1>3. 2 * a + x \in Nat /\ 2 * x \in Nat \ {0}
  OBVIOUS
<1>4. q <= (2 * a + x) \div (2 * x)
  BY <1>1, <1>2, <1>3, DivIs
<1> QED BY <1>4 DEF q

\* n units over a part of a unit are at least n.
LEMMA DivAtLeast ==
    ASSUME NEW n \in Nat, NEW m \in Nat, NEW x \in Nat \ {0}, x <= m
    PROVE  n <= (n * m) \div x /\ n <= (2 * (n * m) + x) \div (2 * x)
<1>1. n * x <= n * m /\ n * m \in Nat /\ n * x \in Nat
  BY TimesGrows
<1>2. n <= (n * m) \div x
  BY <1>1, DivIs
<1>3. n * (2 * x) = 2 * (n * x)
  OBVIOUS
<1> DEFINE a == n * m
<1>4. n * (2 * x) <= 2 * a + x /\ 2 * a + x \in Nat /\ 2 * x \in Nat \ {0}
  <2>1. a \in Nat /\ n * x <= a
    BY <1>1
  <2> HIDE DEF a
  <2> QED BY <1>1, <1>3, <2>1
<1>5. n <= (2 * a + x) \div (2 * x)
  <2> HIDE DEF a
  <2> QED BY <1>4, DivIs
<1> QED BY <1>2, <1>5

\* More values are never estimated to be fewer.
LEMMA EstimateGrows ==
    ASSUME NEW S, IsFiniteSet(S), S \subseteq 0 .. HashMod - 1, NEW A \in SUBSET S,
           Smallest(A, K) # Null, Smallest(S, K) # Null
    PROVE  Estimate(Smallest(A, K)) <= Estimate(Smallest(S, K))
<1> DEFINE few    == Smallest(A, K)
           many   == Smallest(S, K)
           scaled == (K - 1) * HashMod
<1>1. K \in Nat \ {0} /\ K - 1 \in Nat /\ HashMod \in Nat /\ Rounds \in BOOLEAN /\ scaled \in Nat
  BY KmvAssumption
<1>2. IsFiniteSet(A) /\ A \subseteq Int /\ S \subseteq Int /\ S \subseteq Nat
  <2>1. S \subseteq Int /\ S \subseteq Nat
    BY <1>1
  <2> QED BY <2>1, FS_Subset
<1>3. /\ IsFiniteSet(few) /\ IsFiniteSet(many) /\ few \subseteq A /\ many \subseteq S
      /\ Cardinality(few) \in Nat /\ Cardinality(many) \in Nat
  BY <1>2, SmallestType, FS_CardinalityType
<1>4. /\ Cardinality(few) <= Cardinality(many)
      /\ Cardinality(few) <= K /\ Cardinality(many) <= K
  BY <1>1, <1>2, SmallestOfMore, SmallestAtMost
<1>5. few # {} => Max(few) \in few /\ Max(few) \in Nat
  <2>1. few \subseteq Int /\ few \subseteq Nat
    BY <1>2, <1>3
  <2> HIDE DEF few
  <2> QED BY <1>3, <2>1, MaxIs
<1>6. many # {} => Max(many) \in many /\ Max(many) \in Nat /\ Max(many) < HashMod
                   /\ \A y \in many : y <= Max(many)
  <2>1. many \subseteq Int /\ many \subseteq Nat /\ \A y \in many : y < HashMod
    <3>1. \A y \in S : y < HashMod
      BY <1>1
    <3> HIDE DEF many
    <3> QED BY <1>2, <1>3, <3>1
  <2> HIDE DEF many
  <2>2. many # {} => Max(many) \in many /\ \A y \in many : y <= Max(many)
    BY <1>3, <2>1, MaxIs
  <2> QED BY <2>1, <2>2
<1>7. K <= Cardinality(few) => Max(many) <= Max(few) /\ few # {} /\ many # {}
  <2>1. K <= Cardinality(few) => few # {} /\ many # {}
    BY <1>1, <1>3, <1>4, FS_EmptySet
  <2>2. K <= Cardinality(few) => \A x \in many : few # {} => x <= Max(few)
    BY <1>1, <1>2, SmallestOfMore
  <2> HIDE DEF few, many
  <2> QED BY <1>6, <2>1, <2>2
<1>8. K <= Cardinality(many) => many # {}
  BY <1>1, <1>3, FS_EmptySet
<1>9. /\ Estimate(few) = IF Cardinality(few) < K \/ Max(few) = 0 THEN Cardinality(few)
                         ELSE IF Rounds THEN (2 * scaled + Max(few)) \div (2 * Max(few))
                         ELSE scaled \div Max(few)
      /\ Estimate(many) = IF Cardinality(many) < K \/ Max(many) = 0 THEN Cardinality(many)
                          ELSE IF Rounds THEN (2 * scaled + Max(many)) \div (2 * Max(many))
                          ELSE scaled \div Max(many)
  BY DEF Estimate, ArraySize
<1> SUFFICES Estimate(few) <= Estimate(many)
  OBVIOUS
<1> HIDE DEF few, many, scaled
<1>10. CASE Cardinality(many) < K
  BY <1>1, <1>3, <1>4, <1>9, <1>10
<1>11. CASE K <= Cardinality(many) /\ Max(many) = 0
  <2>1. many \subseteq {0}
    <3>1. \A y \in many : y <= 0 /\ y \in Nat
      BY <1>2, <1>3, <1>6, <1>11
    <3> QED BY <3>1
  <2>2. Cardinality(many) <= 1 /\ K = 1 /\ Cardinality(many) = 1
    <3>1. Cardinality(many) <= Cardinality({0}) /\ Cardinality({0}) = 1
      BY <2>1, FS_Singleton, FS_Subset
    <3> QED BY <1>1, <1>3, <1>11, <3>1
  <2>3. scaled = 0
    BY <1>1, <2>2 DEF scaled
  <2>4. Estimate(many) = 1
    BY <1>9, <1>11, <2>2
  <2>5. CASE Cardinality(few) < K \/ Max(few) = 0
    BY <1>3, <1>4, <1>9, <2>2, <2>4, <2>5
  <2>6. CASE ~(Cardinality(few) < K) /\ Max(few) # 0
    <3>1. Max(few) \in Nat \ {0}
      BY <1>1, <1>3, <1>5, <1>7, <2>6
    <3>2. ASSUME NEW m \in Nat \ {0} PROVE 0 \div m = 0 /\ (2 * 0 + m) \div (2 * m) = 0
      OBVIOUS
    <3>3. Estimate(few) = 0
      BY <1>9, <2>3, <2>6, <3>1, <3>2
    <3> QED BY <2>4, <3>3
  <2> QED BY <2>5, <2>6
<1>12. CASE K <= Cardinality(many) /\ Max(many) # 0
  <2> DEFINE m == Max(many)
  <2>1. m \in Nat \ {0} /\ m <= HashMod
    BY <1>1, <1>6, <1>8, <1>12
  <2>2. Estimate(many) = IF Rounds THEN (2 * scaled + m) \div (2 * m) ELSE scaled \div m
    BY <1>1, <1>3, <1>9, <1>12
  <2>3. K - 1 <= Estimate(many) /\ Estimate(many) \in Int
    <3> HIDE DEF m
    <3>1. K - 1 <= scaled \div m /\ K - 1 <= (2 * scaled + m) \div (2 * m)
      BY <1>1, <2>1, DivAtLeast DEF scaled
    <3>2. scaled \div m \in Int /\ (2 * scaled + m) \div (2 * m) \in Int
      BY <1>1, <2>1
    <3> QED BY <2>2, <3>1, <3>2
  <2>4. CASE Cardinality(few) < K
    <3>1. Estimate(few) = Cardinality(few) /\ Cardinality(few) <= K - 1
      BY <1>1, <1>3, <1>9, <2>4
    <3> HIDE DEF m
    <3> QED BY <1>1, <1>3, <2>3, <3>1
  <2>5. CASE K <= Cardinality(few)
    <3> DEFINE x == Max(few)
    <3>1. x \in Nat \ {0} /\ m <= x
      BY <1>5, <1>7, <2>1, <2>5
    <3>2. Estimate(few) = IF Rounds THEN (2 * scaled + x) \div (2 * x) ELSE scaled \div x
      BY <1>1, <1>3, <1>9, <2>5, <3>1
    <3> HIDE DEF m, x
    <3>3. /\ scaled \div x <= scaled \div m
          /\ (2 * scaled + x) \div (2 * x) <= (2 * scaled + m) \div (2 * m)
      BY <1>1, <2>1, <3>1, DivFalls, RoundFalls
    <3>4. Estimate(few) <= Estimate(many)
      BY <2>2, <3>2, <3>3
    <3> QED BY <3>4
  <2> QED BY <1>1, <1>3, <2>4, <2>5
<1> QED BY <1>1, <1>3, <1>10, <1>11, <1>12

\* A zero-filled value cannot fall when rows are added, if no amount is negative.
LEMMA ValueGrows ==
    ASSUME NEW agg \in ZeroFilled, NEW v, NEW S, Fits(agg, v, S), NEW A \in SUBSET S,
           \A r \in S : v[r] >= 0
    PROVE  Value(agg, v, A) <= Value(agg, v, S) /\ (agg # "sum" => Value(agg, v, S) \in Nat)
<1>1. agg \in {"count", "sum", "distinct_exact", "distinct_approx"}
  BY DEF ZeroFilled, Sets
<1>2. IsFiniteSet(S) /\ IsFiniteSet(A) /\ Fits(agg, v, A)
  BY FS_Subset DEF Fits
<1>3. ValuesOf(v, A) \subseteq ValuesOf(v, S) /\ HashesOf(v, A) \subseteq HashesOf(v, S)
  BY DEF ValuesOf, HashesOf
<1>4. CASE agg = "count"
  BY <1>2, <1>4, FS_Subset, FS_CardinalityType DEF Value
<1>5. CASE agg = "sum"
  <2>1. \A r \in S : v[r] \in Nat
    BY DEF Fits
  <2> QED BY <1>2, <1>5, <2>1, TotalGrows DEF Value
<1>6. CASE agg = "distinct_exact"
  <2>1. IsFiniteSet(ValuesOf(v, S))
    BY ValuesType
  <2>2. /\ Cardinality(ValuesOf(v, A)) <= Cardinality(ValuesOf(v, S))
        /\ Cardinality(ValuesOf(v, S)) \in Nat
    BY <1>3, <2>1, FS_Subset, FS_CardinalityType
  <2> QED BY <1>6, <2>2 DEF Value
<1>7. CASE agg = "distinct_approx"
  <2> DEFINE G == HashesOf(v, A)
             H == HashesOf(v, S)
  <2>1. agg \in Sets
    BY <1>7 DEF Sets
  <2>2. IsFiniteSet(H) /\ H \subseteq Nat /\ H \subseteq {Hash[x] : x \in DOMAIN Hash}
    BY <2>1, ValuesType
  <2>3. H \subseteq 0 .. HashMod - 1
    <3>1. {Hash[x] : x \in DOMAIN Hash} \subseteq 0 .. HashMod - 1
      BY KmvAssumption
    <3> HIDE DEF H
    <3> QED BY <2>2, <3>1
  <2>4. Smallest(G, K) # Null /\ Smallest(H, K) # Null
    BY <1>2, <2>1, ArraysAreNotNull
  <2>5. G \in SUBSET H
    BY <1>3
  <2>6. Value(agg, v, A) = Estimate(Smallest(G, K)) /\ Value(agg, v, S) = Estimate(Smallest(H, K))
    BY <1>7 DEF Value
  <2> HIDE DEF G, H
  <2>7. Estimate(Smallest(G, K)) <= Estimate(Smallest(H, K))
    BY <2>2, <2>3, <2>4, <2>5, EstimateGrows
  <2>8. Estimate(Smallest(H, K)) \in Nat
    <3>1. IsFiniteSet(Smallest(H, K)) /\ Smallest(H, K) \subseteq Nat
      BY <2>2, SmallestType
    <3> QED BY <3>1, EstimateType
  <2> QED BY <2>6, <2>7, <2>8
<1> QED BY <1>1, <1>4, <1>5, <1>6, <1>7

=============================================================================
