----------------------------- MODULE Aggregates -----------------------------
(***************************************************************************)
(* The aggregate algebra the generator compiles features to: every stored  *)
(* aggregation is a partial state per entity and day, a roll-up of many    *)
(* states, a merge of two and a finalisation.  NULL is "no data yet".      *)
(*                                                                         *)
(* An array is the set of its elements: each array macro drops duplicates  *)
(* and nulls, and order matters to fs_array_head only, which always gets a *)
(* sorted one.  The two methods of count_distinct are named apart here.    *)
(***************************************************************************)
EXTENDS Integers, FiniteSets, FiniteSetsExt

CONSTANTS
    Null,            \* SQL's NULL
    K,               \* settings.kmv_k: hashes a sketch keeps (at least 16 in a real spec)
    Hash,            \* value -> fs_hash_unit of it, in units of 1 / HashMod; NULL has one too
    HashMod,
    Rounds           \* the engine's cast of a double to bigint rounds (otherwise truncates)

Sets       == {"distinct_exact", "distinct_approx"}
Aggregate  == {"count", "sum", "min", "max"} \cup Sets
ZeroFilled == {"count", "sum"} \cup Sets

ASSUME KmvAssumption ==
    /\ K \in Nat \ {0} /\ HashMod \in Nat \ {0} /\ Rounds \in BOOLEAN
    /\ \A v \in DOMAIN Hash : Hash[v] \in 0 .. HashMod - 1

\* NULL is no number, and no array of values or of hashes.
ASSUME NullAssumption ==
    /\ Null \notin Int
    /\ \A values \in SUBSET DOMAIN Hash : values # Null
    /\ \A hashes \in SUBSET {Hash[v] : v \in DOMAIN Hash} : hashes # Null

Coalesce(x, y) == IF x = Null THEN y ELSE x

\* SQL's sum of f over the elements of S.
Total(f, S) == MapThenSumSet(LAMBDA x : f[x], S)

\* fs_array_head of a sorted array: its n smallest elements.
Smallest(S, n) == {x \in S : Cardinality({y \in S : y < x}) < n}

\* fs_least2 and fs_greatest2: null is no data, and does not poison.
Least2(x, y) ==
    IF x = Null THEN y ELSE IF y = Null THEN x ELSE IF x <= y THEN x ELSE y
Greatest2(x, y) ==
    IF x = Null THEN y ELSE IF y = Null THEN x ELSE IF x >= y THEN x ELSE y

\* fs_array_size: the size of no array is 0.
ArraySize(s) == IF s = Null THEN 0 ELSE Cardinality(s)

\* fs_array_union2 and fs_array_union_agg: null arrays are left out.
UnionOf(arrays) == UNION (arrays \ {Null})

\* fs_kmv_build over a group.
SketchOf(vals) == Smallest({Hash[v] : v \in vals \ {Null}}, K)

\* Mutant: the estimator is used as soon as there are k - 1 hashes.
EstimateEarly(sketch) ==
    LET size == ArraySize(sketch)
    IN IF size < K - 1 \/ size = 0 THEN size
       ELSE IF Max(sketch) = 0 THEN size ELSE ((K - 1) * HashMod) \div Max(sketch)

\* fs_kmv_estimate: the size of a sketch that is not full, otherwise (k - 1) / m_k for its
\* k-th hash m_k.
Estimate(sketch) ==
    LET size   == ArraySize(sketch)
        scaled == (K - 1) * HashMod
        kth    == Max(sketch)
    IN IF size < K \/ kth = 0 THEN size
       ELSE IF Rounds THEN (2 * scaled + kth) \div (2 * kth)
       ELSE scaled \div kth

(***************************************************************************)
(* partial, state_agg, merge, finalize.  `rows` is a group of rows, `val`  *)
(* its value in each of them: null where the condition does not hold.      *)
(***************************************************************************)
Partial(agg, rows, val) ==
    LET some == {r \in rows : val[r] # Null}
        vals == {val[r] : r \in some}
    IN CASE agg = "count"           -> Cardinality(some)
         [] agg = "sum"             -> IF some = {} THEN Null ELSE Total(val, some)
         [] agg = "min"             -> IF some = {} THEN Null ELSE Min(vals)
         [] agg = "max"             -> IF some = {} THEN Null ELSE Max(vals)
         [] agg = "distinct_exact"  -> vals
         [] agg = "distinct_approx" -> SketchOf({val[r] : r \in rows})

\* The states of the rows of a group, indexed by day.
StateAgg(agg, state) ==
    LET some   == {d \in DOMAIN state : state[d] # Null}
        states == {state[d] : d \in some}
    IN IF agg \in Sets
         THEN IF agg = "distinct_exact" THEN UnionOf(states) ELSE Smallest(UnionOf(states), K)
         ELSE IF some = {} THEN Null
         ELSE CASE agg \in {"count", "sum"} -> Total(state, some)
                [] agg = "min" -> Min(states)
                [] agg = "max" -> Max(states)

\* Mutant: SQL's own addition, in which a null operand poisons the sum.
MergePoisoned(agg, x, y) ==
    CASE agg \in {"count", "sum"}  -> IF x = Null \/ y = Null THEN Null ELSE x + y
      [] agg = "min"               -> Least2(x, y)
      [] agg = "max"               -> Greatest2(x, y)
      [] agg = "distinct_exact"    -> UnionOf({x, y})
      [] agg = "distinct_approx"   -> Smallest(UnionOf({x, y}), K)

Merge(agg, x, y) ==
    CASE agg \in {"count", "sum"}  -> Coalesce(x, 0) + Coalesce(y, 0)
      [] agg = "min"               -> Least2(x, y)
      [] agg = "max"               -> Greatest2(x, y)
      [] agg = "distinct_exact"    -> UnionOf({x, y})
      [] agg = "distinct_approx"   -> Smallest(UnionOf({x, y}), K)

Finalize(agg, state) ==
    CASE agg \in {"count", "sum"}  -> Coalesce(state, 0)
      [] agg \in {"min", "max"}    -> state
      [] agg = "distinct_exact"    -> ArraySize(state)
      [] agg = "distinct_approx"   -> Estimate(state)

=============================================================================
