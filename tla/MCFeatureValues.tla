-------------------------- MODULE MCFeatureValues --------------------------
(***************************************************************************)
(* Small instances of FeatureValues: six rows on four days, with a value   *)
(* that repeats, one that is NULL, and more distinct values than a sketch  *)
(* keeps.                                                                  *)
(***************************************************************************)
EXTENDS FeatureValues

At(id, day, hit, val) == [id |-> id, day |-> day, hit |-> hit, val |-> val]

Rows == {At(1, 1, TRUE, 1), At(2, 2, FALSE, 1), At(3, 2, TRUE, 3),
         At(4, 3, TRUE, Null), At(5, 3, FALSE, 4), At(6, 4, FALSE, 2)}

\* Hash units in no particular order, and the one that the engine returns for NULL.
Units == [v \in {1, 2, 3, 4, Null} |->
             CASE v = 1 -> 9 [] v = 2 -> 4 [] v = 3 -> 13 [] v = 4 -> 6 [] v = Null -> 2]

Ascending  == <<2, 3, AllTime>>
Descending == <<3, 2, AllTime>>
Orderable  == Aggregate \cup {"avg"}

=============================================================================
