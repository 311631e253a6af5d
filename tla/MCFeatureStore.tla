--------------------------- MODULE MCFeatureStore ---------------------------
(***************************************************************************)
(* Small instances of FeatureStore: two entities, four as-of dates, a      *)
(* late-arrival window of one day and a bounded window of two days.        *)
(***************************************************************************)
EXTENDS FeatureStore

CONSTANTS a, b                     \* the two entities

Forever == LastDay + 1             \* _scd_valid_to of a row that is never ended

Row(x, day, lag) == [ent |-> x, day |-> day, arr |-> day + lag, end |-> Forever]

\* An event on time, one that comes a day late, one of the other entity, and one of the
\* same day as the second that the source ends again a day after it came.
OnTimeRow == Row(a, 1, 0)
LateRow   == Row(a, 2, 1)
OtherRow  == Row(b, 3, 0)
EndedRow  == [Row(a, 2, 0) EXCEPT !.end = 3]

SomeEvents  == {OnTimeRow, LateRow, OtherRow, EndedRow}
SomeSources == {{OnTimeRow, LateRow}, {LateRow, EndedRow}, {LateRow, OtherRow}}

=============================================================================
