----------------------------- MODULE MCDailyDag -----------------------------
(***************************************************************************)
(* Small instances of DailyDag: an initial load on day 2 or 3 and daily    *)
(* runs up to LastDay, with failures injected.                             *)
(***************************************************************************)
EXTENDS DailyDag

CONSTANTS a, b                     \* the two entities

Forever == LastDay + 1

Row(x, day, lag) == [ent |-> x, day |-> day, arr |-> day + lag, end |-> Forever]

\* The entities have history before the first date and one event per lag afterwards.
History   == {Row(a, 1, 0)}
InTime    == {Row(a, 4, 0), Row(b, 2, Late), Row(b, 3, 1), Row(b, 4, Late)}
TooLate   == {Row(b, 2, Late + 1)}

PlainEvents  == History \cup InTime
PlainSources == {History \cup s : s \in {t \in SUBSET InTime : Cardinality(t) \in {0, 1, 4}}}

LongEvents   == {Row(a, d, 0) : d \in Day}
LongSources  == {LongEvents}

LateEvents   == LongEvents \cup TooLate
LateSources  == {LateEvents}

=============================================================================
