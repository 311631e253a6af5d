--------------------------- MODULE RefreshWindow ---------------------------
(***************************************************************************)
(* The refreshable-window rule: which partitions before an as-of date may  *)
(* still be rebuilt.  One rule, bound to a registry and a warehouse by the *)
(* resolver, tells the daily DAG both what to refresh and what to publish. *)
(***************************************************************************)
EXTENDS Integers, Sequences

\* Mutant: the oldest date of the late-arrival window is left out.
RefreshableDatesShort(target, late, watermark) ==
    SelectSeq([i \in 1 .. (late - 1) |-> target - i], LAMBDA d : d >= watermark)

\* The dates target - 1, target - 2, ... that lie in the late-arrival window and not
\* behind the watermark, newest first.  No watermark is 0: nothing is final yet.
RefreshableDates(target, late, watermark) ==
    LET oldest == IF watermark > target - late THEN watermark ELSE target - late
    IN [i \in 1 .. (target - oldest) |-> target - i]

\* Mutant: only the run's own date is published.
PublishOwnDate(target, late, watermark) == <<target>>

\* What the resolver prints for the publish step.
PublishDates(target, late, watermark) ==
    <<target>> \o RefreshableDates(target, late, watermark)

=============================================================================
