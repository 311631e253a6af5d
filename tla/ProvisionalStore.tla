-------------------------- MODULE ProvisionalStore --------------------------
(***************************************************************************)
(* What the offline store of a feature promises to those who read it.      *)
(* Days go by; the partition of a day is provisional for as many days as   *)
(* events may be late, and every time it is published it equals one flat   *)
(* pass over the source rows ingested so far.  After that it is final: to  *)
(* publish it again gives the same partition.  Nothing is said of when a   *)
(* day is published, or how often.                                         *)
(***************************************************************************)
EXTENDS Integers

CONSTANTS
    Day,             \* the as-of dates
    Late,            \* for how many days a partition is provisional
    Flat(_, _, _),   \* source, as-of date, date of the newest row -> the exact partition
    Nothing          \* nothing is published

VARIABLES
    source,          \* the rows of the source, each with its ingestion date
    now,             \* the newest as-of date; before the first one it is below them all
    published        \* as-of date -> the partition that consumers read

vars == <<source, now, published>>

Init ==
    /\ now = 0
    /\ published = [d \in Day |-> Nothing]

\* A date, or several, go by.
Pass ==
    /\ \E T \in Day : now < T /\ now' = T
    /\ UNCHANGED <<source, published>>

\* The newest rows that a partition of d takes in.
Horizon(d) == IF now < d + Late THEN now ELSE d + Late

Publish(d) ==
    /\ d <= now
    /\ published' = [published EXCEPT ![d] = Flat(source, d, Horizon(d))]
    /\ UNCHANGED <<source, now>>

Next == Pass \/ \E d \in Day : Publish(d)

Spec == Init /\ [][Next]_vars

=============================================================================
