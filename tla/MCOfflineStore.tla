--------------------------- MODULE MCOfflineStore ---------------------------
(***************************************************************************)
(* Small instances of OfflineStore: the specs of two features that read    *)
(* one table, one that has to be rejected, two that people might write     *)
(* into the same file one after the other, and two that are questionable.  *)
(***************************************************************************)
EXTENDS OfflineStore

CONSTANTS v1, v2, v3, bad, recent, cohort

Entity == <<"safe_id">>
Time   == <<"event_timestamp">>
Amount == <<"amount">>
Days   == <<"days_since_login">>
Medium == <<"medium">>

Plain(dated, since) == [dated |-> dated, since |-> since]
AllTime == [spelling |-> "all_time", word |-> "all_time", days |-> 0]
L7d     == [spelling |-> "l7d", word |-> "l7d", days |-> 7]
Field(name, aggs, from) ==
    [name |-> name, applied |-> << >>, aggs |-> aggs, type |-> "bigint", method |-> "exact",
     from |-> from]

Minimal ==
    [feature |-> "logins", select |-> "plain",
     columns |-> Entity :> Plain(FALSE, NoAlias) @@ Time :> Plain(FALSE, NoAlias)
                 @@ Amount :> Plain(FALSE, NoAlias),
     entities |-> {Entity}, timestamp |-> Time, cats |-> << >>,
     windows |-> <<L7d, AllTime>>, fields |-> <<Field(Amount, <<"sum">>, NoAlias)>>,
     tables |-> "bronze.db.txn" :> "txn", mentions |-> {"bronze.db.txn"},
     reads |-> {"bronze.db.txn"}, late |-> 0, kmvK |-> 256, appendOnly |-> TRUE]

\* One condition, a days-since, and late arrivals.
When(name, column) == [name |-> name, default |-> FALSE, dated |-> FALSE, reads |-> {column}]
Anyhow == [name |-> <<"any">>, default |-> TRUE, dated |-> FALSE, reads |-> {}]
Other ==
    [Minimal EXCEPT !.feature = "devices",
                    !.columns = @ @@ Days :> Plain(TRUE, Time) @@ Medium :> Plain(FALSE, NoAlias),
                    !.cats = "channel" :> <<Anyhow, When(<<"web">>, Medium)>>,
                    !.fields = <<[Field(Amount, <<"avg", "count">>, NoAlias)
                                     EXCEPT !.applied = <<"channel">>],
                                 Field(Days, <<"min">>, NoAlias)>>,
                    !.late = 1]

\* A field that moves with the as-of date and is no days-since.
Moving ==
    [Minimal EXCEPT !.columns = @ @@ Days :> Plain(TRUE, NoAlias),
                    !.fields = <<Field(Days, <<"max">>, NoAlias)>>]

\* A condition over a column that moves with the as-of date, though its text does not say so,
\* and an entity that does.
RecentOnly ==
    [Minimal EXCEPT !.columns = @ @@ Days :> Plain(TRUE, Time),
                    !.cats = "recency" :> <<Anyhow, When(<<"recent">>, Days)>>,
                    !.fields = <<[Field(Amount, <<"sum">>, NoAlias) EXCEPT !.applied = <<"recency">>]>>]
ByCohort ==
    [Minimal EXCEPT !.columns = @ @@ Days :> Plain(TRUE, Time), !.entities = @ \cup {Days}]

Specs ==
    v1 :> Minimal
    @@ v2 :> [Minimal EXCEPT !.windows = <<L7d>>, !.fields = <<Field(Amount, <<"sum", "count">>, NoAlias)>>]
    @@ v3 :> Other
    @@ bad :> Moving
    @@ recent :> RecentOnly @@ cohort :> ByCohort

SpecNamed == [v \in Version |-> Specs[v]]

StartSpecs == {[f \in File |-> IF f = 1 THEN v1 ELSE NoFile]}

Changes == {<<1, NoFile>>, <<1, v2>>, <<2, v2>>, <<2, v3>>, <<2, bad>>}

NewMoving == {<<2, recent>>, <<2, cohort>>}
Unchanged == {}

TouchedPaths == {[feature |-> "logins", kind |-> "rollup"]}

\* One copy is left of an earlier build that leaked.
Residue == {[d \in Date |-> IF d = 1 THEN [stamp |-> v1, leaks |-> TRUE] ELSE NoPart]}

EmptyStore == {[d \in Date |-> NoPart]}

=============================================================================
