----------------------------- MODULE SpecRules -----------------------------
(***************************************************************************)
(* Which feature specs the generator accepts.  A spec is a record: the     *)
(* text around its blocks (YAML, SQL) is left out, what the rules read of  *)
(* it is kept.  A name is the sequence of its words, because generated     *)
(* names are joined from names with the separator between words.           *)
(*                                                                         *)
(*   feature     the feature's name                                        *)
(*   select      the shape of the source query: "plain", or what it is not *)
(*               allowed to be ("distinct", "star", "unnamed", "none")     *)
(*   columns     alias -> what the source projects under it: whether the   *)
(*               expression mentions target_date, and, if it has the shape *)
(*               of a days-since, the alias it counts from                 *)
(*   entities, timestamp   aliases                                         *)
(*   cats        category -> its members in order; a default one is TRUE,  *)
(*               one has the columns that its predicate reads, and is      *)
(*               dated if target_date is written in the predicate          *)
(*   windows     time_cat: spelling, lower-cased word, days (0: all_time)  *)
(*   fields      the atomic fields                                         *)
(*   tables      the texts that are mapped to a dbt source                 *)
(*   mentions    those of such texts that occur in the source query        *)
(*   reads       the names with a dot that it has after FROM and JOIN      *)
(*   late, kmvK, appendOnly   settings                                     *)
(***************************************************************************)
EXTENDS Integers, SequencesExt

NoAlias == << >>                   \* no such column
NoType  == "none"                  \* no field_type is declared

SupportedAggs == {"count", "sum", "min", "max", "count_distinct", "avg"}
TypedAggs     == {"min", "max", "sum", "avg"}
NumericAggs   == {"sum", "avg"}
NotNumeric    == {"timestamp", "date", "varchar", "boolean"}

Fields(s)    == Range(s.fields)
AggsOf(f)    == Range(f.aggs)
HasAllTime(s) == \E w \in Range(s.windows) : w.days = 0
HasBounded(s) == \E w \in Range(s.windows) : w.days # 0

\* validate(): the values of the settings.
SettingsOK(s) == s.late >= 0 /\ s.kmvK >= 16

\* _parse_categories: within a category no two members have the same name.
CategoriesOK(s) ==
    \A cat \in DOMAIN s.cats : IsInjective([i \in DOMAIN s.cats[cat] |-> s.cats[cat][i].name])

\* _parse_windows: no window is spelled the same twice.
WindowsOK(s) ==
    /\ s.windows # << >>
    /\ IsInjective([i \in DOMAIN s.windows |-> s.windows[i].spelling])

\* _parse_fields: the fields have different names, and each applies known categories and
\* supported aggregations, none of them twice.
FieldsOK(s) ==
    /\ s.fields # << >>
    /\ IsInjective([i \in DOMAIN s.fields |-> s.fields[i].name])
    /\ \A f \in Fields(s) :
          /\ Range(f.applied) \subseteq DOMAIN s.cats /\ IsInjective(f.applied)
          /\ f.aggs # << >> /\ AggsOf(f) \subseteq SupportedAggs /\ IsInjective(f.aggs)
          /\ f.method \in {"exact", "approx"}

\* parse_source: one SELECT that names every column; a DISTINCT would change what is counted.
SourceOK(s) == s.select = "plain"

\* The event timestamp decides which partition an event belongs to.
TimestampOK(s) ==
    /\ s.entities \subseteq DOMAIN s.columns
    /\ s.timestamp \in DOMAIN s.columns /\ ~s.columns[s.timestamp].dated

\* A condition that moves with the as-of date would make stored partials wrong.  Only the
\* predicate's own text is looked at, not the columns that it reads.
ConditionsOK(s) ==
    \A cat \in DOMAIN s.cats : \A m \in Range(s.cats[cat]) : ~m.dated

\* The timestamp column that the field is rebuilt from at scoring time: declared, or detected
\* because the expression is a days-since over a column of the source.
DerivedFrom(s, f) ==
    IF f.from # NoAlias THEN f.from
    ELSE IF f.name \in DOMAIN s.columns /\ s.columns[f.name].dated THEN s.columns[f.name].since
    ELSE NoAlias

IsDerived(s, f) == DerivedFrom(s, f) # NoAlias

\* Mutant: a field that moves with the as-of date needs no derivation.
ColumnAnyDate(s, f) ==
    /\ f.name \in DOMAIN s.columns
    /\ IsDerived(s, f) =>
          /\ DerivedFrom(s, f) \in DOMAIN s.columns /\ ~s.columns[DerivedFrom(s, f)].dated
          /\ AggsOf(f) \subseteq {"min", "max"}

\* The field is a column of the source.  If that moves with the as-of date it must be a
\* days-since over one that does not, for which only the extrema are defined.
ColumnOK(s, f) ==
    /\ f.name \in DOMAIN s.columns
    /\ s.columns[f.name].dated => IsDerived(s, f)
    /\ IsDerived(s, f) =>
          /\ DerivedFrom(s, f) \in DOMAIN s.columns /\ ~s.columns[DerivedFrom(s, f)].dated
          /\ AggsOf(f) \subseteq {"min", "max"}

\* A derived field is a bigint unless it says otherwise.
TypeOf(s, f) == IF f.type = NoType /\ IsDerived(s, f) THEN "bigint" ELSE f.type

TypesOK(s, f) ==
    /\ AggsOf(f) \cap TypedAggs # {} => TypeOf(s, f) # NoType
    /\ TypeOf(s, f) \in NotNumeric => AggsOf(f) \cap NumericAggs = {}
    /\ f.method = "approx" => "count_distinct" \in AggsOf(f)

\* The members that show up in a name.
Named(s, cat) == {m.name : m \in {n \in Range(s.cats[cat]) : ~n.default}}

\* No two categories applied to the field have a member of one name.
MembersOK(s, f) ==
    \A c, d \in Range(f.applied) : c # d => Named(s, c) \cap Named(s, d) = {}

\* Every mapped text occurs in the query, and every dotted relation that it reads is mapped.
RelationsOK(s) ==
    /\ DOMAIN s.tables \subseteq s.mentions
    /\ s.reads \subseteq DOMAIN s.tables

\* load_spec and validate_spec raise no error.
Accepted(s) ==
    /\ SettingsOK(s) /\ CategoriesOK(s) /\ WindowsOK(s) /\ FieldsOK(s)
    /\ SourceOK(s)
    /\ TimestampOK(s) /\ ConditionsOK(s) /\ RelationsOK(s)
    /\ \A f \in Fields(s) : ColumnOK(s, f) /\ TypesOK(s, f) /\ MembersOK(s, f)
    /\ HasAllTime(s) => s.appendOnly

=============================================================================
