----------------------------- MODULE Expansion -----------------------------
(***************************************************************************)
(* The plan that an accepted spec expands to: for every field the cross    *)
(* product of its aggregations, of one member of each category it applies  *)
(* and of the windows, the stored columns behind it, and their names.      *)
(***************************************************************************)
EXTENDS SpecRules

CONSTANT MaxWords                  \* a longer name is over the identifier limit

Words(agg) == IF agg = "count_distinct" THEN <<"count", "distinct">> ELSE <<agg>>

\* build_combos: one member of every applied category.
Combos(s, f) ==
    {pick \in [DOMAIN f.applied -> UNION {Range(s.cats[cat]) : cat \in Range(f.applied)}] :
        \A i \in DOMAIN f.applied : pick[i] \in Range(s.cats[f.applied[i]])}

\* The members that are not the default, in the order of the categories.
Label(pick) ==
    FlattenSeq([i \in DOMAIN pick |-> IF pick[i].default THEN << >> ELSE pick[i].name])

\* The published features of a spec.
Features(s) ==
    UNION {[field : {f}, agg : AggsOf(f), pick : Combos(s, f), window : Range(s.windows)] :
              f \in Fields(s)}

\* A column that the plan names: an aggregation of a source column under a combo.
Column(agg, alias, x) == [agg |-> agg, alias |-> alias, pick |-> x.pick, window |-> x.window]

\* The stored columns that feature x needs: itself, the sum and count of an average, or the
\* opposite extremum of the timestamp that a days-since counts from.
StoredFor(s, x) ==
    IF IsDerived(s, x.field)
      THEN {Column(IF x.agg = "min" THEN "max" ELSE "min", DerivedFrom(s, x.field), x)}
    ELSE IF x.agg = "avg"
      THEN {Column("sum", x.field.name, x), Column("count", x.field.name, x)}
    ELSE {Column(x.agg, x.field.name, x)}

Stored(s)      == UNION {StoredFor(s, x) : x \in Features(s)}
Computed(s)    == {x \in Features(s) : IsDerived(s, x.field) \/ x.agg = "avg"}
Joined(agg, alias, pick) == Words(agg) \o alias \o Label(pick)
StoredName(c)  == Joined(c.agg, c.alias, c.pick) \o <<c.window.word>>
PartialName(c) == <<"p">> \o Joined(c.agg, c.alias, c.pick)

\* The name that a feature is published under.
NameOf(x) == Joined(x.agg, x.field.name, x.pick) \o <<x.window.word>>

\* The namer refuses: a computed feature claims a name that is taken by another one or by a
\* stored column, or a name is too long.  A stored or a partial column is looked up by its
\* name first, and one that is there already is used.
Refuses(s) ==
    \/ \E x, y \in Computed(s) : x # y /\ NameOf(x) = NameOf(y)
    \/ \E x \in Computed(s), c \in Stored(s) : NameOf(x) = StoredName(c)
    \/ \E name \in {NameOf(x) : x \in Features(s)}
                   \cup UNION {{StoredName(c), PartialName(c)} : c \in Stored(s)} :
           Len(name) > MaxWords

\* load_spec and build_plan go through.
Compiles(s) == Accepted(s) /\ ~Refuses(s)

\* render_staging: the columns that the staging view keeps.
Projection(s) ==
    {alias \in DOMAIN s.columns :
        /\ ~s.columns[alias].dated
        /\ \A f \in Fields(s) : IsDerived(s, f) => f.name # alias}

\* render_partials: the columns of the staging view that the partial model uses.  It groups by
\* the entities and the day of the timestamp, and aggregates columns under conditions.
AggregatedColumns(s) == {s.timestamp} \cup {c.alias : c \in Stored(s)}
ConditionColumns(s)  == UNION {m.reads : m \in UNION {Range(c.pick) : c \in Stored(s)}}
ColumnsUsed(s)       == s.entities \cup AggregatedColumns(s) \cup ConditionColumns(s)

=============================================================================
