------------------------------ MODULE Compiler ------------------------------
(***************************************************************************)
(* The generator's command line: spec files, the tree of generated files,  *)
(* `generate`, which writes them one after the other, and                  *)
(* `generate --check`, which looks for drift between the two.              *)
(*                                                                         *)
(* What a file holds is the spec it was rendered from.  Files that always  *)
(* come together and next to each other are one file here: staging and     *)
(* partial model, mart and its schema, the three tests of every feature.   *)
(***************************************************************************)
EXTENDS Expansion, FiniteSets

CONSTANTS
    File,            \* the spec files, numbered in the order of their names
    Version,         \* names of the specs that people write
    SpecOf,          \* version -> the spec
    NoFile,          \* there is no such file
    Edited,          \* what a file holds that was changed by hand
    FirstSpecs,      \* the spec files to start from
    Written,         \* what people write into which spec file
    Touched,         \* the generated paths that people touch
    MaxTroubles      \* bound: changes of specs and generated files by hand, and processes that die

Feature == {SpecOf[v].feature : v \in Version}
Kind    == {"partials", "rollup", "state", "recent", "mart", "tests", "state_test", "registry"}
Sources == [feature |-> "every", kind |-> "sources"]
Path    == [feature : Feature, kind : Kind] \cup {Sources}

ASSUME CompilerAssumption ==
    /\ File \subseteq Nat /\ IsFiniteSet(File)
    /\ MaxTroubles \in Nat
    /\ Written \subseteq File \X (Version \cup {NoFile})
    /\ FirstSpecs \subseteq [File -> Version \cup {NoFile}]
    /\ Touched \subseteq Path /\ {NoFile, Edited} \cap Version = {}

VARIABLES
    specs,           \* spec file -> the version in it
    tree,            \* path -> what the generated file holds
    todo,            \* the files that a generate in progress has still to write
    settled,         \* auxiliary: a generate has ended and nothing was changed since
    edits,           \* auxiliary: changes by hand so far
    deaths           \* auxiliary: processes that have died so far

compilerVars == <<specs, tree, todo, settled, edits, deaths>>

CompilerInit ==
    /\ specs \in FirstSpecs
    /\ tree = [p \in Path |-> NoFile]
    /\ todo = << >>
    /\ settled = FALSE
    /\ edits = 0
    /\ deaths = 0

-----------------------------------------------------------------------------
(***************************************************************************)
(* What a set of spec files generates.                                     *)
(***************************************************************************)
Loaded  == {f \in File : specs[f] # NoFile}
CompilesOf == [v \in Version |-> Compiles(SpecOf[v])]

\* Every spec file loads and expands; there is at least one.
NoSpecError == Loaded # {} /\ \A f \in Loaded : CompilesOf[specs[f]]

\* The files of one spec, in the order they are rendered.
KindsOf(s) ==
    LET Only(needed, kinds) == IF needed THEN kinds ELSE << >>
    IN <<"partials">>
       \o Only(HasBounded(s), <<"rollup">>)
       \o Only(HasAllTime(s), <<"state">>)
       \o Only(HasAllTime(s) /\ s.late > 0, <<"recent">>)
       \o <<"mart", "tests">>
       \o Only(HasAllTime(s), <<"state_test">>)
       \o <<"registry">>

FilesOf == [v \in Version |->
    LET s == SpecOf[v]
    IN [i \in DOMAIN KindsOf(s) |->
           [path |-> [feature |-> s.feature, kind |-> KindsOf(s)[i]], content |-> v]]]

\* render_sources_yml: one definition per table, naming the features that read it.
SourcesContent ==
    UNION {LET s == SpecOf[specs[f]]
           IN {[table |-> s.tables[l], consumer |-> s.feature] : l \in DOMAIN s.tables} : f \in Loaded}

\* The spec files in the order they are loaded, which is that of their names.
InOrder ==
    CHOOSE order \in [1 .. Cardinality(Loaded) -> Loaded] :
        \A i, j \in DOMAIN order : i < j => order[i] < order[j]

\* All that generate has to write.
Planned ==
    FlattenSeq([i \in DOMAIN InOrder |-> FilesOf[specs[InOrder[i]]]])
    \o <<[path |-> Sources, content |-> SourcesContent]>>

\* What the check looks through for files without a spec: the models, by the banner in
\* them.  It looks at the registry as well, where no file has the banner.
Searched(p) == p.kind \in {"partials", "rollup", "state", "recent", "mart"}

\* Mutant: a file that is missing is not drift.
DriftedIfThere ==
    {w.path : w \in {x \in Range(Planned) : tree[x.path] \notin {x.content, NoFile}}}
    \cup {p \in Path : /\ tree[p] # NoFile /\ Searched(p)
                       /\ p \notin {w.path : w \in Range(Planned)}}

\* The files that the check reports.
Drifted ==
    {w.path : w \in {x \in Range(Planned) : tree[x.path] # x.content}}
    \cup {p \in Path : /\ tree[p] # NoFile /\ Searched(p)
                       /\ p \notin {w.path : w \in Range(Planned)}}

\* generate --check, as CI runs it on what was committed: nothing is written, exit code 0.
CheckIsGreen == NoSpecError /\ Drifted = {}

-----------------------------------------------------------------------------
(***************************************************************************)
(* Actions.                                                                *)
(***************************************************************************)

\* Someone writes, changes, renames or deletes a spec file.
EditSpec(f, v) ==
    /\ edits + deaths < MaxTroubles /\ edits' = edits + 1
    /\ specs[f] # v /\ specs' = [specs EXCEPT ![f] = v]
    /\ settled' = FALSE
    /\ UNCHANGED <<tree, todo, deaths>>

\* Someone changes or deletes a generated file.
TouchFile(p, content) ==
    /\ edits + deaths < MaxTroubles /\ edits' = edits + 1
    /\ tree[p] \notin {NoFile, content} /\ tree' = [tree EXCEPT ![p] = content]
    /\ settled' = FALSE
    /\ UNCHANGED <<specs, todo, deaths>>

\* generate: all specs are loaded and rendered before the first file is written.
StartGenerate ==
    /\ todo = << >> /\ ~settled
    /\ NoSpecError
    /\ todo' = Planned
    /\ settled' = TRUE
    /\ UNCHANGED <<specs, tree, edits, deaths>>

\* Mutant: a file that exists is not written again.
WriteFileOnce ==
    /\ todo # << >>
    /\ tree' = IF tree[Head(todo).path] = NoFile
                 THEN [tree EXCEPT ![Head(todo).path] = Head(todo).content] ELSE tree
    /\ todo' = Tail(todo)
    /\ UNCHANGED <<specs, settled, edits, deaths>>

WriteFile ==
    /\ todo # << >>
    /\ tree' = [tree EXCEPT ![Head(todo).path] = Head(todo).content]
    /\ todo' = Tail(todo)
    /\ UNCHANGED <<specs, settled, edits, deaths>>

\* generate dies between two files.
GenerateDies ==
    /\ todo # << >>
    /\ edits + deaths < MaxTroubles /\ deaths' = deaths + 1
    /\ todo' = << >>
    /\ settled' = FALSE
    /\ UNCHANGED <<specs, tree, edits>>

CompilerNext ==
    \/ \E w \in Written : EditSpec(w[1], w[2])
    \/ \E p \in Touched : TouchFile(p, Edited) \/ TouchFile(p, NoFile)
    \/ StartGenerate
    \/ WriteFile
    \/ GenerateDies

CompilerSpec == CompilerInit /\ [][CompilerNext]_compilerVars

-----------------------------------------------------------------------------
(***************************************************************************)
(* Properties.                                                             *)
(***************************************************************************)

\* What a path holds after a generate into an empty tree.  Of two spec files with one
\* feature name the later one has the say.
Wanted(p) ==
    IF p = Sources THEN SourcesContent
    ELSE LET files == {f \in Loaded : [path |-> p, content |-> specs[f]] \in Range(FilesOf[specs[f]])}
         IN IF files = {} THEN NoFile ELSE specs[CHOOSE f \in files : \A g \in files : g <= f]

\* When the check is green every spec compiles and every generated file is the one its spec
\* gives, and no model is left of a spec that was changed, renamed or deleted, whatever was
\* generated, cut short and edited before.  (What is left in the tests and in the registry is
\* not found.)
GreenMeansGenerated ==
    todo = << >> /\ CheckIsGreen =>
        /\ NoSpecError
        /\ \A p \in Path :
              \/ tree[p] = Wanted(p)
              \/ Wanted(p) = NoFile /\ p.kind \in {"tests", "state_test", "registry"}

FeatureNamesDiffer ==
    \A f, g \in Loaded : f # g => SpecOf[specs[f]].feature # SpecOf[specs[g]].feature

\* generate heals the tree: when it has gone through, after edits, deletions and a generate that
\* died half way, every file of every spec is right, and all that a check could still report
\* are files no spec has any more.
GenerateHeals ==
    settled /\ todo = << >> =>
        /\ \A p \in Path : Wanted(p) # NoFile => tree[p] = Wanted(p)
        /\ FeatureNamesDiffer => \A p \in Drifted : Wanted(p) = NoFile

\* Whatever the partial layer aggregates is in the staging view, although the view drops what
\* moves with the as-of date: on fields, the columns that they are derived from and the
\* timestamp, validation and rendering agree.  The view also drops a column that is itself the
\* name of a field declared as derived; validation lets that one pass, and so does this.  Of
\* entities and of the columns in conditions it is not true (PartialsFindTheirColumns).
AggregatesAreStaged ==
    \A f \in Loaded :
        LET s == SpecOf[specs[f]]
            Rebuilt(alias) ==
                \E g \in Fields(s) : IsDerived(s, g) /\ g.name = alias /\ ~s.columns[alias].dated
        IN CompilesOf[specs[f]] =>
              \A alias \in AggregatedColumns(s) : alias \in Projection(s) \/ Rebuilt(alias)

\* What moves with the as-of date is kept away from the partial layer by the validation: of a
\* spec that compiles, the partial model finds every column it uses in the staging view.
PartialsFindTheirColumns ==
    \A f \in Loaded :
        CompilesOf[specs[f]] => ColumnsUsed(SpecOf[specs[f]]) \subseteq Projection(SpecOf[specs[f]])

=============================================================================
