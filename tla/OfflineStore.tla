---------------------------- MODULE OfflineStore ----------------------------
(***************************************************************************)
(* The offline store of one feature: the mart's partitions, their copies   *)
(* on object storage, the publisher that makes the copies, the audit that  *)
(* looks for copies that violate their contract, and the generator, which  *)
(* rewrites the mart model and the registry that all of them go by.        *)
(*                                                                         *)
(* A partition is what the contract is about: the spec version its rows    *)
(* are stamped with and whether one of them references an event after the  *)
(* as-of date.  The publisher that the daily DAG starts and the one that   *)
(* an audit with --fix starts are two processes.                           *)
(***************************************************************************)
EXTENDS Compiler

CONSTANTS
    Published,       \* the feature that is published
    LastDate,        \* bound: as-of dates are 1 .. LastDate
    Scheduled,       \* bound: the as-of dates that dbt is run for
    NoPart,          \* there is no such partition
    Residues,        \* what an earlier build or another branch may have left in the store
    RebuildOnChange  \* operators rebuild the warehouse in full after a change of the spec

Date      == 1 .. LastDate
Publisher == {"dag", "audit"}
Models    == {"partials", "rollup", "state", "recent", "mart"}
Registry  == [feature |-> Published, kind |-> "registry"]

\* Stored copies: stamp, and whether rows reference later events.
Copy == [stamp : Version, leaks : BOOLEAN]

\* The published feature takes no late arrivals.
ASSUME OfflineAssumption ==
    /\ Published \in Feature
    /\ LastDate \in Nat /\ Scheduled \subseteq Date
    /\ NoPart \notin Copy /\ Residues \subseteq [Date -> Copy \cup {NoPart}]
    /\ RebuildOnChange \in BOOLEAN
    /\ \A v \in Version : SpecOf[v].feature = Published => SpecOf[v].late = 0

VARIABLES
    rows,            \* event date -> the version and the date its partial rows were computed for
    mart,            \* as-of date -> its partition in the warehouse
    store,           \* as-of date -> its copy on object storage
    storeRegistry,   \* the version described by _registry.json next to the copies
    pub,             \* publisher -> how far it is, for which date, with which registry
    audit,           \* the last audit
    quiet            \* auxiliary: nobody but that audit has changed the store or the registry

offlineVars == <<rows, mart, store, storeRegistry, pub, audit, quiet>>
vars        == <<compilerVars, offlineVars>>

Resting == [phase |-> "idle", date |-> 0, registry |-> NoFile]
NoAudit == [phase |-> "none", fix |-> FALSE, prune |-> FALSE, expected |-> NoFile,
            suspects |-> {}, available |-> {}, failures |-> FALSE]

Init ==
    /\ CompilerInit
    /\ rows = [d \in Date |-> NoFile]
    /\ mart = [d \in Date |-> NoPart]
    /\ store \in Residues
    /\ storeRegistry = NoFile
    /\ pub = [p \in Publisher |-> Resting]
    /\ audit = NoAudit
    /\ quiet = FALSE

-----------------------------------------------------------------------------
(***************************************************************************)
(* The warehouse.                                                          *)
(***************************************************************************)

\* The models of the published feature were rendered from version v.  One that v has no use for
\* may still lie there: nothing depends on it.
Deployed(v) ==
    /\ SpecOf[v].feature = Published
    /\ \A k \in Models \cap Range(KindsOf(SpecOf[v])) :
          tree[[feature |-> Published, kind |-> k]] = v

\* dbt, a publication and an audit start while no generate is writing.  Of what generate
\* writes the last two read the registry only, at a moment before or after it is written:
\* starting in between adds nothing.
BetweenGenerates == todo = << >>

\* DuckDB: one writing process or any number of reading ones.  A publisher holds its
\* connection to the end.
NoReader == \A p \in Publisher : pub[p].phase = "idle"

ComputedDays == {e \in Date : rows[e] # NoFile}

\* The spec has changed, and the operators rebuild: all tables are dropped, and the partial
\* layer is loaded from the first day on.
Rebuilds(v) == RebuildOnChange /\ \E e \in ComputedDays : rows[e].version # v

\* The days whose partial rows a run for d recomputes, there being events on every day: from
\* the newest date that a run was for, or its own day if that is earlier, and none that was
\* computed for a later date.  The first build reads its own day.
Recomputed(d, v) ==
    IF Rebuilds(v) THEN 1 .. d
    ELSE {e \in 1 .. d :
             /\ e = d \/ (ComputedDays # {} /\ \A f \in ComputedDays : rows[f].asOf <= e)
             /\ e \in ComputedDays => rows[e].asOf <= d}

\* dbt run for d.  A run of a past day with the accumulator ahead may leak, unless the suite
\* is run with it.
RunMart(d, v, leaks) ==
    /\ BetweenGenerates /\ Deployed(v) /\ NoReader
    /\ leaks => HasAllTime(SpecOf[v])
    /\ rows' = [e \in Date |-> IF e \in Recomputed(d, v) THEN [version |-> v, asOf |-> d]
                               ELSE IF Rebuilds(v) THEN NoFile ELSE rows[e]]
    /\ mart' = [[e \in Date |-> IF Rebuilds(v) THEN NoPart ELSE mart[e]]
                   EXCEPT ![d] = [stamp  |-> v,
                                  leaks  |-> leaks,
                                  behind |-> {rows'[e].version :
                                                 e \in {x \in 1 .. d : rows'[x] # NoFile}}]]
    /\ UNCHANGED <<compilerVars, store, storeRegistry, pub, audit, quiet>>

-----------------------------------------------------------------------------
(***************************************************************************)
(* publish_offline_store.                                                  *)
(***************************************************************************)

\* Mutant: no last line of defence.
PublishableUnchecked(d) == tree[Registry] # NoFile /\ mart[d] # NoPart

\* There is a registry, the partition is not empty, and no row is ahead of the as-of date.
Publishable(d) == tree[Registry] # NoFile /\ mart[d] # NoPart /\ ~mart[d].leaks

\* The object is replaced before anything is known about its version.
CopyPartition(p, d) ==
    /\ store' = [store EXCEPT ![d] = [stamp |-> mart[d].stamp, leaks |-> mart[d].leaks]]
    /\ pub' = [pub EXCEPT ![p] = [phase |-> "verify", date |-> d, registry |-> tree[Registry]]]

\* The DAG's publish task.
DagPublish(d) ==
    /\ pub["dag"].phase = "idle" /\ BetweenGenerates
    /\ Publishable(d)
    /\ CopyPartition("dag", d)
    /\ quiet' = FALSE
    /\ UNCHANGED <<compilerVars, rows, mart, storeRegistry, audit>>

\* Mutant: the version that was read back is not compared with the registry.
ReadsBackSomething(p) == store[pub[p].date] # NoPart

\* What was read back: not empty, and of the version that the registry describes.
ReadsBack(p) ==
    /\ store[pub[p].date] # NoPart
    /\ store[pub[p].date].stamp = pub[p].registry

\* A publisher leaves.  The audit waits for the one it has started and counts a refusal.
Leaves(p, refused) ==
    /\ pub' = [pub EXCEPT ![p] = Resting]
    /\ audit' = IF p = "audit"
                  THEN [audit EXCEPT !.suspects = @ \ {pub[p].date},
                                     !.failures = @ \/ refused]
                  ELSE audit

\* The publisher checks what it has written.
Verify(p) ==
    /\ pub[p].phase = "verify"
    /\ IF ReadsBack(p)
         THEN pub' = [pub EXCEPT ![p].phase = "registry"] /\ UNCHANGED audit
         ELSE Leaves(p, TRUE)
    /\ UNCHANGED <<compilerVars, rows, mart, store, storeRegistry, quiet>>

\* The registry file is read again, and put next to the copies.
CopyRegistry(p) ==
    /\ pub[p].phase = "registry"
    /\ storeRegistry' = tree[Registry]
    /\ Leaves(p, FALSE)
    /\ UNCHANGED <<compilerVars, rows, mart, store, quiet>>

PublisherDies(p) ==
    /\ pub[p].phase # "idle"
    /\ edits + deaths < MaxTroubles /\ deaths' = deaths + 1
    /\ Leaves(p, TRUE)
    /\ UNCHANGED <<specs, tree, todo, settled, edits, rows, mart, store, storeRegistry, quiet>>

-----------------------------------------------------------------------------
(***************************************************************************)
(* audit_offline_store.                                                    *)
(***************************************************************************)

Leaking == {d \in Date : store[d] # NoPart /\ store[d].leaks}
Stale(version) == {d \in Date : store[d] # NoPart /\ store[d].stamp # version}

\* The first query of the audit: contract 1.
StartAudit(fix, prune) ==
    /\ audit.phase \in {"none", "clean", "failed"} /\ BetweenGenerates
    /\ tree[Registry] # NoFile /\ \E d \in Date : store[d] # NoPart
    /\ audit' = [NoAudit EXCEPT !.phase = "leaks", !.fix = fix, !.prune = prune,
                                !.expected = tree[Registry], !.suspects = Leaking]
    /\ quiet' = TRUE
    /\ UNCHANGED <<compilerVars, rows, mart, store, storeRegistry, pub>>

\* "clean" is exit code 0, "failed" is 1.
Ends(phase) ==
    /\ audit' = [NoAudit EXCEPT !.phase = phase]
    /\ quiet' = (quiet /\ phase = "clean")

\* The second query: contract 2.  What is to be repaired is then looked up in the warehouse.
FindStale ==
    /\ audit.phase = "leaks"
    /\ LET suspects == audit.suspects \cup Stale(audit.expected)
           phase    == IF suspects = {} THEN "clean"
                       ELSE IF audit.fix \/ audit.prune THEN "repair" ELSE "failed"
       IN IF phase = "repair"
            THEN /\ audit' = [audit EXCEPT !.phase = phase, !.suspects = suspects,
                                           !.available = {d \in Date : mart[d] # NoPart}]
                 /\ UNCHANGED quiet
            ELSE Ends(phase)
    /\ UNCHANGED <<compilerVars, rows, mart, store, storeRegistry, pub>>

\* The partition whose turn it is.
InTurn(d) ==
    /\ audit.phase = "repair" /\ pub["audit"].phase = "idle"
    /\ d \in audit.suspects /\ \A e \in audit.suspects : d <= e

\* --fix and the warehouse has it: published again, unless the publisher refuses.
Republish(d) ==
    /\ InTurn(d) /\ audit.fix /\ d \in audit.available
    /\ IF Publishable(d)
         THEN CopyPartition("audit", d) /\ UNCHANGED audit
         ELSE /\ audit' = [audit EXCEPT !.suspects = @ \ {d}, !.failures = TRUE]
              /\ UNCHANGED <<store, pub>>
    /\ UNCHANGED <<compilerVars, rows, mart, storeRegistry, quiet>>

\* Mutant: with both flags everything that is suspect is pruned.
PruneFirst(d) ==
    /\ InTurn(d) /\ audit.prune
    /\ store' = [store EXCEPT ![d] = NoPart]
    /\ audit' = [audit EXCEPT !.suspects = @ \ {d}]
    /\ UNCHANGED <<compilerVars, rows, mart, storeRegistry, pub, quiet>>

\* --prune and not that: deleted, whatever is in the store by now.
Prune(d) ==
    /\ InTurn(d) /\ ~(audit.fix /\ d \in audit.available) /\ audit.prune
    /\ store' = [store EXCEPT ![d] = NoPart]
    /\ audit' = [audit EXCEPT !.suspects = @ \ {d}]
    /\ UNCHANGED <<compilerVars, rows, mart, storeRegistry, pub, quiet>>

\* Neither: left as it is.
GiveUp(d) ==
    /\ InTurn(d) /\ ~(audit.fix /\ d \in audit.available) /\ ~audit.prune
    /\ audit' = [audit EXCEPT !.suspects = @ \ {d}, !.failures = TRUE]
    /\ UNCHANGED <<compilerVars, rows, mart, store, storeRegistry, pub, quiet>>

EndAudit ==
    /\ audit.phase = "repair" /\ audit.suspects = {}
    /\ Ends(IF audit.failures THEN "failed" ELSE "clean")
    /\ UNCHANGED <<compilerVars, rows, mart, store, storeRegistry, pub>>

-----------------------------------------------------------------------------

\* The generator and whoever edits specs and generated files.
Develop ==
    /\ CompilerNext
    /\ quiet' = (quiet /\ tree'[Registry] = tree[Registry])
    /\ UNCHANGED <<rows, mart, store, storeRegistry, pub, audit>>

Next ==
    \/ Develop
    \/ \E d \in Scheduled, v \in Version, leaks \in BOOLEAN : RunMart(d, v, leaks)
    \/ \E d \in Date : DagPublish(d)
    \/ \E p \in Publisher : Verify(p) \/ CopyRegistry(p) \/ PublisherDies(p)
    \/ \E fix, prune \in BOOLEAN : StartAudit(fix, prune)
    \/ FindStale
    \/ \E d \in Date : Republish(d) \/ Prune(d) \/ GiveUp(d)
    \/ EndAudit

Spec == Init /\ [][Next]_vars

-----------------------------------------------------------------------------
(***************************************************************************)
(* Properties.                                                             *)
(***************************************************************************)

\* An audit that ends with exit code 0 has left a clean store: no copy leaks and each is of
\* the version that the registry describes.  This is so after any publication that was refused
\* after it had replaced the object, after publishers that died, with residue in the store and
\* with the repairs of the audit itself, as long as the DAG does not publish and the registry
\* is not generated anew during the audit.
CleanAuditIsClean ==
    audit.phase = "clean" /\ quiet =>
        \A d \in Date : store[d] # NoPart => store[d] = [stamp |-> tree[Registry], leaks |-> FALSE]

\* Publisher p leaves after it has copied the registry.
EndsWell(p) == pub[p].phase = "registry" /\ pub'[p].phase = "idle" /\ deaths' = deaths

\* What was verified is what stays: when a publisher ends well, the copy of its date is of the
\* version that it was checked against, whatever another publisher has put there, or generate
\* into the registry, since the check, unless an audit has pruned it.  If the registry file is
\* the one that was read before the check, it is that version which is put next to the copies.
RegistryTravels ==
    [][\A p \in Publisher :
          EndsWell(p) =>
             \/ store'[pub[p].date] = NoPart
             \/ /\ store'[pub[p].date].stamp = pub[p].registry
                /\ tree[Registry] = pub[p].registry => storeRegistry' = pub[p].registry]_vars

Pruned(d) == store[d] # NoPart /\ store'[d] = NoPart

\* A repair deletes nothing that is in order: while nobody else publishes and the registry
\* stays, each copy that an audit deletes violates a contract at that moment, although the list
\* of suspects is older; and an audit with --fix leaves those alone, at any time, that the
\* warehouse had when it looked.  (Without --fix they go: PrunesOnlyTheLost.)
PrunesOnlyViolations ==
    [][\A d \in Date :
          Pruned(d) =>
             /\ quiet => d \in Leaking \cup Stale(tree[Registry])
             /\ audit.fix => d \notin audit.available]_vars

\* --prune deletes the partitions that the warehouse can no longer reproduce: no other is
\* deleted, by any audit, whatever dbt has built since the audit looked.
PrunesOnlyTheLost ==
    [][\A d \in Date : Pruned(d) => mart[d] = NoPart]_vars

\* The stamp tells which spec produced a row: a partition carries the version that all rows
\* behind it were computed by.
StampTellsTheSpec ==
    \A d \in Date : mart[d] # NoPart => mart[d].behind \subseteq {mart[d].stamp}

=============================================================================
