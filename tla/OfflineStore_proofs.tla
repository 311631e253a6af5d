------------------------ MODULE OfflineStore_proofs ------------------------
(***************************************************************************)
(* Theorems about OfflineStore, for every set of specs and spec files,     *)
(* calendar, residue and number of edits and deaths.  Those about the      *)
(* store do not depend on what a spec generates: they use only that the    *)
(* registry of a feature is a file that may change at any moment.          *)
(***************************************************************************)
EXTENDS OfflineStore, Compiler_proofs

RowsOfDay == [version : Version, asOf : Date]
Partition == [stamp : Version, leaks : BOOLEAN, behind : SUBSET Version]

\* The registry that a publisher has read may hold anything, so publishers and audits are
\* records of given fields and not members of a set of records.
PublisherShape(r) ==
    /\ r = [phase |-> r.phase, date |-> r.date, registry |-> r.registry]
    /\ r.phase \in {"idle", "verify", "registry"}
    /\ r.phase # "idle" => r.date \in Date

AuditShape(a) ==
    /\ a = [phase |-> a.phase, fix |-> a.fix, prune |-> a.prune, expected |-> a.expected,
            suspects |-> a.suspects, available |-> a.available, failures |-> a.failures]
    /\ a.phase \in {"none", "leaks", "repair", "clean", "failed"}
    /\ a.suspects \in SUBSET Date
    /\ a.failures \in BOOLEAN

OfflineTypeOK ==
    /\ deaths \in Nat
    /\ rows \in [Date -> RowsOfDay \cup {NoFile}]
    /\ mart \in [Date -> Partition \cup {NoPart}]
    /\ store \in [Date -> Copy \cup {NoPart}]
    /\ pub = [p \in Publisher |-> pub[p]]
    /\ \A p \in Publisher : PublisherShape(pub[p])
    /\ AuditShape(audit)
    /\ quiet \in BOOLEAN

-----------------------------------------------------------------------------
(***************************************************************************)
(* Types.                                                                  *)
(***************************************************************************)

LEMMA InitType == Init => OfflineTypeOK
<1> SUFFICES ASSUME Init PROVE OfflineTypeOK
  OBVIOUS
<1>1. deaths \in Nat
  BY DEF Init, CompilerInit
<1>2. store \in [Date -> Copy \cup {NoPart}]
  BY OfflineAssumption DEF Init
<1>3. \A p \in Publisher : PublisherShape(pub[p])
  BY DEF Init, Resting, PublisherShape
<1>4. AuditShape(audit)
  BY DEF Init, NoAudit, AuditShape
<1> QED BY <1>1, <1>2, <1>3, <1>4 DEF Init, OfflineTypeOK

\* A generator step may let a process die and does nothing else that matters here.
LEMMA DevelopType ==
    ASSUME OfflineTypeOK, Develop
    PROVE  OfflineTypeOK'
<1>1. CompilerNext
  BY DEF Develop
<1>2. deaths' \in Nat
  BY <1>1 DEF CompilerNext, EditSpec, TouchFile, StartGenerate, WriteFile, GenerateDies,
              OfflineTypeOK
<1>3. quiet' \in BOOLEAN
  BY DEF Develop, OfflineTypeOK
<1> QED BY <1>2, <1>3 DEF Develop, OfflineTypeOK

LEMMA RunMartType ==
    ASSUME OfflineTypeOK, NEW d \in Date, NEW v \in Version, NEW leaks \in BOOLEAN,
           RunMart(d, v, leaks)
    PROVE  OfflineTypeOK'
<1>1. rows' \in [Date -> RowsOfDay \cup {NoFile}]
  <2>1. [version |-> v, asOf |-> d] \in RowsOfDay
    BY DEF RowsOfDay
  <2> QED BY <2>1 DEF RunMart, OfflineTypeOK
<1>2. 1 .. d \subseteq Date
  BY OfflineAssumption DEF Date
<1>3. {rows'[e].version : e \in {x \in 1 .. d : rows'[x] # NoFile}} \in SUBSET Version
  BY <1>1, <1>2 DEF RowsOfDay
<1>4. mart' \in [Date -> Partition \cup {NoPart}]
  <2> DEFINE left == [e \in Date |-> IF Rebuilds(v) THEN NoPart ELSE mart[e]]
             part == [stamp |-> v, leaks |-> leaks,
                      behind |-> {rows'[e].version : e \in {x \in 1 .. d : rows'[x] # NoFile}}]
  <2>1. left \in [Date -> Partition \cup {NoPart}]
    BY DEF OfflineTypeOK
  <2>2. part \in Partition
    BY <1>3 DEF Partition
  <2>3. mart' = [left EXCEPT ![d] = part]
    BY DEF RunMart
  <2> QED BY <2>1, <2>2, <2>3
<1> QED BY <1>1, <1>4 DEF RunMart, OfflineTypeOK, compilerVars

\* The copy that is made of a partition that may be published.
LEMMA CopyType ==
    ASSUME OfflineTypeOK, NEW d \in Date, Publishable(d), NEW p \in Publisher,
           CopyPartition(p, d)
    PROVE  /\ mart[d] \in Partition /\ mart[d].leaks = FALSE
           /\ [stamp |-> mart[d].stamp, leaks |-> mart[d].leaks] \in Copy
           /\ store' \in [Date -> Copy \cup {NoPart}]
           /\ store'[d] = [stamp |-> mart[d].stamp, leaks |-> mart[d].leaks]
           /\ \A e \in Date : e # d => store'[e] = store[e]
           /\ pub'[p] = [phase |-> "verify", date |-> d, registry |-> tree[Registry]]
           /\ \A q \in Publisher : q # p => pub'[q] = pub[q]
           /\ pub' = [q \in Publisher |-> pub'[q]]
           /\ \A q \in Publisher : PublisherShape(pub'[q])
<1>1. mart[d] \in Partition
  BY DEF OfflineTypeOK, Publishable
<1>2. mart[d].stamp \in Version /\ mart[d].leaks = FALSE
  BY <1>1 DEF Partition, Publishable
<1>3. [stamp |-> mart[d].stamp, leaks |-> mart[d].leaks] \in Copy
  BY <1>2 DEF Copy
<1>4. pub' = [q \in Publisher |->
                 IF q = p THEN [phase |-> "verify", date |-> d, registry |-> tree[Registry]]
                 ELSE pub[q]]
  BY DEF CopyPartition, OfflineTypeOK
<1>5. \A q \in Publisher : PublisherShape(pub'[q])
  BY <1>4 DEF PublisherShape, OfflineTypeOK
<1> QED BY <1>1, <1>2, <1>3, <1>4, <1>5 DEF CopyPartition, OfflineTypeOK

\* A publisher that leaves.
LEMMA LeavesType ==
    ASSUME OfflineTypeOK, NEW p \in Publisher, NEW refused \in BOOLEAN, Leaves(p, refused)
    PROVE  /\ pub' = [q \in Publisher |-> IF q = p THEN Resting ELSE pub[q]]
           /\ \A q \in Publisher : PublisherShape(pub'[q])
           /\ AuditShape(audit')
           /\ p # "audit" => audit' = audit
           /\ p = "audit" => /\ audit'.phase = audit.phase /\ audit'.expected = audit.expected
                             /\ audit'.suspects = audit.suspects \ {pub[p].date}
                             /\ audit'.failures = (audit.failures \/ refused)
<1>1. pub' = [q \in Publisher |-> IF q = p THEN Resting ELSE pub[q]]
  BY DEF Leaves, OfflineTypeOK
<1>2. \A q \in Publisher : PublisherShape(pub'[q])
  BY <1>1 DEF PublisherShape, Resting, OfflineTypeOK
<1>3. AuditShape(audit') /\
      (p = "audit" => /\ audit'.phase = audit.phase /\ audit'.expected = audit.expected
                      /\ audit'.suspects = audit.suspects \ {pub[p].date}
                      /\ audit'.failures = (audit.failures \/ refused))
  <2>1. CASE p # "audit"
    BY <2>1 DEF Leaves, OfflineTypeOK
  <2>2. CASE p = "audit"
    BY <2>2 DEF Leaves, OfflineTypeOK, AuditShape
  <2> QED BY <2>1, <2>2
<1> QED BY <1>1, <1>2, <1>3 DEF Leaves

\* The second query of an audit.
LEMMA FindStaleType ==
    ASSUME OfflineTypeOK, FindStale
    PROVE  OfflineTypeOK'
<1> DEFINE suspects == audit.suspects \cup Stale(audit.expected)
<1>1. suspects \in SUBSET Date
  BY DEF Stale, OfflineTypeOK, AuditShape
<1>2. CASE suspects # {} /\ (audit.fix \/ audit.prune)
  <2>1. /\ audit' = [audit EXCEPT !.phase = "repair", !.suspects = suspects,
                                  !.available = {d \in Date : mart[d] # NoPart}]
        /\ quiet' = quiet
    BY <1>2 DEF FindStale
  <2>2. AuditShape(audit')
    BY <1>1, <2>1 DEF OfflineTypeOK, AuditShape
  <2> QED BY <2>1, <2>2 DEF FindStale, OfflineTypeOK, compilerVars
<1>3. CASE ~(suspects # {} /\ (audit.fix \/ audit.prune))
  <2>1. \E phase \in {"clean", "failed"} : Ends(phase)
    BY <1>3 DEF FindStale
  <2>2. AuditShape(audit') /\ quiet' \in BOOLEAN
    BY <2>1 DEF Ends, NoAudit, AuditShape, OfflineTypeOK
  <2> QED BY <2>2 DEF FindStale, OfflineTypeOK, compilerVars
<1> QED BY <1>2, <1>3

LEMMA NextType == OfflineTypeOK /\ [Next]_vars => OfflineTypeOK'
<1> SUFFICES ASSUME OfflineTypeOK, [Next]_vars PROVE OfflineTypeOK'
  OBVIOUS
<1>1. CASE Develop
  BY <1>1, DevelopType
<1>2. ASSUME NEW d \in Scheduled, NEW v \in Version, NEW leaks \in BOOLEAN, RunMart(d, v, leaks)
      PROVE  OfflineTypeOK'
  BY <1>2, RunMartType, OfflineAssumption
<1>3. ASSUME NEW d \in Date, DagPublish(d) PROVE OfflineTypeOK'
  <2>1. "dag" \in Publisher /\ CopyPartition("dag", d) /\ Publishable(d)
    BY <1>3 DEF DagPublish, Publisher
  <2> QED BY <1>3, <2>1, CopyType DEF DagPublish, OfflineTypeOK, compilerVars
<1>4. ASSUME NEW p \in Publisher, Verify(p) PROVE OfflineTypeOK'
  <2>1. CASE ReadsBack(p)
    <3>1. pub' = [pub EXCEPT ![p].phase = "registry"] /\ audit' = audit
      BY <1>4, <2>1 DEF Verify
    <3>2. \A q \in Publisher : PublisherShape(pub'[q])
      BY <1>4, <3>1 DEF PublisherShape, OfflineTypeOK, Verify
    <3> QED BY <1>4, <3>1, <3>2 DEF Verify, OfflineTypeOK, compilerVars
  <2>2. CASE ~ReadsBack(p)
    <3>1. Leaves(p, TRUE)
      BY <1>4, <2>2 DEF Verify
    <3> QED BY <1>4, <3>1, LeavesType DEF Verify, OfflineTypeOK, compilerVars
  <2> QED BY <2>1, <2>2
<1>5. ASSUME NEW p \in Publisher, CopyRegistry(p) PROVE OfflineTypeOK'
  BY <1>5, LeavesType DEF CopyRegistry, OfflineTypeOK, compilerVars
<1>6. ASSUME NEW p \in Publisher, PublisherDies(p) PROVE OfflineTypeOK'
  <2>1. Leaves(p, TRUE) /\ deaths' = deaths + 1
    BY <1>6 DEF PublisherDies
  <2>2. /\ pub' = [q \in Publisher |-> pub'[q]]
        /\ \A q \in Publisher : PublisherShape(pub'[q])
        /\ AuditShape(audit')
    BY <2>1, LeavesType
  <2> QED BY <1>6, <2>1, <2>2 DEF PublisherDies, OfflineTypeOK
<1>7. ASSUME NEW fix \in BOOLEAN, NEW prune \in BOOLEAN, StartAudit(fix, prune)
      PROVE  OfflineTypeOK'
  <2>1. AuditShape(audit')
    BY <1>7 DEF StartAudit, NoAudit, AuditShape, Leaking
  <2> QED BY <1>7, <2>1 DEF StartAudit, OfflineTypeOK, compilerVars
<1>8. CASE FindStale
  BY <1>8, FindStaleType
<1>9. ASSUME NEW d \in Date, Republish(d) PROVE OfflineTypeOK'
  <2>1. CASE Publishable(d)
    <3>1. "audit" \in Publisher /\ CopyPartition("audit", d) /\ audit' = audit
      BY <1>9, <2>1 DEF Republish, Publisher
    <3> QED BY <1>9, <2>1, <3>1, CopyType DEF Republish, OfflineTypeOK, compilerVars
  <2>2. CASE ~Publishable(d)
    <3>1. AuditShape(audit')
      BY <1>9, <2>2 DEF Republish, OfflineTypeOK, AuditShape
    <3> QED BY <1>9, <2>2, <3>1 DEF Republish, OfflineTypeOK, compilerVars
  <2> QED BY <2>1, <2>2
<1>10. ASSUME NEW d \in Date, Prune(d) PROVE OfflineTypeOK'
  <2>1. AuditShape(audit')
    BY <1>10 DEF Prune, OfflineTypeOK, AuditShape
  <2> QED BY <1>10, <2>1 DEF Prune, OfflineTypeOK, compilerVars
<1>11. ASSUME NEW d \in Date, GiveUp(d) PROVE OfflineTypeOK'
  <2>1. AuditShape(audit')
    BY <1>11 DEF GiveUp, OfflineTypeOK, AuditShape
  <2> QED BY <1>11, <2>1 DEF GiveUp, OfflineTypeOK, compilerVars
<1>12. CASE EndAudit
  <2>1. AuditShape(audit')
    BY <1>12 DEF EndAudit, Ends, NoAudit, AuditShape
  <2> QED BY <1>12, <2>1 DEF EndAudit, Ends, OfflineTypeOK, compilerVars
<1>13. CASE UNCHANGED vars
  BY <1>13 DEF vars, compilerVars, offlineVars, OfflineTypeOK
<1> QED BY <1>1, <1>2, <1>3, <1>4, <1>5, <1>6, <1>7, <1>8, <1>9, <1>10, <1>11, <1>12, <1>13
        DEF Next

-----------------------------------------------------------------------------
(***************************************************************************)
(* What publishers rely on.                                                *)
(***************************************************************************)

\* The copy that a publication of d makes.
CopyOfMart(d) == [stamp |-> mart[d].stamp, leaks |-> mart[d].leaks]

\* While a publisher is at work the copy of its date is gone, or is what the mart has: nobody
\* can build the partition anew, and who else publishes it copies the same rows.  Past its
\* check, these are of the version of the registry that it has read.
CopiesTheMart(p) ==
    /\ pub[p].phase # "idle" =>
          /\ mart[pub[p].date] # NoPart
          /\ store[pub[p].date] \in {NoPart, CopyOfMart(pub[p].date)}
    /\ pub[p].phase = "registry" => mart[pub[p].date].stamp = pub[p].registry

PublishersCopyTheMart == \A p \in Publisher : CopiesTheMart(p)

LEMMA PublishersInit == Init => PublishersCopyTheMart
BY DEF Init, Resting, PublishersCopyTheMart, CopiesTheMart

\* A publication by p keeps it, for p and for a publisher of the same date.
LEMMA CopyKeepsPublishers ==
    ASSUME OfflineTypeOK, PublishersCopyTheMart, NEW d \in Date, Publishable(d),
           NEW p \in Publisher, CopyPartition(p, d), mart' = mart
    PROVE  PublishersCopyTheMart'
<1> SUFFICES ASSUME NEW q \in Publisher PROVE CopiesTheMart(q)'
  BY DEF PublishersCopyTheMart
<1>1. mart[d] # NoPart /\ store'[d] = CopyOfMart(d)'
  BY CopyType DEF Publishable, CopyOfMart
<1>2. CASE q = p
  <2>1. pub'[q] = [phase |-> "verify", date |-> d, registry |-> tree[Registry]]
    BY <1>2, CopyType
  <2>2. pub'[q].phase = "verify" /\ pub'[q].date = d
    BY <2>1
  <2> QED BY <1>1, <2>2 DEF CopiesTheMart
<1>3. CASE q # p /\ pub[q].phase # "idle"
  <2>1. pub'[q] = pub[q] /\ pub[q].date \in Date
    BY <1>3, CopyType DEF OfflineTypeOK, PublisherShape
  <2>2. store'[pub[q].date] = store[pub[q].date] \/ pub[q].date = d
    BY <2>1, CopyType
  <2>3. CopiesTheMart(q)
    BY DEF PublishersCopyTheMart
  <2> QED BY <1>1, <1>3, <2>1, <2>2, <2>3 DEF CopiesTheMart, CopyOfMart
<1>4. CASE q # p /\ pub[q].phase = "idle"
  <2>1. pub'[q].phase = "idle"
    BY <1>4, CopyType
  <2> QED BY <2>1 DEF CopiesTheMart
<1> QED BY <1>2, <1>3, <1>4

\* So does a publisher that leaves.
LEMMA LeavingKeepsPublishers ==
    ASSUME OfflineTypeOK, PublishersCopyTheMart, NEW p \in Publisher, NEW refused \in BOOLEAN,
           Leaves(p, refused), mart' = mart, store' = store
    PROVE  PublishersCopyTheMart'
<1> SUFFICES ASSUME NEW q \in Publisher PROVE CopiesTheMart(q)'
  BY DEF PublishersCopyTheMart
<1>1. pub'[q] = IF q = p THEN Resting ELSE pub[q]
  BY LeavesType
<1>2. CopiesTheMart(q)
  BY DEF PublishersCopyTheMart
<1> QED BY <1>1, <1>2 DEF CopiesTheMart, CopyOfMart, Resting

\* And so does every step that changes neither the publishers nor the mart and at most removes
\* copies.
LEMMA RestKeepsPublishers ==
    ASSUME OfflineTypeOK, PublishersCopyTheMart, mart' = mart, pub' = pub,
           \A d \in Date : store'[d] \in {store[d], NoPart}
    PROVE  PublishersCopyTheMart'
<1> SUFFICES ASSUME NEW q \in Publisher PROVE CopiesTheMart(q)'
  BY DEF PublishersCopyTheMart
<1>1. CopiesTheMart(q)
  BY DEF PublishersCopyTheMart
<1>2. pub[q].phase # "idle" => pub[q].date \in Date
  BY DEF OfflineTypeOK, PublisherShape
<1>3. pub[q].phase = "registry" => pub[q].phase # "idle"
  OBVIOUS
<1> QED BY <1>1, <1>2, <1>3 DEF CopiesTheMart, CopyOfMart

LEMMA PublishersNext ==
    OfflineTypeOK /\ PublishersCopyTheMart /\ [Next]_vars => PublishersCopyTheMart'
<1> SUFFICES ASSUME OfflineTypeOK, PublishersCopyTheMart, [Next]_vars
             PROVE  PublishersCopyTheMart'
  OBVIOUS
<1>1. CASE Develop
  BY <1>1, RestKeepsPublishers DEF Develop
<1>2. ASSUME NEW d \in Scheduled, NEW v \in Version, NEW leaks \in BOOLEAN, RunMart(d, v, leaks)
      PROVE  PublishersCopyTheMart'
  BY <1>2 DEF RunMart, NoReader, PublishersCopyTheMart, CopiesTheMart
<1>3. ASSUME NEW d \in Date, DagPublish(d) PROVE PublishersCopyTheMart'
  <2>1. "dag" \in Publisher /\ CopyPartition("dag", d) /\ Publishable(d) /\ mart' = mart
    BY <1>3 DEF DagPublish, Publisher
  <2> QED BY <2>1, CopyKeepsPublishers
<1>4. ASSUME NEW p \in Publisher, Verify(p) PROVE PublishersCopyTheMart'
  <2>1. CASE ReadsBack(p)
    <3>1. /\ pub[p].phase = "verify" /\ pub' = [pub EXCEPT ![p].phase = "registry"]
          /\ UNCHANGED <<mart, store>>
      BY <1>4, <2>1 DEF Verify
    <3>2. /\ pub'[p].phase = "registry" /\ pub'[p].date = pub[p].date
          /\ pub'[p].registry = pub[p].registry
          /\ \A q \in Publisher : q # p => pub'[q] = pub[q]
      BY <3>1 DEF OfflineTypeOK, PublisherShape
    <3>3. /\ mart[pub[p].date] # NoPart
          /\ store[pub[p].date] = CopyOfMart(pub[p].date)
      BY <3>1, <2>1 DEF ReadsBack, PublishersCopyTheMart, CopiesTheMart
    <3>4. mart[pub[p].date].stamp = pub[p].registry
      BY <3>3, <2>1 DEF ReadsBack, CopyOfMart
    <3>5. ASSUME NEW q \in Publisher PROVE CopiesTheMart(q)'
      BY <3>1, <3>2, <3>3, <3>4 DEF PublishersCopyTheMart, CopiesTheMart, CopyOfMart
    <3> QED BY <3>5 DEF PublishersCopyTheMart
  <2>2. CASE ~ReadsBack(p)
    BY <1>4, <2>2, LeavingKeepsPublishers DEF Verify
  <2> QED BY <2>1, <2>2
<1>5. ASSUME NEW p \in Publisher, CopyRegistry(p) PROVE PublishersCopyTheMart'
  BY <1>5, LeavingKeepsPublishers DEF CopyRegistry
<1>6. ASSUME NEW p \in Publisher, PublisherDies(p) PROVE PublishersCopyTheMart'
  BY <1>6, LeavingKeepsPublishers DEF PublisherDies
<1>7. ASSUME NEW fix \in BOOLEAN, NEW prune \in BOOLEAN, StartAudit(fix, prune)
      PROVE  PublishersCopyTheMart'
  BY <1>7, RestKeepsPublishers DEF StartAudit
<1>8. CASE FindStale
  BY <1>8, RestKeepsPublishers DEF FindStale
<1>9. ASSUME NEW d \in Date, Republish(d) PROVE PublishersCopyTheMart'
  <2>1. CASE Publishable(d)
    <3>1. "audit" \in Publisher /\ CopyPartition("audit", d) /\ mart' = mart
      BY <1>9, <2>1 DEF Republish, Publisher
    <3> QED BY <2>1, <3>1, CopyKeepsPublishers
  <2>2. CASE ~Publishable(d)
    BY <1>9, <2>2, RestKeepsPublishers DEF Republish
  <2> QED BY <2>1, <2>2
<1>10. ASSUME NEW d \in Date, Prune(d) PROVE PublishersCopyTheMart'
  <2>1. UNCHANGED <<mart, pub>> /\ \A e \in Date : store'[e] \in {store[e], NoPart}
    BY <1>10 DEF Prune, OfflineTypeOK
  <2> QED BY <2>1, RestKeepsPublishers
<1>11. ASSUME NEW d \in Date, GiveUp(d) PROVE PublishersCopyTheMart'
  BY <1>11, RestKeepsPublishers DEF GiveUp
<1>12. CASE EndAudit
  BY <1>12, RestKeepsPublishers DEF EndAudit
<1>13. CASE UNCHANGED vars
  BY <1>13, RestKeepsPublishers DEF vars, offlineVars
<1> QED BY <1>1, <1>2, <1>3, <1>4, <1>5, <1>6, <1>7, <1>8, <1>9, <1>10, <1>11, <1>12, <1>13
        DEF Next

-----------------------------------------------------------------------------
(***************************************************************************)
(* What an audit relies on.                                                *)
(***************************************************************************)

\* The copies that break one of the two contracts.
Violating == Leaking \cup Stale(tree[Registry])

\* The publisher that an audit has started works on a suspect of an audit that repairs.
ChildOfAudit ==
    pub["audit"].phase # "idle" => audit.phase = "repair" /\ pub["audit"].date \in audit.suspects

\* As long as nobody interferes, what the audit knows of the store is so: what it has found by
\* its first query; what is left to repair, apart from what is just being repaired, and that
\* nothing else violates a contract unless it has counted a failure.
AuditKnows ==
    quiet =>
        /\ audit.phase \in {"leaks", "repair"} => audit.expected = tree[Registry]
        /\ audit.phase = "leaks" => audit.suspects = Leaking
        /\ audit.phase = "repair" =>
              /\ Violating \subseteq audit.suspects \/ audit.failures
              /\ \A d \in audit.suspects :
                    (pub["audit"].phase = "idle" \/ pub["audit"].date # d) => d \in Violating
        /\ audit.phase = "clean" => Violating = {}

\* And what its publisher has copied does not leak, and has passed the check against the
\* registry of now when it was checked.
ChildIsRight ==
    quiet /\ pub["audit"].phase # "idle" =>
        /\ pub["audit"].date \notin Leaking
        /\ pub["audit"].phase = "verify" => pub["audit"].registry = tree[Registry]
        /\ pub["audit"].phase = "registry" => pub["audit"].date \notin Violating

AuditIsRight == ChildOfAudit /\ AuditKnows /\ ChildIsRight

LEMMA AuditInit == Init => AuditIsRight
BY DEF Init, Publisher, Resting, AuditIsRight, ChildOfAudit, AuditKnows, ChildIsRight

\* Violations are violations of the store and the registry.
LEMMA SameViolations ==
    ASSUME store' = store, tree'[Registry] = tree[Registry]
    PROVE  Violating' = Violating /\ Leaking' = Leaking
BY DEF Violating, Leaking, Stale, Registry

\* Only the date whose copy is changed may begin or cease to violate a contract.
LEMMA OneViolation ==
    ASSUME tree' = tree, NEW d \in Date, \A e \in Date : e # d => store'[e] = store[e]
    PROVE  /\ \A e \in Date : e # d => (e \in Violating' <=> e \in Violating)
           /\ Violating' \subseteq Date
           /\ store'[d] = NoPart => d \notin Violating'
BY DEF Violating, Leaking, Stale

\* A step that leaves the audit and its publisher alone.
LEMMA RestKeepsAudit ==
    ASSUME AuditIsRight, audit' = audit, pub'["audit"] = pub["audit"], store' = store,
           quiet' => quiet /\ tree'[Registry] = tree[Registry]
    PROVE  AuditIsRight'
<1>1. CASE ~quiet'
  BY <1>1 DEF AuditIsRight, ChildOfAudit, AuditKnows, ChildIsRight
<1>2. CASE quiet'
  <2>1. /\ quiet /\ tree'[Registry] = tree[Registry]
        /\ Violating' = Violating /\ Leaking' = Leaking
    BY <1>2, SameViolations
  <2> QED BY <2>1 DEF AuditIsRight, ChildOfAudit, AuditKnows, ChildIsRight
<1> QED BY <1>1, <1>2

\* A publisher leaves; if it is the audit's and is not refused, its copy is right.
LEMMA LeavingKeepsAudit ==
    ASSUME OfflineTypeOK, AuditIsRight, NEW p \in Publisher, NEW refused \in BOOLEAN,
           Leaves(p, refused), pub[p].phase # "idle",
           store' = store, tree' = tree, quiet' = quiet,
           p = "audit" /\ quiet /\ ~refused => pub[p].date \notin Violating
    PROVE  AuditIsRight'
<1>1. Violating' = Violating /\ Leaking' = Leaking
  BY SameViolations
<1>2. CASE p # "audit"
  <2>1. pub'["audit"] = pub["audit"] /\ audit' = audit
    BY <1>2, LeavesType DEF Publisher
  <2> QED BY <2>1, RestKeepsAudit
<1>3. CASE p = "audit"
  <2>1. /\ pub'["audit"].phase = "idle"
        /\ audit'.phase = "repair" /\ audit.phase = "repair"
        /\ audit'.expected = audit.expected
        /\ audit'.suspects = audit.suspects \ {pub["audit"].date}
        /\ audit'.failures = (audit.failures \/ refused)
    BY <1>3, LeavesType DEF Resting, AuditIsRight, ChildOfAudit
  <2>2. ChildOfAudit' /\ ChildIsRight'
    BY <2>1 DEF ChildOfAudit, ChildIsRight
  <2>3. CASE quiet
    <3>1. /\ audit.expected = tree[Registry]
          /\ Violating \subseteq audit.suspects \/ audit.failures
          /\ \A d \in audit.suspects : pub["audit"].date # d => d \in Violating
      BY <2>1, <2>3 DEF AuditIsRight, AuditKnows
    <3>2. Violating \subseteq audit'.suspects \/ audit'.failures
      BY <1>3, <2>1, <2>3, <3>1
    <3>3. \A d \in audit'.suspects : d \in Violating
      BY <2>1, <3>1
    <3> QED BY <1>1, <2>1, <2>2, <3>1, <3>2, <3>3 DEF AuditIsRight, AuditKnows
  <2>4. CASE ~quiet
    BY <2>2, <2>4 DEF AuditIsRight, AuditKnows
  <2> QED BY <2>3, <2>4
<1> QED BY <1>2, <1>3

\* The publisher of the audit checks its copy: past the check the copy is right.
LEMMA VerifyKeepsAudit ==
    ASSUME OfflineTypeOK, AuditIsRight, NEW p \in Publisher, Verify(p)
    PROVE  AuditIsRight'
<1>1. pub[p].phase = "verify" /\ store' = store /\ tree' = tree /\ quiet' = quiet
  BY DEF Verify, compilerVars
<1>2. CASE ~ReadsBack(p)
  BY <1>1, <1>2, LeavingKeepsAudit DEF Verify
<1>3. CASE ReadsBack(p) /\ p # "audit"
  <2>1. pub'["audit"] = pub["audit"] /\ audit' = audit
    BY <1>3 DEF Verify, Publisher, OfflineTypeOK
  <2> QED BY <1>1, <2>1, RestKeepsAudit
<1>4. CASE ReadsBack(p) /\ p = "audit"
  <2>1. pub' = [pub EXCEPT !["audit"].phase = "registry"] /\ audit' = audit
    BY <1>4 DEF Verify
  <2>2. /\ pub'["audit"].phase = "registry" /\ pub'["audit"].date = pub["audit"].date
        /\ pub["audit"].date \in Date
    BY <1>1, <1>4, <2>1 DEF OfflineTypeOK, PublisherShape, Publisher
  <2>3. Violating' = Violating /\ Leaking' = Leaking
    BY <1>1, SameViolations
  <2>4. quiet => pub["audit"].date \notin Violating
    BY <1>1, <1>4 DEF AuditIsRight, ChildIsRight, ReadsBack, Violating, Stale
  <2>5. ChildOfAudit'
    BY <1>1, <1>4, <2>1, <2>2 DEF AuditIsRight, ChildOfAudit
  <2>6. ChildIsRight'
    BY <1>1, <1>4, <2>2, <2>3, <2>4 DEF AuditIsRight, ChildIsRight
  <2>7. AuditKnows'
    BY <1>1, <1>4, <2>1, <2>2, <2>3 DEF AuditIsRight, AuditKnows
  <2> QED BY <2>5, <2>6, <2>7 DEF AuditIsRight
<1> QED BY <1>2, <1>3, <1>4

\* The second query, after which the audit ends or knows every violation.
LEMMA FindStaleKeepsAudit ==
    ASSUME OfflineTypeOK, AuditIsRight, FindStale
    PROVE  AuditIsRight'
<1> DEFINE suspects == audit.suspects \cup Stale(audit.expected)
<1>1. /\ audit.phase = "leaks" /\ store' = store /\ tree' = tree /\ pub' = pub
      /\ pub["audit"].phase = "idle"
  BY DEF FindStale, compilerVars, AuditIsRight, ChildOfAudit
<1>2. Violating' = Violating /\ Leaking' = Leaking
  BY <1>1, SameViolations
<1>3. quiet => audit.expected = tree[Registry] /\ suspects = Violating
  BY <1>1 DEF AuditIsRight, AuditKnows, Violating
<1>4. ChildOfAudit' /\ ChildIsRight'
  BY <1>1 DEF ChildOfAudit, ChildIsRight
<1>5. CASE suspects # {} /\ (audit.fix \/ audit.prune)
  <2>1. /\ audit' = [audit EXCEPT !.phase = "repair", !.suspects = suspects,
                                  !.available = {d \in Date : mart[d] # NoPart}]
        /\ quiet' = quiet
    BY <1>5 DEF FindStale
  <2>2. audit'.phase = "repair" /\ audit'.suspects = suspects /\ audit'.expected = audit.expected
    BY <2>1 DEF OfflineTypeOK, AuditShape
  <2> QED BY <1>1, <1>2, <1>3, <1>4, <2>1, <2>2 DEF AuditIsRight, AuditKnows
<1>6. CASE suspects = {}
  <2>1. audit' = [NoAudit EXCEPT !.phase = "clean"] /\ (quiet' => quiet)
    BY <1>6 DEF FindStale, Ends
  <2>2. audit'.phase = "clean"
    BY <2>1 DEF NoAudit
  <2> QED BY <1>2, <1>3, <1>4, <1>6, <2>1, <2>2 DEF AuditIsRight, AuditKnows
<1>7. CASE suspects # {} /\ ~(audit.fix \/ audit.prune)
  <2>1. ~quiet'
    BY <1>7 DEF FindStale, Ends
  <2> QED BY <1>4, <2>1 DEF AuditIsRight, AuditKnows
<1> QED BY <1>5, <1>6, <1>7

\* A suspect is published again: only its copy changes, and the new one does not leak.
LEMMA RepublishKeepsAudit ==
    ASSUME OfflineTypeOK, AuditIsRight, NEW d \in Date, Republish(d)
    PROVE  AuditIsRight'
<1>1. /\ audit.phase = "repair" /\ pub["audit"].phase = "idle" /\ d \in audit.suspects
      /\ tree' = tree /\ quiet' = quiet
  BY DEF Republish, InTurn, compilerVars
<1>2. CASE ~Publishable(d)
  <2>1. audit' = [audit EXCEPT !.suspects = @ \ {d}, !.failures = TRUE] /\ UNCHANGED <<store, pub>>
    BY <1>2 DEF Republish
  <2>2. /\ audit'.phase = "repair" /\ audit'.failures = TRUE
        /\ audit'.suspects = audit.suspects \ {d} /\ audit'.expected = audit.expected
    BY <1>1, <2>1 DEF OfflineTypeOK, AuditShape
  <2>3. Violating' = Violating
    BY <1>1, <2>1, SameViolations
  <2> QED BY <1>1, <2>1, <2>2, <2>3 DEF AuditIsRight, ChildOfAudit, AuditKnows, ChildIsRight
<1>3. CASE Publishable(d)
  <2>1. "audit" \in Publisher /\ CopyPartition("audit", d) /\ audit' = audit
    BY <1>3 DEF Republish, Publisher
  <2>2. /\ pub'["audit"] = [phase |-> "verify", date |-> d, registry |-> tree[Registry]]
        /\ \A e \in Date : e # d => store'[e] = store[e]
        /\ store'[d] = [stamp |-> mart[d].stamp, leaks |-> FALSE]
    BY <1>3, <2>1, CopyType
  <2>3. /\ pub'["audit"].phase = "verify" /\ pub'["audit"].date = d
        /\ pub'["audit"].registry = tree[Registry]
    BY <2>2
  <2>4. d \notin Leaking'
    BY <2>2 DEF Leaking
  <2>5. /\ \A e \in Date : e # d => (e \in Violating' <=> e \in Violating)
        /\ Violating' \subseteq Date
    BY <1>1, <2>2, OneViolation
  <2>6. ChildOfAudit'
    BY <1>1, <2>1, <2>3 DEF ChildOfAudit
  <2>7. ChildIsRight'
    BY <1>1, <2>3, <2>4 DEF ChildIsRight, Registry
  <2>8. CASE quiet
    <3>1. /\ audit.expected = tree[Registry]
          /\ Violating \subseteq audit.suspects \/ audit.failures
          /\ \A e \in audit.suspects : e \in Violating
      BY <1>1, <2>8 DEF AuditIsRight, AuditKnows
    <3>2. Violating' \subseteq audit.suspects \/ audit.failures
      BY <1>1, <2>5, <3>1
    <3>3. \A e \in audit.suspects : e # d => e \in Violating'
      BY <2>5, <3>1 DEF OfflineTypeOK, AuditShape
    <3>4. AuditKnows'
      BY <1>1, <2>1, <2>3, <3>1, <3>2, <3>3 DEF AuditKnows, Registry
    <3> QED BY <2>6, <2>7, <3>4 DEF AuditIsRight
  <2>9. CASE ~quiet
    BY <1>1, <2>6, <2>7, <2>9 DEF AuditIsRight, AuditKnows
  <2> QED BY <2>8, <2>9
<1> QED BY <1>2, <1>3

\* A suspect is deleted.
LEMMA PruneKeepsAudit ==
    ASSUME OfflineTypeOK, AuditIsRight, NEW d \in Date, Prune(d)
    PROVE  AuditIsRight'
<1>1. /\ audit.phase = "repair" /\ pub["audit"].phase = "idle"
      /\ tree' = tree /\ quiet' = quiet /\ pub' = pub
      /\ audit' = [audit EXCEPT !.suspects = @ \ {d}]
      /\ store' = [store EXCEPT ![d] = NoPart]
  BY DEF Prune, InTurn, compilerVars
<1>2. /\ audit'.phase = "repair" /\ audit'.suspects = audit.suspects \ {d}
      /\ audit'.expected = audit.expected /\ audit'.failures = audit.failures
  BY <1>1 DEF OfflineTypeOK, AuditShape
<1>3. store'[d] = NoPart /\ \A e \in Date : e # d => store'[e] = store[e]
  BY <1>1 DEF OfflineTypeOK
<1>4. /\ \A e \in Date : e # d => (e \in Violating' <=> e \in Violating)
      /\ Violating' \subseteq Date /\ d \notin Violating'
  BY <1>1, <1>3, OneViolation
<1>5. ChildOfAudit' /\ ChildIsRight'
  BY <1>1 DEF ChildOfAudit, ChildIsRight
<1>6. CASE quiet
  <2>1. /\ audit.expected = tree[Registry]
        /\ Violating \subseteq audit.suspects \/ audit.failures
        /\ \A e \in audit.suspects : e \in Violating
    BY <1>1, <1>6 DEF AuditIsRight, AuditKnows
  <2>2. Violating' \subseteq audit'.suspects \/ audit'.failures
    BY <1>2, <1>4, <2>1
  <2>3. \A e \in audit'.suspects : e \in Violating'
    BY <1>2, <1>4, <2>1 DEF OfflineTypeOK, AuditShape
  <2> QED BY <1>1, <1>2, <1>5, <2>1, <2>2, <2>3 DEF AuditIsRight, AuditKnows, Registry
<1>7. CASE ~quiet
  BY <1>1, <1>5, <1>7 DEF AuditIsRight, AuditKnows
<1> QED BY <1>6, <1>7

LEMMA AuditNext == OfflineTypeOK /\ AuditIsRight /\ [Next]_vars => AuditIsRight'
<1> SUFFICES ASSUME OfflineTypeOK, AuditIsRight, [Next]_vars PROVE AuditIsRight'
  OBVIOUS
<1>1. CASE Develop
  BY <1>1, RestKeepsAudit DEF Develop
<1>2. ASSUME NEW d \in Scheduled, NEW v \in Version, NEW leaks \in BOOLEAN, RunMart(d, v, leaks)
      PROVE  AuditIsRight'
  BY <1>2, RestKeepsAudit DEF RunMart, compilerVars
<1>3. ASSUME NEW d \in Date, DagPublish(d) PROVE AuditIsRight'
  <2>1. /\ "dag" \in Publisher /\ CopyPartition("dag", d) /\ Publishable(d)
        /\ audit' = audit /\ quiet' = FALSE
    BY <1>3 DEF DagPublish, Publisher
  <2>2. pub'["audit"] = pub["audit"]
    BY <2>1, CopyType DEF Publisher
  <2> QED BY <2>1, <2>2 DEF AuditIsRight, ChildOfAudit, AuditKnows, ChildIsRight
<1>4. ASSUME NEW p \in Publisher, Verify(p) PROVE AuditIsRight'
  BY <1>4, VerifyKeepsAudit
<1>5. ASSUME NEW p \in Publisher, CopyRegistry(p) PROVE AuditIsRight'
  <2>1. /\ pub[p].phase = "registry" /\ Leaves(p, FALSE)
        /\ store' = store /\ tree' = tree /\ quiet' = quiet
    BY <1>5 DEF CopyRegistry, compilerVars
  <2>2. p = "audit" /\ quiet => pub[p].date \notin Violating
    BY <2>1 DEF AuditIsRight, ChildIsRight
  <2> QED BY <2>1, <2>2, LeavingKeepsAudit
<1>6. ASSUME NEW p \in Publisher, PublisherDies(p) PROVE AuditIsRight'
  BY <1>6, LeavingKeepsAudit DEF PublisherDies
<1>7. ASSUME NEW fix \in BOOLEAN, NEW prune \in BOOLEAN, StartAudit(fix, prune)
      PROVE  AuditIsRight'
  <2>1. /\ audit' = [NoAudit EXCEPT !.phase = "leaks", !.fix = fix, !.prune = prune,
                                    !.expected = tree[Registry], !.suspects = Leaking]
        /\ pub["audit"].phase = "idle" /\ pub' = pub /\ store' = store /\ tree' = tree
    BY <1>7 DEF StartAudit, compilerVars, AuditIsRight, ChildOfAudit
  <2>2. audit'.phase = "leaks" /\ audit'.expected = tree[Registry] /\ audit'.suspects = Leaking
    BY <2>1 DEF NoAudit
  <2>3. Leaking' = Leaking
    BY <2>1, SameViolations
  <2> QED BY <2>1, <2>2, <2>3 DEF AuditIsRight, ChildOfAudit, AuditKnows, ChildIsRight, Registry
<1>8. CASE FindStale
  BY <1>8, FindStaleKeepsAudit
<1>9. ASSUME NEW d \in Date, Republish(d) PROVE AuditIsRight'
  BY <1>9, RepublishKeepsAudit
<1>10. ASSUME NEW d \in Date, Prune(d) PROVE AuditIsRight'
  BY <1>10, PruneKeepsAudit
<1>11. ASSUME NEW d \in Date, GiveUp(d) PROVE AuditIsRight'
  <2>1. /\ audit.phase = "repair" /\ pub["audit"].phase = "idle" /\ pub' = pub
        /\ audit' = [audit EXCEPT !.suspects = @ \ {d}, !.failures = TRUE]
        /\ store' = store /\ tree' = tree /\ quiet' = quiet
    BY <1>11 DEF GiveUp, InTurn, compilerVars
  <2>2. /\ audit'.phase = "repair" /\ audit'.failures = TRUE
        /\ audit'.suspects = audit.suspects \ {d} /\ audit'.expected = audit.expected
    BY <2>1 DEF OfflineTypeOK, AuditShape
  <2>3. Violating' = Violating
    BY <2>1, SameViolations
  <2> QED BY <2>1, <2>2, <2>3 DEF AuditIsRight, ChildOfAudit, AuditKnows, ChildIsRight
<1>12. CASE EndAudit
  <2>1. /\ audit.phase = "repair" /\ audit.suspects = {} /\ pub' = pub /\ store' = store
        /\ tree' = tree /\ pub["audit"].phase = "idle"
    BY <1>12 DEF EndAudit, compilerVars, AuditIsRight, ChildOfAudit
  <2>2. Violating' = Violating
    BY <2>1, SameViolations
  <2>3. audit'.phase \in {"clean", "failed"} /\ (quiet' => quiet /\ ~audit.failures)
    BY <1>12 DEF EndAudit, Ends, NoAudit
  <2>4. quiet' => Violating = {}
    BY <2>1, <2>3 DEF AuditIsRight, AuditKnows
  <2> QED BY <2>1, <2>2, <2>3, <2>4 DEF AuditIsRight, ChildOfAudit, AuditKnows, ChildIsRight
<1>13. CASE UNCHANGED vars
  BY <1>13, RestKeepsAudit DEF vars, compilerVars, offlineVars
<1> QED BY <1>1, <1>2, <1>3, <1>4, <1>5, <1>6, <1>7, <1>8, <1>9, <1>10, <1>11, <1>12, <1>13
        DEF Next

-----------------------------------------------------------------------------
(***************************************************************************)
(* The theorems.                                                           *)
(***************************************************************************)

Inv == OfflineTypeOK /\ PublishersCopyTheMart /\ AuditIsRight

\* What publishers and audits rely on holds at every moment.
LEMMA Invariance == Spec => []Inv
<1>1. Init => Inv
  BY InitType, PublishersInit, AuditInit DEF Inv
<1>2. Inv /\ [Next]_vars => Inv'
  BY NextType, PublishersNext, AuditNext DEF Inv
<1> QED BY <1>1, <1>2, PTL DEF Spec

\* An audit that ends with exit code 0, undisturbed by the DAG and the generator, leaves a store
\* that keeps both contracts.
THEOREM AuditsCleanTheStore == Spec => []CleanAuditIsClean
<1>1. Inv => CleanAuditIsClean
  <2> SUFFICES ASSUME Inv, audit.phase = "clean", quiet, NEW d \in Date, store[d] # NoPart
               PROVE  store[d] = [stamp |-> tree[Registry], leaks |-> FALSE]
    BY DEF CleanAuditIsClean
  <2>1. d \notin Violating
    BY DEF Inv, AuditIsRight, AuditKnows
  <2>2. store[d] \in Copy
    BY DEF Inv, OfflineTypeOK
  <2>3. store[d].stamp = tree[Registry] /\ store[d].leaks = FALSE
    BY <2>1, <2>2 DEF Violating, Leaking, Stale, Copy
  <2> QED BY <2>2, <2>3 DEF Copy
<1> QED BY <1>1, Invariance, PTL

\* An undisturbed audit deletes a copy only if it violates a contract at that moment, and any
\* audit with --fix only if the warehouse did not have the partition when it looked.
THEOREM AuditsPruneViolations == Spec => PrunesOnlyViolations
<1>1. Inv /\ [Next]_vars =>
        \A d \in Date :
          Pruned(d) =>
            /\ quiet => d \in Leaking \cup Stale(tree[Registry])
            /\ audit.fix => d \notin audit.available
  <2> SUFFICES ASSUME Inv, [Next]_vars, NEW d \in Date, store[d] # NoPart, store'[d] = NoPart
               PROVE  /\ quiet => d \in Violating
                      /\ audit.fix => d \notin audit.available
    BY DEF Violating, Pruned
  <2> USE DEF Inv
  <2>1. ASSUME NEW p \in Publisher, NEW e \in Date, Publishable(e), CopyPartition(p, e) PROVE FALSE
    BY <2>1, CopyType, OfflineAssumption
  <2>2. PICK e \in Date : Prune(e)
    <3>1. ASSUME NEW e \in Date, DagPublish(e) PROVE FALSE
      BY <2>1, <3>1 DEF DagPublish, Publisher
    <3>2. ASSUME NEW e \in Date, Republish(e) PROVE FALSE
      BY <2>1, <3>2 DEF Republish, Publisher
    <3> QED BY <3>1, <3>2 DEF Next, Develop, RunMart, Verify, CopyRegistry, PublisherDies,
                              StartAudit, FindStale, GiveUp, EndAudit, vars, offlineVars
  <2>3. e = d
    BY <2>2 DEF Prune, OfflineTypeOK
  <2> QED BY <2>2, <2>3 DEF Prune, InTurn, AuditIsRight, AuditKnows
<1> QED BY <1>1, Invariance, PTL DEF Spec, PrunesOnlyViolations

\* What a publisher has verified is what it leaves behind, whoever published, pruned or generated
\* since; and with the registry file unchanged the registry next to it describes it.
THEOREM RegistriesTravel == Spec => RegistryTravels
<1>1. Inv /\ [Next]_vars =>
        \A p \in Publisher :
          EndsWell(p) =>
             \/ store'[pub[p].date] = NoPart
             \/ /\ store'[pub[p].date].stamp = pub[p].registry
                /\ tree[Registry] = pub[p].registry => storeRegistry' = pub[p].registry
  <2> SUFFICES ASSUME Inv, [Next]_vars, NEW p \in Publisher, pub[p].phase = "registry",
                      pub'[p].phase = "idle", deaths' = deaths, store'[pub[p].date] # NoPart
               PROVE  /\ store'[pub[p].date].stamp = pub[p].registry
                      /\ tree[Registry] = pub[p].registry => storeRegistry' = pub[p].registry
    BY DEF EndsWell
  <2> USE DEF Inv
  <2>1. CopyRegistry(p)
    <3>1. ASSUME NEW d \in Date, NEW q \in Publisher, Publishable(d), CopyPartition(q, d) PROVE FALSE
      <4>1. pub'[q] = [phase |-> "verify", date |-> d, registry |-> tree[Registry]]
        BY <3>1, CopyType
      <4>2. pub'[q].phase = "verify"
        BY <4>1
      <4>3. q # p => pub'[p] = pub[p]
        BY <3>1, CopyType
      <4> QED BY <4>2, <4>3
    <3>2. ASSUME NEW d \in Date, DagPublish(d) PROVE FALSE
      BY <3>1, <3>2 DEF DagPublish, Publisher
    <3>3. ASSUME NEW d \in Date, Republish(d) PROVE FALSE
      BY <3>1, <3>3 DEF Republish, Publisher
    <3>4. ASSUME NEW q \in Publisher, Verify(q) PROVE FALSE
      <4>1. CASE q = p
        BY <3>4, <4>1 DEF Verify
      <4>2. CASE q # p
        BY <3>4, <4>2, LeavesType DEF Verify, OfflineTypeOK
      <4> QED BY <4>1, <4>2
    <3>5. ASSUME NEW q \in Publisher, CopyRegistry(q), q # p PROVE FALSE
      BY <3>5, LeavesType DEF CopyRegistry
    <3>6. ASSUME NEW q \in Publisher, PublisherDies(q) PROVE FALSE
      BY <3>6 DEF PublisherDies, OfflineTypeOK
    <3> QED BY <3>2, <3>3, <3>4, <3>5, <3>6 DEF Next, Develop, RunMart, StartAudit, FindStale, Prune,
                                                GiveUp, EndAudit, vars, offlineVars
  <2>2. store' = store /\ storeRegistry' = tree[Registry]
    BY <2>1 DEF CopyRegistry
  <2>3. mart[pub[p].date].stamp = pub[p].registry /\ store[pub[p].date] = CopyOfMart(pub[p].date)
    BY <2>2 DEF PublishersCopyTheMart, CopiesTheMart
  <2> QED BY <2>2, <2>3 DEF CopyOfMart
<1> QED BY <1>1, Invariance, PTL DEF Spec, RegistryTravels

\* What holds of the generator holds next to publishers and audits as well, whose deaths count
\* against the same bound: they read generated files and write none.
THEOREM GeneratorStaysRight == Spec => [](AggregatesAreStaged /\ GreenMeansGenerated /\ GenerateHeals)
<1>1. Init => GeneratorInv
  BY GeneratorInit DEF Init
<1>2. [Next]_vars => Step
  BY DEF Next, Develop, RunMart, DagPublish, CopyPartition, Verify, CopyRegistry, PublisherDies,
         StartAudit, FindStale, Republish, Prune, GiveUp, EndAudit, vars, compilerVars, Step
<1>3. GeneratorInv /\ [Next]_vars => GeneratorInv'
  BY <1>2, GeneratorNext
<1>4. GeneratorInv => AggregatesAreStaged /\ GreenMeansGenerated /\ GenerateHeals
  BY AcceptedIsStaged, GreenIsRight, GeneratedIsHealed DEF GeneratorInv
<1> QED BY <1>1, <1>3, <1>4, PTL DEF Spec

=============================================================================
