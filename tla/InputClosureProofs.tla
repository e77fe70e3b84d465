------------------------- MODULE InputClosureProofs -------------------------
(***************************************************************************)
(* What the hash and the audit promise together, for every tree and every  *)
(* sequence of edits, audits and exports.  The audit shows that what an    *)
(* entry reads is among its hashed dependencies; two trees with the same   *)
(* hash then show the entry the same, since what it reads next is decided  *)
(* by code and files that the hash already covers.                         *)
(***************************************************************************)
EXTENDS InputClosure, TLAPS

Covered(t, e) == Reads(t, e) \subseteq DependenciesOf(t, e)

(* The closure of a module has the module and what its members import.      *)
LEMMA EntryCodeClosed ==
    ASSUME NEW t, NEW e \in Entries
    PROVE  /\ EntryCode(t, e) \subseteq Modules
           /\ \A m \in EntryCode(t, e) : ImportsOf(t, m) \cap Modules \subseteq EntryCode(t, e)
  BY DEF EntryCode, Closure

(* Sources are what the assumption says of them.                            *)
LEMMA CodeOfModule ==
    ASSUME NEW t \in Tree, NEW m \in Codes, t[m] # Missing
    PROVE  /\ t[m] \in Sources
           /\ \A r \in t[m].code.top : r.by \in t[m].code.imports \cup {Itself}
           /\ t[m].code.follows \subseteq t[m].code.load
  <1>1. t[m] \in Sources
    BY DEF Tree
  <1> QED
    BY <1>1, CodeAssumption

(* If an audit passes, what a loadable entry reads is in its hash.          *)
LEMMA AuditCovers ==
    ASSUME NEW t \in Tree, Imported(t), ModuleLoadChecked(t),
           NEW e \in Entries, LoadChecked(t, e)
    PROVE  Covered(t, e)
  <1> DEFINE C == EntryCode(t, e)
  <1>1. /\ C \subseteq Modules
        /\ \A m \in C : ImportsOf(t, m) \cap Modules \subseteq C
    BY EntryCodeClosed
  <1>2. \A m \in C : t[m] # Missing
    BY DEF Imported, Resolves
  <1>3. TopReads(t, C) \subseteq DependenciesOf(t, e)
    <2> SUFFICES ASSUME NEW m \in C, NEW r \in t[m].code.top
                 PROVE  r.path \in DependenciesOf(t, e)
      BY DEF TopReads
    <2>1. Check(t, IdsOfModule(t, Attributed(t, m, r)), r.path)
      BY DEF ModuleLoadChecked
    <2>2. e \in IdsOfModule(t, Attributed(t, m, r))
      <3>1. CASE IdsOfModule(t, r.by) = {}
        BY <3>1 DEF Attributed, IdsOfModule
      <3>2. CASE IdsOfModule(t, r.by) # {}
        <4>1. r.by \in Modules
          <5>1. PICK x \in Entries : r.by \in EntryCode(t, x)
            BY <3>2 DEF IdsOfModule
          <5> QED
            BY <5>1, EntryCodeClosed
        <4>2. r.by \in t[m].code.imports
          <5>1. m \in Codes
            BY <1>1 DEF Codes
          <5>2. r.by \in t[m].code.imports \cup {Itself}
            BY <5>1, <1>2, CodeOfModule
          <5> QED
            BY <5>2, <4>1, PathsAssumption DEF Codes
        <4>3. r.by \in C
          BY <4>1, <4>2, <1>1, <1>2 DEF ImportsOf
        <4> QED
          BY <4>3, <3>2 DEF Attributed, IdsOfModule
      <3> QED
        BY <3>1, <3>2
    <2> QED
      BY <2>1, <2>2 DEF Check
  <1>4. LoadReads(t, C) \subseteq DependenciesOf(t, e)
    BY DEF LoadChecked, Check
  <1>5. UNION {t[m].code.imports \cap Data : m \in C} \subseteq DependenciesOf(t, e)
    BY DEF DependenciesOf, FilesOf
  <1> QED
    BY <1>3, <1>4, <1>5 DEF Covered, Reads

(* The heart of it: what two trees with the same hash show an entry.        *)
LEMMA SameHashSameSeen ==
    ASSUME NEW t \in Tree, NEW u \in Tree, NEW e \in Entries,
           Hashable(t, e), Hashable(u, e), Loads(t, e), Loads(u, e),
           InputHashOf(t, e) = InputHashOf(u, e), Covered(t, e)
    PROVE  Seen(t, e) = Seen(u, e)
  <1> DEFINE C == EntryCode(t, e)
             D == DependenciesOf(t, e)
  <1>1. NormalizedCode(t, C) = NormalizedCode(u, EntryCode(u, e))
    BY DEF InputHashOf
  <1>2. EntryCode(u, e) = C
    <2>1. DOMAIN NormalizedCode(t, C) = C
      BY DEF NormalizedCode
    <2>2. DOMAIN NormalizedCode(u, EntryCode(u, e)) = EntryCode(u, e)
      BY DEF NormalizedCode
    <2> QED
      BY <1>1, <2>1, <2>2
  <1>3. \A m \in C : t[m].code = u[m].code
    <2> SUFFICES ASSUME NEW m \in C
                 PROVE  t[m].code = u[m].code
      OBVIOUS
    <2>1. NormalizedCode(t, C)[m] = t[m].code /\ NormalizedCode(u, C)[m] = u[m].code
      BY DEF NormalizedCode
    <2> QED
      BY <1>1, <1>2, <2>1
  <1>4. HarnessFingerprint(t) = HarnessFingerprint(u)
    BY DEF InputHashOf
  <1>5. \A p \in D : ContentHash(t, p) = ContentHash(u, p)
    <2>1. [p \in D |-> ContentHash(t, p)] = [p \in DependenciesOf(u, e) |-> ContentHash(u, p)]
      BY DEF InputHashOf
    <2> QED
      BY <2>1
  <1>6. D = DependenciesOf(u, e)
    <2>1. [p \in D |-> ContentHash(t, p)] = [p \in DependenciesOf(u, e) |-> ContentHash(u, p)]
      BY DEF InputHashOf
    <2> QED
      BY <2>1
  <1>7. \A p \in D : (t[p] # Missing /\ u[p] # Missing) \/ p \notin Pinned => t[p] = u[p]
    <2> SUFFICES ASSUME NEW p \in D, (t[p] # Missing /\ u[p] # Missing) \/ p \notin Pinned
                 PROVE  t[p] = u[p]
      OBVIOUS
    <2>1. CASE p \notin Pinned
      BY <2>1, <1>5 DEF ContentHash
    <2>2. CASE p \in Pinned
      <3>1. t[p] = Pin[p]
        BY <2>2 DEF Hashable
      <3>2. u[p] = Pin[p]
        BY <2>2, <1>6 DEF Hashable
      <3> QED
        BY <3>1, <3>2
    <2> QED
      BY <2>1, <2>2
  <1>8. \A p \in LoadReads(t, C) : p \in D /\ t[p] # Missing
    BY DEF Covered, Reads, Loads
  <1>9. \A m \in C : t[m].code.load \subseteq LoadReads(t, C)
    BY DEF LoadReads
  <1>10. \A m \in C : u[m].code.load \subseteq LoadReads(u, C)
    BY DEF LoadReads
  <1>11. \A p \in LoadReads(u, C) : u[p] # Missing
    BY <1>2 DEF Reads, Loads
  <1>12. \A m \in C : \A p \in t[m].code.follows : t[p] = u[p]
    <2> SUFFICES ASSUME NEW m \in C, NEW p \in t[m].code.follows
                 PROVE  t[p] = u[p]
      OBVIOUS
    <2>1. m \in Codes /\ t[m] # Missing
      BY EntryCodeClosed DEF Hashable, Resolves, Codes
    <2>2. p \in t[m].code.load
      BY <2>1, CodeOfModule
    <2>3. p \in D /\ t[p] # Missing
      BY <2>2, <1>8, <1>9
    <2>4. u[p] # Missing
      BY <2>2, <1>3, <1>10, <1>11
    <2> QED
      BY <2>3, <2>4, <1>7
  <1>13. Followed(t, C) = Followed(u, C)
    <2> DEFINE F == UNION {t[m].code.follows : m \in C}
    <2>1. F = UNION {u[m].code.follows : m \in C}
      BY <1>3
    <2>2. \A p \in F : t[p] = u[p]
      BY <1>12
    <2>3. {t[p] : p \in F} = {u[p] : p \in F}
      BY <2>2
    <2> QED
      BY <2>1, <2>3 DEF Followed
  <1>14. Reads(t, e) = Reads(u, e)
    <2>1. TopReads(t, C) = TopReads(u, C)
      BY <1>3 DEF TopReads
    <2>2. UNION {t[m].code.load : m \in C} = UNION {u[m].code.load : m \in C}
      BY <1>3
    <2>3. UNION {t[m].code.imports \cap Data : m \in C} = UNION {u[m].code.imports \cap Data : m \in C}
      BY <1>3
    <2> QED
      BY <2>1, <2>2, <2>3, <1>2, <1>13 DEF Reads, LoadReads
  <1>15. \A p \in Reads(t, e) : t[p] = u[p]
    BY <1>7, <1>14 DEF Covered, Loads
  <1>16. t[RedTeam[e]] = u[RedTeam[e]]
    <2>1. RedTeam[e] \in D /\ RedTeam[e] \notin Pinned
      BY PathsAssumption DEF DependenciesOf
    <2> QED
      BY <2>1, <1>7
  <1>17. [p \in Reads(t, e) \cup {RedTeam[e]} |-> t[p]] = [p \in Reads(u, e) \cup {RedTeam[e]} |-> u[p]]
    BY <1>14, <1>15, <1>16
  <1> QED
    BY <1>1, <1>2, <1>4, <1>17 DEF Seen

-----------------------------------------------------------------------------
(* The invariant: where a row comes from                                    *)

FromTree(e, t) ==
    /\ Hashable(t, e) /\ Loads(t, e)
    /\ row[e].hash = InputHashOf(t, e)
    /\ row[e].seen = Seen(t, e)
    /\ row[e].audit = "passed" => Covered(t, e)

RowsComeFromTrees == \A e \in Entries : row[e] # None => \E t \in Tree : FromTree(e, t)

PassedMeansCovered ==
    audit = "passed" => \A e \in Entries : Loads(tree, e) => Covered(tree, e)

IInv ==
    /\ tree \in Tree
    /\ RowsComeFromTrees
    /\ PassedMeansCovered

LEMMA InitIInv == Init => IInv
  BY TreesAssumption DEF Init, IInv, RowsComeFromTrees, PassedMeansCovered

LEMMA EditIInv ==
    ASSUME IInv, NEW p \in Paths, NEW v \in Versions(p), Edit(p, v)
    PROVE  IInv'
  <1>1. tree' \in Tree
    BY TreesAssumption DEF IInv, Edit, Tree, Paths
  <1>2. RowsComeFromTrees'
    BY DEF IInv, Edit, RowsComeFromTrees, FromTree
  <1>3. PassedMeansCovered'
    BY DEF Edit, PassedMeansCovered
  <1> QED
    BY <1>1, <1>2, <1>3 DEF IInv

LEMMA AuditIInv ==
    ASSUME IInv, AuditDeps
    PROVE  IInv'
  <1>1. PassedMeansCovered'
    <2>1. \A e \in Entries : Loads(tree, e) => Covered(tree, e)
      BY AuditCovers DEF AuditDeps, IInv
    <2> QED
      BY <2>1 DEF AuditDeps, PassedMeansCovered
  <1> QED
    BY <1>1 DEF IInv, AuditDeps, RowsComeFromTrees, FromTree

LEMMA ExportIInv ==
    ASSUME IInv, Export
    PROVE  IInv'
  <1>1. ASSUME NEW e \in Entries, row'[e] # None
        PROVE  \E t \in Tree : FromTree(e, t)'
    <2>1. CASE Kept(tree, e)
      <3>1. row'[e] = row[e] /\ row[e] # None
        BY <2>1 DEF Export, Kept
      <3>2. PICK t \in Tree : FromTree(e, t)
        BY <3>1 DEF IInv, RowsComeFromTrees
      <3> QED
        BY <3>1, <3>2 DEF FromTree
    <2>2. CASE ~Kept(tree, e)
      <3>1. row'[e] = Measured(tree, e)
        BY <2>2 DEF Export
      <3>2. Hashable(tree, e) /\ Loads(tree, e)
        BY <2>2 DEF Export, Completes, Exportable, Measurable
      <3>3. audit = "passed" => Covered(tree, e)
        BY <3>2 DEF IInv, PassedMeansCovered
      <3>4. /\ row'[e].hash = InputHashOf(tree, e)
            /\ row'[e].seen = Seen(tree, e)
            /\ row'[e].audit = "passed" => Covered(tree, e)
        BY <3>1, <3>3 DEF Measured
      <3>5. tree \in Tree
        BY DEF IInv
      <3> QED
        BY <3>2, <3>4, <3>5 DEF FromTree
    <2> QED
      BY <2>1, <2>2
  <1>2. RowsComeFromTrees'
    BY <1>1 DEF RowsComeFromTrees
  <1> QED
    BY <1>2 DEF IInv, Export, PassedMeansCovered

LEMMA NextIInv == IInv /\ [Next]_vars => IInv'
  <1> SUFFICES ASSUME IInv, [Next]_vars
               PROVE  IInv'
    OBVIOUS
  <1>1. CASE \E p \in Paths : \E v \in Versions(p) : Edit(p, v)
    BY <1>1, EditIInv
  <1>2. CASE AuditDeps
    BY <1>2, AuditIInv
  <1>3. CASE SkipDepsAudit
    BY <1>3 DEF IInv, SkipDepsAudit, RowsComeFromTrees, FromTree, PassedMeansCovered
  <1>4. CASE Export
    BY <1>4, ExportIInv
  <1>5. CASE ExportFails
    BY <1>5 DEF IInv, ExportFails, RowsComeFromTrees, FromTree, PassedMeansCovered
  <1>6. CASE UNCHANGED vars
    BY <1>6 DEF IInv, vars, RowsComeFromTrees, FromTree, PassedMeansCovered
  <1> QED
    BY <1>1, <1>2, <1>3, <1>4, <1>5, <1>6 DEF Next

LEMMA AlwaysIInv == Spec => []IInv
  BY InitIInv, NextIInv, PTL DEF Spec

-----------------------------------------------------------------------------
(* A row that was measured right after the audit had passed is good for as  *)
(* long as its hash is.                                                     *)
THEOREM AuditedRowsStayTrueAlways == Spec => []AuditedRowsStayTrue
  <1>1. IInv => AuditedRowsStayTrue
    <2> SUFFICES ASSUME IInv, NEW e \in Entries, row[e] # None, row[e].audit = "passed",
                        Hashable(tree, e), Loads(tree, e), row[e].hash = InputHashOf(tree, e)
                 PROVE  row[e].seen = Seen(tree, e)
      BY DEF AuditedRowsStayTrue
    <2>1. PICK t \in Tree : FromTree(e, t)
      BY DEF IInv, RowsComeFromTrees
    <2>2. Seen(t, e) = Seen(tree, e)
      <3>1. /\ Hashable(t, e) /\ Loads(t, e) /\ Covered(t, e)
            /\ InputHashOf(t, e) = InputHashOf(tree, e)
        BY <2>1 DEF FromTree
      <3> QED
        BY <3>1, SameHashSameSeen DEF IInv
    <2> QED
      BY <2>1, <2>2 DEF FromTree
  <1> QED
    BY <1>1, AlwaysIInv, PTL

(* An export of a tree that has just passed the audit leaves no row that    *)
(* was measured of something else: a row carried from an export without the *)
(* audit is right as well, since the audit speaks of its dependencies too.  *)
THEOREM AuditedExportIsCurrentAlways == Spec => AuditedExportIsCurrent
  <1>1. IInv /\ [Next]_vars =>
          [(Export /\ audit = "passed") =>
              \A e \in Entries : Loads(tree, e) => row'[e].seen = Seen(tree, e)]_vars
    <2> SUFFICES ASSUME IInv, Export, audit = "passed", NEW e \in Entries, Loads(tree, e)
                 PROVE  row'[e].seen = Seen(tree, e)
      OBVIOUS
    <2>1. CASE Kept(tree, e)
      <3>1. row'[e] = row[e] /\ row[e] # None /\ row[e].hash = InputHashOf(tree, e)
        BY <2>1 DEF Export, Kept
      <3>2. PICK t \in Tree : FromTree(e, t)
        BY <3>1 DEF IInv, RowsComeFromTrees
      <3>3. Covered(tree, e) /\ Hashable(tree, e)
        BY DEF IInv, PassedMeansCovered, Export, Completes, Exportable
      <3>4. Seen(tree, e) = Seen(t, e)
        <4>1. Hashable(t, e) /\ Loads(t, e) /\ InputHashOf(tree, e) = InputHashOf(t, e)
          BY <3>1, <3>2 DEF FromTree
        <4> QED
          BY <4>1, <3>3, SameHashSameSeen DEF IInv
      <3> QED
        BY <3>1, <3>2, <3>4 DEF FromTree
    <2>2. CASE ~Kept(tree, e)
      BY <2>2 DEF Export, Measured
    <2> QED
      BY <2>1, <2>2
  <1> QED
    BY <1>1, AlwaysIInv, PTL DEF Spec, AuditedExportIsCurrent
=============================================================================
