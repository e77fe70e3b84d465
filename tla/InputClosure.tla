---------------------------- MODULE InputClosure ----------------------------
(***************************************************************************)
(* What goes into the hash of an entry, and how the dependency audit makes *)
(* sure that it is everything the entry reads (src/harness/input-hash.ts   *)
(* and src/harness/audit-deps.ts).  The hash is found statically, by       *)
(* following imports and by collecting the paths that the code names; the  *)
(* audit runs the code and sees what it opens.  `pnpm benchmark:json' runs *)
(* the audit and then the export; the tree is edited at any moment before, *)
(* between and after them.                                                 *)
(*                                                                         *)
(* A code file is what it says and what it does:                           *)
(*   imports   the files its relative specifiers resolve to                *)
(*   names     the paths of its string literals                            *)
(*   top       what is read when it is imported, and in whose function     *)
(*   load      what it reads when an entry that uses it is loaded          *)
(*   follows   those of them that hold the path of another file, read next *)
(* and a label, its metadata and comments, that nothing depends on.        *)
(***************************************************************************)
EXTENDS Naturals

CONSTANTS
  Entries,        \* the ids of REGISTRY
  EntryModules,   \* the modules under src/implementations that export them
  ModuleOf,       \* implementationModules: id -> its module
  RedTeam,        \* redTeamPath: id -> path
  Modules,        \* code files outside src/harness
  Harness,        \* code files under src/harness, the excluded ones left out
  Data,           \* all other paths
  Listings,       \* of these, the directories: their content is a listing
  Pinned, Pin,    \* of these, the fetched files (data/) and their pinned content
  Sources,        \* code files of all kinds: [label, code]
  Contents,       \* contents of the other paths; a path may be one of them
  Missing,        \* the content of a path where there is nothing
  Itself,         \* as a reader at import: the module that is imported
  None,           \* no row yet
  InitTrees,      \* the trees to start from
  Versions(_),    \* what an edit may put at a path
  MaxEdits        \* bound on the edits explored

Codes   == Modules \cup Harness
Paths   == Codes \cup Data
Tree    == {t \in [Paths -> Sources \cup Contents \cup {Missing}] :
              /\ \A m \in Codes : t[m] \in Sources \cup {Missing}
              /\ \A p \in Data : t[p] \in Contents \cup {Missing}}

Code == [imports: SUBSET Paths, names: SUBSET Data,
         top: SUBSET [path: Data, by: Codes \cup {Itself}],
         load: SUBSET Data, follows: SUBSET Data]

(* Who reads when a module is imported is that module or one it imports; a  *)
(* file must be read before its content can be followed.                    *)
ASSUME CodeAssumption ==
    \A s \in Sources :
        /\ s.code \in Code
        /\ \A r \in s.code.top : r.by \in s.code.imports \cup {Itself}
        /\ s.code.follows \subseteq s.code.load
ASSUME PathsAssumption ==
    /\ Modules \cap Harness = {} /\ Codes \cap Data = {}
    /\ EntryModules \subseteq Modules /\ ModuleOf \in [Entries -> EntryModules]
    /\ RedTeam \in [Entries -> Data \ Pinned]
    /\ Listings \subseteq Data
    /\ Pinned \subseteq Data /\ Pin \in [Pinned -> Contents]
    /\ Missing \notin Contents /\ Missing \notin Sources
    /\ Itself \notin Codes
ASSUME TreesAssumption ==
    /\ InitTrees \subseteq Tree
    /\ \A p \in Codes : Versions(p) \subseteq Sources \cup {Missing}
    /\ \A p \in Data : Versions(p) \subseteq Contents \cup {Missing}
    /\ MaxEdits \in Nat

VARIABLES
  tree,     \* the working tree
  audit,    \* of benchmark:json: none, skipped, passed (on this tree), stale
            \* (passed on a tree that was edited since)
  row,      \* the row of each entry: its hash, what was read when it was
            \* measured, and where the audit stood
  edits

vars == <<tree, audit, row, edits>>

-----------------------------------------------------------------------------
(* The closure of a module                                                  *)

ImportsOf(t, m) == IF t[m] = Missing THEN {} ELSE t[m].code.imports

(* The work lists of harnessClosure and dependenciesOf: the smallest set    *)
(* with the roots and, of the given modules, what its members import.       *)
Closure(t, roots, within) ==
    LET closed(S) == roots \subseteq S /\ \A m \in S : ImportsOf(t, m) \cap within \subseteq S
    IN  {m \in within : \A S \in SUBSET within : closed(S) => m \in S}

HarnessRoots(t) == {m \in Harness : t[m] # Missing}

(* Registering an entry is no change of the harness: what benchmark.ts      *)
(* imports from src/implementations is left out.                            *)
HarnessModules(t) == Closure(t, HarnessRoots(t), Codes \ EntryModules)

EntryCode(t, e) == Closure(t, {ModuleOf[e]}, Modules)

(* Variant: an imported file that is not code is left to the audit.         *)
FilesNotImported(t, ms) == UNION {t[m].code.names : m \in ms}

(* The files that modules name, and the imported files that are not code.   *)
FilesOf(t, ms) == UNION {t[m].code.names \cup (t[m].code.imports \cap Data) : m \in ms}

DependenciesOf(t, e) == FilesOf(t, EntryCode(t, e)) \cup {RedTeam[e]}

(* An import that leads nowhere, or a module that is not there, throws.     *)
Resolves(t, ms) == \A m \in ms : t[m] # Missing /\ \A p \in t[m].code.imports : t[p] # Missing

-----------------------------------------------------------------------------
(* The hash                                                                 *)

(* A pinned file enters through its pin, whether it is there or not.        *)
ContentHash(t, p) == IF p \in Pinned THEN Pin[p] ELSE t[p]

NormalizedCode(t, ms) == [m \in ms |-> t[m].code]

HarnessFingerprint(t) ==
    LET ms == HarnessModules(t)
    IN  [code |-> NormalizedCode(t, ms), files |-> [p \in FilesOf(t, ms) |-> t[p]]]

InputHashOf(t, e) ==
    [harness |-> HarnessFingerprint(t),
     code    |-> NormalizedCode(t, EntryCode(t, e)),
     files   |-> [p \in DependenciesOf(t, e) |-> ContentHash(t, p)]]

(* No hash throws: everything resolves, and the pinned files that are there *)
(* are what they should be.                                                 *)
Hashable(t, e) ==
    /\ Resolves(t, HarnessModules(t))
    /\ Resolves(t, EntryCode(t, e))
    /\ \A p \in DependenciesOf(t, e) \cap Pinned : t[p] \in {Missing, Pin[p]}

-----------------------------------------------------------------------------
(* What running an entry reads                                              *)

(* A path that is the content of a file and is opened in turn.              *)
Followed(t, ms) == {t[p] : p \in UNION {t[m].code.follows : m \in ms}} \cap Data

TopReads(t, ms)  == UNION {{r.path : r \in t[m].code.top} : m \in ms}
LoadReads(t, ms) == UNION {t[m].code.load : m \in ms} \cup Followed(t, ms)

Reads(t, e) ==
    LET ms == EntryCode(t, e)
    IN  TopReads(t, ms) \cup LoadReads(t, ms) \cup UNION {t[m].code.imports \cap Data : m \in ms}

Loads(t, e) == \A p \in Reads(t, e) : t[p] # Missing

(* All that a row is a function of: the harness, as its fingerprint has it, *)
(* the code, and what the code and the red team read.                       *)
Seen(t, e) ==
    [harness |-> HarnessFingerprint(t),
     code    |-> NormalizedCode(t, EntryCode(t, e)),
     files   |-> [p \in Reads(t, e) \cup {RedTeam[e]} |-> t[p]]]

-----------------------------------------------------------------------------
(* The audit                                                                *)

IdsOfModule(t, m) == {e \in Entries : m \in EntryCode(t, e)}

(* The innermost frame that belongs to an entry, else the module itself.    *)
Attributed(t, m, r) == IF IdsOfModule(t, r.by) # {} THEN r.by ELSE m

(* Variant: one entry that hashes the file is enough.                       *)
CheckFirst(t, ids, p) == p \notin Listings /\ \E e \in ids : p \in DependenciesOf(t, e)

Check(t, ids, p) == p \notin Listings /\ \A e \in ids : p \in DependenciesOf(t, e)

ModuleLoadChecked(t) ==
    \A m \in UNION {EntryCode(t, e) : e \in Entries} : \A r \in t[m].code.top :
        Check(t, IdsOfModule(t, Attributed(t, m, r)), r.path)

LoadChecked(t, e) == \A p \in LoadReads(t, EntryCode(t, e)) : Check(t, {e}, p)

(* Importing the registry loads the harness and runs all modules.           *)
Imported(t) ==
    /\ Resolves(t, HarnessModules(t))
    /\ \A e \in Entries :
          /\ Resolves(t, EntryCode(t, e))
          /\ \A p \in TopReads(t, EntryCode(t, e)) : t[p] # Missing

Exportable(t) == Imported(t) /\ \A e \in Entries : Hashable(t, e)

-----------------------------------------------------------------------------
Init ==
    /\ tree \in InitTrees
    /\ audit = "none"
    /\ row = [e \in Entries |-> None]
    /\ edits = 0

Edit(p, v) ==
    /\ edits < MaxEdits
    /\ v # tree[p]
    /\ tree' = [tree EXCEPT ![p] = v]
    /\ audit' = IF audit = "passed" THEN "stale" ELSE audit
    /\ edits' = edits + 1
    /\ UNCHANGED row

(* A load that throws is checked as far as it got: `far' says whether it    *)
(* got to everything it may read.                                           *)
AuditDeps ==
    /\ audit = "none"
    /\ Imported(tree)
    /\ ModuleLoadChecked(tree)
    /\ \E far \in SUBSET {e \in Entries : ~Loads(tree, e)} :
          \A e \in Entries : Loads(tree, e) \/ e \in far => LoadChecked(tree, e)
    /\ audit' = "passed"
    /\ UNCHANGED <<tree, row, edits>>

(* SKIP_DEPS_AUDIT=1                                                        *)
SkipDepsAudit ==
    /\ audit = "none"
    /\ audit' = "skipped"
    /\ UNCHANGED <<tree, row, edits>>

(* An entry is not run while a fetched file among its dependencies is gone. *)
Measurable(t, e) ==
    Loads(t, e) /\ \A p \in DependenciesOf(t, e) \cap Pinned : t[p] # Missing

Kept(t, e) == row[e] # None /\ row[e].hash = InputHashOf(t, e)

Measured(t, e) == [hash |-> InputHashOf(t, e), seen |-> Seen(t, e), audit |-> audit]

(* Nothing throws: rows whose hash is still the same are carried, the       *)
(* others can be measured.                                                  *)
Completes(t) == Exportable(t) /\ \A e \in Entries : Kept(t, e) \/ Measurable(t, e)

Export ==
    /\ audit # "none"
    /\ Completes(tree)
    /\ row' = [e \in Entries |-> IF Kept(tree, e) THEN row[e] ELSE Measured(tree, e)]
    /\ audit' = "none"
    /\ UNCHANGED <<tree, edits>>

ExportFails ==
    /\ audit # "none"
    /\ ~Completes(tree)
    /\ audit' = "none"
    /\ UNCHANGED <<tree, row, edits>>

Next ==
    \/ \E p \in Paths : \E v \in Versions(p) : Edit(p, v)
    \/ AuditDeps
    \/ SkipDepsAudit
    \/ Export
    \/ ExportFails

Spec == Init /\ [][Next]_vars

-----------------------------------------------------------------------------
(* Properties                                                               *)

(* A row that was measured right after the audit had passed is good for as  *)
(* long as its hash is: whatever has been edited since, and whatever later  *)
(* exports skipped the audit, running the entry now would read exactly what *)
(* it read then (dependenciesOf against the reads of an implementation).    *)
AuditedRowsStayTrue ==
    \A e \in Entries :
        (/\ row[e] # None
         /\ row[e].audit = "passed"
         /\ Hashable(tree, e)
         /\ Loads(tree, e)
         /\ row[e].hash = InputHashOf(tree, e))
        => row[e].seen = Seen(tree, e)

(* An export of a tree that the audit has just passed leaves no row that    *)
(* was measured of something else, not even one carried from an export      *)
(* without the audit (check, for all ids that have the module).             *)
AuditedExportIsCurrent ==
    [][(Export /\ audit = "passed") =>
         \A e \in Entries : Loads(tree, e) => row'[e].seen = Seen(tree, e)]_vars
=============================================================================
