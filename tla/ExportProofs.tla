---------------------------- MODULE ExportProofs ----------------------------
(***************************************************************************)
(* Proofs about the incremental export: its types, that a row's hash is    *)
(* the hash of what was measured, that the history only grows.             *)
(***************************************************************************)
EXTENDS IncrementalExport, TLAPS

Entries == [Ids -> Result \cup {NoEntry}]

-----------------------------------------------------------------------------
(* The ranking                                                              *)

(* A smallest element of a set belongs to the set.                          *)
LEMMA SmallestSubset == ASSUME NEW e, NEW S PROVE Smallest(e, S) \subseteq S
  BY DEF Smallest

(* Anchors of the frontier come from rows.                                  *)
LEMMA FrontierType ==
  ASSUME NEW e \in Entries, NEW U
  PROVE  Frontier(e, U) \in [leader: SUBSET Anchor, current: SUBSET Anchor]
<1>1. Leader(e, U) \subseteq Present(e)
  BY SmallestSubset DEF Leader, Active
<1>2. BestBchNative(e, U) \subseteq Present(e)
  BY SmallestSubset DEF BestBchNative, Active
<1>3. \A i \in Present(e) : [id |-> i, score |-> e[i].score] \in Anchor
  BY NoEntryAssumption DEF Present, Entries, Result, Anchor
<1>4. QED
  BY <1>1, <1>2, <1>3 DEF Frontier

(* The best row of a track is a row.                                        *)
LEMMA BestType ==
  ASSUME NEW e \in Entries, NEW U, NEW t, NEW b \in Best(e, U, t)
  PROVE  b \in Ids /\ e[b] \in Result
<1>1. b \in Present(e)
  BY SmallestSubset DEF Best, Active
<1>2. QED
  BY <1>1 DEF Present, Entries

(* A turn of the loop of recordHistory leaves the series alone or appends   *)
(* one point.                                                               *)
LEMMA PushAppends ==
  ASSUME NEW e \in Entries, NEW U, NEW t \in Track, NEW b \in Best(e, U, t),
         NEW s \in Seq(Point)
  PROVE  \/ Push(s, e, U, t, b) = s
         \/ \E p \in Point : Push(s, e, U, t, b) = Append(s, p)
<1>1. PointOf(e, t, b) \in Point
  BY BestType DEF PointOf, Point, Result
<1>2. QED
  BY <1>1 DEF Push

-----------------------------------------------------------------------------
(* Type correctness                                                         *)

(* A row that is carried or marked stale is there to be carried.            *)
PlanOK ==
    pc \in {"run", "record", "write"} =>
        \A i \in Ids : plan[i] \in {"carry", "stale"} => PreviousRows[i] # NoEntry

Typed == TypeOK /\ PlanOK

LEMMA NoRowsType == NoRows \in Rows
  BY DEF NoRows, Rows

LEMMA PreviousRowsType == ASSUME TypeOK PROVE PreviousRows \in Rows
  BY NoRowsType, FileValuesAssumption
  DEF TypeOK, PreviousRows, Readable, Artifact

LEMMA LoadHistoryType == ASSUME TypeOK PROVE LoadHistory \in Seq(Point)
  BY FileValuesAssumption DEF TypeOK, LoadHistory, Readable

LEMMA HashNowType == ASSUME TypeOK, NEW i \in Ids PROVE HashNow(i) \in Inputs
  BY ContentsAssumption DEF TypeOK, HashNow, Inputs, Input

LEMMA InputsNowType == ASSUME TypeOK, NEW i \in Ids PROVE InputsNow(i) \in Inputs
  BY DEF TypeOK, InputsNow, Inputs, Input

LEMMA PlanOfType == ASSUME NEW i \in Ids PROVE PlanOf(i) \in Action
  BY DEF PlanOf, Action, LeftAlone

(* Only a previous row is carried, if planning did not throw.               *)
LEMMA PlanOfCarries ==
  ASSUME NEW i \in Ids, PlanOf(i) \in {"carry", "stale"}, ~PlanThrows(i)
  PROVE  PreviousRows[i] # NoEntry
  BY DEF PlanOf, PlanThrows, LeftAlone, Outdated

LEMMA MergedType == ASSUME Typed, pc \in {"run", "record", "write"} PROVE Merged \in Rows
<1>1. ASSUME NEW i \in Ids PROVE Merged[i] \in Row \cup {NoEntry}
  <2>1. CASE plan[i] = "run"
    BY <2>1 DEF Merged, Typed, TypeOK, Rows
  <2>2. CASE plan[i] \in {"carry", "stale"}
    <3>1. PreviousRows[i] \in Row
      BY <2>2, PreviousRowsType DEF Typed, PlanOK, Rows
    <3>2. Ranked(i) \in BOOLEAN
      BY DEF Ranked
    <3>3. QED
      BY <2>2, <3>1, <3>2 DEF Merged, Row
  <2>3. CASE plan[i] \in {"absent", "none"}
    BY <2>3 DEF Merged
  <2>4. QED
    BY <2>1, <2>2, <2>3 DEF Typed, TypeOK, Action
<1>2. QED
  BY <1>1 DEF Merged, Rows

LEMMA ResultsType == ASSUME NEW rows \in Rows PROVE ResultsOf(rows) \in Entries
<1>1. ASSUME NEW i \in Ids, rows[i] # NoEntry PROVE Outcome(i, rows[i].measured) \in Result
  <2>1. rows[i].measured \in Inputs
    BY <1>1 DEF Rows, Row
  <2>2. QED
    BY <2>1, OutcomeAssumption
<1>2. QED
  BY <1>1 DEF ResultsOf, Entries

LEMMA PreviousFrontierType ==
  ASSUME TypeOK
  PROVE  PreviousFrontier \in [leader: SUBSET Anchor, current: SUBSET Anchor] \cup {NoFrontier}
  BY FileValuesAssumption DEF TypeOK, PreviousFrontier, Readable, Artifact

LEMMA NewArtifactType ==
  ASSUME Typed, pc \in {"run", "record", "write"}, NEW at \in {0, 1}
  PROVE  NewArtifact(at) \in Artifact
<1>1. Merged \in Rows
  BY MergedType
<1>2. Frontier(ResultsOf(Merged), loaded.unranked)
        \in [leader: SUBSET Anchor, current: SUBSET Anchor]
  BY <1>1, ResultsType, FrontierType
<1>3. series \in Seq(Point)
  BY DEF Typed, TypeOK
<1>4. QED
  BY <1>1, <1>2, <1>3, PreviousFrontierType DEF NewArtifact, Artifact, Typed

(* The memory of a process that is gone has its type.                       *)
LEMMA ExitType ==
  ASSUME TypeOK, NEW status \in {"success", "failed", "degraded", "killed"}, Exit(status),
         file' = file, registry' = registry, unranked' = unranked,
         outfile' \in Artifact \cup {NoFile, Torn},
         hist' \in Seq(Point) \cup {NoFile, Torn},
         edits' = edits, kills' \in 0..MaxKills
  PROVE  Typed'
<1>1. NothingLoaded \in [code: Inputs, registry: SUBSET Ids, unranked: SUBSET Ids]
  BY DEF NothingLoaded, Inputs, Input
<1>2. [i \in Ids |-> [f \in Files |-> Missing]] \in [Ids -> Inputs]
  BY DEF Inputs, Input
<1>3. <<>> \in Seq(Point)
  OBVIOUS
<1>4. TypeOK'
  BY <1>1, <1>2, <1>3, NoRowsType, ModesAssumption DEF TypeOK, Exit, Action
<1>5. PlanOK'
  BY DEF Exit, PlanOK
<1>6. QED
  BY <1>4, <1>5 DEF Typed

LEMMA InitTyped == Init => Typed
<1> SUFFICES ASSUME Init PROVE Typed
  OBVIOUS
<1>1. NothingLoaded \in [code: Inputs, registry: SUBSET Ids, unranked: SUBSET Ids]
  BY DEF NothingLoaded, Inputs, Input
<1>2. [i \in Ids |-> [f \in Files |-> Missing]] \in [Ids -> Inputs]
  BY DEF Inputs, Input
<1>3. <<>> \in Seq(Point)
  OBVIOUS
<1>4. outfile \in Artifact \cup {NoFile, Torn} /\ hist \in Seq(Point) \cup {NoFile, Torn}
  BY FileValuesAssumption DEF Init
<1>5. edits \in 0..MaxEdits /\ kills \in 0..MaxKills
  BY SwitchAssumption DEF Init
<1>6. before \in [outfile: Artifact \cup {NoFile, Torn}, hist: Seq(Point) \cup {NoFile, Torn}]
  BY <1>4 DEF Init
<1>7. /\ loaded \in [code: Inputs, registry: SUBSET Ids, unranked: SUBSET Ids]
      /\ hashed \in [Ids -> Inputs] /\ plan \in [Ids -> Action]
  BY <1>1, <1>2 DEF Init, Action
<1>8. TypeOK
  BY <1>3, <1>4, <1>5, <1>6, <1>7, NoRowsType, ModesAssumption DEF Init, TypeOK
<1>9. QED
  BY <1>8 DEF Init, PlanOK, Typed

LEMMA NextTyped == Typed /\ [Next]_vars => Typed'
<1> SUFFICES ASSUME Typed, [Next]_vars PROVE Typed'
  OBVIOUS
<1> TypeOK /\ PlanOK
  BY DEF Typed
<1>1. CASE UNCHANGED vars
  BY <1>1 DEF vars, tree, process, ghosts, TypeOK, PlanOK, Typed, PreviousRows
<1>2. ASSUME NEW m \in Modes, Start(m) PROVE Typed'
  <2>1. m \in Mode
    BY ModesAssumption
  <2>2. TypeOK'
    BY <1>2, <2>1 DEF Start, tree, TypeOK
  <2>3. PlanOK'
    BY <1>2 DEF Start, PlanOK
  <2>4. QED
    BY <2>2, <2>3 DEF Typed
<1>3. CASE Import
  <2>1. loaded' \in [code: Inputs, registry: SUBSET Ids, unranked: SUBSET Ids]
    BY <1>3 DEF Import, TypeOK, Inputs, Input
  <2>2. TypeOK'
    BY <1>3, <2>1 DEF Import, tree, ghosts, TypeOK
  <2>3. PlanOK'
    BY <1>3 DEF Import, PlanOK
  <2>4. QED
    BY <2>2, <2>3 DEF Typed
<1>4. CASE PlanExport
  <2>1. plan' \in [Ids -> Action]
    BY <1>4, PlanOfType DEF PlanExport
  <2>2. hashed' \in [Ids -> Inputs]
    BY <1>4, HashNowType DEF PlanExport, TypeOK
  <2>3. tracked' \subseteq Files \cup {RegistryFile}
    <3>1. Feed \subseteq Ids
      BY DEF Feed, TypeOK
    <3>2. \A i \in Feed : Deps[i] \subseteq Files
      BY <3>1, DepsAssumption
    <3>3. QED
      BY <1>4, <3>2 DEF PlanExport
  <2>4. TypeOK'
    BY <1>4, <2>1, <2>2, <2>3 DEF PlanExport, tree, ghosts, TypeOK
  <2>5. ASSUME NEW i \in Ids, plan'[i] \in {"carry", "stale"} PROVE PreviousRows'[i] # NoEntry
    <3>1. PlanOf(i) \in {"carry", "stale"}
      BY <1>4, <2>5 DEF PlanExport
    <3>2. i \in Feed
      BY <3>1 DEF PlanOf
    <3>3. ~PlanThrows(i)
      BY <1>4, <3>2 DEF PlanExport, PlanRefused
    <3>4. QED
      BY <1>4, <3>1, <3>3, PlanOfCarries DEF PlanExport, PreviousRows
  <2>6. QED
    BY <2>4, <2>5 DEF PlanOK, Typed
<1>5. ASSUME NEW i \in Ids, Run(i) PROVE Typed'
  <2>1. fresh' \in Rows
    <3>1. [hash |-> hashed[i], measured |-> InputsNow(i), stale |-> FALSE,
           ranked |-> Ranked(i)] \in Row
      BY InputsNowType DEF Row, TypeOK, Ranked
    <3>2. QED
      BY <1>5, <3>1 DEF Run, TypeOK, Rows
  <2>2. TypeOK'
    BY <1>5, <2>1 DEF Run, tree, ghosts, TypeOK
  <2>3. PlanOK'
    BY <1>5 DEF Run, PlanOK, PreviousRows
  <2>4. QED
    BY <2>2, <2>3 DEF Typed
<1>6. ASSUME NEW i \in Ids, RunFails(i) PROVE Typed'
  <2>1. TypeOK'
    BY <1>6 DEF RunFails, tree, ghosts, TypeOK
  <2>2. PlanOK'
    BY <1>6 DEF RunFails, PlanOK, PreviousRows
  <2>3. QED
    BY <2>1, <2>2 DEF Typed
<1>7. CASE ImportFails \/ PlanFails \/ Refuse
  <2>1. Exit("failed") /\ UNCHANGED <<tree, outfile, hist, edits, kills>>
    BY <1>7 DEF ImportFails, PlanFails, Refuse
  <2>2. QED
    BY <2>1, ExitType DEF tree, TypeOK
<1>8. CASE Merge
  <2>1. tracks' \subseteq Track
    BY <1>8 DEF Merge, TracksOf
  <2>2. series' \in Seq(Point)
    BY <1>8, LoadHistoryType DEF Merge
  <2>3. TypeOK'
    BY <1>8, <2>1, <2>2 DEF Merge, tree, ghosts, TypeOK
  <2>4. PlanOK'
    BY <1>8 DEF Merge, PlanOK, PreviousRows
  <2>5. QED
    BY <2>3, <2>4 DEF Typed
<1>9. ASSUME NEW t \in Track, Record(t) PROVE Typed'
  <2> DEFINE e == ResultsOf(Merged)
  <2>1. e \in Entries
    BY <1>9, MergedType, ResultsType DEF Record
  <2>2. series' \in Seq(Point) /\ changed' \in BOOLEAN
    <3>1. CASE UNCHANGED <<series, changed>>
      BY <3>1 DEF TypeOK
    <3>2. ASSUME NEW b \in Best(e, loaded.unranked, t),
                 series' = Push(series, e, loaded.unranked, t, b),
                 changed' = (changed \/ ~Known(series, e, loaded.unranked, t, b))
          PROVE  series' \in Seq(Point) /\ changed' \in BOOLEAN
      <4>1. series' = series \/ \E p \in Point : series' = Append(series, p)
        BY <2>1, <3>2, PushAppends DEF TypeOK
      <4>2. QED
        BY <3>2, <4>1, SMTT(30) DEF TypeOK
    <3>3. QED
      BY <1>9, <3>1, <3>2 DEF Record
  <2>3. TypeOK'
    BY <1>9, <2>2 DEF Record, tree, ghosts, TypeOK
  <2>4. PlanOK'
    BY <1>9 DEF Record, PlanOK, PreviousRows
  <2>5. QED
    BY <2>3, <2>4 DEF Typed
<1>10. CASE WriteHistory
  <2>1. TypeOK'
    BY <1>10 DEF WriteHistory, tree, ghosts, TypeOK
  <2>2. PlanOK'
    BY <1>10 DEF WriteHistory, PlanOK, PreviousRows
  <2>3. QED
    BY <2>1, <2>2 DEF Typed
<1>11. CASE WriteArtifact
  <2>1. NewStamp \in {0, 1}
    BY DEF NewStamp, Readable, TypeOK, Artifact
  <2>2. outfile' \in Artifact \cup {NoFile, Torn}
    BY <1>11, <2>1, NewArtifactType DEF WriteArtifact, TypeOK
  <2>3. PICK status \in {"success", "degraded"} : Exit(status)
    BY <1>11 DEF WriteArtifact
  <2>4. QED
    BY <1>11, <2>2, <2>3, ExitType DEF WriteArtifact, tree, TypeOK
<1>12. CASE Kill \/ TearHistory \/ TearArtifact
  <2>1. Exit("killed") /\ kills' \in 0..MaxKills
    BY <1>12, SwitchAssumption DEF Kill, TearHistory, TearArtifact, TypeOK
  <2>2. /\ outfile' \in Artifact \cup {NoFile, Torn}
        /\ hist' \in Seq(Point) \cup {NoFile, Torn}
    BY <1>12 DEF Kill, TearHistory, TearArtifact, TypeOK
  <2>3. UNCHANGED <<tree, edits>>
    BY <1>12 DEF Kill, TearHistory, TearArtifact
  <2>4. QED
    BY <2>1, <2>2, <2>3, ExitType DEF tree
<1>13. CASE Environment
  <2>1. UNCHANGED <<outfile, hist, process, exit, settled, before, kills>>
    BY <1>13 DEF Environment, EditFile, RemoveFile, AddFile, Fetch, EditRegistry,
                 EditReviewStatus, Edited
  <2>2. clean' = FALSE /\ edits' \in 0..MaxEdits
    BY <1>13, SwitchAssumption
    DEF Environment, EditFile, RemoveFile, AddFile, Fetch, EditRegistry,
        EditReviewStatus, Edited, TypeOK
  <2>3. file' \in [Files -> Input]
    BY <1>13, ContentsAssumption
    DEF Environment, EditFile, RemoveFile, AddFile, Fetch, EditRegistry,
        EditReviewStatus, TypeOK, Input
  <2>4. touched' \subseteq Files \cup {RegistryFile}
    BY <1>13, FilesAssumption
    DEF Environment, EditFile, RemoveFile, AddFile, Fetch, EditRegistry,
        EditReviewStatus, TouchedWith, TypeOK
  <2>5. registry' \subseteq Ids /\ unranked' \subseteq Ids
    BY <1>13 DEF Environment, EditFile, RemoveFile, AddFile, Fetch, EditRegistry,
                 EditReviewStatus, TypeOK
  <2>6. /\ UNCHANGED <<pc, mode, loaded, plan, hashed, tracked>>
        /\ UNCHANGED <<fresh, failed, series, changed, tracks>>
        /\ UNCHANGED <<outfile, hist, exit, settled, before, kills>>
    BY <2>1 DEF process
  <2>7. TypeOK'
    <3>1. clean' \in BOOLEAN /\ before' \in [outfile: Artifact \cup {NoFile, Torn},
                                            hist: Seq(Point) \cup {NoFile, Torn}]
      BY <2>2, <2>6 DEF TypeOK
    <3>2. changed' \in BOOLEAN /\ settled' \in BOOLEAN
      BY <2>6 DEF TypeOK
    <3>3. outfile' \in Artifact \cup {NoFile, Torn} /\ hist' \in Seq(Point) \cup {NoFile, Torn}
      BY <2>6 DEF TypeOK
    <3>4. loaded' \in [code: Inputs, registry: SUBSET Ids, unranked: SUBSET Ids]
      BY <2>6 DEF TypeOK
    <3>5. exit' \in {"none", "success", "failed", "degraded", "killed"}
      BY <2>6 DEF TypeOK
    <3>6. QED
      BY <2>2, <2>3, <2>4, <2>5, <2>6, <3>1, <3>2, <3>3, <3>4, <3>5 DEF TypeOK
  <2>8. PlanOK'
    BY <2>6 DEF PlanOK, PreviousRows
  <2>9. QED
    BY <2>7, <2>8 DEF Typed
<1>14. QED
  BY <1>1, <1>2, <1>3, <1>4, <1>5, <1>6, <1>7, <1>8, <1>9, <1>10, <1>11, <1>12, <1>13
  DEF Next, Export

(* Every variable of the export keeps its type; what is read and written is *)
(* always a whole artifact or history, nothing, or a torn file.             *)
THEOREM TypeCorrect == Spec => []TypeOK
<1>1. Typed => TypeOK
  BY DEF Typed
<1>2. QED
  BY InitTyped, NextTyped, <1>1, PTL DEF Spec

-----------------------------------------------------------------------------
(* The history only grows                                                   *)

(* While points are pushed, the series in memory extends the file.          *)
SeriesExtends == pc = "record" => IsExtensionOf(series, LoadHistory)

LEMMA ExtendsItself == ASSUME NEW s \in Seq(Point) PROVE IsExtensionOf(s, s)
  BY DEF IsExtensionOf

LEMMA AppendExtends ==
  ASSUME NEW old \in Seq(Point), NEW s \in Seq(Point), NEW p \in Point, IsExtensionOf(s, old)
  PROVE  IsExtensionOf(Append(s, p), old)
<1>1. Len(old) <= Len(s) /\ Len(Append(s, p)) = Len(s) + 1
  BY DEF IsExtensionOf
<1>2. SubSeq(Append(s, p), 1, Len(old)) = SubSeq(s, 1, Len(old))
  BY <1>1
<1>3. QED
  BY <1>1, <1>2 DEF IsExtensionOf

LEMMA SeriesExtendsStep == Typed /\ SeriesExtends /\ [Next]_vars => SeriesExtends'
<1> SUFFICES ASSUME Typed, SeriesExtends, [Next]_vars, pc' = "record"
             PROVE  IsExtensionOf(series', LoadHistory')
  BY DEF SeriesExtends
<1>1. CASE Merge
  <2>1. series' = LoadHistory /\ LoadHistory' = LoadHistory
    BY <1>1 DEF Merge, LoadHistory
  <2>2. QED
    BY <2>1, LoadHistoryType, ExtendsItself DEF Typed
<1>2. ASSUME NEW t \in Track, Record(t) PROVE IsExtensionOf(series', LoadHistory')
  <2> DEFINE e == ResultsOf(Merged)
  <2>1. pc = "record" /\ IsExtensionOf(series, LoadHistory) /\ LoadHistory' = LoadHistory
    BY <1>2 DEF Record, SeriesExtends, LoadHistory
  <2>2. CASE UNCHANGED series
    BY <2>1, <2>2
  <2>3. ASSUME NEW b \in Best(e, loaded.unranked, t),
               series' = Push(series, e, loaded.unranked, t, b)
        PROVE  IsExtensionOf(series', LoadHistory')
    <3>1. e \in Entries /\ series \in Seq(Point)
      BY <2>1, MergedType, ResultsType DEF Typed, TypeOK
    <3>2. series' = series \/ \E p \in Point : series' = Append(series, p)
      BY <2>3, <3>1, PushAppends
    <3>3. QED
      BY <2>1, <3>1, <3>2, LoadHistoryType, AppendExtends DEF Typed
  <2>4. QED
    BY <1>2, <2>2, <2>3 DEF Record
<1>3. CASE UNCHANGED <<pc, series, hist>>
  BY <1>3 DEF SeriesExtends, LoadHistory
<1>4. CASE Environment \/ UNCHANGED vars
  BY <1>3, <1>4 DEF Environment, EditFile, RemoveFile, AddFile, Fetch, EditRegistry,
                    EditReviewStatus, Edited, process, vars
<1>5. QED
  BY <1>1, <1>2, <1>4 DEF Next, Export, Start, Import, ImportFails, PlanExport, PlanFails,
     Run, RunFails, Refuse, WriteHistory, WriteArtifact, Kill, TearHistory, TearArtifact, Exit

(* No step drops, changes or reorders a point of a readable history file:   *)
(* recordHistory only appends, and only to what it read.                    *)
THEOREM HistoryGrows == Spec => HistoryOnlyGrows
<1>1. Init => SeriesExtends
  BY DEF Init, SeriesExtends
<1>2. Typed /\ SeriesExtends /\ [Next]_vars =>
        [Readable(hist) /\ hist' # hist => hist' = Torn \/ IsExtensionOf(hist', hist)]_vars
  <2> SUFFICES ASSUME Typed, SeriesExtends, [Next]_vars, Readable(hist), hist' # hist
               PROVE  hist' = Torn \/ IsExtensionOf(hist', hist)
    OBVIOUS
  <2>1. CASE WriteHistory
    BY <2>1 DEF WriteHistory, SeriesExtends, LoadHistory
  <2>2. CASE TearHistory
    BY <2>2 DEF TearHistory
  <2>3. ASSUME NEW t \in Track, Record(t) PROVE FALSE
    BY <2>3 DEF Record
  <2>4. CASE Environment
    BY <2>4 DEF Environment, EditFile, RemoveFile, AddFile, Fetch, EditRegistry,
                EditReviewStatus, Edited
  <2>5. QED
    BY <2>1, <2>2, <2>3, <2>4 DEF Next, Export, Start, Import, ImportFails, PlanExport,
       PlanFails, Run, RunFails, Refuse, Merge, WriteArtifact, Kill, TearArtifact, vars
<1>3. QED
  BY InitTyped, NextTyped, SeriesExtendsStep, <1>1, <1>2, PTL DEF Spec, HistoryOnlyGrows

-----------------------------------------------------------------------------
(* Rows measure their hash                                                  *)

(* The difference of an input to its hash is bound to be noticed.           *)
Noticed(f) == f \in tracked /\ f \in touched /\ file[f] # Missing

(* The modules imported are those of the tree, or newer than the process.   *)
ImportsNoticed ==
    pc \in {"plan", "run"} =>
        \A f \in CodeFiles : loaded.code[f] = file[f] \/ f \in touched

(* So are the inputs hashed of an entry to run; what is there was tracked.  *)
HashesNoticed ==
    pc = "run" =>
        \A i \in Runs : \A f \in Files :
            /\ IF f \in Deps[i] THEN hashed[i][f] = file[f] \/ Noticed(f)
               ELSE hashed[i][f] = Missing
            /\ f \in Deps[i] /\ file[f] # Missing => f \in tracked
            /\ f \in Deps[i] /\ f \in CodeFiles => file[f] # Missing

(* A row just measured has the hash computed for it, of the inputs it was   *)
(* measured on unless the difference is noticed.                            *)
FreshNoticed ==
    /\ pc \in {"idle", "import", "plan"} => fresh = NoRows
    /\ pc = "run" =>
          \A i \in Ids : fresh[i] # NoEntry =>
              /\ fresh[i].hash = hashed[i]
              /\ \A f \in Files : fresh[i].measured[f] = hashed[i][f] \/ Noticed(f)
    /\ pc \in {"record", "write"} =>
          \A i \in Ids : fresh[i] # NoEntry => fresh[i].hash = fresh[i].measured

HashInv == ImportsNoticed /\ HashesNoticed /\ FreshNoticed /\ RowsMeasureTheirHash

(* What an edit may do to an input while an export runs.                    *)
LEMMA EnvironmentStep ==
  ASSUME InFlightRemoval = FALSE, Typed, Environment, pc # "idle", NEW f \in Files
  PROVE  /\ UNCHANGED <<pc, loaded, plan, hashed, tracked, fresh, outfile>>
         /\ \/ file'[f] = file[f]
            \/ file[f] # Missing /\ file'[f] # Missing /\ f \in touched'
         /\ f \in touched => f \in touched'
<1>1. UNCHANGED <<pc, loaded, plan, hashed, tracked, fresh, outfile>>
  BY DEF Environment, EditFile, RemoveFile, AddFile, Fetch, EditRegistry,
         EditReviewStatus, Edited, process
<1>2. ASSUME NEW g \in Files, EditFile(g)
      PROVE  /\ \/ file'[f] = file[f]
                \/ file[f] # Missing /\ file'[f] # Missing /\ f \in touched'
             /\ f \in touched => f \in touched'
  BY <1>2, ContentsAssumption DEF EditFile, TouchedWith, Typed, TypeOK
<1>3. ASSUME NEW g \in Files, RemoveFile(g) \/ AddFile(g) \/ Fetch(g) PROVE FALSE
  BY <1>3 DEF RemoveFile, AddFile, Fetch, Removable
<1>4. ASSUME NEW i \in Ids, EditRegistry(i) \/ EditReviewStatus(i)
      PROVE  file' = file /\ (f \in touched => f \in touched')
  BY <1>4 DEF EditRegistry, EditReviewStatus, TouchedWith
<1>5. QED
  BY <1>1, <1>2, <1>3, <1>4 DEF Environment

LEMMA ImportsStep ==
  InFlightRemoval = FALSE /\ Typed /\ ImportsNoticed /\ [Next]_vars => ImportsNoticed'
<1> SUFFICES ASSUME InFlightRemoval = FALSE, Typed, ImportsNoticed, [Next]_vars,
                    pc' \in {"plan", "run"}, NEW f \in CodeFiles
             PROVE  loaded'.code[f] = file'[f] \/ f \in touched'
  BY DEF ImportsNoticed
<1> f \in Files
  BY FilesAssumption
<1>1. CASE Import
  BY <1>1 DEF Import, tree
<1>2. CASE Environment
  <2>1. pc' = pc
    BY <1>2 DEF Environment, EditFile, RemoveFile, AddFile, Fetch, EditRegistry,
                EditReviewStatus, Edited, process
  <2>2. UNCHANGED loaded /\ (loaded.code[f] = file[f] \/ f \in touched)
    BY <1>2, <2>1, EnvironmentStep DEF ImportsNoticed
  <2>3. QED
    BY <1>2, <2>1, <2>2, EnvironmentStep
<1>3. CASE UNCHANGED <<loaded, file, touched>> /\ pc \in {"plan", "run"}
  BY <1>3 DEF ImportsNoticed
<1>4. CASE PlanExport
  BY <1>3, <1>4 DEF PlanExport, tree
<1>5. ASSUME NEW i \in Ids, Run(i) \/ RunFails(i) PROVE loaded'.code[f] = file'[f] \/ f \in touched'
  BY <1>3, <1>5 DEF Run, RunFails, tree
<1>6. CASE UNCHANGED vars
  BY <1>3, <1>6 DEF vars, process, tree
<1>7. QED
  BY <1>1, <1>2, <1>4, <1>5, <1>6 DEF Next, Export, Start, ImportFails, PlanFails, Refuse, Merge,
     Record, WriteHistory, WriteArtifact, Kill, TearHistory, TearArtifact, Exit

LEMMA HashesStep ==
  InFlightRemoval = FALSE /\ Typed /\ HashesNoticed /\ [Next]_vars => HashesNoticed'
<1> SUFFICES ASSUME InFlightRemoval = FALSE, Typed, HashesNoticed, [Next]_vars, pc' = "run",
                    NEW i \in Runs', NEW f \in Files
             PROVE  /\ IF f \in Deps[i] THEN hashed'[i][f] = file'[f] \/ Noticed(f)'
                       ELSE hashed'[i][f] = Missing
                    /\ f \in Deps[i] /\ file'[f] # Missing => f \in tracked'
                    /\ f \in Deps[i] /\ f \in CodeFiles => file'[f] # Missing
  BY DEF HashesNoticed
<1> i \in Ids
  BY DEF Runs, Planned
<1>1. CASE PlanExport
  <2>1. PlanOf(i) = "run"
    BY <1>1 DEF PlanExport, Runs, Planned
  <2>2. i \in Feed
    BY <2>1 DEF PlanOf
  <2>3. ~Unhashable(i)
    BY <1>1, <2>2 DEF PlanExport, PlanRefused, PlanThrows
  <2>4. MissingData(i) = {}
    BY <2>1, <2>2 DEF PlanOf
  <2>5. /\ hashed'[i] = HashNow(i) /\ file' = file
        /\ f \in Deps[i] /\ file[f] # Missing => f \in tracked'
    BY <1>1, <2>2 DEF PlanExport, tree, Typed, TypeOK
  <2>6. f \in Deps[i] /\ f \in PinnedFiles => file[f] = Pin[f]
    BY <2>3, <2>4, FilesAssumption DEF Unhashable, MissingData
  <2>7. f \in Deps[i] /\ f \in CodeFiles => file[f] # Missing
    BY <2>3 DEF Unhashable
  <2>8. QED
    BY <2>5, <2>6, <2>7 DEF HashNow
<1>2. CASE UNCHANGED <<file, touched, tracked, hashed, plan, pc>>
  BY <1>2 DEF HashesNoticed, Noticed, Runs, Planned
<1>3. CASE Environment
  <2>1. pc = "run" /\ i \in Runs
    BY <1>3 DEF Environment, EditFile, RemoveFile, AddFile, Fetch, EditRegistry,
                EditReviewStatus, Edited, process, Runs, Planned
  <2>2. /\ IF f \in Deps[i] THEN hashed[i][f] = file[f] \/ Noticed(f)
           ELSE hashed[i][f] = Missing
        /\ f \in Deps[i] /\ file[f] # Missing => f \in tracked
        /\ f \in Deps[i] /\ f \in CodeFiles => file[f] # Missing
    BY <2>1 DEF HashesNoticed
  <2>3. QED
    BY <1>3, <2>1, <2>2, EnvironmentStep DEF Noticed
<1>4. ASSUME NEW j \in Ids, Run(j) \/ RunFails(j)
      PROVE  UNCHANGED <<file, touched, tracked, hashed, plan, pc>>
  BY <1>4 DEF Run, RunFails, tree
<1>5. ASSUME UNCHANGED vars PROVE UNCHANGED <<file, touched, tracked, hashed, plan, pc>>
  BY <1>5 DEF vars, process, tree
<1>6. QED
  BY <1>1, <1>2, <1>3, <1>4, <1>5 DEF Next, Export, Start, Import, ImportFails, PlanFails,
     Refuse, Merge, Record, WriteHistory, WriteArtifact, Kill, TearHistory, TearArtifact, Exit

(* A row measured now has the hash computed for its entry, or the           *)
(* difference is noticed.                                                   *)
LEMMA RunNoticed ==
  ASSUME Typed, ImportsNoticed, HashesNoticed, pc = "run", NEW i \in Runs, ~RunThrows(i),
         NEW f \in Files
  PROVE  InputsNow(i)[f] = hashed[i][f] \/ Noticed(f)
<1>1. /\ IF f \in Deps[i] THEN hashed[i][f] = file[f] \/ Noticed(f)
         ELSE hashed[i][f] = Missing
      /\ f \in Deps[i] /\ file[f] # Missing => f \in tracked
      /\ f \in Deps[i] /\ f \in CodeFiles => file[f] # Missing
  BY DEF HashesNoticed
<1>2. f \in CodeFiles => loaded.code[f] = file[f] \/ f \in touched
  BY DEF ImportsNoticed
<1>3. QED
  BY <1>1, <1>2 DEF InputsNow, Noticed

LEMMA FreshStep ==
  /\ InFlightRemoval = FALSE /\ Typed /\ [Next]_vars
  /\ ImportsNoticed /\ HashesNoticed /\ FreshNoticed
  => FreshNoticed'
<1> SUFFICES ASSUME InFlightRemoval = FALSE, Typed, [Next]_vars, ImportsNoticed,
                    HashesNoticed, FreshNoticed
             PROVE  FreshNoticed'
  OBVIOUS
<1>1. CASE pc' \in {"idle", "import", "plan"}
  <2>1. fresh' = NoRows
    BY <1>1 DEF FreshNoticed, Next, Export, Environment, EditFile, RemoveFile, AddFile, Fetch,
       EditRegistry, EditReviewStatus, Edited, Start, Import, ImportFails, PlanExport, PlanFails,
       Run, RunFails, Refuse, Merge, Record, WriteHistory, WriteArtifact, Kill, TearHistory,
       TearArtifact, Exit, process, vars
  <2>2. QED
    BY <1>1, <2>1 DEF FreshNoticed, NoRows
<1>2. CASE pc' = "run"
  <2> SUFFICES ASSUME NEW i \in Ids, fresh'[i] # NoEntry
               PROVE  /\ fresh'[i].hash = hashed'[i]
                      /\ \A f \in Files : fresh'[i].measured[f] = hashed'[i][f] \/ Noticed(f)'
    BY <1>2 DEF FreshNoticed
  <2>1. CASE UNCHANGED <<pc, fresh, hashed, file, tracked, touched>>
    BY <1>2, <2>1 DEF FreshNoticed, Noticed
  <2>2. CASE Environment
    <3>1. pc = "run" /\ fresh' = fresh /\ hashed' = hashed
      BY <1>2, <2>2 DEF Environment, EditFile, RemoveFile, AddFile, Fetch, EditRegistry,
                        EditReviewStatus, Edited, process
    <3>2. QED
      BY <2>2, <3>1, EnvironmentStep DEF FreshNoticed, Noticed
  <2>3. ASSUME NEW j \in Ids, Run(j)
        PROVE  /\ fresh'[i].hash = hashed'[i]
               /\ \A f \in Files : fresh'[i].measured[f] = hashed'[i][f] \/ Noticed(f)'
    <3>1. pc = "run" /\ UNCHANGED <<hashed, file, tracked, touched>>
      BY <2>3 DEF Run, tree
    <3>2. CASE i # j
      BY <2>3, <3>1, <3>2 DEF Run, FreshNoticed, Noticed, Typed, TypeOK, Rows
    <3>3. CASE i = j
      <4>1. i \in Runs /\ ~RunThrows(i)
        BY <2>3, <3>3 DEF Run, NextRun, Todo
      <4>2. fresh'[i].hash = hashed[i] /\ fresh'[i].measured = InputsNow(i)
        BY <2>3, <3>3 DEF Run, Typed, TypeOK, Rows
      <4>3. QED
        BY <3>1, <4>1, <4>2, RunNoticed DEF Noticed
    <3>4. QED
      BY <3>2, <3>3
  <2>4. ASSUME NEW j \in Ids, RunFails(j)
        PROVE  UNCHANGED <<pc, fresh, hashed, file, tracked, touched>>
    BY <2>4 DEF RunFails, tree
  <2>5. CASE PlanExport
    BY <2>5 DEF PlanExport, FreshNoticed, NoRows
  <2>6. ASSUME UNCHANGED vars PROVE UNCHANGED <<pc, fresh, hashed, file, tracked, touched>>
    BY <2>6 DEF vars, process, tree
  <2>7. QED
    BY <1>2, <2>1, <2>2, <2>3, <2>4, <2>5, <2>6 DEF Next, Export, Start, Import, ImportFails,
       PlanFails, Refuse, Merge, Record, WriteHistory, WriteArtifact, Kill, TearHistory,
       TearArtifact, Exit
<1>3. CASE pc' \in {"record", "write"}
  <2> SUFFICES ASSUME NEW i \in Ids, fresh'[i] # NoEntry
               PROVE  fresh'[i].hash = fresh'[i].measured
    BY <1>3 DEF FreshNoticed
  <2>1. CASE Merge
    <3>1. pc = "run" /\ fresh' = fresh /\ ~Modified
      BY <2>1 DEF Merge
    <3>2. \A f \in Files : ~Noticed(f)
      BY <3>1 DEF Modified, Noticed, Exists
    <3>3. fresh[i].hash = hashed[i] /\ \A f \in Files : fresh[i].measured[f] = hashed[i][f]
      BY <3>1, <3>2 DEF FreshNoticed
    <3>4. fresh[i].measured \in Inputs /\ hashed[i] \in Inputs
      BY <3>1 DEF Typed, TypeOK, Rows, Row
    <3>5. fresh[i].measured = hashed[i]
      BY <3>3, <3>4 DEF Inputs
    <3>6. QED
      BY <3>1, <3>3, <3>5
  <2>2. CASE fresh' = fresh /\ pc \in {"record", "write"}
    BY <2>2 DEF FreshNoticed
  <2>3. CASE Environment
    BY <1>3, <2>2, <2>3 DEF Environment, EditFile, RemoveFile, AddFile, Fetch, EditRegistry,
                     EditReviewStatus, Edited, process
  <2>4. ASSUME NEW t \in Track, Record(t) PROVE fresh' = fresh /\ pc \in {"record", "write"}
    BY <2>4 DEF Record
  <2>5. CASE WriteHistory \/ UNCHANGED vars
    BY <1>3, <2>2, <2>5 DEF WriteHistory, vars, process
  <2>6. QED
    BY <1>3, <2>1, <2>2, <2>3, <2>4, <2>5 DEF Next, Export, Start, Import, ImportFails, PlanExport,
       PlanFails, Run, RunFails, Refuse, WriteArtifact, Kill, TearHistory, TearArtifact, Exit
<1>4. QED
  BY <1>1, <1>2, <1>3, NextTyped DEF Typed, TypeOK

LEMMA RowsStep ==
  /\ Typed /\ FreshNoticed /\ RowsMeasureTheirHash /\ [Next]_vars
  => RowsMeasureTheirHash'
<1> SUFFICES ASSUME Typed, FreshNoticed, RowsMeasureTheirHash, [Next]_vars, Readable(outfile'),
                    NEW i \in Ids, outfile'.rows[i] # NoEntry, outfile'.rows[i].hash # NoHash
             PROVE  outfile'.rows[i].measured = outfile'.rows[i].hash
  BY DEF RowsMeasureTheirHash, Readable
<1>1. CASE outfile' = outfile
  BY <1>1 DEF RowsMeasureTheirHash
<1>2. CASE TearArtifact
  BY <1>2 DEF TearArtifact, Readable
<1>3. CASE WriteArtifact /\ outfile' # outfile
  <2>1. pc = "write" /\ outfile'.rows = Merged
    BY <1>3 DEF WriteArtifact, NewArtifact
  <2>2. CASE plan[i] = "run"
    <3>1. Merged[i] = fresh[i]
      BY <2>2 DEF Merged
    <3>2. QED
      BY <2>1, <3>1 DEF FreshNoticed
  <2>3. CASE plan[i] \in {"carry", "stale"}
    <3>1. PreviousRows[i] \in Row
      BY <2>1, <2>3, PreviousRowsType DEF Typed, PlanOK, Rows
    <3>2. Readable(outfile) /\ PreviousRows[i] = outfile.rows[i] /\ outfile.rows[i] # NoEntry
      BY <3>1, RowAssumption DEF PreviousRows, NoRows
    <3>3. Merged[i].hash = PreviousRows[i].hash /\ Merged[i].measured = PreviousRows[i].measured
      BY <2>3, <3>1 DEF Merged, Row
    <3>4. QED
      BY <2>1, <3>2, <3>3 DEF RowsMeasureTheirHash
  <2>4. CASE plan[i] \in {"absent", "none"}
    BY <2>1, <2>4 DEF Merged
  <2>5. QED
    BY <2>2, <2>3, <2>4 DEF Typed, TypeOK, Action
<1>4. CASE Environment \/ UNCHANGED vars
  BY <1>1, <1>4 DEF Environment, EditFile, RemoveFile, AddFile, Fetch, EditRegistry,
              EditReviewStatus, Edited, vars
<1>5. QED
  BY <1>1, <1>2, <1>3, <1>4 DEF Next, Export, Start, Import, ImportFails, PlanExport, PlanFails,
     Run, RunFails, Refuse, Merge, Record, WriteHistory, Kill, TearHistory

(* If inputs only appear and disappear between exports, no interleaving of  *)
(* edits with the import, the hashing and the runs stores a hash on a row   *)
(* that was measured on other inputs: what assertUnmodifiedSince is for.    *)
THEOREM RowsMatch == InFlightRemoval = FALSE => (Spec => []RowsMeasureTheirHash)
<1> SUFFICES ASSUME InFlightRemoval = FALSE PROVE Spec => []RowsMeasureTheirHash
  OBVIOUS
<1>1. Init => HashInv
  <2> SUFFICES ASSUME Init PROVE HashInv
    OBVIOUS
  <2>1. RowsMeasureTheirHash
    BY FileValuesAssumption DEF Init, RowsMeasureTheirHash, Readable
  <2>2. QED
    BY <2>1 DEF Init, HashInv, ImportsNoticed, HashesNoticed, FreshNoticed
<1>2. Typed /\ HashInv /\ [Next]_vars => HashInv'
  BY ImportsStep, HashesStep, FreshStep, RowsStep DEF HashInv
<1>3. HashInv => RowsMeasureTheirHash
  BY DEF HashInv
<1>4. QED
  BY InitTyped, NextTyped, <1>1, <1>2, <1>3, PTL DEF Spec

-----------------------------------------------------------------------------
(* What a failed or a degraded export leaves alone                          *)

BeforeInv ==
    /\ pc # "idle" => exit = "none" /\ outfile = before.outfile
    /\ pc \in {"import", "plan", "run"} => hist = before.hist
    /\ pc \in {"idle", "import", "plan", "run"} => ~changed
    /\ pc \in {"record", "write"} /\ Degraded =>
          hist = before.hist /\ ~changed /\ tracks = {}

FreezeInv == BeforeInv /\ FailureLeavesNoTrace /\ DegradedFreezes

LEMMA BeforeStep == Typed /\ FreezeInv /\ [Next]_vars => FreezeInv'
<1> SUFFICES ASSUME Typed, FreezeInv, [Next]_vars PROVE FreezeInv'
  OBVIOUS
<1> USE DEF FreezeInv, BeforeInv
<1>1. ASSUME NEW m \in Modes, Start(m) PROVE FreezeInv'
  BY <1>1 DEF Start, FailureLeavesNoTrace, DegradedFreezes
<1>2. CASE Import \/ PlanExport \/ \E i \in Ids : Run(i) \/ RunFails(i)
  <2>1. pc \in {"import", "plan", "run"} /\ pc' \in {"import", "plan", "run"}
    BY <1>2 DEF Import, PlanExport, Run, RunFails
  <2>2. UNCHANGED <<outfile, hist, changed, before, exit>>
    BY <1>2 DEF Import, PlanExport, Run, RunFails, ghosts
  <2>3. QED
    BY <2>1, <2>2 DEF FailureLeavesNoTrace, DegradedFreezes
<1>3. CASE ImportFails \/ PlanFails \/ Refuse
  BY <1>3 DEF ImportFails, PlanFails, Refuse, Exit, FailureLeavesNoTrace, DegradedFreezes
<1>4. CASE Merge
  <2>1. Degraded' => tracks' = {}
    BY <1>4 DEF Merge, Degraded, Planned
  <2>2. QED
    BY <1>4, <2>1 DEF Merge, ghosts, FailureLeavesNoTrace, DegradedFreezes
<1>5. ASSUME NEW t \in Track, Record(t) PROVE FreezeInv'
  BY <1>5 DEF Record, ghosts, Degraded, Planned, FailureLeavesNoTrace, DegradedFreezes
<1>6. CASE WriteHistory
  BY <1>6 DEF WriteHistory, ghosts, Degraded, Planned, FailureLeavesNoTrace, DegradedFreezes
<1>7. CASE WriteArtifact
  <2>1. /\ pc = "write" /\ outfile = before.outfile /\ before' = before /\ hist' = hist
        /\ pc' = "idle" /\ ~changed' /\ exit' # "failed"
        /\ exit' = "degraded" => Degraded
    BY <1>7 DEF WriteArtifact, Exit
  <2>2. CASE outfile' = outfile
    BY <2>1, <2>2 DEF FailureLeavesNoTrace, DegradedFreezes
  <2>3. CASE outfile' = NewArtifact(NewStamp)
    <3>1. Degraded /\ PreviousFrontier # NoFrontier => outfile'.frontier = PreviousFrontier
      BY <2>3 DEF NewArtifact
    <3>2. QED
      BY <2>1, <3>1 DEF FailureLeavesNoTrace, DegradedFreezes, PreviousFrontier, Readable
  <2>4. QED
    BY <1>7, <2>2, <2>3 DEF WriteArtifact
<1>8. CASE Kill \/ TearHistory \/ TearArtifact
  BY <1>8 DEF Kill, TearHistory, TearArtifact, Exit, FailureLeavesNoTrace, DegradedFreezes
<1>9. CASE Environment
  BY <1>9 DEF Environment, EditFile, RemoveFile, AddFile, Fetch, EditRegistry, EditReviewStatus,
     Edited, process, Degraded, Planned, FailureLeavesNoTrace, DegradedFreezes
<1>10. CASE UNCHANGED vars
  BY <1>10 DEF vars, process, ghosts, Degraded, Planned, FailureLeavesNoTrace, DegradedFreezes
<1>11. QED
  BY <1>1, <1>2, <1>3, <1>4, <1>5, <1>6, <1>7, <1>8, <1>9, <1>10 DEF Next, Export

LEMMA InitFreeze == Init => FreezeInv
  BY DEF Init, FreezeInv, BeforeInv, FailureLeavesNoTrace, DegradedFreezes

(* An export that exits 1, at whatever point it fails, has written neither  *)
(* file.                                                                    *)
THEOREM FailuresLeaveNoTrace == Spec => []FailureLeavesNoTrace
<1>1. FreezeInv => FailureLeavesNoTrace
  BY DEF FreezeInv
<1>2. QED
  BY InitTyped, NextTyped, InitFreeze, BeforeStep, <1>1, PTL DEF Spec

(* An export that exits 2 has appended nothing and kept the frontier.       *)
THEOREM DegradedExportsFreeze == Spec => []DegradedFreezes
<1>1. FreezeInv => DegradedFreezes
  BY DEF FreezeInv
<1>2. QED
  BY InitTyped, NextTyped, InitFreeze, BeforeStep, <1>1, PTL DEF Spec
=============================================================================
