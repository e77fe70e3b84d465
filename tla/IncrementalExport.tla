------------------------- MODULE IncrementalExport -------------------------
(***************************************************************************)
(* The incremental export, `pnpm benchmark:json'                           *)
(* (src/harness/export-json.ts with src/harness/input-hash.ts): one        *)
(* process that imports the implementations, plans which rows to re-run    *)
(* and which to carry from the previous artifact, measures, checks that no *)
(* hashed input was modified meanwhile, extends the score history and      *)
(* rewrites the artifact.  Around it the working tree is edited at any     *)
(* moment, and the process may be killed at any moment, in the middle of   *)
(* the write of a file too.                                                *)
(***************************************************************************)
EXTENDS ScoreHistory

CONSTANTS
  Files,            \* the inputs: modules, vectors, data and red-team files
  CodeFiles,        \* imported when the process starts
  DataFiles,        \* under data/, fetched on demand
  PinnedFiles,      \* data files with a digest in data/<x>/SHA256SUMS
  RedTeamFiles,     \* read if they exist
  RegistryFile,     \* src/harness/benchmark.ts, which holds REGISTRY
  Deps,             \* dependenciesOf: id -> SUBSET Files
  Contents,         \* file contents
  Missing,          \* the content, and the hash, of a file that is not there
  Pin,              \* pinned content of each pinned file
  Outcome(_, _),    \* what benchmarking an id on given inputs yields
  Throws(_, _),     \* loading or benchmarking throws on given inputs
  Omitted,          \* FEED_OMIT
  Modes,            \* the environment variables an export may be started with
  DefaultMode,      \* the one with none of them set
  InitOutfiles,     \* artifacts that may exist before the first export
  NoFile, Torn,     \* a file that is not there; one whose write was cut short
  NoHash,           \* a legacy row has no inputHash
  NoFrontier,       \* an artifact without a frontier
  InFlightRemoval,  \* BOOLEAN: files appear and disappear during an export too
  MaxEdits, MaxKills  \* bounds on the edits and kills explored

Input  == Contents \cup {Missing}
Inputs == [Files -> Input]

Mode == [stamp: BOOLEAN, full: BOOLEAN, partial: BOOLEAN, only: SUBSET Ids,
         skip: SUBSET Ids, defer: BOOLEAN, drop: BOOLEAN, allowMissing: BOOLEAN]

Row == [hash: Inputs \cup {NoHash}, measured: Inputs, stale: BOOLEAN,
        ranked: BOOLEAN]

Rows == [Ids -> Row \cup {NoEntry}]

Artifact == [rows: Rows,
             frontier: [leader: SUBSET Anchor, current: SUBSET Anchor]
                       \cup {NoFrontier},
             history: Seq(Point),
             at: {0, 1}]

ASSUME FilesAssumption ==
    /\ CodeFiles \subseteq Files /\ DataFiles \subseteq Files
    /\ RedTeamFiles \subseteq Files /\ PinnedFiles \subseteq DataFiles
    /\ CodeFiles \cap DataFiles = {} /\ RedTeamFiles \cap CodeFiles = {}
    /\ RedTeamFiles \cap DataFiles = {} /\ RegistryFile \notin Files
ASSUME DepsAssumption == Deps \in [Ids -> SUBSET Files]
ASSUME ContentsAssumption == Missing \notin Contents /\ Pin \in [PinnedFiles -> Contents]
ASSUME OutcomeAssumption ==
    \A i \in Ids : \A m \in Inputs : Outcome(i, m) \in Result /\ Throws(i, m) \in BOOLEAN
ASSUME ModesAssumption == Modes \subseteq Mode /\ DefaultMode \in Mode
ASSUME RowAssumption == NoEntry \notin Row /\ NoHash \notin Inputs
ASSUME FileValuesAssumption ==
    /\ NoFile \notin Artifact /\ Torn \notin Artifact
    /\ NoFile \notin Seq(Point) /\ Torn \notin Seq(Point)
    /\ NoFile # Torn
    /\ InitOutfiles \subseteq Artifact \cup {NoFile}
    /\ \A a \in InitOutfiles \cap Artifact : \A i \in Ids :
          a.rows[i] # NoEntry => a.rows[i].hash = NoHash
ASSUME SwitchAssumption ==
    /\ InFlightRemoval \in BOOLEAN
    /\ MaxEdits \in Nat /\ MaxKills \in Nat

VARIABLES
  file,       \* content of every input in the working tree
  registry,   \* the ids registered in the working tree
  unranked,   \* the ids review-status.ts marks withdrawn or archived
  outfile,    \* results.json
  hist,       \* score-history.json
  pc,         \* phase of the export process, or "idle"
  mode,       \* its environment variables
  loaded,     \* what it imported: code, registry and review statuses
  plan,       \* id -> run, carry, stale, absent or none
  hashed,     \* id -> the input hash computed for it
  tracked,    \* hashedFiles
  fresh,      \* id -> the row just measured
  failed,     \* ids whose run threw
  series,     \* the score history in memory
  changed,    \* a point was pushed
  tracks,     \* tracks of the history still to visit
  touched,    \* files whose mtime is later than the start of the process
  exit,       \* exit status of the last process: success 0, failed 1, degraded 2
  clean,      \* nothing was edited since the last process started
  settled,    \* it started with nothing edited since a clean exit 0, to re-run nothing
  before,     \* the two files as they were when it started
  edits, kills

tree    == <<file, registry, unranked>>
process == <<pc, mode, loaded, plan, hashed, tracked, fresh, failed, series,
             changed, tracks>>
ghosts  == <<exit, clean, settled, before>>
vars    == <<tree, outfile, hist, process, touched, ghosts, edits, kills>>

-----------------------------------------------------------------------------
(* The files the export reads and writes                                    *)

Readable(f) == f \notin {NoFile, Torn}

NoRows == [i \in Ids |-> NoEntry]

(* main: the rows that can be carried forward                               *)
PreviousRows == IF Readable(outfile) THEN outfile.rows ELSE NoRows

PreviousFrontier == IF Readable(outfile) THEN outfile.frontier ELSE NoFrontier

(* Variant: the file is parsed without a fallback.                          *)
LoadHistoryUnguarded == IF hist = NoFile THEN <<>> ELSE hist

(* loadHistory: an unreadable file counts as an empty one                   *)
LoadHistory == IF Readable(hist) THEN hist ELSE <<>>

Exists(f) == f \in Files => file[f] # Missing

(* inputHashOf: the input hash is the content of the dependencies, a pinned *)
(* file entering through its pin even when it is not there.                 *)
HashNow(i) ==
    [f \in Files |-> IF f \notin Deps[i] THEN Missing
                     ELSE IF f \in PinnedFiles THEN Pin[f]
                     ELSE file[f]]

(* contentHash and dependenciesOf throw: a pinned file with other content   *)
(* than its pin, or a module that cannot be read.                           *)
Unhashable(i) ==
    \E f \in Deps[i] : \/ f \in PinnedFiles /\ file[f] \notin {Missing, Pin[f]}
                       \/ f \in CodeFiles /\ file[f] = Missing

MissingData(i) == {f \in Deps[i] \cap DataFiles : file[f] = Missing}

(* What a run measured now would read: modules as imported, the other files *)
(* as they are.                                                             *)
InputsNow(i) ==
    [f \in Files |-> IF f \notin Deps[i] THEN Missing
                     ELSE IF f \in CodeFiles THEN loaded.code[f]
                     ELSE file[f]]

-----------------------------------------------------------------------------
(* planExport                                                               *)

Feed == loaded.registry \ Omitted

ModeRefused ==
    \/ mode.stamp
    \/ mode.partial /\ (mode.full \/ mode.defer)
    \/ mode.partial /\ ~ mode.only \subseteq Feed

Forced(i) == mode.partial /\ i \in mode.only

(* The previous row does not measure the current inputs: there is none, its *)
(* inputs are unknown, or its inputs changed.                               *)
Outdated(i) == PreviousRows[i] # NoEntry => PreviousRows[i].hash # HashNow(i)

(* Planning this entry throws, which fails the whole export.                *)
PlanThrows(i) ==
    \/ Unhashable(i)
    \/ /\ MissingData(i) # {}
       /\ \/ ~ MissingData(i) \subseteq PinnedFiles
          \/ Forced(i)
          \/ PreviousRows[i] = NoEntry
          \/ Outdated(i) /\ ~mode.partial
          \/ ~Outdated(i) /\ mode.full /\ ~mode.allowMissing

Action == {"run", "carry", "stale", "absent", "none"}

(* What becomes of an outdated row that is not re-run.                      *)
LeftAlone(i) == IF PreviousRows[i] = NoEntry THEN "absent" ELSE "stale"

(* Variant: SKIP_IMPLS carries a slow row whatever became of its inputs.    *)
PlanOfSkipping(i) ==
    CASE i \notin Feed -> "none"
      [] i \in Feed /\ i \in mode.skip /\ PreviousRows[i] # NoEntry -> "carry"
      [] OTHER -> IF Outdated(i) THEN "run" ELSE "carry"

PlanOf(i) ==
    CASE i \notin Feed                -> "none"
      [] i \in Feed /\ MissingData(i) # {} ->
            IF Outdated(i) THEN "stale" ELSE "carry"
      [] i \in Feed /\ MissingData(i) = {} /\ mode.partial ->
            IF Forced(i) THEN "run" ELSE IF Outdated(i) THEN LeftAlone(i) ELSE "carry"
      [] i \in Feed /\ MissingData(i) = {} /\ ~mode.partial /\ i \in mode.skip ->
            IF ~Outdated(i) THEN "carry" ELSE IF mode.defer THEN LeftAlone(i) ELSE "run"
      [] OTHER -> IF mode.full \/ Outdated(i) THEN "run" ELSE "carry"

PlanRefused ==
    \/ ModeRefused
    \/ \E i \in Feed : PlanThrows(i)
    \/ ~mode.drop /\ \E i \in Feed : PlanOf(i) = "absent"

-----------------------------------------------------------------------------
(* The merged rows, and what is computed from them                          *)

Planned(a) == {i \in Ids : plan[i] = a}

Runs == Planned("run")

Todo == {i \in Runs : fresh[i] = NoEntry /\ i \notin failed}

Ranked(i) == i \notin loaded.unranked

(* Variant: a row that is not re-run adopts the hash of the current inputs. *)
MergedAdopting ==
    [i \in Ids |->
        CASE plan[i] = "run"   -> fresh[i]
          [] plan[i] = "carry" -> [PreviousRows[i] EXCEPT !.stale = FALSE, !.ranked = Ranked(i)]
          [] plan[i] = "stale" -> [PreviousRows[i] EXCEPT !.stale = TRUE, !.hash = hashed[i]]
          [] OTHER             -> NoEntry]

Merged ==
    [i \in Ids |->
        CASE plan[i] = "run"   -> fresh[i]
          [] plan[i] = "carry" -> [PreviousRows[i] EXCEPT !.stale = FALSE, !.ranked = Ranked(i)]
          [] plan[i] = "stale" -> [PreviousRows[i] EXCEPT !.stale = TRUE, !.ranked = Ranked(i)]
          [] OTHER             -> NoEntry]

ResultsOf(rows) ==
    [i \in Ids |-> IF rows[i] = NoEntry THEN NoEntry ELSE Outcome(i, rows[i].measured)]

(* Variant: only missing rows count.                                        *)
DegradedByAbsence == Planned("absent") # {}

Degraded == Planned("absent") # {} \/ Planned("stale") # {}

(* Variant: the frontier is always computed from the rows at hand.          *)
NewArtifactRefreshed(at) ==
    [rows     |-> Merged,
     frontier |-> Frontier(ResultsOf(Merged), loaded.unranked),
     history  |-> series,
     at       |-> at]

NewArtifact(at) ==
    [rows     |-> Merged,
     frontier |-> IF Degraded /\ PreviousFrontier # NoFrontier
                  THEN PreviousFrontier
                  ELSE Frontier(ResultsOf(Merged), loaded.unranked),
     history  |-> series,
     at       |-> at]

(* Variant: no check.                                                       *)
ModifiedUnchecked == FALSE

(* A file that went into a hash is newer than the process.                  *)
Modified == \E f \in tracked : Exists(f) /\ f \in touched

-----------------------------------------------------------------------------
NothingLoaded == [code |-> [f \in Files |-> Missing], registry |-> {}, unranked |-> {}]

(* The process is gone; its memory is reset so that it leaves no state.     *)
Exit(status) ==
    /\ pc' = "idle"
    /\ exit' = status
    /\ mode' = DefaultMode
    /\ loaded' = NothingLoaded
    /\ plan' = [i \in Ids |-> "none"]
    /\ hashed' = [i \in Ids |-> [f \in Files |-> Missing]]
    /\ tracked' = {}
    /\ fresh' = NoRows
    /\ failed' = {}
    /\ series' = <<>>
    /\ changed' = FALSE
    /\ tracks' = {}
    /\ touched' = {}
    /\ UNCHANGED <<clean, settled, before>>

Init ==
    /\ file \in [Files -> Input]
    /\ \A f \in CodeFiles : file[f] # Missing
    /\ \A f \in PinnedFiles : file[f] \in {Missing, Pin[f]}
    /\ registry \in SUBSET Ids
    /\ unranked = {}
    /\ outfile \in InitOutfiles
    /\ hist = NoFile
    /\ pc = "idle"
    /\ mode = DefaultMode
    /\ loaded = NothingLoaded
    /\ plan = [i \in Ids |-> "none"]
    /\ hashed = [i \in Ids |-> [f \in Files |-> Missing]]
    /\ tracked = {}
    /\ fresh = NoRows
    /\ failed = {}
    /\ series = <<>>
    /\ changed = FALSE
    /\ tracks = {}
    /\ touched = {}
    /\ exit = "none"
    /\ clean = FALSE
    /\ settled = FALSE
    /\ before = [outfile |-> outfile, hist |-> hist]
    /\ edits = 0
    /\ kills = 0

(* performance.timeOrigin is taken: no file is newer than the process.      *)
Start(m) ==
    /\ pc = "idle"
    /\ pc' = "import"
    /\ mode' = m
    /\ touched' = {}
    /\ exit' = "none"
    /\ clean' = TRUE
    /\ settled' = (exit = "success" /\ clean /\ ~m.full /\ ~(m.partial /\ m.only # {}))
    /\ before' = [outfile |-> outfile, hist |-> hist]
    /\ UNCHANGED <<tree, outfile, hist, loaded, plan, hashed, tracked, fresh,
                   failed, series, changed, tracks, edits, kills>>

(* The static imports of benchmark.ts: every registered module, the         *)
(* registry and the review statuses.                                        *)
Import ==
    /\ pc = "import"
    /\ \A i \in registry : \A f \in Deps[i] \cap CodeFiles : file[f] # Missing
    /\ loaded' = [code     |-> [f \in Files |-> IF f \in CodeFiles THEN file[f] ELSE Missing],
                  registry |-> registry,
                  unranked |-> unranked]
    /\ pc' = "plan"
    /\ UNCHANGED <<tree, outfile, hist, mode, plan, hashed, tracked, fresh,
                   failed, series, changed, tracks, touched, ghosts, edits, kills>>

ImportFails ==
    /\ pc = "import"
    /\ \E i \in registry : \E f \in Deps[i] \cap CodeFiles : file[f] = Missing
    /\ Exit("failed")
    /\ UNCHANGED <<tree, outfile, hist, edits, kills>>

(* Reads the previous artifact, hashes the inputs of every entry of the     *)
(* feed and plans it.                                                       *)
PlanExport ==
    /\ pc = "plan"
    /\ ~PlanRefused
    /\ plan' = [i \in Ids |-> PlanOf(i)]
    /\ hashed' = [i \in Ids |-> IF i \in Feed THEN HashNow(i) ELSE hashed[i]]
    /\ tracked' = {f \in UNION {Deps[i] : i \in Feed} : file[f] # Missing}
                  \cup {RegistryFile}
    /\ pc' = "run"
    /\ UNCHANGED <<tree, outfile, hist, mode, loaded, fresh, failed, series,
                   changed, tracks, touched, ghosts, edits, kills>>

PlanFails ==
    /\ pc = "plan"
    /\ PlanRefused
    /\ Exit("failed")
    /\ UNCHANGED <<tree, outfile, hist, edits, kills>>

NextRun(i) == i \in Todo /\ \A j \in Todo : i <= j

RunThrows(i) ==
    \/ \E f \in Deps[i] \ (RedTeamFiles \cup CodeFiles) : file[f] = Missing
    \/ Throws(i, InputsNow(i))

(* One turn of the loop over the planned runs: load and benchmark one entry *)
(* with the hash computed earlier.                                          *)
Run(i) ==
    /\ pc = "run"
    /\ NextRun(i)
    /\ ~RunThrows(i)
    /\ fresh' = [fresh EXCEPT ![i] = [hash   |-> hashed[i], measured |-> InputsNow(i),
                                      stale  |-> FALSE,     ranked   |-> Ranked(i)]]
    /\ UNCHANGED <<tree, outfile, hist, pc, mode, loaded, plan, hashed, tracked,
                   failed, series, changed, tracks, touched, ghosts, edits, kills>>

RunFails(i) ==
    /\ pc = "run"
    /\ NextRun(i)
    /\ RunThrows(i)
    /\ failed' = failed \cup {i}
    /\ UNCHANGED <<tree, outfile, hist, pc, mode, loaded, plan, hashed, tracked,
                   fresh, series, changed, tracks, touched, ghosts, edits, kills>>

(* Variant: the inputs are checked once more before the artifact is written.*)
RefuseLate ==
    /\ \/ pc = "run" /\ Todo = {} /\ (failed # {} \/ Modified)
       \/ pc = "write" /\ Modified
    /\ Exit("failed")
    /\ UNCHANGED <<tree, outfile, hist, edits, kills>>

(* After the runs: a run that threw, or an input modified while the process *)
(* ran, refuses to write anything.                                          *)
Refuse ==
    /\ pc = "run"
    /\ Todo = {}
    /\ failed # {} \/ Modified
    /\ Exit("failed")
    /\ UNCHANGED <<tree, outfile, hist, edits, kills>>

(* The rows are merged.  A degraded artifact skips recordHistory.           *)
Merge ==
    /\ pc = "run"
    /\ Todo = {}
    /\ failed = {} /\ ~Modified
    /\ series' = LoadHistory
    /\ tracks' = IF Degraded THEN {} ELSE TracksOf(ResultsOf(Merged))
    /\ pc' = "record"
    /\ UNCHANGED <<tree, outfile, hist, mode, loaded, plan, hashed, tracked,
                   fresh, failed, changed, touched, ghosts, edits, kills>>

(* One turn of the loop of recordHistory; the curves of one kind of track   *)
(* come in any order.                                                       *)
Record(t) ==
    /\ pc = "record"
    /\ t \in tracks
    /\ \A u \in tracks : t.kind <= u.kind
    /\ LET e    == ResultsOf(Merged)
           best == Best(e, loaded.unranked, t)
       IN  \/ best = {} /\ UNCHANGED <<series, changed>>
           \/ \E b \in best :
                 /\ series' = Push(series, e, loaded.unranked, t, b)
                 /\ changed' = (changed \/ ~Known(series, e, loaded.unranked, t, b))
    /\ tracks' = tracks \ {t}
    /\ UNCHANGED <<tree, outfile, hist, pc, mode, loaded, plan, hashed, tracked,
                   fresh, failed, touched, ghosts, edits, kills>>

(* The history goes to disk before the artifact.                            *)
WriteHistory ==
    /\ pc = "record"
    /\ tracks = {}
    /\ hist' = IF changed THEN series ELSE hist
    /\ pc' = "write"
    /\ UNCHANGED <<tree, outfile, mode, loaded, plan, hashed, tracked, fresh,
                   failed, series, changed, tracks, touched, ghosts, edits, kills>>

(* Variant: the artifacts are compared with their time stamps.              *)
NothingNewWithStamp ==
    /\ Runs = {} /\ ~changed
    /\ Readable(outfile)
    /\ NewArtifact(1 - outfile.at) = outfile

NothingNew ==
    /\ Runs = {} /\ ~changed
    /\ Readable(outfile)
    /\ NewArtifact(outfile.at) = outfile

(* generatedAt is seen as whether it differs from that of the artifact      *)
(* being replaced.                                                          *)
NewStamp == IF Readable(outfile) THEN 1 - outfile.at ELSE 0

WriteArtifact ==
    /\ pc = "write"
    /\ outfile' = IF NothingNew THEN outfile ELSE NewArtifact(NewStamp)
    /\ Exit(IF Degraded THEN "degraded" ELSE "success")
    /\ UNCHANGED <<tree, hist, edits, kills>>

-----------------------------------------------------------------------------
(* Kills                                                                    *)

Kill ==
    /\ kills < MaxKills
    /\ pc # "idle"
    /\ kills' = kills + 1
    /\ Exit("killed")
    /\ UNCHANGED <<tree, outfile, hist, edits>>

(* writeFileSync truncates the file, then writes it: a kill in between      *)
(* leaves a file no reader can parse.                                       *)
TearHistory ==
    /\ kills < MaxKills
    /\ pc = "record" /\ tracks = {} /\ changed
    /\ hist' = Torn
    /\ kills' = kills + 1
    /\ Exit("killed")
    /\ UNCHANGED <<tree, outfile, edits>>

TearArtifact ==
    /\ kills < MaxKills
    /\ pc = "write" /\ ~NothingNew
    /\ outfile' = Torn
    /\ kills' = kills + 1
    /\ Exit("killed")
    /\ UNCHANGED <<tree, hist, edits>>

-----------------------------------------------------------------------------
(* The working tree                                                         *)

TouchedWith(f) == IF pc = "idle" THEN touched ELSE touched \cup {f}

Edited ==
    /\ edits < MaxEdits
    /\ edits' = edits + 1
    /\ clean' = FALSE
    /\ UNCHANGED <<outfile, hist, process, exit, settled, before, kills>>

(* A file gets other contents; its mtime is that of the edit.               *)
EditFile(f) ==
    /\ Edited
    /\ file[f] # Missing
    /\ \E c \in Contents \ {file[f]} : file' = [file EXCEPT ![f] = c]
    /\ touched' = TouchedWith(f)
    /\ UNCHANGED <<registry, unranked>>

Removable(f) == pc = "idle" \/ InFlightRemoval

RemoveFile(f) ==
    /\ Edited
    /\ Removable(f)
    /\ file[f] # Missing
    /\ file' = [file EXCEPT ![f] = Missing]
    /\ UNCHANGED <<touched, registry, unranked>>

AddFile(f) ==
    /\ Edited
    /\ Removable(f)
    /\ file[f] = Missing
    /\ \E c \in Contents : file' = [file EXCEPT ![f] = c]
    /\ touched' = TouchedWith(f)
    /\ UNCHANGED <<registry, unranked>>

(* src/fetch-data.ts: a fetched file is written only if it matches its pin. *)
Fetch(f) ==
    /\ f \in PinnedFiles
    /\ Removable(f)
    /\ file[f] # Pin[f]
    /\ file' = [file EXCEPT ![f] = Pin[f]]
    /\ touched' = TouchedWith(f)
    /\ clean' = FALSE
    /\ UNCHANGED <<registry, unranked, outfile, hist, process, exit, settled, before,
                   edits, kills>>

(* An entry is registered or withdrawn.                                     *)
EditRegistry(i) ==
    /\ Edited
    /\ registry' = IF i \in registry THEN registry \ {i} ELSE registry \cup {i}
    /\ touched' = TouchedWith(RegistryFile)
    /\ UNCHANGED <<file, unranked>>

(* The review status of an entry changes; review-status.ts is not hashed.   *)
EditReviewStatus(i) ==
    /\ Edited
    /\ unranked' = IF i \in unranked THEN unranked \ {i} ELSE unranked \cup {i}
    /\ UNCHANGED <<file, registry, touched>>

Environment ==
    \/ \E f \in Files : EditFile(f) \/ RemoveFile(f) \/ AddFile(f) \/ Fetch(f)
    \/ \E i \in Ids : EditRegistry(i) \/ EditReviewStatus(i)

Export ==
    \/ Import \/ ImportFails \/ PlanExport \/ PlanFails
    \/ \E i \in Ids : Run(i) \/ RunFails(i)
    \/ Refuse \/ Merge
    \/ \E t \in Track : Record(t)
    \/ WriteHistory \/ WriteArtifact

Next ==
    \/ \E m \in Modes : Start(m)
    \/ Export
    \/ Kill \/ TearHistory \/ TearArtifact
    \/ Environment

Spec == Init /\ [][Next]_vars

(* A started export runs to its end unless it is killed; somebody keeps     *)
(* running the default export and fetching the data files.  Nothing forces  *)
(* the edits, the other modes or the kills.                                 *)
Fairness ==
    /\ WF_vars(Export)
    /\ SF_vars(Start(DefaultMode))
    /\ \A f \in PinnedFiles : SF_vars(Fetch(f))

FairSpec == Spec /\ Fairness
-----------------------------------------------------------------------------
(* Properties                                                               *)

(* Every variable has its type.                                             *)
TypeOK ==
    /\ file \in [Files -> Input]
    /\ registry \subseteq Ids
    /\ unranked \subseteq Ids
    /\ outfile \in Artifact \cup {NoFile, Torn}
    /\ hist \in Seq(Point) \cup {NoFile, Torn}
    /\ pc \in {"idle", "import", "plan", "run", "record", "write"}
    /\ mode \in Mode
    /\ loaded \in [code: Inputs, registry: SUBSET Ids, unranked: SUBSET Ids]
    /\ plan \in [Ids -> Action]
    /\ hashed \in [Ids -> Inputs]
    /\ tracked \subseteq Files \cup {RegistryFile}
    /\ fresh \in Rows
    /\ failed \subseteq Ids
    /\ series \in Seq(Point)
    /\ changed \in BOOLEAN
    /\ tracks \subseteq Track
    /\ touched \subseteq Files \cup {RegistryFile}
    /\ exit \in {"none", "success", "failed", "degraded", "killed"}
    /\ clean \in BOOLEAN
    /\ settled \in BOOLEAN
    /\ before \in [outfile: Artifact \cup {NoFile, Torn},
                   hist: Seq(Point) \cup {NoFile, Torn}]
    /\ edits \in 0..MaxEdits
    /\ kills \in 0..MaxKills

(* The hash stored in a row of the artifact is the hash of the very inputs  *)
(* the row was measured on, whatever was edited between the import of a     *)
(* module, the computation of the hash and the run that read the data: the  *)
(* promise assertUnmodifiedSince is there to keep.                          *)
RowsMeasureTheirHash ==
    Readable(outfile) =>
        \A i \in Ids : LET row == outfile.rows[i]
                      IN  row # NoEntry /\ row.hash # NoHash => row.measured = row.hash

(* Exit status 0 is the permission to publish: unless something was edited  *)
(* since the process started, the artifact then has a row for exactly the   *)
(* entries of the feed, each measured on the inputs of now, none marked     *)
(* stale, each with its current review status.                              *)
SuccessIsCurrent ==
    pc = "idle" /\ exit = "success" /\ clean =>
        /\ Readable(outfile)
        /\ \A i \in Ids :
              IF i \in registry \ Omitted
              THEN /\ outfile.rows[i] # NoEntry
                   /\ outfile.rows[i].measured = HashNow(i)
                   /\ ~outfile.rows[i].stale
                   /\ outfile.rows[i].ranked = (i \notin unranked)
              ELSE outfile.rows[i] = NoEntry

(* The stale marker in a written artifact is exact: unless something was    *)
(* edited since the process started, a row is marked if and only if its     *)
(* input hash is not that of the current inputs.                            *)
StaleMarkerIsExact ==
    pc = "idle" /\ exit \in {"success", "degraded"} /\ clean =>
        \A i \in Ids : outfile.rows[i] # NoEntry =>
            (outfile.rows[i].stale <=> outfile.rows[i].hash # HashNow(i))

(* An export that exits 1 leaves both of its files as they were when the    *)
(* process started, as its message says.                                    *)
FailureLeavesNoTrace ==
    exit = "failed" => outfile = before.outfile /\ hist = before.hist

(* An export that exits 2 appends no point to the history, and keeps the    *)
(* frontier of the artifact it replaces if there is one.                    *)
DegradedFreezes ==
    exit = "degraded" =>
        /\ hist = before.hist
        /\ Readable(before.outfile) /\ before.outfile.frontier # NoFrontier =>
              outfile.frontier = before.outfile.frontier

(* After exit status 0 history, frontier and rows agree, through crashes    *)
(* between the two writes and whatever came before: on every track the      *)
(* latest point that counts has the score of the best row, the artifact     *)
(* carries the history file, and the frontier is that of the rows.          *)
SuccessAgrees ==
    pc = "idle" /\ exit = "success" /\ clean =>
        LET e == ResultsOf(outfile.rows)
        IN  /\ outfile.history = LoadHistory
            /\ outfile.frontier = Frontier(e, unranked)
            /\ \A t \in Track : \A b \in Best(e, unranked, t) :
                  Known(outfile.history, e, unranked, t, b)

(* An export that starts after a successful one, with nothing edited since  *)
(* and nothing to force, leaves the artifact untouched, the time stamp too. *)
NoopLeavesArtifact ==
    exit = "success" /\ settled /\ clean =>
        outfile = before.outfile /\ hist = before.hist

IsExtensionOf(new, old) == Len(old) <= Len(new) /\ SubSeq(new, 1, Len(old)) = old

(* A readable history is only ever replaced by an extension of it, or cut   *)
(* short by a kill.                                                         *)
HistoryOnlyGrows ==
    [][Readable(hist) /\ hist' # hist =>
          hist' = Torn \/ IsExtensionOf(hist', hist)]_vars

(* The artifact has a current, unmarked row for every entry of the feed.    *)
Current ==
    /\ Readable(outfile)
    /\ \A i \in registry \ Omitted :
          /\ outfile.rows[i] # NoEntry
          /\ outfile.rows[i].measured = HashNow(i)
          /\ ~outfile.rows[i].stale

(* Entry i can be measured in the working tree once its data is fetched.    *)
Measurable(i) ==
    /\ \A f \in Deps[i] \ (RedTeamFiles \cup PinnedFiles) : file[f] # Missing
    /\ ~Throws(i, HashNow(i))

(* Once the working tree is left alone in a state every entry can be        *)
(* measured in, repeated default exports end with a current artifact for    *)
(* good: slow, stale, legacy and fetched entries included, whatever was     *)
(* torn before, and whatever other modes are used in between.               *)
Converges ==
    <>[](\A i \in registry : Measurable(i)) => <>[]Current

(* Where the process stands for a reader of its two files.                  *)
Phase ==
    CASE pc = "idle"              -> "idle"
      [] pc = "write" /\ changed  -> "extended"
      [] pc = "write" /\ ~changed -> "checked"
      [] OTHER                    -> "open"

(* The frontier of a row set, by the review statuses stamped on the rows.   *)
FrontierOfRows(rows) ==
    Frontier(ResultsOf(rows), {i \in Ids : rows[i] # NoEntry /\ ~rows[i].ranked})

Published == INSTANCE PublishedFeed
    WITH feed <- outfile, history <- hist, phase <- Phase, outcome <- exit,
         FrontierOf <- FrontierOfRows, InitFeeds <- InitOutfiles

(* The export implements the abstract feed, through edits, kills and every  *)
(* mode: it refuses only while both files are untouched, writes an artifact *)
(* to publish only from rows of the present and the history on disk, and    *)
(* otherwise keeps records and frontier and marks the old rows.             *)
PublishesFeed == Published!Spec

(* What an append-only history demands of an export that meets a history    *)
(* file it cannot read: not to replace it and exit 0.                       *)
UnreadableHistoryIsKept ==
    exit = "success" /\ before.hist = Torn => hist = Torn
=============================================================================
