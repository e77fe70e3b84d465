# TLA+ models of zk-verifier-bench

`zk-verifier-bench` measures Groth16 verifiers written for the Bitcoin Cash VM: it runs
every registered implementation over its vectors, grades it, and publishes one row per
implementation in `results.json` together with a frontier and an append-only score
history. This directory models the parts of it whose correctness depends on order, on
state that outlives a process, or on several pieces of data that must agree. File names
below are relative to the repository.

## Inventory

| component | state it keeps | operations | interacts with |
|---|---|---|---|
| incremental export (`src/harness/export-json.ts`) | `results.json`; in memory the plan, hashes, fresh rows | plan, run, refuse, merge, write; nine environment variables | reads every input file, the registry, the review statuses; calls input hashing, benchmark, history |
| score history and frontier (same file) | `score-history.json` | load, push per track, write | merged rows of one export |
| input hashing (`src/harness/input-hash.ts`) | files read for a hash, cached fingerprint and pins | dependency closure, content hash, check of modification times | export, audit |
| dependency audit (`src/harness/audit-deps.ts`) | traced reads | trace, attribute, check | runs before the export |
| review status (`review-status.ts`), data fetcher (`src/fetch-data.ts`) | a table; the fetched files under `data/` | edit; fetch with digest check | export |
| benchmark of one entry (`benchmark.ts`, `entry.ts`) | none | honest, invalid, worst-case runs; staple; verdict; row | contract, gates, VM, TXv5 |
| scenario contract (`scenario-contract.ts`) | none | shape of a run, same program, distinct proofs | benchmark |
| gates (`gates.ts`, `redteam.ts`, `tamper.ts`) | none | mutate unlockings and re-evaluate siblings | benchmark |
| TXv5 grading (`txv5.ts`) | none | pad slots, least-fixpoint padding, grade | benchmark |
| implementation loaders (`src/implementations`) | vector files | build a scenario; covenant token threads | benchmark |
| generators, checkpoints (`src/bch`, `src/checkpoints`, ...) | none | field and curve arithmetic, script extraction | write vectors |
| tools, research | logs | one-off checks; a regtest rig with a funder and a chain driver | - |

Hard behaviours. The export is one process, but what it reads changes under it: modules
are imported when it starts, hashed later, and their data is read later still, while a
run can take a quarter of an hour. It writes two files, one after the other, without
atomic replacement, and may be killed at any moment. Degraded exports (exit 2) leave
artifacts that later exports build on. The history is append-only but its meaning is
not: points count or not according to the rows, review statuses and standardness of the
export that reads it. In the graders the hazards are of another kind: mutated
transactions whose siblings must see the mutation, a fixpoint that must be least and
must terminate, and several derivations of one verdict that must agree.

What makes each component correct:

- **export**: a row's hash is the hash of what the row was measured on; exit 0 means
  publishable; exit 1 means nothing was written; exit 2 freezes history and frontier;
  exports converge; a repeated export writes nothing.
- **history**: only ever extended; its latest counting point on each track is the best
  row; it survives a kill between the two writes.
- **input hashing, audit**: every file a measurement reads is a dependency, or the audit
  fails.
- **benchmark**: the three verdicts (pass, label, correctness) agree; a hybrid of two
  proofs that the deployed transaction would reject is not counted as accepted.
- **contract**: an accepted scenario is a set of runs of one program, with really
  different proofs wherever generality is claimed.
- **gates, TXv5**: the transaction evaluated is the one the mutation describes; padding
  is sufficient, minimal, and the iteration ends.

## Modules

| module | models |
|---|---|
| `ScoreHistory` | ranking of rows, frontier, tracks, the push of `recordHistory`: pure operators |
| `IncrementalExport` | the export process, its files, the working tree around it |
| `PublishedFeed` | the abstract specification of `results.json`, `score-history.json` and the exit status |
| `InputClosure` | what goes into an input hash, the dependency audit, and the two after one another |
| `Spend` | a step of a run, its context, the transaction that `evaluatePair` builds for it |
| `ScenarioContract` | `assertRunShape`, `assertSameProgramRun`, `assertHonestRuns` |
| `Loaders` | the entries of `src/implementations`: their declarations and their `load()` |
| `TxSize` | overheads, score, number and size of transactions, beside their serialization |
| `ContractCheck` | one scenario: loaded, checked, measured |
| `Gates` | the runs derived from an honest one (flips, splices, attacks, claims, pads) |
| `Benchmark` | `benchmark()` phase by phase, the verdicts, the row of the feed |
| `Txv5Grade`, `Txv5Entry` | the TXv5 grade of one run; of an entry, with its summary |
| `MCExport`, `MCInputClosure`, `MCContract`, `MCBenchmark`, `MCTxv5Grade`, `MCTxv5Entry` | instances for TLC |
| `ExportProofs`, `FeedProofs` | theorems about the export |
| `InputClosureProofs`, `ContractProofs`, `BenchmarkProofs`, `Txv5Proofs` | theorems about the module in the name (`ContractProofs`: about `ContractCheck`) |
| `ScenarioProofs` | lemmas about runs, contract and fingerprints, for `ContractProofs` and `BenchmarkProofs` |
| `SumProofs` | lemmas about sums and about the sizes of encodings, for `Txv5Proofs` and `ContractProofs` |

Composition: `IncrementalExport` builds on `ScoreHistory` and implements `PublishedFeed`.
`ScenarioContract` builds on `Spend`, and both `Loaders` and `TxSize` on it;
`ContractCheck` puts these together. `Benchmark` builds on `Gates` and `TxSize` and
instantiates `ScoreHistory` to rank the row it computes. `Txv5Entry` runs the machine of
`Txv5Grade` once for every run of an entry.

### The export

`IncrementalExport` EXTENDS `ScoreHistory`. The correspondence with the code:

- **State on disk.** `file` is the content of every input (modules, vectors, fetched
  data, red-team files; `Missing` if absent), `registry` the ids in `REGISTRY`,
  `unranked` the ids `review-status.ts` marks withdrawn or archived, `outfile` and
  `hist` the two files the export writes. `Torn` is a file that does not parse.
- **The process.** `pc` is where `main` is: `import` (the static imports), `plan`
  (`planExport` and the check for absent rows), `run` (the loop over the planned runs and
  the two refusals after it), `record` (merged rows; the loop of `recordHistory`),
  `write` (the artifact). `loaded` is what was imported, `plan` / `hashed` the plans,
  `tracked` is `hashedFiles`, `fresh` / `failed` the results of the loop, `series` /
  `changed` / `tracks` the local variables of `recordHistory`. The memory is reset by
  `Exit`.
- **Actions.** `Start`, `Import`, `ImportFails`, `PlanExport`, `PlanFails`, `Run`,
  `RunFails`, `Refuse`, `Merge`, `Record`, `WriteHistory`, `WriteArtifact` are the steps
  of `main` in order; edits of the tree may fall between any two of them. A row's
  measurement is a function (`Outcome`) of the entry and the inputs read, or it throws
  (`Throws`); both are constants left open. A row carries as `measured` the inputs it was
  measured on: nothing in the model reads this field but `ResultsOf` (the numbers in the
  row) and the properties.
- **Hashes** are the hashed contents themselves, so they are equal exactly when the
  inputs are; a pinned file enters through its pin, a missing one as `Missing`, as in
  `contentHash`.
- **Modification times.** `touched` is the set of files whose mtime is later than
  `performance.timeOrigin`. Times are taken to be honest: an edit during the process is
  later than its start.
- **The environment.** `EditFile`, `RemoveFile`, `AddFile`, `EditRegistry`,
  `EditReviewStatus`, `Fetch` change the tree, `Kill`, `TearHistory`, `TearArtifact` end
  the process, the last two in the middle of `writeFileSync`. With the constant
  `InFlightRemoval = FALSE` files appear and disappear only between exports; edits of
  their contents happen at any time. The switch separates what the export guarantees
  from the gap reported below.
- **Ghosts.** `exit`, `clean` (nothing edited since the last start), `settled`,
  `before`, and the counters `edits`, `kills` that bound the environment.

Abstractions, and what they cost. The dependencies of an entry are fixed (constant
`Deps`): an edit changes contents, not imports. Each of the import and the hashing is one
step, so an edit in the middle of either is seen before or after it. Presentation
metadata is reduced to the one field an export may change on a carried row and a guard
reads, `ranked`. The reason text of the stale marker is a Boolean. `generatedAt` is one
bit, "differs from the artifact being replaced". An experiment (another outfile) and the
constant BSV anchors of the frontier are left out. The curves of one kind of track are
visited in any order, where the code uses the order of the rows. Harness sources, lock
file and toolchain are inputs like any other, in `Deps` of every entry.

### The published feed

`PublishedFeed` is what the readers of the two files are promised, without a word on how
rows are planned, measured or ranked. An export is *open* until it has settled the history,
then *checked* (no new record) or *extended* (records written); from there it can only
publish, degrade or die. `Refuse` leaves both files alone; `NoRecord` and `NewRecord` settle
the history, the latter by appending; `Publish` replaces the artifact by honest rows with
the frontier that belongs to them; `Degrade` writes honest or marked rows and keeps history and
frontier; `Die`, `TearHistory`, `TearFeed` are kills.

`IncrementalExport` instantiates it as `Published`: `feed <- outfile`, `history <- hist`,
`outcome <- exit`, `FrontierOf <- FrontierOfRows`, `InitFeeds <- InitOutfiles`, and
`phase <- Phase`, which is `idle` without a process, `extended` or `checked` at `pc =
"write"` by the value of `changed`, and `open` before. `PublishesFeed == Published!Spec` is
checked by the run `export` and proved in `FeedProofs`.

### Input hashing and the audit

`InputClosure` has the working tree (`tree`), whether the audit has passed since the last
edit, has been skipped, or is out of date (`audit`), and the row of each entry (`row`, with
the hash, what the measurement read, and the audit it followed).

- A code file is what it says (the files its specifiers resolve to, the paths of its
  literals) and what it does (what it reads when imported, on whose behalf, and when loaded).
  Saying and doing are independent: this is the reason for the audit.
- `EntryCode`, `HarnessModules`, `DependenciesOf`, `InputHashOf` are the static side of
  `input-hash.ts`, `Reads`, `LoadReads`, `Attributed`, `Check` the dynamic side, as
  `audit-deps.ts` traces it.
- `Edit` puts another version of any path into the tree, `AuditDeps` is a run of the audit
  that ends with status 0 (it is disabled otherwise, since nothing changes),
  `SkipDepsAudit` the variable of that name, `Export` one complete export (of which
  `IncrementalExport` has the steps), `ExportFails` one that throws.

`AuditedRowsStayTrue` says that a row measured right after a passed audit describes the tree
for as long as its hash does not change, whatever is edited after;
`AuditedExportIsCurrent` that an export of an audited tree leaves no row of anything else,
rows carried from unaudited exports included.

Left out: `existsSync` probes, dynamic imports of computed specifiers, and reads the tracer
does not see; the harness itself reads only the red-team file beyond what its code names
(`redteam.ts:71`). Versions of the toolchain are one more harness file. Red-team files are
never pinned. That a pinned file may be absent under `data/` is in `IncrementalExport`.

### Contract, loaders, sizes

`Spend` has the `Step` interface with its three contexts (`covenant`, `intraTx`, `grouped`)
and, for each, the transaction `evaluatePair` evaluates the step in (`Program`). Scripts,
commitments and categories are open values. `ScenarioContract` has the checks as predicates
that hold when nothing is thrown; their order is left out, since a caller learns no more than
that something threw, and so are run-time checks of types. `Loaders` gives of every entry the
structure, the locators of public inputs and proof, and the scenario its `load()` makes of the
contents of its files, with every optional part there or missing; entries with the same form of
files share an operator. `TxSize` has the arithmetic of `stepTxOverhead`, `runScore`,
`txCountOf` and `largestTxBytes`, and beside it the serialization of the transactions a
deployment would publish, from the transaction format.

`ContractCheck` is the machine: `LoadEntry`, `AssertHonestRuns`, `Measure`, with `entry`,
`case` (locators and scenario), `verdict` and `measure`. Its properties are stated over the
transactions, not over the checks:

- `RunsAreTransactions`: the steps of a run that passed, each evaluated in the context it
  declares itself, are the inputs of one list of transactions. `assertRunShape` compares
  contexts in pairs and by index; the property says these comparisons suffice.
- `OneProgram`: all honest runs spend the same lockings and tokens into the same outputs.
- `ClaimedProofsDiffer`: where generality is claimed no two runs carry one proof in two
  encodings; `OnlyRepeatsAreRefused`, its converse on what entries load; and
  `ProofIsNotStatement`, the locators of the proof and of the public inputs are disjoint.
- `EveryLoadedRunIsEvaluated`, `ThreadsContinue`, `StructureIsTransactions`: no loader
  loses a run; the token thread a covenant entry builds goes from step to step; the
  declared structure is what is loaded.
- `OverheadIsTheRest`, `EveryTransactionOnce`: overheads and scripts sum to the serialized
  transactions, and every transaction is counted once.

### Gates and the benchmark

`Gates` builds the runs that the harness derives from an honest one, with the replaced
unlocking in every sibling's context (`withUnlockings`), and their evaluation. The
machines are open: `Outcome(v, vm, program)`. An unlocking is a sequence of pushes.

`Benchmark` is one entry: `entry` (verifier, declarations, scenario, attack file), `phase`,
and `row`, what is known so far (`NoRow` before). One action per phase in the order of the
code: `Contract`, `Profile`, `Honest`, `Real`, `Invalid`, `Splice`, `Attack`, `Claims`,
`LengthenPads`, `Worst`, `Standard`, `Report`; an exception in any ends without a row. Beside it
stand the three derivations of a verdict: `Pass`, `VerdictOf` (command line) and `EntryOf`
(`CorrectnessOf`, `Blockers`: the feed).

- `GatesEvaluateTransactions`: every derived run is still a run of transactions, with the
  change seen by all siblings.
- `SampledSeamsAreBound`: when the gate over two proofs reports no accepted hybrid, every
  sampled seam is rejected by the deployed transaction, whichever input rejects.
- `ClaimsAreWhole`: a claim mutates a statement at all its places and nowhere else.
- `PassIsEarned`, `GeneralityIsShown`, `VerdictsAgree`: what `pass` and the generality
  label stand for in evidence, and that the three derivations agree.
- `RankedRowsAreSound`: no row that the export ranks has accepted what it should have
  rejected, and the best BCH row has been tried with a second proof at every seam. It puts
  `EntryOf` through the ranking of `ScoreHistory`.

### The TXv5 grade

`Txv5Grade` is `gradeRun` followed by `figureOf` on one run. Its state is the run,
where the code is (`pc`: `measure`, then the mode `minimalPadding` works for, `conclude`,
`report`, `done`), the slot of each input, the pad lengths and the turn of the loop
(`lens`, `iter`, local to `minimalPadding`), what `padFor` returned for each mode
(`padded`), the verdict `padding` and the figure. One action is one exit of `gradeRun`
(`AsShipped`, `Unfixable`, `RejectsPads`, `ConcludePadding`), one turn of the loop (`Grow`)
or one of its returns (`Rejected`, `Slotless`, `Replay`, `GiveUp`), or `figureOf`
(`Report`).

The virtual machine is left open: `Evaluate` is the VM with the budget lifted (accepted,
op-cost, hash iterations of an input in the transaction with given unlockings),
`RealAccepts` the verdict of the real one. An unlocking is known by its length and by the
pad it holds, so the transactions of the model are the shipped one with other pads. A
shipped pad is assumed to be minimally encoded (`grow` re-encodes it). `padLenFor` is
defined by where its two loops stop. The score and size of a transaction (`ScoreOf`) are
a function of the unlocking lengths. A null score is -1. Reasons and error texts are left
out, and `mode`, `standard` of the figure kept.

`Txv5Entry` is `txv5Grade` over the honest runs, or those of the variant an entry brings for
this grade: `Check` (the names of the variant's runs, its invalid runs), `GradeRun` (a step
of `Txv5Grade`), `NextRun`, `LastRun`, and `txv5Summary` as the operator `Summary`. That the
variant keeps to the contract is checked by the operators of `ScenarioContract`. Every
`gradeRun` is a pure call: nothing is carried from one run to the next but its figure.

## Runs

| run | expected | checks |
|---|---|---|
| `export` | pass | `TypeOK`, `FailureLeavesNoTrace`, `NoopLeavesArtifact`, `SuccessAgrees`, `HistoryOnlyGrows`, `PublishesFeed` from every tree, four modes, one edit and one kill anywhere |
| `export_edits` | pass | `RowsMeasureTheirHash`, `StaleMarkerIsExact` with three edits anywhere |
| `export_modes` | pass | `SuccessIsCurrent`, `DegradedFreezes` under all settings of the variables, with an omitted third entry |
| `export_liveness` | pass | `Converges` under fairness |
| `input_closure` | pass | `AuditedRowsStayTrue`, `AuditedExportIsCurrent` with two edits among audits and exports |
| `contract` | pass | the ten properties of `ContractCheck` above, on loaded entries and on generated scenarios |
| `benchmark` | pass | the seven properties of `Benchmark` above |
| `txv5_grade` | pass | `TypeOK`, `PaddingIsLeast`, `StandardPadsMore`, `FigureIsMeasured`, `NeedIsLeast`, `SummaryShowsTheWorst`, `EveryEntryIsGraded` |
| `removal_in_flight` | violation | `RowsMeasureTheirHash` with `InFlightRemoval = TRUE` |
| `torn_history` | violation | `UnreadableHistoryIsKept` ("append-only", `export-json.ts:252`, `README.md:119`) |
| `txv5_invalid` | violation | `InvalidIsUnfixable` (`txv5.ts:432`) |
| `tx_size_standard` | violation | `StandardRunsFit` (`benchmark.ts:349`) |

Bounds of the export. All instances have two entries (three in `export_modes`): entry 1
with a module and a red-team file, entry 2, the slow one (`SKIP_IMPLS`), with a module and
a fetched, pinned data file. Each input has two contents. The outcomes are chosen so that
an edit can make entry 1 non-standard and smaller, unsound, or unable to load, and entry 2
fitting or an over-limit singleton, so that every kind of track, the exclusion of unsound
rows and the reclassification of old points happen. The red-team file starts absent.
`MaxEdits` and `MaxKills` bound what the environment does over a whole behaviour;
the number of exports is not bounded. A wrong hash needs two edits at most (one between
import and hash, one after), so three edits leave room for the tree to return to what it
was; one kill is what separates the two writes of one export, and the exports that follow
it are unbounded. Two entries are enough for one to run while the other is carried, stale
or failing; the third adds an entry the feed omits but shares a module.

Bounds of `input_closure`. Two entries, a helper, one harness file and data of every kind:
named, not named, pinned, a directory, a file that holds the path of another, a red-team
file. `MaxEdits = 2` (three edits pass as well, in about four minutes): one edit before and one
after an audit is what a wrong row takes. Audits and exports are not bounded.

Bounds of `contract`. All 92 entries are loaded. Generated scenarios have up to three honest
runs of up to three steps with each kind of context, each well formed or changed in at most
two places, which is what it takes for one change to hide another from a pairwise
comparison; lengths of scripts, commitments and outputs lie on both sides of each varint
boundary. The number of inputs of a transaction stays below 253. A tampered covenant step is
evaluated in isolation, as in the code.

Bounds of `benchmark`. Verifiers of two or three chunks in every structure: sound ones, and
ones that forget to bind an input, a stage, the proof, a pad or a public input, or that a
real machine or a relay rule refuses; with every declaration an entry may make, second
proofs, invalid runs, attack files and pads there or missing. Two or three chunks give
a first, a last and an inner seam.

Bounds of `txv5_grade`. The runs of `MCTxv5Grade` have two inputs, enough for each to read
the other. `PairRuns` pairs 29 kinds of inputs: with a byte to spare, without, or a byte
short; with and without a shipped pad; taking pads in one slot, both, or none; charged
nothing, one, half a byte's budget or a whole byte's budget for each pad byte of the other;
with the pad landing on either side of 75/76 bytes, where the push header widens. Two
inputs charged a whole byte each never settle, so the bound of 64 turns is met. `LimitRuns`
adds the cap on an unlocking, hash iterations, a failure no padding repairs, and
transactions at the relay limit. The padding found is compared with every choice of the
lengths in `PadLens`. Entries have one to three runs, in every order of figures that differ
in kind, cost and relayability, with variants that represent the entry and that do not.

Fairness. An export that is started runs to its end unless it is killed (`WF` of the
steps of `main`, a sequential program whose runs terminate); somebody starts the default
export again and again and fetches the data files (`SF`, since both can be disabled by a
running export). Nothing forces edits, kills or the other modes: `Converges` asks for a
current artifact only if the tree is left alone for good in a state every entry can be
measured in. Grading an entry is a sequential program without waiting: `WF` of its next
step (`EveryEntryIsGraded`).

Deadlock is checked in the runs of the export and of the closure, which never end. The
machines of one entry (`contract`, `benchmark`, `txv5_*`) stop when it is done.

### Findings

Each has a run whose counterexample shows it.

1. **Files that appear during an export are not noticed** (`removal_in_flight`). The
   absence of a red-team file goes into the hash, but an absent file is not among the
   tracked ones, and a tracked file that has been deleted is skipped (`input-hash.ts:311`).
   A red-team file created between hashing and run is measured, and the row is stored under
   the hash without it; the next export re-runs it, because the hash then differs.
2. **A torn history is silently replaced** (`torn_history`). `loadHistory` returns the
   empty history when the file does not parse; the next export writes one point per track
   and exits 0.
3. **"Invalid" runs that padding can fix** (`txv5_invalid`). Which inputs get a pad slot is
   decided on the shipped run (`txv5.ts:297`). If padding one input makes a sibling fall
   short that had just enough, the sibling has no slot and the run is reported as
   "invalid", null score.
4. **The size check leaves out a group's successor locking** (`tx_size_standard`).
   `largestTxBytes` sums unlockings and overheads, and the overhead of a token output
   (`benchmark.ts:164-173`) does not hold the successor's locking: a group may pass for
   relayable while its transaction is over 100,000 bytes. For a covenant step its own
   locking is added instead (`benchmark.ts:245`), for a group nothing.

Smaller disagreements between the code and what is said of it, met on the way. The models
follow the code; no run is spent on them.

- `export-json.ts:230` says that slow entries without a usable artifact are "absent, which
  fails below"; with an unreadable artifact they are run. The header (`145-147`) says a
  degraded export never computes a frontier from reduced rows; without a previous frontier
  it does.
- An entry whose invalid run is accepted is 'fail' in the feed, a hard defect
  (`entry.ts:79-81`); the command line calls it "valid-only (required fixture evidence
  missing)" (`benchmark.ts:673`, `687`). `VerdictsAgree` is stated with this in mind. The
  'fail' of `verdictOf` is unreachable: a failing valid run is an 'extra-proof-fail'.
- `docs/benchmark.md:93-95` says invalid runs are given "and/or" derived by flips; a loader
  that gives any gets no flips (`??` at `benchmark.ts:502`), also if it says `tamperable`
  (`bch-vkx-chunked-shamir.ts:116`).
- The staple evaluates only inputs before a seam, because "introspection is forward"
  (`benchmark.ts:286-297`); `types.ts:57` has chunks that read `idx±1`. A verifier that reads
  backwards only is reported unbound though its transaction is rejected: the gate is too
  strict there, never too lax (`SampledSeamsAreBound`).
- `entry.ts:39` says that an incompatible row never has an empty list of blockers; it has
  one if the real machine accepts and the unlimited one does not, as `bchCompatible` asks
  for `validPassed` too (`benchmark.ts:495`).
- `benchmark.ts:343` calls standardness strictly stronger than `bchCompatible`; the former
  uses the entry's BSV rule (`368-371`), the replay on the real machine does not.
- A token without a commitment is charged a length byte, in the overheads only.
- The contract looks at honest runs. Invalid runs may be of another program (`lockingBAD` of
  the `vkx-singletons` loader is), and the continuity of a token thread is left to the
  generators; the vectors of `vkx-bls12381-chunked-covenant` have the step's own locking as
  successor, which `successor-corrected` repairs on loading.
- `bch-vkx-bls12381-successor-corrected.ts:35` reads a computed path, which the static
  closure cannot see and the audit would report. It is not in `REGISTRY`.

## Proofs

`ExportProofs` proves, for every value of the constants that satisfies the assumptions of
the two modules:

- `TypeCorrect`: `TypeOK`. It needs `PlanOK`: only an id with a previous row is planned
  as carried or stale, because the merge reads that row, and planning throws otherwise.
- `HistoryGrows`: `HistoryOnlyGrows`. While points are pushed, the series in memory
  extends the file (`SeriesExtends`): it starts as what `loadHistory` read, every push
  appends (`PushAppends`), and nobody else writes the file.
- `RowsMatch`: `RowsMeasureTheirHash`, if `InFlightRemoval = FALSE`. The inductive
  invariant `HashInv` says that at every step a difference between the imported module,
  the hashed content and the content now is *noticed*: the file is tracked, exists, and
  is newer than the process. `Refuse` and `Merge` are complementary on exactly this, so
  after the merge no difference is left. The property alone is not inductive: it says
  nothing of rows in memory.
- `FailuresLeaveNoTrace`, `DegradedExportsFreeze`: from `FreezeInv`, which says until
  when the two files are those the process started with.

`Txv5Proofs` proves about the grade, for any number of inputs and any pads:

- `PaddingMinimal`: `PaddingIsLeast`. The invariant `LeastInv` compares `lens` with every
  choice of lengths (not only those TLC enumerates) that gives each input its budget. An
  input grows only if it is short; the length asked for is a threshold
  (`NeededIsThreshold`), it is no larger than what the bigger choice asks for
  (`NeededGrows`), and `padLenFor` returns the first length that reaches it
  (`PadLenForIsFirst`, across the steps of the push header), so growth stays below
  (`GrowthStaysLeast`).
- `StandardMore`: `StandardPadsMore`. `PaddedInv` remembers of a padded mode that its pads
  were least and sufficient; what suffices for standard suffices for consensus, and the
  consensus pads are least.
- `FigureMeasured`: `FigureIsMeasured`. The case that is not immediate: a consensus figure
  says it is not relayable because the *standard* pads break a relay limit. If the
  consensus pads were valid in standard mode they would be sufficient there, so both
  would be least, hence equal.
- `NeedExact`: `NeedIsLeast`.
- `GradeTyped`: `TypeOK`. What is not immediate is the bound on the lengths asked for: every
  budget has a length that reaches it, and what an estimate adds is a sum of such lengths
  (`SumProofs`).
- `EntryTyped`, `EntryGrades`, `WorstIsShown`: the same of all the runs of an entry, one
  after the other, and `SummaryShowsTheWorst` from it. `NextRun` starts the next run as
  `Init` starts the first (`RestartIsInit`), so what is inductive for one run is inductive
  for all of them; the summary is then a matter of what a list of figures contains
  (`SummaryIsFair`).

Their hypotheses on the open VM are named at the end of `Txv5Grade`: `MeasuresTyped` and
`ScoresTyped`, the types of what is measured and scored;
`UseGrows`, longer pads never make an input cheaper; `StandardIsStricter`;
`BudgetIsEnforced`, the real VM enforces the density limits on what the unbudgeted one
measures. The source takes the middle two for granted in comments (header of `txv5.ts`,
`figureOf`); a script that reads less because a sibling is longer would break `UseGrows`
and with it minimality.

`FeedProofs` proves `ExportPublishesFeed`: `PublishesFeed`, if `InFlightRemoval = FALSE`.
`FeedInv` adds to the invariants of `ExportProofs` what the mapping needs: `SeriesInv` (the
series in memory is the history on disk, longer exactly if `changed`) and `RowsInv` (what
the plan carries unmarked has a hash, what is fresh is unmarked). One step of the proof per
action; those before the history is settled stutter.

`FeedProofs` also proves `SuccessCurrent`, `MarkersExact`, `SuccessAgreement` and
`NoopLeaves`, the four state properties of the export with a past in them, under the same
condition. `CleanInv`: as long as nothing is edited, the plan is of the inputs of now.
`RecordedInv`: the tracks that `recordHistory` has visited have a latest point with the score
of their best row, and later pushes leave them so, since two tracks never claim one point.
`DoneInv` is what is left of the two when the process has ended, `SettledInv` what the next
process makes of it.

`InputClosureProofs` proves both properties of `InputClosure`, for any tree and any number
of edits. `AuditCovers`: if the audit passes, everything an entry reads is hashed for it.
`SameHashSameSeen`: two trees with equal hashes of an entry have the same code for it, hence
the same reads, hence, if covered, the same contents. `IInv` says that every
row comes from a tree with its hash and its reads, and that these were covered if it is
audited. The assumptions (`CodeAssumption`, `PathsAssumption`, `TreesAssumption`) say that
code files hold code, that who reads at import is the module or one it imports, and that
pinned and red-team files are data.

`ContractProofs` proves every property of `ContractCheck`, for any number and length of
runs. The hypotheses are on what is given at the start, the contents of the files or a
scenario that is checked as it is; most theorems stand together at the end of the module.

- `NoneIsAbsent`, for the constants: an absent field is not a number, a token, a context, a
  covenant or a right.
- `TypedFiles`: the entry is one of the registry or of the candidates, the parts of the
  files it reads are lists, and the groups of a run are its steps (`WholeFiles`).
- `TypedInput`: `TypedFiles`, and the raw steps have the types their files declare (rights
  of tokens, numbers of groups, tokens of single inputs: `TypedRaw`); a scenario that is
  given has the types of the interfaces.

That what a loader makes of typed files is a scenario of typed steps, whatever the context
they are woven into, is `LoadIsTyped`; `CaseIsSubject`, that the scenario under check is the
loaded one for as long as it is there. `PassedIsChecked`: nothing but a scenario that
`assertHonestRuns` accepted is marked as returned. `OneProgramAlways`,
`RunsAreTransactionsAlways` and `ClaimedProofsDifferAlways` need no more than `NoneIsAbsent` and
`TypedInput`. The contract names the members of a group by what they declare and requires them
to follow each other; that they are one transaction needs the first of them, a least element,
taken from the well-founded order of finite sets.

It also proves the accounting. `OverheadIsTheRestAlways`: by cases of who carries the envelope
(a step of its own, the first of a transaction of all steps, the last of a group), what the
steps of a transaction are charged is the length of its serialization plus what `BareTokens`
says (`TransactionIsPaid`). `EveryTransactionOnceAlways`: the sum over the steps is the sum
over the transactions, since every step has exactly one first among its mates. They add
`SizedInput`: locking, unlocking and commitment of a step are shorter than 2^28 bytes, so that
the lengths of a step stay below the 2^32 at which a length takes nine bytes. The vectors hold
them in hexadecimal strings, which the engine limits to 2^29 characters. `SumProofs` proves
what is needed of `SumFunction` from the fold theorems of the library (a sum split in two,
regrouped, compared term by term) and how the size of a length prefix grows.

`EveryLoadedRunIsEvaluatedAlways` is about the loaders, for files of any size. One lemma for
every form of `load` (`RunsAreEvaluated`, `ChainIsEvaluated`, `SingletonIsEvaluated`, ...)
shows that what it puts together are runs whose contexts hold the steps themselves, whether
they come from `toRun`, are wrapped one by one, or are tampered with afterwards; and
`EntriesAreKnown` goes through every entry of the registry and of the candidates and finds its
declaration to be of one of these forms. `TypedFiles` is the hypothesis. That a selection from
a list and the joined lists of invalid unlockings are lists is in the hypothesis because
`SelectSeq` and `FlattenSeq` are defined by recursion, out of reach of induction here; every
case of the run `contract` satisfies it.

`ThreadsContinueAlways` and `StructureIsTransactionsAlways` are about the same loaders.
`LoadIsMadeAlike` goes through the forms once more and finds every honest run of a scenario
to be woven, in the way of the primary run, from a raw run of the files (`HonestRaws`), or to
be steps without contexts. What the weaving does is then proved once for each context:
`GroupsContinue` and `CovenantsContinue` carry the agreement of two neighbouring raw records
to the output of one transaction and the input of the next; `IntraTxIsCounted`,
`GroupsAreCounted` and `AloneIsCounted` say how many transactions come out. What the code
takes from the files as it finds it is a further hypothesis, stated on the raw records.
`ThreadFiles`: a record hands on the category and the commitment the next one takes in, and
names its locking and its rights. `CountedFiles`: the files of an entry of several
transactions have more than one step, or more than one group. No file is read by `runScore`
before it is woven, so neither hypothesis mentions a transaction.

`OnlyRepeatsAreRefusedAlways` is the converse of the theorems on what passed. Two raw runs
that are alike are woven into two runs of the same shape and the same program
(`LoadIsOneProgram`): `GroupsHaveAShape` and `WovenGroupsAreOneProgram`,
`IntraTxRunsAreOneProgram` and `ChainsAreOneProgram` say so for each context, and
`BareScenarios` for steps without one. Of what `HonestRuns` demands only the fingerprints are
left to fail, and of equal fingerprints of found proofs the proofs are equal
(`SameFingerprintSameProof`, in `ScenarioProofs`). It adds two hypotheses. `ProgramFiles`:
the raw runs of an entry differ only in unlockings and commitments, their groups are numbered
in their order and have tokens for all their inputs or for none, and a thread has its token
in all steps or in none. `FoundInput`: what an entry declares to be its proof is in every one
of its runs. In some states of `contract` the contract does throw.

`ProofIsNotStatementAlways` goes through the registry and the candidates: where an entry says
that its proof is, no byte of a public input is, and no two of its inputs share a byte or a
push. Whole pushes are compared by their positions (`NumbersAreApart`), fields of one push by
their distances (`FieldsAreApart`), packed proofs before, between or behind the fields
(`FieldsOfCompressedProof`, `FieldsBefore`, `GenesisIsDeclared`). Its hypothesis is that the
entry is one of the code's and that an absent offset is not a number, without which a whole
push could not be told from a field at an offset.

Of every one of the 26,062 initial states of `contract` TLC, given the definitions of
`ContractProofs` as invariants, finds all these hypotheses on files, sizes and scenarios to
hold: they exclude nothing the run explores.

The lemmas on one run and on two (what a well shaped run is evaluated as, what runs of one
program share, when fingerprints are equal) are in `ScenarioProofs`.

`BenchmarkProofs` proves `PassEarned`, `VerdictsAgreement`, `RankedSoundness`,
`GeneralityShown`, `SeamsBound`, `GatesSound` and `ClaimsWhole` for any verifier, machines
and declarations. `RowInv` lists what each phase establishes and says it stays so after the
phase: the verdicts are computed at the end, from evidence of all the phases before.
`WellFormed` is the hypothesis: the types of the declarations, finite lists, and that an
absent field is neither a context nor a run.

- `GeneralityShown`, `SeamsBound` and `GatesSound` add `TypedScenario`, the types of steps,
  locators and extra proofs: they rest on the contract, which compares them. `GatesSound`
  shows that `WithUnlockings` keeps the shape of a run, for one transaction, for groups and
  for single inputs in turn (`ReplacedIntraTx`, `ReplacedGroups`, `ReplacedSole`), so that
  `ShapedRunsAreTransactions` applies to what the gates evaluate, and that the patches of an
  attack are such a replacement (`PatchesReplace`, which needs that `redTeam` has not
  thrown). Its hypothesis `ContextsAreThere` says that a context is not an absent field.
- `ClaimsWhole` adds `TypedSlots` instead. The digits of a number sum back to it
  (`DigitsUpTo`), so a field read after it was written, in either byte order, is what was
  written (`FieldOfWritten`); a slot written afterwards leaves the others
  as they are (`NextSlotWritten`); so after the last slot every slot holds its claim, and
  every claim differs from the declared inputs (`CandidatesDiffer`). `TypedSlots` holds that
  no two declared slots share a push or a byte of one (`SlotsApart`; nothing in `gates.ts`
  checks it, and of two overlapping slots the first would not hold the claim), that a number
  or bytes written as a push are read back from it, that the order of the curve is positive,
  and what exponentiation is (`RadixPowers`), for which the provers have no axiom.

The entries of the run `benchmark` satisfy these hypotheses, and most of them declare slots.

The invariants of `ExportProofs` and `FeedProofs` were checked with TLC on
the instances above before they were proved; those of `Txv5Proofs` quantify over all
lengths, and TLC checks what follows from them. The assumptions named in `ScoreHistory` and
`IncrementalExport` that carry content say that data, code and red-team files are disjoint,
that pinned files are data files, and that the artifacts found before the first export
carry no input hashes.

Every invariant and action property that a run checks is stated by one of these theorems.
Only model-checked: `Converges` and `EveryEntryIsGraded`, liveness under fairness and out of the
prover's reach, as are `ENABLED` and induction over recursively defined data.

## Not modelled

- Big-integer arithmetic, the virtual machines of libauth, script generation and
  extraction, the vector files, and the cost models of `research/` are computations over
  data out of reach of a model checker; the components above take their results as
  constants.
- `adversarial.ts` builds invalid runs for loaders, by arithmetic on points and proofs.
- `main` and `computeResults` of `benchmark.ts` select entries and print tables.
- `tools/` are one-off checks of single artifacts; they keep no state.
- The research rigs: node clients that time scripts or mine on a private regtest chain, with
  a funder and a chain driver. They are measurements, and restarted by hand.
- The site that consumes `results.json` is another repository.

## Plan

Done, in this order: the export with its history; the TXv5 grade; input hashing and audit;
the abstract feed; contract, loaders and sizes; gates and benchmark; TXv5 per entry; the
theorems above.

Left:

1. A composition of `InputClosure` with `IncrementalExport`, in which `Deps` changes with
   the contents.
2. `FundingRig`: funder and chain driver of the research rigs.
