----------------------------- MODULE FeedProofs -----------------------------
(***************************************************************************)
(* What the readers of the artifact get.  The incremental export           *)
(* implements the published feed (PublishedFeed): every step of the        *)
(* process, of a kill or of an edit is a step of the abstract feed or      *)
(* leaves it alone.  And what exit status 0 means: the artifact is that of *)
(* the working tree, its rows, frontier and history agree, and exporting   *)
(* again changes nothing.  The latter holds for as long as nothing is      *)
(* edited; what is edited while an export runs is the concern of the       *)
(* refinement and of RowsMatch.                                            *)
(***************************************************************************)
EXTENDS ExportProofs

(* The series in memory against the history file: longer by what was pushed *)
(* while it is recorded, the same once it is written.                       *)
SeriesInv ==
    /\ pc = "record" =>
          /\ IsExtensionOf(series, LoadHistory)
          /\ IF changed THEN Len(series) > Len(LoadHistory) ELSE series = LoadHistory
    /\ pc = "write" => series = LoadHistory

(* What is carried unmarked has a hash; what is fresh is unmarked, has a    *)
(* hash and the review status that was loaded.                              *)
RowsInv ==
    pc \in {"run", "record", "write"} =>
        \A i \in Ids :
            /\ plan[i] = "carry" => PreviousRows[i].hash # NoHash
            /\ fresh[i] # NoEntry =>
                  /\ fresh[i].hash # NoHash /\ ~fresh[i].stale
                  /\ fresh[i].ranked <=> Ranked(i)

FeedInv == SeriesInv /\ RowsInv

LEMMA InitFeedInv == Init => FeedInv
  BY DEF Init, FeedInv, SeriesInv, RowsInv

-----------------------------------------------------------------------------
(* One turn of recordHistory keeps the series longer than the file exactly  *)
(* if a point was pushed.                                                   *)
LEMMA RecordSeries ==
    ASSUME Typed, SeriesInv, NEW t \in Track, Record(t)
    PROVE  SeriesInv'
  <1> DEFINE e == ResultsOf(Merged)
  <1>1. /\ pc = "record" /\ pc' = "record" /\ LoadHistory' = LoadHistory
        /\ IsExtensionOf(series, LoadHistory)
        /\ IF changed THEN Len(series) > Len(LoadHistory) ELSE series = LoadHistory
    BY DEF Record, SeriesInv, LoadHistory
  <1>2. CASE UNCHANGED <<series, changed>>
    BY <1>1, <1>2 DEF SeriesInv
  <1>3. ASSUME NEW b \in Best(e, loaded.unranked, t),
               series' = Push(series, e, loaded.unranked, t, b),
               changed' = (changed \/ ~Known(series, e, loaded.unranked, t, b))
        PROVE  SeriesInv'
    <2>1. e \in Entries /\ series \in Seq(Point) /\ LoadHistory \in Seq(Point)
      BY <1>1, MergedType, ResultsType, LoadHistoryType DEF Typed, TypeOK
    <2>2. CASE Known(series, e, loaded.unranked, t, b)
      <3>1. series' = series /\ (changed' <=> changed)
        BY <1>3, <2>2 DEF Push
      <3> QED
        BY <1>1, <3>1 DEF SeriesInv
    <2>3. CASE ~Known(series, e, loaded.unranked, t, b)
      <3>1. series' = Append(series, PointOf(e, t, b)) /\ changed'
        BY <1>3, <2>3 DEF Push
      <3>2. PointOf(e, t, b) \in Point
        BY <2>1, BestType DEF PointOf, Point, Result
      <3>3. IsExtensionOf(series', LoadHistory)
        BY <1>1, <2>1, <3>1, <3>2, AppendExtends
      <3>4. Len(series') = Len(series) + 1 /\ Len(series) >= Len(LoadHistory)
        BY <1>1, <2>1, <3>1, <3>2 DEF IsExtensionOf
      <3>5. Len(series') > Len(LoadHistory)
        BY <3>4, <2>1
      <3> QED
        BY <1>1, <3>1, <3>3, <3>5 DEF SeriesInv
    <2> QED
      BY <2>2, <2>3
  <1> QED
    BY <1>2, <1>3 DEF Record

LEMMA SeriesStep == Typed /\ FreezeInv /\ SeriesInv /\ [Next]_vars => SeriesInv'
  <1> SUFFICES ASSUME Typed, FreezeInv, SeriesInv, [Next]_vars
               PROVE  SeriesInv'
    OBVIOUS
  <1>1. CASE Merge
    <2>1. /\ pc' = "record" /\ series' = LoadHistory /\ LoadHistory' = LoadHistory
          /\ ~changed'
      BY <1>1 DEF Merge, LoadHistory, FreezeInv, BeforeInv
    <2> QED
      BY <2>1, LoadHistoryType, ExtendsItself DEF SeriesInv, Typed
  <1>2. ASSUME NEW t \in Track, Record(t)
        PROVE  SeriesInv'
    BY <1>2, RecordSeries
  <1>3. CASE WriteHistory
    <2>1. pc' = "write" /\ series' = series /\ series \in Seq(Point)
      BY <1>3 DEF WriteHistory, Typed, TypeOK
    <2>2. CASE changed
      <3>1. hist' = series
        BY <1>3, <2>2 DEF WriteHistory
      <3>2. LoadHistory' = series
        BY <2>1, <3>1, FileValuesAssumption DEF LoadHistory, Readable
      <3> QED
        BY <2>1, <3>2 DEF SeriesInv
    <2>3. CASE ~changed
      <3>1. LoadHistory' = LoadHistory /\ series = LoadHistory
        BY <1>3, <2>3 DEF WriteHistory, SeriesInv, LoadHistory
      <3> QED
        BY <2>1, <3>1 DEF SeriesInv
    <2> QED
      BY <2>2, <2>3
  <1>4. CASE Environment \/ UNCHANGED vars
    <2>1. UNCHANGED <<pc, series, changed, hist>>
      BY <1>4 DEF Environment, EditFile, RemoveFile, AddFile, Fetch, EditRegistry,
                  EditReviewStatus, Edited, process, vars
    <2> QED
      BY <2>1 DEF SeriesInv, LoadHistory
  <1>5. CASE \/ \E m \in Modes : Start(m)
             \/ Import \/ ImportFails \/ PlanExport \/ PlanFails \/ Refuse \/ WriteArtifact
             \/ \E i \in Ids : Run(i) \/ RunFails(i)
             \/ Kill \/ TearHistory \/ TearArtifact
    <2>1. pc' \notin {"record", "write"}
      BY <1>5 DEF Start, Import, ImportFails, PlanExport, PlanFails, Refuse, WriteArtifact,
                  Run, RunFails, Kill, TearHistory, TearArtifact, Exit
    <2> QED
      BY <2>1 DEF SeriesInv
  <1> QED
    BY <1>1, <1>2, <1>3, <1>4, <1>5 DEF Next, Export

(* Planning carries no row of unknown inputs.                               *)
LEMMA PlanRows ==
    ASSUME Typed, FreshNoticed, PlanExport
    PROVE  RowsInv'
  <1>1. fresh' = NoRows
    BY DEF PlanExport, FreshNoticed
  <1>2. ASSUME NEW i \in Ids, plan'[i] = "carry"
        PROVE  PreviousRows'[i].hash # NoHash
    <2>1. PlanOf(i) = "carry" /\ PreviousRows' = PreviousRows
      BY <1>2 DEF PlanExport, PreviousRows
    <2>2. i \in Feed
      BY <2>1 DEF PlanOf
    <2>3. ~PlanThrows(i)
      BY <2>2 DEF PlanExport, PlanRefused
    <2>4. ~Outdated(i)
      BY <2>1 DEF PlanOf, LeftAlone
    <2>5. PreviousRows[i].hash = HashNow(i)
      BY <2>1, <2>3, <2>4, PlanOfCarries DEF Outdated
    <2> QED
      BY <2>1, <2>5, HashNowType, RowAssumption DEF Typed
  <1> QED
    BY <1>1, <1>2 DEF RowsInv, NoRows

LEMMA RowsInvStep == Typed /\ FreshNoticed /\ RowsInv /\ [Next]_vars => RowsInv'
  <1> SUFFICES ASSUME Typed, FreshNoticed, RowsInv, [Next]_vars
               PROVE  RowsInv'
    OBVIOUS
  <1>1. CASE PlanExport
    BY <1>1, PlanRows
  <1>2. ASSUME NEW j \in Ids, Run(j)
        PROVE  RowsInv'
    <2>1. pc = "run" /\ UNCHANGED <<plan, outfile, loaded>>
      BY <1>2 DEF Run
    <2>2. PreviousRows' = PreviousRows
      BY <2>1 DEF PreviousRows
    <2>3. /\ fresh'[j].hash = hashed[j] /\ ~fresh'[j].stale
          /\ fresh'[j].ranked <=> Ranked(j)
      BY <1>2 DEF Run, Typed, TypeOK, Rows
    <2>4. hashed[j] # NoHash
      BY RowAssumption DEF Typed, TypeOK
    <2>5. \A i \in Ids : i # j => fresh'[i] = fresh[i]
      BY <1>2 DEF Run, Typed, TypeOK, Rows
    <2>6. \A i \in Ids : Ranked(i)' <=> Ranked(i)
      BY <2>1 DEF Ranked
    <2> QED
      BY <2>1, <2>2, <2>3, <2>4, <2>5, <2>6 DEF RowsInv
  <1>3. CASE UNCHANGED <<plan, fresh, outfile, loaded>> /\ (pc' \in {"run", "record", "write"} =>
                                                             pc \in {"run", "record", "write"})
    BY <1>3 DEF RowsInv, PreviousRows, Ranked
  <1>4. CASE \/ \E m \in Modes : Start(m)
             \/ Import \/ \E i \in Ids : RunFails(i)
             \/ Merge \/ \E t \in Track : Record(t)
             \/ WriteHistory \/ Environment \/ UNCHANGED vars
    <2>1. CASE \E m \in Modes : Start(m)
      BY <2>1 DEF Start, RowsInv
    <2>2. CASE Import
      BY <2>2 DEF Import, RowsInv
    <2>3. CASE \E i \in Ids : RunFails(i)
      BY <1>3, <2>3 DEF RunFails
    <2>4. CASE Merge
      BY <1>3, <2>4 DEF Merge
    <2>5. CASE \E t \in Track : Record(t)
      BY <1>3, <2>5 DEF Record
    <2>6. CASE WriteHistory
      BY <1>3, <2>6 DEF WriteHistory
    <2>7. CASE Environment
      BY <1>3, <2>7 DEF Environment, EditFile, RemoveFile, AddFile, Fetch, EditRegistry,
                        EditReviewStatus, Edited, process
    <2>8. CASE UNCHANGED vars
      BY <1>3, <2>8 DEF vars, process
    <2> QED
      BY <1>4, <2>1, <2>2, <2>3, <2>4, <2>5, <2>6, <2>7, <2>8
  <1>5. CASE \/ ImportFails \/ PlanFails \/ Refuse \/ WriteArtifact
             \/ Kill \/ TearHistory \/ TearArtifact
    BY <1>5 DEF ImportFails, PlanFails, Refuse, WriteArtifact, Kill, TearHistory,
                TearArtifact, Exit, RowsInv
  <1> QED
    BY <1>1, <1>2, <1>4, <1>5 DEF Next, Export

-----------------------------------------------------------------------------
(* The artifact that is written                                             *)

(* Ranking by the statuses loaded and by those stamped on the rows agree.   *)
LEMMA FrontierByStamps ==
    ASSUME Typed, RowsInv, pc = "write"
    PROVE  Frontier(ResultsOf(Merged), loaded.unranked) = FrontierOfRows(Merged)
  <1> DEFINE e == ResultsOf(Merged)
             U == {i \in Ids : Merged[i] # NoEntry /\ ~Merged[i].ranked}
  <1>1. ASSUME NEW i \in Ids, Merged[i] # NoEntry
        PROVE  Merged[i].ranked <=> Ranked(i)
    <2>1. CASE plan[i] = "run"
      BY <1>1, <2>1 DEF Merged, RowsInv
    <2>2. CASE plan[i] \in {"carry", "stale"}
      <3>1. PreviousRows[i] \in Row
        BY <2>2, PreviousRowsType DEF Typed, PlanOK, Rows
      <3> QED
        BY <2>2, <3>1 DEF Merged, Row
    <2>3. CASE plan[i] \in {"absent", "none"}
      BY <1>1, <2>3 DEF Merged
    <2> QED
      BY <2>1, <2>2, <2>3 DEF Typed, TypeOK, Action
  <1>2. \A i \in Present(e) : i \in Ids /\ Merged[i] # NoEntry
    BY DEF Present, ResultsOf
  <1>3. \A i \in Present(e) : i \in U <=> i \in loaded.unranked
    BY <1>1, <1>2 DEF Ranked
  <1>4. Active(e, U) = Active(e, loaded.unranked)
    BY <1>3 DEF Active
  <1> QED
    BY <1>4 DEF FrontierOfRows, Frontier, Leader, BestBchNative

(* Marked rows are those of the artifact replaced; without any, every row   *)
(* has a hash.                                                              *)
LEMMA MergedRows ==
    ASSUME Typed, RowsInv, pc = "write", NEW i \in Ids, Merged[i] # NoEntry
    PROVE  /\ plan[i] # "stale" => Merged[i].hash # NoHash /\ ~Merged[i].stale
           /\ plan[i] = "stale" =>
                 /\ Merged[i].stale
                 /\ Readable(outfile) /\ outfile.rows[i] # NoEntry
                 /\ outfile.rows[i].hash = Merged[i].hash
                 /\ outfile.rows[i].measured = Merged[i].measured
  <1>1. CASE plan[i] = "run"
    BY <1>1 DEF Merged, RowsInv
  <1>2. CASE plan[i] \in {"carry", "stale"}
    <2>1. PreviousRows[i] \in Row
      BY <1>2, PreviousRowsType DEF Typed, PlanOK, Rows
    <2>2. Readable(outfile) /\ PreviousRows[i] = outfile.rows[i] /\ outfile.rows[i] # NoEntry
      BY <2>1, RowAssumption DEF PreviousRows, NoRows
    <2>3. CASE plan[i] = "carry"
      BY <2>1, <2>3 DEF Merged, Row, RowsInv
    <2>4. CASE plan[i] = "stale"
      BY <2>1, <2>2, <2>4 DEF Merged, Row
    <2> QED
      BY <1>2, <2>3, <2>4
  <1>3. CASE plan[i] \in {"absent", "none"}
    BY <1>3 DEF Merged
  <1> QED
    BY <1>1, <1>2, <1>3 DEF Typed, TypeOK, Action

Inv == Typed /\ FreezeInv /\ FeedInv

(* The last step of an export that was not refused publishes or degrades.   *)
LEMMA WriteImplements ==
    ASSUME Inv, RowsMeasureTheirHash', WriteArtifact
    PROVE  Published!Publish \/ Published!Degrade
  <1> USE DEF Inv, FeedInv
  <1>1. pc = "write" /\ pc' = "idle" /\ hist' = hist
    BY DEF WriteArtifact, Exit
  <1>2. PICK at \in {0, 1} : outfile' = NewArtifact(at)
    <2>1. CASE NothingNew
      <3>1. outfile \in Artifact
        BY <2>1 DEF NothingNew, Readable, Typed, TypeOK
      <3> QED
        BY <2>1, <3>1 DEF WriteArtifact, NothingNew, Artifact
    <2>2. CASE ~NothingNew
      <3>1. NewStamp \in {0, 1}
        BY DEF NewStamp, Readable, Typed, TypeOK, Artifact
      <3> QED
        BY <2>2, <3>1 DEF WriteArtifact
    <2> QED
      BY <2>1, <2>2
  <1>3. Readable(outfile')
    BY <1>1, <1>2, NewArtifactType, FileValuesAssumption DEF Readable
  <1>4. outfile'.rows = Merged /\ outfile'.history = series
    BY <1>2 DEF NewArtifact
  <1>5. outfile'.history = Published!Points
    BY <1>1, <1>4 DEF SeriesInv, LoadHistory, Readable, Published!Points, Published!Readable
  <1>6. \A i \in Ids : Merged[i] # NoEntry /\ plan[i] # "stale" =>
            Merged[i].measured = Merged[i].hash /\ ~Merged[i].stale
    BY <1>1, <1>3, <1>4, MergedRows DEF RowsMeasureTheirHash
  <1>7. Phase' = "idle"
    BY <1>1 DEF Phase
  <1>9. Frontier(ResultsOf(Merged), loaded.unranked) = FrontierOfRows(outfile'.rows)
    BY <1>1, <1>4, FrontierByStamps
  <1>10. CASE Degraded
    <2>1. ~changed /\ exit' = "degraded"
      BY <1>1, <1>10 DEF FreezeInv, BeforeInv, WriteArtifact, Exit
    <2>2. Phase = "checked"
      BY <1>1, <2>1 DEF Phase
    <2>3. \A i \in Ids : outfile'.rows[i] # NoEntry =>
             \/ Published!Honest(outfile'.rows[i]) /\ ~outfile'.rows[i].stale
             \/ Published!CarriedStale(i, outfile'.rows[i])
      BY <1>1, <1>4, <1>6, MergedRows
         DEF Published!Honest, Published!CarriedStale, Readable, Published!Readable
    <2>4. outfile'.frontier = IF Published!Readable(outfile) /\ outfile.frontier # NoFrontier
                              THEN outfile.frontier ELSE FrontierOfRows(outfile'.rows)
      BY <1>2, <1>9, <1>10 DEF NewArtifact, PreviousFrontier, Readable, Published!Readable
    <2> QED
      BY <1>1, <1>3, <1>5, <1>7, <2>1, <2>2, <2>3, <2>4
         DEF Published!Degrade, Published!Close, Readable, Published!Readable
  <1>11. CASE ~Degraded
    <2>1. exit' = "success"
      BY <1>11 DEF WriteArtifact, Exit
    <2>2. Phase \in {"checked", "extended"}
      BY <1>1 DEF Phase
    <2>3. \A i \in Ids : outfile'.rows[i] # NoEntry =>
             Published!Honest(outfile'.rows[i]) /\ ~outfile'.rows[i].stale
      BY <1>4, <1>6, <1>11 DEF Degraded, Planned, Published!Honest
    <2>4. outfile'.frontier = FrontierOfRows(outfile'.rows)
      BY <1>2, <1>9, <1>11 DEF NewArtifact
    <2> QED
      BY <1>1, <1>3, <1>5, <1>7, <2>1, <2>2, <2>3, <2>4
         DEF Published!Publish, Published!Close, Readable, Published!Readable
  <1> QED
    BY <1>10, <1>11

(* Going on to the artifact settles the history.                            *)
LEMMA HistoryImplements ==
    ASSUME Inv, WriteHistory
    PROVE  Published!NoRecord \/ Published!NewRecord
  <1> USE DEF Inv, FeedInv
  <1>1. /\ pc = "record" /\ pc' = "write" /\ changed' = changed
        /\ UNCHANGED <<outfile, exit>>
    BY DEF WriteHistory, ghosts
  <1>2. CASE changed
    <2>1. hist' = series /\ series \in Seq(Point)
      BY <1>2 DEF WriteHistory, Typed, TypeOK
    <2>2. Published!Points = LoadHistory
      BY DEF Published!Points, Published!Readable, LoadHistory, Readable
    <2>3. Published!Extends(hist', Published!Points)
      BY <1>1, <1>2, <2>1, <2>2 DEF SeriesInv, IsExtensionOf, Published!Extends
    <2> QED
      BY <1>1, <1>2, <2>1, <2>3 DEF Published!NewRecord, Phase
  <1>3. CASE ~changed
    BY <1>1, <1>3 DEF WriteHistory, Published!NoRecord, Phase
  <1> QED
    BY <1>2, <1>3

(* Every step is a step of the abstract feed, or leaves it alone.           *)
LEMMA StepImplements ==
    Inv /\ RowsMeasureTheirHash' /\ [Next]_vars => [Published!Next]_(Published!vars)
  <1> SUFFICES ASSUME Inv, RowsMeasureTheirHash', [Next]_vars
               PROVE  Published!Next \/ UNCHANGED Published!vars
    OBVIOUS
  <1>1. ASSUME NEW m \in Modes, Start(m)
        PROVE  Published!Begin
    BY <1>1 DEF Start, Published!Begin, Phase
  <1>2. CASE ImportFails \/ PlanFails \/ Refuse
    BY <1>2 DEF ImportFails, PlanFails, Refuse, Exit, Published!Next, Published!Refuse,
                Published!Close, Phase
  <1>3. CASE WriteHistory
    BY <1>3, HistoryImplements DEF Published!Next
  <1>4. CASE WriteArtifact
    BY <1>4, WriteImplements DEF Published!Next
  <1>5. CASE Kill
    <2>1. Phase # "idle"
      BY <1>5 DEF Kill, Phase
    <2> QED
      BY <1>5, <2>1 DEF Kill, Exit, Published!Next, Published!Die, Published!Close, Phase
  <1>6. CASE TearHistory
    BY <1>6 DEF TearHistory, Exit, Published!Next, Published!TearHistory, Published!Close, Phase
  <1>7. CASE TearArtifact
    BY <1>7 DEF TearArtifact, Exit, Published!Next, Published!TearFeed, Published!Close, Phase
  <1>8. CASE \/ Import \/ PlanExport \/ \E i \in Ids : Run(i) \/ RunFails(i)
             \/ Merge \/ \E t \in Track : Record(t)
    <2>1. /\ Phase = "open" /\ Phase' = "open" /\ UNCHANGED <<outfile, hist, exit>>
      BY <1>8 DEF Import, PlanExport, Run, RunFails, Merge, Record, ghosts, Phase
    <2> QED
      BY <2>1 DEF Published!vars
  <1>9. CASE Environment \/ UNCHANGED vars
    <2>1. UNCHANGED <<outfile, hist, exit, pc, changed>>
      BY <1>9 DEF Environment, EditFile, RemoveFile, AddFile, Fetch, EditRegistry,
                  EditReviewStatus, Edited, process, ghosts, vars
    <2> QED
      BY <2>1 DEF Published!vars, Phase
  <1> QED
    BY <1>1, <1>2, <1>3, <1>4, <1>5, <1>6, <1>7, <1>8, <1>9 DEF Next, Export, Published!Next

(* The export implements the abstract feed, if inputs only appear and       *)
(* disappear between exports: refusals leave no trace, what is published is *)
(* honest and agrees with the history on disk, and everything else is       *)
(* degraded or dead.                                                        *)
THEOREM ExportPublishesFeed == InFlightRemoval = FALSE => (Spec => PublishesFeed)
  <1> SUFFICES ASSUME InFlightRemoval = FALSE
               PROVE  Spec => PublishesFeed
    OBVIOUS
  <1>2. Init => Inv /\ Published!Init
    BY InitTyped, InitFreeze, InitFeedInv DEF Inv, Init, Published!Init, Phase
  <1>3. Init => HashInv
    <2>1. Init => RowsMeasureTheirHash
      BY FileValuesAssumption DEF Init, RowsMeasureTheirHash, Readable
    <2> QED
      BY <2>1 DEF Init, HashInv, ImportsNoticed, HashesNoticed, FreshNoticed
  <1>4. Typed /\ HashInv /\ [Next]_vars => HashInv'
    BY ImportsStep, HashesStep, FreshStep, RowsStep DEF HashInv
  <1>5. Inv /\ HashInv /\ [Next]_vars => Inv'
    BY NextTyped, BeforeStep, SeriesStep, RowsInvStep DEF Inv, FeedInv, HashInv
  <1>6. Inv /\ HashInv' /\ [Next]_vars => [Published!Next]_(Published!vars)
    BY StepImplements DEF HashInv
  <1>7. Inv => Typed
    BY DEF Inv
  <1> QED
    BY <1>2, <1>3, <1>4, <1>5, <1>6, <1>7, PTL DEF Spec, PublishesFeed, Published!Spec

-----------------------------------------------------------------------------
(* The ranking once more                                                    *)

(* At most one row is the best of a track.                                  *)
LEMMA BestUnique ==
    ASSUME NEW e \in Entries, NEW U, NEW t, NEW b \in Best(e, U, t), NEW c \in Best(e, U, t)
    PROVE  b = c
  <1>1. b \in Ids /\ c \in Ids /\ e[b].score \in Nat /\ e[c].score \in Nat
    BY BestType DEF Result
  <1>2. /\ e[b].score < e[c].score \/ (e[b].score = e[c].score /\ b <= c)
        /\ e[c].score < e[b].score \/ (e[c].score = e[b].score /\ c <= b)
    <2> DEFINE S == {i \in Active(e, U) : OnTrack(e, i, t)}
    <2>1. b \in Smallest(e, S) /\ c \in Smallest(e, S)
      BY DEF Best
    <2>2. b \in S /\ c \in S
      BY <2>1, SmallestSubset
    <2> HIDE DEF S
    <2> QED
      BY <2>1, <2>2, Zenon DEF Smallest
  <1> QED
    BY <1>1, <1>2, IdsAssumption

(* The best row of a track is ranked, sound and on the track.               *)
LEMMA BestOnTrack ==
    ASSUME NEW e \in Entries, NEW U, NEW t \in Track, NEW b \in Best(e, U, t)
    PROVE  /\ b \in Ids /\ e[b] # NoEntry /\ e[b].full /\ e[b].sound /\ b \notin U
           /\ OnTrack(e, b, t)
  <1>1. b \in Active(e, U) /\ OnTrack(e, b, t)
    BY SmallestSubset DEF Best
  <1> QED
    BY <1>1 DEF Active, Present, OnTrack, Native, Verified, Track, Kinds,
                Standard, NonStandard, Ideal

(* A point of one track is no point of another: not of another curve, not   *)
(* of the other standardness, not of the series that does not fit.          *)
LEMMA OtherTrackKept ==
    ASSUME NEW e \in Entries, NEW U, NEW s \in Seq(Point),
           NEW t \in Track, NEW u \in Track, t # u,
           NEW b \in Best(e, U, t), NEW c \in Best(e, U, u),
           Known(s, e, U, t, b)
    PROVE  Known(Append(s, PointOf(e, u, c)), e, U, t, b)
  <1> DEFINE p  == PointOf(e, u, c)
             s2 == Append(s, p)
  <1>1. p.id = c /\ (p.fits <=> u.kind # Ideal) /\ p \in Point
    BY BestType DEF PointOf, Point, Result
  <1>2. /\ Len(s2) = Len(s) + 1 /\ Len(s) \in Nat /\ s2[Len(s) + 1] = p
        /\ \A k \in 1..Len(s) : s2[k] = s[k]
        /\ DOMAIN s = 1..Len(s) /\ DOMAIN s2 = 1..(Len(s) + 1)
    BY <1>1
  <1>3. Len(s) + 1 \notin Earlier(s2, e, U, t, b)
    <2> SUFFICES ASSUME Len(s) + 1 \in Earlier(s2, e, U, t, b)
                 PROVE  FALSE
      OBVIOUS
    <2>1. /\ p.fits = (t.kind # Ideal) /\ e[c].curve = t.curve /\ e[c].standard = e[b].standard
      BY <1>1, <1>2 DEF Earlier
    <2>2. OnTrack(e, b, t) /\ OnTrack(e, c, u)
      BY BestOnTrack
    <2>3. u.curve = t.curve
      BY <2>1, <2>2 DEF OnTrack
    <2>4. u.kind # t.kind
      BY <2>3 DEF Track
    <2>5. u.kind # Ideal <=> t.kind # Ideal
      BY <1>1, <2>1
    <2>6. t.kind \in {Standard, NonStandard} /\ u.kind \in {Standard, NonStandard}
      BY <2>4, <2>5 DEF Track, Kinds, Standard, NonStandard, Ideal
    <2>7. e[b].standard <=> t.kind = Standard
      BY <2>2, <2>6 DEF OnTrack, Standard, NonStandard, Ideal
    <2>8. e[c].standard <=> u.kind = Standard
      BY <2>2, <2>6 DEF OnTrack, Standard, NonStandard, Ideal
    <2> QED
      BY <2>1, <2>4, <2>6, <2>7, <2>8
  <1>4. Earlier(s2, e, U, t, b) = Earlier(s, e, U, t, b)
    <2>1. \A k \in 1..Len(s) : k \in Earlier(s2, e, U, t, b) <=> k \in Earlier(s, e, U, t, b)
      BY <1>2 DEF Earlier
    <2>2. \A k \in Earlier(s2, e, U, t, b) : k \in 1..Len(s)
      <3>1. \A k \in Earlier(s2, e, U, t, b) : k \in 1..(Len(s) + 1) /\ k # Len(s) + 1
        BY <1>2, <1>3 DEF Earlier
      <3> QED
        BY <1>2, <3>1
    <2>3. \A k \in Earlier(s, e, U, t, b) : k \in 1..Len(s)
      BY <1>2 DEF Earlier
    <2> QED
      BY <2>1, <2>2, <2>3
  <1>5. PICK k \in Earlier(s, e, U, t, b) :
              /\ \A m \in Earlier(s, e, U, t, b) : m <= k
              /\ s[k].score = e[b].score
    BY DEF Known
  <1>6. k \in 1..Len(s)
    BY <1>2 DEF Earlier
  <1> QED
    BY <1>2, <1>4, <1>5, <1>6 DEF Known

(* Once its best row is visited, the latest point of a track has its score. *)
LEMMA PushKnown ==
    ASSUME NEW e \in Entries, NEW U, NEW s \in Seq(Point),
           NEW t \in Track, NEW b \in Best(e, U, t)
    PROVE  Known(Push(s, e, U, t, b), e, U, t, b)
  <1> DEFINE p  == PointOf(e, t, b)
             s2 == Append(s, p)
  <1>1. CASE Known(s, e, U, t, b)
    BY <1>1 DEF Push
  <1>2. CASE ~Known(s, e, U, t, b)
    <2>1. Push(s, e, U, t, b) = s2
      BY <1>2 DEF Push
    <2>2. /\ p.id = b /\ p.fits = (t.kind # Ideal) /\ p.score = e[b].score /\ p \in Point
      BY BestType DEF PointOf, Point, Result
    <2>3. /\ Len(s2) = Len(s) + 1 /\ Len(s) \in Nat /\ s2[Len(s) + 1] = p
          /\ DOMAIN s2 = 1..(Len(s) + 1)
      BY <2>2
    <2>4. e[b].curve = t.curve
      BY BestOnTrack DEF OnTrack
    <2>5. e[b] # NoEntry /\ e[b].sound /\ b \notin U
      BY BestOnTrack
    <2>6. Len(s) + 1 \in Earlier(s2, e, U, t, b)
      BY <2>2, <2>3, <2>4, <2>5 DEF Earlier
    <2>7. \A m \in Earlier(s2, e, U, t, b) : m <= Len(s) + 1
      BY <2>3 DEF Earlier
    <2> QED
      BY <2>1, <2>2, <2>3, <2>6, <2>7 DEF Known
  <1> QED
    BY <1>1, <1>2

-----------------------------------------------------------------------------
(* The latest point of every track visited has the score of its best row.   *)

RecordedInv ==
    /\ pc = "write" => tracks = {}
    /\ pc \in {"record", "write"} /\ ~Degraded =>
          \A t \in Track \ tracks : \A b \in Best(ResultsOf(Merged), loaded.unranked, t) :
              Known(series, ResultsOf(Merged), loaded.unranked, t, b)

LEMMA MergeRecorded ==
    ASSUME Typed, Merge
    PROVE  RecordedInv'
  <1> DEFINE e == ResultsOf(Merged)
  <1>1. /\ pc = "run" /\ pc' = "record"
        /\ UNCHANGED <<plan, fresh, outfile, loaded>>
        /\ tracks' = IF Degraded THEN {} ELSE TracksOf(e)
    BY DEF Merge
  <1>2. PreviousRows' = PreviousRows
    BY <1>1 DEF PreviousRows
  <1>3. Merged' = Merged
    BY <1>1, <1>2 DEF Merged, Ranked
  <1>4. ResultsOf(Merged)' = e
    BY <1>3 DEF ResultsOf
  <1>5. Degraded' <=> Degraded
    BY <1>1 DEF Degraded, Planned
  <1>6. ASSUME NEW t \in Track, NEW b \in Best(e, loaded.unranked, t)
        PROVE  t \in TracksOf(e)
    <2>1. e \in Entries
      BY <1>1, MergedType, ResultsType
    <2>2. /\ b \in Ids /\ e[b] # NoEntry /\ e[b].full
          /\ e[b].curve = t.curve
      BY <2>1, <1>6, BestOnTrack DEF OnTrack
    <2> QED
      BY <2>2 DEF TracksOf, Present
  <1> QED
    BY <1>1, <1>4, <1>5, <1>6 DEF RecordedInv

LEMMA RecordRecorded ==
    ASSUME Typed, RecordedInv, NEW u \in Track, Record(u)
    PROVE  RecordedInv'
  <1> DEFINE e == ResultsOf(Merged)
             U == loaded.unranked
  <1>1. /\ pc = "record" /\ pc' = "record" /\ tracks' = tracks \ {u}
        /\ UNCHANGED <<plan, fresh, outfile, loaded>>
    BY DEF Record
  <1>2. PreviousRows' = PreviousRows
    BY <1>1 DEF PreviousRows
  <1>3. Merged' = Merged
    BY <1>1, <1>2 DEF Merged, Ranked
  <1>4. ResultsOf(Merged)' = e
    BY <1>3 DEF ResultsOf
  <1>5. Degraded' <=> Degraded
    BY <1>1 DEF Degraded, Planned
  <1>6. e \in Entries /\ series \in Seq(Point)
    BY <1>1, MergedType, ResultsType DEF Typed, TypeOK
  <1>7. ASSUME ~Degraded, NEW t \in Track \ tracks', NEW b \in Best(e, U, t)
        PROVE  Known(series', e, U, t, b)
    <2>1. t # u => Known(series, e, U, t, b)
      BY <1>1, <1>7 DEF RecordedInv
    <2>2. CASE Best(e, U, u) = {} /\ UNCHANGED series
      BY <2>1, <2>2, <1>7
    <2>3. ASSUME NEW c \in Best(e, U, u), series' = Push(series, e, U, u, c)
          PROVE  Known(series', e, U, t, b)
      <3>1. CASE t = u
        <4>1. c = b
          BY <1>6, <1>7, <2>3, <3>1, BestUnique
        <4> QED
          BY <1>6, <1>7, <2>3, <3>1, <4>1, PushKnown
      <3>2. CASE t # u
        <4>1. series' = series \/ series' = Append(series, PointOf(e, u, c))
          BY <2>3 DEF Push
        <4>2. Known(Append(series, PointOf(e, u, c)), e, U, t, b)
          BY <1>6, <1>7, <2>1, <2>3, <3>2, OtherTrackKept
        <4> QED
          BY <2>1, <3>2, <4>1, <4>2
      <3> QED
        BY <3>1, <3>2
    <2> QED
      BY <2>2, <2>3 DEF Record
  <1> QED
    BY <1>1, <1>4, <1>5, <1>7 DEF RecordedInv

LEMMA RecordedStep == Typed /\ RecordedInv /\ [Next]_vars => RecordedInv'
  <1> SUFFICES ASSUME Typed, RecordedInv, [Next]_vars
               PROVE  RecordedInv'
    OBVIOUS
  <1>1. CASE Merge
    BY <1>1, MergeRecorded
  <1>2. ASSUME NEW t \in Track, Record(t)
        PROVE  RecordedInv'
    BY <1>2, RecordRecorded
  <1>3. ASSUME UNCHANGED <<plan, fresh, outfile, loaded, series, tracks>>,
               pc' = pc \/ (pc = "record" /\ tracks = {})
        PROVE  RecordedInv'
    <2>1. PreviousRows' = PreviousRows
      BY <1>3 DEF PreviousRows
    <2>2. Merged' = Merged
      BY <1>3, <2>1 DEF Merged, Ranked
    <2>3. ResultsOf(Merged)' = ResultsOf(Merged)
      BY <2>2 DEF ResultsOf
    <2>4. Degraded' <=> Degraded
      BY <1>3 DEF Degraded, Planned
    <2> QED
      BY <1>3, <2>3, <2>4 DEF RecordedInv
  <1>4. CASE WriteHistory
    BY <1>3, <1>4 DEF WriteHistory
  <1>5. CASE Environment \/ UNCHANGED vars
    BY <1>3, <1>5 DEF Environment, EditFile, RemoveFile, AddFile, Fetch, EditRegistry,
                      EditReviewStatus, Edited, process, vars
  <1>6. CASE \/ \E m \in Modes : Start(m)
             \/ Import \/ ImportFails \/ PlanExport \/ PlanFails \/ Refuse \/ WriteArtifact
             \/ \E i \in Ids : Run(i) \/ RunFails(i)
             \/ Kill \/ TearHistory \/ TearArtifact
    <2>1. pc' \notin {"record", "write"}
      BY <1>6 DEF Start, Import, ImportFails, PlanExport, PlanFails, Refuse, WriteArtifact,
                  Run, RunFails, Kill, TearHistory, TearArtifact, Exit
    <2> QED
      BY <2>1 DEF RecordedInv
  <1> QED
    BY <1>1, <1>2, <1>4, <1>5, <1>6 DEF Next, Export

-----------------------------------------------------------------------------
(* Nothing edited since the process started                                 *)

Registered(i) == i \in registry \ Omitted

PlanIsCurrent(i) ==
    /\ plan[i] = "none" <=> ~Registered(i)
    /\ plan[i] = "run" => hashed[i] = HashNow(i)
    /\ plan[i] = "carry" => PreviousRows[i].hash = HashNow(i)
    /\ plan[i] = "stale" => PreviousRows[i].hash # HashNow(i)
    /\ plan[i] = "run" /\ fresh[i] # NoEntry => fresh[i].hash = HashNow(i)

CleanInv ==
    clean =>
        /\ pc \in {"plan", "run", "record", "write"} =>
              loaded.registry = registry /\ loaded.unranked = unranked
        /\ pc \in {"run", "record", "write"} => \A i \in Ids : PlanIsCurrent(i)
        /\ pc \in {"record", "write"} =>
              \A i \in Ids : plan[i] = "run" => fresh[i] # NoEntry

(* What a row of the artifact says of the working tree.                     *)
RowIsCurrent(i) ==
    IF Registered(i)
    THEN /\ outfile.rows[i] # NoEntry
         /\ outfile.rows[i].measured = HashNow(i)
         /\ ~outfile.rows[i].stale
         /\ outfile.rows[i].ranked = (i \notin unranked)
    ELSE outfile.rows[i] = NoEntry

MarkerIsExact(i) ==
    outfile.rows[i] # NoEntry => (outfile.rows[i].stale <=> outfile.rows[i].hash # HashNow(i))

LEMMA CleanPlan ==
    ASSUME Typed, FreshNoticed, CleanInv, PlanExport, clean
    PROVE  \A i \in Ids : PlanIsCurrent(i)'
  <1>1. /\ pc = "plan" /\ UNCHANGED <<file, registry, outfile, fresh>> /\ fresh = NoRows
        /\ plan' = [i \in Ids |-> PlanOf(i)]
        /\ hashed' = [i \in Ids |-> IF i \in Feed THEN HashNow(i) ELSE hashed[i]]
    BY DEF PlanExport, tree, FreshNoticed
  <1>2. Feed = registry \ Omitted
    BY <1>1 DEF CleanInv, Feed
  <1> SUFFICES ASSUME NEW i \in Ids
               PROVE  PlanIsCurrent(i)'
    OBVIOUS
  <1>3. HashNow(i)' = HashNow(i)
    BY <1>1 DEF HashNow
  <1>4. PreviousRows' = PreviousRows
    BY <1>1 DEF PreviousRows
  <1>5. plan'[i] = PlanOf(i) /\ (Registered(i)' <=> i \in Feed)
    BY <1>1, <1>2 DEF Registered
  <1>6. PlanOf(i) = "none" <=> i \notin Feed
    BY DEF PlanOf, LeftAlone
  <1>7. i \in Feed => ~PlanThrows(i)
    BY DEF PlanExport, PlanRefused
  <1>8. PlanOf(i) = "run" => hashed'[i] = HashNow(i)
    BY <1>1, <1>6
  <1>9. PlanOf(i) = "carry" => PreviousRows[i].hash = HashNow(i)
    <2>1. PlanOf(i) = "carry" => ~Outdated(i)
      BY DEF PlanOf, LeftAlone
    <2> QED
      BY <2>1, <1>6, <1>7, PlanOfCarries DEF Outdated
  <1>10. PlanOf(i) = "stale" => PreviousRows[i].hash # HashNow(i)
    <2>1. PlanOf(i) = "stale" => Outdated(i)
      BY DEF PlanOf, LeftAlone
    <2> QED
      BY <2>1, <1>6, <1>7, PlanOfCarries DEF Outdated
  <1>11. fresh'[i] = NoEntry
    BY <1>1 DEF NoRows
  <1> QED
    BY <1>3, <1>4, <1>5, <1>6, <1>8, <1>9, <1>10, <1>11 DEF PlanIsCurrent

LEMMA CleanStep == Typed /\ FreshNoticed /\ CleanInv /\ [Next]_vars => CleanInv'
  <1> SUFFICES ASSUME Typed, FreshNoticed, CleanInv, [Next]_vars, clean'
               PROVE  /\ pc' \in {"plan", "run", "record", "write"} =>
                            loaded'.registry = registry' /\ loaded'.unranked = unranked'
                      /\ pc' \in {"run", "record", "write"} => \A i \in Ids : PlanIsCurrent(i)'
                      /\ pc' \in {"record", "write"} =>
                            \A i \in Ids : plan'[i] = "run" => fresh'[i] # NoEntry
    BY DEF CleanInv
  <1>1. CASE Import
    BY <1>1 DEF Import, tree, ghosts
  <1>2. CASE PlanExport
    <2>1. clean /\ pc = "plan" /\ pc' = "run" /\ UNCHANGED <<tree, loaded>>
      BY <1>2 DEF PlanExport, ghosts
    <2> QED
      BY <1>2, <2>1, CleanPlan DEF CleanInv, tree
  <1>3. ASSUME NEW j \in Ids, Run(j)
        PROVE  /\ pc' = "run"
               /\ loaded'.registry = registry' /\ loaded'.unranked = unranked'
               /\ \A i \in Ids : PlanIsCurrent(i)'
    <2>1. /\ clean /\ pc = "run" /\ pc' = pc
          /\ UNCHANGED <<file, registry, unranked, outfile, plan, hashed, loaded>>
      BY <1>3 DEF Run, tree, ghosts
    <2>2. PreviousRows' = PreviousRows /\ \A i \in Ids : HashNow(i)' = HashNow(i)
      BY <2>1 DEF PreviousRows, HashNow
    <2>3. fresh'[j].hash = hashed[j] /\ \A i \in Ids : i # j => fresh'[i] = fresh[i]
      BY <1>3 DEF Run, Typed, TypeOK, Rows
    <2> QED
      BY <2>1, <2>2, <2>3 DEF CleanInv, PlanIsCurrent, Registered
  <1>4. ASSUME UNCHANGED <<clean, file, registry, unranked, outfile, plan, hashed, fresh, loaded>>,
               \/ pc' = pc
               \/ pc = "record" /\ pc' = "write"
               \/ pc = "run" /\ pc' = "record" /\ Todo = {} /\ failed = {}
        PROVE  /\ pc' \in {"plan", "run", "record", "write"} =>
                     loaded'.registry = registry' /\ loaded'.unranked = unranked'
               /\ pc' \in {"run", "record", "write"} => \A i \in Ids : PlanIsCurrent(i)'
               /\ pc' \in {"record", "write"} =>
                     \A i \in Ids : plan'[i] = "run" => fresh'[i] # NoEntry
    <2>1. PreviousRows' = PreviousRows /\ \A i \in Ids : HashNow(i)' = HashNow(i)
      BY <1>4 DEF PreviousRows, HashNow
    <2>2. \A i \in Ids : PlanIsCurrent(i)' <=> PlanIsCurrent(i)
      BY <1>4, <2>1 DEF PlanIsCurrent, Registered
    <2>3. Todo = {} /\ failed = {} => \A i \in Ids : plan[i] = "run" => fresh[i] # NoEntry
      BY DEF Todo, Runs, Planned
    <2> QED
      BY <1>4, <2>2, <2>3 DEF CleanInv
  <1>5. CASE Merge \/ WriteHistory \/ \E t \in Track : Record(t)
    BY <1>4, <1>5 DEF Merge, WriteHistory, Record, tree, ghosts
  <1>6. CASE \E i \in Ids : RunFails(i)
    BY <1>4, <1>6 DEF RunFails, tree, ghosts
  <1>7. CASE UNCHANGED vars
    BY <1>4, <1>7 DEF vars, tree, process, ghosts
  <1>8. CASE Environment
    BY <1>8 DEF Environment, EditFile, RemoveFile, AddFile, Fetch, EditRegistry,
                EditReviewStatus, Edited
  <1>9. CASE \/ \E m \in Modes : Start(m)
             \/ ImportFails \/ PlanFails \/ Refuse \/ WriteArtifact
             \/ Kill \/ TearHistory \/ TearArtifact
    <2>1. pc' \in {"idle", "import"}
      BY <1>9 DEF Start, ImportFails, PlanFails, Refuse, WriteArtifact, Kill, TearHistory,
                  TearArtifact, Exit
    <2> QED
      BY <2>1
  <1> QED
    BY <1>1, <1>2, <1>3, <1>5, <1>6, <1>7, <1>8, <1>9 DEF Next, Export

-----------------------------------------------------------------------------
(* The artifact at exit                                                     *)

RowsNow    == Readable(outfile) /\ \A i \in Ids : RowIsCurrent(i)
MarkersNow == Readable(outfile) /\ \A i \in Ids : MarkerIsExact(i)

Agreement ==
    /\ outfile.history = LoadHistory
    /\ outfile.frontier = Frontier(ResultsOf(outfile.rows), unranked)
    /\ \A t \in Track : \A b \in Best(ResultsOf(outfile.rows), unranked, t) :
          Known(outfile.history, ResultsOf(outfile.rows), unranked, t, b)

DoneInv ==
    pc = "idle" /\ clean =>
        /\ exit = "success" => RowsNow /\ Agreement
        /\ exit \in {"success", "degraded"} => MarkersNow

(* Whether the artifact is replaced or found to say the same, it ends up as *)
(* the one that was put together.                                           *)
LEMMA WrittenArtifact ==
    ASSUME Typed, WriteArtifact
    PROVE  /\ pc = "write"
           /\ Readable(outfile')
           /\ \E at \in {0, 1} : outfile' = NewArtifact(at)
  <1>1. pc = "write"
    BY DEF WriteArtifact
  <1>2. \E at \in {0, 1} : outfile' = NewArtifact(at)
    <2>1. CASE NothingNew
      <3>1. outfile \in Artifact
        BY <2>1 DEF NothingNew, Readable, Typed, TypeOK
      <3> QED
        BY <2>1, <3>1 DEF WriteArtifact, NothingNew, Artifact
    <2>2. CASE ~NothingNew
      <3>1. NewStamp \in {0, 1}
        BY DEF NewStamp, Readable, Typed, TypeOK, Artifact
      <3> QED
        BY <2>2, <3>1 DEF WriteArtifact
    <2> QED
      BY <2>1, <2>2
  <1>3. Readable(outfile')
    BY <1>1, <1>2, NewArtifactType, FileValuesAssumption DEF Readable
  <1> QED
    BY <1>1, <1>2, <1>3

(* A row that is carried is a row.                                          *)
LEMMA MergedCarried ==
    ASSUME Typed, NEW i \in Ids, plan[i] \in {"carry", "stale"}, pc = "write"
    PROVE  Merged[i] # NoEntry
  <1>1. PreviousRows[i] \in Row
    BY PreviousRowsType DEF Typed, PlanOK, Rows
  <1>2. Merged[i] \in Row
    BY <1>1 DEF Merged, Row, Ranked
  <1> QED
    BY <1>2, RowAssumption

(* The merged rows against the working tree.                                *)
LEMMA MergedNow ==
    ASSUME Typed, RowsInv, CleanInv, clean, pc = "write", NEW i \in Ids
    PROVE  /\ ~Registered(i) => Merged[i] = NoEntry
           /\ Merged[i] # NoEntry =>
                 /\ Merged[i].stale <=> Merged[i].hash # HashNow(i)
                 /\ Merged[i].ranked <=> i \notin unranked
           /\ Registered(i) /\ ~Degraded =>
                 Merged[i] # NoEntry /\ Merged[i].hash = HashNow(i) /\ ~Merged[i].stale
  <1>1. PlanIsCurrent(i) /\ loaded.unranked = unranked
    BY DEF CleanInv
  <1>2. CASE plan[i] = "run"
    <2>1. Merged[i] = fresh[i] /\ fresh[i] # NoEntry
      BY <1>2 DEF Merged, CleanInv
    <2> QED
      BY <1>1, <1>2, <2>1 DEF PlanIsCurrent, RowsInv, Ranked
  <1>3. CASE plan[i] \in {"carry", "stale"}
    <2>1. PreviousRows[i] \in Row
      BY <1>3, PreviousRowsType DEF Typed, PlanOK, Rows
    <2>2. Merged[i].hash = PreviousRows[i].hash /\ (Merged[i].ranked <=> Ranked(i))
      BY <1>3, <2>1 DEF Merged, Row
    <2>3. Merged[i] # NoEntry
      BY <1>3, MergedCarried
    <2>4. CASE plan[i] = "carry"
      <3>1. ~Merged[i].stale
        BY <2>1, <2>4 DEF Merged, Row
      <3> QED
        BY <1>1, <2>2, <2>3, <2>4, <3>1 DEF PlanIsCurrent, Ranked
    <2>5. CASE plan[i] = "stale"
      <3>1. Merged[i].stale /\ Degraded
        BY <2>1, <2>5 DEF Merged, Row, Degraded, Planned
      <3> QED
        BY <1>1, <2>2, <2>5, <3>1 DEF PlanIsCurrent, Ranked
    <2> QED
      BY <1>3, <2>4, <2>5
  <1>4. CASE plan[i] \in {"absent", "none"}
    <2>1. Merged[i] = NoEntry
      BY <1>4 DEF Merged
    <2>2. plan[i] = "absent" => Degraded
      BY DEF Degraded, Planned
    <2> QED
      BY <1>1, <1>4, <2>1, <2>2 DEF PlanIsCurrent
  <1> QED
    BY <1>2, <1>3, <1>4 DEF Typed, TypeOK, Action

LEMMA WriteDone ==
    ASSUME Inv, RecordedInv, CleanInv, RowsMeasureTheirHash', WriteArtifact, clean'
    PROVE  /\ exit' = "success" => RowsNow' /\ Agreement'
           /\ exit' \in {"success", "degraded"} => MarkersNow'
  <1> USE DEF Inv, FeedInv
  <1>1. /\ pc = "write" /\ clean /\ hist' = hist
        /\ UNCHANGED <<file, registry, unranked>>
        /\ exit' = IF Degraded THEN "degraded" ELSE "success"
    BY DEF WriteArtifact, Exit, tree
  <1>2. Readable(outfile')
    BY WrittenArtifact
  <1>3. PICK at \in {0, 1} : outfile' = NewArtifact(at)
    BY WrittenArtifact
  <1>4. outfile'.rows = Merged /\ outfile'.history = series
    BY <1>3 DEF NewArtifact
  <1>5. \A i \in Ids : HashNow(i)' = HashNow(i)
    BY <1>1 DEF HashNow
  <1>6. MarkersNow'
    <2>1. \A i \in Ids : MarkerIsExact(i)'
      BY <1>1, <1>4, <1>5, MergedNow DEF MarkerIsExact
    <2> QED
      BY <1>2, <2>1 DEF MarkersNow, Readable
  <1>7. ASSUME ~Degraded
        PROVE  RowsNow'
    <2> SUFFICES ASSUME NEW i \in Ids
                 PROVE  RowIsCurrent(i)'
      BY <1>2 DEF RowsNow, Readable
    <2>1. CASE Registered(i)
      <3>1. /\ Merged[i] # NoEntry /\ Merged[i].hash = HashNow(i) /\ ~Merged[i].stale
            /\ Merged[i].ranked <=> i \notin unranked
        BY <1>1, <1>7, <2>1, MergedNow
      <3>2. HashNow(i) # NoHash
        BY HashNowType, RowAssumption DEF Typed
      <3>3. Merged[i].measured = HashNow(i)
        BY <1>2, <1>4, <3>1, <3>2 DEF RowsMeasureTheirHash
      <3>4. Merged[i].ranked \in BOOLEAN
        BY <1>1, <3>1, MergedType DEF Rows, Row
      <3>5. Merged[i].ranked = (i \notin unranked)
        BY <3>1, <3>4
      <3> QED
        BY <1>1, <1>4, <1>5, <2>1, <3>1, <3>3, <3>5 DEF RowIsCurrent, Registered
    <2>2. CASE ~Registered(i)
      <3>1. Merged[i] = NoEntry
        BY <1>1, <2>2, MergedNow
      <3> QED
        BY <1>1, <1>4, <2>2, <3>1 DEF RowIsCurrent, Registered
    <2> QED
      BY <2>1, <2>2
  <1>8. ASSUME ~Degraded
        PROVE  Agreement'
    <2>1. loaded.unranked = unranked /\ tracks = {}
      BY <1>1 DEF CleanInv, RecordedInv
    <2>2. outfile'.history = LoadHistory'
      BY <1>1, <1>4 DEF SeriesInv, LoadHistory
    <2>3. outfile'.frontier = Frontier(ResultsOf(Merged), unranked)
      BY <1>3, <1>8, <2>1 DEF NewArtifact
    <2>4. \A t \in Track : \A b \in Best(ResultsOf(Merged), unranked, t) :
              Known(series, ResultsOf(Merged), unranked, t, b)
      BY <1>1, <1>8, <2>1 DEF RecordedInv
    <2>5. unranked' = unranked
      BY <1>1
    <2> QED
      BY <1>4, <2>2, <2>3, <2>4, <2>5 DEF Agreement
  <1> QED
    BY <1>1, <1>6, <1>7, <1>8

LEMMA DoneStep ==
    Inv /\ RecordedInv /\ CleanInv /\ RowsMeasureTheirHash' /\ DoneInv /\ [Next]_vars => DoneInv'
  <1> SUFFICES ASSUME Inv, RecordedInv, CleanInv, RowsMeasureTheirHash', DoneInv, [Next]_vars,
                      pc' = "idle", clean'
               PROVE  /\ exit' = "success" => RowsNow' /\ Agreement'
                      /\ exit' \in {"success", "degraded"} => MarkersNow'
    BY DEF DoneInv
  <1>1. CASE WriteArtifact
    BY <1>1, WriteDone
  <1>2. CASE ImportFails \/ PlanFails \/ Refuse \/ Kill \/ TearHistory \/ TearArtifact
    BY <1>2 DEF ImportFails, PlanFails, Refuse, Kill, TearHistory, TearArtifact, Exit
  <1>3. CASE UNCHANGED vars
    <2>1. UNCHANGED <<file, registry, unranked, outfile, hist, pc, exit, clean>>
      BY <1>3 DEF vars, tree, process, ghosts
    <2>2. \A i \in Ids : /\ RowIsCurrent(i)' <=> RowIsCurrent(i)
                         /\ MarkerIsExact(i)' <=> MarkerIsExact(i)
      BY <2>1 DEF RowIsCurrent, MarkerIsExact, Registered, HashNow
    <2> QED
      BY <2>1, <2>2 DEF DoneInv, RowsNow, MarkersNow, Agreement, LoadHistory
  <1>4. CASE Environment
    BY <1>4 DEF Environment, EditFile, RemoveFile, AddFile, Fetch, EditRegistry,
                EditReviewStatus, Edited
  <1>5. CASE \/ \E m \in Modes : Start(m)
             \/ Import \/ PlanExport \/ Merge \/ WriteHistory
             \/ \E i \in Ids : Run(i) \/ RunFails(i)
             \/ \E t \in Track : Record(t)
    BY <1>5 DEF Start, Import, PlanExport, Merge, WriteHistory, Run, RunFails, Record
  <1> QED
    BY <1>1, <1>2, <1>3, <1>4, <1>5 DEF Next, Export

-----------------------------------------------------------------------------
(* Exporting again                                                          *)

NothingToDo ==
    /\ RowsNow /\ MarkersNow /\ Agreement
    /\ ~mode.full /\ (mode.partial => mode.only = {})
    /\ ~changed
    /\ outfile = before.outfile /\ hist = before.hist
    /\ pc \in {"run", "record", "write"} => \A i \in Ids : plan[i] \in {"carry", "none"}

SettledInv ==
    /\ settled /\ clean /\ pc # "idle" => NothingToDo
    /\ NoopLeavesArtifact

(* Nothing to force and every row current: every row is carried.            *)
LEMMA SettledPlan ==
    ASSUME Typed, CleanInv, NothingToDo, PlanExport, clean, NEW i \in Ids
    PROVE  plan'[i] \in {"carry", "none"}
  <1>1. pc = "plan" /\ plan'[i] = PlanOf(i) /\ Feed = registry \ Omitted
    BY DEF PlanExport, CleanInv, Feed
  <1>2. CASE i \notin Feed
    BY <1>1, <1>2 DEF PlanOf
  <1>3. CASE i \in Feed
    <2>1. RowIsCurrent(i) /\ MarkerIsExact(i) /\ Readable(outfile)
      BY DEF NothingToDo, RowsNow, MarkersNow
    <2>2. Registered(i)
      BY <1>1, <1>3 DEF Registered
    <2>3. PreviousRows[i] # NoEntry /\ PreviousRows[i].hash = HashNow(i)
      BY <2>1, <2>2 DEF RowIsCurrent, MarkerIsExact, PreviousRows
    <2>4. ~Outdated(i)
      BY <2>3 DEF Outdated
    <2>5. ~Forced(i)
      BY DEF Forced, NothingToDo
    <2>6. ~mode.full
      BY DEF NothingToDo
    <2> QED
      BY <1>1, <1>3, <2>4, <2>5, <2>6 DEF PlanOf
  <1> QED
    BY <1>2, <1>3

(* Then the merged rows are those of the artifact.                          *)
LEMMA SettledRows ==
    ASSUME Typed, CleanInv, NothingToDo, clean, pc \in {"run", "record", "write"}
    PROVE  Merged = outfile.rows /\ ~Degraded /\ Runs = {}
  <1>1. outfile \in Artifact /\ outfile.rows \in Rows /\ PreviousRows = outfile.rows
    BY DEF NothingToDo, RowsNow, Readable, Typed, TypeOK, Artifact, PreviousRows
  <1>2. loaded.unranked = unranked
    BY DEF CleanInv
  <1>3. ASSUME NEW i \in Ids
        PROVE  Merged[i] = outfile.rows[i]
    <2>1. RowIsCurrent(i) /\ PlanIsCurrent(i) /\ plan[i] \in {"carry", "none"}
      BY DEF NothingToDo, RowsNow, CleanInv
    <2>2. CASE plan[i] = "none"
      BY <2>1, <2>2 DEF Merged, RowIsCurrent, PlanIsCurrent
    <2>3. CASE plan[i] = "carry"
      <3>1. Registered(i)
        BY <2>1, <2>3 DEF PlanIsCurrent
      <3>2. outfile.rows[i] \in Row
        BY <1>1, <2>1, <3>1 DEF RowIsCurrent, Rows
      <3>3. outfile.rows[i].stale = FALSE /\ outfile.rows[i].ranked = Ranked(i)
        BY <1>2, <2>1, <3>1, <3>2 DEF RowIsCurrent, Ranked, Row
      <3>4. [outfile.rows[i] EXCEPT !.stale = FALSE, !.ranked = Ranked(i)] = outfile.rows[i]
        BY <3>2, <3>3 DEF Row
      <3> QED
        BY <1>1, <2>3, <3>4 DEF Merged
    <2> QED
      BY <2>1, <2>2, <2>3
  <1>4. Merged = outfile.rows
    BY <1>1, <1>3 DEF Merged, Rows
  <1>5. ~Degraded /\ Runs = {}
    BY DEF NothingToDo, Degraded, Runs, Planned
  <1> QED
    BY <1>4, <1>5

(* Nothing is pushed, since every best row has its score on record.         *)
LEMMA SettledRecord ==
    ASSUME Inv, CleanInv, NothingToDo, clean, NEW t \in Track, Record(t)
    PROVE  ~changed'
  <1>1. pc = "record" /\ ~changed
    BY DEF Record, NothingToDo
  <1>2. series = LoadHistory
    BY <1>1 DEF Inv, FeedInv, SeriesInv
  <1>3. Merged = outfile.rows /\ loaded.unranked = unranked
    BY <1>1, SettledRows DEF Inv, CleanInv
  <1>4. \A b \in Best(ResultsOf(Merged), loaded.unranked, t) :
            Known(series, ResultsOf(Merged), loaded.unranked, t, b)
    BY <1>2, <1>3 DEF NothingToDo, Agreement
  <1> QED
    BY <1>1, <1>4 DEF Record

(* And the artifact put together is the one there is.                       *)
LEMMA SettledWrite ==
    ASSUME Inv, CleanInv, NothingToDo, clean, WriteArtifact
    PROVE  outfile' = outfile
  <1>1. pc = "write"
    BY DEF WriteArtifact
  <1>2. Merged = outfile.rows /\ ~Degraded /\ Runs = {} /\ loaded.unranked = unranked
    BY <1>1, SettledRows DEF Inv, CleanInv
  <1>3. outfile \in Artifact
    BY DEF NothingToDo, RowsNow, Readable, Inv, Typed, TypeOK
  <1>4. series = outfile.history
    BY <1>1 DEF Inv, FeedInv, SeriesInv, NothingToDo, Agreement
  <1>5. outfile.frontier = Frontier(ResultsOf(Merged), loaded.unranked)
    BY <1>2 DEF NothingToDo, Agreement
  <1>6. NewArtifact(outfile.at) = [rows |-> outfile.rows, frontier |-> outfile.frontier,
                                   history |-> outfile.history, at |-> outfile.at]
    BY <1>2, <1>4, <1>5 DEF NewArtifact
  <1>7. NewArtifact(outfile.at) = outfile
    BY <1>3, <1>6 DEF Artifact
  <1>8. NothingNew
    BY <1>2, <1>7 DEF NothingNew, NothingToDo, RowsNow
  <1> QED
    BY <1>8 DEF WriteArtifact

LEMMA SettledStep ==
    Inv /\ CleanInv /\ DoneInv /\ SettledInv /\ [Next]_vars => SettledInv'
  <1> SUFFICES ASSUME Inv, CleanInv, DoneInv, SettledInv, [Next]_vars
               PROVE  SettledInv'
    OBVIOUS
  <1>1. ASSUME UNCHANGED <<tree, outfile, hist, mode, changed, ghosts>>, pc # "idle", pc' # "idle",
               settled /\ clean /\ pc' \in {"run", "record", "write"} =>
                   \A i \in Ids : plan'[i] \in {"carry", "none"}
        PROVE  SettledInv'
    <2>1. UNCHANGED <<file, registry, unranked, outfile, hist, mode, changed, exit, clean,
                      settled, before>>
      BY <1>1 DEF tree, ghosts
    <2>2. \A i \in Ids : /\ RowIsCurrent(i)' <=> RowIsCurrent(i)
                         /\ MarkerIsExact(i)' <=> MarkerIsExact(i)
      BY <2>1 DEF RowIsCurrent, MarkerIsExact, Registered, HashNow
    <2>3. NothingToDo /\ settled /\ clean => NothingToDo'
      BY <1>1, <2>1, <2>2 DEF NothingToDo, RowsNow, MarkersNow, Agreement, LoadHistory
    <2> QED
      BY <1>1, <2>1, <2>3 DEF SettledInv, NoopLeavesArtifact
  <1>2. ASSUME NEW m \in Modes, Start(m)
        PROVE  SettledInv'
    <2>1. exit' # "success"
      BY <1>2 DEF Start
    <2>2. ASSUME settled'
          PROVE  NothingToDo'
      <3>1. /\ pc = "idle" /\ exit = "success" /\ clean /\ ~m.full /\ ~(m.partial /\ m.only # {})
            /\ mode' = m /\ pc' = "import" /\ changed' = changed
            /\ UNCHANGED <<file, registry, unranked, outfile, hist>>
            /\ before' = [outfile |-> outfile, hist |-> hist]
        BY <1>2, <2>2 DEF Start, tree
      <3>2. RowsNow /\ MarkersNow /\ Agreement /\ ~changed
        BY <3>1 DEF DoneInv, Inv, FreezeInv, BeforeInv
      <3>3. \A i \in Ids : /\ RowIsCurrent(i)' <=> RowIsCurrent(i)
                           /\ MarkerIsExact(i)' <=> MarkerIsExact(i)
        BY <3>1 DEF RowIsCurrent, MarkerIsExact, Registered, HashNow
      <3>4. RowsNow' /\ MarkersNow' /\ Agreement'
        BY <3>1, <3>2, <3>3 DEF RowsNow, MarkersNow, Agreement, LoadHistory
      <3> QED
        BY <3>1, <3>2, <3>4 DEF NothingToDo
    <2> QED
      BY <2>1, <2>2 DEF SettledInv, NoopLeavesArtifact
  <1>3. CASE Import \/ \E i \in Ids : Run(i) \/ RunFails(i)
    BY <1>1, <1>3 DEF Import, Run, RunFails, SettledInv, NothingToDo
  <1>4. CASE PlanExport
    <2>1. settled /\ clean => \A i \in Ids : plan'[i] \in {"carry", "none"}
      BY <1>4, SettledPlan DEF Inv, SettledInv, PlanExport
    <2> QED
      BY <1>1, <1>4, <2>1 DEF PlanExport
  <1>5. CASE Merge
    BY <1>1, <1>5 DEF Merge, SettledInv, NothingToDo
  <1>6. ASSUME NEW t \in Track, Record(t)
        PROVE  SettledInv'
    <2>1. settled /\ clean => ~changed /\ ~changed'
      BY <1>6, SettledRecord DEF SettledInv, NothingToDo, Record
    <2>2. CASE settled /\ clean
      <3>1. ~changed /\ ~changed'
        BY <2>1, <2>2
      <3>2. changed \in BOOLEAN /\ changed' \in BOOLEAN
        BY <1>6, NextTyped DEF Inv, Typed, TypeOK
      <3>3. changed' = changed
        BY <3>1, <3>2
      <3> QED
        BY <1>1, <1>6, <3>3 DEF Record, SettledInv, NothingToDo
    <2>3. CASE ~(settled /\ clean)
      BY <1>6, <2>3 DEF Record, ghosts, SettledInv, NoopLeavesArtifact
    <2> QED
      BY <2>2, <2>3
  <1>7. CASE WriteHistory
    <2>1. CASE settled /\ clean
      <3>1. hist' = hist
        BY <1>7, <2>1 DEF WriteHistory, SettledInv, NothingToDo
      <3> QED
        BY <1>1, <1>7, <2>1, <3>1 DEF WriteHistory, SettledInv, NothingToDo
    <2>2. CASE ~(settled /\ clean)
      BY <1>7, <2>2 DEF WriteHistory, ghosts, SettledInv, NoopLeavesArtifact
    <2> QED
      BY <2>1, <2>2
  <1>8. CASE WriteArtifact
    <2>1. pc = "write" /\ pc' = "idle" /\ UNCHANGED <<hist, clean, settled, before>>
      BY <1>8 DEF WriteArtifact, Exit
    <2>2. settled /\ clean => outfile' = outfile /\ outfile = before.outfile /\ hist = before.hist
      BY <1>8, <2>1, SettledWrite DEF SettledInv, NothingToDo
    <2> QED
      BY <2>1, <2>2 DEF SettledInv, NoopLeavesArtifact
  <1>9. CASE ImportFails \/ PlanFails \/ Refuse \/ Kill \/ TearHistory \/ TearArtifact
    BY <1>9 DEF ImportFails, PlanFails, Refuse, Kill, TearHistory, TearArtifact, Exit,
                SettledInv, NoopLeavesArtifact
  <1>10. CASE UNCHANGED vars
    <2>1. CASE pc = "idle"
      BY <1>10, <2>1 DEF vars, process, ghosts, SettledInv, NoopLeavesArtifact
    <2>2. CASE pc # "idle"
      BY <1>1, <1>10, <2>2 DEF vars, process, SettledInv, NothingToDo
    <2> QED
      BY <2>1, <2>2
  <1>11. CASE Environment
    BY <1>11 DEF Environment, EditFile, RemoveFile, AddFile, Fetch, EditRegistry,
                 EditReviewStatus, Edited, SettledInv, NoopLeavesArtifact
  <1> QED
    BY <1>2, <1>3, <1>4, <1>5, <1>6, <1>7, <1>8, <1>9, <1>10, <1>11 DEF Next, Export

-----------------------------------------------------------------------------
CurrencyInv == Inv /\ HashInv /\ RecordedInv /\ CleanInv /\ DoneInv /\ SettledInv

LEMMA InitCurrency == Init => CurrencyInv
  <1> SUFFICES ASSUME Init
               PROVE  CurrencyInv
    OBVIOUS
  <1>1. Inv
    BY InitTyped, InitFreeze, InitFeedInv DEF Inv
  <1>2. HashInv
    <2>1. RowsMeasureTheirHash
      BY FileValuesAssumption DEF Init, RowsMeasureTheirHash, Readable
    <2> QED
      BY <2>1 DEF Init, HashInv, ImportsNoticed, HashesNoticed, FreshNoticed
  <1>3. RecordedInv /\ CleanInv /\ DoneInv /\ SettledInv
    BY DEF Init, RecordedInv, CleanInv, DoneInv, SettledInv, NoopLeavesArtifact
  <1> QED
    BY <1>1, <1>2, <1>3 DEF CurrencyInv

LEMMA NextCurrency ==
    ASSUME InFlightRemoval = FALSE
    PROVE  CurrencyInv /\ [Next]_vars => CurrencyInv'
  <1> SUFFICES ASSUME CurrencyInv, [Next]_vars
               PROVE  CurrencyInv'
    OBVIOUS
  <1> USE DEF CurrencyInv
  <1>1. HashInv'
    BY ImportsStep, HashesStep, FreshStep, RowsStep DEF HashInv, Inv
  <1>2. Inv'
    BY NextTyped, BeforeStep, SeriesStep, RowsInvStep DEF Inv, FeedInv, HashInv
  <1>3. RecordedInv' /\ CleanInv'
    BY RecordedStep, CleanStep DEF Inv, HashInv
  <1>4. DoneInv'
    BY <1>1, DoneStep DEF HashInv
  <1>5. SettledInv'
    BY SettledStep
  <1> QED
    BY <1>1, <1>2, <1>3, <1>4, <1>5

LEMMA AlwaysCurrency == InFlightRemoval = FALSE => (Spec => []CurrencyInv)
  <1> SUFFICES ASSUME InFlightRemoval = FALSE
               PROVE  Spec => []CurrencyInv
    OBVIOUS
  <1>1. CurrencyInv /\ [Next]_vars => CurrencyInv'
    BY NextCurrency
  <1> QED
    BY InitCurrency, <1>1, PTL DEF Spec

(* Exit status 0 is the permission to publish: until the next edit the      *)
(* artifact has a row for exactly the entries of the feed, measured on the  *)
(* inputs of now, unmarked, with the review status of now.                  *)
THEOREM SuccessCurrent == InFlightRemoval = FALSE => (Spec => []SuccessIsCurrent)
  <1>1. CurrencyInv => SuccessIsCurrent
    BY DEF CurrencyInv, DoneInv, RowsNow, RowIsCurrent, Registered, SuccessIsCurrent
  <1> QED
    BY <1>1, AlwaysCurrency, PTL

(* A row of a written artifact is marked stale exactly if its hash is not   *)
(* that of the inputs of now, until the next edit.                          *)
THEOREM MarkersExact == InFlightRemoval = FALSE => (Spec => []StaleMarkerIsExact)
  <1>1. CurrencyInv => StaleMarkerIsExact
    BY DEF CurrencyInv, DoneInv, MarkersNow, MarkerIsExact, StaleMarkerIsExact
  <1> QED
    BY <1>1, AlwaysCurrency, PTL

(* After exit status 0 history, frontier and rows agree, whatever crashes   *)
(* and torn files came before: a point pushed for one track never passes    *)
(* for the latest point of another.                                         *)
THEOREM SuccessAgreement == InFlightRemoval = FALSE => (Spec => []SuccessAgrees)
  <1>1. CurrencyInv => SuccessAgrees
    BY DEF CurrencyInv, DoneInv, Agreement, SuccessAgrees
  <1> QED
    BY <1>1, AlwaysCurrency, PTL

(* An export after a successful one, with nothing edited and nothing to     *)
(* force, replans every row as carried, pushes nothing and leaves both      *)
(* files as they are.                                                       *)
THEOREM NoopLeaves == InFlightRemoval = FALSE => (Spec => []NoopLeavesArtifact)
  <1>1. CurrencyInv => NoopLeavesArtifact
    BY DEF CurrencyInv, SettledInv
  <1> QED
    BY <1>1, AlwaysCurrency, PTL
=============================================================================
