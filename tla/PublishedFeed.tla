---------------------------- MODULE PublishedFeed ----------------------------
(***************************************************************************)
(* What the readers of results.json and score-history.json are promised:   *)
(* the website, and whoever decides by the exit status of an export        *)
(* whether to publish.  An export is open until it has settled the         *)
(* history; from then on it does nothing but replace the artifact.  How    *)
(* rows are planned, measured and ranked is left to the implementation     *)
(* (IncrementalExport).                                                    *)
(***************************************************************************)
EXTENDS Naturals, Sequences

CONSTANTS
  Ids, NoEntry,         \* row ids; no row for an id
  Point,                \* points of the history
  FrontierOf(_),        \* the frontier of a row set
  NoFrontier,           \* an artifact without one
  NoFile, Torn,         \* a file that is not there; one cut short by a kill
  InitFeeds             \* artifacts from before the first export

VARIABLES
  feed,      \* results.json
  history,   \* score-history.json
  phase,     \* of the export that runs: open, checked (no new record) or
             \* extended (new records are on disk); idle if none does
  outcome    \* exit status of the last one

vars == <<feed, history, phase, outcome>>

Readable(f) == f \notin {NoFile, Torn}

(* A history that cannot be read counts as empty.                           *)
Points == IF Readable(history) THEN history ELSE <<>>

Extends(new, old) == Len(old) < Len(new) /\ SubSeq(new, 1, Len(old)) = old

(* A row is what was measured on the inputs that its hash is of.            *)
Honest(row) == row.measured = row.hash

(* A row of the artifact that is being replaced, marked but not altered.    *)
CarriedStale(i, row) ==
    /\ row.stale
    /\ Readable(feed) /\ feed.rows[i] # NoEntry
    /\ feed.rows[i].hash = row.hash /\ feed.rows[i].measured = row.measured

Init ==
    /\ feed \in InitFeeds
    /\ history = NoFile
    /\ phase = "idle"
    /\ outcome = "none"

Begin ==
    /\ phase = "idle"
    /\ phase' = "open"
    /\ outcome' = "none"
    /\ UNCHANGED <<feed, history>>

Close(status) == phase' = "idle" /\ outcome' = status

(* An export can refuse only before it has written anything.                *)
Refuse ==
    /\ phase = "open"
    /\ Close("failed")
    /\ UNCHANGED <<feed, history>>

NoRecord ==
    /\ phase = "open"
    /\ phase' = "checked"
    /\ UNCHANGED <<feed, history, outcome>>

NewRecord ==
    /\ phase = "open"
    /\ phase' = "extended"
    /\ history' \in Seq(Point)
    /\ Extends(history', Points)
    /\ UNCHANGED <<feed, outcome>>

(* The artifact to publish: every row current and honest, the frontier of   *)
(* these rows, the history that is on disk.                                 *)
Publish ==
    /\ phase \in {"checked", "extended"}
    /\ Close("success")
    /\ Readable(feed')
    /\ \A i \in Ids : feed'.rows[i] # NoEntry =>
          Honest(feed'.rows[i]) /\ ~feed'.rows[i].stale
    /\ feed'.frontier = FrontierOf(feed'.rows)
    /\ feed'.history = Points
    /\ UNCHANGED history

(* The artifact not to publish: no record, the frontier frozen, and of the  *)
(* rows those that are not honest are old ones, marked.                     *)
Degrade ==
    /\ phase = "checked"
    /\ Close("degraded")
    /\ Readable(feed')
    /\ \A i \in Ids : feed'.rows[i] # NoEntry =>
          \/ Honest(feed'.rows[i]) /\ ~feed'.rows[i].stale
          \/ CarriedStale(i, feed'.rows[i])
    /\ feed'.frontier = IF Readable(feed) /\ feed.frontier # NoFrontier
                        THEN feed.frontier ELSE FrontierOf(feed'.rows)
    /\ feed'.history = Points
    /\ UNCHANGED history

Die ==
    /\ phase # "idle"
    /\ Close("killed")
    /\ UNCHANGED <<feed, history>>

TearHistory ==
    /\ phase = "open"
    /\ Close("killed")
    /\ history' = Torn
    /\ UNCHANGED feed

TearFeed ==
    /\ phase \in {"checked", "extended"}
    /\ Close("killed")
    /\ feed' = Torn
    /\ UNCHANGED history

Next ==
    \/ Begin \/ Refuse \/ NoRecord \/ NewRecord \/ Publish \/ Degrade
    \/ Die \/ TearHistory \/ TearFeed

Spec == Init /\ [][Next]_vars
=============================================================================
