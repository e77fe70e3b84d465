---------------------------- MODULE ScoreHistory ----------------------------
(***************************************************************************)
(* Ranking of the measured rows and the score history of the export        *)
(* (src/harness/export-json.ts).  A row is seen here through the fields    *)
(* the ranking reads; `e' is always the merged row set of one export, a    *)
(* function from ids to a result or NoEntry, and `unranked' the ids whose  *)
(* review status is withdrawn or archived.  Ids are numbered in registry   *)
(* order, which is the order the code's stable sort falls back to.         *)
(***************************************************************************)
EXTENDS Integers, Sequences

CONSTANTS Ids,        \* ids of the implementations, numbered in registry order
          Curves,     \* pairing curves of the entries
          Official,   \* ids seeded from BSV main net, never the leader
          NoEntry     \* no row for an id

ASSUME IdsAssumption == Ids \subseteq Nat
ASSUME NoEntryAssumption == NoEntry \notin [full: BOOLEAN, curve: Curves,
                                            score: Nat, fits: BOOLEAN,
                                            standard: BOOLEAN, general: BOOLEAN,
                                            secure: BOOLEAN, sound: BOOLEAN]

(* What the ranking reads of a row: category full, curve, score, fits the   *)
(* BCH limits, fits relay standardness, verifies any proof at run time,     *)
(* secure packaging, correctness verdict other than fail.                   *)
Result == [full: BOOLEAN, curve: Curves, score: Nat, fits: BOOLEAN,
           standard: BOOLEAN, general: BOOLEAN, secure: BOOLEAN, sound: BOOLEAN]

(* A point of the history file; the point of a non-fitting singleton has    *)
(* fits = FALSE.                                                            *)
Point == [id: Ids, score: Nat, fits: BOOLEAN]

Present(e) == {i \in Ids : e[i] # NoEntry}

Active(e, unranked) == {i \in Present(e) : e[i].full /\ i \notin unranked}

(* The winner of a sort by score: at most one id, the first in registry     *)
(* order among the equals.                                                  *)
Smallest(e, S) ==
    {i \in S : \A j \in S : \/ e[i].score < e[j].score
                            \/ e[i].score = e[j].score /\ i <= j}

Verified(e, i) == e[i].secure /\ e[i].sound

Native(e, i) == e[i].fits /\ e[i].general /\ Verified(e, i)

Leader(e, unranked) ==
    Smallest(e, {i \in Active(e, unranked) : i \notin Official /\ Verified(e, i)})

BestBchNative(e, unranked) ==
    Smallest(e, {i \in Active(e, unranked) : Native(e, i)})

Anchor == [id: Ids, score: Nat]

(* An anchor of the frontier is the set of its one value, {} for null.      *)
Frontier(e, unranked) ==
    [leader  |-> {[id |-> i, score |-> e[i].score] : i \in Leader(e, unranked)},
     current |-> {[id |-> i, score |-> e[i].score] : i \in BestBchNative(e, unranked)}]

-----------------------------------------------------------------------------
(* The tracks of the history, in the order recordHistory visits them.       *)
Kinds == {1, 2, 3}
Standard == 1
NonStandard == 2
Ideal == 3

Track == [kind: Kinds, curve: Curves]

TracksOf(e) ==
    {t \in Track : \E i \in Present(e) : e[i].full /\ e[i].curve = t.curve}

OnTrack(e, i, t) ==
    /\ e[i].curve = t.curve
    /\ \/ t.kind = Standard    /\ Native(e, i) /\ e[i].standard
       \/ t.kind = NonStandard /\ Native(e, i) /\ ~e[i].standard
       \/ /\ t.kind = Ideal
          /\ i \notin Official
          /\ ~e[i].fits
          /\ Verified(e, i)

Best(e, unranked, t) ==
    Smallest(e, {i \in Active(e, unranked) : OnTrack(e, i, t)})

(* The positions of the series that count as earlier points of the track    *)
(* whose new best is b: points of rows that are present, sound and ranked   *)
(* now, on the curve and with the standardness those rows have now.         *)
Earlier(series, e, unranked, t, b) ==
    {k \in DOMAIN series :
        LET i == series[k].id
        IN  /\ e[i] # NoEntry
            /\ e[i].sound
            /\ i \notin unranked
            /\ series[k].fits = (t.kind # Ideal)
            /\ e[i].curve = t.curve
            /\ e[i].standard = e[b].standard}

(* The latest of them has the score of b, so b is not a new record.         *)
Known(series, e, unranked, t, b) ==
    LET earlier == Earlier(series, e, unranked, t, b)
    IN  \E k \in earlier : /\ \A m \in earlier : m <= k
                           /\ series[k].score = e[b].score

PointOf(e, t, b) == [id |-> b, score |-> e[b].score, fits |-> t.kind # Ideal]

(* Variant: a row that has a point already gets no other.                   *)
PushOnce(series, e, unranked, t, b) ==
    IF \E k \in DOMAIN series : series[k].id = b
    THEN series
    ELSE Append(series, PointOf(e, t, b))

(* Variant: the latest point of the track is replaced.                      *)
PushReplacing(series, e, unranked, t, b) ==
    LET earlier == Earlier(series, e, unranked, t, b)
    IN  IF Known(series, e, unranked, t, b) THEN series
        ELSE IF earlier = {} THEN Append(series, PointOf(e, t, b))
        ELSE [k \in DOMAIN series |->
                IF k \in earlier /\ \A m \in earlier : m <= k
                THEN PointOf(e, t, b) ELSE series[k]]

(* One turn of the loop of recordHistory, for the best row b of track t.    *)
Push(series, e, unranked, t, b) ==
    IF Known(series, e, unranked, t, b)
    THEN series
    ELSE Append(series, PointOf(e, t, b))
=============================================================================
