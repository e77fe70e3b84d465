------------------------------ MODULE MCExport ------------------------------
(* Two entries and four inputs for TLC.  Entry 1 has a module and a         *)
(* red-team file, entry 2 a module and a fetched, pinned data file.         *)
EXTENDS IncrementalExport

CONSTANTS bn254, c1, c2, data, attack, A, B

MCIds == {1, 2}
MCCurves == {bn254}
MCFiles == {c1, c2, data, attack}
MCCodeFiles == {c1, c2}
MCDataFiles == {data}
MCRedTeamFiles == {attack}
MCDeps == [i \in {1, 2} |-> IF i = 1 THEN {c1, attack} ELSE {c2, data}]

(* A third entry, omitted from the feed, uses the module of the second.     *)
MCIds3 == {1, 2, 3}
MCDeps3 == [i \in {1, 2, 3} |-> IF i = 3 THEN {c2} ELSE MCDeps[i]]

MCContents == {A, B}
MCPin == [f \in {data} |-> A]

(* Entry 1 is standard until its module becomes B, then smaller but not     *)
(* standard; attack B breaks module B.  Entry 2 fits only as module A.      *)
MCOutcome(i, m) ==
    IF i = 1
    THEN [full |-> TRUE, curve |-> bn254, score |-> IF m[c1] = A THEN 3 ELSE 1,
          fits |-> TRUE, standard |-> m[c1] = A, general |-> TRUE, secure |-> TRUE,
          sound |-> ~(m[c1] = B /\ m[attack] = B)]
    ELSE [full |-> TRUE, curve |-> bn254, score |-> 2,
          fits |-> m[c2] = A, standard |-> FALSE, general |-> TRUE, secure |-> TRUE,
          sound |-> TRUE]

(* Module A of entry 1 does not load with attack B.                         *)
MCThrows(i, m) == i = 1 /\ m[c1] = A /\ m[attack] = B

MCDefaultMode == [stamp |-> FALSE, full |-> FALSE, partial |-> FALSE, only |-> {},
                  skip |-> {2}, defer |-> FALSE, drop |-> FALSE, allowMissing |-> FALSE]
MCFull  == [MCDefaultMode EXCEPT !.full = TRUE]
MCDefer == [MCDefaultMode EXCEPT !.defer = TRUE]
MCOnly1 == [MCDefaultMode EXCEPT !.partial = TRUE, !.only = {1}, !.drop = TRUE]
MCModes == {MCDefaultMode, MCFull, MCDefer, MCOnly1}

(* Every setting of the variables but STAMP_HASHES, the one refused alone.  *)
MCAllModes ==
    {m \in [stamp: {FALSE}, full: BOOLEAN, partial: BOOLEAN, only: {{}, {1}, {1, 2}},
            skip: {{}, {2}}, defer: BOOLEAN, drop: BOOLEAN, allowMissing: BOOLEAN] :
        ~m.partial => m.only = {}}
    \cup {[MCDefaultMode EXCEPT !.stamp = TRUE]}

(* An artifact of before the input hashes: its rows are legacy rows.        *)
Legacy(ids, rows) ==
    [rows |-> [i \in ids |->
        IF i \in rows
        THEN [hash |-> NoHash, stale |-> FALSE, ranked |-> TRUE,
              measured |-> [f \in MCFiles |-> IF f \notin MCDeps3[i] THEN Missing
                                              ELSE IF f = c2 THEN B ELSE A]]
        ELSE NoEntry],
     frontier |-> NoFrontier, history |-> <<>>, at |-> 0]

MCInitOutfiles == {NoFile, Legacy(MCIds, {2})}
MCInitOutfiles3 == {NoFile, Legacy(MCIds3, {2, 3})}

(* The tree the deeper runs start from: both entries registered, modules A, *)
(* no red-team file, the data fetched or not.                               *)
MCInit ==
    /\ Init
    /\ registry = Ids
    /\ \A f \in MCCodeFiles : file[f] = A
    /\ file[attack] = Missing

MCSpec == MCInit /\ [][Next]_vars

MCFairSpec == MCSpec /\ Fairness
=============================================================================
