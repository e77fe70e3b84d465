---------------------------- MODULE MCTxv5Grade ----------------------------
(* Runs of two inputs for TLC.  An input is                                 *)
(*   work    the length its shipped op-cost asks for, against 100 shipped   *)
(*   base    its shipped pad                                                *)
(*   takes   the slots in which it accepts a pad                            *)
(*   reads   what a pad byte of the other input costs it                    *)
(* and a run is two inputs with a cap on the length of an unlocking, the    *)
(* hash iterations of each input, a flaw no budget repairs, and the weight  *)
(* of the transaction apart from the unlockings.                            *)
EXTENDS Txv5Grade

MCInputs == {1, 2}

Kind(work, base, takes, reads) ==
    [work |-> work, base |-> base, takes |-> takes, reads |-> reads]

Both == {"grow", "insert"}

(* Tight: no byte to spare; at the boundaries of the push header.           *)
Kinds ==
    {Kind(w, b, Both, x) : w \in {90, 100, 101}, b \in {0, 9}, x \in {0, 400, 800}}
    \cup {Kind(w, 0, {"insert"}, 1) : w \in {175, 176, 177, 178, 179}}
    \cup {Kind(w, 75, {"grow"}, 1) : w \in {101, 102, 103}}
    \cup {Kind(102, 9, {"insert"}, 1), Kind(140, 0, {}, 0), Kind(90, 0, {}, 800)}

RunOf(inputs, cap, iters, flaw, weight) ==
    [inputs |-> inputs, cap |-> cap, iters |-> iters, flaw |-> flaw, weight |-> weight]

(* Every pair of inputs, and runs that meet the limits padding cannot move. *)
PairRuns ==
    {RunOf(<<a, b>>, 400, 0, "none", 1000) : a \in Kinds, b \in Kinds}

LimitRuns ==
    {RunOf(<<Kind(w, b, Both, 1), Kind(90, 0, Both, x)>>, cap, it, flaw, weight) :
        w \in {90, 120, 250}, b \in {0, 9}, x \in {0, 400},
        cap \in {180, 400}, it \in {0, 75, 500}, flaw \in {"none", "real", "any"},
        weight \in {1000, 99750, 99900}}

(* Written as one comprehension, TLC enumerates the set once.               *)
MCRuns == {r : r \in PairRuns \cup LimitRuns}

MCShippedLen(r, i) == 100
MCPadBase(r, i)    == r.inputs[i].base
MCLockingLen(r, i) == IF r.inputs[i].work = 103 THEN 300 ELSE 35

Grown(r, i, u) == UnlockingLen(r, i, u[i]) - 100

(* A standard VM charges hash iterations more.                              *)
MCEvaluate(r, mode, u, i) ==
    LET k == r.inputs[i]
    IN  [ok     |-> /\ r.flaw # "any"
                    /\ u[i].kind = "shipped" \/ u[i].kind \in k.takes
                    /\ UnlockingLen(r, i, u[i]) <= r.cap,
         opCost |-> (DensityBase + k.work) * PerByte + Grown(r, i, u)
                    + k.reads * Grown(r, 3 - i, u)
                    + (IF mode = "standard" THEN 192 ELSE 64) * r.iters,
         iters  |-> r.iters]

MCRealAccepts(r, mode, u, i) ==
    LET m == MCEvaluate(r, mode, u, i)
    IN  /\ m.ok
        /\ WithinLimits(m, mode, UnlockingLen(r, i, u[i]))
        /\ r.flaw # "real"

MCScoreOf(r, lengths) ==
    [score   |-> 70 + r.weight + lengths[1] + lengths[2],
     txBytes |-> r.weight + lengths[1] + lengths[2]]

MCPadLens == {0, 1, 2, 9, 10} \cup 73..80

=============================================================================
