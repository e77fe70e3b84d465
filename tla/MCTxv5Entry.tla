---------------------------- MODULE MCTxv5Entry ----------------------------
(* Entries of one run, every run of MCTxv5Grade; entries of two and three   *)
(* runs, from runs whose figures differ in kind, cost and relayability; and *)
(* variants that leave an honest run out or accept an invalid one.          *)
EXTENDS MCTxv5Grade, Txv5Entry

Name(k) == <<"fixture 0", "extra proof #1", "worst-case proof">>[k]

Of(runs) == [runs |-> runs,
             names |-> [k \in DOMAIN runs |-> Name(k)],
             shippedNames |-> [k \in DOMAIN runs |-> Name(k)],
             invalid |-> {}]

Light == Kind(90, 0, Both, 0)

(* Valid as shipped, light or heavy, relayable or not; padded a little, a   *)
(* lot, over the relay limit; with a pinned layout; invalid.                *)
Sample ==
    {RunOf(<<Light, Light>>, 400, 0, "none", w) : w \in {1000, 1200, 99900}}
    \cup {RunOf(<<Kind(w, 0, Both, 0), Light>>, 400, 0, "none", 1000) : w \in {101, 250}}
    \cup {RunOf(<<Kind(250, 0, Both, 0), Light>>, 400, 0, "none", 99750),
          RunOf(<<Kind(140, 0, {}, 0), Light>>, 400, 0, "none", 1000),
          RunOf(<<Light, Light>>, 400, 0, "real", 1000)}

Unfit == RunOf(<<Light, Light>>, 400, 0, "any", 1000)

(* What the third run is: heavy, padded and not relayable, invalid.         *)
Last == {x \in Sample : x.weight # 1000 \/ x.flaw # "none"}

MCEntries ==
    {e : e \in {Of(<<r>>) : r \in MCRuns}
        \cup {Of(<<a, b>>) : a \in Sample, b \in Sample}
        \cup {Of(<<a, b, c>>) : a \in Sample, b \in Sample, c \in Last}
        \cup {[Of(<<r>>) EXCEPT !.invalid = {q, Unfit}] : r \in Sample, q \in Sample \cup {Unfit}}
        \cup {[Of(<<r>>) EXCEPT !.shippedNames = <<Name(1), Name(3)>>] : r \in Sample}}

MCRunsOfEntries == {r : r \in MCRuns \cup Sample \cup {Unfit}}
=============================================================================
