---------------------------- MODULE MCBenchmark ----------------------------
(* Entries for TLC: verifiers of two or three chunks in every structure,    *)
(* each with some of the ways a verifier goes wrong.                        *)
EXTENDS Benchmark

(* A locking, a commitment or a category is its kind and its length.        *)
(* A push is an opcode that stands for a number, or data with its length    *)
(* before it.  The bytes of a number are its digits, the least first.       *)
MCVmNumber(n) == IF n = 0 THEN << >> ELSE IF n < 256 THEN << n >> ELSE << n % 256, n \div 256 >>
MCRawPush(b) == << "data", b >>
MCDataPush(b) == IF Len(b) = 1 /\ b[1] \in 1 .. 16 THEN << "op", b[1] >> ELSE MCRawPush(b)
MCBytesOf(p) == IF p[1] = "op" THEN None ELSE p[2]
MCNumberOf(p) ==
    IF p[1] = "op" THEN p[2]
    ELSE IF Len(p[2]) > 2 THEN None
    ELSE MapThenSumSet(LAMBDA k : p[2][k] * 256 ^ (k - 1), DOMAIN p[2])
MCWidthOf(e) == IF e \in {"le32", "be32"} THEN 1 ELSE 2
MCSize(x) ==
    IF x = OpReturn THEN 1 ELSE IF x = EmptyBytes THEN 0
    ELSE IF x[1] = None THEN x[3]
    ELSE MapThenSumSet(LAMBDA k : IF x[k][1] = "op" THEN 1 ELSE 1 + Len(x[k][2]), DOMAIN x)
MCEnvelope(l) == IF l[2] = "p2sh20" THEN "p2sh20" ELSE "p2s"

(* The unlocking of a chunk: a pad, the proof it works on with a witness    *)
(* byte, its claim as a number and packed twice into the last push.         *)
Pad == MCRawPush([j \in 1 .. 8 |-> 0])
ProofPush(p) == MCRawPush([j \in 1 .. 9 |-> IF j = 1 THEN p ELSE 7])
Unlock(p, claim) == << Pad, ProofPush(p), MCDataPush(MCVmNumber(claim)), MCRawPush(<< claim % 256, 0, claim % 256 >>) >>

(* The claim a proof is of.                                                 *)
ClaimOf(p) == CASE p = 1 -> 1 [] p = 2 -> 5 [] p = 3 -> 250

Sound ==
    [binds |-> "forward", checks |-> {"proof", "witness", "number", "packed"}, ends |-> "one",
     strict |-> "same", standard |-> "same", rejects |-> {}, lazy |-> FALSE, cost |-> 1000]

ProofOf(u) == MCBytesOf(u[2])[1]
Wellformed(v, u) ==
    /\ Len(u) = 4 /\ MCBytesOf(u[1]) # None /\ (v.lazy \/ Len(MCBytesOf(u[1])) < 40)
    /\ ProofOf(u) \in {1, 2, 3} \ v.rejects
    /\ "witness" \in v.checks => \A j \in 2 .. 9 : MCBytesOf(u[2])[j] = 7
    /\ "number" \in v.checks => MCNumberOf(u[3]) = ClaimOf(ProofOf(u))
    /\ "packed" \in v.checks => /\ MCBytesOf(u[4]) # None
                                /\ MCBytesOf(u[4])[1] = ClaimOf(ProofOf(u))
                                /\ MCBytesOf(u[4])[3] = ClaimOf(ProofOf(u))

(* A chunk compares its proof with that of the next or the previous input,  *)
(* and a lazy one accepts any pad of its own but not of a sibling.          *)
Bound(v, p) ==
    LET u(k) == p.inputs[k].unlock
        other == IF v.binds = "forward" THEN p.index + 1 ELSE p.index - 1
    IN  \/ v.binds = "none"
        \/ other \notin DOMAIN p.inputs
        \/ /\ Len(u(other)) = 4
           /\ MCBytesOf(u(other)[2]) # None
           /\ ProofOf(u(other)) = ProofOf(u(p.index))
           /\ MCBytesOf(u(other)[1]) = MCBytesOf(Pad)

MCOutcome(v, vm, p) ==
    IF ~(Wellformed(v, p.inputs[p.index].unlock) /\ Bound(v, p)) THEN "false"
    ELSE IF vm \in {"bch", "spec"} /\ v.strict # "same" THEN v.strict
    ELSE IF vm \in {"bch standard", "spec standard"} /\ v.standard # "same" THEN v.standard
    ELSE v.ends

MCOpCost(v, p) == v.cost

-----------------------------------------------------------------------------
Bare(l, u, c) == [lock |-> l, unlock |-> u, checkpoint |-> c,
                  covenant |-> None, intraTx |-> None, grouped |-> None]

Stages == << "prepare", "vk_x", "miller" >>

(* A run of a structure in which step i has unlocking us[i].                *)
Run(kind, lock, us) ==
    LET ls == [i \in DOMAIN us |-> << None, lock, 20 + i >>]
        inputs(I) == [k \in 1 .. Cardinality(I) |->
                        [lock |-> ls[Min(I) + k - 1], unlock |-> us[Min(I) + k - 1]]]
        group(i) == IF i <= 2 THEN 1 ELSE 2
        members(i) == {j \in DOMAIN us : group(j) = group(i)}
        token == [capability |-> "mutable", commitment |-> << None, "state", 40 >>]
        bare(i) == Bare(ls[i], us[i], Stages[i])
    IN  [i \in DOMAIN us |->
          CASE kind = "bare" -> bare(i)
            [] kind = "covenant" ->
                 [bare(i) EXCEPT !.covenant =
                    [category |-> << None, "category", 32 >>, capability |-> "mutable",
                     inCommitment |-> << None, "state", i >>, outCommitment |-> << None, "state", i + 1 >>,
                     outLock |-> << None, "lock", 30 >>, inputCapability |-> None, baton |-> FALSE]]
            [] kind = "intraTx" ->
                 [bare(i) EXCEPT !.intraTx = [index |-> i, inputs |-> inputs(DOMAIN us)]]
            [] kind = "grouped" ->
                 [bare(i) EXCEPT !.grouped =
                    [group |-> group(i), index |-> i - Min(members(i)) + 1, inputs |-> inputs(members(i)),
                     category |-> << None, "category", 32 >>, inToken |-> IF group(i) = 2 THEN token ELSE None,
                     inputTokens |-> None, outToken |-> IF group(i) = 1 THEN token ELSE None,
                     outLock |-> IF group(i) = 1 THEN << None, "lock", 23 >> ELSE None]]]

Honestly(kind, n, lock, p) == Run(kind, lock, [i \in 1 .. n |-> Unlock(p, ClaimOf(p))])

Flipped(kind, n, lock) ==
    Run(kind, lock, [i \in 1 .. n |-> IF i = 1 THEN [Unlock(1, 1) EXCEPT ![3] = << "op", 9 >>] ELSE Unlock(1, 1)])

Scenario(kind, n, lock, extras, worst, invalid, tamperable, profileOnly, opReturn) ==
    [valid |-> Honestly(kind, n, lock, 1), extras |-> extras, worst |-> worst, invalid |-> invalid,
     invalidInputs |-> << >>, tamperable |-> tamperable, profileOnly |-> profileOnly, bsvOpReturn |-> opReturn]

ProofLocator == << [input |-> 1, push |-> 2, encoding |-> "bytes", offset |-> None, length |-> 1] >>

Slot(i, k, name, offset, e) == [input |-> i, push |-> k, name |-> name, offset |-> offset, encoding |-> e]
NumberSlot == Slot(1, 3, "x", None, None)
PackedSlots == << Slot(1, 4, "x", 0, "le32"), Slot(1, 4, "x", 2, "be32") >>

Declarations ==
    { << >>, << NumberSlot >>, << NumberSlot >> \o PackedSlots, << Slot(1, 4, "x", 0, "le32"), Slot(2, 4, "y", 1, "le48") >>,
      << Slot(1, 4, "x", 0, "le48"), Slot(2, 3, "x", None, None) >>, << Slot(1, 4, "x", 1, "be48"), Slot(2, 3, "x", None, None) >>,
      << Slot(1, 4, "x", 2, "le48") >> }

Impl(vm, binding, locators, decl) ==
    [vm |-> vm, field |-> "BN254", proofSystem |-> "Groth16", demo |-> FALSE, proofBinding |-> binding, proofInputs |-> locators, publicInputs |-> decl, order |-> 7]

PatchTo(i, u) == [input |-> i, unlock |-> u]
Forged == [Unlock(1, 1) EXCEPT ![3] = << "op", 9 >>]

Attacks(n) ==
    [lockings |-> [i \in 1 .. n |-> << None, "lock", 20 + i >>],
     runs |-> << << PatchTo(1, Unlock(2, 5)), PatchTo(1, Forged) >>, << PatchTo(n, Forged) >> >>]

AttackFiles(n) ==
    { None, Attacks(n),
      [lockings |-> << << None, "lock", 1 >> >>, runs |-> << << PatchTo(1, Forged) >> >>],
      [lockings |-> [i \in 1 .. n |-> << None, "lock", 20 + i >>], runs |-> << << PatchTo(n + 1, Forged) >> >>] }

Entry(v, i, s, a) == [verifier |-> v, impl |-> i, scenario |-> s, attacks |-> a]

Kinds == {<< "bare", 1 >>, << "covenant", 2 >>, << "intraTx", 2 >>, << "intraTx", 3 >>, << "grouped", 3 >>}

Extras(k, locks) == [j \in 1 .. 1 |-> Honestly(k[1], k[2], locks, 2)]

(* Every declaration and every kind of verifier; every combination of the   *)
(* evidence; entries that are not current BCH.                              *)
MCInit ==
    /\ phase = "contract"
    /\ row = NoRow
    /\ \/ \E k \in Kinds \ {<< "bare", 1 >>}, decl \in Declarations, b \in {"forward", "back", "none"}, z \in BOOLEAN,
             c \in {Sound.checks, {"proof", "witness", "packed"}, {"proof", "witness", "number"}} :
            entry = Entry([Sound EXCEPT !.binds = b, !.checks = c, !.lazy = z],
                          Impl("bch-2026", "runtime", ProofLocator, decl),
                          Scenario(k[1], k[2], "lock", Extras(k, "lock"), None,
                                   << Flipped(k[1], k[2], "lock") >>, TRUE, FALSE, FALSE),
                          IF k[1] = "intraTx" THEN Attacks(k[2]) ELSE None)
       \/ \E k \in {<< "intraTx", 2 >>, << "covenant", 2 >>}, r \in {{}, {1}, {2}, {3}}, f \in AttackFiles(2),
             l \in {"lock", "p2sh20"}, x \in BOOLEAN, w \in BOOLEAN, i \in {None, << >>, << 1 >>}, loc \in {<< >>, ProofLocator},
             c \in {Sound.checks, {"proof", "packed"}} :
            entry = Entry([Sound EXCEPT !.rejects = r, !.checks = c], Impl("bch-2026", "runtime", loc, << >>),
                          Scenario(k[1], k[2], l, IF x THEN Extras(k, l) ELSE << >>,
                                   IF w THEN Honestly(k[1], k[2], l, 3) ELSE None,
                                   IF i = << 1 >> THEN << Flipped(k[1], k[2], l) >> ELSE i, TRUE, FALSE, FALSE),
                          f)
       \/ \E k \in Kinds, vm \in {"bch-2026", "bch-spec"}, t \in {"same", "op-cost", "false", "truthy"}, s \in {"same", "limit"},
             e \in Outcomes \ Errors, p, o \in BOOLEAN, g \in {"runtime", "baked"}, cost \in {1000, 9000000} :
            entry = Entry([Sound EXCEPT !.strict = t, !.standard = s, !.ends = e, !.cost = cost],
                          Impl(vm, g, ProofLocator, << NumberSlot >>),
                          Scenario(k[1], k[2], "lock", << Honestly(k[1], k[2], "lock", 3) >>, None, None, TRUE, p, o), None)

MCSpec == MCInit /\ [][Next]_vars
=============================================================================
