------------------------------- MODULE Gates -------------------------------
(***************************************************************************)
(* The runs the harness derives from an honest one, and what it concludes  *)
(* from their evaluation: bit flips (src/harness/tamper.ts), splices of    *)
(* two proofs (crossStageStaple of src/harness/benchmark.ts), maintainer   *)
(* attacks (src/harness/redteam.ts), mutated public inputs and longer pads *)
(* (src/harness/gates.ts).                                                 *)
(*                                                                         *)
(* The virtual machines are left open: Outcome(v, vm, program) is how      *)
(* machine vm ends on the input evaluated by a program, for the verifier   *)
(* v.  An unlocking is a sequence of pushes; slots and pads are counted    *)
(* from one.  VmNumber(n) are the bytes of a number, DataPush(b) the       *)
(* shortest push of bytes, RawPush(b) a push with a length before them.    *)
(* Fields packed in one push are taken to be disjoint.                     *)
(***************************************************************************)
EXTENDS ScenarioContract, FiniteSetsExt, SequencesExt

CONSTANTS Outcome(_, _, _), VmNumber(_), DataPush(_), RawPush(_), WidthOf(_)

CONSTANTS
  Radix,     \* 256, the values of a byte
  MinPad,    \* 8, the shortest push of zeros that is taken for a pad
  PadGrowth  \* 32, the bytes a pad is lengthened by

-----------------------------------------------------------------------------
(* Evaluation.  An evaluation ends with the single item one, with another   *)
(* single truthy item, the latter at an OP_RETURN, without error on another *)
(* stack, or with one of the errors.                                        *)

Errors == {"script-size", "op-cost", "limit"}

Outcomes == {"one", "truthy", "truthy at OP_RETURN", "false"} \cup Errors

Accepted(o) == o = "one"

BsvAccepted(o) == o \in {"one", "truthy", "truthy at OP_RETURN"}

Accepts(v, vm, s, bsv) ==
    LET o == Outcome(v, vm, Program(s)) IN IF bsv THEN BsvAccepted(o) ELSE Accepted(o)

RunRejects(v, vm, run, bsv) == \E i \in DOMAIN run : ~Accepts(v, vm, run[i], bsv)

-----------------------------------------------------------------------------
(* Replacing unlockings                                                     *)

Unlockings(valid, replace) ==
    [i \in DOMAIN valid |-> IF i \in DOMAIN replace THEN replace[i] ELSE valid[i].unlock]

(* Variant: the steps that are replaced see their new unlocking, siblings   *)
(* of a group do not.                                                       *)
WithUnlockingsOwnOnly(valid, replace) ==
    LET u == Unlockings(valid, replace)
    IN  [i \in DOMAIN valid |->
          [valid[i] EXCEPT !.unlock = u[i],
             !.intraTx = IF valid[i].intraTx = None THEN None
                         ELSE [index |-> i, inputs |-> [k \in DOMAIN valid |->
                                  [valid[k].intraTx.inputs[k] EXCEPT !.unlock = u[k]]]],
             !.grouped = IF valid[i].grouped = None THEN None
                         ELSE [valid[i].grouped EXCEPT !.inputs[valid[i].grouped.index].unlock = u[i]]]]

(* withUnlockings: a new unlocking reaches the context of every step that   *)
(* sees it.                                                                 *)
WithUnlockings(valid, replace) ==
    LET u        == Unlockings(valid, replace)
        own(i)   == [valid[i] EXCEPT !.unlock = u[i]]
        inputs   == [k \in DOMAIN valid |-> [valid[k].intraTx.inputs[k] EXCEPT !.unlock = u[k]]]
        group(i) == Members(valid, valid[i].grouped.group)
        base(i)  == valid[First(valid, valid[i].grouped.group)].grouped.inputs
        at(i, k) == {j \in group(i) : valid[j].grouped.index = k}
        shared(i) == [k \in DOMAIN base(i) |->
                        IF at(i, k) = {} THEN base(i)[k]
                        ELSE [base(i)[k] EXCEPT !.unlock = u[Max(at(i, k))]]]
    IN  [i \in DOMAIN valid |->
          IF \A j \in DOMAIN valid : valid[j].intraTx # None
          THEN [own(i) EXCEPT !.intraTx = [index |-> i, inputs |-> inputs]]
          ELSE IF valid[i].grouped # None THEN [own(i) EXCEPT !.grouped.inputs = shared(i)]
          ELSE own(i)]

-----------------------------------------------------------------------------
(* Bit flips: the middle byte of the longest push with a payload            *)

Payload(p) == IF BytesOf(p) = None THEN 0 ELSE Len(BytesOf(p))

FlipBit(b) == IF b % 2 = 0 THEN b + 1 ELSE b - 1

Longest(unlock) ==
    CHOOSE k \in DOMAIN unlock : \A j \in DOMAIN unlock :
        IF j < k THEN Payload(unlock[j]) < Payload(unlock[k]) ELSE Payload(unlock[j]) <= Payload(unlock[k])

CanTamper(unlock) == \E k \in DOMAIN unlock : Payload(unlock[k]) > 0

TamperProof(unlock) ==
    LET k     == Longest(unlock)
        bytes == BytesOf(unlock[k])
    IN  [unlock EXCEPT ![k] = RawPush([bytes EXCEPT ![Len(bytes) \div 2 + 1] = FlipBit(@)])]

(* The runs derived from a tamperable scenario: the context of a step is    *)
(* left as it is.                                                           *)
TamperedRuns(valid) ==
    LET at == SelectSeq([i \in DOMAIN valid |-> i], LAMBDA i : CanTamper(valid[i].unlock))
    IN  [n \in DOMAIN at |-> [valid EXCEPT ![at[n]].unlock = TamperProof(@)]]

(* Explicit invalid runs, else derived ones.                                *)
InvalidRuns(s) ==
    IF s.invalid # None THEN s.invalid ELSE IF s.tamperable THEN TamperedRuns(s.valid) ELSE << >>

-----------------------------------------------------------------------------
(* Splices                                                                  *)

Checkpoints(run) == {run[i].checkpoint : i \in DOMAIN run} \ {None}

StapleApplies(base) ==
    /\ Len(base) > 1
    /\ \A i \in DOMAIN base : base[i].intraTx # None
    /\ Cardinality(Checkpoints(base)) >= 2

(* Inputs 1 .. k of one proof and the rest of another, in one transaction.  *)
Hybrid(base, other, k) ==
    [i \in DOMAIN base |->
        [lock |-> base[i].lock, unlock |-> IF i <= k THEN base[i].unlock ELSE other[i].unlock]]

(* Only the inputs before the seam are evaluated.                           *)
SeamRejects(v, base, other, k, bsv) ==
    \E i \in 1 .. k :
        LET o == Outcome(v, "loosened", IntraTxProgram([index |-> i, inputs |-> Hybrid(base, other, k)]))
        IN  ~(IF bsv THEN BsvAccepted(o) ELSE Accepted(o))

Staple(applicable, tested, unbound, untested) ==
    [applicable |-> applicable, seamsTested |-> tested, unboundSeams |-> unbound, reason |-> untested]

(* Variant: the seam before the last input is not sampled.                  *)
CrossStageStapleShort(v, base, other, bsv) ==
    IF ~StapleApplies(base) THEN Staple(FALSE, 0, 0, FALSE)
    ELSE IF other = None THEN Staple(TRUE, 0, 0, TRUE)
    ELSE Staple(TRUE, Len(base) - 1,
                Cardinality({k \in 1 .. Len(base) - 2 : ~SeamRejects(v, base, other, k, bsv)}), FALSE)

CrossStageStaple(v, base, other, bsv) ==
    IF ~StapleApplies(base) THEN Staple(FALSE, 0, 0, FALSE)
    ELSE IF other = None THEN Staple(TRUE, 0, 0, TRUE)
    ELSE Staple(TRUE, Len(base) - 1,
                Cardinality({k \in 1 .. Len(base) - 1 : ~SeamRejects(v, base, other, k, bsv)}), FALSE)

-----------------------------------------------------------------------------
(* Maintainer attacks.  A file names the lockings it was written for and    *)
(* lists runs, each a sequence of patches of an input.                      *)

Patch(attack, i) ==
    LET at == {n \in DOMAIN attack : attack[n].input = i}
    IN  IF at = {} THEN None ELSE attack[Max(at)].unlock

PatchedRun(valid, attack) ==
    LET unlock(i) == Given(Patch(attack, i), valid[i].unlock)
        inputs    == [k \in DOMAIN valid |-> [valid[k].intraTx.inputs[k] EXCEPT !.unlock = unlock(k)]]
    IN  [i \in DOMAIN valid |->
            [valid[i] EXCEPT !.unlock = unlock(i), !.intraTx = [index |-> i, inputs |-> inputs]]]

RedTeamThrows(file, valid) ==
    /\ file # None
    /\ \/ \E i \in DOMAIN valid : valid[i].intraTx = None
       \/ /\ file.lockings = [i \in DOMAIN valid |-> valid[i].lock]
          /\ \E n \in DOMAIN file.runs : \E m \in DOMAIN file.runs[n] :
                file.runs[n][m].input \notin DOMAIN valid

RedTeam(v, file, valid, bsv) ==
    LET stale == file # None /\ file.lockings # [i \in DOMAIN valid |-> valid[i].lock]
    IN  [present  |-> file # None,
         stale    |-> stale,
         tested   |-> IF file = None \/ stale THEN 0 ELSE Len(file.runs),
         accepted |-> IF file = None \/ stale THEN 0
                      ELSE Cardinality({n \in DOMAIN file.runs :
                              ~RunRejects(v, "loosened", PatchedRun(valid, file.runs[n]), bsv)})]

-----------------------------------------------------------------------------
(* Public inputs.  A slot is a number push, or a field of fixed width in a  *)
(* push.  Slots with one name are copies of one input, named by its first.  *)

LittleEndian(e) == e \in {"le32", "le48"}

Field(d, offset, e) ==
    LET w     == WidthOf(e)
        at(k) == d[offset + (IF LittleEndian(e) THEN k + 1 ELSE w - k)]
    IN  SumFunction([k \in 0 .. w - 1 |-> at(k) * Radix ^ k])

FitsField(n, e) == 0 <= n /\ n < Radix ^ WidthOf(e)

WriteField(d, offset, e, n) ==
    LET w        == WidthOf(e)
        digit(k) == (n \div Radix ^ k) % Radix
    IN  [j \in DOMAIN d |->
            IF j \notin offset + 1 .. offset + w THEN d[j]
            ELSE digit(IF LittleEndian(e) THEN j - offset - 1 ELSE w - (j - offset))]

SlotValue(valid, d) ==
    LET push == valid[d.input].unlock[d.push]
    IN  IF d.push \notin DOMAIN valid[d.input].unlock THEN None
        ELSE IF d.offset = None THEN NumberOf(push)
        ELSE IF BytesOf(push) = None THEN None
        ELSE IF Len(BytesOf(push)) < d.offset + WidthOf(d.encoding) THEN None
        ELSE Field(BytesOf(push), d.offset, d.encoding)

InputName(decl, i) == Min({j \in DOMAIN decl : decl[j].name = decl[i].name})

Names(decl) == {InputName(decl, i) : i \in DOMAIN decl}

Truth(valid, decl) == [n \in Names(decl) |-> SlotValue(valid, decl[n])]

(* Otherwise the gate throws.                                               *)
Consistent(valid, decl) ==
    \A i \in DOMAIN decl :
        SlotValue(valid, decl[i]) # None /\ SlotValue(valid, decl[i]) = Truth(valid, decl)[InputName(decl, i)]

(* The claims that are tried: each input one more, one less, zero and one   *)
(* group order more, and the first two swapped.                             *)
Candidates(truth, r) ==
    LET change(label, n, x) == << label, n, [truth EXCEPT ![n] = x] >>
        of(n) == {change("+ 1", n, truth[n] + 1), change("+ r", n, truth[n] + r)}
                 \cup (IF truth[n] > 0 THEN {change("- 1", n, truth[n] - 1)} ELSE {})
                 \cup (IF truth[n] # 0 THEN {change("= 0", n, 0)} ELSE {})
        a == Min(DOMAIN truth)
        b == Min(DOMAIN truth \ {a})
    IN  (UNION {of(n) : n \in DOMAIN truth})
        \cup IF Cardinality(DOMAIN truth) >= 2 /\ truth[a] # truth[b]
             THEN {<< "swapped", a, [truth EXCEPT ![a] = truth[b], ![b] = truth[a]] >>}
             ELSE {}

FitsSlots(decl, claim) ==
    \A i \in DOMAIN decl :
        decl[i].offset # None => FitsField(claim[InputName(decl, i)], decl[i].encoding)

Written(push, d, n) ==
    IF d.offset = None THEN DataPush(VmNumber(n))
    ELSE DataPush(WriteField(BytesOf(push), d.offset, d.encoding, n))

(* The unlockings after a claim is written to some of the slots, one after  *)
(* the other.                                                               *)
WriteSlots(valid, decl, claim, slots) ==
    LET after[n \in 0 .. Len(decl)] ==
            IF n = 0 THEN [i \in DOMAIN valid |-> valid[i].unlock]
            ELSE IF n \notin slots THEN after[n - 1]
            ELSE [after[n - 1] EXCEPT ![decl[n].input][decl[n].push] =
                                        Written(@, decl[n], claim[InputName(decl, n)])]
    IN  after[Len(decl)]

(* Variant: a claim is written to the first copy of its input only.         *)
ClaimedFirstCopy(valid, decl, claim) ==
    [i \in {decl[n].input : n \in DOMAIN decl} |-> WriteSlots(valid, decl, claim, Names(decl))[i]]

(* The new unlockings of a claim: every slot of every input is written.     *)
Claimed(valid, decl, claim) ==
    [i \in {decl[n].input : n \in DOMAIN decl} |-> WriteSlots(valid, decl, claim, DOMAIN decl)[i]]

ClaimRuns(valid, decl, r) ==
    {<< c, WithUnlockings(valid, Claimed(valid, decl, c[3])) >> :
        c \in {x \in Candidates(Truth(valid, decl), r) : FitsSlots(decl, x[3])}}

PublicInputThrows(valid, decl) == decl # << >> /\ ~Consistent(valid, decl)

PublicInputGate(v, valid, decl, r, bsv) ==
    IF decl = << >> THEN [declared |-> FALSE, tested |-> 0, accepted |-> 0, skipped |-> 0]
    ELSE LET runs == ClaimRuns(valid, decl, r)
         IN  [declared |-> TRUE,
              tested   |-> Cardinality(runs),
              accepted |-> Cardinality({x \in runs : ~RunRejects(v, "loosened", x[2], bsv)}),
              skipped  |-> Cardinality(Candidates(Truth(valid, decl), r)) - Cardinality(runs)]

-----------------------------------------------------------------------------
(* Pads: a review, not a verdict                                            *)

IsPad(unlock, k) ==
    /\ k # Len(unlock)
    /\ BytesOf(unlock[k]) # None
    /\ Payload(unlock[k]) = 0 \/ Payload(unlock[k]) >= MinPad
    /\ \A j \in DOMAIN BytesOf(unlock[k]) : BytesOf(unlock[k])[j] = 0

Pads(valid) ==
    {x \in UNION {{i} \X DOMAIN valid[i].unlock : i \in DOMAIN valid} : IsPad(valid[x[1]].unlock, x[2])}

Grown(p) == DataPush(BytesOf(p) \o [j \in 1 .. PadGrowth |-> 165])

PadRun(valid, x) ==
    WithUnlockings(valid, [i \in {x[1]} |-> [valid[i].unlock EXCEPT ![x[2]] = Grown(@)]])

(* The siblings that accepted before and reject the longer pad.             *)
Dependents(v, valid, x, bsv) ==
    {j \in DOMAIN valid \ {x[1]} :
        Accepts(v, "loosened", valid[j], bsv) /\ ~Accepts(v, "loosened", PadRun(valid, x)[j], bsv)}

LayoutGate(v, valid, bsv) ==
    LET applicable == Len(valid) >= 2 /\ \A i \in DOMAIN valid : valid[i].intraTx # None
        malleable  == {x \in Pads(valid) : Accepts(v, "loosened", PadRun(valid, x)[x[1]], bsv)}
        dependent  == {x \in malleable : Dependents(v, valid, x, bsv) # {}}
    IN  IF ~applicable THEN [applicable |-> FALSE, padsTested |-> 0, malleable |-> 0, dependencies |-> {}]
        ELSE [applicable   |-> TRUE,
              padsTested   |-> Cardinality(Pads(valid)),
              malleable    |-> Cardinality(malleable),
              dependencies |-> {<< x, Dependents(v, valid, x, bsv) >> : x \in dependent}]
=============================================================================
