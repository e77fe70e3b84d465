----------------------------- MODULE Benchmark -----------------------------
(***************************************************************************)
(* benchmark() of src/harness/benchmark.ts: one entry, loaded, is checked  *)
(* against the contract, run, and graded, one action per phase; an         *)
(* exception of any phase leaves no row.  Beside it the three derivations  *)
(* of a verdict from the result: pass, the label of the command line       *)
(* (verdictOf) and the row of the feed (correctnessOf and bchCell of       *)
(* src/harness/entry.ts).  The TXv5 grade is in module Txv5Grade.          *)
(*                                                                         *)
(* Envelope(lock) is how a locking packages its contract, OpCost(v, p) the *)
(* cost of an evaluation without limits.                                   *)
(***************************************************************************)
EXTENDS Gates, TxSize

CONSTANTS Envelope(_), OpCost(_, _)

VARIABLES
  entry,   \* the verifier, its declarations, its scenario, its attack file
  phase,   \* the next phase, or how the entry ended: reported, threw
  row      \* what is known of the entry

vars == <<entry, phase, row>>

valid == entry.scenario.valid
bsv   == entry.scenario.bsvOpReturn
impl  == entry.impl
spec  == impl.vm = "bch-spec"

ScriptSizeCap == 10000
SpecScriptSizeCap == 100000
BudgetPerByte == 800

InputBudget == IF spec THEN (10000 + SpecScriptSizeCap) * BudgetPerByte ELSE (41 + ScriptSizeCap) * BudgetPerByte

NoRow ==
    [profileOnly |-> FALSE, secure |-> TRUE, packaging |-> None,
     validPassed |-> FALSE, proofsTested |-> 0, proofsPassed |-> 0, runtimeGeneral |-> FALSE,
     distinctExtra |-> None, maxCost |-> 0,
     bchCompatible |-> FALSE, bchReason |-> None, bchDetail |-> None,
     invalidTotal |-> 0, invalidRejected |-> 0, inputsTested |-> 0, inputsRejected |-> 0,
     staple |-> Staple(FALSE, 0, 0, FALSE),
     redTeam |-> [present |-> FALSE, stale |-> FALSE, tested |-> 0, accepted |-> 0],
     publicInputs |-> [declared |-> FALSE, tested |-> 0, accepted |-> 0, skipped |-> 0],
     layout |-> [applicable |-> FALSE, padsTested |-> 0, malleable |-> 0, dependencies |-> {}],
     worst |-> None, standard |-> FALSE, pass |-> FALSE]

Init ==
    /\ phase = "contract"
    /\ row = NoRow

Go(next, update) ==
    /\ phase' = next
    /\ row' = update
    /\ UNCHANGED entry

Throw ==
    /\ phase' = "threw"
    /\ UNCHANGED <<entry, row>>

Rejected(runs) == Cardinality({n \in DOMAIN runs : RunRejects(entry.verifier, "loosened", runs[n], bsv)})

-----------------------------------------------------------------------------
(* The phases                                                               *)

(* packagingSecurity: a contract behind a 160 bit hash is not allowed.      *)
Envelopes(run) == {Envelope(run[i].lock) : i \in DOMAIN run}

Packaged ==
    [NoRow EXCEPT !.secure = "p2sh20" \notin Envelopes(valid),
                  !.packaging = IF Cardinality(Envelopes(valid)) = 1
                                THEN CHOOSE e \in Envelopes(valid) : TRUE ELSE "mixed"]

Contract ==
    /\ phase = "contract"
    /\ IF HonestRuns(impl.proofInputs, entry.scenario)
       THEN Go(IF entry.scenario.profileOnly THEN "profile" ELSE "honest", Packaged)
       ELSE Throw

(* A row of sizes only.                                                     *)
Profile ==
    /\ phase = "profile"
    /\ Go("reported", [row EXCEPT !.profileOnly = TRUE,
            !.bchCompatible = \A i \in DOMAIN valid : Size(valid[i].lock) <= ScriptSizeCap
                                                      /\ Size(valid[i].unlock) <= ScriptSizeCap])

AcceptedExtras ==
    {n \in DOMAIN entry.scenario.extras :
        ~RunRejects(entry.verifier, "loosened", entry.scenario.extras[n], bsv)}

(* Variant: accepted extras are taken for other proofs without locators.    *)
HonestUndeclared ==
    LET extras == entry.scenario.extras
        passed == ~RunRejects(entry.verifier, "loosened", valid, bsv)
    IN  /\ phase = "honest"
        /\ Go("real", [row EXCEPT
                !.validPassed = passed,
                !.proofsTested = 1 + Len(extras),
                !.proofsPassed = (IF passed THEN 1 ELSE 0) + Cardinality(AcceptedExtras),
                !.runtimeGeneral = impl.proofBinding = "runtime" /\ passed
                                   /\ extras # << >> /\ AcceptedExtras = DOMAIN extras,
                !.distinctExtra = IF passed /\ AcceptedExtras # {} THEN extras[Min(AcceptedExtras)] ELSE None])

(* The honest runs without limits.                                          *)
Honest ==
    LET extras   == entry.scenario.extras
        identity == ProofIdentity(impl.proofInputs, entry.scenario)
        passed   == ~RunRejects(entry.verifier, "loosened", valid, bsv)
        distinct == DOMAIN DistinctExtraProofs(impl.proofInputs, entry.scenario) \cap AcceptedExtras
    IN  /\ phase = "honest"
        /\ Go("real", [row EXCEPT
                !.validPassed = passed,
                !.proofsTested = 1 + Len(extras),
                !.proofsPassed = (IF passed THEN 1 ELSE 0) + Cardinality(AcceptedExtras),
                !.runtimeGeneral = impl.proofBinding = "runtime" /\ identity.distinct /\ passed
                                   /\ AcceptedExtras = DOMAIN extras,
                !.distinctExtra = IF passed /\ distinct # {} THEN extras[Min(distinct)] ELSE None,
                !.maxCost = Max({OpCost(entry.verifier, Program(valid[i])) : i \in DOMAIN valid})])

(* limitReason: a program that runs into an OP_RETURN is an error as well.  *)
ReasonOf(o) ==
    IF o \in Errors THEN o ELSE IF o = "truthy at OP_RETURN" THEN "limit" ELSE None

(* The valid run on the machine the entry is for, which is strict.          *)
Real ==
    LET outcome(i) == Outcome(entry.verifier, IF spec THEN "spec" ELSE "bch", Program(valid[i]))
        failing    == {i \in DOMAIN valid : ~Accepted(outcome(i))}
    IN  /\ phase = "real"
        /\ Go("invalid", [row EXCEPT
                !.bchCompatible = failing = {} /\ row.validPassed,
                !.bchReason = IF failing = {} THEN None ELSE ReasonOf(outcome(Min(failing))),
                !.bchDetail = IF failing = {} THEN None ELSE Min(failing)])

Invalid ==
    LET runs == InvalidRuns(entry.scenario)
    IN  /\ phase = "invalid"
        /\ Go("splice", [row EXCEPT
                !.invalidTotal = Len(runs), !.invalidRejected = Rejected(runs),
                !.inputsTested = Len(entry.scenario.invalidInputs),
                !.inputsRejected = Rejected(entry.scenario.invalidInputs)])

Splice ==
    /\ phase = "splice"
    /\ Go("attack", [row EXCEPT !.staple = CrossStageStaple(entry.verifier, valid, row.distinctExtra, bsv)])

Attack ==
    /\ phase = "attack"
    /\ IF RedTeamThrows(entry.attacks, valid) THEN Throw
       ELSE Go("claims", [row EXCEPT !.redTeam = RedTeam(entry.verifier, entry.attacks, valid, bsv)])

Claims ==
    /\ phase = "claims"
    /\ IF PublicInputThrows(valid, impl.publicInputs) THEN Throw
       ELSE Go("pads", [row EXCEPT !.publicInputs =
                PublicInputGate(entry.verifier, valid, impl.publicInputs, impl.order, bsv)])

LengthenPads ==
    /\ phase = "pads"
    /\ Go("worst", [row EXCEPT !.layout = LayoutGate(entry.verifier, valid, bsv)])

Worst ==
    /\ phase = "worst"
    /\ Go("standard", [row EXCEPT !.worst =
            IF entry.scenario.worst = None THEN None
            ELSE ~RunRejects(entry.verifier, "loosened", entry.scenario.worst, bsv)])

(* Every honest run, not only the primary one, must be relayable.           *)
Standard ==
    LET vm   == IF spec THEN "spec standard" ELSE "bch standard"
        runs == {valid} \cup {entry.scenario.extras[n] : n \in DOMAIN entry.scenario.extras}
                \cup (IF entry.scenario.worst = None THEN {} ELSE {entry.scenario.worst})
    IN  /\ phase = "standard"
        /\ Go("report", [row EXCEPT !.standard =
                /\ SizesAreStandard(valid, IF spec THEN SpecScriptSizeCap ELSE MaxStandardUnlocking)
                /\ \A r \in runs : ~RunRejects(entry.verifier, vm, r, bsv)])

(* Variant: an applicable splice that could not be tried does not count.    *)
PassUntested(r) ==
    /\ r.validPassed /\ r.proofsPassed = r.proofsTested
    /\ r.worst # FALSE
    /\ r.invalidTotal > 0 /\ r.invalidRejected = r.invalidTotal
    /\ r.secure
    /\ r.staple.unboundSeams = 0
    /\ r.redTeam.accepted = 0
    /\ r.publicInputs.accepted = 0

Pass(r) ==
    /\ r.validPassed /\ r.proofsPassed = r.proofsTested
    /\ r.worst # FALSE
    /\ ~r.staple.reason
    /\ r.invalidTotal > 0 /\ r.invalidRejected = r.invalidTotal
    /\ r.secure
    /\ r.staple.unboundSeams = 0
    /\ r.redTeam.accepted = 0
    /\ r.publicInputs.accepted = 0

Report ==
    /\ phase = "report"
    /\ Go("reported", [row EXCEPT !.pass = Pass(row)])

Next ==
    \/ Contract \/ Profile \/ Honest \/ Real \/ Invalid \/ Splice \/ Attack
    \/ Claims \/ LengthenPads \/ Worst \/ Standard \/ Report

Spec == Init /\ [][Next]_vars

-----------------------------------------------------------------------------
(* The verdicts                                                             *)

(* The label of the command line: the first that applies.                   *)
Labels(r) ==
    << << r.profileOnly, "profile" >>,
       << ~r.secure, "insecure-packaging" >>,
       << r.pass, "pass" >>,
       << r.proofsPassed < r.proofsTested, "extra-proof-fail" >>,
       << r.worst = FALSE, "worst-case-fail" >>,
       << r.staple.unboundSeams > 0, "cross-stage-fail" >>,
       << r.redTeam.accepted > 0, "redteam-fail" >>,
       << r.publicInputs.accepted > 0, "public-input-fail" >>,
       << r.validPassed, "valid-only" >>,
       << TRUE, "fail" >> >>

VerdictOf(r) == Labels(r)[Min({k \in DOMAIN Labels(r) : Labels(r)[k][1]})][2]

(* Variant: an accepted attack is reported but is no failure.               *)
FailuresNoAttack(r) ==
    {x \in {"valid", "invalid", "honest", "worst", "staple", "packaging", "claims"} :
        \/ x = "valid" /\ ~r.validPassed
        \/ x = "invalid" /\ r.invalidRejected < r.invalidTotal
        \/ x = "honest" /\ r.proofsPassed < r.proofsTested
        \/ x = "worst" /\ r.worst = FALSE
        \/ x = "staple" /\ r.staple.unboundSeams > 0
        \/ x = "packaging" /\ ~r.secure
        \/ x = "claims" /\ r.publicInputs.accepted > 0}

Failures(r) ==
    {x \in {"valid", "invalid", "honest", "worst", "staple", "packaging", "claims", "attack"} :
        \/ x = "valid" /\ ~r.validPassed
        \/ x = "invalid" /\ r.invalidRejected < r.invalidTotal
        \/ x = "honest" /\ r.proofsPassed < r.proofsTested
        \/ x = "worst" /\ r.worst = FALSE
        \/ x = "staple" /\ r.staple.unboundSeams > 0
        \/ x = "packaging" /\ ~r.secure
        \/ x = "claims" /\ r.publicInputs.accepted > 0
        \/ x = "attack" /\ r.redTeam.accepted > 0}

CorrectnessOf(r) == IF Failures(r) # {} THEN "fail" ELSE IF r.pass THEN "pass" ELSE "valid-only"

(* bchCell: what keeps an entry off the chain.                              *)
ScriptSizeBlocker ==
    \E i \in DOMAIN valid : \E x \in {valid[i].lock, valid[i].unlock} :
        Size(x) > IF spec THEN SpecScriptSizeCap ELSE ScriptSizeCap

OpCostBlocker(r) == r.maxCost > InputBudget

Blockers(r) ==
    (IF ScriptSizeBlocker THEN {"script-size"} ELSE {})
    \cup (IF OpCostBlocker(r) THEN {"op-cost"} ELSE {})
    \cup (IF r.bchCompatible \/ r.profileOnly \/ r.bchReason = None THEN {} ELSE {r.bchReason})

-----------------------------------------------------------------------------
(* The row of the feed, as far as the ranking of the export reads it, and   *)
(* the ranking of a feed with this row.                                     *)

CategoryOf(i) ==
    IF i.demo THEN "demo" ELSE IF i.vm = "bch-spec" THEN "spec"
    ELSE IF i.proofSystem = "Groth16" THEN "full" ELSE "partial"

(* Variant: generality is read off the counts of accepted proofs.           *)
EntryOfCounts(r) ==
    [full |-> CategoryOf(impl) = "full", curve |-> impl.field, score |-> RunScore(valid).score,
     fits |-> r.bchCompatible, standard |-> r.standard, general |-> r.proofsPassed = r.proofsTested,
     secure |-> r.secure, sound |-> CorrectnessOf(r) # "fail"]

EntryOf(r) ==
    [full |-> CategoryOf(impl) = "full", curve |-> impl.field, score |-> RunScore(valid).score,
     fits |-> r.bchCompatible, standard |-> r.standard, general |-> r.runtimeGeneral,
     secure |-> r.secure, sound |-> CorrectnessOf(r) # "fail"]

Feed == << EntryOf(row) >>

Ranking == INSTANCE ScoreHistory
             WITH Ids <- {1}, Curves <- {"BN254", "BLS12-381"}, Official <- {}, NoEntry <- None

-----------------------------------------------------------------------------
(* Properties                                                               *)

Reported == phase = "reported" /\ ~row.profileOnly

(* The runs the gates evaluate.                                             *)
Splices ==
    IF row.distinctExtra = None \/ ~StapleApplies(valid) THEN {}
    ELSE {WithUnlockings(valid, [i \in k + 1 .. Len(valid) |-> row.distinctExtra[i].unlock]) :
            k \in 1 .. Len(valid) - 1}

ClaimRunsOf == IF impl.publicInputs = << >> THEN {} ELSE ClaimRuns(valid, impl.publicInputs, impl.order)

AttackRuns ==
    IF ~row.redTeam.present \/ row.redTeam.stale THEN {}
    ELSE {PatchedRun(valid, entry.attacks.runs[n]) : n \in DOMAIN entry.attacks.runs}

PadRuns == IF ~row.layout.applicable THEN {} ELSE {PadRun(valid, x) : x \in Pads(valid)}

(* Whatever a gate puts in place of an unlocking, it evaluates transactions *)
(* that could be sent to the deployed program: all inputs of a transaction  *)
(* are seen with the new unlockings by all its steps, and only unlockings   *)
(* have changed (withUnlockings, patchedRun, the hybrids).                  *)
GatesEvaluateTransactions ==
    Reported =>
        \A r \in Splices \cup {x[2] : x \in ClaimRunsOf} \cup AttackRuns \cup PadRuns :
            /\ IsItsTransactions(r)
            /\ \A i \in DOMAIN r : Skeleton(Program(r[i])) = Skeleton(Program(valid[i]))

(* If no seam is reported unbound although seams were sampled, then no      *)
(* splice of the two proofs at any seam is accepted as a transaction, and   *)
(* the second proof was another one and was itself accepted                 *)
(* (crossStageStaple looks at the inputs before a seam only, each in a      *)
(* transaction of its own making).                                          *)
SampledSeamsAreBound ==
    Reported /\ row.staple.seamsTested > 0 =>
        /\ ~RunRejects(entry.verifier, "loosened", row.distinctExtra, bsv)
        /\ ~SameProof(valid, row.distinctExtra, impl.proofInputs)
        /\ row.staple.unboundSeams = 0 =>
             \A r \in Splices : RunRejects(entry.verifier, "loosened", r, bsv)

(* A claim that is tried is a claim a spender could make: it is not the     *)
(* true one, and every copy of an input, packed or not, says the same       *)
(* (publicInputGate).                                                       *)
ClaimsAreWhole ==
    Reported =>
        \A x \in ClaimRunsOf :
            /\ x[1][3] # Truth(valid, impl.publicInputs)
            /\ \A i \in DOMAIN impl.publicInputs :
                 SlotValue(x[2], impl.publicInputs[i]) = x[1][3][InputName(impl.publicInputs, i)]

(* An entry passes only with all the evidence: every honest transaction     *)
(* accepted, at least one invalid run and each rejected, every splice of a  *)
(* bundle with stages tried and rejected, every attack and every other      *)
(* claim rejected, no contract behind a short hash.                         *)
PassIsEarned ==
    Reported /\ row.pass =>
        /\ \A r \in {valid} \cup {entry.scenario.extras[n] : n \in DOMAIN entry.scenario.extras}
                    \cup (IF entry.scenario.worst = None THEN {} ELSE {entry.scenario.worst}) :
             ~RunRejects(entry.verifier, "loosened", r, bsv)
        /\ InvalidRuns(entry.scenario) # << >>
        /\ \A n \in DOMAIN InvalidRuns(entry.scenario) :
             RunRejects(entry.verifier, "loosened", InvalidRuns(entry.scenario)[n], bsv)
        /\ StapleApplies(valid) => Splices # {}
        /\ \A r \in Splices \cup {x[2] : x \in ClaimRunsOf} \cup AttackRuns :
             RunRejects(entry.verifier, "loosened", r, bsv)
        /\ \A i \in DOMAIN valid : Envelope(valid[i].lock) # "p2sh20"

(* Generality is claimed only when two different proofs were accepted by    *)
(* one program (runtimeGeneral).                                            *)
GeneralityIsShown ==
    Reported /\ row.runtimeGeneral =>
        \E n \in DOMAIN entry.scenario.extras :
            LET r == entry.scenario.extras[n]
            IN  /\ ~SameProof(valid, r, impl.proofInputs)
                /\ \A i \in DOMAIN r : Skeleton(Program(r[i])) = Skeleton(Program(valid[i]))
                /\ ~RunRejects(entry.verifier, "loosened", valid, bsv)
                /\ ~RunRejects(entry.verifier, "loosened", r, bsv)

(* The ranking asks for less than a pass: a row that leads or is on a track *)
(* may lack invalid runs or a splice.  Still nothing that was tried speaks  *)
(* against it; and the best verifier of BCH itself is accepted by the       *)
(* strict machine, by the strict rule, and has been spliced with another    *)
(* proof wherever it has stages, since its generality rests on one          *)
(* (entryOf and correctnessOf of entry.ts, bestBchNative of export-json.ts).*)
RankedRowsAreSound ==
    Reported /\ Ranking!Verified(Feed, 1) =>
        /\ \A r \in {valid} \cup {entry.scenario.extras[n] : n \in DOMAIN entry.scenario.extras} :
             ~RunRejects(entry.verifier, "loosened", r, bsv)
        /\ \A n \in DOMAIN InvalidRuns(entry.scenario) :
             RunRejects(entry.verifier, "loosened", InvalidRuns(entry.scenario)[n], bsv)
        /\ \A r \in Splices \cup {x[2] : x \in ClaimRunsOf} \cup AttackRuns :
             RunRejects(entry.verifier, "loosened", r, bsv)
        /\ Ranking!Native(Feed, 1) =>
             /\ \A i \in DOMAIN valid :
                  Accepts(entry.verifier, IF spec THEN "spec" ELSE "bch", valid[i], FALSE)
             /\ StapleApplies(valid) => Splices # {}

(* The label of the command line, the verdict of the feed and pass come     *)
(* from one result by three routes, and say the same: an entry passes in    *)
(* all of them or in none, and a label that names a failure belongs to a    *)
(* failing verdict.                                                         *)
VerdictsAgree ==
    Reported =>
        /\ row.pass <=> VerdictOf(row) = "pass"
        /\ row.pass <=> CorrectnessOf(row) = "pass"
        /\ VerdictOf(row) \notin {"pass", "valid-only"} => CorrectnessOf(row) = "fail"
=============================================================================
