--------------------------- MODULE BenchmarkProofs ---------------------------
(***************************************************************************)
(* What a verdict means, for every verifier, every virtual machine and     *)
(* every entry that is well formed: the row is assembled phase by phase    *)
(* from evaluations that a later phase does not touch, and `pass' reads    *)
(* nothing else.                                                           *)
(***************************************************************************)
EXTENDS Benchmark, ScenarioProofs

IsSeq(s) == Len(s) \in Nat /\ DOMAIN s = 1 .. Len(s) /\ (Len(s) = 0 => s = << >>)

(* Steps and lists are what the types of the source say, and an absent      *)
(* field is neither a context nor a run.                                    *)
WellFormed ==
    /\ \A x, y : [index |-> x, inputs |-> y] # None
    /\ IsSeq(valid)
    /\ \A i \in DOMAIN valid :
        /\ IsStep(valid[i])
        /\ valid[i].intraTx # None => IsSeq(valid[i].intraTx.inputs)
    /\ IsSeq(entry.scenario.extras)
    /\ \A n \in DOMAIN entry.scenario.extras : entry.scenario.extras[n] # None
    /\ IsSeq(InvalidRuns(entry.scenario))
    /\ IsSeq(impl.publicInputs)
    /\ entry.attacks # None => IsSeq(entry.attacks.runs)

-----------------------------------------------------------------------------
(* Counting                                                                 *)

LEMMA PositionsAreFinite ==
  ASSUME NEW s, IsSeq(s), NEW T \in SUBSET DOMAIN s
  PROVE  /\ IsFiniteSet(T) /\ Cardinality(T) \in Nat /\ Cardinality(T) <= Len(s)
         /\ Cardinality(T) = Len(s) => T = DOMAIN s
         /\ Cardinality(T) = 0 => T = {}
<1>1. IsFiniteSet(1 .. Len(s)) /\ Cardinality(1 .. Len(s)) = Len(s)
  BY FS_Interval DEF IsSeq
<1>2. /\ IsFiniteSet(T) /\ Cardinality(T) <= Cardinality(1 .. Len(s))
      /\ Cardinality(1 .. Len(s)) = Cardinality(T) => T = 1 .. Len(s)
  BY <1>1, FS_Subset DEF IsSeq
<1>3. Cardinality(T) \in Nat /\ (Cardinality(T) = 0 => T = {})
  BY <1>2, FS_CardinalityType, FS_EmptySet
<1> QED
  BY <1>1, <1>2, <1>3 DEF IsSeq

-----------------------------------------------------------------------------
(* What the row says, once the phase that establishes it is over            *)

Fields == DOMAIN NoRow

(* The second proof of a splice.                                            *)
Second ==
    LET others == DOMAIN DistinctExtraProofs(impl.proofInputs, entry.scenario) \cap AcceptedExtras
    IN  IF ~RunRejects(entry.verifier, "loosened", valid, bsv) /\ others # {}
        THEN entry.scenario.extras[Min(others)] ELSE None

Packing ==
    /\ HonestRuns(impl.proofInputs, entry.scenario)
    /\ row.secure = ("p2sh20" \notin Envelopes(valid))

Honesty ==
    /\ row.validPassed = ~RunRejects(entry.verifier, "loosened", valid, bsv)
    /\ row.proofsTested = 1 + Len(entry.scenario.extras)
    /\ row.proofsPassed = (IF ~RunRejects(entry.verifier, "loosened", valid, bsv) THEN 1 ELSE 0)
                          + Cardinality(AcceptedExtras)
    /\ row.runtimeGeneral = (/\ impl.proofBinding = "runtime"
                             /\ ProofIdentity(impl.proofInputs, entry.scenario).distinct
                             /\ ~RunRejects(entry.verifier, "loosened", valid, bsv)
                             /\ AcceptedExtras = DOMAIN entry.scenario.extras)
    /\ row.distinctExtra = Second

Replayed ==
    row.bchCompatible =
        /\ {i \in DOMAIN valid : ~Accepted(Outcome(entry.verifier, IF spec THEN "spec" ELSE "bch", Program(valid[i])))} = {}
        /\ row.validPassed

Invalidity ==
    /\ row.invalidTotal = Len(InvalidRuns(entry.scenario))
    /\ row.invalidRejected = Rejected(InvalidRuns(entry.scenario))

Spliced == row.staple = CrossStageStaple(entry.verifier, valid, row.distinctExtra, bsv)

Attacked ==
    /\ row.redTeam = RedTeam(entry.verifier, entry.attacks, valid, bsv)
    /\ ~RedTeamThrows(entry.attacks, valid)

Tried ==
    /\ row.publicInputs = PublicInputGate(entry.verifier, valid, impl.publicInputs, impl.order, bsv)
    /\ ~PublicInputThrows(valid, impl.publicInputs)

Weighed ==
    row.worst = IF entry.scenario.worst = None THEN None
                ELSE ~RunRejects(entry.verifier, "loosened", entry.scenario.worst, bsv)

AfterPads   == {"worst", "standard", "report"}
AfterAttack == {"claims", "pads"} \cup AfterPads
AfterReal   == {"invalid", "splice", "attack"} \cup AfterAttack

RowInv ==
    /\ DOMAIN row = Fields
    /\ phase \in {"contract", "profile", "honest", "real", "reported", "threw"} \cup AfterReal
    /\ phase \notin {"contract", "threw"} => Packing
    /\ (phase \in {"real"} \cup AfterReal \/ Reported) => Honesty
    /\ (phase \in AfterReal \/ Reported) => Replayed
    /\ (phase \in {"splice", "attack"} \cup AfterAttack \/ Reported) => Invalidity
    /\ (phase \in {"attack"} \cup AfterAttack \/ Reported) => Spliced
    /\ (phase \in AfterAttack \/ Reported) => Attacked
    /\ (phase \in {"pads"} \cup AfterPads \/ Reported) => Tried
    /\ (phase \in {"standard", "report"} \/ Reported) => Weighed
    /\ Reported => row.pass = Pass(row)

LEMMA RowInit == Init => RowInv
  BY DEF Init, RowInv, Fields, AfterReal, AfterAttack, AfterPads, Reported

(* A phase leaves what the others have established.                         *)
LEMMA Kept ==
  ASSUME entry' = entry
  PROVE  /\ (Packing /\ row'.secure = row.secure) => Packing'
         /\ (Honesty /\ row'.validPassed = row.validPassed /\ row'.proofsTested = row.proofsTested
              /\ row'.proofsPassed = row.proofsPassed /\ row'.runtimeGeneral = row.runtimeGeneral
              /\ row'.distinctExtra = row.distinctExtra) => Honesty'
         /\ (Replayed /\ row'.validPassed = row.validPassed /\ row'.bchCompatible = row.bchCompatible) => Replayed'
         /\ (Invalidity /\ row'.invalidTotal = row.invalidTotal
              /\ row'.invalidRejected = row.invalidRejected) => Invalidity'
         /\ (Spliced /\ row'.staple = row.staple /\ row'.distinctExtra = row.distinctExtra) => Spliced'
         /\ (Attacked /\ row'.redTeam = row.redTeam) => Attacked'
         /\ (Tried /\ row'.publicInputs = row.publicInputs) => Tried'
         /\ (Weighed /\ row'.worst = row.worst) => Weighed'
<1> USE DEF valid, impl, bsv
<1>1. (Packing /\ row'.secure = row.secure) => Packing'
  BY DEF Packing
<1>2. (Honesty /\ row'.validPassed = row.validPassed /\ row'.proofsTested = row.proofsTested
       /\ row'.proofsPassed = row.proofsPassed /\ row'.runtimeGeneral = row.runtimeGeneral
       /\ row'.distinctExtra = row.distinctExtra) => Honesty'
  BY DEF Honesty, AcceptedExtras, Second
<1>r. (Replayed /\ row'.validPassed = row.validPassed /\ row'.bchCompatible = row.bchCompatible) => Replayed'
  BY DEF Replayed, spec
<1>3. (Invalidity /\ row'.invalidTotal = row.invalidTotal
       /\ row'.invalidRejected = row.invalidRejected) => Invalidity'
  BY DEF Invalidity, Rejected
<1>4. (Spliced /\ row'.staple = row.staple /\ row'.distinctExtra = row.distinctExtra) => Spliced'
  BY DEF Spliced
<1>5. (Attacked /\ row'.redTeam = row.redTeam) => Attacked'
  BY DEF Attacked
<1>6. (Tried /\ row'.publicInputs = row.publicInputs) => Tried'
  BY DEF Tried
<1>7. (Weighed /\ row'.worst = row.worst) => Weighed'
  BY DEF Weighed
<1>8. QED
  BY <1>1, <1>2, <1>r, <1>3, <1>4, <1>5, <1>6, <1>7

LEMMA RowContract == ASSUME RowInv, Contract PROVE RowInv'
<1>1. /\ phase = "contract" /\ entry' = entry
      /\ \/ phase' = "threw" /\ row' = row
         \/ /\ phase' \in {"profile", "honest"} /\ row' = Packaged
            /\ HonestRuns(impl.proofInputs, entry.scenario)
  BY DEF Contract, Go, Throw
<1>2. CASE phase' = "threw" /\ row' = row
  BY <1>1, <1>2 DEF RowInv, AfterReal, AfterAttack, AfterPads, Reported
<1>3. CASE phase' \in {"profile", "honest"} /\ row' = Packaged /\ HonestRuns(impl.proofInputs, entry.scenario)
  <2>1. DOMAIN row' = Fields /\ row'.secure = ("p2sh20" \notin Envelopes(valid))
    BY <1>3 DEF Packaged, Fields, NoRow
  <2>2. Packing'
    BY <1>1, <1>3, <2>1 DEF Packing, valid, impl, Envelopes
  <2>3. QED
    BY <1>1, <1>3, <2>1, <2>2 DEF RowInv, AfterReal, AfterAttack, AfterPads, Reported, Fields, NoRow
<1>4. QED
  BY <1>1, <1>2, <1>3

LEMMA RowProfile == ASSUME RowInv, Profile PROVE RowInv'
<1>1. /\ phase = "profile" /\ phase' = "reported" /\ entry' = entry
      /\ DOMAIN row' = Fields /\ row'.profileOnly /\ row'.secure = row.secure
  BY DEF Profile, Go, RowInv, Fields, NoRow
<1>2. Packing'
  BY <1>1, Kept DEF RowInv
<1>3. QED
  BY <1>1, <1>2 DEF RowInv, Reported, AfterReal, AfterAttack, AfterPads

LEMMA RowHonest == ASSUME RowInv, Honest PROVE RowInv'
<1>1. phase = "honest" /\ phase' = "real" /\ entry' = entry
  BY DEF Honest, Go
<1>2. /\ DOMAIN row' = Fields /\ row'.secure = row.secure
      /\ row'.validPassed = ~RunRejects(entry.verifier, "loosened", valid, bsv)
      /\ row'.proofsTested = 1 + Len(entry.scenario.extras)
      /\ row'.proofsPassed = (IF ~RunRejects(entry.verifier, "loosened", valid, bsv) THEN 1 ELSE 0)
                             + Cardinality(AcceptedExtras)
      /\ row'.runtimeGeneral = (/\ impl.proofBinding = "runtime"
                                /\ ProofIdentity(impl.proofInputs, entry.scenario).distinct
                                /\ ~RunRejects(entry.verifier, "loosened", valid, bsv)
                                /\ AcceptedExtras = DOMAIN entry.scenario.extras)
      /\ row'.distinctExtra = Second
  BY DEF Second, Honest, Go, RowInv, Fields, NoRow
<1>3. Packing'
  BY <1>1, <1>2, Kept DEF RowInv
<1>4. Honesty'
  BY <1>1, <1>2 DEF Honesty, valid, impl, bsv, AcceptedExtras, Second
<1>5. QED
  BY <1>1, <1>2, <1>3, <1>4 DEF RowInv, Reported, AfterReal, AfterAttack, AfterPads

LEMMA RowReal == ASSUME RowInv, Real PROVE RowInv'
<1>1. phase = "real" /\ phase' = "invalid" /\ entry' = entry
  BY DEF Real, Go
<1>2. /\ DOMAIN row' = Fields
      /\ row'.secure = row.secure /\ row'.validPassed = row.validPassed /\ row'.proofsTested = row.proofsTested
      /\ row'.proofsPassed = row.proofsPassed /\ row'.runtimeGeneral = row.runtimeGeneral
      /\ row'.distinctExtra = row.distinctExtra
      /\ row'.bchCompatible =
           /\ {i \in DOMAIN valid : ~Accepted(Outcome(entry.verifier, IF spec THEN "spec" ELSE "bch", Program(valid[i])))} = {}
           /\ row.validPassed
  BY DEF Real, Go, RowInv, Fields, NoRow
<1>3. Packing' /\ Honesty'
  BY <1>1, <1>2, Kept DEF RowInv, AfterReal, AfterAttack, AfterPads
<1>4. Replayed'
  BY <1>1, <1>2 DEF Replayed, valid, impl, spec
<1>5. QED
  BY <1>1, <1>2, <1>3, <1>4 DEF RowInv, Reported, AfterReal, AfterAttack, AfterPads

LEMMA RowInvalid == ASSUME RowInv, Invalid PROVE RowInv'
<1>1. phase = "invalid" /\ phase' = "splice" /\ entry' = entry
  BY DEF Invalid, Go
<1>2. /\ DOMAIN row' = Fields
      /\ row'.secure = row.secure /\ row'.validPassed = row.validPassed /\ row'.proofsTested = row.proofsTested
      /\ row'.proofsPassed = row.proofsPassed /\ row'.runtimeGeneral = row.runtimeGeneral
      /\ row'.distinctExtra = row.distinctExtra /\ row'.bchCompatible = row.bchCompatible
      /\ row'.invalidTotal = Len(InvalidRuns(entry.scenario))
      /\ row'.invalidRejected = Rejected(InvalidRuns(entry.scenario))
  BY DEF Invalid, Go, RowInv, Fields, NoRow
<1>3. Packing' /\ Honesty' /\ Replayed'
  BY <1>1, <1>2, Kept DEF RowInv, AfterReal, AfterAttack, AfterPads
<1>4. Invalidity'
  BY <1>1, <1>2 DEF Invalidity, Rejected, bsv
<1>5. QED
  BY <1>1, <1>2, <1>3, <1>4 DEF RowInv, Reported, AfterReal, AfterAttack, AfterPads

LEMMA RowSplice == ASSUME RowInv, Splice PROVE RowInv'
<1>1. phase = "splice" /\ phase' = "attack" /\ entry' = entry
  BY DEF Splice, Go
<1>2. /\ DOMAIN row' = Fields
      /\ row'.secure = row.secure /\ row'.validPassed = row.validPassed /\ row'.bchCompatible = row.bchCompatible
      /\ row'.proofsTested = row.proofsTested
      /\ row'.proofsPassed = row.proofsPassed /\ row'.runtimeGeneral = row.runtimeGeneral /\ row'.invalidTotal = row.invalidTotal
      /\ row'.invalidRejected = row.invalidRejected
      /\ row'.distinctExtra = row.distinctExtra
      /\ row'.staple = CrossStageStaple(entry.verifier, valid, row.distinctExtra, bsv)
  BY DEF Splice, Go, RowInv, Fields, NoRow
<1>3. Packing' /\ Honesty' /\ Replayed' /\ Invalidity'
  BY <1>1, <1>2, Kept DEF RowInv, AfterReal, AfterAttack, AfterPads
<1>4. Spliced'
  BY <1>1, <1>2 DEF Spliced, valid, bsv
<1>5. QED
  BY <1>1, <1>2, <1>3, <1>4 DEF RowInv, Reported, AfterReal, AfterAttack, AfterPads

LEMMA RowAttack == ASSUME RowInv, Attack PROVE RowInv'
<1>0. CASE phase' = "threw" /\ row' = row
  BY <1>0 DEF RowInv, Reported, AfterReal, AfterAttack, AfterPads
<1>1. /\ phase = "attack" /\ entry' = entry
      /\ (phase' = "threw" /\ row' = row) \/ ~RedTeamThrows(entry.attacks, valid)
  BY DEF Attack, Go, Throw
<1> SUFFICES ASSUME ~RedTeamThrows(entry.attacks, valid) PROVE RowInv'
  BY <1>0, <1>1
<1>a. phase' = "claims"
  BY DEF Attack, Go
<1>2. /\ DOMAIN row' = Fields
      /\ row'.secure = row.secure /\ row'.validPassed = row.validPassed /\ row'.bchCompatible = row.bchCompatible
      /\ row'.proofsTested = row.proofsTested
      /\ row'.proofsPassed = row.proofsPassed /\ row'.runtimeGeneral = row.runtimeGeneral /\ row'.invalidTotal = row.invalidTotal
      /\ row'.invalidRejected = row.invalidRejected /\ row'.staple = row.staple /\ row'.distinctExtra = row.distinctExtra
      /\ row'.redTeam = RedTeam(entry.verifier, entry.attacks, valid, bsv)
  BY DEF Attack, Go, RowInv, Fields, NoRow, Throw
<1>3. Packing' /\ Honesty' /\ Replayed' /\ Invalidity' /\ Spliced'
  BY <1>1, <1>a, <1>2, Kept DEF RowInv, AfterReal, AfterAttack, AfterPads
<1>4. Attacked'
  BY <1>1, <1>2 DEF Attacked, valid, bsv
<1>5. QED
  BY <1>1, <1>a, <1>2, <1>3, <1>4 DEF RowInv, Reported, AfterReal, AfterAttack, AfterPads

LEMMA RowClaims == ASSUME RowInv, Claims PROVE RowInv'
<1>0. CASE phase' = "threw" /\ row' = row
  BY <1>0 DEF RowInv, Reported, AfterReal, AfterAttack, AfterPads
<1>1. /\ phase = "claims" /\ entry' = entry
      /\ (phase' = "threw" /\ row' = row) \/ ~PublicInputThrows(valid, impl.publicInputs)
  BY DEF Claims, Go, Throw
<1> SUFFICES ASSUME ~PublicInputThrows(valid, impl.publicInputs) PROVE RowInv'
  BY <1>0, <1>1
<1>a. phase' = "pads"
  BY DEF Claims, Go
<1>2. /\ DOMAIN row' = Fields
      /\ row'.secure = row.secure /\ row'.validPassed = row.validPassed /\ row'.bchCompatible = row.bchCompatible
      /\ row'.proofsTested = row.proofsTested
      /\ row'.proofsPassed = row.proofsPassed /\ row'.runtimeGeneral = row.runtimeGeneral /\ row'.invalidTotal = row.invalidTotal
      /\ row'.invalidRejected = row.invalidRejected /\ row'.staple = row.staple /\ row'.distinctExtra = row.distinctExtra
      /\ row'.redTeam = row.redTeam
      /\ row'.publicInputs = PublicInputGate(entry.verifier, valid, impl.publicInputs, impl.order, bsv)
  BY DEF Claims, Go, RowInv, Fields, NoRow, Throw
<1>3. Packing' /\ Honesty' /\ Replayed' /\ Invalidity' /\ Spliced' /\ Attacked'
  BY <1>1, <1>a, <1>2, Kept DEF RowInv, AfterReal, AfterAttack, AfterPads
<1>4. Tried'
  BY <1>1, <1>2 DEF Tried, valid, impl, bsv
<1>5. QED
  BY <1>1, <1>a, <1>2, <1>3, <1>4 DEF RowInv, Reported, AfterReal, AfterAttack, AfterPads

LEMMA RowLengthenPads == ASSUME RowInv, LengthenPads PROVE RowInv'
<1>1. phase = "pads" /\ phase' = "worst" /\ entry' = entry
  BY DEF LengthenPads, Go
<1>2. /\ DOMAIN row' = Fields
      /\ row'.secure = row.secure /\ row'.validPassed = row.validPassed /\ row'.bchCompatible = row.bchCompatible
      /\ row'.proofsTested = row.proofsTested
      /\ row'.proofsPassed = row.proofsPassed /\ row'.runtimeGeneral = row.runtimeGeneral /\ row'.invalidTotal = row.invalidTotal
      /\ row'.invalidRejected = row.invalidRejected /\ row'.staple = row.staple /\ row'.distinctExtra = row.distinctExtra
      /\ row'.redTeam = row.redTeam /\ row'.publicInputs = row.publicInputs
  BY DEF LengthenPads, Go, RowInv, Fields, NoRow
<1>3. Packing' /\ Honesty' /\ Replayed' /\ Invalidity' /\ Spliced' /\ Attacked' /\ Tried'
  BY <1>1, <1>2, Kept DEF RowInv, AfterReal, AfterAttack, AfterPads
<1>4. QED
  BY <1>1, <1>2, <1>3 DEF RowInv, Reported, AfterReal, AfterAttack, AfterPads

LEMMA RowWorst == ASSUME RowInv, Worst PROVE RowInv'
<1>1. phase = "worst" /\ phase' = "standard" /\ entry' = entry
  BY DEF Worst, Go
<1>2. /\ DOMAIN row' = Fields
      /\ row'.secure = row.secure /\ row'.validPassed = row.validPassed /\ row'.bchCompatible = row.bchCompatible
      /\ row'.proofsTested = row.proofsTested
      /\ row'.proofsPassed = row.proofsPassed /\ row'.runtimeGeneral = row.runtimeGeneral /\ row'.invalidTotal = row.invalidTotal
      /\ row'.invalidRejected = row.invalidRejected /\ row'.staple = row.staple /\ row'.distinctExtra = row.distinctExtra
      /\ row'.redTeam = row.redTeam /\ row'.publicInputs = row.publicInputs
      /\ row'.worst = IF entry.scenario.worst = None THEN None
                     ELSE ~RunRejects(entry.verifier, "loosened", entry.scenario.worst, bsv)
  BY DEF Worst, Go, RowInv, Fields, NoRow
<1>3. Packing' /\ Honesty' /\ Replayed' /\ Invalidity' /\ Spliced' /\ Attacked' /\ Tried'
  BY <1>1, <1>2, Kept DEF RowInv, AfterReal, AfterAttack, AfterPads
<1>4. Weighed'
  BY <1>1, <1>2 DEF Weighed, bsv
<1>5. QED
  BY <1>1, <1>2, <1>3, <1>4 DEF RowInv, Reported, AfterReal, AfterAttack, AfterPads

LEMMA RowStandard == ASSUME RowInv, Standard PROVE RowInv'
<1>1. phase = "standard" /\ phase' = "report" /\ entry' = entry
  BY DEF Standard, Go
<1>2. /\ DOMAIN row' = Fields
      /\ row'.secure = row.secure /\ row'.validPassed = row.validPassed /\ row'.bchCompatible = row.bchCompatible
      /\ row'.proofsTested = row.proofsTested
      /\ row'.proofsPassed = row.proofsPassed /\ row'.runtimeGeneral = row.runtimeGeneral /\ row'.invalidTotal = row.invalidTotal
      /\ row'.invalidRejected = row.invalidRejected /\ row'.staple = row.staple /\ row'.distinctExtra = row.distinctExtra
      /\ row'.redTeam = row.redTeam /\ row'.publicInputs = row.publicInputs /\ row'.worst = row.worst
  BY DEF Standard, Go, RowInv, Fields, NoRow
<1>3. Packing' /\ Honesty' /\ Replayed' /\ Invalidity' /\ Spliced' /\ Attacked' /\ Tried' /\ Weighed'
  BY <1>1, <1>2, Kept DEF RowInv, AfterReal, AfterAttack, AfterPads
<1>4. QED
  BY <1>1, <1>2, <1>3 DEF RowInv, Reported, AfterReal, AfterAttack, AfterPads

LEMMA RowReport == ASSUME RowInv, Report PROVE RowInv'
<1>1. phase = "report" /\ phase' = "reported" /\ entry' = entry
  BY DEF Report, Go
<1>2. /\ DOMAIN row' = Fields
      /\ row'.pass = Pass(row) /\ row'.secure = row.secure /\ row'.validPassed = row.validPassed /\ row'.bchCompatible = row.bchCompatible
      /\ row'.proofsTested = row.proofsTested
      /\ row'.proofsPassed = row.proofsPassed /\ row'.runtimeGeneral = row.runtimeGeneral /\ row'.invalidTotal = row.invalidTotal
      /\ row'.invalidRejected = row.invalidRejected /\ row'.staple = row.staple /\ row'.distinctExtra = row.distinctExtra
      /\ row'.redTeam = row.redTeam /\ row'.publicInputs = row.publicInputs /\ row'.worst = row.worst
  BY DEF Report, Go, RowInv, Fields, NoRow
<1>3. Packing' /\ Honesty' /\ Replayed' /\ Invalidity' /\ Spliced' /\ Attacked' /\ Tried' /\ Weighed'
  BY <1>1, <1>2, Kept DEF RowInv, AfterReal, AfterAttack, AfterPads
<1>4. row'.pass = Pass(row)'
  BY <1>2 DEF Pass
<1>5. QED
  BY <1>1, <1>2, <1>3, <1>4 DEF RowInv, Reported, AfterReal, AfterAttack, AfterPads

LEMMA RowNext == ASSUME RowInv, [Next]_vars PROVE RowInv'
<1>1. CASE UNCHANGED vars
  <2>1. entry' = entry /\ row' = row /\ phase' = phase
    BY <1>1 DEF vars
  <2>2. QED
    BY <2>1, Kept DEF RowInv, Reported, Pass
<1>2. CASE Next
  BY <1>2, RowContract, RowProfile, RowHonest, RowReal, RowInvalid, RowSplice, RowAttack,
     RowClaims, RowLengthenPads, RowWorst, RowStandard, RowReport DEF Next
<1>3. QED
  BY <1>1, <1>2

-----------------------------------------------------------------------------
(* What the counts mean                                                     *)

LEMMA EveryExtraAccepted ==
  ASSUME WellFormed, Honesty, row.validPassed, row.proofsPassed = row.proofsTested
  PROVE  /\ ~RunRejects(entry.verifier, "loosened", valid, bsv)
         /\ \A n \in DOMAIN entry.scenario.extras :
              ~RunRejects(entry.verifier, "loosened", entry.scenario.extras[n], bsv)
<1> DEFINE extras == entry.scenario.extras
<1>1. ~RunRejects(entry.verifier, "loosened", valid, bsv)
  BY DEF Honesty
<1>2. Cardinality(AcceptedExtras) \in Nat /\ Len(extras) \in Nat
      /\ (Cardinality(AcceptedExtras) = Len(extras) => AcceptedExtras = DOMAIN extras)
  BY PositionsAreFinite DEF WellFormed, AcceptedExtras, IsSeq
<1>3. Cardinality(AcceptedExtras) = Len(extras)
  BY <1>1, <1>2 DEF Honesty
<1>4. QED
  BY <1>1, <1>2, <1>3 DEF AcceptedExtras

LEMMA EveryRunRejected ==
  ASSUME NEW runs, IsSeq(runs), Rejected(runs) = Len(runs)
  PROVE  \A n \in DOMAIN runs : RunRejects(entry.verifier, "loosened", runs[n], bsv)
<1>1. {n \in DOMAIN runs : RunRejects(entry.verifier, "loosened", runs[n], bsv)} = DOMAIN runs
  BY PositionsAreFinite DEF Rejected
<1>2. QED
  BY <1>1

(* A splice of two proofs as one transaction: what the sampler evaluates at *)
(* an input before the seam is what that input of the splice evaluates to.  *)
SpliceAt(k) == WithUnlockings(valid, [i \in k + 1 .. Len(valid) |-> row.distinctExtra[i].unlock])

LEMMA SplicedInput ==
  ASSUME WellFormed, RunShape(valid), StapleApplies(valid),
         NEW k \in 1 .. Len(valid) - 1, NEW i \in DOMAIN valid
  PROVE  Program(SpliceAt(k)[i])
           = IntraTxProgram([index |-> i, inputs |-> Hybrid(valid, row.distinctExtra, k)])
<1> DEFINE new    == [j \in k + 1 .. Len(valid) |-> row.distinctExtra[j].unlock]
           u      == Unlockings(valid, new)
           inputs == [j \in DOMAIN valid |-> [valid[j].intraTx.inputs[j] EXCEPT !.unlock = u[j]]]
           hybrid == Hybrid(valid, row.distinctExtra, k)
<1>1. DOMAIN valid = 1 .. Len(valid) /\ Len(valid) \in Nat
  BY DEF WellFormed, IsSeq
<1>2. \A j \in DOMAIN valid : valid[j].intraTx # None /\ valid[j].grouped = None
  <2>1. SUFFICES ASSUME NEW j \in DOMAIN valid PROVE valid[j].intraTx # None /\ valid[j].grouped = None
    OBVIOUS
  <2>2. valid[j].intraTx # None /\ OneContext(valid[j])
    BY DEF StapleApplies, RunShape
  <2>3. QED
    BY <2>2 DEF OneContext, Contexts, ContextKinds
<1>3. ContextKind(valid[1]) = "intraTx"
  <2>1. 1 \in DOMAIN valid
    BY <1>1
  <2>2. "intraTx" \in Contexts(valid[1]) /\ OneContext(valid[1])
    BY <1>2, <2>1 DEF Contexts, ContextKinds, RunShape
  <2>3. QED
    BY <2>2 DEF ContextKind, OneContext
<1>4. \A j \in DOMAIN valid :
        /\ j \in DOMAIN valid[j].intraTx.inputs
        /\ DOMAIN valid[j].intraTx.inputs[j] = {"lock", "unlock"}
        /\ valid[j].intraTx.inputs[j].lock = valid[j].lock
  <2>1. SUFFICES ASSUME NEW j \in DOMAIN valid
        PROVE  /\ j \in DOMAIN valid[j].intraTx.inputs
               /\ DOMAIN valid[j].intraTx.inputs[j] = {"lock", "unlock"}
               /\ valid[j].intraTx.inputs[j].lock = valid[j].lock
    OBVIOUS
  <2>2. /\ Len(valid[j].intraTx.inputs) = Len(valid)
        /\ \A n \in DOMAIN valid[j].intraTx.inputs : SameInput(valid[j].intraTx.inputs[n], valid[n])
    BY <1>3 DEF RunShape, IntraTxShape
  <2>3. IsInputs(valid[j].intraTx.inputs) /\ IsSeq(valid[j].intraTx.inputs)
    <3>1. IsStep(valid[j]) /\ IsSeq(valid[j].intraTx.inputs)
      BY <1>2 DEF WellFormed
    <3>2. QED
      BY <1>2, <3>1 DEF IsStep, IsIntraTx
  <2>4. QED
    BY <1>1, <2>2, <2>3 DEF IsInputs, IsSeq, SameInput
<1>5. SpliceAt(k)[i] = [[valid[i] EXCEPT !.unlock = u[i]] EXCEPT !.intraTx = [index |-> i, inputs |-> inputs]]
  BY <1>2 DEF SpliceAt, WithUnlockings
<1>6. DOMAIN valid[i] = {"lock", "unlock", "checkpoint"} \cup ContextKinds
  BY DEF WellFormed, IsStep
<1>7. SpliceAt(k)[i].grouped = None /\ SpliceAt(k)[i].intraTx = [index |-> i, inputs |-> inputs]
  BY <1>2, <1>5, <1>6 DEF ContextKinds
<1>8. Program(SpliceAt(k)[i]) = IntraTxProgram([index |-> i, inputs |-> inputs])
  <2>1. SpliceAt(k)[i].intraTx # None
    BY <1>7 DEF WellFormed
  <2>2. QED
    BY <1>7, <2>1 DEF Program
<1>9. \A j \in DOMAIN valid : inputs[j].lock = hybrid[j].lock /\ inputs[j].unlock = hybrid[j].unlock
  BY <1>1, <1>4 DEF Unlockings, Hybrid
<1>10. DOMAIN inputs = DOMAIN valid /\ DOMAIN hybrid = DOMAIN valid
  BY DEF Hybrid
<1>11. QED
  BY <1>8, <1>9, <1>10 DEF IntraTxProgram, InputOf

(* A seam that is bound is a splice that is rejected.                       *)
LEMMA BoundSeam ==
  ASSUME WellFormed, RunShape(valid), StapleApplies(valid), NEW k \in 1 .. Len(valid) - 1,
         SeamRejects(entry.verifier, valid, row.distinctExtra, k, bsv)
  PROVE  RunRejects(entry.verifier, "loosened", SpliceAt(k), bsv)
<1> DEFINE program(i) == IntraTxProgram([index |-> i, inputs |-> Hybrid(valid, row.distinctExtra, k)])
<1>1. PICK i \in 1 .. k :
        LET o == Outcome(entry.verifier, "loosened", program(i))
        IN  ~(IF bsv THEN BsvAccepted(o) ELSE Accepted(o))
  BY DEF SeamRejects
<1>2. i \in DOMAIN valid
  BY DEF WellFormed, IsSeq
<1>3. Program(SpliceAt(k)[i]) = program(i)
  BY <1>2, SplicedInput
<1>4. ~Accepts(entry.verifier, "loosened", SpliceAt(k)[i], bsv)
  BY <1>1, <1>3 DEF Accepts
<1>5. i \in DOMAIN SpliceAt(k)
  BY <1>2 DEF SpliceAt, WithUnlockings
<1>6. QED
  BY <1>4, <1>5 DEF RunRejects

LEMMA EverySpliceRejected ==
  ASSUME WellFormed, RunShape(valid), StapleApplies(valid), Spliced,
         ~row.staple.reason, row.staple.unboundSeams = 0
  PROVE  Splices # {} /\ \A r \in Splices : RunRejects(entry.verifier, "loosened", r, bsv)
<1> DEFINE open == {k \in 1 .. Len(valid) - 1 : ~SeamRejects(entry.verifier, valid, row.distinctExtra, k, bsv)}
<1>1. row.distinctExtra # None
  BY DEF Spliced, CrossStageStaple, Staple
<1>2. Cardinality(open) = 0
  BY <1>1 DEF Spliced, CrossStageStaple, Staple
<1>3. open = {}
  <2>1. open \in SUBSET DOMAIN valid
    BY DEF WellFormed, IsSeq
  <2>2. IsSeq(valid)
    BY DEF WellFormed
  <2>3. QED
    BY <1>2, <2>1, <2>2, PositionsAreFinite
<1>4. Splices = {SpliceAt(k) : k \in 1 .. Len(valid) - 1}
  BY <1>1 DEF Splices, SpliceAt
<1>5. Len(valid) - 1 \in 1 .. Len(valid) - 1
  BY DEF StapleApplies, WellFormed, IsSeq
<1>6. Splices # {}
  BY <1>4, <1>5
<1>7. QED
  BY <1>3, <1>4, <1>6, BoundSeam

LEMMA EveryAttackRejected ==
  ASSUME WellFormed, Attacked, row.redTeam.accepted = 0
  PROVE  \A r \in AttackRuns : RunRejects(entry.verifier, "loosened", r, bsv)
<1> DEFINE accepted == {n \in DOMAIN entry.attacks.runs :
             ~RunRejects(entry.verifier, "loosened", PatchedRun(valid, entry.attacks.runs[n]), bsv)}
<1>1. SUFFICES ASSUME row.redTeam.present, ~row.redTeam.stale
      PROVE  \A n \in DOMAIN entry.attacks.runs :
               RunRejects(entry.verifier, "loosened", PatchedRun(valid, entry.attacks.runs[n]), bsv)
  BY DEF AttackRuns
<1>2. entry.attacks # None /\ entry.attacks.lockings = [i \in DOMAIN valid |-> valid[i].lock]
  BY <1>1 DEF Attacked, RedTeam
<1>3. Cardinality(accepted) = 0
  BY <1>2 DEF Attacked, RedTeam
<1>4. accepted = {}
  BY <1>2, <1>3, PositionsAreFinite DEF WellFormed
<1>5. QED
  BY <1>4

(* There are finitely many claims to try, so that none is accepted if none  *)
(* is counted.                                                              *)
LEMMA ImagesAreFinite ==
  ASSUME NEW S, IsFiniteSet(S), NEW f, DOMAIN f = S
  PROVE  IsFiniteSet({f[x] : x \in S})
<1> DEFINE T == {f[x] : x \in S}
           g == [x \in S |-> f[x]]
<1>1. g \in Surjection(S, T)
  BY DEF Surjection
<1>2. QED
  BY <1>1, FS_Surjection

LEMMA CandidatesAreFinite ==
  ASSUME NEW truth, NEW r, IsFiniteSet(DOMAIN truth)
  PROVE  IsFiniteSet(Candidates(truth, r))
<1> DEFINE change(label, n, x) == << label, n, [truth EXCEPT ![n] = x] >>
           of == [n \in DOMAIN truth |->
                    {change("+ 1", n, truth[n] + 1), change("+ r", n, truth[n] + r)}
                    \cup (IF truth[n] > 0 THEN {change("- 1", n, truth[n] - 1)} ELSE {})
                    \cup (IF truth[n] # 0 THEN {change("= 0", n, 0)} ELSE {})]
           a == Min(DOMAIN truth)
           b == Min(DOMAIN truth \ {a})
           swap == IF Cardinality(DOMAIN truth) >= 2 /\ truth[a] # truth[b]
                   THEN {<< "swapped", a, [truth EXCEPT ![a] = truth[b], ![b] = truth[a]] >>}
                   ELSE {}
<1>1. Candidates(truth, r) = (UNION {of[n] : n \in DOMAIN truth}) \cup swap
  BY DEF Candidates
<1>2. \A n \in DOMAIN truth : IsFiniteSet(of[n])
  <2>1. TAKE n \in DOMAIN truth
  <2> DEFINE c1 == change("+ 1", n, truth[n] + 1)
             c2 == change("+ r", n, truth[n] + r)
             c3 == IF truth[n] > 0 THEN {change("- 1", n, truth[n] - 1)} ELSE {}
             c4 == IF truth[n] # 0 THEN {change("= 0", n, 0)} ELSE {}
  <2>2. of[n] = (({c1} \cup {c2}) \cup c3) \cup c4
    OBVIOUS
  <2>3. IsFiniteSet({c1}) /\ IsFiniteSet({c2}) /\ IsFiniteSet(c3) /\ IsFiniteSet(c4)
    BY FS_Singleton, FS_EmptySet
  <2> HIDE DEF c1, c2, c3, c4
  <2>4. IsFiniteSet({c1} \cup {c2})
    BY <2>3, FS_Union
  <2>5. IsFiniteSet(({c1} \cup {c2}) \cup c3)
    BY <2>3, <2>4, FS_Union
  <2>6. QED
    BY <2>2, <2>3, <2>5, FS_Union
<1>3. IsFiniteSet(swap)
  BY FS_Singleton, FS_EmptySet
<1> HIDE DEF of, swap
<1>4. IsFiniteSet({of[n] : n \in DOMAIN truth})
  <2>1. DOMAIN of = DOMAIN truth
    BY DEF of
  <2>2. QED
    BY <2>1, ImagesAreFinite
<1>5. IsFiniteSet(UNION {of[n] : n \in DOMAIN truth})
  BY <1>2, <1>4, FS_UNION
<1>6. QED
  BY <1>1, <1>3, <1>5, FS_Union

LEMMA ClaimsAreFinite ==
  ASSUME WellFormed
  PROVE  IsFiniteSet(ClaimRuns(valid, impl.publicInputs, impl.order))
<1> DEFINE decl  == impl.publicInputs
           truth == Truth(valid, decl)
           tried == {c \in Candidates(truth, impl.order) : FitsSlots(decl, c[3])}
           run   == [c \in tried |-> << c, WithUnlockings(valid, Claimed(valid, decl, c[3])) >>]
<1>1. IsFiniteSet(DOMAIN truth)
  <2> DEFINE name == [i \in DOMAIN decl |-> InputName(decl, i)]
  <2>1. DOMAIN truth = {name[i] : i \in DOMAIN decl}
    BY DEF Truth, Names
  <2>2. IsFiniteSet(DOMAIN decl)
    BY PositionsAreFinite DEF WellFormed
  <2> HIDE DEF name
  <2>3. DOMAIN name = DOMAIN decl
    BY DEF name
  <2>4. QED
    BY <2>1, <2>2, <2>3, ImagesAreFinite
<1>2. IsFiniteSet(tried)
  <2>1. IsFiniteSet(Candidates(truth, impl.order))
    BY <1>1, CandidatesAreFinite
  <2>2. QED
    BY <2>1, FS_Subset
<1>3. ClaimRuns(valid, decl, impl.order) = {run[c] : c \in tried}
  BY DEF ClaimRuns
<1>4. DOMAIN run = tried
  OBVIOUS
<1> HIDE DEF run, tried
<1>5. QED
  BY <1>2, <1>3, <1>4, ImagesAreFinite

LEMMA EveryClaimRejected ==
  ASSUME WellFormed, Tried, row.publicInputs.accepted = 0
  PROVE  \A x \in ClaimRunsOf : RunRejects(entry.verifier, "loosened", x[2], bsv)
<1> DEFINE runs     == ClaimRuns(valid, impl.publicInputs, impl.order)
           accepted == {x \in runs : ~RunRejects(entry.verifier, "loosened", x[2], bsv)}
<1>1. SUFFICES ASSUME impl.publicInputs # << >>
      PROVE  \A x \in runs : RunRejects(entry.verifier, "loosened", x[2], bsv)
  BY DEF ClaimRunsOf
<1>2. Cardinality(accepted) = 0
  BY <1>1 DEF Tried, PublicInputGate
<1>3. IsFiniteSet(accepted)
  BY ClaimsAreFinite, FS_Subset
<1>4. accepted = {}
  BY <1>2, <1>3, FS_EmptySet
<1>5. QED
  BY <1>4

-----------------------------------------------------------------------------
(* The theorems                                                             *)

LEMMA RowSafety == Spec => []RowInv
<1>1. RowInv /\ [Next]_vars => RowInv'
  BY RowNext
<1>2. QED
  BY <1>1, RowInit, PTL DEF Spec

LEMMA EntryStays ==
  ASSUME [Next]_vars PROVE entry' = entry
BY DEF Next, vars, Contract, Profile, Honest, Real, Invalid, Splice, Attack, Claims,
       LengthenPads, Worst, Standard, Report, Go, Throw

LEMMA StaysWellFormed == Spec /\ WellFormed => []WellFormed
<1>1. WellFormed /\ [Next]_vars => WellFormed'
  <2>1. SUFFICES ASSUME WellFormed, [Next]_vars PROVE WellFormed'
    OBVIOUS
  <2>2. entry' = entry
    BY <2>1, EntryStays
  <2>3. QED
    BY <2>1, <2>2 DEF WellFormed, valid, impl
<1>2. QED
  BY <1>1, PTL DEF Spec

LEMMA ReportedRow ==
  ASSUME RowInv, Reported
  PROVE  Packing /\ Honesty /\ Replayed /\ Invalidity /\ Spliced /\ Attacked /\ Tried /\ Weighed /\ row.pass = Pass(row)
  BY DEF RowInv, Reported

LEMMA EarnedPass == ASSUME RowInv, WellFormed PROVE PassIsEarned
<1>1. SUFFICES ASSUME Reported, row.pass
      PROVE  PassIsEarned
  BY DEF PassIsEarned
<1>2. Packing /\ Honesty /\ Invalidity /\ Spliced /\ Attacked /\ Tried /\ Weighed /\ Pass(row)
  BY <1>1, ReportedRow
<1>3. /\ row.validPassed /\ row.proofsPassed = row.proofsTested /\ row.worst # FALSE
      /\ ~row.staple.reason /\ row.staple.unboundSeams = 0
      /\ row.invalidTotal > 0 /\ row.invalidRejected = row.invalidTotal
      /\ row.secure /\ row.redTeam.accepted = 0 /\ row.publicInputs.accepted = 0
  BY <1>2 DEF Pass
<1>4. /\ ~RunRejects(entry.verifier, "loosened", valid, bsv)
      /\ \A n \in DOMAIN entry.scenario.extras :
           ~RunRejects(entry.verifier, "loosened", entry.scenario.extras[n], bsv)
  BY <1>2, <1>3, EveryExtraAccepted
<1>5. entry.scenario.worst # None => ~RunRejects(entry.verifier, "loosened", entry.scenario.worst, bsv)
  BY <1>2, <1>3 DEF Weighed
<1>6. InvalidRuns(entry.scenario) # << >>
  BY <1>2, <1>3 DEF Invalidity
<1>7. \A n \in DOMAIN InvalidRuns(entry.scenario) :
        RunRejects(entry.verifier, "loosened", InvalidRuns(entry.scenario)[n], bsv)
  BY <1>2, <1>3, EveryRunRejected DEF Invalidity, WellFormed
<1>8. RunShape(valid)
  BY <1>2 DEF Packing, HonestRuns, valid
<1>9. /\ StapleApplies(valid) => Splices # {}
      /\ \A r \in Splices : RunRejects(entry.verifier, "loosened", r, bsv)
  <2>1. CASE StapleApplies(valid)
    BY <1>2, <1>3, <1>8, <2>1, EverySpliceRejected
  <2>2. CASE ~StapleApplies(valid)
    BY <2>2 DEF Splices
  <2>3. QED
    BY <2>1, <2>2
<1>10. \A r \in AttackRuns : RunRejects(entry.verifier, "loosened", r, bsv)
  BY <1>2, <1>3, EveryAttackRejected
<1>11. \A x \in ClaimRunsOf : RunRejects(entry.verifier, "loosened", x[2], bsv)
  BY <1>2, <1>3, EveryClaimRejected
<1>12. \A i \in DOMAIN valid : Envelope(valid[i].lock) # "p2sh20"
  BY <1>2, <1>3 DEF Packing, Envelopes
<1>13. QED
  BY <1>4, <1>5, <1>6, <1>7, <1>9, <1>10, <1>11, <1>12 DEF PassIsEarned

(* An entry is reported as passing only with all the evidence, whatever the *)
(* verifier, the machines and the entry are (PassIsEarned; benchmark of     *)
(* src/harness/benchmark.ts).                                               *)
THEOREM PassEarned == Spec /\ WellFormed => []PassIsEarned
<1>1. RowInv /\ WellFormed => PassIsEarned
  BY EarnedPass
<1>2. QED
  BY <1>1, RowSafety, StaysWellFormed, PTL

(* The label is one that applies, and none before it does.                  *)
LEMMA FirstLabel ==
  \E k \in 1 .. 10 :
     /\ Labels(row)[k][1] /\ VerdictOf(row) = Labels(row)[k][2]
     /\ \A j \in 1 .. k - 1 : ~Labels(row)[j][1]
<1> DEFINE S == {k \in DOMAIN Labels(row) : Labels(row)[k][1]}
<1>1. DOMAIN Labels(row) = 1 .. 10 /\ Labels(row)[10][1] = TRUE
  BY DEF Labels
<1>2. S \in SUBSET Nat /\ S # {}
  BY <1>1
<1>3. PICK m \in S : \A n \in S : m <= n
  <2> SUFFICES ASSUME \A m \in S : \E n \in S : ~(m <= n) PROVE FALSE
    OBVIOUS
  <2>0. S \in SUBSET (1 .. 10) /\ 10 \in S
    BY <1>1
  <2> HIDE DEF S
  <2>1. 1 \notin S
    BY <2>0
  <2>2. 2 \notin S
    BY <2>0, <2>1
  <2>3. 3 \notin S
    BY <2>0, <2>1, <2>2
  <2>4. 4 \notin S
    BY <2>0, <2>1, <2>2, <2>3
  <2>5. 5 \notin S
    BY <2>0, <2>1, <2>2, <2>3, <2>4
  <2>6. 6 \notin S
    BY <2>0, <2>1, <2>2, <2>3, <2>4, <2>5
  <2>7. 7 \notin S
    BY <2>0, <2>1, <2>2, <2>3, <2>4, <2>5, <2>6
  <2>8. 8 \notin S
    BY <2>0, <2>1, <2>2, <2>3, <2>4, <2>5, <2>6, <2>7
  <2>9. 9 \notin S
    BY <2>0, <2>1, <2>2, <2>3, <2>4, <2>5, <2>6, <2>7, <2>8
  <2>10. QED
    BY <2>0, <2>1, <2>2, <2>3, <2>4, <2>5, <2>6, <2>7, <2>8, <2>9
<1>4. Min(S) \in S /\ \A n \in S : Min(S) <= n
  BY <1>3 DEF Min
<1>5. VerdictOf(row) = Labels(row)[Min(S)][2]
  BY DEF VerdictOf
<1> DEFINE k == Min(S)
<1>6. k \in 1 .. 10 /\ Labels(row)[k][1] /\ VerdictOf(row) = Labels(row)[k][2]
  BY <1>1, <1>4, <1>5
<1>7. \A j \in 1 .. k - 1 : ~Labels(row)[j][1]
  <2>1. SUFFICES ASSUME NEW j \in 1 .. k - 1, Labels(row)[j][1] PROVE FALSE
    OBVIOUS
  <2>2. j \in S
    BY <1>1, <1>6, <2>1
  <2>3. k <= j
    BY <1>4, <2>2
  <2>4. QED
    BY <1>6, <2>1, <2>3
<1>8. QED
  BY <1>6, <1>7

LEMMA CountsAreNumbers ==
  ASSUME WellFormed, Honesty, Invalidity
  PROVE  /\ row.proofsTested \in Nat /\ row.invalidTotal \in Nat
         /\ row.validPassed \in BOOLEAN
<1>1. Len(entry.scenario.extras) \in Nat /\ Len(InvalidRuns(entry.scenario)) \in Nat
  BY DEF WellFormed, IsSeq
<1>2. QED
  BY <1>1 DEF Honesty, Invalidity

LEMMA AgreeingVerdicts == ASSUME RowInv, WellFormed PROVE VerdictsAgree
<1> SUFFICES ASSUME Reported PROVE VerdictsAgree
  BY DEF VerdictsAgree
<1>1. Packing /\ Honesty /\ Invalidity /\ ~row.profileOnly /\ row.pass = Pass(row)
  BY ReportedRow DEF Reported
<1>2. row.proofsTested \in Nat /\ row.invalidTotal \in Nat /\ row.validPassed \in BOOLEAN
  BY <1>1, CountsAreNumbers
<1>3. PICK k \in 1 .. 10 :
        /\ Labels(row)[k][1] /\ VerdictOf(row) = Labels(row)[k][2]
        /\ \A j \in 1 .. k - 1 : ~Labels(row)[j][1]
  BY FirstLabel
<1>4. ~Labels(row)[1][1] /\ Labels(row)[2][1] = ~row.secure /\ Labels(row)[3][1] = row.pass
  BY <1>1 DEF Labels
<1>5. VerdictOf(row) = "pass" => k = 3
  BY <1>3 DEF Labels
<1>6. row.pass => k = 3
  <2>1. SUFFICES ASSUME row.pass PROVE k = 3
    OBVIOUS
  <2>2. row.secure
    BY <1>1, <2>1 DEF Pass
  <2>3. ~Labels(row)[1][1] /\ ~Labels(row)[2][1] /\ Labels(row)[3][1]
    BY <1>4, <2>1, <2>2
  <2>4. QED
    BY <1>3, <2>3
<1>7. row.pass => Failures(row) = {}
  <2>1. SUFFICES ASSUME Pass(row) PROVE Failures(row) = {}
    BY <1>1
  <2>2. /\ row.validPassed /\ row.proofsPassed = row.proofsTested /\ row.worst # FALSE
        /\ row.staple.unboundSeams = 0 /\ row.invalidRejected = row.invalidTotal
        /\ row.secure /\ row.redTeam.accepted = 0 /\ row.publicInputs.accepted = 0
    BY <2>1 DEF Pass
  <2>3. ~(row.proofsPassed < row.proofsTested) /\ ~(row.invalidRejected < row.invalidTotal)
        /\ ~(row.staple.unboundSeams > 0) /\ ~(row.redTeam.accepted > 0) /\ ~(row.publicInputs.accepted > 0)
    BY <1>2, <2>2
  <2>4. QED
    BY <2>2, <2>3 DEF Failures
<1>8. VerdictOf(row) \notin {"pass", "valid-only"} => Failures(row) # {}
  <2>1. SUFFICES ASSUME k \notin {1, 3, 9} PROVE Failures(row) # {}
    BY <1>3, <1>4 DEF Labels
  <2>2. CASE k = 2
    BY <1>3, <1>4, <2>2 DEF Failures
  <2>3. CASE k = 4
    BY <1>3, <2>3 DEF Labels, Failures
  <2>4. CASE k = 5
    BY <1>3, <2>4 DEF Labels, Failures
  <2>5. CASE k = 6
    BY <1>3, <2>5 DEF Labels, Failures
  <2>6. CASE k = 7
    BY <1>3, <2>6 DEF Labels, Failures
  <2>7. CASE k = 8
    BY <1>3, <2>7 DEF Labels, Failures
  <2>8. CASE k = 10
    <3>1. ~row.validPassed
      BY <1>3, <2>8 DEF Labels
    <3>2. QED
      BY <3>1 DEF Failures
  <2>9. QED
    BY <2>1, <2>2, <2>3, <2>4, <2>5, <2>6, <2>7, <2>8
<1>9. row.pass <=> VerdictOf(row) = "pass"
  <2>1. k = 3 => Labels(row)[k][1] = row.pass /\ Labels(row)[k][2] = "pass"
    BY DEF Labels
  <2>2. QED
    BY <1>3, <1>5, <1>6, <2>1
<1>10. row.pass <=> CorrectnessOf(row) = "pass"
  BY <1>7 DEF CorrectnessOf
<1>11. VerdictOf(row) \notin {"pass", "valid-only"} => CorrectnessOf(row) = "fail"
  BY <1>8 DEF CorrectnessOf
<1>12. QED
  BY <1>9, <1>10, <1>11 DEF VerdictsAgree

(* The label of the command line, the verdict of the feed and pass agree,   *)
(* whatever was measured (VerdictsAgree; verdictOf of                       *)
(* src/harness/benchmark.ts and correctnessOf of src/harness/entry.ts).     *)
THEOREM VerdictsAgreement == Spec /\ WellFormed => []VerdictsAgree
<1>1. RowInv /\ WellFormed => VerdictsAgree
  BY AgreeingVerdicts
<1>2. QED
  BY <1>1, RowSafety, StaysWellFormed, PTL

-----------------------------------------------------------------------------
(* What the ranking rests on                                                *)

LEMMA NoFailureCounts ==
  ASSUME WellFormed, Honesty, Invalidity, Spliced, Attacked, Tried, Failures(row) = {}
  PROVE  /\ row.validPassed /\ row.proofsPassed = row.proofsTested
         /\ row.invalidRejected = row.invalidTotal
         /\ row.staple.unboundSeams = 0 /\ row.redTeam.accepted = 0 /\ row.publicInputs.accepted = 0
<1>1. /\ row.validPassed /\ ~(row.proofsPassed < row.proofsTested)
      /\ ~(row.invalidRejected < row.invalidTotal)
      /\ ~(row.staple.unboundSeams > 0) /\ ~(row.redTeam.accepted > 0) /\ ~(row.publicInputs.accepted > 0)
  BY DEF Failures
<1>2. row.proofsPassed = row.proofsTested
  <2>1. /\ Len(entry.scenario.extras) \in Nat /\ Cardinality(AcceptedExtras) \in Nat
        /\ Cardinality(AcceptedExtras) <= Len(entry.scenario.extras)
    BY PositionsAreFinite DEF WellFormed, AcceptedExtras, IsSeq
  <2>2. QED
    BY <1>1, <2>1 DEF Honesty
<1>3. row.invalidRejected = row.invalidTotal
  <2>1. /\ Len(InvalidRuns(entry.scenario)) \in Nat /\ Rejected(InvalidRuns(entry.scenario)) \in Nat
        /\ Rejected(InvalidRuns(entry.scenario)) <= Len(InvalidRuns(entry.scenario))
    BY PositionsAreFinite DEF WellFormed, Rejected, IsSeq
  <2>2. QED
    BY <1>1, <2>1 DEF Invalidity
<1>4. row.staple.unboundSeams \in Nat
  <2> DEFINE open == {k \in 1 .. Len(valid) - 1 : ~SeamRejects(entry.verifier, valid, row.distinctExtra, k, bsv)}
  <2>1. open \in SUBSET DOMAIN valid /\ IsSeq(valid)
    BY DEF WellFormed, IsSeq
  <2>2. Cardinality(open) \in Nat
    BY <2>1, PositionsAreFinite
  <2>3. QED
    BY <2>2 DEF Spliced, CrossStageStaple, Staple
<1>5. row.redTeam.accepted \in Nat
  <2>1. CASE entry.attacks = None
    BY <2>1 DEF Attacked, RedTeam
  <2>2. CASE entry.attacks # None
    <3> DEFINE accepted == {n \in DOMAIN entry.attacks.runs :
                 ~RunRejects(entry.verifier, "loosened", PatchedRun(valid, entry.attacks.runs[n]), bsv)}
    <3>1. Cardinality(accepted) \in Nat
      BY <2>2, PositionsAreFinite DEF WellFormed
    <3>2. QED
      BY <2>2, <3>1 DEF Attacked, RedTeam
  <2>3. QED
    BY <2>1, <2>2
<1>6. row.publicInputs.accepted \in Nat
  <2> DEFINE runs == ClaimRuns(valid, impl.publicInputs, impl.order)
             accepted == {x \in runs : ~RunRejects(entry.verifier, "loosened", x[2], bsv)}
  <2>1. IsFiniteSet(runs)
    BY ClaimsAreFinite
  <2>2. Cardinality(accepted) \in Nat
    BY <2>1, FS_Subset, FS_CardinalityType
  <2>3. QED
    BY <2>2 DEF Tried, PublicInputGate
<1>7. QED
  BY <1>1, <1>2, <1>3, <1>4, <1>5, <1>6

LEMMA GeneralIsSpliced ==
  ASSUME WellFormed, Honesty, row.runtimeGeneral, StapleApplies(valid)
  PROVE  Splices # {}
<1> DEFINE extras == entry.scenario.extras
<1>1. /\ impl.proofInputs # << >> /\ extras # << >>
      /\ AcceptedExtras = DOMAIN extras /\ ~RunRejects(entry.verifier, "loosened", valid, bsv)
  BY DEF Honesty, ProofIdentity
<1>2. DOMAIN extras = 1 .. Len(extras) /\ Len(extras) \in Nat /\ Len(extras) # 0
  BY <1>1 DEF WellFormed, IsSeq
<1>3. 1 \in DOMAIN extras /\ \A n \in DOMAIN extras : 1 <= n
  BY <1>2
<1>4. Min(DOMAIN extras) \in DOMAIN extras
  BY <1>3 DEF Min
<1>5. row.distinctExtra = extras[Min(DOMAIN extras)]
  BY <1>1, <1>3 DEF Honesty, Second, DistinctExtraProofs
<1>6. row.distinctExtra # None
  BY <1>4, <1>5 DEF WellFormed
<1>7. 1 \in 1 .. Len(valid) - 1
  BY DEF StapleApplies, WellFormed, IsSeq
<1>8. QED
  BY <1>6, <1>7 DEF Splices

LEMMA SoundRanking == ASSUME RowInv, WellFormed PROVE RankedRowsAreSound
<1>1. SUFFICES ASSUME Reported, Ranking!Verified(Feed, 1)
      PROVE  RankedRowsAreSound
  BY DEF RankedRowsAreSound
<1>2. Packing /\ Honesty /\ Replayed /\ Invalidity /\ Spliced /\ Attacked /\ Tried
  BY <1>1, ReportedRow
<1>3. Feed[1] = EntryOf(row)
  BY DEF Feed
<1>4. Failures(row) = {}
  <2>1. EntryOf(row).sound
    BY <1>1, <1>3 DEF Ranking!Verified
  <2>2. CorrectnessOf(row) # "fail"
    BY <2>1 DEF EntryOf
  <2>3. QED
    BY <2>2 DEF CorrectnessOf
<1>5. /\ row.validPassed /\ row.proofsPassed = row.proofsTested
      /\ row.invalidRejected = row.invalidTotal
      /\ row.staple.unboundSeams = 0 /\ row.redTeam.accepted = 0 /\ row.publicInputs.accepted = 0
  BY <1>2, <1>4, NoFailureCounts
<1>6. /\ ~RunRejects(entry.verifier, "loosened", valid, bsv)
      /\ \A n \in DOMAIN entry.scenario.extras :
           ~RunRejects(entry.verifier, "loosened", entry.scenario.extras[n], bsv)
  BY <1>2, <1>5, EveryExtraAccepted
<1>7. \A n \in DOMAIN InvalidRuns(entry.scenario) :
        RunRejects(entry.verifier, "loosened", InvalidRuns(entry.scenario)[n], bsv)
  BY <1>2, <1>5, EveryRunRejected DEF Invalidity, WellFormed
<1>8. \A r \in Splices : RunRejects(entry.verifier, "loosened", r, bsv)
  <2>1. SUFFICES ASSUME Splices # {} PROVE \A r \in Splices : RunRejects(entry.verifier, "loosened", r, bsv)
    OBVIOUS
  <2>2. row.distinctExtra # None /\ StapleApplies(valid)
    BY <2>1 DEF Splices
  <2>3. ~row.staple.reason
    BY <1>2, <2>2 DEF Spliced, CrossStageStaple, Staple
  <2>4. RunShape(valid)
    BY <1>2 DEF Packing, HonestRuns, valid
  <2>5. QED
    BY <1>2, <1>5, <2>2, <2>3, <2>4, EverySpliceRejected
<1>9. \A r \in AttackRuns : RunRejects(entry.verifier, "loosened", r, bsv)
  BY <1>2, <1>5, EveryAttackRejected
<1>10. \A x \in ClaimRunsOf : RunRejects(entry.verifier, "loosened", x[2], bsv)
  BY <1>2, <1>5, EveryClaimRejected
<1>11. ASSUME Ranking!Native(Feed, 1)
       PROVE  /\ \A i \in DOMAIN valid :
                   Accepts(entry.verifier, IF spec THEN "spec" ELSE "bch", valid[i], FALSE)
              /\ StapleApplies(valid) => Splices # {}
  <2>1. row.bchCompatible /\ row.runtimeGeneral
    BY <1>3, <1>11 DEF Ranking!Native, EntryOf
  <2>2. \A i \in DOMAIN valid :
          Accepts(entry.verifier, IF spec THEN "spec" ELSE "bch", valid[i], FALSE)
    BY <1>2, <2>1 DEF Replayed, Accepts
  <2>3. QED
    BY <1>2, <2>1, <2>2, GeneralIsSpliced
<1>12. QED
  BY <1>6, <1>7, <1>8, <1>9, <1>10, <1>11 DEF RankedRowsAreSound

(* No row the export ranks has accepted anything it should have rejected,   *)
(* and the best verifier of BCH has been tried with a second proof at every *)
(* seam (RankedRowsAreSound; entryOf of src/harness/entry.ts and            *)
(* bestBchNative of src/harness/export-json.ts).                            *)
THEOREM RankedSoundness == Spec /\ WellFormed => []RankedRowsAreSound
<1>1. RowInv /\ WellFormed => RankedRowsAreSound
  BY SoundRanking
<1>2. QED
  BY <1>1, RowSafety, StaysWellFormed, PTL
-----------------------------------------------------------------------------
(* The second proof                                                         *)

(* The types of what the contract compares: the steps of the honest runs,   *)
(* the locators, the list of extra proofs.                                  *)
TypedScenario ==
    /\ TokensAreThere
    /\ TypedRun(valid)
    /\ \A n \in DOMAIN entry.scenario.extras : TypedRun(entry.scenario.extras[n])
    /\ TypedLocators(impl.proofInputs)
    /\ entry.scenario.extras \in Seq({entry.scenario.extras[n] : n \in DOMAIN entry.scenario.extras})

LEMMA OtherProof ==
  ASSUME TypedScenario, HonestRuns(impl.proofInputs, entry.scenario), impl.proofInputs # << >>,
         NEW n \in DOMAIN entry.scenario.extras
  PROVE  ~SameProof(valid, entry.scenario.extras[n], impl.proofInputs)
<1> DEFINE extras == entry.scenario.extras
           honest == HonestList(entry.scenario)
           S      == {valid} \cup {extras[m] : m \in DOMAIN extras}
<1>1. << valid >> \in Seq(S) /\ extras \in Seq(S) /\ Len(<< valid >>) = 1 /\ << valid >>[1] = valid
  BY DEF TypedScenario
<1>2. honest = << valid >> \o extras
  BY DEF HonestList, valid
<1>3. /\ Len(honest) = 1 + Len(extras) /\ honest \in Seq(S)
      /\ \A m \in 1 .. Len(<< valid >>) + Len(extras) :
            honest[m] = IF m <= Len(<< valid >>) THEN << valid >>[m] ELSE extras[m - Len(<< valid >>)]
  BY <1>1, <1>2, ConcatProperties
<1>4. n \in 1 .. Len(extras) /\ Len(extras) \in Nat
  BY <1>1
<1>5. honest[1] = valid /\ honest[n + 1] = extras[n] /\ 1 \in DOMAIN honest /\ n + 1 \in DOMAIN honest /\ 1 < n + 1
  <2>1. n \in Nat /\ Len(extras) \in Nat /\ 1 \in 1 .. 1 + Len(extras) /\ n + 1 \in 1 .. 1 + Len(extras) /\ 1 < n + 1 /\ ~(n + 1 <= 1) /\ n + 1 - 1 = n
    BY <1>4
  <2> HIDE DEF honest, extras, S
  <2>2. DOMAIN honest = 1 .. 1 + Len(extras)
    BY <1>3
  <2>3. \A m \in 1 .. 1 + Len(extras) : honest[m] = IF m <= 1 THEN valid ELSE extras[m - 1]
    BY <1>1, <1>3
  <2>4. honest[1] = valid
    BY <2>1, <2>3
  <2>5. honest[n + 1] = extras[n]
    <3>1. honest[n + 1] = extras[n + 1 - 1]
      BY <2>1, <2>3
    <3>2. QED
      BY <2>1, <3>1
  <2>6. QED
    BY <2>1, <2>2, <2>4, <2>5
<1>6. SUFFICES ASSUME SameProof(valid, extras[n], impl.proofInputs) PROVE FALSE
  OBVIOUS
<1> HIDE DEF honest, S
<1>7. \A k \in DOMAIN impl.proofInputs :
         Located(valid, impl.proofInputs[k]) /\ Located(extras[n], impl.proofInputs[k])
  BY <1>5 DEF HonestRuns, honest
<1>8. ProofFingerprint(valid, impl.proofInputs) = ProofFingerprint(extras[n], impl.proofInputs)
  BY <1>6, <1>7, SameProofSameFingerprint DEF TypedScenario
<1>9. QED
  BY <1>5, <1>8 DEF HonestRuns, honest

LEMMA ShownGenerality == ASSUME RowInv, WellFormed, TypedScenario PROVE GeneralityIsShown
<1> DEFINE extras == entry.scenario.extras
<1>1. SUFFICES ASSUME Reported, row.runtimeGeneral PROVE GeneralityIsShown
  BY DEF GeneralityIsShown
<1>2. Packing /\ Honesty
  BY <1>1, ReportedRow
<1>3. /\ impl.proofInputs # << >> /\ extras # << >>
      /\ ~RunRejects(entry.verifier, "loosened", valid, bsv)
      /\ AcceptedExtras = DOMAIN extras
  BY <1>1, <1>2 DEF Honesty, ProofIdentity
<1>4. 1 \in DOMAIN extras
  BY <1>3 DEF WellFormed, IsSeq
<1>5. ~RunRejects(entry.verifier, "loosened", extras[1], bsv)
  BY <1>3, <1>4 DEF AcceptedExtras
<1>6. ~SameProof(valid, extras[1], impl.proofInputs)
  BY <1>2, <1>3, <1>4, OtherProof DEF Packing
<1>7. SameProgramRun(valid, extras[1])
  BY <1>2, <1>4 DEF Packing, HonestRuns, valid
<1>8. \A i \in DOMAIN extras[1] : Skeleton(Program(extras[1][i])) = Skeleton(Program(valid[i]))
  BY <1>4, <1>7, SameProgramSkeletons DEF TypedScenario
<1>9. QED
  BY <1>3, <1>4, <1>5, <1>6, <1>8 DEF GeneralityIsShown

(* The second proof of a splice is accepted, and another proof.             *)
LEMMA SecondIsAnotherProof ==
  ASSUME WellFormed, TypedScenario, HonestRuns(impl.proofInputs, entry.scenario), Second # None
  PROVE  /\ ~RunRejects(entry.verifier, "loosened", Second, bsv)
         /\ ~SameProof(valid, Second, impl.proofInputs)
<1> DEFINE extras == entry.scenario.extras
           others == DOMAIN DistinctExtraProofs(impl.proofInputs, entry.scenario) \cap AcceptedExtras
<1>1. others # {} /\ Second = extras[Min(others)]
  BY DEF Second
<1>2. impl.proofInputs # << >>
  <2>1. SUFFICES ASSUME impl.proofInputs = << >> PROVE FALSE
    OBVIOUS
  <2>2. DOMAIN DistinctExtraProofs(impl.proofInputs, entry.scenario) = {}
    BY <2>1 DEF DistinctExtraProofs
  <2>3. QED
    BY <1>1, <2>2
<1>3. others \subseteq DOMAIN extras /\ others \subseteq AcceptedExtras
  BY <1>2 DEF DistinctExtraProofs
<1>4. DOMAIN extras = 1 .. Len(extras) /\ Len(extras) \in Nat
  BY DEF WellFormed, IsSeq
<1>5. IsFiniteSet(others) /\ others \subseteq Int
  <2>1. IsFiniteSet(1 .. Len(extras)) /\ others \subseteq 1 .. Len(extras)
    BY <1>3, <1>4, FS_Interval
  <2> HIDE DEF others
  <2>2. IsFiniteSet(others)
    BY <2>1, FS_Subset
  <2>3. others \subseteq Int
    BY <1>4, <2>1
  <2>4. QED
    BY <2>2, <2>3
<1> HIDE DEF others
<1>6. \E m \in others : \A n \in others : m <= n
  BY <1>1, <1>5, Least
<1>7. Min(others) \in others
  BY <1>6 DEF Min
<1>8. QED
  BY <1>1, <1>2, <1>3, <1>7, OtherProof DEF AcceptedExtras

LEMMA BoundSeams == ASSUME RowInv, WellFormed, TypedScenario PROVE SampledSeamsAreBound
<1>1. SUFFICES ASSUME Reported, row.staple.seamsTested > 0 PROVE SampledSeamsAreBound
  BY DEF SampledSeamsAreBound
<1>2. Packing /\ Honesty /\ Spliced
  BY <1>1, ReportedRow
<1>3. StapleApplies(valid) /\ row.distinctExtra # None /\ ~row.staple.reason
  BY <1>1, <1>2 DEF Spliced, CrossStageStaple, Staple
<1>4. HonestRuns(impl.proofInputs, entry.scenario) /\ RunShape(valid) /\ row.distinctExtra = Second
  BY <1>2 DEF Packing, Honesty, HonestRuns, valid
<1>5. /\ ~RunRejects(entry.verifier, "loosened", row.distinctExtra, bsv)
      /\ ~SameProof(valid, row.distinctExtra, impl.proofInputs)
  BY <1>3, <1>4, SecondIsAnotherProof
<1>6. row.staple.unboundSeams = 0 => \A r \in Splices : RunRejects(entry.verifier, "loosened", r, bsv)
  BY <1>2, <1>3, <1>4, EverySpliceRejected
<1>7. QED
  BY <1>5, <1>6 DEF SampledSeamsAreBound

LEMMA StaysTyped == Spec /\ WellFormed /\ TypedScenario => [](WellFormed /\ TypedScenario)
<1>1. WellFormed /\ TypedScenario /\ [Next]_vars => (WellFormed /\ TypedScenario)'
  <2>1. SUFFICES ASSUME WellFormed, TypedScenario, [Next]_vars PROVE WellFormed' /\ TypedScenario'
    OBVIOUS
  <2>2. entry' = entry
    BY <2>1, EntryStays
  <2>3. WellFormed'
    BY <2>1, <2>2 DEF WellFormed, valid, impl
  <2>4. TypedScenario'
    BY <2>1, <2>2 DEF TypedScenario, valid, impl
  <2>5. QED
    BY <2>3, <2>4
<1>2. QED
  BY <1>1, PTL DEF Spec

(* An entry is reported general only after another proof was accepted by    *)
(* the same program, whatever the scripts, the locators and the proofs are  *)
(* (GeneralityIsShown; generalityReason of src/harness/benchmark.ts and     *)
(* assertHonestRuns of src/harness/scenario-contract.ts).                   *)
THEOREM GeneralityShown == Spec /\ WellFormed /\ TypedScenario => []GeneralityIsShown
<1>1. RowInv /\ WellFormed /\ TypedScenario => GeneralityIsShown
  BY ShownGenerality
<1>2. QED
  BY <1>1, RowSafety, StaysTyped, PTL

(* Seams reported bound were sampled with another, accepted proof, and no   *)
(* splice at any of them is accepted as a transaction, for proofs of any    *)
(* length (SampledSeamsAreBound; crossStageStaple of                        *)
(* src/harness/benchmark.ts).                                               *)
THEOREM SeamsBound == Spec /\ WellFormed /\ TypedScenario => []SampledSeamsAreBound
<1>1. RowInv /\ WellFormed /\ TypedScenario => SampledSeamsAreBound
  BY BoundSeams
<1>2. QED
  BY <1>1, RowSafety, StaysTyped, PTL

-----------------------------------------------------------------------------
(* Replaced unlockings                                                      *)

(* A context is not an absent field.                                        *)
ContextsAreThere ==
    /\ \A x : IsIntraTx(x) => x # None
    /\ \A g : IsGrouped(g) => g # None

LEMMA ReplacedIntraTx ==
  ASSUME ContextsAreThere, NEW v, TypedRun(v), RunShape(v), 1 \in DOMAIN v,
         v[1].intraTx # None, NEW new
  PROVE  LET r == WithUnlockings(v, new)
         IN  /\ TypedRun(r) /\ RunShape(r) /\ DOMAIN r = DOMAIN v
             /\ \A i \in DOMAIN v : Skeleton(Program(r[i])) = Skeleton(Program(v[i]))
<1> DEFINE u == Unlockings(v, new)
           inputs == [k \in DOMAIN v |-> [v[k].intraTx.inputs[k] EXCEPT !.unlock = u[k]]]
           X(i) == [index |-> i, inputs |-> inputs]
           r == WithUnlockings(v, new)
<1>1. \A i \in DOMAIN v : /\ v[i].intraTx # None /\ v[i].grouped = None /\ v[i].covenant = None
                          /\ ContextKind(v[i]) = "intraTx"
  <2>1. SUFFICES ASSUME NEW i \in DOMAIN v
        PROVE  /\ v[i].intraTx # None /\ v[i].grouped = None /\ v[i].covenant = None
               /\ ContextKind(v[i]) = "intraTx"
    OBVIOUS
  <2>2. v[i]["intraTx"] # None
    BY ContextsOfSteps DEF ContextKinds
  <2>3. OneContext(v[i])
    BY DEF RunShape
  <2>4. QED
    BY <2>2, <2>3, KindOfContext DEF ContextKinds
<1>2. \A i \in DOMAIN v :
        /\ v[i].intraTx.index = i
        /\ DOMAIN v[i].intraTx.inputs = DOMAIN v
        /\ \A k \in DOMAIN v : /\ SameInput(v[i].intraTx.inputs[k], v[k])
                               /\ DOMAIN v[i].intraTx.inputs[k] = {"lock", "unlock"}
        /\ DOMAIN v[i] = {"lock", "unlock", "checkpoint"} \cup ContextKinds
        /\ i \in Nat
  <2>1. IntraTxShape(v)
    BY <1>1 DEF RunShape
  <2>2. \A i \in DOMAIN v : TypedStep(v[i]) /\ IsStep(v[i]) /\ IsIntraTx(v[i].intraTx) /\ IsList(v[i].intraTx.inputs)
    BY <1>1 DEF TypedRun, TypedStep, IsStep
  <2>3. DOMAIN v = 1 .. Len(v) /\ Len(v) \in Nat
    BY DEF TypedRun, IsList
  <2>4. QED
    BY <2>1, <2>2, <2>3 DEF IntraTxShape, IsList, IsStep, IsIntraTx, IsInputs
<1>3. r = [i \in DOMAIN v |-> [[v[i] EXCEPT !.unlock = u[i]] EXCEPT !.intraTx = X(i)]]
  BY <1>1 DEF WithUnlockings
<1>4. DOMAIN r = DOMAIN v /\ IsList(r) /\ Len(r) = Len(v)
  BY <1>3, RunFromSteps DEF TypedRun
<1>5. DOMAIN inputs = DOMAIN v /\ IsList(inputs) /\ Len(inputs) = Len(v)
  <2> DEFINE w == inputs
  <2>1. w = [k \in DOMAIN v |-> w[k]]
    OBVIOUS
  <2> HIDE DEF w
  <2>2. IsList(w) /\ Len(w) = Len(v) /\ DOMAIN w = DOMAIN v
    BY <2>1, RunFromSteps DEF TypedRun
  <2>3. QED
    BY <2>2 DEF w
<1>6. \A k \in DOMAIN v : /\ DOMAIN inputs[k] = {"lock", "unlock"}
                          /\ inputs[k].lock = v[k].lock /\ inputs[k].unlock = u[k]
  BY <1>2 DEF SameInput
<1>7. \A i \in DOMAIN v :
        /\ DOMAIN r[i] = {"lock", "unlock", "checkpoint"} \cup ContextKinds
        /\ r[i].lock = v[i].lock /\ r[i].unlock = u[i]
        /\ r[i].intraTx = X(i) /\ r[i].grouped = None /\ r[i].covenant = None
  <2>1. SUFFICES ASSUME NEW i \in DOMAIN v
        PROVE  /\ DOMAIN r[i] = {"lock", "unlock", "checkpoint"} \cup ContextKinds
               /\ r[i].lock = v[i].lock /\ r[i].unlock = u[i]
               /\ r[i].intraTx = X(i) /\ r[i].grouped = None /\ r[i].covenant = None
    OBVIOUS
  <2>2. r[i] = [[v[i] EXCEPT !.unlock = u[i]] EXCEPT !.intraTx = X(i)]
    BY <1>3
  <2> HIDE DEF r, u, X
  <2>3. DOMAIN v[i] = {"lock", "unlock", "checkpoint"} \cup ContextKinds /\ v[i].grouped = None /\ v[i].covenant = None
    BY <1>1, <1>2
  <2>4. QED
    BY <2>2, <2>3 DEF ContextKinds
<1>8. \A i \in DOMAIN v : IsIntraTx(X(i)) /\ X(i) # None
  <2>1. \A i \in DOMAIN v : IsIntraTx(X(i))
    BY <1>2, <1>5, <1>6 DEF IsIntraTx, IsInputs
  <2>2. QED
    BY <2>1 DEF ContextsAreThere
<1>9. \A i \in DOMAIN v : X(i).index = i /\ X(i).inputs = inputs
  OBVIOUS
<1> HIDE DEF r, u, inputs, X
<1>10. TypedRun(r)
  <2>1. SUFFICES ASSUME NEW i \in DOMAIN v PROVE TypedStep(r[i])
    BY <1>4 DEF TypedRun
  <2>2. IsStep(r[i])
    BY <1>7, <1>8 DEF IsStep
  <2>3. r[i].intraTx.inputs = inputs /\ r[i].grouped = None
    BY <1>7, <1>9
  <2>4. QED
    BY <1>5, <2>2, <2>3 DEF TypedStep
<1>11. \A i \in DOMAIN v : OneContext(r[i]) /\ ContextKind(r[i]) = "intraTx"
  <2>1. SUFFICES ASSUME NEW i \in DOMAIN v PROVE OneContext(r[i]) /\ ContextKind(r[i]) = "intraTx"
    OBVIOUS
  <2>2. Contexts(r[i]) = {"intraTx"}
    BY <1>7, <1>8 DEF Contexts, ContextKinds
  <2>3. QED
    BY <2>2 DEF OneContext, ContextKind
<1>12. IntraTxShape(r)
  <2>1. \A i \in DOMAIN r : r[i].intraTx.index = i /\ r[i].intraTx.inputs = inputs
    BY <1>4, <1>7, <1>9
  <2>2. \A k \in DOMAIN inputs : SameInput(inputs[k], r[k])
    BY <1>5, <1>6, <1>7 DEF SameInput
  <2>3. QED
    BY <1>4, <1>5, <2>1, <2>2 DEF IntraTxShape
<1>13. RunShape(r)
  <2>1. r # << >>
    BY <1>4
  <2>2. QED
    BY <1>4, <1>11, <1>12, <2>1 DEF RunShape
<1>14. ASSUME NEW i \in DOMAIN v PROVE Skeleton(Program(r[i])) = Skeleton(Program(v[i]))
  <2>1. Program(r[i]) = IntraTxProgram(X(i)) /\ Program(v[i]) = IntraTxProgram(v[i].intraTx)
    BY <1>1, <1>7, <1>8 DEF Program
  <2>2. /\ Program(r[i]).index = i /\ Program(v[i]).index = i
        /\ Program(r[i]).outputs = Program(v[i]).outputs
        /\ Program(r[i]).inputs = [k \in DOMAIN v |-> InputOf(inputs[k], None)]
        /\ Program(v[i]).inputs = [k \in DOMAIN v |-> InputOf(v[i].intraTx.inputs[k], None)]
    BY <1>2, <1>5, <1>9, <2>1 DEF IntraTxProgram
  <2>3. \A k \in DOMAIN v : inputs[k].lock = v[i].intraTx.inputs[k].lock
    BY <1>2, <1>6 DEF SameInput
  <2>4. [k \in DOMAIN Program(r[i]).inputs |-> << Program(r[i]).inputs[k].lock, TokenSkeleton(Program(r[i]).inputs[k].token) >>]
        = [k \in DOMAIN Program(v[i]).inputs |-> << Program(v[i]).inputs[k].lock, TokenSkeleton(Program(v[i]).inputs[k].token) >>]
    BY <2>2, <2>3 DEF InputOf
  <2>5. QED
    BY <2>2, <2>4 DEF Skeleton
<1>15. QED
  BY <1>4, <1>10, <1>13, <1>14 DEF r

LEMMA ReplacedGroups ==
  ASSUME ContextsAreThere, NEW v, TypedRun(v), RunShape(v), 1 \in DOMAIN v,
         v[1].grouped # None, NEW new
  PROVE  LET r == WithUnlockings(v, new)
         IN  /\ TypedRun(r) /\ RunShape(r) /\ DOMAIN r = DOMAIN v
             /\ \A i \in DOMAIN v : Skeleton(Program(r[i])) = Skeleton(Program(v[i]))
<1> DEFINE u == Unlockings(v, new)
           r == WithUnlockings(v, new)
           g(i) == v[i].grouped
           base(i) == v[First(v, g(i).group)].grouped.inputs
           at(i, k) == {j \in Members(v, g(i).group) : v[j].grouped.index = k}
           shared(i) == [k \in DOMAIN base(i) |->
                           IF at(i, k) = {} THEN base(i)[k]
                           ELSE [base(i)[k] EXCEPT !.unlock = u[Max(at(i, k))]]]
           G(i) == [g(i) EXCEPT !.inputs = shared(i)]
<1>1. \A i \in DOMAIN v : /\ v[i].grouped # None /\ v[i].intraTx = None /\ v[i].covenant = None
                          /\ ContextKind(v[i]) = "grouped"
  <2>1. SUFFICES ASSUME NEW i \in DOMAIN v
        PROVE  /\ v[i].grouped # None /\ v[i].intraTx = None /\ v[i].covenant = None
               /\ ContextKind(v[i]) = "grouped"
    OBVIOUS
  <2>2. v[i]["grouped"] # None
    BY ContextsOfSteps DEF ContextKinds
  <2>3. OneContext(v[i])
    BY DEF RunShape
  <2>4. QED
    BY <2>2, <2>3, KindOfContext DEF ContextKinds
<1>2. GroupedShape(v)
  BY <1>1 DEF RunShape
<1>3. DOMAIN v = 1 .. Len(v) /\ Len(v) \in Nat
  BY DEF TypedRun, IsList
<1>4. \A i \in DOMAIN v :
        /\ IsGrouped(g(i)) /\ IsList(g(i).inputs)
        /\ g(i).inputTokens # None => IsList(g(i).inputTokens)
        /\ DOMAIN v[i] = {"lock", "unlock", "checkpoint"} \cup ContextKinds
  BY <1>1 DEF TypedRun, TypedStep, IsStep
<1>5. ASSUME NEW i \in DOMAIN v, NEW f, f = First(v, g(i).group)
      PROVE  /\ f \in DOMAIN v /\ g(f).group = g(i).group
             /\ f \in Int /\ Cardinality(Members(v, g(i).group)) \in Nat
             /\ Members(v, g(i).group) = f .. (f + Cardinality(Members(v, g(i).group)) - 1)
             /\ g(i).index = i - f + 1
             /\ Len(g(i).inputs) = Cardinality(Members(v, g(i).group))
             /\ \A k \in DOMAIN g(i).inputs : SameInput(g(i).inputs[k], v[f + k - 1])
             /\ SameGroupContext(g(i), g(f))
  <2>1. /\ IsFiniteSet(Members(v, g(i).group)) /\ f \in Members(v, g(i).group)
    BY <1>5, FirstIsLeast DEF TypedRun
  <2>2. f \in DOMAIN v /\ g(f).group = g(i).group
    BY <2>1 DEF Members
  <2>3. f \in Int /\ Cardinality(Members(v, g(i).group)) \in Nat
    BY <1>3, <2>1, <2>2, FS_CardinalityType
  <2>4. g(i).group \in {v[k].grouped.group : k \in DOMAIN v}
    OBVIOUS
  <2>5. /\ Members(v, v[i].grouped.group)
             = First(v, v[i].grouped.group) .. (First(v, v[i].grouped.group) + Cardinality(Members(v, v[i].grouped.group)) - 1)
    BY <1>2, <2>4 DEF GroupedShape
  <2>6. LET first == First(v, v[i].grouped.group)
        IN  /\ v[i].grouped.index = i - first + 1
            /\ Len(v[i].grouped.inputs) = Cardinality(Members(v, v[i].grouped.group))
            /\ \A k \in DOMAIN v[i].grouped.inputs : SameInput(v[i].grouped.inputs[k], v[first + k - 1])
            /\ SameGroupContext(v[i].grouped, v[first].grouped)
    BY <1>2 DEF GroupedShape
  <2>7. QED
    BY <1>5, <2>2, <2>3, <2>5, <2>6
<1>6. ASSUME NEW i \in DOMAIN v, NEW f, f = First(v, g(i).group)
      PROVE  /\ DOMAIN shared(i) = DOMAIN g(i).inputs
             /\ \A k \in DOMAIN g(i).inputs :
                  /\ f + k - 1 \in DOMAIN v
                  /\ DOMAIN shared(i)[k] = {"lock", "unlock"}
                  /\ shared(i)[k].lock = v[f + k - 1].lock /\ shared(i)[k].lock = g(i).inputs[k].lock
                  /\ shared(i)[k].unlock = u[f + k - 1]
  <2> DEFINE c == Cardinality(Members(v, g(i).group))
             b == g(f).inputs
  <2>1. /\ f \in DOMAIN v /\ g(f).group = g(i).group /\ f \in Int /\ c \in Nat
        /\ Members(v, g(i).group) = f .. (f + c - 1)
        /\ Len(g(i).inputs) = c
        /\ \A k \in DOMAIN g(i).inputs : SameInput(g(i).inputs[k], v[f + k - 1])
    BY <1>5, <1>6
  <2>2. /\ First(v, g(f).group) = f
        /\ Len(b) = c /\ \A k \in DOMAIN b : SameInput(b[k], v[f + k - 1])
    BY <1>5, <1>6, <2>1
  <2>3. DOMAIN g(i).inputs = 1 .. c /\ DOMAIN b = 1 .. c
    BY <1>4, <2>1, <2>2 DEF IsList
  <2>4. base(i) = b
    BY <1>6
  <2>5. \A k \in 1 .. c : DOMAIN b[k] = {"lock", "unlock"}
    BY <1>4, <2>1, <2>3 DEF IsGrouped, IsInputs
  <2>6. \A j \in Members(v, g(i).group) : g(j).index = j - f + 1
    <3>1. SUFFICES ASSUME NEW j \in Members(v, g(i).group) PROVE g(j).index = j - f + 1
      OBVIOUS
    <3>2. j \in DOMAIN v /\ g(j).group = g(i).group
      BY DEF Members
    <3>3. f = First(v, g(j).group)
      BY <1>6, <3>2
    <3>4. QED
      BY <1>5, <3>2, <3>3
  <2>7. \A k \in 1 .. c : f + k - 1 \in Members(v, g(i).group) /\ f + k - 1 \in DOMAIN v
    <3>1. \A k \in 1 .. c : f + k - 1 \in Members(v, g(i).group)
      <4> HIDE DEF c
      <4>1. \A k \in 1 .. c : f + k - 1 \in f .. (f + c - 1)
        BY <2>1
      <4>2. QED
        BY <2>1, <4>1
    <3>2. QED
      BY <3>1 DEF Members
  <2>8. ASSUME NEW k \in 1 .. c PROVE at(i, k) = {f + k - 1} /\ Max(at(i, k)) = f + k - 1
    <3>1. k \in Int /\ f + k - 1 \in Int
      BY <2>1, <2>8
    <3>2. \A j \in Members(v, g(i).group) : j \in Int /\ (v[j].grouped.index = k <=> j = f + k - 1)
      BY <2>1, <2>6, <3>1, SMTT(30)
    <3>3. at(i, k) = {f + k - 1}
      BY <2>7, <2>8, <3>2
    <3> HIDE DEF at
    <3>4. Max({f + k - 1}) = f + k - 1
      BY <3>1 DEF Max
    <3>5. QED
      BY <3>3, <3>4
  <2> HIDE DEF c, at, b, base
  <2>9. DOMAIN shared(i) = 1 .. c
    BY <2>3, <2>4
  <2>10. ASSUME NEW k \in 1 .. c
         PROVE  /\ DOMAIN shared(i)[k] = {"lock", "unlock"}
                /\ shared(i)[k].lock = b[k].lock /\ shared(i)[k].unlock = u[f + k - 1]
    <3>1. shared(i)[k] = [b[k] EXCEPT !.unlock = u[f + k - 1]]
      BY <2>3, <2>4, <2>8, <2>10
    <3> HIDE DEF shared, u
    <3>2. DOMAIN b[k] = {"lock", "unlock"}
      BY <2>5, <2>10
    <3>3. QED
      BY <3>1, <3>2
  <2> HIDE DEF shared, u
  <2>11. \A k \in 1 .. c : b[k].lock = v[f + k - 1].lock /\ g(i).inputs[k].lock = v[f + k - 1].lock
    BY <2>1, <2>2, <2>3 DEF SameInput
  <2>12. QED
    BY <2>3, <2>7, <2>9, <2>10, <2>11
<1> HIDE DEF base, at
<1>7. r = [i \in DOMAIN v |-> [[v[i] EXCEPT !.unlock = u[i]] EXCEPT !.grouped.inputs = shared(i)]]
  BY <1>1 DEF WithUnlockings, base, at
<1>8. DOMAIN r = DOMAIN v /\ IsList(r) /\ Len(r) = Len(v)
  BY <1>7, RunFromSteps DEF TypedRun
<1>9. \A i \in DOMAIN v :
        /\ DOMAIN r[i] = {"lock", "unlock", "checkpoint"} \cup ContextKinds
        /\ r[i].lock = v[i].lock /\ r[i].unlock = u[i]
        /\ r[i].grouped = G(i) /\ r[i].intraTx = None /\ r[i].covenant = None
  <2>1. SUFFICES ASSUME NEW i \in DOMAIN v
        PROVE  /\ DOMAIN r[i] = {"lock", "unlock", "checkpoint"} \cup ContextKinds
               /\ r[i].lock = v[i].lock /\ r[i].unlock = u[i]
               /\ r[i].grouped = G(i) /\ r[i].intraTx = None /\ r[i].covenant = None
    OBVIOUS
  <2>2. r[i] = [[v[i] EXCEPT !.unlock = u[i]] EXCEPT !.grouped.inputs = shared(i)]
    BY <1>7
  <2> HIDE DEF r, u, shared
  <2>3. DOMAIN v[i] = {"lock", "unlock", "checkpoint"} \cup ContextKinds /\ v[i].intraTx = None /\ v[i].covenant = None
    BY <1>1, <1>4
  <2>4. QED
    BY <2>2, <2>3 DEF ContextKinds
<1>10. \A i \in DOMAIN v :
        /\ DOMAIN G(i) = DOMAIN g(i) /\ G(i).inputs = shared(i)
        /\ G(i).group = g(i).group /\ G(i).index = g(i).index /\ G(i).category = g(i).category
        /\ G(i).inToken = g(i).inToken /\ G(i).inputTokens = g(i).inputTokens
        /\ G(i).outToken = g(i).outToken /\ G(i).outLock = g(i).outLock
  BY <1>4 DEF IsGrouped
<1> HIDE DEF r, u, shared, G
<1>11. ASSUME NEW i \in DOMAIN v
       PROVE  IsList(shared(i)) /\ Len(shared(i)) = Len(g(i).inputs) /\ DOMAIN shared(i) = DOMAIN g(i).inputs
  <2> DEFINE w == shared(i)
             x == g(i).inputs
  <2>1. DOMAIN w = DOMAIN x /\ IsList(x)
    BY <1>4, <1>6
  <2>2. w = [k \in DOMAIN x |-> w[k]]
    BY <2>1 DEF shared
  <2> HIDE DEF w, x
  <2>3. IsList(w) /\ Len(w) = Len(x)
    BY <2>1, <2>2, RunFromSteps
  <2>4. QED
    BY <2>1, <2>3 DEF w, x
<1>12. ASSUME NEW i \in DOMAIN v PROVE IsGrouped(G(i)) /\ G(i) # None
  <2>1. IsInputs(shared(i))
    BY <1>6 DEF IsInputs
  <2>2. IsGrouped(G(i))
    BY <1>4, <1>10, <2>1 DEF IsGrouped
  <2>3. QED
    BY <2>2 DEF ContextsAreThere
<1>13. TypedRun(r)
  <2>1. SUFFICES ASSUME NEW i \in DOMAIN v PROVE TypedStep(r[i])
    BY <1>8 DEF TypedRun
  <2>2. IsStep(r[i])
    BY <1>9, <1>12 DEF IsStep
  <2>3. IsList(r[i].grouped.inputs) /\ r[i].intraTx = None
        /\ r[i].grouped.inputTokens = g(i).inputTokens
    BY <1>9, <1>10, <1>11
  <2>4. QED
    BY <1>4, <2>2, <2>3 DEF TypedStep
<1>14. \A i \in DOMAIN v : OneContext(r[i]) /\ ContextKind(r[i]) = "grouped"
  <2>1. SUFFICES ASSUME NEW i \in DOMAIN v PROVE OneContext(r[i]) /\ ContextKind(r[i]) = "grouped"
    OBVIOUS
  <2>2. Contexts(r[i]) = {"grouped"}
    BY <1>9, <1>12 DEF Contexts, ContextKinds
  <2>3. QED
    BY <2>2 DEF OneContext, ContextKind
<1>15. \A n : Members(r, n) = Members(v, n) /\ First(r, n) = First(v, n)
  <2>1. \A i \in DOMAIN v : r[i].grouped.group = v[i].grouped.group
    BY <1>9, <1>10
  <2>2. \A n : Members(r, n) = Members(v, n)
    BY <1>8, <2>1 DEF Members
  <2>3. QED
    BY <2>2 DEF First
<1>16. GroupedShape(r)
  <2>1. /\ \A i \in DOMAIN v : r[i].grouped.group = v[i].grouped.group
        /\ {r[i].grouped.group : i \in DOMAIN r} = {v[i].grouped.group : i \in DOMAIN v}
    BY <1>8, <1>9, <1>10
  <2>2. ASSUME NEW i \in DOMAIN v
        PROVE  LET h     == r[i].grouped
                   first == First(r, h.group)
               IN  /\ h.inputTokens # None => Len(h.inputTokens) = Len(h.inputs)
                   /\ h.index = i - first + 1
                   /\ Len(h.inputs) = Cardinality(Members(r, h.group))
                   /\ \A k \in DOMAIN h.inputs : SameInput(h.inputs[k], r[first + k - 1])
                   /\ SameGroupContext(h, r[first].grouped)
    <3> DEFINE h     == r[i].grouped
               first == First(r, h.group)
    <3>1. h = G(i) /\ h.group = g(i).group /\ first = First(v, g(i).group)
      BY <1>9, <1>10, <1>15
    <3> HIDE DEF first
    <3>2. /\ first \in DOMAIN v
          /\ g(i).index = i - first + 1
          /\ Len(g(i).inputs) = Cardinality(Members(v, g(i).group))
          /\ SameGroupContext(g(i), g(first))
      BY <1>5, <3>1
    <3>3. g(i).inputTokens # None => Len(g(i).inputTokens) = Len(g(i).inputs)
      BY <1>2 DEF GroupedShape
    <3>4. h.inputs = shared(i) /\ h.index = g(i).index /\ h.inputTokens = g(i).inputTokens
          /\ Len(h.inputs) = Len(g(i).inputs)
      BY <1>10, <1>11, <3>1
    <3>5. ASSUME NEW k \in DOMAIN h.inputs PROVE SameInput(h.inputs[k], r[first + k - 1])
      <4>1. k \in DOMAIN g(i).inputs
        BY <1>11, <3>4, <3>5
      <4>2. /\ first + k - 1 \in DOMAIN v
            /\ shared(i)[k].lock = v[first + k - 1].lock /\ shared(i)[k].unlock = u[first + k - 1]
        BY <1>6, <3>1, <4>1
      <4>3. r[first + k - 1].lock = v[first + k - 1].lock /\ r[first + k - 1].unlock = u[first + k - 1]
        BY <1>9, <4>2
      <4>4. QED
        BY <3>4, <4>2, <4>3 DEF SameInput
    <3>6. SameGroupContext(h, r[first].grouped)
      <4>1. r[first].grouped = G(first)
        BY <1>9, <3>2
      <4>2. \A k : SpentToken(G(i), k) = SpentToken(g(i), k) /\ SpentToken(G(first), k) = SpentToken(g(first), k)
        BY <1>10, <3>2 DEF SpentToken
      <4>3. EffectiveOutputLocking(G(i)) = EffectiveOutputLocking(g(i))
            /\ EffectiveOutputLocking(G(first)) = EffectiveOutputLocking(g(first))
        BY <1>10, <3>2 DEF EffectiveOutputLocking
      <4>4. DOMAIN G(i).inputs = DOMAIN g(i).inputs
        BY <1>10, <1>11
      <4>5. G(i).category = g(i).category /\ G(first).category = g(first).category
            /\ G(i).outToken = g(i).outToken /\ G(first).outToken = g(first).outToken
        BY <1>10, <3>2
      <4>6. QED
        BY <3>1, <3>2, <4>1, <4>2, <4>3, <4>4, <4>5 DEF SameGroupContext
    <3>7. Members(r, h.group) = Members(v, g(i).group)
      BY <1>15, <3>1
    <3> HIDE DEF h
    <3>8. QED
      BY <3>2, <3>3, <3>4, <3>5, <3>6, <3>7 DEF h, first
  <2>3. \A i \in DOMAIN r : i > 1 => r[i - 1].grouped.group <= r[i].grouped.group
    <3>1. \A i \in DOMAIN v : i > 1 => i - 1 \in DOMAIN v
      BY <1>3
    <3>2. \A i \in DOMAIN v : i > 1 => v[i - 1].grouped.group <= v[i].grouped.group
      BY <1>2 DEF GroupedShape
    <3>3. QED
      BY <1>8, <2>1, <3>1, <3>2
  <2>4. /\ {v[i].grouped.group : i \in DOMAIN v} = 1 .. Cardinality({v[i].grouped.group : i \in DOMAIN v})
        /\ \A n \in {v[i].grouped.group : i \in DOMAIN v} :
             Members(v, n) = First(v, n) .. (First(v, n) + Cardinality(Members(v, n)) - 1)
    BY <1>2 DEF GroupedShape
  <2>5. QED
    BY <1>8, <1>15, <2>1, <2>2, <2>3, <2>4 DEF GroupedShape
<1>17. RunShape(r)
  <2>1. r # << >>
    BY <1>8
  <2>2. QED
    BY <1>8, <1>14, <1>16, <2>1 DEF RunShape
<1>18. ASSUME NEW i \in DOMAIN v PROVE Skeleton(Program(r[i])) = Skeleton(Program(v[i]))
  <2>1. Program(r[i]) = GroupedProgram(G(i)) /\ Program(v[i]) = GroupedProgram(g(i))
    BY <1>1, <1>9, <1>12 DEF Program
  <2>2. \A k, t : SpentToken(G(i), k) = SpentToken(g(i), k) /\ GroupToken(G(i), t) = GroupToken(g(i), t)
    BY <1>10 DEF SpentToken, GroupToken
  <2>3. /\ Program(r[i]).index = Program(v[i]).index
        /\ Program(r[i]).outputs = Program(v[i]).outputs
        /\ Program(r[i]).inputs = [k \in DOMAIN g(i).inputs |-> InputOf(shared(i)[k], GroupToken(g(i), SpentToken(g(i), k)))]
        /\ Program(v[i]).inputs = [k \in DOMAIN g(i).inputs |-> InputOf(g(i).inputs[k], GroupToken(g(i), SpentToken(g(i), k)))]
    BY <1>10, <1>11, <2>1, <2>2 DEF GroupedProgram
  <2>4. \A k \in DOMAIN g(i).inputs : shared(i)[k].lock = g(i).inputs[k].lock
    BY <1>6
  <2>5. [k \in DOMAIN Program(r[i]).inputs |-> << Program(r[i]).inputs[k].lock, TokenSkeleton(Program(r[i]).inputs[k].token) >>]
        = [k \in DOMAIN Program(v[i]).inputs |-> << Program(v[i]).inputs[k].lock, TokenSkeleton(Program(v[i]).inputs[k].token) >>]
    BY <2>3, <2>4 DEF InputOf
  <2>6. QED
    BY <2>3, <2>5 DEF Skeleton
<1>19. QED
  BY <1>8, <1>13, <1>17, <1>18 DEF r

LEMMA ReplacedSole ==
  ASSUME NEW v, TypedRun(v), RunShape(v), 1 \in DOMAIN v,
         v[1].grouped = None, v[1].intraTx = None, NEW new
  PROVE  LET r == WithUnlockings(v, new)
         IN  /\ TypedRun(r) /\ RunShape(r) /\ DOMAIN r = DOMAIN v
             /\ \A i \in DOMAIN v : Skeleton(Program(r[i])) = Skeleton(Program(v[i]))
<1> DEFINE u == Unlockings(v, new)
           r == WithUnlockings(v, new)
<1>1. \A i \in DOMAIN v : v[i].grouped = None /\ v[i].intraTx = None
  <2>1. \A i \in DOMAIN v : v[i]["grouped"] = None /\ v[i]["intraTx"] = None
    BY ContextsOfSteps DEF ContextKinds
  <2>2. QED
    BY <2>1
<1>2. r = [i \in DOMAIN v |-> [v[i] EXCEPT !.unlock = u[i]]]
  BY <1>1 DEF WithUnlockings
<1>3. DOMAIN r = DOMAIN v /\ IsList(r) /\ Len(r) = Len(v)
  BY <1>2, RunFromSteps DEF TypedRun
<1>4. \A i \in DOMAIN v :
        /\ DOMAIN r[i] = DOMAIN v[i] /\ DOMAIN v[i] = {"lock", "unlock", "checkpoint"} \cup ContextKinds
        /\ r[i].lock = v[i].lock
        /\ r[i].covenant = v[i].covenant /\ r[i].intraTx = None /\ r[i].grouped = None
  <2>1. SUFFICES ASSUME NEW i \in DOMAIN v
        PROVE  /\ DOMAIN r[i] = DOMAIN v[i] /\ DOMAIN v[i] = {"lock", "unlock", "checkpoint"} \cup ContextKinds
               /\ r[i].lock = v[i].lock
               /\ r[i].covenant = v[i].covenant /\ r[i].intraTx = None /\ r[i].grouped = None
    OBVIOUS
  <2>2. r[i] = [v[i] EXCEPT !.unlock = u[i]]
    BY <1>2
  <2> HIDE DEF r, u
  <2>3. DOMAIN v[i] = {"lock", "unlock", "checkpoint"} \cup ContextKinds
    BY DEF TypedRun, TypedStep, IsStep
  <2>4. QED
    BY <1>1, <2>2, <2>3 DEF ContextKinds
<1> HIDE DEF r, u
<1>5. TypedRun(r)
  <2>1. SUFFICES ASSUME NEW i \in DOMAIN v PROVE TypedStep(r[i])
    BY <1>3 DEF TypedRun
  <2>2. v[i].covenant # None => IsCovenant(v[i].covenant)
    BY DEF TypedRun, TypedStep, IsStep
  <2>3. QED
    BY <1>4, <2>2 DEF TypedStep, IsStep
<1>6. \A i \in DOMAIN v : Contexts(r[i]) = Contexts(v[i])
  BY <1>1, <1>4 DEF Contexts, ContextKinds
<1>7. \A i \in DOMAIN v : (OneContext(r[i]) <=> OneContext(v[i])) /\ ContextKind(r[i]) = ContextKind(v[i])
  <2>1. SUFFICES ASSUME NEW i \in DOMAIN v
        PROVE  (OneContext(r[i]) <=> OneContext(v[i])) /\ ContextKind(r[i]) = ContextKind(v[i])
    OBVIOUS
  <2>2. Contexts(r[i]) = Contexts(v[i])
    BY <1>6
  <2>3. OneContext(r[i]) <=> OneContext(v[i])
    BY <2>2 DEF OneContext
  <2>4. ContextKind(r[i]) = ContextKind(v[i])
    <3> DEFINE kind(S) == IF S = {} THEN "bare" ELSE CHOOSE k \in S : TRUE
    <3>1. ContextKind(r[i]) = kind(Contexts(r[i])) /\ ContextKind(v[i]) = kind(Contexts(v[i]))
      BY DEF ContextKind
    <3> HIDE DEF kind
    <3>2. QED
      BY <2>2, <3>1
  <2>5. QED
    BY <2>3, <2>4
<1>8. ContextKind(r[1]) \notin {"intraTx", "grouped"}
  <2>1. Contexts(r[1]) \subseteq {"covenant"}
    BY <1>4 DEF Contexts, ContextKinds
  <2>2. QED
    BY <2>1 DEF ContextKind
<1>9. RunShape(r)
  <2>1. r # << >>
    BY <1>3
  <2>2. \A i \in DOMAIN v : OneContext(v[i]) /\ ContextKind(v[i]) = ContextKind(v[1])
    BY DEF RunShape
  <2>3. \A i \in DOMAIN r : OneContext(r[i]) /\ ContextKind(r[i]) = ContextKind(r[1])
    BY <1>3, <1>7, <2>2
  <2>4. QED
    BY <1>8, <2>1, <2>3 DEF RunShape
<1>10. ASSUME NEW i \in DOMAIN v PROVE Skeleton(Program(r[i])) = Skeleton(Program(v[i]))
  <2>1. CASE v[i].covenant # None
    <3>1. Program(r[i]) = CovenantProgram(r[i]) /\ Program(v[i]) = CovenantProgram(v[i])
      BY <1>1, <1>4, <2>1 DEF Program
    <3>2. r[i].lock = v[i].lock /\ r[i].covenant = v[i].covenant
      BY <1>4
    <3> DEFINE c == v[i].covenant
               p == CovenantProgram(r[i])
               q == CovenantProgram(v[i])
               t == Token(c.category, Given(c.inputCapability, c.capability), c.inCommitment)
    <3>3. p.index = q.index /\ p.outputs = q.outputs
      BY <3>2 DEF CovenantProgram
    <3>4. p.inputs = << InputOf(r[i], t) >> /\ q.inputs = << InputOf(v[i], t) >>
      BY <3>2 DEF CovenantProgram
    <3> HIDE DEF p, q, c, t
    <3>5. /\ DOMAIN p.inputs = {1} /\ DOMAIN q.inputs = {1}
          /\ p.inputs[1].lock = q.inputs[1].lock /\ p.inputs[1].token = q.inputs[1].token
      BY <3>2, <3>4 DEF InputOf
    <3>6. [k \in DOMAIN p.inputs |-> << p.inputs[k].lock, TokenSkeleton(p.inputs[k].token) >>]
          = [k \in DOMAIN q.inputs |-> << q.inputs[k].lock, TokenSkeleton(q.inputs[k].token) >>]
      BY <3>5
    <3>7. Skeleton(p) = Skeleton(q)
      BY <3>3, <3>6 DEF Skeleton
    <3>8. QED
      BY <3>1, <3>7 DEF p, q
  <2>2. CASE v[i].covenant = None
    <3>1. Program(r[i]) = BareProgram(r[i]) /\ Program(v[i]) = BareProgram(v[i])
      BY <1>1, <1>4, <2>2 DEF Program
    <3>2. r[i].lock = v[i].lock
      BY <1>4
    <3>3. QED
      BY <3>1, <3>2 DEF BareProgram, InputOf, OutputOf, Skeleton
  <2>3. QED
    BY <2>1, <2>2
<1>11. QED
  BY <1>3, <1>5, <1>9, <1>10 DEF r

LEMMA ReplacedRun ==
  ASSUME ContextsAreThere, NEW v, TypedRun(v), RunShape(v), NEW new
  PROVE  LET r == WithUnlockings(v, new)
         IN  /\ IsItsTransactions(r)
             /\ \A i \in DOMAIN r : Skeleton(Program(r[i])) = Skeleton(Program(v[i]))
<1> DEFINE r == WithUnlockings(v, new)
<1>1. 1 \in DOMAIN v
  <2>1. DOMAIN v = 1 .. Len(v) /\ Len(v) \in Nat
    BY DEF TypedRun, IsList
  <2>2. \A n \in DOMAIN v : 1 <= n /\ n <= Len(v)
    BY <2>1
  <2>3. DOMAIN v # {}
    BY DEF RunShape
  <2>4. QED
    BY <2>1, <2>3
<1>2. /\ TypedRun(r) /\ RunShape(r) /\ DOMAIN r = DOMAIN v
      /\ \A i \in DOMAIN v : Skeleton(Program(r[i])) = Skeleton(Program(v[i]))
  <2>1. CASE v[1].intraTx # None
    BY <1>1, <2>1, ReplacedIntraTx
  <2>2. CASE v[1].grouped # None
    BY <1>1, <2>2, ReplacedGroups
  <2>3. CASE v[1].grouped = None /\ v[1].intraTx = None
    BY <1>1, <2>3, ReplacedSole
  <2>4. QED
    BY <2>1, <2>2, <2>3
<1> HIDE DEF r
<1>3. IsItsTransactions(r)
  BY <1>2, ShapedRunsAreTransactions
<1>4. QED
  BY <1>2, <1>3 DEF r

(* The patches of an attack are a replacement.                              *)
LEMMA PatchesReplace ==
  ASSUME NEW v, NEW attack, \A i \in DOMAIN v : v[i].intraTx # None
  PROVE  PatchedRun(v, attack)
         = WithUnlockings(v, [i \in DOMAIN v |-> Given(Patch(attack, i), v[i].unlock)])
<1> DEFINE new == [i \in DOMAIN v |-> Given(Patch(attack, i), v[i].unlock)]
           inputs == [k \in DOMAIN v |-> [v[k].intraTx.inputs[k] EXCEPT !.unlock = new[k]]]
<1>1. Unlockings(v, new) = new
  BY DEF Unlockings
<1>2. WithUnlockings(v, new)
        = [i \in DOMAIN v |-> [[v[i] EXCEPT !.unlock = new[i]] EXCEPT !.intraTx = [index |-> i, inputs |-> inputs]]]
  BY <1>1 DEF WithUnlockings
<1>3. PatchedRun(v, attack)
        = [i \in DOMAIN v |-> [v[i] EXCEPT !.unlock = new[i], !.intraTx = [index |-> i, inputs |-> inputs]]]
  BY DEF PatchedRun
<1>4. QED
  BY <1>2, <1>3

LEMMA SoundGates ==
  ASSUME RowInv, WellFormed, TypedScenario, ContextsAreThere
  PROVE  GatesEvaluateTransactions
<1>1. SUFFICES ASSUME Reported,
                      NEW r \in Splices \cup {x[2] : x \in ClaimRunsOf} \cup AttackRuns \cup PadRuns
               PROVE  /\ IsItsTransactions(r)
                      /\ \A i \in DOMAIN r : Skeleton(Program(r[i])) = Skeleton(Program(valid[i]))
  BY DEF GatesEvaluateTransactions
<1>2. Packing /\ Attacked
  BY <1>1, ReportedRow
<1>3. RunShape(valid) /\ TypedRun(valid)
  BY <1>2 DEF Packing, HonestRuns, TypedScenario, valid
<1>4. SUFFICES \E new : r = WithUnlockings(valid, new)
  BY <1>3, ReplacedRun
<1>5. CASE r \in Splices
  BY <1>5 DEF Splices
<1>6. CASE r \in {x[2] : x \in ClaimRunsOf}
  <2>1. PICK x \in ClaimRuns(valid, impl.publicInputs, impl.order) : r = x[2]
    BY <1>6 DEF ClaimRunsOf
  <2>2. PICK c : x = << c, WithUnlockings(valid, Claimed(valid, impl.publicInputs, c[3])) >>
    BY <2>1 DEF ClaimRuns
  <2>3. QED
    BY <2>1, <2>2
<1>7. CASE r \in AttackRuns
  <2>1. row.redTeam.present
    BY <1>7 DEF AttackRuns
  <2>2. entry.attacks # None
    <3>1. row.redTeam.present = (entry.attacks # None)
      BY <1>2 DEF Attacked, RedTeam
    <3>2. QED
      BY <2>1, <3>1
  <2>3. \A i \in DOMAIN valid : valid[i].intraTx # None
    BY <1>2, <2>2 DEF Attacked, RedTeamThrows
  <2>4. PICK n \in DOMAIN entry.attacks.runs : r = PatchedRun(valid, entry.attacks.runs[n])
    BY <1>7 DEF AttackRuns
  <2>5. QED
    BY <2>3, <2>4, PatchesReplace
<1>8. CASE r \in PadRuns
  BY <1>8 DEF PadRuns, PadRun
<1>9. QED
  BY <1>5, <1>6, <1>7, <1>8

(* Every run a gate evaluates in place of the honest one is a set of        *)
(* transactions to the deployed program, for runs of any length, groups and *)
(* replacements (GatesEvaluateTransactions; withUnlockings of               *)
(* src/harness/gates.ts, redTeam of src/harness/redteam.ts and the hybrids  *)
(* of src/harness/benchmark.ts).                                            *)
THEOREM GatesSound ==
  Spec /\ WellFormed /\ TypedScenario /\ ContextsAreThere => []GatesEvaluateTransactions
<1>1. RowInv /\ WellFormed /\ TypedScenario /\ ContextsAreThere => GatesEvaluateTransactions
  BY SoundGates
<1>2. ContextsAreThere /\ [Next]_vars => ContextsAreThere'
  BY DEF ContextsAreThere
<1>3. Spec /\ ContextsAreThere => []ContextsAreThere
  BY <1>2, PTL DEF Spec
<1>4. QED
  BY <1>1, <1>3, RowSafety, StaysTyped, PTL

-----------------------------------------------------------------------------
(* Fields of fixed width                                                    *)

(* What exponentiation is, of which the provers know nothing.               *)
RadixPowers ==
    /\ Radix \in Nat \ {0} /\ Radix ^ 0 = 1
    /\ \A k \in Nat : Radix ^ k \in Nat \ {0} /\ Radix ^ (k + 1) = Radix * Radix ^ k

LEMMA Divided ==
  ASSUME NEW n \in Nat, NEW d \in Nat \ {0}
  PROVE  /\ n = d * (n \div d) + (n % d)
         /\ n \div d \in Nat /\ n % d \in Nat /\ n % d < d
OBVIOUS

LEMMA OneQuotient ==
  ASSUME NEW n \in Nat, NEW d \in Nat \ {0}, NEW q \in Nat, NEW e \in Nat, e < d, n = d * q + e
  PROVE  n \div d = q
<1>1. /\ n = d * (n \div d) + (n % d)
      /\ n \div d \in Nat /\ n % d \in Nat /\ n % d < d
  BY Divided
<1> DEFINE p == n \div d
           r == n % d
<1>2. p \in Nat /\ r \in Nat /\ r < d /\ n = d * p + r
  BY <1>1
<1> HIDE DEF p, r
<1>3. ASSUME p >= q + 1 PROVE FALSE
  <2>1. d * p >= d * (q + 1)
    BY <1>2, <1>3
  <2>2. d * (q + 1) = d * q + d
    OBVIOUS
  <2>3. QED
    BY <1>2, <2>1, <2>2
<1>4. ASSUME q >= p + 1 PROVE FALSE
  <2>1. d * q >= d * (p + 1)
    BY <1>2, <1>4
  <2>2. d * (p + 1) = d * p + d
    BY <1>2
  <2>3. QED
    BY <1>2, <2>1, <2>2
<1>5. p = q
  BY <1>2, <1>3, <1>4
<1>6. QED
  BY <1>5 DEF p

(* A division by a power is a division by the radix, after another.         *)
LEMMA DividedAgain ==
  ASSUME NEW n \in Nat, NEW b \in Nat \ {0}, NEW d \in Nat \ {0}
  PROVE  n \div (b * d) = (n \div d) \div b
<1> DEFINE q == n \div d
           r == n % d
           s == q \div b
           t == q % b
<1>1. n = d * q + r /\ q \in Nat /\ r \in Nat /\ r < d
  BY Divided
<1> HIDE DEF q, r
<1>2. q = b * s + t /\ s \in Nat /\ t \in Nat /\ t < b
  BY <1>1, Divided
<1> HIDE DEF s, t
<1>3. d * q = (b * d) * s + d * t
  BY <1>1, <1>2
<1>4. d * t + r < b * d
  <2>1. d * t <= d * (b - 1)
    BY <1>2
  <2>2. d * (b - 1) = b * d - d
    OBVIOUS
  <2>3. d * t \in Nat /\ b * d \in Nat
    BY <1>2
  <2> DEFINE x == d * t
             y == b * d
             z == d * (b - 1)
  <2>4. x \in Nat /\ y \in Nat /\ x <= z /\ z = y - d
    BY <2>1, <2>2, <2>3
  <2> HIDE DEF x, y, z
  <2>5. x + r < y
    BY <1>1, <2>4
  <2>6. QED
    BY <2>5 DEF x, y
<1>5. n = (b * d) * s + (d * t + r)
  BY <1>1, <1>2, <1>3
<1>6. b * d \in Nat \ {0} /\ d * t + r \in Nat
  BY <1>1, <1>2
<1>7. n \div (b * d) = s
  <2> DEFINE D == b * d
             e == d * t + r
  <2>1. D \in Nat \ {0} /\ e \in Nat /\ e < D /\ n = D * s + e
    BY <1>4, <1>5, <1>6
  <2> HIDE DEF D, e
  <2>2. n \div D = s
    BY <1>2, <2>1, OneQuotient
  <2>3. QED
    BY <2>2 DEF D
<1>8. QED
  BY <1>7 DEF s, q

Digit(n, k) == (n \div Radix ^ k) % Radix

Places(n, w) == [k \in 0 .. w - 1 |-> Digit(n, k) * Radix ^ k]

(* The digits of a number, and what is left of it above them.               *)
LEMMA DigitsUpTo ==
  ASSUME RadixPowers, NEW n \in Nat, NEW f, NEW w \in Nat,
         \A k \in 0 .. w - 1 : f[k] = Digit(n, k) * Radix ^ k
  PROVE  \A m \in 0 .. w :
            SumFunctionOnSet(f, 0 .. m - 1) + (Radix ^ m) * (n \div Radix ^ m) = n
<1> DEFINE S(m) == SumFunctionOnSet(f, 0 .. m - 1)
           Good == {m \in 0 .. w : S(m) + (Radix ^ m) * (n \div Radix ^ m) = n}
           Bad  == {m \in 0 .. w : m \notin Good}
<1>1. SUFFICES ASSUME Bad # {} PROVE FALSE
  BY <1>1
<1>2. IsFiniteSet(Bad) /\ Bad \subseteq Int
  <2>1. IsFiniteSet(0 .. w)
    BY FS_Interval
  <2>2. QED
    BY <2>1, FS_Subset
<1>3. PICK m \in Bad : \A j \in Bad : m <= j
  BY <1>1, <1>2, Least
<1>4. m \in 0 .. w /\ m \in Nat /\ S(m) + (Radix ^ m) * (n \div Radix ^ m) # n
  BY <1>3
<1>5. m # 0
  <2>1. SUFFICES ASSUME m = 0 PROVE FALSE
    OBVIOUS
  <2>2. 0 .. m - 1 = {}
    BY <2>1
  <2>3. S(m) = 0
    BY <2>2, SumOfNone
  <2>4. Radix ^ m = 1
    BY <2>1 DEF RadixPowers
  <2>5. (Radix ^ m) * (n \div Radix ^ m) = n
    BY <2>4
  <2>6. QED
    BY <1>4, <2>3, <2>5
<1> DEFINE l == m - 1
           P == Radix ^ l
           q == n \div P
<1>6. l \in 0 .. w - 1 /\ l \in Nat /\ m = l + 1 /\ l \in 0 .. w /\ l \notin Bad
  BY <1>3, <1>4, <1>5
<1>7. S(l) + P * q = n
  BY <1>6
<1>8. Radix ^ m = Radix * P /\ P \in Nat \ {0} /\ Radix \in Nat \ {0}
  BY <1>6 DEF RadixPowers
<1>9. n \div (Radix * P) = q \div Radix
  <2> HIDE DEF P
  <2>1. QED
    BY <1>8, DividedAgain
<1>10. f[l] = (q % Radix) * P
  BY <1>6 DEF Digit
<1>11. q \in Nat
  <2> HIDE DEF P
  <2>1. QED
    BY <1>8, Divided
<1>12. \A k \in 0 .. w - 1 : f[k] \in Nat
  <2>1. TAKE k \in 0 .. w - 1
  <2>2. Radix ^ k \in Nat \ {0} /\ Radix \in Nat \ {0}
    BY DEF RadixPowers
  <2> DEFINE R == Radix ^ k
  <2>3. f[k] = ((n \div R) % Radix) * R
    BY DEF Digit
  <2> HIDE DEF R
  <2>4. R \in Nat \ {0}
    BY <2>2 DEF R
  <2>5. n \div R \in Nat
    BY <2>4, Divided
  <2>6. (n \div R) % Radix \in Nat
    BY <2>2, <2>5, Divided
  <2>7. QED
    BY <2>3, <2>4, <2>6
<1>13. S(m) = f[l] + S(l) /\ S(l) \in Nat
  <2>1. 0 .. m - 1 = 0 .. l /\ l \in 0 .. l /\ (0 .. l) \ {l} = 0 .. l - 1
    BY <1>6
  <2>2. IsFiniteSet(0 .. l) /\ IsFiniteSet(0 .. l - 1)
    BY <1>6, FS_Interval
  <2>3. IntOn(f, 0 .. l) /\ \A k \in 0 .. l - 1 : f[k] \in Nat
    BY <1>6, <1>12 DEF IntOn
  <2>4. SumFunctionOnSet(f, 0 .. l) = f[l] + SumFunctionOnSet(f, (0 .. l) \ {l})
    BY <2>1, <2>2, <2>3, SumWithout
  <2>5. SumFunctionOnSet(f, 0 .. l - 1) \in Nat
    BY <2>2, <2>3, SumIsNat
  <2>6. QED
    BY <2>1, <2>4, <2>5
<1>14. S(m) + (Radix * P) * (q \div Radix) = n
  <2> DEFINE s == q \div Radix
             t == q % Radix
             z == S(l)
  <2> HIDE DEF P, q
  <2>1. q = Radix * s + t /\ s \in Nat /\ t \in Nat
    BY <1>8, <1>11, Divided
  <2>2. S(m) = t * P + z /\ z \in Nat /\ z + P * q = n
    BY <1>7, <1>10, <1>13
  <2> HIDE DEF s, t, z, S
  <2>3. P * q = (Radix * P) * s + t * P
    BY <1>8, <2>1
  <2>4. (t * P + z) + (Radix * P) * s = n
    BY <1>8, <2>1, <2>2, <2>3
  <2>5. QED
    BY <2>2, <2>4 DEF s
<1>15. QED
  BY <1>4, <1>8, <1>9, <1>14

(* Where a field has its byte of value Radix ^ k, and which is the value of *)
(* a byte.                                                                  *)
PlaceOf(offset, e, k) == offset + (IF LittleEndian(e) THEN k + 1 ELSE WidthOf(e) - k)

FieldBytes(offset, e) == offset + 1 .. offset + WidthOf(e)

LEMMA PlacesAreInField ==
  ASSUME NEW offset \in Nat, NEW e, WidthOf(e) \in Nat, NEW k \in 0 .. WidthOf(e) - 1
  PROVE  /\ PlaceOf(offset, e, k) \in FieldBytes(offset, e)
         /\ k = IF LittleEndian(e) THEN PlaceOf(offset, e, k) - offset - 1
                ELSE WidthOf(e) - (PlaceOf(offset, e, k) - offset)
<1> DEFINE w == WidthOf(e)
<1>1. w \in Nat /\ k \in 0 .. w - 1
  OBVIOUS
<1> HIDE DEF w
<1>2. CASE LittleEndian(e)
  <2>1. PlaceOf(offset, e, k) = offset + (k + 1)
    BY <1>2 DEF PlaceOf
  <2>2. QED
    BY <1>1, <1>2, <2>1 DEF FieldBytes, w
<1>3. CASE ~LittleEndian(e)
  <2>1. PlaceOf(offset, e, k) = offset + (w - k)
    BY <1>3 DEF PlaceOf, w
  <2>2. QED
    BY <1>1, <1>3, <2>1 DEF FieldBytes, w
<1>4. QED
  BY <1>2, <1>3

LEMMA FieldIsSum ==
  ASSUME NEW d, NEW offset, NEW e
  PROVE  Field(d, offset, e)
           = SumFunctionOnSet([k \in 0 .. WidthOf(e) - 1 |-> d[PlaceOf(offset, e, k)] * Radix ^ k],
                              0 .. WidthOf(e) - 1)
BY Zenon DEF Field, SumFunction, PlaceOf

(* A field depends on its bytes only.                                       *)
LEMMA FieldElsewhere ==
  ASSUME NEW c, NEW d, NEW offset \in Nat, NEW e, WidthOf(e) \in Nat,
         \A j \in FieldBytes(offset, e) : c[j] = d[j]
  PROVE  Field(c, offset, e) = Field(d, offset, e)
<1>1. \A k \in 0 .. WidthOf(e) - 1 : c[PlaceOf(offset, e, k)] = d[PlaceOf(offset, e, k)]
  BY PlacesAreInField
<1>2. [k \in 0 .. WidthOf(e) - 1 |-> c[PlaceOf(offset, e, k)] * Radix ^ k]
        = [k \in 0 .. WidthOf(e) - 1 |-> d[PlaceOf(offset, e, k)] * Radix ^ k]
  BY <1>1
<1>3. QED
  BY <1>2, FieldIsSum

LEMMA FieldIsNat ==
  ASSUME RadixPowers, NEW d, NEW offset \in Nat, NEW e, WidthOf(e) \in Nat,
         \A j \in FieldBytes(offset, e) : d[j] \in Nat
  PROVE  Field(d, offset, e) \in Nat
<1> DEFINE f == [k \in 0 .. WidthOf(e) - 1 |-> d[PlaceOf(offset, e, k)] * Radix ^ k]
<1>1. \A k \in 0 .. WidthOf(e) - 1 : f[k] \in Nat
  <2>1. TAKE k \in 0 .. WidthOf(e) - 1
  <2>2. d[PlaceOf(offset, e, k)] \in Nat
    BY PlacesAreInField
  <2>3. Radix ^ k \in Nat
    BY DEF RadixPowers
  <2>4. QED
    BY <2>2, <2>3
<1>2. IsFiniteSet(0 .. WidthOf(e) - 1)
  BY FS_Interval
<1>3. Field(d, offset, e) = SumFunctionOnSet(f, 0 .. WidthOf(e) - 1)
  BY FieldIsSum
<1> HIDE DEF f
<1>4. QED
  BY <1>1, <1>2, <1>3, SumIsNat

(* What is written to a field is read from it, in either byte order.        *)
LEMMA FieldOfWritten ==
  ASSUME RadixPowers, NEW d, NEW offset \in Nat, NEW e, WidthOf(e) \in Nat,
         FieldBytes(offset, e) \subseteq DOMAIN d, NEW n \in Nat, FitsField(n, e)
  PROVE  Field(WriteField(d, offset, e, n), offset, e) = n
<1> DEFINE w == WidthOf(e)
           c == WriteField(d, offset, e, n)
           f == [k \in 0 .. w - 1 |-> c[PlaceOf(offset, e, k)] * Radix ^ k]
<1>1. \A k \in 0 .. w - 1 : f[k] = Digit(n, k) * Radix ^ k
  <2>1. TAKE k \in 0 .. w - 1
  <2> DEFINE j == PlaceOf(offset, e, k)
  <2>2. /\ j \in FieldBytes(offset, e)
        /\ k = IF LittleEndian(e) THEN j - offset - 1 ELSE WidthOf(e) - (j - offset)
    BY PlacesAreInField
  <2> HIDE DEF j
  <2>3. c[j] = Digit(n, k)
    BY <2>2 DEF WriteField, Digit, FieldBytes
  <2>4. QED
    BY <2>3 DEF j
<1>2. Field(c, offset, e) = SumFunctionOnSet(f, 0 .. w - 1)
  BY FieldIsSum
<1>3. w \in Nat /\ n < Radix ^ w
  BY DEF FitsField
<1> HIDE DEF f, w, c
<1>4. SumFunctionOnSet(f, 0 .. w - 1) + (Radix ^ w) * (n \div Radix ^ w) = n
  <2>1. w \in 0 .. w
    BY <1>3
  <2>2. QED
    BY <1>1, <1>3, <2>1, DigitsUpTo
<1>5. n \div Radix ^ w = 0
  <2> DEFINE P == Radix ^ w
  <2>1. P \in Nat \ {0}
    BY <1>3 DEF RadixPowers
  <2>2. n < P
    BY <1>3
  <2> HIDE DEF P
  <2>3. n = P * 0 + n
    BY <2>1
  <2>4. n \div P = 0
    BY <2>1, <2>2, <2>3, OneQuotient
  <2>5. QED
    BY <2>4 DEF P
<1>6. SumFunctionOnSet(f, 0 .. w - 1) = n
  <2> DEFINE P == Radix ^ w
             s == SumFunctionOnSet(f, 0 .. w - 1)
  <2>1. P \in Nat \ {0} /\ s + P * 0 = n
    BY <1>3, <1>4, <1>5 DEF RadixPowers
  <2>2. \A k \in 0 .. w - 1 : f[k] \in Int
    <3>1. TAKE k \in 0 .. w - 1
    <3> DEFINE R == Radix ^ k
    <3>2. R \in Nat \ {0} /\ Radix \in Nat \ {0}
      BY DEF RadixPowers
    <3>3. f[k] = ((n \div R) % Radix) * R
      BY <1>1 DEF Digit
    <3> HIDE DEF R
    <3>4. n \div R \in Nat
      BY <3>2, Divided
    <3>5. (n \div R) % Radix \in Nat
      BY <3>2, <3>4, Divided
    <3>6. QED
      BY <3>2, <3>3, <3>5
  <2>3. IsFiniteSet(0 .. w - 1)
    BY <1>3, FS_Interval
  <2>4. s \in Int
    BY <2>2, <2>3, SumIsInt DEF IntOn
  <2> HIDE DEF P, s
  <2>5. s = n
    BY <2>1, <2>4
  <2>6. QED
    BY <2>5 DEF s
<1>7. QED
  BY <1>2, <1>6 DEF c
-----------------------------------------------------------------------------
(* The slots of a claim, one after the other                                *)

AfterSlot(u, decl, claim, slots, n) ==
    IF n \notin slots THEN u
    ELSE [u EXCEPT ![decl[n].input][decl[n].push] =
                      Written(@, decl[n], claim[InputName(decl, n)])]

(* f are the unlockings after each of the first m slots.                    *)
WritesSlots(f, valid0, decl, claim, slots, m) ==
    f = [n \in 0 .. m |-> IF n = 0 THEN [i \in DOMAIN valid0 |-> valid0[i].unlock]
                          ELSE AfterSlot(f[n - 1], decl, claim, slots, n)]

LEMMA WritesExist ==
  ASSUME NEW v, NEW decl, NEW claim, NEW slots, NEW N \in Nat
  PROVE  \E f : WritesSlots(f, v, decl, claim, slots, N)
<1> DEFINE Good == {m \in 0 .. N : \E f : WritesSlots(f, v, decl, claim, slots, m)}
           Bad  == {m \in 0 .. N : m \notin Good}
           base == [i \in DOMAIN v |-> v[i].unlock]
<1>1. SUFFICES ASSUME Bad # {} PROVE FALSE
  <2>1. N \in 0 .. N
    OBVIOUS
  <2>2. QED
    BY <1>1, <2>1
<1>2. IsFiniteSet(Bad) /\ Bad \subseteq Int
  <2>1. IsFiniteSet(0 .. N)
    BY FS_Interval
  <2>2. QED
    BY <2>1, FS_Subset
<1>3. PICK m \in Bad : \A j \in Bad : m <= j
  BY <1>1, <1>2, Least
<1>4. m \in 0 .. N /\ m \in Nat /\ ~ \E f : WritesSlots(f, v, decl, claim, slots, m)
  BY <1>3
<1>5. CASE m = 0
  <2> DEFINE f == [n \in 0 .. 0 |-> base]
  <2>1. f = [n \in 0 .. 0 |-> IF n = 0 THEN base ELSE AfterSlot(f[n - 1], decl, claim, slots, n)]
    OBVIOUS
  <2>2. WritesSlots(f, v, decl, claim, slots, 0)
    BY <2>1 DEF WritesSlots
  <2>3. QED
    BY <1>4, <1>5, <2>2
<1>6. CASE m # 0
  <2> DEFINE l == m - 1
  <2>1. l \in 0 .. N /\ l \notin Bad /\ l \in Nat /\ m = l + 1
    BY <1>3, <1>4, <1>6
  <2>2. PICK f : WritesSlots(f, v, decl, claim, slots, l)
    BY <2>1
  <2> DEFINE g == [n \in 0 .. m |-> IF n <= l THEN f[n] ELSE AfterSlot(f[l], decl, claim, slots, n)]
             h == [n \in 0 .. m |-> IF n = 0 THEN base
                                    ELSE AfterSlot(g[n - 1], decl, claim, slots, n)]
  <2>3. \A n \in 0 .. l : f[n] = IF n = 0 THEN base ELSE AfterSlot(f[n - 1], decl, claim, slots, n)
    BY <2>2 DEF WritesSlots
  <2>4. \A n \in 0 .. m : g[n] = h[n]
    <3>1. TAKE n \in 0 .. m
    <3>2. CASE n \in 0 .. l /\ n # 0
      <4>1. n - 1 \in 0 .. l /\ n - 1 \in 0 .. m /\ n <= l /\ n - 1 <= l
        BY <2>1, <3>2
      <4>2. g[n] = f[n] /\ g[n - 1] = f[n - 1]
        BY <4>1
      <4>3. h[n] = AfterSlot(g[n - 1], decl, claim, slots, n)
        BY <3>2
      <4>4. QED
        BY <2>3, <3>2, <4>2, <4>3
    <3>3. CASE n = 0
      <4>1. g[n] = f[n] /\ h[n] = base /\ 0 \in 0 .. l
        BY <2>1, <3>3
      <4>2. QED
        BY <2>3, <3>3, <4>1
    <3>4. CASE n = m
      <4>1. ~(n <= l) /\ n - 1 = l /\ n # 0 /\ l \in 0 .. m /\ l <= l
        BY <2>1, <3>4
      <4>2. g[n] = AfterSlot(f[l], decl, claim, slots, n) /\ g[n - 1] = f[l]
        BY <4>1
      <4>3. h[n] = AfterSlot(g[n - 1], decl, claim, slots, n)
        BY <4>1
      <4>4. QED
        BY <4>2, <4>3
    <3>5. QED
      BY <2>1, <3>2, <3>3, <3>4
  <2>5. g = h
    <3>1. g = [n \in 0 .. m |-> g[n]] /\ h = [n \in 0 .. m |-> h[n]]
      OBVIOUS
    <3> HIDE DEF g, h
    <3>2. QED
      BY <2>4, <3>1
  <2>6. WritesSlots(g, v, decl, claim, slots, m)
    BY <2>5 DEF WritesSlots
  <2>7. QED
    BY <1>4, <2>6
<1>7. QED
  BY <1>5, <1>6

LEMMA SlotsAreWritten ==
  ASSUME NEW v, NEW decl, NEW claim, NEW slots, Len(decl) \in Nat
  PROVE  \E f : /\ WritesSlots(f, v, decl, claim, slots, Len(decl))
                /\ WriteSlots(v, decl, claim, slots) = f[Len(decl)]
<1> DEFINE f == CHOOSE f : WritesSlots(f, v, decl, claim, slots, Len(decl))
<1>1. WritesSlots(f, v, decl, claim, slots, Len(decl))
  BY WritesExist
<1>2. WriteSlots(v, decl, claim, slots) = f[Len(decl)]
  BY DEF WriteSlots, WritesSlots, AfterSlot
<1>3. QED
  BY <1>1, <1>2
-----------------------------------------------------------------------------
(* The claims                                                               *)

ByteList(b) == IsList(b) /\ Len(b) > 1 /\ \A j \in DOMAIN b : b[j] \in 0 .. Radix - 1

PushAt(u, d) == u[d.input][d.push]

(* What a slot says of unlockings.                                          *)
Says(u, d) ==
    IF d.offset = None THEN NumberOf(PushAt(u, d)) ELSE Field(BytesOf(PushAt(u, d)), d.offset, d.encoding)

BytesReadBack == \A b : ByteList(b) => BytesOf(DataPush(b)) = b /\ b # None

(* The slots lie in the pushes of the unlockings u.                         *)
SlotsThere(u, decl) ==
    \A n \in DOMAIN decl :
        /\ decl[n].input \in DOMAIN u
        /\ decl[n].push \in DOMAIN u[decl[n].input]
        /\ decl[n].offset # None =>
             /\ decl[n].offset \in Nat /\ WidthOf(decl[n].encoding) \in Nat
             /\ ByteList(BytesOf(PushAt(u, decl[n])))
             /\ FieldBytes(decl[n].offset, decl[n].encoding) \subseteq DOMAIN BytesOf(PushAt(u, decl[n]))

(* Two slots of one push are fields that share no byte.                     *)
SlotsApart(decl) ==
    \A m, n \in DOMAIN decl :
        m # n /\ decl[m].input = decl[n].input /\ decl[m].push = decl[n].push =>
            /\ decl[m].offset # None /\ decl[n].offset # None
            /\ FieldBytes(decl[m].offset, decl[m].encoding)
                 \cap FieldBytes(decl[n].offset, decl[n].encoding) = {}

(* The numbers of a claim.                                                  *)
ClaimFits(decl, claim) ==
    /\ FitsSlots(decl, claim)
    /\ \A n \in DOMAIN decl :
         LET x == claim[InputName(decl, n)]
         IN  x \in Int /\ (decl[n].offset = None => NumberOf(DataPush(VmNumber(x))) = x)

LEMMA WrittenBytes ==
  ASSUME RadixPowers, BytesReadBack, NEW p, ByteList(BytesOf(p)), NEW d, d.offset # None,
         d.offset \in Nat, WidthOf(d.encoding) \in Nat,
         FieldBytes(d.offset, d.encoding) \subseteq DOMAIN BytesOf(p), NEW x \in Int,
         FitsField(x, d.encoding)
  PROVE  LET b == BytesOf(Written(p, d, x))
         IN  /\ ByteList(b) /\ DOMAIN b = DOMAIN BytesOf(p)
             /\ Field(b, d.offset, d.encoding) = x
             /\ \A j \in DOMAIN b \ FieldBytes(d.offset, d.encoding) : b[j] = BytesOf(p)[j]
<1> DEFINE a == BytesOf(p)
           e == d.encoding
           w == WriteField(a, d.offset, e, x)
<1>1. Written(p, d, x) = DataPush(w)
  BY DEF Written
<1>2. x \in Nat
  BY DEF FitsField
<1>3. DOMAIN w = DOMAIN a /\ w = [j \in DOMAIN a |-> w[j]]
  BY DEF WriteField
<1>4. \A j \in DOMAIN a : /\ w[j] \in 0 .. Radix - 1
                          /\ j \notin FieldBytes(d.offset, e) => w[j] = a[j]
  <2>1. TAKE j \in DOMAIN a
  <2>2. CASE j \notin FieldBytes(d.offset, e)
    <3>1. w[j] = a[j]
      BY <2>2 DEF WriteField, FieldBytes
    <3>2. QED
      BY <2>2, <3>1 DEF ByteList
  <2>3. CASE j \in FieldBytes(d.offset, e)
    <3> DEFINE k == IF LittleEndian(e) THEN j - d.offset - 1 ELSE WidthOf(e) - (j - d.offset)
    <3>1. w[j] = Digit(x, k)
      BY <2>3 DEF WriteField, FieldBytes, Digit
    <3>2. k \in Nat
      BY <2>3 DEF FieldBytes
    <3> HIDE DEF k
    <3> DEFINE R == Radix ^ k
    <3>3. R \in Nat \ {0} /\ Radix \in Nat \ {0}
      BY <3>2 DEF RadixPowers
    <3>4. Digit(x, k) = (x \div R) % Radix
      BY DEF Digit
    <3> HIDE DEF R
    <3>5. x \div R \in Nat
      BY <1>2, <3>3, Divided
    <3>6. (x \div R) % Radix \in 0 .. Radix - 1
      BY <3>3, <3>5, Divided
    <3>7. QED
      BY <2>3, <3>1, <3>4, <3>6
  <2>4. QED
    BY <2>2, <2>3
<1>5. Field(w, d.offset, e) = x
  BY <1>2, FieldOfWritten
<1> HIDE DEF w
<1>6. IsList(w) /\ Len(w) = Len(a)
  <2>1. a = a /\ IsList(a)
    BY DEF ByteList
  <2>2. QED
    BY <1>3, <2>1, RunFromSteps
<1>7. ByteList(w)
  BY <1>3, <1>4, <1>6 DEF ByteList
<1>8. BytesOf(Written(p, d, x)) = w
  BY <1>1, <1>7 DEF BytesReadBack
<1>9. QED
  BY <1>3, <1>4, <1>5, <1>7, <1>8

(* The first m slots say what is claimed, and the others are still there.   *)
SlotsWritten(u, v, decl, claim, m) ==
    /\ DOMAIN u = DOMAIN v
    /\ \A i \in DOMAIN v : DOMAIN u[i] = DOMAIN v[i].unlock
    /\ SlotsThere(u, decl)
    /\ \A n \in 1 .. m : Says(u, decl[n]) = claim[InputName(decl, n)]

LEMMA PushReplaced ==
  ASSUME NEW u, NEW a \in DOMAIN u, NEW b \in DOMAIN u[a], NEW y, NEW w, w = [u EXCEPT ![a][b] = y]
  PROVE  /\ DOMAIN w = DOMAIN u
         /\ \A i \in DOMAIN u : DOMAIN w[i] = DOMAIN u[i]
         /\ w[a][b] = y
         /\ \A i \in DOMAIN u : \A k \in DOMAIN u[i] : i # a \/ k # b => w[i][k] = u[i][k]
<1>1. w = [i \in DOMAIN u |-> IF i = a THEN [u[a] EXCEPT ![b] = y] ELSE u[i]]
  OBVIOUS
<1>2. w[a] = [u[a] EXCEPT ![b] = y]
  BY <1>1
<1>3. \A i \in DOMAIN u : i # a => w[i] = u[i]
  BY <1>1
<1>4. DOMAIN w = DOMAIN u
  BY <1>1
<1>5. DOMAIN w[a] = DOMAIN u[a] /\ w[a][b] = y /\ \A k \in DOMAIN u[a] : k # b => w[a][k] = u[a][k]
  BY <1>2
<1>6. QED
  BY <1>3, <1>4, <1>5

LEMMA NextSlotWritten ==
  ASSUME RadixPowers, BytesReadBack, NEW v, NEW decl, IsSeq(decl), SlotsApart(decl),
         NEW claim, ClaimFits(decl, claim), NEW u, NEW m \in Nat, m + 1 \in DOMAIN decl,
         SlotsWritten(u, v, decl, claim, m), NEW w, w = AfterSlot(u, decl, claim, DOMAIN decl, m + 1)
  PROVE  SlotsWritten(w, v, decl, claim, m + 1)
<1> DEFINE o == m + 1
           d == decl[o]
           x == claim[InputName(decl, o)]
           p == PushAt(u, d)
           y == Written(p, d, x)
<1>1. w = [u EXCEPT ![d.input][d.push] = y]
  BY DEF AfterSlot, PushAt
<1>2. d.input \in DOMAIN u /\ d.push \in DOMAIN u[d.input]
  BY DEF SlotsWritten, SlotsThere
<1>3. x \in Int
  BY DEF ClaimFits
<1>4. ASSUME d.offset # None
      PROVE  /\ ByteList(BytesOf(y)) /\ DOMAIN BytesOf(y) = DOMAIN BytesOf(p)
             /\ Field(BytesOf(y), d.offset, d.encoding) = x
             /\ \A j \in DOMAIN BytesOf(y) \ FieldBytes(d.offset, d.encoding) : BytesOf(y)[j] = BytesOf(p)[j]
  <2>1. /\ d.offset \in Nat /\ WidthOf(d.encoding) \in Nat
        /\ ByteList(BytesOf(p)) /\ FieldBytes(d.offset, d.encoding) \subseteq DOMAIN BytesOf(p)
    BY <1>4 DEF SlotsWritten, SlotsThere
  <2>2. FitsField(x, d.encoding)
    BY <1>4 DEF ClaimFits, FitsSlots
  <2> HIDE DEF x, p, d
  <2>3. QED
    BY <1>3, <1>4, <2>1, <2>2, WrittenBytes DEF y
<1>5. d.offset = None => NumberOf(y) = x
  BY DEF Written, ClaimFits
<1> HIDE DEF y
<1>6. /\ DOMAIN w = DOMAIN u
      /\ \A i \in DOMAIN u : DOMAIN w[i] = DOMAIN u[i]
      /\ w[d.input][d.push] = y
      /\ \A i \in DOMAIN u : \A k \in DOMAIN u[i] : i # d.input \/ k # d.push => w[i][k] = u[i][k]
  <2> DEFINE a == d.input
             b == d.push
  <2>1. a \in DOMAIN u /\ b \in DOMAIN u[a] /\ w = [u EXCEPT ![a][b] = y]
    BY <1>1, <1>2
  <2> HIDE DEF a, b
  <2>2. /\ DOMAIN w = DOMAIN u
        /\ \A i \in DOMAIN u : DOMAIN w[i] = DOMAIN u[i]
        /\ w[a][b] = y
        /\ \A i \in DOMAIN u : \A k \in DOMAIN u[i] : i # a \/ k # b => w[i][k] = u[i][k]
    BY <2>1, PushReplaced
  <2>3. QED
    BY <2>2 DEF a, b
(* A slot, with what it said and what it says now.                          *)
<1>7. ASSUME NEW n \in DOMAIN decl, n # o
      PROVE  /\ decl[n].offset # None =>
                  /\ ByteList(BytesOf(PushAt(w, decl[n])))
                  /\ DOMAIN BytesOf(PushAt(w, decl[n])) = DOMAIN BytesOf(PushAt(u, decl[n]))
             /\ Says(w, decl[n]) = Says(u, decl[n])
  <2> DEFINE c == decl[n]
  <2>1. /\ c.input \in DOMAIN u /\ c.push \in DOMAIN u[c.input]
        /\ c.offset # None =>
             /\ c.offset \in Nat /\ WidthOf(c.encoding) \in Nat /\ ByteList(BytesOf(PushAt(u, c)))
             /\ FieldBytes(c.offset, c.encoding) \subseteq DOMAIN BytesOf(PushAt(u, c))
    BY DEF SlotsWritten, SlotsThere
  <2>2. CASE c.input # d.input \/ c.push # d.push
    <3>1. PushAt(w, c) = PushAt(u, c)
      BY <1>6, <2>1, <2>2 DEF PushAt
    <3>2. QED
      BY <2>1, <3>1 DEF Says
  <2>3. CASE c.input = d.input /\ c.push = d.push
    <3>1. /\ c.offset # None /\ d.offset # None
          /\ FieldBytes(c.offset, c.encoding) \cap FieldBytes(d.offset, d.encoding) = {}
      BY <2>3, <1>7 DEF SlotsApart
    <3>2. PushAt(u, c) = p /\ PushAt(w, c) = y
      BY <1>6, <2>3 DEF PushAt
    <3>3. \A j \in FieldBytes(c.offset, c.encoding) : BytesOf(y)[j] = BytesOf(p)[j]
      BY <1>4, <2>1, <3>1, <3>2
    <3>4. Field(BytesOf(y), c.offset, c.encoding) = Field(BytesOf(p), c.offset, c.encoding)
      BY <2>1, <3>1, <3>3, FieldElsewhere
    <3>5. Says(w, c) = Says(u, c)
      BY <3>1, <3>2, <3>4 DEF Says
    <3>6. ByteList(BytesOf(PushAt(w, c))) /\ DOMAIN BytesOf(PushAt(w, c)) = DOMAIN BytesOf(PushAt(u, c))
      BY <1>4, <3>1, <3>2
    <3>7. QED
      BY <3>5, <3>6
  <2>4. QED
    BY <2>2, <2>3
<1>8. /\ d.offset # None =>
           ByteList(BytesOf(PushAt(w, d))) /\ DOMAIN BytesOf(PushAt(w, d)) = DOMAIN BytesOf(PushAt(u, d))
      /\ Says(w, d) = x
  BY <1>4, <1>5, <1>6 DEF PushAt, Says
<1>9. SlotsThere(w, decl)
  <2>1. \A n \in DOMAIN decl :
          decl[n].offset # None =>
             /\ ByteList(BytesOf(PushAt(w, decl[n])))
             /\ DOMAIN BytesOf(PushAt(w, decl[n])) = DOMAIN BytesOf(PushAt(u, decl[n]))
    BY <1>7, <1>8
  <2>2. SlotsThere(u, decl)
    BY DEF SlotsWritten
  <2>3. QED
    BY <1>6, <2>1, <2>2 DEF SlotsThere
<1>10. \A n \in 1 .. m + 1 : Says(w, decl[n]) = claim[InputName(decl, n)]
  <2>1. TAKE n \in 1 .. m + 1
  <2>2. n \in DOMAIN decl /\ (n # o => n \in 1 .. m)
    BY DEF IsSeq
  <2>3. CASE n = o
    BY <1>8, <2>3
  <2>4. CASE n # o
    BY <1>7, <2>2, <2>4 DEF SlotsWritten
  <2>5. QED
    BY <2>3, <2>4
<1>11. QED
  BY <1>6, <1>9, <1>10 DEF SlotsWritten

LEMMA AllSlotsWritten ==
  ASSUME RadixPowers, BytesReadBack, NEW v, NEW decl, IsSeq(decl), SlotsApart(decl),
         SlotsThere([i \in DOMAIN v |-> v[i].unlock], decl), NEW claim, ClaimFits(decl, claim)
  PROVE  SlotsWritten(WriteSlots(v, decl, claim, DOMAIN decl), v, decl, claim, Len(decl))
<1>1. Len(decl) \in Nat /\ DOMAIN decl = 1 .. Len(decl)
  BY DEF IsSeq
<1>2. PICK f : /\ WritesSlots(f, v, decl, claim, DOMAIN decl, Len(decl))
               /\ WriteSlots(v, decl, claim, DOMAIN decl) = f[Len(decl)]
  BY <1>1, SlotsAreWritten
<1>3. \A n \in 0 .. Len(decl) :
        f[n] = IF n = 0 THEN [i \in DOMAIN v |-> v[i].unlock]
               ELSE AfterSlot(f[n - 1], decl, claim, DOMAIN decl, n)
  BY <1>2 DEF WritesSlots
<1> DEFINE Bad == {m \in 0 .. Len(decl) : ~SlotsWritten(f[m], v, decl, claim, m)}
<1>4. SUFFICES ASSUME Bad # {} PROVE FALSE
  BY <1>1, <1>2
<1>5. IsFiniteSet(Bad) /\ Bad \subseteq Int
  <2>1. IsFiniteSet(0 .. Len(decl))
    BY <1>1, FS_Interval
  <2>2. QED
    BY <2>1, FS_Subset
<1>6. PICK m \in Bad : \A j \in Bad : m <= j
  BY <1>4, <1>5, Least
<1>7. CASE m = 0
  <2>1. f[0] = [i \in DOMAIN v |-> v[i].unlock]
    BY <1>1, <1>3
  <2>2. SlotsWritten(f[0], v, decl, claim, 0)
    BY <2>1 DEF SlotsWritten
  <2>3. QED
    BY <1>6, <1>7, <2>2
<1>8. CASE m # 0
  <2> DEFINE l == m - 1
  <2>1. l \in Nat /\ l + 1 = m /\ l \in 0 .. Len(decl) /\ l \notin Bad /\ m \in 0 .. Len(decl) /\ m \in DOMAIN decl
    BY <1>1, <1>6, <1>8
  <2>2. SlotsWritten(f[l], v, decl, claim, l)
    BY <2>1
  <2>3. f[m] = AfterSlot(f[l], decl, claim, DOMAIN decl, l + 1)
    BY <1>3, <1>8, <2>1
  <2> HIDE DEF l
  <2>4. SlotsWritten(f[m], v, decl, claim, l + 1)
    BY <2>1, <2>2, <2>3, NextSlotWritten
  <2>5. QED
    BY <1>6, <2>1, <2>4
<1>9. QED
  BY <1>7, <1>8

LEMMA ThirdOf == \A c, a, b, y : c = << a, b, y >> => c[3] = y
OBVIOUS

(* What is changed in a claim is a number, and not what it was.             *)
LEMMA CandidatesDiffer ==
  ASSUME NEW truth, truth = [n \in DOMAIN truth |-> truth[n]], DOMAIN truth \subseteq Int,
         IsFiniteSet(DOMAIN truth), DOMAIN truth # {}, \A n \in DOMAIN truth : truth[n] \in Int,
         NEW r \in Nat \ {0}, NEW c \in Candidates(truth, r)
  PROVE  /\ c[3] # truth
         /\ DOMAIN c[3] = DOMAIN truth
         /\ \A n \in DOMAIN truth : c[3][n] \in Int
<1> DEFINE change(label, n, x) == << label, n, [truth EXCEPT ![n] = x] >>
           of(n) == {change("+ 1", n, truth[n] + 1), change("+ r", n, truth[n] + r)}
                    \cup (IF truth[n] > 0 THEN {change("- 1", n, truth[n] - 1)} ELSE {})
                    \cup (IF truth[n] # 0 THEN {change("= 0", n, 0)} ELSE {})
           a == Min(DOMAIN truth)
           b == Min(DOMAIN truth \ {a})
           swap == << "swapped", a, [truth EXCEPT ![a] = truth[b], ![b] = truth[a]] >>
<1>1. ASSUME NEW n \in DOMAIN truth, NEW x \in Int, x # truth[n], c[3] = [truth EXCEPT ![n] = x]
      PROVE  /\ c[3] # truth
             /\ DOMAIN c[3] = DOMAIN truth
             /\ \A k \in DOMAIN truth : c[3][k] \in Int
  <2>1. c[3][n] = x
    BY <1>1
  <2>2. DOMAIN c[3] = DOMAIN truth /\ \A k \in DOMAIN truth : k # n => c[3][k] = truth[k]
    BY <1>1
  <2>3. QED
    BY <1>1, <2>1, <2>2
<1>2. c \in UNION {of(n) : n \in DOMAIN truth}
      \/ (Cardinality(DOMAIN truth) >= 2 /\ truth[a] # truth[b] /\ c = swap)
  BY Zenon DEF Candidates
<1> DEFINE Swapped == Cardinality(DOMAIN truth) >= 2 /\ truth[a] # truth[b] /\ c = swap
<1>3. ASSUME NEW n \in DOMAIN truth, c \in of(n)
      PROVE  \E x \in Int : x # truth[n] /\ c[3] = [truth EXCEPT ![n] = x]
  <2>1. truth[n] \in Int
    OBVIOUS
  <2> DEFINE y(x) == [truth EXCEPT ![n] = x]
  <2>3. \/ c = << "+ 1", n, y(truth[n] + 1) >>
        \/ c = << "+ r", n, y(truth[n] + r) >>
        \/ c = << "- 1", n, y(truth[n] - 1) >>
        \/ c = << "= 0", n, y(0) >> /\ truth[n] # 0
    <3> HIDE DEF y
    <3>1. c \in {<< "+ 1", n, y(truth[n] + 1) >>, << "+ r", n, y(truth[n] + r) >>}
              \cup (IF truth[n] > 0 THEN {<< "- 1", n, y(truth[n] - 1) >>} ELSE {})
              \cup (IF truth[n] # 0 THEN {<< "= 0", n, y(0) >>} ELSE {})
      BY <1>3, Zenon DEF y
    <3>2. QED
      BY <3>1, Zenon
  <2>4. \/ c[3] = y(truth[n] + 1) \/ c[3] = y(truth[n] + r) \/ c[3] = y(truth[n] - 1)
        \/ c[3] = y(0) /\ truth[n] # 0
    <3> HIDE DEF y
    <3>1. QED
      BY <2>3, ThirdOf, Zenon
  <2>5. /\ truth[n] + 1 \in Int /\ truth[n] + r \in Int /\ truth[n] - 1 \in Int
        /\ truth[n] + 1 # truth[n] /\ truth[n] + r # truth[n] /\ truth[n] - 1 # truth[n]
    BY <2>1
  <2>6. 0 \in Int
    OBVIOUS
  <2>7. QED
    BY <2>4, <2>5, <2>6, Zenon
<1>4. ASSUME Swapped
      PROVE  /\ c[3] # truth
             /\ DOMAIN c[3] = DOMAIN truth
             /\ \A n \in DOMAIN truth : c[3][n] \in Int
  <2>1. a \in DOMAIN truth
    BY MinIsLeast
  <2>2. b \in DOMAIN truth /\ b # a
    <3> DEFINE T == DOMAIN truth \ {a}
    <3>1. T \subseteq Int /\ IsFiniteSet(T)
      BY FS_Subset
    <3>2. T # {}
      <4>1. SUFFICES ASSUME DOMAIN truth = {a} PROVE FALSE
        BY <2>1
      <4>2. Cardinality({a}) = 1
        BY FS_Singleton
      <4>3. Cardinality(DOMAIN truth) >= 2
        BY <1>4
      <4> HIDE DEF a
      <4>4. QED
        BY <4>1, <4>2, <4>3
    <3> HIDE DEF T
    <3>3. Min(T) \in T
      BY <3>1, <3>2, MinIsLeast
    <3>4. QED
      BY <3>3 DEF T
  <2>3. truth[a] # truth[b] /\ c = << "swapped", a, [truth EXCEPT ![a] = truth[b], ![b] = truth[a]] >>
    BY <1>4
  <2> HIDE DEF a, b, Swapped
  <2>4. c[3] = [truth EXCEPT ![a] = truth[b], ![b] = truth[a]]
    BY <2>3
  <2>5. /\ DOMAIN c[3] = DOMAIN truth /\ c[3][a] = truth[b] /\ c[3][b] = truth[a]
        /\ \A k \in DOMAIN truth : k # a /\ k # b => c[3][k] = truth[k]
    BY <2>1, <2>2, <2>4
  <2>6. QED
    BY <2>1, <2>2, <2>3, <2>5
<1>5. CASE c \in UNION {of(n) : n \in DOMAIN truth}
  <2> HIDE DEF of
  <2>1. PICK n \in DOMAIN truth : c \in of(n)
    BY <1>5
  <2>2. QED
    BY <1>1, <1>3, <2>1
<1>6. QED
  <2> HIDE DEF of, swap, a, b
  <2>1. QED
    BY <1>2, <1>4, <1>5 DEF Swapped

(* A push that is declared as a slot has a number, or bytes with a field,   *)
(* two slots share nothing, and what is written to a push is read from it.  *)
SlotsOf(v, decl, order) ==
    LET push(n) == v[decl[n].input].unlock[decl[n].push]
    IN  /\ order \in Nat \ {0}
        /\ SlotsApart(decl)
        /\ \A n \in DOMAIN decl :
             /\ decl[n].input \in DOMAIN v
             /\ IF decl[n].offset = None THEN NumberOf(push(n)) \in Int \cup {None}
                ELSE /\ decl[n].offset \in Nat /\ WidthOf(decl[n].encoding) \in Nat \ {0}
                     /\ BytesOf(push(n)) # None => ByteList(BytesOf(push(n)))
             /\ decl[n].offset = None =>
                  \A c \in Candidates(Truth(v, decl), order) :
                     NumberOf(DataPush(VmNumber(c[3][InputName(decl, n)]))) = c[3][InputName(decl, n)]

TypedSlots == RadixPowers /\ BytesReadBack /\ SlotsOf(valid, impl.publicInputs, impl.order)

LEMMA NewUnlocking ==
  ASSUME NEW v, NEW new, NEW i \in DOMAIN v, IsStep(v[i])
  PROVE  WithUnlockings(v, new)[i].unlock = Unlockings(v, new)[i]
<1> DEFINE u        == Unlockings(v, new)
           own      == [v[i] EXCEPT !.unlock = u[i]]
<1>1. "unlock" \in DOMAIN v[i]
  BY DEF IsStep
<1>2. own.unlock = u[i]
  BY <1>1
<1>3. \A x : [own EXCEPT !.intraTx = x].unlock = own.unlock
  OBVIOUS
<1>4. \A x : [own EXCEPT !.grouped.inputs = x].unlock = own.unlock
  OBVIOUS
<1>5. CASE \A j \in DOMAIN v : v[j].intraTx # None
  <2> DEFINE inputs == [k \in DOMAIN v |-> [v[k].intraTx.inputs[k] EXCEPT !.unlock = u[k]]]
  <2>1. WithUnlockings(v, new)[i] = [own EXCEPT !.intraTx = [index |-> i, inputs |-> inputs]]
    BY <1>5, Zenon DEF WithUnlockings
  <2> HIDE DEF own, inputs
  <2>2. QED
    BY <1>2, <1>3, <2>1
<1>6. CASE ~(\A j \in DOMAIN v : v[j].intraTx # None) /\ v[i].grouped # None
  <2> DEFINE base      == v[First(v, v[i].grouped.group)].grouped.inputs
             at(k)     == {j \in Members(v, v[i].grouped.group) : v[j].grouped.index = k}
             shared    == [k \in DOMAIN base |->
                              IF at(k) = {} THEN base[k]
                              ELSE [base[k] EXCEPT !.unlock = u[Max(at(k))]]]
  <2>1. WithUnlockings(v, new)[i] = [own EXCEPT !.grouped.inputs = shared]
    BY <1>6, Zenon DEF WithUnlockings
  <2> HIDE DEF own
  <2>2. QED
    BY <1>2, <1>4, <2>1
<1>7. CASE ~(\A j \in DOMAIN v : v[j].intraTx # None) /\ v[i].grouped = None
  <2>1. WithUnlockings(v, new)[i] = own
    BY <1>7 DEF WithUnlockings
  <2> HIDE DEF own
  <2>2. QED
    BY <1>2, <2>1
<1>8. QED
  BY <1>5, <1>6, <1>7

(* What the check for consistency shows of the declared slots.              *)
LEMMA ConsistentSlots ==
  ASSUME WellFormed, TypedSlots, Consistent(valid, impl.publicInputs)
  PROVE  /\ SlotsThere([i \in DOMAIN valid |-> valid[i].unlock], impl.publicInputs)
         /\ \A n \in DOMAIN impl.publicInputs : SlotValue(valid, impl.publicInputs[n]) \in Int
<1> DEFINE decl == impl.publicInputs
           u    == [i \in DOMAIN valid |-> valid[i].unlock]
<1>1. ASSUME NEW n \in DOMAIN decl
      PROVE  /\ decl[n].input \in DOMAIN u
             /\ decl[n].push \in DOMAIN u[decl[n].input]
             /\ decl[n].offset # None =>
                  /\ decl[n].offset \in Nat /\ WidthOf(decl[n].encoding) \in Nat
                  /\ ByteList(BytesOf(PushAt(u, decl[n])))
                  /\ FieldBytes(decl[n].offset, decl[n].encoding) \subseteq DOMAIN BytesOf(PushAt(u, decl[n]))
             /\ SlotValue(valid, decl[n]) \in Int
  <2> DEFINE d == decl[n]
             p == valid[d.input].unlock[d.push]
  <2>1. d.input \in DOMAIN valid
    BY DEF TypedSlots, SlotsOf
  <2>2. PushAt(u, d) = p /\ u[d.input] = valid[d.input].unlock
    BY <2>1 DEF PushAt
  <2>3. SlotValue(valid, d) # None
    BY DEF Consistent
  <2>4. d.push \in DOMAIN valid[d.input].unlock
    BY <2>3 DEF SlotValue
  <2>5. CASE d.offset = None
    <3>1. SlotValue(valid, d) = NumberOf(p)
      BY <2>4, <2>5 DEF SlotValue
    <3>2. NumberOf(p) \in Int \cup {None}
      BY <2>5 DEF TypedSlots, SlotsOf
    <3>3. QED
      BY <2>1, <2>2, <2>3, <2>4, <2>5, <3>1, <3>2
  <2>6. CASE d.offset # None
    <3>1. /\ d.offset \in Nat /\ WidthOf(d.encoding) \in Nat \ {0}
          /\ BytesOf(p) # None => ByteList(BytesOf(p))
      BY <2>6 DEF TypedSlots, SlotsOf
    <3>2. /\ BytesOf(p) # None /\ ~(Len(BytesOf(p)) < d.offset + WidthOf(d.encoding))
          /\ SlotValue(valid, d) = Field(BytesOf(p), d.offset, d.encoding)
      BY <2>3, <2>4, <2>6 DEF SlotValue
    <3> DEFINE b == BytesOf(p)
               o == d.offset
               e == d.encoding
    <3>3. /\ ByteList(b) /\ ~(Len(b) < o + WidthOf(e)) /\ o \in Nat /\ WidthOf(e) \in Nat \ {0}
          /\ SlotValue(valid, d) = Field(b, o, e)
      BY <3>1, <3>2
    <3>4. RadixPowers /\ Radix \in Nat
      BY DEF TypedSlots, RadixPowers
    <3>5. PushAt(u, d) = p
      BY <2>2
    <3> HIDE DEF b, o, e, u, d, p
    <3>6. DOMAIN b = 1 .. Len(b) /\ Len(b) \in Nat /\ \A j \in DOMAIN b : b[j] \in Nat
      BY <3>3, <3>4 DEF ByteList, IsList
    <3>7. FieldBytes(o, e) \subseteq DOMAIN b
      BY <3>3, <3>6 DEF FieldBytes
    <3>8. Field(b, o, e) \in Nat
      BY <3>3, <3>4, <3>6, <3>7, FieldIsNat
    <3>9. SlotValue(valid, d) \in Int
      BY <3>3, <3>8
    <3>10. d.input \in DOMAIN u /\ d.push \in DOMAIN u[d.input]
      BY <2>1, <2>2, <2>4 DEF u
    <3>11. /\ d.offset \in Nat /\ WidthOf(d.encoding) \in Nat
           /\ ByteList(BytesOf(PushAt(u, d)))
           /\ FieldBytes(d.offset, d.encoding) \subseteq DOMAIN BytesOf(PushAt(u, d))
      BY <3>1, <3>3, <3>5, <3>7 DEF b, o, e
    <3>12. QED
      BY <3>9, <3>10, <3>11 DEF d
  <2>7. QED
    BY <2>5, <2>6
<1>2. QED
  BY <1>1 DEF SlotsThere

LEMMA TruthOfSlots ==
  ASSUME WellFormed, TypedSlots, Consistent(valid, impl.publicInputs), impl.publicInputs # << >>
  PROVE  LET truth == Truth(valid, impl.publicInputs)
         IN  /\ truth = [n \in DOMAIN truth |-> truth[n]] /\ DOMAIN truth \subseteq Int
             /\ IsFiniteSet(DOMAIN truth) /\ DOMAIN truth # {}
             /\ \A n \in DOMAIN truth : truth[n] \in Int
             /\ \A n \in DOMAIN impl.publicInputs : InputName(impl.publicInputs, n) \in DOMAIN truth
<1> DEFINE decl  == impl.publicInputs
           truth == Truth(valid, decl)
<1>1. IsSeq(decl) /\ DOMAIN decl = 1 .. Len(decl) /\ Len(decl) \in Nat /\ Len(decl) # 0
  BY DEF WellFormed, IsSeq
<1>2. \A n \in DOMAIN decl : InputName(decl, n) \in DOMAIN decl
  <2>1. TAKE n \in DOMAIN decl
  <2> DEFINE S == {j \in DOMAIN decl : decl[j].name = decl[n].name}
  <2>2. S \subseteq Int /\ S # {} /\ IsFiniteSet(S)
    <3>1. S \subseteq Int /\ S # {} /\ S \in SUBSET DOMAIN decl
      BY <1>1
    <3>2. QED
      BY <1>1, <3>1, PositionsAreFinite
  <2>3. InputName(decl, n) = Min(S)
    BY DEF InputName
  <2> HIDE DEF S
  <2>4. Min(S) \in S
    BY <2>2, MinIsLeast
  <2>5. QED
    BY <2>3, <2>4 DEF S
<1>3. DOMAIN truth = {InputName(decl, n) : n \in DOMAIN decl} /\ truth = [n \in DOMAIN truth |-> truth[n]]
  BY DEF Truth, Names
<1>4. DOMAIN truth \subseteq DOMAIN decl /\ DOMAIN truth \subseteq Int
  BY <1>1, <1>2, <1>3
<1>5. IsFiniteSet(DOMAIN truth)
  BY <1>1, <1>4, PositionsAreFinite
<1>6. DOMAIN truth # {} /\ \A n \in DOMAIN decl : InputName(decl, n) \in DOMAIN truth
  <2>1. 1 \in DOMAIN decl
    BY <1>1
  <2>2. QED
    BY <1>3, <2>1
<1>7. \A n \in DOMAIN truth : truth[n] \in Int
  <2>1. \A n \in DOMAIN truth : truth[n] = SlotValue(valid, decl[n])
    BY DEF Truth
  <2>2. QED
    BY <1>4, <2>1, ConsistentSlots
<1>8. QED
  BY <1>3, <1>4, <1>5, <1>6, <1>7

(* A claim that is tried says one new thing in all its slots.               *)
LEMMA WholeClaim ==
  ASSUME WellFormed, TypedSlots, Consistent(valid, impl.publicInputs), impl.publicInputs # << >>,
         NEW c \in Candidates(Truth(valid, impl.publicInputs), impl.order),
         FitsSlots(impl.publicInputs, c[3])
  PROVE  /\ c[3] # Truth(valid, impl.publicInputs)
         /\ \A n \in DOMAIN impl.publicInputs :
              SlotValue(WithUnlockings(valid, Claimed(valid, impl.publicInputs, c[3])), impl.publicInputs[n])
                = c[3][InputName(impl.publicInputs, n)]
<1> DEFINE decl  == impl.publicInputs
           claim == c[3]
           truth == Truth(valid, decl)
           u     == WriteSlots(valid, decl, claim, DOMAIN decl)
           new   == Claimed(valid, decl, claim)
           r     == WithUnlockings(valid, new)
<1>1. /\ RadixPowers /\ BytesReadBack /\ impl.order \in Nat \ {0} /\ SlotsApart(decl) /\ IsSeq(decl)
  BY DEF TypedSlots, SlotsOf, WellFormed
<1>2. claim # truth /\ \A n \in DOMAIN truth : claim[n] \in Int
  <2> DEFINE t == Truth(valid, impl.publicInputs)
  <2>1. /\ t = [n \in DOMAIN t |-> t[n]] /\ DOMAIN t \subseteq Int
        /\ IsFiniteSet(DOMAIN t) /\ DOMAIN t # {} /\ \A n \in DOMAIN t : t[n] \in Int
    BY TruthOfSlots
  <2>2. c \in Candidates(t, impl.order)
    OBVIOUS
  <2> HIDE DEF t
  <2>3. c[3] # t /\ \A n \in DOMAIN t : c[3][n] \in Int
    BY <1>1, <2>1, <2>2, CandidatesDiffer
  <2>4. QED
    BY <2>3 DEF t
<1>3. ClaimFits(decl, claim)
  <2>1. ASSUME NEW n \in DOMAIN decl
        PROVE  /\ claim[InputName(decl, n)] \in Int
               /\ decl[n].offset = None =>
                    NumberOf(DataPush(VmNumber(claim[InputName(decl, n)]))) = claim[InputName(decl, n)]
    <3>1. InputName(decl, n) \in DOMAIN truth
      BY TruthOfSlots
    <3>2. decl[n].offset = None =>
            NumberOf(DataPush(VmNumber(claim[InputName(decl, n)]))) = claim[InputName(decl, n)]
      BY DEF TypedSlots, SlotsOf
    <3>3. QED
      BY <1>2, <3>1, <3>2
  <2>2. QED
    BY <2>1 DEF ClaimFits
<1>4. SlotsWritten(u, valid, decl, claim, Len(decl))
  <2>1. SlotsThere([i \in DOMAIN valid |-> valid[i].unlock], decl)
    BY ConsistentSlots
  <2> HIDE DEF claim, decl
  <2>2. QED
    BY <1>1, <1>3, <2>1, AllSlotsWritten
<1>5. ASSUME NEW n \in DOMAIN decl
      PROVE  SlotValue(r, decl[n]) = claim[InputName(decl, n)]
  <2> DEFINE d == decl[n]
  <2>1. /\ d.input \in DOMAIN u /\ d.push \in DOMAIN u[d.input]
        /\ d.offset # None =>
             /\ ByteList(BytesOf(PushAt(u, d)))
             /\ FieldBytes(d.offset, d.encoding) \subseteq DOMAIN BytesOf(PushAt(u, d))
    BY <1>4 DEF SlotsWritten, SlotsThere
  <2>2. Says(u, d) = claim[InputName(decl, n)]
    BY <1>1, <1>4 DEF SlotsWritten, IsSeq
  <2>3. d.input \in DOMAIN valid /\ IsStep(valid[d.input])
    BY DEF TypedSlots, SlotsOf, WellFormed
  <2>4. d.input \in DOMAIN new /\ new[d.input] = u[d.input]
    BY DEF Claimed
  <2>5. r[d.input].unlock = u[d.input]
    <3>1. r[d.input].unlock = Unlockings(valid, new)[d.input]
      <4> HIDE DEF new, d
      <4>1. QED
        BY <2>3, NewUnlocking
    <3> HIDE DEF new
    <3>2. Unlockings(valid, new)[d.input] = new[d.input]
      BY <2>3, <2>4 DEF Unlockings
    <3>3. QED
      BY <2>4, <3>1, <3>2
  <2> HIDE DEF r, u
  <2>6. CASE d.offset = None
    BY <2>1, <2>2, <2>5, <2>6 DEF SlotValue, Says, PushAt
  <2>7. CASE d.offset # None
    <3> DEFINE b == BytesOf(PushAt(u, d))
    <3>1. ByteList(b) /\ b # None /\ Len(b) \in Nat /\ DOMAIN b = 1 .. Len(b)
      BY <1>1, <2>1, <2>7 DEF BytesReadBack, ByteList, IsList
    <3>2. d.offset \in Nat /\ WidthOf(d.encoding) \in Nat \ {0}
      BY <2>7 DEF TypedSlots, SlotsOf
    <3>3. d.offset + WidthOf(d.encoding) \in DOMAIN b
      BY <2>1, <2>7, <3>2 DEF FieldBytes
    <3>4. ~(Len(b) < d.offset + WidthOf(d.encoding))
      BY <3>1, <3>2, <3>3
    <3>5. BytesOf(r[d.input].unlock[d.push]) = b /\ d.push \in DOMAIN r[d.input].unlock
      BY <2>1, <2>5 DEF PushAt
    <3>6. SlotValue(r, d) = Field(b, d.offset, d.encoding)
      BY <2>7, <3>1, <3>4, <3>5 DEF SlotValue
    <3>7. QED
      BY <2>2, <2>7, <3>6 DEF Says
  <2>8. QED
    BY <2>6, <2>7
<1>6. QED
  BY <1>2, <1>5

LEMMA StaysTypedSlots == Spec /\ TypedSlots => []TypedSlots
<1>1. TypedSlots /\ [Next]_vars => TypedSlots'
  <2>1. SUFFICES ASSUME TypedSlots, [Next]_vars PROVE TypedSlots'
    OBVIOUS
  <2>2. entry' = entry
    BY <2>1, EntryStays
  <2>3. valid' = valid /\ impl' = impl
    BY <2>2 DEF valid, impl
  <2>4. QED
    BY <2>1, <2>3, Zenon DEF TypedSlots
<1>2. QED
  BY <1>1, PTL DEF Spec

(* For any verifier, any number of inputs, copies and bytes, either byte    *)
(* order: no claim that is tried is the true one, and all the slots of an   *)
(* input say what is claimed, those packed side by side included            *)
(* (publicInputGate, readField, writeField).                                *)
THEOREM ClaimsWhole == Spec /\ WellFormed /\ TypedSlots => []ClaimsAreWhole
<1>1. RowInv /\ WellFormed /\ TypedSlots => ClaimsAreWhole
  <2>1. SUFFICES ASSUME RowInv, WellFormed, TypedSlots, Reported, NEW x \in ClaimRunsOf
        PROVE  /\ x[1][3] # Truth(valid, impl.publicInputs)
               /\ \A i \in DOMAIN impl.publicInputs :
                    SlotValue(x[2], impl.publicInputs[i]) = x[1][3][InputName(impl.publicInputs, i)]
    BY DEF ClaimsAreWhole
  <2>2. impl.publicInputs # << >> /\ x \in ClaimRuns(valid, impl.publicInputs, impl.order)
    BY <2>1 DEF ClaimRunsOf
  <2>3. Consistent(valid, impl.publicInputs)
    BY <2>1, <2>2, ReportedRow DEF Tried, PublicInputThrows
  <2>4. PICK c \in Candidates(Truth(valid, impl.publicInputs), impl.order) :
          /\ FitsSlots(impl.publicInputs, c[3])
          /\ x = << c, WithUnlockings(valid, Claimed(valid, impl.publicInputs, c[3])) >>
    BY <2>2 DEF ClaimRuns
  <2>5. x[1] = c /\ x[2] = WithUnlockings(valid, Claimed(valid, impl.publicInputs, c[3]))
    BY <2>4
  <2>6. QED
    BY <2>1, <2>2, <2>3, <2>4, <2>5, WholeClaim
<1>2. QED
  BY <1>1, RowSafety, StaysWellFormed, StaysTypedSlots, PTL
=============================================================================
