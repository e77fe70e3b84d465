--------------------------- MODULE ContractProofs ---------------------------
(***************************************************************************)
(* What the contract of a scenario gives to whoever evaluates its runs,    *)
(* for scenarios of any length, any scripts and any tokens.                *)
(***************************************************************************)
EXTENDS ContractCheck, ScenarioProofs

-----------------------------------------------------------------------------
(* A scenario that passes                                                   *)

(* The honest runs are runs of typed steps, whatever their fields hold.     *)
Typed ==
    /\ TokensAreThere
    /\ case # None => \A r \in Runs(case.scenario) : TypedRun(r)

(* The verdict is one on the scenario that is there.                        *)
PassedIsChecked == Passed => case # None /\ HonestRuns(case.locators, case.scenario)

LEMMA PassedStays ==
  ASSUME PassedIsChecked, [Next]_vars
  PROVE  PassedIsChecked'
<1>1. CASE LoadEntry
  BY <1>1 DEF LoadEntry, PassedIsChecked, Passed
<1>2. CASE AssertHonestRuns
  BY <1>2 DEF AssertHonestRuns, PassedIsChecked, Passed
<1>3. CASE Measure
  BY <1>3 DEF Measure, PassedIsChecked, Passed
<1>4. CASE UNCHANGED vars
  BY <1>4 DEF vars, PassedIsChecked, Passed
<1>5. QED
  BY <1>1, <1>2, <1>3, <1>4 DEF Next

(* assertHonestRuns returns before anything reads the scenario.             *)
THEOREM PassedMeansChecked == Spec => []PassedIsChecked
<1>1. Init => PassedIsChecked
  BY DEF Init, PassedIsChecked, Passed
<1>2. PassedIsChecked /\ [Next]_vars => PassedIsChecked'
  BY PassedStays
<1>3. QED
  BY <1>1, <1>2, PTL DEF Spec

LEMMA RunsShareTheProgram ==
  ASSUME PassedIsChecked, Passed, NEW r \in Runs(case.scenario)
  PROVE  \/ r = case.scenario.valid
         \/ SameProgramRun(case.scenario.valid, r)
<1>1. CASE r \in Elements(case.scenario.extras)
  BY <1>1 DEF PassedIsChecked, HonestRuns, Elements
<1>2. CASE case.scenario.worst # None /\ r = case.scenario.worst
  BY <1>2 DEF PassedIsChecked, HonestRuns
<1>3. QED
  BY <1>1, <1>2 DEF Runs

LEMMA CheckedRunsAreOneProgram ==
  ASSUME PassedIsChecked, Typed, Passed
  PROVE  OneProgram
<1> DEFINE valid == case.scenario.valid
<1>1. SUFFICES ASSUME NEW r \in Runs(case.scenario)
      PROVE  /\ Len(r) = Len(valid)
             /\ \A i \in DOMAIN r : Skeleton(Program(r[i])) = Skeleton(Program(valid[i]))
  BY DEF OneProgram
<1>2. valid \in Runs(case.scenario) /\ case # None
  BY DEF Runs, PassedIsChecked
<1>3. TypedRun(valid) /\ TypedRun(r) /\ TokensAreThere
  BY <1>1, <1>2 DEF Typed
<1>4. CASE r = valid
  BY <1>4
<1>5. CASE SameProgramRun(valid, r)
  BY <1>3, <1>5, SameProgramSkeletons
<1>6. QED
  BY <1>1, <1>4, <1>5, RunsShareTheProgram

(* A typed scenario that passes is one program.                             *)
LEMMA ProgramIsOne ==
  ASSUME PassedIsChecked, Typed
  PROVE  OneProgram
<1>1. CASE Passed
  BY <1>1, CheckedRunsAreOneProgram
<1>2. CASE ~Passed
  BY <1>2 DEF OneProgram
<1>3. QED
  BY <1>1, <1>2

(* The steps of its runs are the inputs of its transactions.                *)
LEMMA CheckedRunsAreTransactions ==
  ASSUME PassedIsChecked, Typed
  PROVE  RunsAreTransactions
<1>1. SUFFICES ASSUME Passed, NEW r \in Runs(case.scenario)
      PROVE  IsItsTransactions(r)
  BY DEF RunsAreTransactions
<1>2. TypedRun(r)
  BY <1>1 DEF Typed, PassedIsChecked
<1>3. RunShape(r)
  BY <1>1, RunsShareTheProgram DEF PassedIsChecked, HonestRuns, SameProgramRun
<1>4. QED
  BY <1>2, <1>3, ShapedRunsAreTransactions

-----------------------------------------------------------------------------
(* Different proofs                                                         *)

(* The types of the locators and of the list of extra proofs.               *)
TypedProofs == case # None => /\ TypedLocators(case.locators)
                              /\ case.scenario.extras \in Seq(Runs(case.scenario))

LEMMA CheckedProofsDiffer ==
  ASSUME PassedIsChecked, TypedProofs, Passed
  PROVE  ClaimedProofsDiffer
<1> DEFINE s  == case.scenario
           ls == case.locators
           honest  == HonestList(s)
           claimed == << s.valid >> \o DistinctExtraProofs(ls, s)
<1>1. HonestRuns(ls, s) /\ TypedLocators(ls) /\ s.extras \in Seq(Runs(s)) /\ s.valid \in Runs(s)
  BY DEF PassedIsChecked, TypedProofs, Runs
<1>2. << s.valid >> \in Seq(Runs(s)) /\ Len(<< s.valid >>) = 1 /\ << >> \in Seq(Runs(s)) /\ Len(<< >>) = 0
  BY <1>1
<1>3. honest \in Seq(Runs(s)) /\ Len(honest) = 1 + Len(s.extras)
  BY <1>1, <1>2, ConcatProperties DEF HonestList
<1>4. CASE ls = << >>
  <2>1. claimed = << s.valid >> \o << >>
    BY <1>4 DEF DistinctExtraProofs
  <2>2. << s.valid >> \o << >> = << s.valid >>
    BY <1>2, ConcatEmptySeq
  <2>3. \A i, j \in DOMAIN claimed : i = j
    <3>1. DOMAIN << s.valid >> = {1}
      OBVIOUS
    <3>2. DOMAIN claimed = {1}
      BY <2>1, <2>2, <3>1
    <3>3. QED
      BY <3>2
  <2>4. ~ProofIdentity(ls, s).distinct
    BY <1>4 DEF ProofIdentity
  <2>5. QED
    BY <2>3, <2>4 DEF ClaimedProofsDiffer
<1>5. CASE ls # << >>
  <2>1. claimed = honest
    BY <1>5 DEF DistinctExtraProofs, HonestList
  <2>2. s.extras # << >> => Len(honest) > 1
    BY <1>1, <1>3, EmptySeq
  <2>3. \A i, j \in DOMAIN honest : i # j => ~SameProof(honest[i], honest[j], ls)
    <3>1. SUFFICES ASSUME NEW i \in DOMAIN honest, NEW j \in DOMAIN honest, i # j,
                          SameProof(honest[i], honest[j], ls)
                   PROVE  FALSE
      OBVIOUS
    <3>2. \A k \in DOMAIN ls : Located(honest[i], ls[k]) /\ Located(honest[j], ls[k])
      BY <1>1 DEF HonestRuns
    <3>3. ProofFingerprint(honest[i], ls) = ProofFingerprint(honest[j], ls)
      BY <1>1, <3>1, <3>2, SameProofSameFingerprint
    <3>4. i < j \/ j < i
      BY <1>3, <3>1
    <3>5. QED
      BY <1>1, <1>5, <3>3, <3>4 DEF HonestRuns
  <2>4. ProofIdentity(ls, s).distinct => s.extras # << >>
    BY DEF ProofIdentity
  <2>5. QED
    BY <2>1, <2>2, <2>3, <2>4 DEF ClaimedProofsDiffer
<1>6. QED
  BY <1>4, <1>5

(* Its claimed proofs differ.                                               *)
LEMMA TypedProofsDiffer ==
  ASSUME PassedIsChecked, TypedProofs
  PROVE  ClaimedProofsDiffer
<1>1. CASE Passed
  BY <1>1, CheckedProofsDiffer
<1>2. CASE ~Passed
  BY <1>2 DEF ClaimedProofsDiffer
<1>3. QED
  BY <1>1, <1>2
-----------------------------------------------------------------------------
(* The bytes of a transaction                                               *)

(* No engine of the language has a string of 2^29 characters, so what was   *)
(* read from hexadecimal has fewer than 2^28 bytes.                         *)
ByteLimit == 268435456

Sized(x) == Size(x) \in 0 .. ByteLimit

(* What is written of a step has a size.                                    *)
SizedStep(s) ==
    /\ Sized(s.lock) /\ Sized(s.unlock)
    /\ s.covenant # None => /\ Sized(s.covenant.category) /\ Sized(s.covenant.outCommitment)
                            /\ Sized(s.covenant.outLock)
    /\ s.grouped # None =>
         /\ Sized(s.grouped.category)
         /\ s.grouped.outToken # None => Sized(s.grouped.outToken.commitment)
         /\ s.grouped.outLock # None => Sized(s.grouped.outLock)

InputBytes(t) ==
    [k \in DOMAIN t.inputs |->
        36 + VarintLen(Size(t.inputs[k].unlock)) + Size(t.inputs[k].unlock) + 4]

OutputBytes(s) ==
    IF Contexts(s) = {} THEN PlainOutput(P2pkh)
    ELSE SumFunction([k \in DOMAIN Transaction(s).outputs |-> SerializedOutput(Transaction(s).outputs[k])])

(* A transaction without its inputs.                                        *)
Surrounding(s) ==
    TxnEnvelope + VarintLen(Len(Transaction(s).inputs)) + VarintLen(Len(Transaction(s).outputs)) + OutputBytes(s)

(* What is charged beside the inputs, too much by a byte to three for each  *)
(* token without a commitment.                                              *)
PaysFor(e, s) ==
    LET surplus == e - (Surrounding(s) - Successor(s))
    IN  /\ Surrounding(s) \in Int /\ Successor(s) \in Int /\ BareTokens(s) \in Nat /\ OutputBytes(s) \in Int
        /\ 0 <= surplus /\ surplus <= 3 * BareTokens(s)
        /\ BareTokens(s) > 0 => surplus >= BareTokens(s)

LEMMA LimitIsLarge == ByteLimit \in Nat /\ ByteLimit > 100
BY SMT DEF ByteLimit

LEMMA VarintType ==
  ASSUME NEW n \in Nat
  PROVE  VarintLen(n) \in 1 .. 9
BY DEF VarintLen

(* At a boundary the length of a varint grows by two.                       *)
LEMMA VarintGrows ==
  ASSUME NEW n \in Nat, n <= 4 * ByteLimit - 2
  PROVE  VarintLen(n + 1) - VarintLen(n) \in 0 .. 2
<1>1. n \div 65536 <= 65535 /\ (n + 1) \div 65536 <= 65535
  BY SMT DEF ByteLimit
<1>2. CASE n < 252
  BY <1>2 DEF VarintLen
<1>3. CASE n = 252
  BY <1>3 DEF VarintLen
<1>4. CASE n >= 253 /\ n < 65535
  BY <1>4 DEF VarintLen
<1>5. CASE n = 65535
  <2>1. n + 1 = 65536 /\ 65536 \div 65536 = 1
    BY <1>5
  <2>2. QED
    BY <1>5, <2>1 DEF VarintLen
<1>6. CASE n > 65535
  BY <1>1, <1>6 DEF VarintLen
<1>7. QED
  BY <1>2, <1>3, <1>4, <1>5, <1>6

(* An output with a token, charged and written.                             *)
LEMMA TokenCharge ==
  ASSUME TokensAreThere, NEW category, NEW capability, NEW commitment, NEW lock,
         Sized(category), Sized(commitment), Sized(lock)
  PROVE  LET charge  == TokenOutputOverhead(category, commitment, lock) + Size(lock)
             written == SerializedOutput(OutputOf(lock, Token(category, capability, commitment)))
         IN  /\ charge \in Int /\ written \in Int
             /\ Size(commitment) = 0 => charge - written \in 1 .. 3
             /\ Size(commitment) # 0 => charge = written
<1> DEFINE a == Size(category)
           b == Size(commitment)
           l == Size(lock)
           t == Token(category, capability, commitment)
<1>1. a \in Nat /\ b \in Nat /\ l \in Nat /\ a <= ByteLimit /\ l <= ByteLimit
  BY LimitIsLarge DEF Sized
<1>2. t # None /\ t.category = category /\ t.commitment = commitment
  <2>1. t # None
    BY DEF TokensAreThere
  <2>2. QED
    BY <2>1 DEF Token
<1>3. SerializedToken(t) = 1 + a + 1 + (IF b = 0 THEN 0 ELSE VarintLen(b) + b)
  BY <1>2 DEF SerializedToken
<1>4. SerializedOutput(OutputOf(lock, t)) = 8 + VarintLen(SerializedToken(t) + l) + (SerializedToken(t) + l)
  BY DEF SerializedOutput, OutputOf
<1>5. TokenPrefix(category, commitment) = 1 + a + 1 + VarintLen(b) + b
  BY DEF TokenPrefix
<1>6. TokenOutputOverhead(category, commitment, lock)
        = 8 + VarintLen((1 + a + 1 + VarintLen(b) + b) + l) + (1 + a + 1 + VarintLen(b) + b)
  BY <1>5 DEF TokenOutputOverhead
<1>7. VarintLen(b) \in Nat
  BY <1>1, VarintType
<1> HIDE DEF a, b, l, t
<1>8. CASE b = 0
  <2> DEFINE n == (1 + a + 1 + 0) + l
  <2>1. n \in Nat /\ n <= 4 * ByteLimit - 2 /\ n + 1 \in Nat
    BY <1>1, LimitIsLarge
  <2>2. VarintLen(n) \in 1 .. 9 /\ VarintLen(n + 1) \in 1 .. 9 /\ VarintLen(n + 1) - VarintLen(n) \in 0 .. 2
    BY <2>1, VarintType, VarintGrows
  <2>3. VarintLen(b) = 1
    BY <1>8 DEF VarintLen
  <2>4. (1 + a + 1 + VarintLen(b) + b) + l = n + 1
    BY <1>1, <1>8, <2>3
  <2>5. SerializedOutput(OutputOf(lock, t)) = 8 + VarintLen(n) + n
    BY <1>3, <1>4, <1>8
  <2>6. TokenOutputOverhead(category, commitment, lock) = 8 + VarintLen(n + 1) + (n + 1 - l)
    <3>1. 1 + a + 1 + VarintLen(b) + b = n + 1 - l
      BY <1>1, <1>8, <2>3
    <3> HIDE DEF n
    <3>2. QED
      BY <1>6, <2>4, <3>1
  <2> HIDE DEF n
  <2>7. QED
    BY <1>1, <1>8, <2>1, <2>2, <2>5, <2>6 DEF b, l, t
<1>9. CASE b # 0
  <2> DEFINE n == (1 + a + 1 + (VarintLen(b) + b)) + l
  <2>1. n \in Nat /\ (1 + a + 1 + VarintLen(b) + b) + l = n /\ 1 + a + 1 + VarintLen(b) + b = n - l
    BY <1>1, <1>7
  <2>2. SerializedOutput(OutputOf(lock, t)) = 8 + VarintLen(n) + n
    BY <1>3, <1>4, <1>9
  <2>3. VarintLen(n) \in 1 .. 9
    BY <2>1, VarintType
  <2> HIDE DEF n
  <2>4. TokenOutputOverhead(category, commitment, lock) = 8 + VarintLen(n) + (n - l)
    BY <1>6, <2>1
  <2>5. QED
    BY <1>1, <1>9, <2>1, <2>2, <2>3, <2>4 DEF b, l, t
<1>10. QED
  BY <1>8, <1>9
(* The sum over the outputs, which are one or two.                          *)
LEMMA SumOverOne ==
  ASSUME NEW f, DOMAIN f = {1}, f[1] \in Int
  PROVE  SumFunction(f) = f[1]
BY SumOfOne DEF SumFunction

LEMMA SumOverTwo ==
  ASSUME NEW f, DOMAIN f = {1, 2}, f[1] \in Int, f[2] \in Int
  PROVE  SumFunction(f) = f[1] + f[2]
<1>1. IsFiniteSet({1, 2}) /\ IntOn(f, {1, 2}) /\ 1 \in {1, 2} /\ {1, 2} \ {1} = {2}
  <2>1. IsFiniteSet({1}) /\ IsFiniteSet({1} \cup {2})
    BY FS_Singleton, FS_AddElement
  <2>2. {1} \cup {2} = {1, 2}
    OBVIOUS
  <2>3. QED
    BY <2>1, <2>2 DEF IntOn
<1>2. SumFunctionOnSet(f, {1, 2}) = f[1] + SumFunctionOnSet(f, {2})
  BY <1>1, SumWithout
<1>3. SumFunctionOnSet(f, {2}) = f[2]
  BY SumOfOne
<1>4. QED
  BY <1>2, <1>3 DEF SumFunction

(* The output of a transaction that carries nothing on.                     *)
LEMMA PlainIsWritten ==
  ASSUME Size(OpReturn) = 1
  PROVE  SerializedOutput(OutputOf(OpReturn, None)) = PlainOutput(1) /\ PlainOutput(1) \in Int
<1>1. SerializedToken(None) = 0
  BY DEF SerializedToken
<1>2. QED
  BY <1>1 DEF SerializedOutput, OutputOf, PlainOutput, VarintLen

LEMMA NoBareTokens ==
  ASSUME NEW s, \A k \in DOMAIN Transaction(s).outputs : Transaction(s).outputs[k].token = None
  PROVE  BareTokens(s) = 0
<1>1. {k \in DOMAIN Transaction(s).outputs :
         /\ Transaction(s).outputs[k].token # None
         /\ Size(Transaction(s).outputs[k].token.commitment) = 0} = {}
  OBVIOUS
<1>2. QED
  BY <1>1, FS_EmptySet DEF BareTokens

LEMMA InputsHaveSizes ==
  ASSUME NEW s, Sized(s.unlock)
  PROVE  /\ InputOverhead(s) \in Int
         /\ Size(s.unlock) + InputOverhead(s) = 36 + VarintLen(Size(s.unlock)) + Size(s.unlock) + 4
<1>1. Size(s.unlock) \in Nat
  BY LimitIsLarge DEF Sized
<1>2. VarintLen(Size(s.unlock)) \in 1 .. 9
  BY <1>1, VarintType
<1>3. QED
  BY <1>1, <1>2 DEF InputOverhead, InputFixed

LEMMA BareStepPays ==
  ASSUME NEW s, SizedStep(s), s.grouped = None, s.intraTx = None, s.covenant = None
  PROVE  \E e \in Int : /\ StepTxOverhead(s) = InputOverhead(s) + e
                        /\ PaysFor(e, s) /\ Program(s).index = 1
<1> DEFINE t == Transaction(s)
           e == TxnEnvelope + VarintLen(1) + VarintLen(1) + PlainOutput(P2pkh)
<1>1. Program(s) = BareProgram(s)
  BY DEF Program
<1>2. /\ Program(s).index = 1 /\ Len(t.inputs) = 1 /\ Len(t.outputs) = 1 /\ DOMAIN t.outputs = {1}
      /\ t.outputs[1].token = None
  BY <1>1 DEF BareProgram, Transaction, OutputOf
<1>3. Contexts(s) = {}
  <2>1. s["grouped"] = None /\ s["intraTx"] = None /\ s["covenant"] = None
    OBVIOUS
  <2>2. QED
    BY <2>1 DEF Contexts, ContextKinds
<1>4. Surrounding(s) = e /\ e \in Int /\ OutputBytes(s) \in Int
  BY <1>2, <1>3 DEF Surrounding, OutputBytes, TxnEnvelope, VarintLen, PlainOutput, P2pkh
<1>5. Successor(s) = 0 /\ BareTokens(s) = 0
  BY <1>2, NoBareTokens DEF Successor
<1>6. StepTxOverhead(s) = TxnEnvelope + VarintLen(1) + VarintLen(1) + InputOverhead(s) + PlainOutput(P2pkh)
  BY DEF StepTxOverhead
<1>7. InputOverhead(s) \in Int
  BY InputsHaveSizes DEF SizedStep
<1>8. PaysFor(e, s)
  BY <1>4, <1>5 DEF PaysFor
<1>9. StepTxOverhead(s) = InputOverhead(s) + e
  BY <1>4, <1>6, <1>7 DEF TxnEnvelope, VarintLen, PlainOutput, P2pkh
<1>10. QED
  BY <1>2, <1>4, <1>8, <1>9
LEMMA IntraTxStepPays ==
  ASSUME Size(OpReturn) = 1, NEW s, SizedStep(s), TypedStep(s), s.grouped = None, s.intraTx # None
  PROVE  \E e \in Int : /\ StepTxOverhead(s) = InputOverhead(s) + (IF Program(s).index = 1 THEN e ELSE 0)
                        /\ PaysFor(e, s)
<1> DEFINE t == Transaction(s)
           n == Len(s.intraTx.inputs)
           e == TxnEnvelope + VarintLen(n) + VarintLen(1) + PlainOutput(1)
<1>1. Program(s) = IntraTxProgram(s.intraTx) /\ IsList(s.intraTx.inputs)
  BY DEF Program, TypedStep
<1>2. n \in Nat /\ VarintLen(n) \in 1 .. 9
  BY <1>1, VarintType DEF IsList
<1>3. /\ Program(s).index = s.intraTx.index
      /\ t.inputs = [k \in DOMAIN s.intraTx.inputs |-> InputOf(s.intraTx.inputs[k], None)]
      /\ t.outputs = << OutputOf(OpReturn, None) >>
  BY <1>1 DEF IntraTxProgram, Transaction
<1>4. Len(t.inputs) = n
  <2> DEFINE f == [k \in DOMAIN s.intraTx.inputs |-> InputOf(s.intraTx.inputs[k], None)]
  <2>1. f = [k \in DOMAIN s.intraTx.inputs |-> f[k]]
    OBVIOUS
  <2> HIDE DEF f
  <2>2. Len(f) = n
    BY <1>1, <2>1, RunFromSteps
  <2>3. QED
    BY <1>3, <2>2 DEF f
<1>5. Len(t.outputs) = 1 /\ DOMAIN t.outputs = {1} /\ t.outputs[1] = OutputOf(OpReturn, None)
  BY <1>3
<1>6. t.outputs[1].token = None
  BY <1>5 DEF OutputOf
<1>7. Contexts(s) # {}
  <2>1. s["intraTx"] # None
    OBVIOUS
  <2>2. QED
    BY <2>1 DEF Contexts, ContextKinds
<1>8. OutputBytes(s) = PlainOutput(1) /\ PlainOutput(1) \in Int
  <2> DEFINE f == [k \in DOMAIN t.outputs |-> SerializedOutput(t.outputs[k])]
  <2>1. DOMAIN f = {1} /\ f[1] = PlainOutput(1) /\ PlainOutput(1) \in Int
    BY <1>5, PlainIsWritten
  <2>2. OutputBytes(s) = SumFunction(f)
    BY <1>7 DEF OutputBytes
  <2> HIDE DEF f
  <2>3. SumFunction(f) = f[1]
    BY <2>1, SumOverOne
  <2>4. QED
    BY <2>1, <2>2, <2>3
<1>9. Successor(s) = 0 /\ BareTokens(s) = 0
  BY <1>5, <1>6, NoBareTokens DEF Successor
<1>10. VarintLen(1) = 1 /\ TxnEnvelope = 8
  BY DEF VarintLen, TxnEnvelope
<1>11. Surrounding(s) = TxnEnvelope + VarintLen(n) + VarintLen(1) + PlainOutput(1)
  BY <1>4, <1>5, <1>8 DEF Surrounding
<1>12. InputOverhead(s) \in Int
  BY InputsHaveSizes DEF SizedStep
<1>13. StepTxOverhead(s) = InputOverhead(s)
         + (IF s.intraTx.index = 1 THEN TxnEnvelope + VarintLen(n) + VarintLen(1) + PlainOutput(1) ELSE 0)
  BY DEF StepTxOverhead, IntraTxOverhead
<1>14. e \in Int /\ Surrounding(s) = e
  <2> HIDE DEF n, t
  <2>1. QED
    BY <1>2, <1>8, <1>10, <1>11
<1>15. StepTxOverhead(s) = InputOverhead(s) + (IF Program(s).index = 1 THEN e ELSE 0)
  BY <1>3, <1>13
<1> HIDE DEF e, n, t
<1>16. PaysFor(e, s)
  BY <1>8, <1>9, <1>14 DEF PaysFor
<1>17. QED
  BY <1>14, <1>15, <1>16

LEMMA CovenantStepPays ==
  ASSUME Size(EmptyBytes) = 0, TokensAreThere, NEW s, SizedStep(s), TypedStep(s),
         s.grouped = None, s.intraTx = None, s.covenant # None
  PROVE  \E e \in Int : /\ StepTxOverhead(s) = InputOverhead(s) + e
                        /\ PaysFor(e, s) /\ Program(s).index = 1
<1> DEFINE t     == Transaction(s)
           c     == s.covenant
           next  == OutputOf(c.outLock, Token(c.category, c.capability, c.outCommitment))
           again == OutputOf(s.lock, Token(c.category, "minting", EmptyBytes))
           on    == TokenOutputOverhead(c.category, c.outCommitment, c.outLock)
           baton == TokenPrefix(c.category, EmptyBytes) + Size(s.lock)
           back  == 8 + VarintLen(baton) + baton
           w1    == SerializedOutput(next)
           w2    == SerializedOutput(again)
<1>1. Program(s) = CovenantProgram(s)
  BY DEF Program
<1>2. /\ Program(s).index = 1 /\ Len(t.inputs) = 1
      /\ t.outputs = IF c.baton THEN << next, again >> ELSE << next >>
  BY <1>1 DEF CovenantProgram, Transaction
<1>3. /\ Sized(c.category) /\ Sized(c.outCommitment) /\ Sized(c.outLock) /\ Sized(s.lock) /\ Sized(s.unlock)
      /\ Sized(EmptyBytes)
  BY LimitIsLarge DEF SizedStep, Sized
<1>4. /\ on + Size(c.outLock) \in Int /\ w1 \in Int
      /\ Size(c.outCommitment) = 0 => (on + Size(c.outLock)) - w1 \in 1 .. 3
      /\ Size(c.outCommitment) # 0 => on + Size(c.outLock) = w1
  <2> HIDE DEF c
  <2> DEFINE charge == on + Size(c.outLock)
  <2>1. charge = TokenOutputOverhead(c.category, c.outCommitment, c.outLock) + Size(c.outLock)
    OBVIOUS
  <2>2. w1 = SerializedOutput(OutputOf(c.outLock, Token(c.category, c.capability, c.outCommitment)))
    OBVIOUS
  <2> HIDE DEF charge, w1
  <2>3. /\ charge \in Int /\ w1 \in Int
        /\ Size(c.outCommitment) = 0 => charge - w1 \in 1 .. 3
        /\ Size(c.outCommitment) # 0 => charge = w1
    BY <1>3, <2>1, <2>2, TokenCharge
  <2>4. QED
    BY <2>3 DEF charge
<1>5. Size(c.outLock) \in Int /\ Size(c.outCommitment) \in Nat /\ InputOverhead(s) \in Int
      /\ Size(s.lock) \in Int /\ Size(c.category) \in Nat
  BY <1>3, LimitIsLarge, InputsHaveSizes DEF Sized
<1>6. back \in Int /\ w2 \in Int /\ back - w2 \in 1 .. 3
  <2> HIDE DEF c
  <2>1. LET charge == TokenOutputOverhead(c.category, EmptyBytes, s.lock) + Size(s.lock)
        IN  charge \in Int /\ w2 \in Int /\ charge - w2 \in 1 .. 3
    BY <1>3, TokenCharge
  <2> DEFINE p == TokenPrefix(c.category, EmptyBytes)
  <2>2. p = 1 + Size(c.category) + 1 + VarintLen(0) + 0
    BY DEF TokenPrefix
  <2>3. p \in Int /\ VarintLen(p + Size(s.lock)) \in Int
    <3>1. VarintLen(0) = 1
      BY DEF VarintLen
    <3>2. p \in Nat
      BY <1>5, <2>2, <3>1
    <3>3. p + Size(s.lock) \in Nat
      BY <1>3, <3>2, LimitIsLarge DEF Sized
    <3>4. QED
      BY <3>2, <3>3, VarintType
  <2>4. TokenOutputOverhead(c.category, EmptyBytes, s.lock) = 8 + VarintLen(p + Size(s.lock)) + p
    BY DEF TokenOutputOverhead
  <2>5. back = 8 + VarintLen(p + Size(s.lock)) + (p + Size(s.lock))
    OBVIOUS
  <2> HIDE DEF p, back, w2
  <2>6. QED
    BY <1>5, <2>1, <2>3, <2>4, <2>5
<1>7. /\ next.token # None /\ again.token # None /\ next.lock = c.outLock
      /\ next.token.commitment = c.outCommitment /\ again.token.commitment = EmptyBytes
  <2>1. \A x, y, z : Token(x, y, z) # None /\ Token(x, y, z).commitment = z
    BY DEF TokensAreThere, Token
  <2>2. QED
    BY <2>1 DEF OutputOf
<1>8. Contexts(s) # {}
  <2>1. s["covenant"] # None
    OBVIOUS
  <2>2. QED
    BY <2>1 DEF Contexts, ContextKinds
<1>9. StepTxOverhead(s) = TxnEnvelope + VarintLen(1) + VarintLen(IF c.baton THEN 2 ELSE 1) + InputOverhead(s)
                          + on + IF c.baton THEN back ELSE 0
  BY DEF StepTxOverhead, CovenantOverhead
<1>10. VarintLen(1) = 1 /\ VarintLen(2) = 1 /\ TxnEnvelope = 8
  BY DEF VarintLen, TxnEnvelope
<1>11. c.baton \in BOOLEAN
  BY DEF TypedStep, IsStep, IsCovenant
<1> DEFINE e == 8 + 1 + 1 + on + (IF c.baton THEN back ELSE 0)
           f == [k \in DOMAIN t.outputs |-> SerializedOutput(t.outputs[k])]
           B == {k \in DOMAIN t.outputs : /\ t.outputs[k].token # None
                                          /\ Size(t.outputs[k].token.commitment) = 0}
<1>12. OutputBytes(s) = SumFunction(f) /\ BareTokens(s) = Cardinality(B)
  BY <1>8 DEF OutputBytes, BareTokens
<1>13. t.outputs[1] = next
  BY <1>2, <1>11
<1>14. Successor(s) = Size(c.outLock)
  BY <1>7, <1>13 DEF Successor
<1>15. on \in Int
  <2>1. on + Size(c.outLock) \in Int /\ Size(c.outLock) \in Nat
    BY <1>3, <1>4, LimitIsLarge DEF Sized
  <2>2. VarintLen(Size(c.outCommitment)) \in Nat /\ Size(c.outCommitment) \in Nat
    BY <1>5, VarintType
  <2>3. TokenPrefix(c.category, c.outCommitment) \in Nat
    BY <1>5, <2>2 DEF TokenPrefix
  <2>4. VarintLen(TokenPrefix(c.category, c.outCommitment) + Size(c.outLock)) \in Nat
    BY <2>1, <2>3, VarintType
  <2>5. QED
    BY <2>3, <2>4 DEF TokenOutputOverhead
<1>16. StepTxOverhead(s) = InputOverhead(s) + e /\ e \in Int
  <2> HIDE DEF on, back, c
  <2>1. QED
    BY <1>5, <1>6, <1>9, <1>10, <1>11, <1>15
<1>17. PaysFor(e, s)
  <2>1. CASE c.baton
    <3>1. Len(t.outputs) = 2 /\ DOMAIN t.outputs = {1, 2} /\ t.outputs[2] = again
      BY <1>2, <2>1
    <3>2. DOMAIN f = {1, 2} /\ f[1] = w1 /\ f[2] = w2
      BY <1>13, <3>1
    <3>3. SumFunction(f) = w1 + w2
      <4> HIDE DEF f, w1, w2
      <4>1. QED
        BY <1>4, <1>6, <3>2, SumOverTwo
    <3>4. Surrounding(s) = 10 + w1 + w2
      <4>1. Surrounding(s) = TxnEnvelope + VarintLen(1) + VarintLen(2) + OutputBytes(s)
        BY <1>2, <3>1 DEF Surrounding
      <4> HIDE DEF w1, w2, f, t
      <4>2. QED
        BY <1>4, <1>6, <1>10, <1>12, <3>3, <4>1
    <3>5. CASE Size(c.outCommitment) = 0
      <4>1. B = {1, 2}
        BY <1>7, <1>13, <3>1, <3>5
      <4>2. BareTokens(s) = 2
        <5>1. Cardinality({1}) = 1 /\ IsFiniteSet({1})
          BY FS_Singleton
        <5>2. Cardinality({1} \cup {2}) = 2
          BY <5>1, FS_AddElement
        <5>3. {1} \cup {2} = {1, 2}
          OBVIOUS
        <5>4. QED
          BY <1>12, <4>1, <5>2, <5>3
      <4> HIDE DEF t, c, on, back, w1, w2, B, f
      <4>3. QED
        BY <1>4, <1>5, <1>6, <1>12, <1>14, <1>15, <2>1, <3>3, <3>4, <3>5, <4>2 DEF PaysFor
    <3>6. CASE Size(c.outCommitment) # 0
      <4>1. B = {2}
        BY <1>7, <1>13, <3>1, <3>6
      <4>2. BareTokens(s) = 1
        BY <1>12, <4>1, FS_Singleton
      <4> HIDE DEF t, c, on, back, w1, w2, B, f
      <4>3. QED
        BY <1>4, <1>5, <1>6, <1>12, <1>14, <1>15, <2>1, <3>3, <3>4, <3>6, <4>2 DEF PaysFor
    <3>7. QED
      BY <3>5, <3>6
  <2>2. CASE ~c.baton
    <3>1. Len(t.outputs) = 1 /\ DOMAIN t.outputs = {1}
      BY <1>2, <2>2
    <3>2. DOMAIN f = {1} /\ f[1] = w1
      BY <1>13, <3>1
    <3>3. SumFunction(f) = w1
      <4> HIDE DEF f, w1
      <4>1. QED
        BY <1>4, <3>2, SumOverOne
    <3>4. Surrounding(s) = 10 + w1
      <4>1. Surrounding(s) = TxnEnvelope + VarintLen(1) + VarintLen(1) + OutputBytes(s)
        BY <1>2, <3>1 DEF Surrounding
      <4> HIDE DEF w1, f, t
      <4>2. QED
        BY <1>4, <1>10, <1>12, <3>3, <4>1
    <3>5. CASE Size(c.outCommitment) = 0
      <4>1. B = {1}
        BY <1>7, <1>13, <3>1, <3>5
      <4>2. BareTokens(s) = 1
        BY <1>12, <4>1, FS_Singleton
      <4> HIDE DEF t, c, on, back, w1, w2, B, f
      <4>3. QED
        BY <1>4, <1>5, <1>12, <1>14, <1>15, <2>2, <3>3, <3>4, <3>5, <4>2 DEF PaysFor
    <3>6. CASE Size(c.outCommitment) # 0
      <4>1. B = {}
        BY <1>7, <1>13, <3>1, <3>6
      <4>2. BareTokens(s) = 0
        BY <1>12, <4>1, FS_EmptySet
      <4> HIDE DEF t, c, on, back, w1, w2, B, f
      <4>3. QED
        BY <1>4, <1>5, <1>12, <1>14, <1>15, <2>2, <3>3, <3>4, <3>6, <4>2 DEF PaysFor
    <3>7. QED
      BY <3>5, <3>6
  <2>3. QED
    BY <1>11, <2>1, <2>2
<1> HIDE DEF e
<1>18. QED
  BY <1>2, <1>16, <1>17
LEMMA GroupedStepPays ==
  ASSUME Size(OpReturn) = 1, TokensAreThere, NEW s, SizedStep(s), TypedStep(s), s.grouped # None
  PROVE  \E e \in Int : /\ StepTxOverhead(s) = InputOverhead(s) + (IF Program(s).index = 1 THEN e ELSE 0)
                        /\ PaysFor(e, s)
<1> DEFINE t    == Transaction(s)
           g    == s.grouped
           n    == Len(g.inputs)
           lock == Given(g.outLock, OpReturn)
           on   == TokenOutputOverhead(g.category, g.outToken.commitment, lock)
           out  == IF g.outToken # None THEN on ELSE PlainOutput(1)
           e    == 8 + VarintLen(n) + 1 + out
           f    == [k \in DOMAIN t.outputs |-> SerializedOutput(t.outputs[k])]
           B    == {k \in DOMAIN t.outputs : /\ t.outputs[k].token # None
                                             /\ Size(t.outputs[k].token.commitment) = 0}
<1>1. Program(s) = GroupedProgram(g) /\ IsList(g.inputs)
  BY DEF Program, TypedStep
<1>2. n \in Nat /\ VarintLen(n) \in 1 .. 9
  BY <1>1, VarintType DEF IsList
<1>3. /\ Program(s).index = g.index
      /\ t.inputs = [k \in DOMAIN g.inputs |-> InputOf(g.inputs[k], GroupToken(g, SpentToken(g, k)))]
      /\ t.outputs = << OutputOf(IF g.outToken = None THEN OpReturn ELSE lock, GroupToken(g, g.outToken)) >>
  BY <1>1 DEF GroupedProgram, Transaction
<1>4. Len(t.inputs) = n
  <2> DEFINE h == [k \in DOMAIN g.inputs |-> InputOf(g.inputs[k], GroupToken(g, SpentToken(g, k)))]
  <2>1. h = [k \in DOMAIN g.inputs |-> h[k]]
    OBVIOUS
  <2> HIDE DEF h
  <2>2. Len(h) = n
    BY <1>1, <2>1, RunFromSteps
  <2>3. QED
    BY <1>3, <2>2 DEF h
<1>5. /\ Len(t.outputs) = 1 /\ DOMAIN t.outputs = {1}
      /\ t.outputs[1] = OutputOf(IF g.outToken = None THEN OpReturn ELSE lock, GroupToken(g, g.outToken))
  BY <1>3
<1>6. Contexts(s) # {}
  <2>1. s["grouped"] # None
    OBVIOUS
  <2>2. QED
    BY <2>1 DEF Contexts, ContextKinds
<1>7. InputOverhead(s) \in Int /\ VarintLen(1) = 1 /\ TxnEnvelope = 8
  BY InputsHaveSizes DEF SizedStep, VarintLen, TxnEnvelope
<1>8. StepTxOverhead(s) = IF g.index # 1 THEN InputOverhead(s)
                          ELSE TxnEnvelope + VarintLen(n) + VarintLen(1) + InputOverhead(s) + out
  BY DEF StepTxOverhead, GroupedOverhead
<1>9. /\ OutputBytes(s) = SumFunction(f) /\ BareTokens(s) = Cardinality(B)
      /\ DOMAIN f = {1} /\ f[1] = SerializedOutput(t.outputs[1])
  BY <1>5, <1>6 DEF OutputBytes, BareTokens
<1>10. Surrounding(s) = TxnEnvelope + VarintLen(n) + VarintLen(1) + SumFunction(f)
  BY <1>4, <1>5, <1>9 DEF Surrounding
<1>11. out \in Int /\ PaysFor(e, s)
  <2>1. CASE g.outToken = None
    <3>1. t.outputs[1] = OutputOf(OpReturn, None) /\ out = PlainOutput(1)
      BY <1>5, <2>1 DEF GroupToken
    <3>2. t.outputs[1].token = None /\ f[1] = PlainOutput(1) /\ PlainOutput(1) \in Int
      BY <1>9, <3>1, PlainIsWritten DEF OutputOf
    <3>3. Successor(s) = 0 /\ BareTokens(s) = 0
      BY <1>5, <3>2, NoBareTokens DEF Successor
    <3>4. SumFunction(f) = PlainOutput(1)
      <4> HIDE DEF f
      <4>1. QED
        BY <1>9, <3>2, SumOverOne
    <3> HIDE DEF f, out, n
    <3>5. QED
      BY <1>2, <1>7, <1>9, <1>10, <3>1, <3>2, <3>3, <3>4 DEF PaysFor
  <2>2. CASE g.outToken # None
    <3> DEFINE com    == g.outToken.commitment
               cap    == g.outToken.capability
               charge == on + Size(lock)
               w      == SerializedOutput(OutputOf(lock, Token(g.category, cap, com)))
    <3>1. t.outputs[1] = OutputOf(lock, Token(g.category, cap, com))
      BY <1>5, <2>2 DEF GroupToken
    <3>2. Sized(g.category) /\ Sized(com) /\ Sized(lock)
      BY <2>2, LimitIsLarge DEF SizedStep, Sized, Given
    <3>3. /\ charge \in Int /\ w \in Int
          /\ Size(com) = 0 => charge - w \in 1 .. 3
          /\ Size(com) # 0 => charge = w
      <4>1. charge = TokenOutputOverhead(g.category, com, lock) + Size(lock)
        OBVIOUS
      <4>2. w = SerializedOutput(OutputOf(lock, Token(g.category, cap, com)))
        OBVIOUS
      <4> HIDE DEF charge, w, g, com, cap, lock
      <4>3. QED
        BY <3>2, <4>1, <4>2, TokenCharge
    <3>4. Size(lock) \in Nat /\ Size(com) \in Nat /\ Size(g.category) \in Nat
      BY <3>2, LimitIsLarge DEF Sized
    <3>5. on \in Int
      <4> HIDE DEF g, com, lock
      <4>1. VarintLen(Size(com)) \in Nat
        BY <3>4, VarintType
      <4>2. TokenPrefix(g.category, com) \in Nat
        BY <3>4, <4>1 DEF TokenPrefix
      <4>3. VarintLen(TokenPrefix(g.category, com) + Size(lock)) \in Nat
        BY <3>4, <4>2, VarintType
      <4>4. TokenOutputOverhead(g.category, com, lock) \in Int
        BY <4>2, <4>3 DEF TokenOutputOverhead
      <4>5. QED
        BY <4>4 DEF com
    <3>6. SumFunction(f) = w
      <4>1. f[1] = w
        BY <1>9, <3>1
      <4> HIDE DEF f, w
      <4>2. QED
        BY <1>9, <3>3, <4>1, SumOverOne
    <3>7. Token(g.category, cap, com) # None /\ Token(g.category, cap, com).commitment = com
      BY DEF TokensAreThere, Token
    <3>8. Successor(s) = Size(lock)
      BY <3>1, <3>7 DEF Successor, OutputOf
    <3>9. t.outputs[1].token # None /\ t.outputs[1].token.commitment = com
      BY <3>1, <3>7 DEF OutputOf
    <3>10. out = on
      BY <2>2
    <3>11. BareTokens(s) = IF Size(com) = 0 THEN 1 ELSE 0
      <4>1. CASE Size(com) = 0
        <5>1. B = {1}
          BY <1>5, <3>9, <4>1
        <5>2. QED
          BY <1>9, <4>1, <5>1, FS_Singleton
      <4>2. CASE Size(com) # 0
        <5>1. B = {}
          BY <1>5, <3>9, <4>2
        <5>2. QED
          BY <1>9, <4>2, <5>1, FS_EmptySet
      <4>3. QED
        BY <4>1, <4>2
    <3> HIDE DEF f, out, n, on, w, com, cap, lock, t, B
    <3>12. QED
      BY <1>2, <1>7, <1>9, <1>10, <3>3, <3>4, <3>5, <3>6, <3>8, <3>10, <3>11 DEF PaysFor
  <2>3. QED
    BY <2>1, <2>2
<1> HIDE DEF n, out, t
<1>12. e \in Int
  BY <1>2, <1>11
<1>13. StepTxOverhead(s) = InputOverhead(s) + (IF Program(s).index = 1 THEN e ELSE 0)
  BY <1>2, <1>3, <1>7, <1>8, <1>11
<1> HIDE DEF e
<1>14. QED
  BY <1>11, <1>12, <1>13

(* A step is charged its input, and with the first input of a transaction   *)
(* everything else of it.                                                   *)
LEMMA StepPays ==
  ASSUME TokensAreThere, NEW s, SizedStep(s), TypedStep(s)
  PROVE  \E e \in Int : /\ StepTxOverhead(s) = InputOverhead(s) + (IF Program(s).index = 1 THEN e ELSE 0)
                        /\ PaysFor(e, s)
<1>1. Size(OpReturn) = 1 /\ Size(EmptyBytes) = 0
  BY SizeAssumption
<1>2. CASE s.grouped # None
  BY <1>1, <1>2, GroupedStepPays
<1>3. CASE s.grouped = None /\ s.intraTx # None
  BY <1>1, <1>3, IntraTxStepPays
<1>4. CASE s.grouped = None /\ s.intraTx = None /\ s.covenant # None
  BY <1>1, <1>4, CovenantStepPays
<1>5. CASE s.grouped = None /\ s.intraTx = None /\ s.covenant = None
  BY <1>5, BareStepPays
<1>6. QED
  BY <1>2, <1>3, <1>4, <1>5

(* The steps of a transaction have the same mates.                          *)
LEMMA MatesOfMates ==
  ASSUME NEW r, TypedRun(r), RunShape(r), NEW i \in DOMAIN r, NEW j \in Mates(r, i)
  PROVE  j \in DOMAIN r /\ Mates(r, j) = Mates(r, i) /\ Contexts(r[j]) = Contexts(r[i])
<1>1. j \in DOMAIN r /\ 1 \in DOMAIN r
  BY DEF Mates, TypedRun, IsList
<1>2. \A k \in ContextKinds : (r[i][k] # None) <=> (r[j][k] # None)
  BY <1>1, ContextsOfSteps
<1>3. /\ r[i]["grouped"] = r[i].grouped /\ r[i]["intraTx"] = r[i].intraTx
      /\ r[j]["grouped"] = r[j].grouped /\ r[j]["intraTx"] = r[j].intraTx
  OBVIOUS
<1>4. /\ (r[i].grouped # None) <=> (r[j].grouped # None)
      /\ (r[i].intraTx # None) <=> (r[j].intraTx # None)
  BY <1>2, <1>3 DEF ContextKinds
<1>5. Mates(r, j) = Mates(r, i)
  BY <1>1, <1>4 DEF Mates
<1>6. QED
  BY <1>1, <1>2, <1>5 DEF Contexts
LEMMA InputsFromOne ==
  ASSUME NEW s, TypedStep(s), NEW k \in DOMAIN Program(s).inputs
  PROVE  1 \in DOMAIN Program(s).inputs
<1>1. CASE s.grouped # None
  <2>1. Program(s).inputs = [m \in DOMAIN s.grouped.inputs |->
                               InputOf(s.grouped.inputs[m], GroupToken(s.grouped, SpentToken(s.grouped, m)))]
    BY <1>1 DEF Program, GroupedProgram
  <2>2. DOMAIN Program(s).inputs = 1 .. Len(s.grouped.inputs) /\ Len(s.grouped.inputs) \in Nat
    BY <1>1, <2>1 DEF TypedStep, IsList
  <2>3. QED
    BY <2>2
<1>2. CASE s.grouped = None /\ s.intraTx # None
  <2>1. Program(s).inputs = [m \in DOMAIN s.intraTx.inputs |-> InputOf(s.intraTx.inputs[m], None)]
    BY <1>2 DEF Program, IntraTxProgram
  <2>2. DOMAIN Program(s).inputs = 1 .. Len(s.intraTx.inputs) /\ Len(s.intraTx.inputs) \in Nat
    BY <1>2, <2>1 DEF TypedStep, IsList
  <2>3. QED
    BY <2>2
<1>3. CASE s.grouped = None /\ s.intraTx = None
  BY <1>3 DEF Program, CovenantProgram, BareProgram
<1>4. QED
  BY <1>1, <1>2, <1>3

SizedRun(r) == \A i \in DOMAIN r : SizedStep(r[i])

LEMMA TransactionIsPaid ==
  ASSUME TokensAreThere, NEW r, TypedRun(r), RunShape(r), SizedRun(r), NEW i \in DOMAIN r
  PROVE  LET surplus == Spent(r, Mates(r, i)) - (Serialized(r[i]) - Successor(r[i]))
         IN  /\ Spent(r, Mates(r, i)) \in Int /\ Serialized(r[i]) \in Int /\ Successor(r[i]) \in Int
             /\ 0 <= surplus /\ surplus <= 3 * BareTokens(r[i])
             /\ BareTokens(r[i]) > 0 => surplus >= BareTokens(r[i])
<1> DEFINE M == Mates(r, i)
           t == Transaction(r[i])
           D == DOMAIN t.inputs
           b == [j \in DOMAIN r |-> Program(r[j]).index]
           I == InputBytes(t)
<1>1. IsItsTransactions(r)
  BY ShapedRunsAreTransactions
<1>2. IsFiniteSet(DOMAIN r) /\ M \subseteq DOMAIN r /\ i \in M
  <2>1. DOMAIN r = 1 .. Len(r) /\ Len(r) \in Nat
    BY DEF TypedRun, IsList
  <2>2. IsFiniteSet(1 .. Len(r))
    BY <2>1, FS_Interval
  <2>3. QED
    BY <2>1, <2>2 DEF Mates
<1>3. IsFiniteSet(M)
  BY <1>2, FS_Subset
<1>4. ASSUME NEW j \in M
      PROVE  /\ j \in DOMAIN r /\ Transaction(r[j]) = t /\ Contexts(r[j]) = Contexts(r[i])
             /\ b[j] \in D /\ t.inputs[b[j]].unlock = r[j].unlock
             /\ \A k \in M : k # j => b[k] # b[j]
  <2>1. j \in DOMAIN r /\ Mates(r, j) = M /\ Contexts(r[j]) = Contexts(r[i])
    BY MatesOfMates
  <2>2. Transaction(r[j]) = t
    BY <1>1 DEF IsItsTransactions
  <2>3. Program(r[j]).inputs = t.inputs
    BY <2>2 DEF Transaction
  <2>4. /\ Program(r[j]).index \in DOMAIN Program(r[j]).inputs /\ SameInput(EvaluatedInput(r[j]), r[j])
        /\ \A k \in M : k # j => Program(r[k]).index # Program(r[j]).index
    BY <1>1, <2>1 DEF IsItsTransactions
  <2>5. Program(r[j]).inputs[Program(r[j]).index].unlock = r[j].unlock
    BY <2>4 DEF SameInput, EvaluatedInput
  <2>6. b[j] = Program(r[j]).index /\ \A k \in M : b[k] = Program(r[k]).index
    BY <1>2, <2>1
  <2> HIDE DEF M, t, b
  <2>7. QED
    BY <2>1, <2>2, <2>3, <2>4, <2>5, <2>6
<1>5. {b[j] : j \in M} = D
  <2>1. {Program(r[j]).index : j \in M} = DOMAIN Program(r[i]).inputs
    BY <1>1 DEF IsItsTransactions
  <2>2. \A j \in M : b[j] = Program(r[j]).index
    BY <1>2
  <2>3. DOMAIN Program(r[i]).inputs = D
    BY DEF Transaction
  <2> HIDE DEF M, b, D
  <2>4. QED
    BY <2>1, <2>2, <2>3
<1>6. PICK lead \in M : b[lead] = 1
  <2>1. Program(r[i]).index \in DOMAIN Program(r[i]).inputs /\ TypedStep(r[i])
    BY <1>1 DEF IsItsTransactions, TypedRun
  <2>2. 1 \in DOMAIN Program(r[i]).inputs
    BY <2>1, InputsFromOne
  <2>3. 1 \in D
    BY <2>2 DEF Transaction
  <2> HIDE DEF M, b, D
  <2>4. QED
    BY <1>5, <2>3
<1>7. \A j \in M : TypedStep(r[j]) /\ SizedStep(r[j]) /\ b[j] = Program(r[j]).index
  BY <1>2 DEF TypedRun, SizedRun
<1>8. PICK e \in Int : /\ StepTxOverhead(r[lead]) = InputOverhead(r[lead]) + e
                       /\ PaysFor(e, r[lead])
  <2>1. /\ TypedStep(r[lead]) /\ SizedStep(r[lead]) /\ Program(r[lead]).index = 1
    BY <1>6, <1>7
  <2>2. QED
    BY <2>1, StepPays
<1>9. ASSUME NEW j \in M, j # lead PROVE StepTxOverhead(r[j]) = InputOverhead(r[j])
  <2>1. TypedStep(r[j]) /\ SizedStep(r[j]) /\ Program(r[j]).index # 1
    BY <1>4, <1>6, <1>7, <1>9, SMTT(30)
  <2>2. InputOverhead(r[j]) \in Int
    BY <2>1, InputsHaveSizes DEF SizedStep
  <2>3. StepTxOverhead(r[j]) = InputOverhead(r[j]) + 0
    BY <2>1, StepPays
  <2>4. QED
    BY <2>2, <2>3
<1> DEFINE h  == [j \in DOMAIN r |-> Size(r[j].unlock) + StepTxOverhead(r[j])]
           in == [j \in DOMAIN r |-> Size(r[j].unlock) + InputOverhead(r[j])]
           x  == [j \in DOMAIN r |-> IF j = lead THEN e ELSE 0]
<1>10. ASSUME NEW j \in M
       PROVE  h[j] = in[j] + x[j] /\ in[j] \in Int /\ x[j] \in Int /\ I[b[j]] = in[j] /\ (j # lead => x[j] = 0)
  <2>1. j \in DOMAIN r /\ Sized(r[j].unlock) /\ b[j] \in D /\ t.inputs[b[j]].unlock = r[j].unlock
    BY <1>4, <1>7 DEF SizedStep
  <2>2. /\ InputOverhead(r[j]) \in Int /\ Size(r[j].unlock) \in Int
        /\ Size(r[j].unlock) + InputOverhead(r[j])
             = 36 + VarintLen(Size(r[j].unlock)) + Size(r[j].unlock) + 4
    BY <2>1, InputsHaveSizes, LimitIsLarge DEF Sized
  <2>3. I[b[j]] = 36 + VarintLen(Size(r[j].unlock)) + Size(r[j].unlock) + 4
    <3> HIDE DEF t, b
    <3>1. QED
      BY <2>1 DEF InputBytes
  <2>4. /\ h[j] = Size(r[j].unlock) + StepTxOverhead(r[j])
        /\ in[j] = Size(r[j].unlock) + InputOverhead(r[j])
        /\ x[j] = IF j = lead THEN e ELSE 0
    BY <2>1
  <2>5. StepTxOverhead(r[j]) = InputOverhead(r[j]) + IF j = lead THEN e ELSE 0
    BY <1>8, <1>9, <2>2
  <2> HIDE DEF h, in, x, I, b, D, M, t
  <2>6. QED
    BY <2>2, <2>3, <2>4, <2>5
<1>11. x[lead] = e
  BY <1>2, <1>6
<1> HIDE DEF h, in, x, I, b, D, M
<1>12. IntOn(in, M) /\ IntOn(x, M)
  BY <1>10 DEF IntOn
<1>13. SumFunctionOnSet(h, M) = SumFunctionOnSet(in, M) + SumFunctionOnSet(x, M)
  BY <1>3, <1>10, <1>12, SumOfSums
<1>14. SumFunctionOnSet(x, M) = e
  BY <1>3, <1>6, <1>8, <1>10, <1>11, SumOfTheOne
<1>15. SumFunctionOnSet(I, D) = SumFunctionOnSet(in, M)
  <2>1. \A j, k \in M : b[j] = b[k] => j = k
    BY <1>4
  <2>2. SumFunctionOnSet(I, {b[j] : j \in M}) = SumFunctionOnSet(in, M)
    BY <1>3, <1>10, <1>12, <2>1, SumElsewhere
  <2>3. QED
    BY <1>5, <2>2
<1>16. SumFunctionOnSet(in, M) \in Int
  BY <1>3, <1>12, SumIsInt
<1>17. Spent(r, Mates(r, i)) = SumFunctionOnSet(h, M)
  BY DEF Spent, h, M
<1>18. SumFunction(I) = SumFunctionOnSet(I, D)
  BY DEF SumFunction, I, D, InputBytes
<1>19. /\ Transaction(r[lead]) = t /\ Contexts(r[lead]) = Contexts(r[i])
  BY <1>4, <1>6
<1>20. /\ Surrounding(r[lead]) = Surrounding(r[i]) /\ Successor(r[lead]) = Successor(r[i])
       /\ BareTokens(r[lead]) = BareTokens(r[i]) /\ OutputBytes(r[lead]) = OutputBytes(r[i])
  BY <1>19 DEF Surrounding, OutputBytes, Successor, BareTokens
<1>21. Serialized(r[i]) = 4 + VarintLen(Len(t.inputs)) + SumFunction(I) + VarintLen(Len(t.outputs))
                          + OutputBytes(r[i]) + 4
  BY DEF Serialized, OutputBytes, I, InputBytes
<1>22. PaysFor(e, r[i])
  BY <1>8, <1>20 DEF PaysFor
<1>23. Serialized(r[i]) = Surrounding(r[i]) + SumFunction(I) /\ Surrounding(r[i]) \in Int
  <2>1. VarintLen(Len(t.inputs)) \in Int /\ VarintLen(Len(t.outputs)) \in Int
    BY DEF VarintLen
  <2>2. OutputBytes(r[i]) \in Int
    BY <1>8, <1>20 DEF PaysFor
  <2>3. Surrounding(r[i]) = 8 + VarintLen(Len(t.inputs)) + VarintLen(Len(t.outputs)) + OutputBytes(r[i])
    BY DEF Surrounding, TxnEnvelope
  <2> HIDE DEF t
  <2>4. SumFunction(I) \in Int
    BY <1>15, <1>16, <1>18
  <2>5. QED
    BY <1>21, <2>1, <2>2, <2>3, <2>4
<1> DEFINE spent == Spent(r, Mates(r, i))
<1>24. spent = SumFunction(I) + e /\ SumFunction(I) \in Int
  BY <1>13, <1>14, <1>15, <1>16, <1>17, <1>18
<1> HIDE DEF spent, t
<1>25. /\ spent \in Int /\ Serialized(r[i]) \in Int /\ Successor(r[i]) \in Int
       /\ spent - (Serialized(r[i]) - Successor(r[i])) = e - (Surrounding(r[i]) - Successor(r[i]))
  BY <1>22, <1>23, <1>24, <1>8 DEF PaysFor
<1>26. QED
  BY <1>22, <1>25 DEF PaysFor, spent
(* The steps that come first in their transactions.                         *)
Firsts(r) == {i \in DOMAIN r : \A j \in Mates(r, i) : i <= j}

LEMMA RunIsFinite ==
  ASSUME NEW r, TypedRun(r)
  PROVE  /\ DOMAIN r \subseteq Int /\ IsFiniteSet(DOMAIN r) /\ Cardinality(DOMAIN r) = Len(r)
         /\ DOMAIN r = 1 .. Len(r) /\ Len(r) \in Nat
         /\ \A i \in DOMAIN r : i \in Mates(r, i) /\ Mates(r, i) \subseteq DOMAIN r /\ IsFiniteSet(Mates(r, i))
         /\ Firsts(r) \subseteq DOMAIN r /\ IsFiniteSet(Firsts(r))
<1>1. DOMAIN r = 1 .. Len(r) /\ Len(r) \in Nat
  BY DEF TypedRun, IsList
<1>2. IsFiniteSet(1 .. Len(r)) /\ Cardinality(1 .. Len(r)) = Len(r)
  <2>1. /\ IsFiniteSet(1 .. Len(r))
        /\ Cardinality(1 .. Len(r)) = IF 1 > Len(r) THEN 0 ELSE Len(r) - 1 + 1
    BY <1>1, FS_Interval
  <2>2. QED
    BY <1>1, <2>1
<1>3. \A i \in DOMAIN r : i \in Mates(r, i) /\ Mates(r, i) \subseteq DOMAIN r
  BY DEF Mates
<1>4. Firsts(r) \subseteq DOMAIN r
  BY DEF Firsts
<1>5. QED
  BY <1>1, <1>2, <1>3, <1>4, FS_Subset

LEMMA EveryTransactionHasAFirst ==
  ASSUME NEW r, TypedRun(r), RunShape(r)
  PROVE  /\ \A i \in DOMAIN r : \E f \in Firsts(r) : i \in Mates(r, f) /\ f \in Mates(r, i)
         /\ \A f, g \in Firsts(r) : f # g => Mates(r, f) \cap Mates(r, g) = {}
         /\ UNION {Mates(r, f) : f \in Firsts(r)} = DOMAIN r
<1>1. ASSUME NEW i \in DOMAIN r
      PROVE  \E f \in Firsts(r) : i \in Mates(r, f) /\ f \in Mates(r, i)
  <2> DEFINE M == Mates(r, i)
  <2>1. M # {} /\ M \subseteq Int /\ IsFiniteSet(M) /\ M \subseteq DOMAIN r /\ i \in M
    BY RunIsFinite
  <2>2. \A j \in M : Mates(r, j) = M
    BY MatesOfMates
  <2> HIDE DEF M
  <2>3. PICK f \in M : \A j \in M : f <= j
    BY <2>1, Least
  <2>4. f \in Firsts(r) /\ i \in Mates(r, f)
    BY <2>1, <2>2, <2>3 DEF Firsts
  <2>5. QED
    BY <2>3, <2>4 DEF M
<1>2. ASSUME NEW f \in Firsts(r), NEW g \in Firsts(r), NEW k, k \in Mates(r, f), k \in Mates(r, g)
      PROVE  f = g
  <2>1. f \in DOMAIN r /\ g \in DOMAIN r /\ f \in Int /\ g \in Int
    BY RunIsFinite
  <2>2. Mates(r, k) = Mates(r, f) /\ Mates(r, k) = Mates(r, g)
    BY <1>2, <2>1, MatesOfMates
  <2>3. f \in Mates(r, g) /\ g \in Mates(r, f)
    BY <2>1, <2>2, RunIsFinite
  <2>4. f <= g /\ g <= f
    BY <2>3 DEF Firsts
  <2>5. QED
    BY <2>1, <2>4
<1>3. UNION {Mates(r, f) : f \in Firsts(r)} = DOMAIN r
  <2>1. \A f \in Firsts(r) : Mates(r, f) \subseteq DOMAIN r
    BY RunIsFinite
  <2>2. QED
    BY <1>1, <2>1
<1>4. \A f, g \in Firsts(r) : f # g => Mates(r, f) \cap Mates(r, g) = {}
  BY <1>2
<1>5. QED
  BY <1>1, <1>3, <1>4

(* txCountOf counts the transactions.                                       *)
LEMMA TransactionsAreCounted ==
  ASSUME NEW r, TypedRun(r), RunShape(r)
  PROVE  TxCountOf(r) = Cardinality(Firsts(r))
<1> DEFINE grouped == \E i \in DOMAIN r : r[i].grouped # None
           intraTx == \E i \in DOMAIN r : r[i].intraTx # None
<1>1. \A i \in DOMAIN r : 1 \in DOMAIN r
  BY RunIsFinite
<1>2. \A i \in DOMAIN r : /\ (r[i].grouped # None) <=> (r[1].grouped # None)
                          /\ (r[i].intraTx # None) <=> (r[1].intraTx # None)
  <2>1. \A i \in DOMAIN r : r[i]["grouped"] = r[i].grouped /\ r[i]["intraTx"] = r[i].intraTx
    OBVIOUS
  <2>2. QED
    BY <1>1, <2>1, ContextsOfSteps DEF ContextKinds
<1>3. CASE grouped
  <2> DEFINE G == {r[i].grouped.group : i \in DOMAIN r}
             F == Firsts(r)
             b == [i \in F |-> r[i].grouped.group]
  <2>1. \A i \in DOMAIN r : r[i].grouped # None
    BY <1>2, <1>3
  <2>2. \A i \in DOMAIN r : Mates(r, i) = {j \in DOMAIN r : r[j].grouped.group = r[i].grouped.group}
    BY <2>1 DEF Mates
  <2>3. {r[i].grouped.group : i \in {j \in DOMAIN r : r[j].grouped # None}} = G
    BY <2>1
  <2>4. TxCountOf(r) = Cardinality(G)
    BY <1>3, <2>3 DEF TxCountOf
  <2>5. F \subseteq DOMAIN r /\ IsFiniteSet(F)
    BY RunIsFinite
  <2>6. \A f, g \in F : b[f] = b[g] => f = g
    <3>1. SUFFICES ASSUME NEW f \in F, NEW g \in F, b[f] = b[g], f # g PROVE FALSE
      OBVIOUS
    <3>2. g \in Mates(r, f) /\ g \in Mates(r, g)
      BY <2>2, <2>5, <3>1
    <3>3. Mates(r, f) \cap Mates(r, g) = {}
      BY <3>1, EveryTransactionHasAFirst
    <3>4. QED
      BY <3>2, <3>3
  <2>7. \A x \in G : \E f \in F : b[f] = x
    <3>1. SUFFICES ASSUME NEW i \in DOMAIN r PROVE \E f \in F : b[f] = r[i].grouped.group
      OBVIOUS
    <3>2. PICK f \in F : i \in Mates(r, f)
      BY EveryTransactionHasAFirst
    <3>3. QED
      BY <2>2, <2>5, <3>2
  <2>8. b \in [F -> G]
    BY <2>5
  <2> HIDE DEF G, F, b
  <2>9. b \in Bijection(F, G)
    BY <2>6, <2>7, <2>8 DEF Bijection, Injection, Surjection, IsInjective
  <2>10. Cardinality(G) = Cardinality(F)
    BY <2>5, <2>9, FS_Bijection DEF ExistsBijection
  <2>11. QED
    BY <2>4, <2>10 DEF F
<1>4. CASE ~grouped /\ intraTx
  <2>1. \A i \in DOMAIN r : Mates(r, i) = DOMAIN r
    BY <1>2, <1>4 DEF Mates
  <2>2. \A i \in DOMAIN r : 1 <= i
    BY RunIsFinite
  <2>3. Firsts(r) = {1}
    <3>1. \A i \in DOMAIN r : (\A j \in DOMAIN r : i <= j) => i = 1
      BY <1>1, <2>2, RunIsFinite
    <3>2. 1 \in DOMAIN r
      BY <1>1, <1>4
    <3>3. QED
      BY <2>1, <2>2, <3>1, <3>2 DEF Firsts
  <2>4. TxCountOf(r) = 1
    BY <1>4 DEF TxCountOf
  <2>5. QED
    BY <2>3, <2>4, FS_Singleton
<1>5. CASE ~grouped /\ ~intraTx
  <2>1. \A i \in DOMAIN r : Mates(r, i) = {i}
    BY <1>5 DEF Mates
  <2>2. \A i \in DOMAIN r : i <= i
    BY RunIsFinite
  <2>3. Firsts(r) = DOMAIN r
    BY <2>1, <2>2 DEF Firsts
  <2>4. TxCountOf(r) = Len(r)
    BY <1>5 DEF TxCountOf
  <2>5. QED
    BY <2>3, <2>4, RunIsFinite
<1>6. QED
  BY <1>3, <1>4, <1>5
(* runScore adds each transaction once, with the lockings it spends.        *)
LEMMA TransactionsAreAdded ==
  ASSUME TokensAreThere, NEW r, TypedRun(r), RunShape(r), SizedRun(r)
  PROVE  RunScore(r).score = SumFunction([i \in DOMAIN r |-> Size(r[i].lock)])
                             + SumFunction([i \in Firsts(r) |-> Spent(r, Mates(r, i))])
<1> DEFINE D == DOMAIN r
           F == Firsts(r)
           all  == [i \in D |-> Size(r[i].lock) + Size(r[i].unlock) + StepTxOverhead(r[i])]
           lock == [i \in D |-> Size(r[i].lock)]
           h    == [i \in D |-> Size(r[i].unlock) + StepTxOverhead(r[i])]
           p    == [i \in F |-> Mates(r, i)]
           once == [i \in F |-> Spent(r, Mates(r, i))]
<1>1. /\ IsFiniteSet(D) /\ F \subseteq D /\ IsFiniteSet(F)
      /\ \A i \in F : p[i] \subseteq D /\ IsFiniteSet(p[i])
  BY RunIsFinite
<1>2. ASSUME NEW i \in D
      PROVE  all[i] = lock[i] + h[i] /\ lock[i] \in Int /\ h[i] \in Int
  <2>1. TypedStep(r[i]) /\ SizedStep(r[i])
    BY DEF TypedRun, SizedRun
  <2>2. Size(r[i].lock) \in Int /\ Size(r[i].unlock) \in Int /\ InputOverhead(r[i]) \in Int
    BY <2>1, LimitIsLarge, InputsHaveSizes DEF SizedStep, Sized
  <2>3. StepTxOverhead(r[i]) \in Int
    BY <2>1, <2>2, StepPays
  <2>4. QED
    BY <2>2, <2>3
<1>3. \A i \in F : once[i] = SumFunctionOnSet(h, p[i])
  BY DEF Spent
<1>4. \A i, j \in F : i # j => p[i] \cap p[j] = {}
  BY EveryTransactionHasAFirst
<1>5. UNION {p[i] : i \in F} = D
  <2>1. UNION {Mates(r, i) : i \in F} = D
    BY EveryTransactionHasAFirst
  <2>2. \A i \in F : p[i] = Mates(r, i)
    OBVIOUS
  <2> HIDE DEF p
  <2>3. QED
    BY <2>1, <2>2
<1>6. RunScore(r).score = SumFunctionOnSet(all, D)
  BY DEF RunScore, SumFunction
<1>7. SumFunction(lock) = SumFunctionOnSet(lock, D) /\ SumFunction(once) = SumFunctionOnSet(once, F)
  BY DEF SumFunction
<1> HIDE DEF all, lock, h, p, once, D, F
<1>8. IntOn(lock, D) /\ IntOn(h, D)
  BY <1>2 DEF IntOn
<1>9. SumFunctionOnSet(all, D) = SumFunctionOnSet(lock, D) + SumFunctionOnSet(h, D)
  BY <1>1, <1>2, <1>8, SumOfSums
<1>10. \A i \in F : IsFiniteSet(p[i]) /\ IntOn(h, p[i]) /\ once[i] = SumFunctionOnSet(h, p[i])
  BY <1>1, <1>3, <1>8 DEF IntOn
<1>11. SumFunctionOnSet(h, D) = SumFunctionOnSet(once, F)
  <2>1. SumFunctionOnSet(h, UNION {p[i] : i \in F}) = SumFunctionOnSet(once, F)
    BY <1>1, <1>4, <1>10, SumByParts
  <2>2. QED
    BY <1>5, <2>1
<1>12. SumFunction(lock) = SumFunction([i \in DOMAIN r |-> Size(r[i].lock)])
       /\ SumFunction(once) = SumFunction([i \in Firsts(r) |-> Spent(r, Mates(r, i))])
  BY DEF lock, once, D, F
<1>13. QED
  BY <1>6, <1>7, <1>9, <1>11, <1>12

LEMMA LargestOfMany ==
  ASSUME NEW S, IsFiniteSet(S), NEW f, \A x \in S : f[x] \in Int, NEW y \in S
  PROVE  Max({f[x] : x \in S}) \in Int /\ f[y] <= Max({f[x] : x \in S})
<1> DEFINE T == {f[x] : x \in S}
           g == [x \in S |-> f[x]]
<1>1. g \in Surjection(S, T)
  BY DEF Surjection
<1>2. IsFiniteSet(T)
  <2> HIDE DEF T, g
  <2>1. QED
    BY <1>1, FS_Surjection
<1>3. T \subseteq Int /\ T # {} /\ f[y] \in T
  OBVIOUS
<1> HIDE DEF T
<1>4. f[y] <= Max(T) /\ Max(T) \in T
  BY <1>2, <1>3, MaxIsGreatest
<1>5. Max(T) \in Int
  BY <1>3, <1>4
<1>6. QED
  BY <1>4, <1>5 DEF T

(* largestTxBytes is no less than what is spent on any transaction.         *)
LEMMA LargestIsLarge ==
  ASSUME TokensAreThere, NEW r, TypedRun(r), RunShape(r), SizedRun(r), NEW i \in DOMAIN r
  PROVE  LargestTxBytes(r) \in Int /\ Spent(r, Mates(r, i)) <= LargestTxBytes(r)
<1> DEFINE grouped == \E j \in DOMAIN r : r[j].grouped # None
           intraTx == \E j \in DOMAIN r : r[j].intraTx # None
           D       == DOMAIN r
<1>1. \A j \in D : Spent(r, Mates(r, j)) \in Int
  BY TransactionIsPaid
<1>2. IsFiniteSet(D) /\ 1 \in D /\ D = 1 .. Len(r) /\ Len(r) \in Nat
  BY RunIsFinite
<1>3. \A j \in D : /\ (r[j].grouped # None) <=> (r[1].grouped # None)
                   /\ (r[j].intraTx # None) <=> (r[1].intraTx # None)
  <2>1. \A j \in D : r[j]["grouped"] = r[j].grouped /\ r[j]["intraTx"] = r[j].intraTx
    OBVIOUS
  <2>2. QED
    BY <1>2, <2>1, ContextsOfSteps DEF ContextKinds
<1>4. CASE grouped
  <2> DEFINE f == [j \in D |-> Spent(r, {k \in D : r[k].grouped.group = r[j].grouped.group})]
  <2>1. \A j \in D : r[j].grouped # None
    BY <1>3, <1>4
  <2>2. ASSUME NEW j \in D PROVE f[j] = Spent(r, Mates(r, j))
    <3>1. Mates(r, j) = {k \in D : r[k].grouped.group = r[j].grouped.group}
      BY <2>1 DEF Mates
    <3>2. QED
      BY <3>1
  <2>3. LargestTxBytes(r) = Max({f[j] : j \in D})
    <3>1. \A j \in D : f[j] = Spent(r, {k \in D : r[k].grouped.group = r[j].grouped.group})
      OBVIOUS
    <3>2. {f[j] : j \in D} = {Spent(r, {k \in D : r[k].grouped.group = r[j].grouped.group}) : j \in D}
      BY <3>1
    <3> HIDE DEF f
    <3>3. QED
      BY <1>4, <3>2 DEF LargestTxBytes
  <2> HIDE DEF f, D
  <2>4. i \in D
    BY DEF D
  <2>5. f[i] <= Max({f[j] : j \in D}) /\ Max({f[j] : j \in D}) \in Int
    BY <1>1, <1>2, <2>2, <2>4, LargestOfMany
  <2>6. QED
    BY <2>2, <2>3, <2>4, <2>5
<1>5. CASE ~grouped /\ TxCountOf(r) = 1
  <2>1. Mates(r, i) = D
    <3>1. CASE intraTx
      BY <1>3, <1>5, <3>1 DEF Mates
    <3>2. CASE ~intraTx
      <4>1. Len(r) = 1
        BY <1>5, <3>2 DEF TxCountOf
      <4>2. D = {1}
        BY <1>2, <4>1
      <4>3. QED
        BY <1>5, <3>2, <4>2 DEF Mates
    <3>3. QED
      BY <3>1, <3>2
  <2>2. LargestTxBytes(r) = Spent(r, D)
    BY <1>5 DEF LargestTxBytes
  <2>3. QED
    BY <1>1, <2>1, <2>2
<1>6. CASE ~grouped /\ TxCountOf(r) # 1
  <2> DEFINE f == [j \in D |-> Size(r[j].lock) + Spent(r, {j})]
  <2>1. ~intraTx
    BY <1>6 DEF TxCountOf
  <2>2. \A j \in D : Mates(r, j) = {j}
    BY <1>6, <2>1 DEF Mates
  <2>3. \A j \in D : Size(r[j].lock) \in Nat
    BY LimitIsLarge DEF SizedRun, SizedStep, Sized
  <2>4. ASSUME NEW j \in D
        PROVE  Spent(r, {j}) \in Int /\ f[j] = Size(r[j].lock) + Spent(r, {j}) /\ f[j] \in Int
    <3>1. Spent(r, Mates(r, j)) \in Int /\ Mates(r, j) = {j} /\ Size(r[j].lock) \in Nat
      BY <1>1, <2>2, <2>3
    <3>2. f[j] = Size(r[j].lock) + Spent(r, {j})
      OBVIOUS
    <3> HIDE DEF f
    <3>3. QED
      BY <3>1, <3>2
  <2>5. LargestTxBytes(r) = Max({f[j] : j \in D})
    <3>1. {f[j] : j \in D} = {Size(r[j].lock) + Spent(r, {j}) : j \in D}
      BY <2>4
    <3> HIDE DEF f
    <3>2. QED
      BY <1>6, <3>1 DEF LargestTxBytes
  <2> HIDE DEF f, D
  <2>6. i \in D
    BY DEF D
  <2>7. f[i] <= Max({f[j] : j \in D}) /\ Max({f[j] : j \in D}) \in Int
    <3>1. IsFiniteSet(D) /\ \A j \in D : f[j] \in Int
      BY <1>2, <2>4
    <3>2. QED
      BY <2>6, <3>1, LargestOfMany
  <2>8. f[i] = Size(r[i].lock) + Spent(r, {i}) /\ Size(r[i].lock) \in Nat /\ Spent(r, {i}) \in Int
        /\ Spent(r, Mates(r, i)) = Spent(r, {i})
    BY <2>2, <2>3, <2>4, <2>6
  <2> DEFINE spent == Spent(r, {i})
             size  == Size(r[i].lock)
             top   == Max({f[j] : j \in D})
  <2>9. top \in Int
    BY <2>7
  <2> HIDE DEF spent, size, top
  <2>10. spent <= top
    <3>1. f[i] = size + spent /\ size \in Nat /\ spent \in Int /\ f[i] <= top
      BY <2>7, <2>8 DEF spent, size, top
    <3>2. QED
      BY <2>9, <3>1
  <2>11. QED
    BY <2>5, <2>8, <2>9, <2>10 DEF spent, top
<1>7. QED
  BY <1>4, <1>5, <1>6
-----------------------------------------------------------------------------
(* The measure                                                              *)

SizedPrimary == case # None => SizedRun(run)

(* What is measured has passed, and is not measured again.                  *)
MeasureIsOfPassed == measure # None => Passed /\ measure = RunScore(run)

LEMMA MeasureStays ==
  ASSUME MeasureIsOfPassed, [Next]_vars
  PROVE  MeasureIsOfPassed'
<1>1. CASE LoadEntry
  BY <1>1 DEF LoadEntry, MeasureIsOfPassed, Passed
<1>2. CASE AssertHonestRuns
  BY <1>2 DEF AssertHonestRuns, MeasureIsOfPassed, Passed
<1>3. CASE Measure
  BY <1>3 DEF Measure, MeasureIsOfPassed, Passed, run
<1>4. CASE UNCHANGED vars
  BY <1>4 DEF vars, MeasureIsOfPassed, Passed, run
<1>5. QED
  BY <1>1, <1>2, <1>3, <1>4 DEF Next

LEMMA MeasuredMeansPassed == Spec => []MeasureIsOfPassed
<1>1. Init => MeasureIsOfPassed
  BY DEF Init, MeasureIsOfPassed
<1>2. MeasureIsOfPassed /\ [Next]_vars => MeasureIsOfPassed'
  BY MeasureStays
<1>3. QED
  BY <1>1, <1>2, PTL DEF Spec

LEMMA MeasuredRun ==
  ASSUME PassedIsChecked, MeasureIsOfPassed, Typed, SizedPrimary, measure # None
  PROVE  /\ TokensAreThere /\ TypedRun(run) /\ RunShape(run) /\ SizedRun(run)
         /\ measure = RunScore(run)
<1>1. Passed /\ measure = RunScore(run)
  BY DEF MeasureIsOfPassed
<1>2. case # None /\ RunShape(run)
  BY <1>1 DEF PassedIsChecked, HonestRuns, run
<1>3. run \in Runs(case.scenario)
  BY DEF Runs, run
<1>4. QED
  BY <1>1, <1>2, <1>3 DEF Typed, SizedPrimary

(* A measured run is charged what its transactions are long.                *)
LEMMA MeasuredOverhead ==
  ASSUME PassedIsChecked, MeasureIsOfPassed, Typed, SizedPrimary
  PROVE  OverheadIsTheRest
<1>1. SUFFICES ASSUME measure # None, NEW i \in DOMAIN run
      PROVE  LET surplus == Spent(run, Mates(run, i)) - (Serialized(run[i]) - Successor(run[i]))
             IN  /\ 0 <= surplus /\ surplus <= 3 * BareTokens(run[i])
                 /\ BareTokens(run[i]) > 0 => surplus >= BareTokens(run[i])
  BY DEF OverheadIsTheRest
<1>2. TokensAreThere /\ TypedRun(run) /\ RunShape(run) /\ SizedRun(run)
  BY <1>1, MeasuredRun
<1>3. QED
  BY <1>2, TransactionIsPaid

(* Each of them is counted once.                                            *)
LEMMA MeasuredTransactions ==
  ASSUME PassedIsChecked, MeasureIsOfPassed, Typed, SizedPrimary
  PROVE  EveryTransactionOnce
<1>1. SUFFICES ASSUME measure # None
      PROVE  /\ measure.txCount = Cardinality(Firsts(run))
             /\ measure.score = SumFunction([i \in DOMAIN run |-> Size(run[i].lock)])
                                + SumFunction([i \in Firsts(run) |-> Spent(run, Mates(run, i))])
             /\ \A i \in Firsts(run) : Serialized(run[i]) - Successor(run[i]) <= measure.txBytes
  BY DEF EveryTransactionOnce, Firsts
<1>2. /\ TokensAreThere /\ TypedRun(run) /\ RunShape(run) /\ SizedRun(run)
      /\ measure = RunScore(run)
  BY <1>1, MeasuredRun
<1>3. measure.txCount = TxCountOf(run) /\ measure.txBytes = LargestTxBytes(run)
  BY <1>2 DEF RunScore
<1>4. measure.txCount = Cardinality(Firsts(run))
  BY <1>2, <1>3, TransactionsAreCounted
<1>5. measure.score = SumFunction([i \in DOMAIN run |-> Size(run[i].lock)])
                      + SumFunction([i \in Firsts(run) |-> Spent(run, Mates(run, i))])
  BY <1>2, TransactionsAreAdded
<1>6. ASSUME NEW i \in Firsts(run)
      PROVE  Serialized(run[i]) - Successor(run[i]) <= measure.txBytes
  <2> DEFINE spent == Spent(run, Mates(run, i))
             rest  == Serialized(run[i]) - Successor(run[i])
             top   == LargestTxBytes(run)
  <2>1. i \in DOMAIN run
    BY DEF Firsts
  <2>2. spent \in Int /\ Serialized(run[i]) \in Int /\ Successor(run[i]) \in Int /\ 0 <= spent - rest
    BY <1>2, <2>1, TransactionIsPaid
  <2>3. spent <= top /\ top \in Int
    BY <1>2, <2>1, LargestIsLarge
  <2>4. rest \in Int
    BY <2>2
  <2> HIDE DEF spent, rest, top
  <2>5. rest <= top
    BY <2>2, <2>3, <2>4
  <2>6. QED
    BY <1>3, <2>5 DEF rest, top
<1>7. QED
  BY <1>4, <1>5, <1>6

-----------------------------------------------------------------------------
(* The runs of a loader                                                     *)

(* A context is not an absent field.                                        *)
ContextsAreThere ==
    /\ \A x, y : [index |-> x, inputs |-> y] # None
    /\ \A g, x, y, c, t, ts, u, l :
         [group |-> g, index |-> x, inputs |-> y, category |-> c, inToken |-> t, inputTokens |-> ts,
          outToken |-> u, outLock |-> l] # None

(* What a step is evaluated in is its transaction, or, for the steps of a   *)
(* chain, at least its own input.                                           *)
Evaluated(r) ==
    IF r[1].covenant # None
    THEN \A i \in DOMAIN r : SameInput(EvaluatedInput(r[i]), r[i])
    ELSE IsItsTransactions(r)

LEMMA AloneIsEvaluated ==
  ASSUME NEW r, \A i \in DOMAIN r : r[i].grouped = None /\ r[i].intraTx = None
  PROVE  Evaluated(r)
<1>1. \A i \in DOMAIN r : SameInput(EvaluatedInput(r[i]), r[i])
  BY SoleInput
<1>2. IsItsTransactions(r)
  BY SoleInput DEF IsItsTransactions
<1>3. QED
  BY <1>1, <1>2 DEF Evaluated

(* The inputs of the transaction are made anew from the raw steps.          *)
LEMMA IntraTxIsEvaluated ==
  ASSUME ContextsAreThere, NEW raw
  PROVE  Evaluated(ToIntraTx(raw))
<1> DEFINE r  == ToIntraTx(raw)
           in == [k \in DOMAIN raw |-> InputOf(raw[k], None)]
<1>1. /\ DOMAIN r = DOMAIN raw
      /\ \A i \in DOMAIN raw : /\ r[i].lock = raw[i].lock /\ r[i].unlock = raw[i].unlock
                               /\ r[i].grouped = None /\ r[i].covenant = None
                               /\ r[i].intraTx = [index |-> i, inputs |-> InputsOfRun(raw)]
  BY DEF ToIntraTx, Plain
<1> HIDE DEF r
<1>2. \A i \in DOMAIN raw : r[i].intraTx # None
  <2>1. \A x, y : [index |-> x, inputs |-> y] # None
    BY DEF ContextsAreThere
  <2>2. QED
    BY <1>1, <2>1, Zenon
<1>3. \A i \in DOMAIN raw : Program(r[i]) = IntraTxProgram(r[i].intraTx)
  BY <1>1, <1>2 DEF Program
<1>4. \A i \in DOMAIN raw : /\ Program(r[i]).index = i
                            /\ Program(r[i]).inputs = in
                            /\ Program(r[i]).outputs = << OutputOf(OpReturn, None) >>
  <2>1. SUFFICES ASSUME NEW i \in DOMAIN raw
        PROVE  /\ Program(r[i]).index = i
               /\ Program(r[i]).inputs = in
               /\ Program(r[i]).outputs = << OutputOf(OpReturn, None) >>
    OBVIOUS
  <2>2. r[i].intraTx.index = i /\ r[i].intraTx.inputs = InputsOfRun(raw)
    <3>1. r[i].intraTx = [index |-> i, inputs |-> InputsOfRun(raw)]
      BY <1>1, Zenon
    <3>2. QED
      BY <3>1
  <2>3. /\ Program(r[i]) = IntraTxProgram(r[i].intraTx)
        /\ Program(r[i]).index = i
        /\ Program(r[i]).inputs = [k \in DOMAIN InputsOfRun(raw) |-> InputOf(InputsOfRun(raw)[k], None)]
        /\ Program(r[i]).outputs = << OutputOf(OpReturn, None) >>
    <3>1. Program(r[i]) = IntraTxProgram(r[i].intraTx)
      BY <1>3
    <3>2. QED
      BY <2>2, <3>1 DEF IntraTxProgram
  <2>4. DOMAIN InputsOfRun(raw) = DOMAIN raw
        /\ \A k \in DOMAIN raw : InputOf(InputsOfRun(raw)[k], None) = InputOf(raw[k], None)
    BY DEF InputsOfRun, InputOf
  <2>5. QED
    BY <2>3, <2>4
<1> HIDE DEF in
<1>5. /\ DOMAIN in = DOMAIN raw
      /\ \A k \in DOMAIN raw : SameInput(in[k], r[k])
  BY <1>1 DEF in, SameInput, InputOf
<1>6. \A i \in DOMAIN raw : Mates(r, i) = DOMAIN raw
  BY <1>1, <1>2 DEF Mates
<1>7. \A i \in DOMAIN raw : SameInput(EvaluatedInput(r[i]), r[i])
  BY <1>4, <1>5 DEF EvaluatedInput
<1>8. \A i, j \in DOMAIN raw : Transaction(r[j]) = Transaction(r[i])
  BY <1>4 DEF Transaction
<1>9. {Program(r[j]).index : j \in DOMAIN raw} = DOMAIN raw
  BY <1>4
<1>10. IsItsTransactions(r)
  BY <1>1, <1>4, <1>5, <1>6, <1>7, <1>8, <1>9 DEF IsItsTransactions
<1>11. QED
  BY <1>1, <1>7, <1>10 DEF Evaluated, r

(* The steps of a group are the ones from lo to hi.                         *)
WellGrouped(raw) ==
    /\ IsList(raw.steps)
    /\ \A i \in DOMAIN raw.steps :
         LET n == raw.steps[i].group
             g == raw.groups[n]
         IN  /\ g.lo \in DOMAIN raw.steps /\ g.hi \in DOMAIN raw.steps
             /\ \A j \in DOMAIN raw.steps : raw.steps[j].group = n <=> j \in g.lo .. g.hi

(* The steps of r are grouped as the raw steps are.                         *)
GroupedAs(r, raw) ==
    /\ DOMAIN r = DOMAIN raw.steps
    /\ \A i \in DOMAIN r :
         LET n == raw.steps[i].group
             g == raw.groups[n]
         IN  /\ r[i].lock = raw.steps[i].lock /\ r[i].unlock = raw.steps[i].unlock
             /\ r[i].covenant = None /\ r[i].grouped # None
             /\ r[i].grouped.group = n /\ r[i].grouped.index = i - g.lo + 1
             /\ r[i].grouped.inputs = InputsOfRun(SubSeq(raw.steps, g.lo, g.hi))
    /\ \A i, j \in DOMAIN r : r[i].grouped.group = r[j].grouped.group =>
         /\ r[i].grouped.category = r[j].grouped.category
         /\ r[i].grouped.inToken = r[j].grouped.inToken
         /\ r[i].grouped.inputTokens = r[j].grouped.inputTokens
         /\ r[i].grouped.outToken = r[j].grouped.outToken
         /\ r[i].grouped.outLock = r[j].grouped.outLock

(* The steps lo to hi are the transaction of step i, and these its inputs.  *)
IsPiece(raw, r, i, lo, hi, inputs) ==
    /\ lo \in DOMAIN r /\ hi \in DOMAIN r /\ i \in lo .. hi
    /\ \A j \in DOMAIN r : raw.steps[j].group = raw.steps[i].group <=> j \in lo .. hi
    /\ DOMAIN inputs = 1 .. (hi - lo + 1)
    /\ \A k \in DOMAIN inputs : /\ inputs[k].lock = raw.steps[lo + k - 1].lock
                                /\ inputs[k].unlock = raw.steps[lo + k - 1].unlock
    /\ Mates(r, i) = lo .. hi

LEMMA GroupIsAPiece ==
  ASSUME NEW raw, WellGrouped(raw), NEW r, GroupedAs(r, raw), NEW i \in DOMAIN r
  PROVE  LET g == raw.groups[raw.steps[i].group]
         IN  IsPiece(raw, r, i, g.lo, g.hi, InputsOfRun(SubSeq(raw.steps, g.lo, g.hi)))
<1> DEFINE n      == raw.steps[i].group
           lo     == raw.groups[n].lo
           hi     == raw.groups[n].hi
           inputs == InputsOfRun(SubSeq(raw.steps, lo, hi))
<1>1. /\ DOMAIN r = 1 .. Len(raw.steps) /\ DOMAIN raw.steps = 1 .. Len(raw.steps) /\ Len(raw.steps) \in Nat
      /\ \A j \in DOMAIN r : r[j].grouped # None
  BY DEF GroupedAs, WellGrouped, IsList
<1>2. /\ lo \in DOMAIN r /\ hi \in DOMAIN r
      /\ \A j \in DOMAIN r : raw.steps[j].group = n <=> j \in lo .. hi
  BY <1>1 DEF WellGrouped
<1>3. i \in lo .. hi
  BY <1>2
<1>4. \A j \in DOMAIN r : r[j].grouped.group = raw.steps[j].group
  BY DEF GroupedAs
<1> HIDE DEF n, lo, hi
<1>5. DOMAIN inputs = DOMAIN SubSeq(raw.steps, lo, hi)
      /\ \A k \in DOMAIN inputs : /\ inputs[k].lock = SubSeq(raw.steps, lo, hi)[k].lock
                                  /\ inputs[k].unlock = SubSeq(raw.steps, lo, hi)[k].unlock
  BY DEF InputsOfRun
<1> HIDE DEF inputs
<1>6. /\ lo \in Int /\ hi \in Int /\ lo <= hi
      /\ \A j \in lo .. hi : j \in DOMAIN r /\ raw.steps[j] \in Elements(raw.steps)
  BY <1>1, <1>2, <1>3 DEF Elements
<1>7. /\ DOMAIN inputs = 1 .. (hi - lo + 1)
      /\ \A k \in DOMAIN inputs : /\ inputs[k].lock = raw.steps[lo + k - 1].lock
                                  /\ inputs[k].unlock = raw.steps[lo + k - 1].unlock
  <2> DEFINE piece == SubSeq(raw.steps, lo, hi)
  <2>1. /\ piece \in Seq(Elements(raw.steps)) /\ Len(piece) = hi - lo + 1
        /\ \A k \in 1 .. (hi - lo + 1) : piece[k] = raw.steps[lo + k - 1]
    BY <1>6, SubSeqProperties
  <2>2. DOMAIN piece = 1 .. (hi - lo + 1)
    BY <2>1, LenProperties
  <2> HIDE DEF piece
  <2>3. QED
    BY <1>5, <2>1, <2>2 DEF piece
<1>8. Mates(r, i) = lo .. hi
  <2>1. \A j \in DOMAIN r : r[i].grouped.group = r[j].grouped.group <=> j \in lo .. hi
    BY <1>2, <1>4 DEF n
  <2>2. QED
    BY <1>1, <1>3, <1>6, <2>1 DEF Mates
<1>9. QED
  <2>1. IsPiece(raw, r, i, lo, hi, inputs)
    BY <1>2, <1>3, <1>7, <1>8 DEF IsPiece, n
  <2>2. QED
    BY <2>1 DEF lo, hi, inputs, n

LEMMA GroupedIsEvaluated ==
  ASSUME NEW raw, WellGrouped(raw), NEW r, GroupedAs(r, raw)
  PROVE  Evaluated(r)
<1>1. /\ DOMAIN r = 1 .. Len(raw.steps) /\ DOMAIN raw.steps = 1 .. Len(raw.steps) /\ Len(raw.steps) \in Nat
      /\ \A i \in DOMAIN r : r[i].grouped # None /\ r[i].covenant = None
  BY DEF GroupedAs, WellGrouped, IsList
<1>2. SUFFICES ASSUME NEW i \in DOMAIN r
      PROVE  /\ Program(r[i]).index \in DOMAIN Program(r[i]).inputs
             /\ SameInput(EvaluatedInput(r[i]), r[i])
             /\ \A j \in Mates(r, i) : Transaction(r[j]) = Transaction(r[i])
             /\ {Program(r[j]).index : j \in Mates(r, i)} = DOMAIN Program(r[i]).inputs
             /\ \A j \in Mates(r, i) : j # i => Program(r[j]).index # Program(r[i]).index
  <2>1. IsItsTransactions(r) => Evaluated(r)
    <3>1. CASE DOMAIN r = {}
      BY <3>1 DEF Evaluated
    <3>2. CASE DOMAIN r # {}
      <4>1. 1 \in DOMAIN r
        BY <1>1, <3>2
      <4>2. QED
        BY <1>1, <4>1 DEF Evaluated
    <3>3. QED
      BY <3>1, <3>2
  <2>2. QED
    BY <2>1 DEF IsItsTransactions
<1> DEFINE n  == raw.steps[i].group
           lo == raw.groups[n].lo
           hi == raw.groups[n].hi
           in == InputsOfRun(SubSeq(raw.steps, lo, hi))
<1>3. /\ lo \in DOMAIN r /\ hi \in DOMAIN r
      /\ \A j \in DOMAIN r : raw.steps[j].group = n <=> j \in lo .. hi
  BY <1>1, <1>2 DEF WellGrouped
<1>4. /\ DOMAIN in = 1 .. (hi - lo + 1)
      /\ \A k \in DOMAIN in : /\ in[k].lock = raw.steps[lo + k - 1].lock
                              /\ in[k].unlock = raw.steps[lo + k - 1].unlock
      /\ Mates(r, i) = lo .. hi
  <2>1. IsPiece(raw, r, i, lo, hi, in)
    BY <1>2, GroupIsAPiece
  <2> HIDE DEF lo, hi, in
  <2>2. QED
    BY <2>1 DEF IsPiece
<1>6. \A j \in lo .. hi :
        /\ j \in DOMAIN r /\ r[j].lock = raw.steps[j].lock /\ r[j].unlock = raw.steps[j].unlock
        /\ r[j].grouped # None /\ r[j].grouped.group = n
        /\ r[j].grouped.index = j - lo + 1 /\ r[j].grouped.inputs = in
  <2>1. SUFFICES ASSUME NEW j \in lo .. hi
        PROVE  /\ j \in DOMAIN r /\ r[j].lock = raw.steps[j].lock /\ r[j].unlock = raw.steps[j].unlock
               /\ r[j].grouped # None /\ r[j].grouped.group = n
               /\ r[j].grouped.index = j - lo + 1 /\ r[j].grouped.inputs = in
    OBVIOUS
  <2>2. j \in DOMAIN r
    BY <1>1, <1>3, SMTT(60)
  <2>3. raw.steps[j].group = n
    BY <1>3, <2>2
  <2>4. QED
    BY <2>2, <2>3 DEF GroupedAs
<1>7. i \in lo .. hi
  BY <1>2, <1>3
<1> DEFINE tokens == [k \in DOMAIN in |-> GroupToken(r[i].grouped, SpentToken(r[i].grouped, k))]
           inputs == [k \in DOMAIN in |-> InputOf(in[k], tokens[k])]
           outs   == Program(r[i]).outputs
<1>8. ASSUME NEW j \in lo .. hi
      PROVE  /\ Program(r[j]).index = j - lo + 1
             /\ Program(r[j]).inputs = inputs
             /\ Program(r[j]).outputs = outs
  <2> DEFINE g == r[i].grouped
             h == r[j].grouped
  <2>1. /\ h.category = g.category /\ h.inToken = g.inToken /\ h.inputTokens = g.inputTokens
        /\ h.outToken = g.outToken /\ h.outLock = g.outLock
    BY <1>6, <1>7, <1>8 DEF GroupedAs
  <2>2. h.index = j - lo + 1 /\ h.inputs = in /\ g.inputs = in
    BY <1>6, <1>7, <1>8
  <2>3. Program(r[j]) = GroupedProgram(h) /\ Program(r[i]) = GroupedProgram(g)
    BY <1>6, <1>7, <1>8 DEF Program
  <2> HIDE DEF g, h, in, lo, hi, n
  <2>4. \A k \in DOMAIN in : InputOf(in[k], GroupToken(h, SpentToken(h, k))) = InputOf(in[k], GroupToken(g, SpentToken(g, k)))
    BY <2>1 DEF GroupToken, SpentToken
  <2>5. GroupedProgram(h).inputs = [k \in DOMAIN in |-> InputOf(in[k], GroupToken(h, SpentToken(h, k)))]
    BY <2>2 DEF GroupedProgram
  <2>6. GroupedProgram(h).inputs = inputs
    BY <2>4, <2>5 DEF g
  <2>7. GroupedProgram(h).outputs = GroupedProgram(g).outputs
    BY <2>1 DEF GroupedProgram, GroupToken
  <2>8. GroupedProgram(h).index = j - lo + 1
    BY <2>2 DEF GroupedProgram
  <2>9. QED
    BY <2>3, <2>6, <2>7, <2>8 DEF g, h
<1>9. DOMAIN inputs = DOMAIN in /\ \A k \in DOMAIN in : SameInput(inputs[k], in[k])
  <2> HIDE DEF tokens, in
  <2>1. DOMAIN inputs = DOMAIN in /\ \A k \in DOMAIN in : inputs[k] = InputOf(in[k], tokens[k])
    OBVIOUS
  <2>2. QED
    BY <2>1 DEF InputOf, SameInput
<1>10. lo \in Nat /\ hi \in Nat /\ lo >= 1 /\ \A j \in lo .. hi : j \in Nat /\ j - lo + 1 \in 1 .. (hi - lo + 1)
  <2> HIDE DEF lo, hi
  <2>1. QED
    BY <1>1, <1>3
<1> HIDE DEF inputs, outs, in, lo, hi, n
<1>11. {Program(r[j]).index : j \in lo .. hi} = 1 .. (hi - lo + 1)
  <2>1. \A k \in 1 .. (hi - lo + 1) : k + lo - 1 \in lo .. hi /\ (k + lo - 1) - lo + 1 = k
    BY <1>10
  <2>2. \A k \in 1 .. (hi - lo + 1) : \E j \in lo .. hi : Program(r[j]).index = k
    BY <1>8, <2>1
  <2>3. QED
    BY <1>8, <1>10, <2>2, SMTT(30)
<1>12. SameInput(EvaluatedInput(r[i]), r[i])
  <2> DEFINE k == i - lo + 1
  <2>1. k \in DOMAIN in /\ lo + k - 1 = i
    BY <1>4, <1>7, <1>10
  <2>2. EvaluatedInput(r[i]) = inputs[k]
    BY <1>7, <1>8 DEF EvaluatedInput
  <2>3. in[k].lock = raw.steps[i].lock /\ in[k].unlock = raw.steps[i].unlock
    BY <1>4, <2>1
  <2> HIDE DEF k
  <2>4. QED
    BY <1>6, <1>7, <1>9, <2>1, <2>2, <2>3 DEF SameInput
<1>13. \A j \in lo .. hi : Transaction(r[j]) = Transaction(r[i])
  BY <1>7, <1>8 DEF Transaction
<1>14. \A j \in lo .. hi : j # i => Program(r[j]).index # Program(r[i]).index
  BY <1>7, <1>8, <1>10
<1>15. Program(r[i]).index \in DOMAIN Program(r[i]).inputs /\ DOMAIN Program(r[i]).inputs = 1 .. (hi - lo + 1)
  BY <1>4, <1>7, <1>8, <1>9, <1>10
<1>16. QED
  BY <1>4, <1>11, <1>12, <1>13, <1>14, <1>15

(* What a grouped run says of a step, with the tokens of single inputs and  *)
(* without.                                                                 *)
LEMMA GroupedFields ==
  ASSUME ContextsAreThere, NEW raw, NEW category,
         NEW r, r = ToGrouped(raw, category), NEW q, q = WithoutSiblings(r)
  PROVE  /\ DOMAIN r = DOMAIN raw.steps /\ DOMAIN q = DOMAIN raw.steps
         /\ \A i \in DOMAIN raw.steps :
            LET n == raw.steps[i].group
                g == raw.groups[n]
            IN  /\ r[i].lock = raw.steps[i].lock /\ r[i].unlock = raw.steps[i].unlock
                /\ r[i].covenant = None /\ r[i].intraTx = None /\ r[i].grouped # None
                /\ r[i].grouped.group = n /\ r[i].grouped.index = i - g.lo + 1
                /\ r[i].grouped.inputs = InputsOfRun(SubSeq(raw.steps, g.lo, g.hi))
                /\ r[i].grouped.category = category /\ r[i].grouped.inToken = g.inToken
                /\ r[i].grouped.inputTokens = g.inputTokens /\ r[i].grouped.outToken = g.outToken
                /\ r[i].grouped.outLock = IF g.outLock = EmptyBytes THEN None ELSE g.outLock
                /\ q[i].lock = raw.steps[i].lock /\ q[i].unlock = raw.steps[i].unlock
                /\ q[i].covenant = None /\ q[i].intraTx = None /\ q[i].grouped # None
                /\ q[i].grouped.group = n /\ q[i].grouped.index = i - g.lo + 1
                /\ q[i].grouped.inputs = InputsOfRun(SubSeq(raw.steps, g.lo, g.hi))
                /\ q[i].grouped.category = category /\ q[i].grouped.inToken = g.inToken
                /\ q[i].grouped.inputTokens = None /\ q[i].grouped.outToken = g.outToken
                /\ q[i].grouped.outLock = IF g.outLock = EmptyBytes THEN None ELSE g.outLock
<1>1. /\ DOMAIN r = DOMAIN raw.steps
      /\ \A i \in DOMAIN raw.steps :
           LET g == raw.groups[raw.steps[i].group]
           IN  r[i] = [Plain(raw.steps[i]) EXCEPT !.grouped =
                 [group |-> raw.steps[i].group, index |-> i - g.lo + 1,
                  inputs |-> InputsOfRun(SubSeq(raw.steps, g.lo, g.hi)), category |-> category,
                  inToken |-> g.inToken, inputTokens |-> g.inputTokens, outToken |-> g.outToken,
                  outLock |-> IF g.outLock = EmptyBytes THEN None ELSE g.outLock]]
  BY Zenon DEF ToGrouped
<1>2. /\ DOMAIN q = DOMAIN r
      /\ \A i \in DOMAIN r : q[i] = [r[i] EXCEPT !.grouped.inputTokens = None]
  BY DEF WithoutSiblings
<1>3. \A i \in DOMAIN raw.steps :
        LET n == raw.steps[i].group
            g == raw.groups[n]
        IN  /\ r[i].lock = raw.steps[i].lock /\ r[i].unlock = raw.steps[i].unlock
            /\ r[i].covenant = None /\ r[i].intraTx = None /\ r[i].grouped # None
            /\ r[i].grouped.group = n /\ r[i].grouped.index = i - g.lo + 1
            /\ r[i].grouped.inputs = InputsOfRun(SubSeq(raw.steps, g.lo, g.hi))
            /\ r[i].grouped.category = category /\ r[i].grouped.inToken = g.inToken
            /\ r[i].grouped.inputTokens = g.inputTokens /\ r[i].grouped.outToken = g.outToken
            /\ r[i].grouped.outLock = IF g.outLock = EmptyBytes THEN None ELSE g.outLock
            /\ q[i].lock = raw.steps[i].lock /\ q[i].unlock = raw.steps[i].unlock
            /\ q[i].covenant = None /\ q[i].intraTx = None /\ q[i].grouped # None
            /\ q[i].grouped.group = n /\ q[i].grouped.index = i - g.lo + 1
            /\ q[i].grouped.inputs = InputsOfRun(SubSeq(raw.steps, g.lo, g.hi))
            /\ q[i].grouped.category = category /\ q[i].grouped.inToken = g.inToken
            /\ q[i].grouped.inputTokens = None /\ q[i].grouped.outToken = g.outToken
            /\ q[i].grouped.outLock = IF g.outLock = EmptyBytes THEN None ELSE g.outLock
  <2>1. TAKE i \in DOMAIN raw.steps
  <2> DEFINE n  == raw.steps[i].group
             g  == raw.groups[n]
             x  == i - g.lo + 1
             in == InputsOfRun(SubSeq(raw.steps, g.lo, g.hi))
             l  == IF g.outLock = EmptyBytes THEN None ELSE g.outLock
  <2>2. r[i] = [Plain(raw.steps[i]) EXCEPT !.grouped =
                 [group |-> n, index |-> x, inputs |-> in, category |-> category,
                  inToken |-> g.inToken, inputTokens |-> g.inputTokens, outToken |-> g.outToken, outLock |-> l]]
    BY <1>1, Zenon
  <2>3. q[i] = [r[i] EXCEPT !.grouped.inputTokens = None]
    BY <1>1, <1>2
  <2>4. \A a1, a2, a3, a4, a5, a6, a7, a8 :
           [group |-> a1, index |-> a2, inputs |-> a3, category |-> a4, inToken |-> a5, inputTokens |-> a6,
            outToken |-> a7, outLock |-> a8] # None
    BY DEF ContextsAreThere
  <2> HIDE DEF g, x, in, l
  <2>5. /\ r[i].lock = raw.steps[i].lock /\ r[i].unlock = raw.steps[i].unlock
        /\ r[i].covenant = None /\ r[i].intraTx = None
        /\ r[i].grouped = [group |-> n, index |-> x, inputs |-> in, category |-> category,
                           inToken |-> g.inToken, inputTokens |-> g.inputTokens, outToken |-> g.outToken,
                           outLock |-> l]
    BY <2>2 DEF Plain
  <2>6. /\ q[i].lock = raw.steps[i].lock /\ q[i].unlock = raw.steps[i].unlock
        /\ q[i].covenant = None /\ q[i].intraTx = None
        /\ q[i].grouped = [group |-> n, index |-> x, inputs |-> in, category |-> category,
                           inToken |-> g.inToken, inputTokens |-> None, outToken |-> g.outToken,
                           outLock |-> l]
    <3>1. /\ q[i].lock = r[i].lock /\ q[i].unlock = r[i].unlock
          /\ q[i].covenant = r[i].covenant /\ q[i].intraTx = r[i].intraTx
          /\ q[i].grouped = [r[i].grouped EXCEPT !.inputTokens = None]
      BY <2>2, <2>3 DEF Plain
    <3>2. QED
      BY <2>5, <3>1
  <2>7. r[i].grouped # None
    <3>1. [group |-> n, index |-> x, inputs |-> in, category |-> category, inToken |-> g.inToken,
           inputTokens |-> g.inputTokens, outToken |-> g.outToken, outLock |-> l] # None
      BY <2>4, Zenon
    <3>2. QED
      BY <2>5, <3>1, Zenon
  <2>8. q[i].grouped # None
    <3>1. [group |-> n, index |-> x, inputs |-> in, category |-> category, inToken |-> g.inToken,
           inputTokens |-> None, outToken |-> g.outToken, outLock |-> l] # None
      BY <2>4, Zenon
    <3>2. QED
      BY <2>6, <3>1, Zenon
  <2>9. /\ r[i].lock = raw.steps[i].lock /\ r[i].unlock = raw.steps[i].unlock
        /\ r[i].covenant = None /\ r[i].intraTx = None /\ r[i].grouped # None
        /\ r[i].grouped.group = n /\ r[i].grouped.index = x /\ r[i].grouped.inputs = in
        /\ r[i].grouped.category = category /\ r[i].grouped.inToken = g.inToken
        /\ r[i].grouped.inputTokens = g.inputTokens /\ r[i].grouped.outToken = g.outToken
        /\ r[i].grouped.outLock = l
        /\ q[i].lock = raw.steps[i].lock /\ q[i].unlock = raw.steps[i].unlock
        /\ q[i].covenant = None /\ q[i].intraTx = None /\ q[i].grouped # None
        /\ q[i].grouped.group = n /\ q[i].grouped.index = x /\ q[i].grouped.inputs = in
        /\ q[i].grouped.category = category /\ q[i].grouped.inToken = g.inToken
        /\ q[i].grouped.inputTokens = None /\ q[i].grouped.outToken = g.outToken
        /\ q[i].grouped.outLock = l
    BY <2>5, <2>6, <2>7, <2>8
  <2>10. QED
    BY <2>9, Zenon DEF g, x, in, l
<1>4. QED
  BY <1>1, <1>2, <1>3

LEMMA ToGroupedIsEvaluated ==
  ASSUME ContextsAreThere, NEW raw, WellGrouped(raw), NEW category
  PROVE  /\ Evaluated(ToGrouped(raw, category))
         /\ Evaluated(WithoutSiblings(ToGrouped(raw, category)))
<1> DEFINE r == ToGrouped(raw, category)
           q == WithoutSiblings(r)
<1> HIDE DEF r, q
<1>1. /\ DOMAIN r = DOMAIN raw.steps /\ DOMAIN q = DOMAIN raw.steps
      /\ \A i \in DOMAIN raw.steps :
         LET n == raw.steps[i].group
             g == raw.groups[n]
         IN  /\ r[i].lock = raw.steps[i].lock /\ r[i].unlock = raw.steps[i].unlock
             /\ r[i].covenant = None /\ r[i].intraTx = None /\ r[i].grouped # None
             /\ r[i].grouped.group = n /\ r[i].grouped.index = i - g.lo + 1
             /\ r[i].grouped.inputs = InputsOfRun(SubSeq(raw.steps, g.lo, g.hi))
             /\ r[i].grouped.category = category /\ r[i].grouped.inToken = g.inToken
             /\ r[i].grouped.inputTokens = g.inputTokens /\ r[i].grouped.outToken = g.outToken
             /\ r[i].grouped.outLock = IF g.outLock = EmptyBytes THEN None ELSE g.outLock
             /\ q[i].lock = raw.steps[i].lock /\ q[i].unlock = raw.steps[i].unlock
             /\ q[i].covenant = None /\ q[i].intraTx = None /\ q[i].grouped # None
             /\ q[i].grouped.group = n /\ q[i].grouped.index = i - g.lo + 1
             /\ q[i].grouped.inputs = InputsOfRun(SubSeq(raw.steps, g.lo, g.hi))
             /\ q[i].grouped.category = category /\ q[i].grouped.inToken = g.inToken
             /\ q[i].grouped.inputTokens = None /\ q[i].grouped.outToken = g.outToken
             /\ q[i].grouped.outLock = IF g.outLock = EmptyBytes THEN None ELSE g.outLock
  BY GroupedFields, SMTT(60) DEF r, q
<1>2. GroupedAs(r, raw)
  BY <1>1, SMTT(60) DEF GroupedAs
<1>3. GroupedAs(q, raw)
  BY <1>1, SMTT(60) DEF GroupedAs
<1>4. QED
  BY <1>2, <1>3, GroupedIsEvaluated DEF r, q

(* The contexts the entries name.                                           *)
LoadContexts == {"intraTx", "grouped", "siblings", "thread", "kinded", "successor"}

Grouping == {"grouped", "siblings"}

LEMMA RunIsEvaluated ==
  ASSUME ContextsAreThere, NEW context \in LoadContexts, NEW v, NEW raw,
         context \in Grouping => WellGrouped(raw)
  PROVE  Evaluated(ToRun(context, v, raw))
<1>1. CASE context = "intraTx"
  BY <1>1, IntraTxIsEvaluated DEF ToRun
<1>2. CASE context = "grouped"
  BY <1>2, ToGroupedIsEvaluated DEF ToRun, Grouping
<1>3. CASE context = "siblings"
  BY <1>3, ToGroupedIsEvaluated DEF ToRun, Grouping
<1>4. CASE context = "thread"
  <2>1. \A i \in DOMAIN ToThread(raw) : ToThread(raw)[i].grouped = None /\ ToThread(raw)[i].intraTx = None
    BY DEF ToThread, Plain
  <2>2. QED
    BY <1>4, <2>1, AloneIsEvaluated DEF ToRun
<1>5. CASE context = "kinded"
  <2>1. \A i \in DOMAIN ToKindedThread(raw) :
           ToKindedThread(raw)[i].grouped = None /\ ToKindedThread(raw)[i].intraTx = None
    BY DEF ToKindedThread, Plain
  <2>2. QED
    BY <1>5, <2>1, AloneIsEvaluated DEF ToRun
<1>6. CASE context = "successor"
  <2>1. \A i \in DOMAIN ToSuccessor(raw, v.selected) :
           ToSuccessor(raw, v.selected)[i].grouped = None /\ ToSuccessor(raw, v.selected)[i].intraTx = None
    BY DEF ToSuccessor, Plain
  <2>2. QED
    BY <1>6, <2>1, AloneIsEvaluated DEF ToRun
<1>7. QED
  BY <1>1, <1>2, <1>3, <1>4, <1>5, <1>6 DEF LoadContexts

(* The runs of a scenario, the ones that must be rejected included.         *)
AllRuns(t) == Runs(t) \cup Elements(Given(t.invalid, << >>)) \cup Elements(Given(t.invalidInputs, << >>))

AllEvaluated(rs) == \A k \in DOMAIN rs : Evaluated(rs[k])

EvaluatedList(rs) == rs \in Seq(Elements(rs)) /\ AllEvaluated(rs)

EvaluatedScenario(t) == \A r \in AllRuns(t) : Evaluated(r)

LEMMA RunsOfScenario ==
  ASSUME NEW t, Evaluated(t.valid), AllEvaluated(t.extras), t.worst # None => Evaluated(t.worst),
         AllEvaluated(Given(t.invalid, << >>)), AllEvaluated(Given(t.invalidInputs, << >>))
  PROVE  EvaluatedScenario(t)
<1>1. \A r \in Runs(t) : Evaluated(r)
  BY DEF Runs, Elements, AllEvaluated
<1>2. QED
  BY <1>1 DEF EvaluatedScenario, AllRuns, Elements, AllEvaluated

LEMMA NoRuns == AllEvaluated(Given(None, << >>)) /\ IsList(<< >>) /\ EvaluatedList(<< >>)
<1>1. << >> \in Seq(Elements(<< >>)) /\ DOMAIN << >> = {} /\ Len(<< >>) = 0
  OBVIOUS
<1>2. 1 .. 0 = {}
  OBVIOUS
<1>3. QED
  BY <1>1, <1>2 DEF AllEvaluated, Given, IsList, EvaluatedList

LEMMA OneRun ==
  ASSUME NEW r, Evaluated(r)
  PROVE  EvaluatedList(<< r >>)
<1>1. << r >> \in Seq({r}) /\ DOMAIN << r >> = {1} /\ << r >>[1] = r
  OBVIOUS
<1>2. Elements(<< r >>) = {r}
  BY <1>1 DEF Elements
<1>3. QED
  BY <1>1, <1>2 DEF EvaluatedList, AllEvaluated

LEMMA RunForEach ==
  ASSUME NEW xs, IsList(xs), NEW rs, rs = [k \in DOMAIN xs |-> rs[k]], \A k \in DOMAIN xs : Evaluated(rs[k])
  PROVE  EvaluatedList(rs)
<1>1. DOMAIN rs = DOMAIN xs
  OBVIOUS
<1>2. rs \in [1 .. Len(xs) -> Elements(rs)] /\ Len(xs) \in Nat
  BY <1>1 DEF IsList, Elements
<1>3. rs \in Seq(Elements(rs))
  BY <1>2, SeqDef
<1>4. QED
  BY <1>1, <1>3 DEF EvaluatedList, AllEvaluated

LEMMA JoinedRuns ==
  ASSUME NEW a, NEW b, EvaluatedList(a), EvaluatedList(b)
  PROVE  EvaluatedList(a \o b)
<1> DEFINE S == Elements(a) \cup Elements(b)
           c == a \o b
<1>1. a \in Seq(S) /\ b \in Seq(S)
  BY DEF EvaluatedList
<1>2. /\ Len(a) \in Nat /\ Len(b) \in Nat
      /\ DOMAIN a = 1 .. Len(a) /\ DOMAIN b = 1 .. Len(b)
  BY <1>1, LenProperties
<1>3. /\ c \in Seq(S) /\ Len(c) = Len(a) + Len(b)
      /\ \A k \in 1 .. Len(a) + Len(b) : c[k] = IF k <= Len(a) THEN a[k] ELSE b[k - Len(a)]
  BY <1>1, ConcatProperties
<1>4. DOMAIN c = 1 .. Len(c) /\ Len(c) \in Nat
  BY <1>3, LenProperties
<1> HIDE DEF c
<1>5. \A k \in DOMAIN c : Evaluated(c[k])
  <2>1. TAKE k \in DOMAIN c
  <2>2. CASE k <= Len(a)
    <3>1. k \in DOMAIN a /\ c[k] = a[k]
      BY <1>2, <1>3, <1>4, <2>2
    <3>2. QED
      BY <3>1 DEF EvaluatedList, AllEvaluated
  <2>3. CASE ~(k <= Len(a))
    <3>1. k - Len(a) \in DOMAIN b /\ c[k] = b[k - Len(a)]
      BY <1>2, <1>3, <1>4, <2>3
    <3>2. QED
      BY <3>1 DEF EvaluatedList, AllEvaluated
  <2>4. QED
    BY <2>2, <2>3
<1>6. c \in [1 .. Len(c) -> Elements(c)]
  <2>1. c \in [1 .. Len(c) -> S]
    BY <1>3, <1>4, LenProperties
  <2>2. QED
    BY <1>4, <2>1 DEF Elements
<1>7. c \in Seq(Elements(c))
  BY <1>4, <1>6, SeqDef
<1>8. QED
  BY <1>5, <1>7 DEF EvaluatedList, AllEvaluated, c

LEMMA OptionalIsList == ASSUME NEW x PROVE IsList(Optional(x))
<1>1. IsList(<< x >>)
  BY DEF IsList
<1>2. QED
  BY <1>1, NoRuns DEF Optional

(* A part that is read.                                                     *)
Part(load, v, part) == IF part \in load.reads THEN v[part] ELSE None

WellGroupedRuns(raws) == \A k \in DOMAIN raws : WellGrouped(raws[k])

(* The raw runs of a grouped entry say which steps their groups are.        *)
GroupsAreWhole(load, v) ==
    load.context \in Grouping =>
        /\ WellGrouped(v.valid)
        /\ \A part \in {"extras", "invalid", "invalidInputs"} :
             WellGroupedRuns(Given(Part(load, v, part), << >>))
        /\ \A part \in {"worst", "resource"} :
             Part(load, v, part) # None => WellGrouped(Part(load, v, part))
        /\ LET f == Part(load, v, "variant")
           IN  f # None => /\ WellGrouped(f.valid)
                           /\ f.worst # None => WellGrouped(f.worst)
                           /\ WellGroupedRuns(Given(f.extras, << >>))
                           /\ WellGroupedRuns(Given(f.invalid, << >>))

(* A scenario and the variant it is shown with.                             *)
EvaluatedWithVariant(t) ==
    EvaluatedScenario(t) /\ (t.variant # None => EvaluatedScenario(t.variant))

LEMMA RunsAreEvaluated ==
  ASSUME ContextsAreThere, NEW load, load.context \in LoadContexts, NEW v,
         IsList(Given(Part(load, v, "extras"), << >>)), GroupsAreWhole(load, v), RunsOf(load, v) # None
  PROVE  EvaluatedWithVariant(RunsOf(load, v))
<1> DEFINE made(raw)  == ToRun(load.context, v, raw)
           each(xs)  == [k \in DOMAIN xs |-> made(xs[k])]
           extras    == Given(Part(load, v, "extras"), << >>)
           resource  == Part(load, v, "resource")
           worst     == Part(load, v, "worst")
           f         == v.variant
           pad       == Scenario(made(f.valid), each(Given(f.extras, << >>)),
                                 IF f.worst = None THEN None ELSE made(f.worst), each(Given(f.invalid, << >>)))
           s         == [Scenario(made(v.valid), each(extras) \o each(Optional(resource)),
                                  IF worst = None THEN None ELSE made(worst),
                                  each(Given(Part(load, v, "invalid"), << >>)))
                         EXCEPT !.invalidInputs = each(Given(Part(load, v, "invalidInputs"), << >>)),
                                !.variant = IF Part(load, v, "variant") = None THEN None ELSE pad]
<1>1. RunsOf(load, v) = s
  BY DEF RunsOf, Each, Part
<1>2. ASSUME NEW raw, load.context \in Grouping => WellGrouped(raw)
      PROVE  Evaluated(made(raw))
  BY <1>2, RunIsEvaluated
<1>3. ASSUME NEW xs, load.context \in Grouping => WellGroupedRuns(xs)
      PROVE  AllEvaluated(each(xs))
  BY <1>2, <1>3 DEF AllEvaluated, WellGroupedRuns
<1> HIDE DEF made
<1>4. Evaluated(made(v.valid)) /\ (worst # None => Evaluated(made(worst)))
  BY <1>2 DEF GroupsAreWhole
<1>5. AllEvaluated(each(extras)) /\ \A k \in DOMAIN Optional(resource) : Evaluated(made(Optional(resource)[k]))
  <2>1. AllEvaluated(each(extras))
    <3>1. load.context \in Grouping => WellGroupedRuns(extras)
      BY DEF GroupsAreWhole
    <3> HIDE DEF extras
    <3>2. QED
      BY <1>3, <3>1
  <2>2. resource # None => Evaluated(made(resource))
    BY <1>2 DEF GroupsAreWhole
  <2> HIDE DEF resource
  <2>3. QED
    BY <2>1, <2>2 DEF Optional
<1>6. AllEvaluated(each(extras) \o each(Optional(resource)))
  <2>1. EvaluatedList(each(extras))
    <3>1. IsList(extras) /\ \A k \in DOMAIN extras : Evaluated(each(extras)[k])
      BY <1>5 DEF AllEvaluated
    <3> HIDE DEF extras
    <3>2. QED
      BY <3>1, RunForEach
  <2>2. EvaluatedList(each(Optional(resource)))
    <3>1. IsList(Optional(resource)) /\ \A k \in DOMAIN Optional(resource) : Evaluated(each(Optional(resource))[k])
      BY <1>5, OptionalIsList
    <3> HIDE DEF resource
    <3>2. QED
      BY <3>1, RunForEach
  <2> HIDE DEF each, extras, resource
  <2>3. QED
    BY <2>1, <2>2, JoinedRuns DEF EvaluatedList
<1>7. /\ AllEvaluated(each(Given(Part(load, v, "invalid"), << >>)))
      /\ AllEvaluated(each(Given(Part(load, v, "invalidInputs"), << >>)))
  <2>1. load.context \in Grouping => /\ WellGroupedRuns(Given(Part(load, v, "invalid"), << >>))
                                     /\ WellGroupedRuns(Given(Part(load, v, "invalidInputs"), << >>))
    BY DEF GroupsAreWhole
  <2> HIDE DEF each
  <2>2. QED
    BY <1>3, <2>1
<1>8. Part(load, v, "variant") # None => EvaluatedScenario(pad)
  <2>1. SUFFICES ASSUME Part(load, v, "variant") # None PROVE EvaluatedScenario(pad)
    OBVIOUS
  <2>2. Part(load, v, "variant") = f
    BY <2>1 DEF Part
  <2>3. load.context \in Grouping =>
           /\ WellGrouped(f.valid)
           /\ f.worst # None => WellGrouped(f.worst)
           /\ WellGroupedRuns(Given(f.extras, << >>))
           /\ WellGroupedRuns(Given(f.invalid, << >>))
    BY <2>1, <2>2 DEF GroupsAreWhole
  <2> HIDE DEF f
  <2>4. Evaluated(made(f.valid)) /\ (f.worst # None => Evaluated(made(f.worst)))
    BY <1>2, <2>3
  <2> HIDE DEF each
  <2>5. AllEvaluated(each(Given(f.extras, << >>))) /\ AllEvaluated(each(Given(f.invalid, << >>)))
    BY <1>3, <2>3
  <2>6. /\ pad.valid = made(f.valid) /\ pad.extras = each(Given(f.extras, << >>))
        /\ pad.worst = (IF f.worst = None THEN None ELSE made(f.worst))
        /\ pad.invalid = each(Given(f.invalid, << >>)) /\ pad.invalidInputs = None
    BY DEF Scenario
  <2> HIDE DEF pad
  <2>7. AllEvaluated(Given(pad.invalid, << >>)) /\ AllEvaluated(Given(pad.invalidInputs, << >>))
    BY <2>5, <2>6, NoRuns DEF Given
  <2>8. QED
    BY <2>4, <2>5, <2>6, <2>7, RunsOfScenario
<1> HIDE DEF each, pad, extras, resource, worst
<1>9. /\ s.valid = made(v.valid) /\ s.extras = each(extras) \o each(Optional(resource))
      /\ s.worst = (IF worst = None THEN None ELSE made(worst))
      /\ s.invalid = each(Given(Part(load, v, "invalid"), << >>))
      /\ s.invalidInputs = each(Given(Part(load, v, "invalidInputs"), << >>))
      /\ s.variant = IF Part(load, v, "variant") = None THEN None ELSE pad
  BY DEF Scenario
<1> HIDE DEF s
<1>10. AllEvaluated(Given(s.invalid, << >>)) /\ AllEvaluated(Given(s.invalidInputs, << >>))
  BY <1>7, <1>9, NoRuns DEF Given
<1>11. EvaluatedScenario(s)
  BY <1>4, <1>6, <1>9, <1>10, RunsOfScenario
<1>12. s.variant # None => EvaluatedScenario(s.variant)
  BY <1>8, <1>9
<1>13. QED
  BY <1>1, <1>11, <1>12 DEF EvaluatedWithVariant

LEMMA OneStepAlone ==
  ASSUME NEW s, s.grouped = None, s.intraTx = None
  PROVE  Evaluated(<< s >>)
<1>1. \A i \in DOMAIN << s >> : << s >>[i] = s
  OBVIOUS
<1>2. QED
  BY <1>1, AloneIsEvaluated

(* The steps of a chain belong to no bundle.                                *)
LEMMA ChainStepsAlone ==
  ASSUME NEW context \in {"thread", "kinded"}, NEW v, NEW raw
  PROVE  /\ DOMAIN ToRun(context, v, raw) = DOMAIN raw
         /\ \A i \in DOMAIN raw : /\ ToRun(context, v, raw)[i].grouped = None
                                  /\ ToRun(context, v, raw)[i].intraTx = None
                                  /\ LET s == ToRun(context, v, raw)[i]
                                     IN  \A u : /\ [s EXCEPT !.unlock = u].grouped = None
                                                /\ [s EXCEPT !.unlock = u].intraTx = None
<1>1. /\ DOMAIN ToRun(context, v, raw) = DOMAIN raw
      /\ \A i \in DOMAIN raw : \E c : ToRun(context, v, raw)[i] = [Plain(raw[i]) EXCEPT !.covenant = c]
  <2>1. CASE context = "thread"
    <3>1. ToRun(context, v, raw) = ToThread(raw)
      BY <2>1 DEF ToRun
    <3>2. QED
      BY <3>1, Zenon DEF ToThread
  <2>2. CASE context = "kinded"
    <3>1. ToRun(context, v, raw) = ToKindedThread(raw)
      BY <2>2 DEF ToRun
    <3>2. QED
      BY <3>1, Zenon DEF ToKindedThread
  <2>3. QED
    BY <2>1, <2>2
<1>2. \A i \in DOMAIN raw : \A c, u :
        LET s == [Plain(raw[i]) EXCEPT !.covenant = c]
        IN  /\ s.grouped = None /\ s.intraTx = None
            /\ [s EXCEPT !.unlock = u].grouped = None /\ [s EXCEPT !.unlock = u].intraTx = None
  BY DEF Plain
<1>3. QED
  <2>1. SUFFICES ASSUME NEW i \in DOMAIN raw, NEW u
        PROVE  LET s == ToRun(context, v, raw)[i]
               IN  /\ s.grouped = None /\ s.intraTx = None
                   /\ [s EXCEPT !.unlock = u].grouped = None /\ [s EXCEPT !.unlock = u].intraTx = None
    BY <1>1
  <2>2. PICK c : ToRun(context, v, raw)[i] = [Plain(raw[i]) EXCEPT !.covenant = c]
    BY <1>1
  <2>3. QED
    BY <1>2, <2>2

LEMMA ProbesAreAList == ASSUME NEW id, NEW n PROVE IsList(Probes(id, n))
<1>1. \A a, b : IsList(<< a, b >>)
  BY DEF IsList
<1>2. \A a, b, c, d : IsList(<< a, b, c, d >>)
  BY DEF IsList
<1>3. QED
  BY <1>1, <1>2 DEF Probes

LEMMA ChainIsEvaluated ==
  ASSUME ContextsAreThere, NEW id, NEW load, load.context \in {"thread", "kinded"}, NEW v,
         \A part \in {"extras", "identity", "invalidRuns"} : IsList(Given(Part(load, v, part), << >>)),
         ChainOf(id, load, v) # None
  PROVE  EvaluatedWithVariant(ChainOf(id, load, v))
<1> DEFINE made(raw)    == ToRun(load.context, v, raw)
           each(xs)    == [k \in DOMAIN xs |-> made(xs[k])]
           runs(part)  == each(Given(Part(load, v, part), << >>))
           single(part) == each(Optional(Part(load, v, part)))
           valid       == made(v.valid)
           probes      == Probes(id, Len(v.valid))
           tampered    == [k \in DOMAIN probes |-> << [valid[probes[k]] EXCEPT !.unlock = v.valid[probes[k]].invalidUnlock] >>]
           kinded      == (single("extra") \o single("worst")) \o runs("identity")
           extras      == IF load.context = "thread" THEN runs("extras") ELSE kinded
           worst       == IF Part(load, v, "worst") = None THEN None ELSE made(v.worst)
           s           == [Scenario(valid, extras, worst, tampered \o runs("invalidRuns"))
                           EXCEPT !.invalidInputs = runs("invalidInputs")]
<1>1. ChainOf(id, load, v) = s /\ \A k \in DOMAIN probes : probes[k] \in DOMAIN v.valid
  <2>1. ChainOf(id, load, v) =
           IF \E k \in DOMAIN probes : probes[k] \notin DOMAIN v.valid \/ v.valid[probes[k]].invalidUnlock = None
           THEN None ELSE s
    BY Zenon DEF ChainOf, Each, Part
  <2> HIDE DEF s
  <2>2. QED
    BY <2>1
<1>2. ASSUME NEW raw PROVE Evaluated(made(raw))
  BY RunIsEvaluated DEF LoadContexts, Grouping
<1>3. ASSUME NEW xs PROVE AllEvaluated(each(xs)) /\ (IsList(xs) => EvaluatedList(each(xs)))
  <2>1. \A k \in DOMAIN xs : Evaluated(each(xs)[k])
    BY <1>2
  <2>2. QED
    BY <2>1, RunForEach DEF AllEvaluated
<1>4. \A part \in {"extra", "worst"} : EvaluatedList(single(part))
  <2> HIDE DEF each
  <2>1. QED
    BY <1>3, OptionalIsList
<1>5. \A part \in {"extras", "identity", "invalidRuns"} : EvaluatedList(runs(part))
  <2> HIDE DEF each
  <2>1. QED
    BY <1>3
<1>6. AllEvaluated(runs("invalidInputs"))
  <2> HIDE DEF each
  <2>1. QED
    BY <1>3
<1>7. EvaluatedList(tampered)
  <2>1. \A k \in DOMAIN probes : Evaluated(tampered[k])
    <3>1. TAKE k \in DOMAIN probes
    <3>2. probes[k] \in DOMAIN v.valid
      BY <1>1
    <3> DEFINE t == [valid[probes[k]] EXCEPT !.unlock = v.valid[probes[k]].invalidUnlock]
    <3>3. t.grouped = None /\ t.intraTx = None
      BY <3>2, ChainStepsAlone
    <3>4. tampered[k] = << t >>
      OBVIOUS
    <3> HIDE DEF t, tampered
    <3>5. QED
      BY <3>3, <3>4, OneStepAlone
  <2>2. IsList(probes)
    BY ProbesAreAList
  <2> HIDE DEF probes
  <2>3. QED
    BY <2>1, <2>2, RunForEach
<1> HIDE DEF made, each, runs, single, tampered
<1>8. AllEvaluated(extras)
  BY <1>4, <1>5, JoinedRuns DEF EvaluatedList
<1>9. AllEvaluated(tampered \o runs("invalidRuns"))
  BY <1>5, <1>7, JoinedRuns DEF EvaluatedList
<1>10. Evaluated(valid) /\ (worst # None => Evaluated(worst))
  BY <1>2
<1> HIDE DEF valid, extras, worst
<1>11. /\ s.valid = valid /\ s.extras = extras /\ s.worst = worst /\ s.variant = None
       /\ s.invalid = tampered \o runs("invalidRuns") /\ s.invalidInputs = runs("invalidInputs")
  BY DEF Scenario
<1> HIDE DEF s
<1>12. AllEvaluated(Given(s.invalid, << >>)) /\ AllEvaluated(Given(s.invalidInputs, << >>))
  BY <1>6, <1>9, <1>11, NoRuns DEF Given
<1>13. EvaluatedScenario(s)
  BY <1>8, <1>10, <1>11, <1>12, RunsOfScenario
<1>14. QED
  BY <1>1, <1>11, <1>13 DEF EvaluatedWithVariant

LEMMA SingletonIsEvaluated ==
  ASSUME NEW load, NEW v,
         \A part \in {"zero", "more"} : IsList(Given(Part(load, v, part), << >>)),
         IsList(Uncommitted(Given(Part(load, v, "proofs"), << >>))),
         IsList(InvalidOf(Given(Part(load, v, "zero"), << >>))),
         SingletonOf(load, v) # None
  PROVE  EvaluatedWithVariant(SingletonOf(load, v))
<1> DEFINE with(u)    == << [Plain(v) EXCEPT !.unlock = u] >>
           at(l)      == << [Plain(v) EXCEPT !.lock = l] >>
           proofs(xs) == [k \in DOMAIN xs |-> with(xs[k].unlock)]
           each(xs)   == [k \in DOMAIN xs |-> with(xs[k])]
           zeros      == Given(Part(load, v, "zero"), << >>)
           others     == Uncommitted(Given(Part(load, v, "proofs"), << >>))
           more       == Given(Part(load, v, "more"), << >>)
           lockings   == Optional(Part(load, v, "lockingBAD"))
           bad        == [k \in DOMAIN lockings |-> at(lockings[k])]
           extras     == proofs(others) \o proofs(zeros)
           invalid    == ((<< with(v.invalidUnlock) >> \o each(InvalidOf(zeros))) \o each(more)) \o bad
           worst      == IF load.reads \cap {"worst", "mustWorst"} = {} \/ v.worst = None THEN None ELSE with(v.worst)
           s          == Scenario(<< Plain(v) >>, extras, worst, invalid)
<1>1. SingletonOf(load, v) = s
  <2>1. SingletonOf(load, v) = IF "mustWorst" \in load.reads /\ v.worst = None THEN None ELSE s
    BY Zenon DEF SingletonOf, Each, Part
  <2> HIDE DEF s
  <2>2. QED
    BY <2>1
<1>2. Evaluated(<< Plain(v) >>) /\ \A u : Evaluated(with(u)) /\ Evaluated(at(u))
  BY OneStepAlone DEF Plain
<1> HIDE DEF with, at
<1>3. ASSUME NEW xs, IsList(xs) PROVE EvaluatedList(proofs(xs)) /\ EvaluatedList(each(xs))
  <2>1. \A k \in DOMAIN xs : Evaluated(proofs(xs)[k]) /\ Evaluated(each(xs)[k])
    BY <1>2
  <2>2. EvaluatedList(proofs(xs))
    BY <1>3, <2>1, RunForEach
  <2>3. EvaluatedList(each(xs))
    BY <1>3, <2>1, RunForEach
  <2>4. QED
    BY <2>2, <2>3
<1>4. EvaluatedList(bad)
  <2>1. IsList(lockings) /\ \A k \in DOMAIN lockings : Evaluated(bad[k])
    BY <1>2, OptionalIsList
  <2> HIDE DEF lockings
  <2>2. QED
    BY <2>1, RunForEach
<1> HIDE DEF proofs, each, bad
<1>5. AllEvaluated(extras)
  BY <1>3, JoinedRuns DEF EvaluatedList
<1>6. AllEvaluated(invalid)
  <2>1. EvaluatedList(<< with(v.invalidUnlock) >>) /\ EvaluatedList(each(InvalidOf(zeros))) /\ EvaluatedList(each(more))
    BY <1>2, <1>3, OneRun
  <2>2. QED
    BY <1>4, <2>1, JoinedRuns DEF EvaluatedList
<1>7. worst # None => Evaluated(worst)
  BY <1>2
<1> HIDE DEF extras, invalid, worst
<1>8. /\ s.valid = << Plain(v) >> /\ s.extras = extras /\ s.worst = worst /\ s.variant = None
      /\ s.invalid = invalid /\ s.invalidInputs = None
  BY DEF Scenario
<1> HIDE DEF s
<1>9. AllEvaluated(Given(s.invalid, << >>)) /\ AllEvaluated(Given(s.invalidInputs, << >>))
  BY <1>6, <1>8, NoRuns DEF Given
<1>10. EvaluatedScenario(s)
  BY <1>2, <1>5, <1>7, <1>8, <1>9, RunsOfScenario
<1>11. QED
  BY <1>1, <1>8, <1>10 DEF EvaluatedWithVariant

(* A scenario without a variant.                                            *)
LEMMA PlainScenario ==
  ASSUME NEW valid, NEW extras, NEW worst, NEW invalid,
         Evaluated(valid), AllEvaluated(extras), worst # None => Evaluated(worst), AllEvaluated(invalid)
  PROVE  EvaluatedWithVariant(Scenario(valid, extras, worst, invalid))
<1> DEFINE s == Scenario(valid, extras, worst, invalid)
<1>1. /\ s.valid = valid /\ s.extras = extras /\ s.worst = worst /\ s.variant = None
      /\ s.invalid = invalid /\ s.invalidInputs = None
  BY DEF Scenario
<1> HIDE DEF s
<1>2. AllEvaluated(Given(s.invalid, << >>)) /\ AllEvaluated(Given(s.invalidInputs, << >>))
  BY <1>1, NoRuns DEF Given
<1>3. EvaluatedScenario(s)
  BY <1>1, <1>2, RunsOfScenario
<1>4. QED
  BY <1>1, <1>3 DEF EvaluatedWithVariant, s

LEMMA WrappedIsEvaluated == ASSUME NEW redeem, NEW u PROVE Evaluated(<< WrappedStep(redeem, u) >>)
  BY OneStepAlone DEF WrappedStep

LEMMA RolledIsEvaluated ==
  ASSUME NEW v, IsList(v.more), IsList(OwnInvalid(v.proofs, v.invalidUnlock))
  PROVE  EvaluatedWithVariant(RolledOf(v))
<1> DEFINE with(u) == << WrappedStep(v.lock, u) >>
           own     == OwnInvalid(v.proofs, v.invalidUnlock)
           others  == Uncommitted(v.proofs)
           extras  == [k \in DOMAIN others |-> with(others[k].unlock)]
           worst   == IF v.worst = None THEN None ELSE with(v.worst.unlock)
           more    == [k \in DOMAIN v.more |-> with(v.more[k])]
           mine    == [k \in DOMAIN own |-> with(own[k].invalid)]
           last    == IF v.worst = None \/ v.worst.invalid = None THEN << >> ELSE << with(v.worst.invalid) >>
           invalid == ((<< with(v.invalidUnlock) >> \o more) \o mine) \o last
<1>1. RolledOf(v) = Scenario(with(v.unlock), extras, worst, invalid)
  BY Zenon DEF RolledOf, Each
<1>2. \A u : Evaluated(with(u))
  BY WrappedIsEvaluated
<1> HIDE DEF with
<1>3. AllEvaluated(extras) /\ (worst # None => Evaluated(worst))
  BY <1>2 DEF AllEvaluated
<1>4. EvaluatedList(more)
  <2>1. \A k \in DOMAIN v.more : Evaluated(more[k])
    BY <1>2
  <2>2. QED
    BY <2>1, RunForEach
<1>5. EvaluatedList(mine)
  <2>1. IsList(own) /\ \A k \in DOMAIN own : Evaluated(mine[k])
    BY <1>2
  <2> HIDE DEF own
  <2>2. QED
    BY <2>1, RunForEach
<1>6. EvaluatedList(last) /\ EvaluatedList(<< with(v.invalidUnlock) >>)
  BY <1>2, OneRun, NoRuns
<1> HIDE DEF more, mine, last
<1>7. AllEvaluated(invalid)
  BY <1>4, <1>5, <1>6, JoinedRuns DEF EvaluatedList
<1> HIDE DEF extras, worst, invalid
<1>8. QED
  BY <1>1, <1>2, <1>3, <1>7, PlainScenario

LEMMA FixturesAreEvaluated ==
  ASSUME NEW wrapped \in BOOLEAN, NEW v, FixturesOf(wrapped, v) # None
  PROVE  EvaluatedWithVariant(FixturesOf(wrapped, v))
<1> DEFINE with(u) == << IF wrapped THEN WrappedStep(v.lock, u) ELSE [Plain(v) EXCEPT !.unlock = u] >>
           others  == Uncommitted(v.proofs)
           first   == with(Head(Committed(v.proofs)).unlock)
           extras  == [k \in DOMAIN others |-> with(others[k].unlock)]
           invalid == [k \in DOMAIN v.more |-> with(v.more[k])]
           s       == Scenario(first, extras, with(v.worst), invalid)
<1>1. FixturesOf(wrapped, v) = s
  <2>1. FixturesOf(wrapped, v) = IF Committed(v.proofs) = << >> THEN None ELSE s
    BY Zenon DEF FixturesOf, Each
  <2> HIDE DEF s
  <2>2. QED
    BY <2>1
<1>2. \A u : Evaluated(with(u))
  <2>1. CASE wrapped
    BY <2>1, WrappedIsEvaluated
  <2>2. CASE ~wrapped
    BY <2>2, OneStepAlone DEF Plain
  <2>3. QED
    BY <2>1, <2>2
<1> HIDE DEF with
<1>3. AllEvaluated(extras) /\ AllEvaluated(invalid)
  BY <1>2 DEF AllEvaluated
<1> HIDE DEF extras, invalid
<1>4. QED
  BY <1>1, <1>2, <1>3, PlainScenario

LEMMA Crown8IsEvaluated ==
  ASSUME ContextsAreThere, NEW v, Crown8Of(v) # None
  PROVE  EvaluatedWithVariant(Crown8Of(v))
<1> DEFINE extras  == [k \in DOMAIN v.extras |-> ToIntraTx(v.extras[k])]
           invalid == [k \in DOMAIN v.mutations |-> Mutate(v.valid, v.mutations[k])]
           s       == Scenario(ToIntraTx(v.valid), extras, ToIntraTx(v.worst), invalid)
<1>1. Crown8Of(v) = s
  <2>1. Crown8Of(v) = None \/ Crown8Of(v) = s
    BY Zenon DEF Crown8Of, Each
  <2>2. QED
    BY <2>1
<1>2. AllEvaluated(extras)
  BY IntraTxIsEvaluated DEF AllEvaluated
<1>3. AllEvaluated(invalid)
  <2>1. \A m : Evaluated(Mutate(v.valid, m))
    BY IntraTxIsEvaluated, Zenon DEF Mutate
  <2>2. QED
    BY <2>1 DEF AllEvaluated
<1>4. Evaluated(ToIntraTx(v.valid)) /\ Evaluated(ToIntraTx(v.worst))
  BY IntraTxIsEvaluated
<1> HIDE DEF extras, invalid
<1>5. QED
  BY <1>1, <1>2, <1>3, <1>4, PlainScenario

LEMMA TamperableIsEvaluated ==
  ASSUME NEW valid, Evaluated(valid), NEW invalid, AllEvaluated(Given(invalid, << >>)), NEW s,
         s = [Scenario(valid, << >>, None, invalid) EXCEPT !.tamperable = TRUE]
  PROVE  EvaluatedWithVariant(s)
<1>1. /\ s.valid = valid /\ s.extras = << >> /\ s.worst = None /\ s.variant = None
      /\ s.invalid = invalid /\ s.invalidInputs = None
  BY DEF Scenario
<1>2. AllEvaluated(Given(s.invalidInputs, << >>)) /\ AllEvaluated(s.extras)
  BY <1>1, NoRuns DEF EvaluatedList
<1>3. EvaluatedScenario(s)
  BY <1>1, <1>2, RunsOfScenario
<1>4. QED
  BY <1>1, <1>3 DEF EvaluatedWithVariant

(* A chunk is alone, whatever its unlocking.                                *)
LEMMA ChunksAreEvaluated ==
  ASSUME NEW v
  PROVE  Evaluated(Chunks(v)) /\ \A n, u : Evaluated([Chunks(v) EXCEPT ![n].unlock = u])
<1>1. \A i \in DOMAIN Chunks(v) :
        /\ Chunks(v)[i].grouped = None /\ Chunks(v)[i].intraTx = None
        /\ \A u : [Chunks(v)[i] EXCEPT !.unlock = u].grouped = None /\ [Chunks(v)[i] EXCEPT !.unlock = u].intraTx = None
  BY DEF Chunks, Plain
<1>2. ASSUME NEW n, NEW u
      PROVE  Evaluated([Chunks(v) EXCEPT ![n].unlock = u])
  <2> DEFINE c == Chunks(v)
             r == [c EXCEPT ![n].unlock = u]
  <2>1. DOMAIN r = DOMAIN c /\ \A i \in DOMAIN c : r[i] = c[i] \/ r[i] = [c[i] EXCEPT !.unlock = u]
    OBVIOUS
  <2> HIDE DEF r
  <2>2. \A i \in DOMAIN r : r[i].grouped = None /\ r[i].intraTx = None
    <3>1. TAKE i \in DOMAIN r
    <3>2. i \in DOMAIN c
      BY <2>1
    <3>3. /\ c[i].grouped = None /\ c[i].intraTx = None
          /\ [c[i] EXCEPT !.unlock = u].grouped = None /\ [c[i] EXCEPT !.unlock = u].intraTx = None
      BY <1>1, <3>2
    <3>4. CASE r[i] = c[i]
      BY <3>3, <3>4
    <3>5. CASE r[i] = [c[i] EXCEPT !.unlock = u]
      BY <3>3, <3>5
    <3>6. QED
      BY <2>1, <3>2, <3>4, <3>5
  <2>3. QED
    BY <2>2, AloneIsEvaluated DEF r
<1>3. QED
  BY <1>1, <1>2, AloneIsEvaluated

LEMMA ShamirIsEvaluated == ASSUME NEW v PROVE EvaluatedWithVariant(ShamirOf(v))
<1> DEFINE bad(i)  == [Chunks(v) EXCEPT ![i].unlock = v.valid[i].invalidUnlock]
           invalid == << bad(Len(v.valid)), bad(Middle(v)) >>
<1>1. ShamirOf(v) = [Scenario(Chunks(v), << >>, None, invalid) EXCEPT !.tamperable = TRUE]
  BY Zenon DEF ShamirOf
<1>2. \A i : Evaluated(bad(i))
  BY ChunksAreEvaluated
<1> HIDE DEF bad
<1>3. AllEvaluated(invalid)
  BY <1>2 DEF AllEvaluated
<1> HIDE DEF invalid
<1>4. AllEvaluated(Given(invalid, << >>))
  BY <1>3, NoRuns DEF Given
<1>5. QED
  BY <1>1, <1>4, ChunksAreEvaluated, TamperableIsEvaluated

LEMMA TwoloopIsEvaluated == ASSUME NEW v PROVE EvaluatedWithVariant(TwoloopOf(v))
<1> DEFINE unlock(i) == v.valid[i].unlock
           first(i)  == CHOOSE k \in Coordinates(unlock(i)) : \A j \in Coordinates(unlock(i)) : k <= j
           bad(i)    == [Chunks(v) EXCEPT ![i].unlock = [unlock(i) EXCEPT ![first(i)] = Flipped(unlock(i)[first(i)])]]
<1>1. \E at : TwoloopOf(v) = Scenario(Chunks(v), << >>, None, [k \in DOMAIN at |-> bad(at[k])])
  BY Zenon DEF TwoloopOf, Each
<1>2. \A i : Evaluated(bad(i))
  BY ChunksAreEvaluated
<1> HIDE DEF bad
<1>3. PICK at : TwoloopOf(v) = Scenario(Chunks(v), << >>, None, [k \in DOMAIN at |-> bad(at[k])])
  BY <1>1
<1> DEFINE invalid == [k \in DOMAIN at |-> bad(at[k])]
<1>4. AllEvaluated(invalid) /\ AllEvaluated(<< >>)
  BY <1>2, NoRuns DEF AllEvaluated, EvaluatedList
<1> HIDE DEF invalid
<1>5. QED
  BY <1>3, <1>4, ChunksAreEvaluated, PlainScenario DEF invalid

LEMMA OneIsEvaluated == ASSUME NEW x PROVE EvaluatedWithVariant(Tamperable(<< Plain(x) >>))
<1>1. Evaluated(<< Plain(x) >>)
  BY OneStepAlone DEF Plain
<1>2. QED
  BY <1>1, NoRuns, TamperableIsEvaluated DEF Tamperable

LEMMA DemoIsEvaluated == ASSUME NEW v PROVE EvaluatedWithVariant(DemoOf(v))
<1> DEFINE milestone(i) == CASE i = 1 -> "milestone-1" [] i = 3 -> "milestone-final" [] OTHER -> None
           r == [i \in 1 .. 3 |-> [Plain(v.valid[i]) EXCEPT !.checkpoint = milestone(i)]]
<1>1. DemoOf(v) = Tamperable(r)
  BY Zenon DEF DemoOf
<1> HIDE DEF milestone
<1>2. \A i \in DOMAIN r : r[i].grouped = None /\ r[i].intraTx = None
  BY DEF Plain
<1> HIDE DEF r
<1>3. Evaluated(r)
  BY <1>2, AloneIsEvaluated
<1>4. QED
  BY <1>1, <1>3, NoRuns, TamperableIsEvaluated DEF Tamperable

LEMMA CasesAreEvaluated ==
  ASSUME ContextsAreThere, NEW v, CasesOf(v) # None
  PROVE  EvaluatedWithVariant(CasesOf(v))
<1> DEFINE made(k) == ToIntraTx(Adapted(v, v.cases[k]))
           s      == Scenario(made(1), << made(2), made(3), made(4) >>, made(5), << >>)
<1>1. CasesOf(v) = s
  <2>1. CasesOf(v) = None \/ CasesOf(v) = s
    BY Zenon DEF CasesOf
  <2>2. QED
    BY <2>1
<1>2. \A k : Evaluated(made(k))
  BY IntraTxIsEvaluated
<1> HIDE DEF made
<1>3. AllEvaluated(<< made(2), made(3), made(4) >>)
  BY <1>2 DEF AllEvaluated
<1>4. QED
  BY <1>1, <1>2, <1>3, NoRuns, PlainScenario DEF EvaluatedList

-----------------------------------------------------------------------------
(* Every entry                                                              *)

Forms == {"runs", "chain", "singleton", "rolled", "fixtures", "fixturesP2sh", "crown8", "shamir",
          "twoloop", "one", "demo", "cases"}

(* All steps are inputs of one transaction, or there is one step.           *)
OneTransaction(load) ==
    \/ load.form \in {"singleton", "rolled", "fixtures", "fixturesP2sh", "crown8", "one", "cases"}
    \/ load.form = "runs" /\ load.context = "intraTx"

(* The form and the context of an entry are among the ones that are there,  *)
(* and the entry declares what they come to.                                *)
KnownLoad(load) ==
    /\ load.form \in Forms
    /\ load.form = "runs" => load.context \in LoadContexts
    /\ load.form = "chain" => load.context \in {"thread", "kinded"}

Known(e) == KnownLoad(e.load) /\ (e.structure = "single-tx" <=> OneTransaction(e.load))

LEMMA EntryHasLoad ==
  ASSUME NEW id, NEW structure, NEW slots, NEW proof, NEW load
  PROVE  LET e == Entry(id, structure, slots, proof, load)
         IN  e.load = load /\ e.structure = structure
  BY DEF Entry

LEMMA LoadsAreKnown ==
  /\ \A context \in LoadContexts : \A reads : KnownLoad(Listed(context, reads)) /\ KnownLoad(Required(context, reads))
  /\ \A context \in {"thread", "kinded"} : \A reads : KnownLoad(Chain(context, reads))
  /\ \A reads : KnownLoad(Singleton(reads))
  /\ \A form \in Forms \ {"runs", "chain"} : KnownLoad(Form(form)) /\ KnownLoad(Wrapped(form))
  BY DEF KnownLoad, Listed, Required, Chain, Singleton, Form, Wrapped, Loading, Forms

LEMMA LoadsOfOneTransaction ==
  /\ \A reads : OneTransaction(Listed("intraTx", reads)) /\ OneTransaction(Required("intraTx", reads))
  /\ \A context \in LoadContexts \ {"intraTx"} : \A reads :
       ~OneTransaction(Listed(context, reads)) /\ ~OneTransaction(Required(context, reads))
  /\ \A context, reads : ~OneTransaction(Chain(context, reads))
  /\ \A reads : OneTransaction(Singleton(reads))
  /\ \A form \in {"rolled", "fixtures", "fixturesP2sh", "crown8", "one", "cases"} :
       OneTransaction(Form(form)) /\ OneTransaction(Wrapped(form))
  /\ \A form \in {"shamir", "twoloop", "demo"} : ~OneTransaction(Form(form))
  BY DEF OneTransaction, Listed, Required, Chain, Singleton, Form, Wrapped, Loading

LEMMA EntriesAreKnown ==
  ASSUME NEW e \in Registry \cup Candidates
  PROVE  Known(e)
<1>1. \A x \in { Groth16Bls12381IntratxFsCompact, Groth16Bls12381IntratxFsFusedCarrierPair,
               Groth16Bls12381IntratxFsFusedCoordinatorHeadFields,
               Groth16Bls12381IntratxFsFusedCoordinatorHead,
               Groth16Bls12381IntratxFsFusedFinal, Groth16Bls12381IntratxFsFusedFirstTail,
               Groth16Bls12381IntratxFsFusedMiddlePair,
               Groth16Bls12381IntratxFsFusedRegularPairsPacked,
               Groth16Bls12381IntratxFsFusedRegularPairs,
               Groth16Bls12381IntratxFsFusedRegularTriples,
               Groth16Bls12381IntratxFsFusedRegular,
               Groth16Bls12381IntratxFsRegularInitializer, Groth16Bls12381IntratxFs,
               Groth16Bls12381ChunkedCovenantResidue } : Known(x)
  BY EntryHasLoad, LoadsAreKnown, LoadsOfOneTransaction
  DEF Known, LoadContexts, Forms, FsEntry,
      Groth16Bls12381IntratxFsCompact, Groth16Bls12381IntratxFsFusedCarrierPair,
      Groth16Bls12381IntratxFsFusedCoordinatorHeadFields,
      Groth16Bls12381IntratxFsFusedCoordinatorHead, Groth16Bls12381IntratxFsFusedFinal,
      Groth16Bls12381IntratxFsFusedFirstTail, Groth16Bls12381IntratxFsFusedMiddlePair,
      Groth16Bls12381IntratxFsFusedRegularPairsPacked,
      Groth16Bls12381IntratxFsFusedRegularPairs, Groth16Bls12381IntratxFsFusedRegularTriples,
      Groth16Bls12381IntratxFsFusedRegular, Groth16Bls12381IntratxFsRegularInitializer,
      Groth16Bls12381IntratxFs, Groth16Bls12381ChunkedCovenantResidue
<1>2. \A x \in { Groth16Bls12381ChunkedCovenant, Groth16Bls12381Chunked,
               Groth16Bls12381GroupedResidue, Groth16Bls12381Grouped, Groth16Bls12381IntratxResidueLargeCorrected,
               Groth16Bls12381IntratxResidueLarge, Groth16Bls12381IntratxResidue,
               Groth16Bls12381Intratx, Groth16Bls12381SingletonFsSpecShared,
               Groth16Bls12381SingletonFsSpecZero, Groth16Bls12381SingletonFsSpec,
               Groth16Bls12381SingletonFs, Groth16Bls12381SingletonGenpow } : Known(x)
  BY EntryHasLoad, LoadsAreKnown, LoadsOfOneTransaction
  DEF Known, LoadContexts, Forms, FsEntry,
      Groth16Bls12381ChunkedCovenant, Groth16Bls12381Chunked, Groth16Bls12381GroupedResidue,
      Groth16Bls12381Grouped,
      Groth16Bls12381IntratxResidueLargeCorrected, Groth16Bls12381IntratxResidueLarge,
      Groth16Bls12381IntratxResidue, Groth16Bls12381Intratx,
      Groth16Bls12381SingletonFsSpecShared, Groth16Bls12381SingletonFsSpecZero,
      Groth16Bls12381SingletonFsSpec, Groth16Bls12381SingletonFs,
      Groth16Bls12381SingletonGenpow
<1>3. \A x \in { Groth16Bls12381SingletonMinOpRolled, Groth16Bls12381SingletonMinOp,
               Groth16Bls12381SingletonOpcodeOptimized, Groth16Bls12381Singleton,
               Groth16Bls12381SoundNative, Groth16Bls12381SoundSiGlsDproj,
               Groth16Bls12381SoundSiGlsSingle, Groth16Bn254SoundNative,
               Groth16ChunkedCovenantResidue, Groth16ChunkedCovenant, Groth16Chunked,
               Groth16GroupedResidue, Groth16Grouped, Groth16IntratxAuthenticatedP2s } : Known(x)
  BY EntryHasLoad, LoadsAreKnown, LoadsOfOneTransaction
  DEF Known, LoadContexts, Forms, FsEntry,
      Groth16Bls12381SingletonMinOpRolled, Groth16Bls12381SingletonMinOp,
      Groth16Bls12381SingletonOpcodeOptimized, Groth16Bls12381Singleton,
      Groth16Bls12381SoundNative, Groth16Bls12381SoundSiGlsDproj,
      Groth16Bls12381SoundSiGlsSingle, Groth16Bn254SoundNative, Groth16ChunkedCovenantResidue,
      Groth16ChunkedCovenant, Groth16Chunked, Groth16GroupedResidue, Groth16Grouped,
      Groth16IntratxAuthenticatedP2s
<1>4. \A x \in { Groth16IntratxCrown8Rawchain, Groth16IntratxDirectStatePublic,
               Groth16IntratxGeneral, Groth16IntratxPairfold5DenslessMsmSlim,
               Groth16IntratxPairfold5DenslessMsmSpec, Groth16IntratxPairfold5DenslessMsm,
               Groth16IntratxPairfold5Densless, Groth16IntratxPairfold5PevalfuseDeterministic,
               Groth16IntratxPairfold5Pevalfuse, Groth16IntratxPairfold5,
               Groth16IntratxPairfold7, Groth16IntratxResidueLarge, Groth16IntratxResidue,
               Groth16Intratx } : Known(x)
  BY EntryHasLoad, LoadsAreKnown, LoadsOfOneTransaction
  DEF Known, LoadContexts, Forms, FsEntry,
      Groth16IntratxCrown8Rawchain, Groth16IntratxDirectStatePublic, Groth16IntratxGeneral,
      Groth16IntratxPairfold5DenslessMsmSlim, Groth16IntratxPairfold5DenslessMsmSpec,
      Groth16IntratxPairfold5DenslessMsm, Groth16IntratxPairfold5Densless,
      Groth16IntratxPairfold5PevalfuseDeterministic, Groth16IntratxPairfold5Pevalfuse,
      Groth16IntratxPairfold5, Groth16IntratxPairfold7, Groth16IntratxResidueLarge,
      Groth16IntratxResidue, Groth16Intratx
<1>5. \A x \in { Groth16SingletonGenpow, Groth16SingletonMinOp, Groth16SingletonOpcodeOptimized,
               Groth16SingletonRolledResidueMulc, Groth16SingletonRolledResidue,
               Groth16Singleton, Groth16SoundSiGlsDproj, Groth16SoundSiGlsSingle,
               MultistepDemo, PairingBls12381Chunked, PairingBls12381Intratx,
               PairingBls12381Singleton, PairingChunked, PairingIntratx } : Known(x)
  BY EntryHasLoad, LoadsAreKnown, LoadsOfOneTransaction
  DEF Known, LoadContexts, Forms, FsEntry,
      Groth16SingletonGenpow, Groth16SingletonMinOp, Groth16SingletonOpcodeOptimized,
      Groth16SingletonRolledResidueMulc, Groth16SingletonRolledResidue, Groth16Singleton,
      Groth16SoundSiGlsDproj, Groth16SoundSiGlsSingle, MultistepDemo, PairingBls12381Chunked,
      PairingBls12381Intratx, PairingBls12381Singleton, PairingChunked, PairingIntratx
<1>6. \A x \in { PairingSingleton, VkxBls12381ChunkedCovenant, VkxBls12381Singleton,
               VkxBls12381SuccessorCorrected, VkxChunkedCovenant, VkxChunkedShamir,
               VkxChunkedTwoloop, VkxScalarmult, VkxSingleton, Nchain, ScryptBn256 } : Known(x)
  BY EntryHasLoad, LoadsAreKnown, LoadsOfOneTransaction
  DEF Known, LoadContexts, Forms, FsEntry,
      PairingSingleton, VkxBls12381ChunkedCovenant, VkxBls12381Singleton,
      VkxBls12381SuccessorCorrected, VkxChunkedCovenant, VkxChunkedShamir, VkxChunkedTwoloop,
      VkxScalarmult, VkxSingleton, Nchain, ScryptBn256
<1>7. \A x \in BnExactFrameCorrected \cup Groth16Bn254LegacyEquationChecked : Known(x)
  BY EntryHasLoad, LoadsAreKnown, LoadsOfOneTransaction
  DEF Known, LoadContexts, Forms, BnExactFrameCorrected, Groth16Bn254LegacyEquationChecked
<1>8. QED
  BY <1>1, <1>2, <1>3, <1>4, <1>5, <1>6, <1>7 DEF Registry, Candidates

(* What the files of an entry are: the parts that are put together are      *)
(* lists, a selection from a list and the joined invalid unlockings are     *)
(* lists too, and grouped runs say which steps their groups are.            *)
WholeFiles(load, v) ==
    /\ load.form = "runs" => IsList(Given(Part(load, v, "extras"), << >>)) /\ GroupsAreWhole(load, v)
    /\ load.form = "chain" =>
         \A part \in {"extras", "identity", "invalidRuns"} : IsList(Given(Part(load, v, part), << >>))
    /\ load.form = "singleton" =>
         /\ \A part \in {"zero", "more"} : IsList(Given(Part(load, v, part), << >>))
         /\ IsList(Uncommitted(Given(Part(load, v, "proofs"), << >>)))
         /\ IsList(InvalidOf(Given(Part(load, v, "zero"), << >>)))
    /\ load.form = "rolled" => IsList(v.more) /\ IsList(OwnInvalid(v.proofs, v.invalidUnlock))
    /\ load.form \in {"rolled", "fixtures", "fixturesP2sh"} => IsList(Uncommitted(v.proofs))
    /\ load.form = "crown8" => IsList(v.extras)
    /\ load.form \in {"shamir", "twoloop"} => IsList(v.valid) /\ Len(v.valid) > 0

LEMMA LoadIsEvaluated ==
  ASSUME ContextsAreThere, NEW e \in Registry \cup Candidates, NEW v, WholeFiles(e.load, v), Load(e, v) # None
  PROVE  EvaluatedWithVariant(Load(e, v))
<1> DEFINE load == e.load
<1>1. KnownLoad(load)
  BY EntriesAreKnown DEF Known
<1>2. load.form \in Forms
  BY <1>1 DEF KnownLoad
<1>3. CASE load.form = "runs"
  <2>1. Load(e, v) = RunsOf(load, v)
    BY <1>3 DEF Load
  <2>2. QED
    BY <1>1, <1>3, <2>1, RunsAreEvaluated DEF KnownLoad, WholeFiles
<1>4. CASE load.form = "chain"
  <2>1. Load(e, v) = ChainOf(e.id, load, v)
    BY <1>4 DEF Load
  <2>2. QED
    BY <1>1, <1>4, <2>1, ChainIsEvaluated DEF KnownLoad, WholeFiles
<1>5. CASE load.form = "singleton"
  <2>1. Load(e, v) = SingletonOf(load, v)
    BY <1>5 DEF Load
  <2>2. QED
    BY <1>5, <2>1, SingletonIsEvaluated DEF WholeFiles
<1>6. CASE load.form = "rolled"
  <2>1. Load(e, v) = RolledOf(v)
    BY <1>6 DEF Load
  <2>2. QED
    BY <1>6, <2>1, RolledIsEvaluated DEF WholeFiles
<1>7. CASE load.form = "fixtures"
  <2>1. Load(e, v) = FixturesOf(FALSE, v)
    BY <1>7 DEF Load
  <2>2. QED
    BY <2>1, FixturesAreEvaluated
<1>8. CASE load.form = "fixturesP2sh"
  <2>1. Load(e, v) = FixturesOf(TRUE, v)
    BY <1>8 DEF Load
  <2>2. QED
    BY <2>1, FixturesAreEvaluated
<1>9. CASE load.form = "crown8"
  <2>1. Load(e, v) = Crown8Of(v)
    BY <1>9 DEF Load
  <2>2. QED
    BY <2>1, Crown8IsEvaluated
<1>10. CASE load.form = "shamir"
  BY <1>10, ShamirIsEvaluated DEF Load
<1>11. CASE load.form = "twoloop"
  BY <1>11, TwoloopIsEvaluated DEF Load
<1>12. CASE load.form = "one"
  BY <1>12, OneIsEvaluated DEF Load
<1>13. CASE load.form = "demo"
  BY <1>13, DemoIsEvaluated DEF Load
<1>14. CASE load.form = "cases"
  <2>1. Load(e, v) = CasesOf(v)
    BY <1>14 DEF Load
  <2>2. QED
    BY <2>1, CasesAreEvaluated
<1>15. QED
  BY <1>2, <1>3, <1>4, <1>5, <1>6, <1>7, <1>8, <1>9, <1>10, <1>11, <1>12, <1>13, <1>14 DEF Forms

(* The files are what the entry expects.                                    *)
TypedFiles ==
    entry # None => entry.impl \in Registry \cup Candidates /\ WholeFiles(entry.impl.load, entry.files)

(* The scenario is the one the loader has made, as long as it is there.     *)
LoadedIsLoad ==
    Loaded => case.scenario = Load(entry.impl, entry.files) /\ case.scenario # None

(* What a loader makes is evaluated.                                        *)
LEMMA LoadedRunsAreEvaluated ==
  ASSUME ContextsAreThere, LoadedIsLoad, TypedFiles
  PROVE  EveryLoadedRunIsEvaluated
<1>1. SUFFICES ASSUME Loaded
      PROVE EveryLoadedRunIsEvaluated
  BY DEF EveryLoadedRunIsEvaluated
<1>2. case.scenario = Load(entry.impl, entry.files) /\ Load(entry.impl, entry.files) # None
  BY <1>1 DEF LoadedIsLoad
<1>3. /\ ContextsAreThere /\ entry.impl \in Registry \cup Candidates
      /\ WholeFiles(entry.impl.load, entry.files)
  BY <1>1 DEF TypedFiles, Loaded
<1>4. EvaluatedWithVariant(case.scenario)
  BY <1>2, <1>3, LoadIsEvaluated
<1>5. /\ \A r \in AllRuns(case.scenario) : Evaluated(r)
      /\ case.scenario.variant # None => \A r \in AllRuns(case.scenario.variant) : Evaluated(r)
  BY <1>4 DEF EvaluatedWithVariant, EvaluatedScenario
<1>6. QED
  BY <1>5 DEF EveryLoadedRunIsEvaluated, AllRuns, Evaluated

-----------------------------------------------------------------------------
(* What the honest runs of a loader are made of                             *)

(* The raw runs that become the honest runs of a scenario; an entry of one  *)
(* step or of chunks has none.                                              *)
HonestRaws(load, v) ==
    CASE load.form = "runs" ->
           {v.valid} \cup Elements(Given(Part(load, v, "extras"), << >>))
                     \cup ({Part(load, v, "worst"), Part(load, v, "resource")} \ {None})
      [] load.form = "chain" ->
           {v.valid} \cup Elements(Given(Part(load, v, "extras"), << >>))
                     \cup Elements(Given(Part(load, v, "identity"), << >>))
                     \cup ({Part(load, v, "worst"), Part(load, v, "extra")} \ {None})
      [] load.form = "crown8" -> {v.valid, v.worst} \cup Elements(v.extras)
      [] load.form = "cases" -> {Adapted(v, v.cases[k]) : k \in 1 .. Len(v.cases)}
      [] OTHER -> {}

WovenAs(load) == IF load.form \in {"crown8", "cases"} THEN "intraTx" ELSE load.context

(* Steps that stand alone, and single steps of one locking.                 *)
BareSteps(r) == \A i \in DOMAIN r : \A k \in ContextKinds : r[i][k] = None

StepFields == {"lock", "unlock", "checkpoint"} \cup ContextKinds

LoneSteps(r) == BareSteps(r) /\ \A i \in DOMAIN r : DOMAIN r[i] = StepFields

SingleOf(lock, r) == Len(r) = 1 /\ DOMAIN r = {1} /\ r[1].lock = lock

(* The forms of the runs whose steps are woven into transactions.           *)
WovenForms == {"runs", "chain", "crown8", "cases"}

(* The run r of the scenario s is woven from a raw run as the valid run is, *)
(* or both are steps that stand alone.                                      *)
MadeAlike(load, v, s, r) ==
    IF load.form \in WovenForms
    THEN \E raw, first \in HonestRaws(load, v) :
            s.valid = ToRun(WovenAs(load), v, first) /\ r = ToRun(WovenAs(load), v, raw)
    ELSE /\ LoneSteps(s.valid) /\ LoneSteps(r)
         /\ r = s.valid \/ \E lock : SingleOf(lock, s.valid) /\ SingleOf(lock, r)

-----------------------------------------------------------------------------
(* Threads                                                                  *)

HandedOn(c, d) == d.category = c.category /\ d.inCommitment = c.outCommitment

(* Each group hands its token to the first input of the next.               *)
GroupsFollow(raw, siblings) ==
    \A i \in DOMAIN raw.steps :
        LET g == raw.groups[raw.steps[i].group]
            h == raw.groups[raw.steps[i + 1].group]
        IN  i + 1 \in DOMAIN raw.steps /\ raw.steps[i + 1].group # raw.steps[i].group =>
              /\ g.outToken # None /\ h.inToken = g.outToken
              /\ g.outLock = raw.steps[i + 1].lock /\ g.outLock \notin {None, EmptyBytes}
              /\ siblings /\ h.inputTokens # None => h.inputTokens[1] = None

(* The step after a covenant is one, with the same rights.                  *)
ThreadFollows(raw) ==
    \A i \in DOMAIN raw :
        LET c == raw[i].covenant
            d == raw[i + 1].covenant
        IN  i + 1 \in DOMAIN raw /\ c # None =>
              d # None /\ HandedOn(c, d) /\ d.capability = c.capability /\ c.outLock = raw[i + 1].lock

(* Rights are lost at the last step only.                                   *)
KindedFollows(raw) ==
    \A i \in DOMAIN raw :
        LET c == raw[i].covenant
            d == raw[i + 1].covenant
        IN  i + 1 \in DOMAIN raw =>
              /\ HandedOn(c, d) /\ c.outLock = raw[i + 1].lock
              /\ raw[i + 1].kind # "genesis"
              /\ c.capability = IF raw[i + 1].kind = "terminal" THEN "mutable" ELSE d.capability

(* There is a locking for every step.                                       *)
SuccessorsFollow(raw, lockings) ==
    \A i \in DOMAIN raw :
        LET c == raw[i].covenant
            d == raw[i + 1].covenant
        IN  i + 1 \in DOMAIN raw =>
              HandedOn(c, d) /\ d.capability = c.capability /\ i + 1 \in DOMAIN lockings

(* In the raw run each transaction hands a token to the next: the fields of *)
(* the vector files agree.                                                  *)
Following(context, v, raw) ==
    IF context \in Grouping THEN GroupsFollow(raw, context = "siblings")
    ELSE /\ IsList(raw)
         /\ context = "thread" => ThreadFollows(raw)
         /\ context = "kinded" => KindedFollows(raw)
         /\ context = "successor" => SuccessorsFollow(raw, v.selected)

(* A covenant is not an absent field, and neither is a right.               *)
CovenantsAreThere == None \notin Capability /\ \A c, i, b, l : Carried(c, i, b, l) # None

ThreadFiles ==
    entry # None => \A raw \in HonestRaws(entry.impl.load, entry.files) :
                       Following(WovenAs(entry.impl.load), entry.files, raw)

(* A sequence, of whatever its elements are.                                *)
OwnList(a) == a \in Seq(Elements(a))

LEMMA JoinedIsEither ==
  ASSUME NEW a, NEW b, OwnList(a), OwnList(b)
  PROVE  /\ OwnList(a \o b)
         /\ Elements(a \o b) = Elements(a) \cup Elements(b)
<1> DEFINE S == Elements(a) \cup Elements(b)
           c == a \o b
<1>1. a \in Seq(S) /\ b \in Seq(S)
  BY DEF OwnList
<1>2. /\ Len(a) \in Nat /\ Len(b) \in Nat
      /\ DOMAIN a = 1 .. Len(a) /\ DOMAIN b = 1 .. Len(b)
  BY <1>1, LenProperties
<1>3. /\ c \in Seq(S) /\ Len(c) = Len(a) + Len(b)
      /\ \A k \in 1 .. Len(a) + Len(b) : c[k] = IF k <= Len(a) THEN a[k] ELSE b[k - Len(a)]
  BY <1>1, ConcatProperties
<1>4. DOMAIN c = 1 .. Len(c) /\ Len(c) \in Nat
  BY <1>3, LenProperties
<1> HIDE DEF c
<1>5. \A k \in DOMAIN a : k \in DOMAIN c /\ c[k] = a[k]
  BY <1>2, <1>3, <1>4
<1>6. \A k \in DOMAIN b : k + Len(a) \in DOMAIN c /\ c[k + Len(a)] = b[k]
  <2>1. TAKE k \in DOMAIN b
  <2>2. k + Len(a) \in 1 .. Len(a) + Len(b) /\ ~(k + Len(a) <= Len(a)) /\ (k + Len(a)) - Len(a) = k
    BY <1>2
  <2>3. QED
    BY <1>3, <1>4, <2>2
<1>7. Elements(c) = S
  <2>1. \A k \in DOMAIN c : c[k] \in S
    BY <1>2, <1>3, <1>4 DEF Elements
  <2>2. \A k \in DOMAIN a : \E j \in DOMAIN c : c[j] = a[k]
    BY <1>5
  <2>3. \A k \in DOMAIN b : \E j \in DOMAIN c : c[j] = b[k]
    BY <1>6
  <2>4. QED
    BY <2>1, <2>2, <2>3 DEF Elements
<1>8. QED
  BY <1>3, <1>7 DEF OwnList, c

LEMMA EachIsList ==
  ASSUME NEW xs, IsList(xs), NEW rs, rs = [k \in DOMAIN xs |-> rs[k]]
  PROVE  OwnList(rs) /\ Elements(rs) = {rs[k] : k \in DOMAIN xs}
<1>1. DOMAIN rs = DOMAIN xs
  OBVIOUS
<1>2. rs \in [1 .. Len(xs) -> Elements(rs)] /\ Len(xs) \in Nat
  BY <1>1 DEF IsList, Elements
<1>3. rs \in Seq(Elements(rs))
  BY <1>2, SeqDef
<1>4. QED
  BY <1>1, <1>3 DEF OwnList, Elements

LEMMA OptionalElement ==
  ASSUME NEW x
  PROVE  \A k \in DOMAIN Optional(x) : Optional(x)[k] = x /\ x # None
BY DEF Optional

(* Complete runs under their names.                                         *)
LEMMA RunsAreMadeAlike ==
  ASSUME NEW load, load.form = "runs", NEW v, IsList(Given(Part(load, v, "extras"), << >>)),
         NEW s, s = RunsOf(load, v), s # None, NEW r \in Runs(s)
  PROVE  MadeAlike(load, v, s, r) /\ OwnList(s.extras)
<1> DEFINE made(raw) == ToRun(load.context, v, raw)
           extras    == Given(Part(load, v, "extras"), << >>)
           resource  == Optional(Part(load, v, "resource"))
           worst     == Part(load, v, "worst")
           first     == [k \in DOMAIN extras |-> made(extras[k])]
           second    == [k \in DOMAIN resource |-> made(resource[k])]
<1>1. /\ s.valid = made(v.valid) /\ s.extras = first \o second
      /\ s.worst = IF worst = None THEN None ELSE made(worst)
  <2>1. \E i, t : s = [Scenario(made(v.valid), first \o second, IF worst = None THEN None ELSE made(worst), i)
                        EXCEPT !.invalidInputs = t[1], !.variant = t[2]]
    <3> DEFINE invalid == [k \in DOMAIN Given(Part(load, v, "invalid"), << >>) |->
                              made(Given(Part(load, v, "invalid"), << >>)[k])]
               inputs  == [k \in DOMAIN Given(Part(load, v, "invalidInputs"), << >>) |->
                              made(Given(Part(load, v, "invalidInputs"), << >>)[k])]
               f       == v.variant
               each(xs) == [k \in DOMAIN xs |-> made(xs[k])]
               pad     == Scenario(made(f.valid), each(Given(f.extras, << >>)),
                                   IF f.worst = None THEN None ELSE made(f.worst), each(Given(f.invalid, << >>)))
               variant == IF Part(load, v, "variant") = None THEN None ELSE pad
               t       == << inputs, variant >>
    <3>1. s = [Scenario(made(v.valid), first \o second, IF worst = None THEN None ELSE made(worst), invalid)
                        EXCEPT !.invalidInputs = inputs, !.variant = variant]
      BY DEF RunsOf, Each, Part
    <3>2. t[1] = inputs /\ t[2] = variant
      OBVIOUS
    <3> HIDE DEF made, first, second, inputs, variant, t, invalid
    <3>3. QED
      BY <3>1, <3>2
  <2> HIDE DEF made, first, second, worst
  <2>2. QED
    BY <2>1 DEF Scenario
<1>2. /\ OwnList(first) /\ Elements(first) = {made(extras[k]) : k \in DOMAIN extras}
      /\ OwnList(second) /\ Elements(second) = {made(resource[k]) : k \in DOMAIN resource}
  <2>1. IsList(extras) /\ IsList(resource)
    BY OptionalIsList
  <2> HIDE DEF extras, resource, made
  <2>2. QED
    BY <2>1, EachIsList
<1>3. HonestRaws(load, v) =
        {v.valid} \cup Elements(extras) \cup ({worst, Part(load, v, "resource")} \ {None})
  BY DEF HonestRaws
<1>4. \A k \in DOMAIN resource : resource[k] = Part(load, v, "resource") /\ Part(load, v, "resource") # None
  BY OptionalElement
<1>5. WovenAs(load) = load.context
  BY DEF WovenAs
<1> HIDE DEF first, second, extras, resource, worst
<1>6. \E raw \in HonestRaws(load, v) : r = made(raw)
  <2>1. CASE r = s.valid
    BY <1>1, <1>3, <2>1
  <2>2. CASE r \in Elements(s.extras)
    <3>1. r \in Elements(first) \cup Elements(second)
      BY <1>1, <1>2, <2>2, JoinedIsEither
    <3>2. CASE r \in Elements(first)
      <4>1. PICK k \in DOMAIN extras : r = made(extras[k])
        BY <1>2, <3>2
      <4>2. extras[k] \in HonestRaws(load, v)
        BY <1>3 DEF Elements
      <4>3. QED
        BY <4>1, <4>2
    <3>3. CASE r \in Elements(second)
      BY <1>2, <1>3, <1>4, <3>3
    <3>4. QED
      BY <3>1, <3>2, <3>3
  <2>3. CASE s.worst # None /\ r = s.worst
    BY <1>1, <1>3, <2>3
  <2>4. QED
    BY <2>1, <2>2, <2>3 DEF Runs
<1>7. v.valid \in HonestRaws(load, v)
  BY <1>3
<1>8. OwnList(s.extras)
  BY <1>1, <1>2, JoinedIsEither
<1>9. QED
  BY <1>1, <1>5, <1>6, <1>7, <1>8 DEF MadeAlike, WovenForms

(* One transaction a step.                                                  *)
LEMMA ChainIsMadeAlike ==
  ASSUME NEW id, NEW load, load.form = "chain", load.context \in {"thread", "kinded"}, NEW v,
         \A part \in {"extras", "identity"} : IsList(Given(Part(load, v, part), << >>)),
         NEW s, s = ChainOf(id, load, v), s # None, NEW r \in Runs(s)
  PROVE  MadeAlike(load, v, s, r) /\ OwnList(s.extras)
<1> DEFINE made(raw)   == ToRun(load.context, v, raw)
           each(xs)     == [k \in DOMAIN xs |-> made(xs[k])]
           runs(part)   == each(Given(Part(load, v, part), << >>))
           single(part) == each(Optional(Part(load, v, part)))
           kinded       == (single("extra") \o single("worst")) \o runs("identity")
           extras       == IF load.context = "thread" THEN runs("extras") ELSE kinded
           worst        == IF Part(load, v, "worst") = None THEN None ELSE made(v.worst)
           raws         == HonestRaws(load, v)
<1>1. s.valid = made(v.valid) /\ s.extras = extras /\ s.worst = worst
  <2>1. \E i, t : s = [Scenario(made(v.valid), extras, worst, i) EXCEPT !.invalidInputs = t]
    <3> DEFINE probes   == Probes(id, Len(v.valid))
               tampered == [k \in DOMAIN probes |->
                              << [made(v.valid)[probes[k]] EXCEPT !.unlock = v.valid[probes[k]].invalidUnlock] >>]
               t        == [Scenario(made(v.valid), extras, worst, tampered \o runs("invalidRuns"))
                             EXCEPT !.invalidInputs = runs("invalidInputs")]
    <3>1. ChainOf(id, load, v) =
            IF \E k \in DOMAIN probes : probes[k] \notin DOMAIN v.valid \/ v.valid[probes[k]].invalidUnlock = None
            THEN None ELSE t
      BY Zenon DEF ChainOf, Each, Part
    <3>2. s = t
      <4> HIDE DEF t, probes
      <4>1. QED
        BY <3>1
    <3>3. QED
      BY <3>2, Zenon
  <2> HIDE DEF made, extras, worst
  <2>2. QED
    BY <2>1 DEF Scenario
<1>2. raws = {v.valid} \cup Elements(Given(Part(load, v, "extras"), << >>))
               \cup Elements(Given(Part(load, v, "identity"), << >>))
               \cup ({Part(load, v, "worst"), Part(load, v, "extra")} \ {None})
  BY DEF HonestRaws
<1>3. \A part \in {"extras", "identity"} :
         OwnList(runs(part)) /\ \A q \in Elements(runs(part)) : \E raw \in raws : q = made(raw)
  <2>1. TAKE part \in {"extras", "identity"}
  <2> DEFINE xs == Given(Part(load, v, part), << >>)
  <2>2. IsList(xs) /\ Elements(xs) \subseteq raws
    BY <1>2
  <2> HIDE DEF made, xs, raws
  <2>3. OwnList(each(xs)) /\ Elements(each(xs)) = {each(xs)[k] : k \in DOMAIN xs}
    BY <2>2, EachIsList
  <2>4. QED
    BY <2>2, <2>3, Zenon DEF xs, Elements
<1>4. \A part \in {"extra", "worst"} :
         OwnList(single(part)) /\ \A q \in Elements(single(part)) : \E raw \in raws : q = made(raw)
  <2>1. TAKE part \in {"extra", "worst"}
  <2> DEFINE x  == Part(load, v, part)
             xs == Optional(x)
  <2>2. x # None => x \in raws
    BY <1>2
  <2> HIDE DEF made, x, raws
  <2>3. IsList(xs) /\ \A k \in DOMAIN xs : xs[k] \in raws
    BY <2>2, OptionalIsList, OptionalElement
  <2> HIDE DEF xs
  <2>4. OwnList(each(xs)) /\ Elements(each(xs)) = {each(xs)[k] : k \in DOMAIN xs}
    BY <2>3, EachIsList
  <2>5. QED
    BY <2>3, <2>4, Zenon DEF xs, x
<1>5. v.valid \in raws
  BY <1>2
<1>6. Part(load, v, "worst") # None => v.worst \in raws
  BY <1>2 DEF Part
<1>7. WovenAs(load) = load.context
  BY DEF WovenAs
<1> HIDE DEF made, runs, single, raws
<1>8. OwnList(extras) /\ \A q \in Elements(extras) : \E raw \in raws : q = made(raw)
  <2>1. CASE load.context = "thread"
    BY <1>3, <2>1
  <2>2. CASE load.context # "thread"
    <3> DEFINE a == single("extra") \o single("worst")
    <3>1. OwnList(a) /\ Elements(a) = Elements(single("extra")) \cup Elements(single("worst"))
      BY <1>4, JoinedIsEither
    <3> HIDE DEF a
    <3>2. /\ OwnList(a \o runs("identity"))
          /\ Elements(a \o runs("identity")) = Elements(a) \cup Elements(runs("identity"))
      BY <1>3, <3>1, JoinedIsEither
    <3>3. extras = a \o runs("identity")
      BY <2>2 DEF a
    <3> HIDE DEF extras
    <3>4. QED
      BY <1>3, <1>4, <3>1, <3>2, <3>3
  <2>3. QED
    BY <2>1, <2>2
<1> HIDE DEF extras
<1>9. \E raw \in raws : r = made(raw)
  BY <1>1, <1>5, <1>6, <1>8 DEF Runs
<1>10. QED
  BY <1>1, <1>5, <1>7, <1>8, <1>9 DEF MadeAlike, WovenForms, made, raws

(* The mutated bundles share their lockings.                                *)
LEMMA Crown8IsMadeAlike ==
  ASSUME NEW load, load.form = "crown8", NEW v, IsList(v.extras),
         NEW s, s = Crown8Of(v), s # None, NEW r \in Runs(s)
  PROVE  MadeAlike(load, v, s, r) /\ OwnList(s.extras)
<1> DEFINE extras  == [k \in DOMAIN v.extras |-> ToIntraTx(v.extras[k])]
           invalid == [k \in DOMAIN v.mutations |-> Mutate(v.valid, v.mutations[k])]
<1>1. s = Scenario(ToIntraTx(v.valid), extras, ToIntraTx(v.worst), invalid)
  <2>1. Crown8Of(v) = None \/ Crown8Of(v) = Scenario(ToIntraTx(v.valid), extras, ToIntraTx(v.worst), invalid)
    BY Zenon DEF Crown8Of, Each
  <2>2. QED
    BY <2>1
<1>2. HonestRaws(load, v) = {v.valid, v.worst} \cup Elements(v.extras)
  BY DEF HonestRaws
<1>3. \A raw : ToRun(WovenAs(load), v, raw) = ToIntraTx(raw)
  BY DEF WovenAs, ToRun
<1>4. \A q \in Elements(extras) : \E raw \in HonestRaws(load, v) : q = ToIntraTx(raw)
  BY <1>2 DEF Elements
<1>9. OwnList(extras)
  BY EachIsList
<1> HIDE DEF extras, invalid
<1>5. s.valid = ToIntraTx(v.valid) /\ s.extras = extras /\ s.worst = ToIntraTx(v.worst)
  BY <1>1 DEF Scenario
<1>6. \E raw \in HonestRaws(load, v) : r = ToIntraTx(raw)
  BY <1>2, <1>4, <1>5 DEF Runs
<1>7. v.valid \in HonestRaws(load, v)
  BY <1>2
<1>8. QED
  BY <1>3, <1>5, <1>6, <1>7, <1>9, Zenon DEF MadeAlike, WovenForms

(* Five archived cases.                                                     *)
LEMMA CasesAreMadeAlike ==
  ASSUME NEW load, load.form = "cases", NEW v,
         NEW s, s = CasesOf(v), s # None, NEW r \in Runs(s)
  PROVE  MadeAlike(load, v, s, r) /\ OwnList(s.extras)
<1> DEFINE raw(k)  == Adapted(v, v.cases[k])
           made(k) == ToIntraTx(raw(k))
<1>1. Len(v.cases) = 5 /\ s = Scenario(made(1), << made(2), made(3), made(4) >>, made(5), << >>)
  <2> DEFINE other == \E k \in DOMAIN v.cases : \E i \in DOMAIN v.cases[k] :
                         \/ v.cases[k][i].lock # v.originals[i]
                         \/ Last(v.cases[k][i].unlock) # PushOf(v.originalPrograms[i])
             t     == Scenario(made(1), << made(2), made(3), made(4) >>, made(5), << >>)
  <2>1. CasesOf(v) = IF Len(v.cases) # 5 \/ other THEN None ELSE t
    BY Zenon DEF CasesOf
  <2> HIDE DEF other, t
  <2>2. QED
    BY <2>1 DEF t
<1>2. HonestRaws(load, v) = {raw(k) : k \in 1 .. 5}
  BY <1>1 DEF HonestRaws
<1>3. \A x : ToRun(WovenAs(load), v, x) = ToIntraTx(x)
  BY DEF WovenAs, ToRun
<1>4. \A k \in 1 .. 5 : raw(k) \in HonestRaws(load, v) /\ made(k) = ToIntraTx(raw(k))
  BY <1>2
<1> HIDE DEF raw, made
<1>5. s.valid = made(1) /\ s.extras = << made(2), made(3), made(4) >> /\ s.worst = made(5)
  BY <1>1 DEF Scenario
<1>6. \A q \in Elements(s.extras) : q \in {made(2), made(3), made(4)}
  BY <1>5 DEF Elements
<1>7. r \in {made(k) : k \in 1 .. 5}
  BY <1>5, <1>6 DEF Runs
<1>8. PICK k \in 1 .. 5 : r = made(k)
  BY <1>7
<1>9. /\ raw(k) \in HonestRaws(load, v) /\ r = ToRun(WovenAs(load), v, raw(k))
      /\ raw(1) \in HonestRaws(load, v) /\ s.valid = ToRun(WovenAs(load), v, raw(1))
  BY <1>3, <1>4, <1>5, <1>8
<1>10. OwnList(s.extras)
  BY <1>5 DEF OwnList, Elements
<1>11. QED
  BY <1>9, <1>10, Zenon DEF MadeAlike, WovenForms

LEMMA OneBareStep ==
  ASSUME NEW t, DOMAIN t = StepFields, t.covenant = None, t.intraTx = None, t.grouped = None,
         NEW lock, t.lock = lock
  PROVE  LoneSteps(<< t >>) /\ SingleOf(lock, << t >>)
<1>1. \A k \in ContextKinds : t[k] = None
  BY DEF ContextKinds
<1>2. Len(<< t >>) = 1 /\ DOMAIN << t >> = {1} /\ << t >>[1] = t
  OBVIOUS
<1>3. QED
  BY <1>1, <1>2 DEF LoneSteps, BareSteps, SingleOf

(* All runs are one step of one locking.                                    *)
LEMMA SinglesAreMadeAlike ==
  ASSUME NEW load, load.form \notin WovenForms, NEW v, NEW s, NEW lock,
         \A r \in Runs(s) : LoneSteps(r) /\ SingleOf(lock, r), NEW r \in Runs(s)
  PROVE  MadeAlike(load, v, s, r)
BY DEF MadeAlike, Runs

LEMMA SingletonIsMadeAlike ==
  ASSUME NEW load, load.form \notin WovenForms, NEW v, NEW s, s = SingletonOf(load, v), s # None,
         IsList(Given(Part(load, v, "zero"), << >>)),
         IsList(Uncommitted(Given(Part(load, v, "proofs"), << >>)))
  PROVE  OwnList(s.extras) /\ \A r \in Runs(s) : MadeAlike(load, v, s, r) /\ SingleOf(v.lock, r)
<1> DEFINE with(u)    == << [Plain(v) EXCEPT !.unlock = u] >>
           at(l)      == << [Plain(v) EXCEPT !.lock = l] >>
           proofs(xs) == [k \in DOMAIN xs |-> with(xs[k].unlock)]
           each(xs)   == [k \in DOMAIN xs |-> with(xs[k])]
           zeros      == Given(Part(load, v, "zero"), << >>)
           others     == Uncommitted(Given(Part(load, v, "proofs"), << >>))
           more       == Given(Part(load, v, "more"), << >>)
           lockings   == Optional(Part(load, v, "lockingBAD"))
           bad        == [k \in DOMAIN lockings |-> at(lockings[k])]
           extras     == proofs(others) \o proofs(zeros)
           invalid    == ((<< with(v.invalidUnlock) >> \o each(InvalidOf(zeros))) \o each(more)) \o bad
           worst      == IF load.reads \cap {"worst", "mustWorst"} = {} \/ v.worst = None THEN None ELSE with(v.worst)
           t          == Scenario(<< Plain(v) >>, extras, worst, invalid)
           single(r)  == LoneSteps(r) /\ SingleOf(v.lock, r)
<1>1. s = t
  <2>1. SingletonOf(load, v) = IF "mustWorst" \in load.reads /\ v.worst = None THEN None ELSE t
    BY Zenon DEF SingletonOf, Each, Part
  <2> HIDE DEF t
  <2>2. QED
    BY <2>1
<1>2. s.valid = << Plain(v) >> /\ s.extras = extras /\ s.worst = worst
  <2> HIDE DEF extras, worst, invalid
  <2>1. QED
    BY <1>1 DEF Scenario
<1>3. single(<< Plain(v) >>) /\ \A u : single(with(u))
  BY OneBareStep DEF Plain, StepFields, ContextKinds
<1> HIDE DEF with, single
<1>4. OwnList(proofs(others)) /\ \A q \in Elements(proofs(others)) : single(q)
  <2>1. IsList(others)
    OBVIOUS
  <2> HIDE DEF others
  <2>2. OwnList(proofs(others)) /\ Elements(proofs(others)) = {proofs(others)[k] : k \in DOMAIN others}
    BY <2>1, EachIsList
  <2>3. QED
    BY <1>3, <2>2
<1>5. OwnList(proofs(zeros)) /\ \A q \in Elements(proofs(zeros)) : single(q)
  <2>1. IsList(zeros)
    OBVIOUS
  <2> HIDE DEF zeros
  <2>2. OwnList(proofs(zeros)) /\ Elements(proofs(zeros)) = {proofs(zeros)[k] : k \in DOMAIN zeros}
    BY <2>1, EachIsList
  <2>3. QED
    BY <1>3, <2>2
<1> HIDE DEF proofs
<1>6. OwnList(extras) /\ \A q \in Elements(extras) : single(q)
  BY <1>4, <1>5, JoinedIsEither
<1> HIDE DEF extras
<1>7. \A r \in Runs(s) : single(r)
  BY <1>2, <1>3, <1>6 DEF Runs
<1>8. QED
  BY <1>2, <1>6, <1>7, SinglesAreMadeAlike DEF single

LEMMA RolledIsMadeAlike ==
  ASSUME NEW load, load.form \notin WovenForms, NEW v, NEW s, s = RolledOf(v),
         IsList(Uncommitted(v.proofs))
  PROVE  OwnList(s.extras) /\ \A r \in Runs(s) : MadeAlike(load, v, s, r) /\ SingleOf(P2sh32(v.lock), r)
<1> DEFINE with(u) == << WrappedStep(v.lock, u) >>
           own     == OwnInvalid(v.proofs, v.invalidUnlock)
           others  == Uncommitted(v.proofs)
           extras  == [k \in DOMAIN others |-> with(others[k].unlock)]
           worst   == IF v.worst = None THEN None ELSE with(v.worst.unlock)
           more    == [k \in DOMAIN v.more |-> with(v.more[k])]
           mine    == [k \in DOMAIN own |-> with(own[k].invalid)]
           last    == IF v.worst = None \/ v.worst.invalid = None THEN << >> ELSE << with(v.worst.invalid) >>
           invalid == ((<< with(v.invalidUnlock) >> \o more) \o mine) \o last
           single(r) == LoneSteps(r) /\ SingleOf(P2sh32(v.lock), r)
<1>1. s = Scenario(with(v.unlock), extras, worst, invalid)
  BY Zenon DEF RolledOf, Each
<1>2. \A u : single(with(u))
  BY OneBareStep DEF WrappedStep, StepFields, ContextKinds
<1> HIDE DEF with, invalid, single
<1>3. s.valid = with(v.unlock) /\ s.extras = extras /\ s.worst = worst
  BY <1>1 DEF Scenario
<1>4. \A q \in Elements(extras) : single(q)
  BY <1>2 DEF Elements
<1>7. OwnList(extras)
  BY EachIsList
<1> HIDE DEF extras
<1>5. \A r \in Runs(s) : single(r)
  BY <1>2, <1>3, <1>4 DEF Runs
<1>6. QED
  BY <1>3, <1>5, <1>7, SinglesAreMadeAlike DEF single

LEMMA FixturesAreMadeAlike ==
  ASSUME NEW load, load.form \notin WovenForms, NEW v, NEW wrapped \in BOOLEAN,
         IsList(Uncommitted(v.proofs)), NEW s, s = FixturesOf(wrapped, v), s # None
  PROVE  OwnList(s.extras) /\ \E lock : \A r \in Runs(s) : MadeAlike(load, v, s, r) /\ SingleOf(lock, r)
<1> DEFINE with(u) == << IF wrapped THEN WrappedStep(v.lock, u) ELSE [Plain(v) EXCEPT !.unlock = u] >>
           others  == Uncommitted(v.proofs)
           first   == with(Head(Committed(v.proofs)).unlock)
           extras  == [k \in DOMAIN others |-> with(others[k].unlock)]
           invalid == [k \in DOMAIN v.more |-> with(v.more[k])]
           t       == Scenario(first, extras, with(v.worst), invalid)
           lock    == IF wrapped THEN P2sh32(v.lock) ELSE v.lock
           single(r) == LoneSteps(r) /\ SingleOf(lock, r)
<1>1. s = t
  <2>1. FixturesOf(wrapped, v) = IF Committed(v.proofs) = << >> THEN None ELSE t
    BY Zenon DEF FixturesOf, Each
  <2> HIDE DEF t
  <2>2. QED
    BY <2>1
<1>2. \A u : single(with(u))
  <2>1. CASE wrapped
    BY <2>1, OneBareStep DEF WrappedStep, StepFields, ContextKinds
  <2>2. CASE ~wrapped
    BY <2>2, OneBareStep DEF Plain, StepFields, ContextKinds
  <2>3. QED
    BY <2>1, <2>2
<1> HIDE DEF with, invalid, single
<1>3. s.valid = first /\ s.extras = extras /\ s.worst = with(v.worst)
  BY <1>1 DEF Scenario
<1>4. \A q \in Elements(extras) : single(q)
  BY <1>2 DEF Elements
<1>7. OwnList(extras)
  BY EachIsList
<1> HIDE DEF extras
<1>5. \A r \in Runs(s) : single(r)
  BY <1>2, <1>3, <1>4 DEF Runs
<1> HIDE DEF lock
<1>6. QED
  BY <1>3, <1>5, <1>7, SinglesAreMadeAlike DEF single

(* Without other proofs there is one honest run.                            *)
LEMMA SoleRunIsMadeAlike ==
  ASSUME NEW load, load.form \notin WovenForms, NEW v, NEW s, NEW valid, LoneSteps(valid),
         s.valid = valid, s.extras = << >>, s.worst = None
  PROVE  OwnList(s.extras) /\ \A r \in Runs(s) : r = s.valid /\ MadeAlike(load, v, s, r)
<1>1. Runs(s) = {s.valid}
  BY DEF Runs, Elements
<1>2. OwnList(s.extras)
  BY DEF OwnList, Elements
<1>3. QED
  BY <1>1, <1>2 DEF MadeAlike, WovenForms

LEMMA ChunksAreBare == ASSUME NEW v PROVE LoneSteps(Chunks(v))
  BY DEF Chunks, Plain, LoneSteps, BareSteps, StepFields, ContextKinds

LEMMA SoleRuns ==
  ASSUME NEW v
  PROVE  /\ LET s == ShamirOf(v)
            IN  s.valid = Chunks(v) /\ s.extras = << >> /\ s.worst = None
         /\ LET s == TwoloopOf(v)
            IN  s.valid = Chunks(v) /\ s.extras = << >> /\ s.worst = None
         /\ \A q : LET s == Tamperable(q)
                   IN  s.valid = q /\ s.extras = << >> /\ s.worst = None
         /\ \E q : DemoOf(v) = Tamperable(q) /\ LoneSteps(q) /\ Len(q) = 3 /\ IsList(q)
         /\ \A x : LoneSteps(<< Plain(x) >>)
<1>1. \E i : ShamirOf(v) = [Scenario(Chunks(v), << >>, None, i) EXCEPT !.tamperable = TRUE]
  BY Zenon DEF ShamirOf
<1>2. \E i : TwoloopOf(v) = Scenario(Chunks(v), << >>, None, i)
  BY Zenon DEF TwoloopOf
<1>3. \E q : DemoOf(v) = Tamperable(q) /\ LoneSteps(q) /\ Len(q) = 3 /\ IsList(q)
  <2> DEFINE milestone(i) == CASE i = 1 -> "milestone-1" [] i = 3 -> "milestone-final" [] OTHER -> None
             q == [i \in 1 .. 3 |-> [Plain(v.valid[i]) EXCEPT !.checkpoint = milestone(i)]]
  <2>1. DemoOf(v) = Tamperable(q)
    BY Zenon DEF DemoOf
  <2> HIDE DEF milestone
  <2>2. LoneSteps(q)
    BY DEF Plain, LoneSteps, BareSteps, StepFields, ContextKinds
  <2>3. IsList(q) /\ Len(q) = 3
    <3>1. q \in [1 .. 3 -> {q[i] : i \in 1 .. 3}]
      OBVIOUS
    <3> HIDE DEF q
    <3>2. QED
      BY <3>1, FunctionIsList
  <2> HIDE DEF q
  <2>4. QED
    BY <2>1, <2>2, <2>3
<1>4. \A x : LoneSteps(<< Plain(x) >>)
  BY OneBareStep DEF Plain, StepFields, ContextKinds
<1>5. \A q : LET s == Tamperable(q)
             IN  s.valid = q /\ s.extras = << >> /\ s.worst = None
  BY DEF Tamperable, Scenario
<1>6. \A q, i : LET s == [Scenario(q, << >>, None, i) EXCEPT !.tamperable = TRUE]
                IN  s.valid = q /\ s.extras = << >> /\ s.worst = None
  BY DEF Scenario
<1>7. \A q, i : LET s == Scenario(q, << >>, None, i)
                IN  s.valid = q /\ s.extras = << >> /\ s.worst = None
  BY DEF Scenario
<1>8. LET s == ShamirOf(v)
      IN  s.valid = Chunks(v) /\ s.extras = << >> /\ s.worst = None
  BY <1>1, <1>6
<1>9. LET s == TwoloopOf(v)
      IN  s.valid = Chunks(v) /\ s.extras = << >> /\ s.worst = None
  BY <1>2, <1>7
<1>10. QED
  BY <1>3, <1>4, <1>5, <1>8, <1>9

(* Each step that is in a transaction with others, or hands a token on, is  *)
(* followed by one that spends what its transaction pays to.                *)
Continues(r) ==
    \A i \in DOMAIN r :
        LET next == 1 + Max(Mates(r, i))
        IN  next \in DOMAIN r /\ Contexts(r[i]) # {} =>
              LET out == Transaction(r[i]).outputs[1]
                  in  == Transaction(r[next]).inputs[1]
              IN  in.token = out.token /\ in.lock = out.lock

LEMMA BareStepsContinue ==
  ASSUME NEW r, BareSteps(r)
  PROVE  Continues(r)
<1>1. \A i \in DOMAIN r : Contexts(r[i]) = {}
  BY DEF BareSteps, Contexts
<1>2. QED
  BY <1>1 DEF Continues

(* One transaction is the whole run.                                        *)
LEMMA IntraTxContinues ==
  ASSUME ContextsAreThere, NEW raw, IsList(raw)
  PROVE  Continues(ToIntraTx(raw))
<1> DEFINE r == ToIntraTx(raw)
<1>1. /\ DOMAIN r = DOMAIN raw
      /\ \A i \in DOMAIN raw : /\ r[i].grouped = None
                               /\ r[i].intraTx = [index |-> i, inputs |-> InputsOfRun(raw)]
  BY DEF ToIntraTx, Plain
<1> HIDE DEF r
<1>2. \A i \in DOMAIN raw : r[i].intraTx # None
  <2>1. \A x, y : [index |-> x, inputs |-> y] # None
    BY DEF ContextsAreThere
  <2>2. QED
    BY <1>1, <2>1, Zenon
<1>3. \A i \in DOMAIN r : Mates(r, i) = 1 .. Len(raw) /\ Len(raw) \in Nat /\ i \in 1 .. Len(raw)
  BY <1>1, <1>2 DEF Mates, IsList
<1>4. \A i \in DOMAIN r : Max(Mates(r, i)) = Len(raw)
  <2>1. TAKE i \in DOMAIN r
  <2> DEFINE S == 1 .. Len(raw)
  <2>2. S \subseteq Int /\ S # {} /\ IsFiniteSet(S) /\ Len(raw) \in S
    <3>1. IsFiniteSet(S)
      BY <1>3, FS_Interval
    <3>2. QED
      BY <1>3, <3>1
  <2>3. Max(S) \in S /\ Len(raw) <= Max(S)
    BY <2>2, MaxIsGreatest
  <2>4. Max(S) = Len(raw)
    BY <1>3, <2>3
  <2>5. QED
    BY <1>3, <2>4
<1>5. \A i \in DOMAIN r : 1 + Max(Mates(r, i)) \notin DOMAIN r
  BY <1>1, <1>3, <1>4 DEF IsList
<1>6. Continues(r)
  BY <1>5 DEF Continues
<1>7. QED
  BY <1>6 DEF r

(* Transactions of one step that carry a token on.                          *)
LEMMA CovenantsContinue ==
  ASSUME NEW r, IsList(r),
         \A i \in DOMAIN r : r[i].grouped = None /\ r[i].intraTx = None,
         \A i \in DOMAIN r :
           LET c == r[i].covenant
               d == r[i + 1].covenant
           IN  i + 1 \in DOMAIN r /\ c # None =>
                 /\ d # None /\ HandedOn(c, d) /\ c.outLock = r[i + 1].lock
                 /\ Given(d.inputCapability, d.capability) = c.capability
  PROVE  Continues(r)
<1>1. SUFFICES ASSUME NEW i \in DOMAIN r, 1 + Max(Mates(r, i)) \in DOMAIN r, Contexts(r[i]) # {}
      PROVE  LET out == Transaction(r[i]).outputs[1]
                 in  == Transaction(r[1 + Max(Mates(r, i))]).inputs[1]
             IN  in.token = out.token /\ in.lock = out.lock
  BY DEF Continues
<1> DEFINE c == r[i].covenant
           d == r[i + 1].covenant
<1>2. Max(Mates(r, i)) = i /\ i \in Nat
  <2>1. Mates(r, i) = {i} /\ i \in Int /\ i \in Nat
    BY <1>1 DEF Mates, IsList
  <2>2. Max({i}) \in {i}
    BY <2>1, MaxIsGreatest, FS_Singleton
  <2>3. QED
    BY <2>1, <2>2
<1>3. i + 1 \in DOMAIN r /\ 1 + Max(Mates(r, i)) = i + 1
  BY <1>1, <1>2
<1>4. c # None
  BY <1>1 DEF Contexts, ContextKinds
<1>5. /\ d # None /\ d.category = c.category /\ d.inCommitment = c.outCommitment
      /\ c.outLock = r[i + 1].lock /\ Given(d.inputCapability, d.capability) = c.capability
  BY <1>3, <1>4 DEF HandedOn
<1>6. Program(r[i]) = CovenantProgram(r[i]) /\ Program(r[i + 1]) = CovenantProgram(r[i + 1])
  BY <1>3, <1>4, <1>5 DEF Program
<1>7. Transaction(r[i]).outputs[1] = OutputOf(c.outLock, Token(c.category, c.capability, c.outCommitment))
  BY <1>6 DEF Transaction, CovenantProgram
<1>8. Transaction(r[i + 1]).inputs[1] =
        InputOf(r[i + 1], Token(d.category, Given(d.inputCapability, d.capability), d.inCommitment))
  BY <1>6 DEF Transaction, CovenantProgram
<1> HIDE DEF c, d
<1>9. QED
  BY <1>3, <1>5, <1>7, <1>8 DEF OutputOf, InputOf

(* Groups, each a transaction, that carry a token on.                       *)
LEMMA GroupsContinue ==
  ASSUME NEW raw, WellGrouped(raw), NEW r, GroupedAs(r, raw), NEW category,
         \A i \in DOMAIN r :
           LET g == raw.groups[raw.steps[i].group]
           IN  /\ r[i].grouped.category = category
               /\ r[i].grouped.inToken = g.inToken /\ r[i].grouped.outToken = g.outToken
               /\ r[i].grouped.outLock = IF g.outLock = EmptyBytes THEN None ELSE g.outLock,
         \A i \in DOMAIN r :
           LET g == raw.groups[raw.steps[i].group]
               h == raw.groups[raw.steps[i + 1].group]
           IN  i + 1 \in DOMAIN r /\ raw.steps[i + 1].group # raw.steps[i].group =>
                 /\ g.outToken # None /\ h.inToken = g.outToken
                 /\ g.outLock = raw.steps[i + 1].lock /\ g.outLock \notin {None, EmptyBytes}
                 /\ r[i + 1].grouped.inputTokens # None => r[i + 1].grouped.inputTokens[1] = None
  PROVE  Continues(r)
<1>1. SUFFICES ASSUME NEW i \in DOMAIN r, 1 + Max(Mates(r, i)) \in DOMAIN r
      PROVE  LET out == Transaction(r[i]).outputs[1]
                 in  == Transaction(r[1 + Max(Mates(r, i))]).inputs[1]
             IN  in.token = out.token /\ in.lock = out.lock
  BY DEF Continues
<1> DEFINE n   == raw.steps[i].group
           lo  == raw.groups[n].lo
           hi  == raw.groups[n].hi
           m   == raw.steps[hi + 1].group
           lo2 == raw.groups[m].lo
           hi2 == raw.groups[m].hi
           in2 == InputsOfRun(SubSeq(raw.steps, lo2, hi2))
           a   == r[i].grouped
           b   == r[hi + 1].grouped
<1>2. IsPiece(raw, r, i, lo, hi, InputsOfRun(SubSeq(raw.steps, lo, hi)))
  BY <1>1, GroupIsAPiece
<1>3. DOMAIN r = 1 .. Len(raw.steps) /\ DOMAIN raw.steps = DOMAIN r /\ Len(raw.steps) \in Nat
  BY DEF GroupedAs, WellGrouped, IsList
<1>4. /\ lo \in Int /\ hi \in Int /\ hi \in lo .. hi /\ hi \in DOMAIN r
      /\ Max(Mates(r, i)) = hi
  <2> HIDE DEF lo, hi
  <2>1. lo \in Int /\ hi \in Int /\ hi \in lo .. hi /\ hi \in DOMAIN r /\ Mates(r, i) = lo .. hi
    BY <1>2, <1>3 DEF IsPiece
  <2> DEFINE S == lo .. hi
  <2>2. S \subseteq Int /\ S # {} /\ hi \in S
    <3>1. hi \in S
      BY <2>1
    <3>2. S \subseteq Int
      OBVIOUS
    <3>3. QED
      BY <3>1, <3>2
  <2>3. IsFiniteSet(S)
    BY <2>1, FS_Interval
  <2>4. Max(S) \in S /\ hi <= Max(S)
    BY <2>2, <2>3, MaxIsGreatest
  <2>5. Max(S) = hi
    BY <2>1, <2>4
  <2>6. QED
    BY <2>1, <2>5
<1>5. hi + 1 \in DOMAIN r /\ 1 + Max(Mates(r, i)) = hi + 1
  <2> HIDE DEF lo, hi
  <2>1. QED
    BY <1>1, <1>4
<1>6. IsPiece(raw, r, hi + 1, lo2, hi2, in2)
  BY <1>5, GroupIsAPiece
<1>7. raw.steps[hi].group = n /\ m # n
  <2> HIDE DEF lo, hi, m
  <2>1. hi + 1 \notin lo .. hi
    BY <1>4
  <2>2. raw.steps[hi].group = n /\ raw.steps[hi + 1].group # n
    BY <1>2, <1>4, <1>5, <2>1 DEF IsPiece
  <2>3. QED
    BY <2>2 DEF m
<1>8. lo2 = hi + 1
  <2> HIDE DEF lo, hi, lo2, hi2, in2
  <2>1. raw.steps[hi].group # raw.steps[hi + 1].group
    BY <1>7
  <2>2. lo2 \in DOMAIN r /\ hi2 \in DOMAIN r /\ hi + 1 \in lo2 .. hi2 /\ hi \notin lo2 .. hi2
    BY <1>4, <1>6, <2>1 DEF IsPiece
  <2>3. lo2 \in Int /\ hi2 \in Int
    BY <1>3, <2>2
  <2>4. QED
    BY <1>4, <2>2, <2>3
<1>9. in2[1].lock = raw.steps[hi + 1].lock /\ 1 \in DOMAIN in2
  <2> HIDE DEF lo, hi, lo2, hi2, in2, m
  <2>1. hi2 \in DOMAIN r /\ hi + 1 \in lo2 .. hi2 /\ DOMAIN in2 = 1 .. (hi2 - lo2 + 1)
        /\ \A k \in DOMAIN in2 : in2[k].lock = raw.steps[lo2 + k - 1].lock
    BY <1>6 DEF IsPiece
  <2>2. 1 \in DOMAIN in2 /\ lo2 + 1 - 1 = hi + 1
    BY <1>3, <1>4, <1>8, <2>1
  <2>3. QED
    BY <2>1, <2>2
<1>10. /\ a # None /\ b # None /\ b.inputs = in2
       /\ a.category = category /\ b.category = category
       /\ a.outToken = raw.groups[n].outToken
       /\ a.outLock = IF raw.groups[n].outLock = EmptyBytes THEN None ELSE raw.groups[n].outLock
       /\ b.inToken = raw.groups[m].inToken
  <2> HIDE DEF hi
  <2>1. a # None /\ b # None /\ b.inputs = in2
    BY <1>1, <1>5 DEF GroupedAs
  <2>2. QED
    BY <1>1, <1>5, <2>1
<1>11. /\ raw.groups[n].outToken # None /\ raw.groups[m].inToken = raw.groups[n].outToken
       /\ raw.groups[n].outLock = raw.steps[hi + 1].lock /\ raw.groups[n].outLock \notin {None, EmptyBytes}
       /\ b.inputTokens # None => b.inputTokens[1] = None
  <2> HIDE DEF hi, n
  <2>1. QED
    BY <1>4, <1>5, <1>7
<1>12. Program(r[i]) = GroupedProgram(a) /\ Program(r[hi + 1]) = GroupedProgram(b)
  BY <1>10 DEF Program
<1> HIDE DEF n, lo, hi, m, lo2, hi2, in2, a, b
<1>13. SpentToken(b, 1) = b.inToken
  BY <1>11 DEF SpentToken, Given
<1>14. Transaction(r[hi + 1]).inputs[1] = InputOf(in2[1], GroupToken(b, b.inToken))
  BY <1>9, <1>10, <1>12, <1>13, SMTT(60) DEF Transaction, GroupedProgram
<1>15. Transaction(r[i]).outputs[1] = OutputOf(a.outLock, GroupToken(a, a.outToken))
  BY <1>10, <1>11, <1>12, SMTT(60) DEF Transaction, GroupedProgram, Given
<1>16. GroupToken(b, b.inToken) = GroupToken(a, a.outToken)
  BY <1>10, <1>11 DEF GroupToken
<1>17. a.outLock = in2[1].lock
  BY <1>9, <1>10, <1>11
<1>18. QED
  BY <1>5, <1>14, <1>15, <1>16, <1>17 DEF InputOf, OutputOf

LEMMA RunContinues ==
  ASSUME ContextsAreThere, CovenantsAreThere, NEW context \in LoadContexts, NEW v, NEW raw,
         context \in Grouping => WellGrouped(raw), Following(context, v, raw)
  PROVE  Continues(ToRun(context, v, raw))
<1>1. CASE context = "intraTx"
  BY <1>1, IntraTxContinues DEF ToRun, Following, Grouping
<1>2. CASE context \in Grouping
  <2> DEFINE r == ToGrouped(raw, v.category)
             q == WithoutSiblings(r)
             s == ToRun(context, v, raw)
             category == v.category
  <2>0. \A i \in DOMAIN raw.steps :
           LET g == raw.groups[raw.steps[i].group]
               h == raw.groups[raw.steps[i + 1].group]
           IN  i + 1 \in DOMAIN raw.steps /\ raw.steps[i + 1].group # raw.steps[i].group =>
                 /\ g.outToken # None /\ h.inToken = g.outToken
                 /\ g.outLock = raw.steps[i + 1].lock /\ g.outLock \notin {None, EmptyBytes}
                 /\ context = "siblings" /\ h.inputTokens # None => h.inputTokens[1] = None
    <3>1. GroupsFollow(raw, context = "siblings")
      BY <1>2 DEF Following
    <3>2. QED
      BY <3>1, Zenon DEF GroupsFollow
  <2>1. (context = "siblings" /\ s = r) \/ (context = "grouped" /\ s = q)
    BY <1>2 DEF Grouping, ToRun
  <2> HIDE DEF r, q, s, category
  <2>2. /\ DOMAIN r = DOMAIN raw.steps /\ DOMAIN q = DOMAIN raw.steps
        /\ \A i \in DOMAIN raw.steps :
           LET n == raw.steps[i].group
               g == raw.groups[n]
           IN  /\ r[i].lock = raw.steps[i].lock /\ r[i].unlock = raw.steps[i].unlock
               /\ r[i].covenant = None /\ r[i].intraTx = None /\ r[i].grouped # None
               /\ r[i].grouped.group = n /\ r[i].grouped.index = i - g.lo + 1
               /\ r[i].grouped.inputs = InputsOfRun(SubSeq(raw.steps, g.lo, g.hi))
               /\ r[i].grouped.category = category /\ r[i].grouped.inToken = g.inToken
               /\ r[i].grouped.inputTokens = g.inputTokens /\ r[i].grouped.outToken = g.outToken
               /\ r[i].grouped.outLock = IF g.outLock = EmptyBytes THEN None ELSE g.outLock
               /\ q[i].lock = raw.steps[i].lock /\ q[i].unlock = raw.steps[i].unlock
               /\ q[i].covenant = None /\ q[i].intraTx = None /\ q[i].grouped # None
               /\ q[i].grouped.group = n /\ q[i].grouped.index = i - g.lo + 1
               /\ q[i].grouped.inputs = InputsOfRun(SubSeq(raw.steps, g.lo, g.hi))
               /\ q[i].grouped.category = category /\ q[i].grouped.inToken = g.inToken
               /\ q[i].grouped.inputTokens = None /\ q[i].grouped.outToken = g.outToken
               /\ q[i].grouped.outLock = IF g.outLock = EmptyBytes THEN None ELSE g.outLock
    BY GroupedFields, SMTT(60) DEF r, q, category
  <2>3. GroupedAs(s, raw)
    BY <2>1, <2>2, SMTT(60) DEF GroupedAs
  <2>4. \A i \in DOMAIN s :
           LET g == raw.groups[raw.steps[i].group]
           IN  /\ s[i].grouped.category = category
               /\ s[i].grouped.inToken = g.inToken /\ s[i].grouped.outToken = g.outToken
               /\ s[i].grouped.outLock = IF g.outLock = EmptyBytes THEN None ELSE g.outLock
    BY <2>1, <2>2, SMTT(60)
  <2>5. \A i \in DOMAIN s :
           LET g == raw.groups[raw.steps[i].group]
               h == raw.groups[raw.steps[i + 1].group]
           IN  i + 1 \in DOMAIN s /\ raw.steps[i + 1].group # raw.steps[i].group =>
                 /\ g.outToken # None /\ h.inToken = g.outToken
                 /\ g.outLock = raw.steps[i + 1].lock /\ g.outLock \notin {None, EmptyBytes}
                 /\ s[i + 1].grouped.inputTokens # None => s[i + 1].grouped.inputTokens[1] = None
    <3>1. SUFFICES ASSUME NEW i \in DOMAIN s, i + 1 \in DOMAIN s, raw.steps[i + 1].group # raw.steps[i].group
          PROVE  LET g == raw.groups[raw.steps[i].group]
                     h == raw.groups[raw.steps[i + 1].group]
                 IN  /\ g.outToken # None /\ h.inToken = g.outToken
                     /\ g.outLock = raw.steps[i + 1].lock /\ g.outLock \notin {None, EmptyBytes}
                     /\ s[i + 1].grouped.inputTokens # None => s[i + 1].grouped.inputTokens[1] = None
      BY Zenon
    <3> DEFINE g == raw.groups[raw.steps[i].group]
               h == raw.groups[raw.steps[i + 1].group]
    <3>2. i + 1 \in DOMAIN s /\ raw.steps[i + 1].group # raw.steps[i].group
      BY <3>1
    <3>3. DOMAIN s = DOMAIN raw.steps
      BY <2>1, <2>2
    <3>4. /\ g.outToken # None /\ h.inToken = g.outToken
          /\ g.outLock = raw.steps[i + 1].lock /\ g.outLock \notin {None, EmptyBytes}
          /\ context = "siblings" /\ h.inputTokens # None => h.inputTokens[1] = None
      BY <2>0, <3>1, <3>2, <3>3
    <3>5. context = "siblings" => s[i + 1].grouped.inputTokens = h.inputTokens
      BY <2>1, <2>2, <3>2, <3>3, SMTT(60)
    <3>6. context # "siblings" => s[i + 1].grouped.inputTokens = None
      BY <2>1, <2>2, <3>2, <3>3
    <3> HIDE DEF g, h
    <3>7. s[i + 1].grouped.inputTokens # None => s[i + 1].grouped.inputTokens[1] = None
      BY <3>4, <3>5, <3>6
    <3>8. QED
      BY <3>4, <3>7 DEF g, h
  <2>6. WellGrouped(raw)
    BY <1>2
  <2>7. Continues(s)
    BY <2>3, <2>4, <2>5, <2>6, GroupsContinue, SMTT(30)
  <2>8. QED
    BY <2>7 DEF s
<1>3. CASE context = "thread"
  <2> DEFINE r == ToThread(raw)
  <2>1. IsList(raw) /\ \A i \in DOMAIN raw : i + 1 \in DOMAIN raw /\ raw[i].covenant # None =>
           /\ raw[i + 1].covenant # None /\ HandedOn(raw[i].covenant, raw[i + 1].covenant)
           /\ raw[i + 1].covenant.capability = raw[i].covenant.capability
           /\ raw[i].covenant.outLock = raw[i + 1].lock
    BY <1>3 DEF Following, Grouping, ThreadFollows
  <2>2. /\ DOMAIN r = DOMAIN raw
        /\ \A i \in DOMAIN raw :
             /\ r[i].grouped = None /\ r[i].intraTx = None /\ r[i].lock = raw[i].lock
             /\ r[i].covenant = IF raw[i].covenant = None THEN None
                                ELSE Carried(raw[i].covenant, None, FALSE, raw[i].covenant.outLock)
    BY DEF ToThread, Plain
  <2>3. IsList(r)
    BY <2>1, RunFromSteps DEF ToThread, ToKindedThread, ToSuccessor
  <2> HIDE DEF r
  <2>4. \A i \in DOMAIN r :
           LET c == r[i].covenant
               d == r[i + 1].covenant
           IN  i + 1 \in DOMAIN r /\ c # None =>
                 /\ d # None /\ HandedOn(c, d) /\ c.outLock = r[i + 1].lock
                 /\ Given(d.inputCapability, d.capability) = c.capability
    <3>1. SUFFICES ASSUME NEW i \in DOMAIN raw, i + 1 \in DOMAIN raw, r[i].covenant # None
          PROVE  LET c == r[i].covenant
                     d == r[i + 1].covenant
                 IN  /\ d # None /\ HandedOn(c, d) /\ c.outLock = r[i + 1].lock
                     /\ Given(d.inputCapability, d.capability) = c.capability
      BY <2>2
    <3> DEFINE c == raw[i].covenant
               d == raw[i + 1].covenant
    <3>2. c # None /\ r[i].covenant = Carried(c, None, FALSE, c.outLock)
      BY <2>2, <3>1
    <3>3. d # None /\ HandedOn(c, d) /\ d.capability = c.capability /\ c.outLock = raw[i + 1].lock
      BY <2>1, <3>1, <3>2
    <3>4. r[i + 1].covenant = Carried(d, None, FALSE, d.outLock) /\ r[i + 1].lock = raw[i + 1].lock
      BY <2>2, <3>1, <3>3
    <3> HIDE DEF c, d
    <3>5. QED
      BY <3>2, <3>3, <3>4 DEF CovenantsAreThere, Carried, HandedOn, Given
  <2>5. Continues(r)
    BY <2>2, <2>3, <2>4, CovenantsContinue
  <2>6. QED
    BY <1>3, <2>5 DEF ToRun, r
<1>4. CASE context = "kinded"
  <2> DEFINE r    == ToKindedThread(raw)
             made(i) == Carried(raw[i].covenant, SpentCapability(raw[i]), raw[i].kind = "genesis", raw[i].covenant.outLock)
  <2>1. IsList(raw) /\ \A i \in DOMAIN raw : i + 1 \in DOMAIN raw =>
           /\ HandedOn(raw[i].covenant, raw[i + 1].covenant)
           /\ raw[i].covenant.outLock = raw[i + 1].lock /\ raw[i + 1].kind # "genesis"
           /\ raw[i].covenant.capability =
                IF raw[i + 1].kind = "terminal" THEN "mutable" ELSE raw[i + 1].covenant.capability
    BY <1>4 DEF Following, Grouping, KindedFollows
  <2>2. /\ DOMAIN r = DOMAIN raw
        /\ \A i \in DOMAIN raw :
             r[i].grouped = None /\ r[i].intraTx = None /\ r[i].lock = raw[i].lock /\ r[i].covenant = made(i)
    BY DEF ToKindedThread, Plain
  <2>3. IsList(r)
    BY <2>1, RunFromSteps DEF ToThread, ToKindedThread, ToSuccessor
  <2> HIDE DEF r
  <2>4. \A i \in DOMAIN r :
           LET c == r[i].covenant
               d == r[i + 1].covenant
           IN  i + 1 \in DOMAIN r /\ c # None =>
                 /\ d # None /\ HandedOn(c, d) /\ c.outLock = r[i + 1].lock
                 /\ Given(d.inputCapability, d.capability) = c.capability
    <3>1. SUFFICES ASSUME NEW i \in DOMAIN raw, i + 1 \in DOMAIN raw
          PROVE  LET c == r[i].covenant
                     d == r[i + 1].covenant
                 IN  /\ d # None /\ HandedOn(c, d) /\ c.outLock = r[i + 1].lock
                     /\ Given(d.inputCapability, d.capability) = c.capability
      BY <2>2
    <3> DEFINE c == raw[i].covenant
               d == raw[i + 1].covenant
               t == raw[i + 1].kind
    <3>2. /\ HandedOn(c, d) /\ c.outLock = raw[i + 1].lock /\ t # "genesis"
          /\ c.capability = IF t = "terminal" THEN "mutable" ELSE d.capability
      BY <2>1, <3>1
    <3>3. /\ r[i].covenant = Carried(c, SpentCapability(raw[i]), raw[i].kind = "genesis", c.outLock)
          /\ r[i + 1].covenant = Carried(d, SpentCapability(raw[i + 1]), t = "genesis", d.outLock)
          /\ r[i + 1].lock = raw[i + 1].lock
      BY <2>2, <3>1
    <3>4. SpentCapability(raw[i + 1]) = c.capability
      BY <3>2 DEF SpentCapability
    <3>5. Given(c.capability, d.capability) = c.capability
      BY <3>2 DEF Given, CovenantsAreThere, Capability
    <3>6. /\ r[i].covenant.category = c.category /\ r[i].covenant.outCommitment = c.outCommitment
          /\ r[i].covenant.outLock = c.outLock /\ r[i].covenant.capability = c.capability
      BY <3>3 DEF Carried
    <3>7. /\ r[i + 1].covenant.category = d.category /\ r[i + 1].covenant.inCommitment = d.inCommitment
          /\ r[i + 1].covenant.capability = d.capability /\ r[i + 1].covenant.inputCapability = c.capability
      BY <3>3, <3>4 DEF Carried
    <3>8. r[i + 1].covenant # None
      BY <3>3 DEF CovenantsAreThere
    <3> HIDE DEF c, d, t
    <3>9. QED
      BY <3>2, <3>3, <3>5, <3>6, <3>7, <3>8 DEF HandedOn
  <2>5. Continues(r)
    BY <2>2, <2>3, <2>4, CovenantsContinue
  <2>6. QED
    BY <1>4, <2>5 DEF ToRun, r
<1>5. CASE context = "successor"
  <2> DEFINE lockings == v.selected
             r        == ToSuccessor(raw, lockings)
             next(i)  == IF i + 1 \in DOMAIN lockings THEN lockings[i + 1] ELSE lockings[i]
  <2>1. IsList(raw) /\ \A i \in DOMAIN raw : i + 1 \in DOMAIN raw =>
           /\ HandedOn(raw[i].covenant, raw[i + 1].covenant)
           /\ raw[i + 1].covenant.capability = raw[i].covenant.capability
           /\ i + 1 \in DOMAIN lockings
    BY <1>5 DEF Following, Grouping, SuccessorsFollow
  <2>2. /\ DOMAIN r = DOMAIN raw
        /\ \A i \in DOMAIN raw :
             /\ r[i].grouped = None /\ r[i].intraTx = None /\ r[i].lock = lockings[i]
             /\ r[i].covenant = Carried(raw[i].covenant, None, FALSE, next(i))
    BY DEF ToSuccessor, Plain
  <2>3. IsList(r)
    BY <2>1, RunFromSteps DEF ToThread, ToKindedThread, ToSuccessor
  <2> HIDE DEF r, lockings
  <2>4. \A i \in DOMAIN r :
           LET c == r[i].covenant
               d == r[i + 1].covenant
           IN  i + 1 \in DOMAIN r /\ c # None =>
                 /\ d # None /\ HandedOn(c, d) /\ c.outLock = r[i + 1].lock
                 /\ Given(d.inputCapability, d.capability) = c.capability
    <3>1. SUFFICES ASSUME NEW i \in DOMAIN raw, i + 1 \in DOMAIN raw
          PROVE  LET c == r[i].covenant
                     d == r[i + 1].covenant
                 IN  /\ d # None /\ HandedOn(c, d) /\ c.outLock = r[i + 1].lock
                     /\ Given(d.inputCapability, d.capability) = c.capability
      BY <2>2
    <3> DEFINE c == raw[i].covenant
               d == raw[i + 1].covenant
               l == next(i + 1)
    <3>2. HandedOn(c, d) /\ d.capability = c.capability /\ next(i) = lockings[i + 1]
      BY <2>1, <3>1
    <3>3. /\ r[i].covenant = Carried(c, None, FALSE, lockings[i + 1])
          /\ r[i + 1].covenant = Carried(d, None, FALSE, l)
          /\ r[i + 1].lock = lockings[i + 1]
      BY <2>2, <3>1, <3>2
    <3> HIDE DEF c, d, l
    <3>4. QED
      BY <3>2, <3>3 DEF CovenantsAreThere, Carried, HandedOn, Given
  <2>5. Continues(r)
    BY <2>2, <2>3, <2>4, CovenantsContinue
  <2>6. QED
    BY <1>5, <2>5 DEF ToRun, r, lockings
<1>6. QED
  BY <1>1, <1>2, <1>3, <1>4, <1>5 DEF LoadContexts, Grouping

(* Every entry                                                              *)
LEMMA LoadIsMadeAlike ==
  ASSUME NEW e \in Registry \cup Candidates, NEW v, WholeFiles(e.load, v),
         NEW s, s = Load(e, v), s # None, NEW r \in Runs(s)
  PROVE  MadeAlike(e.load, v, s, r) /\ OwnList(s.extras)
<1> DEFINE load == e.load
<1>1. KnownLoad(load) /\ load.form \in Forms
  BY EntriesAreKnown DEF Known, KnownLoad
<1>2. CASE load.form = "runs"
  <2>1. s = RunsOf(load, v)
    BY <1>2 DEF Load
  <2>2. IsList(Given(Part(load, v, "extras"), << >>))
    BY <1>2 DEF WholeFiles
  <2> HIDE DEF load
  <2>3. MadeAlike(load, v, s, r) /\ OwnList(s.extras)
    BY <1>2, <2>1, <2>2, RunsAreMadeAlike
  <2>4. QED
    BY <2>3 DEF load
<1>3. CASE load.form = "chain"
  <2>1. s = ChainOf(e.id, load, v)
    BY <1>3 DEF Load
  <2>2. /\ load.context \in {"thread", "kinded"}
        /\ \A part \in {"extras", "identity"} : IsList(Given(Part(load, v, part), << >>))
    BY <1>1, <1>3 DEF WholeFiles, KnownLoad
  <2> HIDE DEF load
  <2>3. MadeAlike(load, v, s, r) /\ OwnList(s.extras)
    BY <1>3, <2>1, <2>2, ChainIsMadeAlike
  <2>4. QED
    BY <2>3 DEF load
<1>4. CASE load.form = "singleton"
  <2>1. s = SingletonOf(load, v)
    BY <1>4 DEF Load
  <2>2. QED
    BY <1>4, <2>1, SingletonIsMadeAlike DEF WovenForms, WholeFiles
<1>5. CASE load.form = "rolled"
  <2>1. s = RolledOf(v)
    BY <1>5 DEF Load
  <2>2. QED
    BY <1>5, <2>1, RolledIsMadeAlike DEF WovenForms, WholeFiles
<1>6. CASE load.form = "fixtures"
  <2>1. s = FixturesOf(FALSE, v)
    BY <1>6 DEF Load
  <2>2. QED
    BY <1>6, <2>1, FixturesAreMadeAlike DEF WovenForms, WholeFiles
<1>7. CASE load.form = "fixturesP2sh"
  <2>1. s = FixturesOf(TRUE, v)
    BY <1>7 DEF Load
  <2>2. QED
    BY <1>7, <2>1, FixturesAreMadeAlike DEF WovenForms, WholeFiles
<1>8. CASE load.form = "crown8"
  <2>1. s = Crown8Of(v)
    BY <1>8 DEF Load
  <2>2. QED
    BY <1>8, <2>1, Crown8IsMadeAlike DEF WholeFiles
<1>9. CASE load.form = "cases"
  <2>1. s = CasesOf(v)
    BY <1>9 DEF Load
  <2>2. QED
    BY <1>9, <2>1, CasesAreMadeAlike
<1>10. CASE load.form \in {"shamir", "twoloop", "one", "demo"}
  <2>1. \E q : LoneSteps(q) /\ s.valid = q /\ s.extras = << >> /\ s.worst = None
    <3>1. CASE load.form = "shamir"
      BY <3>1, ChunksAreBare, SoleRuns DEF Load
    <3>2. CASE load.form = "twoloop"
      BY <3>2, ChunksAreBare, SoleRuns DEF Load
    <3>3. CASE load.form = "one"
      BY <3>3, SoleRuns DEF Load
    <3>4. CASE load.form = "demo"
      BY <3>4, SoleRuns DEF Load
    <3>5. QED
      BY <1>10, <3>1, <3>2, <3>3, <3>4
  <2>2. QED
    BY <1>10, <2>1, SoleRunIsMadeAlike DEF WovenForms
<1>11. QED
  BY <1>1, <1>2, <1>3, <1>4, <1>5, <1>6, <1>7, <1>8, <1>9, <1>10 DEF Forms

(* The raw runs are woven in a known way, and grouped ones have their       *)
(* groups.                                                                  *)
LEMMA HonestRawsAreWhole ==
  ASSUME NEW e \in Registry \cup Candidates, NEW v, WholeFiles(e.load, v), NEW raw \in HonestRaws(e.load, v)
  PROVE  /\ WovenAs(e.load) \in LoadContexts
         /\ WovenAs(e.load) \in Grouping => WellGrouped(raw)
<1> DEFINE load == e.load
<1>1. KnownLoad(load)
  BY EntriesAreKnown DEF Known
<1>2. CASE load.form = "runs"
  <2>1. GroupsAreWhole(load, v) /\ WovenAs(load) = load.context /\ load.context \in LoadContexts
    BY <1>1, <1>2 DEF WholeFiles, WovenAs, KnownLoad
  <2>2. HonestRaws(load, v) = {v.valid} \cup Elements(Given(Part(load, v, "extras"), << >>))
                              \cup ({Part(load, v, "worst"), Part(load, v, "resource")} \ {None})
    BY <1>2 DEF HonestRaws
  <2>3. QED
    BY <2>1, <2>2 DEF GroupsAreWhole, WellGroupedRuns, Elements
<1>3. CASE load.form = "chain"
  BY <1>1, <1>3 DEF KnownLoad, WovenAs, LoadContexts, Grouping
<1>4. CASE load.form \in {"crown8", "cases"}
  BY <1>4 DEF WovenAs, LoadContexts, Grouping
<1>5. CASE load.form \notin {"runs", "chain", "crown8", "cases"}
  <2>1. HonestRaws(load, v) = {}
    BY <1>5 DEF HonestRaws
  <2>2. QED
    BY <2>1
<1>6. QED
  BY <1>2, <1>3, <1>4, <1>5

(* From files whose records follow each other, a loader makes a thread.     *)
LEMMA LoadedThreadsContinue ==
  ASSUME ContextsAreThere, CovenantsAreThere, LoadedIsLoad, TypedFiles, ThreadFiles
  PROVE  ThreadsContinue
<1>1. SUFFICES ASSUME Loaded, NEW r \in Runs(case.scenario)
      PROVE  Continues(r)
  BY Zenon DEF ThreadsContinue, Continues
<1> DEFINE e == entry.impl
           v == entry.files
           s == case.scenario
<1>2. s = Load(e, v) /\ s # None
  BY <1>1 DEF LoadedIsLoad
<1>3. ContextsAreThere /\ e \in Registry \cup Candidates /\ WholeFiles(e.load, v)
  BY <1>1 DEF TypedFiles, Loaded
<1>4. CovenantsAreThere /\ \A raw \in HonestRaws(e.load, v) : Following(WovenAs(e.load), v, raw)
  BY <1>1 DEF ThreadFiles, Loaded
<1>5. r \in Runs(s)
  BY <1>1
<1> HIDE DEF e, v, s
<1>6. MadeAlike(e.load, v, s, r)
  BY <1>2, <1>3, <1>5, LoadIsMadeAlike
<1>7. CASE BareSteps(r)
  BY <1>7, BareStepsContinue
<1>8. CASE \E raw \in HonestRaws(e.load, v) : r = ToRun(WovenAs(e.load), v, raw)
  <2>1. PICK raw \in HonestRaws(e.load, v) : r = ToRun(WovenAs(e.load), v, raw)
    BY <1>8
  <2> DEFINE context == WovenAs(e.load)
  <2>2. context \in LoadContexts /\ (context \in Grouping => WellGrouped(raw))
    BY <1>3, HonestRawsAreWhole
  <2>3. Following(context, v, raw)
    BY <1>4
  <2> HIDE DEF context
  <2>4. Continues(ToRun(context, v, raw))
    BY <1>3, <1>4, <2>2, <2>3, RunContinues
  <2>5. QED
    BY <2>1, <2>4 DEF context
<1>9. QED
  BY <1>6, <1>7, <1>8 DEF MadeAlike, LoneSteps

-----------------------------------------------------------------------------
(* What an entry declares of its transactions                               *)

(* The files of an entry of several transactions have several steps, and    *)
(* grouped ones several groups.                                             *)
SeveralSteps(load, v) ==
    /\ load.form \in {"shamir", "twoloop"} => IsList(v.valid) /\ Len(v.valid) > 1
    /\ ~OneTransaction(load) =>
         \A raw \in HonestRaws(load, v) :
            IF WovenAs(load) \in Grouping
            THEN \E i, j \in DOMAIN raw.steps : raw.steps[i].group # raw.steps[j].group
            ELSE IsList(raw) /\ Len(raw) > 1

CountedFiles == entry # None => SeveralSteps(entry.impl.load, entry.files)

LEMMA AloneIsCounted ==
  ASSUME NEW r, \A i \in DOMAIN r : r[i].grouped = None /\ r[i].intraTx = None
  PROVE  TxCountOf(r) = Len(r)
BY DEF TxCountOf

LEMMA BareIsCounted ==
  ASSUME NEW r, BareSteps(r)
  PROVE  TxCountOf(r) = Len(r)
<1>1. \A i \in DOMAIN r : r[i]["grouped"] = None /\ r[i]["intraTx"] = None
  BY DEF BareSteps, ContextKinds
<1>2. QED
  BY <1>1, AloneIsCounted

LEMMA IntraTxIsCounted ==
  ASSUME ContextsAreThere, NEW raw, NEW r, r = ToIntraTx(raw), r # << >>, IsList(r)
  PROVE  TxCountOf(r) = 1
<1>1. /\ DOMAIN r = DOMAIN raw
      /\ \A i \in DOMAIN raw : /\ r[i].grouped = None
                               /\ r[i].intraTx = [index |-> i, inputs |-> InputsOfRun(raw)]
  BY DEF ToIntraTx, Plain
<1>2. DOMAIN r # {}
  <2>1. SUFFICES ASSUME DOMAIN r = {} PROVE FALSE
    OBVIOUS
  <2>2. r \in [1 .. 0 -> {}]
    BY <1>1, <2>1 DEF ToIntraTx
  <2>3. r \in Seq({}) /\ Len(r) = 0
    BY <2>2, SeqDef
  <2>4. QED
    BY <2>3, EmptySeq
<1>3. \A i \in DOMAIN raw : r[i].intraTx # None
  <2>1. \A x, y : [index |-> x, inputs |-> y] # None
    BY DEF ContextsAreThere
  <2>2. QED
    BY <1>1, <2>1, Zenon
<1>4. QED
  BY <1>1, <1>2, <1>3 DEF TxCountOf

LEMMA GroupsAreCounted ==
  ASSUME NEW r, TypedRun(r), RunShape(r), \A i \in DOMAIN r : r[i].grouped # None,
         NEW i \in DOMAIN r, NEW j \in DOMAIN r, r[i].grouped.group # r[j].grouped.group
  PROVE  TxCountOf(r) # 1
<1>1. \A k \in DOMAIN r : Mates(r, k) = {l \in DOMAIN r : r[l].grouped.group = r[k].grouped.group}
  BY DEF Mates
<1>2. PICK f \in Firsts(r) : i \in Mates(r, f)
  BY EveryTransactionHasAFirst
<1>3. PICK g \in Firsts(r) : j \in Mates(r, g)
  BY EveryTransactionHasAFirst
<1>4. f # g
  BY <1>1, <1>2, <1>3, RunIsFinite
<1>5. IsFiniteSet(Firsts(r))
  BY RunIsFinite
<1>6. ~ \E x : Firsts(r) = {x}
  BY <1>2, <1>3, <1>4
<1>7. Cardinality(Firsts(r)) # 1
  BY <1>5, <1>6, FS_Singleton
<1>8. QED
  BY <1>7, TransactionsAreCounted

(* What a loader makes of one transaction counts as one, and the rest as    *)
(* more.                                                                    *)
LEMMA LoadIsCounted ==
  ASSUME ContextsAreThere, NEW e \in Registry \cup Candidates, NEW v, WholeFiles(e.load, v),
         SeveralSteps(e.load, v), NEW s, s = Load(e, v), s # None, TypedRun(s.valid), RunShape(s.valid)
  PROVE  OneTransaction(e.load) <=> TxCountOf(s.valid) = 1
<1> DEFINE load == e.load
           r    == s.valid
<1>1. KnownLoad(load) /\ load.form \in Forms
  BY EntriesAreKnown DEF Known, KnownLoad
<1>2. IsList(r) /\ r # << >> /\ r \in Runs(s)
  BY DEF TypedRun, RunShape, Runs
<1>3. CASE load.form \in {"singleton", "rolled", "fixtures", "fixturesP2sh", "one"}
  <2>1. BareSteps(r) /\ load.form \notin WovenForms
    <3>1. MadeAlike(load, v, s, r)
      BY <1>2, LoadIsMadeAlike
    <3>2. QED
      BY <1>3, <3>1 DEF MadeAlike, LoneSteps, WovenForms
  <2>2. Len(r) = 1
    <3>1. CASE load.form = "singleton"
      BY <1>2, <2>1, <3>1, SingletonIsMadeAlike DEF Load, WholeFiles, SingleOf
    <3>2. CASE load.form = "rolled"
      BY <1>2, <2>1, <3>2, RolledIsMadeAlike DEF Load, WholeFiles, SingleOf
    <3>3. CASE load.form \in {"fixtures", "fixturesP2sh"}
      <4>1. s = FixturesOf(TRUE, v) \/ s = FixturesOf(FALSE, v)
        BY <3>3 DEF Load
      <4>2. PICK wrapped \in BOOLEAN : s = FixturesOf(wrapped, v)
        BY <4>1
      <4>3. \E lock : \A q \in Runs(s) : MadeAlike(load, v, s, q) /\ SingleOf(lock, q)
        BY <2>1, <3>3, <4>2, FixturesAreMadeAlike DEF WholeFiles
      <4>4. QED
        BY <1>2, <4>3 DEF SingleOf
    <3>4. CASE load.form = "one"
      BY <3>4, SoleRuns DEF Load
    <3>5. QED
      BY <1>3, <3>1, <3>2, <3>3, <3>4
  <2>3. TxCountOf(r) = 1
    BY <2>1, <2>2, BareIsCounted
  <2>4. QED
    BY <1>3, <2>3 DEF OneTransaction
<1>4. CASE load.form = "demo"
  <2>1. BareSteps(r) /\ Len(r) = 3
    BY <1>4, SoleRuns DEF Load, LoneSteps
  <2>2. QED
    BY <1>4, <2>1, BareIsCounted DEF OneTransaction
<1>5. CASE load.form \in {"shamir", "twoloop"}
  <2>1. r = Chunks(v)
    BY <1>5, SoleRuns DEF Load
  <2>2. BareSteps(r)
    BY <2>1, ChunksAreBare DEF LoneSteps
  <2>3. Len(v.valid) > 1 /\ IsList(v.valid)
    BY <1>5 DEF SeveralSteps
  <2>4. Len(r) = Len(v.valid)
    BY <2>1, <2>3, RunFromSteps DEF Chunks
  <2>5. Len(r) # 1 /\ ~OneTransaction(load)
    <3>1. ~OneTransaction(load)
      BY <1>5 DEF OneTransaction
    <3> DEFINE n == Len(v.valid)
    <3>2. n > 1 /\ n \in Nat
      BY <2>3 DEF IsList
    <3> HIDE DEF n
    <3>3. n # 1
      BY <3>2
    <3>4. QED
      BY <2>4, <3>1, <3>3 DEF n
  <2>6. QED
    BY <2>2, <2>5, BareIsCounted
<1>6. CASE load.form \in {"runs", "chain", "crown8", "cases"}
  <2> DEFINE context == WovenAs(load)
  <2>1. PICK raw \in HonestRaws(load, v) : r = ToRun(context, v, raw)
    <3>1. MadeAlike(load, v, s, r)
      BY <1>2, LoadIsMadeAlike
    <3>2. QED
      BY <1>6, <3>1 DEF MadeAlike, WovenForms
  <2>2. context \in LoadContexts /\ (context \in Grouping => WellGrouped(raw))
    BY HonestRawsAreWhole
  <2>3. OneTransaction(load) <=> context = "intraTx"
    BY <1>1, <1>6 DEF OneTransaction, WovenAs, KnownLoad
  <2>4. ~OneTransaction(load) =>
            IF context \in Grouping
            THEN \E i, j \in DOMAIN raw.steps : raw.steps[i].group # raw.steps[j].group
            ELSE IsList(raw) /\ Len(raw) > 1
    BY DEF SeveralSteps
  <2> HIDE DEF context, load, r
  <2>5. CASE context = "intraTx"
    <3>1. r = ToIntraTx(raw)
      BY <2>1, <2>5 DEF ToRun
    <3>2. TxCountOf(r) = 1
      BY <1>2, <3>1, IntraTxIsCounted
    <3>3. QED
      BY <2>3, <2>5, <3>2 DEF load, r
  <2>6. CASE context \in Grouping
    <3> DEFINE w == ToGrouped(raw, v.category)
               q == WithoutSiblings(w)
    <3>1. r = w \/ r = q
      BY <2>1, <2>6 DEF ToRun, Grouping
    <3> HIDE DEF w, q
    <3>2. /\ DOMAIN w = DOMAIN raw.steps /\ DOMAIN q = DOMAIN raw.steps
          /\ \A k \in DOMAIN raw.steps :
               /\ w[k].grouped # None /\ w[k].grouped.group = raw.steps[k].group
               /\ q[k].grouped # None /\ q[k].grouped.group = raw.steps[k].group
      BY GroupedFields, SMTT(60) DEF w, q
    <3>3. context # "intraTx"
      BY <2>6 DEF Grouping
    <3>4. PICK i \in DOMAIN raw.steps, j \in DOMAIN raw.steps : raw.steps[i].group # raw.steps[j].group
      BY <2>3, <2>4, <2>6, <3>3
    <3>5. /\ i \in DOMAIN r /\ j \in DOMAIN r /\ r[i].grouped.group # r[j].grouped.group
          /\ \A k \in DOMAIN r : r[k].grouped # None
      BY <3>1, <3>2, <3>4
    <3>6. TypedRun(r) /\ RunShape(r)
      BY DEF r
    <3>7. TxCountOf(r) # 1
      BY <3>5, <3>6, GroupsAreCounted
    <3>8. QED
      BY <2>3, <3>3, <3>7 DEF load, r
  <2>7. CASE context \in {"thread", "kinded", "successor"}
    <3>1. context # "intraTx" /\ context \notin Grouping
      BY <2>7 DEF Grouping
    <3>2. IsList(raw) /\ Len(raw) > 1
      BY <2>3, <2>4, <3>1
    <3>3. \/ r = ToThread(raw)
          \/ r = ToKindedThread(raw)
          \/ r = ToSuccessor(raw, v.selected)
      BY <2>1, <2>7 DEF ToRun
    <3>4. Len(r) = Len(raw)
      BY <3>2, <3>3, RunFromSteps DEF ToThread, ToKindedThread, ToSuccessor
    <3>5. \A i \in DOMAIN r : r[i].grouped = None /\ r[i].intraTx = None
      <4>1. CASE r = ToThread(raw)
        BY <4>1 DEF ToThread, Plain
      <4>2. CASE r = ToKindedThread(raw)
        BY <4>2 DEF ToKindedThread, Plain
      <4>3. CASE r = ToSuccessor(raw, v.selected)
        BY <4>3 DEF ToSuccessor, Plain
      <4>4. QED
        BY <3>3, <4>1, <4>2, <4>3
    <3>6. TxCountOf(r) # 1
      BY <3>2, <3>4, <3>5, AloneIsCounted DEF IsList
    <3>7. QED
      BY <2>3, <3>1, <3>6 DEF load, r
  <2>8. QED
    BY <2>2, <2>5, <2>6, <2>7 DEF LoadContexts, Grouping
<1>7. QED
  BY <1>1, <1>3, <1>4, <1>5, <1>6 DEF Forms

(* The structure of an entry is what its score counts.                      *)
LEMMA StructureIsCounted ==
  ASSUME ContextsAreThere, PassedIsChecked, MeasureIsOfPassed, LoadedIsLoad, Typed, TypedFiles,
         CountedFiles
  PROVE  StructureIsTransactions
<1>1. SUFFICES ASSUME Loaded, measure # None
      PROVE  entry.impl.structure = "single-tx" <=> measure.txCount = 1
  BY DEF StructureIsTransactions
<1> DEFINE e == entry.impl
           v == entry.files
           s == case.scenario
<1>2. s = Load(e, v) /\ s # None
  BY <1>1 DEF LoadedIsLoad
<1>3. ContextsAreThere /\ e \in Registry \cup Candidates /\ WholeFiles(e.load, v) /\ SeveralSteps(e.load, v)
  BY <1>1 DEF TypedFiles, CountedFiles, Loaded
<1>4. TypedRun(s.valid) /\ RunShape(s.valid) /\ measure.txCount = TxCountOf(s.valid)
  <2>1. Passed /\ measure = RunScore(s.valid)
    BY <1>1 DEF MeasureIsOfPassed, run
  <2>2. case # None /\ RunShape(s.valid)
    BY <1>1, <2>1 DEF PassedIsChecked, HonestRuns
  <2>3. TypedRun(s.valid)
    BY <1>1, <2>2 DEF Typed, Runs
  <2> HIDE DEF s
  <2>4. QED
    BY <2>1, <2>2, <2>3 DEF RunScore
<1> HIDE DEF e, v, s
<1>5. OneTransaction(e.load) <=> TxCountOf(s.valid) = 1
  BY <1>2, <1>3, <1>4, LoadIsCounted
<1>6. e.structure = "single-tx" <=> OneTransaction(e.load)
  BY <1>3, EntriesAreKnown DEF Known
<1>7. QED
  BY <1>4, <1>5, <1>6 DEF e

-----------------------------------------------------------------------------
(* What the contract refuses of the loaded scenarios                        *)

RawSteps(context, raw) == IF context \in Grouping THEN raw.steps ELSE raw

(* A raw run has steps; its groups are numbered in their order and have     *)
(* tokens for all their inputs or for none; a thread has its token in all   *)
(* of its steps or in none.                                                 *)
WellOrdered(context, raw) ==
    LET steps == RawSteps(context, raw)
    IN  /\ IsList(steps) /\ Len(steps) > 0
        /\ context = "thread" =>
             \A i, j \in DOMAIN steps : steps[i].covenant = None => steps[j].covenant = None
        /\ context \in Grouping =>
             /\ Len(raw.groups) \in Nat
             /\ {steps[i].group : i \in DOMAIN steps} = 1 .. Len(raw.groups)
             /\ \A i \in DOMAIN steps : i > 1 => steps[i - 1].group <= steps[i].group
        /\ context = "siblings" =>
             \A i \in DOMAIN steps :
                LET g == raw.groups[steps[i].group]
                IN  g.inputTokens # None => Len(g.inputTokens) = g.hi - g.lo + 1

AlikeCovenants(c, d) == c.category = d.category /\ c.capability = d.capability /\ c.outLock = d.outLock

AlikeGroups(g, h) ==
    /\ g.lo = h.lo /\ g.hi = h.hi /\ g.outLock = h.outLock
    /\ SameTokenShape(g.inToken, h.inToken) /\ SameTokenShape(g.outToken, h.outToken)

AlikeSiblings(g, h) ==
    /\ (g.inputTokens = None) = (h.inputTokens = None)
    /\ g.inputTokens # None =>
         \A k \in DOMAIN g.inputTokens : SameTokenShape(g.inputTokens[k], h.inputTokens[k])

(* Two raw runs differ in unlockings and commitments only.                  *)
AlikeRaws(context, a, b) ==
    LET xs == RawSteps(context, a)
        ys == RawSteps(context, b)
    IN  /\ Len(xs) = Len(ys)
        /\ \A i \in DOMAIN xs :
             /\ xs[i].lock = ys[i].lock
             /\ context \in Grouping =>
                  xs[i].group = ys[i].group /\ AlikeGroups(a.groups[xs[i].group], b.groups[xs[i].group])
             /\ context = "siblings" => AlikeSiblings(a.groups[xs[i].group], b.groups[xs[i].group])
             /\ context = "thread" =>
                  /\ (xs[i].covenant = None) = (ys[i].covenant = None)
                  /\ xs[i].covenant # None => AlikeCovenants(xs[i].covenant, ys[i].covenant)
             /\ context \in {"kinded", "successor"} => AlikeCovenants(xs[i].covenant, ys[i].covenant)
             /\ context = "kinded" => xs[i].kind = ys[i].kind

AlikeFiles(load, v) ==
    /\ \A raw \in HonestRaws(load, v) : WellOrdered(WovenAs(load), raw)
    /\ \A a, b \in HonestRaws(load, v) : AlikeRaws(WovenAs(load), a, b)

(* The files of an entry hold runs of one program.                          *)
ProgramFiles == entry # None => AlikeFiles(entry.impl.load, entry.files)

(* What an entry declares to be its proof is in the unlockings of its runs. *)
ProofsAreFound ==
    Loaded => \A k \in DOMAIN case.locators : \A r \in Runs(case.scenario) : Located(r, case.locators[k])

LEMMA ShapeOfBare ==
  ASSUME NEW r, IsList(r), Len(r) > 0, BareSteps(r)
  PROVE  RunShape(r) /\ \A i \in DOMAIN r : ContextKind(r[i]) = "bare"
<1>1. \A i \in DOMAIN r : Contexts(r[i]) = {}
  BY DEF Contexts, BareSteps
<1>2. \A i \in DOMAIN r : OneContext(r[i]) /\ ContextKind(r[i]) = "bare"
  BY <1>1 DEF OneContext, ContextKind
<1>3. 1 \in DOMAIN r /\ r # << >>
  BY DEF IsList
<1>4. QED
  BY <1>2, <1>3 DEF RunShape

LEMMA BareStepsAreOneProgram ==
  ASSUME NEW p, NEW r, IsList(p), IsList(r), Len(p) > 0, BareSteps(p), BareSteps(r),
         Len(r) = Len(p), \A i \in DOMAIN r : r[i].lock = p[i].lock
  PROVE  SameProgramRun(p, r)
<1>1. /\ RunShape(p) /\ \A i \in DOMAIN p : ContextKind(p[i]) = "bare"
      /\ RunShape(r) /\ \A i \in DOMAIN r : ContextKind(r[i]) = "bare"
  BY ShapeOfBare
<1>2. DOMAIN p = DOMAIN r
  BY DEF IsList
<1>3. \A i \in DOMAIN r : p[i]["covenant"] = None /\ p[i]["intraTx"] = None /\ p[i]["grouped"] = None
  BY <1>2 DEF BareSteps, ContextKinds
<1>4. QED
  BY <1>1, <1>2, <1>3 DEF SameProgramRun, SameStepProgram

(* The inputs of a group are the list of its steps.                         *)
LEMMA InputsOfGroup ==
  ASSUME NEW raw, NEW r, NEW i, NEW lo, NEW hi, NEW inputs, IsList(r),
         IsPiece(raw, r, i, lo, hi, inputs), \E xs : inputs = InputsOfRun(xs)
  PROVE  IsList(inputs) /\ Len(inputs) = hi - lo + 1
<1>1. /\ DOMAIN inputs = 1 .. (hi - lo + 1)
      /\ lo \in Nat /\ hi \in Nat /\ lo <= hi
  BY DEF IsPiece, IsList
<1>2. inputs = [k \in DOMAIN inputs |-> inputs[k]]
  BY DEF InputsOfRun
<1> DEFINE n == hi - lo + 1
           S == {inputs[k] : k \in DOMAIN inputs}
<1>3. n \in Nat
  BY <1>1
<1>4. inputs \in [1 .. n -> S]
  <2>1. [k \in DOMAIN inputs |-> inputs[k]] \in [DOMAIN inputs -> S]
    OBVIOUS
  <2>2. QED
    BY <1>1, <1>2, <2>1
<1> HIDE DEF n, S
<1>5. IsList(inputs) /\ Len(inputs) = n
  BY <1>3, <1>4, FunctionIsList
<1>6. QED
  BY <1>5 DEF n

(* The steps lo to hi are the members of their group, and lo the first.     *)
LEMMA MembersOfGroup ==
  ASSUME NEW r, IsList(r), NEW i \in DOMAIN r, NEW n, n = r[i].grouped.group,
         NEW lo \in DOMAIN r, NEW hi \in DOMAIN r, i \in lo .. hi,
         \A j \in DOMAIN r : r[j].grouped.group = n <=> j \in lo .. hi
  PROVE  /\ Members(r, n) = lo .. hi /\ First(r, n) = lo
         /\ Cardinality(Members(r, n)) = hi - lo + 1
<1>1. lo \in Nat /\ hi \in Nat /\ lo <= hi /\ lo .. hi \subseteq DOMAIN r
  BY DEF IsList
<1>2. Members(r, n) = lo .. hi
  BY <1>1 DEF Members
<1>3. First(r, n) \in lo .. hi /\ \A j \in lo .. hi : First(r, n) <= j
  BY <1>2, FirstIsLeast
<1>4. First(r, n) = lo
  BY <1>1, <1>3
<1>5. Cardinality(lo .. hi) = hi - lo + 1
  BY <1>1, FS_Interval
<1>6. QED
  BY <1>2, <1>4, <1>5

(* The groups of a raw run, numbered in their order, are the groups of the  *)
(* contract.                                                                *)
LEMMA GroupsHaveAShape ==
  ASSUME NEW raw, WellGrouped(raw), NEW r, GroupedAs(r, raw), IsList(r),
         Len(raw.groups) \in Nat,
         {raw.steps[i].group : i \in DOMAIN raw.steps} = 1 .. Len(raw.groups),
         \A i \in DOMAIN raw.steps : i > 1 => raw.steps[i - 1].group <= raw.steps[i].group,
         \A i \in DOMAIN r :
            LET g == raw.groups[raw.steps[i].group]
            IN  r[i].grouped.inputTokens # None => Len(r[i].grouped.inputTokens) = g.hi - g.lo + 1
  PROVE  GroupedShape(r)
<1> DEFINE group(i) == r[i].grouped.group
           groups   == {group(i) : i \in DOMAIN r}
           lo(i)    == raw.groups[raw.steps[i].group].lo
           hi(i)    == raw.groups[raw.steps[i].group].hi
<1>1. /\ DOMAIN r = DOMAIN raw.steps
      /\ \A i \in DOMAIN r : group(i) = raw.steps[i].group
  BY DEF GroupedAs
<1>2. \A i \in DOMAIN r : IsPiece(raw, r, i, lo(i), hi(i), InputsOfRun(SubSeq(raw.steps, lo(i), hi(i))))
  BY GroupIsAPiece
<1>3. \A i \in DOMAIN r : /\ r[i].grouped.index = i - lo(i) + 1
                          /\ r[i].grouped.inputs = InputsOfRun(SubSeq(raw.steps, lo(i), hi(i)))
  BY DEF GroupedAs
<1>4. \A i \in DOMAIN r : r[i].grouped.inputTokens # None => Len(r[i].grouped.inputTokens) = hi(i) - lo(i) + 1
  OBVIOUS
<1>5. groups = 1 .. Cardinality(groups)
  <2>1. groups = 1 .. Len(raw.groups)
    BY <1>1
  <2>2. Cardinality(1 .. Len(raw.groups)) = Len(raw.groups)
    BY FS_Interval
  <2>3. QED
    BY <2>1, <2>2
<1>6. \A i \in DOMAIN r : i > 1 => group(i - 1) <= group(i)
  <2>1. \A i \in DOMAIN r : i > 1 => i - 1 \in DOMAIN r
    BY DEF IsList
  <2>2. QED
    BY <1>1, <2>1
<1> HIDE DEF lo, hi
<1>7. \A i \in DOMAIN r : /\ lo(i) \in DOMAIN r /\ hi(i) \in DOMAIN r /\ i \in lo(i) .. hi(i)
                          /\ \A j \in DOMAIN r : group(j) = group(i) <=> j \in lo(i) .. hi(i)
  <2>1. TAKE i \in DOMAIN r
  <2> DEFINE x == lo(i)
             y == hi(i)
             I == InputsOfRun(SubSeq(raw.steps, x, y))
  <2>2. IsPiece(raw, r, i, x, y, I)
    BY <1>2
  <2> HIDE DEF x, y, I
  <2>3. /\ x \in DOMAIN r /\ y \in DOMAIN r /\ i \in x .. y
        /\ \A j \in DOMAIN r : raw.steps[j].group = raw.steps[i].group <=> j \in x .. y
    BY <2>2 DEF IsPiece
  <2>4. \A j \in DOMAIN r : group(j) = group(i) <=> j \in x .. y
    BY <1>1, <2>3
  <2>5. QED
    BY <2>3, <2>4 DEF x, y
<1>8. \A i \in DOMAIN r : /\ Members(r, group(i)) = lo(i) .. hi(i) /\ First(r, group(i)) = lo(i)
                          /\ Cardinality(Members(r, group(i))) = hi(i) - lo(i) + 1
  <2>1. TAKE i \in DOMAIN r
  <2> DEFINE x == lo(i)
             y == hi(i)
             n == group(i)
  <2>2. /\ x \in DOMAIN r /\ y \in DOMAIN r /\ i \in x .. y
        /\ \A j \in DOMAIN r : r[j].grouped.group = n <=> j \in x .. y
    BY <1>7
  <2>3. n = r[i].grouped.group
    OBVIOUS
  <2> HIDE DEF x, y, n
  <2>4. /\ Members(r, n) = x .. y /\ First(r, n) = x
        /\ Cardinality(Members(r, n)) = y - x + 1
    BY <2>2, <2>3, MembersOfGroup, SMTT(30)
  <2>5. QED
    BY <2>4 DEF x, y, n
<1>9. \A i \in DOMAIN r : lo(i) \in Int /\ hi(i) \in Int
  BY <1>7 DEF IsList
<1>10. \A n \in groups :
          Members(r, n) = First(r, n) .. (First(r, n) + Cardinality(Members(r, n)) - 1)
  <2>1. SUFFICES ASSUME NEW i \in DOMAIN r
        PROVE  Members(r, group(i)) = First(r, group(i)) .. (First(r, group(i)) + Cardinality(Members(r, group(i))) - 1)
    OBVIOUS
  <2>2. lo(i) + (hi(i) - lo(i) + 1) - 1 = hi(i)
    BY <1>9
  <2>3. QED
    BY <1>8, <2>2
<1>11. ASSUME NEW i \in DOMAIN r
       PROVE  LET g     == r[i].grouped
                  first == First(r, g.group)
              IN  /\ g.inputTokens # None => Len(g.inputTokens) = Len(g.inputs)
                  /\ g.index = i - first + 1
                  /\ Len(g.inputs) = Cardinality(Members(r, g.group))
                  /\ \A k \in DOMAIN g.inputs : SameInput(g.inputs[k], r[first + k - 1])
                  /\ SameGroupContext(g, r[first].grouped)
  <2> DEFINE g     == r[i].grouped
             x     == lo(i)
             y     == hi(i)
  <2>1. First(r, g.group) = x /\ Cardinality(Members(r, g.group)) = y - x + 1 /\ x \in Int /\ y \in Int
    BY <1>8, <1>9
  <2>2. IsPiece(raw, r, i, x, y, g.inputs) /\ \E xs : g.inputs = InputsOfRun(xs)
    BY <1>2, <1>3
  <2>3. IsList(g.inputs) /\ Len(g.inputs) = y - x + 1
    BY <2>2, InputsOfGroup
  <2>4. \A k \in DOMAIN g.inputs : SameInput(g.inputs[k], r[x + k - 1])
    <3>1. SUFFICES ASSUME NEW k \in DOMAIN g.inputs PROVE SameInput(g.inputs[k], r[x + k - 1])
      OBVIOUS
    <3>2. /\ g.inputs[k].lock = raw.steps[x + k - 1].lock
          /\ g.inputs[k].unlock = raw.steps[x + k - 1].unlock
          /\ DOMAIN g.inputs = 1 .. (y - x + 1)
      BY <2>2 DEF IsPiece
    <3>3. k \in 1 .. (y - x + 1) /\ x + k - 1 \in x .. y
      BY <2>1, <3>2
    <3>4. x + k - 1 \in DOMAIN r
      <4>1. x \in DOMAIN r /\ y \in DOMAIN r
        BY <1>7
      <4> HIDE DEF x, y
      <4>2. QED
        BY <3>3, <4>1 DEF IsList
    <3>5. r[x + k - 1].lock = raw.steps[x + k - 1].lock /\ r[x + k - 1].unlock = raw.steps[x + k - 1].unlock
      BY <3>4 DEF GroupedAs
    <3>6. QED
      BY <3>2, <3>5 DEF SameInput
  <2>5. x \in DOMAIN r /\ r[x].grouped.group = g.group
    <3>1. /\ x \in DOMAIN r /\ y \in DOMAIN r /\ i \in x .. y
          /\ \A j \in DOMAIN r : group(j) = group(i) <=> j \in x .. y
      BY <1>7
    <3> HIDE DEF x, y
    <3>2. x \in x .. y
      BY <2>1, <3>1
    <3>3. QED
      BY <3>1, <3>2
  <2>6. SameGroupContext(g, r[x].grouped)
    <3>1. /\ g.category = r[x].grouped.category /\ g.inToken = r[x].grouped.inToken
          /\ g.inputTokens = r[x].grouped.inputTokens /\ g.outToken = r[x].grouped.outToken
          /\ g.outLock = r[x].grouped.outLock
      BY <2>5 DEF GroupedAs
    <3>2. QED
      BY <3>1 DEF SameGroupContext, SpentToken, EffectiveOutputLocking
  <2>7. g.index = i - x + 1
    BY <1>3
  <2>8. g.inputTokens # None => Len(g.inputTokens) = y - x + 1
    BY <1>4
  <2> HIDE DEF x, y
  <2>9. QED
    BY <2>1, <2>3, <2>4, <2>6, <2>7, <2>8
<1>12. QED
  BY <1>5, <1>6, <1>10, <1>11 DEF GroupedShape

(* What a grouped run says of its steps, however it is woven.               *)
GroupsWoven(context, category, raw, r) ==
    /\ IsList(r) /\ Len(r) = Len(raw.steps) /\ DOMAIN r = DOMAIN raw.steps
    /\ GroupedAs(r, raw)
    /\ \A i \in DOMAIN raw.steps :
         LET g == raw.groups[raw.steps[i].group]
         IN  /\ r[i].intraTx = None
             /\ r[i].grouped.category = category
             /\ r[i].grouped.inToken = g.inToken /\ r[i].grouped.outToken = g.outToken
             /\ r[i].grouped.inputTokens = IF context = "siblings" THEN g.inputTokens ELSE None
             /\ r[i].grouped.outLock = IF g.outLock = EmptyBytes THEN None ELSE g.outLock

LEMMA GroupsAreWoven ==
  ASSUME ContextsAreThere, NEW context \in Grouping, NEW v, NEW raw, WellGrouped(raw)
  PROVE  GroupsWoven(context, v.category, raw, ToRun(context, v, raw))
<1> DEFINE w == ToGrouped(raw, v.category)
           q == WithoutSiblings(w)
           r == ToRun(context, v, raw)
<1>1. r = IF context = "siblings" THEN w ELSE q
  BY DEF ToRun, Grouping
<1>2. w = [i \in DOMAIN raw.steps |-> w[i]] /\ q = [i \in DOMAIN w |-> q[i]]
  <2> DEFINE step(i) ==
               LET g == raw.groups[raw.steps[i].group]
               IN  [Plain(raw.steps[i]) EXCEPT !.grouped =
                     [group |-> raw.steps[i].group, index |-> i - g.lo + 1,
                      inputs |-> InputsOfRun(SubSeq(raw.steps, g.lo, g.hi)), category |-> v.category,
                      inToken |-> g.inToken, inputTokens |-> g.inputTokens, outToken |-> g.outToken,
                      outLock |-> IF g.outLock = EmptyBytes THEN None ELSE g.outLock]]
  <2>1. w = [i \in DOMAIN raw.steps |-> step(i)]
    BY Zenon DEF ToGrouped
  <2> HIDE DEF step, w
  <2>2. w = [i \in DOMAIN raw.steps |-> w[i]]
    BY <2>1
  <2>3. q = [i \in DOMAIN w |-> q[i]]
    BY DEF WithoutSiblings
  <2>4. QED
    BY <2>2, <2>3
<1> HIDE DEF w, q, r
<1>3. /\ DOMAIN w = DOMAIN raw.steps /\ DOMAIN q = DOMAIN raw.steps
      /\ \A i \in DOMAIN raw.steps :
         LET n == raw.steps[i].group
             g == raw.groups[n]
         IN  /\ w[i].lock = raw.steps[i].lock /\ w[i].unlock = raw.steps[i].unlock
             /\ w[i].covenant = None /\ w[i].intraTx = None /\ w[i].grouped # None
             /\ w[i].grouped.group = n /\ w[i].grouped.index = i - g.lo + 1
             /\ w[i].grouped.inputs = InputsOfRun(SubSeq(raw.steps, g.lo, g.hi))
             /\ w[i].grouped.category = v.category /\ w[i].grouped.inToken = g.inToken
             /\ w[i].grouped.inputTokens = g.inputTokens /\ w[i].grouped.outToken = g.outToken
             /\ w[i].grouped.outLock = IF g.outLock = EmptyBytes THEN None ELSE g.outLock
             /\ q[i].lock = raw.steps[i].lock /\ q[i].unlock = raw.steps[i].unlock
             /\ q[i].covenant = None /\ q[i].intraTx = None /\ q[i].grouped # None
             /\ q[i].grouped.group = n /\ q[i].grouped.index = i - g.lo + 1
             /\ q[i].grouped.inputs = InputsOfRun(SubSeq(raw.steps, g.lo, g.hi))
             /\ q[i].grouped.category = v.category /\ q[i].grouped.inToken = g.inToken
             /\ q[i].grouped.inputTokens = None /\ q[i].grouped.outToken = g.outToken
             /\ q[i].grouped.outLock = IF g.outLock = EmptyBytes THEN None ELSE g.outLock
  BY GroupedFields, SMTT(60) DEF w, q
<1>4. IsList(raw.steps)
  BY DEF WellGrouped
<1>5. r = [i \in DOMAIN raw.steps |-> r[i]]
  BY <1>1, <1>2, <1>3
<1>6. IsList(r) /\ Len(r) = Len(raw.steps) /\ DOMAIN r = DOMAIN raw.steps
  BY <1>4, <1>5, RunFromSteps
<1>7. GroupedAs(w, raw) /\ GroupedAs(q, raw)
  BY <1>3, SMTT(60) DEF GroupedAs
<1>8. GroupedAs(r, raw)
  BY <1>1, <1>7
<1>9. GroupsWoven(context, v.category, raw, r)
  <2>1. CASE context = "siblings"
    BY <1>1, <1>3, <1>6, <1>8, <2>1 DEF GroupsWoven
  <2>2. CASE context # "siblings"
    BY <1>1, <1>3, <1>6, <1>8, <2>2 DEF GroupsWoven
  <2>3. QED
    BY <2>1, <2>2
<1>10. QED
  BY <1>9 DEF r

LEMMA WovenGroupsHaveAShape ==
  ASSUME NEW context \in Grouping, NEW category, NEW raw, NEW r, WellGrouped(raw), WellOrdered(context, raw),
         GroupsWoven(context, category, raw, r)
  PROVE  RunShape(r) /\ \A i \in DOMAIN r : ContextKind(r[i]) = "grouped"
<1>1. /\ IsList(r) /\ Len(r) > 0 /\ DOMAIN r = DOMAIN raw.steps /\ GroupedAs(r, raw)
      /\ Len(raw.groups) \in Nat
      /\ {raw.steps[i].group : i \in DOMAIN raw.steps} = 1 .. Len(raw.groups)
      /\ \A i \in DOMAIN raw.steps : i > 1 => raw.steps[i - 1].group <= raw.steps[i].group
  BY DEF WellOrdered, RawSteps, GroupsWoven
<1>2. \A i \in DOMAIN r :
        LET g == raw.groups[raw.steps[i].group]
        IN  r[i].grouped.inputTokens # None => Len(r[i].grouped.inputTokens) = g.hi - g.lo + 1
  <2>1. CASE context = "siblings"
    <3>1. \A i \in DOMAIN raw.steps :
            LET g == raw.groups[raw.steps[i].group]
            IN  g.inputTokens # None => Len(g.inputTokens) = g.hi - g.lo + 1
      BY <2>1 DEF WellOrdered, RawSteps
    <3>2. \A i \in DOMAIN raw.steps : r[i].grouped.inputTokens = raw.groups[raw.steps[i].group].inputTokens
      BY <2>1 DEF GroupsWoven
    <3>3. QED
      BY <1>1, <3>1, <3>2
  <2>2. CASE context # "siblings"
    <3>1. \A i \in DOMAIN raw.steps : r[i].grouped.inputTokens = None
      BY <2>2 DEF GroupsWoven
    <3>2. QED
      BY <1>1, <3>1
  <2>3. QED
    BY <2>1, <2>2
<1>3. GroupedShape(r)
  BY <1>1, <1>2, GroupsHaveAShape
<1>4. \A i \in DOMAIN r : \A k \in ContextKinds : r[i][k] # None <=> k = "grouped"
  <2>1. \A i \in DOMAIN r : r[i].covenant = None /\ r[i].grouped # None /\ r[i].intraTx = None
    BY <1>1 DEF GroupsWoven, GroupedAs
  <2>2. \A i \in DOMAIN r : r[i]["covenant"] = None /\ r[i]["grouped"] # None /\ r[i]["intraTx"] = None
    BY <2>1
  <2>3. QED
    BY <2>2 DEF ContextKinds
<1>5. "grouped" \in ContextKinds
  BY DEF ContextKinds
<1>6. QED
  BY <1>1, <1>3, <1>4, <1>5, ShapeOfKind

(* Siblings have tokens for all the inputs of their group.                  *)
LEMMA TokensForAll ==
  ASSUME NEW context, context = "siblings", NEW raw, WellOrdered(context, raw), NEW i \in DOMAIN raw.steps
  PROVE  LET g == raw.groups[raw.steps[i].group]
         IN  g.inputTokens # None => Len(g.inputTokens) = g.hi - g.lo + 1
<1>1. context \in Grouping /\ RawSteps(context, raw) = raw.steps
  BY DEF Grouping, RawSteps
<1>2. \A k \in DOMAIN raw.steps :
         LET g == raw.groups[raw.steps[k].group]
         IN  g.inputTokens # None => Len(g.inputTokens) = g.hi - g.lo + 1
  BY <1>1 DEF WellOrdered
<1>3. QED
  BY <1>2

LEMMA WovenGroupsAreOneProgram ==
  ASSUME NEW context \in Grouping, NEW category, NEW a, NEW b, NEW p, NEW r,
         WellGrouped(a), WellGrouped(b), WellOrdered(context, a), WellOrdered(context, b),
         AlikeRaws(context, a, b),
         GroupsWoven(context, category, a, p), GroupsWoven(context, category, b, r)
  PROVE  SameProgramRun(p, r)
<1>1. /\ RunShape(p) /\ \A i \in DOMAIN p : ContextKind(p[i]) = "grouped"
      /\ RunShape(r) /\ \A i \in DOMAIN r : ContextKind(r[i]) = "grouped"
  BY WovenGroupsHaveAShape
<1>2. /\ Len(p) = Len(r) /\ IsList(p) /\ IsList(r)
      /\ DOMAIN p = DOMAIN a.steps /\ DOMAIN r = DOMAIN b.steps
      /\ GroupedAs(p, a) /\ GroupedAs(r, b)
  BY DEF GroupsWoven, AlikeRaws, RawSteps
<1>3. DOMAIN r = DOMAIN p
  BY <1>2 DEF IsList
<1>4. \A i \in DOMAIN p :
         LET g == a.groups[a.steps[i].group]
             h == b.groups[a.steps[i].group]
         IN  /\ a.steps[i].lock = b.steps[i].lock /\ a.steps[i].group = b.steps[i].group
             /\ AlikeGroups(g, h)
             /\ context = "siblings" => AlikeSiblings(g, h)
  BY <1>2 DEF AlikeRaws, RawSteps
<1>5. ASSUME NEW i \in DOMAIN r PROVE SameStepProgram(p[i], r[i])
  <2> DEFINE g == a.groups[a.steps[i].group]
             h == b.groups[a.steps[i].group]
             x == p[i].grouped
             y == r[i].grouped
             I == InputsOfRun(SubSeq(a.steps, g.lo, g.hi))
             J == InputsOfRun(SubSeq(b.steps, g.lo, g.hi))
  <2>1. /\ a.steps[i].group = b.steps[i].group
        /\ AlikeGroups(g, h) /\ (context = "siblings" => AlikeSiblings(g, h))
    BY <1>3, <1>4
  <2>2. /\ x.group = a.steps[i].group /\ y.group = a.steps[i].group
        /\ x.index = i - g.lo + 1 /\ y.index = i - g.lo + 1
        /\ x.inputs = I /\ y.inputs = J
        /\ p[i].covenant = None /\ r[i].covenant = None
        /\ p[i].lock = a.steps[i].lock /\ r[i].lock = b.steps[i].lock
    <3>1. /\ x.group = a.steps[i].group /\ x.index = i - g.lo + 1 /\ x.inputs = I
          /\ p[i].covenant = None /\ p[i].lock = a.steps[i].lock
      BY <1>2, <1>3, Zenon DEF GroupedAs
    <3>2. /\ y.group = b.steps[i].group /\ y.index = i - b.groups[b.steps[i].group].lo + 1
          /\ y.inputs = InputsOfRun(SubSeq(b.steps, b.groups[b.steps[i].group].lo, b.groups[b.steps[i].group].hi))
          /\ r[i].covenant = None /\ r[i].lock = b.steps[i].lock
      BY <1>2, Zenon DEF GroupedAs
    <3>3. b.groups[b.steps[i].group].lo = g.lo /\ b.groups[b.steps[i].group].hi = g.hi
      BY <2>1 DEF AlikeGroups
    <3> HIDE DEF g, h, x, y, I
    <3>4. QED
      BY <2>1, <3>1, <3>2, <3>3 DEF J
  <2>3. /\ x.category = category /\ y.category = category
        /\ x.inToken = g.inToken /\ y.inToken = h.inToken
        /\ x.outToken = g.outToken /\ y.outToken = h.outToken
        /\ x.inputTokens = (IF context = "siblings" THEN g.inputTokens ELSE None)
        /\ y.inputTokens = (IF context = "siblings" THEN h.inputTokens ELSE None)
        /\ x.outLock = (IF g.outLock = EmptyBytes THEN None ELSE g.outLock)
        /\ y.outLock = (IF h.outLock = EmptyBytes THEN None ELSE h.outLock)
        /\ p[i].intraTx = None /\ r[i].intraTx = None
    <3>1. /\ x.category = category /\ x.inToken = g.inToken /\ x.outToken = g.outToken
          /\ x.inputTokens = (IF context = "siblings" THEN g.inputTokens ELSE None)
          /\ x.outLock = (IF g.outLock = EmptyBytes THEN None ELSE g.outLock)
          /\ p[i].intraTx = None
      BY <1>2, <1>3 DEF GroupsWoven
    <3>2. /\ y.category = category /\ y.inToken = h.inToken /\ y.outToken = h.outToken
          /\ y.inputTokens = (IF context = "siblings" THEN h.inputTokens ELSE None)
          /\ y.outLock = (IF h.outLock = EmptyBytes THEN None ELSE h.outLock)
          /\ r[i].intraTx = None
      BY <1>2, <2>1, ZenonT(30) DEF GroupsWoven
    <3>3. QED
      BY <3>1, <3>2
  <2>4. SameLockings(I, J)
    <3> DEFINE lo == g.lo
               hi == g.hi
    <3>1. IsPiece(a, p, i, lo, hi, I)
      BY <1>2, <1>3, GroupIsAPiece
    <3>2. IsPiece(b, r, i, lo, hi, J)
      <4>1. IsPiece(b, r, i, b.groups[b.steps[i].group].lo, b.groups[b.steps[i].group].hi,
                    InputsOfRun(SubSeq(b.steps, b.groups[b.steps[i].group].lo, b.groups[b.steps[i].group].hi)))
        BY <1>2, GroupIsAPiece
      <4>2. b.groups[b.steps[i].group].lo = lo /\ b.groups[b.steps[i].group].hi = hi
        BY <2>1 DEF AlikeGroups
      <4> HIDE DEF lo, hi
      <4>3. IsPiece(b, r, i, lo, hi, InputsOfRun(SubSeq(b.steps, lo, hi)))
        BY <4>1, <4>2
      <4>4. QED
        BY <4>3 DEF lo, hi
    <3>3. (\E xs : I = InputsOfRun(xs)) /\ (\E xs : J = InputsOfRun(xs))
      OBVIOUS
    <3> HIDE DEF I, J, lo, hi
    <3>4. Len(I) = hi - lo + 1 /\ Len(J) = hi - lo + 1
      BY <1>2, <3>1, <3>2, <3>3, InputsOfGroup
    <3>5. ASSUME NEW k \in DOMAIN I PROVE I[k].lock = J[k].lock
      <4>1. /\ lo \in DOMAIN p /\ hi \in DOMAIN p
            /\ DOMAIN I = 1 .. (hi - lo + 1) /\ DOMAIN J = 1 .. (hi - lo + 1)
            /\ I[k].lock = a.steps[lo + k - 1].lock
        BY <3>1, <3>2, <3>5 DEF IsPiece
      <4>2. J[k].lock = b.steps[lo + k - 1].lock
        BY <3>2, <3>5, <4>1 DEF IsPiece
      <4>3. lo + k - 1 \in DOMAIN p
        BY <1>2, <3>5, <4>1 DEF IsList
      <4>4. QED
        BY <1>4, <4>1, <4>2, <4>3
    <3>6. QED
      BY <3>4, <3>5 DEF SameLockings
  <2>5. SameGroupedProgram(x, y)
    <3>1. /\ g.outLock = h.outLock
          /\ SameTokenShape(g.inToken, h.inToken) /\ SameTokenShape(g.outToken, h.outToken)
      BY <2>1 DEF AlikeGroups
    <3>2. /\ (x.inputTokens = None) = (y.inputTokens = None)
          /\ x.inputTokens # None =>
               /\ Len(x.inputTokens) = Len(y.inputTokens)
               /\ \A k \in DOMAIN x.inputTokens : SameTokenShape(x.inputTokens[k], y.inputTokens[k])
      <4>1. CASE context = "siblings"
        <5>1. /\ (g.inputTokens = None) = (h.inputTokens = None)
              /\ g.inputTokens # None =>
                   \A k \in DOMAIN g.inputTokens : SameTokenShape(g.inputTokens[k], h.inputTokens[k])
          BY <2>1, <4>1 DEF AlikeSiblings
        <5>2. g.inputTokens # None => Len(g.inputTokens) = g.hi - g.lo + 1
          <6>1. i \in DOMAIN a.steps
            BY <1>2, <1>3
          <6>2. QED
            BY <4>1, <6>1, TokensForAll
        <5>3. h.inputTokens # None => Len(h.inputTokens) = h.hi - h.lo + 1
          <6>1. b.steps[i].group = a.steps[i].group /\ i \in DOMAIN b.steps
            BY <1>2, <2>1
          <6> HIDE DEF g, h, x, y, I, J
          <6>2. LET f == b.groups[b.steps[i].group]
                IN  f.inputTokens # None => Len(f.inputTokens) = f.hi - f.lo + 1
            BY <4>1, <6>1, TokensForAll
          <6>3. QED
            BY <6>1, <6>2 DEF h
        <5>4. g.lo = h.lo /\ g.hi = h.hi
          BY <2>1 DEF AlikeGroups
        <5>5. x.inputTokens = g.inputTokens /\ y.inputTokens = h.inputTokens
          BY <2>3, <4>1
        <5> HIDE DEF g, h, x, y
        <5>6. QED
          BY <5>1, <5>2, <5>3, <5>4, <5>5
      <4>2. CASE context # "siblings"
        BY <2>3, <4>2
      <4>3. QED
        BY <4>1, <4>2
    <3> HIDE DEF g, h, x, y, I, J
    <3>3. QED
      BY <2>2, <2>3, <2>4, <3>1, <3>2 DEF SameGroupedProgram
  <2>6. p[i].lock = r[i].lock /\ ContextKind(p[i]) = ContextKind(r[i])
    BY <1>1, <1>3, <1>4, <2>2
  <2> HIDE DEF g, h, I, J
  <2>7. QED
    BY <2>2, <2>3, <2>5, <2>6 DEF SameStepProgram
<1>6. QED
  BY <1>1, <1>2, <1>5 DEF SameProgramRun

LEMMA IntraTxRunsAreOneProgram ==
  ASSUME ContextsAreThere, NEW a, NEW b, WellOrdered("intraTx", a), WellOrdered("intraTx", b),
         AlikeRaws("intraTx", a, b)
  PROVE  SameProgramRun(ToIntraTx(a), ToIntraTx(b))
<1>1. /\ IsList(a) /\ Len(a) > 0 /\ IsList(b) /\ Len(b) > 0 /\ Len(a) = Len(b)
      /\ \A i \in DOMAIN a : a[i].lock = b[i].lock
  BY DEF WellOrdered, AlikeRaws, RawSteps, Grouping
<1>2. ASSUME NEW raw, IsList(raw), Len(raw) > 0, NEW r, r = ToIntraTx(raw)
      PROVE  /\ RunShape(r) /\ \A i \in DOMAIN r : ContextKind(r[i]) = "intraTx"
             /\ Len(r) = Len(raw) /\ DOMAIN r = DOMAIN raw
             /\ IsList(InputsOfRun(raw)) /\ Len(InputsOfRun(raw)) = Len(raw)
             /\ \A i \in DOMAIN raw : /\ r[i].lock = raw[i].lock
                                      /\ r[i].grouped = None /\ r[i].covenant = None
                                      /\ r[i].intraTx.index = i /\ r[i].intraTx.inputs = InputsOfRun(raw)
  <2>1. /\ DOMAIN r = DOMAIN raw
        /\ \A i \in DOMAIN raw : /\ r[i].lock = raw[i].lock /\ r[i].unlock = raw[i].unlock
                                 /\ r[i].grouped = None /\ r[i].covenant = None
                                 /\ r[i].intraTx = [index |-> i, inputs |-> InputsOfRun(raw)]
    BY <1>2 DEF ToIntraTx, Plain
  <2>2. \A i \in DOMAIN raw : r[i].intraTx.index = i /\ r[i].intraTx.inputs = InputsOfRun(raw)
    <3> DEFINE I == InputsOfRun(raw)
    <3>1. TAKE i \in DOMAIN raw
    <3>2. r[i].intraTx = [index |-> i, inputs |-> I]
      BY <2>1, Zenon
    <3> HIDE DEF I
    <3>3. r[i].intraTx.index = i /\ r[i].intraTx.inputs = I
      BY <3>2
    <3>4. QED
      BY <3>3 DEF I
  <2>3. r = [i \in DOMAIN raw |-> r[i]] /\ InputsOfRun(raw) = [i \in DOMAIN raw |-> InputsOfRun(raw)[i]]
    BY <1>2 DEF ToIntraTx, InputsOfRun
  <2>4. IsList(r) /\ Len(r) = Len(raw)
    BY <1>2, <2>3, RunFromSteps
  <2>5. IsList(InputsOfRun(raw)) /\ Len(InputsOfRun(raw)) = Len(raw)
    <3> DEFINE I == InputsOfRun(raw)
    <3>1. I = [i \in DOMAIN raw |-> I[i]]
      BY <2>3
    <3> HIDE DEF I
    <3>2. IsList(I) /\ Len(I) = Len(raw)
      BY <1>2, <3>1, RunFromSteps
    <3>3. QED
      BY <3>2 DEF I
  <2>6. IntraTxShape(r)
    <3>1. \A k \in DOMAIN raw : SameInput(InputsOfRun(raw)[k], r[k])
      BY <2>1 DEF InputsOfRun, SameInput
    <3>2. DOMAIN InputsOfRun(raw) = DOMAIN raw
      BY DEF InputsOfRun
    <3>3. QED
      BY <2>1, <2>2, <2>4, <2>5, <3>1, <3>2 DEF IntraTxShape
  <2>7. \A i \in DOMAIN r : r[i].intraTx # None
    <3>1. \A x, y : [index |-> x, inputs |-> y] # None
      BY DEF ContextsAreThere
    <3>2. QED
      BY <2>1, <3>1, ZenonT(30)
  <2>8. \A i \in DOMAIN r : \A k \in ContextKinds : r[i][k] # None <=> k = "intraTx"
    <3>1. \A i \in DOMAIN r : r[i]["covenant"] = None /\ r[i]["intraTx"] # None /\ r[i]["grouped"] = None
      BY <2>1, <2>7
    <3>2. QED
      BY <3>1 DEF ContextKinds
  <2>9. "intraTx" \in ContextKinds
    BY DEF ContextKinds
  <2>10. RunShape(r) /\ \A i \in DOMAIN r : ContextKind(r[i]) = "intraTx"
    BY <1>2, <2>4, <2>6, <2>8, <2>9, ShapeOfKind
  <2>11. QED
    BY <2>1, <2>2, <2>4, <2>5, <2>10
<1> DEFINE p == ToIntraTx(a)
           r == ToIntraTx(b)
<1>3. /\ RunShape(p) /\ \A i \in DOMAIN p : ContextKind(p[i]) = "intraTx"
      /\ Len(p) = Len(a) /\ DOMAIN p = DOMAIN a
      /\ IsList(InputsOfRun(a)) /\ Len(InputsOfRun(a)) = Len(a)
      /\ \A i \in DOMAIN a : /\ p[i].lock = a[i].lock
                             /\ p[i].grouped = None /\ p[i].covenant = None
                             /\ p[i].intraTx.index = i /\ p[i].intraTx.inputs = InputsOfRun(a)
  BY <1>1, <1>2
<1>4. /\ RunShape(r) /\ \A i \in DOMAIN r : ContextKind(r[i]) = "intraTx"
      /\ Len(r) = Len(b) /\ DOMAIN r = DOMAIN b
      /\ IsList(InputsOfRun(b)) /\ Len(InputsOfRun(b)) = Len(b)
      /\ \A i \in DOMAIN b : /\ r[i].lock = b[i].lock
                             /\ r[i].grouped = None /\ r[i].covenant = None
                             /\ r[i].intraTx.index = i /\ r[i].intraTx.inputs = InputsOfRun(b)
  BY <1>1, <1>2
<1>5. DOMAIN a = DOMAIN b
  BY <1>1 DEF IsList
<1>6. SameLockings(InputsOfRun(a), InputsOfRun(b))
  <2>1. /\ DOMAIN InputsOfRun(a) = DOMAIN a
        /\ \A k \in DOMAIN a : InputsOfRun(a)[k].lock = a[k].lock
        /\ \A k \in DOMAIN b : InputsOfRun(b)[k].lock = b[k].lock
    BY DEF InputsOfRun
  <2>2. QED
    BY <1>1, <1>3, <1>4, <1>5, <2>1 DEF SameLockings
<1> HIDE DEF p, r
<1>7. \A i \in DOMAIN r : SameStepProgram(p[i], r[i])
  BY <1>1, <1>3, <1>4, <1>5, <1>6 DEF SameStepProgram
<1>8. SameProgramRun(p, r)
  BY <1>1, <1>3, <1>4, <1>7 DEF SameProgramRun
<1>9. QED
  BY <1>8 DEF p, r

(* Steps that carry a token, with the same rights to the same lockings.     *)
LEMMA CovenantRunsAreOneProgram ==
  ASSUME NEW p, NEW r, IsList(p), IsList(r), Len(p) > 0, Len(r) = Len(p),
         \A i \in DOMAIN p : /\ p[i].intraTx = None /\ p[i].grouped = None
                             /\ r[i].intraTx = None /\ r[i].grouped = None
                             /\ p[i].covenant # None /\ r[i].covenant # None
                             /\ p[i].lock = r[i].lock
                             /\ SameCovenantProgram(p[i].covenant, r[i].covenant)
  PROVE  SameProgramRun(p, r)
<1>1. DOMAIN p = DOMAIN r
  BY DEF IsList
<1>2. "covenant" \in ContextKinds
  BY DEF ContextKinds
<1>3. /\ \A i \in DOMAIN p : \A k \in ContextKinds : p[i][k] # None <=> k = "covenant"
      /\ \A i \in DOMAIN r : \A k \in ContextKinds : r[i][k] # None <=> k = "covenant"
  <2>1. \A i \in DOMAIN p : /\ p[i]["covenant"] # None /\ p[i]["intraTx"] = None /\ p[i]["grouped"] = None
                            /\ r[i]["covenant"] # None /\ r[i]["intraTx"] = None /\ r[i]["grouped"] = None
    OBVIOUS
  <2>2. QED
    BY <1>1, <2>1 DEF ContextKinds
<1>4. RunShape(p) /\ \A i \in DOMAIN p : ContextKind(p[i]) = "covenant"
  BY <1>2, <1>3, ShapeOfKind
<1>5. RunShape(r) /\ \A i \in DOMAIN r : ContextKind(r[i]) = "covenant"
  BY <1>2, <1>3, ShapeOfKind
<1>6. \A i \in DOMAIN r : SameStepProgram(p[i], r[i])
  BY <1>1, <1>4, <1>5 DEF SameStepProgram
<1>7. QED
  BY <1>4, <1>5, <1>6 DEF SameProgramRun

LEMMA CarriedAlike ==
  ASSUME NEW c, NEW d, NEW i, NEW b, NEW l, c.category = d.category, c.capability = d.capability
  PROVE  SameCovenantProgram(Carried(c, i, b, l), Carried(d, i, b, l))
BY DEF SameCovenantProgram, Carried

LEMMA ThreadSteps ==
  ASSUME NEW raw, NEW r, r = ToThread(raw)
  PROVE  \A i \in DOMAIN raw :
           /\ r[i].lock = raw[i].lock /\ r[i].intraTx = None /\ r[i].grouped = None
           /\ r[i].covenant = IF raw[i].covenant = None THEN None
                              ELSE Carried(raw[i].covenant, None, FALSE, raw[i].covenant.outLock)
<1> DEFINE made(i) == IF raw[i].covenant = None THEN None
                      ELSE Carried(raw[i].covenant, None, FALSE, raw[i].covenant.outLock)
<1>1. \A i \in DOMAIN raw : r[i] = [Plain(raw[i]) EXCEPT !.covenant = made(i)]
  BY Zenon DEF ToThread
<1> HIDE DEF made
<1>2. \A i \in DOMAIN raw : /\ r[i].lock = raw[i].lock /\ r[i].covenant = made(i)
                            /\ r[i].intraTx = None /\ r[i].grouped = None
  BY <1>1 DEF Plain
<1>3. QED
  BY <1>2 DEF made

HandedTo(lockings, i) == IF i + 1 \in DOMAIN lockings THEN lockings[i + 1] ELSE lockings[i]

LEMMA SuccessorSteps ==
  ASSUME NEW raw, NEW lockings
  PROVE  \A i \in DOMAIN raw : /\ ToSuccessor(raw, lockings)[i].lock = lockings[i]
                               /\ ToSuccessor(raw, lockings)[i].intraTx = None
                               /\ ToSuccessor(raw, lockings)[i].grouped = None
BY DEF ToSuccessor, Plain

LEMMA SuccessorCovenants ==
  ASSUME NEW raw, NEW lockings
  PROVE  \A i \in DOMAIN raw :
            ToSuccessor(raw, lockings)[i].covenant
              = Carried(raw[i].covenant, None, FALSE, HandedTo(lockings, i))
<1> DEFINE r       == ToSuccessor(raw, lockings)
           made(i) == Carried(raw[i].covenant, None, FALSE, HandedTo(lockings, i))
<1>1. \A i \in DOMAIN raw : r[i] = [Plain(raw[i]) EXCEPT !.lock = lockings[i], !.covenant = made(i)]
  BY Zenon DEF ToSuccessor, HandedTo
<1> HIDE DEF made, r
<1>2. \A i \in DOMAIN raw : r[i].covenant = made(i)
  BY <1>1 DEF Plain
<1>3. QED
  BY <1>2, Zenon DEF made, r

LEMMA ChainsAreOneProgram ==
  ASSUME CovenantsAreThere, NEW context \in {"thread", "kinded", "successor"}, NEW v, NEW a, NEW b,
         WellOrdered(context, a), WellOrdered(context, b), AlikeRaws(context, a, b)
  PROVE  SameProgramRun(ToRun(context, v, a), ToRun(context, v, b))
<1>1. /\ IsList(a) /\ Len(a) > 0 /\ IsList(b) /\ Len(b) > 0 /\ Len(a) = Len(b)
      /\ \A i \in DOMAIN a : a[i].lock = b[i].lock
      /\ 1 \in DOMAIN a
  BY SMTT(30) DEF WellOrdered, AlikeRaws, RawSteps, Grouping, IsList
<1>2. DOMAIN a = DOMAIN b
  BY <1>1 DEF IsList
<1> DEFINE p == ToRun(context, v, a)
           r == ToRun(context, v, b)
<1>3. /\ IsList(p) /\ Len(p) = Len(a) /\ DOMAIN p = DOMAIN a
      /\ IsList(r) /\ Len(r) = Len(b) /\ DOMAIN r = DOMAIN b
  <2>1. CASE context = "thread"
    <3>1. p = ToThread(a) /\ r = ToThread(b)
      BY <2>1 DEF ToRun
    <3>2. QED
      BY <1>1, <3>1, RunFromSteps DEF ToThread
  <2>2. CASE context = "kinded"
    <3>1. p = ToKindedThread(a) /\ r = ToKindedThread(b)
      BY <2>2 DEF ToRun
    <3>2. QED
      BY <1>1, <3>1, RunFromSteps DEF ToKindedThread
  <2>3. CASE context = "successor"
    <3>1. p = ToSuccessor(a, v.selected) /\ r = ToSuccessor(b, v.selected)
      BY <2>3 DEF ToRun
    <3>2. QED
      BY <1>1, <3>1, RunFromSteps, ZenonT(60) DEF ToSuccessor
  <2>4. QED
    BY <2>1, <2>2, <2>3
<1>4. \A c, i, x, l : Carried(c, i, x, l) # None
  BY DEF CovenantsAreThere
<1>5. CASE context = "thread"
  <2>1. p = ToThread(a) /\ r = ToThread(b)
    BY <1>5 DEF ToRun
  <2>2. \A i \in DOMAIN a :
           /\ p[i].lock = a[i].lock /\ p[i].intraTx = None /\ p[i].grouped = None
           /\ p[i].covenant = IF a[i].covenant = None THEN None
                              ELSE Carried(a[i].covenant, None, FALSE, a[i].covenant.outLock)
    BY <2>1, ThreadSteps
  <2>3. \A i \in DOMAIN b :
           /\ r[i].lock = b[i].lock /\ r[i].intraTx = None /\ r[i].grouped = None
           /\ r[i].covenant = IF b[i].covenant = None THEN None
                              ELSE Carried(b[i].covenant, None, FALSE, b[i].covenant.outLock)
    BY <2>1, ThreadSteps
  <2> HIDE DEF p, r
  <2>4. \A i \in DOMAIN a : /\ (a[i].covenant = None) = (b[i].covenant = None)
                            /\ a[i].covenant # None => AlikeCovenants(a[i].covenant, b[i].covenant)
    BY <1>5 DEF AlikeRaws, RawSteps, Grouping
  <2>5. \A i, j \in DOMAIN a : a[i].covenant = None => a[j].covenant = None
    BY <1>5 DEF WellOrdered, RawSteps, Grouping
  <2>6. CASE a[1].covenant = None
    <3>1. \A i \in DOMAIN a : p[i].covenant = None /\ r[i].covenant = None
      BY <1>1, <1>2, <2>2, <2>3, <2>4, <2>5, <2>6, ZenonT(60)
    <3>2. \A i \in DOMAIN a :
             /\ p[i]["covenant"] = None /\ p[i]["intraTx"] = None /\ p[i]["grouped"] = None
             /\ r[i]["covenant"] = None /\ r[i]["intraTx"] = None /\ r[i]["grouped"] = None
      BY <1>2, <2>2, <2>3, <3>1
    <3>3. BareSteps(p) /\ BareSteps(r)
      BY <1>2, <1>3, <3>2 DEF BareSteps, ContextKinds
    <3>4. \A i \in DOMAIN r : r[i].lock = p[i].lock
      BY <1>1, <1>2, <1>3, <2>2, <2>3
    <3>5. SameProgramRun(p, r)
      BY <1>1, <1>3, <3>3, <3>4, BareStepsAreOneProgram
    <3>6. QED
      BY <3>5 DEF p, r
  <2>7. CASE a[1].covenant # None
    <3>1. \A i \in DOMAIN a : a[i].covenant # None /\ b[i].covenant # None
      BY <1>1, <2>4, <2>5, <2>7
    <3>2. ASSUME NEW i \in DOMAIN a
          PROVE  /\ p[i].covenant # None /\ r[i].covenant # None
                 /\ SameCovenantProgram(p[i].covenant, r[i].covenant)
      <4> DEFINE c == a[i].covenant
                 d == b[i].covenant
      <4>1. AlikeCovenants(c, d)
        BY <2>4, <3>1
      <4>2. c.category = d.category /\ c.capability = d.capability /\ c.outLock = d.outLock
        BY <4>1 DEF AlikeCovenants
      <4>3. /\ p[i].covenant = Carried(c, None, FALSE, c.outLock)
            /\ r[i].covenant = Carried(d, None, FALSE, d.outLock)
        BY <1>2, <2>2, <2>3, <3>1
      <4> HIDE DEF c, d
      <4>4. SameCovenantProgram(Carried(c, None, FALSE, c.outLock), Carried(d, None, FALSE, c.outLock))
        BY <4>2, CarriedAlike
      <4>5. p[i].covenant # None /\ r[i].covenant # None
        BY <1>4, <4>3
      <4>6. QED
        BY <4>2, <4>3, <4>4, <4>5
    <3>3. \A i \in DOMAIN p : /\ p[i].intraTx = None /\ p[i].grouped = None
                              /\ r[i].intraTx = None /\ r[i].grouped = None
                              /\ p[i].lock = r[i].lock
      BY <1>1, <1>2, <1>3, <2>2, <2>3
    <3>4. SameProgramRun(p, r)
      BY <1>1, <1>3, <3>2, <3>3, CovenantRunsAreOneProgram
    <3>5. QED
      BY <3>4 DEF p, r
  <2>8. QED
    BY <2>6, <2>7
<1>6. CASE context = "kinded"
  <2>1. p = ToKindedThread(a) /\ r = ToKindedThread(b)
    BY <1>6 DEF ToRun
  <2>2. \A i \in DOMAIN a :
           /\ p[i].lock = a[i].lock /\ p[i].intraTx = None /\ p[i].grouped = None
           /\ p[i].covenant = Carried(a[i].covenant, SpentCapability(a[i]), a[i].kind = "genesis", a[i].covenant.outLock)
    BY <2>1 DEF ToKindedThread, Plain
  <2>3. \A i \in DOMAIN b :
           /\ r[i].lock = b[i].lock /\ r[i].intraTx = None /\ r[i].grouped = None
           /\ r[i].covenant = Carried(b[i].covenant, SpentCapability(b[i]), b[i].kind = "genesis", b[i].covenant.outLock)
    BY <2>1 DEF ToKindedThread, Plain
  <2> HIDE DEF p, r
  <2>4. \A i \in DOMAIN a : AlikeCovenants(a[i].covenant, b[i].covenant) /\ a[i].kind = b[i].kind
    BY <1>6 DEF AlikeRaws, RawSteps, Grouping
  <2>5. ASSUME NEW i \in DOMAIN a
        PROVE  /\ p[i].covenant # None /\ r[i].covenant # None
               /\ SameCovenantProgram(p[i].covenant, r[i].covenant)
    <3> DEFINE c == a[i].covenant
               d == b[i].covenant
               k == SpentCapability(a[i])
               g == (a[i].kind = "genesis")
    <3>1. c.category = d.category /\ c.capability = d.capability /\ c.outLock = d.outLock
      BY <2>4 DEF AlikeCovenants
    <3>2. SpentCapability(b[i]) = k /\ a[i].kind = b[i].kind
      BY <2>4, <3>1 DEF SpentCapability
    <3>3. p[i].covenant = Carried(c, k, g, c.outLock)
      BY <2>2
    <3>4. r[i].covenant = Carried(d, k, g, d.outLock)
      BY <1>2, <2>3, <3>2
    <3> HIDE DEF c, d, k, g
    <3>5. SameCovenantProgram(Carried(c, k, g, c.outLock), Carried(d, k, g, c.outLock))
      BY <3>1, CarriedAlike
    <3>6. QED
      BY <1>4, <3>1, <3>3, <3>4, <3>5
  <2>6. SameProgramRun(p, r)
    BY <1>1, <1>2, <1>3, <2>2, <2>3, <2>5, CovenantRunsAreOneProgram
  <2>7. QED
    BY <2>6 DEF p, r
<1>7. CASE context = "successor"
  <2> DEFINE chosen == v.selected
  <2>1. p = ToSuccessor(a, chosen) /\ r = ToSuccessor(b, chosen)
    BY <1>7 DEF ToRun
  <2> HIDE DEF p, r, chosen
  <2>2. \A i \in DOMAIN a : /\ p[i].lock = chosen[i] /\ p[i].intraTx = None /\ p[i].grouped = None
                            /\ r[i].lock = chosen[i] /\ r[i].intraTx = None /\ r[i].grouped = None
    BY <1>2, <2>1, SuccessorSteps
  <2>3. /\ \A i \in DOMAIN a : p[i].covenant = Carried(a[i].covenant, None, FALSE, HandedTo(chosen, i))
        /\ \A i \in DOMAIN a : r[i].covenant = Carried(b[i].covenant, None, FALSE, HandedTo(chosen, i))
    BY <1>2, <2>1, SuccessorCovenants
  <2>4. \A i \in DOMAIN a : AlikeCovenants(a[i].covenant, b[i].covenant)
    BY <1>7 DEF AlikeRaws, RawSteps, Grouping
  <2>5. ASSUME NEW i \in DOMAIN a
        PROVE  /\ p[i].covenant # None /\ r[i].covenant # None
               /\ SameCovenantProgram(p[i].covenant, r[i].covenant)
    <3> DEFINE c == a[i].covenant
               d == b[i].covenant
    <3>1. c.category = d.category /\ c.capability = d.capability
      BY <2>4 DEF AlikeCovenants
    <3>2. p[i].covenant = Carried(c, None, FALSE, HandedTo(chosen, i)) /\ r[i].covenant = Carried(d, None, FALSE, HandedTo(chosen, i))
      BY <2>3
    <3> HIDE DEF c, d
    <3>3. SameCovenantProgram(Carried(c, None, FALSE, HandedTo(chosen, i)), Carried(d, None, FALSE, HandedTo(chosen, i)))
      BY <3>1, CarriedAlike
    <3>4. QED
      BY <1>4, <3>2, <3>3
  <2>6. SameProgramRun(p, r)
    BY <1>1, <1>2, <1>3, <2>2, <2>5, CovenantRunsAreOneProgram
  <2>7. QED
    BY <2>6 DEF p, r
<1>8. QED
  BY <1>5, <1>6, <1>7

(* Raw runs that are alike are woven into runs of one program.              *)
LEMMA RawsAreOneProgram ==
  ASSUME ContextsAreThere, CovenantsAreThere, NEW context \in LoadContexts, NEW v, NEW a, NEW b,
         context \in Grouping => WellGrouped(a) /\ WellGrouped(b),
         WellOrdered(context, a), WellOrdered(context, b), AlikeRaws(context, a, b)
  PROVE  SameProgramRun(ToRun(context, v, a), ToRun(context, v, b))
<1>1. CASE context = "intraTx"
  <2>1. ToRun(context, v, a) = ToIntraTx(a) /\ ToRun(context, v, b) = ToIntraTx(b)
    BY <1>1 DEF ToRun
  <2>2. SameProgramRun(ToIntraTx(a), ToIntraTx(b))
    BY <1>1, IntraTxRunsAreOneProgram
  <2>3. QED
    BY <2>1, <2>2
<1>2. CASE context \in Grouping
  <2> DEFINE p == ToRun(context, v, a)
             r == ToRun(context, v, b)
             n == v.category
  <2>1. GroupsWoven(context, n, a, p) /\ GroupsWoven(context, n, b, r)
    BY <1>2, GroupsAreWoven
  <2> HIDE DEF p, r, n
  <2>2. SameProgramRun(p, r)
    BY <1>2, <2>1, WovenGroupsAreOneProgram
  <2>3. QED
    BY <2>2 DEF p, r
<1>3. CASE context \in {"thread", "kinded", "successor"}
  BY <1>3, ChainsAreOneProgram
<1>4. QED
  BY <1>1, <1>2, <1>3 DEF LoadContexts, Grouping

(* The scenarios that are not woven: single steps of one locking, or one    *)
(* run only.                                                                *)
LEMMA BareScenarios ==
  ASSUME NEW e \in Registry \cup Candidates, NEW v, WholeFiles(e.load, v),
         e.load.form \notin WovenForms, NEW s, s = Load(e, v), s # None
  PROVE  \/ \E lock : \A r \in Runs(s) : SingleOf(lock, r)
         \/ IsList(s.valid) /\ Len(s.valid) > 0 /\ \A r \in Runs(s) : r = s.valid
<1> DEFINE load == e.load
<1>1. KnownLoad(load) /\ load.form \in Forms
  BY EntriesAreKnown DEF Known, KnownLoad
<1>2. CASE load.form = "singleton"
  <2>1. s = SingletonOf(load, v)
    BY <1>2 DEF Load
  <2>2. \A r \in Runs(s) : SingleOf(v.lock, r)
    BY <1>2, <2>1, SingletonIsMadeAlike DEF WholeFiles
  <2>3. QED
    BY <2>2
<1>3. CASE load.form = "rolled"
  <2>1. s = RolledOf(v)
    BY <1>3 DEF Load
  <2>2. \A r \in Runs(s) : SingleOf(P2sh32(v.lock), r)
    BY <1>3, <2>1, RolledIsMadeAlike DEF WholeFiles, WovenForms
  <2>3. QED
    BY <2>2
<1>4. CASE load.form \in {"fixtures", "fixturesP2sh"}
  <2>1. s = FixturesOf(FALSE, v) \/ s = FixturesOf(TRUE, v)
    BY <1>4 DEF Load
  <2>2. PICK wrapped \in BOOLEAN : s = FixturesOf(wrapped, v)
    BY <2>1
  <2>3. \E lock : \A r \in Runs(s) : MadeAlike(load, v, s, r) /\ SingleOf(lock, r)
    BY <1>4, <2>2, FixturesAreMadeAlike DEF WholeFiles, WovenForms
  <2>4. QED
    BY <2>3
<1>5. ASSUME NEW valid, IsList(valid), Len(valid) > 0, s.valid = valid, s.extras = << >>, s.worst = None
      PROVE  IsList(s.valid) /\ Len(s.valid) > 0 /\ \A r \in Runs(s) : r = s.valid
  BY <1>5 DEF Runs, Elements
<1>6. CASE load.form \in {"shamir", "twoloop"}
  <2>1. s.valid = Chunks(v) /\ s.extras = << >> /\ s.worst = None
    <3>1. CASE load.form = "shamir"
      BY <3>1, SoleRuns DEF Load
    <3>2. CASE load.form = "twoloop"
      BY <3>2, SoleRuns DEF Load
    <3>3. QED
      BY <1>6, <3>1, <3>2
  <2>2. IsList(v.valid) /\ Len(v.valid) > 0
    BY <1>6 DEF WholeFiles
  <2> DEFINE x == Chunks(v)
             y == v.valid
  <2>3. x = [i \in DOMAIN y |-> x[i]]
    BY DEF Chunks
  <2> HIDE DEF x, y
  <2>4. IsList(x) /\ Len(x) = Len(y)
    BY <2>2, <2>3, RunFromSteps DEF y
  <2>5. IsList(Chunks(v)) /\ Len(Chunks(v)) > 0
    BY <2>2, <2>4 DEF x, y
  <2>6. QED
    BY <1>5, <2>1, <2>5
<1>7. CASE load.form = "one"
  <2> DEFINE q == << Plain(v.valid[1]) >>
  <2>1. s.valid = q /\ s.extras = << >> /\ s.worst = None
    BY <1>7, SoleRuns DEF Load
  <2>2. IsList(q) /\ Len(q) > 0
    BY DEF IsList
  <2>3. QED
    BY <1>5, <2>1, <2>2
<1>8. CASE load.form = "demo"
  <2>1. s = DemoOf(v)
    BY <1>8 DEF Load
  <2>2. PICK q : DemoOf(v) = Tamperable(q) /\ LoneSteps(q) /\ Len(q) = 3 /\ IsList(q)
    BY SoleRuns
  <2>3. s.valid = q /\ s.extras = << >> /\ s.worst = None
    BY <2>1, <2>2, SoleRuns
  <2>4. IsList(q) /\ Len(q) > 0
    BY <2>2
  <2>5. QED
    BY <1>5, <2>3, <2>4
<1>9. QED
  BY <1>1, <1>2, <1>3, <1>4, <1>6, <1>7, <1>8 DEF Forms, WovenForms

(* Every honest run of a loaded scenario is a run of its program.           *)
LEMMA LoadIsOneProgram ==
  ASSUME ContextsAreThere, CovenantsAreThere, NEW e \in Registry \cup Candidates, NEW v,
         WholeFiles(e.load, v), AlikeFiles(e.load, v), NEW s, s = Load(e, v), s # None, NEW r \in Runs(s)
  PROVE  SameProgramRun(s.valid, r)
<1> DEFINE load    == e.load
           context == WovenAs(load)
<1>1. MadeAlike(load, v, s, r)
  BY LoadIsMadeAlike
<1>2. CASE load.form \in WovenForms
  <2>1. PICK raw \in HonestRaws(load, v), first \in HonestRaws(load, v) :
            s.valid = ToRun(context, v, first) /\ r = ToRun(context, v, raw)
    BY <1>1, <1>2 DEF MadeAlike
  <2>2. /\ context \in LoadContexts
        /\ context \in Grouping => WellGrouped(first) /\ WellGrouped(raw)
    BY HonestRawsAreWhole
  <2>3. WellOrdered(context, first) /\ WellOrdered(context, raw) /\ AlikeRaws(context, first, raw)
    BY DEF AlikeFiles
  <2> HIDE DEF context, load
  <2>4. SameProgramRun(ToRun(context, v, first), ToRun(context, v, raw))
    BY <2>2, <2>3, RawsAreOneProgram
  <2>5. QED
    BY <2>1, <2>4
<1>3. CASE load.form \notin WovenForms
  <2>1. BareSteps(s.valid) /\ BareSteps(r) /\ s.valid \in Runs(s)
    BY <1>1, <1>3 DEF MadeAlike, LoneSteps, Runs
  <2>2. \/ \E lock : \A q \in Runs(s) : SingleOf(lock, q)
        \/ IsList(s.valid) /\ Len(s.valid) > 0 /\ \A q \in Runs(s) : q = s.valid
    BY <1>3, BareScenarios
  <2>3. CASE \E lock : \A q \in Runs(s) : SingleOf(lock, q)
    <3>1. PICK lock : \A q \in Runs(s) : SingleOf(lock, q)
      BY <2>3
    <3>2. /\ IsList(s.valid) /\ IsList(r) /\ Len(s.valid) > 0 /\ Len(r) = Len(s.valid)
          /\ \A i \in DOMAIN r : r[i].lock = s.valid[i].lock
      BY <2>1, <3>1 DEF SingleOf, IsList
    <3>3. QED
      BY <2>1, <3>2, BareStepsAreOneProgram
  <2>4. CASE IsList(s.valid) /\ Len(s.valid) > 0 /\ \A q \in Runs(s) : q = s.valid
    <3>1. /\ IsList(s.valid) /\ IsList(r) /\ Len(s.valid) > 0 /\ Len(r) = Len(s.valid)
          /\ \A i \in DOMAIN r : r[i].lock = s.valid[i].lock
      BY <2>4
    <3>2. QED
      BY <2>1, <3>1, BareStepsAreOneProgram
  <2>5. QED
    BY <2>2, <2>3, <2>4
<1>4. QED
  BY <1>2, <1>3

-----------------------------------------------------------------------------
(* The verdict                                                              *)

(* A scenario that is refused is one the contract does not accept, with the *)
(* locators of its entry.                                                   *)
RefusedIsChecked ==
    /\ verdict = "throws" /\ case # None => ~HonestRuns(case.locators, case.scenario)
    /\ verdict \in {"unchecked", "returns", "throws"}

LEMMA RefusedStays ==
  ASSUME RefusedIsChecked, [Next]_vars
  PROVE  RefusedIsChecked'
<1>1. CASE LoadEntry
  BY <1>1 DEF LoadEntry, RefusedIsChecked
<1>2. CASE AssertHonestRuns
  BY <1>2 DEF AssertHonestRuns, RefusedIsChecked
<1>3. CASE Measure
  BY <1>3 DEF Measure, RefusedIsChecked
<1>4. CASE UNCHANGED vars
  BY <1>4 DEF vars, RefusedIsChecked
<1>5. QED
  BY <1>1, <1>2, <1>3, <1>4 DEF Next

LEMMA RefusedMeansChecked == Spec => []RefusedIsChecked
<1>1. Init => RefusedIsChecked
  BY DEF Init, RefusedIsChecked
<1>2. RefusedIsChecked /\ [Next]_vars => RefusedIsChecked'
  BY RefusedStays
<1>3. QED
  BY <1>1, <1>2, PTL DEF Spec

(* A scenario of one program whose proofs are where they are declared is    *)
(* refused for a repeated fingerprint only.                                 *)
LEMMA RefusedForARepeat ==
  ASSUME NEW s, NEW ls, TypedLocators(ls), s.extras \in Seq(Runs(s)),
         \A r \in Runs(s) : SameProgramRun(s.valid, r),
         \A k \in DOMAIN ls : \A r \in Runs(s) : Located(r, ls[k]),
         ~HonestRuns(ls, s)
  PROVE  LET honest == HonestList(s)
         IN  \E i, j \in DOMAIN honest : i < j /\ SameProof(honest[i], honest[j], ls)
<1> DEFINE honest == HonestList(s)
<1>1. s.valid \in Runs(s) /\ (s.worst # None => s.worst \in Runs(s))
  BY DEF Runs
<1>2. \A i \in DOMAIN s.extras : s.extras[i] \in Runs(s)
  OBVIOUS
<1>3. \A i \in DOMAIN honest : honest[i] \in Runs(s)
  <2>1. << s.valid >> \in Seq(Runs(s))
    BY <1>1
  <2>2. honest \in Seq(Runs(s))
    BY <2>1, ConcatProperties DEF HonestList
  <2> HIDE DEF honest
  <2>3. QED
    BY <2>2
<1>4. RunShape(s.valid)
  BY <1>1 DEF SameProgramRun
<1>5. \E i, j \in DOMAIN honest :
         i < j /\ ProofFingerprint(honest[i], ls) = ProofFingerprint(honest[j], ls)
  BY <1>1, <1>2, <1>3, <1>4 DEF HonestRuns
<1> HIDE DEF honest
<1>6. PICK i \in DOMAIN honest, j \in DOMAIN honest :
         i < j /\ ProofFingerprint(honest[i], ls) = ProofFingerprint(honest[j], ls)
  BY <1>5
<1>7. SameProof(honest[i], honest[j], ls)
  BY <1>3, <1>6, SameFingerprintSameProof
<1>8. QED
  BY <1>6, <1>7 DEF honest

(* From files of one program, only repeats are refused.                     *)
LEMMA LoadedRefusals ==
  ASSUME ContextsAreThere, CovenantsAreThere, RefusedIsChecked, LoadedIsLoad, TypedFiles,
         ProgramFiles, ProofsAreFound, TypedProofs
  PROVE  OnlyRepeatsAreRefused
<1>1. SUFFICES ASSUME Loaded, verdict = "throws"
      PROVE  LET honest == HonestList(case.scenario)
             IN  \E i, j \in DOMAIN honest : i < j /\ SameProof(honest[i], honest[j], case.locators)
  BY Zenon DEF OnlyRepeatsAreRefused
<1> DEFINE e  == entry.impl
           v  == entry.files
           s  == case.scenario
           ls == case.locators
<1>2. s = Load(e, v) /\ s # None
  BY <1>1 DEF LoadedIsLoad
<1>3. ContextsAreThere /\ e \in Registry \cup Candidates /\ WholeFiles(e.load, v) /\ AlikeFiles(e.load, v)
  BY <1>1 DEF TypedFiles, ProgramFiles, Loaded
<1>4. ~HonestRuns(ls, s) /\ TypedLocators(ls) /\ s.extras \in Seq(Runs(s))
  BY <1>1 DEF RefusedIsChecked, TypedProofs, Loaded
<1>5. \A k \in DOMAIN ls : \A r \in Runs(s) : Located(r, ls[k])
  BY <1>1 DEF ProofsAreFound
<1> HIDE DEF e, v, s, ls
<1>6. \A r \in Runs(s) : SameProgramRun(s.valid, r)
  BY <1>1, <1>2, <1>3, LoadIsOneProgram
<1>7. LET honest == HonestList(s)
      IN  \E i, j \in DOMAIN honest : i < j /\ SameProof(honest[i], honest[j], ls)
  BY <1>4, <1>5, <1>6, RefusedForARepeat
<1>8. QED
  BY <1>7 DEF s, ls

-----------------------------------------------------------------------------
(* What the entries declare of their scripts                                *)

(* An absent offset is not a number.                                        *)
NoneIsNoNumber == None \notin Int

(* Bytes x of length n and bytes y of length m, or pushes, overlap.         *)
Meet(x, n, y, m) ==
    /\ x.input = y.input /\ x.push = y.push
    /\ \/ x.offset = None \/ y.offset = None
       \/ (x.offset .. (x.offset + n - 1)) \cap (y.offset .. (y.offset + m - 1)) # {}

SlotsApart(slots) == \A s, t \in slots : s.name # t.name => ~Meet(s, SlotBytes, t, SlotBytes)

ProofApart(proof, slots) == \A l \in Elements(proof), s \in slots : ~Meet(l, Given(l.length, 0), s, SlotBytes)

(* Whole pushes that are others.                                            *)
LEMMA NumbersAreApart ==
  ASSUME NEW I \in SUBSET Int, NEW a \in SUBSET Int, NEW b \in SUBSET Int, a \cap b = {}
  PROVE  SlotsApart(Numbers(I, a, b))
<1>1. SUFFICES ASSUME NEW s \in Numbers(I, a, b), NEW t \in Numbers(I, a, b), s.name # t.name
      PROVE  s.push # t.push
  BY DEF SlotsApart, Meet
<1>2. \/ s.name = "n0" /\ \E p \in a : s.push = p + 1
      \/ s.name = "n1" /\ \E p \in b : s.push = p + 1
  BY DEF Numbers, Slot
<1>3. \/ t.name = "n0" /\ \E p \in a : t.push = p + 1
      \/ t.name = "n1" /\ \E p \in b : t.push = p + 1
  BY DEF Numbers, Slot
<1>4. QED
  BY <1>1, <1>2, <1>3

(* Fields of one push that keep a distance.                                 *)
LEMMA FieldsAreApart ==
  ASSUME NoneIsNoNumber, NEW I \in SUBSET Int, NEW p \in Int, NEW a \in SUBSET Int, NEW b \in SUBSET Int,
         \A x \in a, y \in b : x + SlotBytes <= y \/ y + SlotBytes <= x
  PROVE  SlotsApart(Fields(I, p, a, b))
<1>1. SUFFICES ASSUME NEW s \in Fields(I, p, a, b), NEW t \in Fields(I, p, a, b), s.name # t.name,
                      Meet(s, SlotBytes, t, SlotBytes)
      PROVE  FALSE
  BY DEF SlotsApart
<1>2. (s.offset \in a /\ s.name = "n0") \/ (s.offset \in b /\ s.name = "n1")
  BY DEF Fields, Slot
<1>3. (t.offset \in a /\ t.name = "n0") \/ (t.offset \in b /\ t.name = "n1")
  BY DEF Fields, Slot
<1>4. s.offset \in Int /\ t.offset \in Int
  BY <1>2, <1>3
<1>5. PICK k : k \in s.offset .. (s.offset + SlotBytes - 1) /\ k \in t.offset .. (t.offset + SlotBytes - 1)
  BY <1>1, <1>4 DEF Meet, NoneIsNoNumber
<1>6. s.offset + SlotBytes <= t.offset \/ t.offset + SlotBytes <= s.offset
  BY <1>1, <1>2, <1>3
<1>7. QED
  BY <1>4, <1>5, <1>6 DEF SlotBytes

LEMMA OthersAreApart ==
  ASSUME NEW S, NEW T, SlotsApart(S), SlotsApart(T),
         \A s \in S, t \in T : s.input # t.input \/ s.push # t.push
  PROVE  SlotsApart(S \cup T)
<1>1. \A s \in S, t \in T : ~Meet(s, SlotBytes, t, SlotBytes) /\ ~Meet(t, SlotBytes, s, SlotBytes)
  BY DEF Meet
<1>2. QED
  BY <1>1 DEF SlotsApart

LEMMA InputOfNumbers ==
  ASSUME NEW I \in SUBSET Int, NEW a, NEW b, NEW s \in Numbers(I, a, b)
  PROVE  \E i \in I : s.input = i + 1
BY DEF Numbers, Slot

LEMMA InputOfFields ==
  ASSUME NEW I \in SUBSET Int, NEW p, NEW a, NEW b, NEW s \in Fields(I, p, a, b)
  PROVE  \E i \in I : s.input = i + 1
BY DEF Fields, Slot

LEMMA NumbersOfInputs ==
  ASSUME NEW I \in SUBSET Int, NEW J \in SUBSET Int, I \cap J = {},
         NEW a \in SUBSET Int, NEW b \in SUBSET Int, a \cap b = {},
         NEW c \in SUBSET Int, NEW d \in SUBSET Int, c \cap d = {}
  PROVE  SlotsApart(Numbers(I, a, b) \cup Numbers(J, c, d))
<1>1. \A s \in Numbers(I, a, b), t \in Numbers(J, c, d) : s.input # t.input
  <2>1. SUFFICES ASSUME NEW s \in Numbers(I, a, b), NEW t \in Numbers(J, c, d) PROVE s.input # t.input
    OBVIOUS
  <2>2. PICK i \in I : s.input = i + 1
    BY InputOfNumbers
  <2>3. PICK j \in J : t.input = j + 1
    BY InputOfNumbers
  <2>4. QED
    BY <2>2, <2>3
<1>2. QED
  BY <1>1, NumbersAreApart, OthersAreApart

LEMMA FieldsOfInputs ==
  ASSUME NoneIsNoNumber, NEW p \in Int, NEW I \in SUBSET Int, NEW J \in SUBSET Int, I \cap J = {},
         NEW a \in SUBSET Int, NEW b \in SUBSET Int, NEW c \in SUBSET Int, NEW d \in SUBSET Int,
         \A x \in a, y \in b : x + SlotBytes <= y \/ y + SlotBytes <= x,
         \A x \in c, y \in d : x + SlotBytes <= y \/ y + SlotBytes <= x
  PROVE  SlotsApart(Fields(I, p, a, b) \cup Fields(J, p, c, d))
<1>1. \A s \in Fields(I, p, a, b), t \in Fields(J, p, c, d) : s.input # t.input
  <2>1. SUFFICES ASSUME NEW s \in Fields(I, p, a, b), NEW t \in Fields(J, p, c, d) PROVE s.input # t.input
    OBVIOUS
  <2>2. PICK i \in I : s.input = i + 1
    BY InputOfFields
  <2>3. PICK j \in J : t.input = j + 1
    BY InputOfFields
  <2>4. QED
    BY <2>2, <2>3
<1>2. SlotsApart(Fields(I, p, a, b)) /\ SlotsApart(Fields(J, p, c, d))
  BY FieldsAreApart
<1>3. QED
  BY <1>1, <1>2, OthersAreApart

(* The locators are typed and locate no byte of a slot.                     *)
ProofDeclared(proof, slots) == OwnList(proof) /\ TypedLocators(proof) /\ ProofApart(proof, slots)

LEMMA NoProof == ASSUME NEW slots PROVE ProofDeclared(<< >>, slots)
<1>1. DOMAIN << >> = {}
  OBVIOUS
<1>2. Elements(<< >>) = {} /\ << >> \in Seq(Elements(<< >>))
  BY <1>1 DEF Elements
<1>3. QED
  BY <1>1, <1>2 DEF ProofDeclared, OwnList, TypedLocators, ProofApart

LEMMA PushesAreDeclared ==
  ASSUME NEW i \in Nat, NEW first \in Nat, NEW count \in Nat, NEW slots,
         \A s \in slots : s.input # i + 1 \/ s.push \notin (first + 1) .. (first + count)
  PROVE  ProofDeclared(NumericPushes(i, first, count), slots)
<1> DEFINE xs    == 1 .. count
           proof == NumericPushes(i, first, count)
<1>1. DOMAIN proof = 1 .. count
  BY DEF NumericPushes
<1>2. \A k \in 1 .. count : /\ proof[k].input = i + 1 /\ proof[k].push = first + k
                            /\ proof[k].offset = None /\ proof[k].length = None
  BY DEF NumericPushes
<1> HIDE DEF proof
<1>3. OwnList(proof)
  <2>1. proof \in [1 .. count -> Elements(proof)]
    <3>1. proof = [k \in 1 .. count |-> proof[k]]
      BY <1>1 DEF proof, NumericPushes
    <3>2. QED
      BY <1>1, <3>1 DEF Elements
  <2>2. QED
    BY <2>1, SeqDef DEF OwnList
<1>4. TypedLocators(proof)
  BY <1>1, <1>2 DEF TypedLocators
<1>5. ProofApart(proof, slots)
  <2>1. SUFFICES ASSUME NEW k \in 1 .. count, NEW s \in slots
        PROVE  proof[k].input # s.input \/ proof[k].push # s.push
    BY <1>1 DEF ProofApart, Elements, Meet
  <2>2. first + k \in (first + 1) .. (first + count)
    OBVIOUS
  <2>3. QED
    BY <1>2, <2>2
<1>6. QED
  BY <1>3, <1>4, <1>5 DEF ProofDeclared, proof

LEMMA WithinFields ==
  ASSUME NEW first \in Nat, NEW length \in Nat, NEW count \in Nat, NEW k \in 1 .. count
  PROVE  /\ first + (k - 1) * length \in Nat
         /\ first <= first + (k - 1) * length
         /\ (first + (k - 1) * length) + length <= first + count * length
<1> DEFINE a == (k - 1) * length
           b == (count - k) * length
<1>1. k - 1 \in Nat /\ count - k \in Nat
  OBVIOUS
<1>2. a \in Nat /\ b \in Nat
  <2>1. \A m, n \in Nat : m * n \in Nat
    OBVIOUS
  <2>2. QED
    BY <1>1, <2>1
<1>3. a + length + b = count * length
  OBVIOUS
<1> HIDE DEF a, b
<1>4. first + a \in Nat /\ first <= first + a /\ (first + a) + length <= first + (a + length + b)
  BY <1>2
<1>5. QED
  BY <1>3, <1>4 DEF a

LEMMA FieldsAreDeclared ==
  ASSUME NoneIsNoNumber, NEW i \in Nat, NEW p \in Nat, NEW first \in Nat, NEW length \in Nat,
         NEW count \in Nat, NEW slots,
         \A s \in slots : \/ s.input # i + 1 \/ s.push # p + 1
                          \/ s.offset \in Int /\ (s.offset + SlotBytes <= first \/ first + count * length <= s.offset)
  PROVE  ProofDeclared(PackedFields(i, p, first, length, count), slots)
<1> DEFINE proof == PackedFields(i, p, first, length, count)
           end   == first + count * length
<1>1. DOMAIN proof = 1 .. count
  BY DEF PackedFields
<1>2. \A k \in 1 .. count : /\ proof[k].input = i + 1 /\ proof[k].push = p + 1
                            /\ proof[k].offset = first + (k - 1) * length /\ proof[k].length = length
  BY DEF PackedFields
<1>3. OwnList(proof)
  <2>1. proof = [k \in 1 .. count |-> proof[k]]
    BY DEF PackedFields
  <2> HIDE DEF proof
  <2>2. proof \in [1 .. count -> Elements(proof)]
    BY <1>1, <2>1 DEF Elements
  <2>3. QED
    BY <2>2, SeqDef DEF OwnList
<1> HIDE DEF proof, end
<1>4. \A k \in 1 .. count : /\ proof[k].offset \in Nat /\ first <= proof[k].offset
                            /\ proof[k].offset + length <= end
  BY <1>2, WithinFields DEF end
<1>5. end \in Nat
  <2>1. \A m, n \in Nat : m * n \in Nat
    OBVIOUS
  <2>2. QED
    BY <2>1 DEF end
<1>6. TypedLocators(proof)
  BY <1>1, <1>2, <1>4 DEF TypedLocators
<1>7. ProofApart(proof, slots)
  <2>1. SUFFICES ASSUME NEW k \in 1 .. count, NEW s \in slots,
                        Meet(proof[k], Given(proof[k].length, 0), s, SlotBytes)
        PROVE  FALSE
    BY <1>1 DEF ProofApart, Elements
  <2> DEFINE x == proof[k].offset
             y == s.offset
  <2>2. Given(proof[k].length, 0) = length
    BY <1>2 DEF Given, NoneIsNoNumber
  <2>3. s.input = i + 1 /\ s.push = p + 1
    BY <1>2, <2>1 DEF Meet
  <2>4. y \in Int /\ (y + SlotBytes <= first \/ end <= y)
    BY <2>3 DEF end
  <2>5. x \in Nat /\ first <= x /\ x + length <= end
    BY <1>4
  <2>6. PICK b : b \in x .. (x + length - 1) /\ b \in y .. (y + SlotBytes - 1)
    BY <2>1, <2>2, <2>4, <2>5 DEF Meet, NoneIsNoNumber
  <2> HIDE DEF x, y
  <2>7. QED
    BY <1>5, <2>4, <2>5, <2>6 DEF SlotBytes
<1>8. QED
  BY <1>3, <1>6, <1>7 DEF ProofDeclared, proof

LEMMA JoinedAreDeclared ==
  ASSUME NEW a, NEW b, NEW slots, ProofDeclared(a, slots), ProofDeclared(b, slots)
  PROVE  ProofDeclared(a \o b, slots)
<1> DEFINE c == a \o b
<1>1. OwnList(c) /\ Elements(c) = Elements(a) \cup Elements(b)
  BY JoinedIsEither DEF ProofDeclared
<1> HIDE DEF c
<1>2. \A l \in Elements(c) : /\ l.offset # None => l.offset \in Nat
                             /\ l.length # None => l.length \in Nat
  BY <1>1 DEF ProofDeclared, TypedLocators, Elements
<1>3. TypedLocators(c)
  BY <1>2 DEF TypedLocators, Elements
<1>4. ProofApart(c, slots)
  BY <1>1 DEF ProofDeclared, ProofApart
<1>5. QED
  BY <1>1, <1>3, <1>4 DEF ProofDeclared, c

(* What an entry declares of its scripts is apart.                          *)
Declared(e) == SlotsApart(e.slots) /\ ProofDeclared(e.proof, e.slots)

LEMMA EntryIsDeclared ==
  ASSUME NEW id, NEW structure, NEW slots, NEW proof, NEW load,
         SlotsApart(slots), ProofDeclared(proof, slots)
  PROVE  Declared(Entry(id, structure, slots, proof, load))
BY DEF Declared, Entry

LEMMA EntryWithoutProof ==
  ASSUME NEW id, NEW structure, NEW slots, NEW load, SlotsApart(slots)
  PROVE  Declared(Entry(id, structure, slots, << >>, load))
BY NoProof, EntryIsDeclared

LEMMA TwoNumbers ==
  ASSUME NEW i \in Nat, NEW m \in Nat, NEW n \in Nat, m # n
  PROVE  SlotsApart(Numbers({i}, {m}, {n}))
<1>1. {i} \in SUBSET Int /\ {m} \in SUBSET Int /\ {n} \in SUBSET Int /\ {m} \cap {n} = {}
  OBVIOUS
<1>2. QED
  BY <1>1, NumbersAreApart

LEMMA TwoFields ==
  ASSUME NoneIsNoNumber, NEW i \in Nat, NEW p \in Nat, NEW m \in Nat, NEW n \in Nat, m + 32 <= n
  PROVE  SlotsApart(Fields({i}, p, {m}, {n}))
<1>1. /\ {i} \in SUBSET Int /\ {m} \in SUBSET Int /\ {n} \in SUBSET Int
      /\ \A x \in {m}, y \in {n} : x + SlotBytes <= y \/ y + SlotBytes <= x
  BY DEF SlotBytes
<1>2. QED
  BY <1>1, FieldsAreApart

(* One declared slot of each, and no proof.                                 *)
LEMMA SingleSlots ==
  ASSUME NEW id, NEW structure, NEW load, NEW i \in Nat, NEW m \in Nat, NEW n \in Nat, m # n
  PROVE  Declared(Entry(id, structure, Numbers({i}, {m}, {n}), << >>, load))
BY TwoNumbers, EntryWithoutProof

LEMMA NoSlots ==
  ASSUME NEW id, NEW structure, NEW load
  PROVE  Declared(Entry(id, structure, {}, << >>, load))
<1>1. SlotsApart({})
  BY DEF SlotsApart
<1>2. QED
  BY <1>1, EntryWithoutProof

LEMMA EntriesWithoutSlots ==
  \A x \in { Nchain, ScryptBn256, MultistepDemo, PairingBls12381Chunked, PairingBls12381Intratx,
             PairingBls12381Singleton, PairingChunked, PairingIntratx, PairingSingleton,
             VkxBls12381ChunkedCovenant, VkxBls12381Singleton, VkxBls12381SuccessorCorrected,
             VkxChunkedShamir, VkxChunkedTwoloop, VkxScalarmult, VkxSingleton } : Declared(x)
BY NoSlots
DEF Nchain, ScryptBn256, MultistepDemo, PairingBls12381Chunked, PairingBls12381Intratx,
    PairingBls12381Singleton, PairingChunked, PairingIntratx, PairingSingleton,
    VkxBls12381ChunkedCovenant, VkxBls12381Singleton, VkxBls12381SuccessorCorrected,
    VkxChunkedShamir, VkxChunkedTwoloop, VkxScalarmult, VkxSingleton

LEMMA EntriesOfOneSlotEach ==
  /\ \A x \in { Groth16IntratxDirectStatePublic, Groth16IntratxGeneral,
                Groth16IntratxPairfold5DenslessMsmSlim, Groth16IntratxPairfold5DenslessMsmSpec,
                Groth16IntratxPairfold5DenslessMsm, Groth16IntratxPairfold5Densless,
                Groth16IntratxPairfold5PevalfuseDeterministic, Groth16IntratxPairfold5Pevalfuse,
                Groth16IntratxPairfold5, Groth16IntratxPairfold7 } : Declared(x)
  /\ \A x \in Groth16Bn254LegacyEquationChecked : Declared(x)
<1>1. \A x \in { Groth16IntratxDirectStatePublic, Groth16IntratxGeneral,
                Groth16IntratxPairfold5DenslessMsmSlim, Groth16IntratxPairfold5DenslessMsmSpec,
                Groth16IntratxPairfold5DenslessMsm } : Declared(x)
  BY SingleSlots, SMTT(30)
  DEF Groth16IntratxDirectStatePublic, Groth16IntratxGeneral, Groth16IntratxPairfold5DenslessMsmSlim,
      Groth16IntratxPairfold5DenslessMsmSpec, Groth16IntratxPairfold5DenslessMsm
<1>2. \A x \in { Groth16IntratxPairfold5Densless, Groth16IntratxPairfold5PevalfuseDeterministic,
                Groth16IntratxPairfold5Pevalfuse, Groth16IntratxPairfold5, Groth16IntratxPairfold7 } : Declared(x)
  BY SingleSlots
  DEF Groth16IntratxPairfold5Densless, Groth16IntratxPairfold5PevalfuseDeterministic,
      Groth16IntratxPairfold5Pevalfuse, Groth16IntratxPairfold5, Groth16IntratxPairfold7
<1>3. \A x \in Groth16Bn254LegacyEquationChecked : Declared(x)
  <2> DEFINE load == Form("cases")
  <2> HIDE DEF load
  <2>1. \A id : /\ Declared(Entry(id, "single-tx", Numbers({3}, {37}, {36}), << >>, load))
                /\ Declared(Entry(id, "single-tx", Numbers({3}, {39}, {38}), << >>, load))
                /\ Declared(Entry(id, "single-tx", Numbers({3}, {22}, {21}), << >>, load))
                /\ Declared(Entry(id, "single-tx", Numbers({4}, {53}, {52}), << >>, load))
                /\ Declared(Entry(id, "single-tx", Numbers({3}, {23}, {22}), << >>, load))
                /\ Declared(Entry(id, "single-tx", Numbers({5}, {36}, {35}), << >>, load))
    <3>1. /\ SlotsApart(Numbers({3}, {37}, {36})) /\ SlotsApart(Numbers({3}, {39}, {38}))
          /\ SlotsApart(Numbers({3}, {22}, {21})) /\ SlotsApart(Numbers({4}, {53}, {52}))
          /\ SlotsApart(Numbers({3}, {23}, {22})) /\ SlotsApart(Numbers({5}, {36}, {35}))
      BY TwoNumbers
    <3>2. QED
      BY <3>1, EntryWithoutProof, Zenon
  <2>2. SUFFICES ASSUME NEW x \in Groth16Bn254LegacyEquationChecked PROVE Declared(x)
    OBVIOUS
  <2> DEFINE Of(i, m, n) == \E id : x = Entry(id, "single-tx", Numbers({i}, {m}, {n}), << >>, load)
  <2>3. \/ Of(3, 37, 36) \/ Of(3, 39, 38) \/ Of(3, 22, 21)
        \/ Of(4, 53, 52) \/ Of(3, 23, 22) \/ Of(5, 36, 35)
    BY DEF Groth16Bn254LegacyEquationChecked, load
  <2>4. QED
    BY <2>1, <2>3, ZenonT(30)
<1>4. QED
  BY <1>1, <1>2, <1>3

(* Slots of the entries that declare several.                               *)
LEMMA SeveralNumbers ==
  /\ SlotsApart(Numbers({0}, {1}, {0}))
  /\ SlotsApart(Numbers({0}, {4, 12}, {2, 11}))
  /\ SlotsApart(Numbers({0}, {5, 192}, {3, 191}))
  /\ SlotsApart(Numbers(0 .. 3, {4, 6}, {2, 5}) \cup Numbers({4}, {13, 15}, {11, 14}))
  /\ SlotsApart(Numbers(4 .. 14, {1}, {0}) \cup Numbers(15 .. 46, {2}, {1}))
  /\ SlotsApart(Numbers(8 .. 14, {1}, {0}) \cup Numbers(15 .. 36, {2}, {1}))
  /\ SlotsApart(Numbers(0 .. 5, {2}, {1}) \cup Numbers({6}, {11}, {10}))
  /\ SlotsApart(Numbers(0 .. 5, {2}, {1}) \cup Numbers({6}, {3}, {2}))
<1>1. SlotsApart(Numbers({0}, {1}, {0}))
  BY TwoNumbers
<1>2. SlotsApart(Numbers({0}, {4, 12}, {2, 11}))
  <2>1. {0} \in SUBSET Int /\ {4, 12} \in SUBSET Int /\ {2, 11} \in SUBSET Int /\ {4, 12} \cap {2, 11} = {}
    OBVIOUS
  <2>2. QED
    BY <2>1, NumbersAreApart
<1>3. SlotsApart(Numbers({0}, {5, 192}, {3, 191}))
  <2>1. {0} \in SUBSET Int /\ {5, 192} \in SUBSET Int /\ {3, 191} \in SUBSET Int /\ {5, 192} \cap {3, 191} = {}
    OBVIOUS
  <2>2. QED
    BY <2>1, NumbersAreApart
<1>4. SlotsApart(Numbers(0 .. 3, {4, 6}, {2, 5}) \cup Numbers({4}, {13, 15}, {11, 14}))
  <2>1. 0 .. 3 \in SUBSET Int /\ {4} \in SUBSET Int /\ (0 .. 3) \cap {4} = {}
    OBVIOUS
  <2>2. /\ {4, 6} \in SUBSET Int /\ {2, 5} \in SUBSET Int /\ {4, 6} \cap {2, 5} = {}
        /\ {13, 15} \in SUBSET Int /\ {11, 14} \in SUBSET Int /\ {13, 15} \cap {11, 14} = {}
    OBVIOUS
  <2>3. QED
    BY <2>1, <2>2, NumbersOfInputs
<1>5. ASSUME NEW I \in SUBSET Int, NEW J \in SUBSET Int, I \cap J = {},
             NEW a \in Nat, NEW b \in Nat, a # b, NEW c \in Nat, NEW d \in Nat, c # d
      PROVE  SlotsApart(Numbers(I, {a}, {b}) \cup Numbers(J, {c}, {d}))
  <2>1. /\ {a} \in SUBSET Int /\ {b} \in SUBSET Int /\ {a} \cap {b} = {}
        /\ {c} \in SUBSET Int /\ {d} \in SUBSET Int /\ {c} \cap {d} = {}
    BY <1>5
  <2>2. QED
    BY <1>5, <2>1, NumbersOfInputs
<1>6. /\ 4 .. 14 \in SUBSET Int /\ 15 .. 46 \in SUBSET Int /\ (4 .. 14) \cap (15 .. 46) = {}
      /\ 8 .. 14 \in SUBSET Int /\ 15 .. 36 \in SUBSET Int /\ (8 .. 14) \cap (15 .. 36) = {}
      /\ 0 .. 5 \in SUBSET Int /\ {6} \in SUBSET Int /\ (0 .. 5) \cap {6} = {}
  OBVIOUS
<1>0. /\ 0 \in Nat /\ 1 \in Nat /\ 2 \in Nat /\ 3 \in Nat /\ 10 \in Nat /\ 11 \in Nat
      /\ 1 # 0 /\ 2 # 1 /\ 3 # 2 /\ 11 # 10
  OBVIOUS
<1>7. /\ SlotsApart(Numbers(4 .. 14, {1}, {0}) \cup Numbers(15 .. 46, {2}, {1}))
      /\ SlotsApart(Numbers(8 .. 14, {1}, {0}) \cup Numbers(15 .. 36, {2}, {1}))
  BY <1>0, <1>5, <1>6, ZenonT(30)
<1>8. /\ SlotsApart(Numbers(0 .. 5, {2}, {1}) \cup Numbers({6}, {11}, {10}))
      /\ SlotsApart(Numbers(0 .. 5, {2}, {1}) \cup Numbers({6}, {3}, {2}))
  BY <1>0, <1>5, <1>6, Zenon
<1>9. QED
  BY <1>1, <1>2, <1>3, <1>4, <1>7, <1>8

LEMMA SeveralFields ==
  ASSUME NoneIsNoNumber
  PROVE  /\ SlotsApart(Fields({0}, 0, {0, 96}, {48, 192}))
         /\ SlotsApart(Fields({0}, 0, {0, 64}, {32, 98}))
         /\ SlotsApart(Fields({0}, 0, {0, 96}, {48, 192}) \cup Fields(1 .. 4, 0, {144, 240}, {192, 336}))
         /\ SlotsApart(Fields({3}, 0, {0, 64}, {32, 98}) \cup Fields(4 .. 5, 0, {96, 160}, {128, 194}))
         /\ SlotsApart(Fields({3}, 0, {0}, {32}) \cup Fields(4 .. 8, 0, {96}, {128}))
         /\ SlotsApart(Fields({0}, 0, {0, 64}, {32, 98}) \cup Fields({1}, 0, {96, 160}, {128, 194}))
         /\ SlotsApart(Fields({6}, 16, {0}, {}) \cup Fields({6}, 15, {}, {0}))
<1> DEFINE Far(a, b) == \A x \in a, y \in b : x + SlotBytes <= y \/ y + SlotBytes <= x
<1>1. /\ {0, 96} \in SUBSET Int /\ {48, 192} \in SUBSET Int
      /\ {0, 64} \in SUBSET Int /\ {32, 98} \in SUBSET Int
      /\ {144, 240} \in SUBSET Int /\ {192, 336} \in SUBSET Int
      /\ {96, 160} \in SUBSET Int /\ {128, 194} \in SUBSET Int
      /\ {0} \in SUBSET Int /\ {32} \in SUBSET Int /\ {96} \in SUBSET Int /\ {128} \in SUBSET Int
      /\ {} \in SUBSET Int
  OBVIOUS
<1>2. /\ Far({0, 96}, {48, 192}) /\ Far({0, 64}, {32, 98}) /\ Far({144, 240}, {192, 336})
      /\ Far({96, 160}, {128, 194}) /\ Far({0}, {32}) /\ Far({96}, {128})
      /\ Far({0}, {}) /\ Far({}, {0})
  BY DEF SlotBytes
<1>3. /\ 1 .. 4 \in SUBSET Int /\ 4 .. 5 \in SUBSET Int /\ 4 .. 8 \in SUBSET Int
      /\ {1} \in SUBSET Int /\ {3} \in SUBSET Int /\ {6} \in SUBSET Int
      /\ {0} \cap (1 .. 4) = {} /\ {3} \cap (4 .. 5) = {} /\ {3} \cap (4 .. 8) = {} /\ {0} \cap {1} = {}
  OBVIOUS
<1>4. ASSUME NEW I \in SUBSET Int, NEW p \in Int, NEW a \in SUBSET Int, NEW b \in SUBSET Int, Far(a, b)
      PROVE  SlotsApart(Fields(I, p, a, b))
  BY <1>4, FieldsAreApart
<1>5. ASSUME NEW I \in SUBSET Int, NEW J \in SUBSET Int, I \cap J = {},
             NEW a \in SUBSET Int, NEW b \in SUBSET Int, NEW c \in SUBSET Int, NEW d \in SUBSET Int,
             Far(a, b), Far(c, d)
      PROVE  SlotsApart(Fields(I, 0, a, b) \cup Fields(J, 0, c, d))
  BY <1>5, FieldsOfInputs
<1> HIDE DEF Far
<1>6. /\ SlotsApart(Fields({0}, 0, {0, 96}, {48, 192}))
      /\ SlotsApart(Fields({0}, 0, {0, 64}, {32, 98}))
  BY <1>1, <1>2, <1>4
<1>7. /\ SlotsApart(Fields({0}, 0, {0, 96}, {48, 192}) \cup Fields(1 .. 4, 0, {144, 240}, {192, 336}))
      /\ SlotsApart(Fields({3}, 0, {0, 64}, {32, 98}) \cup Fields(4 .. 5, 0, {96, 160}, {128, 194}))
  BY <1>1, <1>2, <1>3, <1>5
<1>8. /\ SlotsApart(Fields({3}, 0, {0}, {32}) \cup Fields(4 .. 8, 0, {96}, {128}))
      /\ SlotsApart(Fields({0}, 0, {0, 64}, {32, 98}) \cup Fields({1}, 0, {96, 160}, {128, 194}))
  BY <1>1, <1>2, <1>3, <1>5
<1>9. SlotsApart(Fields({6}, 16, {0}, {}) \cup Fields({6}, 15, {}, {0}))
  <2>1. SlotsApart(Fields({6}, 16, {0}, {})) /\ SlotsApart(Fields({6}, 15, {}, {0}))
    BY <1>1, <1>2, <1>3, <1>4
  <2>2. /\ \A s \in Fields({6}, 16, {0}, {}) : s.push = 17
        /\ \A s \in Fields({6}, 15, {}, {0}) : s.push = 16
    BY DEF Fields, Slot
  <2>3. QED
    BY <2>1, <2>2, OthersAreApart
<1>10. QED
  BY <1>6, <1>7, <1>8, <1>9

LEMMA EntriesOfNumbers ==
  \A x \in { Groth16Bls12381ChunkedCovenant, Groth16Bls12381Chunked, Groth16ChunkedCovenant,
             Groth16Chunked, VkxChunkedCovenant } : Declared(x)
BY SeveralNumbers, EntryWithoutProof
DEF Groth16Bls12381ChunkedCovenant, Groth16Bls12381Chunked, Groth16ChunkedCovenant,
    Groth16Chunked, VkxChunkedCovenant

LEMMA EntriesOfFields ==
  ASSUME NoneIsNoNumber
  PROVE  /\ \A x \in { Groth16Bls12381GroupedResidue, Groth16Bls12381Grouped,
                       Groth16Bls12381IntratxResidueLargeCorrected, Groth16Bls12381IntratxResidueLarge,
                       Groth16Bls12381IntratxResidue, Groth16Bls12381Intratx } : Declared(x)
         /\ \A x \in { Groth16GroupedResidue, Groth16Grouped, Groth16IntratxAuthenticatedP2s,
                       Groth16IntratxCrown8Rawchain, Groth16Intratx } : Declared(x)
         /\ \A x \in BnExactFrameCorrected : Declared(x)
<1>1. SlotsApart(Fields({0}, 0, {0}, {48}))
  BY TwoFields
<1>2. \A x \in { Groth16Bls12381GroupedResidue, Groth16Bls12381Grouped,
                 Groth16Bls12381IntratxResidueLargeCorrected, Groth16Bls12381IntratxResidueLarge,
                 Groth16Bls12381IntratxResidue, Groth16Bls12381Intratx } : Declared(x)
  BY <1>1, SeveralFields, EntryWithoutProof
  DEF Groth16Bls12381GroupedResidue, Groth16Bls12381Grouped, Groth16Bls12381IntratxResidueLargeCorrected,
      Groth16Bls12381IntratxResidueLarge, Groth16Bls12381IntratxResidue, Groth16Bls12381Intratx
<1>3. \A x \in { Groth16GroupedResidue, Groth16Grouped, Groth16IntratxAuthenticatedP2s,
                 Groth16IntratxCrown8Rawchain, Groth16Intratx } : Declared(x)
  BY SeveralFields, EntryWithoutProof
  DEF Groth16GroupedResidue, Groth16Grouped, Groth16IntratxAuthenticatedP2s,
      Groth16IntratxCrown8Rawchain, Groth16Intratx
<1>4. \A x \in BnExactFrameCorrected : Declared(x)
  <2>1. SlotsApart({})
    BY DEF SlotsApart
  <2>2. QED
    BY <2>1, SeveralFields, EntryWithoutProof DEF BnExactFrameCorrected
<1>5. QED
  BY <1>2, <1>3, <1>4

(* A proof of whole pushes.                                                 *)
LEMMA EntriesOfPushes ==
  /\ \A x \in { Groth16Bls12381SingletonGenpow, Groth16Bls12381SingletonOpcodeOptimized,
                Groth16Bls12381Singleton, Groth16SingletonGenpow, Groth16SingletonOpcodeOptimized,
                Groth16Singleton } : Declared(x)
  /\ \A x \in { Groth16Bls12381SingletonMinOpRolled, Groth16Bls12381SingletonMinOp,
                Groth16SingletonMinOp } : Declared(x)
  /\ Declared(Groth16Bls12381ChunkedCovenantResidue)
  /\ Declared(Groth16ChunkedCovenantResidue)
<1>1. \A x \in { Groth16Bls12381SingletonGenpow, Groth16Bls12381SingletonOpcodeOptimized,
                Groth16Bls12381Singleton, Groth16SingletonGenpow, Groth16SingletonOpcodeOptimized,
                Groth16Singleton } : Declared(x)
  <2> DEFINE slots == Numbers({0}, {1}, {0})
  <2>1. \A s \in slots : s.push \in {1, 2}
    BY DEF Numbers, Slot
  <2>2. ProofDeclared(NumericPushes(0, 2, 8), slots)
    <3> HIDE DEF slots
    <3>1. \A s \in slots : s.push \notin (2 + 1) .. (2 + 8)
      BY <2>1
    <3>2. QED
      BY <3>1, PushesAreDeclared
  <2>3. QED
    BY <2>2, SeveralNumbers, EntryIsDeclared
    DEF Groth16Bls12381SingletonGenpow, Groth16Bls12381SingletonOpcodeOptimized,
        Groth16Bls12381Singleton, Groth16SingletonGenpow, Groth16SingletonOpcodeOptimized,
        Groth16Singleton, AffineSingletonProofInputs, GenpowSingletonProofInputs
<1>2. \A x \in { Groth16Bls12381SingletonMinOpRolled, Groth16Bls12381SingletonMinOp,
                 Groth16SingletonMinOp } : Declared(x)
  <2> DEFINE few  == Numbers({0}, {4, 12}, {2, 11})
             many == Numbers({0}, {5, 192}, {3, 191})
  <2>1. (\A s \in few : s.push \in {5, 13, 3, 12}) /\ (\A s \in many : s.push \in {6, 193, 4, 192})
    BY DEF Numbers, Slot
  <2>2. ProofDeclared(NumericPushes(0, 13, 8), few)
    <3> HIDE DEF few
    <3>1. \A s \in few : s.push \notin (13 + 1) .. (13 + 8)
      BY <2>1
    <3>2. QED
      BY <3>1, PushesAreDeclared
  <2>3. ProofDeclared(NumericPushes(0, 193, 8), many)
    <3> HIDE DEF many
    <3>1. \A s \in many : s.push \notin (193 + 1) .. (193 + 8)
      BY <2>1
    <3>2. QED
      BY <3>1, PushesAreDeclared
  <2>4. QED
    BY <2>2, <2>3, SeveralNumbers, EntryIsDeclared
    DEF Groth16Bls12381SingletonMinOpRolled, Groth16Bls12381SingletonMinOp, Groth16SingletonMinOp,
        Bn254MinopProofInputs, Bls12381MinopProofInputs, Bls12381MinopRolledProofInputs
<1>3. Declared(Groth16Bls12381ChunkedCovenantResidue)
  <2> DEFINE slots == Numbers(0 .. 3, {4, 6}, {2, 5}) \cup Numbers({4}, {13, 15}, {11, 14})
  <2>1. \A s \in slots : s.input # 5 \/ s.push \in {14, 16, 12, 15}
    BY DEF Numbers, Slot
  <2>2. ProofDeclared(NumericPushes(4, 1, 8), slots)
    <3> HIDE DEF slots
    <3>1. \A s \in slots : s.input # 4 + 1 \/ s.push \notin (1 + 1) .. (1 + 8)
      BY <2>1
    <3>2. QED
      BY <3>1, PushesAreDeclared
  <2>3. QED
    BY <2>2, SeveralNumbers, EntryIsDeclared
    DEF Groth16Bls12381ChunkedCovenantResidue, Bls12381CovenantResidueProofInputs
<1>4. Declared(Groth16ChunkedCovenantResidue)
  <2> DEFINE one   == Numbers({0}, {4, 6}, {2, 5})
             two   == Numbers(1 .. 2, {12, 14}, {10, 13})
             three == Numbers({3}, {40, 42}, {38, 41})
             slots == one \cup two \cup three
  <2>1. /\ \A s \in one : s.input = 1 /\ s.push \in {5, 7, 3, 6}
        /\ \A s \in two : s.input \in 2 .. 3
        /\ \A s \in three : s.input = 4
    BY DEF Numbers, Slot
  <2>2. SlotsApart(one) /\ SlotsApart(two) /\ SlotsApart(three)
    <3>1. /\ {0} \in SUBSET Int /\ 1 .. 2 \in SUBSET Int /\ {3} \in SUBSET Int
          /\ {4, 6} \in SUBSET Int /\ {2, 5} \in SUBSET Int /\ {4, 6} \cap {2, 5} = {}
          /\ {12, 14} \in SUBSET Int /\ {10, 13} \in SUBSET Int /\ {12, 14} \cap {10, 13} = {}
          /\ {40, 42} \in SUBSET Int /\ {38, 41} \in SUBSET Int /\ {40, 42} \cap {38, 41} = {}
      OBVIOUS
    <3>2. QED
      BY <3>1, NumbersAreApart
  <2> HIDE DEF one, two, three
  <2>3. SlotsApart(one \cup two)
    BY <2>1, <2>2, OthersAreApart
  <2>4. SlotsApart(slots)
    <3>1. \A s \in one \cup two, t \in three : s.input # t.input
      BY <2>1
    <3>2. QED
      BY <2>2, <2>3, <3>1, OthersAreApart
  <2>5. ProofDeclared(NumericPushes(0, 7, 8), slots)
    <3>1. \A s \in slots : s.input # 0 + 1 \/ s.push \notin (7 + 1) .. (7 + 8)
      BY <2>1
    <3> HIDE DEF slots
    <3>2. QED
      BY <3>1, PushesAreDeclared
  <2>6. QED
    BY <2>4, <2>5, EntryIsDeclared
    DEF Groth16ChunkedCovenantResidue, Bn254CovenantResidueProofInputs, slots, one, two, three
<1>5. QED
  BY <1>1, <1>2, <1>3, <1>4

(* A proof of fields, before the two slots or on both sides of them.        *)
LEMMA FieldsBefore ==
  ASSUME NoneIsNoNumber, NEW i \in Nat, NEW p \in Nat, NEW length \in Nat, NEW count \in Nat
  PROVE  LET end   == count * length
             slots == Fields({i}, p, {end}, {end + 32})
         IN  SlotsApart(slots) /\ ProofDeclared(PackedFields(i, p, 0, length, count), slots)
<1> DEFINE end   == count * length
           slots == Fields({i}, p, {end}, {end + 32})
<1>1. end \in Nat
  <2>1. \A m, n \in Nat : m * n \in Nat
    OBVIOUS
  <2>2. QED
    BY <2>1
<1> HIDE DEF end
<1>2. SlotsApart(slots)
  BY <1>1, TwoFields
<1>3. \A s \in slots : s.offset \in {end, end + 32}
  BY DEF Fields, Slot
<1> HIDE DEF slots
<1>4. \A s \in slots : s.offset \in Int /\ 0 + count * length <= s.offset
  BY <1>1, <1>3 DEF end
<1>5. ProofDeclared(PackedFields(i, p, 0, length, count), slots)
  BY <1>4, FieldsAreDeclared
<1>6. QED
  BY <1>2, <1>5 DEF slots, end

LEMMA FieldsOfCompressedProof ==
  ASSUME NoneIsNoNumber, NEW p \in Nat
  PROVE  LET slots == Fields({0}, p, {193}, {225})
         IN  /\ SlotsApart(slots)
             /\ ProofDeclared(PackedFields(0, p, 0, 1, 1) \o PackedFields(0, p, 1, 48, 4)
                              \o PackedFields(0, p, 545, 48, 4), slots)
<1> DEFINE slots == Fields({0}, p, {193}, {225})
           a == PackedFields(0, p, 0, 1, 1)
           b == PackedFields(0, p, 1, 48, 4)
           c == PackedFields(0, p, 545, 48, 4)
<1>1. SlotsApart(slots)
  BY TwoFields
<1>2. \A s \in slots : s.offset \in {193, 225}
  BY DEF Fields, Slot
<1> HIDE DEF slots
<1>3. ProofDeclared(a, slots)
  <2>1. \A s \in slots : s.offset \in Int /\ 0 + 1 * 1 <= s.offset
    BY <1>2
  <2>2. QED
    BY <2>1, FieldsAreDeclared
<1>4. ProofDeclared(b, slots)
  <2>1. \A s \in slots : s.offset \in Int /\ 1 + 4 * 48 <= s.offset
    BY <1>2
  <2>2. QED
    BY <2>1, FieldsAreDeclared
<1>5. ProofDeclared(c, slots)
  <2>1. \A s \in slots : s.offset \in Int /\ s.offset + SlotBytes <= 545
    BY <1>2 DEF SlotBytes
  <2>2. QED
    BY <2>1, FieldsAreDeclared
<1> HIDE DEF a, b, c
<1>6. ProofDeclared((a \o b) \o c, slots)
  BY <1>3, <1>4, <1>5, JoinedAreDeclared
<1>7. QED
  BY <1>1, <1>6 DEF slots, a, b, c

LEMMA FsIsDeclared ==
  ASSUME NoneIsNoNumber, NEW id
  PROVE  Declared(FsEntry(id))
BY FieldsOfCompressedProof, EntryIsDeclared DEF FsEntry, Bls12381IntratxFsProofInputs

LEMMA EntriesOfCompressedProofs ==
  ASSUME NoneIsNoNumber
  PROVE  /\ \A x \in { Groth16Bls12381IntratxFsCompact, Groth16Bls12381IntratxFsFusedCarrierPair,
                       Groth16Bls12381IntratxFsFusedCoordinatorHeadFields,
                       Groth16Bls12381IntratxFsFusedCoordinatorHead, Groth16Bls12381IntratxFsFusedFinal,
                       Groth16Bls12381IntratxFsFusedFirstTail, Groth16Bls12381IntratxFsFusedMiddlePair,
                       Groth16Bls12381IntratxFsFusedRegularPairsPacked,
                       Groth16Bls12381IntratxFsFusedRegularPairs,
                       Groth16Bls12381IntratxFsFusedRegularTriples,
                       Groth16Bls12381IntratxFsFusedRegular,
                       Groth16Bls12381IntratxFsRegularInitializer, Groth16Bls12381IntratxFs } : Declared(x)
         /\ \A x \in { Groth16Bls12381SingletonFsSpecShared, Groth16Bls12381SingletonFsSpecZero,
                       Groth16Bls12381SingletonFsSpec, Groth16Bls12381SingletonFs } : Declared(x)
<1>1. \A x \in { Groth16Bls12381IntratxFsCompact, Groth16Bls12381IntratxFsFusedCarrierPair,
                 Groth16Bls12381IntratxFsFusedCoordinatorHeadFields,
                 Groth16Bls12381IntratxFsFusedCoordinatorHead, Groth16Bls12381IntratxFsFusedFinal,
                 Groth16Bls12381IntratxFsFusedFirstTail, Groth16Bls12381IntratxFsFusedMiddlePair,
                 Groth16Bls12381IntratxFsFusedRegularPairsPacked,
                 Groth16Bls12381IntratxFsFusedRegularPairs,
                 Groth16Bls12381IntratxFsFusedRegularTriples,
                 Groth16Bls12381IntratxFsFusedRegular,
                 Groth16Bls12381IntratxFsRegularInitializer, Groth16Bls12381IntratxFs } : Declared(x)
  BY FsIsDeclared
  DEF Groth16Bls12381IntratxFsCompact, Groth16Bls12381IntratxFsFusedCarrierPair,
      Groth16Bls12381IntratxFsFusedCoordinatorHeadFields, Groth16Bls12381IntratxFsFusedCoordinatorHead,
      Groth16Bls12381IntratxFsFusedFinal, Groth16Bls12381IntratxFsFusedFirstTail,
      Groth16Bls12381IntratxFsFusedMiddlePair, Groth16Bls12381IntratxFsFusedRegularPairsPacked,
      Groth16Bls12381IntratxFsFusedRegularPairs, Groth16Bls12381IntratxFsFusedRegularTriples,
      Groth16Bls12381IntratxFsFusedRegular, Groth16Bls12381IntratxFsRegularInitializer,
      Groth16Bls12381IntratxFs
<1>2. \A x \in { Groth16Bls12381SingletonFsSpecShared, Groth16Bls12381SingletonFsSpecZero,
                 Groth16Bls12381SingletonFsSpec, Groth16Bls12381SingletonFs } : Declared(x)
  <2> DEFINE slots == Fields({0}, 22, {193}, {225})
  <2>1. SlotsApart(slots) /\ ProofDeclared(Bls12381FsSingletonProofInputs, slots)
    BY FieldsOfCompressedProof DEF Bls12381FsSingletonProofInputs
  <2>2. QED
    BY <2>1, EntryIsDeclared
    DEF Groth16Bls12381SingletonFsSpecShared, Groth16Bls12381SingletonFsSpecZero,
        Groth16Bls12381SingletonFsSpec, Groth16Bls12381SingletonFs
<1>3. QED
  BY <1>1, <1>2

LEMMA EntriesOfPackedProofs ==
  ASSUME NoneIsNoNumber
  PROVE  /\ \A x \in { Groth16Bls12381SoundNative, Groth16Bls12381SoundSiGlsDproj,
                       Groth16Bls12381SoundSiGlsSingle, Groth16Bn254SoundNative } : Declared(x)
         /\ \A x \in { Groth16SingletonRolledResidueMulc, Groth16SingletonRolledResidue,
                       Groth16SoundSiGlsDproj, Groth16SoundSiGlsSingle } : Declared(x)
<1> DEFINE Packed(i, p, o, length) ==
              LET slots == Fields({i}, p, {o}, {o + 32})
              IN  SlotsApart(slots) /\ ProofDeclared(PackedFields(i, p, 0, length, 8), slots)
<1>1. 8 * 32 = 256 /\ 8 * 48 = 384 /\ 256 + 32 = 288 /\ 384 + 32 = 416
  OBVIOUS
<1>2. \A i, p, length \in Nat : Packed(i, p, 8 * length, length)
  BY FieldsBefore
<1> HIDE DEF Packed
<1>3. Packed(0, 1, 384, 48) /\ Packed(0, 1, 256, 32) /\ Packed(2, 1, 256, 32) /\ Packed(0, 0, 256, 32)
  <2>1. Packed(0, 1, 8 * 48, 48) /\ Packed(0, 1, 8 * 32, 32) /\ Packed(2, 1, 8 * 32, 32) /\ Packed(0, 0, 8 * 32, 32)
    BY <1>2
  <2>2. QED
    BY <1>1, <2>1
<1>4. \A x \in { Groth16Bls12381SoundNative, Groth16Bls12381SoundSiGlsDproj,
                 Groth16Bls12381SoundSiGlsSingle, Groth16Bn254SoundNative } : Declared(x)
  BY <1>3, EntryIsDeclared
  DEF Packed, Groth16Bls12381SoundNative, Groth16Bls12381SoundSiGlsDproj,
      Groth16Bls12381SoundSiGlsSingle, Groth16Bn254SoundNative, Bls12381SoundNativeProofInputs,
      Bls12381SiGlsDprojProofInputs, Bls12381SiGlsProofInputs, Bn254SoundNativeProofInputs
<1>5. \A x \in { Groth16SingletonRolledResidueMulc, Groth16SingletonRolledResidue,
                 Groth16SoundSiGlsDproj, Groth16SoundSiGlsSingle } : Declared(x)
  BY <1>3, EntryIsDeclared
  DEF Packed, Groth16SingletonRolledResidueMulc, Groth16SingletonRolledResidue,
      Groth16SoundSiGlsDproj, Groth16SoundSiGlsSingle, Bn254RolledResidueProofInputs,
      Bn254SiGlsDprojProofInputs, Bn254SiGlsProofInputs
<1>6. QED
  BY <1>4, <1>5

LEMMA GenesisIsDeclared ==
  ASSUME NoneIsNoNumber, NEW i \in Nat, NEW slots, \A s \in slots : s.input # i + 1
  PROVE  ProofDeclared(IntratxResidueGenesis(i), slots)
<1>1. 13 * 32 \in Nat /\ 6 * 32 \in Nat
  OBVIOUS
<1>2. /\ ProofDeclared(PackedFields(i, 0, 0, 32, 2), slots)
      /\ ProofDeclared(PackedFields(i, 0, 13 * 32, 32, 4), slots)
      /\ ProofDeclared(PackedFields(i, 0, 6 * 32, 32, 2), slots)
  BY <1>1, FieldsAreDeclared, SMTT(30)
<1>3. QED
  BY <1>2, JoinedAreDeclared DEF IntratxResidueGenesis

LEMMA EntriesOfGenesis ==
  ASSUME NoneIsNoNumber
  PROVE  Declared(Groth16IntratxResidueLarge) /\ Declared(Groth16IntratxResidue)
<1> DEFINE one == Fields({0}, 0, {0, 64}, {32, 98})
           two == Fields({0}, 0, {0, 64}, {32, 98}) \cup Fields({1}, 0, {96, 160}, {128, 194})
<1>1. (\A s \in one : s.input = 1) /\ (\A s \in two : s.input \in {1, 2})
  BY DEF Fields, Slot
<1>2. SlotsApart(one) /\ SlotsApart(two)
  BY SeveralFields
<1> HIDE DEF one, two
<1>3. (\A s \in one : s.input # 1 + 1) /\ (\A s \in two : s.input # 2 + 1)
  BY <1>1
<1>4. ProofDeclared(IntratxResidueGenesis(1), one) /\ ProofDeclared(IntratxResidueGenesis(2), two)
  BY <1>3, GenesisIsDeclared
<1>5. QED
  BY <1>2, <1>4, EntryIsDeclared
  DEF Groth16IntratxResidueLarge, Groth16IntratxResidue, Bn254IntratxResidueLargeProofInputs,
      Bn254IntratxResidueProofInputs, one, two

(* Every entry, registered or a candidate.                                  *)
LEMMA EntriesAreDeclared ==
  ASSUME NoneIsNoNumber
  PROVE  \A e \in Registry \cup Candidates : Declared(e)
BY EntriesWithoutSlots, EntriesOfOneSlotEach, EntriesOfNumbers, EntriesOfFields, EntriesOfPushes,
   EntriesOfCompressedProofs, EntriesOfPackedProofs, EntriesOfGenesis
DEF Registry, Candidates

(* The entry is one of the code's.                                          *)
EntryIsOurs == entry # None => entry.impl \in Registry \cup Candidates

LEMMA DeclaredIsNotStatement ==
  ASSUME NoneIsNoNumber, EntryIsOurs
  PROVE  ProofIsNotStatement
<1>1. SUFFICES ASSUME entry # None
      PROVE  /\ \A l \in Elements(entry.impl.proof), s \in entry.impl.slots :
                   ~Meet(l, Given(l.length, 0), s, SlotBytes)
             /\ \A s, t \in entry.impl.slots : s.name # t.name => ~Meet(s, SlotBytes, t, SlotBytes)
  BY DEF ProofIsNotStatement, Meet
<1>2. Declared(entry.impl)
  BY <1>1, EntriesAreDeclared DEF EntryIsOurs
<1>3. QED
  BY <1>2 DEF Declared, SlotsApart, ProofDeclared, ProofApart

LEMMA EntryStays ==
  ASSUME EntryIsOurs, [Next]_vars
  PROVE  EntryIsOurs'
<1>1. UNCHANGED entry
  BY DEF Next, LoadEntry, AssertHonestRuns, Measure, vars
<1>2. QED
  BY <1>1 DEF EntryIsOurs

(* For every entry of the code, whatever its verifier does and its files     *)
(* hold: where its submission says that proof bytes lie no byte of a        *)
(* public-input slot lies, and no two slots of it overlap (a locator field  *)
(* against the slots of the same implementation).                           *)
THEOREM ProofIsNotStatementAlways ==
  NoneIsNoNumber /\ EntryIsOurs /\ Spec => []ProofIsNotStatement
<1>1. NoneIsNoNumber /\ EntryIsOurs => ProofIsNotStatement
  BY DeclaredIsNotStatement
<1>2. EntryIsOurs /\ [Next]_vars => EntryIsOurs'
  BY EntryStays
<1>3. ASSUME NoneIsNoNumber PROVE EntryIsOurs /\ Spec => []ProofIsNotStatement
  BY <1>1, <1>2, <1>3, PTL DEF Spec
<1>4. QED
  BY <1>3

-----------------------------------------------------------------------------
(* The types of what a loader makes                                         *)

TypedGroup(g) ==
    /\ IsToken(g.inToken) /\ IsToken(g.outToken)
    /\ g.inputTokens # None =>
         IsList(g.inputTokens) /\ \A k \in DOMAIN g.inputTokens : IsToken(g.inputTokens[k])

(* The types of the vector files: a list of steps, the rights of their      *)
(* tokens, the groups they are in.                                          *)
TypedRaw(context, raw) ==
    LET steps == RawSteps(context, raw)
    IN  /\ IsList(steps)
        /\ \A i \in DOMAIN steps :
             /\ context = "thread" /\ steps[i].covenant # None => steps[i].covenant.capability \in Capability
             /\ context \in {"kinded", "successor"} => steps[i].covenant.capability \in Capability
             /\ context \in Grouping =>
                  steps[i].group \in Nat /\ TypedGroup(raw.groups[steps[i].group])

InputsAreTyped(inputs) == IsInputs(inputs) /\ IsList(inputs)

LEMMA InputsOfList ==
  ASSUME NEW xs, IsList(xs)
  PROVE  InputsAreTyped(InputsOfRun(xs))
<1> DEFINE f == InputsOfRun(xs)
<1>1. IsInputs(f) /\ f = [i \in DOMAIN xs |-> f[i]]
  BY DEF InputsOfRun, IsInputs
<1> HIDE DEF f
<1>2. IsList(f)
  BY <1>1, RunFromSteps
<1>3. QED
  BY <1>1, <1>2 DEF f, InputsAreTyped

LEMMA IntraTxIsTyped ==
  ASSUME NEW raw, IsList(raw)
  PROVE  TypedRun(ToIntraTx(raw))
<1> DEFINE inputs == InputsOfRun(raw)
           r      == ToIntraTx(raw)
<1>1. InputsAreTyped(inputs)
  BY InputsOfList
<1>2. r = [i \in DOMAIN raw |-> [Plain(raw[i]) EXCEPT !.intraTx = [index |-> i, inputs |-> inputs]]]
  BY Zenon DEF ToIntraTx
<1> HIDE DEF inputs, r
<1>3. DOMAIN r = DOMAIN raw /\ r = [i \in DOMAIN raw |-> r[i]]
  BY <1>2
<1>4. ASSUME NEW i \in DOMAIN raw
      PROVE  TypedStep(r[i])
  <2>1. /\ DOMAIN r[i] = StepFields /\ r[i].covenant = None /\ r[i].grouped = None
        /\ r[i].intraTx = [index |-> i, inputs |-> inputs]
    BY <1>2 DEF Plain, StepFields, ContextKinds
  <2>2. i \in Nat
    BY DEF IsList
  <2>3. IsIntraTx(r[i].intraTx) /\ IsList(r[i].intraTx.inputs)
    BY <1>1, <2>1, <2>2 DEF IsIntraTx, InputsAreTyped
  <2>4. QED
    BY <2>1, <2>3 DEF TypedStep, IsStep, StepFields
<1>5. IsList(r)
  BY <1>3, RunFromSteps
<1>6. QED
  BY <1>3, <1>4, <1>5 DEF TypedRun, r

(* A step with nothing but a covenant.                                      *)
LEMMA CovenantIsTyped ==
  ASSUME NEW s, DOMAIN s = StepFields, s.intraTx = None, s.grouped = None,
         s.covenant = None \/ \E c, i, b, l : /\ c.capability \in Capability
                                              /\ i \in Capability \cup {None} /\ b \in BOOLEAN
                                              /\ s.covenant = Carried(c, i, b, l)
  PROVE  TypedStep(s)
<1>1. \A c, i, b, l : c.capability \in Capability /\ i \in Capability \cup {None} /\ b \in BOOLEAN
                      => IsCovenant(Carried(c, i, b, l))
  BY DEF IsCovenant, Carried
<1>2. s.covenant # None => IsCovenant(s.covenant)
  BY <1>1
<1>3. QED
  BY <1>2 DEF TypedStep, IsStep, StepFields

LEMMA ChainsAreTyped ==
  ASSUME NEW context \in {"thread", "kinded", "successor"}, NEW v, NEW raw, TypedRaw(context, raw)
  PROVE  TypedRun(ToRun(context, v, raw))
<1> DEFINE r == ToRun(context, v, raw)
<1>1. IsList(raw)
  BY DEF TypedRaw, RawSteps, Grouping
<1>2. CASE context = "thread"
  <2> DEFINE made(i) == IF raw[i].covenant = None THEN None
                        ELSE Carried(raw[i].covenant, None, FALSE, raw[i].covenant.outLock)
  <2>1. r = [i \in DOMAIN raw |-> [Plain(raw[i]) EXCEPT !.covenant = made(i)]]
    BY <1>2, Zenon DEF ToRun, ToThread
  <2>2. \A i \in DOMAIN raw : raw[i].covenant # None => raw[i].covenant.capability \in Capability
    BY <1>2 DEF TypedRaw, RawSteps, Grouping
  <2>3. \A i \in DOMAIN raw : made(i) = None \/ \E c, x, b, l : /\ c.capability \in Capability
                                              /\ x \in Capability \cup {None} /\ b \in BOOLEAN
                                              /\ made(i) = Carried(c, x, b, l)
    <3>1. TAKE i \in DOMAIN raw
    <3>2. CASE raw[i].covenant = None
      BY <3>2
    <3>3. CASE raw[i].covenant # None
      <4>1. made(i) = Carried(raw[i].covenant, None, FALSE, raw[i].covenant.outLock)
        BY <3>3
      <4>2. raw[i].covenant.capability \in Capability
        BY <2>2, <3>3
      <4> HIDE DEF made
      <4>3. QED
        BY <4>1, <4>2
    <3>4. QED
      BY <3>2, <3>3
  <2> HIDE DEF made, r
  <2>4. DOMAIN r = DOMAIN raw /\ r = [i \in DOMAIN raw |-> r[i]]
    BY <2>1
  <2>5. \A i \in DOMAIN raw : /\ DOMAIN r[i] = StepFields /\ r[i].intraTx = None /\ r[i].grouped = None
                              /\ r[i].covenant = made(i)
    BY <2>1 DEF Plain, StepFields, ContextKinds
  <2>6. \A i \in DOMAIN raw : TypedStep(r[i])
    BY <2>3, <2>5, CovenantIsTyped
  <2>7. IsList(r)
    BY <1>1, <2>4, RunFromSteps
  <2>8. QED
    BY <2>4, <2>6, <2>7 DEF TypedRun, r
<1>3. CASE context = "kinded"
  <2> DEFINE made(i) == Carried(raw[i].covenant, SpentCapability(raw[i]), raw[i].kind = "genesis",
                                raw[i].covenant.outLock)
  <2>1. r = [i \in DOMAIN raw |-> [Plain(raw[i]) EXCEPT !.covenant = made(i)]]
    BY <1>3, Zenon DEF ToRun, ToKindedThread
  <2>2. \A i \in DOMAIN raw : raw[i].covenant.capability \in Capability
    BY <1>3 DEF TypedRaw, RawSteps, Grouping
  <2>3. \A i \in DOMAIN raw : \E c, x, b, l : /\ c.capability \in Capability
                                              /\ x \in Capability \cup {None} /\ b \in BOOLEAN
                                              /\ made(i) = Carried(c, x, b, l)
    <3>1. TAKE i \in DOMAIN raw
    <3>2. SpentCapability(raw[i]) \in Capability
      BY <2>2 DEF SpentCapability, Capability
    <3>3. (raw[i].kind = "genesis") \in BOOLEAN
      OBVIOUS
    <3> WITNESS raw[i].covenant, SpentCapability(raw[i]), raw[i].kind = "genesis", raw[i].covenant.outLock
    <3>4. QED
      BY <2>2, <3>2, <3>3, Zenon
  <2> HIDE DEF made, r
  <2>4. DOMAIN r = DOMAIN raw /\ r = [i \in DOMAIN raw |-> r[i]]
    BY <2>1
  <2>5. \A i \in DOMAIN raw : /\ DOMAIN r[i] = StepFields /\ r[i].intraTx = None /\ r[i].grouped = None
                              /\ r[i].covenant = made(i)
    BY <2>1 DEF Plain, StepFields, ContextKinds
  <2>6. \A i \in DOMAIN raw : TypedStep(r[i])
    BY <2>3, <2>5, CovenantIsTyped
  <2>7. IsList(r)
    BY <1>1, <2>4, RunFromSteps
  <2>8. QED
    BY <2>4, <2>6, <2>7 DEF TypedRun, r
<1>4. CASE context = "successor"
  <2> DEFINE made(i) == Carried(raw[i].covenant, None, FALSE, HandedTo(v.selected, i))
  <2>1. r = [i \in DOMAIN raw |-> [Plain(raw[i]) EXCEPT !.lock = v.selected[i], !.covenant = made(i)]]
    BY <1>4, Zenon DEF ToRun, ToSuccessor, HandedTo
  <2>2. \A i \in DOMAIN raw : raw[i].covenant.capability \in Capability
    BY <1>4 DEF TypedRaw, RawSteps, Grouping
  <2>3. \A i \in DOMAIN raw : \E c, x, b, l : /\ c.capability \in Capability
                                              /\ x \in Capability \cup {None} /\ b \in BOOLEAN
                                              /\ made(i) = Carried(c, x, b, l)
    <3>1. TAKE i \in DOMAIN raw
    <3> WITNESS raw[i].covenant, None, FALSE, HandedTo(v.selected, i)
    <3>2. QED
      BY <2>2
  <2> HIDE DEF made, r
  <2>4. DOMAIN r = DOMAIN raw /\ r = [i \in DOMAIN raw |-> r[i]]
    BY <2>1
  <2>5. \A i \in DOMAIN raw : /\ DOMAIN r[i] = StepFields /\ r[i].intraTx = None /\ r[i].grouped = None
                              /\ r[i].covenant = made(i)
    BY <2>1 DEF Plain, StepFields, ContextKinds
  <2>6. \A i \in DOMAIN raw : TypedStep(r[i])
    BY <2>3, <2>5, CovenantIsTyped
  <2>7. IsList(r)
    BY <1>1, <2>4, RunFromSteps
  <2>8. QED
    BY <2>4, <2>6, <2>7 DEF TypedRun, r
<1>5. QED
  BY <1>2, <1>3, <1>4

GroupedFieldNames ==
    {"group", "index", "inputs", "category", "inToken", "inputTokens", "outToken", "outLock"}

LEMMA GroupedDomains ==
  ASSUME NEW raw, NEW category, NEW r, r = ToGrouped(raw, category), NEW q, q = WithoutSiblings(r)
  PROVE  \A i \in DOMAIN raw.steps :
            /\ DOMAIN r[i] = StepFields /\ DOMAIN r[i].grouped = GroupedFieldNames
            /\ DOMAIN q[i] = StepFields /\ DOMAIN q[i].grouped = GroupedFieldNames
<1>1. SUFFICES ASSUME NEW i \in DOMAIN raw.steps
      PROVE  /\ DOMAIN r[i] = StepFields /\ DOMAIN r[i].grouped = GroupedFieldNames
             /\ DOMAIN q[i] = StepFields /\ DOMAIN q[i].grouped = GroupedFieldNames
  OBVIOUS
<1> DEFINE n  == raw.steps[i].group
           g  == raw.groups[n]
           x  == i - g.lo + 1
           fs == InputsOfRun(SubSeq(raw.steps, g.lo, g.hi))
           l  == IF g.outLock = EmptyBytes THEN None ELSE g.outLock
<1>2. /\ DOMAIN r = DOMAIN raw.steps
      /\ r[i] = [Plain(raw.steps[i]) EXCEPT !.grouped =
                 [group |-> n, index |-> x, inputs |-> fs, category |-> category,
                  inToken |-> g.inToken, inputTokens |-> g.inputTokens, outToken |-> g.outToken, outLock |-> l]]
  BY Zenon DEF ToGrouped
<1>3. q[i] = [r[i] EXCEPT !.grouped.inputTokens = None]
  BY <1>1, <1>2 DEF WithoutSiblings
<1> HIDE DEF n, g, x, fs, l
<1>4. /\ DOMAIN r[i] = StepFields
      /\ r[i].grouped = [group |-> n, index |-> x, inputs |-> fs, category |-> category,
                  inToken |-> g.inToken, inputTokens |-> g.inputTokens, outToken |-> g.outToken, outLock |-> l]
  BY <1>2 DEF Plain, StepFields, ContextKinds
<1>5. DOMAIN r[i].grouped = GroupedFieldNames
  BY <1>4 DEF GroupedFieldNames
<1>6. DOMAIN q[i] = StepFields /\ q[i].grouped = [r[i].grouped EXCEPT !.inputTokens = None]
  BY <1>3, <1>4 DEF StepFields
<1>7. DOMAIN q[i].grouped = GroupedFieldNames
  BY <1>5, <1>6
<1>8. QED
  BY <1>4, <1>5, <1>6, <1>7

(* The inputs of a group are a list.                                        *)
LEMMA PieceIsTyped ==
  ASSUME NEW raw, WellGrouped(raw), NEW i \in DOMAIN raw.steps
  PROVE  LET g == raw.groups[raw.steps[i].group]
         IN  /\ InputsAreTyped(InputsOfRun(SubSeq(raw.steps, g.lo, g.hi)))
             /\ i - g.lo + 1 \in Nat
<1> DEFINE n     == raw.steps[i].group
           lo    == raw.groups[n].lo
           hi    == raw.groups[n].hi
           steps == raw.steps
           piece == SubSeq(steps, lo, hi)
<1>1. /\ DOMAIN steps = 1 .. Len(steps) /\ Len(steps) \in Nat
      /\ lo \in DOMAIN steps /\ hi \in DOMAIN steps /\ i \in DOMAIN steps /\ i \in lo .. hi
  BY DEF WellGrouped, IsList
<1> HIDE DEF lo, hi, steps
<1>2. /\ lo \in Int /\ hi \in Int /\ lo <= hi /\ i - lo + 1 \in Nat
      /\ \A j \in lo .. hi : j \in DOMAIN steps /\ steps[j] \in Elements(steps)
  BY <1>1 DEF Elements
<1>3. piece \in Seq(Elements(steps))
  BY <1>2, SubSeqProperties
<1>4. IsList(piece)
  BY <1>3, LenProperties DEF IsList
<1>5. InputsAreTyped(InputsOfRun(piece))
  <2> HIDE DEF piece
  <2>1. QED
    BY <1>4, InputsOfList
<1>6. QED
  BY <1>2, <1>5 DEF lo, hi, steps

LEMMA GroupsAreTyped ==
  ASSUME ContextsAreThere, NEW context \in Grouping, NEW v, NEW raw, TypedRaw(context, raw), WellGrouped(raw)
  PROVE  TypedRun(ToRun(context, v, raw))
<1> DEFINE p == ToGrouped(raw, v.category)
           q == WithoutSiblings(p)
           r == ToRun(context, v, raw)
<1>1. IsList(raw.steps) /\ \A i \in DOMAIN raw.steps :
                            raw.steps[i].group \in Nat /\ TypedGroup(raw.groups[raw.steps[i].group])
  BY DEF TypedRaw, RawSteps
<1>2. r = p \/ r = q
  BY DEF ToRun, Grouping
<1>3. DOMAIN p = DOMAIN raw.steps /\ DOMAIN q = DOMAIN raw.steps
      /\ p = [i \in DOMAIN raw.steps |-> p[i]] /\ q = [i \in DOMAIN raw.steps |-> q[i]]
  <2>1. DOMAIN p = DOMAIN raw.steps /\ p = [i \in DOMAIN raw.steps |-> p[i]]
    BY DEF ToGrouped
  <2> HIDE DEF p
  <2>2. DOMAIN q = DOMAIN p /\ q = [i \in DOMAIN p |-> q[i]]
    BY DEF WithoutSiblings
  <2>3. QED
    BY <2>1, <2>2
<1>4. ASSUME NEW x, x = p \/ x = q, NEW i \in DOMAIN raw.steps
      PROVE  TypedStep(x[i])
  <2> DEFINE n  == raw.steps[i].group
             g  == raw.groups[n]
             k  == i - g.lo + 1
             fs == InputsOfRun(SubSeq(raw.steps, g.lo, g.hi))
  <2>1. TypedGroup(g) /\ n \in Nat
    BY <1>1
  <2>2. InputsAreTyped(fs) /\ k \in Nat
    BY PieceIsTyped
  <2> HIDE DEF p, q, r
  <2>3. /\ x[i].covenant = None /\ x[i].intraTx = None /\ x[i].grouped # None
        /\ x[i].grouped.group = n /\ x[i].grouped.index = k /\ x[i].grouped.inputs = fs
        /\ x[i].grouped.inToken = g.inToken /\ x[i].grouped.outToken = g.outToken
        /\ x[i].grouped.inputTokens \in {None, g.inputTokens}
    BY <1>4, GroupedFields, SMTT(60) DEF p, q
  <2>4. DOMAIN x[i] = StepFields /\ DOMAIN x[i].grouped = GroupedFieldNames
    BY <1>4, GroupedDomains DEF p, q
  <2> HIDE DEF n, g, k, fs
  <2>5. IsGrouped(x[i].grouped)
    BY <2>1, <2>2, <2>3, <2>4 DEF IsGrouped, TypedGroup, InputsAreTyped, GroupedFieldNames
  <2>6. /\ IsList(x[i].grouped.inputs)
        /\ x[i].grouped.inputTokens # None => IsList(x[i].grouped.inputTokens)
    BY <2>1, <2>2, <2>3 DEF TypedGroup, InputsAreTyped
  <2>7. QED
    BY <2>3, <2>4, <2>5, <2>6 DEF TypedStep, IsStep, StepFields
<1> HIDE DEF p, q, r
<1>5. IsList(p) /\ IsList(q)
  BY <1>1, <1>3, RunFromSteps
<1>6. QED
  BY <1>2, <1>3, <1>4, <1>5 DEF TypedRun, r

LEMMA RunIsTyped ==
  ASSUME ContextsAreThere, NEW context \in LoadContexts, NEW v, NEW raw, TypedRaw(context, raw),
         context \in Grouping => WellGrouped(raw)
  PROVE  TypedRun(ToRun(context, v, raw))
<1>1. CASE context = "intraTx"
  <2>1. IsList(raw)
    BY <1>1 DEF TypedRaw, RawSteps, Grouping
  <2>2. QED
    BY <1>1, <2>1, IntraTxIsTyped DEF ToRun
<1>2. CASE context \in Grouping
  BY <1>2, GroupsAreTyped
<1>3. CASE context \in {"thread", "kinded", "successor"}
  BY <1>3, ChainsAreTyped
<1>4. QED
  BY <1>1, <1>2, <1>3 DEF LoadContexts, Grouping

LEMMA LoneStepsAreTyped ==
  ASSUME NEW r, LoneSteps(r), IsList(r)
  PROVE  TypedRun(r)
<1>1. \A i \in DOMAIN r : TypedStep(r[i])
  BY DEF LoneSteps, BareSteps, TypedStep, IsStep, StepFields, ContextKinds
<1>2. QED
  BY <1>1 DEF TypedRun

(* What the files of an entry hold is typed.                                *)
StepFiles(load, v) == \A raw \in HonestRaws(load, v) : TypedRaw(WovenAs(load), raw)

(* The honest runs of every loader, and the list of extra ones.             *)
LEMMA LoadIsTyped ==
  ASSUME ContextsAreThere, NEW e \in Registry \cup Candidates, NEW v, WholeFiles(e.load, v),
         StepFiles(e.load, v), NEW s, s = Load(e, v), s # None
  PROVE  s.extras \in Seq(Runs(s)) /\ \A r \in Runs(s) : TypedRun(r)
<1> DEFINE load    == e.load
           context == WovenAs(load)
<1>1. \A r \in Runs(s) : MadeAlike(load, v, s, r)
  BY LoadIsMadeAlike
<1>2. s.valid \in Runs(s)
  BY DEF Runs
<1>3. s.extras \in Seq(Runs(s))
  <2>1. OwnList(s.extras)
    BY <1>2, LoadIsMadeAlike
  <2>2. Elements(s.extras) \subseteq Runs(s)
    BY DEF Runs
  <2>3. \A S, T : S \subseteq T => Seq(S) \subseteq Seq(T)
    OBVIOUS
  <2>4. QED
    BY <2>1, <2>2, <2>3 DEF OwnList
<1>4. ASSUME NEW r \in Runs(s)
      PROVE  TypedRun(r)
  <2>1. CASE load.form \in WovenForms
    <3>1. PICK raw \in HonestRaws(load, v) : r = ToRun(context, v, raw)
      BY <1>1, <1>4, <2>1 DEF MadeAlike
    <3>2. context \in LoadContexts /\ (context \in Grouping => WellGrouped(raw))
      BY HonestRawsAreWhole
    <3>3. TypedRaw(context, raw)
      BY DEF StepFiles
    <3> HIDE DEF context, load
    <3>4. TypedRun(ToRun(context, v, raw))
      BY <3>2, <3>3, RunIsTyped
    <3>5. QED
      BY <3>1, <3>4
  <2>2. CASE load.form \notin WovenForms
    <3>1. LoneSteps(r)
      BY <1>1, <1>4, <2>2 DEF MadeAlike
    <3>2. \/ \E lock : \A q \in Runs(s) : SingleOf(lock, q)
          \/ IsList(s.valid) /\ \A q \in Runs(s) : q = s.valid
      BY <2>2, BareScenarios
    <3>3. IsList(r)
      BY <1>4, <3>2 DEF SingleOf, IsList
    <3>4. QED
      BY <3>1, <3>3, LoneStepsAreTyped
  <2>3. QED
    BY <2>1, <2>2
<1>5. QED
  BY <1>3, <1>4

-----------------------------------------------------------------------------
(* What is given at the start                                               *)

(* An absent field is nothing else.                                         *)
NoneIsAbsent == NoneIsNoNumber /\ TokensAreThere /\ ContextsAreThere /\ CovenantsAreThere

(* What is given is typed: the files of one of the entries of the code, or  *)
(* a scenario and its locators.                                             *)
TypedInput ==
    /\ TypedFiles
    /\ entry # None => StepFiles(entry.impl.load, entry.files)
    /\ entry = None => /\ TypedLocators(case.locators)
                       /\ case.scenario.extras \in Seq(Runs(case.scenario))
                       /\ \A r \in Runs(case.scenario) : TypedRun(r)

(* The scenario that is checked, None if the loader throws.                 *)
Subject == IF entry = None THEN case.scenario ELSE Load(entry.impl, entry.files)

(* The bytes of its primary run have been read from hexadecimal.            *)
SizedInput == entry = None \/ Subject # None => SizedRun(Subject.valid)

(* What the entry declares to be its proof is in the unlockings of its runs. *)
FoundInput ==
    entry # None /\ Subject # None =>
        \A k \in DOMAIN entry.impl.proof : \A r \in Runs(Subject) : Located(r, entry.impl.proof[k])

LEMMA InputStays ==
  ASSUME [Next]_vars
  PROVE  entry' = entry /\ (entry = None => case' = case)
BY DEF Next, LoadEntry, AssertHonestRuns, Measure, vars

LEMMA TypedInputStays ==
  ASSUME TypedInput, [Next]_vars
  PROVE  TypedInput'
BY InputStays DEF TypedInput, TypedFiles

LEMMA SizedInputStays ==
  ASSUME SizedInput, [Next]_vars
  PROVE  SizedInput'
BY InputStays DEF SizedInput, Subject

LEMMA FoundInputStays ==
  ASSUME FoundInput, [Next]_vars
  PROVE  FoundInput'
BY InputStays DEF FoundInput, Subject

LEMMA FilesStay ==
  ASSUME [Next]_vars
  PROVE  /\ TypedFiles => TypedFiles'
         /\ ThreadFiles => ThreadFiles'
         /\ CountedFiles => CountedFiles'
         /\ ProgramFiles => ProgramFiles'
BY InputStays DEF TypedFiles, ThreadFiles, CountedFiles, ProgramFiles

(* The scenario under check is the one that was given or loaded.            *)
CaseIsSubject ==
    case # None =>
        /\ case.scenario = Subject /\ (entry # None => Subject # None)
        /\ entry # None => case.locators = entry.impl.proof

LEMMA SubjectStays ==
  ASSUME CaseIsSubject, [Next]_vars
  PROVE  CaseIsSubject'
<1>1. CASE LoadEntry
  BY <1>1 DEF LoadEntry, CaseIsSubject, Subject
<1>2. CASE AssertHonestRuns
  BY <1>2 DEF AssertHonestRuns, CaseIsSubject, Subject
<1>3. CASE Measure
  BY <1>3 DEF Measure, CaseIsSubject, Subject
<1>4. CASE UNCHANGED vars
  BY <1>4 DEF vars, CaseIsSubject, Subject
<1>5. QED
  BY <1>1, <1>2, <1>3, <1>4 DEF Next

LEMMA SubjectIsAlways == Spec => []CaseIsSubject
<1>1. Init => CaseIsSubject
  BY DEF Init, CaseIsSubject, Subject
<1>2. CaseIsSubject /\ [Next]_vars => CaseIsSubject'
  BY SubjectStays
<1>3. QED
  BY <1>1, <1>2, PTL DEF Spec

(* What the checks and the measure say of the scenario that is there.       *)
Reached == CaseIsSubject /\ PassedIsChecked /\ MeasureIsOfPassed /\ RefusedIsChecked

LEMMA AlwaysReached == Spec => []Reached
BY SubjectIsAlways, PassedMeansChecked, MeasuredMeansPassed, RefusedMeansChecked, PTL DEF Reached

LEMMA SubjectIsLoad ==
  ASSUME CaseIsSubject
  PROVE  LoadedIsLoad
BY DEF CaseIsSubject, LoadedIsLoad, Loaded, Subject

LEMMA SubjectIsTyped ==
  ASSUME NoneIsAbsent, TypedInput, CaseIsSubject
  PROVE  Typed /\ TypedProofs
<1>1. SUFFICES ASSUME case # None
      PROVE  /\ TypedLocators(case.locators) /\ case.scenario.extras \in Seq(Runs(case.scenario))
             /\ \A r \in Runs(case.scenario) : TypedRun(r)
  BY DEF NoneIsAbsent, Typed, TypedProofs
<1>2. CASE entry = None
  BY <1>2 DEF TypedInput
<1>3. CASE entry # None
  <2> DEFINE e == entry.impl
             v == entry.files
             s == case.scenario
  <2>1. s = Load(e, v) /\ s # None /\ case.locators = e.proof
    BY <1>1, <1>3 DEF CaseIsSubject, Subject
  <2>2. e \in Registry \cup Candidates /\ WholeFiles(e.load, v) /\ StepFiles(e.load, v)
    BY <1>3 DEF TypedInput, TypedFiles
  <2>3. ContextsAreThere /\ NoneIsNoNumber
    BY DEF NoneIsAbsent
  <2> HIDE DEF e, v, s
  <2>4. s.extras \in Seq(Runs(s)) /\ \A r \in Runs(s) : TypedRun(r)
    BY <2>1, <2>2, <2>3, LoadIsTyped
  <2>5. TypedLocators(e.proof)
    BY <2>2, <2>3, EntriesAreDeclared DEF Declared, ProofDeclared
  <2>6. QED
    BY <2>1, <2>4, <2>5 DEF s
<1>4. QED
  BY <1>2, <1>3

LEMMA SubjectIsSized ==
  ASSUME SizedInput, CaseIsSubject
  PROVE  SizedPrimary
BY DEF SizedInput, CaseIsSubject, SizedPrimary, run

LEMMA SubjectIsFound ==
  ASSUME FoundInput, CaseIsSubject
  PROVE  ProofsAreFound
BY DEF FoundInput, CaseIsSubject, ProofsAreFound, Loaded

-----------------------------------------------------------------------------
(* The theorems                                                             *)

(* Honest runs of typed steps that pass the contract are runs of one        *)
(* deployed program: the same lockings and tokens spent into the same       *)
(* outputs, for runs of any length in every kind of context                 *)
(* (assertHonestRuns, assertSameProgramRun).                                *)
THEOREM OneProgramAlways ==
  NoneIsAbsent /\ TypedInput /\ Spec => []OneProgram
<1>1. NoneIsAbsent /\ TypedInput /\ Reached => OneProgram
  BY SubjectIsTyped, ProgramIsOne DEF Reached, NoneIsAbsent
<1>2. TypedInput /\ [Next]_vars => (TypedInput)'
  BY TypedInputStays
<1>3. ASSUME NoneIsAbsent PROVE TypedInput /\ Spec => []OneProgram
  BY <1>1, <1>2, <1>3, AlwaysReached, PTL DEF Spec
<1>4. QED
  BY <1>3

(* The steps of every honest run that passes the contract, each evaluated   *)
(* in the context it declares itself, are the inputs of one and the same    *)
(* list of transactions, for any number of steps and groups                 *)
(* (assertRunShape, assertGrouped, assertIntraTx, evaluatePair).            *)
THEOREM RunsAreTransactionsAlways ==
  NoneIsAbsent /\ TypedInput /\ Spec => []RunsAreTransactions
<1>1. NoneIsAbsent /\ TypedInput /\ Reached => RunsAreTransactions
  BY SubjectIsTyped, CheckedRunsAreTransactions DEF Reached, NoneIsAbsent
<1>2. TypedInput /\ [Next]_vars => (TypedInput)'
  BY TypedInputStays
<1>3. ASSUME NoneIsAbsent PROVE TypedInput /\ Spec => []RunsAreTransactions
  BY <1>1, <1>2, <1>3, AlwaysReached, PTL DEF Spec
<1>4. QED
  BY <1>3

(* With any locators and any number of extra proofs, two runs from which    *)
(* generality is claimed never carry one proof in two encodings or with     *)
(* other surroundings: what counts is the located numbers and bytes         *)
(* (proofFingerprint, assertHonestRuns).                                    *)
THEOREM ClaimedProofsDifferAlways ==
  NoneIsAbsent /\ TypedInput /\ Spec => []ClaimedProofsDiffer
<1>1. NoneIsAbsent /\ TypedInput /\ Reached => ClaimedProofsDiffer
  BY SubjectIsTyped, TypedProofsDiffer DEF Reached, NoneIsAbsent
<1>2. TypedInput /\ [Next]_vars => (TypedInput)'
  BY TypedInputStays
<1>3. ASSUME NoneIsAbsent PROVE TypedInput /\ Spec => []ClaimedProofsDiffer
  BY <1>1, <1>2, <1>3, AlwaysReached, PTL DEF Spec
<1>4. QED
  BY <1>3

(* A passed run of any length and any scripts is charged, transaction by    *)
(* transaction, what the transaction is long, up to three bytes for each    *)
(* token without a commitment, whichever step carries the envelope          *)
(* (stepTxOverhead, runScore).                                              *)
THEOREM OverheadIsTheRestAlways ==
  NoneIsAbsent /\ TypedInput /\ SizedInput /\ Spec => []OverheadIsTheRest
<1>1. NoneIsAbsent /\ TypedInput /\ SizedInput /\ Reached => OverheadIsTheRest
  BY SubjectIsTyped, SubjectIsSized, MeasuredOverhead DEF Reached, NoneIsAbsent
<1>2. TypedInput /\ SizedInput /\ [Next]_vars => (TypedInput /\ SizedInput)'
  BY TypedInputStays, SizedInputStays
<1>3. ASSUME NoneIsAbsent PROVE TypedInput /\ SizedInput /\ Spec => []OverheadIsTheRest
  BY <1>1, <1>2, <1>3, AlwaysReached, PTL DEF Spec
<1>4. QED
  BY <1>3

(* The score of a passed run of any length counts and adds every            *)
(* transaction once, and reports a largest one that none exceeds            *)
(* (runScore, txCountOf, largestTxBytes).                                   *)
THEOREM EveryTransactionOnceAlways ==
  NoneIsAbsent /\ TypedInput /\ SizedInput /\ Spec => []EveryTransactionOnce
<1>1. NoneIsAbsent /\ TypedInput /\ SizedInput /\ Reached => EveryTransactionOnce
  BY SubjectIsTyped, SubjectIsSized, MeasuredTransactions DEF Reached, NoneIsAbsent
<1>2. TypedInput /\ SizedInput /\ [Next]_vars => (TypedInput /\ SizedInput)'
  BY TypedInputStays, SizedInputStays
<1>3. ASSUME NoneIsAbsent PROVE TypedInput /\ SizedInput /\ Spec => []EveryTransactionOnce
  BY <1>1, <1>2, <1>3, AlwaysReached, PTL DEF Spec
<1>4. QED
  BY <1>3

(* Every run that any entry makes of its files, of any length and with any  *)
(* scripts, is evaluated in transactions that hold its own bytes and those  *)
(* of its siblings (toRun, mutate, the tampered runs).                      *)
THEOREM EveryLoadedRunIsEvaluatedAlways ==
  NoneIsAbsent /\ TypedFiles /\ Spec => []EveryLoadedRunIsEvaluated
<1>1. NoneIsAbsent /\ TypedFiles /\ Reached => EveryLoadedRunIsEvaluated
  BY SubjectIsLoad, LoadedRunsAreEvaluated DEF Reached, NoneIsAbsent
<1>2. TypedFiles /\ [Next]_vars => (TypedFiles)'
  BY FilesStay
<1>3. ASSUME NoneIsAbsent PROVE TypedFiles /\ Spec => []EveryLoadedRunIsEvaluated
  BY <1>1, <1>2, <1>3, AlwaysReached, PTL DEF Spec
<1>4. QED
  BY <1>3

(* From files of any number of steps whose commitments follow each other,   *)
(* a loader makes a thread: every transaction of an honest run spends the   *)
(* token the one before has handed on, at the locking it was handed to      *)
(* (toStep of the chains, toRun of the groups and of the corrected chain).  *)
THEOREM ThreadsContinueAlways ==
  NoneIsAbsent /\ TypedFiles /\ ThreadFiles /\ Spec => []ThreadsContinue
<1>1. NoneIsAbsent /\ TypedFiles /\ ThreadFiles /\ Reached => ThreadsContinue
  BY SubjectIsLoad, LoadedThreadsContinue DEF Reached, NoneIsAbsent
<1>2. TypedFiles /\ ThreadFiles /\ [Next]_vars => (TypedFiles /\ ThreadFiles)'
  BY FilesStay
<1>3. ASSUME NoneIsAbsent PROVE TypedFiles /\ ThreadFiles /\ Spec => []ThreadsContinue
  BY <1>1, <1>2, <1>3, AlwaysReached, PTL DEF Spec
<1>4. QED
  BY <1>3

(* What an entry declares of its structure is what the score of its run     *)
(* counts, for every entry (structure of the entries, txCountOf).           *)
THEOREM StructureIsTransactionsAlways ==
  NoneIsAbsent /\ TypedInput /\ CountedFiles /\ Spec => []StructureIsTransactions
<1>1. NoneIsAbsent /\ TypedInput /\ CountedFiles /\ Reached => StructureIsTransactions
  BY SubjectIsTyped, SubjectIsLoad, StructureIsCounted DEF Reached, NoneIsAbsent, TypedInput
<1>2. TypedInput /\ CountedFiles /\ [Next]_vars => (TypedInput /\ CountedFiles)'
  BY TypedInputStays, FilesStay
<1>3. ASSUME NoneIsAbsent PROVE TypedInput /\ CountedFiles /\ Spec => []StructureIsTransactions
  BY <1>1, <1>2, <1>3, AlwaysReached, PTL DEF Spec
<1>4. QED
  BY <1>3

(* From files that hold runs of one program, of any length, nothing a       *)
(* loader makes is refused for its shape: the contract throws only when two *)
(* honest runs are one proof (toRun against assertRunShape and              *)
(* assertSameProgramRun).                                                   *)
THEOREM OnlyRepeatsAreRefusedAlways ==
  NoneIsAbsent /\ TypedInput /\ ProgramFiles /\ FoundInput /\ Spec => []OnlyRepeatsAreRefused
<1>1. NoneIsAbsent /\ TypedInput /\ ProgramFiles /\ FoundInput /\ Reached => OnlyRepeatsAreRefused
  BY SubjectIsTyped, SubjectIsLoad, SubjectIsFound, LoadedRefusals DEF Reached, NoneIsAbsent, TypedInput
<1>2. TypedInput /\ ProgramFiles /\ FoundInput /\ [Next]_vars => (TypedInput /\ ProgramFiles /\ FoundInput)'
  BY TypedInputStays, FilesStay, FoundInputStays
<1>3. ASSUME NoneIsAbsent PROVE TypedInput /\ ProgramFiles /\ FoundInput /\ Spec => []OnlyRepeatsAreRefused
  BY <1>1, <1>2, <1>3, AlwaysReached, PTL DEF Spec
<1>4. QED
  BY <1>3
=============================================================================
