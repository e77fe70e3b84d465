--------------------------- MODULE ContractCheck ---------------------------
(***************************************************************************)
(* One scenario goes through what computeResults does with its bytes: it   *)
(* is loaded from the files of an entry, or given as it is;                *)
(* assertHonestRuns returns or throws, and a scenario that passes has its  *)
(* primary run measured.  The properties say what the code that runs the   *)
(* scenario, and the readers of its score, can rely on, in terms of the    *)
(* transactions the machine will see and a deployment will publish.        *)
(***************************************************************************)
EXTENDS TxSize, Loaders

VARIABLES
  entry,    \* an entry and the contents of its files; None for a given case
  case,     \* the entry's locators and its scenario; None before it is loaded
  verdict,  \* what assertHonestRuns does: unchecked, returns, throws
  measure   \* what runScore and txCountOf say of the primary run, or None

vars == <<entry, case, verdict, measure>>

Elements(xs) == {xs[i] : i \in DOMAIN xs}

Runs(s) == {s.valid} \cup Elements(s.extras) \cup (IF s.worst = None THEN {} ELSE {s.worst})

(* The types of the interfaces hold.                                        *)
IsScenario(s) == \A r \in Runs(s) : \A i \in DOMAIN r : IsStep(r[i])

Init ==
    /\ IF entry = None THEN IsScenario(case.scenario) ELSE case = None
    /\ verdict = "unchecked"
    /\ measure = None

LoadEntry ==
    /\ entry # None /\ case = None /\ verdict = "unchecked"
    /\ LET scenario == Load(entry.impl, entry.files)
       IN  IF scenario = None
           THEN verdict' = "throws" /\ UNCHANGED case
           ELSE case' = [locators |-> entry.impl.proof, scenario |-> scenario] /\ UNCHANGED verdict
    /\ UNCHANGED <<entry, measure>>

AssertHonestRuns ==
    /\ verdict = "unchecked" /\ case # None
    /\ verdict' = IF HonestRuns(case.locators, case.scenario) THEN "returns" ELSE "throws"
    /\ UNCHANGED <<entry, case, measure>>

Measure ==
    /\ verdict = "returns"
    /\ measure = None
    /\ measure' = RunScore(case.scenario.valid)
    /\ UNCHANGED <<entry, case, verdict>>

Next == LoadEntry \/ AssertHonestRuns \/ Measure

Spec == Init /\ [][Next]_vars

Passed == verdict = "returns"

-----------------------------------------------------------------------------
(* Properties                                                               *)

(* Every honest run that passes the contract is a list of transactions that *)
(* could exist: evaluating step by step, each step in the context it        *)
(* declares itself, judges those transactions (assertRunShape against       *)
(* evaluatePair).                                                           *)
RunsAreTransactions == Passed => \A r \in Runs(case.scenario) : IsItsTransactions(r)

(* All honest runs spend the same lockings and tokens into the same         *)
(* outputs: they differ in unlockings and commitments only, so a statement  *)
(* about all of them is a statement about one deployed program              *)
(* (assertSameProgramRun).                                                  *)
OneProgram ==
    Passed =>
        \A r \in Runs(case.scenario) :
            /\ Len(r) = Len(case.scenario.valid)
            /\ \A i \in DOMAIN r : Skeleton(Program(r[i])) = Skeleton(Program(case.scenario.valid[i]))

(* No proof is counted twice: the runs from which generality is claimed are *)
(* pairwise different proofs, so re-encoding a proof or changing what is    *)
(* not proof never earns a claim (assertHonestRuns, the fingerprints).      *)
ClaimedProofsDiffer ==
    Passed =>
        LET claimed == << case.scenario.valid >> \o DistinctExtraProofs(case.locators, case.scenario)
        IN  /\ ProofIdentity(case.locators, case.scenario).distinct => Len(claimed) > 1
            /\ \A i, j \in DOMAIN claimed :
                 i # j => ~SameProof(claimed[i], claimed[j], case.locators)

Loaded == entry # None /\ case # None

(* Whatever a loader makes of its files, the runs that must be accepted and *)
(* the runs that must be rejected, a txv5 variant included: a step is       *)
(* evaluated in a transaction that holds its own bytes and the bytes of all *)
(* its siblings, so a tampered run is rejected for its tampering and not    *)
(* for a context that was not rebuilt (toRun, mutate, the tampered runs).   *)
EveryLoadedRunIsEvaluated ==
    Loaded =>
        LET s     == case.scenario
            all(t) == Runs(t) \cup Elements(Given(t.invalid, << >>)) \cup Elements(Given(t.invalidInputs, << >>))
            steps == all(s) \cup (IF s.variant = None THEN {} ELSE all(s.variant))
        IN  \A r \in steps :
              IF r[1].covenant # None
              THEN \A i \in DOMAIN r : SameInput(EvaluatedInput(r[i]), r[i])
              ELSE IsItsTransactions(r)

(* From files whose commitments follow each other, a loader makes a thread: *)
(* every transaction of an honest run spends the token the one before has   *)
(* handed on, at the locking it was handed to, with the rights it had       *)
(* (toStep of the chains, toRun of the groups and of the corrected chain).  *)
ThreadsContinue ==
    Loaded =>
        \A r \in Runs(case.scenario) : \A i \in DOMAIN r :
            LET next == 1 + Max(Mates(r, i))
            IN  next \in DOMAIN r /\ Contexts(r[i]) # {} =>
                  LET out == Transaction(r[i]).outputs[1]
                      in  == Transaction(r[next]).inputs[1]
                  IN  in.token = out.token /\ in.lock = out.lock

(* Nothing a loader makes from well-formed files is refused for its shape:  *)
(* the contract throws only when two honest runs are one proof (toRun       *)
(* against assertRunShape and assertSameProgramRun).                        *)
OnlyRepeatsAreRefused ==
    Loaded /\ verdict = "throws" =>
        LET honest == HonestList(case.scenario)
        IN  \E i, j \in DOMAIN honest : i < j /\ SameProof(honest[i], honest[j], case.locators)

(* What is declared as proof is not a public input, and no bytes are both   *)
(* the first and the second input: a forged statement changes no proof and  *)
(* a new statement alone makes no new proof (groth16-proof-inputs.ts,       *)
(* publicInputs of the entries).                                            *)
ProofIsNotStatement ==
    entry # None =>
        LET bytes(x, n) == x.offset .. (x.offset + n - 1)
            meet(x, n, y, m) == /\ x.input = y.input /\ x.push = y.push
                                /\ x.offset = None \/ y.offset = None \/ bytes(x, n) \cap bytes(y, m) # {}
        IN  /\ \A l \in Elements(entry.impl.proof), s \in entry.impl.slots :
                 ~meet(l, Given(l.length, 0), s, SlotBytes)
            /\ \A s, t \in entry.impl.slots : s.name # t.name => ~meet(s, SlotBytes, t, SlotBytes)

(* An entry declares one transaction if and only if its run is one.         *)
StructureIsTransactions ==
    Loaded /\ measure # None =>
        (entry.impl.structure = "single-tx" <=> measure.txCount = 1)

(* The run that is measured.                                                *)
run == case.scenario.valid

(* What the steps of one transaction are charged, together with their       *)
(* unlockings, is the transaction, without the locking of the token it      *)
(* hands on, which is the next step's: nothing is paid twice or missed      *)
(* whichever step carries the envelope, however long the scripts are and    *)
(* however many inputs there are.  A token without a commitment is charged  *)
(* a length byte it does not have, and at a varint boundary that byte moves *)
(* the length of the output by two more (stepTxOverhead).                   *)
OverheadIsTheRest ==
    measure # None =>
        \A i \in DOMAIN run :
            LET surplus == Spent(run, Mates(run, i)) - (Serialized(run[i]) - Successor(run[i]))
            IN  /\ 0 <= surplus /\ surplus <= 3 * BareTokens(run[i])
                /\ BareTokens(run[i]) > 0 => surplus >= BareTokens(run[i])

(* The score of a run is the sum of its transactions and of the lockings    *)
(* they spend, each transaction once, and no transaction is longer than the *)
(* one reported as the largest, but for the locking of the token it hands   *)
(* on (runScore, txCountOf, largestTxBytes).                                *)
EveryTransactionOnce ==
    measure # None =>
        LET firsts == {i \in DOMAIN run : \A j \in Mates(run, i) : i <= j}
        IN  /\ measure.txCount = Cardinality(firsts)
            /\ measure.score = SumFunction([i \in DOMAIN run |-> Size(run[i].lock)])
                               + SumFunction([i \in firsts |-> Spent(run, Mates(run, i))])
            /\ \A i \in firsts : Serialized(run[i]) - Successor(run[i]) <= measure.txBytes

(* What the comment on standardness says: a run of standard sizes has no    *)
(* transaction of more than 100,000 bytes.                                  *)
StandardRunsFit ==
    measure # None /\ SizesAreStandard(run, MaxStandardUnlocking) =>
        \A i \in DOMAIN run : Serialized(run[i]) <= MaxStandardTransaction
=============================================================================
