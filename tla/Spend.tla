------------------------------- MODULE Spend -------------------------------
(***************************************************************************)
(* A step of a run and the transaction it is evaluated in: the Step        *)
(* interface of src/harness/types.ts and the synthetic spends evaluatePair *)
(* of src/harness/vm.ts builds.  A step is one input with its locking and  *)
(* unlocking; at most one context says which transaction it belongs to:    *)
(*   covenant  a transaction of its own that carries a token on            *)
(*   intraTx   one transaction whose inputs are all the steps of the run   *)
(*   grouped   one of several transactions of several inputs each          *)
(*                                                                         *)
(* Scripts, commitments and categories are values left open; amounts,      *)
(* outpoints and sequence numbers, which are constant in the code, are     *)
(* left out.  Positions count from one.  None is an absent field.          *)
(***************************************************************************)
EXTENDS Integers, Sequences, FiniteSets

CONSTANTS
  None,
  OpReturn,      \* the locking of an output that carries nothing
  EmptyBytes     \* the empty commitment, the empty locking

Capability == {"none", "mutable", "minting"}

ContextKinds == {"covenant", "intraTx", "grouped"}

(* The operator ?? of the code.                                             *)
Given(x, default) == IF x = None THEN default ELSE x

IsToken(t) == t = None \/ (DOMAIN t = {"capability", "commitment"} /\ t.capability \in Capability)

IsInputs(inputs) == \A k \in DOMAIN inputs : DOMAIN inputs[k] = {"lock", "unlock"}

IsCovenant(c) ==
    /\ DOMAIN c = {"category", "capability", "inCommitment", "outCommitment", "outLock",
                   "inputCapability", "baton"}
    /\ c.capability \in Capability
    /\ c.inputCapability \in Capability \cup {None}
    /\ c.baton \in BOOLEAN

IsIntraTx(x) ==
    DOMAIN x = {"index", "inputs"} /\ x.index \in Nat /\ IsInputs(x.inputs)

IsGrouped(g) ==
    /\ DOMAIN g = {"group", "index", "inputs", "category", "inToken", "inputTokens",
                   "outToken", "outLock"}
    /\ g.group \in Nat /\ g.index \in Nat
    /\ IsInputs(g.inputs)
    /\ IsToken(g.inToken) /\ IsToken(g.outToken)
    /\ g.inputTokens # None => \A k \in DOMAIN g.inputTokens : IsToken(g.inputTokens[k])

IsStep(s) ==
    /\ DOMAIN s = {"lock", "unlock", "checkpoint"} \cup ContextKinds
    /\ s.covenant # None => IsCovenant(s.covenant)
    /\ s.intraTx # None => IsIntraTx(s.intraTx)
    /\ s.grouped # None => IsGrouped(s.grouped)

-----------------------------------------------------------------------------
(* evaluatePair: the transaction and the outputs it spends.  An input is    *)
(* shown with the output it spends; `index' is the input evaluated.         *)

Token(category, capability, commitment) ==
    [category |-> category, capability |-> capability, commitment |-> commitment]

InputOf(i, token) == [lock |-> i.lock, unlock |-> i.unlock, token |-> token]

OutputOf(lock, token) == [lock |-> lock, token |-> token]

IntraTxProgram(x) ==
    [index   |-> x.index,
     inputs  |-> [k \in DOMAIN x.inputs |-> InputOf(x.inputs[k], None)],
     outputs |-> << OutputOf(OpReturn, None) >>]

(* The token of an input of a group: the one declared for the input, or the *)
(* incoming token for the first.                                            *)
SpentToken(g, k) ==
    LET declared == IF g.inputTokens = None THEN None ELSE g.inputTokens[k]
    IN  Given(declared, IF k = 1 THEN g.inToken ELSE None)

GroupToken(g, t) ==
    IF t = None THEN None ELSE Token(g.category, t.capability, t.commitment)

GroupedProgram(g) ==
    [index   |-> g.index,
     inputs  |-> [k \in DOMAIN g.inputs |->
                    InputOf(g.inputs[k], GroupToken(g, SpentToken(g, k)))],
     outputs |-> << OutputOf(IF g.outToken = None THEN OpReturn ELSE Given(g.outLock, OpReturn),
                             GroupToken(g, g.outToken)) >>]

(* A genesis step spends a minting baton and recreates it as its second     *)
(* output, locked to itself.                                                *)
CovenantProgram(s) ==
    LET c    == s.covenant
        next == OutputOf(c.outLock, Token(c.category, c.capability, c.outCommitment))
    IN  [index   |-> 1,
         inputs  |-> << InputOf(s, Token(c.category, Given(c.inputCapability, c.capability),
                                         c.inCommitment)) >>,
         outputs |-> IF c.baton
                     THEN << next, OutputOf(s.lock, Token(c.category, "minting", EmptyBytes)) >>
                     ELSE << next >>]

BareProgram(s) ==
    [index |-> 1, inputs |-> << InputOf(s, None) >>, outputs |-> << OutputOf(EmptyBytes, None) >>]

Program(s) ==
    CASE s.grouped # None -> GroupedProgram(s.grouped)
      [] s.grouped = None /\ s.intraTx # None -> IntraTxProgram(s.intraTx)
      [] s.grouped = None /\ s.intraTx = None /\ s.covenant # None -> CovenantProgram(s)
      [] OTHER -> BareProgram(s)

(* The transaction of a step, whichever of its inputs is evaluated.         *)
Transaction(s) == [inputs |-> Program(s).inputs, outputs |-> Program(s).outputs]

(* The steps of a run that are inputs of the transaction of step i.         *)
Mates(run, i) ==
    {j \in DOMAIN run :
        \/ j = i
        \/ run[i].grouped # None /\ run[i].grouped.group = run[j].grouped.group
        \/ run[i].grouped = None /\ run[i].intraTx # None}

(* The input the machine really evaluates when it is given a step.          *)
EvaluatedInput(s) == Program(s).inputs[Program(s).index]

SameInput(x, s) == x.lock = s.lock /\ x.unlock = s.unlock

-----------------------------------------------------------------------------
(* Not in the code: what the properties of several modules ask of a run.    *)

(* The machine evaluates the bytes of the step it is given, and the steps   *)
(* of one transaction describe the same transaction, with the same tokens   *)
(* and the same output, each another input of it and no input left over.    *)
IsItsTransactions(r) ==
    \A i \in DOMAIN r :
        LET mates == Mates(r, i)
        IN  /\ Program(r[i]).index \in DOMAIN Program(r[i]).inputs
            /\ SameInput(EvaluatedInput(r[i]), r[i])
            /\ \A j \in mates : Transaction(r[j]) = Transaction(r[i])
            /\ {Program(r[j]).index : j \in mates} = DOMAIN Program(r[i]).inputs
            /\ \A j \in mates : j # i => Program(r[j]).index # Program(r[i]).index

(* A transaction without its witness: no unlockings, no commitments.        *)
TokenSkeleton(t) == IF t = None THEN None ELSE << t.category, t.capability >>

Skeleton(p) ==
    [index   |-> p.index,
     inputs  |-> [k \in DOMAIN p.inputs |-> << p.inputs[k].lock, TokenSkeleton(p.inputs[k].token) >>],
     outputs |-> [k \in DOMAIN p.outputs |-> << p.outputs[k].lock, TokenSkeleton(p.outputs[k].token) >>]]
=============================================================================
