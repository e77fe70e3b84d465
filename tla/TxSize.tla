------------------------------ MODULE TxSize -------------------------------
(***************************************************************************)
(* The byte accounting of src/harness/benchmark.ts: the transaction        *)
(* overhead charged to each step, the score of a run, the number of its    *)
(* transactions and the size of the largest one, and beside them the       *)
(* serialization of the transactions a deployment would publish.  Size(x)  *)
(* is the length in bytes of a script, a commitment or a category.         *)
(***************************************************************************)
EXTENDS ScenarioContract, FiniteSetsExt

CONSTANT Size(_)

ASSUME SizeAssumption == Size(EmptyBytes) = 0 /\ Size(OpReturn) = 1

-----------------------------------------------------------------------------
(* Overheads                                                                *)

VarintLen(n) ==
    IF n < 253 THEN 1 ELSE IF n <= 65535 THEN 3 ELSE IF n \div 65536 <= 65535 THEN 5 ELSE 9

TxnEnvelope == 4 + 4
InputFixed == 36 + 4
P2pkh == 25

(* Variant: a length of 253 is taken to fit one byte.                       *)
InputOverheadShort(s) == InputFixed + (IF Size(s.unlock) <= 253 THEN 1 ELSE VarintLen(Size(s.unlock)))

InputOverhead(s) == InputFixed + VarintLen(Size(s.unlock))

TokenPrefix(category, commitment) ==
    1 + Size(category) + 1 + VarintLen(Size(commitment)) + Size(commitment)

(* An output without its locking, which is counted as the next step's.      *)
TokenOutputOverhead(category, commitment, lock) ==
    LET prefix == TokenPrefix(category, commitment)
    IN  8 + VarintLen(prefix + Size(lock)) + prefix

PlainOutput(n) == 8 + VarintLen(n) + n

(* The first input of a group carries the envelope and the output.          *)
GroupedOverhead(s) ==
    LET g == s.grouped
    IN  IF g.index # 1 THEN InputOverhead(s)
        ELSE TxnEnvelope + VarintLen(Len(g.inputs)) + VarintLen(1) + InputOverhead(s)
             + IF g.outToken # None
               THEN TokenOutputOverhead(g.category, g.outToken.commitment, Given(g.outLock, OpReturn))
               ELSE PlainOutput(1)

IntraTxOverhead(s) ==
    InputOverhead(s)
    + IF s.intraTx.index = 1
      THEN TxnEnvelope + VarintLen(Len(s.intraTx.inputs)) + VarintLen(1) + PlainOutput(1)
      ELSE 0

(* A genesis step also pays the whole output that recreates its baton.      *)
CovenantOverhead(s) ==
    LET c     == s.covenant
        baton == TokenPrefix(c.category, EmptyBytes) + Size(s.lock)
    IN  TxnEnvelope + VarintLen(1) + VarintLen(IF c.baton THEN 2 ELSE 1) + InputOverhead(s)
        + TokenOutputOverhead(c.category, c.outCommitment, c.outLock)
        + IF c.baton THEN 8 + VarintLen(baton) + baton ELSE 0

StepTxOverhead(s) ==
    CASE s.grouped # None -> GroupedOverhead(s)
      [] s.grouped = None /\ s.intraTx # None -> IntraTxOverhead(s)
      [] s.grouped = None /\ s.intraTx = None /\ s.covenant # None -> CovenantOverhead(s)
      [] OTHER -> TxnEnvelope + VarintLen(1) + VarintLen(1) + InputOverhead(s) + PlainOutput(P2pkh)

-----------------------------------------------------------------------------
(* Totals                                                                   *)

TxCountOf(r) ==
    IF \E i \in DOMAIN r : r[i].grouped # None
    THEN Cardinality({r[i].grouped.group : i \in {j \in DOMAIN r : r[j].grouped # None}})
    ELSE IF \E i \in DOMAIN r : r[i].intraTx # None THEN 1 ELSE Len(r)

Spent(r, S) == SumFunctionOnSet([i \in DOMAIN r |-> Size(r[i].unlock) + StepTxOverhead(r[i])], S)

(* Variant: a group is measured by its first input.                         *)
LargestTxBytesFirstInput(r) ==
    IF \E i \in DOMAIN r : r[i].grouped # None
    THEN Max({Spent(r, {i}) : i \in DOMAIN r})
    ELSE IF TxCountOf(r) = 1 THEN Spent(r, DOMAIN r)
    ELSE Max({Size(r[i].lock) + Spent(r, {i}) : i \in DOMAIN r})

LargestTxBytes(r) ==
    IF \E i \in DOMAIN r : r[i].grouped # None
    THEN Max({Spent(r, {j \in DOMAIN r : r[j].grouped.group = r[i].grouped.group}) : i \in DOMAIN r})
    ELSE IF TxCountOf(r) = 1 THEN Spent(r, DOMAIN r)
    ELSE Max({Size(r[i].lock) + Spent(r, {i}) : i \in DOMAIN r})

RunScore(r) ==
    [score   |-> SumFunction([i \in DOMAIN r |-> Size(r[i].lock) + Size(r[i].unlock) + StepTxOverhead(r[i])]),
     txBytes |-> LargestTxBytes(r),
     txCount |-> TxCountOf(r)]

MaxStandardLocking == 201
MaxStandardUnlocking == 10000
MaxStandardTransaction == 100000

(* The part of standardness that is about sizes, under a cap on unlockings. *)
SizesAreStandard(r, cap) ==
    /\ \A i \in DOMAIN r : Size(r[i].lock) <= MaxStandardLocking /\ Size(r[i].unlock) <= cap
    /\ LargestTxBytes(r) <= MaxStandardTransaction

-----------------------------------------------------------------------------
(* The transactions of a deployment, serialized.  A bare step pays to a key *)
(* hash; a token without a commitment has no commitment length.             *)

SerializedToken(t) ==
    IF t = None THEN 0
    ELSE 1 + Size(t.category) + 1
         + IF Size(t.commitment) = 0 THEN 0 ELSE VarintLen(Size(t.commitment)) + Size(t.commitment)

SerializedOutput(o) ==
    LET n == SerializedToken(o.token) + Size(o.lock) IN 8 + VarintLen(n) + n

Serialized(s) ==
    LET t == Transaction(s)
    IN  4 + VarintLen(Len(t.inputs))
        + SumFunction([k \in DOMAIN t.inputs |->
              36 + VarintLen(Size(t.inputs[k].unlock)) + Size(t.inputs[k].unlock) + 4])
        + VarintLen(Len(t.outputs))
        + (IF Contexts(s) = {} THEN PlainOutput(P2pkh)
           ELSE SumFunction([k \in DOMAIN t.outputs |-> SerializedOutput(t.outputs[k])]))
        + 4

(* The locking of the token a transaction hands on, and its tokens without  *)
(* a commitment.                                                            *)
Successor(s) ==
    LET o == Transaction(s).outputs[1] IN IF o.token = None THEN 0 ELSE Size(o.lock)

BareTokens(s) ==
    Cardinality({k \in DOMAIN Transaction(s).outputs :
                   /\ Transaction(s).outputs[k].token # None
                   /\ Size(Transaction(s).outputs[k].token.commitment) = 0})
=============================================================================
