----------------------------- MODULE Txv5Grade -----------------------------
(***************************************************************************)
(* The TXv5 grade of one honest run (gradeRun and figureOf of              *)
(* src/harness/txv5.ts): does the shipped transaction validate in both     *)
(* modes of the VM, which minimal zero padding makes it fit its density    *)
(* budget if not, and what figure is reported.  The padding is computed by *)
(* iteration: measure every input, grow the pads of the short ones,        *)
(* measure again, since the bytes of a pad cost something themselves and   *)
(* the other inputs may read them.                                         *)
(*                                                                         *)
(* The virtual machine is left open.  An unlocking is known by its length  *)
(* and by the pad it holds; a shipped pad is a minimally encoded push.     *)
(***************************************************************************)
EXTENDS FiniteSetsExt, Integers

CONSTANTS
  Runs,                  \* the honest runs to grade
  Inputs,                \* their inputs
  ShippedLen(_, _),      \* run, input: length of the shipped unlocking
  PadBase(_, _),         \* run, input: bytes of the zero push at the pad position, 0 if none
  LockingLen(_, _),      \* run, input
  Evaluate(_, _, _, _),  \* run, mode, unlockings, input: the VM with the budget lifted
  RealAccepts(_, _, _, _),  \* run, mode, unlockings, input: the verdict of the real VM
  ScoreOf(_, _),         \* run, unlocking lengths: score and transaction size
  PadLens                \* pad lengths the padding found is compared with

Mode == {"consensus", "standard"}
Slot == {"none", "grow", "insert"}

(* What an unlocking holds at the pad position: what was shipped, the       *)
(* shipped pad with another length, or a pad pushed in addition.            *)
Pad   == [kind: {"shipped", "grow", "insert"}, n: Nat]
NoPad == [kind |-> "shipped", n |-> 0]

Shipped == [i \in Inputs |-> NoPad]

Measure == [ok: BOOLEAN, opCost: Nat, iters: Nat]

DensityBase == 41
PerByte     == 800
MaxIter     == 64

(* Relay policy: the longest locking, unlocking and transaction.            *)
LockingCap   == 201
UnlockingCap == 100000
TxCap        == 100000

(* Length of encodeDataPush of n zero bytes: the bytes, and an opcode that   *)
(* takes one, two, three or five.                                           *)
EncodedPush(n) ==
    n + (IF n <= 75 THEN 1 ELSE IF n <= 255 THEN 2 ELSE IF n <= 65535 THEN 3 ELSE 5)

ASSUME RunsAssumption ==
    \A r \in Runs : \A i \in Inputs :
        /\ ShippedLen(r, i) \in Nat /\ PadBase(r, i) \in Nat
        /\ PadBase(r, i) > 0 => ShippedLen(r, i) >= EncodedPush(PadBase(r, i))
ASSUME InputsAssumption == IsFiniteSet(Inputs)
ASSUME PadLensAssumption == PadLens \subseteq Nat

VARIABLES
  run,       \* the run being graded
  pc,        \* measure, then the mode being padded for, report, done
  slots,     \* the pad slot chosen for each input
  lens,      \* bytes in the pad of each input, in this mode
  iter,      \* turns of the loop of minimalPadding
  padded,    \* what padFor returned for each mode
  padding,   \* the `padding' of the grade
  figure     \* the figure reported

vars == <<run, pc, slots, lens, iter, padded, padding, figure>>

-----------------------------------------------------------------------------
(* Limits and lengths                                                       *)

Ceil(a, b) == (a + b - 1) \div b

(* The density limits of an unlocking of a given length.                    *)
WithinLimits(m, mode, len) ==
    /\ m.opCost <= (DensityBase + len) * PerByte
    /\ m.iters <= IF mode = "standard" THEN (DensityBase + len) \div 2
                                       ELSE (7 * (DensityBase + len)) \div 2

(* Variant: a misplaced point, 0.35 for 3.5.                                *)
NeededUnlockingLenTypo(m, mode) ==
    Max({Ceil(m.opCost, PerByte) - DensityBase,
         (IF mode = "standard" THEN 2 * m.iters ELSE Ceil(20 * m.iters, 7)) - DensityBase})

(* Variant: rounds down.                                                    *)
NeededUnlockingLenFloor(m, mode) ==
    Max({m.opCost \div PerByte - DensityBase,
         (IF mode = "standard" THEN 2 * m.iters ELSE (2 * m.iters) \div 7) - DensityBase})

NeededUnlockingLen(m, mode) ==
    Max({Ceil(m.opCost, PerByte) - DensityBase,
         (IF mode = "standard" THEN 2 * m.iters ELSE Ceil(2 * m.iters, 7)) - DensityBase})

UnlockingLen(r, i, p) ==
    CASE p.kind = "shipped" -> ShippedLen(r, i)
      [] p.kind = "insert"  -> ShippedLen(r, i) + EncodedPush(p.n)
      [] p.kind = "grow"    -> ShippedLen(r, i) - EncodedPush(PadBase(r, i)) + EncodedPush(p.n)

Lengths(r, u) == [i \in Inputs |-> UnlockingLen(r, i, u[i])]

Added(r, u) == SumFunction([i \in Inputs |-> UnlockingLen(r, i, u[i]) - ShippedLen(r, i)])

(* The pad data a slot starts from.                                         *)
Base(r, i, slot) == IF slot = "grow" THEN PadBase(r, i) ELSE 0

Bases(r, s) == [i \in Inputs |-> Base(r, i, s[i])]

(* The run with pads of the given lengths in the chosen slots.              *)
Build(r, s, ls) ==
    [i \in Inputs |-> IF s[i] = "none" \/ ls[i] = Base(r, i, s[i])
                      THEN NoPad
                      ELSE [kind |-> s[i], n |-> ls[i]]]

(* Variant: the first guess is taken.                                       *)
PadLenForGuess(r, i, slot, target, min) ==
    LET base == Base(r, i, slot)
    IN  Max({min, base, base + target - UnlockingLen(r, i, [kind |-> slot, n |-> base])})

(* Two loops: from a first guess upwards until the unlocking is long        *)
(* enough, then downwards until one byte less would not do.                 *)
PadLenFor(r, i, slot, target, min) ==
    LET base    == Base(r, i, slot)
        len(n)  == UnlockingLen(r, i, [kind |-> slot, n |-> n])
        guess   == Max({min, base, base + target - len(base)})
        up      == CHOOSE n \in guess..(guess + target) :
                       len(n) >= target /\ (n > guess => len(n - 1) < target)
    IN  CHOOSE n \in min..up :
            len(n) >= target /\ (n > min => len(n - 1) < target)

StandardPolicy(r, u) ==
    /\ \A i \in Inputs : LockingLen(r, i) <= LockingCap
    /\ \A i \in Inputs : UnlockingLen(r, i, u[i]) <= UnlockingCap
    /\ ScoreOf(r, Lengths(r, u)).txBytes <= TxCap

-----------------------------------------------------------------------------
(* The shipped run                                                          *)

Valid(r, mode, u) == \A i \in Inputs : RealAccepts(r, mode, u, i)

Accepted(r, mode, u) == \A i \in Inputs : Evaluate(r, mode, u, i).ok

Short(r, mode, u) ==
    {i \in Inputs :
        UnlockingLen(r, i, u[i]) < NeededUnlockingLen(Evaluate(r, mode, u, i), mode)}

(* The inputs that need budget in either mode, as shipped.                  *)
Need(r) == UNION {Short(r, mode, Shipped) : mode \in Mode}

(* With a pad of eight bytes more in this slot the run is still accepted.   *)
Tolerates(r, i, slot) ==
    \A mode \in Mode :
        Accepted(r, mode,
                 [Shipped EXCEPT ![i] = [kind |-> slot, n |-> Base(r, i, slot) + 8]])

ChosenSlot(r, i) ==
    CASE PadBase(r, i) > 0 /\ Tolerates(r, i, "grow") -> "grow"
      [] Tolerates(r, i, "insert")                    -> "insert"
      [] OTHER                                        -> "none"

ChosenSlots(r) == [i \in Inputs |-> IF i \in Need(r) THEN ChosenSlot(r, i) ELSE "none"]

Pinned(r) == {i \in Need(r) : ChosenSlot(r, i) = "none"}

(* The bytes a push in a slot of its own, and dropping it, would take.      *)
PushHeader(encoded) ==
    IF encoded <= 76 THEN 1 ELSE IF encoded <= 257 THEN 2 ELSE IF encoded <= 65538 THEN 3 ELSE 5

EstimatePadding(r, i) ==
    LET m      == Evaluate(r, "standard", Shipped, i)
        length == ShippedLen(r, i)
        least  == Max({1, NeededUnlockingLen(m, "standard") - length})
    IN  IF i \notin Short(r, "standard", Shipped) THEN 0
        ELSE Min({n \in least..(2 * least + 1) :
                     (DensityBase + length + n) * PerByte
                         >= m.opCost + 200 + n - PushHeader(n)})

-----------------------------------------------------------------------------
(* The steps of gradeRun                                                    *)

NoFigure == [status |-> "none", score |-> -1, padBytes |-> 0,
             mode |-> "consensus", standard |-> FALSE]

Outcome(status, pads) == [status |-> status, pads |-> pads]

Init ==
    /\ run \in Runs
    /\ pc = "measure"
    /\ slots = [i \in Inputs |-> "none"]
    /\ lens = [i \in Inputs |-> 0]
    /\ iter = 0
    /\ padded = [mode \in Mode |-> Outcome("pending", Shipped)]
    /\ padding = "none"
    /\ figure = NoFigure

Conclude(verdict) ==
    /\ padding' = verdict
    /\ pc' = "report"

AsShipped ==
    /\ pc = "measure"
    /\ \A mode \in Mode : Valid(run, mode, Shipped)
    /\ Conclude("not-needed")
    /\ UNCHANGED <<run, slots, lens, iter, padded, figure>>

(* Something other than the budget fails.                                   *)
Unfixable ==
    /\ pc = "measure"
    /\ \E mode \in Mode : ~Valid(run, mode, Shipped)
    /\ (\E mode \in Mode : ~Accepted(run, mode, Shipped)) \/ Need(run) = {}
    /\ Conclude("not-paddable")
    /\ UNCHANGED <<run, slots, lens, iter, padded, figure>>

Paddable ==
    /\ pc = "measure"
    /\ \E mode \in Mode : ~Valid(run, mode, Shipped)
    /\ \A mode \in Mode : Accepted(run, mode, Shipped)
    /\ Need(run) # {}

(* Some input that needs budget takes no pad: an estimate is reported.      *)
RejectsPads ==
    /\ Paddable
    /\ Pinned(run) # {}
    /\ Conclude("pinned")
    /\ UNCHANGED <<run, slots, lens, iter, padded, figure>>

StartMode(mode, s) ==
    /\ pc' = mode
    /\ lens' = Bases(run, s)
    /\ iter' = 0

ChooseSlots ==
    /\ Paddable
    /\ Pinned(run) = {}
    /\ slots' = ChosenSlots(run)
    /\ StartMode("consensus", slots')
    /\ UNCHANGED <<run, padded, padding, figure>>

(* padFor returns; standard follows consensus.                              *)
Return(outcome) ==
    /\ padded' = [padded EXCEPT ![pc] = outcome]
    /\ StartMode(IF pc = "consensus" THEN "standard" ELSE "conclude", slots)
    /\ UNCHANGED <<run, slots, padding, figure>>

Current  == Build(run, slots, lens)
Lacking  == Short(run, pc, Current)
Growable == {i \in Lacking : slots[i] # "none"}

SkipMode ==
    /\ pc \in Mode
    /\ Valid(run, pc, Shipped)
    /\ Return(Outcome("unneeded", Shipped))

(* Inside the loop of minimalPadding.                                       *)
Padding ==
    /\ pc \in Mode
    /\ ~Valid(run, pc, Shipped)

(* Variant: the loop is not bounded.                                        *)
TurnForever == Padding

Turn == Padding /\ iter < MaxIter

Rejected ==
    /\ Turn
    /\ ~Accepted(run, pc, Current)
    /\ Return(Outcome("error", Current))

GrownLen(i) ==
    PadLenFor(run, i, slots[i],
              NeededUnlockingLen(Evaluate(run, pc, Current, i), pc),
              Max({lens[i], IF slots[i] = "insert" THEN 1 ELSE PadBase(run, i)}))

Grow ==
    /\ Turn
    /\ Accepted(run, pc, Current)
    /\ Growable # {}
    /\ lens' = [i \in Inputs |-> IF i \in Growable THEN GrownLen(i) ELSE lens[i]]
    /\ iter' = iter + 1
    /\ UNCHANGED <<run, pc, slots, padded, padding, figure>>

(* An input without a slot falls short.                                     *)
Slotless ==
    /\ Turn
    /\ Accepted(run, pc, Current)
    /\ Growable = {} /\ Lacking # {}
    /\ Return(Outcome("error", Current))

(* The replay on the real VM.                                               *)
Replay ==
    /\ Turn
    /\ Accepted(run, pc, Current)
    /\ Lacking = {}
    /\ Return(Outcome(IF Valid(run, pc, Current) THEN "done" ELSE "error", Current))

(* Variant: after the last turn nothing is returned.                        *)
GiveUpNever ==
    /\ Padding
    /\ iter > MaxIter
    /\ Return(Outcome("error", Current))

GiveUp ==
    /\ Padding
    /\ iter = MaxIter
    /\ Return(Outcome("error", Current))

ConcludePadding ==
    /\ pc = "conclude"
    /\ Conclude(IF \E mode \in Mode : padded[mode].status = "error"
                THEN "not-paddable" ELSE "paddable")
    /\ UNCHANGED <<run, slots, lens, iter, padded, figure>>

-----------------------------------------------------------------------------
(* The figure                                                               *)

(* Variant: the policy is checked on the shipped run.                       *)
FitsShipped ==
    /\ StandardPolicy(run, Shipped)
    /\ \/ padding = "paddable" /\ padded["standard"].status = "done"
       \/ Valid(run, "standard", Shipped)

(* The standard-mode transaction: padded, or as shipped.                    *)
Fits ==
    IF padding = "paddable" /\ padded["standard"].status = "done"
    THEN StandardPolicy(run, padded["standard"].pads)
    ELSE Valid(run, "standard", Shipped) /\ StandardPolicy(run, Shipped)

FigureFor(status, pads) ==
    [status   |-> status,
     score    |-> ScoreOf(run, Lengths(run, pads)).score,
     padBytes |-> Added(run, pads),
     mode     |-> IF Fits THEN "standard" ELSE "consensus",
     standard |-> Fits]

Figure ==
    CASE padding = "not-needed" -> FigureFor("as-shipped", Shipped)
      [] padding = "paddable" ->
           FigureFor("padded", padded[IF Fits THEN "standard" ELSE "consensus"].pads)
      [] padding = "pinned" ->
           LET added == [i \in Inputs |-> EstimatePadding(run, i)]
           IN  [status   |-> "not-paddable",
                score    |-> ScoreOf(run, [i \in Inputs |-> ShippedLen(run, i) + added[i]]).score,
                padBytes |-> SumFunction(added),
                mode     |-> "standard",
                standard |-> FALSE]
      [] OTHER -> [NoFigure EXCEPT !.status = "invalid"]

Report ==
    /\ pc = "report"
    /\ figure' = Figure
    /\ pc' = "done"
    /\ UNCHANGED <<run, slots, lens, iter, padded, padding>>

Next ==
    \/ AsShipped \/ Unfixable \/ RejectsPads \/ ChooseSlots
    \/ SkipMode \/ Rejected \/ Grow \/ Slotless \/ Replay \/ GiveUp
    \/ ConcludePadding \/ Report

Spec == Init /\ [][Next]_vars /\ WF_vars(Next)

-----------------------------------------------------------------------------
(* Properties                                                               *)

(* Every variable has its type; the loop of minimalPadding is bounded.      *)
TypeOK ==
    /\ run \in Runs
    /\ pc \in {"measure", "conclude", "report", "done"} \cup Mode
    /\ slots \in [Inputs -> Slot]
    /\ lens \in [Inputs -> Nat]
    /\ iter \in 0..MaxIter
    /\ padded \in [Mode -> [status: {"pending", "unneeded", "done", "error"},
                            pads: [Inputs -> Pad]]]
    /\ padding \in {"none", "not-needed", "paddable", "not-paddable", "pinned"}
    /\ figure \in [status: {"none", "as-shipped", "padded", "not-paddable", "invalid"},
                   score: Int, padBytes: Int, mode: Mode, standard: BOOLEAN]

(* Pads of these lengths leave no input short of its budget.                *)
Covers(r, mode, s, ls) ==
    /\ \A i \in Inputs : ls[i] >= Base(r, i, s[i])
    /\ Short(r, mode, Build(r, s, ls)) = {}

(* The padding is minimal (header of txv5.ts, "Least-fixpoint minimal       *)
(* padding"): at no turn of the loop, nor when it ends, is any pad longer   *)
(* than in any other choice of lengths that gives every input its budget.   *)
PaddingIsLeast ==
    pc \in Mode =>
        \A ls \in [Inputs -> PadLens] :
            Covers(run, pc, slots, ls) => \A i \in Inputs : lens[i] <= ls[i]

(* Padding for the standard mode, whose limits are stricter, is never less  *)
(* than for consensus, on any input; and standard needs a pad when          *)
(* consensus does (comment in figureOf, "not expected").                    *)
StandardPadsMore ==
    padding = "paddable" =>
        /\ padded["standard"].status = "unneeded" => padded["consensus"].status = "unneeded"
        /\ \A i \in Inputs :
             padded["standard"].status = "done" =>
                 padded["consensus"].pads[i].n <= padded["standard"].pads[i].n

(* A figure that is neither an estimate nor "invalid" has a transaction     *)
(* behind it: one that validates on the real VM in the mode reported, has   *)
(* the score and the pad bytes reported, and is relayable if the figure     *)
(* says so.                                                                 *)
FigureIsMeasured ==
    figure.status \in {"as-shipped", "padded"} =>
        \E u \in {Shipped} \cup {padded[mode].pads : mode \in Mode} :
            /\ Valid(run, figure.mode, u)
            /\ figure.score = ScoreOf(run, Lengths(run, u)).score
            /\ figure.padBytes = Added(run, u)
            /\ figure.standard <=> (Valid(run, "standard", u) /\ StandardPolicy(run, u))

(* The length asked for an unlocking is the smallest whose limits cover     *)
(* what was measured (comment of neededUnlockingLen).                       *)
NeedIsLeast ==
    pc \in Mode =>
        \A i \in Inputs :
            LET m    == Evaluate(run, pc, Current, i)
                need == NeededUnlockingLen(m, pc)
            IN  WithinLimits(m, pc, need) /\ ~WithinLimits(m, pc, need - 1)

(* "'invalid' - rejects on TXv5 for a reason padding cannot fix" (comment   *)
(* of Txv5Summary).  It does not hold: an input that falls short only when  *)
(* a sibling has been padded has no slot, although it would take a pad.     *)
InvalidIsUnfixable ==
    figure.status = "invalid" =>
        \A s \in [Inputs -> Slot] : \A ls \in [Inputs -> PadLens] :
            \E mode \in Mode : ~Valid(run, mode, Build(run, s, ls))

-----------------------------------------------------------------------------
(* What the theorems suppose of the virtual machine; the source takes it    *)
(* for granted.                                                             *)

MeasuresTyped ==
    \A r \in Runs, mode \in Mode, u \in [Inputs -> Pad], i \in Inputs :
        Evaluate(r, mode, u, i) \in Measure

(* A score is a number, whatever the lengths of the unlockings.             *)
ScoresTyped ==
    \A r \in Runs, lengths \in [Inputs -> Nat] : ScoreOf(r, lengths).score \in Int

(* A longer pad never makes an input, its own or a sibling, cheaper ("a     *)
(* pad's bytes are themselves pushed and sibling inputs may read a padded   *)
(* input", header of txv5.ts).                                              *)
UseGrows ==
    \A r \in Runs, mode \in Mode, s \in [Inputs -> Slot], i \in Inputs :
        \A l1, l2 \in [Inputs -> Nat] :
            (\A j \in Inputs : Base(r, j, s[j]) <= l1[j] /\ l1[j] <= l2[j]) =>
                LET m1 == Evaluate(r, mode, Build(r, s, l1), i)
                    m2 == Evaluate(r, mode, Build(r, s, l2), i)
                IN  m1.opCost <= m2.opCost /\ m1.iters <= m2.iters

(* The real VM enforces the density limits on what Evaluate measures.       *)
BudgetIsEnforced ==
    \A r \in Runs, mode \in Mode, u \in [Inputs -> Pad], i \in Inputs :
        RealAccepts(r, mode, u, i) =>
            WithinLimits(Evaluate(r, mode, u, i), mode, UnlockingLen(r, i, u[i]))

(* "standard is stricter" (figureOf).                                       *)
StandardIsStricter ==
    \A r \in Runs, u \in [Inputs -> Pad], i \in Inputs :
        LET c == Evaluate(r, "consensus", u, i)
            s == Evaluate(r, "standard", u, i)
        IN  /\ c.opCost <= s.opCost /\ c.iters <= s.iters
            /\ RealAccepts(r, "standard", u, i) => RealAccepts(r, "consensus", u, i)

=============================================================================
