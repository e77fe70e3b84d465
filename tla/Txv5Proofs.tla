----------------------------- MODULE Txv5Proofs -----------------------------
(***************************************************************************)
(* Proofs about the TXv5 grade: the padding the iteration reaches is the   *)
(* least one, on every input, and standard padding is at least consensus   *)
(* padding.                                                                *)
(***************************************************************************)
EXTENDS Txv5Entry, SumProofs, SequenceTheorems, TLAPS

-----------------------------------------------------------------------------
(* Numbers and lengths                                                      *)

LEMMA MaxOfTwo ==
  ASSUME NEW a \in Int, NEW b \in Int
  PROVE  /\ Max({a, b}) \in {a, b}
         /\ Max({a, b}) >= a /\ Max({a, b}) >= b
<1>1. \E x \in {a, b} : \A y \in {a, b} : x >= y
  <2>1. CASE a >= b BY <2>1
  <2>2. CASE b >= a BY <2>2
  <2>3. QED BY <2>1, <2>2
<1>2. QED
  BY <1>1 DEF Max

LEMMA MaxOfThree ==
  ASSUME NEW a \in Int, NEW b \in Int, NEW c \in Int
  PROVE  /\ Max({a, b, c}) \in {a, b, c}
         /\ Max({a, b, c}) >= a /\ Max({a, b, c}) >= b /\ Max({a, b, c}) >= c
<1>1. \E x \in {a, b, c} : \A y \in {a, b, c} : x >= y
  <2>1. CASE a >= b /\ a >= c BY <2>1
  <2>2. CASE b >= a /\ b >= c BY <2>2
  <2>3. CASE c >= a /\ c >= b BY <2>3
  <2>4. QED BY <2>1, <2>2, <2>3
<1>2. QED
  BY <1>1 DEF Max

(* Rounding up finds the least multiple.                                    *)
LEMMA CeilIsLeast ==
  ASSUME NEW a \in Nat, NEW n \in Int
  PROVE  /\ Ceil(a, 800) \in Int /\ Ceil(a, 7) \in Int
         /\ Ceil(a, 800) <= n <=> a <= n * 800
         /\ Ceil(a, 7) <= n <=> a <= n * 7
  BY SMT DEF Ceil

(* NeededUnlockingLen is the length from which on the limits cover what     *)
(* was measured.                                                            *)
LEMMA NeededIsThreshold ==
  ASSUME NEW m \in Measure, NEW mode \in Mode, NEW len \in Int
  PROVE  /\ NeededUnlockingLen(m, mode) \in Int
         /\ WithinLimits(m, mode, len) <=> len >= NeededUnlockingLen(m, mode)
<1>1. m.opCost \in Nat /\ m.iters \in Nat
  BY DEF Measure
<1>2. /\ Ceil(m.opCost, 800) \in Int
      /\ Ceil(m.opCost, 800) <= 41 + len <=> m.opCost <= (41 + len) * 800
  BY <1>1, CeilIsLeast
<1>3. /\ Ceil(2 * m.iters, 7) \in Int
      /\ Ceil(2 * m.iters, 7) <= 41 + len <=> 2 * m.iters <= (41 + len) * 7
  BY <1>1, CeilIsLeast
<1>4. /\ m.iters <= (41 + len) \div 2 <=> 2 * m.iters <= 41 + len
      /\ m.iters <= (7 * (41 + len)) \div 2 <=> 2 * m.iters <= (41 + len) * 7
  BY <1>1, SMT
<1> DEFINE A == Ceil(m.opCost, 800) - 41
           B == (IF mode = "standard" THEN 2 * m.iters ELSE Ceil(2 * m.iters, 7)) - 41
<1>5. A \in Int /\ B \in Int
  BY <1>1, <1>2, <1>3
<1>6. /\ NeededUnlockingLen(m, mode) = Max({A, B})
      /\ Max({A, B}) \in Int
      /\ Max({A, B}) <= len <=> A <= len /\ B <= len
  <2>1. NeededUnlockingLen(m, mode) = Max({A, B})
    BY DEF NeededUnlockingLen, DensityBase, PerByte
  <2>2. /\ Max({A, B}) \in {A, B}
        /\ Max({A, B}) >= A /\ Max({A, B}) >= B
    <3> HIDE DEF A, B
    <3>1. QED BY <1>5, MaxOfTwo
  <2> HIDE DEF A, B
  <2>3. QED
    BY <1>5, <2>1, <2>2
<1>7. A <= len <=> m.opCost <= (41 + len) * 800
  BY <1>1, <1>2
<1>8. B <= len <=> m.iters <= IF mode = "standard" THEN (41 + len) \div 2
                                                   ELSE (7 * (41 + len)) \div 2
  BY <1>1, <1>3, <1>4
<1>9. WithinLimits(m, mode, len) <=> A <= len /\ B <= len
  BY <1>7, <1>8 DEF WithinLimits, DensityBase, PerByte
<1> HIDE DEF A, B
<1>10. QED
  BY <1>6, <1>9

(* Whoever uses less needs less, and consensus is no stricter.              *)
LEMMA NeededGrows ==
  ASSUME NEW m1 \in Measure, NEW m2 \in Measure, NEW mode \in Mode,
         m1.opCost <= m2.opCost, m1.iters <= m2.iters
  PROVE  /\ NeededUnlockingLen(m1, mode) <= NeededUnlockingLen(m2, mode)
         /\ NeededUnlockingLen(m1, "consensus") <= NeededUnlockingLen(m2, "standard")
<1>1. /\ m1.opCost \in Nat /\ m1.iters \in Nat
      /\ m2.opCost \in Nat /\ m2.iters \in Nat
  BY DEF Measure
<1> DEFINE L(k) == NeededUnlockingLen(m2, k)
<1>2. \A k \in Mode : L(k) \in Int /\ WithinLimits(m2, k, L(k))
  <2>1. \A k \in Mode : L(k) \in Int
    BY NeededIsThreshold
  <2>2. QED BY <2>1, NeededIsThreshold
<1>3. \A k \in Mode : \A l \in Int :
        /\ WithinLimits(m2, k, l) => WithinLimits(m1, k, l)
        /\ WithinLimits(m2, "standard", l) => WithinLimits(m1, "consensus", l)
  BY <1>1, SMT DEF WithinLimits, DensityBase, PerByte
<1>4. /\ WithinLimits(m1, mode, L(mode))
      /\ WithinLimits(m1, "consensus", L("standard"))
  BY <1>2, <1>3 DEF Mode
<1>5. QED
  BY <1>2, <1>4, NeededIsThreshold DEF Mode

(* One byte of pad more makes the push at least one byte longer.            *)
LEMMA EncodedPushGrows ==
  ASSUME NEW a \in Nat, NEW b \in Nat, a <= b
  PROVE  /\ EncodedPush(a) \in Nat /\ EncodedPush(b) \in Nat
         /\ EncodedPush(b) - EncodedPush(a) >= b - a
  BY SMT DEF EncodedPush

(* For every length there is a first push that reaches it.                  *)
LEMMA FirstPush ==
  ASSUME NEW t \in Int
  PROVE  \E n \in Nat : EncodedPush(n) >= t /\ (n > 0 => EncodedPush(n - 1) < t)
<1> DEFINE W == IF t <= 1 THEN 0 ELSE IF t <= 76 THEN t - 1
                ELSE IF t = 77 THEN 76 ELSE IF t <= 257 THEN t - 2
                ELSE IF t = 258 THEN 256 ELSE IF t <= 65538 THEN t - 3
                ELSE IF t <= 65541 THEN 65536 ELSE t - 5
<1>1. W \in Nat /\ EncodedPush(W) >= t /\ (W > 0 => EncodedPush(W - 1) < t)
  BY DEF EncodedPush
<1>2. QED
  BY <1>1

(* The length of an unlocking with a pad in a slot.                         *)
LEMMA LengthOfPad ==
  ASSUME NEW r \in Runs, NEW i \in Inputs, NEW slot \in {"grow", "insert"}
  PROVE  \E c \in Int :
           /\ c + EncodedPush(Base(r, i, slot)) >= ShippedLen(r, i)
           /\ \A n \in Nat : UnlockingLen(r, i, [kind |-> slot, n |-> n]) = c + EncodedPush(n)
<1>1. ShippedLen(r, i) \in Nat /\ PadBase(r, i) \in Nat
  BY RunsAssumption
<1>2. EncodedPush(PadBase(r, i)) \in Nat /\ EncodedPush(0) \in Nat
  BY <1>1, EncodedPushGrows
<1>3. CASE slot = "grow"
  <2>1. \A n \in Nat : UnlockingLen(r, i, [kind |-> slot, n |-> n])
                       = (ShippedLen(r, i) - EncodedPush(PadBase(r, i))) + EncodedPush(n)
    BY <1>3 DEF UnlockingLen
  <2>2. QED
    BY <1>1, <1>2, <1>3, <2>1 DEF Base
<1>4. CASE slot = "insert"
  <2>1. \A n \in Nat : UnlockingLen(r, i, [kind |-> slot, n |-> n])
                       = ShippedLen(r, i) + EncodedPush(n)
    BY <1>4 DEF UnlockingLen
  <2>2. QED
    BY <1>1, <1>2, <1>4, <2>1 DEF Base
<1>5. QED
  BY <1>3, <1>4

(* padLenFor finds the first length, from min on, that is long enough.      *)
LEMMA PadLenForIsFirst ==
  ASSUME NEW r \in Runs, NEW i \in Inputs, NEW slot \in {"grow", "insert"},
         NEW target \in Nat, NEW min \in Nat, NEW c \in Int,
         \A n \in Nat : UnlockingLen(r, i, [kind |-> slot, n |-> n]) = c + EncodedPush(n)
  PROVE  LET g == PadLenFor(r, i, slot, target, min)
         IN  /\ g \in Nat /\ g >= min
             /\ g > min => c + EncodedPush(g - 1) < target
<1> DEFINE base  == Base(r, i, slot)
           len(n) == UnlockingLen(r, i, [kind |-> slot, n |-> n])
           guess == Max({min, base, base + target - len(base)})
           IsUp(n) == len(n) >= target /\ (n > guess => len(n - 1) < target)
           up    == CHOOSE n \in guess..(guess + target) : IsUp(n)
           IsFirst(n) == len(n) >= target /\ (n > min => len(n - 1) < target)
           first == CHOOSE n \in min..up : IsFirst(n)
<1>1. base \in Nat
  BY RunsAssumption DEF Base
<1>2. \A n \in Nat : len(n) = c + EncodedPush(n) /\ len(n) \in Int
  BY EncodedPushGrows
<1>3. PadLenFor(r, i, slot, target, min) = first
  BY DEF PadLenFor
<1>4. /\ guess \in Nat /\ guess >= min /\ guess >= base
      /\ guess >= base + target - len(base)
  <2>1. base + target - len(base) \in Int
    BY <1>1, <1>2
  <2>2. ASSUME NEW b \in Nat, NEW d \in Int
        PROVE  /\ Max({min, b, d}) \in Nat
               /\ Max({min, b, d}) >= min
               /\ Max({min, b, d}) >= b
               /\ Max({min, b, d}) >= d
    <3>1. min \in Int /\ b \in Int
      OBVIOUS
    <3>2. /\ Max({min, b, d}) \in {min, b, d}
          /\ Max({min, b, d}) >= min
          /\ Max({min, b, d}) >= b
          /\ Max({min, b, d}) >= d
      BY <3>1, MaxOfThree
    <3>3. QED BY <3>2
  <2> HIDE DEF base, len
  <2>3. QED
    BY <1>1, <2>1, <2>2
<1> HIDE DEF base, guess
<1>5. len(guess) >= target
  <2>1. EncodedPush(guess) - EncodedPush(base) >= guess - base
        /\ EncodedPush(guess) \in Nat /\ EncodedPush(base) \in Nat
    BY <1>1, <1>4, EncodedPushGrows
  <2>2. len(guess) = c + EncodedPush(guess) /\ len(base) = c + EncodedPush(base)
    BY <1>1, <1>2, <1>4
  <2> HIDE DEF len
  <2>3. QED
    BY <1>1, <1>4, <2>1, <2>2
<1>6. up \in Nat /\ up >= min /\ len(up) >= target
  <2>1. guess \in guess..(guess + target) /\ IsUp(guess)
    BY <1>4, <1>5
  <2>2. up \in guess..(guess + target) /\ IsUp(up)
    <3> HIDE DEF IsUp
    <3>1. QED BY <2>1
  <2> HIDE DEF up
  <2>3. QED
    BY <1>4, <2>2
<1> HIDE DEF up
<1>7. \E n \in min..up : IsFirst(n)
  <2>1. PICK w \in Nat : /\ EncodedPush(w) >= target - c
                         /\ w > 0 => EncodedPush(w - 1) < target - c
    BY FirstPush
  <2>2. CASE w <= min
    <3>1. len(min) = c + EncodedPush(min) /\ EncodedPush(min) \in Nat
          /\ EncodedPush(w) \in Nat /\ EncodedPush(min) - EncodedPush(w) >= min - w
      BY <1>2, <2>2, EncodedPushGrows
    <3>2. IsFirst(min)
      <4> HIDE DEF len
      <4>1. QED BY <2>1, <2>2, <3>1
    <3>3. QED BY <1>6, <3>2
  <2>3. CASE w > min
    <3>1. w - 1 \in Nat /\ EncodedPush(w) \in Nat /\ EncodedPush(w - 1) \in Nat
      BY <2>3, EncodedPushGrows
    <3>2. len(w) = c + EncodedPush(w) /\ len(w - 1) = c + EncodedPush(w - 1)
      BY <1>2, <3>1
    <3>3. IsFirst(w)
      <4> HIDE DEF len
      <4>1. QED BY <2>1, <2>3, <3>1, <3>2
    <3>4. w <= up
      <4>1. SUFFICES ASSUME w > up PROVE FALSE
        BY <1>6
      <4>2. EncodedPush(w - 1) - EncodedPush(up) >= w - 1 - up /\ EncodedPush(up) \in Nat
        BY <1>6, <3>1, <4>1, EncodedPushGrows
      <4>3. len(up) = c + EncodedPush(up)
        BY <1>2, <1>6
      <4> HIDE DEF len
      <4>4. QED BY <1>6, <2>1, <2>3, <3>1, <4>1, <4>2, <4>3
    <3>5. QED BY <1>6, <2>3, <3>3, <3>4
  <2>4. QED BY <2>2, <2>3
<1>8. first \in min..up /\ IsFirst(first)
  <2> HIDE DEF IsFirst
  <2>1. QED BY <1>7
<1> HIDE DEF first
<1>9. first \in Nat /\ first >= min
  BY <1>6, <1>8
<1>10. first > min => c + EncodedPush(first - 1) < target
  <2>1. SUFFICES ASSUME first > min PROVE c + EncodedPush(first - 1) < target
    OBVIOUS
  <2>2. first - 1 \in Nat
    BY <1>9, <2>1
  <2>3. QED BY <1>2, <1>8, <2>1, <2>2
<1>11. QED
  BY <1>3, <1>9, <1>10

-----------------------------------------------------------------------------
(* One turn of the loop                                                     *)

(* Lengths at least those the slots start from.                             *)
Admissible(r, s) ==
    {ls \in [Inputs -> Nat] : \A i \in Inputs : Base(r, i, s[i]) <= ls[i]}

(* No choice of lengths that covers the budgets has a shorter pad.          *)
LeastFor(r, mode, s, l) ==
    \A ls \in Admissible(r, s) :
        Covers(r, mode, s, ls) => \A i \in Inputs : l[i] <= ls[i]

LEMMA BuildType ==
  ASSUME NEW r \in Runs, NEW s \in [Inputs -> Slot], NEW ls \in [Inputs -> Nat]
  PROVE  Build(r, s, ls) \in [Inputs -> Pad]
<1>1. \A i \in Inputs : s[i] \in Slot /\ ls[i] \in Nat
  OBVIOUS
<1>2. QED
  BY <1>1 DEF Build, NoPad, Pad, Slot

LEMMA BaseType ==
  ASSUME NEW r \in Runs, NEW i \in Inputs, NEW slot
  PROVE  Base(r, i, slot) \in Nat
  BY RunsAssumption DEF Base

(* The length of an unlocking is that of the shipped one, or longer.        *)
LEMMA LengthOfBuilt ==
  ASSUME NEW r \in Runs, NEW s \in [Inputs -> Slot], NEW ls \in Admissible(r, s),
         NEW i \in Inputs
  PROVE  LET len == UnlockingLen(r, i, Build(r, s, ls)[i])
         IN  /\ len \in Nat
             /\ (s[i] = "none" \/ ls[i] = Base(r, i, s[i])) => len = ShippedLen(r, i)
             /\ ~(s[i] = "none" \/ ls[i] = Base(r, i, s[i]))
                   => len = UnlockingLen(r, i, [kind |-> s[i], n |-> ls[i]])
<1>1. ShippedLen(r, i) \in Nat
  BY RunsAssumption
<1>2. CASE s[i] = "none" \/ ls[i] = Base(r, i, s[i])
  <2>1. Build(r, s, ls)[i] = NoPad
    BY <1>2 DEF Build
  <2>2. UnlockingLen(r, i, NoPad) = ShippedLen(r, i)
    BY DEF UnlockingLen, NoPad
  <2>3. QED BY <1>1, <1>2, <2>1, <2>2
<1>3. CASE ~(s[i] = "none" \/ ls[i] = Base(r, i, s[i]))
  <2>1. Build(r, s, ls)[i] = [kind |-> s[i], n |-> ls[i]]
    BY <1>3 DEF Build
  <2>2. s[i] \in {"grow", "insert"}
    BY <1>3 DEF Slot
  <2>3. PICK c \in Int :
           /\ c + EncodedPush(Base(r, i, s[i])) >= ShippedLen(r, i)
           /\ \A n \in Nat : UnlockingLen(r, i, [kind |-> s[i], n |-> n]) = c + EncodedPush(n)
    BY <2>2, LengthOfPad
  <2>4. ls[i] \in Nat /\ Base(r, i, s[i]) \in Nat /\ Base(r, i, s[i]) <= ls[i]
    BY BaseType DEF Admissible
  <2>5. /\ EncodedPush(ls[i]) \in Nat /\ EncodedPush(Base(r, i, s[i])) \in Nat
        /\ EncodedPush(ls[i]) - EncodedPush(Base(r, i, s[i])) >= ls[i] - Base(r, i, s[i])
    BY <2>4, EncodedPushGrows
  <2>6. UnlockingLen(r, i, [kind |-> s[i], n |-> ls[i]]) \in Nat
    BY <1>1, <2>3, <2>4, <2>5
  <2>7. QED BY <1>3, <2>1, <2>6
<1>4. QED
  BY <1>2, <1>3

(* A short input is grown, and not beyond what any covering choice needs.   *)
LEMMA GrowthStaysLeast ==
  ASSUME MeasuresTyped, UseGrows,
         NEW r \in Runs, NEW mode \in Mode, NEW s \in [Inputs -> Slot],
         NEW l \in Admissible(r, s), NEW i \in Short(r, mode, Build(r, s, l)),
         s[i] # "none"
  PROVE  LET target == NeededUnlockingLen(Evaluate(r, mode, Build(r, s, l), i), mode)
             min    == Max({l[i], IF s[i] = "insert" THEN 1 ELSE PadBase(r, i)})
             g      == PadLenFor(r, i, s[i], target, min)
         IN  /\ g \in Nat /\ g >= l[i]
             /\ \A ls \in Admissible(r, s) :
                  (Covers(r, mode, s, ls) /\ \A j \in Inputs : l[j] <= ls[j]) => g <= ls[i]
<1> DEFINE M(ls)  == Evaluate(r, mode, Build(r, s, ls), i)
           T(ls)  == NeededUnlockingLen(M(ls), mode)
           len(ls) == UnlockingLen(r, i, Build(r, s, ls)[i])
           min    == Max({l[i], IF s[i] = "insert" THEN 1 ELSE PadBase(r, i)})
           g      == PadLenFor(r, i, s[i], T(l), min)
<1>1. i \in Inputs /\ len(l) < T(l)
  BY DEF Short
<1>2. s[i] \in {"grow", "insert"}
  BY <1>1 DEF Slot
<1>3. \A ls \in Admissible(r, s) : M(ls) \in Measure
  BY <1>1, BuildType DEF MeasuresTyped, Admissible
<1>4. \A ls \in Admissible(r, s) : T(ls) \in Int
  BY <1>3, NeededIsThreshold
<1>5. T(l) \in Nat
  <2>1. len(l) \in Nat
    BY <1>1, LengthOfBuilt
  <2> HIDE DEF len, T
  <2>2. QED BY <1>1, <1>4, <2>1
<1>6. l[i] \in Nat /\ PadBase(r, i) \in Nat
  BY <1>1, RunsAssumption DEF Admissible
<1>7. min \in Nat /\ min >= l[i] /\ min \in {l[i], IF s[i] = "insert" THEN 1 ELSE PadBase(r, i)}
  <2>1. (IF s[i] = "insert" THEN 1 ELSE PadBase(r, i)) \in Nat
    BY <1>6
  <2>2. ASSUME NEW b \in Nat
        PROVE  /\ Max({l[i], b}) \in {l[i], b}
               /\ Max({l[i], b}) >= l[i] /\ Max({l[i], b}) \in Nat
    <3>1. l[i] \in Int /\ b \in Int
      BY <1>6
    <3>2. Max({l[i], b}) \in {l[i], b} /\ Max({l[i], b}) >= l[i]
      BY <3>1, MaxOfTwo
    <3>3. QED BY <1>6, <3>2
  <2>3. QED BY <2>1, <2>2
<1>8. PICK c \in Int : \A n \in Nat :
        UnlockingLen(r, i, [kind |-> s[i], n |-> n]) = c + EncodedPush(n)
  BY <1>1, <1>2, LengthOfPad
<1> HIDE DEF min, T
<1>9. /\ g \in Nat /\ g >= min
      /\ g > min => c + EncodedPush(g - 1) < T(l)
  BY <1>1, <1>2, <1>5, <1>7, <1>8, PadLenForIsFirst
<1>10. ASSUME NEW ls \in Admissible(r, s), Covers(r, mode, s, ls),
              \A j \in Inputs : l[j] <= ls[j]
       PROVE  g <= ls[i]
  <2>1. ls[i] \in Nat /\ l[i] <= ls[i] /\ Base(r, i, s[i]) <= ls[i] /\ Base(r, i, s[i]) <= l[i]
        /\ Base(r, i, s[i]) \in Nat
    BY <1>1, <1>10, BaseType DEF Admissible
  <2>2. T(l) <= T(ls)
    <3>1. M(l).opCost <= M(ls).opCost /\ M(l).iters <= M(ls).iters
      BY <1>1, <1>10 DEF UseGrows, Admissible
    <3>2. QED
      BY <1>3, <3>1, NeededGrows DEF T
  <2>3. len(ls) >= T(ls)
    <3>1. ~(len(ls) < T(ls))
      BY <1>1, <1>10 DEF Covers, Short, T
    <3>2. len(ls) \in Nat
      BY <1>1, LengthOfBuilt
    <3> HIDE DEF len
    <3>3. QED BY <1>4, <3>1, <3>2
  <2>4. ls[i] # Base(r, i, s[i])
    <3>1. SUFFICES ASSUME ls[i] = Base(r, i, s[i]) PROVE FALSE
      OBVIOUS
    <3>2. l[i] = Base(r, i, s[i])
      BY <1>6, <2>1, <3>1
    <3>3. len(l) = ShippedLen(r, i) /\ len(ls) = ShippedLen(r, i) /\ len(l) \in Nat
      BY <1>1, <3>1, <3>2, LengthOfBuilt
    <3> HIDE DEF len
    <3>4. QED BY <1>1, <1>4, <2>2, <2>3, <3>3
  <2>5. len(ls) = c + EncodedPush(ls[i])
    <3>1. len(ls) = UnlockingLen(r, i, [kind |-> s[i], n |-> ls[i]])
      BY <1>1, <1>2, <2>4, LengthOfBuilt
    <3>2. QED BY <1>8, <2>1, <3>1
  <2>6. min <= ls[i]
    BY <1>2, <1>6, <1>7, <2>1, <2>4 DEF Base
  <2>7. CASE g = min
    BY <2>6, <2>7
  <2>8. CASE g > min
    <3>1. SUFFICES ASSUME g > ls[i] PROVE FALSE
      BY <1>9, <2>1
    <3>2. g - 1 \in Nat /\ ls[i] <= g - 1
      BY <1>9, <2>1, <3>1
    <3>3. /\ EncodedPush(g - 1) \in Nat /\ EncodedPush(ls[i]) \in Nat
          /\ EncodedPush(g - 1) - EncodedPush(ls[i]) >= g - 1 - ls[i]
      BY <2>1, <3>2, EncodedPushGrows
    <3> HIDE DEF len, g
    <3>4. QED BY <1>4, <1>9, <2>1, <2>2, <2>3, <2>5, <2>8, <3>2, <3>3
  <2>9. QED
    BY <1>7, <1>9, <2>7, <2>8
<1>11. QED
  <2>1. g >= l[i]
    BY <1>6, <1>7, <1>9
  <2>2. QED BY <1>9, <1>10, <2>1 DEF min, T

-----------------------------------------------------------------------------
(* The padding is minimal                                                   *)

Typed ==
    /\ run \in Runs
    /\ slots \in [Inputs -> Slot]
    /\ lens \in Admissible(run, slots)

LeastInv == Typed /\ (pc \in Mode => LeastFor(run, pc, slots, lens))

LEMMA BasesAreLeast ==
  ASSUME NEW r \in Runs, NEW s \in [Inputs -> Slot]
  PROVE  /\ Bases(r, s) \in Admissible(r, s)
         /\ \A mode \in Mode : LeastFor(r, mode, s, Bases(r, s))
<1>1. \A i \in Inputs : Base(r, i, s[i]) \in Nat
  BY BaseType
<1>2. QED
  BY <1>1 DEF Bases, Admissible, LeastFor

LEMMA LeastInit == Init => LeastInv
<1>1. SUFFICES ASSUME Init PROVE LeastInv
  OBVIOUS
<1>2. \A i \in Inputs : Base(run, i, slots[i]) = 0
  BY <1>1 DEF Init, Base
<1>3. QED
  BY <1>1, <1>2 DEF Init, LeastInv, Typed, Admissible, Slot, Mode

LEMMA LeastReturn ==
  ASSUME LeastInv, NEW outcome, Return(outcome) PROVE LeastInv'
  BY BasesAreLeast DEF LeastInv, Typed, Return, StartMode, Mode

LEMMA LeastGrow ==
  ASSUME MeasuresTyped, UseGrows, LeastInv, Grow PROVE LeastInv'
<1>1. pc \in Mode /\ pc' = pc /\ run' = run /\ slots' = slots
  BY DEF Grow, Turn, Padding
<1>2. run \in Runs /\ slots \in [Inputs -> Slot] /\ lens \in Admissible(run, slots)
  BY DEF LeastInv, Typed
<1>3. \A i \in Growable : i \in Inputs /\ i \in Short(run, pc, Build(run, slots, lens))
                          /\ slots[i] # "none"
  BY DEF Growable, Lacking, Current, Short
<1>4. \A i \in Growable :
        /\ GrownLen(i) \in Nat /\ GrownLen(i) >= lens[i]
        /\ \A ls \in Admissible(run, slots) :
             (Covers(run, pc, slots, ls) /\ \A j \in Inputs : lens[j] <= ls[j])
               => GrownLen(i) <= ls[i]
  BY <1>1, <1>2, <1>3, GrowthStaysLeast DEF GrownLen, Current
<1>5. lens' = [i \in Inputs |-> IF i \in Growable THEN GrownLen(i) ELSE lens[i]]
  BY DEF Grow
<1>6. lens' \in Admissible(run, slots)
  <2>1. \A i \in Inputs : lens[i] \in Nat /\ Base(run, i, slots[i]) <= lens[i]
                         /\ Base(run, i, slots[i]) \in Nat
    BY <1>2, BaseType DEF Admissible
  <2>2. QED
    BY <1>4, <1>5, <2>1 DEF Admissible
<1>7. LeastFor(run, pc, slots, lens')
  BY <1>1, <1>4, <1>5 DEF LeastInv, LeastFor
<1>8. QED
  BY <1>1, <1>2, <1>6, <1>7 DEF LeastInv, Typed

LEMMA LeastNext ==
  ASSUME MeasuresTyped, UseGrows, LeastInv, [Next]_vars PROVE LeastInv'
<1> USE DEF LeastInv, Typed, Mode
<1>1. CASE AsShipped
  BY <1>1 DEF AsShipped, Conclude
<1>2. CASE Unfixable
  BY <1>2 DEF Unfixable, Conclude
<1>3. CASE RejectsPads
  BY <1>3 DEF RejectsPads, Conclude
<1>4. CASE ChooseSlots
  <2>1. ChosenSlots(run) \in [Inputs -> Slot]
    BY DEF ChosenSlots, ChosenSlot, Slot
  <2>2. QED
    BY <1>4, <2>1, BasesAreLeast DEF ChooseSlots, StartMode
<1>5. CASE SkipMode
  BY <1>5, LeastReturn DEF SkipMode
<1>6. CASE Rejected
  BY <1>6, LeastReturn DEF Rejected
<1>7. CASE Grow
  BY <1>7, LeastGrow
<1>8. CASE Slotless
  BY <1>8, LeastReturn DEF Slotless
<1>9. CASE Replay
  BY <1>9, LeastReturn DEF Replay
<1>10. CASE GiveUp
  BY <1>10, LeastReturn DEF GiveUp
<1>11. CASE ConcludePadding
  BY <1>11 DEF ConcludePadding, Conclude
<1>12. CASE Report
  BY <1>12 DEF Report
<1>13. CASE UNCHANGED vars
  BY <1>13 DEF vars
<1>14. QED
  BY <1>1, <1>2, <1>3, <1>4, <1>5, <1>6, <1>7, <1>8, <1>9, <1>10, <1>11, <1>12, <1>13
  DEF Next

LEMMA LeastInvIsLeast == LeastInv => PaddingIsLeast
<1>1. SUFFICES ASSUME LeastInv, pc \in Mode, NEW ls \in [Inputs -> PadLens],
                      Covers(run, pc, slots, ls)
               PROVE  \A i \in Inputs : lens[i] <= ls[i]
  BY DEF PaddingIsLeast
<1>2. ls \in Admissible(run, slots)
  BY <1>1, PadLensAssumption DEF Admissible, Covers
<1>3. QED
  BY <1>1, <1>2 DEF LeastInv, LeastFor

(* However the inputs read each other, if a longer pad never makes one      *)
(* cheaper, no pad grown by minimalPadding exceeds the one of any choice of *)
(* lengths that gives every input its budget.                               *)
THEOREM PaddingMinimal == (MeasuresTyped /\ UseGrows) => (Spec => []PaddingIsLeast)
<1>1. LeastInv => PaddingIsLeast
  BY LeastInvIsLeast
<1>2. SUFFICES ASSUME MeasuresTyped, UseGrows PROVE Spec => []PaddingIsLeast
  OBVIOUS
<1>3. LeastInv /\ [Next]_vars => LeastInv'
  BY <1>2, LeastNext
<1>4. QED
  BY LeastInit, <1>1, <1>3, PTL DEF Spec

-----------------------------------------------------------------------------
(* What padFor has returned                                                 *)

OutcomeStatus == {"pending", "unneeded", "done", "error"}

IsDone(r, mode, s, o) ==
    /\ ~Valid(r, mode, Shipped)
    /\ Valid(r, mode, o.pads)
    /\ \E l \in Admissible(r, s) :
         /\ o.pads = Build(r, s, l)
         /\ LeastFor(r, mode, s, l)
         /\ Covers(r, mode, s, l)

IsUnneeded(r, mode, o) == Valid(r, mode, Shipped) /\ o.pads = Shipped

IsOutcome(r, mode, s, o) ==
    /\ o \in [status : OutcomeStatus, pads : [Inputs -> Pad]]
    /\ o.status = "done" => IsDone(r, mode, s, o)
    /\ o.status = "unneeded" => IsUnneeded(r, mode, o)

PaddedInv ==
    /\ LeastInv
    /\ padded = [mode \in Mode |-> padded[mode]]
    /\ \A mode \in Mode : IsOutcome(run, mode, slots, padded[mode])
    /\ pc = "measure" => \A mode \in Mode : padded[mode].status = "pending"
    /\ pc \in {"standard", "conclude"} => padded["consensus"].status # "pending"
    /\ pc = "conclude" => padded["standard"].status # "pending"
    /\ padding = "paddable" =>
         /\ pc \in {"report", "done"}
         /\ \A mode \in Mode : padded[mode].status \in {"unneeded", "done"}

LEMMA PaddedInit == Init => PaddedInv
<1>1. SUFFICES ASSUME Init PROVE PaddedInv
  OBVIOUS
<1>2. Shipped \in [Inputs -> Pad]
  BY DEF Shipped, NoPad, Pad
<1>3. \A mode \in Mode : padded[mode] = Outcome("pending", Shipped)
  BY <1>1 DEF Init
<1>4. QED
  BY <1>1, <1>2, <1>3, LeastInit DEF Init, PaddedInv, IsOutcome, Outcome, OutcomeStatus, Mode

(* The outcome a mode ends with.                                            *)
LEMMA PaddedReturn ==
  ASSUME PaddedInv, LeastInv', pc \in Mode, NEW outcome, Return(outcome),
         IsOutcome(run, pc, slots, outcome), outcome.status # "pending"
  PROVE  PaddedInv'
<1>1. run' = run /\ slots' = slots /\ padding' = padding
  BY DEF Return
<1>2. /\ pc = "consensus" => pc' = "standard"
      /\ pc = "standard" => pc' = "conclude"
  BY DEF Return, StartMode
<1>3. /\ padded' = [mode \in Mode |-> padded'[mode]]
      /\ \A mode \in Mode : padded'[mode] = IF mode = pc THEN outcome ELSE padded[mode]
  BY DEF PaddedInv, Return
<1>4. \A mode \in Mode : IsOutcome(run, mode, slots, padded'[mode])
  BY <1>3 DEF PaddedInv
<1>5. /\ pc' \in {"standard", "conclude"} => padded'["consensus"].status # "pending"
      /\ pc' = "conclude" => padded'["standard"].status # "pending"
  BY <1>2, <1>3 DEF PaddedInv, Mode
<1>6. padding # "paddable"
  BY DEF PaddedInv, Mode
<1>7. pc' # "measure"
  BY <1>2 DEF Mode
<1>8. QED
  BY <1>1, <1>3, <1>4, <1>5, <1>6, <1>7 DEF PaddedInv

LEMMA CurrentType == ASSUME LeastInv PROVE Current \in [Inputs -> Pad]
  BY BuildType DEF LeastInv, Typed, Admissible, Current

(* Replay accepts only what covers every budget.                            *)
LEMMA ReplayIsOutcome ==
  ASSUME PaddedInv, Replay
  PROVE  IsOutcome(run, pc, slots,
                   Outcome(IF Valid(run, pc, Current) THEN "done" ELSE "error", Current))
<1>1. pc \in Mode /\ ~Valid(run, pc, Shipped)
  BY DEF Replay, Turn, Padding
<1>2. lens \in Admissible(run, slots) /\ LeastFor(run, pc, slots, lens)
  BY <1>1 DEF PaddedInv, LeastInv, Typed
<1>3. \A i \in Inputs : lens[i] >= Base(run, i, slots[i])
  <2>1. \A i \in Inputs : lens[i] \in Nat /\ Base(run, i, slots[i]) \in Nat
                         /\ Base(run, i, slots[i]) <= lens[i]
    BY <1>2, BaseType DEF Admissible, PaddedInv, LeastInv, Typed
  <2>2. QED BY <2>1
<1>4. Covers(run, pc, slots, lens)
  BY <1>3 DEF Replay, Covers, Lacking, Current
<1>5. Current \in [Inputs -> Pad]
  BY CurrentType DEF PaddedInv
<1>6. CASE Valid(run, pc, Current)
  BY <1>1, <1>2, <1>4, <1>5, <1>6 DEF IsOutcome, Outcome, OutcomeStatus, IsDone, Current
<1>7. CASE ~Valid(run, pc, Current)
  BY <1>5, <1>7 DEF IsOutcome, Outcome, OutcomeStatus
<1>8. QED
  BY <1>6, <1>7

LEMMA PaddedNext ==
  ASSUME MeasuresTyped, UseGrows, PaddedInv, [Next]_vars PROVE PaddedInv'
<1>1. LeastInv'
  BY LeastNext DEF PaddedInv
<1>2. ASSUME pc \in Mode, Return(Outcome("error", Current)) PROVE PaddedInv'
  <2>1. IsOutcome(run, pc, slots, Outcome("error", Current))
    BY CurrentType DEF PaddedInv, IsOutcome, Outcome, OutcomeStatus
  <2>2. QED
    BY <1>1, <1>2, <2>1, PaddedReturn DEF Outcome
<1>3. CASE AsShipped \/ Unfixable \/ RejectsPads
  BY <1>1, <1>3 DEF PaddedInv, AsShipped, Unfixable, RejectsPads, Conclude
<1>4. CASE ChooseSlots
  <2>1. /\ pc = "measure" /\ pc' = "consensus" /\ run' = run
        /\ padded' = padded /\ padding' = padding
    BY <1>4 DEF ChooseSlots, Paddable, StartMode
  <2>2. \A mode \in Mode : IsOutcome(run', mode, slots', padded'[mode])
    BY <2>1 DEF PaddedInv, IsOutcome
  <2>3. QED
    BY <1>1, <2>1, <2>2 DEF PaddedInv
<1>5. CASE SkipMode
  <2>1. Shipped \in [Inputs -> Pad]
    BY DEF Shipped, NoPad, Pad
  <2>2. IsOutcome(run, pc, slots, Outcome("unneeded", Shipped))
    BY <1>5, <2>1 DEF SkipMode, IsOutcome, IsUnneeded, Outcome, OutcomeStatus
  <2>3. QED
    BY <1>1, <1>5, <2>2, PaddedReturn DEF SkipMode, Outcome
<1>6. CASE Rejected \/ Slotless \/ GiveUp
  BY <1>2, <1>6 DEF Rejected, Slotless, GiveUp, Turn, Padding
<1>7. CASE Grow
  BY <1>1, <1>7 DEF PaddedInv, Grow
<1>8. CASE Replay
  <2>1. IsOutcome(run, pc, slots,
                  Outcome(IF Valid(run, pc, Current) THEN "done" ELSE "error", Current))
    BY <1>8, ReplayIsOutcome
  <2>2. QED
    BY <1>1, <1>8, <2>1, PaddedReturn DEF Replay, Turn, Padding, Outcome
<1>9. CASE ConcludePadding
  <2>1. /\ pc = "conclude" /\ pc' = "report" /\ run' = run /\ slots' = slots
        /\ padded' = padded
        /\ padding' = "paddable" => \A mode \in Mode : padded[mode].status # "error"
    BY <1>9 DEF ConcludePadding, Conclude
  <2>2. \A mode \in Mode : padded[mode].status \in OutcomeStatus \ {"pending"}
    BY <2>1 DEF PaddedInv, IsOutcome, Mode
  <2>3. QED
    BY <1>1, <2>1, <2>2 DEF PaddedInv, OutcomeStatus
<1>10. CASE Report
  BY <1>1, <1>10 DEF PaddedInv, Report
<1>11. CASE UNCHANGED vars
  BY <1>1, <1>11 DEF PaddedInv, vars
<1>12. QED
  BY <1>3, <1>4, <1>5, <1>6, <1>7, <1>8, <1>9, <1>10, <1>11 DEF Next

-----------------------------------------------------------------------------
(* The two modes                                                            *)

(* What covers the standard budgets covers the consensus budgets.           *)
LEMMA StandardCoversBoth ==
  ASSUME MeasuresTyped, StandardIsStricter,
         NEW r \in Runs, NEW s \in [Inputs -> Slot], NEW l \in Admissible(r, s),
         Covers(r, "standard", s, l)
  PROVE  Covers(r, "consensus", s, l)
<1> DEFINE u == Build(r, s, l)
           C(i) == Evaluate(r, "consensus", u, i)
           S(i) == Evaluate(r, "standard", u, i)
<1>1. u \in [Inputs -> Pad]
  BY BuildType DEF Admissible
<1>2. \A i \in Inputs : C(i) \in Measure /\ S(i) \in Measure
                       /\ C(i).opCost <= S(i).opCost /\ C(i).iters <= S(i).iters
  BY <1>1 DEF MeasuresTyped, StandardIsStricter, Mode
<1>3. ASSUME NEW i \in Inputs PROVE i \notin Short(r, "consensus", u)
  <2>1. /\ NeededUnlockingLen(C(i), "consensus") <= NeededUnlockingLen(S(i), "standard")
        /\ NeededUnlockingLen(C(i), "consensus") \in Int
        /\ NeededUnlockingLen(S(i), "standard") \in Int
    <3> HIDE DEF C, S
    <3>1. QED
      BY <1>2, NeededGrows, NeededIsThreshold DEF Mode
  <2>2. UnlockingLen(r, i, u[i]) \in Nat
    BY LengthOfBuilt
  <2>3. ~(UnlockingLen(r, i, u[i]) < NeededUnlockingLen(S(i), "standard"))
    BY DEF Covers, Short
  <2>4. QED
    BY <2>1, <2>2, <2>3 DEF Short
<1>4. Short(r, "consensus", u) = {}
  BY <1>3 DEF Short
<1>5. QED
  BY <1>4 DEF Covers

(* More pad data makes a longer pad.                                        *)
LEMMA BuildGrows ==
  ASSUME NEW r \in Runs, NEW s \in [Inputs -> Slot], NEW l1 \in Admissible(r, s),
         NEW l2 \in Admissible(r, s), NEW i \in Inputs, l1[i] <= l2[i]
  PROVE  Build(r, s, l1)[i].n <= Build(r, s, l2)[i].n
<1>1. /\ Base(r, i, s[i]) \in Nat /\ l1[i] \in Nat /\ l2[i] \in Nat
      /\ Base(r, i, s[i]) <= l1[i]
  BY BaseType DEF Admissible
<1>2. CASE s[i] = "none" \/ l1[i] = Base(r, i, s[i])
  <2>1. Build(r, s, l1)[i].n = 0 /\ Build(r, s, l2)[i].n \in {0, l2[i]}
    BY <1>2 DEF Build, NoPad
  <2>2. QED BY <1>1, <2>1
<1>3. CASE ~(s[i] = "none" \/ l1[i] = Base(r, i, s[i]))
  <2>1. l2[i] # Base(r, i, s[i])
    BY <1>1, <1>3
  <2>2. Build(r, s, l1)[i].n = l1[i] /\ Build(r, s, l2)[i].n = l2[i]
    BY <1>3, <2>1 DEF Build
  <2>3. QED BY <2>2
<1>4. QED
  BY <1>2, <1>3

LEMMA StricterShipped ==
  ASSUME StandardIsStricter, NEW r \in Runs, Valid(r, "standard", Shipped)
  PROVE  Valid(r, "consensus", Shipped)
<1>1. Shipped \in [Inputs -> Pad]
  BY DEF Shipped, NoPad, Pad
<1>2. QED
  BY <1>1 DEF StandardIsStricter, Valid

LEMMA PaddedInvPadsMore ==
  ASSUME MeasuresTyped, StandardIsStricter, PaddedInv PROVE StandardPadsMore
<1>1. SUFFICES ASSUME padding = "paddable" PROVE
        /\ padded["standard"].status = "unneeded" => padded["consensus"].status = "unneeded"
        /\ \A i \in Inputs :
             padded["standard"].status = "done" =>
                 padded["consensus"].pads[i].n <= padded["standard"].pads[i].n
  BY DEF StandardPadsMore
<1>2. /\ run \in Runs /\ slots \in [Inputs -> Slot]
      /\ \A mode \in Mode : /\ IsOutcome(run, mode, slots, padded[mode])
                            /\ padded[mode].status \in {"unneeded", "done"}
  BY <1>1 DEF PaddedInv, LeastInv, Typed
<1>3. /\ IsOutcome(run, "standard", slots, padded["standard"])
      /\ IsOutcome(run, "consensus", slots, padded["consensus"])
      /\ padded["consensus"].status \in {"unneeded", "done"}
  BY <1>2 DEF Mode
<1>4. padded["standard"].status = "unneeded" => padded["consensus"].status = "unneeded"
  BY <1>2, <1>3, StricterShipped DEF IsOutcome, IsUnneeded, IsDone
<1>5. ASSUME NEW i \in Inputs, padded["standard"].status = "done"
      PROVE  padded["consensus"].pads[i].n <= padded["standard"].pads[i].n
  <2>1. PICK l2 \in Admissible(run, slots) :
          /\ padded["standard"].pads = Build(run, slots, l2)
          /\ Covers(run, "standard", slots, l2)
    BY <1>3, <1>5 DEF IsOutcome, IsDone
  <2>2. CASE padded["consensus"].status = "unneeded"
    <3>1. padded["consensus"].pads[i].n = 0
      BY <1>3, <2>2 DEF IsOutcome, IsUnneeded, Shipped, NoPad
    <3>2. padded["standard"].pads[i].n \in Nat
      BY <1>3 DEF IsOutcome, Pad
    <3>3. QED BY <3>1, <3>2
  <2>3. CASE padded["consensus"].status = "done"
    <3>1. PICK l1 \in Admissible(run, slots) :
            /\ padded["consensus"].pads = Build(run, slots, l1)
            /\ LeastFor(run, "consensus", slots, l1)
      BY <1>3, <2>3 DEF IsOutcome, IsDone
    <3>2. l1[i] <= l2[i]
      BY <1>2, <2>1, <3>1, StandardCoversBoth DEF LeastFor
    <3>3. QED
      BY <1>2, <2>1, <3>1, <3>2, BuildGrows
  <2>4. QED BY <1>3, <2>2, <2>3
<1>6. QED BY <1>4, <1>5

(* If the standard mode of the VM never charges less and accepts nothing    *)
(* consensus rejects, the standard padding is at least the consensus one.   *)
THEOREM StandardMore ==
  (MeasuresTyped /\ UseGrows /\ StandardIsStricter) => (Spec => []StandardPadsMore)
<1>2. SUFFICES ASSUME MeasuresTyped, UseGrows, StandardIsStricter
               PROVE  Spec => []StandardPadsMore
  OBVIOUS
<1>3. PaddedInv /\ [Next]_vars => PaddedInv'
  BY <1>2, PaddedNext
<1>4. PaddedInv => StandardPadsMore
  BY <1>2, PaddedInvPadsMore
<1>5. QED
  BY PaddedInit, <1>3, <1>4, PTL DEF Spec

-----------------------------------------------------------------------------
(* The figure                                                               *)

FigureInv ==
    /\ PaddedInv
    /\ padding = "not-needed" => /\ pc \in {"report", "done"}
                                 /\ \A mode \in Mode : Valid(run, mode, Shipped)
    /\ pc # "done" => figure = NoFigure
    /\ FigureIsMeasured

(* Where the standard pads are too long for relay, the consensus pads are   *)
(* not a relayable standard transaction either: they would be the same.     *)
LEMMA ConsensusIsNoStandard ==
  ASSUME MeasuresTyped, StandardIsStricter, BudgetIsEnforced, PaddedInv,
         padding = "paddable", ~Fits
  PROVE  ~( /\ Valid(run, "standard", padded["consensus"].pads)
            /\ StandardPolicy(run, padded["consensus"].pads))
<1> DEFINE S == padded["standard"]
           C == padded["consensus"]
<1>1. /\ run \in Runs /\ slots \in [Inputs -> Slot]
      /\ IsOutcome(run, "standard", slots, S) /\ IsOutcome(run, "consensus", slots, C)
      /\ S.status \in {"unneeded", "done"} /\ C.status \in {"unneeded", "done"}
  BY DEF PaddedInv, LeastInv, Typed, Mode
<1>2. CASE S.status = "unneeded"
  <2>1. Valid(run, "standard", Shipped) /\ ~StandardPolicy(run, Shipped)
    BY <1>1, <1>2 DEF IsOutcome, IsUnneeded, Fits
  <2>2. C.pads = Shipped
    BY <1>1, <2>1, StricterShipped DEF IsOutcome, IsUnneeded, IsDone
  <2>3. QED BY <2>1, <2>2
<1>3. CASE S.status = "done"
  <2>1. ~Valid(run, "standard", Shipped) /\ ~StandardPolicy(run, S.pads)
    BY <1>1, <1>3 DEF IsOutcome, IsDone, Fits
  <2>2. SUFFICES ASSUME Valid(run, "standard", C.pads) PROVE C.pads = S.pads
    BY <2>1
  <2>3. C.status = "done"
    BY <1>1, <2>1, <2>2 DEF IsOutcome, IsUnneeded
  <2>4. PICK l1 \in Admissible(run, slots) :
          /\ C.pads = Build(run, slots, l1)
          /\ LeastFor(run, "consensus", slots, l1)
    BY <1>1, <2>3 DEF IsOutcome, IsDone
  <2>5. PICK l2 \in Admissible(run, slots) :
          /\ S.pads = Build(run, slots, l2)
          /\ LeastFor(run, "standard", slots, l2)
          /\ Covers(run, "standard", slots, l2)
    BY <1>1, <1>3 DEF IsOutcome, IsDone
  <2>6. Covers(run, "standard", slots, l1)
    <3>1. ASSUME NEW i \in Inputs
          PROVE  /\ l1[i] >= Base(run, i, slots[i])
                 /\ i \notin Short(run, "standard", C.pads)
      <4>1. l1[i] \in Nat /\ Base(run, i, slots[i]) \in Nat /\ Base(run, i, slots[i]) <= l1[i]
        BY <1>1, BaseType DEF Admissible
      <4>2. C.pads \in [Inputs -> Pad]
        BY <1>1 DEF IsOutcome
      <4>3. /\ Evaluate(run, "standard", C.pads, i) \in Measure
            /\ WithinLimits(Evaluate(run, "standard", C.pads, i), "standard",
                            UnlockingLen(run, i, C.pads[i]))
        BY <1>1, <2>2, <4>2 DEF MeasuresTyped, BudgetIsEnforced, Valid, Mode
      <4>4. UnlockingLen(run, i, C.pads[i]) \in Nat
        BY <1>1, <2>4, LengthOfBuilt
      <4>5. /\ NeededUnlockingLen(Evaluate(run, "standard", C.pads, i), "standard") \in Int
            /\ UnlockingLen(run, i, C.pads[i])
                 >= NeededUnlockingLen(Evaluate(run, "standard", C.pads, i), "standard")
        BY <4>3, <4>4, NeededIsThreshold DEF Mode
      <4>6. QED BY <4>1, <4>4, <4>5 DEF Short
    <3>2. Short(run, "standard", C.pads) = {}
      BY <3>1 DEF Short
    <3>3. QED BY <2>4, <3>1, <3>2 DEF Covers
  <2>7. \A i \in Inputs : l1[i] <= l2[i] /\ l2[i] <= l1[i]
    BY <1>1, <2>4, <2>5, <2>6, StandardCoversBoth DEF LeastFor
  <2>8. l1 = l2
    BY <2>7 DEF Admissible
  <2>9. QED BY <2>4, <2>5, <2>8
<1>4. QED BY <1>1, <1>2, <1>3

LEMMA ReportIsMeasured ==
  ASSUME MeasuresTyped, StandardIsStricter, BudgetIsEnforced, FigureInv, Report
  PROVE  FigureIsMeasured'
<1> DEFINE Backed(f, u) ==
             /\ Valid(run, f.mode, u)
             /\ f.score = ScoreOf(run, Lengths(run, u)).score
             /\ f.padBytes = Added(run, u)
             /\ f.standard <=> (Valid(run, "standard", u) /\ StandardPolicy(run, u))
<1>1. figure' = Figure /\ run' = run /\ padded' = padded
  BY DEF Report
<1>2. SUFFICES ASSUME Figure.status \in {"as-shipped", "padded"}
      PROVE  \E u \in {Shipped} \cup {padded[mode].pads : mode \in Mode} : Backed(Figure, u)
  BY <1>1 DEF FigureIsMeasured
<1>3. CASE padding = "not-needed"
  <2>1. Figure = FigureFor("as-shipped", Shipped)
    BY <1>3 DEF Figure
  <2>2. Fits <=> (Valid(run, "standard", Shipped) /\ StandardPolicy(run, Shipped))
    BY <1>3 DEF Fits
  <2>3. Valid(run, "consensus", Shipped) /\ Valid(run, "standard", Shipped)
    BY <1>3 DEF FigureInv, Mode
  <2>4. Backed(Figure, Shipped)
    BY <2>1, <2>2, <2>3 DEF FigureFor
  <2>5. QED BY <2>4
<1>4. CASE padding = "paddable"
  <2> DEFINE k == IF Fits THEN "standard" ELSE "consensus"
  <2>1. Figure = FigureFor("padded", padded[k].pads)
    BY <1>4 DEF Figure
  <2>2. /\ k \in Mode
        /\ IsOutcome(run, k, slots, padded[k])
        /\ padded[k].status \in {"unneeded", "done"}
    BY <1>4 DEF FigureInv, PaddedInv, Mode
  <2>3. Valid(run, k, padded[k].pads)
    BY <2>2 DEF IsOutcome, IsDone, IsUnneeded
  <2>4. Fits => StandardPolicy(run, padded[k].pads)
    <3>1. SUFFICES ASSUME Fits PROVE StandardPolicy(run, padded["standard"].pads)
      OBVIOUS
    <3>2. CASE padded["standard"].status = "done"
      BY <1>4, <3>1, <3>2 DEF Fits
    <3>3. CASE padded["standard"].status = "unneeded"
      <4>1. padded["standard"].pads = Shipped
        BY <2>2, <3>1, <3>3 DEF IsOutcome, IsUnneeded
      <4>2. QED BY <3>1, <3>3, <4>1 DEF Fits
    <3>4. QED BY <2>2, <3>1, <3>2, <3>3
  <2>5. Fits <=> (Valid(run, "standard", padded[k].pads) /\ StandardPolicy(run, padded[k].pads))
    BY <1>4, <2>3, <2>4, ConsensusIsNoStandard DEF FigureInv
  <2>6. Backed(Figure, padded[k].pads)
    BY <2>1, <2>3, <2>5 DEF FigureFor
  <2>7. QED BY <2>2, <2>6
<1>5. CASE padding \notin {"not-needed", "paddable"}
  BY <1>2, <1>5 DEF Figure, NoFigure
<1>6. QED BY <1>3, <1>4, <1>5

LEMMA FigureNext ==
  ASSUME MeasuresTyped, UseGrows, StandardIsStricter, BudgetIsEnforced,
         FigureInv, [Next]_vars
  PROVE  FigureInv'
<1>1. PaddedInv'
  BY PaddedNext DEF FigureInv
<1>2. ASSUME pc # "done", UNCHANGED figure PROVE FigureIsMeasured'
  <2>1. figure' = NoFigure
    BY <1>2 DEF FigureInv
  <2>2. QED BY <2>1 DEF FigureIsMeasured, NoFigure
<1>3. ASSUME pc \in Mode, NEW outcome, Return(outcome) PROVE FigureInv'
  <2>1. pc # "done" /\ pc' # "done" /\ figure' = figure /\ padding' = padding
    BY <1>3 DEF Return, StartMode, Mode
  <2>2. padding # "not-needed"
    BY <1>3 DEF FigureInv, Mode
  <2>3. QED BY <1>1, <1>2, <2>1, <2>2 DEF FigureInv
<1>4. CASE AsShipped
  <2>1. /\ pc = "measure" /\ pc' = "report" /\ figure' = figure /\ run' = run
        /\ \A mode \in Mode : Valid(run, mode, Shipped)
    BY <1>4 DEF AsShipped, Conclude
  <2>2. QED BY <1>1, <1>2, <2>1 DEF FigureInv
<1>5. CASE Unfixable \/ RejectsPads \/ ConcludePadding
  <2>1. /\ pc # "done" /\ pc' = "report" /\ figure' = figure
        /\ padding' # "not-needed"
    BY <1>5 DEF Unfixable, RejectsPads, Paddable, ConcludePadding, Conclude
  <2>2. QED BY <1>1, <1>2, <2>1 DEF FigureInv
<1>6. CASE ChooseSlots
  <2>1. pc = "measure" /\ pc' = "consensus" /\ figure' = figure /\ padding' = padding
    BY <1>6 DEF ChooseSlots, Paddable, StartMode
  <2>2. padding # "not-needed"
    BY <2>1 DEF FigureInv
  <2>3. QED BY <1>1, <1>2, <2>1, <2>2 DEF FigureInv
<1>7. CASE SkipMode \/ Rejected \/ Slotless \/ Replay \/ GiveUp
  BY <1>3, <1>7 DEF SkipMode, Rejected, Slotless, Replay, GiveUp, Turn, Padding
<1>8. CASE Grow
  <2>1. /\ pc \in Mode /\ pc' = pc /\ figure' = figure /\ padding' = padding
    BY <1>8 DEF Grow, Turn, Padding
  <2>2. padding # "not-needed" /\ pc # "done"
    BY <2>1 DEF FigureInv, Mode
  <2>3. QED BY <1>1, <1>2, <2>1, <2>2 DEF FigureInv
<1>9. CASE Report
  <2>1. FigureIsMeasured'
    BY <1>9, ReportIsMeasured
  <2>2. pc' = "done" /\ padding' = padding /\ run' = run
    BY <1>9 DEF Report
  <2>3. QED BY <1>1, <2>1, <2>2 DEF FigureInv
<1>10. CASE UNCHANGED vars
  BY <1>1, <1>10 DEF FigureInv, FigureIsMeasured, vars
<1>11. QED
  BY <1>4, <1>5, <1>6, <1>7, <1>8, <1>9, <1>10 DEF Next

LEMMA FigureInit == Init => FigureInv
  BY PaddedInit DEF Init, FigureInv, FigureIsMeasured, NoFigure

(* If moreover the real VM enforces the density limits on what Evaluate     *)
(* measures, a figure that is neither an estimate nor "invalid" has a       *)
(* transaction behind it that validates, in the mode and with the score and *)
(* the pad bytes reported, and is relayable exactly if the figure says so.  *)
THEOREM FigureMeasured ==
  (MeasuresTyped /\ UseGrows /\ StandardIsStricter /\ BudgetIsEnforced)
      => (Spec => []FigureIsMeasured)
<1>1. Init => FigureInv
  BY FigureInit
<1>2. SUFFICES ASSUME MeasuresTyped, UseGrows, StandardIsStricter, BudgetIsEnforced
               PROVE  Spec => []FigureIsMeasured
  OBVIOUS
<1>3. FigureInv /\ [Next]_vars => FigureInv'
  BY <1>2, FigureNext
<1>4. FigureInv => FigureIsMeasured
  BY DEF FigureInv
<1>5. QED
  BY <1>1, <1>3, <1>4, PTL DEF Spec

LEMMA LeastInvNeeds ==
  ASSUME MeasuresTyped, LeastInv PROVE NeedIsLeast
<1>1. ASSUME pc \in Mode, NEW i \in Inputs
      PROVE  LET m    == Evaluate(run, pc, Current, i)
                 need == NeededUnlockingLen(m, pc)
             IN  WithinLimits(m, pc, need) /\ ~WithinLimits(m, pc, need - 1)
  <2> DEFINE m == Evaluate(run, pc, Current, i)
             need == NeededUnlockingLen(m, pc)
  <2>1. m \in Measure
    BY <1>1, CurrentType DEF MeasuresTyped, LeastInv, Typed
  <2> HIDE DEF m
  <2>2. need \in Int /\ need - 1 \in Int
    BY <1>1, <2>1, NeededIsThreshold
  <2>3. /\ WithinLimits(m, pc, need) <=> need >= need
        /\ WithinLimits(m, pc, need - 1) <=> need - 1 >= need
    BY <1>1, <2>1, <2>2, NeededIsThreshold
  <2>4. QED BY <2>2, <2>3 DEF m
<1>2. QED BY <1>1 DEF NeedIsLeast

(* The length asked for an unlocking at any turn of the loop is the         *)
(* smallest whose limits cover what was measured.                           *)
THEOREM NeedExact == (MeasuresTyped /\ UseGrows) => (Spec => []NeedIsLeast)
<1>2. SUFFICES ASSUME MeasuresTyped, UseGrows PROVE Spec => []NeedIsLeast
  OBVIOUS
<1>3. LeastInv /\ [Next]_vars => LeastInv'
  BY <1>2, LeastNext
<1>4. LeastInv => NeedIsLeast
  BY <1>2, LeastInvNeeds
<1>5. QED
  BY LeastInit, <1>3, <1>4, PTL DEF Spec

-----------------------------------------------------------------------------
(* Types                                                                    *)

Figures ==
    [status: {"none", "as-shipped", "padded", "not-paddable", "invalid"},
     score: Int, padBytes: Int, mode: Mode, standard: BOOLEAN]

(* No pad is so short that its unlocking would have a negative length.      *)
LEMMA UnlockingLenType ==
  ASSUME NEW r \in Runs, NEW i \in Inputs, NEW p \in Pad
  PROVE  UnlockingLen(r, i, p) \in Nat
<1>1. ShippedLen(r, i) \in Nat /\ PadBase(r, i) \in Nat /\ p.n \in Nat
      /\ p.kind \in {"shipped", "grow", "insert"}
  BY RunsAssumption DEF Pad
<1>2. CASE p.kind = "shipped"
  BY <1>1, <1>2 DEF UnlockingLen
<1>3. CASE p.kind = "insert"
  <2>1. UnlockingLen(r, i, p) = ShippedLen(r, i) + EncodedPush(p.n)
    BY <1>3 DEF UnlockingLen
  <2>2. EncodedPush(p.n) \in Nat
    BY <1>1, EncodedPushGrows
  <2>3. QED BY <1>1, <2>1, <2>2
<1>4. CASE p.kind = "grow"
  <2>1. UnlockingLen(r, i, p) = ShippedLen(r, i) - EncodedPush(PadBase(r, i)) + EncodedPush(p.n)
    BY <1>4 DEF UnlockingLen
  <2>2. PadBase(r, i) > 0 => ShippedLen(r, i) >= EncodedPush(PadBase(r, i))
    BY RunsAssumption
  <2>3. EncodedPush(p.n) >= 1 /\ EncodedPush(0) = 1
        /\ EncodedPush(p.n) \in Nat /\ EncodedPush(PadBase(r, i)) \in Nat
    BY <1>1, EncodedPushGrows DEF EncodedPush
  <2>4. CASE PadBase(r, i) = 0
    BY <1>1, <2>1, <2>3, <2>4
  <2>5. CASE PadBase(r, i) > 0
    BY <1>1, <2>1, <2>2, <2>3, <2>5
  <2>6. QED BY <1>1, <2>4, <2>5
<1>5. QED BY <1>1, <1>2, <1>3, <1>4

LEMMA LengthsType ==
  ASSUME NEW r \in Runs, NEW u \in [Inputs -> Pad]
  PROVE  /\ Lengths(r, u) \in [Inputs -> Nat]
         /\ Added(r, u) \in Int
<1>1. \A i \in Inputs : UnlockingLen(r, i, u[i]) \in Nat /\ ShippedLen(r, i) \in Nat
  BY UnlockingLenType, RunsAssumption
<1> DEFINE f == [i \in Inputs |-> UnlockingLen(r, i, u[i]) - ShippedLen(r, i)]
<1>2. IntOn(f, Inputs) /\ DOMAIN f = Inputs
  BY <1>1 DEF IntOn
<1>3. SumFunctionOnSet(f, DOMAIN f) \in Int
  <2> HIDE DEF f
  <2>1. QED BY <1>2, InputsAssumption, SumIsInt
<1>4. QED BY <1>1, <1>3 DEF Lengths, Added, SumFunction

LEMMA ShippedType == Shipped \in [Inputs -> Pad]
  BY DEF Shipped, NoPad, Pad

(* The estimate finds a length: twice what is missing is always enough, for *)
(* a byte buys 800 and costs one.                                           *)
LEMMA EstimateType ==
  ASSUME MeasuresTyped, NEW r \in Runs, NEW i \in Inputs
  PROVE  EstimatePadding(r, i) \in Nat
<1> DEFINE m      == Evaluate(r, "standard", Shipped, i)
           length == ShippedLen(r, i)
           need   == NeededUnlockingLen(m, "standard")
           least  == Max({1, need - length})
           N      == {n \in least..(2 * least + 1) :
                        (DensityBase + length + n) * PerByte >= m.opCost + 200 + n - PushHeader(n)}
<1>1. m \in Measure /\ length \in Nat
  BY ShippedType, RunsAssumption DEF MeasuresTyped, Mode
<1>2. m.opCost \in Nat
  BY <1>1 DEF Measure
<1>3. /\ need \in Int
      /\ WithinLimits(m, "standard", need) <=> need >= need
  <2> HIDE DEF m
  <2>1. need \in Int
    BY <1>1, NeededIsThreshold DEF Mode
  <2>2. QED BY <1>1, <2>1, NeededIsThreshold DEF Mode
<1>4. m.opCost <= (DensityBase + need) * PerByte
  BY <1>3 DEF WithinLimits
<1>5. least \in Int /\ least >= 1 /\ least >= need - length
  <2> DEFINE missing == need - length
  <2>1. missing \in Int
    BY <1>1, <1>3
  <2> HIDE DEF missing
  <2>2. Max({1, missing}) \in {1, missing} /\ Max({1, missing}) >= 1 /\ Max({1, missing}) >= missing
    BY <2>1, MaxOfTwo
  <2>3. Max({1, missing}) \in Int
    BY <2>1, <2>2
  <2>4. QED BY <2>2, <2>3 DEF missing
<1> DEFINE w == 2 * least + 1
<1>6. w \in N
  <2>1. PushHeader(w) \in 1 .. 5
    BY DEF PushHeader
  <2> DEFINE cost == m.opCost
             header == PushHeader(w)
  <2>2. /\ cost \in Nat /\ header \in 1 .. 5 /\ length \in Nat /\ need \in Int /\ least \in Int
        /\ cost <= (41 + need) * 800 /\ least >= 1 /\ least >= need - length /\ w = 2 * least + 1
    BY <1>1, <1>2, <1>3, <1>4, <1>5, <2>1 DEF DensityBase, PerByte
  <2> HIDE DEF cost, header, length, need, least, m, w
  <2>3. w \in least..(2 * least + 1)
    BY <2>2
  <2>4. (41 + length + w) * 800 >= cost + 200 + w - header
    BY <2>2
  <2>5. QED BY <2>3, <2>4 DEF cost, header, DensityBase, PerByte
<1>7. Min(N) \in Nat
  <2>1. N \subseteq least..(2 * least + 1)
    OBVIOUS
  <2> HIDE DEF N, least
  <2>2. IsFiniteSet(least..(2 * least + 1)) /\ N \subseteq Nat
    BY <1>5, <2>1, FS_Interval
  <2>3. IsFiniteSet(N)
    BY <2>1, <2>2, FS_Subset
  <2>4. N # {} /\ N \subseteq Int
    BY <1>6, <2>2
  <2>5. Min(N) \in N
    BY <2>3, <2>4, MinIsLeast
  <2>6. QED BY <2>2, <2>5
<1>8. EstimatePadding(r, i) = IF i \notin Short(r, "standard", Shipped) THEN 0 ELSE Min(N)
  BY DEF EstimatePadding
<1>9. QED BY <1>7, <1>8

Outcomes == [status: OutcomeStatus, pads: [Inputs -> Pad]]

LEMMA FigureType ==
  ASSUME MeasuresTyped, ScoresTyped, TypeOK
  PROVE  Figure \in Figures
<1>1. run \in Runs /\ \A mode \in Mode : padded[mode].pads \in [Inputs -> Pad]
  BY DEF TypeOK
<1>2. Fits \in BOOLEAN
  BY DEF Fits, StandardPolicy, Valid
<1>3. ASSUME NEW u \in [Inputs -> Pad], NEW s \in {"as-shipped", "padded"}
      PROVE  FigureFor(s, u) \in Figures
  <2>1. Lengths(run, u) \in [Inputs -> Nat] /\ Added(run, u) \in Int
    BY <1>1, LengthsType
  <2>2. ScoreOf(run, Lengths(run, u)).score \in Int
    BY <1>1, <2>1 DEF ScoresTyped
  <2>3. QED BY <1>2, <2>1, <2>2 DEF FigureFor, Figures, Mode
<1>4. CASE padding = "not-needed"
  BY <1>3, <1>4, ShippedType DEF Figure
<1>5. CASE padding = "paddable"
  <2>1. Figure = FigureFor("padded", padded[IF Fits THEN "standard" ELSE "consensus"].pads)
    BY <1>5 DEF Figure
  <2>2. padded[IF Fits THEN "standard" ELSE "consensus"].pads \in [Inputs -> Pad]
    BY <1>1 DEF Mode
  <2>3. QED BY <1>3, <2>1, <2>2
<1>6. CASE padding = "pinned"
  <2> DEFINE added   == [i \in Inputs |-> EstimatePadding(run, i)]
             lengths == [i \in Inputs |-> ShippedLen(run, i) + added[i]]
  <2>1. \A i \in Inputs : EstimatePadding(run, i) \in Nat /\ ShippedLen(run, i) \in Nat
    BY <1>1, EstimateType, RunsAssumption
  <2>2. lengths \in [Inputs -> Nat]
    BY <2>1
  <2>3. IntOn(added, Inputs) /\ DOMAIN added = Inputs
    BY <2>1 DEF IntOn
  <2>4. Figure = [status |-> "not-paddable", score |-> ScoreOf(run, lengths).score,
                  padBytes |-> SumFunction(added), mode |-> "standard", standard |-> FALSE]
    BY <1>6 DEF Figure
  <2> HIDE DEF added, lengths
  <2>5. SumFunction(added) \in Int
    BY <2>3, InputsAssumption, SumIsInt DEF SumFunction
  <2>6. ScoreOf(run, lengths).score \in Int
    BY <1>1, <2>2 DEF ScoresTyped
  <2>7. QED BY <2>4, <2>5, <2>6 DEF Figures, Mode
<1>7. CASE padding \notin {"not-needed", "paddable", "pinned"}
  <2>1. Figure = [NoFigure EXCEPT !.status = "invalid"]
    BY <1>7 DEF Figure
  <2>2. Figure = [status |-> "invalid", score |-> -1, padBytes |-> 0,
                  mode |-> "consensus", standard |-> FALSE]
    BY <2>1 DEF NoFigure
  <2>3. QED BY <2>2 DEF Figures, Mode
<1>8. QED BY <1>4, <1>5, <1>6, <1>7

LEMMA TypeInit == Init => TypeOK
<1>1. SUFFICES ASSUME Init PROVE TypeOK
  OBVIOUS
<1>2. slots \in [Inputs -> Slot] /\ lens \in [Inputs -> Nat] /\ iter \in 0..MaxIter
  BY <1>1 DEF Init, Slot, MaxIter
<1>3. padded \in [Mode -> [status: {"pending", "unneeded", "done", "error"}, pads: [Inputs -> Pad]]]
  BY <1>1, ShippedType DEF Init, Outcome
<1>4. figure \in Figures
  BY <1>1 DEF Init, NoFigure, Figures, Mode
<1>5. QED BY <1>1, <1>2, <1>3, <1>4 DEF Init, TypeOK, Figures

LEMMA TypeBases ==
  ASSUME NEW r \in Runs, NEW s PROVE Bases(r, s) \in [Inputs -> Nat]
  BY BaseType DEF Bases

LEMMA TypeReturn ==
  ASSUME TypeOK, pc \in Mode, NEW outcome \in Outcomes, Return(outcome) PROVE TypeOK'
<1>1. padded' \in [Mode -> [status: {"pending", "unneeded", "done", "error"}, pads: [Inputs -> Pad]]]
  BY DEF TypeOK, Return, Outcomes, OutcomeStatus
<1>2. lens' \in [Inputs -> Nat]
  BY TypeBases DEF TypeOK, Return, StartMode
<1>3. pc' \in {"measure", "conclude", "report", "done"} \cup Mode /\ iter' \in 0..MaxIter
  BY DEF Return, StartMode, Mode, MaxIter
<1>4. UNCHANGED <<run, slots, padding, figure>>
  BY DEF Return
<1>5. QED BY <1>1, <1>2, <1>3, <1>4 DEF TypeOK

(* A pad that grows is grown to a length.                                   *)
LEMMA GrownType ==
  ASSUME MeasuresTyped, TypeOK, pc \in Mode, NEW i \in Growable
  PROVE  GrownLen(i) \in Nat
<1>1. run \in Runs /\ slots \in [Inputs -> Slot] /\ lens \in [Inputs -> Nat]
  BY DEF TypeOK
<1>2. i \in Inputs /\ slots[i] \in {"grow", "insert"}
  BY <1>1 DEF Growable, Lacking, Short, Slot
<1> DEFINE target == NeededUnlockingLen(Evaluate(run, pc, Current, i), pc)
           len    == UnlockingLen(run, i, Current[i])
           least  == IF slots[i] = "insert" THEN 1 ELSE PadBase(run, i)
           min    == Max({lens[i], least})
<1>3. Current \in [Inputs -> Pad]
  BY <1>1, BuildType DEF Current
<1>4. Evaluate(run, pc, Current, i) \in Measure /\ len \in Nat
  BY <1>1, <1>2, <1>3, UnlockingLenType DEF MeasuresTyped
<1>5. target \in Int
  BY <1>4, NeededIsThreshold
<1>6. len < target
  BY DEF Growable, Lacking, Short
<1>7. least \in Nat /\ lens[i] \in Nat
  BY <1>1, <1>2, RunsAssumption
<1>8. GrownLen(i) = PadLenFor(run, i, slots[i], target, min)
  BY DEF GrownLen
<1>9. PICK c \in Int :
        \A n \in Nat : UnlockingLen(run, i, [kind |-> slots[i], n |-> n]) = c + EncodedPush(n)
  BY <1>1, <1>2, LengthOfPad
<1> HIDE DEF target, len, least
<1>10. target \in Nat
  BY <1>4, <1>5, <1>6
<1>11. min \in Nat
  <2> DEFINE own == lens[i]
  <2>1. own \in Int /\ least \in Int
    BY <1>7
  <2> HIDE DEF own
  <2>2. Max({own, least}) \in {own, least}
    BY <2>1, MaxOfTwo
  <2>3. QED BY <1>7, <2>2 DEF own
<1> HIDE DEF min
<1>12. QED BY <1>1, <1>2, <1>8, <1>9, <1>10, <1>11, PadLenForIsFirst

LEMMA TypeNext ==
  ASSUME MeasuresTyped, ScoresTyped, TypeOK, [Next]_vars PROVE TypeOK'
<1>1. ASSUME pc \in Mode, NEW s \in OutcomeStatus, Return(Outcome(s, Current)) PROVE TypeOK'
  <2>1. Current \in [Inputs -> Pad]
    BY BuildType DEF TypeOK, Current
  <2>2. Outcome(s, Current) \in Outcomes
    BY <2>1 DEF Outcome, Outcomes
  <2>3. QED BY <1>1, <2>2, TypeReturn
<1>2. CASE AsShipped
  BY <1>2 DEF TypeOK, AsShipped, Conclude
<1>3. CASE Unfixable
  BY <1>3 DEF TypeOK, Unfixable, Conclude
<1>4. CASE RejectsPads
  BY <1>4 DEF TypeOK, RejectsPads, Conclude
<1>5. CASE ChooseSlots
  <2>1. ChosenSlots(run) \in [Inputs -> Slot]
    BY DEF ChosenSlots, ChosenSlot, Slot
  <2>2. lens' \in [Inputs -> Nat]
    BY <1>5, TypeBases DEF TypeOK, ChooseSlots, StartMode
  <2>3. iter' \in 0..MaxIter /\ pc' \in Mode /\ slots' \in [Inputs -> Slot]
    BY <1>5, <2>1 DEF ChooseSlots, StartMode, Mode, MaxIter
  <2>4. UNCHANGED <<run, padded, padding, figure>>
    BY <1>5 DEF ChooseSlots
  <2>5. QED BY <2>2, <2>3, <2>4 DEF TypeOK
<1>6. CASE SkipMode
  <2>1. Outcome("unneeded", Shipped) \in Outcomes
    BY ShippedType DEF Outcome, Outcomes, OutcomeStatus
  <2>2. QED BY <1>6, <2>1, TypeReturn DEF SkipMode
<1>7. CASE Rejected \/ Slotless \/ GiveUp
  BY <1>1, <1>7 DEF Rejected, Slotless, GiveUp, Turn, Padding, OutcomeStatus
<1>8. CASE Grow
  <2>1. pc \in Mode /\ iter < MaxIter /\ iter \in 0..MaxIter
    BY <1>8 DEF TypeOK, Grow, Turn, Padding
  <2>2. \A i \in Growable : GrownLen(i) \in Nat
    BY <2>1, GrownType
  <2>3. lens' \in [Inputs -> Nat]
    BY <1>8, <2>2 DEF Grow, TypeOK
  <2>4. iter' \in 0..MaxIter
    BY <1>8, <2>1 DEF Grow, MaxIter
  <2>5. UNCHANGED <<run, pc, slots, padded, padding, figure>>
    BY <1>8 DEF Grow
  <2>6. QED BY <2>3, <2>4, <2>5 DEF TypeOK
<1>9. CASE Replay
  BY <1>1, <1>9 DEF Replay, Turn, Padding, OutcomeStatus
<1>10. CASE ConcludePadding
  BY <1>10 DEF TypeOK, ConcludePadding, Conclude
<1>11. CASE Report
  <2>1. figure' \in Figures
    BY <1>11, FigureType DEF Report
  <2>2. QED BY <1>11, <2>1 DEF TypeOK, Report, Figures
<1>12. CASE UNCHANGED vars
  BY <1>12 DEF TypeOK, vars
<1>13. QED
  BY <1>2, <1>3, <1>4, <1>5, <1>6, <1>7, <1>8, <1>9, <1>10, <1>11, <1>12 DEF Next

(* Every variable keeps its type and the loop of minimalPadding stays       *)
(* within its bound: every length padLenFor looks for exists, no unlocking  *)
(* gets a negative length, and the estimate always finds a padding.         *)
THEOREM GradeTyped == (MeasuresTyped /\ ScoresTyped) => (Spec => []TypeOK)
<1>1. SUFFICES ASSUME MeasuresTyped, ScoresTyped PROVE Spec => []TypeOK
  OBVIOUS
<1>2. TypeOK /\ [Next]_vars => TypeOK'
  BY <1>1, TypeNext
<1>3. QED
  BY TypeInit, <1>2, PTL DEF Spec

-----------------------------------------------------------------------------
(* The entry: one run after the other                                       *)

EntryInv ==
    /\ TypeOK
    /\ entry \in Entries
    /\ honest \in Seq(Figures)
    /\ stage = "graded" => honest # << >>

(* A run is begun as the first one was.                                     *)
LEMMA RestartIsInit ==
  ASSUME NEW r \in Runs, Restart(r) PROVE Init'
  BY DEF Restart, Init

(* What a run keeps to its end is kept from run to run.                     *)
LEMMA EntrySteps ==
  ASSUME entry \in Entries, honest \in Seq(Figures), [EntryNext]_entryVars
  PROVE  [Next]_vars \/ Init'
<1>1. CASE Check \/ LastRun \/ UNCHANGED entryVars
  BY <1>1 DEF Check, LastRun, entryVars
<1>2. CASE GradeRun
  BY <1>2 DEF GradeRun
<1>3. CASE NextRun
  <2> DEFINE n == Len(honest) + 2
  <2>1. entry.runs \in Seq(Runs)
    BY EntriesAssumption
  <2>2. Len(honest) \in Nat /\ Len(entry.runs) \in Nat
    BY <2>1, LenProperties
  <2>3. n \in 1 .. Len(entry.runs)
    BY <1>3, <2>2 DEF NextRun
  <2>4. entry.runs[n] \in Runs
    BY <2>1, <2>3, ElementOfSeq
  <2>5. Restart(entry.runs[n])
    BY <1>3 DEF NextRun
  <2>6. QED BY <2>4, <2>5, RestartIsInit
<1>4. QED BY <1>1, <1>2, <1>3 DEF EntryNext

LEMMA EntryInvNext ==
  ASSUME MeasuresTyped, ScoresTyped, EntryInv, [EntryNext]_entryVars, TypeOK'
  PROVE  EntryInv'
<1> USE DEF EntryInv
<1>1. CASE Check
  BY <1>1 DEF Check
<1>2. CASE GradeRun
  BY <1>2 DEF GradeRun
<1>3. CASE NextRun \/ LastRun
  <2>1. honest' = Append(honest, figure) /\ entry' = entry
    BY <1>3 DEF NextRun, LastRun
  <2>2. figure \in Figures
    BY DEF TypeOK, Figures
  <2>3. honest' \in Seq(Figures) /\ honest' # << >>
    BY <2>1, <2>2, AppendProperties
  <2>4. QED BY <2>1, <2>3
<1>4. CASE UNCHANGED entryVars
  BY <1>4 DEF entryVars
<1>5. QED BY <1>1, <1>2, <1>3, <1>4 DEF EntryNext

LEMMA EntryStarts == EntryInit => Init /\ entry \in Entries /\ honest = << >> /\ stage = "check"
  BY DEF EntryInit

LEMMA AlwaysEntryInv == (MeasuresTyped /\ ScoresTyped) => (EntrySpec => []EntryInv)
<1>1. SUFFICES ASSUME MeasuresTyped, ScoresTyped PROVE EntrySpec => []EntryInv
  OBVIOUS
<1>2. EntryInit => EntryInv
  BY EntryStarts, TypeInit DEF EntryInv
<1>3. Init' => TypeOK'
  BY TypeInit, PTL
<1>4. EntryInv /\ [EntryNext]_entryVars => EntryInv'
  BY <1>1, <1>3, EntrySteps, TypeNext, EntryInvNext DEF EntryInv
<1>5. QED BY <1>2, <1>4, PTL DEF EntrySpec

(* The types hold for all the runs of an entry.                             *)
THEOREM EntryTyped == (MeasuresTyped /\ ScoresTyped) => (EntrySpec => []TypeOK)
<1>1. EntryInv => TypeOK
  BY DEF EntryInv
<1>2. QED BY <1>1, AlwaysEntryInv, PTL

(* Of every run of an entry, however many there are, the padding is minimal,*)
(* the standard one at least the consensus one, and the figure is backed by *)
(* a transaction.                                                           *)
THEOREM EntryGrades ==
  (MeasuresTyped /\ ScoresTyped /\ UseGrows /\ StandardIsStricter /\ BudgetIsEnforced)
      => (EntrySpec => [](PaddingIsLeast /\ StandardPadsMore /\ FigureIsMeasured /\ NeedIsLeast))
<1>1. SUFFICES ASSUME MeasuresTyped, ScoresTyped, UseGrows, StandardIsStricter, BudgetIsEnforced
               PROVE  EntrySpec => [](PaddingIsLeast /\ StandardPadsMore /\ FigureIsMeasured
                                      /\ NeedIsLeast)
  OBVIOUS
<1>2. Init => FigureInv
  BY FigureInit
<1>3. Init' => FigureInv'
  BY <1>2, PTL
<1>4. EntryInv /\ FigureInv /\ [EntryNext]_entryVars => FigureInv'
  BY <1>1, <1>3, EntrySteps, FigureNext DEF EntryInv
<1>5. FigureInv => PaddingIsLeast /\ StandardPadsMore /\ FigureIsMeasured /\ NeedIsLeast
  BY <1>1, LeastInvIsLeast, PaddedInvPadsMore, LeastInvNeeds DEF FigureInv, PaddedInv
<1>6. EntrySpec => []EntryInv
  BY <1>1, AlwaysEntryInv
<1>7. EntryInit => FigureInv
  BY <1>2, EntryStarts
<1>8. QED BY <1>4, <1>5, <1>6, <1>7, PTL DEF EntrySpec

-----------------------------------------------------------------------------
(* The summary                                                              *)

LEMMA CostType ==
  ASSUME honest \in Seq(Figures), NEW k \in DOMAIN honest
  PROVE  Cost(k) \in Int
<1> DEFINE score == honest[k].score
<1>1. k \in 1 .. Len(honest)
  BY LenProperties
<1>2. honest[k] \in Figures
  BY <1>1, ElementOfSeq
<1>3. score \in Int
  BY <1>2 DEF Figures
<1> HIDE DEF score
<1>4. Max({0, score}) \in {0, score}
  <2>1. 0 \in Int
    OBVIOUS
  <2>2. QED
    BY <1>3, <2>1, MaxOfTwo, Zenon
<1>5. QED BY <1>3, <1>4 DEF Cost, score

(* worst, worstPadded: one of the runs, and none of them costs more.        *)
LEMMA LargestCostsMost ==
  ASSUME honest \in Seq(Figures), NEW S \in SUBSET DOMAIN honest, S # {}
  PROVE  Largest(S) \in S /\ \A j \in S : Cost(j) <= Cost(Largest(S))
<1> DEFINE f == [k \in S |-> Cost(k)]
           M == {k \in S : \A j \in S : Cost(j) <= Cost(k)}
<1>1. DOMAIN honest = 1 .. Len(honest) /\ Len(honest) \in Nat
  BY LenProperties
<1>2. IsFiniteSet(1 .. Len(honest))
  BY <1>1, FS_Interval
<1>3. IsFiniteSet(S) /\ S \subseteq Int
  BY <1>1, <1>2, FS_Subset
<1>4. \A k \in S : f[k] = Cost(k) /\ f[k] \in Int
  BY CostType
<1>5. PICK k \in S : \A j \in S : f[j] <= f[k]
  <2> HIDE DEF f
  <2>1. QED BY <1>3, <1>4, Greatest
<1>6. k \in M
  BY <1>4, <1>5
<1>7. Min(M) \in M
  <2>1. M \subseteq S
    OBVIOUS
  <2> HIDE DEF M
  <2>2. IsFiniteSet(M) /\ M \subseteq Int /\ M # {}
    BY <1>3, <1>6, <2>1, FS_Subset
  <2>3. QED BY <2>2, MinIsLeast
<1>8. QED BY <1>7 DEF Largest

LEMMA SummaryIsFair ==
  ASSUME honest \in Seq(Figures), honest # << >>
  PROVE  LET shown == {1, Summary.worst, Summary.worstPadded} \ {0}
         IN  /\ Status("invalid") # {} => shown \cap Status("invalid") # {}
             /\ Status("invalid") = {} =>
                  \A k \in DOMAIN honest : \E x \in shown : Cost(k) <= Cost(x)
             /\ \A k \in NeedsPadding : \E x \in shown \cap NeedsPadding : Cost(k) <= Cost(x)
             /\ IF Summary.standard THEN NotStandard = {} ELSE Summary.nonStandard \in NotStandard
<1> DEFINE D     == DOMAIN honest
           P     == NeedsPadding
           shown == {1, Summary.worst, Summary.worstPadded} \ {0}
<1>1. D = 1 .. Len(honest) /\ Len(honest) \in Nat /\ Len(honest) # 0
  BY LenProperties, EmptySeq
<1>2. D # {} /\ D \subseteq Int /\ IsFiniteSet(D) /\ 0 \notin D
  <2>1. IsFiniteSet(1 .. Len(honest))
    BY <1>1, FS_Interval
  <2>2. 1 \in 1 .. Len(honest) /\ 1 .. Len(honest) \subseteq Int /\ 0 \notin 1 .. Len(honest)
    BY <1>1
  <2>3. QED
    BY <1>1, <2>1, <2>2, Zenon
<1>3. ASSUME NEW S \in SUBSET D, S # {} PROVE Min(S) \in S
  <2>1. IsFiniteSet(S) /\ S \subseteq Int
    BY <1>2, FS_Subset
  <2>2. QED BY <1>3, <2>1, MinIsLeast
<1>4. /\ Status("invalid") \subseteq D /\ NotStandard \subseteq D /\ P \subseteq D
  BY DEF Status, NotStandard, NeedsPadding
<1>5. /\ Status("invalid") # {} => Worst \in Status("invalid")
      /\ Status("invalid") = {} => Worst \in D /\ \A k \in D : Cost(k) <= Cost(Worst)
  <2>1. CASE Status("invalid") # {}
    <3> DEFINE S == Status("invalid")
    <3>1. S \in SUBSET D /\ S # {}
      BY <1>4, <2>1
    <3> HIDE DEF S
    <3>2. Min(S) \in S
      BY <1>3, <3>1
    <3>3. QED BY <2>1, <3>2 DEF Worst, S
  <2>2. CASE Status("invalid") = {}
    <3>1. Worst = Largest(D)
      BY <2>2 DEF Worst
    <3>2. QED BY <1>2, <2>2, <3>1, LargestCostsMost
  <2>3. QED BY <2>1, <2>2
<1>6. Worst \in D
  BY <1>4, <1>5
<1>7. Worst \in shown
  <2>1. Summary.worst = IF Worst = 1 THEN 0 ELSE Worst
    BY DEF Summary
  <2>2. QED BY <1>2, <1>6, <2>1
<1>8. P # {} => Largest(P) \in shown /\ Largest(P) \in P /\ \A k \in P : Cost(k) <= Cost(Largest(P))
  <2>1. SUFFICES ASSUME P # {}
                 PROVE  Largest(P) \in shown /\ Largest(P) \in P /\ \A k \in P : Cost(k) <= Cost(Largest(P))
    OBVIOUS
  <2>2. Largest(P) \in P /\ \A k \in P : Cost(k) <= Cost(Largest(P))
    BY <1>4, <2>1, LargestCostsMost
  <2>3. Summary.worstPadded = IF Largest(P) \in {Worst, 1} THEN 0 ELSE Largest(P)
    BY DEF Summary
  <2>4. Largest(P) # 0
    BY <1>2, <1>4, <2>2
  <2>5. Largest(P) \in shown
    <3> HIDE DEF P
    <3>1. CASE Largest(P) \in {Worst, 1}
      BY <1>7, <3>1
    <3>2. CASE Largest(P) \notin {Worst, 1}
      BY <2>3, <2>4, <3>2
    <3>3. QED BY <3>1, <3>2
  <2>6. QED BY <2>2, <2>5
<1>9. IF NonStandard = 0 THEN NotStandard = {} ELSE NonStandard \in NotStandard
  <2>1. CASE Worst \in NotStandard
    BY <1>2, <1>6, <2>1 DEF NonStandard
  <2>2. CASE Worst \notin NotStandard /\ NotStandard = {}
    BY <2>2 DEF NonStandard
  <2>3. CASE Worst \notin NotStandard /\ NotStandard # {}
    <3> DEFINE S == NotStandard
    <3>1. S \in SUBSET D /\ S # {}
      BY <1>4, <2>3
    <3>2. NonStandard = Min(S)
      BY <2>3 DEF NonStandard
    <3> HIDE DEF S
    <3>3. Min(S) \in S /\ Min(S) # 0
      BY <1>2, <1>3, <3>1
    <3>4. QED BY <3>2, <3>3 DEF S
  <2>4. QED BY <2>1, <2>2, <2>3
<1>10. Summary.standard = (NonStandard = 0) /\ Summary.nonStandard = NonStandard
  BY DEF Summary
<1> HIDE DEF shown, P, D
<1>11. QED
  <2>1. Status("invalid") # {} => shown \cap Status("invalid") # {}
    BY <1>5, <1>7
  <2>2. Status("invalid") = {} => \A k \in D : \E x \in shown : Cost(k) <= Cost(x)
    BY <1>5, <1>7
  <2>3. \A k \in P : \E x \in shown \cap P : Cost(k) <= Cost(x)
    BY <1>8
  <2>4. IF Summary.standard THEN NotStandard = {} ELSE Summary.nonStandard \in NotStandard
    BY <1>9, <1>10
  <2>5. QED BY <2>1, <2>2, <2>3, <2>4 DEF shown, P, D

(* Whatever figures an entry ends with, an invalid run is shown if there is *)
(* one, no run costs more than one shown, none that needs padding more than *)
(* one shown that needs it too, and a run that is not relayable is named.   *)
THEOREM WorstIsShown == (MeasuresTyped /\ ScoresTyped) => (EntrySpec => []SummaryShowsTheWorst)
<1>1. EntryInv => SummaryShowsTheWorst
  BY SummaryIsFair DEF EntryInv, SummaryShowsTheWorst
<1>2. QED BY <1>1, AlwaysEntryInv, PTL
=============================================================================
