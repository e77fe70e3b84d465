--------------------------- MODULE ScenarioProofs ---------------------------
(***************************************************************************)
(* Lemmas about runs and the contract (ScenarioContract), for runs of any  *)
(* length, any scripts, tokens and locators: what a well shaped run is     *)
(* evaluated as, what runs of one program have in common, and when two     *)
(* runs have one fingerprint.                                              *)
(***************************************************************************)
EXTENDS ScenarioContract, SumProofs, SequenceTheorems, FiniteSetTheorems, TLAPS

IsList(s) == Len(s) \in Nat /\ DOMAIN s = 1 .. Len(s)

LEMMA FunctionIsList ==
  ASSUME NEW n \in Nat, NEW S, NEW f \in [1 .. n -> S]
  PROVE  IsList(f) /\ Len(f) = n
<1>1. f \in Seq(S)
  BY SeqDef
<1>2. Len(f) \in Nat /\ DOMAIN f = 1 .. Len(f) /\ DOMAIN f = 1 .. n
  BY <1>1, LenProperties
<1>3. Len(f) = n
  <2>1. ~(n < Len(f))
    <3>1. SUFFICES ASSUME n < Len(f) PROVE FALSE
      OBVIOUS
    <3>2. n + 1 \in 1 .. Len(f) /\ n + 1 \notin 1 .. n
      BY <1>2, <3>1
    <3>3. QED
      BY <1>2, <3>2
  <2>2. ~(Len(f) < n)
    <3>1. SUFFICES ASSUME Len(f) < n PROVE FALSE
      OBVIOUS
    <3>2. n \in 1 .. n /\ n \notin 1 .. Len(f)
      BY <1>2, <3>1
    <3>3. QED
      BY <1>2, <3>2
  <2>3. QED
    BY <1>2, <2>1, <2>2
<1>4. QED
  BY <1>2, <1>3 DEF IsList

LEMMA RunFromSteps ==
  ASSUME NEW v, IsList(v), NEW r, r = [i \in DOMAIN v |-> r[i]]
  PROVE  IsList(r) /\ Len(r) = Len(v) /\ DOMAIN r = DOMAIN v
<1>1. r \in [1 .. Len(v) -> {r[i] : i \in DOMAIN v}] /\ Len(v) \in Nat
  BY DEF IsList
<1>2. QED
  BY <1>1, FunctionIsList DEF IsList

(* The types of the interfaces, arrays included.                            *)
TypedStep(s) ==
    /\ IsStep(s)
    /\ s.intraTx # None => IsList(s.intraTx.inputs)
    /\ s.grouped # None => /\ IsList(s.grouped.inputs)
                           /\ s.grouped.inputTokens # None => IsList(s.grouped.inputTokens)

TypedRun(r) == IsList(r) /\ \A i \in DOMAIN r : TypedStep(r[i])

(* A token is not an absent field.                                          *)
TokensAreThere == \A a, b, c : Token(a, b, c) # None

-----------------------------------------------------------------------------
(* One program                                                              *)

LEMMA KindOfContext ==
  ASSUME NEW s, OneContext(s), NEW k \in ContextKinds, s[k] # None
  PROVE  ContextKind(s) = k /\ \A j \in ContextKinds : j # k => s[j] = None
<1>1. k \in Contexts(s)
  BY DEF Contexts
<1>2. \A j \in Contexts(s) : j = k
  BY <1>1 DEF OneContext
<1>3. QED
  BY <1>1, <1>2 DEF ContextKind, Contexts

LEMMA KindIsBare ==
  ASSUME NEW s, \A k \in ContextKinds : s[k] = None
  PROVE  ContextKind(s) = "bare"
BY DEF ContextKind, Contexts

LEMMA TokenShapes ==
  ASSUME TokensAreThere, NEW g, NEW h, g.category = h.category,
         NEW t, NEW u, SameTokenShape(t, u)
  PROVE  TokenSkeleton(GroupToken(g, t)) = TokenSkeleton(GroupToken(h, u))
<1>1. CASE t = None
  BY <1>1 DEF SameTokenShape, GroupToken
<1>2. CASE t # None
  <2>1. u # None /\ t.capability = u.capability
    BY <1>2 DEF SameTokenShape
  <2>2. /\ GroupToken(g, t) = Token(g.category, t.capability, t.commitment)
        /\ GroupToken(h, u) = Token(h.category, u.capability, u.commitment)
    BY <1>2, <2>1 DEF GroupToken
  <2>3. GroupToken(g, t) # None /\ GroupToken(h, u) # None
    BY <2>2 DEF TokensAreThere
  <2>4. /\ TokenSkeleton(GroupToken(g, t)) = << g.category, t.capability >>
        /\ TokenSkeleton(GroupToken(h, u)) = << h.category, u.capability >>
    BY <2>2, <2>3 DEF TokenSkeleton, Token
  <2>5. QED
    BY <2>1, <2>4
<1>3. QED
  BY <1>1, <1>2

LEMMA SpentShapes ==
  ASSUME NEW g, NEW h, SameGroupedProgram(g, h),
         g.inputTokens # None => DOMAIN g.inputTokens = DOMAIN g.inputs,
         NEW k \in DOMAIN g.inputs
  PROVE  SameTokenShape(SpentToken(g, k), SpentToken(h, k))
<1>1. SameTokenShape(g.inToken, h.inToken) /\ SameTokenShape(None, None)
  BY DEF SameGroupedProgram, SameTokenShape
<1>2. CASE g.inputTokens = None
  <2>1. h.inputTokens = None
    BY <1>2 DEF SameGroupedProgram
  <2>2. QED
    BY <1>1, <1>2, <2>1 DEF SpentToken, Given
<1>3. CASE g.inputTokens # None
  <2>1. h.inputTokens # None /\ SameTokenShape(g.inputTokens[k], h.inputTokens[k])
    BY <1>3 DEF SameGroupedProgram
  <2>2. (g.inputTokens[k] = None) = (h.inputTokens[k] = None)
    BY <2>1 DEF SameTokenShape
  <2>3. QED
    BY <1>1, <1>3, <2>1, <2>2 DEF SpentToken, Given
<1>4. QED
  BY <1>2, <1>3

LEMMA GroupedSkeleton ==
  ASSUME TokensAreThere, NEW g, NEW h, SameGroupedProgram(g, h),
         IsList(g.inputs), IsList(h.inputs),
         g.inputTokens # None => DOMAIN g.inputTokens = DOMAIN g.inputs
  PROVE  Skeleton(GroupedProgram(g)) = Skeleton(GroupedProgram(h))
<1> DEFINE p == GroupedProgram(g)
           q == GroupedProgram(h)
<1>1. g.index = h.index /\ g.category = h.category /\ g.outLock = h.outLock
      /\ SameTokenShape(g.outToken, h.outToken) /\ SameLockings(g.inputs, h.inputs)
  BY DEF SameGroupedProgram
<1>2. DOMAIN g.inputs = DOMAIN h.inputs /\ \A k \in DOMAIN g.inputs : g.inputs[k].lock = h.inputs[k].lock
  BY <1>1 DEF SameLockings, IsList
<1>3. \A k \in DOMAIN g.inputs :
        TokenSkeleton(GroupToken(g, SpentToken(g, k))) = TokenSkeleton(GroupToken(h, SpentToken(h, k)))
  BY <1>1, SpentShapes, TokenShapes
<1>4. [k \in DOMAIN p.inputs |-> << p.inputs[k].lock, TokenSkeleton(p.inputs[k].token) >>]
        = [k \in DOMAIN g.inputs |-> << g.inputs[k].lock, TokenSkeleton(GroupToken(g, SpentToken(g, k))) >>]
  BY DEF GroupedProgram, InputOf
<1>5. [k \in DOMAIN q.inputs |-> << q.inputs[k].lock, TokenSkeleton(q.inputs[k].token) >>]
        = [k \in DOMAIN h.inputs |-> << h.inputs[k].lock, TokenSkeleton(GroupToken(h, SpentToken(h, k))) >>]
  BY DEF GroupedProgram, InputOf
<1>6. [k \in DOMAIN p.inputs |-> << p.inputs[k].lock, TokenSkeleton(p.inputs[k].token) >>]
        = [k \in DOMAIN q.inputs |-> << q.inputs[k].lock, TokenSkeleton(q.inputs[k].token) >>]
  BY <1>2, <1>3, <1>4, <1>5
<1>7. (g.outToken = None) = (h.outToken = None)
  BY <1>1 DEF SameTokenShape
<1>8. p.outputs[1].lock = q.outputs[1].lock
  BY <1>1, <1>7 DEF GroupedProgram, OutputOf, Given
<1>9. TokenSkeleton(p.outputs[1].token) = TokenSkeleton(q.outputs[1].token)
  <2>1. TokenSkeleton(GroupToken(g, g.outToken)) = TokenSkeleton(GroupToken(h, h.outToken))
    BY <1>1, TokenShapes
  <2>2. QED
    BY <2>1 DEF GroupedProgram, OutputOf
<1>10. DOMAIN p.outputs = {1} /\ DOMAIN q.outputs = {1}
  BY DEF GroupedProgram
<1>11. p.index = q.index
  BY <1>1 DEF GroupedProgram
<1> HIDE DEF p, q
<1>12. QED
  BY <1>6, <1>8, <1>9, <1>10, <1>11 DEF Skeleton, p, q

LEMMA StepSkeleton ==
  ASSUME TokensAreThere, NEW s, NEW t, SameStepProgram(s, t), TypedStep(s), TypedStep(t),
         OneContext(s), OneContext(t),
         s.grouped # None /\ s.grouped.inputTokens # None => DOMAIN s.grouped.inputTokens = DOMAIN s.grouped.inputs
  PROVE  Skeleton(Program(s)) = Skeleton(Program(t))
<1>1. s.lock = t.lock /\ ContextKind(s) = ContextKind(t)
  BY DEF SameStepProgram
<1>2. \A k \in ContextKinds : s[k] # None => t[k] # None
  <2>1. SUFFICES ASSUME NEW k \in ContextKinds, s[k] # None, t[k] = None PROVE FALSE
    OBVIOUS
  <2>2. ContextKind(t) = k
    BY <1>1, <2>1, KindOfContext
  <2>3. CASE \A j \in ContextKinds : t[j] = None
    BY <2>2, <2>3, KindIsBare DEF ContextKinds
  <2>4. CASE \E j \in ContextKinds : t[j] # None
    <3>1. PICK j \in ContextKinds : t[j] # None
      BY <2>4
    <3>2. QED
      BY <2>1, <2>2, <3>1, KindOfContext
  <2>5. QED
    BY <2>3, <2>4
<1>3. \A k \in ContextKinds : t[k] # None => s[k] # None
  <2>1. SUFFICES ASSUME NEW k \in ContextKinds, t[k] # None, s[k] = None PROVE FALSE
    OBVIOUS
  <2>2. ContextKind(s) = k
    BY <1>1, <2>1, KindOfContext
  <2>3. CASE \A j \in ContextKinds : s[j] = None
    BY <2>2, <2>3, KindIsBare DEF ContextKinds
  <2>4. CASE \E j \in ContextKinds : s[j] # None
    <3>1. PICK j \in ContextKinds : s[j] # None
      BY <2>4
    <3>2. QED
      BY <2>1, <2>2, <3>1, KindOfContext
  <2>5. QED
    BY <2>3, <2>4
<1>4. /\ s["grouped"] = s.grouped /\ s["intraTx"] = s.intraTx /\ s["covenant"] = s.covenant
      /\ t["grouped"] = t.grouped /\ t["intraTx"] = t.intraTx /\ t["covenant"] = t.covenant
  OBVIOUS
<1>5. CASE s.grouped # None
  <2>1. t.grouped # None /\ SameGroupedProgram(s.grouped, t.grouped)
    BY <1>2, <1>4, <1>5 DEF SameStepProgram, ContextKinds
  <2>2. IsList(s.grouped.inputs) /\ IsList(t.grouped.inputs)
    BY <1>5, <2>1 DEF TypedStep
  <2>3. Program(s) = GroupedProgram(s.grouped) /\ Program(t) = GroupedProgram(t.grouped)
    BY <1>5, <2>1 DEF Program
  <2>4. QED
    BY <1>5, <2>1, <2>2, <2>3, GroupedSkeleton
<1>6. CASE s.intraTx # None
  <2>1. /\ t.intraTx # None /\ s.grouped = None /\ t.grouped = None
        /\ s.intraTx.index = t.intraTx.index /\ SameLockings(s.intraTx.inputs, t.intraTx.inputs)
    BY <1>2, <1>3, <1>4, <1>6, KindOfContext DEF SameStepProgram, ContextKinds
  <2>2. DOMAIN s.intraTx.inputs = DOMAIN t.intraTx.inputs
    BY <1>6, <2>1 DEF TypedStep, IsList, SameLockings
  <2>3. Program(s) = IntraTxProgram(s.intraTx) /\ Program(t) = IntraTxProgram(t.intraTx)
    BY <1>6, <2>1 DEF Program
  <2>4. Skeleton(IntraTxProgram(s.intraTx)) = Skeleton(IntraTxProgram(t.intraTx))
    BY <2>1, <2>2 DEF Skeleton, IntraTxProgram, InputOf, SameLockings
  <2>5. QED
    BY <2>3, <2>4
<1>7. CASE s.covenant # None
  <2>1. /\ t.covenant # None /\ s.grouped = None /\ t.grouped = None /\ s.intraTx = None /\ t.intraTx = None
        /\ SameCovenantProgram(s.covenant, t.covenant)
    BY <1>2, <1>3, <1>4, <1>7, KindOfContext DEF SameStepProgram, ContextKinds
  <2>2. Program(s) = CovenantProgram(s) /\ Program(t) = CovenantProgram(t)
    BY <1>7, <2>1 DEF Program
  <2>3. \A a, b, c : TokenSkeleton(Token(a, b, c)) = << a, b >>
    BY DEF TokensAreThere, TokenSkeleton, Token
  <2>4. Skeleton(CovenantProgram(s)) = Skeleton(CovenantProgram(t))
    <3> DEFINE c == s.covenant
               d == t.covenant
    <3>1. c.category = d.category /\ c.capability = d.capability /\ c.inputCapability = d.inputCapability
          /\ c.baton = d.baton /\ c.outLock = d.outLock
      BY <2>1 DEF SameCovenantProgram
    <3>2. Given(c.inputCapability, c.capability) = Given(d.inputCapability, d.capability)
      BY <3>1
    <3> DEFINE p == CovenantProgram(s)
               q == CovenantProgram(t)
    <3>3. /\ DOMAIN p.outputs = DOMAIN q.outputs
          /\ \A k \in DOMAIN p.outputs :
               /\ p.outputs[k].lock = q.outputs[k].lock
               /\ TokenSkeleton(p.outputs[k].token) = TokenSkeleton(q.outputs[k].token)
      <4>1. CASE c.baton
        <5>1. /\ DOMAIN p.outputs = {1, 2} /\ DOMAIN q.outputs = {1, 2}
              /\ p.outputs[1] = OutputOf(c.outLock, Token(c.category, c.capability, c.outCommitment))
              /\ q.outputs[1] = OutputOf(d.outLock, Token(d.category, d.capability, d.outCommitment))
              /\ p.outputs[2] = OutputOf(s.lock, Token(c.category, "minting", EmptyBytes))
              /\ q.outputs[2] = OutputOf(t.lock, Token(d.category, "minting", EmptyBytes))
          BY <3>1, <4>1 DEF CovenantProgram
        <5> HIDE DEF p, q, c, d
        <5>2. QED
          BY <1>1, <2>3, <3>1, <5>1 DEF OutputOf
      <4>2. CASE ~c.baton
        <5>1. /\ DOMAIN p.outputs = {1} /\ DOMAIN q.outputs = {1}
              /\ p.outputs[1] = OutputOf(c.outLock, Token(c.category, c.capability, c.outCommitment))
              /\ q.outputs[1] = OutputOf(d.outLock, Token(d.category, d.capability, d.outCommitment))
          BY <3>1, <4>2 DEF CovenantProgram
        <5> HIDE DEF p, q, c, d
        <5>2. QED
          BY <2>3, <3>1, <5>1 DEF OutputOf
      <4>3. QED
        BY <4>1, <4>2
    <3>4. /\ DOMAIN p.inputs = DOMAIN q.inputs /\ p.index = q.index
          /\ \A k \in DOMAIN p.inputs :
               /\ p.inputs[k].lock = q.inputs[k].lock
               /\ TokenSkeleton(p.inputs[k].token) = TokenSkeleton(q.inputs[k].token)
      <4>1. /\ DOMAIN p.inputs = {1} /\ DOMAIN q.inputs = {1} /\ p.index = 1 /\ q.index = 1
            /\ p.inputs[1] = InputOf(s, Token(c.category, Given(c.inputCapability, c.capability), c.inCommitment))
            /\ q.inputs[1] = InputOf(t, Token(d.category, Given(d.inputCapability, d.capability), d.inCommitment))
        BY DEF CovenantProgram
      <4> HIDE DEF p, q, c, d
      <4>2. QED
        BY <1>1, <2>3, <3>1, <3>2, <4>1 DEF InputOf
    <3> HIDE DEF p, q
    <3>5. QED
      BY <3>3, <3>4 DEF Skeleton, p, q
  <2>5. QED
    BY <2>2, <2>4
<1>8. CASE s.grouped = None /\ s.intraTx = None /\ s.covenant = None
  <2>1. t.grouped = None /\ t.intraTx = None /\ t.covenant = None
    BY <1>3, <1>4, <1>8 DEF ContextKinds
  <2>2. Program(s) = BareProgram(s) /\ Program(t) = BareProgram(t)
    BY <1>8, <2>1 DEF Program
  <2>3. QED
    BY <1>1, <2>2 DEF Skeleton, BareProgram, InputOf, OutputOf
<1>9. QED
  BY <1>5, <1>6, <1>7, <1>8

LEMMA TokensOfInputs ==
  ASSUME NEW r, TypedRun(r), RunShape(r), NEW i \in DOMAIN r,
         r[i].grouped # None, r[i].grouped.inputTokens # None
  PROVE  DOMAIN r[i].grouped.inputTokens = DOMAIN r[i].grouped.inputs
<1>1. OneContext(r[i]) /\ ContextKind(r[i]) = ContextKind(r[1])
  BY DEF RunShape
<1>2. r[i]["grouped"] # None /\ "grouped" \in ContextKinds
  BY DEF ContextKinds
<1>3. ContextKind(r[1]) = "grouped"
  BY <1>1, <1>2, KindOfContext
<1>4. Len(r[i].grouped.inputTokens) = Len(r[i].grouped.inputs)
  BY <1>3 DEF RunShape, GroupedShape
<1>5. QED
  BY <1>4 DEF TypedRun, TypedStep, IsList

LEMMA SameProgramSkeletons ==
  ASSUME TokensAreThere, NEW primary, NEW r, TypedRun(primary), TypedRun(r), SameProgramRun(primary, r)
  PROVE  /\ Len(r) = Len(primary)
         /\ \A i \in DOMAIN r : Skeleton(Program(r[i])) = Skeleton(Program(primary[i]))
<1>1. Len(r) = Len(primary) /\ RunShape(primary) /\ RunShape(r) /\ DOMAIN primary = DOMAIN r
  BY DEF SameProgramRun, TypedRun, IsList
<1>2. SUFFICES ASSUME NEW i \in DOMAIN r
      PROVE  Skeleton(Program(r[i])) = Skeleton(Program(primary[i]))
  BY <1>1
<1>3. SameStepProgram(primary[i], r[i])
  BY DEF SameProgramRun
<1>4. OneContext(primary[i]) /\ OneContext(r[i]) /\ TypedStep(primary[i]) /\ TypedStep(r[i])
  BY <1>1 DEF RunShape, TypedRun
<1>5. primary[i].grouped # None /\ primary[i].grouped.inputTokens # None =>
        DOMAIN primary[i].grouped.inputTokens = DOMAIN primary[i].grouped.inputs
  BY <1>1, TokensOfInputs
<1>6. QED
  BY <1>3, <1>4, <1>5, StepSkeleton

-----------------------------------------------------------------------------
(* Transactions                                                             *)

(* The kind of a run is the kind of its steps.                              *)
LEMMA ContextsOfSteps ==
  ASSUME NEW r, RunShape(r), 1 \in DOMAIN r, NEW i \in DOMAIN r
  PROVE  \A k \in ContextKinds : (r[i][k] # None) <=> (r[1][k] # None)
<1>1. /\ OneContext(r[i]) /\ OneContext(r[1]) /\ ContextKind(r[i]) = ContextKind(r[1])
  BY DEF RunShape
<1>2. SUFFICES ASSUME NEW k \in ContextKinds PROVE (r[i][k] # None) <=> (r[1][k] # None)
  OBVIOUS
<1>3. k # "bare"
  BY <1>2 DEF ContextKinds
<1>4. ASSUME r[i][k] # None PROVE r[1][k] # None
  <2>1. ContextKind(r[1]) = k
    BY <1>1, <1>2, <1>4, KindOfContext
  <2>2. Contexts(r[1]) # {} /\ k \in Contexts(r[1])
    BY <1>1, <1>3, <2>1 DEF ContextKind
  <2>3. QED
    BY <2>2 DEF Contexts
<1>5. ASSUME r[1][k] # None PROVE r[i][k] # None
  <2>1. ContextKind(r[i]) = k
    BY <1>1, <1>2, <1>5, KindOfContext
  <2>2. Contexts(r[i]) # {} /\ k \in Contexts(r[i])
    BY <1>1, <1>3, <2>1 DEF ContextKind
  <2>3. QED
    BY <2>2 DEF Contexts
<1>6. QED
  BY <1>4, <1>5

(* A run whose steps have one context each, of one kind, has a shape.       *)
LEMMA ShapeOfKind ==
  ASSUME NEW r, IsList(r), Len(r) > 0, NEW kind \in ContextKinds,
         \A i \in DOMAIN r : \A k \in ContextKinds : r[i][k] # None <=> k = kind,
         kind = "intraTx" => IntraTxShape(r), kind = "grouped" => GroupedShape(r)
  PROVE  RunShape(r) /\ \A i \in DOMAIN r : ContextKind(r[i]) = kind
<1>1. \A i \in DOMAIN r : Contexts(r[i]) = {kind}
  BY DEF Contexts
<1>2. \A i \in DOMAIN r : OneContext(r[i]) /\ ContextKind(r[i]) = kind
  BY <1>1 DEF OneContext, ContextKind
<1>3. 1 \in DOMAIN r /\ r # << >>
  BY DEF IsList
<1>4. QED
  BY <1>2, <1>3 DEF RunShape

LEMMA FirstIsLeast ==
  ASSUME NEW r, IsList(r), NEW i \in DOMAIN r, NEW n, n = r[i].grouped.group
  PROVE  /\ IsFiniteSet(Members(r, n))
         /\ First(r, n) \in Members(r, n)
         /\ \A j \in Members(r, n) : First(r, n) <= j
<1> DEFINE S == Members(r, n)
<1>1. S \subseteq 1 .. Len(r) /\ i \in S /\ Len(r) \in Nat
  BY DEF Members, IsList
<1> HIDE DEF S
<1>2. IsFiniteSet(1 .. Len(r))
  BY <1>1, FS_Interval
<1>3. IsFiniteSet(S) /\ S \subseteq Int
  BY <1>1, <1>2, FS_Subset
<1>4. \E f \in S : \A j \in S : f <= j
  BY <1>1, <1>3, Least
<1>5. QED
  BY <1>3, <1>4 DEF First, S

LEMMA GroupsAreTransactions ==
  ASSUME NEW r, TypedRun(r), GroupedShape(r),
         \A i \in DOMAIN r : r[i].grouped # None,
         NEW i \in DOMAIN r
  PROVE  /\ Program(r[i]).index \in DOMAIN Program(r[i]).inputs
         /\ SameInput(EvaluatedInput(r[i]), r[i])
         /\ \A j \in Mates(r, i) : Transaction(r[j]) = Transaction(r[i])
         /\ {Program(r[j]).index : j \in Mates(r, i)} = DOMAIN Program(r[i]).inputs
         /\ \A j \in Mates(r, i) : j # i => Program(r[j]).index # Program(r[i]).index
<1> DEFINE n == r[i].grouped.group
           M == Members(r, n)
           f == First(r, n)
           c == Cardinality(M)
           g(j) == r[j].grouped
<1>1. Mates(r, i) = M /\ i \in M
  BY DEF Mates, Members
<1>2. M \subseteq DOMAIN r /\ DOMAIN r = 1 .. Len(r) /\ Len(r) \in Nat
  BY DEF Members, TypedRun, IsList
<1>3. IsFiniteSet(M) /\ f \in M
  BY FirstIsLeast DEF TypedRun
<1>4. f \in Int /\ c \in Nat
  BY <1>2, <1>3, FS_CardinalityType
<1>5. M = f .. (f + c - 1)
  <2>1. n \in {r[k].grouped.group : k \in DOMAIN r}
    OBVIOUS
  <2> HIDE DEF n
  <2>2. Members(r, n) = First(r, n) .. (First(r, n) + Cardinality(Members(r, n)) - 1)
    BY <2>1 DEF GroupedShape
  <2>3. QED
    BY <2>2
<1>6. ASSUME NEW j \in M
      PROVE  /\ g(j).index = j - f + 1
             /\ Len(g(j).inputs) = c
             /\ \A k \in DOMAIN g(j).inputs : SameInput(g(j).inputs[k], r[f + k - 1])
             /\ SameGroupContext(g(j), g(f))
  <2>1. j \in DOMAIN r /\ g(j).group = n
    BY <1>6 DEF Members
  <2>2. LET first == First(r, r[j].grouped.group)
        IN  /\ r[j].grouped.index = j - first + 1
            /\ Len(r[j].grouped.inputs) = Cardinality(Members(r, r[j].grouped.group))
            /\ \A k \in DOMAIN r[j].grouped.inputs : SameInput(r[j].grouped.inputs[k], r[first + k - 1])
            /\ SameGroupContext(r[j].grouped, r[first].grouped)
    BY <2>1 DEF GroupedShape
  <2>3. r[j].grouped.group = n
    BY <2>1
  <2> HIDE DEF n
  <2>4. QED
    BY <2>2, <2>3
<1>7. \A j \in M : DOMAIN g(j).inputs = 1 .. c
  BY <1>2, <1>6 DEF TypedRun, TypedStep, IsList
<1>8. \A j \in M : Program(r[j]) = GroupedProgram(g(j))
  BY <1>2 DEF Program
<1>9. ASSUME NEW j \in M
      PROVE  /\ Program(r[j]).index = j - f + 1
             /\ DOMAIN Program(r[j]).inputs = 1 .. c
             /\ \A k \in 1 .. c :
                  Program(r[j]).inputs[k] = InputOf(g(j).inputs[k], GroupToken(g(j), SpentToken(g(j), k)))
  <2>1. GroupedProgram(g(j)).index = j - f + 1
    BY <1>6 DEF GroupedProgram
  <2>2. GroupedProgram(g(j)).inputs = [k \in 1 .. c |-> InputOf(g(j).inputs[k], GroupToken(g(j), SpentToken(g(j), k)))]
    BY <1>7 DEF GroupedProgram
  <2>3. Program(r[j]) = GroupedProgram(g(j))
    BY <1>8
  <2> HIDE DEF g, c, f, M
  <2>4. QED
    BY <2>1, <2>2, <2>3
<1>10. ASSUME NEW j \in M PROVE Transaction(r[j]) = Transaction(r[f])
  <2>1. /\ g(j).category = g(f).category /\ g(j).outToken = g(f).outToken
        /\ EffectiveOutputLocking(g(j)) = EffectiveOutputLocking(g(f))
        /\ \A k \in 1 .. c : SpentToken(g(j), k) = SpentToken(g(f), k)
    BY <1>6, <1>7 DEF SameGroupContext
  <2>2. \A t : GroupToken(g(j), t) = GroupToken(g(f), t)
    BY <2>1 DEF GroupToken
  <2>3. ASSUME NEW k \in 1 .. c
        PROVE  InputOf(g(j).inputs[k], GroupToken(g(j), SpentToken(g(j), k)))
               = InputOf(g(f).inputs[k], GroupToken(g(f), SpentToken(g(f), k)))
    <3>1. SameInput(g(j).inputs[k], r[f + k - 1]) /\ SameInput(g(f).inputs[k], r[f + k - 1])
      BY <1>3, <1>6, <1>7
    <3>2. GroupToken(g(j), SpentToken(g(j), k)) = GroupToken(g(f), SpentToken(g(f), k))
      BY <2>1, <2>2
    <3>3. QED
      BY <3>1, <3>2 DEF InputOf, SameInput
  <2>4. GroupedProgram(g(j)).inputs = [k \in 1 .. c |-> InputOf(g(j).inputs[k], GroupToken(g(j), SpentToken(g(j), k)))]
    BY <1>7 DEF GroupedProgram
  <2>5. GroupedProgram(g(f)).inputs = [k \in 1 .. c |-> InputOf(g(f).inputs[k], GroupToken(g(f), SpentToken(g(f), k)))]
    BY <1>3, <1>7 DEF GroupedProgram
  <2>6. GroupedProgram(g(j)).outputs = GroupedProgram(g(f)).outputs
    BY <2>1, <2>2 DEF GroupedProgram, OutputOf, EffectiveOutputLocking
  <2>7. Program(r[j]) = GroupedProgram(g(j)) /\ Program(r[f]) = GroupedProgram(g(f))
    BY <1>3, <1>8
  <2> HIDE DEF g, c, f, M
  <2>8. GroupedProgram(g(j)).inputs = GroupedProgram(g(f)).inputs
    BY <2>3, <2>4, <2>5
  <2>9. QED
    BY <2>6, <2>7, <2>8 DEF Transaction
<1>11. SameInput(EvaluatedInput(r[i]), r[i])
  <2>1. i - f + 1 \in 1 .. c /\ f + (i - f + 1) - 1 = i
    BY <1>1, <1>2, <1>4, <1>5
  <2>2. Program(r[i]).index = i - f + 1
    BY <1>1, <1>9
  <2>3. Program(r[i]).inputs[i - f + 1]
          = InputOf(g(i).inputs[i - f + 1], GroupToken(g(i), SpentToken(g(i), i - f + 1)))
    BY <1>1, <1>9, <2>1
  <2>4. SameInput(g(i).inputs[i - f + 1], r[f + (i - f + 1) - 1])
    BY <1>1, <1>6, <1>7, <2>1
  <2>5. SameInput(g(i).inputs[i - f + 1], r[i])
    BY <2>1, <2>4
  <2> HIDE DEF g, c, f, M
  <2>6. QED
    BY <2>2, <2>3, <2>5 DEF SameInput, InputOf, EvaluatedInput
<1> HIDE DEF n, M, f, c, g
<1>12. Program(r[i]).index \in DOMAIN Program(r[i]).inputs
  BY <1>1, <1>2, <1>4, <1>5, <1>9
<1>13. {Program(r[j]).index : j \in M} = 1 .. c
  <2>1. \A k \in 1 .. c : f + k - 1 \in M /\ (f + k - 1) - f + 1 = k
    BY <1>4, <1>5
  <2>2. \A k \in 1 .. c : \E j \in M : Program(r[j]).index = k
    BY <1>9, <2>1
  <2>3. \A j \in M : Program(r[j]).index \in 1 .. c
    BY <1>4, <1>5, <1>9
  <2>4. QED
    BY <2>2, <2>3
<1>14. \A j \in M : j # i => Program(r[j]).index # Program(r[i]).index
  BY <1>1, <1>4, <1>5, <1>9
<1>15. QED
  BY <1>1, <1>9, <1>10, <1>11, <1>12, <1>13, <1>14

LEMMA IntraTxIsOneTransaction ==
  ASSUME NEW r, TypedRun(r), IntraTxShape(r),
         \A i \in DOMAIN r : r[i].intraTx # None /\ r[i].grouped = None,
         NEW i \in DOMAIN r
  PROVE  /\ Program(r[i]).index \in DOMAIN Program(r[i]).inputs
         /\ SameInput(EvaluatedInput(r[i]), r[i])
         /\ \A j \in Mates(r, i) : Transaction(r[j]) = Transaction(r[i])
         /\ {Program(r[j]).index : j \in Mates(r, i)} = DOMAIN Program(r[i]).inputs
         /\ \A j \in Mates(r, i) : j # i => Program(r[j]).index # Program(r[i]).index
<1>1. Mates(r, i) = DOMAIN r
  BY DEF Mates
<1>2. \A j \in DOMAIN r : /\ r[j].intraTx.index = j
                          /\ DOMAIN r[j].intraTx.inputs = DOMAIN r
                          /\ \A k \in DOMAIN r : SameInput(r[j].intraTx.inputs[k], r[k])
  BY DEF IntraTxShape, TypedRun, TypedStep, IsList
<1>3. \A j \in DOMAIN r : Program(r[j]) = IntraTxProgram(r[j].intraTx)
  BY DEF Program
<1>4. ASSUME NEW j \in DOMAIN r
      PROVE  /\ Program(r[j]).index = j
             /\ Program(r[j]).inputs = [k \in DOMAIN r |-> InputOf(r[k], None)]
             /\ Program(r[j]).outputs = << OutputOf(OpReturn, None) >>
  <2>1. \A k \in DOMAIN r : InputOf(r[j].intraTx.inputs[k], None) = InputOf(r[k], None)
    BY <1>2, <1>4 DEF InputOf, SameInput
  <2>2. IntraTxProgram(r[j].intraTx).inputs = [k \in DOMAIN r |-> InputOf(r[j].intraTx.inputs[k], None)]
    BY <1>2, <1>4 DEF IntraTxProgram
  <2>3. IntraTxProgram(r[j].intraTx).inputs = [k \in DOMAIN r |-> InputOf(r[k], None)]
    BY <2>1, <2>2
  <2>4. /\ IntraTxProgram(r[j].intraTx).index = j
        /\ IntraTxProgram(r[j].intraTx).outputs = << OutputOf(OpReturn, None) >>
    BY <1>2, <1>4 DEF IntraTxProgram
  <2>5. QED
    BY <1>3, <1>4, <2>3, <2>4
<1>5. /\ Program(r[i]).index = i /\ DOMAIN Program(r[i]).inputs = DOMAIN r
      /\ Program(r[i]).inputs[i] = InputOf(r[i], None)
  <2>1. Program(r[i]).index = i /\ Program(r[i]).inputs = [k \in DOMAIN r |-> InputOf(r[k], None)]
    BY <1>4
  <2>2. QED
    BY <2>1
<1>6. SameInput(EvaluatedInput(r[i]), r[i])
  BY <1>5 DEF SameInput, InputOf, EvaluatedInput
<1>7. \A j \in DOMAIN r : Transaction(r[j]) = Transaction(r[i])
  BY <1>4 DEF Transaction
<1>8. \A j \in DOMAIN r : Program(r[j]).index = j
  BY <1>4
<1>9. {Program(r[j]).index : j \in DOMAIN r} = DOMAIN r
  BY <1>8
<1>10. QED
  BY <1>1, <1>5, <1>6, <1>7, <1>8, <1>9

LEMMA SoleInput ==
  ASSUME NEW r, NEW i \in DOMAIN r, r[i].grouped = None, r[i].intraTx = None
  PROVE  /\ Program(r[i]).index \in DOMAIN Program(r[i]).inputs
         /\ SameInput(EvaluatedInput(r[i]), r[i])
         /\ \A j \in Mates(r, i) : Transaction(r[j]) = Transaction(r[i])
         /\ {Program(r[j]).index : j \in Mates(r, i)} = DOMAIN Program(r[i]).inputs
         /\ \A j \in Mates(r, i) : j # i => Program(r[j]).index # Program(r[i]).index
<1>1. Mates(r, i) = {i}
  BY DEF Mates
<1>2. /\ Program(r[i]).index = 1 /\ DOMAIN Program(r[i]).inputs = {1}
      /\ SameInput(Program(r[i]).inputs[1], r[i])
  <2>1. CASE r[i].covenant # None
    <3>1. Program(r[i]) = CovenantProgram(r[i])
      BY <2>1 DEF Program
    <3>2. QED
      BY <3>1 DEF CovenantProgram, InputOf, SameInput
  <2>2. CASE r[i].covenant = None
    <3>1. Program(r[i]) = BareProgram(r[i])
      BY <2>2 DEF Program
    <3>2. QED
      BY <3>1 DEF BareProgram, InputOf, SameInput
  <2>3. QED
    BY <2>1, <2>2
<1>3. QED
  BY <1>1, <1>2 DEF EvaluatedInput

LEMMA ShapedRunsAreTransactions ==
  ASSUME NEW r, TypedRun(r), RunShape(r)
  PROVE  IsItsTransactions(r)
<1>1. \A i \in DOMAIN r : OneContext(r[i]) /\ ContextKind(r[i]) = ContextKind(r[1])
  BY DEF RunShape
<1>2. \A i \in DOMAIN r : /\ r[i]["grouped"] = r[i].grouped
                          /\ r[i]["intraTx"] = r[i].intraTx
                          /\ r[i]["covenant"] = r[i].covenant
  OBVIOUS
<1>3. \A i \in DOMAIN r : ContextKind(r[i]) = "grouped" => r[i].grouped # None
  BY <1>1, <1>2, KindOfContext, KindIsBare DEF ContextKinds
<1>4. \A i \in DOMAIN r : ContextKind(r[i]) = "intraTx" => r[i].intraTx # None /\ r[i].grouped = None
  BY <1>1, <1>2, KindOfContext, KindIsBare DEF ContextKinds
<1>5. \A i \in DOMAIN r : ContextKind(r[i]) \notin {"grouped", "intraTx"} => r[i].grouped = None /\ r[i].intraTx = None
  BY <1>1, <1>2, KindOfContext DEF ContextKinds
<1>6. CASE ContextKind(r[1]) = "grouped"
  <2>1. GroupedShape(r) /\ \A i \in DOMAIN r : r[i].grouped # None
    BY <1>1, <1>3, <1>6 DEF RunShape
  <2>2. QED
    BY <2>1, GroupsAreTransactions DEF IsItsTransactions
<1>7. CASE ContextKind(r[1]) = "intraTx"
  <2>1. IntraTxShape(r) /\ \A i \in DOMAIN r : r[i].intraTx # None /\ r[i].grouped = None
    BY <1>1, <1>4, <1>7 DEF RunShape
  <2>2. QED
    BY <2>1, IntraTxIsOneTransaction DEF IsItsTransactions
<1>8. CASE ContextKind(r[1]) \notin {"grouped", "intraTx"}
  <2>1. \A i \in DOMAIN r : r[i].grouped = None /\ r[i].intraTx = None
    BY <1>1, <1>5, <1>8
  <2>2. QED
    BY <2>1, SoleInput DEF IsItsTransactions
<1>9. QED
  BY <1>6, <1>7, <1>8

-----------------------------------------------------------------------------
(* Different proofs                                                         *)

(* The types of the locators.                                              *)
TypedLocators(ls) ==
    \A k \in DOMAIN ls : /\ ls[k].offset # None => ls[k].offset \in Nat
                         /\ ls[k].length # None => ls[k].length \in Nat

(* The part of n bytes after the first ones.                                *)
LEMMA PartOfBytes ==
  ASSUME NEW S, NEW s, NEW from \in Nat, NEW n \in Nat, \A i \in (from + 1) .. (from + n) : s[i] \in S
  PROVE  /\ SubSeq(s, from + 1, from + n) \in Seq(S)
         /\ Len(SubSeq(s, from + 1, from + n)) = n
         /\ \A i \in 1 .. n : SubSeq(s, from + 1, from + n)[i] = s[from + i]
<1> DEFINE l == from + 1
           h == from + n
           p == SubSeq(s, l, h)
<1>1. l \in Int /\ h \in Int /\ h - l + 1 = n /\ (l <= h <=> n > 0)
  OBVIOUS
<1>2. \A i \in 1 .. n : l + i - 1 = from + i
  OBVIOUS
<1>3. \A i \in l .. h : s[i] \in S
  OBVIOUS
<1> HIDE DEF l, h
<1>4. /\ p \in Seq(S)
      /\ Len(p) = IF l <= h THEN h - l + 1 ELSE 0
      /\ \A i \in 1 .. h - l + 1 : p[i] = s[l + i - 1]
  BY <1>1, <1>3, SubSeqProperties
<1> HIDE DEF p
<1>5. Len(p) = n
  BY <1>1, <1>4
<1>6. \A i \in 1 .. n : p[i] = s[from + i]
  BY <1>1, <1>2, <1>4
<1>7. QED
  BY <1>4, <1>5, <1>6 DEF p, l, h

LEMMA SameBytesSamePart ==
  ASSUME NEW s, NEW t, NEW from \in Nat, NEW n \in Nat,
         \A b \in 1 .. n : s[from + b] = t[from + b]
  PROVE  SubSeq(s, from + 1, from + n) = SubSeq(t, from + 1, from + n)
<1> DEFINE S == {s[i] : i \in (from + 1) .. (from + n)} \cup {t[i] : i \in (from + 1) .. (from + n)}
           p == SubSeq(s, from + 1, from + n)
           q == SubSeq(t, from + 1, from + n)
<1>1. /\ \A i \in (from + 1) .. (from + n) : s[i] \in S
      /\ \A i \in (from + 1) .. (from + n) : t[i] \in S
  OBVIOUS
<1> HIDE DEF S
<1>2. /\ p \in Seq(S) /\ Len(p) = n
      /\ \A i \in 1 .. n : p[i] = s[from + i]
  BY <1>1, PartOfBytes
<1>3. /\ q \in Seq(S) /\ Len(q) = n
      /\ \A i \in 1 .. n : q[i] = t[from + i]
  BY <1>1, PartOfBytes
<1>4. \A i \in 1 .. n : p[i] = q[i]
  BY <1>2, <1>3
<1> HIDE DEF p, q
<1>5. p = q
  BY <1>2, <1>3, <1>4, SeqEqual
<1>6. QED
  BY <1>5 DEF p, q

LEMMA SameProofSameFingerprint ==
  ASSUME NEW ls, TypedLocators(ls), NEW r, NEW q,
         \A k \in DOMAIN ls : Located(r, ls[k]) /\ Located(q, ls[k]),
         SameProof(r, q, ls)
  PROVE  ProofFingerprint(r, ls) = ProofFingerprint(q, ls)
<1>1. SUFFICES ASSUME NEW k \in DOMAIN ls PROVE Component(r, ls[k]) = Component(q, ls[k])
  BY DEF ProofFingerprint
<1> DEFINE loc == ls[k]
           a   == r[loc.input].unlock[loc.push]
           b   == q[loc.input].unlock[loc.push]
           from == Given(loc.offset, 0)
<1>2. CASE loc.encoding = "vm-number"
  <2>1. NumberOf(a) = NumberOf(b)
    BY <1>2 DEF SameProof
  <2>2. QED
    BY <1>2, <2>1 DEF Component
<1>3. CASE loc.encoding # "vm-number"
  <2>1. loc.length # None
    BY <1>3 DEF Located
  <2>2. loc.length \in Nat /\ from \in Nat
    BY <2>1 DEF TypedLocators, Given
  <2>3. \A n \in 1 .. loc.length : BytesOf(a)[from + n] = BytesOf(b)[from + n]
    BY <1>3 DEF SameProof
  <2>4. SubSeq(BytesOf(a), from + 1, from + loc.length) = SubSeq(BytesOf(b), from + 1, from + loc.length)
    BY <2>2, <2>3, SameBytesSamePart, ZenonT(30)
  <2>5. QED
    BY <1>3, <2>4 DEF Component
<1>4. QED
  BY <1>2, <1>3

(* Equal fingerprints are equal proofs (Component).                         *)
LEMMA SamePartSameBytes ==
  ASSUME NEW s, NEW t, NEW from \in Nat, NEW n \in Nat,
         SubSeq(s, from + 1, from + n) = SubSeq(t, from + 1, from + n)
  PROVE  \A b \in 1 .. n : s[from + b] = t[from + b]
<1> DEFINE S == {s[i] : i \in (from + 1) .. (from + n)} \cup {t[i] : i \in (from + 1) .. (from + n)}
           p == SubSeq(s, from + 1, from + n)
           q == SubSeq(t, from + 1, from + n)
<1>1. /\ \A i \in (from + 1) .. (from + n) : s[i] \in S
      /\ \A i \in (from + 1) .. (from + n) : t[i] \in S
  OBVIOUS
<1> HIDE DEF S
<1>2. /\ p \in Seq(S) /\ Len(p) = n
      /\ \A i \in 1 .. n : p[i] = s[from + i]
  BY <1>1, PartOfBytes, SMTT(30)
<1>3. /\ q \in Seq(S) /\ Len(q) = n
      /\ \A i \in 1 .. n : q[i] = t[from + i]
  BY <1>1, PartOfBytes
<1>4. p = q
  OBVIOUS
<1> HIDE DEF p, q
<1>5. QED
  BY <1>2, <1>3, <1>4

LEMMA SameFingerprintSameProof ==
  ASSUME NEW ls, TypedLocators(ls), NEW r, NEW q,
         \A k \in DOMAIN ls : Located(r, ls[k]) /\ Located(q, ls[k]),
         ProofFingerprint(r, ls) = ProofFingerprint(q, ls)
  PROVE  SameProof(r, q, ls)
<1>1. \A k \in DOMAIN ls : Component(r, ls[k]) = Component(q, ls[k])
  <2>1. \A x : \A k \in DOMAIN ls : ProofFingerprint(x, ls)[k] = Component(x, ls[k])
    BY DEF ProofFingerprint
  <2>2. QED
    BY <2>1
<1>2. SUFFICES ASSUME NEW k \in DOMAIN ls
      PROVE  LET loc   == ls[k]
                 in(x) == x[loc.input].unlock[loc.push]
             IN  IF loc.encoding = "vm-number" THEN NumberOf(in(r)) = NumberOf(in(q))
                 ELSE \A b \in 1 .. loc.length :
                         BytesOf(in(r))[Given(loc.offset, 0) + b] = BytesOf(in(q))[Given(loc.offset, 0) + b]
  BY Zenon DEF SameProof
<1> DEFINE loc  == ls[k]
           a    == r[loc.input].unlock[loc.push]
           b    == q[loc.input].unlock[loc.push]
           from == Given(loc.offset, 0)
<1>3. CASE loc.encoding = "vm-number"
  <2>1. << NumberOf(a) >> = << NumberOf(b) >>
    BY <1>1, <1>3 DEF Component
  <2>2. QED
    BY <1>3, <2>1
<1>4. CASE loc.encoding # "vm-number"
  <2>1. loc.length # None
    BY <1>4 DEF Located
  <2>2. loc.length \in Nat /\ from \in Nat
    BY <2>1 DEF TypedLocators, Given
  <2>3. SubSeq(BytesOf(a), from + 1, from + loc.length) = SubSeq(BytesOf(b), from + 1, from + loc.length)
    BY <1>1, <1>4 DEF Component
  <2> DEFINE m == loc.length
             y == BytesOf(a)
             z == BytesOf(b)
  <2>4. m \in Nat /\ from \in Nat /\ SubSeq(y, from + 1, from + m) = SubSeq(z, from + 1, from + m)
    BY <2>2, <2>3
  <2> HIDE DEF m, y, z, from
  <2>5. \A n \in 1 .. m : y[from + n] = z[from + n]
    BY <2>4, SamePartSameBytes
  <2>6. QED
    BY <1>4, <2>5 DEF m, y, z, from
<1>5. QED
  BY <1>3, <1>4
=============================================================================
