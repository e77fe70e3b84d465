----------------------------- MODULE MCContract -----------------------------
(* Scenarios for TLC: well-formed runs of every kind, with and without a    *)
(* fault of one or two fields, alone and as the extra or worst-case run of  *)
(* another; well-formed runs whose scripts have the lengths at which a      *)
(* varint widens or a transaction stops being standard; and every entry     *)
(* with well-formed files, parts of them missing or repeated.               *)
EXTENDS ContractCheck

(* A push is its number, the first bytes of its data, None if it is not a   *)
(* data push, and how many bytes of that number follow.                     *)
MCNumberOf(p) == p[1]
MCBytesOf(p) == IF p[2] = None THEN None ELSE p[2] \o [b \in 1 .. p[3] |-> p[1]]
MCFlipped(p) == << p[1] + 100, p[2], p[3] >>

(* The number one as OP_1 and as a data push, two minimally and not         *)
(* minimally encoded, a zero.                                               *)
Op1   == << 1, None, 0 >>
One   == << 1, << 1 >>, 0 >>
Two   == << 2, << 2 >>, 0 >>
Two00 == << 2, << 2, 0 >>, 0 >>
Op0   == << 0, << >>, 0 >>
Pushes == {Op1, One, Two, Two00, Op0}

(* A script, a category or a state is a name and its length; an unlocking   *)
(* is such a script as well, or a sequence of pushes of two bytes.          *)
Bytes(name, n) == << None, name, n >>
MCP2sh32(script) == Bytes("p2sh32", script[3])
MCPushOf(script) == << 1000, << >>, script[3] >>

MCSize(x) ==
    CASE x = OpReturn -> 1
      [] x \in {EmptyBytes, << >>} -> 0
      [] OTHER -> IF x[1] = None THEN x[3] ELSE 2 * Len(x)

Cat == Bytes("category", 32)

Wrong == Bytes("lock", 0)

Bare(l, u) == [lock |-> l, unlock |-> u, checkpoint |-> None,
               covenant |-> None, intraTx |-> None, grouped |-> None]

(* Well-formed runs with the given lockings and unlockings.                 *)
BareRun(ls, us) == [i \in DOMAIN ls |-> Bare(ls[i], us[i])]

Thread(i, last, c, baton) ==
    [category |-> Cat, capability |-> IF i = last THEN "none" ELSE "mutable",
     inCommitment |-> Bytes(c, i), outCommitment |-> Bytes(c, i + 1), outLock |-> Bytes("lock", i + 1),
     inputCapability |-> IF baton THEN "minting" ELSE None, baton |-> baton]

CovenantRun(ls, us, c, baton) ==
    [i \in DOMAIN ls |->
        [Bare(ls[i], us[i]) EXCEPT !.covenant = Thread(i, Len(ls), c, baton /\ i = 1)]]

InputsOf(ls, us) == [i \in DOMAIN ls |-> [lock |-> ls[i], unlock |-> us[i]]]

IntraTxRun(ls, us) ==
    [i \in DOMAIN ls |->
        [Bare(ls[i], us[i]) EXCEPT !.intraTx = [index |-> i, inputs |-> InputsOf(ls, us)]]]

NftOf(capability, c) == [capability |-> capability, commitment |-> Bytes(c, 1)]

(* Three steps, two in the first group; the second group burns the token.   *)
GroupedRun(ls, us, c, sibling) ==
    LET group(i)  == IF i <= 2 THEN 1 ELSE 2
        inputs(g) == IF g = 1 THEN InputsOf(SubSeq(ls, 1, 2), SubSeq(us, 1, 2))
                              ELSE InputsOf(SubSeq(ls, 3, 3), SubSeq(us, 3, 3))
    IN  [i \in 1 .. 3 |->
          [Bare(ls[i], us[i]) EXCEPT !.grouped =
             [group |-> group(i), index |-> IF i = 2 THEN 2 ELSE 1, inputs |-> inputs(group(i)),
              category |-> Cat,
              inToken |-> IF group(i) = 1 THEN None ELSE NftOf("mutable", c),
              inputTokens |-> IF sibling /\ group(i) = 1 THEN << None, NftOf("none", c) >> ELSE None,
              outToken |-> IF group(i) = 1 THEN NftOf("mutable", c) ELSE None,
              outLock |-> IF group(i) = 1 THEN Bytes("lock", 3) ELSE None]]]

Ls(n) == [i \in 1 .. n |-> Bytes("lock", i)]
OtherLs(n) == [i \in 1 .. n |-> Bytes("lock", n + 1 - i)]

(* The unlocking of a step: its proof field and a field that is no proof.   *)
Us(n, proof, rest) == [i \in 1 .. n |-> IF i = 1 THEN << proof, rest >> ELSE << rest >>]

RunsOfKind(kind, ls, us, c, flag) ==
    CASE kind = "bare" -> BareRun(SubSeq(ls, 1, 2), SubSeq(us, 1, 2))
      [] kind = "covenant" -> CovenantRun(SubSeq(ls, 1, 2), SubSeq(us, 1, 2), c, flag)
      [] kind = "intraTx" -> IntraTxRun(ls, us)
      [] kind = "grouped" -> GroupedRun(ls, us, c, flag)

Kinds == {"bare", "covenant", "intraTx", "grouped"}

Primary(kind, flag) == RunsOfKind(kind, Ls(3), Us(3, Op1, Two), "c1", flag)

(* One field of one step changed, and nothing that should go with it.       *)
InputEdits(inputs) ==
    << SubSeq(inputs, 1, Len(inputs) - 1) >>
    \o [k \in DOMAIN inputs |-> [inputs EXCEPT ![k].lock = Wrong]]
    \o [k \in DOMAIN inputs |-> [inputs EXCEPT ![k].unlock = << Op0 >>]]

TokenEdits == << None, NftOf("minting", "c1"), NftOf("mutable", "c2") >>

TokenLists ==
    << None, << NftOf("none", "c1") >>, << None, NftOf("none", "c1") >>, << NftOf("mutable", "c1"), None >>,
       << None, NftOf("none", "c2") >>, << None, NftOf("mutable", "c1") >> >>

CovenantEdits(c) ==
    << [c EXCEPT !.category = Bytes("other", 32)], [c EXCEPT !.capability = "minting"],
       [c EXCEPT !.inCommitment = Bytes("c9", 1)], [c EXCEPT !.outLock = Wrong],
       [c EXCEPT !.inputCapability = "mutable"], [c EXCEPT !.baton = ~c.baton] >>

IntraTxEdits(x) ==
    [j \in 1 .. 4 |-> [x EXCEPT !.index = j - 1]]
    \o [j \in DOMAIN InputEdits(x.inputs) |-> [x EXCEPT !.inputs = InputEdits(x.inputs)[j]]]

GroupedEdits(g) ==
    << [g EXCEPT !.category = Bytes("other", 32)], [g EXCEPT !.outLock = Wrong], [g EXCEPT !.outLock = None],
       [g EXCEPT !.outLock = OpReturn], [g EXCEPT !.index = 1], [g EXCEPT !.index = 2] >>
    \o [j \in 1 .. 4 |-> [g EXCEPT !.group = j - 1]]
    \o [j \in DOMAIN InputEdits(g.inputs) |-> [g EXCEPT !.inputs = InputEdits(g.inputs)[j]]]
    \o [j \in DOMAIN TokenEdits |-> [g EXCEPT !.inToken = TokenEdits[j]]]
    \o [j \in DOMAIN TokenEdits |-> [g EXCEPT !.outToken = TokenEdits[j]]]
    \o [j \in DOMAIN TokenLists |-> [g EXCEPT !.inputTokens = TokenLists[j]]]

ContextEdits(s) ==
    CASE s.covenant # None -> [j \in DOMAIN CovenantEdits(s.covenant) |->
                                  [s EXCEPT !.covenant = CovenantEdits(s.covenant)[j]]]
      [] s.intraTx # None -> [j \in DOMAIN IntraTxEdits(s.intraTx) |->
                                  [s EXCEPT !.intraTx = IntraTxEdits(s.intraTx)[j]]]
      [] s.grouped # None -> [j \in DOMAIN GroupedEdits(s.grouped) |->
                                  [s EXCEPT !.grouped = GroupedEdits(s.grouped)[j]]]
      [] OTHER -> << >>

StepEdits(s) ==
    << [s EXCEPT !.lock = Wrong], [s EXCEPT !.unlock = << Op0 >>],
       [s EXCEPT !.intraTx = None, !.grouped = None],
       [s EXCEPT !.covenant = Thread(1, 2, "c1", FALSE)] >> \o ContextEdits(s)

(* The run with one fault: none, a step dropped, or edit e of step i.       *)
Faulty(r, i, e) ==
    IF i = 0 THEN << r, SubSeq(r, 2, Len(r)), SubSeq(r, 1, Len(r) - 1), << >> >>[e]
    ELSE [r EXCEPT ![i] = StepEdits(r[i])[e]]

Faults(r) ==
    {0} \X (1 .. 4) \cup UNION {{i} \X DOMAIN StepEdits(r[i]) : i \in DOMAIN r}

Number(i, p) == [input |-> i, push |-> p, encoding |-> "vm-number", offset |-> None, length |-> None]
Bytewise(i, p, o, n) == [input |-> i, push |-> p, encoding |-> "bytes", offset |-> o, length |-> n]

Case(locators, valid, extras, worst) ==
    [locators |-> locators, scenario |-> [valid |-> valid, extras |-> extras, worst |-> worst]]

LocatorLists ==
    { << >>, << Number(1, 1) >>, << Number(1, 2) >>, << Number(1, 1), Number(2, 1) >>, << Number(2, 2) >>,
      << Bytewise(1, 1, None, 1) >>, << Bytewise(1, 1, 1, 1) >>, << Bytewise(2, 1, 0, 1), Number(1, 1) >>,
      << Bytewise(1, 1, None, 0) >>, << Bytewise(1, 1, None, None) >> }

Lock(n)   == Bytes("lock", n)
Unlock(n) == Bytes("unlock", n)
State(n)  == Bytes("state", n)

Lengths == {0, 1, 252, 253, 65535, 65536}

TokenChain(ls, us, c, baton) ==
    [i \in DOMAIN us |->
        [Bare(Lock(ls[i]), Unlock(us[i])) EXCEPT !.covenant =
            [category |-> Cat, capability |-> "mutable", inCommitment |-> State(c),
             outCommitment |-> IF c = 0 THEN EmptyBytes ELSE State(c), outLock |-> Lock(ls[i + 1]),
             inputCapability |-> IF baton /\ i = 1 THEN "minting" ELSE None,
             baton |-> baton /\ i = 1]]]

SizedInputs(us) == [i \in DOMAIN us |-> [lock |-> Lock(23), unlock |-> Unlock(us[i])]]

Bundle(us) ==
    [i \in DOMAIN us |->
        [Bare(Lock(23), Unlock(us[i])) EXCEPT !.intraTx = [index |-> i, inputs |-> SizedInputs(us)]]]

(* The inputs of us in groups of the given sizes.                           *)
Groups(us, sizes, out, c) ==
    LET before(n) == MapThenSumSet(LAMBDA k : sizes[k], 1 .. n - 1)
        group(i)  == CHOOSE n \in DOMAIN sizes : before(n) < i /\ i <= before(n) + sizes[n]
        token     == [capability |-> "mutable", commitment |-> IF c = 0 THEN EmptyBytes ELSE State(c)]
    IN  [i \in DOMAIN us |->
          [Bare(Lock(23), Unlock(us[i])) EXCEPT !.grouped =
            [group |-> group(i), index |-> i - before(group(i)),
             inputs |-> SizedInputs(SubSeq(us, before(group(i)) + 1, before(group(i)) + sizes[group(i)])),
             category |-> Cat, inToken |-> IF group(i) = 1 THEN None ELSE token, inputTokens |-> None,
             outToken |-> IF group(i) = Len(sizes) THEN None ELSE token,
             outLock |-> IF group(i) = Len(sizes) THEN None ELSE out]]]

Repeat(n, x) == [i \in 1 .. n |-> x]

(* Chains and groups with a state of no byte, a short one and the longest;  *)
(* output lengths on both sides of 253.                                     *)
SizedRuns(IsRun(_)) ==
    \/ \E u, v \in Lengths, n \in 1 .. 2 : IsRun(SubSeq(<< Bare(Lock(u), Unlock(v)), Bare(Lock(23), Unlock(u)) >>, 1, n))
    \/ \E l, m \in {1, 177, 178, 200, 217, 218, 219}, u \in Lengths, c \in {0, 40, 128}, b \in BOOLEAN :
        \/ IsRun(TokenChain(<< m, l >>, << u >>, c, b))
        \/ IsRun(TokenChain(<< m, l, m >>, << u, 252 >>, c, b))
    \/ \E u, v, w \in Lengths, n \in 1 .. 3 : IsRun(Bundle(SubSeq(<< u, v, w >>, 1, n)))
    \/ \E u, v, w \in {0, 252, 253, 65536}, sizes \in {<< 3 >>, << 2, 1 >>, << 1, 2 >>, << 1, 1, 1 >>},
          out \in {None, OpReturn, Lock(177), Lock(217), Lock(218)}, c \in {0, 40} :
         IsRun(Groups(<< u, v, w >>, sizes, out, c))

Witness(w) == IntraTxRun(Ls(2), Us(2, w[1], w[2]))

-----------------------------------------------------------------------------
(* The entries and their files                                              *)

(* An unlocking that carries proof w where the entry says its proof is.     *)
Carrying(e, i, w) ==
    LET at(p) == {l \in Elements(e.proof) : l.input = i /\ l.push = p}
    IN  [p \in 1 .. Max({2} \cup {l.push : l \in {m \in Elements(e.proof) : m.input = i}}) |->
           CASE at(p) = {} -> << 0, << >>, i >>
             [] \E l \in at(p) : l.encoding = "vm-number" -> << w, None, 0 >>
             [] OTHER -> << w, << >>, Max({l.offset + l.length : l \in at(p)}) >>]

Raw(l, u) ==
    [lock |-> l, unlock |-> u, checkpoint |-> None, invalidUnlock |-> << Op0 >>,
     kind |-> "forward", covenant |-> None, group |-> 1, final |-> FALSE]

RawRun(e, n, w) == [i \in 1 .. n |-> Raw(Bytes("lock", i), Carrying(e, i, w))]

(* The commitments of a thread follow each other; the archived chain of the *)
(* corrected entry hands every token to its own locking.                    *)
RawThread(e, n, w) ==
    LET kinded == e.load.context = "kinded"
    IN  [i \in 1 .. n |->
          [RawRun(e, n, w)[i] EXCEPT
             !.kind = IF i = 1 THEN "genesis" ELSE IF i = n THEN "terminal" ELSE "forward",
             !.covenant = [category |-> Cat,
                           capability |-> IF kinded /\ i = n THEN "none" ELSE "mutable",
                           inCommitment |-> Bytes("state", 100 * w + i),
                           outCommitment |-> Bytes("state", 100 * w + i + 1),
                           outLock |-> Bytes("lock", IF e.load.context = "successor" THEN i ELSE i + 1)]]]

(* Groups of inputs: each transaction hands a token to the next; a group of *)
(* two has a token at its second input as well.                             *)
RawGroups(e, sizes, w) ==
    LET hi(g)    == MapThenSumSet(LAMBDA k : sizes[k], 1 .. g)
        group(i) == CHOOSE g \in DOMAIN sizes : hi(g) - sizes[g] < i /\ i <= hi(g)
        token(g) == IF g \in {0, Len(sizes)} THEN None ELSE NftOf("mutable", << "c1", "c2", "c3", "c4", "c5", "c6" >>[w])
    IN  [steps  |-> [i \in 1 .. hi(Len(sizes)) |-> [RawRun(e, hi(Len(sizes)), w)[i] EXCEPT !.group = group(i)]],
         groups |-> [g \in DOMAIN sizes |->
            [lo |-> hi(g) - sizes[g] + 1, hi |-> hi(g), inToken |-> token(g - 1), outToken |-> token(g),
             inputTokens |-> IF sizes[g] = 2 THEN << None, NftOf("none", "c1") >> ELSE None,
             outLock |-> IF g = Len(sizes) THEN EmptyBytes ELSE Bytes("lock", hi(g) + 1)]]]

RawOf(e, n, w) ==
    CASE e.load.context = "intraTx" -> RawRun(e, Max({n} \cup {l.input : l \in Elements(e.proof)}), w)
      [] e.load.context \in {"grouped", "siblings"} -> RawGroups(e, IF n = 3 THEN << 2, 1 >> ELSE << 1, 2, 1 >>, w)
      [] OTHER -> RawThread(e, n, w)

If(b, x) == IF b THEN x ELSE None

(* Proofs one (the valid run's) to six; `some' says which parts there are.  *)
RunFiles(e, n, extras, some) ==
    LET raw(w) == RawOf(e, n, w)
        more   == IF extras = None THEN None ELSE [k \in DOMAIN extras |-> raw(extras[k])]
        first  == IF extras \in {None, << >>} THEN None ELSE raw(extras[1])
    IN  [valid |-> raw(1), extras |-> more, extra |-> first, worst |-> If("worst" \in some, raw(4)),
         invalid |-> If("rest" \in some, << raw(5) >>), invalidInputs |-> If("rest" \in some, << raw(5), raw(6) >>),
         invalidRuns |-> If("rest" \in some, << raw(5) >>), identity |-> If("rest" \in some, << raw(6) >>),
         resource |-> If("rest" \in some, raw(6)), category |-> Cat,
         variant |-> If("rest" \in some, [valid |-> raw(5), extras |-> more, worst |-> None, invalid |-> << raw(6) >>]),
         selected |-> [i \in 1 .. n |-> Bytes("selected", i)], originals |-> [i \in 1 .. n |-> Bytes("lock", i)]]

Damaged(files) == [files EXCEPT !.valid[Len(files.valid)].invalidUnlock = None]

Proof(e, w, committed) ==
    [unlock |-> Carrying(e, 1, w), committed |-> committed,
     invalid |-> IF committed THEN << Op0 >> ELSE << << Op0, Op0 >> >>]

SingletonFiles(e, extras, some) ==
    LET more == Given(extras, << >>)
    IN  [lock |-> Lock(7), unlock |-> Carrying(e, 1, 1), checkpoint |-> None, invalidUnlock |-> << Op0 >>,
         proofs |-> << Proof(e, 1, "committed" \in some) >> \o [k \in DOMAIN more |-> Proof(e, more[k], FALSE)],
         worst |-> If("worst" \in some \/ e.load.form \in {"fixtures", "fixturesP2sh"},
                      IF e.load.form = "rolled" THEN Proof(e, 4, FALSE) ELSE Carrying(e, 1, 4)),
         more |-> << << Op1 >> >>, zero |-> If("rest" \in some, << Proof(e, 5, FALSE) >>),
         lockingBAD |-> Wrong]

Crown8Run(w, record) ==
    [i \in 1 .. 8 |-> Raw(Bytes("lock", i), << Op0, << w, << >>, 768 >>, Op1, << w, << >>, 3296 >>,
                                              << w, << >>, IF i <= 6 THEN record ELSE 80 >> >>)]

Mutation(kind, i) == [kind |-> kind, input |-> i]

Mutations ==
    << Mutation("executor-rawchain-bit", 6), Mutation("terminal-root-prefix-bit", 8),
       Mutation("terminal-bq-bit", 8), Mutation("genesis-cblob-bit", 7) >>

ChunkRun(n, short) ==
    [i \in 1 .. n |->
        [Raw(Bytes("lock", i), << Op0, << 2, << >>, 1000 >>, IF i \in short THEN << 1, << >>, 32 >> ELSE Op1 >>)
         EXCEPT !.final = i = n]]

CaseRun(w, program) ==
    [i \in 1 .. 3 |-> Raw(Bytes("lock", i), << << w, << >>, 1 >>, MCPushOf(Bytes("program", program)) >>)]

Files(e, IsFiles(_)) ==
    LET Extras == {None, << >>, << 2 >>, << 2, 3 >>, << 1 >>, << 2, 2 >>}
        only(raw) == [valid |-> raw]
    IN  CASE e.load.form = "runs" ->
               \E x \in Extras, n \in 3 .. 4, some \in SUBSET {"worst", "rest"} : IsFiles(RunFiles(e, n, x, some))
          [] e.load.form = "chain" ->
               \E x \in Extras, n \in {2, 3, 5, 48}, some \in SUBSET {"worst", "rest"} :
                   IsFiles(RunFiles(e, n, x, some)) \/ IsFiles(Damaged(RunFiles(e, n, x, some)))
          [] e.load.form \in {"singleton", "rolled", "fixtures", "fixturesP2sh"} ->
               \E x \in Extras, some \in SUBSET {"worst", "rest", "committed"} : IsFiles(SingletonFiles(e, x, some))
          [] e.load.form = "crown8" ->
               \E x \in Extras \ {None}, record \in {500, 576, 768}, m \in {Mutations, << Mutation("terminal-bq-bit", 7) >>} :
                   IsFiles([valid |-> Crown8Run(1, record), extras |-> [k \in DOMAIN x |-> Crown8Run(x[k], record)],
                            worst |-> Crown8Run(4, record), mutations |-> m])
          [] e.load.form \in {"shamir", "twoloop"} ->
               \E n \in 2 .. 5 : \E short \in SUBSET (1 .. n) : IsFiles(only(ChunkRun(n, short)))
          [] e.load.form \in {"one", "demo"} -> IsFiles(only(RawRun(e, 3, 1)))
          [] e.load.form = "cases" ->
               \E n \in 4 .. 5, old \in 1 .. 2 :
                   IsFiles([cases |-> [k \in 1 .. n |-> CaseRun(k, 1)], originals |-> [i \in 1 .. 3 |-> Bytes("lock", i)],
                            originalPrograms |-> [i \in 1 .. 3 |-> Bytes("program", old)],
                            programs |-> [i \in 1 .. 3 |-> Bytes("program", 3)],
                            lockings |-> [i \in 1 .. 3 |-> Bytes("selected", i)]])

MCLoadInit ==
    /\ verdict = "unchecked"
    /\ measure = None
    /\ case = None
    /\ \E e \in Registry \cup Candidates : Files(e, LAMBDA files : entry = [impl |-> e, files |-> files])

-----------------------------------------------------------------------------

(* One run with up to two faults; an extra or worst-case run with another   *)
(* witness, another program or a fault; two extras and a worst-case run     *)
(* with every choice of witness and locators.                               *)
MCGivenInit ==
    /\ entry = None
    /\ verdict = "unchecked"
    /\ measure = None
    /\ \/ \E k \in Kinds, f \in BOOLEAN : \E x \in Faults(Primary(k, f)) :
            LET r == Faulty(Primary(k, f), x[1], x[2])
            IN  \E y \in (IF r = << >> THEN {<< 0, 1 >>} ELSE Faults(r)) :
                    case = Case(<< >>, Faulty(r, y[1], y[2]), << >>, None)
       \/ \E k \in Kinds, ls \in {Ls(3), OtherLs(3)}, w \in {Op1, Two}, c \in {"c1", "c2"}, f, g \in BOOLEAN :
            LET r == RunsOfKind(k, ls, Us(3, w, Op0), c, g)
            IN  \E x \in Faults(r) :
                    \/ case = Case(<< Number(1, 1) >>, Primary(k, f), << Faulty(r, x[1], x[2]) >>, None)
                    \/ case = Case(<< Number(1, 1) >>, Primary(k, f), << >>, Faulty(r, x[1], x[2]))
       \/ \E j, k \in Kinds, f, g \in BOOLEAN :
            case = Case(<< >>, Primary(k, f), << Primary(j, g) >>, None)
       \/ \E locs \in LocatorLists, w, v \in Pushes \X {Two, Op0}, b \in BOOLEAN :
            case = Case(locs, Witness(<< One, Two >>), << Witness(w), Witness(v) >>,
                        IF b THEN Witness(<< Op1, One >>) ELSE None)
       \/ SizedRuns(LAMBDA r : case = Case(<< >>, r, << >>, None))

MCInit == MCGivenInit \/ MCLoadInit

MCSpec == MCInit /\ [][Next]_vars

(* Runs near the limits of a standard transaction.                          *)
LargeRuns(IsRun(_)) ==
    \/ \E n \in 9 .. 10, u \in {9944, 9945, 9952, 9954, 9956, 10000} :
         IsRun(Bundle(Repeat(n, u))) \/ IsRun(Groups(Repeat(n + 1, u), << n, 1 >>, Lock(201), 40))
    \/ \E u \in {9999, 10000} : IsRun(TokenChain(<< 23, 201 >>, << u >>, 40, FALSE))

LargeInit ==
    /\ entry = None
    /\ verdict = "unchecked"
    /\ measure = None
    /\ LargeRuns(LAMBDA r : case = Case(<< >>, r, << >>, None))

LargeSpec == LargeInit /\ [][Next]_vars
=============================================================================
