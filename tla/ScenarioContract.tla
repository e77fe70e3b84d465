-------------------------- MODULE ScenarioContract --------------------------
(***************************************************************************)
(* What src/harness/scenario-contract.ts requires of a scenario before it  *)
(* is run: every honest run has an executable shape, the runs share one    *)
(* program, and the extra proofs differ where the entry says its proof is. *)
(* The code throws at the first violation; here a check is the predicate   *)
(* that holds when nothing is thrown, so the order of the checks is left   *)
(* out, as are the run-time checks of the types (Spend!IsStep holds).      *)
(*                                                                         *)
(* An unlocking is a sequence of pushes.  NumberOf(p) is the VM number a   *)
(* push stands for and BytesOf(p) the data it pushes, None if it is not a  *)
(* number or not a data push.  A number has several encodings.             *)
(***************************************************************************)
EXTENDS Spend

CONSTANTS NumberOf(_), BytesOf(_)

-----------------------------------------------------------------------------
(* The shape of a run                                                       *)

Contexts(s) == {k \in ContextKinds : s[k] # None}

OneContext(s) == \A j, k \in Contexts(s) : j = k

ContextKind(s) == IF Contexts(s) = {} THEN "bare" ELSE CHOOSE k \in Contexts(s) : TRUE

(* Every input of the one transaction is the step at its position.          *)
IntraTxShape(run) ==
    \A i \in DOMAIN run :
        LET x == run[i].intraTx
        IN  /\ x.index = i
            /\ Len(x.inputs) = Len(run)
            /\ \A k \in DOMAIN x.inputs : SameInput(x.inputs[k], run[k])

EffectiveOutputLocking(g) == IF g.outToken = None THEN OpReturn ELSE Given(g.outLock, OpReturn)

(* Variant: only the incoming token is compared, sibling tokens are not.    *)
SameGroupContextInTokenOnly(g, h) ==
    /\ g.category = h.category
    /\ g.inToken = h.inToken
    /\ g.outToken = h.outToken
    /\ EffectiveOutputLocking(g) = EffectiveOutputLocking(h)

(* The tokens and outputs two steps of one group declare are the same.      *)
SameGroupContext(g, h) ==
    /\ g.category = h.category
    /\ \A k \in DOMAIN g.inputs : SpentToken(g, k) = SpentToken(h, k)
    /\ g.outToken = h.outToken
    /\ EffectiveOutputLocking(g) = EffectiveOutputLocking(h)

Members(run, n) == {i \in DOMAIN run : run[i].grouped.group = n}

First(run, n) == CHOOSE i \in Members(run, n) : \A j \in Members(run, n) : i <= j

(* Groups are numbered in order without a gap, each a contiguous part of    *)
(* the run, and the inputs of a group are its steps.                        *)
GroupedShape(run) ==
    LET group(i) == run[i].grouped.group
        groups   == {group(i) : i \in DOMAIN run}
    IN  /\ groups = 1 .. Cardinality(groups)
        /\ \A i \in DOMAIN run : i > 1 => group(i - 1) <= group(i)
        /\ \A n \in groups :
             Members(run, n) = First(run, n) .. (First(run, n) + Cardinality(Members(run, n)) - 1)
        /\ \A i \in DOMAIN run :
            LET g     == run[i].grouped
                first == First(run, g.group)
            IN  /\ g.inputTokens # None => Len(g.inputTokens) = Len(g.inputs)
                /\ g.index = i - first + 1
                /\ Len(g.inputs) = Cardinality(Members(run, g.group))
                /\ \A k \in DOMAIN g.inputs : SameInput(g.inputs[k], run[first + k - 1])
                /\ SameGroupContext(g, run[first].grouped)

RunShape(run) ==
    /\ run # << >>
    /\ \A i \in DOMAIN run : OneContext(run[i]) /\ ContextKind(run[i]) = ContextKind(run[1])
    /\ ContextKind(run[1]) = "intraTx" => IntraTxShape(run)
    /\ ContextKind(run[1]) = "grouped" => GroupedShape(run)

-----------------------------------------------------------------------------
(* One program                                                              *)

SameLockings(xs, ys) ==
    Len(xs) = Len(ys) /\ \A k \in DOMAIN xs : xs[k].lock = ys[k].lock

(* Tokens of one shape: the commitment is the witness's.                    *)
SameTokenShape(t, u) ==
    (t = None) = (u = None) /\ (t # None => t.capability = u.capability)

SameCovenantProgram(c, d) ==
    /\ c.category = d.category
    /\ c.capability = d.capability
    /\ c.inputCapability = d.inputCapability
    /\ c.baton = d.baton
    /\ c.outLock = d.outLock

SameGroupedProgram(g, h) ==
    /\ g.group = h.group /\ g.index = h.index
    /\ g.category = h.category
    /\ SameLockings(g.inputs, h.inputs)
    /\ SameTokenShape(g.inToken, h.inToken)
    /\ SameTokenShape(g.outToken, h.outToken)
    /\ (g.inputTokens = None) = (h.inputTokens = None)
    /\ g.inputTokens # None =>
         /\ Len(g.inputTokens) = Len(h.inputTokens)
         /\ \A k \in DOMAIN g.inputTokens : SameTokenShape(g.inputTokens[k], h.inputTokens[k])
    /\ g.outLock = h.outLock

(* Variant: forgets that a successor locking is part of the program.        *)
SameStepProgramNoSuccessor(p, c) ==
    /\ p.lock = c.lock
    /\ ContextKind(p) = ContextKind(c)
    /\ p.covenant # None => [p.covenant EXCEPT !.outLock = None, !.inCommitment = None, !.outCommitment = None]
                          = [c.covenant EXCEPT !.outLock = None, !.inCommitment = None, !.outCommitment = None]
    /\ p.grouped # None => SameGroupedProgram(p.grouped, c.grouped)

SameStepProgram(p, c) ==
    /\ p.lock = c.lock
    /\ ContextKind(p) = ContextKind(c)
    /\ p.covenant # None => SameCovenantProgram(p.covenant, c.covenant)
    /\ p.intraTx # None => p.intraTx.index = c.intraTx.index
                           /\ SameLockings(p.intraTx.inputs, c.intraTx.inputs)
    /\ p.grouped # None => SameGroupedProgram(p.grouped, c.grouped)

SameProgramRun(primary, run) ==
    /\ RunShape(primary)
    /\ RunShape(run)
    /\ Len(run) = Len(primary)
    /\ \A i \in DOMAIN run : SameStepProgram(primary[i], run[i])

-----------------------------------------------------------------------------
(* Proof identity                                                           *)

(* A locator names a number, or a range of the bytes of a push.             *)
Located(run, loc) ==
    /\ loc.input \in DOMAIN run
    /\ loc.push \in DOMAIN run[loc.input].unlock
    /\ LET push == run[loc.input].unlock[loc.push]
       IN  IF loc.encoding = "vm-number"
           THEN loc.offset = None /\ loc.length = None /\ NumberOf(push) # None
           ELSE /\ loc.length # None /\ loc.length > 0
                /\ BytesOf(push) # None
                /\ Given(loc.offset, 0) + loc.length <= Len(BytesOf(push))

(* Variant: the bytes pushed, so an other encoding is an other proof.       *)
ComponentRaw(run, loc) == << run[loc.input].unlock[loc.push] >>

Component(run, loc) ==
    LET push == run[loc.input].unlock[loc.push]
        from == Given(loc.offset, 0)
    IN  IF loc.encoding = "vm-number" THEN << NumberOf(push) >>
        ELSE SubSeq(BytesOf(push), from + 1, from + loc.length)

ProofFingerprint(run, locators) == [k \in DOMAIN locators |-> Component(run, locators[k])]

HonestList(s) == << s.valid >> \o s.extras

(* Variant: an extra is compared with the primary run only.                 *)
HonestRunsVersusPrimary(locators, s) ==
    /\ RunShape(s.valid)
    /\ \A i \in DOMAIN s.extras : SameProgramRun(s.valid, s.extras[i])
    /\ s.worst # None => SameProgramRun(s.valid, s.worst)
    /\ \A k \in DOMAIN locators :
        /\ \A i \in DOMAIN HonestList(s) : Located(HonestList(s)[i], locators[k])
        /\ s.worst # None => Located(s.worst, locators[k])
    /\ locators # << >> =>
        \A j \in DOMAIN s.extras :
            ProofFingerprint(s.valid, locators) # ProofFingerprint(s.extras[j], locators)

(* assertHonestRuns returns, and the identity it reports.                   *)
HonestRuns(locators, s) ==
    /\ RunShape(s.valid)
    /\ \A i \in DOMAIN s.extras : SameProgramRun(s.valid, s.extras[i])
    /\ s.worst # None => SameProgramRun(s.valid, s.worst)
    /\ \A k \in DOMAIN locators :
        /\ \A i \in DOMAIN HonestList(s) : Located(HonestList(s)[i], locators[k])
        /\ s.worst # None => Located(s.worst, locators[k])
    /\ locators # << >> =>
        \A i, j \in DOMAIN HonestList(s) :
            i < j => ProofFingerprint(HonestList(s)[i], locators)
                     # ProofFingerprint(HonestList(s)[j], locators)

ProofIdentity(locators, s) ==
    [declared |-> locators # << >>, distinct |-> locators # << >> /\ s.extras # << >>]

DistinctExtraProofs(locators, s) == IF locators = << >> THEN << >> ELSE s.extras

-----------------------------------------------------------------------------
(* Not in the code: what the properties of several modules ask of proofs.   *)

(* Two runs carry one proof if every located number is the same number and  *)
(* every located byte the same byte, whatever the encoding of the pushes    *)
(* and whatever else the witnesses contain.                                 *)
SameProof(r, q, locators) ==
    \A k \in DOMAIN locators :
        LET loc   == locators[k]
            in(x) == x[loc.input].unlock[loc.push]
        IN  IF loc.encoding = "vm-number" THEN NumberOf(in(r)) = NumberOf(in(q))
            ELSE \A b \in 1 .. loc.length :
                    BytesOf(in(r))[Given(loc.offset, 0) + b] = BytesOf(in(q))[Given(loc.offset, 0) + b]
=============================================================================
