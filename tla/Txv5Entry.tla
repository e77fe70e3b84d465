----------------------------- MODULE Txv5Entry -----------------------------
(***************************************************************************)
(* The TXv5 grade of an entry (txv5Grade and txv5Summary of                *)
(* src/harness/txv5.ts): every honest run, or that of the variant an entry *)
(* may bring for this grade, is graded in turn as in module Txv5Grade, and *)
(* the figures are summed up for the site.  That the variant's runs keep   *)
(* to the contract is checked as it is for the entry's (ScenarioContract). *)
(***************************************************************************)
EXTENDS Txv5Grade, Sequences

CONSTANT Entries   \* what there is to grade

(* The runs graded, in order, named: the valid run, the extra proofs, the   *)
(* worst case; the names of those of the shipped entry; the runs the        *)
(* variant says are invalid.                                                *)
ASSUME EntriesAssumption ==
    \A e \in Entries :
        /\ e.runs \in Seq(Runs) /\ e.runs # << >>
        /\ e.invalid \subseteq Runs

VARIABLES
  entry,
  stage,   \* check, grade, then how it ended: graded, threw
  honest   \* the figures so far, in the order of the runs

entryVars == <<vars, entry, stage, honest>>

-----------------------------------------------------------------------------
(* The steps of txv5Grade                                                   *)

Restart(r) ==
    /\ run' = r
    /\ pc' = "measure"
    /\ slots' = [i \in Inputs |-> "none"]
    /\ lens' = [i \in Inputs |-> 0]
    /\ iter' = 0
    /\ padded' = [mode \in Mode |-> Outcome("pending", Shipped)]
    /\ padding' = "none"
    /\ figure' = NoFigure

EntryInit ==
    /\ entry \in Entries
    /\ stage = "check"
    /\ honest = << >>
    /\ run = entry.runs[1]
    /\ Init

(* The budget is lifted: a run is invalid for what it says, not for what it *)
(* costs.                                                                   *)
IsInvalid(r) == \A mode \in Mode : ~Accepted(r, mode, Shipped)

(* A variant has the honest runs of the entry and rejects its invalid ones. *)
Represents(e) == e.names = e.shippedNames /\ \A r \in e.invalid : IsInvalid(r)

Check ==
    /\ stage = "check"
    /\ stage' = IF Represents(entry) THEN "grade" ELSE "threw"
    /\ UNCHANGED <<vars, entry, honest>>

GradeRun ==
    /\ stage = "grade"
    /\ Next
    /\ UNCHANGED <<entry, stage, honest>>

Graded == stage = "grade" /\ pc = "done"

NextRun ==
    /\ Graded
    /\ Len(honest) + 1 < Len(entry.runs)
    /\ honest' = Append(honest, figure)
    /\ Restart(entry.runs[Len(honest) + 2])
    /\ UNCHANGED <<entry, stage>>

LastRun ==
    /\ Graded
    /\ Len(honest) + 1 = Len(entry.runs)
    /\ honest' = Append(honest, figure)
    /\ stage' = "graded"
    /\ UNCHANGED <<vars, entry>>

EntryNext == Check \/ GradeRun \/ NextRun \/ LastRun

EntrySpec == EntryInit /\ [][EntryNext]_entryVars /\ WF_entryVars(EntryNext)

-----------------------------------------------------------------------------
(* The summary, by the positions of the runs; 0 for none                    *)

Status(s) == {k \in DOMAIN honest : honest[k].status = s}

NeedsPadding == DOMAIN honest \ (Status("as-shipped") \cup Status("invalid"))

Cost(k) == Max({0, honest[k].score})

(* The first of those that cost most.                                       *)
Largest(runs) ==
    IF runs = {} THEN 0
    ELSE Min({k \in runs : \A j \in runs : Cost(j) <= Cost(k)})

(* Variant: among the runs that need padding, if there are any.             *)
WorstPaddedFirst ==
    IF Status("invalid") # {} THEN Min(Status("invalid"))
    ELSE Largest(IF NeedsPadding # {} THEN NeedsPadding ELSE DOMAIN honest)

Worst ==
    IF Status("invalid") # {} THEN Min(Status("invalid")) ELSE Largest(DOMAIN honest)

NotStandard == {k \in DOMAIN honest : ~honest[k].standard}

NonStandard ==
    IF Worst \in NotStandard THEN Worst
    ELSE IF NotStandard = {} THEN 0 ELSE Min(NotStandard)

(* The figure of the valid run goes first; what coincides is shown once.    *)
Summary ==
    [figure      |-> honest[1],
     standard    |-> NonStandard = 0,
     nonStandard |-> NonStandard,
     worst       |-> IF Worst = 1 THEN 0 ELSE Worst,
     worstPadded |-> IF Largest(NeedsPadding) \in {Worst, 1} THEN 0 ELSE Largest(NeedsPadding),
     mixed       |-> Status("as-shipped") \notin {{}, DOMAIN honest}]

-----------------------------------------------------------------------------
(* Properties                                                               *)

(* The reader of the summary sees the worst of the entry (comment of        *)
(* Txv5Summary), though only one to three figures are shown: an invalid run *)
(* is shown if there is one; if there is none, no honest run costs more     *)
(* than a figure shown; of the runs that need padding none costs more than  *)
(* one shown that needs it too; and an entry is called relayable only if    *)
(* all its honest runs are, or a run that is not is named.                  *)
SummaryShowsTheWorst ==
    stage = "graded" =>
        LET shown == {1, Summary.worst, Summary.worstPadded} \ {0}
        IN  /\ Status("invalid") # {} => shown \cap Status("invalid") # {}
            /\ Status("invalid") = {} =>
                 \A k \in DOMAIN honest : \E x \in shown : Cost(k) <= Cost(x)
            /\ \A k \in NeedsPadding : \E x \in shown \cap NeedsPadding : Cost(k) <= Cost(x)
            /\ IF Summary.standard THEN NotStandard = {} ELSE Summary.nonStandard \in NotStandard

(* Every entry is graded or refused in the end, whether the padding of its  *)
(* runs settles or not.                                                     *)
EveryEntryIsGraded == <>(stage \in {"graded", "threw"})
=============================================================================
