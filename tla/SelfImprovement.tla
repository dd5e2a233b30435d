-------------------------- MODULE SelfImprovement --------------------------
(* A change of the program's own code, from its proposal to the default    *)
(* branch. Every operation is a command of an operator: the ticks of the   *)
(* machine too, which no host timer runs.                                  *)
EXTENDS Integration

CONSTANT MaxMishaps     \* bound: commands that overlap or are out of turn, processes
                        \* that die, and what people change, together

ASSUME SelfImprovementAssumption == MaxMishaps \in Nat

improveVars == <<processVars, main, improvementVars, branchVars, mergeVars, incidents>>

SelfInit == Quiet /\ ImprovementInit /\ BranchInit /\ MergeInit

\* A tick, or the next command on a run.
Improve(p) ==
    /\ Starts(p, MaxMishaps)
    /\ \/ Tick(p) /\ UNCHANGED <<branchVars, mergeVars>>
       \/ BranchByHand(p) /\ UNCHANGED mergeVars
       \/ MergeByHand(p)

\* materialize or evaluate on a proposal that the next tick would not take.
ImproveOther(p) ==
    /\ at[p] = "idle" /\ Incident(MaxMishaps)
    /\ ImproveByHand(p) /\ UNCHANGED <<branchVars, mergeVars>>

ImproveWork(p) ==
    /\ \/ ImproveStep(p) /\ UNCHANGED <<branchVars, mergeVars>>
       \/ BranchStep(p) /\ UNCHANGED mergeVars
       \/ MergeStep(p)
    /\ UNCHANGED incidents

ImproveCrash(p) ==
    Dies(p, MaxMishaps) /\ UNCHANGED <<main, improvementVars, branchVars, mergeVars>>

People ==
    /\ Incident(MaxMishaps) /\ UNCHANGED processVars
    /\ \/ Tamper /\ UNCHANGED <<branchVars, mergeVars>>
       \/ (PushReview \/ PushMain) /\ UNCHANGED mergeVars

SelfNext ==
    \/ \E p \in Process :
         Improve(p) \/ ImproveOther(p) \/ ImproveWork(p) \/ ImproveCrash(p)
    \/ People

SelfSpec == SelfInit /\ [][SelfNext]_improveVars

-----------------------------------------------------------------------------
(* What is promised.                                                       *)

Hashes == [original : Content, text : Content]
Heads == [pushes : Nat, file : Content]
BoundContents == [id : Nat, proposal : Nat, hash : Hashes, base : Nat]
GreenContents == [run : Nat, hash : Hashes, base : Nat, head : Heads]

BranchGate == INSTANCE GatedEffect WITH
    Content <- BoundContents,
    examined <- prepared, approved <- consented,
    done <- {[id |-> b.run, proposal |-> b.name.proposal, hash |-> b.name.hash,
              base |-> b.base] : b \in reviews}

MergeGate == INSTANCE GatedEffect WITH
    Content <- GreenContents,
    examined <- attested, approved <- granted, done <- {m.green : m \in merges}

(* Both effects on the repository keep to their gates: a review branch is  *)
(* created for a candidate and a base that the operator approved, and a    *)
(* merge takes the head that CI found green and the operator approved      *)
(* after that, whoever pushes to the branch, whichever command overlaps    *)
(* with another and whichever answer of a gateway is lost.                 *)
ChangesAreApproved == BranchGate!GateSpec /\ MergeGate!GateSpec

(* What is merged is what an accepted evaluation credited, replacing       *)
(* exactly the source it was judged against: the evaluator, the review     *)
(* branch and the default branch just before the merge agree on that       *)
(* source, although each is read at a time of its own.                     *)
IntegratedAsEvaluated ==
    \A m \in merges : \E e \in evaluations :
        /\ e.accepted /\ e.hash = m.green.hash
        /\ e.judged = m.onto
        /\ m.green.head.file = e.hash.text
=============================================================================
