---------------------------- MODULE Improvement ----------------------------
(* The program proposes a change of its own code, writes it in a sandbox   *)
(* and has an evaluator outside judge it (SelfImprovementMachine). A change *)
(* is one file: what it replaces and what it writes. No host timer runs    *)
(* these ticks, so nothing is promised about when they come.               *)
EXTENDS Incidents, FiniteSets, SequencesExt

CONSTANTS
    Content,        \* the contents that the file may have
    Code,           \* Code[c]: what the policy looks at in content c
    Baseline,       \* the content of the first revision
    Response,       \* the reports an evaluator may give
    MaxProposals    \* bound on the proposals

Snapshot == [passed : BOOLEAN, tests : Nat, metric : Int]

ASSUME ImprovementAssumption ==
    /\ Baseline \in Content
    /\ Code \in [Content -> [bytes : Nat, imports : SUBSET STRING, flawed : BOOLEAN]]
    /\ Response \subseteq [baseline : Snapshot, candidate : Snapshot, regressions : BOOLEAN]
    /\ MaxProposals \in Nat

VARIABLES
    main,           \* the contents of the file by revision of the default branch
    proposals,      \* the rows of self_improvement_proposals, latest update first
    candidates,     \* the rows of self_improvement_candidates
    evaluations,    \* the rows of self_improvement_evaluations
    intact          \* the proposals whose sandbox still holds what was written

improvementVars == <<proposals, candidates, evaluations, intact>>

ImprovementInit ==
    /\ main = <<Baseline>>
    /\ proposals = <<>> /\ candidates = {} /\ evaluations = {} /\ intact = {}

Waiting == {"proposed", "materialized", "waiting_evaluation", "waiting_merge_approval"}

Proposal(i) == SelectSeq(proposals, LAMBDA r : r.id = i)[1]
Active == SelectSeq(proposals, LAMBDA r : r.status \in Waiting)
CandidateOf(i) == {c \in candidates : c.proposal = i}
EvaluationOf(i) == {e \in evaluations : e.proposal = i}

\* The row takes the place of the one with its id; it was updated last.
SaveProposal(row) ==
    proposals' = <<row>> \o SelectSeq(proposals, LAMBDA r : r.id # row.id)

-----------------------------------------------------------------------------
(* propose.                                                                *)

\* Whether the audit log has a signal, or the operator an objective, is left
\* open: without either the planner raises before it calls the model.
ProposeBegin(p) ==
    /\ Active = <<>> /\ Len(proposals) < MaxProposals
    /\ Go(p, "plan") /\ UNCHANGED mine
    /\ UNCHANGED <<main, improvementVars>>

\* Whether a proposal is still active is not asked again.
Plan(p) ==
    /\ at[p] = "plan" /\ Len(proposals) < MaxProposals
    /\ SaveProposal([id |-> Len(proposals) + 1, status |-> "proposed"])
    /\ Stop(p)
    /\ UNCHANGED <<main, candidates, evaluations, intact>>

-----------------------------------------------------------------------------
(* materialize.                                                            *)

MaterializeBegin(p, i) ==
    /\ Proposal(i).status = "proposed" /\ CandidateOf(i) = {}
    /\ Go(p, "generate") /\ Hold(p, Proposal(i))
    /\ UNCHANGED <<main, improvementVars>>

\* What a candidate may be: a change, within the byte cap, without new
\* imports, credentials, forbidden calls or syntax errors.
Permitted(original, text) ==
    /\ text # original
    /\ Code[text].bytes <= 35000
    /\ Code[text].imports \subseteq Code[original].imports
    /\ ~Code[text].flawed

Hash(original, text) == [original |-> original, text |-> text]

\* The candidate is written against the checkout, which may be any revision.
\* Its bytes go to the sandbox and its row to the database, where neither its
\* proposal nor its hash may have a row; then the insertion raises and the
\* proposal stays as it is.
Generate(p) ==
    /\ at[p] = "generate"
    /\ \/ \E original \in Range(main), text \in Content :
            /\ Permitted(original, text)
            /\ IF CandidateOf(mine[p].id) = {}
                  /\ \A c \in candidates : c.hash # Hash(original, text)
               THEN /\ candidates' = candidates \cup
                           {[proposal |-> mine[p].id, hash |-> Hash(original, text)]}
                    /\ intact' = intact \cup {mine[p].id}
                    /\ Go(p, "mark") /\ UNCHANGED mine
               ELSE Stop(p) /\ UNCHANGED <<candidates, intact>>
       \/ Stop(p) /\ UNCHANGED <<candidates, intact>>
    /\ UNCHANGED <<main, proposals, evaluations>>

MarkMaterialized(p) ==
    /\ at[p] = "mark"
    /\ SaveProposal([mine[p] EXCEPT !.status = "materialized"])
    /\ Stop(p)
    /\ UNCHANGED <<main, candidates, evaluations, intact>>

-----------------------------------------------------------------------------
(* evaluate.                                                               *)

EvaluateBegin(p, i) ==
    /\ Proposal(i).status \in {"materialized", "waiting_evaluation"}
    /\ CandidateOf(i) # {} /\ EvaluationOf(i) = {}
    /\ Go(p, "wait") /\ Hold(p, Proposal(i))
    /\ UNCHANGED <<main, improvementVars>>

\* Written from the row that was read, whatever its status is by now.
MarkWaiting(p) ==
    /\ at[p] = "wait"
    /\ SaveProposal([mine[p] EXCEPT !.status = "waiting_evaluation"])
    /\ Go(p, "ask") /\ UNCHANGED mine
    /\ UNCHANGED <<main, candidates, evaluations, intact>>

\* An improvement is credited against a healthy baseline, with no fewer tests
\* and no regression.
Credited(r) ==
    /\ r.baseline.passed /\ r.baseline.tests > 0
    /\ r.candidate.passed /\ r.candidate.tests >= r.baseline.tests
    /\ ~r.regressions
    /\ r.candidate.metric - r.baseline.metric >= 1

\* Faulty: the evaluator's baseline need not be what the candidate replaces.
CountsForAny(judged, candidate) == TRUE

\* The report is about the source the candidate was written against.
CountsFor(judged, candidate) == judged = candidate.hash.original

\* The evaluator names the source it judged, of any revision. A proposal has
\* one evaluation: for the slower of two the insertion raises.
Ask(p) ==
    LET i == mine[p].id
        candidate == CHOOSE c \in CandidateOf(i) : TRUE
    IN
    /\ at[p] = "ask"
    /\ \/ \E judged \in Range(main), r \in Response :
            /\ i \in intact /\ EvaluationOf(i) = {} /\ CountsFor(judged, candidate)
            /\ evaluations' = evaluations \cup
                   {[proposal |-> i, hash |-> candidate.hash, judged |-> judged,
                     accepted |-> Credited(r)]}
            /\ Go(p, IF Credited(r) THEN "accept" ELSE "reject") /\ UNCHANGED mine
       \/ Stop(p) /\ UNCHANGED evaluations
    /\ UNCHANGED <<main, proposals, candidates, intact>>

MarkEvaluated(p) ==
    /\ at[p] \in {"accept", "reject"}
    /\ SaveProposal([mine[p] EXCEPT !.status =
           IF at[p] = "accept" THEN "waiting_merge_approval" ELSE "rejected"])
    /\ Stop(p)
    /\ UNCHANGED <<main, candidates, evaluations, intact>>

ImproveStep(p) ==
    \/ Plan(p) \/ Generate(p) \/ MarkMaterialized(p)
    \/ MarkWaiting(p) \/ Ask(p) \/ MarkEvaluated(p)

-----------------------------------------------------------------------------
(* tick: one operation on the active proposal that was updated last.       *)

Tick(p) ==
    \/ ProposeBegin(p)
    \/ /\ Active # <<>>
       /\ MaterializeBegin(p, Active[1].id) \/ EvaluateBegin(p, Active[1].id)

\* The commands name any proposal.
ImproveByHand(p) ==
    \E i \in 1 .. Len(proposals) : MaterializeBegin(p, i) \/ EvaluateBegin(p, i)

\* Somebody edits a candidate's file in its sandbox.
Tamper ==
    /\ \E i \in intact : intact' = intact \ {i}
    /\ UNCHANGED <<main, proposals, candidates, evaluations>>
=============================================================================
