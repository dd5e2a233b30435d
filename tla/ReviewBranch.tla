---------------------------- MODULE ReviewBranch ----------------------------
(* An accepted candidate is put on a review branch of an exact revision    *)
(* once the operator approves that (SelfImprovementBranchManager). People   *)
(* may push to the branch and to the default branch meanwhile.             *)
EXTENDS Improvement

VARIABLES
    branchRuns,     \* the rows of self_improvement_branch_runs
    prepared,       \* what was ever prepared for approval
    consented,      \* what the operator has saved an approval of
    reviews         \* the review branches in the repository, with their heads

branchVars == <<branchRuns, prepared, consented, reviews>>

\* A run is numbered by the preparations before it. Its branch is named after
\* the proposal and the hash.
BranchRun(i, candidate, base) ==
    [id |-> Cardinality(prepared) + 1, proposal |-> i, hash |-> candidate.hash,
     base |-> base, status |-> "waiting_approval", approved |-> FALSE]
Bound(run) == [id |-> run.id, proposal |-> run.proposal, hash |-> run.hash, base |-> run.base]
Name(run) == [proposal |-> run.proposal, hash |-> run.hash]

BranchInit == branchRuns = {} /\ prepared = {} /\ consented = {} /\ reviews = {}

\* The branch of that name, as a set with at most one element.
Review(name) == {b \in reviews : b.name = name}

\* INSERT OR REPLACE, with one row for an id and one for a proposal.
SaveBranchRun(row) ==
    branchRuns' = {r \in branchRuns : r.id # row.id /\ r.proposal # row.proposal} \cup {row}

\* The proposal waits for its merge, its evaluation accepted its candidate,
\* and the sandbox still holds the candidate's bytes.
Accepted(i) ==
    /\ Proposal(i).status = "waiting_merge_approval"
    /\ i \in intact
    /\ \E c \in CandidateOf(i), e \in EvaluationOf(i) : e.accepted /\ e.hash = c.hash

-----------------------------------------------------------------------------
(* prepare.                                                                *)

\* The operator names the revision. A proposal that has a run keeps it.
PrepareBranch(p, i) ==
    /\ Accepted(i)
    /\ \A r \in branchRuns : r.proposal # i
    /\ \E base \in 1 .. Len(main) : Hold(p, [id |-> i, base |-> base])
    /\ Go(p, "plan_branch")
    /\ UNCHANGED <<main, improvementVars, branchVars>>

PlanBranch(p) ==
    /\ at[p] = "plan_branch"
    /\ \E c \in CandidateOf(mine[p].id) :
         LET run == BranchRun(mine[p].id, c, mine[p].base) IN
         SaveBranchRun(run) /\ prepared' = prepared \cup {Bound(run)}
    /\ Stop(p)
    /\ UNCHANGED <<main, improvementVars, consented, reviews>>

-----------------------------------------------------------------------------
(* approve, or reject in the inbox.                                        *)

ReadForBranchApproval(p) ==
    /\ \E r \in branchRuns : r.status = "waiting_approval" /\ Hold(p, r)
    /\ Go(p, "approve_branch")
    /\ UNCHANGED <<main, improvementVars, branchVars>>

\* Written from the row that was read.
ApproveBranch(p) ==
    /\ at[p] = "approve_branch"
    /\ SaveBranchRun([mine[p] EXCEPT !.status = "ready", !.approved = TRUE])
    /\ consented' = consented \cup {Bound(mine[p])}
    /\ Stop(p)
    /\ UNCHANGED <<main, improvementVars, prepared, reviews>>

CancelBranch(p) ==
    /\ at[p] = "approve_branch"
    /\ SaveBranchRun([mine[p] EXCEPT !.status = "cancelled", !.approved = FALSE])
    /\ Stop(p)
    /\ UNCHANGED <<main, improvementVars, prepared, consented, reviews>>

-----------------------------------------------------------------------------
(* materialize.                                                            *)

BranchBegin(p) ==
    /\ \E r \in branchRuns : r.status = "ready" /\ r.approved /\ Hold(p, r)
    /\ Go(p, "create_branch")
    /\ UNCHANGED <<main, improvementVars, branchVars>>

\* The gateway creates a branch of a name once, if the file at the base is
\* still what the candidate replaces; the run's id makes a repetition harmless.
Creates(run) ==
    /\ main[run.base] = run.hash.original
    /\ \A b \in Review(Name(run)) : b.run = run.id

\* The accepted bundle is read again right before the gateway is called.
ReadyToCreate(run) ==
    /\ Accepted(run.proposal)
    /\ \A c \in CandidateOf(run.proposal) : c.hash = run.hash

\* A bundle that is not valid any more, or an answer about something else,
\* blocks the run; a gateway that refuses or is not heard fails it. Either may
\* happen when it has created the branch.
CreateBranch(p) ==
    LET run == mine[p]
        Settle(status) == SaveBranchRun([run EXCEPT !.status = status]) /\ Stop(p)
        branch == [name |-> Name(run), run |-> run.id, base |-> run.base,
                   head |-> [pushes |-> 0, file |-> run.hash.text]]
    IN
    /\ at[p] = "create_branch"
    /\ \/ Settle("blocked") /\ UNCHANGED reviews
       \/ ReadyToCreate(run) /\ Settle("failed") /\ UNCHANGED reviews
       \/ /\ ReadyToCreate(run) /\ Creates(run)
          /\ reviews' = IF Review(Name(run)) = {} THEN reviews \cup {branch} ELSE reviews
          /\ \/ Settle("failed") \/ Settle("blocked")
             \/ Go(p, "created_branch") /\ UNCHANGED <<mine, branchRuns>>
    /\ UNCHANGED <<main, improvementVars, prepared, consented>>

BranchCreated(p) ==
    /\ at[p] = "created_branch"
    /\ SaveBranchRun([mine[p] EXCEPT !.status = "materialized"])
    /\ Stop(p)
    /\ UNCHANGED <<main, improvementVars, prepared, consented, reviews>>

BranchStep(p) ==
    \/ PlanBranch(p) \/ ApproveBranch(p) \/ CancelBranch(p)
    \/ CreateBranch(p) \/ BranchCreated(p)

BranchByHand(p) ==
    \/ \E i \in 1 .. Len(proposals) : PrepareBranch(p, i)
    \/ ReadForBranchApproval(p) \/ BranchBegin(p)

-----------------------------------------------------------------------------
(* People.                                                                 *)

\* A commit on a review branch, of this file or of another one.
PushReview ==
    /\ \E b \in reviews, file \in Content :
         reviews' = (reviews \ {b}) \cup
             {[b EXCEPT !.head = [pushes |-> @.pushes + 1, file |-> file]]}
    /\ UNCHANGED <<main, improvementVars, branchRuns, prepared, consented>>

\* A commit on the default branch.
PushMain ==
    /\ \E file \in Content : main' = Append(main, file)
    /\ UNCHANGED <<improvementVars, branchVars>>
=============================================================================
