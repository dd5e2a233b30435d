---------------------------- MODULE Integration ----------------------------
(* A review branch with green CI is merged once the operator approves that  *)
(* head of it (SelfImprovementMergeManager).                               *)
EXTENDS ReviewBranch

VARIABLES
    mergeRuns,      \* the rows of self_improvement_merge_runs
    numbered,       \* the merge runs that have been prepared
    attested,       \* what CI has attested and a run has stored
    granted,        \* what the operator has saved an approval of
    merges          \* the merges that the gateway has made

mergeVars == <<mergeRuns, numbered, attested, granted, merges>>

Unattested == [pushes |-> 0, file |-> "none"]
MergeRun(branchRun) ==
    [id |-> numbered + 1, branch |-> branchRun.id, proposal |-> branchRun.proposal,
     hash |-> branchRun.hash, base |-> branchRun.base, status |-> "waiting_ci",
     head |-> Unattested, approved |-> FALSE]
Green(run, head) == [run |-> run.id, hash |-> run.hash, base |-> run.base, head |-> head]

MergeInit == mergeRuns = {} /\ numbered = 0 /\ attested = {} /\ granted = {} /\ merges = {}

MergeUnchanged == UNCHANGED <<main, improvementVars, branchVars>>

\* INSERT OR REPLACE, with one row for an id and one for a branch run.
SaveMergeRun(row) ==
    mergeRuns' = {r \in mergeRuns : r.id # row.id /\ r.branch # row.branch} \cup {row}

\* The accepted bundle is still there, and the branch run is still the
\* materialized one that the merge run was prepared from.
Binding(run) ==
    /\ Accepted(run.proposal)
    /\ \E b \in branchRuns :
         /\ b.id = run.branch /\ b.status = "materialized"
         /\ b.hash = run.hash /\ b.base = run.base
    /\ \A c \in CandidateOf(run.proposal) : c.hash = run.hash

\* What the CI gateway finds: the branch's head, and green checks only on a
\* head that holds the candidate's file.
Attestable(run, head) ==
    /\ \E b \in Review(Name(run)) : b.head = head
    /\ head.file = run.hash.text

-----------------------------------------------------------------------------
(* prepare.                                                                *)

PrepareMerge(p) ==
    /\ \E b \in branchRuns :
         /\ b.status = "materialized" /\ Accepted(b.proposal)
         /\ \A r \in mergeRuns : r.branch # b.id
         /\ Hold(p, b)
    /\ Go(p, "plan_merge")
    /\ UNCHANGED mergeVars /\ MergeUnchanged

\* The second of two preparations takes the place of the first.
PlanMerge(p) ==
    /\ at[p] = "plan_merge"
    /\ SaveMergeRun(MergeRun(mine[p]))
    /\ numbered' = numbered + 1
    /\ Stop(p)
    /\ UNCHANGED <<attested, granted, merges>> /\ MergeUnchanged

-----------------------------------------------------------------------------
(* attest_ci.                                                              *)

AttestBegin(p) ==
    /\ \E r \in mergeRuns : r.status = "waiting_ci" /\ Binding(r) /\ Hold(p, r)
    /\ Go(p, "attest")
    /\ UNCHANGED mergeVars /\ MergeUnchanged

\* A branch that is not green, or a gateway that is not heard, raises.
Attest(p) ==
    LET run == mine[p] IN
    /\ at[p] = "attest"
    /\ \/ \E b \in reviews :
            /\ Attestable(run, b.head)
            /\ SaveMergeRun([run EXCEPT !.status = "waiting_approval", !.head = b.head])
            /\ attested' = attested \cup {Green(run, b.head)}
       \/ UNCHANGED <<mergeRuns, attested>>
    /\ Stop(p)
    /\ UNCHANGED <<numbered, granted, merges>> /\ MergeUnchanged

-----------------------------------------------------------------------------
(* approve, or reject in the inbox.                                        *)

ReadForMergeApproval(p) ==
    /\ \E r \in mergeRuns : r.status = "waiting_approval" /\ Hold(p, r)
    /\ Go(p, "approve_merge")
    /\ UNCHANGED mergeVars /\ MergeUnchanged

\* Written from the row that was read.
ApproveMerge(p) ==
    /\ at[p] = "approve_merge"
    /\ SaveMergeRun([mine[p] EXCEPT !.status = "ready", !.approved = TRUE])
    /\ granted' = granted \cup {Green(mine[p], mine[p].head)}
    /\ Stop(p)
    /\ UNCHANGED <<numbered, attested, merges>> /\ MergeUnchanged

CancelMerge(p) ==
    /\ at[p] = "approve_merge"
    /\ SaveMergeRun([mine[p] EXCEPT !.status = "cancelled", !.approved = FALSE])
    /\ Stop(p)
    /\ UNCHANGED <<numbered, attested, granted, merges>> /\ MergeUnchanged

-----------------------------------------------------------------------------
(* merge.                                                                  *)

MergeBegin(p) ==
    /\ \E r \in mergeRuns : r.status = "ready" /\ r.approved /\ Hold(p, r)
    /\ Go(p, "check_merge")
    /\ UNCHANGED mergeVars /\ MergeUnchanged

Block(p) == SaveMergeRun([mine[p] EXCEPT !.status = "blocked"]) /\ Stop(p)

\* Faulty: a green head is merged whichever head was approved.
SameHeadOrGreen(run, head) == TRUE

\* The fresh attestation is the one that was approved.
SameHead(run, head) == head = run.head

\* CI is asked again. A branch that is not green raises, and the run stays
\* ready; a bundle that is not valid or another green head blocks the run.
CheckMerge(p) ==
    LET run == mine[p] IN
    /\ at[p] = "check_merge"
    /\ \/ ~Binding(run) /\ Block(p)
       \/ /\ Binding(run)
          /\ \/ Stop(p) /\ UNCHANGED mergeRuns
             \/ \E b \in reviews :
                  /\ Attestable(run, b.head)
                  /\ IF SameHead(run, b.head)
                     THEN /\ Go(p, "merge") /\ Hold(p, [run EXCEPT !.head = b.head])
                          /\ UNCHANGED mergeRuns
                     ELSE Block(p)
    /\ UNCHANGED <<numbered, attested, granted, merges>> /\ MergeUnchanged

MergeOf(run) == {m \in merges : m.run = run.id}

\* The gateway merges the head it was given, when that still is the head of
\* the branch and the default branch still is at the base. A run that it has
\* merged before gets the same answer.
Merges(run) ==
    /\ Len(main) = run.base
    /\ \E b \in Review(Name(run)) : b.head = run.head

\* A refusal and an answer that is not heard raise: the run stays ready. An
\* answer about something else blocks it, also when the merge was made.
CallMerge(p) ==
    LET run == mine[p]
        Heard == Go(p, "merged") /\ UNCHANGED <<mine, mergeRuns>>
        Unheard == Stop(p) /\ UNCHANGED mergeRuns
    IN
    /\ at[p] = "merge"
    /\ \/ MergeOf(run) = {} /\ (Unheard \/ Block(p)) /\ UNCHANGED <<main, merges>>
       \/ MergeOf(run) # {} /\ (Heard \/ Unheard \/ Block(p)) /\ UNCHANGED <<main, merges>>
       \/ /\ MergeOf(run) = {} /\ Merges(run)
          /\ merges' = merges \cup {[run |-> run.id, green |-> Green(run, run.head),
                                     onto |-> main[run.base]]}
          /\ main' = Append(main, run.head.file)
          /\ (Heard \/ Unheard \/ Block(p))
    /\ UNCHANGED <<improvementVars, branchVars, numbered, attested, granted>>

MergeDone(p) ==
    /\ at[p] = "merged"
    /\ SaveMergeRun([mine[p] EXCEPT !.status = "merged"])
    /\ Stop(p)
    /\ UNCHANGED <<numbered, attested, granted, merges>> /\ MergeUnchanged

MergeStep(p) ==
    \/ PlanMerge(p) \/ Attest(p) \/ ApproveMerge(p) \/ CancelMerge(p)
    \/ CheckMerge(p) \/ CallMerge(p) \/ MergeDone(p)

MergeByHand(p) ==
    PrepareMerge(p) \/ AttestBegin(p) \/ ReadForMergeApproval(p) \/ MergeBegin(p)
=============================================================================
