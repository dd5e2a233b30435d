---------------------------- MODULE Reallocation ----------------------------
(***************************************************************************)
(* PortfolioReallocator.reconcile on top of the treasury: a wake's tick    *)
(* reads the latest plan, its envelopes and its open commitments, asks the *)
(* allocator for a plan over what is left, stores it and activates it, and *)
(* then lets the scheduler work.  Each of those is a transaction of its    *)
(* own; other processes may run, and this one may die, between any two.    *)
(*                                                                         *)
(* leased is chosen once: it says whether all work on the treasury goes    *)
(* through ticks that hold the wake lease, or operator commands and a      *)
(* manual autopilot may charge envelopes and reconcile at any moment.      *)
(***************************************************************************)
EXTENDS Treasury

CONSTANTS
    Inputs,      \* what the allocator reads: candidates, stages, economics, GTM decisions
    MayFollow,   \* pairs of inputs: how the portfolio may change
    Grant,       \* budgets an operator may plan with
    MaxCrashes,  \* bound: processes that die in the middle of a tick
    MaxRows,     \* bound: rows ever inserted into the two ledger tables under the lease
    MaxLooseRows \* bound: the same, when work does not go through the lease

Stage == {"idle", "envelopes", "commitments", "propose", "store", "activate",
          "activating", "discard", "working"}

Task == [at : Stage, previous : Plan \cup {NoPlan}, cash : Nat, calls : Nat,
         offer : PlanContent \cup {None}, proposed : Plan \cup {NoPlan}]

ASSUME RolloverAssumption ==
    /\ MayFollow \subseteq Inputs \X Inputs
    /\ Grant \subseteq PlanContent
    /\ \A c \in PlanContent, i \in Inputs :
          \A cash \in 0..c.cash, calls \in 0..c.calls :
              \E d \in PlanContent : d.inputs = i /\ d.cash = cash /\ d.calls = calls
    /\ MaxCrashes \in Nat /\ MaxRows \in Nat /\ MaxLooseRows \in Nat

VARIABLES
    task,     \* where each process is in its tick, and what it has read so far
    inputs,   \* the portfolio as the allocator would see it now
    leased,   \* is all work on the treasury done under the wake lease
    granted,  \* cash of every budget an operator ever planned with
    crashes

tick == <<task, inputs, leased, granted, crashes>>
allVars == <<vars, task, inputs, leased, granted, crashes>>

NoTask == [at |-> "idle", previous |-> NoPlan, cash |-> 0, calls |-> 0,
           offer |-> None, proposed |-> NoPlan]

\* PortfolioAllocator.plan is a function of the candidates and the budget, and
\* snapshot_hash identifies both.
Proposal(i, cash, calls) ==
    CHOOSE c \in PlanContent : c.inputs = i /\ c.cash = cash /\ c.calls = calls

AllocatesNothing(c) == \A v \in Venture : c.alloc[v].cash + c.alloc[v].calls = 0

Opened(p) == {e \in Envelope : e[1] = p /\ envelope[e].status # "none"}

\* Faulty variant: an envelope that is closed no longer counts as spending.
CashUsedByActive(p) ==
    Total([e \in {f \in Opened(p) : envelope[f].status = "active"} |-> envelope[e].cashUsed])
CashUsed(p) == Total([e \in Opened(p) |-> envelope[e].cashUsed])
CallsUsed(p) == Total([e \in Opened(p) |-> envelope[e].callsUsed])

HasOpenCommitment(p) == \E e \in Opened(p), k \in Key : IsOpen(e, k)

Left(budget, used) == IF used <= budget THEN budget - used ELSE 0

Rows == Cardinality({r \in Envelope \X Key : consumption[r[1]][r[2]] # NoConsumption})
        + Cardinality({r \in Envelope \X Key : reservation[r[1]][r[2]].status # "none"})

-----------------------------------------------------------------------------
ReallocInit ==
    /\ Init
    /\ task = [c \in Client |-> NoTask]
    /\ inputs \in Inputs
    /\ leased \in BOOLEAN
    /\ granted = 0
    /\ crashes = 0

Goto(c, new) == task' = [task EXCEPT ![c] = new]
OnlyTask == UNCHANGED <<inputs, leased, granted, crashes>>

At(c, stage) == task[c].at = stage

\* The scheduler starts its work, also after a rollover that was deferred.
Work(c) == Goto(c, [NoTask EXCEPT !.at = "working"])

\* An exception leaves the tick: the wake is recorded as failed.
Fail(c) == Goto(c, NoTask)

\* reconcile: previous = self.portfolio.latest()
Begin(c) ==
    /\ At(c, "idle")
    /\ leased => \A d \in Client : At(d, "idle")
    /\ IF \E p \in Plan : planState[p] = "saved"
       THEN \E p \in Plan : IsLatest(p) /\ Goto(c, [NoTask EXCEPT !.at = "envelopes", !.previous = p])
       ELSE Work(c)
    /\ OnlyTask /\ UNCHANGED vars

\* Faulty variant: a plan that was stored and not activated is left alone.
ReadEnvelopesOnly(c) ==
    LET p == task[c].previous
    IN  /\ At(c, "envelopes")
        /\ IF Opened(p) = {}
           THEN Work(c)
           ELSE Goto(c, [task[c] EXCEPT !.at = "commitments",
                                        !.cash = CashUsed(p), !.calls = CallsUsed(p)])
        /\ OnlyTask /\ UNCHANGED vars

\* One list() call; the sums are computed from this snapshot of the rows.
ReadEnvelopes(c) ==
    LET p == task[c].previous
    IN  /\ At(c, "envelopes")
        /\ \/ /\ Opened(p) = {} /\ AllocatesNothing(content[p])
              /\ Work(c)
           \/ /\ Opened(p) = {} /\ ~AllocatesNothing(content[p])
              /\ Goto(c, [task[c] EXCEPT !.at = "activate", !.proposed = p])
           \/ /\ Opened(p) # {}
              /\ Goto(c, [task[c] EXCEPT !.at = "commitments",
                                         !.cash = CashUsed(p), !.calls = CallsUsed(p)])
        /\ OnlyTask /\ UNCHANGED vars

ReadCommitments(c) ==
    /\ At(c, "commitments")
    /\ IF HasOpenCommitment(task[c].previous)
       THEN Work(c)
       ELSE Goto(c, [task[c] EXCEPT !.at = "propose"])
    /\ OnlyTask /\ UNCHANGED vars

\* PortfolioAllocator.plan: a plan with the same snapshot is returned as it is.
Propose(c) ==
    LET budget == content[task[c].previous]
        offer == Proposal(inputs, Left(budget.cash, task[c].cash),
                                  Left(budget.calls, task[c].calls))
        same == {p \in Plan : planState[p] = "saved" /\ content[p] = offer}
    IN  /\ At(c, "propose")
        /\ \/ /\ same = {}
              /\ Goto(c, [task[c] EXCEPT !.at = "store", !.offer = offer])
           \/ /\ task[c].previous \in same
              /\ Work(c)
           \/ /\ task[c].previous \notin same
              /\ \E p \in same : Goto(c, [task[c] EXCEPT !.at = "activate", !.proposed = p])
        /\ OnlyTask /\ UNCHANGED vars

StorePlan(c) ==
    /\ At(c, "store")
    /\ \E p \in Plan :
          /\ SavePlan(p, task[c].offer)
          /\ Goto(c, [task[c] EXCEPT !.at = "activate", !.proposed = p])
    /\ OnlyTask

\* INSERT OR IGNORE dropped the row, so the plan in hand is not the latest one.
StoreIgnored(c) ==
    /\ At(c, "store")
    /\ \E p \in Plan : planState[p] = "saved" /\ content[p] = task[c].offer
    /\ Fail(c)
    /\ OnlyTask /\ UNCHANGED vars

CheckProposed(c) ==
    /\ At(c, "activate")
    /\ CheckLatest(c, task[c].proposed)
    /\ Goto(c, [task[c] EXCEPT !.at = "activating"])
    /\ OnlyTask

\* EnvelopeConflict is not caught by reconcile.
Conflict(c) ==
    /\ At(c, "activate")
    /\ ~IsLatest(task[c].proposed)
    /\ Fail(c)
    /\ OnlyTask /\ UNCHANGED vars

Rollover(c) ==
    /\ At(c, "activating")
    /\ Activate(c)
    /\ Work(c)
    /\ OnlyTask

\* Faulty variant: the activation is retried without checking the plan again.
BlockedRetrying(c) ==
    At(c, "activating") /\ AbortActivate(c) /\ OnlyTask /\ UNCHANGED task

\* The trigger's IntegrityError is caught: the rollover is deferred.
Blocked(c) ==
    /\ At(c, "activating")
    /\ AbortActivate(c)
    /\ IF task[c].proposed = task[c].previous
       THEN Work(c)
       ELSE Goto(c, [task[c] EXCEPT !.at = "discard"])
    /\ OnlyTask

\* Faulty variant: deletes the latest plan although another process activated it.
DiscardUnchecked(c) ==
    LET p == task[c].proposed
    IN  /\ At(c, "discard")
        /\ IF IsLatest(p)
           THEN /\ planState' = [planState EXCEPT ![p] = "discarded"]
                /\ UNCHANGED <<content, ledger, checked, snapshot>>
           ELSE UNCHANGED vars
        /\ Work(c)
        /\ OnlyTask

\* Faulty variant: the DELETE has lost its WHERE clause.
DiscardEvery(c) ==
    LET p == task[c].proposed
    IN  /\ At(c, "discard")
        /\ IF IsLatest(p) /\ Opened(p) = {}
           THEN /\ planState' = [q \in Plan |-> IF planState[q] = "saved" THEN "discarded"
                                                                        ELSE planState[q]]
                /\ UNCHANGED <<content, ledger, checked, snapshot>>
           ELSE UNCHANGED vars
        /\ Work(c)
        /\ OnlyTask

\* _discard_unactivated_plan.  Its last line stores the previous plan again when no
\* plan is left; PlanRemains says that there always is one.
Discard(c) ==
    LET p == task[c].proposed
    IN  /\ At(c, "discard")
        /\ \/ DiscardPlan(p)
           \/ (~IsLatest(p) \/ Opened(p) # {}) /\ UNCHANGED vars
        /\ Work(c)
        /\ OnlyTask

EndTick(c) ==
    /\ At(c, "working")
    /\ Fail(c)
    /\ OnlyTask /\ UNCHANGED vars

Crash(c) ==
    /\ crashes < MaxCrashes
    /\ ~At(c, "idle")
    /\ crashes' = crashes + 1
    /\ Fail(c)
    /\ GiveUp(c) \/ (IsIdle(c) /\ UNCHANGED vars)
    /\ UNCHANGED <<inputs, leased, granted>>

TickStep(c) ==
    \/ Begin(c) \/ ReadEnvelopes(c) \/ ReadCommitments(c) \/ Propose(c)
    \/ StorePlan(c) \/ StoreIgnored(c) \/ CheckProposed(c) \/ Conflict(c)
    \/ Rollover(c) \/ Blocked(c) \/ Discard(c) \/ EndTick(c)

\* Ventures are charged by the scheduler inside a tick, or by anybody.
Charge ==
    /\ leased => \E c \in Client : At(c, "working")
    /\ LedgerStep
    /\ Rows' <= IF leased THEN MaxRows ELSE MaxLooseRows
    /\ UNCHANGED tick

\* helis-portfolio plan.
OperatorPlan ==
    \E new \in Grant :
        /\ new.inputs = inputs
        /\ \E p \in Plan : SavePlan(p, new)
        /\ granted' = granted + new.cash
        /\ UNCHANGED <<task, inputs, leased, crashes>>

InputsChange ==
    /\ \E i \in Inputs : <<inputs, i>> \in MayFollow /\ inputs' = i
    /\ UNCHANGED <<vars, task, leased, granted, crashes>>

ReallocNext ==
    \/ \E c \in Client : TickStep(c) \/ Crash(c)
    \/ Charge
    \/ OperatorPlan
    \/ InputsChange

ReallocSafety == ReallocInit /\ [][ReallocNext]_allVars

\* The host wakes HELIS again and again, and a tick that runs goes on.
ReallocSpec == ReallocSafety /\ \A c \in Client : WF_allVars(TickStep(c))

-----------------------------------------------------------------------------
(* The treasury's state is as in Treasury, and a tick knows what it needs  *)
(* at the point where it is.                                               *)
Stored(p) == p \in Plan /\ planState[p] # "unborn"
ReallocTypeOK ==
    /\ TypeOK
    /\ task \in [Client -> Task]
    /\ \A c \in Client :
          /\ At(c, "store") => task[c].offer \in PlanContent
          /\ At(c, "activating") <=> checked[c] # NoPlan
          /\ At(c, "idle") \/ At(c, "working") \/ Stored(task[c].previous)
          /\ At(c, "activate") \/ At(c, "activating") \/ At(c, "discard") => Stored(task[c].proposed)
    /\ inputs \in Inputs /\ leased \in BOOLEAN /\ granted \in Nat /\ crashes \in Nat

TotalSpent == Total([e \in Envelope |-> CashSpent(e)])

(* Rolling the treasury over from plan to plan never creates money: all    *)
(* that was ever charged, under all plans, was granted by an operator      *)
(* ("Rolls remaining treasury into a new plan without restoring consumed   *)
(* resources").                                                            *)
TreasuryConserved == TotalSpent <= granted

(* The same, when all work is done in ticks under the wake lease: also     *)
(* with processes that die between storing a plan and activating it.       *)
ConservedUnderLease == leased => TreasuryConserved

(* Deleting a plan that could not be activated never leaves the portfolio  *)
(* without a plan, whatever other processes stored or deleted meanwhile.   *)
PlanRemains ==
    (\E p \in Plan : planState[p] # "unborn") => \E p \in Plan : planState[p] = "saved"

(* The latest plan says what the portfolio looks like, or the rollover has *)
(* a reason to wait: an open commitment, nothing left, or the bound on the *)
(* number of plans in this model.                                          *)
Deferred == \E e \in Envelope, k \in Key : IsOpen(e, k)
UpToDate(i) ==
    \E p \in Plan :
        /\ IsLatest(p)
        /\ \/ content[p].inputs = i /\ \E e \in Opened(p) : envelope[e].status = "active"
           \/ content[p].cash + content[p].calls = CashUsed(p) + CallsUsed(p)
OutOfPlans == planState[MaxPlans] # "unborn"
NoPlanYet == \A p \in Plan : planState[p] = "unborn"

(* Once the portfolio has stopped changing, envelopes of an up-to-date plan *)
(* are live again and again ("automatically roll only remaining treasury   *)
(* into new portfolio plans after material GTM/economics changes").        *)
PlansFollowInputs ==
    \A i \in Inputs :
        leased /\ <>[](inputs = i) =>
            []<>(UpToDate(i) \/ Deferred \/ OutOfPlans \/ NoPlanYet)
=============================================================================
