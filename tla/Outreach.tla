------------------------------ MODULE Outreach ------------------------------
(***************************************************************************)
(* First contact with prospects.  The portfolio scheduler's GTM tick reads *)
(* the answer to a run that was sent, or sends an approved run, or         *)
(* prepares a run for a draft; an operator prepares, approves and          *)
(* suppresses meanwhile.  Every save is a transaction of its own, the      *)
(* gateway's acknowledgement may be lost and a process may die anywhere.   *)
(*                                                                         *)
(* manual is chosen once: may the operator also send runs and read answers *)
(* (helis-gtm dispatch and poll-result), without the scheduler's lease.    *)
(***************************************************************************)
EXTENDS Naturals, FiniteSets

CONSTANTS
    Lead,
    VentureOf,          \* by lead
    IdentityOf,         \* lead_identity: two ventures may find the same organisation
    Answer,             \* what prospects answer, a part of AnswerKind
    MaxRuns,            \* bound: outreach runs ever saved
    DayCap,             \* max_contacts_per_day
    IdentityCap,        \* max_contacts_per_identity
    MaxWaitingApproval,
    MaxWaitingResult,
    MaxDays,            \* bound: days
    MaxCrashes          \* bound: processes that die

Scheduler == "scheduler"
Operator == "operator"
Client == {Scheduler, Operator}
Run == 1..MaxRuns
NoDay == 0
Venture == {VentureOf[l] : l \in Lead}
Identity == {IdentityOf[l] : l \in Lead}
\* A meeting is like "interested", a bounce like "not_interested"; a sale has an amount.
AnswerKind == {"interested", "sale", "not_interested", "no_response"}

ASSUME OutreachAssumption ==
    /\ Lead # {} /\ IsFiniteSet(Lead)
    /\ Answer \subseteq AnswerKind
    /\ DOMAIN VentureOf = Lead /\ DOMAIN IdentityOf = Lead
    /\ {MaxRuns, DayCap, IdentityCap, MaxWaitingApproval, MaxWaitingResult} \subseteq Nat \ {0}
    /\ MaxDays \in Nat /\ MaxCrashes \in Nat

VARIABLES
    active,      \* ventures in a GTM stage
    drafted,     \* leads with an outreach draft
    stage,       \* by lead; "open" stands for qualified and drafted
    run,         \* outreach_runs
    response,    \* lead_responses, UNIQUE(run_id)
    revenue,     \* how many revenue events a run's responses have
    suppressed,  \* gtm_suppressions
    accepted,    \* runs that the gateway sent to the prospect
    answer,      \* what the prospect answered
    call,        \* where each process is, with the rows it has read
    manual, day, crashes

runs == <<run, response, revenue>>
leads == <<drafted, stage, suppressed>>
world == <<active, accepted, answer>>
vars == <<runs, leads, world, call, manual, day, crashes>>

Status == {"none", "waiting_approval", "ready", "waiting_result",
           "completed", "blocked", "failed", "cancelled"}
Row == [lead : Lead, status : Status, approved : BOOLEAN, day : Nat]
LeadStage == {"open", "contacted", "replied", "won", "lost", "suppressed"}

NoRow == [lead |-> CHOOSE l \in Lead : TRUE, status |-> "none", approved |-> FALSE, day |-> NoDay]
NoCall == [at |-> "idle", r |-> 0, lead |-> NoRow.lead, row |-> NoRow, reply |-> "none"]

Identical(r, l) == IdentityOf[run[r].lead] = IdentityOf[l]
RunsOf(v, status) == {r \in Run : VentureOf[run[r].lead] = v /\ run[r].status = status}
HasRun(l) == \E r \in Run : run[r].status # "none" /\ run[r].lead = l
Unprepared(v) == {l \in drafted : VentureOf[l] = v /\ ~HasRun(l)}

Init ==
    /\ active = Venture
    /\ drafted = {}
    /\ stage = [l \in Lead |-> "open"]
    /\ run = [r \in Run |-> NoRow]
    /\ response = [r \in Run |-> "none"]
    /\ revenue = [r \in Run |-> 0]
    /\ suppressed = {}
    /\ accepted = {}
    /\ answer = [r \in Run |-> "none"]
    /\ call = [c \in Client |-> NoCall]
    /\ manual \in BOOLEAN
    /\ day = 1
    /\ crashes = 0

At(c, place) == call[c].at = place
Goto(c, new) == call' = [call EXCEPT ![c] = new]
Return(c) == Goto(c, NoCall)
To(c, place) == Goto(c, [call[c] EXCEPT !.at = place])
OnlyCall == UNCHANGED <<runs, leads, world, manual, day, crashes>>

-----------------------------------------------------------------------------
(* OutreachManager.prepare                                                 *)

\* _validate_lead_for_contact
Contactable(l) ==
    /\ stage[l] \in {"open", "contacted"}
    /\ IdentityOf[l] \notin suppressed

\* A draft that has a run keeps it; an error leaves everything as it is.
MayPrepare(l) == ~HasRun(l) /\ VentureOf[l] \in active /\ Contactable(l)

Prepare(c, l) ==
    /\ MayPrepare(l)
    /\ Goto(c, [NoCall EXCEPT !.at = "save_prepared", !.lead = l])
    /\ OnlyCall

\* Contact always needs a person's approval of the run.
SavePrepared(c) ==
    /\ At(c, "save_prepared")
    /\ \E r \in Run :
          /\ run[r].status = "none" /\ \A q \in Run : q < r => run[q].status # "none"
          /\ run' = [run EXCEPT ![r] = [lead |-> call[c].lead, status |-> "waiting_approval",
                                        approved |-> FALSE, day |-> NoDay]]
    /\ Return(c)
    /\ UNCHANGED <<response, revenue, leads, world, manual, day, crashes>>

-----------------------------------------------------------------------------
(* OutreachManager.dispatch                                                *)

\* _enforce_contact_limits counts the runs whose dispatch was stored.
Contacts(l) == {r \in Run : run[r].day # NoDay /\ Identical(r, l)}
ContactsOn(d) == {r \in Run : run[r].day = d}

\* Faulty variant: the caps are compared with what is there, not with what will be.
WithinLimitsUpTo(l) ==
    Cardinality(ContactsOn(day)) <= DayCap /\ Cardinality(Contacts(l)) <= IdentityCap

WithinLimits(l) ==
    Cardinality(ContactsOn(day)) < DayCap /\ Cardinality(Contacts(l)) < IdentityCap

\* Faulty variant: the run's approval is not looked at.
SendableAny(r) == run[r].status \in {"waiting_approval", "ready"}

Sendable(r) == run[r].status = "ready" /\ run[r].approved

\* An error, for a prospect who must not be contacted now, leaves the run ready.
Dispatch(c, r) ==
    LET row == run[r]
        running == VentureOf[row.lead] \in active
    IN  /\ Sendable(r)
        /\ running => Contactable(row.lead) /\ WithinLimits(row.lead)
        /\ Goto(c, [NoCall EXCEPT !.at = IF running THEN "send" ELSE "save_blocked",
                                  !.r = r, !.row = row])
        /\ OnlyCall

\* The gateway sends the message, and its acknowledgement arrives or is lost; or it
\* does not.  It knows a run again by its idempotency key.
Send(c) ==
    /\ At(c, "send")
    /\ \/ accepted' = accepted \cup {call[c].r} /\ To(c, "save_dispatched")
       \/ accepted' \in {accepted, accepted \cup {call[c].r}} /\ To(c, "save_failed")
    /\ UNCHANGED <<runs, leads, active, answer, manual, day, crashes>>

\* The whole row is written back as it was read, with the given changes.
SaveRow(c, new) ==
    /\ run' = [run EXCEPT ![call[c].r] = new]
    /\ UNCHANGED <<response, revenue, leads, world, manual, day, crashes>>

\* Faulty variant: the time of the dispatch is not stored with it.
SaveDispatchedUndated(c) ==
    /\ At(c, "save_dispatched")
    /\ SaveRow(c, [call[c].row EXCEPT !.status = "waiting_result"])
    /\ To(c, "mark_contacted")

SaveDispatched(c) ==
    /\ At(c, "save_dispatched")
    /\ SaveRow(c, [call[c].row EXCEPT !.status = "waiting_result", !.day = day])
    /\ To(c, "mark_contacted")

MarkContacted(c) ==
    /\ At(c, "mark_contacted")
    /\ stage' = [stage EXCEPT ![call[c].row.lead] = "contacted"]
    /\ Return(c)
    /\ UNCHANGED <<runs, drafted, suppressed, world, manual, day, crashes>>

SaveFailed(c) ==
    /\ At(c, "save_failed")
    /\ SaveRow(c, [call[c].row EXCEPT !.status = "failed"])
    /\ Return(c)

SaveBlocked(c) ==
    /\ At(c, "save_blocked")
    /\ SaveRow(c, [call[c].row EXCEPT !.status = "blocked"])
    /\ Return(c)

-----------------------------------------------------------------------------
(* OutreachManager.record_response                                         *)

Refusal == {"not_interested"}

\* Faulty variant: the response that is stored already is not looked up.
UnrecordedAny(r) == run[r].status = "waiting_result"

\* A response that is stored already is returned as it is.
Unrecorded(r) == response[r] = "none" /\ run[r].status = "waiting_result"

RecordResponse(c, r) ==
    /\ answer[r] # "none"
    /\ Unrecorded(r)
    /\ Goto(c, [NoCall EXCEPT !.at = "save_response", !.r = r, !.row = run[r],
                              !.reply = answer[r]])
    /\ OnlyCall

SaveResponse(c) ==
    /\ At(c, "save_response")
    /\ response' = [response EXCEPT ![call[c].r] = IF @ = "none" THEN call[c].reply ELSE @]
    /\ To(c, IF call[c].reply = "sale" THEN "save_revenue"
             ELSE IF call[c].reply \in Refusal THEN "suppress" ELSE "mark_lead")
    /\ UNCHANGED <<run, revenue, leads, world, manual, day, crashes>>

\* The response in hand has an id of its own, so the event is always a new row.
SaveRevenue(c) ==
    /\ At(c, "save_revenue")
    /\ revenue' = [revenue EXCEPT ![call[c].r] = @ + 1]
    /\ To(c, "mark_lead")
    /\ UNCHANGED <<run, response, leads, world, manual, day, crashes>>

Suppress(c) ==
    /\ At(c, "suppress")
    /\ suppressed' = suppressed \cup {IdentityOf[call[c].row.lead]}
    /\ To(c, "mark_lead")
    /\ UNCHANGED <<runs, drafted, stage, world, manual, day, crashes>>

StageOf == [interested |-> "replied", sale |-> "won",
            not_interested |-> "suppressed", no_response |-> "lost"]

MarkLead(c) ==
    /\ At(c, "mark_lead")
    /\ stage' = [stage EXCEPT ![call[c].row.lead] = StageOf[call[c].reply]]
    /\ To(c, "complete")
    /\ UNCHANGED <<runs, drafted, suppressed, world, manual, day, crashes>>

Complete(c) ==
    /\ At(c, "complete")
    /\ SaveRow(c, [call[c].row EXCEPT !.status = "completed"])
    /\ Return(c)

-----------------------------------------------------------------------------
(* GTMRuntime.tick: the runs are listed once, the rest is decided from them. *)
(* A tick that is not allowed to do what it decided on ends without a trace. *)

HasRoom(v) == Cardinality(RunsOf(v, "waiting_approval")) < MaxWaitingApproval

Unanswered(v) ==
    LET waiting == RunsOf(v, "waiting_result")
    IN  waiting = {} \/ \E r \in waiting : answer[r] = "none"

NothingReady(v) == \A r \in RunsOf(v, "ready") : ~run[r].approved

MayGrow(v) ==
    /\ Unanswered(v) /\ NothingReady(v) /\ HasRoom(v)
    /\ Cardinality(RunsOf(v, "waiting_result")) < MaxWaitingResult

Idle(v) == At(Scheduler, "idle") /\ v \in active

\* Of the runs that qualify the code takes the one saved last; here it may be any.
TickRecords(v) ==
    Idle(v) /\ \E r \in RunsOf(v, "waiting_result") : RecordResponse(Scheduler, r)

TickDispatches(v) ==
    Idle(v) /\ Unanswered(v) /\ \E r \in RunsOf(v, "ready") : Dispatch(Scheduler, r)

TickPrepares(v) == Idle(v) /\ MayGrow(v) /\ \E l \in Unprepared(v) : Prepare(Scheduler, l)

\* Discovery, when no draft is left to prepare, drafts for one qualified lead.
TickDiscovers(v) ==
    /\ Idle(v) /\ MayGrow(v) /\ Unprepared(v) = {}
    /\ \E l \in Lead \ drafted :
          /\ VentureOf[l] = v /\ stage[l] = "open"
          /\ drafted' = drafted \cup {l}
          /\ Goto(Scheduler, [NoCall EXCEPT !.at = "discovered", !.lead = l])
    /\ UNCHANGED <<runs, stage, suppressed, world, manual, day, crashes>>

\* The same tick goes on to prepare a draft, if there still is room.
PrepareDiscovered ==
    LET v == VentureOf[call[Scheduler].lead]
        drafts == Unprepared(v)
    IN  /\ At(Scheduler, "discovered")
        /\ \/ HasRoom(v) /\ \E l \in drafts : Prepare(Scheduler, l)
           \/ /\ ~HasRoom(v) \/ drafts = {} \/ \E l \in drafts : ~MayPrepare(l)
              /\ Return(Scheduler)
              /\ OnlyCall

-----------------------------------------------------------------------------
(* The operator's commands                                                 *)

OperatorPrepare(l) == At(Operator, "idle") /\ l \in drafted /\ Prepare(Operator, l)

\* Faulty variant: a run that failed may be approved again.
ApproveAgain(r) ==
    /\ At(Operator, "idle")
    /\ run[r].status \in {"waiting_approval", "failed"}
    /\ Goto(Operator, [NoCall EXCEPT !.at = "save_approved", !.r = r, !.row = run[r]])
    /\ OnlyCall

Approve(r) ==
    /\ At(Operator, "idle")
    /\ run[r].status = "waiting_approval"
    /\ Goto(Operator, [NoCall EXCEPT !.at = "save_approved", !.r = r, !.row = run[r]])
    /\ OnlyCall

SaveApproved ==
    /\ At(Operator, "save_approved")
    /\ SaveRow(Operator, [call[Operator].row EXCEPT !.status = "ready", !.approved = TRUE])
    /\ Return(Operator)

\* The inbox's reject looks at the run as an approval does, and may save this instead.
SaveCancelled ==
    /\ At(Operator, "save_approved")
    /\ SaveRow(Operator, [call[Operator].row EXCEPT !.status = "cancelled", !.approved = FALSE])
    /\ Return(Operator)

OperatorSuppress(l) ==
    /\ At(Operator, "idle") /\ IdentityOf[l] \notin suppressed
    /\ suppressed' = suppressed \cup {IdentityOf[l]}
    /\ UNCHANGED <<runs, drafted, stage, world, call, manual, day, crashes>>

OperatorDispatch(r) == manual /\ At(Operator, "idle") /\ Dispatch(Operator, r)

PollResult(r) == manual /\ At(Operator, "idle") /\ RecordResponse(Operator, r)

-----------------------------------------------------------------------------
(* What happens around HELIS                                               *)

Reply(r) ==
    /\ r \in accepted /\ answer[r] = "none"
    /\ \E kind \in Answer : answer' = [answer EXCEPT ![r] = kind]
    /\ UNCHANGED <<runs, leads, active, accepted, call, manual, day, crashes>>

\* A GTM decision may take the venture out of the market at any time.
Stop(v) ==
    /\ v \in active
    /\ active' = active \ {v}
    /\ UNCHANGED <<runs, leads, accepted, answer, call, manual, day, crashes>>

NextDay ==
    /\ day < MaxDays
    /\ day' = day + 1
    /\ UNCHANGED <<runs, leads, world, call, manual, crashes>>

Die(c) ==
    /\ crashes < MaxCrashes
    /\ ~At(c, "idle")
    /\ Return(c)
    /\ crashes' = crashes + 1
    /\ UNCHANGED <<runs, leads, world, manual, day>>

Continue(c) ==
    \/ SavePrepared(c)
    \/ Send(c) \/ SaveDispatched(c) \/ MarkContacted(c) \/ SaveFailed(c) \/ SaveBlocked(c)
    \/ SaveResponse(c) \/ SaveRevenue(c) \/ Suppress(c) \/ MarkLead(c) \/ Complete(c)

Tick(v) == TickRecords(v) \/ TickDispatches(v) \/ TickPrepares(v) \/ TickDiscovers(v)

Next ==
    \/ \E c \in Client : Continue(c) \/ Die(c)
    \/ \E v \in Venture : Tick(v) \/ Stop(v)
    \/ PrepareDiscovered \/ SaveApproved \/ SaveCancelled \/ NextDay
    \/ \E l \in Lead : OperatorPrepare(l) \/ OperatorSuppress(l)
    \/ \E r \in Run : Approve(r) \/ OperatorDispatch(r) \/ PollResult(r) \/ Reply(r)

Spec == Init /\ [][Next]_vars

-----------------------------------------------------------------------------
(* The tables have their columns, and a process that sends or records has  *)
(* the row of a stored run in its hands.                                   *)
TypeOK ==
    /\ active \subseteq Venture /\ drafted \subseteq Lead /\ suppressed \subseteq Identity
    /\ stage \in [Lead -> LeadStage]
    /\ run \in [Run -> Row]
    /\ response \in [Run -> AnswerKind \cup {"none"}] /\ answer \in [Run -> AnswerKind \cup {"none"}]
    /\ revenue \in [Run -> Nat]
    /\ \A r \in accepted : r \in Run /\ run[r].status # "none"
    /\ \A c \in Client :
          ~At(c, "idle") => \/ call[c].at \in {"save_prepared", "discovered"}
                            \/ call[c].r \in Run /\ run[call[c].r].status # "none"
    /\ manual \in BOOLEAN /\ day \in Nat /\ crashes \in 0..MaxCrashes

(* Nothing reaches a prospect that a person did not approve, also when the *)
(* operator sends by hand and rows are written back stale.                 *)
SentIsApproved == \A r \in accepted : run[r].approved

(* A completed run has left all its traces, although they are saved one by *)
(* one by processes that may die: the response, the revenue of a sale, the *)
(* suppression of who refused.  No sale is booked twice by ticks alone.    *)
AccountedOnce ==
    \A r \in Run :
        /\ run[r].status = "completed" =>
              /\ response[r] # "none"
              /\ response[r] = "sale" => revenue[r] > 0
              /\ response[r] \in Refusal => IdentityOf[run[r].lead] \in suppressed
        /\ revenue[r] > 0 => response[r] = "sale"
        /\ ~manual => revenue[r] <= 1

(* "enforce tiny contact batches, identity limits": when only ticks send,  *)
(* the stored dispatches stay within the caps, also across ventures that   *)
(* share a prospect and for drafts that two processes prepared at once.    *)
CapsHold ==
    ~manual => /\ \A l \in Lead : Cardinality(Contacts(l)) <= IdentityCap
               /\ \A d \in 1..MaxDays : Cardinality(ContactsOn(d)) <= DayCap

(* A prospect whose refusal is stored is left alone, under every venture,  *)
(* although a process may die between the response and the suppression.    *)
Refused(l) == \E r \in Run : response[r] \in Refusal /\ Identical(r, l)
RefusedIsLeftAlone ==
    [][~manual => \A c \in Client :
          At(c, "idle") /\ call'[c].at = "send" => ~Refused(call'[c].row.lead)]_vars

(* A run that is completed, failed, blocked or cancelled stays so: no stale *)
(* row of another process opens it again while only ticks send.            *)
Final == {"completed", "failed", "blocked", "cancelled"}
OutcomeStands ==
    [][~manual => \A r \in Run : run[r].status \in Final => run'[r] = run[r]]_vars
=============================================================================
