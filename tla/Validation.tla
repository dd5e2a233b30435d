----------------------------- MODULE Validation -----------------------------
(***************************************************************************)
(* The validation of one venture: a tick judges the results so far, runs   *)
(* at most one experiment and judges again; an operator approves runs and  *)
(* hands in the results of external ones; a gateway does the external work *)
(* and its answer may be lost.  Every save is a transaction of its own, so *)
(* that a process may die, and the others may act, between any two.  The   *)
(* reservation of a run is also at the hand of whoever uses the portfolio's *)
(* commands, at any time.                                                  *)
(*                                                                         *)
(* The wake's ticks hold the lease and a tick by hand is not started while *)
(* another one is at work, so that ticks do not overlap, an experiment     *)
(* never gets a second run and run is indexed by the experiment.           *)
(***************************************************************************)
EXTENDS Naturals, Sequences, FiniteSets, FiniteSetsExt

CONSTANTS
    Experiment,    \* numbers: the order in which rank_experiments tries them
    First,         \* the experiments that evaluation planned
    Executor,      \* "desk" or "gateway", by experiment
    Cost,          \* max_cost_cents, by experiment
    TypeOf,        \* experiment_type, by experiment
    Gated,         \* experiments that the autonomy policy lets nobody run unapproved
    Config,        \* how a wake may be configured: [linked, cash]
    DeskResult,    \* what desk research may conclude
    GatewayResult, \* what an operator may report
    MaxResults,    \* bound: results ever recorded for one experiment
    MaxCrashes     \* bound: processes that die

\* What was found, how sure it is, and its cost in hundredths of a cent.
Result == [outcome : {"positive", "negative", "inconclusive"},
           confidence : 0..100, pivot : BOOLEAN, cost : Nat]

ASSUME ValidationAssumption ==
    /\ Experiment \subseteq Nat /\ IsFiniteSet(Experiment) /\ First \subseteq Experiment
    /\ Executor \in [Experiment -> {"desk", "gateway"}]
    /\ Cost \in [Experiment -> Nat]
    /\ Gated \subseteq Experiment
    /\ \A e \in Experiment : Cost[e] > 0 => e \in Gated
    /\ Config \subseteq [linked : BOOLEAN, cash : Nat]
    /\ DeskResult \subseteq Result /\ GatewayResult \subseteq Result
    /\ MaxResults \in Nat /\ MaxCrashes \in Nat

VARIABLES
    planned,   \* experiments that are stored
    fresh,     \* is the newest experiment newer than every result
    run,       \* experiment_runs, by experiment
    hold,      \* the cash reservation of a run
    results,   \* validation_results, by experiment
    decision,  \* the latest venture decision: its kind and how many results it saw
    stage,     \* the venture's stage
    gateway,   \* external runs the gateway has accepted
    unheard,   \* accepted runs whose answer never came
    freed,     \* runs whose reservation was released by hand
    due,       \* the scheduler has an advance for this venture: its envelope is active
               \* and no venture ahead of it takes the last one
    tick,      \* where the tick is
    operator,  \* where the operator's command is
    crashes

venture == <<planned, fresh, decision, stage>>
money == <<run, hold, results>>
outside == <<gateway, unheard, freed, due>>
vars == <<venture, money, outside, tick, operator, crashes>>

RunStatus == {"none", "waiting_approval", "ready", "running", "waiting_result",
              "completed", "failed", "blocked", "cancelled"}
Active == {"ready", "running", "waiting_approval", "waiting_result"}
HoldStatus == {"none", "reserved", "settled", "released"}
Stage == {"evaluated", "validating", "validated", "pivoted", "killed"}
Open == {"evaluated", "validating"}
StageOf == [continue |-> "validating", advance |-> "validated",
            pivot |-> "pivoted", kill |-> "killed"]

NoCount == [e \in Experiment |-> 0]
NoTick == [at |-> "idle", config |-> [linked |-> FALSE, cash |-> 0], again |-> FALSE,
           exhausted |-> FALSE, todo |-> {}, e |-> 0, approved |-> FALSE,
           verdict |-> "none", seen |-> NoCount, result |-> <<>>]
NoCommand == [at |-> "idle", e |-> 0, result |-> <<>>]

IsFirst(e, S) == e \in S /\ \A f \in S : e <= f

-----------------------------------------------------------------------------
(* VentureDecisionEngine.decide, confidences in hundredths.                *)

Entry == UNION {{<<e, i>> : i \in DOMAIN results[e]} : e \in Experiment}
ResultAt(x) == results[x[1]][x[2]]
Having(outcome) == {x \in Entry : ResultAt(x).outcome = outcome}
Weight(outcome) == MapThenSumSet(LAMBDA x : ResultAt(x).confidence, Having(outcome))

Falsified ==
    \/ \E x \in Having("negative") : ResultAt(x).confidence >= 88
    \/ Weight("negative") >= 130

Confirmed ==
    /\ Weight("positive") >= 140
    /\ Cardinality({TypeOf[x[1]] : x \in Having("positive")}) >= 2
    /\ Weight("negative") < 50

Diverted ==
    /\ \E x \in Entry : ResultAt(x).pivot /\ ResultAt(x).confidence >= 60
    /\ Weight("negative") >= 50 \/ Weight("positive") < 80

Verdict ==
    IF Falsified THEN "kill"
    ELSE IF Confirmed THEN "advance"
    ELSE IF Diverted THEN "pivot"
    ELSE "continue"

Count == [e \in Experiment |-> Len(results[e])]

-----------------------------------------------------------------------------
Init ==
    /\ planned = First /\ fresh = FALSE
    /\ run = [e \in Experiment |-> [status |-> "none", approved |-> FALSE]]
    /\ hold = [e \in Experiment |-> [status |-> "none", cents |-> 0]]
    /\ results = [e \in Experiment |-> <<>>]
    /\ decision = [kind |-> "none", seen |-> NoCount]
    /\ stage = "evaluated"
    /\ gateway = {} /\ unheard = {} /\ freed = {}
    /\ due = FALSE
    /\ tick = NoTick
    /\ operator = NoCommand
    /\ crashes = 0

At(place) == tick.at = place
Doing(place) == operator.at = place

SetStatus(e, status) == run' = [run EXCEPT ![e].status = status]

\* execute_next returns, and the results are judged a second time.
JudgeAgain(exhausted) ==
    [tick EXCEPT !.at = "judge", !.again = TRUE, !.exhausted = exhausted]

NextExperiment == [tick EXCEPT !.at = "examine", !.todo = @ \ {tick.e}]

\* Faulty variant: a follow-up is designed whatever was decided.
JudgedAlways(kind) ==
    IF ~tick.again /\ kind \in {"none", "continue"}
    THEN [tick EXCEPT !.at = "examine", !.todo = planned]
    ELSE IF tick.again /\ ~tick.exhausted /\ kind # "none"
    THEN [tick EXCEPT !.at = "follow_up"]
    ELSE NoTick

\* Where a tick goes when the latest decision, kind, is in force.
Judged(kind) ==
    IF ~tick.again /\ kind \in {"none", "continue"}
    THEN [tick EXCEPT !.at = "examine", !.todo = planned]
    ELSE IF tick.again /\ ~tick.exhausted /\ kind = "continue"
    THEN [tick EXCEPT !.at = "follow_up"]
    ELSE NoTick

\* PortfolioScheduler._skip_reason: something of this venture is not yet settled.
HeldBack ==
    \E e \in Experiment :
        \/ hold[e].status = "reserved"
        \/ run[e].status \in {"waiting_approval", "waiting_result", "running"}

StartTick ==
    /\ At("idle")
    /\ stage \in Open
    /\ planned # {}
    /\ \E config \in Config : tick' = [NoTick EXCEPT !.at = "judge", !.config = config]
    /\ UNCHANGED <<venture, money, outside, operator, crashes>>

Begin == due /\ ~HeldBack /\ StartTick

\* helis validate and helis-venture advance ask nobody whether it is this venture's turn.
BeginByHand == StartTick

\* Other ventures, plans and envelopes give this one its turn, or take it away.
TurnChanges ==
    /\ due' = ~due
    /\ UNCHANGED <<venture, money, gateway, unheard, freed, tick, operator, crashes>>

\* Faulty variant: a venture that has been judged is not judged again.
JudgeOnce ==
    /\ At("judge")
    /\ tick' = IF Count = NoCount \/ decision.kind # "none"
               THEN Judged(decision.kind)
               ELSE [tick EXCEPT !.at = "save_decision", !.verdict = Verdict, !.seen = Count]
    /\ UNCHANGED <<venture, money, outside, operator, crashes>>

\* decide_if_changed up to the call of the decider.
Judge ==
    /\ At("judge")
    /\ tick' = IF Count = NoCount \/ decision.seen = Count
               THEN Judged(decision.kind)
               ELSE [tick EXCEPT !.at = "save_decision", !.verdict = Verdict, !.seen = Count]
    /\ UNCHANGED <<venture, money, outside, operator, crashes>>

\* record_venture_decision: the decision, then the stage.
SaveDecision ==
    /\ At("save_decision")
    /\ decision' = [kind |-> tick.verdict, seen |-> tick.seen]
    /\ tick' = [tick EXCEPT !.at = "save_stage"]
    /\ UNCHANGED <<planned, fresh, stage, money, outside, operator, crashes>>

SaveStage ==
    /\ At("save_stage")
    /\ stage' = StageOf[tick.verdict]
    /\ tick' = Judged(tick.verdict)
    /\ UNCHANGED <<planned, fresh, decision, money, outside, operator, crashes>>

-----------------------------------------------------------------------------
(* ValidationRunner.execute_next                                           *)

HasExecutor(e) == Executor[e] = "desk" \/ tick.config.linked
IsGateway(e) == Executor[e] = "gateway" /\ tick.config.linked
NeedsApproval(e) == e \in Gated \/ IsGateway(e)

Examine ==
    /\ At("examine")
    /\ \/ tick.todo = {} /\ tick' = JudgeAgain(FALSE)
       \/ \E e \in tick.todo :
            /\ IsFirst(e, tick.todo)
            /\ \/ /\ run[e].status = "none"
                  /\ tick' = [tick EXCEPT !.at = "create", !.e = e]
               \/ /\ run[e].status = "ready"
                  /\ tick' = [tick EXCEPT !.at = "launch", !.e = e, !.approved = run[e].approved]
               \/ /\ run[e].status \notin {"none", "ready"}
                  /\ tick' = [tick EXCEPT !.todo = @ \ {e}]
    /\ UNCHANGED <<venture, money, outside, operator, crashes>>

Create ==
    /\ At("create")
    /\ IF NeedsApproval(tick.e)
       THEN /\ SetStatus(tick.e, "waiting_approval")
            /\ tick' = NextExperiment
       ELSE /\ SetStatus(tick.e, "ready")
            /\ tick' = [tick EXCEPT !.at = "launch", !.approved = FALSE]
    /\ UNCHANGED <<venture, hold, results, outside, operator, crashes>>

\* Faulty variant: a run that is ready has been approved, has it not?
LaunchAny(e) == e \in Gated => tick.approved

MayLaunch(e) == NeedsApproval(e) => tick.approved

\* The gateway came between: a run that was ready without approval now needs one.
SendBack ==
    /\ At("launch")
    /\ ~MayLaunch(tick.e)
    /\ SetStatus(tick.e, "waiting_approval")
    /\ tick' = NextExperiment
    /\ UNCHANGED <<venture, hold, results, outside, operator, crashes>>

Block ==
    /\ At("launch")
    /\ MayLaunch(tick.e)
    /\ ~HasExecutor(tick.e)
    /\ SetStatus(tick.e, "blocked")
    /\ tick' = NextExperiment
    /\ UNCHANGED <<venture, hold, results, outside, operator, crashes>>

Skip ==
    /\ At("launch")
    /\ MayLaunch(tick.e)
    /\ HasExecutor(tick.e)
    /\ Cost[tick.e] > tick.config.cash
    /\ tick' = NextExperiment
    /\ UNCHANGED <<venture, money, outside, operator, crashes>>

Launch ==
    /\ At("launch")
    /\ MayLaunch(tick.e)
    /\ HasExecutor(tick.e)
    /\ Cost[tick.e] <= tick.config.cash
    /\ SetStatus(tick.e, "running")
    /\ tick' = [tick EXCEPT !.at = IF IsGateway(tick.e) /\ Cost[tick.e] > 0
                                   THEN "reserve" ELSE "execute"]
    /\ UNCHANGED <<venture, hold, results, outside, operator, crashes>>

\* Faulty variant: the run goes on when the envelope cannot cover it.
ReserveIfPossible ==
    /\ At("reserve")
    /\ \E covered \in BOOLEAN :
          hold' = IF hold[tick.e].status = "none" /\ covered
                  THEN [hold EXCEPT ![tick.e] = [status |-> "reserved", cents |-> Cost[tick.e]]]
                  ELSE hold
    /\ tick' = [tick EXCEPT !.at = "execute"]
    /\ UNCHANGED <<venture, run, results, outside, operator, crashes>>

\* ValidationCashCoordinator.reserve_for_run
Reserve ==
    /\ At("reserve")
    /\ hold' = IF hold[tick.e].status = "none"
               THEN [hold EXCEPT ![tick.e] = [status |-> "reserved", cents |-> Cost[tick.e]]]
               ELSE hold
    /\ tick' = [tick EXCEPT !.at = "execute"]
    /\ UNCHANGED <<venture, run, results, outside, operator, crashes>>

\* The envelope cannot cover the run: it is ready again.
DeferCash ==
    /\ At("reserve")
    /\ hold[tick.e].status = "none"
    /\ SetStatus(tick.e, "ready")
    /\ tick' = JudgeAgain(FALSE)
    /\ UNCHANGED <<venture, hold, results, outside, operator, crashes>>

\* Faulty variant: an acknowledged dispatch is taken for a failed one.
DispatchUnread ==
    /\ At("execute")
    /\ IsGateway(tick.e)
    /\ gateway' = gateway \cup {tick.e}
    /\ tick' = [tick EXCEPT !.at = "release"]
    /\ UNCHANGED <<venture, money, unheard, freed, due, operator, crashes>>

\* The gateway accepts, and its answer arrives or is lost; or it does not accept.
Dispatch ==
    /\ At("execute")
    /\ IsGateway(tick.e)
    /\ \/ /\ gateway' = gateway \cup {tick.e}
          /\ \/ unheard' = unheard /\ tick' = [tick EXCEPT !.at = "save_dispatch"]
             \/ unheard' = unheard \cup {tick.e} /\ tick' = [tick EXCEPT !.at = "release"]
       \/ UNCHANGED <<gateway, unheard>> /\ tick' = [tick EXCEPT !.at = "release"]
    /\ UNCHANGED <<venture, money, freed, due, operator, crashes>>

\* DeskResearchExecutor: a result, an exhausted model budget, or an error.
Research ==
    /\ At("execute")
    /\ ~IsGateway(tick.e)
    /\ \/ \E r \in DeskResult : tick' = [tick EXCEPT !.at = "save_result", !.result = <<r>>]
       \/ tick' = [tick EXCEPT !.at = "save_ready"]
       \/ tick' = [tick EXCEPT !.at = "save_failed"]
    /\ UNCHANGED <<venture, money, outside, operator, crashes>>

Release ==
    /\ At("release")
    /\ hold[tick.e].status # "settled"
    /\ hold' = IF hold[tick.e].status = "reserved"
               THEN [hold EXCEPT ![tick.e].status = "released"]
               ELSE hold
    /\ tick' = [tick EXCEPT !.at = "save_failed"]
    /\ UNCHANGED <<venture, run, results, outside, operator, crashes>>

\* The reservation was settled by hand meanwhile: the release raises, the tick ends and
\* the run stays as it is.
ReleaseRefused ==
    /\ At("release")
    /\ hold[tick.e].status = "settled"
    /\ tick' = NoTick
    /\ UNCHANGED <<venture, money, outside, operator, crashes>>

\* A save that ends execute_next with the run in the given status.
EndRun(place, status, exhausted) ==
    /\ At(place)
    /\ SetStatus(tick.e, status)
    /\ tick' = JudgeAgain(exhausted)
    /\ UNCHANGED <<venture, hold, results, outside, operator, crashes>>

SaveFailed == EndRun("save_failed", "failed", FALSE)
SaveReady == EndRun("save_ready", "ready", TRUE)
SaveDispatched == EndRun("save_dispatch", "waiting_result", FALSE)
SaveCompleted == EndRun("save_completed", "completed", FALSE)

AddResult(e, r) ==
    /\ Len(results[e]) < MaxResults
    /\ results' = [results EXCEPT ![e] = Append(@, r)]
    /\ fresh' = FALSE

SaveResult ==
    /\ At("save_result")
    /\ AddResult(tick.e, tick.result[1])
    /\ tick' = [tick EXCEPT !.at = "save_completed"]
    /\ UNCHANGED <<planned, decision, stage, run, hold, outside, operator, crashes>>

-----------------------------------------------------------------------------
(* ValidationMachine._plan_follow_up_if_needed                             *)

NothingPending ==
    /\ Count # NoCount
    /\ \A e \in planned : run[e].status \notin Active \cup {"none"}
    /\ ~fresh

\* The model designs another experiment, or none, or the model budget is exhausted.
DesignFollowUp ==
    /\ At("follow_up")
    /\ \/ /\ NothingPending
          /\ \E e \in Experiment \ planned :
                tick' = [tick EXCEPT !.at = "save_experiment", !.e = e]
       \/ tick' = NoTick
    /\ UNCHANGED <<venture, money, outside, operator, crashes>>

SaveExperiment ==
    /\ At("save_experiment")
    /\ planned' = planned \cup {tick.e}
    /\ fresh' = TRUE
    /\ tick' = [tick EXCEPT !.at = "save_validating"]
    /\ UNCHANGED <<decision, stage, money, outside, operator, crashes>>

SaveValidating ==
    /\ At("save_validating")
    /\ stage' = "validating"
    /\ tick' = NoTick
    /\ UNCHANGED <<planned, fresh, decision, money, outside, operator, crashes>>

-----------------------------------------------------------------------------
(* The operator: ValidationRunner.approve, the inbox's reject and          *)
(* complete_external                                                       *)

ReadForApproval(e) ==
    /\ Doing("idle")
    /\ run[e].status = "waiting_approval"
    /\ operator' = [NoCommand EXCEPT !.at = "approve", !.e = e]
    /\ UNCHANGED <<venture, money, outside, tick, crashes>>

SaveApproved ==
    /\ Doing("approve")
    /\ run' = [run EXCEPT ![operator.e] = [status |-> "ready", approved |-> TRUE]]
    /\ operator' = NoCommand
    /\ UNCHANGED <<venture, hold, results, outside, tick, crashes>>

ReadForReject(e) ==
    /\ Doing("idle")
    /\ run[e].status = "waiting_approval"
    /\ operator' = [NoCommand EXCEPT !.at = "reject", !.e = e]
    /\ UNCHANGED <<venture, money, outside, tick, crashes>>

SaveCancelled ==
    /\ Doing("reject")
    /\ run' = [run EXCEPT ![operator.e] = [status |-> "cancelled", approved |-> FALSE]]
    /\ operator' = NoCommand
    /\ UNCHANGED <<venture, hold, results, outside, tick, crashes>>

\* Faulty variant: nobody asks whether the run has a result already.
ReadForResultAgain(e, r) ==
    /\ Doing("idle")
    /\ e \in gateway
    /\ run[e].status = "waiting_result"
    /\ operator' = [at |-> IF hold[e].status = "none" THEN "record" ELSE "settle",
                    e |-> e, result |-> <<r>>]
    /\ UNCHANGED <<venture, money, outside, tick, crashes>>

ReadForResult(e, r) ==
    /\ Doing("idle")
    /\ e \in gateway
    /\ run[e].status = "waiting_result"
    /\ results[e] = <<>>
    /\ operator' = [at |-> IF hold[e].status = "none" THEN "record" ELSE "settle",
                    e |-> e, result |-> <<r>>]
    /\ UNCHANGED <<venture, money, outside, tick, crashes>>

\* settle_for_run rounds the reported cost up to a whole cent.
Cents(cost) == (cost + 99) \div 100

MaySettle(e, cost) ==
    \/ hold[e].status = "reserved" /\ cost <= 100 * hold[e].cents
    \/ hold[e].status = "settled" /\ Cents(cost) = hold[e].cents

\* Faulty variant: a reservation that was settled is good for any amount.
SettleOnce ==
    LET e == operator.e
        cost == operator.result[1].cost
    IN  /\ Doing("settle")
        /\ hold[e].status = "settled" \/ MaySettle(e, cost)
        /\ hold' = IF hold[e].status = "settled" THEN hold
                   ELSE [hold EXCEPT ![e] = [status |-> "settled", cents |-> Cents(cost)]]
        /\ operator' = [operator EXCEPT !.at = "record"]
        /\ UNCHANGED <<venture, run, results, outside, tick, crashes>>

\* Settling again at as many cents is allowed and changes nothing.
Settle ==
    LET e == operator.e
        cost == operator.result[1].cost
    IN  /\ Doing("settle")
        /\ MaySettle(e, cost)
        /\ hold' = [hold EXCEPT ![e] = [status |-> "settled", cents |-> Cents(cost)]]
        /\ operator' = [operator EXCEPT !.at = "record"]
        /\ UNCHANGED <<venture, run, results, outside, tick, crashes>>

\* A cost overrun, an amount that differs from the settled one, or money that was
\* released: raised, and the result is not recorded.
RefuseResult ==
    /\ Doing("settle")
    /\ ~MaySettle(operator.e, operator.result[1].cost)
    /\ operator' = NoCommand
    /\ UNCHANGED <<venture, money, outside, tick, crashes>>

RecordResult ==
    /\ Doing("record")
    /\ AddResult(operator.e, operator.result[1])
    /\ operator' = [operator EXCEPT !.at = "complete"]
    /\ UNCHANGED <<planned, decision, stage, run, hold, outside, tick, crashes>>

CompleteExternal ==
    /\ Doing("complete")
    /\ SetStatus(operator.e, "completed")
    /\ operator' = NoCommand
    /\ UNCHANGED <<venture, hold, results, outside, tick, crashes>>

-----------------------------------------------------------------------------
(* helis-portfolio release-cash and settle-cash                            *)

ReleaseByHand(e) ==
    /\ hold[e].status = "reserved"
    /\ hold' = [hold EXCEPT ![e].status = "released"]
    /\ freed' = freed \cup {e}
    /\ UNCHANGED <<venture, run, results, gateway, unheard, due, tick, operator, crashes>>

SettleByHand(e) ==
    /\ hold[e].status = "reserved"
    /\ \E cents \in 0..hold[e].cents :
          hold' = [hold EXCEPT ![e] = [status |-> "settled", cents |-> cents]]
    /\ UNCHANGED <<venture, run, results, outside, tick, operator, crashes>>

-----------------------------------------------------------------------------
TickDies ==
    /\ crashes < MaxCrashes
    /\ ~At("idle")
    /\ tick' = NoTick
    /\ crashes' = crashes + 1
    /\ UNCHANGED <<venture, money, outside, operator>>

CommandDies ==
    /\ crashes < MaxCrashes
    /\ ~Doing("idle")
    /\ operator' = NoCommand
    /\ crashes' = crashes + 1
    /\ UNCHANGED <<venture, money, outside, tick>>

ExecuteStep ==
    \/ Examine \/ Create \/ SendBack \/ Block \/ Skip \/ Launch \/ Reserve \/ DeferCash
    \/ Dispatch \/ Research \/ Release \/ ReleaseRefused \/ SaveFailed \/ SaveReady \/ SaveDispatched
    \/ SaveResult \/ SaveCompleted

TickStep ==
    \/ Begin \/ Judge \/ SaveDecision \/ SaveStage \/ ExecuteStep
    \/ DesignFollowUp \/ SaveExperiment \/ SaveValidating

OperatorStep ==
    \/ \E e \in Experiment :
          \/ ReadForApproval(e) \/ ReadForReject(e)
          \/ \E r \in GatewayResult : ReadForResult(e, r)
    \/ SaveApproved \/ SaveCancelled \/ Settle \/ RefuseResult \/ RecordResult
    \/ CompleteExternal

ByHand == BeginByHand \/ \E e \in Experiment : ReleaseByHand(e) \/ SettleByHand(e)

Next == TickStep \/ OperatorStep \/ ByHand \/ TurnChanges \/ TickDies \/ CommandDies

Safety == Init /\ [][Next]_vars

\* A tick that runs goes on, and the timer begins another one as long as it is due and not
\* held back.  Nobody has to start one by hand, and the turn may change for ever.
Spec == Safety /\ WF_vars(TickStep)

-----------------------------------------------------------------------------
Place == {"idle", "judge", "save_decision", "save_stage", "examine", "create", "launch",
          "reserve", "execute", "release", "save_failed", "save_ready", "save_dispatch",
          "save_result", "save_completed", "follow_up", "save_experiment", "save_validating"}

\* Places where the tick's own run is under way.
UnderWay == {"reserve", "execute", "release", "save_failed", "save_ready", "save_dispatch",
             "save_result", "save_completed"}

(* The tables have their columns; while a tick works on a run, the stored  *)
(* row says that it is running, so that no operator command can touch it.  *)
TypeOK ==
    /\ planned \subseteq Experiment /\ fresh \in BOOLEAN
    /\ run \in [Experiment -> [status : RunStatus, approved : BOOLEAN]]
    /\ hold \in [Experiment -> [status : HoldStatus, cents : Nat]]
    /\ \A e \in Experiment : Len(results[e]) <= MaxResults
    /\ decision.kind \in {"none"} \cup DOMAIN StageOf
    /\ stage \in Stage
    /\ gateway \subseteq Experiment /\ unheard \subseteq gateway
    /\ freed \subseteq Experiment /\ due \in BOOLEAN
    /\ tick.at \in Place
    /\ tick.at \in UnderWay => run[tick.e].status = "running"
    /\ crashes \in 0..MaxCrashes

(* Nothing reaches the gateway that a human did not approve, also when the *)
(* gateway is configured only after a run without approval became ready.   *)
DispatchedIsApproved == \A e \in gateway : run[e].approved

(* While the outcome of a paid external run is outstanding its money stays *)
(* set aside or spent: no crash, no tick and no repeated or refused result *)
(* frees it.  Only a human who releases it by hand does.                   *)
OutstandingIsFunded ==
    \A e \in Experiment :
        run[e].status = "waiting_result" /\ Cost[e] > 0 =>
            hold[e].status \in {"reserved", "settled"} \/ e \in freed

(* The reservation of a paid run is given back only if the gateway never   *)
(* accepted the run, or its answer was lost, or a human did so by hand.    *)
ReleasedIsUnanswered ==
    \A e \in Experiment :
        hold[e].status = "released" => e \notin gateway \/ e \in unheard \/ e \in freed

(* A run counts once as evidence, however often a command that died is     *)
(* repeated ("a validation result for this run has already been recorded").*)
CountedOnce == \A e \in Experiment : Len(results[e]) <= 1

(* The books agree with the evidence: a paid run's reservation is settled  *)
(* at the cost of its recorded result rounded up to a whole cent, also     *)
(* when the command died between the two and was repeated with other       *)
(* figures, or somebody settled or released the reservation by hand.       *)
ChargedAsReported ==
    \A e \in Experiment :
        \A i \in DOMAIN results[e] :
            hold[e].status # "none" =>
                hold[e] = [status |-> "settled", cents |-> Cents(results[e][i].cost)]

(* A venture that was advanced, pivoted or killed is never validated again *)
(* by a late step of a tick.                                               *)
VerdictStands == [][stage \notin Open => stage' = stage]_vars

\* A run waits for a human, or a process that died has left it running: the scheduler
\* holds the venture back until somebody does something by hand.
AwaitsHuman ==
    \E e \in Experiment :
        \/ run[e].status \in {"waiting_approval", "waiting_result"}
        \/ run[e].status = "running" /\ ~(tick.at \in UnderWay /\ tick.e = e)

(* Every result is judged in the end if the venture keeps its turn: the    *)
(* latest decision has seen all of them, or the venture has left           *)
(* validation, or the scheduler holds it back for a human.  That last case *)
(* is real: a tick that dies after its result was stored leaves the run    *)
(* running, and no scheduled tick takes that result up.                    *)
EvidenceIsJudged ==
    <>[]due =>
        []<>(\/ Count = NoCount \/ decision.seen = Count \/ stage \notin Open
             \/ AwaitsHuman)

(* A started run comes to an end or goes back to waiting if the venture    *)
(* keeps its turn (README, "persist experiment execution as a resumable    *)
(* state machine").                                                        *)
RunsResume ==
    <>[]due =>
        \A e \in Experiment : run[e].status = "running" ~> run[e].status # "running"
=============================================================================
