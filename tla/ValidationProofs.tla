--------------------------- MODULE ValidationProofs ---------------------------
(***************************************************************************)
(* The safety of one venture's validation, for any experiments, executors, *)
(* costs, results and configurations, and any number of crashes.           *)
(***************************************************************************)
EXTENDS Validation, SequenceTheorems, TLAPS

Kind == {"continue", "advance", "pivot", "kill"}
Tick == [at : Place, config : [linked : BOOLEAN, cash : Nat], again : BOOLEAN,
         exhausted : BOOLEAN, todo : SUBSET Experiment, e : Nat, approved : BOOLEAN,
         verdict : Kind \cup {"none"}, seen : [Experiment -> Nat], result : Seq(Result)]
Command == [at : {"idle", "approve", "reject", "settle", "record", "complete"},
            e : Nat, result : Seq(Result)]

(* TypeOK with what the two processes hold in their hands.                 *)
Columns ==
    /\ planned \in SUBSET Experiment /\ fresh \in BOOLEAN
    /\ run \in [Experiment -> [status : RunStatus, approved : BOOLEAN]]
    /\ hold \in [Experiment -> [status : HoldStatus, cents : Nat]]
    /\ results \in [Experiment -> Seq(Result)]
    /\ \A e \in Experiment : Len(results[e]) <= MaxResults
    /\ decision.kind \in Kind \cup {"none"}
    /\ stage \in Stage
    /\ gateway \in SUBSET Experiment /\ unheard \in SUBSET gateway
    /\ freed \in SUBSET Experiment /\ due \in BOOLEAN
    /\ tick \in Tick
    /\ operator \in Command
    /\ crashes \in 0..MaxCrashes

\* Places at which the tick has an experiment.
Working == {"create", "launch", "save_experiment"} \cup UnderWay

\* Nothing has happened in a run that was never started.
Untouched == {"none", "waiting_approval", "ready", "blocked"}

\* The money of a paid run is set aside or spent, unless a human took it back.
Funded(e) == hold[e].status \in {"reserved", "settled"} \/ e \in freed

(* What the tables say of one experiment.                                  *)
RowInv(e) ==
    /\ run[e].status \in Untouched =>
          hold[e].status = "none" /\ results[e] = <<>> /\ e \notin gateway
    /\ e \in gateway => run[e].approved
    /\ run[e].status = "waiting_result" /\ Cost[e] > 0 => Funded(e)
    /\ hold[e].status = "released" => e \notin gateway \/ e \in unheard \/ e \in freed
    /\ Len(results[e]) <= 1
    /\ \A i \in DOMAIN results[e] :
          hold[e].status # "none" =>
              hold[e] = [status |-> "settled", cents |-> Cents(results[e][i].cost)]

(* The experiment a tick works on is as the tick has read it.              *)
TickInv ==
    /\ tick.at # "idle" => stage \in Open
    /\ tick.at \in {"save_decision", "save_stage"} => tick.verdict \in Kind
    /\ tick.at \in Working => tick.e \in Experiment
    /\ tick.at = "create" => run[tick.e].status = "none"
    /\ tick.at = "launch" =>
          run[tick.e].status = "ready" /\ (tick.approved => run[tick.e].approved)
    /\ tick.at \in UnderWay =>
          run[tick.e].status = "running" /\ (NeedsApproval(tick.e) => run[tick.e].approved)

(* The money and the result of a run under way.                            *)
FlightInv ==
    /\ tick.at \in {"reserve", "execute", "save_ready"} => tick.e \notin gateway
    /\ tick.at = "reserve" => IsGateway(tick.e) /\ Cost[tick.e] > 0
    /\ tick.at \in {"reserve", "save_ready", "save_result"} => hold[tick.e].status = "none"
    /\ tick.at = "execute" =>
          IF IsGateway(tick.e) /\ Cost[tick.e] > 0
          THEN Funded(tick.e) ELSE hold[tick.e].status = "none"
    /\ tick.at = "save_dispatch" /\ Cost[tick.e] > 0 => Funded(tick.e)
    /\ tick.at = "release" => tick.e \notin gateway \/ tick.e \in unheard
    /\ tick.at \in UnderWay \ {"save_completed"} => results[tick.e] = <<>>
    /\ tick.at = "save_result" => tick.result[1] \in Result

(* The run a command works on waits for it until the command is through.   *)
CommandInv ==
    /\ operator.at # "idle" => operator.e \in Experiment
    /\ operator.at \in {"approve", "reject"} => run[operator.e].status = "waiting_approval"
    /\ operator.at \in {"settle", "record", "complete"} =>
          run[operator.e].status = "waiting_result"
    /\ operator.at \in {"settle", "record"} =>
          results[operator.e] = <<>> /\ operator.result[1] \in Result
    /\ operator.at = "record" =>
          \/ hold[operator.e].status = "none"
          \/ hold[operator.e] = [status |-> "settled", cents |-> Cents(operator.result[1].cost)]

ValidationInv ==
    /\ Columns
    /\ \A e \in Experiment : RowInv(e)
    /\ TickInv /\ FlightInv /\ CommandInv

-----------------------------------------------------------------------------
(* Types.                                                                  *)

\* An idle tick, an idle operator and no results.
LEMMA StartTypes == NoTick \in Tick /\ NoCommand \in Command /\ NoCount \in [Experiment -> Nat]
<1>1. NoCount \in [Experiment -> Nat]
  BY DEF NoCount
<1>2. <<>> \in Seq(Result)
  BY EmptySeq
<1> QED
  BY <1>1, <1>2 DEF NoTick, Tick, NoCommand, Command, Place, Kind

\* The decider always says one of its four verdicts.
LEMMA VerdictType == Verdict \in Kind
<1>1. CASE Falsified
  BY <1>1 DEF Verdict, Kind
<1>2. CASE ~Falsified /\ Confirmed
  BY <1>2 DEF Verdict, Kind
<1>3. CASE ~Falsified /\ ~Confirmed /\ Diverted
  BY <1>3 DEF Verdict, Kind
<1>4. CASE ~Falsified /\ ~Confirmed /\ ~Diverted
  BY <1>4 DEF Verdict, Kind
<1> QED
  BY <1>1, <1>2, <1>3, <1>4

\* How many results the decider has seen.
LEMMA CountType ==
  ASSUME results \in [Experiment -> Seq(Result)]
  PROVE  Count \in [Experiment -> Nat]
BY LenProperties DEF Count

(* Where a tick goes after the judgement is a tick, and a place in a tick  *)
(* that still runs only if the verdict was to continue.                    *)
LEMMA JudgedType ==
  ASSUME tick \in Tick, planned \in SUBSET Experiment, NEW kind
  PROVE  /\ Judged(kind) \in Tick
         /\ Judged(kind).at \in {"idle", "examine", "follow_up"}
         /\ Judged(kind).at # "idle" => kind \in {"none", "continue"}
<1>1. CASE ~tick.again /\ kind \in {"none", "continue"}
  BY <1>1 DEF Judged, Tick, Place
<1>2. CASE ~(~tick.again /\ kind \in {"none", "continue"})
            /\ tick.again /\ ~tick.exhausted /\ kind = "continue"
  BY <1>2 DEF Judged, Tick, Place
<1>3. CASE /\ ~(~tick.again /\ kind \in {"none", "continue"})
           /\ ~(tick.again /\ ~tick.exhausted /\ kind = "continue")
  BY <1>3, StartTypes DEF Judged, NoTick
<1> QED
  BY <1>1, <1>2, <1>3

(* The same tick at another place.                                         *)
LEMMA TickMoves ==
  ASSUME tick \in Tick, NEW p \in Place, tick' = [tick EXCEPT !.at = p]
  PROVE  /\ tick' \in Tick /\ tick'.at = p /\ tick'.e = tick.e /\ tick'.config = tick.config
         /\ tick'.verdict = tick.verdict
BY DEF Tick

\* execute_next returns.
LEMMA TickJudges ==
  ASSUME tick \in Tick, NEW b \in BOOLEAN
  PROVE  JudgeAgain(b) \in Tick /\ JudgeAgain(b).at = "judge"
BY DEF Tick, JudgeAgain, Place

\* The next experiment.
LEMMA TickGoesOn ==
  ASSUME tick \in Tick
  PROVE  NextExperiment \in Tick /\ NextExperiment.at = "examine"
BY DEF Tick, NextExperiment, Place

\* A tick takes up an experiment,
LEMMA TickPicks ==
  ASSUME tick \in Tick, NEW e \in Experiment, e \in Nat, NEW p \in Place,
         tick' = [tick EXCEPT !.at = p, !.e = e]
  PROVE  tick' \in Tick /\ tick'.at = p /\ tick'.e = e
BY DEF Tick

\* leaves one out,
LEMMA TickDrops ==
  ASSUME tick \in Tick, NEW e, tick' = [tick EXCEPT !.todo = @ \ {e}]
  PROVE  tick' \in Tick /\ tick'.at = tick.at
BY DEF Tick

\* has its run ready,
LEMMA TickLaunches ==
  ASSUME tick \in Tick, NEW e \in Experiment, e \in Nat, NEW b \in BOOLEAN,
         \/ tick' = [tick EXCEPT !.at = "launch", !.e = e, !.approved = b]
         \/ tick' = [tick EXCEPT !.at = "launch", !.approved = b] /\ e = tick.e
  PROVE  tick' \in Tick /\ tick'.at = "launch" /\ tick'.e = e /\ tick'.approved = b
<1>1. "launch" \in Place
  BY DEF Place
<1>2. CASE tick' = [tick EXCEPT !.at = "launch", !.e = e, !.approved = b]
  BY <1>1, <1>2 DEF Tick
<1>3. CASE tick' = [tick EXCEPT !.at = "launch", !.approved = b] /\ e = tick.e
  BY <1>1, <1>3 DEF Tick
<1> QED
  BY <1>2, <1>3

\* or comes back with a result.
LEMMA TickFinds ==
  ASSUME tick \in Tick, NEW r \in Result,
         tick' = [tick EXCEPT !.at = "save_result", !.result = <<r>>]
  PROVE  /\ tick' \in Tick /\ tick'.at = "save_result" /\ tick'.result[1] \in Result
         /\ tick'.e = tick.e /\ tick'.config = tick.config
<1>1. <<r>> \in Seq(Result) /\ <<r>>[1] = r
  OBVIOUS
<1> QED
  BY <1>1 DEF Tick, Place

-----------------------------------------------------------------------------
(* Steps of the tick that touch neither money nor operator.                *)

tables == <<run, hold, results, gateway, unheard, freed, due, operator>>

\* What is left to show of a step that only moves the tick.
LEMMA QuietKeeps ==
  ASSUME ValidationInv, UNCHANGED tables,
         planned' \in SUBSET Experiment, fresh' \in BOOLEAN,
         decision.kind' \in Kind \cup {"none"}, stage' \in Stage, crashes' \in 0..MaxCrashes,
         tick' \in Tick, TickInv', FlightInv'
  PROVE  ValidationInv'
<1>1. Columns'
  BY DEF ValidationInv, Columns, tables
<1>2. \A e \in Experiment : RowInv(e)'
  BY DEF ValidationInv, RowInv, Funded, tables
<1>3. CommandInv'
  BY DEF ValidationInv, CommandInv, tables
<1> QED
  BY <1>1, <1>2, <1>3 DEF ValidationInv

\* Places at which a tick has nothing in hand.
LEMMA Nowhere ==
  ASSUME tick'.at \in {"idle", "judge", "examine", "follow_up"},
         tick'.at # "idle" => stage' \in Open
  PROVE  TickInv' /\ FlightInv'
BY DEF TickInv, FlightInv, Funded, Working, UnderWay

\* Judging, skipping and following up.
LEMMA QuietSteps ==
  ASSUME ValidationInv, ValidationAssumption,
         \/ StartTick \/ Judge \/ SaveDecision \/ SaveStage \/ Skip \/ ReleaseRefused
         \/ DesignFollowUp \/ SaveExperiment \/ SaveValidating
  PROVE  ValidationInv'
<1> USE DEF At, venture, money, outside
<1>0. /\ Columns /\ TickInv /\ tick \in Tick
      /\ planned \in SUBSET Experiment /\ fresh \in BOOLEAN
      /\ decision.kind \in Kind \cup {"none"} /\ stage \in Stage /\ crashes \in 0..MaxCrashes
  BY DEF ValidationInv, Columns
<1>1. CASE StartTick
  <2>1. tick' \in Tick /\ tick'.at = "judge" /\ stage' \in Open /\ UNCHANGED tables
    <3>1. PICK config \in [linked : BOOLEAN, cash : Nat] :
             tick' = [NoTick EXCEPT !.at = "judge", !.config = config]
      BY <1>1 DEF StartTick, ValidationAssumption
    <3>2. NoTick \in Tick /\ "judge" \in Place
      BY StartTypes DEF Place
    <3>3. tick' \in Tick /\ tick'.at = "judge"
      BY <3>1, <3>2 DEF Tick
    <3> QED
      BY <1>1, <3>3 DEF StartTick, tables
  <2>2. TickInv' /\ FlightInv'
    BY <2>1, Nowhere
  <2> QED
    BY <1>0, <1>1, <2>1, <2>2, QuietKeeps DEF StartTick
<1>2. CASE Judge
  <2>0. stage' \in Open /\ UNCHANGED tables
    BY <1>0, <1>2 DEF Judge, TickInv, tables
  <2>1. CASE tick' = Judged(decision.kind)
    <3>1. tick' \in Tick /\ tick'.at \in {"idle", "examine", "follow_up"}
      BY <1>0, <2>1, JudgedType
    <3>2. TickInv' /\ FlightInv'
      BY <2>0, <3>1, Nowhere
    <3> QED
      BY <1>0, <1>2, <2>0, <3>1, <3>2, QuietKeeps DEF Judge
  <2>2. CASE tick' = [tick EXCEPT !.at = "save_decision", !.verdict = Verdict, !.seen = Count]
    <3>1. results \in [Experiment -> Seq(Result)]
      BY <1>0 DEF Columns
    <3>2. tick' \in Tick /\ tick'.at = "save_decision" /\ tick'.verdict \in Kind
      BY <1>0, <2>2, <3>1, VerdictType, CountType DEF Tick, Place
    <3>3. TickInv' /\ FlightInv'
      BY <2>0, <3>2 DEF TickInv, FlightInv, Funded, Working, UnderWay
    <3> QED
      BY <1>0, <1>2, <2>0, <3>2, <3>3, QuietKeeps DEF Judge
  <2> QED
    BY <1>2, <2>1, <2>2 DEF Judge
<1>3. CASE SaveDecision
  <2>1. tick' \in Tick /\ tick'.at = "save_stage" /\ tick'.verdict = tick.verdict
    BY <1>0, <1>3, TickMoves DEF SaveDecision, Place
  <2>2. tick.verdict \in Kind /\ stage' \in Open /\ UNCHANGED tables
    BY <1>0, <1>3 DEF SaveDecision, TickInv, tables
  <2>3. decision.kind' \in Kind
    BY <1>3, <2>2 DEF SaveDecision
  <2>4. TickInv' /\ FlightInv'
    BY <2>1, <2>2 DEF TickInv, FlightInv, Funded, Working, UnderWay
  <2> QED
    BY <1>0, <1>3, <2>1, <2>2, <2>3, <2>4, QuietKeeps DEF SaveDecision
<1>4. CASE SaveStage
  <2>1. tick.verdict \in Kind /\ UNCHANGED tables
    BY <1>0, <1>4 DEF SaveStage, TickInv, tables
  <2>2. /\ tick' \in Tick /\ tick'.at \in {"idle", "examine", "follow_up"}
        /\ tick'.at # "idle" => tick.verdict = "continue"
    BY <1>0, <1>4, <2>1, JudgedType DEF SaveStage, Kind
  <2>3. stage' \in Stage /\ (tick.verdict = "continue" => stage' \in Open)
    BY <1>4, <2>1 DEF SaveStage, StageOf, Stage, Open, Kind
  <2>4. TickInv' /\ FlightInv'
    BY <2>2, <2>3, Nowhere
  <2> QED
    BY <1>0, <1>4, <2>1, <2>2, <2>3, <2>4, QuietKeeps DEF SaveStage
<1>5. CASE Skip
  <2>1. tick' \in Tick /\ tick'.at = "examine" /\ stage' \in Open /\ UNCHANGED tables
    BY <1>0, <1>5, TickGoesOn DEF Skip, TickInv, tables
  <2>2. TickInv' /\ FlightInv'
    BY <2>1, Nowhere
  <2> QED
    BY <1>0, <1>5, <2>1, <2>2, QuietKeeps DEF Skip
<1>6. CASE DesignFollowUp
  <2>0. stage' \in Open /\ UNCHANGED tables
    BY <1>0, <1>6 DEF DesignFollowUp, TickInv, tables
  <2>1. CASE tick' = NoTick
    <3>1. tick' \in Tick /\ tick'.at = "idle"
      BY <2>1, StartTypes DEF NoTick
    <3>2. TickInv' /\ FlightInv'
      BY <2>0, <3>1, Nowhere
    <3> QED
      BY <1>0, <1>6, <2>0, <3>1, <3>2, QuietKeeps DEF DesignFollowUp
  <2>2. ASSUME NEW e \in Experiment,
               tick' = [tick EXCEPT !.at = "save_experiment", !.e = e]
        PROVE  ValidationInv'
    <3>1. e \in Nat
      BY DEF ValidationAssumption
    <3>2. tick' \in Tick /\ tick'.at = "save_experiment" /\ tick'.e \in Experiment
      BY <1>0, <2>2, <3>1, TickPicks DEF Place
    <3>3. TickInv' /\ FlightInv'
      BY <2>0, <3>2 DEF TickInv, FlightInv, Funded, Working, UnderWay
    <3> QED
      BY <1>0, <1>6, <2>0, <3>2, <3>3, QuietKeeps DEF DesignFollowUp
  <2> QED
    BY <1>6, <2>1, <2>2 DEF DesignFollowUp
<1>7. CASE SaveExperiment
  <2>1. tick' \in Tick /\ tick'.at = "save_validating"
    BY <1>0, <1>7, TickMoves DEF SaveExperiment, Place
  <2>2. tick.e \in Experiment /\ stage' \in Open /\ UNCHANGED tables
    BY <1>0, <1>7 DEF SaveExperiment, TickInv, Working, tables
  <2>3. TickInv' /\ FlightInv'
    BY <2>1, <2>2 DEF TickInv, FlightInv, Funded, Working, UnderWay
  <2> QED
    BY <1>0, <1>7, <2>1, <2>2, <2>3, QuietKeeps DEF SaveExperiment
<1>8. CASE SaveValidating
  <2>1. tick' \in Tick /\ tick'.at = "idle" /\ UNCHANGED tables
    BY <1>8, StartTypes DEF SaveValidating, NoTick, tables
  <2>2. TickInv' /\ FlightInv'
    BY <2>1, Nowhere
  <2> QED
    BY <1>0, <1>8, <2>1, <2>2, QuietKeeps DEF SaveValidating, Stage
<1>9. CASE ReleaseRefused
  <2>1. tick' \in Tick /\ tick'.at = "idle" /\ UNCHANGED tables
    BY <1>9, StartTypes DEF ReleaseRefused, NoTick, tables
  <2>2. TickInv' /\ FlightInv'
    BY <2>1, Nowhere
  <2> QED
    BY <1>0, <1>9, <2>1, <2>2, QuietKeeps DEF ReleaseRefused
<1> QED
  BY <1>1, <1>2, <1>3, <1>4, <1>5, <1>6, <1>7, <1>8, <1>9

-----------------------------------------------------------------------------
(* Steps of the tick that choose or work on a run.                         *)

\* Choosing the next experiment.
LEMMA ExamineKeeps ==
  ASSUME ValidationInv, ValidationAssumption, Examine
  PROVE  ValidationInv'
<1>1. /\ Columns /\ TickInv /\ tick \in Tick /\ tick.at = "examine" /\ stage' \in Open
      /\ UNCHANGED <<planned, fresh, decision, stage, crashes>> /\ UNCHANGED tables
  BY DEF ValidationInv, Columns, TickInv, Examine, At, venture, money, outside, tables
<1>2. tick' \in Tick /\ TickInv' /\ FlightInv'
  <2>1. CASE tick' = JudgeAgain(FALSE)
    <3>1. tick' \in Tick /\ tick'.at = "judge"
      BY <1>1, <2>1, TickJudges
    <3> QED
      BY <1>1, <3>1, Nowhere
  <2>2. ASSUME NEW e \in tick.todo, run[e].status = "none",
               tick' = [tick EXCEPT !.at = "create", !.e = e]
        PROVE  tick' \in Tick /\ TickInv' /\ FlightInv'
    <3>1. e \in Experiment /\ e \in Nat
      BY <1>1 DEF Tick, ValidationAssumption
    <3>2. tick' \in Tick /\ tick'.at = "create" /\ tick'.e = e
      BY <1>1, <2>2, <3>1, TickPicks DEF Place
    <3> QED
      BY <1>1, <2>2, <3>1, <3>2 DEF TickInv, FlightInv, Funded, Working, UnderWay, tables
  <2>3. ASSUME NEW e \in tick.todo, run[e].status = "ready",
               tick' = [tick EXCEPT !.at = "launch", !.e = e, !.approved = run[e].approved]
        PROVE  tick' \in Tick /\ TickInv' /\ FlightInv'
    <3>1. e \in Experiment /\ e \in Nat /\ run[e].approved \in BOOLEAN
      BY <1>1 DEF Tick, ValidationAssumption, Columns
    <3>2. /\ tick' \in Tick /\ tick'.at = "launch" /\ tick'.e = e
          /\ tick'.approved = run[e].approved
      BY <1>1, <2>3, <3>1, TickLaunches
    <3> QED
      BY <1>1, <2>3, <3>1, <3>2 DEF TickInv, FlightInv, Funded, Working, UnderWay, tables
  <2>4. ASSUME NEW e \in tick.todo, tick' = [tick EXCEPT !.todo = @ \ {e}]
        PROVE  tick' \in Tick /\ TickInv' /\ FlightInv'
    <3>1. e \in Experiment /\ e \in Nat
      BY <1>1 DEF Tick, ValidationAssumption
    <3>2. tick' \in Tick /\ tick'.at = "examine"
      BY <1>1, <2>4, TickDrops
    <3> QED
      BY <1>1, <3>2, Nowhere
  <2> QED
    BY <2>1, <2>2, <2>3, <2>4 DEF Examine
<1> QED
  BY <1>1, <1>2, QuietKeeps DEF Columns

(* A new status for the run the tick works on, which is none a command is  *)
(* working on.                                                             *)
LEMMA StatusKeeps ==
  ASSUME ValidationInv, NEW status \in RunStatus, SetStatus(tick.e, status),
         tick.e \in Experiment,
         run[tick.e].status \notin {"waiting_approval", "waiting_result"},
         UNCHANGED <<planned, fresh, decision, stage, crashes>>,
         UNCHANGED <<hold, results, gateway, unheard, freed, due, operator>>,
         status \in Untouched =>
            hold[tick.e].status = "none" /\ results[tick.e] = <<>> /\ tick.e \notin gateway,
         status = "waiting_result" /\ Cost[tick.e] > 0 =>
            Funded(tick.e),
         tick' \in Tick, TickInv', FlightInv'
  PROVE  ValidationInv'
<1>1. /\ run' \in [Experiment -> [status : RunStatus, approved : BOOLEAN]]
      /\ run'[tick.e].status = status /\ run'[tick.e].approved = run[tick.e].approved
      /\ \A e \in Experiment \ {tick.e} : run'[e] = run[e]
  BY DEF SetStatus, ValidationInv, Columns
<1>2. Columns'
  BY <1>1 DEF ValidationInv, Columns
<1>3. ASSUME NEW e \in Experiment PROVE RowInv(e)'
  BY <1>1 DEF ValidationInv, RowInv, Funded
<1>4. CommandInv'
  BY <1>1 DEF ValidationInv, CommandInv
<1> QED
  BY <1>2, <1>3, <1>4 DEF ValidationInv

\* Creating, launching and ending runs.
LEMMA StatusSteps ==
  ASSUME ValidationInv, ValidationAssumption,
         \/ Create \/ SendBack \/ Block \/ Launch \/ DeferCash
         \/ SaveFailed \/ SaveReady \/ SaveDispatched \/ SaveCompleted
  PROVE  ValidationInv'
<1> USE DEF At, venture, outside
<1>0. /\ Columns /\ TickInv /\ FlightInv /\ tick \in Tick
      /\ run \in [Experiment -> [status : RunStatus, approved : BOOLEAN]]
      /\ tick.at # "idle" => stage \in Open
      /\ \A e \in Experiment : RowInv(e)
      /\ \A e \in Experiment : \A status : SetStatus(e, status) =>
            run'[e].status = status /\ run'[e].approved = run[e].approved
  BY DEF ValidationInv, Columns, SetStatus, TickInv
<1>1. CASE Create
  <2>1. /\ tick.at = "create" /\ tick.e \in Experiment /\ run[tick.e].status = "none"
        /\ hold[tick.e].status = "none" /\ results[tick.e] = <<>> /\ tick.e \notin gateway
        /\ tick.e \in Nat
    BY <1>0, <1>1 DEF Create, TickInv, Working, RowInv, Untouched, ValidationAssumption
  <2>2. CASE NeedsApproval(tick.e)
    <3>1. tick' \in Tick /\ tick'.at = "examine"
      BY <1>0, <1>1, <2>2, TickGoesOn DEF Create
    <3>2. TickInv' /\ FlightInv'
      BY <1>0, <1>1, <2>1, <3>1, Nowhere DEF Create
    <3> QED
      BY <1>1, <2>1, <2>2, <3>1, <3>2, StatusKeeps DEF Create, RunStatus
  <2>3. CASE ~NeedsApproval(tick.e)
    <3>1. tick' \in Tick /\ tick'.at = "launch" /\ tick'.e = tick.e /\ ~tick'.approved
      BY <1>0, <1>1, <2>1, <2>3, TickLaunches DEF Create
    <3>2. TickInv' /\ FlightInv'
      BY <1>0, <1>1, <2>1, <2>3, <3>1 DEF Create, TickInv, FlightInv, Working, UnderWay
    <3> QED
      BY <1>1, <2>1, <2>3, <3>1, <3>2, StatusKeeps DEF Create, RunStatus
  <2> QED
    BY <2>2, <2>3
<1>2. CASE SendBack \/ Block
  <2>1. /\ tick.at = "launch" /\ tick.e \in Experiment /\ run[tick.e].status = "ready"
        /\ hold[tick.e].status = "none" /\ results[tick.e] = <<>> /\ tick.e \notin gateway
    BY <1>0, <1>2 DEF SendBack, Block, TickInv, Working, RowInv, Untouched
  <2>2. tick' \in Tick /\ tick'.at = "examine" /\ stage' \in Open
    BY <1>0, <1>2, <2>1, TickGoesOn DEF SendBack, Block
  <2>3. TickInv' /\ FlightInv'
    BY <2>2, Nowhere
  <2> QED
    BY <1>2, <2>1, <2>2, <2>3, StatusKeeps DEF SendBack, Block, RunStatus
<1>3. CASE Launch
  <2>1. /\ tick.at = "launch" /\ tick.e \in Experiment /\ run[tick.e].status = "ready"
        /\ hold[tick.e].status = "none" /\ results[tick.e] = <<>> /\ tick.e \notin gateway
        /\ NeedsApproval(tick.e) => run[tick.e].approved
    BY <1>0, <1>3 DEF Launch, MayLaunch, TickInv, Working, RowInv, Untouched
  <2>2. /\ tick' \in Tick /\ tick'.e = tick.e /\ tick'.config = tick.config
        /\ tick'.at = IF IsGateway(tick.e) /\ Cost[tick.e] > 0 THEN "reserve" ELSE "execute"
    <3> DEFINE p == IF IsGateway(tick.e) /\ Cost[tick.e] > 0 THEN "reserve" ELSE "execute"
    <3>1. p \in Place
      BY DEF Place
    <3>2. tick' = [tick EXCEPT !.at = p]
      BY <1>3 DEF Launch
    <3> HIDE DEF p
    <3>3. tick' \in Tick /\ tick'.e = tick.e /\ tick'.config = tick.config /\ tick'.at = p
      BY <1>0, <3>1, <3>2, TickMoves
    <3> QED
      BY <3>3 DEF p
  <2>3. /\ IsGateway(tick.e)' = IsGateway(tick.e)
        /\ NeedsApproval(tick.e)' = NeedsApproval(tick.e)
    BY <2>2 DEF NeedsApproval, IsGateway
  <2>4. /\ run'[tick.e].status = "running" /\ run'[tick.e].approved = run[tick.e].approved
        /\ UNCHANGED <<hold, results, gateway, stage>>
    BY <1>0, <1>3, <2>1 DEF Launch
  <2>5. TickInv' /\ FlightInv'
    BY <1>0, <2>1, <2>2, <2>3, <2>4 DEF TickInv, FlightInv, Funded, Working, UnderWay
  <2> QED
    BY <1>3, <2>1, <2>2, <2>5, StatusKeeps DEF Launch, RunStatus, Untouched
<1>4. CASE DeferCash
  <2>1. /\ tick.at = "reserve" /\ tick.e \in Experiment /\ run[tick.e].status = "running"
        /\ hold[tick.e].status = "none" /\ results[tick.e] = <<>> /\ tick.e \notin gateway
    BY <1>0, <1>4 DEF DeferCash, TickInv, FlightInv, Working, UnderWay
  <2>2. tick' \in Tick /\ tick'.at = "judge" /\ stage' \in Open
    BY <1>0, <1>4, <2>1, TickJudges DEF DeferCash
  <2>3. TickInv' /\ FlightInv'
    BY <2>2, Nowhere
  <2> QED
    BY <1>4, <2>1, <2>2, <2>3, StatusKeeps DEF DeferCash, RunStatus
<1>5. ASSUME NEW place \in {"save_failed", "save_ready", "save_dispatch", "save_completed"},
             NEW status \in {"failed", "ready", "waiting_result", "completed"},
             NEW exhausted \in BOOLEAN,
             EndRun(place, status, exhausted),
             status = "ready" => place = "save_ready",
             status = "waiting_result" => place = "save_dispatch"
      PROVE  ValidationInv'
  <2>1. /\ tick.at = place /\ tick.e \in Experiment /\ run[tick.e].status = "running"
        /\ status = "ready" =>
              hold[tick.e].status = "none" /\ results[tick.e] = <<>> /\ tick.e \notin gateway
        /\ status = "waiting_result" /\ Cost[tick.e] > 0 => Funded(tick.e)
    BY <1>0, <1>5 DEF EndRun, TickInv, FlightInv, Working, UnderWay
  <2>2. tick' \in Tick /\ tick'.at = "judge" /\ stage' \in Open
    BY <1>0, <1>5, <2>1, TickJudges DEF EndRun
  <2>3. TickInv' /\ FlightInv'
    BY <2>2, Nowhere
  <2> QED
    BY <1>5, <2>1, <2>2, <2>3, StatusKeeps DEF EndRun, RunStatus, Untouched
<1>6. CASE SaveFailed \/ SaveReady \/ SaveDispatched \/ SaveCompleted
  BY <1>5, <1>6 DEF SaveFailed, SaveReady, SaveDispatched, SaveCompleted
<1> QED
  BY <1>1, <1>2, <1>3, <1>4, <1>6

-----------------------------------------------------------------------------
(* Steps of a run under way.                                               *)

\* What such a step finds.
LEMMA InFlight ==
  ASSUME ValidationInv, tick.at \in UnderWay
  PROVE  /\ Columns /\ TickInv /\ FlightInv /\ CommandInv /\ tick \in Tick
         /\ tick.e \in Experiment /\ RowInv(tick.e) /\ stage \in Open
         /\ run[tick.e].status = "running"
         /\ NeedsApproval(tick.e) => run[tick.e].approved
         /\ \A e \in Experiment : RowInv(e)
         /\ operator.at # "idle" => operator.e # tick.e
BY DEF ValidationInv, Columns, TickInv, Working, UnderWay, CommandInv, Command

\* The experiment and the configuration stay with the tick.
LEMMA SameRun ==
  ASSUME tick'.e = tick.e, tick'.config = tick.config
  PROVE  /\ IsGateway(tick.e)' = IsGateway(tick.e)
         /\ NeedsApproval(tick.e)' = NeedsApproval(tick.e)
BY DEF NeedsApproval, IsGateway

\* Setting money aside for a paid run.
LEMMA ReserveKeeps ==
  ASSUME ValidationInv, ValidationAssumption, Reserve
  PROVE  ValidationInv'
<1>1. /\ tick.at = "reserve" /\ tick.at \in UnderWay
      /\ UNCHANGED <<planned, fresh, decision, stage, run, results, gateway, unheard, freed, due>>
      /\ UNCHANGED <<operator, crashes>>
  BY DEF Reserve, At, UnderWay, venture, outside
<1>2. /\ Columns /\ CommandInv /\ tick.e \in Experiment /\ stage \in Open
      /\ run[tick.e].status = "running"
      /\ NeedsApproval(tick.e) => run[tick.e].approved
      /\ hold[tick.e].status = "none" /\ results[tick.e] = <<>> /\ tick.e \notin gateway
      /\ IsGateway(tick.e) /\ Cost[tick.e] > 0 /\ Cost[tick.e] \in Nat
      /\ operator.at # "idle" => operator.e # tick.e
  BY <1>1, InFlight DEF FlightInv, UnderWay, ValidationAssumption
<1>3. /\ hold' \in [Experiment -> [status : HoldStatus, cents : Nat]]
      /\ hold'[tick.e].status = "reserved"
      /\ \A e \in Experiment \ {tick.e} : hold'[e] = hold[e]
  BY <1>2 DEF Reserve, Columns, HoldStatus
<1>4. /\ tick' \in Tick /\ tick'.at = "execute" /\ tick'.e = tick.e
      /\ tick'.config = tick.config
  BY <1>1, TickMoves, InFlight DEF Reserve, Place
<1>5. Columns'
  BY <1>1, <1>2, <1>3, <1>4 DEF Columns
<1>6. ASSUME NEW e \in Experiment PROVE RowInv(e)'
  <2>1. RowInv(e)
    BY DEF ValidationInv
  <2>2. CASE e = tick.e
    BY <1>1, <1>2, <1>3, <2>1, <2>2 DEF RowInv, Funded, Untouched
  <2>3. CASE e # tick.e
    BY <1>1, <1>3, <2>1, <2>3 DEF RowInv, Funded
  <2> QED
    BY <2>2, <2>3
<1>7. TickInv' /\ FlightInv'
  BY <1>1, <1>2, <1>3, <1>4, SameRun DEF TickInv, FlightInv, Funded, Working, UnderWay
<1>8. CommandInv'
  BY <1>1, <1>2, <1>3 DEF CommandInv
<1> QED
  BY <1>5, <1>6, <1>7, <1>8 DEF ValidationInv

\* The gateway accepts a run, or not, and answers, or not.
LEMMA DispatchKeeps ==
  ASSUME ValidationInv, ValidationAssumption, Dispatch
  PROVE  ValidationInv'
<1>1. /\ tick.at = "execute" /\ tick.at \in UnderWay /\ IsGateway(tick.e)
      /\ UNCHANGED <<planned, fresh, decision, stage, run, results, hold, freed, due>>
      /\ UNCHANGED <<operator, crashes>>
  BY DEF Dispatch, At, UnderWay, venture, money
<1>2. /\ Columns /\ CommandInv /\ tick \in Tick /\ tick.e \in Experiment /\ stage \in Open
      /\ run[tick.e].status = "running" /\ run[tick.e].approved
      /\ results[tick.e] = <<>> /\ tick.e \notin gateway
      /\ IF Cost[tick.e] > 0 THEN Funded(tick.e) ELSE hold[tick.e].status = "none"
  BY <1>1, InFlight DEF FlightInv, UnderWay, NeedsApproval
<1>3. \/ /\ gateway' = gateway \cup {tick.e} /\ unheard' = unheard
         /\ tick' = [tick EXCEPT !.at = "save_dispatch"]
      \/ /\ gateway' = gateway \cup {tick.e} /\ unheard' = unheard \cup {tick.e}
         /\ tick' = [tick EXCEPT !.at = "release"]
      \/ /\ gateway' = gateway /\ unheard' = unheard
         /\ tick' = [tick EXCEPT !.at = "release"]
  BY DEF Dispatch
<1>4. /\ tick' \in Tick /\ tick'.e = tick.e /\ tick'.config = tick.config
      /\ \/ tick'.at = "save_dispatch"
         \/ tick'.at = "release" /\ (tick.e \notin gateway' \/ tick.e \in unheard')
  <2>1. CASE tick' = [tick EXCEPT !.at = "save_dispatch"]
    BY <1>2, <2>1, TickMoves DEF Place
  <2>2. CASE /\ tick' = [tick EXCEPT !.at = "release"]
             /\ tick.e \notin gateway' \/ tick.e \in unheard'
    BY <1>2, <2>2, TickMoves DEF Place
  <2> QED
    BY <1>2, <1>3, <2>1, <2>2
<1>5. /\ gateway' \in SUBSET Experiment /\ unheard' \in SUBSET gateway'
      /\ \A e \in Experiment \ {tick.e} :
            (e \in gateway' <=> e \in gateway) /\ (e \in unheard' <=> e \in unheard)
  BY <1>2, <1>3 DEF Columns
<1>6. Columns'
  BY <1>1, <1>2, <1>4, <1>5 DEF Columns
<1>7. ASSUME NEW e \in Experiment PROVE RowInv(e)'
  <2>1. RowInv(e)
    BY DEF ValidationInv
  <2>2. CASE e = tick.e
    BY <1>1, <1>2, <2>1, <2>2 DEF RowInv, Funded, Untouched
  <2>3. CASE e # tick.e
    BY <1>1, <1>5, <2>1, <2>3 DEF RowInv, Funded
  <2> QED
    BY <2>2, <2>3
<1>8. TickInv' /\ FlightInv'
  BY <1>1, <1>2, <1>4, SameRun DEF TickInv, FlightInv, Funded, Working, UnderWay
<1>9. CommandInv'
  BY <1>1, <1>2 DEF CommandInv
<1> QED
  BY <1>6, <1>7, <1>8, <1>9 DEF ValidationInv

\* Desk research touches neither gateway nor money.
LEMMA ResearchKeeps ==
  ASSUME ValidationInv, ValidationAssumption, Research
  PROVE  ValidationInv'
<1>1. /\ tick.at = "execute" /\ tick.at \in UnderWay /\ ~IsGateway(tick.e)
      /\ UNCHANGED <<planned, fresh, decision, stage, crashes>> /\ UNCHANGED tables
  BY DEF Research, At, UnderWay, venture, money, outside, tables
<1>2. /\ Columns /\ tick \in Tick /\ tick.e \in Experiment /\ stage \in Open
      /\ run[tick.e].status = "running" /\ (NeedsApproval(tick.e) => run[tick.e].approved)
      /\ results[tick.e] = <<>> /\ tick.e \notin gateway /\ hold[tick.e].status = "none"
  BY <1>1, InFlight DEF FlightInv, UnderWay
<1>3. /\ tick' \in Tick /\ tick'.e = tick.e /\ tick'.config = tick.config
      /\ tick'.at \in {"save_result", "save_ready", "save_failed"}
      /\ tick'.at = "save_result" => tick'.result[1] \in Result
  <2>1. CASE \E r \in DeskResult :
                tick' = [tick EXCEPT !.at = "save_result", !.result = <<r>>]
    <3>1. PICK r \in Result : tick' = [tick EXCEPT !.at = "save_result", !.result = <<r>>]
      BY <2>1 DEF ValidationAssumption
    <3> QED
      BY <1>2, <3>1, TickFinds
  <2>2. CASE tick' = [tick EXCEPT !.at = "save_ready"]
    BY <1>2, <2>2, TickMoves DEF Place
  <2>3. CASE tick' = [tick EXCEPT !.at = "save_failed"]
    BY <1>2, <2>3, TickMoves DEF Place
  <2> QED
    BY <2>1, <2>2, <2>3 DEF Research
<1>4. TickInv' /\ FlightInv'
  BY <1>1, <1>2, <1>3, SameRun DEF TickInv, FlightInv, Funded, Working, UnderWay, tables
<1> QED
  BY <1>1, <1>2, <1>3, <1>4, QuietKeeps DEF Columns

\* A reservation changes its status.
LEMMA HoldChanges ==
  ASSUME hold \in [Experiment -> [status : HoldStatus, cents : Nat]],
         NEW e \in Experiment, NEW s \in HoldStatus, hold' = [hold EXCEPT ![e].status = s]
  PROVE  /\ hold' \in [Experiment -> [status : HoldStatus, cents : Nat]]
         /\ \A f \in Experiment \ {e} : hold'[f] = hold[f]
OBVIOUS

\* A dispatch failed: the money is given back.
LEMMA ReleaseKeeps ==
  ASSUME ValidationInv, ValidationAssumption, Release
  PROVE  ValidationInv'
<1>0. /\ hold' = IF hold[tick.e].status = "reserved"
                  THEN [hold EXCEPT ![tick.e].status = "released"] ELSE hold
      /\ tick' = [tick EXCEPT !.at = "save_failed"]
  BY DEF Release
<1>1. /\ tick.at = "release" /\ tick.at \in UnderWay
      /\ UNCHANGED <<planned, fresh, decision, stage, run, results, gateway, unheard, freed, due>>
      /\ UNCHANGED <<operator, crashes>>
  BY DEF Release, At, UnderWay, venture, outside
<1>2. /\ Columns /\ CommandInv /\ tick \in Tick /\ tick.e \in Experiment /\ stage \in Open
      /\ run[tick.e].status = "running"
      /\ NeedsApproval(tick.e) => run[tick.e].approved
      /\ results[tick.e] = <<>> /\ (tick.e \notin gateway \/ tick.e \in unheard)
      /\ operator.at # "idle" => operator.e # tick.e
  BY <1>1, InFlight DEF FlightInv, UnderWay
<1>3. /\ hold' \in [Experiment -> [status : HoldStatus, cents : Nat]]
      /\ \A e \in Experiment \ {tick.e} : hold'[e] = hold[e]
  <2>1. CASE hold[tick.e].status = "reserved"
    <3>1. hold' = [hold EXCEPT ![tick.e].status = "released"]
      BY <1>0, <2>1
    <3> QED
      BY <1>2, <3>1, HoldChanges DEF Columns, HoldStatus
  <2>2. CASE hold[tick.e].status # "reserved"
    BY <1>0, <1>2, <2>2 DEF Columns
  <2> QED
    BY <2>1, <2>2
<1>4. /\ tick' \in Tick /\ tick'.at = "save_failed" /\ tick'.e = tick.e
      /\ tick'.config = tick.config
  BY <1>0, <1>2, TickMoves DEF Place
<1>5. Columns'
  BY <1>1, <1>2, <1>3, <1>4 DEF Columns
<1>6. ASSUME NEW e \in Experiment PROVE RowInv(e)'
  <2>1. RowInv(e)
    BY DEF ValidationInv
  <2>2. CASE e = tick.e
    BY <1>1, <1>2, <1>3, <2>1, <2>2 DEF RowInv, Funded, Untouched
  <2>3. CASE e # tick.e
    BY <1>1, <1>3, <2>1, <2>3 DEF RowInv, Funded
  <2> QED
    BY <2>2, <2>3
<1>7. TickInv' /\ FlightInv'
  BY <1>1, <1>2, <1>3, <1>4, SameRun DEF TickInv, FlightInv, Funded, Working, UnderWay
<1>8. CommandInv'
  BY <1>1, <1>2, <1>3 DEF CommandInv
<1> QED
  BY <1>5, <1>6, <1>7, <1>8 DEF ValidationInv

\* A first result.
LEMMA AddedResult ==
  ASSUME Columns, ValidationAssumption, NEW e \in Experiment, NEW r \in Result,
         results[e] = <<>>, AddResult(e, r)
  PROVE  /\ results' \in [Experiment -> Seq(Result)]
         /\ \A f \in Experiment : Len(results'[f]) <= MaxResults
         /\ results'[e] = <<r>> /\ DOMAIN results'[e] = {1} /\ results'[e][1] = r
         /\ Len(results'[e]) = 1 /\ Len(results'[e]) <= 1
         /\ \A f \in Experiment \ {e} : results'[f] = results[f]
         /\ fresh' \in BOOLEAN
<1>1. Append(<<>>, r) = <<r>> /\ <<r>> \in Seq(Result) /\ Len(<<r>>) = 1 /\ <<r>>[1] = r
  OBVIOUS
<1>2. DOMAIN <<r>> = {1}
  OBVIOUS
<1>3. Len(<<>>) = 0 /\ 0 < MaxResults /\ MaxResults \in Nat
  BY EmptySeq DEF AddResult, ValidationAssumption
<1>4. results' = [results EXCEPT ![e] = <<r>>] /\ fresh' = FALSE
  BY <1>1 DEF AddResult
<1>5. /\ results' \in [Experiment -> Seq(Result)]
      /\ results'[e] = <<r>>
      /\ \A f \in Experiment \ {e} : results'[f] = results[f]
  <2> DEFINE s == <<r>>
  <2>1. s \in Seq(Result) /\ results' = [results EXCEPT ![e] = s]
    BY <1>1, <1>4
  <2> HIDE DEF s
  <2>2. results' \in [Experiment -> Seq(Result)] /\ results'[e] = s
    BY <2>1 DEF Columns
  <2>3. \A f \in Experiment \ {e} : results'[f] = results[f]
    BY <2>1 DEF Columns
  <2> QED
    BY <2>2, <2>3 DEF s
<1>6. Len(results'[e]) = 1 /\ Len(results'[e]) <= 1 /\ DOMAIN results'[e] = {1} /\ results'[e][1] = r
  BY <1>1, <1>2, <1>5
<1>7. \A f \in Experiment : Len(results'[f]) <= MaxResults
  <2> TAKE f \in Experiment
  <2>1. CASE f = e
    <3>1. 1 <= MaxResults
      BY <1>3
    <3> QED
      BY <1>6, <2>1, <3>1
  <2>2. CASE f # e
    BY <1>5, <2>2 DEF Columns
  <2> QED
    BY <2>1, <2>2
<1> QED
  BY <1>4, <1>5, <1>6, <1>7

\* The result of desk research.
LEMMA SaveResultKeeps ==
  ASSUME ValidationInv, ValidationAssumption, SaveResult
  PROVE  ValidationInv'
<1>0. /\ tick' = [tick EXCEPT !.at = "save_completed"]
      /\ AddResult(tick.e, tick.result[1])
  BY DEF SaveResult
<1>1. /\ tick.at = "save_result" /\ tick.at \in UnderWay
      /\ UNCHANGED <<planned, decision, stage, run, hold, gateway, unheard, freed, due>>
      /\ UNCHANGED <<operator, crashes>>
  BY DEF SaveResult, At, UnderWay, outside
<1>2. /\ Columns /\ CommandInv /\ tick \in Tick /\ tick.e \in Experiment /\ stage \in Open
      /\ run[tick.e].status = "running"
      /\ NeedsApproval(tick.e) => run[tick.e].approved
      /\ results[tick.e] = <<>> /\ hold[tick.e].status = "none" /\ tick.result[1] \in Result
      /\ operator.at # "idle" => operator.e # tick.e
  BY <1>1, InFlight DEF FlightInv, UnderWay
<1>3. /\ results' \in [Experiment -> Seq(Result)] /\ fresh' \in BOOLEAN
      /\ \A f \in Experiment : Len(results'[f]) <= MaxResults
      /\ Len(results'[tick.e]) = 1
      /\ \A f \in Experiment \ {tick.e} : results'[f] = results[f]
  BY <1>0, <1>2, AddedResult
<1>4. /\ tick' \in Tick /\ tick'.at = "save_completed" /\ tick'.e = tick.e
      /\ tick'.config = tick.config
  BY <1>0, <1>2, TickMoves DEF Place
<1>5. Columns'
  BY <1>1, <1>2, <1>3, <1>4 DEF Columns
<1>6. ASSUME NEW e \in Experiment PROVE RowInv(e)'
  <2>1. RowInv(e)
    BY DEF ValidationInv
  <2>2. CASE e = tick.e
    <3>1. /\ hold'[e].status = "none" /\ run'[e] = run[e] /\ run'[e].status = "running"
          /\ Len(results'[e]) = 1
          /\ gateway' = gateway /\ unheard' = unheard
      BY <1>1, <1>2, <1>3, <2>2
    <3>2. Len(results'[e]) <= 1
      BY <3>1
    <3> QED
      BY <2>1, <3>1, <3>2 DEF RowInv, Funded, Untouched
  <2>3. CASE e # tick.e
    BY <1>1, <1>3, <2>1, <2>3 DEF RowInv, Funded
  <2> QED
    BY <2>2, <2>3
<1>7. TickInv' /\ FlightInv'
  BY <1>1, <1>2, <1>4, SameRun DEF TickInv, FlightInv, Funded, Working, UnderWay
<1>8. CommandInv'
  BY <1>1, <1>2, <1>3 DEF CommandInv
<1> QED
  BY <1>5, <1>6, <1>7, <1>8 DEF ValidationInv

-----------------------------------------------------------------------------
(* The operator's commands, and processes that die.                        *)

\* While only the operator acts, the tick and what it relies on stay.
LEMMA TickWaits ==
  ASSUME TickInv, FlightInv, UNCHANGED <<tick, stage, gateway, unheard, freed>>,
         tick.at \in Working =>
            /\ run'[tick.e] = run[tick.e] /\ hold'[tick.e] = hold[tick.e]
            /\ results'[tick.e] = results[tick.e]
  PROVE  TickInv' /\ FlightInv'
<1>1. /\ IsGateway(tick.e)' = IsGateway(tick.e)
      /\ NeedsApproval(tick.e)' = NeedsApproval(tick.e)
  BY DEF NeedsApproval, IsGateway
<1>2. TickInv'
  BY <1>1 DEF TickInv, Working, UnderWay
<1>3. FlightInv'
  BY <1>1 DEF FlightInv, Funded, Working, UnderWay
<1> QED
  BY <1>2, <1>3

\* The run of a command is not the one the tick works on.
LEMMA InCommand ==
  ASSUME ValidationInv, operator.at # "idle"
  PROVE  /\ Columns /\ TickInv /\ FlightInv /\ CommandInv
         /\ operator \in Command /\ operator.e \in Experiment /\ RowInv(operator.e)
         /\ \A e \in Experiment : RowInv(e)
         /\ run[operator.e].status = IF operator.at \in {"approve", "reject"}
                                     THEN "waiting_approval" ELSE "waiting_result"
         /\ tick.at \in Working /\ tick.at # "save_experiment" => tick.e # operator.e
<1>1. /\ Columns /\ TickInv /\ FlightInv /\ CommandInv /\ \A e \in Experiment : RowInv(e)
      /\ operator \in Command
  BY DEF ValidationInv, Columns
<1>2. /\ operator.e \in Experiment
      /\ run[operator.e].status = IF operator.at \in {"approve", "reject"}
                                  THEN "waiting_approval" ELSE "waiting_result"
  BY <1>1 DEF CommandInv, Command
<1>3. tick.at \in Working /\ tick.at # "save_experiment" => tick.e # operator.e
  BY <1>1, <1>2 DEF TickInv, Working, UnderWay
<1> QED
  BY <1>1, <1>2, <1>3

\* A command that has only read, or that ends.
LEMMA ReadsKeep ==
  ASSUME ValidationInv, ValidationAssumption, NEW e \in Experiment,
         \/ ReadForApproval(e) \/ ReadForReject(e)
         \/ \E r \in GatewayResult : ReadForResult(e, r)
         \/ RefuseResult
         \/ CommandDies
  PROVE  ValidationInv'
<1>1. /\ Columns /\ TickInv /\ FlightInv
      /\ UNCHANGED <<planned, fresh, decision, stage, run, hold, results, gateway, unheard, freed, due>>
      /\ UNCHANGED tick
      /\ crashes' \in 0..MaxCrashes
  BY DEF ValidationInv, Columns, ReadForApproval, ReadForReject, ReadForResult, RefuseResult,
         CommandDies,
         venture, money, outside, ValidationAssumption
<1>2. operator' \in Command /\ CommandInv'
  <2>1. CASE ReadForApproval(e) \/ ReadForReject(e)
    <3>0. PICK place \in {"approve", "reject"} :
             operator' = [at |-> place, e |-> e, result |-> <<>>]
      BY <2>1 DEF ReadForApproval, ReadForReject, NoCommand
    <3>1. /\ operator'.at \in {"approve", "reject"} /\ operator'.e = e /\ e \in Nat
          /\ run[e].status = "waiting_approval"
      BY <2>1, <3>0 DEF ReadForApproval, ReadForReject, ValidationAssumption
    <3>2. operator' \in Command
      BY <3>0, <3>1, EmptySeq DEF Command
    <3> QED
      BY <1>1, <3>1, <3>2 DEF CommandInv
  <2>2. ASSUME NEW r \in GatewayResult, ReadForResult(e, r)
        PROVE  operator' \in Command /\ CommandInv'
    <3>1. r \in Result /\ e \in Nat
      BY DEF ValidationAssumption
    <3>2. <<r>> \in Seq(Result) /\ <<r>>[1] = r
      BY <3>1
    <3>3. /\ operator'.at = (IF hold[e].status = "none" THEN "record" ELSE "settle")
          /\ operator'.e = e /\ operator'.result = <<r>>
          /\ operator' \in Command
      BY <2>2, <3>1, <3>2 DEF ReadForResult, Command
    <3>4. run[e].status = "waiting_result" /\ results[e] = <<>>
      BY <2>2 DEF ReadForResult
    <3> QED
      BY <1>1, <3>1, <3>2, <3>3, <3>4 DEF CommandInv
  <2>3. CASE operator' = NoCommand
    BY <2>3, StartTypes DEF NoCommand, CommandInv
  <2> QED
    BY <2>1, <2>2, <2>3 DEF RefuseResult, CommandDies
<1>3. Columns'
  BY <1>1, <1>2 DEF Columns
<1>4. \A f \in Experiment : RowInv(f)'
  BY <1>1 DEF ValidationInv, RowInv, Funded
<1>5. TickInv' /\ FlightInv'
  BY <1>1, TickWaits
<1> QED
  BY <1>2, <1>3, <1>4, <1>5 DEF ValidationInv

\* A tick that dies leaves the tables as they are.
LEMMA TickDiesKeeps ==
  ASSUME ValidationInv, ValidationAssumption, TickDies
  PROVE  ValidationInv'
<1>1. /\ UNCHANGED tables /\ UNCHANGED <<planned, fresh, decision, stage>>
      /\ tick' \in Tick /\ tick'.at = "idle" /\ crashes' \in 0..MaxCrashes
  BY StartTypes DEF ValidationInv, Columns, TickDies, NoTick, venture, money, outside, tables,
                    ValidationAssumption
<1>2. TickInv' /\ FlightInv'
  BY <1>1, Nowhere
<1> QED
  BY <1>1, <1>2, QuietKeeps DEF ValidationInv, Columns

\* A command that writes the run's row back and ends.
LEMMA RunEndsKeeps ==
  ASSUME ValidationInv, ValidationAssumption,
         SaveApproved \/ SaveCancelled \/ CompleteExternal
  PROVE  ValidationInv'
<1> DEFINE e == operator.e
<1>1. /\ operator.at \in {"approve", "reject", "complete"} /\ operator' = NoCommand
      /\ \/ operator.at = "approve"
            /\ run' = [run EXCEPT ![e] = [status |-> "ready", approved |-> TRUE]]
         \/ operator.at = "reject"
            /\ run' = [run EXCEPT ![e] = [status |-> "cancelled", approved |-> FALSE]]
         \/ operator.at = "complete" /\ run' = [run EXCEPT ![e].status = "completed"]
      /\ UNCHANGED <<planned, fresh, decision, stage, hold, results, gateway, unheard, freed, due>>
      /\ UNCHANGED <<tick, crashes>>
  BY DEF SaveApproved, SaveCancelled, CompleteExternal, Doing, SetStatus, venture, outside
<1>2. /\ Columns /\ TickInv /\ FlightInv /\ e \in Experiment /\ RowInv(e)
      /\ operator.at \in {"approve", "reject"} => run[e].status = "waiting_approval"
      /\ tick.at \in Working /\ tick.at # "save_experiment" => tick.e # e
      /\ tick.at \in Working => tick.e \in Experiment
  BY <1>1, InCommand DEF TickInv
<1>3. /\ run' \in [Experiment -> [status : RunStatus, approved : BOOLEAN]]
      /\ \A f \in Experiment \ {e} : run'[f] = run[f]
      /\ operator.at = "approve" => run'[e].status = "ready" /\ run'[e].approved
      /\ operator.at = "reject" => run'[e].status = "cancelled"
      /\ operator.at = "complete" =>
            run'[e].status = "completed" /\ run'[e].approved = run[e].approved
  <2>1. CASE operator.at = "approve"
    <3>1. run' = [run EXCEPT ![e] = [status |-> "ready", approved |-> TRUE]]
      BY <1>1, <2>1
    <3>2. [status |-> "ready", approved |-> TRUE] \in [status : RunStatus, approved : BOOLEAN]
      BY DEF RunStatus
    <3> QED
      BY <1>2, <2>1, <3>1, <3>2 DEF Columns
  <2>2. CASE operator.at = "reject"
    <3>1. run' = [run EXCEPT ![e] = [status |-> "cancelled", approved |-> FALSE]]
      BY <1>1, <2>2
    <3>2. [status |-> "cancelled", approved |-> FALSE] \in [status : RunStatus, approved : BOOLEAN]
      BY DEF RunStatus
    <3> QED
      BY <1>2, <2>2, <3>1, <3>2 DEF Columns
  <2>3. CASE operator.at = "complete"
    <3>1. run' = [run EXCEPT ![e].status = "completed"]
      BY <1>1, <2>3
    <3> QED
      BY <1>2, <2>3, <3>1 DEF Columns, RunStatus
  <2> QED
    BY <1>1, <2>1, <2>2, <2>3
<1>4. operator' \in Command /\ CommandInv'
  BY <1>1, StartTypes DEF NoCommand, CommandInv
<1>5. Columns'
  BY <1>1, <1>2, <1>3, <1>4 DEF Columns
<1>6. ASSUME NEW f \in Experiment PROVE RowInv(f)'
  <2>1. RowInv(f)
    BY DEF ValidationInv
  <2>2. CASE f = e
    BY <1>1, <1>2, <1>3, <2>1, <2>2 DEF RowInv, Funded, Untouched
  <2>3. CASE f # e
    BY <1>1, <1>3, <2>1, <2>3 DEF RowInv, Funded
  <2> QED
    BY <2>2, <2>3
<1>7. TickInv' /\ FlightInv'
  <2>1. CASE tick.at = "save_experiment"
    BY <1>1, <1>2, <2>1 DEF TickInv, FlightInv, Funded, Working, UnderWay
  <2>2. CASE tick.at # "save_experiment"
    BY <1>1, <1>2, <1>3, <2>2, TickWaits
  <2> QED
    BY <2>1, <2>2
<1> QED
  BY <1>4, <1>5, <1>6, <1>7 DEF ValidationInv

\* Rounding up: the whole cents that just cover a cost.
LEMMA CentsCover ==
  ASSUME NEW cost \in Nat
  PROVE  Cents(cost) \in Nat /\ cost <= 100 * Cents(cost) /\ 100 * Cents(cost) < cost + 100
BY DEF Cents

\* The reservation is settled at the reported cost, rounded up.
LEMMA SettleKeeps ==
  ASSUME ValidationInv, ValidationAssumption, Settle
  PROVE  ValidationInv'
<1> DEFINE e == operator.e
           cost == operator.result[1].cost
           cents == Cents(cost)
<1>1. /\ operator.at = "settle" /\ MaySettle(e, cost)
      /\ hold' = [hold EXCEPT ![e] = [status |-> "settled", cents |-> cents]]
      /\ operator' = [operator EXCEPT !.at = "record"]
      /\ UNCHANGED <<planned, fresh, decision, stage, run, results, gateway, unheard, freed, due>>
      /\ UNCHANGED <<tick, crashes>>
  BY DEF Settle, Doing, venture, outside
<1>2. /\ Columns /\ TickInv /\ FlightInv /\ operator \in Command
      /\ e \in Experiment /\ RowInv(e)
      /\ run[e].status = "waiting_result"
      /\ results[e] = <<>> /\ operator.result[1] \in Result
      /\ tick.at \in Working /\ tick.at # "save_experiment" => tick.e # e
      /\ tick.at \in Working => tick.e \in Experiment
  BY <1>1, InCommand DEF TickInv, CommandInv
<1>c. cents \in Nat
  BY <1>2, CentsCover DEF Result
<1>3. /\ hold' \in [Experiment -> [status : HoldStatus, cents : Nat]]
      /\ hold'[e] = [status |-> "settled", cents |-> cents]
      /\ \A f \in Experiment \ {e} : hold'[f] = hold[f]
  BY <1>1, <1>2, <1>c DEF Columns, HoldStatus
<1>4. /\ operator' \in Command /\ operator'.at = "record" /\ operator'.e = e
      /\ operator'.result = operator.result
  BY <1>1, <1>2 DEF Command
<1>5. CommandInv'
  BY <1>1, <1>2, <1>3, <1>4 DEF CommandInv
<1>6. Columns'
  BY <1>1, <1>2, <1>3, <1>4 DEF Columns
<1>7. ASSUME NEW f \in Experiment PROVE RowInv(f)'
  <2>1. RowInv(f)
    BY DEF ValidationInv
  <2>2. CASE f = e
    <3>1. Len(results[f]) <= 1 /\ DOMAIN results[f] = {} /\ hold'[f].status = "settled"
      BY <1>2, <1>3, <2>1, <2>2, EmptySeq DEF RowInv, Funded
    <3> QED
      BY <1>1, <1>2, <2>1, <2>2, <3>1 DEF RowInv, Funded, Untouched
  <2>3. CASE f # e
    BY <1>1, <1>3, <2>1, <2>3 DEF RowInv, Funded
  <2> QED
    BY <2>2, <2>3
<1>8. TickInv' /\ FlightInv'
  <2>1. CASE tick.at = "save_experiment"
    BY <1>1, <1>2, <2>1 DEF TickInv, FlightInv, Funded, Working, UnderWay
  <2>2. CASE tick.at # "save_experiment"
    BY <1>1, <1>2, <1>3, <2>2, TickWaits
  <2> QED
    BY <2>1, <2>2
<1> QED
  BY <1>5, <1>6, <1>7, <1>8 DEF ValidationInv

\* The result a command reports.
LEMMA RecordResultKeeps ==
  ASSUME ValidationInv, ValidationAssumption, RecordResult
  PROVE  ValidationInv'
<1> DEFINE e == operator.e
           r == operator.result[1]
<1>1. /\ operator.at = "record" /\ AddResult(e, r)
      /\ operator' = [operator EXCEPT !.at = "complete"]
      /\ UNCHANGED <<planned, decision, stage, run, hold, gateway, unheard, freed, due>>
      /\ UNCHANGED <<tick, crashes>>
  BY DEF RecordResult, Doing, outside
<1>2. /\ Columns /\ TickInv /\ FlightInv /\ operator \in Command
      /\ e \in Experiment /\ RowInv(e)
      /\ run[e].status = "waiting_result"
      /\ results[e] = <<>> /\ r \in Result
      /\ hold[e].status = "none" \/ hold[e] = [status |-> "settled", cents |-> Cents(r.cost)]
      /\ tick.at \in Working /\ tick.at # "save_experiment" => tick.e # e
      /\ tick.at \in Working => tick.e \in Experiment
  BY <1>1, InCommand DEF TickInv, CommandInv
<1>3. /\ results' \in [Experiment -> Seq(Result)] /\ fresh' \in BOOLEAN
      /\ \A f \in Experiment : Len(results'[f]) <= MaxResults
      /\ Len(results'[e]) <= 1 /\ DOMAIN results'[e] = {1} /\ results'[e][1] = r
      /\ \A f \in Experiment \ {e} : results'[f] = results[f]
  BY <1>1, <1>2, AddedResult
<1>4. operator' \in Command /\ operator'.at = "complete" /\ operator'.e = e
  BY <1>1, <1>2 DEF Command
<1>5. CommandInv'
  BY <1>1, <1>2, <1>4 DEF CommandInv
<1>6. Columns'
  BY <1>1, <1>2, <1>3, <1>4 DEF Columns
<1>7. ASSUME NEW f \in Experiment PROVE RowInv(f)'
  <2>1. RowInv(f)
    BY DEF ValidationInv
  <2>2. CASE f = e
    <3>1. Len(results'[f]) <= 1
      BY <1>3, <2>2
    <3>2. \A i \in DOMAIN results'[f] :
             hold'[f].status # "none" =>
                hold'[f] = [status |-> "settled", cents |-> Cents(results'[f][i].cost)]
      BY <1>1, <1>2, <1>3, <2>2
    <3> QED
      BY <1>1, <1>2, <2>1, <2>2, <3>1, <3>2 DEF RowInv, Funded, Untouched
  <2>3. CASE f # e
    BY <1>1, <1>3, <2>1, <2>3 DEF RowInv, Funded
  <2> QED
    BY <2>2, <2>3
<1>8. TickInv' /\ FlightInv'
  <2>1. CASE tick.at = "save_experiment"
    BY <1>1, <1>2, <2>1 DEF TickInv, FlightInv, Funded, Working, UnderWay
  <2>2. CASE tick.at # "save_experiment"
    BY <1>1, <1>2, <1>3, <2>2, TickWaits
  <2> QED
    BY <2>1, <2>2
<1> QED
  BY <1>5, <1>6, <1>7, <1>8 DEF ValidationInv

(* A reservation that is still open is released or settled by hand: its    *)
(* run has been started and has no result, and what the tick and the       *)
(* command rely on stays.                                                  *)
LEMMA HandKeeps ==
  ASSUME ValidationInv, ValidationAssumption, NEW e \in Experiment,
         ReleaseByHand(e) \/ SettleByHand(e)
  PROVE  ValidationInv'
<1>1. /\ hold[e].status = "reserved"
      /\ UNCHANGED <<planned, fresh, decision, stage, run, results, gateway, unheard, due>>
      /\ UNCHANGED <<tick, operator, crashes>>
  BY DEF ReleaseByHand, SettleByHand, venture, outside
<1>2. /\ Columns /\ TickInv /\ FlightInv /\ CommandInv
      /\ \A f \in Experiment : RowInv(f)
      /\ hold \in [Experiment -> [status : HoldStatus, cents : Nat]]
      /\ freed \in SUBSET Experiment
  BY DEF ValidationInv, Columns
<1>3. /\ hold' \in [Experiment -> [status : HoldStatus, cents : Nat]]
      /\ \A f \in Experiment \ {e} : hold'[f] = hold[f]
      /\ freed' \in SUBSET Experiment /\ \A f \in freed : f \in freed'
      /\ \/ hold'[e].status = "released" /\ e \in freed'
         \/ hold'[e].status = "settled"
  <2>1. CASE ReleaseByHand(e)
    <3>1. hold' = [hold EXCEPT ![e].status = "released"] /\ freed' = freed \cup {e}
      BY <2>1 DEF ReleaseByHand
    <3>2. "released" \in HoldStatus
      BY DEF HoldStatus
    <3> QED
      BY <1>2, <3>1, <3>2, HoldChanges
  <2>2. CASE SettleByHand(e)
    <3>1. PICK c \in 0..hold[e].cents :
             hold' = [hold EXCEPT ![e] = [status |-> "settled", cents |-> c]]
      BY <2>2 DEF SettleByHand
    <3>2. c \in Nat /\ freed' = freed
      BY <1>2, <2>2, <3>1 DEF SettleByHand, outside
    <3> QED
      BY <1>2, <3>1, <3>2 DEF HoldStatus
  <2> QED
    BY <2>1, <2>2
<1>4. Columns'
  BY <1>1, <1>2, <1>3 DEF Columns
<1>5. Funded(e)' /\ \A f \in Experiment : Funded(f) => Funded(f)'
  BY <1>3 DEF Funded
<1>6. ASSUME NEW f \in Experiment PROVE RowInv(f)'
  <2>1. RowInv(f)
    BY <1>2
  <2>2. CASE f = e
    <3>1. DOMAIN results[f] = {} /\ run[f].status \notin Untouched
      <4>1. hold[f].status # "none" /\ hold[f].status # "settled"
        BY <1>1, <2>2
      <4>2. run[f].status \notin Untouched
        BY <2>1, <4>1 DEF RowInv
      <4>3. \A i \in DOMAIN results[f] : hold[f].status = "settled"
        <5> TAKE i \in DOMAIN results[f]
        <5> DEFINE c == Cents(results[f][i].cost)
        <5>1. hold[f] = [status |-> "settled", cents |-> c]
          BY <2>1, <4>1 DEF RowInv
        <5> HIDE DEF c
        <5> QED
          BY <5>1
      <4> QED
        BY <4>1, <4>2, <4>3
    <3> QED
      BY <1>1, <1>3, <1>5, <2>1, <2>2, <3>1 DEF RowInv
  <2>3. CASE f # e
    <3>1. hold'[f] = hold[f] /\ (f \in freed => f \in freed')
      BY <1>3, <2>3
    <3> QED
      BY <1>1, <1>5, <2>1, <3>1 DEF RowInv
  <2> QED
    BY <2>2, <2>3
<1>7. /\ IsGateway(tick.e)' = IsGateway(tick.e)
      /\ NeedsApproval(tick.e)' = NeedsApproval(tick.e)
  BY <1>1 DEF NeedsApproval, IsGateway
<1>8. TickInv'
  BY <1>1, <1>2, <1>7 DEF TickInv, Working, UnderWay
<1>9. FlightInv'
  <2>1. CASE tick.at \notin UnderWay
    BY <1>1, <2>1 DEF FlightInv, UnderWay
  <2>2. CASE tick.at \in UnderWay
    <3>1. tick.e \in Experiment
      BY <1>2, <2>2 DEF TickInv, Working
    <3>2. Funded(tick.e) => Funded(tick.e)'
      BY <1>1, <1>5, <3>1
    <3>3. hold[tick.e].status = "none" => hold'[tick.e] = hold[tick.e]
      BY <1>1, <1>3, <3>1
    <3> QED
      BY <1>1, <1>2, <1>7, <3>2, <3>3 DEF FlightInv
  <2> QED
    BY <2>1, <2>2
<1>10. CommandInv'
  <2>1. operator.at = "record" => operator.e \in Experiment /\ operator.e # e
    BY <1>1, <1>2 DEF CommandInv
  <2>2. operator.at = "record" => hold'[operator.e] = hold[operator.e]
    BY <1>3, <2>1
  <2> QED
    BY <1>1, <1>2, <2>2 DEF CommandInv
<1> QED
  BY <1>4, <1>6, <1>8, <1>9, <1>10 DEF ValidationInv

\* The venture gets its turn or loses it.
LEMMA TurnKeeps ==
  ASSUME ValidationInv, TurnChanges
  PROVE  ValidationInv'
<1>1. /\ UNCHANGED <<planned, fresh, decision, stage, run, hold, results>>
      /\ UNCHANGED <<gateway, unheard, freed, tick, operator, crashes>>
      /\ due' \in BOOLEAN
  BY DEF ValidationInv, Columns, TurnChanges, venture, money
<1>2. Columns'
  BY <1>1 DEF ValidationInv, Columns
<1>3. \A e \in Experiment : RowInv(e)'
  BY <1>1 DEF ValidationInv, RowInv, Funded
<1>4. TickInv' /\ FlightInv'
  BY <1>1, TickWaits DEF ValidationInv
<1>5. CommandInv'
  BY <1>1 DEF ValidationInv, CommandInv
<1> QED
  BY <1>2, <1>3, <1>4, <1>5 DEF ValidationInv

-----------------------------------------------------------------------------
(* The theorems.                                                           *)

\* The invariant holds at first,
LEMMA InitValidation == Init /\ ValidationAssumption => ValidationInv
<1> SUFFICES ASSUME Init, ValidationAssumption PROVE ValidationInv
  OBVIOUS
<1>1. Columns
  <2>1. tick \in Tick /\ operator \in Command
    BY StartTypes DEF Init
  <2>2. /\ results \in [Experiment -> Seq(Result)]
        /\ \A e \in Experiment : Len(results[e]) <= MaxResults
    BY EmptySeq DEF Init, ValidationAssumption
  <2>3. /\ run \in [Experiment -> [status : RunStatus, approved : BOOLEAN]]
        /\ hold \in [Experiment -> [status : HoldStatus, cents : Nat]]
    BY DEF Init, RunStatus, HoldStatus
  <2>4. /\ planned \in SUBSET Experiment /\ fresh \in BOOLEAN
        /\ decision.kind \in Kind \cup {"none"} /\ stage \in Stage
        /\ gateway \in SUBSET Experiment /\ unheard \in SUBSET gateway
        /\ freed \in SUBSET Experiment /\ due \in BOOLEAN
    BY DEF Init, ValidationAssumption, Stage
  <2>5. crashes \in 0..MaxCrashes
    BY DEF Init, ValidationAssumption
  <2> QED
    BY <2>1, <2>2, <2>3, <2>4, <2>5 DEF Columns
<1>2. ASSUME NEW e \in Experiment PROVE RowInv(e)
  <2>1. Len(results[e]) = 0 /\ DOMAIN results[e] = {}
    BY EmptySeq DEF Init
  <2> QED
    BY <2>1 DEF Init, RowInv
<1>3. TickInv /\ FlightInv /\ CommandInv
  BY DEF Init, NoTick, NoCommand, TickInv, FlightInv, CommandInv, Working, UnderWay
<1> QED
  BY <1>1, <1>2, <1>3 DEF ValidationInv

\* is kept by every step,
LEMMA NextValidation == ValidationInv /\ ValidationAssumption /\ [Next]_vars => ValidationInv'
<1> SUFFICES ASSUME ValidationInv, ValidationAssumption, [Next]_vars PROVE ValidationInv'
  OBVIOUS
<1>1. CASE TickStep
  <2>1. CASE \/ Begin \/ Judge \/ SaveDecision \/ SaveStage \/ Skip \/ ReleaseRefused
             \/ DesignFollowUp \/ SaveExperiment \/ SaveValidating
    BY <2>1, QuietSteps DEF Begin
  <2>2. CASE \/ Create \/ SendBack \/ Block \/ Launch \/ DeferCash
             \/ SaveFailed \/ SaveReady \/ SaveDispatched \/ SaveCompleted
    BY <2>2, StatusSteps
  <2>3. CASE Examine \/ Reserve \/ Dispatch \/ Research \/ Release \/ SaveResult
    BY <2>3, ExamineKeeps, ReserveKeeps, DispatchKeeps, ResearchKeeps, ReleaseKeeps,
       SaveResultKeeps
  <2> QED
    BY <1>1, <2>1, <2>2, <2>3 DEF TickStep, ExecuteStep
<1>2. CASE OperatorStep
  <2>1. ASSUME NEW e \in Experiment,
               \/ ReadForApproval(e) \/ ReadForReject(e)
               \/ \E r \in GatewayResult : ReadForResult(e, r)
        PROVE  ValidationInv'
    BY <2>1, ReadsKeep
  <2>2. CASE RefuseResult
    <3>1. operator.e \in Experiment
      BY <2>2 DEF RefuseResult, Doing, ValidationInv, CommandInv
    <3> QED
      BY <2>2, <3>1, ReadsKeep
  <2>3. CASE SaveApproved \/ SaveCancelled \/ CompleteExternal
    BY <2>3, RunEndsKeeps
  <2>4. CASE Settle \/ RecordResult
    BY <2>4, SettleKeeps, RecordResultKeeps
  <2> QED
    BY <1>2, <2>1, <2>2, <2>3, <2>4 DEF OperatorStep
<1>3. CASE TickDies
  BY <1>3, TickDiesKeeps
<1>4. CASE CommandDies
  <2>1. operator.e \in Experiment
    BY <1>4 DEF CommandDies, Doing, ValidationInv, CommandInv
  <2> QED
    BY <1>4, <2>1, ReadsKeep
<1>5. CASE ByHand \/ TurnChanges
  <2>1. CASE BeginByHand
    BY <2>1, QuietSteps DEF BeginByHand
  <2>2. ASSUME NEW e \in Experiment, ReleaseByHand(e) \/ SettleByHand(e)
        PROVE  ValidationInv'
    BY <2>2, HandKeeps
  <2> QED
    BY <1>5, <2>1, <2>2, TurnKeeps DEF ByHand
<1>6. CASE UNCHANGED vars
  <2>1. UNCHANGED tables /\ UNCHANGED <<planned, fresh, decision, stage, crashes, tick>>
    BY <1>6 DEF vars, venture, money, outside, tables
  <2>2. Columns /\ TickInv /\ FlightInv /\ TickInv' /\ FlightInv'
    BY <2>1, TickWaits DEF ValidationInv, tables
  <2> QED
    BY <2>1, <2>2, QuietKeeps DEF Columns
<1> QED
  BY <1>1, <1>2, <1>3, <1>4, <1>5, <1>6 DEF Next

\* and so always holds.
LEMMA ValidationInvariant == Safety => []ValidationInv
<1>1. Init => ValidationInv
  BY InitValidation, ValidationAssumption
<1>2. ValidationInv /\ [Next]_vars => ValidationInv'
  BY NextValidation, ValidationAssumption
<1> QED
  BY <1>1, <1>2, PTL DEF Safety

(* The tables have their columns; while a tick works on a run the stored   *)
(* row says that it is running.                                            *)
THEOREM ValidationTypeCorrect == Safety => []TypeOK
<1>1. ValidationInv => TypeOK
  BY DEF ValidationInv, Columns, TickInv, TypeOK, Tick, Kind, StageOf
<1> QED
  BY <1>1, ValidationInvariant, PTL

(* Nothing reaches the gateway unapproved, however wakes are configured.   *)
THEOREM AlwaysDispatchedIsApproved == Safety => []DispatchedIsApproved
<1>1. ValidationInv => DispatchedIsApproved
  BY DEF ValidationInv, Columns, RowInv, DispatchedIsApproved
<1> QED
  BY <1>1, ValidationInvariant, PTL

(* The money of a paid run whose outcome is outstanding stays set aside or *)
(* spent, whatever crashes, is repeated or refused, unless a human releases *)
(* it by hand.                                                             *)
THEOREM AlwaysOutstandingIsFunded == Safety => []OutstandingIsFunded
<1>1. ValidationInv => OutstandingIsFunded
  BY DEF ValidationInv, RowInv, Funded, OutstandingIsFunded
<1> QED
  BY <1>1, ValidationInvariant, PTL

(* Money is given back only for a run that was not accepted, or whose      *)
(* acknowledgement was lost, or by hand.                                   *)
THEOREM AlwaysReleasedIsUnanswered == Safety => []ReleasedIsUnanswered
<1>1. ValidationInv => ReleasedIsUnanswered
  BY DEF ValidationInv, RowInv, ReleasedIsUnanswered
<1> QED
  BY <1>1, ValidationInvariant, PTL

(* A run counts once as evidence, however often a dead command is repeated. *)
THEOREM AlwaysCountedOnce == Safety => []CountedOnce
<1>1. ValidationInv => CountedOnce
  BY DEF ValidationInv, RowInv, CountedOnce
<1> QED
  BY <1>1, ValidationInvariant, PTL

(* A paid run's reservation is settled at the cost of its result, rounded  *)
(* up to a whole cent, also when it was settled by hand before.            *)
THEOREM AlwaysChargedAsReported == Safety => []ChargedAsReported
<1>1. ValidationInv => ChargedAsReported
  BY DEF ValidationInv, RowInv, ChargedAsReported
<1> QED
  BY <1>1, ValidationInvariant, PTL

(* A venture that has left validation is not taken back by a late step.    *)
THEOREM VerdictAlwaysStands == Safety => VerdictStands
<1>1. ValidationInv /\ [Next]_vars => [stage \notin Open => stage' = stage]_vars
  <2> SUFFICES ASSUME ValidationInv, Next, stage \notin Open PROVE stage' = stage
    BY DEF vars, venture
  <2>1. tick.at = "idle"
    BY DEF ValidationInv, TickInv
  <2> QED
    BY <2>1 DEF Next, TickStep, ExecuteStep, OperatorStep, ByHand, Begin, BeginByHand, StartTick, Judge, SaveDecision, SaveStage,
       Examine, Create, SendBack, Block, Skip, Launch, Reserve, DeferCash, Dispatch, Research,
       Release, ReleaseRefused, SaveFailed, SaveReady, SaveDispatched, SaveCompleted, EndRun,
       SaveResult, ReadForReject, SaveCancelled, ReleaseByHand, SettleByHand, TurnChanges,
       DesignFollowUp, SaveExperiment, SaveValidating, ReadForApproval, ReadForResult,
       SaveApproved, Settle, RefuseResult, RecordResult, CompleteExternal, TickDies, CommandDies,
       At, venture
<1> QED
  BY <1>1, ValidationInvariant, PTL DEF Safety, VerdictStands
=============================================================================
