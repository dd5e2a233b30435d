----------------------------- MODULE Scheduler -----------------------------
(* Which funded venture gets the next advance (PortfolioScheduler,         *)
(* AdaptiveSchedulerBackoff): ticks go through the ventures by priority,   *)
(* skip those that wait for something, and cool down those in the market   *)
(* that repeatedly found nothing to do. The host timer ticks for ever; an  *)
(* operator may tick by hand and run the autopilot, which ticks in rounds. *)
(* A unit of time is the minimum interval between two ticks of the timer.  *)
EXTENDS Incidents, SequencesExt

CONSTANTS
    Priority,       \* the ventures, by descending priority in the plan
    Timer,          \* the process that the host timer starts
    BaseDelay,      \* BaseDelay[r]: the first cooldown for the no-op reason r
    MaxDelay,       \* MaxDelay[r]: the longest cooldown for r
    Situation,      \* the situations that a venture may be in
    Advances,       \* Advances[s]: the advances of one tick for caller s
    MaxRounds,      \* the rounds of one run of the autopilot
    MaxNoops,       \* bound on the streak that is counted
    MaxDisturbances \* bound: ticks by hand, new plans, changed situations and
                    \* processes that die, together

Supported == DOMAIN BaseDelay
Venture == Range(Priority)
Caller == {"host", "autopilot"}

\* What the scheduler sees of a venture: the phase of its stage, whether a
\* gate holds it back (a commitment of cash, a validation that waits, no model
\* calls), and what the runtime would do with an advance: work, raise, or
\* return for a reason.
Market(turn) == [phase |-> "market", held |-> FALSE, turn |-> turn]

ASSUME SchedulerAssumption ==
    /\ Timer \in Process
    /\ Supported \subseteq STRING
    /\ BaseDelay \in [Supported -> Nat \ {0}] /\ MaxDelay \in [Supported -> Nat \ {0}]
    /\ \A s \in Situation : s.phase \in {"market", "preview", "early"} /\ s.held \in BOOLEAN
    /\ Advances \in [Caller -> Nat \ {0}]
    /\ MaxRounds \in Nat \ {0} /\ MaxNoops \in Nat \ {0}
    /\ MaxDisturbances \in Nat

VARIABLES
    funded,         \* the ventures with an active envelope of the latest plan
    situation,      \* situation[v]: the situation of v
    cooldown,       \* cooldown[v]: the row of v in venture_scheduler_backoffs
    due             \* the timer's minimum interval has passed

schedulerVars == <<funded, situation, cooldown, due>>

\* A row keeps who recorded it, since the fingerprint names the gateways of
\* the scheduler that computed it, and whether the rest of the fingerprint
\* (plan, envelope, drafts, runs, answers) is still that of the venture.
None == [noops |-> 0]
Cooldown(reason, noops, caller, wait) ==
    [reason |-> reason, noops |-> noops, caller |-> caller, wait |-> wait, current |-> TRUE]

SchedulerInit ==
    /\ funded = Venture
    /\ situation \in [Venture -> Situation]
    /\ cooldown = [v \in Venture |-> None]
    /\ due = FALSE

InMarket(s) == s.phase \in {"market", "preview"}
Matches(row, caller) == row.caller = caller /\ row.current

\* The row of v after something in its fingerprint changed.
Outdated(row) == IF row = None THEN None ELSE [row EXCEPT !.current = FALSE]

-----------------------------------------------------------------------------
(* Cooldowns.                                                              *)

Least(m, n) == IF m < n THEN m ELSE n

Delay(reason, noops) == Least(BaseDelay[reason] * 2 ^ Least(20, noops - 1), MaxDelay[reason])

\* Faulty: every no-op counts as the first.
StreakOfOne(row, reason, caller) == 1

\* A no-op continues the streak of the same reason and fingerprint.
Streak(row, reason, caller) ==
    IF row # None /\ row.reason = reason /\ Matches(row, caller)
    THEN Least(row.noops + 1, MaxNoops)
    ELSE 1

\* A reason without a cooldown forgets the one before.
RecordNoop(v, reason, caller) ==
    cooldown' = [cooldown EXCEPT ![v] =
        IF reason \notin Supported THEN None
        ELSE LET noops == Streak(@, reason, caller) IN
             Cooldown(reason, noops, caller, Delay(reason, noops))]

Clear(v) == cooldown' = [cooldown EXCEPT ![v] = None]

-----------------------------------------------------------------------------
(* tick.                                                                   *)

\* The ventures with an active envelope are listed once, in the plan's order.
Round(caller, round) ==
    [caller |-> caller, round |-> round, left |-> Advances[caller], moved |-> FALSE,
     todo |-> SelectSeq(Priority, LAMBDA v : v \in funded)]

TimerTick(p) ==
    /\ p = Timer /\ at[p] = "idle" /\ due
    /\ due' = FALSE
    /\ Go(p, "tick") /\ Hold(p, Round("host", 1))
    /\ UNCHANGED <<funded, situation, cooldown, incidents>>

\* By hand, neither the interval nor the wake lease is asked for.
TickByHand(p) ==
    /\ p # Timer /\ at[p] = "idle" /\ Incident(MaxDisturbances)
    /\ \E caller \in Caller : Go(p, "tick") /\ Hold(p, Round(caller, 1))
    /\ UNCHANGED schedulerVars

Turn(p) == Head(mine[p].todo)
Drop(p) == Hold(p, [mine[p] EXCEPT !.todo = Tail(@)])

\* In the market a cooldown holds until its time, unless the fingerprint
\* changed: then it is forgotten.
Consider(p) ==
    LET v == Turn(p)
        s == situation[v]
        row == cooldown[v]
        Try == IF mine[p].left = 0 THEN Drop(p) /\ UNCHANGED at
               ELSE Go(p, "advance") /\ Hold(p, [mine[p] EXCEPT !.left = @ - 1])
    IN
    /\ at[p] = "tick" /\ mine[p].todo # <<>>
    /\ CASE s.held -> Drop(p) /\ UNCHANGED <<at, cooldown>>
         [] ~s.held /\ InMarket(s) /\ row # None /\ ~Matches(row, mine[p].caller) ->
                Clear(v) /\ Try
         [] ~s.held /\ InMarket(s) /\ row # None /\ Matches(row, mine[p].caller) /\ row.wait > 0 ->
                Drop(p) /\ UNCHANGED <<at, cooldown>>
         [] OTHER -> Try /\ UNCHANGED cooldown
    /\ UNCHANGED <<funded, situation, due, incidents>>

\* The runtime acts on the situation it finds. Work changes the situation. An
\* envelope that is not active any more raises.
AdvanceVenture(p) ==
    LET v == Turn(p)
        s == situation[v]
        turn == IF v \in funded THEN s.turn ELSE "raises"
    IN
    /\ at[p] = "advance"
    /\ Go(p, "record")
    /\ Hold(p, [mine[p] EXCEPT !.moved = @ \/ turn = "works"]
               @@ [turn |-> turn, phase |-> s.phase])
    /\ IF turn = "works"
       THEN /\ \E next \in Situation : situation' = [situation EXCEPT ![v] = next]
            /\ cooldown' = [cooldown EXCEPT ![v] = Outdated(@)]
       ELSE UNCHANGED <<situation, cooldown>>
    /\ UNCHANGED <<funded, due, incidents>>

\* The fingerprint of a no-op is computed here, after the runtime returned. A
\* failure is recorded nowhere, nor is a no-op of a venture whose runtime did
\* not reach the market (a publication that waits, a build, a checkout).
Record(p) ==
    LET v == Turn(p)
        turn == mine[p].turn
    IN
    /\ at[p] = "record"
    /\ CASE InMarket(situation[v]) /\ turn = "works" -> Clear(v)
         [] InMarket(situation[v]) /\ turn \notin {"works", "raises"} /\ mine[p].phase = "market" ->
                RecordNoop(v, turn, mine[p].caller)
         [] OTHER -> UNCHANGED cooldown
    /\ Go(p, "tick")
    /\ Hold(p, [f \in DOMAIN mine[p] \ {"turn", "phase"} |->
                    IF f = "todo" THEN Tail(mine[p].todo) ELSE mine[p][f]])
    /\ UNCHANGED <<funded, situation, due, incidents>>

\* The autopilot goes on to its next round while something advances, unless
\* it has observed revenue.
EndTick(p) ==
    /\ at[p] = "tick" /\ mine[p].todo = <<>>
    /\ \/ Stop(p)
       \/ /\ mine[p].caller = "autopilot" /\ mine[p].moved /\ mine[p].round < MaxRounds
          /\ Hold(p, Round("autopilot", mine[p].round + 1)) /\ UNCHANGED at
    /\ UNCHANGED <<schedulerVars, incidents>>

SchedulerWork(p) == Consider(p) \/ AdvanceVenture(p) \/ Record(p) \/ EndTick(p)

-----------------------------------------------------------------------------
(* The world.                                                              *)

\* A unit of time passes. A tick is shorter than that, and the timer is not
\* late by more.
Clock ==
    /\ ~due /\ \A p \in Process : at[p] = "idle"
    /\ due' = TRUE
    /\ cooldown' = [v \in Venture |->
           IF cooldown[v] = None \/ cooldown[v].wait = 0 THEN cooldown[v]
           ELSE [cooldown[v] EXCEPT !.wait = @ - 1]]
    /\ UNCHANGED <<funded, situation, processVars, incidents>>

\* An answer, an approval, a command of the operator.
Change ==
    /\ Incident(MaxDisturbances)
    /\ \E v \in Venture, s \in Situation :
         /\ situation' = [situation EXCEPT ![v] = s]
         /\ cooldown' = [cooldown EXCEPT ![v] = Outdated(@)]
    /\ UNCHANGED <<funded, due, processVars>>

\* A new plan has new envelopes.
Replan ==
    /\ Incident(MaxDisturbances)
    /\ funded' \in SUBSET Venture
    /\ cooldown' = [v \in Venture |-> Outdated(cooldown[v])]
    /\ UNCHANGED <<situation, due, processVars>>

SchedulerCrash(p) == Dies(p, MaxDisturbances) /\ UNCHANGED schedulerVars

SchedulerNext ==
    \/ \E p \in Process : TimerTick(p) \/ TickByHand(p) \/ SchedulerWork(p) \/ SchedulerCrash(p)
    \/ Clock \/ Change \/ Replan

-----------------------------------------------------------------------------
(* What is promised.                                                       *)

Attempted(v) == \E p \in Process : at[p] = "advance" /\ Turn(p) = v

Ahead(v) == {u \in Venture : \E i, j \in DOMAIN Priority :
                                 i < j /\ Priority[i] = u /\ Priority[j] = v}

\* The scheduler skips u, or u is in the market with nothing to do for a
\* reason that has a cooldown.
Yields(u) ==
    \/ u \notin funded \/ situation[u].held
    \/ situation[u].phase = "market" /\ situation[u].turn \in Supported

(* With one advance for each tick, a venture is not starved by those ahead *)
(* of it that find nothing to do: their cooldowns grow past the interval   *)
(* of the timer, so it is attempted again and again. A venture ahead that  *)
(* raises, or returns for a reason without a cooldown, does starve it.     *)
IdleOnesYield ==
    \A v \in Venture :
        <>[](v \in funded /\ ~situation[v].held /\ \A u \in Ahead(v) : Yields(u))
            => []<>Attempted(v)
=============================================================================
