------------------------------- MODULE Upkeep -------------------------------
(* Three loops that keep the program and its ventures going: the scheduler *)
(* that gives the ventures turns, what one venture does with the answers   *)
(* of its market, and the improvement of the program's own code. They      *)
(* share the audit log alone (a failed turn is a signal for a proposal),   *)
(* which decides nothing in the three models, and the scheduler's model    *)
(* takes any turn of a venture as it comes. A behaviour of all three is a  *)
(* shuffle of one of each: the loops are explored one beside the other.    *)
EXTENDS SelfImprovement, Scheduler, Learning

VARIABLE loop       \* the loop whose behaviours this one belongs to

vars == <<loop, improveVars, schedulerVars, learningVars>>

\* A scheduler that has nothing to schedule.
SchedulerIdle ==
    /\ funded = {} /\ due = FALSE
    /\ situation = [v \in Venture |-> CHOOSE s \in Situation : TRUE]
    /\ cooldown = [v \in Venture |-> None]

Init ==
    /\ loop \in {"scheduling", "learning", "improvement"}
    /\ SelfInit
    /\ IF loop = "scheduling" THEN SchedulerInit ELSE SchedulerIdle
    /\ IF loop = "learning" THEN LearningInit ELSE LearningIdle

\* Only improvement changes the program's code.
Unimproved == UNCHANGED <<loop, main, improvementVars, branchVars, mergeVars>>

Scheduling == loop = "scheduling" /\ SchedulerNext /\ UNCHANGED learningVars /\ Unimproved

Learns == loop = "learning" /\ LearningNext /\ UNCHANGED schedulerVars /\ Unimproved

Improving == loop = "improvement" /\ SelfNext /\ UNCHANGED <<loop, schedulerVars, learningVars>>

Next == Scheduling \/ Learns \/ Improving

ClockRuns == loop = "scheduling" /\ Clock /\ UNCHANGED learningVars /\ Unimproved
TimerFires == loop = "scheduling" /\ TimerTick(Timer) /\ UNCHANGED learningVars /\ Unimproved
TimerRefreshes ==
    loop = "learning" /\ RefreshTick(Timer) /\ UNCHANGED schedulerVars /\ Unimproved
TickGoesOn(p) ==
    /\ \/ loop = "scheduling" /\ SchedulerWork(p) /\ UNCHANGED learningVars
       \/ loop = "learning" /\ LearningWork(p) /\ UNCHANGED schedulerVars
    /\ Unimproved

\* The host's timer fires for ever and a process that was started goes on. The
\* tick that refreshes also starts while an operator's command is at work, but
\* such starts are bounded here: that it starts again and again is strong
\* fairness. Self-improvement has no timer: its operator need never do anything.
Fairness ==
    /\ WF_vars(ClockRuns) /\ WF_vars(TimerFires) /\ SF_vars(TimerRefreshes)
    /\ \A p \in Process : WF_vars(TickGoesOn(p))

Spec == Init /\ [][Next]_vars /\ Fairness
=============================================================================
