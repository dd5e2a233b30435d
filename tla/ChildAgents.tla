----------------------------- MODULE ChildAgents -----------------------------
(* The child agents of a venture at work: either as one persisted graph of *)
(* capabilities (Orchestration) or as a queue of jobs for one agent        *)
(* (WorkQueue). Both are driven from the command line by processes that    *)
(* hold no lease, and a process may die between any two steps.             *)
EXTENDS Orchestration, WorkQueue

VARIABLE use     \* which of the two the agents are used for

vars == <<processVars, ventureVars, planVars, runVars, queueVars, use>>

graphVars == <<ventureVars, planVars, runVars>>

Init ==
    /\ at = [p \in Process |-> "idle"] /\ mine = [p \in Process |-> Nothing]
    /\ use \in {"graph", "queue"}
    /\ ArchitectureInit /\ OrchestrationInit /\ QueueInit

\* The runtime's checkpoint, orchestrate, orchestration-resume; enqueue, work,
\* recover-jobs.
Command(p) ==
    /\ at[p] = "idle"
    /\ \E label \in IF use = "queue" THEN {"work", "enqueue", "recover"}
                                    ELSE {"architect", "start", "read"} :
         Go(p, label)
    /\ UNCHANGED <<mine, use, graphVars, queueVars>>

Crash(p) ==
    /\ at[p] # "idle" /\ Stop(p)
    /\ UNCHANGED <<use, graphVars, queueVars>>

Graph(p) ==
    /\ use = "graph"
    /\ \/ PlanStep(p) /\ UNCHANGED runVars
       \/ RunStep(p)
       \/ ReadForSupply(p)
    /\ UNCHANGED <<use, queueVars>>

Work(p) ==
    /\ use = "queue" /\ QueueStep(p)
    /\ UNCHANGED <<use, graphVars>>

Environment ==
    \/ use = "graph" /\ Change /\ UNCHANGED <<runVars, use, queueVars>>
    \/ use = "queue" /\ Age /\ UNCHANGED <<use, graphVars>>

Next ==
    \/ \E p \in Process : Command(p) \/ Graph(p) \/ Work(p) \/ Crash(p)
    \/ Environment

Spec == Init /\ [][Next]_vars

-----------------------------------------------------------------------------
(* What is promised.                                                       *)

(* The stored run always hangs together, however many processes advance it *)
(* and overwrite each other: a graph the policy admitted never comes to a  *)
(* deadlock, no step is claimed before everything it depends on, and every *)
(* output was made from exactly the outputs that are stored beside it      *)
(* (ChildAgentOrchestrator writes whole rows).                             *)
RunHangsTogether ==
    run # NoRun =>
        /\ run.reason # "deadlock"
        /\ run.status = "completed" => Done(run) = Capability
        /\ \A c \in Capability :
             /\ run.steps[c].status # "pending" => run.graph[c] \subseteq Done(run)
             /\ run.steps[c].status = "completed" => run.steps[c].basis = Basis(run, c)

(* All child calls share one ceiling and every agent step is executed once *)
(* (docs/AUTOPILOT.md), whatever crashes and however many processes        *)
(* advance, unless a finish or a supplied result was written over a row    *)
(* that had changed since it was read: these two do not compare.           *)
CeilingHolds ==
    ~overwritten => /\ spent <= MaxModelCalls
                    /\ \A c \in Capability : claims[c] <= 1

(* A receipt that was written stands for ever, and of the directories of   *)
(* finished jobs only that of its receipt's status may hold a job, although *)
(* a recovery may hand a job that is being worked on to a second worker.   *)
ReceiptStands ==
    /\ [](\A j \in Job : place[j] \cap Outcome \subseteq {receipts[j]})
    /\ [][\A j \in Job : receipts[j] \in Outcome => receipts'[j] = receipts[j]]_receipts
=============================================================================
