---------------------------- MODULE Orchestration ----------------------------
(* ChildAgentOrchestrator: one persisted run over the capability graph. An *)
(* advance reads the run, claims the next agent step by comparing          *)
(* updated_at, calls the agent, and saves; every other save, and the       *)
(* result an operator supplies for a human or external capability,         *)
(* replaces the row whatever has been stored since it was read.            *)
EXTENDS Architecture

CONSTANTS
    MaxModelCalls,  \* the run's max_model_calls
    MaxTurns,       \* model calls one agent may make
    MaxAgentSteps,  \* max_agent_steps of one advance
    MaxOutputs      \* bound: agent calls begun and results supplied

ASSUME OrchestrationAssumption ==
    /\ MaxModelCalls \in 1 .. 72 /\ MaxTurns \in 1 .. 6 /\ MaxAgentSteps \in 1 .. 6
    /\ MaxOutputs \in Nat

VARIABLES
    run,            \* the row of child_agent_orchestrations, NoRun before
    stale,          \* stale[p]: updated_at differs from what p holds
    outputs,        \* outputs ever begun; gives their ids
    spent,          \* model calls really made for the run
    claims,         \* claims[c]: how often the step of c was claimed
    overwritten     \* a finish or a supplied result has replaced a newer row

runVars == <<run, stale, outputs, spent, claims, overwritten>>

RunStatus == {"pending", "running", "completed", "blocked", "failed"}
StepStatus == {"pending", "running", "completed", "blocked", "failed"}
Fresh == [status |-> "pending", output |-> 0, basis |-> <<>>]
NoRun == [status |-> "none"]

OrchestrationInit ==
    /\ run = NoRun /\ stale = [p \in Process |-> FALSE]
    /\ outputs = 0 /\ spent = 0 /\ claims = [c \in Capability |-> 0]
    /\ overwritten = FALSE

\* Every save writes the whole row under a new updated_at.
SaveRow(p, row) ==
    /\ run' = row
    /\ stale' = [q \in Process |-> q # p]

Done(row) == {c \in Capability : row.steps[c].status = "completed"}
Pending(row) == {c \in Capability : row.steps[c].status = "pending"}
Ready(row) == {c \in Pending(row) : row.graph[c] \subseteq Done(row)}

\* The run is of the current architecture, bundle and artifacts.
Attested(row) ==
    \E b \in CurrentBundle :
        /\ b.id = row.bundle /\ Current(row.architecture)
        /\ \A c \in Agent : [bundle |-> b.id, agent |-> c] \in artifacts

\* _replace_step, and a row under another status.
WithStep(row, c, step) == [row EXCEPT !.steps[c] = step]
WithStatus(row, status) == [row EXCEPT !.status = status]

-----------------------------------------------------------------------------
(* start. A run of the same source key is returned as it is.               *)

Start(p) ==
    /\ at[p] = "start"
    /\ CASE run # NoRun -> Go(p, "read") /\ UNCHANGED <<mine, artifacts>>
         [] run = NoRun /\ validated /\ CurrentBundle # {} ->
                \E b \in CurrentBundle :
                    /\ Materialized(b)
                    /\ Go(p, "create")
                    /\ Hold(p, [id |-> b.id, architecture |-> Latest(architectures)])
         [] OTHER -> Stop(p) /\ UNCHANGED artifacts
    /\ UNCHANGED <<ventureVars, architectures, bundles, made, runVars>>

\* INSERT OR IGNORE: the second of two starts gets the run of the first.
Create(p) ==
    /\ at[p] = "create"
    /\ IF run = NoRun
       THEN SaveRow(p, [status |-> "pending", reason |-> "none", calls |-> 0,
                        architecture |-> mine[p].architecture, bundle |-> mine[p].id,
                        graph |-> mine[p].architecture.graph,
                        steps |-> [c \in Capability |-> Fresh]])
       ELSE UNCHANGED <<run, stale>>
    /\ Go(p, "read") /\ Hold(p, Nothing)
    /\ UNCHANGED <<ventureVars, planVars, outputs, spent, claims, overwritten>>

-----------------------------------------------------------------------------
(* advance.                                                                *)

\* A run that has ended, that somebody else is calling an agent for or whose
\* agent is blocked is returned; no run, or one that is not attested, raises.
Read(p) ==
    /\ at[p] = "read"
    /\ IF \/ run = NoRun
          \/ run.status \in {"completed", "failed"}
          \/ \E c \in Capability : run.steps[c].status \in {"running", "blocked", "failed"}
          \/ ~Attested(run)
       THEN Stop(p) /\ UNCHANGED stale
       ELSE /\ Go(p, "step") /\ Hold(p, [id |-> 0, row |-> run, left |-> MaxAgentSteps, out |-> 0])
            /\ stale' = [stale EXCEPT ![p] = FALSE]
    /\ UNCHANGED <<ventureVars, planVars, run, outputs, spent, claims, overwritten>>

\* _finish replaces the row, whether it is still the one that was read.
Finish(p, row, status, reason) ==
    /\ SaveRow(p, [WithStatus(row, status) EXCEPT !.reason = reason])
    /\ overwritten' = (overwritten \/ stale[p])
    /\ Stop(p)

\* Nothing is left for an agent: the graph is complete, wants a result from
\* outside, cannot go on, or the advance has used its steps.
Conclude(p) ==
    LET row == mine[p].row IN
    /\ at[p] = "step"
    /\ CASE Pending(row) = {} -> Finish(p, row, "completed", "graph_completed")
         [] Pending(row) # {} /\ mine[p].left = 0 -> Finish(p, row, "pending", "step_cap")
         [] Pending(row) # {} /\ mine[p].left > 0 /\ Ready(row) = {} ->
                Finish(p, row, "failed", "deadlock")
         [] OTHER -> /\ Ready(row) \cap Agent = {}
                     /\ Finish(p, row, "blocked", "result_required")
    /\ UNCHANGED <<ventureVars, planVars, outputs, spent, claims>>

\* The run's input and what the dependencies gave may be more than a task can
\* hold.
TooLarge(p) ==
    LET row == mine[p].row IN
    /\ at[p] = "step" /\ mine[p].left > 0
    /\ \E c \in Ready(row) \cap Agent :
         Finish(p, WithStep(row, c, [Fresh EXCEPT !.status = "blocked"]),
                "blocked", "too_large")
    /\ UNCHANGED <<ventureVars, planVars, outputs, spent, claims>>

\* Faulty: the claim does not compare updated_at.
ClaimAnyway(p) ==
    /\ at[p] = "step" /\ mine[p].left > 0 /\ outputs < MaxOutputs
    /\ \E c \in Ready(mine[p].row) \cap Agent :
         LET row == WithStatus(WithStep(mine[p].row, c, [Fresh EXCEPT !.status = "running"]),
                               "running")
         IN  /\ SaveRow(p, row) /\ claims' = [claims EXCEPT ![c] = @ + 1]
             /\ Go(p, "call") /\ Hold(p, [mine[p] EXCEPT !.row = row, !.out = outputs + 1])
             /\ outputs' = outputs + 1
    /\ UNCHANGED <<ventureVars, planVars, spent, overwritten>>

\* The first ready agent step is claimed by a compare and swap; who loses it
\* raises.
Claim(p) ==
    /\ at[p] = "step" /\ mine[p].left > 0 /\ outputs < MaxOutputs
    /\ \E c \in Ready(mine[p].row) \cap Agent :
         LET row == WithStatus(WithStep(mine[p].row, c, [Fresh EXCEPT !.status = "running"]),
                               "running")
         IN  IF stale[p]
             THEN Stop(p) /\ UNCHANGED <<run, stale, claims, outputs>>
             ELSE /\ SaveRow(p, row) /\ claims' = [claims EXCEPT ![c] = @ + 1]
                  /\ Go(p, "call") /\ Hold(p, [mine[p] EXCEPT !.row = row, !.out = outputs + 1])
                  /\ outputs' = outputs + 1
    /\ UNCHANGED <<ventureVars, planVars, spent, overwritten>>

Claimed(row) == CHOOSE c \in Capability : row.steps[c].status = "running"
Basis(row, c) == [d \in row.graph[c] |-> row.steps[d].output]

\* ChildAgentRuntime.run: a bundle that is not the latest any more raises, and
\* so does a provider that fails, perhaps after some turns; then the step stays
\* claimed and the row does not count the calls. Without a budget of calls,
\* tokens or money there is no call and the agent is blocked.
Call(p) ==
    LET row == mine[p].row
        c == Claimed(row)
        room == MaxModelCalls - row.calls
    IN
    /\ at[p] = "call"
    /\ \/ Stop(p) /\ \E calls \in 0 .. MaxTurns : calls <= room /\ spent' = spent + calls
       \/ /\ Latest(bundles).id = row.bundle
          /\ \E calls \in 0 .. MaxTurns, status \in {"completed", "blocked", "failed"} :
               /\ calls <= room /\ (calls = 0 => status = "blocked")
               /\ spent' = spent + calls
               /\ Go(p, "save")
               /\ Hold(p, [mine[p] EXCEPT
                     !.row = [WithStep(row, c, [status |-> status, output |-> mine[p].out,
                                                basis |-> Basis(row, c)])
                              EXCEPT !.calls = @ + calls],
                     !.id = c])
    /\ UNCHANGED <<ventureVars, planVars, run, stale, outputs, claims, overwritten>>

SaveResult(p) ==
    /\ at[p] = "save"
    /\ SaveRow(p, mine[p].row)
    /\ Go(p, "answered") /\ Hold(p, [mine[p] EXCEPT !.left = @ - 1])
    /\ UNCHANGED <<ventureVars, planVars, outputs, spent, claims, overwritten>>

\* An agent that is blocked or has failed ends the run with it.
Answered(p) ==
    LET status == mine[p].row.steps[mine[p].id].status IN
    /\ at[p] = "answered"
    /\ IF status = "completed"
       THEN Go(p, "step") /\ UNCHANGED <<mine, run, stale, overwritten>>
       ELSE Finish(p, mine[p].row, status, "agent")
    /\ UNCHANGED <<ventureVars, planVars, outputs, spent, claims>>

-----------------------------------------------------------------------------
(* supply_capability_result: the result of a capability that no agent      *)
(* implements, once its dependencies are complete.                         *)

Supplies(row) ==
    {c \in Ready(row) \ Agent : row.status \notin {"completed", "failed", "running"}}

ReadForSupply(p) ==
    /\ at[p] = "idle" /\ run # NoRun /\ outputs < MaxOutputs
    /\ Attested(run)
    /\ \E c \in Supplies(run) :
         Hold(p, [id |-> c, row |-> WithStatus(run, "pending")])
    /\ Go(p, "supply")
    /\ stale' = [stale EXCEPT ![p] = FALSE]
    /\ UNCHANGED <<ventureVars, planVars, run, outputs, spent, claims, overwritten>>

Supply(p) ==
    /\ at[p] = "supply"
    /\ outputs' = outputs + 1
    /\ SaveRow(p, WithStep(mine[p].row, mine[p].id,
                           [status |-> "completed", output |-> outputs',
                            basis |-> Basis(mine[p].row, mine[p].id)]))
    /\ overwritten' = (overwritten \/ stale[p])
    /\ Stop(p)
    /\ UNCHANGED <<ventureVars, planVars, spent, claims>>

RunStep(p) ==
    \/ Start(p) \/ Create(p) \/ Read(p) \/ Conclude(p) \/ TooLarge(p) \/ Claim(p)
    \/ Call(p) \/ SaveResult(p) \/ Answered(p) \/ Supply(p)
=============================================================================
