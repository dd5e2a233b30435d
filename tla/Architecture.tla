---------------------------- MODULE Architecture ----------------------------
(* How a validated venture gets its child agents: BotArchitect plans a     *)
(* graph of capabilities for the venture's present snapshot,               *)
(* AgentSpecPlanner a bundle with one specification per agent of it, and   *)
(* ChildAgentFactory one artifact per specification. Each plan is read     *)
(* first and saved in a later transaction, after the model's answer, so    *)
(* two planners may both save and the venture may change under them.       *)
EXTENDS Integers, Sequences, FiniteSets, Functions, Hosts

CONSTANTS
    Capability,     \* the keys of the capabilities
    Agent,          \* those that are implemented by an AI agent
    Unknown,        \* a key that is no capability
    Proposal,       \* the graphs the model may answer: key -> keys it depends on
    MaxSnapshot,    \* bound: snapshots of the venture
    MaxRows         \* bound: architectures and bundles ever saved

ASSUME ArchitectureAssumption ==
    /\ IsFiniteSet(Capability) /\ Agent \subseteq Capability
    /\ Unknown \notin Capability
    /\ Proposal \subseteq [Capability -> SUBSET (Capability \cup {Unknown})]
    /\ MaxSnapshot \in Nat \ {0} /\ MaxRows \in Nat

VARIABLES
    validated,      \* is the venture in stage VALIDATED
    snapshot,       \* the version of the venture and its validation results
    architectures,  \* the rows of venture_architectures, one per snapshot
    bundles,        \* the rows of agent_spec_bundles, one per architecture
    artifacts,      \* the rows of child_agent_artifacts: one per specification
    made            \* rows ever made; gives the ids, in the order of created_at

ventureVars == <<validated, snapshot>>
planVars == <<architectures, bundles, artifacts, made>>

-----------------------------------------------------------------------------
(* VentureArchitecturePolicy.                                              *)

MaxCapabilities == 12
MaxAgents == 6

\* Kahn's algorithm visits a key as soon as all that it depends on was visited:
\* the least set of keys that is closed under this.
ClosedUnderVisits(graph, V) == \A c \in Capability : graph[c] \subseteq V => c \in V
Visited(graph) ==
    {c \in Capability : \A V \in SUBSET Capability : ClosedUnderVisits(graph, V) => c \in V}

\* Faulty: only a capability that depends on itself is a cycle.
RejectCyclesOfOne(graph) == \A c \in Capability : c \notin graph[c]

RejectCycles(graph) == Visited(graph) = Capability

Admissible(graph) ==
    /\ Capability # {} /\ Cardinality(Capability) <= MaxCapabilities
    /\ Cardinality(Agent) <= MaxAgents
    /\ \A c \in Capability : c \notin graph[c] /\ graph[c] \subseteq Capability
    /\ RejectCycles(graph)

-----------------------------------------------------------------------------
(* The stores: the latest row is the one made last.                        *)

Latest(rows) == CHOOSE r \in rows : \A s \in rows : s.id <= r.id

ForSnapshot(s) == {a \in architectures : a.snapshot = s}
ForArchitecture(a) == {b \in bundles : b.architecture = a.id}
ForBundle(b) == {x \in artifacts : x.bundle = b.id}

\* INSERT OR REPLACE: a row of the same snapshot, or of the same
\* architecture, is replaced.
SaveArchitecture(row) ==
    architectures' = (architectures \ ForSnapshot(row.snapshot)) \cup {row}
SaveBundle(row) ==
    bundles' = {b \in bundles : b.architecture # row.architecture} \cup {row}

\* The architecture is the latest one and of the present snapshot.
Current(a) == architectures # {} /\ a = Latest(architectures) /\ a.snapshot = snapshot

\* The bundle that goes with the current architecture, if it is the latest.
CurrentBundle ==
    {b \in bundles : /\ b = Latest(bundles)
                     /\ architectures # {} /\ Current(Latest(architectures))
                     /\ b.architecture = Latest(architectures).id}

ArchitectureInit ==
    /\ validated = TRUE /\ snapshot = 1
    /\ architectures = {} /\ bundles = {} /\ artifacts = {} /\ made = 0

-----------------------------------------------------------------------------
(* The tick's checkpoints, in order.                                       *)

\* A snapshot that has its architecture costs no model call.
ArchitectBegin(p) ==
    /\ at[p] = "architect"
    /\ CASE ~validated -> Stop(p)
         [] validated /\ ForSnapshot(snapshot) # {} -> Go(p, "specs") /\ UNCHANGED mine
         [] OTHER -> Go(p, "propose") /\ Hold(p, [id |-> snapshot])
    /\ UNCHANGED <<ventureVars, planVars>>

\* No budget, no answer, or a graph the policy refuses ends the tick; so does
\* an architecture that was created.
Propose(p) ==
    /\ at[p] = "propose"
    /\ \/ UNCHANGED <<architectures, made>>
       \/ \E graph \in {g \in Proposal : Admissible(g)} :
            /\ made < MaxRows /\ made' = made + 1
            /\ SaveArchitecture([id |-> made', snapshot |-> mine[p].id, graph |-> graph])
    /\ Stop(p)
    /\ UNCHANGED <<ventureVars, bundles, artifacts>>

SpecsBegin(p) ==
    /\ at[p] = "specs"
    /\ IF ~validated \/ architectures = {} \/ ~Current(Latest(architectures))
       THEN Stop(p)
       ELSE /\ Go(p, IF ForArchitecture(Latest(architectures)) # {} THEN "materialize"
                                                                  ELSE "specify")
            /\ Hold(p, Latest(architectures))
    /\ UNCHANGED <<ventureVars, planVars>>

\* The policy wants one specification for every agent and no other, with the
\* capability's own contract. Without agents the bundle is empty, needs no
\* model call and the tick goes on.
Specify(p) ==
    /\ at[p] = "specify"
    /\ \/ Agent # {} /\ UNCHANGED <<bundles, made>> /\ Stop(p)
       \/ /\ made < MaxRows /\ made' = made + 1
          /\ SaveBundle([id |-> made', architecture |-> mine[p].id])
          /\ IF Agent = {} THEN Go(p, "materialize") /\ UNCHANGED mine ELSE Stop(p)
    /\ UNCHANGED <<ventureVars, architectures, artifacts>>

\* One artifact per specification: the manifest is written under its hash
\* before the row, so that a repeated attempt finds it.
Materialized(b) == artifacts' = artifacts \cup {[bundle |-> b.id, agent |-> c] : c \in Agent}

Materialize(p) ==
    /\ at[p] = "materialize"
    /\ IF validated /\ CurrentBundle # {}
       THEN \E b \in CurrentBundle : Materialized(b)
       ELSE UNCHANGED artifacts
    /\ Stop(p)
    /\ UNCHANGED <<ventureVars, architectures, bundles, made>>

\* A late validation result, or the build, which takes the venture out of
\* VALIDATED: both change the hash that architectures are bound to.
Change ==
    /\ snapshot < MaxSnapshot /\ snapshot' = snapshot + 1
    /\ validated' \in {validated, FALSE}
    /\ UNCHANGED <<processVars, planVars>>

PlanStep(p) ==
    \/ ArchitectBegin(p) \/ Propose(p) \/ SpecsBegin(p) \/ Specify(p) \/ Materialize(p)
=============================================================================
