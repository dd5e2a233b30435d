-------------------------- MODULE ChildAgentsProofs --------------------------
(***************************************************************************)
(* The three promises about child agents, for any capabilities, graphs,    *)
(* processes and jobs.  A process works on a copy of the run that others   *)
(* may have replaced since; so everything the stored run must be is shown  *)
(* of every copy in a process's hand as well (Fits).  The common ceiling   *)
(* needs more: that a process which was not overtaken holds the stored run *)
(* itself, and that whoever is calling an agent was not overtaken.         *)
(***************************************************************************)
EXTENDS ChildAgents, TLAPS

(* A graph that the policy admits has its dependencies inside.             *)
IsGraph(g) == g \in [Capability -> SUBSET Capability] /\ RejectCycles(g)

(* A row of child_agent_orchestrations.                                    *)
IsRow(r) ==
    /\ r = [status |-> r.status, reason |-> r.reason, calls |-> r.calls,
            architecture |-> r.architecture, bundle |-> r.bundle,
            graph |-> r.graph, steps |-> r.steps]
    /\ r.status \in RunStatus
    /\ r.calls \in Nat
    /\ IsGraph(r.graph)
    /\ r.steps = [c \in Capability |-> r.steps[c]]
    /\ \A c \in Capability : r.steps[c].status \in StepStatus

(* What RunHangsTogether says of the stored row, said of any row.          *)
Coherent(r) ==
    /\ r.reason # "deadlock"
    /\ r.status = "completed" => Done(r) = Capability
    /\ \A c \in Capability :
         /\ r.steps[c].status # "pending" => r.graph[c] \subseteq Done(r)
         /\ r.steps[c].status = "completed" => r.steps[c].basis = Basis(r, c)

IsRun(r) == r = NoRun \/ (IsRow(r) /\ Coherent(r))

(* Nothing is under way in a row that an advance goes on with, but what    *)
(* stands at capability c.                                                 *)
SettledBut(r, c) == \A d \in Capability \ {c} : r.steps[d].status \in {"pending", "completed"}
Settled(r) == \A d \in Capability : r.steps[d].status \in {"pending", "completed"}

(* What a process holds at each step of an advance.                        *)
Advancing == {"step", "call", "save", "answered"}
Fits(label, m) ==
    /\ label = "create" => IsGraph(m.architecture.graph)
    /\ label \in Advancing =>
         /\ m = [id |-> m.id, row |-> m.row, left |-> m.left, out |-> m.out]
         /\ IsRow(m.row) /\ Coherent(m.row)
    /\ label = "step" => Settled(m.row) /\ m.row.status # "completed"
    /\ label = "call" =>
         /\ m.row.status = "running"
         /\ \E c \in Capability : m.row.steps[c].status = "running" /\ SettledBut(m.row, c)
    /\ label \in {"save", "answered"} =>
         /\ m.row.status = "running"
         /\ m.id \in Capability /\ SettledBut(m.row, m.id)
         /\ m.row.steps[m.id].status \in {"completed", "blocked", "failed"}
    /\ label = "supply" =>
         /\ IsRow(m.row) /\ Coherent(m.row)
         /\ m.row.status = "pending"
         /\ m.id \in Ready(m.row)

(* The architectures, of which one is the latest.                          *)
PlansFit ==
    /\ made \in Nat
    /\ \A a \in architectures : a.id \in Nat /\ a.id <= made /\ IsGraph(a.graph)
    /\ architectures # {} => \E a \in architectures : \A b \in architectures : b.id <= a.id

RunTypeOK ==
    /\ at = [p \in Process |-> at[p]] /\ mine = [p \in Process |-> mine[p]]
    /\ stale \in [Process -> BOOLEAN] /\ overwritten \in BOOLEAN
    /\ spent \in Nat /\ outputs \in Nat /\ claims \in [Capability -> Nat]

GraphInv ==
    /\ RunTypeOK
    /\ PlansFit
    /\ IsRun(run)
    /\ \A p \in Process : Fits(at[p], mine[p])

-----------------------------------------------------------------------------
(* Rows.                                                                   *)

(* Where no capability that is pending can go on, the graph has a cycle.   *)
LEMMA NoDeadlock ==
  ASSUME NEW r, IsRow(r), Settled(r), Pending(r) # {}
  PROVE  Ready(r) # {}
<1> SUFFICES ASSUME Ready(r) = {} PROVE FALSE
  OBVIOUS
<1> DEFINE V == Capability \ Pending(r)
<1>1. V = Done(r)
  BY DEF Settled, Pending, Done
<1>2. ClosedUnderVisits(r.graph, V)
  BY <1>1 DEF ClosedUnderVisits, Ready
<1>3. Visited(r.graph) = Capability
  BY DEF IsRow, IsGraph, RejectCycles
<1>4. V \in SUBSET Capability
  OBVIOUS
<1>5. Capability \subseteq V
  BY <1>2, <1>3, <1>4 DEF Visited
<1> QED
  BY <1>5 DEF Pending

(* What a replaced step changes.                                           *)
LEMMA WithStepRow ==
  ASSUME NEW r, IsRow(r), NEW c \in Capability, NEW s, s.status \in StepStatus,
         NEW t, t = WithStep(r, c, s)
  PROVE  /\ IsRow(t)
         /\ t.status = r.status /\ t.reason = r.reason /\ t.calls = r.calls
         /\ t.architecture = r.architecture /\ t.bundle = r.bundle /\ t.graph = r.graph
         /\ t.steps[c] = s
         /\ \A d \in Capability \ {c} : t.steps[d] = r.steps[d]
<1>1. r.steps = [d \in Capability |-> r.steps[d]]
  BY DEF IsRow
<1>2. t = [status |-> r.status, reason |-> r.reason, calls |-> r.calls,
           architecture |-> r.architecture, bundle |-> r.bundle,
           graph |-> r.graph, steps |-> [r.steps EXCEPT ![c] = s]]
  <2>1. r = [status |-> r.status, reason |-> r.reason, calls |-> r.calls,
           architecture |-> r.architecture, bundle |-> r.bundle,
           graph |-> r.graph, steps |-> r.steps]
    BY DEF IsRow
  <2> QED
    BY <2>1 DEF WithStep
<1>3. t.steps[c] = s /\ \A d \in Capability \ {c} : t.steps[d] = r.steps[d]
  BY <1>1, <1>2
<1>4. t.steps = [d \in Capability |-> t.steps[d]]
  BY <1>1, <1>2
<1> QED
  BY <1>2, <1>3, <1>4 DEF IsRow

(* The step of a capability whose dependencies are complete may get any    *)
(* status and a result made from exactly those.                            *)
LEMMA WithStepCoherent ==
  ASSUME NEW r, IsRow(r), Coherent(r), r.status # "completed",
         NEW c \in Capability, r.steps[c].status # "completed", r.graph[c] \subseteq Done(r),
         NEW s, s.status \in StepStatus, s.status = "completed" => s.basis = Basis(r, c),
         NEW t, t = WithStep(r, c, s)
  PROVE  Coherent(t)
<1>1. /\ IsRow(t) /\ t.status = r.status /\ t.reason = r.reason /\ t.graph = r.graph
      /\ t.steps[c] = s
      /\ \A d \in Capability \ {c} : t.steps[d] = r.steps[d]
  BY WithStepRow
<1>2. c \notin Done(r) /\ Done(r) \subseteq Done(t)
  BY <1>1 DEF Done
<1>3. ASSUME NEW d \in Capability, r.graph[d] \subseteq Done(r)
      PROVE  Basis(t, d) = Basis(r, d)
  BY <1>1, <1>2, <1>3 DEF Basis, Done
<1>4. ASSUME NEW d \in Capability
      PROVE  /\ t.steps[d].status # "pending" => t.graph[d] \subseteq Done(t)
             /\ t.steps[d].status = "completed" => t.steps[d].basis = Basis(t, d)
  <2>1. CASE d = c
    BY <1>1, <1>2, <1>3, <2>1
  <2>2. CASE d # c
    <3>1. t.steps[d] = r.steps[d]
      BY <1>1, <2>2
    <3>2. CASE r.steps[d].status = "pending"
      BY <3>1, <3>2
    <3>3. CASE r.steps[d].status # "pending"
      <4>1. r.graph[d] \subseteq Done(r) /\ (r.steps[d].status = "completed" => r.steps[d].basis = Basis(r, d))
        BY <3>3 DEF Coherent
      <4> QED
        BY <1>1, <1>2, <1>3, <3>1, <4>1
    <3> QED
      BY <3>2, <3>3
  <2> QED
    BY <2>1, <2>2
<1> QED
  BY <1>1, <1>4 DEF Coherent

(* A row under another status, for another reason, with more calls.        *)
LEMMA RowUnder ==
  ASSUME NEW r, IsRow(r), Coherent(r),
         NEW status \in RunStatus, NEW reason, NEW calls \in Nat,
         status = "completed" => Done(r) = Capability, reason # "deadlock",
         NEW t, t = [status |-> status, reason |-> reason, calls |-> calls,
                     architecture |-> r.architecture, bundle |-> r.bundle,
                     graph |-> r.graph, steps |-> r.steps]
  PROVE  /\ IsRow(t) /\ Coherent(t)
         /\ t.status = status /\ t.reason = reason /\ t.calls = calls
         /\ t.graph = r.graph /\ t.steps = r.steps
<1>1. IsRow(t)
  BY DEF IsRow
<1>2. Coherent(t)
  BY DEF Coherent, Done, Basis
<1> QED
  BY <1>1, <1>2

(* The three ways in which the code writes such a row.                     *)
LEMMA StatusRow ==
  ASSUME NEW r, IsRow(r), Coherent(r), NEW status \in RunStatus \ {"completed"},
         NEW t, t = WithStatus(r, status)
  PROVE  /\ IsRow(t) /\ Coherent(t) /\ t.status = status
         /\ t.calls = r.calls /\ t.graph = r.graph /\ t.steps = r.steps
<1>1. r = [status |-> r.status, reason |-> r.reason, calls |-> r.calls,
           architecture |-> r.architecture, bundle |-> r.bundle,
           graph |-> r.graph, steps |-> r.steps]
  BY DEF IsRow
<1>2. t = [status |-> status, reason |-> r.reason, calls |-> r.calls,
           architecture |-> r.architecture, bundle |-> r.bundle,
           graph |-> r.graph, steps |-> r.steps]
  BY <1>1 DEF WithStatus
<1>3. r.reason # "deadlock" /\ r.calls \in Nat /\ status # "completed"
  BY DEF Coherent, IsRow
<1> QED
  BY <1>2, <1>3, RowUnder

LEMMA FinishedRow ==
  ASSUME NEW r, IsRow(r), Coherent(r), NEW status \in RunStatus, NEW reason,
         status = "completed" => Done(r) = Capability, reason # "deadlock",
         NEW t, t = [WithStatus(r, status) EXCEPT !.reason = reason]
  PROVE  /\ IsRow(t) /\ Coherent(t) /\ t.status = status
         /\ t.calls = r.calls /\ t.graph = r.graph /\ t.steps = r.steps
<1>1. r = [status |-> r.status, reason |-> r.reason, calls |-> r.calls,
           architecture |-> r.architecture, bundle |-> r.bundle,
           graph |-> r.graph, steps |-> r.steps]
  BY DEF IsRow
<1>2. t = [status |-> status, reason |-> reason, calls |-> r.calls,
           architecture |-> r.architecture, bundle |-> r.bundle,
           graph |-> r.graph, steps |-> r.steps]
  BY <1>1 DEF WithStatus
<1>3. r.calls \in Nat
  BY DEF IsRow
<1> QED
  BY ONLY IsRow(r), Coherent(r), <1>2, <1>3, status \in RunStatus, reason # "deadlock",
          status = "completed" => Done(r) = Capability, RowUnder

LEMMA ChargedRow ==
  ASSUME NEW r, IsRow(r), Coherent(r), NEW calls \in Nat,
         NEW t, t = [r EXCEPT !.calls = @ + calls]
  PROVE  /\ IsRow(t) /\ Coherent(t) /\ t.status = r.status
         /\ t.calls = r.calls + calls /\ t.graph = r.graph /\ t.steps = r.steps
<1>1. r = [status |-> r.status, reason |-> r.reason, calls |-> r.calls,
           architecture |-> r.architecture, bundle |-> r.bundle,
           graph |-> r.graph, steps |-> r.steps]
  BY DEF IsRow
<1>2. t = [status |-> r.status, reason |-> r.reason, calls |-> r.calls + calls,
           architecture |-> r.architecture, bundle |-> r.bundle,
           graph |-> r.graph, steps |-> r.steps]
  BY <1>1
<1>3. /\ r.reason # "deadlock" /\ r.calls + calls \in Nat /\ r.status \in RunStatus
      /\ r.status = "completed" => Done(r) = Capability
  BY DEF Coherent, IsRow
<1> QED
  BY ONLY IsRow(r), Coherent(r), <1>2, <1>3, calls \in Nat, RowUnder

-----------------------------------------------------------------------------
(* Steps.                                                                  *)

CountsTypeOK ==
    /\ stale \in [Process -> BOOLEAN] /\ overwritten \in BOOLEAN
    /\ spent \in Nat /\ outputs \in Nat /\ claims \in [Capability -> Nat]

(* One process goes on, and what it holds then fits.                       *)
LEMMA OneMoves ==
  ASSUME GraphInv, NEW p \in Process, NEW label, NEW m,
         at' = [at EXCEPT ![p] = label], mine' = [mine EXCEPT ![p] = m], Fits(label, m),
         IsRun(run'), PlansFit', CountsTypeOK'
  PROVE  GraphInv'
<1>1. RunTypeOK'
  BY DEF GraphInv, RunTypeOK, CountsTypeOK, Go
<1>2. ASSUME NEW q \in Process
      PROVE  Fits(at'[q], mine'[q])
  <2>1. CASE q = p
    BY <2>1 DEF GraphInv, RunTypeOK, Go
  <2>2. CASE q # p
    <3>1. at'[q] = at[q] /\ mine'[q] = mine[q]
      BY <2>2 DEF GraphInv, RunTypeOK, Go
    <3> QED
      BY <3>1 DEF GraphInv
  <2> QED
    BY <2>1, <2>2
<1> QED
  BY <1>1, <1>2 DEF GraphInv

(* A process that stops holds nothing any more.                            *)
LEMMA OneStops ==
  ASSUME GraphInv, NEW p \in Process, Stop(p), IsRun(run'), PlansFit', CountsTypeOK'
  PROVE  GraphInv'
<1>1. Fits("idle", Nothing)
  BY DEF Fits, Advancing
<1>2. at' = [at EXCEPT ![p] = "idle"] /\ mine' = [mine EXCEPT ![p] = Nothing]
  BY DEF Stop, Go, Hold
<1> HIDE DEF Nothing
<1> QED
  BY <1>1, <1>2, OneMoves

(* A process that goes on with what it has.                                *)
LEMMA OneGoesOn ==
  ASSUME GraphInv, NEW p \in Process, NEW label,
         at' = [at EXCEPT ![p] = label], mine' = mine,
         label \notin Advancing \cup {"create", "supply"},
         IsRun(run'), PlansFit', CountsTypeOK'
  PROVE  GraphInv'
<1>1. mine' = [mine EXCEPT ![p] = mine[p]]
  BY DEF GraphInv, RunTypeOK
<1>2. Fits(label, mine[p])
  BY DEF Fits, Advancing
<1> QED
  BY <1>1, <1>2, OneMoves

(* Plans that did not change are as good as before.                        *)
LEMMA PlansStay ==
  ASSUME PlansFit, UNCHANGED <<architectures, made>>
  PROVE  PlansFit'
BY DEF PlansFit

(* So are the counts and the run.                                          *)
LEMMA CountsStay ==
  ASSUME GraphInv, UNCHANGED runVars
  PROVE  CountsTypeOK' /\ IsRun(run')
BY DEF GraphInv, RunTypeOK, CountsTypeOK, runVars

(* The latest architecture is one of them.                                 *)
LEMMA LatestIn ==
  ASSUME PlansFit, architectures # {}
  PROVE  Latest(architectures) \in architectures
<1>1. PICK a \in architectures : \A b \in architectures : b.id <= a.id
  BY DEF PlansFit
<1> QED
  BY <1>1 DEF Latest

(* A graph that the policy admits stays inside the capabilities.           *)
LEMMA AdmissibleGraph ==
  ASSUME NEW g \in Proposal, Admissible(g)
  PROVE  IsGraph(g)
<1>1. g \in [Capability -> SUBSET (Capability \cup {Unknown})]
  BY ArchitectureAssumption
<1> QED
  BY <1>1 DEF Admissible, IsGraph

(* Planning keeps the architectures admissible and one of them the latest, *)
(* and touches neither the run nor a copy of it.                           *)
LEMMA PlanStepInv ==
  ASSUME GraphInv, NEW p \in Process, PlanStep(p), UNCHANGED runVars
  PROVE  GraphInv'
<1>1. CountsTypeOK' /\ IsRun(run')
  BY CountsStay
<1>2. PlansFit
  BY DEF GraphInv
<1>3. CASE ArchitectBegin(p)
  <2>1. PlansFit'
    BY <1>2, <1>3, PlansStay DEF ArchitectBegin, planVars
  <2>2. CASE Stop(p)
    BY <1>1, <2>1, <2>2, OneStops
  <2>3. CASE Go(p, "specs") /\ UNCHANGED mine
    BY <1>1, <2>1, <2>3, OneGoesOn DEF Go, Advancing
  <2>4. CASE Go(p, "propose") /\ Hold(p, [id |-> snapshot])
    <3>1. Fits("propose", [id |-> snapshot])
      BY DEF Fits, Advancing
    <3> QED
      BY <1>1, <2>1, <2>4, <3>1, OneMoves DEF Go, Hold
  <2> QED
    BY <1>3, <2>2, <2>3, <2>4 DEF ArchitectBegin
<1>4. CASE Propose(p)
  <2>1. CASE UNCHANGED <<architectures, made>>
    <3>1. PlansFit'
      BY <1>2, <2>1, PlansStay
    <3> QED
      BY <1>1, <1>4, <3>1, OneStops DEF Propose
  <2>2. ASSUME NEW graph \in Proposal, Admissible(graph), made' = made + 1,
               SaveArchitecture([id |-> made', snapshot |-> mine[p].id, graph |-> graph])
        PROVE  GraphInv'
    <3>1. IsGraph(graph)
      BY <2>2, AdmissibleGraph
    <3> DEFINE new == [id |-> made', snapshot |-> mine[p].id, graph |-> graph]
    <3>2. new \in architectures' /\ architectures' \subseteq architectures \cup {new}
      BY <2>2 DEF SaveArchitecture
    <3>3. made' \in Nat /\ new.id = made' /\ new.graph = graph
      BY <1>2, <2>2 DEF PlansFit
    <3>4. \A a \in architectures' : a.id \in Nat /\ a.id <= made' /\ IsGraph(a.graph)
      BY <1>2, <2>2, <3>1, <3>2, <3>3 DEF PlansFit
    <3>5. PlansFit'
      BY <3>2, <3>3, <3>4 DEF PlansFit
    <3> QED
      BY <1>1, <1>4, <3>5, OneStops DEF Propose
  <2> QED
    BY <1>4, <2>1, <2>2 DEF Propose
<1>5. CASE SpecsBegin(p)
  <2>1. PlansFit'
    BY <1>2, <1>5, PlansStay DEF SpecsBegin, planVars
  <2>2. CASE Stop(p)
    BY <1>1, <2>1, <2>2, OneStops
  <2>3. ASSUME NEW label \in {"materialize", "specify"}, NEW m, Go(p, label), Hold(p, m)
        PROVE  GraphInv'
    <3>1. Fits(label, m)
      BY DEF Fits, Advancing
    <3> QED
      BY <1>1, <2>1, <2>3, <3>1, OneMoves DEF Go, Hold
  <2> QED
    BY <1>5, <2>2, <2>3 DEF SpecsBegin
<1>6. CASE Specify(p)
  <2>1. PlansFit'
    BY <1>2, <1>6 DEF Specify, PlansFit
  <2>2. CASE Stop(p)
    BY <1>1, <2>1, <2>2, OneStops
  <2>3. CASE Go(p, "materialize") /\ UNCHANGED mine
    BY <1>1, <2>1, <2>3, OneGoesOn DEF Go, Advancing
  <2> QED
    BY <1>6, <2>2, <2>3 DEF Specify
<1>7. CASE Materialize(p)
  <2>1. PlansFit'
    BY <1>2, <1>7, PlansStay DEF Materialize
  <2> QED
    BY <1>1, <1>7, <2>1, OneStops DEF Materialize
<1> QED
  BY <1>3, <1>4, <1>5, <1>6, <1>7 DEF PlanStep

(* What one advance writes when it ends.                                   *)
LEMMA FinishInv ==
  ASSUME GraphInv, NEW p \in Process, NEW r, IsRow(r), Coherent(r),
         NEW status \in RunStatus, NEW reason,
         status = "completed" => Done(r) = Capability, reason # "deadlock",
         run' = [WithStatus(r, status) EXCEPT !.reason = reason],
         stale' = [q \in Process |-> q # p], overwritten' = (overwritten \/ stale[p]), Stop(p),
         UNCHANGED <<planVars, outputs, spent, claims>>
  PROVE  GraphInv'
<1>1. IsRun(run')
  BY FinishedRow DEF IsRun
<1>2. PlansFit'
  BY PlansStay DEF GraphInv, planVars
<1>3. CountsTypeOK'
  BY DEF GraphInv, RunTypeOK, CountsTypeOK
<1> QED
  BY <1>1, <1>2, <1>3, OneStops

(* Starting: the first of two starts makes the run, from a graph that was  *)
(* admitted.                                                               *)
LEMMA StartInv ==
  ASSUME GraphInv, NEW p \in Process, Start(p) \/ Create(p) \/ Read(p)
  PROVE  GraphInv'
<1>1. RunTypeOK /\ PlansFit /\ IsRun(run)
  BY DEF GraphInv
<1>2. PlansFit'
  BY <1>1, PlansStay DEF Start, Create, Read, planVars
<1>3. CASE Start(p)
  <2>1. CountsTypeOK' /\ IsRun(run')
    BY <1>3, CountsStay DEF Start
  <2>2. CASE Stop(p)
    BY <1>2, <2>1, <2>2, OneStops
  <2>3. CASE Go(p, "read") /\ UNCHANGED mine
    BY <1>2, <2>1, <2>3, OneGoesOn DEF Go, Advancing
  <2>4. ASSUME NEW b \in CurrentBundle, Go(p, "create"),
               Hold(p, [id |-> b.id, architecture |-> Latest(architectures)])
        PROVE  GraphInv'
    <3> DEFINE m == [id |-> b.id, architecture |-> Latest(architectures)]
    <3>1. IsGraph(m.architecture.graph)
      BY <1>1, LatestIn DEF CurrentBundle, PlansFit
    <3>2. Fits("create", m)
      BY <3>1 DEF Fits, Advancing
    <3>3. at' = [at EXCEPT ![p] = "create"] /\ mine' = [mine EXCEPT ![p] = m]
      BY <2>4 DEF Go, Hold
    <3> HIDE DEF m
    <3> QED
      BY <1>2, <2>1, <3>2, <3>3, OneMoves
  <2> QED
    BY <1>3, <2>2, <2>3, <2>4 DEF Start
<1>4. CASE Create(p)
  <2>1. Fits("read", Nothing)
    BY DEF Fits, Advancing
  <2>2. at' = [at EXCEPT ![p] = "read"] /\ mine' = [mine EXCEPT ![p] = Nothing]
    BY <1>4 DEF Create, Go, Hold
  <2>3. CountsTypeOK'
    BY <1>1, <1>4 DEF Create, SaveRow, CountsTypeOK, RunTypeOK
  <2>4. CASE UNCHANGED run
    BY <1>1, <1>2, <2>1, <2>2, <2>3, <2>4, OneMoves
  <2>5. CASE SaveRow(p, [status |-> "pending", reason |-> "none", calls |-> 0,
                        architecture |-> mine[p].architecture, bundle |-> mine[p].id,
                        graph |-> mine[p].architecture.graph,
                        steps |-> [c \in Capability |-> Fresh]])
    <3>1. IsGraph(mine[p].architecture.graph)
      BY <1>4 DEF GraphInv, Fits, Create
    <3>2. \A c \in Capability : run'.steps[c].status = "pending"
      BY <2>5 DEF SaveRow, Fresh
    <3>3. IsRow(run')
      BY <2>5, <3>1, <3>2 DEF SaveRow, IsRow, RunStatus, StepStatus
    <3>4. Coherent(run')
      BY <2>5, <3>2 DEF SaveRow, Coherent
    <3> QED
      BY <1>2, <2>1, <2>2, <2>3, <3>3, <3>4, OneMoves DEF IsRun
  <2> QED
    BY <1>4, <2>4, <2>5 DEF Create
<1>5. CASE Read(p)
  <2>1. CountsTypeOK' /\ IsRun(run')
    BY <1>1, <1>5 DEF Read, CountsTypeOK, RunTypeOK, Stop
  <2>2. CASE Stop(p)
    BY <1>2, <2>1, <2>2, OneStops
  <2>3. CASE /\ run # NoRun /\ run.status # "completed"
             /\ \A c \in Capability : run.steps[c].status \notin {"running", "blocked", "failed"}
             /\ Go(p, "step")
             /\ Hold(p, [id |-> 0, row |-> run, left |-> MaxAgentSteps, out |-> 0])
    <3> DEFINE m == [id |-> 0, row |-> run, left |-> MaxAgentSteps, out |-> 0]
    <3>1. IsRow(run) /\ Coherent(run)
      BY <1>1, <2>3 DEF IsRun
    <3>2. Settled(run)
      BY <2>3, <3>1 DEF IsRow, Settled, StepStatus
    <3>3. Fits("step", m)
      BY <2>3, <3>1, <3>2 DEF Fits, Advancing
    <3>4. at' = [at EXCEPT ![p] = "step"] /\ mine' = [mine EXCEPT ![p] = m]
      BY <2>3 DEF Go, Hold
    <3> HIDE DEF m
    <3> QED
      BY <1>2, <2>1, <3>3, <3>4, OneMoves
  <2> QED
    BY <1>5, <2>2, <2>3 DEF Read
<1> QED
  BY <1>3, <1>4, <1>5

(* An advance that has no agent to call.                                   *)
LEMMA EndInv ==
  ASSUME GraphInv, NEW p \in Process, Conclude(p) \/ TooLarge(p)
  PROVE  GraphInv'
<1> DEFINE r == mine[p].row
<1>1. at[p] = "step"
  BY DEF Conclude, TooLarge
<1>2. IsRow(r) /\ Coherent(r) /\ Settled(r) /\ r.status # "completed"
  BY <1>1 DEF GraphInv, Fits, Advancing
<1> HIDE DEF r
<1>3. UNCHANGED <<planVars, outputs, spent, claims>>
  BY DEF Conclude, TooLarge
<1>4. ASSUME NEW t, IsRow(t), Coherent(t), NEW status \in RunStatus, NEW reason,
             Finish(p, t, status, reason),
             status = "completed" => Done(t) = Capability, reason # "deadlock"
      PROVE  GraphInv'
  BY <1>3, <1>4, FinishInv DEF Finish, SaveRow
<1>5. CASE Conclude(p)
  <2>1. Pending(r) = {} => Done(r) = Capability
    BY <1>2 DEF Settled, Pending, Done
  <2>2. Pending(r) # {} => Ready(r) # {}
    BY <1>2, NoDeadlock
  <2>3. \/ Pending(r) = {} /\ Finish(p, r, "completed", "graph_completed")
        \/ Finish(p, r, "pending", "step_cap")
        \/ Finish(p, r, "blocked", "result_required")
    BY <1>5, <2>2 DEF Conclude, r
  <2>4. {"completed", "pending", "blocked"} \subseteq RunStatus
    BY DEF RunStatus
  <2> QED
    BY <1>2, <1>4, <2>1, <2>3, <2>4
<1>6. CASE TooLarge(p)
  <2>1. PICK c \in Ready(r) \cap Agent :
             Finish(p, WithStep(r, c, [Fresh EXCEPT !.status = "blocked"]), "blocked", "too_large")
    BY <1>6 DEF TooLarge, r
  <2> DEFINE s == [Fresh EXCEPT !.status = "blocked"]
             t == WithStep(r, c, s)
  <2>2. c \in Capability /\ r.steps[c].status = "pending" /\ r.graph[c] \subseteq Done(r)
    BY DEF Ready, Pending
  <2>3. s.status = "blocked" /\ s.status \in StepStatus /\ "blocked" \in RunStatus
    BY DEF Fresh, StepStatus, RunStatus
  <2> HIDE DEF s
  <2>4. IsRow(t)
    BY <1>2, <2>2, <2>3, WithStepRow
  <2>5. Coherent(t)
    BY <1>2, <2>2, <2>3, WithStepCoherent
  <2>6. Finish(p, t, "blocked", "too_large")
    BY <2>1 DEF s
  <2> HIDE DEF t
  <2> QED
    BY <1>4, <2>3, <2>4, <2>5, <2>6
<1> QED
  BY <1>5, <1>6

(* What an answer changes of what an advance holds.                        *)
LEMMA HeldAnswer ==
  ASSUME NEW h, h = [id |-> h.id, row |-> h.row, left |-> h.left, out |-> h.out], NEW x, NEW y
  PROVE  [h EXCEPT !.row = x, !.id = y] = [id |-> y, row |-> x, left |-> h.left, out |-> h.out]
<1> DEFINE k == [h EXCEPT !.row = x]
<1>1. k = [id |-> h.id, row |-> x, left |-> h.left, out |-> h.out]
  OBVIOUS
<1>2. [h EXCEPT !.row = x, !.id = y] = [k EXCEPT !.id = y]
  OBVIOUS
<1> HIDE DEF k
<1> QED
  BY <1>1, <1>2

(* What stands in a row while an agent is being called.                    *)
LEMMA CalledRow ==
  ASSUME NEW r, NEW c \in Capability, SettledBut(r, c), r.steps[c].status = "running"
  PROVE  Claimed(r) = c
BY DEF SettledBut, Claimed

(* Claiming: the row in hand, with the claimed step running, is stored.    *)
LEMMA ClaimInv ==
  ASSUME GraphInv, NEW p \in Process, Claim(p)
  PROVE  GraphInv'
<1> DEFINE r == mine[p].row
<1>1. /\ IsRow(r) /\ Coherent(r) /\ Settled(r) /\ r.status # "completed"
      /\ mine[p] = [id |-> mine[p].id, row |-> mine[p].row,
                    left |-> mine[p].left, out |-> mine[p].out]
  BY DEF GraphInv, Fits, Advancing, Claim
<1> HIDE DEF r
<1>2. PlansFit'
  BY PlansStay DEF GraphInv, Claim, planVars
<1>3. CASE Stop(p) /\ UNCHANGED <<run, stale, claims, outputs>>
  <2>1. CountsTypeOK' /\ IsRun(run')
    BY <1>3, CountsStay DEF Claim, runVars
  <2> QED
    BY <1>2, <1>3, <2>1, OneStops
<1>4. ASSUME NEW c \in Ready(r) \cap Agent, NEW t,
             t = WithStatus(WithStep(r, c, [Fresh EXCEPT !.status = "running"]), "running"),
             SaveRow(p, t), claims' = [claims EXCEPT ![c] = @ + 1], outputs' = outputs + 1,
             Go(p, "call"), Hold(p, [mine[p] EXCEPT !.row = t, !.out = outputs + 1])
      PROVE  GraphInv'
  <2> DEFINE s == [Fresh EXCEPT !.status = "running"]
             u == WithStep(r, c, s)
             m == [id |-> mine[p].id, row |-> t, left |-> mine[p].left, out |-> outputs + 1]
  <2>1. c \in Capability /\ r.steps[c].status = "pending" /\ r.graph[c] \subseteq Done(r)
    BY DEF Ready, Pending
  <2>2. s.status = "running" /\ s.status \in StepStatus /\ "running" \in RunStatus \ {"completed"}
    BY DEF Fresh, StepStatus, RunStatus
  <2>3. t = WithStatus(u, "running")
    BY <1>4
  <2> HIDE DEF s
  <2>4. IsRow(u) /\ u.steps[c] = s /\ \A d \in Capability \ {c} : u.steps[d] = r.steps[d]
    BY <1>1, <2>1, <2>2, WithStepRow
  <2>5. Coherent(u)
    BY <1>1, <2>1, <2>2, WithStepCoherent
  <2> HIDE DEF u
  <2>6. IsRow(t) /\ Coherent(t) /\ t.status = "running" /\ t.steps = u.steps
    BY <2>2, <2>3, <2>4, <2>5, StatusRow
  <2>7. t.steps[c].status = "running" /\ SettledBut(t, c)
    BY <1>1, <2>2, <2>4, <2>6 DEF Settled, SettledBut
  <2>8. Fits("call", m)
    BY <2>1, <2>6, <2>7 DEF Fits, Advancing
  <2>9. at' = [at EXCEPT ![p] = "call"] /\ mine' = [mine EXCEPT ![p] = m]
    <3>1. mine[p] = [id |-> mine[p].id, row |-> mine[p].row,
                     left |-> mine[p].left, out |-> mine[p].out]
      BY <1>1
    <3> DEFINE k == [mine[p] EXCEPT !.row = t]
               o == outputs + 1
    <3>2. k = [id |-> mine[p].id, row |-> t, left |-> mine[p].left, out |-> mine[p].out]
      BY <3>1
    <3>3. [mine[p] EXCEPT !.row = t, !.out = outputs + 1] = [k EXCEPT !.out = o]
      OBVIOUS
    <3> HIDE DEF k, o
    <3>4. [k EXCEPT !.out = o] = [id |-> mine[p].id, row |-> t, left |-> mine[p].left, out |-> o]
      BY <3>2
    <3>5. [mine[p] EXCEPT !.row = t, !.out = outputs + 1] = m
      BY <3>3, <3>4 DEF o
    <3> QED
      BY <1>4, <3>5 DEF Go, Hold
  <2>10. CountsTypeOK'
    <3>1. stale' \in [Process -> BOOLEAN] /\ outputs' \in Nat /\ claims' \in [Capability -> Nat]
      BY <1>4, <2>1 DEF SaveRow, GraphInv, RunTypeOK
    <3>2. spent' \in Nat /\ overwritten' \in BOOLEAN
      BY DEF Claim, GraphInv, RunTypeOK
    <3> QED
      BY <3>1, <3>2 DEF CountsTypeOK
  <2>11. IsRun(run')
    BY <1>4, <2>6 DEF SaveRow, IsRun
  <2> HIDE DEF m
  <2> QED
    BY <1>2, <2>8, <2>9, <2>10, <2>11, OneMoves
<1> QED
  BY <1>3, <1>4 DEF Claim, r

(* Calling: the answer and what it was made from are put into the row in   *)
(* hand.                                                                   *)
LEMMA CallInv ==
  ASSUME GraphInv, NEW p \in Process, Call(p)
  PROVE  GraphInv'
<1> DEFINE r == mine[p].row
<1>1. /\ IsRow(r) /\ Coherent(r) /\ r.status = "running"
      /\ mine[p] = [id |-> mine[p].id, row |-> mine[p].row,
                    left |-> mine[p].left, out |-> mine[p].out]
  BY DEF GraphInv, Fits, Advancing, Call
<1>2. PICK c \in Capability : r.steps[c].status = "running" /\ SettledBut(r, c)
  BY DEF GraphInv, Fits, Call
<1>3. Claimed(r) = c
  BY <1>2, CalledRow
<1> HIDE DEF r
<1>4. PlansFit'
  BY PlansStay DEF GraphInv, Call, planVars
<1>5. IsRun(run')
  BY DEF GraphInv, Call
<1>6. ASSUME Stop(p), NEW calls \in 0 .. MaxTurns, spent' = spent + calls
      PROVE  GraphInv'
  <2>0. spent' \in Nat
    BY <1>6, OrchestrationAssumption DEF GraphInv, RunTypeOK
  <2>1. CountsTypeOK'
    BY <2>0 DEF Call, GraphInv, RunTypeOK, CountsTypeOK
  <2> QED
    BY <1>4, <1>5, <1>6, <2>1, OneStops
<1>7. ASSUME NEW calls \in 0 .. MaxTurns, NEW status \in {"completed", "blocked", "failed"},
             spent' = spent + calls, Go(p, "save"),
             Hold(p, [mine[p] EXCEPT
                     !.row = [WithStep(r, c, [status |-> status, output |-> mine[p].out,
                                                basis |-> Basis(r, c)])
                              EXCEPT !.calls = @ + calls],
                     !.id = c])
      PROVE  GraphInv'
  <2> DEFINE s == [status |-> status, output |-> mine[p].out, basis |-> Basis(r, c)]
             u == WithStep(r, c, s)
             t == [u EXCEPT !.calls = @ + calls]
             m == [id |-> c, row |-> t, left |-> mine[p].left, out |-> mine[p].out]
  <2>1. r.steps[c].status # "completed" /\ r.graph[c] \subseteq Done(r) /\ r.status # "completed"
    BY <1>1, <1>2 DEF Coherent
  <2>2. s.status = status /\ s.status \in StepStatus /\ s.basis = Basis(r, c) /\ calls \in Nat
    BY OrchestrationAssumption DEF StepStatus
  <2>3. at' = [at EXCEPT ![p] = "save"] /\ mine' = [mine EXCEPT ![p] = m]
    <3>1. [mine[p] EXCEPT !.row = t, !.id = c] = m
      <4> HIDE DEF t
      <4> QED
        BY <1>1, HeldAnswer
    <3>2. Hold(p, [mine[p] EXCEPT !.row = t, !.id = c])
      BY <1>7
    <3> QED
      BY <1>7, <3>1, <3>2 DEF Go, Hold
  <2> HIDE DEF s
  <2>4. /\ IsRow(u) /\ u.status = r.status /\ u.steps[c] = s
        /\ \A d \in Capability \ {c} : u.steps[d] = r.steps[d]
    BY <1>1, <2>2, WithStepRow
  <2>5. Coherent(u)
    BY <1>1, <2>1, <2>2, WithStepCoherent
  <2> HIDE DEF u
  <2>6. IsRow(t) /\ Coherent(t) /\ t.status = u.status /\ t.steps = u.steps
    BY <2>2, <2>4, <2>5, ChargedRow
  <2> HIDE DEF t
  <2>7. SettledBut(t, c) /\ t.steps[c].status = status
    BY <1>2, <2>2, <2>4, <2>6 DEF SettledBut
  <2>8. Fits("save", m)
    BY <1>1, <2>4, <2>6, <2>7 DEF Fits, Advancing
  <2>9. CountsTypeOK'
    <3>1. UNCHANGED <<stale, outputs, claims, overwritten>>
      BY DEF Call
    <3>2. spent' \in Nat
      BY <1>7, <2>2 DEF GraphInv, RunTypeOK
    <3> QED
      BY <3>1, <3>2 DEF GraphInv, RunTypeOK, CountsTypeOK
  <2> HIDE DEF m
  <2> QED
    BY <1>4, <1>5, <2>3, <2>8, <2>9, OneMoves
<1> QED
  BY <1>3, <1>6, <1>7 DEF Call, r

(* Saving the answer, and what follows from it.                            *)
LEMMA AnswerInv ==
  ASSUME GraphInv, NEW p \in Process, SaveResult(p) \/ Answered(p)
  PROVE  GraphInv'
<1> DEFINE r == mine[p].row
           c == mine[p].id
<1>1. /\ IsRow(r) /\ Coherent(r) /\ r.status = "running"
      /\ mine[p] = [id |-> mine[p].id, row |-> mine[p].row,
                    left |-> mine[p].left, out |-> mine[p].out]
      /\ c \in Capability /\ SettledBut(r, c)
      /\ r.steps[c].status \in {"completed", "blocked", "failed"}
  BY DEF GraphInv, Fits, Advancing, SaveResult, Answered
<1>2. PlansFit'
  BY PlansStay DEF GraphInv, SaveResult, Answered, planVars
<1> HIDE DEF r, c
<1>3. CASE SaveResult(p)
  <2> DEFINE m == [id |-> c, row |-> r, left |-> mine[p].left - 1, out |-> mine[p].out]
  <2>1. at' = [at EXCEPT ![p] = "answered"] /\ mine' = [mine EXCEPT ![p] = m]
    <3>1. [mine[p] EXCEPT !.left = mine[p].left - 1] = m
      BY <1>1 DEF r, c
    <3> QED
      BY <1>3, <3>1 DEF Go, Hold, SaveResult
  <2>2. Fits("answered", m)
    BY <1>1 DEF Fits, Advancing
  <2>3. CountsTypeOK'
    BY <1>3 DEF SaveResult, SaveRow, GraphInv, RunTypeOK, CountsTypeOK
  <2>4. IsRun(run')
    BY <1>1, <1>3 DEF SaveResult, SaveRow, IsRun, r
  <2> HIDE DEF m
  <2> QED
    BY <1>2, <2>1, <2>2, <2>3, <2>4, OneMoves
<1>4. CASE Answered(p)
  <2>1. CASE r.steps[c].status = "completed"
    <3>1. at' = [at EXCEPT ![p] = "step"] /\ mine' = mine /\ UNCHANGED runVars
      BY <1>4, <2>1 DEF Answered, Go, r, c, runVars
    <3>2. mine' = [mine EXCEPT ![p] = mine[p]]
      BY <3>1 DEF GraphInv, RunTypeOK
    <3>3. Settled(r)
      BY <1>1, <2>1 DEF Settled, SettledBut
    <3>4. Fits("step", mine[p])
      BY <1>1, <3>3 DEF Fits, Advancing, r
    <3>5. CountsTypeOK' /\ IsRun(run')
      BY <3>1, CountsStay
    <3> QED
      BY <1>2, <3>1, <3>2, <3>4, <3>5, OneMoves
  <2>2. CASE r.steps[c].status \in {"blocked", "failed"}
    <3> DEFINE status == r.steps[c].status
    <3>1. Finish(p, r, status, "agent")
      BY <1>4, <2>2 DEF Answered, r, c
    <3>2. UNCHANGED <<planVars, outputs, spent, claims>>
      BY <1>4 DEF Answered
    <3>3. status \in RunStatus /\ status # "completed"
      BY <2>2 DEF RunStatus
    <3> HIDE DEF status
    <3> QED
      BY <1>1, <3>1, <3>2, <3>3, FinishInv DEF Finish, SaveRow
  <2> QED
    BY <1>1, <2>1, <2>2
<1> QED
  BY <1>3, <1>4

(* Supplying a result from outside.                                        *)
LEMMA SupplyInv ==
  ASSUME GraphInv, NEW p \in Process, ReadForSupply(p) \/ Supply(p)
  PROVE  GraphInv'
<1>1. PlansFit'
  BY PlansStay DEF GraphInv, ReadForSupply, Supply, planVars
<1>2. CASE ReadForSupply(p)
  <2>1. PICK c \in Supplies(run) : Hold(p, [id |-> c, row |-> WithStatus(run, "pending")])
    BY <1>2 DEF ReadForSupply
  <2> DEFINE t == WithStatus(run, "pending")
             m == [id |-> c, row |-> t]
  <2>2. IsRow(run) /\ Coherent(run)
    BY <1>2 DEF ReadForSupply, GraphInv, IsRun
  <2>3. "pending" \in RunStatus \ {"completed"}
    BY DEF RunStatus
  <2>4. /\ IsRow(t) /\ Coherent(t) /\ t.status = "pending"
        /\ t.graph = run.graph /\ t.steps = run.steps
    BY <2>2, <2>3, StatusRow
  <2> HIDE DEF t
  <2>5. c \in Ready(t)
    BY <2>4 DEF Supplies, Ready, Pending, Done
  <2>6. Fits("supply", m)
    BY <2>4, <2>5 DEF Fits, Advancing
  <2>7. at' = [at EXCEPT ![p] = "supply"] /\ mine' = [mine EXCEPT ![p] = m]
    BY <1>2, <2>1 DEF ReadForSupply, Go, Hold, t
  <2>8. CountsTypeOK' /\ IsRun(run')
    BY <1>2 DEF ReadForSupply, GraphInv, RunTypeOK, CountsTypeOK
  <2> HIDE DEF m
  <2> QED
    BY <1>1, <2>6, <2>7, <2>8, OneMoves
<1>3. CASE Supply(p)
  <2> DEFINE r == mine[p].row
             c == mine[p].id
             s == [status |-> "completed", output |-> outputs', basis |-> Basis(r, c)]
             t == WithStep(r, c, s)
  <2>1. IsRow(r) /\ Coherent(r) /\ r.status = "pending" /\ c \in Ready(r)
    BY <1>3 DEF Supply, GraphInv, Fits
  <2>2. run' = t
    BY <1>3 DEF Supply, SaveRow
  <2>3. s.status = "completed" /\ s.basis = Basis(r, c) /\ "completed" \in StepStatus
    BY DEF StepStatus
  <2> HIDE DEF r, c, s
  <2>4. /\ c \in Capability /\ r.steps[c].status = "pending" /\ r.graph[c] \subseteq Done(r)
        /\ r.status # "completed"
    BY <2>1 DEF Ready, Pending
  <2>5. IsRow(t)
    BY <2>1, <2>3, <2>4, WithStepRow
  <2>6. Coherent(t)
    BY <2>1, <2>3, <2>4, WithStepCoherent
  <2>7. CountsTypeOK'
    BY <1>3 DEF Supply, SaveRow, GraphInv, RunTypeOK, CountsTypeOK
  <2> QED
    BY <1>1, <1>3, <2>2, <2>5, <2>6, <2>7, OneStops DEF Supply, IsRun
<1> QED
  BY <1>2, <1>3

(* An advance or a supplied result.                                        *)
LEMMA RunStepInv ==
  ASSUME GraphInv, NEW p \in Process, RunStep(p) \/ ReadForSupply(p)
  PROVE  GraphInv'
BY StartInv, EndInv, ClaimInv, CallInv, AnswerInv, SupplyInv DEF RunStep

(* A worker of the queue holds no run.                                     *)
QueueLabels == {"idle", "work", "enqueue", "recover", "find_processing", "find_finished",
                "write_job", "fill_job", "look", "execute", "receipt", "fill", "finish", "requeue"}

LEMMA QueueStepInv ==
  ASSUME GraphInv, NEW p \in Process, QueueStep(p), UNCHANGED graphVars
  PROVE  GraphInv'
<1>1. PlansFit' /\ CountsTypeOK' /\ IsRun(run')
  BY PlansStay, CountsStay DEF GraphInv, graphVars, planVars
<1>2. ASSUME NEW label \in QueueLabels, Go(p, label), UNCHANGED mine
      PROVE  GraphInv'
  BY <1>1, <1>2, OneGoesOn DEF Go, QueueLabels, Advancing
<1>3. ASSUME NEW label \in QueueLabels, NEW m, Go(p, label), Hold(p, m)
      PROVE  GraphInv'
  <2>1. Fits(label, m)
    BY DEF Fits, QueueLabels, Advancing
  <2> QED
    BY <1>1, <1>3, <2>1, OneMoves DEF Go, Hold
<1>4. CASE EnqueueBegin(p) \/ FindProcessing(p) \/ FindFinished(p) \/ WriteJob(p) \/ FillJob(p)
  BY <1>1, <1>2, <1>3, <1>4, OneStops
     DEF EnqueueBegin, FindProcessing, FindFinished, WriteJob, FillJob, QueueLabels
<1>5. CASE Take(p) \/ Look(p) \/ Execute(p)
  BY <1>1, <1>2, <1>3, <1>5, OneStops DEF Take, Look, Execute, QueueLabels
<1>6. CASE CreateReceipt(p) \/ FillReceipt(p) \/ FinishJob(p)
  BY <1>1, <1>2, <1>6, OneStops DEF CreateReceipt, FillReceipt, FinishJob, QueueLabels
<1>7. CASE RecoverBegin(p) \/ Requeue(p)
  BY <1>1, <1>3, <1>7, OneStops DEF RecoverBegin, Requeue, QueueLabels
<1> QED
  BY <1>4, <1>5, <1>6, <1>7 DEF QueueStep

LEMMA GraphInvStep ==
  ASSUME GraphInv, [Next]_vars
  PROVE  GraphInv'
<1>1. ASSUME NEW p \in Process, Command(p)
      PROVE  GraphInv'
  <2>1. PlansFit' /\ CountsTypeOK' /\ IsRun(run')
    BY <1>1, PlansStay, CountsStay DEF GraphInv, Command, graphVars, planVars
  <2>2. PICK label \in QueueLabels \cup {"architect", "start", "read"} : Go(p, label)
    BY <1>1 DEF Command, QueueLabels
  <2> QED
    BY <1>1, <2>1, <2>2, OneGoesOn DEF Command, Go, QueueLabels, Advancing
<1>2. ASSUME NEW p \in Process, Crash(p)
      PROVE  GraphInv'
  <2>1. PlansFit' /\ CountsTypeOK' /\ IsRun(run')
    BY <1>2, PlansStay, CountsStay DEF GraphInv, Crash, graphVars, planVars
  <2> QED
    BY <1>2, <2>1, OneStops DEF Crash
<1>3. ASSUME NEW p \in Process, Graph(p)
      PROVE  GraphInv'
  BY <1>3, PlanStepInv, RunStepInv DEF Graph
<1>4. ASSUME NEW p \in Process, Work(p)
      PROVE  GraphInv'
  BY <1>4, QueueStepInv DEF Work
<1>5. CASE Environment \/ UNCHANGED vars
  <2>1. UNCHANGED <<at, mine, runVars, planVars>>
    BY <1>5 DEF Environment, Change, Age, vars, processVars, graphVars
  <2>2. PlansFit' /\ CountsTypeOK' /\ IsRun(run')
    BY <2>1, PlansStay, CountsStay DEF GraphInv, planVars
  <2> QED
    BY <2>1, <2>2 DEF GraphInv, RunTypeOK, CountsTypeOK
<1> QED
  BY <1>1, <1>2, <1>3, <1>4, <1>5 DEF Next

LEMMA GraphInvInit ==
  ASSUME Init PROVE GraphInv
<1>1. RunTypeOK /\ IsRun(run)
  BY DEF Init, OrchestrationInit, RunTypeOK, IsRun
<1>2. PlansFit
  BY DEF Init, ArchitectureInit, PlansFit
<1>3. \A p \in Process : Fits(at[p], mine[p])
  BY DEF Init, Fits, Advancing
<1> QED
  BY <1>1, <1>2, <1>3 DEF GraphInv

LEMMA GraphInvHolds == Spec => []GraphInv
<1>1. Init => GraphInv
  BY GraphInvInit
<1>2. GraphInv /\ [Next]_vars => GraphInv'
  BY GraphInvStep
<1> QED
  BY <1>1, <1>2, PTL DEF Spec

(* However many processes advance a run and overwrite each other's rows,   *)
(* it never reports a deadlock, no step starts before what it depends on,  *)
(* and every stored output was made from the outputs stored beside it.     *)
THEOREM RunAlwaysHangsTogether == Spec => []RunHangsTogether
<1>1. GraphInv => RunHangsTogether
  BY DEF GraphInv, IsRun, Coherent, RunHangsTogether
<1> QED
  BY <1>1, GraphInvHolds, PTL

-----------------------------------------------------------------------------
(* The common ceiling.  What a process that was not overtaken holds is the *)
(* stored run; whoever is calling an agent was not overtaken, and everyone *)
(* who held a copy before the claim was.  So nothing but the answer is     *)
(* written between a claim and its answer, and the calls that the row      *)
(* counts are all that were made.                                          *)
Holding == Advancing \cup {"supply"}
Running(r) == \E c \in Capability : r.steps[c].status = "running"

\* What the stored row says of the calls and of the claims.
Counted ==
    /\ run = NoRun => spent = 0 /\ \A c \in Capability : claims[c] = 0
    /\ run # NoRun =>
         /\ spent <= MaxModelCalls
         /\ ~Running(run) => spent = run.calls
         /\ \A c \in Capability :
              /\ claims[c] <= 1
              /\ run.steps[c].status = "pending" => claims[c] = 0

\* What p holds, compared with what is stored.
Held(p) ==
    /\ at[p] \in Holding => run # NoRun
    /\ at[p] \in {"step", "answered"} /\ ~stale[p] => mine[p].row = run
    /\ at[p] = "supply" /\ ~stale[p] => mine[p].row = WithStatus(run, "pending")
    /\ at[p] = "call" => ~stale[p] /\ mine[p].row = run /\ spent = run.calls
    /\ at[p] = "save" =>
         /\ ~stale[p] /\ run.status = "running" /\ Running(run)
         /\ spent = mine[p].row.calls
         /\ \A c \in Capability :
              mine[p].row.steps[c].status = "pending" => run.steps[c].status = "pending"

\* One agent is being called at a time, by a process that overtook the rest.
Alone(p, q) ==
    /\ at[p] \in {"call", "save"} /\ p # q
    => /\ at[q] \notin {"call", "save"}
       /\ at[q] \in Holding => stale[q]

CeilingInv ==
    ~overwritten =>
        /\ Counted
        /\ \A p \in Process : Held(p)
        /\ \A p, q \in Process : Alone(p, q)

(* A process that gets nothing into its hands, or loses what it had,       *)
(* disturbs nothing.                                                       *)
LEMMA QuietStep ==
  ASSUME GraphInv, CeilingInv, NEW p \in Process, NEW label, label \notin Holding,
         at' = [at EXCEPT ![p] = label], \A q \in Process \ {p} : mine'[q] = mine[q],
         UNCHANGED <<run, stale, spent, claims, overwritten>>
  PROVE  CeilingInv'
<1> SUFFICES ASSUME ~overwritten' PROVE CeilingInv'
  BY DEF CeilingInv
<1>1. Counted /\ (\A q \in Process : Held(q)) /\ (\A q, r \in Process : Alone(q, r))
  BY DEF CeilingInv
<1>2. Counted'
  BY <1>1 DEF Counted
<1>3. at'[p] = label /\ \A q \in Process \ {p} : at'[q] = at[q] /\ mine'[q] = mine[q]
  BY DEF GraphInv, RunTypeOK
<1>4. ASSUME NEW q \in Process
      PROVE  Held(q)'
  <2>1. CASE q = p
    BY <1>3, <2>1 DEF Held, Holding, Advancing
  <2>2. CASE q # p
    BY <1>1, <1>3, <2>2 DEF Held
  <2> QED
    BY <2>1, <2>2
<1>5. ASSUME NEW q \in Process, NEW r \in Process
      PROVE  Alone(q, r)'
  <2>1. CASE q = p \/ r = p
    BY <1>3, <2>1 DEF Alone, Holding, Advancing
  <2>2. CASE q # p /\ r # p
    BY <1>1, <1>3, <2>2 DEF Alone
  <2> QED
    BY <2>1, <2>2
<1> QED
  BY <1>2, <1>4, <1>5 DEF CeilingInv

(* A process that was not overtaken, with nothing claimed in the run, ends *)
(* with a row that counts the same calls.                                  *)
LEMMA SettledSave ==
  ASSUME GraphInv, CeilingInv, NEW p \in Process, at[p] \in {"step", "answered", "supply"},
         SaveRow(p, run'), Stop(p), overwritten' = (overwritten \/ stale[p]),
         UNCHANGED <<spent, claims>>,
         ~overwritten /\ ~stale[p] =>
            /\ run' # NoRun /\ run'.calls = run.calls
            /\ Running(run) => Running(run')
            /\ \A c \in Capability :
                 run'.steps[c].status = "pending" => run.steps[c].status = "pending"
  PROVE  CeilingInv'
<1> SUFFICES ASSUME ~overwritten' PROVE CeilingInv'
  BY DEF CeilingInv
<1>1. ~overwritten /\ ~stale[p]
  OBVIOUS
<1>2. Counted /\ Held(p) /\ (\A q \in Process : Alone(q, p))
  BY <1>1 DEF CeilingInv
<1>3. run # NoRun
  BY <1>2 DEF Held, Holding, Advancing
<1>4. Counted'
  BY <1>1, <1>2, <1>3 DEF Counted
<1>5. at'[p] = "idle" /\ \A q \in Process \ {p} : at'[q] = at[q] /\ mine'[q] = mine[q]
  BY DEF Stop, Go, Hold, GraphInv, RunTypeOK
<1>6. \A q \in Process \ {p} : stale'[q] /\ at[q] \notin {"call", "save"}
  BY <1>1, <1>2 DEF SaveRow, Alone, Holding, Advancing
<1>7. ASSUME NEW q \in Process
      PROVE  Held(q)'
  BY <1>1, <1>5, <1>6 DEF Held, Holding, Advancing
<1>8. ASSUME NEW q \in Process, NEW r \in Process
      PROVE  Alone(q, r)'
  BY <1>5, <1>6 DEF Alone
<1> QED
  BY <1>4, <1>7, <1>8 DEF CeilingInv

(* What a process reads when nothing is claimed is the stored run.         *)
LEMMA ReadCeiling ==
  ASSUME GraphInv, CeilingInv, NEW p \in Process, Read(p) \/ ReadForSupply(p)
  PROVE  CeilingInv'
<1>1. UNCHANGED <<run, spent, claims, overwritten>>
  BY DEF Read, ReadForSupply
<1>2. CASE Stop(p) /\ UNCHANGED stale
  <2>1. /\ at' = [at EXCEPT ![p] = "idle"] /\ "idle" \notin Holding
        /\ \A q \in Process \ {p} : mine'[q] = mine[q]
    BY <1>2 DEF Stop, Go, Hold, Holding, Advancing, GraphInv, RunTypeOK
  <2> QED
    BY <1>1, <1>2, <2>1, QuietStep
<1>3. ASSUME NEW label \in {"step", "supply"}, NEW m, Go(p, label), Hold(p, m),
             run # NoRun, stale' = [stale EXCEPT ![p] = FALSE],
             ~Running(run) \/ run.status # "running",
             label = "step" => m.row = run,
             label = "supply" => m.row = WithStatus(run, "pending")
      PROVE  CeilingInv'
  <2> SUFFICES ASSUME ~overwritten' PROVE CeilingInv'
    BY DEF CeilingInv
  <2>1. Counted /\ (\A q \in Process : Held(q)) /\ (\A q, r \in Process : Alone(q, r))
    BY <1>1 DEF CeilingInv
  <2>2. \A q \in Process : at[q] \notin {"call", "save"}
    <3> SUFFICES ASSUME NEW q \in Process, at[q] \in {"call", "save"} PROVE FALSE
      OBVIOUS
    <3>1. CASE at[q] = "call"
      <4>1. mine[q].row = run /\ run.status = "running" /\ Running(run)
        <5>1. mine[q].row = run
          BY <2>1, <3>1 DEF Held
        <5>2. Fits("call", mine[q])
          BY <3>1 DEF GraphInv
        <5> QED
          BY <5>1, <5>2 DEF Fits, Running
      <4> QED
        BY <1>3, <4>1
    <3>2. CASE at[q] = "save"
      BY <1>3, <2>1, <3>2 DEF Held
    <3> QED
      BY <3>1, <3>2
  <2>3. /\ at'[p] = label /\ mine'[p] = m /\ ~stale'[p]
        /\ \A q \in Process \ {p} : at'[q] = at[q] /\ mine'[q] = mine[q] /\ stale'[q] = stale[q]
    BY <1>3 DEF Go, Hold, GraphInv, RunTypeOK
  <2>4. ASSUME NEW q \in Process
        PROVE  Held(q)'
    <3>1. CASE q = p
      BY <1>1, <1>3, <2>3, <3>1 DEF Held
    <3>2. CASE q # p
      BY <1>1, <2>1, <2>3, <3>2 DEF Held
    <3> QED
      BY <3>1, <3>2
  <2>5. ASSUME NEW q \in Process, NEW r \in Process
        PROVE  Alone(q, r)'
    BY <1>3, <2>2, <2>3 DEF Alone
  <2>6. Counted'
    BY <1>1, <2>1 DEF Counted
  <2> QED
    BY <2>4, <2>5, <2>6 DEF CeilingInv
<1>4. CASE Read(p) /\ ~(Stop(p) /\ UNCHANGED stale)
  <2> DEFINE m == [id |-> 0, row |-> run, left |-> MaxAgentSteps, out |-> 0]
  <2>1. run # NoRun /\ ~Running(run) /\ Go(p, "step") /\ stale' = [stale EXCEPT ![p] = FALSE]
    BY <1>4 DEF Read, Running
  <2>2. Hold(p, m) /\ m.row = run
    BY <1>4 DEF Read
  <2> HIDE DEF m
  <2> QED
    BY <1>3, <2>1, <2>2
<1>5. CASE ReadForSupply(p)
  <2>1. PICK c \in Supplies(run) : Hold(p, [id |-> c, row |-> WithStatus(run, "pending")])
    BY <1>5 DEF ReadForSupply
  <2> DEFINE m == [id |-> c, row |-> WithStatus(run, "pending")]
  <2>2. Hold(p, m) /\ m.row = WithStatus(run, "pending")
    BY <2>1
  <2>3. /\ run # NoRun /\ run.status # "running" /\ Go(p, "supply")
        /\ stale' = [stale EXCEPT ![p] = FALSE]
    BY <1>5, <2>1 DEF ReadForSupply, Supplies
  <2> HIDE DEF m
  <2> QED
    BY <1>3, <2>2, <2>3
<1> QED
  BY <1>2, <1>4, <1>5

(* A run starts with nothing spent and nothing claimed.                    *)
LEMMA CreateCeiling ==
  ASSUME GraphInv, CeilingInv, NEW p \in Process, Create(p)
  PROVE  CeilingInv'
<1> SUFFICES ASSUME ~overwritten' PROVE CeilingInv'
  BY DEF CeilingInv
<1>1. UNCHANGED <<spent, claims, overwritten>>
  BY DEF Create
<1>2. at'[p] = "read" /\ \A q \in Process \ {p} : at'[q] = at[q] /\ mine'[q] = mine[q]
  BY DEF Create, Go, Hold, GraphInv, RunTypeOK
<1>3. CASE UNCHANGED <<run, stale>>
  <2>1. at' = [at EXCEPT ![p] = "read"] /\ "read" \notin Holding
    BY DEF Create, Go, Holding, Advancing
  <2> QED
    BY <1>1, <1>2, <1>3, <2>1, QuietStep
<1>4. CASE run = NoRun /\ ~UNCHANGED <<run, stale>>
  <2>1. spent = 0 /\ \A c \in Capability : claims[c] = 0
    BY <1>1, <1>4 DEF CeilingInv, Counted
  <2>2. \A q \in Process : at[q] \notin Holding
    BY <1>1, <1>4 DEF CeilingInv, Held
  <2>3. run'.calls = 0
    BY <1>4 DEF Create, SaveRow
  <2>4. run' # NoRun
    BY <1>4 DEF Create, SaveRow, NoRun
  <2>5. Counted'
    BY <1>1, <2>1, <2>3, <2>4, OrchestrationAssumption DEF Counted
  <2>6. \A q \in Process : at'[q] \notin Holding
    BY <1>2, <2>2 DEF Holding, Advancing
  <2>7. ASSUME NEW q \in Process
        PROVE  Held(q)'
    BY <2>6 DEF Held, Holding, Advancing
  <2>8. ASSUME NEW q \in Process, NEW r \in Process
        PROVE  Alone(q, r)'
    BY <2>6 DEF Alone, Holding, Advancing
  <2> QED
    BY <2>5, <2>7, <2>8 DEF CeilingInv
<1> QED
  BY <1>3, <1>4 DEF Create

(* A claim is made by nobody who was overtaken, of a step that was never   *)
(* claimed, and overtakes everybody else.                                  *)
LEMMA ClaimCeiling ==
  ASSUME GraphInv, CeilingInv, NEW p \in Process, Claim(p)
  PROVE  CeilingInv'
<1> DEFINE r == mine[p].row
<1>1. IsRow(r) /\ Settled(r) /\ at[p] = "step"
  BY DEF GraphInv, Fits, Advancing, Claim
<1> HIDE DEF r
<1>2. UNCHANGED <<spent, overwritten>>
  BY DEF Claim
<1>3. CASE Stop(p) /\ UNCHANGED <<run, stale, claims, outputs>>
  <2>1. /\ at' = [at EXCEPT ![p] = "idle"] /\ "idle" \notin Holding
        /\ \A q \in Process \ {p} : mine'[q] = mine[q]
    BY <1>3 DEF Stop, Go, Hold, Holding, Advancing, GraphInv, RunTypeOK
  <2> QED
    BY <1>2, <1>3, <2>1, QuietStep
<1>4. ASSUME NEW c \in Ready(r) \cap Agent, NEW t, ~stale[p],
             t = WithStatus(WithStep(r, c, [Fresh EXCEPT !.status = "running"]), "running"),
             SaveRow(p, t), claims' = [claims EXCEPT ![c] = @ + 1],
             Go(p, "call"), Hold(p, [mine[p] EXCEPT !.row = t, !.out = outputs + 1])
      PROVE  CeilingInv'
  <2> SUFFICES ASSUME ~overwritten' PROVE CeilingInv'
    BY DEF CeilingInv
  <2>1. Counted /\ (\A q \in Process : Held(q)) /\ (\A q, q2 \in Process : Alone(q, q2))
    BY <1>2 DEF CeilingInv
  <2>2. run # NoRun /\ run = r
    BY <1>1, <1>4, <2>1 DEF Held, Holding, Advancing, r
  <2>3. \A q \in Process : at[q] \notin {"call", "save"}
    BY <1>1, <1>4, <2>1 DEF Alone, Holding, Advancing
  <2> DEFINE s == [Fresh EXCEPT !.status = "running"]
             u == WithStep(r, c, s)
  <2>4. c \in Capability /\ r.steps[c].status = "pending"
    BY DEF Ready, Pending
  <2>5. s.status = "running" /\ s.status \in StepStatus
    BY DEF Fresh, StepStatus
  <2>6. t = WithStatus(u, "running")
    BY <1>4
  <2> HIDE DEF s
  <2>7. /\ IsRow(u) /\ u.steps[c] = s /\ u.calls = r.calls
        /\ \A d \in Capability \ {c} : u.steps[d] = r.steps[d]
    BY <1>1, <2>4, <2>5, WithStepRow
  <2> HIDE DEF u
  <2>8. t.steps = u.steps /\ t.calls = u.calls /\ t.status = "running"
    <3>1. u = [status |-> u.status, reason |-> u.reason, calls |-> u.calls,
               architecture |-> u.architecture, bundle |-> u.bundle,
               graph |-> u.graph, steps |-> u.steps]
      BY <2>7 DEF IsRow
    <3> QED
      BY <2>6, <3>1 DEF WithStatus
  <2>9. run' = t /\ run' # NoRun
    <3>1. IsRun(t)
      BY <1>4, ClaimInv DEF GraphInv, SaveRow
    <3> QED
      BY <1>4, <2>8 DEF SaveRow, NoRun
  <2>10. ~Running(run) /\ run.steps[c].status = "pending"
    BY <1>1, <2>2, <2>4 DEF Settled, Running
  <2>11. spent = r.calls /\ claims[c] = 0
    <3>1. spent = run.calls /\ claims[c] = 0
      BY <2>1, <2>2, <2>4, <2>10 DEF Counted
    <3> QED
      BY <2>2, <3>1
  <2>12. claims'[c] = 1 /\ \A d \in Capability \ {c} : claims'[d] = claims[d]
    BY <1>4, <2>4, <2>11 DEF GraphInv, RunTypeOK
  <2>13. Counted'
    <3>1. Running(run') /\ spent' <= MaxModelCalls
      BY <1>2, <2>1, <2>2, <2>4, <2>5, <2>7, <2>8, <2>9 DEF Counted, Running
    <3>2. ASSUME NEW d \in Capability
          PROVE  claims'[d] <= 1 /\ (run'.steps[d].status = "pending" => claims'[d] = 0)
      <4>1. CASE d = c
        BY <2>5, <2>7, <2>8, <2>9, <2>12, <4>1
      <4>2. CASE d # c
        <5>1. claims[d] <= 1 /\ (run.steps[d].status = "pending" => claims[d] = 0)
          BY <2>1, <2>2 DEF Counted
        <5>2. run'.steps[d] = run.steps[d] /\ claims'[d] = claims[d]
          BY <2>2, <2>7, <2>8, <2>9, <2>12, <4>2
        <5> QED
          BY <5>1, <5>2
      <4> QED
        BY <4>1, <4>2
    <3> QED
      BY <2>9, <3>1, <3>2 DEF Counted
  <2>14. /\ at'[p] = "call" /\ mine'[p].row = t /\ ~stale'[p]
         /\ \A q \in Process \ {p} : at'[q] = at[q] /\ stale'[q]
    <3>1. mine'[p] = [mine[p] EXCEPT !.row = t, !.out = outputs + 1]
      BY <1>4 DEF Hold, GraphInv, RunTypeOK
    <3>2. mine[p] = [id |-> mine[p].id, row |-> mine[p].row,
                     left |-> mine[p].left, out |-> mine[p].out]
      BY <1>1 DEF GraphInv, Fits, Advancing
    <3>3. mine'[p].row = t
      BY ONLY <3>1, <3>2
    <3> QED
      BY <1>4, <3>3 DEF Go, SaveRow, GraphInv, RunTypeOK
  <2>15. ASSUME NEW q \in Process
         PROVE  Held(q)'
    <3>1. CASE q = p
      BY <1>2, <2>7, <2>8, <2>9, <2>11, <2>14, <3>1 DEF Held
    <3>2. CASE q # p
      BY <2>3, <2>9, <2>14, <3>2 DEF Held
    <3> QED
      BY <3>1, <3>2
  <2>16. ASSUME NEW q \in Process, NEW q2 \in Process
         PROVE  Alone(q, q2)'
    BY <2>3, <2>14 DEF Alone
  <2> QED
    BY <2>13, <2>15, <2>16 DEF CeilingInv
<1> QED
  BY <1>3, <1>4 DEF Claim, r

(* An answer costs no more calls than the row has left, and the row that   *)
(* is stored with it counts them.                                          *)
LEMMA CallCeiling ==
  ASSUME GraphInv, CeilingInv, NEW p \in Process, Call(p)
  PROVE  CeilingInv'
<1> DEFINE r == mine[p].row
<1>1. /\ at[p] = "call" /\ IsRow(r) /\ r.status = "running"
      /\ mine[p] = [id |-> mine[p].id, row |-> mine[p].row,
                    left |-> mine[p].left, out |-> mine[p].out]
  BY DEF GraphInv, Fits, Advancing, Call
<1>2. PICK c \in Capability : r.steps[c].status = "running" /\ SettledBut(r, c)
  BY <1>1 DEF GraphInv, Fits
<1>3. Claimed(r) = c
  BY <1>2, CalledRow
<1>4. UNCHANGED <<run, stale, claims, overwritten>>
  BY DEF Call
<1> HIDE DEF r
<1>5. ASSUME Stop(p), NEW calls \in 0 .. MaxTurns, calls <= MaxModelCalls - r.calls,
             spent' = spent + calls
      PROVE  CeilingInv'
  <2> SUFFICES ASSUME ~overwritten' PROVE CeilingInv'
    BY DEF CeilingInv
  <2>1. Counted /\ (\A q \in Process : Held(q)) /\ (\A q, q2 \in Process : Alone(q, q2))
    BY <1>4 DEF CeilingInv
  <2>2. run # NoRun /\ run = r /\ spent = r.calls
    BY <1>1, <2>1 DEF Held, Holding, Advancing, r
  <2>3. \A q \in Process \ {p} : at[q] \notin {"call", "save"} /\ (at[q] \in Holding => stale[q])
    BY <1>1, <2>1 DEF Alone
  <2>4. /\ at'[p] = "idle" /\ "idle" \notin Holding
        /\ \A q \in Process \ {p} : at'[q] = at[q] /\ mine'[q] = mine[q]
    BY <1>5 DEF Stop, Go, Hold, Holding, Advancing, GraphInv, RunTypeOK
  <2>5. spent' <= MaxModelCalls
    BY <1>5, <2>2, OrchestrationAssumption DEF GraphInv, RunTypeOK
  <2>6. Running(run)' /\ run' = run
    BY <1>2, <1>4, <2>2 DEF Running
  <2>7. Counted'
    BY <1>4, <2>1, <2>2, <2>5, <2>6 DEF Counted
  <2>8. ASSUME NEW q \in Process
        PROVE  Held(q)'
    <3>1. CASE q = p
      BY <2>4, <3>1 DEF Held, Holding, Advancing
    <3>2. CASE q # p
      BY <1>4, <2>1, <2>3, <2>4, <3>2 DEF Held
    <3> QED
      BY <3>1, <3>2
  <2>9. ASSUME NEW q \in Process, NEW q2 \in Process
        PROVE  Alone(q, q2)'
    BY <1>4, <2>1, <2>4 DEF Alone
  <2> QED
    BY <2>7, <2>8, <2>9 DEF CeilingInv
<1>6. ASSUME NEW calls \in 0 .. MaxTurns, NEW status \in {"completed", "blocked", "failed"},
             calls <= MaxModelCalls - r.calls, spent' = spent + calls, Go(p, "save"),
             Hold(p, [mine[p] EXCEPT
                     !.row = [WithStep(r, c, [status |-> status, output |-> mine[p].out,
                                                basis |-> Basis(r, c)])
                              EXCEPT !.calls = @ + calls],
                     !.id = c])
      PROVE  CeilingInv'
  <2> SUFFICES ASSUME ~overwritten' PROVE CeilingInv'
    BY DEF CeilingInv
  <2>1. Counted /\ (\A q \in Process : Held(q)) /\ (\A q, q2 \in Process : Alone(q, q2))
    BY <1>4 DEF CeilingInv
  <2>2. run # NoRun /\ run = r /\ spent = r.calls /\ ~stale[p]
    BY <1>1, <2>1 DEF Held, Holding, Advancing, r
  <2>3. \A q \in Process \ {p} : at[q] \notin {"call", "save"} /\ (at[q] \in Holding => stale[q])
    BY <1>1, <2>1 DEF Alone
  <2> DEFINE s == [status |-> status, output |-> mine[p].out, basis |-> Basis(r, c)]
             u == WithStep(r, c, s)
             t == [u EXCEPT !.calls = @ + calls]
  <2>4. s.status = status /\ s.status \in StepStatus
    BY DEF StepStatus
  <2>5. Hold(p, [mine[p] EXCEPT !.row = t, !.id = c])
    BY <1>6
  <2> HIDE DEF s
  <2>6. /\ IsRow(u) /\ u.calls = r.calls /\ u.steps[c] = s
        /\ \A d \in Capability \ {c} : u.steps[d] = r.steps[d]
    BY <1>1, <2>4, WithStepRow
  <2> HIDE DEF u
  <2>7. t.steps = u.steps /\ t.calls = u.calls + calls
    <3>1. u = [status |-> u.status, reason |-> u.reason, calls |-> u.calls,
               architecture |-> u.architecture, bundle |-> u.bundle,
               graph |-> u.graph, steps |-> u.steps]
      BY <2>6 DEF IsRow
    <3> QED
      BY <3>1
  <2> HIDE DEF t
  <2>8. /\ at'[p] = "save" /\ mine'[p].row = t
        /\ \A q \in Process \ {p} : at'[q] = at[q] /\ mine'[q] = mine[q]
    <3>1. mine'[p] = [mine[p] EXCEPT !.row = t, !.id = c]
      BY <2>5 DEF Hold, GraphInv, RunTypeOK
    <3>2. mine'[p].row = t
      BY <1>1, <3>1, HeldAnswer
    <3> QED
      BY <1>6, <3>2 DEF Go, Hold, GraphInv, RunTypeOK
  <2>9. Running(run) /\ run.status = "running"
    BY <1>1, <1>2, <2>2 DEF Running
  <2>10. spent' <= MaxModelCalls /\ spent' = t.calls
    <3>1. spent \in Nat /\ calls \in Nat
      BY OrchestrationAssumption DEF GraphInv, RunTypeOK
    <3> QED
      BY <1>6, <2>2, <2>6, <2>7, <3>1, OrchestrationAssumption
  <2>11. Counted'
    <3>1. ASSUME NEW d \in Capability
          PROVE  claims[d] <= 1 /\ (run.steps[d].status = "pending" => claims[d] = 0)
      BY <2>1, <2>2 DEF Counted
    <3>2. Running(run)'
      BY <1>4, <2>9
    <3> QED
      BY <1>4, <2>2, <2>10, <3>1, <3>2 DEF Counted
  <2>12. ASSUME NEW d \in Capability, t.steps[d].status = "pending"
         PROVE  run.steps[d].status = "pending"
    BY <2>2, <2>4, <2>6, <2>7, <2>12
  <2>13. ASSUME NEW q \in Process
         PROVE  Held(q)'
    <3>1. CASE q = p
      <4>1. run' = run /\ ~stale'[q] /\ Running(run)' /\ run'.status = "running"
        BY <1>4, <2>2, <2>9, <3>1
      <4> QED
        BY <2>2, <2>8, <2>10, <2>12, <3>1, <4>1 DEF Held
    <3>2. CASE q # p
      BY <1>4, <2>1, <2>3, <2>8, <3>2 DEF Held
    <3> QED
      BY <3>1, <3>2
  <2>14. ASSUME NEW q \in Process, NEW q2 \in Process
         PROVE  Alone(q, q2)'
    BY <1>4, <2>3, <2>8 DEF Alone
  <2> QED
    BY <2>11, <2>13, <2>14 DEF CeilingInv
<1> QED
  BY <1>3, <1>5, <1>6 DEF Call, r

(* Saving the answer, by the only one who is not overtaken.                *)
LEMMA SaveCeiling ==
  ASSUME GraphInv, CeilingInv, NEW p \in Process, SaveResult(p)
  PROVE  CeilingInv'
<1> DEFINE r == mine[p].row
           c == mine[p].id
<1>1. /\ at[p] = "save" /\ IsRow(r) /\ c \in Capability /\ SettledBut(r, c)
      /\ r.steps[c].status \in {"completed", "blocked", "failed"}
      /\ mine[p] = [id |-> mine[p].id, row |-> mine[p].row,
                    left |-> mine[p].left, out |-> mine[p].out]
  BY DEF GraphInv, Fits, Advancing, SaveResult
<1>2. /\ run' = r /\ stale' = [q \in Process |-> q # p]
      /\ UNCHANGED <<spent, claims, overwritten>>
  BY DEF SaveResult, SaveRow
<1>3. /\ at'[p] = "answered" /\ mine'[p].row = r
      /\ \A q \in Process \ {p} : at'[q] = at[q]
  <2>1. mine'[p] = [mine[p] EXCEPT !.left = mine[p].left - 1]
    BY DEF SaveResult, Hold, GraphInv, RunTypeOK
  <2>2. mine'[p].row = r
    BY <1>1, <2>1
  <2> QED
    BY <2>2 DEF SaveResult, Go, GraphInv, RunTypeOK
<1> HIDE DEF r, c
<1> SUFFICES ASSUME ~overwritten' PROVE CeilingInv'
  BY DEF CeilingInv
<1>4. Counted /\ Held(p) /\ (\A q \in Process : Alone(p, q))
  BY <1>2 DEF CeilingInv
<1>5. run # NoRun /\ spent = r.calls
  BY <1>1, <1>4 DEF Held, Holding, Advancing, r
<1>6. \A d \in Capability : r.steps[d].status = "pending" => run.steps[d].status = "pending"
  BY <1>1, <1>4 DEF Held, r
<1>7. \A q \in Process \ {p} : at[q] \notin {"call", "save"} /\ stale'[q]
  BY <1>1, <1>2, <1>4 DEF Alone
<1>8. run' # NoRun
  <2>1. IsRun(run')
    BY AnswerInv DEF GraphInv
  <2>2. r.status # "none"
    BY <1>1 DEF IsRow, RunStatus
  <2> QED
    BY <1>2, <2>2 DEF NoRun
<1>9. Counted'
  <2>1. ASSUME NEW d \in Capability
        PROVE  claims[d] <= 1 /\ (run.steps[d].status = "pending" => claims[d] = 0)
    BY <1>4, <1>5 DEF Counted
  <2>2. spent <= MaxModelCalls
    BY <1>4, <1>5 DEF Counted
  <2> QED
    BY <1>2, <1>5, <1>6, <1>8, <2>1, <2>2 DEF Counted
<1>10. ASSUME NEW q \in Process
       PROVE  Held(q)'
  <2>1. CASE q = p
    BY <1>2, <1>3, <1>8, <2>1 DEF Held
  <2>2. CASE q # p
    BY <1>3, <1>7, <1>8, <2>2 DEF Held
  <2> QED
    BY <2>1, <2>2
<1>11. ASSUME NEW q \in Process, NEW q2 \in Process
       PROVE  Alone(q, q2)'
  BY <1>3, <1>7 DEF Alone
<1> QED
  BY <1>9, <1>10, <1>11 DEF CeilingInv

(* An advance that ends counts what was counted.                           *)
LEMMA FinishCeiling ==
  ASSUME GraphInv, CeilingInv, NEW p \in Process, at[p] \in {"step", "answered"},
         NEW r, IsRow(r), Coherent(r), NEW status \in RunStatus, NEW reason,
         status = "completed" => Done(r) = Capability, reason # "deadlock",
         run' = [WithStatus(r, status) EXCEPT !.reason = reason],
         stale' = [q \in Process |-> q # p], overwritten' = (overwritten \/ stale[p]), Stop(p),
         UNCHANGED <<spent, claims>>,
         ~overwritten /\ ~stale[p] =>
            /\ r.calls = run.calls
            /\ ~Running(run)
            /\ \A c \in Capability :
                 r.steps[c].status = "pending" => run.steps[c].status = "pending"
  PROVE  CeilingInv'
<1>1. IsRow(run') /\ run'.calls = r.calls /\ run'.steps = r.steps
  <2> DEFINE t == [WithStatus(r, status) EXCEPT !.reason = reason]
  <2>1. t = [WithStatus(r, status) EXCEPT !.reason = reason] /\ run' = t
    OBVIOUS
  <2> HIDE DEF t
  <2>2. IsRow(t)
    BY <2>1, FinishedRow
  <2>3. t.calls = r.calls /\ t.steps = r.steps
    BY <2>1 DEF IsRow, WithStatus
  <2> QED
    BY <2>1, <2>2, <2>3
<1>2. run' # NoRun
  BY <1>1 DEF IsRow, RunStatus, NoRun
<1>3. SaveRow(p, run')
  BY DEF SaveRow
<1> QED
  BY <1>1, <1>2, <1>3, SettledSave

LEMMA EndCeiling ==
  ASSUME GraphInv, CeilingInv, NEW p \in Process, Conclude(p) \/ TooLarge(p)
  PROVE  CeilingInv'
<1> DEFINE r == mine[p].row
<1>1. at[p] = "step"
  BY DEF Conclude, TooLarge
<1>2. IsRow(r) /\ Coherent(r) /\ Settled(r) /\ r.status # "completed"
  BY <1>1 DEF GraphInv, Fits, Advancing
<1>3. ~overwritten /\ ~stale[p] => run = r
  BY <1>1 DEF CeilingInv, Held
<1> HIDE DEF r
<1>4. UNCHANGED <<spent, claims>>
  BY DEF Conclude, TooLarge
<1>5. ~Running(r)
  BY <1>2 DEF Settled, Running
<1>6. ~overwritten /\ ~stale[p] => ~Running(run)
  BY <1>3, <1>5 DEF Running
<1>7. ASSUME NEW t, IsRow(t), Coherent(t), NEW status \in RunStatus, NEW reason,
             Finish(p, t, status, reason), t.calls = r.calls,
             status = "completed" => Done(t) = Capability, reason # "deadlock",
             \A c \in Capability : t.steps[c].status = "pending" => r.steps[c].status = "pending"
      PROVE  CeilingInv'
  BY <1>1, <1>3, <1>4, <1>6, <1>7, FinishCeiling DEF Finish, SaveRow
<1>8. CASE Conclude(p)
  <2>1. Pending(r) = {} => Done(r) = Capability
    BY <1>2 DEF Settled, Pending, Done
  <2>2. Pending(r) # {} => Ready(r) # {}
    BY <1>2, NoDeadlock
  <2>3. \/ Pending(r) = {} /\ Finish(p, r, "completed", "graph_completed")
        \/ Finish(p, r, "pending", "step_cap")
        \/ Finish(p, r, "blocked", "result_required")
    BY <1>8, <2>2 DEF Conclude, r
  <2>4. {"completed", "pending", "blocked"} \subseteq RunStatus
    BY DEF RunStatus
  <2> QED
    BY <1>2, <1>7, <2>1, <2>3, <2>4
<1>9. CASE TooLarge(p)
  <2>1. PICK c \in Ready(r) \cap Agent :
             Finish(p, WithStep(r, c, [Fresh EXCEPT !.status = "blocked"]), "blocked", "too_large")
    BY <1>9 DEF TooLarge, r
  <2> DEFINE s == [Fresh EXCEPT !.status = "blocked"]
             t == WithStep(r, c, s)
  <2>2. c \in Capability /\ r.steps[c].status = "pending" /\ r.graph[c] \subseteq Done(r)
    BY DEF Ready, Pending
  <2>3. s.status = "blocked" /\ s.status \in StepStatus /\ "blocked" \in RunStatus
    BY DEF Fresh, StepStatus, RunStatus
  <2> HIDE DEF s
  <2>4. /\ IsRow(t) /\ t.calls = r.calls
        /\ \A d \in Capability \ {c} : t.steps[d] = r.steps[d]
    BY <1>2, <2>2, <2>3, WithStepRow
  <2>5. Coherent(t)
    BY <1>2, <2>2, <2>3, WithStepCoherent
  <2>6. Finish(p, t, "blocked", "too_large")
    BY <2>1 DEF s
  <2>7. \A d \in Capability : t.steps[d].status = "pending" => r.steps[d].status = "pending"
    BY <2>2, <2>4
  <2> HIDE DEF t
  <2> QED
    BY <1>7, <2>3, <2>4, <2>5, <2>6, <2>7
<1> QED
  BY <1>8, <1>9

LEMMA AnsweredCeiling ==
  ASSUME GraphInv, CeilingInv, NEW p \in Process, Answered(p)
  PROVE  CeilingInv'
<1> DEFINE r == mine[p].row
           c == mine[p].id
<1>1. /\ at[p] = "answered" /\ IsRow(r) /\ Coherent(r)
      /\ c \in Capability /\ SettledBut(r, c)
      /\ r.steps[c].status \in {"completed", "blocked", "failed"}
  BY DEF GraphInv, Fits, Advancing, Answered
<1>2. ~overwritten /\ ~stale[p] => run = r
  BY <1>1 DEF CeilingInv, Held
<1>3. UNCHANGED <<spent, claims>>
  BY DEF Answered
<1> HIDE DEF r, c
<1>4. CASE r.steps[c].status = "completed"
  <2>1. /\ at' = [at EXCEPT ![p] = "step"] /\ mine' = mine
        /\ UNCHANGED <<run, stale, spent, claims, overwritten>>
    BY <1>4 DEF Answered, Go, r, c
  <2> SUFFICES ASSUME ~overwritten' PROVE CeilingInv'
    BY DEF CeilingInv
  <2>2. Counted /\ (\A q \in Process : Held(q)) /\ (\A q, q2 \in Process : Alone(q, q2))
    BY <2>1 DEF CeilingInv
  <2>3. /\ at'[p] = "step" /\ at[p] \in Holding
        /\ \A q \in Process \ {p} : at'[q] = at[q]
    BY <1>1, <2>1 DEF GraphInv, RunTypeOK, Holding, Advancing
  <2>4. Counted'
    BY <2>1, <2>2 DEF Counted
  <2>5. ASSUME NEW q \in Process
        PROVE  Held(q)'
    <3>1. CASE q = p
      BY <1>1, <2>1, <2>2, <2>3, <3>1 DEF Held
    <3>2. CASE q # p
      BY <2>1, <2>2, <2>3, <3>2 DEF Held
    <3> QED
      BY <3>1, <3>2
  <2>6. ASSUME NEW q \in Process, NEW q2 \in Process
        PROVE  Alone(q, q2)'
    BY <2>1, <2>2, <2>3 DEF Alone
  <2> QED
    BY <2>4, <2>5, <2>6 DEF CeilingInv
<1>5. CASE r.steps[c].status \in {"blocked", "failed"}
  <2> DEFINE status == r.steps[c].status
  <2>1. Finish(p, r, status, "agent")
    BY <1>5 DEF Answered, r, c
  <2>2. status \in RunStatus /\ status # "completed"
    BY <1>5 DEF RunStatus
  <2>3. ~Running(r)
    BY <1>1, <1>5 DEF SettledBut, Running
  <2>4. ~overwritten /\ ~stale[p] => ~Running(run)
    BY <1>2, <2>3 DEF Running
  <2> HIDE DEF status
  <2> QED
    BY <1>1, <1>2, <1>3, <2>1, <2>2, <2>4, FinishCeiling DEF Finish, SaveRow
<1> QED
  BY <1>1, <1>4, <1>5

(* A supplied result costs no call and settles a step nobody claims.       *)
LEMMA SupplyCeiling ==
  ASSUME GraphInv, CeilingInv, NEW p \in Process, Supply(p)
  PROVE  CeilingInv'
<1> DEFINE r == mine[p].row
           c == mine[p].id
           s == [status |-> "completed", output |-> outputs', basis |-> Basis(r, c)]
           t == WithStep(r, c, s)
<1>1. /\ at[p] = "supply" /\ IsRow(r) /\ Coherent(r) /\ c \in Ready(r)
  BY DEF Supply, GraphInv, Fits
<1>2. ~overwritten /\ ~stale[p] => run # NoRun /\ r = WithStatus(run, "pending")
  BY <1>1 DEF CeilingInv, Held, Holding
<1>3. SaveRow(p, run') /\ run' = t
  BY DEF Supply, SaveRow
<1>4. s.status = "completed" /\ "completed" \in StepStatus
  BY DEF StepStatus
<1>5. Stop(p) /\ overwritten' = (overwritten \/ stale[p]) /\ UNCHANGED <<spent, claims>>
  BY DEF Supply
<1> HIDE DEF r, c, s
<1>6. c \in Capability /\ r.steps[c].status = "pending"
  BY <1>1 DEF Ready, Pending
<1>7. /\ IsRow(t) /\ t.calls = r.calls /\ t.steps[c] = s
      /\ \A d \in Capability \ {c} : t.steps[d] = r.steps[d]
  BY <1>1, <1>4, <1>6, WithStepRow
<1>8. run' # NoRun
  BY <1>3, <1>7 DEF IsRow, RunStatus, NoRun
<1>9. ASSUME ~overwritten, ~stale[p]
      PROVE  r.calls = run.calls /\ r.steps = run.steps
  <2>1. IsRow(run)  /\ Coherent(run)
    BY <1>2, <1>9 DEF GraphInv, IsRun
  <2>2. "pending" \in RunStatus \ {"completed"}
    BY DEF RunStatus
  <2> QED
    BY <1>2, <1>9, <2>1, <2>2, StatusRow
<1>10. ASSUME ~overwritten, ~stale[p]
       PROVE  /\ run'.calls = run.calls
              /\ Running(run) => Running(run')
              /\ \A d \in Capability :
                   run'.steps[d].status = "pending" => run.steps[d].status = "pending"
  BY <1>3, <1>4, <1>6, <1>7, <1>9, <1>10 DEF Running
<1> HIDE DEF t
<1> QED
  BY <1>1, <1>3, <1>5, <1>8, <1>10, SettledSave

LEMMA CeilingInvStep ==
  ASSUME GraphInv, CeilingInv, [Next]_vars
  PROVE  CeilingInv'
<1> DEFINE Rest == {"architect", "propose", "specs", "specify", "materialize",
                    "start", "read", "create"} \cup QueueLabels
<1>1. ASSUME NEW p \in Process, NEW label \in Rest, Go(p, label),
             UNCHANGED mine \/ \E m : Hold(p, m),
             UNCHANGED <<run, stale, spent, claims, overwritten>>
      PROVE  CeilingInv'
  <2>1. label \notin Holding
    BY DEF Holding, Advancing, QueueLabels
  <2>2. \A q \in Process \ {p} : mine'[q] = mine[q]
    BY <1>1 DEF Hold, GraphInv, RunTypeOK
  <2> QED
    BY <1>1, <2>1, <2>2, QuietStep DEF Go
<1>2. ASSUME NEW p \in Process, Stop(p), UNCHANGED <<run, stale, spent, claims, overwritten>>
      PROVE  CeilingInv'
  BY <1>1, <1>2 DEF Stop, QueueLabels
<1>3. ASSUME NEW p \in Process, Command(p)
      PROVE  CeilingInv'
  <2>1. PICK label \in Rest : Go(p, label)
    BY <1>3 DEF Command, QueueLabels
  <2>2. UNCHANGED mine /\ UNCHANGED <<run, stale, spent, claims, overwritten>>
    BY <1>3 DEF Command, graphVars, runVars
  <2> QED
    BY <1>1, <2>1, <2>2
<1>4. ASSUME NEW p \in Process, Crash(p)
      PROVE  CeilingInv'
  BY <1>2, <1>4 DEF Crash, graphVars, runVars
<1>5. ASSUME NEW p \in Process, PlanStep(p), UNCHANGED runVars
      PROVE  CeilingInv'
  <2>1. UNCHANGED <<run, stale, spent, claims, overwritten>>
    BY <1>5 DEF runVars
  <2> HIDE DEF Rest
  <2>2. {"specs", "propose", "specify", "materialize"} \subseteq Rest
    BY DEF Rest
  <2>3. CASE ArchitectBegin(p)
    BY <1>1, <1>2, <2>1, <2>2, <2>3 DEF ArchitectBegin
  <2>4. CASE Propose(p) \/ Materialize(p)
    BY <1>2, <2>1, <2>4 DEF Propose, Materialize
  <2>5. CASE SpecsBegin(p)
    BY <1>1, <1>2, <2>1, <2>2, <2>5 DEF SpecsBegin
  <2>6. CASE Specify(p)
    BY <1>1, <1>2, <2>1, <2>2, <2>6 DEF Specify
  <2> QED
    BY <1>5, <2>3, <2>4, <2>5, <2>6 DEF PlanStep
<1>6. ASSUME NEW p \in Process, Start(p)
      PROVE  CeilingInv'
  <2>1. UNCHANGED <<run, stale, spent, claims, overwritten>>
    BY <1>6 DEF Start, runVars
  <2> HIDE DEF Rest
  <2>2. {"read", "create"} \subseteq Rest
    BY DEF Rest
  <2> QED
    BY <1>1, <1>2, <1>6, <2>1, <2>2 DEF Start
<1>7. ASSUME NEW p \in Process, Graph(p)
      PROVE  CeilingInv'
  BY <1>5, <1>6, <1>7, ReadCeiling, CreateCeiling, ClaimCeiling, CallCeiling, SaveCeiling,
     EndCeiling, AnsweredCeiling, SupplyCeiling DEF Graph, RunStep
<1>8. ASSUME NEW p \in Process, Work(p)
      PROVE  CeilingInv'
  <2>1. UNCHANGED <<run, stale, spent, claims, overwritten>>
    BY <1>8 DEF Work, graphVars, runVars
  <2> HIDE DEF Rest
  <2>2. QueueLabels \subseteq Rest
    BY DEF Rest
  <2>3. CASE EnqueueBegin(p) \/ FindProcessing(p) \/ FindFinished(p) \/ WriteJob(p) \/ FillJob(p)
    BY <1>1, <1>2, <2>1, <2>2, <2>3
       DEF EnqueueBegin, FindProcessing, FindFinished, WriteJob, FillJob, QueueLabels
  <2>4. CASE Take(p) \/ Look(p) \/ Execute(p)
    BY <1>1, <1>2, <2>1, <2>2, <2>4 DEF Take, Look, Execute, QueueLabels
  <2>5. CASE CreateReceipt(p) \/ FillReceipt(p) \/ FinishJob(p)
    BY <1>1, <1>2, <2>1, <2>2, <2>5 DEF CreateReceipt, FillReceipt, FinishJob, QueueLabels
  <2>6. CASE RecoverBegin(p) \/ Requeue(p)
    BY <1>1, <1>2, <2>1, <2>2, <2>6 DEF RecoverBegin, Requeue, QueueLabels
  <2> QED
    BY <1>8, <2>3, <2>4, <2>5, <2>6 DEF Work, QueueStep
<1>9. CASE Environment \/ UNCHANGED vars
  <2>1. UNCHANGED <<at, mine, run, stale, spent, claims, overwritten>>
    BY <1>9 DEF Environment, Change, Age, vars, processVars, graphVars, runVars
  <2> QED
    BY <2>1 DEF CeilingInv, Counted, Held, Alone
<1> QED
  BY <1>3, <1>4, <1>7, <1>8, <1>9 DEF Next

(* Whatever crashes and however many processes advance, the run makes no   *)
(* more model calls than its ceiling and claims no step twice, unless a    *)
(* save that does not compare has replaced a newer row.                    *)
THEOREM CeilingAlwaysHolds == Spec => []CeilingHolds
<1>1. Init => CeilingInv
  BY DEF Init, OrchestrationInit, CeilingInv, Counted, Held, Alone, Holding, Advancing
<1>2. GraphInv /\ CeilingInv /\ [Next]_vars => CeilingInv'
  BY CeilingInvStep
<1>3. GraphInv /\ CeilingInv => CeilingHolds
  <2> SUFFICES ASSUME GraphInv, CeilingInv, ~overwritten
               PROVE  spent <= MaxModelCalls /\ \A c \in Capability : claims[c] <= 1
    BY DEF CeilingHolds
  <2>1. CASE run = NoRun
    BY <2>1, OrchestrationAssumption DEF CeilingInv, Counted
  <2>2. CASE run # NoRun
    BY <2>2 DEF CeilingInv, Counted
  <2> QED
    BY <2>1, <2>2
<1> QED
  BY <1>1, <1>2, <1>3, GraphInvHolds, PTL DEF Spec

-----------------------------------------------------------------------------
(* Receipts.  Only the worker that created a receipt fills it, and what a  *)
(* worker finishes a job with is what the receipt says, also when the job  *)
(* was recovered under its hands and a second worker has it too.           *)
Working == {"find_processing", "find_finished", "write_job", "look", "execute", "receipt",
            "fill", "finish", "requeue"}

QueueTypeOK == place \in [Job -> SUBSET Directory] /\ receipts \in [Job -> Receipt]

Filed == \A j \in Job : place[j] \cap Outcome \subseteq {receipts[j]}

WorkerKnows(p) ==
    /\ at[p] \in Working => mine[p].id \in Job
    /\ at[p] \in {"receipt", "fill", "finish"} => mine[p].status \in Outcome
    /\ at[p] = "fill" => receipts[mine[p].id] = "empty"
    /\ at[p] = "finish" => receipts[mine[p].id] = mine[p].status

OneWriter(p, q) ==
    at[p] = "fill" /\ at[q] = "fill" /\ mine[p].id = mine[q].id => p = q

QueueInv ==
    /\ QueueTypeOK
    /\ Filed
    /\ \A p \in Process : WorkerKnows(p)
    /\ \A p, q \in Process : OneWriter(p, q)

(* A process turns to something that concerns no receipt.                  *)
LEMMA AsideStep ==
  ASSUME GraphInv, QueueInv, NEW p \in Process, NEW label, NEW m,
         at' = [at EXCEPT ![p] = label], mine' = [mine EXCEPT ![p] = m],
         label \in Working => m.id \in Job,
         label \in {"receipt", "finish"} => m.status \in Outcome,
         label = "finish" => receipts[m.id] = m.status, label # "fill",
         QueueTypeOK', Filed', UNCHANGED receipts
  PROVE  QueueInv'
<1>1. /\ at'[p] = label /\ mine'[p] = m
      /\ \A q \in Process \ {p} : at'[q] = at[q] /\ mine'[q] = mine[q]
  BY DEF GraphInv, RunTypeOK
<1>2. ASSUME NEW q \in Process
      PROVE  WorkerKnows(q)'
  <2>1. CASE q = p
    BY <1>1, <2>1 DEF WorkerKnows
  <2>2. CASE q # p
    BY <1>1, <2>2 DEF QueueInv, WorkerKnows
  <2> QED
    BY <2>1, <2>2
<1>3. ASSUME NEW q \in Process, NEW r \in Process
      PROVE  OneWriter(q, r)'
  BY <1>1 DEF QueueInv, OneWriter
<1> QED
  BY <1>2, <1>3 DEF QueueInv

LEMMA QueueStepKeeps ==
  ASSUME GraphInv, QueueInv, aged \subseteq Job, NEW p \in Process, QueueStep(p)
  PROVE  /\ QueueInv'
         /\ \A j \in Job : receipts[j] \in Outcome => receipts'[j] = receipts[j]
<1> DEFINE Stays == \A j \in Job : receipts[j] \in Outcome => receipts'[j] = receipts[j]
<1> DEFINE k == mine[p].id
<1>1. mine' = mine => mine' = [mine EXCEPT ![p] = mine[p]]
  BY DEF GraphInv, RunTypeOK
<1>2. QueueTypeOK /\ Filed /\ WorkerKnows(p)
  BY DEF QueueInv
<1>3. ASSUME UNCHANGED <<place, receipts>>
      PROVE  QueueTypeOK' /\ Filed' /\ Stays
  BY <1>2, <1>3 DEF QueueTypeOK, Filed
<1>4. ASSUME NEW j \in Job, NEW from \in Directory, NEW to \in {"pending", "processing"},
             Move(j, from, to), UNCHANGED receipts
      PROVE  QueueTypeOK' /\ Filed' /\ Stays
  BY <1>2, <1>4 DEF QueueTypeOK, Filed, Move, Directory, Outcome
<1>5. ASSUME UNCHANGED receipts, QueueTypeOK', Filed', Stop(p)
      PROVE  QueueInv'
  <2>1. Nothing.id = 0 /\ "idle" \notin Working \cup {"receipt", "fill", "finish"}
    BY DEF Nothing, Working
  <2> QED
    BY <1>5, <2>1, AsideStep DEF Stop, Go, Hold
<1>6. CASE EnqueueBegin(p) \/ FindProcessing(p) \/ FindFinished(p)
  <2>1. UNCHANGED <<place, receipts>>
    BY <1>6 DEF EnqueueBegin, FindProcessing, FindFinished, queueVars
  <2>2. CASE Stop(p)
    BY <1>3, <1>5, <2>1, <2>2
  <2>3. ASSUME NEW j \in Job, Go(p, "find_processing"), Hold(p, [id |-> j])
        PROVE  QueueInv'
    BY <1>3, <2>1, <2>3, AsideStep DEF Go, Hold
  <2>4. CASE /\ FindProcessing(p) \/ FindFinished(p)
             /\ Go(p, "find_finished") \/ Go(p, "write_job")
             /\ UNCHANGED mine
    <3>1. k \in Job
      BY <1>2, <2>4 DEF WorkerKnows, Working, FindProcessing, FindFinished
    <3> QED
      BY <1>1, <1>3, <2>1, <2>4, <3>1, AsideStep DEF Go
  <2> QED
    BY <1>3, <1>6, <2>1, <2>2, <2>3, <2>4 DEF EnqueueBegin, FindProcessing, FindFinished
<1>7. CASE WriteJob(p)
  <2>1. k \in Job
    BY <1>2, <1>7 DEF WorkerKnows, Working, WriteJob
  <2>2. QueueTypeOK' /\ Filed' /\ Stays /\ UNCHANGED receipts
    BY <1>2, <1>7, <2>1 DEF WriteJob, QueueTypeOK, Filed, Directory, Outcome
  <2>3. CASE Go(p, "fill_job") /\ UNCHANGED mine
    BY <1>1, <2>2, <2>3, AsideStep DEF Go, Working
  <2> QED
    BY <1>5, <1>7, <2>2, <2>3 DEF WriteJob
<1>15. CASE FillJob(p)
  <2>1. UNCHANGED <<place, receipts>> /\ Stop(p)
    BY <1>15 DEF FillJob
  <2> QED
    BY <1>3, <1>5, <2>1
<1>8. CASE Take(p)
  <2>1. ASSUME NEW j \in Job, Move(j, "pending", "processing"), Go(p, "look"), Hold(p, [id |-> j])
        PROVE  QueueInv' /\ Stays
    <3>1. QueueTypeOK' /\ Filed' /\ Stays /\ UNCHANGED receipts
      BY <1>4, <1>8, <2>1 DEF Take, Directory
    <3> QED
      BY <2>1, <3>1, AsideStep DEF Go, Hold
  <2>2. CASE Stop(p) /\ UNCHANGED place
    BY <1>3, <1>5, <1>8, <2>2 DEF Take
  <2> QED
    BY <1>8, <2>1, <2>2 DEF Take
<1>9. CASE Look(p)
  <2>1. UNCHANGED <<place, receipts>> /\ k \in Job
    BY <1>2, <1>9 DEF Look, WorkerKnows, Working, queueVars
  <2>2. CASE Stop(p)
    BY <1>3, <1>5, <2>1, <2>2
  <2>3. CASE Go(p, "execute") /\ UNCHANGED mine
    BY <1>1, <1>3, <2>1, <2>3, AsideStep DEF Go
  <2>4. CASE /\ receipts[k] \notin {"empty", "none"}
             /\ Go(p, "finish") /\ Hold(p, [id |-> k, status |-> receipts[k]])
    <3>1. receipts[k] \in Outcome
      BY <1>2, <2>1, <2>4 DEF QueueTypeOK, Receipt
    <3> QED
      BY <1>3, <2>1, <2>4, <3>1, AsideStep DEF Go, Hold
  <2> QED
    BY <1>3, <1>9, <2>1, <2>2, <2>3, <2>4 DEF Look
<1>10. CASE Execute(p)
  <2>1. UNCHANGED <<place, receipts>> /\ k \in Job
    BY <1>2, <1>10 DEF Execute, WorkerKnows, Working, queueVars
  <2>2. CASE Stop(p)
    BY <1>3, <1>5, <2>1, <2>2
  <2>3. ASSUME NEW status \in Outcome, Go(p, "receipt"), Hold(p, [id |-> k, status |-> status])
        PROVE  QueueInv'
    BY <1>3, <2>1, <2>3, AsideStep DEF Go, Hold
  <2> QED
    BY <1>3, <1>10, <2>1, <2>2, <2>3 DEF Execute
<1>11. CASE RecoverBegin(p) \/ Requeue(p)
  <2>1. CASE RecoverBegin(p) /\ Stop(p)
    BY <1>3, <1>5, <2>1 DEF RecoverBegin, queueVars
  <2>2. ASSUME RecoverBegin(p), NEW j \in aged, "processing" \in place[j], receipts[j] = "none",
               Go(p, "requeue"), Hold(p, [id |-> j])
        PROVE  QueueInv' /\ Stays
    <3>1. j \in Job
      OBVIOUS
    <3> QED
      BY <1>3, <2>2, <3>1, AsideStep DEF RecoverBegin, queueVars, Go, Hold
  <2>3. CASE Requeue(p)
    <3>1. k \in Job
      BY <1>2, <2>3 DEF Requeue, WorkerKnows, Working
    <3>2. QueueTypeOK' /\ Filed' /\ Stays /\ UNCHANGED receipts
      BY <1>3, <1>4, <2>3, <3>1 DEF Requeue, TryMove, Directory
    <3>3. Go(p, "recover") /\ Hold(p, Nothing) /\ "recover" \notin Working
      BY <2>3 DEF Requeue, Working
    <3> QED
      BY <3>2, <3>3, AsideStep DEF Go, Hold, Working
  <2> QED
    BY <1>11, <2>1, <2>2, <2>3 DEF RecoverBegin
<1>12. CASE CreateReceipt(p)
  <2>1. k \in Job /\ mine[p].status \in Outcome /\ UNCHANGED place
    BY <1>2, <1>12 DEF CreateReceipt, WorkerKnows, Working
  <2>2. CASE Stop(p) /\ UNCHANGED receipts
    BY <1>3, <1>5, <2>1, <2>2
  <2>3. CASE /\ receipts[k] = "none" /\ receipts' = [receipts EXCEPT ![k] = "empty"]
             /\ Go(p, "fill") /\ UNCHANGED mine
    <3>1. QueueTypeOK' /\ Filed' /\ Stays
      BY <1>2, <2>1, <2>3 DEF QueueTypeOK, Filed, Receipt, Outcome
    <3>2. /\ at'[p] = "fill" /\ mine' = mine /\ receipts'[k] = "empty"
          /\ \A q \in Process \ {p} : at'[q] = at[q]
          /\ \A j \in Job \ {k} : receipts'[j] = receipts[j]
      BY <1>2, <2>1, <2>3 DEF Go, GraphInv, RunTypeOK, QueueTypeOK
    <3>3. ASSUME NEW q \in Process
          PROVE  WorkerKnows(q)'
      <4>1. CASE q = p
        BY <2>1, <3>2, <4>1 DEF WorkerKnows
      <4>2. CASE q # p
        <5>1. WorkerKnows(q)
          BY DEF QueueInv
        <5> QED
          BY <2>3, <3>2, <4>2, <5>1 DEF WorkerKnows, Working, Outcome
      <4> QED
        BY <4>1, <4>2
    <3>4. \A q \in Process : at[q] = "fill" => mine[q].id # k
      BY <2>3 DEF QueueInv, WorkerKnows
    <3>5. ASSUME NEW q \in Process, NEW r \in Process
          PROVE  OneWriter(q, r)'
      BY <3>2, <3>4 DEF QueueInv, OneWriter
    <3> QED
      BY <3>1, <3>3, <3>5 DEF QueueInv
  <2> QED
    BY <1>12, <2>2, <2>3 DEF CreateReceipt
<1>13. CASE FillReceipt(p)
  <2>1. k \in Job /\ mine[p].status \in Outcome /\ receipts[k] = "empty"
    BY <1>2, <1>13 DEF FillReceipt, WorkerKnows, Working
  <2>2. receipts' = [receipts EXCEPT ![k] = mine[p].status] /\ UNCHANGED <<mine, place>>
    BY <1>13 DEF FillReceipt
  <2>3. QueueTypeOK' /\ Filed' /\ Stays
    BY <1>2, <2>1, <2>2 DEF QueueTypeOK, Filed, Receipt, Outcome
  <2>4. /\ at[p] = "fill" /\ at'[p] = "finish" /\ receipts'[k] = mine[p].status
        /\ \A q \in Process \ {p} : at'[q] = at[q]
        /\ \A j \in Job \ {k} : receipts'[j] = receipts[j]
    BY <1>2, <1>13, <2>1, <2>2 DEF FillReceipt, Go, GraphInv, RunTypeOK, QueueTypeOK
  <2>5. ASSUME NEW q \in Process
        PROVE  WorkerKnows(q)'
    <3>1. CASE q = p
      BY <2>1, <2>2, <2>4, <3>1 DEF WorkerKnows
    <3>2. CASE q # p
      <4>1. WorkerKnows(q) /\ OneWriter(q, p)
        BY DEF QueueInv
      <4> QED
        BY <2>1, <2>2, <2>4, <3>2, <4>1 DEF WorkerKnows, OneWriter, Working, Outcome
    <3> QED
      BY <3>1, <3>2
  <2>6. ASSUME NEW q \in Process, NEW r \in Process
        PROVE  OneWriter(q, r)'
    BY <2>2, <2>4 DEF QueueInv, OneWriter
  <2> QED
    BY <2>3, <2>5, <2>6 DEF QueueInv
<1>14. CASE FinishJob(p)
  <2>1. k \in Job /\ mine[p].status \in Outcome /\ receipts[k] = mine[p].status
    BY <1>2, <1>14 DEF FinishJob, WorkerKnows, Working
  <2>2. UNCHANGED receipts /\ (UNCHANGED place \/ Move(k, "processing", mine[p].status))
    BY <1>14 DEF FinishJob, TryMove
  <2>3. QueueTypeOK' /\ Filed' /\ Stays
    BY <1>2, <1>3, <2>1, <2>2 DEF QueueTypeOK, Filed, Move, Directory, Outcome
  <2> QED
    BY <1>5, <1>14, <2>2, <2>3 DEF FinishJob
<1> QED
  BY <1>6, <1>7, <1>8, <1>9, <1>10, <1>11, <1>12, <1>13, <1>14, <1>15 DEF QueueStep

(* Planning and advancing concern no job.                                  *)
LEMMA GraphStepKeeps ==
  ASSUME GraphInv, QueueInv, NEW p \in Process, Graph(p) \/ Command(p) \/ Crash(p)
  PROVE  QueueInv'
<1>1. UNCHANGED <<place, receipts>>
  BY DEF Graph, Command, Crash, queueVars
<1>2. QueueTypeOK' /\ Filed'
  BY <1>1 DEF QueueInv, QueueTypeOK, Filed
<1> DEFINE Rest == {"idle", "architect", "propose", "specs", "specify", "materialize",
                    "start", "read", "create", "step", "call", "save", "answered", "supply",
                    "work", "enqueue", "recover"}
<1>3. ASSUME NEW label \in Rest, NEW m, Go(p, label), Hold(p, m)
      PROVE  QueueInv'
  <2>1. label \notin Working \cup {"receipt", "fill", "finish"}
    BY DEF Working
  <2> QED
    BY <1>1, <1>2, <1>3, <2>1, AsideStep DEF Go, Hold
<1>4. ASSUME NEW label \in Rest, Go(p, label), UNCHANGED mine
      PROVE  QueueInv'
  <2>1. Hold(p, mine[p])
    BY <1>4 DEF Hold, GraphInv, RunTypeOK
  <2> QED
    BY <1>3, <1>4, <2>1
<1>5. Stop(p) => QueueInv'
  BY <1>3 DEF Stop
<1>6. {"architect", "specs", "propose", "specify", "materialize", "start", "read", "create",
       "step", "call", "save", "answered", "supply", "work", "enqueue", "recover"} \subseteq Rest
  OBVIOUS
<1> HIDE DEF Rest
<1>7. CASE Command(p) \/ Crash(p)
  BY <1>4, <1>5, <1>6, <1>7 DEF Command, Crash
<1>8. CASE PlanStep(p)
  <2>1. CASE ArchitectBegin(p)
    BY <1>3, <1>4, <1>5, <1>6, <2>1 DEF ArchitectBegin
  <2>2. CASE Propose(p) \/ Materialize(p)
    BY <1>5, <2>2 DEF Propose, Materialize
  <2>3. CASE SpecsBegin(p)
    BY <1>3, <1>5, <1>6, <2>3 DEF SpecsBegin
  <2>4. CASE Specify(p)
    BY <1>4, <1>5, <1>6, <2>4 DEF Specify
  <2> QED
    BY <1>8, <2>1, <2>2, <2>3, <2>4 DEF PlanStep
<1>9. CASE RunStep(p) \/ ReadForSupply(p)
  <2>1. CASE Start(p) \/ Create(p) \/ Read(p)
    BY <1>3, <1>4, <1>5, <1>6, <2>1 DEF Start, Create, Read
  <2>2. CASE Conclude(p) \/ TooLarge(p) \/ Supply(p)
    BY <1>5, <2>2 DEF Conclude, TooLarge, Supply, Finish
  <2>3. CASE Claim(p)
    BY <1>3, <1>5, <1>6, <2>3 DEF Claim
  <2>4. CASE Call(p)
    BY <1>3, <1>5, <1>6, <2>4 DEF Call
  <2>5. CASE SaveResult(p) \/ Answered(p)
    BY <1>3, <1>4, <1>5, <1>6, <2>5 DEF SaveResult, Answered, Finish
  <2>6. CASE ReadForSupply(p)
    BY <1>3, <1>6, <2>6 DEF ReadForSupply
  <2> QED
    BY <1>9, <2>1, <2>2, <2>3, <2>4, <2>5, <2>6 DEF RunStep
<1> QED
  BY <1>7, <1>8, <1>9 DEF Graph

LEMMA AgedStep ==
  ASSUME aged \subseteq Job, [Next]_vars
  PROVE  aged' \subseteq Job
<1>1. ASSUME NEW p \in Process, Command(p) \/ Graph(p) \/ Crash(p)
      PROVE  aged' \subseteq Job
  BY <1>1 DEF Command, Graph, Crash, queueVars
<1>2. ASSUME NEW p \in Process, Work(p)
      PROVE  aged' \subseteq Job
  <2>1. QueueStep(p)
    BY <1>2 DEF Work
  <2> QED
    BY <2>1 DEF QueueStep, EnqueueBegin, FindProcessing, FindFinished, WriteJob, FillJob, Take,
          Look, Execute, CreateReceipt, FillReceipt, FinishJob, RecoverBegin, Requeue, queueVars
<1>3. CASE Environment \/ UNCHANGED vars
  BY <1>3 DEF Environment, Change, Age, vars, queueVars
<1> QED
  BY <1>1, <1>2, <1>3 DEF Next

LEMMA QueueInvStep ==
  ASSUME GraphInv, QueueInv, aged \subseteq Job, [Next]_vars
  PROVE  /\ QueueInv'
         /\ \A j \in Job : receipts[j] \in Outcome => receipts'[j] = receipts[j]
<1>1. ASSUME NEW p \in Process, Command(p) \/ Graph(p) \/ Crash(p)
      PROVE  QueueInv' /\ UNCHANGED receipts
  BY <1>1, GraphStepKeeps DEF Command, Graph, Crash, queueVars
<1>2. ASSUME NEW p \in Process, Work(p)
      PROVE  /\ QueueInv'
             /\ \A j \in Job : receipts[j] \in Outcome => receipts'[j] = receipts[j]
  BY <1>2, QueueStepKeeps DEF Work
<1>3. CASE Environment \/ UNCHANGED vars
  <2>1. UNCHANGED <<at, mine, place, receipts>>
    BY <1>3 DEF Environment, Change, Age, vars, processVars, queueVars
  <2> QED
    BY <2>1 DEF QueueInv, QueueTypeOK, Filed, WorkerKnows, OneWriter
<1> QED
  BY <1>1, <1>2, <1>3 DEF Next

(* A receipt that was written stands, and no finished job lies anywhere    *)
(* but under its receipt's status, although a job that was recovered by    *)
(* its age may be in the hands of two workers.                             *)
THEOREM ReceiptAlwaysStands == Spec => ReceiptStands
<1> DEFINE Stays == \A j \in Job : receipts[j] \in Outcome => receipts'[j] = receipts[j]
<1>1. Init => GraphInv /\ QueueInv /\ aged \subseteq Job
  <2>1. Init => QueueInv /\ aged \subseteq Job
    BY DEF Init, QueueInit, QueueInv, QueueTypeOK, Filed, WorkerKnows, OneWriter, Working, Receipt
  <2>2. Init => GraphInv
    BY GraphInvInit
  <2> QED
    BY <2>1, <2>2
<1>2. GraphInv /\ QueueInv /\ aged \subseteq Job /\ [Next]_vars
        => GraphInv' /\ QueueInv' /\ (aged \subseteq Job)' /\ Stays
  BY GraphInvStep, AgedStep, QueueInvStep
<1>3. QueueInv => \A j \in Job : place[j] \cap Outcome \subseteq {receipts[j]}
  BY DEF QueueInv, Filed
<1>4. Stays => [Stays]_receipts
  OBVIOUS
<1> HIDE DEF Stays
<1>5. Spec => [](\A j \in Job : place[j] \cap Outcome \subseteq {receipts[j]})
  BY <1>1, <1>2, <1>3, PTL DEF Spec
<1>6. Spec => [][Stays]_receipts
  BY <1>1, <1>2, <1>4, PTL DEF Spec
<1> QED
  BY <1>5, <1>6 DEF ReceiptStands, Stays
=============================================================================
