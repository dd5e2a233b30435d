------------------------- MODULE ReallocationProofs -------------------------
(***************************************************************************)
(* However the wakes of any number of processes interleave, crash and race *)
(* with operators, what they do to the treasury is a behaviour of          *)
(* Treasury.  Its theorems therefore hold of the rollovers, too.           *)
(***************************************************************************)
EXTENDS Reallocation, TreasuryProofs

(* What a rollover proposes is a plan that the allocator can make.         *)
LEMMA ProposalExists ==
  ASSUME ReallocTypeOK, NEW p \in Plan, content[p] \in PlanContent, NEW cash \in Nat, NEW calls \in Nat
  PROVE  Proposal(inputs, Left(content[p].cash, cash), Left(content[p].calls, calls)) \in PlanContent
<1> DEFINE budget == content[p]
           leftCash == Left(budget.cash, cash)
           leftCalls == Left(budget.calls, calls)
<1>1. budget.cash \in Nat /\ budget.calls \in Nat
  BY PlanAssumption
<1>2. leftCash \in 0..budget.cash /\ leftCalls \in 0..budget.calls
  BY <1>1 DEF Left
<1>3. \E d \in PlanContent : d.inputs = inputs /\ d.cash = leftCash /\ d.calls = leftCalls
  BY <1>2, RolloverAssumption DEF ReallocTypeOK
<1> HIDE DEF leftCash, leftCalls
<1>4. Proposal(inputs, leftCash, leftCalls) \in PlanContent
  BY <1>3 DEF Proposal
<1> QED
  BY <1>4 DEF leftCash, leftCalls

(* One step of a tick is one step of the treasury, or leaves it alone.     *)
LEMMA TickStepRefines ==
  ASSUME ReallocTypeOK, NEW c \in Client, TickStep(c)
  PROVE  [Next]_vars
<1>1. CASE StorePlan(c)
  BY <1>1 DEF StorePlan, ReallocTypeOK, Next, PlanStep
<1>2. CASE CheckProposed(c)
  BY <1>2 DEF CheckProposed, ReallocTypeOK, Stored, Next, ClientStep
<1>3. CASE Rollover(c)
  BY <1>3 DEF Rollover, Next, ClientStep
<1>4. CASE Blocked(c)
  BY <1>4 DEF Blocked, Next, ClientStep
<1>5. CASE Discard(c)
  BY <1>5 DEF Discard, ReallocTypeOK, Stored, Next, PlanStep
<1>6. CASE Begin(c) \/ ReadEnvelopes(c) \/ ReadCommitments(c) \/ Propose(c)
           \/ StoreIgnored(c) \/ Conflict(c) \/ EndTick(c)
  BY <1>6 DEF Begin, ReadEnvelopes, ReadCommitments, Propose, StoreIgnored, Conflict, EndTick
<1> QED
  BY <1>1, <1>2, <1>3, <1>4, <1>5, <1>6 DEF TickStep

(* The same for every step of the system: charges, operators, crashes.     *)
LEMMA StepRefines == ReallocTypeOK /\ [ReallocNext]_allVars => [Next]_vars
<1> SUFFICES ASSUME ReallocTypeOK, [ReallocNext]_allVars PROVE [Next]_vars
  OBVIOUS
<1>1. ASSUME NEW c \in Client, TickStep(c) PROVE [Next]_vars
  BY <1>1, TickStepRefines
<1>2. ASSUME NEW c \in Client, Crash(c) PROVE [Next]_vars
  BY <1>2 DEF Crash, Next, ClientStep
<1>3. CASE Charge
  BY <1>3 DEF Charge, Next
<1>4. CASE OperatorPlan
  BY <1>4, RolloverAssumption DEF OperatorPlan, Next, PlanStep
<1>5. CASE InputsChange \/ UNCHANGED allVars
  BY <1>5 DEF InputsChange, allVars, vars
<1> QED
  BY <1>1, <1>2, <1>3, <1>4, <1>5 DEF ReallocNext

-----------------------------------------------------------------------------
(* A plan that was stored once keeps its number, also when it is deleted.  *)
LEMMA StoredStays ==
  ASSUME TypeOK, [Next]_vars, NEW p \in Plan, planState[p] # "unborn"
  PROVE  planState'[p] # "unborn"
<1>1. ASSUME NEW q \in Plan, NEW new \in PlanContent, SavePlan(q, new) PROVE planState'[p] # "unborn"
  BY <1>1 DEF SavePlan, TypeOK
<1>2. ASSUME NEW q \in Plan, DiscardPlan(q) PROVE planState'[p] # "unborn"
  BY <1>2 DEF DiscardPlan, TypeOK
<1>3. CASE ClientStep
  BY <1>3 DEF ClientStep, CheckLatest, Activate, AbortActivate, ReadForRevoke, WriteRevoked, GiveUp, plans
<1>4. CASE LedgerStep
  <2>1. \A e \in Envelope, k \in Key : \A cash, calls : Consume(e, k, cash, calls) => UNCHANGED plans
    BY DEF Consume
  <2>2. \A e \in Envelope, k \in Key : \A amount :
           Reserve(e, k, amount) \/ Settle(e, k, amount) \/ Release(e, k) => UNCHANGED plans
    BY DEF Reserve, Settle, Release
  <2>3. UNCHANGED plans
    BY <1>4, <2>1, <2>2 DEF LedgerStep, ConsumeCall, ConsumeCash
  <2> QED
    BY <2>3 DEF plans
<1> QED
  BY <1>1, <1>2, <1>3, <1>4 DEF Next, PlanStep, vars

(* What a process may know when it is at a stage of its tick.              *)
Knows(t, check) ==
    /\ t.at = "store" => t.offer \in PlanContent
    /\ t.at = "activating" <=> check # NoPlan
    /\ t.at \in {"idle", "working"} \/ Stored(t.previous)
    /\ t.at \in {"activate", "activating", "discard"} => Stored(t.proposed)

(* One process moves on, the others stay where they are.                   *)
LEMMA OneTaskMoves ==
  ASSUME ReallocTypeOK, TypeOK', NEW c \in Client, NEW t \in Task,
         task' = [task EXCEPT ![c] = t],
         Knows(t, checked[c])',
         \A d \in Client \ {c} : checked'[d] = checked[d],
         \A p \in Plan : planState[p] # "unborn" => planState'[p] # "unborn",
         inputs' \in Inputs, leased' \in BOOLEAN, granted' \in Nat, crashes' \in Nat
  PROVE  ReallocTypeOK'
<1>1. task' \in [Client -> Task] /\ task'[c] = t /\ \A d \in Client \ {c} : task'[d] = task[d]
  BY DEF ReallocTypeOK
<1>2. ASSUME NEW d \in Client PROVE Knows(task[d], checked[d])'
  <2>1. CASE d = c
    BY <1>1, <2>1 DEF Knows, Stored
  <2>2. CASE d # c
    BY <1>1, <2>2 DEF ReallocTypeOK, Knows, Stored, At
  <2> QED
    BY <2>1, <2>2
<1> QED
  BY <1>1, <1>2 DEF ReallocTypeOK, Knows, Stored, At

(* The same for steps of the tick that touch no table.                     *)
LEMMA QuietMove ==
  ASSUME ReallocTypeOK, NEW c \in Client, NEW t \in Task, Goto(c, t),
         OnlyTask, UNCHANGED vars, Knows(t, checked[c])
  PROVE  ReallocTypeOK'
<1>1. TypeOK'
  BY NextType DEF ReallocTypeOK
<1> QED
  BY <1>1, OneTaskMoves DEF ReallocTypeOK, Goto, OnlyTask, vars, Knows, Stored

(* What reconcile sums up over the envelopes of a plan is a natural number. *)
LEMMA UsedTyped ==
  ASSUME TypeOK, NEW p
  PROVE  CashUsed(p) \in Nat /\ CallsUsed(p) \in Nat
<1> DEFINE cash == [e \in Opened(p) |-> envelope[e].cashUsed]
           calls == [e \in Opened(p) |-> envelope[e].callsUsed]
<1>1. IsFiniteSet(Opened(p))
  <2>1. IsFiniteSet(Plan) /\ IsFiniteSet(Venture)
    BY FS_Interval, FiniteAssumption DEF Plan
  <2>2. IsFiniteSet(Envelope)
    BY <2>1, FS_Product DEF Envelope
  <2>3. Opened(p) \in SUBSET Envelope
    BY DEF Opened
  <2> QED
    BY <2>2, <2>3, FS_Subset
<1>2. \A e \in Opened(p) : envelope[e].cashUsed \in Nat /\ envelope[e].callsUsed \in Nat
  BY DEF Opened, TypeOK, Row
<1>3. cash \in [Opened(p) -> Nat] /\ calls \in [Opened(p) -> Nat]
  BY <1>2
<1> HIDE DEF cash, calls
<1>4. Total(cash) \in Nat /\ Total(calls) \in Nat
  BY <1>1, <1>3, TotalType
<1> QED
  BY <1>4 DEF CashUsed, CallsUsed, cash, calls

(* A process between two wakes knows nothing.                              *)
LEMMA IdleTasks ==
  /\ NoTask \in Task /\ [NoTask EXCEPT !.at = "working"] \in Task
  /\ Knows(NoTask, NoPlan) /\ Knows([NoTask EXCEPT !.at = "working"], NoPlan)
BY DEF NoTask, Task, Stage, NoPlan, Knows

(* No step of a tick leaves the process without what its next step needs.  *)
LEMMA TickStepType ==
  ASSUME ReallocTypeOK, NEW c \in Client, TickStep(c)
  PROVE  ReallocTypeOK'
<1> DEFINE t == task[c]
<1>1. /\ TypeOK /\ TypeOK' /\ t \in Task /\ Knows(t, checked[c])
      /\ \A p \in Plan : planState[p] # "unborn" => planState'[p] # "unborn"
  BY TickStepRefines, NextType, StoredStays DEF ReallocTypeOK, Knows, At
<1>2. /\ t.at \in Stage /\ t.previous \in Plan \cup {NoPlan} /\ t.proposed \in Plan \cup {NoPlan}
      /\ t.cash \in Nat /\ t.calls \in Nat /\ t.offer \in PlanContent \cup {None}
  BY <1>1 DEF Task
<1>3. ASSUME t.at # "activating", Goto(c, NoTask) \/ Work(c), OnlyTask, UNCHANGED vars
      PROVE  ReallocTypeOK'
  <2>1. checked[c] = NoPlan
    BY <1>1, <1>3 DEF Knows
  <2> QED
    BY <1>3, <2>1, IdleTasks, QuietMove DEF Work
<1>4. ASSUME NEW u \in Task, u.at \notin {"idle", "working", "store", "activating"},
             Stored(u.previous), u.at \in {"activate", "discard"} => Stored(u.proposed),
             t.at # "activating", Goto(c, u), OnlyTask, UNCHANGED vars
      PROVE  ReallocTypeOK'
  <2>1. Knows(u, checked[c])
    BY <1>1, <1>4 DEF Knows
  <2> QED
    BY <1>4, <2>1, QuietMove
<1>5. CASE Begin(c)
  <2>1. t.at = "idle" /\ OnlyTask /\ UNCHANGED vars
    BY <1>5 DEF Begin, At
  <2>2. ASSUME NEW p \in Plan, IsLatest(p), Goto(c, [NoTask EXCEPT !.at = "envelopes", !.previous = p])
        PROVE  ReallocTypeOK'
    <3> DEFINE u == [NoTask EXCEPT !.at = "envelopes", !.previous = p]
    <3>1. u \in Task /\ u.at = "envelopes" /\ u.previous = p
      BY DEF NoTask, Task, Stage, NoPlan
    <3>2. Stored(p)
      BY <2>2 DEF IsLatest, Stored
    <3> HIDE DEF u
    <3> QED
      BY <1>4, <2>1, <2>2, <3>1, <3>2 DEF u
  <2> QED
    BY <1>3, <1>5, <2>1, <2>2 DEF Begin
<1>6. CASE ReadEnvelopes(c)
  <2>1. t.at = "envelopes" /\ OnlyTask /\ UNCHANGED vars /\ Stored(t.previous)
    BY <1>1, <1>6 DEF ReadEnvelopes, At, Knows
  <2>2. ASSUME Goto(c, [t EXCEPT !.at = "activate", !.proposed = t.previous])
        PROVE  ReallocTypeOK'
    <3> DEFINE u == [t EXCEPT !.at = "activate", !.proposed = t.previous]
    <3>1. u \in Task /\ u.at = "activate" /\ u.previous = t.previous /\ u.proposed = t.previous
      BY <1>1, <2>1 DEF Task, Stage
    <3> HIDE DEF u
    <3> QED
      BY <1>4, <2>1, <2>2, <3>1 DEF u
  <2>3. ASSUME NEW cash, NEW calls, cash = CashUsed(t.previous), calls = CallsUsed(t.previous),
               Goto(c, [t EXCEPT !.at = "commitments", !.cash = cash, !.calls = calls])
        PROVE  ReallocTypeOK'
    <3> DEFINE u == [t EXCEPT !.at = "commitments", !.cash = cash, !.calls = calls]
    <3>1. cash \in Nat /\ calls \in Nat
      BY <1>1, <2>3, UsedTyped
    <3>2. u \in Task /\ u.at = "commitments" /\ u.previous = t.previous
      BY <1>1, <3>1 DEF Task, Stage
    <3> HIDE DEF u
    <3> QED
      BY <1>4, <2>1, <2>3, <3>2 DEF u
  <2> QED
    BY <1>3, <1>6, <2>1, <2>2, <2>3 DEF ReadEnvelopes
<1>7. CASE ReadCommitments(c)
  <2>1. t.at = "commitments" /\ OnlyTask /\ UNCHANGED vars /\ Stored(t.previous)
    BY <1>1, <1>7 DEF ReadCommitments, At, Knows
  <2>2. ASSUME Goto(c, [t EXCEPT !.at = "propose"]) PROVE ReallocTypeOK'
    <3> DEFINE u == [t EXCEPT !.at = "propose"]
    <3>1. u \in Task /\ u.at = "propose" /\ u.previous = t.previous
      BY <1>1 DEF Task, Stage
    <3> HIDE DEF u
    <3> QED
      BY <1>4, <2>1, <2>2, <3>1 DEF u
  <2> QED
    BY <1>3, <1>7, <2>1, <2>2 DEF ReadCommitments
<1>8. CASE Propose(c)
  <2> DEFINE offer == Proposal(inputs, Left(content[t.previous].cash, t.cash),
                                       Left(content[t.previous].calls, t.calls))
  <2>1. t.at = "propose" /\ OnlyTask /\ UNCHANGED vars /\ Stored(t.previous)
    BY <1>1, <1>8 DEF Propose, At, Knows
  <2>2. offer \in PlanContent
    BY <1>1, <1>2, <2>1, ProposalExists DEF Stored, TypeOK
  <2> HIDE DEF offer
  <2>3. ASSUME Goto(c, [t EXCEPT !.at = "store", !.offer = offer]) PROVE ReallocTypeOK'
    <3> DEFINE u == [t EXCEPT !.at = "store", !.offer = offer]
    <3>1. u \in Task /\ u.at = "store" /\ u.previous = t.previous /\ u.offer = offer
      BY <1>1, <2>2 DEF Task, Stage
    <3> HIDE DEF u
    <3>2. Knows(u, checked[c])
      BY <1>1, <2>1, <2>2, <3>1 DEF Knows
    <3> QED
      BY <2>1, <2>3, <3>1, <3>2, QuietMove DEF u
  <2>4. ASSUME NEW p \in Plan, planState[p] = "saved",
               Goto(c, [t EXCEPT !.at = "activate", !.proposed = p])
        PROVE  ReallocTypeOK'
    <3> DEFINE u == [t EXCEPT !.at = "activate", !.proposed = p]
    <3>1. u \in Task /\ u.at = "activate" /\ u.previous = t.previous /\ u.proposed = p
      BY <1>1 DEF Task, Stage
    <3>2. Stored(p)
      BY <2>4 DEF Stored
    <3> HIDE DEF u
    <3> QED
      BY <1>4, <2>1, <2>4, <3>1, <3>2 DEF u
  <2> QED
    BY <1>3, <1>8, <2>1, <2>3, <2>4 DEF Propose, offer
<1>9. CASE StorePlan(c)
  <2>1. PICK p \in Plan : /\ SavePlan(p, t.offer)
                          /\ Goto(c, [t EXCEPT !.at = "activate", !.proposed = p])
    BY <1>9 DEF StorePlan
  <2>2. t.at = "store" /\ OnlyTask /\ checked' = checked
    BY <1>9, <2>1 DEF StorePlan, At, SavePlan
  <2>3. [t EXCEPT !.at = "activate", !.proposed = p] \in Task
    BY <1>1 DEF Task, Stage
  <2>4. PICK u \in Task : u = [t EXCEPT !.at = "activate", !.proposed = p]
    BY <2>3
  <2>5. u.at = "activate" /\ u.previous = t.previous /\ u.proposed = p
    BY <1>1, <2>4 DEF Task
  <2>6. planState'[p] # "unborn"
    BY <1>1, <2>1 DEF SavePlan, TypeOK
  <2>7. Knows(u, checked[c])'
    BY <1>1, <2>2, <2>5, <2>6 DEF Knows, Stored
  <2> QED
    BY <1>1, <2>1, <2>2, <2>4, <2>7, OneTaskMoves DEF Goto, OnlyTask, ReallocTypeOK
<1>10. CASE StoreIgnored(c) \/ Conflict(c) \/ EndTick(c)
  BY <1>3, <1>10 DEF StoreIgnored, Conflict, EndTick, Fail, At
<1>11. CASE CheckProposed(c)
  <2>1. /\ t.at = "activate" /\ OnlyTask /\ Goto(c, [t EXCEPT !.at = "activating"])
        /\ checked' = [checked EXCEPT ![c] = t.proposed]
    BY <1>11 DEF CheckProposed, At, CheckLatest
  <2>2. [t EXCEPT !.at = "activating"] \in Task
    BY <1>1 DEF Task, Stage
  <2>3. PICK u \in Task : u = [t EXCEPT !.at = "activating"]
    BY <2>2
  <2>4. u.at = "activating" /\ u.previous = t.previous /\ u.proposed = t.proposed
    BY <1>1, <2>3 DEF Task
  <2>5. t.proposed # NoPlan
    BY <1>1, <2>1 DEF Knows, Stored, Plan, NoPlan
  <2>6. /\ checked'[c] = t.proposed
        /\ \A d \in Client \ {c} : checked'[d] = checked[d]
    BY <1>1, <2>1 DEF TypeOK
  <2>7. Knows(u, checked[c])'
    BY <1>1, <2>1, <2>4, <2>5, <2>6 DEF Knows, Stored
  <2> QED
    BY <1>1, <2>1, <2>3, <2>6, <2>7, OneTaskMoves DEF Goto, OnlyTask, ReallocTypeOK
<1>12. ASSUME t.at = "activating", checked' = [checked EXCEPT ![c] = NoPlan], OnlyTask,
              NEW u \in Task, Goto(c, u),
              u.at \in {"idle", "working"} \/ u = [t EXCEPT !.at = "discard"]
       PROVE  ReallocTypeOK'
  <2>1. checked'[c] = NoPlan /\ \A d \in Client \ {c} : checked'[d] = checked[d]
    BY <1>1, <1>12 DEF TypeOK
  <2>2. Knows(u, checked[c])'
    <3>1. CASE u.at \in {"idle", "working"}
      BY <2>1, <3>1 DEF Knows
    <3>2. CASE u = [t EXCEPT !.at = "discard"]
      <4>1. u.at = "discard" /\ u.previous = t.previous /\ u.proposed = t.proposed
        BY <1>1, <3>2 DEF Task
      <4> QED
        BY <1>1, <1>12, <2>1, <4>1 DEF Knows, Stored
    <3> QED
      BY <1>12, <3>1, <3>2
  <2> QED
    BY <1>1, <1>12, <2>1, <2>2, OneTaskMoves DEF Goto, OnlyTask, ReallocTypeOK
<1>13. [NoTask EXCEPT !.at = "working"].at = "working"
  BY DEF NoTask
<1>14. CASE Rollover(c)
  BY <1>12, <1>13, <1>14, IdleTasks DEF Rollover, Activate, At, Work
<1>15. CASE Blocked(c)
  <2>1. [t EXCEPT !.at = "discard"] \in Task
    BY <1>1 DEF Task, Stage
  <2> QED
    BY <1>12, <1>13, <1>15, <2>1, IdleTasks DEF Blocked, AbortActivate, At, Work
<1>16. CASE Discard(c)
  <2>1. t.at = "discard" /\ OnlyTask /\ Work(c) /\ checked' = checked
    BY <1>16 DEF Discard, DiscardPlan, At, vars
  <2>2. checked[c] = NoPlan
    BY <1>1, <2>1 DEF Knows
  <2>3. Knows([NoTask EXCEPT !.at = "working"], checked[c])'
    BY <1>13, <2>1, <2>2 DEF Knows
  <2> QED
    BY <1>1, <2>1, <2>3, IdleTasks, OneTaskMoves DEF Work, Goto, OnlyTask, ReallocTypeOK
<1> QED
  BY <1>5, <1>6, <1>7, <1>8, <1>9, <1>10, <1>11, <1>14, <1>15, <1>16 DEF TickStep

(* A treasury without plans, and no tick under way, is well formed.        *)
LEMMA ReallocInitType == ReallocInit => ReallocTypeOK
BY InitType, IdleTasks DEF ReallocInit, Init, ReallocTypeOK, At, NoTask, NoPlan

(* Every step of the system keeps the treasury and the ticks well formed.  *)
LEMMA ReallocNextType == ReallocTypeOK /\ [ReallocNext]_allVars => ReallocTypeOK'
<1> SUFFICES ASSUME ReallocTypeOK, [ReallocNext]_allVars PROVE ReallocTypeOK'
  OBVIOUS
<1>1. /\ TypeOK /\ TypeOK'
      /\ \A p \in Plan : planState[p] # "unborn" => planState'[p] # "unborn"
  BY StepRefines, NextType, StoredStays DEF ReallocTypeOK
\* A step that leaves the ticks alone.
<1>2. ASSUME UNCHANGED <<task, leased, crashes, checked>>, inputs' \in Inputs, granted' \in Nat
      PROVE  ReallocTypeOK'
  BY <1>1, <1>2 DEF ReallocTypeOK, At, Stored
<1>3. ASSUME NEW c \in Client, Crash(c) PROVE ReallocTypeOK'
  <2>1. /\ checked'[c] = NoPlan /\ \A d \in Client \ {c} : checked'[d] = checked[d]
        /\ task' = [task EXCEPT ![c] = NoTask] /\ crashes' = crashes + 1
        /\ UNCHANGED <<inputs, leased, granted>>
    BY <1>1, <1>3 DEF Crash, Fail, Goto, GiveUp, IsIdle, TypeOK, vars
  <2>2. Knows(NoTask, checked[c])'
    BY <2>1 DEF Knows, NoTask
  <2>3. inputs' \in Inputs /\ leased' \in BOOLEAN /\ granted' \in Nat /\ crashes' \in Nat
    BY <2>1 DEF ReallocTypeOK
  <2>4. PICK t \in Task : t = NoTask
    BY IdleTasks
  <2>5. task' = [task EXCEPT ![c] = t] /\ Knows(t, checked[c])'
    BY <2>1, <2>2, <2>4
  <2> QED
    BY <1>1, <2>1, <2>3, <2>5, OneTaskMoves
<1>4. CASE Charge
  <2>1. \A e \in Envelope, k \in Key : \A cash, calls : Consume(e, k, cash, calls) => UNCHANGED checked
    BY DEF Consume
  <2>2. \A e \in Envelope, k \in Key : \A amount :
           Reserve(e, k, amount) \/ Settle(e, k, amount) \/ Release(e, k) => UNCHANGED checked
    BY DEF Reserve, Settle, Release
  <2>3. UNCHANGED checked
    BY <1>4, <2>1, <2>2 DEF Charge, LedgerStep, ConsumeCall, ConsumeCash
  <2> QED
    BY <1>2, <1>4, <2>3 DEF Charge, tick, ReallocTypeOK
<1>5. CASE OperatorPlan
  <2>1. PICK new \in Grant : /\ \E p \in Plan : SavePlan(p, new)
                             /\ granted' = granted + new.cash
                             /\ UNCHANGED <<task, inputs, leased, crashes>>
    BY <1>5 DEF OperatorPlan
  <2>2. new.cash \in Nat
    BY RolloverAssumption, PlanAssumption
  <2>3. granted' \in Nat /\ inputs' \in Inputs
    BY <2>1, <2>2 DEF ReallocTypeOK
  <2>4. UNCHANGED checked
    BY <2>1 DEF SavePlan
  <2> QED
    BY <1>2, <2>1, <2>3, <2>4
<1>6. CASE InputsChange
  BY <1>2, <1>6 DEF InputsChange, ReallocTypeOK, vars
<1>7. CASE UNCHANGED allVars
  BY <1>2, <1>7 DEF allVars, vars, ReallocTypeOK
<1> QED
  BY <1>3, <1>4, <1>5, <1>6, <1>7, TickStepType DEF ReallocNext

(* A tick always knows the plan it works on, and that plan was stored,     *)
(* whatever was deleted or activated by others between its transactions.   *)
THEOREM ReallocTypeCorrect == ReallocSafety => []ReallocTypeOK
<1>1. ReallocInit => ReallocTypeOK
  BY ReallocInitType
<1>2. ReallocTypeOK /\ [ReallocNext]_allVars => ReallocTypeOK'
  BY ReallocNextType
<1> QED
  BY <1>1, <1>2, PTL DEF ReallocSafety

-----------------------------------------------------------------------------
(* Reconciling, crashing, operating and charging implement the treasury:   *)
(* every step of reconcile is one of its transactions or touches no table. *)
THEOREM ReallocationRefinesTreasury == ReallocSafety => Spec
<1>1. ReallocInit => Init
  BY DEF ReallocInit
<1>2. ReallocTypeOK /\ [ReallocNext]_allVars => [Next]_vars
  BY StepRefines
<1> QED
  BY <1>1, <1>2, ReallocTypeCorrect, PTL DEF ReallocSafety, Spec

(* A rollover never takes an envelope away from an open commitment, and a  *)
(* venture never gets more than the plan it is working under allots.       *)
THEOREM RolloverKeepsCommitments ==
  ReallocSafety => [](CommitmentsCovered /\ OpenOnlyWhileActive /\ OneActivePlan)
BY ReallocationRefinesTreasury, CommitmentsAlwaysCovered, OpenAlwaysActive, AlwaysOneActivePlan, PTL

-----------------------------------------------------------------------------
(* A plan always remains.  Deleting one is safe because whoever deletes was *)
(* refused by an open commitment, which belongs to an envelope that some    *)
(* plan has opened; and such a plan is never deleted.  Before the first     *)
(* envelope is opened nobody is refused, so nothing is deleted at all.      *)
IsOpened(e) == envelope[e].status # "none"
Touched == \E e \in Envelope : IsOpened(e)

RemainInv ==
    /\ Touched => \E e \in Envelope : IsOpened(e) /\ planState[e[1]] = "saved"
    /\ \A p \in Plan : planState[p] = "discarded" => Touched
    /\ \A c \in Client : At(c, "discard") => Touched

(* An envelope that was opened is never unopened.                          *)
LEMMA OpenedStays ==
  ASSUME LedgerInv, [Next]_vars, NEW e \in Envelope, IsOpened(e)
  PROVE  IsOpened(e)'
<1>1. TypeOK /\ envelope[e] \in Row
  BY DEF LedgerInv, TypeOK
<1>2. ASSUME UNCHANGED envelope PROVE IsOpened(e)'
  BY <1>2 DEF IsOpened
<1>3. ASSUME NEW c \in Client, Activate(c) PROVE IsOpened(e)'
  BY <1>1, <1>3 DEF Activate, Activated, IsOpened, Row
<1>4. ASSUME NEW c \in Client, WriteRevoked(c) PROVE IsOpened(e)'
  <2>1. snapshot[c].row \in Row
    BY <1>1, <1>4 DEF WriteRevoked, TypeOK, Snapshot
  <2>2. [snapshot[c].row EXCEPT !.status = "revoked"].status = "revoked"
    BY <2>1 DEF Row
  <2> QED
    BY <1>1, <1>4, <2>2 DEF WriteRevoked, TypeOK, IsOpened
<1>5. ASSUME NEW f \in Envelope, NEW k \in Key, NEW cash \in Nat, NEW calls \in Nat,
             Consume(f, k, cash, calls)
      PROVE  IsOpened(e)'
  <2>1. envelope[f] \in Row /\ Charged(envelope[f], cash, calls).status \in {envelope[f].status, "exhausted"}
    BY <1>1, ChargedType DEF TypeOK
  <2> QED
    BY <1>1, <1>5, <2>1 DEF Consume, TypeOK, IsOpened
<1>6. ASSUME NEW f \in Envelope, NEW k \in Key, NEW actual \in Nat, Settle(f, k, actual)
      PROVE  IsOpened(e)'
  <2>1. envelope[f] \in Row /\ Charged(envelope[f], actual, 0).status \in {envelope[f].status, "exhausted"}
    BY <1>1, ChargedType DEF TypeOK
  <2> QED
    BY <1>1, <1>6, <2>1 DEF Settle, TypeOK, IsOpened
<1>7. CASE PlanStep
  BY <1>2, <1>7 DEF PlanStep, DiscardPlan, SavePlan, ledger
<1>8. CASE ClientStep
  BY <1>2, <1>3, <1>4, <1>8
     DEF ClientStep, CheckLatest, AbortActivate, ReadForRevoke, GiveUp, ledger
<1>9. CASE LedgerStep
  BY <1>2, <1>5, <1>6, <1>9, FiniteAssumption
     DEF LedgerStep, ConsumeCall, ConsumeCash, Reserve, Release
<1> QED
  BY <1>2, <1>7, <1>8, <1>9 DEF Next, vars

(* Only activating opens an envelope, and of a plan that was stored.       *)
LEMMA OnlyActivateOpens ==
  ASSUME LedgerInv, [Next]_vars, NEW e \in Envelope, ~IsOpened(e), IsOpened(e)'
  PROVE  planState[e[1]] # "unborn" /\ UNCHANGED planState
<1>1. TypeOK /\ EnvelopeInv(e) /\ e[1] \in Plan
  BY DEF LedgerInv, Envelope
<1>2. ASSUME UNCHANGED envelope PROVE FALSE
  BY <1>2 DEF IsOpened
<1>3. ASSUME NEW c \in Client, Activate(c)
      PROVE  planState[e[1]] # "unborn" /\ UNCHANGED planState
  <2>1. e[1] = checked[c] /\ checked[c] # NoPlan /\ UNCHANGED planState
    BY <1>3 DEF Activate, Activated, IsOpened, plans, Superseded
  <2>2. content[e[1]] \in PlanContent
    BY <1>1, <2>1 DEF TypeOK
  <2> QED
    BY <1>1, <2>1, <2>2, NoneAssumption DEF LedgerInv
<1>4. ASSUME NEW c \in Client, WriteRevoked(c) PROVE FALSE
  <2>1. snapshot[c] # None /\ SnapshotLimits(c) /\ snapshot[c].of \in Envelope
    BY <1>1, <1>4 DEF LedgerInv, WriteRevoked, TypeOK, Snapshot
  <2>2. snapshot[c].of # e
    BY <2>1 DEF SnapshotLimits, IsOpened
  <2> QED
    BY <1>1, <1>4, <2>1, <2>2 DEF WriteRevoked, TypeOK, IsOpened
<1>5. ASSUME NEW f \in Envelope, NEW k \in Key, NEW cash, NEW calls, Consume(f, k, cash, calls)
      PROVE  FALSE
  BY <1>1, <1>5 DEF Consume, TypeOK, IsOpened
<1>6. ASSUME NEW f \in Envelope, NEW k \in Key, NEW actual, Settle(f, k, actual)
      PROVE  FALSE
  <2>1. envelope[f].status = "active"
    BY <1>6 DEF LedgerInv, EnvelopeInv, CommitmentRow, Settle
  <2> QED
    BY <1>1, <1>6, <2>1 DEF Settle, TypeOK, IsOpened
<1>7. ~PlanStep
  BY <1>2 DEF PlanStep, DiscardPlan, SavePlan, ledger
<1>8. CASE ClientStep
  BY <1>2, <1>3, <1>4, <1>8
     DEF ClientStep, CheckLatest, AbortActivate, ReadForRevoke, GiveUp, ledger
<1>9. ~LedgerStep
  BY <1>2, <1>5, <1>6 DEF LedgerStep, ConsumeCall, ConsumeCash, Reserve, Release
<1> QED
  BY <1>2, <1>7, <1>8, <1>9 DEF Next, vars

(* A step that deletes no plan.                                            *)
LEMMA NothingDeleted ==
  ASSUME LedgerInv, RemainInv, [Next]_vars,
         \A p \in Plan : /\ planState[p] = "saved" => planState'[p] = "saved"
                         /\ planState'[p] = "discarded" => planState[p] = "discarded",
         \A c \in Client : At(c, "discard")' => Touched
  PROVE  RemainInv'
<1>1. Touched => Touched'
  BY OpenedStays DEF Touched
<1>2. ASSUME Touched'
      PROVE  \E e \in Envelope : IsOpened(e)' /\ planState'[e[1]] = "saved"
  <2>1. CASE Touched
    <3>1. PICK e \in Envelope : IsOpened(e) /\ planState[e[1]] = "saved"
      BY <2>1 DEF RemainInv
    <3> QED
      BY <3>1, OpenedStays DEF Envelope
  <2>2. CASE ~Touched
    <3>1. PICK e \in Envelope : IsOpened(e)'
      BY <1>2 DEF Touched
    <3>2. planState[e[1]] # "unborn" /\ UNCHANGED planState
      BY <2>2, <3>1, OnlyActivateOpens DEF Touched
    <3>3. e[1] \in Plan /\ planState[e[1]] \in PlanState
      BY DEF Envelope, LedgerInv, TypeOK
    <3>4. planState[e[1]] # "discarded"
      BY <2>2, <3>3 DEF RemainInv
    <3> QED
      BY <3>1, <3>2, <3>3, <3>4 DEF PlanState
  <2> QED
    BY <2>1, <2>2
<1>3. \A p \in Plan : planState'[p] = "discarded" => Touched'
  BY <1>1 DEF RemainInv
<1> QED
  BY <1>1, <1>2, <1>3 DEF RemainInv

LEMMA RemainStep ==
  ASSUME ReallocTypeOK, LedgerInv, RemainInv, [ReallocNext]_allVars
  PROVE  RemainInv'
<1>1. [Next]_vars
  BY StepRefines
<1>2. planState \in [Plan -> PlanState] /\ task \in [Client -> Task]
  BY DEF ReallocTypeOK, TypeOK
<1>3. \A c \in Client : At(c, "discard") => Touched
  BY DEF RemainInv
<1>4. ASSUME UNCHANGED planState, \A c \in Client : At(c, "discard")' => Touched
      PROVE  RemainInv'
  BY <1>1, <1>4, NothingDeleted
<1>5. ASSUME NEW p \in Plan, NEW new, SavePlan(p, new),
             \A c \in Client : At(c, "discard")' => Touched
      PROVE  RemainInv'
  <2>1. \A q \in Plan : /\ planState[q] = "saved" => planState'[q] = "saved"
                        /\ planState'[q] = "discarded" => planState[q] = "discarded"
    BY <1>2, <1>5 DEF SavePlan
  <2> QED
    BY <1>1, <1>5, <2>1, NothingDeleted
\* A task that moves to any other stage.
<1>6. ASSUME NEW c \in Client, NEW t, Goto(c, t), t.at # "discard"
      PROVE  \A d \in Client : At(d, "discard")' => Touched
  BY <1>2, <1>3, <1>6 DEF Goto, At
<1>7. [NoTask EXCEPT !.at = "working"].at = "working" /\ NoTask.at = "idle"
  BY DEF NoTask
<1>8. ASSUME NEW c \in Client, Discard(c)
      PROVE  RemainInv'
  <2>1. Touched /\ \A d \in Client : At(d, "discard")' => Touched
    BY <1>3, <1>6, <1>7, <1>8 DEF Discard, Work
  <2>2. CASE UNCHANGED vars
    BY <1>4, <2>1, <2>2 DEF vars
  <2>3. CASE DiscardPlan(task[c].proposed)
    <3> DEFINE p == task[c].proposed
    <3>1. /\ \A v \in Venture : ~IsOpened(<<p, v>>)
          /\ planState' = [planState EXCEPT ![p] = "discarded"] /\ UNCHANGED envelope
      BY <2>3 DEF DiscardPlan, IsOpened, ledger
    <3>2. PICK e \in Envelope : IsOpened(e) /\ planState[e[1]] = "saved"
      BY <2>1 DEF RemainInv
    <3>3. e[1] # p /\ e[1] \in Plan
      BY <3>1, <3>2 DEF Envelope
    <3>4. IsOpened(e)' /\ planState'[e[1]] = "saved" /\ Touched'
      BY <1>2, <3>1, <3>2, <3>3 DEF IsOpened, Touched
    <3> QED
      BY <2>1, <3>4 DEF RemainInv
  <2> QED
    BY <1>8, <2>2, <2>3 DEF Discard
<1>9. ASSUME NEW c \in Client, Blocked(c)
      PROVE  RemainInv'
  <2>1. Touched /\ UNCHANGED planState
    <3>1. PICK e \in Superseded(checked[c]) : TRUE
      BY <1>9 DEF Blocked, AbortActivate
    <3> QED
      BY <1>9, <3>1 DEF Blocked, AbortActivate, Superseded, Touched, IsOpened, plans
  <2> QED
    BY <1>4, <2>1
<1>10. ASSUME NEW c \in Client, TickStep(c), ~Discard(c), ~Blocked(c)
       PROVE  RemainInv'
  <2> DEFINE t == task[c]
  <2>1. t \in Task
    BY <1>2
  <2>2. /\ \A x : [t EXCEPT !.at = "activate", !.proposed = x].at = "activate"
        /\ \A x, y : [t EXCEPT !.at = "commitments", !.cash = x, !.calls = y].at = "commitments"
        /\ \A x : [t EXCEPT !.at = "store", !.offer = x].at = "store"
        /\ [t EXCEPT !.at = "propose"].at = "propose"
        /\ [t EXCEPT !.at = "activating"].at = "activating"
        /\ \A x : [NoTask EXCEPT !.at = "envelopes", !.previous = x].at = "envelopes"
    BY <2>1 DEF Task, NoTask
  <2> HIDE DEF t
  <2>3. CASE Begin(c) \/ ReadEnvelopes(c) \/ ReadCommitments(c)
    BY <1>4, <1>6, <1>7, <2>2, <2>3 DEF Begin, ReadEnvelopes, ReadCommitments, Work, vars, t
  <2>4. CASE Propose(c)
    BY <1>4, <1>6, <1>7, <2>2, <2>4 DEF Propose, Work, vars, t
  <2>5. CASE StorePlan(c)
    BY <1>5, <1>6, <2>2, <2>5 DEF StorePlan, t
  <2>6. CASE StoreIgnored(c) \/ Conflict(c) \/ EndTick(c)
    BY <1>4, <1>6, <1>7, <2>6 DEF StoreIgnored, Conflict, EndTick, Fail, vars
  <2>7. CASE CheckProposed(c)
    BY <1>4, <1>6, <2>2, <2>7 DEF CheckProposed, CheckLatest, plans, t
  <2>8. CASE Rollover(c)
    BY <1>4, <1>6, <1>7, <2>8 DEF Rollover, Activate, Work, plans
  <2> QED
    BY <1>10, <2>3, <2>4, <2>5, <2>6, <2>7, <2>8 DEF TickStep
<1>11. ASSUME NEW c \in Client, Crash(c)
       PROVE  RemainInv'
  BY <1>4, <1>6, <1>7, <1>11 DEF Crash, Fail, GiveUp, plans, vars
<1>12. ASSUME UNCHANGED task
       PROVE  \A c \in Client : At(c, "discard")' => Touched
  BY <1>3, <1>12 DEF At
<1>13. CASE Charge
  <2>1. \A e \in Envelope, k \in Key : \A cash, calls : Consume(e, k, cash, calls) => UNCHANGED plans
    BY DEF Consume
  <2>2. \A e \in Envelope, k \in Key : \A amount :
           Reserve(e, k, amount) \/ Settle(e, k, amount) \/ Release(e, k) => UNCHANGED plans
    BY DEF Reserve, Settle, Release
  <2>3. UNCHANGED plans
    BY <1>13, <2>1, <2>2 DEF Charge, LedgerStep, ConsumeCall, ConsumeCash
  <2> QED
    BY <1>4, <1>12, <1>13, <2>3 DEF Charge, tick, plans
<1>14. CASE OperatorPlan
  BY <1>5, <1>12, <1>14 DEF OperatorPlan
<1>15. CASE InputsChange \/ UNCHANGED allVars
  BY <1>4, <1>12, <1>15 DEF InputsChange, allVars, vars
<1> QED
  BY <1>8, <1>9, <1>10, <1>11, <1>13, <1>14, <1>15 DEF ReallocNext

LEMMA LedgerUnderRollover == ReallocSafety => []LedgerInv
BY ReallocationRefinesTreasury, LedgerInvariant, PTL

(* Once a plan was stored there is always one, whatever wakes and          *)
(* operators store, activate and delete in between.                        *)
THEOREM PlanAlwaysRemains == ReallocSafety => []PlanRemains
<1>1. ReallocInit => RemainInv
  BY DEF ReallocInit, Init, RemainInv, Touched, IsOpened, NoRow, At, NoTask
<1>2. ReallocTypeOK /\ LedgerInv /\ RemainInv /\ [ReallocNext]_allVars => RemainInv'
  BY RemainStep
<1>3. ReallocTypeOK /\ RemainInv => PlanRemains
  <2> SUFFICES ASSUME ReallocTypeOK, RemainInv, NEW p \in Plan, planState[p] # "unborn"
               PROVE  \E q \in Plan : planState[q] = "saved"
    BY DEF PlanRemains
  <2>1. planState[p] \in PlanState
    BY DEF ReallocTypeOK, TypeOK
  <2>2. CASE Touched
    BY <2>2 DEF RemainInv, Envelope
  <2>3. CASE ~Touched
    BY <2>1, <2>3 DEF RemainInv, PlanState
  <2> QED
    BY <2>2, <2>3
<1> QED
  BY <1>1, <1>2, <1>3, ReallocTypeCorrect, LedgerUnderRollover, PTL DEF ReallocSafety

-----------------------------------------------------------------------------
(* Conservation.  What was spent is counted over all envelopes, so sums    *)
(* are split by plan: what plan p spent, and what the plans outside a set  *)
(* S did.                                                                  *)
SpentUnder(p) == Total([e \in Envelope |-> IF e[1] = p THEN CashSpent(e) ELSE 0])
SpentOutside(S) == Total([e \in Envelope |-> IF e[1] \in S THEN 0 ELSE CashSpent(e)])

LEMMA EnvelopeFinite == IsFiniteSet(Envelope)
<1>1. IsFiniteSet(Plan) /\ IsFiniteSet(Venture)
  BY FS_Interval, FiniteAssumption DEF Plan
<1> QED
  BY <1>1, FS_Product DEF Envelope

(* Sums of spending are natural numbers.                                   *)
LEMMA SpentTyped ==
  ASSUME TypeOK
  PROVE  /\ \A e \in Envelope : CashSpent(e) \in Nat
         /\ \A p : /\ [e \in Envelope |-> IF e[1] = p THEN CashSpent(e) ELSE 0] \in [Envelope -> Nat]
                   /\ SpentUnder(p) \in Nat
         /\ \A S : /\ [e \in Envelope |-> IF e[1] \in S THEN 0 ELSE CashSpent(e)] \in [Envelope -> Nat]
                   /\ SpentOutside(S) \in Nat
         /\ TotalSpent \in Nat
<1>1. ASSUME NEW e \in Envelope PROVE CashSpent(e) \in Nat
  BY TotalsTyped DEF CashSpent
<1>2. ASSUME NEW p
      PROVE  /\ [e \in Envelope |-> IF e[1] = p THEN CashSpent(e) ELSE 0] \in [Envelope -> Nat]
             /\ SpentUnder(p) \in Nat
  <2> DEFINE under == [e \in Envelope |-> IF e[1] = p THEN CashSpent(e) ELSE 0]
  <2>1. under \in [Envelope -> Nat]
    BY <1>1
  <2> QED
    BY <2>1, EnvelopeFinite, TotalType DEF SpentUnder
<1>3. ASSUME NEW S
      PROVE  /\ [e \in Envelope |-> IF e[1] \in S THEN 0 ELSE CashSpent(e)] \in [Envelope -> Nat]
             /\ SpentOutside(S) \in Nat
  <2> DEFINE outside == [e \in Envelope |-> IF e[1] \in S THEN 0 ELSE CashSpent(e)]
  <2>1. outside \in [Envelope -> Nat]
    BY <1>1
  <2> QED
    BY <2>1, EnvelopeFinite, TotalType DEF SpentOutside
<1>4. TotalSpent \in Nat
  <2>1. [e \in Envelope |-> CashSpent(e)] \in [Envelope -> Nat]
    BY <1>1
  <2> QED
    BY <2>1, EnvelopeFinite, TotalType DEF TotalSpent
<1> QED
  BY <1>1, <1>2, <1>3, <1>4

(* Leaving out one plan more leaves out what that plan spent.              *)
LEMMA OutsideSplits ==
  ASSUME TypeOK, NEW S, NEW p, p \notin S
  PROVE  SpentOutside(S) = SpentOutside(S \cup {p}) + SpentUnder(p)
<1> DEFINE f == [e \in Envelope |-> IF e[1] \in S THEN 0 ELSE CashSpent(e)]
           g == [e \in Envelope |-> IF e[1] \in S \cup {p} THEN 0 ELSE CashSpent(e)]
           h == [e \in Envelope |-> IF e[1] = p THEN CashSpent(e) ELSE 0]
<1>1. f \in [Envelope -> Nat] /\ g \in [Envelope -> Nat] /\ h \in [Envelope -> Nat]
  BY SpentTyped
<1>2. \A e \in Envelope : (g[e] = f[e] /\ h[e] = 0) \/ (g[e] = 0 /\ h[e] = f[e])
  OBVIOUS
<1> HIDE DEF f, g, h
<1>3. Total(f) = Total(g) + Total(h)
  BY <1>1, <1>2, EnvelopeFinite, TotalSplit
<1> QED
  BY <1>3 DEF SpentOutside, SpentUnder, f, g, h

(* What was spent in all is what is outside no plan.                       *)
LEMMA AllSpent ==
  ASSUME TypeOK, NEW p
  PROVE  TotalSpent = SpentOutside({p}) + SpentUnder(p)
<1>1. TotalSpent = SpentOutside({})
  BY DEF TotalSpent, SpentOutside
<1>2. SpentOutside({}) = SpentOutside({} \cup {p}) + SpentUnder(p)
  BY OutsideSplits
<1>3. {} \cup {p} = {p}
  OBVIOUS
<1> QED
  BY <1>1, <1>2, <1>3

(* What the plans outside one plan spent, plan by plan.                    *)
LEMMA OutsideOne ==
  ASSUME TypeOK, NEW p, NEW q, p # q
  PROVE  /\ SpentOutside({p}) = SpentOutside({p, q}) + SpentUnder(q)
         /\ SpentOutside({q}) = SpentOutside({p, q}) + SpentUnder(p)
<1>1. {p} \cup {q} = {p, q} /\ {q} \cup {p} = {p, q}
  OBVIOUS
<1> QED
  BY <1>1, OutsideSplits

(* A plan spends within its budget.                                        *)
LEMMA UnderBudget ==
  ASSUME LedgerInv, NEW p \in Plan, content[p] \in PlanContent
  PROVE  content[p].cash \in Nat /\ SpentUnder(p) <= content[p].cash
<1> DEFINE f == [e \in Envelope |-> IF e[1] = p THEN CashSpent(e) ELSE 0]
           g == [v \in Venture |-> CashSpent(<<p, v>>) + OpenCash(<<p, v>>)]
           name == [e \in Envelope |-> e[2]]
<1>1. TypeOK /\ content[p] # None /\ content[p].cash \in Nat
  BY NoneAssumption, PlanAssumption DEF LedgerInv
<1>2. Total(g) <= content[p].cash
  BY <1>1, LedgerWithinBudget DEF PlanWithinBudget
<1>3. ASSUME NEW v \in Venture
      PROVE  <<p, v>> \in Envelope /\ CashSpent(<<p, v>>) \in Nat /\ OpenCash(<<p, v>>) \in Nat
  <2>1. <<p, v>> \in Envelope
    BY DEF Envelope
  <2> QED
    BY <1>1, <2>1, SpentTyped, TotalsTyped
<1>4. f \in [Envelope -> Nat] /\ g \in [Venture -> Nat]
  BY <1>1, <1>3, SpentTyped
<1>5. \A e \in Envelope : f[e] > 0 => e = <<p, name[e]>> /\ name[e] \in Venture
  BY DEF Envelope
<1>6. \A e \in Envelope : f[e] > 0 => f[e] <= g[name[e]]
  <2> SUFFICES ASSUME NEW e \in Envelope, f[e] > 0 PROVE f[e] <= g[name[e]]
    OBVIOUS
  <2> DEFINE v == name[e]
  <2>1. e = <<p, v>> /\ v \in Venture
    BY <1>5
  <2>2. f[e] = CashSpent(<<p, v>>) /\ g[v] = CashSpent(<<p, v>>) + OpenCash(<<p, v>>)
    BY <2>1
  <2> HIDE DEF f, g, v
  <2> QED
    BY <1>3, <2>1, <2>2 DEF v
<1>7. \A x, y \in Envelope : f[x] > 0 /\ f[y] > 0 /\ name[x] = name[y] => x = y
  BY <1>5
<1> HIDE DEF f, g, name
<1>8. Total(f) <= Total(g)
  BY <1>4, <1>5, <1>6, <1>7, TotalRenamed, FiniteAssumption
<1>9. Total(f) \in Nat /\ Total(g) \in Nat
  BY <1>4, TotalType, EnvelopeFinite, FiniteAssumption
<1>10. Total(f) <= content[p].cash
  BY <1>1, <1>2, <1>8, <1>9
<1> QED
  BY <1>1, <1>10 DEF SpentUnder, f

(* What reconcile reads as a plan's spending is not less than it was, as   *)
(* long as no envelope's counter is.                                       *)
LEMMA UsedCountsSpending ==
  ASSUME LedgerInv, RevokedKeepsSpending, NEW p
  PROVE  SpentUnder(p) <= CashUsed(p)
<1> DEFINE f == [e \in Envelope |-> IF e[1] = p THEN CashSpent(e) ELSE 0]
           g == [e \in Opened(p) |-> envelope[e].cashUsed]
           name == [e \in Envelope |-> e]
<1>1. TypeOK /\ Opened(p) \in SUBSET Envelope
  BY DEF LedgerInv, Opened
<1>2. IsFiniteSet(Opened(p))
  BY <1>1, EnvelopeFinite, FS_Subset
<1>3. \A e \in Envelope : envelope[e].cashUsed \in Nat /\ CashSpent(e) \in Nat
                            /\ CashSpent(e) <= envelope[e].cashUsed
  BY <1>1, SpentTyped DEF TypeOK, Row, RevokedKeepsSpending
<1>4. f \in [Envelope -> Nat] /\ g \in [Opened(p) -> Nat]
  BY <1>1, <1>3, SpentTyped
<1>5. ASSUME NEW e \in Envelope, f[e] > 0
      PROVE  name[e] \in Opened(p) /\ f[e] <= g[name[e]]
  <2>1. e[1] = p /\ f[e] = CashSpent(e) /\ name[e] = e
    BY <1>5
  <2>2. envelope[e].status # "none"
    <3> SUFFICES ASSUME envelope[e].status = "none" PROVE FALSE
      OBVIOUS
    <3>1. envelope[e] = NoRow
      BY DEF LedgerInv, EnvelopeInv, NeverActivated
    <3>2. CashSpent(e) <= 0
      BY <1>3, <3>1 DEF NoRow
    <3> QED
      BY <1>3, <1>5, <2>1, <3>2
  <2>3. e \in Opened(p)
    BY <2>1, <2>2 DEF Opened
  <2> QED
    BY <1>3, <2>1, <2>3
<1>6. \A x, y \in Envelope : f[x] > 0 /\ f[y] > 0 /\ name[x] = name[y] => x = y
  OBVIOUS
<1> HIDE DEF f, g, name
<1>7. Total(f) <= Total(g)
  BY <1>2, <1>4, <1>5, <1>6, TotalRenamed
<1> QED
  BY <1>7 DEF SpentUnder, CashUsed, f, g

(* All of this in one formula, to be used before and after a step.         *)
SpendingAddsUp ==
    /\ \A e \in Envelope : CashSpent(e) \in Nat
    /\ TotalSpent \in Nat
    /\ \A p \in Plan :
          /\ SpentUnder(p) \in Nat /\ SpentOutside({p}) \in Nat
          /\ TotalSpent = SpentOutside({p}) + SpentUnder(p)
          /\ content[p] \in PlanContent =>
                content[p].cash \in Nat /\ SpentUnder(p) <= content[p].cash
    /\ \A p, q \in Plan :
          /\ SpentOutside({p, q}) \in Nat
          /\ p # q => /\ SpentOutside({p}) = SpentOutside({p, q}) + SpentUnder(q)
                      /\ SpentOutside({q}) = SpentOutside({p, q}) + SpentUnder(p)

LEMMA SpendingFacts == LedgerInv => SpendingAddsUp
<1> SUFFICES ASSUME LedgerInv PROVE SpendingAddsUp
  OBVIOUS
<1>1. TypeOK
  BY DEF LedgerInv
<1>2. ASSUME NEW p \in Plan
      PROVE  /\ TotalSpent = SpentOutside({p}) + SpentUnder(p)
             /\ content[p] \in PlanContent =>
                   content[p].cash \in Nat /\ SpentUnder(p) <= content[p].cash
  BY <1>1, AllSpent, UnderBudget
<1>3. ASSUME NEW p \in Plan, NEW q \in Plan, p # q
      PROVE  /\ SpentOutside({p}) = SpentOutside({p, q}) + SpentUnder(q)
             /\ SpentOutside({q}) = SpentOutside({p, q}) + SpentUnder(p)
  BY <1>1, <1>3, OutsideOne
<1> QED
  BY <1>1, <1>2, <1>3, SpentTyped DEF SpendingAddsUp

LEMMA SpendingFactsAfter == LedgerInv' => SpendingAddsUp'
BY SpendingFacts, PTL

(* Only live envelopes are charged, one at a time, and none is opened.     *)
LEMMA ChargeOne ==
  ASSUME LedgerInv, LedgerStep
  PROVE  /\ UNCHANGED <<plans, checked, snapshot>>
         /\ \E f \in Envelope :
              /\ envelope[f].status = "active" /\ envelope'[f].status \in {"active", "exhausted"}
              /\ \A e \in Envelope \ {f} : /\ envelope'[e] = envelope[e]
                                           /\ consumption'[e] = consumption[e]
                                           /\ reservation'[e] = reservation[e]
<1> DEFINE Only(f) ==
      /\ UNCHANGED <<plans, checked, snapshot>>
      /\ envelope[f].status = "active" /\ envelope'[f].status \in {"active", "exhausted"}
      /\ \A e \in Envelope \ {f} : /\ envelope'[e] = envelope[e]
                                   /\ consumption'[e] = consumption[e]
                                   /\ reservation'[e] = reservation[e]
<1>1. TypeOK
  BY DEF LedgerInv
<1>2. ASSUME NEW f \in Envelope, NEW k \in Key, NEW cash \in Nat, NEW calls \in Nat,
             Consume(f, k, cash, calls)
      PROVE  Only(f)
  <2>1. envelope[f] \in Row /\ Charged(envelope[f], cash, calls).status \in {envelope[f].status, "exhausted"}
    BY <1>1, ChargedType DEF TypeOK
  <2> QED
    BY <1>1, <1>2, <2>1 DEF Consume, TypeOK
<1>3. ASSUME NEW f \in Envelope, NEW k \in Key, NEW amount, Reserve(f, k, amount)
      PROVE  Only(f)
  BY <1>1, <1>3 DEF Reserve, TypeOK
<1>4. ASSUME NEW f \in Envelope, NEW k \in Key, NEW amount \in Nat, Settle(f, k, amount)
      PROVE  Only(f)
  <2>1. envelope[f] \in Row /\ Charged(envelope[f], amount, 0).status \in {envelope[f].status, "exhausted"}
    BY <1>1, ChargedType DEF TypeOK
  <2>2. envelope[f].status = "active"
    BY <1>4 DEF LedgerInv, EnvelopeInv, CommitmentRow, Settle
  <2> QED
    BY <1>1, <1>4, <2>1, <2>2 DEF Settle, TypeOK
<1>5. ASSUME NEW f \in Envelope, NEW k \in Key, Release(f, k)
      PROVE  Only(f)
  <2>1. envelope[f].status = "active"
    BY <1>5 DEF LedgerInv, EnvelopeInv, CommitmentRow, Release
  <2> QED
    BY <1>1, <1>5, <2>1 DEF Release, TypeOK
<1>6. \E f \in Envelope : Only(f)
  BY <1>2, <1>3, <1>4, <1>5, FiniteAssumption DEF LedgerStep, ConsumeCall, ConsumeCash
<1> QED
  BY <1>6

(* Nobody revokes by hand in these behaviours, so that no row is written   *)
(* back from a stale copy and no counter falls behind its rows.            *)
RowsKept ==
    /\ \A c \in Client : snapshot[c] = None
    /\ RevokedKeepsSpending

LEMMA RowsKeptStep ==
  ASSUME ReallocTypeOK, LedgerInv, LedgerInv', RowsKept, [ReallocNext]_allVars
  PROVE  RowsKept'
<1>1. TypeOK /\ TypeOK'
  BY DEF LedgerInv
<1>2. \A e \in Envelope : CashSpent(e)' \in Nat
  BY SpendingFactsAfter DEF SpendingAddsUp
\* It is enough to look at the envelopes that are revoked after the step.
<1>3. ASSUME \A c \in Client : snapshot'[c] = None,
             \A e \in Envelope : envelope'[e].status = "revoked" =>
                 /\ envelope'[e].cashUsed = envelope[e].cashUsed
                 /\ consumption'[e] = consumption[e] /\ reservation'[e] = reservation[e]
      PROVE  RowsKept'
  <2>1. ASSUME NEW e \in Envelope PROVE envelope'[e].cashUsed >= CashSpent(e)'
    <3>1. CASE envelope'[e].status = "revoked"
      <4>1. CashSpent(e)' = CashSpent(e)
        BY <1>3, <3>1, ConsumptionFrame, ReservationFrame DEF CashSpent
      <4> QED
        BY <1>3, <3>1, <4>1 DEF RowsKept, RevokedKeepsSpending
    <3>2. CASE envelope'[e].status # "revoked"
      <4>1. Conserved(e)'
        BY DEF LedgerInv, EnvelopeInv
      <4>2. envelope'[e].cashUsed = CashSpent(e)'
        BY <3>2, <4>1 DEF Conserved
      <4> QED
        BY <1>2, <4>2
    <3> QED
      BY <3>1, <3>2
  <2> QED
    BY <1>3, <2>1 DEF RowsKept, RevokedKeepsSpending
<1>4. \A c \in Client : snapshot[c] = None
  BY DEF RowsKept
<1>5. ASSUME UNCHANGED ledger, \A c \in Client : snapshot'[c] = None
      PROVE  RowsKept'
  BY <1>3, <1>5 DEF ledger
<1>6. ASSUME NEW c \in Client, Activate(c)
      PROVE  RowsKept'
  <2>1. \A d \in Client : snapshot'[d] = None
    BY <1>4, <1>6 DEF Activate
  <2>2. ASSUME NEW e \in Envelope, envelope'[e].status = "revoked"
        PROVE  envelope'[e].cashUsed = envelope[e].cashUsed
    BY <1>1, <1>6, <2>2 DEF Activate, Activated, TypeOK, Row
  <2> QED
    BY <1>3, <1>6, <2>1, <2>2 DEF Activate
<1>7. CASE Charge
  <2>1. LedgerStep
    BY <1>7 DEF Charge
  <2>2. PICK f \in Envelope :
          /\ envelope'[f].status \in {"active", "exhausted"}
          /\ \A e \in Envelope \ {f} : /\ envelope'[e] = envelope[e]
                                       /\ consumption'[e] = consumption[e]
                                       /\ reservation'[e] = reservation[e]
    BY <2>1, ChargeOne
  <2>3. \A c \in Client : snapshot'[c] = None
    BY <1>4, <2>1, ChargeOne
  <2> QED
    BY <1>3, <2>2, <2>3
<1>8. ASSUME NEW c \in Client, TickStep(c)
      PROVE  RowsKept'
  <2>1. CASE StorePlan(c) \/ CheckProposed(c) \/ Blocked(c) \/ Discard(c)
    BY <1>4, <1>5, <2>1
       DEF StorePlan, SavePlan, CheckProposed, CheckLatest, Blocked, AbortActivate, Discard,
           DiscardPlan, vars, ledger
  <2>2. CASE Begin(c) \/ ReadEnvelopes(c) \/ ReadCommitments(c) \/ Propose(c)
             \/ StoreIgnored(c) \/ Conflict(c) \/ EndTick(c)
    BY <1>4, <1>5, <2>2
       DEF Begin, ReadEnvelopes, ReadCommitments, Propose, StoreIgnored, Conflict, EndTick, vars, ledger
  <2>3. CASE Rollover(c)
    BY <1>6, <2>3 DEF Rollover
  <2> QED
    BY <1>8, <2>1, <2>2, <2>3 DEF TickStep
<1>9. ASSUME NEW c \in Client, Crash(c)
      PROVE  RowsKept'
  BY <1>1, <1>4, <1>5, <1>9 DEF Crash, GiveUp, vars, ledger, TypeOK
<1>10. CASE OperatorPlan \/ InputsChange \/ UNCHANGED allVars
  BY <1>4, <1>5, <1>10 DEF OperatorPlan, SavePlan, InputsChange, allVars, vars, ledger
<1> QED
  BY <1>7, <1>8, <1>9, <1>10 DEF ReallocNext

(* As long as nobody revokes an envelope by hand, what was charged to it   *)
(* stays counted, also after rollovers have revoked it.                    *)
LEMMA RowsAlwaysKept == ReallocSafety => []RowsKept
<1>1. ReallocInit => RowsKept
  <2> SUFFICES ASSUME ReallocInit PROVE RowsKept
    OBVIOUS
  <2>1. Init /\ LedgerInv
    BY InitLedger DEF ReallocInit
  <2>2. \A c \in Client : snapshot[c] = None
    BY <2>1 DEF Init
  <2>3. ASSUME NEW e \in Envelope PROVE envelope[e].cashUsed >= CashSpent(e)
    <3>1. envelope[e].status # "revoked" /\ envelope[e].cashUsed = 0 /\ Conserved(e)
      BY <2>1 DEF Init, NoRow, LedgerInv, EnvelopeInv
    <3> QED
      BY <3>1 DEF Conserved
  <2> QED
    BY <2>2, <2>3 DEF RowsKept, RevokedKeepsSpending
<1>2. ReallocTypeOK /\ LedgerInv /\ LedgerInv' /\ RowsKept /\ [ReallocNext]_allVars => RowsKept'
  BY RowsKeptStep
<1> QED
  BY <1>1, <1>2, ReallocTypeCorrect, LedgerUnderRollover, PTL DEF ReallocSafety

THEOREM RolloverKeepsSpending == ReallocSafety => []RevokedKeepsSpending
<1>1. RowsKept => RevokedKeepsSpending
  BY DEF RowsKept
<1> QED
  BY <1>1, RowsAlwaysKept, PTL

(* Plans are numbered in the order they are stored in.                     *)
InOrder == \A p, q \in Plan : p < q /\ planState[q] # "unborn" => planState[p] # "unborn"

LEMMA InOrderStep ==
  ASSUME TypeOK, InOrder, [Next]_vars
  PROVE  InOrder'
<1>1. ASSUME NEW p \in Plan, NEW new, SavePlan(p, new) PROVE InOrder'
  BY <1>1 DEF SavePlan, InOrder, TypeOK
<1>2. ASSUME NEW p \in Plan, DiscardPlan(p) PROVE InOrder'
  BY <1>2 DEF DiscardPlan, IsLatest, InOrder, TypeOK
<1>3. ASSUME UNCHANGED plans PROVE InOrder'
  BY <1>3 DEF plans, InOrder
<1>4. CASE ClientStep
  BY <1>3, <1>4 DEF ClientStep, CheckLatest, Activate, AbortActivate, ReadForRevoke, WriteRevoked, GiveUp
<1>5. CASE LedgerStep
  <2>1. \A e \in Envelope, k \in Key : \A cash, calls : Consume(e, k, cash, calls) => UNCHANGED plans
    BY DEF Consume
  <2>2. \A e \in Envelope, k \in Key : \A amount :
           Reserve(e, k, amount) \/ Settle(e, k, amount) \/ Release(e, k) => UNCHANGED plans
    BY DEF Reserve, Settle, Release
  <2>3. UNCHANGED plans
    BY <1>5, <2>1, <2>2 DEF LedgerStep, ConsumeCall, ConsumeCash
  <2> QED
    BY <1>3, <2>3
<1> QED
  BY <1>1, <1>2, <1>3, <1>4, <1>5 DEF Next, PlanStep, vars, plans

LEMMA AlwaysInOrder == ReallocSafety => []InOrder
<1>1. Init => InOrder
  BY DEF Init, InOrder
<1>2. TypeOK /\ InOrder /\ [Next]_vars => InOrder'
  BY InOrderStep
<1> QED
  BY <1>1, <1>2, TypeCorrect, ReallocationRefinesTreasury, PTL DEF Spec

-----------------------------------------------------------------------------
(* Why money is conserved under the lease.  A plan is backed when its whole *)
(* budget, on top of what all other plans have spent, is covered by what    *)
(* operators granted.  That is so of every plan with a live envelope, so    *)
(* that charging it is harmless, and of the latest plan, so that activating *)
(* it, or rolling it over, is.  Two plans can be backed at once only when   *)
(* the second was granted by an operator; a plan that a rollover has stored *)
(* reuses the money of its predecessor, and what makes that sound is that   *)
(* the predecessor cannot spend before the new plan is active: it has no    *)
(* open commitment that could block the activation, and no scheduler works  *)
(* in between, also when the process dies there and another one takes over. *)
Live(p) == \E e \in Envelope : e[1] = p /\ envelope[e].status = "active"
OnlyLive(p) == \A q \in Plan : Live(q) => q = p
Usable(p) == Opened(p) # {} \/ ~AllocatesNothing(content[p])

Backed(p) ==
    /\ content[p] \in PlanContent
    /\ content[p].cash + SpentOutside({p}) <= granted
BothBacked(p, q) ==
    /\ content[p] \in PlanContent /\ content[q] \in PlanContent
    /\ content[p].cash + content[q].cash + SpentOutside({p, q}) <= granted

\* The money of p is on top of that of whatever plan is live.
Spare(p) == \A q \in Plan : Live(q) => BothBacked(p, q)

\* The latest plan is p, or an operator has planned since p was read.
Fresh(p) == Opened(p) = {} /\ Backed(p) /\ Spare(p)
Newest(p) == \A q \in Plan : IsLatest(q) => q = p \/ Fresh(q)

LiveBacked == \A p \in Plan : Live(p) => Backed(p)

LatestBacked ==
    \A p \in Plan :
        IsLatest(p) /\ Usable(p) =>
            /\ Backed(p)
            /\ Opened(p) # {} => OnlyLive(p)
            /\ Opened(p) = {} => ~Deferred \/ Spare(p)

\* What holds of a task at its stage, with the plan it has checked.
RollsOver(t) ==
    /\ Opened(t.previous) # {} /\ Backed(t.previous)
    /\ OnlyLive(t.previous) /\ Newest(t.previous)

Activates(t, check) ==
    /\ check = t.proposed
    /\ Usable(check) => Backed(check)
    /\ \A p \in Plan :
          IsLatest(p) => p = check \/ (Fresh(p) /\ (Usable(check) => BothBacked(p, check)))

Reads(t, check) ==
    /\ t.at = "envelopes" =>
          /\ Newest(t.previous)
          /\ Opened(t.previous) # {} => Backed(t.previous) /\ OnlyLive(t.previous)
    /\ t.at \in {"commitments", "propose", "store"} => RollsOver(t)
    /\ t.at \in {"commitments", "propose"} => SpentUnder(t.previous) <= t.cash
    /\ t.at \in {"propose", "store"} => ~Deferred
    /\ t.at = "store" => t.offer.cash + SpentUnder(t.previous) <= content[t.previous].cash
    /\ t.at \in {"activate", "activating"} /\ t.proposed # t.previous => ~Deferred
    /\ t.at = "activating" => Activates(t, check)
    /\ t.at # "discard"
    /\ t.at = "working" =>
          \A p \in Plan : IsLatest(p) /\ Usable(p) /\ Opened(p) = {} => Spare(p)

Solo == \A c, d \in Client : ~At(c, "idle") /\ ~At(d, "idle") => c = d

Backing == TotalSpent <= granted /\ LiveBacked /\ LatestBacked

MoneyInv ==
    leased => /\ Backing
              /\ Solo
              /\ \A c \in Client : Reads(task[c], checked[c])

(* A step that charges nothing changes no sum.                             *)
LEMMA SpendingFrame ==
  ASSUME UNCHANGED <<consumption, reservation>>
  PROVE  /\ TotalSpent' = TotalSpent
         /\ \A S : SpentOutside(S)' = SpentOutside(S)
         /\ \A p : SpentUnder(p)' = SpentUnder(p)
         /\ Deferred' <=> Deferred
<1>1. ASSUME NEW e \in Envelope PROVE CashSpent(e)' = CashSpent(e)
  BY ConsumptionFrame, ReservationFrame DEF CashSpent
<1>2. Deferred' <=> Deferred
  BY DEF Deferred, IsOpen
<1> QED
  BY <1>1, <1>2 DEF TotalSpent, SpentOutside, SpentUnder

LEMMA BackingFrame ==
  ASSUME UNCHANGED <<consumption, reservation, content, granted>>
  PROVE  \A p : /\ Backed(p)' <=> Backed(p)
                /\ \A q : BothBacked(p, q)' <=> BothBacked(p, q)
BY SpendingFrame DEF Backed, BothBacked

(* What a task knows, and what backs the plans, is about the tables only.  *)
LEMMA MoneyFrame ==
  ASSUME UNCHANGED <<planState, content, envelope, consumption, reservation, granted>>
  PROVE  /\ Backing' <=> Backing
         /\ \A t, check : Reads(t, check)' <=> Reads(t, check)
<1>1. \A p : /\ Live(p)' <=> Live(p)
             /\ Opened(p)' = Opened(p)
             /\ IsLatest(p)' <=> IsLatest(p)
  BY DEF Live, Opened, IsLatest
<1>2. \A p : /\ OnlyLive(p)' <=> OnlyLive(p)
             /\ Usable(p)' <=> Usable(p)
             /\ Spare(p)' <=> Spare(p)
  BY <1>1, BackingFrame DEF OnlyLive, Usable, Spare
<1>3. \A p : Fresh(p)' <=> Fresh(p)
  BY <1>1, <1>2, BackingFrame DEF Fresh
<1>4. \A p : Newest(p)' <=> Newest(p)
  BY <1>1, <1>3 DEF Newest
<1>5. \A t : RollsOver(t)' <=> RollsOver(t)
  BY <1>1, <1>2, <1>4, BackingFrame DEF RollsOver
<1>6. \A t, check : Activates(t, check)' <=> Activates(t, check)
  BY <1>1, <1>2, <1>3, BackingFrame DEF Activates
<1>7. Backing' <=> Backing
  BY <1>1, <1>2, BackingFrame, SpendingFrame DEF Backing, LiveBacked, LatestBacked
<1>8. ASSUME NEW t, NEW check PROVE Reads(t, check)' <=> Reads(t, check)
  BY <1>1, <1>2, <1>4, <1>5, <1>6, BackingFrame, SpendingFrame DEF Reads
<1> QED
  BY <1>7, <1>8

(* One task moves while all others are between two wakes.                  *)
LEMMA SoloMoves ==
  ASSUME ReallocTypeOK, NEW c \in Client, NEW t, NEW check, Goto(c, t), checked'[c] = check,
         \A d \in Client \ {c} : At(d, "idle"),
         Backing', Reads(t, check)'
  PROVE  MoneyInv'
<1>1. task'[c] = t /\ \A d \in Client \ {c} : task'[d].at = "idle"
  BY DEF Goto, ReallocTypeOK, At
<1>2. Solo'
  BY <1>1 DEF Solo, At
<1>3. ASSUME NEW d \in Client PROVE Reads(task[d], checked[d])'
  <2>1. CASE d = c
    <3>1. task'[d] = t /\ checked'[d] = check
      BY <1>1, <2>1
    <3> QED
      BY <3>1 DEF Reads, Activates, RollsOver
  <2>2. CASE d # c
    <3>1. task'[d].at = "idle"
      BY <1>1, <2>2
    <3> QED
      BY <3>1 DEF Reads
  <2> QED
    BY <2>1, <2>2
<1> QED
  BY <1>2, <1>3 DEF MoneyInv

(* The same when the move touches no table.                                *)
LEMMA SoloReads ==
  ASSUME ReallocTypeOK, leased, MoneyInv, NEW c \in Client, NEW t, Goto(c, t),
         \A d \in Client \ {c} : At(d, "idle"),
         UNCHANGED <<planState, content, envelope, consumption, reservation, granted>>,
         Reads(t, checked'[c])
  PROVE  MoneyInv'
<1>1. Backing'
  BY MoneyFrame DEF MoneyInv
<1>2. PICK check : check = checked'[c]
  OBVIOUS
<1>3. Reads(t, check)
  BY <1>2
<1>4. Reads(t, check)'
  BY <1>3, MoneyFrame
<1> QED
  BY <1>1, <1>2, <1>4, SoloMoves

-----------------------------------------------------------------------------
(* Storing a plan opens nothing, spends nothing, and makes it the latest.  *)
LEMMA SaveKeeps ==
  ASSUME LedgerInv, InOrder, NEW p \in Plan, NEW new \in PlanContent, SavePlan(p, new),
         granted \in Nat, granted' \in Nat, granted <= granted'
  PROVE  /\ \A q \in Plan : IsLatest(q)' => q = p
         /\ content'[p] = new /\ planState[p] = "unborn" /\ ~Live(p) /\ Opened(p) = {}
         /\ \A q : Opened(q)' = Opened(q) /\ (Live(q)' <=> Live(q))
         /\ \A q \in Plan \ {p} : content'[q] = content[q] /\ (Usable(q)' <=> Usable(q))
         /\ \A q \in Plan : Backed(q) => q # p /\ Backed(q)'
         /\ UNCHANGED <<consumption, reservation, envelope, checked>>
<1>1. /\ TypeOK /\ planState[p] = "unborn" /\ content[p] = None
      /\ planState' = [planState EXCEPT ![p] = "saved"] /\ content' = [content EXCEPT ![p] = new]
      /\ \A q \in Plan : q < p => planState[q] # "unborn"
      /\ UNCHANGED <<consumption, reservation, envelope, checked>>
  BY DEF SavePlan, LedgerInv, ledger
<1>2. ASSUME NEW q \in Plan, IsLatest(q)' PROVE q = p
  <2>1. planState'[p] = "saved" /\ planState'[q] = "saved" /\ p <= q
    BY <1>1, <1>2 DEF IsLatest, TypeOK
  <2>2. CASE q # p
    <3>1. p < q /\ planState[q] = "saved"
      BY <1>1, <2>1, <2>2 DEF TypeOK, Plan
    <3> QED
      BY <1>1, <3>1 DEF InOrder
  <2> QED
    BY <2>2
<1>3. \A e \in Envelope : e[1] = p => envelope[e].status = "none"
  BY <1>1, NoneAssumption DEF LedgerInv, EnvelopeInv, LimitsFromPlan
<1>4. ~Live(p) /\ Opened(p) = {}
  BY <1>3 DEF Live, Opened
<1>5. \A q : Opened(q)' = Opened(q) /\ (Live(q)' <=> Live(q))
  BY <1>1 DEF Opened, Live
<1>6. \A q \in Plan \ {p} : content'[q] = content[q]
  BY <1>1 DEF TypeOK
<1>7. content'[p] = new
  BY <1>1 DEF TypeOK
<1>8. \A q \in Plan \ {p} : Usable(q)' <=> Usable(q)
  BY <1>5, <1>6 DEF Usable
<1>9. ASSUME NEW q \in Plan, Backed(q) PROVE q # p /\ Backed(q)'
  <2>1. q # p
    BY <1>1, <1>9, NoneAssumption DEF Backed
  <2>2. SpentOutside({q})' = SpentOutside({q}) /\ SpentOutside({q}) \in Nat /\ content[q].cash \in Nat
    BY <1>1, <1>9, SpendingFrame, SpendingFacts, PlanAssumption DEF SpendingAddsUp, Backed
  <2> QED
    BY <1>6, <1>9, <2>1, <2>2 DEF Backed
<1> QED
  BY <1>1, <1>2, <1>4, <1>5, <1>6, <1>7, <1>8, <1>9

(* Storing a plan keeps everything backed if the plan is, and if it either *)
(* has money of its own or finds no commitment open.                       *)
LEMMA SaveBacks ==
  ASSUME LedgerInv, InOrder, Backing, NEW p \in Plan, NEW new \in PlanContent, SavePlan(p, new),
         granted \in Nat, granted' \in Nat, granted <= granted',
         Backed(p)', ~Deferred \/ Spare(p)'
  PROVE  Backing'
<1>1. UNCHANGED <<consumption, reservation>>
  BY SaveKeeps
<1>2. TotalSpent' <= granted'
  <2>1. TotalSpent' = TotalSpent /\ TotalSpent \in Nat
    BY <1>1, SpendingFrame, SpendingFacts DEF SpendingAddsUp
  <2>2. TotalSpent <= granted
    BY DEF Backing
  <2> QED
    BY <2>1, <2>2
<1>3. LiveBacked'
  BY SaveKeeps DEF Backing, LiveBacked
<1>4. LatestBacked'
  <2>1. Opened(p)' = {} /\ \A q \in Plan : IsLatest(q)' => q = p
    BY SaveKeeps
  <2>2. Deferred' <=> Deferred
    BY <1>1, SpendingFrame
  <2> QED
    BY <2>1, <2>2 DEF LatestBacked
<1> QED
  BY <1>2, <1>3, <1>4 DEF Backing

(* A budget an operator plans with is money of its own.                    *)
LEMMA GrantBacks ==
  ASSUME LedgerInv, InOrder, Backing, NEW p \in Plan, NEW new \in PlanContent, SavePlan(p, new),
         granted \in Nat, granted' = granted + new.cash
  PROVE  /\ Backing' /\ Fresh(p)'
         /\ \A q \in Plan : Backed(q) => BothBacked(p, q)'
<1>1. /\ SpendingAddsUp /\ new.cash \in Nat /\ granted' \in Nat /\ granted <= granted'
      /\ TotalSpent <= granted
  BY SpendingFacts, PlanAssumption DEF Backing
<1>2. /\ content'[p] = new /\ Opened(p)' = {}
      /\ \A q : Opened(q)' = Opened(q) /\ (Live(q)' <=> Live(q))
      /\ \A q \in Plan \ {p} : content'[q] = content[q]
      /\ \A q \in Plan : Backed(q) => q # p
      /\ UNCHANGED <<consumption, reservation>>
  BY <1>1, SaveKeeps
<1>3. \A S : SpentOutside(S)' = SpentOutside(S)
  BY <1>2, SpendingFrame
<1>4. Backed(p)'
  <2>1. /\ TotalSpent = SpentOutside({p}) + SpentUnder(p)
        /\ SpentOutside({p}) \in Nat /\ SpentUnder(p) \in Nat
    BY <1>1 DEF SpendingAddsUp
  <2>2. new.cash + SpentOutside({p}) <= granted'
    BY <1>1, <2>1
  <2> QED
    BY <1>2, <1>3, <2>2 DEF Backed
<1>5. ASSUME NEW q \in Plan, Backed(q) PROVE BothBacked(p, q)'
  <2>1. q # p /\ content'[q] = content[q] /\ content[q] \in PlanContent /\ content[q].cash \in Nat
    BY <1>2, <1>5, PlanAssumption DEF Backed
  <2>2. /\ SpentOutside({q}) = SpentOutside({p, q}) + SpentUnder(p)
        /\ SpentOutside({p, q}) \in Nat /\ SpentOutside({q}) \in Nat /\ SpentUnder(p) \in Nat
    BY <1>1, <2>1 DEF SpendingAddsUp
  <2>3. content[q].cash + SpentOutside({q}) <= granted
    BY <1>5 DEF Backed
  <2>4. new.cash + content[q].cash + SpentOutside({p, q}) <= granted'
    BY <1>1, <2>1, <2>2, <2>3
  <2> QED
    BY <1>2, <1>3, <2>1, <2>4 DEF BothBacked
<1>6. Spare(p)'
  BY <1>2, <1>5 DEF Spare, Backing, LiveBacked
<1>7. Backing'
  BY <1>1, <1>4, <1>6, SaveBacks
<1> QED
  BY <1>2, <1>4, <1>5, <1>6, <1>7 DEF Fresh

(* What a plan proposed by a rollover may spend is what is left.           *)
LEMMA ProposalCash ==
  ASSUME ReallocTypeOK, NEW p \in Plan, content[p] \in PlanContent, NEW cash \in Nat, NEW calls \in Nat
  PROVE  Proposal(inputs, Left(content[p].cash, cash), Left(content[p].calls, calls)).cash
           = Left(content[p].cash, cash)
<1> DEFINE budget == content[p]
           leftCash == Left(budget.cash, cash)
           leftCalls == Left(budget.calls, calls)
<1>1. budget.cash \in Nat /\ budget.calls \in Nat
  BY PlanAssumption
<1>2. leftCash \in 0..budget.cash /\ leftCalls \in 0..budget.calls
  BY <1>1 DEF Left
<1>3. \E d \in PlanContent : d.inputs = inputs /\ d.cash = leftCash /\ d.calls = leftCalls
  BY <1>2, RolloverAssumption DEF ReallocTypeOK
<1> HIDE DEF leftCash, leftCalls
<1>4. Proposal(inputs, leftCash, leftCalls).cash = leftCash
  BY <1>3 DEF Proposal
<1> QED
  BY <1>4 DEF leftCash, leftCalls

-----------------------------------------------------------------------------
(* Activating a plan spends nothing, and leaves only its envelopes live.   *)
LEMMA OnlyActivatedLive ==
  ASSUME LedgerInv, NEW c \in Client, Activate(c), NEW p \in Plan, p = checked[c]
  PROVE  /\ UNCHANGED <<consumption, reservation, content, planState>>
         /\ \A q \in Plan : Live(q)' => q = p
         /\ \A q \in Plan \ {p} : Opened(q)' = Opened(q) /\ (Usable(q)' <=> Usable(q))
         /\ Usable(p)' => Usable(p) /\ Opened(p)' # {}
<1>1. /\ TypeOK /\ \A e \in Envelope : envelope'[e] = Activated(p, e)
      /\ UNCHANGED <<consumption, reservation, content, planState>>
  BY DEF Activate, LedgerInv, plans
<1>2. ASSUME NEW e \in Envelope, envelope'[e].status = "active" PROVE e[1] = p
  BY <1>1, <1>2 DEF Activated, Superseded, TypeOK, Row
<1>3. ASSUME NEW e \in Envelope, e[1] # p
      PROVE  envelope'[e].status # "none" <=> envelope[e].status # "none"
  BY <1>1, <1>3 DEF Activated, Superseded, TypeOK, Row
<1>4. ASSUME NEW e \in Envelope, e[1] = p
      PROVE  envelope'[e].status # "none" <=> envelope[e].status # "none" \/ IsFunded(p, e[2])
  <2>1. e \notin Superseded(p)
    BY <1>4 DEF Superseded
  <2>2. CASE IsFunded(p, e[2]) /\ envelope[e].status = "none"
    <3>1. Activated(p, e).status = "active"
      BY <1>4, <2>1, <2>2 DEF Activated
    <3> QED
      BY <1>1, <2>2, <3>1
  <2>3. CASE ~(IsFunded(p, e[2]) /\ envelope[e].status = "none")
    <3>1. envelope'[e] = envelope[e]
      BY <1>1, <1>4, <2>1, <2>3 DEF Activated
    <3> QED
      BY <2>3, <3>1
  <2> QED
    BY <2>2, <2>3
<1>5. \A q \in Plan : Live(q)' => q = p
  BY <1>2 DEF Live
<1>6. ASSUME NEW q \in Plan \ {p} PROVE Opened(q)' = Opened(q) /\ (Usable(q)' <=> Usable(q))
  <2>1. Opened(q)' = Opened(q)
    BY <1>3 DEF Opened
  <2> QED
    BY <1>1, <2>1 DEF Usable
<1>7. ASSUME NEW v \in Venture, IsFunded(p, v) PROVE Opened(p)' # {} /\ Usable(p)
  <2>1. <<p, v>> \in Envelope /\ <<p, v>>[1] = p /\ <<p, v>>[2] = v
    BY DEF Envelope
  <2>2. <<p, v>> \in Opened(p)'
    BY <1>4, <1>7, <2>1 DEF Opened
  <2>3. ~AllocatesNothing(content[p])
    <3>1. content[p].alloc[v].cash + content[p].alloc[v].calls # 0
      BY <1>7 DEF IsFunded
    <3> QED
      BY <3>1 DEF AllocatesNothing
  <2> QED
    BY <2>2, <2>3 DEF Usable
<1>8. ASSUME Usable(p)' PROVE Usable(p) /\ Opened(p)' # {}
  <2>1. CASE Opened(p)' # {}
    <3>1. PICK e \in Envelope : e[1] = p /\ envelope'[e].status # "none"
      BY <2>1 DEF Opened
    <3>2. CASE IsFunded(p, e[2])
      BY <1>7, <2>1, <3>2 DEF Envelope
    <3>3. CASE envelope[e].status # "none"
      BY <2>1, <3>1, <3>3 DEF Usable, Opened
    <3> QED
      BY <1>4, <3>1, <3>2, <3>3
  <2>2. CASE Opened(p)' = {}
    <3>1. ~AllocatesNothing(content[p])
      BY <1>1, <1>8, <2>2 DEF Usable
    <3>2. PICK v \in Venture : content[p].alloc[v].cash + content[p].alloc[v].calls # 0
      BY <3>1 DEF AllocatesNothing
    <3>3. content[p] \in PlanContent
      BY <1>1 DEF TypeOK, Activate
    <3>4. content[p].alloc[v].cash \in Nat /\ content[p].alloc[v].calls \in Nat
      BY <3>3, PlanAssumption DEF Allocation
    <3>5. IsFunded(p, v)
      BY <3>2, <3>4 DEF IsFunded
    <3> QED
      BY <1>7, <3>5
  <2> QED
    BY <2>1, <2>2
<1> QED
  BY <1>1, <1>5, <1>6, <1>8

(* A rollover that activates the plan it has checked makes a backed plan   *)
(* the only live one.  If an operator has planned since the check, there   *)
(* is money for that plan besides.                                         *)
LEMMA RolloverMoney ==
  ASSUME ReallocTypeOK, LedgerInv, MoneyInv, leased, NEW c \in Client, Rollover(c),
         \A d \in Client \ {c} : At(d, "idle")
  PROVE  MoneyInv'
<1> DEFINE working == [NoTask EXCEPT !.at = "working"]
<1>0. PICK p \in Plan : p = checked[c]
  BY DEF Rollover, Activate, LedgerInv, TypeOK
<1>1. /\ Activate(c) /\ Goto(c, working) /\ UNCHANGED granted
      /\ Activates(task[c], p) /\ Backing
  BY <1>0 DEF Rollover, Work, OnlyTask, At, MoneyInv, Reads
<1>2. /\ UNCHANGED <<consumption, reservation, content, planState>>
      /\ \A q \in Plan : Live(q)' => q = p
      /\ \A q \in Plan \ {p} : Opened(q)' = Opened(q) /\ (Usable(q)' <=> Usable(q))
      /\ Usable(p)' => Usable(p) /\ Opened(p)' # {}
  BY <1>0, <1>1, OnlyActivatedLive
<1>3. \A q : /\ Backed(q)' <=> Backed(q)
             /\ \A r : BothBacked(q, r)' <=> BothBacked(q, r)
             /\ IsLatest(q)' <=> IsLatest(q)
  BY <1>1, <1>2, BackingFrame DEF IsLatest
<1>4. ASSUME Live(p)' PROVE Usable(p) /\ Backed(p)
  <2>1. Opened(p)' # {}
    BY <1>4 DEF Live, Opened
  <2>2. Usable(p)'
    BY <2>1 DEF Usable
  <2> QED
    BY <1>1, <1>2, <2>2 DEF Activates
<1>5. LiveBacked'
  BY <1>2, <1>3, <1>4 DEF LiveBacked
\* A plan that an operator stored in the meantime.
<1>6. ASSUME NEW q \in Plan, IsLatest(q)', q # p
      PROVE  Opened(q)' = {} /\ Backed(q)' /\ Spare(q)'
  <2>1. Fresh(q) /\ (Usable(p) => BothBacked(q, p))
    BY <1>1, <1>3, <1>6 DEF Activates
  <2>2. Spare(q)'
    BY <1>2, <1>3, <1>4, <2>1 DEF Spare
  <2> QED
    BY <1>2, <1>3, <1>6, <2>1, <2>2 DEF Fresh
<1>7. LatestBacked'
  <2> SUFFICES ASSUME NEW q \in Plan, IsLatest(q)', Usable(q)'
               PROVE  /\ Backed(q)'
                      /\ Opened(q)' # {} => OnlyLive(q)'
                      /\ Opened(q)' = {} => ~Deferred' \/ Spare(q)'
    BY DEF LatestBacked
  <2>1. CASE q = p
    BY <1>1, <1>2, <1>3, <2>1 DEF OnlyLive, Activates
  <2>2. CASE q # p
    BY <1>6, <2>2
  <2> QED
    BY <2>1, <2>2
<1>8. Backing'
  BY <1>1, <1>2, <1>5, <1>7, SpendingFrame DEF Backing
<1>9. ASSUME NEW q \in Plan, IsLatest(q)', Usable(q)', Opened(q)' = {} PROVE Spare(q)'
  BY <1>2, <1>6, <1>9
<1>10. PICK t : t = working
  OBVIOUS
<1>11. PICK check : check = checked'[c]
  OBVIOUS
<1>12. t.at = "working"
  BY <1>10 DEF NoTask
<1>13. Reads(t, check)'
  BY <1>9, <1>12 DEF Reads
<1> HIDE DEF working
<1> QED
  BY <1>1, <1>8, <1>10, <1>11, <1>13, SoloMoves

(* No step of a tick creates money.                                        *)
LEMMA TickMoney ==
  ASSUME ReallocTypeOK, LedgerInv, LedgerInv', InOrder, RowsKept, MoneyInv, leased,
         NEW c \in Client, TickStep(c)
  PROVE  MoneyInv'
<1> DEFINE t == task[c]
           x == t.previous
           working == [NoTask EXCEPT !.at = "working"]
<1>1. /\ TypeOK /\ t \in Task /\ Backing /\ Reads(t, checked[c]) /\ Knows(t, checked[c])
      /\ SpendingAddsUp /\ granted \in Nat
  BY SpendingFacts DEF MoneyInv, ReallocTypeOK, LedgerInv, Knows, At
<1>2. \A d \in Client \ {c} : At(d, "idle")
  <2>1. CASE Begin(c)
    BY <2>1 DEF Begin
  <2>2. CASE ~Begin(c)
    <3>1. ~At(c, "idle")
      BY <2>2 DEF TickStep, ReadEnvelopes, ReadCommitments, Propose, StorePlan, StoreIgnored,
                  CheckProposed, Conflict, Rollover, Blocked, Discard, EndTick, At
    <3> QED
      BY <3>1 DEF MoneyInv, Solo
  <2> QED
    BY <2>1, <2>2
<1>3. ASSUME NEW u, Goto(c, u), Reads(u, checked'[c]), OnlyTask,
             UNCHANGED <<planState, content, envelope, consumption, reservation>>
      PROVE  MoneyInv'
  BY <1>2, <1>3, SoloReads DEF OnlyTask
<1>4. \A check : Reads(NoTask, check)
  BY DEF Reads, NoTask
<1>5. ASSUME \A p \in Plan : IsLatest(p) /\ Usable(p) /\ Opened(p) = {} => Spare(p)
      PROVE  \A check : Reads(working, check)
  BY <1>5 DEF Reads, NoTask
\* A task that has read the latest plan may work when that plan is open or empty.
<1>6. ASSUME Newest(x), Opened(x) # {} \/ ~Usable(x)
      PROVE  \A check : Reads(working, check)
  <2>1. \A p \in Plan : IsLatest(p) /\ Usable(p) /\ Opened(p) = {} => Spare(p)
    BY <1>6 DEF Newest, Fresh
  <2> QED
    BY <1>5, <2>1
<1> HIDE DEF working, t
<1>7. CASE Begin(c)
  <2>1. OnlyTask /\ UNCHANGED vars
    BY <1>7 DEF Begin
  <2>2. ASSUME NEW p \in Plan, IsLatest(p), Goto(c, [NoTask EXCEPT !.at = "envelopes", !.previous = p])
        PROVE  MoneyInv'
    <3> DEFINE u == [NoTask EXCEPT !.at = "envelopes", !.previous = p]
    <3>1. u.at = "envelopes" /\ u.previous = p
      BY DEF NoTask
    <3>2. Newest(p)
      BY <2>2 DEF Newest, IsLatest, Plan
    <3>3. Opened(p) # {} => Backed(p) /\ OnlyLive(p)
      BY <1>1, <2>2 DEF Backing, LatestBacked, Usable
    <3> HIDE DEF u
    <3>4. Reads(u, checked'[c])
      BY <3>1, <3>2, <3>3 DEF Reads
    <3> QED
      BY <1>3, <2>1, <2>2, <3>4 DEF u, vars
  <2>3. ASSUME ~\E p \in Plan : planState[p] = "saved", Work(c)
        PROVE  MoneyInv'
    <3>1. \A check : Reads(working, check)
      BY <1>5, <2>3 DEF IsLatest
    <3> QED
      BY <1>3, <2>1, <2>3, <3>1 DEF Work, working, vars
  <2> QED
    BY <1>7, <2>2, <2>3 DEF Begin
<1>8. CASE ReadEnvelopes(c)
  <2>1. /\ t.at = "envelopes" /\ OnlyTask /\ UNCHANGED vars
        /\ Newest(x) /\ (Opened(x) # {} => Backed(x) /\ OnlyLive(x))
    BY <1>1, <1>8 DEF ReadEnvelopes, At, Reads, t
  <2>2. CASE Opened(x) = {} /\ AllocatesNothing(content[x]) /\ Work(c)
    <3>1. \A check : Reads(working, check)
      BY <1>6, <2>1, <2>2 DEF Usable
    <3> QED
      BY <1>3, <2>1, <2>2, <3>1 DEF Work, working, vars
  <2>3. CASE Goto(c, [t EXCEPT !.at = "activate", !.proposed = x])
    <3> DEFINE u == [t EXCEPT !.at = "activate", !.proposed = x]
    <3>1. u.at = "activate" /\ u.proposed = x /\ u.previous = x
      BY <1>1 DEF Task
    <3> HIDE DEF u
    <3>2. Reads(u, checked'[c])
      BY <3>1 DEF Reads
    <3> QED
      BY <1>3, <2>1, <2>3, <3>2 DEF u, vars
  <2>4. CASE /\ Opened(x) # {}
             /\ Goto(c, [t EXCEPT !.at = "commitments", !.cash = CashUsed(x), !.calls = CallsUsed(x)])
    <3> DEFINE u == [t EXCEPT !.at = "commitments", !.cash = CashUsed(x), !.calls = CallsUsed(x)]
    <3>1. u.at = "commitments" /\ u.previous = x /\ u.cash = CashUsed(x)
      BY <1>1 DEF Task
    <3>2. SpentUnder(x) <= CashUsed(x)
      BY UsedCountsSpending DEF RowsKept
    <3> HIDE DEF u
    <3>3. Reads(u, checked'[c])
      BY <2>1, <2>4, <3>1, <3>2 DEF Reads, RollsOver
    <3> QED
      BY <1>3, <2>1, <2>4, <3>3 DEF u, vars
  <2> QED
    BY <1>8, <2>2, <2>3, <2>4 DEF ReadEnvelopes, t
<1>9. CASE ReadCommitments(c)
  <2>1. /\ t.at = "commitments" /\ OnlyTask /\ UNCHANGED vars
        /\ RollsOver(t) /\ SpentUnder(x) <= t.cash
    BY <1>1, <1>9 DEF ReadCommitments, At, Reads, t
  <2>2. CASE HasOpenCommitment(x)
    <3>1. \A check : Reads(working, check)
      BY <1>6, <2>1 DEF RollsOver
    <3> QED
      BY <1>3, <1>9, <2>1, <2>2, <3>1 DEF ReadCommitments, Work, working, vars, t
  <2>3. CASE ~HasOpenCommitment(x)
    <3> DEFINE u == [t EXCEPT !.at = "propose"]
    <3>1. u.at = "propose" /\ u.previous = x /\ u.cash = t.cash
      BY <1>1 DEF Task
    <3>2. ~Deferred
      <4> SUFFICES ASSUME NEW e \in Envelope, NEW k \in Key, IsOpen(e, k) PROVE FALSE
        BY DEF Deferred
      <4>1. envelope[e].status = "active" /\ e[1] \in Plan
        BY DEF LedgerInv, EnvelopeInv, CommitmentRow, Envelope
      <4>2. e[1] = x
        BY <2>1, <4>1 DEF RollsOver, OnlyLive, Live
      <4>3. e \in Opened(x)
        BY <4>1, <4>2 DEF Opened
      <4> QED
        BY <2>3, <4>3 DEF HasOpenCommitment
    <3> HIDE DEF u
    <3>3. RollsOver(u)
      BY <2>1, <3>1 DEF RollsOver
    <3>4. Reads(u, checked'[c])
      BY <2>1, <3>1, <3>2, <3>3 DEF Reads
    <3> QED
      BY <1>3, <1>9, <2>1, <2>3, <3>4 DEF ReadCommitments, u, vars, t
  <2> QED
    BY <2>2, <2>3
<1>10. CASE Propose(c)
  <2> DEFINE offer == Proposal(inputs, Left(content[x].cash, t.cash), Left(content[x].calls, t.calls))
  <2>1. /\ t.at = "propose" /\ OnlyTask /\ UNCHANGED vars
        /\ RollsOver(t) /\ SpentUnder(x) <= t.cash /\ ~Deferred
        /\ x \in Plan /\ t.cash \in Nat /\ t.calls \in Nat
    BY <1>1, <1>10 DEF Propose, At, Reads, Knows, Stored, Task, t
  <2>2. CASE Work(c)
    <3>1. \A check : Reads(working, check)
      BY <1>6, <2>1 DEF RollsOver
    <3> QED
      BY <1>3, <2>1, <2>2, <3>1 DEF Work, working, vars
  <2>3. CASE Goto(c, [t EXCEPT !.at = "store", !.offer = offer])
    <3> DEFINE u == [t EXCEPT !.at = "store", !.offer = offer]
    <3>1. u.at = "store" /\ u.previous = x /\ u.offer = offer
      BY <1>1 DEF Task
    <3>2. content[x] \in PlanContent
      BY <2>1 DEF RollsOver, Backed
    <3>3. offer.cash = Left(content[x].cash, t.cash)
      BY <2>1, <3>2, ProposalCash
    <3>4. content[x].cash \in Nat /\ SpentUnder(x) \in Nat /\ SpentUnder(x) <= content[x].cash
      BY <1>1, <2>1, <3>2 DEF SpendingAddsUp
    <3>5. Left(content[x].cash, t.cash) + SpentUnder(x) <= content[x].cash
      BY <2>1, <3>4 DEF Left
    <3> HIDE DEF u, offer
    <3>6. RollsOver(u)
      BY <2>1, <3>1 DEF RollsOver
    <3>7. Reads(u, checked'[c])
      BY <2>1, <3>1, <3>3, <3>5, <3>6 DEF Reads
    <3> QED
      BY <1>3, <2>1, <2>3, <3>7 DEF u, vars
  <2>4. ASSUME NEW p \in Plan, Goto(c, [t EXCEPT !.at = "activate", !.proposed = p])
        PROVE  MoneyInv'
    <3> DEFINE u == [t EXCEPT !.at = "activate", !.proposed = p]
    <3>1. u.at = "activate"
      BY <1>1 DEF Task
    <3> HIDE DEF u
    <3>2. Reads(u, checked'[c])
      BY <2>1, <3>1 DEF Reads
    <3> QED
      BY <1>3, <2>1, <2>4, <3>2 DEF u, vars
  <2> QED
    BY <1>10, <2>2, <2>3, <2>4 DEF Propose, t
<1>11. CASE StorePlan(c)
  <2>1. /\ t.at = "store" /\ OnlyTask /\ RollsOver(t) /\ ~Deferred /\ t.offer \in PlanContent
        /\ t.offer.cash + SpentUnder(x) <= content[x].cash /\ x \in Plan
    BY <1>1, <1>11 DEF StorePlan, At, Reads, Knows, Stored, t
  <2>2. PICK p \in Plan : /\ SavePlan(p, t.offer)
                          /\ Goto(c, [t EXCEPT !.at = "activate", !.proposed = p])
    BY <1>11 DEF StorePlan, t
  <2>3. /\ content'[p] = t.offer /\ UNCHANGED granted /\ UNCHANGED <<consumption, reservation, checked>>
    BY <1>1, <2>1, <2>2, SaveKeeps DEF OnlyTask
  <2>4. Backed(p)'
    <3>1. content[x] \in PlanContent /\ content[x].cash + SpentOutside({x}) <= granted
      BY <2>1 DEF RollsOver, Backed
    <3>2. /\ TotalSpent = SpentOutside({x}) + SpentUnder(x)
          /\ TotalSpent = SpentOutside({p}) + SpentUnder(p)
          /\ SpentOutside({x}) \in Nat /\ SpentUnder(x) \in Nat
          /\ SpentOutside({p}) \in Nat /\ SpentUnder(p) \in Nat
      BY <1>1, <2>1, <2>2 DEF SpendingAddsUp
    <3>3. content[x].cash \in Nat /\ t.offer.cash \in Nat
      BY <2>1, <3>1, PlanAssumption
    <3>4. t.offer.cash + SpentOutside({p}) <= granted
      BY <1>1, <2>1, <3>1, <3>2, <3>3
    <3>5. SpentOutside({p})' = SpentOutside({p})
      BY <2>3, SpendingFrame
    <3> QED
      BY <2>1, <2>3, <3>4, <3>5 DEF Backed
  <2>5. Backing'
    BY <1>1, <2>1, <2>2, <2>3, <2>4, SaveBacks
  <2>6. ~Deferred'
    BY <2>1, <2>3, SpendingFrame
  <2>7. PICK u : u = [t EXCEPT !.at = "activate", !.proposed = p]
    OBVIOUS
  <2>8. PICK check : check = checked'[c]
    OBVIOUS
  <2>9. u.at = "activate"
    BY <1>1, <2>7 DEF Task
  <2>10. Reads(u, check)'
    BY <2>6, <2>9 DEF Reads
  <2> QED
    BY <1>2, <2>2, <2>5, <2>7, <2>8, <2>10, SoloMoves
<1>12. CASE StoreIgnored(c) \/ Conflict(c) \/ EndTick(c)
  BY <1>3, <1>4, <1>12 DEF StoreIgnored, Conflict, EndTick, Fail, vars
<1>13. CASE CheckProposed(c)
  <2> DEFINE p == t.proposed
             u == [t EXCEPT !.at = "activating"]
  <2>1. /\ t.at = "activate" /\ CheckLatest(c, p) /\ Goto(c, u) /\ OnlyTask /\ p \in Plan
        /\ p # x => ~Deferred
    BY <1>1, <1>13 DEF CheckProposed, At, Reads, Knows, Stored, t
  <2>2. u.at = "activating" /\ u.proposed = p /\ u.previous = x
    BY <1>1 DEF Task
  <2>3. checked'[c] = p /\ IsLatest(p)
        /\ UNCHANGED <<planState, content, envelope, consumption, reservation>>
    BY <1>1, <2>1 DEF CheckLatest, TypeOK, plans, ledger
  <2>4. \A q \in Plan : IsLatest(q) => q = p
    BY <2>1, <2>3 DEF IsLatest, Plan
  <2>5. Usable(p) => Backed(p)
    BY <1>1, <2>1, <2>3 DEF Backing, LatestBacked
  <2> HIDE DEF u, p
  <2>6. Activates(u, p)
    BY <2>2, <2>4, <2>5 DEF Activates
  <2>7. Reads(u, checked'[c])
    BY <2>1, <2>2, <2>3, <2>6 DEF Reads
  <2> QED
    BY <1>3, <2>1, <2>3, <2>7
<1>14. CASE Rollover(c)
  BY <1>2, <1>14, RolloverMoney
<1>15. CASE Blocked(c)
  <2>1. /\ t.at = "activating" /\ AbortActivate(c) /\ OnlyTask
        /\ Activates(t, checked[c]) /\ (t.proposed # x => ~Deferred)
    BY <1>1, <1>15 DEF Blocked, At, Reads, t
  <2>2. Deferred /\ UNCHANGED <<planState, content, envelope, consumption, reservation>>
    BY <2>1 DEF AbortActivate, Superseded, Deferred, plans, ledger
  <2>3. Work(c)
    BY <1>15, <2>1, <2>2 DEF Blocked, t
  <2>4. ASSUME NEW p \in Plan, IsLatest(p), Usable(p), Opened(p) = {} PROVE Spare(p)
    <3>1. CASE p = checked[c]
      BY <1>1, <2>2, <2>4, <3>1 DEF Backing, LatestBacked
    <3>2. CASE p # checked[c]
      BY <2>1, <2>4, <3>2 DEF Activates, Fresh
    <3> QED
      BY <3>1, <3>2
  <2>5. \A check : Reads(working, check)
    BY <1>5, <2>4
  <2> QED
    BY <1>3, <2>1, <2>2, <2>3, <2>5 DEF Work, working
<1>16. ~Discard(c)
  BY <1>1 DEF Discard, At, Reads, t
<1> QED
  BY <1>7, <1>8, <1>9, <1>10, <1>11, <1>12, <1>13, <1>14, <1>15, <1>16 DEF TickStep

(* Charging a live plan is covered by the budget that backs it.  A plan    *)
(* that waits to be activated while schedulers work has money besides, so  *)
(* it stays backed; that is what the stages of a tick ensure.              *)
LEMMA ChargeMoney ==
  ASSUME ReallocTypeOK, LedgerInv, LedgerInv', MoneyInv, leased, Charge
  PROVE  MoneyInv'
<1>1. /\ LedgerStep /\ UNCHANGED <<task, leased, granted>> /\ granted \in Nat
      /\ Backing /\ Solo /\ SpendingAddsUp /\ SpendingAddsUp'
      /\ \A c \in Client : Reads(task[c], checked[c])
  BY SpendingFacts, SpendingFactsAfter DEF Charge, tick, MoneyInv, ReallocTypeOK
<1>2. UNCHANGED <<planState, content, checked>>
  BY <1>1, ChargeOne DEF plans
<1>3. PICK f \in Envelope :
        /\ envelope[f].status = "active" /\ envelope'[f].status \in {"active", "exhausted"}
        /\ \A e \in Envelope \ {f} : /\ envelope'[e] = envelope[e]
                                     /\ consumption'[e] = consumption[e]
                                     /\ reservation'[e] = reservation[e]
  BY <1>1, ChargeOne
<1>4. PICK r \in Plan : r = f[1]
  BY DEF Envelope
<1>5. PICK w \in Client : At(w, "working")
  BY <1>1 DEF Charge
\* Only the spending of the live plan r moves.
<1>6. \A e \in Envelope : e[1] # r => CashSpent(e)' = CashSpent(e)
  BY <1>3, <1>4, ConsumptionFrame, ReservationFrame DEF CashSpent
<1>7. \A S : r \in S => SpentOutside(S)' = SpentOutside(S)
  BY <1>6 DEF SpentOutside
<1>8. Live(r) /\ Backed(r) /\ \A q \in Plan : Live(q) => q = r
  <2>1. Live(r)
    BY <1>3, <1>4 DEF Live
  <2> QED
    BY <1>1, <1>3, <1>4, <2>1 DEF Backing, LiveBacked, LedgerInv, OneActivePlan, Live
<1>9. \A q \in Plan : /\ Live(q)' => Live(q)
                      /\ Opened(q)' = Opened(q)
                      /\ IsLatest(q)' <=> IsLatest(q)
  <2>1. \A e \in Envelope : /\ envelope'[e].status = "active" => envelope[e].status = "active"
                            /\ envelope'[e].status # "none" <=> envelope[e].status # "none"
    BY <1>3
  <2> QED
    BY <1>2, <2>1 DEF Live, Opened, IsLatest
<1>10. \A q \in Plan : Usable(q)' <=> Usable(q)
  BY <1>2, <1>9 DEF Usable
<1>11. Backed(r)'
  BY <1>1, <1>2, <1>7, <1>8 DEF Backed
<1>12. LiveBacked'
  BY <1>8, <1>9, <1>11 DEF LiveBacked
<1>13. TotalSpent' <= granted'
  <2>1. /\ TotalSpent' = SpentOutside({r})' + SpentUnder(r)'
        /\ SpentUnder(r)' <= content'[r].cash /\ content'[r].cash \in Nat
        /\ SpentOutside({r})' \in Nat /\ SpentUnder(r)' \in Nat
    BY <1>1, <1>11 DEF SpendingAddsUp, Backed
  <2>2. content'[r].cash + SpentOutside({r})' <= granted'
    BY <1>11 DEF Backed
  <2> QED
    BY <1>1, <2>1, <2>2
\* A plan with money besides that of r keeps it.
<1>14. ASSUME NEW q \in Plan, q # r, BothBacked(q, r)
       PROVE  Backed(q)' /\ BothBacked(q, r)'
  <2>1. SpentOutside({q, r})' = SpentOutside({q, r})
    BY <1>7
  <2>2. BothBacked(q, r)'
    BY <1>1, <1>2, <1>14, <2>1 DEF BothBacked
  <2>3. /\ content'[q] \in PlanContent /\ content'[r] \in PlanContent
        /\ content'[q].cash + content'[r].cash + SpentOutside({q, r})' <= granted'
        /\ content'[q].cash \in Nat
    BY <2>2, PlanAssumption DEF BothBacked
  <2>4. /\ SpentOutside({q})' = SpentOutside({q, r})' + SpentUnder(r)'
        /\ SpentUnder(r)' <= content'[r].cash /\ content'[r].cash \in Nat
        /\ SpentOutside({q, r})' \in Nat /\ SpentUnder(r)' \in Nat
    BY <1>1, <1>14, <2>3 DEF SpendingAddsUp
  <2>5. content'[q].cash + SpentOutside({q})' <= granted'
    BY <1>1, <2>3, <2>4
  <2> QED
    BY <2>2, <2>3, <2>5 DEF Backed
<1>15. ASSUME NEW q \in Plan, IsLatest(q), Usable(q), Opened(q) = {}
       PROVE  Backed(q)' /\ Spare(q)'
  <2>1. Spare(q)
    BY <1>1, <1>5, <1>15 DEF Reads, At
  <2>2. q # r /\ BothBacked(q, r)
    BY <1>3, <1>4, <1>8, <1>15, <2>1 DEF Spare, Opened
  <2> QED
    BY <1>8, <1>9, <1>14, <2>2 DEF Spare
<1>16. LatestBacked'
  <2> SUFFICES ASSUME NEW q \in Plan, IsLatest(q)', Usable(q)'
               PROVE  /\ Backed(q)'
                      /\ Opened(q)' # {} => OnlyLive(q)'
                      /\ Opened(q)' = {} => ~Deferred' \/ Spare(q)'
    BY DEF LatestBacked
  <2>1. IsLatest(q) /\ Usable(q) /\ Opened(q)' = Opened(q)
    BY <1>9, <1>10
  <2>2. CASE Opened(q) # {}
    <3>1. OnlyLive(q)
      BY <1>1, <2>1, <2>2 DEF Backing, LatestBacked
    <3>2. q = r
      BY <1>8, <3>1 DEF OnlyLive
    <3> QED
      BY <1>8, <1>9, <1>11, <2>1, <2>2, <3>2 DEF OnlyLive
  <2>3. CASE Opened(q) = {}
    BY <1>15, <2>1, <2>3
  <2> QED
    BY <2>2, <2>3
<1>17. ASSUME NEW c \in Client PROVE Reads(task[c], checked[c])'
  <2>1. task'[c].at = "idle" \/ task'[c].at = "working"
    BY <1>1, <1>5 DEF Solo, At
  <2>2. \A q \in Plan : IsLatest(q)' /\ Usable(q)' /\ Opened(q)' = {} => Spare(q)'
    BY <1>9, <1>10, <1>15
  <2> QED
    BY <2>1, <2>2 DEF Reads
<1>18. Solo'
  BY <1>1 DEF Solo, At
<1> QED
  BY <1>12, <1>13, <1>16, <1>17, <1>18 DEF Backing, MoneyInv

(* What an operator grants is on top of everything, so that no task in     *)
(* flight has to know of it.                                               *)
LEMMA GrantMoney ==
  ASSUME ReallocTypeOK, LedgerInv, InOrder, MoneyInv, leased, OperatorPlan
  PROVE  MoneyInv'
<1>1. PICK new \in Grant : /\ \E p \in Plan : SavePlan(p, new)
                           /\ granted' = granted + new.cash
                           /\ UNCHANGED <<task, inputs, leased, crashes>>
  BY DEF OperatorPlan
<1>2. PICK p \in Plan : SavePlan(p, new)
  BY <1>1
<1>3. /\ new \in PlanContent /\ new.cash \in Nat /\ granted \in Nat /\ granted' \in Nat
      /\ granted <= granted' /\ Backing /\ Solo /\ SpendingAddsUp
  BY <1>1, RolloverAssumption, PlanAssumption, SpendingFacts DEF ReallocTypeOK, MoneyInv
<1>4. /\ \A q \in Plan : IsLatest(q)' => q = p
      /\ planState[p] = "unborn" /\ ~Live(p)
      /\ \A q : Opened(q)' = Opened(q) /\ (Live(q)' <=> Live(q))
      /\ \A q \in Plan \ {p} : content'[q] = content[q] /\ (Usable(q)' <=> Usable(q))
      /\ \A q \in Plan : Backed(q) => q # p /\ Backed(q)'
      /\ UNCHANGED <<consumption, reservation, checked>>
  BY <1>2, <1>3, SaveKeeps
<1>5. Backing' /\ Fresh(p)' /\ \A q \in Plan : Backed(q) => BothBacked(p, q)'
  BY <1>1, <1>2, <1>3, GrantBacks
<1>6. \A x \in Plan : Newest(x)' /\ (OnlyLive(x) => OnlyLive(x)')
  BY <1>4, <1>5 DEF Newest, OnlyLive
<1>7. ASSUME NEW c \in Client PROVE Reads(task[c], checked[c])'
  <2>1. PICK t : t = task[c]
    OBVIOUS
  <2>2. PICK check : check = checked[c]
    OBVIOUS
  <2>3. Reads(t, check) /\ Knows(t, check) /\ checked[c] \in Plan \cup {NoPlan}
    BY <2>1, <2>2 DEF MoneyInv, ReallocTypeOK, Knows, At, TypeOK
  <2>4. task'[c] = t /\ checked'[c] = check
    BY <1>1, <1>4, <2>1, <2>2
  <2>5. t.at = "envelopes" => Newest(t.previous)' /\ (Opened(t.previous)' # {} => Backed(t.previous)' /\ OnlyLive(t.previous)')
    BY <1>4, <1>6, <2>3 DEF Reads, Knows, Stored
  <2>6. t.at \in {"commitments", "propose", "store"} =>
           RollsOver(t)' /\ content'[t.previous] = content[t.previous]
    BY <1>4, <1>6, <2>3 DEF Reads, Knows, Stored, RollsOver
  <2>7. t.at = "activating" => Activates(t, check)'
    <3> SUFFICES ASSUME t.at = "activating" PROVE Activates(t, check)'
      OBVIOUS
    <3>1. Activates(t, check) /\ check \in Plan /\ check # p
      BY <1>4, <2>3 DEF Reads, Knows, Stored, Activates
    <3>2. Usable(check)' <=> Usable(check)
      BY <1>4, <3>1
    <3> QED
      BY <1>4, <1>5, <3>1, <3>2 DEF Activates
  <2>8. t.at = "working" => \A q \in Plan : IsLatest(q)' /\ Usable(q)' /\ Opened(q)' = {} => Spare(q)'
    BY <1>4, <1>5 DEF Fresh
  <2>9. /\ \A q : SpentUnder(q)' = SpentUnder(q)
        /\ Deferred' <=> Deferred
    BY <1>4, SpendingFrame
  <2>10. Reads(t, check)'
    BY <2>3, <2>5, <2>6, <2>7, <2>8, <2>9 DEF Reads
  <2> QED
    BY <2>4, <2>10 DEF Reads, Activates, RollsOver
<1>8. Solo'
  BY <1>1, <1>3 DEF Solo, At
<1> QED
  BY <1>5, <1>7, <1>8 DEF MoneyInv

(* Every step keeps the money together.                                    *)
LEMMA MoneyStep ==
  ASSUME ReallocTypeOK, LedgerInv, LedgerInv', InOrder, RowsKept, MoneyInv, [ReallocNext]_allVars
  PROVE  MoneyInv'
<1>1. CASE ~leased
  <2>1. UNCHANGED leased
    BY DEF ReallocNext, TickStep, Begin, ReadEnvelopes, ReadCommitments, Propose, StorePlan,
           StoreIgnored, CheckProposed, Conflict, Rollover, Blocked, Discard, EndTick, OnlyTask,
           Crash, Charge, OperatorPlan, InputsChange, tick, allVars
  <2> QED
    BY <1>1, <2>1 DEF MoneyInv
<1>2. CASE leased
  <2>1. ASSUME NEW c \in Client, TickStep(c) PROVE MoneyInv'
    BY <1>2, <2>1, TickMoney
  <2>2. ASSUME NEW c \in Client, Crash(c) PROVE MoneyInv'
    <3>1. \A d \in Client \ {c} : At(d, "idle")
      BY <1>2, <2>2 DEF Crash, MoneyInv, Solo
    <3>2. Reads(NoTask, checked'[c])
      BY DEF Reads, NoTask
    <3>3. Goto(c, NoTask) /\ UNCHANGED <<planState, content, envelope, consumption, reservation, granted>>
      BY <2>2 DEF Crash, Fail, GiveUp, vars, plans, ledger
    <3> QED
      BY <1>2, <3>1, <3>2, <3>3, SoloReads
  <2>3. CASE Charge
    BY <1>2, <2>3, ChargeMoney
  <2>4. CASE OperatorPlan
    BY <1>2, <2>4, GrantMoney
  <2>5. CASE InputsChange \/ UNCHANGED allVars
    <3>1. UNCHANGED <<planState, content, envelope, consumption, reservation, granted, task, checked, leased>>
      BY <2>5 DEF InputsChange, allVars, vars
    <3>2. Backing' /\ Solo'
      BY <1>2, <3>1, MoneyFrame DEF MoneyInv, Solo, At
    <3>3. ASSUME NEW c \in Client PROVE Reads(task[c], checked[c])'
      <4>1. PICK t : t = task[c]
        OBVIOUS
      <4>2. PICK check : check = checked[c]
        OBVIOUS
      <4>3. Reads(t, check)'
        BY <1>2, <3>1, <4>1, <4>2, MoneyFrame DEF MoneyInv
      <4> QED
        BY <3>1, <4>1, <4>2, <4>3 DEF Reads, Activates, RollsOver
    <3> QED
      BY <3>2, <3>3 DEF MoneyInv
  <2> QED
    BY <2>1, <2>2, <2>3, <2>4, <2>5 DEF ReallocNext
<1> QED
  BY <1>1, <1>2 DEF ReallocTypeOK

LEMMA InitMoney == ReallocInit => MoneyInv
<1> SUFFICES ASSUME ReallocInit PROVE MoneyInv
  OBVIOUS
<1>1. Init /\ LedgerInv /\ granted = 0 /\ \A c \in Client : task[c].at = "idle"
  BY InitLedger DEF ReallocInit, NoTask
<1>2. TotalSpent <= granted
  <2>1. ASSUME NEW e \in Envelope PROVE CashSpent(e) = 0
    <3>1. envelope[e].status # "revoked" /\ envelope[e].cashUsed = 0 /\ Conserved(e)
      BY <1>1 DEF Init, NoRow, LedgerInv, EnvelopeInv
    <3> QED
      BY <3>1 DEF Conserved
  <2>2. [e \in Envelope |-> CashSpent(e)] \in [Envelope -> Nat]
    BY <2>1
  <2>3. TotalSpent = 0
    BY <2>1, <2>2, TotalOfZeros DEF TotalSpent
  <2> QED
    BY <1>1, <2>3
<1>3. \A p \in Plan : ~Live(p) /\ ~IsLatest(p)
  BY <1>1 DEF Init, NoRow, Live, IsLatest
<1>4. Backing
  BY <1>2, <1>3 DEF Backing, LiveBacked, LatestBacked
<1> QED
  BY <1>1, <1>4 DEF MoneyInv, Solo, At, Reads

(* All money that was ever charged was granted, also when processes die    *)
(* between the transactions of a rollover, operators plan at any moment    *)
(* and any number of rollovers follow each other: reconcile "rolls         *)
(* remaining treasury into a new plan without restoring consumed           *)
(* resources", provided that the work goes through the wake lease.         *)
THEOREM AlwaysConservedUnderLease == ReallocSafety => []ConservedUnderLease
<1>1. ReallocInit => MoneyInv
  BY InitMoney
<1>2. /\ ReallocTypeOK /\ LedgerInv /\ LedgerInv' /\ InOrder /\ RowsKept /\ MoneyInv
      /\ [ReallocNext]_allVars
      => MoneyInv'
  BY MoneyStep
<1>3. MoneyInv => ConservedUnderLease
  BY DEF MoneyInv, Backing, ConservedUnderLease, TreasuryConserved
<1> QED
  BY <1>1, <1>2, <1>3, ReallocTypeCorrect, LedgerUnderRollover, AlwaysInOrder, RowsAlwaysKept, PTL
     DEF ReallocSafety
=============================================================================
