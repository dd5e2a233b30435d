------------------------------ MODULE Treasury ------------------------------
(***************************************************************************)
(* The capital ledger of HELIS: portfolio plans, the resource envelopes    *)
(* activated from them, the consumptions recorded against an envelope and  *)
(* the two-phase cash reservations made against it.                        *)
(*                                                                         *)
(* Several host processes share the SQLite file: the scheduler wake, a     *)
(* manual autopilot and the helis-portfolio commands.  A method that opens *)
(* BEGIN IMMEDIATE is one action.  A method that reads first and writes in *)
(* a later transaction is two actions, and the process may die in between. *)
(***************************************************************************)
EXTENDS Naturals, FiniteSets, Totals

CONSTANTS
    Venture,      \* opportunity ids
    Key,          \* idempotency keys
    Client,       \* processes that may be inside a read-then-write method
    MaxPlans,     \* bound: plans ever saved
    PlanContent,  \* what the allocator may put in a plan: [inputs, cash, calls, alloc]
    CashInput,    \* amounts of cash a caller may ask for
    None

Plan == 1..MaxPlans
NoPlan == 0
Envelope == Plan \X Venture

PlanState == {"unborn", "saved", "discarded"}
EnvelopeStatus == {"none", "active", "exhausted", "revoked"}
ReservationStatus == {"none", "reserved", "settled", "released"}

Allocation == [Venture -> [cash : Nat, calls : Nat]]
Row == [status : EnvelopeStatus, cashLimit : Nat, callLimit : Nat,
        cashUsed : Nat, callsUsed : Nat]
Consumption == [cash : Nat, calls : Nat]
Reservation == [status : ReservationStatus, reserved : Nat, settled : Nat]
Snapshot == [of : Envelope, row : Row]

CashAllocated(c) == [v \in Venture |-> c.alloc[v].cash]
CallsAllocated(c) == [v \in Venture |-> c.alloc[v].calls]

ASSUME FiniteAssumption ==
    /\ IsFiniteSet(Venture)
    /\ IsFiniteSet(Key)
    /\ MaxPlans \in Nat
    /\ CashInput \subseteq Nat

(* PortfolioAllocator.plan never allocates more than the budget it is given. *)
ASSUME PlanAssumption ==
    \A c \in PlanContent :
        /\ c.cash \in Nat /\ c.calls \in Nat /\ c.alloc \in Allocation
        /\ Total(CashAllocated(c)) <= c.cash
        /\ Total(CallsAllocated(c)) <= c.calls

ASSUME NoneAssumption == None \notin PlanContent /\ None \notin Snapshot

VARIABLES
    planState,    \* portfolio_plans: is the row there
    content,      \* what each plan says; a process keeps it after the row is gone
    envelope,     \* resource_envelopes, UNIQUE(plan_id, opportunity_id)
    consumption,  \* envelope_consumptions, UNIQUE(envelope_id, idempotency_key)
    reservation,  \* cash_reservations, UNIQUE(envelope_id, idempotency_key)
    checked,      \* plan that passed activate's "is it the latest" check, per client
    snapshot      \* envelope row that revoke has read and not yet written, per client

ledger == <<envelope, consumption, reservation>>
plans == <<planState, content>>
vars == <<planState, content, envelope, consumption, reservation, checked, snapshot>>

NoRow == [status |-> "none", cashLimit |-> 0, callLimit |-> 0,
          cashUsed |-> 0, callsUsed |-> 0]
NoConsumption == [cash |-> 0, calls |-> 0]
NoReservation == [status |-> "none", reserved |-> 0, settled |-> 0]

-----------------------------------------------------------------------------
(* What the rows of one envelope add up to.                                *)

IsOpen(e, k) == reservation[e][k].status = "reserved"

OpenRows(e) == [k \in Key |-> IF IsOpen(e, k) THEN reservation[e][k].reserved ELSE 0]
CashRows(e) == [k \in Key |-> consumption[e][k].cash]
CallRows(e) == [k \in Key |-> consumption[e][k].calls]
SettledRows(e) == [k \in Key |-> reservation[e][k].settled]

OpenCash(e) == Total(OpenRows(e))
CashConsumed(e) == Total(CashRows(e))
CallsConsumed(e) == Total(CallRows(e))
CashSettled(e) == Total(SettledRows(e))

\* Every cent in venture_cost_events that was charged to envelope e.
CashSpent(e) == CashConsumed(e) + CashSettled(e)

IsLatest(p) ==
    /\ planState[p] = "saved"
    /\ \A q \in Plan : planState[q] = "saved" => q <= p

\* A process runs one method at a time.
IsIdle(c) == checked[c] = NoPlan /\ snapshot[c] = None

IsFunded(p, v) == content[p].alloc[v].cash + content[p].alloc[v].calls > 0

\* The row an envelope has after it has been charged: it closes when nothing is left.
Charged(row, cash, calls) ==
    LET cashUsed == row.cashUsed + cash
        callsUsed == row.callsUsed + calls
        spent == cashUsed >= row.cashLimit /\ callsUsed >= row.callLimit
    IN  [status |-> IF spent THEN "exhausted" ELSE row.status,
         cashLimit |-> row.cashLimit, callLimit |-> row.callLimit,
         cashUsed |-> cashUsed, callsUsed |-> callsUsed]

-----------------------------------------------------------------------------
Init ==
    /\ planState = [p \in Plan |-> "unborn"]
    /\ content = [p \in Plan |-> None]
    /\ envelope = [e \in Envelope |-> NoRow]
    /\ consumption = [e \in Envelope |-> [k \in Key |-> NoConsumption]]
    /\ reservation = [e \in Envelope |-> [k \in Key |-> NoReservation]]
    /\ checked = [c \in Client |-> NoPlan]
    /\ snapshot = [c \in Client |-> None]

\* PortfolioStore.save: a row with a snapshot that is already stored is ignored.
SavePlan(p, new) ==
    /\ planState[p] = "unborn"
    /\ \A q \in Plan : q < p => planState[q] # "unborn"
    /\ \A q \in Plan : planState[q] = "saved" => content[q] # new
    /\ planState' = [planState EXCEPT ![p] = "saved"]
    /\ content' = [content EXCEPT ![p] = new]
    /\ UNCHANGED <<ledger, checked, snapshot>>

\* PortfolioReallocator._discard_unactivated_plan, one BEGIN IMMEDIATE block.
DiscardPlan(p) ==
    /\ IsLatest(p)
    /\ \A v \in Venture : envelope[<<p, v>>].status = "none"
    /\ planState' = [planState EXCEPT ![p] = "discarded"]
    /\ UNCHANGED <<content, ledger, checked, snapshot>>

\* activate, first half: the latest-plan check runs outside the transaction.
CheckLatest(c, p) ==
    /\ IsIdle(c)
    /\ IsLatest(p)
    /\ checked' = [checked EXCEPT ![c] = p]
    /\ UNCHANGED <<plans, ledger, snapshot>>

\* Faulty variant: a stale activation leaves the envelopes of a newer plan live.
SupersededOlder(p) == {e \in Envelope : envelope[e].status = "active" /\ e[1] < p}

Superseded(p) == {e \in Envelope : envelope[e].status = "active" /\ e[1] # p}

\* Faulty variant: every venture is given the plan's whole budget.
ActivatedWhole(p, e) ==
    IF e[1] = p /\ IsFunded(p, e[2]) /\ envelope[e].status = "none"
    THEN [NoRow EXCEPT !.status = "active", !.cashLimit = content[p].cash,
                       !.callLimit = content[p].calls]
    ELSE IF e \in Superseded(p) THEN [envelope[e] EXCEPT !.status = "revoked"]
         ELSE envelope[e]

\* Faulty variant: activating a plan again opens its closed envelopes anew.
ActivatedAgain(p, e) ==
    IF e \in Superseded(p)
    THEN [envelope[e] EXCEPT !.status = "revoked"]
    ELSE IF e[1] = p /\ IsFunded(p, e[2])
         THEN [envelope[e] EXCEPT !.status = "active",
                                  !.cashLimit = content[p].alloc[e[2]].cash,
                                  !.callLimit = content[p].alloc[e[2]].calls]
         ELSE envelope[e]

\* What activate's transaction makes of the row of envelope e.
Activated(p, e) ==
    IF e \in Superseded(p)
    THEN [envelope[e] EXCEPT !.status = "revoked"]
    ELSE IF e[1] = p /\ IsFunded(p, e[2]) /\ envelope[e].status = "none"
         THEN [status |-> "active",
               cashLimit |-> content[p].alloc[e[2]].cash,
               callLimit |-> content[p].alloc[e[2]].calls,
               cashUsed |-> 0, callsUsed |-> 0]
         ELSE envelope[e]

\* activate, second half: every other live envelope is revoked and the plan's
\* missing envelopes are inserted, in one transaction.
Activate(c) ==
    /\ checked[c] # NoPlan
    /\ \A e \in Superseded(checked[c]) : \A k \in Key : ~IsOpen(e, k)
    /\ envelope' = [e \in Envelope |-> Activated(checked[c], e)]
    /\ checked' = [checked EXCEPT ![c] = NoPlan]
    /\ UNCHANGED <<plans, consumption, reservation, snapshot>>

\* trg_envelope_revoke_reservation_guard aborts the whole activation.
AbortActivate(c) ==
    /\ checked[c] # NoPlan
    /\ \E e \in Superseded(checked[c]), k \in Key : IsOpen(e, k)
    /\ checked' = [checked EXCEPT ![c] = NoPlan]
    /\ UNCHANGED <<plans, ledger, snapshot>>

-----------------------------------------------------------------------------
\* trg_envelope_cash_update_guard: the written payload must cover open reservations.
CoversOpen(e, row) == row.cashUsed + OpenCash(e) <= row.cashLimit

\* ResourceEnvelopeManager.consume.  A recorded key returns early; the cost event
\* is unique by (source, external_ref), whatever envelope it was charged to.
Consume(e, k, cash, calls) ==
    LET row == envelope[e]
    IN  /\ cash + calls > 0
        /\ consumption[e][k] = NoConsumption
        /\ row.status = "active"
        /\ row.cashUsed + cash <= row.cashLimit
        /\ row.callsUsed + calls <= row.callLimit
        /\ cash > 0 => \A f \in Envelope : consumption[f][k].cash = 0
        /\ CoversOpen(e, Charged(row, cash, calls))
        /\ envelope' = [envelope EXCEPT ![e] = Charged(row, cash, calls)]
        /\ consumption' = [consumption EXCEPT ![e][k] = [cash |-> cash, calls |-> calls]]
        /\ UNCHANGED <<plans, reservation, checked, snapshot>>

\* EnvelopeCycleBudget.ensure_call_available charges one call before it is made.
ConsumeCall(e, k) == Consume(e, k, 0, 1)

\* helis-portfolio consume-cash.
ConsumeCash(e, k, cash) == Consume(e, k, cash, 0)

\* Faulty variant: a new commitment is compared with what is spent, not with what
\* is promised to the other commitments.
ReserveUncounted(e, k, amount) ==
    /\ amount > 0
    /\ reservation[e][k].status = "none"
    /\ envelope[e].status = "active"
    /\ envelope[e].cashUsed + amount <= envelope[e].cashLimit
    /\ reservation' = [reservation EXCEPT ![e][k] =
                         [status |-> "reserved", reserved |-> amount, settled |-> 0]]
    /\ UNCHANGED <<plans, envelope, consumption, checked, snapshot>>

\* CashReservationManager.reserve, with trg_cash_reservation_capacity.
Reserve(e, k, amount) ==
    LET row == envelope[e]
    IN  /\ amount > 0
        /\ reservation[e][k].status = "none"
        /\ row.status = "active"
        /\ row.cashUsed + OpenCash(e) + amount <= row.cashLimit
        /\ reservation' = [reservation EXCEPT ![e][k] =
                             [status |-> "reserved", reserved |-> amount, settled |-> 0]]
        /\ UNCHANGED <<plans, envelope, consumption, checked, snapshot>>

\* Faulty variant: the envelope is charged what was reserved, not what it cost.
SettleInFull(e, k, actual) ==
    /\ IsOpen(e, k)
    /\ actual <= reservation[e][k].reserved
    /\ envelope' = [envelope EXCEPT ![e] = Charged(@, reservation[e][k].reserved, 0)]
    /\ reservation' = [reservation EXCEPT ![e][k] =
                         [@ EXCEPT !.status = "settled", !.settled = actual]]
    /\ UNCHANGED <<plans, consumption, checked, snapshot>>

\* CashReservationManager.settle.  The reservation row is closed before the
\* envelope row is written, so the guard no longer counts it.
Settle(e, k, actual) ==
    /\ IsOpen(e, k)
    /\ actual <= reservation[e][k].reserved
    /\ envelope[e].cashUsed + actual + OpenCash(e)
         <= envelope[e].cashLimit + reservation[e][k].reserved
    /\ envelope' = [envelope EXCEPT ![e] = Charged(@, actual, 0)]
    /\ reservation' = [reservation EXCEPT ![e][k] =
                         [@ EXCEPT !.status = "settled", !.settled = actual]]
    /\ UNCHANGED <<plans, consumption, checked, snapshot>>

\* Faulty variant: a release gives back cash that was never charged.
ReleaseRefunding(e, k) ==
    /\ IsOpen(e, k)
    /\ envelope' = [envelope EXCEPT ![e].cashUsed = @ - reservation[e][k].reserved]
    /\ reservation' = [reservation EXCEPT ![e][k] = [@ EXCEPT !.status = "released"]]
    /\ UNCHANGED <<plans, consumption, checked, snapshot>>

\* Faulty variant: a commitment that was settled can still be released.
ReleaseAny(e, k) ==
    /\ reservation[e][k].status # "none"
    /\ reservation' = [reservation EXCEPT ![e][k] = [@ EXCEPT !.status = "released"]]
    /\ UNCHANGED <<plans, envelope, consumption, checked, snapshot>>

\* CashReservationManager.release.
Release(e, k) ==
    /\ IsOpen(e, k)
    /\ reservation' = [reservation EXCEPT ![e][k] = [@ EXCEPT !.status = "released"]]
    /\ UNCHANGED <<plans, envelope, consumption, checked, snapshot>>

-----------------------------------------------------------------------------
\* ResourceEnvelopeManager.revoke, first half: the row is read on its own connection.
ReadForRevoke(c, e) ==
    /\ IsIdle(c)
    /\ envelope[e].status \in {"active", "exhausted"}
    /\ snapshot' = [snapshot EXCEPT ![c] = [of |-> e, row |-> envelope[e]]]
    /\ UNCHANGED <<plans, ledger, checked>>

\* Faulty variant: without trg_envelope_revoke_reservation_guard.
WriteRevokedUnguarded(c) ==
    /\ snapshot[c] # None
    /\ envelope' = [envelope EXCEPT ![snapshot[c].of] =
                      [snapshot[c].row EXCEPT !.status = "revoked"]]
    /\ snapshot' = [snapshot EXCEPT ![c] = None]
    /\ UNCHANGED <<plans, consumption, reservation, checked>>

\* revoke, second half: the whole payload that was read is written back as revoked.
\* Both triggers look at it; with no open reservation the cash guard cannot fire.
WriteRevoked(c) ==
    LET e == snapshot[c].of
    IN  /\ snapshot[c] # None
        /\ \A k \in Key : ~IsOpen(e, k)
        /\ envelope' = [envelope EXCEPT ![e] = [snapshot[c].row EXCEPT !.status = "revoked"]]
        /\ snapshot' = [snapshot EXCEPT ![c] = None]
        /\ UNCHANGED <<plans, consumption, reservation, checked>>

\* The process dies, or gets the trigger's error, between the two halves.
GiveUp(c) ==
    /\ ~IsIdle(c)
    /\ checked' = [checked EXCEPT ![c] = NoPlan]
    /\ snapshot' = [snapshot EXCEPT ![c] = None]
    /\ UNCHANGED <<plans, ledger>>

-----------------------------------------------------------------------------
PlanStep ==
    \E p \in Plan : DiscardPlan(p) \/ \E new \in PlanContent : SavePlan(p, new)

ClientStep ==
    \E c \in Client :
        \/ \E p \in Plan : CheckLatest(c, p)
        \/ Activate(c)
        \/ AbortActivate(c)
        \/ \E e \in Envelope : ReadForRevoke(c, e)
        \/ WriteRevoked(c)
        \/ GiveUp(c)

LedgerStep ==
    \E e \in Envelope, k \in Key :
        \/ ConsumeCall(e, k)
        \/ \E amount \in CashInput :
              ConsumeCash(e, k, amount) \/ Reserve(e, k, amount) \/ Settle(e, k, amount)
        \/ Release(e, k)

Next == PlanStep \/ ClientStep \/ LedgerStep

Spec == Init /\ [][Next]_vars

-----------------------------------------------------------------------------
(* Every row has its columns and a saved plan has its content.             *)
TypeOK ==
    /\ planState \in [Plan -> PlanState]
    /\ content \in [Plan -> PlanContent \cup {None}]
    /\ \A p \in Plan : planState[p] # "unborn" => content[p] \in PlanContent
    /\ envelope \in [Envelope -> Row]
    /\ consumption \in [Envelope -> [Key -> Consumption]]
    /\ reservation \in [Envelope -> [Key -> Reservation]]
    /\ checked \in [Client -> Plan \cup {NoPlan}]
    /\ \A c \in Client : checked[c] # NoPlan => content[checked[c]] \in PlanContent
    /\ snapshot \in [Client -> Snapshot \cup {None}]

(* What was really charged to an envelope, plus what is still promised to  *)
(* open commitments, never exceeds what its plan allotted, although consume *)
(* checks the stored counter only and the promises are checked by triggers. *)
CommitmentsCovered ==
    \A e \in Envelope :
        /\ CashSpent(e) + OpenCash(e) <= envelope[e].cashLimit
        /\ CallsConsumed(e) <= envelope[e].callLimit

(* A commitment that is open can still be charged: no path (activation of a *)
(* newer plan, revocation, exhaustion) closes an envelope under it.         *)
OpenOnlyWhileActive ==
    \A e \in Envelope, k \in Key : IsOpen(e, k) => envelope[e].status = "active"

(* The counters that reconcile reads are what the ledger's rows add up to, *)
(* for every envelope that was not revoked.                                *)
LedgerConserved ==
    \A e \in Envelope :
        envelope[e].status # "revoked" =>
            /\ envelope[e].cashUsed = CashSpent(e)
            /\ envelope[e].callsUsed = CallsConsumed(e)

(* Live envelopes belong to one plan, whatever order checks, saves and     *)
(* activations of several processes interleave in.                         *)
OneActivePlan ==
    \A e, f \in Envelope :
        envelope[e].status = "active" /\ envelope[f].status = "active" => e[1] = f[1]

(* The ventures of one plan together never spend or promise more than the  *)
(* plan's whole cash budget.                                               *)
PlanWithinBudget ==
    \A p \in Plan :
        content[p] # None =>
            Total([v \in Venture |-> CashSpent(<<p, v>>) + OpenCash(<<p, v>>)]) <= content[p].cash

(* The counter of a revoked envelope does not fall below what was charged: *)
(* spent capacity is not minted back (README, "without silently minting    *)
(* spent capacity back").                                                  *)
RevokedKeepsSpending ==
    \A e \in Envelope : envelope[e].cashUsed >= CashSpent(e)

(* An envelope that was closed never accepts new work again, also when its *)
(* plan is activated a second time.                                        *)
ClosedStaysClosed ==
    [][\A e \in Envelope :
          envelope[e].status \in {"exhausted", "revoked"} =>
              envelope'[e].status \in {"exhausted", "revoked"}]_vars

(* A commitment is resolved once: after settle or release its row, and so  *)
(* its cost, never changes.                                                *)
ResolvedOnce ==
    [][\A e \in Envelope, k \in Key :
          reservation[e][k].status \in {"settled", "released"} =>
              reservation'[e][k] = reservation[e][k]]_vars
=============================================================================
