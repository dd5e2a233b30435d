------------------------------ MODULE Checkout ------------------------------
(* The commerce boundary of one venture (CommerceManager): its offer, the  *)
(* one checkout run that asks the operator's approval, the checkout the    *)
(* payment provider creates for it, and the payments observed afterwards.  *)
(* Every database access is a step of its own, so that the scheduler's     *)
(* tick and an operator's command interleave as two host processes do.     *)
(* The business model of a venture never changes after discovery, so a     *)
(* venture has one offer.                                                  *)
EXTENDS Integers, Sequences, FiniteSets, Functions

CONSTANTS
    Process,        \* the processes that work on the venture
    Operator,       \* the one of them that runs the operator's commands
    MaxPayments     \* bound: sessions ever paid

ASSUME CheckoutAssumption ==
    /\ IsFiniteSet(Process) /\ Operator \in Process
    /\ MaxPayments \in Nat

VARIABLES
    stage,      \* the venture's stage
    at,         \* at[p]: the next step of p, "idle" between operations
    mine,       \* mine[p]: what p holds in memory from its earlier steps
    sells,      \* what the business model sells: "self_serve", "unpriced", "other"
    offer,      \* is there a row in commerce_offers
    checkout,   \* the row of checkout_runs: its offer_id is UNIQUE
    planned,    \* how many checkout runs were ever planned; gives the ids
    binding,    \* the run of the row of checkout_bindings, 0 for none
    links,      \* the runs for which the provider has created a checkout
    allowed,    \* the runs whose approval the operator has saved
    sessions,   \* the paid sessions at the provider, oldest first
    revenue     \* the references in commerce_revenue_events, oldest first

processVars == <<at, mine>>
checkoutVars == <<offer, checkout, planned, binding, links, allowed>>
paymentVars == <<sessions, revenue>>

CheckoutStatus == {"waiting_approval", "ready", "active", "failed", "cancelled"}
CheckoutRow == [id : Nat \ {0}, status : CheckoutStatus, approved : BOOLEAN]
NoRow == [id |-> 0, status |-> "none", approved |-> FALSE]
Session == [ref : 1 .. MaxPayments, exact : BOOLEAN]
Nothing == [id |-> 0]

Go(p, label) == at' = [at EXCEPT ![p] = label]
Hold(p, value) == mine' = [mine EXCEPT ![p] = value]
Stop(p) == Go(p, "idle") /\ Hold(p, Nothing)

Eligible == sells # "other"
Prebuild == {"validated", "building"}

CheckoutInit ==
    /\ sells \in {"self_serve", "unpriced", "other"}
    /\ offer = FALSE /\ checkout = NoRow /\ planned = 0 /\ binding = 0
    /\ links = {} /\ allowed = {}
    /\ sessions = <<>> /\ revenue = <<>>

-----------------------------------------------------------------------------
(* advance_prebuild. It goes on to the builder when the checkout was found *)
(* active, except for the operator's command that stops there.             *)

Proceed(p) ==
    \/ Go(p, "build") /\ Hold(p, Nothing)
    \/ p = Operator /\ Stop(p)

\* The offer is looked up by the hash of the business model and its price.
EnsureOffer(p) ==
    /\ at[p] = "prebuild"
    /\ CASE ~Eligible -> Proceed(p)
         [] Eligible /\ (sells = "unpriced" \/ stage \notin Prebuild) -> Stop(p)
         [] OTHER -> Go(p, IF offer THEN "read_run" ELSE "insert_offer") /\ UNCHANGED mine
    /\ UNCHANGED <<stage, sells, checkoutVars, paymentVars>>

\* save_offer returns the offer another process has stored meanwhile, or
\* violates UNIQUE and raises when that one came after its look.
InsertOffer(p) ==
    /\ at[p] = "insert_offer"
    /\ offer' = TRUE
    /\ \/ Go(p, "read_run") /\ UNCHANGED mine
       \/ offer /\ Stop(p)
    /\ UNCHANGED <<stage, sells, checkout, planned, binding, links, allowed, paymentVars>>

\* A missing run is planned; the policy never allows a network write without
\* approval.
ReadRun(p) ==
    /\ at[p] = "read_run"
    /\ IF checkout # NoRow
       THEN Hold(p, checkout) /\ Go(p, "read_binding")
       ELSE Go(p, "plan_run") /\ UNCHANGED mine
    /\ UNCHANGED <<stage, sells, checkoutVars, paymentVars>>

\* INSERT OR REPLACE: the row of the offer is replaced, whatever run it held.
SaveRun(row) == checkout' = row

\* The process goes on with a row of its own, changed in one field.
SaveStatus(p, status) == SaveRun([mine[p] EXCEPT !.status = status])

PlanRun(p) ==
    /\ at[p] = "plan_run"
    /\ planned' = planned + 1
    /\ LET run == [id |-> planned', status |-> "waiting_approval", approved |-> FALSE] IN
         SaveRun(run) /\ Hold(p, run)
    /\ Go(p, "read_binding")
    /\ UNCHANGED <<stage, sells, offer, binding, links, allowed, paymentVars>>

\* A binding without an active run is what a crash left behind: the run is
\* made active again.
ReadBinding(p) ==
    /\ at[p] = "read_binding"
    /\ CASE binding = mine[p].id /\ mine[p].status = "active" -> Proceed(p)
         [] binding = mine[p].id /\ mine[p].status # "active" ->
                Go(p, "recover") /\ UNCHANGED mine
         [] binding # mine[p].id /\ mine[p].status = "ready" /\ mine[p].approved ->
                Go(p, "create") /\ UNCHANGED mine
         [] OTHER -> Stop(p)
    /\ UNCHANGED <<stage, sells, checkoutVars, paymentVars>>

RecoverRun(p) ==
    /\ at[p] = "recover"
    /\ SaveStatus(p, "active") /\ Proceed(p)
    /\ UNCHANGED <<stage, sells, offer, planned, binding, links, allowed, paymentVars>>

\* The provider keeps one checkout per idempotency key, the run's id.
CheckoutAt(run) == links' = links \cup {run}

\* The call may fail after the checkout was created.
CreateCheckout(p) ==
    /\ at[p] = "create"
    /\ \/ CheckoutAt(mine[p].id) /\ Go(p, "read_bound")
       \/ (CheckoutAt(mine[p].id) \/ UNCHANGED links) /\ Go(p, "fail_run")
    /\ UNCHANGED <<stage, mine, sells, offer, checkout, planned, binding, allowed, paymentVars>>

FailRun(p) ==
    /\ at[p] = "fail_run"
    /\ SaveStatus(p, "failed") /\ Stop(p)
    /\ UNCHANGED <<stage, sells, offer, planned, binding, links, allowed, paymentVars>>

\* save_binding looks the binding up and inserts it in two transactions;
\* run_id and offer_id are UNIQUE, so the second of two inserts raises.
ReadBound(p) ==
    /\ at[p] = "read_bound"
    /\ Go(p, IF binding = mine[p].id THEN "activate" ELSE "insert_binding")
    /\ UNCHANGED <<stage, mine, sells, checkoutVars, paymentVars>>

InsertBinding(p) ==
    /\ at[p] = "insert_binding"
    /\ IF binding = 0
       THEN binding' = mine[p].id /\ Go(p, "activate") /\ UNCHANGED mine
       ELSE UNCHANGED binding /\ Stop(p)
    /\ UNCHANGED <<stage, sells, offer, checkout, planned, links, allowed, paymentVars>>

\* A checkout that was created is work, so the tick ends.
ActivateRun(p) ==
    /\ at[p] = "activate"
    /\ SaveStatus(p, "active") /\ Stop(p)
    /\ UNCHANGED <<stage, sells, offer, planned, binding, links, allowed, paymentVars>>

-----------------------------------------------------------------------------
(* The operator approves exactly one run, or rejects it in the inbox: it   *)
(* is read, and written back in a later transaction.                       *)

ReadForApproval(p) ==
    /\ at[p] = "idle" /\ p = Operator
    /\ checkout.status = "waiting_approval"
    /\ Hold(p, checkout) /\ Go(p, "approve_run")
    /\ UNCHANGED <<stage, sells, checkoutVars, paymentVars>>

ApproveRun(p) ==
    /\ at[p] = "approve_run"
    /\ SaveRun([mine[p] EXCEPT !.status = "ready", !.approved = TRUE])
    /\ allowed' = allowed \cup {mine[p].id}
    /\ Stop(p)
    /\ UNCHANGED <<stage, sells, offer, planned, binding, links, paymentVars>>

CancelRun(p) ==
    /\ at[p] = "approve_run"
    /\ SaveRun([mine[p] EXCEPT !.status = "cancelled", !.approved = FALSE])
    /\ Stop(p)
    /\ UNCHANGED <<stage, sells, offer, planned, binding, links, allowed, paymentVars>>

-----------------------------------------------------------------------------
(* The builder's view of commerce, and the observation of payments.        *)

\* build_context: only a bound checkout whose run is active counts.
HasContext == binding # 0 /\ checkout.id = binding /\ checkout.status = "active"

\* A customer pays through the checkout, perhaps not the price of the offer.
Pay ==
    /\ binding # 0 /\ stage = "launched" /\ Len(sessions) < MaxPayments
    /\ \E exact \in BOOLEAN :
           sessions' = Append(sessions, [ref |-> Len(sessions) + 1, exact |-> exact])
    /\ UNCHANGED <<stage, processVars, sells, checkoutVars, revenue>>

PollBegin(p) ==
    /\ at[p] = "poll"
    /\ IF HasContext THEN Go(p, "ask") /\ UNCHANGED mine ELSE Stop(p)
    /\ UNCHANGED <<stage, sells, checkoutVars, paymentVars>>

\* The provider lists its sessions newest first; the first paid one is the
\* answer.
NewestPaid == sessions[Len(sessions)]

\* The call may also fail, or find nothing paid.
AskPayment(p) ==
    /\ at[p] = "ask"
    /\ \/ Stop(p)
       \/ sessions # <<>> /\ Hold(p, NewestPaid) /\ Go(p, "read_revenue")
    /\ UNCHANGED <<stage, sells, checkoutVars, paymentVars>>

\* Already recorded, or not the price that was approved: nothing is stored.
ReadRevenue(p) ==
    /\ at[p] = "read_revenue"
    /\ IF mine[p].ref \in Range(revenue) \/ ~mine[p].exact
       THEN Stop(p)
       ELSE Go(p, "insert_revenue") /\ UNCHANGED mine
    /\ UNCHANGED <<stage, sells, checkoutVars, paymentVars>>

\* Faulty: the reference of a payment is not unique in the table.
InsertRevenueAgain(p) ==
    /\ at[p] = "insert_revenue"
    /\ revenue' = Append(revenue, mine[p].ref)
    /\ Stop(p)
    /\ UNCHANGED <<stage, sells, checkoutVars, sessions>>

\* (source, external_ref) is UNIQUE: the second of two inserts raises.
InsertRevenue(p) ==
    /\ at[p] = "insert_revenue"
    /\ revenue' = IF mine[p].ref \in Range(revenue) THEN revenue
                                                    ELSE Append(revenue, mine[p].ref)
    /\ Stop(p)
    /\ UNCHANGED <<stage, sells, checkoutVars, sessions>>

CheckoutStep(p) ==
    \/ EnsureOffer(p) \/ InsertOffer(p) \/ ReadRun(p) \/ PlanRun(p) \/ ReadBinding(p)
    \/ RecoverRun(p) \/ CreateCheckout(p) \/ FailRun(p) \/ ReadBound(p)
    \/ InsertBinding(p) \/ ActivateRun(p) \/ ApproveRun(p) \/ CancelRun(p)
    \/ PollBegin(p) \/ AskPayment(p) \/ ReadRevenue(p) \/ InsertRevenue(p)
=============================================================================
