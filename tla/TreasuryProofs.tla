--------------------------- MODULE TreasuryProofs ---------------------------
(***************************************************************************)
(* What the treasury guarantees for every number of ventures, keys,        *)
(* processes and plans, and every amount of money.                         *)
(*                                                                         *)
(* None of the safety properties is inductive alone: consume compares with *)
(* the stored counter, so "covered" needs "conserved"; exhausting an       *)
(* envelope is harmless only because a positive open commitment keeps the  *)
(* counter below the limit.  LedgerInv is the conjunction that is.         *)
(***************************************************************************)
EXTENDS Treasury, FiniteSetTheorems, TLAPS

-----------------------------------------------------------------------------
(* Totals: facts stated once, for every finite set of rows and every table *)
(* of natural amounts, and cited by the proofs about money.                *)

(* The cents of one row are as many as its amount.                         *)
LEMMA RowCents ==
  ASSUME NEW x, NEW n \in Nat
  PROVE  /\ IsFiniteSet({x} \X (1..n))
         /\ Cardinality({x} \X (1..n)) = n
<1>1. IsFiniteSet({x}) /\ Cardinality({x}) = 1
  BY FS_Singleton
<1>2. IsFiniteSet(1..n) /\ Cardinality(1..n) = n
  BY FS_Interval
<1>3. /\ IsFiniteSet({x} \X (1..n))
      /\ Cardinality({x} \X (1..n)) = Cardinality({x}) * Cardinality(1..n)
  BY <1>1, <1>2, FS_Product
<1> QED
  BY <1>1, <1>2, <1>3

(* The cents of finitely many rows are finitely many.                      *)
LEMMA CentsFinite ==
  ASSUME NEW S, IsFiniteSet(S), NEW f \in [S -> Nat]
  PROVE  IsFiniteSet(CentsOf(f))
<1> DEFINE CentsAt(x) == {x} \X (1..f[x])
           AllCents == {CentsAt(x) : x \in S}
           row == [x \in S |-> CentsAt(x)]
<1>1. row \in Surjection(S, AllCents)
  BY DEF Surjection
<1>2. IsFiniteSet(AllCents)
  BY <1>1, FS_Surjection
<1>3. \A T \in AllCents : IsFiniteSet(T)
  <2>1. \A x \in S : IsFiniteSet(CentsAt(x))
    <3> TAKE x \in S
    <3>1. f[x] \in Nat
      OBVIOUS
    <3> QED BY <3>1, RowCents
  <2> QED BY <2>1
<1>4. IsFiniteSet(UNION AllCents)
  <2> HIDE DEF AllCents
  <2> QED BY <1>2, <1>3, FS_UNION
<1> QED
  BY <1>4 DEF CentsOf

(* A total of natural amounts is a natural number.                         *)
LEMMA TotalType ==
  ASSUME NEW S, IsFiniteSet(S), NEW f \in [S -> Nat]
  PROVE  Total(f) \in Nat
BY CentsFinite, FS_CardinalityType DEF Total

(* A table of zeros adds up to zero.                                       *)
LEMMA TotalOfZeros ==
  ASSUME NEW S, NEW f \in [S -> Nat], \A x \in S : f[x] = 0
  PROVE  Total(f) = 0
<1>1. CentsOf(f) = {}
  BY DEF CentsOf
<1> QED
  BY <1>1, FS_EmptySet DEF Total

(* Raising amounts never lowers the total.                                 *)
LEMMA TotalMonotone ==
  ASSUME NEW S, IsFiniteSet(S), NEW f \in [S -> Nat], NEW g \in [S -> Nat],
         \A x \in S : f[x] <= g[x]
  PROVE  Total(f) <= Total(g)
<1>1. CentsOf(f) \in SUBSET CentsOf(g)
  <2> SUFFICES ASSUME NEW x \in S, NEW i \in 1..f[x]
               PROVE  i \in 1..g[x]
    BY DEF CentsOf
  <2> QED
    OBVIOUS
<1>2. IsFiniteSet(CentsOf(g))
  BY CentsFinite
<1> QED
  BY <1>1, <1>2, FS_Subset DEF Total

(* Changing one row moves the total by what the row changed.  The equation *)
(* has no subtraction, so it reads the same for a rise and for a fall.     *)
LEMMA TotalUpdate ==
  ASSUME NEW S, IsFiniteSet(S), NEW f \in [S -> Nat], NEW g \in [S -> Nat],
         NEW x \in S, \A y \in S \ {x} : f[y] = g[y]
  PROVE  Total(g) + f[x] = Total(f) + g[x]
<1> DEFINE CentsAt(h) == {x} \X (1..h[x])
           Rest(h) == UNION {{y} \X (1..h[y]) : y \in S \ {x}}
<1>1. ASSUME NEW h \in [S -> Nat]
      PROVE  /\ IsFiniteSet(Rest(h))
             /\ Total(h) = Cardinality(Rest(h)) + h[x]
  <2>1. CentsOf(h) = Rest(h) \cup CentsAt(h)
    BY DEF CentsOf
  <2>2. Rest(h) \cap CentsAt(h) = {}
    OBVIOUS
  <2>3. IsFiniteSet(CentsOf(h))
    BY CentsFinite
  <2>4. IsFiniteSet(Rest(h))
    <3>1. Rest(h) \in SUBSET CentsOf(h)
      BY <2>1
    <3> HIDE DEF Rest
    <3> QED BY <3>1, <2>3, FS_Subset
  <2>5. h[x] \in Nat /\ IsFiniteSet(CentsAt(h)) /\ Cardinality(CentsAt(h)) = h[x]
    BY RowCents
  <2>6. /\ Cardinality(Rest(h)) \in Nat
        /\ Cardinality(Rest(h) \cap CentsAt(h)) = 0
    BY <2>2, <2>4, FS_CardinalityType, FS_EmptySet
  <2>7. Cardinality(Rest(h) \cup CentsAt(h))
          = Cardinality(Rest(h)) + Cardinality(CentsAt(h)) - Cardinality(Rest(h) \cap CentsAt(h))
    <3> HIDE DEF Rest, CentsAt
    <3> QED BY <2>4, <2>5, FS_Union
  <2>8. Total(h) = Cardinality(Rest(h) \cup CentsAt(h))
    BY <2>1 DEF Total
  <2> HIDE DEF Rest, CentsAt
  <2> QED
    BY <2>4, <2>5, <2>6, <2>7, <2>8
<1>2. Rest(f) = Rest(g)
  OBVIOUS
<1>3. Cardinality(Rest(f)) \in Nat
  <2> HIDE DEF Rest
  <2> QED BY <1>1, FS_CardinalityType
<1> HIDE DEF Rest
<1> QED
  BY <1>1, <1>2, <1>3

(* No row exceeds the total of its table.                                  *)
LEMMA RowWithinTotal ==
  ASSUME NEW S, IsFiniteSet(S), NEW f \in [S -> Nat], NEW x \in S
  PROVE  f[x] <= Total(f)
<1> DEFINE g == [f EXCEPT ![x] = 0]
<1>1. g \in [S -> Nat] /\ g[x] = 0 /\ \A y \in S \ {x} : f[y] = g[y]
  OBVIOUS
<1>2. Total(f) \in Nat /\ Total(g) \in Nat
  BY <1>1, TotalType
<1>3. Total(g) + f[x] = Total(f) + g[x]
  <2> HIDE DEF g
  <2> QED BY <1>1, TotalUpdate
<1> QED
  BY <1>1, <1>2, <1>3

(* A total splits along any division of its rows.                          *)
LEMMA TotalSplit ==
  ASSUME NEW S, IsFiniteSet(S),
         NEW f \in [S -> Nat], NEW g \in [S -> Nat], NEW h \in [S -> Nat],
         \A x \in S : (g[x] = f[x] /\ h[x] = 0) \/ (g[x] = 0 /\ h[x] = f[x])
  PROVE  Total(f) = Total(g) + Total(h)
<1>1. CentsOf(f) = CentsOf(g) \cup CentsOf(h)
  <2>1. CentsOf(f) \subseteq CentsOf(g) \cup CentsOf(h)
    <3> SUFFICES ASSUME NEW x \in S, NEW i \in 1..f[x]
                 PROVE  i \in 1..g[x] \/ i \in 1..h[x]
      BY DEF CentsOf
    <3> QED OBVIOUS
  <2>2. CentsOf(g) \subseteq CentsOf(f)
    <3> SUFFICES ASSUME NEW x \in S, NEW i \in 1..g[x] PROVE i \in 1..f[x]
      BY DEF CentsOf
    <3> QED OBVIOUS
  <2>3. CentsOf(h) \subseteq CentsOf(f)
    <3> SUFFICES ASSUME NEW x \in S, NEW i \in 1..h[x] PROVE i \in 1..f[x]
      BY DEF CentsOf
    <3> QED OBVIOUS
  <2> QED BY <2>1, <2>2, <2>3
<1>2. CentsOf(g) \cap CentsOf(h) = {}
  <2> SUFFICES ASSUME NEW x \in S, NEW i \in 1..g[x], i \in 1..h[x] PROVE FALSE
    BY DEF CentsOf
  <2> QED OBVIOUS
<1>3. /\ IsFiniteSet(CentsOf(g)) /\ IsFiniteSet(CentsOf(h))
      /\ Cardinality(CentsOf(g)) \in Nat /\ Cardinality(CentsOf(h)) \in Nat
      /\ Cardinality(CentsOf(g) \cap CentsOf(h)) = 0
  BY <1>2, CentsFinite, FS_CardinalityType, FS_EmptySet
<1>4. Cardinality(CentsOf(g) \cup CentsOf(h))
        = Cardinality(CentsOf(g)) + Cardinality(CentsOf(h)) - Cardinality(CentsOf(g) \cap CentsOf(h))
  BY <1>3, FS_Union
<1> QED
  BY <1>1, <1>3, <1>4 DEF Total

(* AllCents that are filed elsewhere under names of their own, with no smaller *)
(* amounts, add up to no more there.                                       *)
LEMMA TotalRenamed ==
  ASSUME NEW S, NEW T, IsFiniteSet(T), NEW f \in [S -> Nat], NEW g \in [T -> Nat],
         NEW name,
         \A x \in S : f[x] > 0 => name[x] \in T /\ f[x] <= g[name[x]],
         \A x, y \in S : f[x] > 0 /\ f[y] > 0 /\ name[x] = name[y] => x = y
  PROVE  Total(f) <= Total(g)
<1> DEFINE move == [c \in CentsOf(f) |-> <<name[c[1]], c[2]>>]
<1>1. ASSUME NEW c \in CentsOf(f)
      PROVE  /\ c[1] \in S /\ f[c[1]] > 0 /\ c = <<c[1], c[2]>>
             /\ move[c] = <<name[c[1]], c[2]>> /\ move[c] \in CentsOf(g)
  <2>1. PICK x \in S : c \in {x} \X (1..f[x])
    BY DEF CentsOf
  <2>2. c[1] = x /\ c[2] \in 1..f[x] /\ c = <<c[1], c[2]>>
    BY <2>1
  <2>3. f[x] > 0 /\ name[x] \in T /\ c[2] \in 1..g[name[x]]
    BY <2>2
  <2>4. <<name[x], c[2]>> \in {name[x]} \X (1..g[name[x]])
    BY <2>3
  <2> QED
    BY <2>2, <2>3, <2>4 DEF CentsOf
<1>2. move \in [CentsOf(f) -> CentsOf(g)]
  BY <1>1
<1>3. ASSUME NEW c \in CentsOf(f), NEW d \in CentsOf(f), move[c] = move[d]
      PROVE  c = d
  BY <1>1, <1>3
<1>4. move \in Injection(CentsOf(f), CentsOf(g))
  <2> HIDE DEF move
  <2> QED BY <1>2, <1>3 DEF Injection, IsInjective
<1>5. IsFiniteSet(CentsOf(g))
  BY CentsFinite
<1> HIDE DEF move
<1> QED
  BY <1>4, <1>5, FS_Injection DEF Total

-----------------------------------------------------------------------------
(* The ledger.                                                             *)

(* An envelope that was never activated has no rows at all.                *)
NeverActivated(e) ==
    envelope[e].status = "none" =>
        /\ envelope[e] = NoRow
        /\ \A k \in Key : consumption[e][k] = NoConsumption /\ reservation[e][k] = NoReservation

(* The limits are the plan's allocation, from activation on.               *)
LimitsFromPlan(e) ==
    envelope[e].status # "none" =>
        /\ content[e[1]] \in PlanContent
        /\ envelope[e].cashLimit = content[e[1]].alloc[e[2]].cash
        /\ envelope[e].callLimit = content[e[1]].alloc[e[2]].calls

(* Only a settled commitment has cost anything; an open one is positive    *)
(* and its envelope can still be charged.                                  *)
CommitmentRow(e, k) ==
    /\ reservation[e][k].status # "settled" => reservation[e][k].settled = 0
    /\ IsOpen(e, k) => reservation[e][k].reserved > 0 /\ envelope[e].status = "active"

Conserved(e) ==
    envelope[e].status # "revoked" =>
        /\ envelope[e].cashUsed = CashSpent(e)
        /\ envelope[e].callsUsed = CallsConsumed(e)

Covered(e) ==
    /\ CashSpent(e) + OpenCash(e) <= envelope[e].cashLimit
    /\ CallsConsumed(e) <= envelope[e].callLimit

(* A row that revoke holds in memory may be stale in its counters but not  *)
(* in its limits.                                                          *)
SnapshotLimits(c) ==
    snapshot[c] # None =>
        LET e == snapshot[c].of
        IN  /\ envelope[e].status # "none"
            /\ snapshot[c].row.cashLimit = envelope[e].cashLimit
            /\ snapshot[c].row.callLimit = envelope[e].callLimit

EnvelopeInv(e) ==
    /\ NeverActivated(e)
    /\ LimitsFromPlan(e)
    /\ \A k \in Key : CommitmentRow(e, k)
    /\ Conserved(e)
    /\ Covered(e)

LedgerInv ==
    /\ TypeOK
    /\ \A p \in Plan : planState[p] = "unborn" => content[p] = None
    /\ \A e \in Envelope : EnvelopeInv(e)
    /\ \A c \in Client : SnapshotLimits(c)
    /\ OneActivePlan

-----------------------------------------------------------------------------
(* Charging a row keeps it a row, whatever is charged.                     *)
LEMMA ChargedType ==
  ASSUME NEW row \in Row, NEW cash \in Nat, NEW calls \in Nat
  PROVE  /\ Charged(row, cash, calls) \in Row
         /\ Charged(row, cash, calls).cashUsed = row.cashUsed + cash
         /\ Charged(row, cash, calls).callsUsed = row.callsUsed + calls
         /\ Charged(row, cash, calls).cashLimit = row.cashLimit
         /\ Charged(row, cash, calls).callLimit = row.callLimit
         /\ Charged(row, cash, calls).status \in {row.status, "exhausted"}
         /\ Charged(row, cash, calls).status = "exhausted" =>
               \/ row.status = "exhausted"
               \/ row.cashUsed + cash >= row.cashLimit
<1> DEFINE new == Charged(row, cash, calls)
           spent == row.cashUsed + cash >= row.cashLimit /\ row.callsUsed + calls >= row.callLimit
<1>1. /\ new.cashUsed = row.cashUsed + cash
      /\ new.callsUsed = row.callsUsed + calls
      /\ new.cashLimit = row.cashLimit
      /\ new.callLimit = row.callLimit
  BY DEF Charged, Row
<1>2. new.status = IF spent THEN "exhausted" ELSE row.status
  BY DEF Charged, Row
<1>3. /\ row.status \in EnvelopeStatus /\ row.cashLimit \in Nat /\ row.callLimit \in Nat
      /\ row.cashUsed \in Nat /\ row.callsUsed \in Nat
  BY DEF Row
<1>4. new \in Row
  BY <1>3 DEF Charged, Row, EnvelopeStatus
<1> QED
  BY <1>1, <1>2, <1>3, <1>4

(* The rows of one envelope are tables of natural amounts.                 *)
LEMMA RowsTyped ==
  ASSUME TypeOK, NEW e \in Envelope
  PROVE  /\ OpenRows(e) \in [Key -> Nat]
         /\ CashRows(e) \in [Key -> Nat]
         /\ CallRows(e) \in [Key -> Nat]
         /\ SettledRows(e) \in [Key -> Nat]
BY DEF TypeOK, OpenRows, CashRows, CallRows, SettledRows, IsOpen, Reservation, Consumption

(* The sums over the rows of one envelope are natural numbers.             *)
LEMMA TotalsTyped ==
  ASSUME TypeOK, NEW e \in Envelope
  PROVE  /\ OpenCash(e) \in Nat
         /\ CashConsumed(e) \in Nat
         /\ CallsConsumed(e) \in Nat
         /\ CashSettled(e) \in Nat
BY RowsTyped, TotalType, FiniteAssumption
   DEF OpenCash, CashConsumed, CallsConsumed, CashSettled

(* Rows that a step leaves alone add up to what they did.                  *)
LEMMA ConsumptionFrame ==
  ASSUME NEW e \in Envelope, consumption'[e] = consumption[e]
  PROVE  CashConsumed(e)' = CashConsumed(e) /\ CallsConsumed(e)' = CallsConsumed(e)
BY DEF CashConsumed, CallsConsumed, CashRows, CallRows

(* The same for the sums over the rows of cash_reservations.               *)
LEMMA ReservationFrame ==
  ASSUME NEW e \in Envelope, reservation'[e] = reservation[e]
  PROVE  OpenCash(e)' = OpenCash(e) /\ CashSettled(e)' = CashSettled(e)
BY DEF OpenCash, CashSettled, OpenRows, SettledRows, IsOpen

-----------------------------------------------------------------------------
(* Type correctness is inductive on its own.                               *)
LEMMA InitType == Init => TypeOK
BY FiniteAssumption
   DEF Init, TypeOK, PlanState, Row, NoRow, EnvelopeStatus, Consumption, NoConsumption,
       Reservation, NoReservation, ReservationStatus, NoPlan, Plan, Envelope

(* No operation of the treasury writes a row outside its columns.          *)
LEMMA NextType == TypeOK /\ [Next]_vars => TypeOK'
<1> SUFFICES ASSUME TypeOK, [Next]_vars PROVE TypeOK'
  OBVIOUS
<1> USE FiniteAssumption DEF TypeOK
<1>1. ASSUME NEW p \in Plan, NEW new \in PlanContent, SavePlan(p, new) PROVE TypeOK'
  BY <1>1 DEF SavePlan, ledger, PlanState, NoPlan
<1>2. ASSUME NEW p \in Plan, DiscardPlan(p) PROVE TypeOK'
  BY <1>2 DEF DiscardPlan, IsLatest, ledger, PlanState
<1>3. ASSUME NEW c \in Client, NEW p \in Plan, CheckLatest(c, p) PROVE TypeOK'
  BY <1>3 DEF CheckLatest, IsLatest, ledger, plans, PlanState
<1>4. ASSUME NEW c \in Client, Activate(c) PROVE TypeOK'
  <2>1. checked[c] \in Plan /\ content[checked[c]].alloc \in Allocation
    BY <1>4, PlanAssumption DEF Activate
  <2>2. \A e \in Envelope : e[2] \in Venture /\ envelope[e] \in Row
    BY DEF Envelope
  <2>3. \A e \in Envelope : Activated(checked[c], e) \in Row
    BY <2>1, <2>2 DEF Activated, Allocation, Row, EnvelopeStatus
  <2> QED
    BY <1>4, <2>3 DEF Activate, plans, NoPlan
<1>5. ASSUME NEW c \in Client, AbortActivate(c) PROVE TypeOK'
  BY <1>5 DEF AbortActivate, ledger, plans, NoPlan
<1>6. ASSUME NEW c \in Client, NEW e \in Envelope, ReadForRevoke(c, e) PROVE TypeOK'
  BY <1>6 DEF ReadForRevoke, ledger, plans, Snapshot
<1>7. ASSUME NEW c \in Client, WriteRevoked(c) PROVE TypeOK'
  <2>1. snapshot[c] \in Snapshot
    BY <1>7 DEF WriteRevoked
  <2>2. [snapshot[c].row EXCEPT !.status = "revoked"] \in Row
    BY <2>1 DEF Snapshot, Row, EnvelopeStatus
  <2> QED
    BY <1>7, <2>1, <2>2 DEF WriteRevoked, plans, Snapshot
<1>8. ASSUME NEW c \in Client, GiveUp(c) PROVE TypeOK'
  BY <1>8 DEF GiveUp, ledger, plans, NoPlan
<1>9. ASSUME NEW e \in Envelope, NEW k \in Key, NEW cash \in Nat, NEW calls \in Nat,
             Consume(e, k, cash, calls)
      PROVE  TypeOK'
  <2>1. Charged(envelope[e], cash, calls) \in Row
    BY ChargedType
  <2>2. [cash |-> cash, calls |-> calls] \in Consumption
    BY DEF Consumption
  <2> QED
    BY <1>9, <2>1, <2>2 DEF Consume, plans
<1>10. ASSUME NEW e \in Envelope, NEW k \in Key, NEW amount \in Nat, Reserve(e, k, amount)
       PROVE  TypeOK'
  BY <1>10 DEF Reserve, plans, Reservation, ReservationStatus
<1>11. ASSUME NEW e \in Envelope, NEW k \in Key, NEW actual \in Nat, Settle(e, k, actual)
       PROVE  TypeOK'
  <2>1. Charged(envelope[e], actual, 0) \in Row
    BY ChargedType
  <2>2. [reservation[e][k] EXCEPT !.status = "settled", !.settled = actual] \in Reservation
    <3>1. reservation[e][k] \in Reservation
      OBVIOUS
    <3> QED BY <3>1 DEF Reservation, ReservationStatus
  <2> QED
    BY <1>11, <2>1, <2>2 DEF Settle, plans
<1>12. ASSUME NEW e \in Envelope, NEW k \in Key, Release(e, k) PROVE TypeOK'
  <2>1. [reservation[e][k] EXCEPT !.status = "released"] \in Reservation
    <3>1. reservation[e][k] \in Reservation
      OBVIOUS
    <3> QED BY <3>1 DEF Reservation, ReservationStatus
  <2> QED
    BY <1>12, <2>1 DEF Release, plans
<1>13. CASE UNCHANGED vars
  BY <1>13 DEF vars
<1> QED
  BY <1>1, <1>2, <1>3, <1>4, <1>5, <1>6, <1>7, <1>8, <1>9, <1>10, <1>11, <1>12, <1>13
     DEF Next, PlanStep, ClientStep, LedgerStep, ConsumeCall, ConsumeCash

(* Every row of every table is always well formed.                         *)
THEOREM TypeCorrect == Spec => []TypeOK
<1>1. Init => TypeOK
  BY InitType
<1>2. TypeOK /\ [Next]_vars => TypeOK'
  BY NextType
<1> QED
  BY <1>1, <1>2, PTL DEF Spec

-----------------------------------------------------------------------------
(* What each ledger operation does to the sums of the envelope it touches. *)
LEMMA ConsumeTotals ==
  ASSUME TypeOK, TypeOK', NEW e \in Envelope, NEW k \in Key, NEW cash \in Nat, NEW calls \in Nat,
         Consume(e, k, cash, calls)
  PROVE  /\ CashConsumed(e)' = CashConsumed(e) + cash
         /\ CallsConsumed(e)' = CallsConsumed(e) + calls
         /\ OpenCash(e)' = OpenCash(e)
         /\ CashSettled(e)' = CashSettled(e)
<1>1. /\ CashRows(e) \in [Key -> Nat] /\ CashRows(e)' \in [Key -> Nat]
      /\ CallRows(e) \in [Key -> Nat] /\ CallRows(e)' \in [Key -> Nat]
  BY RowsTyped DEF TypeOK, CashRows, CallRows, Consumption
<1>2. consumption'[e] = [consumption[e] EXCEPT ![k] = [cash |-> cash, calls |-> calls]]
  BY DEF Consume, TypeOK
<1>3. consumption[e] \in [Key -> Consumption] /\ consumption[e][k] = NoConsumption
  BY DEF Consume, TypeOK
<1>4. /\ CashRows(e)[k] = 0 /\ CashRows(e)'[k] = cash
      /\ \A j \in Key \ {k} : CashRows(e)[j] = CashRows(e)'[j]
  BY <1>2, <1>3 DEF CashRows, NoConsumption
<1>5. /\ CallRows(e)[k] = 0 /\ CallRows(e)'[k] = calls
      /\ \A j \in Key \ {k} : CallRows(e)[j] = CallRows(e)'[j]
  BY <1>2, <1>3 DEF CallRows, NoConsumption
<1>6. /\ Total(CashRows(e)') + CashRows(e)[k] = Total(CashRows(e)) + CashRows(e)'[k]
      /\ Total(CallRows(e)') + CallRows(e)[k] = Total(CallRows(e)) + CallRows(e)'[k]
  BY <1>1, <1>4, <1>5, TotalUpdate, FiniteAssumption
<1>7. /\ Total(CashRows(e)) \in Nat /\ Total(CashRows(e)') \in Nat
      /\ Total(CallRows(e)) \in Nat /\ Total(CallRows(e)') \in Nat
  BY <1>1, TotalType, FiniteAssumption
<1>8. CashConsumed(e)' = CashConsumed(e) + cash /\ CallsConsumed(e)' = CallsConsumed(e) + calls
  BY <1>4, <1>5, <1>6, <1>7 DEF CashConsumed, CallsConsumed
<1>9. OpenCash(e)' = OpenCash(e) /\ CashSettled(e)' = CashSettled(e)
  BY ReservationFrame DEF Consume
<1> QED
  BY <1>8, <1>9

(* One row of cash_reservations is rewritten: the sums move by that row.   *)
LEMMA RewriteReservation ==
  ASSUME TypeOK, TypeOK', NEW e \in Envelope, NEW k \in Key, NEW row \in Reservation,
         reservation' = [reservation EXCEPT ![e][k] = row]
  PROVE  /\ OpenCash(e)' + OpenRows(e)[k]
               = OpenCash(e) + (IF row.status = "reserved" THEN row.reserved ELSE 0)
         /\ CashSettled(e)' + reservation[e][k].settled = CashSettled(e) + row.settled
         /\ OpenCash(e)' \in Nat /\ CashSettled(e)' \in Nat
<1>1. /\ OpenRows(e) \in [Key -> Nat] /\ OpenRows(e)' \in [Key -> Nat]
      /\ SettledRows(e) \in [Key -> Nat] /\ SettledRows(e)' \in [Key -> Nat]
  BY RowsTyped DEF TypeOK, OpenRows, IsOpen, SettledRows, Reservation
<1>2. reservation'[e] = [reservation[e] EXCEPT ![k] = row] /\ reservation[e] \in [Key -> Reservation]
  BY DEF TypeOK
<1>3. /\ OpenRows(e)'[k] = IF row.status = "reserved" THEN row.reserved ELSE 0
      /\ \A j \in Key \ {k} : OpenRows(e)[j] = OpenRows(e)'[j]
  BY <1>2 DEF OpenRows, IsOpen
<1>4. /\ SettledRows(e)[k] = reservation[e][k].settled /\ SettledRows(e)'[k] = row.settled
      /\ \A j \in Key \ {k} : SettledRows(e)[j] = SettledRows(e)'[j]
  BY <1>2 DEF SettledRows
<1>5. /\ Total(OpenRows(e)') + OpenRows(e)[k] = Total(OpenRows(e)) + OpenRows(e)'[k]
      /\ Total(SettledRows(e)') + SettledRows(e)[k] = Total(SettledRows(e)) + SettledRows(e)'[k]
  BY <1>1, <1>3, <1>4, TotalUpdate, FiniteAssumption
<1>6. Total(OpenRows(e)') \in Nat /\ Total(SettledRows(e)') \in Nat
  BY <1>1, TotalType, FiniteAssumption
<1> QED
  BY <1>3, <1>4, <1>5, <1>6 DEF OpenCash, CashSettled

(* A positive open commitment shows in the sum of the open commitments.    *)
LEMMA OpenCounts ==
  ASSUME TypeOK, NEW e \in Envelope, NEW k \in Key, IsOpen(e, k)
  PROVE  reservation[e][k].reserved <= OpenCash(e)
<1>1. OpenRows(e) \in [Key -> Nat] /\ OpenRows(e)[k] = reservation[e][k].reserved
  BY RowsTyped DEF OpenRows
<1> QED
  BY <1>1, RowWithinTotal, FiniteAssumption DEF OpenCash

-----------------------------------------------------------------------------
(* A step that leaves the rows of an envelope alone keeps what they say.   *)
LEMMA EnvelopeFrame ==
  ASSUME TypeOK, TypeOK', NEW e \in Envelope, EnvelopeInv(e),
         envelope'[e] = envelope[e],
         consumption'[e] = consumption[e],
         reservation'[e] = reservation[e],
         envelope[e].status # "none" => content'[e[1]] = content[e[1]]
  PROVE  EnvelopeInv(e)'
<1>1. /\ CashConsumed(e)' = CashConsumed(e) /\ CallsConsumed(e)' = CallsConsumed(e)
      /\ OpenCash(e)' = OpenCash(e) /\ CashSettled(e)' = CashSettled(e)
  BY ConsumptionFrame, ReservationFrame
<1>2. NeverActivated(e)'
  BY DEF EnvelopeInv, NeverActivated
<1>3. LimitsFromPlan(e)'
  BY DEF EnvelopeInv, LimitsFromPlan
<1>4. \A k \in Key : CommitmentRow(e, k)'
  BY DEF EnvelopeInv, CommitmentRow, IsOpen
<1>5. Conserved(e)'
  BY <1>1 DEF EnvelopeInv, Conserved, CashSpent
<1>6. Covered(e)'
  BY <1>1 DEF EnvelopeInv, Covered, CashSpent
<1> QED
  BY <1>2, <1>3, <1>4, <1>5, <1>6 DEF EnvelopeInv

(* A step that touches no table of the ledger keeps the invariant.         *)
LEMMA LedgerFrame ==
  ASSUME LedgerInv, TypeOK', UNCHANGED ledger,
         \A p \in Plan : planState'[p] = "unborn" => content'[p] = None,
         \A p \in Plan : content'[p] = content[p] \/ planState[p] = "unborn",
         \A c \in Client : \/ snapshot'[c] \in {snapshot[c], None}
                           \/ SnapshotLimits(c)'
  PROVE  LedgerInv'
<1>1. ASSUME NEW e \in Envelope PROVE EnvelopeInv(e)'
  <2>1. EnvelopeInv(e) /\ TypeOK
    BY DEF LedgerInv
  <2>2. envelope[e].status # "none" => content'[e[1]] = content[e[1]]
    <3>1. e[1] \in Plan
      BY DEF Envelope
    <3>2. envelope[e].status # "none" => content[e[1]] # None
      BY <2>1, NoneAssumption DEF EnvelopeInv, LimitsFromPlan
    <3> QED
      BY <3>1, <3>2 DEF LedgerInv
  <2> QED
    BY <2>1, <2>2, EnvelopeFrame DEF ledger
<1>2. ASSUME NEW c \in Client PROVE SnapshotLimits(c)'
  BY DEF LedgerInv, SnapshotLimits, ledger
<1>3. OneActivePlan'
  BY DEF LedgerInv, OneActivePlan, ledger
<1> QED
  BY <1>1, <1>2, <1>3 DEF LedgerInv

(* A step that touches one activated envelope, keeps its limits and does   *)
(* not reopen it, keeps the invariant if it keeps that envelope's part.    *)
LEMMA OneEnvelopeStep ==
  ASSUME LedgerInv, TypeOK', UNCHANGED plans,
         NEW e \in Envelope, EnvelopeInv(e)',
         \A f \in Envelope \ {e} : /\ envelope'[f] = envelope[f]
                                   /\ consumption'[f] = consumption[f]
                                   /\ reservation'[f] = reservation[f],
         envelope'[e].status # "none",
         envelope'[e].status = "active" => envelope[e].status = "active",
         envelope'[e].cashLimit = envelope[e].cashLimit,
         envelope'[e].callLimit = envelope[e].callLimit,
         \A c \in Client : snapshot'[c] \in {snapshot[c], None}
  PROVE  LedgerInv'
<1>1. ASSUME NEW f \in Envelope PROVE EnvelopeInv(f)'
  <2>1. CASE f = e
    BY <2>1
  <2>2. CASE f # e
    BY <2>2, EnvelopeFrame DEF LedgerInv, plans
  <2> QED
    BY <2>1, <2>2
<1>2. ASSUME NEW c \in Client PROVE SnapshotLimits(c)'
  <2> SUFFICES ASSUME snapshot'[c] # None PROVE SnapshotLimits(c)'
    BY DEF SnapshotLimits
  <2>1. snapshot'[c] = snapshot[c]
    OBVIOUS
  <2>2. snapshot[c].of \in Envelope
    BY <2>1 DEF LedgerInv, TypeOK, Snapshot
  <2>3. SnapshotLimits(c)
    BY DEF LedgerInv
  <2> QED
    BY <2>1, <2>2, <2>3 DEF SnapshotLimits
<1>3. OneActivePlan'
  <2>1. \A f \in Envelope : envelope'[f].status = "active" => envelope[f].status = "active"
    OBVIOUS
  <2> QED
    BY <2>1 DEF LedgerInv, OneActivePlan
<1>4. \A p \in Plan : planState'[p] = "unborn" => content'[p] = None
  BY DEF LedgerInv, plans
<1> QED
  BY <1>1, <1>2, <1>3, <1>4 DEF LedgerInv

-----------------------------------------------------------------------------
(* consume charges an envelope without breaking the ledger: its own check  *)
(* of the counter and the cash-update trigger leave room for open commitments. *)
LEMMA ConsumeKeeps ==
  ASSUME LedgerInv, TypeOK', NEW e \in Envelope, NEW k \in Key,
         NEW cash \in Nat, NEW calls \in Nat, Consume(e, k, cash, calls)
  PROVE  LedgerInv'
<1> DEFINE row == envelope[e]
           new == Charged(row, cash, calls)
<1>1. TypeOK /\ EnvelopeInv(e) /\ row \in Row
  BY DEF LedgerInv, TypeOK
<1>2. /\ envelope'[e] = new /\ row.status = "active"
      /\ row.callsUsed + calls <= row.callLimit
      /\ new.cashUsed + OpenCash(e) <= new.cashLimit
  BY <1>1 DEF Consume, TypeOK, CoversOpen
<1>3. /\ new.cashUsed = row.cashUsed + cash /\ new.callsUsed = row.callsUsed + calls
      /\ new.cashLimit = row.cashLimit /\ new.callLimit = row.callLimit
      /\ new.status \in {row.status, "exhausted"}
      /\ new.status = "exhausted" => row.status = "exhausted" \/ row.cashUsed + cash >= row.cashLimit
  BY <1>1, ChargedType
<1>4. /\ CashConsumed(e)' = CashConsumed(e) + cash /\ CallsConsumed(e)' = CallsConsumed(e) + calls
      /\ OpenCash(e)' = OpenCash(e) /\ CashSettled(e)' = CashSettled(e)
  BY <1>1, ConsumeTotals
<1>5. /\ CashConsumed(e) \in Nat /\ CallsConsumed(e) \in Nat
      /\ OpenCash(e) \in Nat /\ CashSettled(e) \in Nat
      /\ row.cashUsed \in Nat /\ row.cashLimit \in Nat
      /\ row.callsUsed \in Nat /\ row.callLimit \in Nat
  BY <1>1, TotalsTyped DEF Row
<1>6. row.cashUsed = CashSpent(e) /\ row.callsUsed = CallsConsumed(e)
  BY <1>1, <1>2 DEF EnvelopeInv, Conserved
<1> HIDE DEF new
<1>7. reservation' = reservation /\ content' = content
  BY DEF Consume, plans
<1>8. ASSUME NEW j \in Key, IsOpen(e, j) PROVE new.status = "active"
  <2>1. reservation[e][j].reserved > 0 /\ reservation[e][j].reserved \in Nat
    BY <1>1, <1>8 DEF EnvelopeInv, CommitmentRow, TypeOK, Reservation
  <2>2. OpenCash(e) > 0
    BY <1>1, <1>5, <1>8, <2>1, OpenCounts
  <2> QED
    BY <1>2, <1>3, <1>5, <2>2
<1>9. EnvelopeInv(e)'
  <2>1. NeverActivated(e)'
    BY <1>2, <1>3 DEF NeverActivated
  <2>2. LimitsFromPlan(e)'
    BY <1>1, <1>2, <1>3, <1>7 DEF EnvelopeInv, LimitsFromPlan
  <2>3. ASSUME NEW j \in Key PROVE CommitmentRow(e, j)'
    BY <1>1, <1>2, <1>7, <1>8 DEF EnvelopeInv, CommitmentRow, IsOpen
  <2>4. Conserved(e)'
    BY <1>2, <1>3, <1>4, <1>5, <1>6 DEF Conserved, CashSpent
  <2>5. Covered(e)'
    BY <1>2, <1>3, <1>4, <1>5, <1>6 DEF Covered, CashSpent
  <2> QED
    BY <2>1, <2>2, <2>3, <2>4, <2>5 DEF EnvelopeInv
<1>10. \A f \in Envelope \ {e} : envelope'[f] = envelope[f] /\ consumption'[f] = consumption[f]
  BY <1>1 DEF Consume, TypeOK
<1> QED
  BY <1>2, <1>3, <1>7, <1>9, <1>10, OneEnvelopeStep DEF Consume

(* reserve promises cash that the capacity trigger found to be free.       *)
LEMMA ReserveKeeps ==
  ASSUME LedgerInv, TypeOK', NEW e \in Envelope, NEW k \in Key,
         NEW amount \in Nat, Reserve(e, k, amount)
  PROVE  LedgerInv'
<1> DEFINE row == envelope[e]
           new == [status |-> "reserved", reserved |-> amount, settled |-> 0]
<1>1. TypeOK /\ EnvelopeInv(e) /\ row \in Row
  BY DEF LedgerInv, TypeOK
<1>2. /\ row.status = "active" /\ amount > 0 /\ reservation[e][k].status = "none"
      /\ row.cashUsed + OpenCash(e) + amount <= row.cashLimit
      /\ reservation' = [reservation EXCEPT ![e][k] = new]
      /\ envelope' = envelope /\ consumption' = consumption /\ content' = content
  BY DEF Reserve, plans
<1>3. new \in Reservation
  BY DEF Reservation, ReservationStatus
<1>4. OpenRows(e)[k] = 0 /\ reservation[e][k].settled = 0
  BY <1>1, <1>2 DEF OpenRows, IsOpen, EnvelopeInv, CommitmentRow
<1>5. /\ CashConsumed(e) \in Nat /\ CallsConsumed(e) \in Nat
      /\ OpenCash(e) \in Nat /\ CashSettled(e) \in Nat
      /\ row.cashUsed \in Nat /\ row.cashLimit \in Nat
  BY <1>1, TotalsTyped DEF Row
<1>6. OpenCash(e)' = OpenCash(e) + amount /\ CashSettled(e)' = CashSettled(e)
  <2>1. /\ OpenCash(e)' + OpenRows(e)[k]
               = OpenCash(e) + (IF new.status = "reserved" THEN new.reserved ELSE 0)
        /\ CashSettled(e)' + reservation[e][k].settled = CashSettled(e) + new.settled
        /\ OpenCash(e)' \in Nat /\ CashSettled(e)' \in Nat
    <3> HIDE DEF new
    <3> QED BY <1>1, <1>2, <1>3, RewriteReservation
  <2> QED
    BY <1>4, <1>5, <2>1
<1>7. CashConsumed(e)' = CashConsumed(e) /\ CallsConsumed(e)' = CallsConsumed(e)
  BY <1>2, ConsumptionFrame
<1>8. EnvelopeInv(e)'
  <2>1. NeverActivated(e)'
    BY <1>2 DEF NeverActivated
  <2>2. LimitsFromPlan(e)'
    BY <1>1, <1>2 DEF EnvelopeInv, LimitsFromPlan
  <2>3. ASSUME NEW j \in Key PROVE CommitmentRow(e, j)'
    BY <1>1, <1>2 DEF EnvelopeInv, CommitmentRow, IsOpen, TypeOK
  <2>4. Conserved(e)'
    BY <1>1, <1>2, <1>6, <1>7 DEF EnvelopeInv, Conserved, CashSpent
  <2>5. Covered(e)'
    BY <1>1, <1>2, <1>5, <1>6, <1>7 DEF EnvelopeInv, Covered, Conserved, CashSpent
  <2> QED
    BY <2>1, <2>2, <2>3, <2>4, <2>5 DEF EnvelopeInv
<1>9. \A f \in Envelope \ {e} : reservation'[f] = reservation[f]
  BY <1>1, <1>2 DEF TypeOK
<1> QED
  BY <1>2, <1>8, <1>9, OneEnvelopeStep DEF Reserve

(* settle turns a promise into a charge of at most the same amount.        *)
LEMMA SettleKeeps ==
  ASSUME LedgerInv, TypeOK', NEW e \in Envelope, NEW k \in Key,
         NEW actual \in Nat, Settle(e, k, actual)
  PROVE  LedgerInv'
<1> DEFINE row == envelope[e]
           new == Charged(row, actual, 0)
           old == reservation[e][k]
           closed == [old EXCEPT !.status = "settled", !.settled = actual]
<1>1. TypeOK /\ EnvelopeInv(e) /\ row \in Row /\ old \in Reservation
  BY DEF LedgerInv, TypeOK
<1>2. /\ IsOpen(e, k) /\ old.status = "reserved"
      /\ row.cashUsed + actual + OpenCash(e) <= row.cashLimit + old.reserved
      /\ envelope'[e] = new
      /\ reservation' = [reservation EXCEPT ![e][k] = closed]
      /\ consumption' = consumption /\ content' = content
  BY <1>1 DEF Settle, plans, IsOpen, TypeOK
<1>3. /\ closed \in Reservation /\ closed.status = "settled" /\ closed.settled = actual
      /\ old.reserved \in Nat
  BY <1>1 DEF Reservation, ReservationStatus
<1>4. /\ OpenRows(e)[k] = old.reserved /\ old.settled = 0 /\ row.status = "active"
  BY <1>1, <1>2 DEF OpenRows, IsOpen, EnvelopeInv, CommitmentRow
<1>5. /\ CashConsumed(e) \in Nat /\ CallsConsumed(e) \in Nat
      /\ OpenCash(e) \in Nat /\ CashSettled(e) \in Nat
      /\ row.cashUsed \in Nat /\ row.cashLimit \in Nat
      /\ row.callsUsed \in Nat /\ row.callLimit \in Nat
  BY <1>1, TotalsTyped DEF Row
<1>6. /\ new.cashUsed = row.cashUsed + actual /\ new.callsUsed = row.callsUsed
      /\ new.cashLimit = row.cashLimit /\ new.callLimit = row.callLimit
      /\ new.status \in {"active", "exhausted"}
      /\ new.status = "exhausted" => row.cashUsed + actual >= row.cashLimit
  <2>1. /\ new.cashUsed = row.cashUsed + actual /\ new.callsUsed = row.callsUsed + 0
        /\ new.cashLimit = row.cashLimit /\ new.callLimit = row.callLimit
        /\ new.status \in {row.status, "exhausted"}
        /\ new.status = "exhausted" =>
              row.status = "exhausted" \/ row.cashUsed + actual >= row.cashLimit
    BY <1>1, ChargedType
  <2> HIDE DEF new
  <2> QED
    BY <1>4, <1>5, <2>1
<1>7. /\ OpenCash(e)' + old.reserved = OpenCash(e) /\ OpenCash(e)' \in Nat
      /\ CashSettled(e)' = CashSettled(e) + actual
  <2>1. /\ OpenCash(e)' + OpenRows(e)[k]
               = OpenCash(e) + (IF closed.status = "reserved" THEN closed.reserved ELSE 0)
        /\ CashSettled(e)' + old.settled = CashSettled(e) + closed.settled
        /\ OpenCash(e)' \in Nat /\ CashSettled(e)' \in Nat
    <3> HIDE DEF closed
    <3> QED BY <1>1, <1>2, <1>3, RewriteReservation
  <2> QED
    BY <1>3, <1>4, <1>5, <2>1
<1>8. CashConsumed(e)' = CashConsumed(e) /\ CallsConsumed(e)' = CallsConsumed(e)
  BY <1>2, ConsumptionFrame
<1>9. row.cashUsed = CashSpent(e) /\ row.callsUsed = CallsConsumed(e)
  BY <1>1, <1>4 DEF EnvelopeInv, Conserved
<1>10. /\ reservation'[e][k] = closed
       /\ \A j \in Key \ {k} : reservation'[e][j] = reservation[e][j]
       /\ \A f \in Envelope \ {e} : reservation'[f] = reservation[f] /\ envelope'[f] = envelope[f]
  BY <1>1, <1>2 DEF TypeOK, Settle
<1> HIDE DEF new, closed
\* What is still open after the charge would not fit into an exhausted envelope.
<1>11. ASSUME NEW j \in Key, IsOpen(e, j)' PROVE new.status = "active"
  <2>1. j # k /\ IsOpen(e, j) /\ reservation'[e][j] = reservation[e][j]
    BY <1>3, <1>10, <1>11 DEF IsOpen
  <2>2. reservation'[e][j].reserved > 0 /\ reservation'[e][j].reserved \in Nat
    BY <1>1, <2>1 DEF EnvelopeInv, CommitmentRow, TypeOK, Reservation
  <2>3. reservation'[e][j].reserved <= OpenCash(e)'
    <3>1. OpenRows(e)' \in [Key -> Nat] /\ OpenRows(e)'[j] = reservation'[e][j].reserved
      BY <1>11 DEF OpenRows, IsOpen, TypeOK, Reservation
    <3> QED
      BY <3>1, RowWithinTotal, FiniteAssumption DEF OpenCash
  <2> QED
    BY <1>2, <1>3, <1>5, <1>6, <1>7, <2>2, <2>3
<1>12. EnvelopeInv(e)'
  <2>1. NeverActivated(e)'
    BY <1>2, <1>6 DEF NeverActivated
  <2>2. LimitsFromPlan(e)'
    BY <1>1, <1>2, <1>4, <1>6 DEF EnvelopeInv, LimitsFromPlan
  <2>3. ASSUME NEW j \in Key PROVE CommitmentRow(e, j)'
    <3>1. CASE j = k
      BY <1>3, <1>10, <3>1 DEF CommitmentRow, IsOpen
    <3>2. CASE j # k
      BY <1>1, <1>2, <1>10, <1>11, <3>2 DEF EnvelopeInv, CommitmentRow, IsOpen
    <3> QED
      BY <3>1, <3>2
  <2>4. Conserved(e)'
    BY <1>2, <1>5, <1>6, <1>7, <1>8, <1>9 DEF Conserved, CashSpent
  <2>5. Covered(e)'
    <3>1. CallsConsumed(e) <= row.callLimit
      BY <1>1 DEF EnvelopeInv, Covered
    <3> QED
      BY <1>2, <1>3, <1>5, <1>6, <1>7, <1>8, <1>9, <3>1 DEF Covered, CashSpent
  <2> QED
    BY <2>1, <2>2, <2>3, <2>4, <2>5 DEF EnvelopeInv
<1> QED
  BY <1>2, <1>4, <1>6, <1>10, <1>12, OneEnvelopeStep DEF Settle

(* release gives a promise back and charges nothing.                       *)
LEMMA ReleaseKeeps ==
  ASSUME LedgerInv, TypeOK', NEW e \in Envelope, NEW k \in Key, Release(e, k)
  PROVE  LedgerInv'
<1> DEFINE row == envelope[e]
           old == reservation[e][k]
           closed == [old EXCEPT !.status = "released"]
<1>1. TypeOK /\ EnvelopeInv(e) /\ row \in Row /\ old \in Reservation
  BY DEF LedgerInv, TypeOK
<1>2. /\ IsOpen(e, k) /\ old.status = "reserved"
      /\ reservation' = [reservation EXCEPT ![e][k] = closed]
      /\ envelope' = envelope /\ consumption' = consumption /\ content' = content
  BY <1>1 DEF Release, plans, IsOpen, TypeOK
<1>3. /\ closed \in Reservation /\ closed.status = "released" /\ closed.settled = old.settled
      /\ old.reserved \in Nat
  BY <1>1 DEF Reservation, ReservationStatus
<1>4. /\ OpenRows(e)[k] = old.reserved /\ old.settled = 0 /\ row.status = "active"
  BY <1>1, <1>2 DEF OpenRows, IsOpen, EnvelopeInv, CommitmentRow
<1>5. /\ CashConsumed(e) \in Nat /\ OpenCash(e) \in Nat /\ CashSettled(e) \in Nat
      /\ row.cashLimit \in Nat
  BY <1>1, TotalsTyped DEF Row
<1>6. /\ OpenCash(e)' + old.reserved = OpenCash(e) /\ OpenCash(e)' \in Nat
      /\ CashSettled(e)' = CashSettled(e)
  <2>1. /\ OpenCash(e)' + OpenRows(e)[k]
               = OpenCash(e) + (IF closed.status = "reserved" THEN closed.reserved ELSE 0)
        /\ CashSettled(e)' + old.settled = CashSettled(e) + closed.settled
        /\ OpenCash(e)' \in Nat /\ CashSettled(e)' \in Nat
    <3> HIDE DEF closed
    <3> QED BY <1>1, <1>2, <1>3, RewriteReservation
  <2> QED
    BY <1>3, <1>4, <1>5, <2>1
<1>7. CashConsumed(e)' = CashConsumed(e) /\ CallsConsumed(e)' = CallsConsumed(e)
  BY <1>2, ConsumptionFrame
<1>8. /\ reservation'[e][k] = closed
      /\ \A j \in Key \ {k} : reservation'[e][j] = reservation[e][j]
      /\ \A f \in Envelope \ {e} : reservation'[f] = reservation[f]
  BY <1>1, <1>2 DEF TypeOK
<1> HIDE DEF closed
<1>9. EnvelopeInv(e)'
  <2>1. NeverActivated(e)'
    BY <1>2, <1>4 DEF NeverActivated
  <2>2. LimitsFromPlan(e)'
    BY <1>1, <1>2 DEF EnvelopeInv, LimitsFromPlan
  <2>3. ASSUME NEW j \in Key PROVE CommitmentRow(e, j)'
    <3>1. CASE j = k
      BY <1>3, <1>4, <1>8, <3>1 DEF CommitmentRow, IsOpen
    <3>2. CASE j # k
      BY <1>1, <1>2, <1>8, <3>2 DEF EnvelopeInv, CommitmentRow, IsOpen
    <3> QED
      BY <3>1, <3>2
  <2>4. Conserved(e)'
    BY <1>1, <1>2, <1>6, <1>7 DEF EnvelopeInv, Conserved, CashSpent
  <2>5. Covered(e)'
    BY <1>1, <1>2, <1>3, <1>5, <1>6, <1>7 DEF EnvelopeInv, Covered, CashSpent
  <2> QED
    BY <2>1, <2>2, <2>3, <2>4, <2>5 DEF EnvelopeInv
<1> QED
  BY <1>2, <1>4, <1>8, <1>9, OneEnvelopeStep DEF Release

(* activate closes the envelopes of every other plan and opens those of its *)
(* own, empty and with the limits that the plan allots.                    *)
LEMMA ActivateKeeps ==
  ASSUME LedgerInv, TypeOK', NEW c \in Client, Activate(c)
  PROVE  LedgerInv'
<1> DEFINE p == checked[c]
<1>1. /\ TypeOK /\ p \in Plan /\ content[p] \in PlanContent
      /\ consumption' = consumption /\ reservation' = reservation
      /\ content' = content /\ planState' = planState /\ snapshot' = snapshot
      /\ \A e \in Envelope : envelope'[e] = Activated(p, e)
      /\ \A e \in Superseded(p) : \A k \in Key : ~IsOpen(e, k)
  BY DEF LedgerInv, TypeOK, Activate, plans
<1> HIDE DEF p
<1>2. ASSUME NEW e \in Envelope
      PROVE  /\ EnvelopeInv(e)'
             /\ envelope[e].status # "none" => /\ envelope'[e].status # "none"
                                              /\ envelope'[e].cashLimit = envelope[e].cashLimit
                                              /\ envelope'[e].callLimit = envelope[e].callLimit
             /\ envelope'[e].status = "active" => e[1] = p
  <2>1. EnvelopeInv(e) /\ envelope[e] \in Row /\ e[1] \in Plan /\ e[2] \in Venture
    BY <1>1 DEF LedgerInv, TypeOK, Envelope
  <2>2. /\ CashConsumed(e)' = CashConsumed(e) /\ CallsConsumed(e)' = CallsConsumed(e)
        /\ OpenCash(e)' = OpenCash(e) /\ CashSettled(e)' = CashSettled(e)
    BY <1>1, ConsumptionFrame, ReservationFrame
  <2>3. CASE e \in Superseded(p)
    <3>1. /\ envelope'[e] = [envelope[e] EXCEPT !.status = "revoked"]
          /\ envelope[e].status = "active" /\ \A k \in Key : ~IsOpen(e, k)
      BY <1>1, <2>3 DEF Activated, Superseded
    <3>2. /\ envelope'[e].status = "revoked"
          /\ envelope'[e].cashLimit = envelope[e].cashLimit
          /\ envelope'[e].callLimit = envelope[e].callLimit
      BY <2>1, <3>1 DEF Row
    <3>3. \A k \in Key : CommitmentRow(e, k)'
      BY <1>1, <2>1, <3>1 DEF EnvelopeInv, CommitmentRow, IsOpen
    <3>4. LimitsFromPlan(e)' /\ NeverActivated(e)' /\ Conserved(e)'
      BY <1>1, <2>1, <3>1, <3>2 DEF EnvelopeInv, LimitsFromPlan, NeverActivated, Conserved
    <3>5. Covered(e)'
      BY <2>1, <2>2, <3>2 DEF EnvelopeInv, Covered, CashSpent
    <3> QED
      BY <3>1, <3>2, <3>3, <3>4, <3>5 DEF EnvelopeInv
  <2>4. CASE e \notin Superseded(p) /\ e[1] = p /\ IsFunded(p, e[2]) /\ envelope[e].status = "none"
    <3>1. envelope'[e] = [status |-> "active",
                          cashLimit |-> content[p].alloc[e[2]].cash,
                          callLimit |-> content[p].alloc[e[2]].calls,
                          cashUsed |-> 0, callsUsed |-> 0]
      BY <1>1, <2>4 DEF Activated
    <3>2. \A k \in Key : consumption[e][k] = NoConsumption /\ reservation[e][k] = NoReservation
      BY <2>1, <2>4 DEF EnvelopeInv, NeverActivated
    <3>3. /\ CashConsumed(e) = 0 /\ CallsConsumed(e) = 0
          /\ OpenCash(e) = 0 /\ CashSettled(e) = 0
      <4>1. /\ \A k \in Key : CashRows(e)[k] = 0 /\ CallRows(e)[k] = 0
            /\ \A k \in Key : OpenRows(e)[k] = 0 /\ SettledRows(e)[k] = 0
        BY <3>2 DEF CashRows, CallRows, OpenRows, SettledRows, IsOpen, NoConsumption, NoReservation
      <4> QED
        BY <1>1, <4>1, RowsTyped, TotalOfZeros
           DEF CashConsumed, CallsConsumed, OpenCash, CashSettled
    <3>4. content[p].alloc[e[2]].cash \in Nat /\ content[p].alloc[e[2]].calls \in Nat
      BY <1>1, <2>1, PlanAssumption DEF Allocation
    <3>5. NeverActivated(e)' /\ LimitsFromPlan(e)'
      BY <1>1, <2>4, <3>1 DEF NeverActivated, LimitsFromPlan
    <3>6. \A k \in Key : CommitmentRow(e, k)'
      BY <1>1, <3>2 DEF CommitmentRow, IsOpen, NoReservation
    <3>7. Conserved(e)' /\ Covered(e)'
      BY <2>2, <3>1, <3>3, <3>4 DEF Conserved, Covered, CashSpent
    <3> QED
      BY <2>4, <3>5, <3>6, <3>7 DEF EnvelopeInv
  <2>5. CASE e \notin Superseded(p) /\ ~(e[1] = p /\ IsFunded(p, e[2]) /\ envelope[e].status = "none")
    <3>1. envelope'[e] = envelope[e]
      BY <1>1, <2>5 DEF Activated
    <3>2. EnvelopeInv(e)'
      BY <1>1, <2>1, <3>1, EnvelopeFrame
    <3> QED
      BY <2>5, <3>1, <3>2 DEF Superseded
  <2> QED
    BY <2>3, <2>4, <2>5
<1>3. ASSUME NEW d \in Client PROVE SnapshotLimits(d)'
  <2> SUFFICES ASSUME snapshot[d] # None PROVE SnapshotLimits(d)'
    BY <1>1 DEF SnapshotLimits
  <2>1. snapshot[d].of \in Envelope /\ SnapshotLimits(d)
    BY <1>1 DEF LedgerInv, TypeOK, Snapshot
  <2> QED
    BY <1>1, <1>2, <2>1 DEF SnapshotLimits
<1>4. OneActivePlan'
  BY <1>2 DEF OneActivePlan
<1> QED
  BY <1>1, <1>2, <1>3, <1>4 DEF LedgerInv

(* revoke may write back a stale row, but only one that stays closed.      *)
LEMMA WriteRevokedKeeps ==
  ASSUME LedgerInv, TypeOK', NEW c \in Client, WriteRevoked(c)
  PROVE  LedgerInv'
<1>0. PICK e \in Envelope : e = snapshot[c].of
  BY DEF LedgerInv, TypeOK, WriteRevoked, Snapshot
<1>1. /\ TypeOK /\ snapshot[c] \in Snapshot /\ snapshot[c] # None
      /\ snapshot[c].row \in Row
      /\ EnvelopeInv(e) /\ SnapshotLimits(c)
  BY DEF LedgerInv, TypeOK, WriteRevoked, Snapshot
<1>2. /\ envelope'[e] = [snapshot[c].row EXCEPT !.status = "revoked"]
      /\ \A k \in Key : ~IsOpen(e, k)
      /\ consumption' = consumption /\ reservation' = reservation /\ content' = content
      /\ \A f \in Envelope \ {e} : envelope'[f] = envelope[f]
      /\ \A d \in Client : snapshot'[d] \in {snapshot[d], None}
  BY <1>0, <1>1 DEF WriteRevoked, plans, TypeOK
<1>3. /\ envelope[e].status # "none" /\ envelope'[e].status = "revoked"
      /\ envelope'[e].cashLimit = envelope[e].cashLimit
      /\ envelope'[e].callLimit = envelope[e].callLimit
  BY <1>0, <1>1, <1>2 DEF SnapshotLimits, Row
<1>4. /\ CashConsumed(e)' = CashConsumed(e) /\ CallsConsumed(e)' = CallsConsumed(e)
      /\ OpenCash(e)' = OpenCash(e) /\ CashSettled(e)' = CashSettled(e)
  BY <1>1, <1>2, ConsumptionFrame, ReservationFrame
<1>5. EnvelopeInv(e)'
  <2>1. \A k \in Key : CommitmentRow(e, k)'
    BY <1>1, <1>2 DEF EnvelopeInv, CommitmentRow, IsOpen
  <2>2. LimitsFromPlan(e)' /\ NeverActivated(e)' /\ Conserved(e)'
    BY <1>1, <1>2, <1>3 DEF EnvelopeInv, LimitsFromPlan, NeverActivated, Conserved
  <2>3. Covered(e)'
    BY <1>1, <1>3, <1>4 DEF EnvelopeInv, Covered, CashSpent
  <2> QED
    BY <2>1, <2>2, <2>3 DEF EnvelopeInv
<1>6. UNCHANGED plans
  BY DEF WriteRevoked
<1> QED
  BY <1>1, <1>2, <1>3, <1>5, <1>6, OneEnvelopeStep

-----------------------------------------------------------------------------
(* The ledger is in order while it is empty.                               *)
LEMMA InitLedger == Init => LedgerInv
<1> SUFFICES ASSUME Init PROVE LedgerInv
  OBVIOUS
<1>1. TypeOK
  BY InitType
<1>2. ASSUME NEW e \in Envelope PROVE EnvelopeInv(e)
  <2>1. /\ envelope[e] = NoRow
        /\ \A k \in Key : consumption[e][k] = NoConsumption /\ reservation[e][k] = NoReservation
    BY DEF Init
  <2>2. /\ \A k \in Key : CashRows(e)[k] = 0 /\ CallRows(e)[k] = 0
        /\ \A k \in Key : OpenRows(e)[k] = 0 /\ SettledRows(e)[k] = 0
    BY <2>1 DEF CashRows, CallRows, OpenRows, SettledRows, IsOpen, NoConsumption, NoReservation
  <2>3. /\ CashConsumed(e) = 0 /\ CallsConsumed(e) = 0
        /\ OpenCash(e) = 0 /\ CashSettled(e) = 0
    BY <1>1, <2>2, RowsTyped, TotalOfZeros
       DEF CashConsumed, CallsConsumed, OpenCash, CashSettled
  <2>4. NeverActivated(e) /\ LimitsFromPlan(e) /\ \A k \in Key : CommitmentRow(e, k)
    BY <2>1 DEF NeverActivated, LimitsFromPlan, CommitmentRow, IsOpen, NoRow, NoReservation
  <2>5. Conserved(e) /\ Covered(e)
    BY <2>1, <2>3 DEF Conserved, Covered, CashSpent, NoRow
  <2> QED
    BY <2>4, <2>5 DEF EnvelopeInv
<1>3. \A c \in Client : SnapshotLimits(c)
  BY DEF Init, SnapshotLimits
<1>4. OneActivePlan
  BY DEF Init, OneActivePlan, NoRow
<1>5. \A p \in Plan : planState[p] = "unborn" => content[p] = None
  BY DEF Init
<1> QED
  BY <1>1, <1>2, <1>3, <1>4, <1>5 DEF LedgerInv

(* Every step of the treasury, one case per operation, keeps the ledger in *)
(* order.                                                                  *)
LEMMA NextLedger == LedgerInv /\ [Next]_vars => LedgerInv'
<1> SUFFICES ASSUME LedgerInv, [Next]_vars PROVE LedgerInv'
  OBVIOUS
<1>1. TypeOK /\ TypeOK'
  BY NextType DEF LedgerInv
<1>2. \A p \in Plan : planState[p] = "unborn" => content[p] = None
  BY DEF LedgerInv
<1>3. ASSUME NEW p \in Plan, NEW new \in PlanContent, SavePlan(p, new) PROVE LedgerInv'
  BY <1>1, <1>2, <1>3, LedgerFrame DEF SavePlan, ledger, TypeOK
<1>4. ASSUME NEW p \in Plan, DiscardPlan(p) PROVE LedgerInv'
  BY <1>1, <1>2, <1>4, LedgerFrame DEF DiscardPlan, ledger, TypeOK
<1>5. ASSUME NEW c \in Client, NEW p \in Plan, CheckLatest(c, p) PROVE LedgerInv'
  BY <1>1, <1>2, <1>5, LedgerFrame DEF CheckLatest, ledger, plans
<1>6. ASSUME NEW c \in Client, AbortActivate(c) PROVE LedgerInv'
  BY <1>1, <1>2, <1>6, LedgerFrame DEF AbortActivate, ledger, plans
<1>7. ASSUME NEW c \in Client, NEW e \in Envelope, ReadForRevoke(c, e) PROVE LedgerInv'
  <2>1. SnapshotLimits(c)'
    BY <1>1, <1>7 DEF ReadForRevoke, SnapshotLimits, ledger, TypeOK
  <2> QED
    BY <1>1, <1>2, <1>7, <2>1, LedgerFrame DEF ReadForRevoke, ledger, plans, TypeOK
<1>8. ASSUME NEW c \in Client, GiveUp(c) PROVE LedgerInv'
  BY <1>1, <1>2, <1>8, LedgerFrame DEF GiveUp, ledger, plans, TypeOK
<1>9. CASE UNCHANGED vars
  BY <1>1, <1>2, <1>9, LedgerFrame DEF vars, ledger
<1>10. ASSUME NEW e \in Envelope, NEW k \in Key, ConsumeCall(e, k) PROVE LedgerInv'
  BY <1>1, <1>10, ConsumeKeeps DEF ConsumeCall
<1>11. ASSUME NEW e \in Envelope, NEW k \in Key, NEW amount \in CashInput,
              ConsumeCash(e, k, amount) \/ Reserve(e, k, amount) \/ Settle(e, k, amount)
       PROVE  LedgerInv'
  BY <1>1, <1>11, ConsumeKeeps, ReserveKeeps, SettleKeeps, FiniteAssumption DEF ConsumeCash
<1> QED
  BY <1>1, <1>3, <1>4, <1>5, <1>6, <1>7, <1>8, <1>9, <1>10, <1>11,
     ActivateKeeps, WriteRevokedKeeps, ReleaseKeeps
     DEF Next, PlanStep, ClientStep, LedgerStep

(* The ledger is in order in every reachable state.                        *)
LEMMA LedgerInvariant == Spec => []LedgerInv
<1>1. Init => LedgerInv
  BY InitLedger
<1>2. LedgerInv /\ [Next]_vars => LedgerInv'
  BY NextLedger
<1> QED
  BY <1>1, <1>2, PTL DEF Spec

-----------------------------------------------------------------------------
(* Spending plus open commitments of an envelope stay within what its plan *)
(* allotted, for any interleaving of consume, reserve, settle, release,    *)
(* activate and revoke.                                                    *)
THEOREM CommitmentsAlwaysCovered == Spec => []CommitmentsCovered
<1>1. LedgerInv => CommitmentsCovered
  BY DEF LedgerInv, EnvelopeInv, Covered, CommitmentsCovered
<1> QED
  BY <1>1, LedgerInvariant, PTL

(* No envelope is closed under an open commitment.                         *)
THEOREM OpenAlwaysActive == Spec => []OpenOnlyWhileActive
<1>1. LedgerInv => OpenOnlyWhileActive
  BY DEF LedgerInv, EnvelopeInv, CommitmentRow, OpenOnlyWhileActive
<1> QED
  BY <1>1, LedgerInvariant, PTL

(* The stored counters of an envelope that was not revoked are the sums of *)
(* its rows.                                                               *)
THEOREM LedgerAlwaysConserved == Spec => []LedgerConserved
<1>1. LedgerInv => LedgerConserved
  BY DEF LedgerInv, EnvelopeInv, Conserved, LedgerConserved
<1> QED
  BY <1>1, LedgerInvariant, PTL

(* Live envelopes always belong to one plan.                               *)
THEOREM AlwaysOneActivePlan == Spec => []OneActivePlan
<1>1. LedgerInv => OneActivePlan
  BY DEF LedgerInv
<1> QED
  BY <1>1, LedgerInvariant, PTL

(* What the limits of its envelopes allow adds up to the plan's budget.    *)
LEMMA LedgerWithinBudget == LedgerInv => PlanWithinBudget
<1>1. ASSUME LedgerInv, NEW p \in Plan, content[p] # None
      PROVE  Total([v \in Venture |-> CashSpent(<<p, v>>) + OpenCash(<<p, v>>)]) <= content[p].cash
  <2> DEFINE used == [v \in Venture |-> CashSpent(<<p, v>>) + OpenCash(<<p, v>>)]
             allotted == CashAllocated(content[p])
  <2>1. /\ TypeOK /\ content[p] \in PlanContent /\ content[p].cash \in Nat
        /\ content[p].alloc \in Allocation /\ Total(allotted) <= content[p].cash
    BY <1>1, PlanAssumption DEF LedgerInv, TypeOK
  <2>2. allotted \in [Venture -> Nat]
    BY <2>1 DEF Allocation, CashAllocated
  <2>3. ASSUME NEW v \in Venture PROVE used[v] \in Nat /\ used[v] <= allotted[v]
    <3> DEFINE e == <<p, v>>
    <3>1. e \in Envelope /\ e[1] = p /\ e[2] = v
      BY DEF Envelope
    <3>2. EnvelopeInv(e) /\ envelope[e] \in Row
      BY <1>1, <3>1 DEF LedgerInv, TypeOK
    <3>3. /\ CashConsumed(e) \in Nat /\ CashSettled(e) \in Nat /\ OpenCash(e) \in Nat
          /\ allotted[v] \in Nat
      BY <2>1, <2>2, <3>1, TotalsTyped
    <3>4. CashSpent(e) + OpenCash(e) <= envelope[e].cashLimit
      BY <3>2 DEF EnvelopeInv, Covered
    <3>5. envelope[e].cashLimit <= allotted[v]
      <4>1. CASE envelope[e].status = "none"
        <5>1. envelope[e].cashLimit = 0
          BY <3>2, <4>1 DEF EnvelopeInv, NeverActivated, NoRow
        <5> QED BY <3>3, <5>1
      <4>2. CASE envelope[e].status # "none"
        <5>1. envelope[e].cashLimit = content[e[1]].alloc[e[2]].cash
          BY <3>2, <4>2 DEF EnvelopeInv, LimitsFromPlan
        <5>2. envelope[e].cashLimit = allotted[v]
          BY <3>1, <5>1 DEF CashAllocated
        <5> QED BY <3>3, <5>2
      <4> QED
        BY <4>1, <4>2
    <3>6. envelope[e].cashLimit \in Nat
      BY <3>2 DEF Row
    <3> HIDE DEF e, allotted
    <3>7. CashSpent(e) + OpenCash(e) \in Nat /\ CashSpent(e) + OpenCash(e) <= allotted[v]
      BY <3>3, <3>4, <3>5, <3>6 DEF CashSpent
    <3> QED
      BY <3>7 DEF e
  <2>4. used \in [Venture -> Nat]
    BY <2>3
  <2> HIDE DEF used, allotted
  <2>5. Total(used) <= Total(allotted) /\ Total(used) \in Nat /\ Total(allotted) \in Nat
    BY <2>2, <2>3, <2>4, TotalMonotone, TotalType, FiniteAssumption
  <2>6. Total(used) <= content[p].cash
    BY <2>1, <2>5
  <2> QED
    BY <2>6 DEF used
<1> QED
  BY <1>1 DEF PlanWithinBudget

(* All ventures of a plan together stay within the plan's cash budget.     *)
THEOREM PlanAlwaysWithinBudget == Spec => []PlanWithinBudget
BY LedgerWithinBudget, LedgerInvariant, PTL

(* An envelope that is exhausted or revoked never takes work again.        *)
THEOREM ClosedAlwaysStaysClosed == Spec => ClosedStaysClosed
<1> DEFINE Closed == {"exhausted", "revoked"}
           Step == \A e \in Envelope : envelope[e].status \in Closed => envelope'[e].status \in Closed
<1>1. LedgerInv /\ [Next]_vars => Step
  <2> SUFFICES ASSUME LedgerInv, [Next]_vars, NEW e \in Envelope, envelope[e].status \in Closed
               PROVE  envelope'[e].status \in Closed
    OBVIOUS
  <2>1. TypeOK /\ EnvelopeInv(e)
    BY DEF LedgerInv
  <2>2. ASSUME UNCHANGED envelope PROVE envelope'[e].status \in Closed
    BY <2>2
  <2>3. ASSUME NEW c \in Client, Activate(c) PROVE envelope'[e].status \in Closed
    BY <2>3 DEF Activate, Activated, Superseded
  <2>4. ASSUME NEW c \in Client, WriteRevoked(c) PROVE envelope'[e].status \in Closed
    <3>1. snapshot[c].row \in Row
      BY <2>1, <2>4 DEF WriteRevoked, TypeOK, Snapshot
    <3>2. [snapshot[c].row EXCEPT !.status = "revoked"].status = "revoked"
      BY <3>1 DEF Row
    <3> QED BY <2>1, <2>4, <3>2 DEF WriteRevoked, TypeOK
  <2>5. ASSUME NEW f \in Envelope, NEW k \in Key, NEW cash \in Nat, NEW calls \in Nat,
               Consume(f, k, cash, calls)
        PROVE  envelope'[e].status \in Closed
    BY <2>1, <2>5 DEF Consume, TypeOK
  <2>6. ASSUME NEW f \in Envelope, NEW k \in Key, NEW actual \in Nat, Settle(f, k, actual)
        PROVE  envelope'[e].status \in Closed
    <3>1. envelope[f].status = "active"
      BY <2>6 DEF LedgerInv, EnvelopeInv, CommitmentRow, Settle
    <3> QED BY <2>1, <2>6, <3>1 DEF Settle, TypeOK
  <2>7. CASE PlanStep
    BY <2>2, <2>7 DEF PlanStep, DiscardPlan, SavePlan, ledger
  <2>8. CASE ClientStep
    BY <2>2, <2>3, <2>4, <2>8
       DEF ClientStep, CheckLatest, AbortActivate, ReadForRevoke, GiveUp, ledger
  <2>9. CASE LedgerStep
    BY <2>2, <2>5, <2>6, <2>9, FiniteAssumption
       DEF LedgerStep, ConsumeCall, ConsumeCash, Reserve, Release
  <2> QED
    BY <2>2, <2>7, <2>8, <2>9 DEF Next, vars
<1>2. Step => [Step]_vars
  OBVIOUS
<1> QED
  BY <1>1, LedgerInvariant, PTL DEF Spec, ClosedStaysClosed

(* A settled or released commitment is never settled or released again.    *)
THEOREM AlwaysResolvedOnce == Spec => ResolvedOnce
<1> DEFINE Final(e, k) == reservation[e][k].status \in {"settled", "released"}
           Step == \A e \in Envelope, k \in Key : Final(e, k) => reservation'[e][k] = reservation[e][k]
<1>1. LedgerInv /\ [Next]_vars => Step
  <2> SUFFICES ASSUME LedgerInv, [Next]_vars, NEW e \in Envelope, NEW k \in Key, Final(e, k)
               PROVE  reservation'[e][k] = reservation[e][k]
    OBVIOUS
  <2>1. TypeOK
    BY DEF LedgerInv
  <2>2. ASSUME UNCHANGED reservation PROVE reservation'[e][k] = reservation[e][k]
    BY <2>2
  <2>3. ASSUME NEW f \in Envelope, NEW j \in Key, NEW row,
               reservation' = [reservation EXCEPT ![f][j] = row],
               reservation[f][j].status \in {"none", "reserved"}
        PROVE  reservation'[e][k] = reservation[e][k]
    BY <2>1, <2>3 DEF TypeOK
  <2>4. CASE PlanStep
    BY <2>2, <2>4 DEF PlanStep, DiscardPlan, SavePlan, ledger
  <2>5. CASE ClientStep
    BY <2>2, <2>5
       DEF ClientStep, CheckLatest, AbortActivate, ReadForRevoke, GiveUp, Activate, WriteRevoked, ledger
  <2>6. ASSUME NEW f \in Envelope, NEW j \in Key, NEW amount,
               Reserve(f, j, amount) \/ Settle(f, j, amount) \/ Release(f, j)
        PROVE  reservation'[e][k] = reservation[e][k]
    BY <2>3, <2>6 DEF Reserve, Settle, Release, IsOpen
  <2>7. CASE LedgerStep
    BY <2>2, <2>6, <2>7 DEF LedgerStep, ConsumeCall, ConsumeCash, Consume
  <2> QED
    BY <2>2, <2>4, <2>5, <2>7 DEF Next, vars
<1> QED
  BY <1>1, LedgerInvariant, PTL DEF Spec, ResolvedOnce
=============================================================================
