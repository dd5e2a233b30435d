---------------------------- MODULE MCTreasury ----------------------------
(* Small instances of Treasury for TLC.                                    *)
EXTENDS Treasury, TLC

CONSTANTS v1, v2, k1, k2, c1, c2

\* A plan over 3 cents and 1 call shared by both ventures, and a later one, from
\* other inputs, that leaves 1 cent to the second venture.
Amount(cash, calls) == [cash |-> cash, calls |-> calls]
Share(first, second) == [v \in Venture |-> IF v = v1 THEN first ELSE second]

FirstPlan ==
    [inputs |-> 1, cash |-> 3, calls |-> 1, alloc |-> Share(Amount(2, 1), Amount(1, 0))]
SecondPlan ==
    [inputs |-> 2, cash |-> 1, calls |-> 1, alloc |-> Share(Amount(0, 0), Amount(1, 0))]
MCPlanContent == {FirstPlan, SecondPlan}

\* Bounds: rows ever inserted into the two ledger tables, and those rows plus the
\* processes inside a read-then-write method.
MaxRows == 2
MaxActivity == 3
Consumptions == {r \in Envelope \X Key : consumption[r[1]][r[2]] # NoConsumption}
Reservations == {r \in Envelope \X Key : reservation[r[1]][r[2]].status # "none"}
Rows == Cardinality(Consumptions) + Cardinality(Reservations)
Busy == {c \in Client : ~IsIdle(c)}
LittleActivity ==
    /\ Rows <= MaxRows
    /\ Rows + Cardinality(Busy) <= MaxActivity
    /\ content[1] \in {None, FirstPlan}

Symmetric == Permutations(Key) \cup Permutations(Client)
=============================================================================
