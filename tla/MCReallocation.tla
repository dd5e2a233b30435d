--------------------------- MODULE MCReallocation ---------------------------
(* Small instances of Reallocation for TLC.                                *)
EXTENDS Reallocation, TLC

CONSTANTS v1, v2, k1, c1, c2

\* First the whole budget goes to one venture, after the change to the other.
Amount(cash, calls) == [cash |-> cash, calls |-> calls]
Content(i, cash) ==
    [inputs |-> i, cash |-> cash, calls |-> 0,
     alloc |-> [v \in Venture |-> IF v = (IF i = 1 THEN v1 ELSE v2)
                                  THEN Amount(cash, 0) ELSE Amount(0, 0)]]

MCInputs == {1, 2}
MCBudget == 2
MCPlanContent == {Content(i, cash) : i \in MCInputs, cash \in 0..MCBudget}
MCGrant == {Content(1, MCBudget), Content(2, 1)}
Onward == {<<1, 2>>}
BackAndForth == {<<1, 2>>, <<2, 1>>}
=============================================================================
