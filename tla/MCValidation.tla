---------------------------- MODULE MCValidation ----------------------------
(* Small instances of Validation for TLC.                                  *)
EXTENDS Validation

\* Free desk research, a paid interview, and a free pricing test as a follow-up.
MCExecutor == <<"desk", "gateway", "gateway">>
MCCost == <<0, 2, 0>>
MCTypeOf == <<"desk_research", "interview", "pricing">>
MCConfig == {[linked |-> TRUE, cash |-> 2], [linked |-> TRUE, cash |-> 0],
             [linked |-> FALSE, cash |-> 2]}

\* No gateway: nothing is paid for.
MCUnlinked == {[linked |-> FALSE, cash |-> 2]}

Says(outcome, confidence, pivot, cost) ==
    [outcome |-> outcome, confidence |-> confidence, pivot |-> pivot, cost |-> cost]

\* Together they reach every verdict.  Costs in hundredths of a cent: two that are rounded
\* up to the two cents set aside, one that is rounded up to one cent, and an overrun.
MCDeskResult == {Says("positive", 70, FALSE, 0), Says("inconclusive", 60, TRUE, 0)}
MCGatewayResult ==
    {Says("positive", 70, FALSE, 130), Says("negative", 60, FALSE, 150),
     Says("negative", 90, FALSE, 40), Says("inconclusive", 50, FALSE, 210)}
=============================================================================
