------------------------------ MODULE MCUpkeep ------------------------------
(* A small instance of Upkeep for TLC.                                     *)
EXTENDS Upkeep

\* The file as it is, a better one, and one that the policy refuses but that
\* somebody may push by hand.
MCContent == {"old", "new", "refused"}
MCCode == [c \in MCContent |-> [bytes |-> 100, imports |-> {}, flawed |-> c = "refused"]]

\* A credited improvement and one with a regression.
MCSnapshot(metric) == [passed |-> TRUE, tests |-> 1, metric |-> metric]
MCResponse == {[baseline |-> MCSnapshot(0), candidate |-> MCSnapshot(1), regressions |-> r] :
                  r \in BOOLEAN}

\* The first cooldown is one interval of the timer, as that of an approval
\* backlog is; the longest lets two ventures ahead wait together.
MCPriority == <<"first", "second", "third">>
MCBaseDelay == [r \in {"approval_backlog"} |-> 1]
MCMaxDelay == [r \in {"approval_backlog"} |-> 4]
MCAdvances == [c \in Caller |-> IF c = "host" THEN 1 ELSE 2]
MCSituation ==
    {Market("approval_backlog"), Market("works"),
     [phase |-> "preview", held |-> FALSE, turn |-> "publication_waiting"],
     [phase |-> "early", held |-> FALSE, turn |-> "raises"],
     [phase |-> "early", held |-> TRUE, turn |-> "works"]}

\* A venture before its first answer, one whose offer test or channel test has
\* an answer of each arm, and one that may begin the test of two channels.
MCReach == {Arm, {"control"}}
MCPortion == {<<>>, <<Arm>>}
MCLead(id, reach) == [id |-> id, reach |-> reach]
MCOne == {MCLead(0, Arm)}
MCTest(id, what, status) == [id |-> id, what |-> what, status |-> status, winner |-> "none"]
MCOffers(answer) == SetToBag({Draft([test |-> 1, arm |-> k], NoLabel, answer) : k \in Arm})
MCChannels == SetToBag({Draft(NoLabel, [test |-> 2, arm |-> k], "sale") : k \in Arm})
MCPast ==
    {[tests |-> <<>>, pool |-> {}, drafts |-> SetToBag({Draft(NoLabel, NoLabel, "open")})],
     [tests |-> <<MCTest(1, "offer", "active")>>, pool |-> MCOne,
      drafts |-> MCOffers("no_response") (+)
                 SetToBag({Draft([test |-> 1, arm |-> "control"], NoLabel, "no_response")})],
     [tests |-> <<MCTest(1, "offer", "completed")>>, pool |-> MCOne,
      drafts |-> MCOffers("sale") (+) MCOffers("sale")],
     [tests |-> <<MCTest(1, "offer", "completed"), MCTest(2, "channel", "active")>>,
      pool |-> {MCLead(-1, {"control"})} \cup MCOne,
      drafts |-> MCOffers("sale") (+) MCOffers("sale") (+) MCChannels]}
=============================================================================
