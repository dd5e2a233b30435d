----------------------------- MODULE GatedEffect -----------------------------
(* What an approval gate promises about an effect on the outside world: a  *)
(* content is examined before the operator is asked, the operator approves *)
(* exactly that content, and nothing else ever takes effect. Checkout      *)
(* creation, publication of a preview and integration of a change of the   *)
(* program's own code each implement it.                                   *)
CONSTANT Content

VARIABLES
    examined,   \* the contents that may be put to the operator
    approved,   \* the contents the operator has approved
    done        \* the contents that have taken effect outside

gateVars == <<examined, approved, done>>

GateInit == examined = {} /\ approved = {} /\ done = {}

Examine ==
    /\ \E c \in examined' \ examined : c \in Content /\ examined' = examined \cup {c}
    /\ UNCHANGED <<approved, done>>

Approve ==
    /\ \E c \in examined : approved' = approved \cup {c}
    /\ UNCHANGED <<examined, done>>

Perform ==
    /\ \E c \in approved : done' = done \cup {c}
    /\ UNCHANGED <<examined, approved>>

GateNext == Examine \/ Approve \/ Perform

GateSpec == GateInit /\ [][GateNext]_gateVars
=============================================================================
