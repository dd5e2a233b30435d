---------------------------- MODULE MCChildAgents ----------------------------
(* A small instance of ChildAgents for TLC.                                *)
EXTENDS ChildAgents, TLC

\* Two agents around a human step; the same with a cycle of two; and a graph
\* with a dependency that does not exist.
Chain == [c \in {"draft", "check", "send"} |->
    CASE c = "draft" -> {} [] c = "check" -> {"draft"} [] OTHER -> {"check", "draft"}]
Cyclic == [Chain EXCEPT !["draft"] = {"send"}]
Dangling == [Chain EXCEPT !["draft"] = {"unknown"}]
MCProposal == {Chain, Cyclic, Dangling}
\* The processes are interchangeable.
Symmetry == Permutations(Process)
=============================================================================
