-------------------------------- MODULE Hosts --------------------------------
(* The host processes: each runs one command at a time, step by step, and  *)
(* keeps in memory what its earlier steps have read.                       *)

CONSTANT Process

VARIABLES
    at,         \* at[p]: the next step of p, "idle" between operations
    mine        \* mine[p]: what p holds in memory from its earlier steps

processVars == <<at, mine>>

Go(p, label) == at' = [at EXCEPT ![p] = label]
Hold(p, value) == mine' = [mine EXCEPT ![p] = value]
Nothing == [id |-> 0]
Stop(p) == Go(p, "idle") /\ Hold(p, Nothing)
=============================================================================
