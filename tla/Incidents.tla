----------------------------- MODULE Incidents -----------------------------
(* The mishaps and hand-made disturbances of a behaviour, counted together *)
(* so that their order is free and their number is not.                    *)
EXTENDS Hosts, Integers

VARIABLE incidents      \* the disturbances so far

\* Nobody is at work.
Quiet ==
    /\ at = [p \in Process |-> "idle"]
    /\ mine = [p \in Process |-> Nothing]
    /\ incidents = 0

Incident(bound) == incidents < bound /\ incidents' = incidents + 1

\* A process starts an operation; one that starts while another process is
\* at work disturbs it.
Starts(p, bound) ==
    /\ at[p] = "idle"
    /\ \/ (\A q \in Process : at[q] = "idle") /\ UNCHANGED incidents
       \/ (\E q \in Process : at[q] # "idle") /\ Incident(bound)

\* What a process held in memory is lost; what it had saved is not.
Dies(p, bound) == at[p] # "idle" /\ Incident(bound) /\ Stop(p)
=============================================================================
