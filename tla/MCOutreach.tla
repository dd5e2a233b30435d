----------------------------- MODULE MCOutreach -----------------------------
(* Small instances of Outreach for TLC.                                    *)
EXTENDS Outreach

\* Two ventures found the same organisation.
MCVentureOf == <<"first", "second">>
MCIdentityOf == <<"shared", "shared">>

\* Bounds: commands and events from outside, and what is left of them while the
\* operator also sends and records by hand.
MaxEvents == 2
Events == Cardinality(Venture \ active) + (day - 1) + crashes
LittleActivity ==
    /\ Events <= IF manual THEN 1 ELSE MaxEvents
=============================================================================
