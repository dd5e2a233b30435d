------------------------------ MODULE MCLaunch ------------------------------
(* A small instance of Launch for TLC.                                     *)
EXTENDS Launch

\* Two pages that sell at the approved price, and a service.
MCBundle == {"page", "other_page", "service"}
MCOutput == [b \in MCBundle |->
    IF b = "service"
    THEN [paths |-> <<"app.py", "test_app.py", "README.md">>, bytes |-> 3000, flaws |-> {}]
    ELSE [paths |-> <<"index.html", "README.md">>, bytes |-> 2000, flaws |-> {}]]
=============================================================================
