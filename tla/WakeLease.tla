------------------------------ MODULE WakeLease ------------------------------
(***************************************************************************)
(* The host wakes HELIS from cron, possibly several times at once.  A wake *)
(* runs one bounded tick if it is due and can take the expiring lease; a   *)
(* wake whose process dies leaves the lease behind.  The portfolio         *)
(* scheduler and market discovery each have a lease of this kind.          *)
(*                                                                         *)
(* Time is kept relative to now, so that it may run on for ever: expires   *)
(* is the time the lease has left (negative once it has run out), since    *)
(* the time from last_attempt_at and age the time from the attempted_at of *)
(* a wake.  Values that no comparison can tell apart are capped.           *)
(***************************************************************************)
EXTENDS Integers

CONSTANTS
    Worker,     \* host processes that run one wake after the other
    None,
    Stranger,   \* the owner id of a wake that died
    Interval,   \* minimum_interval_seconds
    Lease,      \* lease_seconds
    MaxWait,    \* SQLite's busy timeout: from reading the clock to BEGIN IMMEDIATE
    MaxCrashes  \* bound: wakes that die

ASSUME WakeAssumption ==
    /\ Interval \in Nat /\ Lease \in Nat \ {0} /\ MaxWait \in Nat /\ MaxCrashes \in Nat
    /\ None \notin Worker /\ Stranger \notin Worker /\ None # Stranger

VARIABLES
    owner,      \* lease_owner
    expires,    \* lease_expires_at - now
    since,      \* now - last_attempt_at
    at,         \* where each worker is in wake()
    age,        \* now - attempted_at of its wake
    outcome,    \* the disposition that the wake will record
    disturbed,  \* did another wake take the lease while this one's tick ran
    crashes

lease == <<owner, expires, since>>
wakes == <<at, age, outcome, disturbed>>
vars == <<owner, expires, since, at, age, outcome, disturbed, crashes>>

Place == {"idle", "started", "ticking", "recording"}
Disposition == {"none", "ran", "not_due", "lease_held", "failed"}

SinceCap == Interval + MaxWait
AgeCap == Lease + MaxWait
Capped(n, cap) == IF n < cap THEN n ELSE cap

\* No row yet is the same as a free lease whose last attempt is long ago.
Init ==
    /\ owner = None
    /\ expires = -MaxWait
    /\ since = SinceCap
    /\ at = [w \in Worker |-> "idle"]
    /\ age = [w \in Worker |-> 0]
    /\ outcome = [w \in Worker |-> "none"]
    /\ disturbed = [w \in Worker |-> FALSE]
    /\ crashes = 0

-----------------------------------------------------------------------------
\* wake: the clock is read, and a fresh owner id drawn, before the transaction.
Start(w) ==
    /\ at[w] = "idle"
    /\ at' = [at EXCEPT ![w] = "started"]
    /\ age' = [age EXCEPT ![w] = 0]
    /\ UNCHANGED <<lease, outcome, disturbed, crashes>>

\* Faulty variant: a lease that has run out still counts.
HeldForEver(w) == owner # None

\* Faulty variant: the lease is not looked at when the interval has passed.
HeldNever(w) == FALSE

Held(w) == owner # None /\ expires > -age[w]

Due(w) == since - age[w] >= Interval

\* acquire answers with a disposition: the lease is held, or the interval not over.
Refuse(w) ==
    /\ at[w] = "started"
    /\ Held(w) \/ ~Due(w)
    /\ at' = [at EXCEPT ![w] = "recording"]
    /\ outcome' = [outcome EXCEPT ![w] = IF Held(w) THEN "lease_held" ELSE "not_due"]
    /\ UNCHANGED <<lease, age, disturbed, crashes>>

\* acquire takes the lease, from nobody or from a wake that has run out of time.
Take(w) ==
    /\ at[w] = "started"
    /\ ~Held(w) /\ Due(w)
    /\ owner' = w
    /\ expires' = Lease - age[w]
    /\ since' = age[w]
    /\ at' = [at EXCEPT ![w] = "ticking"]
    /\ disturbed' = [v \in Worker |-> v # w /\ (disturbed[v] \/ at[v] = "ticking")]
    /\ UNCHANGED <<age, outcome, crashes>>

\* Faulty variant: a lease that somebody else took and gave back counts as kept.
FinishUnowned(w) ==
    /\ at[w] = "ticking"
    /\ owner \in {w, None}
    /\ owner' = None
    /\ expires' = -MaxWait
    /\ at' = [at EXCEPT ![w] = "recording"]
    /\ \E result \in {"ran", "failed"} : outcome' = [outcome EXCEPT ![w] = result]
    /\ UNCHANGED <<since, age, disturbed, crashes>>

\* Faulty variant: a wake whose tick raised leaves its lease behind.
FinishKeeping(w) ==
    /\ at[w] = "ticking"
    /\ owner = w
    /\ at' = [at EXCEPT ![w] = "recording"]
    /\ \/ /\ owner' = None /\ expires' = -MaxWait
          /\ outcome' = [outcome EXCEPT ![w] = "ran"]
       \/ /\ UNCHANGED <<owner, expires>>
          /\ outcome' = [outcome EXCEPT ![w] = "failed"]
    /\ UNCHANGED <<since, age, disturbed, crashes>>

\* The tick returned or raised, and finish_owned frees the lease.
FinishOwned(w) ==
    /\ at[w] = "ticking"
    /\ owner = w
    /\ owner' = None
    /\ expires' = -MaxWait
    /\ at' = [at EXCEPT ![w] = "recording"]
    /\ \E result \in {"ran", "failed"} : outcome' = [outcome EXCEPT ![w] = result]
    /\ UNCHANGED <<since, age, disturbed, crashes>>

\* WakeLeaseLost: the tick took longer than the lease and another wake took over.
FinishLost(w) ==
    /\ at[w] = "ticking"
    /\ owner # w
    /\ at' = [at EXCEPT ![w] = "recording"]
    /\ outcome' = [outcome EXCEPT ![w] = "failed"]
    /\ UNCHANGED <<lease, age, disturbed, crashes>>

\* save_result, in a transaction of its own.
Record(w) ==
    /\ at[w] = "recording"
    /\ at' = [at EXCEPT ![w] = "idle"]
    /\ outcome' = [outcome EXCEPT ![w] = "none"]
    /\ UNCHANGED <<lease, age, disturbed, crashes>>

Die(w) ==
    /\ crashes < MaxCrashes
    /\ at[w] # "idle"
    /\ crashes' = crashes + 1
    /\ at' = [at EXCEPT ![w] = "idle"]
    /\ outcome' = [outcome EXCEPT ![w] = "none"]
    /\ owner' = IF owner = w THEN Stranger ELSE owner
    /\ UNCHANGED <<expires, since, age, disturbed>>

\* A wake that waits for the database longer than the busy timeout is a dead one.
Advance ==
    /\ \A w \in Worker : at[w] = "started" => age[w] < MaxWait
    /\ expires' = IF expires > -MaxWait THEN expires - 1 ELSE expires
    /\ since' = Capped(since + 1, SinceCap)
    /\ age' = [w \in Worker |-> IF at[w] = "idle" THEN age[w] ELSE Capped(age[w] + 1, AgeCap)]
    /\ UNCHANGED <<owner, at, outcome, disturbed, crashes>>

Wake(w) ==
    Start(w) \/ Refuse(w) \/ Take(w) \/ FinishOwned(w) \/ FinishLost(w) \/ Record(w)

Next == Advance \/ \E w \in Worker : Wake(w) \/ Die(w)

Safety == Init /\ [][Next]_vars

\* The host's timer fires again and again, a tick is bounded, and time passes.
Spec == Safety /\ WF_vars(Advance) /\ \A w \in Worker : WF_vars(Wake(w))

-----------------------------------------------------------------------------
(* The lease row and the wakes have their columns, and only a wake that is *)
(* ticking owns the lease.                                                 *)
TypeOK ==
    /\ owner \in Worker \cup {None, Stranger}
    /\ expires \in -MaxWait..Lease
    /\ since \in 0..SinceCap
    /\ at \in [Worker -> Place]
    /\ age \in [Worker -> 0..AgeCap]
    /\ \A w \in Worker : at[w] = "started" => age[w] <= MaxWait
    /\ outcome \in [Worker -> Disposition]
    /\ disturbed \in [Worker -> BOOLEAN]
    /\ crashes \in 0..MaxCrashes
    /\ \A w \in Worker : owner = w => at[w] = "ticking"

(* Two ticks never run at once unless one of them has run longer than its  *)
(* lease, whatever died before and however late a wake gets the database.  *)
OneTickInTime ==
    \A v, w \in Worker :
        /\ at[v] = "ticking" /\ age[v] < Lease
        /\ at[w] = "ticking" /\ age[w] < Lease
        => v = w

(* A wake that records that it ran was alone: nobody else's tick began     *)
(* before it was over, even if that one has already given the lease back.  *)
RanAlone ==
    \A w \in Worker : at[w] = "recording" /\ outcome[w] = "ran" => ~disturbed[w]

(* HELIS keeps ticking after any wake died with the lease in its hands     *)
(* (README: control loops are reconstructed "after a crash or reboot").    *)
KeepsTicking == []<>(\E w \in Worker : at[w] = "ticking" /\ owner = w)
=============================================================================
