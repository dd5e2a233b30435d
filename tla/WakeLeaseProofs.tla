--------------------------- MODULE WakeLeaseProofs ---------------------------
(* That the wake lease keeps ticks apart, for every number of workers and  *)
(* every interval, lease and busy timeout.                                 *)
EXTENDS WakeLease, TLAPS

IsTicking(w) == at[w] = "ticking"

\* A tick that is still within its lease holds it, and for as long as it has left.
HoldsInTime ==
    \A w \in Worker :
        IsTicking(w) /\ age[w] < Lease => owner = w /\ expires = Lease - age[w]

\* Whoever still owns the lease has not been disturbed.
OwnerAlone == \A w \in Worker : owner = w => ~disturbed[w]

LeaseInv == TypeOK /\ HoldsInTime /\ OwnerAlone /\ RanAlone

(* The lease's invariant holds when no wake has run yet.                   *)
LEMMA InitLease == Init => LeaseInv
  BY WakeAssumption DEF Init, LeaseInv, TypeOK, HoldsInTime, OwnerAlone, RanAlone, IsTicking,
     Place, Disposition, SinceCap, AgeCap

(* A wake that takes the lease keeps the invariant: the tick it displaces  *)
(* has run out of time, also when this wake's clock reading is old.        *)
LEMMA TakeLease ==
  ASSUME LeaseInv, NEW w \in Worker, Take(w)
  PROVE  LeaseInv'
<1> USE WakeAssumption DEF LeaseInv
<1>1. TypeOK'
  <2>1. age[w] \in 0..MaxWait /\ age[w] \in 0..AgeCap
    BY DEF TypeOK, Take
  <2>2. expires' \in -MaxWait..Lease /\ since' \in 0..SinceCap
    BY <2>1 DEF Take, SinceCap
  <2>3. \A v \in Worker : owner' = v => at'[v] = "ticking"
    BY DEF Take, TypeOK
  <2> QED BY <2>2, <2>3 DEF TypeOK, Take, Place
<1>2. HoldsInTime'
  <2> SUFFICES ASSUME NEW v \in Worker, (IsTicking(v) /\ age[v] < Lease)'
               PROVE  (owner = v /\ expires = Lease - age[v])'
    BY DEF HoldsInTime
  <2>1. CASE v = w
    BY <2>1 DEF Take
  <2>2. CASE v # w
    <3>1. IsTicking(v) /\ age[v] < Lease
      BY <2>2 DEF Take, IsTicking, TypeOK
    <3>2. owner = v /\ expires = Lease - age[v]
      BY <3>1 DEF HoldsInTime
    <3>3. owner # None /\ expires > -age[w]
      BY <3>1, <3>2 DEF TypeOK
    <3> QED BY <3>3 DEF Take, Held
  <2> QED BY <2>1, <2>2
<1>3. OwnerAlone'
  BY DEF OwnerAlone, Take, TypeOK
<1>4. RanAlone'
  BY DEF RanAlone, Take, TypeOK
<1> QED BY <1>1, <1>2, <1>3, <1>4

(* Time passing keeps the invariant: the age of a tick and what its lease  *)
(* has left move together until the lease has run out.                     *)
LEMMA AdvanceLease ==
  ASSUME LeaseInv, Advance
  PROVE  LeaseInv'
<1> USE WakeAssumption DEF LeaseInv
<1>1. TypeOK'
  <2>1. expires' \in -MaxWait..Lease /\ since' \in 0..SinceCap
    BY DEF Advance, TypeOK, Capped, SinceCap
  <2>2. \A w \in Worker : age'[w] \in 0..AgeCap
    BY DEF Advance, TypeOK, Capped, AgeCap
  <2>3. age' \in [Worker -> 0..AgeCap]
    BY <2>2 DEF Advance
  <2>4. \A w \in Worker : at'[w] = "started" => age'[w] <= MaxWait
    BY DEF Advance, TypeOK, Capped, AgeCap
  <2> QED BY <2>1, <2>3, <2>4 DEF TypeOK, Advance
<1>2. HoldsInTime'
  <2> SUFFICES ASSUME NEW w \in Worker, (IsTicking(w) /\ age[w] < Lease)'
               PROVE  (owner = w /\ expires = Lease - age[w])'
    BY DEF HoldsInTime
  <2>1. IsTicking(w) /\ age'[w] = age[w] + 1 /\ age[w] < Lease
    BY DEF Advance, IsTicking, Capped, AgeCap, TypeOK
  <2>2. owner = w /\ expires = Lease - age[w]
    BY <2>1 DEF HoldsInTime
  <2> QED BY <2>1, <2>2 DEF Advance, TypeOK
<1>3. OwnerAlone' /\ RanAlone'
  BY DEF OwnerAlone, RanAlone, Advance
<1> QED BY <1>1, <1>2, <1>3

(* A wake that gives the lease back, loses it or dies keeps the invariant. *)
LEMMA EndLease ==
  ASSUME LeaseInv, NEW w \in Worker, FinishOwned(w) \/ FinishLost(w) \/ Die(w)
  PROVE  LeaseInv'
<1> USE WakeAssumption DEF LeaseInv
<1>1. CASE FinishOwned(w)
  <2>1. TypeOK'
    BY <1>1 DEF FinishOwned, TypeOK, Place, Disposition
  <2>2. HoldsInTime' /\ OwnerAlone'
    BY <1>1 DEF FinishOwned, TypeOK, HoldsInTime, OwnerAlone, IsTicking
  <2>3. RanAlone'
    BY <1>1 DEF FinishOwned, TypeOK, RanAlone, OwnerAlone
  <2> QED BY <2>1, <2>2, <2>3
<1>2. CASE FinishLost(w)
  <2>1. TypeOK'
    BY <1>2 DEF FinishLost, TypeOK, Place, Disposition, lease
  <2>2. HoldsInTime' /\ OwnerAlone' /\ RanAlone'
    BY <1>2 DEF FinishLost, TypeOK, HoldsInTime, OwnerAlone, RanAlone, IsTicking, lease
  <2> QED BY <2>1, <2>2
<1>3. CASE Die(w)
  <2>1. TypeOK'
    BY <1>3 DEF Die, TypeOK, Place, Disposition
  <2>2. HoldsInTime' /\ OwnerAlone' /\ RanAlone'
    BY <1>3 DEF Die, TypeOK, HoldsInTime, OwnerAlone, RanAlone, IsTicking
  <2> QED BY <2>1, <2>2
<1> QED BY <1>1, <1>2, <1>3

(* Every step of the system keeps the lease's invariant.                   *)
LEMMA NextLease == LeaseInv /\ [Next]_vars => LeaseInv'
<1> SUFFICES ASSUME LeaseInv, [Next]_vars PROVE LeaseInv'
  OBVIOUS
<1> USE WakeAssumption DEF LeaseInv
<1>1. CASE Advance
  BY <1>1, AdvanceLease
<1>2. ASSUME NEW w \in Worker, Start(w) \/ Refuse(w) \/ Record(w) PROVE LeaseInv'
  <2>1. TypeOK'
    BY <1>2 DEF Start, Refuse, Record, TypeOK, Place, Disposition, lease, AgeCap
  <2>2. HoldsInTime'
    BY <1>2 DEF Start, Refuse, Record, TypeOK, HoldsInTime, IsTicking, lease
  <2>3. OwnerAlone' /\ RanAlone'
    BY <1>2 DEF Start, Refuse, Record, TypeOK, OwnerAlone, RanAlone, lease
  <2> QED BY <2>1, <2>2, <2>3
<1>3. ASSUME NEW w \in Worker, Take(w) PROVE LeaseInv'
  BY <1>3, TakeLease
<1>4. ASSUME NEW w \in Worker, FinishOwned(w) \/ FinishLost(w) \/ Die(w) PROVE LeaseInv'
  BY <1>4, EndLease
<1>5. CASE UNCHANGED vars
  BY <1>5 DEF vars, TypeOK, HoldsInTime, OwnerAlone, RanAlone, IsTicking
<1> QED BY <1>1, <1>2, <1>3, <1>4, <1>5 DEF Next, Wake

(* The lease's invariant holds in every reachable state.                   *)
LEMMA LeaseInvariant == Safety => []LeaseInv
  BY InitLease, NextLease, PTL DEF Safety

(* Only a wake that is ticking owns the lease, and the columns keep their  *)
(* ranges although time runs on without a bound.                           *)
THEOREM WakeTypeCorrect == Safety => []TypeOK
<1>1. LeaseInv => TypeOK
  BY DEF LeaseInv
<1> QED BY <1>1, LeaseInvariant, PTL

(* Two ticks that are both within their lease are the same tick, for every *)
(* lease, interval, busy timeout and number of workers and crashes.        *)
THEOREM AlwaysOneTickInTime == Safety => []OneTickInTime
<1>1. LeaseInv => OneTickInTime
  BY DEF LeaseInv, HoldsInTime, OneTickInTime, IsTicking
<1> QED BY <1>1, LeaseInvariant, PTL

(* A tick recorded as run was never joined by another one.                 *)
THEOREM AlwaysRanAlone == Safety => []RanAlone
<1>1. LeaseInv => RanAlone
  BY DEF LeaseInv
<1> QED BY <1>1, LeaseInvariant, PTL
=============================================================================
