---------------------------- MODULE MarketTests ----------------------------
(* Two arms of an offer, and later two channels, are tested on the first   *)
(* contacts of a venture (GTMExperimentManager,                            *)
(* GTMChannelExperimentManager): leads are assigned to the arms when they  *)
(* are drafted for, and the answers decide. A channel is named after the   *)
(* arm that it is or would be.                                             *)
EXTENDS Incidents, Totals, SequencesExt

CONSTANTS
    MinResolved,    \* minimum_resolved_per_arm
    MaxResolved,    \* max_resolved_per_arm
    MaxAssigned,    \* max_assignments_per_arm
    Kind,           \* the kinds of answers that come
    Reach           \* the sets of channels that a lead may be reached by

Arm == {"control", "variant"}
Other(k) == IF k = "control" THEN "variant" ELSE "control"

\* An outcome's score, in quarters.
Score == [sale |-> 4, meeting |-> 3, interested |-> 2,
          not_interested |-> 0, no_response |-> 0, bounce |-> 0]

ASSUME TestsAssumption ==
    /\ MinResolved \in 2 .. 10 /\ MaxResolved \in MinResolved .. 20
    /\ MaxAssigned \in MaxResolved .. 20
    /\ Kind \subseteq DOMAIN Score
    /\ Reach \subseteq SUBSET Arm

VARIABLES
    pool,           \* the qualified leads without a draft
    drafts,         \* the bag of drafts, with what came of each
    tests           \* the rows of both tables of experiments, latest update last

testVars == <<pool, drafts, tests>>

\* What a draft is for in a test.
NoLabel == [test |-> 0, arm |-> "none"]
Label(t, arm) == IF arm = "none" THEN NoLabel ELSE [test |-> t.id, arm |-> arm]
Draft(offer, channel, answer) == [offer |-> offer, channel |-> channel, answer |-> answer]

Test == [id : Nat \ {0}, what : {"offer", "channel"}, status : {"active", "completed"},
         winner : Arm \cup {"none"}]
Labels(n) == [test : 0 .. n, arm : Arm \cup {"none"}]

\* The drafts that there may be when n tests were planned.
Drafts(n) == [offer : Labels(n), channel : Labels(n), answer : Kind \cup {"open"}]

Open == {d \in BagToSet(drafts) : d.answer = "open"}
Answered == {d \in BagToSet(drafts) : d.answer \in Kind}

\* How many drafts these are.
Number(D) == Total([d \in D |-> drafts[d]])

\* A draft's row changes.
Becomes(d, e) == drafts' = (drafts (-) SetToBag({d})) (+) SetToBag({e})

\* Where the latest test of this kind is, and the latest that is active; 0 if
\* there is none.
Latest(what) == SelectLastInSeq(tests, LAMBDA t : t.what = what)
Running(what) == SelectLastInSeq(tests, LAMBDA t : t.what = what /\ t.status = "active")
HasStatus(what, status) == Latest(what) # 0 /\ tests[Latest(what)].status = status
IsActive(what) == HasStatus(what, "active")
IsConcluded(what) == HasStatus(what, "completed")

\* INSERT OR REPLACE.
SaveTest(t) == tests' = Append(RemoveFirstMatch(tests, LAMBDA u : u.id = t.id), t)
NewTest(what) == [id |-> Len(tests) + 1, what |-> what, status |-> "active", winner |-> "none"]

-----------------------------------------------------------------------------
(* assign_for_leads.                                                       *)

Cohort(t, k) == {d \in BagToSet(drafts) : d[t.what] = [test |-> t.id, arm |-> k]}

\* The assignments of the leads L to the arms of an active test: the less
\* assigned arm that is not full is next, a tie is broken by a digest, and the
\* leads come in the order of their identities, so that any may be the first.
Spreads(t, L) ==
    {f \in [L -> Arm \cup {"none"}] :
        LET Given(k) == {l \in L : f[l] = k}
            Has(k) == Number(Cohort(t, k)) + Cardinality(Given(k))
        IN
        /\ \A k \in Arm : Given(k) # {} =>
             /\ Has(k) <= MaxAssigned
             /\ Has(k) <= Has(Other(k)) + 1 \/ Has(Other(k)) >= MaxAssigned
        /\ Given("none") # {} => \A k \in Arm : Has(k) >= MaxAssigned}

\* The assignments of the leads L, of which those in able can have either arm
\* or channel: a concluded test gives everybody the winner that can have it.
Assignments(what, L, able) ==
    CASE IsActive(what) ->
             {[l \in L |-> IF l \in able THEN f[l] ELSE "none"] :
                  f \in Spreads(tests[Latest(what)], able)}
      [] IsConcluded(what) ->
             LET winner == tests[Latest(what)].winner IN
             {[l \in L |-> IF winner \in l.reach \/ what = "offer" THEN winner ELSE "none"]}
      [] OTHER -> {[l \in L |-> "none"]}

-----------------------------------------------------------------------------
(* refresh.                                                                *)

Resolved(t, k) == Number(Cohort(t, k) \cap Answered)
Scored(t, k) ==
    Total([d \in Cohort(t, k) \cap Answered |-> Score[d.answer] * drafts[d]])

\* The lift of arm k over the other one, and the least that counts (a fifth),
\* both as multiples of the same positive number.
Lift(t, k) == 5 * (Scored(t, k) * Resolved(t, Other(k)) - Scored(t, Other(k)) * Resolved(t, k))
Enough(t) == 4 * Resolved(t, "control") * Resolved(t, "variant")

\* Faulty: the sample is that of both arms together.
HaveResolvedTogether(t, n) == Resolved(t, "control") + Resolved(t, "variant") >= 2 * n

HaveResolved(t, n) == \A k \in Arm : Resolved(t, k) >= n

\* The conclusions that the answers allow, as winners. Scores are floats: a lift
\* of just a fifth counts or not.
Conclusions(t) ==
    IF ~HaveResolved(t, MinResolved) THEN {}
    ELSE {k \in Arm : Lift(t, k) >= Enough(t)} \cup
         (IF HaveResolved(t, MaxResolved) /\ \A k \in Arm : Lift(t, k) <= Enough(t)
          THEN {"none"} ELSE {})

\* The answers leave no choice but to conclude.
Decided(t) ==
    /\ HaveResolved(t, MinResolved)
    /\ HaveResolved(t, MaxResolved) \/ \E k \in Arm : Lift(t, k) > Enough(t)
=============================================================================
