------------------------------ MODULE Learning ------------------------------
(* What a venture does with the answers of its market: every answer, and   *)
(* every tick before the scheduler, refreshes the decision that sets the   *)
(* venture's stage and concludes the tests that the answers decide         *)
(* (GTMFeedbackRefresher); a turn of the venture plans the tests and       *)
(* drafts for new leads under them (GTMRuntime, GTMDiscoveryMachine). The  *)
(* host ticks under a lease; an operator discovers and records by hand.    *)
EXTENDS MarketTests

CONSTANTS
    ScaleSample,    \* min_resolved_for_scale
    PauseSample,    \* min_resolved_for_pause
    KillSample,     \* min_resolved_for_kill
    Portion,        \* the leads one search may qualify: sequences of their channels
    Past,           \* what the venture has behind it: tests, drafts and pool
    MaxLeads,       \* bound on the leads found
    MaxPool,        \* bound on those that wait for a draft
    MaxUpsets       \* bound: processes that overlap another one or die, and leads that
                    \* are drafted for twice, together

ASSUME LearningAssumption ==
    /\ ScaleSample \in Nat \ {0} /\ PauseSample >= ScaleSample /\ KillSample >= PauseSample
    /\ PauseSample \in Nat /\ KillSample \in Nat
    /\ Portion \subseteq Seq(Reach)
    /\ MaxLeads \in Nat /\ MaxPool \in Nat /\ MaxUpsets \in Nat

VARIABLES
    stage,          \* the venture's stage
    judged,         \* is there a decision on the metrics as they are now
    found,          \* leads ever qualified; gives their ids
    upsets          \* what has happened: "overlap", two processes were at work at the
                    \* same time; "repeat", one answer had two drafts for a lead

learningVars == <<testVars, stage, judged, found, upsets>>

\* gtm_is_active.
GtmActive == stage \in {"ready_preview", "launched", "measuring", "scaling"}

Onward(p, label) == Go(p, label) /\ UNCHANGED mine

\* Where a refresh ends: the scheduler may give the venture a turn, or the two
\* tests are looked at once more (record_response).
AfterRefresh(p) ==
    CASE mine[p].next = "turn" -> Stop(p) \/ (Go(p, "turn") /\ Hold(p, Nothing))
      [] mine[p].next = "again" -> Go(p, "offer") /\ Hold(p, [next |-> "none"])
      [] OTHER -> Stop(p)

-----------------------------------------------------------------------------
(* GTMDecisionEngine.                                                      *)

\* collect_gtm_metrics, as far as it decides.
Metrics == [k \in Kind |-> Number({d \in Answered : d.answer = k})]

Positive == {"sale", "meeting", "interested"}

\* The stage that metrics lead to.
Decision(m) ==
    LET Sum(K) == Total([k \in Kind \cap K |-> m[k]])
        resolved == Sum(Kind)
        kill == resolved >= KillSample /\ Sum(Positive) = 0
    IN
    CASE /\ resolved >= ScaleSample /\ Sum({"sale"}) >= 2
         /\ 10 * Sum(Positive) >= 3 * resolved /\ 20 * Sum({"sale"}) >= 3 * resolved -> "scaling"
      [] kill -> "killed"
      [] ~kill /\ resolved >= PauseSample /\ Sum({"sale"}) = 0 /\ 10 * Sum(Positive) < resolved
            -> "paused"
      [] OTHER -> "measuring"

\* What is always so of the tests and their samples.
SamplesStand ==
    \A i \in DOMAIN tests :
        /\ tests[i].status = "completed" =>
              \A k \in Arm : Resolved(tests[i], k) >= MinResolved
        /\ tests[i].what = "channel" =>
              \E j \in DOMAIN tests : tests[j].what = "offer" /\ tests[j].status = "completed"
        /\ upsets = {} /\ tests[i].status = "active" =>
              \A k \in Arm : Number(Cohort(tests[i], k)) <= MaxAssigned

\* What a venture may have behind it: whatever the program can have left.
PastStands ==
    /\ tests \in Seq(Test)
    /\ {tests[i].id : i \in DOMAIN tests} = DOMAIN tests
    /\ \A i, j \in DOMAIN tests : tests[i].id = tests[j].id => i = j
    /\ IsABag(drafts) /\ IsFiniteSet(BagToSet(drafts)) /\ IsFiniteSet(pool)
    /\ \A d \in BagToSet(drafts) : d \in Drafts(Len(tests))
    /\ SamplesStand

LearningInit ==
    /\ found = 0 /\ upsets = {}
    /\ \E past \in Past : tests = past.tests /\ drafts = past.drafts /\ pool = past.pool
    /\ PastStands
    /\ stage = IF Answered = {} THEN "launched" ELSE Decision(Metrics)
    /\ judged = (Answered # {})

\* No venture at all.
LearningIdle ==
    /\ tests = <<>> /\ drafts = EmptyBag /\ pool = {} /\ stage = "launched"
    /\ judged = FALSE /\ found = 0 /\ upsets = {}

\* Faulty: only the ventures in the market are refreshed.
RefreshableInMarket == Answered # {} /\ GtmActive

\* A venture without answers is passed over.
Refreshable == Answered # {}

\* Metrics that have a decision keep it. The answers only grow, so that earlier
\* decisions are never found again; contacts without an answer count among the
\* metrics, but decide nothing.
Evaluate(p) ==
    /\ at[p] = "evaluate"
    /\ \/ ~Refreshable /\ AfterRefresh(p)
       \/ Refreshable /\ judged /\ Onward(p, "offer")
       \/ /\ Refreshable /\ (~judged \/ Open # {})
          /\ Go(p, "decide") /\ Hold(p, [next |-> mine[p].next, metrics |-> Metrics])
    /\ UNCHANGED learningVars

\* INSERT OR IGNORE.
SaveDecision(p) ==
    /\ at[p] = "decide"
    /\ judged' = (judged \/ mine[p].metrics = Metrics)
    /\ Onward(p, "apply")
    /\ UNCHANGED <<testVars, stage, found, upsets>>

ApplyStage(p) ==
    /\ at[p] = "apply"
    /\ stage' = Decision(mine[p].metrics)
    /\ Go(p, "offer") /\ Hold(p, [next |-> mine[p].next])
    /\ UNCHANGED <<testVars, judged, found, upsets>>

-----------------------------------------------------------------------------
(* The tests are looked at, the offer's before the channels'.              *)

AfterTest(p, what) ==
    IF what = "offer" THEN Go(p, "channel") /\ Hold(p, [next |-> mine[p].next])
                      ELSE AfterRefresh(p)

Judge(p, what) ==
    /\ at[p] = what
    /\ LET i == Running(what) IN
       \/ (i # 0 => ~Decided(tests[i])) /\ AfterTest(p, what)
       \/ /\ i # 0
          /\ \E winner \in Conclusions(tests[i]) :
               Hold(p, [next |-> mine[p].next,
                        test |-> [tests[i] EXCEPT !.status = "completed", !.winner = winner]])
          /\ Go(p, "conclude")
    /\ UNCHANGED learningVars

Conclude(p) ==
    /\ at[p] = "conclude"
    /\ SaveTest(mine[p].test)
    /\ AfterTest(p, mine[p].test.what)
    /\ UNCHANGED <<pool, drafts, stage, judged, found, upsets>>

-----------------------------------------------------------------------------
(* A turn of the venture.                                                  *)

\* record_response, with the revenue of a sale; the approval and the dispatch
\* of the run are those of Outreach. An answer that was stored before is only
\* looked at again.
AnswerComes(p) ==
    /\ \/ /\ \E d \in Open, k \in Kind : Becomes(d, [d EXCEPT !.answer = k])
          /\ judged' = FALSE
       \/ Answered # {} /\ UNCHANGED <<drafts, judged>>
    /\ Go(p, "evaluate") /\ Hold(p, [next |-> "again"])
    /\ UNCHANGED <<pool, tests, stage, found>>

\* Two leads that can be reached by both channels, after the offer's test.
ChannelTestDue ==
    /\ Latest("channel") = 0 /\ IsConcluded("offer")
    /\ Cardinality({l \in pool : l.reach = Arm}) >= 2

\* An answer comes before all else, and a venture whose runs wait for the
\* operator or the prospects has nothing more to do. The model is asked for an
\* offer test after the first answer; its calls may be used up then, or after it.
MarketTurn(p) ==
    /\ at[p] = "turn"
    /\ \/ GtmActive /\ AnswerComes(p) /\ UNCHANGED upsets
       \/ Stop(p) /\ UNCHANGED learningVars
       \/ /\ GtmActive /\ Hold(p, [limit |-> 1, next |-> "search"])
          /\ CASE ChannelTestDue -> Go(p, "save_channel")
               [] Latest("offer") = 0 /\ Answered # {} -> Go(p, "save_offer")
               [] OTHER -> Go(p, "search")
          /\ UNCHANGED learningVars

SaveChannel(p) ==
    /\ at[p] = "save_channel"
    /\ SaveTest(NewTest("channel"))
    /\ Onward(p, mine[p].next) \/ Stop(p)
    /\ UNCHANGED <<pool, drafts, stage, judged, found, upsets>>

SaveOffer(p) ==
    /\ at[p] = "save_offer"
    /\ SaveTest(NewTest("offer"))
    /\ Onward(p, "search") \/ Stop(p)
    /\ UNCHANGED <<pool, drafts, stage, judged, found, upsets>>

-----------------------------------------------------------------------------
(* GTMDiscoveryMachine.                                                    *)

\* Calls of the model may be used up before or after the leads are qualified.
Search(p) ==
    /\ at[p] = "search"
    /\ IF ~GtmActive THEN Stop(p) /\ UNCHANGED <<pool, found>>
       ELSE \E portion \in Portion :
              /\ found + Len(portion) <= MaxLeads /\ Cardinality(pool) + Len(portion) <= MaxPool
              /\ found' = found + Len(portion)
              /\ pool' = pool \cup {[id |-> found + i, reach |-> portion[i]] : i \in DOMAIN portion}
              /\ Stop(p) \/ (pool' # {} /\ Onward(p, "assign"))
    /\ UNCHANGED <<drafts, tests, stage, judged, upsets>>

\* Leads that get no arm of an active test wait.
Chosen(what, leads, f) == {l \in leads : IsActive(what) => f[l] # "none"}

LabelFor(what, arm) == IF Latest(what) = 0 THEN NoLabel ELSE Label(tests[Latest(what)], arm)

Assign(p) ==
    /\ at[p] = "assign"
    /\ \E f \in Assignments("offer", pool, pool) :
         LET leads == Chosen("offer", pool, f) IN
         IF leads = {} THEN Stop(p)
         ELSE /\ Go(p, "assign_channel")
              /\ Hold(p, [limit |-> mine[p].limit, next |-> "assign_channel", leads |-> leads,
                          offer |-> [l \in leads |-> LabelFor("offer", f[l])]])
    /\ UNCHANGED learningVars

\* The oldest ones.
Oldest(leads, limit) == {l \in leads : Cardinality({m \in leads : m.id < l.id}) < limit}

\* Only the first leads are drafted for, after all had their arms.
AssignChannel(p) ==
    LET leads == mine[p].leads
        reachable == {l \in leads : l.reach = Arm}
    IN
    /\ at[p] = "assign_channel"
    /\ IF ChannelTestDue THEN Onward(p, "save_channel")
       ELSE \E f \in Assignments("channel", leads, reachable) :
         LET chosen == Oldest(Chosen("channel", leads, f), mine[p].limit) IN
         IF chosen = {} THEN Stop(p)
         ELSE /\ Go(p, "draft")
              /\ Hold(p, [todo |->
                    {[lead |-> l,
                      draft |-> Draft(mine[p].offer[l], LabelFor("channel", f[l]), "open")] :
                         l \in chosen}])
    /\ UNCHANGED learningVars

\* The model answers in an order of its own; it may leave a lead out, and may
\* have more than one draft for a lead.
SaveDraft(p) ==
    /\ at[p] = "draft"
    /\ \/ Stop(p) /\ UNCHANGED <<drafts, pool, upsets, incidents>>
       \/ /\ \E next \in mine[p].todo :
               /\ drafts' = drafts (+) SetToBag({next.draft})
               /\ pool' = pool \ {next.lead}
               /\ \/ Hold(p, [todo |-> mine[p].todo \ {next}]) /\ UNCHANGED <<upsets, incidents>>
                  \/ upsets' = upsets \cup {"repeat"} /\ Incident(MaxUpsets) /\ UNCHANGED mine
          /\ UNCHANGED at
    /\ UNCHANGED <<tests, stage, judged, found>>

-----------------------------------------------------------------------------
(* The processes, and the world.                                           *)

Enters(p) ==
    /\ Starts(p, MaxUpsets)
    /\ upsets' = IF \E q \in Process : at[q] # "idle" THEN upsets \cup {"overlap"} ELSE upsets

\* A tick refreshes before it schedules.
RefreshTick(p) ==
    /\ Enters(p) /\ Go(p, "evaluate") /\ Hold(p, [next |-> "turn"])
    /\ UNCHANGED <<testVars, stage, judged, found>>

\* helis-gtm discover, poll-result and record-response.
LearnByHand(p) ==
    /\ Enters(p)
    /\ \/ /\ Go(p, "search") /\ Hold(p, [limit |-> 3])
          /\ UNCHANGED <<testVars, stage, judged, found>>
       \/ AnswerComes(p)

LearningWork(p) ==
    \/ /\ \/ Evaluate(p) \/ SaveDecision(p) \/ ApplyStage(p)
          \/ Judge(p, "offer") \/ Judge(p, "channel") \/ Conclude(p)
          \/ MarketTurn(p) \/ SaveChannel(p) \/ SaveOffer(p)
          \/ Search(p) \/ Assign(p) \/ AssignChannel(p)
       /\ UNCHANGED incidents
    \/ SaveDraft(p)

LearningCrash(p) == Dies(p, MaxUpsets) /\ UNCHANGED learningVars

LearningNext ==
    \E p \in Process : RefreshTick(p) \/ LearnByHand(p) \/ LearningWork(p) \/ LearningCrash(p)

-----------------------------------------------------------------------------
(* What is promised.                                                       *)

(* Every test is concluded once the answers decide it: the tick's refresh  *)
(* makes up for a process that stored an answer and died, whatever has     *)
(* become of the venture meanwhile. And where nobody died or overlapped,   *)
(* the venture's stage comes to be the one that its answers call for.      *)
EvidenceTakesHold ==
    []<>(/\ \A what \in {"offer", "channel"} :
               Running(what) # 0 => ~Decided(tests[Running(what)])
         /\ incidents = 0 /\ Answered # {} => stage = Decision(Metrics))

\* Of a step during which nobody has overlapped yet.
ConclusionsStand ==
    "overlap" \notin upsets' =>
        \A i \in DOMAIN tests :
            tests[i].status = "completed" => \E j \in DOMAIN tests' : tests'[j] = tests[i]
NobodyIsPassed ==
    "overlap" \notin upsets' =>
        \A what \in {"offer", "channel"} : IsActive(what) /\ pool' # pool =>
            \A d \in BagToSet(drafts' (-) drafts) : d[what] # NoLabel

(* A test, whoever overlaps, has a winner only by enough answers in each   *)
(* of its arms, and channels are tested only after the offer. Processes    *)
(* that never overlap, though they may die, keep its sample within its     *)
(* limits, unless the model drafts for a lead twice, draft for nobody past *)
(* an active test, and never take back a conclusion. The pasts that a      *)
(* venture may have satisfy the first part.                                *)
TestsStayFair ==
    [][SamplesStand' /\ ConclusionsStand /\ NobodyIsPassed]_<<tests, drafts, pool, upsets>>
=============================================================================
