------------------------------- MODULE Launch -------------------------------
(* A validated venture on its way to customers: VentureRuntime takes one   *)
(* step of the phase its stage asks for under each tick (checkout and      *)
(* build, publication, observation of payments), while an operator runs    *)
(* the same phases by hand and grants the two approvals. A process may die *)
(* between any two steps; the next tick starts from the database alone.    *)
EXTENDS Publication

CONSTANT MaxIncidents   \* bound: phases run by hand and processes that die, together

ASSUME LaunchAssumption == MaxIncidents \in Nat

VARIABLE incidents      \* phases the operator has run by hand and processes that died

vars == <<stage, processVars, sells, checkoutVars, paymentVars, buildVars, publishVars,
          incidents>>

databaseVars == <<sells, checkoutVars, paymentVars, buildVars, publishVars>>

Init ==
    /\ stage = "validated"
    /\ at = [p \in Process |-> "idle"]
    /\ mine = [p \in Process |-> Nothing]
    /\ CheckoutInit /\ BuilderInit /\ PublicationInit
    /\ incidents = 0

\* The phase of the venture's stage. The checkout comes before the build of a
\* venture that is not being built yet.
Phase == CASE stage = "ready_preview" -> "publication"
           [] stage = "launched" -> "poll"
           [] stage = "validated" -> "prebuild"
           [] OTHER -> "build"

\* The scheduler's tick, when its advance goes to this venture.
Advance(p) ==
    /\ at[p] = "idle" /\ p # Operator
    /\ Go(p, Phase) /\ UNCHANGED mine
    /\ UNCHANGED <<stage, databaseVars, incidents>>

\* The operator may advance the venture, create the checkout, build, prepare
\* and publish, or poll, whatever the stage.
Command(p) ==
    /\ at[p] = "idle" /\ p = Operator /\ incidents < MaxIncidents
    /\ incidents' = incidents + 1
    /\ \/ \E phase \in {Phase, "prebuild", "build", "prepare"} :
            Go(p, phase) /\ UNCHANGED mine
       \/ \E i \in DOMAIN publishRuns :
            Go(p, "publish") /\ Hold(p, [id |-> publishRuns[i].id])
    /\ UNCHANGED <<stage, databaseVars>>

\* What a process held in memory is lost; what it had saved is not.
Crash(p) ==
    /\ at[p] # "idle" /\ incidents < MaxIncidents
    /\ incidents' = incidents + 1
    /\ Stop(p)
    /\ UNCHANGED <<stage, databaseVars>>

Work(p) ==
    /\ \/ CheckoutStep(p) /\ UNCHANGED <<buildVars, publishVars>>
       \/ BuildStep(p) /\ UNCHANGED publishVars
       \/ PublishStep(p)
    /\ UNCHANGED incidents

Approval(p) ==
    /\ \/ ReadForApproval(p) /\ UNCHANGED <<buildVars, publishVars>>
       \/ ReadPublishForApproval(p)
    /\ UNCHANGED incidents

Customer == Pay /\ UNCHANGED <<buildVars, publishVars, incidents>>

Next ==
    \/ \E p \in Process : Advance(p) \/ Command(p) \/ Work(p) \/ Approval(p) \/ Crash(p)
    \/ Customer

\* A phase that has begun goes on. The operator need never answer or command
\* anything, the customer never pay, and the scheduler never advance this
\* venture: a tick has one advance, for the first venture it does not skip.
Fairness == \A p \in Process : WF_vars(Work(p))

Spec == Init /\ [][Next]_vars /\ Fairness

-----------------------------------------------------------------------------
(* What is promised.                                                       *)

Contents == UNION {[PathsOf(b) -> Bundle] : b \in Bundle}

CheckoutGate == INSTANCE GatedEffect WITH
    Content <- 1 .. Cardinality(Process),
    examined <- 1 .. planned, approved <- allowed, done <- links

PublicationGate == INSTANCE GatedEffect WITH
    Content <- Contents,
    examined <- Range(passed), approved <- consented, done <- site

(* Both effects on the outside world keep to their gates, whatever the     *)
(* interleaving of ticks, commands and crashes: the provider creates a     *)
(* checkout only for a run the operator approved (CommerceManager), and    *)
(* the site only ever shows bytes that a reviewer passed and the operator  *)
(* approved (PreviewPublisher), even when the workspace is rewritten after *)
(* the review.                                                             *)
GatesHold == CheckoutGate!GateSpec /\ PublicationGate!GateSpec

(* What is on the site sells through a checkout that exists, and every     *)
(* revenue row is one paid session of that checkout at the approved price. *)
(* A venture in the market has a publication of something on the site.     *)
SoldAsBound ==
    /\ stage = "launched" => publications # {} /\ site # {}
    /\ Eligible /\ site # {} => binding \in links \cap allowed
    /\ IsInjective(revenue)
    /\ \A i \in DOMAIN revenue :
         \E j \in DOMAIN sessions : sessions[j] = [ref |-> revenue[i], exact |-> TRUE]

\* Where a venture stays for good after a crash or an approval that came
\* late, with nobody at work: a build that is ready without a manifest, a
\* manifest without its stage, a site whose publication was never stored, and
\* a bound checkout made ready again after the stage that would repair it.
Stranded ==
    /\ \A p \in Process : at[p] = "idle"
    /\ \/ manifests = {} /\ \E i \in DOMAIN builds : builds[i].status = "ready_preview"
       \/ manifests # {} /\ stage \in Prebuild
       \/ \E i \in DOMAIN publishRuns :
            publishRuns[i].status = "published" /\ publishRuns[i].id \notin publications
       \/ Eligible /\ binding # 0 /\ ~HasContext

\* The status of the latest manifest's publication run.
Publishing == IF manifests = {} \/ ~HasRun(Latest) THEN "none" ELSE LatestFor(Latest).status

\* The scheduler's advances come round to this venture: it holds an active
\* envelope with model calls left, no test of it is open, and no venture ahead
\* takes the advance of every tick (one that waits for an approval in
\* ready_preview does).
TurnsComeRound == \A p \in Process \ {Operator} : WF_vars(Advance(p))

(* As long as its turns come round, an approved publication is carried out *)
(* (PortfolioScheduler, PreviewPublisher): the venture is launched, unless *)
(* the gateway or the inspection refused it, a later manifest asks for     *)
(* approval again (BuilderMachine records it without a look at the stage), *)
(* or the process died in one of the windows of Stranded. Whatever else a  *)
(* crash or a command cut short, the ticks resume.                         *)
ApprovedIsLaunched ==
    TurnsComeRound =>
        ((stage = "ready_preview" /\ Publishing = "ready")
            ~> (stage = "launched" \/ Publishing \notin {"ready", "published"} \/ Stranded))
=============================================================================
