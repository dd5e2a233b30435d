---------------------------- MODULE Publication ----------------------------
(* Publishing the reviewed preview (PreviewPublisher): a run bound to the  *)
(* manifest's hash waits for the operator, the gateway receives the bytes  *)
(* of the workspace only if they still have that hash, and a stored        *)
(* publication promotes the venture to launched.                           *)
EXTENDS Builder

VARIABLES
    publishRuns,    \* the rows of preview_publish_runs, by their last update
    publications,   \* the runs that have a row in published_previews
    consented,      \* the hashes of the runs whose approval the operator has saved
    site            \* the contents the gateway has published

publishVars == <<publishRuns, publications, consented, site>>

PublishStatus ==
    {"waiting_approval", "ready", "published", "blocked", "failed", "cancelled"}
PublishRun(id, manifest) ==
    [id |-> id, preview |-> manifest.id, hash |-> manifest.hash,
     status |-> "waiting_approval", approved |-> FALSE]

PublishRow(id) == RowOf(publishRuns, id)

\* The run of a manifest that was saved last.
HasRun(manifest) == \E i \in DOMAIN publishRuns : publishRuns[i].preview = manifest.id
LatestFor(manifest) ==
    publishRuns[SelectLastInSeq(publishRuns, LAMBDA r : r.preview = manifest.id)]

PublicationInit ==
    publishRuns = <<>> /\ publications = {} /\ consented = {} /\ site = {}

PublishUnchanged == UNCHANGED <<sells, checkoutVars, paymentVars, buildVars>>

SavePublishRun(row) == publishRuns' = Saved(publishRuns, row)

-----------------------------------------------------------------------------
(* The runtime's publication phase, with prepare inside it.                *)

\* A self-serve venture is not published without its active checkout.
PublicationBegin(p) ==
    /\ at[p] = "publication"
    /\ IF Eligible /\ ~HasContext THEN Stop(p) ELSE Go(p, "prepare") /\ UNCHANGED mine
    /\ UNCHANGED <<stage, publishVars>> /\ PublishUnchanged

\* A manifest has one run. The runtime goes on to publish it; the operator's
\* command only prepares.
Prepare(p) ==
    /\ at[p] = "prepare"
    /\ CASE stage # "ready_preview" \/ manifests = {} -> Stop(p)
         [] stage = "ready_preview" /\ manifests # {} /\ ~HasRun(Latest) ->
                Go(p, "plan_publish") /\ Hold(p, Latest)
         [] OTHER ->
                \/ /\ LatestFor(Latest).status \in {"ready", "published"}
                   /\ Go(p, "publish") /\ Hold(p, [id |-> LatestFor(Latest).id])
                \/ /\ LatestFor(Latest).status \notin {"ready", "published"} \/ p = Operator
                   /\ Stop(p)
    /\ UNCHANGED <<stage, publishVars>> /\ PublishUnchanged

\* The new run waits for approval, so the phase ends.
PlanPublish(p) ==
    /\ at[p] = "plan_publish"
    /\ SavePublishRun(PublishRun(Len(publishRuns) + 1, mine[p]))
    /\ Stop(p)
    /\ UNCHANGED <<stage, publications, consented, site>> /\ PublishUnchanged

\* approve, and the inbox's reject, read a run and write it back in a later
\* transaction.
ReadPublishForApproval(p) ==
    /\ at[p] = "idle" /\ p = Operator
    /\ \E i \in DOMAIN publishRuns :
         /\ publishRuns[i].status = "waiting_approval"
         /\ Hold(p, publishRuns[i])
    /\ Go(p, "approve_publish")
    /\ UNCHANGED <<stage, publishVars>> /\ PublishUnchanged

ApprovePublish(p) ==
    /\ at[p] = "approve_publish"
    /\ SavePublishRun([mine[p] EXCEPT !.status = "ready", !.approved = TRUE])
    /\ consented' = consented \cup {mine[p].hash}
    /\ Stop(p)
    /\ UNCHANGED <<stage, publications, site>> /\ PublishUnchanged

CancelPublish(p) ==
    /\ at[p] = "approve_publish"
    /\ SavePublishRun([mine[p] EXCEPT !.status = "cancelled", !.approved = FALSE])
    /\ Stop(p)
    /\ UNCHANGED <<stage, publications, consented, site>> /\ PublishUnchanged

-----------------------------------------------------------------------------
(* publish.                                                                *)

\* Faulty: a publication that was stored before is not looked up.
PublishBeginAgain(p) ==
    LET run == PublishRow(mine[p].id) IN
    /\ at[p] = "publish"
    /\ IF run.status = "ready" /\ run.approved /\ manifests # {} /\ run.preview = Latest.id
       THEN Go(p, "inspect") /\ Hold(p, [id |-> run.id, run |-> run, preview |-> Latest])
       ELSE Stop(p)
    /\ UNCHANGED <<stage, publishVars>> /\ PublishUnchanged

\* A stored publication is only promoted. A run that is not ready, or whose
\* manifest is not the latest one any more, raises.
PublishBegin(p) ==
    LET run == PublishRow(mine[p].id) IN
    /\ at[p] = "publish"
    /\ IF run.id \in publications
       THEN Go(p, "launch") /\ UNCHANGED mine
       ELSE IF run.status = "ready" /\ run.approved /\ manifests # {} /\ run.preview = Latest.id
            THEN Go(p, "inspect") /\ Hold(p, [id |-> run.id, run |-> run, preview |-> Latest])
            ELSE Stop(p)
    /\ UNCHANGED <<stage, publishVars>> /\ PublishUnchanged

\* Faulty: the files are not compared with what was reviewed and approved.
PublishableUnread(run, preview) ==
    /\ BuildRow(preview.run).status = "ready_preview"
    /\ verdict[preview.run] = "pass"

\* What may still be published: a ready build with a passing review whose
\* files are the ones that were reviewed and approved.
Publishable(run, preview) ==
    /\ BuildRow(preview.run).status = "ready_preview"
    /\ verdict[preview.run] = "pass"
    /\ ReadWorkspace(BuildRow(preview.run)) = preview.hash
    /\ ReadWorkspace(BuildRow(preview.run)) = run.hash

Inspect(p) ==
    /\ at[p] = "inspect"
    /\ IF Publishable(mine[p].run, mine[p].preview)
       THEN /\ Go(p, "send")
            /\ Hold(p, [id |-> mine[p].id, run |-> mine[p].run,
                       content |-> ReadWorkspace(BuildRow(mine[p].preview.run))])
       ELSE Go(p, "block") /\ UNCHANGED mine
    /\ UNCHANGED <<stage, publishVars>> /\ PublishUnchanged

Block(p) ==
    /\ at[p] = "block"
    /\ SavePublishRun([mine[p].run EXCEPT !.status = "blocked"])
    /\ Stop(p)
    /\ UNCHANGED <<stage, publications, consented, site>> /\ PublishUnchanged

\* The gateway sends the files of the workspace; a repeated run is absorbed.
Execute(content) == site' = site \cup {content}

\* The gateway's answer may be lost.
Send(p) ==
    /\ at[p] = "send"
    /\ \/ Execute(mine[p].content) /\ Go(p, "mark_published")
       \/ (Execute(mine[p].content) \/ UNCHANGED site) /\ Go(p, "fail_publish")
    /\ UNCHANGED <<stage, mine, publishRuns, publications, consented>> /\ PublishUnchanged

FailPublish(p) ==
    /\ at[p] = "fail_publish"
    /\ SavePublishRun([mine[p].run EXCEPT !.status = "failed"])
    /\ Stop(p)
    /\ UNCHANGED <<stage, publications, consented, site>> /\ PublishUnchanged

MarkPublished(p) ==
    /\ at[p] = "mark_published"
    /\ SavePublishRun([mine[p].run EXCEPT !.status = "published"])
    /\ Go(p, "record_publication")
    /\ UNCHANGED <<stage, mine, publications, consented, site>> /\ PublishUnchanged

RecordPublication(p) ==
    /\ at[p] = "record_publication"
    /\ publications' = publications \cup {mine[p].id}
    /\ Go(p, "launch")
    /\ UNCHANGED <<stage, mine, publishRuns, consented, site>> /\ PublishUnchanged

\* Only a ready preview is promoted; a launched venture is left alone.
Launched(p) ==
    /\ at[p] = "launch"
    /\ stage' = IF stage = "ready_preview" THEN "launched" ELSE stage
    /\ Stop(p)
    /\ UNCHANGED publishVars /\ PublishUnchanged

PublishStep(p) ==
    \/ PublicationBegin(p) \/ Prepare(p) \/ PlanPublish(p)
    \/ ApprovePublish(p) \/ CancelPublish(p) \/ PublishBegin(p) \/ Inspect(p)
    \/ Block(p) \/ Send(p) \/ FailPublish(p) \/ MarkPublished(p) \/ RecordPublication(p)
    \/ Launched(p)
=============================================================================
