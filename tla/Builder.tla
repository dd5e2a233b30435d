------------------------------ MODULE Builder ------------------------------
(* The builder of one venture (BuilderMachine): one specification, at most *)
(* MaxAttempts generated bundles, each verified, written into the run's    *)
(* workspace, executed if the template asks for it, reviewed, and then     *)
(* promoted to a preview whose manifest holds the hash of what the         *)
(* reviewer read. A tick saves its run after every phase and a later tick  *)
(* resumes from the run saved last.                                        *)
EXTENDS Checkout, SequencesExt

CONSTANTS
    Bundle,         \* what the model may answer: names of bundles
    Output,         \* Output[b]: its paths in order, bytes, flaws a scan finds
    PlannedTemplate,    \* the templates the planner may ask for
    MaxAttempts,    \* max_attempts
    MaxSpecs,       \* bound: the planner gives no specification after these
    MaxRuns,        \* bound: no further build run is planned after these
    MaxFailures     \* bound: build runs that fail

TemplateName == {"static_web", "concierge_ops", "python_service"}

ASSUME BuilderAssumption ==
    /\ MaxAttempts \in 1 .. 3 /\ MaxSpecs \in Nat /\ MaxRuns \in Nat /\ MaxFailures \in Nat
    /\ PlannedTemplate \subseteq TemplateName
    /\ \A b \in Bundle : Output[b].paths \in Seq(STRING) \ {<<>>}

VARIABLES
    specs,      \* the templates in build_specs, oldest first
    builds,     \* the rows of build_runs, by their last update
    files,      \* files[r]: the workspace of run r, a path to the bundle it came from
    verdict,    \* verdict[r]: the latest review of run r, "none" before one
    passed,     \* the contents that passing reviews have read, in that order
    manifests   \* the rows of preview_manifests; the order of ids is created_at

buildVars == <<specs, builds, files, verdict, passed, manifests>>

-----------------------------------------------------------------------------
(* Templates and the deterministic checks.                                 *)

Template == [t \in TemplateName |->
    CASE t = "static_web" ->
             [allowed |-> {"index.html", "styles.css", "README.md", "copy.md"},
              required |-> {"index.html", "README.md"},
              files |-> 4, bytes |-> 80000, execution |-> FALSE,
              forbidden |-> {"secret", "no_document", "active_external"}]
      [] t = "concierge_ops" ->
             [allowed |-> {"README.md", "SOP.md", "intake.md",
                           "scripts/qualification.md", "scripts/followup.md"},
              required |-> {"README.md", "SOP.md", "intake.md"},
              files |-> 5, bytes |-> 80000, execution |-> FALSE,
              forbidden |-> {"secret", "thin"}]
      [] OTHER ->
             [allowed |-> {"app.py", "test_app.py", "README.md"},
              required |-> {"app.py", "test_app.py", "README.md"},
              files |-> 3, bytes |-> 100000, execution |-> TRUE,
              forbidden |-> {"secret", "syntax", "import", "introspection",
                             "side_effects", "entrypoint", "tests"}]]

PathsOf(b) == Range(Output[b].paths)

\* A bundle may name a path twice: no check but this one would notice.
UniquePaths(b) == Cardinality(PathsOf(b)) = Len(Output[b].paths)

\* The scans of a template's kind: of its texts, and of a Python module's
\* syntax, imports, names and calls.
Scanned(t, b) == Output[b].flaws \cap Template[t].forbidden = {}

\* BuildVerifier: limits and paths of the template, and the scans of its kind.
Verified(t, b) ==
    /\ Len(Output[b].paths) \in 1 .. Template[t].files
    /\ Output[b].bytes <= Template[t].bytes
    /\ PathsOf(b) \subseteq Template[t].allowed
    /\ Template[t].required \subseteq PathsOf(b)
    /\ UniquePaths(b)
    /\ Scanned(t, b)

\* CommerceBuildVerifier: a page that sells shows the approved price and
\* links to the approved checkout and to nothing else.
SellsAsApproved(t, b) ==
    /\ t = "static_web"
    /\ Output[b].flaws \cap {"checkout_missing", "foreign_link", "price_missing"} = {}

Acceptable(t, b) == Verified(t, b) /\ (Eligible => SellsAsApproved(t, b))

-----------------------------------------------------------------------------
(* Rows. The store lists runs by their last update.                        *)

BuildStatus == {"planned", "verified", "failed", "ready_preview"}
Build(id, spec, attempt) ==
    [id |-> id, spec |-> spec, attempt |-> attempt, status |-> "planned", paths |-> {}]

\* INSERT OR REPLACE under a fresh updated_at.
Saved(rows, row) == Append(RemoveFirstMatch(rows, LAMBDA r : r.id = row.id), row)

RowOf(rows, id) == rows[SelectInSeq(rows, LAMBDA r : r.id = id)]
BuildRow(id) == RowOf(builds, id)

\* Where the run of a specification is that was saved last, 0 if it has none.
NewestBuild(spec) == SelectLastInSeq(builds, LAMBDA r : r.spec = spec)

Manifest == [id : Nat \ {0}, run : Nat \ {0}, hash : [STRING -> Bundle]]

\* The manifest of the venture: the one made last.
Latest == CHOOSE m \in manifests : \A n \in manifests : n.id <= m.id

\* The sandbox reads the paths of the run's row from its workspace.
ReadWorkspace(run) == [f \in run.paths |-> files[run.id][f]]

BuilderInit ==
    /\ specs = <<>> /\ builds = <<>> /\ manifests = {}
    /\ files = <<>> /\ verdict = <<>>
    /\ passed = <<>>

BuildUnchanged == UNCHANGED <<sells, checkoutVars, paymentVars>>

-----------------------------------------------------------------------------
(* The tick.                                                               *)

\* A venture that sells itself is not built before its checkout is active,
\* and one that has a manifest is not built again.
BuildBegin(p) ==
    /\ at[p] = "build"
    /\ IF \/ stage \notin {"validated", "building", "ready_preview"}
          \/ manifests # {}
          \/ Eligible /\ ~HasContext
       THEN Stop(p)
       ELSE /\ Go(p, IF specs = <<>> THEN "plan_spec" ELSE "pick_run")
            /\ Hold(p, [id |-> 0, spec |-> Len(specs)])
    /\ UNCHANGED <<stage, buildVars>> /\ BuildUnchanged

\* A static page is the only template that can sell.
PlannedTemplates == IF Eligible THEN {"static_web"} ELSE PlannedTemplate

\* The model's plan: none within the budget or none that is allowed ends the
\* tick. With commerce the template is forced.
PlanSpec(p) ==
    /\ at[p] = "plan_spec"
    /\ \/ Stop(p) /\ UNCHANGED specs
       \/ /\ Len(specs) < MaxSpecs
          /\ specs' \in {Append(specs, t) : t \in PlannedTemplates}
          /\ Go(p, "enter_building") /\ Hold(p, [id |-> 0, spec |-> Len(specs')])
    /\ UNCHANGED <<stage, builds, files, verdict, passed, manifests>> /\ BuildUnchanged

\* record_build_spec writes the stage in a transaction after the row's.
EnterBuilding(p) ==
    /\ at[p] = "enter_building"
    /\ stage' = "building" /\ Go(p, "pick_run")
    /\ UNCHANGED <<mine, buildVars>> /\ BuildUnchanged

\* Runs are numbered in the order they are planned.
NextRun == Len(builds) + 1

\* Of the specification in hand, the run saved last decides: a failed one is
\* followed by another attempt while the repair budget lasts, any other one is
\* resumed.
PickRun(p) ==
    LET spec == mine[p].spec
        newest == NewestBuild(spec)
        last == builds[newest]
    IN
    /\ at[p] = "pick_run"
    /\ CASE newest = 0 ->
                IF Len(builds) >= MaxRuns
                THEN Stop(p)
                ELSE Go(p, "record_run") /\ Hold(p, Build(0, spec, 1))
         [] newest # 0 /\ last.status = "failed" ->
                IF last.attempt >= MaxAttempts \/ Len(builds) >= MaxRuns
                THEN Stop(p)
                ELSE Go(p, "record_run") /\ Hold(p, Build(0, spec, last.attempt + 1))
         [] newest # 0 /\ last.status = "planned" -> Go(p, "generate") /\ Hold(p, last)
         [] newest # 0 /\ last.status = "verified" -> Go(p, "review") /\ Hold(p, last)
         [] OTHER -> Stop(p)
    /\ UNCHANGED <<stage, buildVars>> /\ BuildUnchanged

RecordRun(p) ==
    /\ at[p] = "record_run"
    /\ LET row == [mine[p] EXCEPT !.id = NextRun] IN
         builds' = Saved(builds, row) /\ Hold(p, row)
    /\ files' = Append(files, <<>>) /\ verdict' = Append(verdict, "none")
    /\ Go(p, "generate")
    /\ UNCHANGED <<stage, specs, passed, manifests>> /\ BuildUnchanged

\* Saves the process's own row under another status.
SaveBuild(row, status) == builds' = Saved(builds, [row EXCEPT !.status = status])

MayFail == Len(SelectSeq(builds, LAMBDA r : r.status = "failed")) < MaxFailures
Fail(p) == SaveBuild(mine[p], "failed") /\ Stop(p)

\* The files are written one after the other, in the order of the bundle.
Write(run, bundle, done) ==
    LET order == Output[bundle].paths
        paths == {order[i] : i \in done}
    IN  files' = [files EXCEPT ![run] = [f \in DOMAIN @ \cup paths |->
                                             IF f \in paths THEN bundle ELSE @[f]]]

\* The answers of the generator, and of the repair, that can be used.
Answers(run) == {b \in Bundle : Acceptable(specs[run.spec], b)}

\* Generation or repair, the checks of the answer, and the first file. The
\* budget may be spent (the run stays planned) or the answer unusable.
Generate(p) ==
    /\ at[p] = "generate"
    /\ \/ Stop(p) /\ UNCHANGED <<builds, files>>
       \/ MayFail /\ Fail(p) /\ UNCHANGED files
       \/ \E b \in Answers(mine[p]) :
            /\ Write(mine[p].id, b, {1})
            /\ Go(p, "write_rest") /\ Hold(p, [id |-> mine[p].id, run |-> mine[p], bundle |-> b])
            /\ UNCHANGED builds
    /\ UNCHANGED <<stage, specs, verdict, passed, manifests>> /\ BuildUnchanged

WriteRest(p) ==
    /\ at[p] = "write_rest"
    /\ Write(mine[p].id, mine[p].bundle, 2 .. Len(Output[mine[p].bundle].paths))
    /\ Go(p, "materialize")
    /\ UNCHANGED <<stage, mine, specs, builds, verdict, passed, manifests>> /\ BuildUnchanged

\* The run's row names the workspace and the paths, still as planned.
Materialize(p) ==
    /\ at[p] = "materialize"
    /\ LET row == [mine[p].run EXCEPT !.paths = PathsOf(mine[p].bundle)] IN
         builds' = Saved(builds, row) /\ Hold(p, row)
    /\ Go(p, "verify")
    /\ UNCHANGED <<stage, specs, files, verdict, passed, manifests>> /\ BuildUnchanged

\* The sandbox runs the tests of an executable template; they may fail.
ExecutionFails(p) ==
    /\ Template[specs[mine[p].spec]].execution
    /\ MayFail /\ Fail(p)

\* An executable template runs its tests first.
Verify(p) ==
    /\ at[p] = "verify"
    /\ \/ /\ SaveBuild(mine[p], "verified")
          /\ Hold(p, [mine[p] EXCEPT !.status = "verified"]) /\ Go(p, "review")
       \/ ExecutionFails(p)
    /\ UNCHANGED <<stage, specs, files, verdict, passed, manifests>> /\ BuildUnchanged

\* The verdict is stored before the tick acts on it.
Judge(run, value) == verdict' = [verdict EXCEPT ![run] = value]

\* The reviewer gets the files of the workspace, not the bundle in memory.
ReadForReview(p) ==
    /\ at[p] = "review"
    /\ Go(p, "ask_review")
    /\ Hold(p, [id |-> mine[p].id, run |-> mine[p], content |-> ReadWorkspace(mine[p])])
    /\ UNCHANGED <<stage, buildVars>> /\ BuildUnchanged

\* The model may be out of budget (the run stays verified).
AskReview(p) ==
    /\ at[p] = "ask_review"
    /\ \/ Stop(p)
       \/ Go(p, "record_pass") /\ UNCHANGED mine
       \/ MayFail /\ Go(p, "record_fail") /\ UNCHANGED mine
    /\ UNCHANGED <<stage, buildVars>> /\ BuildUnchanged

\* A manifest is made right after its verdict, of the files that were read.
RecordPass(p) ==
    /\ at[p] = "record_pass"
    /\ Judge(mine[p].run.id, "pass")
    /\ passed' = Append(passed, mine[p].content)
    /\ Go(p, "ready")
    /\ Hold(p, [id |-> Len(passed'), run |-> mine[p].run, hash |-> mine[p].content])
    /\ UNCHANGED <<stage, specs, builds, files, manifests>> /\ BuildUnchanged

RecordFail(p) ==
    /\ at[p] = "record_fail"
    /\ Judge(mine[p].run.id, "fail")
    /\ Go(p, "rejected") /\ Hold(p, mine[p].run)
    /\ UNCHANGED <<stage, specs, builds, files, passed, manifests>> /\ BuildUnchanged

Reject(p) ==
    /\ at[p] = "rejected"
    /\ Fail(p)
    /\ UNCHANGED <<stage, specs, files, verdict, passed, manifests>> /\ BuildUnchanged

MarkReady(p) ==
    /\ at[p] = "ready"
    /\ SaveBuild(mine[p].run, "ready_preview")
    /\ Go(p, "manifest")
    /\ UNCHANGED <<stage, mine, specs, files, verdict, passed, manifests>> /\ BuildUnchanged

\* INSERT OR REPLACE, and run_id is UNIQUE.
RecordManifest(p) ==
    /\ at[p] = "manifest"
    /\ manifests' = {m \in manifests : m.run # mine[p].run.id}
                        \cup {[id |-> mine[p].id, run |-> mine[p].run.id, hash |-> mine[p].hash]}
    /\ Go(p, "enter_preview")
    /\ UNCHANGED <<stage, mine, specs, builds, files, verdict, passed>> /\ BuildUnchanged

\* record_preview_manifest writes the stage in a transaction after the row's.
EnterPreview(p) ==
    /\ at[p] = "enter_preview"
    /\ stage' = "ready_preview" /\ Stop(p)
    /\ UNCHANGED buildVars /\ BuildUnchanged

BuildStep(p) ==
    \/ BuildBegin(p) \/ PlanSpec(p) \/ EnterBuilding(p) \/ PickRun(p) \/ RecordRun(p)
    \/ Generate(p) \/ WriteRest(p) \/ Materialize(p) \/ Verify(p) \/ ReadForReview(p)
    \/ AskReview(p) \/ RecordPass(p) \/ RecordFail(p) \/ Reject(p) \/ MarkReady(p) \/ RecordManifest(p)
    \/ EnterPreview(p)
=============================================================================
