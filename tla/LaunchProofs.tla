---------------------------- MODULE LaunchProofs ----------------------------
(***************************************************************************)
(* A venture on its way to customers keeps to its two gates, and what is   *)
(* on its site sells as it was bound, for any number of processes, bundles *)
(* and templates, and any number of attempts, payments and mishaps.        *)
(*                                                                         *)
(* LaunchInv says of the tables, and of what every process holds in its    *)
(* memory, which step of which gate it rests on. A row in memory may be    *)
(* older than the stored one; what is known of it stays known, because     *)
(* approvals, checkouts, reviews and files are never taken back (Grows).   *)
(***************************************************************************)
EXTENDS Launch, SequenceTheorems, FiniteSetTheorems, WellFoundedInduction, TLAPS

\* What the rows may hold.
Paths == UNION {PathsOf(b) : b \in Bundle}
Workspaces == UNION {[D -> Bundle] : D \in SUBSET Paths}
BuildRows ==
    [id : Nat, spec : Nat, attempt : Nat, status : BuildStatus, paths : SUBSET Paths]
PublishRows ==
    [id : Nat, preview : Nat, hash : Contents, status : PublishStatus, approved : BOOLEAN]

\* The rows are numbered in the order they are planned, whatever the order of
\* their last updates.
Numbered(rows) ==
    /\ \A i \in DOMAIN rows : rows[i].id \in 1 .. Len(rows)
    /\ \A n \in 1 .. Len(rows) : \E i \in DOMAIN rows : rows[i].id = n
    /\ \A i, j \in DOMAIN rows : rows[i].id = rows[j].id => i = j

-----------------------------------------------------------------------------
(* The checkout.                                                           *)

CheckoutKnownRow(r) == r \in CheckoutRow /\ r.id <= planned /\ (r.approved => r.id \in allowed)

\* What is known of the row held by a process that is at here.
CheckoutInHand(here, held) ==
    /\ here \in {"read_binding", "recover", "create", "fail_run", "read_bound",
                 "insert_binding", "activate", "approve_run"} => CheckoutKnownRow(held)
    /\ here = "create" => held.approved
    /\ here \in {"read_bound", "insert_binding"} => held.id \in links
    /\ here \in {"read_revenue", "insert_revenue"} => \E j \in DOMAIN sessions : sessions[j] = held
    /\ here = "insert_revenue" => held.exact

\* A revenue row is one exact paid session.
Earned(ref) == \E j \in DOMAIN sessions : sessions[j] = [ref |-> ref, exact |-> TRUE]

CheckoutKnown ==
    /\ planned \in Nat
    /\ IF checkout = NoRow THEN planned = 0 ELSE CheckoutKnownRow(checkout)
    /\ allowed \subseteq 1 .. planned
    /\ links \subseteq allowed
    /\ binding # 0 => binding \in links
    /\ sessions \in Seq(Session)
    /\ revenue \in Seq(1 .. MaxPayments) /\ IsInjective(revenue)
    /\ \A i \in DOMAIN revenue : Earned(revenue[i])

\* A checkout run is planned by a process that found none: no process plans
\* two.
Planners == {p \in Process : at[p] = "plan_run"}
PlannersFew == planned + Cardinality(Planners) <= Cardinality(Process)

-----------------------------------------------------------------------------
(* The build.                                                              *)

\* Where a process is past the builder's look at the checkout.
Building == {"plan_spec", "enter_building", "pick_run", "record_run", "generate", "write_rest",
             "materialize", "verify", "review", "ask_review", "record_pass", "record_fail",
             "rejected", "ready", "manifest", "enter_preview"}

BuildKnownRow(r) == r \in BuildRows /\ r.id \in 1 .. Len(builds)

\* The files that the row names are in its workspace, and come from a bundle.
Written(r) == \E b \in Bundle : r.paths = PathsOf(b) /\ PathsOf(b) \subseteq DOMAIN files[r.id]

BuildInHand(here, held) ==
    /\ here \in Building /\ Eligible => binding # 0
    /\ here \in {"enter_building", "pick_run"} => held.spec \in Nat
    /\ here = "record_run" => held \in BuildRows /\ held.status = "planned"
    /\ here \in {"generate", "verify", "review", "rejected"} => BuildKnownRow(held)
    /\ here = "generate" => held.status = "planned"
    /\ here \in {"verify", "review", "rejected"} => Written(held)
    /\ here \in {"write_rest", "materialize"} =>
         /\ BuildKnownRow(held.run) /\ held.run.status = "planned" /\ held.id = held.run.id
         /\ held.bundle \in Bundle
    /\ here = "write_rest" => Output[held.bundle].paths[1] \in DOMAIN files[held.id]
    /\ here = "materialize" => PathsOf(held.bundle) \subseteq DOMAIN files[held.id]
    /\ here \in {"ask_review", "record_pass", "record_fail"} =>
         BuildKnownRow(held.run) /\ Written(held.run) /\ held.content \in Contents
    /\ here \in {"ready", "manifest"} =>
         /\ BuildKnownRow(held.run) /\ Written(held.run)
         /\ held.id \in 1 .. Len(passed) /\ held.hash \in Range(passed)

ManifestKnown(m) == m.id \in 1 .. Len(passed) /\ m.hash \in Range(passed)

BuildKnown ==
    /\ specs \in Seq(TemplateName)
    /\ builds \in Seq(BuildRows) /\ Numbered(builds)
    /\ \A i \in DOMAIN builds : builds[i].status = "verified" => Written(builds[i])
    /\ files \in Seq(Workspaces) /\ Len(files) = Len(builds)
    /\ passed \in Seq(Contents)
    /\ \A m \in manifests : ManifestKnown(m)
    /\ Eligible /\ passed # <<>> => binding # 0

-----------------------------------------------------------------------------
(* The publication.                                                        *)

PublishKnownRow(r) ==
    /\ r \in PublishRows /\ r.id \in 1 .. Len(publishRuns)
    /\ r.hash \in Range(passed)
    /\ r.approved => r.hash \in consented

PublishInHand(here, held) ==
    /\ here = "plan_publish" => ManifestKnown(held)
    /\ here = "publish" => held.id \in 1 .. Len(publishRuns)
    /\ here = "approve_publish" => PublishKnownRow(held)
    /\ here \in {"inspect", "block", "send", "fail_publish", "mark_published",
                 "record_publication"} => PublishKnownRow(held.run)
    /\ here \in {"inspect", "send"} => held.run.approved
    /\ here = "send" => held.content = held.run.hash
    /\ here \in {"mark_published", "record_publication"} => site # {}
    /\ here = "launch" => publications # {}

PublishKnown ==
    /\ publishRuns \in Seq(PublishRows) /\ Numbered(publishRuns)
    /\ \A i \in DOMAIN publishRuns : PublishKnownRow(publishRuns[i])
    /\ consented \subseteq Range(passed)
    /\ site \subseteq consented
    /\ publications # {} => site # {}
    /\ stage = "launched" => publications # {}

-----------------------------------------------------------------------------

InHand(here, held) ==
    CheckoutInHand(here, held) /\ BuildInHand(here, held) /\ PublishInHand(here, held)

LaunchInv ==
    /\ at = [p \in Process |-> at[p]] /\ mine = [p \in Process |-> mine[p]]
    /\ CheckoutKnown /\ BuildKnown /\ PublishKnown
    /\ PlannersFew
    /\ \A p \in Process : InHand(at[p], mine[p])

-----------------------------------------------------------------------------
(* Rows.                                                                   *)

(* A set of indices has a least and a largest one.                         *)
LEMMA LeastIndex ==
  ASSUME NEW T \in SUBSET Nat, T # {}
  PROVE  Min(T) \in T /\ \A y \in T : Min(T) <= y
<1>1. PICK x \in T : \A y \in T : <<y, x>> \notin OpToRel(<, Nat)
  BY NatLessThanWellFounded, WFMin
<1>2. \A y \in T : <<y, x>> \notin OpToRel(<, Nat) => x <= y
  BY DEF OpToRel
<1>3. \A y \in T : x <= y
  BY <1>1, <1>2
<1> QED
  BY <1>3 DEF Min

LEMMA LargestIndex ==
  ASSUME NEW n \in Nat, NEW T \in SUBSET (1 .. n), T # {}
  PROVE  Max(T) \in T /\ \A y \in T : Max(T) >= y
<1> DEFINE below == {n - y : y \in T}
<1>1. below \in SUBSET Nat /\ below # {}
  <2>1. \A y \in 1 .. n : n - y \in Nat
    OBVIOUS
  <2> QED
    BY <2>1
<1> HIDE DEF below
<1>2. Min(below) \in below /\ \A z \in below : Min(below) <= z
  BY <1>1, LeastIndex
<1>3. PICK x \in T : Min(below) = n - x
  BY <1>2 DEF below
<1>4. \A y \in T : n - x <= n - y
  BY <1>2, <1>3 DEF below
<1>5. \A y \in T : x >= y
  BY <1>4
<1> QED
  BY <1>5 DEF Max

LEMMA FirstOfOne ==
  ASSUME NEW k \in Nat
  PROVE  Min({k}) = k
<1>1. Min({k}) \in {k}
  BY LeastIndex
<1> QED
  BY <1>1

(* The row with an id is one of the rows.                                  *)
LEMMA RowFound ==
  ASSUME NEW S, NEW rows \in Seq(S), Numbered(rows), NEW n \in 1 .. Len(rows)
  PROVE  RowOf(rows, n).id = n /\ \E i \in DOMAIN rows : RowOf(rows, n) = rows[i]
<1> DEFINE I == {i \in 1 .. Len(rows) : rows[i].id = n}
<1>1. Len(rows) \in Nat /\ DOMAIN rows = 1 .. Len(rows)
  BY LenProperties
<1>2. I # {} /\ I \in SUBSET Nat
  BY <1>1 DEF Numbered
<1> HIDE DEF I
<1>3. Min(I) \in I
  BY <1>2, LeastIndex
<1>4. RowOf(rows, n) = rows[Min(I)]
  BY <1>2 DEF RowOf, SelectInSeq, I
<1> QED
  BY <1>1, <1>3, <1>4 DEF I

(* A sequence without its kth element.                                     *)
LEMMA RemovedAt ==
  ASSUME NEW S, NEW rows \in Seq(S), NEW k \in 1 .. Len(rows)
  PROVE  /\ RemoveAt(rows, k) \in Seq(S)
         /\ Len(RemoveAt(rows, k)) = Len(rows) - 1
         /\ \A i \in 1 .. (Len(rows) - 1) :
               RemoveAt(rows, k)[i] = IF i < k THEN rows[i] ELSE rows[i + 1]
<1> DEFINE before == SubSeq(rows, 1, k - 1)
           after == SubSeq(rows, k + 1, Len(rows))
<1>1. Len(rows) \in Nat /\ k \in Nat /\ DOMAIN rows = 1 .. Len(rows)
  BY LenProperties
<1>2. /\ before \in Seq(S) /\ Len(before) = k - 1
      /\ \A i \in 1 .. (k - 1) : before[i] = rows[i]
  BY <1>1, SubSeqProperties
<1>3. /\ after \in Seq(S) /\ Len(after) = Len(rows) - k
      /\ \A i \in 1 .. (Len(rows) - k) : after[i] = rows[k + i]
  BY <1>1, SubSeqProperties
<1>4. RemoveAt(rows, k) = before \o after
  BY DEF RemoveAt
<1> HIDE DEF before, after
<1>5. /\ before \o after \in Seq(S)
      /\ Len(before \o after) = Len(rows) - 1
      /\ \A i \in 1 .. (Len(rows) - 1) :
            (before \o after)[i] = IF i <= k - 1 THEN before[i] ELSE after[i - (k - 1)]
  <2>1. Len(before) + Len(after) = Len(rows) - 1
    BY <1>1, <1>2, <1>3
  <2>2. /\ before \o after \in Seq(S)
        /\ Len(before \o after) = Len(before) + Len(after)
        /\ \A i \in 1 .. (Len(before) + Len(after)) :
              (before \o after)[i] = IF i <= Len(before) THEN before[i] ELSE after[i - Len(before)]
    BY <1>2, <1>3, ConcatProperties
  <2> QED
    BY <2>1, <2>2, <1>2
<1>6. ASSUME NEW i \in 1 .. (Len(rows) - 1)
      PROVE  (before \o after)[i] = IF i < k THEN rows[i] ELSE rows[i + 1]
  <2>1. CASE i < k
    BY <2>1, <1>1, <1>2, <1>5
  <2>2. CASE ~(i < k)
    <3>1. (before \o after)[i] = after[i - (k - 1)]
      BY <2>2, <1>1, <1>5
    <3>2. i - (k - 1) \in 1 .. (Len(rows) - k) /\ k + (i - (k - 1)) = i + 1
      BY <2>2, <1>1
    <3>3. after[i - (k - 1)] = rows[k + (i - (k - 1))]
      BY <3>2, <1>3
    <3> QED
      BY <2>2, <3>1, <3>2, <3>3
  <2> QED
    BY <2>1, <2>2
<1> QED
  BY <1>4, <1>5, <1>6

(* INSERT OR REPLACE keeps the numbering: a known id replaces its row, the *)
(* next id adds one.                                                       *)
LEMMA RowReplaced ==
  ASSUME NEW S, NEW rows \in Seq(S), Numbered(rows), NEW row \in S,
         row.id \in 1 .. Len(rows)
  PROVE  /\ Saved(rows, row) \in Seq(S) /\ Numbered(Saved(rows, row))
         /\ Len(Saved(rows, row)) = Len(rows)
         /\ \A i \in DOMAIN Saved(rows, row) :
               Saved(rows, row)[i] = row \/ \E j \in DOMAIN rows : Saved(rows, row)[i] = rows[j]
<1>1. PICK n \in Nat : n = Len(rows)
  BY LenProperties
<1>2. DOMAIN rows = 1 .. n
  BY <1>1, LenProperties
<1>0. /\ \A i \in 1 .. n : rows[i].id \in 1 .. n
      /\ \A m \in 1 .. n : \E i \in 1 .. n : rows[i].id = m
      /\ \A i, j \in 1 .. n : rows[i].id = rows[j].id => i = j
  BY <1>1, <1>2 DEF Numbered
<1>3. PICK k \in 1 .. n : rows[k].id = row.id
  BY <1>1, <1>2 DEF Numbered
<1>4. {i \in 1 .. Len(rows) : rows[i].id = row.id} = {k}
  BY <1>1, <1>2, <1>3 DEF Numbered
<1>5. SelectInSeq(rows, LAMBDA r : r.id = row.id) = k
  BY <1>4, FirstOfOne DEF SelectInSeq
<1>6. PICK rest : rest = RemoveAt(rows, k)
  OBVIOUS
<1>7. PICK new : new = Append(rest, row)
  OBVIOUS
<1>8. Saved(rows, row) = new
  BY <1>1, <1>3, <1>5, <1>6, <1>7 DEF Saved, RemoveFirstMatch
<1>9. /\ rest \in Seq(S) /\ Len(rest) = n - 1
      /\ \A i \in 1 .. (n - 1) : rest[i] = IF i < k THEN rows[i] ELSE rows[i + 1]
  BY <1>1, <1>6, RemovedAt
<1>10. /\ new \in Seq(S) /\ Len(new) = n /\ DOMAIN new = 1 .. n
       /\ \A i \in 1 .. (n - 1) : new[i] = IF i < k THEN rows[i] ELSE rows[i + 1]
       /\ new[n] = row
  BY <1>7, <1>9, AppendProperties, LenProperties
<1>11. ASSUME NEW i \in 1 .. n PROVE new[i].id \in 1 .. n
  <2>1. CASE i = n
    BY <2>1, <1>1, <1>10
  <2>2. CASE i < k /\ i # n
    <3>1. new[i] = rows[i] /\ i \in 1 .. n
      BY <2>2, <1>10
    <3> QED
      BY <3>1, <1>0
  <2>3. CASE ~(i < k) /\ i # n
    <3>1. new[i] = rows[i + 1] /\ i + 1 \in 1 .. n
      BY <2>3, <1>10
    <3> QED
      BY <3>1, <1>0
  <2> QED
    BY <2>1, <2>2, <2>3
<1>12. ASSUME NEW m \in 1 .. n PROVE \E i \in DOMAIN new : new[i].id = m
  <2>1. PICK j \in 1 .. n : rows[j].id = m
    BY <1>1, <1>2 DEF Numbered
  <2>2. CASE j < k
    BY <2>1, <2>2, <1>10
  <2>3. CASE j = k
    BY <2>1, <2>3, <1>3, <1>10
  <2>4. CASE j > k
    <3>1. j - 1 \in 1 .. (n - 1) /\ ~(j - 1 < k) /\ (j - 1) + 1 = j
      BY <2>4
    <3>2. new[j - 1] = rows[j]
      BY <3>1, <1>10
    <3> QED
      BY <2>1, <3>1, <3>2, <1>10
  <2> QED
    BY <2>2, <2>3, <2>4
<1>13. ASSUME NEW i \in 1 .. n, NEW j \in 1 .. n, new[i].id = new[j].id PROVE i = j
  <2> DEFINE was(x) == IF x = n THEN k ELSE IF x < k THEN x ELSE x + 1
  <2>1. was(i) \in 1 .. n /\ was(j) \in 1 .. n
    OBVIOUS
  <2>2. rows[was(i)].id = new[i].id /\ rows[was(j)].id = new[j].id
    BY <1>3, <1>10
  <2> HIDE DEF was
  <2>3. was(i) = was(j)
    BY <2>1, <2>2, <1>0, <1>13
  <2> QED
    BY <2>3 DEF was
<1>14. Numbered(new)
  BY <1>10, <1>11, <1>12, <1>13 DEF Numbered
<1>15. ASSUME NEW i \in 1 .. n PROVE new[i] = row \/ \E j \in 1 .. n : new[i] = rows[j]
  <2>1. CASE i = n
    BY <2>1, <1>10
  <2>2. CASE i # n
    <3>1. i \in 1 .. (n - 1) /\ i + 1 \in 1 .. n
      BY <2>2
    <3> QED
      BY <3>1, <1>10
  <2> QED
    BY <2>1, <2>2
<1> QED
  BY <1>1, <1>2, <1>8, <1>10, <1>14, <1>15

LEMMA RowAdded ==
  ASSUME NEW S, NEW rows \in Seq(S), Numbered(rows), NEW row \in S,
         row.id = Len(rows) + 1
  PROVE  /\ Saved(rows, row) \in Seq(S) /\ Numbered(Saved(rows, row))
         /\ Len(Saved(rows, row)) = Len(rows) + 1
         /\ \A i \in DOMAIN Saved(rows, row) :
               Saved(rows, row)[i] = row \/ \E j \in DOMAIN rows : Saved(rows, row)[i] = rows[j]
<1>1. PICK n \in Nat : n = Len(rows)
  BY LenProperties
<1>2. DOMAIN rows = 1 .. n
  BY <1>1, LenProperties
<1>0. /\ \A i \in 1 .. n : rows[i].id \in 1 .. n
      /\ \A m \in 1 .. n : \E i \in 1 .. n : rows[i].id = m
      /\ \A i, j \in 1 .. n : rows[i].id = rows[j].id => i = j
  BY <1>1, <1>2 DEF Numbered
<1>3. ~\E i \in 1 .. Len(rows) : rows[i].id = row.id
  BY <1>1, <1>2 DEF Numbered
<1>4. Saved(rows, row) = Append(rows, row)
  BY <1>3 DEF Saved, RemoveFirstMatch
<1>5. PICK new : new = Append(rows, row)
  OBVIOUS
<1>6. /\ new \in Seq(S) /\ Len(new) = n + 1 /\ DOMAIN new = 1 .. (n + 1)
      /\ \A i \in 1 .. n : new[i] = rows[i]
      /\ new[n + 1] = row
  BY <1>1, <1>5, AppendProperties, LenProperties
<1>7. \A i \in 1 .. n : rows[i].id \in 1 .. n
  BY <1>1, <1>2 DEF Numbered
<1>8. \A i \in 1 .. (n + 1) : i = n + 1 \/ i \in 1 .. n
  OBVIOUS
<1>9. \A i \in 1 .. (n + 1) : new[i].id \in 1 .. (n + 1)
  BY <1>1, <1>6, <1>7, <1>8
<1>10. \A m \in 1 .. (n + 1) : \E i \in 1 .. (n + 1) : new[i].id = m
  <2> TAKE m \in 1 .. (n + 1)
  <2>1. CASE m = n + 1
    BY <2>1, <1>1, <1>6, <1>8
  <2>2. CASE m \in 1 .. n
    <3>1. PICK i \in 1 .. n : rows[i].id = m
      BY <2>2, <1>0
    <3> QED
      BY <3>1, <1>6
  <2> QED
    BY <2>1, <2>2
<1>11. \A i, j \in 1 .. (n + 1) : new[i].id = new[j].id => i = j
  <2>1. \A i \in 1 .. n : new[i].id # n + 1
    BY <1>6, <1>7
  <2>2. \A i, j \in 1 .. n : new[i].id = new[j].id => i = j
    BY <1>0, <1>6
  <2> QED
    BY <2>1, <2>2, <1>1, <1>6, <1>8
<1>12. Numbered(new)
  BY <1>6, <1>9, <1>10, <1>11 DEF Numbered
<1>13. \A i \in DOMAIN new : new[i] = row \/ \E j \in DOMAIN rows : new[i] = rows[j]
  BY <1>2, <1>6, <1>8
<1> QED
  BY <1>1, <1>4, <1>5, <1>6, <1>12, <1>13

-----------------------------------------------------------------------------
(* What is known stays known.                                              *)

CheckoutGrows ==
    /\ sells' = sells
    /\ planned' \in Nat /\ planned <= planned'
    /\ allowed \subseteq allowed' /\ links \subseteq links'
    /\ binding # 0 => binding' # 0
    /\ \A j \in DOMAIN sessions : j \in DOMAIN sessions' /\ sessions'[j] = sessions[j]

BuildGrows ==
    /\ Len(builds') \in Nat /\ Len(builds) <= Len(builds')
    /\ \A r \in 1 .. Len(builds) : DOMAIN files[r] \subseteq DOMAIN files'[r]
    /\ Len(passed') \in Nat /\ Len(passed) <= Len(passed')
    /\ Range(passed) \subseteq Range(passed')

PublishGrows ==
    /\ Len(publishRuns') \in Nat /\ Len(publishRuns) <= Len(publishRuns')
    /\ consented \subseteq consented'
    /\ site \subseteq site' /\ publications \subseteq publications'

CheckoutKept == [CheckoutGate!GateNext]_(CheckoutGate!gateVars)
PublicationKept == [PublicationGate!GateNext]_(PublicationGate!gateVars)

LEMMA Lengths ==
  ASSUME LaunchInv
  PROVE  /\ Len(builds) \in Nat /\ Len(passed) \in Nat /\ Len(publishRuns) \in Nat
         /\ Len(specs) \in Nat /\ Len(sessions) \in Nat
         /\ DOMAIN builds = 1 .. Len(builds) /\ DOMAIN files = 1 .. Len(builds)
         /\ DOMAIN passed = 1 .. Len(passed) /\ DOMAIN publishRuns = 1 .. Len(publishRuns)
         /\ DOMAIN sessions = 1 .. Len(sessions)
BY LenProperties DEF LaunchInv, CheckoutKnown, BuildKnown, PublishKnown

LEMMA CheckoutHandStays ==
  ASSUME LaunchInv, CheckoutGrows, NEW here, NEW held, CheckoutInHand(here, held)
  PROVE  CheckoutInHand(here, held)'
<1>1. ASSUME CheckoutKnownRow(held) PROVE CheckoutKnownRow(held)'
  BY <1>1 DEF CheckoutKnownRow, CheckoutRow, CheckoutGrows, LaunchInv, CheckoutKnown
<1>2. ASSUME \E j \in DOMAIN sessions : sessions[j] = held
      PROVE  \E j \in DOMAIN sessions' : sessions'[j] = held
  BY <1>2 DEF CheckoutGrows
<1>3. held.id \in links => held.id \in links'
  BY DEF CheckoutGrows
<1> QED
  BY <1>1, <1>2, <1>3 DEF CheckoutInHand

LEMMA BuildRowStays ==
  ASSUME LaunchInv, BuildGrows, NEW r, BuildKnownRow(r)
  PROVE  BuildKnownRow(r)' /\ (Written(r) => Written(r)')
<1>1. BuildKnownRow(r)'
  BY Lengths DEF BuildKnownRow, BuildGrows
<1>2. DOMAIN files[r.id] \subseteq DOMAIN files'[r.id]
  BY DEF BuildKnownRow, BuildGrows
<1> QED
  BY <1>1, <1>2 DEF Written

LEMMA BuildHandStays ==
  ASSUME LaunchInv, CheckoutGrows, BuildGrows, NEW here, NEW held, BuildInHand(here, held)
  PROVE  BuildInHand(here, held)'
<1>1. Eligible' = Eligible /\ (binding # 0 => binding' # 0)
  BY DEF Eligible, CheckoutGrows
<1>2. BuildKnownRow(held) => BuildKnownRow(held)' /\ (Written(held) => Written(held)')
  BY BuildRowStays
<1>3. BuildKnownRow(held.run) => BuildKnownRow(held.run)' /\ (Written(held.run) => Written(held.run)')
  BY BuildRowStays
<1>4. BuildKnownRow(held.run) /\ held.id = held.run.id => DOMAIN files[held.id] \subseteq DOMAIN files'[held.id]
  BY DEF BuildKnownRow, BuildGrows
<1>5. /\ held.id \in 1 .. Len(passed) => held.id \in 1 .. Len(passed')
      /\ held.hash \in Range(passed) => held.hash \in Range(passed')
  BY Lengths DEF BuildGrows
<1> QED
  BY <1>1, <1>2, <1>3, <1>4, <1>5 DEF BuildInHand

LEMMA ManifestStays ==
  ASSUME LaunchInv, BuildGrows, NEW m, ManifestKnown(m)
  PROVE  ManifestKnown(m)'
BY Lengths DEF ManifestKnown, BuildGrows

LEMMA PublishRowStays ==
  ASSUME LaunchInv, BuildGrows, PublishGrows, NEW r, PublishKnownRow(r)
  PROVE  PublishKnownRow(r)'
BY Lengths DEF PublishKnownRow, BuildGrows, PublishGrows

LEMMA PublishHandStays ==
  ASSUME LaunchInv, BuildGrows, PublishGrows, NEW here, NEW held, PublishInHand(here, held)
  PROVE  PublishInHand(here, held)'
<1>1. ManifestKnown(held) => ManifestKnown(held)'
  BY ManifestStays
<1>2. PublishKnownRow(held) => PublishKnownRow(held)'
  BY PublishRowStays
<1>3. PublishKnownRow(held.run) => PublishKnownRow(held.run)'
  BY PublishRowStays
<1>4. /\ held.id \in 1 .. Len(publishRuns) => held.id \in 1 .. Len(publishRuns')
      /\ site # {} => site' # {}
      /\ publications # {} => publications' # {}
  BY Lengths DEF PublishGrows
<1> QED
  BY <1>1, <1>2, <1>3, <1>4 DEF PublishInHand

-----------------------------------------------------------------------------
(* The planners of a checkout run.                                         *)

\* A process comes to plan a run only where there is none, and plans it once.
Planning(p, here) ==
    \/ planned' = planned /\ (here = "plan_run" => planned = 0)
    \/ planned' = planned + 1 /\ at[p] = "plan_run" /\ here # "plan_run"

LEMMA PlannersStayFew ==
  ASSUME LaunchInv, NEW p \in Process, NEW here,
         at' = [at EXCEPT ![p] = here], Planning(p, here)
  PROVE  PlannersFew'
<1>1. IsFiniteSet(Process) /\ IsFiniteSet(Planners) /\ IsFiniteSet(Planners')
  BY CheckoutAssumption, FS_Subset DEF Planners
<1>2. /\ Cardinality(Process) \in Nat /\ Cardinality(Planners) \in Nat
      /\ Cardinality(Planners') \in Nat
  BY <1>1, FS_CardinalityType
<1>4. here # "plan_run" => Planners' \subseteq Planners \ {p}
  BY DEF LaunchInv, Planners
<1>5. planned \in Nat /\ planned + Cardinality(Planners) <= Cardinality(Process)
  BY DEF LaunchInv, CheckoutKnown, PlannersFew
<1>6. CASE here = "plan_run"
  <2>1. planned' = 0
    BY <1>6, <1>5 DEF Planning
  <2>2. Cardinality(Planners') <= Cardinality(Process)
    BY <1>1, FS_Subset DEF Planners
  <2> QED
    BY <2>1, <2>2, <1>2 DEF PlannersFew
<1>7. CASE here # "plan_run" /\ planned' = planned
  <2>1. Cardinality(Planners') <= Cardinality(Planners)
    BY <1>1, <1>4, <1>7, FS_Subset
  <2> QED
    BY <2>1, <1>2, <1>5, <1>7 DEF PlannersFew
<1>8. CASE here # "plan_run" /\ planned' = planned + 1 /\ at[p] = "plan_run"
  <2>1. p \in Planners
    BY <1>8 DEF Planners
  <2>2. IsFiniteSet(Planners \ {p}) /\ Cardinality(Planners \ {p}) = Cardinality(Planners) - 1
    BY <2>1, <1>1, FS_RemoveElement
  <2>3. Cardinality(Planners') <= Cardinality(Planners \ {p})
    BY <2>2, <1>4, <1>8, FS_Subset
  <2> QED
    BY <2>2, <2>3, <1>2, <1>5, <1>8 DEF PlannersFew
<1> QED
  BY <1>6, <1>7, <1>8 DEF Planning

-----------------------------------------------------------------------------
(* A step of one process: what is left to show is what it changes.         *)

LEMMA StepKeeps ==
  ASSUME LaunchInv, CheckoutGrows, BuildGrows, PublishGrows,
         CheckoutKnown', BuildKnown', PublishKnown',
         NEW p \in Process, NEW here, NEW held,
         at' = [at EXCEPT ![p] = here], mine' = [mine EXCEPT ![p] = held],
         InHand(here, held)', Planning(p, here)
  PROVE  LaunchInv'
<1>1. at' = [q \in Process |-> at'[q]] /\ mine' = [q \in Process |-> mine'[q]]
  BY DEF LaunchInv
<1>2. ASSUME NEW q \in Process PROVE InHand(at[q], mine[q])'
  <2>1. CASE q = p
    <3>1. at'[q] = here /\ mine'[q] = held
      BY <2>1 DEF LaunchInv
    <3> QED
      BY <3>1
  <2>2. CASE q # p
    <3>1. at'[q] = at[q] /\ mine'[q] = mine[q]
      BY <2>2 DEF LaunchInv
    <3>2. PICK a, h : a = at[q] /\ h = mine[q]
      OBVIOUS
    <3>3. InHand(a, h)
      BY <3>2 DEF LaunchInv
    <3>4. InHand(a, h)'
      BY <3>3, CheckoutHandStays, BuildHandStays, PublishHandStays DEF InHand
    <3> QED
      BY <3>1, <3>2, <3>4
  <2> QED
    BY <2>1, <2>2
<1>3. PlannersFew'
  BY PlannersStayFew
<1> QED
  BY <1>1, <1>2, <1>3 DEF LaunchInv

\* The steps of the three parts. At a free one a process holds nothing that
\* matters.
Free == {"idle", "prebuild", "build", "prepare", "publication", "poll", "insert_offer",
         "read_run", "ask"}
CheckoutSteps == Free \cup
    {"plan_run", "read_binding", "recover", "create", "fail_run", "read_bound",
     "insert_binding", "activate", "approve_run", "read_revenue", "insert_revenue"}
BuildSteps == Free \cup Building
PublishSteps == Free \cup
    {"plan_publish", "publish", "approve_publish", "inspect", "block", "send", "fail_publish",
     "mark_published", "record_publication", "launch"}

LEMMA FreeHand ==
  ASSUME NEW here \in Free, NEW held
  PROVE  InHand(here, held)'
BY DEF Free, InHand, CheckoutInHand, BuildInHand, PublishInHand, Building

LEMMA CheckoutStill ==
  ASSUME LaunchInv, UNCHANGED <<sells, checkoutVars, paymentVars>>
  PROVE  CheckoutGrows /\ CheckoutKnown' /\ CheckoutKept
<1>1. CheckoutGrows
  BY DEF LaunchInv, CheckoutKnown, CheckoutGrows, checkoutVars, paymentVars
<1>2. CheckoutKnown'
  BY DEF LaunchInv, CheckoutKnown, CheckoutKnownRow, Earned, checkoutVars, paymentVars
<1>3. CheckoutKept
  BY DEF CheckoutKept, CheckoutGate!gateVars, checkoutVars
<1> QED
  BY <1>1, <1>2, <1>3

LEMMA BuildStill ==
  ASSUME LaunchInv, CheckoutGrows, UNCHANGED buildVars
  PROVE  BuildGrows /\ BuildKnown'
<1>1. BuildGrows
  BY Lengths DEF BuildGrows, buildVars
<1>2. Eligible' /\ passed' # <<>> => binding' # 0
  BY DEF LaunchInv, BuildKnown, Eligible, CheckoutGrows, buildVars
<1>3. \A i \in DOMAIN builds' : builds'[i].status = "verified" => Written(builds[i])'
  BY DEF LaunchInv, BuildKnown, Written, buildVars
<1>4. \A m \in manifests' : ManifestKnown(m)'
  BY DEF LaunchInv, BuildKnown, ManifestKnown, buildVars
<1> QED
  BY <1>1, <1>2, <1>3, <1>4 DEF LaunchInv, BuildKnown, Numbered, buildVars

LEMMA PublishStill ==
  ASSUME LaunchInv, BuildGrows, UNCHANGED publishVars, stage' # "launched" \/ stage' = stage
  PROVE  PublishGrows /\ PublishKnown'
<1>1. PublishGrows
  BY Lengths DEF PublishGrows, publishVars
<1>2. \A i \in DOMAIN publishRuns' : PublishKnownRow(publishRuns[i])'
  <2>1. ASSUME NEW i \in DOMAIN publishRuns PROVE PublishKnownRow(publishRuns[i])'
    <3>1. PICK r : r = publishRuns[i]
      OBVIOUS
    <3>2. PublishKnownRow(r)'
      BY <3>1, <1>1, PublishRowStays DEF LaunchInv, PublishKnown
    <3> QED
      BY <3>1, <3>2 DEF publishVars
  <2> QED
    BY <2>1 DEF publishVars
<1>3. consented' \subseteq Range(passed')
  BY DEF LaunchInv, PublishKnown, BuildGrows, publishVars
<1> QED
  BY <1>1, <1>2, <1>3 DEF LaunchInv, PublishKnown, Numbered, publishVars

LEMMA PublicationIdle ==
  ASSUME UNCHANGED <<passed, publishVars>>
  PROVE  PublicationKept
BY DEF PublicationKept, PublicationGate!gateVars, publishVars, Range

\* The step of a process on the checkout,
CheckoutMove(p) ==
    /\ CheckoutGrows /\ CheckoutKnown' /\ CheckoutKept
    /\ \E here \in CheckoutSteps : \E held :
         /\ at' = [at EXCEPT ![p] = here] /\ mine' = [mine EXCEPT ![p] = held]
         /\ CheckoutInHand(here, held)' /\ Planning(p, here)

LEMMA CheckoutMoveKeeps ==
  ASSUME LaunchInv, NEW p \in Process, CheckoutMove(p), UNCHANGED <<stage, buildVars, publishVars>>
  PROVE  LaunchInv' /\ CheckoutKept /\ PublicationKept
<1>1. PICK here \in CheckoutSteps : \E held :
         /\ at' = [at EXCEPT ![p] = here] /\ mine' = [mine EXCEPT ![p] = held]
         /\ CheckoutInHand(here, held)' /\ Planning(p, here)
  BY DEF CheckoutMove
<1>2. PICK held :
         /\ at' = [at EXCEPT ![p] = here] /\ mine' = [mine EXCEPT ![p] = held]
         /\ CheckoutInHand(here, held)' /\ Planning(p, here)
  BY <1>1
<1>3. InHand(here, held)'
  BY <1>2 DEF CheckoutSteps, Free, InHand, BuildInHand, PublishInHand, Building
<1>4. BuildGrows /\ BuildKnown'
  BY BuildStill DEF CheckoutMove
<1>5. PublishGrows /\ PublishKnown'
  BY <1>4, PublishStill
<1>6. LaunchInv'
  BY <1>2, <1>3, <1>4, <1>5, StepKeeps DEF CheckoutMove
<1> QED
  BY <1>6, PublicationIdle DEF CheckoutMove, buildVars

\* on the build,
BuildMove(p) ==
    /\ BuildGrows /\ BuildKnown' /\ PublicationKept
    /\ stage' # "launched" \/ stage' = stage
    /\ \E here \in BuildSteps : \E held :
         /\ at' = [at EXCEPT ![p] = here] /\ mine' = [mine EXCEPT ![p] = held]
         /\ BuildInHand(here, held)'

LEMMA BuildMoveKeeps ==
  ASSUME LaunchInv, NEW p \in Process, BuildMove(p),
         UNCHANGED <<sells, checkoutVars, paymentVars, publishVars>>
  PROVE  LaunchInv' /\ CheckoutKept /\ PublicationKept
<1>1. PICK here \in BuildSteps : \E held :
         /\ at' = [at EXCEPT ![p] = here] /\ mine' = [mine EXCEPT ![p] = held]
         /\ BuildInHand(here, held)'
  BY DEF BuildMove
<1>2. PICK held :
         /\ at' = [at EXCEPT ![p] = here] /\ mine' = [mine EXCEPT ![p] = held]
         /\ BuildInHand(here, held)'
  BY <1>1
<1>3. InHand(here, held)'
  BY <1>2 DEF BuildSteps, Free, InHand, CheckoutInHand, PublishInHand, Building
<1>4. CheckoutGrows /\ CheckoutKnown' /\ CheckoutKept
  BY CheckoutStill
<1>5. PublishGrows /\ PublishKnown'
  BY PublishStill DEF BuildMove
<1>6. Planning(p, here)
  BY DEF Planning, BuildSteps, Free, Building, checkoutVars
<1>7. LaunchInv'
  BY <1>2, <1>3, <1>4, <1>5, <1>6, StepKeeps DEF BuildMove
<1> QED
  BY <1>4, <1>7 DEF BuildMove

\* and on the publication.
PublishMove(p) ==
    /\ PublishGrows /\ PublishKnown' /\ PublicationKept
    /\ \E here \in PublishSteps : \E held :
         /\ at' = [at EXCEPT ![p] = here] /\ mine' = [mine EXCEPT ![p] = held]
         /\ PublishInHand(here, held)'

LEMMA PublishMoveKeeps ==
  ASSUME LaunchInv, NEW p \in Process, PublishMove(p),
         UNCHANGED <<sells, checkoutVars, paymentVars, buildVars>>
  PROVE  LaunchInv' /\ CheckoutKept /\ PublicationKept
<1>1. PICK here \in PublishSteps : \E held :
         /\ at' = [at EXCEPT ![p] = here] /\ mine' = [mine EXCEPT ![p] = held]
         /\ PublishInHand(here, held)'
  BY DEF PublishMove
<1>2. PICK held :
         /\ at' = [at EXCEPT ![p] = here] /\ mine' = [mine EXCEPT ![p] = held]
         /\ PublishInHand(here, held)'
  BY <1>1
<1>3. InHand(here, held)'
  BY <1>2 DEF PublishSteps, Free, InHand, CheckoutInHand, BuildInHand, Building
<1>4. CheckoutGrows /\ CheckoutKnown' /\ CheckoutKept
  BY CheckoutStill
<1>5. BuildGrows /\ BuildKnown'
  BY <1>4, BuildStill
<1>6. Planning(p, here)
  BY DEF Planning, PublishSteps, Free, checkoutVars
<1>7. LaunchInv'
  BY <1>2, <1>3, <1>4, <1>5, <1>6, StepKeeps DEF PublishMove
<1> QED
  BY <1>4, <1>7 DEF PublishMove

-----------------------------------------------------------------------------
(* Where a process goes.                                                   *)

LEMMA HandKept ==
  ASSUME LaunchInv, NEW p \in Process, UNCHANGED mine
  PROVE  mine' = [mine EXCEPT ![p] = mine[p]]
BY DEF LaunchInv

FreeMove(p) ==
    \E here \in Free : \E held : at' = [at EXCEPT ![p] = here] /\ mine' = [mine EXCEPT ![p] = held]

LEMMA GoesFree ==
  ASSUME LaunchInv, NEW p \in Process, NEW here \in Free, Go(p, here), UNCHANGED mine
  PROVE  FreeMove(p)
BY HandKept DEF Go, FreeMove

LEMMA StopsFree ==
  ASSUME NEW p \in Process, Stop(p)
  PROVE  FreeMove(p)
BY DEF Stop, Go, Hold, FreeMove, Free

LEMMA ProceedsFree ==
  ASSUME NEW p \in Process, Proceed(p)
  PROVE  FreeMove(p)
BY StopsFree DEF Proceed, Go, Hold, FreeMove, Free

\* A step of the checkout after which the process holds nothing that matters,
LEMMA CheckoutFree ==
  ASSUME NEW p \in Process, FreeMove(p), planned' = planned,
         CheckoutGrows, CheckoutKnown', CheckoutKept
  PROVE  CheckoutMove(p)
<1>1. PICK here \in Free : \E held :
         at' = [at EXCEPT ![p] = here] /\ mine' = [mine EXCEPT ![p] = held]
  BY DEF FreeMove
<1>2. \A held : CheckoutInHand(here, held)'
  BY DEF Free, CheckoutInHand
<1>3. here \in CheckoutSteps /\ Planning(p, here)
  BY DEF CheckoutSteps, Planning, Free
<1> QED
  BY <1>1, <1>2, <1>3 DEF CheckoutMove

\* and one after which it goes on to here with the row that it has.
LEMMA CheckoutGoes ==
  ASSUME LaunchInv, NEW p \in Process, NEW here \in CheckoutSteps, NEW held,
         at' = [at EXCEPT ![p] = here], mine' = [mine EXCEPT ![p] = held],
         CheckoutInHand(here, held), here = "plan_run" => planned = 0,
         planned' = planned, CheckoutGrows, CheckoutKnown', CheckoutKept
  PROVE  CheckoutMove(p)
<1>1. CheckoutInHand(here, held)'
  BY CheckoutHandStays
<1>2. Planning(p, here)
  BY DEF Planning
<1> QED
  BY <1>1, <1>2 DEF CheckoutMove

-----------------------------------------------------------------------------
(* The checkout's steps.                                                   *)

LEMMA EnsureOfferMoves ==
  ASSUME LaunchInv, NEW p \in Process, EnsureOffer(p)
  PROVE  CheckoutMove(p)
<1>1. CheckoutGrows /\ CheckoutKnown' /\ CheckoutKept /\ planned' = planned
  BY CheckoutStill DEF EnsureOffer, checkoutVars
<1>2. \/ Proceed(p) \/ Stop(p)
      \/ (Go(p, "read_run") \/ Go(p, "insert_offer")) /\ UNCHANGED mine
  BY DEF EnsureOffer
<1>3. FreeMove(p)
  <2>1. "read_run" \in Free /\ "insert_offer" \in Free
    BY DEF Free
  <2> QED
    BY <2>1, <1>2, ProceedsFree, StopsFree, GoesFree
<1> QED
  BY <1>1, <1>3, CheckoutFree

LEMMA InsertOfferMoves ==
  ASSUME LaunchInv, NEW p \in Process, InsertOffer(p)
  PROVE  CheckoutMove(p)
<1>1. UNCHANGED <<sells, checkout, planned, binding, links, allowed, paymentVars>>
  BY DEF InsertOffer
<1>2. CheckoutGrows
  BY <1>1 DEF CheckoutGrows, LaunchInv, CheckoutKnown, paymentVars
<1>3. CheckoutKnown'
  BY <1>1 DEF LaunchInv, CheckoutKnown, CheckoutKnownRow, Earned, paymentVars
<1>4. CheckoutKept
  BY <1>1 DEF CheckoutKept, CheckoutGate!gateVars
<1>5. FreeMove(p)
  <2>1. "read_run" \in Free
    BY DEF Free
  <2> QED
    BY <2>1, StopsFree, GoesFree DEF InsertOffer
<1> QED
  BY <1>1, <1>2, <1>3, <1>4, <1>5, CheckoutFree

\* A run is planned only where there is none.
LEMMA ReadRunMoves ==
  ASSUME LaunchInv, NEW p \in Process, ReadRun(p)
  PROVE  CheckoutMove(p)
<1>1. CheckoutGrows /\ CheckoutKnown' /\ CheckoutKept /\ planned' = planned
  BY CheckoutStill DEF ReadRun, checkoutVars
<1>2. CASE checkout # NoRow
  <2>1. at' = [at EXCEPT ![p] = "read_binding"] /\ mine' = [mine EXCEPT ![p] = checkout]
    BY <1>2 DEF ReadRun, Go, Hold
  <2>2. PICK held : held = checkout
    OBVIOUS
  <2>3. CheckoutInHand("read_binding", held)
    BY <1>2, <2>2 DEF LaunchInv, CheckoutKnown, CheckoutInHand
  <2> QED
    BY <1>1, <2>1, <2>2, <2>3, CheckoutGoes DEF CheckoutSteps
<1>3. CASE checkout = NoRow
  <2>1. at' = [at EXCEPT ![p] = "plan_run"] /\ mine' = [mine EXCEPT ![p] = mine[p]]
    BY <1>3, HandKept DEF ReadRun, Go
  <2>2. PICK held : held = mine[p]
    OBVIOUS
  <2>3. CheckoutInHand("plan_run", held) /\ planned = 0
    BY <1>3 DEF LaunchInv, CheckoutKnown, CheckoutInHand
  <2> QED
    BY <1>1, <2>1, <2>2, <2>3, CheckoutGoes DEF CheckoutSteps
<1> QED
  BY <1>2, <1>3

\* The number of a planned run is at most the number of processes.
LEMMA PlanRunMoves ==
  ASSUME LaunchInv, NEW p \in Process, PlanRun(p)
  PROVE  CheckoutMove(p)
<1>0. PICK run : run = [id |-> planned + 1, status |-> "waiting_approval", approved |-> FALSE]
  OBVIOUS
<1>1. /\ at[p] = "plan_run" /\ planned' = planned + 1 /\ checkout' = run
      /\ at' = [at EXCEPT ![p] = "read_binding"] /\ mine' = [mine EXCEPT ![p] = run]
      /\ UNCHANGED <<sells, offer, binding, links, allowed, paymentVars>>
  BY <1>0 DEF PlanRun, SaveRun, Hold, Go
<1>2. planned \in Nat
  BY DEF LaunchInv, CheckoutKnown
<1>3. run \in CheckoutRow /\ run # NoRow /\ run.id = planned + 1 /\ ~run.approved
  BY <1>0, <1>2 DEF CheckoutRow, CheckoutStatus, NoRow
<1>4. CheckoutKnownRow(run)'
  BY <1>1, <1>2, <1>3 DEF CheckoutKnownRow
<1>5. CheckoutGrows
  BY <1>1, <1>2 DEF CheckoutGrows, paymentVars
<1>6. CheckoutKnown'
  <2>1. CheckoutKnownRow(checkout)' /\ checkout' # NoRow
    BY <1>1, <1>3, <1>4 DEF CheckoutKnownRow
  <2>2. allowed' \subseteq 1 .. planned'
    BY <1>1, <1>2 DEF LaunchInv, CheckoutKnown
  <2> QED
    BY <2>1, <2>2, <1>1, <1>2 DEF LaunchInv, CheckoutKnown, Earned, paymentVars
<1>7. planned + 1 \in 1 .. Cardinality(Process)
  <2>1. IsFiniteSet(Planners) /\ p \in Planners
    BY <1>1, CheckoutAssumption, FS_Subset DEF Planners
  <2>2. Cardinality(Planners) \in Nat /\ Cardinality(Planners) # 0
    BY <2>1, FS_CardinalityType, FS_EmptySet
  <2>3. Cardinality(Process) \in Nat
    BY CheckoutAssumption, FS_CardinalityType
  <2> QED
    BY <2>2, <2>3, <1>2 DEF LaunchInv, PlannersFew
<1>8. CheckoutKept
  <2>1. 1 .. planned' = (1 .. planned) \cup {planned + 1} /\ planned + 1 \notin 1 .. planned
    BY <1>1, <1>2
  <2>2. CheckoutGate!Examine
    BY <2>1, <1>1, <1>7 DEF CheckoutGate!Examine
  <2> QED
    BY <2>2 DEF CheckoutKept, CheckoutGate!GateNext
<1>9. CheckoutInHand("read_binding", run)' /\ Planning(p, "read_binding")
  BY <1>1, <1>4 DEF CheckoutInHand, Planning
<1> QED
  BY <1>1, <1>5, <1>6, <1>8, <1>9 DEF CheckoutMove, CheckoutSteps

LEMMA ReadBindingMoves ==
  ASSUME LaunchInv, NEW p \in Process, ReadBinding(p)
  PROVE  CheckoutMove(p)
<1>1. CheckoutGrows /\ CheckoutKnown' /\ CheckoutKept /\ planned' = planned
  BY CheckoutStill DEF ReadBinding, checkoutVars
<1>2. \/ Proceed(p) \/ Stop(p)
      \/ Go(p, "recover") /\ UNCHANGED mine
      \/ Go(p, "create") /\ UNCHANGED mine /\ mine[p].approved
  BY DEF ReadBinding
<1>3. PICK held : held = mine[p]
  OBVIOUS
<1>4. CheckoutKnownRow(held)
  BY <1>3 DEF LaunchInv, InHand, CheckoutInHand, ReadBinding
<1>5. CASE Proceed(p) \/ Stop(p)
  BY <1>1, <1>5, ProceedsFree, StopsFree, CheckoutFree
<1>6. CASE Go(p, "recover") /\ UNCHANGED mine
  <2>1. CheckoutInHand("recover", held)
    BY <1>4 DEF CheckoutInHand
  <2> QED
    BY <2>1, <1>1, <1>3, <1>6, HandKept, CheckoutGoes DEF Go, CheckoutSteps
<1>7. CASE Go(p, "create") /\ UNCHANGED mine /\ mine[p].approved
  <2>1. CheckoutInHand("create", held)
    BY <1>3, <1>4, <1>7 DEF CheckoutInHand
  <2> QED
    BY <2>1, <1>1, <1>3, <1>7, HandKept, CheckoutGoes DEF Go, CheckoutSteps
<1> QED
  BY <1>2, <1>5, <1>6, <1>7

\* The row of a known run is replaced by one that says no more of it.
LEMMA StatusSaved ==
  ASSUME LaunchInv, NEW p \in Process, CheckoutKnownRow(mine[p]),
         NEW status \in CheckoutStatus, SaveStatus(p, status),
         UNCHANGED <<sells, planned, binding, links, allowed, paymentVars>>
  PROVE  CheckoutGrows /\ CheckoutKnown' /\ CheckoutKept
<1>1. PICK r : r = [mine[p] EXCEPT !.status = status]
  OBVIOUS
<1>2. CheckoutKnownRow(r) /\ r # NoRow
  BY <1>1 DEF CheckoutKnownRow, CheckoutRow, NoRow
<1>3. CheckoutKnownRow(checkout)' /\ checkout' # NoRow
  BY <1>1, <1>2 DEF SaveStatus, SaveRun, CheckoutKnownRow
<1>4. CheckoutGrows
  BY DEF CheckoutGrows, LaunchInv, CheckoutKnown, paymentVars
<1>5. CheckoutKnown'
  BY <1>3 DEF LaunchInv, CheckoutKnown, Earned, paymentVars
<1>6. CheckoutKept
  BY DEF CheckoutKept, CheckoutGate!gateVars
<1> QED
  BY <1>4, <1>5, <1>6

LEMMA SaveStatusMoves ==
  ASSUME LaunchInv, NEW p \in Process, RecoverRun(p) \/ FailRun(p) \/ ActivateRun(p)
  PROVE  CheckoutMove(p)
<1>1. CheckoutKnownRow(mine[p])
  BY DEF LaunchInv, InHand, CheckoutInHand, RecoverRun, FailRun, ActivateRun
<1>2. (SaveStatus(p, "active") \/ SaveStatus(p, "failed")) /\ FreeMove(p)
  BY ProceedsFree, StopsFree DEF RecoverRun, FailRun, ActivateRun
<1>3. UNCHANGED <<sells, planned, binding, links, allowed, paymentVars>>
  BY DEF RecoverRun, FailRun, ActivateRun
<1>4. CheckoutGrows /\ CheckoutKnown' /\ CheckoutKept
  BY <1>1, <1>2, <1>3, StatusSaved DEF CheckoutStatus
<1> QED
  BY <1>2, <1>3, <1>4, CheckoutFree

\* The provider creates a checkout only for a run that was approved.
LEMMA CreateCheckoutMoves ==
  ASSUME LaunchInv, NEW p \in Process, CreateCheckout(p)
  PROVE  CheckoutMove(p)
<1>1. UNCHANGED <<mine, sells, offer, checkout, planned, binding, allowed, paymentVars>>
  BY DEF CreateCheckout
<1>2. PICK held : held = mine[p]
  OBVIOUS
<1>3. CheckoutKnownRow(held) /\ held.id \in allowed
  BY <1>2 DEF LaunchInv, InHand, CheckoutInHand, CheckoutKnownRow, CreateCheckout
<1>4. links' = links \cup {held.id} \/ links' = links
  BY <1>2 DEF CreateCheckout, CheckoutAt
<1>5. CheckoutGrows
  BY <1>1, <1>4 DEF CheckoutGrows, LaunchInv, CheckoutKnown, paymentVars
<1>6. CheckoutKnown'
  <2>1. links' \subseteq allowed' /\ (binding' # 0 => binding' \in links')
    BY <1>1, <1>3, <1>4 DEF LaunchInv, CheckoutKnown
  <2> QED
    BY <2>1, <1>1 DEF LaunchInv, CheckoutKnown, CheckoutKnownRow, Earned, paymentVars
<1>7. CheckoutKept
  <2>1. CASE links' = links \cup {held.id}
    BY <2>1, <1>1, <1>3
       DEF CheckoutKept, CheckoutGate!GateNext, CheckoutGate!Perform
  <2>2. CASE links' = links
    BY <2>2, <1>1 DEF CheckoutKept, CheckoutGate!gateVars
  <2> QED
    BY <2>1, <2>2, <1>4
<1>8. mine' = [mine EXCEPT ![p] = held]
  BY <1>1, <1>2, HandKept
<1>9. CASE CheckoutAt(mine[p].id) /\ Go(p, "read_bound")
  <2>1. CheckoutKnownRow(held)' /\ held.id \in links'
    BY <1>1, <1>2, <1>3, <1>9 DEF CheckoutKnownRow, CheckoutAt
  <2>2. CheckoutInHand("read_bound", held)' /\ Planning(p, "read_bound")
    BY <2>1, <1>1 DEF CheckoutInHand, Planning
  <2> QED
    BY <2>2, <1>5, <1>6, <1>7, <1>8, <1>9 DEF CheckoutMove, CheckoutSteps, Go
<1>10. CASE Go(p, "fail_run")
  <2>1. CheckoutInHand("fail_run", held)
    BY <1>3 DEF CheckoutInHand
  <2> QED
    BY <2>1, <1>1, <1>5, <1>6, <1>7, <1>8, <1>10, CheckoutGoes DEF CheckoutSteps, Go
<1> QED
  BY <1>9, <1>10 DEF CreateCheckout

LEMMA ReadBoundMoves ==
  ASSUME LaunchInv, NEW p \in Process, ReadBound(p)
  PROVE  CheckoutMove(p)
<1>1. CheckoutGrows /\ CheckoutKnown' /\ CheckoutKept /\ planned' = planned
  BY CheckoutStill DEF ReadBound, checkoutVars
<1>2. PICK held : held = mine[p]
  OBVIOUS
<1>3. CheckoutInHand("activate", held) /\ CheckoutInHand("insert_binding", held)
  BY <1>2 DEF LaunchInv, InHand, CheckoutInHand, ReadBound
<1>4. Go(p, "activate") \/ Go(p, "insert_binding")
  BY DEF ReadBound
<1>5. mine' = [mine EXCEPT ![p] = held]
  BY <1>2, HandKept DEF ReadBound
<1> QED
  BY <1>1, <1>3, <1>4, <1>5, CheckoutGoes DEF Go, CheckoutSteps

\* What is bound exists at the provider.
LEMMA InsertBindingMoves ==
  ASSUME LaunchInv, NEW p \in Process, InsertBinding(p)
  PROVE  CheckoutMove(p)
<1>1. UNCHANGED <<sells, offer, checkout, planned, links, allowed, paymentVars>>
  BY DEF InsertBinding
<1>2. PICK held : held = mine[p]
  OBVIOUS
<1>3. CheckoutKnownRow(held) /\ held.id \in links
  BY <1>2 DEF LaunchInv, InHand, CheckoutInHand, InsertBinding
<1>4. binding' = binding \/ binding' = held.id
  BY <1>2 DEF InsertBinding
<1>5. CheckoutGrows
  BY <1>1, <1>3, <1>4
     DEF CheckoutGrows, LaunchInv, CheckoutKnown, CheckoutKnownRow, CheckoutRow, paymentVars
<1>6. CheckoutKnown'
  <2>1. binding' # 0 => binding' \in links'
    BY <1>1, <1>3, <1>4 DEF LaunchInv, CheckoutKnown
  <2> QED
    BY <2>1, <1>1 DEF LaunchInv, CheckoutKnown, CheckoutKnownRow, Earned, paymentVars
<1>7. CheckoutKept
  BY <1>1 DEF CheckoutKept, CheckoutGate!gateVars
<1>8. CASE Stop(p)
  BY <1>1, <1>5, <1>6, <1>7, <1>8, StopsFree, CheckoutFree
<1>9. CASE Go(p, "activate") /\ UNCHANGED mine
  <2>1. CheckoutInHand("activate", held)
    BY <1>3 DEF CheckoutInHand
  <2> QED
    BY <2>1, <1>1, <1>2, <1>5, <1>6, <1>7, <1>9, HandKept, CheckoutGoes DEF Go, CheckoutSteps
<1> QED
  BY <1>8, <1>9 DEF InsertBinding

LEMMA ReadForApprovalMoves ==
  ASSUME LaunchInv, NEW p \in Process, ReadForApproval(p)
  PROVE  CheckoutMove(p)
<1>1. CheckoutGrows /\ CheckoutKnown' /\ CheckoutKept /\ planned' = planned
  BY CheckoutStill DEF ReadForApproval, checkoutVars
<1>2. PICK held : held = checkout
  OBVIOUS
<1>3. checkout # NoRow
  BY DEF ReadForApproval, NoRow
<1>4. CheckoutInHand("approve_run", held)
  BY <1>2, <1>3 DEF LaunchInv, CheckoutKnown, CheckoutInHand
<1> QED
  BY <1>1, <1>2, <1>4, CheckoutGoes DEF ReadForApproval, Go, Hold, CheckoutSteps

LEMMA ApproveRunMoves ==
  ASSUME LaunchInv, NEW p \in Process, ApproveRun(p)
  PROVE  CheckoutMove(p)
<1>1. UNCHANGED <<sells, offer, planned, binding, links, paymentVars>>
  BY DEF ApproveRun
<1>2. PICK held : held = mine[p]
  OBVIOUS
<1>3. CheckoutKnownRow(held)
  BY <1>2 DEF LaunchInv, InHand, CheckoutInHand, ApproveRun
<1>4. PICK r : r = [held EXCEPT !.status = "ready", !.approved = TRUE]
  OBVIOUS
<1>5. checkout' = r /\ allowed' = allowed \cup {held.id}
  BY <1>2, <1>4 DEF ApproveRun, SaveRun
<1>6. r \in CheckoutRow /\ r.id = held.id /\ r # NoRow
  BY <1>3, <1>4 DEF CheckoutKnownRow, CheckoutRow, CheckoutStatus, NoRow
<1>7. held.id \in 1 .. planned
  BY <1>3 DEF LaunchInv, CheckoutKnown, CheckoutKnownRow, CheckoutRow
<1>8. CheckoutGrows
  BY <1>1, <1>5 DEF CheckoutGrows, LaunchInv, CheckoutKnown, paymentVars
<1>9. CheckoutKnown'
  <2>1. CheckoutKnownRow(checkout)' /\ checkout' # NoRow
    BY <1>1, <1>3, <1>5, <1>6 DEF CheckoutKnownRow
  <2>2. allowed' \subseteq 1 .. planned' /\ links' \subseteq allowed'
    BY <1>1, <1>5, <1>7 DEF LaunchInv, CheckoutKnown
  <2> QED
    BY <2>1, <2>2, <1>1 DEF LaunchInv, CheckoutKnown, Earned, paymentVars
<1>10. CheckoutKept
  <2>1. CheckoutGate!Approve
    BY <1>1, <1>5, <1>7 DEF CheckoutGate!Approve
  <2> QED
    BY <2>1 DEF CheckoutKept, CheckoutGate!GateNext
<1>11. FreeMove(p)
  BY StopsFree DEF ApproveRun
<1> QED
  BY <1>1, <1>8, <1>9, <1>10, <1>11, CheckoutFree

LEMMA CancelRunMoves ==
  ASSUME LaunchInv, NEW p \in Process, CancelRun(p)
  PROVE  CheckoutMove(p)
<1>1. UNCHANGED <<sells, offer, planned, binding, links, allowed, paymentVars>>
  BY DEF CancelRun
<1>2. CheckoutKnownRow(mine[p])
  BY DEF LaunchInv, InHand, CheckoutInHand, CancelRun
<1>3. PICK r : r = [mine[p] EXCEPT !.status = "cancelled", !.approved = FALSE]
  OBVIOUS
<1>4. CheckoutKnownRow(r) /\ r # NoRow
  BY <1>2, <1>3 DEF CheckoutKnownRow, CheckoutRow, CheckoutStatus, NoRow
<1>5. CheckoutKnownRow(checkout)' /\ checkout' # NoRow
  BY <1>1, <1>3, <1>4 DEF CancelRun, SaveRun, CheckoutKnownRow
<1>6. CheckoutGrows
  BY <1>1 DEF CheckoutGrows, LaunchInv, CheckoutKnown, paymentVars
<1>7. CheckoutKnown'
  BY <1>1, <1>5 DEF LaunchInv, CheckoutKnown, Earned, paymentVars
<1>8. CheckoutKept
  BY <1>1 DEF CheckoutKept, CheckoutGate!gateVars
<1>9. FreeMove(p)
  BY StopsFree DEF CancelRun
<1> QED
  BY <1>1, <1>6, <1>7, <1>8, <1>9, CheckoutFree

-----------------------------------------------------------------------------
(* Payments.                                                               *)

LEMMA PollBeginMoves ==
  ASSUME LaunchInv, NEW p \in Process, PollBegin(p)
  PROVE  CheckoutMove(p)
<1>1. CheckoutGrows /\ CheckoutKnown' /\ CheckoutKept /\ planned' = planned
  BY CheckoutStill DEF PollBegin, checkoutVars
<1>2. FreeMove(p)
  <2>1. "ask" \in Free
    BY DEF Free
  <2> QED
    BY <2>1, StopsFree, GoesFree DEF PollBegin
<1> QED
  BY <1>1, <1>2, CheckoutFree

LEMMA AskPaymentMoves ==
  ASSUME LaunchInv, NEW p \in Process, AskPayment(p)
  PROVE  CheckoutMove(p)
<1>1. CheckoutGrows /\ CheckoutKnown' /\ CheckoutKept /\ planned' = planned
  BY CheckoutStill DEF AskPayment, checkoutVars
<1>2. CASE Stop(p)
  BY <1>1, <1>2, StopsFree, CheckoutFree
<1>3. CASE sessions # <<>> /\ Hold(p, NewestPaid) /\ Go(p, "read_revenue")
  <2>1. Len(sessions) \in DOMAIN sessions
    BY <1>3, Lengths, EmptySeq DEF LaunchInv, CheckoutKnown
  <2>2. PICK held : held = NewestPaid
    OBVIOUS
  <2>3. CheckoutInHand("read_revenue", held)
    BY <2>1, <2>2 DEF CheckoutInHand, NewestPaid
  <2> QED
    BY <2>2, <2>3, <1>1, <1>3, CheckoutGoes DEF Go, Hold, CheckoutSteps
<1> QED
  BY <1>2, <1>3 DEF AskPayment

LEMMA ReadRevenueMoves ==
  ASSUME LaunchInv, NEW p \in Process, ReadRevenue(p)
  PROVE  CheckoutMove(p)
<1>1. CheckoutGrows /\ CheckoutKnown' /\ CheckoutKept /\ planned' = planned
  BY CheckoutStill DEF ReadRevenue, checkoutVars
<1>2. CASE Stop(p)
  BY <1>1, <1>2, StopsFree, CheckoutFree
<1>3. CASE mine[p].exact /\ Go(p, "insert_revenue") /\ UNCHANGED mine
  <2>1. PICK held : held = mine[p]
    OBVIOUS
  <2>2. CheckoutInHand("insert_revenue", held)
    BY <2>1, <1>3 DEF LaunchInv, InHand, CheckoutInHand, ReadRevenue
  <2> QED
    BY <2>1, <2>2, <1>1, <1>3, HandKept, CheckoutGoes DEF Go, CheckoutSteps
<1> QED
  BY <1>2, <1>3 DEF ReadRevenue

\* A payment is recorded once, and only an exact one.
LEMMA InsertRevenueMoves ==
  ASSUME LaunchInv, NEW p \in Process, InsertRevenue(p)
  PROVE  CheckoutMove(p)
<1>1. UNCHANGED <<stage, sells, checkoutVars, sessions>>
  BY DEF InsertRevenue
<1>2. CheckoutGrows
  BY <1>1 DEF CheckoutGrows, LaunchInv, CheckoutKnown, checkoutVars
<1>3. revenue \in Seq(1 .. MaxPayments) /\ IsInjective(revenue) /\ \A i \in DOMAIN revenue : Earned(revenue[i])
  BY DEF LaunchInv, CheckoutKnown
<1>4. /\ revenue' \in Seq(1 .. MaxPayments) /\ IsInjective(revenue')
      /\ \A i \in DOMAIN revenue' : Earned(revenue'[i])
  <2>1. CASE revenue' = revenue
    BY <2>1, <1>3
  <2>2. CASE mine[p].ref \notin Range(revenue) /\ revenue' = Append(revenue, mine[p].ref)
    <3>1. PICK j \in DOMAIN sessions : sessions[j] = mine[p]
      BY DEF LaunchInv, InHand, CheckoutInHand, InsertRevenue
    <3>2. sessions[j] \in Session
      BY <3>1, Lengths, ElementOfSeq DEF LaunchInv, CheckoutKnown
    <3>3. mine[p].exact
      BY DEF LaunchInv, InHand, CheckoutInHand, InsertRevenue
    <3>4. PICK ref : ref = mine[p].ref
      OBVIOUS
    <3>5. ref \in 1 .. MaxPayments /\ sessions[j] = [ref |-> ref, exact |-> TRUE]
      BY <3>1, <3>2, <3>3, <3>4 DEF Session
    <3>6. PICK n \in Nat : n = Len(revenue)
      BY <1>3, LenProperties
    <3>7. DOMAIN revenue = 1 .. n
      BY <3>6, <1>3, LenProperties
    <3>8. /\ revenue' \in Seq(1 .. MaxPayments) /\ DOMAIN revenue' = 1 .. (n + 1)
          /\ \A i \in 1 .. n : revenue'[i] = revenue[i]
          /\ revenue'[n + 1] = ref
      BY <2>2, <3>4, <3>5, <3>6, <1>3, AppendProperties, LenProperties
    <3>9. \A i \in 1 .. (n + 1) : i = n + 1 \/ i \in 1 .. n
      OBVIOUS
    <3>10. \A i \in 1 .. n : revenue[i] # ref
      BY <2>2, <3>4, <3>7 DEF Range
    <3>11. \A a, b \in 1 .. n : revenue[a] = revenue[b] => a = b
      BY <1>3, <3>7 DEF IsInjective
    <3>12. IsInjective(revenue')
      BY <3>8, <3>9, <3>10, <3>11 DEF IsInjective
    <3>13. \A i \in DOMAIN revenue' : Earned(revenue'[i])
      BY <1>3, <3>1, <3>5, <3>7, <3>8, <3>9 DEF Earned
    <3> QED
      BY <3>8, <3>12, <3>13
  <2> QED
    BY <2>1, <2>2 DEF InsertRevenue
<1>5. \A i \in DOMAIN revenue' : Earned(revenue[i])'
  BY <1>1, <1>4 DEF Earned
<1>6. CheckoutKnown'
  BY <1>1, <1>4, <1>5 DEF LaunchInv, CheckoutKnown, CheckoutKnownRow, checkoutVars
<1>7. CheckoutKept
  BY <1>1 DEF CheckoutKept, CheckoutGate!gateVars, checkoutVars
<1>8. FreeMove(p)
  BY StopsFree DEF InsertRevenue
<1> QED
  BY <1>1, <1>2, <1>6, <1>7, <1>8, CheckoutFree DEF checkoutVars

LEMMA CheckoutStepMoves ==
  ASSUME LaunchInv, NEW p \in Process, CheckoutStep(p) \/ ReadForApproval(p)
  PROVE  CheckoutMove(p) /\ UNCHANGED stage
<1>1. CheckoutMove(p)
  BY EnsureOfferMoves, InsertOfferMoves, ReadRunMoves, PlanRunMoves, ReadBindingMoves,
     SaveStatusMoves, CreateCheckoutMoves, ReadBoundMoves, InsertBindingMoves,
     ApproveRunMoves, CancelRunMoves, ReadForApprovalMoves, PollBeginMoves, AskPaymentMoves,
     ReadRevenueMoves, InsertRevenueMoves
     DEF CheckoutStep
<1>2. UNCHANGED stage
  BY DEF CheckoutStep, ReadForApproval, EnsureOffer, InsertOffer, ReadRun, PlanRun, ReadBinding,
         RecoverRun, CreateCheckout, FailRun, ReadBound, InsertBinding, ActivateRun, ApproveRun, CancelRun,
         PollBegin, AskPayment, ReadRevenue, InsertRevenue
<1> QED
  BY <1>1, <1>2

\* A customer pays.
LEMMA CustomerKeeps ==
  ASSUME LaunchInv, Customer
  PROVE  LaunchInv' /\ CheckoutKept /\ PublicationKept
<1>1. UNCHANGED <<stage, at, mine, sells, checkoutVars, revenue, buildVars, publishVars>>
  BY DEF Customer, Pay, processVars
<1>2. Len(sessions) \in Nat /\ sessions \in Seq(Session) /\ DOMAIN sessions = 1 .. Len(sessions)
  BY Lengths DEF LaunchInv, CheckoutKnown
<1>3. PICK exact \in BOOLEAN : sessions' = Append(sessions, [ref |-> Len(sessions) + 1, exact |-> exact])
  BY DEF Customer, Pay
<1>4. [ref |-> Len(sessions) + 1, exact |-> exact] \in Session
  BY <1>2, CheckoutAssumption DEF Customer, Pay, Session
<1>5. /\ sessions' \in Seq(Session) /\ DOMAIN sessions' = 1 .. (Len(sessions) + 1)
      /\ \A j \in 1 .. Len(sessions) : sessions'[j] = sessions[j]
  BY <1>2, <1>3, <1>4, AppendProperties, LenProperties
<1>6. \A j \in DOMAIN sessions : j \in DOMAIN sessions' /\ sessions'[j] = sessions[j]
  BY <1>2, <1>5
<1>7. CheckoutGrows
  BY <1>1, <1>6 DEF CheckoutGrows, LaunchInv, CheckoutKnown, checkoutVars
<1>8. \A i \in DOMAIN revenue' : Earned(revenue[i])'
  BY <1>1, <1>6 DEF LaunchInv, CheckoutKnown, Earned
<1>9. CheckoutKnown'
  BY <1>1, <1>5, <1>8 DEF LaunchInv, CheckoutKnown, CheckoutKnownRow, checkoutVars
<1>10. BuildGrows /\ BuildKnown'
  BY <1>1, <1>7, BuildStill
<1>11. PublishGrows /\ PublishKnown'
  BY <1>1, <1>10, PublishStill
<1>12. ASSUME NEW q \in Process PROVE InHand(at[q], mine[q])'
  <2>1. PICK a, h : a = at[q] /\ h = mine[q]
    OBVIOUS
  <2>2. InHand(a, h)'
    BY <2>1, <1>7, <1>10, <1>11, CheckoutHandStays, BuildHandStays, PublishHandStays
       DEF LaunchInv, InHand
  <2> QED
    BY <2>1, <2>2, <1>1
<1>13. PlannersFew'
  BY <1>1 DEF LaunchInv, PlannersFew, Planners, checkoutVars
<1>14. LaunchInv'
  BY <1>1, <1>9, <1>10, <1>11, <1>12, <1>13 DEF LaunchInv
<1> QED
  BY <1>1, <1>14, PublicationIdle
     DEF CheckoutKept, CheckoutGate!gateVars, checkoutVars, buildVars

-----------------------------------------------------------------------------
(* The builder's tables.                                                   *)

LEMMA BuildFree ==
  ASSUME NEW p \in Process, FreeMove(p), BuildGrows, BuildKnown', PublicationKept,
         stage' # "launched" \/ stage' = stage
  PROVE  BuildMove(p)
<1>1. PICK here \in Free : \E held :
         at' = [at EXCEPT ![p] = here] /\ mine' = [mine EXCEPT ![p] = held]
  BY DEF FreeMove
<1>2. \A held : BuildInHand(here, held)'
  BY DEF Free, BuildInHand, Building
<1> QED
  BY <1>1, <1>2 DEF BuildMove, BuildSteps

LEMMA BuildGoes ==
  ASSUME LaunchInv, NEW p \in Process, NEW here \in BuildSteps, NEW held,
         at' = [at EXCEPT ![p] = here], mine' = [mine EXCEPT ![p] = held],
         BuildInHand(here, held), BuildUnchanged,
         BuildGrows, BuildKnown', PublicationKept, stage' # "launched" \/ stage' = stage
  PROVE  BuildMove(p)
<1>1. CheckoutGrows
  BY CheckoutStill DEF BuildUnchanged
<1>2. BuildInHand(here, held)'
  BY <1>1, BuildHandStays
<1> QED
  BY <1>2 DEF BuildMove

LEMMA BuildReads ==
  ASSUME LaunchInv, BuildUnchanged, UNCHANGED <<buildVars, publishVars>>
  PROVE  BuildGrows /\ BuildKnown' /\ PublicationKept
<1>1. CheckoutGrows
  BY CheckoutStill DEF BuildUnchanged
<1>2. BuildGrows /\ BuildKnown'
  BY <1>1, BuildStill
<1> QED
  BY <1>2, PublicationIdle DEF buildVars

\* What a process at a step of the build knows of the checkout.
LEMMA BoundWhenBuilding ==
  ASSUME LaunchInv, NEW p \in Process, at[p] \in Building, Eligible
  PROVE  binding # 0
BY DEF LaunchInv, InHand, BuildInHand

\* The row of a run is saved under another status.
LEMMA BuildSaved ==
  ASSUME LaunchInv, BuildUnchanged, NEW row, BuildKnownRow(row),
         row.status = "verified" => Written(row),
         builds' = Saved(builds, row),
         UNCHANGED <<specs, files, passed, manifests, publishVars>>
  PROVE  BuildGrows /\ BuildKnown' /\ PublicationKept
<1>1. /\ builds' \in Seq(BuildRows) /\ Numbered(builds') /\ Len(builds') = Len(builds)
      /\ \A i \in DOMAIN builds' : builds'[i] = row \/ \E j \in DOMAIN builds : builds'[i] = builds[j]
  <2>1. builds \in Seq(BuildRows) /\ Numbered(builds)
    BY DEF LaunchInv, BuildKnown
  <2>2. row \in BuildRows /\ row.id \in 1 .. Len(builds)
    BY DEF BuildKnownRow
  <2> QED
    BY <2>1, <2>2, RowReplaced
<1>2. BuildGrows
  BY <1>1, Lengths DEF BuildGrows
<1>3. \A i \in DOMAIN builds' : builds'[i].status = "verified" => Written(builds[i])'
  <2>1. ASSUME NEW i \in DOMAIN builds', builds'[i].status = "verified" PROVE Written(builds[i])'
    <3>1. CASE builds'[i] = row
      BY <2>1, <3>1 DEF Written
    <3>2. CASE \E j \in DOMAIN builds : builds'[i] = builds[j]
      <4>1. PICK j \in DOMAIN builds : builds'[i] = builds[j]
        BY <3>2
      <4>2. Written(builds[j])
        BY <2>1, <4>1 DEF LaunchInv, BuildKnown
      <4> QED
        BY <4>1, <4>2 DEF Written
    <3> QED
      BY <3>1, <3>2, <1>1
  <2> QED
    BY <2>1
<1>4. \A m \in manifests' : ManifestKnown(m)'
  BY DEF LaunchInv, BuildKnown, ManifestKnown
<1>5. Eligible' /\ passed' # <<>> => binding' # 0
  BY DEF LaunchInv, BuildKnown, Eligible, BuildUnchanged, checkoutVars
<1>6. Numbered(builds)'
  BY <1>1 DEF Numbered
<1>7. BuildKnown'
  BY <1>1, <1>3, <1>4, <1>5, <1>6 DEF LaunchInv, BuildKnown
<1> QED
  BY <1>2, <1>7, PublicationIdle

LEMMA RowUnder ==
  ASSUME LaunchInv, NEW row, BuildKnownRow(row), NEW status \in BuildStatus,
         status = "verified" => Written(row),
         BuildUnchanged, SaveBuild(row, status),
         UNCHANGED <<specs, files, passed, manifests, publishVars>>
  PROVE  BuildGrows /\ BuildKnown' /\ PublicationKept
<1>1. PICK r : r = [row EXCEPT !.status = status]
  OBVIOUS
<1>2. BuildKnownRow(r) /\ r.status = status /\ r.paths = row.paths /\ r.id = row.id
  BY <1>1 DEF BuildKnownRow, BuildRows
<1>3. r.status = "verified" => Written(r)
  BY <1>2 DEF Written
<1>4. builds' = Saved(builds, r)
  BY <1>1 DEF SaveBuild
<1> QED
  BY <1>2, <1>3, <1>4, BuildSaved

\* The paths of a bundle.
LEMMA OutputPaths ==
  ASSUME NEW b \in Bundle
  PROVE  /\ Len(Output[b].paths) \in Nat \ {0}
         /\ PathsOf(b) = {Output[b].paths[i] : i \in 1 .. Len(Output[b].paths)}
         /\ PathsOf(b) \in SUBSET Paths
<1>1. PICK s : s = Output[b].paths
  OBVIOUS
<1>2. s \in Seq(STRING) /\ s # <<>>
  BY <1>1, BuilderAssumption
<1>3. Len(s) \in Nat /\ Len(s) # 0 /\ DOMAIN s = 1 .. Len(s)
  BY <1>2, LenProperties, EmptySeq
<1> QED
  BY <1>1, <1>3 DEF PathsOf, Range, Paths

\* Files are added to a workspace and replaced there, and never taken away.
LEMMA FilesWritten ==
  ASSUME LaunchInv, BuildUnchanged, NEW r \in 1 .. Len(builds), NEW b \in Bundle,
         NEW done \in SUBSET (1 .. Len(Output[b].paths)), Write(r, b, done),
         UNCHANGED <<specs, builds, passed, manifests, publishVars>>
  PROVE  /\ BuildGrows /\ BuildKnown' /\ PublicationKept
         /\ DOMAIN files'[r] = DOMAIN files[r] \cup {Output[b].paths[i] : i \in done}
<1>1. PICK paths : paths = {Output[b].paths[i] : i \in done}
  OBVIOUS
<1>2. PICK old : old = files[r]
  OBVIOUS
<1>3. PICK new : new = [f \in DOMAIN old \cup paths |-> IF f \in paths THEN b ELSE old[f]]
  OBVIOUS
<1>4. files' = [files EXCEPT ![r] = new]
  BY <1>1, <1>2, <1>3 DEF Write
<1>5. files \in Seq(Workspaces) /\ r \in 1 .. Len(files) /\ DOMAIN files = 1 .. Len(files)
  BY Lengths DEF LaunchInv, BuildKnown
<1>6. paths \in SUBSET Paths
  BY <1>1, OutputPaths
<1>7. PICK D \in SUBSET Paths : old \in [D -> Bundle]
  <2>1. old \in Workspaces
    BY <1>2, <1>5, ElementOfSeq
  <2> QED
    BY <2>1 DEF Workspaces
<1>8. new \in [D \cup paths -> Bundle] /\ DOMAIN new = DOMAIN old \cup paths
  BY <1>3, <1>7
<1>9. new \in Workspaces
  <2>1. D \cup paths \in SUBSET Paths
    BY <1>6, <1>7
  <2> QED
    BY <2>1, <1>8 DEF Workspaces
<1>10. files' \in Seq(Workspaces) /\ Len(files') = Len(files)
  BY <1>4, <1>5, <1>9, ExceptSeq
<1>11. \A n \in 1 .. Len(builds) : files'[n] = IF n = r THEN new ELSE files[n]
  BY <1>4, <1>5 DEF LaunchInv, BuildKnown
<1>12. \A n \in 1 .. Len(builds) : DOMAIN files[n] \subseteq DOMAIN files'[n]
  BY <1>2, <1>8, <1>11
<1>13. BuildGrows
  BY <1>12, Lengths DEF BuildGrows
<1>14. \A i \in DOMAIN builds' : builds'[i].status = "verified" => Written(builds[i])'
  <2>1. ASSUME NEW i \in DOMAIN builds, builds[i].status = "verified" PROVE Written(builds[i])'
    <3>1. Written(builds[i]) /\ builds[i].id \in 1 .. Len(builds)
      BY <2>1 DEF LaunchInv, BuildKnown, Numbered
    <3> QED
      BY <3>1, <1>12 DEF Written
  <2> QED
    BY <2>1
<1>15. \A m \in manifests' : ManifestKnown(m)'
  BY DEF LaunchInv, BuildKnown, ManifestKnown
<1>16. Eligible' /\ passed' # <<>> => binding' # 0
  BY DEF LaunchInv, BuildKnown, Eligible, BuildUnchanged, checkoutVars
<1>17. BuildKnown'
  BY <1>10, <1>14, <1>15, <1>16 DEF LaunchInv, BuildKnown, Numbered
<1>18. DOMAIN files'[r] = DOMAIN files[r] \cup {Output[b].paths[i] : i \in done}
  BY <1>1, <1>2, <1>8, <1>11
<1> QED
  BY <1>13, <1>17, <1>18, PublicationIdle

\* The run that was saved last, if any, is a known one.
LEMMA NewestKnown ==
  ASSUME LaunchInv, NEW spec, NewestBuild(spec) # 0
  PROVE  /\ BuildKnownRow(builds[NewestBuild(spec)])
         /\ builds[NewestBuild(spec)].status = "verified" => Written(builds[NewestBuild(spec)])
<1> DEFINE I == {i \in 1 .. Len(builds) : builds[i].spec = spec}
<1>1. I # {} /\ NewestBuild(spec) = Max(I)
  BY DEF NewestBuild, SelectLastInSeq
<1>2. I \in SUBSET (1 .. Len(builds))
  OBVIOUS
<1> HIDE DEF I
<1>3. Max(I) \in I
  BY <1>1, <1>2, Lengths, LargestIndex
<1>4. NewestBuild(spec) \in DOMAIN builds
  BY <1>1, <1>2, <1>3, Lengths
<1>5. builds[NewestBuild(spec)] \in BuildRows
  BY <1>4, Lengths, ElementOfSeq DEF LaunchInv, BuildKnown
<1> QED
  BY <1>4, <1>5 DEF LaunchInv, BuildKnown, BuildKnownRow, Numbered

-----------------------------------------------------------------------------
(* The builder's steps.                                                    *)

LEMMA BuildBeginMoves ==
  ASSUME LaunchInv, NEW p \in Process, BuildBegin(p), UNCHANGED publishVars
  PROVE  BuildMove(p)
<1>1. BuildGrows /\ BuildKnown' /\ PublicationKept /\ stage' = stage /\ BuildUnchanged
  BY BuildReads DEF BuildBegin
<1>2. CASE Stop(p)
  BY <1>1, <1>2, StopsFree, BuildFree
<1>3. CASE ~Stop(p)
  <2>1. Eligible => binding # 0
    BY <1>3 DEF BuildBegin, HasContext
  <2>2. PICK held : held = [id |-> 0, spec |-> Len(specs)]
    OBVIOUS
  <2>3. (Go(p, "plan_spec") \/ Go(p, "pick_run")) /\ Hold(p, held)
    BY <2>2, <1>3 DEF BuildBegin
  <2>4. BuildInHand("plan_spec", held) /\ BuildInHand("pick_run", held)
    BY <2>1, <2>2, Lengths DEF BuildInHand
  <2> QED
    BY <2>3, <2>4, <1>1, BuildGoes DEF Go, Hold, BuildSteps, Building
<1> QED
  BY <1>2, <1>3

LEMMA PlanSpecMoves ==
  ASSUME LaunchInv, NEW p \in Process, PlanSpec(p), UNCHANGED publishVars
  PROVE  BuildMove(p)
<1>1. UNCHANGED <<stage, builds, files, verdict, passed, manifests>> /\ BuildUnchanged
  BY DEF PlanSpec
<1>2. specs' \in Seq(TemplateName)
  <2>1. PlannedTemplates \subseteq TemplateName
    BY BuilderAssumption DEF PlannedTemplates, TemplateName
  <2>2. specs \in Seq(TemplateName)
    BY DEF LaunchInv, BuildKnown
  <2>3. specs' = specs \/ \E t \in PlannedTemplates : specs' = Append(specs, t)
    BY DEF PlanSpec
  <2> QED
    BY <2>1, <2>2, <2>3, AppendProperties
<1>3. BuildGrows
  BY <1>1, Lengths DEF BuildGrows
<1>4. BuildKnown'
  <2>1. \A i \in DOMAIN builds' : builds'[i].status = "verified" => Written(builds[i])'
    BY <1>1 DEF LaunchInv, BuildKnown, Written
  <2>2. \A m \in manifests' : ManifestKnown(m)'
    BY <1>1 DEF LaunchInv, BuildKnown, ManifestKnown
  <2>3. Eligible' /\ passed' # <<>> => binding' # 0
    BY <1>1 DEF LaunchInv, BuildKnown, Eligible, BuildUnchanged, checkoutVars
  <2> QED
    BY <2>1, <2>2, <2>3, <1>1, <1>2 DEF LaunchInv, BuildKnown, Numbered
<1>5. PublicationKept
  BY <1>1, PublicationIdle
<1>6. CASE Stop(p)
  BY <1>1, <1>3, <1>4, <1>5, <1>6, StopsFree, BuildFree
<1>7. CASE Go(p, "enter_building") /\ Hold(p, [id |-> 0, spec |-> Len(specs')])
  <2>1. PICK held : held = [id |-> 0, spec |-> Len(specs')]
    OBVIOUS
  <2>2. Len(specs') \in Nat
    BY <1>2, LenProperties
  <2>3. BuildInHand("enter_building", held)
    BY <2>1, <2>2, BoundWhenBuilding DEF BuildInHand, PlanSpec, Building
  <2> QED
    BY <2>1, <2>3, <1>1, <1>3, <1>4, <1>5, <1>7, BuildGoes DEF Go, Hold, BuildSteps, Building
<1> QED
  BY <1>6, <1>7 DEF PlanSpec

LEMMA EnterBuildingMoves ==
  ASSUME LaunchInv, NEW p \in Process, EnterBuilding(p), UNCHANGED publishVars
  PROVE  BuildMove(p)
<1>1. BuildGrows /\ BuildKnown' /\ PublicationKept /\ stage' = "building" /\ BuildUnchanged
  BY BuildReads DEF EnterBuilding
<1>2. PICK held : held = mine[p]
  OBVIOUS
<1>3. BuildInHand("pick_run", held)
  BY <1>2, BoundWhenBuilding DEF LaunchInv, InHand, BuildInHand, EnterBuilding, Building
<1>4. at' = [at EXCEPT ![p] = "pick_run"] /\ mine' = [mine EXCEPT ![p] = held]
  BY <1>2, HandKept DEF EnterBuilding, Go
<1> QED
  BY <1>1, <1>3, <1>4, BuildGoes DEF BuildSteps, Building

\* A run that is resumed is the one saved last.
LEMMA PickRunMoves ==
  ASSUME LaunchInv, NEW p \in Process, PickRun(p), UNCHANGED publishVars
  PROVE  BuildMove(p)
<1>1. BuildGrows /\ BuildKnown' /\ PublicationKept /\ stage' = stage /\ BuildUnchanged
  BY BuildReads DEF PickRun
<1>2. PICK spec, newest : spec = mine[p].spec /\ newest = NewestBuild(spec)
  OBVIOUS
<1>3. PICK last : last = builds[newest]
  OBVIOUS
<1>4. newest # 0 => BuildKnownRow(last) /\ (last.status = "verified" => Written(last))
  BY <1>2, <1>3, NewestKnown
<1>5. \/ Stop(p)
      \/ Go(p, "record_run") /\ Hold(p, Build(0, spec, 1))
      \/ Go(p, "record_run") /\ Hold(p, Build(0, spec, last.attempt + 1)) /\ newest # 0
      \/ Go(p, "generate") /\ Hold(p, last) /\ newest # 0 /\ last.status = "planned"
      \/ Go(p, "review") /\ Hold(p, last) /\ newest # 0 /\ last.status = "verified"
  BY <1>2, <1>3 DEF PickRun
<1>6. Eligible => binding # 0
  BY BoundWhenBuilding DEF PickRun, Building
<1>7. CASE Stop(p)
  BY <1>1, <1>7, StopsFree, BuildFree
<1>8. ASSUME NEW k \in Nat, Go(p, "record_run"), Hold(p, Build(0, spec, k))
      PROVE  BuildMove(p)
  <2>1. PICK held : held = Build(0, spec, k)
    OBVIOUS
  <2>2. spec \in Nat
    BY <1>2 DEF LaunchInv, InHand, BuildInHand, PickRun
  <2>4. held \in BuildRows /\ held.status = "planned"
    BY <2>1, <2>2, <1>8 DEF Build, BuildRows, BuildStatus
  <2>3. BuildInHand("record_run", held)
    BY <2>4, <1>6 DEF BuildInHand
  <2> QED
    BY <2>1, <2>3, <1>1, <1>8, BuildGoes DEF Go, Hold, BuildSteps, Building
<1>9. CASE newest # 0 /\ Go(p, "generate") /\ Hold(p, last) /\ last.status = "planned"
  <2>1. BuildInHand("generate", last)
    BY <1>4, <1>6, <1>9 DEF BuildInHand
  <2> QED
    BY <2>1, <1>1, <1>9, BuildGoes DEF Go, Hold, BuildSteps, Building
<1>10. CASE newest # 0 /\ Go(p, "review") /\ Hold(p, last) /\ last.status = "verified"
  <2>1. BuildInHand("review", last)
    BY <1>4, <1>6, <1>10 DEF BuildInHand
  <2> QED
    BY <2>1, <1>1, <1>10, BuildGoes DEF Go, Hold, BuildSteps, Building
<1>11. newest # 0 => last.attempt + 1 \in Nat
  BY <1>4 DEF BuildKnownRow, BuildRows
<1> QED
  BY <1>5, <1>7, <1>8, <1>9, <1>10, <1>11

LEMMA RecordRunMoves ==
  ASSUME LaunchInv, NEW p \in Process, RecordRun(p), UNCHANGED publishVars
  PROVE  BuildMove(p)
<1>1. PICK n \in Nat : n = Len(builds)
  BY Lengths
<1>2. PICK row : row = [mine[p] EXCEPT !.id = n + 1]
  OBVIOUS
<1>3. row \in BuildRows /\ row.status = "planned" /\ row.id = n + 1
  <2>1. mine[p] \in BuildRows /\ mine[p].status = "planned"
    BY DEF LaunchInv, InHand, BuildInHand, RecordRun
  <2> QED
    BY <2>1, <1>2 DEF BuildRows
<1>4. /\ builds' = Saved(builds, row) /\ files' = Append(files, <<>>)
      /\ at' = [at EXCEPT ![p] = "generate"] /\ mine' = [mine EXCEPT ![p] = row]
      /\ UNCHANGED <<stage, specs, passed, manifests>> /\ BuildUnchanged
  BY <1>1, <1>2 DEF RecordRun, NextRun, Go, Hold
<1>5. builds \in Seq(BuildRows) /\ Numbered(builds) /\ files \in Seq(Workspaces) /\ Len(files) = n
  BY <1>1 DEF LaunchInv, BuildKnown
<1>6. /\ builds' \in Seq(BuildRows) /\ Numbered(Saved(builds, row)) /\ Len(builds') = n + 1
      /\ \A i \in DOMAIN builds' : builds'[i] = row \/ \E j \in DOMAIN builds : builds'[i] = builds[j]
  <2>1. /\ Saved(builds, row) \in Seq(BuildRows) /\ Numbered(Saved(builds, row))
        /\ Len(Saved(builds, row)) = Len(builds) + 1
        /\ \A i \in DOMAIN Saved(builds, row) :
              Saved(builds, row)[i] = row \/ \E j \in DOMAIN builds : Saved(builds, row)[i] = builds[j]
    BY <1>1, <1>3, <1>5, RowAdded
  <2> QED
    BY <2>1, <1>1, <1>4
<1>7. <<>> \in Workspaces
  <2>1. <<>> \in [{} -> Bundle]
    OBVIOUS
  <2> QED
    BY <2>1 DEF Workspaces
<1>8. /\ files' \in Seq(Workspaces) /\ Len(files') = n + 1
      /\ \A r \in 1 .. n : files'[r] = files[r]
  BY <1>4, <1>5, <1>7, AppendProperties
<1>9. BuildGrows
  BY <1>1, <1>4, <1>6, <1>8, Lengths DEF BuildGrows
<1>10. \A i \in DOMAIN builds' : builds'[i].status = "verified" => Written(builds[i])'
  <2>1. ASSUME NEW i \in DOMAIN builds', builds'[i].status = "verified" PROVE Written(builds[i])'
    <3>1. PICK j \in DOMAIN builds : builds'[i] = builds[j]
      BY <2>1, <1>3, <1>6
    <3>2. Written(builds[j]) /\ builds[j].id \in 1 .. n
      BY <2>1, <3>1, <1>1 DEF LaunchInv, BuildKnown, Numbered
    <3> QED
      BY <3>1, <3>2, <1>8 DEF Written
  <2> QED
    BY <2>1
<1>11. \A m \in manifests' : ManifestKnown(m)'
  BY <1>4 DEF LaunchInv, BuildKnown, ManifestKnown
<1>12. Eligible' /\ passed' # <<>> => binding' # 0
  BY <1>4 DEF LaunchInv, BuildKnown, Eligible, BuildUnchanged, checkoutVars
<1>13. BuildKnown'
  <2>1. Numbered(builds)'
    BY <1>4, <1>6 DEF Numbered
  <2> QED
    BY <2>1, <1>4, <1>6, <1>8, <1>10, <1>11, <1>12 DEF LaunchInv, BuildKnown
<1>14. BuildInHand("generate", row)'
  <2>1. BuildKnownRow(row)'
    BY <1>1, <1>3, <1>6 DEF BuildKnownRow
  <2>2. Eligible' => binding' # 0
    BY <1>4, BoundWhenBuilding DEF RecordRun, Building, Eligible, BuildUnchanged, checkoutVars
  <2> QED
    BY <2>1, <2>2, <1>3 DEF BuildInHand
<1>15. PublicationKept
  BY <1>4, PublicationIdle
<1> QED
  BY <1>4, <1>9, <1>13, <1>14, <1>15 DEF BuildMove, BuildSteps, Building

\* An answer is used only if it names the files of one bundle; the first of
\* them is written.
LEMMA GenerateMoves ==
  ASSUME LaunchInv, NEW p \in Process, Generate(p), UNCHANGED publishVars
  PROVE  BuildMove(p)
<1>1. PICK row : row = mine[p]
  OBVIOUS
<1>2. BuildKnownRow(row) /\ row.status = "planned"
  BY <1>1 DEF LaunchInv, InHand, BuildInHand, Generate
<1>3. UNCHANGED <<stage, specs, verdict, passed, manifests>> /\ BuildUnchanged
  BY DEF Generate
<1>4. CASE Stop(p) /\ UNCHANGED <<builds, files>>
  BY <1>3, <1>4, BuildReads, StopsFree, BuildFree DEF buildVars
<1>5. CASE Fail(p) /\ UNCHANGED files
  <2>1. BuildGrows /\ BuildKnown' /\ PublicationKept
    BY <1>1, <1>2, <1>3, <1>5, RowUnder DEF Fail, BuildStatus
  <2> QED
    BY <2>1, <1>3, <1>5, StopsFree, BuildFree DEF Fail
<1>6. ASSUME NEW b \in Bundle, Write(mine[p].id, b, {1}), Go(p, "write_rest"),
             Hold(p, [id |-> mine[p].id, run |-> mine[p], bundle |-> b]), UNCHANGED builds
      PROVE  BuildMove(p)
  <2>1. row.id \in 1 .. Len(builds) /\ 1 \in 1 .. Len(Output[b].paths)
    BY <1>2, OutputPaths DEF BuildKnownRow
  <2>2. /\ BuildGrows /\ BuildKnown' /\ PublicationKept
        /\ DOMAIN files'[row.id] = DOMAIN files[row.id] \cup {Output[b].paths[i] : i \in {1}}
    BY <2>1, <1>1, <1>3, <1>6, FilesWritten
  <2>3. PICK held : held = [id |-> row.id, run |-> row, bundle |-> b]
    OBVIOUS
  <2>4. BuildKnownRow(row)'
    BY <1>2, <2>2, BuildRowStays
  <2>5. Eligible' => binding' # 0
    BY <1>3, BoundWhenBuilding DEF Generate, Building, Eligible, BuildUnchanged, checkoutVars
  <2>6. Output[b].paths[1] \in DOMAIN files'[row.id]
    BY <2>2
  <2>7. /\ BuildKnownRow(held.run)' /\ held.run.status = "planned" /\ held.id = held.run.id
        /\ held.bundle \in Bundle /\ Output[held.bundle].paths[1] \in DOMAIN files'[held.id]
    BY <2>3, <2>4, <2>6, <1>2
  <2>8. BuildInHand("write_rest", held)'
    BY <2>5, <2>7 DEF BuildInHand
  <2>9. at' = [at EXCEPT ![p] = "write_rest"] /\ mine' = [mine EXCEPT ![p] = held]
    BY <2>3, <1>1, <1>6 DEF Go, Hold
  <2> QED
    BY <2>2, <2>8, <2>9, <1>3 DEF BuildMove, BuildSteps, Building
<1> QED
  BY <1>4, <1>5, <1>6 DEF Generate, Answers

\* Then the others.
LEMMA WriteRestMoves ==
  ASSUME LaunchInv, NEW p \in Process, WriteRest(p), UNCHANGED publishVars
  PROVE  BuildMove(p)
<1>1. PICK held : held = mine[p]
  OBVIOUS
<1>2. /\ BuildKnownRow(held.run) /\ held.run.status = "planned" /\ held.id = held.run.id
      /\ held.bundle \in Bundle /\ Output[held.bundle].paths[1] \in DOMAIN files[held.id]
  BY <1>1 DEF LaunchInv, InHand, BuildInHand, WriteRest
<1>3. UNCHANGED <<stage, mine, specs, builds, verdict, passed, manifests>> /\ BuildUnchanged
  BY DEF WriteRest
<1>4. PICK paths : paths = Output[held.bundle].paths
  OBVIOUS
<1>5. held.id \in 1 .. Len(builds) /\ Len(paths) \in Nat \ {0}
  BY <1>2, <1>4, OutputPaths DEF BuildKnownRow
<1>6. /\ BuildGrows /\ BuildKnown' /\ PublicationKept
      /\ DOMAIN files'[held.id] = DOMAIN files[held.id] \cup {paths[i] : i \in 2 .. Len(paths)}
  <2>1. Write(held.id, held.bundle, 2 .. Len(paths))
    BY <1>1, <1>4 DEF WriteRest
  <2>2. 2 .. Len(paths) \in SUBSET (1 .. Len(paths))
    BY <1>5
  <2> QED
    BY <2>1, <2>2, <1>2, <1>3, <1>4, <1>5, FilesWritten
<1>7. PathsOf(held.bundle) \subseteq DOMAIN files'[held.id]
  <2>1. PathsOf(held.bundle) = {paths[i] : i \in 1 .. Len(paths)}
    BY <1>2, <1>4, OutputPaths
  <2>2. \A i \in 1 .. Len(paths) : i = 1 \/ i \in 2 .. Len(paths)
    BY <1>5
  <2> QED
    BY <2>1, <2>2, <1>2, <1>4, <1>6
<1>8. BuildKnownRow(held.run)'
  BY <1>2, <1>6, BuildRowStays
<1>9. Eligible' => binding' # 0
  BY <1>3, BoundWhenBuilding DEF WriteRest, Building, Eligible, BuildUnchanged, checkoutVars
<1>10. BuildInHand("materialize", held)'
  BY <1>2, <1>7, <1>8, <1>9 DEF BuildInHand
<1>11. at' = [at EXCEPT ![p] = "materialize"] /\ mine' = [mine EXCEPT ![p] = held]
  BY <1>1, <1>3, HandKept DEF WriteRest, Go
<1> QED
  BY <1>3, <1>6, <1>10, <1>11 DEF BuildMove, BuildSteps, Building

\* What the row names is in the workspace.
LEMMA MaterializeMoves ==
  ASSUME LaunchInv, NEW p \in Process, Materialize(p), UNCHANGED publishVars
  PROVE  BuildMove(p)
<1>1. PICK held : held = mine[p]
  OBVIOUS
<1>2. /\ BuildKnownRow(held.run) /\ held.run.status = "planned" /\ held.id = held.run.id
      /\ held.bundle \in Bundle /\ PathsOf(held.bundle) \subseteq DOMAIN files[held.id]
  BY <1>1 DEF LaunchInv, InHand, BuildInHand, Materialize
<1>3. PICK row : row = [held.run EXCEPT !.paths = PathsOf(held.bundle)]
  OBVIOUS
<1>4. /\ builds' = Saved(builds, row)
      /\ at' = [at EXCEPT ![p] = "verify"] /\ mine' = [mine EXCEPT ![p] = row]
      /\ UNCHANGED <<stage, specs, files, verdict, passed, manifests>> /\ BuildUnchanged
  BY <1>1, <1>3 DEF Materialize, Go, Hold
<1>5. /\ BuildKnownRow(row) /\ row.status = "planned" /\ row.id = held.id
      /\ row.paths = PathsOf(held.bundle)
  <2>1. PathsOf(held.bundle) \in SUBSET Paths
    BY <1>2, OutputPaths
  <2> QED
    BY <2>1, <1>2, <1>3 DEF BuildKnownRow, BuildRows
<1>6. Written(row)
  BY <1>2, <1>5 DEF Written
<1>7. BuildGrows /\ BuildKnown' /\ PublicationKept
  BY <1>4, <1>5, BuildSaved
<1>8. BuildInHand("verify", row)
  BY <1>5, <1>6, BoundWhenBuilding DEF BuildInHand, Materialize, Building
<1> QED
  BY <1>4, <1>7, <1>8, BuildGoes DEF BuildSteps, Building

LEMMA VerifyMoves ==
  ASSUME LaunchInv, NEW p \in Process, Verify(p), UNCHANGED publishVars
  PROVE  BuildMove(p)
<1>1. PICK row : row = mine[p]
  OBVIOUS
<1>2. BuildKnownRow(row) /\ Written(row)
  BY <1>1 DEF LaunchInv, InHand, BuildInHand, Verify
<1>3. UNCHANGED <<stage, specs, files, verdict, passed, manifests>> /\ BuildUnchanged
  BY DEF Verify
<1>4. CASE ExecutionFails(p)
  <2>1. BuildGrows /\ BuildKnown' /\ PublicationKept
    BY <1>1, <1>2, <1>3, <1>4, RowUnder DEF ExecutionFails, Fail, BuildStatus
  <2> QED
    BY <2>1, <1>3, <1>4, StopsFree, BuildFree DEF ExecutionFails, Fail
<1>5. CASE SaveBuild(mine[p], "verified") /\ Hold(p, [mine[p] EXCEPT !.status = "verified"]) /\ Go(p, "review")
  <2>1. BuildGrows /\ BuildKnown' /\ PublicationKept
    BY <1>1, <1>2, <1>3, <1>5, RowUnder DEF BuildStatus
  <2>2. PICK held : held = [row EXCEPT !.status = "verified"]
    OBVIOUS
  <2>3. BuildKnownRow(held) /\ held.paths = row.paths /\ held.id = row.id
    BY <2>2, <1>2 DEF BuildKnownRow, BuildRows, BuildStatus
  <2>4. Written(held)
    BY <2>3, <1>2 DEF Written
  <2>5. BuildInHand("review", held)
    BY <2>3, <2>4, BoundWhenBuilding DEF BuildInHand, Verify, Building
  <2> QED
    BY <2>1, <2>2, <2>5, <1>1, <1>3, <1>5, BuildGoes DEF Go, Hold, BuildSteps, Building
<1> QED
  BY <1>4, <1>5 DEF Verify

\* What a passing review has read is a content that may be published.
LEMMA ReadContents ==
  ASSUME LaunchInv, NEW row, BuildKnownRow(row), Written(row)
  PROVE  ReadWorkspace(row) \in Contents
<1>1. PICK b \in Bundle : row.paths = PathsOf(b) /\ PathsOf(b) \subseteq DOMAIN files[row.id]
  BY DEF Written
<1>2. files[row.id] \in Workspaces
  BY Lengths, ElementOfSeq DEF LaunchInv, BuildKnown, BuildKnownRow
<1>3. \A f \in PathsOf(b) : files[row.id][f] \in Bundle
  BY <1>1, <1>2 DEF Workspaces
<1>4. ReadWorkspace(row) \in [PathsOf(b) -> Bundle]
  BY <1>1, <1>3 DEF ReadWorkspace
<1> QED
  BY <1>4 DEF Contents

\* The reviewer is given the files that the row names.
LEMMA ReadForReviewMoves ==
  ASSUME LaunchInv, NEW p \in Process, ReadForReview(p), UNCHANGED publishVars
  PROVE  BuildMove(p)
<1>1. PICK row : row = mine[p]
  OBVIOUS
<1>2. BuildKnownRow(row) /\ Written(row)
  BY <1>1 DEF LaunchInv, InHand, BuildInHand, ReadForReview
<1>3. PICK held : held = [id |-> row.id, run |-> row, content |-> ReadWorkspace(row)]
  OBVIOUS
<1>4. held.run = row /\ held.content \in Contents
  BY <1>2, <1>3, ReadContents
<1>5. BuildInHand("ask_review", held)
  BY <1>2, <1>4, BoundWhenBuilding DEF BuildInHand, ReadForReview, Building
<1>6. BuildGrows /\ BuildKnown' /\ PublicationKept /\ stage' = stage /\ BuildUnchanged
  BY BuildReads DEF ReadForReview
<1>7. at' = [at EXCEPT ![p] = "ask_review"] /\ mine' = [mine EXCEPT ![p] = held]
  BY <1>1, <1>3 DEF ReadForReview, Go, Hold
<1> QED
  BY <1>5, <1>6, <1>7, BuildGoes DEF BuildSteps, Building

LEMMA AskReviewMoves ==
  ASSUME LaunchInv, NEW p \in Process, AskReview(p), UNCHANGED publishVars
  PROVE  BuildMove(p)
<1>1. BuildGrows /\ BuildKnown' /\ PublicationKept /\ stage' = stage /\ BuildUnchanged
  BY BuildReads DEF AskReview
<1>2. CASE Stop(p)
  BY <1>1, <1>2, StopsFree, BuildFree
<1>3. PICK held : held = mine[p]
  OBVIOUS
<1>4. BuildInHand("ask_review", held)
  BY <1>3 DEF LaunchInv, InHand, AskReview
<1>5. ASSUME NEW here \in {"record_pass", "record_fail"}, Go(p, here) /\ UNCHANGED mine
      PROVE  BuildMove(p)
  <2>1. BuildInHand(here, held)
    BY <1>4 DEF BuildInHand, Building
  <2>2. at' = [at EXCEPT ![p] = here] /\ mine' = [mine EXCEPT ![p] = held]
    BY <1>3, <1>5, HandKept DEF Go
  <2> QED
    BY <2>1, <2>2, <1>1, BuildGoes DEF BuildSteps, Building
<1> QED
  BY <1>2, <1>5 DEF AskReview

LEMMA RecordFailMoves ==
  ASSUME LaunchInv, NEW p \in Process, RecordFail(p), UNCHANGED publishVars
  PROVE  BuildMove(p)
<1>1. PICK row : row = mine[p].run
  OBVIOUS
<1>2. BuildKnownRow(row) /\ Written(row)
  BY <1>1 DEF LaunchInv, InHand, BuildInHand, RecordFail
<1>3. UNCHANGED <<stage, specs, builds, files, passed, manifests>> /\ BuildUnchanged
  BY DEF RecordFail
<1>4. BuildGrows
  BY <1>3, Lengths DEF BuildGrows
<1>5. BuildKnown'
  <2>1. \A i \in DOMAIN builds' : builds'[i].status = "verified" => Written(builds[i])'
    BY <1>3 DEF LaunchInv, BuildKnown, Written
  <2>2. \A m \in manifests' : ManifestKnown(m)'
    BY <1>3 DEF LaunchInv, BuildKnown, ManifestKnown
  <2>3. Eligible' /\ passed' # <<>> => binding' # 0
    BY <1>3 DEF LaunchInv, BuildKnown, Eligible, BuildUnchanged, checkoutVars
  <2> QED
    BY <2>1, <2>2, <2>3, <1>3 DEF LaunchInv, BuildKnown, Numbered
<1>6. PublicationKept
  BY <1>3, PublicationIdle
<1>7. BuildInHand("rejected", row)
  BY <1>2, BoundWhenBuilding DEF BuildInHand, RecordFail, Building
<1>8. at' = [at EXCEPT ![p] = "rejected"] /\ mine' = [mine EXCEPT ![p] = row]
  BY <1>1 DEF RecordFail, Go, Hold
<1> QED
  BY <1>3, <1>4, <1>5, <1>6, <1>7, <1>8, BuildGoes DEF BuildSteps, Building

\* A passing review adds what it has read to the contents that passed.
LEMMA RecordPassMoves ==
  ASSUME LaunchInv, NEW p \in Process, RecordPass(p), UNCHANGED publishVars
  PROVE  BuildMove(p)
<1>1. PICK row, content : row = mine[p].run /\ content = mine[p].content
  OBVIOUS
<1>2. BuildKnownRow(row) /\ Written(row) /\ content \in Contents
  BY <1>1 DEF LaunchInv, InHand, BuildInHand, RecordPass
<1>3. UNCHANGED <<stage, specs, builds, files, manifests>> /\ BuildUnchanged
  BY DEF RecordPass
<1>4. Eligible => binding # 0
  BY BoundWhenBuilding DEF RecordPass, Building
<1>5. passed' = Append(passed, content)
  BY <1>1 DEF RecordPass
<1>6. passed \in Seq(Contents)
  BY DEF LaunchInv, BuildKnown
<1>7. PICK n \in Nat : n = Len(passed) /\ DOMAIN passed = 1 .. n
  BY Lengths
<1>8. /\ passed' \in Seq(Contents) /\ Len(passed') = n + 1 /\ DOMAIN passed' = 1 .. (n + 1)
      /\ \A i \in 1 .. n : passed'[i] = passed[i]
      /\ passed'[n + 1] = content
  BY <1>2, <1>5, <1>6, <1>7, AppendProperties, LenProperties
<1>9. Range(passed') = Range(passed) \cup {content}
  <2>1. \A i \in 1 .. (n + 1) : i = n + 1 \/ i \in 1 .. n
    OBVIOUS
  <2> QED
    BY <2>1, <1>7, <1>8 DEF Range
<1>10. n + 1 \in 1 .. Len(passed') /\ content \in Range(passed')
  BY <1>8, <1>9
<1>11. BuildGrows
  BY <1>3, <1>7, <1>8, <1>9, Lengths DEF BuildGrows
<1>12. BuildKnown'
  <2>1. \A i \in DOMAIN builds' : builds'[i].status = "verified" => Written(builds[i])'
    BY <1>3 DEF LaunchInv, BuildKnown, Written
  <2>2. \A m \in manifests' : ManifestKnown(m)'
    BY <1>3, <1>11, ManifestStays DEF LaunchInv, BuildKnown
  <2>3. Eligible' => binding' # 0
    BY <1>3, <1>4 DEF Eligible, BuildUnchanged, checkoutVars
  <2> QED
    BY <2>1, <2>2, <2>3, <1>3, <1>8 DEF LaunchInv, BuildKnown, Numbered
<1>13. PublicationKept
  <2>1. UNCHANGED <<consented, site>>
    BY DEF publishVars
  <2>2. CASE content \in Range(passed)
    <3>1. Range(passed') = Range(passed)
      BY <2>2, <1>9
    <3> QED
      BY <2>1, <3>1 DEF PublicationKept, PublicationGate!gateVars
  <2>3. CASE content \notin Range(passed)
    <3>1. PublicationGate!Examine
      BY <2>1, <2>3, <1>2, <1>9 DEF PublicationGate!Examine
    <3> QED
      BY <3>1 DEF PublicationKept, PublicationGate!GateNext
  <2> QED
    BY <2>2, <2>3
<1>14. PICK held : held = [id |-> n + 1, run |-> row, hash |-> content]
  OBVIOUS
<1>15. /\ BuildKnownRow(held.run)' /\ Written(held.run)'
       /\ held.id \in 1 .. Len(passed') /\ held.hash \in Range(passed')
  BY <1>2, <1>10, <1>11, <1>14, BuildRowStays
<1>16. Eligible' => binding' # 0
  BY <1>3, <1>4 DEF Eligible, BuildUnchanged, checkoutVars
<1>17. BuildInHand("ready", held)'
  BY <1>15, <1>16 DEF BuildInHand
<1>18. at' = [at EXCEPT ![p] = "ready"] /\ mine' = [mine EXCEPT ![p] = held]
  BY <1>1, <1>8, <1>14 DEF RecordPass, Go, Hold
<1> QED
  BY <1>3, <1>11, <1>12, <1>13, <1>17, <1>18 DEF BuildMove, BuildSteps, Building

LEMMA RejectMoves ==
  ASSUME LaunchInv, NEW p \in Process, Reject(p), UNCHANGED publishVars
  PROVE  BuildMove(p)
<1>1. BuildKnownRow(mine[p])
  BY DEF LaunchInv, InHand, BuildInHand, Reject
<1>2. UNCHANGED <<stage, specs, files, verdict, passed, manifests>> /\ BuildUnchanged
  BY DEF Reject
<1>3. BuildGrows /\ BuildKnown' /\ PublicationKept
  BY <1>1, <1>2, RowUnder DEF Reject, Fail, BuildStatus
<1> QED
  BY <1>2, <1>3, StopsFree, BuildFree DEF Reject, Fail

LEMMA MarkReadyMoves ==
  ASSUME LaunchInv, NEW p \in Process, MarkReady(p), UNCHANGED publishVars
  PROVE  BuildMove(p)
<1>1. PICK held : held = mine[p]
  OBVIOUS
<1>2. BuildInHand("ready", held)
  BY <1>1 DEF LaunchInv, InHand, MarkReady
<1>3. UNCHANGED <<stage, mine, specs, files, verdict, passed, manifests>> /\ BuildUnchanged
  BY DEF MarkReady
<1>4. BuildGrows /\ BuildKnown' /\ PublicationKept
  <2>1. BuildKnownRow(held.run) /\ SaveBuild(held.run, "ready_preview")
    BY <1>1, <1>2 DEF BuildInHand, MarkReady
  <2> QED
    BY <2>1, <1>3, RowUnder DEF BuildStatus
<1>5. BuildInHand("manifest", held)
  BY <1>2 DEF BuildInHand, Building
<1>6. at' = [at EXCEPT ![p] = "manifest"] /\ mine' = [mine EXCEPT ![p] = held]
  BY <1>1, <1>3, HandKept DEF MarkReady, Go
<1> QED
  BY <1>3, <1>4, <1>5, <1>6, BuildGoes DEF BuildSteps, Building

\* A manifest holds what a passing review has read.
LEMMA RecordManifestMoves ==
  ASSUME LaunchInv, NEW p \in Process, RecordManifest(p), UNCHANGED publishVars
  PROVE  BuildMove(p)
<1>1. PICK held : held = mine[p]
  OBVIOUS
<1>2. held.id \in 1 .. Len(passed) /\ held.hash \in Range(passed)
  BY <1>1 DEF LaunchInv, InHand, BuildInHand, RecordManifest
<1>3. UNCHANGED <<stage, mine, specs, builds, files, verdict, passed>> /\ BuildUnchanged
  BY DEF RecordManifest
<1>4. BuildGrows
  BY <1>3, Lengths DEF BuildGrows
<1>5. \A m \in manifests' : ManifestKnown(m)'
  <2>1. \A m \in manifests' : m \in manifests \/ m = [id |-> held.id, run |-> held.run.id, hash |-> held.hash]
    BY <1>1 DEF RecordManifest
  <2>2. ASSUME NEW m \in manifests' PROVE ManifestKnown(m)
    BY <2>1, <1>2 DEF LaunchInv, BuildKnown, ManifestKnown
  <2> QED
    BY <2>2, <1>4, ManifestStays
<1>6. BuildKnown'
  <2>1. \A i \in DOMAIN builds' : builds'[i].status = "verified" => Written(builds[i])'
    BY <1>3 DEF LaunchInv, BuildKnown, Written
  <2>2. Eligible' /\ passed' # <<>> => binding' # 0
    BY <1>3 DEF LaunchInv, BuildKnown, Eligible, BuildUnchanged, checkoutVars
  <2> QED
    BY <2>1, <2>2, <1>3, <1>5 DEF LaunchInv, BuildKnown, Numbered
<1>7. PublicationKept
  BY <1>3, PublicationIdle
<1>8. BuildInHand("enter_preview", held)
  BY BoundWhenBuilding DEF BuildInHand, RecordManifest, Building
<1>9. at' = [at EXCEPT ![p] = "enter_preview"] /\ mine' = [mine EXCEPT ![p] = held]
  BY <1>1, <1>3, HandKept DEF RecordManifest, Go
<1> QED
  BY <1>3, <1>4, <1>6, <1>7, <1>8, <1>9, BuildGoes DEF BuildSteps, Building

LEMMA EnterPreviewMoves ==
  ASSUME LaunchInv, NEW p \in Process, EnterPreview(p), UNCHANGED publishVars
  PROVE  BuildMove(p)
BY BuildReads, StopsFree, BuildFree DEF EnterPreview

LEMMA BuildStepMoves ==
  ASSUME LaunchInv, NEW p \in Process, BuildStep(p), UNCHANGED publishVars
  PROVE  BuildMove(p) /\ UNCHANGED <<sells, checkoutVars, paymentVars>>
<1>1. BuildMove(p)
  BY BuildBeginMoves, PlanSpecMoves, EnterBuildingMoves, PickRunMoves, RecordRunMoves,
     GenerateMoves, WriteRestMoves, MaterializeMoves, VerifyMoves, ReadForReviewMoves,
     AskReviewMoves, RecordPassMoves, RecordFailMoves, RejectMoves, MarkReadyMoves, RecordManifestMoves, EnterPreviewMoves
     DEF BuildStep
<1>2. BuildUnchanged
  BY DEF BuildStep, BuildBegin, PlanSpec, EnterBuilding, PickRun, RecordRun, Generate, WriteRest,
         Materialize, Verify, ReadForReview, AskReview, RecordPass, RecordFail, Reject, MarkReady, RecordManifest, EnterPreview
<1> QED
  BY <1>1, <1>2 DEF BuildUnchanged

-----------------------------------------------------------------------------
(* The publication's tables.                                               *)

LEMMA PublishFree ==
  ASSUME NEW p \in Process, FreeMove(p), PublishGrows, PublishKnown', PublicationKept
  PROVE  PublishMove(p)
<1>1. PICK here \in Free : \E held :
         at' = [at EXCEPT ![p] = here] /\ mine' = [mine EXCEPT ![p] = held]
  BY DEF FreeMove
<1>2. \A held : PublishInHand(here, held)'
  BY DEF Free, PublishInHand
<1> QED
  BY <1>1, <1>2 DEF PublishMove, PublishSteps

LEMMA NothingBuilt ==
  ASSUME LaunchInv, PublishUnchanged
  PROVE  BuildGrows /\ passed' = passed
<1>1. CheckoutGrows
  BY CheckoutStill DEF PublishUnchanged
<1> QED
  BY <1>1, BuildStill DEF PublishUnchanged, buildVars

LEMMA PublishGoes ==
  ASSUME LaunchInv, NEW p \in Process, NEW here \in PublishSteps, NEW held,
         at' = [at EXCEPT ![p] = here], mine' = [mine EXCEPT ![p] = held],
         PublishInHand(here, held), PublishUnchanged,
         PublishGrows, PublishKnown', PublicationKept
  PROVE  PublishMove(p)
<1>1. PublishInHand(here, held)'
  BY NothingBuilt, PublishHandStays
<1> QED
  BY <1>1 DEF PublishMove

LEMMA PublishReads ==
  ASSUME LaunchInv, PublishUnchanged, UNCHANGED <<stage, publishVars>>
  PROVE  PublishGrows /\ PublishKnown' /\ PublicationKept
BY NothingBuilt, PublishStill, PublicationIdle

\* The manifest made last is a known one.
LEMMA LatestKnown ==
  ASSUME LaunchInv, manifests # {}
  PROVE  ManifestKnown(Latest)
<1> DEFINE ids == {m.id : m \in manifests}
<1>1. \A m \in manifests : m.id \in 1 .. Len(passed)
  BY DEF LaunchInv, BuildKnown, ManifestKnown
<1>2. ids \in SUBSET (1 .. Len(passed)) /\ ids # {}
  BY <1>1
<1> HIDE DEF ids
<1>3. Max(ids) \in ids /\ \A y \in ids : Max(ids) >= y
  BY <1>2, Lengths, LargestIndex
<1>4. PICK m \in manifests : Max(ids) = m.id
  BY <1>3 DEF ids
<1>5. \A n \in manifests : n.id <= m.id
  BY <1>1, <1>3, <1>4 DEF ids
<1>6. Latest \in manifests
  BY <1>5 DEF Latest
<1> QED
  BY <1>6 DEF LaunchInv, BuildKnown

LEMMA PublishRowFound ==
  ASSUME LaunchInv, NEW id \in 1 .. Len(publishRuns)
  PROVE  PublishKnownRow(PublishRow(id)) /\ PublishRow(id).id = id
<1>1. publishRuns \in Seq(PublishRows) /\ Numbered(publishRuns)
  BY DEF LaunchInv, PublishKnown
<1>2. PublishRow(id).id = id /\ \E i \in DOMAIN publishRuns : PublishRow(id) = publishRuns[i]
  BY <1>1, RowFound DEF PublishRow
<1> QED
  BY <1>2 DEF LaunchInv, PublishKnown

LEMMA LatestRunKnown ==
  ASSUME LaunchInv, NEW manifest, HasRun(manifest)
  PROVE  PublishKnownRow(LatestFor(manifest))
<1> DEFINE I == {i \in 1 .. Len(publishRuns) : publishRuns[i].preview = manifest.id}
<1>1. I # {} /\ I \in SUBSET (1 .. Len(publishRuns))
  BY Lengths DEF HasRun
<1>2. LatestFor(manifest) = publishRuns[Max(I)]
  BY <1>1 DEF LatestFor, SelectLastInSeq
<1> HIDE DEF I
<1>3. Max(I) \in DOMAIN publishRuns
  BY <1>1, Lengths, LargestIndex
<1> QED
  BY <1>2, <1>3 DEF LaunchInv, PublishKnown

\* Every known row stays known when a known row is saved, with what the log
\* says of it now.
LEMMA RowsKnown ==
  ASSUME LaunchInv, PublishUnchanged, PublishGrows, NEW row, PublishKnownRow(row)',
         publishRuns' = Saved(publishRuns, row),
         \A i \in DOMAIN Saved(publishRuns, row) :
            \/ Saved(publishRuns, row)[i] = row
            \/ \E j \in DOMAIN publishRuns : Saved(publishRuns, row)[i] = publishRuns[j]
  PROVE  \A i \in DOMAIN publishRuns' : PublishKnownRow(publishRuns[i])'
<1> SUFFICES ASSUME NEW i \in DOMAIN publishRuns' PROVE PublishKnownRow(publishRuns[i])'
  OBVIOUS
<1>1. PICK r : r = publishRuns'[i]
  OBVIOUS
<1>2. CASE r = row
  BY <1>1, <1>2
<1>3. CASE \E j \in DOMAIN publishRuns : r = publishRuns[j]
  <2>1. PublishKnownRow(r)
    BY <1>3 DEF LaunchInv, PublishKnown
  <2>2. PublishKnownRow(r)'
    BY <2>1, NothingBuilt, PublishRowStays
  <2> QED
    BY <1>1, <2>2
<1> QED
  BY <1>1, <1>2, <1>3

\* A known run is saved under another status.
LEMMA PublishSaved ==
  ASSUME LaunchInv, PublishUnchanged, NEW row, PublishKnownRow(row),
         SavePublishRun(row), UNCHANGED <<stage, publications, consented, site>>
  PROVE  PublishGrows /\ PublishKnown' /\ PublicationKept
<1>1. publishRuns \in Seq(PublishRows) /\ Numbered(publishRuns)
  BY DEF LaunchInv, PublishKnown
<1>2. row \in PublishRows /\ row.id \in 1 .. Len(publishRuns)
  BY DEF PublishKnownRow
<1>3. /\ Saved(publishRuns, row) \in Seq(PublishRows) /\ Numbered(Saved(publishRuns, row))
      /\ Len(Saved(publishRuns, row)) = Len(publishRuns)
      /\ \A i \in DOMAIN Saved(publishRuns, row) :
            \/ Saved(publishRuns, row)[i] = row
            \/ \E j \in DOMAIN publishRuns : Saved(publishRuns, row)[i] = publishRuns[j]
  BY <1>1, <1>2, RowReplaced
<1>4. publishRuns' = Saved(publishRuns, row)
  BY DEF SavePublishRun
<1>5. PublishGrows
  BY <1>3, <1>4, Lengths DEF PublishGrows
<1>6. PublishKnownRow(row)'
  BY <1>5, NothingBuilt, PublishRowStays
<1>7. \A i \in DOMAIN publishRuns' : PublishKnownRow(publishRuns[i])'
  BY <1>3, <1>4, <1>5, <1>6, RowsKnown
<1>8. Numbered(publishRuns)'
  BY <1>3, <1>4 DEF Numbered
<1>9. PublishKnown'
  BY <1>3, <1>4, <1>7, <1>8, NothingBuilt DEF LaunchInv, PublishKnown, Range
<1>10. PublicationKept
  BY NothingBuilt DEF PublicationKept, PublicationGate!gateVars, Range
<1> QED
  BY <1>5, <1>9, <1>10

LEMMA PublishUnder ==
  ASSUME LaunchInv, PublishUnchanged, NEW row, PublishKnownRow(row), NEW status \in PublishStatus,
         SavePublishRun([row EXCEPT !.status = status]),
         UNCHANGED <<stage, publications, consented, site>>
  PROVE  PublishGrows /\ PublishKnown' /\ PublicationKept
<1>1. PICK r : r = [row EXCEPT !.status = status]
  OBVIOUS
<1>2. PublishKnownRow(r)
  BY <1>1 DEF PublishKnownRow, PublishRows
<1> QED
  BY <1>1, <1>2, PublishSaved

-----------------------------------------------------------------------------
(* The publication's steps.                                                *)

LEMMA PublicationBeginMoves ==
  ASSUME LaunchInv, NEW p \in Process, PublicationBegin(p)
  PROVE  PublishMove(p)
<1>1. PublishGrows /\ PublishKnown' /\ PublicationKept
  BY PublishReads DEF PublicationBegin
<1>2. FreeMove(p)
  <2>1. "prepare" \in Free
    BY DEF Free
  <2> QED
    BY <2>1, StopsFree, GoesFree DEF PublicationBegin
<1> QED
  BY <1>1, <1>2, PublishFree

LEMMA PrepareMoves ==
  ASSUME LaunchInv, NEW p \in Process, Prepare(p)
  PROVE  PublishMove(p)
<1>1. PublishGrows /\ PublishKnown' /\ PublicationKept /\ PublishUnchanged
  BY PublishReads DEF Prepare
<1>2. \/ Stop(p)
      \/ manifests # {} /\ Go(p, "plan_publish") /\ Hold(p, Latest)
      \/ HasRun(Latest) /\ Go(p, "publish") /\ Hold(p, [id |-> LatestFor(Latest).id])
  BY DEF Prepare
<1>3. CASE Stop(p)
  BY <1>1, <1>3, StopsFree, PublishFree
<1>4. CASE manifests # {} /\ Go(p, "plan_publish") /\ Hold(p, Latest)
  <2>1. PICK held : held = Latest
    OBVIOUS
  <2>2. PublishInHand("plan_publish", held)
    BY <2>1, <1>4, LatestKnown DEF PublishInHand
  <2> QED
    BY <2>1, <2>2, <1>1, <1>4, PublishGoes DEF Go, Hold, PublishSteps
<1>5. CASE HasRun(Latest) /\ Go(p, "publish") /\ Hold(p, [id |-> LatestFor(Latest).id])
  <2>1. PICK held : held = [id |-> LatestFor(Latest).id]
    OBVIOUS
  <2>2. PublishKnownRow(LatestFor(Latest))
    BY <1>5, LatestRunKnown
  <2>3. PublishInHand("publish", held)
    BY <2>1, <2>2 DEF PublishInHand, PublishKnownRow
  <2> QED
    BY <2>1, <2>3, <1>1, <1>5, PublishGoes DEF Go, Hold, PublishSteps
<1> QED
  BY <1>2, <1>3, <1>4, <1>5

\* A run is bound to what a passing review has read.
LEMMA PlanPublishMoves ==
  ASSUME LaunchInv, NEW p \in Process, PlanPublish(p)
  PROVE  PublishMove(p)
<1>1. UNCHANGED <<stage, publications, consented, site>> /\ PublishUnchanged
  BY DEF PlanPublish
<1>2. PICK held : held = mine[p]
  OBVIOUS
<1>3. held.id \in 1 .. Len(passed) /\ held.hash \in Range(passed)
  BY <1>2 DEF LaunchInv, InHand, PublishInHand, ManifestKnown, PlanPublish
<1>4. PICK n \in Nat : n = Len(publishRuns)
  BY Lengths
<1>5. PICK row : row = PublishRun(n + 1, held)
  OBVIOUS
<1>6. held.hash \in Contents /\ held.id \in Nat
  <2>1. passed \in Seq(Contents)
    BY DEF LaunchInv, BuildKnown
  <2>2. PICK i \in DOMAIN passed : held.hash = passed[i]
    BY <1>3 DEF Range
  <2> QED
    BY <2>1, <2>2, <1>3, Lengths, ElementOfSeq
<1>7. /\ row \in PublishRows /\ row.id = n + 1 /\ row.hash = held.hash /\ ~row.approved
  BY <1>5, <1>6 DEF PublishRun, PublishRows, PublishStatus
<1>8. publishRuns \in Seq(PublishRows) /\ Numbered(publishRuns)
  BY DEF LaunchInv, PublishKnown
<1>9. /\ Saved(publishRuns, row) \in Seq(PublishRows) /\ Numbered(Saved(publishRuns, row))
      /\ Len(Saved(publishRuns, row)) = n + 1
      /\ \A i \in DOMAIN Saved(publishRuns, row) :
            \/ Saved(publishRuns, row)[i] = row
            \/ \E j \in DOMAIN publishRuns : Saved(publishRuns, row)[i] = publishRuns[j]
  BY <1>4, <1>7, <1>8, RowAdded
<1>10. publishRuns' = Saved(publishRuns, row)
  BY <1>2, <1>4, <1>5 DEF PlanPublish, SavePublishRun
<1>11. PublishGrows
  BY <1>1, <1>4, <1>9, <1>10 DEF PublishGrows
<1>12. PublishKnownRow(row)'
  BY <1>3, <1>4, <1>7, <1>9, <1>10, <1>1, NothingBuilt DEF PublishKnownRow, Range
<1>13. \A i \in DOMAIN publishRuns' : PublishKnownRow(publishRuns[i])'
  BY <1>1, <1>9, <1>10, <1>11, <1>12, RowsKnown
<1>14. PublishKnown'
  <2>1. Numbered(publishRuns)'
    BY <1>9, <1>10 DEF Numbered
  <2> QED
    BY <2>1, <1>1, <1>9, <1>10, <1>13, NothingBuilt DEF LaunchInv, PublishKnown, Range
<1>15. PublicationKept
  BY <1>1, NothingBuilt DEF PublicationKept, PublicationGate!gateVars, Range
<1> QED
  BY <1>11, <1>14, <1>15, StopsFree, PublishFree DEF PlanPublish

LEMMA ReadPublishForApprovalMoves ==
  ASSUME LaunchInv, NEW p \in Process, ReadPublishForApproval(p)
  PROVE  PublishMove(p)
<1>1. PublishGrows /\ PublishKnown' /\ PublicationKept /\ PublishUnchanged
  BY PublishReads DEF ReadPublishForApproval
<1>2. PICK i \in DOMAIN publishRuns : Hold(p, publishRuns[i])
  BY DEF ReadPublishForApproval
<1>3. PICK held : held = publishRuns[i]
  OBVIOUS
<1>4. PublishInHand("approve_publish", held)
  BY <1>3 DEF LaunchInv, PublishKnown, PublishInHand
<1> QED
  BY <1>1, <1>2, <1>3, <1>4, PublishGoes DEF ReadPublishForApproval, Go, Hold, PublishSteps

\* The operator approves what a passing review has read.
LEMMA ApprovePublishMoves ==
  ASSUME LaunchInv, NEW p \in Process, ApprovePublish(p)
  PROVE  PublishMove(p)
<1>1. UNCHANGED <<stage, publications, site>> /\ PublishUnchanged
  BY DEF ApprovePublish
<1>2. PICK held : held = mine[p]
  OBVIOUS
<1>3. PublishKnownRow(held)
  BY <1>2 DEF LaunchInv, InHand, PublishInHand, ApprovePublish
<1>4. PICK row : row = [held EXCEPT !.status = "ready", !.approved = TRUE]
  OBVIOUS
<1>5. /\ row \in PublishRows /\ row.id = held.id /\ row.hash = held.hash
      /\ row.id \in 1 .. Len(publishRuns)
  BY <1>3, <1>4 DEF PublishKnownRow, PublishRows, PublishStatus
<1>6. publishRuns' = Saved(publishRuns, row) /\ consented' = consented \cup {held.hash}
  BY <1>2, <1>4 DEF ApprovePublish, SavePublishRun
<1>7. publishRuns \in Seq(PublishRows) /\ Numbered(publishRuns)
  BY DEF LaunchInv, PublishKnown
<1>8. /\ Saved(publishRuns, row) \in Seq(PublishRows) /\ Numbered(Saved(publishRuns, row))
      /\ Len(Saved(publishRuns, row)) = Len(publishRuns)
      /\ \A i \in DOMAIN Saved(publishRuns, row) :
            \/ Saved(publishRuns, row)[i] = row
            \/ \E j \in DOMAIN publishRuns : Saved(publishRuns, row)[i] = publishRuns[j]
  BY <1>5, <1>7, RowReplaced
<1>9. PublishGrows
  BY <1>1, <1>6, <1>8, Lengths DEF PublishGrows
<1>10. held.hash \in Range(passed)
  BY <1>3 DEF PublishKnownRow
<1>11. PublishKnownRow(row)'
  BY <1>1, <1>5, <1>6, <1>8, <1>10, NothingBuilt DEF PublishKnownRow, Range
<1>12. \A i \in DOMAIN publishRuns' : PublishKnownRow(publishRuns[i])'
  BY <1>1, <1>6, <1>8, <1>9, <1>11, RowsKnown
<1>13. PublishKnown'
  <2>1. Numbered(publishRuns)'
    BY <1>6, <1>8 DEF Numbered
  <2>2. consented' \subseteq Range(passed') /\ site' \subseteq consented'
    BY <1>1, <1>6, <1>10, NothingBuilt DEF LaunchInv, PublishKnown, Range
  <2> QED
    BY <2>1, <2>2, <1>1, <1>6, <1>8, <1>12 DEF LaunchInv, PublishKnown
<1>14. PublicationKept
  <2>1. PublicationGate!Approve
    BY <1>1, <1>6, <1>10, NothingBuilt DEF PublicationGate!Approve, Range
  <2> QED
    BY <2>1 DEF PublicationKept, PublicationGate!GateNext
<1> QED
  BY <1>9, <1>13, <1>14, StopsFree, PublishFree DEF ApprovePublish

LEMMA CancelPublishMoves ==
  ASSUME LaunchInv, NEW p \in Process, CancelPublish(p)
  PROVE  PublishMove(p)
<1>1. UNCHANGED <<stage, publications, consented, site>> /\ PublishUnchanged
  BY DEF CancelPublish
<1>2. PICK row : row = [mine[p] EXCEPT !.status = "cancelled", !.approved = FALSE]
  OBVIOUS
<1>3. PublishKnownRow(mine[p])
  BY DEF LaunchInv, InHand, PublishInHand, CancelPublish
<1>4. PublishKnownRow(row)
  BY <1>2, <1>3 DEF PublishKnownRow, PublishRows, PublishStatus
<1>5. PublishGrows /\ PublishKnown' /\ PublicationKept
  BY <1>1, <1>2, <1>4, PublishSaved DEF CancelPublish
<1> QED
  BY <1>5, StopsFree, PublishFree DEF CancelPublish

LEMMA PublishBeginMoves ==
  ASSUME LaunchInv, NEW p \in Process, PublishBegin(p)
  PROVE  PublishMove(p)
<1>1. PublishGrows /\ PublishKnown' /\ PublicationKept /\ PublishUnchanged
  BY PublishReads DEF PublishBegin
<1>2. mine[p].id \in 1 .. Len(publishRuns)
  BY DEF LaunchInv, InHand, PublishInHand, PublishBegin
<1>3. PICK run : run = PublishRow(mine[p].id)
  OBVIOUS
<1>4. PublishKnownRow(run)
  BY <1>2, <1>3, PublishRowFound
<1>5. \/ Stop(p)
      \/ publications # {} /\ Go(p, "launch") /\ UNCHANGED mine
      \/ run.approved /\ Go(p, "inspect") /\ Hold(p, [id |-> run.id, run |-> run, preview |-> Latest])
  BY <1>3 DEF PublishBegin
<1>6. CASE Stop(p)
  BY <1>1, <1>6, StopsFree, PublishFree
<1>7. CASE publications # {} /\ Go(p, "launch") /\ UNCHANGED mine
  <2>1. PICK held : held = mine[p]
    OBVIOUS
  <2>2. PublishInHand("launch", held)
    BY <1>7 DEF PublishInHand
  <2> QED
    BY <2>1, <2>2, <1>1, <1>7, HandKept, PublishGoes DEF Go, PublishSteps
<1>8. CASE run.approved /\ Go(p, "inspect") /\ Hold(p, [id |-> run.id, run |-> run, preview |-> Latest])
  <2>1. PICK held : held = [id |-> run.id, run |-> run, preview |-> Latest]
    OBVIOUS
  <2>2. held.run = run
    BY <2>1
  <2>3. PublishInHand("inspect", held)
    BY <2>2, <1>4, <1>8 DEF PublishInHand
  <2> QED
    BY <2>1, <2>3, <1>1, <1>8, PublishGoes DEF Go, Hold, PublishSteps
<1> QED
  BY <1>5, <1>6, <1>7, <1>8

\* The bytes that go to the gateway have the approved hash.
LEMMA InspectMoves ==
  ASSUME LaunchInv, NEW p \in Process, Inspect(p)
  PROVE  PublishMove(p)
<1>1. PublishGrows /\ PublishKnown' /\ PublicationKept /\ PublishUnchanged
  BY PublishReads DEF Inspect
<1>2. PICK held : held = mine[p]
  OBVIOUS
<1>3. PublishKnownRow(held.run) /\ held.run.approved
  BY <1>2 DEF LaunchInv, InHand, PublishInHand, Inspect
<1>4. CASE Publishable(held.run, held.preview)
  <2>1. PICK sent : sent = [id |-> held.id, run |-> held.run,
                            content |-> ReadWorkspace(BuildRow(held.preview.run))]
    OBVIOUS
  <2>2. sent.run = held.run /\ sent.content = held.run.hash
    BY <2>1, <1>4 DEF Publishable
  <2>3. PublishInHand("send", sent)
    BY <2>2, <1>3 DEF PublishInHand
  <2>4. Go(p, "send") /\ Hold(p, sent)
    BY <2>1, <1>2, <1>4 DEF Inspect
  <2> QED
    BY <2>3, <2>4, <1>1, PublishGoes DEF Go, Hold, PublishSteps
<1>5. CASE ~Publishable(held.run, held.preview)
  <2>1. PublishInHand("block", held)
    BY <1>3 DEF PublishInHand
  <2>2. Go(p, "block") /\ UNCHANGED mine
    BY <1>2, <1>5 DEF Inspect
  <2> QED
    BY <2>1, <2>2, <1>1, <1>2, HandKept, PublishGoes DEF Go, PublishSteps
<1> QED
  BY <1>4, <1>5

LEMMA StopUnder ==
  ASSUME LaunchInv, NEW p \in Process, Block(p) \/ FailPublish(p)
  PROVE  PublishMove(p)
<1>1. UNCHANGED <<stage, publications, consented, site>> /\ PublishUnchanged
  BY DEF Block, FailPublish
<1>2. PICK row : row = mine[p].run
  OBVIOUS
<1>3. PublishKnownRow(row)
  BY <1>2 DEF LaunchInv, InHand, PublishInHand, Block, FailPublish
<1>4. \E status \in PublishStatus : SavePublishRun([row EXCEPT !.status = status])
  BY <1>2 DEF Block, FailPublish, PublishStatus
<1>5. PublishGrows /\ PublishKnown' /\ PublicationKept
  BY <1>1, <1>3, <1>4, PublishUnder
<1> QED
  BY <1>5, StopsFree, PublishFree DEF Block, FailPublish

\* Only approved contents reach the site.
LEMMA SendMoves ==
  ASSUME LaunchInv, NEW p \in Process, Send(p)
  PROVE  PublishMove(p)
<1>1. UNCHANGED <<stage, mine, publishRuns, publications, consented>> /\ PublishUnchanged
  BY DEF Send
<1>2. PICK held : held = mine[p]
  OBVIOUS
<1>3. PublishKnownRow(held.run) /\ held.content \in consented
  BY <1>2 DEF LaunchInv, InHand, PublishInHand, PublishKnownRow, Send
<1>4. site' = site \/ site' = site \cup {held.content}
  BY <1>2 DEF Send, Execute
<1>5. PublishGrows
  BY <1>1, <1>4, Lengths DEF PublishGrows
<1>6. \A i \in DOMAIN publishRuns' : PublishKnownRow(publishRuns[i])'
  BY <1>1, NothingBuilt DEF LaunchInv, PublishKnown, PublishKnownRow, Range
<1>7. PublishKnown'
  <2>1. site' \subseteq consented'
    BY <1>1, <1>3, <1>4 DEF LaunchInv, PublishKnown
  <2>2. publications' # {} => site' # {}
    BY <1>1, <1>4 DEF LaunchInv, PublishKnown
  <2> QED
    BY <2>1, <2>2, <1>1, <1>6, NothingBuilt DEF LaunchInv, PublishKnown, Numbered, Range
<1>8. PublicationKept
  <2>1. CASE site' = site
    BY <2>1, <1>1, NothingBuilt DEF PublicationKept, PublicationGate!gateVars, Range
  <2>2. CASE site' = site \cup {held.content}
    <3>1. PublicationGate!Perform
      BY <2>2, <1>1, <1>3, NothingBuilt DEF PublicationGate!Perform, Range
    <3> QED
      BY <3>1 DEF PublicationKept, PublicationGate!GateNext
  <2> QED
    BY <2>1, <2>2, <1>4
<1>9. mine' = [mine EXCEPT ![p] = held]
  BY <1>1, <1>2, HandKept
<1>10. CASE Execute(mine[p].content) /\ Go(p, "mark_published")
  <2>1. PublishKnownRow(held.run)'
    BY <1>1, <1>3, NothingBuilt DEF PublishKnownRow, Range
  <2>2. site' # {}
    BY <1>10 DEF Execute
  <2>3. PublishInHand("mark_published", held)'
    BY <2>1, <2>2 DEF PublishInHand
  <2> QED
    BY <2>3, <1>5, <1>7, <1>8, <1>9, <1>10 DEF PublishMove, PublishSteps, Go
<1>11. CASE Go(p, "fail_publish")
  <2>1. PublishInHand("fail_publish", held)
    BY <1>3 DEF PublishInHand
  <2> QED
    BY <2>1, <1>1, <1>5, <1>7, <1>8, <1>9, <1>11, PublishGoes DEF Go, PublishSteps
<1> QED
  BY <1>10, <1>11 DEF Send

LEMMA MarkPublishedMoves ==
  ASSUME LaunchInv, NEW p \in Process, MarkPublished(p)
  PROVE  PublishMove(p)
<1>1. UNCHANGED <<stage, mine, publications, consented, site>> /\ PublishUnchanged
  BY DEF MarkPublished
<1>2. PICK held : held = mine[p]
  OBVIOUS
<1>3. PublishKnownRow(held.run) /\ site # {}
  BY <1>2 DEF LaunchInv, InHand, PublishInHand, MarkPublished
<1>4. PublishGrows /\ PublishKnown' /\ PublicationKept
  BY <1>1, <1>2, <1>3, PublishUnder DEF MarkPublished, PublishStatus
<1>5. PublishInHand("record_publication", held)
  BY <1>3 DEF PublishInHand
<1> QED
  BY <1>1, <1>2, <1>4, <1>5, HandKept, PublishGoes DEF MarkPublished, Go, PublishSteps

\* What has a publication is on the site.
LEMMA RecordPublicationMoves ==
  ASSUME LaunchInv, NEW p \in Process, RecordPublication(p)
  PROVE  PublishMove(p)
<1>1. UNCHANGED <<stage, mine, publishRuns, consented, site>> /\ PublishUnchanged
  BY DEF RecordPublication
<1>2. PICK held : held = mine[p]
  OBVIOUS
<1>3. site # {} /\ publications' = publications \cup {held.id}
  BY <1>2 DEF LaunchInv, InHand, PublishInHand, RecordPublication
<1>4. PublishGrows
  BY <1>1, <1>3, Lengths DEF PublishGrows
<1>5. \A i \in DOMAIN publishRuns' : PublishKnownRow(publishRuns[i])'
  BY <1>1, NothingBuilt DEF LaunchInv, PublishKnown, PublishKnownRow, Range
<1>6. PublishKnown'
  BY <1>1, <1>3, <1>5, NothingBuilt DEF LaunchInv, PublishKnown, Numbered, Range
<1>7. PublicationKept
  BY <1>1, NothingBuilt DEF PublicationKept, PublicationGate!gateVars, Range
<1>8. PublishInHand("launch", held)'
  BY <1>3 DEF PublishInHand
<1>9. at' = [at EXCEPT ![p] = "launch"] /\ mine' = [mine EXCEPT ![p] = held]
  BY <1>1, <1>2, HandKept DEF RecordPublication, Go
<1> QED
  BY <1>4, <1>6, <1>7, <1>8, <1>9 DEF PublishMove, PublishSteps

LEMMA LaunchedMoves ==
  ASSUME LaunchInv, NEW p \in Process, Launched(p)
  PROVE  PublishMove(p)
<1>1. UNCHANGED publishVars /\ PublishUnchanged
  BY DEF Launched
<1>2. publications # {}
  BY DEF LaunchInv, InHand, PublishInHand, Launched
<1>3. PublishGrows
  BY <1>1, Lengths DEF PublishGrows, publishVars
<1>4. \A i \in DOMAIN publishRuns' : PublishKnownRow(publishRuns[i])'
  BY <1>1, NothingBuilt DEF LaunchInv, PublishKnown, PublishKnownRow, Range, publishVars
<1>5. PublishKnown'
  BY <1>1, <1>2, <1>4, NothingBuilt DEF LaunchInv, PublishKnown, Numbered, Range, publishVars
<1>6. PublicationKept
  BY <1>1, NothingBuilt, PublicationIdle
<1> QED
  BY <1>3, <1>5, <1>6, StopsFree, PublishFree DEF Launched

LEMMA PublishStepMoves ==
  ASSUME LaunchInv, NEW p \in Process, PublishStep(p) \/ ReadPublishForApproval(p)
  PROVE  PublishMove(p) /\ PublishUnchanged
<1>1. PublishMove(p)
  BY PublicationBeginMoves, PrepareMoves, PlanPublishMoves, ApprovePublishMoves,
     CancelPublishMoves, ReadPublishForApprovalMoves, PublishBeginMoves, InspectMoves, StopUnder, SendMoves,
     MarkPublishedMoves, RecordPublicationMoves, LaunchedMoves
     DEF PublishStep
<1>2. PublishUnchanged
  BY DEF PublishStep, PublicationBegin, Prepare, PlanPublish, ApprovePublish, CancelPublish, PublishBegin,
         Inspect, Block, Send, FailPublish, MarkPublished, RecordPublication, Launched,
         ReadPublishForApproval
<1> QED
  BY <1>1, <1>2

-----------------------------------------------------------------------------
(* The ticks, the commands and the crashes.                                *)

LEMMA DriverMoves ==
  ASSUME LaunchInv, NEW p \in Process, Advance(p) \/ Command(p) \/ Crash(p)
  PROVE  PublishMove(p) /\ PublishUnchanged
<1>1. UNCHANGED <<stage, publishVars>> /\ PublishUnchanged
  BY DEF Advance, Command, Crash, databaseVars, PublishUnchanged
<1>2. PublishGrows /\ PublishKnown' /\ PublicationKept
  BY <1>1, PublishReads
<1>3. Phase \in Free
  BY DEF Phase, Free
<1>4. CASE Advance(p)
  <2>1. PICK phase \in Free : Go(p, phase) /\ UNCHANGED mine
    BY <1>3, <1>4 DEF Advance
  <2>2. FreeMove(p)
    BY <2>1, GoesFree
  <2> QED
    BY <2>2, <1>1, <1>2, PublishFree
<1>5. CASE Crash(p)
  <2>1. FreeMove(p)
    BY <1>5, StopsFree DEF Crash
  <2> QED
    BY <2>1, <1>1, <1>2, PublishFree
<1>6. CASE Command(p)
  <2>1. \/ \E phase \in Free : Go(p, phase) /\ UNCHANGED mine
        \/ \E i \in DOMAIN publishRuns : Go(p, "publish") /\ Hold(p, [id |-> publishRuns[i].id])
    <3>1. {Phase, "prebuild", "build", "prepare"} \subseteq Free
      BY <1>3 DEF Free
    <3> QED
      BY <3>1, <1>6 DEF Command
  <2>2. CASE \E phase \in Free : Go(p, phase) /\ UNCHANGED mine
    <3>1. FreeMove(p)
      BY <2>2, GoesFree
    <3> QED
      BY <3>1, <1>1, <1>2, PublishFree
  <2>3. ASSUME NEW i \in DOMAIN publishRuns, Go(p, "publish"), Hold(p, [id |-> publishRuns[i].id])
        PROVE  PublishMove(p)
    <3>1. PICK held : held = [id |-> publishRuns[i].id]
      OBVIOUS
    <3>2. PublishInHand("publish", held)
      BY <3>1 DEF LaunchInv, PublishKnown, PublishKnownRow, PublishInHand
    <3> QED
      BY <3>1, <3>2, <2>3, <1>1, <1>2, PublishGoes DEF Go, Hold, PublishSteps
  <2> QED
    BY <2>1, <2>2, <2>3, <1>1
<1> QED
  BY <1>1, <1>4, <1>5, <1>6

LEMMA NextKeeps ==
  ASSUME LaunchInv, [Next]_vars
  PROVE  LaunchInv' /\ CheckoutKept /\ PublicationKept
<1>1. ASSUME NEW p \in Process, CheckoutMove(p), UNCHANGED <<stage, buildVars, publishVars>>
      PROVE  LaunchInv' /\ CheckoutKept /\ PublicationKept
  BY <1>1, CheckoutMoveKeeps
<1>2. ASSUME NEW p \in Process, PublishMove(p), PublishUnchanged
      PROVE  LaunchInv' /\ CheckoutKept /\ PublicationKept
  BY <1>2, PublishMoveKeeps DEF PublishUnchanged
<1>3. ASSUME NEW p \in Process, Work(p)
      PROVE  LaunchInv' /\ CheckoutKept /\ PublicationKept
  <2>1. CASE CheckoutStep(p) /\ UNCHANGED <<buildVars, publishVars>>
    BY <2>1, <1>1, CheckoutStepMoves
  <2>2. CASE BuildStep(p) /\ UNCHANGED publishVars
    BY <2>2, BuildStepMoves, BuildMoveKeeps
  <2>3. CASE PublishStep(p)
    BY <2>3, <1>2, PublishStepMoves
  <2> QED
    BY <1>3, <2>1, <2>2, <2>3 DEF Work
<1>4. ASSUME NEW p \in Process, Approval(p)
      PROVE  LaunchInv' /\ CheckoutKept /\ PublicationKept
  <2>1. CASE ReadForApproval(p) /\ UNCHANGED <<buildVars, publishVars>>
    BY <2>1, <1>1, CheckoutStepMoves
  <2>2. CASE ReadPublishForApproval(p)
    BY <2>2, <1>2, PublishStepMoves
  <2> QED
    BY <1>4, <2>1, <2>2 DEF Approval
<1>5. ASSUME NEW p \in Process, Advance(p) \/ Command(p) \/ Crash(p)
      PROVE  LaunchInv' /\ CheckoutKept /\ PublicationKept
  BY <1>5, <1>2, DriverMoves
<1>6. CASE UNCHANGED vars
  <2>1. /\ UNCHANGED <<stage, at, mine, sells, checkoutVars, paymentVars, buildVars, publishVars>>
    BY <1>6 DEF vars, processVars
  <2>2. CheckoutGrows /\ CheckoutKnown' /\ CheckoutKept
    BY <2>1, CheckoutStill
  <2>3. BuildGrows /\ BuildKnown'
    BY <2>1, <2>2, BuildStill
  <2>4. PublishGrows /\ PublishKnown'
    BY <2>1, <2>3, PublishStill
  <2>5. ASSUME NEW q \in Process PROVE InHand(at[q], mine[q])'
    <3>1. PICK a, h : a = at[q] /\ h = mine[q]
      OBVIOUS
    <3>2. InHand(a, h)'
      BY <3>1, <2>2, <2>3, <2>4, CheckoutHandStays, BuildHandStays, PublishHandStays
         DEF LaunchInv, InHand
    <3> QED
      BY <3>1, <3>2, <2>1
  <2>6. PlannersFew'
    BY <2>1 DEF LaunchInv, PlannersFew, Planners, checkoutVars
  <2>7. LaunchInv'
    BY <2>1, <2>2, <2>3, <2>4, <2>5, <2>6 DEF LaunchInv
  <2> QED
    BY <2>1, <2>2, <2>7, PublicationIdle DEF buildVars
<1> QED
  BY <1>3, <1>4, <1>5, <1>6, CustomerKeeps DEF Next

LEMMA InitKnown ==
  ASSUME Init
  PROVE  LaunchInv
<1>1. CheckoutKnown
  BY EmptySeq DEF Init, CheckoutInit, CheckoutKnown, IsInjective
<1>2. BuildKnown
  BY EmptySeq DEF Init, BuilderInit, BuildKnown, Numbered
<1>3. PublishKnown
  BY EmptySeq DEF Init, PublicationInit, PublishKnown, Numbered
<1>4. PlannersFew
  <2>1. Planners = {} /\ planned = 0
    BY DEF Planners, Init, CheckoutInit
  <2> QED
    BY <2>1, CheckoutAssumption, FS_EmptySet, FS_CardinalityType DEF PlannersFew
<1>5. \A p \in Process : InHand(at[p], mine[p])
  BY DEF Init, InHand, CheckoutInHand, BuildInHand, PublishInHand, Building
<1> QED
  BY <1>1, <1>2, <1>3, <1>4, <1>5 DEF Init, LaunchInv

LEMMA LaunchAlwaysKnown == Spec => []LaunchInv
<1>1. LaunchInv /\ [Next]_vars => LaunchInv'
  BY NextKeeps
<1> QED
  BY <1>1, InitKnown, PTL DEF Spec

-----------------------------------------------------------------------------
(* What is promised.                                                       *)

(* The invariant SoldAsBound: what is on the site sells through a checkout *)
(* that the operator approved and the provider created, a venture in the   *)
(* market has a publication on the site, and every revenue row is one paid *)
(* session at the approved price (CommerceManager, CommerceBuildVerifier,  *)
(* PreviewPublisher), whatever ticks, commands and crashes interleave.     *)
THEOREM AlwaysSoldAsBound == Spec => []SoldAsBound
<1>1. ASSUME LaunchInv PROVE SoldAsBound
  <2>1. stage = "launched" => publications # {} /\ site # {}
    BY <1>1 DEF LaunchInv, PublishKnown
  <2>2. Eligible /\ site # {} => binding \in links \cap allowed
    <3>1. site # {} => passed # <<>>
      BY <1>1, EmptySeq DEF LaunchInv, PublishKnown, Range
    <3> QED
      BY <3>1, <1>1 DEF LaunchInv, BuildKnown, CheckoutKnown
  <2> QED
    BY <2>1, <2>2, <1>1 DEF SoldAsBound, LaunchInv, CheckoutKnown, Earned
<1> QED
  BY <1>1, LaunchAlwaysKnown, PTL

(* The refinement GatesHold: the provider creates a checkout only for a    *)
(* run that was planned and then approved, of which there are never more   *)
(* than processes, and the site only ever shows contents that a reviewer   *)
(* passed and the operator then approved.                                  *)
THEOREM GatesAlwaysHold == Spec => GatesHold
<1>1. Init => CheckoutGate!GateInit /\ PublicationGate!GateInit
  BY DEF Init, CheckoutInit, BuilderInit, PublicationInit, Range,
         CheckoutGate!GateInit, PublicationGate!GateInit
<1>2. LaunchInv /\ [Next]_vars => CheckoutKept /\ PublicationKept
  BY NextKeeps
<1> QED
  BY <1>1, <1>2, LaunchAlwaysKnown, PTL
     DEF Spec, GatesHold, CheckoutGate!GateSpec, PublicationGate!GateSpec, CheckoutKept,
         PublicationKept
=============================================================================
