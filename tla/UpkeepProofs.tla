---------------------------- MODULE UpkeepProofs ----------------------------
(***************************************************************************)
(* A change of the program's own code keeps to its two gates, and the      *)
(* tests on a venture's market stay fair, for any number of processes,     *)
(* proposals, contents, tests, leads, answers and mishaps.                 *)
(*                                                                         *)
(* SelfInv relates what the tables say of a run to what was ever prepared, *)
(* attested and approved of it (BranchKnown, MergeKnown), and says the     *)
(* same of the row that a process holds in its hand (InHand), which may be *)
(* older than the stored one. It stays true of an old row because the      *)
(* default branch, approvals and evaluations only grow (Grows).            *)
(*                                                                         *)
(* LearnInv says the same of learning in three layers: what is known of a  *)
(* process's memory whoever overlaps (LearnHand), as tests are never lost  *)
(* and answers only grow (LearnGrows); what is known while nobody has      *)
(* overlapped (LearnAlone: the test in hand is still active, no lead is    *)
(* passed); and, while no lead was drafted for twice either, that the      *)
(* drafts still to be saved have their places in the sample (LearnCap).    *)
(* LearnMove(p) is a step of p alone; every operation makes one.           *)
(***************************************************************************)
EXTENDS Upkeep, FiniteSetTheorems, SequenceTheorems, WellFoundedInduction, TLAPS

Names == [proposal : Nat, hash : Hashes]
BranchStatuses ==
    {"waiting_approval", "ready", "blocked", "failed", "materialized", "cancelled"}
BranchRow ==
    [id : Nat, proposal : Nat, hash : Hashes, base : Nat, status : BranchStatuses,
     approved : BOOLEAN]
MergeStatuses == {"waiting_ci", "waiting_approval", "ready", "blocked", "merged", "cancelled"}
MergeRow ==
    [id : Nat, branch : Nat, proposal : Nat, hash : Hashes, base : Nat, status : MergeStatuses,
     head : Heads \cup {Unattested}, approved : BOOLEAN]
ReviewRow == [name : Names, run : Nat, base : Nat, head : Heads]

\* The revision is one of the default branch, and holds what the hash replaces.
Holds(base, hash) == base \in 1 .. Len(main) /\ main[base] = hash.original

\* What the log says of a branch run.
BranchKnown(r) ==
    /\ r \in BranchRow
    /\ r.base \in 1 .. Len(main)
    /\ Bound(r) \in prepared
    /\ r.approved => Bound(r) \in consented
    /\ r.status = "materialized" => Holds(r.base, r.hash)

\* What the log says of a merge run.
MergeKnown(r) ==
    /\ r \in MergeRow
    /\ Holds(r.base, r.hash)
    /\ r.status = "waiting_ci" => ~r.approved
    /\ r.status = "waiting_approval" => Green(r, r.head) \in attested
    /\ r.approved => Green(r, r.head) \in granted

\* Somebody has accepted the hash.
Evaluated(hash) == \E e \in evaluations : e.accepted /\ e.hash = hash

\* What is known of the row held by a process that is at here.
InHand(here, held) ==
    /\ here = "plan_branch" => held.id \in Nat /\ held.base \in 1 .. Len(main)
    /\ here \in {"approve_branch", "create_branch", "created_branch"} => BranchKnown(held)
    /\ here \in {"create_branch", "created_branch"} => held.approved
    /\ here = "created_branch" => Holds(held.base, held.hash)
    /\ here = "plan_merge" => BranchKnown(held) /\ held.status = "materialized"
    /\ here \in {"attest", "approve_merge", "check_merge", "merge", "merged"} => MergeKnown(held)
    /\ here = "attest" => ~held.approved
    /\ here = "approve_merge" => Green(held, held.head) \in attested
    /\ here \in {"check_merge", "merge", "merged"} => held.approved
    /\ here = "merge" => held.head \in Heads /\ held.head.file = held.hash.text /\ Evaluated(held.hash)

\* A review branch is one that was approved.
ReviewKnown(b) ==
    /\ b \in ReviewRow
    /\ [id |-> b.run, proposal |-> b.name.proposal, hash |-> b.name.hash, base |-> b.base]
           \in consented

\* A merge is of an approved green head, and of what was evaluated.
MergeMade(m) ==
    /\ m.green \in granted
    /\ \E e \in evaluations :
         /\ e.accepted /\ e.hash = m.green.hash
         /\ e.judged = m.onto
         /\ m.green.head.file = e.hash.text

Tables ==
    /\ main \in Seq(Content)
    /\ \A c \in candidates : c.hash \in Hashes
    /\ \A e \in evaluations : e.judged = e.hash.original
    /\ IsFiniteSet(prepared) /\ prepared \subseteq BoundContents /\ consented \subseteq prepared
    /\ \A r \in branchRuns : BranchKnown(r)
    /\ \A b \in reviews : ReviewKnown(b)
    /\ numbered \in Nat
    /\ attested \subseteq GreenContents /\ granted \subseteq attested
    /\ \A r \in mergeRuns : MergeKnown(r)
    /\ \A m \in merges : MergeMade(m)

SelfInv ==
    /\ at = [p \in Process |-> at[p]] /\ mine = [p \in Process |-> mine[p]]
    /\ Tables
    /\ \A p \in Process : InHand(at[p], mine[p])

Grows ==
    /\ main' \in Seq(Content)
    /\ Len(main) <= Len(main') /\ \A i \in 1 .. Len(main) : main'[i] = main[i]
    /\ prepared \subseteq prepared' /\ consented \subseteq consented'
    /\ attested \subseteq attested' /\ granted \subseteq granted'
    /\ evaluations \subseteq evaluations'

BranchKept == [BranchGate!GateNext]_(BranchGate!gateVars)
MergeKept == [MergeGate!GateNext]_(MergeGate!gateVars)

-----------------------------------------------------------------------------
(* What is known stays known.                                              *)

LEMMA HoldsStays ==
  ASSUME Tables, Grows, NEW base, NEW hash, Holds(base, hash)
  PROVE  Holds(base, hash)'
BY DEF Tables, Grows, Holds

LEMMA BranchStays ==
  ASSUME Tables, Grows, NEW r, BranchKnown(r)
  PROVE  BranchKnown(r)'
<1>1. r.base \in 1 .. Len(main')
  BY DEF Tables, Grows, BranchKnown
<1>2. r.status = "materialized" => Holds(r.base, r.hash)'
  BY HoldsStays DEF BranchKnown
<1> QED
  BY <1>1, <1>2 DEF Grows, BranchKnown

LEMMA MergeStays ==
  ASSUME Tables, Grows, NEW r, MergeKnown(r)
  PROVE  MergeKnown(r)'
<1>1. Holds(r.base, r.hash)'
  BY HoldsStays DEF MergeKnown
<1> QED
  BY <1>1 DEF Grows, MergeKnown

LEMMA HandStays ==
  ASSUME Tables, Grows, NEW here, NEW held, InHand(here, held)
  PROVE  InHand(here, held)'
<1>1. here = "plan_branch" => held.id \in Nat /\ held.base \in 1 .. Len(main')
  BY DEF Tables, Grows, InHand
<1>2. BranchKnown(held) => BranchKnown(held)'
  BY BranchStays
<1>3. MergeKnown(held) => MergeKnown(held)'
  BY MergeStays
<1>4. Holds(held.base, held.hash) => Holds(held.base, held.hash)'
  BY HoldsStays
<1>5. Green(held, held.head) \in attested => Green(held, held.head) \in attested'
  BY DEF Grows
<1>6. Evaluated(held.hash) => Evaluated(held.hash)'
  BY DEF Evaluated, Grows
<1> QED
  BY <1>1, <1>2, <1>3, <1>4, <1>5, <1>6 DEF InHand

LEMMA MadeStays ==
  ASSUME Grows, NEW m, MergeMade(m)
  PROVE  MergeMade(m)'
BY DEF MergeMade, Grows

\* A step of one process: what is left to show is what it changes.
LEMMA StepKeeps ==
  ASSUME SelfInv, Grows, Tables', NEW p \in Process, NEW here, NEW held,
         at' = [at EXCEPT ![p] = here], mine' = [mine EXCEPT ![p] = held],
         InHand(here, held)'
  PROVE  SelfInv'
<1>1. at' = [q \in Process |-> at'[q]] /\ mine' = [q \in Process |-> mine'[q]]
  BY DEF SelfInv
<1>2. ASSUME NEW q \in Process PROVE InHand(at[q], mine[q])'
  <2>1. CASE q = p
    <3>1. at'[q] = here /\ mine'[q] = held
      BY <2>1 DEF SelfInv
    <3> QED
      BY <3>1
  <2>2. CASE q # p
    <3>1. at'[q] = at[q] /\ mine'[q] = mine[q]
      BY <2>2 DEF SelfInv
    <3>2. PICK a, h : a = at[q] /\ h = mine[q]
      OBVIOUS
    <3>3. InHand(a, h)'
      BY <3>2, HandStays DEF SelfInv
    <3> QED
      BY <3>1, <3>2, <3>3
  <2> QED
    BY <2>1, <2>2
<1> QED
  BY <1>1, <1>2 DEF SelfInv

\* The tables when nothing but rows are written.
LEMMA TablesKeep ==
  ASSUME Tables, Grows,
         \A c \in candidates' : c.hash \in Hashes,
         \A e \in evaluations' : e.judged = e.hash.original,
         IsFiniteSet(prepared') /\ prepared' \subseteq BoundContents /\ consented' \subseteq prepared',
         \A r \in branchRuns' \ branchRuns : BranchKnown(r)',
         \A b \in reviews' \ reviews : ReviewKnown(b)',
         numbered' \in Nat,
         attested' \subseteq GreenContents /\ granted' \subseteq attested',
         \A r \in mergeRuns' \ mergeRuns : MergeKnown(r)',
         \A m \in merges' \ merges : MergeMade(m)'
  PROVE  Tables'
<1>1. \A r \in branchRuns' : BranchKnown(r)'
  <2> SUFFICES ASSUME NEW r \in branchRuns' PROVE BranchKnown(r)'
    OBVIOUS
  <2>1. CASE r \in branchRuns
    BY <2>1, BranchStays DEF Tables
  <2> QED
    BY <2>1
<1>2. \A r \in mergeRuns' : MergeKnown(r)'
  <2> SUFFICES ASSUME NEW r \in mergeRuns' PROVE MergeKnown(r)'
    OBVIOUS
  <2>1. CASE r \in mergeRuns
    BY <2>1, MergeStays DEF Tables
  <2> QED
    BY <2>1
<1>3. \A b \in reviews' : ReviewKnown(b)'
  BY DEF Tables, Grows, ReviewKnown
<1>4. \A m \in merges' : MergeMade(m)'
  <2> SUFFICES ASSUME NEW m \in merges' PROVE MergeMade(m)'
    OBVIOUS
  <2>1. CASE m \in merges
    BY <2>1, MadeStays DEF Tables
  <2> QED
    BY <2>1
<1> QED
  BY <1>1, <1>2, <1>3, <1>4 DEF Tables, Grows

LEMMA BranchIdle ==
  ASSUME UNCHANGED <<prepared, consented, reviews>>
  PROVE  BranchKept
BY DEF BranchKept, BranchGate!gateVars

LEMMA MergeIdle ==
  ASSUME UNCHANGED <<attested, granted, merges>>
  PROVE  MergeKept
BY DEF MergeKept, MergeGate!gateVars

\* A step that writes no table.
LEMMA NothingWritten ==
  ASSUME SelfInv, UNCHANGED <<main, improvementVars, branchVars, mergeVars>>
  PROVE  Grows /\ Tables' /\ BranchKept /\ MergeKept
<1>1. Grows
  BY DEF Grows, SelfInv, Tables, improvementVars, branchVars, mergeVars
<1>2. Tables'
  BY <1>1, TablesKeep DEF SelfInv, Tables, improvementVars, branchVars, mergeVars
<1> QED
  BY <1>1, <1>2, BranchIdle, MergeIdle DEF branchVars, mergeVars

LEMMA HandKept ==
  ASSUME SelfInv, NEW p \in Process, UNCHANGED mine
  PROVE  mine' = [mine EXCEPT ![p] = mine[p]]
BY DEF SelfInv

-----------------------------------------------------------------------------
(* Proposals, candidates and evaluations.                                  *)

\* Where a process holds nothing of a run.
Free == {"idle", "plan", "generate", "mark", "wait", "ask", "accept", "reject"}

LEMMA FreeHand ==
  ASSUME NEW here \in Free, NEW held
  PROVE  InHand(here, held)'
BY DEF Free, InHand

\* A step of the improvement of one proposal,
ImproveMove(p) ==
    /\ main' = main
    /\ \E here \in Free : \E held : /\ at' = [at EXCEPT ![p] = here]
                                /\ mine' = [mine EXCEPT ![p] = held]
    /\ \A c \in candidates' : c.hash \in Hashes
    /\ evaluations \subseteq evaluations'
    /\ \A e \in evaluations' : e.judged = e.hash.original

LEMMA ImproveMoveKeeps ==
  ASSUME SelfInv, NEW p \in Process, ImproveMove(p), UNCHANGED <<branchVars, mergeVars>>
  PROVE  SelfInv' /\ BranchKept /\ MergeKept
<1>1. Grows
  BY DEF Grows, SelfInv, Tables, ImproveMove, branchVars, mergeVars
<1>2. Tables'
  BY <1>1, TablesKeep DEF SelfInv, Tables, ImproveMove, branchVars, mergeVars
<1>3. PICK here \in Free : \E held : /\ at' = [at EXCEPT ![p] = here]
                                     /\ mine' = [mine EXCEPT ![p] = held]
  BY DEF ImproveMove
<1>4. PICK held : at' = [at EXCEPT ![p] = here] /\ mine' = [mine EXCEPT ![p] = held]
  BY <1>3
<1>5. SelfInv'
  BY <1>1, <1>2, <1>4, FreeHand, StepKeeps
<1> QED
  BY <1>5, BranchIdle, MergeIdle DEF branchVars, mergeVars

\* when it is asked for,
LEMMA BeginMoves ==
  ASSUME SelfInv, NEW p \in Process, NEW i,
         ProposeBegin(p) \/ MaterializeBegin(p, i) \/ EvaluateBegin(p, i)
  PROVE  ImproveMove(p)
<1>1. \A c \in candidates' : c.hash \in Hashes
  BY DEF SelfInv, Tables, ProposeBegin, MaterializeBegin, EvaluateBegin, improvementVars
<1>2. /\ main' = main /\ evaluations \subseteq evaluations'
      /\ \A e \in evaluations' : e.judged = e.hash.original
  BY DEF SelfInv, Tables, ProposeBegin, MaterializeBegin, EvaluateBegin, improvementVars
<1>3. \E here \in Free : \E held : at' = [at EXCEPT ![p] = here] /\ mine' = [mine EXCEPT ![p] = held]
  <2>1. CASE ProposeBegin(p)
    BY <2>1, HandKept DEF ProposeBegin, Go, Free
  <2>2. CASE MaterializeBegin(p, i)
    BY <2>2 DEF MaterializeBegin, Go, Hold, Free
  <2>3. CASE EvaluateBegin(p, i)
    BY <2>3 DEF EvaluateBegin, Go, Hold, Free
  <2> QED
    BY <2>1, <2>2, <2>3
<1> QED
  BY <1>1, <1>2, <1>3 DEF ImproveMove

\* when a candidate is written: its hash is of two contents,
LEMMA GenerateMoves ==
  ASSUME SelfInv, NEW p \in Process, Generate(p)
  PROVE  ImproveMove(p)
<1>1. \A c \in candidates' : c.hash \in Hashes
  <2>1. candidates' = candidates \/
        \E original \in Range(main), text \in Content :
            candidates' = candidates \cup
                {[proposal |-> mine[p].id, hash |-> Hash(original, text)]}
    BY DEF Generate
  <2>2. Range(main) \subseteq Content
    BY DEF SelfInv, Tables, Range
  <2> QED
    BY <2>1, <2>2 DEF SelfInv, Tables, Hash, Hashes
<1>2. \E here \in Free : \E held : at' = [at EXCEPT ![p] = here] /\ mine' = [mine EXCEPT ![p] = held]
  <2>1. (Go(p, "mark") /\ UNCHANGED mine) \/ Stop(p)
    BY DEF Generate
  <2>2. CASE Go(p, "mark") /\ UNCHANGED mine
    BY <2>2, HandKept DEF Go, Free
  <2>3. CASE Stop(p)
    BY <2>3 DEF Stop, Go, Hold, Free
  <2> QED
    BY <2>1, <2>2, <2>3
<1>3. main' = main /\ evaluations' = evaluations
  BY DEF Generate
<1> QED
  BY <1>1, <1>2, <1>3 DEF ImproveMove, SelfInv, Tables

\* when it is judged: only a judgement of what the candidate replaces counts,
LEMMA AskMoves ==
  ASSUME SelfInv, NEW p \in Process, Ask(p)
  PROVE  ImproveMove(p)
<1> DEFINE candidate == CHOOSE c \in CandidateOf(mine[p].id) : TRUE
<1>1. evaluations' = evaluations \/
      \E source \in Range(main), r \in Response :
          /\ CountsFor(source, candidate)
          /\ evaluations' = evaluations \cup
                 {[proposal |-> mine[p].id, hash |-> candidate.hash, judged |-> source,
                   accepted |-> Credited(r)]}
  BY DEF Ask
<1>2. \A e \in evaluations' : e.judged = e.hash.original
  <2> HIDE DEF candidate
  <2> QED
    BY <1>1 DEF CountsFor, SelfInv, Tables
<1>3. \E here \in Free : \E held : at' = [at EXCEPT ![p] = here] /\ mine' = [mine EXCEPT ![p] = held]
  <2>1. ((\E here \in {"accept", "reject"} : Go(p, here)) /\ UNCHANGED mine) \/ Stop(p)
    BY DEF Ask
  <2>2. CASE (\E here \in {"accept", "reject"} : Go(p, here)) /\ UNCHANGED mine
    BY <2>2, HandKept DEF Go, Free
  <2>3. CASE Stop(p)
    BY <2>3 DEF Stop, Go, Hold, Free
  <2> QED
    BY <2>1, <2>2, <2>3
<1>4. main' = main /\ candidates' = candidates /\ evaluations \subseteq evaluations'
  BY <1>1 DEF Ask
<1> QED
  BY <1>2, <1>3, <1>4 DEF ImproveMove, SelfInv, Tables

\* and when the proposal's row is written.
LEMMA ImproveStepMoves ==
  ASSUME SelfInv, NEW p \in Process, ImproveStep(p)
  PROVE  ImproveMove(p)
<1>1. CASE Generate(p)
  BY <1>1, GenerateMoves
<1>2. CASE Ask(p)
  BY <1>2, AskMoves
<1>3. CASE Plan(p) \/ MarkMaterialized(p) \/ MarkWaiting(p) \/ MarkEvaluated(p)
  <2>1. main' = main /\ candidates' = candidates /\ evaluations' = evaluations
    BY <1>3 DEF Plan, MarkMaterialized, MarkWaiting, MarkEvaluated
  <2>2. Stop(p) \/ (Go(p, "ask") /\ UNCHANGED mine)
    <3>1. CASE Plan(p)
      BY <3>1 DEF Plan
    <3>2. CASE MarkMaterialized(p)
      BY <3>2 DEF MarkMaterialized
    <3>3. CASE MarkWaiting(p)
      BY <3>3 DEF MarkWaiting
    <3>4. CASE MarkEvaluated(p)
      BY <3>4 DEF MarkEvaluated
    <3> QED
      BY <1>3, <3>1, <3>2, <3>3, <3>4
  <2>3. \E here \in Free : \E held : at' = [at EXCEPT ![p] = here] /\ mine' = [mine EXCEPT ![p] = held]
    <3>1. CASE Stop(p)
      BY <3>1 DEF Stop, Go, Hold, Free
    <3>2. CASE Go(p, "ask") /\ UNCHANGED mine
      BY <3>2, HandKept DEF Go, Free
    <3> QED
      BY <2>2, <3>1, <3>2
  <2> QED
    BY <2>1, <2>3 DEF ImproveMove, SelfInv, Tables
<1> QED
  BY <1>1, <1>2, <1>3 DEF ImproveStep

-----------------------------------------------------------------------------
(* The review branch.                                                      *)

\* A process that has let go of its row is free.
LEMMA StopKeeps ==
  ASSUME SelfInv, Grows, Tables', NEW p \in Process, Stop(p)
  PROVE  SelfInv'
<1>1. InHand("idle", Nothing)'
  BY FreeHand DEF Free
<1>2. at' = [at EXCEPT ![p] = "idle"] /\ mine' = [mine EXCEPT ![p] = Nothing]
  BY DEF Stop, Go, Hold
<1> QED
  BY <1>1, <1>2, StepKeeps

\* A process that takes up a run and writes nothing.
LEMMA BranchBegins ==
  ASSUME SelfInv, NEW p \in Process, BranchByHand(p), UNCHANGED mergeVars
  PROVE  SelfInv' /\ BranchKept /\ MergeKept
<1>1. Grows /\ Tables' /\ BranchKept /\ MergeKept
  BY NothingWritten DEF BranchByHand, PrepareBranch, ReadForBranchApproval, BranchBegin
<1>2. CASE \E i \in 1 .. Len(proposals) : PrepareBranch(p, i)
  <2>1. PICK i \in 1 .. Len(proposals), base \in 1 .. Len(main) :
          /\ at' = [at EXCEPT ![p] = "plan_branch"]
          /\ mine' = [mine EXCEPT ![p] = [id |-> i, base |-> base]]
          /\ main' = main
    BY <1>2 DEF PrepareBranch, Go, Hold
  <2>2. InHand("plan_branch", [id |-> i, base |-> base])'
    BY <2>1 DEF InHand
  <2> QED
    BY <1>1, <2>1, <2>2, StepKeeps
<1>3. CASE ReadForBranchApproval(p)
  <2>1. PICK r \in branchRuns :
          at' = [at EXCEPT ![p] = "approve_branch"] /\ mine' = [mine EXCEPT ![p] = r]
    BY <1>3 DEF ReadForBranchApproval, Go, Hold
  <2>2. InHand("approve_branch", r)'
    BY <1>1, BranchStays DEF InHand, SelfInv, Tables
  <2> QED
    BY <1>1, <2>1, <2>2, StepKeeps
<1>4. CASE BranchBegin(p)
  <2>1. PICK r \in branchRuns :
          /\ r.approved
          /\ at' = [at EXCEPT ![p] = "create_branch"] /\ mine' = [mine EXCEPT ![p] = r]
    BY <1>4 DEF BranchBegin, Go, Hold
  <2>2. InHand("create_branch", r)'
    BY <1>1, <2>1, BranchStays DEF InHand, SelfInv, Tables
  <2> QED
    BY <1>1, <2>1, <2>2, StepKeeps
<1> QED
  BY <1>1, <1>2, <1>3, <1>4 DEF BranchByHand

LEMMA BranchPlanned ==
  ASSUME SelfInv, NEW p \in Process, PlanBranch(p), UNCHANGED mergeVars
  PROVE  SelfInv' /\ BranchKept /\ MergeKept
<1>0. PICK c \in CandidateOf(mine[p].id) : \E run :
        /\ run = BranchRun(mine[p].id, c, mine[p].base)
        /\ SaveBranchRun(run) /\ prepared' = prepared \cup {Bound(run)}
  BY DEF PlanBranch
<1>1. PICK run :
        /\ run = BranchRun(mine[p].id, c, mine[p].base)
        /\ SaveBranchRun(run) /\ prepared' = prepared \cup {Bound(run)}
  BY <1>0
<1>2. Stop(p) /\ UNCHANGED <<main, improvementVars, consented, reviews, mergeVars>>
  BY DEF PlanBranch
<1>3. mine[p].id \in Nat /\ mine[p].base \in 1 .. Len(main)
  BY DEF PlanBranch, SelfInv, InHand
<1>4. c.hash \in Hashes
  BY DEF CandidateOf, SelfInv, Tables
<1>5. Cardinality(prepared) + 1 \in Nat /\ IsFiniteSet(prepared')
  <2>1. IsFiniteSet(prepared)
    BY DEF SelfInv, Tables
  <2>2. IsFiniteSet(prepared \cup {Bound(run)})
    BY <2>1, FS_AddElement
  <2>3. Cardinality(prepared) \in Nat
    BY <2>1, FS_CardinalityType
  <2> QED
    BY <1>1, <2>2, <2>3
<1>6. main \in Seq(Content)
  BY DEF SelfInv, Tables
<1>7. run \in BranchRow /\ run.approved = FALSE /\ run.status = "waiting_approval"
      /\ run.base \in 1 .. Len(main)
  <2>1. run = [id |-> Cardinality(prepared) + 1, proposal |-> mine[p].id, hash |-> c.hash,
               base |-> mine[p].base, status |-> "waiting_approval", approved |-> FALSE]
    BY <1>1 DEF BranchRun
  <2>2. mine[p].base \in Nat
    BY <1>3, <1>6
  <2>3. run \in BranchRow
    BY <1>3, <1>4, <1>5, <2>1, <2>2 DEF BranchRow, BranchStatuses
  <2>4. run.approved = FALSE
    BY <2>1
  <2>5. run.status = "waiting_approval" /\ run.base = mine[p].base
    BY <2>1
  <2> QED
    BY <1>3, <2>3, <2>4, <2>5
<1>8. Bound(run) \in BoundContents
  BY <1>7 DEF Bound, BranchRow, BoundContents
<1>9. Grows
  BY <1>1, <1>2, <1>6 DEF Grows, improvementVars, mergeVars
<1>10. BranchKnown(run)'
  BY <1>1, <1>2, <1>7 DEF BranchKnown
<1>11. Tables'
  <2>1. \A r \in branchRuns' \ branchRuns : BranchKnown(r)'
    BY <1>1, <1>10 DEF SaveBranchRun
  <2>2. prepared' \subseteq BoundContents /\ consented' \subseteq prepared'
    BY <1>1, <1>2, <1>8 DEF SelfInv, Tables
  <2> QED
    BY <1>2, <1>5, <1>9, <2>1, <2>2, TablesKeep DEF SelfInv, Tables, improvementVars, mergeVars
<1>12. BranchKept
  <2>1. CASE Bound(run) \in prepared
    BY <1>1, <1>2, <2>1, BranchIdle
  <2>2. CASE Bound(run) \notin prepared
    BY <1>1, <1>2, <1>8, <2>2 DEF BranchKept, BranchGate!GateNext, BranchGate!Examine
  <2> QED
    BY <2>1, <2>2
<1> QED
  BY <1>2, <1>9, <1>11, <1>12, StopKeeps, MergeIdle DEF mergeVars

LEMMA BranchApproved ==
  ASSUME SelfInv, NEW p \in Process, ApproveBranch(p), UNCHANGED mergeVars
  PROVE  SelfInv' /\ BranchKept /\ MergeKept
<1>1. PICK held, row :
        /\ held = mine[p] /\ row = [held EXCEPT !.status = "ready", !.approved = TRUE]
        /\ SaveBranchRun(row) /\ consented' = consented \cup {Bound(held)}
  BY DEF ApproveBranch
<1>2. Stop(p) /\ UNCHANGED <<main, improvementVars, prepared, reviews>>
  BY DEF ApproveBranch
<1>3. BranchKnown(held)
  BY <1>1 DEF ApproveBranch, SelfInv, InHand
<1>4. row \in BranchRow /\ Bound(row) = Bound(held) /\ row.status = "ready"
      /\ row.base = held.base
  <2>1. held \in BranchRow
    BY <1>3 DEF BranchKnown
  <2>2. row \in BranchRow
    BY <1>1, <2>1 DEF BranchRow, BranchStatuses
  <2>3. /\ row.id = held.id /\ row.proposal = held.proposal /\ row.hash = held.hash
        /\ row.base = held.base /\ row.status = "ready"
    BY <1>1, <2>1 DEF BranchRow, BranchStatuses
  <2> QED
    BY <2>2, <2>3 DEF Bound
<1>5. Grows
  BY <1>1, <1>2 DEF Grows, SelfInv, Tables, improvementVars, mergeVars
<1>6. BranchKnown(row)'
  BY <1>1, <1>2, <1>3, <1>4 DEF BranchKnown
<1>7. Tables'
  <2>1. \A r \in branchRuns' \ branchRuns : BranchKnown(r)'
    BY <1>1, <1>6 DEF SaveBranchRun
  <2>2. consented' \subseteq prepared'
    BY <1>1, <1>2, <1>3 DEF BranchKnown, SelfInv, Tables
  <2> QED
    BY <1>2, <1>5, <2>1, <2>2, TablesKeep DEF SelfInv, Tables, improvementVars, mergeVars
<1>8. BranchKept
  BY <1>1, <1>2, <1>3 DEF BranchKept, BranchGate!GateNext, BranchGate!Approve, BranchKnown
<1> QED
  BY <1>2, <1>5, <1>7, <1>8, StopKeeps, MergeIdle DEF mergeVars

\* Or rejects it: nothing more is approved.
LEMMA BranchCancelled ==
  ASSUME SelfInv, NEW p \in Process, CancelBranch(p), UNCHANGED mergeVars
  PROVE  SelfInv' /\ BranchKept /\ MergeKept
<1>1. PICK held, row :
        /\ held = mine[p] /\ row = [held EXCEPT !.status = "cancelled", !.approved = FALSE]
        /\ SaveBranchRun(row)
  BY DEF CancelBranch
<1>2. Stop(p) /\ UNCHANGED <<main, improvementVars, prepared, consented, reviews>>
  BY DEF CancelBranch
<1>3. BranchKnown(held) /\ held \in BranchRow
  BY <1>1 DEF CancelBranch, SelfInv, InHand, BranchKnown
<1>4. row \in BranchRow
  BY <1>1, <1>3 DEF BranchRow, BranchStatuses
<1>5. /\ row.id = held.id /\ row.proposal = held.proposal /\ row.hash = held.hash
      /\ row.base = held.base /\ row.status = "cancelled" /\ ~row.approved
  BY <1>1, <1>3 DEF BranchRow
<1>6. Bound(row) = Bound(held)
  BY <1>5 DEF Bound
<1>7. Grows
  BY <1>2 DEF Grows, SelfInv, Tables, improvementVars, mergeVars
<1>8. BranchKnown(row)'
  BY <1>2, <1>3, <1>4, <1>5, <1>6 DEF BranchKnown
<1>9. \A r \in branchRuns' \ branchRuns : BranchKnown(r)'
  BY <1>1, <1>8 DEF SaveBranchRun
<1>10. Tables'
  BY <1>2, <1>7, <1>9, TablesKeep DEF SelfInv, Tables, improvementVars, mergeVars
<1> QED
  BY <1>2, <1>7, <1>10, StopKeeps, BranchIdle, MergeIdle DEF mergeVars

\* A run's row with another status.
LEMMA StatusKnown ==
  ASSUME NEW run, BranchKnown(run), NEW status \in BranchStatuses,
         status = "materialized" => Holds(run.base, run.hash)
  PROVE  BranchKnown([run EXCEPT !.status = status])
<1> DEFINE row == [run EXCEPT !.status = status]
<1>1. row \in BranchRow /\ Bound(row) = Bound(run) /\ row.status = status
      /\ row.base = run.base /\ row.hash = run.hash /\ row.approved = run.approved
  BY DEF BranchKnown, BranchRow, Bound
<1> HIDE DEF row
<1>2. BranchKnown(row)
  BY <1>1 DEF BranchKnown
<1> QED
  BY <1>2 DEF row

\* The gateway creates a branch for an approved run only.
LEMMA BranchCreates ==
  ASSUME SelfInv, NEW p \in Process, CreateBranch(p), UNCHANGED mergeVars
  PROVE  SelfInv' /\ BranchKept /\ MergeKept
<1>1. PICK run, branch :
        /\ run = mine[p]
        /\ branch = [name |-> Name(run), run |-> run.id, base |-> run.base,
                     head |-> [pushes |-> 0, file |-> run.hash.text]]
        /\ reviews' = reviews \/ reviews' = reviews \cup {branch}
        /\ \/ \E status \in {"blocked", "failed"} :
                SaveBranchRun([run EXCEPT !.status = status]) /\ Stop(p)
           \/ Creates(run) /\ Go(p, "created_branch") /\ UNCHANGED <<mine, branchRuns>>
  BY DEF CreateBranch
<1>2. UNCHANGED <<main, improvementVars, prepared, consented>>
  BY DEF CreateBranch
<1>3. BranchKnown(run) /\ run.approved
  BY <1>1 DEF CreateBranch, SelfInv, InHand
<1>4. [id |-> branch.run, proposal |-> branch.name.proposal, hash |-> branch.name.hash,
       base |-> branch.base] = Bound(run)
  BY <1>1 DEF Name, Bound
<1>5. branch \in ReviewRow
  BY <1>1, <1>3 DEF ReviewRow, Name, Names, BranchKnown, BranchRow, Hashes, Heads
<1>6. Grows
  BY <1>2 DEF Grows, SelfInv, Tables, improvementVars, mergeVars
<1>7. \A r \in branchRuns' \ branchRuns : BranchKnown(r)'
  <2>1. \A status \in {"blocked", "failed"} : BranchKnown([run EXCEPT !.status = status])
    <3> SUFFICES ASSUME NEW status \in {"blocked", "failed"}
                 PROVE  BranchKnown([run EXCEPT !.status = status])
      OBVIOUS
    <3>1. status \in BranchStatuses
      BY DEF BranchStatuses
    <3>2. status = "materialized" => Holds(run.base, run.hash)
      OBVIOUS
    <3> QED
      BY <1>3, <3>1, <3>2, StatusKnown
  <2>2. \A r : BranchKnown(r) => BranchKnown(r)'
    BY <1>6, BranchStays DEF SelfInv
  <2> QED
    BY <1>1, <2>1, <2>2 DEF SaveBranchRun
<1>8. \A b \in reviews' \ reviews : ReviewKnown(b)'
  BY <1>1, <1>2, <1>3, <1>4, <1>5 DEF ReviewKnown, BranchKnown
<1>9. Tables'
  BY <1>2, <1>6, <1>7, <1>8, TablesKeep DEF SelfInv, Tables, improvementVars, mergeVars
<1>10. SelfInv'
  <2>1. CASE Stop(p)
    BY <1>6, <1>9, <2>1, StopKeeps
  <2>2. CASE Creates(run) /\ Go(p, "created_branch") /\ UNCHANGED <<mine, branchRuns>>
    <3>1. Holds(run.base, run.hash)
      BY <1>3, <2>2 DEF Creates, Holds, BranchKnown
    <3>2. InHand("created_branch", run)
      BY <1>3, <3>1 DEF InHand
    <3>3. InHand("created_branch", run)'
      BY <1>6, <3>2, HandStays DEF SelfInv
    <3>4. at' = [at EXCEPT ![p] = "created_branch"] /\ mine' = [mine EXCEPT ![p] = run]
      BY <1>1, <2>2, HandKept DEF Go
    <3> QED
      BY <1>6, <1>9, <3>3, <3>4, StepKeeps
  <2> QED
    BY <1>1, <2>1, <2>2
<1>11. BranchKept
  <2>1. CASE reviews' = reviews
    BY <1>2, <2>1, BranchIdle
  <2>2. CASE reviews' = reviews \cup {branch}
    BY <1>2, <1>3, <1>4, <2>2 DEF BranchKept, BranchGate!GateNext, BranchGate!Perform, BranchKnown
  <2> QED
    BY <1>1, <2>1, <2>2
<1> QED
  BY <1>10, <1>11, MergeIdle DEF mergeVars

LEMMA BranchRecorded ==
  ASSUME SelfInv, NEW p \in Process, BranchCreated(p), UNCHANGED mergeVars
  PROVE  SelfInv' /\ BranchKept /\ MergeKept
<1>1. PICK held, row :
        held = mine[p] /\ row = [held EXCEPT !.status = "materialized"] /\ SaveBranchRun(row)
  BY DEF BranchCreated
<1>2. Stop(p) /\ UNCHANGED <<main, improvementVars, prepared, consented, reviews>>
  BY DEF BranchCreated
<1>3. BranchKnown(held) /\ Holds(held.base, held.hash)
  BY <1>1 DEF BranchCreated, SelfInv, InHand
<1>4. Grows
  BY <1>2 DEF Grows, SelfInv, Tables, improvementVars, mergeVars
<1>5. BranchKnown(row)
  <2>1. "materialized" \in BranchStatuses
    BY DEF BranchStatuses
  <2>2. BranchKnown([held EXCEPT !.status = "materialized"])
    BY <1>3, <2>1, StatusKnown
  <2> QED
    BY <1>1, <2>2
<1>6. BranchKnown(row)'
  BY <1>4, <1>5, BranchStays DEF SelfInv
<1>7. \A r \in branchRuns' \ branchRuns : BranchKnown(r)'
  BY <1>1, <1>6 DEF SaveBranchRun
<1>8. Tables'
  BY <1>2, <1>4, <1>7, TablesKeep DEF SelfInv, Tables, improvementVars, mergeVars
<1> QED
  BY <1>2, <1>4, <1>8, StopKeeps, BranchIdle, MergeIdle DEF mergeVars

-----------------------------------------------------------------------------
(* The merge.                                                              *)

\* A step that writes no table but those of the merge.
LEMMA MergeWritten ==
  ASSUME SelfInv, UNCHANGED <<main, improvementVars, branchVars, merges>>,
         numbered' \in Nat,
         attested \subseteq attested', attested' \subseteq GreenContents,
         granted \subseteq granted', granted' \subseteq attested',
         \A r \in mergeRuns' \ mergeRuns : MergeKnown(r)'
  PROVE  Grows /\ Tables' /\ BranchKept
<1>1. Grows
  BY DEF Grows, SelfInv, Tables, improvementVars, branchVars
<1>2. Tables'
  BY <1>1, TablesKeep DEF SelfInv, Tables, improvementVars, branchVars
<1> QED
  BY <1>1, <1>2, BranchIdle DEF branchVars

LEMMA MergeBegins ==
  ASSUME SelfInv, NEW p \in Process, MergeByHand(p)
  PROVE  SelfInv' /\ BranchKept /\ MergeKept
<1>1. Grows /\ Tables' /\ BranchKept /\ MergeKept
  BY NothingWritten
     DEF MergeByHand, PrepareMerge, AttestBegin, ReadForMergeApproval, MergeBegin, MergeUnchanged
<1>2. CASE PrepareMerge(p)
  <2>1. PICK b \in branchRuns :
          /\ b.status = "materialized"
          /\ at' = [at EXCEPT ![p] = "plan_merge"] /\ mine' = [mine EXCEPT ![p] = b]
    BY <1>2 DEF PrepareMerge, Go, Hold
  <2>2. InHand("plan_merge", b)'
    BY <1>1, <2>1, BranchStays DEF InHand, SelfInv, Tables
  <2> QED
    BY <1>1, <2>1, <2>2, StepKeeps
<1>3. CASE AttestBegin(p)
  <2>1. PICK r \in mergeRuns :
          /\ r.status = "waiting_ci"
          /\ at' = [at EXCEPT ![p] = "attest"] /\ mine' = [mine EXCEPT ![p] = r]
    BY <1>3 DEF AttestBegin, Go, Hold
  <2>2. InHand("attest", r)
    BY <2>1 DEF InHand, SelfInv, Tables, MergeKnown
  <2>3. InHand("attest", r)'
    BY <1>1, <2>2, HandStays DEF SelfInv
  <2> QED
    BY <1>1, <2>1, <2>3, StepKeeps
<1>4. CASE ReadForMergeApproval(p)
  <2>1. PICK r \in mergeRuns :
          /\ r.status = "waiting_approval"
          /\ at' = [at EXCEPT ![p] = "approve_merge"] /\ mine' = [mine EXCEPT ![p] = r]
    BY <1>4 DEF ReadForMergeApproval, Go, Hold
  <2>2. InHand("approve_merge", r)
    BY <2>1 DEF InHand, SelfInv, Tables, MergeKnown
  <2>3. InHand("approve_merge", r)'
    BY <1>1, <2>2, HandStays DEF SelfInv
  <2> QED
    BY <1>1, <2>1, <2>3, StepKeeps
<1>5. CASE MergeBegin(p)
  <2>1. PICK r \in mergeRuns :
          /\ r.approved
          /\ at' = [at EXCEPT ![p] = "check_merge"] /\ mine' = [mine EXCEPT ![p] = r]
    BY <1>5 DEF MergeBegin, Go, Hold
  <2>2. InHand("check_merge", r)
    BY <2>1 DEF InHand, SelfInv, Tables
  <2>3. InHand("check_merge", r)'
    BY <1>1, <2>2, HandStays DEF SelfInv
  <2> QED
    BY <1>1, <2>1, <2>3, StepKeeps
<1> QED
  BY <1>1, <1>2, <1>3, <1>4, <1>5 DEF MergeByHand

LEMMA MergePlanned ==
  ASSUME SelfInv, NEW p \in Process, PlanMerge(p)
  PROVE  SelfInv' /\ BranchKept /\ MergeKept
<1>1. PICK held, row : held = mine[p] /\ row = MergeRun(held) /\ SaveMergeRun(row)
  BY DEF PlanMerge
<1>2. /\ numbered' = numbered + 1 /\ Stop(p)
      /\ UNCHANGED <<main, improvementVars, branchVars, attested, granted, merges>>
  BY DEF PlanMerge, MergeUnchanged
<1>3. BranchKnown(held) /\ held.status = "materialized"
  BY <1>1 DEF PlanMerge, SelfInv, InHand
<1>4. Holds(held.base, held.hash) /\ held \in BranchRow
  BY <1>3 DEF BranchKnown
<1>5. numbered \in Nat
  BY DEF SelfInv, Tables
<1>6. row = [id |-> numbered + 1, branch |-> held.id, proposal |-> held.proposal,
             hash |-> held.hash, base |-> held.base, status |-> "waiting_ci",
             head |-> Unattested, approved |-> FALSE]
  BY <1>1 DEF MergeRun
<1>7. row \in MergeRow
  BY <1>4, <1>5, <1>6 DEF BranchRow, MergeRow, MergeStatuses
<1>8. row.base = held.base /\ row.hash = held.hash /\ row.status = "waiting_ci"
  BY <1>6
<1>9. row.approved = FALSE
  BY <1>6
<1>10. Holds(row.base, row.hash)'
  BY <1>2, <1>4, <1>8 DEF Holds
<1>11. MergeKnown(row)'
  BY <1>7, <1>8, <1>9, <1>10 DEF MergeKnown
<1>12. \A r \in mergeRuns' \ mergeRuns : MergeKnown(r)'
  BY <1>1, <1>11 DEF SaveMergeRun
<1>13. Grows /\ Tables' /\ BranchKept
  BY <1>2, <1>5, <1>12, MergeWritten DEF SelfInv, Tables
<1> QED
  BY <1>2, <1>13, StopKeeps, MergeIdle

\* What CI attests of the branch's head is what may be approved.
LEMMA MergeAttested ==
  ASSUME SelfInv, NEW p \in Process, Attest(p)
  PROVE  SelfInv' /\ BranchKept /\ MergeKept
<1>1. PICK run : run = mine[p]
  OBVIOUS
<1>2. Stop(p) /\ UNCHANGED <<main, improvementVars, branchVars, numbered, granted, merges>>
  BY DEF Attest, MergeUnchanged
<1>3. MergeKnown(run) /\ ~run.approved
  BY <1>1 DEF Attest, SelfInv, InHand
<1>4. CASE UNCHANGED <<mergeRuns, attested>>
  <2>1. Grows /\ Tables' /\ BranchKept /\ MergeKept
    BY <1>2, <1>4, NothingWritten DEF mergeVars
  <2> QED
    BY <1>2, <2>1, StopKeeps
<1>5. CASE \E b \in reviews :
             /\ SaveMergeRun([run EXCEPT !.status = "waiting_approval", !.head = b.head])
             /\ attested' = attested \cup {Green(run, b.head)}
  <2>0. PICK b \in reviews : \E row :
          /\ row = [run EXCEPT !.status = "waiting_approval", !.head = b.head]
          /\ SaveMergeRun(row)
          /\ attested' = attested \cup {Green(run, b.head)}
    BY <1>5
  <2>1. PICK row :
          /\ row = [run EXCEPT !.status = "waiting_approval", !.head = b.head]
          /\ SaveMergeRun(row)
          /\ attested' = attested \cup {Green(run, b.head)}
    BY <2>0
  <2>2. b.head \in Heads
    BY DEF SelfInv, Tables, ReviewKnown, ReviewRow
  <2>3. run \in MergeRow /\ Holds(run.base, run.hash)
    BY <1>3 DEF MergeKnown
  <2>4. row \in MergeRow
    BY <2>1, <2>2, <2>3 DEF MergeRow, MergeStatuses
  <2>5. /\ row.id = run.id /\ row.hash = run.hash /\ row.base = run.base
        /\ row.status = "waiting_approval" /\ row.head = b.head
    BY <2>1, <2>3 DEF MergeRow
  <2>6. ~row.approved
    BY <1>3, <2>1, <2>3 DEF MergeRow
  <2>7. Green(row, row.head) \in attested'
    BY <2>1, <2>5 DEF Green
  <2>8. Holds(row.base, row.hash)'
    BY <1>2, <2>3, <2>5 DEF Holds
  <2>9. MergeKnown(row)'
    BY <2>4, <2>5, <2>6, <2>7, <2>8 DEF MergeKnown
  <2>10. \A r \in mergeRuns' \ mergeRuns : MergeKnown(r)'
    BY <2>1, <2>9 DEF SaveMergeRun
  <2>11. Green(run, b.head) \in GreenContents
    BY <2>2, <2>3 DEF Green, GreenContents, MergeRow
  <2>12. Grows /\ Tables' /\ BranchKept
    BY <1>2, <2>1, <2>10, <2>11, MergeWritten DEF SelfInv, Tables
  <2>13. MergeKept
    <3>1. CASE Green(run, b.head) \in attested
      BY <1>2, <2>1, <3>1, MergeIdle
    <3>2. CASE Green(run, b.head) \notin attested
      BY <1>2, <2>1, <2>11, <3>2 DEF MergeKept, MergeGate!GateNext, MergeGate!Examine
    <3> QED
      BY <3>1, <3>2
  <2> QED
    BY <1>2, <2>12, <2>13, StopKeeps
<1> QED
  BY <1>1, <1>4, <1>5 DEF Attest

\* The operator approves what was attested.
LEMMA MergeApproved ==
  ASSUME SelfInv, NEW p \in Process, ApproveMerge(p)
  PROVE  SelfInv' /\ BranchKept /\ MergeKept
<1>1. PICK held, row :
        /\ held = mine[p] /\ row = [held EXCEPT !.status = "ready", !.approved = TRUE]
        /\ SaveMergeRun(row) /\ granted' = granted \cup {Green(held, held.head)}
  BY DEF ApproveMerge
<1>2. Stop(p) /\ UNCHANGED <<main, improvementVars, branchVars, numbered, attested, merges>>
  BY DEF ApproveMerge, MergeUnchanged
<1>3. MergeKnown(held) /\ Green(held, held.head) \in attested
  BY <1>1 DEF ApproveMerge, SelfInv, InHand
<1>4. held \in MergeRow /\ Holds(held.base, held.hash)
  BY <1>3 DEF MergeKnown
<1>5. row \in MergeRow
  BY <1>1, <1>4 DEF MergeRow, MergeStatuses
<1>6. /\ row.id = held.id /\ row.hash = held.hash /\ row.base = held.base
      /\ row.status = "ready" /\ row.head = held.head
  BY <1>1, <1>4 DEF MergeRow
<1>7. Green(row, row.head) \in granted'
  BY <1>1, <1>6 DEF Green
<1>8. Holds(row.base, row.hash)'
  BY <1>2, <1>4, <1>6 DEF Holds
<1>9. MergeKnown(row)'
  BY <1>5, <1>6, <1>7, <1>8 DEF MergeKnown
<1>10. \A r \in mergeRuns' \ mergeRuns : MergeKnown(r)'
  BY <1>1, <1>9 DEF SaveMergeRun
<1>11. Grows /\ Tables' /\ BranchKept
  BY <1>1, <1>2, <1>3, <1>10, MergeWritten DEF SelfInv, Tables
<1>12. MergeKept
  BY <1>1, <1>2, <1>3 DEF MergeKept, MergeGate!GateNext, MergeGate!Approve
<1> QED
  BY <1>2, <1>11, <1>12, StopKeeps

\* Or rejects it: nothing more is approved.
LEMMA MergeCancelled ==
  ASSUME SelfInv, NEW p \in Process, CancelMerge(p)
  PROVE  SelfInv' /\ BranchKept /\ MergeKept
<1>1. PICK held, row :
        /\ held = mine[p] /\ row = [held EXCEPT !.status = "cancelled", !.approved = FALSE]
        /\ SaveMergeRun(row)
  BY DEF CancelMerge
<1>2. /\ Stop(p)
      /\ UNCHANGED <<main, improvementVars, branchVars, numbered, attested, granted, merges>>
  BY DEF CancelMerge, MergeUnchanged
<1>3. held \in MergeRow /\ Holds(held.base, held.hash)
  BY <1>1 DEF CancelMerge, SelfInv, InHand, MergeKnown
<1>4. row \in MergeRow
  BY <1>1, <1>3 DEF MergeRow, MergeStatuses
<1>5. row.hash = held.hash /\ row.base = held.base /\ row.status = "cancelled" /\ ~row.approved
  BY <1>1, <1>3 DEF MergeRow
<1>6. Holds(row.base, row.hash)'
  BY <1>2, <1>3, <1>5 DEF Holds
<1>7. MergeKnown(row)'
  BY <1>4, <1>5, <1>6 DEF MergeKnown
<1>8. \A r \in mergeRuns' \ mergeRuns : MergeKnown(r)'
  BY <1>1, <1>7 DEF SaveMergeRun
<1>9. Grows /\ Tables' /\ BranchKept
  BY <1>1, <1>2, <1>8, MergeWritten DEF SelfInv, Tables
<1> QED
  BY <1>2, <1>9, StopKeeps, MergeIdle

\* An approved run's row with another status.
LEMMA MergeStatusKnown ==
  ASSUME NEW run, MergeKnown(run), run.approved, NEW status \in {"blocked", "merged"}
  PROVE  MergeKnown([run EXCEPT !.status = status])
<1>1. PICK row : row = [run EXCEPT !.status = status]
  OBVIOUS
<1>2. run \in MergeRow /\ Holds(run.base, run.hash) /\ Green(run, run.head) \in granted
  BY DEF MergeKnown
<1>3. row \in MergeRow
  BY <1>1, <1>2 DEF MergeRow, MergeStatuses
<1>4. /\ row.id = run.id /\ row.hash = run.hash /\ row.base = run.base
      /\ row.status = status /\ row.head = run.head
  BY <1>1, <1>2 DEF MergeRow
<1>5. Green(row, row.head) = Green(run, run.head)
  BY <1>4 DEF Green
<1>6. MergeKnown(row)
  BY <1>2, <1>3, <1>4, <1>5 DEF MergeKnown
<1> QED
  BY <1>1, <1>6

\* Such a row is saved, or none.
LEMMA MergeSettles ==
  ASSUME SelfInv, NEW p \in Process, NEW run, MergeKnown(run), run.approved,
         UNCHANGED <<main, improvementVars, branchVars, numbered, attested, granted, merges>>,
         \/ UNCHANGED mergeRuns
         \/ \E status \in {"blocked", "merged"} : SaveMergeRun([run EXCEPT !.status = status])
  PROVE  Grows /\ Tables' /\ BranchKept /\ MergeKept
<1>1. Grows
  BY DEF Grows, SelfInv, Tables, improvementVars, branchVars
<1>2. \A r \in mergeRuns' \ mergeRuns : MergeKnown(r)'
  <2>1. CASE UNCHANGED mergeRuns
    BY <2>1
  <2>2. CASE \E status \in {"blocked", "merged"} :
               SaveMergeRun([run EXCEPT !.status = status])
    <3>0. PICK status \in {"blocked", "merged"} : \E row :
            row = [run EXCEPT !.status = status] /\ SaveMergeRun(row)
      BY <2>2
    <3>1. PICK row :
            row = [run EXCEPT !.status = status] /\ SaveMergeRun(row)
      BY <3>0
    <3>2. MergeKnown(row)
      BY <3>1, MergeStatusKnown
    <3>3. MergeKnown(row)'
      BY <1>1, <3>2, MergeStays DEF SelfInv
    <3> QED
      BY <3>1, <3>3 DEF SaveMergeRun
  <2> QED
    BY <2>1, <2>2
<1>3. Tables' /\ BranchKept
  BY <1>2, MergeWritten DEF SelfInv, Tables
<1> QED
  BY <1>1, <1>3, MergeIdle

\* An accepted bundle is of an accepted evaluation.
LEMMA AcceptedEvaluated ==
  ASSUME NEW run, Binding(run)
  PROVE  Evaluated(run.hash)
BY DEF Binding, Accepted, EvaluationOf, Evaluated

\* A run goes on to the merge with the approved head, if that is attested anew.
LEMMA MergeChecked ==
  ASSUME SelfInv, NEW p \in Process, CheckMerge(p)
  PROVE  SelfInv' /\ BranchKept /\ MergeKept
<1>1. PICK run : run = mine[p]
  OBVIOUS
<1>2. UNCHANGED <<main, improvementVars, branchVars, numbered, attested, granted, merges>>
  BY DEF CheckMerge, MergeUnchanged
<1>3. MergeKnown(run) /\ run.approved
  BY <1>1 DEF CheckMerge, SelfInv, InHand
<1>4. \/ Stop(p) /\ UNCHANGED mergeRuns
      \/ SaveMergeRun([run EXCEPT !.status = "blocked"]) /\ Stop(p)
      \/ /\ Binding(run) /\ UNCHANGED mergeRuns
         /\ \E b \in reviews :
              /\ b.head.file = run.hash.text /\ b.head = run.head
              /\ Go(p, "merge") /\ Hold(p, [run EXCEPT !.head = b.head])
  BY <1>1 DEF CheckMerge, Block, SameHead, Attestable
<1>5. Grows /\ Tables' /\ BranchKept /\ MergeKept
  BY <1>2, <1>3, <1>4, MergeSettles
<1>6. CASE Stop(p)
  BY <1>5, <1>6, StopKeeps
<1>7. CASE /\ Binding(run)
           /\ \E b \in reviews :
                /\ b.head.file = run.hash.text /\ b.head = run.head
                /\ Go(p, "merge") /\ Hold(p, [run EXCEPT !.head = b.head])
  <2>1. PICK b \in reviews :
          /\ b.head.file = run.hash.text /\ b.head = run.head
          /\ at' = [at EXCEPT ![p] = "merge"]
          /\ mine' = [mine EXCEPT ![p] = [run EXCEPT !.head = b.head]]
    BY <1>7 DEF Go, Hold
  <2>2. [run EXCEPT !.head = b.head] = run
    BY <1>3, <2>1 DEF MergeKnown, MergeRow
  <2>3. b.head \in Heads
    BY DEF SelfInv, Tables, ReviewKnown, ReviewRow
  <2>4. InHand("merge", run)
    BY <1>3, <1>7, <2>1, <2>3, AcceptedEvaluated DEF InHand
  <2>5. InHand("merge", run)'
    BY <1>5, <2>4, HandStays DEF SelfInv
  <2> QED
    BY <1>5, <2>1, <2>2, <2>5, StepKeeps
<1> QED
  BY <1>4, <1>6, <1>7

\* A merge is made of an approved head, onto the source that was judged.
LEMMA MergeCalled ==
  ASSUME SelfInv, NEW p \in Process, CallMerge(p)
  PROVE  SelfInv' /\ BranchKept /\ MergeKept
<1>1. PICK run : run = mine[p]
  OBVIOUS
<1>2. UNCHANGED <<improvementVars, branchVars, numbered, attested, granted>>
  BY DEF CallMerge
<1>3. /\ MergeKnown(run) /\ run.approved
      /\ run.head \in Heads /\ run.head.file = run.hash.text /\ Evaluated(run.hash)
  BY <1>1 DEF CallMerge, SelfInv, InHand
<1>4. /\ \/ Stop(p) /\ UNCHANGED mergeRuns
         \/ SaveMergeRun([run EXCEPT !.status = "blocked"]) /\ Stop(p)
         \/ Go(p, "merged") /\ UNCHANGED <<mine, mergeRuns>>
      /\ \/ UNCHANGED <<main, merges>>
         \/ /\ Len(main) = run.base
            /\ merges' = merges \cup {[run |-> run.id, green |-> Green(run, run.head),
                                       onto |-> main[run.base]]}
            /\ main' = Append(main, run.head.file)
  BY <1>1 DEF CallMerge, Block, Merges
<1>5. Grows /\ Tables' /\ BranchKept /\ MergeKept
  <2>1. CASE UNCHANGED <<main, merges>>
    BY <1>2, <1>3, <1>4, <2>1, MergeSettles
  <2>2. CASE /\ Len(main) = run.base
             /\ merges' = merges \cup {[run |-> run.id, green |-> Green(run, run.head),
                                        onto |-> main[run.base]]}
             /\ main' = Append(main, run.head.file)
    <3>1. PICK made : made = [run |-> run.id, green |-> Green(run, run.head),
                              onto |-> main[run.base]]
      OBVIOUS
    <3>2. main \in Seq(Content) /\ run.head.file \in Content
      BY <1>3 DEF SelfInv, Tables, Heads
    <3>3. main' \in Seq(Content) /\ Len(main) <= Len(main')
          /\ \A i \in 1 .. Len(main) : main'[i] = main[i]
      BY <2>2, <3>2
    <3>4. Grows
      BY <1>2, <3>3 DEF Grows, improvementVars, branchVars
    <3>5. Green(run, run.head) \in granted
      BY <1>3 DEF MergeKnown
    <3>6. MergeMade(made)
      <4>1. PICK e \in evaluations : e.accepted /\ e.hash = run.hash
        BY <1>3 DEF Evaluated
      <4>2. e.judged = run.hash.original
        BY <4>1 DEF SelfInv, Tables
      <4>3. main[run.base] = run.hash.original
        BY <1>3 DEF MergeKnown, Holds
      <4>4. made.green.hash = run.hash /\ made.green.head = run.head
        BY <3>1 DEF Green
      <4>5. made.onto = main[run.base] /\ made.green = Green(run, run.head)
        BY <3>1
      <4>6. made.green.head.file = e.hash.text
        BY <1>3, <4>1, <4>4
      <4> QED
        BY <3>5, <4>1, <4>2, <4>3, <4>4, <4>5, <4>6 DEF MergeMade
    <3>7. \A m \in merges' \ merges : MergeMade(m)'
      BY <2>2, <3>1, <3>4, <3>6, MadeStays
    <3>10. \A r \in mergeRuns' \ mergeRuns : MergeKnown(r)'
      <4>1. CASE UNCHANGED mergeRuns
        BY <4>1
      <4>2. CASE SaveMergeRun([run EXCEPT !.status = "blocked"])
        <5>1. PICK row : row = [run EXCEPT !.status = "blocked"]
          OBVIOUS
        <5>2. MergeKnown(row)
          BY <1>3, <5>1, MergeStatusKnown
        <5>3. MergeKnown(row)'
          BY <3>4, <5>2, MergeStays DEF SelfInv
        <5> QED
          BY <4>2, <5>1, <5>3 DEF SaveMergeRun
      <4> QED
        BY <1>4, <4>1, <4>2
    <3>8. Tables'
      BY <1>2, <2>2, <3>4, <3>7, <3>10, TablesKeep DEF SelfInv, Tables, improvementVars, branchVars
    <3>9. MergeKept
      <4>1. merges' = merges \cup {made} /\ made.green = Green(run, run.head)
        BY <2>2, <3>1
      <4>2. {m.green : m \in merges'} = {m.green : m \in merges} \cup {Green(run, run.head)}
        BY <4>1
      <4> QED
        BY <1>2, <3>5, <4>2 DEF MergeKept, MergeGate!GateNext, MergeGate!Perform
    <3> QED
      BY <1>2, <3>4, <3>8, <3>9, BranchIdle DEF branchVars
  <2> QED
    BY <1>4, <2>1, <2>2
<1>6. CASE Stop(p)
  BY <1>5, <1>6, StopKeeps
<1>7. CASE Go(p, "merged") /\ UNCHANGED mine
  <2>1. at' = [at EXCEPT ![p] = "merged"] /\ mine' = [mine EXCEPT ![p] = run]
    BY <1>1, <1>7, HandKept DEF Go
  <2>2. InHand("merged", run)
    BY <1>3 DEF InHand
  <2>3. InHand("merged", run)'
    BY <1>5, <2>2, HandStays DEF SelfInv
  <2> QED
    BY <1>5, <2>1, <2>3, StepKeeps
<1> QED
  BY <1>4, <1>5, <1>6, <1>7

LEMMA MergeRecorded ==
  ASSUME SelfInv, NEW p \in Process, MergeDone(p)
  PROVE  SelfInv' /\ BranchKept /\ MergeKept
<1>1. PICK run : run = mine[p] /\ SaveMergeRun([run EXCEPT !.status = "merged"])
  BY DEF MergeDone
<1>2. /\ UNCHANGED <<main, improvementVars, branchVars, numbered, attested, granted, merges>>
      /\ Stop(p)
  BY DEF MergeDone, MergeUnchanged
<1>3. MergeKnown(run) /\ run.approved
  BY <1>1 DEF MergeDone, SelfInv, InHand
<1>4. Grows /\ Tables' /\ BranchKept /\ MergeKept
  BY <1>1, <1>2, <1>3, MergeSettles
<1> QED
  BY <1>2, <1>4, StopKeeps

-----------------------------------------------------------------------------
(* Crashes and people.                                                     *)

LEMMA CrashKeeps ==
  ASSUME SelfInv, NEW p \in Process, ImproveCrash(p)
  PROVE  SelfInv' /\ BranchKept /\ MergeKept
<1>1. Stop(p) /\ UNCHANGED <<main, improvementVars, branchVars, mergeVars>>
  BY DEF ImproveCrash, Dies
<1> QED
  BY <1>1, NothingWritten, StopKeeps

\* A step that no process takes.
LEMMA NobodyMoves ==
  ASSUME SelfInv, Grows, Tables', UNCHANGED processVars
  PROVE  SelfInv'
<1>1. ASSUME NEW q \in Process PROVE InHand(at[q], mine[q])'
  <2>1. PICK a, h : a = at[q] /\ h = mine[q]
    OBVIOUS
  <2>2. InHand(a, h)'
    BY <2>1, HandStays DEF SelfInv
  <2> QED
    BY <2>1, <2>2 DEF processVars
<1> QED
  BY <1>1 DEF SelfInv, processVars

\* A push moves a branch's head, and makes no branch.
LEMMA PushKeeps ==
  ASSUME SelfInv, PushReview, UNCHANGED <<processVars, mergeVars>>
  PROVE  SelfInv' /\ BranchKept /\ MergeKept
<1>0. PICK b \in reviews, file \in Content : \E pushed :
        /\ pushed = [b EXCEPT !.head = [pushes |-> b.head.pushes + 1, file |-> file]]
        /\ reviews' = (reviews \ {b}) \cup {pushed}
  BY DEF PushReview
<1>1. PICK pushed :
        /\ pushed = [b EXCEPT !.head = [pushes |-> b.head.pushes + 1, file |-> file]]
        /\ reviews' = (reviews \ {b}) \cup {pushed}
  BY <1>0
<1>2. UNCHANGED <<main, improvementVars, branchRuns, prepared, consented>>
  BY DEF PushReview
<1>3. ReviewKnown(b) /\ b \in ReviewRow
  BY DEF SelfInv, Tables, ReviewKnown
<1>4. [pushes |-> b.head.pushes + 1, file |-> file] \in Heads
  BY <1>3 DEF ReviewRow, Heads
<1>5. pushed \in ReviewRow
  BY <1>1, <1>3, <1>4 DEF ReviewRow
<1>6. pushed.run = b.run /\ pushed.name = b.name /\ pushed.base = b.base
  BY <1>1, <1>3 DEF ReviewRow
<1>7. ReviewKnown(pushed)'
  BY <1>2, <1>3, <1>5, <1>6 DEF ReviewKnown
<1>8. Grows
  BY <1>2 DEF Grows, SelfInv, Tables, improvementVars, mergeVars
<1>9. Tables'
  BY <1>1, <1>2, <1>7, <1>8, TablesKeep DEF SelfInv, Tables, improvementVars, mergeVars
<1>10. BranchKept
  <2>1. {[id |-> r.run, proposal |-> r.name.proposal, hash |-> r.name.hash,
          base |-> r.base] : r \in reviews'}
        = {[id |-> r.run, proposal |-> r.name.proposal, hash |-> r.name.hash,
            base |-> r.base] : r \in reviews}
    BY <1>1, <1>6
  <2> QED
    BY <1>2, <2>1 DEF BranchKept, BranchGate!gateVars
<1> QED
  BY <1>8, <1>9, <1>10, NobodyMoves, MergeIdle DEF mergeVars

LEMMA PeopleKeep ==
  ASSUME SelfInv, People
  PROVE  SelfInv' /\ BranchKept /\ MergeKept
<1>1. UNCHANGED <<processVars, mergeVars>>
  BY DEF People
<1>2. CASE PushReview
  BY <1>1, <1>2, PushKeeps
<1>3. CASE Tamper /\ UNCHANGED branchVars
  <2>1. UNCHANGED <<main, proposals, candidates, evaluations, branchVars>>
    BY <1>3 DEF Tamper
  <2>2. Grows
    BY <1>1, <2>1 DEF Grows, SelfInv, Tables, branchVars, mergeVars
  <2>3. Tables'
    BY <1>1, <2>1, <2>2, TablesKeep DEF SelfInv, Tables, branchVars, mergeVars
  <2> QED
    BY <1>1, <2>1, <2>2, <2>3, NobodyMoves, BranchIdle, MergeIdle DEF branchVars, mergeVars
<1>4. CASE PushMain
  <2>1. PICK file \in Content : main' = Append(main, file)
    BY <1>4 DEF PushMain
  <2>2. UNCHANGED <<improvementVars, branchVars>>
    BY <1>4 DEF PushMain
  <2>3. main \in Seq(Content)
    BY DEF SelfInv, Tables
  <2>4. main' \in Seq(Content) /\ Len(main) <= Len(main')
        /\ \A i \in 1 .. Len(main) : main'[i] = main[i]
    BY <2>1, <2>3
  <2>5. Grows
    BY <1>1, <2>2, <2>4 DEF Grows, improvementVars, branchVars, mergeVars
  <2>6. Tables'
    BY <1>1, <2>2, <2>5, TablesKeep DEF SelfInv, Tables, improvementVars, branchVars, mergeVars
  <2> QED
    BY <1>1, <2>2, <2>5, <2>6, NobodyMoves, BranchIdle, MergeIdle DEF branchVars, mergeVars
<1> QED
  BY <1>2, <1>3, <1>4 DEF People

-----------------------------------------------------------------------------
(* The specification.                                                      *)

LEMMA SelfStarts ==
  ASSUME SelfInit
  PROVE  SelfInv /\ BranchGate!GateInit /\ MergeGate!GateInit
<1>1. at = [p \in Process |-> "idle"] /\ mine = [p \in Process |-> Nothing]
  BY DEF SelfInit, Quiet
<1>2. main = <<Baseline>> /\ candidates = {} /\ evaluations = {}
  BY DEF SelfInit, ImprovementInit
<1>3. branchRuns = {} /\ prepared = {} /\ consented = {} /\ reviews = {}
  BY DEF SelfInit, BranchInit
<1>4. mergeRuns = {} /\ numbered = 0 /\ attested = {} /\ granted = {} /\ merges = {}
  BY DEF SelfInit, MergeInit
<1>5. main \in Seq(Content)
  BY <1>2, ImprovementAssumption
<1>6. IsFiniteSet(prepared)
  BY <1>3, FS_EmptySet
<1>7. Tables
  BY <1>2, <1>3, <1>4, <1>5, <1>6 DEF Tables
<1>8. \A p \in Process : InHand(at[p], mine[p])
  BY <1>1 DEF InHand
<1>9. BranchGate!GateInit
  BY <1>3 DEF BranchGate!GateInit
<1>10. MergeGate!GateInit
  BY <1>4 DEF MergeGate!GateInit
<1> QED
  BY <1>1, <1>7, <1>8, <1>9, <1>10 DEF SelfInv

LEMMA ImproveKeeps ==
  ASSUME SelfInv, NEW p \in Process, Improve(p) \/ ImproveOther(p) \/ ImproveWork(p)
  PROVE  SelfInv' /\ BranchKept /\ MergeKept
<1>1. CASE (Tick(p) \/ ImproveByHand(p)) /\ UNCHANGED <<branchVars, mergeVars>>
  <2>1. \E i : ProposeBegin(p) \/ MaterializeBegin(p, i) \/ EvaluateBegin(p, i)
    BY <1>1 DEF Tick, ImproveByHand
  <2> QED
    BY <1>1, <2>1, BeginMoves, ImproveMoveKeeps
<1>2. CASE ImproveStep(p) /\ UNCHANGED <<branchVars, mergeVars>>
  BY <1>2, ImproveStepMoves, ImproveMoveKeeps
<1>3. CASE BranchByHand(p) /\ UNCHANGED mergeVars
  BY <1>3, BranchBegins
<1>4. CASE BranchStep(p) /\ UNCHANGED mergeVars
  BY <1>4, BranchPlanned, BranchApproved, BranchCancelled, BranchCreates, BranchRecorded DEF BranchStep
<1>5. CASE MergeByHand(p)
  BY <1>5, MergeBegins
<1>6. CASE MergeStep(p)
  BY <1>6, MergePlanned, MergeAttested, MergeApproved, MergeCancelled, MergeChecked,
     MergeCalled, MergeRecorded
     DEF MergeStep
<1> QED
  BY <1>1, <1>2, <1>3, <1>4, <1>5, <1>6 DEF Improve, ImproveOther, ImproveWork

LEMMA SelfKeeps ==
  ASSUME SelfInv, [SelfNext]_improveVars
  PROVE  SelfInv' /\ BranchKept /\ MergeKept
<1>1. CASE \E p \in Process : Improve(p) \/ ImproveOther(p) \/ ImproveWork(p)
  BY <1>1, ImproveKeeps
<1>2. CASE \E p \in Process : ImproveCrash(p)
  BY <1>2, CrashKeeps
<1>3. CASE People
  BY <1>3, PeopleKeep
<1>4. CASE UNCHANGED improveVars
  <2>1. Grows /\ Tables' /\ BranchKept /\ MergeKept
    BY <1>4, NothingWritten DEF improveVars
  <2> QED
    BY <1>4, <2>1, NobodyMoves DEF improveVars
<1> QED
  BY <1>1, <1>2, <1>3, <1>4 DEF SelfNext

(* Both effects on the repository implement the approval gate: a review    *)
(* branch is created for a candidate and a base that the operator approved *)
(* after they were prepared, and a merge takes a head that the operator    *)
(* approved after CI attested it, for any number of processes, overlaps,   *)
(* crashes, pushes and lost answers.                                       *)
THEOREM ChangesAlwaysApproved == SelfSpec => ChangesAreApproved
<1>1. SelfInit => SelfInv /\ BranchGate!GateInit /\ MergeGate!GateInit
  BY SelfStarts
<1>2. SelfInv /\ [SelfNext]_improveVars => SelfInv' /\ BranchKept /\ MergeKept
  BY SelfKeeps
<1> QED
  BY <1>1, <1>2, PTL DEF SelfSpec, ChangesAreApproved, BranchGate!GateSpec, MergeGate!GateSpec,
                         BranchKept, MergeKept

(* Whatever is merged is what an accepted evaluation credited, onto the    *)
(* very source it was judged against: the evaluator's baseline, the review *)
(* branch's base and the head of the default branch, each read at a time   *)
(* of its own, agree.                                                      *)
THEOREM AlwaysIntegratedAsEvaluated == SelfSpec => []IntegratedAsEvaluated
<1>1. SelfInit => SelfInv
  BY SelfStarts
<1>2. SelfInv /\ [SelfNext]_improveVars => SelfInv'
  BY SelfKeeps
<1>3. SelfInv => IntegratedAsEvaluated
  BY DEF SelfInv, Tables, MergeMade, IntegratedAsEvaluated
<1> QED
  BY <1>1, <1>2, <1>3, PTL DEF SelfSpec

-----------------------------------------------------------------------------
(* A venture that learns. First the facts about totals and rows.           *)

(* The cents of one row are as many as its amount.                         *)
LEMMA RowCents ==
  ASSUME NEW x, NEW n \in Nat
  PROVE  /\ IsFiniteSet({x} \X (1..n))
         /\ Cardinality({x} \X (1..n)) = n
<1>1. IsFiniteSet({x}) /\ Cardinality({x}) = 1
  BY FS_Singleton
<1>2. IsFiniteSet(1..n) /\ Cardinality(1..n) = n
  BY FS_Interval
<1>3. /\ IsFiniteSet({x} \X (1..n))
      /\ Cardinality({x} \X (1..n)) = Cardinality({x}) * Cardinality(1..n)
  BY <1>1, <1>2, FS_Product
<1> QED
  BY <1>1, <1>2, <1>3

(* The cents of finitely many rows are finitely many.                      *)
LEMMA CentsFinite ==
  ASSUME NEW S, IsFiniteSet(S), NEW f \in [S -> Nat]
  PROVE  IsFiniteSet(CentsOf(f))
<1> DEFINE CentsAt(x) == {x} \X (1..f[x])
           AllCents == {CentsAt(x) : x \in S}
           row == [x \in S |-> CentsAt(x)]
<1>1. row \in Surjection(S, AllCents)
  BY DEF Surjection
<1>2. IsFiniteSet(AllCents)
  BY <1>1, FS_Surjection
<1>3. \A T \in AllCents : IsFiniteSet(T)
  <2>1. \A x \in S : IsFiniteSet(CentsAt(x))
    <3> TAKE x \in S
    <3>1. f[x] \in Nat
      OBVIOUS
    <3> QED BY <3>1, RowCents
  <2> QED BY <2>1
<1>4. IsFiniteSet(UNION AllCents)
  <2> HIDE DEF AllCents
  <2> QED BY <1>2, <1>3, FS_UNION
<1> QED
  BY <1>4 DEF CentsOf

(* A set of indices has a least and a largest one.                         *)
LEMMA LeastIndex ==
  ASSUME NEW T \in SUBSET Nat, T # {}
  PROVE  Min(T) \in T /\ \A y \in T : Min(T) <= y
<1>1. PICK x \in T : \A y \in T : <<y, x>> \notin OpToRel(<, Nat)
  BY NatLessThanWellFounded, WFMin
<1>2. \A y \in T : <<y, x>> \notin OpToRel(<, Nat) => x <= y
  BY DEF OpToRel
<1>3. \A y \in T : x <= y
  BY <1>1, <1>2
<1> QED
  BY <1>3 DEF Min

LEMMA LargestIndex ==
  ASSUME NEW n \in Nat, NEW T \in SUBSET (1 .. n), T # {}
  PROVE  Max(T) \in T /\ \A y \in T : Max(T) >= y
<1> DEFINE below == {n - y : y \in T}
<1>1. below \in SUBSET Nat /\ below # {}
  <2>1. \A y \in 1 .. n : n - y \in Nat
    OBVIOUS
  <2> QED
    BY <2>1
<1> HIDE DEF below
<1>2. Min(below) \in below /\ \A z \in below : Min(below) <= z
  BY <1>1, LeastIndex
<1>3. PICK x \in T : Min(below) = n - x
  BY <1>2 DEF below
<1>4. \A y \in T : n - x <= n - y
  BY <1>2, <1>3 DEF below
<1>5. \A y \in T : x >= y
  BY <1>4
<1> QED
  BY <1>5 DEF Max

(* A sequence without its kth element.                                     *)
LEMMA RemovedAt ==
  ASSUME NEW S, NEW rows \in Seq(S), NEW k \in 1 .. Len(rows)
  PROVE  /\ RemoveAt(rows, k) \in Seq(S)
         /\ Len(RemoveAt(rows, k)) = Len(rows) - 1
         /\ \A i \in 1 .. (Len(rows) - 1) :
               RemoveAt(rows, k)[i] = IF i < k THEN rows[i] ELSE rows[i + 1]
<1> DEFINE before == SubSeq(rows, 1, k - 1)
           after == SubSeq(rows, k + 1, Len(rows))
<1>1. Len(rows) \in Nat /\ k \in Nat /\ DOMAIN rows = 1 .. Len(rows)
  BY LenProperties
<1>2. /\ before \in Seq(S) /\ Len(before) = k - 1
      /\ \A i \in 1 .. (k - 1) : before[i] = rows[i]
  BY <1>1, SubSeqProperties
<1>3. /\ after \in Seq(S) /\ Len(after) = Len(rows) - k
      /\ \A i \in 1 .. (Len(rows) - k) : after[i] = rows[k + i]
  <2>1. /\ k + 1 \in Int /\ Len(rows) \in Int
        /\ \A i \in (k + 1) .. Len(rows) : rows[i] \in S
    BY <1>1
  <2>2. /\ after \in Seq(S)
        /\ Len(after) = IF k + 1 <= Len(rows) THEN Len(rows) - (k + 1) + 1 ELSE 0
        /\ \A i \in 1 .. (Len(rows) - (k + 1) + 1) : after[i] = rows[(k + 1) + i - 1]
    BY <2>1, SubSeqProperties
  <2>3. Len(after) = Len(rows) - k
    BY <1>1, <2>2
  <2>4. \A i \in 1 .. (Len(rows) - k) :
          i \in 1 .. (Len(rows) - (k + 1) + 1) /\ (k + 1) + i - 1 = k + i
    BY <1>1
  <2> QED
    BY <2>2, <2>3, <2>4
<1>4. RemoveAt(rows, k) = before \o after
  BY DEF RemoveAt
<1> HIDE DEF before, after
<1>5. /\ before \o after \in Seq(S)
      /\ Len(before \o after) = Len(rows) - 1
      /\ \A i \in 1 .. (Len(rows) - 1) :
            (before \o after)[i] = IF i <= k - 1 THEN before[i] ELSE after[i - (k - 1)]
  <2>1. Len(before) + Len(after) = Len(rows) - 1
    BY <1>1, <1>2, <1>3
  <2>2. /\ before \o after \in Seq(S)
        /\ Len(before \o after) = Len(before) + Len(after)
        /\ \A i \in 1 .. (Len(before) + Len(after)) :
              (before \o after)[i] = IF i <= Len(before) THEN before[i] ELSE after[i - Len(before)]
    BY <1>2, <1>3, ConcatProperties
  <2> QED
    BY <2>1, <2>2, <1>2
<1>6. ASSUME NEW i \in 1 .. (Len(rows) - 1)
      PROVE  (before \o after)[i] = IF i < k THEN rows[i] ELSE rows[i + 1]
  <2>1. CASE i < k
    BY <2>1, <1>1, <1>2, <1>5
  <2>2. CASE ~(i < k)
    <3>1. (before \o after)[i] = after[i - (k - 1)]
      BY <2>2, <1>1, <1>5
    <3>2. i - (k - 1) \in 1 .. (Len(rows) - k) /\ k + (i - (k - 1)) = i + 1
      BY <2>2, <1>1
    <3>3. after[i - (k - 1)] = rows[k + (i - (k - 1))]
      BY <3>2, <1>3
    <3> QED
      BY <2>2, <3>1, <3>2, <3>3
  <2> QED
    BY <2>1, <2>2
<1> QED
  BY <1>4, <1>5, <1>6

(* A total does not grow when rows are dropped or amounts become less.     *)
LEMMA TotalOfLess ==
  ASSUME NEW D, IsFiniteSet(D), NEW f \in [D -> Nat],
         NEW E, NEW g \in [E -> Nat], E \subseteq D, \A y \in E : g[y] <= f[y]
  PROVE  Total(g) \in Nat /\ Total(f) \in Nat /\ Total(g) <= Total(f)
<1>1. CentsOf(g) \subseteq CentsOf(f)
  <2>1. ASSUME NEW y \in E, NEW c \in {y} \X (1 .. g[y])
        PROVE  c \in {y} \X (1 .. f[y])
    <3>1. g[y] \in Nat /\ f[y] \in Nat /\ g[y] <= f[y]
      OBVIOUS
    <3>2. c[2] \in 1 .. f[y]
      BY <3>1
    <3> QED
      BY <3>2
  <2> QED
    BY <2>1 DEF CentsOf
<1>2. IsFiniteSet(CentsOf(f))
  BY CentsFinite
<1>3. IsFiniteSet(CentsOf(g)) /\ Cardinality(CentsOf(g)) <= Cardinality(CentsOf(f))
  BY <1>1, <1>2, FS_Subset
<1> QED
  BY <1>2, <1>3, FS_CardinalityType DEF Total

(* One cent more in one row, old or new, is at most one cent more in all.  *)
LEMMA TotalOfOneMore ==
  ASSUME NEW D, IsFiniteSet(D), NEW f \in [D -> Nat],
         NEW E, NEW g \in [E -> Nat], NEW x, E \subseteq D \cup {x},
         \A y \in E \ {x} : g[y] <= f[y],
         x \in E => g[x] <= (IF x \in D THEN f[x] ELSE 0) + 1
  PROVE  Total(g) \in Nat /\ Total(f) \in Nat /\ Total(g) <= Total(f) + 1
<1> DEFINE n == (IF x \in D THEN f[x] ELSE 0) + 1
<1>1. n \in Nat
  OBVIOUS
<1>2. CentsOf(g) \subseteq CentsOf(f) \cup {<<x, n>>}
  <2>1. ASSUME NEW y \in E, NEW i \in 1 .. g[y]
        PROVE  <<y, i>> \in CentsOf(f) \cup {<<x, n>>}
    <3>1. g[y] \in Nat
      OBVIOUS
    <3>2. CASE y # x
      <4>1. y \in D /\ g[y] <= f[y] /\ f[y] \in Nat
        BY <3>2
      <4>2. i \in 1 .. f[y]
        BY <3>1, <4>1
      <4> QED
        BY <4>1, <4>2 DEF CentsOf
    <3>3. CASE y = x /\ i # n
      <4>1. i \in 1 .. n /\ n \in Nat
        BY <3>1, <3>3, <1>1
      <4>2. x \in D /\ i \in 1 .. f[x]
        BY <4>1, <3>3
      <4> QED
        BY <4>2, <3>3 DEF CentsOf
    <3> QED
      BY <3>2, <3>3
  <2> HIDE DEF n
  <2>2. ASSUME NEW c \in CentsOf(g) PROVE \E y \in E : \E i \in 1 .. g[y] : c = <<y, i>>
    BY DEF CentsOf
  <2> QED
    BY <2>1, <2>2
<1>3. IsFiniteSet(CentsOf(f))
  BY CentsFinite
<1> HIDE DEF n
<1>4. /\ IsFiniteSet(CentsOf(f) \cup {<<x, n>>})
      /\ Cardinality(CentsOf(f) \cup {<<x, n>>}) <= Cardinality(CentsOf(f)) + 1
  <2>1. Cardinality(CentsOf(f)) \in Nat
    BY <1>3, FS_CardinalityType
  <2>2. Cardinality(CentsOf(f) \cup {<<x, n>>})
          = IF <<x, n>> \in CentsOf(f) THEN Cardinality(CentsOf(f)) ELSE Cardinality(CentsOf(f)) + 1
    BY <1>3, FS_AddElement
  <2> QED
    BY <1>3, <2>1, <2>2, FS_AddElement
<1>5. /\ IsFiniteSet(CentsOf(g))
      /\ Cardinality(CentsOf(g)) <= Cardinality(CentsOf(f) \cup {<<x, n>>})
  BY <1>2, <1>4, FS_Subset
<1> QED
  BY <1>3, <1>4, <1>5, FS_CardinalityType DEF Total

(* One cent less in one row, and no more in the others.                    *)
LEMMA TotalOfOneLess ==
  ASSUME NEW D, IsFiniteSet(D), NEW f \in [D -> Nat],
         NEW E, NEW g \in [E -> Nat], NEW x \in D, f[x] > 0, E \subseteq D,
         \A y \in E : g[y] <= f[y], x \in E => g[x] < f[x]
  PROVE  Total(g) \in Nat /\ Total(f) \in Nat /\ Total(g) + 1 <= Total(f)
<1>1. f[x] \in Nat
  OBVIOUS
<1>2. <<x, f[x]>> \in CentsOf(f)
  <2>1. f[x] \in 1 .. f[x]
    BY <1>1
  <2> QED
    BY <2>1 DEF CentsOf
<1>3. CentsOf(g) \subseteq CentsOf(f) \ {<<x, f[x]>>}
  <2>1. ASSUME NEW y \in E, NEW i \in 1 .. g[y]
        PROVE  <<y, i>> \in CentsOf(f) /\ <<y, i>> # <<x, f[x]>>
    <3>1. g[y] \in Nat /\ y \in D /\ f[y] \in Nat /\ g[y] <= f[y]
      OBVIOUS
    <3>2. i \in 1 .. f[y]
      BY <3>1
    <3>3. y = x => i # f[x]
      BY <3>1
    <3> QED
      BY <3>1, <3>2, <3>3 DEF CentsOf
  <2>2. ASSUME NEW c \in CentsOf(g) PROVE \E y \in E : \E i \in 1 .. g[y] : c = <<y, i>>
    BY DEF CentsOf
  <2> QED
    BY <2>1, <2>2
<1>4. IsFiniteSet(CentsOf(f))
  BY CentsFinite
<1>5. /\ IsFiniteSet(CentsOf(f) \ {<<x, f[x]>>})
      /\ Cardinality(CentsOf(f) \ {<<x, f[x]>>}) = Cardinality(CentsOf(f)) - 1
  BY <1>2, <1>4, FS_RemoveElement
<1>6. /\ IsFiniteSet(CentsOf(g))
      /\ Cardinality(CentsOf(g)) <= Cardinality(CentsOf(f) \ {<<x, f[x]>>})
  BY <1>3, <1>5, FS_Subset
<1>7. Cardinality(CentsOf(f)) \in Nat /\ Cardinality(CentsOf(g)) \in Nat
  BY <1>4, <1>6, FS_CardinalityType
<1> QED
  BY <1>5, <1>6, <1>7 DEF Total

-----------------------------------------------------------------------------
(* What is known while a venture learns.                                   *)

Kinds == {"offer", "channel"}

TestsKnown ==
    /\ tests \in Seq(Test)
    /\ \A i \in DOMAIN tests : tests[i].id \in DOMAIN tests
    /\ \A n \in DOMAIN tests : \E i \in DOMAIN tests : tests[i].id = n
    /\ \A i, j \in DOMAIN tests : tests[i].id = tests[j].id => i = j

DraftsKnown ==
    /\ drafts \in [DOMAIN drafts -> Nat \ {0}] /\ IsFiniteSet(DOMAIN drafts)
    /\ \A d \in DOMAIN drafts : d \in Drafts(Len(tests))
    /\ IsFiniteSet(pool)

OfferConcluded == \E j \in DOMAIN tests : tests[j].what = "offer" /\ tests[j].status = "completed"

\* Where a process has leads with an offer, and no channel yet.
WithOffers(here, held) ==
    here = "assign_channel" \/ (here = "save_channel" /\ held.next = "assign_channel")

\* What is known of the memory of a process that is at here.
LearnHand(here, held) ==
    /\ here = "conclude" =>
         /\ held.test \in Test /\ held.test.status = "completed"
         /\ \E i \in DOMAIN tests : tests[i].id = held.test.id /\ tests[i].what = held.test.what
         /\ \A k \in Arm : Resolved(held.test, k) >= MinResolved
    /\ here = "save_channel" => OfferConcluded /\ held.next \in {"search", "assign_channel"}
    /\ here = "assign_channel" => held.next = "assign_channel"
    /\ WithOffers(here, held) =>
         IsFiniteSet(held.leads) /\ held.offer \in [held.leads -> Labels(Len(tests))]
    /\ here = "draft" =>
         IsFiniteSet(held.todo) /\ \A e \in held.todo : e.draft \in Drafts(Len(tests))

\* What is known as well while processes do not overlap.
LearnAlone(here, held) ==
    /\ here = "conclude" =>
         \E i \in DOMAIN tests : tests[i].id = held.test.id /\ tests[i].status = "active"
    /\ WithOffers(here, held) /\ IsActive("offer") =>
         \A l \in held.leads : held.offer[l] # NoLabel
    /\ here = "draft" =>
         \A what \in Kinds : IsActive(what) => \A e \in held.todo : e.draft[what] # NoLabel

Arms(t, k) == [test |-> t.id, arm |-> k]
Offered(held, t, k) == {l \in held.leads : held.offer[l] = Arms(t, k)}
ToDraft(held, t, k) == {e \in held.todo : e.draft[t.what] = Arms(t, k)}

\* The drafts that are still to be saved have their places in the sample.
LearnCap(here, held) ==
    \A i \in DOMAIN tests : \A k \in Arm : tests[i].status = "active" =>
        /\ WithOffers(here, held) /\ tests[i].what = "offer" =>
             Number(Cohort(tests[i], k)) + Cardinality(Offered(held, tests[i], k)) <= MaxAssigned
        /\ here = "draft" =>
             Number(Cohort(tests[i], k)) + Cardinality(ToDraft(held, tests[i], k)) <= MaxAssigned

LearnInv ==
    /\ at = [p \in Process |-> at[p]] /\ mine = [p \in Process |-> mine[p]]
    /\ TestsKnown /\ DraftsKnown /\ SamplesStand
    /\ \A p \in Process : LearnHand(at[p], mine[p])
    /\ "overlap" \notin upsets =>
         /\ \A p, q \in Process : at[p] # "idle" /\ at[q] # "idle" => p = q
         /\ \A p \in Process : LearnAlone(at[p], mine[p])
    /\ upsets = {} => \A p \in Process : LearnCap(at[p], mine[p])

-----------------------------------------------------------------------------
(* The tests.                                                              *)

LEMMA LatestFound ==
  ASSUME TestsKnown, NEW what \in Kinds
  PROVE  /\ Latest(what) # 0 => Latest(what) \in DOMAIN tests /\ tests[Latest(what)].what = what
         /\ Latest(what) = 0 <=> \A i \in DOMAIN tests : tests[i].what # what
<1> DEFINE I == {i \in 1 .. Len(tests) : tests[i].what = what}
<1>1. Len(tests) \in Nat /\ DOMAIN tests = 1 .. Len(tests)
  BY LenProperties DEF TestsKnown
<1>2. Latest(what) = IF I # {} THEN Max(I) ELSE 0
  BY DEF Latest, SelectLastInSeq
<1>3. I \in SUBSET (1 .. Len(tests))
  OBVIOUS
<1> HIDE DEF I
<1>4. I # {} => Max(I) \in I
  BY <1>1, <1>3, LargestIndex
<1>5. \A i \in I : i # 0
  BY <1>1 DEF I
<1> QED
  BY <1>1, <1>2, <1>4, <1>5 DEF I

LEMMA RunningFound ==
  ASSUME TestsKnown, NEW what \in Kinds, Running(what) # 0
  PROVE  /\ Running(what) \in DOMAIN tests /\ tests[Running(what)].what = what
         /\ tests[Running(what)].status = "active"
<1> DEFINE I == {i \in 1 .. Len(tests) : tests[i].what = what /\ tests[i].status = "active"}
<1>1. Len(tests) \in Nat /\ DOMAIN tests = 1 .. Len(tests)
  BY LenProperties DEF TestsKnown
<1>2. Running(what) = IF I # {} THEN Max(I) ELSE 0
  BY DEF Running, SelectLastInSeq
<1>3. I \in SUBSET (1 .. Len(tests))
  OBVIOUS
<1> HIDE DEF I
<1>4. I # {} => Max(I) \in I
  BY <1>1, <1>3, LargestIndex
<1> QED
  BY <1>1, <1>2, <1>4 DEF I

(* A row that is known by its id is replaced, and is the only one that is. *)
LEMMA TestReplaced ==
  ASSUME TestsKnown, NEW t \in Test, SaveTest(t), NEW k \in DOMAIN tests, tests[k].id = t.id
  PROVE  /\ TestsKnown' /\ Len(tests)' = Len(tests) /\ DOMAIN tests' = DOMAIN tests
         /\ \E i \in DOMAIN tests' : tests'[i] = t
         /\ \A i \in DOMAIN tests' : tests'[i] = t
               \/ \E j \in DOMAIN tests : tests'[i] = tests[j] /\ tests[j].id # t.id
         /\ \A j \in DOMAIN tests : tests[j].id # t.id =>
               \E i \in DOMAIN tests' : tests'[i] = tests[j]
<1>1. PICK n \in Nat : n = Len(tests)
  BY LenProperties DEF TestsKnown
<1>2. DOMAIN tests = 1 .. n /\ tests \in Seq(Test)
  BY <1>1, LenProperties DEF TestsKnown
<1>3. /\ \A i \in 1 .. n : tests[i].id \in 1 .. n
      /\ \A m \in 1 .. n : \E i \in 1 .. n : tests[i].id = m
      /\ \A i, j \in 1 .. n : tests[i].id = tests[j].id => i = j
  BY <1>2 DEF TestsKnown
<1>4. {i \in 1 .. Len(tests) : tests[i].id = t.id} = {k}
  <2>1. k \in 1 .. n /\ tests[k].id = t.id
    BY <1>2
  <2>2. \A i \in 1 .. n : tests[i].id = t.id => i = k
    BY <2>1, <1>3
  <2> QED
    BY <2>1, <2>2, <1>1
<1>5. SelectInSeq(tests, LAMBDA u : u.id = t.id) = k
  <2>1. Min({k}) \in {k}
    <3>1. {k} \in SUBSET Nat /\ {k} # {}
      BY <1>2
    <3> QED
      BY <3>1, LeastIndex
  <2> QED
    BY <1>4, <2>1 DEF SelectInSeq
<1>6. PICK rest : rest = RemoveAt(tests, k)
  OBVIOUS
<1>7. tests' = Append(rest, t)
  BY <1>1, <1>2, <1>5, <1>6 DEF SaveTest, RemoveFirstMatch
<1>8. /\ rest \in Seq(Test) /\ Len(rest) = n - 1
      /\ \A i \in 1 .. (n - 1) : rest[i] = IF i < k THEN tests[i] ELSE tests[i + 1]
  BY <1>1, <1>2, <1>6, RemovedAt
<1>9. /\ tests' \in Seq(Test) /\ Len(tests') = n /\ DOMAIN tests' = 1 .. n
      /\ \A i \in 1 .. (n - 1) : tests'[i] = IF i < k THEN tests[i] ELSE tests[i + 1]
      /\ tests'[n] = t
  BY <1>7, <1>8, AppendProperties, LenProperties
<1> DEFINE was(x) == IF x = n THEN k ELSE IF x < k THEN x ELSE x + 1
           is(x) == IF x = k THEN n ELSE IF x < k THEN x ELSE x - 1
<1>10. ASSUME NEW i \in 1 .. n
       PROVE  was(i) \in 1 .. n /\ tests'[i] = IF i = n THEN t ELSE tests[was(i)]
  BY <1>2, <1>9
<1>11. ASSUME NEW j \in 1 .. n, j # k
       PROVE  is(j) \in 1 .. n /\ tests'[is(j)] = tests[j]
  <2>1. is(j) \in 1 .. (n - 1)
    BY <1>2, <1>11
  <2>2. IF is(j) < k THEN j = is(j) ELSE j = is(j) + 1
    BY <1>2, <1>11
  <2> HIDE DEF is
  <2> QED
    BY <2>1, <2>2, <1>9
<1>12. \A i, j \in 1 .. n : was(i) = was(j) => i = j
  BY <1>2
<1>13. \A i \in 1 .. n : i # n => was(i) # k
  BY <1>2
<1> HIDE DEF was, is
<1>14. \A i \in 1 .. n : tests'[i].id = tests[was(i)].id
  <2>1. was(n) = k
    BY DEF was
  <2> QED
    BY <2>1, <1>10
<1>15. \A i \in 1 .. n : i # n => tests[was(i)].id # t.id
  BY <1>2, <1>3, <1>10, <1>13
<1>16. \A i \in 1 .. n : tests'[i].id \in 1 .. n
  BY <1>3, <1>10, <1>14
<1>17. \A i, j \in 1 .. n : tests'[i].id = tests'[j].id => i = j
  <2>1. ASSUME NEW i \in 1 .. n, NEW j \in 1 .. n, tests'[i].id = tests'[j].id PROVE i = j
    <3>1. was(i) \in 1 .. n /\ was(j) \in 1 .. n
      BY <1>10
    <3>2. tests[was(i)].id = tests[was(j)].id
      BY <1>14, <2>1
    <3>3. was(i) = was(j)
      BY <3>1, <3>2, <1>3
    <3> QED
      BY <3>3, <1>12
  <2> QED
    BY <2>1
<1>18. ASSUME NEW j \in 1 .. n, tests[j].id # t.id
       PROVE  \E i \in 1 .. n : tests'[i] = tests[j]
  BY <1>11, <1>18
<1>19. n \in 1 .. n
  BY <1>1, <1>2
<1>20. ASSUME NEW m \in 1 .. n PROVE \E i \in 1 .. n : tests'[i].id = m
  <2>1. CASE m = t.id
    BY <2>1, <1>9, <1>19
  <2>2. CASE m # t.id
    <3>1. PICK j \in 1 .. n : tests[j].id = m
      BY <1>3
    <3> QED
      BY <2>2, <3>1, <1>18
  <2> QED
    BY <2>1, <2>2
<1>21. TestsKnown'
  BY <1>9, <1>16, <1>17, <1>20 DEF TestsKnown
<1>22. \A i \in 1 .. n : tests'[i] = t
          \/ \E j \in 1 .. n : tests'[i] = tests[j] /\ tests[j].id # t.id
  BY <1>10, <1>15
<1>23. \E i \in 1 .. n : tests'[i] = t
  BY <1>9, <1>19
<1>24. Len(tests)' = Len(tests) /\ DOMAIN tests' = DOMAIN tests
  BY <1>1, <1>2, <1>9
<1> QED
  BY <1>2, <1>18, <1>21, <1>22, <1>23, <1>24

(* The next id adds a row at the end.                                      *)
LEMMA TestAdded ==
  ASSUME TestsKnown, NEW what \in Kinds, SaveTest(NewTest(what))
  PROVE  /\ TestsKnown' /\ Len(tests)' = Len(tests) + 1
         /\ \A i \in DOMAIN tests : i \in DOMAIN tests' /\ tests'[i] = tests[i]
         /\ \A i \in DOMAIN tests' : i \in DOMAIN tests \/ tests'[i] = NewTest(what)
         /\ tests'[Len(tests) + 1] = NewTest(what)
<1>1. PICK n \in Nat : n = Len(tests)
  BY LenProperties DEF TestsKnown
<1>2. DOMAIN tests = 1 .. n /\ tests \in Seq(Test)
  BY <1>1, LenProperties DEF TestsKnown
<1>3. /\ NewTest(what) \in Test /\ NewTest(what).id = n + 1
  BY <1>1 DEF NewTest, Test, Kinds
<1>8. /\ \A i \in 1 .. n : tests[i].id \in 1 .. n
      /\ \A m \in 1 .. n : \E i \in 1 .. n : tests[i].id = m
      /\ \A i, j \in 1 .. n : tests[i].id = tests[j].id => i = j
  BY <1>2 DEF TestsKnown
<1>4. ~\E i \in 1 .. Len(tests) : tests[i].id = NewTest(what).id
  <2>1. \A x \in 1 .. n : x # n + 1
    BY <1>1
  <2> QED
    BY <2>1, <1>1, <1>3, <1>8
<1>5. tests' = Append(tests, NewTest(what))
  BY <1>4 DEF SaveTest, RemoveFirstMatch
<1>6. /\ tests' \in Seq(Test) /\ Len(tests') = n + 1 /\ DOMAIN tests' = 1 .. (n + 1)
      /\ \A i \in 1 .. n : tests'[i] = tests[i]
      /\ tests'[n + 1] = NewTest(what)
  BY <1>1, <1>2, <1>3, <1>5, AppendProperties, LenProperties
<1>7. /\ \A i \in 1 .. (n + 1) : i \in 1 .. n \/ i = n + 1
      /\ \A i \in 1 .. n : i \in 1 .. (n + 1) /\ i # n + 1
      /\ n + 1 \in 1 .. (n + 1)
  BY <1>1
<1>13. /\ \A i \in 1 .. n : tests'[i].id \in 1 .. n
       /\ tests'[n + 1].id = n + 1
  BY <1>3, <1>6, <1>8
<1>9. \A i \in 1 .. (n + 1) : tests'[i].id \in 1 .. (n + 1)
  BY <1>13, <1>7
<1>10. ASSUME NEW m \in 1 .. (n + 1) PROVE \E i \in 1 .. (n + 1) : tests'[i].id = m
  <2>1. CASE m = n + 1
    BY <2>1, <1>13, <1>7
  <2>2. CASE m \in 1 .. n
    <3>1. PICK i \in 1 .. n : tests[i].id = m
      BY <2>2, <1>8
    <3> QED
      BY <3>1, <1>6, <1>7
  <2> QED
    BY <2>1, <2>2, <1>7
<1>11. ASSUME NEW i \in 1 .. (n + 1), NEW j \in 1 .. (n + 1), tests'[i].id = tests'[j].id
       PROVE  i = j
  <2>1. CASE i \in 1 .. n /\ j \in 1 .. n
    BY <2>1, <1>6, <1>8, <1>11
  <2>2. CASE i \in 1 .. n /\ j = n + 1
    BY <2>2, <1>7, <1>13, <1>11
  <2>3. CASE i = n + 1 /\ j \in 1 .. n
    BY <2>3, <1>7, <1>13, <1>11
  <2> QED
    BY <2>1, <2>2, <2>3, <1>7
<1>12. TestsKnown'
  BY <1>6, <1>9, <1>10, <1>11 DEF TestsKnown
<1> QED
  BY <1>1, <1>2, <1>6, <1>7, <1>12

-----------------------------------------------------------------------------
(* What only grows.                                                        *)

LearnGrows ==
    /\ Len(tests) \in Nat /\ Len(tests)' \in Nat /\ Len(tests) <= Len(tests)'
    /\ \A i \in DOMAIN tests : \E j \in DOMAIN tests' :
         /\ tests'[j].id = tests[i].id /\ tests'[j].what = tests[i].what
         /\ tests[i].status = "completed" => tests'[j].status = "completed"
    /\ \A t \in Test : \A k \in Arm :
         Resolved(t, k) \in Nat /\ Resolved(t, k)' \in Nat /\ Resolved(t, k) <= Resolved(t, k)'

LEMMA DraftsMore ==
  ASSUME NEW m \in Nat, NEW n \in Nat, m <= n
  PROVE  Labels(m) \subseteq Labels(n) /\ Drafts(m) \subseteq Drafts(n)
<1>1. 0 .. m \subseteq 0 .. n
  OBVIOUS
<1>2. Labels(m) \subseteq Labels(n)
  BY <1>1 DEF Labels
<1> QED
  BY <1>2 DEF Drafts

(* What a process has in its memory stays true of what the others save.    *)
LEMMA LearnHandStays ==
  ASSUME LearnGrows, NEW here, NEW held, LearnHand(here, held)
  PROVE  LearnHand(here, held)'
<1>1. Labels(Len(tests)) \subseteq Labels(Len(tests))' /\ Drafts(Len(tests)) \subseteq Drafts(Len(tests))'
  BY DraftsMore DEF LearnGrows
<1>2. OfferConcluded => OfferConcluded'
  BY DEF LearnGrows, OfferConcluded
<1>3. ASSUME here = "conclude"
      PROVE  /\ \E i \in DOMAIN tests' : tests'[i].id = held.test.id /\ tests'[i].what = held.test.what
             /\ \A k \in Arm : Resolved(held.test, k)' >= MinResolved
  <2>1. held.test \in Test /\ MinResolved \in Nat
    BY <1>3, TestsAssumption DEF LearnHand
  <2>2. \E i \in DOMAIN tests : tests[i].id = held.test.id /\ tests[i].what = held.test.what
    BY <1>3 DEF LearnHand
  <2>3. ASSUME NEW k \in Arm PROVE Resolved(held.test, k)' >= MinResolved
    <3>1. Resolved(held.test, k) >= MinResolved
      BY <1>3 DEF LearnHand
    <3>2. /\ Resolved(held.test, k) \in Nat /\ Resolved(held.test, k)' \in Nat
          /\ Resolved(held.test, k) <= Resolved(held.test, k)'
      BY <2>1 DEF LearnGrows
    <3> QED
      BY <2>1, <3>1, <3>2
  <2> QED
    BY <2>2, <2>3 DEF LearnGrows
<1>4. WithOffers(here, held) =>
        IsFiniteSet(held.leads) /\ held.offer \in [held.leads -> Labels(Len(tests))']
  <2>1. WithOffers(here, held) =>
          IsFiniteSet(held.leads) /\ held.offer \in [held.leads -> Labels(Len(tests))]
    BY DEF LearnHand
  <2> QED
    BY <1>1, <2>1
<1> QED
  BY <1>1, <1>2, <1>3, <1>4 DEF LearnHand, WithOffers

-----------------------------------------------------------------------------
(* Numbers of drafts.                                                      *)

LEMMA NumberType ==
  ASSUME DraftsKnown, NEW D \in SUBSET DOMAIN drafts
  PROVE  /\ Number(D) \in Nat /\ IsFiniteSet(D)
         /\ [d \in D |-> drafts[d]] \in [D -> Nat]
<1>1. IsFiniteSet(D)
  BY FS_Subset DEF DraftsKnown
<1>2. [d \in D |-> drafts[d]] \in [D -> Nat]
  BY DEF DraftsKnown
<1>3. Total([d \in D |-> drafts[d]]) \in Nat
  BY <1>1, <1>2, TotalOfLess
<1> QED
  BY <1>1, <1>2, <1>3 DEF Number

LEMMA CohortType ==
  ASSUME DraftsKnown, NEW t, NEW k
  PROVE  /\ Cohort(t, k) \in SUBSET DOMAIN drafts /\ Number(Cohort(t, k)) \in Nat
         /\ Cohort(t, k) \cap Answered \in SUBSET DOMAIN drafts /\ Resolved(t, k) \in Nat
<1>1. Cohort(t, k) \in SUBSET DOMAIN drafts
  BY DEF Cohort, BagToSet
<1>2. Cohort(t, k) \cap Answered \in SUBSET DOMAIN drafts
  BY <1>1
<1> QED
  BY <1>1, <1>2, NumberType DEF Resolved

-----------------------------------------------------------------------------
(* Steps that leave tests and drafts alone.                                *)

LEMMA LearnStill ==
  ASSUME LearnInv, UNCHANGED <<tests, drafts>>, IsFiniteSet(pool'), upsets \subseteq upsets'
  PROVE  LearnGrows /\ TestsKnown' /\ DraftsKnown' /\ SamplesStand'
         /\ ConclusionsStand /\ NobodyIsPassed
<1>1. Len(tests) \in Nat
  BY LenProperties DEF LearnInv, TestsKnown
<1>2. \A t \in Test : \A k \in Arm : Resolved(t, k) \in Nat /\ Resolved(t, k)' = Resolved(t, k)
  <2>1. \A t \in Test : \A k \in Arm : Resolved(t, k) \in Nat
    BY CohortType DEF LearnInv
  <2>2. \A t, k : Resolved(t, k)' = Resolved(t, k)
    BY DEF Resolved, Cohort, Answered, Number
  <2> QED
    BY <2>1, <2>2
<1>3. LearnGrows
  BY <1>1, <1>2 DEF LearnGrows
<1>4. TestsKnown' /\ DraftsKnown'
  BY DEF LearnInv, TestsKnown, DraftsKnown
<1>5. SamplesStand'
  <2>1. upsets' = {} => upsets = {}
    OBVIOUS
  <2> QED
    BY <2>1 DEF LearnInv, SamplesStand, Resolved, Cohort, Answered, Number
<1>6. BagToSet(drafts' (-) drafts) = {}
  <2>1. \A d \in DOMAIN drafts : ~(drafts[d] - drafts[d] > 0)
    BY DEF LearnInv, DraftsKnown
  <2> QED
    BY <2>1 DEF BagToSet, (-)
<1> QED
  BY <1>3, <1>4, <1>5, <1>6 DEF ConclusionsStand, NobodyIsPassed

(* A step of one process: what is left to show is what it saves and what   *)
(* it has in its memory after it.                                          *)
LearnMove(p) ==
    /\ \E here, held : at' = [at EXCEPT ![p] = here] /\ mine' = [mine EXCEPT ![p] = held]
    /\ LearnGrows /\ TestsKnown' /\ DraftsKnown' /\ SamplesStand'
    /\ upsets \subseteq upsets'
    /\ "overlap" \notin upsets' => \A q \in Process \ {p} : at[q] = "idle"
    /\ LearnHand(at[p], mine[p])'
    /\ "overlap" \notin upsets' => LearnAlone(at[p], mine[p])'
    /\ upsets' = {} => LearnCap(at[p], mine[p])'

LEMMA LearnMoveKeeps ==
  ASSUME LearnInv, NEW p \in Process, LearnMove(p)
  PROVE  LearnInv'
<1>1. PICK here, held : at' = [at EXCEPT ![p] = here] /\ mine' = [mine EXCEPT ![p] = held]
  BY DEF LearnMove
<1>2. /\ at' = [q \in Process |-> at'[q]] /\ mine' = [q \in Process |-> mine'[q]]
      /\ \A q \in Process \ {p} : at'[q] = at[q] /\ mine'[q] = mine[q]
  BY <1>1 DEF LearnInv
<1>3. ASSUME NEW q \in Process PROVE LearnHand(at[q], mine[q])'
  <2>1. CASE q = p
    BY <2>1 DEF LearnMove
  <2>2. CASE q # p
    <3>1. PICK a, h : a = at[q] /\ h = mine[q]
      OBVIOUS
    <3>2. LearnHand(a, h)'
      BY <3>1, LearnHandStays DEF LearnInv, LearnMove
    <3> QED
      BY <2>2, <3>1, <3>2, <1>2
  <2> QED
    BY <2>1, <2>2
<1>4. ASSUME "overlap" \notin upsets'
      PROVE  /\ \A q, r \in Process : at'[q] # "idle" /\ at'[r] # "idle" => q = r
             /\ \A q \in Process : LearnAlone(at[q], mine[q])'
  <2>1. \A q \in Process \ {p} : at'[q] = "idle"
    BY <1>2, <1>4 DEF LearnMove
  <2>2. \A q \in Process \ {p} : LearnAlone(at[q], mine[q])'
    BY <2>1 DEF LearnAlone, WithOffers
  <2> QED
    BY <2>1, <2>2, <1>4 DEF LearnMove
<1>5. ASSUME upsets' = {}, NEW q \in Process PROVE LearnCap(at[q], mine[q])'
  <2>1. CASE q = p
    BY <2>1, <1>5 DEF LearnMove
  <2>2. CASE q # p
    <3>1. at'[q] = "idle"
      BY <2>2, <1>2, <1>5 DEF LearnMove
    <3> QED
      BY <3>1 DEF LearnCap, WithOffers
  <2> QED
    BY <2>1, <2>2
<1> QED
  BY <1>2, <1>3, <1>4, <1>5 DEF LearnInv, LearnMove

\* Where a process has nothing in its memory that would matter.
LearnLabels ==
    {"idle", "evaluate", "decide", "apply", "offer", "channel", "turn", "search", "assign",
     "save_offer"}

\* The process that works is the only one, or has been overlapped.
Working(p) ==
    /\ upsets \subseteq upsets'
    /\ "overlap" \notin upsets' => \A q \in Process \ {p} : at[q] = "idle"

LearnGoes(p) ==
    \E here \in LearnLabels : \E held :
        at' = [at EXCEPT ![p] = here] /\ mine' = [mine EXCEPT ![p] = held]

LEMMA LearnFree ==
  ASSUME LearnInv, NEW p \in Process, LearnGoes(p), Working(p),
         LearnGrows, TestsKnown', DraftsKnown', SamplesStand'
  PROVE  LearnMove(p)
<1>1. PICK here \in LearnLabels : \E held :
        at' = [at EXCEPT ![p] = here] /\ mine' = [mine EXCEPT ![p] = held]
  BY DEF LearnGoes
<1>2. at'[p] = here
  BY <1>1 DEF LearnInv
<1>3. /\ here # "conclude" /\ here # "save_channel" /\ here # "assign_channel" /\ here # "draft"
  BY DEF LearnLabels
<1>4. LearnHand(at[p], mine[p])' /\ LearnAlone(at[p], mine[p])' /\ LearnCap(at[p], mine[p])'
  BY <1>2, <1>3 DEF LearnHand, LearnAlone, LearnCap, WithOffers
<1> QED
  BY <1>1, <1>4 DEF LearnMove, Working

LEMMA LearnIdles ==
  ASSUME LearnInv, NEW p \in Process, LearnGoes(p), Working(p),
         UNCHANGED <<tests, drafts>>, IsFiniteSet(pool')
  PROVE  LearnMove(p) /\ ConclusionsStand /\ NobodyIsPassed
BY LearnStill, LearnFree DEF Working

LEMMA AtWork ==
  ASSUME LearnInv, NEW p \in Process, at[p] # "idle", UNCHANGED upsets
  PROVE  Working(p)
BY DEF LearnInv, Working

LEMMA EntersWorking ==
  ASSUME LearnInv, NEW p \in Process, Enters(p)
  PROVE  Working(p)
<1>1. upsets \subseteq upsets'
  BY DEF Enters
<1>2. ASSUME "overlap" \notin upsets', NEW q \in Process \ {p} PROVE at[q] = "idle"
  <2>1. CASE \E r \in Process : at[r] # "idle"
    <3>1. upsets' = upsets \cup {"overlap"}
      BY <2>1 DEF Enters
    <3> QED
      BY <3>1, <1>2
  <2> QED
    BY <2>1
<1> QED
  BY <1>1, <1>2 DEF Working

LEMMA Steps ==
  ASSUME LearnInv, NEW p \in Process
  PROVE  /\ Stop(p) => LearnGoes(p)
         /\ \A here \in LearnLabels : Onward(p, here) => LearnGoes(p)
         /\ \A here \in LearnLabels : \A held : Go(p, here) /\ Hold(p, held) => LearnGoes(p)
         /\ AfterRefresh(p) => LearnGoes(p)
         /\ \A what \in Kinds : AfterTest(p, what) => LearnGoes(p)
<1>1. \A here \in LearnLabels : \A held : Go(p, here) /\ Hold(p, held) => LearnGoes(p)
  BY DEF Go, Hold, LearnGoes
<1>2. Stop(p) => LearnGoes(p)
  BY <1>1 DEF Stop, LearnLabels
<1>3. UNCHANGED mine => Hold(p, mine[p])
  BY DEF LearnInv, Hold
<1>4. \A here \in LearnLabels : Onward(p, here) => LearnGoes(p)
  BY <1>1, <1>3 DEF Onward
<1>5. AfterRefresh(p) => LearnGoes(p)
  BY <1>1, <1>2 DEF AfterRefresh, LearnLabels
<1>6. \A what \in Kinds : AfterTest(p, what) => LearnGoes(p)
  BY <1>1, <1>5 DEF AfterTest, LearnLabels
<1> QED
  BY <1>1, <1>2, <1>4, <1>5, <1>6

-----------------------------------------------------------------------------
(* The steps of the refresh.                                               *)

LearnKeeps(p) == LearnMove(p) /\ ConclusionsStand /\ NobodyIsPassed

(* What is known in memory depends on the tests and the drafts alone.      *)
LEMMA LearnSame ==
  ASSUME UNCHANGED <<tests, drafts>>, NEW here, NEW held
  PROVE  /\ LearnHand(here, held) => LearnHand(here, held)'
         /\ LearnAlone(here, held) => LearnAlone(here, held)'
         /\ LearnCap(here, held) => LearnCap(here, held)'
<1>1. \A t, k : Resolved(t, k)' = Resolved(t, k)
  BY DEF Resolved, Cohort, Answered, Number
<1>2. \A t, k : Number(Cohort(t, k))' = Number(Cohort(t, k))
  BY DEF Cohort, Number
<1>3. OfferConcluded' = OfferConcluded
  BY DEF OfferConcluded
<1>4. \A what \in Kinds : IsActive(what)' = IsActive(what)
  BY DEF IsActive, HasStatus, Latest, SelectLastInSeq
<1>5. IsActive("offer")' = IsActive("offer")
  BY <1>4 DEF Kinds
<1>6. LearnHand(here, held) => LearnHand(here, held)'
  BY <1>1, <1>3 DEF LearnHand, WithOffers
<1>7. LearnAlone(here, held) => LearnAlone(here, held)'
  BY <1>4, <1>5 DEF LearnAlone, WithOffers
<1>8. LearnCap(here, held) => LearnCap(here, held)'
  BY <1>2 DEF LearnCap, WithOffers, Offered, ToDraft, Arms
<1> QED
  BY <1>6, <1>7, <1>8

(* A step to a place where memory matters.                                 *)
LEMMA LearnMoves ==
  ASSUME LearnInv, NEW p \in Process, NEW here, NEW held,
         at' = [at EXCEPT ![p] = here], mine' = [mine EXCEPT ![p] = held], Working(p),
         LearnGrows, TestsKnown', DraftsKnown', SamplesStand', LearnHand(here, held)',
         "overlap" \notin upsets' => LearnAlone(here, held)',
         upsets' = {} => LearnCap(here, held)'
  PROVE  LearnMove(p)
<1>1. at'[p] = here /\ mine'[p] = held
  BY DEF LearnInv
<1>2. /\ LearnHand(at[p], mine[p])'
      /\ "overlap" \notin upsets' => LearnAlone(at[p], mine[p])'
      /\ upsets' = {} => LearnCap(at[p], mine[p])'
  BY <1>1
<1> QED
  BY <1>2 DEF LearnMove, Working

LEMMA StandsStill ==
  ASSUME LearnInv, NEW p \in Process, NEW here, NEW held,
         at' = [at EXCEPT ![p] = here], mine' = [mine EXCEPT ![p] = held], Working(p),
         UNCHANGED <<tests, drafts, pool>>, LearnHand(here, held),
         "overlap" \notin upsets' => LearnAlone(here, held),
         upsets' = {} => LearnCap(here, held)
  PROVE  LearnKeeps(p)
<1>1. upsets \subseteq upsets' /\ IsFiniteSet(pool')
  BY DEF Working, LearnInv, DraftsKnown
<1>2. LearnGrows /\ TestsKnown' /\ DraftsKnown' /\ SamplesStand' /\ ConclusionsStand /\ NobodyIsPassed
  BY <1>1, LearnStill
<1>3. /\ LearnHand(here, held)'
      /\ "overlap" \notin upsets' => LearnAlone(here, held)'
      /\ upsets' = {} => LearnCap(here, held)'
  BY LearnSame
<1>4. LearnMove(p)
  BY <1>2, <1>3, LearnMoves
<1> QED
  BY <1>2, <1>4 DEF LearnKeeps

LEMMA RefreshKeeps ==
  ASSUME LearnInv, NEW p \in Process, Evaluate(p) \/ SaveDecision(p) \/ ApplyStage(p)
  PROVE  LearnKeeps(p)
<1>1. at[p] # "idle" /\ UNCHANGED <<tests, drafts, pool, upsets>>
  BY DEF Evaluate, SaveDecision, ApplyStage, learningVars, testVars
<1>2. LearnGoes(p)
  <2>1. "offer" \in LearnLabels /\ "decide" \in LearnLabels /\ "apply" \in LearnLabels
    BY DEF LearnLabels
  <2>2. CASE Evaluate(p)
    BY <2>1, <2>2, Steps DEF Evaluate
  <2>3. CASE SaveDecision(p)
    BY <2>1, <2>3, Steps DEF SaveDecision
  <2>4. CASE ApplyStage(p)
    BY <2>1, <2>4, Steps DEF ApplyStage
  <2> QED
    BY <2>2, <2>3, <2>4
<1>3. IsFiniteSet(pool') /\ Working(p)
  BY <1>1, AtWork DEF LearnInv, DraftsKnown
<1> QED
  BY <1>1, <1>2, <1>3, LearnIdles DEF LearnKeeps

LEMMA CohortOf ==
  ASSUME NEW t, NEW u, t.id = u.id, t.what = u.what, NEW k
  PROVE  Cohort(t, k) = Cohort(u, k) /\ Resolved(t, k) = Resolved(u, k)
BY DEF Cohort, Resolved

LEMMA JudgeKeeps ==
  ASSUME LearnInv, NEW p \in Process, NEW what \in Kinds, Judge(p, what)
  PROVE  LearnKeeps(p)
<1> DEFINE i == Running(what)
<1>1. at[p] # "idle" /\ UNCHANGED <<tests, drafts, pool, upsets>>
  BY DEF Judge, learningVars, testVars, Kinds
<1>2. IsFiniteSet(pool') /\ Working(p)
  BY <1>1, AtWork DEF LearnInv, DraftsKnown
<1>3. CASE AfterTest(p, what)
  BY <1>1, <1>2, <1>3, Steps, LearnIdles DEF LearnKeeps
<1>4. CASE /\ i # 0
           /\ \E winner \in Conclusions(tests[i]) :
                Hold(p, [next |-> mine[p].next,
                         test |-> [tests[i] EXCEPT !.status = "completed", !.winner = winner]])
           /\ Go(p, "conclude")
  <2>1. i \in DOMAIN tests /\ tests[i].what = what /\ tests[i].status = "active"
    BY <1>4, RunningFound DEF LearnInv
  <2>2. PICK winner \in Conclusions(tests[i]) :
          Hold(p, [next |-> mine[p].next,
                   test |-> [tests[i] EXCEPT !.status = "completed", !.winner = winner]])
    BY <1>4
  <2>3. PICK held : held = [next |-> mine[p].next,
                            test |-> [tests[i] EXCEPT !.status = "completed", !.winner = winner]]
    OBVIOUS
  <2>4. tests[i] \in Test
    BY <2>1, LenProperties DEF LearnInv, TestsKnown
  <2>5. winner \in Arm \cup {"none"} /\ HaveResolved(tests[i], MinResolved)
    BY <2>2 DEF Conclusions
  <2>6. /\ held.test \in Test /\ held.test.status = "completed"
        /\ held.test.id = tests[i].id /\ held.test.what = tests[i].what
    BY <2>3, <2>4, <2>5 DEF Test
  <2>7. \A k \in Arm : Resolved(held.test, k) >= MinResolved
    BY <2>5, <2>6, CohortOf DEF HaveResolved
  <2>8. LearnHand("conclude", held)
    BY <2>1, <2>6, <2>7 DEF LearnHand, WithOffers
  <2>9. LearnAlone("conclude", held) /\ LearnCap("conclude", held)
    BY <2>1, <2>6 DEF LearnAlone, LearnCap, WithOffers
  <2>10. at' = [at EXCEPT ![p] = "conclude"] /\ mine' = [mine EXCEPT ![p] = held]
    BY <1>4, <2>2, <2>3 DEF Go, Hold
  <2> QED
    BY <1>1, <1>2, <2>8, <2>9, <2>10, StandsStill
<1> QED
  BY <1>3, <1>4 DEF Judge

LEMMA ConcludeKeeps ==
  ASSUME LearnInv, NEW p \in Process, Conclude(p)
  PROVE  LearnKeeps(p)
<1>1. PICK t : t = mine[p].test
  OBVIOUS
<1>2. /\ at[p] = "conclude" /\ SaveTest(t) /\ AfterTest(p, t.what)
      /\ UNCHANGED <<pool, drafts, upsets>>
  BY <1>1 DEF Conclude
<1>3. /\ t \in Test /\ t.status = "completed"
      /\ \E i \in DOMAIN tests : tests[i].id = t.id /\ tests[i].what = t.what
      /\ \A k \in Arm : Resolved(t, k) >= MinResolved
  BY <1>1, <1>2 DEF LearnInv, LearnHand
<1>4. PICK i \in DOMAIN tests : tests[i].id = t.id /\ tests[i].what = t.what
  BY <1>3
<1>5. /\ TestsKnown /\ DraftsKnown /\ SamplesStand
  BY DEF LearnInv
<1>6. /\ TestsKnown' /\ Len(tests)' = Len(tests) /\ DOMAIN tests' = DOMAIN tests
      /\ \E n \in DOMAIN tests' : tests'[n] = t
      /\ \A n \in DOMAIN tests' : tests'[n] = t
            \/ \E j \in DOMAIN tests : tests'[n] = tests[j] /\ tests[j].id # t.id
      /\ \A j \in DOMAIN tests : tests[j].id # t.id =>
            \E n \in DOMAIN tests' : tests'[n] = tests[j]
  BY <1>2, <1>3, <1>4, <1>5, TestReplaced
<1>7. \A j \in DOMAIN tests : tests[j].id = t.id => j = i
  BY <1>4, <1>5 DEF TestsKnown
<1>8. /\ \A u, k : Resolved(u, k)' = Resolved(u, k)
      /\ \A u, k : Number(Cohort(u, k))' = Number(Cohort(u, k))
  BY <1>2 DEF Resolved, Cohort, Answered, Number
<1>9. LearnGrows
  <2>1. Len(tests) \in Nat
    BY <1>5, LenProperties DEF TestsKnown
  <2>2. \A u \in Test : \A k \in Arm : Resolved(u, k) \in Nat
    BY <1>5, CohortType
  <2>3. \A j \in DOMAIN tests : \E n \in DOMAIN tests' :
          /\ tests'[n].id = tests[j].id /\ tests'[n].what = tests[j].what
          /\ tests[j].status = "completed" => tests'[n].status = "completed"
    <3> TAKE j \in DOMAIN tests
    <3>1. CASE tests[j].id = t.id
      <4>1. tests[j].what = t.what
        BY <3>1, <1>4, <1>7
      <4> QED
        BY <3>1, <4>1, <1>3, <1>6
    <3>2. CASE tests[j].id # t.id
      BY <3>2, <1>6
    <3> QED
      BY <3>1, <3>2
  <2> QED
    BY <1>6, <1>8, <2>1, <2>2, <2>3 DEF LearnGrows
<1>10. DraftsKnown'
  BY <1>2, <1>5, <1>6 DEF DraftsKnown
<1>11. OfferConcluded => OfferConcluded'
  BY <1>9 DEF LearnGrows, OfferConcluded
<1>12. SamplesStand'
  <2>1. ASSUME NEW n \in DOMAIN tests' PROVE \E j \in DOMAIN tests : tests[j].what = tests'[n].what
    BY <1>4, <1>6, <2>1
  <2>2. ASSUME NEW n \in DOMAIN tests', tests'[n].what = "channel" PROVE OfferConcluded'
    <3>1. OfferConcluded
      BY <1>5, <2>1, <2>2 DEF SamplesStand, OfferConcluded
    <3> QED
      BY <3>1, <1>11
  <2>3. ASSUME NEW n \in DOMAIN tests', NEW k \in Arm
        PROVE  /\ tests'[n].status = "completed" => Resolved(tests[n], k)' >= MinResolved
               /\ upsets' = {} /\ tests'[n].status = "active" =>
                    Number(Cohort(tests[n], k))' <= MaxAssigned
    <3>1. PICK u : u = tests'[n]
      OBVIOUS
    <3>2. CASE u = t
      <4>1. u.status = "completed" /\ Resolved(u, k)' >= MinResolved
        BY <3>2, <1>3, <1>8
      <4> QED
        BY <4>1, <3>1
    <3>3. CASE \E j \in DOMAIN tests : u = tests[j]
      <4>1. /\ u.status = "completed" => Resolved(u, k) >= MinResolved
            /\ upsets = {} /\ u.status = "active" => Number(Cohort(u, k)) <= MaxAssigned
        BY <3>3, <1>5 DEF SamplesStand
      <4>2. /\ u.status = "completed" => Resolved(u, k)' >= MinResolved
            /\ upsets' = {} /\ u.status = "active" => Number(Cohort(u, k))' <= MaxAssigned
        BY <4>1, <1>2, <1>8
      <4> QED
        BY <4>2, <3>1
    <3> QED
      BY <3>1, <3>2, <3>3, <1>6
  <2> QED
    BY <2>2, <2>3 DEF SamplesStand, OfferConcluded
<1>13. ConclusionsStand
  <2>1. ASSUME "overlap" \notin upsets', NEW j \in DOMAIN tests, tests[j].status = "completed"
        PROVE  tests[j].id # t.id
    <3>1. \E n \in DOMAIN tests : tests[n].id = t.id /\ tests[n].status = "active"
      BY <1>1, <1>2, <2>1 DEF LearnInv, LearnAlone
    <3>2. tests[i].status = "active"
      BY <3>1, <1>7
    <3> QED
      BY <3>2, <2>1, <1>7
  <2> QED
    BY <2>1, <1>6 DEF ConclusionsStand
<1>14. NobodyIsPassed
  BY <1>2 DEF NobodyIsPassed
<1>15. LearnGoes(p) /\ Working(p)
  BY <1>2, <1>3, AtWork, Steps DEF Test, Kinds
<1>16. LearnMove(p)
  BY <1>6, <1>9, <1>10, <1>12, <1>15, LearnFree
<1> QED
  BY <1>13, <1>14, <1>16 DEF LearnKeeps

-----------------------------------------------------------------------------
(* A test is planned.                                                      *)

LEMMA OfferWasConcluded ==
  ASSUME TestsKnown, IsConcluded("offer")
  PROVE  OfferConcluded
<1>1. "offer" \in Kinds
  BY DEF Kinds
<1>2. Latest("offer") # 0 /\ tests[Latest("offer")].status = "completed"
  BY DEF IsConcluded, HasStatus
<1>3. Latest("offer") \in DOMAIN tests /\ tests[Latest("offer")].what = "offer"
  BY <1>1, <1>2, LatestFound
<1> QED
  BY <1>2, <1>3 DEF OfferConcluded

LEMMA NumberOfNone ==
  Number({}) = 0
<1>1. CentsOf([d \in {} |-> drafts[d]]) = {}
  BY DEF CentsOf
<1> QED
  BY <1>1, FS_EmptySet DEF Number, Total

LEMMA TestAddedKeeps ==
  ASSUME LearnInv, NEW what \in Kinds, SaveTest(NewTest(what)), UNCHANGED <<drafts, pool, upsets>>,
         what = "channel" => OfferConcluded
  PROVE  LearnGrows /\ TestsKnown' /\ DraftsKnown' /\ SamplesStand' /\ ConclusionsStand /\ NobodyIsPassed
<1>1. TestsKnown /\ DraftsKnown /\ SamplesStand /\ Len(tests) \in Nat
  BY LenProperties DEF LearnInv, TestsKnown
<1>2. /\ TestsKnown' /\ Len(tests)' = Len(tests) + 1
      /\ \A i \in DOMAIN tests : i \in DOMAIN tests' /\ tests'[i] = tests[i]
      /\ \A i \in DOMAIN tests' : i \in DOMAIN tests \/ tests'[i] = NewTest(what)
  BY <1>1, TestAdded
<1>3. /\ \A u, k : Resolved(u, k)' = Resolved(u, k)
      /\ \A u, k : Number(Cohort(u, k))' = Number(Cohort(u, k))
  BY DEF Resolved, Cohort, Answered, Number
<1>4. LearnGrows
  <2>1. \A u \in Test : \A k \in Arm : Resolved(u, k) \in Nat
    BY <1>1, CohortType
  <2>2. Len(tests)' \in Nat /\ Len(tests) <= Len(tests)'
    BY <1>1, <1>2
  <2> QED
    BY <1>1, <1>2, <1>3, <2>1, <2>2 DEF LearnGrows
<1>5. DraftsKnown'
  <2>1. Drafts(Len(tests)) \subseteq Drafts(Len(tests))'
    BY <1>4, DraftsMore DEF LearnGrows
  <2> QED
    BY <1>1, <2>1 DEF DraftsKnown
<1>6. OfferConcluded => OfferConcluded'
  BY <1>4 DEF LearnGrows, OfferConcluded
<1>7. ASSUME NEW k \in Arm PROVE Number(Cohort(NewTest(what), k)) <= MaxAssigned
  <2>1. ASSUME NEW d \in DOMAIN drafts PROVE d[what] # [test |-> Len(tests) + 1, arm |-> k]
    <3>1. d \in Drafts(Len(tests))
      BY <1>1 DEF DraftsKnown
    <3>2. d[what] \in Labels(Len(tests))
      BY <3>1 DEF Drafts, Kinds
    <3>3. d[what].test \in 0 .. Len(tests)
      BY <3>2 DEF Labels
    <3>4. d[what].test # Len(tests) + 1
      BY <1>1, <3>3
    <3> QED
      BY <3>4
  <2>2. Cohort(NewTest(what), k) = {}
    BY <2>1 DEF Cohort, NewTest, BagToSet
  <2> QED
    BY <2>2, NumberOfNone, TestsAssumption
<1>8. SamplesStand'
  <2>1. ASSUME NEW n \in DOMAIN tests', tests'[n].what = "channel" PROVE OfferConcluded'
    <3>1. OfferConcluded
      <4>1. CASE n \in DOMAIN tests
        <5>1. tests[n].what = "channel"
          BY <4>1, <2>1, <1>2
        <5> QED
          BY <4>1, <5>1, <1>1 DEF SamplesStand, OfferConcluded
      <4>2. CASE tests'[n] = NewTest(what)
        BY <4>2, <2>1 DEF NewTest
      <4> QED
        BY <4>1, <4>2, <1>2
    <3> QED
      BY <3>1, <1>6
  <2>2. ASSUME NEW n \in DOMAIN tests', NEW k \in Arm
        PROVE  /\ tests'[n].status = "completed" => Resolved(tests[n], k)' >= MinResolved
               /\ upsets' = {} /\ tests'[n].status = "active" =>
                    Number(Cohort(tests[n], k))' <= MaxAssigned
    <3>1. PICK u : u = tests'[n]
      OBVIOUS
    <3>2. CASE u = NewTest(what)
      <4>1. u.status = "active" /\ Number(Cohort(u, k))' <= MaxAssigned
        BY <3>2, <1>3, <1>7 DEF NewTest
      <4> QED
        BY <3>1, <4>1
    <3>3. CASE n \in DOMAIN tests
      <4>1. u = tests[n]
        BY <3>1, <3>3, <1>2
      <4>2. /\ u.status = "completed" => Resolved(u, k) >= MinResolved
            /\ upsets = {} /\ u.status = "active" => Number(Cohort(u, k)) <= MaxAssigned
        BY <4>1, <3>3, <1>1 DEF SamplesStand
      <4>3. /\ u.status = "completed" => Resolved(u, k)' >= MinResolved
            /\ upsets' = {} /\ u.status = "active" => Number(Cohort(u, k))' <= MaxAssigned
        BY <4>2, <1>3
      <4> QED
        BY <4>3, <3>1
    <3> QED
      BY <3>1, <3>2, <3>3, <1>2
  <2> QED
    BY <2>1, <2>2 DEF SamplesStand, OfferConcluded
<1>9. ConclusionsStand /\ NobodyIsPassed
  BY <1>2 DEF ConclusionsStand, NobodyIsPassed
<1> QED
  BY <1>2, <1>4, <1>5, <1>8, <1>9

LEMMA SaveOfferKeeps ==
  ASSUME LearnInv, NEW p \in Process, SaveOffer(p)
  PROVE  LearnKeeps(p)
<1>1. "offer" \in Kinds /\ "search" \in LearnLabels
  BY DEF Kinds, LearnLabels
<1>2. LearnGrows /\ TestsKnown' /\ DraftsKnown' /\ SamplesStand' /\ ConclusionsStand /\ NobodyIsPassed
  BY <1>1, TestAddedKeeps DEF SaveOffer
<1>3. LearnGoes(p) /\ Working(p)
  BY <1>1, Steps, AtWork DEF SaveOffer
<1> QED
  BY <1>2, <1>3, LearnFree DEF LearnKeeps

(* The offer's tests are where they were.                                  *)
LEMMA OfferStays ==
  ASSUME TestsKnown, SaveTest(NewTest("channel"))
  PROVE  IsActive("offer")' = IsActive("offer")
<1> DEFINE I == {i \in 1 .. Len(tests) : tests[i].what = "offer"}
           J == {i \in 1 .. Len(tests') : tests'[i].what = "offer"}
<1>1. /\ TestsKnown' /\ Len(tests)' = Len(tests) + 1 /\ Len(tests) \in Nat
      /\ \A i \in DOMAIN tests : i \in DOMAIN tests' /\ tests'[i] = tests[i]
      /\ \A i \in DOMAIN tests' : i \in DOMAIN tests \/ tests'[i] = NewTest("channel")
  BY TestAdded, LenProperties DEF Kinds, TestsKnown
<1>2. DOMAIN tests = 1 .. Len(tests) /\ DOMAIN tests' = 1 .. Len(tests')
  BY <1>1, LenProperties DEF TestsKnown
<1>3. I = J
  BY <1>1, <1>2 DEF NewTest
<1>4. /\ Latest("offer") = IF I # {} THEN Max(I) ELSE 0
      /\ Latest("offer")' = IF J # {} THEN Max(J) ELSE 0
  BY DEF Latest, SelectLastInSeq
<1> HIDE DEF I, J
<1>5. Latest("offer")' = Latest("offer")
  BY <1>3, <1>4
<1>6. Latest("offer") # 0 => tests'[Latest("offer")] = tests[Latest("offer")]
  BY <1>1, LatestFound DEF Kinds
<1> QED
  BY <1>5, <1>6 DEF IsActive, HasStatus

LEMMA SaveChannelKeeps ==
  ASSUME LearnInv, NEW p \in Process, SaveChannel(p)
  PROVE  LearnKeeps(p)
<1>1. "channel" \in Kinds /\ "search" \in LearnLabels /\ "offer" \in Kinds
  BY DEF Kinds, LearnLabels
<1>2. PICK held : held = mine[p]
  OBVIOUS
<1>3. /\ at[p] = "save_channel" /\ SaveTest(NewTest("channel")) /\ UNCHANGED <<pool, drafts, upsets>>
      /\ Onward(p, held.next) \/ Stop(p)
  BY <1>2 DEF SaveChannel
<1>4. /\ OfferConcluded /\ held.next \in {"search", "assign_channel"}
      /\ LearnHand("save_channel", held)
      /\ "overlap" \notin upsets => LearnAlone("save_channel", held)
      /\ upsets = {} => LearnCap("save_channel", held)
  BY <1>2, <1>3 DEF LearnInv, LearnHand
<1>5. LearnGrows /\ TestsKnown' /\ DraftsKnown' /\ SamplesStand' /\ ConclusionsStand /\ NobodyIsPassed
  BY <1>1, <1>3, <1>4, TestAddedKeeps
<1>6. Working(p)
  BY <1>3, AtWork
<1>7. CASE Stop(p) \/ Onward(p, "search")
  <2>1. LearnGoes(p)
    BY <1>1, <1>7, Steps
  <2> QED
    BY <1>5, <1>6, <2>1, LearnFree DEF LearnKeeps
<1>8. CASE held.next = "assign_channel" /\ Onward(p, "assign_channel")
  <2>1. LearnHand("assign_channel", held)
    BY <1>4, <1>8 DEF LearnHand, WithOffers
  <2>2. LearnHand("assign_channel", held)'
    BY <1>5, <2>1, LearnHandStays
  <2>3. IsActive("offer")' = IsActive("offer")
    BY <1>3, OfferStays DEF LearnInv
  <2>4. "overlap" \notin upsets' => LearnAlone("assign_channel", held)'
    <3>1. "overlap" \notin upsets => LearnAlone("assign_channel", held)
      BY <1>4, <1>8 DEF LearnAlone, WithOffers
    <3> QED
      BY <1>3, <2>3, <3>1 DEF LearnAlone, WithOffers
  <2>5. ASSUME upsets' = {} PROVE LearnCap("assign_channel", held)'
    <3>1. /\ \A i \in DOMAIN tests' : i \in DOMAIN tests \/ tests'[i] = NewTest("channel")
          /\ \A i \in DOMAIN tests : tests'[i] = tests[i]
      BY <1>1, <1>3, TestAdded DEF LearnInv
    <3>2. \A u, k : Number(Cohort(u, k))' = Number(Cohort(u, k))
      BY <1>3 DEF Cohort, Number
    <3>3. ASSUME NEW i \in DOMAIN tests', NEW k \in Arm,
                 tests'[i].status = "active", tests'[i].what = "offer"
          PROVE  Number(Cohort(tests[i], k))' + Cardinality(Offered(held, tests'[i], k))
                   <= MaxAssigned
      <4>1. i \in DOMAIN tests /\ tests'[i] = tests[i]
        BY <3>1, <3>3 DEF NewTest
      <4>2. Number(Cohort(tests[i], k)) + Cardinality(Offered(held, tests[i], k)) <= MaxAssigned
        BY <1>3, <1>4, <1>8, <2>5, <3>3, <4>1 DEF LearnCap, WithOffers
      <4>3. Number(Cohort(tests[i], k))' = Number(Cohort(tests[i], k))
        <5>1. PICK u : u = tests[i]
          OBVIOUS
        <5>2. Number(Cohort(u, k))' = Number(Cohort(u, k))
          BY <3>2
        <5> QED
          BY <4>1, <5>1, <5>2
      <4> QED
        BY <4>1, <4>2, <4>3
    <3> QED
      BY <3>3 DEF LearnCap, WithOffers, Offered, Arms
  <2>6. at' = [at EXCEPT ![p] = "assign_channel"] /\ mine' = [mine EXCEPT ![p] = held]
    BY <1>2, <1>8 DEF Onward, Go, LearnInv
  <2>7. LearnMove(p)
    BY <1>5, <1>6, <2>2, <2>4, <2>5, <2>6, LearnMoves
  <2> QED
    BY <1>5, <2>7 DEF LearnKeeps
<1> QED
  BY <1>3, <1>4, <1>7, <1>8

-----------------------------------------------------------------------------
(* Drafts come and change.                                                 *)

\* A bag, with a copy less, and with a copy more.
Many(B) == B \in [DOMAIN B -> Nat \ {0}]
Less(B, d) == B (-) SetToBag({d})
More(B, e) == B (+) SetToBag({e})

LEMMA OneDraftLess ==
  ASSUME NEW B, Many(B), NEW d \in DOMAIN B
  PROVE  /\ Many(Less(B, d)) /\ DOMAIN Less(B, d) \subseteq DOMAIN B
         /\ \A y \in DOMAIN Less(B, d) : Less(B, d)[y] <= B[y]
         /\ \A y \in DOMAIN B : y = d \/ (y \in DOMAIN Less(B, d) /\ Less(B, d)[y] = B[y])
         /\ d \notin DOMAIN Less(B, d) \/ Less(B, d)[d] < B[d]
<1> DEFINE C == [e \in DOMAIN B |-> IF e \in {d} THEN B[e] - 1 ELSE B[e]]
<1>0. PICK m : m = Less(B, d)
  OBVIOUS
<1>1. m = [e \in {y \in DOMAIN B : C[y] > 0} |-> C[e]]
  BY <1>0 DEF Less, SetToBag, (-)
<1>2. /\ \A y \in DOMAIN B : B[y] \in Nat /\ B[y] > 0
      /\ \A y \in DOMAIN B : y # d => C[y] = B[y]
      /\ C[d] = B[d] - 1 /\ DOMAIN C = DOMAIN B
  BY DEF Many
<1> HIDE DEF C
<1>3. \A y \in DOMAIN B : C[y] \in Nat /\ C[y] <= B[y]
  BY <1>2
<1>4. /\ m = [y \in DOMAIN m |-> m[y]]
      /\ \A y \in DOMAIN m : y \in DOMAIN B /\ C[y] > 0 /\ m[y] = C[y]
      /\ \A y \in DOMAIN B : C[y] > 0 => y \in DOMAIN m
  BY <1>1
<1>5. \A y \in DOMAIN m : m[y] \in Nat \ {0}
  BY <1>3, <1>4
<1>6. Many(m) /\ DOMAIN m \subseteq DOMAIN B
  BY <1>4, <1>5 DEF Many
<1>7. \A y \in DOMAIN m : m[y] <= B[y]
  BY <1>3, <1>4
<1>8. \A y \in DOMAIN B : y = d \/ (y \in DOMAIN m /\ m[y] = B[y])
  BY <1>2, <1>4
<1>9. d \notin DOMAIN m \/ m[d] < B[d]
  BY <1>2, <1>4
<1> QED
  BY <1>0, <1>6, <1>7, <1>8, <1>9

LEMMA OneDraftMore ==
  ASSUME NEW B, Many(B), NEW e
  PROVE  /\ Many(More(B, e)) /\ DOMAIN More(B, e) = DOMAIN B \cup {e}
         /\ \A y \in DOMAIN More(B, e) : y = e \/ (y \in DOMAIN B /\ More(B, e)[y] = B[y])
         /\ e \notin DOMAIN B \/ More(B, e)[e] = B[e] + 1
         /\ e \in DOMAIN B \/ More(B, e)[e] = 1
<1>0. PICK m : m = More(B, e)
  OBVIOUS
<1>1. m = [y \in DOMAIN B \cup {e} |->
             (IF y \in DOMAIN B THEN B[y] ELSE 0) + (IF y \in {e} THEN 1 ELSE 0)]
  BY <1>0 DEF More, SetToBag, (+)
<1>2. \A y \in DOMAIN B : B[y] \in Nat /\ B[y] > 0 /\ B[y] + 0 = B[y]
  BY DEF Many
<1>3. /\ \A y \in DOMAIN B : y # e => m[y] = B[y]
      /\ e \notin DOMAIN B \/ m[e] = B[e] + 1
      /\ e \in DOMAIN B \/ m[e] = 1
      /\ DOMAIN m = DOMAIN B \cup {e}
  BY <1>1, <1>2
<1>4. m = [y \in DOMAIN m |-> m[y]]
  BY <1>1
<1>5. \A y \in DOMAIN m : m[y] \in Nat \ {0}
  BY <1>2, <1>3
<1>6. Many(m)
  BY <1>4, <1>5 DEF Many
<1>7. \A y \in DOMAIN m : y = e \/ (y \in DOMAIN B /\ m[y] = B[y])
  BY <1>3
<1> QED
  BY <1>0, <1>3, <1>6, <1>7

(* When there is only more of every draft, answers are not lost.           *)
LEMMA AnswersGrow ==
  ASSUME DraftsKnown, DraftsKnown', TestsKnown, UNCHANGED tests,
         \A x \in Answered : x \in DOMAIN drafts' /\ drafts[x] <= drafts'[x]
  PROVE  LearnGrows
<1>1. ASSUME NEW t, NEW k
      PROVE  Resolved(t, k) \in Nat /\ Resolved(t, k)' \in Nat /\ Resolved(t, k) <= Resolved(t, k)'
  <2> DEFINE E == Cohort(t, k) \cap Answered
             D == (Cohort(t, k) \cap Answered)'
             g == [x \in E |-> drafts[x]]
             f == [x \in D |-> drafts'[x]]
  <2>1. E \subseteq D /\ \A x \in E : drafts[x] <= drafts'[x]
    BY DEF Cohort, Answered, BagToSet
  <2>2. E \in SUBSET DOMAIN drafts /\ D \in SUBSET DOMAIN drafts'
    BY DEF Cohort, BagToSet
  <2>3. /\ IsFiniteSet(D) /\ f \in [D -> Nat]
        /\ g \in [E -> Nat]
    <3>1. IsFiniteSet(D)
      BY <2>2, FS_Subset DEF DraftsKnown
    <3>2. f \in [D -> Nat] /\ g \in [E -> Nat]
      BY <2>2 DEF DraftsKnown
    <3> QED
      BY <3>1, <3>2
  <2>4. Resolved(t, k) = Total(g) /\ Resolved(t, k)' = Total(f)
    BY DEF Resolved, Number
  <2>5. \A y \in E : g[y] <= f[y]
    BY <2>1
  <2> HIDE DEF E, D, f, g
  <2>6. Total(g) \in Nat /\ Total(f) \in Nat /\ Total(g) <= Total(f)
    BY <2>1, <2>3, <2>5, TotalOfLess
  <2> QED
    BY <2>4, <2>6
<1>2. Len(tests) \in Nat
  BY LenProperties DEF TestsKnown
<1> QED
  BY <1>1, <1>2 DEF LearnGrows

(* And the samples stand if no arm of an active test has too many drafts.  *)
LEMMA SamplesStay ==
  ASSUME LearnInv, LearnGrows, UNCHANGED tests, upsets \subseteq upsets',
         \A i \in DOMAIN tests : \A k \in Arm :
            upsets' = {} /\ tests[i].status = "active" => Number(Cohort(tests[i], k))' <= MaxAssigned
  PROVE  SamplesStand'
<1>1. TestsKnown /\ DraftsKnown /\ SamplesStand
  BY DEF LearnInv
<1>2. ASSUME NEW i \in DOMAIN tests, NEW k \in Arm, tests[i].status = "completed"
      PROVE  Resolved(tests[i], k)' >= MinResolved
  <2>1. PICK u : u = tests[i]
    OBVIOUS
  <2>2. u \in Test
    BY <1>1, <2>1, LenProperties DEF TestsKnown
  <2>3. /\ Resolved(u, k) \in Nat /\ Resolved(u, k)' \in Nat
        /\ Resolved(u, k) <= Resolved(u, k)' /\ Resolved(u, k) >= MinResolved
    BY <1>1, <1>2, <2>1, <2>2 DEF LearnGrows, SamplesStand
  <2>4. Resolved(u, k)' >= MinResolved
    BY <2>3, TestsAssumption
  <2> QED
    BY <2>1, <2>4
<1>3. \A i \in DOMAIN tests : tests[i].what = "channel" =>
        \E j \in DOMAIN tests : tests[j].what = "offer" /\ tests[j].status = "completed"
  BY <1>1 DEF SamplesStand
<1> QED
  BY <1>2, <1>3 DEF SamplesStand

(* An answer changes nothing but the answer: no arm has more drafts.       *)
LEMMA ArmsKeepTheirDrafts ==
  ASSUME DraftsKnown, NEW d \in Open, NEW a \in Kind, Becomes(d, [d EXCEPT !.answer = a]),
         UNCHANGED <<tests, pool>>
  PROVE  /\ DraftsKnown'
         /\ \A x \in Answered : x \in DOMAIN drafts' /\ drafts[x] <= drafts'[x]
         /\ \A t \in Test : \A k \in Arm :
               Number(Cohort(t, k))' \in Nat /\ Number(Cohort(t, k))' <= Number(Cohort(t, k))
<1>1. PICK e : e = [d EXCEPT !.answer = a]
  OBVIOUS
<1>2. PICK m : m = Less(drafts, d)
  OBVIOUS
<1>3. drafts' = More(m, e)
  BY <1>1, <1>2 DEF Becomes, Less, More
<1>4. /\ drafts \in [DOMAIN drafts -> Nat \ {0}] /\ IsFiniteSet(DOMAIN drafts)
      /\ d \in DOMAIN drafts /\ d.answer = "open" /\ d \in Drafts(Len(tests))
  BY DEF DraftsKnown, Open, BagToSet
<1>5. /\ Many(m) /\ DOMAIN m \subseteq DOMAIN drafts
      /\ \A y \in DOMAIN m : m[y] <= drafts[y] /\ m[y] \in Nat
      /\ \A y \in DOMAIN drafts : y # d => y \in DOMAIN m /\ m[y] = drafts[y]
      /\ d \in DOMAIN m => m[d] < drafts[d]
  <2>1. Many(drafts)
    BY <1>4 DEF Many
  <2>2. /\ Many(m) /\ DOMAIN m \subseteq DOMAIN drafts
        /\ \A y \in DOMAIN m : m[y] <= drafts[y]
        /\ \A y \in DOMAIN drafts : y = d \/ (y \in DOMAIN m /\ m[y] = drafts[y])
        /\ d \notin DOMAIN m \/ m[d] < drafts[d]
    BY <1>2, <1>4, <2>1, OneDraftLess
  <2>3. \A y \in DOMAIN m : m[y] \in Nat
    BY <2>2 DEF Many
  <2> QED
    BY <2>2, <2>3
<1>6. /\ drafts' \in [DOMAIN drafts' -> Nat \ {0}] /\ DOMAIN drafts' = DOMAIN m \cup {e}
      /\ \A y \in DOMAIN drafts' : y # e => y \in DOMAIN m /\ drafts'[y] = m[y]
      /\ drafts'[e] = (IF e \in DOMAIN m THEN m[e] ELSE 0) + 1
  <2>1. /\ Many(drafts') /\ DOMAIN drafts' = DOMAIN m \cup {e}
        /\ \A y \in DOMAIN drafts' : y = e \/ (y \in DOMAIN m /\ drafts'[y] = m[y])
        /\ e \notin DOMAIN m \/ drafts'[e] = m[e] + 1
        /\ e \in DOMAIN m \/ drafts'[e] = 1
    BY <1>3, <1>5, OneDraftMore
  <2> QED
    BY <2>1 DEF Many
<1>7. /\ e \in Drafts(Len(tests)) /\ e.offer = d.offer /\ e.channel = d.channel /\ e.answer \in Kind
  BY <1>1, <1>4 DEF Drafts
<1>8. "open" \notin Kind
  BY TestsAssumption DEF Score
<1>9. DraftsKnown'
  <2>1. IsFiniteSet(DOMAIN drafts')
    BY <1>4, <1>5, <1>6, FS_Subset, FS_AddElement
  <2>2. \A y \in DOMAIN drafts' : y \in Drafts(Len(tests))
    BY <1>5, <1>6, <1>7 DEF DraftsKnown
  <2> QED
    BY <1>6, <2>1, <2>2 DEF DraftsKnown
<1>10. ASSUME NEW x \in Answered PROVE x \in DOMAIN drafts' /\ drafts[x] <= drafts'[x]
  <2>1. x \in DOMAIN drafts /\ x # d /\ drafts[x] \in Nat
    BY <1>4, <1>8 DEF Answered, BagToSet
  <2>2. x \in DOMAIN m /\ m[x] = drafts[x]
    BY <1>5, <2>1
  <2>3. drafts'[x] = m[x] \/ drafts'[x] = m[x] + 1
    BY <1>6, <2>2
  <2> QED
    BY <1>6, <2>1, <2>2, <2>3
<1>11. ASSUME NEW t \in Test, NEW k \in Arm
       PROVE  Number(Cohort(t, k))' \in Nat /\ Number(Cohort(t, k))' <= Number(Cohort(t, k))
  <2> DEFINE C == Cohort(t, k)
             D == Cohort(t, k)'
             E == {y \in DOMAIN m : y[t.what] = [test |-> t.id, arm |-> k]}
             f == [x \in C |-> drafts[x]]
             g == [x \in D |-> drafts'[x]]
             h == [x \in E |-> m[x]]
  <2>1. /\ C = {y \in DOMAIN drafts : y[t.what] = [test |-> t.id, arm |-> k]}
        /\ D = {y \in DOMAIN drafts' : y[t.what] = [test |-> t.id, arm |-> k]}
    BY DEF Cohort, BagToSet
  <2>2. Number(Cohort(t, k)) = Total(f) /\ Number(Cohort(t, k))' = Total(g)
    BY DEF Number
  <2>3. IsFiniteSet(C) /\ IsFiniteSet(D) /\ IsFiniteSet(E) /\ E \subseteq C
    <3>1. IsFiniteSet(DOMAIN drafts) /\ IsFiniteSet(DOMAIN m) /\ IsFiniteSet(DOMAIN drafts')
      BY <1>4, <1>5, <1>6, FS_Subset, FS_AddElement
    <3>2. C \subseteq DOMAIN drafts /\ D \subseteq DOMAIN drafts' /\ E \subseteq DOMAIN m /\ E \subseteq C
      BY <1>5, <2>1
    <3> HIDE DEF C, D, E
    <3> QED
      BY <3>1, <3>2, FS_Subset
  <2>4. f \in [C -> Nat] /\ g \in [D -> Nat] /\ h \in [E -> Nat]
    BY <1>4, <1>5, <1>6, <2>1
  <2>5. e[t.what] = d[t.what]
    BY <1>7 DEF Test
  <2>6. \A y \in E : h[y] = m[y] /\ f[y] = drafts[y] /\ h[y] <= f[y]
    BY <1>5, <2>3
  <2>7. \A y \in D : g[y] = drafts'[y] /\ (y # e => y \in E /\ g[y] = h[y])
    BY <1>6, <2>1
  <2>8. e \in D => g[e] = (IF e \in E THEN h[e] ELSE 0) + 1
    BY <1>6, <2>1
  <2>9. d \in C <=> e \in D
    BY <1>4, <1>6, <2>1, <2>5
  <2>10. d \in C => f[d] > 0 /\ (d \in E => h[d] < f[d])
    BY <1>4, <1>5
  <2>11. \A y \in E : h[y] \in Nat
    BY <2>4
  <2> HIDE DEF C, D, E, f, g, h
  <2>12. CASE d \in C
    <3>1. Total(h) \in Nat /\ Total(f) \in Nat /\ Total(h) + 1 <= Total(f)
      BY <2>3, <2>4, <2>6, <2>10, <2>12, TotalOfOneLess
    <3>2. Total(g) \in Nat /\ Total(g) <= Total(h) + 1
      <4>1. D \subseteq E \cup {e}
        BY <2>7
      <4>2. \A y \in D \ {e} : g[y] <= h[y]
        BY <2>7, <2>11
      <4>3. e \in D => g[e] <= (IF e \in E THEN h[e] ELSE 0) + 1
        BY <2>8, <2>11
      <4> QED
        BY <2>3, <2>4, <4>1, <4>2, <4>3, TotalOfOneMore
    <3> QED
      BY <2>2, <3>1, <3>2
  <2>13. CASE d \notin C
    <3>1. D \subseteq C /\ \A y \in D : g[y] <= f[y]
      <4>1. \A y \in D : y \in E /\ g[y] = h[y]
        BY <2>7, <2>9, <2>13
      <4> QED
        BY <2>3, <2>6, <4>1
    <3>2. Total(g) \in Nat /\ Total(g) <= Total(f)
      BY <2>3, <2>4, <3>1, TotalOfLess
    <3> QED
      BY <2>2, <3>2
  <2> QED
    BY <2>12, <2>13
<1> QED
  BY <1>9, <1>10, <1>11

LEMMA AnswerKeeps ==
  ASSUME LearnInv, NEW p \in Process, AnswerComes(p), Working(p)
  PROVE  LearnKeeps(p)
<1>1. TestsKnown /\ DraftsKnown /\ SamplesStand
  BY DEF LearnInv
<1>2. LearnGoes(p) /\ UNCHANGED <<tests, pool>>
  BY Steps DEF AnswerComes, LearnLabels
<1>3. CASE UNCHANGED drafts
  BY <1>1, <1>2, <1>3, LearnIdles DEF LearnKeeps, DraftsKnown
<1>4. CASE \E d \in Open, a \in Kind : Becomes(d, [d EXCEPT !.answer = a])
  <2>1. PICK d \in Open, a \in Kind : Becomes(d, [d EXCEPT !.answer = a])
    BY <1>4
  <2>2. /\ DraftsKnown'
        /\ \A x \in Answered : x \in DOMAIN drafts' /\ drafts[x] <= drafts'[x]
        /\ \A t \in Test : \A k \in Arm :
              Number(Cohort(t, k))' \in Nat /\ Number(Cohort(t, k))' <= Number(Cohort(t, k))
    BY <1>1, <1>2, <2>1, ArmsKeepTheirDrafts
  <2>3. TestsKnown'
    BY <1>1, <1>2 DEF TestsKnown
  <2>4. LearnGrows
    BY <1>1, <1>2, <2>2, AnswersGrow
  <2>5. ASSUME NEW i \in DOMAIN tests, NEW k \in Arm, upsets' = {}, tests[i].status = "active"
        PROVE  Number(Cohort(tests[i], k))' <= MaxAssigned
    <3>1. PICK u : u = tests[i]
      OBVIOUS
    <3>2. u \in Test
      BY <1>1, <3>1, LenProperties DEF TestsKnown
    <3>3. Number(Cohort(u, k)) <= MaxAssigned
      BY <1>1, <2>5, <3>1 DEF SamplesStand, Working
    <3>4. Number(Cohort(u, k))' \in Nat /\ Number(Cohort(u, k))' <= Number(Cohort(u, k))
      BY <2>2, <3>2
    <3>5. Number(Cohort(u, k)) \in Nat
      BY <1>1, CohortType
    <3>6. Number(Cohort(u, k))' <= MaxAssigned
      BY <3>3, <3>4, <3>5, TestsAssumption
    <3> QED
      BY <1>2, <3>1, <3>6
  <2>6. SamplesStand'
    BY <1>2, <2>4, <2>5, SamplesStay DEF Working
  <2>7. LearnMove(p)
    BY <1>2, <2>2, <2>3, <2>4, <2>6, LearnFree
  <2> QED
    BY <1>2, <2>7 DEF LearnKeeps, ConclusionsStand, NobodyIsPassed
<1> QED
  BY <1>3, <1>4 DEF AnswerComes

-----------------------------------------------------------------------------
(* A turn of the venture.                                                  *)

LEMMA MarketTurnKeeps ==
  ASSUME LearnInv, NEW p \in Process, MarketTurn(p)
  PROVE  LearnKeeps(p)
<1>1. at[p] = "turn" /\ IsFiniteSet(pool) /\ TestsKnown
  BY DEF MarketTurn, LearnInv, DraftsKnown
<1>2. CASE AnswerComes(p) /\ UNCHANGED upsets
  BY <1>1, <1>2, AtWork, AnswerKeeps
<1>3. CASE Stop(p) /\ UNCHANGED learningVars
  <2>1. LearnGoes(p) /\ Working(p)
    BY <1>1, <1>3, AtWork, Steps DEF learningVars
  <2> QED
    BY <1>1, <1>3, <2>1, LearnIdles DEF LearnKeeps, learningVars, testVars
<1>4. CASE /\ Hold(p, [limit |-> 1, next |-> "search"])
           /\ CASE ChannelTestDue -> Go(p, "save_channel")
                [] Latest("offer") = 0 /\ Answered # {} -> Go(p, "save_offer")
                [] OTHER -> Go(p, "search")
           /\ UNCHANGED learningVars
  <2>1. UNCHANGED <<tests, drafts, pool, upsets>> /\ Working(p)
    BY <1>1, <1>4, AtWork DEF learningVars, testVars
  <2>2. CASE Go(p, "save_offer") \/ Go(p, "search")
    <3>1. LearnGoes(p)
      BY <1>4, <2>2, Steps DEF LearnLabels
    <3> QED
      BY <1>1, <2>1, <3>1, LearnIdles DEF LearnKeeps
  <2>3. CASE ChannelTestDue /\ Go(p, "save_channel")
    <3>1. PICK held : held = [limit |-> 1, next |-> "search"]
      OBVIOUS
    <3>2. OfferConcluded /\ held.next = "search"
      BY <1>1, <2>3, <3>1, OfferWasConcluded DEF ChannelTestDue
    <3>3. /\ LearnHand("save_channel", held) /\ LearnAlone("save_channel", held)
          /\ LearnCap("save_channel", held)
      BY <3>2 DEF LearnHand, LearnAlone, LearnCap, WithOffers
    <3>4. at' = [at EXCEPT ![p] = "save_channel"] /\ mine' = [mine EXCEPT ![p] = held]
      BY <1>4, <2>3, <3>1 DEF Go, Hold
    <3> QED
      BY <2>1, <3>3, <3>4, StandsStill
  <2> QED
    BY <1>4, <2>2, <2>3
<1> QED
  BY <1>2, <1>3, <1>4 DEF MarketTurn

LEMMA SearchKeeps ==
  ASSUME LearnInv, NEW p \in Process, Search(p)
  PROVE  LearnKeeps(p)
<1>1. at[p] = "search" /\ IsFiniteSet(pool) /\ UNCHANGED <<drafts, tests, upsets>>
  BY DEF Search, LearnInv, DraftsKnown
<1>2. CASE Stop(p) /\ UNCHANGED <<pool, found>>
  <2>1. LearnGoes(p) /\ Working(p)
    BY <1>1, <1>2, AtWork, Steps
  <2> QED
    BY <1>1, <1>2, <2>1, LearnIdles DEF LearnKeeps
<1>3. CASE \E portion \in Portion :
             /\ pool' = pool \cup {[id |-> found + i, reach |-> portion[i]] : i \in DOMAIN portion}
             /\ Stop(p) \/ (pool' # {} /\ Onward(p, "assign"))
  <2>1. PICK portion \in Portion :
          /\ pool' = pool \cup {[id |-> found + i, reach |-> portion[i]] : i \in DOMAIN portion}
          /\ Stop(p) \/ (pool' # {} /\ Onward(p, "assign"))
    BY <1>3
  <2>2. portion \in Seq(Reach)
    BY LearningAssumption
  <2>3. IsFiniteSet(DOMAIN portion)
    BY <2>2, LenProperties, FS_Interval
  <2> DEFINE Lead(i) == [id |-> found + i, reach |-> portion[i]]
  <2>4. IsFiniteSet({Lead(i) : i \in DOMAIN portion})
    <3> DEFINE led == [i \in DOMAIN portion |-> Lead(i)]
    <3>1. led \in Surjection(DOMAIN portion, {Lead(i) : i \in DOMAIN portion})
      BY DEF Surjection
    <3> HIDE DEF Lead, led
    <3> QED
      BY <2>3, <3>1, FS_Surjection
  <2>5. IsFiniteSet(pool')
    BY <1>1, <2>1, <2>4, FS_Union
  <2>6. LearnGoes(p) /\ Working(p)
    BY <1>1, <2>1, AtWork, Steps DEF LearnLabels
  <2> QED
    BY <1>1, <2>5, <2>6, LearnIdles DEF LearnKeeps
<1> QED
  BY <1>2, <1>3 DEF Search

-----------------------------------------------------------------------------
(* Leads get their arms.                                                   *)

LEMMA ArmsGiven ==
  ASSUME TestsKnown, NEW what \in Kinds, NEW L, NEW able, NEW f \in Assignments(what, L, able)
  PROVE  /\ f \in [L -> Arm \cup {"none"}]
         /\ \A l \in L : LabelFor(what, f[l]) \in Labels(Len(tests))
         /\ \A l \in L : IsActive(what) /\ f[l] # "none" => LabelFor(what, f[l]) # NoLabel
<1>1. Latest(what) # 0 => Latest(what) \in DOMAIN tests /\ tests[Latest(what)] \in Test
  BY LatestFound, LenProperties DEF TestsKnown
<1>2. f \in [L -> Arm \cup {"none"}]
  <2>1. CASE IsActive(what)
    <3>1. PICK g \in Spreads(tests[Latest(what)], able) :
            f = [l \in L |-> IF l \in able THEN g[l] ELSE "none"]
      <4>1. Assignments(what, L, able) =
              {[l \in L |-> IF l \in able THEN g[l] ELSE "none"] :
                 g \in Spreads(tests[Latest(what)], able)}
        <5>1. ~IsConcluded(what)
          BY <2>1 DEF IsActive, IsConcluded, HasStatus
        <5> QED
          BY <2>1, <5>1 DEF Assignments
      <4> QED
        BY <4>1
    <3>2. g \in [able -> Arm \cup {"none"}]
      BY DEF Spreads
    <3> QED
      BY <3>1, <3>2
  <2>2. CASE ~IsActive(what) /\ IsConcluded(what)
    <3>1. tests[Latest(what)].winner \in Arm \cup {"none"}
      BY <1>1, <2>2 DEF IsConcluded, HasStatus, Test
    <3>2. f = [l \in L |-> IF tests[Latest(what)].winner \in l.reach \/ what = "offer"
                           THEN tests[Latest(what)].winner ELSE "none"]
      BY <2>2 DEF Assignments
    <3> QED
      BY <3>1, <3>2
  <2>3. CASE ~IsActive(what) /\ ~IsConcluded(what)
    <3>1. f = [l \in L |-> "none"]
      BY <2>3 DEF Assignments
    <3> QED
      BY <3>1
  <2> QED
    BY <2>1, <2>2, <2>3
<1>3. Len(tests) \in Nat /\ DOMAIN tests = 1 .. Len(tests)
  BY LenProperties DEF TestsKnown
<1>4. ASSUME NEW l \in L PROVE LabelFor(what, f[l]) \in Labels(Len(tests))
  <2>1. NoLabel \in Labels(Len(tests))
    BY <1>3 DEF NoLabel, Labels
  <2>2. CASE Latest(what) # 0 /\ f[l] # "none"
    <3>1. tests[Latest(what)].id \in 1 .. Len(tests)
      BY <1>1, <1>3, <2>2 DEF TestsKnown
    <3>2. tests[Latest(what)].id \in 0 .. Len(tests)
      BY <1>3, <3>1
    <3> QED
      BY <1>2, <2>2, <3>2 DEF LabelFor, Label, Labels
  <2> QED
    BY <2>1, <2>2 DEF LabelFor, Label
<1>5. ASSUME NEW l \in L, IsActive(what), f[l] # "none" PROVE LabelFor(what, f[l]) # NoLabel
  <2>1. Latest(what) # 0
    BY <1>5 DEF IsActive, HasStatus
  <2>2. LabelFor(what, f[l]).arm = f[l]
    BY <1>5, <2>1 DEF LabelFor, Label
  <2> QED
    BY <1>5, <2>2 DEF NoLabel
<1> QED
  BY <1>2, <1>4, <1>5

(* An arm of an active test has a place for whoever gets it.               *)
LEMMA ArmsHavePlaces ==
  ASSUME TestsKnown, DraftsKnown, NEW what \in Kinds, NEW L, IsFiniteSet(L),
         NEW able \in SUBSET L, NEW f \in Assignments(what, L, able),
         NEW i \in DOMAIN tests, tests[i].status = "active", NEW k \in Arm,
         Number(Cohort(tests[i], k)) <= MaxAssigned
  PROVE  /\ IsFiniteSet({l \in L : LabelFor(what, f[l]) = Arms(tests[i], k)})
         /\ Number(Cohort(tests[i], k))
              + Cardinality({l \in L : LabelFor(what, f[l]) = Arms(tests[i], k)}) <= MaxAssigned
<1> DEFINE given == {l \in L : LabelFor(what, f[l]) = Arms(tests[i], k)}
           n == Number(Cohort(tests[i], k))
<1>1. n \in Nat /\ MaxAssigned \in Nat /\ MaxResolved \in Nat
  BY CohortType, TestsAssumption
<1>2. IsFiniteSet(given) /\ Cardinality(given) \in Nat
  <2>1. given \subseteq L
    OBVIOUS
  <2> HIDE DEF given
  <2> QED
    BY <2>1, FS_Subset, FS_CardinalityType
<1>3. CASE given = {}
  <2>1. Cardinality(given) = 0
    BY <1>3, FS_EmptySet
  <2> HIDE DEF given, n
  <2> QED
    BY <1>1, <1>2, <2>1 DEF given, n
<1>4. CASE given # {}
  <2>1. \A l \in given : /\ Latest(what) # 0 /\ f[l] = k
                         /\ tests[Latest(what)].id = tests[i].id
    <3>1. k # "none" /\ Arms(tests[i], k) # NoLabel /\ Arms(tests[i], k).arm = k
          /\ Arms(tests[i], k).test = tests[i].id
      BY DEF Arms, Arm, NoLabel
    <3>2. ASSUME NEW l \in given
          PROVE  Latest(what) # 0 /\ f[l] # "none"
                 /\ LabelFor(what, f[l]) = [test |-> tests[Latest(what)].id, arm |-> f[l]]
      BY <3>1 DEF LabelFor, Label
    <3> TAKE l \in given
    <3>3. LabelFor(what, f[l]) = [test |-> tests[i].id, arm |-> k]
      BY DEF Arms
    <3>4. /\ Latest(what) # 0
          /\ LabelFor(what, f[l]) = [test |-> tests[Latest(what)].id, arm |-> f[l]]
      BY <3>2
    <3>5. [test |-> tests[Latest(what)].id, arm |-> f[l]].arm = [test |-> tests[i].id, arm |-> k].arm
          /\ [test |-> tests[Latest(what)].id, arm |-> f[l]].test
                = [test |-> tests[i].id, arm |-> k].test
      BY <3>3, <3>4
    <3> QED
      BY <3>4, <3>5
  <2>2. Latest(what) \in DOMAIN tests /\ Latest(what) = i
    BY <1>4, <2>1, LatestFound DEF TestsKnown
  <2>3. IsActive(what) /\ Latest(what) = i
    BY <1>4, <2>1, <2>2 DEF IsActive, HasStatus
  <2>4. PICK g \in Spreads(tests[i], able) :
          f = [l \in L |-> IF l \in able THEN g[l] ELSE "none"]
    <3>1. Assignments(what, L, able) =
            {[l \in L |-> IF l \in able THEN g[l] ELSE "none"] :
               g \in Spreads(tests[Latest(what)], able)}
      <4>1. ~IsConcluded(what)
        BY <2>3 DEF IsActive, IsConcluded, HasStatus
      <4> QED
        BY <2>3, <4>1 DEF Assignments
    <3> QED
      BY <2>3, <3>1
  <2> DEFINE has == {l \in able : g[l] = k}
  <2>5. given \subseteq has
    <3>1. \A l \in given : l \in L /\ f[l] = k /\ k # "none"
      BY <2>1 DEF Arm
    <3> QED
      BY <2>4, <3>1
  <2>6. has # {} => n + Cardinality(has) <= MaxAssigned
    BY DEF Spreads
  <2>7. IsFiniteSet(has)
    <3>1. has \subseteq L
      OBVIOUS
    <3> HIDE DEF has
    <3> QED
      BY <3>1, FS_Subset
  <2> HIDE DEF given, has, n
  <2>8. Cardinality(given) <= Cardinality(has) /\ Cardinality(has) \in Nat /\ has # {}
    BY <1>4, <2>5, <2>7, FS_Subset, FS_CardinalityType
  <2>9. n + Cardinality(given) <= MaxAssigned
    BY <1>1, <1>2, <2>6, <2>8
  <2> QED
    BY <1>2, <2>9 DEF given, n
<1> QED
  BY <1>3, <1>4

LEMMA AssignKeeps ==
  ASSUME LearnInv, NEW p \in Process, Assign(p)
  PROVE  LearnKeeps(p)
<1>1. TestsKnown /\ DraftsKnown /\ SamplesStand /\ IsFiniteSet(pool) /\ "offer" \in Kinds
  BY DEF LearnInv, DraftsKnown, Kinds
<1>2. at[p] = "assign" /\ UNCHANGED <<tests, drafts, pool, upsets>>
  BY DEF Assign, learningVars, testVars
<1>3. Working(p)
  BY <1>2, AtWork
<1>4. PICK f \in Assignments("offer", pool, pool) :
        LET leads == Chosen("offer", pool, f) IN
        IF leads = {} THEN Stop(p)
        ELSE /\ Go(p, "assign_channel")
             /\ Hold(p, [limit |-> mine[p].limit, next |-> "assign_channel", leads |-> leads,
                         offer |-> [l \in leads |-> LabelFor("offer", f[l])]])
  BY DEF Assign
<1>5. CASE Stop(p)
  BY <1>1, <1>2, <1>3, <1>5, Steps, LearnIdles DEF LearnKeeps
<1>6. CASE /\ Go(p, "assign_channel")
           /\ Hold(p, [limit |-> mine[p].limit, next |-> "assign_channel",
                       leads |-> Chosen("offer", pool, f),
                       offer |-> [l \in Chosen("offer", pool, f) |-> LabelFor("offer", f[l])]])
  <2>1. PICK held : held = [limit |-> mine[p].limit, next |-> "assign_channel",
                            leads |-> Chosen("offer", pool, f),
                            offer |-> [l \in Chosen("offer", pool, f) |-> LabelFor("offer", f[l])]]
    OBVIOUS
  <2>2. /\ held.next = "assign_channel" /\ held.leads = Chosen("offer", pool, f)
        /\ held.offer = [l \in held.leads |-> LabelFor("offer", f[l])]
    BY <2>1
  <2>3. held.leads \subseteq pool /\ \A l \in held.leads : IsActive("offer") => f[l] # "none"
    BY <2>2 DEF Chosen
  <2>4. /\ \A l \in pool : LabelFor("offer", f[l]) \in Labels(Len(tests))
        /\ \A l \in pool : IsActive("offer") /\ f[l] # "none" => LabelFor("offer", f[l]) # NoLabel
    BY <1>1, ArmsGiven
  <2>5. LearnHand("assign_channel", held)
    <3>1. IsFiniteSet(held.leads)
      BY <1>1, <2>3, FS_Subset
    <3>2. held.offer \in [held.leads -> Labels(Len(tests))]
      BY <2>2, <2>3, <2>4
    <3> QED
      BY <2>2, <3>1, <3>2 DEF LearnHand, WithOffers
  <2>6. LearnAlone("assign_channel", held)
    <3>1. \A l \in held.leads : IsActive("offer") => held.offer[l] # NoLabel
      BY <2>2, <2>3, <2>4
    <3> QED
      BY <3>1 DEF LearnAlone
  <2>7. ASSUME upsets' = {} PROVE LearnCap("assign_channel", held)
    <3>1. ASSUME NEW i \in DOMAIN tests, NEW k \in Arm, tests[i].status = "active"
          PROVE  Number(Cohort(tests[i], k)) + Cardinality(Offered(held, tests[i], k)) <= MaxAssigned
      <4> DEFINE given == {l \in pool : LabelFor("offer", f[l]) = Arms(tests[i], k)}
                 n == Number(Cohort(tests[i], k))
      <4>1. n <= MaxAssigned
        BY <1>1, <1>2, <2>7, <3>1 DEF SamplesStand
      <4>2. IsFiniteSet(given) /\ n + Cardinality(given) <= MaxAssigned
        BY <1>1, <3>1, <4>1, ArmsHavePlaces
      <4>3. Offered(held, tests[i], k) \subseteq given
        BY <2>2, <2>3 DEF Offered
      <4>4. n \in Nat /\ MaxAssigned \in Nat /\ MaxResolved \in Nat
        BY <1>1, CohortType, TestsAssumption
      <4> HIDE DEF given, n
      <4>5. /\ Cardinality(Offered(held, tests[i], k)) <= Cardinality(given)
            /\ Cardinality(given) \in Nat /\ Cardinality(Offered(held, tests[i], k)) \in Nat
        BY <4>2, <4>3, FS_Subset, FS_CardinalityType
      <4>6. n + Cardinality(Offered(held, tests[i], k)) <= MaxAssigned
        BY <4>2, <4>4, <4>5
      <4> QED
        BY <4>6 DEF n
    <3> QED
      BY <3>1 DEF LearnCap
  <2>8. at' = [at EXCEPT ![p] = "assign_channel"] /\ mine' = [mine EXCEPT ![p] = held]
    BY <1>6, <2>1 DEF Go, Hold
  <2> QED
    BY <1>2, <1>3, <2>5, <2>6, <2>7, <2>8, StandsStill
<1> QED
  BY <1>4, <1>5, <1>6

(* Not more drafts are to be saved than leads had the arm.                 *)
LEMMA NoMoreThanLeads ==
  ASSUME NEW S, IsFiniteSet(S), NEW T, NEW D \in SUBSET T,
         \A e \in D : e.lead \in S, \A e, g \in T : e.lead = g.lead => e = g
  PROVE  IsFiniteSet(D) /\ Cardinality(D) \in Nat /\ Cardinality(S) \in Nat
         /\ Cardinality(D) <= Cardinality(S)
<1> DEFINE lead == [e \in D |-> e.lead]
<1>1. lead \in Injection(D, S)
  BY DEF Injection, IsInjective
<1> HIDE DEF lead
<1>2. IsFiniteSet(D) /\ Cardinality(D) <= Cardinality(S)
  BY <1>1, FS_Injection
<1> QED
  BY <1>2, FS_CardinalityType

LEMMA AssignChannelKeeps ==
  ASSUME LearnInv, NEW p \in Process, AssignChannel(p)
  PROVE  LearnKeeps(p)
<1>1. TestsKnown /\ DraftsKnown /\ SamplesStand /\ "channel" \in Kinds /\ Len(tests) \in Nat
  BY LenProperties DEF LearnInv, Kinds, TestsKnown
<1>2. at[p] = "assign_channel" /\ UNCHANGED <<tests, drafts, pool, upsets>>
  BY DEF AssignChannel, learningVars, testVars
<1>3. Working(p) /\ IsFiniteSet(pool)
  BY <1>1, <1>2, AtWork DEF DraftsKnown
<1>4. PICK was : was = mine[p]
  OBVIOUS
<1>5. /\ LearnHand("assign_channel", was)
      /\ "overlap" \notin upsets => LearnAlone("assign_channel", was)
      /\ upsets = {} => LearnCap("assign_channel", was)
  BY <1>2, <1>4 DEF LearnInv
<1>6. /\ was.next = "assign_channel" /\ IsFiniteSet(was.leads)
      /\ was.offer \in [was.leads -> Labels(Len(tests))]
  BY <1>5 DEF LearnHand, WithOffers
<1>7. CASE Stop(p)
  BY <1>2, <1>3, <1>7, Steps, LearnIdles DEF LearnKeeps
<1>8. CASE ChannelTestDue /\ Onward(p, "save_channel")
  <2>1. OfferConcluded
    BY <1>1, <1>8, OfferWasConcluded DEF ChannelTestDue
  <2>2. /\ LearnHand("save_channel", was)
        /\ "overlap" \notin upsets => LearnAlone("save_channel", was)
        /\ upsets = {} => LearnCap("save_channel", was)
    BY <1>5, <1>6, <2>1 DEF LearnHand, LearnAlone, LearnCap, WithOffers
  <2>3. at' = [at EXCEPT ![p] = "save_channel"] /\ mine' = [mine EXCEPT ![p] = was]
    BY <1>4, <1>8 DEF Onward, Go, LearnInv
  <2> QED
    BY <1>2, <1>3, <2>2, <2>3, StandsStill
<1> DEFINE reachable == {l \in was.leads : l.reach = Arm}
<1>9. ASSUME NEW f \in Assignments("channel", mine[p].leads, {l \in mine[p].leads : l.reach = Arm}),
             NEW chosen, chosen = Oldest(Chosen("channel", mine[p].leads, f), mine[p].limit),
             Go(p, "draft"),
             Hold(p, [todo |->
                   {[lead |-> l,
                     draft |-> Draft(mine[p].offer[l], LabelFor("channel", f[l]), "open")] :
                        l \in chosen}])
      PROVE  LearnKeeps(p)
  <2>1. PICK held : held = [todo |->
                   {[lead |-> l,
                     draft |-> Draft(mine[p].offer[l], LabelFor("channel", f[l]), "open")] :
                        l \in chosen}]
    OBVIOUS
  <2>0. /\ reachable \in SUBSET was.leads
        /\ f \in Assignments("channel", was.leads, reachable)
    BY <1>4, <1>9
  <2>2. /\ \A e \in held.todo : /\ e.lead \in chosen /\ e.draft.offer = was.offer[e.lead]
                                /\ e.draft.channel = LabelFor("channel", f[e.lead])
                                /\ e.draft = Draft(was.offer[e.lead], LabelFor("channel", f[e.lead]), "open")
        /\ \A e, g \in held.todo : e.lead = g.lead => e = g
    BY <1>4, <2>1 DEF Draft
  <2>3. chosen \subseteq was.leads /\ \A l \in chosen : IsActive("channel") => f[l] # "none"
    BY <1>4, <1>9 DEF Oldest, Chosen
  <2>4. /\ \A l \in was.leads : LabelFor("channel", f[l]) \in Labels(Len(tests))
        /\ \A l \in was.leads : IsActive("channel") /\ f[l] # "none" => LabelFor("channel", f[l]) # NoLabel
    BY <1>1, <2>0, ArmsGiven
  <2>5. \A D \in SUBSET held.todo : \A S \in SUBSET was.leads : (\A e \in D : e.lead \in S) =>
          /\ IsFiniteSet(D) /\ Cardinality(D) \in Nat /\ Cardinality(S) \in Nat
          /\ Cardinality(D) <= Cardinality(S)
    <3> SUFFICES ASSUME NEW D \in SUBSET held.todo, NEW S \in SUBSET was.leads,
                        \A e \in D : e.lead \in S
                 PROVE  /\ IsFiniteSet(D) /\ Cardinality(D) \in Nat /\ Cardinality(S) \in Nat
                        /\ Cardinality(D) <= Cardinality(S)
      OBVIOUS
    <3>1. IsFiniteSet(S)
      BY <1>6, FS_Subset
    <3> QED
      BY <2>2, <3>1, NoMoreThanLeads
  <2>6. LearnHand("draft", held)
    <3>1. IsFiniteSet(held.todo)
      BY <2>2, <2>3, <2>5
    <3>2. ASSUME NEW e \in held.todo PROVE e.draft \in Drafts(Len(tests))
      <4>1. was.offer[e.lead] \in Labels(Len(tests)) /\ LabelFor("channel", f[e.lead]) \in Labels(Len(tests))
        BY <1>6, <2>2, <2>3, <2>4
      <4>2. PICK a \in Labels(Len(tests)), b \in Labels(Len(tests)) :
              a = was.offer[e.lead] /\ b = LabelFor("channel", f[e.lead])
        BY <4>1
      <4>3. Draft(a, b, "open") \in Drafts(Len(tests))
        BY DEF Draft, Drafts
      <4> QED
        BY <2>2, <4>2, <4>3
    <3> QED
      BY <3>1, <3>2 DEF LearnHand, WithOffers
  <2>7. ASSUME "overlap" \notin upsets PROVE LearnAlone("draft", held)
    <3>1. \A l \in was.leads : IsActive("offer") => was.offer[l] # NoLabel
      BY <1>5, <2>7 DEF LearnAlone, WithOffers
    <3>2. \A e \in held.todo : /\ IsActive("offer") => e.draft.offer # NoLabel
                               /\ IsActive("channel") => e.draft.channel # NoLabel
      BY <2>2, <2>3, <2>4, <3>1
    <3>3. ASSUME NEW what \in Kinds, IsActive(what), NEW e \in held.todo PROVE e.draft[what] # NoLabel
      <4>1. CASE what = "offer"
        BY <3>2, <3>3, <4>1
      <4>2. CASE what = "channel"
        BY <3>2, <3>3, <4>2
      <4> QED
        BY <4>1, <4>2 DEF Kinds
    <3> QED
      BY <3>3 DEF LearnAlone, WithOffers
  <2>8. ASSUME upsets = {} PROVE LearnCap("draft", held)
    <3>1. ASSUME NEW i \in DOMAIN tests, NEW k \in Arm, tests[i].status = "active"
          PROVE  Number(Cohort(tests[i], k)) + Cardinality(ToDraft(held, tests[i], k)) <= MaxAssigned
      <4> DEFINE n == Number(Cohort(tests[i], k))
                 D == ToDraft(held, tests[i], k)
      <4>1. n <= MaxAssigned /\ n \in Nat /\ MaxAssigned \in Nat /\ MaxResolved \in Nat
        BY <1>1, <2>8, <3>1, CohortType, TestsAssumption DEF SamplesStand
      <4>2. D \in SUBSET held.todo
        BY DEF ToDraft
      <4>3. \E S \in SUBSET was.leads : (\A e \in D : e.lead \in S) /\ n + Cardinality(S) <= MaxAssigned
        <5>1. CASE tests[i].what = "offer"
          <6>1. \A e \in D : e.lead \in Offered(was, tests[i], k)
            BY <2>2, <2>3, <5>1 DEF ToDraft, Offered
          <6>2. n + Cardinality(Offered(was, tests[i], k)) <= MaxAssigned
            BY <1>5, <2>8, <3>1, <5>1 DEF LearnCap, WithOffers
          <6>3. Offered(was, tests[i], k) \in SUBSET was.leads
            BY DEF Offered
          <6> QED
            BY <6>1, <6>2, <6>3
        <5>2. CASE tests[i].what = "channel"
          <6> DEFINE S == {l \in was.leads : LabelFor("channel", f[l]) = Arms(tests[i], k)}
          <6>1. \A e \in D : e.lead \in S
            BY <2>2, <2>3, <5>2 DEF ToDraft
          <6>2. n + Cardinality(S) <= MaxAssigned
            BY <1>1, <1>6, <2>0, <3>1, <4>1, ArmsHavePlaces
          <6>3. S \in SUBSET was.leads
            OBVIOUS
          <6> QED
            BY <6>1, <6>2, <6>3
        <5>3. tests[i] \in Test
          BY <1>1, LenProperties DEF TestsKnown
        <5> QED
          BY <5>1, <5>2, <5>3 DEF Test
      <4> HIDE DEF n, D
      <4>4. PICK S \in SUBSET was.leads : (\A e \in D : e.lead \in S) /\ n + Cardinality(S) <= MaxAssigned
        BY <4>3
      <4>5. Cardinality(D) \in Nat /\ Cardinality(S) \in Nat /\ Cardinality(D) <= Cardinality(S)
        BY <2>5, <4>2, <4>4
      <4>6. n + Cardinality(D) <= MaxAssigned
        BY <4>1, <4>4, <4>5
      <4> QED
        BY <4>6 DEF n, D
    <3> QED
      BY <3>1 DEF LearnCap, WithOffers
  <2>9. at' = [at EXCEPT ![p] = "draft"] /\ mine' = [mine EXCEPT ![p] = held]
    BY <1>9, <2>1 DEF Go, Hold
  <2> QED
    BY <1>2, <1>3, <2>6, <2>7, <2>8, <2>9, StandsStill
<1>10. CASE ~ChannelTestDue
  <2>1. PICK f \in Assignments("channel", mine[p].leads, {l \in mine[p].leads : l.reach = Arm}) :
          LET chosen == Oldest(Chosen("channel", mine[p].leads, f), mine[p].limit) IN
          IF chosen = {} THEN Stop(p)
          ELSE /\ Go(p, "draft")
               /\ Hold(p, [todo |->
                     {[lead |-> l,
                       draft |-> Draft(mine[p].offer[l], LabelFor("channel", f[l]), "open")] :
                          l \in chosen}])
    BY <1>10 DEF AssignChannel
  <2>2. PICK chosen : chosen = Oldest(Chosen("channel", mine[p].leads, f), mine[p].limit)
    OBVIOUS
  <2> QED
    BY <1>7, <1>9, <2>1, <2>2
<1> QED
  BY <1>8, <1>10 DEF AssignChannel

-----------------------------------------------------------------------------
(* A draft is saved.                                                       *)

LEMMA DraftSaved ==
  ASSUME DraftsKnown, NEW e \in Drafts(Len(tests)), drafts' = drafts (+) SetToBag({e}),
         UNCHANGED tests, IsFiniteSet(pool')
  PROVE  /\ DraftsKnown'
         /\ \A x \in DOMAIN drafts : x \in DOMAIN drafts' /\ drafts[x] <= drafts'[x]
         /\ \A x \in BagToSet(drafts' (-) drafts) : x = e
         /\ \A t \in Test : \A k \in Arm :
               /\ Number(Cohort(t, k)) \in Nat /\ Number(Cohort(t, k))' \in Nat
               /\ Number(Cohort(t, k))' <= Number(Cohort(t, k)) + 1
               /\ e[t.what] # Arms(t, k) => Number(Cohort(t, k))' <= Number(Cohort(t, k))
<1>1. drafts' = More(drafts, e) /\ Many(drafts) /\ IsFiniteSet(DOMAIN drafts)
  BY DEF More, Many, DraftsKnown
<1>2. /\ Many(drafts') /\ DOMAIN drafts' = DOMAIN drafts \cup {e}
      /\ \A y \in DOMAIN drafts' : y = e \/ (y \in DOMAIN drafts /\ drafts'[y] = drafts[y])
      /\ e \notin DOMAIN drafts \/ drafts'[e] = drafts[e] + 1
      /\ e \in DOMAIN drafts \/ drafts'[e] = 1
  <2>1. PICK n : n = More(drafts, e)
    OBVIOUS
  <2>2. Many(drafts)
    BY <1>1
  <2>3. /\ Many(n) /\ DOMAIN n = DOMAIN drafts \cup {e}
        /\ \A y \in DOMAIN n : y = e \/ (y \in DOMAIN drafts /\ n[y] = drafts[y])
        /\ e \notin DOMAIN drafts \/ n[e] = drafts[e] + 1
        /\ e \in DOMAIN drafts \/ n[e] = 1
    BY <2>1, <2>2, OneDraftMore
  <2>4. drafts' = n
    BY <1>1, <2>1
  <2> QED
    BY <2>3, <2>4
<1>3. /\ drafts \in [DOMAIN drafts -> Nat \ {0}] /\ drafts' \in [DOMAIN drafts' -> Nat \ {0}]
      /\ IsFiniteSet(DOMAIN drafts')
  BY <1>1, <1>2, FS_AddElement DEF Many
<1>4. DraftsKnown'
  <2>1. \A y \in DOMAIN drafts' : y \in Drafts(Len(tests))
    BY <1>2 DEF DraftsKnown
  <2> QED
    BY <1>3, <2>1 DEF DraftsKnown
<1>5. \A x \in DOMAIN drafts : /\ x \in DOMAIN drafts' /\ drafts[x] <= drafts'[x]
                               /\ drafts[x] \in Nat /\ drafts'[x] \in Nat
                               /\ x # e => drafts'[x] = drafts[x]
  <2> TAKE x \in DOMAIN drafts
  <2>1. x \in DOMAIN drafts' /\ drafts[x] \in Nat /\ drafts'[x] \in Nat
    BY <1>2, <1>3
  <2>2. CASE x = e
    <3>1. drafts'[x] = drafts[x] + 1
      BY <1>2, <2>2
    <3> QED
      BY <2>1, <2>2, <3>1
  <2>3. CASE x # e
    <3>1. drafts'[x] = drafts[x]
      BY <1>2, <2>1, <2>3
    <3> QED
      BY <2>1, <3>1
  <2> QED
    BY <2>2, <2>3
<1>6. ASSUME NEW x \in BagToSet(drafts' (-) drafts) PROVE x = e
  <2> DEFINE C == [y \in DOMAIN drafts' |-> IF y \in DOMAIN drafts THEN drafts'[y] - drafts[y]
                                            ELSE drafts'[y]]
  <2>1. x \in DOMAIN drafts' /\ C[x] > 0
    BY DEF BagToSet, (-)
  <2>2. CASE x \in DOMAIN drafts /\ x # e
    <3>1. drafts'[x] = drafts[x] /\ drafts[x] \in Nat
      BY <1>5, <2>2
    <3>2. drafts'[x] - drafts[x] = 0 /\ C[x] = drafts'[x] - drafts[x]
      BY <2>1, <2>2, <3>1
    <3> QED
      BY <2>1, <3>2
  <2> QED
    BY <1>2, <2>1, <2>2
<1>7. ASSUME NEW t \in Test, NEW k \in Arm
      PROVE  /\ Number(Cohort(t, k)) \in Nat /\ Number(Cohort(t, k))' \in Nat
             /\ Number(Cohort(t, k))' <= Number(Cohort(t, k)) + 1
             /\ e[t.what] # Arms(t, k) => Number(Cohort(t, k))' <= Number(Cohort(t, k))
  <2> DEFINE C == Cohort(t, k)
             D == Cohort(t, k)'
             f == [x \in C |-> drafts[x]]
             g == [x \in D |-> drafts'[x]]
  <2>1. /\ C = {y \in DOMAIN drafts : y[t.what] = Arms(t, k)}
        /\ D = {y \in DOMAIN drafts' : y[t.what] = Arms(t, k)}
    BY DEF Cohort, BagToSet, Arms
  <2>2. Number(Cohort(t, k)) = Total(f) /\ Number(Cohort(t, k))' = Total(g)
    BY DEF Number
  <2>3. IsFiniteSet(C)
    <3>1. C \subseteq DOMAIN drafts
      BY <2>1
    <3> HIDE DEF C
    <3> QED
      BY <1>1, <3>1, FS_Subset
  <2>4. f \in [C -> Nat] /\ g \in [D -> Nat]
    BY <1>3, <2>1
  <2>5. \A y \in D : y # e => y \in C /\ g[y] = f[y]
    BY <1>2, <2>1
  <2>6. e \in D => g[e] = (IF e \in C THEN f[e] ELSE 0) + 1
    BY <1>2, <2>1
  <2>7. e[t.what] # Arms(t, k) => e \notin D
    BY <2>1
  <2>8. \A y \in C : f[y] \in Nat
    BY <2>4
  <2> HIDE DEF C, D, f, g
  <2>9. Total(g) \in Nat /\ Total(f) \in Nat /\ Total(g) <= Total(f) + 1
    <3>1. D \subseteq C \cup {e}
      BY <2>5
    <3>2. \A y \in D \ {e} : g[y] <= f[y]
      BY <2>5, <2>8
    <3>3. e \in D => g[e] <= (IF e \in C THEN f[e] ELSE 0) + 1
      BY <2>6, <2>8
    <3> QED
      BY <2>3, <2>4, <3>1, <3>2, <3>3, TotalOfOneMore
  <2>10. ASSUME e \notin D PROVE Total(g) <= Total(f)
    <3>1. D \subseteq C /\ \A y \in D : g[y] <= f[y]
      BY <2>5, <2>8, <2>10
    <3> QED
      BY <2>3, <2>4, <3>1, TotalOfLess
  <2> QED
    BY <2>2, <2>7, <2>9, <2>10
<1> QED
  BY <1>4, <1>5, <1>6, <1>7

LEMMA SaveDraftKeeps ==
  ASSUME LearnInv, NEW p \in Process, SaveDraft(p)
  PROVE  LearnKeeps(p)
<1>1. TestsKnown /\ DraftsKnown /\ SamplesStand /\ IsFiniteSet(pool) /\ Len(tests) \in Nat
  BY LenProperties DEF LearnInv, DraftsKnown, TestsKnown
<1>2. at[p] = "draft" /\ UNCHANGED tests
  BY DEF SaveDraft
<1>3. CASE Stop(p) /\ UNCHANGED <<drafts, pool, upsets>>
  <2>1. LearnGoes(p) /\ Working(p)
    BY <1>2, <1>3, AtWork, Steps
  <2> QED
    BY <1>1, <1>2, <1>3, <2>1, LearnIdles DEF LearnKeeps
<1>4. ASSUME NEW next \in mine[p].todo, drafts' = drafts (+) SetToBag({next.draft}),
             pool' = pool \ {next.lead}, UNCHANGED at,
             \/ Hold(p, [todo |-> mine[p].todo \ {next}]) /\ UNCHANGED upsets
             \/ upsets' = upsets \cup {"repeat"} /\ UNCHANGED mine
      PROVE  LearnKeeps(p)
  <2>1. PICK was : was = mine[p]
    OBVIOUS
  <2>2. /\ LearnHand("draft", was)
        /\ "overlap" \notin upsets => LearnAlone("draft", was)
        /\ upsets = {} => LearnCap("draft", was)
    BY <1>2, <2>1 DEF LearnInv
  <2>3. /\ IsFiniteSet(was.todo) /\ next \in was.todo
        /\ \A e \in was.todo : e.draft \in Drafts(Len(tests))
    BY <1>4, <2>1, <2>2 DEF LearnHand
  <2>4. PICK e : e = next.draft /\ e \in Drafts(Len(tests))
    BY <2>3
  <2>5. drafts' = drafts (+) SetToBag({e}) /\ IsFiniteSet(pool')
    BY <1>1, <1>4, <2>4, FS_Subset
  <2>6. /\ DraftsKnown'
        /\ \A x \in DOMAIN drafts : x \in DOMAIN drafts' /\ drafts[x] <= drafts'[x]
        /\ \A x \in BagToSet(drafts' (-) drafts) : x = e
        /\ \A t \in Test : \A k \in Arm :
              /\ Number(Cohort(t, k)) \in Nat /\ Number(Cohort(t, k))' \in Nat
              /\ Number(Cohort(t, k))' <= Number(Cohort(t, k)) + 1
              /\ e[t.what] # Arms(t, k) => Number(Cohort(t, k))' <= Number(Cohort(t, k))
    BY <1>1, <1>2, <2>4, <2>5, DraftSaved
  <2>7. TestsKnown'
    BY <1>1, <1>2 DEF TestsKnown
  <2>8. LearnGrows
    <3>1. \A x \in Answered : x \in DOMAIN drafts
      BY DEF Answered, BagToSet
    <3> QED
      BY <1>1, <1>2, <2>6, <3>1, AnswersGrow
  <2>9. /\ upsets \subseteq upsets' /\ Working(p)
        /\ "overlap" \in upsets' => "overlap" \in upsets
    <3>1. upsets \subseteq upsets' /\ ("overlap" \in upsets' => "overlap" \in upsets)
      BY <1>4
    <3>2. at[p] # "idle"
      BY <1>2
    <3> QED
      BY <3>1, <3>2 DEF LearnInv, Working
  <2>10. PICK held : /\ mine' = [mine EXCEPT ![p] = held]
                     /\ \/ held = [todo |-> was.todo \ {next}] /\ UNCHANGED upsets
                        \/ held = was /\ upsets' = upsets \cup {"repeat"}
    <3>1. mine = [mine EXCEPT ![p] = was]
      BY <2>1 DEF LearnInv
    <3> QED
      BY <1>4, <2>1, <3>1 DEF Hold
  <2>11. held.todo \subseteq was.todo
    BY <2>10
  <2>12. \* The place was there, and is the only one that is taken.
         ASSUME upsets' = {}, NEW i \in DOMAIN tests, NEW k \in Arm, tests[i].status = "active"
         PROVE  /\ Number(Cohort(tests[i], k))' <= MaxAssigned
                /\ Number(Cohort(tests[i], k))' + Cardinality(ToDraft(held, tests[i], k)) <= MaxAssigned
    <3>1. PICK t : t = tests[i]
      OBVIOUS
    <3>2. t \in Test
      BY <1>1, <3>1, LenProperties DEF TestsKnown
    <3>3. upsets = {} /\ held = [todo |-> was.todo \ {next}]
      BY <2>10, <2>12
    <3> DEFINE A == ToDraft(was, t, k)
               B == ToDraft(held, t, k)
               n == Number(Cohort(t, k))
               m == Number(Cohort(t, k))'
    <3>4. n + Cardinality(A) <= MaxAssigned
      BY <2>2, <2>12, <3>1, <3>3 DEF LearnCap
    <3>5. /\ n \in Nat /\ m \in Nat /\ m <= n + 1
          /\ e[t.what] # Arms(t, k) => m <= n
      BY <2>6, <3>2
    <3>6. /\ e[t.what] = Arms(t, k) => next \in A
          /\ B = A \ {next}
      BY <2>3, <2>4, <3>3 DEF ToDraft
    <3>7. IsFiniteSet(A)
      <4>1. A \subseteq was.todo
        BY DEF ToDraft
      <4> HIDE DEF A
      <4> QED
        BY <2>3, <4>1, FS_Subset
    <3>8. MaxAssigned \in Nat /\ MaxResolved \in Nat
      BY TestsAssumption
    <3> HIDE DEF A, B, n, m
    <3>9. /\ Cardinality(A) \in Nat /\ Cardinality(B) \in Nat /\ Cardinality(B) <= Cardinality(A)
          /\ next \in A => Cardinality(B) = Cardinality(A) - 1
      BY <3>6, <3>7, FS_RemoveElement, FS_Subset, FS_CardinalityType
    <3>10. m <= MaxAssigned /\ m + Cardinality(B) <= MaxAssigned
      BY <3>4, <3>5, <3>6, <3>8, <3>9
    <3> QED
      BY <1>2, <3>1, <3>10 DEF B, m
  <2>13. SamplesStand'
    BY <1>2, <2>8, <2>9, <2>12, SamplesStay
  <2>14. LearnHand("draft", held)'
    <3>1. IsFiniteSet(held.todo) /\ \A g \in held.todo : g.draft \in Drafts(Len(tests))
      BY <2>3, <2>11, FS_Subset
    <3> QED
      BY <1>2, <3>1 DEF LearnHand, WithOffers
  <2>15. ASSUME "overlap" \notin upsets'
         PROVE  /\ LearnAlone("draft", held)'
                /\ \A what \in Kinds : IsActive(what) => e[what] # NoLabel
    <3>1. LearnAlone("draft", was)
      BY <2>2, <2>9, <2>15
    <3>2. \A what \in Kinds : IsActive(what) => \A g \in was.todo : g.draft[what] # NoLabel
      BY <3>1 DEF LearnAlone
    <3>3. \A what \in Kinds : IsActive(what)' = IsActive(what)
      BY <1>2 DEF IsActive, HasStatus, Latest, SelectLastInSeq
    <3>4. LearnAlone("draft", held)'
      BY <2>11, <3>2, <3>3 DEF LearnAlone, WithOffers
    <3> QED
      BY <2>3, <2>4, <3>2, <3>4
  <2>16. ASSUME upsets' = {} PROVE LearnCap("draft", held)'
    <3>1. ASSUME NEW i \in DOMAIN tests, NEW k \in Arm, tests[i].status = "active"
          PROVE  Number(Cohort(tests[i], k))' + Cardinality(ToDraft(held, tests[i], k)) <= MaxAssigned
      BY <2>12, <2>16, <3>1
    <3> QED
      BY <1>2, <3>1 DEF LearnCap, WithOffers, ToDraft, Arms
  <2>17. at' = [at EXCEPT ![p] = "draft"]
    BY <1>2, <1>4 DEF LearnInv
  <2>18. LearnMove(p)
    BY <2>6, <2>7, <2>8, <2>9, <2>10, <2>13, <2>14, <2>15, <2>16, <2>17, LearnMoves
  <2>19. NobodyIsPassed
    BY <2>6, <2>15 DEF NobodyIsPassed, Kinds
  <2>20. ConclusionsStand
    BY <1>2 DEF ConclusionsStand
  <2> QED
    BY <2>18, <2>19, <2>20 DEF LearnKeeps
<1> QED
  BY <1>3, <1>4 DEF SaveDraft

-----------------------------------------------------------------------------
(* The whole loop, and what is promised of it.                             *)

LEMMA ProcessKeeps ==
  ASSUME LearnInv, NEW p \in Process,
         RefreshTick(p) \/ LearnByHand(p) \/ LearningWork(p) \/ LearningCrash(p)
  PROVE  LearnKeeps(p)
<1>1. IsFiniteSet(pool) /\ "offer" \in Kinds /\ "channel" \in Kinds
  BY DEF LearnInv, DraftsKnown, Kinds
<1>2. CASE RefreshTick(p)
  <2>1. LearnGoes(p) /\ Working(p)
    BY <1>2, EntersWorking, Steps DEF RefreshTick, LearnLabels
  <2> QED
    BY <1>1, <1>2, <2>1, LearnIdles DEF LearnKeeps, RefreshTick, testVars
<1>3. CASE LearnByHand(p)
  <2>1. Working(p)
    BY <1>3, EntersWorking DEF LearnByHand
  <2>2. CASE AnswerComes(p)
    BY <2>1, <2>2, AnswerKeeps
  <2>3. CASE /\ Go(p, "search") /\ Hold(p, [limit |-> 3])
             /\ UNCHANGED <<testVars, stage, judged, found>>
    <3>1. LearnGoes(p)
      BY <2>3, Steps DEF LearnLabels
    <3> QED
      BY <1>1, <2>1, <2>3, <3>1, LearnIdles DEF LearnKeeps, testVars
  <2> QED
    BY <1>3, <2>2, <2>3 DEF LearnByHand
<1>4. CASE LearningWork(p)
  <2>1. CASE Evaluate(p) \/ SaveDecision(p) \/ ApplyStage(p)
    BY <2>1, RefreshKeeps
  <2>2. CASE Judge(p, "offer") \/ Judge(p, "channel")
    BY <1>1, <2>2, JudgeKeeps
  <2>3. CASE Conclude(p) \/ MarketTurn(p)
    BY <2>3, ConcludeKeeps, MarketTurnKeeps
  <2>4. CASE SaveChannel(p) \/ SaveOffer(p)
    BY <2>4, SaveChannelKeeps, SaveOfferKeeps
  <2>5. CASE Search(p) \/ Assign(p) \/ AssignChannel(p)
    BY <2>5, SearchKeeps, AssignKeeps, AssignChannelKeeps
  <2>6. CASE SaveDraft(p)
    BY <2>6, SaveDraftKeeps
  <2> QED
    BY <1>4, <2>1, <2>2, <2>3, <2>4, <2>5, <2>6 DEF LearningWork
<1>5. CASE LearningCrash(p)
  <2>1. at[p] # "idle" /\ UNCHANGED <<tests, drafts, pool, upsets>> /\ Stop(p)
    BY <1>5 DEF LearningCrash, Dies, learningVars, testVars
  <2>2. LearnGoes(p) /\ Working(p)
    BY <2>1, AtWork, Steps
  <2> QED
    BY <1>1, <2>1, <2>2, LearnIdles DEF LearnKeeps
<1> QED
  BY <1>2, <1>3, <1>4, <1>5

\* The loops that do not learn have no venture.
Unlearned == tests = <<>> /\ drafts = EmptyBag

Learned ==
    /\ loop \in {"scheduling", "learning", "improvement"}
    /\ loop = "learning" => LearnInv
    /\ loop # "learning" => Unlearned

LearnSteps == [ConclusionsStand /\ NobodyIsPassed]_<<tests, drafts, pool, upsets>>

LEMMA LearningStarts ==
  ASSUME Init
  PROVE  Learned
<1>1. Quiet /\ loop \in {"scheduling", "learning", "improvement"}
  BY DEF Init, SelfInit
<1>2. CASE loop = "learning"
  <2>1. LearningInit /\ PastStands
    BY <1>2 DEF Init, LearningInit
  <2>2. at = [p \in Process |-> at[p]] /\ mine = [p \in Process |-> mine[p]]
    BY <1>1 DEF Quiet
  <2>3. TestsKnown
    <3>1. /\ tests \in Seq(Test) /\ {tests[i].id : i \in DOMAIN tests} = DOMAIN tests
          /\ \A i, j \in DOMAIN tests : tests[i].id = tests[j].id => i = j
      BY <2>1 DEF PastStands
    <3>2. \A i \in DOMAIN tests : tests[i].id \in DOMAIN tests
      BY <3>1
    <3>3. \A n \in DOMAIN tests : \E i \in DOMAIN tests : tests[i].id = n
      BY <3>1
    <3> QED
      BY <3>1, <3>2, <3>3 DEF TestsKnown
  <2>4. DraftsKnown
    <3>1. drafts \in [DOMAIN drafts -> {n \in Nat : n > 0}] /\ IsFiniteSet(DOMAIN drafts)
          /\ IsFiniteSet(pool) /\ \A d \in DOMAIN drafts : d \in Drafts(Len(tests))
      BY <2>1 DEF PastStands, IsABag, BagToSet
    <3>2. {n \in Nat : n > 0} = Nat \ {0}
      OBVIOUS
    <3> QED
      BY <3>1, <3>2 DEF DraftsKnown
  <2>5. \A p \in Process : at[p] = "idle"
    BY <1>1 DEF Quiet
  <2>6. \A p \in Process : LearnHand(at[p], mine[p]) /\ LearnAlone(at[p], mine[p]) /\ LearnCap(at[p], mine[p])
    BY <2>5 DEF LearnHand, LearnAlone, LearnCap, WithOffers
  <2> QED
    BY <1>2, <2>1, <2>2, <2>3, <2>4, <2>5, <2>6 DEF Learned, LearnInv, PastStands
<1>3. CASE loop # "learning"
  BY <1>1, <1>3 DEF Init, LearningIdle, Learned, Unlearned
<1> QED
  BY <1>2, <1>3

LEMMA LearningKeeps ==
  ASSUME Learned, [Next]_vars
  PROVE  Learned' /\ LearnSteps
<1>1. CASE Learns
  <2>1. loop = "learning" /\ loop' = loop /\ LearnInv
    BY <1>1 DEF Learns, Unimproved, Learned
  <2>2. PICK p \in Process : RefreshTick(p) \/ LearnByHand(p) \/ LearningWork(p) \/ LearningCrash(p)
    BY <1>1 DEF Learns, LearningNext
  <2>3. LearnKeeps(p)
    BY <2>1, <2>2, ProcessKeeps
  <2>4. LearnInv'
    BY <2>1, <2>3, LearnMoveKeeps DEF LearnKeeps
  <2> QED
    BY <2>1, <2>3, <2>4 DEF LearnKeeps, Learned, LearnSteps
<1>2. CASE UNCHANGED learningVars /\ loop' = loop /\ loop # "learning"
  BY <1>2 DEF learningVars, testVars, Learned, Unlearned, LearnSteps
<1>3. CASE UNCHANGED vars
  <2>1. UNCHANGED <<loop, at, mine, tests, drafts, pool, upsets>>
    BY <1>3 DEF vars, improveVars, processVars, learningVars, testVars
  <2>2. CASE loop = "learning"
    <3>1. LearnInv /\ IsFiniteSet(pool')
      BY <2>1, <2>2 DEF Learned, LearnInv, DraftsKnown
    <3>2. TestsKnown' /\ DraftsKnown' /\ SamplesStand'
      BY <2>1, <3>1, LearnStill
    <3>3. /\ \A p \in Process : LearnHand(at[p], mine[p])'
          /\ "overlap" \notin upsets => \A p \in Process : LearnAlone(at[p], mine[p])'
          /\ upsets = {} => \A p \in Process : LearnCap(at[p], mine[p])'
      <4>1. ASSUME NEW p \in Process
            PROVE  /\ LearnHand(at[p], mine[p])'
                   /\ "overlap" \notin upsets => LearnAlone(at[p], mine[p])'
                   /\ upsets = {} => LearnCap(at[p], mine[p])'
        <5>1. PICK here, held : here = at[p] /\ held = mine[p]
          OBVIOUS
        <5>2. /\ LearnHand(here, held)
              /\ "overlap" \notin upsets => LearnAlone(here, held)
              /\ upsets = {} => LearnCap(here, held)
          BY <3>1, <5>1 DEF LearnInv
        <5>3. /\ LearnHand(here, held)'
              /\ "overlap" \notin upsets => LearnAlone(here, held)'
              /\ upsets = {} => LearnCap(here, held)'
          BY <2>1, <5>2, LearnSame
        <5> QED
          BY <2>1, <5>1, <5>3
      <4> QED
        BY <4>1
    <3>4. LearnInv'
      BY <2>1, <3>1, <3>2, <3>3 DEF LearnInv
    <3> QED
      BY <2>1, <2>2, <3>4 DEF Learned, LearnSteps
  <2>3. CASE loop # "learning"
    BY <2>1, <2>3 DEF Learned, Unlearned, LearnSteps
  <2> QED
    BY <2>2, <2>3
<1>4. CASE Scheduling \/ Improving
  BY <1>2, <1>4 DEF Scheduling, Improving, Unimproved
<1> QED
  BY <1>1, <1>3, <1>4 DEF Next

(* Whatever ventures have behind them, and whoever overlaps or dies: a     *)
(* test is concluded with enough answers in each of its arms and channels  *)
(* are tested after the offer; and processes that never overlap keep the   *)
(* sample within its limits, unless a lead is drafted for twice, draft for *)
(* nobody past an active test and never take back a conclusion. For any    *)
(* number of processes, tests, leads, answers and upsets, and any minimum, *)
(* maximum and limit.                                                      *)
THEOREM TestsAlwaysStayFair == Spec => TestsStayFair
<1>1. Init => Learned
  BY LearningStarts
<1>2. Learned /\ [Next]_vars => Learned' /\ LearnSteps
  BY LearningKeeps
<1>3. Learned => SamplesStand
  <2>1. ASSUME Unlearned PROVE SamplesStand
    BY <2>1 DEF Unlearned, SamplesStand
  <2> QED
    BY <2>1 DEF Learned, LearnInv
<1> QED
  BY <1>1, <1>2, <1>3, PTL DEF Spec, TestsStayFair, LearnSteps
=============================================================================
