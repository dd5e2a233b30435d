------------------------------ MODULE WorkQueue ------------------------------
(* ChildAgentWorker: the file queue of one child agent. A job is a file    *)
(* that is renamed from one directory to the next, a receipt is a file     *)
(* that is created exclusively. A rename keeps the time of modification,   *)
(* so what recover_stale_processing takes for stale is the age of the job  *)
(* since it was enqueued, and it may take it from a worker that is alive.  *)
EXTENDS Integers, Sequences, FiniteSets, Hosts

CONSTANT
    Job         \* the jobs: uuid5 of the artifact and a source key

VARIABLES
    place,      \* place[j]: the directories that hold a file of j
    blank,      \* blank[j]: those where it was created but has no content yet
    aged,       \* the jobs whose file is older than the recovery's threshold
    receipts    \* receipts[j]: none, a file without content, or a status

queueVars == <<place, blank, aged, receipts>>

Outcome == {"completed", "blocked", "failed"}
Directory == {"pending", "processing"} \cup Outcome
Receipt == {"none", "empty"} \cup Outcome

QueueInit ==
    /\ place = [j \in Job |-> {}] /\ blank = [j \in Job |-> {}] /\ aged = {}
    /\ receipts = [j \in Job |-> "none"]

\* os.replace: the file leaves one directory for another, where it takes the
\* place of a file that is there.
Move(j, from, to) ==
    /\ place' = [place EXCEPT ![j] = (@ \ {from}) \cup {to}]
    /\ blank' = [blank EXCEPT ![j] = IF from \in @ THEN (@ \ {from}) \cup {to} ELSE @ \ {to}]

\* ... or raises, when it has gone.
TryMove(j, from, to) ==
    IF from \in place[j] THEN Move(j, from, to) ELSE UNCHANGED <<place, blank>>

-----------------------------------------------------------------------------
(* enqueue. find_job looks into one directory after the other; a job that  *)
(* is there is returned, one without content raises.                       *)

EnqueueBegin(p) ==
    /\ at[p] = "enqueue"
    /\ \E j \in Job : IF "pending" \in place[j]
                      THEN Stop(p)
                      ELSE Go(p, "find_processing") /\ Hold(p, [id |-> j])
    /\ UNCHANGED queueVars

FindProcessing(p) ==
    /\ at[p] = "find_processing"
    /\ IF "processing" \in place[mine[p].id]
       THEN Stop(p)
       ELSE Go(p, "find_finished") /\ UNCHANGED mine
    /\ UNCHANGED queueVars

FindFinished(p) ==
    /\ at[p] = "find_finished"
    /\ IF place[mine[p].id] \cap Outcome # {}
       THEN Stop(p)
       ELSE Go(p, "write_job") /\ UNCHANGED mine
    /\ UNCHANGED queueVars

\* Exclusive creation: a file that is there by now raises.
WriteJob(p) ==
    LET j == mine[p].id IN
    /\ at[p] = "write_job"
    /\ IF "pending" \in place[j]
       THEN Stop(p) /\ UNCHANGED <<place, blank, aged>>
       ELSE /\ place' = [place EXCEPT ![j] = @ \cup {"pending"}]
            /\ blank' = [blank EXCEPT ![j] = @ \cup {"pending"}]
            /\ aged' = aged \ {j}
            /\ Go(p, "fill_job") /\ UNCHANGED mine
    /\ UNCHANGED receipts

\* The content goes to the file wherever it has been moved since.
FillJob(p) ==
    LET j == mine[p].id IN
    /\ at[p] = "fill_job"
    /\ \/ \E d \in blank[j] : blank' = [blank EXCEPT ![j] = @ \ {d}]
       \/ blank[j] = {} /\ UNCHANGED blank
    /\ aged' = aged \ {j}
    /\ Stop(p)
    /\ UNCHANGED <<place, receipts>>

-----------------------------------------------------------------------------
(* work_once.                                                              *)

\* A pending file is moved to processing; a file that somebody else has moved
\* is passed over.
Take(p) ==
    /\ at[p] = "work"
    /\ \/ \E j \in Job :
            /\ "pending" \in place[j]
            /\ Move(j, "pending", "processing")
            /\ Go(p, "look") /\ Hold(p, [id |-> j])
       \/ /\ \A j \in Job : "pending" \notin place[j]
          /\ Stop(p) /\ UNCHANGED <<place, blank>>
    /\ UNCHANGED <<aged, receipts>>

\* The job's file is read where it was moved, then its receipt. A file that
\* has gone and one without content raise, a receipt without content too.
Look(p) ==
    LET j == mine[p].id IN
    /\ at[p] = "look"
    /\ CASE "processing" \notin place[j] \ blank[j] \/ receipts[j] = "empty" -> Stop(p)
         [] "processing" \in place[j] \ blank[j] /\ receipts[j] = "none" ->
                Go(p, "execute") /\ UNCHANGED mine
         [] OTHER -> Go(p, "finish") /\ Hold(p, [id |-> j, status |-> receipts[j]])
    /\ UNCHANGED queueVars

\* The agent's answer; a provider that fails or a tampered artifact raises
\* and leaves the job where it is.
Execute(p) ==
    /\ at[p] = "execute"
    /\ \/ Stop(p)
       \/ \E status \in Outcome :
            Hold(p, [id |-> mine[p].id, status |-> status]) /\ Go(p, "receipt")
    /\ UNCHANGED queueVars

\* Faulty: a receipt that is there is written again.
CreateReceiptAgain(p) ==
    /\ at[p] = "receipt"
    /\ receipts' = [receipts EXCEPT ![mine[p].id] = "empty"]
    /\ Go(p, "fill") /\ UNCHANGED mine
    /\ UNCHANGED <<place, blank, aged>>

\* The receipt is created exclusively, then written.
CreateReceipt(p) ==
    /\ at[p] = "receipt"
    /\ IF receipts[mine[p].id] # "none"
       THEN Stop(p) /\ UNCHANGED receipts
       ELSE /\ receipts' = [receipts EXCEPT ![mine[p].id] = "empty"]
            /\ Go(p, "fill") /\ UNCHANGED mine
    /\ UNCHANGED <<place, blank, aged>>

FillReceipt(p) ==
    /\ at[p] = "fill"
    /\ receipts' = [receipts EXCEPT ![mine[p].id] = mine[p].status]
    /\ Go(p, "finish") /\ UNCHANGED <<mine, place, blank, aged>>

\* A file that was recovered meanwhile raises.
FinishJob(p) ==
    /\ at[p] = "finish"
    /\ TryMove(mine[p].id, "processing", mine[p].status)
    /\ Stop(p)
    /\ UNCHANGED <<aged, receipts>>

-----------------------------------------------------------------------------
(* recover_stale_processing, and time.                                     *)

\* An old job without a receipt is taken; a receipt without content raises.
RecoverBegin(p) ==
    /\ at[p] = "recover"
    /\ \/ \E j \in aged :
            /\ "processing" \in place[j] /\ receipts[j] = "none"
            /\ Go(p, "requeue") /\ Hold(p, [id |-> j])
       \/ Stop(p)
    /\ UNCHANGED queueVars

Requeue(p) ==
    /\ at[p] = "requeue"
    /\ TryMove(mine[p].id, "processing", "pending")
    /\ Go(p, "recover") /\ Hold(p, Nothing)
    /\ UNCHANGED <<aged, receipts>>

Age ==
    /\ \E j \in Job \ aged : place[j] # {} /\ aged' = aged \cup {j}
    /\ UNCHANGED <<at, mine, place, blank, receipts>>

QueueStep(p) ==
    \/ EnqueueBegin(p) \/ FindProcessing(p) \/ FindFinished(p)
    \/ WriteJob(p) \/ FillJob(p)
    \/ Take(p) \/ Look(p) \/ Execute(p) \/ CreateReceipt(p) \/ FillReceipt(p)
    \/ FinishJob(p) \/ RecoverBegin(p) \/ Requeue(p)
=============================================================================
