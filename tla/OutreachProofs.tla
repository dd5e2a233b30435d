---------------------------- MODULE OutreachProofs ----------------------------
(***************************************************************************)
(* The safety of first contact, for any leads, ventures, identities, caps, *)
(* number of runs, days and crashes.                                       *)
(*                                                                         *)
(* OutreachInv is what holds whoever sends: it relates the tables of one   *)
(* run (RunInv) and what a process that holds a run knows of it (Knows).   *)
(* AloneInv and CapInv add what holds while only ticks send and record:    *)
(* no process holds a stale row, and the caps have room for the contact    *)
(* that a tick is about to make.                                           *)
(***************************************************************************)
EXTENDS Outreach, FiniteSetTheorems, TLAPS

\* Where a process can be, and what it then is about to do to a run it has read.
Contacting == {"send", "save_dispatched", "mark_contacted", "save_failed", "save_blocked"}
Recording == {"save_response", "save_revenue", "suppress", "mark_lead", "complete"}
Holding == Contacting \cup Recording \cup {"save_approved"}
Place == {"idle", "save_prepared", "discovered"} \cup Holding

AnyAnswer == AnswerKind \cup {"none"}
Call == [at : Place, r : Run \cup {0}, lead : Lead, row : Row, reply : AnyAnswer]

(* TypeOK with what the processes hold in their hands.                     *)
Columns ==
    /\ active \in SUBSET Venture /\ drafted \in SUBSET Lead /\ suppressed \in SUBSET Identity
    /\ stage \in [Lead -> LeadStage]
    /\ run \in [Run -> Row]
    /\ response \in [Run -> AnyAnswer] /\ answer \in [Run -> AnyAnswer]
    /\ revenue \in [Run -> Nat]
    /\ accepted \in SUBSET Run
    /\ call \in [Client -> Call]
    /\ manual \in BOOLEAN /\ day \in Nat \ {NoDay} /\ crashes \in 0..MaxCrashes

\* What a recorded answer leaves behind.
Traced(r, kind) ==
    /\ kind = "sale" => revenue[r] > 0
    /\ kind \in Refusal => IdentityOf[run[r].lead] \in suppressed

(* What the tables say of one run.                                         *)
RunInv(r) ==
    /\ r \in accepted => run[r].status # "none" /\ run[r].approved
    /\ answer[r] # "none" => r \in accepted
    /\ response[r] # "none" => response[r] = answer[r]
    /\ revenue[r] > 0 => response[r] = "sale"
    /\ run[r].status = "completed" => response[r] # "none" /\ Traced(r, response[r])

(* What a process that is at k.at knows of the run it holds.               *)
Knows(k) ==
    /\ k.at \in Holding =>
          /\ k.r \in Run /\ run[k.r].status # "none"
          /\ k.row.lead = run[k.r].lead /\ k.row.status # "none"
    /\ k.at \in Contacting \cup Recording => k.row.approved /\ run[k.r].approved
    /\ k.at \in Recording => k.reply # "none" /\ k.reply = answer[k.r]
    /\ k.at \in Recording \ {"save_response"} => response[k.r] = k.reply
    /\ k.at = "save_revenue" => k.reply = "sale"
    /\ k.at = "suppress" => k.reply \in Refusal
    /\ k.at \in {"mark_lead", "complete"} => Traced(k.r, k.reply)

OutreachInv ==
    /\ Columns
    /\ \A r \in Run : RunInv(r)
    /\ \A c \in Client : Knows(call[c])

(* A run that waits for an approval, or is held to be approved or rejected, *)
(* has none: only the operator decides.                                    *)
Undecided ==
    /\ \A r \in Run : run[r].status = "waiting_approval" => ~run[r].approved
    /\ call[Scheduler].at # "save_approved"
    /\ call[Operator].at = "save_approved" => ~run[call[Operator].r].approved

-----------------------------------------------------------------------------
(* When only ticks send and record, the row a process holds is the stored  *)
(* one, so that what it writes back is not stale.                          *)
Current(c, k) ==
    /\ c = Operator => k.at \in {"idle", "save_prepared", "save_approved"}
    /\ k.at = "save_approved" =>
          c = Operator /\ run[k.r] = k.row /\ k.row.status = "waiting_approval"
    /\ k.at \in Contacting \ {"mark_contacted"} => run[k.r] = k.row /\ k.row.status = "ready"
    /\ k.at \in Recording => run[k.r] = k.row /\ k.row.status = "waiting_result"
    /\ k.at = "save_response" => response[k.r] = "none"
    /\ k.at = "save_revenue" => revenue[k.r] = 0

(* A run has a day from its dispatch on.                                   *)
Dated(r) ==
    /\ revenue[r] <= 1
    /\ run[r].status \in {"none", "waiting_approval", "ready"} => run[r].day = NoDay
    /\ run[r].status = "waiting_result" => run[r].day # NoDay
    /\ response[r] # "none" => run[r].day # NoDay
    /\ run[r].day <= day

AloneInv ==
    /\ \A c \in Client : Current(c, call[c])
    /\ \A r \in Run : Dated(r)

(* ... and the caps still have room for the contact a tick is about to make. *)
Room ==
    call[Scheduler].at \in {"send", "save_dispatched"} =>
        WithinLimits(call[Scheduler].row.lead)

CapInv ==
    /\ \A l \in Lead : Cardinality(Contacts(l)) <= IdentityCap
    /\ \A d \in Nat \ {NoDay} : Cardinality(ContactsOn(d)) <= DayCap
    /\ Room

-----------------------------------------------------------------------------
(* Types                                                                   *)

\* No row and no call are what they are said to be.
LEMMA FirstTypes ==
  ASSUME OutreachAssumption
  PROVE  NoRow \in Row /\ NoCall \in Call /\ NoCall.at = "idle" /\ NoRow.status = "none"
<1>1. NoRow.lead \in Lead
  BY DEF OutreachAssumption, NoRow
<1>2. NoRow \in Row /\ NoRow.status = "none"
  BY <1>1 DEF NoRow, Row, Status, NoDay
<1> QED
  BY <1>1, <1>2 DEF NoCall, Call, Place, AnyAnswer

\* A process takes up a lead,
LEMMA CallNames ==
  ASSUME OutreachAssumption, NEW p \in Place, NEW l \in Lead
  PROVE  LET k == [NoCall EXCEPT !.at = p, !.lead = l] IN k \in Call /\ k.at = p /\ k.lead = l
BY FirstTypes DEF Call

\* or goes on with what it has.
LEMMA CallMoves ==
  ASSUME NEW k \in Call, NEW p \in Place
  PROVE  LET m == [k EXCEPT !.at = p]
         IN  /\ m \in Call /\ m.at = p /\ m.r = k.r /\ m.lead = k.lead
             /\ m.row = k.row /\ m.reply = k.reply
BY DEF Call

\* The fields of a call.
LEMMA CallFields ==
  ASSUME NEW k \in Call
  PROVE  k.at \in Place /\ k.r \in Run \cup {0} /\ k.lead \in Lead /\ k.row \in Row
         /\ k.reply \in AnyAnswer
BY DEF Call

\* The rest of a row stays as its status changes.
LEMMA RowChanges ==
  ASSUME NEW row \in Row, NEW s \in Status, NEW d \in Nat
  PROVE  LET a == [row EXCEPT !.status = s]
             b == [row EXCEPT !.status = s, !.day = d]
             e == [row EXCEPT !.status = s, !.approved = TRUE]
         IN  /\ a \in Row /\ a.status = s /\ a.lead = row.lead /\ a.approved = row.approved
                /\ a.day = row.day
             /\ b \in Row /\ b.status = s /\ b.lead = row.lead /\ b.approved = row.approved
                /\ b.day = d
             /\ e \in Row /\ e.status = s /\ e.lead = row.lead /\ e.approved /\ e.day = row.day
BY DEF Row

\* Only one process takes a step.
LEMMA OneMoves ==
  ASSUME call \in [Client -> Call], NEW c \in Client, NEW new \in Call, Goto(c, new)
  PROVE  /\ call' \in [Client -> Call] /\ call'[c] = new
         /\ \A d \in Client \ {c} : call'[d] = call[d]
BY DEF Goto

-----------------------------------------------------------------------------
(* What one process does leaves what another one knows in place.           *)

\* Runs keep their lead and their approval, answers and traces are not taken back.
Grows ==
    /\ \A r \in Run :
          /\ run[r].status # "none" => /\ run'[r].lead = run[r].lead /\ run'[r].status # "none"
                                       /\ run[r].approved => run'[r].approved
          /\ answer[r] # "none" => answer'[r] = answer[r]
          /\ response[r] # "none" => response'[r] = response[r]
          /\ revenue'[r] >= revenue[r]
    /\ suppressed \subseteq suppressed'

\* What left its trace has left it for good.
LEMMA TracedStays ==
  ASSUME Columns, Grows, revenue' \in [Run -> Nat],
         NEW r \in Run, NEW kind, run[r].status # "none", Traced(r, kind)
  PROVE  Traced(r, kind)'
<1>1. run'[r].lead = run[r].lead /\ revenue'[r] >= revenue[r] /\ suppressed \subseteq suppressed'
  BY DEF Grows
<1>2. revenue[r] \in Nat /\ revenue'[r] \in Nat
  BY DEF Columns
<1> QED
  BY <1>1, <1>2 DEF Traced

\* What a process knows stays true.
LEMMA KnowsStays ==
  ASSUME Columns, Grows, revenue' \in [Run -> Nat], NEW k \in Call, Knows(k)
  PROVE  Knows(k)'
<1>1. CASE k.at \in Holding
  <2>1. k.r \in Run /\ run[k.r].status # "none"
    BY <1>1 DEF Knows
  <2>2. k.at \in {"mark_lead", "complete"} => Traced(k.r, k.reply)'
    BY <2>1, TracedStays DEF Knows
  <2> QED
    BY <1>1, <2>1, <2>2 DEF Knows, Grows
<1>2. CASE k.at \notin Holding
  BY <1>2 DEF Knows, Holding, Contacting, Recording
<1> QED
  BY <1>1, <1>2

\* What is left to show of a step: the tables it changes, and the processes that move.
LEMMA StepKeeps ==
  ASSUME OutreachInv, Columns', Grows, \A r \in Run : RunInv(r)',
         NEW moved \in SUBSET Client,
         \A c \in Client \ moved : call'[c] = call[c],
         \A c \in moved : Knows(call[c])'
  PROVE  OutreachInv'
<1>1. \A c \in Client \ moved : Knows(call[c])'
  <2> SUFFICES ASSUME NEW c \in Client \ moved PROVE Knows(call[c])'
    OBVIOUS
  <2>1. call[c] \in Call /\ Knows(call[c]) /\ Columns
    BY DEF OutreachInv, Columns
  <2>2. revenue' \in [Run -> Nat]
    BY DEF Columns
  <2>3. \A k \in Call : Knows(k) => Knows(k)'
    BY <2>1, <2>2, KnowsStays
  <2>4. PICK k \in Call : k = call[c]
    BY <2>1
  <2>5. Knows(k)' /\ call'[c] = k
    BY <2>1, <2>3, <2>4
  <2> QED
    BY <2>5 DEF Knows, Traced
<1> QED
  BY <1>1 DEF OutreachInv

shown == <<run, response, revenue, suppressed, accepted, answer>>

\* A step that leaves runs, answers and traces alone.
LEMMA QuietKeeps ==
  ASSUME OutreachInv, UNCHANGED shown,
         active' \in SUBSET Venture, drafted' \in SUBSET Lead, stage' \in [Lead -> LeadStage],
         manual' \in BOOLEAN, day' \in Nat \ {NoDay}, crashes' \in 0..MaxCrashes,
         NEW moved \in SUBSET Client, call' \in [Client -> Call],
         \A c \in Client \ moved : call'[c] = call[c],
         \A c \in moved : Knows(call[c])'
  PROVE  OutreachInv'
<1>0. run' = run /\ response' = response /\ revenue' = revenue /\ suppressed' = suppressed
      /\ accepted' = accepted /\ answer' = answer
  BY DEF shown
<1>1. Columns'
  BY <1>0 DEF OutreachInv, Columns
<1>2. Grows
  BY <1>0 DEF Grows, OutreachInv, Columns
<1>3. \A r \in Run : RunInv(r)'
  BY <1>0 DEF OutreachInv, RunInv, Traced
<1> QED
  BY <1>1, <1>2, <1>3, StepKeeps

\* ... and in which one process moves.
LEMMA MoveKeeps ==
  ASSUME OutreachInv, UNCHANGED <<shown, active, manual, day>>,
         drafted' \in SUBSET Lead, stage' \in [Lead -> LeadStage], crashes' \in 0..MaxCrashes,
         NEW c \in Client, NEW new \in Call, Goto(c, new), Knows(new)
  PROVE  OutreachInv'
<1>1. /\ call' \in [Client -> Call] /\ call'[c] = new
      /\ \A d \in Client \ {c} : call'[d] = call[d]
  BY OneMoves DEF OutreachInv, Columns
<1>2. Knows(call[c])'
  BY <1>1 DEF Knows, Traced, shown
<1>3. \A d \in {c} : Knows(call[d])'
  BY <1>2
<1>4. /\ active' \in SUBSET Venture /\ manual' \in BOOLEAN /\ day' \in Nat \ {NoDay}
      /\ UNCHANGED shown /\ {c} \in SUBSET Client
  BY DEF OutreachInv, Columns
<1> QED
  BY <1>1, <1>3, <1>4, QuietKeeps

-----------------------------------------------------------------------------
(* A process looks at a run, or leaves: nothing is stored.                 *)

\* The tables, typed.
LEMMA Tables ==
  ASSUME OutreachInv
  PROVE  /\ drafted \in SUBSET Lead /\ stage \in [Lead -> LeadStage] /\ crashes \in 0..MaxCrashes
         /\ run \in [Run -> Row] /\ answer \in [Run -> AnyAnswer]
         /\ \A c \in Client : call[c] \in Call /\ Knows(call[c])
BY DEF OutreachInv, Columns

\* A process without a run knows nothing.
LEMMA KnowsNothing ==
  ASSUME NEW k, k.at \in {"idle", "save_prepared", "discovered"}
  PROVE  Knows(k)
BY DEF Knows, Holding, Contacting, Recording

\* A process takes up a draft,
LEMMA PrepareKeeps ==
  ASSUME OutreachInv, OutreachAssumption, NEW c \in Client, NEW l \in Lead, Prepare(c, l)
  PROVE  OutreachInv'
<1> DEFINE k == [NoCall EXCEPT !.at = "save_prepared", !.lead = l]
<1>1. k \in Call /\ k.at = "save_prepared"
  BY CallNames DEF Place
<1>2. Goto(c, k) /\ UNCHANGED <<shown, active, manual, day, drafted, stage, crashes>>
  BY DEF Prepare, OnlyCall, shown, runs, leads, world
<1> HIDE DEF k
<1>3. Knows(k)
  BY <1>1, KnowsNothing
<1> QED
  BY <1>1, <1>2, <1>3, Tables, MoveKeeps

\* a run to send or to block,
LEMMA DispatchKeeps ==
  ASSUME OutreachInv, OutreachAssumption, NEW c \in Client, NEW r \in Run, Dispatch(c, r)
  PROVE  OutreachInv'
<1>1. PICK p \in {"send", "save_blocked"} :
         Goto(c, [NoCall EXCEPT !.at = p, !.r = r, !.row = run[r]])
  BY DEF Dispatch
<1>2. PICK k : k = [NoCall EXCEPT !.at = p, !.r = r, !.row = run[r]] /\ Goto(c, k)
  BY <1>1
<1>3. run[r] \in Row /\ run[r].approved /\ run[r].status = "ready" /\ p \in Place
  BY Tables DEF Dispatch, Sendable, Place, Holding, Contacting
<1>4. k \in Call /\ k.at = p /\ k.r = r /\ k.row = run[r]
  BY <1>2, <1>3, FirstTypes DEF NoCall, Call, AnyAnswer
<1>5. Knows(k)
  BY <1>1, <1>3, <1>4 DEF Knows, Recording
<1>6. UNCHANGED <<shown, active, manual, day, drafted, stage, crashes>>
  BY DEF Dispatch, OnlyCall, shown, runs, leads, world
<1> QED
  BY <1>2, <1>4, <1>5, <1>6, Tables, MoveKeeps

\* an answer to record,
LEMMA RecordResponseKeeps ==
  ASSUME OutreachInv, OutreachAssumption, NEW c \in Client, NEW r \in Run, RecordResponse(c, r)
  PROVE  OutreachInv'
<1>1. PICK k : /\ k = [NoCall EXCEPT !.at = "save_response", !.r = r, !.row = run[r],
                                     !.reply = answer[r]]
               /\ Goto(c, k)
  BY DEF RecordResponse
<1>2. run[r] \in Row /\ answer[r] \in AnyAnswer /\ run[r].status = "waiting_result"
  BY Tables DEF RecordResponse, Unrecorded
<1>3. "save_response" \in Place
  BY DEF Place, Holding, Recording
<1>4. k \in Call /\ k.at = "save_response" /\ k.r = r /\ k.row = run[r]
  BY <1>1, <1>2, <1>3, FirstTypes DEF NoCall, Call, AnyAnswer
<1>5. k.reply = answer[r]
  BY <1>1 DEF NoCall
<1>6. answer[r] # "none" /\ run[r].approved
  BY DEF RecordResponse, OutreachInv, RunInv
<1>7. Knows(k)
  BY <1>2, <1>4, <1>5, <1>6 DEF Knows
<1>8. UNCHANGED <<shown, active, manual, day, drafted, stage, crashes>>
  BY DEF RecordResponse, OnlyCall, shown, runs, leads, world
<1> QED
  BY <1>1, <1>4, <1>7, <1>8, Tables, MoveKeeps

\* or a run to approve.
LEMMA ApproveKeeps ==
  ASSUME OutreachInv, OutreachAssumption, NEW r \in Run, Approve(r)
  PROVE  OutreachInv'
<1>1. PICK k : /\ k = [NoCall EXCEPT !.at = "save_approved", !.r = r, !.row = run[r]]
               /\ Goto(Operator, k)
  BY DEF Approve
<1>2. run[r] \in Row /\ run[r].status = "waiting_approval" /\ Operator \in Client
  BY Tables DEF Approve, Client
<1>3. "save_approved" \in Place
  BY DEF Place, Holding
<1>4. k \in Call /\ k.at = "save_approved" /\ k.r = r /\ k.row = run[r]
  BY <1>1, <1>2, <1>3, FirstTypes DEF NoCall, Call, AnyAnswer
<1>5. Knows(k)
  BY <1>2, <1>4 DEF Knows, Contacting, Recording
<1>6. UNCHANGED <<shown, active, manual, day, drafted, stage, crashes>>
  BY DEF Approve, OnlyCall, shown, runs, leads, world
<1> QED
  BY <1>1, <1>2, <1>4, <1>5, <1>6, Tables, MoveKeeps

\* Leaving, whether at the end or by dying.
LEMMA ReturnKeeps ==
  ASSUME OutreachInv, OutreachAssumption, NEW c \in Client, Return(c),
         UNCHANGED <<shown, active, manual, day, drafted, stage>>, crashes' \in 0..MaxCrashes
  PROVE  OutreachInv'
<1>1. NoCall \in Call /\ Knows(NoCall)
  BY FirstTypes, KnowsNothing
<1> QED
  BY <1>1, Tables, MoveKeeps DEF Return

\* Nothing is stored by a process that dies.
LEMMA DieKeeps ==
  ASSUME OutreachInv, OutreachAssumption, NEW c \in Client, Die(c)
  PROVE  OutreachInv'
<1>1. crashes' \in 0..MaxCrashes
  BY Tables DEF Die, OutreachAssumption
<1> QED
  BY <1>1, ReturnKeeps DEF Die, shown, runs, leads, world

\* A tick drafts for a lead, and has only that in hand,
LEMMA DiscoverKeeps ==
  ASSUME OutreachInv, OutreachAssumption, NEW v, TickDiscovers(v)
  PROVE  OutreachInv'
<1>1. PICK l \in Lead \ drafted :
         /\ drafted' = drafted \cup {l}
         /\ Goto(Scheduler, [NoCall EXCEPT !.at = "discovered", !.lead = l])
  BY DEF TickDiscovers
<1> DEFINE k == [NoCall EXCEPT !.at = "discovered", !.lead = l]
<1>2. k \in Call /\ k.at = "discovered"
  BY CallNames DEF Place
<1>3. Goto(Scheduler, k) /\ UNCHANGED <<shown, active, manual, day, stage, crashes>>
  BY <1>1 DEF TickDiscovers, shown, runs, world
<1> HIDE DEF k
<1>4. Knows(k) /\ Scheduler \in Client
  BY <1>2, KnowsNothing DEF Client
<1>5. drafted' \in SUBSET Lead
  BY <1>1, Tables
<1> QED
  BY <1>2, <1>3, <1>4, <1>5, Tables, MoveKeeps

\* before it prepares a run for a draft.
LEMMA PrepareDiscoveredKeeps ==
  ASSUME OutreachInv, OutreachAssumption, PrepareDiscovered
  PROVE  OutreachInv'
<1>0. Scheduler \in Client
  BY DEF Client
<1>1. ASSUME NEW l \in drafted, Prepare(Scheduler, l) PROVE OutreachInv'
  BY <1>0, <1>1, Tables, PrepareKeeps
<1>2. CASE Return(Scheduler) /\ OnlyCall
  BY <1>0, <1>2, Tables, ReturnKeeps DEF OnlyCall, shown, runs, leads, world
<1> QED
  BY <1>1, <1>2 DEF PrepareDiscovered, Unprepared

-----------------------------------------------------------------------------
(* The tables                                                              *)

\* A run is new.
LEMMA SavePreparedKeeps ==
  ASSUME OutreachInv, OutreachAssumption, NEW c \in Client, SavePrepared(c)
  PROVE  OutreachInv'
<1> DEFINE new == [lead |-> call[c].lead, status |-> "waiting_approval",
                   approved |-> FALSE, day |-> NoDay]
<1>1. PICK r \in Run : run[r].status = "none" /\ run' = [run EXCEPT ![r] = new]
  BY DEF SavePrepared
<1>2. call[c].lead \in Lead
  BY Tables, CallFields
<1>3. new \in Row
  BY <1>2 DEF Row, Status, NoDay
<1>4. UNCHANGED <<response, revenue, suppressed, accepted, answer, active, drafted, stage,
                  manual, day, crashes>> /\ Goto(c, NoCall)
  BY DEF SavePrepared, Return, leads, world
<1>5. /\ call' \in [Client -> Call] /\ call'[c] = NoCall
      /\ \A d \in Client \ {c} : call'[d] = call[d]
  BY <1>4, OneMoves, FirstTypes DEF OutreachInv, Columns
<1>6. Columns'
  BY <1>1, <1>3, <1>4, <1>5 DEF OutreachInv, Columns
<1>7. Grows
  BY <1>1, <1>4 DEF Grows, OutreachInv, Columns
<1>8. \A q \in Run : RunInv(q)'
  <2> SUFFICES ASSUME NEW q \in Run PROVE RunInv(q)'
    OBVIOUS
  <2>1. RunInv(q) /\ run \in [Run -> Row]
    BY DEF OutreachInv, Columns
  <2>2. CASE q = r
    <3>1. run'[q].status = "waiting_approval"
      BY <1>1, <2>1, <2>2
    <3>2. q \notin accepted
      BY <1>1, <2>1, <2>2 DEF RunInv
    <3> QED
      BY <1>4, <2>1, <3>1, <3>2 DEF RunInv
  <2>3. CASE q # r
    <3>1. run'[q] = run[q]
      BY <1>1, <2>1, <2>3
    <3> QED
      BY <1>4, <2>1, <3>1 DEF RunInv, Traced
  <2> QED
    BY <2>2, <2>3
<1>9. \A d \in {c} : Knows(call[d])'
  BY <1>5, FirstTypes DEF Knows, Holding, Contacting, Recording
<1>10. {c} \in SUBSET Client
  OBVIOUS
<1> QED
  BY <1>5, <1>6, <1>7, <1>8, <1>9, <1>10, StepKeeps

\* The gateway.
LEMMA SendKeeps ==
  ASSUME OutreachInv, OutreachAssumption, NEW c \in Client, Send(c)
  PROVE  OutreachInv'
<1>0. /\ call[c] \in Call /\ Knows(call[c]) /\ call[c].at = "send"
      /\ UNCHANGED <<run, response, revenue, suppressed, answer, active, drafted, stage,
                     manual, day, crashes>>
  BY Tables DEF Send, At, runs, leads
<1>1. PICK p \in {"save_dispatched", "save_failed"} : Goto(c, [call[c] EXCEPT !.at = p])
  BY DEF Send, To
<1> DEFINE new == [call[c] EXCEPT !.at = p]
<1>2. /\ new \in Call /\ new.at = p /\ new.r = call[c].r
      /\ new.row = call[c].row /\ new.reply = call[c].reply
  BY <1>0, CallMoves DEF Place, Holding, Contacting
<1>3. /\ call' \in [Client -> Call] /\ call'[c] = new
      /\ \A d \in Client \ {c} : call'[d] = call[d]
  BY <1>1, <1>2, OneMoves DEF OutreachInv, Columns
<1>4. call[c].r \in Run /\ run[call[c].r].status # "none" /\ run[call[c].r].approved
  BY <1>0 DEF Knows, Holding, Contacting
<1>5. accepted \subseteq accepted' /\ accepted' \subseteq accepted \cup {call[c].r}
  BY DEF Send
<1>6. Columns'
  BY <1>0, <1>3, <1>4, <1>5 DEF OutreachInv, Columns
<1>7. Grows
  BY <1>0 DEF Grows, OutreachInv, Columns
<1>8. \A q \in Run : RunInv(q)'
  <2> SUFFICES ASSUME NEW q \in Run PROVE RunInv(q)'
    OBVIOUS
  <2>1. RunInv(q) /\ Traced(q, response[q])' = Traced(q, response[q])
    BY <1>0 DEF OutreachInv, Traced
  <2>2. q \in accepted' => run[q].status # "none" /\ run[q].approved
    BY <1>4, <1>5, <2>1 DEF RunInv
  <2>3. q \in accepted => q \in accepted'
    BY <1>5
  <2> QED
    BY <1>0, <2>1, <2>2, <2>3 DEF RunInv
<1> HIDE DEF new
<1>9. \A d \in {c} : Knows(call[d])'
  <2>1. /\ new.at \in Contacting /\ new.at \notin Recording
        /\ new.at \notin {"save_revenue", "suppress", "mark_lead", "complete"}
    BY <1>2 DEF Contacting, Recording
  <2>2. /\ new.row.lead = run[new.r].lead /\ new.row.status # "none" /\ new.row.approved
        /\ new.r \in Run
    BY <1>0, <1>2, <1>4 DEF Knows, Holding, Contacting
  <2> QED
    BY <1>0, <1>2, <1>3, <1>4, <2>1, <2>2 DEF Knows
<1>10. {c} \in SUBSET Client
  OBVIOUS
<1> QED
  BY <1>3, <1>6, <1>7, <1>8, <1>9, <1>10, StepKeeps

\* A run that a process holds is written back, and does not lose its approval.
LEMMA RowKeeps ==
  ASSUME OutreachInv, OutreachAssumption, NEW c \in Client, call[c].at \in Holding,
         NEW new \in Row, new.status # "none", new.lead = call[c].row.lead,
         new.approved \/ ~run[call[c].r].approved,
         new.status = "completed" => call[c].at = "complete",
         SaveRow(c, new), NEW k \in Call, Goto(c, k),
         \/ k.at = "idle"
         \/ /\ k.at = "mark_contacted" /\ k.r = call[c].r /\ k.row = call[c].row
            /\ k.row.approved /\ new.approved
  PROVE  OutreachInv'
<1>0. /\ call[c] \in Call /\ Knows(call[c]) /\ {c} \in SUBSET Client
      /\ UNCHANGED <<response, revenue, suppressed, answer, accepted, active, drafted, stage,
                     manual, day, crashes>>
  BY Tables DEF SaveRow, leads, world
<1>1. /\ call' \in [Client -> Call] /\ call'[c] = k
      /\ \A d \in Client \ {c} : call'[d] = call[d]
  BY OneMoves DEF OutreachInv, Columns
<1>2. PICK r \in Run : r = call[c].r
  BY <1>0 DEF Knows
<1>3. /\ run[r].status # "none" /\ new.lead = run[r].lead
      /\ run[r].approved => new.approved
  BY <1>0, <1>2 DEF Knows
<1>4. run' = [run EXCEPT ![r] = new] /\ run \in [Run -> Row]
  BY <1>2, Tables DEF SaveRow
<1>5. Columns'
  BY <1>0, <1>1, <1>4 DEF OutreachInv, Columns
<1>6. Grows
  BY <1>0, <1>3, <1>4 DEF Grows, OutreachInv, Columns
<1>7. \A q \in Run : RunInv(q)'
  <2> SUFFICES ASSUME NEW q \in Run PROVE RunInv(q)'
    OBVIOUS
  <2>1. RunInv(q)
    BY DEF OutreachInv
  <2>2. CASE q = r
    <3>1. run'[q] = new
      BY <1>4, <2>2
    <3>2. new.status = "completed" => response[q] # "none" /\ Traced(q, response[q])
      BY <1>0, <1>2, <2>2 DEF Knows, Recording
    <3> QED
      BY <1>0, <1>3, <2>1, <2>2, <3>1, <3>2 DEF RunInv, Traced
  <2>3. CASE q # r
    <3>1. run'[q] = run[q]
      BY <1>4, <2>3
    <3> QED
      BY <1>0, <2>1, <3>1 DEF RunInv, Traced
  <2> QED
    BY <2>2, <2>3
<1>8. Knows(call[c])'
  <2>1. CASE k.at = "idle"
    BY <1>1, <2>1 DEF Knows, Holding, Contacting, Recording
  <2>2. CASE /\ k.at = "mark_contacted" /\ k.r = call[c].r /\ k.row = call[c].row
             /\ k.row.approved /\ new.approved
    <3>1. call[c].row.status # "none"
      BY <1>0 DEF Knows
    <3>2. run'[r] = new
      BY <1>4
    <3> QED
      BY <1>1, <1>2, <2>2, <3>1, <3>2 DEF Knows, Holding, Contacting, Recording
  <2> QED
    BY <2>1, <2>2
<1>9. \A d \in {c} : Knows(call[d])'
  BY <1>8
<1> QED
  BY <1>0, <1>1, <1>5, <1>6, <1>7, <1>9, StepKeeps

\* The dispatch is stored, with its time.
LEMMA SaveDispatchedKeeps ==
  ASSUME OutreachInv, OutreachAssumption, NEW c \in Client, SaveDispatched(c)
  PROVE  OutreachInv'
<1>1. /\ call[c] \in Call /\ Knows(call[c]) /\ call[c].at = "save_dispatched"
      /\ call[c].at \in Holding /\ day \in Nat
  BY Tables DEF SaveDispatched, At, Holding, Contacting, OutreachInv, Columns
<1>2. call[c].row \in Row /\ call[c].row.approved
  BY <1>1, CallFields DEF Knows, Contacting
<1>3. PICK new : /\ new = [call[c].row EXCEPT !.status = "waiting_result", !.day = day]
                 /\ SaveRow(c, new)
  BY DEF SaveDispatched
<1>4. new \in Row /\ new.status = "waiting_result" /\ new.lead = call[c].row.lead /\ new.approved
  BY <1>1, <1>2, <1>3 DEF Row, Status
<1>5. PICK k : k = [call[c] EXCEPT !.at = "mark_contacted"] /\ Goto(c, k)
  BY DEF SaveDispatched, To
<1>6. k \in Call /\ k.at = "mark_contacted" /\ k.r = call[c].r /\ k.row = call[c].row
  BY <1>1, <1>5 DEF Call, Place, Holding, Contacting
<1> QED
  BY <1>1, <1>2, <1>3, <1>4, <1>5, <1>6, RowKeeps

\* An outcome of a run, and the process leaves.
LEMMA OutcomeKeeps ==
  ASSUME OutreachInv, OutreachAssumption, NEW c \in Client,
         SaveFailed(c) \/ SaveBlocked(c) \/ Complete(c)
  PROVE  OutreachInv'
<1>1. PICK s \in {"failed", "blocked", "completed"} :
         /\ s = "completed" => call[c].at = "complete"
         /\ SaveRow(c, [call[c].row EXCEPT !.status = s])
  BY DEF SaveFailed, SaveBlocked, Complete, At
<1>2. call[c].at \in Contacting \cup Recording /\ Return(c)
  BY DEF SaveFailed, SaveBlocked, Complete, At, Contacting, Recording
<1>3. call[c] \in Call /\ Knows(call[c]) /\ call[c].at \in Holding
  BY <1>2, Tables DEF Holding
<1>4. call[c].row \in Row /\ call[c].row.approved
  BY <1>2, <1>3, CallFields DEF Knows
<1>5. PICK new : new = [call[c].row EXCEPT !.status = s] /\ SaveRow(c, new)
  BY <1>1
<1>6. new \in Row /\ new.status = s /\ new.lead = call[c].row.lead /\ new.approved
  BY <1>4, <1>5 DEF Row, Status
<1>7. Goto(c, NoCall) /\ NoCall \in Call /\ NoCall.at = "idle"
  BY <1>2, FirstTypes DEF Return
<1> QED
  BY <1>1, <1>3, <1>5, <1>6, <1>7, RowKeeps

\* A person's approval is stored.
LEMMA SaveApprovedKeeps ==
  ASSUME OutreachInv, OutreachAssumption, SaveApproved
  PROVE  OutreachInv'
<1> DEFINE c == Operator
<1>1. c \in Client /\ call[c].at = "save_approved" /\ Return(c)
  BY DEF SaveApproved, At, Client
<1> HIDE DEF c
<1>2. call[c] \in Call /\ call[c].at \in Holding
  BY <1>1, Tables DEF Holding
<1>3. call[c].row \in Row
  BY <1>2, CallFields
<1>4. PICK new : /\ new = [call[c].row EXCEPT !.status = "ready", !.approved = TRUE]
                 /\ SaveRow(c, new)
  BY DEF SaveApproved, c
<1>5. new \in Row /\ new.status = "ready" /\ new.lead = call[c].row.lead /\ new.approved
  BY <1>3, <1>4 DEF Row, Status
<1>6. Goto(c, NoCall) /\ NoCall \in Call /\ NoCall.at = "idle"
  BY <1>1, FirstTypes DEF Return
<1> QED
  BY <1>1, <1>2, <1>4, <1>5, <1>6, RowKeeps

\* A run that no person approved is cancelled.
LEMMA SaveCancelledKeeps ==
  ASSUME OutreachInv, OutreachAssumption, Undecided, SaveCancelled
  PROVE  OutreachInv'
<1> DEFINE c == Operator
<1>1. c \in Client /\ call[c].at = "save_approved" /\ Return(c) /\ ~run[call[c].r].approved
  BY DEF SaveCancelled, At, Client, Undecided
<1>4. PICK new : /\ new = [call[c].row EXCEPT !.status = "cancelled", !.approved = FALSE]
                 /\ SaveRow(c, new)
  BY DEF SaveCancelled
<1> HIDE DEF c
<1>2. call[c] \in Call /\ call[c].at \in Holding
  BY <1>1, Tables DEF Holding
<1>3. call[c].row \in Row
  BY <1>2, CallFields
<1>5. new \in Row /\ new.status = "cancelled" /\ new.lead = call[c].row.lead
  BY <1>3, <1>4 DEF Row, Status
<1>6. Goto(c, NoCall) /\ NoCall \in Call /\ NoCall.at = "idle"
  BY <1>1, FirstTypes DEF Return
<1> QED
  BY <1>1, <1>2, <1>4, <1>5, <1>6, RowKeeps

\* The lead of a run is marked.
LEMMA MarkKeeps ==
  ASSUME OutreachInv, OutreachAssumption, NEW c \in Client, MarkContacted(c) \/ MarkLead(c)
  PROVE  OutreachInv'
<1>0. /\ call[c] \in Call /\ Knows(call[c]) /\ stage \in [Lead -> LeadStage]
      /\ UNCHANGED <<shown, active, manual, day, drafted, crashes>>
  BY Tables DEF MarkContacted, MarkLead, shown, runs, world
<1>1. CASE MarkContacted(c)
  <2>1. stage' \in [Lead -> LeadStage] /\ Return(c)
    BY <1>0, <1>1, CallFields DEF MarkContacted, LeadStage, Row
  <2>2. NoCall \in Call /\ Knows(NoCall)
    BY FirstTypes, KnowsNothing
  <2> QED
    BY <1>0, <2>1, <2>2, Tables, MoveKeeps DEF Return
<1>2. CASE MarkLead(c)
  <2>1. call[c].at = "mark_lead"
    BY <1>2 DEF MarkLead, At
  <2>2. call[c].reply \in AnswerKind /\ call[c].row.lead \in Lead
    BY <1>0, <2>1, CallFields DEF Knows, Recording, AnyAnswer, Row
  <2>3. StageOf[call[c].reply] \in LeadStage
    BY <2>2 DEF StageOf, AnswerKind, LeadStage
  <2>4. stage' \in [Lead -> LeadStage]
    BY <1>0, <1>2, <2>2, <2>3 DEF MarkLead
  <2>5. PICK k : k = [call[c] EXCEPT !.at = "complete"] /\ Goto(c, k)
    BY <1>2 DEF MarkLead, To
  <2>6. /\ k \in Call /\ k.at = "complete" /\ k.r = call[c].r
        /\ k.row = call[c].row /\ k.reply = call[c].reply
    BY <1>0, <2>5 DEF Call, Place, Holding, Recording
  <2>7. Knows(k)
    BY <1>0, <2>1, <2>6 DEF Knows, Holding, Recording, Traced
  <2> QED
    BY <1>0, <2>4, <2>5, <2>6, <2>7, Tables, MoveKeeps
<1> QED
  BY <1>1, <1>2

-----------------------------------------------------------------------------
(* The traces of an answer                                                 *)

\* What a process that records an answer goes on with.
LEMMA GoesOn ==
  ASSUME OutreachInv, NEW c \in Client, call[c].at \in Recording, NEW p \in Recording, To(c, p)
  PROVE  \E k \in Call : /\ Goto(c, k) /\ k.at = p /\ k.r = call[c].r
                         /\ k.row = call[c].row /\ k.reply = call[c].reply
                         /\ call' \in [Client -> Call] /\ call'[c] = k
                         /\ \A d \in Client \ {c} : call'[d] = call[d]
<1>1. PICK k : k = [call[c] EXCEPT !.at = p] /\ Goto(c, k)
  BY DEF To
<1>2. call[c] \in Call
  BY Tables
<1>3. k \in Call /\ k.at = p /\ k.r = call[c].r /\ k.row = call[c].row /\ k.reply = call[c].reply
  BY <1>1, <1>2 DEF Call, Place, Holding
<1>4. /\ call' \in [Client -> Call] /\ call'[c] = k
      /\ \A d \in Client \ {c} : call'[d] = call[d]
  BY <1>1, <1>3, OneMoves DEF OutreachInv, Columns
<1> QED
  BY <1>1, <1>3, <1>4

\* The response is stored, unless there is one.
LEMMA SaveResponseKeeps ==
  ASSUME OutreachInv, OutreachAssumption, NEW c \in Client, SaveResponse(c)
  PROVE  OutreachInv'
<1> DEFINE p == IF call[c].reply = "sale" THEN "save_revenue"
                ELSE IF call[c].reply \in Refusal THEN "suppress" ELSE "mark_lead"
<1>0. /\ call[c] \in Call /\ Knows(call[c]) /\ {c} \in SUBSET Client
      /\ call[c].at = "save_response" /\ call[c].at \in Recording
      /\ UNCHANGED <<run, revenue, suppressed, answer, accepted, active, drafted, stage,
                     manual, day, crashes>>
  BY Tables DEF SaveResponse, At, Recording, leads, world
<1>1. PICK k \in Call :
         /\ Goto(c, k) /\ k.at = p /\ k.r = call[c].r
         /\ k.row = call[c].row /\ k.reply = call[c].reply
         /\ call' \in [Client -> Call] /\ call'[c] = k
         /\ \A d \in Client \ {c} : call'[d] = call[d]
  <2>1. p \in Recording
    BY DEF Recording
  <2>2. To(c, p)
    BY DEF SaveResponse
  <2> HIDE DEF p
  <2> QED
    BY <1>0, <2>1, <2>2, GoesOn
<1>2. PICK r \in Run : r = call[c].r
  BY <1>0 DEF Knows, Holding
<1>3. /\ run[r].status # "none" /\ call[c].row.lead = run[r].lead /\ call[c].row.status # "none"
      /\ call[c].row.approved /\ run[r].approved
      /\ call[c].reply # "none" /\ call[c].reply = answer[r] /\ call[c].reply \in AnyAnswer
  BY <1>0, <1>2, CallFields DEF Knows, Holding
<1>4. response' = [response EXCEPT ![r] = IF @ = "none" THEN call[c].reply ELSE @]
      /\ response \in [Run -> AnyAnswer]
  BY <1>2 DEF SaveResponse, OutreachInv, Columns
<1>5. RunInv(r) /\ response'[r] = answer[r]
  BY <1>3, <1>4 DEF OutreachInv, RunInv
<1>6. Columns'
  BY <1>0, <1>1, <1>3, <1>4 DEF OutreachInv, Columns
<1>7. Grows
  BY <1>0, <1>4 DEF Grows, OutreachInv, Columns
<1>8. \A q \in Run : RunInv(q)'
  <2> SUFFICES ASSUME NEW q \in Run PROVE RunInv(q)'
    OBVIOUS
  <2>1. RunInv(q)
    BY DEF OutreachInv
  <2>2. CASE response[q] # "none" \/ q # r
    <3>1. response'[q] = response[q]
      BY <1>4, <2>2
    <3> QED
      BY <1>0, <2>1, <3>1 DEF RunInv, Traced
  <2>3. CASE response[q] = "none" /\ q = r
    BY <1>0, <1>3, <1>5, <2>1, <2>3 DEF RunInv
  <2> QED
    BY <2>2, <2>3
<1>9. Knows(k)'
  <2>1. /\ run'[k.r] = run[r] /\ answer'[k.r] = answer[r] /\ response'[k.r] = answer[r]
        /\ k.r = r /\ k.row = call[c].row /\ k.reply = call[c].reply
    BY <1>0, <1>1, <1>2, <1>5
  <2>2. /\ k.at = "save_revenue" => k.reply = "sale"
        /\ k.at = "suppress" => k.reply \in Refusal
        /\ k.at \in {"mark_lead", "complete"} => k.reply # "sale" /\ k.reply \notin Refusal
    BY <1>1
  <2>3. k.at \in {"mark_lead", "complete"} => Traced(k.r, k.reply)'
    BY <2>2 DEF Traced
  <2> QED
    BY <1>3, <2>1, <2>2, <2>3 DEF Knows
<1>10. \A d \in {c} : Knows(call[d])'
  BY <1>1, <1>9 DEF Knows, Traced
<1> QED
  BY <1>0, <1>1, <1>6, <1>7, <1>8, <1>10, StepKeeps

\* The revenue of a sale is booked.
LEMMA SaveRevenueKeeps ==
  ASSUME OutreachInv, OutreachAssumption, NEW c \in Client, SaveRevenue(c)
  PROVE  OutreachInv'
<1>0. /\ call[c] \in Call /\ Knows(call[c]) /\ {c} \in SUBSET Client
      /\ call[c].at = "save_revenue" /\ call[c].at \in Recording
      /\ UNCHANGED <<run, response, suppressed, answer, accepted, active, drafted, stage,
                     manual, day, crashes>>
  BY Tables DEF SaveRevenue, At, Recording, leads, world
<1>1. PICK k \in Call :
         /\ Goto(c, k) /\ k.at = "mark_lead" /\ k.r = call[c].r
         /\ k.row = call[c].row /\ k.reply = call[c].reply
         /\ call' \in [Client -> Call] /\ call'[c] = k
         /\ \A d \in Client \ {c} : call'[d] = call[d]
  <2>1. To(c, "mark_lead") /\ "mark_lead" \in Recording
    BY DEF SaveRevenue, Recording
  <2> QED
    BY <1>0, <2>1, GoesOn
<1>2. PICK r \in Run : r = call[c].r
  BY <1>0 DEF Knows, Holding
<1>3. /\ run[r].status # "none" /\ call[c].row.lead = run[r].lead /\ call[c].row.status # "none"
      /\ call[c].row.approved /\ run[r].approved
      /\ call[c].reply = "sale" /\ answer[r] = "sale" /\ response[r] = "sale"
  BY <1>0, <1>2 DEF Knows, Holding
<1>4. revenue' = [revenue EXCEPT ![r] = @ + 1] /\ revenue \in [Run -> Nat]
  BY <1>2 DEF SaveRevenue, OutreachInv, Columns
<1>5. /\ revenue' \in [Run -> Nat] /\ revenue'[r] > 0
      /\ \A q \in Run : revenue'[q] >= revenue[q]
      /\ \A q \in Run \ {r} : revenue'[q] = revenue[q]
  BY <1>4
<1>6. Columns'
  BY <1>0, <1>1, <1>5 DEF OutreachInv, Columns
<1>7. Grows
  BY <1>0, <1>5 DEF Grows
<1>8. \A q \in Run : RunInv(q)'
  <2> SUFFICES ASSUME NEW q \in Run PROVE RunInv(q)'
    OBVIOUS
  <2>1. RunInv(q)
    BY DEF OutreachInv
  <2>2. CASE q = r
    BY <1>0, <1>3, <1>5, <2>1, <2>2 DEF RunInv, Traced, Refusal
  <2>3. CASE q # r
    BY <1>0, <1>5, <2>1, <2>3 DEF RunInv, Traced
  <2> QED
    BY <2>2, <2>3
<1>9. Knows(k)'
  <2>1. /\ k.r = r /\ k.row = call[c].row /\ k.reply = "sale" /\ k.at = "mark_lead"
    BY <1>1, <1>2, <1>3
  <2>2. Traced(k.r, k.reply)'
    BY <1>5, <2>1 DEF Traced, Refusal
  <2> QED
    BY <1>0, <1>3, <2>1, <2>2 DEF Knows
<1>10. \A d \in {c} : Knows(call[d])'
  BY <1>1, <1>9 DEF Knows, Traced
<1> QED
  BY <1>0, <1>1, <1>6, <1>7, <1>8, <1>10, StepKeeps

\* Who refused is suppressed.
LEMMA SuppressKeeps ==
  ASSUME OutreachInv, OutreachAssumption, NEW c \in Client, Suppress(c)
  PROVE  OutreachInv'
<1>0. /\ call[c] \in Call /\ Knows(call[c]) /\ {c} \in SUBSET Client
      /\ call[c].at = "suppress" /\ call[c].at \in Recording
      /\ UNCHANGED <<run, response, revenue, answer, accepted, active, drafted, stage,
                     manual, day, crashes>>
  BY Tables DEF Suppress, At, Recording, runs, world
<1>1. PICK k \in Call :
         /\ Goto(c, k) /\ k.at = "mark_lead" /\ k.r = call[c].r
         /\ k.row = call[c].row /\ k.reply = call[c].reply
         /\ call' \in [Client -> Call] /\ call'[c] = k
         /\ \A d \in Client \ {c} : call'[d] = call[d]
  <2>1. To(c, "mark_lead") /\ "mark_lead" \in Recording
    BY DEF Suppress, Recording
  <2> QED
    BY <1>0, <2>1, GoesOn
<1>2. PICK r \in Run : r = call[c].r
  BY <1>0 DEF Knows, Holding
<1>3. /\ run[r].status # "none" /\ call[c].row.lead = run[r].lead /\ call[c].row.status # "none"
      /\ call[c].row.approved /\ run[r].approved /\ call[c].row.lead \in Lead
      /\ call[c].reply # "none" /\ call[c].reply = answer[r] /\ call[c].reply \in Refusal
      /\ response[r] = call[c].reply
  BY <1>0, <1>2, CallFields DEF Knows, Holding, Row
<1>4. suppressed' = suppressed \cup {IdentityOf[run[r].lead]} /\ run[r].lead \in Lead
  BY <1>2, <1>3 DEF Suppress
<1>5. Columns'
  BY <1>0, <1>1, <1>4 DEF OutreachInv, Columns, Identity
<1>6. Grows
  BY <1>0, <1>4 DEF Grows, OutreachInv, Columns
<1>7. \A q \in Run : RunInv(q)'
  BY <1>0, <1>4 DEF OutreachInv, RunInv, Traced
<1>8. Knows(k)'
  <2>1. k.r = r /\ k.row = call[c].row /\ k.reply = call[c].reply /\ k.at = "mark_lead"
    BY <1>1, <1>2
  <2>2. Traced(k.r, k.reply)'
    BY <1>0, <1>3, <1>4, <2>1 DEF Traced, Refusal
  <2> QED
    BY <1>0, <1>3, <2>1, <2>2 DEF Knows
<1>9. \A d \in {c} : Knows(call[d])'
  BY <1>1, <1>8 DEF Knows, Traced
<1> QED
  BY <1>0, <1>1, <1>5, <1>6, <1>7, <1>9, StepKeeps

-----------------------------------------------------------------------------
(* What happens around HELIS, and all steps together                       *)

\* Decisions, time, suppressions and answers of prospects.
LEMMA SurroundingsKeep ==
  ASSUME OutreachInv, OutreachAssumption,
         \/ \E v \in Venture : Stop(v)
         \/ NextDay
         \/ \E l \in Lead : OperatorSuppress(l)
         \/ \E r \in Run : Reply(r)
  PROVE  OutreachInv'
<1>0. {} \in SUBSET Client /\ \A c \in {} : Knows(call[c])'
  OBVIOUS
<1>1. ASSUME NEW v \in Venture, Stop(v) PROVE OutreachInv'
  <2>1. UNCHANGED <<shown, drafted, stage, call, manual, day, crashes>> /\ active' \subseteq active
    BY <1>1 DEF Stop, shown, runs, leads
  <2> QED
    BY <1>0, <2>1, QuietKeeps DEF OutreachInv, Columns
<1>2. CASE NextDay
  <2>1. /\ UNCHANGED <<shown, active, drafted, stage, call, manual, crashes>>
        /\ day \in Nat /\ day' = day + 1
    BY <1>2 DEF NextDay, shown, runs, leads, world, OutreachInv, Columns
  <2>2. day' \in Nat \ {NoDay}
    BY <2>1 DEF NoDay
  <2> QED
    BY <1>0, <2>1, <2>2, QuietKeeps DEF OutreachInv, Columns
<1>3. ASSUME NEW l \in Lead, OperatorSuppress(l) PROVE OutreachInv'
  <2>1. /\ UNCHANGED <<run, response, revenue, answer, accepted, active, drafted, stage,
                       call, manual, day, crashes>>
        /\ suppressed' = suppressed \cup {IdentityOf[l]}
    BY <1>3 DEF OperatorSuppress, runs, world
  <2>2. Columns'
    BY <2>1 DEF OutreachInv, Columns, Identity
  <2>3. Grows
    BY <2>1 DEF Grows, OutreachInv, Columns
  <2>4. \A q \in Run : RunInv(q)'
    BY <2>1 DEF OutreachInv, RunInv, Traced
  <2> QED
    BY <1>0, <2>1, <2>2, <2>3, <2>4, StepKeeps
<1>4. ASSUME NEW r \in Run, Reply(r) PROVE OutreachInv'
  <2>1. /\ UNCHANGED <<run, response, revenue, suppressed, accepted, active, drafted, stage,
                       call, manual, day, crashes>>
        /\ r \in accepted /\ answer[r] = "none"
    BY <1>4 DEF Reply, runs, leads
  <2>2. PICK kind \in Answer : answer' = [answer EXCEPT ![r] = kind]
    BY <1>4 DEF Reply
  <2>3. kind \in AnyAnswer /\ kind # "none"
    BY DEF OutreachAssumption, AnyAnswer, AnswerKind
  <2>4. Columns'
    BY <2>1, <2>2, <2>3 DEF OutreachInv, Columns
  <2>5. Grows
    BY <2>1, <2>2 DEF Grows, OutreachInv, Columns
  <2>6. \A q \in Run : RunInv(q)'
    BY <2>1, <2>2, <2>3 DEF OutreachInv, RunInv, Traced, Columns
  <2> QED
    BY <1>0, <2>1, <2>4, <2>5, <2>6, StepKeeps
<1> QED
  BY <1>1, <1>2, <1>3, <1>4

\* The invariant holds at first,
LEMMA InitOutreach == Init /\ OutreachAssumption => OutreachInv
<1> SUFFICES ASSUME Init, OutreachAssumption PROVE OutreachInv
  OBVIOUS
<1>1. Columns
  BY FirstTypes DEF Init, Columns, AnyAnswer, LeadStage, Venture, OutreachAssumption, NoDay
<1>2. \A r \in Run : RunInv(r)
  BY FirstTypes DEF Init, RunInv
<1>3. \A c \in Client : Knows(call[c])
  BY FirstTypes, KnowsNothing DEF Init
<1> QED
  BY <1>1, <1>2, <1>3 DEF OutreachInv

\* and every step keeps it.
LEMMA NextOutreach ==
  OutreachInv /\ Undecided /\ OutreachAssumption /\ [Next]_vars => OutreachInv'
<1> SUFFICES ASSUME OutreachInv, Undecided, OutreachAssumption, [Next]_vars PROVE OutreachInv'
  OBVIOUS
<1>0. Scheduler \in Client /\ Operator \in Client
  BY DEF Client
<1>1. ASSUME NEW c \in Client, Continue(c) PROVE OutreachInv'
  BY <1>1, SavePreparedKeeps, SendKeeps, SaveDispatchedKeeps, MarkKeeps, OutcomeKeeps,
     SaveResponseKeeps, SaveRevenueKeeps, SuppressKeeps DEF Continue
<1>2. ASSUME NEW c \in Client, Die(c) PROVE OutreachInv'
  BY <1>2, DieKeeps
<1>3. ASSUME NEW v \in Venture, Tick(v) PROVE OutreachInv'
  <2>1. ASSUME NEW r \in Run, RecordResponse(Scheduler, r) PROVE OutreachInv'
    BY <1>0, <2>1, RecordResponseKeeps
  <2>2. ASSUME NEW r \in Run, Dispatch(Scheduler, r) PROVE OutreachInv'
    BY <1>0, <2>2, DispatchKeeps
  <2>3. ASSUME NEW l \in drafted, Prepare(Scheduler, l) PROVE OutreachInv'
    BY <1>0, <2>3, Tables, PrepareKeeps
  <2>4. CASE TickDiscovers(v)
    BY <2>4, DiscoverKeeps
  <2> QED
    BY <1>3, <2>1, <2>2, <2>3, <2>4
       DEF Tick, TickRecords, TickDispatches, TickPrepares, RunsOf, Unprepared
<1>4. CASE PrepareDiscovered \/ SaveApproved \/ SaveCancelled
  BY <1>4, PrepareDiscoveredKeeps, SaveApprovedKeeps, SaveCancelledKeeps
<1>5. ASSUME NEW l \in Lead, OperatorPrepare(l) PROVE OutreachInv'
  BY <1>0, <1>5, PrepareKeeps DEF OperatorPrepare
<1>6. ASSUME NEW r \in Run, Approve(r) \/ OperatorDispatch(r) \/ PollResult(r)
      PROVE  OutreachInv'
  BY <1>0, <1>6, ApproveKeeps, DispatchKeeps, RecordResponseKeeps DEF OperatorDispatch, PollResult
<1>7. CASE \/ \E v \in Venture : Stop(v)
           \/ NextDay
           \/ \E l \in Lead : OperatorSuppress(l)
           \/ \E r \in Run : Reply(r)
  BY <1>7, SurroundingsKeep
<1>8. CASE UNCHANGED vars
  <2>1. /\ UNCHANGED <<shown, active, drafted, stage, call, manual, day, crashes>>
    BY <1>8 DEF vars, shown, runs, leads, world
  <2>2. {} \in SUBSET Client /\ \A c \in {} : Knows(call[c])'
    OBVIOUS
  <2> QED
    BY <2>1, <2>2, QuietKeeps DEF OutreachInv, Columns
<1> QED
  BY <1>1, <1>2, <1>3, <1>4, <1>5, <1>6, <1>7, <1>8 DEF Next

\* What the operator has not decided stays so.
LEMMA NextUndecided ==
  OutreachInv /\ Undecided /\ OutreachAssumption /\ [Next]_vars => Undecided'
<1> SUFFICES ASSUME OutreachInv, Undecided, OutreachAssumption, [Next]_vars PROVE Undecided'
  OBVIOUS
<1>0. /\ Scheduler \in Client /\ Operator \in Client /\ Scheduler # Operator
      /\ run \in [Run -> Row] /\ call \in [Client -> Call]
      /\ Client = {Scheduler, Operator}
  BY DEF Client, Scheduler, Operator, OutreachInv, Columns
\* A process that moves, but not to an approval, and writes no run.
<1>1. ASSUME NEW c \in Client, NEW k, Goto(c, k), k.at # "save_approved", run' = run
      PROVE  Undecided'
  BY <1>0, <1>1 DEF Goto, Undecided
<1>2. ASSUME NEW c \in Client, Return(c), run' = run PROVE Undecided'
  BY <1>1, <1>2, FirstTypes DEF Return
<1>3. ASSUME NEW c \in Client, NEW p, p # "save_approved", To(c, p), run' = run PROVE Undecided'
  <2>1. [call[c] EXCEPT !.at = p].at = p
    BY <1>0 DEF Call
  <2> QED
    BY <1>1, <1>3, <2>1 DEF To
\* A process that writes a run and moves.
<1>4. ASSUME NEW c \in Client, NEW new, SaveRow(c, new), new.status # "waiting_approval",
             NEW k, Goto(c, k), k.at # "save_approved",
             c = Operator \/ run[call[c].r].approved
      PROVE  Undecided'
  <2>1. call'[c] = k /\ \A d \in Client \ {c} : call'[d] = call[d]
    BY <1>0, <1>4 DEF Goto
  <2>2. run' = [run EXCEPT ![call[c].r] = new]
    BY <1>4 DEF SaveRow
  <2>3. \A r \in Run : run'[r].status = "waiting_approval" => ~run'[r].approved
    BY <1>0, <1>4, <2>2 DEF Undecided
  <2>4. ASSUME call'[Operator].at = "save_approved" PROVE ~run'[call'[Operator].r].approved
    <3>1. c = Scheduler /\ call'[Operator] = call[Operator]
      BY <1>0, <1>4, <2>1, <2>4
    <3>2. ~run[call[Operator].r].approved /\ call[Operator].r \in Run
      BY <1>0, <2>4, <3>1 DEF Undecided, OutreachInv, Knows, Holding
    <3>3. call[Operator].r # call[c].r
      BY <1>0, <1>4, <3>1, <3>2
    <3> QED
      BY <1>0, <2>2, <3>1, <3>2, <3>3
  <2> QED
    BY <1>0, <1>4, <2>1, <2>3, <2>4 DEF Undecided
<1>5. ASSUME NEW c \in Client, Return(c), NEW s \in Status, s # "waiting_approval",
             \/ SaveRow(c, [call[c].row EXCEPT !.status = s])
             \/ SaveRow(c, [call[c].row EXCEPT !.status = s, !.approved = TRUE])
             \/ SaveRow(c, [call[c].row EXCEPT !.status = s, !.approved = FALSE]),
             c = Operator \/ run[call[c].r].approved
      PROVE  Undecided'
  <2>1. PICK new : SaveRow(c, new) /\ \/ new = [call[c].row EXCEPT !.status = s]
                                      \/ new = [call[c].row EXCEPT !.status = s, !.approved = TRUE]
                                      \/ new = [call[c].row EXCEPT !.status = s, !.approved = FALSE]
    BY <1>5
  <2>2. new.status = s
    BY <1>0, <2>1, CallFields DEF Row
  <2> QED
    BY <1>4, <1>5, <2>1, <2>2, FirstTypes DEF Return
<1>6. ASSUME NEW c \in Client, call[c].at \in Contacting \cup Recording
      PROVE  run[call[c].r].approved
  BY <1>6 DEF OutreachInv, Knows
<1>7. ASSUME NEW c \in Client, SavePrepared(c) PROVE Undecided'
  <2>1. PICK r \in Run :
           /\ run[r].status = "none"
           /\ run' = [run EXCEPT ![r] = [lead |-> call[c].lead, status |-> "waiting_approval",
                                         approved |-> FALSE, day |-> NoDay]]
    BY <1>7 DEF SavePrepared
  <2>2. call'[c] = NoCall /\ \A d \in Client \ {c} : call'[d] = call[d]
    BY <1>0, <1>7 DEF SavePrepared, Return, Goto
  <2>3. NoCall.at = "idle"
    BY FirstTypes
  <2>4. \A q \in Run : run'[q].status = "waiting_approval" => ~run'[q].approved
    BY <1>0, <2>1 DEF Undecided
  <2>5. ASSUME call'[Operator].at = "save_approved" PROVE ~run'[call'[Operator].r].approved
    <3>1. call'[Operator] = call[Operator]
      BY <1>0, <2>2, <2>3, <2>5
    <3>2. ~run[call[Operator].r].approved /\ run[call[Operator].r].status # "none"
      BY <1>0, <2>5, <3>1 DEF Undecided, OutreachInv, Knows, Holding
    <3> QED
      BY <1>0, <2>1, <3>1, <3>2
  <2> QED
    BY <1>0, <2>2, <2>3, <2>4, <2>5 DEF Undecided
<1>8. ASSUME NEW c \in Client, SaveDispatched(c) PROVE Undecided'
  <2>1. run[call[c].r].approved
    BY <1>6, <1>8 DEF SaveDispatched, At, Contacting
  <2>2. [call[c] EXCEPT !.at = "mark_contacted"].at # "save_approved"
    BY <1>0 DEF Call
  <2>3. [call[c].row EXCEPT !.status = "waiting_result", !.day = day].status # "waiting_approval"
    BY <1>0, CallFields DEF Row
  <2> QED
    BY <1>4, <1>8, <2>1, <2>2, <2>3 DEF SaveDispatched, To
<1>9. ASSUME NEW c \in Client, SaveFailed(c) \/ SaveBlocked(c) \/ Complete(c) PROVE Undecided'
  <2>1. run[call[c].r].approved
    BY <1>6, <1>9 DEF SaveFailed, SaveBlocked, Complete, At, Contacting, Recording
  <2>2. PICK s \in {"failed", "blocked", "completed"} :
           SaveRow(c, [call[c].row EXCEPT !.status = s]) /\ Return(c)
    BY <1>9 DEF SaveFailed, SaveBlocked, Complete
  <2> QED
    BY <1>5, <2>1, <2>2 DEF Status
<1>10. CASE SaveApproved \/ SaveCancelled
  <2>1. /\ Return(Operator)
        /\ \/ SaveRow(Operator, [call[Operator].row EXCEPT !.status = "ready", !.approved = TRUE])
           \/ SaveRow(Operator, [call[Operator].row EXCEPT !.status = "cancelled", !.approved = FALSE])
    BY <1>10 DEF SaveApproved, SaveCancelled
  <2> QED
    BY <1>0, <1>5, <2>1 DEF Status
<1>11. ASSUME NEW c \in Client, Continue(c) PROVE Undecided'
  <2>1. CASE Send(c)
    <3>1. run' = run /\ (To(c, "save_dispatched") \/ To(c, "save_failed"))
      BY <2>1 DEF Send, runs
    <3> QED
      BY <1>3, <3>1
  <2>2. CASE MarkContacted(c)
    BY <1>2, <2>2 DEF MarkContacted, runs
  <2>3. CASE SaveResponse(c) \/ SaveRevenue(c) \/ Suppress(c) \/ MarkLead(c)
    <3>1. run' = run
      BY <2>3 DEF SaveResponse, SaveRevenue, Suppress, MarkLead, runs
    <3>2. PICK p \in Recording : To(c, p)
      BY <2>3 DEF SaveResponse, SaveRevenue, Suppress, MarkLead, Recording
    <3> QED
      BY <1>3, <3>1, <3>2 DEF Recording
  <2> QED
    BY <1>7, <1>8, <1>9, <1>11, <2>1, <2>2, <2>3 DEF Continue
<1>12. ASSUME NEW c \in Client, Die(c) PROVE Undecided'
  BY <1>2, <1>12 DEF Die, runs
<1>13. ASSUME NEW c \in Client, NEW l, Prepare(c, l) PROVE Undecided'
  <2>1. [NoCall EXCEPT !.at = "save_prepared", !.lead = l].at # "save_approved"
    BY DEF NoCall
  <2> QED
    BY <1>1, <1>13, <2>1 DEF Prepare, OnlyCall, runs
<1>14. ASSUME NEW c \in Client, NEW r \in Run, Dispatch(c, r) PROVE Undecided'
  <2>1. PICK p \in {"send", "save_blocked"} :
           Goto(c, [NoCall EXCEPT !.at = p, !.r = r, !.row = run[r]])
    BY <1>14 DEF Dispatch
  <2>2. [NoCall EXCEPT !.at = p, !.r = r, !.row = run[r]].at # "save_approved"
    BY <2>1 DEF NoCall
  <2> QED
    BY <1>1, <1>14, <2>1, <2>2 DEF Dispatch, OnlyCall, runs
<1>15. ASSUME NEW c \in Client, NEW r \in Run, RecordResponse(c, r) PROVE Undecided'
  <2>1. [NoCall EXCEPT !.at = "save_response", !.r = r, !.row = run[r],
                       !.reply = answer[r]].at # "save_approved"
    BY DEF NoCall
  <2> QED
    BY <1>1, <1>15, <2>1 DEF RecordResponse, OnlyCall, runs
<1>16. ASSUME NEW v, TickDiscovers(v) PROVE Undecided'
  <2>1. PICK l : Goto(Scheduler, [NoCall EXCEPT !.at = "discovered", !.lead = l]) /\ run' = run
    BY <1>16 DEF TickDiscovers, runs
  <2>2. [NoCall EXCEPT !.at = "discovered", !.lead = l].at # "save_approved"
    BY DEF NoCall
  <2> QED
    BY <1>0, <1>1, <2>1, <2>2
<1>17. ASSUME NEW v \in Venture, Tick(v) PROVE Undecided'
  BY <1>0, <1>13, <1>14, <1>15, <1>16, <1>17
     DEF Tick, TickRecords, TickDispatches, TickPrepares, RunsOf
<1>18. CASE PrepareDiscovered
  BY <1>0, <1>2, <1>13, <1>18 DEF PrepareDiscovered, OnlyCall, runs
<1>19. ASSUME NEW r \in Run, Approve(r) PROVE Undecided'
  <2>1. /\ call' = [call EXCEPT ![Operator] =
                       [NoCall EXCEPT !.at = "save_approved", !.r = r, !.row = run[r]]]
        /\ run' = run /\ run[r].status = "waiting_approval"
    BY <1>19 DEF Approve, Goto, OnlyCall, runs
  <2>2. call'[Operator].r = r /\ call'[Scheduler] = call[Scheduler]
    BY <1>0, <2>1 DEF NoCall
  <2> QED
    BY <2>1, <2>2 DEF Undecided
<1>20. CASE UNCHANGED <<run, call>>
  BY <1>20 DEF Undecided
<1>21. ASSUME \/ \E v \in Venture : Stop(v)
              \/ NextDay
              \/ \E l \in Lead : OperatorSuppress(l)
              \/ \E r \in Run : Reply(r)
              \/ UNCHANGED vars
       PROVE  UNCHANGED <<run, call>>
  BY <1>21 DEF Stop, NextDay, OperatorSuppress, Reply, vars, runs
<1> QED
  BY <1>0, <1>10, <1>11, <1>12, <1>13, <1>14, <1>15, <1>17, <1>18, <1>19, <1>20, <1>21
     DEF Next, OperatorPrepare, OperatorDispatch, PollResult

-----------------------------------------------------------------------------
(* While only ticks send and record.                                       *)

\* Where a process is about to write to the run it holds, or to one of its traces.
Writing == Holding \ {"mark_contacted"}

Same(q) == run'[q] = run[q] /\ response'[q] = response[q] /\ revenue'[q] = revenue[q]

\* Two processes never hold one run.
LEMMA Apart ==
  ASSUME OutreachInv, AloneInv, NEW c \in Client, NEW d \in Client, c # d,
         call[c].at \in Writing, call[d].at \in Writing
  PROVE  call[c].r # call[d].r
<1>1. ASSUME NEW e \in Client, call[e].at \in Writing
      PROVE  /\ e = Operator => run[call[e].r].status = "waiting_approval"
             /\ e # Operator => run[call[e].r].status \in {"ready", "waiting_result"}
  <2>1. Current(e, call[e])
    BY DEF AloneInv
  <2> QED
    BY <1>1, <2>1 DEF Current, Writing, Holding, Contacting, Recording
<1> QED
  BY <1>1 DEF Client

\* What is left to show of a step of one process: the runs it writes, and what it holds.
LEMMA AloneStep ==
  ASSUME OutreachInv, AloneInv, NEW c \in Client, OutreachInv',
         \A d \in Client \ {c} : call'[d] = call[d],
         \A q \in Run : run[q].status # "none" /\ ~(call[c].at \in Writing /\ q = call[c].r) => Same(q),
         Current(c, call[c])', \A q \in Run : Dated(q)'
  PROVE  AloneInv'
<1> SUFFICES ASSUME NEW d \in Client \ {c} PROVE Current(d, call[d])'
  BY DEF AloneInv, Current
<1>1. Current(d, call[d]) /\ Knows(call[d]) /\ call'[d] = call[d]
  BY DEF AloneInv, OutreachInv
<1>2. CASE call[d].at \in Writing
  <2>1. call[d].r \in Run /\ run[call[d].r].status # "none"
    BY <1>1, <1>2 DEF Knows, Writing
  <2>2. Same(call[d].r)
    BY <1>2, <2>1, Apart
  <2> QED
    BY <1>1, <2>2 DEF Current, Same
<1>3. CASE call[d].at \notin Writing
  BY <1>1, <1>3 DEF Current, Writing, Holding, Contacting, Recording
<1> QED
  BY <1>2, <1>3

\* A process that writes nothing.
LEMMA AloneMoves ==
  ASSUME OutreachInv, AloneInv, OutreachInv', NEW c \in Client, NEW k \in Call, Goto(c, k),
         UNCHANGED <<run, response, revenue, day>>, Current(c, k)
  PROVE  AloneInv'
<1>1. call'[c] = k /\ \A d \in Client \ {c} : call'[d] = call[d]
  BY OneMoves DEF OutreachInv, Columns
<1>2. Current(c, call[c])'
  BY <1>1 DEF Current
<1>3. \A q \in Run : Dated(q)' /\ Same(q)
  BY DEF AloneInv, Dated, Same
<1> QED
  BY <1>1, <1>2, <1>3, AloneStep

\* A process that holds nothing is not behind.
LEMMA CurrentNothing ==
  ASSUME NEW c \in Client, NEW k, k.at \in {"idle", "save_prepared"}
  PROVE  Current(c, k)
BY DEF Current, Contacting, Recording

\* Processes that look at a run, or leave.
LEMMA LookAlone ==
  ASSUME OutreachInv, AloneInv, OutreachInv', OutreachAssumption, NEW c \in Client,
         \/ \E l \in Lead : Prepare(c, l)
         \/ \E r \in Run : c = Scheduler /\ (Dispatch(c, r) \/ RecordResponse(c, r))
         \/ \E r \in Run : c = Operator /\ Approve(r)
         \/ Die(c)
         \/ \E v \in Venture : c = Scheduler /\ TickDiscovers(v)
         \/ Return(c) /\ UNCHANGED <<run, response, revenue, day>>
  PROVE  AloneInv'
<1>0. run \in [Run -> Row] /\ answer \in [Run -> AnyAnswer]
  BY Tables
<1>1. ASSUME NEW l \in Lead, Prepare(c, l) PROVE AloneInv'
  <2> DEFINE k == [NoCall EXCEPT !.at = "save_prepared", !.lead = l]
  <2>1. k \in Call /\ k.at = "save_prepared"
    BY CallNames DEF Place
  <2>2. Goto(c, k) /\ UNCHANGED <<run, response, revenue, day>>
    BY <1>1 DEF Prepare, OnlyCall, runs
  <2> HIDE DEF k
  <2> QED
    BY <2>1, <2>2, CurrentNothing, AloneMoves
<1>2. ASSUME NEW r \in Run, c = Scheduler, Dispatch(c, r) PROVE AloneInv'
  <2>1. PICK p \in {"send", "save_blocked"} :
           Goto(c, [NoCall EXCEPT !.at = p, !.r = r, !.row = run[r]])
    BY <1>2 DEF Dispatch
  <2>2. PICK k : k = [NoCall EXCEPT !.at = p, !.r = r, !.row = run[r]] /\ Goto(c, k)
    BY <2>1
  <2>3. run[r] \in Row /\ run[r].status = "ready" /\ p \in Place
    BY <1>0, <1>2 DEF Dispatch, Sendable, Place, Holding, Contacting
  <2>4. k \in Call /\ k.at = p /\ k.r = r /\ k.row = run[r]
    BY <2>2, <2>3, FirstTypes DEF NoCall, Call
  <2>5. Current(c, k) /\ UNCHANGED <<run, response, revenue, day>>
    BY <1>2, <2>3, <2>4 DEF Current, Recording, Scheduler, Operator, Dispatch, OnlyCall, runs
  <2> QED
    BY <2>2, <2>4, <2>5, AloneMoves
<1>3. ASSUME NEW r \in Run, c = Scheduler, RecordResponse(c, r) PROVE AloneInv'
  <2>1. PICK k : /\ k = [NoCall EXCEPT !.at = "save_response", !.r = r, !.row = run[r],
                                       !.reply = answer[r]]
                 /\ Goto(c, k)
    BY <1>3 DEF RecordResponse
  <2>2. /\ run[r] \in Row /\ run[r].status = "waiting_result" /\ response[r] = "none"
        /\ answer[r] \in AnyAnswer /\ "save_response" \in Place
    BY <1>0, <1>3 DEF RecordResponse, Unrecorded, Place, Holding, Recording
  <2>3. k \in Call /\ k.at = "save_response" /\ k.r = r /\ k.row = run[r]
    BY <2>1, <2>2, FirstTypes DEF NoCall, Call
  <2>4. Current(c, k) /\ UNCHANGED <<run, response, revenue, day>>
    BY <1>3, <2>2, <2>3
       DEF Current, Contacting, Scheduler, Operator, RecordResponse, OnlyCall, runs
  <2> QED
    BY <2>1, <2>3, <2>4, AloneMoves
<1>4. ASSUME NEW r \in Run, c = Operator, Approve(r) PROVE AloneInv'
  <2>1. PICK k : /\ k = [NoCall EXCEPT !.at = "save_approved", !.r = r, !.row = run[r]]
                 /\ Goto(c, k)
    BY <1>4 DEF Approve
  <2>2. run[r] \in Row /\ run[r].status = "waiting_approval" /\ "save_approved" \in Place
    BY <1>0, <1>4 DEF Approve, Place, Holding
  <2>3. k \in Call /\ k.at = "save_approved" /\ k.r = r /\ k.row = run[r]
    BY <2>1, <2>2, FirstTypes DEF NoCall, Call
  <2>4. Current(c, k) /\ UNCHANGED <<run, response, revenue, day>>
    BY <1>4, <2>2, <2>3 DEF Current, Contacting, Recording, Approve, OnlyCall, runs
  <2> QED
    BY <2>1, <2>3, <2>4, AloneMoves
<1>5. CASE Return(c) /\ UNCHANGED <<run, response, revenue, day>>
  BY <1>5, FirstTypes, CurrentNothing, AloneMoves DEF Return
<1>6. CASE Die(c)
  <2>1. Return(c) /\ UNCHANGED <<run, response, revenue, day>>
    BY <1>6 DEF Die, runs
  <2> QED
    BY <1>5, <2>1
<1>7. ASSUME NEW v \in Venture, c = Scheduler, TickDiscovers(v) PROVE AloneInv'
  <2>1. PICK l \in Lead : Goto(c, [NoCall EXCEPT !.at = "discovered", !.lead = l])
    BY <1>7 DEF TickDiscovers
  <2> DEFINE k == [NoCall EXCEPT !.at = "discovered", !.lead = l]
  <2>2. k \in Call /\ k.at = "discovered"
    BY CallNames DEF Place
  <2>3. Goto(c, k) /\ UNCHANGED <<run, response, revenue, day>>
    BY <1>7, <2>1 DEF TickDiscovers, runs
  <2> HIDE DEF k
  <2>4. Current(c, k)
    BY <1>7, <2>2 DEF Current, Contacting, Recording, Scheduler, Operator
  <2> QED
    BY <2>2, <2>3, <2>4, AloneMoves
<1> QED
  BY <1>1, <1>2, <1>3, <1>4, <1>5, <1>6, <1>7

\* A process that writes the run it holds.
LEMMA WriteAlone ==
  ASSUME OutreachInv, AloneInv, OutreachInv', NEW c \in Client, call[c].at \in Writing,
         NEW new \in Row, SaveRow(c, new), NEW k \in Call, Goto(c, k),
         k.at = "idle" \/ (k.at = "mark_contacted" /\ c = Scheduler),
         new.status \in {"none", "waiting_approval", "ready"} => new.day = NoDay,
         new.status = "waiting_result" => new.day # NoDay,
         new.day = call[c].row.day \/ new.day = day
  PROVE  AloneInv'
<1>1. call'[c] = k /\ \A d \in Client \ {c} : call'[d] = call[d]
  BY OneMoves DEF OutreachInv, Columns
<1>2. PICK r \in Run : r = call[c].r
  BY DEF OutreachInv, Knows, Writing
<1>3. /\ run' = [run EXCEPT ![r] = new] /\ run \in [Run -> Row]
      /\ day \in Nat \ {NoDay}
      /\ UNCHANGED <<response, revenue, day>>
  BY <1>2 DEF SaveRow, OutreachInv, Columns
<1>4. run[r] = call[c].row
  <2>1. Current(c, call[c])
    BY DEF AloneInv
  <2> QED
    BY <1>2, <2>1 DEF Current, Writing, Holding
<1>5. \A q \in Run : q # r => Same(q)
  BY <1>3 DEF Same
<1>6. \A q \in Run : Dated(q)'
  <2> SUFFICES ASSUME NEW q \in Run PROVE Dated(q)'
    OBVIOUS
  <2>1. Dated(q)
    BY DEF AloneInv
  <2>2. CASE q = r
    <3>1. run'[q] = new
      BY <1>3, <2>2
    <3> QED
      BY <1>3, <1>4, <2>1, <2>2, <3>1 DEF Dated
  <2>3. CASE q # r
    BY <1>3, <1>5, <2>1, <2>3 DEF Dated, Same
  <2> QED
    BY <2>2, <2>3
<1>7. Current(c, call[c])'
  BY <1>1 DEF Current, Contacting, Recording, Scheduler, Operator
<1> QED
  BY <1>1, <1>2, <1>5, <1>6, <1>7, AloneStep

\* The saves of a run.
LEMMA SavesAlone ==
  ASSUME OutreachInv, AloneInv, OutreachInv', OutreachAssumption, NEW c \in Client,
         \/ SaveDispatched(c) \/ SaveFailed(c) \/ SaveBlocked(c) \/ Complete(c)
         \/ c = Operator /\ (SaveApproved \/ SaveCancelled)
  PROVE  AloneInv'
<1>0. /\ call[c] \in Call /\ Knows(call[c]) /\ Current(c, call[c])
      /\ call[c].row \in Row /\ day \in Nat \ {NoDay}
  BY Tables, CallFields DEF AloneInv, OutreachInv, Columns
<1>1. CASE SaveDispatched(c)
  <2>1. call[c].at = "save_dispatched" /\ call[c].at \in Writing /\ c = Scheduler
    BY <1>0, <1>1
       DEF SaveDispatched, At, Writing, Holding, Contacting, Current, Client, Scheduler, Operator
  <2>2. PICK new : /\ new = [call[c].row EXCEPT !.status = "waiting_result", !.day = day]
                   /\ SaveRow(c, new)
    BY <1>1 DEF SaveDispatched
  <2>3. new \in Row /\ new.status = "waiting_result" /\ new.day = day /\ new.day # NoDay
    BY <1>0, <2>2 DEF Row, Status
  <2>4. PICK k : k = [call[c] EXCEPT !.at = "mark_contacted"] /\ Goto(c, k)
    BY <1>1 DEF SaveDispatched, To
  <2>5. k \in Call /\ k.at = "mark_contacted"
    BY <1>0, <2>4 DEF Call, Place, Holding, Contacting
  <2> QED
    BY <2>1, <2>2, <2>3, <2>4, <2>5, WriteAlone
<1>2. CASE SaveFailed(c) \/ SaveBlocked(c) \/ Complete(c)
  <2>1. PICK s \in {"failed", "blocked", "completed"} : SaveRow(c, [call[c].row EXCEPT !.status = s])
    BY <1>2 DEF SaveFailed, SaveBlocked, Complete
  <2>2. call[c].at \in Writing /\ Return(c)
    BY <1>2 DEF SaveFailed, SaveBlocked, Complete, At, Writing, Holding, Contacting, Recording
  <2>3. PICK new : new = [call[c].row EXCEPT !.status = s] /\ SaveRow(c, new)
    BY <2>1
  <2>4. new \in Row /\ new.status = s /\ new.day = call[c].row.day
    BY <1>0, <2>3 DEF Row, Status
  <2>5. PICK k \in Call : Goto(c, k) /\ k.at = "idle"
    BY <2>2, FirstTypes DEF Return
  <2>6. /\ new.status \notin {"none", "waiting_approval", "ready"}
        /\ new.status # "waiting_result"
        /\ new.day = call[c].row.day
    BY <2>4
  <2> QED
    BY <2>2, <2>3, <2>4, <2>5, <2>6, WriteAlone
<1>3. CASE c = Operator /\ (SaveApproved \/ SaveCancelled)
  <2>1. call[c].at = "save_approved" /\ call[c].at \in Writing /\ Return(c)
    BY <1>3 DEF SaveApproved, SaveCancelled, At, Writing, Holding
  <2>2. PICK new : /\ \/ new = [call[c].row EXCEPT !.status = "ready", !.approved = TRUE]
                      \/ new = [call[c].row EXCEPT !.status = "cancelled", !.approved = FALSE]
                   /\ SaveRow(c, new)
    BY <1>3 DEF SaveApproved, SaveCancelled
  <2>3. new \in Row /\ new.status \in {"ready", "cancelled"} /\ new.day = call[c].row.day
    BY <1>0, <2>2 DEF Row, Status
  <2>4. call[c].row.day = NoDay
    <3>1. call[c].r \in Run /\ run[call[c].r] = call[c].row
          /\ run[call[c].r].status = "waiting_approval"
      BY <1>0, <2>1 DEF Current, Knows, Writing
    <3> QED
      BY <3>1 DEF AloneInv, Dated
  <2>5. PICK k \in Call : Goto(c, k) /\ k.at = "idle"
    BY <2>1, FirstTypes DEF Return
  <2>6. new.day = NoDay /\ new.status # "waiting_result"
    BY <2>3, <2>4
  <2> QED
    BY <2>1, <2>2, <2>3, <2>5, <2>6, WriteAlone
<1> QED
  BY <1>1, <1>2, <1>3

\* A run is new.
LEMMA SavePreparedAlone ==
  ASSUME OutreachInv, AloneInv, OutreachInv', OutreachAssumption, NEW c \in Client,
         SavePrepared(c)
  PROVE  AloneInv'
<1> DEFINE new == [lead |-> call[c].lead, status |-> "waiting_approval",
                   approved |-> FALSE, day |-> NoDay]
<1>1. PICK r \in Run : run[r].status = "none" /\ run' = [run EXCEPT ![r] = new]
  BY DEF SavePrepared
<1>2. Goto(c, NoCall) /\ UNCHANGED <<response, revenue, day>> /\ run \in [Run -> Row]
  BY Tables DEF SavePrepared, Return
<1>3. call'[c] = NoCall /\ \A d \in Client \ {c} : call'[d] = call[d]
  BY <1>2, FirstTypes, OneMoves DEF OutreachInv, Columns
<1>4. new.status = "waiting_approval" /\ new.day = NoDay
  OBVIOUS
<1> HIDE DEF new
<1>5. \A q \in Run : q # r => Same(q)
  BY <1>1, <1>2 DEF Same
<1>6. run'[r] = new /\ response[r] = "none"
  BY <1>1, <1>2 DEF OutreachInv, RunInv
<1>7. \A q \in Run : Dated(q)'
  <2> SUFFICES ASSUME NEW q \in Run PROVE Dated(q)'
    OBVIOUS
  <2>1. Dated(q) /\ day \in Nat
    BY DEF AloneInv, OutreachInv, Columns
  <2>2. CASE q = r
    BY <1>2, <1>4, <1>6, <2>1, <2>2 DEF Dated, NoDay
  <2>3. CASE q # r
    BY <1>2, <1>5, <2>1, <2>3 DEF Dated, Same
  <2> QED
    BY <2>2, <2>3
<1>8. Current(c, call[c])'
  BY <1>3, FirstTypes DEF Current, Contacting, Recording
<1> QED
  BY <1>1, <1>3, <1>5, <1>7, <1>8, AloneStep

\* The gateway and the marks of the lead.
LEMMA SendAlone ==
  ASSUME OutreachInv, AloneInv, OutreachInv', OutreachAssumption, NEW c \in Client,
         Send(c) \/ MarkContacted(c) \/ MarkLead(c)
  PROVE  AloneInv'
<1>0. /\ call[c] \in Call /\ Current(c, call[c])
      /\ UNCHANGED <<run, response, revenue, day>>
  BY Tables DEF AloneInv, Send, MarkContacted, MarkLead, runs
<1>1. CASE Send(c)
  <2>1. PICK p \in {"save_dispatched", "save_failed"} : Goto(c, [call[c] EXCEPT !.at = p])
    BY <1>1 DEF Send, To
  <2>2. PICK k : k = [call[c] EXCEPT !.at = p] /\ Goto(c, k)
    BY <2>1
  <2>3. k \in Call /\ k.at = p /\ k.r = call[c].r /\ k.row = call[c].row
    BY <1>0, <2>2 DEF Call, Place, Holding, Contacting
  <2>4. call[c].at = "send"
    BY <1>1 DEF Send, At
  <2>5. Current(c, k)
    BY <1>0, <2>3, <2>4 DEF Current, Contacting, Recording
  <2> QED
    BY <1>0, <2>2, <2>3, <2>5, AloneMoves
<1>2. CASE MarkContacted(c)
  BY <1>0, <1>2, FirstTypes, CurrentNothing, AloneMoves DEF MarkContacted, Return
<1>3. CASE MarkLead(c)
  <2>1. PICK k : k = [call[c] EXCEPT !.at = "complete"] /\ Goto(c, k)
    BY <1>3 DEF MarkLead, To
  <2>2. k \in Call /\ k.at = "complete" /\ k.r = call[c].r /\ k.row = call[c].row
    BY <1>0, <2>1 DEF Call, Place, Holding, Recording
  <2>3. call[c].at = "mark_lead"
    BY <1>3 DEF MarkLead, At
  <2>4. Current(c, k)
    BY <1>0, <2>2, <2>3 DEF Current, Contacting, Recording
  <2> QED
    BY <1>0, <2>1, <2>2, <2>4, AloneMoves
<1> QED
  BY <1>1, <1>2, <1>3

\* The traces of an answer.
LEMMA TracesAlone ==
  ASSUME OutreachInv, AloneInv, OutreachInv', OutreachAssumption, NEW c \in Client,
         SaveResponse(c) \/ SaveRevenue(c) \/ Suppress(c)
  PROVE  AloneInv'
<1>0. /\ call[c] \in Call /\ Knows(call[c]) /\ Current(c, call[c])
      /\ call[c].at \in {"save_response", "save_revenue", "suppress"}
      /\ call[c].at \in Writing /\ call[c].at \in Recording
      /\ UNCHANGED <<run, day>>
  BY Tables DEF AloneInv, SaveResponse, SaveRevenue, Suppress, At, Writing, Holding, Recording, runs
<1>1. PICK r \in Run : r = call[c].r
  BY <1>0 DEF Knows, Writing
<1>2. /\ run[r] = call[c].row /\ call[c].row.status = "waiting_result"
      /\ run[r].day # NoDay /\ revenue[r] \in Nat
  BY <1>0, <1>1 DEF Current, AloneInv, Dated, OutreachInv, Columns
<1>3. PICK p \in {"save_revenue", "suppress", "mark_lead"} :
         /\ To(c, p)
         /\ p = "save_revenue" => call[c].at = "save_response"
  BY DEF SaveResponse, SaveRevenue, Suppress, At
<1>4. PICK k \in Call :
         /\ k.at = p /\ k.r = call[c].r /\ k.row = call[c].row /\ call'[c] = k
         /\ \A d \in Client \ {c} : call'[d] = call[d]
  <2>1. p \in Recording
    BY DEF Recording
  <2> QED
    BY <1>0, <1>3, <2>1, GoesOn
<1>5. \A q \in Run : q # r => Same(q)
  BY <1>0, <1>1 DEF SaveResponse, SaveRevenue, Suppress, Same, OutreachInv, Columns, runs
<1>6. \/ revenue'[r] = revenue[r]
      \/ revenue[r] = 0 /\ revenue'[r] = 1
  BY <1>0, <1>1, <1>2
     DEF SaveResponse, SaveRevenue, Suppress, At, Current, OutreachInv, Columns, runs
<1>7. p = "save_revenue" => revenue[r] = 0 /\ revenue'[r] = 0
  <2> SUFFICES ASSUME p = "save_revenue" PROVE revenue[r] = 0 /\ revenue'[r] = 0
    OBVIOUS
  <2>1. call[c].at = "save_response" /\ response[r] = "none"
    BY <1>0, <1>1, <1>3 DEF Current
  <2>2. revenue' = revenue
    BY <2>1 DEF SaveResponse, SaveRevenue, Suppress, At, runs
  <2> QED
    BY <1>2, <2>1, <2>2 DEF OutreachInv, RunInv
<1>8. \A q \in Run : Dated(q)'
  <2> SUFFICES ASSUME NEW q \in Run PROVE Dated(q)'
    OBVIOUS
  <2>1. Dated(q)
    BY DEF AloneInv
  <2>2. CASE q = r
    BY <1>0, <1>2, <1>6, <2>1, <2>2 DEF Dated
  <2>3. CASE q # r
    BY <1>0, <1>5, <2>1, <2>3 DEF Dated, Same
  <2> QED
    BY <2>2, <2>3
<1>9. Current(c, call[c])'
  BY <1>0, <1>1, <1>2, <1>4, <1>7 DEF Current, Contacting, Recording
<1> QED
  BY <1>0, <1>1, <1>4, <1>5, <1>8, <1>9, AloneStep

\* What the processes hold stays current.
LEMMA NextAlone ==
  ASSUME OutreachInv, AloneInv, OutreachInv', OutreachAssumption, ~manual, [Next]_vars
  PROVE  AloneInv'
<1>0. Scheduler \in Client /\ Operator \in Client
  BY DEF Client
<1>1. ASSUME NEW c \in Client, Continue(c) \/ Die(c) PROVE AloneInv'
  BY <1>1, SavePreparedAlone, SendAlone, SavesAlone, TracesAlone, LookAlone DEF Continue
<1>2. ASSUME NEW v \in Venture, Tick(v) PROVE AloneInv'
  <2>1. ASSUME NEW r \in Run, RecordResponse(Scheduler, r) \/ Dispatch(Scheduler, r)
        PROVE  AloneInv'
    BY <1>0, <2>1, LookAlone
  <2>2. ASSUME NEW l \in drafted, Prepare(Scheduler, l) PROVE AloneInv'
    BY <1>0, <2>2, Tables, LookAlone
  <2>3. CASE TickDiscovers(v)
    BY <1>0, <2>3, LookAlone
  <2> QED
    BY <1>2, <2>1, <2>2, <2>3
       DEF Tick, TickRecords, TickDispatches, TickPrepares, RunsOf, Unprepared
<1>3. CASE PrepareDiscovered
  <2>1. ASSUME NEW l \in drafted, Prepare(Scheduler, l) PROVE AloneInv'
    BY <1>0, <2>1, Tables, LookAlone
  <2>2. CASE Return(Scheduler) /\ OnlyCall
    BY <1>0, <2>2, LookAlone DEF OnlyCall, runs
  <2> QED
    BY <1>3, <2>1, <2>2 DEF PrepareDiscovered, Unprepared
<1>4. CASE SaveApproved \/ SaveCancelled
  BY <1>0, <1>4, SavesAlone
<1>5. ASSUME NEW l \in Lead, OperatorPrepare(l) PROVE AloneInv'
  BY <1>0, <1>5, LookAlone DEF OperatorPrepare
<1>6. ASSUME NEW r \in Run, Approve(r) PROVE AloneInv'
  BY <1>0, <1>6, LookAlone
<1>7. CASE /\ UNCHANGED <<run, response, revenue, call>>
           /\ day' >= day
  <2>1. \A c \in Client : Current(c, call[c])'
    BY <1>7 DEF AloneInv, Current
  <2>2. \A r \in Run : Dated(r)'
    BY <1>7 DEF AloneInv, Dated, OutreachInv, Columns, Row
  <2> QED
    BY <2>1, <2>2 DEF AloneInv
<1>8. ASSUME \/ \E v \in Venture : Stop(v)
             \/ NextDay
             \/ \E l \in Lead : OperatorSuppress(l)
             \/ \E r \in Run : Reply(r)
             \/ UNCHANGED vars
      PROVE  UNCHANGED <<run, response, revenue, call>> /\ day' >= day
  BY <1>8 DEF Stop, NextDay, OperatorSuppress, Reply, vars, runs, OutreachInv, Columns
<1> QED
  BY <1>1, <1>2, <1>3, <1>4, <1>5, <1>6, <1>7, <1>8 DEF Next, OperatorDispatch, PollResult

-----------------------------------------------------------------------------
(* Caps                                                                    *)

\* Contacts are finitely many.
LEMMA FewContacts ==
  ASSUME OutreachAssumption
  PROVE  /\ \A l : IsFiniteSet(Contacts(l)) /\ Cardinality(Contacts(l)) \in Nat
         /\ \A d : IsFiniteSet(ContactsOn(d)) /\ Cardinality(ContactsOn(d)) \in Nat
<1>1. IsFiniteSet(Run)
  BY FS_Interval DEF OutreachAssumption, Run
<1>2. \A l : Contacts(l) \subseteq Run
  BY DEF Contacts
<1>3. \A d : ContactsOn(d) \subseteq Run
  BY DEF ContactsOn
<1> QED
  BY <1>1, <1>2, <1>3, FS_Subset, FS_CardinalityType

\* One more member, at most.
LEMMA OneMore ==
  ASSUME NEW S, NEW T, NEW x, IsFiniteSet(S), T \subseteq S \cup {x}
  PROVE  IsFiniteSet(T) /\ Cardinality(T) \in Nat /\ Cardinality(T) <= Cardinality(S) + 1
<1>1. /\ IsFiniteSet(S \cup {x}) /\ Cardinality(S) \in Nat
      /\ Cardinality(S \cup {x}) = Cardinality(S) \/ Cardinality(S \cup {x}) = Cardinality(S) + 1
  BY FS_AddElement, FS_CardinalityType
<1>2. IsFiniteSet(T) /\ Cardinality(T) <= Cardinality(S \cup {x}) /\ Cardinality(T) \in Nat
  BY <1>1, FS_Subset, FS_CardinalityType
<1> QED
  BY <1>1, <1>2

\* No run gets or loses its day.
DatesKept ==
    \A r \in Run : /\ run'[r].day = run[r].day
                   /\ run[r].day # NoDay => run'[r].lead = run[r].lead

\* Then the counts stay.
LEMMA CountsStay ==
  ASSUME DatesKept
  PROVE  /\ \A l : Contacts(l)' = Contacts(l)
         /\ \A d : ContactsOn(d)' = ContactsOn(d)
BY DEF DatesKept, Contacts, ContactsOn, Identical

\* Only a tick that stores a dispatch gives a run its day.
LEMMA OthersKeepDates ==
  ASSUME OutreachInv, AloneInv, ~manual, Next, ~SaveDispatched(Scheduler)
  PROVE  DatesKept
<1>0. run \in [Run -> Row]
  BY Tables
<1>1. CASE run' = run
  BY <1>1 DEF DatesKept
<1>2. ASSUME NEW c \in Client, SavePrepared(c) PROVE DatesKept
  <2>1. PICK r \in Run :
           /\ run[r].status = "none"
           /\ run' = [run EXCEPT ![r] = [lead |-> call[c].lead, status |-> "waiting_approval",
                                         approved |-> FALSE, day |-> NoDay]]
    BY <1>2 DEF SavePrepared
  <2>2. run[r].day = NoDay
    BY <2>1 DEF AloneInv, Dated
  <2> QED
    BY <1>0, <2>1, <2>2 DEF DatesKept
<1>3. ASSUME NEW c \in Client, NEW new, SaveRow(c, new), call[c].at \in Writing,
             new.day = call[c].row.day, new.lead = call[c].row.lead
      PROVE  DatesKept
  <2>1. call[c].r \in Run /\ run[call[c].r] = call[c].row
    BY <1>3 DEF AloneInv, OutreachInv, Current, Knows, Writing, Holding
  <2> QED
    BY <1>0, <1>3, <2>1 DEF DatesKept, SaveRow
<1>4. ASSUME NEW c \in Client, NEW s \in Status, call[c].at \in Writing,
             \/ SaveRow(c, [call[c].row EXCEPT !.status = s])
             \/ SaveRow(c, [call[c].row EXCEPT !.status = s, !.approved = TRUE])
             \/ SaveRow(c, [call[c].row EXCEPT !.status = s, !.approved = FALSE])
      PROVE  DatesKept
  <2>1. call[c].row \in Row
    BY Tables, CallFields
  <2>2. PICK new : /\ SaveRow(c, new)
                   /\ \/ new = [call[c].row EXCEPT !.status = s]
                      \/ new = [call[c].row EXCEPT !.status = s, !.approved = TRUE]
                      \/ new = [call[c].row EXCEPT !.status = s, !.approved = FALSE]
    BY <1>4
  <2>3. new.day = call[c].row.day /\ new.lead = call[c].row.lead
    BY <2>1, <2>2 DEF Row
  <2> QED
    BY <1>3, <1>4, <2>2, <2>3
<1>5. ASSUME NEW c \in Client, SaveFailed(c) \/ SaveBlocked(c) \/ Complete(c) PROVE DatesKept
  <2>1. call[c].at \in Writing
    BY <1>5 DEF SaveFailed, SaveBlocked, Complete, At, Writing, Holding, Contacting, Recording
  <2>2. \E s \in Status : SaveRow(c, [call[c].row EXCEPT !.status = s])
    BY <1>5 DEF SaveFailed, SaveBlocked, Complete, Status
  <2> QED
    BY <1>4, <2>1, <2>2
<1>6. CASE SaveApproved \/ SaveCancelled
  <2>1. Operator \in Client /\ call[Operator].at \in Writing
    BY <1>6 DEF SaveApproved, SaveCancelled, At, Writing, Holding, Client
  <2>2. /\ "ready" \in Status /\ "cancelled" \in Status
        /\ \/ SaveRow(Operator, [call[Operator].row EXCEPT !.status = "ready", !.approved = TRUE])
           \/ SaveRow(Operator, [call[Operator].row EXCEPT !.status = "cancelled",
                                                          !.approved = FALSE])
    BY <1>6 DEF SaveApproved, SaveCancelled, Status
  <2> QED
    BY <1>4, <2>1, <2>2
<1>7. ASSUME SaveDispatched(Operator) PROVE FALSE
  <2>1. Current(Operator, call[Operator])
    BY DEF AloneInv, Client
  <2> QED
    BY <1>7, <2>1 DEF Current, SaveDispatched, At
<1>8. ASSUME NEW c \in Client, Continue(c) PROVE DatesKept
  <2>1. CASE Send(c) \/ MarkContacted(c) \/ SaveResponse(c) \/ SaveRevenue(c) \/ Suppress(c) \/ MarkLead(c)
    BY <1>1, <2>1 DEF Send, MarkContacted, SaveResponse, SaveRevenue, Suppress, MarkLead, runs
  <2>2. ~SaveDispatched(c)
    BY <1>7 DEF Client
  <2> QED
    BY <1>2, <1>5, <1>8, <2>1, <2>2 DEF Continue
<1>9. ASSUME \/ \E c \in Client : Die(c)
             \/ \E v \in Venture : Tick(v) \/ Stop(v)
             \/ PrepareDiscovered \/ NextDay
             \/ \E l \in Lead : OperatorPrepare(l) \/ OperatorSuppress(l)
             \/ \E r \in Run : Approve(r) \/ Reply(r)
      PROVE  run' = run
  BY <1>9 DEF Die, Tick, TickRecords, TickDispatches, TickPrepares, TickDiscovers, Stop,
     PrepareDiscovered, NextDay, OperatorPrepare, OperatorSuppress, Approve, Reply,
     RecordResponse, Dispatch, Prepare, OnlyCall, runs
<1> QED
  BY <1>1, <1>6, <1>8, <1>9 DEF Next, OperatorDispatch, PollResult

\* A tick about to contact somebody has just looked, or comes from where it was.
LEMMA RoomSteps ==
  ASSUME OutreachInv, AloneInv, ~manual, Next, ~SaveDispatched(Scheduler),
         call'[Scheduler].at \in {"send", "save_dispatched"}
  PROVE  \/ /\ call[Scheduler].at \in {"send", "save_dispatched"}
            /\ call'[Scheduler].row = call[Scheduler].row
            /\ day' = day \/ day' = day + 1
         \/ WithinLimits(call'[Scheduler].row.lead) /\ day' = day
<1> DEFINE S == Scheduler
<1> DEFINE Goal == \/ /\ call[S].at \in {"send", "save_dispatched"}
                      /\ call'[S].row = call[S].row
                      /\ day' = day \/ day' = day + 1
                   \/ WithinLimits(call'[S].row.lead) /\ day' = day
<1>0. /\ S \in Client /\ Operator \in Client /\ S # Operator
      /\ call \in [Client -> Call]
  BY DEF Client, Scheduler, Operator, OutreachInv, Columns
<1>1. ASSUME call'[S] = call[S], day' = day \/ day' = day + 1 PROVE Goal
  BY <1>1
<1>2. ASSUME NEW k, Goto(S, k), k.at \notin {"send", "save_dispatched"} PROVE FALSE
  <2>1. call'[S] = k
    BY <1>0, <1>2 DEF Goto
  <2> QED
    BY <1>2, <2>1
<1>3. ASSUME NEW k, Goto(Operator, k), day' = day PROVE Goal
  <2>1. call'[S] = call[S]
    BY <1>0, <1>3 DEF Goto
  <2> QED
    BY <1>1, <1>3, <2>1
<1>4. ASSUME Send(S) PROVE Goal
  <2>1. PICK p \in {"save_dispatched", "save_failed"} : Goto(S, [call[S] EXCEPT !.at = p])
    BY <1>4 DEF Send, To
  <2>2. call'[S] = [call[S] EXCEPT !.at = p] /\ call[S] \in Call
    BY <1>0, <2>1 DEF Goto
  <2>3. call'[S].row = call[S].row
    BY <2>2 DEF Call
  <2> QED
    BY <1>4, <2>3 DEF Send, At
<1>5. ASSUME NEW r \in Run, Dispatch(S, r) PROVE Goal
  <2>1. PICK p \in {"send", "save_blocked"} :
           /\ Goto(S, [NoCall EXCEPT !.at = p, !.r = r, !.row = run[r]])
           /\ p = "send" => WithinLimits(run[r].lead)
    BY <1>5 DEF Dispatch
  <2>2. call'[S] = [NoCall EXCEPT !.at = p, !.r = r, !.row = run[r]]
    BY <1>0, <2>1 DEF Goto
  <2>3. call'[S].at = p /\ call'[S].row = run[r]
    BY <2>2 DEF NoCall
  <2>4. day' = day
    BY <1>5 DEF Dispatch, OnlyCall
  <2> QED
    BY <2>1, <2>3, <2>4
<1> HIDE DEF S, Goal
<1>6. ASSUME NEW c \in Client, Return(c), day' = day PROVE Goal
  <2>1. CASE c = S
    BY <1>2, <1>6, <2>1, FirstTypes, OutreachAssumption DEF Return
  <2>2. CASE c = Operator
    BY <1>3, <1>6, <2>2 DEF Return
  <2> QED
    BY <2>1, <2>2 DEF Client, S
<1>7. ASSUME NEW c \in Client, NEW p \in Recording, To(c, p), day' = day PROVE Goal
  <2>1. PICK k : k = [call[c] EXCEPT !.at = p] /\ Goto(c, k)
    BY <1>7 DEF To
  <2>2. k.at = p
    BY <1>0, <2>1 DEF Call
  <2>3. CASE c = S
    BY <1>2, <1>7, <2>1, <2>2, <2>3 DEF Recording
  <2>4. CASE c = Operator
    BY <1>3, <1>7, <2>1, <2>4
  <2> QED
    BY <2>3, <2>4 DEF Client, S
<1>8. ASSUME NEW c \in Client, NEW l, Prepare(c, l) PROVE Goal
  <2>1. PICK k : k = [NoCall EXCEPT !.at = "save_prepared", !.lead = l] /\ Goto(c, k)
    BY <1>8 DEF Prepare
  <2>2. k.at = "save_prepared" /\ day' = day
    BY <1>8, <2>1 DEF NoCall, Prepare, OnlyCall
  <2>3. CASE c = S
    BY <1>2, <2>1, <2>2, <2>3
  <2>4. CASE c = Operator
    BY <1>3, <2>1, <2>2, <2>4
  <2> QED
    BY <2>3, <2>4 DEF Client, S
<1>9. ASSUME NEW r \in Run, RecordResponse(S, r) PROVE Goal
  <2>1. PICK k : /\ k = [NoCall EXCEPT !.at = "save_response", !.r = r, !.row = run[r],
                                       !.reply = answer[r]]
                 /\ Goto(S, k)
    BY <1>9 DEF RecordResponse
  <2>2. k.at = "save_response"
    BY <2>1 DEF NoCall
  <2> QED
    BY <1>2, <2>1, <2>2
<1>10. ASSUME NEW v, TickDiscovers(v) PROVE Goal
  <2>1. PICK l \in Lead : Goto(S, [NoCall EXCEPT !.at = "discovered", !.lead = l])
    BY <1>10 DEF TickDiscovers, S
  <2>2. PICK k : k = [NoCall EXCEPT !.at = "discovered", !.lead = l] /\ Goto(S, k)
    BY <2>1
  <2>3. k.at = "discovered"
    BY <2>2 DEF NoCall
  <2> QED
    BY <1>2, <2>2, <2>3
<1>11. ASSUME NEW r \in Run, Approve(r) PROVE Goal
  BY <1>3, <1>11 DEF Approve, OnlyCall
<1>12. ASSUME NEW c \in Client, Continue(c) PROVE Goal
  <2>1. CASE \/ SavePrepared(c) \/ MarkContacted(c) \/ SaveFailed(c) \/ SaveBlocked(c)
             \/ Complete(c)
    BY <1>6, <2>1 DEF SavePrepared, MarkContacted, SaveFailed, SaveBlocked, Complete, SaveRow
  <2>2. CASE SaveResponse(c) \/ SaveRevenue(c) \/ Suppress(c) \/ MarkLead(c)
    <3>1. day' = day
      BY <2>2 DEF SaveResponse, SaveRevenue, Suppress, MarkLead
    <3>2. PICK p \in Recording : To(c, p)
      BY <2>2 DEF SaveResponse, SaveRevenue, Suppress, MarkLead, Recording
    <3> QED
      BY <1>7, <3>1, <3>2
  <2>3. CASE Send(c) /\ c = Operator
    <3>1. PICK k : Goto(Operator, k)
      BY <2>3 DEF Send, To
    <3>2. day' = day
      BY <2>3 DEF Send
    <3> QED
      BY <1>3, <3>1, <3>2
  <2>4. CASE Send(c) /\ c = S
    BY <1>4, <2>4
  <2>5. CASE SaveDispatched(c)
    <3>1. c = Operator
      BY <2>5 DEF Client
    <3>2. Current(Operator, call[Operator])
      BY <1>0 DEF AloneInv
    <3> QED
      BY <2>5, <3>1, <3>2 DEF Current, SaveDispatched, At
  <2> QED
    BY <1>12, <2>1, <2>2, <2>3, <2>4, <2>5 DEF Continue, Client, S
<1>13. ASSUME NEW c \in Client, Die(c) PROVE Goal
  BY <1>6, <1>13 DEF Die
<1>14. ASSUME NEW v \in Venture, Tick(v) PROVE Goal
  BY <1>5, <1>8, <1>9, <1>10, <1>14, <1>0
     DEF Tick, TickRecords, TickDispatches, TickPrepares, RunsOf, S
<1>15. ASSUME PrepareDiscovered PROVE Goal
  <2>1. ASSUME NEW l, Prepare(S, l) PROVE Goal
    BY <1>0, <1>8, <2>1
  <2>2. ASSUME Return(S), OnlyCall PROVE Goal
    BY <1>0, <1>6, <2>2 DEF OnlyCall
  <2> QED
    BY <1>15, <2>1, <2>2 DEF PrepareDiscovered, S
<1>16. ASSUME SaveApproved \/ SaveCancelled PROVE Goal
  <2>1. Return(Operator) /\ day' = day
    BY <1>16 DEF SaveApproved, SaveCancelled, SaveRow
  <2> QED
    BY <1>0, <1>6, <2>1
<1>17. ASSUME NEW l \in Lead, OperatorPrepare(l) PROVE Goal
  BY <1>0, <1>8, <1>17 DEF OperatorPrepare
<1>18. ASSUME \/ \E v \in Venture : Stop(v)
              \/ NextDay
              \/ \E l \in Lead : OperatorSuppress(l)
              \/ \E r \in Run : Reply(r)
       PROVE  Goal
  <2>1. call'[S] = call[S] /\ (day' = day \/ day' = day + 1)
    BY <1>18 DEF Stop, NextDay, OperatorSuppress, Reply
  <2> QED
    BY <1>1, <2>1
<1>19. Goal
  BY <1>11, <1>12, <1>13, <1>14, <1>15, <1>16, <1>17, <1>18 DEF Next, OperatorDispatch, PollResult
<1> QED
  BY <1>19 DEF Goal, S

\* On a new day nobody was contacted yet.
LEMMA Tomorrow ==
  ASSUME OutreachInv, AloneInv
  PROVE  ContactsOn(day + 1) = {}
BY DEF ContactsOn, OutreachInv, Columns, AloneInv, Dated, Row

\* A stored dispatch is the contact that there was room for.
LEMMA DispatchWithinCaps ==
  ASSUME OutreachInv, AloneInv, CapInv, OutreachAssumption, SaveDispatched(Scheduler)
  PROVE  CapInv'
<1> DEFINE k == call[Scheduler]
<1>0. /\ Scheduler \in Client /\ k \in Call /\ Knows(k) /\ Current(Scheduler, k)
      /\ k.at = "save_dispatched"
  BY Tables DEF Client, AloneInv, OutreachInv, Columns, SaveDispatched, At
<1>1. PICK r \in Run : r = k.r
  BY <1>0 DEF Knows, Holding, Contacting
<1>2. /\ run[r] = k.row /\ k.row \in Row /\ k.row.status = "ready" /\ k.row.day = NoDay
      /\ k.row.lead \in Lead
  BY <1>0, <1>1, CallFields DEF Current, Contacting, AloneInv, Dated, Row
<1>3. day \in Nat \ {NoDay} /\ day' = day /\ run \in [Run -> Row]
  BY Tables DEF OutreachInv, Columns, SaveDispatched, SaveRow
<1>4. PICK new : new = [k.row EXCEPT !.status = "waiting_result", !.day = day]
                 /\ run' = [run EXCEPT ![r] = new]
  BY <1>1 DEF SaveDispatched, SaveRow
<1>5. new.lead = k.row.lead /\ new.day = day /\ run'[r] = new
      /\ \A q \in Run \ {r} : run'[q] = run[q]
  BY <1>2, <1>3, <1>4 DEF Row
<1>6. call'[Scheduler].at = "mark_contacted"
  BY <1>0 DEF SaveDispatched, To, Goto, Call, OutreachInv, Columns
<1>7. /\ Cardinality(Contacts(k.row.lead)) < IdentityCap /\ Cardinality(ContactsOn(day)) < DayCap
      /\ \A l : IsFiniteSet(Contacts(l)) /\ Cardinality(Contacts(l)) \in Nat
      /\ \A d : IsFiniteSet(ContactsOn(d)) /\ Cardinality(ContactsOn(d)) \in Nat
      /\ IdentityCap \in Nat /\ DayCap \in Nat
  BY <1>0, FewContacts DEF CapInv, Room, WithinLimits, OutreachAssumption
<1> HIDE DEF k
<1>8. ASSUME NEW l \in Lead PROVE Cardinality(Contacts(l)') <= IdentityCap
  <2>1. CASE IdentityOf[k.row.lead] = IdentityOf[l]
    <3>1. Contacts(l) = Contacts(k.row.lead)
      BY <2>1 DEF Contacts, Identical
    <3>2. Contacts(l)' \subseteq Contacts(l) \cup {r}
      BY <1>5 DEF Contacts, Identical
    <3>3. Cardinality(Contacts(l)') <= Cardinality(Contacts(l)) + 1 /\ Cardinality(Contacts(l)') \in Nat
      BY <1>7, <3>2, OneMore
    <3> QED
      BY <1>7, <3>1, <3>3
  <2>2. CASE IdentityOf[k.row.lead] # IdentityOf[l]
    <3>1. Contacts(l)' = Contacts(l)
      BY <1>2, <1>5, <2>2 DEF Contacts, Identical
    <3> QED
      BY <3>1 DEF CapInv
  <2> QED
    BY <2>1, <2>2
<1>9. ASSUME NEW d \in Nat \ {NoDay} PROVE Cardinality(ContactsOn(d)') <= DayCap
  <2>1. CASE d = day
    <3>1. ContactsOn(d)' \subseteq ContactsOn(d) \cup {r}
      BY <1>5 DEF ContactsOn
    <3>0. IsFiniteSet(ContactsOn(d))
      BY <1>7
    <3>2. /\ Cardinality(ContactsOn(d)') <= Cardinality(ContactsOn(d)) + 1
          /\ Cardinality(ContactsOn(d)') \in Nat
      BY <3>0, <3>1, OneMore
    <3>3. Cardinality(ContactsOn(d)) = Cardinality(ContactsOn(day))
      BY <2>1
    <3>4. Cardinality(ContactsOn(d)) < DayCap /\ Cardinality(ContactsOn(d)) \in Nat
      BY <1>7, <3>3
    <3> QED
      BY <1>7, <3>2, <3>4
  <2>2. CASE d # day
    <3>1. ContactsOn(d)' = ContactsOn(d)
      BY <1>2, <1>5, <2>2 DEF ContactsOn
    <3> QED
      BY <3>1 DEF CapInv
  <2> QED
    BY <2>1, <2>2
<1> QED
  BY <1>6, <1>8, <1>9 DEF CapInv, Room

\* The caps hold after every step.
LEMMA NextCaps ==
  ASSUME OutreachInv, AloneInv, CapInv, OutreachAssumption, ~manual, [Next]_vars
  PROVE  CapInv'
<1>1. CASE UNCHANGED vars
  BY <1>1 DEF vars, runs, CapInv, Room, WithinLimits, Contacts, ContactsOn, Identical
<1>2. CASE SaveDispatched(Scheduler)
  BY <1>2, DispatchWithinCaps
<1>3. CASE Next /\ ~SaveDispatched(Scheduler)
  <2>1. /\ \A l : Contacts(l)' = Contacts(l)
        /\ \A d : ContactsOn(d)' = ContactsOn(d)
    BY <1>3, OthersKeepDates, CountsStay
  <2>2. /\ \A l \in Lead : Cardinality(Contacts(l)') <= IdentityCap
        /\ \A d \in Nat \ {NoDay} : Cardinality(ContactsOn(d)') <= DayCap
    BY <2>1 DEF CapInv
  <2>3. ASSUME call'[Scheduler].at \in {"send", "save_dispatched"}
        PROVE  /\ Cardinality(Contacts(call'[Scheduler].row.lead)) < IdentityCap
               /\ Cardinality(ContactsOn(day')) < DayCap
    <3>1. CASE WithinLimits(call'[Scheduler].row.lead) /\ day' = day
      BY <3>1 DEF WithinLimits
    <3>2. CASE /\ call[Scheduler].at \in {"send", "save_dispatched"}
               /\ call'[Scheduler].row = call[Scheduler].row
               /\ day' = day \/ day' = day + 1
      <4>1. WithinLimits(call[Scheduler].row.lead)
        BY <3>2 DEF CapInv, Room
      <4>2. CASE day' = day
        BY <3>2, <4>1, <4>2 DEF WithinLimits
      <4>3. CASE day' = day + 1
        <5>1. Cardinality(ContactsOn(day')) = 0
          BY <4>3, Tomorrow, FS_EmptySet
        <5>2. DayCap \in Nat \ {0}
          BY DEF OutreachAssumption
        <5> QED
          BY <3>2, <4>1, <5>1, <5>2 DEF WithinLimits
      <4> QED
        BY <3>2, <4>2, <4>3
    <3> QED
      BY <1>3, <2>3, <3>1, <3>2, RoomSteps
  <2>4. Room'
    BY <2>1, <2>3 DEF Room, WithinLimits
  <2> QED
    BY <2>2, <2>4 DEF CapInv
<1> QED
  BY <1>1, <1>2, <1>3

-----------------------------------------------------------------------------
(* The invariant of the whole, and what follows from it.                   *)

OutreachSafety ==
    /\ OutreachInv
    /\ Undecided
    /\ ~manual => AloneInv /\ CapInv

\* At first nobody was contacted and nothing is held.
LEMMA InitSafety == Init /\ OutreachAssumption => OutreachSafety
<1> SUFFICES ASSUME Init, OutreachAssumption PROVE OutreachSafety
  OBVIOUS
<1>1. OutreachInv
  BY InitOutreach
<1>2. AloneInv
  <2>1. \A c \in Client : Current(c, call[c])
    BY FirstTypes, CurrentNothing DEF Init
  <2>2. \A r \in Run : Dated(r)
    BY FirstTypes DEF Init, Dated, NoRow, NoDay
  <2> QED
    BY <2>1, <2>2 DEF AloneInv
<1>3. CapInv
  <2>1. /\ \A l : Contacts(l) = {}
        /\ \A d \in Nat \ {NoDay} : ContactsOn(d) = {}
    BY DEF Init, Contacts, ContactsOn, NoRow
  <2>2. IdentityCap \in Nat \ {0} /\ DayCap \in Nat \ {0} /\ Cardinality({}) = 0
    BY FS_EmptySet DEF OutreachAssumption
  <2>3. call[Scheduler].at = "idle"
    BY FirstTypes DEF Init, Client
  <2> QED
    BY <2>1, <2>2, <2>3 DEF CapInv, Room
<1>4. Undecided
  BY FirstTypes DEF Init, Undecided, Client
<1> QED
  BY <1>1, <1>2, <1>3, <1>4 DEF OutreachSafety

\* Every step keeps all parts; manual never changes,
LEMMA NextSafety == OutreachSafety /\ OutreachAssumption /\ [Next]_vars => OutreachSafety'
<1> SUFFICES ASSUME OutreachSafety, OutreachAssumption, [Next]_vars PROVE OutreachSafety'
  OBVIOUS
<1>1. OutreachInv /\ OutreachInv' /\ Undecided'
  BY NextOutreach, NextUndecided DEF OutreachSafety
<1>2. manual' = manual
  BY DEF Next, vars, Continue, Tick, SavePrepared, Send, SaveDispatched, MarkContacted, SaveFailed,
     SaveBlocked, SaveResponse, SaveRevenue, Suppress, MarkLead, Complete, SaveRow, Die, TickRecords,
     TickDispatches, TickPrepares, TickDiscovers, Stop, PrepareDiscovered, SaveApproved,
     SaveCancelled, NextDay,
     OperatorPrepare, OperatorSuppress, Approve, OperatorDispatch, PollResult, Reply,
     RecordResponse, Dispatch, Prepare, OnlyCall
<1>3. CASE ~manual
  BY <1>1, <1>2, <1>3, NextAlone, NextCaps DEF OutreachSafety
<1> QED
  BY <1>1, <1>2, <1>3 DEF OutreachSafety

\* so that they always hold.
LEMMA OutreachInvariant == Spec => []OutreachSafety
<1>1. Init => OutreachSafety
  BY InitSafety, OutreachAssumption
<1>2. OutreachSafety /\ [Next]_vars => OutreachSafety'
  BY NextSafety, OutreachAssumption
<1> QED
  BY <1>1, <1>2, PTL DEF Spec

(* The tables have their columns, and a process that sends or records has  *)
(* the row of a stored run in its hands.                                   *)
THEOREM OutreachTypeCorrect == Spec => []TypeOK
<1>1. OutreachSafety => TypeOK
  <2> SUFFICES ASSUME OutreachSafety PROVE TypeOK
    OBVIOUS
  <2>1. Columns /\ \A r \in Run : RunInv(r)
    BY DEF OutreachSafety, OutreachInv
  <2>2. \A r \in accepted : r \in Run /\ run[r].status # "none"
    BY <2>1 DEF Columns, RunInv
  <2>3. ASSUME NEW c \in Client, ~At(c, "idle")
        PROVE  \/ call[c].at \in {"save_prepared", "discovered"}
               \/ call[c].r \in Run /\ run[call[c].r].status # "none"
    <3>1. Knows(call[c]) /\ call[c].at \in Place
      BY CallFields DEF OutreachSafety, OutreachInv, Columns
    <3> QED
      BY <2>3, <3>1 DEF At, Place, Knows
  <2> QED
    BY <2>1, <2>2, <2>3 DEF TypeOK, Columns, AnyAnswer
<1> QED
  BY <1>1, OutreachInvariant, PTL

(* Nothing reaches a prospect that a person did not approve, also when the *)
(* operator sends by hand and rows are written back stale.                 *)
THEOREM AlwaysSentIsApproved == Spec => []SentIsApproved
<1>1. OutreachSafety => SentIsApproved
  BY DEF OutreachSafety, OutreachInv, Columns, RunInv, SentIsApproved
<1> QED
  BY <1>1, OutreachInvariant, PTL

(* A completed run has left all its traces, and no sale is booked twice by *)
(* ticks alone, wherever processes die.                                    *)
THEOREM AlwaysAccountedOnce == Spec => []AccountedOnce
<1>1. OutreachSafety => AccountedOnce
  BY DEF OutreachSafety, OutreachInv, RunInv, Traced, AloneInv, Dated, AccountedOnce
<1> QED
  BY <1>1, OutreachInvariant, PTL

(* Ticks stay within the caps of a day and of an identity, for any number  *)
(* of ventures that share a prospect, and days.                            *)
THEOREM AlwaysCapsHold == Spec => []CapsHold
<1>1. OutreachSafety => CapsHold
  <2>1. 1..MaxDays \subseteq Nat \ {NoDay}
    BY DEF OutreachAssumption, NoDay
  <2> QED
    BY <2>1, OutreachAssumption DEF OutreachSafety, CapInv, CapsHold
<1> QED
  BY <1>1, OutreachInvariant, PTL

(* A run that is completed, failed, blocked or cancelled stays so while    *)
(* ticks send.                                                             *)
THEOREM OutcomeAlwaysStands == Spec => OutcomeStands
<1>1. OutreachSafety /\ [Next]_vars =>
         [~manual => \A r \in Run : run[r].status \in Final => run'[r] = run[r]]_vars
  <2> SUFFICES ASSUME OutreachSafety, Next, ~manual, NEW r \in Run, run[r].status \in Final
               PROVE  run'[r] = run[r]
    OBVIOUS
  <2>0. /\ OutreachInv /\ AloneInv /\ run \in [Run -> Row]
        /\ run[r].status \notin {"none", "waiting_approval", "ready", "waiting_result"}
    BY DEF OutreachSafety, OutreachInv, Columns, Final
  <2>1. ASSUME NEW c \in Client, NEW new, SaveRow(c, new), call[c].at \in Writing
        PROVE  run'[r] = run[r]
    <3>1. run[call[c].r].status \in {"waiting_approval", "ready", "waiting_result"}
      BY <2>0, <2>1 DEF AloneInv, Current, Writing, Holding
    <3>2. call[c].r # r
      BY <2>0, <3>1
    <3> QED
      BY <2>0, <2>1, <3>2 DEF SaveRow
  <2>2. ASSUME NEW c \in Client, SavePrepared(c) PROVE run'[r] = run[r]
    BY <2>0, <2>2 DEF SavePrepared
  <2>3. ASSUME NEW c \in Client, SaveDispatched(c) \/ SaveFailed(c) \/ SaveBlocked(c) \/ Complete(c)
        PROVE  run'[r] = run[r]
    <3>1. call[c].at \in Writing
      BY <2>3 DEF SaveDispatched, SaveFailed, SaveBlocked, Complete, At, Writing, Holding,
         Contacting, Recording
    <3>2. \E new : SaveRow(c, new)
      BY <2>3 DEF SaveDispatched, SaveFailed, SaveBlocked, Complete
    <3> QED
      BY <2>1, <3>1, <3>2
  <2>4. CASE SaveApproved \/ SaveCancelled
    <3>1. Operator \in Client /\ call[Operator].at \in Writing /\ \E new : SaveRow(Operator, new)
      BY <2>4 DEF SaveApproved, SaveCancelled, At, Writing, Holding, Client
    <3> QED
      BY <2>1, <3>1
  <2>5. ASSUME NEW c \in Client,
               \/ Send(c) \/ MarkContacted(c) \/ SaveResponse(c) \/ SaveRevenue(c) \/ Suppress(c)
               \/ MarkLead(c) \/ Die(c)
        PROVE  run'[r] = run[r]
    BY <2>5 DEF Send, MarkContacted, SaveResponse, SaveRevenue, Suppress, MarkLead, Die, runs
  <2>6. ASSUME \/ \E v \in Venture : Tick(v) \/ Stop(v)
               \/ PrepareDiscovered \/ NextDay
               \/ \E l \in Lead : OperatorPrepare(l) \/ OperatorSuppress(l)
               \/ \E q \in Run : Approve(q) \/ Reply(q)
        PROVE  run' = run
    BY <2>6 DEF Tick, TickRecords, TickDispatches, TickPrepares, TickDiscovers, Stop,
       PrepareDiscovered, NextDay, OperatorPrepare, OperatorSuppress, Approve, Reply,
       RecordResponse, Dispatch, Prepare, OnlyCall, runs
  <2> QED
    BY <2>2, <2>3, <2>4, <2>5, <2>6 DEF Next, Continue, OperatorDispatch, PollResult
<1> QED
  BY <1>1, OutreachInvariant, PTL DEF Spec, OutcomeStands

(* With one contact per identity, who refused is left alone under every    *)
(* venture: the contact they refused counts, whether or not the process    *)
(* that recorded the refusal lived to suppress them.                       *)
THEOREM RefusedAlwaysLeftAlone ==
  ASSUME IdentityCap = 1
  PROVE  Spec => RefusedIsLeftAlone
<1>1. OutreachSafety /\ [Next]_vars =>
         [~manual => \A c \in Client :
             At(c, "idle") /\ call'[c].at = "send" => ~Refused(call'[c].row.lead)]_vars
  <2> SUFFICES ASSUME OutreachSafety, Next, ~manual, NEW c \in Client, At(c, "idle"),
                      call'[c].at = "send", Refused(call'[c].row.lead)
               PROVE  FALSE
    OBVIOUS
  <2>0. OutreachInv /\ AloneInv /\ OutreachInv' /\ AloneInv'
    BY OutreachAssumption, NextOutreach, NextAlone DEF OutreachSafety
  <2>1. c = Scheduler
    <3>1. Current(c, call[c])'
      BY <2>0 DEF AloneInv
    <3> QED
      BY <3>1 DEF Current, Client
  <2>2. ~SaveDispatched(Scheduler) /\ call[Scheduler].at = "idle"
    BY <2>1 DEF SaveDispatched, At
  <2>3. WithinLimits(call'[Scheduler].row.lead)
    BY <2>0, <2>1, <2>2, RoomSteps
  <2>4. PICK r \in Run : response[r] \in Refusal /\ Identical(r, call'[Scheduler].row.lead)
    BY <2>1 DEF Refused
  <2>5. run[r].day # NoDay
    BY <2>0, <2>4 DEF AloneInv, Dated, Refusal
  <2> DEFINE S == Contacts(call'[Scheduler].row.lead)
  <2>6. r \in S
    BY <2>4, <2>5 DEF Contacts
  <2>7. IsFiniteSet(S) /\ Cardinality(S) \in Nat /\ Cardinality(S) < 1
    BY <2>3, FewContacts, OutreachAssumption DEF WithinLimits
  <2>8. S = {}
    BY <2>7, FS_EmptySet
  <2> QED
    BY <2>6, <2>8
<1> QED
  BY <1>1, OutreachInvariant, PTL DEF Spec, RefusedIsLeftAlone

=============================================================================
