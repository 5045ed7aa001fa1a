------------------------ MODULE StepLifecycleProofs -------------------------
(***************************************************************************)
(* What a run's steps add up to over all its segments: the life cycle of   *)
(* RunLifecycle, the cap on executed steps and the meaning of the tokens   *)
(* in results, for every plan, every limit and any number of segments.     *)
(* What a step of the executor does to the rows, the status and the loop   *)
(* takes one of seven forms; the invariants are shown form by form.        *)
(***************************************************************************)
EXTENDS StepExecutionProofs

\* Before the attempts are over.
Trying == InStep \ {"handle"}

Last == rows[Len(rows)]

Awaiting == {k \in DOMAIN rows : rows[k].status = "suspended"}

Completed == {k \in DOMAIN rows : rows[k].status = "completed"}

BegunSteps == {rows[k].step : k \in DOMAIN rows}

SettledSteps == {rows[k].step : k \in {m \in DOMAIN rows : SettledRow(rows[m])}}

\* Where a segment is, its run is running.
StatusFits == pc \in InStep \cup {"plan", "loop"} => status = "running"

\* At most one row awaits an answer, and only while the run does.
OneAwaits ==
    /\ Awaiting # {} => status = "suspended"
    /\ \A k, m \in Awaiting : k = m

ResultsFit == \A k \in DOMAIN rows : rows[k].result \in {"data", "answer"} => rows[k].status = "completed"

\* The last row is the step in progress: running, until the attempts are over.
LastFits ==
    pc \in InStep =>
        /\ Last.step = cur
        /\ pc # "handle" => Last.status = "running"
        /\ pc = "handle" => /\ Last.status = "failed" /\ Last.result = fault
                            /\ fault \in {"error", "policy", "critique"}

\* What the loop passes over was settled, by this segment or an earlier one.
DoneSettled == done \subseteq SettledSteps

LifeInv == StatusFits /\ OneAwaits /\ ResultsFit /\ LastFits /\ DoneSettled

----------------------------------------------------------------------------
(* The forms. *)

Same(k) ==
    /\ rows'[k].step = rows[k].step /\ rows'[k].status = rows[k].status
    /\ rows'[k].result = rows[k].result

RowsAsBefore == Len(rows') = Len(rows) /\ \A k \in DOMAIN rows : Same(k)

\* The last row ends.
Ends(st, res) ==
    /\ Len(rows') = Len(rows) /\ \A k \in DOMAIN rows : k # Len(rows) => Same(k)
    /\ rows'[Len(rows)].step = Last.step
    /\ rows'[Len(rows)].status = st /\ rows'[Len(rows)].result = res

Moves ==
    /\ pc \in Trying /\ pc' \in Trying
    /\ RowsAsBefore
    /\ UNCHANGED <<status, done, slots, cur>>

Fails(kind) ==
    /\ pc \in Trying /\ pc' = "handle" /\ fault' = kind
    /\ Ends("failed", kind)
    /\ UNCHANGED <<status, done, slots, cur>>

EndsRun(st, res, to) ==
    /\ pc \in Trying /\ pc' = "idle"
    /\ Ends(st, res)
    /\ status' = to /\ done' = {}
    /\ UNCHANGED slots

CompletesStep ==
    /\ pc \in Trying
    /\ Ends("completed", "data")
    /\ PassStep
    /\ UNCHANGED status

PassesFailure ==
    /\ pc = "handle" /\ fault # "critique" /\ Plan[cur].onError = "continue"
    /\ PassStep
    /\ UNCHANGED <<rows, status>>

LeavesRun(to) ==
    /\ pc \in {"plan", "loop", "handle"} /\ pc' = "idle"
    /\ to = "completed" => pc = "loop" /\ Steps \subseteq done
    /\ status' = to /\ done' = {}
    /\ UNCHANGED <<rows, slots>>

Planned ==
    /\ pc = "plan" /\ pc' = "loop"
    /\ UNCHANGED <<rows, status, done, slots, cur>>

Faults == {"error", "policy", "critique"}

Form ==
    \/ Moves \/ (\E kind \in Faults : Fails(kind))
    \/ EndsRun("failed", "refused", "failed") \/ EndsRun("suspended", "none", "suspended")
    \/ CompletesStep \/ PassesFailure
    \/ (\E to \in {"failed", "suspended", "completed"} : LeavesRun(to))
    \/ Planned \/ BeginStep

LEMMA LastShape ==
    ASSUME IInv, pc \in InStep
    PROVE  /\ rows \in Seq(Row) /\ Len(rows) \in Nat /\ DOMAIN rows = 1..Len(rows)
           /\ Len(rows) \in DOMAIN rows /\ Last \in Row
BY RowShape DEF IInv, Types, Current, Last

\* set_status of the last row, of rows that are otherwise as before.
LEMMA EndedForm ==
    ASSUME IInv, pc \in InStep,
           NEW st \in {"running", "suspended", "completed", "failed"},
           NEW res \in {"none", "data", "refused", "error", "policy", "critique"},
           NEW rws \in Seq(Row), Len(rws) = Len(rows),
           \A k \in DOMAIN rows : /\ rws[k].step = rows[k].step
                                  /\ rws[k].status = rows[k].status /\ rws[k].result = rows[k].result,
           rows' = Ended(rws, st, res)
    PROVE  Ends(st, res)
<1>1. /\ DOMAIN rws = DOMAIN rows /\ DOMAIN rws = 1..Len(rws) /\ Len(rows) \in DOMAIN rows
      /\ \A k \in DOMAIN rws : rws[k] \in Row
  BY LastShape, LenProperties, ElementOfSeq
<1>2. PICK row : row = [rws[Len(rows)] EXCEPT !.status = st, !.result = res]
  OBVIOUS
<1>3. row.step = Last.step /\ row.status = st /\ row.result = res /\ row \in Row
  <2>1. PICK old : old = rws[Len(rows)]
    OBVIOUS
  <2>2. old \in Row /\ row = [old EXCEPT !.status = st, !.result = res] /\ old.step = Last.step
    BY <1>1, <1>2, <2>1 DEF Last
  <2> QED
    BY <2>2 DEF Row
<1>4. rows' = [rws EXCEPT ![Len(rows)] = row]
  BY <1>2 DEF Ended, CurrentRow
<1>5. Len(rows') = Len(rows)
  BY <1>1, <1>3, <1>4, ExceptSeq
<1>6. \A k \in DOMAIN rows : rows'[k] = IF k = Len(rows) THEN row ELSE rws[k]
  BY <1>1, <1>4
<1> QED
  BY <1>1, <1>3, <1>5, <1>6 DEF Ends, Same

LEMMA EndedLast ==
    ASSUME IInv, pc \in InStep,
           NEW st \in {"running", "suspended", "completed", "failed"},
           NEW res \in {"none", "data", "refused", "error", "policy", "critique"},
           rows' = Ended(rows, st, res)
    PROVE  Ends(st, res)
<1>1. rows \in Seq(Row)
  BY LastShape
<1> QED
  BY <1>1, EndedForm

LEMMA RaiseForm ==
    ASSUME IInv, pc \in Trying, NEW kind \in Faults, Raise(kind), UNCHANGED slots
    PROVE  Form
<1>1. pc \in InStep /\ UNCHANGED <<status, done, cur, slots>> /\ fault' = kind
  BY DEF Trying, Raise
<1>2. CASE LastAttempt
  <2>1. rows' = Ended(rows, "failed", kind) /\ pc' = "handle"
    BY <1>2 DEF Raise
  <2>2. Ends("failed", kind)
    BY <1>1, <2>1, EndedLast DEF Faults
  <2> QED
    BY <1>1, <2>1, <2>2 DEF Form, Fails
<1>3. CASE ~LastAttempt
  <2>1. UNCHANGED rows /\ pc' = "ground"
    BY <1>3 DEF Raise, BeginAttempt
  <2>2. Moves
    BY <1>1, <2>1 DEF Moves, RowsAsBefore, Same, Trying, InStep
  <2> QED
    BY <2>2 DEF Form
<1> QED
  BY <1>2, <1>3

LEMMA RefuseForm ==
    ASSUME IInv, pc \in Trying, Refuse(rows), UNCHANGED slots
    PROVE  Form
<1>1. pc \in InStep /\ rows' = Ended(rows, "failed", "refused")
  BY DEF Trying, Refuse
<1>2. Ends("failed", "refused")
  BY <1>1, EndedLast
<1>3. EndsRun("failed", "refused", "failed")
  BY <1>2 DEF EndsRun, Refuse, Leave
<1> QED
  BY <1>3 DEF Form

LEMMA EscalateForm ==
    ASSUME IInv, pc \in Trying, NEW kind, Escalate(kind), UNCHANGED slots
    PROVE  Form
<1>1. pc \in InStep /\ rows' = Ended(rows, "suspended", "none")
  BY DEF Trying, Escalate
<1>2. Ends("suspended", "none")
  BY <1>1, EndedLast
<1>3. EndsRun("suspended", "none", "suspended")
  BY <1>2 DEF EndsRun, Escalate, Leave
<1> QED
  BY <1>3 DEF Form

\* Within the attempts, with rows whose other columns are written.
LEMMA MoveForm ==
    ASSUME pc \in Trying, pc' \in Trying, RowsAsBefore, UNCHANGED <<status, done, slots, cur>>
    PROVE  Form
BY DEF Form, Moves

LEMMA SameRows == ASSUME UNCHANGED rows PROVE RowsAsBefore
BY DEF RowsAsBefore, Same

\* The last row is replaced by one with the same step, status and result.
LEMMA LastRewritten ==
    ASSUME IInv, pc \in InStep, NEW row, rows' = [rows EXCEPT ![Len(rows)] = row],
           row.step = Last.step, row.status = Last.status, row.result = Last.result
    PROVE  RowsAsBefore
<1> DEFINE S == Row \cup {row}
<1>1. rows \in Seq(Row) /\ Len(rows) \in 1..Len(rows) /\ DOMAIN rows = 1..Len(rows)
  BY LastShape
<1>2. rows \in Seq(S) /\ row \in S
  BY <1>1, SeqMonotonic
<1>3. Len(rows') = Len(rows)
  BY <1>1, <1>2, ExceptSeq
<1>4. \A k \in DOMAIN rows : rows'[k] = IF k = Len(rows) THEN row ELSE rows[k]
  BY <1>1
<1> QED
  BY <1>3, <1>4 DEF RowsAsBefore, Same, Last

LEMMA LoopForm ==
    ASSUME IInv, PlanRun \/ CompleteRun \/ FailBeforeStep
    PROVE  Form
<1>1. CASE PlanRun
  <2>1. CASE pc' = "loop" /\ UNCHANGED <<status, loopVars>>
    <3>1. Planned
      BY <1>1, <2>1 DEF PlanRun, Planned, loopVars
    <3> QED
      BY <3>1 DEF Form
  <2>2. CASE Leave("failed")
    <3>1. LeavesRun("failed")
      BY <1>1, <2>2 DEF PlanRun, LeavesRun, Leave
    <3> QED
      BY <3>1 DEF Form
  <2> QED
    BY <1>1, <2>1, <2>2 DEF PlanRun
<1>2. CASE CompleteRun
  <2>1. LeavesRun("completed")
    BY <1>2 DEF CompleteRun, LeavesRun, Leave, policyVars
  <2> QED
    BY <2>1 DEF Form
<1>3. CASE FailBeforeStep
  <2>1. LeavesRun("failed")
    BY <1>3 DEF FailBeforeStep, LeavesRun, Leave, policyVars
  <2> QED
    BY <2>1 DEF Form
<1> QED
  BY <1>1, <1>2, <1>3

LEMMA UnproposedForm == ASSUME IInv, Unproposed PROVE Form
<1>1. pc \in Trying /\ UNCHANGED slots
  BY DEF Unproposed, Trying, InStep, policyVars
<1>2. CASE Refuse(rows)
  BY <1>1, <1>2, RefuseForm
<1>3. CASE Raise("error")
  BY <1>1, <1>3, RaiseForm DEF Faults
<1> QED
  BY <1>2, <1>3 DEF Unproposed

LEMMA ProposeForm == ASSUME IInv, Propose PROVE Form
<1>1. pc \in Trying /\ UNCHANGED slots
  BY DEF Propose, Trying, InStep
<1>2. CASE Refuse(rows)
  BY <1>1, <1>2, RefuseForm
<1>3. CASE pc' = "verify" /\ UNCHANGED <<status, rows, loopVars>>
  <2>1. RowsAsBefore
    BY <1>3, SameRows
  <2> QED
    BY <1>1, <1>3, <2>1, MoveForm DEF Trying, InStep, loopVars
<1> QED
  BY <1>2, <1>3 DEF Propose

LEMMA ProceedForm ==
    ASSUME IInv, pc \in Trying, NEW by \in {"verifier", "human"}, Proceed(by), UNCHANGED slots
    PROVE  Form
<1>1. pc \in InStep /\ pc' \in Trying /\ call.step \in Steps /\ UNCHANGED <<status, done, cur>>
  BY DEF Trying, InStep, Proceed, IInv, Types, CallRecord, loopVars
<1>2. Last \in Row
  BY <1>1, LastShape
<1>3. PICK row : row = [Last EXCEPT !.by = by, !.as = call.step]
  OBVIOUS
<1>4. row \in Row /\ row.step = Last.step /\ row.status = Last.status /\ row.result = Last.result
  BY <1>1, <1>2, <1>3 DEF Row
<1>5. rows' = [rows EXCEPT ![Len(rows)] = row]
  BY <1>3 DEF Proceed, CurrentRow, Last
<1>6. RowsAsBefore
  BY <1>1, <1>4, <1>5, LastRewritten
<1> QED
  BY <1>1, <1>6, MoveForm

LEMMA VerifyForm == ASSUME IInv, Verify PROVE Form
<1>1. pc \in Trying /\ UNCHANGED slots
  BY DEF Verify, Trying, InStep
<1>2. CASE Raise("error") \/ Raise("critique")
  BY <1>1, <1>2, RaiseForm DEF Faults
<1>3. CASE Proceed("verifier") \/ Proceed("human")
  BY <1>1, <1>3, ProceedForm
<1>4. CASE Escalate("pre")
  BY <1>1, <1>4, EscalateForm
<1>5. CASE pc' = "replan" /\ UNCHANGED <<status, escalated, rows, loopVars>>
  <2>1. RowsAsBefore
    BY <1>5, SameRows
  <2> QED
    BY <1>1, <1>5, <2>1, MoveForm DEF Trying, InStep, loopVars
<1> QED
  BY <1>2, <1>3, <1>4, <1>5 DEF Verify

LEMMA ReplanForm == ASSUME IInv, Replan PROVE Form
<1>1. pc \in Trying /\ UNCHANGED slots
  BY DEF Replan, Trying, InStep
<1>2. CASE Raise("error") \/ Raise("critique")
  BY <1>1, <1>2, RaiseForm DEF Faults
<1>3. CASE Refuse(rows)
  BY <1>1, <1>3, RefuseForm
<1>4. CASE pc' = "ground" /\ UNCHANGED <<status, rows, done, cur>>
  <2>1. RowsAsBefore
    BY <1>4, SameRows
  <2> QED
    BY <1>1, <1>4, <2>1, MoveForm DEF Trying, InStep
<1> QED
  BY <1>2, <1>3, <1>4 DEF Replan

LEMMA RefuseTokensForm == ASSUME IInv, RefuseTokens PROVE Form
<1>1. pc \in Trying /\ UNCHANGED slots /\ Raise("policy")
  BY DEF RefuseTokens, Trying, InStep, policyVars
<1> QED
  BY <1>1, RaiseForm DEF Faults

LEMMA DispatchForm == ASSUME IInv, Dispatch PROVE Form
<1>1. pc \in Trying /\ pc \in InStep /\ pc' \in Trying /\ UNCHANGED <<status, done, slots, cur>>
  BY DEF Dispatch, Trying, InStep, loopVars
<1>2. Last \in Row
  BY <1>1, LastShape
<1>3. PICK row : row = [Last EXCEPT !.sent = Sent(vault, Class[call.tool], Argument),
                                    !.tool = call.tool, !.path = call.allowed]
  OBVIOUS
<1>4. row.step = Last.step /\ row.status = Last.status /\ row.result = Last.result
  BY <1>2, <1>3 DEF Row
<1>5. rows' = [rows EXCEPT ![Len(rows)] = row]
  BY <1>3 DEF Dispatch, CurrentRow, Last
<1>6. RowsAsBefore
  BY <1>1, <1>4, <1>5, LastRewritten
<1> QED
  BY <1>1, <1>6, MoveForm

LEMMA ToolReturnsForm == ASSUME IInv, ToolReturns PROVE Form
<1>1. pc \in Trying /\ pc \in InStep /\ UNCHANGED slots
  BY DEF ToolReturns, Trying, InStep
<1>2. CASE Raise("error")
  BY <1>1, <1>2, RaiseForm DEF Faults
<1>3. ASSUME NEW u \in 0..MaxToolCost, NEW k \in RowsOf(call.step),
             \/ Refuse(Charged(k, u))
             \/ pc' = "critique" /\ rows' = Charged(k, u) /\ UNCHANGED <<status, loopVars>>
      PROVE  Form
  <2>1. RowsPart /\ AtStep /\ k \in DOMAIN rows /\ u \in Nat
    BY <1>1, RowsPartOf, OvershootShape DEF RowsOf
  <2>2. PICK new : new = Charged(k, u)
    OBVIOUS
  <2>3. /\ new \in Seq(Row) /\ Len(new) = Len(rows)
        /\ \A m \in DOMAIN rows : new[m] = [rows[m] EXCEPT !.tokens = new[m].tokens]
    BY <2>1, <2>2, ChargedShape
  <2>4. \A m \in DOMAIN rows : /\ new[m].step = rows[m].step
                               /\ new[m].status = rows[m].status /\ new[m].result = rows[m].result
    BY <1>1, <2>3, RowShape DEF Row, IInv, Types
  <2>5. CASE Refuse(new)
    <3>1. rows' = Ended(new, "failed", "refused")
      BY <2>5 DEF Refuse
    <3>2. Ends("failed", "refused")
      BY <1>1, <2>3, <2>4, <3>1, EndedForm
    <3>3. EndsRun("failed", "refused", "failed")
      BY <1>1, <2>5, <3>2 DEF EndsRun, Refuse, Leave
    <3> QED
      BY <3>3 DEF Form
  <2>6. CASE pc' = "critique" /\ rows' = new /\ UNCHANGED <<status, loopVars>>
    <3>1. RowsAsBefore
      BY <2>3, <2>4, <2>6 DEF RowsAsBefore, Same
    <3> QED
      BY <1>1, <2>6, <3>1, MoveForm DEF Trying, InStep, loopVars
  <2> QED
    BY <1>3, <2>2, <2>5, <2>6
<1> QED
  BY <1>2, <1>3 DEF ToolReturns

LEMMA CritiqueForm == ASSUME IInv, Critique PROVE Form
<1>1. pc \in Trying /\ pc \in InStep
  BY DEF Critique, Trying, InStep
<1>2. CASE (Raise("error") \/ Raise("critique")) /\ UNCHANGED slots
  BY <1>1, <1>2, RaiseForm DEF Faults
<1>3. CASE Escalate("post") /\ UNCHANGED slots
  BY <1>1, <1>3, EscalateForm
<1>4. ASSUME NEW o, rows' = [Ended(rows, "completed", "data") EXCEPT ![CurrentRow].out = o],
             PassStep, UNCHANGED status
      PROVE  Form
  <2>1. rows \in Seq(Row) /\ DOMAIN rows = 1..Len(rows) /\ Len(rows) \in 1..Len(rows) /\ Last \in Row
    BY <1>1, LastShape
  <2>2. PICK row : row = [Last EXCEPT !.status = "completed", !.result = "data", !.out = o]
    OBVIOUS
  <2>3. row.step = Last.step /\ row.status = "completed" /\ row.result = "data"
    BY <2>1, <2>2 DEF Row
  <2>4. rows' = [rows EXCEPT ![Len(rows)] = row]
    BY <1>4, <2>1, <2>2 DEF Ended, CurrentRow, Last
  <2>5. Len(rows') = Len(rows)
    <3> DEFINE S == Row \cup {row}
    <3>1. rows \in Seq(S) /\ row \in S
      BY <2>1, SeqMonotonic
    <3> QED
      BY <2>1, <2>4, <3>1, ExceptSeq
  <2>6. \A k \in DOMAIN rows : rows'[k] = IF k = Len(rows) THEN row ELSE rows[k]
    BY <2>1, <2>4
  <2>7. Ends("completed", "data")
    BY <2>1, <2>3, <2>5, <2>6 DEF Ends, Same, Last
  <2>8. CompletesStep
    BY <1>1, <1>4, <2>7 DEF CompletesStep
  <2> QED
    BY <2>8 DEF Form
<1> QED
  BY <1>2, <1>3, <1>4 DEF Critique

LEMMA HandleForm == ASSUME IInv, Handle PROVE Form
<1>1. pc = "handle" /\ UNCHANGED rows
  BY DEF Handle
<1>2. ASSUME NEW to \in {"failed", "suspended"}, Leave(to), UNCHANGED slots
      PROVE  Form
  <2>1. LeavesRun(to)
    BY <1>1, <1>2 DEF LeavesRun, Leave
  <2> QED
    BY <2>1 DEF Form
<1>3. CASE fault # "critique" /\ Plan[cur].onError = "continue" /\ PassStep /\ UNCHANGED status
  <2>1. PassesFailure
    BY <1>1, <1>3 DEF PassesFailure
  <2> QED
    BY <2>1 DEF Form
<1> QED
  BY <1>2, <1>3 DEF Handle

LEMMA SegmentForm == ASSUME IInv, SegmentStep PROVE Form
<1>1. CASE BeginStep
  BY <1>1 DEF Form
<1> QED
  BY <1>1, LoopForm, UnproposedForm, ProposeForm, VerifyForm, ReplanForm, RefuseTokensForm,
     DispatchForm, ToolReturnsForm, CritiqueForm, HandleForm DEF SegmentStep

----------------------------------------------------------------------------
(* What a change of the rows makes of the steps begun, completed, settled and
   suspended. *)

LEMMA SettledStepsShape ==
    ASSUME NEW j
    PROVE  j \in SettledSteps <=> \E k \in DOMAIN rows : SettledRow(rows[k]) /\ rows[k].step = j
BY DEF SettledSteps

QueriesKept ==
    /\ Awaiting' = Awaiting /\ Completed' = Completed
    /\ BegunSteps' = BegunSteps /\ SettledSteps' = SettledSteps

LEMMA DomainsKept ==
    ASSUME IInv, IInv', Len(rows') = Len(rows)
    PROVE  /\ DOMAIN rows' = DOMAIN rows /\ DOMAIN rows = 1..Len(rows) /\ Len(rows) \in Nat
           /\ \A k \in DOMAIN rows : rows[k] \in Row
BY LenProperties, ElementOfSeq DEF IInv, Types

LEMMA QueriesBefore == ASSUME IInv, IInv', RowsAsBefore PROVE QueriesKept
<1>1. DOMAIN rows' = DOMAIN rows /\ \A k \in DOMAIN rows : Same(k)
  BY DomainsKept DEF RowsAsBefore
<1>2. \A k \in DOMAIN rows : SettledRow(rows'[k]) <=> SettledRow(rows[k])
  BY <1>1 DEF Same, SettledRow
<1>3. Awaiting' = Awaiting
  BY <1>1 DEF Same, Awaiting
<1>4. Completed' = Completed
  BY <1>1 DEF Same, Completed
<1>5. BegunSteps' = BegunSteps
  BY <1>1 DEF Same, BegunSteps
<1>6. SettledSteps' = SettledSteps
  BY <1>1, <1>2 DEF Same, SettledSteps
<1> QED
  BY <1>3, <1>4, <1>5, <1>6 DEF QueriesKept

Settles(st, res, j) ==
    \/ st = "completed"
    \/ st = "failed" /\ res \in {"error", "policy"} /\ Plan[j].onError = "continue"

LEMMA QueriesEnd ==
    ASSUME IInv, IInv', pc \in InStep, Last.status = "running", NEW st, NEW res, Ends(st, res)
    PROVE  /\ Awaiting' = IF st = "suspended" THEN Awaiting \cup {Len(rows)} ELSE Awaiting
           /\ Completed' = IF st = "completed" THEN Completed \cup {Len(rows)} ELSE Completed
           /\ BegunSteps' = BegunSteps
           /\ SettledSteps' =
                 IF Settles(st, res, Last.step) THEN SettledSteps \cup {Last.step} ELSE SettledSteps
           /\ Len(rows) \notin Completed /\ Last.step \in BegunSteps
<1>1. /\ DOMAIN rows' = DOMAIN rows /\ DOMAIN rows = 1..Len(rows) /\ Len(rows) \in DOMAIN rows
      /\ \A k \in DOMAIN rows : k # Len(rows) => Same(k)
      /\ rows'[Len(rows)].step = Last.step /\ rows'[Len(rows)].status = st
      /\ rows'[Len(rows)].result = res
  BY DomainsKept, LastShape DEF Ends
<1>2. \A k \in DOMAIN rows : k # Len(rows) => (SettledRow(rows'[k]) <=> SettledRow(rows[k]))
  BY <1>1 DEF Same, SettledRow
<1>3. ~ SettledRow(rows[Len(rows)])
  BY DEF SettledRow, Last
<1>4. SettledRow(rows'[Len(rows)]) <=> Settles(st, res, Last.step)
  BY <1>1 DEF SettledRow, Settles
<1>5. Awaiting' = IF st = "suspended" THEN Awaiting \cup {Len(rows)} ELSE Awaiting
  BY <1>1 DEF Awaiting, Same, Last
<1>6. Completed' = IF st = "completed" THEN Completed \cup {Len(rows)} ELSE Completed
  BY <1>1 DEF Completed, Same, Last
<1>7. BegunSteps' = BegunSteps /\ Last.step \in BegunSteps
  <2>1. \A k \in DOMAIN rows : rows'[k].step = rows[k].step
    BY <1>1 DEF Same, Last
  <2> QED
    BY <1>1, <2>1 DEF BegunSteps, Last
<1>8. CASE Settles(st, res, Last.step)
  <2>1. ASSUME NEW j \in SettledSteps' PROVE j \in SettledSteps \cup {Last.step}
    <3>1. PICK k \in DOMAIN rows' : SettledRow(rows'[k]) /\ rows'[k].step = j
      BY <2>1 DEF SettledSteps
    <3> QED
      BY <1>1, <1>2, <3>1 DEF SettledSteps, Same
  <2>2. ASSUME NEW j \in SettledSteps PROVE j \in SettledSteps'
    <3>1. PICK k \in DOMAIN rows : SettledRow(rows[k]) /\ rows[k].step = j
      BY <2>2 DEF SettledSteps
    <3> QED
      BY <1>1, <1>2, <1>3, <3>1 DEF SettledSteps, Same
  <2>3. Last.step \in SettledSteps'
    BY <1>1, <1>4, <1>8 DEF SettledSteps
  <2>4. SettledSteps' = SettledSteps \cup {Last.step}
    BY <2>1, <2>2, <2>3
  <2> QED
    BY <1>1, <1>5, <1>6, <1>7, <1>8, <2>4 DEF Completed, Last
<1>9. CASE ~ Settles(st, res, Last.step)
  <2>1. ASSUME NEW j \in SettledSteps' PROVE j \in SettledSteps
    <3>1. PICK k \in DOMAIN rows' : SettledRow(rows'[k]) /\ rows'[k].step = j
      BY <2>1 DEF SettledSteps
    <3> QED
      BY <1>1, <1>2, <1>4, <1>9, <3>1 DEF SettledSteps, Same
  <2>2. ASSUME NEW j \in SettledSteps PROVE j \in SettledSteps'
    <3>1. PICK k \in DOMAIN rows : SettledRow(rows[k]) /\ rows[k].step = j
      BY <2>2 DEF SettledSteps
    <3> QED
      BY <1>1, <1>2, <1>3, <3>1 DEF SettledSteps, Same
  <2>3. SettledSteps' = SettledSteps
    BY <2>1, <2>2
  <2> QED
    BY <1>1, <1>5, <1>6, <1>7, <1>9, <2>3 DEF Completed, Last
<1> QED
  BY <1>8, <1>9

LEMMA AppendShape ==
    ASSUME IInv, IInv', NEW j \in Steps, rows' = Append(rows, NewRow(j))
    PROVE  /\ DOMAIN rows = 1..Len(rows) /\ Len(rows) \in Nat
           /\ Len(rows') = Len(rows) + 1 /\ DOMAIN rows' = DOMAIN rows \cup {Len(rows) + 1}
           /\ Len(rows) + 1 \notin DOMAIN rows
           /\ \A k \in DOMAIN rows : rows'[k] = rows[k]
           /\ rows'[Len(rows) + 1].step = j /\ rows'[Len(rows) + 1].status = "running"
           /\ rows'[Len(rows) + 1].result = "none"
<1>1. rows \in Seq(Row) /\ rows' \in Seq(Row)
  BY DEF IInv, Types
<1>2. DOMAIN rows = 1..Len(rows) /\ Len(rows) \in Nat /\ DOMAIN rows' = 1..Len(rows')
  BY <1>1, LenProperties
<1>3. PICK row : row = NewRow(j)
  OBVIOUS
<1>4. row.step = j /\ row.status = "running" /\ row.result = "none"
  BY <1>3 DEF NewRow
<1> DEFINE S == Row \cup {row}
<1>5. rows \in Seq(S) /\ row \in S /\ rows' = Append(rows, row)
  BY <1>1, <1>3, SeqMonotonic
<1> HIDE DEF S
<1>6. /\ Len(rows') = Len(rows) + 1
      /\ \A k \in 1..Len(rows) : rows'[k] = rows[k]
      /\ rows'[Len(rows) + 1] = row
  BY <1>5, AppendProperties
<1> QED
  BY <1>2, <1>4, <1>6

LEMMA QueriesBegin ==
    ASSUME IInv, IInv', NEW j \in Steps, rows' = Append(rows, NewRow(j))
    PROVE  /\ Awaiting' = Awaiting /\ Completed' = Completed
           /\ BegunSteps' = BegunSteps \cup {j} /\ SettledSteps' = SettledSteps
<1>1. /\ DOMAIN rows' = DOMAIN rows \cup {Len(rows) + 1} /\ Len(rows) + 1 \notin DOMAIN rows
      /\ \A k \in DOMAIN rows : rows'[k] = rows[k]
      /\ rows'[Len(rows) + 1].step = j /\ rows'[Len(rows) + 1].status = "running"
  BY AppendShape
<1>2. ~ SettledRow(rows'[Len(rows) + 1]) /\ \A k \in DOMAIN rows : SettledRow(rows'[k]) <=> SettledRow(rows[k])
  BY <1>1 DEF SettledRow
<1>3. Awaiting' = Awaiting
  BY <1>1 DEF Awaiting
<1>4. Completed' = Completed
  BY <1>1 DEF Completed
<1>5. BegunSteps' = BegunSteps \cup {j}
  BY <1>1 DEF BegunSteps
<1>6. ASSUME NEW i PROVE i \in SettledSteps' <=> i \in SettledSteps
  <2>1. i \in SettledSteps' <=> \E k \in DOMAIN rows' : SettledRow(rows'[k]) /\ rows'[k].step = i
    BY DEF SettledSteps
  <2> QED
    BY <1>1, <1>2, <2>1, SettledStepsShape
<1>7. SettledSteps' = SettledSteps
  BY <1>6
<1> QED
  BY <1>3, <1>4, <1>5, <1>7

----------------------------------------------------------------------------
(* Every form keeps LifeInv. *)

LEMMA ResultsOfEnds ==
    ASSUME IInv, IInv', ResultsFit, pc \in InStep, NEW st, NEW res, Ends(st, res),
           res \in {"data", "answer"} => st = "completed"
    PROVE  ResultsFit'
<1>1. DOMAIN rows' = DOMAIN rows
  BY DomainsKept DEF Ends
<1> QED
  BY <1>1 DEF ResultsFit, Ends, Same

LEMMA LifeOfMoves == ASSUME IInv, IInv', LifeInv, Moves PROVE LifeInv'
<1>1. /\ QueriesKept /\ DOMAIN rows' = DOMAIN rows /\ Len(rows') = Len(rows)
      /\ \A k \in DOMAIN rows : Same(k)
  BY QueriesBefore, DomainsKept DEF Moves, RowsAsBefore
<1>2. /\ pc \in InStep /\ pc # "handle" /\ pc' \in InStep /\ pc' # "handle"
      /\ UNCHANGED <<status, done, cur>>
  BY DEF Moves, Trying
<1>3. StatusFits'
  BY <1>2 DEF LifeInv, StatusFits
<1>4. OneAwaits'
  BY <1>1, <1>2 DEF LifeInv, OneAwaits, QueriesKept
<1>5. ResultsFit'
  BY <1>1 DEF LifeInv, ResultsFit, Same
<1>6. LastFits'
  <2>1. Len(rows) \in DOMAIN rows
    BY <1>2, LastShape
  <2> QED
    BY <1>1, <1>2, <2>1 DEF LifeInv, LastFits, Last, Same
<1>7. DoneSettled'
  BY <1>1, <1>2 DEF LifeInv, DoneSettled, QueriesKept
<1> QED
  BY <1>3, <1>4, <1>5, <1>6, <1>7 DEF LifeInv

LEMMA TryingShape ==
    ASSUME LifeInv, pc \in Trying
    PROVE  /\ pc \in InStep /\ status = "running" /\ Last.status = "running" /\ Last.step = cur
           /\ Awaiting = {}
BY DEF LifeInv, StatusFits, OneAwaits, LastFits, Trying

LEMMA LifeOfFails ==
    ASSUME IInv, IInv', LifeInv, NEW kind \in Faults, Fails(kind)
    PROVE  LifeInv'
<1>1. /\ pc \in Trying /\ pc' = "handle" /\ fault' = kind /\ Ends("failed", kind)
      /\ UNCHANGED <<status, done, cur>>
  BY DEF Fails
<1>2. /\ pc \in InStep /\ status = "running" /\ Last.status = "running" /\ Last.step = cur
      /\ Awaiting = {}
  BY <1>1, TryingShape
<1>3. Awaiting' = {} /\ SettledSteps \subseteq SettledSteps'
  BY <1>1, <1>2, QueriesEnd
<1>4. ResultsFit'
  BY <1>1, <1>2, ResultsOfEnds DEF LifeInv, Faults
<1>5. LastFits'
  BY <1>1, <1>2 DEF LastFits, Last, Ends, Faults
<1> QED
  BY <1>1, <1>2, <1>3, <1>4, <1>5 DEF LifeInv, StatusFits, OneAwaits, DoneSettled

LEMMA LifeOfEndsRun ==
    ASSUME IInv, IInv', LifeInv, NEW st \in {"failed", "suspended"}, NEW res \in {"refused", "none"},
           EndsRun(st, res, st)
    PROVE  LifeInv'
<1>1. pc \in Trying /\ pc' = "idle" /\ Ends(st, res) /\ status' = st /\ done' = {}
  BY DEF EndsRun
<1>2. pc \in InStep /\ Last.status = "running" /\ Awaiting = {}
  BY <1>1, TryingShape
<1>3. Awaiting' = IF st = "suspended" THEN {Len(rows)} ELSE {}
  BY <1>1, <1>2, QueriesEnd
<1>4. ResultsFit'
  BY <1>1, <1>2, ResultsOfEnds DEF LifeInv
<1>5. OneAwaits'
  BY <1>1, <1>3 DEF OneAwaits
<1> QED
  BY <1>1, <1>4, <1>5 DEF LifeInv, StatusFits, LastFits, DoneSettled, InStep

LEMMA LifeOfCompletesStep == ASSUME IInv, IInv', LifeInv, CompletesStep PROVE LifeInv'
<1>1. /\ pc \in Trying /\ pc' = "loop" /\ Ends("completed", "data") /\ UNCHANGED status
      /\ done' = done \cup {cur}
  BY DEF CompletesStep, PassStep
<1>2. /\ pc \in InStep /\ status = "running" /\ Last.status = "running" /\ Last.step = cur
      /\ Awaiting = {}
  BY <1>1, TryingShape
<1>3. Awaiting' = {} /\ SettledSteps' = SettledSteps \cup {cur}
  BY <1>1, <1>2, QueriesEnd DEF Settles
<1>4. ResultsFit'
  BY <1>1, <1>2, ResultsOfEnds DEF LifeInv
<1> QED
  BY <1>1, <1>2, <1>3, <1>4 DEF LifeInv, StatusFits, OneAwaits, LastFits, DoneSettled, InStep

LEMMA UnchangedRows ==
    ASSUME UNCHANGED rows
    PROVE  /\ QueriesKept
           /\ ResultsFit => ResultsFit'
BY DEF QueriesKept, Awaiting, Completed, BegunSteps, SettledSteps, SettledRow, ResultsFit

\* A failure that error_handling passes over is settled.
LEMMA PassedIsSettled ==
    ASSUME IInv, LifeInv, pc = "handle", fault # "critique", Plan[cur].onError = "continue"
    PROVE  cur \in SettledSteps /\ status = "running"
<1>1. /\ Last.step = cur /\ Last.status = "failed" /\ Last.result \in {"error", "policy"}
      /\ status = "running" /\ pc \in InStep
  BY DEF LifeInv, LastFits, StatusFits, InStep
<1>2. Len(rows) \in DOMAIN rows
  BY <1>1, LastShape
<1>3. SettledRow(rows[Len(rows)])
  BY <1>1 DEF SettledRow, Last
<1> QED
  BY <1>1, <1>2, <1>3 DEF SettledSteps, Last

LEMMA LifeOfPassesFailure == ASSUME IInv, IInv', LifeInv, PassesFailure PROVE LifeInv'
<1>1. /\ pc = "handle" /\ pc' = "loop" /\ UNCHANGED <<rows, status>>
      /\ done' = done \cup {cur}
  BY DEF PassesFailure, PassStep
<1>2. cur \in SettledSteps /\ status = "running"
  BY PassedIsSettled DEF PassesFailure
<1>3. QueriesKept /\ ResultsFit'
  BY <1>1, UnchangedRows DEF LifeInv
<1> QED
  BY <1>1, <1>2, <1>3 DEF LifeInv, StatusFits, OneAwaits, LastFits, DoneSettled, InStep, QueriesKept

LEMMA LifeOfLeavesRun ==
    ASSUME IInv, IInv', LifeInv, NEW to \in {"failed", "suspended", "completed"}, LeavesRun(to)
    PROVE  LifeInv'
<1>1. /\ pc \in {"plan", "loop", "handle"} /\ pc' = "idle" /\ UNCHANGED rows /\ status' = to
      /\ done' = {}
  BY DEF LeavesRun
<1>2. QueriesKept /\ ResultsFit'
  BY <1>1, UnchangedRows DEF LifeInv
<1>3. Awaiting = {}
  BY <1>1 DEF LifeInv, StatusFits, OneAwaits, InStep
<1> QED
  BY <1>1, <1>2, <1>3 DEF LifeInv, StatusFits, OneAwaits, LastFits, DoneSettled, InStep, QueriesKept

LEMMA LifeOfPlanned == ASSUME IInv, IInv', LifeInv, Planned PROVE LifeInv'
<1>1. pc = "plan" /\ pc' = "loop" /\ UNCHANGED <<rows, status, done>>
  BY DEF Planned
<1>2. QueriesKept /\ ResultsFit'
  BY <1>1, UnchangedRows DEF LifeInv
<1> QED
  BY <1>1, <1>2 DEF LifeInv, StatusFits, OneAwaits, LastFits, DoneSettled, InStep, QueriesKept

LEMMA LifeOfBeginStep == ASSUME IInv, IInv', LifeInv, BeginStep PROVE LifeInv'
<1>1. PICK j \in Steps : rows' = Append(rows, NewRow(j)) /\ cur' = j /\ BeginAttempt(j)
  BY DEF BeginStep
<1>2. pc = "loop" /\ pc' = "ground" /\ UNCHANGED <<status, done>>
  BY <1>1 DEF BeginStep, BeginAttempt
<1>3. Awaiting' = Awaiting /\ SettledSteps' = SettledSteps
  BY <1>1, QueriesBegin
<1>4. /\ Len(rows') = Len(rows) + 1 /\ DOMAIN rows' = DOMAIN rows \cup {Len(rows) + 1}
      /\ \A k \in DOMAIN rows : rows'[k] = rows[k]
      /\ rows'[Len(rows) + 1].step = j /\ rows'[Len(rows) + 1].status = "running"
      /\ rows'[Len(rows) + 1].result = "none"
  BY <1>1, AppendShape
<1>5. ResultsFit'
  BY <1>4 DEF LifeInv, ResultsFit
<1>6. LastFits'
  BY <1>1, <1>2, <1>4 DEF LastFits, Last
<1> QED
  BY <1>2, <1>3, <1>5, <1>6 DEF LifeInv, StatusFits, OneAwaits, DoneSettled

LEMMA LifeOfForm == ASSUME IInv, IInv', LifeInv, Form PROVE LifeInv'
BY LifeOfMoves, LifeOfFails, LifeOfEndsRun, LifeOfCompletesStep, LifeOfPassesFailure,
   LifeOfLeavesRun, LifeOfPlanned, LifeOfBeginStep DEF Form

----------------------------------------------------------------------------
(* Between segments. *)

\* The rows that an answer completes.
Answers(approved) == IF approved /\ escalated # "pre" THEN Awaiting ELSE {}

LEMMA AnsweredShape ==
    ASSUME IInv, NEW approved \in BOOLEAN, rows' = Answered(rows, approved)
    PROVE  /\ DOMAIN rows' = DOMAIN rows
           /\ \A k \in DOMAIN rows \ Awaiting : rows'[k] = rows[k]
           /\ \A k \in Awaiting :
                 /\ rows'[k].step = rows[k].step
                 /\ k \in Answers(approved) =>
                       rows'[k].status = "completed" /\ rows'[k].result = "answer"
                 /\ k \notin Answers(approved) =>
                       rows'[k].status = "failed" /\ rows'[k].result \in {"rejected", "approval"}
<1>1. \A k \in DOMAIN rows : rows[k] \in Row
  BY RowShape DEF IInv, Types
<1>2. DOMAIN rows' = DOMAIN rows
  BY DEF Answered
<1>3. \A k \in DOMAIN rows \ Awaiting : rows'[k] = rows[k]
  BY DEF Answered, Awaiting
<1>4. ASSUME NEW k \in Awaiting
      PROVE  /\ rows'[k].step = rows[k].step
             /\ k \in Answers(approved) =>
                   rows'[k].status = "completed" /\ rows'[k].result = "answer"
             /\ k \notin Answers(approved) =>
                   rows'[k].status = "failed" /\ rows'[k].result \in {"rejected", "approval"}
  <2>1. PICK row : row = rows[k]
    OBVIOUS
  <2>2. row \in Row /\ k \in DOMAIN rows /\ row.status = "suspended"
    BY <1>1, <2>1 DEF Awaiting
  <2>3. rows'[k] = IF ~approved THEN [row EXCEPT !.status = "failed", !.result = "rejected"]
                   ELSE IF escalated = "pre" THEN [row EXCEPT !.status = "failed", !.result = "approval"]
                   ELSE [row EXCEPT !.status = "completed", !.result = "answer"]
    BY <2>1, <2>2 DEF Answered
  <2>4. k \in Answers(approved) <=> (approved /\ escalated # "pre")
    BY DEF Answers
  <2> QED
    BY <2>1, <2>2, <2>3, <2>4 DEF Row
<1> QED
  BY <1>2, <1>3, <1>4

LEMMA QueriesAnswer ==
    ASSUME IInv, NEW approved \in BOOLEAN, rows' = Answered(rows, approved)
    PROVE  /\ Awaiting' = {} /\ Completed' = Completed \cup Answers(approved)
           /\ BegunSteps' = BegunSteps
           /\ SettledSteps' = SettledSteps \cup {rows[k].step : k \in Answers(approved)}
           /\ ResultsFit => ResultsFit'
<1>1. /\ DOMAIN rows' = DOMAIN rows /\ Awaiting \subseteq DOMAIN rows
      /\ Answers(approved) \subseteq Awaiting
      /\ \A k \in DOMAIN rows \ Awaiting : rows'[k] = rows[k]
      /\ \A k \in DOMAIN rows : rows'[k].step = rows[k].step
      /\ \A k \in Answers(approved) : rows'[k].status = "completed" /\ rows'[k].result = "answer"
      /\ \A k \in Awaiting \ Answers(approved) :
            rows'[k].status = "failed" /\ rows'[k].result \in {"rejected", "approval"}
  BY AnsweredShape DEF Awaiting, Answers
<1>2. Awaiting' = {}
  BY <1>1 DEF Awaiting
<1>3. Completed' = Completed \cup Answers(approved)
  <2>1. \A k \in Awaiting : k \notin Completed
    BY DEF Completed, Awaiting
  <2>2. \A k \in DOMAIN rows : k \in Completed' <=> k \in Completed \cup Answers(approved)
    BY <1>1, <2>1 DEF Completed
  <2>3. Completed' \subseteq DOMAIN rows /\ Completed \subseteq DOMAIN rows
    BY <1>1 DEF Completed
  <2> QED
    BY <1>1, <2>2, <2>3
<1>4. BegunSteps' = BegunSteps
  BY <1>1 DEF BegunSteps
<1>5. /\ \A k \in DOMAIN rows \ Awaiting : SettledRow(rows'[k]) <=> SettledRow(rows[k])
      /\ \A k \in Awaiting : ~ SettledRow(rows[k])
      /\ \A k \in Awaiting : SettledRow(rows'[k]) <=> k \in Answers(approved)
  BY <1>1 DEF SettledRow, Awaiting
<1>6. ASSUME NEW j
      PROVE  j \in SettledSteps' <=> j \in SettledSteps \cup {rows[k].step : k \in Answers(approved)}
  <2>1. j \in SettledSteps' <=> \E k \in DOMAIN rows' : SettledRow(rows'[k]) /\ rows'[k].step = j
    BY DEF SettledSteps
  <2> QED
    BY <1>1, <1>5, <2>1, SettledStepsShape
<1>7. ResultsFit => ResultsFit'
  BY <1>1 DEF ResultsFit
<1> QED
  BY <1>2, <1>3, <1>4, <1>6, <1>7

LEMMA RestoredIsSettled ==
    ASSUME LifeInv
    PROVE  LatestWith({"data", "answer"}) \subseteq SettledSteps
BY DEF LatestWith, SettledSteps, SettledRow, LifeInv, ResultsFit

LEMMA LifeOfStart == ASSUME IInv, IInv', LifeInv, Start PROVE LifeInv'
<1>1. /\ status = "queued" /\ status' = "running" /\ pc' = "plan" /\ UNCHANGED rows
      /\ done' = LatestWith({"data", "answer"})
  BY DEF Start
<1>2. QueriesKept /\ ResultsFit' /\ Awaiting = {} /\ done' \subseteq SettledSteps
  BY <1>1, UnchangedRows, RestoredIsSettled DEF LifeInv, OneAwaits
<1> QED
  BY <1>1, <1>2 DEF LifeInv, StatusFits, OneAwaits, LastFits, DoneSettled, InStep, QueriesKept

LEMMA LifeOfAnswer == ASSUME IInv, IInv', LifeInv, Answer PROVE LifeInv'
<1>1. PICK approved \in BOOLEAN : rows' = Answered(rows, approved)
  BY DEF Answer
<1>2. status = "suspended" /\ UNCHANGED <<pc, done>>
  BY DEF Answer, loopVars
<1>3. /\ Awaiting' = {} /\ SettledSteps \subseteq SettledSteps' /\ ResultsFit'
  BY <1>1, QueriesAnswer DEF LifeInv
<1>4. pc \notin InStep \cup {"plan", "loop"}
  BY <1>2 DEF LifeInv, StatusFits
<1> QED
  BY <1>2, <1>3, <1>4 DEF LifeInv, StatusFits, OneAwaits, LastFits, DoneSettled

LEMMA LifeOfOthers ==
    ASSUME IInv, IInv', LifeInv, Create \/ Retry \/ Tick \/ UNCHANGED vars
    PROVE  LifeInv'
<1>1. UNCHANGED <<rows, done, cur, fault>>
  BY DEF Create, Retry, Tick, vars, runVars, loopVars
<1>2. QueriesKept /\ ResultsFit'
  BY <1>1, UnchangedRows DEF LifeInv
<1>3. CASE Tick \/ UNCHANGED vars
  <2>1. UNCHANGED <<status, pc>>
    BY <1>3 DEF Tick, vars, runVars
  <2> QED
    BY <1>1, <1>2, <2>1 DEF LifeInv, StatusFits, OneAwaits, LastFits, DoneSettled, Last, QueriesKept
<1>4. CASE Create \/ Retry
  <2>1. pc' \notin InStep \cup {"plan", "loop"} /\ Awaiting = {}
    BY <1>4 DEF Create, Retry, LifeInv, StatusFits, OneAwaits, InStep
  <2> QED
    BY <1>1, <1>2, <2>1 DEF LifeInv, StatusFits, OneAwaits, LastFits, DoneSettled, QueriesKept
<1> QED
  BY <1>3, <1>4

LEMMA LifeOfNext == ASSUME IInv, IInv', LifeInv, [Next]_vars PROVE LifeInv'
BY SegmentForm, LifeOfForm, LifeOfStart, LifeOfAnswer, LifeOfOthers DEF Next

LEMMA LifeOfInit == Init => LifeInv
<1> SUFFICES ASSUME Init PROVE LifeInv
  OBVIOUS
<1>1. DOMAIN rows = {}
  BY DEF Init
<1> QED
  BY <1>1 DEF Init, LifeInv, StatusFits, OneAwaits, ResultsFit, LastFits, DoneSettled, Awaiting, InStep

\* Where a segment is, which row is its own, and what has been settled.
THEOREM LifeKept == Spec => []LifeInv
<1>1. Init => IInv /\ LifeInv
  BY InitInv, LifeOfInit
<1>2. IInv /\ LifeInv /\ [Next]_vars => (IInv /\ LifeInv)'
  BY NextInv, LifeOfNext
<1> QED
  BY <1>1, <1>2, PTL DEF Spec

----------------------------------------------------------------------------
(* The refinement: what somebody outside sees of each form. *)

Mapped == [Lifecycle!Next]_(Lifecycle!vars)

\* The steps begun and settled as the refinement mapping writes them out.
LEMMA MapsShape ==
    /\ BegunSteps = {rows[k].step : k \in DOMAIN rows}
    /\ SettledSteps = {rows[k].step : k \in {m \in DOMAIN rows : SettledRow(rows[m])}}
    /\ RunOf = {"run"}
BY DEF BegunSteps, SettledSteps, RunOf

\* Statuses move along these lines when nothing is settled.
Turns(from, to) ==
    \/ from \in {"absent", "failed"} /\ to = "queued"
    \/ from = "queued" /\ to = "running"
    \/ from = "running" /\ to \in {"suspended", "failed", "completed"}
    \/ from = "suspended" /\ to = "failed"

Quiet == BegunSteps' = BegunSteps /\ SettledSteps' = SettledSteps

LEMMA SeenNothing == ASSUME Quiet, UNCHANGED status PROVE Mapped
BY MapsShape DEF Quiet, Mapped, Lifecycle!vars, BegunSteps, SettledSteps

LEMMA SeenTurn ==
    ASSUME Quiet, Turns(status, status'), status' = "completed" => SettledSteps = Steps
    PROVE  Mapped
<1>1. \/ Lifecycle!Create("run") \/ Lifecycle!Start("run") \/ Lifecycle!Suspend("run")
      \/ Lifecycle!Fail("run") \/ Lifecycle!Complete("run") \/ Lifecycle!Retry("run")
  BY MapsShape DEF Quiet, Turns, BegunSteps, SettledSteps, Lifecycle!Create, Lifecycle!Start,
     Lifecycle!Suspend, Lifecycle!Fail, Lifecycle!Complete, Lifecycle!Retry, Lifecycle!Moves
<1> QED
  BY <1>1, MapsShape DEF Mapped, Lifecycle!Next

LEMMA SeenSettle ==
    ASSUME status = "running", UNCHANGED status, NEW j \in Steps, j \in BegunSteps,
           BegunSteps' = BegunSteps, SettledSteps' = SettledSteps \cup {j}
    PROVE  Mapped
<1>1. Lifecycle!Settle("run", j)
  BY MapsShape DEF BegunSteps, SettledSteps, Lifecycle!Settle
<1> QED
  BY <1>1, MapsShape DEF Mapped, Lifecycle!Next

LEMMA SeenBegin ==
    ASSUME status = "running", UNCHANGED status, NEW j \in Steps,
           \A i \in Steps : i < j => i \in SettledSteps,
           BegunSteps' = BegunSteps \cup {j}, SettledSteps' = SettledSteps
    PROVE  Mapped
<1>1. Lifecycle!Begin("run", j)
  BY MapsShape DEF BegunSteps, SettledSteps, Lifecycle!Begin, Lifecycle!Reached
<1> QED
  BY <1>1, MapsShape DEF Mapped, Lifecycle!Next

LEMMA SeenAnswer ==
    ASSUME status = "suspended", status' = "queued", NEW T \in SUBSET BegunSteps,
           \A i, j \in T : i = j,
           BegunSteps' = BegunSteps, SettledSteps' = SettledSteps \cup T
    PROVE  Mapped
<1>1. Lifecycle!Answer("run")
  BY MapsShape DEF BegunSteps, SettledSteps, Lifecycle!Answer, Lifecycle!Moves
<1> QED
  BY <1>1, MapsShape DEF Mapped, Lifecycle!Next

LEMMA EndIsSeen ==
    ASSUME IInv, IInv', LifeInv,
           \/ \E kind \in Faults : Fails(kind)
           \/ EndsRun("failed", "refused", "failed") \/ EndsRun("suspended", "none", "suspended")
           \/ CompletesStep
    PROVE  Mapped
<1>1. pc \in Trying
  BY DEF Fails, EndsRun, CompletesStep
<1>2. /\ pc \in InStep /\ status = "running" /\ Last.status = "running" /\ Last.step = cur
      /\ Last.step \in Steps
  BY <1>1, TryingShape, LastShape DEF Row
<1>3. ASSUME NEW st, NEW res, Ends(st, res)
      PROVE  /\ Last.step \in BegunSteps /\ BegunSteps' = BegunSteps
             /\ SettledSteps' = IF Settles(st, res, Last.step) THEN SettledSteps \cup {Last.step}
                                                               ELSE SettledSteps
  BY <1>2, <1>3, QueriesEnd
<1>4. CASE \/ (\E kind \in Faults : Ends("failed", kind)) \/ Ends("completed", "data")
           /\ UNCHANGED status
  <2>1. PICK st, res : Ends(st, res)
    BY <1>4
  <2>2. CASE Settles(st, res, Last.step)
    BY <1>2, <1>3, <1>4, <2>1, <2>2, SeenSettle
  <2>3. CASE ~ Settles(st, res, Last.step)
    <3>1. Quiet
      BY <1>3, <2>1, <2>3 DEF Quiet
    <3> QED
      BY <1>4, <3>1, SeenNothing
  <2> QED
    BY <2>2, <2>3
<1>5. ASSUME NEW st \in {"failed", "suspended"}, NEW res \in {"refused", "none"}, EndsRun(st, res, st)
      PROVE  Mapped
  <2>1. Ends(st, res) /\ status' = st
    BY <1>5 DEF EndsRun
  <2>2. Quiet
    BY <1>3, <2>1 DEF Quiet, Settles
  <2> QED
    BY <1>2, <2>1, <2>2, SeenTurn DEF Turns
<1> QED
  BY <1>4, <1>5 DEF Fails, CompletesStep

LEMMA FormIsSeen == ASSUME IInv, IInv', LifeInv, Form PROVE Mapped
<1>1. CASE Moves
  <2>1. Quiet /\ UNCHANGED status
    BY <1>1, QueriesBefore DEF Moves, Quiet, QueriesKept
  <2> QED
    BY <2>1, SeenNothing
<1>2. CASE PassesFailure \/ Planned
  <2>1. UNCHANGED <<rows, status>>
    BY <1>2 DEF PassesFailure, Planned
  <2>2. Quiet
    BY <2>1, UnchangedRows DEF QueriesKept, Quiet
  <2> QED
    BY <2>1, <2>2, SeenNothing
<1>3. ASSUME NEW to \in {"failed", "suspended", "completed"}, LeavesRun(to)
      PROVE  Mapped
  <2>1. /\ UNCHANGED rows /\ status = "running" /\ status' = to
        /\ to = "completed" => Steps \subseteq done
    BY <1>3 DEF LeavesRun, LifeInv, StatusFits, InStep
  <2>2. Quiet
    BY <2>1, UnchangedRows DEF QueriesKept, Quiet
  <2>3. SettledSteps \subseteq Steps
    BY RowShape DEF SettledSteps, Row, IInv, Types
  <2>4. to = "completed" => SettledSteps = Steps
    BY <2>1, <2>3 DEF LifeInv, DoneSettled
  <2> QED
    BY <2>1, <2>2, <2>4, SeenTurn DEF Turns
<1>4. CASE BeginStep
  <2>1. PICK j \in Steps : IsNext(j) /\ rows' = Append(rows, NewRow(j))
    BY <1>4 DEF BeginStep
  <2>2. status = "running" /\ UNCHANGED status
    BY <1>4 DEF BeginStep, LifeInv, StatusFits
  <2>3. BegunSteps' = BegunSteps \cup {j} /\ SettledSteps' = SettledSteps
    BY <2>1, QueriesBegin
  <2>4. \A i \in Steps : i < j => i \in SettledSteps
    <3>1. \A i \in Steps \ done : j <= i
      BY <2>1 DEF IsNext
    <3>2. \A i \in Steps : i \in Int
      BY DEF Steps
    <3> QED
      BY <3>1, <3>2 DEF LifeInv, DoneSettled
  <2> QED
    BY <2>2, <2>3, <2>4, SeenBegin
<1> QED
  BY <1>1, <1>2, <1>3, <1>4, EndIsSeen DEF Form

LEMMA OutsideIsSeen ==
    ASSUME IInv, IInv', LifeInv, Create \/ Start \/ Answer \/ Retry \/ Tick \/ UNCHANGED vars
    PROVE  Mapped
<1>1. CASE Create \/ Start \/ Retry
  <2>1. UNCHANGED rows /\ Turns(status, status') /\ status' # "completed"
    BY <1>1 DEF Create, Start, Retry, Requeue, Turns
  <2>2. Quiet
    BY <2>1, UnchangedRows DEF QueriesKept, Quiet
  <2> QED
    BY <2>1, <2>2, SeenTurn
<1>2. CASE Tick \/ UNCHANGED vars
  <2>1. UNCHANGED <<rows, status>>
    BY <1>2 DEF Tick, vars, runVars
  <2>2. Quiet
    BY <2>1, UnchangedRows DEF QueriesKept, Quiet
  <2> QED
    BY <2>1, <2>2, SeenNothing
<1>3. CASE Answer
  <2>1. CASE rows' = Answered(rows, TRUE) /\ Requeue
    <3> DEFINE T == {rows[k].step : k \in Answers(TRUE)}
    <3>1. BegunSteps' = BegunSteps /\ SettledSteps' = SettledSteps \cup T
      BY <2>1, QueriesAnswer
    <3>2. T \subseteq BegunSteps
      BY DEF Answers, Awaiting, BegunSteps
    <3>3. \A i, j \in T : i = j
      BY DEF Answers, LifeInv, OneAwaits
    <3>4. status = "suspended" /\ status' = "queued"
      BY <1>3, <2>1 DEF Answer, Requeue
    <3> HIDE DEF T
    <3> QED
      BY <3>1, <3>2, <3>3, <3>4, SeenAnswer
  <2>2. CASE rows' = Answered(rows, FALSE) /\ status' = "failed"
    <3>1. Quiet
      BY <2>2, QueriesAnswer DEF Answers, Quiet
    <3>2. Turns(status, status')
      BY <1>3, <2>2 DEF Answer, Turns
    <3> QED
      BY <2>2, <3>1, <3>2, SeenTurn
  <2> QED
    BY <1>3, <2>1, <2>2 DEF Answer
<1> QED
  BY <1>1, <1>2, <1>3

\* What happens inside the steps keeps the promise of the run's life cycle:
\* statuses move only as documented, a step is begun after the ones before it
\* were settled, a row that awaits an answer is settled by an answer only, and a
\* run completes when all its steps are settled (execute_run, _execute_step).
THEOREM StepsImplementLifecycle == Spec => ImplementsLifecycle
<1>1. Init => Lifecycle!Init
  <2> SUFFICES ASSUME Init PROVE Lifecycle!Init
    OBVIOUS
  <2>1. DOMAIN rows = {}
    BY DEF Init
  <2>2. BegunSteps = {} /\ SettledSteps = {} /\ status = "absent"
    BY <2>1 DEF Init, BegunSteps, SettledSteps
  <2> QED
    BY <2>2, MapsShape DEF Lifecycle!Init
<1>2. Init => IInv
  BY InitInv
<1>3. IInv /\ [Next]_vars => IInv'
  BY NextInv
<1>4. IInv /\ IInv' /\ LifeInv /\ [Next]_vars => Mapped
  BY SegmentForm, FormIsSeen, OutsideIsSeen DEF Next
<1> QED
  BY <1>1, <1>2, <1>3, <1>4, LifeKept, PTL DEF Spec, Lifecycle!Spec, Mapped, ImplementsLifecycle

----------------------------------------------------------------------------
(* The cap on executed steps. *)

Executed == Cardinality(Completed)

\* The tracker has counted at least the steps that were executed, a step in
\* progress is still below the cap, and so is one that awaits an answer.
CapInv ==
    /\ slots \in Nat /\ maxSteps \in Nat
    /\ Executed <= maxSteps
    /\ status = "running" => Executed <= slots
    /\ pc \in InStep => slots < maxSteps
    /\ Awaiting # {} => Executed < maxSteps

LEMMA CompletedFinite ==
    ASSUME IInv
    PROVE  /\ IsFiniteSet(Completed) /\ Executed \in Nat
           /\ \A k : /\ IsFiniteSet(Completed \cup {k})
                     /\ k \notin Completed => Cardinality(Completed \cup {k}) = Executed + 1
<1>1. Completed \subseteq 1..Len(rows) /\ Len(rows) \in Nat
  BY RowShape DEF Completed, IInv, Types
<1>2. IsFiniteSet(1..Len(rows))
  BY <1>1, FS_Interval
<1>3. IsFiniteSet(Completed)
  BY <1>1, <1>2, FS_Subset
<1>4. Executed \in Nat
  BY <1>3, FS_CardinalityType DEF Executed
<1>5. ASSUME NEW k
      PROVE  /\ IsFiniteSet(Completed \cup {k})
             /\ k \notin Completed => Cardinality(Completed \cup {k}) = Executed + 1
  BY <1>3, FS_AddElement DEF Executed
<1> QED
  BY <1>3, <1>4, <1>5

LEMMA ExecutedKept == ASSUME Completed' = Completed PROVE Executed' = Executed
BY DEF Executed

LEMMA MaxStepsKept == ASSUME [Next]_vars PROVE UNCHANGED maxSteps
BY DEF Next, Create, Start, SegmentStep, Answer, Retry, Tick, PlanRun, CompleteRun, FailBeforeStep,
   BeginStep, Unproposed, Propose, Verify, Replan, RefuseTokens, Dispatch, ToolReturns, Critique,
   Handle, vars, runVars

LEMMA CapOfForm ==
    ASSUME IInv, IInv', LifeInv, CapInv, Form, UNCHANGED maxSteps
    PROVE  CapInv'
<1>1. Executed \in Nat /\ slots \in Nat /\ maxSteps \in Nat
  BY CompletedFinite DEF CapInv
<1>2. CASE Moves
  <2>1. Awaiting' = Awaiting /\ Completed' = Completed
    BY <1>2, QueriesBefore DEF Moves, QueriesKept
  <2> QED
    BY <1>2, <2>1, ExecutedKept DEF CapInv, Moves, Trying
<1>3. CASE PassesFailure
  <2>1. Awaiting' = Awaiting /\ Completed' = Completed
    BY <1>3, UnchangedRows DEF PassesFailure, QueriesKept
  <2>2. slots' = slots + 1 /\ pc' = "loop" /\ UNCHANGED status
    BY <1>3 DEF PassesFailure, PassStep
  <2> QED
    BY <1>1, <2>1, <2>2, ExecutedKept DEF CapInv, InStep
<1>4. CASE Planned \/ \E to \in {"failed", "suspended", "completed"} : LeavesRun(to)
  <2>1. UNCHANGED rows /\ UNCHANGED slots /\ pc' \notin InStep /\ (UNCHANGED status \/ status' # "running")
    BY <1>4 DEF Planned, LeavesRun, InStep
  <2>2. Awaiting' = Awaiting /\ Completed' = Completed
    BY <2>1, UnchangedRows DEF QueriesKept
  <2> QED
    BY <2>1, <2>2, ExecutedKept DEF CapInv
<1>5. CASE BeginStep
  <2>1. PICK j \in Steps : rows' = Append(rows, NewRow(j))
    BY <1>5 DEF BeginStep
  <2>2. Awaiting' = Awaiting /\ Completed' = Completed
    BY <2>1, QueriesBegin
  <2>3. UNCHANGED <<slots, status>> /\ slots < maxSteps
    BY <1>1, <1>5 DEF BeginStep, ExhaustedAt, policyVars
  <2> QED
    BY <2>2, <2>3, ExecutedKept DEF CapInv
<1>6. ASSUME pc \in Trying
      PROVE  /\ pc \in InStep /\ Last.status = "running" /\ Awaiting = {} /\ status = "running"
             /\ Executed <= slots /\ slots < maxSteps
  BY <1>6, TryingShape DEF CapInv
<1>7. ASSUME NEW st, NEW res, Ends(st, res), pc \in Trying, st # "completed"
      PROVE  Completed' = Completed /\ (st # "suspended" => Awaiting' = {})
  BY <1>6, <1>7, QueriesEnd
<1>8. ASSUME NEW kind \in Faults, Fails(kind)
      PROVE  CapInv'
  <2>1. Completed' = Completed /\ Awaiting' = {}
    BY <1>7, <1>8 DEF Fails
  <2>2. pc \in Trying /\ pc' = "handle" /\ UNCHANGED <<slots, status>>
    BY <1>8 DEF Fails
  <2> QED
    BY <1>6, <2>1, <2>2, ExecutedKept DEF CapInv
<1>9. ASSUME NEW st \in {"failed", "suspended"}, NEW res, EndsRun(st, res, st)
      PROVE  CapInv'
  <2>1. Completed' = Completed
    BY <1>7, <1>9 DEF EndsRun
  <2>2. pc \in Trying /\ pc' = "idle" /\ UNCHANGED slots /\ status' = st
    BY <1>9 DEF EndsRun
  <2> QED
    BY <1>1, <1>6, <2>1, <2>2, ExecutedKept DEF CapInv, InStep
<1>10. CASE CompletesStep
  <2>1. pc \in Trying /\ Ends("completed", "data") /\ slots' = slots + 1 /\ pc' = "loop" /\ UNCHANGED status
    BY <1>10 DEF CompletesStep, PassStep
  <2>2. Completed' = Completed \cup {Len(rows)} /\ Awaiting' = {} /\ Len(rows) \notin Completed
    BY <1>6, <2>1, QueriesEnd
  <2>3. Executed' = Executed + 1
    BY <2>2, CompletedFinite DEF Executed
  <2> QED
    BY <1>1, <1>6, <2>1, <2>2, <2>3 DEF CapInv, InStep
<1> QED
  BY <1>2, <1>3, <1>4, <1>5, <1>8, <1>9, <1>10 DEF Form

\* A segment's tracker starts with the steps of the segments before it.
LEMMA CapOfStart == ASSUME IInv, IInv', LifeInv, CapInv, Start PROVE CapInv'
<1>1. UNCHANGED <<rows, maxSteps>> /\ slots' = PriorSteps /\ pc' = "plan"
  BY DEF Start
<1>2. Awaiting' = Awaiting /\ Completed' = Completed
  BY <1>1, UnchangedRows DEF QueriesKept
<1> DEFINE prior == {k \in DOMAIN rows : rows[k].status \in {"completed", "failed"}}
<1>3. prior \subseteq 1..Len(rows) /\ Len(rows) \in Nat /\ Completed \subseteq prior
  BY RowShape DEF Completed, IInv, Types
<1>4. IsFiniteSet(1..Len(rows))
  BY <1>3, FS_Interval
<1>5. IsFiniteSet(prior)
  BY <1>3, <1>4, FS_Subset
<1>6. Cardinality(prior) \in Nat /\ Cardinality(Completed) <= Cardinality(prior)
  BY <1>3, <1>5, FS_Subset, FS_CardinalityType
<1>7. slots' \in Nat /\ Executed <= slots'
  BY <1>1, <1>6 DEF PriorSteps, Executed
<1> QED
  BY <1>1, <1>2, <1>7, ExecutedKept DEF CapInv, InStep

LEMMA CapOfAnswer == ASSUME IInv, IInv', LifeInv, CapInv, Answer PROVE CapInv'
<1>1. PICK approved \in BOOLEAN : rows' = Answered(rows, approved)
  BY DEF Answer
<1>2. UNCHANGED <<pc, slots, maxSteps>> /\ status' # "running" /\ pc \notin InStep
  BY DEF Answer, Requeue, policyVars, LifeInv, StatusFits
<1>3. Awaiting' = {} /\ Completed' = Completed \cup Answers(approved)
  BY <1>1, QueriesAnswer
<1>4. Executed \in Nat /\ maxSteps \in Nat
  BY CompletedFinite DEF CapInv
<1>5. CASE Answers(approved) = {}
  <2>1. Completed' = Completed
    BY <1>3, <1>5
  <2> QED
    BY <1>2, <1>3, <2>1, ExecutedKept DEF CapInv
<1>6. CASE Answers(approved) # {}
  <2>1. PICK k \in Answers(approved) : TRUE
    BY <1>6
  <2>2. Answers(approved) = {k} /\ Awaiting # {} /\ k \notin Completed
    BY <2>1 DEF Answers, LifeInv, OneAwaits, Awaiting, Completed
  <2>3. Executed' = Executed + 1
    BY <1>3, <2>2, CompletedFinite DEF Executed
  <2> QED
    BY <1>2, <1>3, <1>4, <2>2, <2>3 DEF CapInv
<1> QED
  BY <1>5, <1>6

LEMMA CapOfOthers ==
    ASSUME IInv, IInv', LifeInv, CapInv, Create \/ Retry \/ Tick \/ UNCHANGED vars
    PROVE  CapInv'
<1>1. /\ UNCHANGED <<rows, slots, maxSteps>>
      /\ UNCHANGED status \/ status' # "running"
      /\ UNCHANGED pc \/ pc' \notin InStep
  BY DEF Create, Retry, Requeue, Tick, vars, runVars, policyVars, InStep
<1>2. Awaiting' = Awaiting /\ Completed' = Completed
  BY <1>1, UnchangedRows DEF QueriesKept
<1> QED
  BY <1>1, <1>2, ExecutedKept DEF CapInv

LEMMA CapOfInit == Init => CapInv
<1> SUFFICES ASSUME Init PROVE CapInv
  OBVIOUS
<1>1. DOMAIN rows = {}
  BY DEF Init
<1>2. Completed = {} /\ Awaiting = {}
  BY <1>1 DEF Completed, Awaiting
<1>3. Executed = 0
  BY <1>2, FS_EmptySet DEF Executed
<1> QED
  BY <1>2, <1>3, BoundsAssumption DEF Init, CapInv, InStep

\* However the segments of a run are interrupted, answered and retried, it never
\* executes more steps than max_steps (BudgetTracker.seed_usage, record_step,
\* check_budget).
THEOREM CapKept == Spec => []StepCapHolds
<1>1. Init => IInv /\ LifeInv /\ CapInv
  BY InitInv, LifeOfInit, CapOfInit
<1>2. IInv /\ LifeInv /\ CapInv /\ [Next]_vars => (IInv /\ LifeInv /\ CapInv)'
  BY NextInv, LifeOfNext, MaxStepsKept, SegmentForm, CapOfForm, CapOfStart, CapOfAnswer, CapOfOthers
  DEF Next
<1>3. CapInv => StepCapHolds
  BY DEF CapInv, Executed, Completed, StepCapHolds
<1> QED
  BY <1>1, <1>2, <1>3, PTL DEF Spec

----------------------------------------------------------------------------
(* Tokens: what one is replaced by is what it was minted for, as long as a
   segment meets its own tokens only. *)

\* No result of an earlier segment holds a token.
NothingCarried == \A k \in DOMAIN rows : rows[k].seg < seg => rows[k].out.kind # "token"

MintedIn(vlt, c) == c.kind = "token" => c.n \in 1..Len(vlt) /\ vlt[c.n] = c.of

\* What the rows of this segment hold comes from this segment's vault.
TokenInv ==
    NothingCarried =>
        /\ \A k \in DOMAIN rows : rows[k].seg = seg =>
              MintedIn(vault, rows[k].out) /\ MintedIn(vault, rows[k].sent)
        /\ TokensKeepMeaning

\* Each row keeps what it was sent and what it returned.
ContentSame ==
    /\ Len(rows') = Len(rows)
    /\ \A k \in DOMAIN rows : /\ rows'[k].seg = rows[k].seg /\ rows'[k].out = rows[k].out
                              /\ rows'[k].sent = rows[k].sent

\* A vault that has grown knows the tokens it knew, and the one just minted.
LEMMA MintKnows ==
    ASSUME NEW vlt \in Vaults, NEW v \in Values
    PROVE  /\ MintedIn(Mint(vlt, v), Tokenized(vlt, v))
           /\ \A c : MintedIn(vlt, c) => MintedIn(Mint(vlt, v), c)
<1>1. PICK big : big = Mint(vlt, v)
  OBVIOUS
<1>2. Len(vlt) \in Nat
  BY LenProperties DEF Vaults
<1>3. /\ Len(big) \in Nat /\ Len(vlt) <= Len(big)
      /\ \A n \in 1..Len(vlt) : big[n] = vlt[n]
      /\ TokensOf(big, v) # {}
  <2>1. CASE TokensOf(vlt, v) = {}
    <3>1. big = Append(vlt, v)
      BY <1>1, <2>1 DEF Mint
    <3>2. /\ Len(big) = Len(vlt) + 1 /\ big[Len(vlt) + 1] = v
          /\ \A n \in 1..Len(vlt) : big[n] = vlt[n]
      BY <3>1, AppendProperties DEF Vaults
    <3>3. Len(vlt) + 1 \in TokensOf(big, v)
      BY <1>2, <3>2 DEF TokensOf
    <3> QED
      BY <1>2, <3>2, <3>3
  <2>2. CASE TokensOf(vlt, v) # {}
    BY <1>1, <1>2, <2>2 DEF Mint
  <2> QED
    BY <2>1, <2>2
<1>4. PICK n : n = CHOOSE i \in TokensOf(big, v) : TRUE
  OBVIOUS
<1>5. n \in 1..Len(big) /\ big[n] = v
  BY <1>3, <1>4 DEF TokensOf
<1>6. Tokenized(vlt, v) = [kind |-> "token", of |-> v, n |-> n]
  BY <1>1, <1>4 DEF Tokenized
<1>7. MintedIn(big, Tokenized(vlt, v))
  BY <1>5, <1>6 DEF MintedIn
<1>8. ASSUME NEW c, MintedIn(vlt, c) PROVE MintedIn(big, c)
  BY <1>2, <1>3, <1>8 DEF MintedIn
<1> QED
  BY <1>1, <1>7, <1>8

\* What a tool is sent: a token of the vault as it is afterwards, or the value its
\* token was minted for.
LEMMA SentKnows ==
    ASSUME NEW vlt \in Vaults, NEW class, NEW c \in Content, MintedIn(vlt, c),
           c.kind = "pii" => c.of \in Values
    PROVE  /\ MintedIn(VaultAfter(vlt, class, c), Sent(vlt, class, c))
           /\ \A d : MintedIn(vlt, d) => MintedIn(VaultAfter(vlt, class, c), d)
           /\ c.kind = "token" /\ Sent(vlt, class, c).kind = "pii" => Sent(vlt, class, c).of = c.of
<1>1. CASE class = "model" /\ TokenizeInputs /\ c.kind = "pii"
  <2>1. Sent(vlt, class, c) = Tokenized(vlt, c.of) /\ VaultAfter(vlt, class, c) = Mint(vlt, c.of)
    BY <1>1 DEF Sent, VaultAfter
  <2> QED
    BY <1>1, <2>1, MintKnows
<1>2. CASE class = "outbound" /\ c.kind = "token"
  <2>1. c.n \in 1..Len(vlt) /\ vlt[c.n] = c.of
    BY <1>2 DEF MintedIn
  <2>2. Sent(vlt, class, c) = Pii(c.of) /\ VaultAfter(vlt, class, c) = vlt
    BY <1>2, <2>1 DEF Sent, VaultAfter
  <2> QED
    BY <2>2 DEF Pii, MintedIn
<1>3. CASE ~(class = "model" /\ TokenizeInputs /\ c.kind = "pii")
           /\ ~(class = "outbound" /\ c.kind = "token")
  <2>1. Sent(vlt, class, c) = c /\ VaultAfter(vlt, class, c) = vlt
    BY <1>3 DEF Sent, VaultAfter
  <2> QED
    BY <2>1
<1> QED
  BY <1>1, <1>2, <1>3

\* A token in an argument came out of a row of this segment.
LEMMA ArgumentKnown ==
    ASSUME IInv, TokenInv, NothingCarried
    PROVE  MintedIn(vault, Argument)
<1>1. CASE call.form # NoValue
  BY <1>1 DEF Argument, Pii, MintedIn
<1>2. CASE call.form = NoValue
  <2>1. Argument = Output(call.from)
    BY <1>2 DEF Argument
  <2>2. ASSUME NEW j, \E k \in RowsOf(j) : rows[k].status = "completed"
        PROVE  LET k == CHOOSE k \in RowsOf(j) : TRUE IN MintedIn(vault, rows[k].out)
    <3>1. PICK k : k = CHOOSE i \in RowsOf(j) : TRUE
      OBVIOUS
    <3>2. k \in DOMAIN rows
      BY <2>2, <3>1 DEF RowsOf
    <3>3. rows[k].seg \in Nat /\ seg \in Nat /\ rows[k].seg <= seg
      BY <3>2, RowShape DEF IInv, Types, RowsInv, Row
    <3>4. CASE rows[k].seg = seg
      BY <3>1, <3>2, <3>4 DEF TokenInv
    <3>5. CASE rows[k].seg < seg
      BY <3>1, <3>2, <3>5 DEF NothingCarried, MintedIn
    <3> QED
      BY <3>3, <3>4, <3>5
  <2> QED
    BY <2>1, <2>2 DEF Output, Plain, MintedIn
<1> QED
  BY <1>1, <1>2

\* Steps that change no content: unless the tool is running, nothing is claimed.
LEMMA TokensStay ==
    ASSUME IInv, IInv', TokenInv, ContentSame, UNCHANGED <<seg, vault>>,
           pc' = "tool" => pc = "tool" /\ UNCHANGED <<rows, call>>
    PROVE  TokenInv'
<1>1. DOMAIN rows = 1..Len(rows) /\ DOMAIN rows' = DOMAIN rows
  BY RowShape DEF IInv, Types, ContentSame
<1>2. NothingCarried' => NothingCarried
  BY <1>1 DEF NothingCarried, ContentSame
<1>3. ASSUME NothingCarried
      PROVE  \A k \in DOMAIN rows' : rows'[k].seg = seg' =>
                 MintedIn(vault', rows'[k].out) /\ MintedIn(vault', rows'[k].sent)
  BY <1>1, <1>3 DEF TokenInv, ContentSame
<1>4. ASSUME NothingCarried PROVE TokensKeepMeaning'
  <2>1. CASE pc' = "tool"
    BY <1>4, <2>1 DEF TokenInv, TokensKeepMeaning, CurrentRow, Argument, Output, RowsOf, Latest
  <2>2. CASE pc' # "tool"
    BY <2>2 DEF TokensKeepMeaning
  <2> QED
    BY <2>1, <2>2
<1> QED
  BY <1>2, <1>3, <1>4 DEF TokenInv

\* The last row rewritten, with the content it had.
LEMMA RewrittenContent ==
    ASSUME IInv, IInv', pc \in InStep, NEW row, rows' = [rows EXCEPT ![Len(rows)] = row],
           row.seg = rows[Len(rows)].seg, row.out = rows[Len(rows)].out,
           row.sent = rows[Len(rows)].sent
    PROVE  ContentSame
<1>1. DOMAIN rows = 1..Len(rows) /\ Len(rows) \in Nat
  BY RowShape DEF IInv, Types
<1>2. DOMAIN rows' = 1..Len(rows') /\ Len(rows') \in Nat
  BY RowShape, LenProperties DEF IInv, Types
<1>3. DOMAIN rows' = DOMAIN rows
  OBVIOUS
<1>4. Len(rows') = Len(rows)
  BY <1>1, <1>2, <1>3, SameLength
<1>5. \A k \in DOMAIN rows : rows'[k] = IF k = Len(rows) THEN row ELSE rows[k]
  BY <1>1
<1> QED
  BY <1>4, <1>5 DEF ContentSame

LEMMA EndedContent ==
    ASSUME IInv, IInv', pc \in InStep, NEW st, NEW res, rows' = Ended(rows, st, res)
    PROVE  ContentSame
<1>1. PICK row : row = [rows[Len(rows)] EXCEPT !.status = st, !.result = res]
  OBVIOUS
<1>2. rows[Len(rows)] \in Row
  BY RowShape DEF IInv, Types, Current
<1>3. /\ row.seg = rows[Len(rows)].seg /\ row.out = rows[Len(rows)].out
      /\ row.sent = rows[Len(rows)].sent
  BY <1>1, <1>2 DEF Row
<1>4. rows' = [rows EXCEPT ![Len(rows)] = row]
  BY <1>1 DEF Ended, CurrentRow
<1> QED
  BY <1>3, <1>4, RewrittenContent

LEMMA NothingTouched == ASSUME UNCHANGED rows PROVE ContentSame
BY DEF ContentSame

LEMMA AttemptEndContent ==
    ASSUME IInv, IInv', pc \in InStep,
           \/ \E kind : Raise(kind)
           \/ \E kind : Escalate(kind)
           \/ Refuse(rows)
    PROVE  ContentSame /\ pc' # "tool"
<1>1. ASSUME NEW kind, Raise(kind) PROVE ContentSame /\ pc' # "tool"
  <2>1. (\E st, res : rows' = Ended(rows, st, res)) \/ UNCHANGED rows
    BY <1>1 DEF Raise
  <2>2. pc' # "tool"
    BY <1>1 DEF Raise, BeginAttempt
  <2> QED
    BY <2>1, <2>2, EndedContent, NothingTouched
<1>2. ASSUME NEW kind, Escalate(kind) PROVE ContentSame /\ pc' # "tool"
  <2>1. rows' = Ended(rows, "suspended", "none") /\ pc' # "tool"
    BY <1>2 DEF Escalate, Leave
  <2> QED
    BY <2>1, EndedContent
<1>3. ASSUME Refuse(rows) PROVE ContentSame /\ pc' # "tool"
  <2>1. rows' = Ended(rows, "failed", "refused") /\ pc' # "tool"
    BY <1>3 DEF Refuse, Leave
  <2> QED
    BY <2>1, EndedContent
<1> QED
  BY <1>1, <1>2, <1>3

LEMMA TokensOfRunning ==
    ASSUME IInv, IInv', TokenInv,
           \/ PlanRun \/ CompleteRun \/ FailBeforeStep \/ Unproposed \/ Propose \/ Verify
           \/ Replan \/ RefuseTokens \/ Handle
    PROVE  TokenInv'
<1>1. UNCHANGED <<seg, vault>>
  BY DEF PlanRun, CompleteRun, FailBeforeStep, Unproposed, Propose, Verify, Replan, RefuseTokens,
     Handle, policyVars
<1>2. CASE PlanRun \/ CompleteRun \/ FailBeforeStep \/ Handle
  <2>1. UNCHANGED rows /\ pc' # "tool"
    BY <1>2 DEF PlanRun, CompleteRun, FailBeforeStep, Handle, Leave, PassStep
  <2> QED
    BY <1>1, <2>1, NothingTouched, TokensStay
<1>3. CASE Unproposed \/ RefuseTokens \/ Propose \/ Replan \/ Verify
  <2>1. pc \in InStep
    BY <1>3 DEF Unproposed, RefuseTokens, Propose, Replan, Verify, InStep
  <2>2. \/ (\E kind : Raise(kind)) \/ (\E kind : Escalate(kind)) \/ Refuse(rows)
        \/ UNCHANGED rows /\ pc' # "tool"
        \/ \E by : Proceed(by)
    BY <1>3 DEF Unproposed, RefuseTokens, Propose, Replan, Verify
  <2>3. ASSUME NEW by, Proceed(by) PROVE ContentSame /\ pc' # "tool"
    <3>1. PICK row : row = [rows[Len(rows)] EXCEPT !.by = by, !.as = call.step]
      OBVIOUS
    <3>2. rows[Len(rows)] \in Row
      BY <2>1, RowShape DEF IInv, Types, Current
    <3>3. /\ row.seg = rows[Len(rows)].seg /\ row.out = rows[Len(rows)].out
          /\ row.sent = rows[Len(rows)].sent
      BY <3>1, <3>2 DEF Row
    <3>4. rows' = [rows EXCEPT ![Len(rows)] = row] /\ pc' # "tool"
      BY <2>3, <3>1 DEF Proceed, CurrentRow
    <3> QED
      BY <2>1, <3>3, <3>4, RewrittenContent
  <2>4. ContentSame /\ pc' # "tool"
    BY <2>1, <2>2, <2>3, AttemptEndContent, NothingTouched
  <2> QED
    BY <1>1, <2>4, TokensStay
<1> QED
  BY <1>2, <1>3

LEMMA TokensOfToolReturns == ASSUME IInv, IInv', TokenInv, ToolReturns PROVE TokenInv'
<1>1. pc \in InStep /\ RowsPart /\ AtStep /\ UNCHANGED <<seg, vault>>
  BY RowsPartOf DEF ToolReturns, InStep
<1>2. CASE Raise("error")
  BY <1>1, <1>2, AttemptEndContent, TokensStay
<1>3. ASSUME NEW u \in 0..MaxToolCost, NEW k \in RowsOf(call.step),
             \/ Refuse(Charged(k, u))
             \/ pc' = "critique" /\ rows' = Charged(k, u)
      PROVE  TokenInv'
  <2>1. /\ DOMAIN rows = 1..Len(rows) /\ Len(rows) \in DOMAIN rows /\ Len(rows) \in Nat
        /\ k \in DOMAIN rows /\ u \in Nat /\ \A m \in DOMAIN rows : rows[m] \in Row
    BY <1>1, RowShape, OvershootShape DEF RowsPart, AtStep, RowsOf
  <2>2. PICK new : new = Charged(k, u)
    OBVIOUS
  <2>3. /\ new \in Seq(Row) /\ Len(new) = Len(rows) /\ DOMAIN new = DOMAIN rows
        /\ \A m \in DOMAIN rows : new[m] = [rows[m] EXCEPT !.tokens = new[m].tokens]
    BY <1>1, <2>1, <2>2, ChargedShape, LenProperties
  <2>4. \A m \in DOMAIN rows : /\ new[m].seg = rows[m].seg /\ new[m].out = rows[m].out
                               /\ new[m].sent = rows[m].sent
    BY <2>1, <2>3 DEF Row
  <2>5. CASE pc' = "critique" /\ rows' = new
    <3>1. ContentSame
      BY <2>3, <2>4, <2>5 DEF ContentSame
    <3> QED
      BY <1>1, <2>5, <3>1, TokensStay
  <2>6. CASE Refuse(new)
    <3>1. PICK row : row = [new[Len(rows)] EXCEPT !.status = "failed", !.result = "refused"]
      OBVIOUS
    <3>2. rows' = [new EXCEPT ![Len(rows)] = row] /\ pc' # "tool"
      BY <2>6, <3>1 DEF Refuse, Ended, CurrentRow, Leave
    <3>3. new[Len(rows)] \in Row
      BY <2>1, <2>3, ElementOfSeq
    <3>4. /\ row.seg = new[Len(rows)].seg /\ row.out = new[Len(rows)].out
          /\ row.sent = new[Len(rows)].sent
      BY <3>1, <3>3 DEF Row
    <3>5. DOMAIN rows' = 1..Len(rows') /\ Len(rows') \in Nat /\ DOMAIN rows' = DOMAIN new
      BY <3>2, RowShape, LenProperties DEF IInv, Types
    <3>6. Len(rows') = Len(rows)
      BY <2>1, <2>3, <3>5, SameLength
    <3>7. \A m \in DOMAIN rows : rows'[m] = IF m = Len(rows) THEN row ELSE new[m]
      BY <2>3, <3>2
    <3>8. ContentSame
      BY <2>4, <3>4, <3>6, <3>7 DEF ContentSame
    <3> QED
      BY <1>1, <3>2, <3>8, TokensStay
  <2> QED
    BY <1>3, <2>2, <2>5, <2>6
<1> QED
  BY <1>2, <1>3 DEF ToolReturns

LEMMA TokensOfAnswer == ASSUME IInv, IInv', TokenInv, StatusFits, Answer PROVE TokenInv'
<1>1. PICK approved \in BOOLEAN : rows' = Answered(rows, approved)
  BY DEF Answer
<1>2. UNCHANGED <<seg, vault, pc>> /\ pc # "tool"
  BY DEF Answer, policyVars, StatusFits, InStep
<1>3. /\ DOMAIN rows = 1..Len(rows) /\ Len(rows) \in Nat /\ DOMAIN rows' = 1..Len(rows')
      /\ Len(rows') \in Nat /\ \A k \in DOMAIN rows : rows[k] \in Row
  BY RowShape, LenProperties DEF IInv, Types
<1>4. Len(rows') = Len(rows)
  <2>1. DOMAIN rows' = DOMAIN rows
    BY <1>1 DEF Answered
  <2> QED
    BY <1>3, <2>1, SameLength
<1>5. ASSUME NEW k \in DOMAIN rows
      PROVE  /\ rows'[k].seg = rows[k].seg /\ rows'[k].out = rows[k].out
             /\ rows'[k].sent = rows[k].sent
  <2>1. PICK row : row = rows[k]
    OBVIOUS
  <2>2. row \in Row
    BY <1>3, <2>1
  <2>3. \/ rows'[k] = row
        \/ rows'[k] = [row EXCEPT !.status = "failed", !.result = "rejected"]
        \/ rows'[k] = [row EXCEPT !.status = "failed", !.result = "approval"]
        \/ rows'[k] = [row EXCEPT !.status = "completed", !.result = "answer"]
    BY <1>1, <2>1 DEF Answered
  <2> QED
    BY <2>1, <2>2, <2>3 DEF Row
<1>6. ContentSame
  BY <1>4, <1>5 DEF ContentSame
<1> QED
  BY <1>2, <1>6, TokensStay

\* A segment begins with no row of its own.
LEMMA TokensOfStart == ASSUME IInv, Start PROVE TokenInv'
<1>1. /\ rows' = rows /\ seg' = seg + 1 /\ pc' # "tool" /\ seg \in Nat
  BY DEF Start, IInv, Types
<1>2. \A k \in DOMAIN rows : rows[k].seg \in Nat /\ rows[k].seg <= seg
  BY RowShape DEF IInv, Types, RowsInv, Row
<1>3. \A k \in DOMAIN rows' : rows'[k].seg # seg'
  BY <1>1, <1>2
<1> QED
  BY <1>1, <1>3 DEF TokenInv, TokensKeepMeaning

LEMMA TokensOfBegin == ASSUME IInv, TokenInv, BeginStep PROVE TokenInv'
<1>1. PICK j \in Steps : rows' = Append(rows, NewRow(j)) /\ pc' = "ground" /\ UNCHANGED <<seg, vault>>
  BY DEF BeginStep, BeginAttempt, policyVars
<1>2. PICK row : row = NewRow(j)
  OBVIOUS
<1>3. row \in Row /\ row.seg = seg /\ row.out = Plain /\ row.sent = Plain
  BY <1>2, PlanShape DEF IInv, Types, NewRow, Row, Plain, Content
<1>4. rows \in Seq(Row) /\ rows' = Append(rows, row)
  BY <1>1, <1>2 DEF IInv, Types
<1>5. /\ DOMAIN rows = 1..Len(rows) /\ Len(rows) \in Nat
      /\ DOMAIN rows' = 1..(Len(rows) + 1)
      /\ \A k \in 1..Len(rows) : rows'[k] = rows[k]
      /\ rows'[Len(rows) + 1] = row
  BY <1>3, <1>4, AppendProperties, LenProperties
<1>6. NothingCarried' => NothingCarried
  BY <1>1, <1>5 DEF NothingCarried
<1>7. ASSUME NothingCarried, NEW k \in DOMAIN rows', rows'[k].seg = seg'
      PROVE  MintedIn(vault', rows'[k].out) /\ MintedIn(vault', rows'[k].sent)
  <2>1. CASE k = Len(rows) + 1
    BY <1>3, <1>5, <2>1 DEF MintedIn, Plain
  <2>2. CASE k \in DOMAIN rows
    BY <1>1, <1>5, <1>7, <2>2 DEF TokenInv
  <2> QED
    BY <1>5, <2>1, <2>2
<1> QED
  BY <1>1, <1>6, <1>7 DEF TokenInv, TokensKeepMeaning

LEMMA TokensOfDispatch == ASSUME IInv, IInv', TokenInv, Dispatch PROVE TokenInv'
<1>1. /\ pc = "execute" /\ pc \in InStep /\ pc' = "tool" /\ UNCHANGED <<seg, call>>
      /\ vault \in Vaults
  BY DEF Dispatch, InStep, IInv, Types, loopVars
<1>2. PICK class : class = Class[call.tool]
  OBVIOUS
<1>3. PICK given : given = Sent(vault, class, Argument)
  OBVIOUS
<1>4. PICK row : row = [Last EXCEPT !.sent = given, !.tool = call.tool, !.path = call.allowed]
  OBVIOUS
<1>5. /\ DOMAIN rows = 1..Len(rows) /\ Len(rows) \in DOMAIN rows /\ Last \in Row
      /\ Last.seg = seg
  BY <1>1, LastShape DEF IInv, Current, Last
<1>6. /\ row.sent = given /\ row.seg = Last.seg /\ row.out = Last.out /\ row.step = Last.step
      /\ row.status = Last.status
  BY <1>4, <1>5 DEF Row
<1>7. vault' = VaultAfter(vault, class, Argument) /\ rows' = [rows EXCEPT ![Len(rows)] = row]
  BY <1>2, <1>3, <1>4 DEF Dispatch, CurrentRow, Last
<1>8. /\ Len(rows') = Len(rows) /\ DOMAIN rows' = DOMAIN rows
      /\ \A k \in DOMAIN rows : rows'[k] = IF k = Len(rows) THEN row ELSE rows[k]
  <2>1. DOMAIN rows' = 1..Len(rows') /\ Len(rows') \in Nat
    BY RowShape, LenProperties DEF IInv, Types
  <2>2. DOMAIN rows' = DOMAIN rows
    BY <1>7
  <2>3. Len(rows) \in Nat
    BY <1>1, LastShape
  <2> QED
    BY <1>5, <1>7, <2>1, <2>2, <2>3, SameLength
<1>9. /\ \A k \in DOMAIN rows : /\ rows'[k].step = rows[k].step /\ rows'[k].status = rows[k].status
                                /\ rows'[k].seg = rows[k].seg /\ rows'[k].out = rows[k].out
                                /\ k # Len(rows) => rows'[k].sent = rows[k].sent
      /\ rows'[Len(rows)].sent = given
  BY <1>5, <1>6, <1>8 DEF Last
<1>10. NothingCarried' => NothingCarried
  BY <1>1, <1>8, <1>9 DEF NothingCarried
<1>11. SUFFICES ASSUME NothingCarried
       PROVE  /\ \A k \in DOMAIN rows' : rows'[k].seg = seg' =>
                     MintedIn(vault', rows'[k].out) /\ MintedIn(vault', rows'[k].sent)
              /\ TokensKeepMeaning'
  BY <1>10 DEF TokenInv
<1>12. /\ Argument \in Content /\ MintedIn(vault, Argument)
       /\ Argument.kind = "pii" => Argument.of \in Values
  BY <1>11, ArgumentShape, ArgumentKnown DEF IInv, Pii
<1>13. /\ MintedIn(vault', given)
       /\ \A d : MintedIn(vault, d) => MintedIn(vault', d)
       /\ Argument.kind = "token" /\ given.kind = "pii" => given.of = Argument.of
  BY <1>1, <1>3, <1>7, <1>12, SentKnows
<1>14. ASSUME NEW k \in DOMAIN rows, rows[k].seg = seg
       PROVE  MintedIn(vault', rows'[k].out) /\ MintedIn(vault', rows'[k].sent)
  BY <1>9, <1>11, <1>13, <1>14 DEF TokenInv
<1>15. Argument' = Argument
  <2>1. \A j : RowsOf(j)' = RowsOf(j)
    BY <1>8, <1>9 DEF RowsOf, Latest
  <2>2. \A j : Output(j)' = Output(j)
    <3> SUFFICES ASSUME NEW j PROVE Output(j)' = Output(j)
      OBVIOUS
    <3>1. PICK k : k = CHOOSE i \in RowsOf(j) : TRUE
      OBVIOUS
    <3>2. RowsOf(j) # {} => k \in DOMAIN rows
      BY <3>1 DEF RowsOf
    <3>3. (\E i \in RowsOf(j)' : rows'[i].status = "completed")
             <=> (\E i \in RowsOf(j) : rows[i].status = "completed")
      BY <1>9, <2>1 DEF RowsOf
    <3> QED
      BY <1>9, <2>1, <3>1, <3>2, <3>3 DEF Output
  <2> QED
    BY <1>1, <2>2 DEF Argument
<1>16. TokensKeepMeaning'
  BY <1>8, <1>9, <1>13, <1>15 DEF TokensKeepMeaning, CurrentRow
<1> QED
  BY <1>1, <1>8, <1>9, <1>14, <1>16

LEMMA TokensOfCritique == ASSUME IInv, IInv', TokenInv, Critique PROVE TokenInv'
<1>1. pc \in InStep /\ UNCHANGED <<seg, vault>>
  BY DEF Critique, InStep
<1>2. CASE Raise("error") \/ Raise("critique") \/ Escalate("post")
  BY <1>1, <1>2, AttemptEndContent, TokensStay
<1>3. ASSUME NEW o \in Returned(rows[CurrentRow].sent),
             rows' = [Ended(rows, "completed", "data") EXCEPT ![CurrentRow].out = o], PassStep
      PROVE  TokenInv'
  <2>1. /\ DOMAIN rows = 1..Len(rows) /\ Len(rows) \in DOMAIN rows /\ Last \in Row
        /\ Last.seg = seg
    BY <1>1, LastShape DEF IInv, Current, Last
  <2>2. PICK row : row = [Last EXCEPT !.status = "completed", !.result = "data", !.out = o]
    OBVIOUS
  <2>3. row.seg = seg /\ row.sent = Last.sent /\ row.out = o
    BY <2>1, <2>2 DEF Row
  <2>4. rows' = [rows EXCEPT ![Len(rows)] = row] /\ pc' # "tool"
    BY <1>3, <2>1, <2>2 DEF Ended, CurrentRow, Last, PassStep
  <2>5. /\ DOMAIN rows' = DOMAIN rows
        /\ \A k \in DOMAIN rows : rows'[k] = IF k = Len(rows) THEN row ELSE rows[k]
    BY <2>1, <2>4
  <2>6. \A k \in DOMAIN rows : rows'[k].seg = rows[k].seg
    BY <2>1, <2>3, <2>5 DEF Last
  <2>7. NothingCarried' => NothingCarried
    <3> SUFFICES ASSUME NothingCarried', NEW k \in DOMAIN rows, rows[k].seg < seg
                 PROVE  rows[k].out.kind # "token"
      BY DEF NothingCarried
    <3>1. k # Len(rows)
      BY <2>1 DEF Last, IInv, Types
    <3> QED
      BY <1>1, <2>5, <2>6, <3>1 DEF NothingCarried
  <2>8. ASSUME NothingCarried, NEW k \in DOMAIN rows, rows[k].seg = seg
        PROVE  MintedIn(vault, rows'[k].out) /\ MintedIn(vault, rows'[k].sent)
    <3>1. CASE k # Len(rows)
      BY <2>5, <2>8, <3>1 DEF TokenInv
    <3>2. CASE k = Len(rows)
      <4>1. MintedIn(vault, Last.sent)
        BY <2>1, <2>8 DEF TokenInv, Last
      <4>2. o = Plain \/ o = Last.sent
        BY <1>3 DEF Returned, CurrentRow, Last
      <4> QED
        BY <2>3, <2>5, <3>2, <4>1, <4>2 DEF MintedIn, Plain
    <3> QED
      BY <3>1, <3>2
  <2> QED
    BY <1>1, <2>4, <2>5, <2>6, <2>7, <2>8 DEF TokenInv, TokensKeepMeaning
<1> QED
  BY <1>2, <1>3 DEF Critique

LEMMA TokensOfNext == ASSUME IInv, IInv', LifeInv, TokenInv, [Next]_vars PROVE TokenInv'
<1>1. CASE Create \/ Retry \/ Tick \/ UNCHANGED vars
  <2>1. UNCHANGED <<rows, seg, vault, call>> /\ (pc' = "tool" => pc = "tool")
    BY <1>1 DEF Create, Retry, Tick, vars, runVars, policyVars, loopVars
  <2> QED
    BY <2>1, NothingTouched, TokensStay
<1> QED
  BY <1>1, TokensOfRunning, TokensOfToolReturns, TokensOfAnswer, TokensOfStart, TokensOfBegin,
     TokensOfDispatch, TokensOfCritique DEF Next, SegmentStep, LifeInv

\* Within a segment a token keeps its meaning: whatever is retried, replanned or
\* sent twice, it is replaced by the value it was minted for.  The one way to
\* another value is a token that a result carries over from an earlier segment,
\* whose vault is gone (PIITokenVault, a new one in every PolicyEngine).
THEOREM TokensKeptInSegment == Spec => [](NothingCarried => TokensKeepMeaning)
<1>1. Init => TokenInv
  BY DEF Init, TokenInv, TokensKeepMeaning
<1>2. IInv /\ IInv' /\ LifeInv /\ TokenInv /\ [Next]_vars => TokenInv'
  BY TokensOfNext
<1>3. TokenInv => (NothingCarried => TokensKeepMeaning)
  BY DEF TokenInv
<1> QED
  BY <1>1, <1>2, <1>3, Inductive, LifeKept, PTL DEF Spec
=============================================================================
