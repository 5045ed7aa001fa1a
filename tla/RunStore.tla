------------------------------ MODULE RunStore ------------------------------
(***************************************************************************)
(* The runs and steps tables, as the repositories and the executor read    *)
(* them.  A run's step rows are a sequence in insertion order.  A row is   *)
(*    step     the plan step it is an attempt of (Step.name)               *)
(*    num      Step.number: the step's index in the plan of the SEGMENT    *)
(*             that inserted the row (a resumed segment plans only what is *)
(*             left, so numbers start again from 0)                        *)
(*    attempt  1, 2, ... among the rows of the step                        *)
(*    status   Step.status                                                 *)
(*    result   the columns output and error folded into one:               *)
(*      "none"      nothing stored yet                                     *)
(*      "data"      the output of an executed action, truthy               *)
(*      "empty"     the output of an executed action, falsy ({}, "", None) *)
(*      "answer"    the payload of the resume or callback that approved it *)
(*      "approval"  that payload with escalation_approved: TRUE            *)
(*      "error"     the failure of the last of the step's own attempts     *)
(*      "critique"  the same, the failure being a critic's verdict         *)
(*      "refused"   a PolicyViolation or WorkflowStructuralError           *)
(*      "rejected", "timeout"   a suspension that was refused or expired   *)
(***************************************************************************)
EXTENDS Naturals, Sequences, FiniteSets

RunStatus == {"absent", "queued", "running", "suspended", "completed", "failed"}

StepStatus == {"running", "suspended", "completed", "failed", "skipped"}

StepResult == {"none", "data", "empty", "answer", "approval",
               "error", "critique", "refused", "rejected", "timeout"}

\* Run.error of a suspended or failed run.  cb numbers the callback ids a run
\* has been given (uuid4: never the same twice); 0 is "no callback_id".
ErrorType == {"none", "gate", "escalation", "error", "rejected", "timeout", "shutdown"}

RunError == [type : ErrorType, cb : Nat, pre : BOOLEAN]

NoError == [type |-> "none", cb |-> 0, pre |-> FALSE]

ErrorOf(type, cb) == [type |-> type, cb |-> cb, pre |-> FALSE]

StepRow(S) == [step : S, num : Nat, attempt : Nat,
               status : StepStatus, result : StepResult]

----------------------------------------------------------------------------
\* StepRepository.append with attempt = get_max_attempt + 1 (attempts of a step
\* are 1, 2, ... without gaps, so the maximum is their number).
AppendRow(rws, j, n, st) ==
    Append(rws, [step |-> j, num |-> n,
                 attempt |-> Cardinality({k \in DOMAIN rws : rws[k].step = j}) + 1,
                 status |-> st, result |-> "none"])

\* Row updates by primary key: every row of ks gets the status and result given.
SetRows(rws, ks, st, res) ==
    [k \in DOMAIN rws |-> IF k \in ks
                          THEN [rws[k] EXCEPT !.status = st, !.result = res]
                          ELSE rws[k]]

\* Row k is the latest attempt of its step.
IsLatest(rws, k) ==
    \A m \in DOMAIN rws : rws[m].step = rws[k].step => rws[m].attempt <= rws[k].attempt

Suspended(rws) == {k \in DOMAIN rws : rws[k].status = "suspended"}

\* get_first_suspended_for_run: ORDER BY number ASC, attempt DESC LIMIT 1.
FirstSuspendedForRun(rws) ==
    {k \in Suspended(rws) : \A m \in Suspended(rws) :
        \/ rws[k].num < rws[m].num
        \/ rws[k].num = rws[m].num /\ rws[m].attempt <= rws[k].attempt}

\* next(s for s in run.steps if s.status == "suspended") over a detail DTO,
\* whose steps are sorted by (number, attempt).
FirstSuspendedOfDetail(rws) ==
    {k \in Suspended(rws) : \A m \in Suspended(rws) :
        \/ rws[k].num < rws[m].num
        \/ rws[k].num = rws[m].num /\ rws[k].attempt <= rws[m].attempt}

\* The row either query may return, as a set: {} for None.  Rows that tie on
\* (number, attempt) come back in whichever order the database likes.
OneOf(ks) == IF ks = {} THEN {{}} ELSE {{k} : k \in ks}

\* get_first_failed_for_run is not None: some step's latest attempt failed.
HasFailedStep(rws) ==
    \E k \in DOMAIN rws : IsLatest(rws, k) /\ rws[k].status = "failed"

\* Mutants of RestoredSteps: only a step's first attempt counts; any latest
\* attempt that is over counts; an answer to a gate does not count.
FirstAttemptSteps(rws) ==
    {rws[k].step : k \in {m \in DOMAIN rws :
        /\ rws[m].attempt = 1
        /\ rws[m].status = "completed"
        /\ rws[m].result \in {"data", "answer"}}}

EndedSteps(rws) ==
    {rws[k].step : k \in {m \in DOMAIN rws :
        IsLatest(rws, m) /\ rws[m].status \in {"completed", "failed"}}}

ExecutedSteps(rws) ==
    {rws[k].step : k \in {m \in DOMAIN rws :
        IsLatest(rws, m) /\ rws[m].status = "completed" /\ rws[m].result = "data"}}

\* What execute_run restores when it starts: the steps it will not run again
\* (latest attempt completed with a truthy output) ...
RestoredSteps(rws) ==
    {rws[k].step : k \in {m \in DOMAIN rws :
        /\ IsLatest(rws, m)
        /\ rws[m].status = "completed"
        /\ rws[m].result \in {"data", "answer"}}}

\* ... and the steps whose pre-execution escalation was approved.
RestoredApprovals(rws) ==
    {rws[k].step : k \in {m \in DOMAIN rws :
        /\ IsLatest(rws, m)
        /\ rws[m].status = "failed"
        /\ rws[m].result = "approval"}}

\* resolve_suspended_step_on_approval: a suspension from before the action ran
\* has the step run again with the approval recorded; any other is completed.
ResolveOnApproval(rws, ks, err) ==
    IF err.type = "escalation" /\ err.pre
    THEN SetRows(rws, ks, "failed", "approval")
    ELSE SetRows(rws, ks, "completed", "answer")
=============================================================================
