------------------------------ MODULE RunEngine -----------------------------
(***************************************************************************)
(* Saz's run engine in one server process: the worker pool and its         *)
(* bookkeeping (engine/scheduler.py), the executor that walks a run's plan *)
(* (engine/executor.py), the API handlers that create, resume, reject and  *)
(* retry runs (api/routes), and the sweeper that times suspensions out     *)
(* (engine/suspension_sweeper.py), over the shared run and step tables.    *)
(*                                                                         *)
(* One action is one database transaction or one critical section; between *)
(* two actions any other thread may run.  The API handlers are coroutines  *)
(* that never yield between their first read and their call of schedule(), *)
(* so there is one handler at a time (variable api), running concurrently  *)
(* with the pool's threads and with the sweeper's.                         *)
(***************************************************************************)
EXTENDS RunStore

CONSTANTS
    Runs,       \* run ids
    NoRun,      \* no run
    Workers,    \* the pool's threads (EXECUTOR_MAX_WORKERS)
    Plan,       \* the workflow: a sequence of steps, see PlanAssumption
    Eager,      \* may a client act on a run whose last segment is still being
                \* torn down?  FALSE: clients are slower than the teardown.
    Graceful,   \* may the server be shut down (rather than only killed)?
    MaxOps,     \* bound: accepted resumes, rejections and retries per run
    MaxStops    \* bound: how often the process stops

Steps == 1..Len(Plan)

\* What can come of a step when the executor reaches it.
\*    "skip"      its when-guard is false            (no action)
\*    "blocked"   budget exceeded, guard malformed   (no row either)
\*    "data"      its action returned, truthy        "empty"  ... falsy
\*    "gate"      human.approval or webhook.wait: the run suspends
\*    "escPre"    the verifier escalates before the tool runs
\*    "escPost"   the critic escalates after it ran
\*    "refused"   PolicyViolation, WorkflowStructuralError
\*    "error"     its last attempt raised            "critique" ... a verdict
Outcome == {"skip", "blocked", "data", "empty", "gate", "escPre", "escPost",
            "refused", "error", "critique"}

\* onError is PlanStep.error_handling ("fail" also stands for "retry", whose
\* attempts are spent inside the step).  A gate only ever suspends.
ASSUME PlanAssumption ==
    /\ Plan \in Seq([outcomes : SUBSET Outcome, onError : {"fail", "escalate", "continue"}])
    /\ \A j \in Steps : "gate" \in Plan[j].outcomes
          => Plan[j].outcomes \subseteq {"gate", "skip", "blocked"}

ASSUME BoundAssumption ==
    /\ NoRun \notin Runs
    /\ Eager \in BOOLEAN /\ Graceful \in BOOLEAN
    /\ MaxOps \in Nat /\ MaxStops \in Nat

VARIABLES
    status,     \* Run.status
    error,      \* Run.error
    rows,       \* the run's step rows
    issued,     \* how many callback ids the run has been given
    late,       \* runs whose suspension is past its timeout_at
    held,       \* RunScheduler._running_runs
    queue,      \* the pool's work queue
    pc,         \* where each worker is in _execute_run_sync
    job,        \* the run it works on
    left,       \* plan steps its segment has not dealt with yet
    nth,        \* how many it has (enumerate's step_number)
    approved,   \* context["escalation_approvals"]
    api,        \* the handler in progress
    sweep,      \* the sweeper's batch: what it read of each expired run
    phase,      \* "up", or "stopping" once shutdown() was called
    dying,      \* runs shutdown() has still to mark failed
    ops, stops  \* spent bounds

dbVars == <<status, error, rows, issued, late>>
poolVars == <<held, queue>>
workerVars == <<pc, job, left, nth, approved>>
otherVars == <<api, sweep, phase, dying, ops, stops>>
vars == <<dbVars, poolVars, workerVars, otherVars>>

IdleApi == [pc |-> "idle", op |-> "none", run |-> NoRun, target |-> {}, err |-> NoError]

ApiOp == {"none", "create", "resume", "reject", "callback", "callbackReject", "retry"}

Init ==
    /\ status = [r \in Runs |-> "absent"]
    /\ error = [r \in Runs |-> NoError]
    /\ rows = [r \in Runs |-> <<>>]
    /\ issued = [r \in Runs |-> 0]
    /\ late = {}
    /\ held = {}
    /\ queue = <<>>
    /\ pc = [w \in Workers |-> "idle"]
    /\ job = [w \in Workers |-> NoRun]
    /\ left = [w \in Workers |-> {}]
    /\ nth = [w \in Workers |-> 0]
    /\ approved = [w \in Workers |-> {}]
    /\ api = IdleApi
    /\ sweep = {}
    /\ phase = "up"
    /\ dying = {}
    /\ ops = [r \in Runs |-> 0]
    /\ stops = 0

----------------------------------------------------------------------------
(* RunScheduler.  schedule() refuses a run that is held; otherwise it holds
   and submits it.  After shutdown() the submit raises, the run stays held. *)

\* Mutant of Schedule: a run that is held is submitted all the same.
ScheduleAlways(r) ==
    /\ held' = held \cup {r}
    /\ queue' = IF phase = "up" THEN Append(queue, r) ELSE queue

Schedule(r) ==
    IF r \in held
    THEN UNCHANGED poolVars
    ELSE /\ held' = held \cup {r}
         /\ queue' = IF phase = "up" THEN Append(queue, r) ELSE queue

\* A pool thread takes the next task.
Take(w) ==
    /\ pc[w] = "idle"
    /\ queue # <<>>
    /\ queue' = Tail(queue)
    /\ job' = [job EXCEPT ![w] = Head(queue)]
    /\ pc' = [pc EXCEPT ![w] = "load"]
    /\ UNCHANGED <<dbVars, held, left, nth, approved, otherVars>>

\* The end of _execute_run_sync: let go of the run ...
Discard(w) ==
    /\ pc[w] = "teardown"
    /\ held' = held \ {job[w]}
    /\ pc' = [pc EXCEPT ![w] = "recheck"]
    /\ UNCHANGED <<dbVars, queue, job, left, nth, approved, otherVars>>

\* Mutant of Recheck: the thread does not look whether the run was requeued.
RecheckNot(w) ==
    /\ pc[w] = "recheck"
    /\ pc' = [pc EXCEPT ![w] = "idle"]
    /\ job' = [job EXCEPT ![w] = NoRun]
    /\ UNCHANGED <<dbVars, poolVars, left, nth, approved, otherVars>>

\* ... read its status again (_reschedule_if_requeued) ...
Recheck(w) ==
    /\ pc[w] = "recheck"
    /\ IF status[job[w]] = "queued"
       THEN pc' = [pc EXCEPT ![w] = "reschedule"] /\ UNCHANGED job
       ELSE pc' = [pc EXCEPT ![w] = "idle"] /\ job' = [job EXCEPT ![w] = NoRun]
    /\ UNCHANGED <<dbVars, poolVars, left, nth, approved, otherVars>>

\* ... and resubmit it if it was queued meanwhile.
Reschedule(w) ==
    /\ pc[w] = "reschedule"
    /\ Schedule(job[w])
    /\ pc' = [pc EXCEPT ![w] = "idle"]
    /\ job' = [job EXCEPT ![w] = NoRun]
    /\ UNCHANGED <<dbVars, left, nth, approved, otherVars>>

----------------------------------------------------------------------------
(* WorkflowExecutor.execute_run, one segment of a run.  The run's rows are
   read first and the run is marked running in a later transaction, whatever
   its status is by then; the plan is what the rows read leave to be done. *)

Load(w) ==
    /\ pc[w] = "load"
    /\ left' = [left EXCEPT ![w] = Steps \ RestoredSteps(rows[job[w]])]
    /\ approved' = [approved EXCEPT ![w] = RestoredApprovals(rows[job[w]])]
    /\ nth' = [nth EXCEPT ![w] = 0]
    /\ pc' = [pc EXCEPT ![w] = "start"]
    /\ UNCHANGED <<dbVars, poolVars, job, otherVars>>

Start(w) ==
    /\ pc[w] = "start"
    /\ status' = [status EXCEPT ![job[w]] = "running"]
    /\ pc' = [pc EXCEPT ![w] = "loop"]
    /\ UNCHANGED <<error, rows, issued, late, poolVars, job, left, nth, approved, otherVars>>

\* The step the plan loop reaches next.
IsNext(w, j) == j \in left[w] /\ \A i \in left[w] : j <= i

CurrentRow(w) == Len(rows[job[w]])

CurrentStep(w) == rows[job[w]][CurrentRow(w)].step

\* The loop is done with step j: completed_steps.append, next iteration.
PassStep(w, j) ==
    /\ left' = [left EXCEPT ![w] = @ \ {j}]
    /\ nth' = [nth EXCEPT ![w] = @ + 1]

\* execute_run returns: its locals are gone, the thread tears down.
EndSegment(w) ==
    /\ pc' = [pc EXCEPT ![w] = "teardown"]
    /\ left' = [left EXCEPT ![w] = {}]
    /\ nth' = [nth EXCEPT ![w] = 0]
    /\ approved' = [approved EXCEPT ![w] = {}]

MarkFailed(r, type) ==
    /\ status' = [status EXCEPT ![r] = "failed"]
    /\ error' = [error EXCEPT ![r] = ErrorOf(type, 0)]

\* mark_suspended with a fresh callback id and deadline.
MarkSuspended(r, type, pre) ==
    /\ status' = [status EXCEPT ![r] = "suspended"]
    /\ error' = [error EXCEPT ![r] = [type |-> type, cb |-> issued[r] + 1, pre |-> pre]]
    /\ issued' = [issued EXCEPT ![r] = @ + 1]
    /\ late' = late \ {r}

SetCurrentRow(w, st, res) ==
    rows' = [rows EXCEPT ![job[w]] = SetRows(@, {Len(@)}, st, res)]

\* A budget that is spent or a guard that cannot be evaluated fails the run
\* before the step has a row.
FailBeforeStep(w) ==
    /\ pc[w] = "loop"
    /\ \E j \in left[w] : IsNext(w, j) /\ "blocked" \in Plan[j].outcomes
    /\ MarkFailed(job[w], "error")
    /\ EndSegment(w)
    /\ UNCHANGED <<rows, issued, late, poolVars, job, otherVars>>

SkipStep(w) ==
    /\ pc[w] = "loop"
    /\ \E j \in left[w] :
          /\ IsNext(w, j)
          /\ "skip" \in Plan[j].outcomes
          /\ rows' = [rows EXCEPT ![job[w]] = AppendRow(@, j, nth[w], "skipped")]
          /\ PassStep(w, j)
    /\ UNCHANGED <<status, error, issued, late, poolVars, pc, job, approved, otherVars>>

\* Mutant of BeginStep: the action runs before its row is inserted.
BeginUnrecorded(w) ==
    /\ pc[w] = "loop"
    /\ \E j \in left[w] : IsNext(w, j) /\ Plan[j].outcomes \ {"skip", "blocked"} # {}
    /\ pc' = [pc EXCEPT ![w] = "act"]
    /\ UNCHANGED <<dbVars, poolVars, job, left, nth, approved, otherVars>>

BeginStep(w) ==
    /\ pc[w] = "loop"
    /\ \E j \in left[w] :
          /\ IsNext(w, j)
          /\ Plan[j].outcomes \ {"skip", "blocked"} # {}
          /\ rows' = [rows EXCEPT ![job[w]] = AppendRow(@, j, nth[w], "running")]
    /\ pc' = [pc EXCEPT ![w] = "act"]
    /\ UNCHANGED <<status, error, issued, late, poolVars, job, left, nth, approved, otherVars>>

\* _execute_step_action comes back with outcome o.
Acting(w, o) ==
    /\ pc[w] = "act"
    /\ o \in Plan[CurrentStep(w)].outcomes

CompleteStep(w) ==
    /\ \E o \in {"data", "empty"} :
          /\ Acting(w, o)
          /\ SetCurrentRow(w, "completed", o)
    /\ PassStep(w, CurrentStep(w))
    /\ pc' = [pc EXCEPT ![w] = "loop"]
    /\ UNCHANGED <<status, error, issued, late, poolVars, job, approved, otherVars>>

\* human.approval, webhook.wait, and the critic's two escalations; the verifier
\* does not escalate again what a human approved.
Suspend(w) ==
    /\ \/ Acting(w, "gate") /\ MarkSuspended(job[w], "gate", FALSE)
       \/ Acting(w, "escPost") /\ MarkSuspended(job[w], "escalation", FALSE)
       \/ /\ Acting(w, "escPre")
          /\ CurrentStep(w) \notin approved[w]
          /\ MarkSuspended(job[w], "escalation", TRUE)
    /\ SetCurrentRow(w, "suspended", "none")
    /\ EndSegment(w)
    /\ UNCHANGED <<poolVars, job, otherVars>>

\* The step and the run fail in one transaction.
RefuseStep(w) ==
    /\ Acting(w, "refused")
    /\ SetCurrentRow(w, "failed", "refused")
    /\ MarkFailed(job[w], "error")
    /\ EndSegment(w)
    /\ UNCHANGED <<issued, late, poolVars, job, otherVars>>

\* The last attempt raised: the step fails first, then error_handling decides.
FailStep(w) ==
    /\ \E o \in {"error", "critique"} :
          /\ Acting(w, o)
          /\ SetCurrentRow(w, "failed", o)
    /\ pc' = [pc EXCEPT ![w] = "handle"]
    /\ UNCHANGED <<status, error, issued, late, poolVars, job, left, nth, approved, otherVars>>

\* Mutant of Handling: error_handling is not looked at.
HandlingAnyhow(w, policies) == pc[w] = "handle" /\ policies # {}

Handling(w, policies) ==
    /\ pc[w] = "handle"
    /\ IF rows[job[w]][CurrentRow(w)].result = "critique"
       THEN "fail" \in policies
       ELSE Plan[CurrentStep(w)].onError \in policies

FailRun(w) ==
    /\ Handling(w, {"fail"})
    /\ MarkFailed(job[w], "error")
    /\ EndSegment(w)
    /\ UNCHANGED <<rows, issued, late, poolVars, job, otherVars>>

EscalateFailure(w) ==
    /\ Handling(w, {"escalate"})
    /\ MarkSuspended(job[w], "escalation", FALSE)
    /\ EndSegment(w)
    /\ UNCHANGED <<rows, poolVars, job, otherVars>>

ContinueOnFailure(w) ==
    /\ Handling(w, {"continue"})
    /\ PassStep(w, CurrentStep(w))
    /\ pc' = [pc EXCEPT ![w] = "loop"]
    /\ UNCHANGED <<dbVars, poolVars, job, approved, otherVars>>

CompleteRun(w) ==
    /\ pc[w] = "loop"
    /\ left[w] = {}
    /\ status' = [status EXCEPT ![job[w]] = "completed"]
    /\ EndSegment(w)
    /\ UNCHANGED <<error, rows, issued, late, poolVars, job, otherVars>>

WorkerStep(w) ==
    \/ Take(w) \/ Load(w) \/ Start(w)
    \/ FailBeforeStep(w) \/ SkipStep(w) \/ BeginStep(w)
    \/ CompleteStep(w) \/ Suspend(w) \/ RefuseStep(w) \/ FailStep(w)
    \/ FailRun(w) \/ EscalateFailure(w) \/ ContinueOnFailure(w)
    \/ CompleteRun(w)
    \/ Discard(w) \/ Recheck(w) \/ Reschedule(w)

----------------------------------------------------------------------------
(* The API handlers.  Each reads the run, decides, and (in a later
   transaction, with what it read) writes; those that queue a run then call
   schedule().  A refused request changes nothing and is not an action.
   Who may call them (approvers, owner, role) is not modelled here. *)

Untouched(r) == r \notin held /\ \A w \in Workers : job[w] # r

HandlerFree(r) == phase = "up" /\ api.pc = "idle" /\ (Eager \/ Untouched(r))

CreateRun(r) ==
    /\ phase = "up" /\ api.pc = "idle"
    /\ status[r] = "absent"
    /\ status' = [status EXCEPT ![r] = "queued"]
    /\ api' = [pc |-> "schedule", op |-> "create", run |-> r, target |-> {}, err |-> NoError]
    /\ UNCHANGED <<error, rows, issued, late, poolVars, workerVars, sweep, phase, dying, ops, stops>>

Admit(r, op, target) ==
    /\ HandlerFree(r)
    /\ ops[r] < MaxOps
    /\ api' = [pc |-> "claim", op |-> op, run |-> r, target |-> target, err |-> error[r]]
    /\ UNCHANGED <<dbVars, poolVars, workerVars, sweep, phase, dying, ops, stops>>

\* POST /runs/{id}/resume, approving or with {"approved": false}.
ReadForResume(r) ==
    /\ status[r] = "suspended"
    /\ \E op \in {"resume", "reject"}, t \in OneOf(FirstSuspendedOfDetail(rows[r])) :
          Admit(r, op, t)

\* POST /webhooks/callback/{callback_id}: the run is found by the callback_id
\* in its error; one that is not suspended any more was already processed.
ReadForCallback(r) ==
    \E cb \in 1..issued[r] :
        /\ error[r].cb = cb
        /\ status[r] = "suspended"
        /\ \E op \in {"callback", "callbackReject"}, t \in OneOf(FirstSuspendedForRun(rows[r])) :
              Admit(r, op, t)

\* POST /runs/{id}/retry.
ReadForRetry(r) ==
    /\ status[r] = "failed"
    /\ HasFailedStep(rows[r])
    /\ Admit(r, "retry", {})

Claiming(kinds) == api.pc = "claim" /\ api.op \in kinds

Spend == ops' = [ops EXCEPT ![api.run] = @ + 1]

\* Mutant of Approve: the UPDATE is not guarded by the status.
ApproveUnguarded ==
    LET r == api.run IN
    /\ Claiming({"resume", "callback"})
    /\ status' = [status EXCEPT ![r] = "queued"]
    /\ error' = [error EXCEPT ![r] = IF api.op = "callback" THEN api.err ELSE NoError]
    /\ rows' = [rows EXCEPT ![r] = ResolveOnApproval(@, api.target, api.err)]
    /\ late' = late \ {r}
    /\ api' = [api EXCEPT !.pc = "schedule"]
    /\ Spend
    /\ UNCHANGED <<issued, poolVars, workerVars, sweep, phase, dying, stops>>

\* mark_queued_if_suspended matched its row: the suspended step is resolved in
\* the same transaction.  A callback keeps the callback_id in the error, a
\* resume clears it.
Approve ==
    LET r == api.run IN
    /\ Claiming({"resume", "callback"})
    /\ status[r] = "suspended"
    /\ status' = [status EXCEPT ![r] = "queued"]
    /\ error' = [error EXCEPT ![r] = IF api.op = "callback" THEN api.err ELSE NoError]
    /\ rows' = [rows EXCEPT ![r] = ResolveOnApproval(@, api.target, api.err)]
    /\ late' = late \ {r}
    /\ api' = [api EXCEPT !.pc = "schedule"]
    /\ Spend
    /\ UNCHANGED <<issued, poolVars, workerVars, sweep, phase, dying, stops>>

\* Mutant of Reject: the run fails, its suspended step does not.
RejectRunOnly ==
    LET r == api.run IN
    /\ Claiming({"reject", "callbackReject"})
    /\ status[r] = "suspended"
    /\ MarkFailed(r, "rejected")
    /\ late' = late \ {r}
    /\ api' = IdleApi
    /\ Spend
    /\ UNCHANGED <<rows, issued, poolVars, workerVars, sweep, phase, dying, stops>>

\* mark_failed_if_suspended matched: the suspended step fails with the run.
Reject ==
    LET r == api.run IN
    /\ Claiming({"reject", "callbackReject"})
    /\ status[r] = "suspended"
    /\ status' = [status EXCEPT ![r] = "failed"]
    /\ error' = [error EXCEPT ![r] =
                    ErrorOf("rejected", IF api.op = "reject" THEN 0 ELSE api.err.cb)]
    /\ rows' = [rows EXCEPT ![r] = SetRows(@, api.target, "failed", "rejected")]
    /\ late' = late \ {r}
    /\ api' = IdleApi
    /\ Spend
    /\ UNCHANGED <<issued, poolVars, workerVars, sweep, phase, dying, stops>>

\* The guarded UPDATE matched no row: someone else moved the run.
LoseClaim ==
    /\ Claiming({"resume", "reject", "callback", "callbackReject"})
    /\ status[api.run] # "suspended"
    /\ api' = IdleApi
    /\ UNCHANGED <<dbVars, poolVars, workerVars, sweep, phase, dying, ops, stops>>

\* RunService.retry writes without looking again.
RequeueFailed ==
    LET r == api.run IN
    /\ Claiming({"retry"})
    /\ status' = [status EXCEPT ![r] = "queued"]
    /\ error' = [error EXCEPT ![r] = NoError]
    /\ api' = [api EXCEPT !.pc = "schedule"]
    /\ Spend
    /\ UNCHANGED <<rows, issued, late, poolVars, workerVars, sweep, phase, dying, stops>>

ApiSchedule ==
    /\ api.pc = "schedule"
    /\ Schedule(api.run)
    /\ api' = IdleApi
    /\ UNCHANGED <<dbVars, workerVars, sweep, phase, dying, ops, stops>>

Request(r) ==
    CreateRun(r) \/ ReadForResume(r) \/ ReadForCallback(r) \/ ReadForRetry(r)

ApiStep == Approve \/ Reject \/ LoseClaim \/ RequeueFailed \/ ApiSchedule

----------------------------------------------------------------------------
(* SuspensionSweeper.sweep_once: find the suspended runs past their deadline,
   then fail each that is still suspended. *)

DeadlinePasses(r) ==
    /\ status[r] = "suspended"
    /\ r \notin late
    /\ late' = late \cup {r}
    /\ UNCHANGED <<status, error, rows, issued, poolVars, workerVars, otherVars>>

\* Mutant of Expired: an escalation is not looked for.
ExpiredGates == {r \in late : status[r] = "suspended" /\ error[r].type = "gate"}

Expired == {r \in late : status[r] = "suspended"}

Discover ==
    /\ sweep = {}
    /\ Expired # {}
    /\ sweep' = {[run |-> r, err |-> error[r]] : r \in Expired}
    /\ UNCHANGED <<dbVars, poolVars, workerVars, api, phase, dying, ops, stops>>

TimeOut(e) ==
    /\ e \in sweep
    /\ sweep' = sweep \ {e}
    /\ IF status[e.run] = "suspended"
       THEN /\ status' = [status EXCEPT ![e.run] = "failed"]
            /\ error' = [error EXCEPT ![e.run] = ErrorOf("timeout", e.err.cb)]
            /\ \E t \in OneOf(FirstSuspendedForRun(rows[e.run])) :
                  rows' = [rows EXCEPT ![e.run] = SetRows(@, t, "failed", "timeout")]
            /\ late' = late \ {e.run}
       ELSE UNCHANGED <<status, error, rows, late>>
    /\ UNCHANGED <<issued, poolVars, workerVars, api, phase, dying, ops, stops>>

SweepStep == Discover \/ \E e \in sweep : TimeOut(e)

----------------------------------------------------------------------------
(* The process stops: it is killed, or shut down and then killed or drained.
   shutdown(wait=False) fails every held run while its thread keeps going. *)

Shutdown ==
    /\ Graceful /\ stops < MaxStops
    /\ phase = "up" /\ api.pc = "idle"
    /\ phase' = "stopping"
    /\ dying' = held
    /\ UNCHANGED <<dbVars, poolVars, workerVars, api, sweep, ops, stops>>

ShutdownMark(r) ==
    /\ phase = "stopping"
    /\ r \in dying
    /\ MarkFailed(r, "shutdown")
    /\ dying' = dying \ {r}
    /\ UNCHANGED <<rows, issued, late, poolVars, workerVars, api, sweep, phase, ops, stops>>

\* Only the tables survive; a new process rescans nothing.
Restart ==
    /\ stops < MaxStops
    /\ stops' = stops + 1
    /\ held' = {} /\ queue' = <<>>
    /\ pc' = [w \in Workers |-> "idle"]
    /\ job' = [w \in Workers |-> NoRun]
    /\ left' = [w \in Workers |-> {}]
    /\ nth' = [w \in Workers |-> 0]
    /\ approved' = [w \in Workers |-> {}]
    /\ api' = IdleApi /\ sweep' = {}
    /\ phase' = "up" /\ dying' = {}
    /\ UNCHANGED <<dbVars, ops>>

----------------------------------------------------------------------------
Next ==
    \/ \E w \in Workers : WorkerStep(w)
    \/ \E r \in Runs : Request(r)
    \/ ApiStep
    \/ \E r \in Runs : DeadlinePasses(r)
    \/ SweepStep
    \/ Shutdown \/ \E r \in Runs : ShutdownMark(r)
    \/ Restart

Spec == Init /\ [][Next]_vars

\* Threads, a handler that was admitted, and the sweep job run on.
Fairness ==
    /\ \A w \in Workers : WF_vars(WorkerStep(w))
    /\ WF_vars(ApiStep)
    /\ WF_vars(SweepStep)

FairSpec == Spec /\ Fairness

----------------------------------------------------------------------------
(* Properties. *)

PC == {"idle", "load", "start", "loop", "act", "handle",
       "teardown", "recheck", "reschedule"}

DbType ==
    /\ status \in [Runs -> RunStatus]
    /\ error \in [Runs -> RunError]
    /\ rows \in [Runs -> Seq(StepRow(Steps))]
    /\ issued \in [Runs -> Nat]
    /\ late \subseteq Runs

PoolType == held \subseteq Runs /\ queue \in Seq(Runs)

\* A worker that left "idle" has a run, and one that is at a step has its row.
WorkerType ==
    /\ pc \in [Workers -> PC]
    /\ job \in [Workers -> Runs \cup {NoRun}]
    /\ left \in [Workers -> SUBSET Steps]
    /\ nth \in [Workers -> Nat]
    /\ approved \in [Workers -> SUBSET Steps]
    /\ \A w \in Workers :
          /\ pc[w] # "idle" => job[w] \in Runs
          /\ pc[w] \in {"act", "handle"} => rows[job[w]] # <<>>

OtherType ==
    /\ api \in [pc : {"idle", "claim", "schedule"}, op : ApiOp, run : Runs \cup {NoRun},
                target : SUBSET Nat, err : RunError]
    /\ api.pc # "idle" => api.run \in Runs
    /\ sweep \subseteq [run : Runs, err : RunError]
    /\ phase \in {"up", "stopping"}
    /\ dying \subseteq Runs
    /\ ops \in [Runs -> Nat]
    /\ stops \in Nat

\* Every variable has its type.
TypeOK == DbType /\ PoolType /\ WorkerType /\ OtherType

\* A worker between taking a run and letting go of it.
Busy(w) == pc[w] \notin {"idle", "recheck", "reschedule"}

\* One execution per run: a run that is held is in the pool at most once, as a
\* queued task or in one thread, and every run in the pool is held.  Two threads
\* on one run would append the same attempt number twice and run a step twice.
OneExecutionPerRun ==
    /\ \A w \in Workers : Busy(w) => job[w] \in held
    /\ \A w1, w2 \in Workers : Busy(w1) /\ Busy(w2) /\ job[w1] = job[w2] => w1 = w2
    /\ \A i \in DOMAIN queue :
          /\ queue[i] \in held
          /\ \A w \in Workers : Busy(w) => job[w] # queue[i]
          /\ \A m \in DOMAIN queue : queue[m] = queue[i] => m = i

\* The step was dealt with: executed, approved, skipped, or failed with a plan
\* that says to go on.  A gate is only ever settled by an approval or a guard.
SettledRow(row) ==
    \/ row.status \in {"completed", "skipped"}
    \/ /\ row.status = "failed" /\ row.result = "error"
       /\ Plan[row.step].onError = "continue"

Settled(rws) == {rws[k].step : k \in {m \in DOMAIN rws : SettledRow(rws[m])}}

Begun(rws) == {rws[k].step : k \in DOMAIN rws}

\* No step is begun before all earlier steps of the plan were settled, whatever
\* the order of resumes, rejections, timeouts, retries and restarts: nothing
\* behind a gate runs unless the gate was approved.
PassedInOrder ==
    \A r \in Runs : \A k \in DOMAIN rows[r] : \A i \in 1..(rows[r][k].step - 1) :
        \E m \in 1..(k - 1) : rows[r][m].step = i /\ SettledRow(rows[r][m])

\* A run is completed only when every step of its plan was settled.
CompletedIsDone ==
    \A r \in Runs : status[r] = "completed" => Settled(rows[r]) = Steps

\* A suspended step row belongs to the suspension its run is in: it is the run's
\* latest row, the only suspended one, and a run that failed, was requeued or
\* completed owns none ("A run has at most one suspended step at a time").
SuspensionsMatch ==
    \A r \in Runs : \A k \in Suspended(rows[r]) :
        /\ status[r] = "suspended"
        /\ k = Len(rows[r])

AtMostOneSuspendedStep ==
    \A r \in Runs : \A k, m \in Suspended(rows[r]) : k = m

\* A step whose action ran to completion with a result is not begun again: its
\* side effect is not repeated by any resume, retry or restart.
NotRepeated(res) ==
    \A r \in Runs : \A k \in DOMAIN rows[r] :
        rows[r][k].status = "completed" /\ rows[r][k].result \in res
            => \A m \in (k + 1)..Len(rows[r]) : rows[r][m].step # rows[r][k].step

ResultNotRepeated == NotRepeated({"data"})

AnswerNotRepeated == NotRepeated({"data", "answer"})

\* "mark the step handled so a resume does not re-run it": a skipped step.
SkippedNotRepeated ==
    \A r \in Runs : \A k, m \in DOMAIN rows[r] :
        rows[r][k].status = "skipped" /\ rows[r][m].step = rows[r][k].step => m <= k

\* The sweeper fails a run only for a deadline of the suspension it is in.
TimedOutWhenLate ==
    [][\A r \in Runs :
          error[r].type # "timeout" /\ error'[r].type = "timeout" => r \in late]_vars

\* No wake-up is lost while the process lives: a queued run is held by the
\* scheduler, or a handler or a thread is about to schedule it; and what is held
\* is in the pool.
InPool(r) ==
    \/ \E i \in DOMAIN queue : queue[i] = r
    \/ \E w \in Workers : Busy(w) /\ job[w] = r

QueuedIsOwned ==
    stops = 0 /\ phase = "up" =>
        /\ \A r \in held : InPool(r)
        /\ \A r \in Runs : status[r] = "queued" =>
              \/ r \in held
              \/ api.pc = "schedule" /\ api.run = r
              \/ \E w \in Workers : pc[w] \in {"recheck", "reschedule"} /\ job[w] = r

\* While the process lives a queued run is picked up: no resume, callback or retry
\* is lost, even one that arrives while the previous segment's thread still holds
\* the run, and no suspended segment keeps its thread.
QueuedIsPickedUp ==
    \A r \in Runs :
        status[r] = "queued" ~> (status[r] # "queued" \/ stops > 0 \/ phase # "up")

\* A suspension past its deadline ends, by the sweeper if by nobody else.
LateSuspensionEnds ==
    \A r \in Runs : (status[r] = "suspended" /\ r \in late)
                        ~> ~(status[r] = "suspended" /\ r \in late)

\* With clients slower than a segment's teardown and no graceful shutdown, the
\* engine implements the life cycle a run promises.
Gates == {j \in Steps : "gate" \in Plan[j].outcomes}

Lifecycle == INSTANCE RunLifecycle WITH
    begun <- [r \in Runs |-> Begun(rows[r])],
    settled <- [r \in Runs |-> Settled(rows[r])]

ImplementsLifecycle == Lifecycle!Spec
=============================================================================
