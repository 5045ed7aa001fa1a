---------------------------- MODULE StepExecution ---------------------------
(***************************************************************************)
(* The inside of a run's steps: WorkflowExecutor from the plan loop down   *)
(* (engine/executor.py), with the policy engine, the budget tracker and    *)
(* the rate limiter it consults, the verifier, the critic and the planner  *)
(* it calls, and the tools.  One run is followed through all its segments: *)
(* the policy engine is new in every segment and only the step rows carry  *)
(* anything over.                                                          *)
(*                                                                         *)
(* One action is the code between two awaits of a model, a tool or a       *)
(* backoff; the clock may advance at every one of them.  The threads,      *)
(* requests and crashes around a segment are RunEngine's subject.          *)
(***************************************************************************)
EXTENDS PiiTokens, FiniteSets

CONSTANTS
    Tools,
    Class,          \* tool -> model, outbound or local
    Declared,       \* derive_declared_tools: the workflow's own tools
    Plan,           \* the workflow's steps, see PlanAssumption
    Revisions,      \* the steps a replanning model may answer with
    MaxReplan,      \* max_replan_attempts
    MaxTokens, MaxTime,     \* the budget ...
    StepCaps,       \* ... and what max_steps may be
    PerMinute, PerHour, Minute, Hour,   \* rate limits and their windows
    MaxCallCost,    \* tokens one call of planner, verifier or critic may take
    MaxToolCost,    \* tokens a tool may report
    MaxSegments,    \* bound: segments of the run
    MaxClock        \* bound: time

Steps == 1..Len(Plan)

\* What is grounded: which step and tool the call names, and where its argument
\* goes (allow-listed path or not) and comes from (a form field or a step).
\* sound is FALSE when grounding fails on it: unknown tool, missing argument,
\* unresolved template, a secret that cannot be decrypted.
CallRecord == [step : Steps, tool : Tools, allowed : BOOLEAN,
               form : Values \cup {NoValue}, from : Nat, sound : BOOLEAN]

CallCosts == 0..MaxCallCost

Policy == {"fail", "escalate", "continue"}

\* "fail" stands for RETRY too: no attempts are left when either is looked at.
ASSUME PlanAssumption ==
    /\ Plan \in Seq([call : CallRecord, retries : Nat, onError : Policy]) /\ Plan # << >>
    /\ \A j \in Steps : Plan[j].call.step = j
    /\ Revisions \subseteq CallRecord
    /\ Class \in [Tools -> ToolClass] /\ Declared \subseteq Tools

ASSUME BoundsAssumption ==
    /\ MaxTokens \in Nat \ {0} /\ StepCaps \subseteq Nat /\ MaxTime \in Nat /\ MaxReplan \in Nat
    /\ PerMinute \in Nat /\ PerHour \in Nat /\ Minute \in Nat /\ Hour \in Nat
    /\ MaxCallCost \in Nat /\ MaxToolCost \in Nat
    /\ MaxSegments \in Nat /\ MaxClock \in Nat

VARIABLES
    mode,       \* planner_mode of the workflow
    maxSteps,   \* max_steps of its policies
    status,     \* Run.status
    escalated,  \* Run.error of a suspension: "pre", "post" or "failure"
    rows,       \* the run's step rows, in insertion order
    persisted,  \* the sum of their tokens columns
    seg,        \* segments begun
    clock,
    pc,         \* where the segment is
    began,      \* BudgetTracker: start_time
    used,       \* tokens_used
    slots,      \* steps_executed
    minute,     \* RateLimiter: _minute_buckets, per tool
    hour,       \* _hour_buckets of the run
    vault,      \* the token vault
    done,       \* context["completed_steps"]
    approvals,  \* context["escalation_approvals"]
    cur,        \* the plan step in progress
    attempt,    \* of its retry loop, 0-based
    replans,    \* of its grounding loop
    call,       \* the grounded tool call
    fault,      \* how the last attempt ended
    ran         \* when each tool ran in this segment (observation only)

runVars == <<mode, maxSteps, status, escalated, rows, persisted, seg, clock>>
policyVars == <<began, used, slots, minute, hour, vault>>
loopVars == <<done, approvals, cur, attempt, replans, call, fault>>
vars == <<runVars, pc, policyVars, loopVars, ran>>

Row == [step : Steps, status : {"running", "suspended", "completed", "failed"},
        result : {"none", "data", "answer", "approval", "rejected", "refused",
                  "error", "policy", "critique"},
        tokens : Nat, out : Content, sent : Content, path : BOOLEAN, tool : Tools,
        by : {"none", "verifier", "human"}, as : Steps, seg : Nat]

Fault == {"none", "error", "policy", "critique"}

PC == {"none", "idle", "plan", "loop", "ground", "verify", "replan", "execute",
       "tool", "critique", "handle"}

NoCall == Plan[1].call

Init ==
    /\ mode \in {"agentic", "deterministic"} /\ maxSteps \in StepCaps
    /\ status = "absent" /\ escalated = "none"
    /\ rows = <<>> /\ persisted = 0
    /\ seg = 0 /\ clock = 0 /\ pc = "none"
    /\ began = 0 /\ used = 0 /\ slots = 0
    /\ minute = [t \in Tools |-> <<>>] /\ hour = <<>> /\ vault = <<>>
    /\ done = {} /\ approvals = {}
    /\ cur = 1 /\ attempt = 0 /\ replans = 0 /\ call = NoCall /\ fault = "none"
    /\ ran = [t \in Tools |-> <<>>]

Create ==
    /\ status = "absent"
    /\ status' = "queued"
    /\ pc' = "idle"
    /\ UNCHANGED <<mode, maxSteps, escalated, rows, persisted, seg, clock, policyVars, loopVars, ran>>

----------------------------------------------------------------------------
(* A segment begins: a new policy engine, the usage of earlier segments
   replayed from the rows, results and approvals restored from them. *)

Latest(k) == \A m \in DOMAIN rows : rows[m].step = rows[k].step => m <= k

LatestWith(results) ==
    {rows[k].step : k \in {m \in DOMAIN rows : Latest(m) /\ rows[m].result \in results}}

\* Mutant of PriorSteps: only completed rows took a step of the budget.
NoPriorSteps == 0

PriorSteps == Cardinality({k \in DOMAIN rows : rows[k].status \in {"completed", "failed"}})

\* Mutant of Approvals: any escalation that was answered counts as approved.
AnsweredEscalations == LatestWith({"approval", "rejected"})

Approvals == LatestWith({"approval"})

\* Mutant of Seeded: a fresh tracker is left as it is.
Unseeded == 0

\* BudgetTracker.seed_usage, which ignores a sum that is not positive.
Seeded == IF persisted > 0 THEN persisted ELSE 0

Start ==
    /\ status = "queued" /\ pc = "idle"
    /\ seg < MaxSegments
    /\ status' = "running" /\ escalated' = "none"
    /\ seg' = seg + 1
    /\ pc' = "plan"
    /\ began' = clock
    /\ used' = Seeded
    /\ slots' = PriorSteps
    /\ minute' = [t \in Tools |-> <<>>] /\ hour' = <<>> /\ vault' = <<>>
    /\ done' = LatestWith({"data", "answer"})
    /\ approvals' = Approvals
    /\ ran' = [t \in Tools |-> <<>>]
    /\ UNCHANGED <<mode, maxSteps, rows, persisted, clock, cur, attempt, replans, call, fault>>

\* A loop-local that nobody reads after the segment is forgotten.
Leave(st) ==
    /\ status' = st
    /\ pc' = "idle"
    /\ cur' = 1 /\ attempt' = 0 /\ replans' = 0 /\ call' = NoCall
    /\ done' = {} /\ approvals' = {} /\ fault' = "none"

\* BudgetTracker.record_tokens
RecordTokens(u) == used' = used + u

\* BudgetTracker.check_budget says no (after u tokens).
ExhaustedAt(u) == u >= MaxTokens \/ slots >= maxSteps \/ clock - began >= MaxTime

\* Planning costs a model call in agentic mode, and is gated by the budget there.
PlanRun ==
    /\ pc = "plan"
    /\ \/ /\ mode = "deterministic"
          /\ pc' = "loop"
          /\ UNCHANGED <<status, used, loopVars>>
       \/ /\ mode = "agentic" /\ ~ExhaustedAt(used)
          /\ \E c \in CallCosts : RecordTokens(c)
          /\ pc' = "loop"
          /\ UNCHANGED <<status, loopVars>>
       \/ /\ mode = "agentic"     \* spent, or the planner raised
          /\ Leave("failed")
          /\ UNCHANGED used
    /\ UNCHANGED <<mode, maxSteps, escalated, rows, persisted, seg, clock,
                   began, slots, minute, hour, vault, ran>>

----------------------------------------------------------------------------
(* The plan loop. *)

IsNext(j) == j \in Steps \ done /\ \A i \in Steps \ done : j <= i

CompleteRun ==
    /\ pc = "loop" /\ Steps \subseteq done
    /\ Leave("completed")
    /\ UNCHANGED <<mode, maxSteps, escalated, rows, persisted, seg, clock, policyVars, ran>>

FailBeforeStep ==
    /\ pc = "loop" /\ ~(Steps \subseteq done)
    /\ ExhaustedAt(used)
    /\ Leave("failed")
    /\ UNCHANGED <<mode, maxSteps, escalated, rows, persisted, seg, clock, policyVars, ran>>

NewRow(j) == [step |-> j, status |-> "running", result |-> "none", tokens |-> 0,
              out |-> Plain, sent |-> Plain, path |-> TRUE, tool |-> Plan[j].call.tool,
              by |-> "none", as |-> j, seg |-> seg]

\* Each attempt grounds the step as planned, whatever a replan made of it.
BeginAttempt(j) ==
    /\ pc' = "ground"
    /\ call' = Plan[j].call
    /\ replans' = 0

BeginStep ==
    /\ pc = "loop" /\ ~ExhaustedAt(used)
    /\ \E j \in Steps :
          /\ IsNext(j)
          /\ rows' = Append(rows, NewRow(j))
          /\ cur' = j /\ attempt' = 0 /\ fault' = "none"
          /\ BeginAttempt(j)
    /\ UNCHANGED <<mode, maxSteps, status, escalated, persisted, seg, clock, policyVars, done, approvals, ran>>

CurrentRow == Len(rows)

\* The row a grounded call is charged to: the latest of the step it names.
RowsOf(j) == {k \in DOMAIN rows : rows[k].step = j /\ Latest(k)}

Ended(rws, st, res) ==
    [rws EXCEPT ![CurrentRow] = [@ EXCEPT !.status = st, !.result = res]]

\* PolicyViolation (the executor's own) or WorkflowStructuralError: the step and
\* the run fail, no attempt is left.
Refuse(rws) == rows' = Ended(rws, "failed", "refused") /\ Leave("failed")

\* EscalationRequired.
Escalate(kind) ==
    /\ rows' = Ended(rows, "suspended", "none")
    /\ escalated' = kind
    /\ Leave("suspended")

\* Mutant of LastAttempt: the number of attempts is never reached.
NoLastAttempt == FALSE

LastAttempt == attempt = Plan[cur].retries

\* Any other exception: the next attempt, or the step fails and error_handling
\* is looked at next.
Raise(kind) ==
    /\ fault' = kind
    /\ IF LastAttempt
       THEN /\ rows' = Ended(rows, "failed", kind)
            /\ pc' = "handle"
            /\ UNCHANGED <<attempt, replans, call>>
       ELSE /\ attempt' = attempt + 1
            /\ BeginAttempt(cur)
            /\ UNCHANGED rows
    /\ UNCHANGED <<status, done, approvals, cur>>

----------------------------------------------------------------------------
(* _ground_and_verify, up to the verifier's verdict. *)

Enforced == Declared # {} \/ mode = "agentic"

Permitted == Enforced => call.tool \in Declared

\* What the call's argument resolves to: a form field or an earlier output.
Output(j) ==
    IF j \in Steps /\ \E k \in RowsOf(j) : rows[k].status = "completed"
    THEN rows[CHOOSE k \in RowsOf(j) : TRUE].out
    ELSE Plain

Argument == IF call.form # NoValue THEN Pii(call.form) ELSE Output(call.from)

\* RateLimiter._check_bucket keeps the calls later than now - window; they were
\* recorded in the order of time, so the others come first.
Within(bucket, window) ==
    LET expired == {k \in DOMAIN bucket : bucket[k] + window <= clock} IN
    SubSeq(bucket, Cardinality(expired) + 1, Len(bucket))

\* Mutant of Limited: one call too many is let through.
LimitedLate ==
    \/ Len(Within(minute[call.tool], Minute)) > PerMinute
    \/ Len(Within(hour, Hour)) > PerHour

Limited ==
    \/ Len(Within(minute[call.tool], Minute)) >= PerMinute
    \/ Len(Within(hour, Hour)) >= PerHour

\* Grounding fails, the tool is not one of the workflow's, or it is rate limited.
\* A secret that is not stored, or a call that names a step without a row, is an
\* ordinary error instead.
Unproposed ==
    /\ pc = "ground"
    /\ \/ (~call.sound \/ (RowsOf(call.step) # {} /\ (~Permitted \/ Limited))) /\ Refuse(rows)
       \/ call.sound /\ Raise("error")
    /\ UNCHANGED <<mode, maxSteps, escalated, persisted, seg, clock, policyVars, ran>>

\* The limiter records the call before the budget and the personal data are
\* looked at; both refuse for good.
Propose ==
    /\ pc = "ground"
    /\ call.sound /\ RowsOf(call.step) # {} /\ Permitted /\ ~Limited
    /\ minute' = [minute EXCEPT ![call.tool] = Append(Within(@, Minute), clock)]
    /\ hour' = Append(Within(hour, Hour), clock)
    /\ IF ExhaustedAt(used) \/ PiiRefused(Class[call.tool], Argument, call.allowed)
       THEN Refuse(rows)
       ELSE pc' = "verify" /\ UNCHANGED <<status, rows, loopVars>>
    /\ UNCHANGED <<mode, maxSteps, escalated, persisted, seg, clock, began, used, slots, vault, ran>>

\* The call may run: on the verifier's word, or on a human's.
Proceed(by) ==
    /\ rows' = [rows EXCEPT ![CurrentRow] = [@ EXCEPT !.by = by, !.as = call.step]]
    /\ pc' = "execute"
    /\ UNCHANGED <<status, escalated, loopVars>>

\* A verdict; a provider that cannot be reached is an error without cost, an
\* answer that cannot be parsed escalates.
Verify ==
    /\ pc = "verify"
    /\ \/ Raise("error") /\ UNCHANGED <<used, escalated>>
       \/ /\ \E c \in CallCosts : RecordTokens(c)
          /\ \/ Proceed("verifier")
             \/ call.step \in approvals /\ Proceed("human")
             \/ call.step \notin approvals /\ Escalate("pre")
             \/ Raise("critique") /\ UNCHANGED escalated    \* FAIL, or REPLAN in vain
             \/ /\ mode = "agentic" /\ replans < MaxReplan
                /\ pc' = "replan"
                /\ UNCHANGED <<status, escalated, rows, loopVars>>
    /\ UNCHANGED <<mode, maxSteps, persisted, seg, clock, began, slots, minute, hour, vault, ran>>

\* The planner revises the step: any step of Revisions, none, or no answer.
Replan ==
    /\ pc = "replan"
    /\ \E c \in CallCosts :
          /\ RecordTokens(c)
          /\ \/ Raise("critique") \/ Raise("error")
             \/ ExhaustedAt(used') /\ Refuse(rows)
             \/ /\ ~ExhaustedAt(used')
                /\ call' \in Revisions
                /\ replans' = replans + 1
                /\ pc' = "ground"
                /\ UNCHANGED <<status, rows, done, approvals, cur, attempt, fault>>
    /\ UNCHANGED <<mode, maxSteps, escalated, persisted, seg, clock, began, slots, minute, hour, vault, ran>>

----------------------------------------------------------------------------
(* _execute_tool_call from there: tokens in or out, the tool, its usage, the
   critic. *)

\* detokenize_arguments raises the policy engine's PolicyViolation, which is not
\* the executor's class of that name: to the retry loop it is any exception.
RefuseTokens ==
    /\ pc = "execute"
    /\ ~Sendable(vault, Class[call.tool], Argument, call.allowed)
    /\ Raise("policy")
    /\ UNCHANGED <<mode, maxSteps, escalated, persisted, seg, clock, policyVars, ran>>

Dispatch ==
    LET class == Class[call.tool] IN
    /\ pc = "execute"
    /\ Sendable(vault, class, Argument, call.allowed)
    /\ rows' = [rows EXCEPT ![CurrentRow] =
                   [@ EXCEPT !.sent = Sent(vault, class, Argument),
                             !.tool = call.tool, !.path = call.allowed]]
    /\ vault' = VaultAfter(vault, class, Argument)
    /\ ran' = [ran EXCEPT ![call.tool] = Append(@, clock)]
    /\ pc' = "tool"
    /\ UNCHANGED <<mode, maxSteps, status, escalated, persisted, seg, clock,
                   began, used, slots, minute, hour, loopVars>>

\* Usage goes to the tracker and, overwriting what an earlier attempt left there,
\* to the row of the step the call names.
Charged(k, u) == IF u = 0 THEN rows ELSE [rows EXCEPT ![k].tokens = u]

\* Mutant of ToolReturns: the budget is not looked at before the critic is called.
ToolReturnsUngated ==
    /\ pc = "tool"
    /\ \/ Raise("error") /\ UNCHANGED <<used, persisted>>
       \/ \E u \in 0..MaxToolCost, k \in RowsOf(call.step) :
             /\ RecordTokens(u)
             /\ persisted' = IF u = 0 THEN persisted ELSE persisted - rows[k].tokens + u
             /\ pc' = "critique"
             /\ rows' = Charged(k, u)
             /\ UNCHANGED <<status, loopVars>>
    /\ UNCHANGED <<mode, maxSteps, escalated, seg, clock, began, slots, minute, hour, vault, ran>>

ToolReturns ==
    /\ pc = "tool"
    /\ \/ Raise("error") /\ UNCHANGED <<used, persisted>>
       \/ \E u \in 0..MaxToolCost, k \in RowsOf(call.step) :
             /\ RecordTokens(u)
             /\ persisted' = IF u = 0 THEN persisted ELSE persisted - rows[k].tokens + u
             /\ IF ExhaustedAt(used')
                THEN Refuse(Charged(k, u))
                ELSE pc' = "critique" /\ rows' = Charged(k, u) /\ UNCHANGED <<status, loopVars>>
    /\ UNCHANGED <<mode, maxSteps, escalated, seg, clock, began, slots, minute, hour, vault, ran>>

\* The loop is done with the step: context updated, record_step.
PassStep ==
    /\ done' = done \cup {cur}
    /\ slots' = slots + 1
    /\ pc' = "loop"
    /\ UNCHANGED <<approvals, cur, attempt, replans, call, fault>>

Critique ==
    /\ pc = "critique"
    /\ \/ Raise("error") /\ UNCHANGED <<used, escalated, slots>>
       \/ /\ \E c \in CallCosts : RecordTokens(c)
          /\ \/ Raise("critique") /\ UNCHANGED <<escalated, slots>>
             \/ Escalate("post") /\ UNCHANGED slots
             \/ /\ \E o \in Returned(rows[CurrentRow].sent) :
                      rows' = [Ended(rows, "completed", "data") EXCEPT ![CurrentRow].out = o]
                /\ PassStep
                /\ UNCHANGED <<status, escalated>>
    /\ UNCHANGED <<mode, maxSteps, persisted, seg, clock, began, minute, hour, vault, ran>>

\* Mutants of Handle: a failure to be escalated is forgotten; error_handling
\* applies to a verdict too.
HandleUnescalated ==
    /\ pc = "handle"
    /\ LET policy == IF fault = "critique" THEN "fail" ELSE Plan[cur].onError IN
       \/ policy = "fail" /\ Leave("failed") /\ UNCHANGED <<escalated, slots>>
       \/ policy = "continue" /\ PassStep /\ UNCHANGED <<status, escalated>>
    /\ UNCHANGED <<mode, maxSteps, rows, persisted, seg, clock, began, used, minute, hour, vault, ran>>

HandleVerdict ==
    /\ pc = "handle"
    /\ LET policy == Plan[cur].onError IN
       \/ policy = "fail" /\ Leave("failed") /\ UNCHANGED <<escalated, slots>>
       \/ policy = "escalate" /\ escalated' = "failure" /\ Leave("suspended") /\ UNCHANGED slots
       \/ policy = "continue" /\ PassStep /\ UNCHANGED <<status, escalated>>
    /\ UNCHANGED <<mode, maxSteps, rows, persisted, seg, clock, began, used, minute, hour, vault, ran>>

\* error_handling, after the last attempt; a verdict fails the run regardless.
Handle ==
    /\ pc = "handle"
    /\ LET policy == IF fault = "critique" THEN "fail" ELSE Plan[cur].onError IN
       \/ policy = "fail" /\ Leave("failed") /\ UNCHANGED <<escalated, slots>>
       \/ policy = "escalate" /\ escalated' = "failure" /\ Leave("suspended") /\ UNCHANGED slots
       \/ policy = "continue" /\ PassStep /\ UNCHANGED <<status, escalated>>
    /\ UNCHANGED <<mode, maxSteps, rows, persisted, seg, clock, began, used, minute, hour, vault, ran>>

----------------------------------------------------------------------------
(* Between segments, as RunEngine has it in full: an answer, a rejection or a
   timeout, and the retry of a failed run. *)

Requeue == status' = "queued" /\ escalated' = "none"

\* Both answers resolve the suspended row (none if a failure was escalated).
Answered(rws, approved) ==
    [k \in DOMAIN rws |->
        IF rws[k].status # "suspended" THEN rws[k]
        ELSE IF ~approved THEN [rws[k] EXCEPT !.status = "failed", !.result = "rejected"]
        ELSE IF escalated = "pre" THEN [rws[k] EXCEPT !.status = "failed", !.result = "approval"]
        ELSE [rws[k] EXCEPT !.status = "completed", !.result = "answer"]]

Answer ==
    /\ status = "suspended"
    /\ \/ rows' = Answered(rows, TRUE) /\ Requeue
       \/ rows' = Answered(rows, FALSE) /\ status' = "failed" /\ escalated' = "none"
    /\ UNCHANGED <<mode, maxSteps, persisted, seg, clock, pc, policyVars, loopVars, ran>>

Retry ==
    /\ status = "failed"
    /\ \E k \in DOMAIN rows : Latest(k) /\ rows[k].status = "failed"
    /\ Requeue
    /\ UNCHANGED <<mode, maxSteps, rows, persisted, seg, clock, pc, policyVars, loopVars, ran>>

Tick ==
    /\ clock < MaxClock
    /\ status = "running"
    /\ clock' = clock + 1
    /\ UNCHANGED <<mode, maxSteps, status, escalated, rows, persisted, seg, pc, policyVars, loopVars, ran>>

SegmentStep ==
    \/ PlanRun \/ CompleteRun \/ FailBeforeStep \/ BeginStep
    \/ Unproposed \/ Propose \/ Verify \/ Replan
    \/ RefuseTokens \/ Dispatch \/ ToolReturns \/ Critique \/ Handle

Next == Create \/ Start \/ SegmentStep \/ Answer \/ Retry \/ Tick

Spec == Init /\ [][Next]_vars

\* The calls a segment awaits return, if only by their timeouts.
FairSpec == Spec /\ WF_vars(SegmentStep)

----------------------------------------------------------------------------
(* Properties. *)

Bucket == Seq(0..MaxClock)

\* Every variable has its type; the loops stay within their bounds.
TypeOK ==
    /\ mode \in {"agentic", "deterministic"} /\ maxSteps \in StepCaps
    /\ status \in {"absent", "queued", "running", "suspended", "completed", "failed"}
    /\ escalated \in {"none", "pre", "post", "failure"}
    /\ rows \in Seq(Row) /\ persisted \in Nat
    /\ seg \in 0..MaxSegments /\ clock \in 0..MaxClock /\ pc \in PC
    /\ began \in 0..clock /\ used \in Nat /\ slots \in Nat
    /\ minute \in [Tools -> Bucket] /\ hour \in Bucket /\ ran \in [Tools -> Bucket]
    /\ vault \in Vaults
    /\ done \subseteq Steps /\ approvals \subseteq Steps
    /\ cur \in Steps /\ attempt \in 0..Plan[cur].retries
    /\ replans \in 0..MaxReplan /\ call \in CallRecord /\ fault \in Fault

\* What a run counts passes the cap by little, in all its segments together: the
\* tokens in its rows by less than one tool's usage ("without replaying prior spend
\* a capped run gets a full fresh budget every segment"), those and the calls of
\* the segment under way by less than a verifier's and the tool's or the
\* replanner's ("stops a single step from overshooting the cap").  What is never
\* counted is RunSpend's subject.
Overshoot == MaxCallCost + (IF MaxToolCost > MaxCallCost THEN MaxToolCost ELSE MaxCallCost)

TokensBounded ==
    /\ persisted < MaxTokens + MaxToolCost
    /\ used < MaxTokens + Overshoot

\* A run never executes more steps than max_steps, in all its segments together,
\* approvals included.
StepCapHolds ==
    Cardinality({k \in DOMAIN rows : rows[k].status = "completed"}) <= maxSteps

\* In any window of a segment a tool runs at most once more often than its limit
\* (once more, because a call is counted when it is proposed and runs later): of
\* any PerMinute + 2 runs in succession the last comes a window after the first.
CallRateBounded ==
    \A t \in Tools : \A n \in DOMAIN ran[t] :
        n + PerMinute + 1 \in DOMAIN ran[t] => ran[t][n] + Minute <= ran[t][n + PerMinute + 1]

\* A call the verifier escalated runs only if a human approved an escalation of
\* the step it names, in an earlier segment: not after a rejection, a timeout or
\* a bare retry.
EscalationAnswered ==
    \A k \in DOMAIN rows : rows[k].by = "human" =>
        \E m \in 1..(k - 1) :
            /\ rows[m].step = rows[k].as /\ rows[m].result = "approval"
            /\ rows[m].seg < rows[k].seg

\* No placeholder leaves for an external system, no raw personal value leaves
\* outside the allow-list or reaches a model whose inputs are tokenized, and no
\* raw value comes back into the run's results.
NothingLeaves ==
    \A k \in DOMAIN rows :
        /\ rows[k].out.kind # "pii"
        /\ Class[rows[k].tool] = "outbound" =>
              /\ rows[k].sent.kind # "token"
              /\ rows[k].sent.kind = "pii" => rows[k].path
        /\ Class[rows[k].tool] = "model" /\ TokenizeInputs => rows[k].sent.kind # "pii"

\* "Deterministic: Same PII value -> same token within a run", hence what a token
\* is replaced by is the value it was minted for.
TokensKeepMeaning ==
    \A k \in DOMAIN rows :
        rows[k].sent.kind = "pii" /\ pc = "tool" /\ k = CurrentRow /\ Argument.kind = "token"
            => rows[k].sent.of = Argument.of

\* A segment comes to an end: attempts and replans run out whatever the models
\* and the tools do.
SegmentEnds == status = "running" ~> status # "running"

\* The inside of a step keeps the promise of the run's life cycle.
RunOf == {"run"}

SettledRow(row) ==
    \/ row.status = "completed"
    \/ row.status = "failed" /\ row.result \in {"error", "policy"}
       /\ Plan[row.step].onError = "continue"

Lifecycle == INSTANCE RunLifecycle WITH
    Runs <- RunOf, Gates <- {},
    status <- [r \in RunOf |-> status],
    begun <- [r \in RunOf |-> {rows[k].step : k \in DOMAIN rows}],
    settled <- [r \in RunOf |-> {rows[k].step : k \in {m \in DOMAIN rows : SettledRow(rows[m])}}]

ImplementsLifecycle == Lifecycle!Spec
=============================================================================
