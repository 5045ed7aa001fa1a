------------------------- MODULE RunLifecycleProofs -------------------------
(***************************************************************************)
(* What the engine adds when it runs in calm conditions: no client acts on *)
(* a run whose last segment is still being torn down (~ Eager), and the    *)
(* process is killed rather than shut down (~ Graceful).  Kills, restarts, *)
(* retries, rejections, timeouts and duplicate callbacks remain, for every *)
(* set of runs and workers and every plan.  Then suspended rows belong to  *)
(* suspended runs, an answered gate is not asked again, and the engine     *)
(* implements RunLifecycle.  MCTwoSuspended shows that ~ Eager cannot be   *)
(* dropped.  Nor can ~ Graceful: a shutdown marks a run failed whose       *)
(* thread goes on and may suspend it, which leaves a suspended row in a    *)
(* failed run.                                                             *)
(***************************************************************************)
EXTENDS RunEngineProofs

\* Where a thread may be when its run has the status s.
Fits(p, s) ==
    /\ p \in {"load", "start"} => s = "queued"
    /\ p \in {"loop", "act", "handle"} => s = "running"
    /\ p \in {"teardown", "recheck"} => s \in {"suspended", "completed", "failed"}
    /\ p # "reschedule"

\* A run nobody created has no rows and no thread.
AbsentIsNew ==
    \A r \in Runs : status[r] = "absent" => Untouched(r) /\ rows[r] = <<>>

\* The queue holds queued runs, and a thread is where its run's status says.
PoolCalm ==
    /\ phase = "up" /\ dying = {}
    /\ \A i \in DOMAIN queue : status[queue[i]] = "queued"
    /\ \A w \in Workers : pc[w] = "idle" \/ Fits(pc[w], status[job[w]])

\* A handler has its run to itself, and what it read of it is still true unless
\* the sweeper came first.
ApiCalm ==
    /\ api.pc # "idle" => Untouched(api.run)
    /\ api.pc = "schedule" => status[api.run] = "queued"
    /\ api.pc = "claim" /\ api.op = "retry" => status[api.run] = "failed"
    /\ api.pc = "claim" /\ status[api.run] = "suspended" =>
          Suspended(rows[api.run]) = api.target

Calm == AbsentIsNew /\ PoolCalm /\ ApiCalm /\ SuspensionsMatch

Results == {"data", "answer"}

\* The inductive invariant in calm conditions.
CalmInv == Calm /\ OrderInv(Results)

----------------------------------------------------------------------------
\* What an appended row adds to the steps begun, settled and suspended.
LEMMA AppendQueries ==
    ASSUME NEW rws \in Seq(StepRow(Steps)), NEW j \in Steps, NEW n \in Nat,
           NEW st \in {"running", "skipped"}
    PROVE  LET new == AppendRow(rws, j, n, st) IN
           /\ Suspended(new) = Suspended(rws)
           /\ Begun(new) = Begun(rws) \cup {j}
           /\ st = "skipped" => Settled(new) = Settled(rws) \cup {j}
           /\ st = "running" => Settled(new) = Settled(rws)
<1> DEFINE new == AppendRow(rws, j, n, st)
           L == Len(rws)
<1>1. DOMAIN rws = 1..L /\ L \in Nat
  BY RowPositions
<1>2. /\ new \in Seq(StepRow(Steps))
      /\ Len(new) = L + 1
      /\ \A k \in 1..L : new[k] = rws[k]
      /\ new[L + 1].step = j /\ new[L + 1].status = st /\ new[L + 1].result = "none"
  <2>1. st \in StepStatus
    BY DEF StepStatus
  <2> QED
    BY <2>1, AppendRowShape
<1> HIDE DEF new
<1>3. DOMAIN new = 1..(L + 1)
  BY <1>2, RowPositions
<1> HIDE DEF L
<1>4. \A k : k \in 1..(L + 1) <=> k \in 1..L \/ k = L + 1
  BY <1>1
<1>5. Suspended(new) = Suspended(rws)
  BY <1>1, <1>2, <1>3, <1>4 DEF Suspended
<1>6. Begun(new) = Begun(rws) \cup {j}
  BY <1>1, <1>2, <1>3, <1>4 DEF Begun
<1>7. SettledRow(new[L + 1]) <=> st = "skipped"
  BY <1>2 DEF SettledRow
<1>8. \A i : i \in Settled(new) <=> i \in Settled(rws) \/ (i = j /\ st = "skipped")
  BY <1>1, <1>2, <1>3, <1>4, <1>7 DEF Settled
<1>9. /\ st = "skipped" => Settled(new) = Settled(rws) \cup {j}
      /\ st = "running" => Settled(new) = Settled(rws)
  BY <1>8
<1> QED
  BY <1>5, <1>6, <1>9 DEF new

\* The steps that setting the rows ks to (st, val) settles.
PassedBy(rws, ks, st, val) ==
    {rws[k].step : k \in {m \in ks :
        \/ st \in {"completed", "skipped"}
        \/ /\ st = "failed" /\ val = "error"
           /\ Plan[rws[m].step].onError = "continue"}}

\* Updating rows that are not settled begins no step and settles those.
LEMMA UpdateQueries ==
    ASSUME NEW rws \in Seq(StepRow(Steps)), NEW ks \in SUBSET (DOMAIN rws),
           NEW st \in StepStatus, NEW val \in StepResult,
           \A k \in ks : ~ SettledRow(rws[k])
    PROVE  /\ Begun(SetRows(rws, ks, st, val)) = Begun(rws)
           /\ Settled(SetRows(rws, ks, st, val)) =
                 Settled(rws) \cup PassedBy(rws, ks, st, val)
<1> DEFINE new == SetRows(rws, ks, st, val)
           passed == {k \in ks : \/ st \in {"completed", "skipped"}
                                 \/ /\ st = "failed" /\ val = "error"
                                    /\ Plan[rws[k].step].onError = "continue"}
<1>1. /\ DOMAIN new = DOMAIN rws
      /\ \A k \in DOMAIN rws :
            /\ new[k].step = rws[k].step
            /\ k \notin ks => new[k] = rws[k]
            /\ k \in ks => new[k].status = st /\ new[k].result = val
  BY SetRowsShape
<1> HIDE DEF new
<1>2. Begun(new) = Begun(rws)
  BY <1>1 DEF Begun
<1>3. \A k \in DOMAIN rws : SettledRow(new[k]) <=> SettledRow(rws[k]) \/ k \in passed
  BY <1>1 DEF SettledRow
<1>4. PassedBy(rws, ks, st, val) = {rws[k].step : k \in passed} /\ passed \subseteq DOMAIN rws
  BY DEF PassedBy
<1> HIDE DEF passed
<1>5. Settled(new) = Settled(rws) \cup PassedBy(rws, ks, st, val)
  BY <1>1, <1>3, <1>4 DEF Settled
<1> QED
  BY <1>2, <1>5 DEF new

\* Resolving all suspended rows of a table leaves none.
LEMMA NoneLeftSuspended ==
    ASSUME NEW rws \in Seq(StepRow(Steps)), NEW st \in StepStatus \ {"suspended"},
           NEW val \in StepResult
    PROVE  Suspended(SetRows(rws, Suspended(rws), st, val)) = {}
<1> DEFINE ks == Suspended(rws)
           new == SetRows(rws, ks, st, val)
<1>1. /\ DOMAIN new = DOMAIN rws
      /\ \A k \in DOMAIN rws : /\ k \notin ks => new[k] = rws[k]
                               /\ k \in ks => new[k].status = st
  <2> HIDE DEF ks
  <2> QED
    BY SetRowsShape
<1> HIDE DEF new
<1> QED
  BY <1>1 DEF Suspended, new

----------------------------------------------------------------------------
\* A thread that is busy with a queued or running run writes its status and its
\* rows: nobody else is concerned.
LEMMA CalmOfThread ==
    ASSUME TypeOK, OneExecutionPerRun, Calm,
           NEW w \in Workers, Busy(w), status[job[w]] \in {"queued", "running"},
           NEW s \in RunStatus \ {"absent"}, NEW p, NEW new,
           status' = [status EXCEPT ![job[w]] = s],
           rows' = [rows EXCEPT ![job[w]] = new],
           pc' = [pc EXCEPT ![w] = p],
           Fits(p, s),
           \A k \in Suspended(new) : s = "suspended" /\ k = Len(new),
           UNCHANGED <<held, queue, job, api, phase, dying>>
    PROVE  Calm'
<1> DEFINE r == job[w]
<1>1. /\ r \in Runs /\ r \in held
      /\ status'[r] = s /\ \A q \in Runs \ {r} : status'[q] = status[q]
      /\ rows'[r] = new /\ \A q \in Runs \ {r} : rows'[q] = rows[q]
      /\ pc'[w] = p /\ \A v \in Workers \ {w} : pc'[v] = pc[v]
  BY DEF TypeOK, DbType, WorkerType, OneExecutionPerRun, Busy
<1> HIDE DEF r
<1>2. AbsentIsNew'
  BY <1>1 DEF Calm, AbsentIsNew, Untouched
<1>3. PoolCalm'
  <2>1. \A i \in DOMAIN queue : queue[i] \in Runs /\ queue[i] # r
    BY DEF OneExecutionPerRun, TypeOK, PoolType, r
  <2>2. ASSUME NEW v \in Workers, pc'[v] # "idle"
        PROVE  Fits(pc'[v], status'[job[v]])
    <3>1. CASE v = w
      BY <1>1, <3>1 DEF r
    <3>2. CASE v # w
      <4>1. job[v] \in Runs /\ Fits(pc[v], status[job[v]])
        BY <1>1, <2>2, <3>2 DEF Calm, PoolCalm, TypeOK, WorkerType
      <4>2. job[v] # r
        <5> SUFFICES ASSUME job[v] = r PROVE FALSE
          OBVIOUS
        <5>1. ~ Busy(v)
          BY <3>2 DEF OneExecutionPerRun, r
        <5>2. pc[v] \in {"recheck", "reschedule"}
          BY <1>1, <2>2, <3>2, <5>1 DEF Busy
        <5> QED
          BY <4>1, <5>2 DEF Fits, r
      <4> QED
        BY <1>1, <3>2, <4>1, <4>2
    <3> QED
      BY <3>1, <3>2
  <2> QED
    BY <1>1, <2>1, <2>2 DEF Calm, PoolCalm
<1>4. ApiCalm'
  <2>1. api.pc # "idle" => api.run \in Runs /\ api.run # r
    BY <1>1 DEF Calm, ApiCalm, Untouched, TypeOK, OtherType
  <2> QED
    BY <1>1, <2>1 DEF Calm, ApiCalm, Untouched, TypeOK, OtherType
<1>5. SuspensionsMatch'
  BY <1>1 DEF Calm, SuspensionsMatch
<1> QED
  BY <1>2, <1>3, <1>4, <1>5 DEF Calm

\* A handler moves a run that no thread has, or the sweeper a suspended one, and
\* leaves none of its rows suspended.
LEMMA CalmOfMove ==
    ASSUME TypeOK, OneExecutionPerRun, Calm, NEW r \in Runs,
           Untouched(r) \/ status[r] = "suspended",
           NEW s \in {"queued", "failed"}, NEW new,
           s = "queued" => Untouched(r),
           status' = [status EXCEPT ![r] = s],
           rows' = [rows EXCEPT ![r] = new],
           Suspended(new) = {},
           UNCHANGED <<held, queue, pc, job, phase, dying>>,
           \/ api'.pc = "idle"
           \/ api'.pc = "schedule" /\ api'.run = r /\ s = "queued"
           \/ api' = api /\ status[r] = "suspended" /\ s = "failed"
    PROVE  Calm'
<1>1. /\ status'[r] = s /\ \A q \in Runs \ {r} : status'[q] = status[q]
      /\ rows'[r] = new /\ \A q \in Runs \ {r} : rows'[q] = rows[q]
  BY DEF TypeOK, DbType
<1>2. AbsentIsNew'
  BY <1>1 DEF Calm, AbsentIsNew, Untouched
<1>3. PoolCalm'
  <2>1. \A i \in DOMAIN queue : queue[i] \in Runs /\ queue[i] # r
    BY DEF OneExecutionPerRun, TypeOK, PoolType, Untouched, Calm, PoolCalm
  <2>2. ASSUME NEW v \in Workers, pc[v] # "idle"
        PROVE  Fits(pc[v], status'[job[v]])
    <3>1. job[v] \in Runs /\ Fits(pc[v], status[job[v]])
      BY <2>2 DEF Calm, PoolCalm, TypeOK, WorkerType
    <3>2. CASE job[v] # r
      BY <1>1, <3>1, <3>2
    <3>3. CASE job[v] = r
      <4>1. status[r] = "suspended" /\ s = "failed"
        BY <3>3 DEF Untouched
      <4> QED
        BY <1>1, <3>1, <3>3, <4>1 DEF Fits
    <3> QED
      BY <3>2, <3>3
  <2> QED
    BY <1>1, <2>1, <2>2 DEF Calm, PoolCalm
<1>4. ApiCalm'
  <2>1. CASE api'.pc = "idle"
    BY <2>1 DEF ApiCalm
  <2>2. CASE api'.pc = "schedule" /\ api'.run = r /\ s = "queued"
    BY <1>1, <2>2 DEF ApiCalm, Untouched
  <2>3. CASE api' = api /\ status[r] = "suspended" /\ s = "failed"
    BY <1>1, <2>3 DEF Calm, ApiCalm, Untouched, TypeOK, OtherType
  <2> QED
    BY <2>1, <2>2, <2>3
<1>5. SuspensionsMatch'
  BY <1>1 DEF Calm, SuspensionsMatch
<1> QED
  BY <1>2, <1>3, <1>4, <1>5 DEF Calm

\* Taking, dropping and rechecking a run; a thread never finds its run queued
\* again, because whoever queues it waits until it is let go of.
LEMMA CalmOfPool ==
    ASSUME TypeOK, OneExecutionPerRun, Calm, NEW w \in Workers,
           Take(w) \/ Discard(w) \/ Recheck(w) \/ Reschedule(w)
    PROVE  Calm'
<1>1. UNCHANGED <<status, rows, api, phase, dying>>
  BY DEF Take, Discard, Recheck, Reschedule, dbVars, otherVars
<1>2. \A v \in Workers \ {w} : pc'[v] = pc[v] /\ job'[v] = job[v]
  BY DEF Take, Discard, Recheck, Reschedule, TypeOK, WorkerType
<1>3. CASE Take(w)
  <2>1. /\ DOMAIN queue = 1..Len(queue) /\ Len(queue) \in Nat \ {0}
        /\ DOMAIN queue' = 1..(Len(queue) - 1)
        /\ \A i \in DOMAIN queue' : queue'[i] = queue[i + 1]
        /\ job'[w] = queue[1]
        /\ pc'[w] = "load"
        /\ held' = held
    BY <1>3, HeadTailProperties, EmptySeq DEF Take, TypeOK, PoolType, WorkerType
  <2>2. 1 \in DOMAIN queue /\ \A i \in DOMAIN queue' : i + 1 \in DOMAIN queue
    BY <2>1
  <2>3. status[queue[1]] = "queued" /\ queue[1] \in held
    BY <2>2 DEF Calm, PoolCalm, OneExecutionPerRun
  <2>4. \A i \in DOMAIN queue' : status[queue'[i]] = "queued"
    BY <2>1, <2>2 DEF Calm, PoolCalm
  <2>5. PoolCalm'
    BY <1>1, <1>2, <2>1, <2>3, <2>4 DEF Calm, PoolCalm, Fits
  <2>6. \A r \in Runs : Untouched(r) => Untouched(r)' \/ r = queue[1]
    BY <1>2, <2>1 DEF Untouched
  <2>7. AbsentIsNew' /\ ApiCalm'
    BY <1>1, <2>3, <2>6 DEF Calm, AbsentIsNew, ApiCalm, Untouched, TypeOK, OtherType
  <2> QED
    BY <1>1, <2>5, <2>7 DEF Calm, SuspensionsMatch
<1>4. CASE Discard(w) \/ Recheck(w) \/ Reschedule(w)
  <2>1. pc[w] # "idle" /\ Fits(pc[w], status[job[w]])
    BY <1>4 DEF Discard, Recheck, Reschedule, Calm, PoolCalm
  <2>2. /\ held' \subseteq held /\ queue' = queue
        /\ \/ pc'[w] = "recheck" /\ job'[w] = job[w] /\ pc[w] = "teardown"
           \/ pc'[w] = "idle" /\ job'[w] = NoRun
    BY <1>4, <2>1 DEF Discard, Recheck, Reschedule, Fits, TypeOK, WorkerType, poolVars
  <2>3. PoolCalm'
    BY <1>1, <1>2, <2>1, <2>2 DEF Calm, PoolCalm, Fits
  <2>4. \A r \in Runs : Untouched(r) => Untouched(r)'
    BY <1>2, <2>2, BoundAssumption DEF Untouched
  <2>5. AbsentIsNew' /\ ApiCalm'
    BY <1>1, <2>4 DEF Calm, AbsentIsNew, ApiCalm, TypeOK, OtherType
  <2> QED
    BY <1>1, <2>3, <2>5 DEF Calm, SuspensionsMatch
<1> QED
  BY <1>3, <1>4

\* A run that is being executed has no suspended row.
LEMMA NoneSuspended ==
    ASSUME Calm, NEW r \in Runs, status[r] # "suspended"
    PROVE  Suspended(rows[r]) = {}
BY DEF Calm, SuspensionsMatch, Suspended

\* The steps of a segment that leave the rows alone.
LEMMA CalmOfSegment ==
    ASSUME TypeOK, OneExecutionPerRun, Calm, NEW w \in Workers,
           \/ Load(w) \/ Start(w) \/ FailBeforeStep(w) \/ FailRun(w) \/ EscalateFailure(w)
           \/ ContinueOnFailure(w) \/ CompleteRun(w)
    PROVE  Calm'
<1>1. /\ pc[w] \in {"load", "start", "loop", "handle"} /\ Busy(w) /\ job[w] \in Runs
      /\ Fits(pc[w], status[job[w]])
  BY DEF Load, Start, FailBeforeStep, FailRun, EscalateFailure, ContinueOnFailure, CompleteRun,
         Handling, Busy, TypeOK, WorkerType, Calm, PoolCalm
<1>2. status[job[w]] \in {"queued", "running"}
  BY <1>1 DEF Fits
<1>3. PICK s \in RunStatus \ {"absent"}, p \in PC :
        /\ status' = [status EXCEPT ![job[w]] = s]
        /\ pc' = [pc EXCEPT ![w] = p]
        /\ Fits(p, s)
  <2>1. CASE Load(w)
    <3>1. status[job[w]] = "queued" /\ status' = status /\ pc' = [pc EXCEPT ![w] = "start"]
      BY <1>1, <2>1 DEF Load, Fits, dbVars
    <3>2. status' = [status EXCEPT ![job[w]] = "queued"]
      BY <1>1, <3>1 DEF TypeOK, DbType
    <3> QED
      BY <3>1, <3>2 DEF Fits, RunStatus, PC
  <2>2. CASE ContinueOnFailure(w)
    <3>1. status[job[w]] = "running" /\ status' = status /\ pc' = [pc EXCEPT ![w] = "loop"]
      BY <1>1, <2>2 DEF ContinueOnFailure, Handling, Fits, dbVars
    <3>2. status' = [status EXCEPT ![job[w]] = "running"]
      BY <1>1, <3>1 DEF TypeOK, DbType
    <3> QED
      BY <3>1, <3>2 DEF Fits, RunStatus, PC
  <2>3. CASE Start(w)
    BY <2>3 DEF Start, Fits, RunStatus, PC
  <2>4. CASE FailBeforeStep(w) \/ FailRun(w) \/ EscalateFailure(w) \/ CompleteRun(w)
    BY <2>4 DEF FailBeforeStep, FailRun, EscalateFailure, CompleteRun, MarkFailed,
                MarkSuspended, EndSegment, Fits, RunStatus, PC
  <2> QED
    BY <2>1, <2>2, <2>3, <2>4
<1>4. UNCHANGED <<rows, held, queue, job, api, phase, dying>>
  BY DEF Load, Start, FailBeforeStep, FailRun, EscalateFailure, ContinueOnFailure, CompleteRun,
         MarkSuspended, dbVars, poolVars, otherVars
<1>5. rows' = [rows EXCEPT ![job[w]] = rows[job[w]]]
  BY <1>1, <1>4 DEF TypeOK, DbType
<1>6. Suspended(rows[job[w]]) = {}
  BY <1>1, <1>2, NoneSuspended
<1> QED
  BY <1>1, <1>2, <1>3, <1>4, <1>5, <1>6, CalmOfThread

\* The steps of a segment that write a row.
LEMMA CalmOfRow ==
    ASSUME TypeOK, OneExecutionPerRun, Calm, NEW w \in Workers,
           \/ SkipStep(w) \/ BeginStep(w) \/ CompleteStep(w) \/ Suspend(w) \/ RefuseStep(w)
           \/ FailStep(w)
    PROVE  Calm'
<1> DEFINE old == rows[job[w]]
<1>1. /\ pc[w] \in {"loop", "act"} /\ Busy(w) /\ job[w] \in Runs
      /\ Fits(pc[w], status[job[w]])
      /\ left[w] \subseteq Steps /\ nth[w] \in Nat
  BY DEF SkipStep, BeginStep, CompleteStep, Suspend, RefuseStep, FailStep,
         Acting, Busy, TypeOK, WorkerType, Calm, PoolCalm
<1>2. status[job[w]] = "running"
  BY <1>1 DEF Fits
<1>3. old \in Seq(StepRow(Steps)) /\ Suspended(old) = {}
  BY <1>1, <1>2, NoneSuspended DEF TypeOK, DbType
<1>4. UNCHANGED <<held, queue, job, api, phase, dying>>
  BY DEF SkipStep, BeginStep, CompleteStep, Suspend, RefuseStep, FailStep, poolVars, otherVars
<1>5. CASE SkipStep(w) \/ BeginStep(w)
  <2>1. PICK j \in Steps, st \in {"skipped", "running"}, p \in {"loop", "act"} :
          /\ rows' = [rows EXCEPT ![job[w]] = AppendRow(@, j, nth[w], st)]
          /\ pc' = [pc EXCEPT ![w] = p]
          /\ status' = status
    <3>1. CASE SkipStep(w)
      <4>1. pc' = [pc EXCEPT ![w] = "loop"]
        BY <3>1 DEF SkipStep, TypeOK, WorkerType
      <4> QED
        BY <1>1, <3>1, <4>1 DEF SkipStep
    <3>2. CASE BeginStep(w)
      BY <1>1, <3>2 DEF BeginStep
    <3> QED
      BY <1>5, <3>1, <3>2
  <2> DEFINE new == AppendRow(old, j, nth[w], st)
  <2>2. rows' = [rows EXCEPT ![job[w]] = new]
    BY <2>1
  <2>3. Suspended(new) = {}
    <3> HIDE DEF old
    <3> QED
      BY <1>1, <1>3, AppendQueries
  <2> HIDE DEF new
  <2>4. status' = [status EXCEPT ![job[w]] = "running"]
    BY <1>1, <1>2, <2>1 DEF TypeOK, DbType
  <2>5. Fits(p, "running") /\ "running" \in RunStatus \ {"absent"}
    BY DEF Fits, RunStatus
  <2> QED
    BY <1>1, <1>2, <1>4, <2>1, <2>2, <2>3, <2>4, <2>5, CalmOfThread
<1>6. CASE CompleteStep(w) \/ Suspend(w) \/ RefuseStep(w) \/ FailStep(w)
  <2>1. PICK st \in StepStatus, val \in StepResult, p \in PC, s \in RunStatus \ {"absent"} :
          /\ SetCurrentRow(w, st, val)
          /\ pc' = [pc EXCEPT ![w] = p]
          /\ status' = [status EXCEPT ![job[w]] = s]
          /\ Fits(p, s)
          /\ st = "suspended" => s = "suspended"
    <3>0. /\ {"completed", "failed", "suspended"} \subseteq StepStatus
          /\ {"data", "empty", "error", "critique", "refused", "none"} \subseteq StepResult
          /\ {"loop", "handle", "teardown"} \subseteq PC
          /\ {"running", "suspended", "failed"} \subseteq RunStatus \ {"absent"}
          /\ Fits("loop", "running") /\ Fits("handle", "running")
          /\ Fits("teardown", "suspended") /\ Fits("teardown", "failed")
      BY DEF StepStatus, StepResult, PC, RunStatus, Fits
    <3>1. CASE CompleteStep(w) \/ FailStep(w)
      <4>1. status' = [status EXCEPT ![job[w]] = "running"]
        BY <1>1, <1>2, <3>1 DEF CompleteStep, FailStep, TypeOK, DbType
      <4>2. CASE CompleteStep(w)
        BY <3>0, <4>1, <4>2 DEF CompleteStep
      <4>3. CASE FailStep(w)
        BY <3>0, <4>1, <4>3 DEF FailStep
      <4> QED
        BY <3>1, <4>2, <4>3
    <3>2. CASE Suspend(w)
      BY <3>0, <3>2 DEF Suspend, MarkSuspended, EndSegment
    <3>3. CASE RefuseStep(w)
      BY <3>0, <3>3 DEF RefuseStep, MarkFailed, EndSegment
    <3> QED
      BY <1>6, <3>1, <3>2, <3>3
  <2> DEFINE new == SetRows(old, {Len(old)}, st, val)
  <2>2. rows' = [rows EXCEPT ![job[w]] = new]
    BY <2>1 DEF SetCurrentRow
  <2>3. /\ Len(new) = Len(old) /\ DOMAIN new = DOMAIN old
        /\ \A k \in DOMAIN old : /\ k # Len(old) => new[k] = old[k]
                                 /\ k = Len(old) => new[k].status = st
    <3> HIDE DEF old
    <3> QED
      BY <1>3, SetRowsShape
  <2> HIDE DEF new
  <2>4. \A k \in Suspended(new) : s = "suspended" /\ k = Len(new)
    BY <1>3, <2>1, <2>3 DEF Suspended
  <2> QED
    BY <1>1, <1>2, <1>4, <2>1, <2>2, <2>4, CalmOfThread
<1> QED
  BY <1>5, <1>6

\* The queries for a suspended row find it: a run has at most one, and the rows
\* of every other run have none.
LEMMA SuspendedFound ==
    ASSUME TypeOK, Calm, NEW r \in Runs,
           NEW t \in OneOf(FirstSuspendedOfDetail(rows[r])) \cup OneOf(FirstSuspendedForRun(rows[r]))
    PROVE  t = Suspended(rows[r])
<1>1. /\ DOMAIN rows[r] = 1..Len(rows[r])
      /\ \A k \in DOMAIN rows[r] : rows[r][k] \in StepRow(Steps)
  BY RowPositions DEF TypeOK, DbType
<1>2. \A k \in DOMAIN rows[r] : rows[r][k].num \in Nat /\ rows[r][k].attempt \in Nat
  BY <1>1 DEF StepRow
<1>3. \A k, m \in Suspended(rows[r]) : k = m
  BY DEF Calm, SuspensionsMatch
<1>4. FirstSuspendedOfDetail(rows[r]) = Suspended(rows[r])
  BY <1>2, <1>3 DEF FirstSuspendedOfDetail, Suspended
<1>5. FirstSuspendedForRun(rows[r]) = Suspended(rows[r])
  BY <1>2, <1>3 DEF FirstSuspendedForRun, Suspended
<1>6. t \in OneOf(Suspended(rows[r]))
  BY <1>4, <1>5
<1> QED
  BY <1>3, <1>6 DEF OneOf

\* A request finds its run untouched, and reads the suspension it is in.
LEMMA CalmOfRequest ==
    ASSUME ~ Eager, TypeOK, OneExecutionPerRun, Calm, NEW r \in Runs, Request(r)
    PROVE  Calm'
<1>1. CASE CreateRun(r)
  <2>1. Untouched(r) /\ rows[r] = <<>>
    BY <1>1 DEF CreateRun, Calm, AbsentIsNew
  <2>2. /\ status' = [status EXCEPT ![r] = "queued"]
        /\ api'.pc = "schedule" /\ api'.run = r
        /\ UNCHANGED <<rows, held, queue, pc, job, phase, dying>>
    BY <1>1 DEF CreateRun, poolVars, workerVars
  <2>3. rows' = [rows EXCEPT ![r] = rows[r]]
    BY <2>2 DEF TypeOK, DbType
  <2>4. Suspended(rows[r]) = {}
    BY <2>1 DEF Suspended
  <2> QED
    BY <2>1, <2>2, <2>3, <2>4, CalmOfMove
<1>2. CASE ReadForResume(r) \/ ReadForCallback(r) \/ ReadForRetry(r)
  <2>1. PICK op \in ApiOp, t \in SUBSET Suspended(rows[r]) :
          /\ Admit(r, op, t)
          /\ op = "retry" => status[r] = "failed"
          /\ op # "retry" => t = Suspended(rows[r])
    <3>1. CASE ReadForResume(r)
      <4>1. PICK op \in {"resume", "reject"}, t \in OneOf(FirstSuspendedOfDetail(rows[r])) :
               Admit(r, op, t)
        BY <3>1 DEF ReadForResume
      <4>2. t = Suspended(rows[r])
        BY SuspendedFound
      <4> QED
        BY <4>1, <4>2 DEF ApiOp
    <3>2. CASE ReadForCallback(r)
      <4>1. PICK op \in {"callback", "callbackReject"},
                 t \in OneOf(FirstSuspendedForRun(rows[r])) : Admit(r, op, t)
        BY <3>2 DEF ReadForCallback
      <4>2. t = Suspended(rows[r])
        BY SuspendedFound
      <4> QED
        BY <4>1, <4>2 DEF ApiOp
    <3>3. CASE ReadForRetry(r)
      <4>1. Admit(r, "retry", {}) /\ status[r] = "failed" /\ "retry" \in ApiOp
        BY <3>3 DEF ReadForRetry, ApiOp
      <4> QED
        BY <4>1
    <3> QED
      BY <1>2, <3>1, <3>2, <3>3
  <2>2. /\ Untouched(r)
        /\ api' = [pc |-> "claim", op |-> op, run |-> r, target |-> t, err |-> error[r]]
        /\ UNCHANGED <<status, rows, held, queue, pc, job, phase, dying>>
    BY <2>1 DEF Admit, HandlerFree, dbVars, poolVars, workerVars
  <2>3. ApiCalm'
    BY <2>1, <2>2 DEF ApiCalm, Untouched
  <2> QED
    BY <2>2, <2>3 DEF Calm, AbsentIsNew, PoolCalm, Untouched, SuspensionsMatch
<1> QED
  BY <1>1, <1>2 DEF Request

\* The handler writes to the run it has to itself.
LEMMA CalmOfApi ==
    ASSUME TypeOK, OneExecutionPerRun, Calm, ApiStep
    PROVE  Calm'
<1>1. api.pc # "idle" /\ api.run \in Runs /\ Untouched(api.run)
  BY DEF ApiStep, Approve, Reject, LoseClaim, RequeueFailed, ApiSchedule, Claiming, Calm,
         ApiCalm, TypeOK, OtherType
<1> DEFINE r == api.run
<1>2. rows[r] \in Seq(StepRow(Steps))
  BY <1>1 DEF TypeOK, DbType
<1>3. CASE Approve \/ Reject
  <2>1. /\ api.target = Suspended(rows[r])
        /\ UNCHANGED <<held, queue, pc, job, phase, dying>>
    BY <1>3 DEF Approve, Reject, Claiming, Calm, ApiCalm, poolVars, workerVars
  <2>2. PICK st \in {"completed", "failed"}, val \in StepResult, s \in {"queued", "failed"} :
          /\ rows' = [rows EXCEPT ![r] = SetRows(@, api.target, st, val)]
          /\ status' = [status EXCEPT ![r] = s]
          /\ \/ api'.pc = "idle"
             \/ api'.pc = "schedule" /\ api'.run = r /\ s = "queued"
    <3>1. CASE Approve
      <4>1. api'.pc = "schedule" /\ api'.run = r
        BY <3>1 DEF Approve, TypeOK, OtherType
      <4>2. {"approval", "answer"} \subseteq StepResult
        BY DEF StepResult
      <4> QED
        BY <3>1, <4>1, <4>2 DEF Approve, ResolveOnApproval
    <3>2. CASE Reject
      BY <3>2 DEF Reject, IdleApi, StepResult
    <3> QED
      BY <1>3, <3>1, <3>2
  <2> DEFINE new == SetRows(rows[r], api.target, st, val)
  <2>3. Suspended(new) = {}
    <3>1. st \in StepStatus \ {"suspended"}
      BY DEF StepStatus
    <3> QED
      BY <1>2, <2>1, <3>1, NoneLeftSuspended
  <2>4. rows' = [rows EXCEPT ![r] = new]
    BY <2>2
  <2> HIDE DEF new
  <2> QED
    BY <1>1, <2>1, <2>2, <2>3, <2>4, CalmOfMove
<1>4. CASE RequeueFailed
  <2>1. /\ status[r] = "failed"
        /\ status' = [status EXCEPT ![r] = "queued"]
        /\ api'.pc = "schedule" /\ api'.run = r
        /\ UNCHANGED <<rows, held, queue, pc, job, phase, dying>>
    BY <1>4 DEF RequeueFailed, Claiming, Calm, ApiCalm, poolVars, workerVars, TypeOK, OtherType
  <2>2. rows' = [rows EXCEPT ![r] = rows[r]]
    BY <2>1 DEF TypeOK, DbType
  <2>3. Suspended(rows[r]) = {}
    BY <1>1, <2>1, NoneSuspended
  <2> QED
    BY <1>1, <2>1, <2>2, <2>3, CalmOfMove
<1>5. CASE LoseClaim
  <2>1. api'.pc = "idle" /\ UNCHANGED <<status, rows, held, queue, pc, job, phase, dying>>
    BY <1>5 DEF LoseClaim, IdleApi, dbVars, poolVars, workerVars
  <2> QED
    BY <2>1 DEF Calm, AbsentIsNew, PoolCalm, ApiCalm, Untouched, SuspensionsMatch
<1>6. CASE ApiSchedule
  <2>1. /\ api'.pc = "idle" /\ status[r] = "queued"
        /\ held' = held \cup {r} /\ queue' = Append(queue, r)
        /\ UNCHANGED <<status, rows, pc, job, phase, dying>>
    BY <1>1, <1>6 DEF ApiSchedule, Schedule, IdleApi, Calm, ApiCalm, PoolCalm, Untouched,
                      dbVars, workerVars
  <2>2. \A i \in DOMAIN queue' : status[queue'[i]] = "queued"
    <3>1. queue \in Seq(Runs)
      BY DEF TypeOK, PoolType
    <3>2. /\ DOMAIN queue = 1..Len(queue) /\ Len(queue) \in Nat
          /\ DOMAIN queue' = 1..(Len(queue) + 1)
          /\ queue'[Len(queue) + 1] = r
          /\ \A i \in DOMAIN queue : queue'[i] = queue[i]
      BY <1>1, <2>1, <3>1
    <3>3. \A i \in DOMAIN queue' : i \in DOMAIN queue \/ i = Len(queue) + 1
      BY <3>2
    <3> QED
      BY <2>1, <3>2, <3>3 DEF Calm, PoolCalm
  <2>3. PoolCalm'
    BY <2>1, <2>2 DEF Calm, PoolCalm
  <2>4. AbsentIsNew'
    BY <2>1 DEF Calm, AbsentIsNew, Untouched
  <2> QED
    BY <2>1, <2>3, <2>4 DEF Calm, ApiCalm, SuspensionsMatch
<1> QED
  BY <1>3, <1>4, <1>5, <1>6 DEF ApiStep

\* The sweeper fails suspended runs with their suspended row, and a new process
\* starts with an empty pool.
LEMMA CalmElsewhere ==
    ASSUME ~ Graceful, TypeOK, OneExecutionPerRun, Calm,
           \/ \E r \in Runs : DeadlinePasses(r) \/ ShutdownMark(r)
           \/ SweepStep \/ Shutdown \/ Restart \/ UNCHANGED vars
    PROVE  Calm'
<1>1. ~ Shutdown /\ \A r \in Runs : ~ ShutdownMark(r)
  BY DEF Shutdown, ShutdownMark, Calm, PoolCalm
<1>2. CASE (\E r \in Runs : DeadlinePasses(r)) \/ Discover \/ UNCHANGED vars
  <2>1. UNCHANGED <<status, rows, held, queue, pc, job, api, phase, dying>>
    BY <1>2 DEF DeadlinePasses, Discover, vars, dbVars, poolVars, workerVars, otherVars
  <2> QED
    BY <2>1 DEF Calm, AbsentIsNew, PoolCalm, ApiCalm, Untouched, SuspensionsMatch
<1>3. CASE Restart
  <2>1. /\ UNCHANGED <<status, rows>> /\ phase' = "up" /\ dying' = {} /\ api'.pc = "idle"
        /\ held' = {} /\ queue' = <<>>
        /\ \A w \in Workers : pc'[w] = "idle" /\ job'[w] = NoRun
    BY <1>3 DEF Restart, IdleApi, dbVars
  <2>2. \A r \in Runs : Untouched(r)'
    BY <2>1, BoundAssumption DEF Untouched
  <2> QED
    BY <2>1, <2>2 DEF Calm, AbsentIsNew, PoolCalm, ApiCalm, SuspensionsMatch
<1>4. ASSUME NEW e \in sweep, TimeOut(e)
      PROVE  Calm'
  <2>1. e.run \in Runs /\ UNCHANGED <<held, queue, pc, job, api, phase, dying>>
    BY <1>4 DEF TimeOut, TypeOK, OtherType, poolVars, workerVars
  <2>2. CASE status[e.run] = "suspended"
    <3>1. PICK t \in OneOf(FirstSuspendedForRun(rows[e.run])) :
            /\ rows' = [rows EXCEPT ![e.run] = SetRows(@, t, "failed", "timeout")]
            /\ status' = [status EXCEPT ![e.run] = "failed"]
      BY <1>4, <2>2 DEF TimeOut
    <3>2. t = Suspended(rows[e.run])
      BY <2>1, SuspendedFound
    <3> DEFINE new == SetRows(rows[e.run], t, "failed", "timeout")
    <3>3. Suspended(new) = {}
      <4>1. /\ "failed" \in StepStatus \ {"suspended"} /\ "timeout" \in StepResult
            /\ rows[e.run] \in Seq(StepRow(Steps))
        BY <2>1 DEF StepStatus, StepResult, TypeOK, DbType
      <4> QED
        BY <3>2, <4>1, NoneLeftSuspended
    <3>4. rows' = [rows EXCEPT ![e.run] = new]
      BY <3>1
    <3> HIDE DEF new
    <3> QED
      BY <2>1, <2>2, <3>1, <3>3, <3>4, CalmOfMove
  <2>3. CASE status[e.run] # "suspended"
    <3>1. UNCHANGED <<status, rows>>
      BY <1>4, <2>3 DEF TimeOut
    <3> QED
      BY <2>1, <3>1 DEF Calm, AbsentIsNew, PoolCalm, ApiCalm, Untouched, SuspensionsMatch
  <2> QED
    BY <2>2, <2>3
<1> QED
  BY <1>1, <1>2, <1>3, <1>4 DEF SweepStep

\* Every step keeps calm.
LEMMA CalmOfNext ==
    ASSUME ~ Eager, ~ Graceful, TypeOK, OneExecutionPerRun, Calm, [Next]_vars
    PROVE  Calm'
<1>1. ASSUME NEW w \in Workers, WorkerStep(w)
      PROVE  Calm'
  BY <1>1, CalmOfPool, CalmOfSegment, CalmOfRow DEF WorkerStep
<1> QED
  BY <1>1, CalmOfRequest, CalmOfApi, CalmElsewhere DEF Next

\* In calm conditions an answer goes to the last row of a run nobody executes.
LEMMA CalmAnswers ==
    ASSUME Calm, TypeOK
    PROVE  AnswersLast(Results)
BY DEF Calm, ApiCalm, SuspensionsMatch, Untouched, AnswersLast, TypeOK, OtherType

\* The inductive invariant of calm conditions.
THEOREM CalmKept ==
    ASSUME ~ Eager, ~ Graceful
    PROVE  Spec => []CalmInv
<1>1. Init => CalmInv
  <2> SUFFICES ASSUME Init PROVE CalmInv
    OBVIOUS
  <2>1. OrderInv(Results)
    BY OrderOfInit
  <2>2. AbsentIsNew
    BY BoundAssumption DEF Init, AbsentIsNew, Untouched
  <2>3. PoolCalm /\ ApiCalm /\ SuspensionsMatch
    BY DEF Init, PoolCalm, ApiCalm, SuspensionsMatch, Suspended, IdleApi
  <2> QED
    BY <2>1, <2>2, <2>3 DEF CalmInv, Calm
<1>2. TypeOK /\ OneExecutionPerRun /\ CalmInv /\ [Next]_vars => CalmInv'
  <2> SUFFICES ASSUME TypeOK, OneExecutionPerRun, CalmInv, [Next]_vars
               PROVE  CalmInv'
    OBVIOUS
  <2>1. Calm'
    BY CalmOfNext DEF CalmInv
  <2>2. AnswersLast(Results)
    BY CalmAnswers DEF CalmInv
  <2>3. Results \in SUBSET {"data", "answer"}
    BY DEF Results
  <2>4. OrderInv(Results)'
    BY <2>2, <2>3, OrderOfNext DEF CalmInv, KeepsOrder
  <2> QED
    BY <2>1, <2>4 DEF CalmInv
<1> QED
  BY <1>1, <1>2, TypeCorrect, OneExecution, PTL DEF Spec

\* In calm conditions a suspended step row belongs to the suspension its run is
\* in: it is the run's latest row and the only suspended one, and no failed,
\* requeued or completed run owns one.
THEOREM SuspensionsKept ==
    ASSUME ~ Eager, ~ Graceful
    PROVE  Spec => []SuspensionsMatch
<1>1. CalmInv => SuspensionsMatch
  BY DEF CalmInv, Calm
<1> QED
  BY <1>1, CalmKept, PTL

\* In calm conditions a step that was executed or answered is not begun again: a
\* human's decision is asked for once.
THEOREM AnswersNotRepeated ==
    ASSUME ~ Eager, ~ Graceful
    PROVE  Spec => []AnswerNotRepeated
<1>1. CalmInv => AnswerNotRepeated
  BY DEF CalmInv, OrderInv, TableInv, Once, Kept, Results, AnswerNotRepeated, NotRepeated
<1> QED
  BY <1>1, CalmKept, PTL

----------------------------------------------------------------------------
(* The refinement of RunLifecycle, one step of the engine at a time. *)

\* What a step of the engine is for somebody who looks at the run from outside.
Mapped == [Lifecycle!Next]_(Lifecycle!vars)

\* Steps that change no status and no row are not seen.
LEMMA Unseen ==
    ASSUME status' = status, rows' = rows
    PROVE  Mapped
BY DEF Mapped, Lifecycle!vars

\* What is seen when one run's status and rows change.
LEMMA SeenOfRun ==
    ASSUME TypeOK, NEW r \in Runs, NEW new, rows' = [rows EXCEPT ![r] = new]
    PROVE  /\ [q \in Runs |-> Begun(rows[q])]' =
                 [[q \in Runs |-> Begun(rows[q])] EXCEPT ![r] = Begun(new)]
           /\ [q \in Runs |-> Settled(rows[q])]' =
                 [[q \in Runs |-> Settled(rows[q])] EXCEPT ![r] = Settled(new)]
<1>1. \A q \in Runs : rows'[q] = IF q = r THEN new ELSE rows[q]
  BY DEF TypeOK, DbType
<1>2. \A q \in Runs : /\ Begun(rows'[q]) = IF q = r THEN Begun(new) ELSE Begun(rows[q])
                     /\ Settled(rows'[q]) = IF q = r THEN Settled(new) ELSE Settled(rows[q])
  BY <1>1
<1> QED
  BY <1>2

\* A thread that reaches a step begins it, or passes it without a row's work.
LEMMA LoopIsSeen ==
    ASSUME TypeOK, CalmInv, NEW w \in Workers, SkipStep(w) \/ BeginStep(w)
    PROVE  Mapped
<1> DEFINE r == job[w]
           old == rows[job[w]]
<1>1. /\ r \in Runs /\ pc[w] = "loop" /\ left[w] \subseteq Steps /\ nth[w] \in Nat
      /\ status[r] = "running"
      /\ old \in Seq(StepRow(Steps))
  BY DEF SkipStep, BeginStep, TypeOK, WorkerType, DbType, CalmInv, Calm, PoolCalm, Fits
<1>2. Steps \ left[w] \subseteq Settled(old)
  BY <1>1 DEF CalmInv, OrderInv, SegmentInv, Executing, SegmentOf
<1>3. PICK j \in left[w], st \in {"running", "skipped"} :
        /\ IsNext(w, j)
        /\ rows' = [rows EXCEPT ![r] = AppendRow(@, j, nth[w], st)]
        /\ status' = status
  BY DEF SkipStep, BeginStep
<1> DEFINE new == AppendRow(old, j, nth[w], st)
<1>4. /\ Begun(new) = Begun(old) \cup {j}
      /\ st = "skipped" => Settled(new) = Settled(old) \cup {j}
      /\ st = "running" => Settled(new) = Settled(old)
  <2>1. j \in Steps
    BY <1>1
  <2> HIDE DEF old
  <2> QED
    BY <1>1, <2>1, AppendQueries
<1>5. rows' = [rows EXCEPT ![r] = new]
  BY <1>3
<1> HIDE DEF new
<1>6. /\ [q \in Runs |-> Begun(rows[q])]' =
            [[q \in Runs |-> Begun(rows[q])] EXCEPT ![r] = Begun(new)]
      /\ [q \in Runs |-> Settled(rows[q])]' =
            [[q \in Runs |-> Settled(rows[q])] EXCEPT ![r] = Settled(new)]
  BY <1>1, <1>5, SeenOfRun
<1>7. Lifecycle!Reached(r, j)
  <2> SUFFICES ASSUME NEW i \in Steps, i < j PROVE i \in Settled(old)
    BY <1>1 DEF Lifecycle!Reached
  <2>1. i \in Nat /\ j \in Nat
    BY <1>1 DEF Steps
  <2>2. i \notin left[w]
    BY <1>3, <2>1 DEF IsNext
  <2> QED
    BY <1>2, <2>2
<1>8. CASE st = "skipped"
  <2>1. Lifecycle!Skip(r, j)
    BY <1>1, <1>3, <1>4, <1>6, <1>7, <1>8 DEF Lifecycle!Skip
  <2> QED
    BY <1>1, <2>1 DEF Mapped, Lifecycle!Next
<1>9. CASE st = "running"
  <2>1. Lifecycle!Begin(r, j)
    BY <1>1, <1>3, <1>4, <1>6, <1>7, <1>9 DEF Lifecycle!Begin
  <2> QED
    BY <1>1, <2>1 DEF Mapped, Lifecycle!Next
<1> QED
  BY <1>8, <1>9

\* The moves that write no row: of a handler, a retry, a thread.
Turns(from, to) ==
    \/ from \in {"absent", "failed"} /\ to = "queued"
    \/ from = "queued" /\ to = "running"
    \/ from = "running" /\ to \in {"suspended", "failed", "completed"}

\* A step that moves one run's status and writes no row.
LEMMA SeenOfStatus ==
    ASSUME TypeOK, NEW r \in Runs, NEW to, Turns(status[r], to),
           status' = [status EXCEPT ![r] = to], rows' = rows,
           to = "completed" => Settled(rows[r]) = Steps
    PROVE  Mapped
<1>1. \/ Lifecycle!Create(r) \/ Lifecycle!Start(r) \/ Lifecycle!Suspend(r)
      \/ Lifecycle!Fail(r) \/ Lifecycle!Complete(r) \/ Lifecycle!Retry(r)
  BY DEF Turns, Lifecycle!Create, Lifecycle!Start, Lifecycle!Suspend, Lifecycle!Fail,
         Lifecycle!Complete, Lifecycle!Retry, Lifecycle!Moves
<1> QED
  BY <1>1 DEF Mapped, Lifecycle!Next

\* Starting a run, and the ends of a segment that write no row.
LEMMA SegmentIsSeen ==
    ASSUME TypeOK, CalmInv, NEW w \in Workers,
           Start(w) \/ FailBeforeStep(w) \/ FailRun(w) \/ EscalateFailure(w) \/ CompleteRun(w)
    PROVE  Mapped
<1>1. /\ job[w] \in Runs /\ pc[w] # "idle" /\ rows' = rows
      /\ Fits(pc[w], status[job[w]])
      /\ rows[job[w]] \in Seq(StepRow(Steps))
  BY DEF Start, FailBeforeStep, FailRun, EscalateFailure, CompleteRun, Handling, TypeOK,
         WorkerType, DbType, CalmInv, Calm, PoolCalm
<1>2. CASE Start(w)
  <2>1. Turns(status[job[w]], "running") /\ status' = [status EXCEPT ![job[w]] = "running"]
    BY <1>1, <1>2 DEF Start, Fits, Turns
  <2> QED
    BY <1>1, <2>1, SeenOfStatus
<1>3. CASE FailBeforeStep(w) \/ FailRun(w) \/ EscalateFailure(w)
  <2>1. status[job[w]] = "running"
    BY <1>1, <1>3 DEF FailBeforeStep, FailRun, EscalateFailure, Handling, Fits
  <2>2. Turns(status[job[w]], "suspended") /\ Turns(status[job[w]], "failed")
    BY <2>1 DEF Turns
  <2>3. CASE status' = [status EXCEPT ![job[w]] = "suspended"]
    BY <1>1, <2>2, <2>3, SeenOfStatus
  <2>4. CASE status' = [status EXCEPT ![job[w]] = "failed"]
    BY <1>1, <2>2, <2>4, SeenOfStatus
  <2> QED
    BY <1>3, <2>3, <2>4 DEF FailBeforeStep, FailRun, EscalateFailure, MarkFailed, MarkSuspended
<1>4. CASE CompleteRun(w)
  <2>1. /\ status[job[w]] = "running" /\ left[w] = {} /\ pc[w] = "loop"
        /\ status' = [status EXCEPT ![job[w]] = "completed"]
    BY <1>1, <1>4 DEF CompleteRun, Fits
  <2>2. Steps \subseteq Settled(rows[job[w]])
    BY <2>1 DEF CalmInv, OrderInv, SegmentInv, Executing, SegmentOf
  <2>3. Settled(rows[job[w]]) \subseteq Steps
    BY <1>1, SettledSteps
  <2>4. Turns(status[job[w]], "completed") /\ Settled(rows[job[w]]) = Steps
    BY <2>1, <2>2, <2>3 DEF Turns
  <2> QED
    BY <1>1, <2>1, <2>4, SeenOfStatus
<1> QED
  BY <1>2, <1>3, <1>4

\* A thread sets the row it is at: it settles the row's step, or the run ends
\* with the step, or nothing is seen.
LEMMA ActIsSeen ==
    ASSUME TypeOK, CalmInv, NEW w \in Workers,
           CompleteStep(w) \/ FailStep(w) \/ Suspend(w) \/ RefuseStep(w)
    PROVE  Mapped
<1> DEFINE r == job[w]
           old == rows[job[w]]
           L == Len(rows[job[w]])
           j == CurrentStep(w)
<1>1. /\ r \in Runs /\ pc[w] = "act" /\ Executing(w)
      /\ status[r] = "running"
      /\ old \in Seq(StepRow(Steps)) /\ old # <<>>
  BY DEF CompleteStep, FailStep, Suspend, RefuseStep, Acting, Executing, TypeOK, WorkerType,
         DbType, CalmInv, Calm, PoolCalm, Fits
<1>2. L \in DOMAIN old /\ L \in Nat
  BY <1>1, RowPositions, EmptySeq
<1>3. old[L].status = "running"
  BY <1>1 DEF CalmInv, OrderInv, SegmentInv, SegmentOf
<1>4. j \in Steps /\ j = old[L].step /\ j \in Begun(old)
  BY <1>1, <1>2, CurrentStepType DEF CurrentStep, CurrentRow, Begun
<1>5. PICK st \in StepStatus, val \in StepResult, s \in {"running", "suspended", "failed"} :
        /\ rows' = [rows EXCEPT ![r] = SetRows(old, {L}, st, val)]
        /\ status' = [status EXCEPT ![r] = s]
        /\ \/ s = "running" /\ st = "completed" /\ j \notin Gates
           \/ s = "running" /\ st = "failed" /\ j \notin Gates
           \/ s # "running" /\ st \in {"suspended", "failed"} /\ val # "error"
  <2>0. /\ {"completed", "failed", "suspended"} \subseteq StepStatus
        /\ {"data", "empty", "error", "critique", "refused", "none"} \subseteq StepResult
    BY DEF StepStatus, StepResult
  <2>1. CASE CompleteStep(w) \/ FailStep(w)
    <3>1. status' = [status EXCEPT ![r] = "running"]
      BY <1>1, <2>1 DEF CompleteStep, FailStep, TypeOK, DbType
    <3>2. j \notin Gates
      BY <1>4, <2>1, PlanAssumption DEF CompleteStep, FailStep, Acting, Gates
    <3>3. CASE CompleteStep(w)
      BY <2>0, <3>1, <3>2, <3>3 DEF CompleteStep, SetCurrentRow
    <3>4. CASE FailStep(w)
      BY <2>0, <3>1, <3>2, <3>4 DEF FailStep, SetCurrentRow
    <3> QED
      BY <2>1, <3>3, <3>4
  <2>2. CASE Suspend(w)
    BY <2>0, <2>2 DEF Suspend, MarkSuspended, SetCurrentRow
  <2>3. CASE RefuseStep(w)
    BY <2>0, <2>3 DEF RefuseStep, MarkFailed, SetCurrentRow
  <2> QED
    BY <2>1, <2>2, <2>3
<1> DEFINE new == SetRows(old, {L}, st, val)
           passed == PassedBy(old, {L}, st, val)
<1>6. Begun(new) = Begun(old) /\ Settled(new) = Settled(old) \cup passed
  <2>1. {L} \in SUBSET (DOMAIN old) /\ \A k \in {L} : ~ SettledRow(old[k])
    BY <1>2, <1>3 DEF SettledRow
  <2> HIDE DEF old, L
  <2> QED
    BY <1>1, <2>1, UpdateQueries
<1>7. /\ passed = {} \/ passed = {j}
      /\ s # "running" => passed = {}
  BY <1>4, <1>5 DEF PassedBy
<1>8. rows' = [rows EXCEPT ![r] = new]
  BY <1>5
<1> HIDE DEF new, passed
<1>9. /\ [q \in Runs |-> Begun(rows[q])]' =
            [[q \in Runs |-> Begun(rows[q])] EXCEPT ![r] = Begun(new)]
      /\ [q \in Runs |-> Settled(rows[q])]' =
            [[q \in Runs |-> Settled(rows[q])] EXCEPT ![r] = Settled(new)]
  BY <1>1, <1>8, SeenOfRun
<1> HIDE DEF j
<1>10. [q \in Runs |-> Begun(rows[q])]' = [q \in Runs |-> Begun(rows[q])]
  BY <1>1, <1>6, <1>9
<1>11. passed = {} => [q \in Runs |-> Settled(rows[q])]' = [q \in Runs |-> Settled(rows[q])]
  <2>1. passed = {} => Settled(new) = Settled(old)
    BY <1>6
  <2> QED
    BY <1>1, <1>9, <2>1
<1>12. CASE s = "running" /\ passed = {}
  <2>1. status' = status
    BY <1>1, <1>5, <1>12 DEF TypeOK, DbType
  <2> QED
    BY <1>10, <1>11, <1>12, <2>1 DEF Mapped, Lifecycle!vars
<1>13. CASE s = "running" /\ passed = {j}
  <2>1. status' = status
    BY <1>1, <1>5, <1>13 DEF TypeOK, DbType
  <2>2. Lifecycle!Settle(r, j)
    BY <1>1, <1>4, <1>5, <1>6, <1>9, <1>10, <1>13, <2>1 DEF Lifecycle!Settle
  <2> QED
    BY <1>1, <1>4, <2>2 DEF Mapped, Lifecycle!Next
<1>14. CASE s # "running"
  <2>1. Lifecycle!Suspend(r) \/ Lifecycle!Fail(r)
    BY <1>1, <1>5, <1>7, <1>10, <1>11, <1>14
       DEF Lifecycle!Suspend, Lifecycle!Fail, Lifecycle!Moves
  <2> QED
    BY <1>1, <2>1 DEF Mapped, Lifecycle!Next
<1> QED
  BY <1>7, <1>12, <1>13, <1>14

\* A suspended run is answered, rejected or timed out, with its suspended row.
LEMMA SeenOfAnswer ==
    ASSUME TypeOK, Calm, NEW r \in Runs, status[r] = "suspended",
           NEW s \in {"queued", "failed"}, status' = [status EXCEPT ![r] = s],
           NEW st \in {"completed", "failed"}, NEW val \in StepResult \ {"error"},
           s = "failed" => st = "failed",
           rows' = [rows EXCEPT ![r] = SetRows(@, Suspended(rows[r]), st, val)]
    PROVE  Mapped
<1> DEFINE old == rows[r]
           ks == Suspended(rows[r])
           new == SetRows(old, ks, st, val)
           passed == PassedBy(old, ks, st, val)
<1>1. old \in Seq(StepRow(Steps)) /\ \A i, k \in ks : i = k
  BY DEF TypeOK, DbType, Calm, SuspensionsMatch
<1>2. Begun(new) = Begun(old) /\ Settled(new) = Settled(old) \cup passed
  <2>1. /\ ks \in SUBSET (DOMAIN old) /\ \A k \in ks : ~ SettledRow(old[k])
        /\ st \in StepStatus
    BY DEF Suspended, SettledRow, StepStatus
  <2> HIDE DEF old, ks
  <2> QED
    BY <1>1, <2>1, UpdateQueries
<1>3. /\ passed \in SUBSET Begun(old)
      /\ \A i, k \in passed : i = k
      /\ st = "failed" => passed = {}
  BY <1>1 DEF PassedBy, Begun, Suspended
<1>4. rows' = [rows EXCEPT ![r] = new]
  OBVIOUS
<1> HIDE DEF new, passed, ks
<1>5. /\ [q \in Runs |-> Begun(rows[q])]' =
            [[q \in Runs |-> Begun(rows[q])] EXCEPT ![r] = Begun(new)]
      /\ [q \in Runs |-> Settled(rows[q])]' =
            [[q \in Runs |-> Settled(rows[q])] EXCEPT ![r] = Settled(new)]
  BY <1>4, SeenOfRun
<1>6. [q \in Runs |-> Begun(rows[q])]' = [q \in Runs |-> Begun(rows[q])]
  BY <1>2, <1>5
<1>7. CASE s = "queued"
  <2>1. Lifecycle!Answer(r)
    BY <1>2, <1>3, <1>5, <1>6, <1>7 DEF Lifecycle!Answer, Lifecycle!Moves
  <2> QED
    BY <2>1 DEF Mapped, Lifecycle!Next
<1>8. CASE s = "failed"
  <2>1. Settled(new) = Settled(old)
    BY <1>2, <1>3, <1>8
  <2>2. [q \in Runs |-> Settled(rows[q])]' = [q \in Runs |-> Settled(rows[q])]
    BY <1>5, <2>1
  <2>3. Lifecycle!Fail(r)
    BY <1>6, <1>8, <2>2 DEF Lifecycle!Fail, Lifecycle!Moves
  <2> QED
    BY <2>3 DEF Mapped, Lifecycle!Next
<1> QED
  BY <1>7, <1>8

\* What a handler does is a creation, an answer, a failure, a retry, or unseen.
LEMMA ApiIsSeen ==
    ASSUME TypeOK, CalmInv, ApiStep \/ \E r \in Runs : Request(r)
    PROVE  Mapped
<1>1. ASSUME NEW r \in Runs, CreateRun(r)
      PROVE  Mapped
  <2>1. Turns(status[r], "queued") /\ status' = [status EXCEPT ![r] = "queued"] /\ rows' = rows
    BY <1>1 DEF CreateRun, Turns
  <2> QED
    BY <2>1, SeenOfStatus
<1>2. ASSUME NEW r \in Runs, ReadForResume(r) \/ ReadForCallback(r) \/ ReadForRetry(r)
      PROVE  Mapped
  <2>1. status' = status /\ rows' = rows
    BY <1>2 DEF ReadForResume, ReadForCallback, ReadForRetry, Admit, dbVars
  <2> QED
    BY <2>1, Unseen
<1>3. CASE LoseClaim \/ ApiSchedule
  <2>1. status' = status /\ rows' = rows
    BY <1>3 DEF LoseClaim, ApiSchedule, dbVars
  <2> QED
    BY <2>1, Unseen
<1>4. CASE RequeueFailed
  <2>1. /\ api.run \in Runs /\ status[api.run] = "failed"
        /\ status' = [status EXCEPT ![api.run] = "queued"] /\ rows' = rows
    BY <1>4 DEF RequeueFailed, Claiming, TypeOK, OtherType, CalmInv, Calm, ApiCalm
  <2>2. Turns(status[api.run], "queued")
    BY <2>1 DEF Turns
  <2> QED
    BY <2>1, <2>2, SeenOfStatus
<1>5. CASE Approve \/ Reject
  <2>1. /\ api.run \in Runs /\ status[api.run] = "suspended"
        /\ api.target = Suspended(rows[api.run])
    BY <1>5 DEF Approve, Reject, Claiming, TypeOK, OtherType, CalmInv, Calm, ApiCalm
  <2>2. {"approval", "answer", "rejected"} \subseteq StepResult \ {"error"}
    BY DEF StepResult
  <2>3. PICK st \in {"completed", "failed"}, val \in {"approval", "answer", "rejected"},
             s \in {"queued", "failed"} :
          /\ status' = [status EXCEPT ![api.run] = s]
          /\ s = "failed" => st = "failed"
          /\ rows' = [rows EXCEPT ![api.run] = SetRows(@, api.target, st, val)]
    BY <1>5 DEF Approve, Reject, ResolveOnApproval
  <2>4. rows' = [rows EXCEPT ![api.run] = SetRows(@, Suspended(rows[api.run]), st, val)]
    BY <2>1, <2>3
  <2> QED
    BY <2>1, <2>2, <2>3, <2>4, SeenOfAnswer DEF CalmInv
<1> QED
  BY <1>1, <1>2, <1>3, <1>4, <1>5 DEF ApiStep, Request

\* The sweeper fails suspended runs; nothing else is seen of it, or of a restart.
LEMMA ElsewhereIsSeen ==
    ASSUME TypeOK, CalmInv,
           \/ \E r \in Runs : DeadlinePasses(r) \/ ShutdownMark(r)
           \/ SweepStep \/ Shutdown \/ Restart \/ UNCHANGED vars
    PROVE  Mapped
<1>1. CASE \/ \E r \in Runs : DeadlinePasses(r)
           \/ Discover \/ Shutdown \/ Restart \/ UNCHANGED vars
  <2>1. status' = status /\ rows' = rows
    BY <1>1 DEF DeadlinePasses, Discover, Shutdown, Restart, vars, dbVars
  <2> QED
    BY <2>1, Unseen
<1>2. \A r \in Runs : ~ ShutdownMark(r)
  BY DEF ShutdownMark, CalmInv, Calm, PoolCalm
<1>3. ASSUME NEW e \in sweep, TimeOut(e)
      PROVE  Mapped
  <2>1. e.run \in Runs
    BY DEF TypeOK, OtherType
  <2>2. CASE status[e.run] = "suspended"
    <3>1. PICK t \in OneOf(FirstSuspendedForRun(rows[e.run])) :
            /\ rows' = [rows EXCEPT ![e.run] = SetRows(@, t, "failed", "timeout")]
            /\ status' = [status EXCEPT ![e.run] = "failed"]
      BY <1>3, <2>2 DEF TimeOut
    <3>2. t = Suspended(rows[e.run])
      BY <2>1, SuspendedFound DEF CalmInv
    <3>3. "timeout" \in StepResult \ {"error"}
      BY DEF StepResult
    <3>4. rows' = [rows EXCEPT ![e.run] =
                      SetRows(@, Suspended(rows[e.run]), "failed", "timeout")]
      BY <3>1, <3>2
    <3> QED
      BY <2>1, <2>2, <3>1, <3>3, <3>4, SeenOfAnswer DEF CalmInv
  <2>3. CASE status[e.run] # "suspended"
    <3>1. status' = status /\ rows' = rows
      BY <1>3, <2>3 DEF TimeOut
    <3> QED
      BY <3>1, Unseen
  <2> QED
    BY <2>2, <2>3
<1> QED
  BY <1>1, <1>2, <1>3 DEF SweepStep

\* What a thread does is one step of the life cycle, or unseen.
LEMMA ThreadIsSeen ==
    ASSUME TypeOK, CalmInv, NEW w \in Workers, WorkerStep(w)
    PROVE  Mapped
<1>1. CASE Take(w) \/ Load(w) \/ ContinueOnFailure(w) \/ Discard(w) \/ Recheck(w) \/ Reschedule(w)
  <2>1. status' = status /\ rows' = rows
    BY <1>1 DEF Take, Load, ContinueOnFailure, Discard, Recheck, Reschedule, dbVars
  <2> QED
    BY <2>1, Unseen
<1> QED
  BY <1>1, LoopIsSeen, SegmentIsSeen, ActIsSeen DEF WorkerStep

\* In calm conditions the engine implements the life cycle a run promises:
\* statuses move only as documented, each step is begun after the ones before it
\* were settled, a gate is settled by an answer to a suspended run or a guard
\* only, and a run completes when all its steps are settled.
THEOREM LifecycleImplemented ==
    ASSUME ~ Eager, ~ Graceful
    PROVE  Spec => ImplementsLifecycle
<1>1. Init => Lifecycle!Init
  <2> SUFFICES ASSUME Init PROVE Lifecycle!Init
    OBVIOUS
  <2>1. \A r \in Runs : Begun(rows[r]) = {} /\ Settled(rows[r]) = {}
    BY DEF Init, Begun, Settled
  <2> QED
    BY <2>1 DEF Init, Lifecycle!Init
<1>2. TypeOK /\ CalmInv /\ [Next]_vars => Mapped
  BY ThreadIsSeen, ApiIsSeen, ElsewhereIsSeen DEF Next
<1> QED
  BY <1>1, <1>2, TypeCorrect, CalmKept, PTL DEF Spec, Lifecycle!Spec, Mapped, ImplementsLifecycle
=============================================================================
