--------------------------- MODULE RunEngineProofs --------------------------
(***************************************************************************)
(* Theorems about RunEngine, for every set of runs and workers, every plan *)
(* and every value of the bounds.                                          *)
(***************************************************************************)
EXTENDS RunEngine, SequenceTheorems, FiniteSetTheorems, TLAPS

----------------------------------------------------------------------------
(* What the operators of RunStore return and leave alone, for every table. *)

\* A row sequence's positions are a finite set of positive numbers.
LEMMA RowPositions ==
    ASSUME NEW S, NEW rws \in Seq(S)
    PROVE  /\ DOMAIN rws = 1..Len(rws)
           /\ Len(rws) \in Nat
           /\ IsFiniteSet(DOMAIN rws)
           /\ DOMAIN rws \subseteq Nat
           /\ \A k \in DOMAIN rws : rws[k] \in S
<1>1. DOMAIN rws = 1..Len(rws) /\ Len(rws) \in Nat
  BY LenProperties
<1>2. IsFiniteSet(1..Len(rws))
  BY <1>1, FS_Interval
<1> QED
  BY <1>1, <1>2, ElementOfSeq

\* The rows of a step.
AttemptsOf(rws, j) == {k \in DOMAIN rws : rws[k].step = j}

\* Appending a row (StepRepository.append) keeps the others and adds one whose
\* fields are the ones given.
LEMMA AppendRowShape ==
    ASSUME NEW S, NEW rws \in Seq(StepRow(S)), NEW j \in S, NEW n \in Nat,
           NEW st \in StepStatus
    PROVE  /\ AppendRow(rws, j, n, st) \in Seq(StepRow(S))
           /\ Len(AppendRow(rws, j, n, st)) = Len(rws) + 1
           /\ AppendRow(rws, j, n, st) # <<>>
           /\ \A k \in 1..Len(rws) : AppendRow(rws, j, n, st)[k] = rws[k]
           /\ AppendRow(rws, j, n, st)[Len(rws) + 1].step = j
           /\ AppendRow(rws, j, n, st)[Len(rws) + 1].status = st
           /\ AppendRow(rws, j, n, st)[Len(rws) + 1].result = "none"
           /\ AppendRow(rws, j, n, st)[Len(rws) + 1].attempt =
                 Cardinality(AttemptsOf(rws, j)) + 1
<1> DEFINE others == AttemptsOf(rws, j)
           row == [step |-> j, num |-> n, attempt |-> Cardinality(others) + 1,
                   status |-> st, result |-> "none"]
<1>1. Cardinality(others) \in Nat
  <2>1. IsFiniteSet(DOMAIN rws)
    BY RowPositions
  <2>2. IsFiniteSet(others)
    BY <2>1, FS_Subset DEF AttemptsOf
  <2> QED
    BY <2>2, FS_CardinalityType
<1>2. row \in StepRow(S)
  BY <1>1 DEF StepRow, StepResult
<1>3. AppendRow(rws, j, n, st) = Append(rws, row)
  BY DEF AppendRow, AttemptsOf
<1> HIDE DEF row
<1>4. /\ Append(rws, row) \in Seq(StepRow(S))
      /\ Len(Append(rws, row)) = Len(rws) + 1
      /\ \A k \in 1..Len(rws) : Append(rws, row)[k] = rws[k]
      /\ Append(rws, row)[Len(rws) + 1] = row
  BY <1>2, AppendProperties
<1>5. Append(rws, row) # <<>>
  BY <1>2, AppendProperties
<1> QED
  BY <1>3, <1>4, <1>5 DEF row

\* Updating rows by key changes no other row and no row's step or attempt.
LEMMA SetRowsShape ==
    ASSUME NEW S, NEW rws \in Seq(StepRow(S)), NEW ks,
           NEW st \in StepStatus, NEW res \in StepResult
    PROVE  /\ SetRows(rws, ks, st, res) \in Seq(StepRow(S))
           /\ Len(SetRows(rws, ks, st, res)) = Len(rws)
           /\ rws # <<>> => SetRows(rws, ks, st, res) # <<>>
           /\ DOMAIN SetRows(rws, ks, st, res) = DOMAIN rws
           /\ \A k \in DOMAIN rws :
                 /\ SetRows(rws, ks, st, res)[k].step = rws[k].step
                 /\ SetRows(rws, ks, st, res)[k].attempt = rws[k].attempt
                 /\ k \notin ks => SetRows(rws, ks, st, res)[k] = rws[k]
                 /\ k \in ks => /\ SetRows(rws, ks, st, res)[k].status = st
                                /\ SetRows(rws, ks, st, res)[k].result = res
<1> DEFINE new == SetRows(rws, ks, st, res)
<1>1. /\ DOMAIN rws = 1..Len(rws)
      /\ Len(rws) \in Nat
      /\ \A k \in DOMAIN rws : rws[k] \in StepRow(S)
  BY RowPositions
<1>2. new = [k \in 1..Len(rws) |-> IF k \in ks
                                   THEN [rws[k] EXCEPT !.status = st, !.result = res]
                                   ELSE rws[k]]
  BY <1>1 DEF SetRows
<1>3. \A k \in 1..Len(rws) :
        /\ new[k] \in StepRow(S)
        /\ new[k].step = rws[k].step
        /\ new[k].attempt = rws[k].attempt
        /\ k \notin ks => new[k] = rws[k]
        /\ k \in ks => new[k].status = st /\ new[k].result = res
  BY <1>1, <1>2 DEF StepRow
<1>4. new \in [1..Len(rws) -> StepRow(S)]
  BY <1>2, <1>3
<1>5. new \in Seq(StepRow(S)) /\ Len(new) = Len(rws)
  BY <1>1, <1>4, IsASeq, LenProperties
<1>6. rws # <<>> => new # <<>>
  BY <1>5, EmptySeq
<1> QED
  BY <1>1, <1>2, <1>3, <1>5, <1>6

\* Approving resolves the suspended rows and keeps the table's type.
LEMMA ResolveShape ==
    ASSUME NEW S, NEW rws \in Seq(StepRow(S)), NEW ks, NEW err
    PROVE  /\ ResolveOnApproval(rws, ks, err) \in Seq(StepRow(S))
           /\ Len(ResolveOnApproval(rws, ks, err)) = Len(rws)
           /\ rws # <<>> => ResolveOnApproval(rws, ks, err) # <<>>
<1>1. /\ "failed" \in StepStatus /\ "completed" \in StepStatus
      /\ "approval" \in StepResult /\ "answer" \in StepResult
  BY DEF StepStatus, StepResult
<1> QED
  BY <1>1, SetRowsShape DEF ResolveOnApproval

\* The queries return positions of the table, the restored steps are steps.
LEMMA QueryShape ==
    ASSUME NEW S, NEW rws \in Seq(StepRow(S))
    PROVE  /\ FirstSuspendedForRun(rws) \subseteq DOMAIN rws
           /\ FirstSuspendedOfDetail(rws) \subseteq DOMAIN rws
           /\ RestoredSteps(rws) \subseteq S
           /\ RestoredApprovals(rws) \subseteq S
<1>1. \A k \in DOMAIN rws : rws[k] \in StepRow(S)
  BY RowPositions
<1> QED
  BY <1>1 DEF FirstSuspendedForRun, FirstSuspendedOfDetail, Suspended,
              RestoredSteps, RestoredApprovals, StepRow

\* A query that returns one row or none returns a set of positions.
LEMMA OneOfShape ==
    ASSUME NEW ks, NEW t \in OneOf(ks)
    PROVE  t \subseteq ks
BY DEF OneOf

----------------------------------------------------------------------------
(* Types. *)


\* A row of a table that has its type is a row of one of the plan's steps.
LEMMA CurrentStepType ==
    ASSUME TypeOK, NEW w \in Workers, pc[w] \in {"act", "handle"}
    PROVE  /\ job[w] \in Runs
           /\ CurrentStep(w) \in Steps
<1>1. job[w] \in Runs /\ rows[job[w]] # <<>> /\ rows[job[w]] \in Seq(StepRow(Steps))
  BY DEF TypeOK, WorkerType, DbType
<1>2. CurrentRow(w) \in 1..Len(rows[job[w]])
  BY <1>1, EmptySeq DEF CurrentRow
<1>3. rows[job[w]][CurrentRow(w)] \in StepRow(Steps)
  BY <1>1, <1>2, ElementOfSeq
<1> QED
  BY <1>1, <1>3 DEF CurrentStep, StepRow

\* schedule() holds and queues runs only.
LEMMA ScheduleType ==
    ASSUME TypeOK, NEW r \in Runs, Schedule(r)
    PROVE  PoolType'
BY AppendProperties DEF Schedule, TypeOK, PoolType, poolVars

\* Updating the row a thread is at keeps the table's type and empties no run's.
LEMMA SetCurrentRowType ==
    ASSUME TypeOK, NEW w \in Workers, pc[w] \in {"act", "handle"},
           NEW st \in StepStatus, NEW res \in StepResult,
           SetCurrentRow(w, st, res)
    PROVE  /\ rows' \in [Runs -> Seq(StepRow(Steps))]
           /\ \A r \in Runs : rows[r] # <<>> => rows'[r] # <<>>
<1> DEFINE old == rows[job[w]]
           new == SetRows(old, {Len(old)}, st, res)
<1>1. job[w] \in Runs
  BY CurrentStepType
<1>2. rows \in [Runs -> Seq(StepRow(Steps))]
  BY DEF TypeOK, DbType
<1> HIDE DEF old
<1>3. old \in Seq(StepRow(Steps))
  BY <1>1, <1>2 DEF old
<1>5. new \in Seq(StepRow(Steps)) /\ (old # <<>> => new # <<>>)
  BY <1>3, SetRowsShape
<1>4. rows' = [rows EXCEPT ![job[w]] = new]
  BY DEF SetCurrentRow, old
<1> HIDE DEF new
<1> QED
  BY <1>1, <1>2, <1>4, <1>5 DEF old

\* Inserting a row keeps the table's type and empties no run's rows.
LEMMA AppendRowType ==
    ASSUME TypeOK, NEW r \in Runs, NEW j \in Steps, NEW n \in Nat, NEW st \in StepStatus,
           rows' = [rows EXCEPT ![r] = AppendRow(@, j, n, st)]
    PROVE  /\ rows' \in [Runs -> Seq(StepRow(Steps))]
           /\ \A q \in Runs : rows[q] # <<>> => rows'[q] # <<>>
           /\ rows'[r] # <<>>
<1> DEFINE new == AppendRow(rows[r], j, n, st)
<1>1. rows \in [Runs -> Seq(StepRow(Steps))] /\ rows[r] \in Seq(StepRow(Steps))
  BY DEF TypeOK, DbType
<1>2. new \in Seq(StepRow(Steps)) /\ new # <<>>
  BY <1>1, AppendRowShape
<1>3. rows' = [rows EXCEPT ![r] = new]
  OBVIOUS
<1> HIDE DEF new
<1> QED
  BY <1>1, <1>2, <1>3

\* Failing a run writes a status and an error of the right types.
LEMMA MarkFailedType ==
    ASSUME TypeOK, NEW r \in Runs, NEW type \in ErrorType, MarkFailed(r, type)
    PROVE  /\ status' \in [Runs -> RunStatus]
           /\ error' \in [Runs -> RunError]
<1>1. ErrorOf(type, 0) \in RunError
  BY DEF ErrorOf, RunError
<1> QED
  BY <1>1 DEF MarkFailed, TypeOK, DbType, RunStatus

\* Suspending a run writes values of the right types.
LEMMA MarkSuspendedType ==
    ASSUME TypeOK, NEW r \in Runs, NEW type \in ErrorType, NEW pre \in BOOLEAN,
           MarkSuspended(r, type, pre)
    PROVE  /\ status' \in [Runs -> RunStatus]
           /\ error' \in [Runs -> RunError]
           /\ issued' \in [Runs -> Nat]
           /\ late' \subseteq Runs
<1> DEFINE e == [type |-> type, cb |-> issued[r] + 1, pre |-> pre]
<1>1. e \in RunError
  BY DEF TypeOK, DbType, RunError
<1>2. error' = [error EXCEPT ![r] = e]
  BY DEF MarkSuspended
<1> HIDE DEF e
<1> QED
  BY <1>1, <1>2 DEF MarkSuspended, TypeOK, DbType, RunStatus

\* A thread takes a task.
LEMMA TypeOfTake ==
    ASSUME TypeOK, NEW w \in Workers, Take(w)
    PROVE  TypeOK'
<1>1. Head(queue) \in Runs /\ Tail(queue) \in Seq(Runs)
  BY HeadTailProperties DEF Take, TypeOK, PoolType
<1>2. WorkerType'
  BY <1>1 DEF Take, TypeOK, WorkerType, dbVars, PC
<1> QED
  BY <1>1, <1>2 DEF Take, TypeOK, DbType, PoolType, OtherType, dbVars, otherVars

\* A segment reads what was done before.
LEMMA TypeOfLoad ==
    ASSUME TypeOK, NEW w \in Workers, Load(w)
    PROVE  TypeOK'
<1>1. RestoredApprovals(rows[job[w]]) \subseteq Steps
  <2>1. rows[job[w]] \in Seq(StepRow(Steps))
    BY DEF Load, TypeOK, WorkerType, DbType
  <2> QED
    BY <2>1, QueryShape
<1>2. WorkerType'
  BY <1>1 DEF Load, TypeOK, WorkerType, dbVars, PC
<1> QED
  BY <1>2 DEF Load, TypeOK, DbType, PoolType, OtherType, dbVars, poolVars, otherVars

\* A segment ends with its run failed, suspended or completed.
LEMMA TypeOfSegmentEnd ==
    ASSUME TypeOK, NEW w \in Workers,
           FailBeforeStep(w) \/ FailRun(w) \/ EscalateFailure(w) \/ CompleteRun(w)
    PROVE  TypeOK'
<1>1. job[w] \in Runs
  BY DEF TypeOK, WorkerType, FailBeforeStep, FailRun, EscalateFailure, CompleteRun, Handling
<1>2. EndSegment(w) /\ UNCHANGED <<job, poolVars, otherVars, rows>>
  BY DEF FailBeforeStep, FailRun, EscalateFailure, CompleteRun
<1>3. WorkerType'
  BY <1>1, <1>2 DEF EndSegment, TypeOK, WorkerType, PC
<1>4. CASE FailBeforeStep(w) \/ FailRun(w)
  <2>1. MarkFailed(job[w], "error") /\ UNCHANGED <<issued, late>>
    BY <1>4 DEF FailBeforeStep, FailRun
  <2>2. "error" \in ErrorType
    BY DEF ErrorType
  <2>3. DbType'
    BY <1>1, <1>2, <2>1, <2>2, MarkFailedType DEF TypeOK, DbType
  <2> QED
    BY <1>2, <1>3, <2>3 DEF TypeOK, PoolType, OtherType, poolVars, otherVars
<1>5. CASE EscalateFailure(w)
  <2>1. MarkSuspended(job[w], "escalation", FALSE)
    BY <1>5 DEF EscalateFailure
  <2>2. "escalation" \in ErrorType
    BY DEF ErrorType
  <2>3. DbType'
    BY <1>1, <1>2, <2>1, <2>2, MarkSuspendedType DEF TypeOK, DbType
  <2> QED
    BY <1>2, <1>3, <2>3 DEF TypeOK, PoolType, OtherType, poolVars, otherVars
<1>6. CASE CompleteRun(w)
  <2>1. DbType'
    BY <1>1, <1>2, <1>6 DEF CompleteRun, TypeOK, DbType, RunStatus
  <2> QED
    BY <1>2, <1>3, <2>1 DEF TypeOK, PoolType, OtherType, poolVars, otherVars
<1> QED
  BY <1>4, <1>5, <1>6

\* The plan loop reaches a step.
LEMMA TypeOfLoop ==
    ASSUME TypeOK, NEW w \in Workers, SkipStep(w) \/ BeginStep(w)
    PROVE  TypeOK'
<1>1. job[w] \in Runs /\ nth[w] \in Nat /\ left[w] \subseteq Steps
  BY DEF TypeOK, WorkerType, SkipStep, BeginStep
<1>2. "skipped" \in StepStatus /\ "running" \in StepStatus
  BY DEF StepStatus
<1>3. PICK j \in Steps, st \in StepStatus :
        rows' = [rows EXCEPT ![job[w]] = AppendRow(@, j, nth[w], st)]
  BY <1>1, <1>2 DEF SkipStep, BeginStep
<1>4. /\ rows' \in [Runs -> Seq(StepRow(Steps))]
      /\ \A q \in Runs : rows[q] # <<>> => rows'[q] # <<>>
      /\ rows'[job[w]] # <<>>
  BY <1>1, <1>3, AppendRowType
<1>5. WorkerType'
  <2>1. CASE SkipStep(w)
    <3>1. PICK i \in Steps : PassStep(w, i)
      BY <1>1, <2>1 DEF SkipStep
    <3>2. UNCHANGED <<pc, job, approved>>
      BY <2>1 DEF SkipStep
    <3> QED
      BY <1>4, <3>1, <3>2 DEF PassStep, TypeOK, WorkerType
  <2>2. CASE BeginStep(w)
    <3>1. pc' = [pc EXCEPT ![w] = "act"] /\ UNCHANGED <<job, left, nth, approved>>
      BY <2>2 DEF BeginStep
    <3> QED
      BY <1>1, <1>4, <3>1 DEF TypeOK, WorkerType, PC
  <2> QED
    BY <2>1, <2>2
<1> QED
  BY <1>4, <1>5 DEF SkipStep, BeginStep, TypeOK, DbType, PoolType, OtherType, poolVars, otherVars

\* A step's action comes back.
LEMMA TypeOfAct ==
    ASSUME TypeOK, NEW w \in Workers,
           CompleteStep(w) \/ FailStep(w) \/ RefuseStep(w) \/ Suspend(w)
    PROVE  TypeOK'
<1>1. pc[w] \in {"act", "handle"} /\ job[w] \in Runs
  BY DEF CompleteStep, FailStep, RefuseStep, Suspend, Acting, TypeOK, WorkerType
<1>2. /\ "completed" \in StepStatus /\ "failed" \in StepStatus /\ "suspended" \in StepStatus
      /\ {"data", "empty", "error", "critique", "refused", "none"} \subseteq StepResult
      /\ {"gate", "escalation", "error"} \subseteq ErrorType
  BY DEF StepStatus, StepResult, ErrorType
<1>3. PICK st \in StepStatus, res \in StepResult : SetCurrentRow(w, st, res)
  BY <1>2 DEF CompleteStep, FailStep, RefuseStep, Suspend
<1>4. /\ rows' \in [Runs -> Seq(StepRow(Steps))]
      /\ \A r \in Runs : rows[r] # <<>> => rows'[r] # <<>>
  BY <1>1, <1>3, SetCurrentRowType
<1>5. CASE CompleteStep(w) \/ FailStep(w)
  <2>1. WorkerType'
    <3>1. CASE CompleteStep(w)
      <4>1. PassStep(w, CurrentStep(w)) /\ pc' = [pc EXCEPT ![w] = "loop"]
            /\ UNCHANGED <<job, approved>>
        BY <3>1 DEF CompleteStep
      <4> QED
        BY <1>1, <1>4, <4>1 DEF PassStep, TypeOK, WorkerType, PC
    <3>2. CASE FailStep(w)
      <4>1. pc' = [pc EXCEPT ![w] = "handle"] /\ UNCHANGED <<job, left, nth, approved>>
        BY <3>2 DEF FailStep
      <4> QED
        BY <1>1, <1>4, <4>1 DEF TypeOK, WorkerType, PC
    <3> QED
      BY <1>5, <3>1, <3>2
  <2> QED
    BY <1>4, <1>5, <2>1 DEF CompleteStep, FailStep, TypeOK, DbType, PoolType, OtherType,
                            poolVars, otherVars
<1>6. CASE RefuseStep(w) \/ Suspend(w)
  <2>1. EndSegment(w) /\ UNCHANGED <<job, poolVars, otherVars>>
    BY <1>6 DEF RefuseStep, Suspend
  <2>2. WorkerType'
    BY <1>1, <1>4, <2>1 DEF EndSegment, TypeOK, WorkerType, PC
  <2>3. CASE RefuseStep(w)
    <3>1. MarkFailed(job[w], "error") /\ UNCHANGED <<issued, late>>
      BY <2>3 DEF RefuseStep
    <3>2. DbType'
      BY <1>1, <1>2, <1>4, <3>1, MarkFailedType DEF TypeOK, DbType
    <3> QED
      BY <2>1, <2>2, <3>2 DEF TypeOK, PoolType, OtherType, poolVars, otherVars
  <2>4. CASE Suspend(w)
    <3>1. PICK type \in ErrorType, pre \in BOOLEAN : MarkSuspended(job[w], type, pre)
      BY <1>2, <2>4 DEF Suspend
    <3>2. DbType'
      BY <1>1, <1>4, <3>1, MarkSuspendedType DEF TypeOK, DbType
    <3> QED
      BY <2>1, <2>2, <3>2 DEF TypeOK, PoolType, OtherType, poolVars, otherVars
  <2> QED
    BY <1>6, <2>3, <2>4
<1> QED
  BY <1>5, <1>6

\* The plan goes on behind a failed step.
LEMMA TypeOfContinue ==
    ASSUME TypeOK, NEW w \in Workers, ContinueOnFailure(w)
    PROVE  TypeOK'
<1>1. /\ pc[w] = "handle" /\ pc' = [pc EXCEPT ![w] = "loop"]
      /\ PassStep(w, CurrentStep(w)) /\ UNCHANGED <<dbVars, poolVars, job, approved, otherVars>>
  BY DEF ContinueOnFailure, Handling
<1>2. WorkerType'
  BY <1>1 DEF PassStep, TypeOK, WorkerType, PC, dbVars
<1>3. DbType' /\ PoolType' /\ OtherType'
  BY <1>1 DEF TypeOK, DbType, PoolType, OtherType, dbVars, poolVars, otherVars
<1> QED
  BY <1>2, <1>3 DEF TypeOK

\* A thread starts, or lets go of, its run.
LEMMA TypeOfTeardown ==
    ASSUME TypeOK, NEW w \in Workers,
           Start(w) \/ Discard(w) \/ Recheck(w) \/ Reschedule(w)
    PROVE  TypeOK'
<1>1. CASE Start(w)
  BY <1>1 DEF Start, TypeOK, DbType, PoolType, OtherType, WorkerType, PC, RunStatus,
              poolVars, otherVars
<1>2. CASE Discard(w)
  BY <1>2 DEF Discard, TypeOK, DbType, PoolType, OtherType, WorkerType, PC, dbVars, otherVars
<1>3. CASE Recheck(w)
  BY <1>3 DEF Recheck, TypeOK, DbType, PoolType, OtherType, WorkerType, PC, dbVars, poolVars,
              otherVars
<1>4. CASE Reschedule(w)
  <2>1. job[w] \in Runs /\ Schedule(job[w])
    BY <1>4 DEF Reschedule, TypeOK, WorkerType
  <2>2. PoolType'
    BY <2>1, ScheduleType
  <2> QED
    BY <1>4, <2>2 DEF Reschedule, TypeOK, DbType, OtherType, WorkerType, PC, dbVars, otherVars
<1> QED
  BY <1>1, <1>2, <1>3, <1>4

ApiType ==
    [pc : {"idle", "claim", "schedule"}, op : ApiOp, run : Runs \cup {NoRun},
     target : SUBSET Nat, err : RunError]

\* A request reads and is admitted, or creates its run.
LEMMA TypeOfRequest ==
    ASSUME TypeOK, NEW r \in Runs, Request(r)
    PROVE  TypeOK'
<1>0. rows[r] \in Seq(StepRow(Steps)) /\ error[r] \in RunError
  BY DEF TypeOK, DbType
<1>1. CASE CreateRun(r)
  <2>1. api' = [pc |-> "schedule", op |-> "create", run |-> r, target |-> {}, err |-> NoError]
    BY <1>1 DEF CreateRun, IdleApi
  <2>2. NoError \in RunError
    BY DEF NoError, RunError, ErrorType
  <2>3. api' \in ApiType /\ api'.run \in Runs
    BY <2>1, <2>2 DEF ApiType, ApiOp
  <2>4. status' \in [Runs -> RunStatus]
    BY <1>1 DEF CreateRun, TypeOK, DbType, RunStatus
  <2> QED
    BY <1>1, <2>3, <2>4 DEF CreateRun, TypeOK, DbType, PoolType, WorkerType, OtherType, ApiType,
                            poolVars, workerVars
<1>2. CASE ReadForResume(r) \/ ReadForCallback(r) \/ ReadForRetry(r)
  <2>2. DOMAIN rows[r] \subseteq Nat
    BY <1>0, RowPositions
  <2>3. \A t \in OneOf(FirstSuspendedOfDetail(rows[r])) \cup OneOf(FirstSuspendedForRun(rows[r])) :
          t \in SUBSET Nat
    BY <1>0, <2>2, QueryShape, OneOfShape
  <2>4. \E op \in ApiOp, t \in SUBSET Nat : Admit(r, op, t)
    <3>1. {} \in SUBSET Nat /\ {"resume", "reject", "callback", "callbackReject", "retry"} \subseteq ApiOp
      BY DEF ApiOp
    <3>2. CASE ReadForResume(r)
      BY <2>3, <3>1, <3>2 DEF ReadForResume
    <3>3. CASE ReadForCallback(r)
      BY <2>3, <3>1, <3>3 DEF ReadForCallback
    <3>4. CASE ReadForRetry(r)
      BY <3>1, <3>4 DEF ReadForRetry
    <3> QED
      BY <1>2, <3>2, <3>3, <3>4
  <2>5. PICK op \in ApiOp, t \in SUBSET Nat : Admit(r, op, t)
    BY <2>4
  <2>6. api' \in ApiType /\ api'.run \in Runs
    BY <1>0, <2>5 DEF Admit, ApiType
  <2> QED
    BY <2>5, <2>6 DEF Admit, TypeOK, DbType, PoolType, WorkerType, OtherType, ApiType,
                      dbVars, poolVars, workerVars
<1> QED
  BY <1>1, <1>2 DEF Request

\* An answer that wins its claim resolves the suspended row it read.
LEMMA TypeOfAnswer ==
    ASSUME TypeOK, Approve \/ Reject
    PROVE  TypeOK'
<1> DEFINE r == api.run
           st == IF Approve THEN "queued" ELSE "failed"
<1>1. r \in Runs /\ api \in ApiType /\ api.err \in RunError /\ rows[r] \in Seq(StepRow(Steps))
  BY DEF Approve, Reject, Claiming, TypeOK, DbType, OtherType, ApiType
<1>2. NoError \in RunError
  BY DEF NoError, RunError, ErrorType
<1>3. \E s \in RunStatus : status' = [status EXCEPT ![r] = s]
  BY DEF Approve, Reject, RunStatus
<1>4. \E e \in RunError : error' = [error EXCEPT ![r] = e]
  <2>1. CASE Approve
    BY <1>1, <1>2, <2>1 DEF Approve
  <2>2. CASE Reject
    <3> DEFINE e == ErrorOf("rejected", IF api.op = "reject" THEN 0 ELSE api.err.cb)
    <3>1. e \in RunError
      BY <1>1 DEF ErrorOf, RunError, ErrorType
    <3>2. error' = [error EXCEPT ![r] = e]
      BY <2>2 DEF Reject
    <3> HIDE DEF e
    <3> QED
      BY <3>1, <3>2
  <2> QED
    BY <2>1, <2>2
<1>5. \E new \in Seq(StepRow(Steps)) :
        /\ rows' = [rows EXCEPT ![r] = new]
        /\ rows[r] # <<>> => new # <<>>
  <2>1. CASE Approve
    <3> DEFINE new == ResolveOnApproval(rows[r], api.target, api.err)
    <3>1. new \in Seq(StepRow(Steps)) /\ (rows[r] # <<>> => new # <<>>)
      BY <1>1, ResolveShape
    <3>2. rows' = [rows EXCEPT ![r] = new]
      BY <2>1 DEF Approve
    <3> HIDE DEF new
    <3> QED
      BY <3>1, <3>2
  <2>2. CASE Reject
    <3> DEFINE new == SetRows(rows[r], api.target, "failed", "rejected")
    <3>1. "failed" \in StepStatus /\ "rejected" \in StepResult
      BY DEF StepStatus, StepResult
    <3>2. new \in Seq(StepRow(Steps)) /\ (rows[r] # <<>> => new # <<>>)
      BY <1>1, <3>1, SetRowsShape
    <3>3. rows' = [rows EXCEPT ![r] = new]
      BY <2>2 DEF Reject
    <3> HIDE DEF new
    <3> QED
      BY <3>2, <3>3
  <2> QED
    BY <2>1, <2>2
<1>6. /\ UNCHANGED <<issued, poolVars, workerVars, sweep, phase, dying, stops>>
      /\ late' = late \ {r}
      /\ ops' = [ops EXCEPT ![r] = @ + 1]
  BY DEF Approve, Reject, Spend
<1>7. DbType'
  BY <1>1, <1>3, <1>4, <1>5, <1>6 DEF TypeOK, DbType
<1>8. WorkerType'
  <2>1. \A q \in Runs : rows[q] # <<>> => rows'[q] # <<>>
    BY <1>1, <1>5 DEF TypeOK, DbType
  <2> QED
    BY <1>6, <2>1 DEF TypeOK, WorkerType, workerVars
<1>9. OtherType'
  <2>1. api' \in ApiType /\ (api'.pc # "idle" => api'.run \in Runs)
    <3>1. api' = IdleApi \/ api' = [api EXCEPT !.pc = "schedule"]
      BY DEF Approve, Reject
    <3> QED
      BY <1>1, <1>2, <3>1 DEF IdleApi, ApiType, ApiOp
  <2>2. ops' \in [Runs -> Nat]
    BY <1>1, <1>6 DEF TypeOK, OtherType
  <2> QED
    BY <1>6, <2>1, <2>2 DEF TypeOK, OtherType, ApiType
<1> QED
  BY <1>6, <1>7, <1>8, <1>9 DEF TypeOK, PoolType, poolVars

\* The handler's other steps.
LEMMA TypeOfApi ==
    ASSUME TypeOK, ApiStep
    PROVE  TypeOK'
<1>0. api \in ApiType /\ (api.pc # "idle" => api.run \in Runs)
  BY DEF TypeOK, OtherType, ApiType
<1>1. NoError \in RunError
  BY DEF NoError, RunError, ErrorType
<1>2. IdleApi \in ApiType /\ IdleApi.pc = "idle"
  BY <1>1 DEF IdleApi, ApiOp, ApiType
<1>3. CASE LoseClaim
  BY <1>2, <1>3 DEF LoseClaim, TypeOK, DbType, PoolType, WorkerType, OtherType, ApiType,
                    dbVars, poolVars, workerVars
<1>4. CASE RequeueFailed
  <2>1. api.run \in Runs /\ api' = [api EXCEPT !.pc = "schedule"]
    BY <1>0, <1>4 DEF RequeueFailed, Claiming
  <2>2. api' \in ApiType /\ api'.run \in Runs
    BY <1>0, <2>1 DEF ApiType
  <2>3. status' \in [Runs -> RunStatus] /\ error' \in [Runs -> RunError]
    BY <1>1, <1>4, <2>1 DEF RequeueFailed, TypeOK, DbType, RunStatus
  <2>4. ops' \in [Runs -> Nat]
    BY <1>4, <2>1 DEF RequeueFailed, Spend, TypeOK, OtherType
  <2> QED
    BY <1>4, <2>2, <2>3, <2>4 DEF RequeueFailed, TypeOK, DbType, PoolType, WorkerType,
                                  OtherType, ApiType, poolVars, workerVars
<1>5. CASE ApiSchedule
  <2>1. PoolType'
    BY <1>0, <1>5, ScheduleType DEF ApiSchedule
  <2> QED
    BY <1>2, <1>5, <2>1 DEF ApiSchedule, TypeOK, DbType, WorkerType, OtherType, ApiType,
                            dbVars, workerVars
<1> QED
  BY <1>3, <1>4, <1>5, TypeOfAnswer DEF ApiStep

\* The sweeper's steps.
LEMMA TypeOfSweep ==
    ASSUME TypeOK, NEW r \in Runs, DeadlinePasses(r) \/ SweepStep
    PROVE  TypeOK'
<1>1. CASE DeadlinePasses(r)
  BY <1>1 DEF DeadlinePasses, TypeOK, DbType, PoolType, WorkerType, OtherType,
              poolVars, workerVars, otherVars
<1>2. CASE Discover
  <2>1. sweep' \subseteq [run : Runs, err : RunError]
    BY <1>2 DEF Discover, Expired, TypeOK, DbType
  <2> QED
    BY <1>2, <2>1 DEF Discover, TypeOK, DbType, PoolType, WorkerType, OtherType,
                      dbVars, poolVars, workerVars
<1>3. ASSUME NEW e \in sweep, TimeOut(e)
      PROVE  TypeOK'
  <2>1. e \in [run : Runs, err : RunError] /\ sweep' \subseteq [run : Runs, err : RunError]
    BY <1>3 DEF TimeOut, TypeOK, OtherType
  <2>2. CASE status[e.run] = "suspended"
    <3>1. rows[e.run] \in Seq(StepRow(Steps)) /\ e.run \in Runs /\ e.err.cb \in Nat
      BY <2>1 DEF TypeOK, DbType, RunError
    <3>2. ErrorOf("timeout", e.err.cb) \in RunError
      BY <3>1 DEF ErrorOf, RunError, ErrorType
    <3>3. PICK t : rows' = [rows EXCEPT ![e.run] = SetRows(@, t, "failed", "timeout")]
      BY <1>3, <2>2 DEF TimeOut
    <3> DEFINE new == SetRows(rows[e.run], t, "failed", "timeout")
    <3>4. "failed" \in StepStatus /\ "timeout" \in StepResult
      BY DEF StepStatus, StepResult
    <3>5. new \in Seq(StepRow(Steps)) /\ (rows[e.run] # <<>> => new # <<>>)
      BY <3>1, <3>4, SetRowsShape
    <3>6. rows' = [rows EXCEPT ![e.run] = new]
      BY <3>3
    <3> HIDE DEF new
    <3>7. /\ rows' \in [Runs -> Seq(StepRow(Steps))]
          /\ \A q \in Runs : rows[q] # <<>> => rows'[q] # <<>>
      BY <3>1, <3>5, <3>6 DEF TypeOK, DbType
    <3>8. /\ status' = [status EXCEPT ![e.run] = "failed"]
          /\ error' = [error EXCEPT ![e.run] = ErrorOf("timeout", e.err.cb)]
          /\ late' = late \ {e.run}
          /\ UNCHANGED <<issued, poolVars, workerVars, api, phase, dying, ops, stops>>
      BY <1>3, <2>2 DEF TimeOut
    <3>9. DbType'
      BY <3>1, <3>2, <3>7, <3>8 DEF TypeOK, DbType, RunStatus
    <3>10. WorkerType'
      BY <3>7, <3>8 DEF TypeOK, WorkerType, workerVars
    <3> QED
      BY <2>1, <3>8, <3>9, <3>10 DEF TypeOK, PoolType, OtherType, poolVars
  <2>3. CASE status[e.run] # "suspended"
    BY <1>3, <2>1, <2>3 DEF TimeOut, TypeOK, DbType, PoolType, WorkerType, OtherType,
                            poolVars, workerVars
  <2> QED
    BY <2>2, <2>3
<1> QED
  BY <1>1, <1>2, <1>3 DEF SweepStep

\* Stopping the process, and starting it again.
LEMMA TypeOfStop ==
    ASSUME TypeOK, Shutdown \/ (\E r \in Runs : ShutdownMark(r)) \/ Restart
    PROVE  TypeOK'
<1>1. CASE Shutdown
  BY <1>1 DEF Shutdown, TypeOK, DbType, PoolType, WorkerType, OtherType,
              dbVars, poolVars, workerVars
<1>2. ASSUME NEW r \in Runs, ShutdownMark(r)
      PROVE  TypeOK'
  <2>1. "shutdown" \in ErrorType /\ MarkFailed(r, "shutdown")
    BY <1>2 DEF ErrorType, ShutdownMark
  <2>2. status' \in [Runs -> RunStatus] /\ error' \in [Runs -> RunError]
    BY <2>1, MarkFailedType
  <2> QED
    BY <1>2, <2>2 DEF ShutdownMark, TypeOK, DbType, PoolType, WorkerType, OtherType,
                      poolVars, workerVars
<1>3. CASE Restart
  <2>1. NoError \in RunError
    BY DEF NoError, RunError, ErrorType
  <2>2. IdleApi \in ApiType /\ IdleApi.pc = "idle"
    BY <2>1 DEF IdleApi, ApiOp, ApiType
  <2>3. OtherType'
    BY <1>3, <2>2 DEF Restart, TypeOK, OtherType, ApiType
  <2>4. WorkerType'
    BY <1>3 DEF Restart, WorkerType, PC
  <2>5. PoolType'
    BY <1>3, EmptySeq DEF Restart, PoolType
  <2> QED
    BY <1>3, <2>3, <2>4, <2>5 DEF Restart, TypeOK, DbType, dbVars
<1> QED
  BY <1>1, <1>2, <1>3

\* The initial state has its types.
LEMMA TypeOfInit ==
    ASSUME Init
    PROVE  TypeOK
<1>1. NoError \in RunError
  BY DEF NoError, RunError, ErrorType
<1>2. DbType
  BY <1>1, EmptySeq DEF Init, DbType, RunStatus
<1>3. PoolType
  BY EmptySeq DEF Init, PoolType
<1>4. WorkerType
  BY DEF Init, WorkerType, PC
<1>5. IdleApi \in ApiType /\ IdleApi.pc = "idle"
  BY <1>1 DEF IdleApi, ApiOp, ApiType
<1>6. OtherType
  BY <1>5, BoundAssumption DEF Init, OtherType, ApiType
<1> QED
  BY <1>2, <1>3, <1>4, <1>6 DEF TypeOK

\* Every thread's, handler's, sweeper's and operator's step keeps the types.
LEMMA TypeOfNext ==
    ASSUME TypeOK, [Next]_vars
    PROVE  TypeOK'
<1>1. CASE \E w \in Workers : WorkerStep(w)
  BY <1>1, TypeOfTake, TypeOfLoad, TypeOfSegmentEnd, TypeOfLoop, TypeOfAct, TypeOfContinue,
     TypeOfTeardown DEF WorkerStep
<1>2. CASE \E r \in Runs : Request(r)
  BY <1>2, TypeOfRequest
<1>3. CASE ApiStep
  BY <1>3, TypeOfApi
<1>4. CASE \E r \in Runs : DeadlinePasses(r)
  BY <1>4, TypeOfSweep
<1>5. CASE SweepStep
  <2>1. PICK r \in Runs : TRUE
    BY <1>5 DEF SweepStep, Discover, Expired, TypeOK, DbType, OtherType
  <2> QED
    BY <1>5, <2>1, TypeOfSweep
<1>6. CASE Shutdown \/ (\E r \in Runs : ShutdownMark(r)) \/ Restart
  BY <1>6, TypeOfStop
<1>7. CASE UNCHANGED vars
  BY <1>7 DEF vars, dbVars, poolVars, workerVars, otherVars, TypeOK, DbType, PoolType,
              WorkerType, OtherType
<1> QED
  BY <1>1, <1>2, <1>3, <1>4, <1>5, <1>6, <1>7 DEF Next

\* Every variable of the engine keeps its type, for any plan and any number of
\* runs and threads; in particular a thread that is at a step always finds the
\* step's row, which is what makes the executor's row updates meaningful.
THEOREM TypeCorrect == Spec => []TypeOK
<1>1. Init => TypeOK
  BY TypeOfInit
<1>2. TypeOK /\ [Next]_vars => TypeOK'
  BY TypeOfNext
<1> QED
  BY <1>1, <1>2, PTL DEF Spec

----------------------------------------------------------------------------
\* A step that moves no task, lets nobody take or drop a run, and makes nobody
\* busy keeps the pool as it should be.
LEMMA PoolFrame ==
    ASSUME OneExecutionPerRun, UNCHANGED <<poolVars, job>>,
           \A w \in Workers : Busy(w)' => Busy(w)
    PROVE  OneExecutionPerRun'
BY DEF OneExecutionPerRun, poolVars

\* schedule() puts a run in the pool only when it is not there.
LEMMA PoolOfSchedule ==
    ASSUME TypeOK, OneExecutionPerRun, NEW r \in Runs, Schedule(r),
           \A w \in Workers : Busy(w)' => Busy(w) /\ job'[w] = job[w]
    PROVE  OneExecutionPerRun'
<1>1. CASE r \in held
  BY <1>1 DEF Schedule, OneExecutionPerRun, poolVars
<1>2. CASE r \notin held
  <2>1. held' = held \cup {r}
    BY <1>2 DEF Schedule
  <2>2. \A w \in Workers : Busy(w) => job[w] # r
    BY <1>2 DEF OneExecutionPerRun
  <2>3. CASE queue' = queue
    BY <2>1, <2>3 DEF OneExecutionPerRun
  <2>4. CASE queue' = Append(queue, r)
    <3>1. /\ DOMAIN queue = 1..Len(queue) /\ Len(queue) \in Nat
          /\ DOMAIN queue' = 1..(Len(queue) + 1)
          /\ queue'[Len(queue) + 1] = r
          /\ \A i \in DOMAIN queue : queue'[i] = queue[i] /\ queue[i] # r
      BY <1>2, <2>4 DEF TypeOK, PoolType, OneExecutionPerRun
    <3>2. \A i \in DOMAIN queue' : i \in DOMAIN queue \/ i = Len(queue) + 1
      BY <3>1
    <3>3. \A i \in DOMAIN queue' : queue'[i] \in held'
      BY <2>1, <3>1, <3>2 DEF OneExecutionPerRun
    <3>4. \A i \in DOMAIN queue', w \in Workers : Busy(w)' => job'[w] # queue'[i]
      BY <2>2, <3>1, <3>2 DEF OneExecutionPerRun
    <3>5. \A i, m \in DOMAIN queue' : queue'[m] = queue'[i] => m = i
      BY <3>1, <3>2 DEF OneExecutionPerRun
    <3> QED
      BY <2>1, <3>3, <3>4, <3>5 DEF OneExecutionPerRun
  <2> QED
    BY <1>2, <2>3, <2>4 DEF Schedule
<1> QED
  BY <1>1, <1>2

\* Taking a task moves it from the queue to one idle thread.
LEMMA PoolOfTake ==
    ASSUME TypeOK, OneExecutionPerRun, NEW w \in Workers, Take(w)
    PROVE  OneExecutionPerRun'
<1>1. /\ DOMAIN queue = 1..Len(queue) /\ Len(queue) \in Nat \ {0}
      /\ DOMAIN queue' = 1..(Len(queue) - 1)
      /\ \A i \in DOMAIN queue' : queue'[i] = queue[i + 1] /\ i + 1 \in DOMAIN queue
      /\ Head(queue) = queue[1] /\ 1 \in DOMAIN queue
  BY HeadTailProperties, EmptySeq DEF Take, TypeOK, PoolType
<1>2. /\ held' = held
      /\ ~ Busy(w) /\ job'[w] = queue[1]
      /\ \A v \in Workers \ {w} : (Busy(v)' <=> Busy(v)) /\ job'[v] = job[v]
  BY <1>1 DEF Take, Busy, TypeOK, WorkerType
<1>3. \A v \in Workers : Busy(v)' => job'[v] \in held'
  BY <1>1, <1>2 DEF OneExecutionPerRun
<1>4. \A v1, v2 \in Workers : Busy(v1)' /\ Busy(v2)' /\ job'[v1] = job'[v2] => v1 = v2
  BY <1>1, <1>2 DEF OneExecutionPerRun
<1>5. \A i \in DOMAIN queue' : i + 1 # 1
  BY <1>1
<1>6. \A i \in DOMAIN queue' :
        /\ queue'[i] \in held'
        /\ \A v \in Workers : Busy(v)' => job'[v] # queue'[i]
        /\ \A m \in DOMAIN queue' : queue'[m] = queue'[i] => m = i
  <2> TAKE i \in DOMAIN queue'
  <2>1. queue'[i] \in held'
    BY <1>1, <1>2 DEF OneExecutionPerRun
  <2>2. \A v \in Workers : Busy(v)' => job'[v] # queue'[i]
    BY <1>1, <1>2, <1>5 DEF OneExecutionPerRun
  <2>3. \A m \in DOMAIN queue' : queue'[m] = queue'[i] => m = i
    <3> TAKE m \in DOMAIN queue'
    <3>1. queue[m + 1] = queue[i + 1] => m + 1 = i + 1
      BY <1>1 DEF OneExecutionPerRun
    <3> QED
      BY <1>1, <3>1
  <2> QED
    BY <2>1, <2>2, <2>3
<1> QED
  BY <1>3, <1>4, <1>6 DEF OneExecutionPerRun

\* Letting go of a run takes it out of the pool altogether.
LEMMA PoolOfDiscard ==
    ASSUME TypeOK, OneExecutionPerRun, NEW w \in Workers, Discard(w)
    PROVE  OneExecutionPerRun'
<1>1. /\ held' = held \ {job[w]} /\ UNCHANGED <<queue, job>>
      /\ Busy(w) /\ ~ Busy(w)'
      /\ \A v \in Workers \ {w} : Busy(v)' <=> Busy(v)
  BY DEF Discard, Busy, TypeOK, WorkerType
<1> QED
  BY <1>1 DEF OneExecutionPerRun

\* Inside a segment a thread stays busy with its run.
LEMMA PoolOfSegment ==
    ASSUME TypeOK, OneExecutionPerRun, NEW w \in Workers,
           WorkerStep(w), ~ Take(w), ~ Discard(w), ~ Reschedule(w)
    PROVE  OneExecutionPerRun'
<1>1. CASE Recheck(w)
  <2>1. \A v \in Workers : Busy(v)' => Busy(v) /\ job'[v] = job[v]
    BY <1>1 DEF Recheck, Busy, TypeOK, WorkerType
  <2> QED
    BY <1>1, <2>1 DEF Recheck, OneExecutionPerRun, poolVars
<1>2. CASE ~ Recheck(w)
  <2>1. pc[w] \in {"load", "start", "loop", "act", "handle"} /\ UNCHANGED <<poolVars, job>>
    BY <1>2 DEF WorkerStep, Load, Start, FailBeforeStep, SkipStep, BeginStep, CompleteStep,
                Suspend, RefuseStep, FailStep, FailRun, EscalateFailure, ContinueOnFailure,
                CompleteRun, Handling, Acting
  <2>2. \A v \in Workers \ {w} : pc'[v] = pc[v]
    BY <1>2 DEF WorkerStep, Load, Start, FailBeforeStep, SkipStep, BeginStep, CompleteStep,
                Suspend, RefuseStep, FailStep, FailRun, EscalateFailure, ContinueOnFailure,
                CompleteRun, EndSegment, TypeOK, WorkerType
  <2>3. \A v \in Workers : Busy(v)' => Busy(v)
    BY <2>1, <2>2 DEF Busy
  <2> QED
    BY <2>1, <2>3, PoolFrame
<1> QED
  BY <1>1, <1>2

\* The pool's bookkeeping survives every step: handlers, the sweeper and
\* shutdown() only ever schedule, a restart starts from nothing.
LEMMA PoolOfNext ==
    ASSUME TypeOK, OneExecutionPerRun, [Next]_vars
    PROVE  OneExecutionPerRun'
<1>1. ASSUME NEW w \in Workers, WorkerStep(w)
      PROVE  OneExecutionPerRun'
  <2>1. CASE Reschedule(w)
    <3>1. job[w] \in Runs /\ Schedule(job[w])
      BY <2>1 DEF Reschedule, TypeOK, WorkerType
    <3>2. \A v \in Workers : Busy(v)' => Busy(v) /\ job'[v] = job[v]
      BY <2>1 DEF Reschedule, Busy, TypeOK, WorkerType
    <3> QED
      BY <3>1, <3>2, PoolOfSchedule
  <2> QED
    BY <1>1, <2>1, PoolOfTake, PoolOfDiscard, PoolOfSegment
<1>2. CASE ApiSchedule
  <2>1. api.run \in Runs /\ Schedule(api.run) /\ UNCHANGED workerVars
    BY <1>2 DEF ApiSchedule, TypeOK, OtherType
  <2>2. \A v \in Workers : Busy(v)' => Busy(v) /\ job'[v] = job[v]
    BY <2>1 DEF workerVars, Busy
  <2> QED
    BY <2>1, <2>2, PoolOfSchedule
<1>3. CASE UNCHANGED <<poolVars, pc, job>>
  <2>1. \A v \in Workers : Busy(v)' => Busy(v)
    BY <1>3 DEF Busy
  <2> QED
    BY <1>3, <2>1, PoolFrame
<1>4. CASE Restart
  BY <1>4 DEF Restart, OneExecutionPerRun, Busy
<1>5. ASSUME NEW r \in Runs, Request(r) \/ DeadlinePasses(r) \/ ShutdownMark(r)
      PROVE  UNCHANGED <<poolVars, pc, job>>
  BY <1>5 DEF Request, CreateRun, ReadForResume, ReadForCallback, ReadForRetry, Admit,
              DeadlinePasses, ShutdownMark, workerVars
<1>6. ASSUME Approve \/ Reject \/ LoseClaim \/ RequeueFailed \/ SweepStep \/ Shutdown
             \/ UNCHANGED vars
      PROVE  UNCHANGED <<poolVars, pc, job>>
  BY <1>6 DEF Approve, Reject, LoseClaim, RequeueFailed, SweepStep, Discover, TimeOut, Shutdown,
              workerVars, vars
<1> QED
  BY <1>1, <1>2, <1>3, <1>4, <1>5, <1>6 DEF Next, ApiStep

\* At most one thread executes a run, and a run is never both queued and
\* executing nor queued twice, however resumes, callbacks, retries, re-queueing
\* by the pool, shutdown and restarts interleave: RunScheduler's set of running
\* runs does what it is there for.
THEOREM OneExecution == Spec => []OneExecutionPerRun
<1>1. Init => OneExecutionPerRun
  BY DEF Init, OneExecutionPerRun, Busy
<1>2. TypeOK /\ OneExecutionPerRun /\ [Next]_vars => OneExecutionPerRun'
  BY PoolOfNext
<1> QED
  BY <1>1, <1>2, TypeCorrect, PTL DEF Spec

----------------------------------------------------------------------------
Living == stops = 0 /\ phase = "up"

Owned(r) ==
    \/ r \in held
    \/ api.pc = "schedule" /\ api.run = r
    \/ \E w \in Workers : pc[w] \in {"recheck", "reschedule"} /\ job[w] = r

\* The two halves of QueuedIsOwned, named.
LEMMA OwnedParts ==
    QueuedIsOwned <=>
        (Living => /\ \A r \in held : InPool(r)
                   /\ \A r \in Runs : status[r] = "queued" => Owned(r))
BY DEF QueuedIsOwned, Living, Owned

\* A step inside a segment keeps the run in the pool and queues nothing.
LEMMA OwnedInSegment ==
    ASSUME TypeOK, QueuedIsOwned, NEW w \in Workers, WorkerStep(w),
           ~ Take(w), ~ Discard(w), ~ Recheck(w), ~ Reschedule(w)
    PROVE  QueuedIsOwned'
<1>1. pc[w] \in {"load", "start", "loop", "act", "handle"}
  BY DEF WorkerStep, Load, Start, FailBeforeStep, SkipStep, BeginStep, CompleteStep,
         Suspend, RefuseStep, FailStep, FailRun, EscalateFailure, ContinueOnFailure,
         CompleteRun, Handling, Acting
<1>2. UNCHANGED <<poolVars, job, otherVars>>
  BY DEF WorkerStep, Load, Start, FailBeforeStep, SkipStep, BeginStep, CompleteStep,
         Suspend, RefuseStep, FailStep, FailRun, EscalateFailure, ContinueOnFailure,
         CompleteRun
<1>3. \E p \in {"start", "loop", "act", "handle", "teardown"} : pc' = [pc EXCEPT ![w] = p]
  <2>1. CASE SkipStep(w)
    <3>1. pc[w] = "loop" /\ pc' = pc
      BY <2>1 DEF SkipStep
    <3> QED
      BY <3>1 DEF TypeOK, WorkerType
  <2>2. CASE ~ SkipStep(w)
    BY <2>2 DEF WorkerStep, Load, Start, FailBeforeStep, BeginStep, CompleteStep,
           Suspend, RefuseStep, FailStep, FailRun, EscalateFailure, ContinueOnFailure,
           CompleteRun, EndSegment
  <2> QED
    BY <2>1, <2>2
<1>4. \A r \in Runs : status'[r] = "queued" => status[r] = "queued"
  <2>1. \/ UNCHANGED status
        \/ \E st \in {"running", "suspended", "completed", "failed"} :
              status' = [status EXCEPT ![job[w]] = st]
    BY DEF WorkerStep, Load, Start, FailBeforeStep, SkipStep, BeginStep, CompleteStep,
         Suspend, RefuseStep, FailStep, FailRun, EscalateFailure, ContinueOnFailure,
         CompleteRun, MarkFailed, MarkSuspended, dbVars
  <2> QED
    BY <2>1 DEF TypeOK, DbType
<1>5. \A v \in Workers : /\ Busy(v) <=> Busy(v)'
                         /\ pc[v] \in {"recheck", "reschedule"} <=> pc'[v] \in {"recheck", "reschedule"}
  BY <1>1, <1>3 DEF Busy, TypeOK, WorkerType
<1>6. \A r \in Runs : (InPool(r) <=> InPool(r)') /\ (Owned(r) <=> Owned(r)')
  BY <1>2, <1>5 DEF InPool, Owned, poolVars, otherVars
<1> QED
  BY <1>2, <1>4, <1>6, OwnedParts DEF Living, poolVars, otherVars, TypeOK, PoolType, QueuedIsOwned,
                                      Owned

\* schedule() leaves its run owned and in the pool while the process lives.
LEMMA OwnedBySchedule ==
    ASSUME TypeOK, QueuedIsOwned, NEW r \in Runs, Schedule(r), phase = "up", phase' = "up",
           stops' = stops, status' = status,
           \A q \in Runs \ {r} : Owned(q) /\ q \notin held => Owned(q)',
           \A w \in Workers : Busy(w) => Busy(w)' /\ job'[w] = job[w]
    PROVE  QueuedIsOwned'
<1>1. /\ held' = held \cup {r}
      /\ DOMAIN queue \subseteq DOMAIN queue'
      /\ \A i \in DOMAIN queue : queue'[i] = queue[i]
      /\ r \notin held => \E i \in DOMAIN queue' : queue'[i] = r
  <2>1. CASE r \in held
    BY <2>1 DEF Schedule, poolVars
  <2>2. CASE r \notin held
    <3>1. queue' = Append(queue, r) /\ queue \in Seq(Runs) /\ held' = held \cup {r}
      BY <2>2 DEF Schedule, TypeOK, PoolType
    <3>2. /\ DOMAIN queue = 1..Len(queue) /\ Len(queue) \in Nat
          /\ DOMAIN queue' = 1..(Len(queue) + 1)
          /\ queue'[Len(queue) + 1] = r
          /\ \A i \in DOMAIN queue : queue'[i] = queue[i]
      BY <3>1
    <3> QED
      BY <3>1, <3>2
  <2> QED
    BY <2>1, <2>2
<1>2. \A q \in Runs : InPool(q) => InPool(q)'
  BY <1>1 DEF InPool
<1>3. r \notin held => InPool(r)'
  BY <1>1 DEF InPool
<1>4. \A q \in Runs : Owned(q) => Owned(q)'
  BY <1>1 DEF Owned
<1>5. held \subseteq Runs
  BY DEF TypeOK, PoolType
<1> QED
  BY <1>1, <1>2, <1>3, <1>4, <1>5, OwnedParts DEF Living, QueuedIsOwned, Owned

\* Taking, dropping, rechecking and resubmitting a run.
LEMMA OwnedByPool ==
    ASSUME TypeOK, QueuedIsOwned, NEW w \in Workers,
           Take(w) \/ Discard(w) \/ Recheck(w) \/ Reschedule(w)
    PROVE  QueuedIsOwned'
<1>0. held \subseteq Runs
  BY DEF TypeOK, PoolType
<1>1. CASE Take(w)
  <2>1. /\ DOMAIN queue = 1..Len(queue) /\ Len(queue) \in Nat \ {0}
        /\ DOMAIN queue' = 1..(Len(queue) - 1)
        /\ \A i \in DOMAIN queue' : queue'[i] = queue[i + 1]
        /\ job'[w] = queue[1]
    BY <1>1, HeadTailProperties, EmptySeq DEF Take, TypeOK, PoolType, WorkerType
  <2>2. /\ Busy(w)' /\ pc[w] = "idle"
        /\ \A v \in Workers \ {w} : pc'[v] = pc[v] /\ job'[v] = job[v]
        /\ UNCHANGED <<held, status, api, stops, phase>>
    BY <1>1 DEF Take, Busy, TypeOK, WorkerType, dbVars, otherVars
  <2>3. \A r \in Runs : InPool(r) => InPool(r)'
    <3> SUFFICES ASSUME NEW r \in Runs, InPool(r) PROVE InPool(r)'
      OBVIOUS
    <3>1. CASE \E i \in DOMAIN queue : queue[i] = r
      <4>1. PICK i \in DOMAIN queue : queue[i] = r
        BY <3>1
      <4>2. CASE i = 1
        BY <2>1, <2>2, <4>1, <4>2 DEF InPool
      <4>3. CASE i # 1
        <5>1. i - 1 \in DOMAIN queue' /\ (i - 1) + 1 = i
          BY <2>1, <4>1, <4>3
        <5>2. queue'[i - 1] = r
          BY <2>1, <4>1, <5>1
        <5> QED
          BY <5>1, <5>2 DEF InPool
      <4> QED
        BY <4>2, <4>3
    <3>2. CASE \E v \in Workers : Busy(v) /\ job[v] = r
      BY <2>2, <3>2 DEF InPool, Busy
    <3> QED
      BY <3>1, <3>2 DEF InPool
  <2>4. \A r \in Runs : Owned(r) => Owned(r)'
    BY <2>2 DEF Owned
  <2> QED
    BY <1>0, <2>2, <2>3, <2>4, OwnedParts DEF Living, QueuedIsOwned, Owned
<1>2. CASE Discard(w)
  <2>1. /\ held' = held \ {job[w]} /\ pc'[w] = "recheck" /\ pc[w] = "teardown"
        /\ \A v \in Workers \ {w} : pc'[v] = pc[v]
        /\ UNCHANGED <<queue, job, status, api, stops, phase>>
    BY <1>2 DEF Discard, TypeOK, WorkerType, dbVars, otherVars
  <2>2. \A r \in Runs \ {job[w]} : InPool(r) => InPool(r)'
    BY <2>1 DEF InPool, Busy
  <2>3. \A r \in Runs : Owned(r) => Owned(r)'
    BY <2>1 DEF Owned
  <2> QED
    BY <1>0, <2>1, <2>2, <2>3, OwnedParts DEF Living, QueuedIsOwned, Owned
<1>3. CASE Recheck(w)
  <2>1. /\ pc[w] = "recheck"
        /\ \A v \in Workers \ {w} : pc'[v] = pc[v] /\ job'[v] = job[v]
        /\ ~ Busy(w)'
        /\ status[job[w]] = "queued" => pc'[w] = "reschedule" /\ job'[w] = job[w]
        /\ UNCHANGED <<held, queue, status, api, stops, phase>>
    BY <1>3 DEF Recheck, Busy, TypeOK, WorkerType, dbVars, poolVars, otherVars
  <2>2. \A r \in Runs : InPool(r) => InPool(r)'
    BY <2>1 DEF InPool, Busy
  <2>3. \A r \in Runs : status[r] = "queued" /\ Owned(r) => Owned(r)'
    BY <2>1 DEF Owned
  <2> QED
    BY <1>0, <2>1, <2>2, <2>3, OwnedParts DEF Living, QueuedIsOwned, Owned
<1>4. CASE Reschedule(w)
  <2>1. /\ job[w] \in Runs /\ Schedule(job[w]) /\ pc[w] = "reschedule"
        /\ \A v \in Workers \ {w} : pc'[v] = pc[v] /\ job'[v] = job[v]
        /\ UNCHANGED <<status, api, stops, phase>>
    BY <1>4 DEF Reschedule, TypeOK, WorkerType, dbVars, otherVars
  <2>2. \A v \in Workers : Busy(v) => Busy(v)' /\ job'[v] = job[v]
    BY <2>1 DEF Busy
  <2>3. \A q \in Runs \ {job[w]} : Owned(q) /\ q \notin held => Owned(q)'
    BY <2>1 DEF Owned
  <2>4. CASE phase = "up"
    BY <2>1, <2>2, <2>3, <2>4, OwnedBySchedule
  <2>5. CASE phase # "up"
    BY <2>1, <2>5 DEF QueuedIsOwned
  <2> QED
    BY <2>4, <2>5
<1> QED
  BY <1>1, <1>2, <1>3, <1>4

\* A handler queues a run and is then about to schedule it.
LEMMA OwnedByApi ==
    ASSUME TypeOK, QueuedIsOwned,
           ApiStep \/ \E r \in Runs : Request(r)
    PROVE  QueuedIsOwned'
<1>0. held \subseteq Runs
  BY DEF TypeOK, PoolType
<1>1. CASE ApiSchedule
  <2>1. /\ api.run \in Runs /\ Schedule(api.run) /\ api.pc = "schedule"
        /\ UNCHANGED <<status, pc, job, stops, phase>>
    BY <1>1 DEF ApiSchedule, TypeOK, OtherType, dbVars, workerVars
  <2>2. \A v \in Workers : Busy(v) => Busy(v)' /\ job'[v] = job[v]
    BY <2>1 DEF Busy
  <2>3. \A q \in Runs \ {api.run} : Owned(q) /\ q \notin held => Owned(q)'
    BY <2>1 DEF Owned
  <2>4. CASE phase = "up"
    BY <2>1, <2>2, <2>3, <2>4, OwnedBySchedule
  <2>5. CASE phase # "up"
    BY <2>1, <2>5 DEF QueuedIsOwned
  <2> QED
    BY <2>4, <2>5
<1>2. ASSUME UNCHANGED <<poolVars, workerVars, stops, phase>>, api.pc # "schedule",
             NEW q \in Runs,
             \A r \in Runs \ {q} : status'[r] = status[r],
             status'[q] = "queued" => status[q] = "queued" \/ (api'.pc = "schedule" /\ api'.run = q)
      PROVE  QueuedIsOwned'
  <2>1. \A r \in Runs : (InPool(r) => InPool(r)') /\ (Owned(r) => Owned(r)')
    BY <1>2 DEF InPool, Owned, Busy, poolVars, workerVars
  <2>2. status'[q] = "queued" => Owned(q)' \/ status[q] = "queued"
    BY <1>2 DEF Owned
  <2> QED
    BY <1>0, <1>2, <2>1, <2>2, OwnedParts DEF Living, QueuedIsOwned, Owned, poolVars
<1>3. ASSUME NEW r \in Runs, Request(r)
      PROVE  QueuedIsOwned'
  <2>1. /\ UNCHANGED <<poolVars, workerVars, stops, phase>> /\ api.pc # "schedule"
        /\ \/ UNCHANGED status
           \/ CreateRun(r) /\ status' = [status EXCEPT ![r] = "queued"]
    BY <1>3 DEF Request, CreateRun, ReadForResume, ReadForCallback, ReadForRetry, Admit,
                HandlerFree, dbVars
  <2>2. CreateRun(r) => api'.pc = "schedule" /\ api'.run = r
    BY DEF CreateRun, IdleApi
  <2>3. \A q \in Runs \ {r} : status'[q] = status[q]
    BY <2>1 DEF TypeOK, DbType
  <2>4. status'[r] = "queued" => status[r] = "queued" \/ (api'.pc = "schedule" /\ api'.run = r)
    BY <2>1, <2>2
  <2> QED
    BY <1>2, <2>1, <2>3, <2>4
<1>4. CASE Approve \/ Reject \/ LoseClaim \/ RequeueFailed
  <2>1. /\ UNCHANGED <<poolVars, workerVars, stops, phase>> /\ api.pc = "claim"
        /\ api.run \in Runs
        /\ \/ UNCHANGED status
           \/ Reject /\ status' = [status EXCEPT ![api.run] = "failed"]
           \/ (Approve \/ RequeueFailed) /\ api' = [api EXCEPT !.pc = "schedule"]
              /\ status' = [status EXCEPT ![api.run] = "queued"]
    BY <1>4 DEF Approve, Reject, LoseClaim, RequeueFailed, Claiming, dbVars, TypeOK, OtherType
  <2>2. \A q \in Runs \ {api.run} : status'[q] = status[q]
    BY <2>1 DEF TypeOK, DbType
  <2>3. status'[api.run] = "queued" =>
          status[api.run] = "queued" \/ (api'.pc = "schedule" /\ api'.run = api.run)
    BY <2>1 DEF TypeOK, DbType, OtherType
  <2>4. api.pc # "schedule"
    BY <2>1
  <2> QED
    BY <1>2, <2>1, <2>2, <2>3, <2>4
<1> QED
  BY <1>1, <1>3, <1>4 DEF ApiStep

\* The sweeper and the end of the process queue nothing.
LEMMA OwnedElsewhere ==
    ASSUME TypeOK, QueuedIsOwned,
           \/ \E r \in Runs : DeadlinePasses(r) \/ ShutdownMark(r)
           \/ SweepStep \/ Shutdown \/ Restart \/ UNCHANGED vars
    PROVE  QueuedIsOwned'
<1>0. held \subseteq Runs
  BY DEF TypeOK, PoolType
<1>1. CASE (\E r \in Runs : ShutdownMark(r)) \/ Shutdown
  BY <1>1 DEF Shutdown, ShutdownMark, QueuedIsOwned
<1>2. CASE Restart
  <2>1. stops' = stops + 1 /\ stops \in Nat
    BY <1>2 DEF Restart, TypeOK, OtherType
  <2>2. stops' # 0
    BY <2>1
  <2> QED
    BY <2>2 DEF QueuedIsOwned
<1>3. CASE (\E r \in Runs : DeadlinePasses(r)) \/ SweepStep \/ UNCHANGED vars
  <2>1. UNCHANGED <<poolVars, workerVars, api, stops, phase>>
    BY <1>3 DEF DeadlinePasses, SweepStep, Discover, TimeOut, otherVars, vars
  <2>2. \A r \in Runs : status'[r] = "queued" => status[r] = "queued"
    <3>1. UNCHANGED status \/ \E e \in sweep : status' = [status EXCEPT ![e.run] = "failed"]
      BY <1>3 DEF DeadlinePasses, SweepStep, Discover, TimeOut, dbVars, vars
    <3> QED
      BY <3>1 DEF TypeOK, DbType
  <2>3. \A r \in Runs : (InPool(r) => InPool(r)') /\ (Owned(r) => Owned(r)')
    BY <2>1 DEF InPool, Owned, Busy, poolVars, workerVars
  <2> QED
    BY <1>0, <2>1, <2>2, <2>3, OwnedParts DEF Living, QueuedIsOwned, Owned, poolVars
<1> QED
  BY <1>1, <1>2, <1>3

\* No wake-up is lost: as long as the process was neither stopped nor restarted,
\* a queued run is held by the scheduler or about to be scheduled, and what is
\* held is in the pool.  The read in _reschedule_if_requeued, made after the
\* run was let go of, is what makes this true for a run that was resumed while
\* its previous segment's thread still held it.
THEOREM NoLostWakeUp == Spec => []QueuedIsOwned
<1>1. Init => QueuedIsOwned
  BY DEF Init, QueuedIsOwned
<1>2. TypeOK /\ QueuedIsOwned /\ [Next]_vars => QueuedIsOwned'
  <2> SUFFICES ASSUME TypeOK, QueuedIsOwned, [Next]_vars PROVE QueuedIsOwned'
    OBVIOUS
  <2> QED
    BY OwnedInSegment, OwnedByPool, OwnedByApi, OwnedElsewhere DEF Next, WorkerStep
<1> QED
  BY <1>1, <1>2, TypeCorrect, PTL DEF Spec

----------------------------------------------------------------------------
(* The order in which a run's steps are begun and settled, whether or not  *)
(* clients and shutdowns are as well-behaved as one would like.            *)
(*                                                                         *)
(* The argument: a table changes in four ways only.  It stays as it is; a  *)
(* thread appends a row for the first step it has left; a thread sets the  *)
(* row it is at, which is "running"; a handler or the sweeper sets rows    *)
(* that are suspended or timed out.  None of them unsettles a settled row, *)
(* so what a thread knows of its run's table stays true until it lets go.  *)

\* The row holds a result of the kinds res.
Kept(row, res) == row.status = "completed" /\ row.result \in res

\* A row that an answer, a rejection or a timeout may still write to.
Open(row) == row.status = "suspended" \/ (row.status = "failed" /\ row.result = "timeout")

\* PassedInOrder, NotRepeated and the numbering of attempts, of one table.
InOrder(rws) ==
    \A k \in DOMAIN rws : \A i \in 1..(rws[k].step - 1) :
        \E m \in 1..(k - 1) : rws[m].step = i /\ SettledRow(rws[m])

Once(rws, res) ==
    \A k \in DOMAIN rws :
        Kept(rws[k], res) => \A m \in (k + 1)..Len(rws) : rws[m].step # rws[k].step

Numbered(rws) ==
    \A k \in DOMAIN rws :
        rws[k].attempt = Cardinality({i \in 1..k : rws[i].step = rws[k].step})

TableInv(rws, res) == InOrder(rws) /\ Once(rws, res) /\ Numbered(rws)

----------------------------------------------------------------------------
\* An attempt is numbered no higher than a later one of the same step, so the
\* last row of a step is the one IsLatest finds.
LEMMA LastIsLatest ==
    ASSUME NEW rws \in Seq(StepRow(Steps)), Numbered(rws), NEW k \in DOMAIN rws,
           \A m \in (k + 1)..Len(rws) : rws[m].step # rws[k].step
    PROVE  IsLatest(rws, k)
<1> DEFINE UpTo(m) == {i \in 1..m : rws[i].step = rws[k].step}
<1>1. DOMAIN rws = 1..Len(rws) /\ Len(rws) \in Nat
  BY RowPositions
<1>2. SUFFICES ASSUME NEW m \in DOMAIN rws, rws[m].step = rws[k].step
               PROVE  rws[m].attempt <= rws[k].attempt
  BY DEF IsLatest
<1>3. m \in Nat /\ k \in Nat /\ m <= k
  BY <1>1, <1>2
<1>4. rws[m].attempt = Cardinality(UpTo(m)) /\ rws[k].attempt = Cardinality(UpTo(k))
  BY <1>2 DEF Numbered
<1>5. IsFiniteSet(1..k)
  BY <1>3, FS_Interval
<1>6. UpTo(k) \in SUBSET (1..k) /\ UpTo(m) \in SUBSET UpTo(k)
  BY <1>3
<1>7. IsFiniteSet(UpTo(k))
  BY <1>5, <1>6, FS_Subset
<1>8. Cardinality(UpTo(m)) <= Cardinality(UpTo(k))
  BY <1>6, <1>7, FS_Subset
<1> QED
  BY <1>4, <1>8

\* What a segment restores was settled, and includes every step with a result
\* of a kind that counts.
LEMMA RestoredIsSettled ==
    ASSUME NEW rws \in Seq(StepRow(Steps)), NEW res \in SUBSET {"data", "answer"},
           TableInv(rws, res)
    PROVE  /\ RestoredSteps(rws) \subseteq Settled(rws)
           /\ \A k \in DOMAIN rws : Kept(rws[k], res) => rws[k].step \in RestoredSteps(rws)
<1>1. RestoredSteps(rws) \subseteq Settled(rws)
  BY DEF RestoredSteps, Settled, SettledRow
<1>2. ASSUME NEW k \in DOMAIN rws, Kept(rws[k], res)
      PROVE  rws[k].step \in RestoredSteps(rws)
  <2>1. IsLatest(rws, k)
    BY <1>2, LastIsLatest DEF TableInv, Once
  <2> QED
    BY <1>2, <2>1 DEF RestoredSteps, Kept
<1> QED
  BY <1>1, <1>2

\* new is rws with a fresh row of step j behind it.
Appended(new, rws, j, st) ==
    /\ new \in Seq(StepRow(Steps)) /\ Len(new) = Len(rws) + 1
    /\ \A k \in 1..Len(rws) : new[k] = rws[k]
    /\ LET last == new[Len(rws) + 1] IN
          /\ last.step = j /\ last.status = st /\ last.result = "none"
          /\ last.attempt = Cardinality(AttemptsOf(rws, j)) + 1

LEMMA AppendedRow ==
    ASSUME NEW rws \in Seq(StepRow(Steps)), NEW j \in Steps, NEW n \in Nat, NEW st \in StepStatus
    PROVE  Appended(AppendRow(rws, j, n, st), rws, j, st)
BY AppendRowShape DEF Appended

\* Appending a row for a step that has no result yet and whose predecessors were
\* all settled keeps the table in order.
LEMMA AppendKeepsTable ==
    ASSUME NEW rws \in Seq(StepRow(Steps)), NEW res \in SUBSET {"data", "answer"},
           TableInv(rws, res), NEW j \in Steps, NEW n \in Nat,
           NEW st \in {"running", "skipped"},
           \A i \in 1..(j - 1) : i \in Settled(rws),
           \A k \in DOMAIN rws : Kept(rws[k], res) => rws[k].step # j
    PROVE  LET new == AppendRow(rws, j, n, st) IN
           /\ TableInv(new, res)
           /\ Settled(rws) \subseteq Settled(new)
           /\ st = "skipped" => j \in Settled(new)
           /\ \A k \in DOMAIN new : Kept(new[k], res) => k \in DOMAIN rws /\ Kept(rws[k], res)
<1> DEFINE new == AppendRow(rws, j, n, st)
           L == Len(rws)
<1>1. DOMAIN rws = 1..L /\ L \in Nat /\ IsFiniteSet(DOMAIN rws)
  BY RowPositions
<1>2. /\ new \in Seq(StepRow(Steps))
      /\ Len(new) = L + 1
      /\ \A k \in 1..L : new[k] = rws[k]
      /\ new[L + 1].step = j /\ new[L + 1].status = st /\ new[L + 1].result = "none"
      /\ new[L + 1].attempt = Cardinality(AttemptsOf(rws, j)) + 1
  <2>1. st \in StepStatus
    BY DEF StepStatus
  <2>2. Appended(new, rws, j, st)
    BY <2>1, AppendedRow
  <2> HIDE DEF new
  <2> QED
    BY <2>2 DEF Appended
<1> HIDE DEF new
<1>3. DOMAIN new = 1..(L + 1)
  BY <1>2, RowPositions
<1> HIDE DEF L
<1>4. \A k \in 1..(L + 1) : k \in 1..L \/ k = L + 1
  BY <1>1
<1>5. InOrder(new)
  <2> SUFFICES ASSUME NEW k \in 1..(L + 1), NEW i \in 1..(new[k].step - 1)
               PROVE  \E m \in 1..(k - 1) : new[m].step = i /\ SettledRow(new[m])
    BY <1>3 DEF InOrder
  <2>1. CASE k \in 1..L
    <3>1. PICK m \in 1..(k - 1) : rws[m].step = i /\ SettledRow(rws[m])
      BY <1>1, <1>2, <2>1 DEF TableInv, InOrder
    <3>2. m \in 1..L
      BY <1>1, <2>1
    <3> QED
      BY <1>2, <3>1, <3>2
  <2>2. CASE k = L + 1
    <3>1. i \in Settled(rws)
      BY <1>2, <2>2
    <3>2. PICK m \in 1..L : rws[m].step = i /\ SettledRow(rws[m])
      BY <1>1, <3>1 DEF Settled
    <3> QED
      BY <1>1, <1>2, <2>2, <3>2
  <2> QED
    BY <1>4, <2>1, <2>2
<1>6. \A k \in DOMAIN new : Kept(new[k], res) => k \in DOMAIN rws /\ Kept(rws[k], res)
  BY <1>1, <1>2, <1>3, <1>4 DEF Kept
<1>7. Once(new, res)
  <2> SUFFICES ASSUME NEW k \in 1..L, Kept(rws[k], res), NEW m \in (k + 1)..(L + 1)
               PROVE  new[m].step # new[k].step
    BY <1>1, <1>2, <1>3, <1>6 DEF Once
  <2>1. CASE m = L + 1
    BY <1>1, <1>2, <2>1
  <2>2. CASE m # L + 1
    <3>1. m \in (k + 1)..L /\ m \in 1..L
      BY <1>1, <2>2
    <3>2. rws[m].step # rws[k].step
      BY <1>1, <3>1 DEF TableInv, Once, L
    <3> QED
      BY <1>2, <3>1, <3>2
  <2> QED
    BY <2>1, <2>2
<1>8. Numbered(new)
  <2> SUFFICES ASSUME NEW k \in 1..(L + 1)
               PROVE  new[k].attempt = Cardinality({i \in 1..k : new[i].step = new[k].step})
    BY <1>3 DEF Numbered
  <2>1. CASE k \in 1..L
    <3>1. {i \in 1..k : new[i].step = new[k].step} = {i \in 1..k : rws[i].step = rws[k].step}
      BY <1>1, <1>2, <2>1
    <3>2. rws[k].attempt = Cardinality({i \in 1..k : rws[i].step = rws[k].step})
      BY <1>1, <2>1 DEF TableInv, Numbered
    <3> QED
      BY <1>2, <2>1, <3>1, <3>2
  <2>2. CASE k = L + 1
    <3> DEFINE others == AttemptsOf(rws, j)
    <3>1. {i \in 1..k : new[i].step = new[k].step} = others \cup {L + 1}
      BY <1>1, <1>2, <2>2 DEF AttemptsOf
    <3>2. L + 1 \notin others
      BY <1>1 DEF AttemptsOf
    <3>3. IsFiniteSet(others)
      BY <1>1, FS_Subset DEF AttemptsOf
    <3>4. Cardinality(others \cup {L + 1}) = Cardinality(others) + 1
      BY <3>2, <3>3, FS_AddElement
    <3> QED
      BY <1>2, <2>2, <3>1, <3>4
  <2> QED
    BY <1>4, <2>1, <2>2
<1>9. Settled(rws) \subseteq Settled(new)
  BY <1>1, <1>2, <1>3 DEF Settled
<1>10. st = "skipped" => j \in Settled(new)
  <2>1. L + 1 \in DOMAIN new
    BY <1>1, <1>3
  <2> QED
    BY <1>2, <2>1 DEF Settled, SettledRow
<1>11. QED
  BY <1>5, <1>6, <1>7, <1>8, <1>9, <1>10 DEF TableInv, new

\* Setting rows that are not settled keeps the table in order, as long as only
\* the last row may get a result that counts.
LEMMA UpdateKeepsTable ==
    ASSUME NEW rws \in Seq(StepRow(Steps)), NEW res \in SUBSET {"data", "answer"},
           TableInv(rws, res), NEW ks, NEW st \in StepStatus, NEW val \in StepResult,
           \A k \in DOMAIN rws : k \in ks => ~ SettledRow(rws[k]),
           st = "completed" /\ val \in res => \A k \in DOMAIN rws : k \in ks => k = Len(rws)
    PROVE  LET new == SetRows(rws, ks, st, val) IN
           /\ TableInv(new, res)
           /\ Settled(rws) \subseteq Settled(new)
           /\ \A k \in DOMAIN new :
                 Kept(new[k], res) => /\ k \in DOMAIN rws
                                      /\ Kept(rws[k], res) \/ (k \in ks /\ st = "completed" /\ val \in res)
<1> DEFINE new == SetRows(rws, ks, st, val)
           L == Len(rws)
<1>1. DOMAIN rws = 1..L /\ L \in Nat
  BY RowPositions
<1>2. /\ new \in Seq(StepRow(Steps))
      /\ Len(new) = L
      /\ DOMAIN new = DOMAIN rws
      /\ \A k \in DOMAIN rws :
            /\ new[k].step = rws[k].step
            /\ new[k].attempt = rws[k].attempt
            /\ k \notin ks => new[k] = rws[k]
            /\ k \in ks => new[k].status = st /\ new[k].result = val
  BY SetRowsShape
<1> HIDE DEF new, L
<1>3. \A k \in DOMAIN rws : SettledRow(rws[k]) => new[k] = rws[k]
  BY <1>2
<1>4. InOrder(new)
  <2> SUFFICES ASSUME NEW k \in 1..L, NEW i \in 1..(rws[k].step - 1)
               PROVE  \E m \in 1..(k - 1) : new[m].step = i /\ SettledRow(new[m])
    BY <1>1, <1>2 DEF InOrder
  <2>1. PICK m \in 1..(k - 1) : rws[m].step = i /\ SettledRow(rws[m])
    BY <1>1 DEF TableInv, InOrder
  <2>2. m \in DOMAIN rws
    BY <1>1
  <2> QED
    BY <1>3, <2>1, <2>2
<1>5. \A k \in DOMAIN rws :
         Kept(new[k], res) => Kept(rws[k], res) \/ (k \in ks /\ st = "completed" /\ val \in res)
  BY <1>2 DEF Kept
<1>6. Once(new, res)
  <2> SUFFICES ASSUME NEW k \in 1..L, Kept(new[k], res), NEW m \in (k + 1)..L
               PROVE  rws[m].step # rws[k].step
    <3>1. \A k \in 1..L : \A m \in (k + 1)..L : m \in 1..L
      BY <1>1
    <3> QED
      BY <1>1, <1>2, <3>1 DEF Once
  <2>1. CASE Kept(rws[k], res)
    BY <1>1, <2>1 DEF TableInv, Once, L
  <2>2. CASE k \in ks /\ st = "completed" /\ val \in res
    <3>1. k = L
      BY <1>1, <2>2 DEF L
    <3> QED
      BY <1>1, <3>1
  <2> QED
    BY <1>1, <1>5, <2>1, <2>2
<1>7. Numbered(new)
  <2> SUFFICES ASSUME NEW k \in 1..L
               PROVE  new[k].attempt = Cardinality({i \in 1..k : new[i].step = new[k].step})
    BY <1>1, <1>2 DEF Numbered
  <2>1. {i \in 1..k : new[i].step = new[k].step} = {i \in 1..k : rws[i].step = rws[k].step}
    BY <1>1, <1>2
  <2> QED
    BY <1>1, <1>2, <2>1 DEF TableInv, Numbered
<1>8. Settled(rws) \subseteq Settled(new)
  BY <1>2, <1>3 DEF Settled
<1> QED
  BY <1>2, <1>4, <1>5, <1>6, <1>7, <1>8 DEF TableInv, new

----------------------------------------------------------------------------
\* What a thread at p with the steps todo left knows of its run's table: what is
\* not left was settled, no step that is left has a result yet, and the row it
\* is at is the one it wrote.
SegmentOf(p, rws, todo, res) ==
    /\ Steps \ todo \subseteq Settled(rws)
    /\ \A k \in DOMAIN rws : Kept(rws[k], res) => rws[k].step \notin todo
    /\ p = "act" => rws[Len(rws)].status = "running"
    /\ p = "handle" => /\ rws[Len(rws)].status = "failed"
                       /\ rws[Len(rws)].result \in {"error", "critique"}

Executing(w) == pc[w] \in {"start", "loop", "act", "handle"}

SegmentInv(w, res) == Executing(w) => SegmentOf(pc[w], rows[job[w]], left[w], res)

\* The rows a handler has read and not yet written are open.
TargetInv ==
    api.pc = "claim" => \A k \in api.target : k \in DOMAIN rows[api.run] /\ Open(rows[api.run][k])

\* The inductive invariant of the order of steps.
OrderInv(res) ==
    /\ \A r \in Runs : TableInv(rows[r], res)
    /\ \A w \in Workers : SegmentInv(w, res)
    /\ TargetInv

\* When answers count as results, a handler about to give one writes to its
\* run's last row and no thread walks the run's plan.
AnswersLast(res) ==
    "answer" \in res /\ api.pc = "claim" /\ status[api.run] = "suspended" =>
        /\ \A k \in api.target : k = Len(rows[api.run])
        /\ \A w \in Workers : Executing(w) => job[w] # api.run

\* What was settled stays settled.
SettledStay == \A r \in Runs : Settled(rows[r]) \subseteq Settled(rows'[r])

KeepsOrder(res) == OrderInv(res)' /\ SettledStay

\* Steps that write no row, and neither begin a segment nor pass a step.
LEMMA OrderStill ==
    ASSUME TypeOK, NEW res, OrderInv(res), rows' = rows,
           api' = api \/ api'.pc # "claim",
           \A w \in Workers :
              Executing(w)' => /\ Executing(w)
                               /\ pc'[w] \in {pc[w], "loop"}
                               /\ job'[w] = job[w]
                               /\ left'[w] = left[w]
    PROVE  KeepsOrder(res)
<1>1. \A r \in Runs : TableInv(rows'[r], res)
  BY DEF OrderInv
<1>2. TargetInv'
  BY DEF OrderInv, TargetInv
<1>3. ASSUME NEW w \in Workers, Executing(w)'
      PROVE  SegmentOf(pc'[w], rows'[job'[w]], left'[w], res)
  <2>1. SegmentOf(pc[w], rows[job[w]], left[w], res)
    BY <1>3 DEF OrderInv, SegmentInv
  <2>2. pc'[w] \in {pc[w], "loop"} /\ job'[w] = job[w] /\ left'[w] = left[w]
    BY <1>3
  <2> QED
    BY <2>1, <2>2 DEF SegmentOf
<1> QED
  BY <1>1, <1>2, <1>3 DEF OrderInv, SegmentInv, SettledStay, KeepsOrder

\* A thread writes to its own run's table, which no other thread walks, and
\* leaves the open rows alone.
LEMMA OrderOfThread ==
    ASSUME TypeOK, OneExecutionPerRun, NEW res, OrderInv(res),
           NEW w \in Workers, Busy(w),
           NEW new, rows' = [rows EXCEPT ![job[w]] = new],
           TableInv(new, res),
           Settled(rows[job[w]]) \subseteq Settled(new),
           \A k \in DOMAIN rows[job[w]] :
              Open(rows[job[w]][k]) => k \in DOMAIN new /\ new[k] = rows[job[w]][k],
           UNCHANGED <<job, api>>,
           \A v \in Workers \ {w} : pc'[v] = pc[v] /\ left'[v] = left[v],
           Executing(w)' => SegmentOf(pc'[w], new, left'[w], res)
    PROVE  KeepsOrder(res)
<1>1. /\ job[w] \in Runs
      /\ rows'[job[w]] = new
      /\ \A r \in Runs \ {job[w]} : rows'[r] = rows[r]
  BY DEF TypeOK, DbType, WorkerType, Busy
<1>2. \A r \in Runs : TableInv(rows'[r], res)
  BY <1>1 DEF OrderInv
<1>3. TargetInv'
  <2> SUFFICES ASSUME api.pc = "claim", NEW k \in api.target
               PROVE  k \in DOMAIN rows'[api.run] /\ Open(rows'[api.run][k])
    BY DEF TargetInv
  <2>1. k \in DOMAIN rows[api.run] /\ Open(rows[api.run][k]) /\ api.run \in Runs
    BY DEF OrderInv, TargetInv, TypeOK, OtherType
  <2> QED
    BY <1>1, <2>1
<1>4. ASSUME NEW v \in Workers, Executing(v)'
      PROVE  SegmentOf(pc'[v], rows'[job'[v]], left'[v], res)
  <2>1. CASE v = w
    BY <1>1, <1>4, <2>1
  <2>2. CASE v # w
    <3>1. pc'[v] = pc[v] /\ left'[v] = left[v] /\ job'[v] = job[v]
      BY <2>2
    <3>2. Executing(v) /\ Busy(v)
      BY <1>4, <3>1 DEF Executing, Busy
    <3>3. job[v] # job[w] /\ job[v] \in Runs
      BY <2>2, <3>2 DEF OneExecutionPerRun, TypeOK, WorkerType, Busy
    <3>4. SegmentOf(pc[v], rows[job[v]], left[v], res)
      BY <3>2 DEF OrderInv, SegmentInv
    <3> QED
      BY <1>1, <3>1, <3>3, <3>4
  <2> QED
    BY <2>1, <2>2
<1>5. SettledStay
  BY <1>1 DEF SettledStay
<1> QED
  BY <1>2, <1>3, <1>4, <1>5 DEF OrderInv, SegmentInv, KeepsOrder

\* Reading what is done: what is left has no result yet.
LEMMA OrderOfLoad ==
    ASSUME TypeOK, OneExecutionPerRun, NEW res \in SUBSET {"data", "answer"}, OrderInv(res),
           NEW w \in Workers, Load(w)
    PROVE  KeepsOrder(res)
<1> DEFINE old == rows[job[w]]
<1>1. job[w] \in Runs /\ Busy(w)
  BY DEF Load, TypeOK, WorkerType, Busy
<1>2. old \in Seq(StepRow(Steps)) /\ TableInv(old, res)
  BY <1>1 DEF TypeOK, DbType, OrderInv
<1>3. /\ RestoredSteps(old) \subseteq Settled(old)
      /\ \A k \in DOMAIN old : Kept(old[k], res) => old[k].step \in RestoredSteps(old)
  BY <1>2, RestoredIsSettled
<1>4. /\ left'[w] = Steps \ RestoredSteps(old) /\ pc'[w] = "start"
      /\ \A v \in Workers \ {w} : pc'[v] = pc[v] /\ left'[v] = left[v]
      /\ UNCHANGED <<rows, job, api>>
  BY DEF Load, TypeOK, WorkerType, dbVars, otherVars
<1>5. SegmentOf(pc'[w], old, left'[w], res)
  BY <1>3, <1>4 DEF SegmentOf
<1>6. rows' = [rows EXCEPT ![job[w]] = old]
  BY <1>1, <1>4 DEF TypeOK, DbType
<1> QED
  BY <1>1, <1>2, <1>4, <1>5, <1>6, OrderOfThread

\* The next step is reached: what precedes it in the plan is not left.
LEMMA OrderOfLoop ==
    ASSUME TypeOK, OneExecutionPerRun, NEW res \in SUBSET {"data", "answer"}, OrderInv(res),
           NEW w \in Workers, SkipStep(w) \/ BeginStep(w)
    PROVE  KeepsOrder(res)
<1> DEFINE old == rows[job[w]]
<1>1. /\ job[w] \in Runs /\ Busy(w) /\ pc[w] = "loop"
      /\ left[w] \subseteq Steps /\ nth[w] \in Nat
      /\ Len(Plan) \in Nat
  BY PlanAssumption DEF SkipStep, BeginStep, TypeOK, WorkerType, Busy
<1>2. old \in Seq(StepRow(Steps)) /\ TableInv(old, res)
  BY <1>1 DEF TypeOK, DbType, OrderInv
<1>3. /\ Steps \ left[w] \subseteq Settled(old)
      /\ \A k \in DOMAIN old : Kept(old[k], res) => old[k].step \notin left[w]
  BY <1>1 DEF OrderInv, SegmentInv, Executing, SegmentOf
<1>4. PICK j \in left[w], st \in {"running", "skipped"} :
        /\ IsNext(w, j)
        /\ rows' = [rows EXCEPT ![job[w]] = AppendRow(@, j, nth[w], st)]
        /\ \/ st = "skipped" /\ PassStep(w, j) /\ UNCHANGED <<pc, job, api>>
           \/ /\ st = "running" /\ pc' = [pc EXCEPT ![w] = "act"]
              /\ UNCHANGED <<job, left, api>>
  BY DEF SkipStep, BeginStep, otherVars
<1> DEFINE new == AppendRow(old, j, nth[w], st)
<1>5. \A i \in 1..(j - 1) : i \in Settled(old)
  <2> SUFFICES ASSUME NEW i \in 1..(j - 1)
               PROVE  i \in Steps \ left[w]
    BY <1>3
  <2>1. j \in Steps
    BY <1>1
  <2>2. i \in Steps /\ ~ (j <= i)
    BY <1>1, <2>1 DEF Steps
  <2> QED
    BY <1>4, <2>2 DEF IsNext
<1>6. \A k \in DOMAIN old : Kept(old[k], res) => old[k].step # j
  BY <1>3
<1>7. /\ TableInv(new, res)
      /\ Settled(old) \subseteq Settled(new)
      /\ st = "skipped" => j \in Settled(new)
      /\ \A k \in DOMAIN new : Kept(new[k], res) => k \in DOMAIN old /\ Kept(old[k], res)
  <2> HIDE DEF old
  <2> QED
    BY <1>1, <1>2, <1>5, <1>6, AppendKeepsTable
<1>8. /\ new \in Seq(StepRow(Steps))
      /\ Len(new) = Len(old) + 1
      /\ \A k \in 1..Len(old) : new[k] = old[k]
      /\ new[Len(old) + 1].step = j
      /\ new[Len(old) + 1].status = st
  <2>1. st \in StepStatus /\ j \in Steps
    BY <1>1 DEF StepStatus
  <2> HIDE DEF old
  <2> QED
    BY <1>1, <1>2, <2>1, AppendRowShape
<1>9. rows' = [rows EXCEPT ![job[w]] = new]
  BY <1>4
<1> HIDE DEF new
<1>10. /\ DOMAIN old = 1..Len(old) /\ Len(old) \in Nat
       /\ DOMAIN new = 1..(Len(old) + 1)
  BY <1>2, <1>8, RowPositions
<1>11. \A k \in DOMAIN old : k \in DOMAIN new /\ new[k] = old[k]
  BY <1>8, <1>10
<1>12. /\ \A v \in Workers \ {w} : pc'[v] = pc[v] /\ left'[v] = left[v]
       /\ UNCHANGED <<job, api>>
  BY <1>4 DEF PassStep, TypeOK, WorkerType
<1>13. SegmentOf(pc'[w], new, left'[w], res)
  <2>1. \A k \in DOMAIN new : Kept(new[k], res) => new[k].step \notin left[w]
    BY <1>3, <1>7, <1>11
  <2>2. CASE st = "skipped"
    <3>1. left'[w] = left[w] \ {j} /\ pc'[w] = "loop"
      BY <1>1, <1>4, <2>2 DEF PassStep, TypeOK, WorkerType
    <3> QED
      BY <1>3, <1>7, <2>1, <2>2, <3>1 DEF SegmentOf
  <2>3. CASE st = "running"
    <3>1. left'[w] = left[w] /\ pc'[w] = "act"
      BY <1>1, <1>4, <2>3 DEF TypeOK, WorkerType
    <3> QED
      BY <1>3, <1>7, <1>8, <2>1, <2>3, <3>1 DEF SegmentOf
  <2> QED
    BY <2>2, <2>3
<1> HIDE DEF old
<1> QED
  BY <1>1, <1>7, <1>9, <1>11, <1>12, <1>13, OrderOfThread DEF old

\* The action comes back: the row the thread is at, which is running, is set.
LEMMA OrderOfAct ==
    ASSUME TypeOK, OneExecutionPerRun, NEW res \in SUBSET {"data", "answer"}, OrderInv(res),
           NEW w \in Workers,
           CompleteStep(w) \/ FailStep(w) \/ Suspend(w) \/ RefuseStep(w)
    PROVE  KeepsOrder(res)
<1> DEFINE old == rows[job[w]]
           L == Len(rows[job[w]])
<1>1. pc[w] = "act" /\ job[w] \in Runs /\ Busy(w) /\ Executing(w) /\ old # <<>>
  BY DEF CompleteStep, FailStep, Suspend, RefuseStep, Acting, TypeOK, WorkerType, Busy,
         Executing
<1>2. old \in Seq(StepRow(Steps)) /\ TableInv(old, res)
  BY <1>1 DEF TypeOK, DbType, OrderInv
<1>3. /\ Steps \ left[w] \subseteq Settled(old)
      /\ \A k \in DOMAIN old : Kept(old[k], res) => old[k].step \notin left[w]
      /\ old[L].status = "running"
  BY <1>1 DEF OrderInv, SegmentInv, SegmentOf
<1>4. DOMAIN old = 1..L /\ L \in Nat /\ L \in DOMAIN old /\ L = Len(old)
  BY <1>1, <1>2, RowPositions, EmptySeq
<1>5. PICK st \in {"completed", "failed", "suspended"},
           val \in {"data", "empty", "error", "critique", "refused", "none"} :
        /\ SetCurrentRow(w, st, val)
        /\ \/ /\ st = "completed" /\ val \in {"data", "empty"}
              /\ PassStep(w, CurrentStep(w)) /\ pc' = [pc EXCEPT ![w] = "loop"]
           \/ /\ st = "failed" /\ val \in {"error", "critique"}
              /\ pc' = [pc EXCEPT ![w] = "handle"] /\ UNCHANGED left
           \/ /\ st # "completed"
              /\ EndSegment(w)
        /\ UNCHANGED <<job, api>>
  <2>1. CASE CompleteStep(w)
    BY <2>1 DEF CompleteStep, otherVars
  <2>2. CASE FailStep(w)
    BY <2>2 DEF FailStep, otherVars
  <2>3. CASE Suspend(w)
    BY <2>3 DEF Suspend, otherVars
  <2>4. CASE RefuseStep(w)
    BY <2>4 DEF RefuseStep, otherVars
  <2> QED
    BY <2>1, <2>2, <2>3, <2>4
<1> DEFINE new == SetRows(old, {L}, st, val)
<1>6. rows' = [rows EXCEPT ![job[w]] = new]
  BY <1>5 DEF SetCurrentRow
<1>7. st \in StepStatus /\ val \in StepResult
  BY DEF StepStatus, StepResult
<1>8. \A k \in DOMAIN old : k \in {L} => ~ SettledRow(old[k]) /\ k = L
  BY <1>3 DEF SettledRow
<1> HIDE DEF old, L
<1>9. /\ TableInv(new, res)
      /\ Settled(old) \subseteq Settled(new)
      /\ \A k \in DOMAIN new :
            Kept(new[k], res) => /\ k \in DOMAIN old
                                 /\ \/ Kept(old[k], res)
                                    \/ k \in {L} /\ st = "completed" /\ val \in res
  BY <1>2, <1>4, <1>7, <1>8, UpdateKeepsTable
<1>10. /\ Len(new) = L
       /\ DOMAIN new = DOMAIN old
       /\ \A k \in DOMAIN old : /\ new[k].step = old[k].step
                                /\ k # L => new[k] = old[k]
       /\ new[L].status = st /\ new[L].result = val
  BY <1>2, <1>4, <1>7, SetRowsShape
<1> HIDE DEF new
<1>11. \A k \in DOMAIN old : Open(old[k]) => k \in DOMAIN new /\ new[k] = old[k]
  BY <1>3, <1>10 DEF Open
<1>12. \A v \in Workers \ {w} : pc'[v] = pc[v] /\ left'[v] = left[v]
  BY <1>5 DEF PassStep, EndSegment, TypeOK, WorkerType
<1>13. Executing(w)' => SegmentOf(pc'[w], new, left'[w], res)
  <2>1. CASE st = "completed"
    <3>1. /\ pc'[w] = "loop"
          /\ left'[w] = left[w] \ {old[L].step}
      BY <1>5, <2>1 DEF PassStep, CurrentStep, CurrentRow, TypeOK, WorkerType, old, L
    <3>2. old[L].step \in Settled(new)
      BY <1>4, <1>10, <2>1 DEF Settled, SettledRow
    <3>3. \A k \in DOMAIN new : Kept(new[k], res) => new[k].step \notin left'[w]
      BY <1>3, <1>9, <1>10, <3>1
    <3> QED
      BY <1>3, <1>9, <3>1, <3>2, <3>3 DEF SegmentOf
  <2>2. CASE st = "failed" /\ pc' = [pc EXCEPT ![w] = "handle"] /\ UNCHANGED left
    <3>1. pc'[w] = "handle" /\ left'[w] = left[w] /\ val \in {"error", "critique"}
      <4>1. pc'[w] = "handle"
        BY <2>2 DEF TypeOK, WorkerType
      <4> QED
        BY <1>5, <2>2, <4>1 DEF EndSegment, TypeOK, WorkerType
    <3>2. \A k \in DOMAIN new : Kept(new[k], res) => new[k].step \notin left[w]
      BY <1>3, <1>9, <1>10, <2>2
    <3> QED
      BY <1>3, <1>9, <1>10, <2>2, <3>1, <3>2 DEF SegmentOf
  <2>3. CASE EndSegment(w)
    BY <2>3 DEF EndSegment, Executing, TypeOK, WorkerType
  <2> QED
    BY <1>5, <2>1, <2>2, <2>3
<1> QED
  BY <1>1, <1>5, <1>6, <1>9, <1>11, <1>12, <1>13, OrderOfThread DEF old

\* A failed step whose plan says to go on is passed, and its row settles it.
LEMMA OrderOfContinue ==
    ASSUME TypeOK, OneExecutionPerRun, NEW res \in SUBSET {"data", "answer"}, OrderInv(res),
           NEW w \in Workers, ContinueOnFailure(w)
    PROVE  KeepsOrder(res)
<1> DEFINE old == rows[job[w]]
           L == Len(rows[job[w]])
<1>1. pc[w] = "handle" /\ job[w] \in Runs /\ Busy(w) /\ Executing(w) /\ old # <<>>
  BY DEF ContinueOnFailure, Handling, TypeOK, WorkerType, Busy, Executing
<1>2. old \in Seq(StepRow(Steps)) /\ TableInv(old, res)
  BY <1>1 DEF TypeOK, DbType, OrderInv
<1>3. L \in DOMAIN old
  BY <1>1, <1>2, RowPositions, EmptySeq
<1>4. /\ Steps \ left[w] \subseteq Settled(old)
      /\ \A k \in DOMAIN old : Kept(old[k], res) => old[k].step \notin left[w]
      /\ old[L].status = "failed"
      /\ old[L].result \in {"error", "critique"}
  BY <1>1 DEF OrderInv, SegmentInv, SegmentOf
<1>5. old[L].result = "error" /\ Plan[old[L].step].onError = "continue"
  BY <1>4 DEF ContinueOnFailure, Handling, CurrentRow, CurrentStep
<1>6. old[L].step \in Settled(old)
  BY <1>3, <1>4, <1>5 DEF Settled, SettledRow
<1>7. /\ pc'[w] = "loop"
      /\ left'[w] = left[w] \ {old[L].step}
      /\ \A v \in Workers \ {w} : pc'[v] = pc[v] /\ left'[v] = left[v]
      /\ UNCHANGED <<rows, job, api>>
  BY DEF ContinueOnFailure, PassStep, CurrentRow, CurrentStep, TypeOK, WorkerType, dbVars,
         otherVars
<1>8. SegmentOf(pc'[w], old, left'[w], res)
  BY <1>4, <1>6, <1>7 DEF SegmentOf
<1>9. rows' = [rows EXCEPT ![job[w]] = old]
  BY <1>1, <1>7 DEF TypeOK, DbType
<1> HIDE DEF L
<1> QED
  BY <1>1, <1>2, <1>7, <1>8, <1>9, OrderOfThread

\* Every other step of a thread.
LEMMA OrderOfWorker ==
    ASSUME TypeOK, OneExecutionPerRun, NEW res \in SUBSET {"data", "answer"}, OrderInv(res),
           NEW w \in Workers, WorkerStep(w)
    PROVE  KeepsOrder(res)
<1>1. CASE Load(w)
  BY <1>1, OrderOfLoad
<1>2. CASE SkipStep(w) \/ BeginStep(w)
  BY <1>2, OrderOfLoop
<1>3. CASE CompleteStep(w) \/ FailStep(w) \/ Suspend(w) \/ RefuseStep(w)
  BY <1>3, OrderOfAct
<1>4. CASE ContinueOnFailure(w)
  BY <1>4, OrderOfContinue
<1>5. CASE \/ Take(w) \/ Start(w) \/ FailBeforeStep(w) \/ FailRun(w) \/ EscalateFailure(w)
           \/ CompleteRun(w) \/ Discard(w) \/ Recheck(w) \/ Reschedule(w)
  <2>1. UNCHANGED <<rows, api>>
    BY <1>5 DEF Take, Start, FailBeforeStep, FailRun, EscalateFailure, CompleteRun, Discard,
                Recheck, Reschedule, dbVars, otherVars
  <2>2. \A v \in Workers \ {w} : pc'[v] = pc[v] /\ job'[v] = job[v] /\ left'[v] = left[v]
    BY <1>5 DEF Take, Start, FailBeforeStep, FailRun, EscalateFailure, CompleteRun, Discard,
                Recheck, Reschedule, EndSegment, TypeOK, WorkerType
  <2>3. CASE Start(w)
    <3>1. pc[w] = "start" /\ pc'[w] = "loop" /\ UNCHANGED <<job, left>>
      BY <2>3 DEF Start, TypeOK, WorkerType
    <3>2. Executing(w)
      BY <3>1 DEF Executing
    <3> QED
      BY <2>1, <2>2, <3>1, <3>2, OrderStill DEF Executing
  <2>4. CASE ~ Start(w)
    <3>1. ~ Executing(w)'
      BY <1>5, <2>4 DEF Take, FailBeforeStep, FailRun, EscalateFailure, CompleteRun, Discard,
                Recheck, Reschedule, EndSegment, Executing, TypeOK, WorkerType
    <3> QED
      BY <2>1, <2>2, <3>1, OrderStill DEF Executing
  <2> QED
    BY <2>3, <2>4
<1> QED
  BY <1>1, <1>2, <1>3, <1>4, <1>5 DEF WorkerStep

\* A request reads suspended rows only.
LEMMA OrderOfRequest ==
    ASSUME TypeOK, NEW res \in SUBSET {"data", "answer"}, OrderInv(res),
           NEW r \in Runs, Request(r)
    PROVE  KeepsOrder(res)
<1>1. UNCHANGED <<rows, pc, job, left>>
  BY DEF Request, CreateRun, ReadForResume, ReadForCallback, ReadForRetry, Admit, dbVars,
         workerVars
<1>2. \/ api'.pc # "claim"
      \/ /\ api'.run = r
         /\ api'.target \subseteq Suspended(rows[r])
  <2>1. CASE CreateRun(r)
    BY <2>1 DEF CreateRun
  <2>2. CASE ReadForResume(r) \/ ReadForCallback(r) \/ ReadForRetry(r)
    <3>1. FirstSuspendedOfDetail(rows[r]) \subseteq Suspended(rows[r])
      BY DEF FirstSuspendedOfDetail
    <3>2. FirstSuspendedForRun(rows[r]) \subseteq Suspended(rows[r])
      BY DEF FirstSuspendedForRun
    <3>3. \E op \in ApiOp, t \in SUBSET Suspended(rows[r]) : Admit(r, op, t)
      <4>1. CASE ReadForResume(r)
        <5>1. PICK op \in ApiOp, t \in OneOf(FirstSuspendedOfDetail(rows[r])) : Admit(r, op, t)
          BY <4>1 DEF ReadForResume, ApiOp
        <5>2. t \subseteq FirstSuspendedOfDetail(rows[r])
          BY OneOfShape
        <5> QED
          BY <3>1, <5>1, <5>2
      <4>2. CASE ReadForCallback(r)
        <5>1. PICK op \in ApiOp, t \in OneOf(FirstSuspendedForRun(rows[r])) : Admit(r, op, t)
          BY <4>2 DEF ReadForCallback, ApiOp
        <5>2. t \subseteq FirstSuspendedForRun(rows[r])
          BY OneOfShape
        <5> QED
          BY <3>2, <5>1, <5>2
      <4>3. CASE ReadForRetry(r)
        <5>1. Admit(r, "retry", {}) /\ "retry" \in ApiOp /\ {} \in SUBSET Suspended(rows[r])
          BY <4>3 DEF ReadForRetry, ApiOp
        <5> QED
          BY <5>1
      <4> QED
        BY <2>2, <4>1, <4>2, <4>3
    <3> QED
      BY <3>3 DEF Admit
  <2> QED
    BY <2>1, <2>2 DEF Request
<1>3. TargetInv'
  BY <1>1, <1>2 DEF TargetInv, Suspended, Open
<1> QED
  BY <1>1, <1>3 DEF OrderInv, SegmentInv, Executing, SettledStay, KeepsOrder

\* A handler or the sweeper sets open rows of one run; no thread's row is open,
\* and no open row is settled.
LEMMA OrderOfWrite ==
    ASSUME TypeOK, NEW res \in SUBSET {"data", "answer"}, OrderInv(res),
           NEW r \in Runs, NEW ks, NEW st \in StepStatus, NEW val \in StepResult,
           rows' = [rows EXCEPT ![r] = SetRows(@, ks, st, val)],
           \A k \in DOMAIN rows[r] : k \in ks => Open(rows[r][k]),
           st = "completed" /\ val \in res =>
               /\ \A k \in DOMAIN rows[r] : k \in ks => k = Len(rows[r])
               /\ \A w \in Workers : Executing(w) => job[w] # r,
           UNCHANGED <<pc, job, left>>,
           api'.pc = "claim" => api' = api /\ st = "failed" /\ val = "timeout"
    PROVE  KeepsOrder(res)
<1> DEFINE old == rows[r]
           new == SetRows(old, ks, st, val)
<1>1. old \in Seq(StepRow(Steps)) /\ TableInv(old, res)
  BY DEF TypeOK, DbType, OrderInv
<1>2. \A k \in DOMAIN old : k \in ks => ~ SettledRow(old[k])
  BY DEF Open, SettledRow
<1>3. rows'[r] = new /\ \A q \in Runs \ {r} : rows'[q] = rows[q]
  BY DEF TypeOK, DbType
<1> HIDE DEF old
<1>4. /\ TableInv(new, res)
      /\ Settled(old) \subseteq Settled(new)
      /\ \A k \in DOMAIN new :
            Kept(new[k], res) => /\ k \in DOMAIN old
                                 /\ \/ Kept(old[k], res)
                                    \/ k \in ks /\ st = "completed" /\ val \in res
  <2>1. st = "completed" /\ val \in res => \A k \in DOMAIN old : k \in ks => k = Len(old)
    BY DEF old
  <2> QED
    BY <1>1, <1>2, <2>1, UpdateKeepsTable
<1>5. /\ Len(new) = Len(old)
      /\ DOMAIN new = DOMAIN old
      /\ \A k \in DOMAIN old : /\ new[k].step = old[k].step
                               /\ k \notin ks => new[k] = old[k]
                               /\ k \in ks => new[k].status = st /\ new[k].result = val
  BY <1>1, SetRowsShape
<1> HIDE DEF new
<1>6. \A q \in Runs : TableInv(rows'[q], res)
  BY <1>3, <1>4 DEF OrderInv
<1>7. TargetInv'
  <2> SUFFICES ASSUME api'.pc = "claim", NEW k \in api'.target
               PROVE  k \in DOMAIN rows'[api'.run] /\ Open(rows'[api'.run][k])
    BY DEF TargetInv
  <2>1. api' = api /\ st = "failed" /\ val = "timeout" /\ api.run \in Runs
    BY DEF TypeOK, OtherType
  <2>2. k \in DOMAIN rows[api.run] /\ Open(rows[api.run][k])
    BY <2>1 DEF OrderInv, TargetInv
  <2>3. CASE api.run = r
    BY <1>3, <1>5, <2>1, <2>2, <2>3 DEF Open, old
  <2>4. CASE api.run # r
    BY <1>3, <2>1, <2>2, <2>4
  <2> QED
    BY <2>3, <2>4
<1>8. ASSUME NEW w \in Workers, Executing(w)'
      PROVE  SegmentOf(pc'[w], rows'[job'[w]], left'[w], res)
  <2>1. Executing(w) /\ pc'[w] = pc[w] /\ job'[w] = job[w] /\ left'[w] = left[w]
    BY <1>8 DEF Executing
  <2>2. SegmentOf(pc[w], rows[job[w]], left[w], res) /\ job[w] \in Runs
    BY <2>1 DEF OrderInv, SegmentInv, TypeOK, WorkerType, Executing
  <2>3. CASE job[w] # r
    BY <1>3, <2>1, <2>2, <2>3
  <2>4. CASE job[w] = r
    <3>1. ~ (st = "completed" /\ val \in res)
      BY <2>1, <2>4
    <3>2. \A k \in DOMAIN new : Kept(new[k], res) => new[k].step \notin left[w]
      BY <1>4, <1>5, <2>2, <2>4, <3>1 DEF SegmentOf, old
    <3>3. pc[w] \in {"act", "handle"} => Len(old) \in DOMAIN old /\ new[Len(old)] = old[Len(old)]
      <4>1. ASSUME pc[w] \in {"act", "handle"}
            PROVE  Len(old) \in DOMAIN old /\ ~ Open(old[Len(old)])
        <5>1. old # <<>>
          BY <2>4, <4>1 DEF TypeOK, WorkerType, old
        <5>2. Len(old) \in DOMAIN old
          BY <1>1, <5>1, RowPositions, EmptySeq
        <5> QED
          BY <2>2, <2>4, <4>1, <5>2 DEF SegmentOf, Open, old
      <4> QED
        BY <1>5, <4>1 DEF old
    <3> QED
      BY <1>3, <1>4, <1>5, <2>1, <2>2, <2>4, <3>2, <3>3 DEF SegmentOf, old
  <2> QED
    BY <2>3, <2>4
<1>9. SettledStay
  BY <1>3, <1>4 DEF SettledStay, old
<1> QED
  BY <1>6, <1>7, <1>8, <1>9 DEF OrderInv, SegmentInv, KeepsOrder

\* An answer, a rejection, and the handler's other steps.
LEMMA OrderOfApi ==
    ASSUME TypeOK, NEW res \in SUBSET {"data", "answer"}, OrderInv(res), AnswersLast(res),
           ApiStep
    PROVE  KeepsOrder(res)
<1>1. CASE Approve
  <2>1. /\ api.pc = "claim" /\ api.run \in Runs /\ status[api.run] = "suspended"
        /\ api'.pc # "claim"
        /\ UNCHANGED <<pc, job, left>>
    BY <1>1 DEF Approve, Claiming, TypeOK, OtherType, workerVars
  <2>2. \A k \in api.target : Open(rows[api.run][k])
    BY <2>1 DEF OrderInv, TargetInv
  <2>3. /\ {"failed", "completed"} \subseteq StepStatus
        /\ {"approval", "answer"} \subseteq StepResult
        /\ "approval" \notin res
    BY DEF StepStatus, StepResult
  <2>4. CASE api.err.type = "escalation" /\ api.err.pre
    <3>1. rows' = [rows EXCEPT ![api.run] = SetRows(@, api.target, "failed", "approval")]
      BY <1>1, <2>4 DEF Approve, ResolveOnApproval
    <3> QED
      BY <2>1, <2>2, <2>3, <3>1, OrderOfWrite
  <2>5. CASE ~ (api.err.type = "escalation" /\ api.err.pre)
    <3>1. rows' = [rows EXCEPT ![api.run] = SetRows(@, api.target, "completed", "answer")]
      BY <1>1, <2>5 DEF Approve, ResolveOnApproval
    <3>2. "answer" \in res => /\ \A k \in api.target : k = Len(rows[api.run])
                              /\ \A w \in Workers : Executing(w) => job[w] # api.run
      BY <2>1 DEF AnswersLast
    <3> QED
      BY <2>1, <2>2, <2>3, <3>1, <3>2, OrderOfWrite
  <2> QED
    BY <2>4, <2>5
<1>2. CASE Reject
  <2>1. /\ api.pc = "claim" /\ api.run \in Runs
        /\ api'.pc # "claim"
        /\ UNCHANGED <<pc, job, left>>
        /\ rows' = [rows EXCEPT ![api.run] = SetRows(@, api.target, "failed", "rejected")]
    BY <1>2 DEF Reject, Claiming, IdleApi, TypeOK, OtherType, workerVars
  <2>2. \A k \in api.target : Open(rows[api.run][k])
    BY <2>1 DEF OrderInv, TargetInv
  <2>3. "failed" \in StepStatus /\ "rejected" \in StepResult
    BY DEF StepStatus, StepResult
  <2> QED
    BY <2>1, <2>2, <2>3, OrderOfWrite
<1>3. CASE LoseClaim \/ RequeueFailed \/ ApiSchedule
  <2>1. UNCHANGED <<rows, pc, job, left>> /\ api'.pc # "claim"
    BY <1>3 DEF LoseClaim, RequeueFailed, ApiSchedule, IdleApi, dbVars, workerVars, TypeOK,
                OtherType
  <2> QED
    BY <2>1, OrderStill DEF Executing
<1> QED
  BY <1>1, <1>2, <1>3 DEF ApiStep

\* The sweeper's steps, and the end of the process.
LEMMA OrderElsewhere ==
    ASSUME TypeOK, NEW res \in SUBSET {"data", "answer"}, OrderInv(res),
           \/ \E r \in Runs : DeadlinePasses(r) \/ ShutdownMark(r)
           \/ SweepStep \/ Shutdown \/ Restart \/ UNCHANGED vars
    PROVE  KeepsOrder(res)
<1>1. CASE \/ \E r \in Runs : DeadlinePasses(r) \/ ShutdownMark(r)
           \/ Discover \/ Shutdown \/ UNCHANGED vars
  <2>1. UNCHANGED <<rows, pc, job, left, api>>
    BY <1>1 DEF DeadlinePasses, ShutdownMark, Discover, Shutdown, vars, dbVars, workerVars,
                otherVars
  <2> QED
    BY <2>1, OrderStill DEF Executing
<1>2. CASE Restart
  <2>1. UNCHANGED rows /\ api'.pc # "claim" /\ \A w \in Workers : ~ Executing(w)'
    BY <1>2 DEF Restart, IdleApi, Executing, dbVars
  <2> QED
    BY <2>1, OrderStill
<1>3. ASSUME NEW e \in sweep, TimeOut(e)
      PROVE  KeepsOrder(res)
  <2>1. e.run \in Runs /\ UNCHANGED <<pc, job, left, api>>
    BY <1>3 DEF TimeOut, TypeOK, OtherType, workerVars
  <2>2. CASE status[e.run] = "suspended"
    <3>1. PICK t \in OneOf(FirstSuspendedForRun(rows[e.run])) :
             rows' = [rows EXCEPT ![e.run] = SetRows(@, t, "failed", "timeout")]
      BY <1>3, <2>2 DEF TimeOut
    <3>2. t \subseteq FirstSuspendedForRun(rows[e.run])
      BY OneOfShape
    <3>3. \A k \in t : Open(rows[e.run][k])
      BY <3>2 DEF FirstSuspendedForRun, Suspended, Open
    <3>4. "failed" \in StepStatus /\ "timeout" \in StepResult
      BY DEF StepStatus, StepResult
    <3> QED
      BY <2>1, <3>1, <3>3, <3>4, OrderOfWrite
  <2>3. CASE status[e.run] # "suspended"
    <3>1. UNCHANGED rows
      BY <1>3, <2>3 DEF TimeOut
    <3> QED
      BY <2>1, <3>1, OrderStill DEF Executing
  <2> QED
    BY <2>2, <2>3
<1> QED
  BY <1>1, <1>2, <1>3 DEF SweepStep

\* Every step keeps the order.
LEMMA OrderOfNext ==
    ASSUME TypeOK, OneExecutionPerRun, NEW res \in SUBSET {"data", "answer"}, OrderInv(res),
           AnswersLast(res), [Next]_vars
    PROVE  KeepsOrder(res)
BY OrderOfWorker, OrderOfRequest, OrderOfApi, OrderElsewhere DEF Next

\* An empty table is in order.
LEMMA OrderOfInit ==
    ASSUME NEW res, Init
    PROVE  OrderInv(res)
<1>1. \A r \in Runs : TableInv(rows[r], res)
  BY DEF Init, TableInv, InOrder, Once, Numbered
<1> QED
  BY <1>1 DEF Init, OrderInv, SegmentInv, Executing, TargetInv, IdleApi

\* The order of steps, with results of executed actions counting, whatever
\* clients, shutdowns and restarts do.
THEOREM OrderKept == Spec => []OrderInv({"data"})
<1>1. Init => OrderInv({"data"})
  BY OrderOfInit
<1>2. TypeOK /\ OneExecutionPerRun /\ OrderInv({"data"}) /\ [Next]_vars => OrderInv({"data"})'
  <2>1. AnswersLast({"data"})
    BY DEF AnswersLast
  <2>2. {"data"} \in SUBSET {"data", "answer"}
    OBVIOUS
  <2> QED
    BY <2>1, <2>2, OrderOfNext DEF KeepsOrder
<1> QED
  BY <1>1, <1>2, TypeCorrect, OneExecution, PTL DEF Spec

\* No step is begun before all earlier steps of the plan were settled: nothing
\* behind a gate runs unless the gate was approved, whatever the order of
\* resumes, rejections, timeouts, retries, shutdowns and restarts.
THEOREM StepsInOrder == Spec => []PassedInOrder
<1>1. OrderInv({"data"}) => PassedInOrder
  BY DEF OrderInv, TableInv, InOrder, PassedInOrder
<1> QED
  BY <1>1, OrderKept, PTL

\* The side effect of an action that came back with a result is not repeated by
\* any resume, retry or restart.
THEOREM ResultsNotRepeated == Spec => []ResultNotRepeated
<1>1. OrderInv({"data"}) => ResultNotRepeated
  BY DEF OrderInv, TableInv, Once, Kept, ResultNotRepeated, NotRepeated
<1> QED
  BY <1>1, OrderKept, PTL

\* The settled steps of a table are steps of the plan.
LEMMA SettledSteps ==
    ASSUME NEW rws \in Seq(StepRow(Steps))
    PROVE  Settled(rws) \subseteq Steps
<1>1. \A k \in DOMAIN rws : rws[k] \in StepRow(Steps)
  BY RowPositions
<1> QED
  BY <1>1 DEF Settled, StepRow

\* Only a thread with nothing left of the plan completes a run.
LEMMA CompletionOfNext ==
    ASSUME TypeOK, NEW res, OrderInv(res), [Next]_vars, NEW r \in Runs,
           status'[r] = "completed", status[r] # "completed"
    PROVE  Steps \subseteq Settled(rows[r]) /\ rows' = rows
<1>1. CASE \E w \in Workers : CompleteRun(w)
  <2>1. PICK w \in Workers : CompleteRun(w)
    BY <1>1
  <2>2. job[w] = r /\ left[w] = {} /\ Executing(w) /\ rows' = rows
    BY <2>1 DEF CompleteRun, Executing, TypeOK, DbType
  <2> QED
    BY <2>2 DEF OrderInv, SegmentInv, SegmentOf
<1>2. CASE ~ \E w \in Workers : CompleteRun(w)
  <2>1. \/ UNCHANGED status
        \/ \E q \in Runs, st \in {"queued", "running", "suspended", "failed"} :
              status' = [status EXCEPT ![q] = st]
    <3>1. CASE \E w \in Workers : WorkerStep(w)
      BY <1>2, <3>1 DEF WorkerStep, Take, Load, Start, FailBeforeStep, SkipStep, BeginStep,
                CompleteStep, Suspend, RefuseStep, FailStep, FailRun, EscalateFailure,
                ContinueOnFailure, Discard, Recheck, Reschedule, MarkFailed,
                MarkSuspended, dbVars, Acting, Handling, TypeOK, WorkerType
    <3>2. CASE (\E q \in Runs : Request(q)) \/ ApiStep
      BY <3>2 DEF Request, CreateRun, ReadForResume, ReadForCallback, ReadForRetry, Admit,
                  ApiStep, Approve, Reject, LoseClaim, RequeueFailed, ApiSchedule, Claiming,
                  dbVars, TypeOK, OtherType
    <3>3. CASE (\E q \in Runs : DeadlinePasses(q) \/ ShutdownMark(q)) \/ SweepStep \/ Shutdown
               \/ Restart \/ UNCHANGED vars
      BY <3>3 DEF DeadlinePasses, ShutdownMark, MarkFailed, SweepStep, Discover, TimeOut,
                  Shutdown, Restart, vars, dbVars, TypeOK, OtherType
    <3> QED
      BY <3>1, <3>2, <3>3 DEF Next
  <2> QED
    BY <2>1 DEF TypeOK, DbType
<1> QED
  BY <1>1, <1>2

\* A run is completed only when every step of its plan was executed, approved,
\* skipped, or failed with a plan that says to go on.
THEOREM CompletedRunsAreDone == Spec => []CompletedIsDone
<1>1. Init => CompletedIsDone
  BY DEF Init, CompletedIsDone
<1>2. ASSUME TypeOK, TypeOK', OneExecutionPerRun, OrderInv({"data"}), CompletedIsDone, [Next]_vars
      PROVE  CompletedIsDone'
  <2>1. AnswersLast({"data"})
    BY DEF AnswersLast
  <2>2. {"data"} \in SUBSET {"data", "answer"}
    OBVIOUS
  <2>3. SettledStay
    BY <1>2, <2>1, <2>2, OrderOfNext DEF KeepsOrder
  <2> SUFFICES ASSUME NEW r \in Runs, status'[r] = "completed"
               PROVE  Settled(rows'[r]) = Steps
    BY DEF CompletedIsDone
  <2>4. Settled(rows'[r]) \subseteq Steps
    <3>1. rows'[r] \in Seq(StepRow(Steps))
      BY <1>2 DEF TypeOK, DbType
    <3> QED
      BY <3>1, SettledSteps
  <2>5. Steps \subseteq Settled(rows[r])
    <3>1. CASE status[r] = "completed"
      BY <1>2, <3>1 DEF CompletedIsDone
    <3>2. CASE status[r] # "completed"
      BY <1>2, <3>2, CompletionOfNext
    <3> QED
      BY <3>1, <3>2
  <2> QED
    BY <2>3, <2>4, <2>5 DEF SettledStay
<1> QED
  BY <1>1, <1>2, TypeCorrect, OneExecution, OrderKept, PTL DEF Spec
=============================================================================
