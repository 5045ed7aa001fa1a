------------------------ MODULE StepExecutionProofs -------------------------
(***************************************************************************)
(* Theorems about StepExecution, for every plan, every budget and limit,   *)
(* every set of tools and personal values and any number of segments.      *)
(*                                                                         *)
(* First what is spent, approved and sent, from the inductive IInv; then   *)
(* the rate limiter, whose record of calls is compared with the runs of a  *)
(* tool counted from the latest; then the types, for which the persisted   *)
(* usage is shown to be the sum of what the rows hold.                     *)
(***************************************************************************)
EXTENDS StepExecution, SequenceTheorems, FiniteSetTheorems, TLAPS

USE DEF RecordTokens

InStep == {"ground", "verify", "replan", "execute", "tool", "critique", "handle"}

\* What a row alone must satisfy.
RowOk(row) ==
    /\ row.out.kind # "pii"
    /\ Class[row.tool] = "outbound" =>
          /\ row.sent.kind # "token"
          /\ row.sent.kind = "pii" => row.path
    /\ Class[row.tool] = "model" /\ TokenizeInputs => row.sent.kind # "pii"
    /\ row.result = "approval" => row.status = "failed"

Types ==
    /\ rows \in Seq(Row) /\ persisted \in Int /\ seg \in Nat /\ pc \in PC
    /\ used \in Nat /\ vault \in Vaults /\ call \in CallRecord /\ cur \in Steps

RowsInv == \A k \in DOMAIN rows : RowOk(rows[k]) /\ rows[k].seg <= seg

\* What approves a step of this segment is a row of an earlier one.
Approved ==
    \A j \in approvals : \E m \in DOMAIN rows :
        rows[m].step = j /\ rows[m].result = "approval" /\ rows[m].seg < seg

\* The row of the step in progress is the last one.
Current == pc \in InStep => rows # << >> /\ rows[Len(rows)].seg = seg

\* A proposed call with a form field passed the policy engine.
Checked ==
    pc \in {"verify", "execute"} /\ call.form # NoValue =>
        ~PiiRefused(Class[call.tool], Pii(call.form), call.allowed)

\* What the rows hold was counted, by the segment under way or when it was seeded.
Counted == TokensBounded /\ persisted <= used

\* Where the budget was found to have something left, and what was spent since.
Budgeted ==
    /\ Counted
    /\ pc \in {"verify", "critique"} => used < MaxTokens
    /\ pc \in {"execute", "tool", "replan"} => used < MaxTokens + MaxCallCost
    /\ pc \in {"verify", "execute", "tool"} => persisted < MaxTokens

IInv ==
    /\ Types /\ RowsInv /\ Approved /\ EscalationAnswered /\ Current /\ Checked /\ Budgeted

----------------------------------------------------------------------------
(* Lemmas about the operators. *)

LEMMA PlanShape ==
    /\ 1 \in Steps /\ NoCall \in CallRecord
    /\ \A j \in Steps : Plan[j].call \in CallRecord /\ Plan[j].call.tool \in Tools
<1>1. Plan \in Seq([call : CallRecord, retries : Nat, onError : Policy]) /\ Plan # << >>
  BY PlanAssumption
<1>2. Len(Plan) \in Nat /\ Len(Plan) # 0
  BY <1>1, LenProperties, EmptySeq
<1>3. 1 \in Steps
  BY <1>2 DEF Steps
<1>4. \A j \in Steps : Plan[j] \in [call : CallRecord, retries : Nat, onError : Policy]
  BY <1>1, ElementOfSeq DEF Steps
<1> QED
  BY <1>3, <1>4 DEF NoCall, CallRecord

\* tokenize: the value has a token afterwards, and the vault only grows.
LEMMA MintShape ==
    ASSUME NEW vlt \in Vaults, NEW v \in Values
    PROVE  Mint(vlt, v) \in Vaults /\ Tokenized(vlt, v) \in Content /\ Tokenized(vlt, v).kind = "token"
<1>1. Mint(vlt, v) \in Vaults
  BY AppendProperties DEF Mint, Vaults
<1>2. TokensOf(Mint(vlt, v), v) # {}
  <2>1. CASE TokensOf(vlt, v) = {}
    <3>1. Mint(vlt, v) = Append(vlt, v)
      BY <2>1 DEF Mint
    <3>2. /\ Len(Append(vlt, v)) = Len(vlt) + 1 /\ Append(vlt, v)[Len(vlt) + 1] = v
          /\ Len(vlt) \in Nat
      BY AppendProperties, LenProperties DEF Vaults
    <3>3. Len(vlt) + 1 \in TokensOf(Append(vlt, v), v)
      BY <3>2 DEF TokensOf
    <3> QED
      BY <3>1, <3>3
  <2>2. CASE TokensOf(vlt, v) # {}
    BY <2>2 DEF Mint
  <2> QED
    BY <2>1, <2>2
<1>3. TokensOf(Mint(vlt, v), v) \subseteq Nat
  BY DEF TokensOf
<1>4. (CHOOSE n \in TokensOf(Mint(vlt, v), v) : TRUE) \in Nat
  BY <1>2, <1>3
<1> QED
  BY <1>1, <1>4 DEF Tokenized, Content

\* What an argument can be: a form field's value, or a result, which is no
\* personal value.
LEMMA ArgumentShape ==
    ASSUME Types, RowsInv
    PROVE  /\ Argument \in Content
           /\ Argument.kind = "pii" =>
                 call.form \in Values /\ Argument = Pii(call.form) /\ call.form # NoValue
<1>1. call.form \in Values \cup {NoValue}
  BY DEF Types, CallRecord
<1>2. CASE call.form # NoValue
  <2>1. Argument = Pii(call.form) /\ call.form \in Values
    BY <1>1, <1>2 DEF Argument
  <2> QED
    BY <1>2, <2>1 DEF Pii, Content
<1>3. CASE call.form = NoValue
  <2>1. Argument = Output(call.from)
    BY <1>3 DEF Argument
  <2>2. Plain \in Content /\ Plain.kind = "plain"
    BY DEF Plain, Content
  <2>3. ASSUME NEW j, \E k \in RowsOf(j) : rows[k].status = "completed"
        PROVE  LET k == CHOOSE k \in RowsOf(j) : TRUE IN
               rows[k].out \in Content /\ rows[k].out.kind # "pii"
    <3>1. PICK k : k = CHOOSE i \in RowsOf(j) : TRUE
      OBVIOUS
    <3>2. k \in DOMAIN rows
      BY <2>3, <3>1 DEF RowsOf
    <3>3. rows[k] \in Row /\ RowOk(rows[k])
      BY <3>2, ElementOfSeq, LenProperties DEF Types, RowsInv
    <3> QED
      BY <3>1, <3>3 DEF Row, RowOk
  <2> QED
    BY <2>1, <2>2, <2>3 DEF Output
<1> QED
  BY <1>2, <1>3

----------------------------------------------------------------------------
(* Changes of the rows. *)

\* The part of the invariant that is about the rows.
RowsPart ==
    /\ rows \in Seq(Row) /\ seg \in Nat
    /\ RowsInv /\ Approved /\ EscalationAnswered

AtStep == rows # << >> /\ rows[Len(rows)].seg = seg

LEMMA RowsPartOf == ASSUME IInv PROVE RowsPart /\ (pc \in InStep => AtStep)
BY DEF IInv, Types, RowsPart, Current, AtStep

LEMMA RowShape ==
    ASSUME rows \in Seq(Row)
    PROVE  /\ DOMAIN rows = 1..Len(rows) /\ Len(rows) \in Nat
           /\ \A k \in DOMAIN rows : rows[k] \in Row
           /\ rows # << >> => Len(rows) \in DOMAIN rows
BY LenProperties, ElementOfSeq, EmptySeq

\* Rows that keep their step and segment, with approvals and human decisions
\* changing at the current row only.
LEMMA RowsChange ==
    ASSUME RowsPart, UNCHANGED seg, approvals' \subseteq approvals,
           rows' \in Seq(Row), Len(rows') = Len(rows),
           \A k \in DOMAIN rows :
               /\ rows'[k].step = rows[k].step /\ rows'[k].seg = rows[k].seg
               /\ RowOk(rows'[k])
               /\ rows[k].result = "approval" =>
                     rows'[k].result = "approval" \/ rows[k].seg = seg
               /\ rows'[k].by = "human" =>
                     \/ rows[k].by = "human" /\ rows'[k].as = rows[k].as
                     \/ rows'[k].as \in approvals /\ k = Len(rows) /\ rows[k].seg = seg
    PROVE  RowsPart' /\ (AtStep => AtStep')
<1>1. /\ DOMAIN rows = 1..Len(rows) /\ Len(rows) \in Nat /\ DOMAIN rows' = DOMAIN rows
      /\ \A k \in DOMAIN rows : rows[k] \in Row /\ rows[k].seg \in Nat
  BY RowShape, LenProperties DEF RowsPart, Row
<1>2. RowsInv'
  BY <1>1 DEF RowsPart, RowsInv, RowOk
<1>3. \A m \in DOMAIN rows : rows[m].result = "approval" /\ rows[m].seg < seg =>
          /\ rows'[m].step = rows[m].step /\ rows'[m].result = "approval"
          /\ rows'[m].seg = rows[m].seg
  BY <1>1 DEF RowsPart
<1>4. Approved'
  <2> SUFFICES ASSUME NEW j \in approvals
               PROVE  \E m \in DOMAIN rows' :
                          rows'[m].step = j /\ rows'[m].result = "approval" /\ rows'[m].seg < seg'
    BY DEF Approved
  <2>1. PICK m \in DOMAIN rows : rows[m].step = j /\ rows[m].result = "approval" /\ rows[m].seg < seg
    BY DEF RowsPart, Approved
  <2> QED
    BY <1>1, <1>3, <2>1
<1>5. EscalationAnswered'
  <2> SUFFICES ASSUME NEW k \in DOMAIN rows', rows'[k].by = "human"
               PROVE  \E m \in 1..(k - 1) :
                          /\ rows'[m].step = rows'[k].as /\ rows'[m].result = "approval"
                          /\ rows'[m].seg < rows'[k].seg
    BY DEF EscalationAnswered
  <2>1. k \in DOMAIN rows /\ rows'[k].seg = rows[k].seg /\ rows[k].seg <= seg
    BY <1>1 DEF RowsPart, RowsInv
  <2>2. CASE rows[k].by = "human" /\ rows'[k].as = rows[k].as
    <3>1. PICK m \in 1..(k - 1) : /\ rows[m].step = rows[k].as /\ rows[m].result = "approval"
                                  /\ rows[m].seg < rows[k].seg
      BY <2>1, <2>2 DEF RowsPart, EscalationAnswered
    <3>2. m \in DOMAIN rows /\ rows[m].seg < seg
      BY <1>1, <2>1, <3>1 DEF RowsPart
    <3> QED
      BY <1>3, <2>1, <2>2, <3>1, <3>2
  <2>3. CASE rows'[k].as \in approvals /\ k = Len(rows) /\ rows[k].seg = seg
    <3>1. PICK m \in DOMAIN rows : /\ rows[m].step = rows'[k].as /\ rows[m].result = "approval"
                                   /\ rows[m].seg < seg
      BY <2>3 DEF RowsPart, Approved
    <3>2. m # k
      BY <2>3, <3>1 DEF RowsPart
    <3>3. m \in 1..(k - 1)
      BY <1>1, <2>3, <3>1, <3>2
    <3> QED
      BY <1>3, <2>1, <2>3, <3>1, <3>3
  <2> QED
    BY <2>1, <2>2, <2>3
<1>6. AtStep => AtStep'
  BY <1>1, RowShape, EmptySeq DEF AtStep, RowsPart
<1> QED
  BY <1>2, <1>4, <1>5, <1>6 DEF RowsPart

\* The rows stay as they are.
LEMMA RowsKept ==
    ASSUME RowsPart, UNCHANGED <<rows, seg>>, approvals' \subseteq approvals
    PROVE  RowsPart' /\ (AtStep => AtStep')
BY DEF RowsPart, RowsInv, Approved, EscalationAnswered, AtStep

\* The current row is replaced by one that is as good.
LEMMA CurrentChange ==
    ASSUME RowsPart, AtStep, UNCHANGED seg, approvals' \subseteq approvals,
           NEW row \in Row, rows' = [rows EXCEPT ![Len(rows)] = row],
           row.step = rows[Len(rows)].step, row.seg = seg, RowOk(row),
           row.by = "human" =>
               (rows[Len(rows)].by = "human" /\ row.as = rows[Len(rows)].as) \/ row.as \in approvals
    PROVE  RowsPart' /\ AtStep'
<1>1. /\ DOMAIN rows = 1..Len(rows) /\ Len(rows) \in Nat /\ Len(rows) \in DOMAIN rows
      /\ \A k \in DOMAIN rows : rows[k] \in Row
  BY RowShape DEF RowsPart, AtStep
<1>2. rows' \in Seq(Row) /\ Len(rows') = Len(rows)
  BY <1>1, ExceptSeq DEF RowsPart
<1>3. \A k \in DOMAIN rows : rows'[k] = IF k = Len(rows) THEN row ELSE rows[k]
  BY <1>1
<1> QED
  BY <1>1, <1>2, <1>3, RowsChange DEF RowsPart, RowsInv, AtStep

\* set_status of the current row.
LEMMA EndedShape ==
    ASSUME RowsPart, AtStep, UNCHANGED seg, approvals' \subseteq approvals,
           NEW st \in {"running", "suspended", "completed", "failed"},
           NEW res \in {"none", "data", "refused", "error", "policy", "critique"},
           rows' = Ended(rows, st, res)
    PROVE  RowsPart' /\ AtStep'
<1>1. rows[Len(rows)] \in Row /\ RowOk(rows[Len(rows)])
  BY RowShape DEF RowsPart, AtStep, RowsInv
<1>2. PICK row : row = [rows[Len(rows)] EXCEPT !.status = st, !.result = res]
  OBVIOUS
<1>3. /\ row \in Row /\ RowOk(row) /\ row.step = rows[Len(rows)].step /\ row.seg = seg
      /\ row.by = rows[Len(rows)].by /\ row.as = rows[Len(rows)].as
  BY <1>1, <1>2 DEF Row, RowOk, AtStep
<1>4. rows' = [rows EXCEPT ![Len(rows)] = row]
  BY <1>2 DEF Ended, CurrentRow
<1> QED
  BY <1>3, <1>4, CurrentChange

\* Adding usage to a row changes nothing else of it.
LEMMA ChargedShape ==
    ASSUME RowsPart, AtStep, NEW k \in DOMAIN rows, NEW u \in Nat
    PROVE  /\ Charged(k, u) \in Seq(Row) /\ Len(Charged(k, u)) = Len(rows)
           /\ \A m \in DOMAIN rows :
                 /\ Charged(k, u)[m] \in Row
                 /\ Charged(k, u)[m] = [rows[m] EXCEPT !.tokens = Charged(k, u)[m].tokens]
<1>1. /\ DOMAIN rows = 1..Len(rows) /\ rows \in Seq(Row)
      /\ \A m \in DOMAIN rows : rows[m] \in Row
  BY RowShape DEF RowsPart
<1>2. \A m \in DOMAIN rows : rows[m] = [rows[m] EXCEPT !.tokens = rows[m].tokens]
  BY <1>1 DEF Row
<1>3. CASE u = 0
  BY <1>1, <1>2, <1>3 DEF Charged
<1>4. CASE u # 0
  <2>1. PICK row : row = [rows[k] EXCEPT !.tokens = u]
    OBVIOUS
  <2>2. row \in Row /\ row.tokens = u
    BY <1>1, <2>1 DEF Row
  <2>3. Charged(k, u) = [rows EXCEPT ![k] = row]
    BY <1>4, <2>1 DEF Charged
  <2>4. /\ Charged(k, u) \in Seq(Row) /\ Len(Charged(k, u)) = Len(rows)
        /\ \A m \in DOMAIN rows : Charged(k, u)[m] = IF m = k THEN row ELSE rows[m]
    BY <1>1, <2>2, <2>3, ExceptSeq
  <2> QED
    BY <1>1, <1>2, <2>1, <2>2, <2>4
<1> QED
  BY <1>3, <1>4

----------------------------------------------------------------------------
(* The ways an attempt ends. *)

\* What the forms below establish; the rest of Types is about the policy engine.
Held ==
    /\ RowsPart /\ pc \in PC /\ (pc \in InStep => AtStep)
    /\ call \in CallRecord /\ cur \in Steps /\ Checked /\ Budgeted

LEMMA Assembled ==
    ASSUME Held', persisted' \in Int, used' \in Nat, vault' \in Vaults
    PROVE  IInv'
BY DEF Held, IInv, Types, RowsPart, Current, AtStep, Budgeted

LEMMA OvershootShape ==
    /\ Overshoot \in Nat /\ MaxTokens \in Nat /\ MaxCallCost \in Nat /\ MaxToolCost \in Nat
    /\ 0 < MaxTokens /\ MaxToolCost <= Overshoot /\ MaxCallCost <= Overshoot
    /\ MaxCallCost + MaxToolCost <= Overshoot /\ MaxCallCost + MaxCallCost <= Overshoot
BY BoundsAssumption DEF Overshoot

LEMMA Leaving ==
    ASSUME NEW st, Leave(st), RowsPart', Counted'
    PROVE  Held'
BY PlanShape DEF Leave, Held, Checked, Budgeted, PC, InStep

LEMMA Raising ==
    ASSUME IInv, pc \in InStep, NEW kind \in {"error", "policy", "critique"}, Raise(kind),
           UNCHANGED seg, Counted'
    PROVE  Held'
<1>1. RowsPart /\ AtStep /\ call \in CallRecord /\ cur \in Steps
  BY RowsPartOf DEF IInv, Types
<1>2. cur' \in Steps /\ UNCHANGED approvals
  BY <1>1 DEF Raise
<1>3. CASE LastAttempt
  <2>1. /\ rows' = Ended(rows, "failed", kind) /\ pc' = "handle" /\ UNCHANGED <<call, approvals>>
    BY <1>3 DEF Raise
  <2>2. RowsPart' /\ AtStep'
    BY <1>1, <2>1, EndedShape
  <2> QED
    BY <1>1, <1>2, <2>1, <2>2 DEF Held, Checked, Budgeted, PC
<1>4. CASE ~LastAttempt
  <2>1. pc' = "ground" /\ call' \in CallRecord /\ UNCHANGED rows
    BY <1>1, <1>4, PlanShape DEF Raise, BeginAttempt
  <2>2. RowsPart' /\ AtStep'
    BY <1>1, <1>2, <2>1, RowsKept
  <2> QED
    BY <1>2, <2>1, <2>2 DEF Held, Checked, Budgeted, PC
<1> QED
  BY <1>3, <1>4

LEMMA Refusing ==
    ASSUME IInv, pc \in InStep, Refuse(rows), UNCHANGED seg, Counted'
    PROVE  Held'
<1>1. RowsPart /\ AtStep
  BY RowsPartOf
<1>2. rows' = Ended(rows, "failed", "refused") /\ Leave("failed") /\ approvals' \subseteq approvals
  BY DEF Refuse, Leave
<1>3. RowsPart'
  BY <1>1, <1>2, EndedShape
<1> QED
  BY <1>2, <1>3, Leaving

LEMMA Escalating ==
    ASSUME IInv, pc \in InStep, NEW kind, Escalate(kind), UNCHANGED seg, Counted'
    PROVE  Held'
<1>1. RowsPart /\ AtStep
  BY RowsPartOf
<1>2. rows' = Ended(rows, "suspended", "none") /\ Leave("suspended") /\ approvals' \subseteq approvals
  BY DEF Escalate, Leave
<1>3. RowsPart'
  BY <1>1, <1>2, EndedShape
<1> QED
  BY <1>2, <1>3, Leaving

----------------------------------------------------------------------------
(* The actions of a segment. *)

\* An action that leaves the policy engine's state alone.
LEMMA Kept ==
    ASSUME IInv, Held', UNCHANGED <<persisted, used, vault>>
    PROVE  IInv'
BY Assembled DEF IInv, Types

LEMMA PlanRunStep == ASSUME IInv, PlanRun PROVE IInv'
<1> USE DEF PlanRun
<1>1. /\ RowsPart /\ used \in Nat /\ pc = "plan" /\ persisted \in Int /\ Counted
      /\ call \in CallRecord /\ cur \in Steps /\ approvals' \subseteq approvals
  BY RowsPartOf DEF IInv, Types, Budgeted, Leave, loopVars
<1>2. RowsPart'
  BY <1>1, RowsKept
<1>3. CASE mode = "deterministic" /\ pc' = "loop" /\ UNCHANGED <<status, used, loopVars>>
  <2>1. Held'
    BY <1>1, <1>2, <1>3 DEF Held, Checked, Budgeted, Counted, TokensBounded, PC, InStep, loopVars
  <2> QED
    BY <1>3, <2>1, Kept
<1>4. CASE /\ ~ExhaustedAt(used) /\ \E c \in CallCosts : used' = used + c
           /\ pc' = "loop" /\ UNCHANGED <<status, loopVars>>
  <2>1. /\ used < MaxTokens /\ used' \in Nat /\ used <= used' /\ used' <= used + MaxCallCost
        /\ UNCHANGED persisted
    BY <1>1, <1>4, OvershootShape DEF ExhaustedAt, CallCosts
  <2>2. Counted'
    BY <1>1, <2>1, OvershootShape DEF Counted, TokensBounded
  <2>3. Held'
    BY <1>1, <1>2, <1>4, <2>2 DEF Held, Checked, Budgeted, PC, InStep, loopVars
  <2> QED
    BY <2>1, <2>3, Assembled DEF IInv, Types
<1>5. CASE Leave("failed") /\ UNCHANGED used
  BY <1>1, <1>2, <1>5, Leaving, Kept DEF Counted, TokensBounded
<1> QED
  BY <1>3, <1>4, <1>5

LEMMA CompleteRunStep == ASSUME IInv, CompleteRun \/ FailBeforeStep PROVE IInv'
<1>1. \E st \in {"completed", "failed"} : Leave(st)
  BY DEF CompleteRun, FailBeforeStep
<1>2. UNCHANGED <<rows, seg, persisted, policyVars>>
  BY DEF CompleteRun, FailBeforeStep
<1>3. RowsPart' /\ Counted'
  BY <1>1, <1>2, RowsPartOf, RowsKept DEF Leave, policyVars, IInv, Budgeted, Counted, TokensBounded
<1> QED
  BY <1>1, <1>2, <1>3, Leaving, Kept DEF policyVars

LEMMA BeginStepStep == ASSUME IInv, BeginStep PROVE IInv'
<1>1. PICK j \in Steps : /\ rows' = Append(rows, NewRow(j)) /\ cur' = j /\ BeginAttempt(j)
  BY DEF BeginStep
<1>2. UNCHANGED <<seg, persisted, policyVars, approvals>>
  BY DEF BeginStep
<1>3. pc' = "ground" /\ call' \in CallRecord
  BY <1>1, PlanShape DEF BeginAttempt
<1>4. PICK row : row = NewRow(j)
  OBVIOUS
<1>5. /\ row \in Row /\ row.seg = seg /\ row.by = "none" /\ RowOk(row)
  BY <1>4, PlanShape, RowsPartOf DEF NewRow, Row, RowOk, Plain, Content, RowsPart
<1>6. /\ DOMAIN rows = 1..Len(rows) /\ Len(rows) \in Nat /\ seg \in Nat
      /\ DOMAIN rows' = 1..(Len(rows) + 1) /\ Len(rows') = Len(rows) + 1 /\ rows' \in Seq(Row)
      /\ \A k \in DOMAIN rows : rows'[k] = rows[k]
      /\ rows'[Len(rows) + 1] = row
  <2>1. rows \in Seq(Row) /\ seg \in Nat
    BY RowsPartOf DEF RowsPart
  <2>2. rows' = Append(rows, row)
    BY <1>1, <1>4
  <2>3. rows' \in Seq(Row) /\ Len(rows') = Len(rows) + 1
    BY <1>5, <2>1, <2>2, AppendProperties
  <2>4. \A k \in 1..Len(rows) : rows'[k] = rows[k]
    BY <1>5, <2>1, <2>2, AppendProperties
  <2>5. rows'[Len(rows) + 1] = row
    BY <1>5, <2>1, <2>2, AppendProperties
  <2> QED
    BY <2>1, <2>3, <2>4, <2>5, LenProperties
<1>7. RowsInv'
  <2>1. ASSUME NEW k \in DOMAIN rows' PROVE RowOk(rows'[k]) /\ rows'[k].seg <= seg'
    <3>1. CASE k = Len(rows) + 1
      BY <1>2, <1>5, <1>6, <3>1
    <3>2. CASE k \in DOMAIN rows
      BY <1>2, <1>6, <3>2 DEF IInv, RowsInv
    <3> QED
      BY <1>6, <3>1, <3>2
  <2> QED
    BY <2>1 DEF RowsInv, RowOk
<1>8. Approved'
  <2> SUFFICES ASSUME NEW i \in approvals
               PROVE  \E m \in DOMAIN rows' :
                          rows'[m].step = i /\ rows'[m].result = "approval" /\ rows'[m].seg < seg'
    BY <1>2 DEF Approved
  <2>1. PICK m \in DOMAIN rows : rows[m].step = i /\ rows[m].result = "approval" /\ rows[m].seg < seg
    BY DEF IInv, Approved
  <2> QED
    BY <1>2, <1>6, <2>1
<1>9. EscalationAnswered'
  <2> SUFFICES ASSUME NEW k \in DOMAIN rows', rows'[k].by = "human"
               PROVE  \E m \in 1..(k - 1) :
                          /\ rows'[m].step = rows'[k].as /\ rows'[m].result = "approval"
                          /\ rows'[m].seg < rows'[k].seg
    BY DEF EscalationAnswered
  <2>1. k \in DOMAIN rows
    BY <1>5, <1>6
  <2>2. PICK m \in 1..(k - 1) : /\ rows[m].step = rows[k].as /\ rows[m].result = "approval"
                                /\ rows[m].seg < rows[k].seg
    BY <1>6, <2>1 DEF IInv, EscalationAnswered
  <2> QED
    BY <1>6, <2>1, <2>2
<1>10. AtStep'
  BY <1>2, <1>5, <1>6, EmptySeq DEF AtStep
<1>11. Held'
  <2>1. RowsPart'
    BY <1>2, <1>6, <1>7, <1>8, <1>9 DEF RowsPart
  <2>2. Budgeted'
    BY <1>2, <1>3 DEF Budgeted, Counted, TokensBounded, IInv, policyVars
  <2> QED
    BY <1>1, <1>3, <1>10, <2>1, <2>2 DEF Held, Checked, PC
<1> QED
  BY <1>2, <1>11, Kept DEF policyVars

LEMMA UnproposedStep == ASSUME IInv, Unproposed PROVE IInv'
<1>1. pc \in InStep /\ UNCHANGED <<persisted, seg, policyVars>>
  BY DEF Unproposed, InStep
<1>2. Counted'
  BY <1>1 DEF policyVars, IInv, Budgeted, Counted, TokensBounded
<1>3. Refuse(rows) \/ Raise("error")
  BY DEF Unproposed
<1>4. Held'
  BY <1>1, <1>2, <1>3, Refusing, Raising
<1> QED
  BY <1>1, <1>4, Kept DEF policyVars

LEMMA ProposeStep == ASSUME IInv, Propose PROVE IInv'
<1> USE DEF Propose
<1>1. pc \in InStep /\ UNCHANGED <<persisted, seg, used, vault>>
  BY DEF InStep
<1>2. Counted'
  BY <1>1 DEF IInv, Budgeted, Counted, TokensBounded
<1>3. CASE Refuse(rows)
  BY <1>1, <1>2, <1>3, Refusing, Kept
<1>4. CASE /\ ~ExhaustedAt(used) /\ ~PiiRefused(Class[call.tool], Argument, call.allowed)
           /\ pc' = "verify" /\ UNCHANGED <<status, rows, loopVars>>
  <2>1. RowsPart' /\ AtStep' /\ call \in CallRecord /\ cur \in Steps /\ UNCHANGED <<call, cur>>
    BY <1>1, <1>4, RowsPartOf, RowsKept DEF loopVars, IInv, Types
  <2>2. Checked'
    BY <1>4, <2>1 DEF Checked, Argument
  <2>3. Budgeted'
    BY <1>1, <1>2, <1>4, OvershootShape DEF Budgeted, Counted, ExhaustedAt, IInv, Types
  <2>4. Held'
    BY <1>4, <2>1, <2>2, <2>3 DEF Held, PC
  <2> QED
    BY <1>1, <2>4, Kept
<1> QED
  BY <1>3, <1>4

LEMMA VerifyStep == ASSUME IInv, Verify PROVE IInv'
<1> USE DEF Verify
<1>1. /\ pc \in InStep /\ pc = "verify" /\ UNCHANGED <<persisted, seg, vault>>
      /\ persisted \in Int /\ Counted /\ RowsPart /\ AtStep /\ call \in CallRecord /\ cur \in Steps
  BY RowsPartOf DEF InStep, IInv, Types, Budgeted
<1>2. used \in Nat /\ used < MaxTokens /\ persisted < MaxTokens
  BY <1>1 DEF IInv, Types, Budgeted
<1>3. /\ used' \in Nat /\ used' < MaxTokens + MaxCallCost /\ Counted'
  BY <1>1, <1>2, OvershootShape DEF CallCosts, Counted, TokensBounded
<1>4. Held' => IInv'
  BY <1>1, <1>3, Assembled DEF IInv, Types
<1>5. CASE Raise("error") \/ Raise("critique")
  BY <1>1, <1>3, <1>4, <1>5, Raising
<1>6. CASE Escalate("pre")
  BY <1>1, <1>3, <1>4, <1>6, Escalating
<1>7. CASE pc' = "replan" /\ UNCHANGED <<status, escalated, rows, loopVars>>
  <2>1. RowsPart' /\ AtStep' /\ UNCHANGED <<call, cur>>
    BY <1>1, <1>7, RowsKept DEF loopVars
  <2>2. Held'
    BY <1>1, <1>3, <1>7, <2>1 DEF Held, Checked, Budgeted, PC
  <2> QED
    BY <1>4, <2>2
<1>8. ASSUME NEW by \in {"verifier", "human"}, Proceed(by),
             by = "human" => call.step \in approvals
      PROVE  IInv'
  <2>1. PICK row : row = [rows[Len(rows)] EXCEPT !.by = by, !.as = call.step]
    OBVIOUS
  <2>2. rows[Len(rows)] \in Row /\ RowOk(rows[Len(rows)])
    BY <1>1, RowShape DEF RowsPart, AtStep, RowsInv
  <2>3. /\ row \in Row /\ row.step = rows[Len(rows)].step /\ row.seg = seg /\ RowOk(row)
        /\ row.by = by /\ row.as = call.step
    BY <1>1, <2>1, <2>2 DEF Row, RowOk, AtStep, CallRecord
  <2>4. rows' = [rows EXCEPT ![Len(rows)] = row] /\ UNCHANGED <<call, cur, approvals>> /\ pc' = "execute"
    BY <1>8, <2>1 DEF Proceed, CurrentRow, loopVars
  <2>5. RowsPart' /\ AtStep'
    BY <1>1, <1>8, <2>3, <2>4, CurrentChange
  <2>6. Checked'
    BY <1>1, <2>4 DEF IInv, Checked
  <2>7. Held'
    BY <1>1, <1>2, <1>3, <2>4, <2>5, <2>6 DEF Held, Budgeted, PC
  <2> QED
    BY <1>4, <2>7
<1> QED
  BY <1>5, <1>6, <1>7, <1>8

LEMMA ReplanStep == ASSUME IInv, Replan PROVE IInv'
<1> USE DEF Replan
<1>1. /\ pc \in InStep /\ pc = "replan" /\ UNCHANGED <<persisted, seg, vault>>
      /\ persisted \in Int /\ Counted /\ RowsPart /\ AtStep /\ cur \in Steps
  BY RowsPartOf DEF InStep, IInv, Types, Budgeted
<1>2. used \in Nat /\ used < MaxTokens + MaxCallCost
  BY <1>1 DEF IInv, Types, Budgeted
<1>3. used' \in Nat /\ Counted'
  BY <1>1, <1>2, OvershootShape DEF CallCosts, Counted, TokensBounded
<1>4. Held' => IInv'
  BY <1>1, <1>3, Assembled DEF IInv, Types
<1>5. CASE Raise("error") \/ Raise("critique")
  BY <1>1, <1>3, <1>4, <1>5, Raising
<1>6. CASE Refuse(rows)
  BY <1>1, <1>3, <1>4, <1>6, Refusing
<1>7. CASE /\ call' \in Revisions /\ pc' = "ground"
           /\ UNCHANGED <<status, rows, done, approvals, cur, attempt, fault>>
  <2>1. RowsPart' /\ AtStep' /\ call' \in CallRecord
    BY <1>1, <1>7, RowsKept, PlanAssumption
  <2>2. Held'
    BY <1>1, <1>3, <1>7, <2>1 DEF Held, Checked, Budgeted, PC
  <2> QED
    BY <1>4, <2>2
<1> QED
  BY <1>5, <1>6, <1>7

LEMMA RefuseTokensStep == ASSUME IInv, RefuseTokens PROVE IInv'
<1>1. pc \in InStep /\ UNCHANGED <<persisted, seg, policyVars>> /\ Raise("policy")
  BY DEF RefuseTokens, InStep
<1>2. Counted'
  BY <1>1 DEF policyVars, IInv, Budgeted, Counted, TokensBounded
<1> QED
  BY <1>1, <1>2, Raising, Kept DEF policyVars

\* What a tool receives, when the policy engine let the proposal pass and the
\* tokens could be replaced.
LEMMA SentShape ==
    ASSUME NEW vlt \in Vaults, NEW class \in ToolClass, NEW c \in Content, NEW allowed \in BOOLEAN,
           c.kind = "pii" => c.of \in Values /\ ~PiiRefused(class, c, allowed),
           Sendable(vlt, class, c, allowed)
    PROVE  /\ Sent(vlt, class, c) \in Content /\ VaultAfter(vlt, class, c) \in Vaults
           /\ class = "outbound" =>
                 /\ Sent(vlt, class, c).kind # "token"
                 /\ Sent(vlt, class, c).kind = "pii" => allowed
           /\ class = "model" /\ TokenizeInputs => Sent(vlt, class, c).kind # "pii"
<1>1. CASE class = "model" /\ TokenizeInputs /\ c.kind = "pii"
  <2>1. Sent(vlt, class, c) = Tokenized(vlt, c.of) /\ VaultAfter(vlt, class, c) = Mint(vlt, c.of)
    BY <1>1 DEF Sent, VaultAfter
  <2> QED
    BY <1>1, <2>1, MintShape
<1>2. CASE class = "outbound" /\ c.kind = "token"
  <2>1. c.n \in 1..Len(vlt) /\ allowed
    BY <1>2 DEF Sendable
  <2>2. Sent(vlt, class, c) = Pii(vlt[c.n]) /\ VaultAfter(vlt, class, c) = vlt
    BY <1>2, <2>1 DEF Sent, VaultAfter
  <2>3. vlt[c.n] \in Values
    BY <2>1, ElementOfSeq DEF Vaults
  <2> QED
    BY <1>2, <2>1, <2>2, <2>3 DEF Pii, Content
<1>3. CASE ~(class = "model" /\ TokenizeInputs /\ c.kind = "pii")
           /\ ~(class = "outbound" /\ c.kind = "token")
  <2>1. Sent(vlt, class, c) = c /\ VaultAfter(vlt, class, c) = vlt
    BY <1>3 DEF Sent, VaultAfter
  <2> QED
    BY <1>3, <2>1 DEF PiiRefused
<1> QED
  BY <1>1, <1>2, <1>3

LEMMA DispatchStep == ASSUME IInv, Dispatch PROVE IInv'
<1>1. /\ pc = "execute" /\ pc \in InStep /\ pc' = "tool"
      /\ UNCHANGED <<persisted, seg, used, loopVars>>
      /\ RowsPart /\ AtStep /\ call \in CallRecord /\ cur \in Steps /\ vault \in Vaults
  BY RowsPartOf DEF Dispatch, InStep, IInv, Types
<1>2. call.tool \in Tools /\ call.allowed \in BOOLEAN /\ Class[call.tool] \in ToolClass
  BY <1>1, PlanAssumption DEF CallRecord
<1>3. /\ Argument \in Content
      /\ Argument.kind = "pii" =>
            Argument.of \in Values /\ ~PiiRefused(Class[call.tool], Argument, call.allowed)
  BY <1>1, ArgumentShape DEF IInv, Checked, Pii
<1>4. Sendable(vault, Class[call.tool], Argument, call.allowed)
  BY DEF Dispatch
<1>5. PICK given : given = Sent(vault, Class[call.tool], Argument)
  OBVIOUS
<1>6. /\ given \in Content /\ vault' \in Vaults
      /\ Class[call.tool] = "outbound" => given.kind # "token" /\ (given.kind = "pii" => call.allowed)
      /\ Class[call.tool] = "model" /\ TokenizeInputs => given.kind # "pii"
  <2>1. vault' = VaultAfter(vault, Class[call.tool], Argument)
    BY DEF Dispatch
  <2> QED
    BY <1>1, <1>2, <1>3, <1>4, <1>5, <2>1, SentShape
<1>7. PICK row : row = [rows[Len(rows)] EXCEPT !.sent = given, !.tool = call.tool, !.path = call.allowed]
  OBVIOUS
<1>8. rows[Len(rows)] \in Row /\ RowOk(rows[Len(rows)])
  BY <1>1, RowShape DEF RowsPart, AtStep, RowsInv
<1>9. /\ row \in Row /\ row.step = rows[Len(rows)].step /\ row.seg = seg
      /\ row.by = rows[Len(rows)].by /\ row.as = rows[Len(rows)].as
      /\ row.out = rows[Len(rows)].out /\ row.status = rows[Len(rows)].status
      /\ row.result = rows[Len(rows)].result
      /\ row.sent = given /\ row.tool = call.tool /\ row.path = call.allowed
  BY <1>1, <1>2, <1>6, <1>7, <1>8 DEF Row, AtStep
<1>10. RowOk(row)
  BY <1>6, <1>8, <1>9 DEF RowOk
<1>11. rows' = [rows EXCEPT ![Len(rows)] = row]
  BY <1>5, <1>7 DEF Dispatch, CurrentRow
<1>12. RowsPart' /\ AtStep'
  BY <1>1, <1>9, <1>10, <1>11, CurrentChange DEF loopVars
<1>13. Held'
  BY <1>1, <1>12 DEF Held, Checked, Budgeted, Counted, TokensBounded, IInv, PC, loopVars
<1> QED
  BY <1>1, <1>6, <1>13, Assembled DEF IInv, Types

LEMMA ToolReturnsStep == ASSUME IInv, ToolReturns PROVE IInv'
<1> USE DEF ToolReturns
<1>1. /\ pc \in InStep /\ pc = "tool" /\ UNCHANGED <<seg, vault>>
      /\ RowsPart /\ AtStep /\ call \in CallRecord /\ cur \in Steps /\ persisted \in Int
      /\ vault \in Vaults /\ used \in Nat
  BY RowsPartOf DEF InStep, IInv, Types, Budgeted
<1>2. used < MaxTokens + MaxCallCost /\ persisted < MaxTokens /\ persisted <= used
  BY <1>1 DEF IInv, Budgeted, Counted
<1>3. CASE Raise("error") /\ UNCHANGED <<used, persisted>>
  BY <1>1, <1>3, Raising, Kept DEF IInv, Budgeted, Counted, TokensBounded
<1>4. ASSUME NEW u \in 0..MaxToolCost, NEW k \in RowsOf(call.step),
             used' = used + u,
             persisted' = IF u = 0 THEN persisted ELSE persisted - rows[k].tokens + u,
             IF ExhaustedAt(used')
                THEN Refuse(Charged(k, u))
                ELSE pc' = "critique" /\ rows' = Charged(k, u) /\ UNCHANGED <<status, loopVars>>
      PROVE  IInv'
  <2>1. /\ DOMAIN rows = 1..Len(rows) /\ Len(rows) \in DOMAIN rows /\ k \in DOMAIN rows
        /\ \A m \in DOMAIN rows : rows[m] \in Row /\ RowOk(rows[m])
    BY <1>1, RowShape DEF RowsOf, RowsPart, AtStep, RowsInv
  <2>2. u \in Nat /\ used' \in Nat /\ persisted' \in Int /\ Counted'
    <3>1. u \in 0..MaxToolCost /\ used' = used + u
      BY <1>4
    <3>2. u \in Nat /\ u <= MaxToolCost /\ used' \in Nat
      BY <1>1, <3>1, OvershootShape
    <3>3. PICK old \in Nat : old = rows[k].tokens
      BY <2>1 DEF Row
    <3>4. persisted' = persisted \/ persisted' = persisted - old + u
      BY <1>4, <3>3
    <3>5. persisted' \in Int
      BY <1>1, <3>2, <3>3, <3>4
    <3>6. Counted'
      BY <1>1, <1>2, <3>1, <3>2, <3>3, <3>4, OvershootShape DEF Counted, TokensBounded
    <3> QED
      BY <3>2, <3>5, <3>6
  <2>3. PICK new : new = Charged(k, u)
    OBVIOUS
  <2>4. /\ new \in Seq(Row) /\ Len(new) = Len(rows) /\ DOMAIN new = DOMAIN rows
        /\ \A m \in DOMAIN rows : /\ new[m] \in Row
                                  /\ new[m] = [rows[m] EXCEPT !.tokens = new[m].tokens]
    BY <1>1, <2>1, <2>2, <2>3, ChargedShape, LenProperties
  <2>5. \A m \in DOMAIN rows :
           /\ new[m].step = rows[m].step /\ new[m].seg = rows[m].seg /\ RowOk(new[m])
           /\ new[m].result = rows[m].result /\ new[m].by = rows[m].by /\ new[m].as = rows[m].as
    <3> SUFFICES ASSUME NEW m \in DOMAIN rows
                 PROVE  /\ new[m].step = rows[m].step /\ new[m].seg = rows[m].seg /\ RowOk(new[m])
                        /\ new[m].result = rows[m].result /\ new[m].by = rows[m].by
                        /\ new[m].as = rows[m].as
      OBVIOUS
    <3>1. PICK old, u2 : old = rows[m] /\ u2 = new[m].tokens
      OBVIOUS
    <3>2. old \in Row /\ RowOk(old) /\ new[m] = [old EXCEPT !.tokens = u2]
      BY <2>1, <2>4, <3>1
    <3> QED
      BY <3>1, <3>2 DEF Row, RowOk
  <2>6. CASE ~ExhaustedAt(used')
    <3>1. pc' = "critique" /\ rows' = new /\ UNCHANGED <<call, cur, approvals>>
      BY <1>4, <2>3, <2>6 DEF loopVars
    <3>2. RowsPart' /\ AtStep'
      BY <1>1, <2>4, <2>5, <3>1, RowsChange
    <3>3. Budgeted'
      BY <2>2, <2>6, <3>1, OvershootShape DEF Budgeted, ExhaustedAt
    <3>4. Held'
      BY <1>1, <3>1, <3>2, <3>3 DEF Held, Checked, PC
    <3> QED
      BY <1>1, <2>2, <3>4, Assembled
  <2>7. CASE ExhaustedAt(used')
    <3>1. rows' = Ended(new, "failed", "refused") /\ Leave("failed") /\ approvals' \subseteq approvals
      BY <1>4, <2>3, <2>7 DEF Refuse, Leave
    <3>2. PICK row : row = [new[Len(rows)] EXCEPT !.status = "failed", !.result = "refused"]
      OBVIOUS
    <3>3. rows' = [new EXCEPT ![Len(rows)] = row]
      BY <3>1, <3>2 DEF Ended, CurrentRow
    <3>4. /\ row \in Row /\ RowOk(row) /\ row.step = rows[Len(rows)].step /\ row.seg = seg
          /\ row.by = rows[Len(rows)].by /\ row.as = rows[Len(rows)].as /\ rows[Len(rows)].seg = seg
      <4>1. PICK last : last = new[Len(rows)]
        OBVIOUS
      <4>2. /\ last \in Row /\ RowOk(last) /\ last.step = rows[Len(rows)].step /\ last.seg = seg
            /\ last.by = rows[Len(rows)].by /\ last.as = rows[Len(rows)].as
        BY <1>1, <2>1, <2>4, <2>5, <4>1 DEF AtStep
      <4> QED
        BY <1>1, <3>2, <4>1, <4>2 DEF Row, RowOk, AtStep
    <3>5. /\ rows' \in Seq(Row) /\ Len(rows') = Len(rows)
          /\ \A m \in DOMAIN rows : rows'[m] = IF m = Len(rows) THEN row ELSE new[m]
      BY <2>1, <2>4, <3>3, <3>4, ExceptSeq
    <3>6. RowsPart'
      BY <1>1, <2>5, <3>1, <3>4, <3>5, RowsChange
    <3>7. Held'
      BY <2>2, <3>1, <3>6, Leaving
    <3> QED
      BY <1>1, <2>2, <3>7, Assembled
  <2> QED
    BY <2>6, <2>7
<1> QED
  BY <1>3, <1>4

LEMMA CritiqueStep == ASSUME IInv, Critique PROVE IInv'
<1> USE DEF Critique
<1>1. /\ pc \in InStep /\ pc = "critique" /\ UNCHANGED <<persisted, seg, vault>>
      /\ persisted \in Int /\ Counted /\ RowsPart /\ AtStep /\ call \in CallRecord /\ cur \in Steps
  BY RowsPartOf DEF InStep, IInv, Types, Budgeted
<1>2. used \in Nat /\ used < MaxTokens
  BY <1>1 DEF IInv, Types, Budgeted
<1>3. used' \in Nat /\ Counted'
  BY <1>1, <1>2, OvershootShape DEF CallCosts, Counted, TokensBounded
<1>4. Held' => IInv'
  BY <1>1, <1>3, Assembled DEF IInv, Types
<1>5. CASE Raise("error") \/ Raise("critique")
  BY <1>1, <1>3, <1>4, <1>5, Raising
<1>6. CASE Escalate("post")
  BY <1>1, <1>3, <1>4, <1>6, Escalating
<1>7. ASSUME NEW o \in Returned(rows[CurrentRow].sent),
             rows' = [Ended(rows, "completed", "data") EXCEPT ![CurrentRow].out = o], PassStep
      PROVE  IInv'
  <2>1. rows[Len(rows)] \in Row /\ RowOk(rows[Len(rows)]) /\ Len(rows) \in DOMAIN rows
    BY <1>1, RowShape DEF RowsPart, AtStep, RowsInv
  <2>2. o \in Content /\ o.kind # "pii"
    BY <1>7, <2>1 DEF Returned, CurrentRow, Row, Plain, Content
  <2>3. PICK row : row = [rows[Len(rows)] EXCEPT !.status = "completed", !.result = "data", !.out = o]
    OBVIOUS
  <2>4. /\ row \in Row /\ row.step = rows[Len(rows)].step /\ row.seg = seg /\ RowOk(row)
        /\ row.by = rows[Len(rows)].by /\ row.as = rows[Len(rows)].as
    BY <1>1, <2>1, <2>2, <2>3 DEF Row, RowOk, AtStep
  <2>5. rows' = [rows EXCEPT ![Len(rows)] = row]
    BY <1>7, <2>1, <2>3 DEF Ended, CurrentRow
  <2>6. RowsPart' /\ AtStep'
    BY <1>1, <1>7, <2>4, <2>5, CurrentChange DEF PassStep
  <2>7. Held'
    BY <1>1, <1>3, <1>7, <2>6 DEF Held, Checked, Budgeted, PassStep, PC, InStep
  <2> QED
    BY <1>4, <2>7
<1> QED
  BY <1>5, <1>6, <1>7

LEMMA HandleStep == ASSUME IInv, Handle PROVE IInv'
<1> USE DEF Handle
<1>1. /\ UNCHANGED <<persisted, used, seg, vault, rows>> /\ approvals' \subseteq approvals
      /\ RowsPart /\ call \in CallRecord /\ cur \in Steps
  BY RowsPartOf DEF IInv, Types, Leave, PassStep
<1>2. RowsPart' /\ Counted'
  BY <1>1, RowsKept DEF IInv, Budgeted, Counted, TokensBounded
<1>3. CASE \E st \in {"failed", "suspended"} : Leave(st)
  BY <1>1, <1>2, <1>3, Leaving, Kept
<1>4. CASE PassStep
  <2>1. Held'
    BY <1>1, <1>2, <1>4 DEF Held, Checked, Budgeted, PassStep, PC, InStep
  <2> QED
    BY <1>1, <2>1, Kept
<1> QED
  BY <1>3, <1>4

----------------------------------------------------------------------------
(* Between segments. *)

LEMMA StartStep == ASSUME IInv, Start PROVE IInv'
<1> USE DEF Start
<1>1. RowsPart /\ call \in CallRecord /\ cur \in Steps /\ persisted \in Int
  BY RowsPartOf DEF IInv, Types
<1>2. seg' \in Nat /\ seg' = seg + 1 /\ seg < seg' /\ rows' = rows
  BY <1>1 DEF RowsPart
<1>3. /\ DOMAIN rows = 1..Len(rows) /\ \A k \in DOMAIN rows : rows[k].seg \in Nat
  BY <1>1, RowShape DEF RowsPart, Row
<1>4. \A k \in DOMAIN rows : rows[k].seg < seg'
  BY <1>1, <1>2, <1>3 DEF RowsPart, RowsInv
<1>5. RowsInv'
  BY <1>1, <1>2, <1>3, <1>4 DEF RowsPart, RowsInv, RowOk
<1>6. Approved'
  BY <1>2, <1>4 DEF Approved, Approvals, LatestWith
<1>7. EscalationAnswered'
  BY <1>1, <1>2 DEF RowsPart, EscalationAnswered
<1>8. used' \in Nat /\ vault' \in Vaults /\ Counted'
  <2>1. vault' \in Vaults /\ used' = Seeded /\ persisted' = persisted
    BY EmptySeq DEF Vaults
  <2>2. persisted < MaxTokens + MaxToolCost
    BY DEF IInv, Budgeted, Counted, TokensBounded
  <2> QED
    BY <1>1, <2>1, <2>2, OvershootShape DEF Counted, TokensBounded, Seeded
<1>9. Held'
  BY <1>1, <1>2, <1>5, <1>6, <1>7, <1>8
  DEF Held, RowsPart, Checked, Budgeted, Counted, TokensBounded, PC, InStep
<1> QED
  BY <1>1, <1>8, <1>9, Assembled

LEMMA CreateStep == ASSUME IInv, Create PROVE IInv'
<1>1. /\ UNCHANGED <<persisted, seg, rows, policyVars, loopVars>> /\ pc' = "idle"
      /\ RowsPart /\ call \in CallRecord /\ cur \in Steps
  BY RowsPartOf DEF Create, IInv, Types
<1>2. RowsPart'
  BY <1>1, RowsKept DEF loopVars
<1>3. Held'
  BY <1>1, <1>2 DEF Held, Checked, Budgeted, Counted, TokensBounded, IInv, PC, InStep, loopVars, policyVars
<1> QED
  BY <1>1, <1>3, Kept DEF policyVars

\* An action that touches neither the segment nor its policy engine.
LEMMA Outside ==
    ASSUME IInv, RowsPart', AtStep => AtStep', UNCHANGED <<persisted, pc, policyVars, loopVars>>
    PROVE  IInv'
<1>1. Held'
  BY RowsPartOf DEF Held, Checked, Budgeted, Counted, TokensBounded, IInv, Types, loopVars, policyVars
<1> QED
  BY <1>1, Kept DEF policyVars

LEMMA AnswerStep == ASSUME IInv, Answer PROVE IInv'
<1>1. PICK approved \in BOOLEAN : rows' = Answered(rows, approved)
  BY DEF Answer
<1>2. UNCHANGED <<persisted, seg, pc, policyVars, loopVars>>
  BY DEF Answer
<1>3. /\ RowsPart /\ DOMAIN rows = 1..Len(rows) /\ Len(rows) \in Nat
      /\ \A k \in DOMAIN rows : rows[k] \in Row /\ RowOk(rows[k])
  BY RowsPartOf, RowShape DEF RowsPart, RowsInv
<1>4. \A k \in DOMAIN rows :
         /\ rows'[k] \in Row /\ RowOk(rows'[k])
         /\ rows'[k].step = rows[k].step /\ rows'[k].seg = rows[k].seg
         /\ rows'[k].by = rows[k].by /\ rows'[k].as = rows[k].as
         /\ rows[k].result = "approval" => rows'[k].result = "approval"
  <2> SUFFICES ASSUME NEW k \in DOMAIN rows
               PROVE  /\ rows'[k] \in Row /\ RowOk(rows'[k])
                      /\ rows'[k].step = rows[k].step /\ rows'[k].seg = rows[k].seg
                      /\ rows'[k].by = rows[k].by /\ rows'[k].as = rows[k].as
                      /\ rows[k].result = "approval" => rows'[k].result = "approval"
    OBVIOUS
  <2>1. PICK row : row = rows[k]
    OBVIOUS
  <2>2. row \in Row /\ RowOk(row)
    BY <1>3, <2>1
  <2>3. \/ rows'[k] = row
        \/ row.status = "suspended" /\ rows'[k] = [row EXCEPT !.status = "failed", !.result = "rejected"]
        \/ row.status = "suspended" /\ rows'[k] = [row EXCEPT !.status = "failed", !.result = "approval"]
        \/ row.status = "suspended" /\ rows'[k] = [row EXCEPT !.status = "completed", !.result = "answer"]
    BY <1>1, <1>3, <2>1 DEF Answered
  <2>4. PICK new : new = rows'[k]
    OBVIOUS
  <2>5. /\ new \in Row /\ new.step = row.step /\ new.seg = row.seg /\ new.by = row.by
        /\ new.as = row.as /\ new.out = row.out /\ new.sent = row.sent /\ new.path = row.path
        /\ new.tool = row.tool
        /\ new.result = "approval" => new.status = "failed"
        /\ row.result = "approval" => new.result = "approval"
    BY <2>2, <2>3, <2>4 DEF Row, RowOk
  <2> QED
    BY <2>1, <2>2, <2>4, <2>5 DEF RowOk
<1>5. rows' \in Seq(Row) /\ Len(rows') = Len(rows)
  <2>1. rows' \in [1..Len(rows) -> Row]
    BY <1>1, <1>3, <1>4 DEF Answered
  <2>2. rows' \in Seq(Row)
    BY <1>3, <2>1, SeqDef
  <2> QED
    BY <1>3, <2>1, <2>2, LenProperties
<1>6. RowsPart' /\ (AtStep => AtStep')
  BY <1>2, <1>3, <1>4, <1>5, RowsChange DEF loopVars
<1> QED
  BY <1>2, <1>6, Outside

LEMMA RetryStep == ASSUME IInv, Retry \/ Tick PROVE IInv'
<1>1. UNCHANGED <<rows, persisted, seg, pc, policyVars, loopVars>>
  BY DEF Retry, Tick
<1>2. RowsPart' /\ (AtStep => AtStep')
  BY <1>1, RowsPartOf, RowsKept DEF loopVars
<1> QED
  BY <1>1, <1>2, Outside

----------------------------------------------------------------------------
(* The theorems. *)

LEMMA InitInv == Init => IInv
<1> SUFFICES ASSUME Init PROVE IInv
  OBVIOUS
<1>1. rows = << >> /\ rows \in Seq(Row) /\ vault \in Vaults
  BY EmptySeq DEF Init, Vaults
<1>2. DOMAIN rows = {}
  BY <1>1
<1> QED
  BY <1>1, <1>2, PlanShape, OvershootShape
  DEF Init, IInv, Types, RowsInv, Approved, EscalationAnswered, Current, Checked, Budgeted,
      Counted, TokensBounded, PC, InStep

LEMMA StutterStep == ASSUME IInv, UNCHANGED vars PROVE IInv'
<1>1. UNCHANGED <<rows, persisted, seg, pc, policyVars, loopVars>>
  BY DEF vars, runVars
<1>2. RowsPart' /\ (AtStep => AtStep')
  BY <1>1, RowsPartOf, RowsKept DEF loopVars
<1> QED
  BY <1>1, <1>2, Outside

LEMMA NextInv == IInv /\ [Next]_vars => IInv'
<1> SUFFICES ASSUME IInv, [Next]_vars PROVE IInv'
  OBVIOUS
<1>1. CASE SegmentStep
  BY <1>1, PlanRunStep, CompleteRunStep, BeginStepStep, UnproposedStep, ProposeStep, VerifyStep,
     ReplanStep, RefuseTokensStep, DispatchStep, ToolReturnsStep, CritiqueStep, HandleStep
  DEF SegmentStep
<1>2. CASE Create \/ Start \/ Answer \/ Retry \/ Tick
  BY <1>2, CreateStep, StartStep, AnswerStep, RetryStep
<1>3. CASE UNCHANGED vars
  BY <1>3, StutterStep
<1> QED
  BY <1>1, <1>2, <1>3 DEF Next

\* The invariant of the three theorems below holds in every state.
THEOREM Inductive == Spec => []IInv
BY InitInv, NextInv, PTL DEF Spec

\* What a run counts, in all its segments, passes the budget by less than the two
\* calls that can be made between two looks at it, whatever the models and tools
\* take (BudgetTracker.check_budget and its call sites, seed_usage).
THEOREM BudgetKept == Spec => []TokensBounded
<1>1. IInv => TokensBounded
  BY DEF IInv, Budgeted, Counted
<1> QED
  BY <1>1, Inductive, PTL

\* A call that the verifier escalated runs only after a human approved it, in an
\* earlier segment (approvals restored by execute, looked up in
\* _ground_and_verify).
THEOREM HumanDecides == Spec => []EscalationAnswered
<1>1. IInv => EscalationAnswered
  BY DEF IInv
<1> QED
  BY <1>1, Inductive, PTL

\* Whatever a step is given and returns, personal data leaves only by the
\* allow-listed paths, tokens never leave, and no raw value comes back
\* (check_tool_call, detokenize_arguments, tokenize_model_arguments, redact_output).
THEOREM DataStays == Spec => []NothingLeaves
<1>1. IInv => NothingLeaves
  BY DEF IInv, RowsInv, RowOk, NothingLeaves
<1> QED
  BY <1>1, Inductive, PTL

----------------------------------------------------------------------------
(* The rate limiter against the tools that ran. *)

\* Calls at the times of s, in order and none in the future.
Ordered(s, now) ==
    /\ s \in Bucket
    /\ \A m, n \in 1..Len(s) : m <= n => s[m] <= s[n]
    /\ \A n \in 1..Len(s) : s[n] <= now

\* Counted from the latest, every run but the last p is no later than the
\* recorded call that came after it, or so old that the record was dropped.
Follows(runs, calls, p, now) ==
    \A n \in 1..Len(runs) :
        LET k == Len(runs) - p - n IN
        /\ k >= 0 /\ k < Len(calls) => runs[n] <= calls[Len(calls) - k]
        /\ k >= 0 /\ k >= Len(calls) => runs[n] + Minute <= now

Spread(runs) ==
    \A n \in 1..Len(runs) :
        n + PerMinute + 1 <= Len(runs) => runs[n] + Minute <= runs[n + PerMinute + 1]

\* The tool was proposed and has not run yet.
InFlight(t) == pc \in {"verify", "execute"} /\ call.tool = t

ToolRate(t) ==
    /\ Ordered(minute[t], clock) /\ Ordered(ran[t], clock) /\ Spread(ran[t])
    /\ InFlight(t) => Len(minute[t]) <= PerMinute
    /\ Follows(ran[t], minute[t], IF InFlight(t) THEN 0 ELSE 1, clock)

RateInv ==
    /\ clock \in 0..MaxClock
    /\ minute \in [Tools -> Bucket] /\ ran \in [Tools -> Bucket] /\ hour \in Bucket
    /\ \A t \in Tools : ToolRate(t)

LEMMA BucketShape ==
    ASSUME NEW s \in Bucket
    PROVE  Len(s) \in Nat /\ DOMAIN s = 1..Len(s) /\ \A n \in 1..Len(s) : s[n] \in 0..MaxClock
BY LenProperties, ElementOfSeq DEF Bucket

\* _check_bucket drops a number of calls from the front.
LEMMA WithinShape ==
    ASSUME NEW s \in Bucket, NEW window \in Nat, clock \in Nat
    PROVE  \E n \in 0..Len(s) :
              /\ Within(s, window) \in Bucket /\ Len(Within(s, window)) = Len(s) - n
              /\ \A m \in 1..(Len(s) - n) : Within(s, window)[m] = s[n + m]
              /\ Ordered(s, clock) => \A m \in 1..n : s[m] + window <= clock
<1> DEFINE expired == {k \in DOMAIN s : s[k] + window <= clock}
           n == Cardinality(expired)
           L == Len(s)
<1>1. L \in Nat /\ DOMAIN s = 1..L /\ \A m \in 1..L : s[m] \in 0..MaxClock /\ s[m] \in Nat
  BY BucketShape
<1>2. IsFiniteSet(1..L) /\ Cardinality(1..L) = L
  BY <1>1, FS_Interval
<1>3. expired \in SUBSET (1..L)
  BY <1>1
<1>4. IsFiniteSet(expired) /\ n <= L
  BY <1>2, <1>3, FS_Subset
<1>5. n \in 0..L
  BY <1>1, <1>4, FS_CardinalityType
<1>6. Within(s, window) = SubSeq(s, n + 1, L)
  BY DEF Within
<1>7. ASSUME Ordered(s, clock), NEW m \in 1..n
      PROVE  s[m] + window <= clock
  <2> SUFFICES ASSUME ~ (s[m] + window <= clock) PROVE FALSE
    OBVIOUS
  <2>1. m \in 1..L /\ m \in Int
    BY <1>1, <1>5
  <2>2. \A k \in expired : k < m
    <3> SUFFICES ASSUME NEW k \in expired, m <= k PROVE FALSE
      BY <1>3, <2>1
    <3>1. s[m] <= s[k] /\ s[k] + window <= clock /\ s[k] \in Nat /\ s[m] \in Nat
      BY <1>1, <1>3, <1>7, <2>1 DEF Ordered
    <3> QED
      BY <3>1
  <2>3. expired \in SUBSET (1..(m - 1))
    BY <1>3, <2>1, <2>2
  <2>4. IsFiniteSet(1..(m - 1)) /\ Cardinality(1..(m - 1)) = m - 1
    BY <2>1, FS_Interval
  <2>5. n <= m - 1
    BY <2>3, <2>4, FS_Subset
  <2> QED
    BY <1>5, <2>1, <2>5
<1> HIDE DEF n
<1>8. \A i \in (n + 1)..L : s[i] \in 0..MaxClock
  BY <1>1, <1>5
<1>9. /\ SubSeq(s, n + 1, L) \in Seq(0..MaxClock)
      /\ Len(SubSeq(s, n + 1, L)) = IF n + 1 <= L THEN L - (n + 1) + 1 ELSE 0
      /\ \A m \in 1..(L - (n + 1) + 1) : SubSeq(s, n + 1, L)[m] = s[n + 1 + m - 1]
  BY <1>1, <1>5, <1>8, SubSeqProperties
<1>10. /\ Within(s, window) \in Bucket /\ Len(Within(s, window)) = L - n
       /\ \A m \in 1..(L - n) : Within(s, window)[m] = s[n + m]
  <2>1. Within(s, window) \in Bucket
    BY <1>6, <1>9 DEF Bucket
  <2>2. Len(Within(s, window)) = L - n
    <3>1. (IF n + 1 <= L THEN L - (n + 1) + 1 ELSE 0) = L - n
      <4>1. \A a \in Nat : \A b \in 0..a : (IF b + 1 <= a THEN a - (b + 1) + 1 ELSE 0) = a - b
        OBVIOUS
      <4>2. L \in Nat
        BY <1>1
      <4> HIDE DEF L
      <4> QED
        BY <1>5, <4>1, <4>2
    <3>2. Len(SubSeq(s, n + 1, L)) = L - n
      BY <1>9, <3>1
    <3> QED
      BY <1>6, <3>2
  <2>3. ASSUME NEW m \in 1..(L - n)
        PROVE  Within(s, window)[m] = s[n + m]
    <3>1. m \in 1..(L - (n + 1) + 1) /\ n + 1 + m - 1 = n + m
      BY <1>1, <1>5, <2>3
    <3> QED
      BY <1>6, <1>9, <3>1
  <2> QED
    BY <2>1, <2>2, <2>3
<1> QED
  BY <1>5, <1>7, <1>10

LEMMA AppendBucket ==
    ASSUME NEW s \in Bucket, NEW x \in 0..MaxClock
    PROVE  /\ Append(s, x) \in Bucket /\ Len(Append(s, x)) = Len(s) + 1
           /\ \A n \in 1..Len(s) : Append(s, x)[n] = s[n]
           /\ Append(s, x)[Len(s) + 1] = x
BY AppendProperties DEF Bucket

LEMMA OrderedAppend ==
    ASSUME NEW now \in 0..MaxClock, NEW s, Ordered(s, now)
    PROVE  Ordered(Append(s, now), now)
<1>1. s \in Bucket /\ Len(s) \in Nat /\ \A n \in 1..Len(s) : s[n] \in 0..MaxClock
  BY BucketShape DEF Ordered
<1>2. /\ Append(s, now) \in Bucket /\ Len(Append(s, now)) = Len(s) + 1
      /\ \A n \in 1..Len(s) : Append(s, now)[n] = s[n]
      /\ Append(s, now)[Len(s) + 1] = now
  BY <1>1, AppendBucket
<1>3. \A n \in 1..(Len(s) + 1) : n \in 1..Len(s) \/ n = Len(s) + 1
  BY <1>1
<1> QED
  BY <1>1, <1>2, <1>3 DEF Ordered

\* The record of a tool after a call of it is proposed.
LEMMA ProposedFollows ==
    ASSUME clock \in 0..MaxClock, NEW runs, NEW calls,
           Ordered(runs, clock), Ordered(calls, clock), Follows(runs, calls, 1, clock)
    PROVE  /\ Ordered(Append(Within(calls, Minute), clock), clock)
           /\ Follows(runs, Append(Within(calls, Minute), clock), 0, clock)
<1>1. /\ clock \in Nat /\ Minute \in Nat /\ calls \in Bucket /\ runs \in Bucket
      /\ Len(calls) \in Nat /\ Len(runs) \in Nat
      /\ \A n \in 1..Len(calls) : calls[n] \in Nat
      /\ \A n \in 1..Len(runs) : runs[n] \in Nat /\ runs[n] <= clock
  BY BoundsAssumption, BucketShape DEF Ordered
<1>2. PICK n \in 0..Len(calls) :
         /\ Within(calls, Minute) \in Bucket /\ Len(Within(calls, Minute)) = Len(calls) - n
         /\ \A m \in 1..(Len(calls) - n) : Within(calls, Minute)[m] = calls[n + m]
         /\ \A m \in 1..n : calls[m] + Minute <= clock
  BY <1>1, WithinShape
<1>3. PICK kept : kept = Within(calls, Minute)
  OBVIOUS
<1>4. Ordered(kept, clock)
  <2>1. kept \in Bucket /\ Len(kept) = Len(calls) - n
    BY <1>2, <1>3
  <2>2. \A m \in 1..Len(kept) : n + m \in 1..Len(calls) /\ kept[m] = calls[n + m]
    BY <1>1, <1>2, <1>3, <2>1
  <2>3. \A m \in 1..Len(kept) : kept[m] <= clock
    BY <2>2 DEF Ordered
  <2>4. ASSUME NEW i \in 1..Len(kept), NEW m \in 1..Len(kept), i <= m
        PROVE  kept[i] <= kept[m]
    <3>1. n + i <= n + m
      BY <1>1, <2>4
    <3> QED
      BY <2>2, <2>4, <3>1 DEF Ordered
  <2> QED
    BY <2>1, <2>3, <2>4 DEF Ordered
<1>5. PICK new : new = Append(kept, clock)
  OBVIOUS
<1>6. /\ Len(new) = Len(calls) - n + 1 /\ new[Len(new)] = clock
      /\ \A m \in 1..(Len(calls) - n) : new[m] = calls[n + m]
  BY <1>1, <1>2, <1>3, <1>5, AppendBucket
<1>7. Follows(runs, new, 0, clock)
  <2> SUFFICES ASSUME NEW i \in 1..Len(runs)
               PROVE  LET k == Len(runs) - i IN
                      /\ k < Len(new) => runs[i] <= new[Len(new) - k]
                      /\ k >= Len(new) => runs[i] + Minute <= clock
    BY <1>1 DEF Follows
  <2>1. CASE i = Len(runs)
    BY <1>1, <1>2, <1>6, <2>1
  <2>2. CASE i < Len(runs)
    <3>1. PICK k : k = Len(runs) - 1 - i /\ k \in Nat
      <4>1. Len(runs) - 1 - i \in Nat
        BY <1>1, <2>2
      <4> QED
        BY <4>1
    <3>2. /\ k < Len(calls) => runs[i] <= calls[Len(calls) - k]
          /\ k >= Len(calls) => runs[i] + Minute <= clock
      BY <1>1, <3>1 DEF Follows
    <3>3. CASE k < Len(calls) - n
      <4>1. Len(new) - (k + 1) \in 1..(Len(calls) - n) /\ n + (Len(new) - (k + 1)) = Len(calls) - k
        BY <1>1, <1>2, <1>6, <3>1, <3>3
      <4>2. new[Len(new) - (k + 1)] = calls[Len(calls) - k]
        BY <1>6, <4>1
      <4>3. runs[i] <= new[Len(new) - (k + 1)]
        <5>1. k < Len(calls)
          BY <1>1, <1>2, <3>1, <3>3
        <5> QED
          BY <3>2, <4>2, <5>1
      <4>4. k + 1 < Len(new) /\ k + 1 = Len(runs) - i
        BY <1>1, <1>2, <1>6, <3>1, <3>3
      <4> QED
        BY <4>3, <4>4, <1>1, <1>6, <2>2
    <3>4. CASE k >= Len(calls) - n /\ k < Len(calls)
      <4>1. Len(calls) - k \in 1..n /\ Len(calls) - k \in 1..Len(calls)
        BY <1>1, <1>2, <3>1, <3>4
      <4>2. calls[Len(calls) - k] + Minute <= clock /\ calls[Len(calls) - k] \in Nat
        BY <1>1, <1>2, <4>1
      <4>3. PICK a, b : a = runs[i] /\ b = calls[Len(calls) - k]
        OBVIOUS
      <4>4. a \in Nat /\ b \in Nat /\ a <= b /\ b + Minute <= clock
        BY <1>1, <3>2, <3>4, <4>2, <4>3
      <4>5. a + Minute <= clock
        BY <1>1, <4>4
      <4>6. ~ (Len(runs) - i < Len(new))
        BY <1>1, <1>2, <1>6, <3>1, <3>4
      <4> QED
        BY <4>3, <4>5, <4>6
    <3>5. CASE k >= Len(calls)
      BY <1>1, <1>2, <1>6, <3>1, <3>2, <3>5
    <3> QED
      BY <1>1, <1>2, <3>1, <3>3, <3>4, <3>5
  <2> QED
    BY <1>1, <2>1, <2>2
<1> QED
  BY <1>3, <1>4, <1>5, <1>7, OrderedAppend

\* A call that was proposed and did not run leaves the record ahead by one.
LEMMA LooseFollows ==
    ASSUME NEW now \in 0..MaxClock, NEW runs, NEW calls,
           Ordered(runs, now), Ordered(calls, now), Follows(runs, calls, 0, now)
    PROVE  Follows(runs, calls, 1, now)
<1>1. /\ Minute \in Nat /\ Len(calls) \in Nat /\ Len(runs) \in Nat
      /\ \A n \in 1..Len(calls) : calls[n] \in Nat
      /\ \A n \in 1..Len(runs) : runs[n] \in Nat
  BY BoundsAssumption, BucketShape DEF Ordered
<1> SUFFICES ASSUME NEW i \in 1..Len(runs), Len(runs) - 1 - i >= 0
             PROVE  LET k == Len(runs) - 1 - i IN
                    /\ k < Len(calls) => runs[i] <= calls[Len(calls) - k]
                    /\ k >= Len(calls) => runs[i] + Minute <= now
  BY DEF Follows
<1>2. PICK k : k = Len(runs) - 1 - i /\ k \in Nat
  <2>1. Len(runs) - 1 - i \in Nat
    BY <1>1
  <2> QED
    BY <2>1
<1>3. i + 1 \in 1..Len(runs) /\ Len(runs) - 0 - (i + 1) = k /\ runs[i] <= runs[i + 1]
  BY <1>1, <1>2 DEF Ordered
<1>4. /\ k < Len(calls) => runs[i + 1] <= calls[Len(calls) - k]
      /\ k >= Len(calls) => runs[i + 1] + Minute <= now
  BY <1>1, <1>2, <1>3 DEF Follows
<1>5. k < Len(calls) => Len(calls) - k \in 1..Len(calls)
  BY <1>1, <1>2
<1> QED
  BY <1>1, <1>2, <1>3, <1>4, <1>5

\* The tool runs.
LEMMA DispatchedFollows ==
    ASSUME NEW now \in 0..MaxClock, NEW runs, NEW calls,
           Ordered(runs, now), Ordered(calls, now), Follows(runs, calls, 0, now), Spread(runs),
           Len(calls) <= PerMinute
    PROVE  /\ Follows(Append(runs, now), calls, 1, now)
           /\ Spread(Append(runs, now))
<1>1. /\ Minute \in Nat /\ PerMinute \in Nat /\ Len(calls) \in Nat /\ Len(runs) \in Nat
      /\ runs \in Bucket
      /\ \A n \in 1..Len(runs) : runs[n] \in Nat
  BY BoundsAssumption, BucketShape DEF Ordered
<1>2. PICK new : new = Append(runs, now)
  OBVIOUS
<1>3. /\ Len(new) = Len(runs) + 1 /\ new[Len(runs) + 1] = now
      /\ \A n \in 1..Len(runs) : new[n] = runs[n]
  BY <1>1, <1>2, AppendBucket
<1>4. Follows(new, calls, 1, now)
  <2> SUFFICES ASSUME NEW i \in 1..Len(new), Len(new) - 1 - i >= 0
               PROVE  LET k == Len(new) - 1 - i IN
                      /\ k < Len(calls) => new[i] <= calls[Len(calls) - k]
                      /\ k >= Len(calls) => new[i] + Minute <= now
    BY DEF Follows
  <2>1. i \in 1..Len(runs) /\ Len(new) - 1 - i = Len(runs) - 0 - i /\ new[i] = runs[i]
    BY <1>1, <1>3
  <2>2. LET k == Len(runs) - 0 - i IN
        /\ k >= 0 /\ k < Len(calls) => runs[i] <= calls[Len(calls) - k]
        /\ k >= 0 /\ k >= Len(calls) => runs[i] + Minute <= now
    BY <2>1 DEF Follows
  <2> QED
    BY <1>1, <1>3, <2>1, <2>2
<1>5. Spread(new)
  <2> SUFFICES ASSUME NEW i \in 1..Len(new), i + PerMinute + 1 <= Len(new)
               PROVE  new[i] + Minute <= new[i + PerMinute + 1]
    BY DEF Spread
  <2>1. i \in 1..Len(runs) /\ new[i] = runs[i]
    BY <1>1, <1>3
  <2>2. CASE i + PerMinute + 1 <= Len(runs)
    <3>1. i + PerMinute + 1 \in 1..Len(runs)
      BY <1>1, <2>1, <2>2
    <3> QED
      BY <1>3, <2>1, <2>2, <3>1 DEF Spread
  <2>3. CASE i + PerMinute + 1 = Len(runs) + 1
    <3>1. Len(runs) - 0 - i = PerMinute
      BY <1>1, <2>1, <2>3
    <3>2. LET k == Len(runs) - 0 - i IN k >= 0 /\ k >= Len(calls) => runs[i] + Minute <= now
      BY <2>1 DEF Follows
    <3>3. runs[i] + Minute <= now
      <4>1. PICK k : k = Len(runs) - 0 - i
        OBVIOUS
      <4>2. k = PerMinute /\ k >= 0 /\ k >= Len(calls)
        BY <1>1, <3>1, <4>1
      <4> QED
        BY <3>2, <4>1, <4>2
    <3>4. new[i + PerMinute + 1] = now
      BY <1>3, <2>3
    <3> QED
      BY <2>1, <3>3, <3>4
  <2>4. i + PerMinute + 1 <= Len(runs) \/ i + PerMinute + 1 = Len(runs) + 1
    <3>1. Len(new) = Len(runs) + 1 /\ i \in Nat
      BY <1>3, <2>1
    <3> QED
      BY <1>1, <3>1
  <2> QED
    BY <2>2, <2>3, <2>4
<1> QED
  BY <1>2, <1>4, <1>5

\* Time passes.
LEMMA LaterFollows ==
    ASSUME NEW now \in Nat, NEW later \in Nat, now <= later,
           NEW runs, NEW calls, Ordered(runs, now), Ordered(calls, now), NEW p \in {0, 1},
           Follows(runs, calls, p, now)
    PROVE  Ordered(runs, later) /\ Ordered(calls, later) /\ Follows(runs, calls, p, later)
<1>1. /\ Minute \in Nat /\ Len(calls) \in Nat /\ Len(runs) \in Nat
      /\ \A n \in 1..Len(calls) : calls[n] \in Nat
      /\ \A n \in 1..Len(runs) : runs[n] \in Nat
  BY BoundsAssumption, BucketShape DEF Ordered
<1> QED
  BY <1>1 DEF Ordered, Follows

\* Steps that neither call nor run a tool.
LEMMA RateQuiet ==
    ASSUME RateInv, UNCHANGED <<minute, hour, ran, clock>>,
           pc' \in {"verify", "execute"} => pc \in {"verify", "execute"} /\ UNCHANGED call
    PROVE  RateInv'
<1>1. ASSUME NEW t \in Tools PROVE ToolRate(t)'
  <2>1. InFlight(t)' => InFlight(t)
    BY DEF InFlight
  <2>2. /\ Ordered(minute[t], clock) /\ Ordered(ran[t], clock) /\ Spread(ran[t])
        /\ InFlight(t) => Len(minute[t]) <= PerMinute
        /\ Follows(ran[t], minute[t], IF InFlight(t) THEN 0 ELSE 1, clock)
        /\ clock \in 0..MaxClock
    BY DEF RateInv, ToolRate
  <2>3. Follows(ran[t], minute[t], IF InFlight(t)' THEN 0 ELSE 1, clock)
    BY <2>1, <2>2, LooseFollows
  <2> QED
    BY <2>1, <2>2, <2>3 DEF ToolRate
<1> QED
  BY <1>1 DEF RateInv

LEMMA RateOfPropose == ASSUME IInv, RateInv, Propose PROVE RateInv'
<1>1. /\ clock \in 0..MaxClock /\ clock \in Nat /\ UNCHANGED <<clock, ran>>
      /\ minute \in [Tools -> Bucket] /\ hour \in Bucket /\ ran \in [Tools -> Bucket]
      /\ call.tool \in Tools
      /\ pc' \in {"idle", "verify"} /\ (pc' = "verify" => UNCHANGED call)
      /\ Minute \in Nat /\ Hour \in Nat /\ PerMinute \in Nat
  BY BoundsAssumption DEF Propose, RateInv, IInv, Types, CallRecord, Refuse, Leave, loopVars
<1>2. hour' \in Bucket
  <2>1. Within(hour, Hour) \in Bucket
    BY <1>1, WithinShape
  <2> QED
    BY <1>1, <2>1, AppendBucket DEF Propose
<1>3. PICK new : new = Append(Within(minute[call.tool], Minute), clock)
  OBVIOUS
<1>4. minute' = [minute EXCEPT ![call.tool] = new]
  BY <1>3 DEF Propose
<1>5. /\ Ordered(minute[call.tool], clock) /\ Ordered(ran[call.tool], clock)
      /\ Follows(ran[call.tool], minute[call.tool], 1, clock)
  BY <1>1, LooseFollows DEF RateInv, ToolRate
<1>6. Ordered(new, clock) /\ Follows(ran[call.tool], new, 0, clock)
  BY <1>1, <1>3, <1>5, ProposedFollows
<1>7. Len(new) <= PerMinute
  <2>1. PICK kept : kept = Within(minute[call.tool], Minute)
    OBVIOUS
  <2>2. kept \in Bucket /\ minute[call.tool] \in Bucket
    BY <1>1, <2>1, WithinShape
  <2>3. ~ (Len(kept) >= PerMinute)
    BY <2>1 DEF Propose, Limited
  <2>4. Len(kept) \in Nat /\ Len(new) = Len(kept) + 1
    BY <1>1, <1>3, <2>1, <2>2, BucketShape, AppendBucket
  <2> QED
    BY <1>1, <2>3, <2>4
<1>8. new \in Bucket
  BY <1>6 DEF Ordered
<1>9. ASSUME NEW t \in Tools PROVE ToolRate(t)'
  <2>1. CASE t = call.tool
    <3>1. minute'[t] = new
      BY <1>1, <1>4, <2>1
    <3>2. Follows(ran[t], new, IF InFlight(t)' THEN 0 ELSE 1, clock)
      BY <1>1, <1>5, <1>6, <2>1, LooseFollows
    <3> QED
      BY <1>1, <1>5, <1>6, <1>7, <2>1, <3>1, <3>2 DEF ToolRate, RateInv
  <2>2. CASE t # call.tool
    <3>1. minute'[t] = minute[t] /\ ~ InFlight(t) /\ ~ InFlight(t)'
      BY <1>1, <1>4, <2>2 DEF InFlight
    <3> QED
      BY <1>1, <3>1 DEF ToolRate, RateInv
  <2> QED
    BY <2>1, <2>2
<1>10. minute' \in [Tools -> Bucket]
  BY <1>1, <1>4, <1>8
<1> QED
  BY <1>1, <1>2, <1>9, <1>10 DEF RateInv

LEMMA RateOfDispatch == ASSUME IInv, RateInv, Dispatch PROVE RateInv'
<1>1. /\ clock \in 0..MaxClock /\ UNCHANGED <<clock, minute, hour>> /\ ran \in [Tools -> Bucket]
      /\ minute \in [Tools -> Bucket] /\ hour \in Bucket
      /\ call.tool \in Tools /\ InFlight(call.tool) /\ pc' = "tool"
  BY DEF Dispatch, RateInv, IInv, Types, CallRecord, InFlight
<1>2. PICK new : new = Append(ran[call.tool], clock)
  OBVIOUS
<1>3. ran' = [ran EXCEPT ![call.tool] = new]
  BY <1>2 DEF Dispatch
<1>4. /\ Ordered(minute[call.tool], clock) /\ Ordered(ran[call.tool], clock)
      /\ Spread(ran[call.tool]) /\ Len(minute[call.tool]) <= PerMinute
      /\ Follows(ran[call.tool], minute[call.tool], 0, clock)
  BY <1>1 DEF RateInv, ToolRate
<1>5. Ordered(new, clock) /\ Spread(new) /\ Follows(new, minute[call.tool], 1, clock)
  BY <1>1, <1>2, <1>4, OrderedAppend, DispatchedFollows
<1>6. \A t \in Tools : ~ InFlight(t)'
  BY <1>1 DEF InFlight
<1>7. ASSUME NEW t \in Tools PROVE ToolRate(t)'
  <2>1. CASE t = call.tool
    <3>1. ran'[t] = new
      BY <1>1, <1>3, <2>1
    <3> QED
      BY <1>1, <1>4, <1>5, <1>6, <2>1, <3>1 DEF ToolRate
  <2>2. CASE t # call.tool
    <3>1. ran'[t] = ran[t] /\ ~ InFlight(t)
      BY <1>1, <1>3, <2>2 DEF InFlight
    <3> QED
      BY <1>1, <1>6, <3>1 DEF ToolRate, RateInv
  <2> QED
    BY <2>1, <2>2
<1>8. ran' \in [Tools -> Bucket]
  BY <1>1, <1>3, <1>5 DEF Ordered
<1> QED
  BY <1>1, <1>7, <1>8 DEF RateInv

LEMMA RateOfTick == ASSUME RateInv, Tick PROVE RateInv'
<1>1. /\ clock \in Nat /\ clock' \in 0..MaxClock /\ clock' \in Nat /\ clock <= clock'
      /\ UNCHANGED <<minute, hour, ran, pc, call>>
  BY BoundsAssumption DEF Tick, RateInv, policyVars, loopVars
<1>2. ASSUME NEW t \in Tools PROVE ToolRate(t)'
  <2>1. InFlight(t)' <=> InFlight(t)
    BY <1>1 DEF InFlight
  <2>2. PICK p \in {0, 1} : p = IF InFlight(t) THEN 0 ELSE 1
    OBVIOUS
  <2>3. /\ Ordered(minute[t], clock) /\ Ordered(ran[t], clock) /\ Spread(ran[t])
        /\ InFlight(t) => Len(minute[t]) <= PerMinute
        /\ Follows(ran[t], minute[t], p, clock)
    BY <2>2 DEF RateInv, ToolRate
  <2>4. Ordered(minute[t], clock') /\ Ordered(ran[t], clock') /\ Follows(ran[t], minute[t], p, clock')
    BY <1>1, <2>3, LaterFollows
  <2> QED
    BY <1>1, <2>1, <2>2, <2>3, <2>4 DEF ToolRate
<1> QED
  BY <1>1, <1>2 DEF RateInv

\* A policy engine that was just made has counted nothing.
NoCalls ==
    /\ clock \in 0..MaxClock /\ minute = [t \in Tools |-> <<>>] /\ hour = <<>>
    /\ ran = [t \in Tools |-> <<>>] /\ pc \notin {"verify", "execute"}

LEMMA RateOfNone == NoCalls => RateInv
<1> SUFFICES ASSUME NoCalls PROVE RateInv
  OBVIOUS
<1> USE DEF NoCalls
<1>1. << >> \in Bucket /\ Len(<< >>) = 0
  BY EmptySeq DEF Bucket
<1>2. ASSUME NEW t \in Tools PROVE ToolRate(t)
  <2>1. minute[t] = << >> /\ ran[t] = << >> /\ ~ InFlight(t)
    BY DEF InFlight
  <2> QED
    BY <1>1, <2>1 DEF ToolRate, Ordered, Follows, Spread
<1> QED
  BY <1>1, <1>2 DEF RateInv

LEMMA RateOfNext == ASSUME IInv, RateInv, [Next]_vars PROVE RateInv'
<1>1. CASE Start
  <2>1. NoCalls'
    BY <1>1 DEF Start, RateInv, NoCalls
  <2>2. NoCalls' => RateInv'
    BY RateOfNone, PTL
  <2> QED
    BY <2>1, <2>2
<1>2. CASE Create \/ Answer \/ Retry \/ UNCHANGED vars
  <2>1. UNCHANGED <<minute, hour, ran, clock, call>> /\ (pc' \in {"verify", "execute"} => pc' = pc)
    BY <1>2 DEF Create, Answer, Retry, vars, runVars, policyVars, loopVars
  <2> QED
    BY <2>1, RateQuiet
<1>3. CASE PlanRun \/ CompleteRun \/ FailBeforeStep \/ BeginStep \/ Unproposed \/ Replan
           \/ RefuseTokens \/ ToolReturns \/ Critique \/ Handle
  <2>1. UNCHANGED <<minute, hour, ran, clock>>
    BY <1>3 DEF PlanRun, CompleteRun, FailBeforeStep, BeginStep, Unproposed, Replan, RefuseTokens,
       ToolReturns, Critique, Handle, policyVars
  <2>2. pc' \notin {"verify", "execute"}
    BY <1>3 DEF PlanRun, CompleteRun, FailBeforeStep, BeginStep, Unproposed, Replan, RefuseTokens,
       ToolReturns, Critique, Handle, Leave, BeginAttempt, Raise, Refuse, Escalate, PassStep
  <2> QED
    BY <2>1, <2>2, RateQuiet
<1>4. CASE Verify
  <2>1. UNCHANGED <<minute, hour, ran, clock>> /\ pc = "verify"
    BY <1>4 DEF Verify
  <2>2. pc' \in {"verify", "execute"} => UNCHANGED call
    BY <1>4 DEF Verify, Leave, BeginAttempt, Raise, Escalate, Proceed, loopVars
  <2> QED
    BY <2>1, <2>2, RateQuiet
<1> QED
  BY <1>1, <1>2, <1>3, <1>4, RateOfPropose, RateOfDispatch, RateOfTick DEF Next, SegmentStep

LEMMA RateOfInit == Init => RateInv
BY RateOfNone, BoundsAssumption DEF Init, NoCalls

LEMMA RateKept == Spec => [](IInv /\ RateInv)
<1>1. Init => IInv /\ RateInv
  BY InitInv, RateOfInit
<1>2. IInv /\ RateInv /\ [Next]_vars => (IInv /\ RateInv)'
  BY NextInv, RateOfNext
<1> QED
  BY <1>1, <1>2, PTL DEF Spec

\* Whatever is proposed and abandoned in between, a tool runs at most once more
\* often in a window than its limit (RateLimiter.check_and_record).
THEOREM RateBounded == Spec => []CallRateBounded
<1>1. RateInv => CallRateBounded
  <2> SUFFICES ASSUME RateInv, NEW t \in Tools, NEW n \in DOMAIN ran[t],
                      n + PerMinute + 1 \in DOMAIN ran[t]
               PROVE  ran[t][n] + Minute <= ran[t][n + PerMinute + 1]
    BY DEF CallRateBounded
  <2>1. ran[t] \in Bucket /\ Spread(ran[t])
    BY DEF RateInv, ToolRate
  <2>2. DOMAIN ran[t] = 1..Len(ran[t])
    BY <2>1, BucketShape
  <2> QED
    BY <2>1, <2>2 DEF Spread
<1> QED
  BY <1>1, RateKept, PTL

----------------------------------------------------------------------------
(* The types. *)

LoopTyped ==
    /\ done \subseteq Steps /\ approvals \subseteq Steps
    /\ attempt \in 0..Plan[cur].retries /\ replans \in 0..MaxReplan /\ fault \in Fault
    /\ pc = "replan" => replans < MaxReplan

RunTyped ==
    /\ mode \in {"agentic", "deterministic"} /\ maxSteps \in StepCaps
    /\ status \in {"absent", "queued", "running", "suspended", "completed", "failed"}
    /\ escalated \in {"none", "pre", "post", "failure"}
    /\ seg \in 0..MaxSegments /\ began \in 0..clock /\ clock \in Nat /\ slots \in Nat

\* The running sums of the rows' tokens, of which the last is what the run has
\* persisted: what usage a row loses when it is overwritten, the sum had.
IsSum(sum) ==
    /\ sum \in [0..Len(rows) -> Nat] /\ sum[0] = 0
    /\ \A n \in 1..Len(rows) : sum[n] = sum[n - 1] + rows[n].tokens
    /\ \A m, n \in 0..Len(rows) : m <= n => sum[m] <= sum[n]

PersistedIsSum == \E sum : IsSum(sum) /\ sum[Len(rows)] = persisted

LEMMA RetriesShape ==
    /\ \A j \in Steps : Plan[j].retries \in Nat
    /\ 1 \in Steps /\ MaxReplan \in Nat
<1>1. Plan \in Seq([call : CallRecord, retries : Nat, onError : Policy])
  BY PlanAssumption
<1>2. \A j \in Steps : Plan[j] \in [call : CallRecord, retries : Nat, onError : Policy]
  BY <1>1, ElementOfSeq DEF Steps
<1> QED
  BY <1>2, PlanShape, BoundsAssumption

LEMMA LeaveTyped == ASSUME NEW st, Leave(st) PROVE LoopTyped'
BY RetriesShape DEF Leave, LoopTyped, Fault

LEMMA RaiseTyped ==
    ASSUME LoopTyped, cur \in Steps, NEW kind \in {"error", "policy", "critique"}, Raise(kind)
    PROVE  LoopTyped'
<1>1. Plan[cur].retries \in Nat /\ MaxReplan \in Nat
  BY RetriesShape
<1>2. CASE LastAttempt
  BY <1>1, <1>2 DEF Raise, LoopTyped, Fault
<1>3. CASE ~LastAttempt
  BY <1>1, <1>3 DEF Raise, LastAttempt, BeginAttempt, LoopTyped, Fault
<1> QED
  BY <1>2, <1>3

LEMMA LoopTypedKept ==
    ASSUME LoopTyped, UNCHANGED loopVars, pc' = "replan" => pc = "replan" \/ replans < MaxReplan
    PROVE  LoopTyped'
BY DEF LoopTyped, loopVars

LEMMA LoopTypedOfNext == ASSUME IInv, LoopTyped, [Next]_vars PROVE LoopTyped'
<1>1. cur \in Steps /\ rows \in Seq(Row)
  BY DEF IInv, Types
<1>2. CASE PlanRun \/ CompleteRun \/ FailBeforeStep
  BY <1>2, LeaveTyped, LoopTypedKept DEF PlanRun, CompleteRun, FailBeforeStep
<1>3. CASE BeginStep
  <2>1. /\ cur' \in Steps /\ attempt' = 0 /\ fault' = "none" /\ replans' = 0 /\ pc' = "ground"
        /\ UNCHANGED <<done, approvals>>
    BY <1>3 DEF BeginStep, BeginAttempt
  <2> QED
    BY <2>1, RetriesShape DEF LoopTyped, Fault
<1>4. CASE Unproposed \/ RefuseTokens
  BY <1>1, <1>4, LeaveTyped, RaiseTyped DEF Unproposed, RefuseTokens, Refuse
<1>5. CASE Propose
  BY <1>5, LeaveTyped, LoopTypedKept DEF Propose, Refuse
<1>6. CASE Verify
  <2>1. ASSUME NEW by, Proceed(by) PROVE LoopTyped'
    BY <2>1, LoopTypedKept DEF Proceed
  <2>2. ASSUME NEW kind, Escalate(kind) PROVE LoopTyped'
    BY <2>2, LeaveTyped DEF Escalate
  <2>3. CASE replans < MaxReplan /\ UNCHANGED loopVars
    BY <2>3, LoopTypedKept
  <2> QED
    BY <1>1, <1>6, <2>1, <2>2, <2>3, RaiseTyped DEF Verify
<1>7. CASE Replan
  <2>1. CASE Raise("critique") \/ Raise("error")
    BY <1>1, <2>1, RaiseTyped
  <2>2. CASE Refuse(rows)
    BY <2>2, LeaveTyped DEF Refuse
  <2>3. CASE replans' = replans + 1 /\ pc' = "ground" /\ UNCHANGED <<done, approvals, cur, attempt, fault>>
    BY <1>7, <2>3, RetriesShape DEF LoopTyped, Replan
  <2> QED
    BY <1>7, <2>1, <2>2, <2>3 DEF Replan
<1>8. CASE Dispatch
  BY <1>8, LoopTypedKept DEF Dispatch
<1>9. CASE ToolReturns
  BY <1>1, <1>9, LeaveTyped, RaiseTyped, LoopTypedKept DEF ToolReturns, Refuse
<1>10. CASE Critique \/ Handle
  <2>1. ASSUME NEW kind, Escalate(kind) PROVE LoopTyped'
    BY <2>1, LeaveTyped DEF Escalate
  <2>2. CASE PassStep
    BY <1>1, <2>2 DEF PassStep, LoopTyped
  <2> QED
    BY <1>1, <1>10, <2>1, <2>2, LeaveTyped, RaiseTyped DEF Critique, Handle
<1>11. CASE Start
  <2>1. \A k \in DOMAIN rows : rows[k].step \in Steps
    BY <1>1, RowShape DEF Row
  <2>2. done' \subseteq Steps /\ approvals' \subseteq Steps
    BY <1>11, <2>1 DEF Start, Approvals, LatestWith
  <2> QED
    BY <1>11, <2>2 DEF Start, LoopTyped
<1>12. CASE Create \/ Answer \/ Retry \/ Tick \/ UNCHANGED vars
  BY <1>12, LoopTypedKept DEF Create, Answer, Retry, Tick, vars
<1> QED
  BY <1>2, <1>3, <1>4, <1>5, <1>6, <1>7, <1>8, <1>9, <1>10, <1>11, <1>12 DEF Next, SegmentStep

LEMMA PriorStepsType == ASSUME rows \in Seq(Row) PROVE PriorSteps \in Nat
<1> DEFINE prior == {k \in DOMAIN rows : rows[k].status \in {"completed", "failed"}}
<1>1. prior \subseteq 1..Len(rows) /\ Len(rows) \in Nat
  BY RowShape
<1>2. IsFiniteSet(prior)
  BY <1>1, FS_Interval, FS_Subset
<1> QED
  BY <1>2, FS_CardinalityType DEF PriorSteps

LEMMA RunTypedOfNext == ASSUME IInv, RunTyped, [Next]_vars PROVE RunTyped'
<1>1. MaxSegments \in Nat /\ rows \in Seq(Row)
  BY BoundsAssumption DEF IInv, Types
<1>2. CASE SegmentStep
  <2>1. /\ UNCHANGED <<mode, maxSteps, seg, clock, began>>
        /\ slots' \in {slots, slots + 1}
        /\ status' \in {status, "failed", "suspended", "completed"}
        /\ escalated' \in {escalated, "pre", "post", "failure"}
    <3>1. CASE PlanRun \/ CompleteRun \/ FailBeforeStep \/ BeginStep
      BY <3>1 DEF PlanRun, CompleteRun, FailBeforeStep, BeginStep, Leave, policyVars
    <3>2. CASE Unproposed \/ Propose \/ RefuseTokens \/ Dispatch
      BY <3>2 DEF Unproposed, Propose, RefuseTokens, Dispatch, Refuse, Raise, Leave, policyVars
    <3>3. CASE Verify
      BY <3>3 DEF Verify, Raise, Escalate, Proceed, Leave
    <3>4. CASE Replan \/ ToolReturns
      BY <3>4 DEF Replan, ToolReturns, Refuse, Raise, Leave
    <3>5. CASE Critique \/ Handle
      BY <3>5 DEF Critique, Handle, Raise, Escalate, PassStep, Leave
    <3> QED
      BY <1>2, <3>1, <3>2, <3>3, <3>4, <3>5 DEF SegmentStep
  <2> QED
    BY <2>1 DEF RunTyped
<1>3. CASE Start
  BY <1>1, <1>3, PriorStepsType DEF Start, RunTyped
<1>4. CASE Create \/ Answer \/ Retry \/ UNCHANGED vars
  BY <1>4 DEF Create, Answer, Retry, Requeue, vars, runVars, policyVars, RunTyped
<1>5. CASE Tick
  BY <1>5 DEF Tick, policyVars, RunTyped
<1> QED
  BY <1>2, <1>3, <1>4, <1>5 DEF Next

TokensSame ==
    /\ Len(rows') = Len(rows) /\ \A k \in 1..Len(rows) : rows'[k].tokens = rows[k].tokens
    /\ UNCHANGED persisted

LEMMA SumKept == ASSUME IInv, PersistedIsSum, TokensSame PROVE PersistedIsSum'
BY DEF PersistedIsSum, IsSum, TokensSame

LEMMA SumOfBegin == ASSUME IInv, IInv', PersistedIsSum, BeginStep PROVE PersistedIsSum'
<1>1. PICK j \in Steps : rows' = Append(rows, NewRow(j))
  BY DEF BeginStep
<1>2. PICK row : row = NewRow(j)
  OBVIOUS
<1> DEFINE L == Len(rows)
           S == Row \cup {row}
<1>3. rows \in Seq(S) /\ row \in S /\ rows' = Append(rows, row) /\ row.tokens = 0
  BY <1>1, <1>2, SeqMonotonic DEF IInv, Types, NewRow
<1> HIDE DEF S
<1>4. /\ L \in Nat /\ Len(rows') = L + 1 /\ rows'[L + 1].tokens = 0
      /\ \A k \in 1..L : rows'[k] = rows[k]
  BY <1>3, AppendProperties, LenProperties
<1> HIDE DEF L
<1>5. PICK sum : IsSum(sum) /\ sum[L] = persisted
  BY DEF PersistedIsSum, L
<1>6. /\ sum \in [0..L -> Nat] /\ sum[0] = 0
      /\ \A n \in 1..L : sum[n] = sum[n - 1] + rows[n].tokens
      /\ \A m, n \in 0..L : m <= n => sum[m] <= sum[n]
  BY <1>5 DEF IsSum, L
<1>7. PICK new : new = [n \in 0..(L + 1) |-> IF n = L + 1 THEN sum[L] ELSE sum[n]]
  OBVIOUS
<1>8. /\ \A n \in 0..L : n \in 0..(L + 1) /\ n # L + 1 /\ new[n] = sum[n]
      /\ new[L + 1] = sum[L] /\ L \in 0..L
  BY <1>4, <1>7
<1>9. new \in [0..(L + 1) -> Nat] /\ new[0] = 0
  BY <1>4, <1>6, <1>7, <1>8
<1>10. \A n \in 1..(L + 1) : new[n] = new[n - 1] + rows'[n].tokens
  <2> SUFFICES ASSUME NEW n \in 1..(L + 1) PROVE new[n] = new[n - 1] + rows'[n].tokens
    OBVIOUS
  <2>1. CASE n = L + 1
    BY <1>4, <1>6, <1>8, <2>1
  <2>2. CASE n # L + 1
    <3>1. n \in 1..L /\ n \in 0..L /\ n - 1 \in 0..L
      BY <1>4, <2>2
    <3> QED
      BY <1>4, <1>6, <1>8, <3>1
  <2> QED
    BY <2>1, <2>2
<1>11. \A m, n \in 0..(L + 1) : m <= n => new[m] <= new[n]
  <2> SUFFICES ASSUME NEW m \in 0..(L + 1), NEW n \in 0..(L + 1), m <= n
               PROVE  new[m] <= new[n]
    OBVIOUS
  <2>1. \A i \in 0..(L + 1) : i = L + 1 \/ i \in 0..L
    BY <1>4
  <2>2. \A i \in 0..L : sum[i] <= sum[L] /\ sum[i] \in Nat
    BY <1>4, <1>6
  <2>3. CASE n \in 0..L
    <3>1. m \in 0..L
      BY <1>4, <2>3
    <3> QED
      BY <1>6, <1>8, <2>3, <3>1
  <2>4. CASE n = L + 1
    BY <1>4, <1>8, <2>1, <2>2, <2>4
  <2> QED
    BY <2>1, <2>3, <2>4
<1>12. IsSum(new)'
  BY <1>4, <1>9, <1>10, <1>11 DEF IsSum
<1>13. new[Len(rows')] = persisted'
  BY <1>4, <1>5, <1>8 DEF BeginStep
<1> QED
  BY <1>12, <1>13 DEF PersistedIsSum

\* sum holds the running sums of was.
RunningSums(L, sum, was) ==
    /\ sum \in [0..L -> Nat] /\ was \in [1..L -> Nat] /\ sum[0] = 0
    /\ \A n \in 1..L : sum[n] = sum[n - 1] + was[n]
    /\ \A m, n \in 0..L : m <= n => sum[m] <= sum[n]

\* They add up to total.
SumsTo(L, sum, was, total) == RunningSums(L, sum, was) /\ sum[L] = total

Replaced(is, was, k, u) == is = [was EXCEPT ![k] = u]

\* The running sums of was become those of is, which differs from it at k only.
LEMMA ChargedSums ==
    ASSUME NEW L \in Nat, NEW k \in 1..L, NEW u \in Nat, NEW sum, NEW was, NEW is,
           RunningSums(L, sum, was), Replaced(is, was, k, u)
    PROVE  \E new : SumsTo(L, new, is, sum[L] - was[k] + u)
<1>0. /\ \A n \in 0..L : sum[n] \in Nat
      /\ \A n \in 1..L : sum[n] = sum[n - 1] + was[n] /\ was[n] \in Nat
      /\ \A m, n \in 0..L : m <= n => sum[m] <= sum[n]
      /\ sum[0] = 0
  BY DEF RunningSums
<1>1. PICK old \in Nat : old = was[k]
  BY <1>0
<1>2. PICK new : new = [n \in 0..L |-> IF n < k THEN sum[n] ELSE sum[n] - old + u]
  OBVIOUS
<1>3. /\ \A n \in 0..L : n < k => new[n] = sum[n]
      /\ \A n \in 0..L : k <= n => new[n] = sum[n] - old + u
  BY <1>2
\* Before k the sums are at least old below the later ones.
<1>4. ASSUME NEW m \in 0..L, NEW n \in 0..L, m < k, k <= n
      PROVE  sum[m] + old <= sum[n]
  <2>1. k - 1 \in 0..L /\ k \in 0..L /\ m <= k - 1
    BY <1>4
  <2>2. PICK a \in Nat, b \in Nat, c \in Nat, d \in Nat :
            a = sum[m] /\ b = sum[k - 1] /\ c = sum[k] /\ d = sum[n]
    BY <1>0, <2>1
  <2>3. a <= b
    BY <1>0, <2>1, <2>2
  <2>4. c <= d
    BY <1>0, <1>4, <2>1, <2>2
  <2>5. c = b + old
    BY <1>0, <1>1, <2>2
  <2>6. a + old <= d
    BY <2>3, <2>4, <2>5
  <2> QED
    BY <2>2, <2>6
<1>5. ASSUME NEW n \in 0..L, k <= n
      PROVE  old <= sum[n] /\ new[n] = sum[n] - old + u
  <2>1. 0 \in 0..L /\ 0 < k
    OBVIOUS
  <2>2. sum[0] + old <= sum[n]
    BY <1>4, <1>5, <2>1
  <2>3. old <= sum[n]
    BY <1>0, <1>1, <2>2
  <2> QED
    BY <1>3, <1>5, <2>3
<1>6. ASSUME NEW n \in 0..L PROVE new[n] \in Nat
  <2>1. PICK a \in Nat : a = sum[n]
    BY <1>0
  <2>2. CASE n < k
    BY <1>3, <2>1, <2>2
  <2>3. CASE k <= n
    <3>1. old <= a /\ new[n] = a - old + u
      BY <1>5, <2>1, <2>3
    <3> QED
      BY <2>1, <3>1
  <2> QED
    BY <2>2, <2>3
<1>7. ASSUME NEW n \in 1..L PROVE new[n] = new[n - 1] + is[n]
  <2>1. n \in 0..L /\ n - 1 \in 0..L
    OBVIOUS
  <2>2. PICK a \in Nat, d \in Nat : a = sum[n - 1] /\ d = was[n]
    BY <1>0, <2>1
  <2>3. sum[n] = a + d
    BY <1>0, <2>2
  <2>4. /\ n # k => is[n] = d
        /\ n = k => is[n] = u /\ d = old
    BY <1>1, <2>2 DEF RunningSums, Replaced
  <2>5. CASE n < k
    <3>1. n - 1 < k /\ n # k
      BY <2>5
    <3>2. new[n] = a + d /\ new[n - 1] = a
      BY <1>3, <2>1, <2>2, <2>3, <2>5, <3>1
    <3> QED
      BY <2>4, <3>1, <3>2
  <2>6. CASE n = k
    <3>1. n - 1 < k /\ k <= n
      BY <2>6
    <3>2. new[n - 1] = a
      BY <1>3, <2>1, <2>2, <3>1
    <3>3. new[n] = (a + d) - old + u
      BY <1>3, <2>1, <2>3, <3>1
    <3>4. is[n] = u /\ d = old
      BY <2>4, <2>6
    <3> QED
      BY <2>2, <3>2, <3>3, <3>4
  <2>7. CASE k < n
    <3>1. k <= n - 1 /\ k <= n /\ n # k
      BY <2>7
    <3>2. new[n - 1] = a - old + u
      BY <1>3, <2>1, <2>2, <3>1
    <3>3. new[n] = (a + d) - old + u
      BY <1>3, <2>1, <2>3, <3>1
    <3>4. is[n] = d
      BY <2>4, <3>1
    <3>5. (a + d) - old + u = (a - old + u) + d
      BY <1>1, <2>2
    <3> QED
      BY <3>2, <3>3, <3>4, <3>5
  <2> QED
    BY <2>5, <2>6, <2>7
<1>8. ASSUME NEW m \in 0..L, NEW n \in 0..L, m <= n PROVE new[m] <= new[n]
  <2>1. PICK a \in Nat, b \in Nat : a = sum[m] /\ b = sum[n]
    BY <1>0
  <2>2. a <= b
    BY <1>0, <1>8, <2>1
  <2>3. CASE n < k
    <3>1. m < k
      BY <1>8, <2>3
    <3>2. new[m] = a /\ new[n] = b
      BY <1>3, <2>1, <2>3, <3>1
    <3> QED
      BY <2>2, <3>2
  <2>4. CASE m < k /\ k <= n
    <3>1. new[m] = a
      BY <1>3, <2>1, <2>4
    <3>2. new[n] = b - old + u
      BY <1>3, <2>1, <2>4
    <3>3. a + old <= b
      BY <1>4, <2>1, <2>4
    <3>4. a <= b - old + u
      BY <2>1, <3>3
    <3> QED
      BY <3>1, <3>2, <3>4
  <2>5. CASE k <= m
    <3>1. k <= n
      BY <1>8, <2>5
    <3>2. new[m] = a - old + u
      BY <1>3, <2>1, <2>5
    <3>3. new[n] = b - old + u
      BY <1>3, <2>1, <3>1
    <3>4. a - old + u <= b - old + u
      BY <2>2
    <3> QED
      BY <3>2, <3>3, <3>4
  <2> QED
    BY <2>3, <2>4, <2>5
<1>9. new \in [0..L -> Nat] /\ new[0] = 0
  <2>1. 0 \in 0..L /\ 0 < k
    OBVIOUS
  <2>2. new = [n \in 0..L |-> new[n]]
    BY <1>2
  <2>3. new[0] = 0
    BY <1>0, <1>3, <2>1
  <2> QED
    BY <1>6, <2>2, <2>3
<1>10. is \in [1..L -> Nat]
  BY DEF RunningSums, Replaced
<1>11. RunningSums(L, new, is)
  BY <1>7, <1>8, <1>9, <1>10 DEF RunningSums
<1>12. new[L] = sum[L] - was[k] + u
  <2>1. L \in 0..L /\ k <= L
    OBVIOUS
  <2> QED
    BY <1>1, <1>3, <2>1
<1> QED
  BY <1>11, <1>12 DEF SumsTo

\* Usage of row k is overwritten.
LEMMA SumOfCharge ==
    ASSUME IInv, PersistedIsSum, NEW k \in 1..Len(rows), NEW u \in Nat,
           Len(rows') = Len(rows), rows'[k].tokens = u,
           \A m \in 1..Len(rows) : m # k => rows'[m].tokens = rows[m].tokens,
           persisted' = persisted - rows[k].tokens + u
    PROVE  PersistedIsSum'
<1>1. /\ Len(rows) \in Nat
      /\ \A n \in 1..Len(rows) : rows[n].tokens \in Nat
  BY RowShape DEF IInv, Types, Row
<1>2. PICK L \in Nat : L = Len(rows)
  BY <1>1
<1>3. PICK was : was = [n \in 1..L |-> rows[n].tokens]
  OBVIOUS
<1>4. PICK is : Replaced(is, was, k, u)
  BY DEF Replaced
<1>5. PICK sum : IsSum(sum) /\ sum[L] = persisted
  BY <1>2 DEF PersistedIsSum
<1>6. RunningSums(L, sum, was)
  BY <1>1, <1>2, <1>3, <1>5 DEF RunningSums, IsSum
<1>7. k \in 1..L
  BY <1>2
<1>8. PICK new : SumsTo(L, new, is, sum[L] - was[k] + u)
  BY <1>2, <1>4, <1>6, <1>7, ChargedSums
<1>9. Len(rows') = L /\ \A n \in 1..L : is[n] = rows'[n].tokens
  BY <1>2, <1>3, <1>4, <1>7 DEF Replaced
<1>10. IsSum(new)'
  BY <1>8, <1>9 DEF IsSum, RunningSums, SumsTo
<1>11. new[L] = persisted'
  BY <1>3, <1>5, <1>7, <1>8 DEF SumsTo
<1> QED
  BY <1>9, <1>10, <1>11 DEF PersistedIsSum

LEMMA SameLength == ASSUME NEW m \in Nat, NEW n \in Nat, 1..m = 1..n PROVE m = n
<1>1. m > n => m \in 1..m /\ m \notin 1..n
  OBVIOUS
<1>2. n > m => n \in 1..n /\ n \notin 1..m
  OBVIOUS
<1> QED
  BY <1>1, <1>2

\* The rewrites of the last row that the actions make keep its usage.
LEMMA RewrittenSame ==
    ASSUME IInv, IInv', NEW row, rows' = [rows EXCEPT ![Len(rows)] = row],
           rows # << >> => row.tokens = rows[Len(rows)].tokens, UNCHANGED persisted
    PROVE  TokensSame
<1>1. DOMAIN rows = 1..Len(rows) /\ Len(rows) \in Nat /\ (rows = << >> => Len(rows) = 0)
  BY RowShape, EmptySeq DEF IInv, Types
<1>2. DOMAIN rows' = 1..Len(rows') /\ Len(rows') \in Nat
  BY RowShape, LenProperties DEF IInv, Types
<1>3. DOMAIN rows' = DOMAIN rows
  OBVIOUS
<1>4. Len(rows') = Len(rows)
  BY <1>1, <1>2, <1>3
<1>5. ASSUME NEW k \in 1..Len(rows) PROVE rows'[k].tokens = rows[k].tokens
  <2>1. k \in DOMAIN rows /\ rows # << >>
    BY <1>1
  <2>2. CASE k = Len(rows)
    BY <2>1, <2>2
  <2>3. CASE k # Len(rows)
    BY <2>1, <2>3
  <2> QED
    BY <2>2, <2>3
<1> QED
  BY <1>4, <1>5 DEF TokensSame

LEMMA EndedSame ==
    ASSUME IInv, IInv', NEW st, NEW res, rows' = Ended(rows, st, res), pc \in InStep, UNCHANGED persisted
    PROVE  TokensSame
<1>1. PICK row : row = [rows[Len(rows)] EXCEPT !.status = st, !.result = res]
  OBVIOUS
<1>2. rows # << >> /\ rows[Len(rows)] \in Row
  BY RowShape DEF IInv, Types, Current
<1>3. row.tokens = rows[Len(rows)].tokens
  BY <1>1, <1>2 DEF Row
<1>4. rows' = [rows EXCEPT ![Len(rows)] = row]
  BY <1>1 DEF Ended, CurrentRow
<1> QED
  BY <1>3, <1>4, RewrittenSame

LEMMA NothingRewritten == ASSUME UNCHANGED <<rows, persisted>> PROVE TokensSame
BY DEF TokensSame

LEMMA RaiseSame ==
    ASSUME IInv, IInv', pc \in InStep, NEW kind, Raise(kind), UNCHANGED persisted
    PROVE  TokensSame
BY EndedSame, NothingRewritten DEF Raise

LEMMA RefuseSame ==
    ASSUME IInv, IInv', pc \in InStep, Refuse(rows), UNCHANGED persisted
    PROVE  TokensSame
BY EndedSame DEF Refuse

LEMMA EscalateSame ==
    ASSUME IInv, IInv', pc \in InStep, NEW kind, Escalate(kind), UNCHANGED persisted
    PROVE  TokensSame
BY EndedSame DEF Escalate

LEMMA SumOfRunning ==
    ASSUME IInv, IInv', PersistedIsSum,
           \/ PlanRun \/ CompleteRun \/ FailBeforeStep \/ Unproposed \/ Propose \/ Verify
           \/ Replan \/ RefuseTokens \/ Dispatch \/ Critique \/ Handle
    PROVE  PersistedIsSum'
<1>1. CASE PlanRun \/ CompleteRun \/ FailBeforeStep \/ Handle
  BY <1>1, NothingRewritten, SumKept DEF PlanRun, CompleteRun, FailBeforeStep, Handle
<1>2. CASE Unproposed \/ RefuseTokens
  <2>1. pc \in InStep /\ UNCHANGED persisted
    BY <1>2 DEF Unproposed, RefuseTokens, InStep
  <2>2. Refuse(rows) \/ Raise("error") \/ Raise("policy")
    BY <1>2 DEF Unproposed, RefuseTokens
  <2> QED
    BY <2>1, <2>2, RaiseSame, RefuseSame, SumKept
<1>3. CASE Propose \/ Replan
  <2>1. pc \in InStep /\ UNCHANGED persisted
    BY <1>3 DEF Propose, Replan, InStep
  <2>2. Refuse(rows) \/ Raise("error") \/ Raise("critique") \/ UNCHANGED rows
    BY <1>3 DEF Propose, Replan
  <2> QED
    BY <2>1, <2>2, RaiseSame, RefuseSame, NothingRewritten, SumKept
<1>4. CASE Verify
  <2>1. pc \in InStep /\ UNCHANGED persisted
    BY <1>4 DEF Verify, InStep
  <2>2. \/ Raise("error") \/ Raise("critique") \/ Escalate("pre") \/ UNCHANGED rows
        \/ \E by : Proceed(by)
    BY <1>4 DEF Verify
  <2>3. ASSUME NEW by, Proceed(by) PROVE TokensSame
    <3>1. PICK row : row = [rows[Len(rows)] EXCEPT !.by = by, !.as = call.step]
      OBVIOUS
    <3>2. rows # << >> /\ rows[Len(rows)] \in Row
      BY <2>1, RowShape DEF IInv, Types, Current
    <3>3. row.tokens = rows[Len(rows)].tokens
      BY <3>1, <3>2 DEF Row
    <3>4. rows' = [rows EXCEPT ![Len(rows)] = row]
      BY <2>3, <3>1 DEF Proceed, CurrentRow
    <3> QED
      BY <2>1, <3>3, <3>4, RewrittenSame
  <2> QED
    BY <2>1, <2>2, <2>3, RaiseSame, EscalateSame, NothingRewritten, SumKept
<1>5. CASE Dispatch
  <2>1. pc \in InStep /\ UNCHANGED persisted
    BY <1>5 DEF Dispatch, InStep
  <2>2. PICK sent : rows' = [rows EXCEPT ![CurrentRow] =
                       [@ EXCEPT !.sent = sent, !.tool = call.tool, !.path = call.allowed]]
    BY <1>5 DEF Dispatch
  <2>3. PICK row : row = [rows[Len(rows)] EXCEPT !.sent = sent, !.tool = call.tool,
                                                 !.path = call.allowed]
    OBVIOUS
  <2>4. rows # << >> /\ rows[Len(rows)] \in Row
    BY <2>1, RowShape DEF IInv, Types, Current
  <2>5. row.tokens = rows[Len(rows)].tokens
    BY <2>3, <2>4 DEF Row
  <2>6. rows' = [rows EXCEPT ![Len(rows)] = row]
    BY <2>2, <2>3 DEF CurrentRow
  <2> QED
    BY <2>1, <2>5, <2>6, RewrittenSame, SumKept
<1>6. CASE Critique
  <2>1. pc \in InStep /\ UNCHANGED persisted
    BY <1>6 DEF Critique, InStep
  <2>2. \/ Raise("error") \/ Raise("critique") \/ Escalate("post")
        \/ \E o : rows' = [Ended(rows, "completed", "data") EXCEPT ![CurrentRow].out = o]
    BY <1>6 DEF Critique
  <2>3. ASSUME NEW o, rows' = [Ended(rows, "completed", "data") EXCEPT ![CurrentRow].out = o]
        PROVE  TokensSame
    <3>1. rows # << >> /\ rows[Len(rows)] \in Row /\ Len(rows) \in DOMAIN rows
      BY <2>1, RowShape DEF IInv, Types, Current
    <3>2. PICK row : row = [rows[Len(rows)] EXCEPT !.status = "completed", !.result = "data", !.out = o]
      OBVIOUS
    <3>3. row.tokens = rows[Len(rows)].tokens
      BY <3>1, <3>2 DEF Row
    <3>4. rows' = [rows EXCEPT ![Len(rows)] = row]
      BY <2>3, <3>1, <3>2 DEF Ended, CurrentRow
    <3> QED
      BY <2>1, <3>3, <3>4, RewrittenSame
  <2> QED
    BY <2>1, <2>2, <2>3, RaiseSame, EscalateSame, SumKept
<1> QED
  BY <1>1, <1>2, <1>3, <1>4, <1>5, <1>6

LEMMA SumOfToolReturns == ASSUME IInv, IInv', PersistedIsSum, ToolReturns PROVE PersistedIsSum'
<1>1. pc \in InStep /\ RowsPart /\ AtStep
  BY RowsPartOf DEF ToolReturns, InStep
<1>2. CASE Raise("error") /\ UNCHANGED persisted
  BY <1>1, <1>2, RaiseSame, SumKept
<1>3. ASSUME NEW u \in 0..MaxToolCost, NEW k \in RowsOf(call.step),
             persisted' = IF u = 0 THEN persisted ELSE persisted - rows[k].tokens + u,
             Refuse(Charged(k, u)) \/ rows' = Charged(k, u)
      PROVE  PersistedIsSum'
  <2>1. /\ DOMAIN rows = 1..Len(rows) /\ Len(rows) \in DOMAIN rows /\ Len(rows) \in Nat
        /\ k \in DOMAIN rows /\ u \in Nat /\ rows # << >>
    BY <1>1, RowShape, OvershootShape DEF RowsPart, AtStep, RowsOf
  <2>2. PICK new : new = Charged(k, u)
    OBVIOUS
  <2>3. new \in Seq(Row) /\ Len(new) = Len(rows) /\ DOMAIN new = DOMAIN rows
    BY <1>1, <2>1, <2>2, ChargedShape, LenProperties
  <2>4. \A m \in DOMAIN rows : new[m].tokens = IF m = k /\ u # 0 THEN u ELSE rows[m].tokens
    <3>1. CASE u = 0
      BY <2>2, <3>1 DEF Charged
    <3>2. CASE u # 0
      <4>1. \A m \in DOMAIN rows : rows[m] \in Row
        BY <1>1, RowShape DEF RowsPart
      <4>2. PICK row : row = [rows[k] EXCEPT !.tokens = u]
        OBVIOUS
      <4>3. new = [rows EXCEPT ![k] = row]
        BY <2>2, <3>2, <4>2 DEF Charged
      <4>4. row.tokens = u
        BY <2>1, <4>1, <4>2 DEF Row
      <4> QED
        BY <2>1, <3>2, <4>3, <4>4
    <3> QED
      BY <3>1, <3>2
  <2>5. Len(rows') = Len(rows) /\ \A m \in 1..Len(rows) : rows'[m].tokens = new[m].tokens
    <3>1. CASE rows' = new
      BY <2>3, <3>1
    <3>2. CASE Refuse(new)
      <4>1. PICK row : row = [new[Len(rows)] EXCEPT !.status = "failed", !.result = "refused"]
        OBVIOUS
      <4>2. rows' = [new EXCEPT ![Len(rows)] = row]
        BY <3>2, <4>1 DEF Refuse, Ended, CurrentRow
      <4>3. new[Len(rows)] \in Row
        BY <2>1, <2>3, RowShape, ElementOfSeq
      <4>4. row.tokens = new[Len(rows)].tokens
        BY <4>1, <4>3 DEF Row
      <4>5. DOMAIN rows' = 1..Len(rows') /\ Len(rows') \in Nat /\ DOMAIN rows' = DOMAIN new
        BY <4>2, RowShape, LenProperties DEF IInv, Types
      <4>6. Len(rows') = Len(rows)
        BY <2>1, <2>3, <4>5, SameLength
      <4>7. ASSUME NEW m \in 1..Len(rows) PROVE rows'[m].tokens = new[m].tokens
        <5>1. m \in DOMAIN new
          BY <2>1, <2>3
        <5>2. CASE m = Len(rows)
          BY <4>2, <4>4, <5>1, <5>2
        <5>3. CASE m # Len(rows)
          BY <4>2, <5>1, <5>3
        <5> QED
          BY <5>2, <5>3
      <4> QED
        BY <4>6, <4>7
    <3> QED
      BY <1>3, <2>2, <3>1, <3>2
  <2>6. CASE u = 0
    <3>1. TokensSame
      BY <1>3, <2>1, <2>4, <2>5, <2>6 DEF TokensSame
    <3> QED
      BY <3>1, SumKept
  <2>7. CASE u # 0
    <3>1. rows'[k].tokens = u /\ k \in 1..Len(rows)
      BY <2>1, <2>4, <2>5, <2>7
    <3>2. \A m \in 1..Len(rows) : m # k => rows'[m].tokens = rows[m].tokens
      BY <2>1, <2>4, <2>5
    <3>3. persisted' = persisted - rows[k].tokens + u
      BY <1>3, <2>7
    <3> QED
      BY <2>1, <2>5, <3>1, <3>2, <3>3, SumOfCharge
  <2> QED
    BY <2>6, <2>7
<1> QED
  BY <1>2, <1>3 DEF ToolReturns

LEMMA SumOfAnswer == ASSUME IInv, IInv', PersistedIsSum, Answer PROVE PersistedIsSum'
<1>1. PICK approved \in BOOLEAN : rows' = Answered(rows, approved) /\ UNCHANGED persisted
  BY DEF Answer
<1>2. /\ DOMAIN rows = 1..Len(rows) /\ Len(rows) \in Nat /\ DOMAIN rows' = 1..Len(rows')
      /\ Len(rows') \in Nat /\ \A k \in DOMAIN rows : rows[k] \in Row
  BY RowShape, LenProperties DEF IInv, Types
<1>3. Len(rows') = Len(rows)
  <2>1. DOMAIN rows' = DOMAIN rows
    BY <1>1 DEF Answered
  <2> QED
    BY <1>2, <2>1, SameLength
<1>4. ASSUME NEW k \in DOMAIN rows PROVE rows'[k].tokens = rows[k].tokens
  <2>1. PICK row : row = rows[k]
    OBVIOUS
  <2>2. row \in Row
    BY <1>2, <2>1
  <2>3. \/ rows'[k] = row
        \/ rows'[k] = [row EXCEPT !.status = "failed", !.result = "rejected"]
        \/ rows'[k] = [row EXCEPT !.status = "failed", !.result = "approval"]
        \/ rows'[k] = [row EXCEPT !.status = "completed", !.result = "answer"]
    BY <1>1, <2>1 DEF Answered
  <2> QED
    BY <2>1, <2>2, <2>3 DEF Row
<1> QED
  BY <1>1, <1>2, <1>3, <1>4, SumKept DEF TokensSame

LEMMA SumOfNext == ASSUME IInv, IInv', PersistedIsSum, [Next]_vars PROVE PersistedIsSum'
<1>1. CASE Create \/ Start \/ Retry \/ Tick \/ UNCHANGED vars
  BY <1>1, NothingRewritten, SumKept DEF Create, Start, Retry, Tick, vars, runVars
<1> QED
  BY <1>1, SumOfRunning, SumOfBegin, SumOfToolReturns, SumOfAnswer DEF Next, SegmentStep

TypedInv == LoopTyped /\ RunTyped /\ PersistedIsSum

LEMMA TypedOfInit == Init => TypedInv
<1> SUFFICES ASSUME Init PROVE TypedInv
  OBVIOUS
<1>1. LoopTyped
  BY RetriesShape DEF Init, LoopTyped, Fault
<1>2. RunTyped
  BY BoundsAssumption DEF Init, RunTyped
<1>3. PersistedIsSum
  <2>1. Len(rows) = 0 /\ persisted = 0
    BY DEF Init
  <2>2. PICK sum : sum = [n \in 0..0 |-> 0]
    OBVIOUS
  <2>3. sum \in [0..0 -> Nat] /\ sum[0] = 0 /\ \A n \in 0..0 : sum[n] = 0
    BY <2>2
  <2>4. IsSum(sum)
    BY <2>1, <2>3 DEF IsSum
  <2> QED
    BY <2>1, <2>3, <2>4 DEF PersistedIsSum
<1> QED
  BY <1>1, <1>2, <1>3 DEF TypedInv

LEMMA TypedKept == Spec => [](IInv /\ TypedInv)
<1>1. Init => IInv /\ TypedInv
  BY InitInv, TypedOfInit
<1>2. IInv /\ TypedInv /\ [Next]_vars => (IInv /\ TypedInv)'
  BY NextInv, LoopTypedOfNext, RunTypedOfNext, SumOfNext DEF TypedInv
<1> QED
  BY <1>1, <1>2, PTL DEF Spec

\* Every variable keeps its type, attempts and replans stay within their bounds,
\* and the tokens persisted with the rows are never less than nothing, whichever
\* row a later attempt overwrites.
THEOREM TypesHold == Spec => []TypeOK
<1>1. IInv /\ RateInv /\ TypedInv => TypeOK
  <2> SUFFICES ASSUME IInv, RateInv, TypedInv PROVE TypeOK
    OBVIOUS
  <2>1. /\ rows \in Seq(Row) /\ used \in Nat /\ vault \in Vaults
        /\ cur \in Steps /\ call \in CallRecord /\ pc \in PC
    BY DEF IInv, Types
  <2>2. persisted \in Nat
    <3>1. PICK sum : IsSum(sum) /\ sum[Len(rows)] = persisted
      BY DEF TypedInv, PersistedIsSum
    <3>2. Len(rows) \in 0..Len(rows)
      BY <2>1, RowShape
    <3> QED
      BY <3>1, <3>2 DEF IsSum
  <2>3. /\ minute \in [Tools -> Bucket] /\ hour \in Bucket /\ ran \in [Tools -> Bucket]
        /\ clock \in 0..MaxClock
    BY DEF RateInv
  <2> QED
    BY <2>1, <2>2, <2>3 DEF TypeOK, TypedInv, LoopTyped, RunTyped
<1> QED
  BY <1>1, RateKept, TypedKept, PTL
=============================================================================
