-------------------------------- MODULE Flows -------------------------------
(***************************************************************************)
(* From the document an operator sends to the steps that are grounded:     *)
(* the compiler (compiler/dsl.py, compiler/template_validator.py), the     *)
(* linter (linter/), the flows and credentials tables behind their         *)
(* services, and what a run makes of the stored definition (the guards,    *)
(* conditions and templates that engine/executor.py and                    *)
(* agents/executor.py evaluate).                                           *)
(*                                                                         *)
(* The compiled artifact is thrown away: a segment of a run reads the      *)
(* stored document as it stands then.  So the gates in front of the table  *)
(* are all there is, and an update meets runs that began before it.        *)
(***************************************************************************)
EXTENDS Conditions

CONSTANTS
    StepIds, Fields, Secrets, Names, FlowIds,
    Registry,       \* tools of the running process
    Catalog,        \* those of the default registry, which the compiler knows
    Tools,          \* names a document may use
    Drafts,         \* bound: the documents that may be sent first, second, ...,
                    \* each with what the consistency critic answers
    Payloads,       \* bound: what a run may be created with
    Results,        \* bound: what a step may return
    NoFlow, NoRun

\* A reference of a template or condition.  spaced: $step( 'x' ), which the
\* linter and the condition grammar read and the templates do not.
Ref == [to : {"form"}, name : Fields, spaced : {FALSE}]
       \cup [to : {"step"}, name : StepIds, spaced : BOOLEAN]
       \cup [to : {"secret"}, name : Secrets, spaced : {FALSE}]

Codes == {"UNKNOWN_FORM_FIELD", "UNKNOWN_STEP", "FORWARD_STEP", "COUNT_MISMATCH",
          "UNKNOWN_KEY", "MISSING_REQUIRED", "TYPE_MISMATCH", "CONDITION_PARSE_ERROR",
          "CONDITION_ARITHMETIC", "CONDITION_UNKNOWN_VAR", "LINT_IGNORE_UNKNOWN_CODE", "LLM_ERROR", "LLM_AMBIGUITY"}

\* What the params of a step are for its tool's schema: as it wants them, without a
\* required key, with a literal that is not in an enum, with a list, an object or
\* an unclosed {{ where the enum is, with a key the schema does not have.
Params == {"fit", "missing", "unfit", "opaque", "extra"}

\* Bounds of a list, as the set of the number that is given.
Bounds == [min : SUBSET (0..2), max : SUBSET (0..2)]

\* "artifact" is artifact.store and artifact.retrieve, whose tool is in every
\* registry; "approval" is webhook.wait too.  refs are the references in the
\* params, each a value of its own; if and when are conditions, << >> for a blank
\* `if` and for no guard; raw says that the `if` is a literal of YAML, not a
\* string; prose and expect the sizes of the list that an AI step's instruction
\* and schema speak of; ignore is its lint_ignore.
StepDoc(s) ==
    /\ s.id \in StepIds /\ s.kind \in {"tool", "artifact", "ai", "condition", "approval"}
    /\ s.tool \in Tools /\ s.params \in Params /\ s.refs \subseteq Ref
    /\ s.kind = "tool" \/ s.tool \in Registry
    /\ s.kind \in {"tool", "artifact"} \/ s.params = "fit"
    /\ s.if \in Seq(Token(Ref)) /\ s.when \in Seq(Token(Ref)) /\ s.raw \in BOOLEAN
    /\ s.raw => Len(s.if) = 1 /\ s.if[1].k = "LIT" /\ s.if[1].v.t # "text"
    /\ s.prose \in Bounds /\ s.expect \in Bounds
    /\ s.ignore \subseteq Codes \cup {"bogus"}

PolicyKeys == {"budget_usd", "max_tokens", "max_steps", "max_time_seconds", "allow",
               "tokenize_model_inputs", "exceptions", "rate_limits", "max_replan_attempts"}

\* policies are the keys that are given in that section, with their values.
Document(d) ==
    /\ d.name \in Names /\ d.fields \subseteq Fields /\ d.uses \subseteq Secrets
    /\ d.steps \in Seq({d.steps[j] : j \in DOMAIN d.steps})
    /\ \A j \in DOMAIN d.steps : StepDoc(d.steps[j])
    /\ DOMAIN d.policies \subseteq PolicyKeys /\ \A k \in DOMAIN d.policies : d.policies[k] \in {0, 1}

\* An answer of the consistency critic: findings with codes of its own, about a
\* step or none and a leaf or none.  No answer (LLMTransportError) is no finding.
LlmFinding == [code : {"LLM_ERROR", "LLM_AMBIGUITY"}, step : StepIds \cup {"none"},
               leaf : {"key", "list", "if", "when", "none"}, source : {"llm"}]

ASSUME DraftsAssumption ==
    /\ Catalog \subseteq Registry /\ Registry \subseteq Tools
    /\ Drafts \in Seq({Drafts[n] : n \in DOMAIN Drafts})
    /\ \A n \in DOMAIN Drafts : \A x \in Drafts[n] :
          x # NoFlow /\ Document(x.doc) /\ x.said \subseteq LlmFinding
    /\ \A p \in Payloads : DOMAIN p \subseteq Fields /\ \A x \in DOMAIN p : p[x] \in Value
    /\ Results \subseteq Value /\ Raises \notin Value

VARIABLES
    flows,      \* the flows table: the stored document of each row, or NoFlow
    secrets,    \* the credentials table: those that resolve as a secret
    run,        \* one run, or NoRun
    sent        \* documents stored so far

vars == <<flows, secrets, run, sent>>

----------------------------------------------------------------------------
(* compile_dsl *)

RefsTo(s, to) == {r \in s.refs : r.to = to}

CondRefs(ts) == {ts[p].ref : p \in {q \in DOMAIN ts : ts[q].k = "REF"}}

Ids(d) == {d.steps[j].id : j \in DOMAIN d.steps}

\* _validate_and_normalize_steps and validate_templates.  The template validator
\* knows which steps there are, not in which order; conditions, which have no
\* braces, it does not read, and a blank `if` is an `if`.
Compiles(d) ==
    /\ d.steps # << >> /\ Cardinality(Ids(d)) = Len(d.steps)
    /\ \A j \in DOMAIN d.steps : LET s == d.steps[j] IN
          /\ s.kind = "tool" /\ s.tool \in Catalog => s.params # "missing"
          /\ \A r \in RefsTo(s, "step") : r.spaced \/ r.name \in Ids(d)
          /\ \A r \in RefsTo(s, "secret") : d.uses = {} \/ r.name \in d.uses

\* _validate_tool_references
ToolsKnown(d) == \A j \in DOMAIN d.steps : d.steps[j].kind = "tool" => d.steps[j].tool \in Registry

\* Mutant of Compiled: the key is not carried over.
CompiledWithoutTokenize(p) ==
    [k \in {"budget_usd", "allow", "rate_limits", "max_replan_attempts"}
           \cup (DOMAIN p \ {"tokenize_model_inputs"}) |->
        IF k \in DOMAIN p THEN p[k] ELSE IF k \in {"allow", "rate_limits"} THEN 0 ELSE 1]

\* _compile_policies: some keys are always there, the others when they are given.
\* 1 stands for the default of a limit, 0 for the zero an author may give it.
Compiled(p) ==
    [k \in {"budget_usd", "allow", "tokenize_model_inputs", "rate_limits", "max_replan_attempts"}
           \cup DOMAIN p |->
        IF k \in DOMAIN p THEN p[k] ELSE IF k \in {"allow", "rate_limits"} THEN 0 ELSE 1]

\* initialize_from_dsl: the settings of the policy engine, "is not None" and not
\* truth deciding whether a limit is given.
Enforced(p) ==
    [k \in PolicyKeys |->
        IF k \in DOMAIN p THEN p[k]
        ELSE IF k \in {"allow", "exceptions", "rate_limits"} THEN 0 ELSE 1]

----------------------------------------------------------------------------
(* lint_flow *)

Finding(code, s, leaf, source) == [code |-> code, step |-> s.id, leaf |-> leaf, source |-> source]

Deterministic(code, s, leaf) == Finding(code, s, leaf, "deterministic")

\* Mutant of PriorIds: a step is in its own scope.
PriorOrSelf(d, j) == {d.steps[i].id : i \in 1..j}

\* The steps before step j, whatever their guards.
PriorIds(d, j) == {d.steps[i].id : i \in 1..(j - 1)}

OutOfScope(d, j, r) ==
    \/ r.to = "form" /\ r.name \notin d.fields
    \/ r.to = "step" /\ r.name \notin PriorIds(d, j)

\* TemplateRefsRule, which names no field.
TemplateFindings(d, j) ==
    {Deterministic(
        CASE r.to = "form" -> "UNKNOWN_FORM_FIELD"
          [] r.to = "step" /\ r.name \in Ids(d) -> "FORWARD_STEP"
          [] r.to = "step" /\ r.name \notin Ids(d) -> "UNKNOWN_STEP", d.steps[j], "none")
     : r \in {x \in d.steps[j].refs : OutOfScope(d, j, x)}}

\* Mutant of Contradicts: an upper bound the schema leaves out goes unnoticed.
ContradictsGiven(prose, expect) ==
    \/ \E n \in prose.min : expect.min = {} \/ \E m \in expect.min : m < n
    \/ \E n \in prose.max : \E m \in expect.max : m > n
    \/ \E n \in prose.max, m \in expect.min : m > n
    \/ \E n \in prose.min, m \in expect.max : m < n

\* AiProseSchemaRule._contradictions
Contradicts(prose, expect) ==
    \/ \E n \in prose.min : expect.min = {} \/ \E m \in expect.min : m < n
    \/ \E n \in prose.max : expect.max = {} \/ \E m \in expect.max : m > n
    \/ \E n \in prose.max, m \in expect.min : m > n
    \/ \E n \in prose.min, m \in expect.max : m < n

ProseFindings(s) ==
    IF s.kind = "ai" /\ Contradicts(s.prose, s.expect)
    THEN {Deterministic("COUNT_MISMATCH", s, "list")}
    ELSE {}

\* Mutant of ParamFindings: on the tools the compiler knows.
ParamFindingsOfCatalog(s) ==
    LET code == [missing |-> "MISSING_REQUIRED", unfit |-> "TYPE_MISMATCH", extra |-> "UNKNOWN_KEY"] IN
    IF s.kind = "tool" /\ s.tool \in Catalog /\ s.params \in DOMAIN code
    THEN {Deterministic(code[s.params], s, "key")}
    ELSE {}

\* ToolParamsRule, on the tools of the running process, the tool.call steps and
\* the literals that are scalars.
ParamFindings(s) ==
    LET code == [missing |-> "MISSING_REQUIRED", unfit |-> "TYPE_MISMATCH", extra |-> "UNKNOWN_KEY"] IN
    IF s.kind = "tool" /\ s.tool \in Registry /\ s.params \in DOMAIN code
    THEN {Deterministic(code[s.params], s, "key")}
    ELSE {}

\* How a condition that does not parse is reported, and overridden.
MalformedCode(ts) ==
    IF \E p \in DOMAIN ts : ts[p].k = "ARITH" THEN "CONDITION_ARITHMETIC" ELSE "CONDITION_PARSE_ERROR"

\* ConditionsRule on one field: an error that stops the parser hides the rest.  An
\* `if` that is no string is not looked at: nothing would be found in a literal.
ConditionFindings(d, j, leaf, ts) ==
    IF ts = << >> THEN {}
    ELSE IF ~Parses(ts) THEN {Deterministic(MalformedCode(ts), d.steps[j], leaf)}
    ELSE {Deterministic("CONDITION_UNKNOWN_VAR", d.steps[j], leaf)
          : r \in {x \in CondRefs(ts) : OutOfScope(d, j, x)}}

IgnoreFindings(s) ==
    {Deterministic("LINT_IGNORE_UNKNOWN_CODE", s, "lint_ignore") : c \in s.ignore \ Codes}

\* Mutant of StepFindings: the guard is not looked at.
StepFindingsUnguarded(d, j) ==
    LET s == d.steps[j] IN
    TemplateFindings(d, j) \cup ProseFindings(s) \cup ParamFindings(s) \cup IgnoreFindings(s)
    \cup ConditionFindings(d, j, "if", s.if)

StepFindings(d, j) ==
    LET s == d.steps[j] IN
    TemplateFindings(d, j) \cup ProseFindings(s) \cup ParamFindings(s) \cup IgnoreFindings(s)
    \cup ConditionFindings(d, j, "if", s.if) \cup ConditionFindings(d, j, "when", s.when)

Findings(d) == UNION {StepFindings(d, j) : j \in DOMAIN d.steps}

\* Mutant of Kept: the steps are not compared.
KeptByLeaf(d, said) ==
    {f \in said : ~\E g \in Findings(d) : g.leaf = f.leaf \/ (f.leaf = "none" /\ g.step = f.step)}

\* _dedup_llm: not what restates a finding of the rules, at its leaf or vaguely.
Kept(d, said) ==
    {f \in said : ~\E g \in Findings(d) : g.step = f.step /\ f.leaf \in {g.leaf, "none"}}

\* Mutant of Suppressed: every code can be suppressed.
SuppressedAny(d, f) ==
    \E j \in DOMAIN d.steps : d.steps[j].id = f.step /\ f.code \in d.steps[j].ignore

\* _apply_suppressions
Suppressed(d, f) ==
    /\ f.code # "LINT_IGNORE_UNKNOWN_CODE"
    /\ \E j \in DOMAIN d.steps : d.steps[j].id = f.step /\ f.code \in d.steps[j].ignore

\* LintReport.blocking; only ambiguity is a warning.
Blocking(d, said) ==
    {f \in Findings(d) \cup Kept(d, said) : f.code # "LLM_AMBIGUITY" /\ ~Suppressed(d, f)}

Accepted(d, said) == Compiles(d) /\ ToolsKnown(d) /\ Blocking(d, said) = {}

\* What passes of what may be sent now.
Acceptable == {x \in Drafts[sent + 1] : Accepted(x.doc, x.said)}

----------------------------------------------------------------------------
Init ==
    /\ flows = [f \in FlowIds |-> NoFlow]
    /\ secrets = {}
    /\ run = NoRun /\ sent = 0

Stored(f) == flows[f] # NoFlow

Row(name) == {f \in FlowIds : Stored(f) /\ flows[f].doc.name = name}

\* Mutant of RowFor: the name is not looked up.
FreeRow(name) == {f \in FlowIds : ~Stored(f)}

\* register: the row with the name, else a new one.
RowFor(name) == IF Row(name) # {} THEN Row(name) ELSE {f \in FlowIds : ~Stored(f)}

Register ==
    /\ sent < Len(Drafts) /\ sent' = sent + 1
    /\ \E x \in Acceptable : \E f \in RowFor(x.doc.name) :
          flows' = [flows EXCEPT ![f] = x]
    /\ UNCHANGED <<secrets, run>>

\* update_by_id, which may rename; the column is unique.
Update ==
    /\ sent < Len(Drafts) /\ sent' = sent + 1
    /\ \E x \in Acceptable, f \in FlowIds :
          /\ Stored(f) /\ Row(x.doc.name) \subseteq {f}
          /\ flows' = [flows EXCEPT ![f] = x]
    /\ UNCHANGED <<secrets, run>>

\* create (an upsert), update and delete of a credential.  One that stores more
\* than one key is as good as none.
SetCredential ==
    /\ \E c \in Secrets : secrets' = IF c \in secrets THEN secrets \ {c} ELSE secrets \cup {c}
    /\ UNCHANGED <<flows, run, sent>>

----------------------------------------------------------------------------
(* A run: its payload is stored as it comes, nothing compares it with the form.
   results are the step_results of a segment; what a skipped step left there is
   gone when the segment ends. *)

CreateRun ==
    /\ run = NoRun
    /\ \E f \in FlowIds, p \in Payloads :
          /\ Stored(f)
          /\ run' = [flow |-> f, payload |-> p, status |-> "queued", steps |-> << >>,
                     results |-> [id \in {} |-> Null], at |-> 0, why |-> "none"]
    /\ UNCHANGED <<flows, secrets, sent>>

Status(st) == run # NoRun /\ run.status = st

\* A segment begins: the definition as it is now, the results of the rows.
Begin ==
    /\ Status("queued")
    /\ run' = [run EXCEPT !.status = "running", !.steps = flows[run.flow].doc.steps,
                                !.at = 0, !.why = "none"]
    /\ UNCHANGED <<flows, secrets, sent>>

Skipped == [t |-> "skipped", n |-> 0]

Done == {id \in DOMAIN run.results : run.results[id] # Skipped}

\* The results that a segment leaves for the next one.
Restored == [id \in Done |-> run.results[id]]

With(id, v) == [x \in DOMAIN run.results \cup {id} |-> IF x = id THEN v ELSE run.results[x]]

IsNext(j) ==
    /\ Status("running") /\ run.steps[j].id \notin DOMAIN run.results
    /\ \A i \in 1..(j - 1) : run.steps[i].id \in DOMAIN run.results

Settle(j, st, why) ==
    run' = [run EXCEPT !.status = st, !.at = j, !.why = why, !.results = Restored]

\* What a reference resolves to: null for a field or a result that is not there;
\* a spaced reference is left as it is.
Resolved(r) ==
    CASE r.to = "form" -> IF r.name \in DOMAIN run.payload THEN run.payload[r.name] ELSE Null
      [] r.to = "step" /\ r.spaced -> Word("{{ }}")
      [] r.to = "step" /\ ~r.spaced -> IF r.name \in Done THEN run.results[r.name] ELSE Null
      [] r.to = "secret" -> IF r.name \in secrets THEN Word("x") ELSE Raises

Env(ts) == [r \in CondRefs(ts) |-> Resolved(r)]

Guard(s) == IF s.when = << >> THEN Got(Bool(TRUE), 1) ELSE Evaluate(s.when, Env(s.when))

\* Why a segment ends at a condition that cannot be evaluated.
Reason(err) == IF err = "syntax" THEN "malformed" ELSE "secret"

FailGuard ==
    /\ Status("running")
    /\ \E j \in DOMAIN run.steps :
          /\ IsNext(j) /\ Guard(run.steps[j]).err # "none"
          /\ Settle(j, "failed", Reason(Guard(run.steps[j]).err))
    /\ UNCHANGED <<flows, secrets, sent>>

Skip ==
    /\ Status("running")
    /\ \E j \in DOMAIN run.steps :
          /\ IsNext(j) /\ Guard(run.steps[j]).err = "none" /\ ~Truthy(Guard(run.steps[j]).val)
          /\ run' = [run EXCEPT !.results = With(run.steps[j].id, Skipped)]
    /\ UNCHANGED <<flows, secrets, sent>>

Passes(j) == IsNext(j) /\ Guard(run.steps[j]).err = "none" /\ Truthy(Guard(run.steps[j]).val)

\* _execute_condition: an `if` that is no string is as true as its value, and then
\* cannot be rendered.
EvaluateCondition ==
    /\ Status("running")
    /\ \E j \in DOMAIN run.steps : LET s == run.steps[j]  r == Evaluate(s.if, Env(s.if)) IN
          /\ Passes(j) /\ s.kind = "condition"
          /\ \/ r.err # "none" /\ Settle(j, "failed", Reason(r.err))
             \/ r.err = "none" /\ s.raw /\ Settle(j, "failed", "unrendered")
             \/ r.err = "none" /\ ~s.raw /\ run' = [run EXCEPT !.results = With(s.id, r.val)]
    /\ UNCHANGED <<flows, secrets, sent>>

\* ExecutorAgent.ground, in its order: the tool, the templates, the schema.
Fault(s) ==
    IF s.tool \notin Registry THEN "tool"
    ELSE IF \E r \in RefsTo(s, "secret") : r.name \notin secrets THEN "secret"
    ELSE IF s.params = "missing" THEN "params"
    ELSE IF \E r \in RefsTo(s, "step") : r.spaced THEN "unresolved"
    ELSE IF s.params \in {"unfit", "opaque"} THEN "params" ELSE "none"

\* Grounding fails on the document or a secret; or the value of a template does
\* not fit, or the call itself fails.
FailStep ==
    /\ Status("running")
    /\ \E j \in DOMAIN run.steps : LET s == run.steps[j] IN
          /\ Passes(j) /\ s.kind \in {"tool", "artifact", "ai"}
          /\ Settle(j, "failed", IF Fault(s) # "none" THEN Fault(s) ELSE "value")
    /\ UNCHANGED <<flows, secrets, sent>>

CompleteStep ==
    /\ Status("running")
    /\ \E j \in DOMAIN run.steps, v \in Results : LET s == run.steps[j] IN
          /\ Passes(j) /\ s.kind \in {"tool", "artifact", "ai"} /\ Fault(s) = "none"
          /\ run' = [run EXCEPT !.results = With(s.id, v)]
    /\ UNCHANGED <<flows, secrets, sent>>

Suspend ==
    /\ Status("running")
    /\ \E j \in DOMAIN run.steps :
          /\ Passes(j) /\ run.steps[j].kind = "approval"
          /\ Settle(j, "suspended", "none")
    /\ UNCHANGED <<flows, secrets, sent>>

\* The suspended row is answered; a failed run is retried.
Resume ==
    /\ \/ /\ Status("suspended")
          /\ \E v \in Results :
                run' = [run EXCEPT !.status = "queued", !.results = With(run.steps[run.at].id, v)]
       \/ Status("failed") /\ run' = [run EXCEPT !.status = "queued"]
    /\ UNCHANGED <<flows, secrets, sent>>

Complete ==
    /\ Status("running") /\ \A j \in DOMAIN run.steps : run.steps[j].id \in DOMAIN run.results
    /\ Settle(0, "completed", "none")
    /\ UNCHANGED <<flows, secrets, sent>>

Next ==
    \/ Register \/ Update \/ SetCredential \/ CreateRun \/ Begin
    \/ FailGuard \/ Skip \/ EvaluateCondition \/ FailStep \/ CompleteStep
    \/ Suspend \/ Resume \/ Complete

Spec == Init /\ [][Next]_vars

----------------------------------------------------------------------------
\* Every variable has its type, and no two rows have one name (the column is
\* unique: a write that broke this would raise).
TypeOK ==
    /\ \A f \in FlowIds : Stored(f) =>
          Document(flows[f].doc) /\ flows[f].said \subseteq LlmFinding /\ Row(flows[f].doc.name) = {f}
    /\ secrets \subseteq Secrets /\ sent \in 0..Len(Drafts)
    /\ run # NoRun =>
          /\ Stored(run.flow) /\ run.payload \in Payloads
          /\ run.status \in {"queued", "running", "suspended", "completed", "failed"}
          /\ \A j \in DOMAIN run.steps : StepDoc(run.steps[j])
          /\ DOMAIN run.results \subseteq StepIds
          /\ \A id \in DOMAIN run.results : run.results[id] \in Value \cup {Skipped}
          /\ run.at \in 0..Len(run.steps)
          /\ run.why \in {"none", "malformed", "unrendered", "secret", "tool", "params", "unresolved", "value"}

\* The evaluator gives a condition the meaning its grammar gives it, and rejects
\* what the grammar rejects, whatever its references are resolved to.
EvaluatorIsGrammar ==
    \A j \in 1..(IF run = NoRun THEN 0 ELSE Len(run.steps)) :
        \A ts \in {run.steps[j].if, run.steps[j].when} :
            IsNext(j) /\ (\A r \in CondRefs(ts) : Resolved(r) # Raises) =>
                LET e == Evaluate(ts, Env(ts)) IN
                Meanings(ts, Env(ts)) = IF e.err = "none" THEN {e.val} ELSE {}

\* What no rule reads and grounding does: the params of an artifact step, and a
\* value that is no scalar where a tool has an enum.
Unread(s) == s.kind = "artifact" \/ s.params = "opaque"

\* Only what no rule reads, or its author overrode by a lint_ignore of that step's
\* own, makes a stored document's call fail: no other unfit parameter and no unknown
\* tool gets past the gates.
FaultWasOverridden ==
    run # NoRun /\ run.status = "failed" =>
        /\ run.why # "tool"
        /\ run.why = "params" =>
              LET s == run.steps[run.at] IN
              s.ignore \cap {"MISSING_REQUIRED", "TYPE_MISMATCH"} # {} \/ Unread(s)

\* Nor does a condition, unless it is malformed and overridden by the very code it is
\* reported with, or an `if` is blank or no string: what parses when it is stored
\* parses whatever the references resolve to.
MalformedWasOverridden ==
    run # NoRun /\ run.status = "failed" /\ run.why \in {"malformed", "unrendered"} =>
        LET s == run.steps[run.at] IN
        \/ \E ts \in {s.if, s.when} : ts # << >> /\ ~Parses(ts) /\ MalformedCode(ts) \in s.ignore
        \/ s.kind = "condition" /\ (s.if = << >> \/ s.raw)

\* When a step is reached, the steps it refers to have been passed, though the
\* flow was replaced since the run began: unless the author overrode that.
RefsInScope ==
    \A j \in 1..(IF run = NoRun THEN 0 ELSE Len(run.steps)) : IsNext(j) =>
        LET s == run.steps[j]
            conditions == IF Parses(s.if) THEN CondRefs(s.if) ELSE {}
            guards == IF Parses(s.when) THEN CondRefs(s.when) ELSE {}
            InScope(r) == r.to = "step" => r.name \in DOMAIN run.results
        IN
        /\ {"FORWARD_STEP", "UNKNOWN_STEP"} \cap s.ignore # {} \/ \A r \in s.refs : InScope(r)
        /\ "CONDITION_UNKNOWN_VAR" \in s.ignore \/ \A r \in conditions \cup guards : InScope(r)

\* An AI step's prose promises no other list sizes than its schema enforces, of the
\* lists whose sizes the linter reads out of the prose.
ProseEnforced ==
    \A f \in FlowIds : Stored(f) => \A j \in DOMAIN flows[f].doc.steps :
        LET s == flows[f].doc.steps[j]
            Within(n, b) == (\A m \in b.min : n >= m) /\ (\A m \in b.max : n <= m)
        IN
        s.kind = "ai" /\ "COUNT_MISMATCH" \notin s.ignore =>
            \A n \in 0..3 : Within(n, s.expect) => Within(n, s.prose)

\* "The compiler's normalized policy shape is kept in sync with what the runtime
\* enforces": the engine is the same from either, explicit zeros included.  A default
\* is one value on both sides: that they name the same number is not shown.
PoliciesAgree ==
    \A f \in FlowIds : Stored(f) =>
        LET p == flows[f].doc.policies IN Enforced(Compiled(p)) = Enforced(p)

\* A lint_ignore with a code the linter does not know is never stored, whatever
\* the same lint_ignore tries to suppress.
NoBrokenOverride ==
    \A f \in FlowIds : Stored(f) =>
        \A j \in DOMAIN flows[f].doc.steps : flows[f].doc.steps[j].ignore \subseteq Codes

\* An error the critic reported is passed over only at a step whose author
\* overrides a finding.
CriticHeard ==
    \A f \in FlowIds : Stored(f) => \A x \in flows[f].said : x.code = "LLM_ERROR" =>
        \E j \in DOMAIN flows[f].doc.steps :
            flows[f].doc.steps[j].id = x.step /\ flows[f].doc.steps[j].ignore # {}
=============================================================================
