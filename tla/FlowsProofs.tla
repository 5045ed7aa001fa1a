---------------------------- MODULE FlowsProofs -----------------------------
(***************************************************************************)
(* Theorems about Flows, for every set of documents, payloads and results. *)
(* All rest on one fact about the gates in front of the flows table: what  *)
(* the linter finds at a step of a stored document is suppressed by that   *)
(* step's own lint_ignore, because no two steps have the same id.  What a  *)
(* run is doing is then read off the steps of some stored document, of the *)
(* time when its segment began; what the evaluator makes of a condition is *)
(* what ConditionsProofs says of it.                                       *)
(***************************************************************************)
EXTENDS Flows, ConditionsProofs

\* The drafts that pass the gates, and what a segment may run.
Passed == {x \in UNION {Drafts[n] : n \in DOMAIN Drafts} : Accepted(x.doc, x.said)}

StepLists == {x.doc.steps : x \in Passed}

LEMMA PassedShape ==
    ASSUME NEW x \in Passed
    PROVE  /\ x # NoFlow /\ Document(x.doc) /\ x.said \subseteq LlmFinding
           /\ Accepted(x.doc, x.said)
           /\ DOMAIN x.doc.steps = 1..Len(x.doc.steps) /\ Len(x.doc.steps) \in Nat
           /\ \A j \in DOMAIN x.doc.steps : StepDoc(x.doc.steps[j])
<1>1. x # NoFlow /\ Document(x.doc) /\ x.said \subseteq LlmFinding /\ Accepted(x.doc, x.said)
  BY DraftsAssumption DEF Passed
<1>2. PICK steps : steps = x.doc.steps
  OBVIOUS
<1>3. steps \in Seq({steps[j] : j \in DOMAIN steps}) /\ \A j \in DOMAIN steps : StepDoc(steps[j])
  BY <1>1, <1>2 DEF Document
<1>4. DOMAIN steps = 1..Len(steps) /\ Len(steps) \in Nat
  BY <1>3, LenProperties
<1> QED
  BY <1>1, <1>2, <1>3, <1>4

\* As many ids as steps: no two steps share one.
LEMMA IdsDiffer ==
    ASSUME NEW d, Compiles(d), DOMAIN d.steps = 1..Len(d.steps), Len(d.steps) \in Nat
    PROVE  \A i, j \in DOMAIN d.steps : d.steps[i].id = d.steps[j].id => i = j
<1>1. PICK n \in Nat : n = Len(d.steps)
  OBVIOUS
<1>2. PICK f : f = [j \in 1..n |-> d.steps[j].id]
  OBVIOUS
<1>3. IsFiniteSet(1..n) /\ Cardinality(1..n) = n
  BY <1>1, FS_Interval
<1>4. \A j \in 1..n : f[j] = d.steps[j].id
  BY <1>2
<1>5. f \in Surjection(1..n, Ids(d))
  <2>1. Ids(d) = {d.steps[j].id : j \in 1..n}
    BY <1>1 DEF Ids
  <2>2. f \in [1..n -> Ids(d)]
    BY <1>2, <2>1
  <2>3. \A t \in Ids(d) : \E j \in 1..n : f[j] = t
    BY <1>4, <2>1
  <2> QED
    BY <2>2, <2>3 DEF Surjection
<1>6. Cardinality(Ids(d)) = n
  BY <1>1 DEF Compiles
<1>7. f \in Injection(1..n, Ids(d))
  BY <1>3, <1>5, <1>6, FS_Surjection
<1>8. \A i, j \in 1..n : f[i] = f[j] => i = j
  BY <1>7 DEF Injection, IsInjective
<1> QED
  BY <1>1, <1>4, <1>8

\* What the rules find at a step of a stored document was suppressed by the step's
\* own lint_ignore.
LEMMA FoundIsIgnored ==
    ASSUME NEW x \in Passed, NEW j \in DOMAIN x.doc.steps, NEW code, NEW leaf,
           code # "LLM_AMBIGUITY",
           Deterministic(code, x.doc.steps[j], leaf) \in StepFindings(x.doc, j)
    PROVE  code \in x.doc.steps[j].ignore /\ code # "LINT_IGNORE_UNKNOWN_CODE"
<1>1. PICK d, f : d = x.doc /\ f = Deterministic(code, d.steps[j], leaf)
  OBVIOUS
<1>2. f \in Findings(d) /\ f.code = code /\ f.step = d.steps[j].id
  BY <1>1 DEF Findings, Deterministic, Finding
<1>3. Compiles(d) /\ Blocking(d, x.said) = {}
  BY <1>1, PassedShape DEF Accepted
<1>4. Suppressed(d, f)
  BY <1>2, <1>3 DEF Blocking
<1>5. PICK i \in DOMAIN d.steps : d.steps[i].id = f.step /\ f.code \in d.steps[i].ignore
  BY <1>4 DEF Suppressed
<1>6. i = j
  BY <1>1, <1>2, <1>3, <1>5, IdsDiffer, PassedShape
<1> QED
  BY <1>1, <1>2, <1>4, <1>5, <1>6 DEF Suppressed

----------------------------------------------------------------------------
(* What a step of a stored document is, rule by rule. *)

LEMMA IgnoreKnown ==
    ASSUME NEW x \in Passed, NEW j \in DOMAIN x.doc.steps
    PROVE  x.doc.steps[j].ignore \subseteq Codes
<1> SUFFICES ASSUME NEW c \in x.doc.steps[j].ignore, c \notin Codes PROVE FALSE
  OBVIOUS
<1>1. Deterministic("LINT_IGNORE_UNKNOWN_CODE", x.doc.steps[j], "lint_ignore") \in IgnoreFindings(x.doc.steps[j])
  BY DEF IgnoreFindings
<1>2. Deterministic("LINT_IGNORE_UNKNOWN_CODE", x.doc.steps[j], "lint_ignore") \in StepFindings(x.doc, j)
  BY <1>1 DEF StepFindings
<1> QED
  BY <1>2, FoundIsIgnored

LEMMA CallKnown ==
    ASSUME NEW x \in Passed, NEW j \in DOMAIN x.doc.steps
    PROVE  x.doc.steps[j].tool \in Registry
<1>1. StepDoc(x.doc.steps[j]) /\ ToolsKnown(x.doc)
  BY PassedShape DEF Accepted
<1> QED
  BY <1>1 DEF StepDoc, ToolsKnown

\* What an author may have overridden, or nobody looked at, when a call does not
\* fit its tool.
Excused(s) == s.ignore \cap {"MISSING_REQUIRED", "TYPE_MISMATCH"} # {} \/ Unread(s)

LEMMA CallFits ==
    ASSUME NEW x \in Passed, NEW j \in DOMAIN x.doc.steps,
           x.doc.steps[j].params \in {"missing", "unfit", "opaque"}
    PROVE  Excused(x.doc.steps[j])
<1>1. PICK s : s = x.doc.steps[j]
  OBVIOUS
<1>2. StepDoc(s) /\ s.tool \in Registry
  BY <1>1, CallKnown, PassedShape
<1>3. CASE Unread(s)
  BY <1>1, <1>3 DEF Excused
<1>4. CASE ~Unread(s)
  <2>1. s.kind = "tool" /\ s.params \in {"missing", "unfit"}
    BY <1>1, <1>2, <1>4 DEF StepDoc, Unread
  <2>2. PICK code : code = IF s.params = "missing" THEN "MISSING_REQUIRED" ELSE "TYPE_MISMATCH"
    OBVIOUS
  <2>3. ParamFindings(s) = {Deterministic(code, s, "key")}
    BY <1>2, <2>1, <2>2 DEF ParamFindings
  <2>4. Deterministic(code, s, "key") \in StepFindings(x.doc, j)
    BY <1>1, <2>3 DEF StepFindings
  <2>5. code \in s.ignore
    BY <1>1, <2>2, <2>4, FoundIsIgnored
  <2> QED
    BY <1>1, <2>2, <2>5 DEF Excused
<1> QED
  BY <1>3, <1>4

LEMMA ProseKnown ==
    ASSUME NEW x \in Passed, NEW j \in DOMAIN x.doc.steps, x.doc.steps[j].kind = "ai",
           "COUNT_MISMATCH" \notin x.doc.steps[j].ignore
    PROVE  ~Contradicts(x.doc.steps[j].prose, x.doc.steps[j].expect)
<1> SUFFICES ASSUME Contradicts(x.doc.steps[j].prose, x.doc.steps[j].expect) PROVE FALSE
  OBVIOUS
<1>1. Deterministic("COUNT_MISMATCH", x.doc.steps[j], "list") \in ProseFindings(x.doc.steps[j])
  BY DEF ProseFindings
<1>2. Deterministic("COUNT_MISMATCH", x.doc.steps[j], "list") \in StepFindings(x.doc, j)
  BY <1>1 DEF StepFindings
<1> QED
  BY <1>2, FoundIsIgnored

\* A step that is not among the steps before.
Stray(d, j, r) == r.to = "step" /\ r.name \notin PriorIds(d, j)

LEMMA RefsIgnored ==
    ASSUME NEW x \in Passed, NEW j \in DOMAIN x.doc.steps, NEW r \in x.doc.steps[j].refs,
           Stray(x.doc, j, r)
    PROVE  {"FORWARD_STEP", "UNKNOWN_STEP"} \cap x.doc.steps[j].ignore # {}
<1>1. PICK code : code = IF r.name \in Ids(x.doc) THEN "FORWARD_STEP" ELSE "UNKNOWN_STEP"
  OBVIOUS
<1>2. OutOfScope(x.doc, j, r) /\ r.to = "step"
  BY DEF OutOfScope, Stray
<1>3. (CASE r.to = "form" -> "UNKNOWN_FORM_FIELD"
         [] r.to = "step" /\ r.name \in Ids(x.doc) -> "FORWARD_STEP"
         [] r.to = "step" /\ r.name \notin Ids(x.doc) -> "UNKNOWN_STEP") = code
  <2>1. CASE r.name \in Ids(x.doc)
    BY <1>1, <1>2, <2>1
  <2>2. CASE r.name \notin Ids(x.doc)
    BY <1>1, <1>2, <2>2
  <2> QED
    BY <2>1, <2>2
<1>4. Deterministic(code, x.doc.steps[j], "none") \in TemplateFindings(x.doc, j)
  BY <1>2, <1>3 DEF TemplateFindings
<1>5. Deterministic(code, x.doc.steps[j], "none") \in StepFindings(x.doc, j)
  BY <1>4 DEF StepFindings
<1>6. code # "LLM_AMBIGUITY"
  BY <1>1
<1>7. code \in x.doc.steps[j].ignore
  BY <1>5, <1>6, FoundIsIgnored
<1> QED
  BY <1>1, <1>7

LEMMA BlankDoesNotParse == ~Parses(<< >>)
BY DEF Parses, Evaluate, Failed

LEMMA ConditionsIgnored ==
    ASSUME NEW x \in Passed, NEW j \in DOMAIN x.doc.steps,
           NEW ts \in {x.doc.steps[j].if, x.doc.steps[j].when}, Parses(ts),
           NEW r \in CondRefs(ts), Stray(x.doc, j, r)
    PROVE  "CONDITION_UNKNOWN_VAR" \in x.doc.steps[j].ignore
<1>1. OutOfScope(x.doc, j, r) /\ ts # << >>
  BY BlankDoesNotParse DEF OutOfScope, Stray
<1>2. ASSUME NEW leaf
      PROVE  Deterministic("CONDITION_UNKNOWN_VAR", x.doc.steps[j], leaf)
                 \in ConditionFindings(x.doc, j, leaf, ts)
  BY <1>1 DEF ConditionFindings
<1>3. PICK leaf \in {"if", "when"} :
          Deterministic("CONDITION_UNKNOWN_VAR", x.doc.steps[j], leaf) \in StepFindings(x.doc, j)
  <2>1. CASE ts = x.doc.steps[j].if
    BY <1>2, <2>1 DEF StepFindings
  <2>2. CASE ts = x.doc.steps[j].when
    BY <1>2, <2>2 DEF StepFindings
  <2> QED
    BY <2>1, <2>2
<1> QED
  BY <1>3, FoundIsIgnored

----------------------------------------------------------------------------
(* What is stored. *)

FlowsInv ==
    /\ flows \in [FlowIds -> Passed \cup {NoFlow}]
    /\ \A f, g \in FlowIds :
          Stored(f) /\ Stored(g) /\ flows[f].doc.name = flows[g].doc.name => f = g
    /\ sent \in 0..Len(Drafts)

LEMMA DraftsShape == Len(Drafts) \in Nat /\ DOMAIN Drafts = 1..Len(Drafts)
BY DraftsAssumption, LenProperties

LEMMA StoreKeepsInv ==
    ASSUME FlowsInv, NEW x \in Passed, NEW f \in FlowIds, Row(x.doc.name) \subseteq {f},
           flows' = [flows EXCEPT ![f] = x], sent < Len(Drafts), sent' = sent + 1
    PROVE  FlowsInv' /\ \A g \in FlowIds : Stored(g) => Stored(g)'
<1>1. x # NoFlow
  BY PassedShape
<1>2. \A g \in FlowIds : flows'[g] = IF g = f THEN x ELSE flows[g]
  BY DEF FlowsInv
<1>3. \A g \in FlowIds : Stored(g) => Stored(g)'
  BY <1>1, <1>2 DEF Stored
<1>4. ASSUME NEW g \in FlowIds, NEW h \in FlowIds, Stored(g)', Stored(h)',
             flows'[g].doc.name = flows'[h].doc.name
      PROVE  g = h
  <2>1. ASSUME NEW i \in FlowIds, Stored(i)', i # f, flows'[i].doc.name = x.doc.name PROVE FALSE
    <3>1. i \in Row(x.doc.name)
      BY <1>2, <2>1 DEF Row, Stored
    <3> QED
      BY <2>1, <3>1
  <2>2. CASE g = f \/ h = f
    BY <1>2, <1>4, <2>1, <2>2
  <2>3. CASE g # f /\ h # f
    BY <1>2, <1>4, <2>3 DEF FlowsInv, Stored
  <2> QED
    BY <2>2, <2>3
<1>5. flows' \in [FlowIds -> Passed \cup {NoFlow}]
  BY DEF FlowsInv
<1>6. sent' \in 0..Len(Drafts)
  BY DraftsShape DEF FlowsInv
<1> QED
  BY <1>3, <1>4, <1>5, <1>6 DEF FlowsInv

LEMMA WriteKeepsInv ==
    ASSUME FlowsInv, Register \/ Update
    PROVE  FlowsInv' /\ \A g \in FlowIds : Stored(g) => Stored(g)'
<1>1. sent < Len(Drafts) /\ sent' = sent + 1 /\ sent + 1 \in DOMAIN Drafts
  BY DraftsShape DEF Register, Update, FlowsInv
<1>2. Acceptable \subseteq Passed
  BY <1>1 DEF Acceptable, Passed
<1>3. CASE Register
  <2>1. PICK x \in Acceptable : \E f \in RowFor(x.doc.name) : flows' = [flows EXCEPT ![f] = x]
    BY <1>3 DEF Register
  <2>2. PICK f \in RowFor(x.doc.name) : flows' = [flows EXCEPT ![f] = x]
    BY <2>1
  <2>3. f \in FlowIds /\ Row(x.doc.name) \subseteq {f}
    BY <2>2 DEF RowFor, Row, FlowsInv
  <2> QED
    BY <1>1, <1>2, <2>1, <2>2, <2>3, StoreKeepsInv
<1>4. CASE Update
  <2>1. PICK x \in Acceptable, f \in FlowIds :
            Row(x.doc.name) \subseteq {f} /\ flows' = [flows EXCEPT ![f] = x]
    BY <1>4 DEF Update
  <2> QED
    BY <1>1, <1>2, <2>1, StoreKeepsInv
<1> QED
  BY <1>3, <1>4

LEMMA FlowsInvOfNext ==
    ASSUME FlowsInv, [Next]_vars
    PROVE  FlowsInv' /\ \A g \in FlowIds : Stored(g) => Stored(g)'
<1>1. Register \/ Update \/ UNCHANGED <<flows, sent>>
  BY DEF Next, vars, SetCredential, CreateRun, Begin, FailGuard, Skip, EvaluateCondition,
         FailStep, CompleteStep, Suspend, Resume, Complete
<1>2. CASE UNCHANGED <<flows, sent>>
  BY <1>2 DEF FlowsInv, Stored
<1> QED
  BY <1>1, <1>2, WriteKeepsInv

LEMMA FlowsInvOfInit == Init => FlowsInv
BY DraftsShape DEF Init, FlowsInv, Stored

LEMMA FlowsKept == Spec => []FlowsInv
<1>1. FlowsInv /\ [Next]_vars => FlowsInv'
  BY FlowsInvOfNext
<1> QED
  BY <1>1, FlowsInvOfInit, PTL DEF Spec

----------------------------------------------------------------------------
(* Theorems about what is stored. *)

\* A lint_ignore with a code the linter does not know never gets into the table,
\* though it could name the very finding that reports it.
THEOREM OverridesAreReal == Spec => []NoBrokenOverride
<1>1. FlowsInv => NoBrokenOverride
  BY IgnoreKnown DEF FlowsInv, NoBrokenOverride, Stored
<1> QED
  BY <1>1, FlowsKept, PTL

LEMMA CompiledEnforces ==
    ASSUME NEW p, DOMAIN p \subseteq PolicyKeys
    PROVE  Enforced(Compiled(p)) = Enforced(p)
<1>1. PICK c : c = Compiled(p)
  OBVIOUS
<1>2. /\ DOMAIN c = {"budget_usd", "allow", "tokenize_model_inputs", "rate_limits", "max_replan_attempts"}
                    \cup DOMAIN p
      /\ \A k \in DOMAIN c :
            c[k] = IF k \in DOMAIN p THEN p[k] ELSE IF k \in {"allow", "rate_limits"} THEN 0 ELSE 1
  BY <1>1 DEF Compiled
<1>3. \A k \in PolicyKeys :
          (IF k \in DOMAIN c THEN c[k]
           ELSE IF k \in {"allow", "exceptions", "rate_limits"} THEN 0 ELSE 1)
          = (IF k \in DOMAIN p THEN p[k]
             ELSE IF k \in {"allow", "exceptions", "rate_limits"} THEN 0 ELSE 1)
  <2> SUFFICES ASSUME NEW k \in PolicyKeys
               PROVE  (IF k \in DOMAIN c THEN c[k]
                       ELSE IF k \in {"allow", "exceptions", "rate_limits"} THEN 0 ELSE 1)
                      = (IF k \in DOMAIN p THEN p[k]
                         ELSE IF k \in {"allow", "exceptions", "rate_limits"} THEN 0 ELSE 1)
    OBVIOUS
  <2>1. CASE k \in DOMAIN p
    BY <1>2, <2>1
  <2>2. CASE k \notin DOMAIN p /\ k \in DOMAIN c
    BY <1>2, <2>2
  <2>3. CASE k \notin DOMAIN c
    BY <1>2, <2>3
  <2> QED
    BY <2>1, <2>2, <2>3
<1> QED
  BY <1>1, <1>3 DEF Enforced

\* "kept in sync with what the runtime enforces": nothing is lost between the
\* document's policies and the engine's settings, explicit zeros included.
THEOREM PoliciesKept == Spec => []PoliciesAgree
<1>1. FlowsInv => PoliciesAgree
  <2> SUFFICES ASSUME FlowsInv, NEW f \in FlowIds, Stored(f)
               PROVE  LET p == flows[f].doc.policies IN Enforced(Compiled(p)) = Enforced(p)
    BY DEF PoliciesAgree
  <2>1. flows[f] \in Passed
    BY DEF FlowsInv, Stored
  <2>2. DOMAIN flows[f].doc.policies \subseteq PolicyKeys
    BY <2>1, PassedShape DEF Document
  <2> QED
    BY <2>2, CompiledEnforces
<1> QED
  BY <1>1, FlowsKept, PTL

LEMMA ProseOfBounds ==
    ASSUME NEW prose \in Bounds, NEW expect \in Bounds, ~Contradicts(prose, expect), NEW n \in 0..3,
           \A m \in expect.min : n >= m, \A m \in expect.max : n <= m
    PROVE  (\A m \in prose.min : n >= m) /\ (\A m \in prose.max : n <= m)
<1>1. /\ prose.min \subseteq 0..2 /\ prose.max \subseteq 0..2
      /\ expect.min \subseteq 0..2 /\ expect.max \subseteq 0..2
  BY DEF Bounds
<1>2. ASSUME NEW m \in prose.min PROVE n >= m
  <2>1. PICK e \in expect.min : ~(e < m)
    BY DEF Contradicts
  <2>2. n >= e /\ n \in Int /\ e \in Int /\ m \in Int
    BY <1>1
  <2> QED
    BY <2>1, <2>2
<1>3. ASSUME NEW m \in prose.max PROVE n <= m
  <2>1. PICK e \in expect.max : ~(e > m)
    BY DEF Contradicts
  <2>2. n <= e /\ n \in Int /\ e \in Int /\ m \in Int
    BY <1>1
  <2> QED
    BY <2>1, <2>2
<1> QED
  BY <1>2, <1>3

\* What an AI step's schema lets through is what its prose promises, unless its
\* author overrode COUNT_MISMATCH.
THEOREM ProseHolds == Spec => []ProseEnforced
<1>1. FlowsInv => ProseEnforced
  <2> SUFFICES ASSUME FlowsInv, NEW f \in FlowIds, Stored(f), NEW j \in DOMAIN flows[f].doc.steps,
                      flows[f].doc.steps[j].kind = "ai",
                      "COUNT_MISMATCH" \notin flows[f].doc.steps[j].ignore, NEW n \in 0..3,
                      \A m \in flows[f].doc.steps[j].expect.min : n >= m,
                      \A m \in flows[f].doc.steps[j].expect.max : n <= m
               PROVE  /\ \A m \in flows[f].doc.steps[j].prose.min : n >= m
                      /\ \A m \in flows[f].doc.steps[j].prose.max : n <= m
    BY DEF ProseEnforced
  <2>1. PICK x \in Passed : x = flows[f]
    BY DEF FlowsInv, Stored
  <2>2. PICK s : s = x.doc.steps[j]
    OBVIOUS
  <2>3. s.prose \in Bounds /\ s.expect \in Bounds
    BY <2>1, <2>2, PassedShape DEF StepDoc
  <2>4. ~Contradicts(s.prose, s.expect)
    BY <2>1, <2>2, ProseKnown
  <2> QED
    BY <2>1, <2>2, <2>3, <2>4, ProseOfBounds
<1> QED
  BY <1>1, FlowsKept, PTL

\* No finding of the rules is a mere warning.
LEMMA FindingsBlock ==
    ASSUME NEW x \in Passed, NEW d, d = x.doc, NEW g \in Findings(d)
    PROVE  g.code # "LLM_AMBIGUITY"
<1>1. PICK j \in DOMAIN d.steps : g \in StepFindings(d, j)
  BY DEF Findings
<1>2. PICK s : s = d.steps[j]
  OBVIOUS
<1>3. CASE g \in TemplateFindings(d, j)
  <2>1. PICK r \in s.refs : OutOfScope(d, j, r) /\ g = Deterministic(
            CASE r.to = "form" -> "UNKNOWN_FORM_FIELD"
              [] r.to = "step" /\ r.name \in Ids(d) -> "FORWARD_STEP"
              [] r.to = "step" /\ r.name \notin Ids(d) -> "UNKNOWN_STEP", s, "none")
    BY <1>2, <1>3 DEF TemplateFindings
  <2>2. CASE r.to = "form"
    BY <2>1, <2>2 DEF Deterministic, Finding
  <2>3. CASE r.to = "step" /\ r.name \in Ids(d)
    BY <2>1, <2>3 DEF Deterministic, Finding
  <2>4. CASE r.to = "step" /\ r.name \notin Ids(d)
    BY <2>1, <2>4 DEF Deterministic, Finding
  <2> QED
    BY <2>1, <2>2, <2>3, <2>4 DEF OutOfScope
<1>4. CASE g \in ProseFindings(s) \cup IgnoreFindings(s)
  BY <1>4 DEF ProseFindings, IgnoreFindings, Deterministic, Finding
<1>5. CASE g \in ParamFindings(s)
  <2>1. s.params \in {"missing", "unfit", "extra"}
    BY <1>5 DEF ParamFindings
  <2> QED
    BY <1>5, <2>1 DEF ParamFindings, Deterministic, Finding
<1>6. CASE g \in ConditionFindings(d, j, "if", s.if) \cup ConditionFindings(d, j, "when", s.when)
  BY <1>6 DEF ConditionFindings, MalformedCode, Deterministic, Finding
<1> QED
  BY <1>1, <1>2, <1>3, <1>4, <1>5, <1>6 DEF StepFindings

\* An error of the critic blocks the document unless it restates what the author
\* overrode, or is itself overridden.
THEOREM CriticIsHeard == Spec => []CriticHeard
<1>1. FlowsInv => CriticHeard
  <2> SUFFICES ASSUME FlowsInv, NEW f \in FlowIds, Stored(f), NEW y \in flows[f].said,
                      y.code = "LLM_ERROR"
               PROVE  \E j \in DOMAIN flows[f].doc.steps :
                          flows[f].doc.steps[j].id = y.step /\ flows[f].doc.steps[j].ignore # {}
    BY DEF CriticHeard
  <2>1. PICK x \in Passed : x = flows[f]
    BY DEF FlowsInv, Stored
  <2>2. PICK d : d = x.doc
    OBVIOUS
  <2>3. Blocking(d, x.said) = {}
    BY <2>2, PassedShape DEF Accepted
  <2>4. CASE y \in Kept(d, x.said)
    <3>1. Suppressed(d, y)
      BY <2>3, <2>4 DEF Blocking
    <3> QED
      BY <2>1, <2>2, <3>1 DEF Suppressed
  <2>5. CASE y \notin Kept(d, x.said)
    <3>1. PICK g \in Findings(d) : g.step = y.step
      BY <2>1, <2>5 DEF Kept
    <3>2. g.code # "LLM_AMBIGUITY"
      BY <2>2, FindingsBlock
    <3>3. Suppressed(d, g)
      BY <2>3, <3>2 DEF Blocking
    <3> QED
      BY <2>1, <2>2, <3>1, <3>3 DEF Suppressed
  <2> QED
    BY <2>4, <2>5
<1> QED
  BY <1>1, FlowsKept, PTL

----------------------------------------------------------------------------
(* The run. *)

Statuses == {"queued", "running", "suspended", "completed", "failed"}

Whys == {"none", "malformed", "unrendered", "secret", "tool", "params", "unresolved", "value"}

Tables == UNION {[ids -> Value \cup {Skipped}] : ids \in SUBSET StepIds}

RunRecord == [flow : FlowIds, payload : Payloads, status : Statuses, steps : StepLists \cup {<< >>},
              results : Tables, at : Nat, why : Whys]

\* A segment that began runs the steps of a document that had passed the gates.
RunInv ==
    run # NoRun =>
        /\ run \in RunRecord /\ Stored(run.flow) /\ run.at \in 0..Len(run.steps)
        /\ run.status = "running" => run.steps \in StepLists
        /\ run.status \in {"failed", "suspended"} => run.at \in DOMAIN run.steps
        /\ FaultWasOverridden /\ MalformedWasOverridden

LEMMA StepsShape ==
    ASSUME NEW steps \in StepLists \cup {<< >>}
    PROVE  /\ DOMAIN steps = 1..Len(steps) /\ Len(steps) \in Nat
           /\ \A j \in DOMAIN steps : StepDoc(steps[j]) /\ steps[j].id \in StepIds
<1>1. CASE steps \in StepLists
  <2>1. PICK x \in Passed : steps = x.doc.steps
    BY <1>1 DEF StepLists
  <2> QED
    BY <2>1, PassedShape DEF StepDoc
<1>2. CASE steps = << >>
  BY <1>2
<1> QED
  BY <1>1, <1>2

LEMMA RestoredShape == ASSUME run.results \in Tables PROVE Restored \in Tables
<1>1. PICK ids \in SUBSET StepIds : run.results \in [ids -> Value \cup {Skipped}]
  BY DEF Tables
<1>2. Done \in SUBSET StepIds /\ Done \subseteq ids
  BY <1>1 DEF Done
<1>3. Restored \in [Done -> Value \cup {Skipped}]
  BY <1>1, <1>2 DEF Restored
<1> QED
  BY <1>2, <1>3 DEF Tables

LEMMA WithShape ==
    ASSUME run.results \in Tables, NEW id \in StepIds, NEW v \in Value \cup {Skipped}
    PROVE  With(id, v) \in Tables
<1>1. PICK ids \in SUBSET StepIds : run.results \in [ids -> Value \cup {Skipped}]
  BY DEF Tables
<1>2. ids \cup {id} \in SUBSET StepIds /\ DOMAIN run.results = ids
  BY <1>1
<1>3. With(id, v) \in [ids \cup {id} -> Value \cup {Skipped}]
  BY <1>1, <1>2 DEF With
<1> QED
  BY <1>2, <1>3 DEF Tables

\* Whatever the parser reads, a condition that can be evaluated is true or false.
LEMMA EvaluatedShape ==
    ASSUME NEW ts, NEW env, Evaluate(ts, env).err = "none"
    PROVE  Evaluate(ts, env).val \in Value
<1>1. \A b : Bool(b) \in Value
  BY DEF Bool, Value
<1>2. PICK r : r = Reading(ts, env)
  OBVIOUS
<1>3. \/ Evaluate(ts, env) = Failed("syntax")
      \/ r.err # "none" /\ Evaluate(ts, env) = r
      \/ Evaluate(ts, env) = Got(Bool(Truthy(r.val)), r.pos)
  BY <1>2 DEF Evaluate
<1>4. Failed("syntax").err # "none"
  BY DEF Failed
<1>5. Evaluate(ts, env) = Got(Bool(Truthy(r.val)), r.pos)
  BY <1>3, <1>4
<1> QED
  BY <1>1, <1>5 DEF Got

\* What an author may have overridden when a condition of his step is malformed.
Condoned(s) ==
    \/ \E ts \in {s.if, s.when} : ts # << >> /\ ~Parses(ts) /\ MalformedCode(ts) \in s.ignore
    \/ s.kind = "condition" /\ (s.if = << >> \/ s.raw)

LEMMA WordShape == \A w \in {"x", "{{ }}"} : Word(w) \in Value
<1>1. Words[9] = "x" /\ Words[10] = "{{ }}" /\ 9 \in DOMAIN Words /\ 10 \in DOMAIN Words
  BY DEF Words
<1> SUFFICES ASSUME NEW w \in {"x", "{{ }}"} PROVE Word(w) \in Value
  OBVIOUS
<1>2. PICK n : n = CHOOSE k \in DOMAIN Words : Words[k] = w
  OBVIOUS
<1>3. \E k \in DOMAIN Words : Words[k] = w
  BY <1>1
<1>4. n \in DOMAIN Words
  BY <1>2, <1>3
<1>5. Word(w) = [t |-> "text", n |-> n]
  BY <1>2 DEF Word
<1>6. PICK places : places = DOMAIN Words
  OBVIOUS
<1>7. PICK v : v = [t |-> "text", n |-> n]
  OBVIOUS
<1>8. v \in [t : {"text"}, n : places]
  BY <1>4, <1>6, <1>7
<1> QED
  BY <1>5, <1>6, <1>7, <1>8 DEF Value

LEMMA ResolvedShape ==
    ASSUME run \in RunRecord, NEW r \in Ref
    PROVE  Resolved(r) \in Value \cup {Raises}
<1>1. PICK ids \in SUBSET StepIds : run.results \in [ids -> Value \cup {Skipped}]
  BY DEF RunRecord, Tables
<1>2. Null \in Value
  BY DEF Null, Value
<1>3. r.to \in {"form", "step", "secret"} /\ r.spaced \in BOOLEAN
  BY DEF Ref
<1>4. CASE r.to = "form"
  <2>1. run.payload \in Payloads
    BY DEF RunRecord
  <2>2. r.name \in DOMAIN run.payload => run.payload[r.name] \in Value
    BY <2>1, DraftsAssumption
  <2>3. Resolved(r) = IF r.name \in DOMAIN run.payload THEN run.payload[r.name] ELSE Null
    BY <1>4 DEF Resolved
  <2> QED
    BY <1>2, <2>2, <2>3
<1>5. CASE r.to = "step" /\ r.spaced
  <2>1. Resolved(r) = Word("{{ }}")
    BY <1>5 DEF Resolved
  <2> QED
    BY <2>1, WordShape
<1>6. CASE r.to = "step" /\ ~r.spaced
  <2>1. Resolved(r) = IF r.name \in Done THEN run.results[r.name] ELSE Null
    BY <1>6 DEF Resolved
  <2>2. r.name \in Done => run.results[r.name] \in Value
    BY <1>1 DEF Done
  <2> QED
    BY <1>2, <2>1, <2>2
<1>7. CASE r.to = "secret"
  <2>1. Resolved(r) = IF r.name \in secrets THEN Word("x") ELSE Raises
    BY <1>7 DEF Resolved
  <2> QED
    BY <2>1, WordShape
<1> QED
  BY <1>3, <1>4, <1>5, <1>6, <1>7

LEMMA EnvShape ==
    ASSUME run \in RunRecord, NEW ts \in Seq(Token(Ref)), NEW p \in DOMAIN ts, ts[p].k = "REF"
    PROVE  /\ ts[p].ref \in CondRefs(ts) /\ Env(ts)[ts[p].ref] = Resolved(ts[p].ref)
           /\ Resolved(ts[p].ref) \in Value \cup {Raises}
<1>1. ts[p] \in Token(Ref)
  BY ElementOfSeq, LenProperties
<1>2. ts[p].ref \in Ref
  BY <1>1 DEF Token
<1>3. ts[p].ref \in CondRefs(ts)
  BY DEF CondRefs
<1> QED
  BY <1>2, <1>3, ResolvedShape DEF Env

\* A condition that is stored and does not parse was let through by its author.
LEMMA MalformedIgnored ==
    ASSUME NEW x \in Passed, NEW j \in DOMAIN x.doc.steps,
           NEW ts \in {x.doc.steps[j].if, x.doc.steps[j].when}, ts # << >>, ~Parses(ts)
    PROVE  MalformedCode(ts) \in x.doc.steps[j].ignore
<1>1. ASSUME NEW leaf
      PROVE  Deterministic(MalformedCode(ts), x.doc.steps[j], leaf)
                 \in ConditionFindings(x.doc, j, leaf, ts)
  BY DEF ConditionFindings
<1>2. PICK leaf \in {"if", "when"} :
          Deterministic(MalformedCode(ts), x.doc.steps[j], leaf) \in StepFindings(x.doc, j)
  <2>1. CASE ts = x.doc.steps[j].if
    BY <1>1, <2>1 DEF StepFindings
  <2>2. CASE ts = x.doc.steps[j].when
    BY <1>1, <2>2 DEF StepFindings
  <2> QED
    BY <2>1, <2>2
<1>3. MalformedCode(ts) # "LLM_AMBIGUITY"
  BY DEF MalformedCode
<1> QED
  BY <1>2, <1>3, FoundIsIgnored

\* So a condition that is found malformed while a run evaluates it was let through.
LEMMA MalformedCondoned ==
    ASSUME run \in RunRecord, run.steps \in StepLists, NEW j \in DOMAIN run.steps,
           NEW ts \in {run.steps[j].if, run.steps[j].when}, Evaluate(ts, Env(ts)).err = "syntax",
           ts # << >> \/ (ts = run.steps[j].if /\ run.steps[j].kind = "condition")
    PROVE  Condoned(run.steps[j])
<1>1. PICK x \in Passed : run.steps = x.doc.steps
  BY DEF StepLists
<1>2. ts \in Seq(Token(Ref))
  BY <1>1, PassedShape DEF StepDoc
<1>3. ~Parses(ts)
  <2> SUFFICES ASSUME Parses(ts) PROVE FALSE
    OBVIOUS
  <2>1. \A p \in DOMAIN ts : ts[p].k = "REF" => Env(ts)[ts[p].ref] \in Value \cup {Raises}
    BY <1>2, EnvShape
  <2>2. Raises \notin Value
    BY DraftsAssumption
  <2>3. Evaluate(ts, Env(ts)).err \in {"none", "raised"}
    BY <1>2, <2>1, <2>2, ParsedStaysParsed
  <2> QED
    BY <2>3
<1>4. CASE ts # << >>
  BY <1>1, <1>3, <1>4, MalformedIgnored DEF Condoned
<1> QED
  BY <1>4 DEF Condoned

LEMMA RunAssembled ==
    ASSUME UNCHANGED flows, Stored(run'.flow), run' \in RunRecord, run'.at \in 0..Len(run'.steps),
           run'.status = "running" => run'.steps \in StepLists,
           run'.status \in {"failed", "suspended"} => run'.at \in DOMAIN run'.steps,
           run'.status = "failed" =>
               /\ run'.why # "tool"
               /\ run'.why = "params" => Excused(run'.steps[run'.at])
               /\ run'.why \in {"malformed", "unrendered"} => Condoned(run'.steps[run'.at])
    PROVE  RunInv'
BY DEF RunInv, Stored, FaultWasOverridden, Excused, MalformedWasOverridden, Condoned

\* The segment ends at step j, or (0) after the last one.
LEMMA SettleKeeps ==
    ASSUME RunInv, Status("running"), UNCHANGED flows, NEW j \in 0..Len(run.steps),
           NEW st \in {"suspended", "completed", "failed"}, NEW why \in Whys, Settle(j, st, why),
           st \in {"failed", "suspended"} => j \in DOMAIN run.steps,
           st = "failed" =>
               /\ why # "tool"
               /\ why = "params" => Excused(run.steps[j])
               /\ why \in {"malformed", "unrendered"} => Condoned(run.steps[j])
    PROVE  RunInv'
<1>1. run \in RunRecord /\ Stored(run.flow) /\ run.steps \in StepLists
  BY DEF RunInv, Status
<1>2. j \in Nat
  BY <1>1, StepsShape
<1>3. Restored \in Tables
  BY <1>1, RestoredShape DEF RunRecord
<1>4. /\ run' = [run EXCEPT !.status = st, !.at = j, !.why = why, !.results = Restored]
      /\ st \in Statuses
  BY DEF Settle, Statuses
<1>5. /\ run' \in RunRecord /\ run'.status = st /\ run'.at = j /\ run'.why = why
      /\ run'.steps = run.steps /\ run'.flow = run.flow
  BY <1>1, <1>2, <1>3, <1>4 DEF RunRecord
<1> QED
  BY <1>1, <1>5, RunAssembled

\* A step is passed.
LEMMA PassKeeps ==
    ASSUME RunInv, Status("running"), UNCHANGED flows, NEW j \in DOMAIN run.steps,
           NEW v \in Value \cup {Skipped}, run' = [run EXCEPT !.results = With(run.steps[j].id, v)]
    PROVE  RunInv'
<1>1. run \in RunRecord /\ Stored(run.flow) /\ run.steps \in StepLists /\ run.status = "running"
  BY DEF RunInv, Status
<1>2. With(run.steps[j].id, v) \in Tables
  BY <1>1, StepsShape, WithShape DEF RunRecord
<1>3. /\ run' \in RunRecord /\ run'.status = run.status /\ run'.at = run.at
      /\ run'.steps = run.steps /\ run'.flow = run.flow
  BY <1>1, <1>2 DEF RunRecord
<1>4. run.at \in 0..Len(run.steps)
  BY DEF RunInv, Status
<1> QED
  BY <1>1, <1>3, <1>4, RunAssembled

LEMMA FaultShape ==
    ASSUME NEW s
    PROVE  /\ Fault(s) \in Whys
           /\ Fault(s) \notin {"malformed", "unrendered"}
           /\ Fault(s) = "tool" => s.tool \notin Registry
           /\ Fault(s) = "params" => s.params \in {"missing", "unfit", "opaque"}
BY DEF Fault, Whys

LEMMA RunOfFailStep == ASSUME RunInv, FailStep PROVE RunInv'
<1>1. PICK j \in DOMAIN run.steps :
          Settle(j, "failed", IF Fault(run.steps[j]) # "none" THEN Fault(run.steps[j]) ELSE "value")
  BY DEF FailStep
<1>2. PICK why : why = IF Fault(run.steps[j]) # "none" THEN Fault(run.steps[j]) ELSE "value"
  OBVIOUS
<1>3. Status("running") /\ UNCHANGED flows
  BY DEF FailStep
<1>4. PICK x \in Passed : run.steps = x.doc.steps
  BY <1>3 DEF RunInv, Status, StepLists
<1>5. j \in 0..Len(run.steps)
  BY <1>4, PassedShape
<1>6. why \in Whys /\ why # "tool" /\ why \notin {"malformed", "unrendered"}
  BY <1>1, <1>2, <1>4, CallKnown, FaultShape DEF Whys
<1>7. why = "params" => Excused(run.steps[j])
  <2>1. why = "params" => run.steps[j].params \in {"missing", "unfit", "opaque"}
    BY <1>2, FaultShape
  <2> QED
    BY <1>1, <1>4, <2>1, CallFits
<1> QED
  BY <1>1, <1>2, <1>3, <1>5, <1>6, <1>7, SettleKeeps

LEMMA RunOfConditions == ASSUME RunInv, FailGuard \/ Skip \/ EvaluateCondition PROVE RunInv'
<1>1. Status("running") /\ UNCHANGED flows
  BY DEF FailGuard, Skip, EvaluateCondition
<1>2. run.steps \in StepLists /\ DOMAIN run.steps = 1..Len(run.steps) /\ Len(run.steps) \in Nat
  BY <1>1, StepsShape DEF RunInv, Status
<1>3. ASSUME NEW j \in DOMAIN run.steps, NEW err, Settle(j, "failed", Reason(err)),
             err = "syntax" => Condoned(run.steps[j])
      PROVE  RunInv'
  <2>1. PICK why : why = Reason(err)
    OBVIOUS
  <2>2. /\ why \in Whys /\ why # "tool" /\ why # "params"
        /\ why = "malformed" => err = "syntax"
        /\ why # "unrendered"
    BY <2>1 DEF Reason, Whys
  <2>3. j \in 0..Len(run.steps)
    BY <1>2
  <2> QED
    BY <1>1, <1>3, <2>1, <2>2, <2>3, SettleKeeps
<1>4. run \in RunRecord /\ run.steps \in StepLists
  BY <1>1 DEF RunInv, Status
<1>5. CASE FailGuard
  <2>1. PICK j \in DOMAIN run.steps :
            Guard(run.steps[j]).err # "none" /\ Settle(j, "failed", Reason(Guard(run.steps[j]).err))
    BY <1>5 DEF FailGuard
  <2>2. PICK ts : ts = run.steps[j].when
    OBVIOUS
  <2>3. ts # << >> /\ Guard(run.steps[j]) = Evaluate(ts, Env(ts))
    BY <2>1, <2>2 DEF Guard, Got
  <2>4. Guard(run.steps[j]).err = "syntax" => Condoned(run.steps[j])
    BY <1>4, <2>2, <2>3, MalformedCondoned
  <2> QED
    BY <1>3, <2>1, <2>4
<1>6. CASE Skip
  BY <1>1, <1>6, PassKeeps DEF Skip
<1>7. CASE EvaluateCondition
  <2>1. PICK j \in DOMAIN run.steps :
            /\ run.steps[j].kind = "condition"
            /\ LET r == Evaluate(run.steps[j].if, Env(run.steps[j].if))
               IN  \/ r.err # "none" /\ Settle(j, "failed", Reason(r.err))
                   \/ r.err = "none" /\ run.steps[j].raw /\ Settle(j, "failed", "unrendered")
                   \/ r.err = "none" /\ run' = [run EXCEPT !.results = With(run.steps[j].id, r.val)]
    BY <1>7 DEF EvaluateCondition
  <2> DEFINE r == Evaluate(run.steps[j].if, Env(run.steps[j].if))
  <2>2. CASE r.err # "none" /\ Settle(j, "failed", Reason(r.err))
    <3>1. r.err = "syntax" => Condoned(run.steps[j])
      BY <1>4, <2>1, MalformedCondoned
    <3> QED
      BY <1>3, <2>2, <3>1
  <2>3. CASE r.err = "none" /\ run' = [run EXCEPT !.results = With(run.steps[j].id, r.val)]
    <3>1. r.val \in Value
      BY <2>3, EvaluatedShape
    <3> HIDE DEF r
    <3> QED
      BY <1>1, <2>3, <3>1, PassKeeps
  <2>4. CASE run.steps[j].raw /\ Settle(j, "failed", "unrendered")
    <3>1. Condoned(run.steps[j])
      BY <2>1, <2>4 DEF Condoned
    <3>2. j \in 0..Len(run.steps) /\ "unrendered" \in Whys
      BY <1>2 DEF Whys
    <3> QED
      BY <1>1, <2>4, <3>1, <3>2, SettleKeeps
  <2> QED
    BY <2>1, <2>2, <2>3, <2>4
<1> QED
  BY <1>5, <1>6, <1>7

LEMMA RunOfSegment ==
    ASSUME RunInv, CompleteStep \/ Suspend \/ Complete
    PROVE  RunInv'
<1>1. Status("running") /\ UNCHANGED flows
  BY DEF CompleteStep, Suspend, Complete
<1>2. run.steps \in StepLists /\ DOMAIN run.steps = 1..Len(run.steps) /\ Len(run.steps) \in Nat
  BY <1>1, StepsShape DEF RunInv, Status
<1>3. CASE CompleteStep
  <2>1. PICK j \in DOMAIN run.steps, v \in Results : run' = [run EXCEPT !.results = With(run.steps[j].id, v)]
    BY <1>3 DEF CompleteStep
  <2>2. v \in Value \cup {Skipped}
    BY DraftsAssumption
  <2> QED
    BY <1>1, <2>1, <2>2, PassKeeps
<1>4. CASE Suspend
  <2>1. PICK j \in DOMAIN run.steps : Settle(j, "suspended", "none")
    BY <1>4 DEF Suspend
  <2>2. j \in 0..Len(run.steps) /\ "none" \in Whys
    BY <1>2 DEF Whys
  <2> QED
    BY <1>1, <2>1, <2>2, SettleKeeps
<1>5. CASE Complete
  <2>1. Settle(0, "completed", "none") /\ 0 \in 0..Len(run.steps) /\ "none" \in Whys
    BY <1>2, <1>5 DEF Complete, Whys
  <2> QED
    BY <1>1, <2>1, SettleKeeps
<1> QED
  BY <1>3, <1>4, <1>5

LEMMA RunOfCreate == ASSUME CreateRun PROVE RunInv'
<1>1. PICK f \in FlowIds, p \in Payloads :
          /\ Stored(f)
          /\ run' = [flow |-> f, payload |-> p, status |-> "queued", steps |-> << >>,
                     results |-> [id \in {} |-> Null], at |-> 0, why |-> "none"]
          /\ UNCHANGED flows
  BY DEF CreateRun
<1>2. PICK table : table = [id \in {} |-> Null]
  OBVIOUS
<1>3. table \in [{} -> Value \cup {Skipped}]
  BY <1>2
<1>4. table \in Tables
  BY <1>3 DEF Tables
<1>5. /\ run' \in RunRecord /\ run'.status = "queued" /\ run'.flow = f
      /\ run'.at = 0 /\ run'.steps = << >>
  BY <1>1, <1>2, <1>4 DEF RunRecord, Statuses, Whys
<1>6. 0 \in 0..Len(<< >>)
  OBVIOUS
<1> QED
  BY <1>1, <1>5, <1>6, RunAssembled

LEMMA RunOfBegin == ASSUME FlowsInv, RunInv, Begin PROVE RunInv'
<1>1. run \in RunRecord /\ Stored(run.flow) /\ UNCHANGED flows
  BY DEF Begin, RunInv, Status
<1>2. PICK steps : steps = flows[run.flow].doc.steps
  OBVIOUS
<1>3. steps \in StepLists
  <2>1. flows[run.flow] \in Passed
    BY <1>1 DEF FlowsInv, Stored, RunRecord
  <2> QED
    BY <1>2, <2>1 DEF StepLists
<1>4. run' = [run EXCEPT !.status = "running", !.steps = steps, !.at = 0, !.why = "none"]
  BY <1>2 DEF Begin
<1>5. /\ run' \in RunRecord /\ run'.status = "running" /\ run'.flow = run.flow
      /\ run'.at = 0 /\ run'.steps = steps
  BY <1>1, <1>3, <1>4 DEF RunRecord, Statuses, Whys
<1>6. 0 \in 0..Len(steps)
  BY <1>3, StepsShape
<1> QED
  BY <1>1, <1>3, <1>5, <1>6, RunAssembled

LEMMA RunOfResume == ASSUME RunInv, Resume PROVE RunInv'
<1>1. /\ run \in RunRecord /\ Stored(run.flow) /\ UNCHANGED flows
      /\ run.at \in DOMAIN run.steps /\ run.at \in 0..Len(run.steps)
  BY DEF Resume, RunInv, Status
<1>2. PICK table \in Tables : \/ run' = [run EXCEPT !.status = "queued", !.results = table]
                              \/ run' = [run EXCEPT !.status = "queued"]
  <2>1. CASE \E v \in Results : run' = [run EXCEPT !.status = "queued", !.results = With(run.steps[run.at].id, v)]
    <3>1. PICK v \in Results :
              run' = [run EXCEPT !.status = "queued", !.results = With(run.steps[run.at].id, v)]
      BY <2>1
    <3>2. v \in Value \cup {Skipped}
      BY DraftsAssumption
    <3>3. run.steps[run.at].id \in StepIds
      BY <1>1, StepsShape DEF RunRecord
    <3> QED
      BY <1>1, <3>1, <3>2, <3>3, WithShape DEF RunRecord
  <2>2. CASE run' = [run EXCEPT !.status = "queued"]
    BY <1>1, <2>2 DEF RunRecord
  <2> QED
    BY <2>1, <2>2 DEF Resume
<1>3. /\ run' \in RunRecord /\ run'.status = "queued" /\ run'.flow = run.flow
      /\ run'.at = run.at /\ run'.steps = run.steps
  BY <1>1, <1>2 DEF RunRecord, Statuses
<1> QED
  BY <1>1, <1>3, RunAssembled

LEMMA RunOfNext == ASSUME FlowsInv, RunInv, [Next]_vars PROVE RunInv'
<1>1. CASE Register \/ Update \/ SetCredential \/ UNCHANGED vars
  <2>1. UNCHANGED run
    BY <1>1 DEF Register, Update, SetCredential, vars
  <2>2. \A g \in FlowIds : Stored(g) => Stored(g)'
    BY FlowsInvOfNext
  <2>3. /\ FaultWasOverridden => FaultWasOverridden'
        /\ MalformedWasOverridden => MalformedWasOverridden'
    BY <2>1 DEF FaultWasOverridden, MalformedWasOverridden
  <2>4. run # NoRun => run.flow \in FlowIds
    BY DEF RunInv, RunRecord
  <2>5. \A g \in FlowIds : Stored(g) => flows'[g] # NoFlow
    BY <2>2 DEF Stored
  <2>6. run # NoRun => flows'[run.flow] # NoFlow
    BY <2>4, <2>5 DEF RunInv
  <2> QED
    BY <2>1, <2>3, <2>6 DEF RunInv, Stored
<1> QED
  BY <1>1, RunOfFailStep, RunOfConditions, RunOfSegment, RunOfCreate, RunOfBegin, RunOfResume DEF Next

LEMMA RunKept == Spec => [](FlowsInv /\ RunInv)
<1>1. Init => RunInv
  BY DEF Init, RunInv
<1>2. FlowsInv /\ RunInv /\ [Next]_vars => FlowsInv' /\ RunInv'
  BY FlowsInvOfNext, RunOfNext
<1> QED
  BY <1>1, <1>2, FlowsInvOfInit, PTL DEF Spec

----------------------------------------------------------------------------
(* Theorems about runs. *)

\* No call of a step fails on its tool or its parameters but by its author's own
\* lint_ignore, or where no rule looks (an artifact step, a value that is no scalar),
\* though the flow may have been replaced while the run went on.
THEOREM FaultsAreOverridden == Spec => []FaultWasOverridden
<1>1. RunInv => FaultWasOverridden
  BY DEF RunInv, FaultWasOverridden
<1> QED
  BY <1>1, RunKept, PTL

\* Nor does a condition turn out malformed, unless its author overrode the code it
\* is reported with or its `if` is blank or no string: one that parses when it is
\* stored, with every reference null, parses whatever the references resolve to.
THEOREM MalformedAreOverridden == Spec => []MalformedWasOverridden
<1>1. RunInv => MalformedWasOverridden
  BY DEF RunInv, MalformedWasOverridden
<1> QED
  BY <1>1, RunKept, PTL

\* What a guard or a condition is evaluated to, while a run is at its step, is what
\* the grammar gives it, and what the grammar does not have is rejected.
THEOREM ConditionsMeanWhatTheySay == Spec => []EvaluatorIsGrammar
<1>1. RunInv => EvaluatorIsGrammar
  <2> SUFFICES ASSUME RunInv, NEW j \in 1..(IF run = NoRun THEN 0 ELSE Len(run.steps)),
                      NEW ts \in {run.steps[j].if, run.steps[j].when}, IsNext(j),
                      \A r \in CondRefs(ts) : Resolved(r) # Raises
               PROVE  Meanings(ts, Env(ts))
                      = IF Evaluate(ts, Env(ts)).err = "none" THEN {Evaluate(ts, Env(ts)).val} ELSE {}
    BY DEF EvaluatorIsGrammar
  <2>1. run \in RunRecord /\ run.steps \in StepLists /\ run # NoRun
    BY DEF RunInv, IsNext, Status
  <2>2. j \in DOMAIN run.steps
    BY <2>1, StepsShape
  <2>3. ts \in Seq(Token(Ref))
    BY <2>1, <2>2, StepsShape DEF StepDoc
  <2>4. \A p \in DOMAIN ts : ts[p].k = "REF" => Env(ts)[ts[p].ref] \in Value
    BY <2>1, <2>3, EnvShape
  <2>5. Raises \notin Value
    BY DraftsAssumption
  <2> QED
    BY <2>3, <2>4, <2>5, EvaluatorIsRight
<1> QED
  BY <1>1, RunKept, PTL

\* A step that is reached refers to steps that have been passed, in its params,
\* its `if` and its guard, unless its author overrode that.
THEOREM RefsStayInScope == Spec => []RefsInScope
<1>1. RunInv => RefsInScope
  <2> SUFFICES ASSUME RunInv, NEW j \in 1..(IF run = NoRun THEN 0 ELSE Len(run.steps)), IsNext(j)
               PROVE  LET s == run.steps[j]
                          conditions == IF Parses(s.if) THEN CondRefs(s.if) ELSE {}
                          guards == IF Parses(s.when) THEN CondRefs(s.when) ELSE {}
                          InScope(r) == r.to = "step" => r.name \in DOMAIN run.results
                      IN
                      /\ {"FORWARD_STEP", "UNKNOWN_STEP"} \cap s.ignore # {} \/ \A r \in s.refs : InScope(r)
                      /\ "CONDITION_UNKNOWN_VAR" \in s.ignore \/ \A r \in conditions \cup guards : InScope(r)
    BY DEF RefsInScope
  <2>1. PICK x \in Passed : run.steps = x.doc.steps
    BY DEF RunInv, IsNext, Status, StepLists
  <2>2. j \in DOMAIN x.doc.steps
    BY <2>1, PassedShape DEF IsNext, Status
  <2>3. PriorIds(x.doc, j) \subseteq DOMAIN run.results
    BY <2>1 DEF PriorIds, IsNext
  <2>4. PICK s : s = x.doc.steps[j]
    OBVIOUS
  <2>5. {"FORWARD_STEP", "UNKNOWN_STEP"} \cap s.ignore # {}
        \/ \A r \in s.refs : r.to = "step" => r.name \in DOMAIN run.results
    BY <2>2, <2>3, <2>4, RefsIgnored DEF Stray
  <2>6. ASSUME NEW ts \in {s.if, s.when}, Parses(ts), "CONDITION_UNKNOWN_VAR" \notin s.ignore
        PROVE  \A r \in CondRefs(ts) : r.to = "step" => r.name \in DOMAIN run.results
    BY <2>2, <2>3, <2>4, <2>6, ConditionsIgnored DEF Stray
  <2> QED
    BY <2>1, <2>4, <2>5, <2>6
<1> QED
  BY <1>1, RunKept, PTL

LEMMA TypedOfInv == ASSUME FlowsInv, RunInv, secrets \subseteq Secrets PROVE TypeOK
<1>1. ASSUME NEW f \in FlowIds, Stored(f)
      PROVE  Document(flows[f].doc) /\ flows[f].said \subseteq LlmFinding /\ Row(flows[f].doc.name) = {f}
  <2>1. flows[f] \in Passed
    BY <1>1 DEF FlowsInv, Stored
  <2>2. Row(flows[f].doc.name) = {f}
    BY <1>1 DEF FlowsInv, Row
  <2> QED
    BY <2>1, <2>2, PassedShape
<1>2. ASSUME run # NoRun
      PROVE  /\ Stored(run.flow) /\ run.payload \in Payloads /\ run.status \in Statuses
             /\ \A j \in DOMAIN run.steps : StepDoc(run.steps[j])
             /\ DOMAIN run.results \subseteq StepIds
             /\ \A id \in DOMAIN run.results : run.results[id] \in Value \cup {Skipped}
             /\ run.at \in 0..Len(run.steps) /\ run.why \in Whys
  <2>1. run \in RunRecord /\ Stored(run.flow) /\ run.at \in 0..Len(run.steps)
    BY <1>2 DEF RunInv
  <2>2. \A j \in DOMAIN run.steps : StepDoc(run.steps[j])
    BY <2>1, StepsShape DEF RunRecord
  <2>3. PICK ids \in SUBSET StepIds : run.results \in [ids -> Value \cup {Skipped}]
    BY <2>1 DEF RunRecord, Tables
  <2> QED
    BY <2>1, <2>2, <2>3 DEF RunRecord
<1> QED
  BY <1>1, <1>2 DEF TypeOK, FlowsInv, Statuses, Whys

LEMMA SecretsOfNext == ASSUME secrets \subseteq Secrets, [Next]_vars PROVE secrets' \subseteq Secrets
<1>1. CASE SetCredential
  BY <1>1 DEF SetCredential
<1>2. CASE ~SetCredential
  BY <1>2 DEF Next, vars, Register, Update, CreateRun, Begin, FailGuard, Skip,
              EvaluateCondition, FailStep, CompleteStep, Suspend, Resume, Complete
<1> QED
  BY <1>1, <1>2

\* The tables and the run keep their types, and a name is in one row only.
THEOREM DocumentsTyped == Spec => []TypeOK
<1>1. Init => secrets \subseteq Secrets
  BY DEF Init
<1>2. secrets \subseteq Secrets /\ [Next]_vars => (secrets \subseteq Secrets)'
  BY SecretsOfNext
<1>3. Spec => [](secrets \subseteq Secrets)
  BY <1>1, <1>2, PTL DEF Spec
<1> QED
  BY <1>3, RunKept, TypedOfInv, PTL
=============================================================================
