------------------------------- MODULE MCFlows ------------------------------
EXTENDS Flows, TLC

Form(f) == [to |-> "form", name |-> f, spaced |-> FALSE]
Step(id, spaced) == [to |-> "step", name |-> id, spaced |-> spaced]
Secret(c) == [to |-> "secret", name |-> c, spaced |-> FALSE]

NoRef == Form("f")
Op(k) == [k |-> k, v |-> Null, ref |-> NoRef]
Lit(v) == [k |-> "LIT", v |-> v, ref |-> NoRef]
To(r) == [k |-> "REF", v |-> Null, ref |-> r]

AnyBounds == [min |-> {}, max |-> {}]

Plain(id) == [id |-> id, kind |-> "tool", tool |-> "known", params |-> "fit", refs |-> {},
              if |-> << >>, raw |-> FALSE, when |-> << >>, prose |-> AnyBounds, expect |-> AnyBounds, ignore |-> {}]

Doc(steps) == [name |-> "n", fields |-> {"f"}, uses |-> {}, steps |-> steps,
               policies |-> [k \in {} |-> 0]]

\* Every condition of up to three tokens, and three operands joined, stored by
\* an author who overrides the linter.
Short(tokens, n) == UNION {[1..m -> tokens] : m \in 0..n}

Conditions3 == Short({Op("AND"), Op("OR"), Op("NOT"), Op("LP"), Op("RP"), Op("EQ"), To(Form("f"))}, 3)

Conditions7 ==
    LET operand == {<<To(Form("f"))>>, <<Op("NOT"), To(Form("f"))>>,
                    <<Lit(Number(1)), Op("GT"), To(Form("f"))>>, <<Op("LP"), To(Form("f")), Op("RP")>>}
        joint == {<<Op("AND")>>, <<Op("OR")>>}
    IN {a \o x \o b \o y \o c : a, b, c \in operand, x, y \in joint}

Overriding == {"CONDITION_PARSE_ERROR"}

ConditionDrafts ==
    {Doc(<<[Plain("a") EXCEPT !.when = ts, !.ignore = Overriding]>>) : ts \in Conditions3 \cup Conditions7}

\* Two steps that refer to each other, to themselves, to the form, to a secret.
Refs == {{}, {Form("f")}, {Form("g")}, {Secret("s")}} \cup
        {{Step(id, spaced)} : id \in {"a", "b", "c"}, spaced \in BOOLEAN}

RefDrafts ==
    {[Doc(<<[Plain("a") EXCEPT !.refs = ra, !.kind = k, !.ignore = i],
            [Plain("b") EXCEPT !.refs = rb, !.when = w]>>) EXCEPT !.uses = u]
     : ra \in Refs, rb \in {{}, {Step("a", FALSE)}, {Secret("s")}}, k \in {"tool", "approval"},
       w \in {<<To(Step("a", FALSE))>>, <<To(Step("b", TRUE))>>, <<Op("NOT"), To(Secret("s"))>>,
              <<To(Form("f")), Op("BAD")>>},
       i \in {{}, {"FORWARD_STEP"}, {"FORWARD_STEP", "bogus", "LINT_IGNORE_UNKNOWN_CODE"}},
       u \in {{}, {"s"}}}

\* One step with every kind of param, tool, condition, prose and policies.
\* At most two keys are given.
FewPolicies == UNION {[keys -> {0, 1}] : keys \in {{j, k} : j, k \in PolicyKeys}}

BoundsTried == [min : {{}, {1}, {2}}, max : {{}, {1}, {2}}]

StepDrafts ==
    {Doc(<<s>>) : s \in
        {[Plain("a") EXCEPT !.tool = t, !.params = p, !.ignore = i] :
            t \in {"known", "custom", "unknown"}, p \in Params,
            i \in {{}, {"TYPE_MISMATCH", "MISSING_REQUIRED"}}}
        \cup {[Plain("a") EXCEPT !.kind = "artifact", !.params = p] : p \in Params}
        \cup {[Plain("a") EXCEPT !.kind = "condition", !.if = <<Lit(v)>>, !.raw = TRUE] :
            v \in {Bool(TRUE), Null}}
        \cup {[Plain("a") EXCEPT !.when = <<To(Form("f")), Op("ARITH"), Lit(Number(1))>>, !.ignore = {i}] :
            i \in {"CONDITION_PARSE_ERROR", "CONDITION_ARITHMETIC"}}
        \cup {[Plain("a") EXCEPT !.kind = "ai", !.prose = b, !.expect = e] :
            b, e \in BoundsTried}
        \cup {[Plain("a") EXCEPT !.kind = "condition", !.if = ts] :
            ts \in {<< >>, <<To(Form("f"))>>, <<Op("LP"), To(Form("f"))>>}}}
    \cup {[Doc(<<Plain("a")>>) EXCEPT !.policies = p] : p \in FewPolicies}

\* What an operator sends later: another flow, a renamed one, one with the steps
\* in another order.
LaterDrafts ==
    {[Doc(<<Plain("b")>>) EXCEPT !.name = "m"],
     Doc(<<[Plain("b") EXCEPT !.kind = "approval"],
           [Plain("a") EXCEPT !.refs = {Step("b", FALSE)}, !.when = <<To(Step("b", FALSE))>>]>>),
     Doc(<<Plain("c"), [Plain("a") EXCEPT !.refs = {Step("c", FALSE)}],
           [Plain("b") EXCEPT !.refs = {Step("a", FALSE)}]>>)}

MCPayloads == {[x \in {} |-> Null]} \cup {[x \in {"f"} |-> v] : v \in {Bool(TRUE), Word("1"), Word("no")}}

MCResults == {Bool(FALSE), Word("x")}

Said(code, step, leaf) == {[code |-> code, step |-> step, leaf |-> leaf, source |-> "llm"]}

\* The critic says nothing, or something of the flow, or something of a step,
\* at a leaf or vaguely, that the rules have found there or elsewhere.
FirstDrafts ==
    [doc : ConditionDrafts \cup RefDrafts \cup StepDrafts, said : {{}}]
      \cup [doc : RefDrafts, said : {Said("LLM_ERROR", "b", "none"), Said("LLM_ERROR", "a", "none")}]
      \cup [doc : {Doc(<<Plain("a")>>)}, said : {Said("LLM_AMBIGUITY", "none", "none")}]

MCDrafts == <<FirstDrafts, [doc : LaterDrafts, said : {{}}]>>

Symmetric == Permutations(FlowIds)
=============================================================================
