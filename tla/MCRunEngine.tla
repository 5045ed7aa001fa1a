---------------------------- MODULE MCRunEngine -----------------------------
EXTENDS RunEngine

CONSTANTS r1, r2, w1, w2

Step(outs, policy) == [outcomes |-> outs, onError |-> policy]

\* A change with an approval: collect, approve, apply, report.
PlanGate == << Step({"data", "error"}, "fail"),
               Step({"gate"}, "escalate"),
               Step({"data", "escPre"}, "fail") >>

\* Every outcome and every policy.
PlanRich == << Step({"data", "empty", "critique", "refused", "blocked"}, "fail"),
               Step({"gate", "skip"}, "escalate"),
               Step({"data", "error", "escPre", "escPost"}, "escalate"),
               Step({"data", "error"}, "continue") >>
=============================================================================
