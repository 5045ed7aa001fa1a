--------------------------- MODULE MCStepExecution --------------------------
EXTENDS StepExecution, TLC

CONSTANTS ai, http, store, v1, v2

MCClass == (ai :> "model") @@ (http :> "outbound") @@ (store :> "local")

Call(j, tool, allowed, form, from) ==
    [step |-> j, tool |-> tool, allowed |-> allowed, form |-> form, from |-> from, sound |-> TRUE]

Step(c, retries, onError) == [call |-> c, retries |-> retries, onError |-> onError]

\* A model reads a personal form field; its result goes out over HTTP.
PlanNotify == << Step(Call(1, ai, TRUE, v1, 0), 1, "escalate"),
                 Step(Call(2, http, TRUE, NoValue, 1), 0, "continue") >>

\* What a replanning model may come up with: the result on a path that is not
\* allowed, another step's call, an undeclared tool, a template that fails.
RevisionsNotify == { Call(2, http, FALSE, NoValue, 1),
                     Call(1, ai, TRUE, v2, 0),
                     Call(1, store, TRUE, NoValue, 0),
                     [Call(2, ai, TRUE, NoValue, 0) EXCEPT !.sound = FALSE] }

\* Two model steps, then the first result goes out.
PlanTwoModels == << Step(Call(1, ai, TRUE, v1, 0), 0, "fail"),
                    Step(Call(2, ai, TRUE, v2, 0), 0, "fail"),
                    Step(Call(3, http, TRUE, NoValue, 1), 0, "fail") >>
=============================================================================
