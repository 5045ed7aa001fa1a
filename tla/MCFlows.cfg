SPECIFICATION Spec
CONSTANTS
    StepIds = {"a", "b", "c"}
    Fields = {"f", "g"}
    Secrets = {"s"}
    Names = {"n", "m"}
    FlowIds = {f1, f2}
    f1 = f1
    f2 = f2
    Tools = {"known", "custom", "unknown"}
    Registry = {"known", "custom"}
    Catalog = {"known"}
    Drafts <- MCDrafts
    Payloads <- MCPayloads
    Results <- MCResults
    NoFlow = NoFlow
    NoRun = NoRun
    Raises = Raises
SYMMETRY Symmetric
CHECK_DEADLOCK FALSE
INVARIANTS TypeOK EvaluatorIsGrammar FaultWasOverridden MalformedWasOverridden RefsInScope ProseEnforced PoliciesAgree NoBrokenOverride CriticHeard
