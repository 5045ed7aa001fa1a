------------------------------ MODULE PiiTokens -----------------------------
(***************************************************************************)
(* What happens to personal data in the arguments and results of a tool    *)
(* call (policies/policy_engine.py, policies/pii_token_vault.py).  An      *)
(* argument is abstracted to its content: nothing personal, a personal     *)
(* value, or a placeholder token; and its place: a path that the tool's    *)
(* allow-list covers or one it does not.                                   *)
(***************************************************************************)
EXTENDS Naturals, Sequences

CONSTANTS
    Values,         \* personal values of one type (two e-mail addresses, say)
    NoValue,
    EnforcePii,     \* enforce_pii_redaction (not pii.allow)
    TokenizeInputs  \* tokenize_model_inputs

ASSUME PiiAssumption ==
    /\ NoValue \notin Values
    /\ EnforcePii \in BOOLEAN /\ TokenizeInputs \in BOOLEAN

\* A token is __PII_<TYPE>_n__: nothing but its number n is visible in it.  of
\* remembers the value it was minted for, which the code does not.
Content == [kind : {"plain", "pii", "token"}, of : Values \cup {NoValue}, n : Nat]

Plain == [kind |-> "plain", of |-> NoValue, n |-> 0]

Pii(v) == [kind |-> "pii", of |-> v, n |-> 0]

\* The vault of a run: the n-th token stands for vault[n].
Vaults == Seq(Values)

TokensOf(vault, v) == {n \in 1..Len(vault) : vault[n] = v}

\* PIITokenVault.tokenize: the token a value has already, else the next one.
Mint(vault, v) == IF TokensOf(vault, v) = {} THEN Append(vault, v) ELSE vault

Tokenized(vault, v) ==
    [kind |-> "token", of |-> v, n |-> CHOOSE n \in TokensOf(Mint(vault, v), v) : TRUE]

\* policy_engine's tool classes; every other tool is local.
ToolClass == {"model", "outbound", "local"}

\* The personal-data part of check_tool_call: an outbound call needs an
\* allow-listed path whatever pii.allow says, a local one only when enforced.
PiiRefused(class, c, allowed) ==
    /\ c.kind = "pii" /\ ~allowed
    /\ class = "outbound" \/ (class = "local" /\ EnforcePii)

\* Mutant of Sendable: a token without a mapping is sent as it stands.
SendableUnresolved(vault, class, c, allowed) ==
    c.kind = "token" /\ class = "outbound" => allowed

\* detokenize_arguments raises when a token is on another path than the allowed
\* ones or has no mapping.
Sendable(vault, class, c, allowed) ==
    c.kind = "token" /\ class = "outbound" => allowed /\ c.n \in 1..Len(vault)

\* The content a tool receives, and the vault afterwards: a model gets tokens, an
\* outbound tool gets what its tokens map to, a local tool what there is.
Sent(vault, class, c) ==
    CASE class = "model" /\ TokenizeInputs /\ c.kind = "pii" -> Tokenized(vault, c.of)
      [] class = "outbound" /\ c.kind = "token" /\ c.n \in 1..Len(vault) -> Pii(vault[c.n])
      [] OTHER -> c

VaultAfter(vault, class, c) ==
    IF class = "model" /\ TokenizeInputs /\ c.kind = "pii" THEN Mint(vault, c.of) ELSE vault

\* redact_output: a result keeps the tokens a model echoed, never a raw value.
Returned(sent) == IF sent.kind = "token" THEN {Plain, sent} ELSE {Plain}
=============================================================================
