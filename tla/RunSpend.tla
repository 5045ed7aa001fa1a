------------------------------ MODULE RunSpend ------------------------------
(***************************************************************************)
(* What a run really spends, beside what it counts.  The budget tracker    *)
(* lives as long as a segment; the next one starts from the tokens columns *)
(* of the rows, which hold a tool's usage of the last attempt.  What the   *)
(* planner, the verifier and the critic took is in no row.                 *)
(***************************************************************************)
EXTENDS StepExecution

VARIABLE spent      \* the tokens of every call of the run (a history variable)

\* Every call is recorded in the segment that makes it; a new segment only reads.
Spend == spent' = spent + (IF seg' = seg THEN used' - used ELSE 0)

SpendSpec == Init /\ spent = 0 /\ [][Next /\ Spend]_<<vars, spent>>

\* "Budgets are per run, not per execution segment ... Every attempt spent real
\* tokens/cost": the calls of a run pass its cap by no more than one step's calls.
\* They do not: each segment has the calls that are in no row free.
SpendBounded == spent < MaxTokens + Overshoot
=============================================================================
