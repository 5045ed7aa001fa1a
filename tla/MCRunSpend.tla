----------------------------- MODULE MCRunSpend -----------------------------
EXTENDS MCStepExecution, RunSpend
=============================================================================
