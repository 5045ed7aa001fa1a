------------------------------ MODULE MCAccess ------------------------------
EXTENDS Access, TLC

CONSTANTS a, b, ea, eb, r1, r2, s1

MCAddress == (a :> ea) @@ (b :> eb)

\* A provider that links verified addresses and makes accounts; NoProvider, which
\* an admin may set too, is as good as one that is switched off.
MCConfigs == { [enabled |-> TRUE, trust |-> FALSE, jit |-> TRUE, role |-> "viewer",
                domains |-> {ea, eb}] }

Interchangeable == Permutations(Requests)
=============================================================================
