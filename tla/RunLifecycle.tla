---------------------------- MODULE RunLifecycle ----------------------------
(***************************************************************************)
(* What a run promises to somebody who looks at it from outside: its       *)
(* status moves only along the documented life cycle, its steps are begun  *)
(* in the order of the plan, each after the ones before it were settled, a *)
(* step that waits for a human or a callback is settled only by an answer  *)
(* to a suspended run, and a run completes when all its steps are settled. *)
(* Which thread does it, and how often a step is attempted, is left open.  *)
(***************************************************************************)
EXTENDS Naturals

CONSTANTS
    Runs,
    Steps,      \* 1..n, in the order of the plan
    Gates       \* the steps that wait for an answer

VARIABLES
    status,     \* of each run
    begun,      \* steps that were ever begun
    settled     \* steps that were dealt with

vars == <<status, begun, settled>>

Init ==
    /\ status = [r \in Runs |-> "absent"]
    /\ begun = [r \in Runs |-> {}]
    /\ settled = [r \in Runs |-> {}]

Moves(r, from, to) == status[r] = from /\ status' = [status EXCEPT ![r] = to]

Reached(r, j) == status[r] = "running" /\ \A i \in Steps : i < j => i \in settled[r]

Create(r) == Moves(r, "absent", "queued") /\ UNCHANGED <<begun, settled>>

Start(r) == Moves(r, "queued", "running") /\ UNCHANGED <<begun, settled>>

Begin(r, j) ==
    /\ Reached(r, j)
    /\ begun' = [begun EXCEPT ![r] = @ \cup {j}]
    /\ UNCHANGED <<status, settled>>

\* Passing a step without running it begins and settles it at once.
Skip(r, j) ==
    /\ Reached(r, j)
    /\ begun' = [begun EXCEPT ![r] = @ \cup {j}]
    /\ settled' = [settled EXCEPT ![r] = @ \cup {j}]
    /\ UNCHANGED status

Settle(r, j) ==
    /\ status[r] = "running"
    /\ j \in begun[r] \ Gates
    /\ settled' = [settled EXCEPT ![r] = @ \cup {j}]
    /\ UNCHANGED <<status, begun>>

Suspend(r) == Moves(r, "running", "suspended") /\ UNCHANGED <<begun, settled>>

\* An answer resumes the run; it may settle a step that was begun.
Answer(r) ==
    /\ Moves(r, "suspended", "queued")
    /\ \E S \in SUBSET begun[r] :
          /\ \A i, j \in S : i = j
          /\ settled' = [settled EXCEPT ![r] = @ \cup S]
    /\ UNCHANGED begun

Complete(r) ==
    /\ Moves(r, "running", "completed")
    /\ settled[r] = Steps
    /\ UNCHANGED <<begun, settled>>

Fail(r) ==
    /\ Moves(r, "running", "failed") \/ Moves(r, "suspended", "failed")
    /\ UNCHANGED <<begun, settled>>

Retry(r) == Moves(r, "failed", "queued") /\ UNCHANGED <<begun, settled>>

Next ==
    \E r \in Runs :
        \/ Create(r) \/ Start(r) \/ Suspend(r) \/ Answer(r)
        \/ Complete(r) \/ Fail(r) \/ Retry(r)
        \/ \E j \in Steps : Begin(r, j) \/ Skip(r, j) \/ Settle(r, j)

Spec == Init /\ [][Next]_vars
=============================================================================
