--------------------------- MODULE BudgetMetrics ---------------------------
(***************************************************************************)
(* The arithmetic of an automation budget: what an operation reserves      *)
(* before it runs and what it is charged once its outcome is known         *)
(* (src/core/automation/budget.ts, consumedFor of budget-store.ts).        *)
(* Tokens and cost are left out: no budget that limits them is published,  *)
(* and every operation reserves and consumes none of them.                 *)
(***************************************************************************)
EXTENDS Naturals

Metric == {"agent_turns", "successful_acquisitions", "runner_invocations",
           "provider_failures", "repair_cycles"}

Operation == {"acquisition", "dispatch", "provider_invocation", "retry",
              "dispatch_attempt", "retry_attempt"}

Outcome == {"progress", "completed", "no_progress", "provider_failure",
            "transient_failure"}

\* How a reservation ends: with the outcome its caller observed, or with one of
\* the three decisions about an operation that was interrupted.
Resolution == {"observed", "reconciled_observed", "reconciled_reserved",
               "reconciled_not_started"}

Vector == [Metric -> Nat]
Zero == [m \in Metric |-> 0]
Plus(v, w) == [m \in Metric |-> v[m] + w[m]]
AtMost(v, w) == \A m \in Metric : v[m] <= w[m]

Attempts == {"dispatch_attempt", "retry_attempt"}
Retries == {"retry", "retry_attempt"}

\* The upper bound an operation may spend.
Reserved(op) ==
  [agent_turns |-> IF op \in Attempts THEN 2 ELSE 1,
   successful_acquisitions |-> IF op = "acquisition" THEN 1 ELSE 0,
   runner_invocations |->
     IF op = "acquisition" THEN 0 ELSE IF op \in Attempts THEN 2 ELSE 1,
   provider_failures |-> IF op = "acquisition" THEN 0 ELSE 1,
   repair_cycles |-> IF op \in Retries THEN 1 ELSE 0]

Progressed(outcome) == outcome \in {"progress", "completed"}
Failed(outcome) == outcome \in {"provider_failure", "transient_failure"}

\* What an operation with a known outcome has cost.
Derived(op, outcome) ==
  [Reserved(op) EXCEPT
     !.successful_acquisitions = IF Progressed(outcome) THEN @ ELSE 0,
     !.provider_failures = IF Failed(outcome) THEN @ ELSE 0]

\* An interrupted operation whose usage is lost pays all it reserved; one that
\* never began pays nothing.
Charge(op, outcome, resolution) ==
  CASE resolution = "reconciled_reserved" -> Reserved(op)
    [] resolution = "reconciled_not_started" -> Zero
    [] OTHER -> Derived(op, outcome)

\* The consecutive operations without progress.
Streak(n, outcome) == IF Progressed(outcome) THEN 0 ELSE n + 1
=============================================================================
