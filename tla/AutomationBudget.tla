-------------------------- MODULE AutomationBudget --------------------------
(***************************************************************************)
(* What the budget ledger promises about one automation run: one operation *)
(* at a time, admitted only if all it might cost still fits the revision   *)
(* of the budget in force, charged at most that, and none after the run    *)
(* was stopped.  A revision never changes under an admitted operation.     *)
(***************************************************************************)
EXTENDS BudgetMetrics

CONSTANTS
  Op,       \* the operations that ask for admission
  Rev,      \* revisions of the budget, from 1 on
  Limit,    \* the limits of each revision
  NoHold    \* no operation is admitted

VARIABLES
  rev,      \* the revision in force
  spent,    \* what all settled operations were charged
  held,     \* the operation that is admitted and not settled
  stopped   \* the run is over

vars == <<rev, spent, held, stopped>>

Init == rev = 1 /\ spent = Zero /\ held = NoHold /\ stopped = FALSE

Fits(op) == AtMost(Plus(spent, Reserved(op)), Limit[rev])

Admit(op) ==
  /\ ~stopped /\ held = NoHold /\ Fits(op)
  /\ held' = op
  /\ UNCHANGED <<rev, spent, stopped>>

Settle ==
  /\ held # NoHold
  /\ \E o \in Outcome, r \in Resolution : spent' = Plus(spent, Charge(held, o, r))
  /\ held' = NoHold
  /\ UNCHANGED <<rev, stopped>>

Stop == ~stopped /\ stopped' = TRUE /\ UNCHANGED <<rev, spent, held>>

Revise ==
  /\ ~stopped /\ held = NoHold
  /\ rev + 1 \in Rev
  /\ rev' = rev + 1
  /\ UNCHANGED <<spent, held, stopped>>

Next == (\E op \in Op : Admit(op)) \/ Settle \/ Stop \/ Revise

Spec == Init /\ [][Next]_vars

\* While an operation is admitted, all it might still cost fits the limits.
WithinLimits == held # NoHold => Fits(held)
=============================================================================
