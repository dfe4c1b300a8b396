--------------------------- MODULE MCBudgetLedger ---------------------------
(***************************************************************************)
(* Instances of BudgetLedger for TLC.  Processes and keys are              *)
(* interchangeable.                                                        *)
(***************************************************************************)
EXTENDS BudgetLedger, TLC

Symmetry == Permutations(Proc) \cup Permutations(Key)

\* The first revision admits one acquisition and one attempt of two children;
\* the second one attempt more, and has more time.
MCLimit == [r \in Rev |->
  [agent_turns |-> 2 + r, successful_acquisitions |-> 2, runner_invocations |-> 3,
   provider_failures |-> 2, repair_cycles |-> 2]]
MCStreakLimit == [r \in Rev |-> 2]
MCDeadline == [r \in Rev |-> r]
=============================================================================
