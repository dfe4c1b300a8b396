---------------------------- MODULE MCController ----------------------------
(* Instances of Controller for TLC. *)
EXTENDS Controller, TLC

Symmetry == Permutations(Proc) \cup Permutations(Key) \cup Permutations(Run)

\* The operations that leave the run going.  A death at the append of one that
\* ends it leaves the state as it is and an event that nothing can follow.
NonTerminal == {"observe", "begin_acquire", "acquired", "begin_dispatch",
                "dispatch_started", "outcome_observed", "retry_wait"}
=============================================================================
