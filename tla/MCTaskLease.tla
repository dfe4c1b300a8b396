---------------------------- MODULE MCTaskLease ----------------------------
(***************************************************************************)
(* Instances of TaskLease for TLC.  Worktrees and claim ids are            *)
(* interchangeable, which makes symmetry sound for the runs without        *)
(* liveness properties.  Revisions are not: the row starts with one.       *)
(***************************************************************************)
EXTENDS TaskLease, TLC

Symmetry == Permutations(Agent) \cup Permutations(Claim)

EveryPoint == PC \ {"idle"}

\* The points at which a command that dies leaves neither a lease directory
\* without an owner record nor a temp file in it.
RecordedPoints == EveryPoint \ {"rename", "rmdir"}

\* The points at which a finish that dies leaves everything a recovery needs;
\* for a lease directory it has half removed, there is none.
ResumablePoints == {"token", "freeze", "stamp", "open", "fill", "publish", "commit", "clear",
                    "restore", "abort"}

\* And those that leave a temp file, or a record whose directory is to go.
LitteredPoints == ResumablePoints \cup {"rename", "rmdir"}

\* For the runs with liveness properties: of the claim ids that are fresh, a
\* claim or a steal takes the least.
LeastFresh ==
  \A a \in Agent :
    out[a] = NoRecord /\ out'[a] # NoRecord /\ verb'[a] \in {"claim", "steal"} =>
      \A c \in Claim : FreshClaim(c) => out'[a].claim <= c
=============================================================================
