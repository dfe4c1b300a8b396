----------------------------- MODULE MCDirLock -----------------------------
(***************************************************************************)
(* Instances of DirLock for TLC.  Processes, token slots and directory     *)
(* identities are interchangeable, which makes symmetry sound for the runs *)
(* without liveness properties.                                            *)
(***************************************************************************)
EXTENDS DirLock, TLC

Symmetry == Permutations(Proc) \cup Permutations(Slot) \cup Permutations(Inode)

EveryPoint == PC \ {"idle", "dead"}

\* The points at which a dying process does not leave an empty directory that
\* is its own to publish into or to remove.
RecoverablePoints ==
  EveryPoint \ {"identify", "open", "rmCheck", "rmOwn", "rmReclaimed"}
=============================================================================
