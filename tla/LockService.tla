---------------------------- MODULE LockService ----------------------------
(***************************************************************************)
(* What withExclusiveDirectoryLock promises its fifty callers: a critical  *)
(* section that at most one process is in, entered only while it is empty. *)
(* A process leaves it by releasing the lock or by dying; nothing else     *)
(* takes the section away from a live process.                             *)
(***************************************************************************)
CONSTANTS Proc,     \* the processes that use one lock path
          Nobody    \* the value of holder while the section is empty

VARIABLE holder     \* the process in the critical section

TypeOK == holder \in Proc \cup {Nobody}

Init == holder = Nobody

Enter(p) == holder = Nobody /\ holder' = p

Leave(p) == holder = p /\ holder' = Nobody

Next == \E p \in Proc : Enter(p) \/ Leave(p)

Spec == Init /\ [][Next]_holder
=============================================================================
