--------------------------- MODULE TaskOwnership ---------------------------
(***************************************************************************)
(* What the coordination plane promises about one contract task: at any    *)
(* time at most one claim owns it, nobody displaces or drops a claim whose *)
(* publication window is open, and the task is published only inside the   *)
(* window of the claim that owns it.                                       *)
(***************************************************************************)
CONSTANTS Claim,    \* fencing tokens
          Free      \* the owner of a task nobody has claimed

VARIABLES owner,      \* the claim that owns the task
          window,     \* its publication window is open
          published   \* the task is done on the target branch

vars == <<owner, window, published>>

Init == owner = Free /\ ~window /\ ~published

Acquire(c) == owner = Free /\ owner' = c /\ UNCHANGED <<window, published>>

\* A steal: the new claim names the one it takes over from.
Displace(c) ==
  /\ owner # Free /\ ~window
  /\ owner' = c
  /\ UNCHANGED <<window, published>>

Relinquish ==
  /\ owner # Free /\ ~window
  /\ owner' = Free
  /\ UNCHANGED <<window, published>>

OpenWindow ==
  /\ owner # Free /\ ~published
  /\ window' = TRUE
  /\ UNCHANGED <<owner, published>>

\* The publication failed: the same claim goes on working.
CloseWindow ==
  /\ window /\ ~published
  /\ window' = FALSE
  /\ UNCHANGED <<owner, published>>

Publish == window /\ ~published /\ published' = TRUE /\ UNCHANGED <<owner, window>>

\* The done row is the proof that there is nothing left to own.
Settle ==
  /\ published /\ owner # Free
  /\ owner' = Free
  /\ window' = FALSE
  /\ UNCHANGED published

Next ==
  \/ \E c \in Claim : Acquire(c) \/ Displace(c)
  \/ Relinquish \/ OpenWindow \/ CloseWindow \/ Publish \/ Settle

Spec == Init /\ [][Next]_vars
=============================================================================
