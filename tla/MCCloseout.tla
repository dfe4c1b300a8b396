----------------------------- MODULE MCCloseout -----------------------------
(***************************************************************************)
(* Instances of Closeout for TLC.                                          *)
(***************************************************************************)
EXTENDS Closeout, TLC

EveryPoint == PC \ {"idle"}
=============================================================================
