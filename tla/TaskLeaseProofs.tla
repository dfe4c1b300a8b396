-------------------------- MODULE TaskLeaseProofs --------------------------
(***************************************************************************)
(* What TaskLease guarantees for any number of worktrees, claims and       *)
(* revisions, for contract and inline rows, with every death and every     *)
(* failing write the model has.                                            *)
(*                                                                         *)
(* The argument.  Whoever is inside the task lock saw the record it is     *)
(* about to replace (Drafted) or to remove (Condemned) when it took the    *)
(* lock, and nobody else can have changed it since (LockAgrees).  A record *)
(* is replaced or removed on behalf of another claim only outside that     *)
(* claim's window, so a finish between its gate and its publication keeps  *)
(* the lease it passed the gate with (WindowIsFenced).                     *)
(***************************************************************************)
EXTENDS TaskLease, TLAPS

-----------------------------------------------------------------------------
(* Types.                                                                   *)

LEMMA RecordUpdates ==
  ASSUME NEW r \in Records, NEW s \in States,
         NEW w \in Agent \cup {NoTree}, NEW k \in BOOLEAN
  PROVE  /\ [r EXCEPT !.state = s] \in Records
         /\ [r EXCEPT !.state = s, !.wt = w] \in Records
         /\ [r EXCEPT !.state = s, !.key = k] \in Records
BY DEF Records

LEMMA AnyRevType == AnyRev \in Rev
BY ConstAssumption DEF AnyRev

\* The helpers keep every variable they set within its type.
LEMMA HelperTypes ==
  ASSUME TypeOK, NEW a \in Agent
  PROVE  /\ \A l \in PC : Goto(a, l) => pc' \in [Agent -> PC]
         /\ \A c \in Claim \cup {NoClaim} :
              Work(a, c) => mine' \in [Agent -> Claim \cup {NoClaim}]
         /\ Exit(a) => /\ pc' \in [Agent -> PC]
                       /\ mine' \in [Agent -> Claim \cup {NoClaim}]
                       /\ seen' \in [Agent -> Rev]
         /\ \A v \in Verbs, r \in Records :
              Draft(a, v, r) => /\ lock' \in Agent \cup {Nobody}
                                /\ verb' \in [Agent -> Verbs]
                                /\ out' \in [Agent -> Records \cup {NoRecord}]
                                /\ pc' \in [Agent -> PC]
         /\ \A v \in Verbs :
              Condemn(a, v) => /\ lock' \in Agent \cup {Nobody}
                               /\ verb' \in [Agent -> Verbs]
                               /\ pc' \in [Agent -> PC]
         /\ Unlock(a) => /\ lock' \in Agent \cup {Nobody}
                         /\ verb' \in [Agent -> Verbs]
                         /\ out' \in [Agent -> Records \cup {NoRecord}]
         /\ \A s : TargetMoves(s) => /\ based' \in [Agent -> BOOLEAN]
                                     /\ frozen' \in [Agent -> BOOLEAN]
         /\ Closed(a) => /\ closeout' \in [Agent -> {"none", "claimed", "open"}]
                         /\ landed' \in [Agent -> BOOLEAN]
<1> USE DEF TypeOK
<1>1. {"idle", "rename", "unlink"} \subseteq PC /\ "none" \in Verbs
  BY DEF PC, Writing, Verbs
<1>2. \A l \in PC : Goto(a, l) => pc' \in [Agent -> PC]
  BY DEF Goto
<1>3. \A c \in Claim \cup {NoClaim} :
        Work(a, c) => mine' \in [Agent -> Claim \cup {NoClaim}]
  BY DEF Work
<1>4. Exit(a) => /\ pc' \in [Agent -> PC]
                 /\ mine' \in [Agent -> Claim \cup {NoClaim}]
                 /\ seen' \in [Agent -> Rev]
  BY <1>1, <1>2, AnyRevType DEF Exit
<1>5. \A v \in Verbs, r \in Records :
        Draft(a, v, r) => /\ lock' \in Agent \cup {Nobody}
                          /\ verb' \in [Agent -> Verbs]
                          /\ out' \in [Agent -> Records \cup {NoRecord}]
                          /\ pc' \in [Agent -> PC]
  BY <1>1, <1>2 DEF Draft
<1>6. \A v \in Verbs :
        Condemn(a, v) => /\ lock' \in Agent \cup {Nobody}
                         /\ verb' \in [Agent -> Verbs]
                         /\ pc' \in [Agent -> PC]
  BY <1>1, <1>2 DEF Condemn
<1>7. Unlock(a) => /\ lock' \in Agent \cup {Nobody}
                   /\ verb' \in [Agent -> Verbs]
                   /\ out' \in [Agent -> Records \cup {NoRecord}]
  BY <1>1 DEF Unlock
<1>8. \A s : TargetMoves(s) => /\ based' \in [Agent -> BOOLEAN]
                               /\ frozen' \in [Agent -> BOOLEAN]
  BY DEF TargetMoves
<1>9. Closed(a) => /\ closeout' \in [Agent -> {"none", "claimed", "open"}]
                   /\ landed' \in [Agent -> BOOLEAN]
  BY DEF Closed
<1> QED
  BY <1>2, <1>3, <1>4, <1>5, <1>6, <1>7, <1>8, <1>9

(* The type invariant needs one fact of the stronger one: a command about   *)
(* to rename has a record to put in place.                                  *)
LEMMA InitType == Init => TypeOK
<1> SUFFICES ASSUME Init PROVE TypeOK
  OBVIOUS
<1>1. canon \in [done : BOOLEAN, rev : Rev]
  BY AnyRevType DEF Init
<1>2. "idle" \in PC /\ "none" \in Verbs
  BY DEF PC, Verbs
<1> QED
  BY <1>1, <1>2, AnyRevType DEF Init, TypeOK

LEMMA TypeStep ==
  ASSUME TypeOK, Drafted, [Next]_vars
  PROVE  TypeOK'
<1> USE DEF plane, tree, target, finish, mem, Locked
<1>0. CASE UNCHANGED vars
  BY <1>0 DEF vars, TypeOK
<1>e. CASE EditTarget
  BY <1>e DEF EditTarget, TargetMoves, TypeOK
<1> SUFFICES ASSUME NEW a \in Agent, Operator(a) \/ Command(a) \/ Mishap(a)
             PROVE  TypeOK'
  BY <1>0, <1>e DEF Next
<1>pc. PC = {"idle", "verify", "elect", "recheck", "bind", "token", "undo",
             "steal", "begin", "freeze", "gate", "stamp", "open", "fill",
             "publish", "commit", "clear", "restore", "abort", "rename",
             "unlink", "rmdir", "dropToken"}
  BY DEF PC, Starting, Finishing, Writing
<1>ve. Verbs = {"none", "claim", "bind", "steal", "begin", "stamp", "abort",
                "release", "complete", "reconcile", "clear"}
  BY DEF Verbs
<1>st. States = {"reserving", "bound", "completing", "released"}
  BY DEF States
<1>ty. TypeOK
  OBVIOUS
<1>re. owner # NoRecord =>
         /\ owner \in Records /\ owner.claim \in Claim /\ owner.rev \in Rev
         /\ \A s \in States : [owner EXCEPT !.state = s] \in Records
         /\ [owner EXCEPT !.state = "bound", !.wt = a] \in Records
         /\ \A k \in BOOLEAN : Completing(k) \in Records
         /\ [owner EXCEPT !.state = "bound", !.key = FALSE] \in Records
         /\ \A c \in Claim : Stolen(c) \in Records
  <2> SUFFICES ASSUME owner # NoRecord
               PROVE  /\ owner \in Records /\ owner.claim \in Claim /\ owner.rev \in Rev
                      /\ \A s \in States : [owner EXCEPT !.state = s] \in Records
                      /\ [owner EXCEPT !.state = "bound", !.wt = a] \in Records
                      /\ \A k \in BOOLEAN : Completing(k) \in Records
                      /\ [owner EXCEPT !.state = "bound", !.key = FALSE] \in Records
                      /\ \A c \in Claim : Stolen(c) \in Records
    OBVIOUS
  <2>1. owner \in Records
    BY <1>ty DEF TypeOK
  <2>2. owner.claim \in Claim /\ owner.rev \in Rev
    BY <2>1 DEF Records
  <2>3. \A c \in Claim : Stolen(c) \in Records
    BY <2>2, <1>st DEF Stolen, Records
  <2> QED
    BY <2>1, <2>2, <2>3, <1>st, RecordUpdates DEF Completing
<1>el. \A c \in Claim : [claim |-> c, state |-> "reserving", wt |-> NoTree,
                       rev |-> seen[a], key |-> FALSE] \in Records
  BY <1>st DEF Records, TypeOK
<1>ou. pc[a] = "rename" => out[a] \in Records /\ out[a].claim \in Claim
  BY DEF Records, TypeOK, Drafted
<1>ca. [canon EXCEPT !.done = TRUE] \in [done : BOOLEAN, rev : Rev]
  BY DEF TypeOK
<1> USE HelperTypes DEF TypeOK
<1>1. CASE StartTask(a)
  BY <1>1, <1>pc, <1>ve DEF StartTask
<1>2. CASE Verify(a)
  BY <1>2, <1>pc, <1>ve DEF Verify
<1>3. CASE Elect(a)
  <2>1. CASE ~leaseDir
    <3>1. PICK c \in Claim :
            /\ Draft(a, "claim", [claim |-> c, state |-> "reserving", wt |-> NoTree,
                                  rev |-> seen[a], key |-> FALSE])
            /\ Work(a, c)
      BY <1>3, <2>1 DEF Elect
    <3>2. [claim |-> c, state |-> "reserving", wt |-> NoTree,
            rev |-> seen[a], key |-> FALSE] \in Records
      BY <1>el
    <3> QED
      BY <3>1, <3>2, <1>3, <2>1, <1>ve DEF Elect
  <2>2. CASE leaseDir
    BY <1>3, <2>2, <1>pc, <1>ve DEF Elect
  <2> QED
    BY <2>1, <2>2
<1>4. CASE Recheck(a)
  BY <1>4, <1>pc, <1>ve DEF Recheck
<1>5. CASE CaptureFails(a)
  BY <1>5, <1>pc, <1>ve DEF CaptureFails
<1>6. CASE LeaveReserving(a)
  BY <1>6, <1>pc, <1>ve DEF LeaveReserving
<1>7. CASE ResumeBind(a)
  BY <1>7, <1>pc, <1>ve, <1>re DEF ResumeBind
<1>8. CASE Bind(a)
  <2>1. CASE Owned(a, {"reserving"})
    <3>1. Draft(a, "bind", [owner EXCEPT !.state = "bound", !.wt = a])
      BY <1>8, <2>1 DEF Bind
    <3>2. [owner EXCEPT !.state = "bound", !.wt = a] \in Records
      BY <2>1, <1>re DEF Owned
    <3> QED
      BY <3>1, <3>2, <1>8, <2>1, <1>ve DEF Bind
  <2>2. CASE ~Owned(a, {"reserving"})
    BY <1>8, <2>2, <1>pc, <1>ve DEF Bind
  <2> QED
    BY <2>1, <2>2
<1>9. CASE WriteToken(a)
  BY <1>9, <1>pc, <1>ve DEF WriteToken
<1>10. CASE StartRelease(a)
  BY <1>10, <1>pc, <1>ve DEF StartRelease
<1>11. CASE Release(a)
  <2>1. CASE Owned(a, Releasable)
    <3>1. Draft(a, "release", [owner EXCEPT !.state = "released"])
      BY <1>11, <2>1 DEF Release, ReleaseFrom
    <3>2. [owner EXCEPT !.state = "released"] \in Records
      BY <2>1, <1>re, <1>st DEF Owned
    <3> QED
      BY <3>1, <3>2, <1>11, <2>1, <1>ve DEF Release, ReleaseFrom
  <2>2. CASE ~Owned(a, Releasable)
    BY <1>11, <2>2, <1>pc, <1>ve DEF Release, ReleaseFrom
  <2> QED
    BY <2>1, <2>2
<1>12. CASE Observe(a)
  BY <1>12, <1>pc, <1>ve, <1>re DEF Observe
<1>13. CASE Steal(a)
  <2>1. CASE Owned(a, States \ {"completing"})
    <3>1. PICK c \in Claim : Draft(a, "steal", Stolen(c))
      BY <1>13, <2>1 DEF Steal, StealFrom
    <3>2. Stolen(c) \in Records
      BY <2>1, <1>re DEF Owned
    <3> QED
      BY <3>1, <3>2, <1>13, <2>1, <1>ve DEF Steal, StealFrom
  <2>2. CASE ~Owned(a, States \ {"completing"})
    BY <1>13, <2>2, <1>pc, <1>ve DEF Steal, StealFrom
  <2> QED
    BY <2>1, <2>2
<1>14. CASE Rename(a)
  BY <1>14, <1>pc, <1>ve, <1>ou DEF Rename, AfterWrite
<1>15. CASE RenameFails(a)
  BY <1>15, <1>pc, <1>ve DEF RenameFails, AfterFailure
<1>16. CASE Unlink(a)
  BY <1>16, <1>pc, <1>ve DEF Unlink
<1>17. CASE Rmdir(a)
  BY <1>17, <1>pc, <1>ve DEF Rmdir
<1>18. CASE RmdirFails(a)
  BY <1>18, <1>pc, <1>ve DEF RmdirFails, AfterFailure
<1>19. CASE DropToken(a)
  BY <1>19, <1>pc, <1>ve DEF DropToken
<1>20. CASE Finish(a)
  BY <1>20, <1>pc, <1>ve DEF Finish
<1>21. CASE Begin(a)
  <2>1. CASE MayComplete(a, {"bound", "completing"})
    <3>1. Draft(a, "begin", Completing(FALSE))
      BY <1>21, <2>1 DEF Begin, BeginFrom
    <3>2. Completing(FALSE) \in Records
      BY <2>1, <1>re DEF MayComplete, Owned
    <3> QED
      BY <3>1, <3>2, <1>21, <2>1, <1>ve DEF Begin, BeginFrom
  <2>2. CASE ~MayComplete(a, {"bound", "completing"})
    BY <1>21, <2>2, <1>pc, <1>ve DEF Begin, BeginFrom
  <2> QED
    BY <2>1, <2>2
<1>22. CASE Freeze(a)
  BY <1>22, <1>pc, <1>ve DEF Freeze
<1>23. CASE Gate(a)
  BY <1>23, <1>pc, <1>ve DEF Gate
<1>24. CASE Stamp(a)
  <2>1. CASE mine[a] # NoClaim /\ MayComplete(a, {"bound", "completing"})
    <3>1. Draft(a, "stamp", Completing(TRUE))
      BY <1>24, <2>1 DEF Stamp
    <3>2. Completing(TRUE) \in Records
      BY <2>1, <1>re DEF MayComplete, Owned
    <3> QED
      BY <3>1, <3>2, <1>24, <2>1, <1>ve DEF Stamp
  <2>2. CASE mine[a] = NoClaim
    BY <1>24, <2>2, <1>pc DEF Stamp
  <2>3. CASE mine[a] # NoClaim /\ ~MayComplete(a, {"bound", "completing"})
    BY <1>24, <2>3, <1>pc DEF Stamp
  <2> QED
    BY <2>1, <2>2, <2>3
<1>25. CASE OpenJournal(a)
  BY <1>25, <1>pc, <1>ve DEF OpenJournal
<1>26. CASE Fill(a)
  BY <1>26, <1>pc, <1>ve DEF Fill, FillIf
<1>27. CASE GiveUp(a)
  BY <1>27, <1>pc, <1>ve DEF GiveUp
<1>28. CASE Publish(a)
  BY <1>28, <1>pc, <1>ve, <1>ca DEF Publish
<1>29. CASE CommitJournal(a)
  BY <1>29, <1>pc, <1>ve DEF CommitJournal
<1>30. CASE Clear(a)
  BY <1>30, <1>pc, <1>ve DEF Clear
<1>31. CASE Restore(a)
  BY <1>31, <1>pc, <1>ve DEF Restore
<1>32. CASE Abort(a)
  <2>1. CASE mine[a] # NoClaim /\ MayAbort(a)
    <3>1. Draft(a, "abort", [owner EXCEPT !.state = "bound", !.key = FALSE])
      BY <1>32, <2>1 DEF Abort
    <3>2. [owner EXCEPT !.state = "bound", !.key = FALSE] \in Records
      BY <2>1, <1>re DEF MayAbort, Owned
    <3> QED
      BY <3>1, <3>2, <1>32, <2>1, <1>ve DEF Abort
  <2>2. CASE ~(mine[a] # NoClaim /\ MayAbort(a))
    BY <1>32, <2>2, <1>pc, <1>ve DEF Abort
  <2> QED
    BY <2>1, <2>2
<1>33. CASE RecoverLanded(a)
  BY <1>33, <1>pc, <1>ve DEF RecoverLanded
<1>34. CASE RecoverAbort(a)
  BY <1>34, <1>pc, <1>ve DEF RecoverAbort
<1>35. CASE Reconcile(a)
  BY <1>35, <1>pc, <1>ve DEF Reconcile, ReconcileIf
<1>36. CASE Complete(a)
  <2>1. CASE leaseDir
    <3>1. Draft(a, "complete", [owner EXCEPT !.state = "released"])
      BY <1>36, <2>1 DEF Complete
    <3>2. [owner EXCEPT !.state = "released"] \in Records
      BY <2>1, <1>re, <1>st, <1>36 DEF Complete, MayFlip
    <3> QED
      BY <3>1, <3>2, <1>36, <2>1, <1>ve DEF Complete
  <2>2. CASE ~leaseDir
    BY <1>36, <2>2, <1>pc, <1>ve DEF Complete
  <2> QED
    BY <2>1, <2>2
<1>37. CASE CommitInline(a)
  BY <1>37, <1>pc, <1>ve, <1>ca DEF CommitInline
<1>38. CASE Rebase(a)
  BY <1>38, <1>pc, <1>ve DEF Rebase
<1>39. CASE Crash(a)
  BY <1>39, <1>pc, <1>ve DEF Crash
<1>40. CASE HandOver(a)
  BY <1>40, <1>pc, <1>ve DEF HandOver
<1>41. CASE ShipAborts(a)
  BY <1>41, <1>pc, <1>ve DEF ShipAborts, HandedOver
<1>42. CASE ShipLands(a)
  BY <1>42, <1>pc, <1>ve, <1>ca DEF ShipLands, HandedOver
<1> QED
  BY <1>1, <1>2, <1>3, <1>4, <1>5, <1>6, <1>7, <1>8, <1>9, <1>10, <1>11,
     <1>12, <1>13, <1>14, <1>15, <1>16, <1>17, <1>18, <1>19, <1>20, <1>21,
     <1>22, <1>23, <1>24, <1>25, <1>26, <1>27, <1>28, <1>29, <1>30, <1>31,
     <1>32, <1>33, <1>34, <1>35, <1>36, <1>37, <1>38, <1>39, <1>40, <1>41, <1>42
     DEF Operator, Command, Mishap, Starter, Finisher, Writer, Recover

-----------------------------------------------------------------------------
(* The inductive invariant, worktree by worktree.                           *)

LockOK(a) ==
  /\ verb[a] # "none" <=> lock = a
  /\ verb[a] # "none" <=> \/ pc[a] \in {"rename", "recheck", "unlink", "rmdir"}
                          \/ pc[a] = "dropToken" /\ verb[a] = "complete"
DraftOK(a) == pc[a] = "rename" => out[a] # NoRecord /\ Drafts(a)
CondemnOK(a) ==
  /\ pc[a] = "recheck" => verb[a] = "claim"
  /\ pc[a] \in {"recheck", "unlink", "rmdir"} =>
       verb[a] \in {"claim", "release", "complete", "reconcile", "clear"}
  /\ pc[a] \in {"recheck", "unlink"} =>
       /\ owner # NoRecord
       /\ IF verb[a] = "claim" THEN Owned(a, {"reserving"}) ELSE Finished
WindowOK(a) ==
  InWindow(a) /\ ~canon.done => Owned(a, {"completing"}) /\ owner.wt = a
Window == {"freeze", "gate", "stamp", "open", "fill", "publish"}
LeasedOK(a) == Unleased \/ (pc[a] \in Window => mine[a] # NoClaim)
HomeOK(a) == /\ pc[a] = "rename" => leaseDir
             /\ pc[a] = "rmdir" => owner = NoRecord
Good(a) ==
  /\ LockOK(a) /\ HomeOK(a) /\ DraftOK(a) /\ CondemnOK(a)
  /\ WindowOK(a) /\ LeasedOK(a)

LEMMA IInvIsLocal ==
  IInv <=> /\ TypeOK
           /\ owner # NoRecord => leaseDir
           /\ \A a \in Agent : Good(a)
           /\ FreshDrafts
           /\ LateClaims
           /\ FlipsInWindow
BY DEF IInv, LockAgrees, Homed, HomeOK, Drafted, Condemned, WindowIsFenced, FinishesLeased,
       Good, LockOK, DraftOK, CondemnOK, WindowOK, LeasedOK, Window

\* What a step of one worktree's command leaves alone.
Frame(a) ==
  /\ \A b \in Agent \ {a} : /\ pc'[b] = pc[b] /\ verb'[b] = verb[b]
                            /\ mine'[b] = mine[b] /\ out'[b] = out[b]
  /\ owner' # owner => /\ canon' = canon
                       /\ \/ pc[a] = "rename" /\ owner' = out[a]
                          \/ pc[a] = "unlink" /\ owner' = NoRecord
  /\ leaseDir' # leaseDir => pc[a] = "rmdir" \/ lock = Nobody
  /\ owner' # NoRecord => leaseDir'
  /\ lock' # lock => lock \in {a, Nobody} /\ lock' \in {a, Nobody}
  /\ canon.done => canon'.done
  /\ canon'.done => canon.done \/ Inline \/ pc[a] = "publish" \/ row[a]

\* The record of a finish in its window is not for another worktree to replace
\* or to remove.
LEMMA WindowLeftAlone ==
  ASSUME IInv, NEW a \in Agent, NEW b \in Agent \ {a}, Frame(a),
         InWindow(b), ~canon.done
  PROVE  owner' = owner
<1>1. Owned(b, {"completing"}) /\ owner.wt = b
  BY IInvIsLocal DEF Good, WindowOK
<1>2. CASE pc[a] = "rename"
  <2>1. owner # NoRecord /\ owner.state = "completing" /\ owner.wt # a
    BY <1>1 DEF Owned
  <2>2. Drafts(a)
    BY <1>2, IInvIsLocal DEF Good, DraftOK
  <2> QED
    BY <2>1, <2>2 DEF Drafts, Owned, Releasable
<1>3. CASE pc[a] = "unlink"
  <2>1. IF verb[a] = "claim" THEN Owned(a, {"reserving"}) ELSE Finished
    BY <1>3, IInvIsLocal DEF Good, CondemnOK
  <2> QED
    BY <1>1, <2>1 DEF Owned, Finished
<1> QED
  BY <1>2, <1>3 DEF Frame

\* The row is done by the worktree the open window is bound to.
LEMMA PublisherOwns ==
  ASSUME IInv, NEW a \in Agent, Frame(a), ~Inline, ~Unleased, ~canon.done, canon'.done
  PROVE  /\ owner' = owner
         /\ owner # NoRecord /\ owner.state = "completing" /\ owner.wt = a
<1>1. Good(a) /\ FlipsInWindow
  BY IInvIsLocal
<1>2. pc[a] = "publish" => Owned(a, {"completing"}) /\ owner.wt = a
  BY <1>1 DEF Good, LeasedOK, WindowOK, InWindow, Window
<1> QED
  BY <1>1, <1>2 DEF Frame, FlipsInWindow, Owned

\* So a step of one worktree keeps what the others rely on: those inside the
\* task lock, because it is theirs; those inside their window, because the
\* record that would be replaced or removed is theirs and completing.
LEMMA OthersKept ==
  ASSUME IInv, NEW a \in Agent, NEW b \in Agent \ {a}, Frame(a)
  PROVE  Good(b)'
<1>g. TypeOK /\ Good(a) /\ Good(b)
  BY IInvIsLocal
<1>b. /\ b \in Agent /\ b # a
      /\ pc'[b] = pc[b] /\ verb'[b] = verb[b] /\ mine'[b] = mine[b] /\ out'[b] = out[b]
  BY DEF Frame
<1>1. LockOK(b)'
  BY <1>g, <1>b, ConstAssumption DEF Good, LockOK, Frame
<1>2. verb[b] # "none" => owner' = owner
  BY <1>g, <1>b, ConstAssumption DEF Good, LockOK, Frame
<1>3. DraftOK(b)'
  <2> SUFFICES ASSUME pc[b] = "rename" PROVE DraftOK(b)'
    BY <1>b DEF DraftOK
  <2>1. owner' = owner /\ verb[b] # "none" /\ out[b] # NoRecord /\ Drafts(b)
    BY <1>g, <1>2 DEF Good, LockOK, DraftOK
  <2>2. verb[b] = "abort" => ~canon'.done \/ Unleased \/ Inline
    <3> SUFFICES ASSUME verb[b] = "abort", ~Unleased, ~Inline, canon'.done
                 PROVE  FALSE
      OBVIOUS
    <3>1. ~canon.done /\ owner.wt = b
      BY <2>1 DEF Drafts
    <3>2. owner.wt = a
      BY <3>1, PublisherOwns
    <3> QED
      BY <3>1, <3>2, <1>b
  <2> QED
    BY <2>1, <2>2, <1>b DEF DraftOK, Drafts, Owned
<1>4. CondemnOK(b)'
  <2> SUFFICES ASSUME pc[b] \in {"recheck", "unlink", "rmdir"} PROVE CondemnOK(b)'
    BY <1>b DEF CondemnOK
  <2>1. owner' = owner
    BY <1>g, <1>2 DEF Good, LockOK
  <2> QED
    BY <2>1, <1>b, <1>g DEF Good, CondemnOK, Owned, Finished, Frame
<1>5. WindowOK(b)'
  <2> SUFFICES ASSUME InWindow(b)', ~canon'.done
               PROVE  (Owned(b, {"completing"}) /\ owner.wt = b)'
    BY DEF WindowOK
  <2>1. InWindow(b) /\ ~canon.done
    BY <1>b DEF InWindow, Frame
  <2>2. Owned(b, {"completing"}) /\ owner.wt = b
    BY <2>1, <1>g DEF Good, WindowOK
  <2>3. owner' = owner
    BY <2>1, WindowLeftAlone
  <2> QED
    BY <2>2, <2>3, <1>b DEF Owned
<1>6. HomeOK(b)'
  BY <1>b, <1>g, <1>2, ConstAssumption DEF Good, HomeOK, LockOK, Frame
<1>7. LeasedOK(b)'
  BY <1>b, <1>g DEF Good, LeasedOK
<1> QED
  BY <1>1, <1>3, <1>4, <1>5, <1>6, <1>7 DEF Good

-----------------------------------------------------------------------------
(* One step of one command.                                                 *)

LEMMA Framed ==
  ASSUME IInv, NEW a \in Agent, Operator(a) \/ Command(a) \/ Mishap(a)
  PROVE  Frame(a)
<1>g. TypeOK /\ (owner # NoRecord => leaseDir) /\ Good(a)
  BY IInvIsLocal
<1>lk. pc[a] \in {"recheck", "rename", "unlink", "rmdir"} => lock = a
  BY <1>g DEF Good, LockOK
<1>ho. /\ owner # NoRecord => leaseDir
       /\ pc[a] = "rename" => leaseDir
       /\ pc[a] = "rmdir" => owner = NoRecord
  BY <1>g DEF Good, HomeOK
<1>fn. /\ pc \in [Agent -> PC] /\ verb \in [Agent -> Verbs]
       /\ mine \in [Agent -> Claim \cup {NoClaim}]
       /\ out \in [Agent -> Records \cup {NoRecord}]
       /\ canon \in [done : BOOLEAN, rev : Rev]
  BY <1>g DEF TypeOK
<1> USE DEF Frame, plane, tree, target, finish, mem, Locked, Goto, Work, Exit, Draft,
            Condemn, Unlock
<1>1. CASE StartTask(a)
  BY <1>1, <1>fn, <1>ho DEF StartTask
<1>2. CASE Verify(a)
  BY <1>2, <1>fn, <1>ho DEF Verify
<1>3. CASE Elect(a)
  BY <1>3, <1>fn, <1>ho DEF Elect
<1>4. CASE Recheck(a)
  BY <1>4, <1>fn, <1>lk, <1>ho DEF Recheck
<1>5. CASE CaptureFails(a)
  BY <1>5, <1>fn, <1>ho DEF CaptureFails
<1>6. CASE LeaveReserving(a)
  BY <1>6, <1>fn, <1>ho DEF LeaveReserving
<1>7. CASE ResumeBind(a)
  BY <1>7, <1>fn, <1>ho DEF ResumeBind
<1>8. CASE Bind(a)
  BY <1>8, <1>fn, <1>ho DEF Bind
<1>9. CASE WriteToken(a)
  BY <1>9, <1>fn, <1>ho DEF WriteToken
<1>10. CASE StartRelease(a)
  BY <1>10, <1>fn, <1>ho DEF StartRelease
<1>11. CASE Release(a)
  BY <1>11, <1>fn, <1>ho DEF Release, ReleaseFrom
<1>12. CASE Observe(a)
  BY <1>12, <1>fn, <1>ho DEF Observe
<1>13. CASE Steal(a)
  BY <1>13, <1>fn, <1>ho DEF Steal, StealFrom
<1>14. CASE Rename(a)
  BY <1>14, <1>fn, <1>lk, <1>ho DEF Rename, AfterWrite
<1>15. CASE RenameFails(a)
  BY <1>15, <1>fn, <1>lk, <1>ho DEF RenameFails, AfterFailure
<1>16. CASE Unlink(a)
  BY <1>16, <1>fn, <1>lk, <1>ho DEF Unlink
<1>17. CASE Rmdir(a)
  BY <1>17, <1>fn, <1>lk, <1>ho DEF Rmdir
<1>18. CASE RmdirFails(a)
  BY <1>18, <1>fn, <1>lk, <1>ho DEF RmdirFails, AfterFailure
<1>19. CASE DropToken(a)
  BY <1>19, <1>fn, <1>lk, <1>ho DEF DropToken
<1>20. CASE Finish(a)
  BY <1>20, <1>fn, <1>ho DEF Finish
<1>21. CASE Begin(a)
  BY <1>21, <1>fn, <1>ho DEF Begin, BeginFrom
<1>22. CASE Freeze(a)
  BY <1>22, <1>fn, <1>ho DEF Freeze
<1>23. CASE Gate(a)
  BY <1>23, <1>fn, <1>ho DEF Gate
<1>24. CASE Stamp(a)
  BY <1>24, <1>fn, <1>ho DEF Stamp
<1>25. CASE OpenJournal(a)
  BY <1>25, <1>fn, <1>ho DEF OpenJournal
<1>26. CASE Fill(a)
  BY <1>26, <1>fn, <1>ho DEF Fill, FillIf
<1>27. CASE GiveUp(a)
  BY <1>27, <1>fn, <1>ho DEF GiveUp
<1>28. CASE Publish(a)
  BY <1>28, <1>fn, <1>ho DEF Publish
<1>29. CASE CommitJournal(a)
  BY <1>29, <1>fn, <1>ho DEF CommitJournal
<1>30. CASE Clear(a)
  BY <1>30, <1>fn, <1>ho DEF Clear
<1>31. CASE Restore(a)
  BY <1>31, <1>fn, <1>ho DEF Restore
<1>32. CASE Abort(a)
  BY <1>32, <1>fn, <1>ho DEF Abort
<1>33. CASE RecoverLanded(a)
  BY <1>33, <1>fn, <1>ho DEF RecoverLanded
<1>34. CASE RecoverAbort(a)
  BY <1>34, <1>fn, <1>ho DEF RecoverAbort
<1>35. CASE Reconcile(a)
  BY <1>35, <1>fn, <1>ho DEF Reconcile, ReconcileIf
<1>36. CASE Complete(a)
  BY <1>36, <1>fn, <1>ho DEF Complete
<1>37. CASE CommitInline(a)
  BY <1>37, <1>fn, <1>ho DEF CommitInline
<1>38. CASE Rebase(a)
  BY <1>38, <1>fn, <1>ho DEF Rebase
<1>39. CASE Crash(a)
  BY <1>39, <1>fn, <1>lk, <1>ho DEF Crash
<1>40. CASE HandOver(a)
  BY <1>40, <1>fn, <1>ho DEF HandOver, Closed
<1>41. CASE ShipAborts(a)
  BY <1>41, <1>fn, <1>ho DEF ShipAborts, HandedOver
<1>42. CASE ShipLands(a)
  BY <1>42, <1>fn, <1>ho DEF ShipLands, HandedOver, TargetMoves
<1> QED
  BY <1>1, <1>2, <1>3, <1>4, <1>5, <1>6, <1>7, <1>8, <1>9, <1>10, <1>11,
     <1>12, <1>13, <1>14, <1>15, <1>16, <1>17, <1>18, <1>19, <1>20, <1>21,
     <1>22, <1>23, <1>24, <1>25, <1>26, <1>27, <1>28, <1>29, <1>30, <1>31,
     <1>32, <1>33, <1>34, <1>35, <1>36, <1>37, <1>38, <1>39, <1>40, <1>41, <1>42
     DEF Operator, Command, Mishap, Starter, Finisher, Writer, Recover

\* A step of a command keeps what that command itself relies on.
LEMMA SelfKept ==
  ASSUME IInv, NEW a \in Agent, Operator(a) \/ Command(a) \/ Mishap(a)
  PROVE  Good(a)'
<1>g. /\ TypeOK /\ LockOK(a) /\ DraftOK(a) /\ CondemnOK(a) /\ WindowOK(a)
      /\ LeasedOK(a) /\ HomeOK(a) /\ (owner # NoRecord => leaseDir)
  BY IInvIsLocal DEF Good
<1>ld. owner' # NoRecord => leaseDir'
  BY Framed DEF Frame
<1>fn. /\ pc \in [Agent -> PC] /\ verb \in [Agent -> Verbs]
       /\ mine \in [Agent -> Claim \cup {NoClaim}]
       /\ token \in [Agent -> Claim \cup {NoClaim}]
       /\ out \in [Agent -> Records \cup {NoRecord}]
       /\ owner \in Records \cup {NoRecord}
       /\ canon \in [done : BOOLEAN, rev : Rev]
       /\ a # Nobody /\ NoClaim \notin Claim
  BY <1>g, ConstAssumption DEF TypeOK
<1>lo. /\ verb[a] # "none" <=> lock = a
       /\ verb[a] # "none" <=>
            \/ pc[a] \in {"rename", "recheck", "unlink", "rmdir"}
            \/ pc[a] = "dropToken" /\ verb[a] = "complete"
  BY <1>g DEF LockOK
<1>nr. \A r \in Records : r # NoRecord /\ r.claim \in Claim
  BY ConstAssumption DEF Records
\* Outside the lock and outside the window there is nothing to keep.
<1>aw. ASSUME verb'[a] = "none", lock' # a,
              pc'[a] \in {"idle", "verify", "elect", "bind", "token", "undo", "steal",
                          "begin", "clear", "restore", "abort", "commit", "dropToken"}
       PROVE  Good(a)'
  BY <1>aw DEF Good, LockOK, HomeOK, DraftOK, CondemnOK, WindowOK, LeasedOK, InWindow,
      Window
\* Inside the lock there is the record drafted, or the record condemned.
<1>dr. ASSUME NEW v \in Verbs \ {"none"}, NEW r, Draft(a, v, r)
       PROVE  /\ lock' = a /\ verb'[a] = v /\ out'[a] = r /\ pc'[a] = "rename"
              /\ r # NoRecord /\ leaseDir' /\ Drafts(a)' => Good(a)'
  <2>1. lock' = a /\ verb'[a] = v /\ out'[a] = r /\ pc'[a] = "rename"
    BY <1>dr, <1>fn DEF Draft, Goto
  <2> QED
    BY <2>1 DEF Good, LockOK, HomeOK, DraftOK, CondemnOK, WindowOK, LeasedOK, InWindow,
        Window
<1>co. ASSUME NEW v \in {"reconcile", "clear"}, Condemn(a, v), owner' = owner,
              canon' = canon,
              Finished
       PROVE  Good(a)'
  <2>1. lock' = a /\ verb'[a] = v /\ pc'[a] = "unlink"
    BY <1>co, <1>fn DEF Condemn, Goto
  <2> QED
    BY <2>1, <1>co
    DEF Good, LockOK, HomeOK, DraftOK, CondemnOK, WindowOK, LeasedOK, InWindow, Window,
        Finished
\* In the window: the claim it works with, and the record if it was already there.
<1>wi. ASSUME verb'[a] = verb[a], lock' = lock, owner' = owner, canon' = canon,
              mine' = mine,
              pc[a] \in Window, pc'[a] \in Window
       PROVE  Good(a)'
  BY <1>wi, <1>g, <1>lo
  DEF Good, LockOK, HomeOK, DraftOK, CondemnOK, WindowOK, LeasedOK, InWindow, Window, Owned
<1> USE DEF plane, tree, target, finish, mem, Locked, Goto, Work, Exit, Unlock
<1>1. CASE StartTask(a)
  BY <1>1, <1>fn, <1>lo, <1>aw DEF StartTask
<1>2. CASE Verify(a)
  BY <1>2, <1>fn, <1>lo, <1>aw DEF Verify
<1>3. CASE Elect(a)
  <2>1. CASE leaseDir
    BY <1>3, <2>1, <1>fn, <1>lo, <1>aw DEF Elect
  <2>2. CASE ~leaseDir
    <3> DEFINE r(c) == [claim |-> c, state |-> "reserving", wt |-> NoTree,
                        rev |-> seen[a], key |-> FALSE]
    <3>1. PICK c \in Claim : Draft(a, "claim", r(c)) /\ Work(a, c)
      BY <1>3, <2>2 DEF Elect
    <3>2. owner' = owner /\ mine'[a] = c /\ leaseDir'
      BY <1>3, <3>1, <1>fn DEF Elect
    <3>3. r(c) \in Records
      BY <1>g DEF Records, States, TypeOK
    <3>4. owner = NoRecord
      BY <1>3, <2>2, <1>g DEF Elect
    <3>5. Drafts(a)'
      BY <3>1, <3>2, <3>4, <1>dr DEF Drafts, Verbs
    <3> QED
      BY <3>1, <3>2, <3>3, <3>5, <1>dr, <1>nr DEF Verbs
  <2> QED
    BY <2>1, <2>2
<1>4. CASE Recheck(a)
  <2>1. CASE ClaimableNow(a)
    BY <1>4, <2>1, <1>fn, <1>lo, <1>aw DEF Recheck
  <2>2. CASE ~ClaimableNow(a)
    BY <1>4, <2>2, <1>fn, <1>lo, <1>g DEF Recheck, Good, LockOK, HomeOK, DraftOK,
       CondemnOK, WindowOK, LeasedOK, InWindow, Window, Owned
  <2> QED
    BY <2>1, <2>2
<1>5. CASE CaptureFails(a)
  BY <1>5, <1>fn, <1>lo, <1>aw DEF CaptureFails
<1>6. CASE LeaveReserving(a)
  BY <1>6, <1>fn, <1>lo, <1>aw DEF LeaveReserving
<1>7. CASE ResumeBind(a)
  BY <1>7, <1>fn, <1>lo, <1>aw DEF ResumeBind
<1>8. CASE Bind(a)
  <2>1. CASE Owned(a, {"reserving"})
    <3>1. Draft(a, "bind", [owner EXCEPT !.state = "bound", !.wt = a])
          /\ owner' = owner /\ mine' = mine /\ canon' = canon
      BY <1>8, <2>1 DEF Bind
    <3>2. owner \in Records /\ owner.claim = mine[a]
      BY <1>fn, <2>1 DEF Owned
    <3>3. [owner EXCEPT !.state = "bound", !.wt = a] # NoRecord
      BY <3>2, <1>nr, RecordUpdates DEF Completing, States
    <3>f. /\ [owner EXCEPT !.state = "bound", !.wt = a].claim = mine[a]
          /\ [owner EXCEPT !.state = "bound", !.wt = a].wt = a
          /\ [owner EXCEPT !.state = "bound", !.wt = a].state = "bound"
      BY <3>2, <2>1 DEF Owned, Completing, Records
    <3>v. verb'[a] = "bind" /\ out'[a] = [owner EXCEPT !.state = "bound", !.wt = a]
      BY <3>1, <1>dr DEF Verbs
    <3>4. Drafts(a)'
      BY <3>1, <3>2, <3>f, <3>v, <2>1 DEF Drafts, Owned, Releasable
    <3> QED
      BY <3>1, <3>2, <3>3, <3>4, <1>dr, <1>nr, <1>ld DEF Verbs
  <2>2. CASE ~(Owned(a, {"reserving"}))
    BY <1>8, <2>2, <1>fn, <1>lo, <1>aw DEF Bind
  <2> QED
    BY <2>1, <2>2
<1>9. CASE WriteToken(a)
  BY <1>9, <1>fn, <1>lo, <1>aw DEF WriteToken
<1>10. CASE StartRelease(a)
  BY <1>10, <1>fn, <1>lo, <1>aw DEF StartRelease
<1>11. CASE Release(a)
  <2>1. CASE Owned(a, Releasable)
    <3>1. Draft(a, "release", [owner EXCEPT !.state = "released"])
          /\ owner' = owner /\ mine' = mine /\ canon' = canon
      BY <1>11, <2>1 DEF Release, ReleaseFrom
    <3>2. owner \in Records /\ owner.claim = mine[a]
      BY <1>fn, <2>1 DEF Owned
    <3>3. [owner EXCEPT !.state = "released"] # NoRecord
      BY <3>2, <1>nr, RecordUpdates DEF Completing, States
    <3>f. /\ [owner EXCEPT !.state = "released"].claim = mine[a]
          /\ [owner EXCEPT !.state = "released"].wt = owner.wt
          /\ [owner EXCEPT !.state = "released"].state = "released"
      BY <3>2, <2>1 DEF Owned, Completing, Records
    <3>v. verb'[a] = "release" /\ out'[a] = [owner EXCEPT !.state = "released"]
      BY <3>1, <1>dr DEF Verbs
    <3>4. Drafts(a)'
      BY <3>1, <3>2, <3>f, <3>v, <2>1 DEF Drafts, Owned, Releasable
    <3> QED
      BY <3>1, <3>2, <3>3, <3>4, <1>dr, <1>nr, <1>ld DEF Verbs
  <2>2. CASE ~(Owned(a, Releasable))
    BY <1>11, <2>2, <1>fn, <1>lo, <1>aw DEF Release, ReleaseFrom
  <2> QED
    BY <2>1, <2>2
<1>12. CASE Observe(a)
  BY <1>12, <1>fn, <1>lo, <1>aw DEF Observe
<1>13. CASE Steal(a)
  <2> DEFINE S == States \ {"completing"}
  <2>1. CASE Owned(a, S)
    <3>1. PICK c \in Claim : Draft(a, "steal", Stolen(c))
      BY <1>13, <2>1 DEF Steal, StealFrom
    <3>2. owner' = owner /\ mine' = mine
      BY <1>13, <2>1 DEF Steal, StealFrom
    <3>3. owner \in Records
      BY <1>fn, <2>1 DEF Owned
    <3>4. Stolen(c) \in Records /\ Stolen(c).state = "reserving"
      BY <3>3 DEF Stolen, Records, States
    <3>5. Drafts(a)'
      BY <3>1, <3>2, <3>4, <1>dr, <2>1 DEF Drafts, Owned, Verbs
    <3> QED
      BY <3>1, <3>2, <3>3, <3>4, <3>5, <1>dr, <1>nr, <1>ld DEF Verbs
  <2>2. CASE ~Owned(a, S)
    BY <1>13, <2>2, <1>fn, <1>lo, <1>aw DEF Steal, StealFrom
  <2> QED
    BY <2>1, <2>2
<1>14. CASE Rename(a)
  <2>1. /\ pc[a] = "rename" /\ verb[a] # "none" /\ lock = a /\ owner' = out[a]
        /\ out[a] \in Records /\ out[a] # NoRecord /\ Drafts(a) /\ canon' = canon
    BY <1>14, <1>g, <1>fn, <1>lo DEF Rename, DraftOK
  <2>2. CASE verb[a] = "claim"
    <3>1. pc'[a] = "recheck" /\ verb' = verb /\ lock' = lock /\ mine' = mine
      BY <1>14, <2>2, <1>fn DEF Rename, AfterWrite
    <3>2. out[a].claim = mine[a] /\ out[a].state = "reserving"
      BY <2>1, <2>2 DEF Drafts
    <3> QED
      BY <3>1, <3>2, <2>1, <2>2 DEF Good, LockOK, HomeOK, DraftOK, CondemnOK, WindowOK,
         LeasedOK, InWindow, Window, Owned
  <2>3. CASE verb[a] \in {"bind", "steal", "abort"}
    <3>1. pc'[a] \in {"token", "bind", "idle"} /\ verb'[a] = "none" /\ lock' = Nobody
      BY <1>14, <2>3, <1>fn DEF Rename, AfterWrite
    <3> QED
      BY <3>1, <1>aw, <1>fn
  <2>4. CASE verb[a] \in {"begin", "stamp"}
    <3>1. /\ pc'[a] \in {"freeze", "open"} /\ verb'[a] = "none" /\ lock' = Nobody
          /\ mine' = mine
      BY <1>14, <2>4, <1>fn DEF Rename, AfterWrite
    <3>2. /\ out[a].claim = mine[a] /\ out[a].wt = a /\ out[a].state = "completing"
      BY <2>1, <2>4 DEF Drafts
    <3>3. mine[a] # NoClaim
      BY <3>2, <2>1, <1>nr, <1>fn
    <3> QED
      BY <3>1, <3>2, <3>3, <2>1, <1>fn DEF Good, LockOK, HomeOK, DraftOK, CondemnOK,
         WindowOK, LeasedOK, InWindow, Window, Owned
  <2>5. CASE verb[a] \in {"release", "complete"}
    <3>1. pc'[a] = "unlink" /\ verb' = verb /\ lock' = lock
      BY <1>14, <2>5, <1>fn DEF Rename, AfterWrite
    <3>2. out[a].state = "released"
      BY <2>1, <2>5 DEF Drafts
    <3> QED
      BY <3>1, <3>2, <2>1, <2>5 DEF Good, LockOK, HomeOK, DraftOK, CondemnOK, WindowOK,
         LeasedOK, InWindow, Window, Finished
  <2> QED
    BY <2>1, <2>2, <2>3, <2>4, <2>5 DEF Drafts
<1>15. CASE RenameFails(a)
  <2>1. /\ pc[a] = "rename" /\ verb[a] # "none" /\ lock = a /\ owner' \in {owner, out[a]}
        /\ out[a] # NoRecord /\ Drafts(a) /\ canon' = canon
    BY <1>15, <1>g, <1>lo DEF RenameFails, DraftOK
  <2>2. CASE verb[a] = "claim"
    <3>1. /\ pc'[a] = IF owner' = NoRecord THEN "rmdir" ELSE "unlink"
          /\ verb' = verb /\ lock' = lock /\ mine' = mine
      BY <1>15, <2>1, <2>2, <1>fn DEF RenameFails, AfterFailure
    <3>2. owner = NoRecord /\ out[a].claim = mine[a] /\ out[a].state = "reserving"
      BY <2>1, <2>2 DEF Drafts
    <3> QED
      BY <3>1, <3>2, <2>1, <2>2 DEF Good, LockOK, HomeOK, DraftOK, CondemnOK, WindowOK,
         LeasedOK, InWindow, Window, Owned
  <2>3. CASE verb[a] # "claim"
    BY <1>15, <2>3, <1>fn, <1>aw DEF RenameFails, AfterFailure
  <2> QED
    BY <2>2, <2>3
<1>16. CASE Unlink(a)
  BY <1>16, <1>fn, <1>lo, <1>g DEF Unlink, Good, LockOK, HomeOK, DraftOK, CondemnOK,
     WindowOK, LeasedOK, InWindow, Window
<1>17. CASE Rmdir(a)
  <2>1. CASE verb[a] = "complete"
    BY <1>17, <2>1, <1>fn, <1>lo DEF Rmdir, Good, LockOK, HomeOK, DraftOK, CondemnOK,
       WindowOK, LeasedOK, InWindow, Window
  <2>2. CASE verb[a] # "complete"
    BY <1>17, <2>2, <1>fn, <1>aw DEF Rmdir
  <2> QED
    BY <2>1, <2>2
<1>18. CASE RmdirFails(a)
  BY <1>18, <1>fn, <1>lo, <1>aw DEF RmdirFails, AfterFailure
<1>19. CASE DropToken(a)
  BY <1>19, <1>fn, <1>lo, <1>aw DEF DropToken
<1>20. CASE Finish(a)
  <2>1. CASE token[a] = NoClaim
    <3>1. /\ pc'[a] = "freeze" /\ mine'[a] = NoClaim /\ verb'[a] = "none" /\ lock' # a
          /\ Unleased
      BY <1>20, <2>1, <1>fn, <1>lo DEF Finish
    <3> QED
      BY <3>1 DEF Good, LockOK, HomeOK, DraftOK, CondemnOK, WindowOK, LeasedOK,
         InWindow, Window
  <2>2. CASE token[a] # NoClaim
    BY <1>20, <2>2, <1>fn, <1>lo, <1>aw DEF Finish
  <2> QED
    BY <2>1, <2>2
<1>21. CASE Begin(a)
  <2>1. CASE MayComplete(a, {"bound", "completing"})
    <3>1. Draft(a, "begin", Completing(FALSE))
          /\ owner' = owner /\ mine' = mine /\ canon' = canon
      BY <1>21, <2>1 DEF Begin, BeginFrom
    <3>2. owner \in Records /\ owner.claim = mine[a]
      BY <1>fn, <2>1 DEF MayComplete, Owned
    <3>3. Completing(FALSE) # NoRecord
      BY <3>2, <1>nr, RecordUpdates DEF Completing, States
    <3>f. /\ Completing(FALSE).claim = mine[a] /\ Completing(FALSE).wt = a
          /\ Completing(FALSE).state = "completing"
      BY <3>2, <2>1 DEF MayComplete, Owned, Completing, Records
    <3>v. verb'[a] = "begin" /\ out'[a] = Completing(FALSE)
      BY <3>1, <1>dr DEF Verbs
    <3>4. Drafts(a)'
      BY <3>1, <3>2, <3>f, <3>v, <2>1 DEF Drafts, MayComplete, Owned, Releasable
    <3> QED
      BY <3>1, <3>2, <3>3, <3>4, <1>dr, <1>nr, <1>ld DEF Verbs
  <2>2. CASE ~(MayComplete(a, {"bound", "completing"}))
    BY <1>21, <2>2, <1>fn, <1>lo, <1>aw DEF Begin, BeginFrom
  <2> QED
    BY <2>1, <2>2
<1>22. CASE Freeze(a)
  BY <1>22, <1>fn, <1>lo, <1>aw, <1>wi DEF Freeze, Window
<1>23. CASE Gate(a)
  BY <1>23, <1>fn, <1>lo, <1>aw, <1>wi DEF Gate, Window
<1>24. CASE Stamp(a)
  <2>1. CASE mine[a] # NoClaim /\ MayComplete(a, {"bound", "completing"})
    <3>1. Draft(a, "stamp", Completing(TRUE))
          /\ owner' = owner /\ mine' = mine /\ canon' = canon
      BY <1>24, <2>1 DEF Stamp
    <3>2. owner \in Records /\ owner.claim = mine[a]
      BY <1>fn, <2>1 DEF MayComplete, Owned
    <3>3. Completing(TRUE) # NoRecord
      BY <3>2, <1>nr, RecordUpdates DEF Completing, States
    <3>f. /\ Completing(TRUE).claim = mine[a] /\ Completing(TRUE).wt = a
          /\ Completing(TRUE).state = "completing"
      BY <3>2, <2>1 DEF MayComplete, Owned, Completing, Records
    <3>v. verb'[a] = "stamp" /\ out'[a] = Completing(TRUE)
      BY <3>1, <1>dr DEF Verbs
    <3>4. Drafts(a)'
      BY <3>1, <3>2, <3>f, <3>v, <2>1 DEF Drafts, MayComplete, Owned
    <3> QED
      BY <3>1, <3>2, <3>3, <3>4, <1>dr, <1>nr, <1>ld DEF Verbs
  <2>2. CASE mine[a] = NoClaim
    BY <1>24, <2>2, <1>fn, <1>wi DEF Stamp, Window
  <2>3. CASE mine[a] # NoClaim /\ ~MayComplete(a, {"bound", "completing"})
    BY <1>24, <2>3, <1>fn, <1>lo, <1>aw DEF Stamp
  <2> QED
    BY <2>1, <2>2, <2>3
<1>25. CASE OpenJournal(a)
  BY <1>25, <1>fn, <1>lo, <1>aw, <1>wi DEF OpenJournal, Window
<1>26. CASE Fill(a)
  BY <1>26, <1>fn, <1>lo, <1>aw, <1>wi DEF Fill, FillIf, Window
<1>27. CASE GiveUp(a)
  BY <1>27, <1>fn, <1>lo, <1>aw DEF GiveUp
<1>28. CASE Publish(a)
  BY <1>28, <1>fn, <1>lo, <1>aw DEF Publish
<1>29. CASE CommitJournal(a)
  BY <1>29, <1>fn, <1>lo, <1>aw DEF CommitJournal
<1>30. CASE Clear(a)
  BY <1>30, <1>fn, <1>lo, <1>aw, <1>co DEF Clear
<1>31. CASE Restore(a)
  BY <1>31, <1>fn, <1>lo, <1>aw DEF Restore
<1>32. CASE Abort(a)
  <2>1. CASE mine[a] # NoClaim /\ MayAbort(a)
    <3> DEFINE r == [owner EXCEPT !.state = "bound", !.key = FALSE]
    <3>1. Draft(a, "abort", r) /\ owner' = owner /\ mine' = mine /\ canon' = canon
      BY <1>32, <2>1 DEF Abort
    <3>2. owner \in Records /\ owner.claim = mine[a]
      BY <1>fn, <2>1 DEF MayAbort, Owned
    <3>3. r # NoRecord
      BY <3>2, <1>nr, RecordUpdates DEF States
    <3>f. /\ r.claim = mine[a] /\ r.wt = a
          /\ r.state = "bound"
      BY <3>2, <2>1 DEF MayAbort, Owned, Completing, Records
    <3>v. verb'[a] = "abort" /\ out'[a] = r
      BY <3>1, <1>dr DEF Verbs
    <3>4. Drafts(a)'
      BY <3>1, <3>2, <3>f, <3>v, <2>1 DEF Drafts, MayAbort, Owned
    <3> QED
      BY <3>1, <3>2, <3>3, <3>4, <1>dr, <1>nr, <1>ld DEF Verbs
  <2>2. CASE ~(mine[a] # NoClaim /\ MayAbort(a))
    BY <1>32, <2>2, <1>fn, <1>lo, <1>aw DEF Abort
  <2> QED
    BY <2>1, <2>2
<1>33. CASE RecoverLanded(a)
  BY <1>33, <1>fn, <1>lo, <1>aw DEF RecoverLanded
<1>34. CASE RecoverAbort(a)
  BY <1>34, <1>fn, <1>lo, <1>aw DEF RecoverAbort
<1>35. CASE Reconcile(a)
  BY <1>35, <1>co DEF Reconcile, ReconcileIf
<1>36. CASE Complete(a)
  <2> DEFINE r == [owner EXCEPT !.state = "released"]
  <2>1. CASE leaseDir
    <3>1. Draft(a, "complete", r) /\ owner' = owner /\ leaseDir'
      BY <1>36, <2>1 DEF Complete
    <3>2. owner \in Records /\ owner.claim = token[a] /\ owner.state \in Releasable
      BY <1>36, <2>1, <1>fn DEF Complete, MayFlip
    <3>3. mine'[a] = token[a]
      BY <1>36, <2>1, <1>fn DEF Complete
    <3>4. r # NoRecord
      BY <3>2, <1>nr, RecordUpdates DEF States
    <3>5. Drafts(a)'
      BY <3>1, <3>2, <3>3, <1>dr, <1>nr DEF Drafts, Owned, Records, Verbs
    <3> QED
      BY <3>1, <3>4, <3>5, <1>dr DEF Verbs
  <2>2. CASE ~leaseDir
    BY <1>36, <2>2, <1>fn, <1>lo, <1>aw DEF Complete
  <2> QED
    BY <2>1, <2>2
<1>37. CASE CommitInline(a)
  BY <1>37, <1>fn, <1>lo, <1>aw DEF CommitInline
<1>38. CASE Rebase(a)
  BY <1>38, <1>fn, <1>lo, <1>aw DEF Rebase
<1>39. CASE Crash(a)
  BY <1>39, <1>fn, <1>lo, <1>aw DEF Crash
<1>40. CASE HandOver(a)
  BY <1>40, <1>fn, <1>lo, <1>aw DEF HandOver, Closed
<1>41. CASE ShipAborts(a)
  BY <1>41, <1>fn, <1>lo, <1>aw DEF ShipAborts, HandedOver
<1>42. CASE ShipLands(a)
  BY <1>42, <1>fn, <1>lo, <1>aw DEF ShipLands, HandedOver, TargetMoves
<1> QED
  BY <1>1, <1>2, <1>3, <1>4, <1>5, <1>6, <1>7, <1>8, <1>9, <1>10, <1>11,
     <1>12, <1>13, <1>14, <1>15, <1>16, <1>17, <1>18, <1>19, <1>20, <1>21,
     <1>22, <1>23, <1>24, <1>25, <1>26, <1>27, <1>28, <1>29, <1>30, <1>31,
     <1>32, <1>33, <1>34, <1>35, <1>36, <1>37, <1>38, <1>39, <1>40, <1>41, <1>42
     DEF Operator, Command, Mishap, Starter, Finisher, Writer, Recover

-----------------------------------------------------------------------------
(* Where a claim id may be known.                                           *)

\* Tokens are written under the lock while the row is pending, a finish takes
\* its claim from the token, a new claim is fresh.
Traced(a) ==
  /\ \A b \in Agent :
       token'[b] # token[b] => token'[b] = NoClaim \/ (lock = Nobody /\ ~canon.done)
  /\ Finishes(a)' => mine'[a] = token[a] \/ (Finishes(a) /\ mine'[a] = mine[a])
  /\ pc'[a] = "rename" => pc[a] # "rename" /\ token' = token
  /\ pc'[a] = "rename" /\ verb'[a] \in {"claim", "steal"} =>
       \A b \in Agent : token[b] # out'[a].claim /\ mine[b] # out'[a].claim

LEMMA TracedStep ==
  ASSUME IInv, NEW a \in Agent, Operator(a) \/ Command(a) \/ Mishap(a)
  PROVE  Traced(a)
<1>fn. /\ pc \in [Agent -> PC] /\ verb \in [Agent -> Verbs]
       /\ mine \in [Agent -> Claim \cup {NoClaim}]
       /\ token \in [Agent -> Claim \cup {NoClaim}]
       /\ out \in [Agent -> Records \cup {NoRecord}]
       /\ pc[a] = "rmdir" => verb[a] # "stamp"
  BY IInvIsLocal DEF TypeOK, Good, CondemnOK
<1> USE DEF Traced, Finishes, Finishing, plane, tree, target, finish, mem, Locked,
            Goto, Work, Exit, Draft, Condemn, Unlock
<1>1. CASE StartTask(a)
  BY <1>1, <1>fn DEF StartTask
<1>2. CASE Verify(a)
  BY <1>2, <1>fn DEF Verify
<1>3. CASE Elect(a)
  BY <1>3, <1>fn DEF Elect, FreshClaim
<1>4. CASE Recheck(a)
  BY <1>4, <1>fn DEF Recheck
<1>5. CASE CaptureFails(a)
  BY <1>5, <1>fn DEF CaptureFails
<1>6. CASE LeaveReserving(a)
  BY <1>6, <1>fn DEF LeaveReserving
<1>7. CASE ResumeBind(a)
  BY <1>7, <1>fn DEF ResumeBind
<1>8. CASE Bind(a)
  BY <1>8, <1>fn DEF Bind
<1>9. CASE WriteToken(a)
  BY <1>9, <1>fn DEF WriteToken
<1>10. CASE StartRelease(a)
  BY <1>10, <1>fn DEF StartRelease
<1>11. CASE Release(a)
  BY <1>11, <1>fn DEF Release, ReleaseFrom
<1>12. CASE Observe(a)
  BY <1>12, <1>fn DEF Observe
<1>13. CASE Steal(a)
  BY <1>13, <1>fn DEF Steal, StealFrom, Stolen, FreshClaim
<1>14. CASE Rename(a)
  BY <1>14, <1>fn DEF Rename, AfterWrite
<1>15. CASE RenameFails(a)
  BY <1>15, <1>fn DEF RenameFails, AfterFailure
<1>16. CASE Unlink(a)
  BY <1>16, <1>fn DEF Unlink
<1>17. CASE Rmdir(a)
  BY <1>17, <1>fn DEF Rmdir
<1>18. CASE RmdirFails(a)
  BY <1>18, <1>fn DEF RmdirFails, AfterFailure
<1>19. CASE DropToken(a)
  <2>1. pc'[a] = "idle" /\ \A b \in Agent : token'[b] \in {token[b], NoClaim}
    BY <1>19, <1>fn DEF DropToken
  <2> QED
    BY <2>1
<1>20. CASE Finish(a)
  <2>1. mine'[a] = token[a] /\ token' = token /\ pc'[a] # "rename"
    BY <1>20, <1>fn DEF Finish
  <2> QED
    BY <2>1
<1>21. CASE Begin(a)
  BY <1>21, <1>fn DEF Begin, BeginFrom
<1>22. CASE Freeze(a)
  BY <1>22, <1>fn DEF Freeze
<1>23. CASE Gate(a)
  BY <1>23, <1>fn DEF Gate
<1>24. CASE Stamp(a)
  BY <1>24, <1>fn DEF Stamp
<1>25. CASE OpenJournal(a)
  BY <1>25, <1>fn DEF OpenJournal
<1>26. CASE Fill(a)
  BY <1>26, <1>fn DEF Fill, FillIf
<1>27. CASE GiveUp(a)
  BY <1>27, <1>fn DEF GiveUp
<1>28. CASE Publish(a)
  BY <1>28, <1>fn DEF Publish
<1>29. CASE CommitJournal(a)
  BY <1>29, <1>fn DEF CommitJournal
<1>30. CASE Clear(a)
  BY <1>30, <1>fn DEF Clear
<1>31. CASE Restore(a)
  BY <1>31, <1>fn DEF Restore
<1>32. CASE Abort(a)
  BY <1>32, <1>fn DEF Abort
<1>33. CASE RecoverLanded(a)
  BY <1>33, <1>fn DEF RecoverLanded
<1>34. CASE RecoverAbort(a)
  <2>1. mine'[a] = token[a] /\ token' = token /\ pc'[a] # "rename"
    BY <1>34, <1>fn DEF RecoverAbort
  <2> QED
    BY <2>1
<1>35. CASE Reconcile(a)
  BY <1>35, <1>fn DEF Reconcile, ReconcileIf
<1>36. CASE Complete(a)
  BY <1>36, <1>fn DEF Complete
<1>37. CASE CommitInline(a)
  BY <1>37, <1>fn DEF CommitInline
<1>38. CASE Rebase(a)
  BY <1>38, <1>fn DEF Rebase
<1>39. CASE Crash(a)
  BY <1>39, <1>fn DEF Crash
<1>40. CASE HandOver(a)
  BY <1>40, <1>fn DEF HandOver, Closed
<1>41. CASE ShipAborts(a)
  BY <1>41, <1>fn DEF ShipAborts, HandedOver
<1>42. CASE ShipLands(a)
  BY <1>42, <1>fn DEF ShipLands, HandedOver, TargetMoves
<1> QED
  BY <1>1, <1>2, <1>3, <1>4, <1>5, <1>6, <1>7, <1>8, <1>9, <1>10, <1>11,
     <1>12, <1>13, <1>14, <1>15, <1>16, <1>17, <1>18, <1>19, <1>20, <1>21,
     <1>22, <1>23, <1>24, <1>25, <1>26, <1>27, <1>28, <1>29, <1>30, <1>31,
     <1>32, <1>33, <1>34, <1>35, <1>36, <1>37, <1>38, <1>39, <1>40, <1>41, <1>42
     DEF Operator, Command, Mishap, Starter, Finisher, Writer, Recover

\* An unknown claim stays unknown as long as no token is given one.
LEMMA StaysUnknown ==
  ASSUME NEW a \in Agent, Frame(a), Traced(a), NEW c \in Claim, Unknown(c),
         lock # Nobody \/ canon.done
  PROVE  Unknown(c)'
<1>1. \A b \in Agent : token'[b] # c
  BY ConstAssumption DEF Unknown, Traced
<1>2. ASSUME NEW b \in Agent, Finishes(b)' PROVE mine'[b] # c
  <2>1. CASE b = a
    BY <1>2, <2>1 DEF Unknown, Traced
  <2>2. CASE b # a
    BY <1>2, <2>2 DEF Unknown, Frame, Finishes
  <2> QED
    BY <2>1, <2>2
<1> QED
  BY <1>1, <1>2 DEF Unknown

LEMMA FreshDraftsStep ==
  ASSUME IInv, NEW a \in Agent, Frame(a), Traced(a)
  PROVE  FreshDrafts'
<1> SUFFICES ASSUME NEW x \in Agent, pc'[x] = "rename", verb'[x] \in {"claim", "steal"}
             PROVE  Unknown(out[x].claim)'
  BY DEF FreshDrafts
<1>g. TypeOK /\ Good(x) /\ FreshDrafts
  BY IInvIsLocal
<1>1. CASE x = a
  <2>1. \A b \in Agent : token[b] # out'[a].claim /\ mine[b] # out'[a].claim
    BY <1>1 DEF Traced
  <2>2. \A b \in Agent : token'[b] # out'[a].claim
    BY <1>1, <2>1 DEF Traced
  <2>3. \A b \in Agent : Finishes(b)' => mine'[b] # out'[a].claim
    BY <2>1 DEF Traced, Frame
  <2> QED
    BY <1>1, <2>2, <2>3 DEF Unknown
<1>2. CASE x # a
  <2>1. pc[x] = "rename" /\ verb[x] \in {"claim", "steal"} /\ out'[x] = out[x]
    BY <1>2 DEF Frame
  <2>2. Unknown(out[x].claim) /\ lock # Nobody
    BY <2>1, <1>g, ConstAssumption DEF FreshDrafts, Good, LockOK
  <2>3. out[x].claim \in Claim
    BY <2>1, <1>g DEF Good, DraftOK, TypeOK, Records
  <2> QED
    BY <2>1, <2>2, <2>3, StaysUnknown
<1> QED
  BY <1>1, <1>2

LEMMA LateClaimsStep ==
  ASSUME IInv, NEW a \in Agent, Frame(a), Traced(a)
  PROVE  LateClaims'
<1> SUFFICES ASSUME ~Inline, ~Unleased, canon'.done, owner' # NoRecord,
                    owner'.state # "completing"
             PROVE  Unknown(owner.claim)'
  BY DEF LateClaims
<1>g. TypeOK /\ Good(a) /\ FreshDrafts /\ LateClaims
  BY IInvIsLocal
<1>1. canon.done
  <2> SUFFICES ASSUME ~canon.done PROVE FALSE
    OBVIOUS
  <2> QED
    BY PublisherOwns
<1>2. CASE owner' = owner
  <2>1. Unknown(owner.claim) /\ owner.claim \in Claim
    BY <1>1, <1>2, <1>g DEF LateClaims, TypeOK, Records
  <2> QED
    BY <2>1, <1>1, <1>2, StaysUnknown
<1>3. CASE owner' # owner
  <2>1. pc[a] = "rename" /\ owner' = out[a] /\ Drafts(a) /\ verb[a] # "none"
    BY <1>3, <1>g DEF Frame, Good, DraftOK, LockOK
  <2>2. out[a].claim \in Claim
    BY <2>1, <1>g DEF TypeOK, Records
  <2>3. CASE verb[a] \in {"claim", "steal"}
    <3>1. Unknown(out[a].claim)
      BY <2>1, <2>3, <1>g DEF FreshDrafts
    <3> QED
      BY <3>1, <2>1, <2>2, <1>1, StaysUnknown
  <2>4. CASE verb[a] \in {"bind", "release", "complete"}
    <3>1. out[a].claim = owner.claim /\ owner # NoRecord /\ owner.state # "completing"
      BY <2>1, <2>4 DEF Drafts, Owned, Releasable
    <3>2. Unknown(out[a].claim)
      BY <3>1, <1>1, <1>g DEF LateClaims
    <3> QED
      BY <3>2, <2>1, <2>2, <1>1, StaysUnknown
  <2> QED
    BY <2>1, <2>3, <2>4, <1>1 DEF Drafts
<1> QED
  BY <1>2, <1>3

-----------------------------------------------------------------------------
(* Where a worktree's row is flipped.                                       *)

\* Rows are flipped with the journal open, in a step that leaves the lease alone,
\* and put back before a finish starts over or gives its lease up.
Flips(a) ==
  /\ \A b \in Agent \ {a} : row'[b] = row[b] /\ closeout'[b] = closeout[b]
  /\ row'[a] => row[a] \/ canon.done \/ (pc[a] = "fill" /\ owner' = owner)
  /\ Unflipped(a)' => ~row'[a] \/ canon'.done
  /\ pc'[a] = "fill" => closeout'[a] = "open"

LEMMA FlipsTraced ==
  ASSUME IInv, NEW a \in Agent, Operator(a) \/ Command(a) \/ Mishap(a),
         ~Inline, ~Unleased
  PROVE  Flips(a)
<1>fn. /\ pc \in [Agent -> PC] /\ verb \in [Agent -> Verbs]
       /\ row \in [Agent -> BOOLEAN]
       /\ closeout \in [Agent -> {"none", "claimed", "open"}]
       /\ canon \in [done : BOOLEAN, rev : Rev]
       /\ pc[a] = "rmdir" => verb[a] # "stamp"
       /\ Unflipped(a) => ~row[a] \/ canon.done
       /\ pc[a] = "fill" => closeout[a] = "open"
       /\ ~Inline
  BY IInvIsLocal DEF TypeOK, Good, CondemnOK, FlipsInWindow
<1> USE DEF Flips, Unflipped, plane, tree, target, finish, mem, Locked,
            Goto, Work, Exit, Draft, Condemn, Unlock
<1>1. CASE StartTask(a)
  BY <1>1, <1>fn DEF StartTask
<1>2. CASE Verify(a)
  BY <1>2, <1>fn DEF Verify
<1>3. CASE Elect(a)
  BY <1>3, <1>fn DEF Elect
<1>4. CASE Recheck(a)
  BY <1>4, <1>fn DEF Recheck
<1>5. CASE CaptureFails(a)
  BY <1>5, <1>fn DEF CaptureFails
<1>6. CASE LeaveReserving(a)
  BY <1>6, <1>fn DEF LeaveReserving
<1>7. CASE ResumeBind(a)
  BY <1>7, <1>fn DEF ResumeBind
<1>8. CASE Bind(a)
  BY <1>8, <1>fn DEF Bind
<1>9. CASE WriteToken(a)
  BY <1>9, <1>fn DEF WriteToken
<1>10. CASE StartRelease(a)
  BY <1>10, <1>fn DEF StartRelease
<1>11. CASE Release(a)
  BY <1>11, <1>fn DEF Release, ReleaseFrom
<1>12. CASE Observe(a)
  BY <1>12, <1>fn DEF Observe
<1>13. CASE Steal(a)
  BY <1>13, <1>fn DEF Steal, StealFrom
<1>14. CASE Rename(a)
  BY <1>14, <1>fn DEF Rename, AfterWrite
<1>15. CASE RenameFails(a)
  BY <1>15, <1>fn DEF RenameFails, AfterFailure
<1>16. CASE Unlink(a)
  BY <1>16, <1>fn DEF Unlink
<1>17. CASE Rmdir(a)
  BY <1>17, <1>fn DEF Rmdir
<1>18. CASE RmdirFails(a)
  BY <1>18, <1>fn DEF RmdirFails, AfterFailure
<1>19. CASE DropToken(a)
  BY <1>19, <1>fn DEF DropToken
<1>20. CASE Finish(a)
  BY <1>20, <1>fn DEF Finish
<1>21. CASE Begin(a)
  BY <1>21, <1>fn DEF Begin, BeginFrom
<1>22. CASE Freeze(a)
  BY <1>22, <1>fn DEF Freeze
<1>23. CASE Gate(a)
  BY <1>23, <1>fn DEF Gate
<1>24. CASE Stamp(a)
  BY <1>24, <1>fn DEF Stamp
<1>25. CASE OpenJournal(a)
  BY <1>25, <1>fn DEF OpenJournal
<1>26. CASE Fill(a)
  BY <1>26, <1>fn DEF Fill, FillIf
<1>27. CASE GiveUp(a)
  BY <1>27, <1>fn DEF GiveUp
<1>28. CASE Publish(a)
  BY <1>28, <1>fn DEF Publish
<1>29. CASE CommitJournal(a)
  BY <1>29, <1>fn DEF CommitJournal, Closed
<1>30. CASE Clear(a)
  BY <1>30, <1>fn DEF Clear
<1>31. CASE Restore(a)
  BY <1>31, <1>fn DEF Restore
<1>32. CASE Abort(a)
  BY <1>32, <1>fn DEF Abort
<1>33. CASE RecoverLanded(a)
  BY <1>33, <1>fn DEF RecoverLanded, Closed
<1>34. CASE RecoverAbort(a)
  BY <1>34, <1>fn DEF RecoverAbort
<1>35. CASE Reconcile(a)
  BY <1>35, <1>fn DEF Reconcile, ReconcileIf
<1>36. CASE Complete(a)
  BY <1>36, <1>fn DEF Complete
<1>37. CASE CommitInline(a)
  BY <1>37, <1>fn DEF CommitInline
<1>38. CASE Rebase(a)
  BY <1>38, <1>fn DEF Rebase
<1>39. CASE Crash(a)
  BY <1>39, <1>fn DEF Crash
<1>40. CASE HandOver(a)
  BY <1>40, <1>fn DEF HandOver, Closed
<1>41. CASE ShipAborts(a)
  BY <1>41, <1>fn DEF ShipAborts, HandedOver
<1>42. CASE ShipLands(a)
  BY <1>42, <1>fn DEF ShipLands, HandedOver
<1> QED
  BY <1>1, <1>2, <1>3, <1>4, <1>5, <1>6, <1>7, <1>8, <1>9, <1>10, <1>11,
     <1>12, <1>13, <1>14, <1>15, <1>16, <1>17, <1>18, <1>19, <1>20, <1>21,
     <1>22, <1>23, <1>24, <1>25, <1>26, <1>27, <1>28, <1>29, <1>30, <1>31,
     <1>32, <1>33, <1>34, <1>35, <1>36, <1>37, <1>38, <1>39, <1>40, <1>41, <1>42
     DEF Operator, Command, Mishap, Starter, Finisher, Writer, Recover

LEMMA FlipsStep ==
  ASSUME IInv, NEW a \in Agent, Operator(a) \/ Command(a) \/ Mishap(a)
  PROVE  FlipsInWindow'
<1> SUFFICES ASSUME ~Inline, ~Unleased, NEW x \in Agent
             PROVE  /\ row'[x] /\ ~canon'.done =>
                         owner' # NoRecord /\ owner'.state = "completing" /\ owner'.wt = x
                    /\ Unflipped(x)' => ~row'[x] \/ canon'.done
                    /\ pc'[x] = "fill" => closeout'[x] = "open"
  BY DEF FlipsInWindow
<1>g. /\ Frame(a) /\ Flips(a) /\ Good(a)
      /\ row[x] /\ ~canon.done =>
           owner # NoRecord /\ owner.state = "completing" /\ owner.wt = x
      /\ Unflipped(x) => ~row[x] \/ canon.done
      /\ pc[x] = "fill" => closeout[x] = "open"
  BY Framed, FlipsTraced, IInvIsLocal DEF FlipsInWindow
<1>1. ASSUME row'[x], ~canon'.done
      PROVE  owner' # NoRecord /\ owner'.state = "completing" /\ owner'.wt = x
  <2>1. ~canon.done
    BY <1>1, <1>g DEF Frame
  <2>2. CASE row[x]
    <3>1. owner # NoRecord /\ owner.state = "completing" /\ owner.wt = x
      BY <2>1, <2>2, <1>g
    <3>2. ~(pc[a] = "unlink")
      BY <3>1, <2>1, <1>g DEF Good, CondemnOK, Owned, Finished
    <3>3. ~(pc[a] = "rename")
      <4> SUFFICES ASSUME pc[a] = "rename" PROVE FALSE
        OBVIOUS
      <4>1. Drafts(a)
        BY <1>g DEF Good, DraftOK
      <4>2. verb[a] \in {"begin", "stamp", "abort"} /\ owner.wt = a
        BY <4>1, <3>1 DEF Drafts, Owned, Releasable
      <4> QED
        BY <4>2, <3>1, <2>1, <2>2, <1>g DEF Unflipped
    <3> QED
      BY <3>1, <3>2, <3>3, <1>g DEF Frame
  <2>3. CASE ~row[x]
    <3>1. x = a /\ pc[a] = "fill" /\ owner' = owner
      BY <1>1, <2>1, <2>3, <1>g DEF Flips
    <3> QED
      BY <3>1, <2>1, <1>g DEF Good, LeasedOK, WindowOK, InWindow, Window, Owned
  <2> QED
    BY <2>2, <2>3
<1>2. ASSUME Unflipped(x)' PROVE ~row'[x] \/ canon'.done
  <2>1. CASE x = a
    BY <1>2, <2>1, <1>g DEF Flips
  <2>2. CASE x # a
    BY <1>2, <2>2, <1>g DEF Flips, Frame, Unflipped
  <2> QED
    BY <2>1, <2>2
<1>3. pc'[x] = "fill" => closeout'[x] = "open"
  BY <1>g DEF Flips, Frame
<1> QED
  BY <1>1, <1>2, <1>3

-----------------------------------------------------------------------------
(* The invariant and what follows from it.                                  *)

LEMMA InitIInv == Init => IInv
<1> SUFFICES ASSUME Init PROVE IInv
  OBVIOUS
<1>1. \A a \in Agent : pc[a] = "idle" /\ verb[a] = "none" /\ lock # a
  BY ConstAssumption DEF Init
<1>2. \A a \in Agent : Good(a)
  BY <1>1 DEF Good, LockOK, HomeOK, DraftOK, CondemnOK, WindowOK, LeasedOK, InWindow, Window
<1> QED
  BY <1>1, <1>2, InitType, IInvIsLocal
  DEF Init, FreshDrafts, LateClaims, FlipsInWindow, Unflipped

LEMMA LocalIsIInv ==
  ASSUME TypeOK', (owner # NoRecord => leaseDir)', \A a \in Agent : Good(a)',
         FreshDrafts', LateClaims', FlipsInWindow'
  PROVE  IInv'
BY DEF IInv, LockAgrees, Homed, HomeOK, Drafted, Condemned, WindowIsFenced, FinishesLeased,
       Good, LockOK, DraftOK, CondemnOK, WindowOK, LeasedOK, Window

LEMMA StepIInv == IInv /\ [Next]_vars => IInv'
<1> SUFFICES ASSUME IInv, [Next]_vars PROVE IInv'
  OBVIOUS
<1>0. TypeOK'
  BY TypeStep DEF IInv
<1>1. CASE \E a \in Agent : Operator(a) \/ Command(a) \/ Mishap(a)
  <2>1. PICK a \in Agent : Operator(a) \/ Command(a) \/ Mishap(a)
    BY <1>1
  <2>2. Frame(a) /\ Traced(a) /\ Good(a)'
    BY <2>1, Framed, TracedStep, SelfKept
  <2>3. \A b \in Agent : Good(b)'
    BY <2>2, OthersKept
  <2>4. owner' # NoRecord => leaseDir'
    BY <2>2 DEF Frame
  <2>5. FreshDrafts' /\ LateClaims' /\ FlipsInWindow'
    BY <2>1, <2>2, FreshDraftsStep, LateClaimsStep, FlipsStep
  <2> QED
    BY <1>0, <2>3, <2>4, <2>5, LocalIsIInv
\* Neither the row's revision nor its history is part of the invariant.
<1>2. CASE EditTarget \/ UNCHANGED vars
  <2>1. /\ UNCHANGED <<leaseDir, owner, lock, token, row, closeout, mine, pc, verb, out>>
        /\ canon'.done = canon.done
    BY <1>2 DEF EditTarget, vars, plane, tree, target, finish, mem, Locked, IInv, TypeOK
  <2>2. \A b \in Agent : Good(b)'
    BY <2>1, IInvIsLocal DEF Good, LockOK, HomeOK, DraftOK, Drafts, CondemnOK, WindowOK,
       LeasedOK, InWindow, Window, Owned, Finished
  <2>3. FreshDrafts' /\ LateClaims' /\ FlipsInWindow'
    BY <2>1, IInvIsLocal
    DEF FreshDrafts, LateClaims, FlipsInWindow, Unflipped, Unknown, Finishes
  <2> QED
    BY <1>0, <2>1, <2>2, <2>3, IInvIsLocal, LocalIsIInv
<1> QED
  BY <1>1, <1>2 DEF Next

(* The strengthening that makes the properties inductive.                   *)
THEOREM Invariant == Spec => []IInv
BY InitIInv, StepIInv, PTL DEF Spec

(* Every value a variable takes is one TypeOK names.                        *)
THEOREM TypeCorrect == Spec => []TypeOK
<1>1. IInv => TypeOK
  BY DEF IInv
<1> QED
  BY <1>1, Invariant, PTL

(* From the ownership gate to the publication the claim of a finish stays   *)
(* the owner of the lease.                                                  *)
THEOREM Fencing == Spec => []WindowIsFenced
<1>1. IInv => WindowIsFenced
  BY DEF IInv
<1> QED
  BY <1>1, Invariant, PTL

\* Only the holder of the task lock changes the record, to what it drafted or
\* to nothing.
LEMMA OwnerWriters ==
  ASSUME IInv, [Next]_vars, owner' # owner
  PROVE  \E a \in Agent :
           /\ lock = a /\ verb[a] # "none" /\ canon' = canon
           /\ \/ pc[a] = "rename" /\ owner' = out[a] /\ owner' # NoRecord /\ Drafts(a)
              \/ /\ owner' = NoRecord /\ owner # NoRecord
                 /\ IF verb[a] = "claim" THEN Owned(a, {"reserving"}) ELSE Finished
<1>1. PICK a \in Agent : Operator(a) \/ Command(a) \/ Mishap(a)
  BY DEF Next, EditTarget, vars, plane
<1>2. Frame(a) /\ Good(a)
  BY <1>1, Framed, IInvIsLocal
<1>3. lock = a /\ verb[a] # "none" /\ canon' = canon
  BY <1>2 DEF Frame, Good, LockOK
<1>4. CASE pc[a] = "rename" /\ owner' = out[a]
  BY <1>2, <1>3, <1>4 DEF Good, DraftOK
<1>5. CASE pc[a] = "unlink" /\ owner' = NoRecord
  BY <1>2, <1>3, <1>5 DEF Good, CondemnOK
<1> QED
  BY <1>2, <1>4, <1>5 DEF Frame

(* Every write to the owner record is a compare-and-swap under the lock.    *)
THEOREM Fenced == Spec => WritesAreFenced
<1>1. ASSUME IInv, [Next]_vars, owner' # owner, owner # NoRecord
      PROVE  \E a \in Agent : HoldsTask(a) /\ (owner.claim = mine[a] \/ Finished)
  BY <1>1, OwnerWriters DEF HoldsTask, Drafts, Owned
<1>2. IInv /\ [Next]_vars =>
        [owner' # owner /\ owner # NoRecord =>
           \E a \in Agent : HoldsTask(a) /\ (owner.claim = mine[a] \/ Finished)]_vars
  BY <1>1
<1> QED
  BY <1>2, Invariant, PTL DEF Spec, WritesAreFenced

(* A claim whose publication window is open is neither displaced nor dropped *)
(* before its row is done.                                                  *)
THEOREM WindowHolds == Spec => NobodyLeavesOpenWindow
<1>1. ASSUME IInv, [Next]_vars, owner # NoRecord, owner.state = "completing", ~canon.done
      PROVE  owner' # NoRecord /\ owner'.claim = owner.claim
                               /\ owner'.state \in {"bound", "completing"}
  <2>1. CASE owner' = owner
    BY <1>1, <2>1
  <2>2. CASE owner' # owner
    <3>1. PICK a \in Agent :
            \/ owner' = out[a] /\ owner' # NoRecord /\ Drafts(a)
            \/ IF verb[a] = "claim" THEN Owned(a, {"reserving"}) ELSE Finished
      BY <1>1, <2>2, OwnerWriters
    <3>2. owner' = out[a] /\ owner' # NoRecord /\ Drafts(a)
      BY <3>1, <1>1 DEF Owned, Finished
    <3>3. verb[a] \in {"begin", "stamp", "abort"}
      BY <3>2, <1>1 DEF Drafts, Owned, Releasable
    <3>4. owner'.claim = mine[a] /\ owner.claim = mine[a]
      BY <3>2, <3>3 DEF Drafts, Owned
    <3>5. owner'.state \in {"bound", "completing"}
      BY <3>2, <3>3 DEF Drafts
    <3> QED
      BY <3>2, <3>4, <3>5
  <2> QED
    BY <2>1, <2>2
<1>2. IInv /\ [Next]_vars =>
        [owner # NoRecord /\ owner.state = "completing" /\ ~canon.done =>
           owner' # NoRecord /\ owner'.claim = owner.claim
                             /\ owner'.state \in {"bound", "completing"}]_vars
  BY <1>1
<1> QED
  BY <1>2, Invariant, PTL DEF Spec, NobodyLeavesOpenWindow

-----------------------------------------------------------------------------
(* The plane implements TaskOwnership.                                      *)

Owner == IF owner = NoRecord \/ owner.state = "released" THEN NoClaim ELSE owner.claim
Open == owner # NoRecord /\ owner.state = "completing"

\* The writes of the verbs, as steps of the abstract task.
LEMMA WritesImplement ==
  ASSUME ~Inline, ~Unleased, IInv, IInv', NEW a \in Agent,
         owner' = out[a], owner' # NoRecord, Drafts(a), canon' = canon, pc[a] = "rename"
  PROVE  [Service!Next]_(Service!vars)
<1> USE DEF Owner, Open
<1>a. /\ Service!vars = <<Owner, Open, canon.done>>
      /\ UNCHANGED <<Owner, Open>> => UNCHANGED Service!vars
  BY DEF Service!vars
<1>t. /\ owner \in Records \cup {NoRecord} /\ owner' \in Records
      /\ NoClaim \notin Claim
      /\ \A r \in Records : r.claim \in Claim
  BY ConstAssumption DEF IInv, TypeOK, Records
<1>1. CASE verb[a] = "claim"
  <2>1. Service!Acquire(out[a].claim)
    BY <1>1, <1>t DEF Drafts, Service!Acquire
  <2> QED
    BY <2>1, <1>t DEF Service!Next
<1>2. CASE verb[a] = "bind"
  <2>1. UNCHANGED <<Owner, Open>>
    BY <1>2, <1>t DEF Drafts, Owned
  <2> QED
    BY <2>1, <1>a
<1>3. CASE verb[a] = "steal"
  <2>1. CASE owner.state = "released"
    <3>1. Service!Acquire(out[a].claim)
      BY <1>3, <2>1, <1>t DEF Drafts, Owned, Service!Acquire
    <3> QED
      BY <3>1, <1>t DEF Service!Next
  <2>2. CASE owner.state # "released"
    <3>1. Service!Displace(out[a].claim)
      BY <1>3, <2>2, <1>t DEF Drafts, Owned, Service!Displace
    <3> QED
      BY <3>1, <1>t DEF Service!Next
  <2> QED
    BY <2>1, <2>2
<1>4. CASE verb[a] \in {"release", "complete"}
  <2>1. Service!Relinquish
    BY <1>4, <1>t DEF Drafts, Owned, Releasable, Service!Relinquish
  <2> QED
    BY <2>1 DEF Service!Next
<1>5. CASE verb[a] \in {"begin", "stamp"}
  <2>1. /\ owner # NoRecord /\ owner.state \in {"bound", "completing"}
        /\ owner.claim = mine[a] /\ owner'.claim = mine[a]
        /\ owner'.state = "completing"
    BY <1>5 DEF Drafts, Owned
  <2>2. CASE owner.state = "completing"
    BY <2>1, <2>2, <1>a
  <2>3. CASE owner.state = "bound"
    <3>1. ~canon.done
      BY <2>1, <2>3, <1>5 DEF IInv, LateClaims, Unknown, Finishes
    <3>2. Service!OpenWindow
      BY <2>1, <2>3, <3>1, <1>t DEF Service!OpenWindow
    <3> QED
      BY <3>2 DEF Service!Next
  <2> QED
    BY <2>1, <2>2, <2>3
<1>6. CASE verb[a] = "abort"
  <2>1. /\ owner # NoRecord /\ owner.state \in {"bound", "completing"}
        /\ owner.claim = mine[a] /\ owner'.claim = mine[a]
        /\ owner'.state = "bound" /\ ~canon.done
    BY <1>6 DEF Drafts, Owned
  <2>2. CASE owner.state = "bound"
    BY <2>1, <2>2, <1>a
  <2>3. CASE owner.state = "completing"
    <3>1. Service!CloseWindow
      BY <2>1, <2>3, <1>t DEF Service!CloseWindow
    <3> QED
      BY <3>1 DEF Service!Next
  <2> QED
    BY <2>1, <2>2, <2>3
<1> QED
  BY <1>1, <1>2, <1>3, <1>4, <1>5, <1>6 DEF Drafts

\* Its removals.
LEMMA RemovalsImplement ==
  ASSUME IInv, NEW a \in Agent, owner # NoRecord, owner' = NoRecord, canon' = canon,
         Owned(a, {"reserving"}) \/ Finished
  PROVE  [Service!Next]_(Service!vars)
<1>t. owner.claim \in Claim /\ NoClaim \notin Claim
  BY ConstAssumption DEF IInv, TypeOK, Records
<1>1. CASE owner.state = "released"
  BY <1>1 DEF Service!vars
<1>2. CASE owner.state # "released" /\ canon.done
  <2>1. Service!Settle
    BY <1>2, <1>t DEF Service!Settle
  <2> QED
    BY <2>1 DEF Service!Next
<1>3. CASE owner.state = "reserving"
  <2>1. Service!Relinquish
    BY <1>3, <1>t DEF Service!Relinquish
  <2> QED
    BY <2>1 DEF Service!Next
<1> QED
  BY <1>1, <1>2, <1>3 DEF Owned, Finished

(* At most one claim owns a contract task, no open window is left before the *)
(* publication, and the task is published inside its owner's window.        *)
THEOREM Refinement ==
  ASSUME ~Inline, ~Unleased
  PROVE  Spec => ImplementsOwnership
<1>1. Init => Service!Init
  BY DEF Init, Service!Init
<1>2. ASSUME IInv, IInv', [Next]_vars
      PROVE  [Service!Next]_(Service!vars)
  <2>1. CASE owner' # owner
    <3>1. PICK a \in Agent :
            /\ canon' = canon
            /\ \/ pc[a] = "rename" /\ owner' = out[a] /\ owner' # NoRecord /\ Drafts(a)
               \/ /\ owner' = NoRecord /\ owner # NoRecord
                  /\ IF verb[a] = "claim" THEN Owned(a, {"reserving"}) ELSE Finished
      BY <1>2, <2>1, OwnerWriters
    <3> QED
      BY <1>2, <3>1, WritesImplement, RemovalsImplement
  <2>2. CASE owner' = owner /\ canon'.done = canon.done
    BY <2>2 DEF Service!vars
  <2>3. CASE owner' = owner /\ canon'.done # canon.done
    <3>1. PICK a \in Agent : Operator(a) \/ Command(a) \/ Mishap(a)
      BY <1>2, <2>3 DEF Next, EditTarget, vars, target, IInv, TypeOK
    <3>2. Frame(a) /\ Good(a) /\ TypeOK
      BY <1>2, <3>1, Framed, IInvIsLocal
    <3>3. ~canon.done /\ canon'.done
      BY <1>2, <3>2, <2>3 DEF Frame, IInv, TypeOK
    <3>4. owner # NoRecord /\ owner.state = "completing" /\ owner.claim # NoClaim
      BY <1>2, <3>2, <3>3, PublisherOwns, ConstAssumption DEF TypeOK, Records
    <3>5. Service!Publish
      BY <3>3, <3>4, <2>3 DEF Service!Publish
    <3> QED
      BY <3>5 DEF Service!Next
  <2> QED
    BY <2>1, <2>2, <2>3
<1>3. IInv /\ IInv' /\ [Next]_vars => [Service!Next]_(Service!vars)
  BY <1>2
<1> QED
  BY <1>1, <1>3, Invariant, PTL DEF Spec, ImplementsOwnership, Service!Spec
=============================================================================
