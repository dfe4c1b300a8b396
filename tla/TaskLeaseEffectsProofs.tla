----------------------- MODULE TaskLeaseEffectsProofs -----------------------
(***************************************************************************)
(* What the commands of a task bring about, for any number of worktrees,   *)
(* claims and revisions: which worktree may say that it owns the lease,    *)
(* what a finish publishes, how an inline completion ends, and what the    *)
(* commands leave in the lease directory.                                  *)
(*                                                                         *)
(* The argument.  A token that names the owner was written from a bound    *)
(* record, and every write after that keeps the worktree of the record     *)
(* (TokenOK).  A finish keeps its closeout claim from start to end, and a  *)
(* worktree that contains a done row and has no closeout is not allowed to *)
(* take one; so the row was pending when the finish froze its base, and as *)
(* long as the base is frozen the row and its revision are what the gate   *)
(* compared with the record (CourseOK).                                    *)
(***************************************************************************)
EXTENDS TaskLeaseProofs

-----------------------------------------------------------------------------
(* The invariant, for one worktree.                                         *)

\* A token that names the owner lies in the worktree of the lease, and the
\* records that give a lease up keep its worktree.
TokenOK(a) ==
  /\ owner # NoRecord /\ token[a] = owner.claim =>
       owner.state # "reserving" /\ owner.wt = a
  /\ pc[a] = "rename" /\ verb[a] \in {"release", "complete"} => out[a].wt = owner.wt

\* The finish owns the closeout of its worktree until its end.
Closing(a) ==
  \/ pc[a] \in Finishing \ {"commit", "clear"}
  \/ verb[a] \in {"begin", "stamp", "abort"}

\* The finish is past its gate.
Gated(a) ==
  \/ pc[a] \in {"stamp", "open", "fill", "publish"}
  \/ verb[a] = "stamp"

CourseOK(a) ==
  /\ Inline => closeout[a] = "none"
  /\ Closing(a) => closeout[a] # "none"
  /\ based[a] /\ canon.done =>
       row[a] /\ closeout[a] = "none" /\ verb[a] # "complete"
  /\ frozen[a] /\ Gated(a) => ~canon.done
  /\ frozen[a] /\ verb[a] = "stamp" => out[a].rev = canon.rev
  /\ frozen[a] /\ mine[a] # NoClaim /\ pc[a] \in {"open", "fill", "publish"} =>
       owner.rev = canon.rev

\* A completion in progress has flipped the row, works with the token's claim, and
\* drops the token after the lease.
RowOK(a) ==
  verb[a] = "complete" => /\ row[a]
                          /\ mine[a] = token[a]
                          /\ leaseDir <=> pc[a] # "dropToken"

\* The command that made or removes the lease directory is still at it.
Making(a) == \/ pc[a] = "rename" /\ verb[a] = "claim"
             \/ pc[a] = "rmdir"

Unrecorded == leaseDir /\ owner = NoRecord

\* Deaths leave neither a temp file nor a directory without a record.
Residue ==
  /\ "rename" \notin CrashPoints => ~litter
  /\ {"rename", "rmdir"} \cap CrashPoints = {} /\ Unrecorded =>
       \E a \in Agent : Making(a)

EInv ==
  /\ IInv
  /\ \A a \in Agent : TokenOK(a) /\ CourseOK(a) /\ RowOK(a)
  /\ Residue

-----------------------------------------------------------------------------
(* One step of one command.                                                 *)

\* What the step of one worktree's command does to the rest, and to what only
\* some of its steps may change.
Moves(a) ==
  /\ \A b \in Agent \ {a} :
       /\ token'[b] = token[b] /\ row'[b] = row[b]
       /\ closeout'[b] = closeout[b] /\ landed'[b] = landed[b]
       /\ based'[b] => based[b] /\ canon' = canon
       /\ frozen'[b] => frozen[b] /\ canon' = canon
  /\ token'[a] # token[a] =>
       /\ owner' = owner
       /\ \/ token'[a] = NoClaim
          \/ owner # NoRecord /\ owner.state = "bound" /\ owner.wt = a
  /\ pc'[a] = "rename" =>
       /\ owner' = owner
       /\ verb'[a] \in {"release", "complete"} => out'[a].wt = owner.wt
  /\ landed'[a] /\ ~landed[a] => pc[a] = "publish" /\ frozen[a]
  /\ litter' # litter => "rename" \in CrashPoints
  /\ Unrecorded' /\ ~litter /\ {"rename", "rmdir"} \cap CrashPoints = {} =>
       Making(a)' \/ (Unrecorded /\ ~Making(a))
  /\ CompleteEnds(a) =>
       /\ leaseDir' = leaseDir
       /\ \/ /\ pc[a] = "dropToken"
             /\ token'[a] = NoClaim /\ row'[a] = row[a]
          \/ /\ pc[a] \in {"rename", "rmdir"}
             /\ token'[a] = token[a] /\ ~row'[a]

\* What a command knows by the place it has reached.
LEMMA Places ==
  ASSUME IInv, NEW a \in Agent
  PROVE  /\ pc[a] \notin {"rename", "recheck", "unlink", "rmdir", "dropToken"} =>
              verb[a] = "none"
         /\ verb[a] \in {"begin", "stamp", "abort", "bind", "steal"} => pc[a] = "rename"
         /\ verb[a] = "complete" => pc[a] \in {"rename", "unlink", "rmdir", "dropToken"}
         /\ pc[a] = "dropToken" => verb[a] \in {"none", "complete"}
         /\ pc[a] \in {"recheck", "unlink", "rmdir"} =>
              verb[a] \in {"claim", "release", "complete", "reconcile", "clear"}
         /\ pc[a] = "rename" => /\ out[a] # NoRecord
                                /\ verb[a] \in {"claim", "bind", "steal", "begin", "stamp",
                                                "abort", "release", "complete"}
BY IInvIsLocal DEF Good, LockOK, CondemnOK, DraftOK, Drafts

LEMMA Moved ==
  ASSUME IInv, NEW a \in Agent, Operator(a) \/ Command(a) \/ Mishap(a)
  PROVE  Moves(a)
<1>fn. /\ pc \in [Agent -> PC] /\ verb \in [Agent -> Verbs]
       /\ mine \in [Agent -> Claim \cup {NoClaim}]
       /\ token \in [Agent -> Claim \cup {NoClaim}]
       /\ row \in [Agent -> BOOLEAN] /\ landed \in [Agent -> BOOLEAN]
       /\ based \in [Agent -> BOOLEAN] /\ frozen \in [Agent -> BOOLEAN]
       /\ closeout \in [Agent -> {"none", "claimed", "open"}]
       /\ out \in [Agent -> Records \cup {NoRecord}]
       /\ owner \in Records \cup {NoRecord}
       /\ canon \in [done : BOOLEAN, rev : Rev]
       /\ litter \in BOOLEAN /\ leaseDir \in BOOLEAN
  BY IInvIsLocal DEF TypeOK
<1>pl. /\ pc[a] \notin {"rename", "recheck", "unlink", "rmdir", "dropToken"} =>
            verb[a] = "none"
       /\ verb[a] \in {"begin", "stamp", "abort", "bind", "steal"} => pc[a] = "rename"
       /\ verb[a] = "complete" => pc[a] \in {"rename", "unlink", "rmdir", "dropToken"}
       /\ pc[a] = "dropToken" => verb[a] \in {"none", "complete"}
       /\ pc[a] \in {"recheck", "unlink", "rmdir"} =>
            verb[a] \in {"claim", "release", "complete", "reconcile", "clear"}
       /\ pc[a] = "rename" => /\ out[a] # NoRecord
                              /\ verb[a] \in {"claim", "bind", "steal", "begin", "stamp",
                                              "abort", "release", "complete"}
  BY Places
<1> USE DEF Moves, Making, Unrecorded, CompleteEnds, plane, tree, target, finish, mem,
            Locked, Goto, Work, Exit, Draft, Condemn, Unlock
<1>1. CASE StartTask(a)
  BY <1>1, <1>fn, <1>pl DEF StartTask
<1>2. CASE Verify(a)
  BY <1>2, <1>fn, <1>pl DEF Verify
<1>3. CASE Elect(a)
  BY <1>3, <1>fn, <1>pl DEF Elect
<1>4. CASE Recheck(a)
  BY <1>4, <1>fn, <1>pl DEF Recheck
<1>5. CASE CaptureFails(a)
  BY <1>5, <1>fn, <1>pl DEF CaptureFails
<1>6. CASE LeaveReserving(a)
  BY <1>6, <1>fn, <1>pl DEF LeaveReserving
<1>7. CASE ResumeBind(a)
  BY <1>7, <1>fn, <1>pl DEF ResumeBind
<1>8. CASE Bind(a)
  BY <1>8, <1>fn, <1>pl DEF Bind
<1>9. CASE WriteToken(a)
  BY <1>9, <1>fn, <1>pl DEF WriteToken, Owned
<1>10. CASE StartRelease(a)
  BY <1>10, <1>fn, <1>pl DEF StartRelease
<1>11. CASE Release(a)
  <2>1. CASE Owned(a, Releasable)
    <3>1. out'[a] = [owner EXCEPT !.state = "released"] /\ owner \in Records
      BY <1>11, <2>1, <1>fn DEF Release, ReleaseFrom, Owned
    <3>2. out'[a].wt = owner.wt
      BY <3>1 DEF Records
    <3> QED
      BY <1>11, <2>1, <3>2, <1>fn, <1>pl DEF Release, ReleaseFrom
  <2>2. CASE ~Owned(a, Releasable)
    BY <1>11, <2>2, <1>fn, <1>pl DEF Release, ReleaseFrom
  <2> QED
    BY <2>1, <2>2
<1>12. CASE Observe(a)
  BY <1>12, <1>fn, <1>pl DEF Observe
<1>13. CASE Steal(a)
  BY <1>13, <1>fn, <1>pl DEF Steal, StealFrom
<1>14. CASE Rename(a)
  BY <1>14, <1>fn, <1>pl DEF Rename, AfterWrite
<1>15. CASE RenameFails(a)
  BY <1>15, <1>fn, <1>pl DEF RenameFails, AfterFailure
<1>16. CASE Unlink(a)
  BY <1>16, <1>fn, <1>pl DEF Unlink
<1>17. CASE Rmdir(a)
  BY <1>17, <1>fn, <1>pl DEF Rmdir
<1>18. CASE RmdirFails(a)
  BY <1>18, <1>fn, <1>pl DEF RmdirFails, AfterFailure
<1>19. CASE DropToken(a)
  BY <1>19, <1>fn, <1>pl DEF DropToken
<1>20. CASE Finish(a)
  BY <1>20, <1>fn, <1>pl DEF Finish
<1>21. CASE Begin(a)
  BY <1>21, <1>fn, <1>pl DEF Begin, BeginFrom
<1>22. CASE Freeze(a)
  BY <1>22, <1>fn, <1>pl DEF Freeze
<1>23. CASE Gate(a)
  BY <1>23, <1>fn, <1>pl DEF Gate
<1>24. CASE Stamp(a)
  BY <1>24, <1>fn, <1>pl DEF Stamp
<1>25. CASE OpenJournal(a)
  BY <1>25, <1>fn, <1>pl DEF OpenJournal
<1>26. CASE Fill(a)
  BY <1>26, <1>fn, <1>pl DEF Fill, FillIf
<1>27. CASE GiveUp(a)
  BY <1>27, <1>fn, <1>pl DEF GiveUp
<1>28. CASE Publish(a)
  <2>1. CASE frozen[a]
    <3>1. /\ UNCHANGED <<token, row, closeout, owner, leaseDir, litter, verb>>
          /\ pc[a] = "publish" /\ pc' = [pc EXCEPT ![a] = "commit"]
          /\ landed' = [landed EXCEPT ![a] = TRUE]
      BY <1>28, <2>1 DEF Publish
    <3>2. \A b \in Agent : ~based'[b] /\ ~frozen'[b]
      BY <1>28, <2>1 DEF Publish, TargetMoves
    <3>3. pc'[a] = "commit" /\ \A b \in Agent \ {a} : landed'[b] = landed[b]
      BY <3>1, <1>fn
    <3> QED
      BY <2>1, <3>1, <3>2, <3>3, <1>pl
  <2>2. CASE ~frozen[a]
    BY <1>28, <2>2, <1>fn, <1>pl DEF Publish
  <2> QED
    BY <2>1, <2>2
<1>29. CASE CommitJournal(a)
  BY <1>29, <1>fn, <1>pl DEF CommitJournal, Closed
<1>30. CASE Clear(a)
  BY <1>30, <1>fn, <1>pl DEF Clear
<1>31. CASE Restore(a)
  BY <1>31, <1>fn, <1>pl DEF Restore
<1>32. CASE Abort(a)
  BY <1>32, <1>fn, <1>pl DEF Abort
<1>33. CASE RecoverLanded(a)
  BY <1>33, <1>fn, <1>pl DEF RecoverLanded, Closed
<1>34. CASE RecoverAbort(a)
  BY <1>34, <1>fn, <1>pl DEF RecoverAbort
<1>35. CASE Reconcile(a)
  BY <1>35, <1>fn, <1>pl DEF Reconcile, ReconcileIf
<1>36. CASE Complete(a)
  <2>1. CASE leaseDir
    <3>1. out'[a] = [owner EXCEPT !.state = "released"] /\ owner \in Records
      BY <1>36, <2>1, <1>fn DEF Complete, MayFlip
    <3>2. out'[a].wt = owner.wt
      BY <3>1 DEF Records
    <3> QED
      BY <1>36, <2>1, <3>2, <1>fn, <1>pl DEF Complete
  <2>2. CASE ~leaseDir
    BY <1>36, <2>2, <1>fn, <1>pl DEF Complete
  <2> QED
    BY <2>1, <2>2
<1>37. CASE CommitInline(a)
  BY <1>37, <1>fn, <1>pl DEF CommitInline, TargetMoves
<1>38. CASE Rebase(a)
  BY <1>38, <1>fn, <1>pl DEF Rebase
<1>39. CASE Crash(a)
  BY <1>39, <1>fn, <1>pl DEF Crash
<1>40. CASE HandOver(a)
  BY <1>40, <1>fn, <1>pl DEF HandOver, Closed
<1>41. CASE ShipAborts(a)
  BY <1>41, <1>fn, <1>pl DEF ShipAborts, HandedOver
<1>42. CASE ShipLands(a)
  BY <1>42, <1>fn, <1>pl DEF ShipLands, HandedOver, TargetMoves
<1> QED
  BY <1>1, <1>2, <1>3, <1>4, <1>5, <1>6, <1>7, <1>8, <1>9, <1>10, <1>11,
     <1>12, <1>13, <1>14, <1>15, <1>16, <1>17, <1>18, <1>19, <1>20, <1>21,
     <1>22, <1>23, <1>24, <1>25, <1>26, <1>27, <1>28, <1>29, <1>30, <1>31,
     <1>32, <1>33, <1>34, <1>35, <1>36, <1>37, <1>38, <1>39, <1>40, <1>41, <1>42
     DEF Operator, Command, Mishap, Starter, Finisher, Writer, Recover

\* A step of a command keeps its own course: the closeout is taken first and
\* given up last, and the row is compared with the record under a frozen base.
LEMMA CourseStep ==
  ASSUME EInv, NEW a \in Agent, Operator(a) \/ Command(a) \/ Mishap(a)
  PROVE  CourseOK(a)' /\ RowOK(a)'
<1>iv. IInv /\ CourseOK(a) /\ RowOK(a)
  BY DEF EInv
<1>fn. /\ pc \in [Agent -> PC] /\ verb \in [Agent -> Verbs]
       /\ mine \in [Agent -> Claim \cup {NoClaim}]
       /\ token \in [Agent -> Claim \cup {NoClaim}]
       /\ row \in [Agent -> BOOLEAN] /\ landed \in [Agent -> BOOLEAN]
       /\ based \in [Agent -> BOOLEAN] /\ frozen \in [Agent -> BOOLEAN]
       /\ closeout \in [Agent -> {"none", "claimed", "open"}]
       /\ out \in [Agent -> Records \cup {NoRecord}]
       /\ owner \in Records \cup {NoRecord}
       /\ canon \in [done : BOOLEAN, rev : Rev]
       /\ litter \in BOOLEAN /\ leaseDir \in BOOLEAN
  BY <1>iv, IInvIsLocal DEF TypeOK
<1>pl. /\ pc[a] \notin {"rename", "recheck", "unlink", "rmdir", "dropToken"} =>
            verb[a] = "none"
       /\ verb[a] \in {"begin", "stamp", "abort", "bind", "steal"} => pc[a] = "rename"
       /\ verb[a] = "complete" => pc[a] \in {"rename", "unlink", "rmdir", "dropToken"}
       /\ pc[a] = "dropToken" => verb[a] \in {"none", "complete"}
       /\ pc[a] \in {"recheck", "unlink", "rmdir"} =>
            verb[a] \in {"claim", "release", "complete", "reconcile", "clear"}
       /\ pc[a] = "rename" => /\ out[a] # NoRecord
                              /\ verb[a] \in {"claim", "bind", "steal", "begin", "stamp",
                                              "abort", "release", "complete"}
  BY <1>iv, Places
<1> USE DEF CourseOK, RowOK, Closing, Gated, Finishing, plane, tree, target, finish, mem,
            Locked, Goto, Work, Exit, Draft, Condemn, Unlock
<1>1. CASE StartTask(a)
  BY <1>1, <1>iv, <1>fn, <1>pl DEF StartTask
<1>2. CASE Verify(a)
  BY <1>2, <1>iv, <1>fn, <1>pl DEF Verify
<1>3. CASE Elect(a)
  BY <1>3, <1>iv, <1>fn, <1>pl DEF Elect
<1>4. CASE Recheck(a)
  BY <1>4, <1>iv, <1>fn, <1>pl DEF Recheck
<1>5. CASE CaptureFails(a)
  BY <1>5, <1>iv, <1>fn, <1>pl DEF CaptureFails
<1>6. CASE LeaveReserving(a)
  BY <1>6, <1>iv, <1>fn, <1>pl DEF LeaveReserving
<1>7. CASE ResumeBind(a)
  BY <1>7, <1>iv, <1>fn, <1>pl DEF ResumeBind
<1>8. CASE Bind(a)
  BY <1>8, <1>iv, <1>fn, <1>pl DEF Bind
<1>9. CASE WriteToken(a)
  BY <1>9, <1>iv, <1>fn, <1>pl DEF WriteToken, Owned
<1>10. CASE StartRelease(a)
  BY <1>10, <1>iv, <1>fn, <1>pl DEF StartRelease
<1>11. CASE Release(a)
  BY <1>11, <1>iv, <1>fn, <1>pl DEF Release, ReleaseFrom
<1>12. CASE Observe(a)
  BY <1>12, <1>iv, <1>fn, <1>pl DEF Observe
<1>13. CASE Steal(a)
  BY <1>13, <1>iv, <1>fn, <1>pl DEF Steal, StealFrom
<1>14. CASE Rename(a)
  BY <1>14, <1>iv, <1>fn, <1>pl DEF Rename, AfterWrite
<1>15. CASE RenameFails(a)
  BY <1>15, <1>iv, <1>fn, <1>pl DEF RenameFails, AfterFailure
<1>16. CASE Unlink(a)
  BY <1>16, <1>iv, <1>fn, <1>pl DEF Unlink
<1>17. CASE Rmdir(a)
  BY <1>17, <1>iv, <1>fn, <1>pl DEF Rmdir
<1>18. CASE RmdirFails(a)
  BY <1>18, <1>iv, <1>fn, <1>pl DEF RmdirFails, AfterFailure
<1>19. CASE DropToken(a)
  <2>1. verb[a] # "none" => lock = a
    BY <1>iv, IInvIsLocal DEF Good, LockOK
  <2>2. verb'[a] = "none"
    BY <1>19, <2>1, <1>fn DEF DropToken
  <2> QED
    BY <1>19, <2>2, <1>iv, <1>fn, <1>pl DEF DropToken
<1>20. CASE Finish(a)
  BY <1>20, <1>iv, <1>fn, <1>pl DEF Finish
<1>21. CASE Begin(a)
  <2>1. CASE MayComplete(a, {"bound", "completing"})
    <3>1. /\ verb' = [verb EXCEPT ![a] = "begin"] /\ pc' = [pc EXCEPT ![a] = "rename"]
          /\ UNCHANGED <<closeout, row, canon, based, frozen, mine>>
      BY <1>21, <2>1 DEF Begin, BeginFrom
    <3>2. verb'[a] = "begin" /\ pc'[a] = "rename"
      BY <3>1, <1>fn
    <3>3. closeout[a] # "none"
      BY <1>21, <1>iv DEF Begin, BeginFrom
    <3> QED
      BY <3>1, <3>2, <3>3, <1>iv
  <2>2. CASE ~MayComplete(a, {"bound", "completing"})
    BY <1>21, <2>2, <1>iv, <1>fn, <1>pl DEF Begin, BeginFrom
  <2> QED
    BY <2>1, <2>2
<1>22. CASE Freeze(a)
  BY <1>22, <1>iv, <1>fn, <1>pl DEF Freeze
<1>23. CASE Gate(a)
  BY <1>23, <1>iv, <1>fn, <1>pl DEF Gate
<1>24. CASE Stamp(a)
  <2>1. CASE mine[a] # NoClaim /\ MayComplete(a, {"bound", "completing"})
    <3>1. /\ verb' = [verb EXCEPT ![a] = "stamp"] /\ pc' = [pc EXCEPT ![a] = "rename"]
          /\ out' = [out EXCEPT ![a] = Completing(TRUE)]
          /\ UNCHANGED <<closeout, row, canon, based, frozen, mine>>
          /\ pc[a] = "stamp"
      BY <1>24, <2>1 DEF Stamp
    <3>2. verb'[a] = "stamp" /\ pc'[a] = "rename" /\ out'[a] = Completing(TRUE)
      BY <3>1, <1>fn
    <3>3. owner \in Records /\ owner.rev = canon.rev
      BY <2>1, <1>fn DEF MayComplete, Owned
    <3>4. Completing(TRUE).rev = canon.rev
      BY <3>3 DEF Completing, Records
    <3> QED
      BY <3>1, <3>2, <3>4, <1>iv
  <2>2. CASE ~(mine[a] # NoClaim /\ MayComplete(a, {"bound", "completing"}))
    BY <1>24, <2>2, <1>iv, <1>fn, <1>pl DEF Stamp
  <2> QED
    BY <2>1, <2>2
<1>25. CASE OpenJournal(a)
  BY <1>25, <1>iv, <1>fn, <1>pl DEF OpenJournal
<1>26. CASE Fill(a)
  BY <1>26, <1>iv, <1>fn, <1>pl DEF Fill, FillIf
<1>27. CASE GiveUp(a)
  BY <1>27, <1>iv, <1>fn, <1>pl DEF GiveUp
<1>28. CASE Publish(a)
  BY <1>28, <1>iv, <1>fn, <1>pl DEF Publish, TargetMoves
<1>29. CASE CommitJournal(a)
  BY <1>29, <1>iv, <1>fn, <1>pl DEF CommitJournal, Closed
<1>30. CASE Clear(a)
  BY <1>30, <1>iv, <1>fn, <1>pl DEF Clear
<1>31. CASE Restore(a)
  BY <1>31, <1>iv, <1>fn, <1>pl DEF Restore
<1>32. CASE Abort(a)
  BY <1>32, <1>iv, <1>fn, <1>pl DEF Abort
<1>33. CASE RecoverLanded(a)
  BY <1>33, <1>iv, <1>fn, <1>pl DEF RecoverLanded, Closed
<1>34. CASE RecoverAbort(a)
  BY <1>34, <1>iv, <1>fn, <1>pl DEF RecoverAbort
<1>35. CASE Reconcile(a)
  BY <1>35, <1>iv, <1>fn, <1>pl DEF Reconcile, ReconcileIf
<1>36. CASE Complete(a)
  BY <1>36, <1>iv, <1>fn, <1>pl DEF Complete
<1>37. CASE CommitInline(a)
  BY <1>37, <1>iv, <1>fn, <1>pl DEF CommitInline, TargetMoves
<1>38. CASE Rebase(a)
  BY <1>38, <1>iv, <1>fn, <1>pl DEF Rebase
<1>39. CASE Crash(a)
  BY <1>39, <1>iv, <1>fn, <1>pl DEF Crash
<1>40. CASE HandOver(a)
  BY <1>40, <1>iv, <1>fn, <1>pl DEF HandOver, Closed
<1>41. CASE ShipAborts(a)
  BY <1>41, <1>iv, <1>fn, <1>pl DEF ShipAborts, HandedOver
<1>42. CASE ShipLands(a)
  BY <1>42, <1>iv, <1>fn, <1>pl DEF ShipLands, HandedOver, TargetMoves
<1> QED
  BY <1>1, <1>2, <1>3, <1>4, <1>5, <1>6, <1>7, <1>8, <1>9, <1>10, <1>11,
     <1>12, <1>13, <1>14, <1>15, <1>16, <1>17, <1>18, <1>19, <1>20, <1>21,
     <1>22, <1>23, <1>24, <1>25, <1>26, <1>27, <1>28, <1>29, <1>30, <1>31,
     <1>32, <1>33, <1>34, <1>35, <1>36, <1>37, <1>38, <1>39, <1>40, <1>41, <1>42
     DEF Operator, Command, Mishap, Starter, Finisher, Writer, Recover

\* And that of every other: what a step of another command can do to it is to
\* move the target branch, which unfreezes and outdates its worktree.
LEMMA CourseOfOthers ==
  ASSUME EInv, NEW a \in Agent, NEW b \in Agent \ {a}, Frame(a), Moves(a)
  PROVE  CourseOK(b)' /\ RowOK(b)'
<1>iv. IInv /\ CourseOK(b) /\ RowOK(b)
  BY DEF EInv
<1>b. /\ pc'[b] = pc[b] /\ verb'[b] = verb[b] /\ mine'[b] = mine[b] /\ out'[b] = out[b]
      /\ token'[b] = token[b] /\ row'[b] = row[b] /\ closeout'[b] = closeout[b]
      /\ based'[b] => based[b] /\ canon' = canon
      /\ frozen'[b] => frozen[b] /\ canon' = canon
  BY DEF Frame, Moves
<1>1. CourseOK(b)'
  <2>1. ASSUME frozen'[b], mine'[b] # NoClaim, pc'[b] \in {"open", "fill", "publish"}
        PROVE  owner'.rev = canon'.rev
    <3>1. InWindow(b) /\ ~canon.done /\ owner.rev = canon.rev /\ canon' = canon
      BY <2>1, <1>iv, <1>b DEF CourseOK, Gated, InWindow
    <3> QED
      BY <3>1, <1>iv, WindowLeftAlone
  <2> QED
    BY <2>1, <1>iv, <1>b DEF CourseOK, Closing, Gated
<1>2. RowOK(b)'
  <2> SUFFICES ASSUME verb[b] = "complete" PROVE leaseDir' = leaseDir
    BY <1>iv, <1>b DEF RowOK
  <2>1. lock = b /\ lock # a /\ lock # Nobody
    BY <1>iv, IInvIsLocal, ConstAssumption DEF Good, LockOK
  <2>2. pc[a] # "rmdir"
    BY <2>1, <1>iv, IInvIsLocal DEF Good, LockOK
  <2> QED
    BY <2>1, <2>2, <1>iv DEF Frame
<1> QED
  BY <1>1, <1>2

\* A token keeps its meaning: the record it was written from is bound, and what
\* replaces a bound record under its claim keeps the worktree.
LEMMA TokenStep ==
  ASSUME EInv, NEW a \in Agent, NEW b \in Agent, Frame(a), Moves(a), Traced(a)
  PROVE  TokenOK(b)'
<1>iv. IInv /\ TokenOK(a) /\ TokenOK(b)
  BY DEF EInv
<1>g. /\ TypeOK /\ Good(a) /\ Good(b) /\ FreshDrafts
      /\ NoClaim \notin Claim /\ \A r \in Records : r.claim \in Claim
  BY <1>iv, IInvIsLocal, ConstAssumption DEF Records
<1>1. ASSUME owner' # NoRecord, token'[b] = owner'.claim
      PROVE  owner'.state # "reserving" /\ owner'.wt = b
  <2>1. CASE owner' = owner /\ token'[b] = token[b]
    BY <1>1, <2>1, <1>iv DEF TokenOK
  <2>2. CASE token'[b] # token[b]
    <3>1. b = a /\ owner' = owner
      BY <2>2 DEF Moves
    <3>2. owner.claim # NoClaim
      BY <3>1, <1>1, <1>g DEF TypeOK
    <3> QED
      BY <1>1, <2>2, <3>1, <3>2 DEF Moves
  <2>3. CASE owner' # owner
    <3>1. /\ pc[a] = "rename" /\ owner' = out[a] /\ Drafts(a)
          /\ token'[b] = token[b] /\ token[b] = out[a].claim
      <4>1. pc[a] = "rename" /\ owner' = out[a]
        BY <2>3, <1>1 DEF Frame
      <4>2. token'[b] = token[b]
        BY <2>3 DEF Moves
      <4> QED
        BY <4>1, <4>2, <1>1, <1>g DEF Good, DraftOK
    <3>2. CASE verb[a] \in {"claim", "steal"}
      BY <3>1, <3>2, <1>g DEF FreshDrafts, Unknown
    <3>3. CASE verb[a] # "steal" /\ owner # NoRecord /\ owner.claim = mine[a]
      <4>1. out[a].claim = mine[a] /\ owner.state # "reserving" /\ owner.wt = b
        BY <3>1, <3>3, <1>iv DEF Drafts, TokenOK
      <4>2. CASE verb[a] = "bind"
        BY <4>1, <4>2, <3>1 DEF Drafts, Owned
      <4>3. CASE verb[a] \in {"release", "complete"}
        BY <4>1, <4>3, <3>1, <1>iv DEF Drafts, TokenOK
      <4>4. CASE verb[a] \in {"begin", "stamp", "abort"}
        BY <4>1, <4>4, <3>1 DEF Drafts
      <4>5. CASE verb[a] = "claim"
        BY <4>5, <3>2
      <4> QED
        BY <4>2, <4>3, <4>4, <4>5, <3>1, <3>3 DEF Drafts
    <3>4. verb[a] \notin {"claim", "steal"} => owner # NoRecord /\ owner.claim = mine[a]
      BY <3>1 DEF Drafts, Owned
    <3> QED
      BY <3>2, <3>3, <3>4
  <2> QED
    BY <2>1, <2>2, <2>3
<1>2. ASSUME pc'[b] = "rename", verb'[b] \in {"release", "complete"}
      PROVE  out'[b].wt = owner'.wt
  <2>1. CASE b = a
    BY <1>2, <2>1 DEF Moves
  <2>2. CASE b # a
    <3>1. pc[b] = "rename" /\ verb[b] \in {"release", "complete"} /\ out'[b] = out[b]
      BY <1>2, <2>2 DEF Frame
    <3>2. owner' = owner
      BY <2>2, <3>1, <1>g, ConstAssumption DEF Good, LockOK, Frame
    <3> QED
      BY <3>1, <3>2, <1>iv DEF TokenOK
  <2> QED
    BY <2>1, <2>2
<1> QED
  BY <1>1, <1>2 DEF TokenOK

\* A lease directory without a record is one that a command is still making or
\* removing, unless a death left it.
LEMMA ResidueStep ==
  ASSUME EInv, NEW a \in Agent, Frame(a), Moves(a)
  PROVE  Residue'
<1>1. "rename" \notin CrashPoints => ~litter'
  BY DEF EInv, Residue, Moves
<1>2. ASSUME {"rename", "rmdir"} \cap CrashPoints = {}, Unrecorded'
      PROVE  \E b \in Agent : Making(b)'
  <2>1. ~litter
    BY <1>2 DEF EInv, Residue
  <2>2. Making(a)' \/ (Unrecorded /\ ~Making(a))
    BY <1>2, <2>1 DEF Moves
  <2>3. CASE Unrecorded /\ ~Making(a)
    <3>1. PICK b \in Agent : Making(b)
      BY <1>2, <2>3 DEF EInv, Residue
    <3>2. Making(b)'
      BY <2>3, <3>1 DEF Making, Frame
    <3> QED
      BY <3>2
  <2> QED
    BY <2>2, <2>3
<1> QED
  BY <1>1, <1>2 DEF Residue

-----------------------------------------------------------------------------
(* The invariant and what follows from it.                                  *)

LEMMA InitEInv == Init => EInv
<1> SUFFICES ASSUME Init PROVE EInv
  OBVIOUS
<1>1. IInv
  BY InitIInv
<1>2. \A a \in Agent : TokenOK(a) /\ CourseOK(a) /\ RowOK(a)
  BY DEF Init, TokenOK, CourseOK, Closing, Gated, RowOK, Finishing
<1> QED
  BY <1>1, <1>2 DEF Init, EInv, Residue, Unrecorded

LEMMA StepEInv == EInv /\ [Next]_vars => EInv'
<1> SUFFICES ASSUME EInv, [Next]_vars PROVE EInv'
  OBVIOUS
<1>0. IInv /\ IInv'
  BY StepIInv DEF EInv
<1>1. CASE \E a \in Agent : Operator(a) \/ Command(a) \/ Mishap(a)
  <2>1. PICK a \in Agent : Operator(a) \/ Command(a) \/ Mishap(a)
    BY <1>1
  <2>2. Frame(a) /\ Moves(a) /\ Traced(a)
    BY <2>1, <1>0, Framed, Moved, TracedStep
  <2>3. \A b \in Agent : TokenOK(b)'
    BY <2>2, TokenStep
  <2>4. \A b \in Agent : CourseOK(b)' /\ RowOK(b)'
    BY <2>1, <2>2, CourseStep, CourseOfOthers
  <2>5. Residue'
    BY <2>2, ResidueStep
  <2> QED
    BY <1>0, <2>3, <2>4, <2>5 DEF EInv
\* A new revision of the row finds no worktree that contains it, and no base
\* frozen.
<1>2. CASE EditTarget
  <2>1. /\ UNCHANGED <<leaseDir, owner, litter, token, row, closeout, mine, pc, verb, out>>
        /\ \A b \in Agent : ~based'[b] /\ ~frozen'[b]
    BY <1>2 DEF EditTarget, TargetMoves, plane, tree, finish, mem, Locked
  <2> QED
    BY <2>1, <1>0 DEF EInv, TokenOK, CourseOK, Closing, Gated, RowOK, Residue, Unrecorded, Making
<1>3. CASE UNCHANGED vars
  BY <1>3, <1>0 DEF EInv, TokenOK, CourseOK, Closing, Gated, RowOK, Residue, Unrecorded, Making,
     vars, plane, tree, target, finish, mem
<1> QED
  BY <1>1, <1>2, <1>3 DEF Next

(* The strengthening that makes the properties inductive.                   *)
THEOREM EffectsInvariant == Spec => []EInv
BY InitEInv, StepEInv, PTL DEF Spec

(* A token file that names the owner lies in the worktree the lease is bound *)
(* to, whatever dies, fails or is stolen: no two worktrees may complete the *)
(* row under one claim.                                                     *)
THEOREM OneWorktreePerClaim == Spec => []TokenFollowsBinding
<1>1. EInv => TokenFollowsBinding
  BY DEF EInv, TokenOK, TokenFollowsBinding
<1> QED
  BY <1>1, EffectsInvariant, PTL

(* A finish under a claim publishes a pending row, at the revision that was *)
(* claimed, while the lease is its own and its window open.                 *)
THEOREM PublishesItsOwn == Spec => OwnerPublishes
<1>1. ASSUME EInv, [Next]_vars, NEW b \in Agent,
             mine[b] # NoClaim, landed'[b], ~landed[b]
      PROVE  /\ ~canon.done
             /\ Owned(b, {"completing"}) /\ owner.wt = b
             /\ owner.rev = canon.rev
  <2>1. PICK a \in Agent : Operator(a) \/ Command(a) \/ Mishap(a)
    BY <1>1 DEF Next, EditTarget, vars, finish
  <2>2. IInv /\ Moves(a)
    BY <1>1, <2>1, Moved DEF EInv
  <2>3. b = a /\ pc[b] = "publish" /\ frozen[b]
    BY <1>1, <2>2 DEF Moves
  <2>4. ~canon.done /\ owner.rev = canon.rev
    BY <1>1, <2>3 DEF EInv, CourseOK, Gated
  <2>5. Owned(b, {"completing"}) /\ owner.wt = b
    BY <1>1, <2>2, <2>3, <2>4, IInvIsLocal DEF Good, WindowOK, InWindow
  <2> QED
    BY <2>4, <2>5
<1>2. EInv /\ [Next]_vars =>
        [\A a \in Agent : mine[a] # NoClaim /\ landed'[a] /\ ~landed[a] =>
           /\ ~canon.done
           /\ Owned(a, {"completing"}) /\ owner.wt = a
           /\ owner.rev = canon.rev]_vars
  BY <1>1
<1> QED
  BY <1>2, EffectsInvariant, PTL DEF Spec, OwnerPublishes

(* Commands that do not die while they write a record or remove a lease     *)
(* directory leave no directory without a record, even when writes fail.    *)
THEOREM LeavesNoResidue ==
  ASSUME {"rename", "rmdir"} \cap CrashPoints = {}
  PROVE  Spec => []NoAmbiguousResidue
<1>1. EInv => NoAmbiguousResidue
  BY DEF EInv, Residue, Unrecorded, Making, NoAmbiguousResidue
<1> QED
  BY <1>1, EffectsInvariant, PTL

(* An inline completion that does not die either completes, the row, the    *)
(* lease and the token together, or puts the row back and keeps the token,  *)
(* with no other claim in the lease, whichever write or removal fails.      *)
THEOREM CompletesWhole == Spec => CompletesOrRestores
<1>1. ASSUME EInv, [Next]_vars, NEW b \in Agent, CompleteEnds(b)
      PROVE  \/ Completed(b)
             \/ /\ ~row'[b] /\ leaseDir'
                /\ token'[b] = token[b]
                /\ owner' = NoRecord \/ owner'.claim = token[b]
  <2>1. PICK a \in Agent : Operator(a) \/ Command(a) \/ Mishap(a)
    BY <1>1 DEF Next, EditTarget, vars, Locked, CompleteEnds
  <2>2. IInv /\ Moves(a) /\ Frame(a) /\ Good(a) /\ RowOK(a)
    BY <1>1, <2>1, Moved, Framed, IInvIsLocal DEF EInv
  <2>3. b = a /\ verb[a] = "complete"
    BY <1>1, <2>2 DEF Frame, CompleteEnds
  <2>4. row[a] /\ mine[a] = token[a] /\ (leaseDir <=> pc[a] # "dropToken")
    BY <2>2, <2>3 DEF RowOK
  <2>5. CASE pc[a] = "dropToken"
    BY <1>1, <2>2, <2>3, <2>4, <2>5 DEF Moves, Completed
  <2>6. CASE pc[a] = "rename"
    <3>1. owner.claim = mine[a] /\ out[a].claim = mine[a]
      BY <2>2, <2>3, <2>6 DEF Good, DraftOK, Drafts, Owned
    <3> QED
      BY <1>1, <2>2, <2>3, <2>4, <2>6, <3>1 DEF Moves, Frame
  <2>7. CASE pc[a] = "rmdir"
    <3>1. owner = NoRecord /\ owner' = owner
      BY <2>2, <2>7 DEF Good, HomeOK, Frame
    <3> QED
      BY <1>1, <2>2, <2>3, <2>4, <2>7, <3>1 DEF Moves
  <2> QED
    BY <1>1, <2>2, <2>3, <2>5, <2>6, <2>7 DEF Moves
<1>2. EInv /\ [Next]_vars =>
        [\A a \in Agent : CompleteEnds(a) =>
           \/ Completed(a)
           \/ /\ ~row'[a] /\ leaseDir'
              /\ token'[a] = token[a]
              /\ owner' = NoRecord \/ owner'.claim = token[a]]_vars
  BY <1>1
<1> QED
  BY <1>2, EffectsInvariant, PTL DEF Spec, CompletesOrRestores
=============================================================================
