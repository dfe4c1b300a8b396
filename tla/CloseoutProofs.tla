--------------------------- MODULE CloseoutProofs ---------------------------
(***************************************************************************)
(* What Closeout guarantees for any number of processes that are killed    *)
(* anywhere, as long as no recovery runs beside another one or beside a    *)
(* claim that is being made, and nobody moves between what a recovery has  *)
(* read and its probe of the owner (~Overlap).                             *)
(*                                                                         *)
(* The argument.  The claim is held by at most one process at a time: its  *)
(* maker, the owner it names, or the one recovery of an owner that is gone *)
(* (Alone, Holds).  So nobody else moves the journal or the worktree under *)
(* it, and what it has read or written is still so at its next step        *)
(* (Known).  What it leaves behind when it is killed is what the disk says *)
(* by itself (Disk, Content).                                              *)
(***************************************************************************)
EXTENDS Closeout, TLAPS

\* A process that has to do with the claim: it makes it, works under it or takes
\* it over.
Engaged(p) == pc[p] \in {"own", "lane", "takeLane", "ownLane"} \cup Closing \cup Undoing

\* What a process was started for, by where it is.
Cast(p) ==
  /\ pc[p] = "idle" => role[p] \in {"none", "killed"}
  /\ pc[p] \in {"acquire", "own", "undo"} \cup (Closing \ {"ack", "complete"})
       => role[p] = "finish"
  /\ pc[p] \in {"judge", "lane", "takeLane", "ownLane"} => role[p] \in Recovery
  /\ pc[p] = "check" => role[p] \in {"abort", "reconcile"}
  /\ pc[p] \in {"ack", "complete"} => role[p] \in {"finish", "reconcile"}
  /\ pc[p] \in {"restore", "rewrite", "recordAborted"} => role[p] \in {"finish", "abort"}
  /\ pc[p] = "abortLease" => role[p] \in Orphan \cup {"finish", "abort"}
  /\ pc[p] = "dropJournal" => role[p] \in Orphan
  /\ pc[p] = "purge" => role[p] \in {"finish", "abort", "reconcile"}
  /\ pc[p] = "release" => role[p] \in Recovery \cup {"finish"}

\* Whose claim it is that an engaged process works under.
Holds(p) ==
  Engaged(p) =>
    /\ claim # NoDir
    /\ pc[p] = "own" => claim.owner = Unwritten
    /\ pc[p] # "own" /\ role[p] = "finish" => claim.owner = p
    /\ role[p] \in Recovery => claim.owner \notin Proc

Alone == \A p, q \in Proc : \/ Engaged(p) /\ Engaged(q)
                            \/ Recovers(p) /\ Recovers(q)
                            => p = q

\* There is something to put back.
Undoable == journal.status = "in_progress" /\ journal.snap # "none"

\* What a process that has read the journal, or is engaged, knows of the journal,
\* the worktree and the target.
Known(p) ==
  /\ pc[p] = "judge" => \A q \in Proc : pc[q] # "own"
  /\ pc[p] \in {"own", "begin", "bind", "stamp", "journal", "undo", "release"} => ~Undoable
  /\ pc[p] \in {"bind", "stamp", "journal", "snapshot", "prepare"} => work = "original"
  /\ pc[p] \in {"snapshot", "prepare"} => journal.status = "begun"
  /\ pc[p] \in {"implement", "lifecycle", "publish", "merge"}
       => journal.status = "in_progress" /\ ~landed
  /\ pc[p] \in {"publish", "merge"} => work = "final" /\ journal.merge
  /\ pc[p] = "merge" => journal.prepared
  /\ pc[p] \in {"restore", "rewrite", "recordAborted"} => ~landed
  /\ pc[p] = "abortLease" /\ role[p] \notin Orphan => ~landed
  /\ pc[p] \in {"abortLease", "recordAborted"} /\ role[p] \notin Orphan
       => work \in {"original", "lost"}
  /\ pc[p] = "recordAborted" => lease # "open"
  /\ pc[p] = "ack" => landed /\ journal.status = "in_progress"
  /\ pc[p] = "complete" => journal.status = "in_progress"
  /\ Recovers(p) /\ role[p] \in Orphan => journal.status # "in_progress"
  /\ Recovers(p) /\ role[p] = "keyed" => journal.status \in {"none", "begun"}
  /\ pc[p] \in {"judge", "lane", "takeLane", "ownLane", "check"} /\ role[p] \in {"abort", "reconcile"}
       => journal.status = "in_progress"

\* What the disk says by itself.
Disk ==
  /\ Undoable => claim # NoDir
  /\ journal.snap \in {"none", "partial", "original"}
  /\ journal.merged => landed
  /\ landed => /\ work = "final" /\ journal.merge /\ journal.prepared
               /\ journal.status \in {"in_progress", "complete"}

\* With snapshots that do not fail: what can be put back, and where.
Undoes(p) ==
  /\ pc[p] \in {"prepare", "implement", "lifecycle", "publish", "merge", "rewrite"}
       => journal.snap = "original"
  /\ role[p] \notin Orphan /\ pc[p] \in {"abortLease", "recordAborted"} => journal.snap = "original"
  /\ role[p] = "finish" /\ pc[p] = "restore" => journal.snap = "original"
  /\ role[p] \notin Orphan /\ pc[p] \in {"restore", "rewrite", "abortLease", "recordAborted"}
       => journal.status = "in_progress"
  /\ pc[p] = "purge" /\ journal.status = "in_progress" => work \in {"original", "lost"}

Sound(p) == Cast(p) /\ Holds(p) /\ Known(p)
IInv == TypeOK /\ Alone /\ Disk /\ \A p \in Proc : Sound(p)
Content == Restorable /\ \A p \in Proc : Undoes(p)

-----------------------------------------------------------------------------
(* Where the moves lead.                                                    *)

LEMMA GotoMoves ==
  ASSUME TypeOK, NEW p \in Proc, NEW l, Goto(p, l)
  PROVE  /\ pc'[p] = l /\ role'[p] = role[p]
         /\ \A q \in Proc \ {p} : pc'[q] = pc[q] /\ role'[q] = role[q]
BY DEF Goto, TypeOK

LEMMA EndMoves ==
  ASSUME TypeOK, NEW p \in Proc, NEW c \in Claims \cup {NoDir}, NEW how, End(p, c, how)
  PROVE  /\ pc'[p] = "idle" /\ role'[p] = how
         /\ \A q \in Proc \ {p} : pc'[q] = pc[q] /\ role'[q] = role[q]
         /\ c = NoDir => claim' = NoDir
         /\ c # NoDir => /\ claim' \in Claims /\ claim' # NoDir
                         /\ claim'.owner = IF c.owner = p THEN Nobody ELSE c.owner
<1>1. /\ pc'[p] = "idle" /\ role'[p] = how
      /\ \A q \in Proc \ {p} : pc'[q] = pc[q] /\ role'[q] = role[q]
  BY DEF End, TypeOK
<1>2. CASE c = NoDir
  BY <1>1, <1>2 DEF End
<1>3. CASE c # NoDir
  <2>1. /\ claim' \in Claims
        /\ claim'.owner = IF c.owner = p THEN Nobody ELSE c.owner
    BY <1>3 DEF End, Claims
  <2> QED
    BY <1>1, <1>3, <2>1, ConstAssumption
<1> QED
  BY <1>2, <1>3

\* A process ends, whether or not it gives its recovery lane up: the claim
\* stays, and names it no more.
LEMMA LeaveMoves ==
  ASSUME TypeOK, NEW p \in Proc,
         \/ Leave(p, claim) \/ Cancel(p) \/ Retain(p) \/ End(p, claim, "killed")
  PROVE  /\ pc'[p] = "idle" /\ role'[p] \in {"none", "killed"}
         /\ \A q \in Proc \ {p} : pc'[q] = pc[q] /\ role'[q] = role[q]
         /\ claim' \in Claims \cup {NoDir}
         /\ claim' = NoDir <=> claim = NoDir
         /\ claim # NoDir => claim'.owner = IF claim.owner = p THEN Nobody ELSE claim.owner
<1>1. PICK c \in Claims \cup {NoDir}, how \in {"none", "killed"} :
        /\ End(p, c, how)
        /\ c = NoDir <=> claim = NoDir
        /\ claim # NoDir => c.owner = claim.owner
  <2>1. CASE Leave(p, claim) \/ End(p, claim, "killed")
    BY <2>1 DEF Leave, TypeOK
  <2>2. CASE Cancel(p)
    <3>1. CASE claim # NoDir /\ claim.lane = p
      <4> DEFINE c == [claim EXCEPT !.lane = NoDir]
      <4>1. c \in Claims /\ c.owner = claim.owner
        BY <3>1 DEF TypeOK, Claims
      <4>2. c # NoDir
        BY <4>1, ConstAssumption
      <4> QED
        BY <2>2, <3>1, <4>1, <4>2 DEF Cancel, Leave
    <3>2. CASE ~(claim # NoDir /\ claim.lane = p)
      BY <2>2, <3>2 DEF Cancel, Leave, TypeOK
    <3> QED
      BY <3>1, <3>2
  <2> QED
    BY <2>1, <2>2 DEF Retain
<1> QED
  BY <1>1, EndMoves, ConstAssumption

-----------------------------------------------------------------------------
(* Types.                                                                   *)

LEMMA TypesKept == TypeOK /\ Next => TypeOK'
<1> SUFFICES ASSUME TypeOK, Next PROVE TypeOK'
  OBVIOUS
<1>env. CASE Displaced \/ Settled \/ RolledBack \/ Repaired
  BY <1>env DEF Displaced, Settled, RolledBack, Repaired, effects, TypeOK, Works
<1> SUFFICES ASSUME NEW p \in Proc,
                    \/ Finish(p) \/ Step(p) \/ Mishap(p)
                    \/ RecoverOrphan(p) \/ RecoverAbort(p) \/ RecoverReconcile(p)
             PROVE  TypeOK'
  BY <1>env DEF Next
<1>end. /\ \A c \in Claims \cup {NoDir}, how \in {"none", "killed"} :
             End(p, c, how) => /\ claim' \in Claims \cup {NoDir}
                               /\ pc' \in [Proc -> PC]
                               /\ role' \in [Proc -> {"none", "killed", "finish"} \cup Recovery]
        /\ \/ Leave(p, claim) \/ Leave(p, NoDir) \/ Cancel(p) \/ Retain(p)
           \/ End(p, claim, "killed")
           => /\ claim' \in Claims \cup {NoDir}
              /\ pc' \in [Proc -> PC]
              /\ role' \in [Proc -> {"none", "killed", "finish"} \cup Recovery]
  <2>1. ASSUME NEW c \in Claims \cup {NoDir}, NEW how \in {"none", "killed"}, End(p, c, how)
        PROVE  /\ claim' \in Claims \cup {NoDir}
               /\ pc' \in [Proc -> PC]
               /\ role' \in [Proc -> {"none", "killed", "finish"} \cup Recovery]
    BY <2>1, EndMoves DEF End, TypeOK, PC
  <2>2. claim # NoDir => [claim EXCEPT !.lane = NoDir] \in Claims
    BY DEF TypeOK, Claims
  <2> QED
    BY <2>1, <2>2 DEF Leave, Cancel, Retain, TypeOK
<1>go. \A l \in PC : Goto(p, l) => /\ pc' \in [Proc -> PC]
                                   /\ role' \in [Proc -> {"none", "killed", "finish"} \cup Recovery]
  BY DEF Goto, TypeOK
<1>Finish. CASE Finish(p)
  BY <1>Finish, <1>end, <1>go, ConstAssumption
  DEF Finish, effects, TypeOK, PC, Elections, Closing, Undoing, Recovery, Orphan
<1>RecoverOrphan. CASE RecoverOrphan(p)
  BY <1>RecoverOrphan, <1>end, <1>go, ConstAssumption
  DEF RecoverOrphan, effects, Start, OrphanKind, TypeOK, PC, Elections, Closing,
      Undoing, Recovery, Orphan
<1>RecoverAbort. CASE RecoverAbort(p)
  BY <1>RecoverAbort, <1>end, <1>go, ConstAssumption
  DEF RecoverAbort, effects, Start, TypeOK, PC, Elections, Closing, Undoing, Recovery,
      Orphan
<1>RecoverReconcile. CASE RecoverReconcile(p)
  BY <1>RecoverReconcile, <1>end, <1>go, ConstAssumption
  DEF RecoverReconcile, effects, Start, TypeOK, PC, Elections, Closing, Undoing,
      Recovery, Orphan
<1>Acquire. CASE Acquire(p)
  <2>1. [owner |-> Unwritten, key |-> FALSE, lane |-> NoDir] \in Claims
    BY DEF Claims
  <2>2. CASE claim = NoDir
    BY <1>Acquire, <1>go, <2>1, <2>2 DEF Acquire, effects, TypeOK, PC, Elections
  <2>3. CASE claim # NoDir
    BY <1>Acquire, <1>end, <2>3 DEF Acquire, effects, TypeOK
  <2> QED
    BY <2>2, <2>3
<1>WriteOwner. CASE WriteOwner(p)
  BY <1>WriteOwner, <1>end, <1>go, ConstAssumption
  DEF WriteOwner, effects, Claims, TypeOK, PC, Elections, Closing, Undoing, Recovery,
      Orphan
<1>Judge. CASE Judge(p)
  BY <1>Judge, <1>end, <1>go, ConstAssumption
  DEF Judge, effects, TypeOK, PC, Elections, Closing, Undoing, Recovery, Orphan
<1>ClearLane. CASE ClearLane(p)
  BY <1>ClearLane, <1>end, <1>go, ConstAssumption
  DEF ClearLane, effects, Claims, TypeOK, PC, Elections, Closing, Undoing, Recovery,
      Orphan
<1>TakeLane. CASE TakeLane(p)
  BY <1>TakeLane, <1>end, <1>go, ConstAssumption
  DEF TakeLane, effects, Claims, TypeOK, PC, Elections, Closing, Undoing, Recovery,
      Orphan
<1>OwnLane. CASE OwnLane(p)
  BY <1>OwnLane, <1>end, <1>go, ConstAssumption
  DEF OwnLane, effects, Claims, TypeOK, PC, Elections, Closing, Undoing, Recovery,
      Orphan
<1>Begin. CASE Begin(p)
  BY <1>Begin, <1>end, <1>go, ConstAssumption
  DEF Begin, effects, TypeOK, PC, Elections, Closing, Undoing, Recovery, Orphan
<1>BindJournal. CASE BindJournal(p)
  <2>1. claim # NoDir => [claim EXCEPT !.owner = p, !.key = TRUE] \in Claims
    BY DEF TypeOK, Claims
  <2> QED
    BY <1>BindJournal, <1>go, <2>1 DEF BindJournal, effects, TypeOK, PC, Closing, Undoing
<1>Stamp. CASE Stamp(p)
  BY <1>Stamp, <1>end, <1>go, ConstAssumption
  DEF Stamp, effects, TypeOK, PC, Elections, Closing, Undoing, Recovery, Orphan
<1>OpenJournal. CASE OpenJournal(p)
  <2>1. \A m \in BOOLEAN : [NoJournal EXCEPT !.status = "begun", !.merge = m] \in Journals
    BY DEF NoJournal, Journals
  <2> QED
    BY <1>OpenJournal, <1>go, <2>1 DEF OpenJournal, effects, TypeOK, PC, Closing, Undoing
<1>Snapshot. CASE Snapshot(p)
  BY <1>Snapshot, <1>end, <1>go, ConstAssumption
  DEF Snapshot, effects, Journals, Works, TypeOK, PC, Elections, Closing, Undoing,
      Recovery, Orphan
<1>Prepare. CASE Prepare(p)
  BY <1>Prepare, <1>end, <1>go, ConstAssumption
  DEF Prepare, effects, Journals, TypeOK, PC, Elections, Closing, Undoing, Recovery,
      Orphan
<1>Implement. CASE Implement(p)
  BY <1>Implement, <1>end, <1>go, ConstAssumption
  DEF Implement, effects, Works, TypeOK, PC, Elections, Closing, Undoing, Recovery,
      Orphan
<1>Lifecycle. CASE Lifecycle(p)
  BY <1>Lifecycle, <1>end, <1>go, ConstAssumption
  DEF Lifecycle, effects, Works, TypeOK, PC, Elections, Closing, Undoing, Recovery,
      Orphan
<1>Publish. CASE Publish(p)
  BY <1>Publish, <1>end, <1>go, ConstAssumption
  DEF Publish, effects, Journals, TypeOK, PC, Elections, Closing, Undoing, Recovery,
      Orphan
<1>Merge. CASE Merge(p)
  BY <1>Merge, <1>end, <1>go, ConstAssumption
  DEF Merge, effects, TypeOK, PC, Elections, Closing, Undoing, Recovery, Orphan
<1>Acknowledge. CASE Acknowledge(p)
  BY <1>Acknowledge, <1>end, <1>go, ConstAssumption
  DEF Acknowledge, effects, Journals, TypeOK, PC, Elections, Closing, Undoing,
      Recovery, Orphan
<1>Complete. CASE Complete(p)
  BY <1>Complete, <1>end, <1>go, ConstAssumption
  DEF Complete, effects, Journals, TypeOK, PC, Elections, Closing, Undoing, Recovery,
      Orphan
<1>Check. CASE Check(p)
  BY <1>Check, <1>end, <1>go, ConstAssumption
  DEF Check, effects, TypeOK, PC, Elections, Closing, Undoing, Recovery, Orphan
<1>Restore. CASE Restore(p)
  BY <1>Restore, <1>end, <1>go, ConstAssumption
  DEF Restore, effects, Works, TypeOK, PC, Elections, Closing, Undoing, Recovery,
      Orphan
<1>Rewrite. CASE Rewrite(p)
  BY <1>Rewrite, <1>end, <1>go, ConstAssumption
  DEF Rewrite, effects, Works, TypeOK, PC, Elections, Closing, Undoing, Recovery,
      Orphan
<1>AbortLease. CASE AbortLease(p)
  BY <1>AbortLease, <1>end, <1>go, ConstAssumption
  DEF AbortLease, effects, TypeOK, PC, Elections, Closing, Undoing, Recovery, Orphan
<1>DropJournal. CASE DropJournal(p)
  BY <1>DropJournal, <1>end, <1>go, ConstAssumption
  DEF DropJournal, effects, Journals, NoJournal, Works, TypeOK, PC, Elections, Closing,
      Undoing, Recovery, Orphan
<1>RecordAborted. CASE RecordAborted(p)
  BY <1>RecordAborted, <1>end, <1>go, ConstAssumption
  DEF RecordAborted, effects, Journals, TypeOK, PC, Elections, Closing, Undoing,
      Recovery, Orphan
<1>Purge. CASE Purge(p)
  BY <1>Purge, <1>end, <1>go, ConstAssumption
  DEF Purge, effects, Journals, TypeOK, PC, Elections, Closing, Undoing, Recovery,
      Orphan
<1>Release. CASE Release(p)
  BY <1>Release, <1>end, <1>go, ConstAssumption
  DEF Release, effects, TypeOK, PC, Elections, Closing, Undoing, Recovery, Orphan
<1>Fail. CASE Fail(p)
  BY <1>Fail, <1>end, <1>go, ConstAssumption
  DEF Fail, effects, InTransaction, TypeOK, PC, Elections, Closing, Undoing, Recovery,
      Orphan
<1>Crash. CASE Crash(p)
  BY <1>Crash, <1>end, <1>go, ConstAssumption
  DEF Crash, effects, TypeOK, PC, Elections, Closing, Undoing, Recovery, Orphan
<1> QED
  BY <1>Finish, <1>RecoverOrphan, <1>RecoverAbort, <1>RecoverReconcile, <1>Acquire,
     <1>WriteOwner, <1>Judge, <1>ClearLane, <1>TakeLane, <1>OwnLane, <1>Begin,
     <1>BindJournal, <1>Stamp, <1>OpenJournal, <1>Snapshot, <1>Prepare, <1>Implement,
     <1>Lifecycle, <1>Publish, <1>Merge, <1>Acknowledge, <1>Complete, <1>Check,
     <1>Restore, <1>Rewrite, <1>AbortLease, <1>DropJournal, <1>RecordAborted, <1>Purge,
     <1>Release, <1>Fail, <1>Crash
  DEF Step, Elect, Close, Undo, Mishap

-----------------------------------------------------------------------------
(* The invariant, for the process that moves.                               *)

\* A process that is not engaged moves neither the journal nor the worktree,
\* and engages itself only where nobody is.
LEMMA Aloof ==
  ASSUME ~Overlap, IInv, NEW p \in Proc, ~Engaged(p),
         \/ Finish(p) \/ Step(p) \/ Mishap(p)
         \/ RecoverOrphan(p) \/ RecoverAbort(p) \/ RecoverReconcile(p)
  PROVE  /\ UNCHANGED <<journal, effects, lease>>
         /\ \/ Acquire(p) /\ claim = NoDir /\ claim' # NoDir
            \/ Judge(p) /\ claim # NoDir /\ claim.owner \notin Proc /\ claim' = claim
               /\ \A q \in Proc : pc[q] # "own"
            \/ /\ ~Engaged(p)'
               /\ claim' = NoDir <=> claim = NoDir
               /\ claim # NoDir => \/ claim'.owner = claim.owner
                                   \/ claim.owner = p /\ claim'.owner = Nobody
<1>1. pc[p] \in {"idle", "acquire", "judge"}
  BY DEF Engaged, IInv, TypeOK, PC, Elections, Closing, Undoing
<1>2. CASE Finish(p)
  BY <1>2 DEF Finish, Engaged, Closing, Undoing, IInv, TypeOK
<1>3. CASE RecoverOrphan(p) \/ RecoverAbort(p) \/ RecoverReconcile(p)
  BY <1>3 DEF RecoverOrphan, RecoverAbort, RecoverReconcile, Start, Engaged, Closing,
              Undoing, IInv, TypeOK
<1>4. CASE Step(p) \/ Mishap(p)
  <2>1. CASE Acquire(p)
    <3>1. CASE claim = NoDir
      <4>1. [owner |-> Unwritten, key |-> FALSE, lane |-> NoDir] \in Claims
        BY DEF Claims
      <4> QED
        BY <2>1, <3>1, <4>1, ConstAssumption DEF Acquire
    <3>2. CASE claim # NoDir
      BY <2>1, <3>2, LeaveMoves DEF Acquire, Engaged, Closing, Undoing, IInv
    <3> QED
      BY <3>1, <3>2
  <2>2. CASE Judge(p)
    <3>1. \A q \in Proc : pc[q] # "own"
      BY <2>2 DEF Judge, IInv, Sound, Known
    <3> QED
      BY <2>2, <3>1, LeaveMoves, GotoMoves DEF Judge, Live, Engaged, Closing, Undoing, IInv
  <2>3. CASE Crash(p)
    BY <2>3, LeaveMoves DEF Crash, Engaged, Closing, Undoing, IInv
  <2>4. ~(\/ WriteOwner(p) \/ ClearLane(p) \/ TakeLane(p) \/ OwnLane(p) \/ Close(p) \/ Undo(p)
          \/ Fail(p))
    BY <1>1 DEF WriteOwner, ClearLane, TakeLane, OwnLane, Close, Begin, BindJournal, Stamp,
                OpenJournal, Snapshot, Prepare, Implement, Lifecycle, Publish, Merge,
                Acknowledge, Complete, Undo, Check, Restore, Rewrite, AbortLease,
                DropJournal, RecordAborted, Purge, Release, Fail, InTransaction
  <2> QED
    BY <1>4, <2>1, <2>2, <2>3, <2>4 DEF Step, Elect, Mishap
<1> QED
  BY <1>2, <1>3, <1>4

\* What a process goes on with, from one label to another, or at its end.
LEMMA OwnStep ==
  ASSUME ~Overlap, IInv, NEW p \in Proc, Finish(p) \/ Step(p) \/ Mishap(p)
           \/ RecoverOrphan(p) \/ RecoverAbort(p) \/ RecoverReconcile(p)
  PROVE  Sound(p)' /\ Disk'
<1>go. \A l : Goto(p, l) => pc'[p] = l /\ role'[p] = role[p]
  BY GotoMoves DEF IInv
<1>leave. ASSUME \/ Leave(p, claim) \/ Cancel(p) \/ Retain(p) \/ End(p, claim, "killed"),
                 UNCHANGED <<journal, work, landed>>
          PROVE  Sound(p)' /\ Disk'
  <2>1. pc'[p] = "idle" /\ role'[p] \in {"none", "killed"} /\ (claim' = NoDir <=> claim = NoDir)
    BY <1>leave, LeaveMoves DEF IInv
  <2> QED
    BY <1>leave, <2>1
    DEF IInv, Disk, Sound, Cast, Holds, Known, Undoable, Engaged, Closing, Undoing, Recovery, Orphan
<1>s. Sound(p) /\ Disk /\ TypeOK
  BY DEF IInv
<1>Finish. CASE Finish(p)
  BY <1>Finish, <1>go, <1>leave, <1>s, ConstAssumption
  DEF Finish, TypeOK, Sound, Cast, Holds, Known, Undoable, Disk, Engaged, Recovers, effects,
      Recovery, Orphan, Closing, Undoing
<1>recover. ASSUME NEW r \in Recovery, Start(p, r),
                   r \in Orphan => r = OrphanKind /\ OrphanKind # "none",
                   r \in {"abort", "reconcile"} => journal.status = "in_progress"
            PROVE  Sound(p)' /\ Disk'
  <2>1. /\ pc' = [pc EXCEPT ![p] = "judge"] /\ role'[p] = r
        /\ UNCHANGED <<claim, journal, work, landed, lease>>
    BY <1>recover DEF Start, IInv, TypeOK, effects
  <2>2. \A q \in Proc : pc'[q] # "own"
    BY <1>recover, <2>1 DEF Start, IInv, TypeOK
  <2>3. pc'[p] = "judge"
    BY <2>1, <1>s DEF TypeOK
  <2>4. /\ r \in Orphan => journal.status # "in_progress"
        /\ r = "keyed" => journal.status \in {"none", "begun"}
    BY <1>recover, <1>s DEF OrphanKind, Orphan, TypeOK, Journals
  <2> QED
    BY <1>s, <1>recover, <2>1, <2>2, <2>3, <2>4
    DEF Sound, Cast, Holds, Known, Undoable, Disk, Engaged, Recovers, Recovery, Orphan,
        Closing, Undoing
<1>RecoverOrphan. CASE RecoverOrphan(p)
  <2>1. OrphanKind \in Orphan
    BY <1>RecoverOrphan DEF RecoverOrphan, OrphanKind, Orphan
  <2> QED
    BY <1>RecoverOrphan, <1>recover, <2>1 DEF RecoverOrphan, Recovery, Orphan
<1>RecoverAbort. CASE RecoverAbort(p)
  BY <1>RecoverAbort, <1>recover DEF RecoverAbort, Recovery, Orphan
<1>RecoverReconcile. CASE RecoverReconcile(p)
  BY <1>RecoverReconcile, <1>recover DEF RecoverReconcile, Recovery, Orphan
<1>Acquire. CASE Acquire(p)
  <2>1. CASE claim = NoDir
    <3>1. [owner |-> Unwritten, key |-> FALSE, lane |-> NoDir] \in Claims
      BY DEF Claims
    <3>2. /\ claim' = [owner |-> Unwritten, key |-> FALSE, lane |-> NoDir]
          /\ pc'[p] = "own" /\ role'[p] = role[p] /\ UNCHANGED <<journal, effects>>
      BY <1>Acquire, <1>go, <2>1 DEF Acquire
    <3>3. role[p] = "finish"
      BY <1>Acquire, <1>s DEF Acquire, Sound, Cast
    <3>4. claim' # NoDir /\ claim'.owner = Unwritten
      BY <3>1, <3>2, ConstAssumption
    <3> QED
      BY <1>s, <2>1, <3>2, <3>3, <3>4
      DEF Sound, Cast, Holds, Known, Undoable, Disk, Engaged, effects, Recovery, Orphan, Closing, Undoing
  <2>2. CASE claim # NoDir
    BY <1>Acquire, <1>leave, <2>2 DEF Acquire, effects
  <2> QED
    BY <2>1, <2>2
<1>WriteOwner. CASE WriteOwner(p)
  BY <1>WriteOwner, <1>go, <1>leave, <1>s, ConstAssumption
  DEF WriteOwner, Sound, Cast, Holds, Known, Undoable, Disk, Engaged, Recovers, effects,
      Recovery, Orphan, Closing, Undoing, TypeOK, Claims
<1>Judge. CASE Judge(p)
  <2>1. CASE claim = NoDir \/ Live(claim.owner)
    BY <1>Judge, <1>leave, <2>1 DEF Judge, effects
  <2>2. CASE claim # NoDir /\ ~Live(claim.owner)
    <3>1. /\ pc'[p] = "lane" /\ role'[p] = role[p] /\ role[p] \in Recovery
          /\ UNCHANGED <<claim, journal, effects>>
      BY <1>Judge, <1>go, <1>s, <2>2 DEF Judge, Sound, Cast
    <3>2. pc[p] = "judge"
      BY <1>Judge DEF Judge
    <3> QED
      BY <1>s, <2>2, <3>1, <3>2
      DEF Sound, Cast, Holds, Known, Undoable, Disk, Engaged, Recovers, effects, Live,
          Recovery, Orphan, Closing, Undoing
  <2> QED
    BY <2>1, <2>2
<1>ClearLane. CASE ClearLane(p)
  BY <1>ClearLane, <1>go, <1>leave, <1>s, ConstAssumption
  DEF ClearLane, Sound, Cast, Holds, Known, Undoable, Disk, Engaged, Recovers, effects,
      Recovery, Orphan, Closing, Undoing, TypeOK, Claims
<1>TakeLane. CASE TakeLane(p)
  BY <1>TakeLane, <1>go, <1>leave, <1>s, ConstAssumption
  DEF TakeLane, Sound, Cast, Holds, Known, Undoable, Disk, Engaged, Recovers, effects, Recovery,
      Orphan, Closing, Undoing, TypeOK, Claims
<1>OwnLane. CASE OwnLane(p)
  BY <1>OwnLane, <1>go, <1>leave, <1>s, ConstAssumption
  DEF OwnLane, Sound, Cast, Holds, Known, Undoable, Disk, Engaged, Recovers, effects, Recovery,
      Orphan, Closing, Undoing, TypeOK, Claims
<1>Begin. CASE Begin(p)
  BY <1>Begin, <1>go, <1>leave, <1>s, ConstAssumption
  DEF Begin, Sound, Cast, Holds, Known, Undoable, Disk, Engaged, Recovers, effects, Recovery,
      Orphan, Closing, Undoing
<1>BindJournal. CASE BindJournal(p)
  <2>1. /\ claim # NoDir /\ claim \in Claims /\ work = "original" /\ role[p] = "finish"
        /\ ~Undoable
    BY <1>BindJournal, <1>s
    DEF BindJournal, TypeOK, Sound, Holds, Known, Cast, Engaged, Closing
  <2>2. /\ [claim EXCEPT !.owner = p, !.key = TRUE] \in Claims
        /\ [claim EXCEPT !.owner = p, !.key = TRUE].owner = p
    BY <2>1 DEF Claims
  <2>3. /\ claim' # NoDir /\ claim'.owner = p /\ pc'[p] = "stamp" /\ role'[p] = "finish"
        /\ UNCHANGED <<journal, effects>>
    BY <1>BindJournal, <1>go, <2>1, <2>2, ConstAssumption DEF BindJournal
  <2> QED
    BY <1>s, <2>1, <2>3
    DEF Sound, Cast, Holds, Known, Undoable, Disk, Engaged, effects, Recovery, Orphan, Closing, Undoing
<1>Stamp. CASE Stamp(p)
  BY <1>Stamp, <1>go, <1>leave, <1>s, ConstAssumption
  DEF Stamp, Sound, Cast, Holds, Known, Undoable, Disk, Engaged, Recovers, effects, Recovery,
      Orphan, Closing, Undoing
<1>OpenJournal. CASE OpenJournal(p)
  <2>0. /\ claim # NoDir /\ claim.owner = p /\ work = "original" /\ role[p] = "finish"
        /\ ~Undoable /\ ~landed
    BY <1>OpenJournal, <1>s
    DEF OpenJournal, Sound, Holds, Known, Cast, Disk, Engaged, Closing
  <2>1. CASE Blocked
    BY <1>OpenJournal, <1>go, <1>s, <2>0, <2>1
    DEF OpenJournal, Sound, Cast, Holds, Known, Undoable, Disk, Engaged, effects, Recovery, Orphan,
        Closing, Undoing
  <2>2. CASE ~Blocked
    <3>1. PICK m \in BOOLEAN : journal' = [NoJournal EXCEPT !.status = "begun", !.merge = m]
      BY <1>OpenJournal, <2>2 DEF OpenJournal
    <3>2. journal'.status = "begun" /\ ~journal'.merged /\ journal'.snap = "none"
      BY <3>1 DEF NoJournal
    <3>3. /\ pc'[p] = "snapshot" /\ role'[p] = "finish"
          /\ UNCHANGED <<claim, effects>>
      BY <1>OpenJournal, <1>go, <2>0, <2>2 DEF OpenJournal
    <3> QED
      BY <2>0, <3>2, <3>3
      DEF Sound, Cast, Holds, Known, Undoable, Disk, Engaged, effects, Recovery, Orphan, Closing, Undoing
  <2> QED
    BY <2>1, <2>2
<1>Snapshot. CASE Snapshot(p)
  BY <1>Snapshot, <1>go, <1>leave, <1>s, ConstAssumption
  DEF Snapshot, Sound, Cast, Holds, Known, Undoable, Disk, Engaged, Recovers, effects, Recovery,
      Orphan, Closing, Undoing, TypeOK, Journals
<1>Prepare. CASE Prepare(p)
  BY <1>Prepare, <1>go, <1>leave, <1>s, ConstAssumption
  DEF Prepare, Sound, Cast, Holds, Known, Undoable, Disk, Engaged, Recovers, effects, Recovery,
      Orphan, Closing, Undoing, TypeOK, Journals
<1>Implement. CASE Implement(p)
  BY <1>Implement, <1>go, <1>leave, <1>s, ConstAssumption
  DEF Implement, Sound, Cast, Holds, Known, Undoable, Disk, Engaged, Recovers, effects,
      Recovery, Orphan, Closing, Undoing
<1>Lifecycle. CASE Lifecycle(p)
  BY <1>Lifecycle, <1>go, <1>leave, <1>s, ConstAssumption
  DEF Lifecycle, Sound, Cast, Holds, Known, Undoable, Disk, Engaged, Recovers, effects,
      Recovery, Orphan, Closing, Undoing
<1>Publish. CASE Publish(p)
  BY <1>Publish, <1>go, <1>leave, <1>s, ConstAssumption
  DEF Publish, Sound, Cast, Holds, Known, Undoable, Disk, Engaged, Recovers, effects, Recovery,
      Orphan, Closing, Undoing, TypeOK, Journals
<1>Merge. CASE Merge(p)
  BY <1>Merge, <1>go, <1>leave, <1>s, ConstAssumption
  DEF Merge, Sound, Cast, Holds, Known, Undoable, Disk, Engaged, Recovers, effects, Recovery,
      Orphan, Closing, Undoing
<1>Acknowledge. CASE Acknowledge(p)
  BY <1>Acknowledge, <1>go, <1>leave, <1>s, ConstAssumption
  DEF Acknowledge, Sound, Cast, Holds, Known, Undoable, Disk, Engaged, Recovers, effects,
      Recovery, Orphan, Closing, Undoing, TypeOK, Journals
<1>Complete. CASE Complete(p)
  BY <1>Complete, <1>go, <1>leave, <1>s, ConstAssumption
  DEF Complete, Sound, Cast, Holds, Known, Undoable, Disk, Engaged, Recovers, effects, Recovery,
      Orphan, Closing, Undoing, TypeOK, Journals
<1>Check. CASE Check(p)
  BY <1>Check, <1>go, <1>leave, <1>s, ConstAssumption
  DEF Check, EffectLanded, Sound, Cast, Holds, Known, Undoable, Disk, Engaged, Recovers,
      effects, Recovery, Orphan, Closing, Undoing
<1>Restore. CASE Restore(p)
  BY <1>Restore, <1>go, <1>leave, <1>s, ConstAssumption
  DEF Restore, Sound, Cast, Holds, Known, Undoable, Disk, Engaged, Recovers, effects, Recovery,
      Orphan, Closing, Undoing
<1>Rewrite. CASE Rewrite(p)
  <2>1. /\ pc[p] = "rewrite" /\ pc'[p] = "abortLease" /\ role'[p] = role[p]
        /\ UNCHANGED <<claim, journal, landed, lease>>
    BY <1>Rewrite, <1>go DEF Rewrite
  <2>2. work' \in {"original", "lost"}
    BY <1>Rewrite, <1>s DEF Rewrite, Disk, Works
  <2> QED
    BY <1>s, <2>1, <2>2
    DEF Sound, Cast, Holds, Known, Undoable, Disk, Engaged, Recovers, Recovery, Orphan,
        Closing, Undoing
<1>AbortLease. CASE AbortLease(p)
  BY <1>AbortLease, <1>go, <1>leave, <1>s, ConstAssumption
  DEF AbortLease, Sound, Cast, Holds, Known, Undoable, Disk, Engaged, Recovers, effects,
      Recovery, Orphan, Closing, Undoing
<1>DropJournal. CASE DropJournal(p)
  BY <1>DropJournal, <1>go, <1>leave, <1>s, ConstAssumption
  DEF DropJournal, NoJournal, Sound, Cast, Holds, Known, Undoable, Disk, Engaged, Recovers,
      effects, Recovery, Orphan, Closing, Undoing
<1>RecordAborted. CASE RecordAborted(p)
  BY <1>RecordAborted, <1>go, <1>leave, <1>s, ConstAssumption
  DEF RecordAborted, Sound, Cast, Holds, Known, Undoable, Disk, Engaged, Recovers, effects,
      Recovery, Orphan, Closing, Undoing, TypeOK, Journals
<1>Purge. CASE Purge(p)
  BY <1>Purge, <1>go, <1>leave, <1>s, ConstAssumption
  DEF Purge, Sound, Cast, Holds, Known, Undoable, Disk, Engaged, Recovers, effects, Recovery,
      Orphan, Closing, Undoing, TypeOK, Journals
<1>Release. CASE Release(p)
  <2>1. CASE Leave(p, claim)
    BY <1>Release, <1>leave, <2>1 DEF Release, effects
  <2>2. CASE Leave(p, NoDir)
    <3>1. pc'[p] = "idle" /\ role'[p] = "none" /\ claim' = NoDir
      BY <1>s, <2>2, EndMoves DEF Leave
    <3>2. ~Undoable /\ UNCHANGED <<journal, effects>>
      BY <1>Release, <1>s DEF Release, Sound, Known
    <3> QED
      BY <1>s, <3>1, <3>2
      DEF Sound, Cast, Holds, Known, Undoable, Disk, Engaged, effects, Recovery, Orphan, Closing, Undoing
  <2> QED
    BY <1>Release, <2>1, <2>2 DEF Release
<1>Fail. CASE Fail(p)
  BY <1>Fail, <1>go, <1>leave, <1>s, ConstAssumption
  DEF Fail, InTransaction, Sound, Cast, Holds, Known, Undoable, Disk, Engaged, Recovers,
      effects, Recovery, Orphan, Closing, Undoing
<1>Crash. CASE Crash(p)
  BY <1>Crash, <1>go, <1>leave, <1>s, ConstAssumption
  DEF Crash, Sound, Cast, Holds, Known, Undoable, Disk, Engaged, Recovers, effects, Recovery,
      Orphan, Closing, Undoing
<1> QED
  BY <1>Finish, <1>RecoverOrphan, <1>RecoverAbort, <1>RecoverReconcile, <1>Acquire,
     <1>WriteOwner, <1>Judge, <1>ClearLane, <1>TakeLane, <1>OwnLane, <1>Begin,
     <1>BindJournal, <1>Stamp, <1>OpenJournal, <1>Snapshot, <1>Prepare, <1>Implement,
     <1>Lifecycle, <1>Publish, <1>Merge, <1>Acknowledge, <1>Complete, <1>Check,
     <1>Restore, <1>Rewrite, <1>AbortLease, <1>DropJournal, <1>RecordAborted,
     <1>Purge, <1>Release, <1>Fail, <1>Crash
  DEF Step, Elect, Close, Undo, Mishap

-----------------------------------------------------------------------------
(* The invariant, for the others.                                           *)

LEMMA OthersStay ==
  ASSUME ~Overlap, IInv, NEW p \in Proc, Finish(p) \/ Step(p) \/ Mishap(p)
           \/ RecoverOrphan(p) \/ RecoverAbort(p) \/ RecoverReconcile(p)
  PROVE  \A q \in Proc \ {p} : pc'[q] = pc[q] /\ role'[q] = role[q]
<1>go. \A l : Goto(p, l) => \A q \in Proc \ {p} : pc'[q] = pc[q] /\ role'[q] = role[q]
  BY GotoMoves DEF IInv
<1>leave. \/ Leave(p, claim) \/ Leave(p, NoDir) \/ Cancel(p) \/ Retain(p)
          \/ End(p, claim, "killed")
          => \A q \in Proc \ {p} : pc'[q] = pc[q] /\ role'[q] = role[q]
  BY LeaveMoves, EndMoves DEF IInv, Leave
<1> QED
  BY <1>go, <1>leave
  DEF Finish, RecoverOrphan, RecoverAbort, RecoverReconcile, Start, IInv, TypeOK, Step,
      Elect, Close, Undo, Mishap, Acquire, WriteOwner, Judge, ClearLane, TakeLane, OwnLane,
      Begin, BindJournal, Stamp, OpenJournal, Snapshot, Prepare, Implement, Lifecycle,
      Publish, Merge, Acknowledge, Complete, Check, Restore, Rewrite, AbortLease,
      DropJournal, RecordAborted, Purge, Release, Fail, Crash

\* Who is engaged is not disturbed, and stays the only one.
LEMMA OthersKept ==
  ASSUME ~Overlap, IInv, NEW p \in Proc, Finish(p) \/ Step(p) \/ Mishap(p)
           \/ RecoverOrphan(p) \/ RecoverAbort(p) \/ RecoverReconcile(p)
  PROVE  Alone' /\ \A q \in Proc \ {p} : Sound(q)'
<1>1. ASSUME NEW q \in Proc \ {p}
      PROVE  Sound(q)'
  <2>1. pc'[q] = pc[q] /\ role'[q] = role[q] /\ Sound(q)
    BY OthersStay DEF IInv
  <2>2. CASE ~Engaged(q) /\ pc[q] # "judge"
    BY <2>1, <2>2
    DEF Sound, Cast, Holds, Known, Undoable, Engaged, Recovers, Recovery, Orphan, Closing,
        Undoing, IInv, TypeOK, PC, Elections
  <2>4. CASE pc[q] = "judge"
    <3>1. Recovers(q)
      BY <2>1, <2>4 DEF Sound, Cast, Recovers
    <3>2. Finish(p)
      BY <2>4, <3>1
      DEF Step, Mishap, Moves, RecoverOrphan, RecoverAbort, RecoverReconcile, Start
    <3>3. UNCHANGED <<claim, journal, work, landed, lease>> /\ pc'[p] = "acquire"
      BY <3>2 DEF Finish, effects, IInv, TypeOK
    <3>4. \A r \in Proc : pc'[r] # "own"
      BY <2>1, <2>4, <3>3, OthersStay DEF Sound, Known
    <3> QED
      BY <2>1, <2>4, <3>3, <3>4
      DEF Sound, Cast, Holds, Known, Undoable, Engaged, Recovers, Closing, Undoing
  <2>3. CASE Engaged(q)
    <3>1. ~Engaged(p)
      BY <2>3 DEF IInv, Alone
    <3>2. /\ UNCHANGED <<journal, effects, lease>>
          /\ claim # NoDir
      BY <2>1, <2>3, <3>1, Aloof DEF Sound, Holds
    <3>3. /\ claim' # NoDir
          /\ \/ claim'.owner = claim.owner
             \/ claim.owner = p /\ claim'.owner = Nobody
      BY <3>1, <3>2, Aloof
    <3> QED
      BY <2>1, <2>3, <3>2, <3>3, ConstAssumption
      DEF Sound, Cast, Holds, Known, Undoable, Engaged, Recovers, effects, Closing, Undoing,
          Recovery, Orphan
  <2> QED
    BY <2>2, <2>3, <2>4
<1>2. ASSUME NEW q \in Proc \ {p}, Engaged(q)', Engaged(p)'
      PROVE  FALSE
  <2>1. Engaged(q) /\ Sound(q)
    BY <1>2, OthersStay DEF Engaged, IInv
  <2>2. ~Engaged(p)
    BY <2>1 DEF IInv, Alone
  <2>3. claim # NoDir /\ (pc[q] # "own" /\ role[q] = "finish" => claim.owner = q)
    BY <2>1 DEF Sound, Holds
  <2>4. Judge(p) /\ claim.owner \notin Proc /\ \A r \in Proc : pc[r] # "own"
    BY <1>2, <2>2, <2>3, Aloof
  <2>5. Recovers(p)
    BY <2>4 DEF Judge, IInv, Sound, Cast, Recovers
  <2>6. Recovers(q)
    BY <2>1, <2>3, <2>4
    DEF Sound, Cast, Engaged, Recovers, Closing, Undoing, Recovery, Orphan
  <2> QED
    BY <2>5, <2>6 DEF IInv, Alone
<1>3. ASSUME NEW q \in Proc \ {p}, Recovers(q)', Recovers(p)'
      PROVE  FALSE
  <2>1. Recovers(q)
    BY <1>3, OthersStay DEF Recovers
  <2>2. ~Recovers(p)
    BY <2>1 DEF IInv, Alone
  <2>3. ~(RecoverOrphan(p) \/ RecoverAbort(p) \/ RecoverReconcile(p))
    BY <2>1 DEF RecoverOrphan, RecoverAbort, RecoverReconcile, Start
  <2>go. \A l : Goto(p, l) => role'[p] = role[p]
    BY GotoMoves DEF IInv
  <2>leave. \/ Leave(p, claim) \/ Leave(p, NoDir) \/ Cancel(p) \/ Retain(p)
            \/ End(p, claim, "killed")
            => role'[p] \in {"none", "killed"}
    BY LeaveMoves, EndMoves DEF IInv, Leave
  <2>4. role'[p] = role[p] \/ role'[p] \in {"none", "killed", "finish"}
    BY <2>3, <2>go, <2>leave
    DEF Finish, IInv, TypeOK, Step, Elect, Close, Undo, Mishap, Acquire, WriteOwner, Judge,
        ClearLane, TakeLane, OwnLane, Begin, BindJournal, Stamp, OpenJournal, Snapshot,
        Prepare, Implement, Lifecycle, Publish, Merge, Acknowledge, Complete, Check,
        Restore, Rewrite, AbortLease, DropJournal, RecordAborted, Purge, Release, Fail,
        Crash
  <2> QED
    BY <1>3, <2>2, <2>4 DEF Recovers, Recovery, Orphan
<1>4. \A q, r \in Proc \ {p} : /\ Engaged(q)' /\ Engaged(r)' => q = r
                               /\ Recovers(q)' /\ Recovers(r)' => q = r
  BY OthersStay DEF IInv, Alone, Engaged, Recovers
<1> QED
  BY <1>1, <1>2, <1>3, <1>4 DEF Alone

LEMMA StartsSound == Init => IInv
<1> SUFFICES ASSUME Init PROVE IInv
  OBVIOUS
<1>1. TypeOK
  BY DEF Init, TypeOK, NoJournal, Journals, Works, PC
<1>2. \A p \in Proc : pc[p] = "idle" /\ role[p] = "none"
  BY DEF Init
<1>3. Alone /\ \A p \in Proc : Sound(p)
  BY <1>2 DEF Alone, Sound, Cast, Holds, Known, Undoable, Engaged, Recovers, Closing, Undoing,
              Recovery, Orphan
<1>4. Disk
  BY DEF Init, Disk, Undoable, NoJournal
<1> QED
  BY <1>1, <1>3, <1>4 DEF IInv

LEMMA Invariance == ~Overlap => (Spec => []IInv)
<1> SUFFICES ASSUME ~Overlap PROVE Spec => []IInv
  OBVIOUS
<1>1. IInv /\ [Next]_vars => IInv'
  <2> SUFFICES ASSUME IInv, [Next]_vars PROVE IInv'
    OBVIOUS
  <2>1. CASE UNCHANGED vars
    BY <2>1
    DEF vars, effects, IInv, TypeOK, Alone, Disk, Sound, Cast, Holds, Known, Undoable, Engaged, Recovers
  <2>2. CASE Displaced \/ Settled \/ RolledBack \/ Repaired
    <3>1. TypeOK'
      BY <2>2, TypesKept DEF IInv, Next
    <3>2. /\ UNCHANGED <<claim, journal, landed, pc, role>>
          /\ work' = work \/ claim = NoDir
          /\ lease' = "open" => lease = "open"
      BY <2>2 DEF Displaced, Settled, RolledBack, Repaired, effects
    <3>3. Alone'
      BY <3>2 DEF IInv, Alone, Engaged, Recovers
    <3>4. Disk'
      <4>1. Disk /\ (work' = work \/ ~landed)
        BY <2>2 DEF IInv, Disk, Displaced, Settled, RolledBack, Repaired, effects
      <4> QED
        BY <3>2, <4>1 DEF Disk, Undoable
    <3>5. ASSUME NEW p \in Proc PROVE Sound(p)'
      <4>1. CASE work' = work
        BY <3>2, <4>1 DEF IInv, Sound, Cast, Holds, Known, Undoable, Engaged, Recovers
      <4>2. CASE claim = NoDir
        <5>1. ~Engaged(p)
          BY <4>2 DEF IInv, Sound, Holds
        <5> QED
          BY <3>2, <5>1
          DEF IInv, Sound, Cast, Holds, Known, Undoable, Engaged, Recovers, Closing, Undoing
      <4> QED
        BY <3>2, <4>1, <4>2
    <3> QED
      BY <3>1, <3>3, <3>4, <3>5 DEF IInv
  <2>3. ASSUME NEW p \in Proc, Finish(p) \/ Step(p) \/ Mishap(p)
                 \/ RecoverOrphan(p) \/ RecoverAbort(p) \/ RecoverReconcile(p)
        PROVE  IInv'
    <3>1. TypeOK'
      BY <2>3, TypesKept DEF IInv, Next
    <3> QED
      BY <2>3, <3>1, OwnStep, OthersKept DEF IInv
  <2> QED
    BY <2>1, <2>2, <2>3 DEF Next
<1> QED
  BY StartsSound, <1>1, PTL DEF Spec

-----------------------------------------------------------------------------
(* The content, with snapshots that do not fail.                            *)

LEMMA ContentStarts == Init => Content
BY DEF Init, Content, Restorable, Undoes, NoJournal

\* Nobody else's step moves what an undoing process rests on.
LEMMA ContentOthers ==
  ASSUME ~Overlap, IInv, Content, NEW p \in Proc, Finish(p) \/ Step(p) \/ Mishap(p)
           \/ RecoverOrphan(p) \/ RecoverAbort(p) \/ RecoverReconcile(p)
  PROVE  \A q \in Proc \ {p} : Undoes(q)'
<1> SUFFICES ASSUME NEW q \in Proc \ {p} PROVE Undoes(q)'
  OBVIOUS
<1>1. pc'[q] = pc[q] /\ role'[q] = role[q] /\ Undoes(q)
  BY OthersStay DEF Content
<1>2. CASE ~Engaged(q)
  BY <1>1, <1>2 DEF Undoes, Engaged, Closing, Undoing
<1>3. CASE Engaged(q)
  <2>1. UNCHANGED <<journal, effects, lease>>
    BY <1>3, Aloof DEF IInv, Alone
  <2> QED
    BY <1>1, <2>1 DEF Undoes, effects
<1> QED
  BY <1>2, <1>3

LEMMA ContentOwn ==
  ASSUME ~Overlap, ~EarlyFaults, IInv, Content, NEW p \in Proc,
         \/ Finish(p) \/ Step(p) \/ Mishap(p)
         \/ RecoverOrphan(p) \/ RecoverAbort(p) \/ RecoverReconcile(p)
  PROVE  Restorable' /\ Undoes(p)'
<1>go. \A l : Goto(p, l) => pc'[p] = l /\ role'[p] = role[p]
  BY GotoMoves DEF IInv
<1>leave. ASSUME \/ Leave(p, claim) \/ Leave(p, NoDir) \/ Cancel(p) \/ Retain(p)
                 \/ End(p, claim, "killed"),
                 UNCHANGED <<journal, effects>>
          PROVE  Restorable' /\ Undoes(p)'
  <2>1. pc'[p] = "idle"
    BY <1>leave, LeaveMoves, EndMoves DEF IInv, Leave
  <2> QED
    BY <1>leave, <2>1 DEF Content, Restorable, Undoes, effects
<1>s. Sound(p) /\ Disk /\ TypeOK /\ Restorable /\ Undoes(p)
  BY DEF IInv, Content
<1>Finish. CASE Finish(p)
  BY <1>Finish, <1>go, <1>leave, <1>s
  DEF Finish, TypeOK, Restorable, Undoes, effects
<1>RecoverOrphan. CASE RecoverOrphan(p)
  BY <1>RecoverOrphan, <1>go, <1>leave, <1>s
  DEF RecoverOrphan, Start, OrphanKind, TypeOK, Restorable, Undoes, effects
<1>RecoverAbort. CASE RecoverAbort(p)
  BY <1>RecoverAbort, <1>go, <1>leave, <1>s
  DEF RecoverAbort, Start, TypeOK, Restorable, Undoes, effects
<1>RecoverReconcile. CASE RecoverReconcile(p)
  BY <1>RecoverReconcile, <1>go, <1>leave, <1>s
  DEF RecoverReconcile, Start, TypeOK, Restorable, Undoes, effects
<1>Acquire. CASE Acquire(p)
  BY <1>Acquire, <1>go, <1>leave, <1>s
  DEF Acquire, Restorable, Undoes, effects
<1>WriteOwner. CASE WriteOwner(p)
  BY <1>WriteOwner, <1>go, <1>leave, <1>s
  DEF WriteOwner, Restorable, Undoes, effects
<1>Judge. CASE Judge(p)
  BY <1>Judge, <1>go, <1>leave, <1>s
  DEF Judge, Restorable, Undoes, effects, Sound, Cast, Known, Undoable, Disk, Engaged, Recovers,
      Recovery, Orphan, Closing, Undoing
<1>ClearLane. CASE ClearLane(p)
  BY <1>ClearLane, <1>go, <1>leave, <1>s
  DEF ClearLane, Restorable, Undoes, effects
<1>TakeLane. CASE TakeLane(p)
  BY <1>TakeLane, <1>go, <1>leave, <1>s
  DEF TakeLane, Restorable, Undoes, effects
<1>OwnLane. CASE OwnLane(p)
  BY <1>OwnLane, <1>go, <1>leave, <1>s
  DEF OwnLane, Restorable, Undoes, effects, Sound, Cast, Known, Undoable, Disk, Engaged, Recovers,
      Recovery, Orphan, Closing, Undoing
<1>Begin. CASE Begin(p)
  BY <1>Begin, <1>go, <1>leave, <1>s
  DEF Begin, Restorable, Undoes, effects, Sound, Cast, Known, Undoable, Disk, Engaged, Recovers,
      Recovery, Orphan, Closing, Undoing
<1>BindJournal. CASE BindJournal(p)
  BY <1>BindJournal, <1>go, <1>leave, <1>s
  DEF BindJournal, Restorable, Undoes, effects, Sound, Cast, Known, Undoable, Disk, Engaged,
      Recovers, Recovery, Orphan, Closing, Undoing
<1>Stamp. CASE Stamp(p)
  BY <1>Stamp, <1>go, <1>leave, <1>s
  DEF Stamp, Restorable, Undoes, effects, Sound, Cast, Known, Undoable, Disk, Engaged, Recovers,
      Recovery, Orphan, Closing, Undoing
<1>OpenJournal. CASE OpenJournal(p)
  <2>1. work = "original" /\ role[p] = "finish" /\ UNCHANGED <<work, landed, lease>>
    BY <1>OpenJournal, <1>s DEF OpenJournal, Sound, Known, Cast, Closing, effects
  <2>2. pc'[p] \in {"release", "snapshot"} /\ role'[p] = role[p]
    BY <1>OpenJournal, <1>go DEF OpenJournal
  <2>3. journal' = journal \/ journal'.status = "begun"
    BY <1>OpenJournal DEF OpenJournal, NoJournal
  <2> QED
    BY <1>s, <2>1, <2>2, <2>3 DEF Restorable, Undoes
<1>Snapshot. CASE Snapshot(p)
  BY <1>Snapshot, <1>go, <1>leave, <1>s
  DEF Snapshot, Restorable, Undoes, effects, Sound, Cast, Known, Undoable, Disk, Engaged, Recovers,
      Recovery, Orphan, Closing, Undoing, TypeOK, Journals
<1>Prepare. CASE Prepare(p)
  BY <1>Prepare, <1>go, <1>leave, <1>s
  DEF Prepare, Restorable, Undoes, effects, Sound, Cast, Known, Undoable, Disk, Engaged, Recovers,
      Recovery, Orphan, Closing, Undoing, TypeOK, Journals
<1>Implement. CASE Implement(p)
  BY <1>Implement, <1>go, <1>leave, <1>s
  DEF Implement, Restorable, Undoes, effects, Sound, Cast, Known, Undoable, Disk, Engaged, Recovers,
      Recovery, Orphan, Closing, Undoing
<1>Lifecycle. CASE Lifecycle(p)
  BY <1>Lifecycle, <1>go, <1>leave, <1>s
  DEF Lifecycle, Restorable, Undoes, effects, Sound, Cast, Known, Undoable, Disk, Engaged, Recovers,
      Recovery, Orphan, Closing, Undoing
<1>Publish. CASE Publish(p)
  BY <1>Publish, <1>go, <1>leave, <1>s
  DEF Publish, Restorable, Undoes, effects, Sound, Cast, Known, Undoable, Disk, Engaged, Recovers,
      Recovery, Orphan, Closing, Undoing, TypeOK, Journals
<1>Merge. CASE Merge(p)
  BY <1>Merge, <1>go, <1>leave, <1>s
  DEF Merge, Restorable, Undoes, effects, Sound, Cast, Known, Undoable, Disk, Engaged, Recovers,
      Recovery, Orphan, Closing, Undoing
<1>Acknowledge. CASE Acknowledge(p)
  BY <1>Acknowledge, <1>go, <1>leave, <1>s
  DEF Acknowledge, Restorable, Undoes, effects, Sound, Cast, Known, Undoable, Disk, Engaged,
      Recovers, Recovery, Orphan, Closing, Undoing, TypeOK, Journals
<1>Complete. CASE Complete(p)
  BY <1>Complete, <1>go, <1>leave, <1>s
  DEF Complete, Restorable, Undoes, effects, Sound, Cast, Known, Undoable, Disk, Engaged, Recovers,
      Recovery, Orphan, Closing, Undoing, TypeOK, Journals
<1>Check. CASE Check(p)
  BY <1>Check, <1>go, <1>leave, <1>s
  DEF Check, EffectLanded, Restorable, Undoes, effects, Sound, Cast, Known, Undoable, Disk, Engaged,
      Recovers, Recovery, Orphan, Closing, Undoing
<1>Restore. CASE Restore(p)
  BY <1>Restore, <1>go, <1>leave, <1>s
  DEF Restore, Restorable, Undoes, effects, Sound, Cast, Known, Undoable, Disk, Engaged, Recovers,
      Recovery, Orphan, Closing, Undoing
<1>Rewrite. CASE Rewrite(p)
  BY <1>Rewrite, <1>go, <1>leave, <1>s
  DEF Rewrite, Works, Restorable, Undoes, effects, Sound, Cast, Known, Undoable, Disk, Engaged,
      Recovers, Recovery, Orphan, Closing, Undoing
<1>AbortLease. CASE AbortLease(p)
  BY <1>AbortLease, <1>go, <1>leave, <1>s
  DEF AbortLease, MayAbortLease, Restorable, Undoes, effects, Sound, Cast, Known, Undoable, Disk,
      Engaged, Recovers, Recovery, Orphan, Closing, Undoing
<1>DropJournal. CASE DropJournal(p)
  BY <1>DropJournal, <1>go, <1>leave, <1>s
  DEF DropJournal, NoJournal, Restorable, Undoes, effects, Sound, Cast, Known, Undoable, Disk,
      Engaged, Recovers, Recovery, Orphan, Closing, Undoing
<1>RecordAborted. CASE RecordAborted(p)
  BY <1>RecordAborted, <1>go, <1>leave, <1>s
  DEF RecordAborted, Restorable, Undoes, effects, Sound, Cast, Known, Undoable, Disk, Engaged,
      Recovers, Recovery, Orphan, Closing, Undoing, TypeOK, Journals
<1>Purge. CASE Purge(p)
  BY <1>Purge, <1>go, <1>leave, <1>s
  DEF Purge, Restorable, Undoes, effects, Sound, Cast, Known, Undoable, Disk, Engaged, Recovers,
      Recovery, Orphan, Closing, Undoing, TypeOK, Journals
<1>Release. CASE Release(p)
  BY <1>Release, <1>go, <1>leave, <1>s
  DEF Release, Restorable, Undoes, effects
<1>Fail. CASE Fail(p)
  BY <1>Fail, <1>go, <1>leave, <1>s
  DEF Fail, InTransaction, Restorable, Undoes, effects, Sound, Cast, Known, Undoable, Disk, Engaged,
      Recovers, Recovery, Orphan, Closing, Undoing
<1>Crash. CASE Crash(p)
  BY <1>Crash, <1>go, <1>leave, <1>s
  DEF Crash, Restorable, Undoes, effects
<1> QED
  BY <1>Finish, <1>RecoverOrphan, <1>RecoverAbort, <1>RecoverReconcile, <1>Acquire,
     <1>WriteOwner, <1>Judge, <1>ClearLane, <1>TakeLane, <1>OwnLane, <1>Begin,
     <1>BindJournal, <1>Stamp, <1>OpenJournal, <1>Snapshot, <1>Prepare, <1>Implement,
     <1>Lifecycle, <1>Publish, <1>Merge, <1>Acknowledge, <1>Complete, <1>Check,
     <1>Restore, <1>Rewrite, <1>AbortLease, <1>DropJournal, <1>RecordAborted,
     <1>Purge, <1>Release, <1>Fail, <1>Crash
  DEF Step, Elect, Close, Undo, Mishap

LEMMA ContentInvariance == ~Overlap /\ ~EarlyFaults => (Spec => [](IInv /\ Content))
<1> SUFFICES ASSUME ~Overlap, ~EarlyFaults PROVE Spec => [](IInv /\ Content)
  OBVIOUS
<1>1. IInv /\ Content /\ [Next]_vars => Content'
  <2> SUFFICES ASSUME IInv, Content, [Next]_vars PROVE Content'
    OBVIOUS
  <2>1. CASE UNCHANGED vars
    BY <2>1 DEF vars, effects, Content, Restorable, Undoes
  <2>2. CASE Displaced \/ Settled \/ RolledBack \/ Repaired
    <3>1. /\ UNCHANGED <<journal, landed, pc, role>>
          /\ work' = work \/ work' = "original"
      BY <2>2 DEF Displaced, Settled, RolledBack, Repaired, effects
    <3>2. Restorable'
      BY <3>1 DEF Content, Restorable
    <3>3. ASSUME NEW p \in Proc PROVE Undoes(p)'
      BY <3>1 DEF Content, Undoes
    <3> QED
      BY <3>2, <3>3 DEF Content
  <2>3. ASSUME NEW p \in Proc, Finish(p) \/ Step(p) \/ Mishap(p)
                 \/ RecoverOrphan(p) \/ RecoverAbort(p) \/ RecoverReconcile(p)
        PROVE  Content'
    BY <2>3, ContentOwn, ContentOthers DEF Content
  <2> QED
    BY <2>1, <2>2, <2>3 DEF Next
<1>2. Spec => []IInv
  BY Invariance
<1> QED
  BY ContentStarts, <1>1, <1>2, PTL DEF Spec

-----------------------------------------------------------------------------
(* The theorems.                                                            *)

\* Every variable has its type, whatever overlaps and fails.
THEOREM TypeCorrect == Spec => []TypeOK
<1>1. Init => TypeOK
  BY StartsSound DEF IInv
<1>2. TypeOK /\ [Next]_vars => TypeOK'
  BY TypesKept DEF TypeOK, vars, effects
<1> QED
  BY <1>1, <1>2, PTL DEF Spec

\* A journal in progress with something to put back has the claim that sends an
\* operator to it (closeout_claim_release, closeout_claim_cancel_recovery).
THEOREM UnfinishedHasClaim == ~Overlap => (Spec => []UnfinishedIsClaimed)
<1>1. IInv => UnfinishedIsClaimed
  BY DEF IInv, Disk, Undoable, UnfinishedIsClaimed
<1> QED
  BY <1>1, Invariance, PTL

\* No step undoes the worktree of a publication that has landed, whether or not
\* the journal records it (closeout_finish_effect_landed).
THEOREM LandedStays == ~Overlap => (Spec => LandedIsNeverUndone)
<1> SUFFICES ASSUME ~Overlap PROVE Spec => LandedIsNeverUndone
  OBVIOUS
<1>1. IInv /\ [Next]_vars => [landed => work' = work]_vars
  <2> SUFFICES ASSUME IInv, Next, landed PROVE work' = work
    OBVIOUS
  <2>1. ASSUME NEW p \in Proc
        PROVE  ~(Implement(p) \/ Lifecycle(p) \/ Restore(p) \/ Rewrite(p))
    BY DEF IInv, Sound, Known, Implement, Lifecycle, Restore, Rewrite
  <2>2. ~RolledBack /\ ~Repaired
    BY DEF IInv, Disk, RolledBack, Repaired
  <2> QED
    BY <2>1, <2>2
    DEF Next, Displaced, Settled, Finish, RecoverOrphan, RecoverAbort, RecoverReconcile,
        Start, Step, Elect, Close, Undo, Mishap, effects, Acquire, WriteOwner, Judge,
        ClearLane, TakeLane, OwnLane, Begin, BindJournal, Stamp, OpenJournal, Snapshot,
        Prepare, Publish, Merge, Acknowledge, Complete, Check, AbortLease, DropJournal,
        RecordAborted, Purge, Release, Fail, Crash
<1> QED
  BY <1>1, Invariance, PTL DEF Spec, LandedIsNeverUndone

\* What a killed process leaves half done can be put back by another
\* (finish_transaction_begin).
THEOREM HalfDoneIsRestorable == ~Overlap /\ ~EarlyFaults => (Spec => []Restorable)
<1>1. IInv /\ Content => Restorable
  BY DEF Content
<1> QED
  BY <1>1, ContentInvariance, PTL

\* A closeout is recorded as aborted after everything was put back, but for what
\* a failed copy lost, with the lease bound and nothing published, also when the
\* snapshot itself failed (recover_worktree, finish_transaction_abort).
THEOREM AbortsAreSettled == ~Overlap => (Spec => AbortSettles)
<1> SUFFICES ASSUME ~Overlap PROVE Spec => AbortSettles
  OBVIOUS
<1>1. IInv /\ [Next]_vars
        => [journal'.status = "aborted" /\ journal.status # "aborted" =>
              work \in {"original", "lost"} /\ lease # "open" /\ ~landed]_vars
  <2> SUFFICES ASSUME IInv, Next, journal'.status = "aborted",
                      journal.status # "aborted"
               PROVE  work \in {"original", "lost"} /\ lease # "open" /\ ~landed
    OBVIOUS
  <2>1. ASSUME NEW p \in Proc,
               OpenJournal(p) \/ Snapshot(p) \/ Prepare(p) \/ Publish(p) \/ Acknowledge(p)
               \/ Complete(p) \/ DropJournal(p) \/ Purge(p)
        PROVE  FALSE
    <3>1. journal \in Journals
      BY DEF IInv, TypeOK
    <3>2. CASE OpenJournal(p)
      <4>1. journal' = journal \/ journal'.status = "begun"
        BY <3>2 DEF OpenJournal, NoJournal
      <4> QED
        BY <4>1
    <3>3. CASE DropJournal(p)
      <4>1. journal' = journal \/ journal'.status = "none"
        BY <3>3 DEF DropJournal, NoJournal
      <4> QED
        BY <4>1
    <3>4. CASE Snapshot(p)
      BY <3>1, <3>4 DEF Snapshot, Journals
    <3>5. CASE Prepare(p) \/ Publish(p) \/ Acknowledge(p) \/ Complete(p) \/ Purge(p)
      BY <3>1, <3>5 DEF Prepare, Publish, Acknowledge, Complete, Purge, Journals
    <3> QED
      BY <2>1, <3>2, <3>3, <3>4, <3>5
  <2>2. PICK p \in Proc : RecordAborted(p)
    BY <2>1
    DEF Next, Displaced, Settled, RolledBack, Repaired, Finish, RecoverOrphan, RecoverAbort,
        RecoverReconcile, Start, Step, Elect, Close, Undo, Mishap, Acquire, WriteOwner,
        Judge, ClearLane, TakeLane, OwnLane, Begin, BindJournal, Stamp, Implement,
        Lifecycle, Merge, Check, Restore, Rewrite, AbortLease, Release, Fail, Crash
  <2> QED
    BY <2>2 DEF RecordAborted, IInv, Sound, Known, Cast, Orphan
<1> QED
  BY <1>1, Invariance, PTL DEF Spec, AbortSettles

=============================================================================
