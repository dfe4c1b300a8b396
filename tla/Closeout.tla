------------------------------ MODULE Closeout ------------------------------
(***************************************************************************)
(* The closeout of one contract worktree, process by process: the          *)
(* ownership claim, the journal with its snapshot, and the recovery verbs  *)
(* of scripts/contract-worktree.sh (finish, recover abort, recover         *)
(* reconcile).  TaskLease has the same closeout with the lease in full and *)
(* the journal in three values; here the lease is what a closeout sees of  *)
(* it and every file the closeout writes is a step.                        *)
(*                                                                         *)
(* A process is one run of the script.  It may be killed at any point, and *)
(* a step may fail, which runs the exit trap that is set at that point.    *)
(* The pid in an owner record matters only while that process lives, so a  *)
(* process that ends leaves Nobody in the records that name it: a pid that *)
(* the system gives out again is left out.  So are the legacy journals     *)
(* without a publication_prepared phase, and two journals with different   *)
(* keys: the key follows from the worktree's HEAD and the frozen base.     *)
(***************************************************************************)

CONSTANTS
  Proc,         \* the processes
  Nobody,       \* the pid of a process that is gone
  Unwritten,    \* a claim directory without owner.json
  NoDir,        \* no directory
  Overlap,      \* recoveries may run side by side, start while a claim is being
                \* made, and find that others moved between what they read and
                \* their probe of the owner
  EarlyFaults,  \* the snapshot, or recording it, may fail
  CrashPoints   \* where a process may be killed

Elections == {"acquire", "own", "judge", "lane", "takeLane", "ownLane"}
Closing == {"begin", "bind", "stamp", "journal", "snapshot", "prepare",
            "implement", "lifecycle", "publish", "merge", "ack", "complete"}
Undoing == {"undo", "check", "restore", "rewrite", "abortLease", "dropJournal",
            "recordAborted", "purge", "release"}
Orphan == {"blind", "bare", "keyed"}
Recovery == Orphan \cup {"abort", "reconcile"}
PC == {"idle"} \cup Elections \cup Closing \cup Undoing

Claims == [owner : Proc \cup {Nobody, Unwritten}, key : BOOLEAN,
           lane : Proc \cup {Nobody, NoDir}]
Works == {"original", "half", "final", "lost"}
Journals == [status : {"none", "begun", "in_progress", "aborted", "complete"},
             merge : BOOLEAN, prepared : BOOLEAN, merged : BOOLEAN,
             snap : Works \cup {"none", "partial"}]

ASSUME ConstAssumption ==
  /\ Proc \cap {Nobody, Unwritten, NoDir} = {}
  /\ Nobody # Unwritten /\ Nobody # NoDir
  /\ NoDir \notin Claims
  /\ {Overlap, EarlyFaults} \subseteq BOOLEAN
  /\ CrashPoints \subseteq PC \ {"idle"}

VARIABLES
  claim,    \* claims/finish/<key>.lock: owner, bound journal, recovery.lock
  journal,  \* the journal directory: status, phases that matter, snapshot
  work,     \* plans, tasks, pointers and HEAD of the worktree
  landed,   \* the publication is on the target branch
  lease,    \* the worktree's sprint lease; none when it holds no token
  pc,       \* where each process is
  role      \* what each process was started for; of an orphan claim, what it
            \* read: no record, a record without a journal, one with a journal;
            \* of a process that has ended, whether it was killed

effects == <<work, landed>>
vars == <<claim, journal, effects, lease, pc, role>>

TypeOK ==
  /\ claim \in Claims \cup {NoDir}
  /\ journal \in Journals
  /\ work \in Works
  /\ landed \in BOOLEAN
  /\ lease \in {"none", "bound", "open", "lost"}
  /\ pc \in [Proc -> PC]
  /\ role \in [Proc -> {"none", "killed", "finish"} \cup Recovery]

NoJournal == [status |-> "none", merge |-> FALSE, prepared |-> FALSE,
              merged |-> FALSE, snap |-> "none"]

Init ==
  /\ claim = NoDir
  /\ journal = NoJournal
  /\ work = "original"
  /\ landed = FALSE
  /\ lease \in {"none", "bound"}
  /\ pc = [p \in Proc |-> "idle"]
  /\ role = [p \in Proc |-> "none"]

-----------------------------------------------------------------------------
(* Helpers.                                                                *)

Goto(p, l) == pc' = [pc EXCEPT ![p] = l] /\ UNCHANGED role

\* closeout_claim_owner_live
Live(pid) == pid \in Proc

\* The process ends; the pids it recorded in c are dead.
End(p, c, how) ==
  /\ pc' = [pc EXCEPT ![p] = "idle"]
  /\ role' = [role EXCEPT ![p] = how]
  /\ claim' = IF c = NoDir THEN c
              ELSE [c EXCEPT !.owner = IF @ = p THEN Nobody ELSE @,
                             !.lane = IF @ = p THEN Nobody ELSE @]
Leave(p, c) == End(p, c, "none")

\* Mutated: giving a recovery up gives the claim up.
CancelReleases(p) == Leave(p, NoDir)

\* closeout_claim_cancel_recovery, from the exit trap of a recovery.
Cancel(p) ==
  Leave(p, IF claim # NoDir /\ claim.lane = p THEN [claim EXCEPT !.lane = NoDir]
           ELSE claim)

Recovers(p) == role[p] \in Recovery

\* An exit that leaves the closeout for a recovery.
Retain(p) == IF Recovers(p) THEN Cancel(p) ELSE Leave(p, claim)

\* Mutated: only the recorded phase counts.
EffectLandedByPhase == journal.merged

\* closeout_finish_effect_landed
EffectLanded == journal.merged \/ (journal.merge /\ journal.prepared /\ landed)

\* closeout_journal_complete_effect_present
EffectPresent == IF journal.merge THEN landed ELSE work = "final"

-----------------------------------------------------------------------------
(* finish: the election.                                                   *)

\* closeout_journal_guard_reentry
Finish(p) ==
  /\ pc[p] = "idle"
  /\ journal.status # "in_progress"
  /\ pc' = [pc EXCEPT ![p] = "acquire"]
  /\ role' = [role EXCEPT ![p] = "finish"]
  /\ UNCHANGED <<claim, journal, effects, lease>>

\* closeout_claim_acquire: the mkdir ...
Acquire(p) ==
  /\ pc[p] = "acquire"
  /\ IF claim = NoDir
     THEN /\ claim' = [owner |-> Unwritten, key |-> FALSE, lane |-> NoDir]
          /\ Goto(p, "own")
     ELSE Leave(p, claim)
  /\ UNCHANGED <<journal, effects, lease>>

\* ... and the owner record.
WriteOwner(p) ==
  /\ pc[p] = "own"
  /\ IF claim = NoDir
     THEN Leave(p, claim)
     ELSE claim' = [claim EXCEPT !.owner = p] /\ Goto(p, "begin")
  /\ UNCHANGED <<journal, effects, lease>>

-----------------------------------------------------------------------------
(* finish: before the journal.                                             *)

\* A closed-out worktree has no active contract left; begin-completion refuses
\* a claim that has been displaced.
Begin(p) ==
  /\ pc[p] = "begin"
  /\ IF work # "original" \/ lease = "lost"
     THEN Goto(p, "release") /\ UNCHANGED lease
     ELSE /\ Goto(p, "bind")
          /\ lease' = IF lease = "bound" THEN "open" ELSE lease
  /\ UNCHANGED <<claim, journal, effects>>

\* closeout_claim_bind_journal, once every gate has passed.
BindJournal(p) ==
  /\ pc[p] = "bind"
  /\ IF claim = NoDir
     THEN Goto(p, "undo") /\ UNCHANGED claim
     ELSE claim' = [claim EXCEPT !.owner = p, !.key = TRUE] /\ Goto(p, "stamp")
  /\ UNCHANGED <<journal, effects, lease>>

\* sprint_lease_record_finish_transaction
Stamp(p) ==
  /\ pc[p] = "stamp"
  /\ IF lease = "lost"
     THEN Goto(p, "undo") /\ UNCHANGED lease
     ELSE /\ Goto(p, "journal")
          /\ lease' = IF lease = "bound" THEN "open" ELSE lease
  /\ UNCHANGED <<claim, journal, effects>>

\* closeout_journal_begin: an unfinished journal blocks, a completed one whose
\* effect is in place is replayed as nothing, any other is replaced.
Blocked == journal.status = "in_progress"
             \/ (journal.status = "complete" /\ EffectPresent)
OpenJournal(p) ==
  /\ pc[p] = "journal"
  /\ IF Blocked
     THEN Goto(p, "release") /\ UNCHANGED journal
     ELSE /\ \E m \in BOOLEAN :
               journal' = [NoJournal EXCEPT !.status = "begun", !.merge = m]
          /\ Goto(p, "snapshot")
  /\ UNCHANGED <<claim, effects, lease>>

-----------------------------------------------------------------------------
(* finish: the transaction.                                                *)

\* finish_transaction_begin: the copies and their index.  The exit trap is set
\* before the copies, so one that stops half way runs it ...
Snapshot(p) ==
  /\ pc[p] = "snapshot"
  /\ \E copy \in IF EarlyFaults THEN {work, "partial"} ELSE {work} :
       /\ journal' = [journal EXCEPT !.snap = copy]
       /\ Goto(p, IF copy = "partial" THEN "restore" ELSE "prepare")
  /\ UNCHANGED <<claim, effects, lease>>

\* ... and the `prepared` phase, from which on the journal is in progress.
Prepare(p) ==
  /\ pc[p] = "prepare"
  /\ journal' = [journal EXCEPT !.status = "in_progress"]
  /\ Goto(p, "implement")
  /\ UNCHANGED <<claim, effects, lease>>

\* The implementation commit.
Implement(p) ==
  /\ pc[p] = "implement"
  /\ work' = "half"
  /\ Goto(p, "lifecycle")
  /\ UNCHANGED <<claim, journal, landed, lease>>

\* Archive, markers, backlog and the lifecycle commit.
Lifecycle(p) ==
  /\ pc[p] = "lifecycle"
  /\ work' = "final"
  /\ Goto(p, IF journal.merge THEN "publish" ELSE "complete")
  /\ UNCHANGED <<claim, journal, landed, lease>>

\* The publication commit is made and its name recorded before the merge.
Publish(p) ==
  /\ pc[p] = "publish"
  /\ journal' = [journal EXCEPT !.prepared = TRUE]
  /\ Goto(p, "merge")
  /\ UNCHANGED <<claim, effects, lease>>

Merge(p) ==
  /\ pc[p] = "merge"
  /\ landed' = TRUE
  /\ Goto(p, "ack")
  /\ UNCHANGED <<claim, journal, work, lease>>

\* The projection is acknowledged and the merge recorded, by finish or by
\* recover reconcile.
Acknowledge(p) ==
  /\ pc[p] = "ack"
  /\ journal' = [journal EXCEPT !.merged = TRUE]
  /\ Goto(p, "complete")
  /\ UNCHANGED <<claim, effects, lease>>

\* finish_transaction_commit and the end of recover reconcile.
Complete(p) ==
  /\ pc[p] = "complete"
  /\ journal' = [journal EXCEPT !.status = "complete"]
  /\ Goto(p, "purge")
  /\ UNCHANGED <<claim, effects, lease>>

Purge(p) ==
  /\ pc[p] = "purge"
  /\ journal' = [journal EXCEPT !.snap = "none"]
  /\ Goto(p, "release")
  /\ UNCHANGED <<claim, effects, lease>>

\* closeout_claim_release: only under the pid of this process.
Release(p) ==
  /\ pc[p] = "release"
  /\ IF claim # NoDir /\ p = (IF Recovers(p) THEN claim.lane ELSE claim.owner)
     THEN Leave(p, NoDir)
     ELSE Leave(p, claim)
  /\ UNCHANGED <<journal, effects, lease>>

-----------------------------------------------------------------------------
(* Undoing: finish_transaction_abort, the exit traps, recover abort.       *)

\* A recovery needs the index that is written after the copies.
Restore(p) ==
  /\ pc[p] = "restore"
  /\ IF Recovers(p) /\ journal.snap \in {"none", "partial"}
     THEN Cancel(p) /\ UNCHANGED work
     ELSE work' = "half" /\ Goto(p, "rewrite") /\ UNCHANGED claim
  /\ UNCHANGED <<journal, landed, lease>>

\* Mutated: the branch is not put back.
RewriteFilesOnly(p) ==
  /\ pc[p] = "rewrite"
  /\ work' = "half"
  /\ Goto(p, "abortLease")
  /\ UNCHANGED <<claim, journal, landed, lease>>

\* Nobody looks at what the copies return (both callers switch errexit off), so
\* an undo goes on when one fails and the worktree keeps what it got.
Rewrite(p) ==
  /\ pc[p] = "rewrite"
  /\ work' \in {"lost", IF journal.snap \in Works THEN journal.snap ELSE "lost"}
  /\ Goto(p, "abortLease")
  /\ UNCHANGED <<claim, journal, landed, lease>>

\* abort-completion: the lease is still this worktree's and the row pending.
\* The orphan of a claim without a record does not know its target ref.
MayAbortLease(p) ==
  lease = "none" \/
    /\ lease \in {"bound", "open"}
    /\ ~landed
    /\ role[p] # "blind"

AbortLease(p) ==
  /\ pc[p] \in {"undo", "abortLease"}
  /\ IF MayAbortLease(p)
     THEN /\ lease' = IF lease = "open" THEN "bound" ELSE lease
          /\ Goto(p, CASE pc[p] = "undo" -> "release"
                       [] role[p] \in Orphan -> "dropJournal"
                       [] OTHER -> "recordAborted")
          /\ UNCHANGED claim
     ELSE Retain(p) /\ UNCHANGED lease
  /\ UNCHANGED <<journal, effects>>

RecordAborted(p) ==
  /\ pc[p] = "recordAborted"
  /\ journal' = [journal EXCEPT !.status = "aborted"]
  /\ Goto(p, "purge")
  /\ UNCHANGED <<claim, effects, lease>>

\* closeout_claim_abort_orphan: a journal that was never prepared goes too.
DropJournal(p) ==
  /\ pc[p] = "dropJournal"
  /\ journal' = IF role[p] = "keyed" THEN NoJournal ELSE journal
  /\ Goto(p, "release")
  /\ UNCHANGED <<claim, effects, lease>>

-----------------------------------------------------------------------------
(* recover: what to recover is read first, then the claim is taken over.   *)

Start(p, r) ==
  /\ pc[p] = "idle"
  /\ Overlap \/ \A q \in Proc : ~Recovers(q) /\ pc[q] # "own"
  /\ pc' = [pc EXCEPT ![p] = "judge"]
  /\ role' = [role EXCEPT ![p] = r]
  /\ UNCHANGED <<claim, journal, effects, lease>>

\* Mutated: the status of the journal is not looked at.
OrphanKindAnyStatus ==
  IF claim = NoDir THEN "none"
  ELSE IF claim.owner = Unwritten THEN "blind"
  ELSE IF claim.key THEN "keyed" ELSE "bare"

\* No journal in progress: the claim is an orphan, unless the journal it names
\* has a status.
OrphanKind ==
  IF claim = NoDir \/ journal.status = "in_progress"
       \/ (claim.key /\ journal.status \in {"aborted", "complete"}) THEN "none"
  ELSE IF claim.owner = Unwritten THEN "blind"
  ELSE IF claim.key THEN "keyed" ELSE "bare"
RecoverOrphan(p) == OrphanKind # "none" /\ Start(p, OrphanKind)

RecoverAbort(p) == journal.status = "in_progress" /\ Start(p, "abort")
RecoverReconcile(p) == journal.status = "in_progress" /\ Start(p, "reconcile")

\* Mutated: the owner is not probed.
JudgeAnyOwner(p) ==
  /\ pc[p] = "judge"
  /\ IF claim = NoDir THEN Leave(p, claim) ELSE Goto(p, "lane") /\ UNCHANGED claim
  /\ UNCHANGED <<journal, effects, lease>>

\* closeout_claim_takeover_for_recovery: the owner is gone ...
Judge(p) ==
  /\ pc[p] = "judge"
  /\ IF claim = NoDir \/ Live(claim.owner)
     THEN Leave(p, claim)
     ELSE Goto(p, "lane") /\ UNCHANGED claim
  /\ UNCHANGED <<journal, effects, lease>>

\* Mutated: a recovery lane is never taken from a dead recovery.
ClearLaneNever(p) ==
  /\ pc[p] = "lane"
  /\ IF claim # NoDir /\ claim.lane # NoDir
     THEN Leave(p, claim)
     ELSE Goto(p, "takeLane") /\ UNCHANGED claim
  /\ UNCHANGED <<journal, effects, lease>>

\* ... and so is the owner of an earlier recovery lane, which is removed ...
ClearLane(p) ==
  /\ pc[p] = "lane"
  /\ IF claim # NoDir /\ Live(claim.lane)
     THEN Leave(p, claim)
     ELSE /\ claim' = IF claim = NoDir THEN claim ELSE [claim EXCEPT !.lane = NoDir]
          /\ Goto(p, "takeLane")
  /\ UNCHANGED <<journal, effects, lease>>

\* ... to be made again ...
TakeLane(p) ==
  /\ pc[p] = "takeLane"
  /\ IF claim # NoDir /\ claim.lane = NoDir
     THEN claim' = [claim EXCEPT !.lane = Nobody] /\ Goto(p, "ownLane")
     ELSE Leave(p, claim)
  /\ UNCHANGED <<journal, effects, lease>>

\* ... and signed.
OwnLane(p) ==
  /\ pc[p] = "ownLane"
  /\ IF claim # NoDir /\ claim.lane # NoDir
     THEN /\ claim' = [claim EXCEPT !.lane = p]
          /\ Goto(p, IF role[p] \in Orphan THEN "abortLease" ELSE "check")
     ELSE Leave(p, claim)
  /\ UNCHANGED <<journal, effects, lease>>

\* abort only before the publication landed, reconcile only after.
Check(p) ==
  /\ pc[p] = "check"
  /\ IF EffectLanded <=> role[p] = "reconcile"
     THEN /\ Goto(p, IF role[p] = "abort" THEN "restore" ELSE "ack")
          /\ UNCHANGED claim
     ELSE Cancel(p)
  /\ UNCHANGED <<journal, effects, lease>>

-----------------------------------------------------------------------------
(* What may go wrong, and what others do.                                  *)

\* Between the exit trap of the transaction and the publication.
InTransaction == {"implement", "lifecycle", "publish", "merge"}
                   \cup (IF EarlyFaults THEN {"prepare"} ELSE {})

\* A gate, a commit, a merge or a write that fails: before the journal the trap
\* of the claim runs, in the transaction the one of the transaction, and after
\* the publication the closeout is left for recover reconcile.  A recovery stops
\* when its reset of the branch fails; the trap's undo goes on when its last
\* record is not written.
Fail(p) ==
  /\ \/ pc[p] = "begin" /\ Goto(p, "release") /\ UNCHANGED claim
     \/ pc[p] \in {"bind", "stamp", "journal"} /\ Goto(p, "undo") /\ UNCHANGED claim
     \/ pc[p] \in InTransaction /\ Goto(p, "restore") /\ UNCHANGED claim
     \/ pc[p] \in {"ack", "complete", "recordAborted"} /\ Retain(p)
     \/ pc[p] = "rewrite" /\ Recovers(p) /\ Retain(p)
     \/ pc[p] = "recordAborted" /\ ~Recovers(p) /\ Goto(p, "purge") /\ UNCHANGED claim
  /\ UNCHANGED <<journal, effects, lease>>

Crash(p) ==
  /\ pc[p] \in CrashPoints
  /\ End(p, claim, "killed")
  /\ UNCHANGED <<journal, effects, lease>>

\* sprint steal, or a release: the worktree's token names no owner any more.
Displaced ==
  /\ lease = "bound"
  /\ lease' = "lost"
  /\ UNCHANGED <<claim, journal, effects, pc, role>>

\* sprint reconcile, by finish after its commit or by anyone.
Settled ==
  /\ lease = "open" /\ landed
  /\ lease' = "none"
  /\ UNCHANGED <<claim, journal, effects, pc, role>>

\* ship_transaction_abort around a finish --no-merge puts the worktree back.
RolledBack ==
  /\ journal.status = "complete" /\ ~journal.merge
  /\ work = "final" /\ claim = NoDir
  /\ work' = "original"
  /\ UNCHANGED <<claim, journal, landed, lease, pc, role>>

\* What an undo has lost is put right by hand, and is then what there is.
Repaired ==
  /\ work = "lost" /\ claim = NoDir
  /\ work' = "original"
  /\ UNCHANGED <<claim, journal, landed, lease, pc, role>>

-----------------------------------------------------------------------------
\* Without Overlap a recovery reads and probes before others go on.
Moves(p) == Overlap \/ \A q \in Proc \ {p} : pc[q] # "judge"

Elect(p) == Acquire(p) \/ WriteOwner(p) \/ Judge(p) \/ ClearLane(p) \/ TakeLane(p)
              \/ OwnLane(p)
Close(p) == Begin(p) \/ BindJournal(p) \/ Stamp(p) \/ OpenJournal(p) \/ Snapshot(p)
              \/ Prepare(p) \/ Implement(p) \/ Lifecycle(p) \/ Publish(p) \/ Merge(p)
              \/ Acknowledge(p) \/ Complete(p)
Undo(p) == Check(p) \/ Restore(p) \/ Rewrite(p) \/ AbortLease(p) \/ DropJournal(p)
             \/ RecordAborted(p) \/ Purge(p) \/ Release(p)
Step(p) == Moves(p) /\ (Elect(p) \/ Close(p) \/ Undo(p))
Mishap(p) == Moves(p) /\ (Fail(p) \/ Crash(p))

Next ==
  \/ Displaced \/ Settled \/ RolledBack \/ Repaired
  \/ \E p \in Proc : \/ Finish(p) \/ Step(p) \/ Mishap(p)
                     \/ RecoverOrphan(p) \/ RecoverAbort(p) \/ RecoverReconcile(p)

Spec == Init /\ [][Next]_vars

(* A command that runs goes on, however often others probe between its steps *)
(* (Moves); an operator tries what recover offers and reconciles the leases  *)
(* of published rows.                                                        *)
Fairness ==
  /\ \A p \in Proc : SF_vars(Step(p))
  /\ WF_vars(Settled)
  /\ SF_vars(\E p \in Proc : RecoverOrphan(p))
  /\ SF_vars(\E p \in Proc : RecoverAbort(p))
  /\ SF_vars(\E p \in Proc : RecoverReconcile(p))

FairSpec == Spec /\ Fairness

-----------------------------------------------------------------------------
(* Safety.                                                                  *)

\* At most one process closes a worktree out or undoes a closeout: a recovery
\* "never steals from a live owner" (closeout_claim_acquire,
\* closeout_claim_takeover_for_recovery).
InCloseout(p) == pc[p] \in Closing \cup Undoing
OneOwner == \A p, q \in Proc : InCloseout(p) /\ InCloseout(q) => p = q

\* Whatever a killed process left half done can be put back from disk by
\* another: a changed worktree whose publication has not landed has a journal
\* in progress with a whole snapshot.  What an undo lost can be put back until
\* that undo is on record or has removed the snapshot (finish_transaction_begin,
\* finish_transaction_abort's "status first, payload second").
Restorable ==
  work # "original" /\ ~landed /\ journal.status # "complete" =>
    \/ journal.status = "in_progress" /\ journal.snap = "original"
    \/ work = "lost" /\ (journal.status = "aborted" \/ journal.snap = "none")

\* A closeout is recorded as aborted after everything was put back, but for
\* what a failed copy lost, the lease is bound again, and nothing has been
\* published (recover_worktree, finish_transaction_abort).
AbortSettles ==
  [][journal'.status = "aborted" /\ journal.status # "aborted" =>
       work \in {"original", "lost"} /\ lease # "open" /\ ~landed]_vars

\* "Restored the pre-closeout state", as both undos report.
AbortRestores ==
  [][journal'.status = "aborted" /\ journal.status # "aborted" =>
       work = "original"]_vars

\* "No closeout effect is possible in that window": the recovery of an orphan
\* claim does not remove the journal of a transaction that has begun.
PreparedIsKept ==
  [][journal.status = "in_progress" => journal'.status # "none"]_vars

\* Once the publication is on the target branch nothing undoes the worktree it
\* was made from, whether or not the journal says `merged` (closeout_finish_
\* effect_landed).
LandedIsNeverUndone == [][landed => work' = work]_vars

\* An unfinished journal with something to put back has the claim that sends an
\* operator to it (every path that gives the claim up before the journal has a
\* final status).
UnfinishedIsClaimed ==
  journal.status = "in_progress" /\ journal.snap # "none" => claim # NoDir

-----------------------------------------------------------------------------
(* Liveness.  Processes that keep dying or failing finish nothing.          *)

MishapsStop == <>[][~\E p \in Proc : Mishap(p)]_vars

\* A claim recover does not clear: its lease is lost, or not known for want of
\* an owner record, or the journal has a final status or nothing to put back.
Stuck ==
  claim # NoDir /\
    (\/ lease = "lost"
     \/ lease # "none" /\ claim.owner = Unwritten
     \/ claim.key /\ journal.status \in {"aborted", "complete"}
     \/ journal.status = "in_progress" /\ journal.snap = "none")

\* "If it is dead, run recover abort before merge/push or recover reconcile
\* after the external effect": every other claim goes in the end.
CloseoutEnds == MishapsStop => (claim # NoDir ~> claim = NoDir \/ Stuck)
=============================================================================
