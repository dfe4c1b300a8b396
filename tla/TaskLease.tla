----------------------------- MODULE TaskLease -----------------------------
(***************************************************************************)
(* The lease that coordinates agents on one sprint task: the verbs of      *)
(* src/effects/state/coordination-sprint.ts over the lease directory of    *)
(* coordination-lease-store.ts and the claim tokens of                     *)
(* coordination-claim-token.ts, driven the way scripts/sprint-backlog.sh   *)
(* (start-task) and scripts/contract-worktree.sh (finish, recover) drive   *)
(* them.                                                                   *)
(*                                                                         *)
(* An agent is a worktree and the one command at a time that runs in it.   *)
(* A verb runs under the task lock; each file it writes or removes inside  *)
(* it is a step, so that the command may die or fail in between.  The lock *)
(* is one step to take and to give back, and a dead holder loses it: that  *)
(* is LockService, which DirLock implements.  A verb that refuses changes  *)
(* nothing and takes one step.                                             *)
(*                                                                         *)
(* Left out: the reviewing state and its verbs, generations, sessions, and *)
(* the receipts a bind appends.                                            *)
(***************************************************************************)
EXTENDS Naturals

CONSTANTS
  Agent,        \* worktrees, each with the command running in it
  Claim,        \* fencing tokens (uuids)
  Rev,          \* revisions of the row's definition
  NoClaim,      \* no claim id
  NoTree,       \* a lease not bound to a worktree yet
  NoRecord,     \* no owner record in the lease directory
  Nobody,       \* nobody holds the task lock
  Inline,       \* the row's Mode: TRUE for inline, FALSE for contract
  Unleased,     \* a contract worktree without a claim token may finish
  IOFaults,     \* writing an owner record may fail
  CrashPoints   \* the program points at which a command may die

States == {"reserving", "bound", "completing", "released"}
Releasable == {"reserving", "bound"}
Records == [claim : Claim, state : States, wt : Agent \cup {NoTree},
            rev : Rev, key : BOOLEAN]

Verbs == {"none", "claim", "bind", "steal", "begin", "stamp", "abort",
          "release", "complete", "reconcile", "clear"}
Starting == {"verify", "elect", "recheck", "bind", "token", "undo", "steal"}
Finishing == {"begin", "freeze", "gate", "stamp", "open", "fill", "publish",
              "commit", "clear", "restore", "abort"}
Writing == {"rename", "unlink", "rmdir", "dropToken"}
PC == {"idle"} \cup Starting \cup Finishing \cup Writing

ASSUME ConstAssumption ==
  /\ NoClaim \notin Claim
  /\ NoTree \notin Agent
  /\ Nobody \notin Agent
  /\ NoRecord \notin Records
  /\ Rev # {}
  /\ {Inline, Unleased, IOFaults} \subseteq BOOLEAN
  /\ CrashPoints \subseteq PC \ {"idle"}

VARIABLES
  canon,      \* the row on the target branch: done, and its revision
  leaseDir,   \* the lease directory exists
  owner,      \* owner.json in it
  litter,     \* a temp file a dead writer left in it
  lock,       \* the holder of the task lock
  token,      \* the claim id in each worktree's token file
  row,        \* TRUE when the row reads [x] in that worktree
  based,      \* the worktree contains the tip of the target branch
  frozen,     \* the target branch has not moved since finish froze its base
  closeout,   \* finish: no closeout, ownership claim taken, journal open
  landed,     \* the journal's publication is on the target branch
  pc,         \* where each command is
  verb,       \* the verb that holds the task lock
  mine,       \* the claim id the command works with
  seen,       \* the row revision start-task identified
  out         \* the record in the temp file

plane == <<leaseDir, owner, litter>>
tree == <<token, row>>
target == <<canon, based, frozen>>
finish == <<closeout, landed>>
mem == <<mine, seen>>
vars == <<plane, lock, tree, target, finish, mem, pc, verb, out>>

TypeOK ==
  /\ canon \in [done : BOOLEAN, rev : Rev]
  /\ leaseDir \in BOOLEAN
  /\ owner \in Records \cup {NoRecord}
  /\ litter \in BOOLEAN
  /\ lock \in Agent \cup {Nobody}
  /\ token \in [Agent -> Claim \cup {NoClaim}]
  /\ row \in [Agent -> BOOLEAN]
  /\ based \in [Agent -> BOOLEAN]
  /\ frozen \in [Agent -> BOOLEAN]
  /\ closeout \in [Agent -> {"none", "claimed", "open"}]
  /\ landed \in [Agent -> BOOLEAN]
  /\ pc \in [Agent -> PC]
  /\ verb \in [Agent -> Verbs]
  /\ mine \in [Agent -> Claim \cup {NoClaim}]
  /\ seen \in [Agent -> Rev]
  /\ out \in [Agent -> Records \cup {NoRecord}]

AnyRev == CHOOSE r \in Rev : TRUE

Init ==
  /\ canon \in [done : {FALSE}, rev : {AnyRev}]
  /\ leaseDir = FALSE
  /\ owner = NoRecord
  /\ litter = FALSE
  /\ lock = Nobody
  /\ token = [a \in Agent |-> NoClaim]
  /\ row = [a \in Agent |-> FALSE]
  /\ based = [a \in Agent |-> TRUE]
  /\ frozen = [a \in Agent |-> FALSE]
  /\ closeout = [a \in Agent |-> "none"]
  /\ landed = [a \in Agent |-> FALSE]
  /\ pc = [a \in Agent |-> "idle"]
  /\ verb = [a \in Agent |-> "none"]
  /\ mine = [a \in Agent |-> NoClaim]
  /\ seen = [a \in Agent |-> AnyRev]
  /\ out = [a \in Agent |-> NoRecord]

-----------------------------------------------------------------------------
(* Helpers.                                                                *)

Goto(a, l) == pc' = [pc EXCEPT ![a] = l]
Work(a, c) == mine' = [mine EXCEPT ![a] = c]

\* The command ends: what it knew is gone.
Exit(a) ==
  /\ Goto(a, "idle")
  /\ mine' = [mine EXCEPT ![a] = NoClaim]
  /\ seen' = [seen EXCEPT ![a] = AnyRev]

OwnedByAnyone(a, states) == owner # NoRecord /\ owner.state \in states

\* withOwnedLease and lockedRecord: the record of the claim the command names.
Owned(a, states) ==
  owner # NoRecord /\ owner.claim = mine[a] /\ owner.state \in states

\* A fresh uuid: nowhere on disk and in no command's memory.
FreshClaim(c) ==
  /\ owner # NoRecord => owner.claim # c
  /\ \A b \in Agent : /\ token[b] # c
                      /\ mine[b] # c
                      /\ out[b] # NoRecord => out[b].claim # c

\* Take the task lock and put the new record into a temp file.
Draft(a, v, record) ==
  /\ lock' = a
  /\ verb' = [verb EXCEPT ![a] = v]
  /\ out' = [out EXCEPT ![a] = record]
  /\ Goto(a, "rename")

\* Take the task lock to remove a lease whose record has been looked at.
Condemn(a, v) ==
  /\ lock' = a
  /\ verb' = [verb EXCEPT ![a] = v]
  /\ Goto(a, "unlink")

\* Give the task lock back.
Unlock(a) ==
  /\ lock' = Nobody
  /\ verb' = [verb EXCEPT ![a] = "none"]
  /\ out' = [out EXCEPT ![a] = NoRecord]

Locked == <<lock, verb, out>>

\* verifyCanonicalPreconditions
ClaimableNow(a) == ~canon.done /\ canon.rev = seen[a]

\* The target branch gets a commit, which only the trees in holders contain.
TargetMoves(holders) ==
  /\ based' = [b \in Agent |-> b \in holders]
  /\ frozen' = [b \in Agent |-> FALSE]

-----------------------------------------------------------------------------
(* start-task: identify, claim, capture, bind, claim token.                *)

StartTask(a) ==
  /\ pc[a] = "idle"
  /\ ~row[a]
  /\ Goto(a, "verify")
  /\ seen' = [seen EXCEPT ![a] = canon.rev]
  /\ UNCHANGED <<plane, Locked, tree, target, finish, mine>>

\* claim looks at the canonical row before it takes the task lock.
Verify(a) ==
  /\ pc[a] = "verify"
  /\ IF ClaimableNow(a)
     THEN Goto(a, "elect") /\ UNCHANGED mem
     ELSE Exit(a)
  /\ UNCHANGED <<plane, Locked, tree, target, finish>>

\* createLeaseDirectory is the election; buildLeaseOwnerRecord the record.
Elect(a) ==
  /\ pc[a] = "elect"
  /\ lock = Nobody
  /\ IF leaseDir
     THEN /\ Exit(a)
          /\ UNCHANGED <<leaseDir, Locked>>
     ELSE \E c \in Claim :
            /\ FreshClaim(c)
            /\ leaseDir' = TRUE
            /\ Work(a, c)
            /\ Draft(a, "claim", [claim |-> c, state |-> "reserving", wt |-> NoTree,
                                  rev |-> seen[a], key |-> FALSE])
            /\ UNCHANGED seen
  /\ UNCHANGED <<owner, litter, tree, target, finish>>

\* Still under the lock, the canonical row is looked at again; a change rolls
\* back the lease this call created.
Recheck(a) ==
  /\ pc[a] = "recheck"
  /\ IF ClaimableNow(a)
     THEN Goto(a, "bind") /\ Unlock(a)
     ELSE Goto(a, "unlink") /\ UNCHANGED Locked
  /\ UNCHANGED <<plane, tree, target, finish, mem>>

\* capture-plan creates the worktree; when it fails the claim is rolled back.
CaptureFails(a) ==
  /\ pc[a] = "bind"
  /\ Goto(a, "undo")
  /\ UNCHANGED <<plane, Locked, tree, target, finish, mem>>

\* Without a worktree to name, start-task ends and the lease stays reserving.
LeaveReserving(a) ==
  /\ pc[a] = "bind"
  /\ ~Inline
  /\ Exit(a)
  /\ UNCHANGED <<plane, Locked, tree, target, finish>>

\* sprint bind names the worktree later, by the claim id on the board.
ResumeBind(a) ==
  /\ pc[a] = "idle"
  /\ owner # NoRecord /\ owner.state = "reserving"
  /\ Work(a, owner.claim)
  /\ Goto(a, "bind")
  /\ UNCHANGED <<plane, Locked, tree, target, finish, seen>>

\* bind.  After a refusal the caller gives the claim up, as start-task does.
Bind(a) ==
  /\ pc[a] = "bind"
  /\ lock = Nobody
  /\ IF Owned(a, {"reserving"})
     THEN Draft(a, "bind", [owner EXCEPT !.state = "bound", !.wt = a])
     ELSE Goto(a, "undo") /\ UNCHANGED Locked
  /\ UNCHANGED <<plane, tree, target, finish, mem>>

\* writeClaimTokenForBoundLease.  Lock, checks and the atomic write of the
\* token file, which nobody else writes, are one step.
WriteToken(a) ==
  /\ pc[a] = "token"
  /\ lock = Nobody
  /\ IF Owned(a, {"bound"}) /\ owner.wt = a /\ ~canon.done /\ owner.rev = canon.rev
     THEN /\ token' = [token EXCEPT ![a] = mine[a]]
          /\ Exit(a)
     ELSE /\ Goto(a, "undo")
          /\ UNCHANGED <<token, mem>>
  /\ UNCHANGED <<plane, Locked, row, target, finish>>

\* rollback_claim, and sprint release by the holder of a token.
StartRelease(a) ==
  /\ pc[a] = "idle"
  /\ token[a] # NoClaim
  /\ Work(a, token[a])
  /\ Goto(a, "undo")
  /\ UNCHANGED <<plane, Locked, tree, target, finish, seen>>

ReleaseFrom(a, states) ==
  /\ pc[a] = "undo"
  /\ lock = Nobody
  /\ IF Owned(a, states)
     THEN /\ Draft(a, "release", [owner EXCEPT !.state = "released"])
          /\ UNCHANGED mem
     ELSE Exit(a) /\ UNCHANGED Locked
  /\ UNCHANGED <<plane, tree, target, finish>>
ReleaseAnyState(a) == ReleaseFrom(a, States)

\* A completing lease is not released: its publication may have landed.
Release(a) == ReleaseFrom(a, Releasable)

-----------------------------------------------------------------------------
(* steal: the claim to displace is read from the board, outside the lock.  *)

Observe(a) ==
  /\ pc[a] = "idle"
  /\ owner # NoRecord
  /\ Work(a, owner.claim)
  /\ Goto(a, "steal")
  /\ UNCHANGED <<plane, Locked, tree, target, finish, seen>>

StolenSameClaim(c) == [owner EXCEPT !.state = "reserving", !.wt = NoTree]

\* stealLeaseRecord: the new record keeps the revision and names no worktree.
Stolen(c) == [claim |-> c, state |-> "reserving", wt |-> NoTree,
              rev |-> owner.rev, key |-> FALSE]

StealFrom(a, states) ==
  /\ pc[a] = "steal"
  /\ lock = Nobody
  /\ IF Owned(a, states)
     THEN /\ \E c \in Claim : FreshClaim(c) /\ Draft(a, "steal", Stolen(c))
          /\ UNCHANGED mem
     ELSE Exit(a) /\ UNCHANGED Locked
  /\ UNCHANGED <<plane, tree, target, finish>>
StealAnyState(a) == StealFrom(a, States)

Steal(a) == StealFrom(a, States \ {"completing"})

-----------------------------------------------------------------------------
(* The writes under the task lock.                                         *)

\* What the command does once its record is in place.
AfterWrite(a) ==
  CASE verb[a] = "claim" ->
         Goto(a, "recheck") /\ UNCHANGED <<Locked, finish, mem>>
    [] verb[a] = "bind" ->
         Goto(a, "token") /\ Unlock(a) /\ UNCHANGED <<finish, mem>>
    [] verb[a] = "steal" ->
         /\ Goto(a, "bind")
         /\ Work(a, out[a].claim)
         /\ Unlock(a)
         /\ UNCHANGED <<finish, seen>>
    [] verb[a] = "begin" ->
         Goto(a, "freeze") /\ Unlock(a) /\ UNCHANGED <<finish, mem>>
    [] verb[a] = "stamp" ->
         Goto(a, "open") /\ Unlock(a) /\ UNCHANGED <<finish, mem>>
    [] verb[a] = "abort" ->
         /\ Exit(a)
         /\ closeout' = [closeout EXCEPT ![a] = "none"]
         /\ Unlock(a)
         /\ UNCHANGED landed
    [] OTHER -> Goto(a, "unlink") /\ UNCHANGED <<Locked, finish, mem>>

\* writeLeaseOwnerDurably renames the temp file over owner.json.
Rename(a) ==
  /\ pc[a] = "rename"
  /\ owner' = out[a]
  /\ AfterWrite(a)
  /\ UNCHANGED <<leaseDir, litter, tree, target>>

AfterFailureKeepRow(a) ==
  /\ UNCHANGED row
  /\ IF verb[a] = "claim" /\ pc[a] = "rename"
     THEN /\ Goto(a, IF owner' = NoRecord THEN "rmdir" ELSE "unlink")
          /\ UNCHANGED <<Locked, closeout, mem>>
     ELSE /\ Unlock(a)
          /\ IF verb[a] \in {"bind", "stamp"}
             THEN /\ Goto(a, IF verb[a] = "bind" THEN "undo" ELSE "abort")
                  /\ UNCHANGED <<closeout, mem>>
             ELSE /\ Exit(a)
                  /\ closeout' = [closeout EXCEPT
                       ![a] = IF verb[a] = "begin" THEN "none" ELSE @]

AfterFailureWithoutRollback(a) ==
  /\ row' = [row EXCEPT ![a] = @ /\ verb[a] # "complete"]
  /\ Unlock(a)
  /\ IF verb[a] \in {"bind", "stamp"}
     THEN /\ Goto(a, IF verb[a] = "bind" THEN "undo" ELSE "abort")
          /\ UNCHANGED <<closeout, mem>>
     ELSE /\ Exit(a)
          /\ closeout' = [closeout EXCEPT
               ![a] = IF verb[a] = "begin" THEN "none" ELSE @]

\* What the command does when a write or a removal failed: claim rolls its own
\* lease back, complete-row restores the row, start-task releases the claim,
\* finish closes its window, recovery stays due.
AfterFailure(a) ==
  /\ row' = [row EXCEPT ![a] = @ /\ verb[a] # "complete"]
  /\ IF verb[a] = "claim" /\ pc[a] = "rename"
     THEN /\ Goto(a, IF owner' = NoRecord THEN "rmdir" ELSE "unlink")
          /\ UNCHANGED <<Locked, closeout, mem>>
     ELSE /\ Unlock(a)
          /\ IF verb[a] \in {"bind", "stamp"}
             THEN /\ Goto(a, IF verb[a] = "bind" THEN "undo" ELSE "abort")
                  /\ UNCHANGED <<closeout, mem>>
             ELSE /\ Exit(a)
                  /\ closeout' = [closeout EXCEPT
                       ![a] = IF verb[a] = "begin" THEN "none" ELSE @]

\* The temp file could not be written or renamed, or the directory could not
\* be synced after the rename.
RenameFails(a) ==
  /\ IOFaults
  /\ pc[a] = "rename"
  /\ owner' \in {owner, out[a]}
  /\ AfterFailure(a)
  /\ UNCHANGED <<leaseDir, litter, token, target, landed>>

\* removeLease: the record first, then the directory.
Unlink(a) ==
  /\ pc[a] = "unlink"
  /\ owner' = NoRecord
  /\ Goto(a, "rmdir")
  /\ UNCHANGED <<leaseDir, litter, Locked, tree, target, finish, mem>>

Rmdir(a) ==
  /\ pc[a] = "rmdir"
  /\ ~litter
  /\ leaseDir' = FALSE
  /\ CASE verb[a] = "complete" -> Goto(a, "dropToken") /\ UNCHANGED <<Locked, mem>>
       [] verb[a] = "clear" -> Goto(a, "dropToken") /\ Unlock(a) /\ UNCHANGED mem
       [] OTHER -> Exit(a) /\ Unlock(a)
  /\ UNCHANGED <<owner, litter, tree, target, finish>>

\* rmdirSync refuses a directory with a temp file in it.
RmdirFails(a) ==
  /\ pc[a] = "rmdir"
  /\ litter
  /\ AfterFailure(a)
  /\ UNCHANGED <<plane, token, target, landed>>

\* removeClaimToken in complete-row; after the reconcile of a finish, which has
\* given the lock back, rm -f of the token file.
DropToken(a) ==
  /\ pc[a] = "dropToken"
  /\ token' = [token EXCEPT ![a] = NoClaim]
  /\ Exit(a)
  /\ IF lock = a THEN Unlock(a) ELSE UNCHANGED Locked
  /\ UNCHANGED <<plane, row, target, finish>>

-----------------------------------------------------------------------------
(* contract-worktree finish.  The closeout claim comes first: one finish or *)
(* recovery per worktree.  A finish moves the contract file out of the way  *)
(* with the row flip, so a worktree whose row is flipped does not finish.   *)

Finish(a) ==
  /\ ~Inline
  /\ pc[a] = "idle"
  /\ closeout[a] = "none"
  /\ ~row[a]
  /\ token[a] # NoClaim \/ Unleased
  /\ closeout' = [closeout EXCEPT ![a] = "claimed"]
  /\ Work(a, token[a])
  /\ Goto(a, IF token[a] = NoClaim THEN "freeze" ELSE "begin")
  /\ UNCHANGED <<plane, Locked, tree, target, landed, seen>>

\* begin-completion: token, binding and revision, whatever the row's status.
MayComplete(a, states) ==
  Owned(a, states) /\ owner.wt = a /\ owner.rev = canon.rev
Reviewing(key) == [owner EXCEPT !.state = "reviewing", !.key = key]
Completing(key) == [owner EXCEPT !.state = "completing", !.key = key]

BeginFrom(a, states) ==
  /\ pc[a] = "begin"
  /\ lock = Nobody
  /\ IF MayComplete(a, states)
     THEN Draft(a, "begin", Completing(FALSE)) /\ UNCHANGED <<closeout, mem>>
     ELSE /\ Exit(a)
          /\ closeout' = [closeout EXCEPT ![a] = "none"]
          /\ UNCHANGED Locked
  /\ UNCHANGED <<plane, tree, target, landed>>
Begin(a) == BeginFrom(a, {"bound", "completing"})

\* refresh_and_freeze_base.
Freeze(a) ==
  /\ pc[a] = "freeze"
  /\ frozen' = [frozen EXCEPT ![a] = TRUE]
  /\ Goto(a, "gate")
  /\ UNCHANGED <<plane, Locked, tree, canon, based, finish, mem>>

\* The base has not moved during verification and the worktree contains it.
Gate(a) ==
  /\ pc[a] = "gate"
  /\ Goto(a, IF frozen[a] /\ based[a] THEN "stamp" ELSE "abort")
  /\ UNCHANGED <<plane, Locked, tree, target, finish, mem>>

\* The journal key goes into the lease before the journal is opened.
Stamp(a) ==
  /\ pc[a] = "stamp"
  /\ IF mine[a] = NoClaim
     THEN Goto(a, "open") /\ UNCHANGED Locked
     ELSE /\ lock = Nobody
          /\ IF MayComplete(a, {"bound", "completing"})
             THEN Draft(a, "stamp", Completing(TRUE))
             ELSE Goto(a, "abort") /\ UNCHANGED Locked
  /\ UNCHANGED <<plane, tree, target, finish, mem>>

OpenJournal(a) ==
  /\ pc[a] = "open"
  /\ closeout' = [closeout EXCEPT ![a] = "open"]
  /\ Goto(a, "fill")
  /\ UNCHANGED <<plane, Locked, tree, target, landed, mem>>

\* completionLeaseGate: no lease, or the lease of this worktree's token at the
\* revision that was claimed.
MayFlip(a, states) ==
  leaseDir => /\ owner # NoRecord
              /\ owner.state \in states
              /\ token[a] = owner.claim
              /\ owner.rev = canon.rev

\* complete-row --defer-lease-release, one step under the task lock.
FillIf(a, allowed) ==
  /\ pc[a] = "fill"
  /\ lock = Nobody
  /\ IF ~row[a] /\ allowed
     THEN row' = [row EXCEPT ![a] = TRUE] /\ Goto(a, "publish")
     ELSE Goto(a, "restore") /\ UNCHANGED row
  /\ UNCHANGED <<plane, Locked, token, target, finish, mem>>
Fill(a) == FillIf(a, MayFlip(a, Releasable \cup {"completing"}))

\* A verification, a merge gate or a commit that fails, at any point before the
\* publication.
GiveUp(a) ==
  /\ pc[a] \in {"gate", "fill", "publish"}
  /\ Goto(a, IF pc[a] = "gate" THEN "abort" ELSE "restore")
  /\ UNCHANGED <<plane, Locked, tree, target, finish, mem>>

PublishUnfrozen(a) ==
  /\ pc[a] = "publish"
  /\ canon' = [canon EXCEPT !.done = TRUE]
  /\ landed' = [landed EXCEPT ![a] = TRUE]
  /\ TargetMoves({})
  /\ Goto(a, "commit")
  /\ UNCHANGED <<plane, Locked, tree, closeout, mem>>

\* merge --ff-only of a commit whose parent is the frozen base.
Publish(a) ==
  /\ pc[a] = "publish"
  /\ IF frozen[a]
     THEN /\ canon' = [canon EXCEPT !.done = TRUE]
          /\ landed' = [landed EXCEPT ![a] = TRUE]
          /\ TargetMoves({})
          /\ Goto(a, "commit")
     ELSE Goto(a, "restore") /\ UNCHANGED <<target, landed>>
  /\ UNCHANGED <<plane, Locked, tree, closeout, mem>>

\* Everything a closeout had open in this worktree is done with.
Closed(a) ==
  /\ closeout' = [closeout EXCEPT ![a] = "none"]
  /\ landed' = [landed EXCEPT ![a] = FALSE]

\* finish --no-merge ends after the lifecycle commit: the window stays open for
\* the ship that publishes the branch.
HandOver(a) ==
  /\ pc[a] = "publish"
  /\ Closed(a)
  /\ Exit(a)
  /\ UNCHANGED <<plane, Locked, tree, target>>

\* finish_transaction_commit: the journal is complete, the closeout claim goes.
CommitJournal(a) ==
  /\ pc[a] = "commit"
  /\ Closed(a)
  /\ IF mine[a] = NoClaim THEN Exit(a) ELSE Goto(a, "clear") /\ UNCHANGED mem
  /\ UNCHANGED <<plane, Locked, tree, target>>

FinishedReleased == owner # NoRecord /\ owner.state = "released"

\* Nothing is left to own: the owner said so, or the canonical row does.
Finished == owner # NoRecord /\ (owner.state = "released" \/ canon.done)

\* sprint reconcile --expected-claim-id.
Clear(a) ==
  /\ pc[a] = "clear"
  /\ lock = Nobody
  /\ IF Finished /\ owner.claim = mine[a]
     THEN Condemn(a, "clear") /\ UNCHANGED <<out, mem>>
     ELSE Exit(a) /\ UNCHANGED Locked
  /\ UNCHANGED <<plane, tree, target, finish>>

\* finish_transaction_abort and recover abort put the snapshot back first.
Restore(a) ==
  /\ pc[a] = "restore"
  /\ row' = [row EXCEPT ![a] = FALSE]
  /\ Goto(a, "abort")
  /\ UNCHANGED <<plane, Locked, token, target, finish, mem>>

MayAbortUnkeyed(a) ==
  Owned(a, {"bound", "completing"}) /\ owner.wt = a /\ ~owner.key /\ ~canon.done

\* abort-completion, for a row that canonically is still pending.
MayAbort(a) ==
  /\ Owned(a, {"bound", "completing"})
  /\ owner.wt = a
  /\ owner.state = "bound" => ~owner.key
  /\ ~canon.done

\* When the verb refuses, the closeout stays claimed for recovery.
Abort(a) ==
  /\ pc[a] = "abort"
  /\ IF mine[a] = NoClaim
     THEN /\ closeout' = [closeout EXCEPT ![a] = "none"]
          /\ Exit(a)
          /\ UNCHANGED Locked
     ELSE /\ lock = Nobody
          /\ IF MayAbort(a)
             THEN /\ Draft(a, "abort", [owner EXCEPT !.state = "bound", !.key = FALSE])
                  /\ UNCHANGED mem
             ELSE Exit(a) /\ UNCHANGED Locked
          /\ UNCHANGED closeout
  /\ UNCHANGED <<plane, tree, target, landed>>

-----------------------------------------------------------------------------
(* recover: an operator resolves what a dead finish left in a worktree.     *)

\* recover reconcile, for a publication that landed.
RecoverLanded(a) ==
  /\ pc[a] = "idle"
  /\ closeout[a] = "open" /\ landed[a]
  /\ Closed(a)
  /\ UNCHANGED <<plane, Locked, tree, target, mem, pc>>

\* recover abort, for a journal without one and for an orphan closeout claim.
RecoverAbort(a) ==
  /\ pc[a] = "idle"
  /\ closeout[a] # "none" /\ ~landed[a]
  /\ Work(a, token[a])
  /\ Goto(a, IF closeout[a] = "open" THEN "restore" ELSE "abort")
  /\ UNCHANGED <<plane, Locked, tree, target, finish, seen>>

Recover(a) == RecoverLanded(a) \/ RecoverAbort(a)

\* sprint reconcile, by anyone and without a token.
ReconcileIf(a, proof) ==
  /\ pc[a] = "idle"
  /\ lock = Nobody
  /\ owner # NoRecord
  /\ proof
  /\ Condemn(a, "reconcile")
  /\ UNCHANGED <<plane, out, tree, target, finish, mem>>
Reconcile(a) == ReconcileIf(a, Finished)

-----------------------------------------------------------------------------
(* ship: what becomes of a branch that a finish has handed over.            *)

HandedOver(a) == ~Inline /\ pc[a] = "idle" /\ closeout[a] = "none" /\ row[a] /\ ~canon.done

\* ship_transaction_abort and its recovery put the worktree back and leave the
\* lease as it is.
ShipAborts(a) ==
  /\ HandedOver(a)
  /\ row' = [row EXCEPT ![a] = FALSE]
  /\ UNCHANGED <<plane, Locked, token, target, finish, mem, pc>>

\* The pull request of the branch is merged.
ShipLands(a) ==
  /\ HandedOver(a) /\ based[a]
  /\ canon' = [canon EXCEPT !.done = TRUE]
  /\ TargetMoves({a})
  /\ UNCHANGED <<plane, Locked, tree, finish, mem, pc>>

-----------------------------------------------------------------------------
(* Inline rows: sprint complete-task in the worktree, then a commit.        *)

\* complete-row: the row, the released record, the lease, the token, under one
\* task lock.  The row is written first.
Complete(a) ==
  /\ Inline
  /\ pc[a] = "idle"
  /\ lock = Nobody
  /\ ~row[a]
  /\ MayFlip(a, Releasable)
  /\ row' = [row EXCEPT ![a] = TRUE]
  /\ IF leaseDir
     THEN /\ Draft(a, "complete", [owner EXCEPT !.state = "released"])
          /\ Work(a, token[a])
     ELSE UNCHANGED <<Locked, pc, mine>>
  /\ UNCHANGED <<plane, token, target, finish, seen>>

\* The worktree's row reaches the target branch.
CommitInline(a) ==
  /\ Inline
  /\ pc[a] = "idle"
  /\ row[a] /\ based[a] /\ ~canon.done
  /\ canon' = [canon EXCEPT !.done = TRUE]
  /\ TargetMoves({a})
  /\ UNCHANGED <<plane, Locked, tree, finish, mem, pc>>

-----------------------------------------------------------------------------
(* The environment.                                                        *)

\* Somebody edits the definition of the row on the target branch.
EditTarget ==
  /\ ~canon.done
  /\ \E r \in Rev \ {canon.rev} : canon' = [canon EXCEPT !.rev = r]
  /\ TargetMoves({})
  /\ UNCHANGED <<plane, Locked, tree, finish, mem, pc>>

\* The worktree is rebased on the target branch.
Rebase(a) ==
  /\ pc[a] = "idle"
  /\ closeout[a] = "none"
  /\ ~based[a]
  /\ based' = [based EXCEPT ![a] = TRUE]
  /\ row' = [row EXCEPT ![a] = @ \/ canon.done]
  /\ UNCHANGED <<plane, Locked, token, canon, frozen, finish, mem, pc>>

\* The command dies.  Files stay; a task lock it held is reclaimed.
Crash(a) ==
  /\ pc[a] \in CrashPoints
  /\ Exit(a)
  /\ litter' \in {litter, litter \/ pc[a] = "rename"}
  /\ frozen' = [frozen EXCEPT ![a] = FALSE]
  /\ lock' = IF lock = a THEN Nobody ELSE lock
  /\ verb' = [verb EXCEPT ![a] = "none"]
  /\ out' = [out EXCEPT ![a] = NoRecord]
  /\ UNCHANGED <<leaseDir, owner, tree, canon, based, finish>>

-----------------------------------------------------------------------------
\* An operator starts a command.
Operator(a) ==
  \/ StartTask(a) \/ ResumeBind(a) \/ StartRelease(a) \/ Observe(a)
  \/ Finish(a) \/ Recover(a) \/ Reconcile(a)
  \/ Complete(a) \/ CommitInline(a) \/ Rebase(a) \/ ShipAborts(a) \/ ShipLands(a)

\* A started command goes on.
Starter(a) ==
  \/ Verify(a) \/ Elect(a) \/ Recheck(a) \/ LeaveReserving(a) \/ Bind(a)
  \/ WriteToken(a) \/ Release(a) \/ Steal(a)
Finisher(a) ==
  \/ Begin(a) \/ Freeze(a) \/ Gate(a) \/ Stamp(a) \/ OpenJournal(a) \/ Fill(a)
  \/ Publish(a) \/ HandOver(a) \/ CommitJournal(a) \/ Clear(a) \/ Restore(a) \/ Abort(a)
Writer(a) == Rename(a) \/ Unlink(a) \/ Rmdir(a) \/ RmdirFails(a) \/ DropToken(a)
Command(a) == Starter(a) \/ Finisher(a) \/ Writer(a)

\* What may go wrong.
Mishap(a) == CaptureFails(a) \/ GiveUp(a) \/ RenameFails(a) \/ Crash(a)

Next ==
  \/ EditTarget
  \/ \E a \in Agent : Operator(a) \/ Command(a) \/ Mishap(a)

Spec == Init /\ [][Next]_vars

(* Commands in progress go on; an operator recovers a dead finish and         *)
(* reconciles a lease with nothing left to protect.  A verb holds the task    *)
(* lock for a bounded time and a waiting one polls, hence strong fairness.    *)
Fairness ==
  /\ \A a \in Agent : SF_vars(Command(a)) /\ SF_vars(Recover(a))
  /\ SF_vars(\E a \in Agent : Reconcile(a))

FairSpec == Spec /\ Fairness

-----------------------------------------------------------------------------
(* Safety.                                                                  *)

HoldsTask(a) == lock = a /\ verb[a] # "none"

\* Every write to the owner record is a compare-and-swap: the writer holds the
\* task lock and names the claim the record carries at that moment, or the
\* record says by itself that nothing is left to own (withOwnedLease,
\* lockedRecord, removeLease).
WritesAreFenced ==
  [][owner' # owner /\ owner # NoRecord =>
       \E a \in Agent : HoldsTask(a) /\ (owner.claim = mine[a] \/ Finished)]_vars

\* A claim is displaced or dropped only outside its publication window, unless
\* the publication has landed (releaseLeaseRecord, stealLeaseRecord,
\* reconcileSprintCommand).
NobodyLeavesOpenWindow ==
  [][owner # NoRecord /\ owner.state = "completing" /\ ~canon.done =>
       owner' # NoRecord /\ owner'.claim = owner.claim
                         /\ owner'.state \in {"bound", "completing"}]_vars

\* From the ownership gate of a finish to its publication the claim it passed
\* the gate with stays the owner, bound to this worktree, its window open.
InWindow(a) ==
  /\ mine[a] # NoClaim
  /\ pc[a] \in {"freeze", "gate", "stamp", "open", "fill", "publish"}
WindowIsFenced ==
  \A a \in Agent : InWindow(a) /\ ~canon.done =>
    Owned(a, {"completing"}) /\ owner.wt = a

\* A worktree that works under a claim publishes the revision it claimed, and
\* only while the claim is still its own (begin-completion, the frozen base).
OwnerPublishes ==
  [][\A a \in Agent : mine[a] # NoClaim /\ landed'[a] /\ ~landed[a] =>
       /\ ~canon.done
       /\ Owned(a, {"completing"}) /\ owner.wt = a
       /\ owner.rev = canon.rev]_vars

\* A token file that names the owner lies in the worktree the lease is bound
\* to: no two worktrees may complete the row under one claim.
TokenFollowsBinding ==
  \A a \in Agent : owner # NoRecord /\ token[a] = owner.claim /\ owner.wt # NoTree =>
    owner.wt = a

\* "The row flip, the lease release and the token removal either all happen or
\* none do" (completeRowSprintCommand).
CompleteEnds(a) == verb[a] = "complete" /\ verb'[a] = "none" /\ ~Crash(a)
Completed(a) == row'[a] /\ ~leaseDir' /\ token'[a] = NoClaim
AllOrNothing ==
  [][\A a \in Agent : CompleteEnds(a) =>
       \/ Completed(a)
       \/ /\ ~row'[a]
          /\ owner' # NoRecord /\ owner'.claim = token'[a]
          /\ owner'.state \in Releasable]_vars

\* Where writes fail, an inline completion that does not complete puts the row
\* back and keeps the token; of the lease the journal restores nothing, but what
\* is left names no other claim.
CompletesOrRestores ==
  [][\A a \in Agent : CompleteEnds(a) =>
       \/ Completed(a)
       \/ /\ ~row'[a] /\ leaseDir'
          /\ token'[a] = token[a]
          /\ owner' = NoRecord \/ owner'.claim = token[a]]_vars

\* When every command is over, a lease directory has an owner record.
NoAmbiguousResidue ==
  (\A a \in Agent : pc[a] = "idle") /\ leaseDir => owner # NoRecord

\* The contract task with its owner, its window and its publication: what the
\* plane promises.
Service == INSTANCE TaskOwnership WITH
  Free <- NoClaim,
  owner <- IF owner = NoRecord \/ owner.state = "released"
           THEN NoClaim ELSE owner.claim,
  window <- owner # NoRecord /\ owner.state = "completing",
  published <- canon.done
ImplementsOwnership == Service!Spec

-----------------------------------------------------------------------------
(* The inductive invariant.                                                 *)

\* The verb a command is in, the task lock and the place it has reached agree.
LockAgrees ==
  \A a \in Agent :
    /\ verb[a] # "none" <=> lock = a
    /\ verb[a] # "none" <=> \/ pc[a] \in {"rename", "recheck", "unlink", "rmdir"}
                            \/ pc[a] = "dropToken" /\ verb[a] = "complete"

\* What a verb saw of the record when it took the lock, and what it makes of it.
Drafts(a) ==
  /\ verb[a] # "steal" => out[a].claim = mine[a]
  /\ CASE verb[a] = "claim" -> owner = NoRecord /\ out[a].state = "reserving"
       [] verb[a] = "bind" -> Owned(a, {"reserving"}) /\ out[a].state = "bound"
       [] verb[a] = "steal" ->
            Owned(a, States \ {"completing"}) /\ out[a].state = "reserving"
       [] verb[a] \in {"release", "complete"} ->
            Owned(a, Releasable) /\ out[a].state = "released"
       [] verb[a] \in {"begin", "stamp", "abort"} ->
            /\ Owned(a, {"bound", "completing"})
            /\ owner.wt = a
            /\ out[a].wt = a
            /\ out[a].state = IF verb[a] = "abort" THEN "bound" ELSE "completing"
            /\ verb[a] = "abort" => ~canon.done \/ Unleased \/ Inline
       [] OTHER -> FALSE
Drafted ==
  \A a \in Agent : pc[a] = "rename" => out[a] # NoRecord /\ Drafts(a)

\* A claim rolls back the record it made; what another verb removes is finished.
Condemned ==
  \A a \in Agent :
    /\ pc[a] = "recheck" => verb[a] = "claim"
    /\ pc[a] \in {"recheck", "unlink", "rmdir"} =>
         verb[a] \in {"claim", "release", "complete", "reconcile", "clear"}
    /\ pc[a] \in {"recheck", "unlink"} =>
         /\ owner # NoRecord
         /\ IF verb[a] = "claim" THEN Owned(a, {"reserving"}) ELSE Finished

\* Without the right to finish unleased, a finish works under a claim.
FinishesLeased ==
  Unleased \/ \A a \in Agent :
    pc[a] \in {"freeze", "gate", "stamp", "open", "fill", "publish"} =>
      mine[a] # NoClaim

\* A record lies in a lease directory, is written into one, and is gone before
\* its directory goes.
Homed ==
  /\ owner # NoRecord => leaseDir
  /\ \A a \in Agent : /\ pc[a] = "rename" => leaseDir
                      /\ pc[a] = "rmdir" => owner = NoRecord

\* A finish works under this worktree's token, also while it writes a record.
Finishes(a) ==
  \/ pc[a] \in Finishing
  \/ pc[a] = "rename" /\ verb[a] \in {"begin", "stamp", "abort"}
Unknown(c) == \A a \in Agent : token[a] # c /\ (Finishes(a) => mine[a] # c)

\* A new claim reaches no token and no finish before it is on record.
FreshDrafts ==
  \A a \in Agent : pc[a] = "rename" /\ verb[a] \in {"claim", "steal"} =>
    Unknown(out[a].claim)

\* Once the row is done, a claim that is not the one that published it reaches
\* none at all.
LateClaims ==
  Inline \/ Unleased \/
    (canon.done /\ owner # NoRecord /\ owner.state # "completing" =>
       Unknown(owner.claim))

\* A finish flips the row with its journal open and not before; every way back to
\* the lease passes over a worktree whose row is put back.
Unflipped(a) ==
  \/ pc[a] \in {"begin", "freeze", "gate", "stamp", "open", "fill", "abort"}
  \/ pc[a] = "rename" /\ verb[a] \in {"begin", "stamp", "abort"}
  \/ closeout[a] = "claimed"
FlipsInWindow ==
  Inline \/ Unleased \/ \A a \in Agent :
    /\ row[a] /\ ~canon.done =>
         owner # NoRecord /\ owner.state = "completing" /\ owner.wt = a
    /\ Unflipped(a) => ~row[a] \/ canon.done
    /\ pc[a] = "fill" => closeout[a] = "open"

IInv ==
  /\ TypeOK
  /\ LockAgrees
  /\ Homed
  /\ Drafted
  /\ Condemned
  /\ WindowIsFenced
  /\ FinishesLeased
  /\ FreshDrafts
  /\ LateClaims
  /\ FlipsInWindow

-----------------------------------------------------------------------------
(* Liveness.  Commands that keep dying or failing finish nothing.           *)

MishapsStop == <>[][~\E a \in Agent : Mishap(a)]_vars

\* A closeout does not end, nor die, with its publication window open: finish or
\* recover closes it, reconcile removes the lease of a published row, and what
\* stays open is a window under a complete journal, handed over to a ship.
Handed == owner.key /\ closeout[owner.wt] = "none" /\ ~canon.done
WindowCloses ==
  MishapsStop => []<>(owner = NoRecord \/ owner.state # "completing" \/ Handed)

\* A lease whose work is published does not survive it for good.
PublishedLeaseIsCleared == MishapsStop => (canon.done ~> ~leaseDir)
=============================================================================
