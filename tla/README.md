# Formal model of the repo-harness coordination plane

`repo-harness` (this repository) lets many short-lived commands - people, agents, hooks, services - work on
one Git repository at the same time. There is no server: all shared state is files under the Git common
directory and in the worktrees, and every guarantee comes from `mkdir`, `O_EXCL`, `rename`, `unlink` and the
order they are called in. This directory holds TLA+ modules of the parts that carry those guarantees, TLC
configurations that check them on small instances, and proofs of the main theorems that TLAPS checks.

- [1. Inventory](#1-inventory) - the system's parts, their state, what makes them correct
- [2. Plan](#2-plan) - what is done, what comes next
- [3. The modules](#3-the-modules) - how state and actions correspond to the code
- [4. The runs](#4-the-runs) - what each shows, bounds, fairness
- [5. The proofs](#5-the-proofs)
- [6. Where code and comments disagree](#6-where-code-and-comments-disagree)
- [7. Limits](#7-limits)

Paths are relative to the repository root; in `PROJECT.json` they carry the prefix `src/` of the checkout.

## 1. Inventory

### 1.1 Components that carry the coordination logic

| Component | Files | State it keeps | Operations | Correct when |
|---|---|---|---|---|
| Exclusive directory lock | `src/effects/locking/exclusive-directory-lock.ts` | a lock directory with one owner token `<pid>-<time>-<uuid>.json` | acquire (mkdir, identify, publish, check), reclaim a dead owner or an empty directory, assert, release | one process in the section; a live token is removed by its owner only; a dead owner does not block for ever |
| Task lease and sprint verbs | `src/effects/state/coordination-sprint.ts`, `coordination-lease-store.ts`, `coordination-claim-token.ts`, `src/core/state/coordination-identity.ts`, `scripts/sprint-backlog.sh`, `scripts/contract-worktree.sh` | per task: lease directory, `owner.json`, task lock; per worktree: claim token file, the row of the sprint file; the target branch | claim, bind, steal, begin/abort completion, completion gate, complete-task, release, reconcile | every write is fenced by the claim it names; an open publication window is never displaced; a row flips only for its owner |
| Closeout | `scripts/contract-worktree.sh` | ownership claim directory with a nested recovery lane, journal with status and phases, snapshot of the worktree | finish, recover abort, recover reconcile | one process closes a worktree out; a half-done closeout can always be put back or completed, never both |
| Publication lifecycle | `src/effects/publication/publication-lifecycle.ts`, `publication-receipt.ts`, the linked ship of `scripts/ship-worktrees.sh` | the lease in state `reviewing`, ship journal, receipt cache, lineage and integration files; at the provider: pull requests, target branch | prepare and ensure a receipt, enter review, reopen, takeover, abandon, reconcile, resume a release | a review can be found again from what is durable; it ends only on a durable record of its end |
| Lease liveness and reclaim | `coordination-lease-liveness-store.ts`, `coordination-lease-reclaim.ts`, `src/core/state/lease-liveness.ts`, `campaign-recovery.ts` | immutable renewals, `current.json`, generation pointer, eligibility receipts | renew, observe eligibility, automatic reclaim | an owner is reclaimed only on evidence that still holds under the lock |
| Automation controller | `src/effects/automation/controller-run.ts`, `controller-store.ts`, `src/core/automation/controller.ts` | immutable events and transitions, projection `current.json` | step (reserve, acquire, dispatch), stop, reconcile | the events are one history; an effect is neither lost nor repeated behind a run that goes on |
| Budget ledger | `src/effects/automation/budget-store.ts`, `src/core/automation/budget.ts` | reservations with an index, usage events, reconciliations, budgets, stop receipt, projection | reserve, append, reconcile, publish a revision, repair drift | limits hold in every prefix; what is on record decides; no charge is lost or made twice |
| Campaigns, issue batches | `development-campaign-store.ts`, `campaign-step.ts`, `issue-batch-store.ts` | records over the two above | step, admit, dispatch | follow from ledger and controller |
| Effective state and version | `git-state-version-store.ts`, `resolve-effective-state.ts`, `state-cache.ts` | version owner, cache | resolve, publish | versions grow; a cache belongs to a committed version |
| Schema migration, cutover | `sprint-schema-migration.ts`, `coordination-cutover.ts`, `write-journal.ts` | write journal, several files | prepare, apply, recover | all files or none |
| Adoption transactions | `src/effects/fs-transaction.ts` | journal of file operations, per-target locks | apply, roll back | rollback restores what was there |
| Fleet, task inbox | `src/effects/fleet/*` | offers over worktrees, message log | acquire, deliver, acknowledge | an offer ends in at most one claim |
| Engineer scheduling, delegated runs | `src/effects/engineers/scheduling*.ts`, `delegated-run-store.ts`, `agent-runtime-effect-store.ts` | offers, dispatches, effects, bindings, inboxes | schedule, acquire next, dispatch, settle | an effect is dispatched once |

Around them: publication feedback, collaboration records, evidence and checkpoints, process supervisor,
`ship-worktrees.sh`, architecture projection, external sources, operator server and web client, hooks,
review and merge gate, CLI and installer, the repository's own plans and docs. `PROJECT.json` lists every one
with its files and the reason it is or is not modelled.

### 1.2 How they interact

- **The lock is under everything.** Some fifty call sites use `withExclusiveDirectoryLock`, each on its own
  path. They differ in two options: `reclaimStaleEmptyDirectory: true` (backlog lock, budget, issue batch,
  campaign, controller, program, demand, context and runtime-effect stores, scheduling, inboxes, checkpoint
  store, hook log, ...) and `reclaimStaleOwner: false` (`expensive-run-lock.ts`, `delegation-state.ts`,
  `circuit-breaker.ts`). The task lock of the lease plane uses the defaults.
- **The lease is shared by three drivers.** `sprint-backlog.sh start-task` claims and binds it,
  `contract-worktree.sh finish` opens and closes its publication window, the publication lifecycle parks it in
  `reviewing`. All go through verbs that run under one task lock per task; between two verbs of one command
  anything may happen.
- **The closeout spans three stores.** The lease (common directory), the claim and journal (common directory),
  and the worktree's own files and branch. Their order is the whole recovery story.
- **The controller joins ledger, lease and its own chain** without a transaction across them: it reserves, acquires
  under its own receipt, starts an attempt, and appends an event before or after each.
- **A publication joins the lease, the ship journal and the provider**, which moves by itself: somebody merges, closes
  or reopens the pull request and pushes to the target branch while a verb is between two writes.

### 1.3 What is hard

*Interleaving* - contenders that were paused between judging and acting; two recoveries; a verb between two
verbs of another command. *Crashes* - between any two system calls, with the pid possibly reused. *Partial
failure* - `ENOSPC` while a record is written, a copy that stops half way, a rollback that fails too. *Staleness* -
a verdict about another process, a row revision, a base commit or a journal status read outside the lock and
acted on inside. *Liveness* - locks, windows, closeouts that nobody clears. Timeouts exist only as lock deadlines
and are over-approximated. `PROJECT.json` `hazards` lists each one at its line, with the properties that watch it.

## 2. Plan

Done:

1. `LockService`, `DirLock` - the mutex, because everything else assumes it. Proved and refined.
2. `TaskOwnership`, `TaskLease` - the lease plane with its drivers: the core of the system. Proved and refined.
3. `Closeout` - the finish/recover transaction, whose detail `TaskLease` abstracts. Safety proved.
4. `AutomationBudget`, `BudgetLedger` - the ledger's files against the budget it promises. Proved and refined.
5. `Controller` - the loop over ledger, claim and dispatch. Safety proved.
6. `PublishedLease` - the lease from the ship on: review, renewals, reclaim. Safety proved.

Next, in this order:

| # | Module | Composes with | Properties and theorems aimed at |
|---|---|---|---|
| 7 | `Campaign` | `AutomationBudget`, `Controller` | one campaign step at a time over the ledger's retry chain |
| 8 | `StateVersion` | `LockService` | versions monotone, cache of an owned version |
| 9 | `FsTransaction`, `WriteJournal` | per-target locks | all or nothing over crashes and rollbacks that fail |
| 10 | `FleetAcquire`, `Scheduling` | claim of `TaskLease` as `TaskOwnership` | one offer, one claim |
| 11 | `AppendStore` | `LockService` | the pattern shared by inboxes and record stores: gap-free sequence, idempotent append |

Modules to be proved about have their parameters as CONSTANTS with named assumptions, one action per operation and no
RECURSIVE operator.

## 3. The modules

```
LockService  <--implements--  DirLock          DirLockProofs       MCDirLock        + 2 cfg
     |  (the lock of the task or run, taken and given back in one step)
     v
TaskOwnership <--implements-- TaskLease        TaskLeaseProofs     MCTaskLease      + 4 cfg
                                 |             TaskLeaseEffectsProofs
                                 |  (closeout in three values)
                                 v
                              Closeout         CloseoutProofs      MCCloseout       + 3 cfg
                              PublishedLease   PublishedLeaseProofs MCPublishedLease + 1 cfg
                                 (the same lease, from the ship on)
AutomationBudget <--implements-- BudgetLedger  BudgetLedgerProofs  MCBudgetLedger   + 1 cfg
     |  \__ both over BudgetMetrics
     v  (reserve and settle, as the controller sees them)
Controller                                     ControllerProofs    MCController     + 1 cfg
                                               ControllerEffectsProofs
```

Every module keeps its action properties, invariants and liveness properties at the end, and the mutated forms
of its operators (marked `Mutated:`) just before the operator they change; nothing uses those.

### DirLock - `exclusive-directory-lock.ts`, one system call per action

`dir`/`entries`/`blank` are the disk: the directory's identity (device and inode, which the file system may
reuse), the tokens in it, and which of them have no JSON yet. `tok`, `ident` are the handle
(`ownerPath`, `directoryIdentity`); `seenDir`, `seenTok` what a contender observed; `pc` where each process is;
`expired` its deadline; `result` why it is removing its own lock.

| Action | Code |
|---|---|
| `Mkdir`, `Identify`, `Open`, `Write`, `Check` | `acquireExclusiveDirectoryLock`, the creator's half, with `ownsExclusiveToken` |
| `Lstat`, `Readdir`, `Judge`, `Reap`, `RecheckEmpty`, `RmdirReclaimed`, `Wait` | `reclaimStaleLockDirectory`, the retry loop |
| `AssertOwned`, `Release`, `UnlinkOwn`, `RmCheck`, `RmOwn` | the handle's `assertOwned` and `release`, `removeOwnedLock`, `removeUnpublishedLock` |
| `Expire`, `Crash`, `Revive` | the clock; `kill -9` at any point in `CrashPoints`; a pid given out again |

Time is abstract: age tests may go either way, because a process may be paused for longer than
`LOCK_STALE_MS` between any two steps.

### TaskLease - the verbs and their drivers

An agent is a worktree with the one command that runs in it. `leaseDir`, `owner`, `litter` are the lease directory,
its record, and a temp file a dead writer left; `token`, `row` the worktree's token file and sprint row; `canon`,
`based`, `frozen` the row on the target branch, whether the worktree contains its tip, and whether it has moved
since `finish` froze its base; `closeout`, `landed` what `Closeout` refines. A verb takes the task lock, drafts a
record (`out`) and writes it with `Rename`; or condemns the lease and removes it with `Unlink`, `Rmdir`, `DropToken`.

| Actions | Code |
|---|---|
| `StartTask`, `Verify`, `Elect`, `Recheck`, `Bind`, `WriteToken`, `LeaveReserving`, `ResumeBind` | `cmd_start_task`, `rollback_claim`; `claimSprintCommand`, `bindSprintCommand` |
| `StartRelease`, `Release`, `Observe`, `Steal` | `releaseSprintCommand`, `stealSprintCommand` |
| `Finish`, `Begin`, `Freeze`, `Gate`, `Stamp`, `OpenJournal`, `Fill`, `Publish`, `CommitJournal`, `Clear` | `finish_worktree` with the lease wrappers and `beginCompletionSprintCommand`, `completionLeaseGate` |
| `HandOver`, `ShipAborts`, `ShipLands` | the end of `finish --no-merge`; `ship_transaction_abort`; a ship's publication of that branch |
| `GiveUp`, `Restore`, `Abort`, `Recover`, `Reconcile` | `finish_transaction_abort`, `recover_worktree`, `abortCompletionSprintCommand`, `reconcileSprintCommand` |
| `Complete`, `CommitInline` | `completeRowSprintCommand` |
| `Rename`, `RenameFails`, `Unlink`, `Rmdir`, `RmdirFails`, `DropToken`, `AfterWrite`, `AfterFailure` | `writeLeaseOwnerDurably`, `createLeaseDirectory`, `removeLease`, `removeOwnLeaseAfterFailedClaim`, and what each verb does after its write |
| `EditTarget`, `Rebase`, `Crash` | other people's commits, `git rebase`, `kill -9` |

`Inline` selects the row's mode, `Unleased` allows a contract worktree without a token to finish (the code allows
it for rows that were never claimed), `IOFaults` lets record writes fail, before the rename and behind it, when only the sync
of the directory fails: a `begin-completion` that fails so leaves a record that says `completing` and no closeout. A
removal fails where the code's `rmdir` can: on a directory with a dead writer's temp file in it (`litter`).

`finish --no-merge` completes its journal without a publication and leaves the window open (`HandOver`): from then on the
branch is a ship's. Neither `recover` nor `reconcile` closes that window, and an aborted ship puts the worktree back and
leaves the lease as it is; only the publication of the branch, or another finish, ends it. `WindowCloses` names that
state (`Handed`) and speaks of every other.

`TaskOwnership` is what the plane promises: a task is free or owned by one claim; a window opens, closes or is
settled by publication; nobody leaves an open window.

### Closeout - `contract-worktree.sh`, one file operation per action

`claim` is `claims/finish/<key>.lock`: the recorded owner, whether it names a journal (`key`), and the owner of the
nested `recovery.lock` (`lane`). `journal` has the status, the phases that later decisions read and the snapshot.
`work` is the worktree: original, half changed, final - or `lost`, when an undo did not put everything back: a copy of
the undo failed, or what it copied was partial.
`lease` is what the closeout sees of `TaskLease`.

| Actions | Code |
|---|---|
| `Finish`, `Acquire`, `WriteOwner` | `closeout_journal_guard_reentry`, `closeout_claim_acquire` |
| `Begin`, `BindJournal`, `Stamp`, `OpenJournal` | lease wrappers, `closeout_claim_bind_journal`, `closeout_journal_begin` |
| `Snapshot`, `Prepare`, `Implement`, `Lifecycle`, `Publish`, `Merge`, `Acknowledge`, `Complete`, `Purge`, `Release` | `finish_transaction_begin`, `finish_worktree`, `finish_transaction_commit`, `closeout_claim_release` |
| `Restore`, `Rewrite`, `AbortLease`, `RecordAborted` | `finish_transaction_abort` and its trap |
| `RecoverOrphan`, `RecoverAbort`, `RecoverReconcile`, `Judge`, `ClearLane`, `TakeLane`, `OwnLane`, `Check`, `DropJournal` | `recover_worktree`, `closeout_claim_takeover_for_recovery`, `closeout_claim_abort_orphan` |
| `Fail`, `Crash` | a step that fails runs the trap set at that point; `kill -9` runs none |
| `Displaced`, `Settled`, `RolledBack`, `Repaired` | `sprint steal`, `sprint reconcile`, `ship_transaction_abort`; a hand that repairs what was lost |

An undo runs with the shell's errexit switched off by its callers (`finish_transaction_abort || status=1`, `:1248`;
`closeout_journal_restore_snapshot ... || {`, `:1397`), so that a copy that fails is ignored: `Rewrite` may always lose
the worktree and go on to `RecordAborted`. The reset of the branch in a recovery and the last record are checked, and
fail in `Fail`.

A recovery reads the journal, probes the owner and takes the lane in separate steps, and looks at the journal again only
where the code does (`Check`). `Overlap` = FALSE restricts the environment and not the script: one recovery runs at a time,
not in the moment a finish is being elected, and nobody else moves between what it read and its probe (`Moves`). With TRUE
all of that may happen, and `closeout_overlap` shows what comes of it. `EarlyFaults` lets the snapshot itself fail.

### BudgetLedger - `budget-store.ts`, one file write per action

`res`, `index`, `evt`, `decided`, `budgets`, `receipt` are the create-once files of one run: reservations and the
index by digest, usage events, reconciliations, revisions, the stop receipt. `ledger` is the fold of the events
(`foldAutomationLedger`), `cur` is `current.json`. `lock`, `phase`, `job` are the verb that holds the run's lock and
where it is, `want` what each process asked for, `now` the store clock.

| Actions | Code |
|---|---|
| `Request`, `Take`, `Done`, `Die`, `Tick` | the call, `withAutomationBudgetLock`, the return, `kill -9`, the clock |
| `Agree`, `Refuse`, `Repair`, `RepairReturns` | `lockedStatus`, `detectAutomationCurrentDrift`, `repairCurrentFromDurableRecords` |
| `Seal`, `Adopt` | `persistStopReceipt`: the receipt, then the projection |
| `Index`, `Count`, `List`, `Exceed`, `ReserveReturns` | `reserveAutomationBudgetAdmission`, `evaluateAutomationReservation` |
| `Observe`, `Decide`, `ChargeDecided`, `WriteEvent`, `Fold`, `SettleReturns` | `appendAutomationUsage`, `reconcileAutomationReservation`, `publishUsageCommit` |
| `Mint`, `Revise`, `ReviseReturns` | `publishAutomationBudget` |

`BudgetMetrics` has the vectors (`Plus`, `AtMost`, `Reserved`, `Charge`, `Streak`) of `core/automation/budget.ts`;
`AutomationBudget` is the promise: one operation at a time, admitted only if all it may cost fits, charged at most
that, never revised in flight, nothing after the stop.

### Controller - `controller-run.ts` over `controller-store.ts`

`chain` is the history `current.json` projects; `ahead` the event files that were made durable and never folded, each
with or without its transition file. `proc` is each call: where it is (`pc`), its idempotency key, the chain length of
the projection it holds (`cur`), its dispatch id and the last answer. `budget`, `held`, `usage` are what a run
sees of the ledger; `receipt`/`claims`, `attempt`, `launch` the stores of acquire-next, attempts and delegated runs.

| Actions | Code |
|---|---|
| `Step`, `Stop`, `Reconcile` | the entry of `stepAutomationController`, `stopAutomationController`, `reconcileAutomationController`: the projection is read without the lock |
| `Publish` with `Named`, `Rebuilds`, `NothingUnfolded`, `Extends`, `Repeat`, `Extend` | `appendLocked`, `assertNoUnfoldedEvent` |
| `Observe` ... `Transient` | the acquisition half of `stepAutomationController`, `acquireNextScheduledEngineerTask` |
| `ReadAuthority` ... `DispatchObserved` | the dispatch half, `recordTaskAutomationAttemptStart/Outcome`, `dispatchDelegatedRun` |
| `Reserve`, `Charge` | the ledger's verbs, as `BudgetLedger` models them |
| `Die` | `kill -9` between any two stores |

An append is one step with the prefixes a death leaves (the lock is held over it); a repeated name must rebuild the
stored event with its time stamp, which a repeat may or may not do (`Repeat`). `Reserve` may end at `refused` whatever the
ledger holds, since the step turns every error of the budget store into `require_reconciliation`; a settlement is
repeated under another outcome if both cost the same (`Consumed`).

### PublishedLease - from the ship to the end of the review

`lease` is the owner record with the publication it names; `doing` the verb that holds the task lock between two of
its writes. `ship`/`run` are the ship journal and its process; `cache`, `lineage`, `integrated` the receipts,
abandonments and integrations on disk; `watch` what a reconciler read without the lock. `trunk`, `pushed`, `prs` are
the provider, `local` the local target branch. `renewed`, `folded`, `pointer` are the three files of a renewal,
`acked` what the owner was told, `lapsed`/`quiet` expiry and evidence, `receipts` the reclaim receipts issued.

| Actions | Code |
|---|---|
| `BareFinish` | `finish` without a ship: it opens the window, leaves it open, or its rollback closes it |
| `Finish`, `Push`, `Prepare`, `CreatePR`, `Ensure`, `Mark`, `Observed`, `EnterReviewing`, `CompleteShip`, `AbortShip`, `ShipDies` | `ship_linked_pr` and its phases, `preparePublicationReceipt`, `ensurePublicationReceipt`, `enterPublicationReviewingWithProof`, `recover_ship` |
| `Reopen`, `Takeover`, `Abandon`, `AbandonReleases`, `ResumeRelease` | the verbs of `publication-lifecycle.ts` |
| `ReconcileReads`, `ReconcileFetches`, `ReconcileProves`, `ReconcileFails` | `reconcilePublication`: two readings outside the lock, the proof inside |
| `Acquire`, `Bind`, `Release`, `Steal`, `Clear`, `Remove`, `HolderDies` | the lease verbs of `TaskLease`, each in one step; a removal is two |
| `Renew`, `Fold`, `Point`, `Tell`, `Lapse`, `Evidence`, `ObserveEligibility`, `Reclaim` | `renewLeaseLiveness`, `classifyLeaseReclaim`, `observeCampaignReclaimEligibility`, `automaticReclaimLease` |
| `Merge`, `Land`, `Close`, `ReopenPR`, `Pull`, `Commit` | the provider and git, which nobody schedules |

What is folded together: generation, branch and ship key follow from the claim, which is fresh; the task revision
is not modelled; finish and its gate are one step (their detail is `TaskLease` and `Closeout`); `base_sha` is the
target's live tip; renewals of an owner lapse in their order, because workers renew for the time the policy
grants and read the clock under the lock; the verbs are called in the worktree with the seal; evidence of inactivity that comes back
counts as the same revision, which allows more than the code does.

## 4. The runs

| Run | Instance | What it shows |
|---|---|---|
| `lock_safety` | 3 processes, 2 tokens each, 2 inodes; crash anywhere, I/O faults, pid reuse, both reclaims | mutual exclusion, only the owner unlinks a token it relies on, and the refinement of `LockService`, all at once |
| `lock_live` | 2 processes, default options, I/O faults, deaths anywhere but with an empty directory in hand; fairness | what is left when all are quiet can be acquired, dead owners are reclaimed, also from a half-written token, and acquisitions return |
| `lease_contract` | 2 worktrees with and without tokens, 3 claims, 2 revisions, contract row, deaths inside record writes too | the safety properties of the lease |
| `lease_inline` | inline row, failing writes, deaths anywhere but in a write or a removal | a completion completes or puts its row back and keeps its token; no lease directory without a record remains |
| `lease_atomic` | inline row, failing writes and temp files of dead writers | violation: see section 6 |
| `lease_window` | 1 revision; deaths where a recovery can resume; fairness | the refinement of `TaskOwnership`; a window that is not handed over closes and a published lease is cleared, once mishaps stop |
| `closeout_serial` | 3 processes, no overlap, crash anywhere, failing steps, failing undos; fairness | all safety of the closeout, and that it ends |
| `closeout_lossy` | 3 processes, no deaths; a snapshot may fail half way too | violation: see section 6 |
| `closeout_overlap` | 2 processes, deaths in the middle of a transaction, overlapping recoveries | violation: see section 6 |
| `budget_safety` | 2 processes, 2 operations, 2 revisions, 2 deadlines, crash between any two writes | the records determine the projection, decisions are taken on the truth and kept, limits hold, and the refinement of `AutomationBudget` |
| `controller_safety` | 2 processes, 2 step keys, 1 operator key, 2 delegated runs a claim, 8 events | one history; effects recorded, dispatched once, covered by a reservation, acquired only when announced |
| `publication` | 2 claims, 1 reconciler, 2 commits, target tips, pull requests and renewals | a review is backed by durable files and ends only on record; a renewal protects its owner |

**Bounds.** Three processes in the lock: an owner, a dead or late one, and a contender acting on an old
observation; two token slots and two inodes are enough for a process to meet its own earlier token and for an inode
to be reused under a stale identity. Two worktrees and three claims in the lease: the claim displaced, the claim
that displaces it, and one more after that; a third worktree would only repeat the second, as `TaskLeaseProofs`
confirms for the safety properties. Two revisions: claimed and edited (in the runs with one revision the edit
does not matter to what is asked); `lease_window` has one to fit the fairness checks, its refinement being a theorem. Three processes in the closeout: a finish, a recovery and a second recovery or
a new finish. Claim ids are the only resource of these that can run out, and a claim needs a fresh one.
The ledger has two keys, so that one operation can be settled and another in flight; limits that admit one
retry under the first revision and one more under the second, so that both the limit and the streak are reached; and
a deadline for each revision (`MaxClock` is past both). The controller's `MaxEvents` = 8 is one full
acquire-dispatch-observe round and the beginning of a second one under another key; `Torn` names the operations whose
append a death may cut short, those that leave the run going (after the others nothing can follow whether or not the
event was folded); two keys step and another one stops, which is what the code asks of its callers. In
`publication` the CONSTRAINT `Focus` explores any two of a displaced claim, a second commit, a second pull request, a
moved target branch and a reconciler at work, not all at once, and renewals on top of one less; larger instances take longer
than a routine run should. The deadlock check is off everywhere because the programs may stop for good:
no command has to be started.

**Symmetry** is used only in runs without liveness, over processes, slots, inodes, worktrees, claims, keys and delegated runs.
`lease_window` instead takes the least fresh claim id (`LeastFresh`), which loses no behaviour up to renaming.

**Fairness.**
- `DirLock`: weak fairness of each process's own steps but for its work under the lock, which may take for ever
  (`Runs`), of its deadline and of its starting again; strong fairness of condemning an unreadable token, which gets old
  (`Condemns`, `:371-373`). Each is a statement about the scheduler and the clock; lock users are invoked again and again.
- `TaskLease`: strong fairness of a started command, since a waiting verb polls a lock that others hold for a
  bounded time, and of an operator's `recover` and `reconcile`. The liveness properties are conditional on
  `MishapsStop`: processes that are killed or fail for ever finish nothing.
- `Closeout`: strong fairness of each process's step, which a probing recovery holds up again and again when nobody
  overlaps (`Moves`), weak fairness of the settling of a published lease, strong fairness of
  each kind of recovery: an operator tries what `recover` offers, although a finish may hold the claim for
  a while. `CloseoutEnds` excepts the claims of `Stuck`, below.
- `BudgetLedger`, `Controller`, `PublishedLease` state no fairness: their verbs are commands that a caller may never
  repeat, and what they leave behind is judged by safety properties.

## 5. The proofs

All theorems hold for every value of the constants that satisfies the module's named assumption - types and
disjointness only, and finitely many keys for the ledger - and, where one is stated, a theorem's own hypothesis on the
constants that switch faults and modes.

**DirLockProofs.** `TypeCorrect`, `Mutex`, `OwnerUnlinks`, `Refinement`, `Quiescent`. Mutual exclusion is not inductive: the
danger is a contender that judged an owner dead, slept, and unlinks afterwards, or one that removes a directory that
has meanwhile become another's. The invariant `IInv` has two ideas. *Pinning* (`TokPinned`): the
token of a process that relies on it is on disk, under that process's pid, until the process unlinks it itself; a
directory with a token in it cannot be removed. *No live reap* (`NoLiveReap`): a contender that is about to unlink a
token names one that no process relies on, and since names are never used twice a pause cannot make that false. Two
processes in the section would both have found their own token alone in the directory, and both tokens would still
be in it. Pid reuse does not break it: a reused pid gets new tokens.
`Quiescent` needs a second invariant, `Kempt`: without the opt-in for empty directories the path has one keeper at a
time - from the `mkdir` to the `rmdir` its creator, from the unlink of a dead owner's token to the `rmdir` the contender
that reaped it - and what a keeper has on disk is its token alone, or an empty directory. When nobody keeps it, there
is no directory, or one with a dead owner's token alone in it. Its hypotheses are the conditions of `lock_live`
(dead owners are reclaimed, no opt-in, no pid reuse, no death with an empty directory in hand); section 7 says what
happens without them.

**TaskLeaseProofs.** `Invariant`, `TypeCorrect`, `Fencing`, `Fenced`, `WindowHolds`, `Refinement`. `WindowIsFenced`
needs that every write is a compare-and-swap although the check and the write are several steps apart. The invariant
says what each verb in progress knows: `LockAgrees` (a verb in progress holds the task lock), `Drafted` (what
the drafting verb saw of the record is still so when it renames), `Condemned` (what is being removed was the
remover's or is finished), `Homed` (records live in lease directories). `FinishesLeased`, `FreshDrafts` and
`LateClaims` carry the refinement: once the row is done, a claim that did not publish it is known to no token and no
finish, hence cannot open a window on a published task. `FlipsInWindow` says that a worktree whose row is flipped and not
yet done has its own window open, also after it handed the branch over to a ship: so the publication of a ship, which
has no gate of its own in the model, is one inside the owner's window. The step proof goes agent by agent: `TracedStep`
describes every action by what it changes, `OthersKept` shows that the record, seen from another agent, is
disturbed only under the lock, `SelfKept` treats the acting agent. `Refinement` is for contract rows whose
worktrees hold tokens (`~Inline`, `~Unleased`); outside it the promise is not made: an unleased finish
publishes without owning, and an inline commit is outside the plane's control.

**TaskLeaseEffectsProofs.** `OneWorktreePerClaim`, `PublishesItsOwn`, `LeavesNoResidue`, `CompletesWhole`, over the
invariant above and `EInv`. `TokenOK`: a token is written from a bound record in the worktree it names, every
write that keeps the claim keeps its worktree, and a new claim is in no token. `CourseOK`: a finish has its closeout from
start to end, and a worktree that contains the tip with a done row in it has its own row flipped and no closeout, so
it cannot start one; hence the row was pending when the base was frozen, and while it stays frozen the row and its
revision are what `begin-completion` compared with the record. Together with `WindowIsFenced` that is `OwnerPublishes`,
with every death and failing write. `RowOK` and `Residue` are about the directory: who is still making or removing it.
`LeavesNoResidue` asks for no death at `rename` and `rmdir` (as `lease_inline` does) and allows failing writes.
`CompletesWhole` asks for nothing: with every failing write, failing removal and death, an inline completion either changes
row, lease and token, or puts the row back, keeps the token, and leaves in the lease directory its own claim or no record.

**CloseoutProofs.** `TypeCorrect`, `UnfinishedHasClaim`, `LandedStays`, `HalfDoneIsRestorable`, `AbortsAreSettled`. The
claim has one holder: the process that makes it, the owner it names, or the one recovery of an owner that is gone
(`Alone`, `Holds`, with `Cast` for what each was started for). So what a holder has read of the
journal, the worktree and the target is still so at its next step (`Known`), and a process that is killed leaves what
the disk says by itself (`Disk`): a journal in progress under a claim, a landed publication over the final worktree.
`Content` adds what can be put back and where (`Undoes`). All but the types are under `~Overlap`, `HalfDoneIsRestorable`
under `~EarlyFaults` too. Those are the conditions of `closeout_serial` and not of the proof: with `Overlap` the
code lets two processes hold one claim, with `EarlyFaults` it restores a partial snapshot (section 6). Under `~Overlap` the
one owner is close to what is assumed, so `OneOwner` is checked and not listed as a theorem. What the theorems say of an
undo is what is left when its copies may fail: the snapshot outlives it until it is over, and an abort is not recorded
with the window open or the publication landed. That the worktree is as it was is not among it.

**BudgetLedgerProofs.** `TypeCorrect`, `RecordsSuffice`, `TruthBeforeDecision`, `DecisionIsKept`, `LimitsHold`,
`LedgerImplementsBudget`, for any processes, keys, revisions and limits that satisfy `LedgerAssumption` (finitely many
keys; limits are vectors; deadlines are positive). The projection may be behind the records after a death (`Behind`),
never ahead of them; a verb that has passed the locked status works on a projection equal to the records (`InStep`), and
what it decides there still holds when it writes, because it has the lock (`InHand`). `FilesAgree` and `LedgerAgrees`
say that the records are consistent among themselves, so that the next repair always succeeds. The refinement maps the
held operation to the one open reservation, the spent vector to the fold of the events and the stop to the
receipt; a death maps to a stutter.

**ControllerProofs.** `TypeCorrect`, `HistoryIsOne`, `ClaimDispatchedOnce`, `CoveredLaunch`, from
`ControllerAssumption` (`Nothing` is none of the values it stands beside). Everything a call knows it read without
the lock. The invariant says what it knows *as long as the chain has the length it read* (`Ready`): once the chain has
grown the compare and swap fails and nothing needs to be true. A `begin_dispatch` therefore stands directly behind
the `acquired` of its claim (`Behind`), an `acquired` event is one per key because its name is (`SameName`), and two
launches of one claim have the same event. The unfolded event is part of the invariant (`Unfolded`): it fits the
chain as it is, and blocks every other until it is folded.

**ControllerEffectsProofs.** `EffectsRecorded`, `ClaimsAreSerial`, `AcquiresAnnounced`. Two calls change something outside
the run's store: `acquire-next` takes a task, the dispatch launches a run. Each comes directly behind the event
that announces it (`Placed`: a call at that point has the announcement at the head of the chain it read) and is answered
once and for all under its key (`Told`). Until there is an answer nobody but the call that asked can append the event
that goes on; the others find the run at the announcement and can only hand it to an operator or stop it
(`Announces`, `Dispatches`). So a task that is taken, or a run that is launched, has its event, or the run still stands
where that is to be seen (`Claimed`, `Ran`); a second claim needs a chain that has observed the first one's outcome
(`OneOpen`), and one that never asked to stop (`StopIsFinal`).

**PublishedLeaseProofs.** `TypeCorrect`, `ReviewBacked`, `ReviewEndIsRecorded`, `RenewalIsHeld`, for any claims,
reconcilers and bounds that satisfy `PublishedLeaseAssumption`; the run explores only what `Focus` admits, the theorems
everything. A ship knows more than its journal says, and its retry knows only the journal: `Journalled` says for
each place of the process (`Where`) which receipt is already cached. `Window` ties a lease in review to the journal and
the marker; it is inductive because each ship writes the journal and the marker of its own claim before that claim
is in review. `Recorded` says what the verb that holds the lock has written before it removes the lease, and that an
observation stays true while the target grows. `Pointed`: the generation pointer names no renewal before the one its
owner was last told of, also between the writes of a later renewal and between its last write and the answer
(`Answered`), and renewals lapse in order (`Orderly`), so that the lapse a receipt is about is one of all the owner
was told of.

**Only model-checked**: the liveness properties, `DeadOwnerIsReclaimed` and `AcquisitionReturns` of the lock,
`WindowCloses` and `PublishedLeaseIsCleared` of the lease, `CloseoutEnds` of the closeout, since liveness under
fairness and ENABLED are beyond the prover; and `OneOwner` of the closeout. Every other safety property that a passing run
checks is a theorem. Induction over
data is beyond the prover too: in `Controller` the count of consecutive failures is therefore a cardinality and not the
recursion that the code folds.

## 6. Where code and comments disagree

Three runs must end in a violation; each checks what a comment or a message of the code says.

**`closeout_lossy`** (`contract-worktree.sh:1210`, `AbortRestores`). A `cp -Rp` that fails in an undo, at 1210 in the exit
trap or at 1134 in a recovery, comes after the `rm -rf` of the original and is ignored, because both callers switch
errexit off (1248, 1397). The journal is recorded as `aborted`, the snapshot is removed, and line 1226 prints that
everything was restored. The same comes of a copy that fails in the snapshot, since its exit trap is set before
the copies are complete (1182). The passing run has the first failure and leaves the second out by name
(`EarlyFaults`); `Restorable` and `AbortSettles` are what holds beside the first.

**`closeout_overlap`** (`contract-worktree.sh:905`, `PreparedIsKept`). The orphan path reads the journal's status at 905 and
takes the claim over at 907 without a second look; a finish that prepares its journal and dies in between loses it at
913 with the only snapshot, against the comment at 894-896. The passing run leaves it out by name (`Overlap`).

**`lease_atomic`** (`coordination-sprint.ts:780`, `AllOrNothing`). Lines 672-678 and 773-776 say that row, lease and token
change together or not at all. When the sync behind the rename of the record fails, or the `rmdir` meets a dead writer's
temp file, only the row is put back: the record stays `released`, or is gone. `CompletesOrRestores` is what holds.

Two more are known and have no run of their own; each shows when the named constant of a passing run is changed:

1. `coordination-lease-store.ts:363`: `removeLease` unlinks the record, then removes the directory. A command that dies
   between the two leaves a lease directory without a record, which `readLease` reports as `unknown`; `reconcile` does not
   clear it and no claim gets past it. The comment at `coordination-sprint.ts:941-943` calls the window "a named
   state a later `reconcile` can clear". (`lease_inline` with `CrashPoints <- EveryPoint`: `NoAmbiguousResidue` fails.)
2. `contract-worktree.sh:839`: a claim directory without an owner record counts as one whose owner is dead, so a
   `recover abort` between the `mkdir` and the record of a live finish takes the claim from it, and a second recovery
   removes a lane that is not signed yet (:841-847). The comment at 831-832 promises that a recovery "first proves the
   recorded closeout owner is gone". (`closeout_serial` with `Overlap = TRUE`: `OneOwner` fails.)

## 7. Limits

**Facts the runs are conditional on**, each found by removing the condition:
- `QuiescentIsAcquirable` fails with `ReclaimEmpty`: a creator paused past `LOCK_STALE_MS` can leave its token under
  its own live pid in a directory that another made. With deaths between `mkdir` and the token it fails without
  `ReclaimEmpty`, which is why callers opt in.
- `WindowCloses` excepts `Handed`: a window that `finish --no-merge` left to a ship stays open when that ship is aborted
  or never started, until another finish or a publication.
- `CloseoutEnds` excepts `Stuck`: the lease was displaced while the closeout was claimed; the owner record was
  never written while a lease is held, so that the recovery does not know the target ref; a death between the final
  status and the release of the claim; a journal in progress with nothing to put back. An operator has to remove those claims by hand.
- `UnfinishedIsClaimed` is about journals with something to put back: when the last record of an undo fails and the
  trap goes on, a journal stays in progress without claim and snapshot, and blocks the next `finish`.
- A lease lost between the ownership claim and its recovery leaves the closeout claim behind for the same reason.

**What the controller leaves to an operator**, each a behaviour of the model:
- `controller-run.ts:213` appends `no_offer` from the state `acquiring`, which `TRANSITIONS` (`controller.ts:185`) does
  not allow: the append throws, the run stays `acquiring`, and the next step asks for reconciliation.
- A death between the event file and the projection blocks the run: a repeat of the same key has a new
  `observed_at` and is a conflict, any other key meets `assertNoUnfoldedEvent`. The message of
  `controller-store.ts:62` asks for an exact replay, which only a caller that kept its clock reading can give (the
  test does: `issue-279-automation-controller-store.test.ts:54`).
- A process that dies inside `atomic()` leaves its temporary file in `events/`, a directory all runs share, and
  `assertNoUnfoldedEvent` (`controller-store.ts:59`) refuses every later append at it. The model has no such file: a
  run whose calls all end at their next append is one whose processes die there (`Die`).
- A second step under another key finds the reservation of the first one open and sends the run to
  `reconciliation_required`; a stop from `executing` ends `stopped`, and an exhausted budget ends `budget_exhausted`,
  with a launch that nobody reported back. `EffectsAreRecorded` names exactly these states.
- The default budget dependencies cannot start a run: the controller's run id is `sha256:...`, the ledger's
  `assertRunId` takes bare hexadecimal.

**What the ledger does not promise.** A reconciliation record has no outcome, so that a repeat after a death may charge
another one (`DecisionBinds` is about the resolution). A single request that does not fit seals the whole run
(`Exceed`). `append`, `reconcile` and `publish` sample the clock before they wait for the lock, so that a verb that
was overtaken is refused as a clock regression and has to be repeated.

**What a publication leaves to an operator.** `reopen`, `takeover` and `abandon` need the target where the receipt has
it, so a target that moves on leaves `reconcile` only, and a pull request that is then closed without a merge
leaves none; the target moving between the seal and `ensure` wedges a ship that has pushed; a pull request
reopened before the journal of its ship is complete leaves that journal in progress until another bare finish; an
abandonment that dies after its `released` record is finished by sprint `reconcile` or `steal`, not by its own
repeat, and a lineage may then stand beside a later integration if the pull request is reopened and merged; a renewal
that was not folded needs an exact replay while its callers pass a new clock reading; a temporary file that a death
leaves in `renewals/` makes the store refuse every later renewal (`coordination-lease-liveness-store.ts:40`), and that owner
behaves as one that does not renew.

**Abstractions.** The task lock is one step to take and one to give back, justified by `DirLock`'s refinement; its
timeout, which makes a verb fail before it does anything, is a verb that is never started. Claim ids are a
finite set in TLC and any set in the proofs. `unlink` failing other than by absence, pid reuse in the closeout,
journals of earlier versions without `publication_prepared`, and two journals with different keys for one worktree
are left out, and so is a status file that is cut short while errexit is off. So are session ids and bind receipts of
`TaskLease`, whose `reviewing` state is in `PublishedLease`. In `Controller` the start of a run with its Engineer pointer, the checks of principal and
binding, and the renewal at acquisition are left out; in `BudgetLedger` the first publication, campaigns with their
retry chain, token and cost limits and the reader without the lock; in `PublishedLease` the migration of journals from
before the review state (a no-op from every state the present code makes), the loss of the receipt cache, and the
seal's checks beyond head and base, which only make the code stricter; there a push and the record of its phase are one
step, since a retry judges the push by the remote, and an owner is told of its renewal before the task lock is let go. File contents, digests, formats and messages
are abstracted to what the properties tell apart.

**Not modelled**: the components of section 1.1 from the campaigns on, and those named below the table. They are
the larger part of the repository by lines - servers, web client, review programs, installer, templates,
stores that repeat the append-only pattern - and carry little of the control the guarantees above rest on. The
hazards of two of them, the state version and the adoption transactions, are listed in `PROJECT.json` with no property yet.
