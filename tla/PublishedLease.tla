--------------------------- MODULE PublishedLease ---------------------------
(***************************************************************************)
(* A task's lease from the moment its work is shipped: the ship that opens *)
(* a pull request and puts the lease in review, the verbs that reopen,     *)
(* take over, abandon or reconcile the review, and the renewals that keep  *)
(* an owner from being reclaimed.  The provider (pull requests, target     *)
(* branch) moves by itself.                                                *)
(*                                                                         *)
(* Every verb runs under the task lock.  One that writes once is a step;   *)
(* one that writes several times keeps the lock in `doing' and may die     *)
(* between its writes.  A ship is a journal of durable phases and what its *)
(* process knows in between; a retry takes up the journal.  A claim is a   *)
(* fresh uuid that works in a worktree and on a branch of its own, so the  *)
(* generation, the branch and the ship key follow from it.                 *)
(***************************************************************************)
EXTENDS Naturals, Sequences, FiniteSets

CONSTANTS
  Claim,       \* fencing tokens
  Reconciler,  \* processes that reconcile a publication
  MaxHead,     \* bound: commits of a branch
  MaxTip,      \* bound: commits of the target branch
  MaxPR,       \* bound: pull requests
  MaxRenewal,  \* bound: renewals of a claim
  None         \* no lease, publication, journal or observation

VARIABLES
  lease,       \* [claim, state, pub]: the owner record
  doing,       \* the verb that holds the task lock between two of its writes
  head,        \* HEAD of each claim's worktree; 0: no such claim yet
  ship,        \* journal of each worktree's ship: [head, base, phase, intent, receipt]
  run,         \* [at, receipt]: how far the process of that ship is
  cache,       \* cached publication receipts
  lineage,     \* publications with an abandonment lineage
  integrated,  \* [pub, oid]: persisted integration observations
  watch,       \* [pub, commit, oid]: what each reconciler observed without the lock
  trunk,       \* what each commit of the provider's target branch contains
  local,       \* the commit the local target branch is at
  pushed,      \* head of each branch at the provider
  prs,         \* [claim, state, head, marker, commit]: pull requests
  renewed,     \* renewal files of each claim
  folded,      \* renewal that current.json of each claim projects
  pointer,     \* <<claim, renewal>> of current-generation.json
  acked,       \* renewal each owner was last told of
  lapsed,      \* <<claim, renewal>>: past its expiry
  quiet,       \* claims whose work is proved to be over
  receipts     \* <<claim, renewal>>: reclaim receipts issued

reviewVars == <<cache, lineage, integrated>>
shipVars == <<ship, run>>
provider == <<trunk, pushed, prs>>
liveness == <<renewed, folded, pointer, acked, lapsed, quiet, receipts>>
vars == <<lease, doing, head, shipVars, reviewVars, watch, provider, local, liveness>>

\* A publication receipt.  Its id leaves out the base and the pull request.
Receipt == [claim : Claim, head : 1..MaxHead, base : 1..MaxTip, pr : 1..MaxPR]
Id(r) == <<r.claim, r.head>>
Branch(c, h) == {c} \X (1..h)

Init ==
  /\ lease = None /\ doing = None
  /\ head = [c \in Claim |-> 0]
  /\ ship = [c \in Claim |-> None]
  /\ run = [c \in Claim |-> None]
  /\ cache = {} /\ lineage = {} /\ integrated = {}
  /\ watch = [r \in Reconciler |-> None]
  /\ trunk = <<{}>> /\ local = 1
  /\ pushed = [c \in Claim |-> 0] /\ prs = <<>>
  /\ renewed = [c \in Claim |-> 0] /\ folded = [c \in Claim |-> 0]
  /\ pointer = None
  /\ acked = [c \in Claim |-> 0] /\ lapsed = {} /\ quiet = {} /\ receipts = {}

-----------------------------------------------------------------------------
(* Helpers.                                                                *)

States == {"reserving", "bound", "completing", "reviewing", "released"}

\* None is nothing that a variable may hold in its place.
ASSUME PublishedLeaseAssumption ==
  /\ MaxHead \in Nat \ {0} /\ MaxTip \in Nat \ {0} /\ MaxPR \in Nat /\ MaxRenewal \in Nat
  /\ None \notin Receipt
  /\ None \notin [claim : Claim, state : States, pub : Receipt \cup {None}]
  /\ None \notin [head : 1..MaxHead, base : 1..MaxTip, intent : BOOLEAN,
                  phase : {"sealed", "pushed", "observed", "complete"},
                  receipt : Receipt \cup {None}]
  /\ None \notin {"remove", "release", "fold", "point", "tell"}

Free == doing = None
Fresh(c) == head[c] = 0
Owns(c, states) == lease # None /\ lease.claim = c /\ lease.state \in states
Reviewing == lease # None /\ lease.state = "reviewing"

\* The owner record of a new claim, which starts on a branch of its own.
Mint(c) ==
  /\ Fresh(c)
  /\ lease' = [claim |-> c, state |-> "reserving", pub |-> None]
  /\ head' = [head EXCEPT ![c] = 1]

\* Mutated: the publication is not cleared.
MoveToKeepsPub(state) == lease' = [lease EXCEPT !.state = state]

MoveTo(state) == lease' = [lease EXCEPT !.state = state, !.pub = None]

\* The row reads [x] at a commit of the target branch that contains any head
\* of the task: a finish flips it on the branch.
Tip == Len(trunk)
Completed(oid) == trunk[oid] # {}
OpenPRs(c) == {n \in DOMAIN prs : prs[n].claim = c /\ prs[n].state = "OPEN"}

\* writePublicationReceiptCache: one receipt for each publication id.
Cacheable(r) == \A q \in cache : Id(q) = Id(r) => q = r

\* rebuildPublicationReceipt: the marker is on the pull request and the
\* provider's facts are still the receipt's.
Live(r) ==
  /\ prs[r.pr].marker = r
  /\ prs[r.pr].head = r.head
  /\ Tip = r.base
  /\ Cacheable(r)

-----------------------------------------------------------------------------
(* The lease before and between publications.                              *)

Acquire(c) ==
  /\ Free /\ lease = None
  /\ ~Completed(local)
  /\ Mint(c)
  /\ UNCHANGED <<doing, shipVars, reviewVars, watch, provider, local, liveness>>

Bind ==
  /\ Free /\ lease # None /\ lease.state = "reserving"
  /\ MoveTo("bound")
  /\ UNCHANGED <<doing, head, shipVars, reviewVars, watch, provider, local, liveness>>

\* A commit in the worktree, whatever verb holds the lease open.
Commit(c) ==
  /\ Owns(c, {"bound", "completing", "reviewing"})
  /\ head[c] < MaxHead
  /\ head' = [head EXCEPT ![c] = @ + 1]
  /\ UNCHANGED <<lease, doing, shipVars, reviewVars, watch, provider, local, liveness>>

Release ==
  /\ Free /\ lease # None /\ lease.state \in {"reserving", "bound"}
  /\ MoveTo("released")
  /\ doing' = "remove"
  /\ UNCHANGED <<head, shipVars, reviewVars, watch, provider, local, liveness>>

\* stealLeaseRecord refuses while a publication window is open.
Steal(c) ==
  /\ Free /\ lease # None /\ lease.state \in {"reserving", "bound", "released"}
  /\ Mint(c)
  /\ UNCHANGED <<doing, shipVars, reviewVars, watch, provider, local, liveness>>

\* sprint reconcile: a released record, or one whose row is completed.
Clear ==
  /\ Free /\ lease # None /\ lease.state # "reviewing"
  /\ lease.state = "released" \/ Completed(local)
  /\ lease' = None
  /\ UNCHANGED <<doing, head, shipVars, reviewVars, watch, provider, local, liveness>>

\* removeLease, the last write of the verb that holds the lock.
Remove ==
  /\ doing = "remove"
  /\ lease' = None /\ doing' = None
  /\ UNCHANGED <<head, shipVars, reviewVars, watch, provider, local, liveness>>

HolderDies ==
  /\ doing # None
  /\ doing' = None
  /\ UNCHANGED <<lease, head, shipVars, reviewVars, watch, provider, local, liveness>>

-----------------------------------------------------------------------------
(* The ship of a worktree.                                                 *)

InProgress(c) == ship[c] # None /\ ship[c].phase # "complete"
At(c, point) == InProgress(c) /\ run[c] # None /\ run[c].at = point
Advance(c, point) == run' = [run EXCEPT ![c].at = point]

\* finish and the merge gate: the window opens and the seal names head and
\* base.  The same head at the same base is a replay of a complete ship.
Finish(c) ==
  /\ Free /\ Owns(c, {"bound", "completing"})
  /\ ~InProgress(c) /\ ~Completed(local)
  /\ ship[c] # None => <<ship[c].head, ship[c].base>> # <<head[c], Tip>>
  /\ MoveTo("completing")
  /\ ship' = [ship EXCEPT ![c] = [head |-> head[c], base |-> Tip, phase |-> "sealed",
                                  intent |-> FALSE, receipt |-> None]]
  /\ run' = [run EXCEPT ![c] = [at |-> "sealed", receipt |-> None]]
  /\ UNCHANGED <<doing, head, reviewVars, watch, provider, local, liveness>>

\* A finish without a ship (--no-merge, or one that fails), whatever the ship's
\* journal says: it opens the window and leaves it open, or its rollback closes
\* it, which a completed row refuses.
BareFinish(c) ==
  /\ Free /\ Owns(c, {"bound", "completing"})
  /\ \/ MoveTo("completing")
     \/ ~Completed(local) /\ MoveTo("bound")
  /\ UNCHANGED <<doing, head, shipVars, reviewVars, watch, provider, local, liveness>>

\* --recover abort, until the push lands.  The lease is left as it is.
AbortShip(c) ==
  /\ InProgress(c) /\ ship[c].phase = "sealed"
  /\ ship' = [ship EXCEPT ![c] = None]
  /\ run' = [run EXCEPT ![c] = None]
  /\ UNCHANGED <<lease, doing, head, reviewVars, watch, provider, local, liveness>>

\* The branch is pushed; its open pull request follows.
Push(c) ==
  /\ At(c, "sealed") /\ ship[c].phase = "sealed"
  /\ pushed' = [pushed EXCEPT ![c] = ship[c].head]
  /\ prs' = [n \in DOMAIN prs |->
               IF n \in OpenPRs(c) THEN [prs[n] EXCEPT !.head = ship[c].head] ELSE prs[n]]
  /\ ship' = [ship EXCEPT ![c].phase = "pushed"]
  /\ Advance(c, "pushed")
  /\ UNCHANGED <<lease, doing, head, reviewVars, watch, trunk, local, liveness>>

\* expectedReceipt: the owner's own head, as the provider and the seal see it.
Expected(c, n) == [claim |-> c, head |-> head[c], base |-> Tip, pr |-> n]
Sealed(c, n) ==
  /\ Owns(c, {"completing"})
  /\ prs[n].head = head[c]
  /\ <<head[c], Tip>> = <<ship[c].head, ship[c].base>>

\* assertMarkerAgreement: an unmarked pull request is ours only under an
\* intent that was journalled before it was created.
MarkerAgrees(c, n) ==
  \/ prs[n].marker = Expected(c, n)
  \/ prs[n].marker = None /\ ship[c].intent

\* preparePublicationReceipt; a retry finds the intent in the journal.
Prepare(c) ==
  /\ At(c, "pushed")
  /\ \/ /\ \/ ship[c].intent
           \/ \E n \in OpenPRs(c) : Sealed(c, n) /\ prs[n].marker = Expected(c, n)
        /\ UNCHANGED ship
     \/ /\ ~ship[c].intent /\ Owns(c, {"completing"}) /\ OpenPRs(c) = {}
        /\ ship' = [ship EXCEPT ![c].intent = TRUE]
  /\ Advance(c, "prepared")
  /\ UNCHANGED <<lease, doing, head, reviewVars, watch, provider, local, liveness>>

CreatePR(c) ==
  /\ At(c, "prepared")
  /\ IF OpenPRs(c) # {} THEN UNCHANGED prs
     ELSE /\ Len(prs) < MaxPR
          /\ prs' = Append(prs, [claim |-> c, state |-> "OPEN", head |-> pushed[c],
                                 marker |-> None, commit |-> 0])
  /\ Advance(c, "created")
  /\ UNCHANGED <<lease, doing, head, ship, reviewVars, watch, trunk, pushed, local, liveness>>

\* ensurePublicationReceipt, until its receipt is cached.
Ensure(c) ==
  /\ At(c, "created")
  /\ \E n \in OpenPRs(c) :
       /\ Sealed(c, n) /\ MarkerAgrees(c, n)
       /\ Cacheable(Expected(c, n))
       /\ cache' = cache \cup {Expected(c, n)}
       /\ run' = [run EXCEPT ![c] = [at |-> "cached", receipt |-> Expected(c, n)]]
  /\ UNCHANGED <<lease, doing, head, ship, lineage, integrated, watch, provider, local,
                 liveness>>

\* Under the lock the owner is looked at again and the marker is written.
Mark(c) ==
  /\ At(c, "cached")
  /\ LET n == run[c].receipt.pr IN
       IF prs[n].marker = run[c].receipt THEN UNCHANGED prs
       ELSE /\ Free /\ Owns(c, {"completing"})
            /\ prs' = [prs EXCEPT ![n].marker = run[c].receipt]
  /\ Advance(c, "marked")
  /\ UNCHANGED <<lease, doing, head, ship, reviewVars, watch, trunk, pushed, local, liveness>>

\* The evidence goes into the journal.
Observed(c) ==
  /\ At(c, "marked")
  /\ ship' = [ship EXCEPT ![c].phase = "observed", ![c].receipt = run[c].receipt]
  /\ Advance(c, "observed")
  /\ UNCHANGED <<lease, doing, head, reviewVars, watch, provider, local, liveness>>

\* Mutated: the journal is taken at its word.
EntersUnproved(c) ==
  /\ Free
  /\ ship[c] # None /\ ship[c].phase = "observed"
  /\ lease # None /\ lease.state \in {"completing", "reviewing"}
  /\ lease' = [lease EXCEPT !.state = "reviewing", !.pub = ship[c].receipt]

\* enterPublicationReviewingWithProof; a replay finds the lease in review.
EntersReview(c) ==
  /\ Free
  /\ ship[c] # None /\ ship[c].phase = "observed"
  /\ Live(ship[c].receipt)
  /\ \/ Owns(c, {"completing"})
     \/ Owns(c, {"reviewing"}) /\ lease.pub = ship[c].receipt
  /\ lease' = [lease EXCEPT !.state = "reviewing", !.pub = ship[c].receipt]

EnterReviewing(c) ==
  /\ At(c, "observed")
  /\ EntersReview(c)
  /\ Advance(c, "entered")
  /\ UNCHANGED <<doing, head, ship, reviewVars, watch, provider, local, liveness>>

CompleteShip(c) ==
  /\ At(c, "entered")
  /\ ship' = [ship EXCEPT ![c].phase = "complete"]
  /\ run' = [run EXCEPT ![c] = None]
  /\ UNCHANGED <<lease, doing, head, reviewVars, watch, provider, local, liveness>>

\* The process of a ship fails or dies; --recover reconcile takes the journal
\* up at its last phase.
ShipDies(c) ==
  /\ InProgress(c) /\ run[c].at # ship[c].phase
  /\ run' = [run EXCEPT ![c] = [at |-> ship[c].phase, receipt |-> None]]
  /\ UNCHANGED <<lease, doing, head, ship, reviewVars, watch, provider, local, liveness>>

-----------------------------------------------------------------------------
(* The verbs on a publication in review.                                   *)

\* rebuildReceiptForPointer and the join with the lease.
Rebuilt == Reviewing /\ lease.pub \in cache /\ Live(lease.pub)

\* Back to its owner, whose worktree still is at the published head.
Reopen ==
  /\ Free /\ Rebuilt
  /\ head[lease.claim] = lease.pub.head
  /\ MoveTo("bound")
  /\ UNCHANGED <<doing, head, shipVars, reviewVars, watch, provider, local, liveness>>

Takeover(c) ==
  /\ Free /\ Rebuilt /\ ~Completed(local)
  /\ Mint(c)
  /\ UNCHANGED <<doing, shipVars, reviewVars, watch, provider, local, liveness>>

\* abandonPublication: lineage, released record, removal.
Abandonable == Rebuilt /\ ~Completed(local) /\ prs[lease.pub.pr].state = "CLOSED"

\* Mutated: the record before the lineage.
AbandonFirst ==
  /\ Free /\ Abandonable
  /\ MoveTo("released")
  /\ doing' = "remove"
  /\ UNCHANGED <<head, shipVars, reviewVars, watch, provider, local, liveness>>

Abandon ==
  /\ Free /\ Abandonable
  /\ lineage' = lineage \cup {Id(lease.pub)}
  /\ doing' = "release"
  /\ UNCHANGED <<lease, head, shipVars, cache, integrated, watch, provider, local, liveness>>

AbandonReleases ==
  /\ doing = "release"
  /\ MoveTo("released")
  /\ doing' = "remove"
  /\ UNCHANGED <<head, shipVars, reviewVars, watch, provider, local, liveness>>

\* integrationReceiptAndProvider: identity only; the base may have advanced.
Identified(p) ==
  /\ p \in cache
  /\ prs[p.pr].marker = p
  /\ prs[p.pr].head = p.head

\* reconcilePublication: first look, fetch of the target, then the lock.
ReconcileReads(r) ==
  /\ watch[r] = None
  /\ Reviewing /\ Identified(lease.pub)
  /\ watch' = [watch EXCEPT ![r] = [pub |-> lease.pub, oid |-> 0,
                                    commit |-> prs[lease.pub.pr].commit]]
  /\ UNCHANGED <<lease, doing, head, shipVars, reviewVars, provider, local, liveness>>

ReconcileFetches(r) ==
  /\ watch[r] # None /\ watch[r].oid = 0
  /\ watch' = [watch EXCEPT ![r].oid = Tip]
  /\ UNCHANGED <<lease, doing, head, shipVars, reviewVars, provider, local, liveness>>

\* classifyPublicationMerge: ancestor or absorbed.
Merged(p, oid) == Id(p) \in trunk[oid]

\* What is looked at again under the lock.
StillReviewed(w) ==
  /\ Reviewing /\ lease.pub = w.pub
  /\ Identified(lease.pub)
  /\ Tip = w.oid
  /\ prs[w.pub.pr].commit = w.commit
  /\ w.commit <= w.oid

ReconcileProves(r) ==
  /\ Free
  /\ watch[r] # None /\ watch[r].oid # 0
  /\ StillReviewed(watch[r])
  /\ Completed(watch[r].oid)
  /\ Merged(watch[r].pub, watch[r].oid)
  /\ integrated' = integrated \cup {[pub |-> watch[r].pub, oid |-> watch[r].oid]}
  /\ watch' = [watch EXCEPT ![r] = None]
  /\ doing' = "remove"
  /\ UNCHANGED <<lease, head, shipVars, cache, lineage, provider, local, liveness>>

ReconcileFails(r) ==
  /\ watch[r] # None
  /\ watch' = [watch EXCEPT ![r] = None]
  /\ UNCHANGED <<lease, doing, head, shipVars, reviewVars, provider, local, liveness>>

\* resumePublicationIntegrationRelease
ResumeRelease ==
  /\ Free /\ Reviewing
  /\ lease.pub \in cache
  /\ \E o \in integrated : o.pub = lease.pub /\ Completed(o.oid)
  /\ lease' = None
  /\ UNCHANGED <<doing, head, shipVars, reviewVars, watch, provider, local, liveness>>

-----------------------------------------------------------------------------
(* The provider and the local target branch.                               *)

Extend(commits) ==
  /\ Tip < MaxTip
  /\ trunk' = Append(trunk, trunk[Tip] \cup commits)

Merge(n) ==
  /\ prs[n].state = "OPEN"
  /\ Extend(Branch(prs[n].claim, prs[n].head))
  /\ prs' = [prs EXCEPT ![n].state = "MERGED", ![n].commit = Tip + 1]
  /\ UNCHANGED <<lease, doing, head, shipVars, reviewVars, watch, pushed, local, liveness>>

\* Somebody else's commit, or the branch merged by another way.
Land(c) ==
  /\ \E commits \in {{}, Branch(c, pushed[c])} : Extend(commits)
  /\ UNCHANGED <<lease, doing, head, shipVars, reviewVars, watch, pushed, prs, local, liveness>>

Close(n) ==
  /\ prs[n].state = "OPEN"
  /\ prs' = [prs EXCEPT ![n].state = "CLOSED"]
  /\ UNCHANGED <<lease, doing, head, shipVars, reviewVars, watch, trunk, pushed, local, liveness>>

ReopenPR(n) ==
  /\ prs[n].state = "CLOSED"
  /\ OpenPRs(prs[n].claim) = {} /\ prs[n].head = pushed[prs[n].claim]
  /\ prs' = [prs EXCEPT ![n].state = "OPEN"]
  /\ UNCHANGED <<lease, doing, head, shipVars, reviewVars, watch, trunk, pushed, local, liveness>>

Pull ==
  /\ local # Tip
  /\ local' = Tip
  /\ UNCHANGED <<lease, doing, head, shipVars, reviewVars, watch, provider, liveness>>

-----------------------------------------------------------------------------
(* Renewals and reclaim.                                                   *)

\* renewLeaseLiveness: renewal file, then current.json, then the pointer.  A
\* file that was not folded admits only a replay of its own observation.
Renew(c) ==
  /\ Free /\ Owns(c, {"reserving", "bound"})
  /\ folded[c] < MaxRenewal
  /\ renewed' = [renewed EXCEPT ![c] = folded[c] + 1]
  /\ doing' = "fold"
  /\ UNCHANGED <<lease, head, shipVars, reviewVars, watch, provider, local,
                 folded, pointer, acked, lapsed, quiet, receipts>>

Fold ==
  /\ doing = "fold"
  /\ folded' = [folded EXCEPT ![lease.claim] = renewed[lease.claim]]
  /\ doing' = "point"
  /\ UNCHANGED <<lease, head, shipVars, reviewVars, watch, provider, local,
                 renewed, pointer, acked, lapsed, quiet, receipts>>

Point ==
  /\ doing = "point"
  /\ pointer' = <<lease.claim, folded[lease.claim]>>
  /\ doing' = "tell"
  /\ UNCHANGED <<lease, head, shipVars, reviewVars, watch, provider, local,
                 renewed, folded, acked, lapsed, quiet, receipts>>

\* The owner gets its answer, unless the process dies before it.
Tell ==
  /\ doing = "tell"
  /\ acked' = [acked EXCEPT ![lease.claim] = folded[lease.claim]]
  /\ doing' = None
  /\ UNCHANGED <<lease, head, shipVars, reviewVars, watch, provider, local,
                 renewed, folded, pointer, lapsed, quiet, receipts>>

\* Time.  The workers renew for the policy's maximum and read the clock under
\* the lock: renewals lapse in their order.
Lapse(c, n) ==
  /\ n \in 1..renewed[c] /\ Owns(c, States)
  /\ <<c, n>> \notin lapsed
  /\ \A m \in 1..(n - 1) : <<c, m>> \in lapsed
  /\ lapsed' = lapsed \cup {<<c, n>>}
  /\ UNCHANGED <<lease, doing, head, shipVars, reviewVars, watch, provider, local,
                 renewed, folded, pointer, acked, quiet, receipts>>

\* Runtime, controller, binding and claim actor prove the work over, or cease to.
Evidence(c) ==
  /\ renewed[c] # 0 /\ Owns(c, States)
  /\ quiet' = IF c \in quiet THEN quiet \ {c} ELSE quiet \cup {c}
  /\ UNCHANGED <<lease, doing, head, shipVars, reviewVars, watch, provider, local,
                 renewed, folded, pointer, acked, lapsed, receipts>>

\* readLeaseLiveness: what the pointer selects, unless it is stale.
Selected == pointer # None /\ folded[pointer[1]] = pointer[2]
Inactive == lease.state \in {"reserving", "bound", "released"}

\* classifyLeaseReclaim = reclaimable, on what is true now.
Reclaimable ==
  /\ lease # None /\ Inactive
  /\ Selected
  /\ pointer \in lapsed
  /\ pointer[1] \in quiet

ObserveEligibility ==
  /\ Free /\ Reclaimable
  /\ receipts' = receipts \cup {pointer}
  /\ UNCHANGED <<lease, doing, head, shipVars, reviewVars, watch, provider, local,
                 renewed, folded, pointer, acked, lapsed, quiet>>

\* Mutated: the receipt is believed.
ConsumableStale(e) == lease # None /\ Inactive /\ e \in lapsed /\ e[1] = lease.claim

\* assertReclaimReceiptCurrent and the classification at consumption.
Consumable(e) == Reclaimable /\ e = pointer /\ e[1] = lease.claim

Reclaim(c) ==
  /\ Free
  /\ \E e \in receipts : Consumable(e)
  /\ Mint(c)
  /\ UNCHANGED <<doing, shipVars, reviewVars, watch, provider, local, liveness>>

-----------------------------------------------------------------------------
Owning == Bind \/ Release \/ Clear \/ Remove \/ HolderDies
          \/ \E c \in Claim : Acquire(c) \/ Commit(c) \/ Steal(c)

Shipping ==
  \E c \in Claim :
    \/ Finish(c) \/ BareFinish(c) \/ AbortShip(c) \/ Push(c) \/ Prepare(c) \/ CreatePR(c) \/ Ensure(c)
    \/ Mark(c) \/ Observed(c) \/ EnterReviewing(c) \/ CompleteShip(c) \/ ShipDies(c)

Reviews ==
  \/ Reopen \/ Abandon \/ AbandonReleases \/ ResumeRelease
  \/ \E c \in Claim : Takeover(c)
  \/ \E r \in Reconciler : \/ ReconcileReads(r) \/ ReconcileFetches(r)
                           \/ ReconcileProves(r) \/ ReconcileFails(r)

Providing ==
  \/ Pull
  \/ \E c \in Claim : Land(c)
  \/ \E n \in DOMAIN prs : Merge(n) \/ Close(n) \/ ReopenPR(n)

Living ==
  \/ Fold \/ Point \/ Tell \/ ObserveEligibility
  \/ \E c \in Claim : \/ Renew(c) \/ Evidence(c) \/ Reclaim(c)
                      \/ \E n \in 1..MaxRenewal : Lapse(c, n)

Next == Owning \/ Shipping \/ Reviews \/ Providing \/ Living

Spec == Init /\ [][Next]_vars

-----------------------------------------------------------------------------
(* Properties.                                                             *)

\* Every variable has its type, and a lease is in review exactly when it names
\* a publication.
TypeOK ==
  /\ lease \in {None} \cup [claim : Claim, state : States, pub : Receipt \cup {None}]
  /\ lease # None => (lease.state = "reviewing") = (lease.pub # None)
  /\ doing \in {None, "remove", "release", "fold", "point", "tell"}
  /\ head \in [Claim -> 0..MaxHead] /\ pushed \in [Claim -> 0..MaxHead]
  /\ cache \subseteq Receipt
  /\ lineage \subseteq Claim \X (1..MaxHead)
  /\ integrated \subseteq [pub : Receipt, oid : 1..MaxTip]
  /\ trunk \in Seq(SUBSET (Claim \X (1..MaxHead))) /\ local \in DOMAIN trunk
  /\ renewed \in [Claim -> 0..MaxRenewal] /\ folded \in [Claim -> 0..MaxRenewal]
  /\ acked \in [Claim -> 0..MaxRenewal]

\* A lease in review names a publication of its own claim that can be found
\* again: the pull request bears its marker, the cache and the journal of the
\* claim's ship hold its receipt (enterPublicationReviewingWithProof).
ReviewIsBacked ==
  Reviewing =>
    /\ lease.pub.claim = lease.claim
    /\ lease.pub \in cache
    /\ prs[lease.pub.pr].marker = lease.pub
    /\ ship[lease.claim] # None /\ ship[lease.claim].receipt = lease.pub

\* Whatever dies in between, a publication leaves review for good only on
\* durable record: the lineage of its abandonment, or an observation of a
\* fetched target that contains its head (abandonPublication,
\* reconcilePublication, resumePublicationIntegrationRelease).
OnRecord(p) ==
  \/ Id(p) \in lineage
  \/ \E o \in integrated : o.pub = p /\ Merged(p, o.oid)
ReviewEndsOnRecord ==
  [][Reviewing /\ (lease' = None \/ lease'.state = "released") => OnRecord(lease.pub)]_vars

\* An owner is not reclaimed before the last renewal it was told of expires, nor
\* while its work is not proved over, however old the receipt that is consumed
\* and wherever a later renewal died (automaticReclaimLease).
RenewalProtects ==
  [][\A c \in Claim : Reclaim(c) =>
       /\ \A n \in 1..acked[lease.claim] : <<lease.claim, n>> \in lapsed
       /\ lease.claim \in quiet]_vars
=============================================================================
