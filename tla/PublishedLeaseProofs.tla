------------------------ MODULE PublishedLeaseProofs ------------------------
(***************************************************************************)
(* What PublishedLease guarantees for any number of claims, reconcilers,   *)
(* commits and pull requests.                                              *)
(*                                                                         *)
(* The argument.  A receipt is cached before the ship that made it may go  *)
(* on to its journal (Journalled), and the marker of a lease in review     *)
(* does not move, since a marker is written under a lease that is          *)
(* completing (Window).  The verb that removes a lease in review has       *)
(* written its lineage or its observation before (Recorded).  The pointer  *)
(* names no earlier renewal than its owner was last told of, and renewals  *)
(* lapse in their order (Pointed).                                         *)
(***************************************************************************)
EXTENDS PublishedLease, TLAPS

Phases == {"sealed", "pushed", "observed", "complete"}
Points == {"sealed", "pushed", "prepared", "created", "cached", "marked", "observed",
           "entered"}
Lease == [claim : Claim, state : States, pub : Receipt \cup {None}]
Journal == [head : 1..MaxHead, base : 1..MaxTip, phase : Phases, intent : BOOLEAN,
            receipt : Receipt \cup {None}]
Process == [at : Points, receipt : Receipt \cup {None}]
PullRequest == [claim : Claim, state : {"OPEN", "MERGED", "CLOSED"}, head : 0..MaxHead,
                marker : Receipt \cup {None}, commit : 0..MaxTip]
Watch == [pub : Receipt, oid : 0..MaxTip, commit : 0..MaxTip]

\* What each part of the state is.
Owned ==
  /\ lease \in {None} \cup Lease
  /\ lease # None => (lease.state = "reviewing") = (lease.pub # None)
  /\ doing \in {None, "remove", "release", "fold", "point", "tell"}
  /\ doing \in {"fold", "point", "tell"} => lease # None
  /\ doing = "release" => Reviewing
  /\ head \in [Claim -> 0..MaxHead]
  /\ lease # None => head[lease.claim] # 0
Shipped ==
  /\ ship \in [Claim -> Journal \cup {None}]
  /\ run \in [Claim -> Process \cup {None}]
Provided ==
  /\ trunk \in Seq(SUBSET (Claim \X (1..MaxHead))) /\ Len(trunk) <= MaxTip
  /\ local \in DOMAIN trunk
  /\ pushed \in [Claim -> 0..MaxHead]
  /\ prs \in Seq(PullRequest) /\ Len(prs) <= MaxPR
Reviewed ==
  /\ cache \subseteq Receipt
  /\ lineage \subseteq Claim \X (1..MaxHead)
  /\ integrated \subseteq [pub : Receipt, oid : 1..MaxTip]
  /\ watch \in [Reconciler -> Watch \cup {None}]
Lived ==
  /\ renewed \in [Claim -> 0..MaxRenewal] /\ folded \in [Claim -> 0..MaxRenewal]
  /\ acked \in [Claim -> 0..MaxRenewal]
  /\ lapsed \subseteq Claim \X (1..MaxRenewal)

\* The cache holds this receipt of the claim, for a pull request there is.
Backed(c, r) == r \in cache /\ r.claim = c /\ r.pr \in DOMAIN prs

\* Where the process of a ship in a phase can be.
Where(phase) ==
  CASE phase = "sealed" -> {"sealed"}
    [] phase = "pushed" -> {"pushed", "prepared", "created", "cached", "marked"}
    [] phase = "observed" -> {"observed", "entered"}
    [] OTHER -> {}

\* The receipt of a ship is backed before and after it is in the journal.
JournalledFor(c) ==
  /\ InProgress(c) => run[c].at \in Where(ship[c].phase)
  /\ InProgress(c) /\ run[c].at \in {"cached", "marked"} => Backed(c, run[c].receipt)
  /\ ship[c] # None /\ ship[c].phase \in {"observed", "complete"}
       => Backed(c, ship[c].receipt)
Journalled == \A c \in Claim : JournalledFor(c)

\* A lease in review is the journalled publication of its claim.
Window ==
  Reviewing =>
    /\ ship[lease.claim] # None
    /\ ship[lease.claim].phase \in {"observed", "complete"}
    /\ ship[lease.claim].receipt = lease.pub
    /\ prs[lease.pub.pr].marker = lease.pub

\* What was written before the verb that holds the lock ends a review.
Recorded ==
  /\ \A o \in integrated : o.oid \in DOMAIN trunk /\ Merged(o.pub, o.oid)
  /\ doing = "release" => Id(lease.pub) \in lineage
  /\ doing = "remove" /\ Reviewing => \E o \in integrated : o.pub = lease.pub

\* What an owner was told of is pointed to or superseded, in order of lapsing.
Answered ==
  /\ \A c \in Claim : acked[c] <= folded[c] /\ folded[c] <= renewed[c]
  /\ pointer # None => /\ pointer \in Claim \X (0..MaxRenewal)
                       /\ acked[pointer[1]] <= pointer[2]
  /\ doing = "tell" => pointer = <<lease.claim, folded[lease.claim]>>
Orderly == \A c \in Claim, n \in 1..MaxRenewal :
             <<c, n>> \in lapsed => \A m \in 1..(n - 1) : <<c, m>> \in lapsed
Pointed == Answered /\ Orderly

Typed == Owned /\ Shipped /\ Provided /\ Reviewed /\ Lived
IInv == Typed /\ Journalled /\ Window /\ Recorded /\ Pointed

LEMMA Start == Init => IInv
<1> SUFFICES ASSUME Init PROVE IInv
  OBVIOUS
<1>1. Typed
  BY PublishedLeaseAssumption DEF Init, Typed, Owned, Shipped, Provided, Reviewed, Lived, Reviewing
<1>2. Journalled /\ Window /\ Recorded /\ Pointed
  BY PublishedLeaseAssumption
  DEF Init, Journalled, JournalledFor, Window, Recorded, Pointed, Answered, Orderly,
      Reviewing, InProgress
<1> QED
  BY <1>1, <1>2 DEF IInv

LEMMA SeqOf ==
  ASSUME NEW S, NEW n \in Nat, NEW s \in [1..n -> S]
  PROVE  s \in Seq(S) /\ Len(s) = n
OBVIOUS

\* What the parts of the state are, one by one.
LEMMA Parts ==
  IInv => /\ DOMAIN trunk = 1..Len(trunk) /\ Len(trunk) \in 1..MaxTip
          /\ DOMAIN prs = 1..Len(prs) /\ Len(prs) \in 0..MaxPR
          /\ \A n \in DOMAIN prs : prs[n] \in PullRequest
          /\ \A c \in Claim : /\ ship[c] # None => ship[c] \in Journal
                              /\ run[c] # None => run[c] \in Process
          /\ \A r \in Reconciler : watch[r] # None => watch[r] \in Watch
          /\ lease # None => lease \in Lease /\ head[lease.claim] \in 1..MaxHead
          /\ Reviewing => lease.pub \in Receipt
<1>1. IInv => /\ DOMAIN trunk = 1..Len(trunk) /\ Len(trunk) \in 1..MaxTip
              /\ DOMAIN prs = 1..Len(prs) /\ Len(prs) \in 0..MaxPR
              /\ \A n \in DOMAIN prs : prs[n] \in PullRequest
  BY PublishedLeaseAssumption DEF IInv, Typed, Provided
<1>2. IInv => /\ \A c \in Claim : /\ ship[c] # None => ship[c] \in Journal
                                  /\ run[c] # None => run[c] \in Process
              /\ \A r \in Reconciler : watch[r] # None => watch[r] \in Watch
  BY DEF IInv, Typed, Shipped, Reviewed
<1>3. IInv => /\ lease # None => lease \in Lease /\ head[lease.claim] \in 1..MaxHead
              /\ Reviewing => lease.pub \in Receipt
  BY PublishedLeaseAssumption DEF IInv, Typed, Owned, Lease, Reviewing
<1> QED
  BY <1>1, <1>2, <1>3

\* One pull request changes.
LEMMA Changed ==
  ASSUME IInv, NEW q, DOMAIN q = DOMAIN prs, q = [n \in DOMAIN prs |-> q[n]],
         \A n \in DOMAIN prs : q[n] \in PullRequest
  PROVE  q \in Seq(PullRequest) /\ Len(q) = Len(prs) /\ Len(q) <= MaxPR
<1>1. Len(prs) \in Nat /\ DOMAIN prs = 1..Len(prs) /\ Len(prs) <= MaxPR
  BY DEF IInv, Typed, Provided
<1>2. q \in [1..Len(prs) -> PullRequest]
  BY <1>1
<1> QED
  BY <1>1, <1>2, SeqOf

\* The lease, and what a verb holds the lock for.
LEMMA OwnedKept == IInv /\ Next => Owned'
<1> SUFFICES ASSUME IInv, Next PROVE Owned'
  OBVIOUS
<1>frame. CASE UNCHANGED <<lease, doing, head>>
  BY <1>frame DEF IInv, Typed, Owned, Reviewing
<1>Bind. CASE Bind
  BY <1>Bind, PublishedLeaseAssumption
  DEF Bind, MoveTo, Free, Owns, Rebuilt, IInv, Typed, Owned, Reviewing, States, Lease
<1>Release. CASE Release
  BY <1>Release, PublishedLeaseAssumption
  DEF Release, MoveTo, Free, Owns, Rebuilt, IInv, Typed, Owned, Reviewing, States, Lease
<1>Clear. CASE Clear
  BY <1>Clear, PublishedLeaseAssumption
  DEF Clear, Free, Owns, Abandonable, Rebuilt, IInv, Typed, Owned, Reviewing, States,
      Lease
<1>Remove. CASE Remove
  BY <1>Remove, PublishedLeaseAssumption
  DEF Remove, Free, Owns, Abandonable, Rebuilt, IInv, Typed, Owned, Reviewing, States,
      Lease
<1>HolderDies. CASE HolderDies
  BY <1>HolderDies, PublishedLeaseAssumption
  DEF HolderDies, Free, Owns, Abandonable, Rebuilt, IInv, Typed, Owned, Reviewing,
      States, Lease
<1>Acquire. ASSUME NEW c \in Claim, Acquire(c) PROVE Owned'
  BY <1>Acquire, PublishedLeaseAssumption
  DEF Acquire, Mint, Fresh, Free, IInv, Typed, Owned, Reviewing, States, Lease
<1>Commit. ASSUME NEW c \in Claim, Commit(c) PROVE Owned'
  BY <1>Commit, PublishedLeaseAssumption
  DEF Commit, Free, Owns, Abandonable, Rebuilt, IInv, Typed, Owned, Reviewing, States,
      Lease
<1>Steal. ASSUME NEW c \in Claim, Steal(c) PROVE Owned'
  BY <1>Steal, PublishedLeaseAssumption
  DEF Steal, Mint, Fresh, Free, IInv, Typed, Owned, Reviewing, States, Lease
<1>Finish. ASSUME NEW c \in Claim, Finish(c) PROVE Owned'
  BY <1>Finish, PublishedLeaseAssumption
  DEF Finish, MoveTo, Free, Owns, Rebuilt, IInv, Typed, Owned, Reviewing, States, Lease
<1>BareFinish. ASSUME NEW c \in Claim, BareFinish(c) PROVE Owned'
  BY <1>BareFinish, PublishedLeaseAssumption
  DEF BareFinish, MoveTo, Free, Owns, Rebuilt, IInv, Typed, Owned, Reviewing, States,
      Lease
<1>EnterReviewing. ASSUME NEW c \in Claim, EnterReviewing(c) PROVE Owned'
  <2>1. /\ lease \in Lease /\ lease # None /\ ship[c].receipt \in Receipt
        /\ lease' = [lease EXCEPT !.state = "reviewing", !.pub = ship[c].receipt]
    BY <1>EnterReviewing, Parts
    DEF EnterReviewing, EntersReview, Owns, IInv, Journalled, JournalledFor, Backed, Typed,
        Reviewed
  <2>2. /\ lease' \in Lease /\ lease'.state = "reviewing" /\ lease'.pub # None
        /\ lease'.claim = lease.claim
    BY <2>1, PublishedLeaseAssumption DEF Lease, States
  <2>3. doing = None /\ doing' = doing /\ head' = head /\ head[lease.claim] # 0
    BY <1>EnterReviewing, <2>1 DEF EnterReviewing, EntersReview, Free, IInv, Typed, Owned
  <2> QED
    BY <2>2, <2>3, PublishedLeaseAssumption DEF IInv, Typed, Owned
<1>Reopen. CASE Reopen
  BY <1>Reopen, PublishedLeaseAssumption
  DEF Reopen, MoveTo, Free, Owns, Rebuilt, IInv, Typed, Owned, Reviewing, States, Lease
<1>Abandon. CASE Abandon
  BY <1>Abandon, PublishedLeaseAssumption
  DEF Abandon, Free, Owns, Abandonable, Rebuilt, IInv, Typed, Owned, Reviewing, States,
      Lease
<1>AbandonReleases. CASE AbandonReleases
  BY <1>AbandonReleases, PublishedLeaseAssumption
  DEF AbandonReleases, MoveTo, Free, Owns, Rebuilt, IInv, Typed, Owned, Reviewing,
      States, Lease
<1>ResumeRelease. CASE ResumeRelease
  BY <1>ResumeRelease, PublishedLeaseAssumption
  DEF ResumeRelease, Free, Owns, Abandonable, Rebuilt, IInv, Typed, Owned, Reviewing,
      States, Lease
<1>Takeover. ASSUME NEW c \in Claim, Takeover(c) PROVE Owned'
  BY <1>Takeover, PublishedLeaseAssumption
  DEF Takeover, Mint, Fresh, Free, IInv, Typed, Owned, Reviewing, States, Lease
<1>ReconcileProves. ASSUME NEW r \in Reconciler, ReconcileProves(r) PROVE Owned'
  BY <1>ReconcileProves, PublishedLeaseAssumption
  DEF ReconcileProves, Free, Owns, Abandonable, Rebuilt, IInv, Typed, Owned, Reviewing,
      States, Lease
<1>Fold. CASE Fold
  BY <1>Fold, PublishedLeaseAssumption
  DEF Fold, Free, Owns, Abandonable, Rebuilt, IInv, Typed, Owned, Reviewing, States,
      Lease
<1>Point. CASE Point
  BY <1>Point, PublishedLeaseAssumption
  DEF Point, Free, Owns, Abandonable, Rebuilt, IInv, Typed, Owned, Reviewing, States,
      Lease
<1>Tell. CASE Tell
  BY <1>Tell, PublishedLeaseAssumption
  DEF Tell, Free, Owns, Abandonable, Rebuilt, IInv, Typed, Owned, Reviewing, States,
      Lease
<1>Renew. ASSUME NEW c \in Claim, Renew(c) PROVE Owned'
  BY <1>Renew, PublishedLeaseAssumption
  DEF Renew, Free, Owns, Abandonable, Rebuilt, IInv, Typed, Owned, Reviewing, States,
      Lease
<1>Reclaim. ASSUME NEW c \in Claim, Reclaim(c) PROVE Owned'
  BY <1>Reclaim, PublishedLeaseAssumption
  DEF Reclaim, Mint, Fresh, Free, IInv, Typed, Owned, Reviewing, States, Lease
<1> QED
  BY <1>frame, <1>Bind, <1>Release, <1>Clear, <1>Remove, <1>HolderDies, <1>Acquire,
     <1>Commit, <1>Steal, <1>Finish, <1>BareFinish, <1>EnterReviewing, <1>Reopen,
     <1>Abandon, <1>AbandonReleases, <1>ResumeRelease, <1>Takeover, <1>ReconcileProves,
     <1>Fold, <1>Point, <1>Tell, <1>Renew, <1>Reclaim
  DEF Next, Owning, Shipping, Reviews, Providing, Living, vars, shipVars, reviewVars,
      provider, liveness, AbortShip, Push, Prepare, CreatePR, Ensure, Mark, Observed, CompleteShip,
      ShipDies, ReconcileReads, ReconcileFetches, ReconcileFails, Pull, Land, Merge,
      Close, ReopenPR, ObserveEligibility, Evidence, Lapse

\* The journals and the processes of the ships.
LEMMA ShippedKept == IInv /\ Next => Shipped'
<1> SUFFICES ASSUME IInv, Next PROVE Shipped'
  OBVIOUS
<1>frame. CASE UNCHANGED <<ship, run>>
  BY <1>frame DEF IInv, Typed, Shipped
<1>Finish. ASSUME NEW c \in Claim, Finish(c) PROVE Shipped'
  <2>1. head[c] \in 1..MaxHead /\ Tip \in 1..MaxTip
    BY <1>Finish, Parts DEF Finish, Owns, Tip
  <2> QED
    BY <1>Finish, <2>1
    DEF Finish, IInv, Typed, Shipped, Journal, Process, Phases, Points, InProgress, At,
      Advance
<1>AbortShip. ASSUME NEW c \in Claim, AbortShip(c) PROVE Shipped'
  BY <1>AbortShip, PublishedLeaseAssumption
  DEF AbortShip, IInv, Typed, Shipped, Journal, Process, Phases, Points, InProgress, At,
      Advance
<1>Push. ASSUME NEW c \in Claim, Push(c) PROVE Shipped'
  BY <1>Push, PublishedLeaseAssumption
  DEF Push, IInv, Typed, Shipped, Journal, Process, Phases, Points, InProgress, At,
      Advance
<1>Prepare. ASSUME NEW c \in Claim, Prepare(c) PROVE Shipped'
  <2>1. /\ ship[c] \in Journal /\ run' = [run EXCEPT ![c].at = "prepared"]
        /\ run[c] \in Process
    BY <1>Prepare, Parts DEF Prepare, At, InProgress, Advance
  <2>2. run' \in [Claim -> Process \cup {None}]
    BY <2>1 DEF IInv, Typed, Shipped, Process, Points
  <2>3. ship' = ship \/ ship' = [ship EXCEPT ![c].intent = TRUE]
    BY <1>Prepare DEF Prepare
  <2>4. ship' \in [Claim -> Journal \cup {None}]
    BY <2>1, <2>3 DEF IInv, Typed, Shipped, Journal
  <2> QED
    BY <2>2, <2>4 DEF Shipped
<1>CreatePR. ASSUME NEW c \in Claim, CreatePR(c) PROVE Shipped'
  BY <1>CreatePR, PublishedLeaseAssumption
  DEF CreatePR, IInv, Typed, Shipped, Journal, Process, Phases, Points, InProgress, At,
      Advance
<1>Ensure. ASSUME NEW c \in Claim, Ensure(c) PROVE Shipped'
  BY <1>Ensure, PublishedLeaseAssumption
  DEF Ensure, Expected, Receipt, Sealed, Tip, OpenPRs, Provided, IInv, Typed, Shipped,
      Journal, Process, Phases, Points, InProgress, At, Advance
<1>Mark. ASSUME NEW c \in Claim, Mark(c) PROVE Shipped'
  BY <1>Mark, PublishedLeaseAssumption
  DEF Mark, IInv, Typed, Shipped, Journal, Process, Phases, Points, InProgress, At,
      Advance
<1>Observed. ASSUME NEW c \in Claim, Observed(c) PROVE Shipped'
  <2>1. /\ ship[c] \in Journal /\ run[c] \in Process
        /\ run' = [run EXCEPT ![c].at = "observed"]
        /\ ship' = [ship EXCEPT ![c] = [ship[c] EXCEPT !.phase = "observed",
                                                     !.receipt = run[c].receipt]]
    BY <1>Observed, Parts DEF Observed, At, InProgress, Advance, Shipped, IInv, Typed
  <2>2. [ship[c] EXCEPT !.phase = "observed", !.receipt = run[c].receipt] \in Journal
    BY <2>1 DEF Journal, Phases, Process
  <2>3. [run[c] EXCEPT !.at = "observed"] \in Process
    BY <2>1 DEF Points, Process
  <2> QED
    BY <2>1, <2>2, <2>3 DEF IInv, Typed, Shipped
<1>EnterReviewing. ASSUME NEW c \in Claim, EnterReviewing(c) PROVE Shipped'
  BY <1>EnterReviewing, PublishedLeaseAssumption
  DEF EnterReviewing, IInv, Typed, Shipped, Journal, Process, Phases, Points, InProgress,
      At, Advance
<1>CompleteShip. ASSUME NEW c \in Claim, CompleteShip(c) PROVE Shipped'
  BY <1>CompleteShip, PublishedLeaseAssumption
  DEF CompleteShip, IInv, Typed, Shipped, Journal, Process, Phases, Points, InProgress,
      At, Advance
<1>ShipDies. ASSUME NEW c \in Claim, ShipDies(c) PROVE Shipped'
  BY <1>ShipDies, PublishedLeaseAssumption
  DEF ShipDies, IInv, Typed, Shipped, Journal, Process, Phases, Points, InProgress, At,
      Advance
<1> QED
  BY <1>frame, <1>Finish, <1>AbortShip, <1>Push, <1>Prepare, <1>CreatePR, <1>Ensure,
     <1>Mark, <1>Observed, <1>EnterReviewing, <1>CompleteShip, <1>ShipDies
  DEF Next, Owning, Shipping, Reviews, Providing, Living, vars, shipVars, reviewVars,
      provider, liveness, Bind, Release, Clear, Remove, HolderDies, Acquire, Commit,
      Steal, Reopen, Abandon, AbandonReleases, ResumeRelease, Takeover, ReconcileReads,
      ReconcileFetches, ReconcileProves, ReconcileFails, Pull, Land, Merge, Close,
      BareFinish, ReopenPR, Fold, Point, Tell, ObserveEligibility, Renew, Evidence, Reclaim, Lapse

\* The target branch grows by a commit.
LEMMA Extended ==
  ASSUME IInv, NEW new \in SUBSET (Claim \X (1..MaxHead)), Extend(new)
  PROVE  /\ trunk' \in Seq(SUBSET (Claim \X (1..MaxHead)))
         /\ Len(trunk') = Len(trunk) + 1 /\ Len(trunk') <= MaxTip
         /\ DOMAIN trunk \subseteq DOMAIN trunk'
         /\ \A n \in DOMAIN trunk : trunk'[n] = trunk[n]
<1> DEFINE T == SUBSET (Claim \X (1..MaxHead))
<1>1. trunk \in Seq(T) /\ Len(trunk) \in Nat /\ Len(trunk) \in DOMAIN trunk
  BY Parts DEF IInv, Typed, Provided
<1>2. trunk[Len(trunk)] \in T
  BY <1>1
<1>3. trunk[Len(trunk)] \cup new \in T
  BY <1>2
<1>4. trunk' = Append(trunk, trunk[Len(trunk)] \cup new) /\ Len(trunk) < MaxTip
  BY DEF Extend, Tip
<1>5. trunk' \in Seq(T) /\ Len(trunk') = Len(trunk) + 1
      /\ \A n \in 1..Len(trunk) : trunk'[n] = trunk[n]
  <2> HIDE DEF T
  <2> QED
    BY <1>1, <1>3, <1>4
<1> QED
  BY <1>1, <1>4, <1>5, PublishedLeaseAssumption

\* The provider.
LEMMA ProvidedKept == IInv /\ Next => Provided'
<1> SUFFICES ASSUME IInv, Next PROVE Provided'
  OBVIOUS
<1>frame. CASE UNCHANGED <<provider, local>>
  BY <1>frame DEF IInv, Typed, Provided, provider
<1>Push. ASSUME NEW c \in Claim, Push(c) PROVE Provided'
  <2>1. ship[c].head \in 1..MaxHead
    BY <1>Push, Parts DEF Push, At, InProgress, Journal
  <2>2. pushed' \in [Claim -> 0..MaxHead]
    BY <1>Push, <2>1 DEF Push, IInv, Typed, Provided
  <2>3. \A n \in DOMAIN prs : prs'[n] \in PullRequest
    <3> TAKE n \in DOMAIN prs
    <3>1. prs[n] \in PullRequest /\ ship[c].head \in 0..MaxHead
      BY <2>1, Parts, PublishedLeaseAssumption
    <3>2. [prs[n] EXCEPT !.head = ship[c].head] \in PullRequest
      BY <3>1 DEF PullRequest
    <3>3. prs'[n] = [prs[n] EXCEPT !.head = ship[c].head] \/ prs'[n] = prs[n]
      BY <1>Push DEF Push
    <3> QED
      BY <3>1, <3>2, <3>3
  <2>4. DOMAIN prs' = DOMAIN prs /\ prs' = [n \in DOMAIN prs |-> prs'[n]]
    BY <1>Push DEF Push
  <2>5. prs' \in Seq(PullRequest) /\ Len(prs') <= MaxPR
    BY <2>3, <2>4, Changed
  <2> QED
    BY <1>Push, <2>2, <2>5 DEF Push, IInv, Typed, Provided
<1>CreatePR. ASSUME NEW c \in Claim, CreatePR(c) PROVE Provided'
  <2>1. CASE OpenPRs(c) # {}
    BY <1>CreatePR, <2>1 DEF CreatePR, IInv, Typed, Provided
  <2>2. CASE OpenPRs(c) = {}
    <3> DEFINE p == [claim |-> c, state |-> "OPEN", head |-> pushed[c], marker |-> None,
                     commit |-> 0]
    <3>1. p \in PullRequest
      BY PublishedLeaseAssumption DEF PullRequest, IInv, Typed, Provided
    <3>2. prs' = Append(prs, p) /\ Len(prs) < MaxPR
      BY <1>CreatePR, <2>2 DEF CreatePR
    <3>3. prs' \in Seq(PullRequest) /\ Len(prs') = Len(prs) + 1
      <4> HIDE DEF p
      <4> QED
        BY <3>1, <3>2 DEF IInv, Typed, Provided
    <3>4. Len(prs') <= MaxPR
      BY <3>2, <3>3, PublishedLeaseAssumption DEF IInv, Typed, Provided
    <3> QED
      BY <1>CreatePR, <3>3, <3>4 DEF CreatePR, IInv, Typed, Provided
  <2> QED
    BY <2>1, <2>2
<1>Mark. ASSUME NEW c \in Claim, Mark(c) PROVE Provided'
  <2>1. run[c].receipt \in Receipt
    BY <1>Mark DEF Mark, At, IInv, Journalled, JournalledFor, Backed, Typed, Reviewed
  <2>2. \A m \in DOMAIN prs : prs'[m] \in PullRequest
    <3> TAKE m \in DOMAIN prs
    <3>1. [prs[m] EXCEPT !.marker = run[c].receipt] \in PullRequest
      BY <2>1, Parts DEF PullRequest
    <3>2. prs'[m] = prs[m] \/ prs'[m] = [prs[m] EXCEPT !.marker = run[c].receipt]
      BY <1>Mark DEF Mark, IInv, Typed, Provided
    <3> QED
      BY <3>1, <3>2, Parts
  <2>3. DOMAIN prs' = DOMAIN prs /\ prs' = [m \in DOMAIN prs |-> prs'[m]]
    BY <1>Mark DEF Mark, IInv, Typed, Provided
  <2>4. prs' \in Seq(PullRequest) /\ Len(prs') <= MaxPR
    BY <2>2, <2>3, Changed
  <2> QED
    BY <1>Mark, <2>4 DEF Mark, IInv, Typed, Provided
<1>Pull. CASE Pull
  BY <1>Pull, Parts DEF Pull, Tip, provider, IInv, Typed, Provided
<1>Land. ASSUME NEW c \in Claim, Land(c) PROVE Provided'
  <2>0. PICK new \in {{}, Branch(c, pushed[c])} : Extend(new)
    BY <1>Land DEF Land
  <2>1. new \subseteq Claim \X (1..MaxHead)
    BY PublishedLeaseAssumption DEF Branch, IInv, Typed, Provided
  <2>2. /\ trunk' \in Seq(SUBSET (Claim \X (1..MaxHead)))
        /\ Len(trunk') = Len(trunk) + 1 /\ Len(trunk') <= MaxTip
        /\ DOMAIN trunk \subseteq DOMAIN trunk'
    BY <2>0, <2>1, Extended
  <2> QED
    BY <1>Land, <2>2 DEF Land, IInv, Typed, Provided
<1>Merge. ASSUME NEW n \in DOMAIN prs, Merge(n) PROVE Provided'
  <2>0. Branch(prs[n].claim, prs[n].head) \subseteq Claim \X (1..MaxHead)
    BY Parts, PublishedLeaseAssumption DEF PullRequest, Branch
  <2>5. /\ trunk' \in Seq(SUBSET (Claim \X (1..MaxHead)))
        /\ Len(trunk') = Len(trunk) + 1 /\ Len(trunk') <= MaxTip
        /\ DOMAIN trunk \subseteq DOMAIN trunk'
    BY <1>Merge, <2>0, Extended DEF Merge
  <2>6. Tip + 1 \in 0..MaxTip
    BY <1>Merge, Parts, PublishedLeaseAssumption DEF Merge, Extend, Tip
  <2>1. \A m \in DOMAIN prs : prs'[m] \in PullRequest
    BY <1>Merge, <2>6, Parts, PublishedLeaseAssumption
    DEF Merge, PullRequest
  <2>2. DOMAIN prs' = DOMAIN prs /\ prs' = [m \in DOMAIN prs |-> prs'[m]]
    BY <1>Merge DEF Merge
  <2>3. prs' \in Seq(PullRequest) /\ Len(prs') <= MaxPR
    BY <2>1, <2>2, Changed
  <2> QED
    BY <1>Merge, <2>3, <2>5 DEF Merge, IInv, Typed, Provided
<1>Close. ASSUME NEW n \in DOMAIN prs, Close(n) PROVE Provided'
  <2>1. \A m \in DOMAIN prs : prs'[m] \in PullRequest
    BY <1>Close, Parts, PublishedLeaseAssumption
    DEF Close, PullRequest
  <2>2. DOMAIN prs' = DOMAIN prs /\ prs' = [m \in DOMAIN prs |-> prs'[m]]
    BY <1>Close DEF Close
  <2>3. prs' \in Seq(PullRequest) /\ Len(prs') <= MaxPR
    BY <2>1, <2>2, Changed
  <2> QED
    BY <1>Close, <2>3 DEF Close, IInv, Typed, Provided
<1>ReopenPR. ASSUME NEW n \in DOMAIN prs, ReopenPR(n) PROVE Provided'
  <2>1. \A m \in DOMAIN prs : prs'[m] \in PullRequest
    BY <1>ReopenPR, Parts, PublishedLeaseAssumption
    DEF ReopenPR, PullRequest
  <2>2. DOMAIN prs' = DOMAIN prs /\ prs' = [m \in DOMAIN prs |-> prs'[m]]
    BY <1>ReopenPR DEF ReopenPR
  <2>3. prs' \in Seq(PullRequest) /\ Len(prs') <= MaxPR
    BY <2>1, <2>2, Changed
  <2> QED
    BY <1>ReopenPR, <2>3 DEF ReopenPR, IInv, Typed, Provided
<1> QED
  BY <1>frame, <1>Push, <1>CreatePR, <1>Mark, <1>Pull, <1>Land, <1>Merge, <1>Close,
     <1>ReopenPR
  DEF Next, Owning, Shipping, Reviews, Providing, Living, vars, shipVars, reviewVars,
      provider, liveness, Bind, Release, Clear, Remove, HolderDies, Acquire, Commit,
      Steal, Finish, BareFinish, AbortShip, Prepare, Ensure, Observed, EnterReviewing, CompleteShip,
      ShipDies, Reopen, Abandon, AbandonReleases, ResumeRelease, Takeover,
      ReconcileReads, ReconcileFetches, ReconcileProves, ReconcileFails, Fold, Point, Tell,
      ObserveEligibility, Renew, Evidence, Reclaim, Lapse

\* What is persisted of publications, and what reconcilers observed.
LEMMA ReviewedKept == IInv /\ Next => Reviewed'
<1> SUFFICES ASSUME IInv, Next PROVE Reviewed'
  OBVIOUS
<1>frame. CASE UNCHANGED <<cache, lineage, integrated, watch>>
  BY <1>frame DEF IInv, Typed, Reviewed
<1>Ensure. ASSUME NEW c \in Claim, Ensure(c) PROVE Reviewed'
  BY <1>Ensure, PublishedLeaseAssumption
  DEF Ensure, Expected, Receipt, Sealed, Tip, OpenPRs, Provided, Shipped, Journal, At,
      InProgress, IInv, Typed, Reviewed
<1>Abandon. CASE Abandon
  BY <1>Abandon, PublishedLeaseAssumption
  DEF Abandon, Abandonable, Rebuilt, Reviewing, Id, Receipt, IInv, Typed, Reviewed
<1>ReconcileReads. ASSUME NEW r \in Reconciler, ReconcileReads(r) PROVE Reviewed'
  <2>1. lease.pub \in Receipt /\ lease.pub.pr \in DOMAIN prs
    BY <1>ReconcileReads, Parts
    DEF ReconcileReads, IInv, Window, Journalled, JournalledFor, Backed, Reviewing, Lease
  <2>2. prs[lease.pub.pr].commit \in 0..MaxTip
    BY <2>1, Parts DEF PullRequest
  <2> QED
    BY <1>ReconcileReads, <2>1, <2>2, PublishedLeaseAssumption
    DEF ReconcileReads, Watch, reviewVars, IInv, Typed, Reviewed
<1>ReconcileFetches. ASSUME NEW r \in Reconciler, ReconcileFetches(r) PROVE Reviewed'
  <2>1. watch[r] \in Watch /\ Tip \in 0..MaxTip
    BY <1>ReconcileFetches, Parts, PublishedLeaseAssumption DEF ReconcileFetches, Tip
  <2>2. [watch[r] EXCEPT !.oid = Tip] \in Watch
    BY <2>1 DEF Watch
  <2> QED
    BY <1>ReconcileFetches, <2>2 DEF ReconcileFetches, reviewVars, IInv, Typed, Reviewed
<1>ReconcileProves. ASSUME NEW r \in Reconciler, ReconcileProves(r) PROVE Reviewed'
  BY <1>ReconcileProves, PublishedLeaseAssumption
  DEF ReconcileProves, Watch, IInv, Typed, Reviewed
<1>ReconcileFails. ASSUME NEW r \in Reconciler, ReconcileFails(r) PROVE Reviewed'
  BY <1>ReconcileFails DEF ReconcileFails, reviewVars, IInv, Typed, Reviewed
<1> QED
  BY <1>frame, <1>Ensure, <1>Abandon, <1>ReconcileReads, <1>ReconcileFetches,
     <1>ReconcileProves, <1>ReconcileFails
  DEF Next, Owning, Shipping, Reviews, Providing, Living, vars, shipVars, reviewVars,
      provider, liveness, Bind, Release, Clear, Remove, HolderDies, Acquire, Commit,
      Steal, Finish, BareFinish, AbortShip, Push, Prepare, CreatePR, Mark, Observed, EnterReviewing,
      CompleteShip, ShipDies, Reopen, AbandonReleases, ResumeRelease, Takeover, Pull,
      Land, Merge, Close, ReopenPR, Fold, Point, Tell, ObserveEligibility, Renew, Evidence,
      Reclaim, Lapse

\* The renewals.
LEMMA LivedKept == IInv /\ Next => Lived'
<1> SUFFICES ASSUME IInv, Next PROVE Lived'
  OBVIOUS
<1>frame. CASE UNCHANGED <<renewed, folded, acked, lapsed>>
  BY <1>frame DEF IInv, Typed, Lived
<1>Fold. CASE Fold
  BY <1>Fold, PublishedLeaseAssumption
  DEF Fold, Free, IInv, Typed, Lived, Owned, Lease, Owns
<1>Tell. CASE Tell
  BY <1>Tell, PublishedLeaseAssumption
  DEF Tell, Free, IInv, Typed, Lived, Owned, Lease, Owns
<1>Renew. ASSUME NEW c \in Claim, Renew(c) PROVE Lived'
  BY <1>Renew, PublishedLeaseAssumption
  DEF Renew, Free, IInv, Typed, Lived, Owned, Lease, Owns
<1>Lapse. ASSUME NEW c \in Claim, NEW n \in 1..MaxRenewal, Lapse(c, n) PROVE Lived'
  BY <1>Lapse, PublishedLeaseAssumption
  DEF Lapse, Free, IInv, Typed, Lived, Owned, Lease, Owns
<1> QED
  BY <1>frame, <1>Fold, <1>Tell, <1>Renew, <1>Lapse
  DEF Next, Owning, Shipping, Reviews, Providing, Living, vars, shipVars, reviewVars,
      provider, liveness, Bind, Release, Clear, Remove, HolderDies, Acquire, Commit,
      Steal, Finish, BareFinish, AbortShip, Push, Prepare, CreatePR, Ensure, Mark, Observed,
      EnterReviewing, CompleteShip, ShipDies, Reopen, Abandon, AbandonReleases,
      ResumeRelease, Takeover, ReconcileReads, ReconcileFetches, ReconcileProves,
      ReconcileFails, Pull, Point, Land, Merge, Close, ReopenPR, ObserveEligibility, Evidence,
      Reclaim

\* What an owner was told of never runs ahead of what the pointer names.
LEMMA AnsweredKept == IInv /\ Next => Answered'
<1> SUFFICES ASSUME IInv, Next PROVE Answered'
  OBVIOUS
<1>1. Answered /\ Owned /\ Lived
  BY DEF IInv, Pointed, Typed
<1>2. MaxRenewal \in Nat
  BY PublishedLeaseAssumption
<1>3. lease # None => lease.claim \in Claim
  BY <1>1 DEF Owned, Lease
<1>told. ASSUME UNCHANGED <<pointer, acked, renewed, folded>>, doing' # "tell"
         PROVE  Answered'
  BY <1>told, <1>1 DEF Answered
<1>frame. CASE UNCHANGED <<lease, doing, pointer, acked, renewed, folded>>
  BY <1>frame, <1>1 DEF Answered
<1>Renew. ASSUME NEW c \in Claim, Renew(c) PROVE Answered'
  <2>1. /\ renewed' = [renewed EXCEPT ![c] = folded[c] + 1] /\ doing' = "fold"
        /\ UNCHANGED <<pointer, acked, folded>>
    BY <1>Renew DEF Renew
  <2>2. \A d \in Claim : folded[d] <= renewed'[d]
    BY <2>1, <1>1 DEF Answered, Lived
  <2> QED
    BY <2>1, <2>2, <1>1 DEF Answered
<1>Fold. CASE Fold
  <2>1. /\ lease.claim \in Claim /\ doing' = "point"
        /\ folded' = [folded EXCEPT ![lease.claim] = renewed[lease.claim]]
        /\ UNCHANGED <<pointer, acked, renewed>>
    BY <1>Fold, <1>1, <1>3 DEF Fold, Owned
  <2>2. \A d \in Claim : acked[d] <= folded'[d] /\ folded'[d] <= renewed[d]
    BY <2>1, <1>1 DEF Answered, Lived
  <2> QED
    BY <2>1, <2>2, <1>1 DEF Answered
<1>Point. CASE Point
  <2>1. /\ lease.claim \in Claim /\ pointer' = <<lease.claim, folded[lease.claim]>>
        /\ UNCHANGED <<lease, acked, renewed, folded>>
    BY <1>Point, <1>1, <1>3 DEF Point, Owned
  <2>2. folded[lease.claim] \in 0..MaxRenewal
    BY <2>1, <1>1 DEF Lived
  <2> QED
    BY <2>1, <2>2, <1>1 DEF Answered
<1>Tell. CASE Tell
  <2>1. /\ lease.claim \in Claim /\ doing' = None /\ doing = "tell"
        /\ acked' = [acked EXCEPT ![lease.claim] = folded[lease.claim]]
        /\ UNCHANGED <<pointer, renewed, folded>>
    BY <1>Tell, <1>1, <1>3 DEF Tell, Owned
  <2>2. pointer = <<lease.claim, folded[lease.claim]>>
    BY <2>1, <1>1 DEF Answered
  <2>3. \A d \in Claim : acked'[d] <= folded[d]
    BY <2>1, <1>1 DEF Answered, Lived
  <2>4. doing' # "tell"
    BY <2>1, PublishedLeaseAssumption
  <2> QED
    BY <2>1, <2>2, <2>3, <2>4, <1>1 DEF Answered
<1> QED
  BY <1>told, <1>frame, <1>Renew, <1>Fold, <1>Point, <1>Tell, PublishedLeaseAssumption
  DEF Next, Owning, Shipping, Reviews, Providing, Living, vars, shipVars, reviewVars,
      provider, liveness, Free, Bind, Release, Clear, Remove, HolderDies, Acquire, Commit,
      Steal, Finish, BareFinish, AbortShip, Push, Prepare, CreatePR, Ensure, Mark,
      Observed, EnterReviewing, EntersReview, CompleteShip, ShipDies, Reopen, Abandon,
      AbandonReleases, ResumeRelease, Takeover, ReconcileReads, ReconcileFetches,
      ReconcileProves, ReconcileFails, Pull, Land, Merge, Close, ReopenPR,
      ObserveEligibility, Evidence, Reclaim, Lapse

\* Renewals lapse in their order.
LEMMA OrderlyKept == IInv /\ Next => Orderly'
<1> SUFFICES ASSUME IInv, Next PROVE Orderly'
  OBVIOUS
<1>frame. CASE UNCHANGED lapsed
  BY <1>frame DEF IInv, Pointed, Orderly
<1>Lapse. ASSUME NEW c \in Claim, NEW n \in 1..MaxRenewal, Lapse(c, n) PROVE Orderly'
  <2>1. lapsed' = lapsed \cup {<<c, n>>} /\ \A m \in 1..(n - 1) : <<c, m>> \in lapsed
    BY <1>Lapse DEF Lapse
  <2> QED
    BY <2>1 DEF IInv, Pointed, Orderly
<1> QED
  BY <1>frame, <1>Lapse
  DEF Next, Owning, Shipping, Reviews, Providing, Living, vars, shipVars, reviewVars,
      provider, liveness, Bind, Release, Clear, Remove, HolderDies, Acquire, Commit,
      Steal, Finish, BareFinish, AbortShip, Push, Prepare, CreatePR, Ensure, Mark,
      Observed, EnterReviewing, CompleteShip, ShipDies, Reopen, Abandon, AbandonReleases,
      ResumeRelease, Takeover, ReconcileReads, ReconcileFetches, ReconcileProves,
      ReconcileFails, Pull, Land, Merge, Close, ReopenPR, Fold, Point, Tell,
      ObserveEligibility, Renew, Evidence, Reclaim

LEMMA PointedKept == IInv /\ Next => Pointed'
BY AnsweredKept, OrderlyKept DEF Pointed

\* A step leaves the ship of a claim as it is, and receipts and pull requests
\* stay.
LEMMA Undisturbed ==
  ASSUME IInv, NEW d \in Claim, ship'[d] = ship[d], run'[d] = run[d],
         cache \subseteq cache', DOMAIN prs \subseteq DOMAIN prs'
  PROVE  JournalledFor(d)'
BY DEF IInv, Journalled, JournalledFor, Backed, InProgress

\* A ship goes on to its journal with a receipt that is cached.
LEMMA JournalledKept == IInv /\ Next => Journalled'
<1> SUFFICES ASSUME IInv, Next PROVE Journalled'
  OBVIOUS
<1>frame. CASE UNCHANGED <<ship, run, cache, prs>>
  BY <1>frame, Undisturbed DEF Journalled
<1>Finish. ASSUME NEW c \in Claim, Finish(c) PROVE Journalled'
  <2>1. DOMAIN prs \subseteq DOMAIN prs' /\ cache \subseteq cache'
    BY <1>Finish, Parts DEF Finish, reviewVars, provider, IInv, Typed, Provided
  <2>2. JournalledFor(c)
    BY DEF IInv, Journalled
  <2>3. JournalledFor(c)'
    BY <1>Finish, <2>1, <2>2, PublishedLeaseAssumption
    DEF Finish, JournalledFor, Where, Backed, InProgress, At, Advance, IInv, Typed,
        Shipped
  <2>4. \A d \in Claim \ {c} : ship'[d] = ship[d] /\ run'[d] = run[d]
    BY <1>Finish DEF Finish, Advance, shipVars, IInv, Typed, Shipped
  <2> QED
    BY <2>1, <2>3, <2>4, Undisturbed DEF Journalled
<1>AbortShip. ASSUME NEW c \in Claim, AbortShip(c) PROVE Journalled'
  <2>1. DOMAIN prs \subseteq DOMAIN prs' /\ cache \subseteq cache'
    BY <1>AbortShip, Parts DEF AbortShip, reviewVars, provider, IInv, Typed, Provided
  <2>2. JournalledFor(c)
    BY DEF IInv, Journalled
  <2>3. JournalledFor(c)'
    BY <1>AbortShip, <2>1, <2>2, PublishedLeaseAssumption
    DEF AbortShip, JournalledFor, Where, Backed, InProgress, At, Advance, IInv, Typed,
        Shipped
  <2>4. \A d \in Claim \ {c} : ship'[d] = ship[d] /\ run'[d] = run[d]
    BY <1>AbortShip DEF AbortShip, Advance, shipVars, IInv, Typed, Shipped
  <2> QED
    BY <2>1, <2>3, <2>4, Undisturbed DEF Journalled
<1>Push. ASSUME NEW c \in Claim, Push(c) PROVE Journalled'
  <2>1. DOMAIN prs \subseteq DOMAIN prs' /\ cache \subseteq cache'
    BY <1>Push, Parts DEF Push, reviewVars, IInv, Typed, Provided
  <2>2. JournalledFor(c)
    BY DEF IInv, Journalled
  <2>3. JournalledFor(c)'
    BY <1>Push, <2>1, <2>2, PublishedLeaseAssumption
    DEF Push, JournalledFor, Where, Backed, InProgress, At, Advance, IInv, Typed, Shipped
  <2>4. \A d \in Claim \ {c} : ship'[d] = ship[d] /\ run'[d] = run[d]
    BY <1>Push DEF Push, Advance, shipVars, IInv, Typed, Shipped
  <2> QED
    BY <2>1, <2>3, <2>4, Undisturbed DEF Journalled
<1>Prepare. ASSUME NEW c \in Claim, Prepare(c) PROVE Journalled'
  <2>1. DOMAIN prs \subseteq DOMAIN prs' /\ cache \subseteq cache'
    BY <1>Prepare, Parts DEF Prepare, reviewVars, provider, IInv, Typed, Provided
  <2>2. JournalledFor(c)
    BY DEF IInv, Journalled
  <2>3. JournalledFor(c)'
    <3>1. ship[c].phase = "pushed" /\ InProgress(c) /\ ship[c] \in Journal
      BY <1>Prepare, <2>2, Parts DEF Prepare, At, JournalledFor, Where, InProgress, Journal, Phases
    <3>2. ship' = ship \/ ship' = [ship EXCEPT ![c].intent = TRUE]
      BY <1>Prepare DEF Prepare
    <3>3. ship'[c].phase = "pushed" /\ run'[c].at = "prepared"
      BY <1>Prepare, <3>1, <3>2 DEF Prepare, Advance, At, IInv, Typed, Shipped, Journal
    <3> QED
      BY <3>3 DEF JournalledFor, Where, InProgress
  <2>4. \A d \in Claim \ {c} : ship'[d] = ship[d] /\ run'[d] = run[d]
    BY <1>Prepare DEF Prepare, Advance, shipVars, IInv, Typed, Shipped
  <2> QED
    BY <2>1, <2>3, <2>4, Undisturbed DEF Journalled
<1>CreatePR. ASSUME NEW c \in Claim, CreatePR(c) PROVE Journalled'
  <2>1. DOMAIN prs \subseteq DOMAIN prs' /\ cache \subseteq cache'
    BY <1>CreatePR, Parts DEF CreatePR, reviewVars, IInv, Typed, Provided
  <2>2. JournalledFor(c)
    BY DEF IInv, Journalled
  <2>3. JournalledFor(c)'
    BY <1>CreatePR, <2>1, <2>2, PublishedLeaseAssumption
    DEF CreatePR, JournalledFor, Where, Backed, InProgress, At, Advance, IInv, Typed,
        Shipped
  <2>4. \A d \in Claim \ {c} : ship'[d] = ship[d] /\ run'[d] = run[d]
    BY <1>CreatePR DEF CreatePR, Advance, shipVars, IInv, Typed, Shipped
  <2> QED
    BY <2>1, <2>3, <2>4, Undisturbed DEF Journalled
<1>Ensure. ASSUME NEW c \in Claim, Ensure(c) PROVE Journalled'
  <2>1. DOMAIN prs \subseteq DOMAIN prs' /\ cache \subseteq cache'
    BY <1>Ensure, Parts DEF Ensure, provider, IInv, Typed, Provided
  <2>2. JournalledFor(c)
    BY DEF IInv, Journalled
  <2>3. JournalledFor(c)'
    <3>1. PICK n \in OpenPRs(c) :
            /\ cache' = cache \cup {Expected(c, n)}
            /\ run' = [run EXCEPT ![c] = [at |-> "cached", receipt |-> Expected(c, n)]]
      BY <1>Ensure DEF Ensure
    <3>2. Expected(c, n).pr = n /\ Expected(c, n).claim = c /\ n \in DOMAIN prs
      BY DEF Expected, OpenPRs
    <3>3. /\ run'[c].at = "cached" /\ run'[c].receipt = Expected(c, n)
          /\ ship' = ship /\ prs' = prs
      BY <1>Ensure, <3>1 DEF Ensure, provider, IInv, Typed, Shipped
    <3>4. InProgress(c) /\ ship[c].phase = "pushed"
      BY <1>Ensure, <2>2, Parts DEF Ensure, At, JournalledFor, Where, InProgress, Journal, Phases
    <3> QED
      BY <3>1, <3>2, <3>3, <3>4, <2>2 DEF JournalledFor, Backed, InProgress, Where
  <2>4. \A d \in Claim \ {c} : ship'[d] = ship[d] /\ run'[d] = run[d]
    BY <1>Ensure DEF Ensure, Advance, shipVars, IInv, Typed, Shipped
  <2> QED
    BY <2>1, <2>3, <2>4, Undisturbed DEF Journalled
<1>Mark. ASSUME NEW c \in Claim, Mark(c) PROVE Journalled'
  <2>1. DOMAIN prs \subseteq DOMAIN prs' /\ cache \subseteq cache'
    BY <1>Mark, Parts DEF Mark, reviewVars, IInv, Typed, Provided
  <2>2. JournalledFor(c)
    BY DEF IInv, Journalled
  <2>3. JournalledFor(c)'
    BY <1>Mark, <2>1, <2>2, PublishedLeaseAssumption
    DEF Mark, JournalledFor, Where, Backed, InProgress, At, Advance, IInv, Typed, Shipped
  <2>4. \A d \in Claim \ {c} : ship'[d] = ship[d] /\ run'[d] = run[d]
    BY <1>Mark DEF Mark, Advance, shipVars, IInv, Typed, Shipped
  <2> QED
    BY <2>1, <2>3, <2>4, Undisturbed DEF Journalled
<1>Observed. ASSUME NEW c \in Claim, Observed(c) PROVE Journalled'
  <2>1. DOMAIN prs \subseteq DOMAIN prs' /\ cache \subseteq cache'
    BY <1>Observed, Parts DEF Observed, reviewVars, provider, IInv, Typed, Provided
  <2>2. JournalledFor(c)
    BY DEF IInv, Journalled
  <2>3. JournalledFor(c)'
    BY <1>Observed, <2>1, <2>2, PublishedLeaseAssumption
    DEF Observed, JournalledFor, Where, Backed, InProgress, At, Advance, IInv, Typed,
        Shipped
  <2>4. \A d \in Claim \ {c} : ship'[d] = ship[d] /\ run'[d] = run[d]
    BY <1>Observed DEF Observed, Advance, shipVars, IInv, Typed, Shipped
  <2> QED
    BY <2>1, <2>3, <2>4, Undisturbed DEF Journalled
<1>EnterReviewing. ASSUME NEW c \in Claim, EnterReviewing(c) PROVE Journalled'
  <2>1. DOMAIN prs \subseteq DOMAIN prs' /\ cache \subseteq cache'
    BY <1>EnterReviewing, Parts DEF EnterReviewing, reviewVars, provider, IInv, Typed, Provided
  <2>2. JournalledFor(c)
    BY DEF IInv, Journalled
  <2>3. JournalledFor(c)'
    BY <1>EnterReviewing, <2>1, <2>2, PublishedLeaseAssumption
    DEF EnterReviewing, JournalledFor, Where, Backed, InProgress, At, Advance, IInv,
        Typed, Shipped
  <2>4. \A d \in Claim \ {c} : ship'[d] = ship[d] /\ run'[d] = run[d]
    BY <1>EnterReviewing DEF EnterReviewing, Advance, shipVars, IInv, Typed, Shipped
  <2> QED
    BY <2>1, <2>3, <2>4, Undisturbed DEF Journalled
<1>CompleteShip. ASSUME NEW c \in Claim, CompleteShip(c) PROVE Journalled'
  <2>1. DOMAIN prs \subseteq DOMAIN prs' /\ cache \subseteq cache'
    BY <1>CompleteShip, Parts DEF CompleteShip, reviewVars, provider, IInv, Typed, Provided
  <2>2. JournalledFor(c)
    BY DEF IInv, Journalled
  <2>3. JournalledFor(c)'
    BY <1>CompleteShip, <2>1, <2>2, PublishedLeaseAssumption
    DEF CompleteShip, JournalledFor, Where, Backed, InProgress, At, Advance, IInv, Typed,
        Shipped
  <2>4. \A d \in Claim \ {c} : ship'[d] = ship[d] /\ run'[d] = run[d]
    BY <1>CompleteShip DEF CompleteShip, Advance, shipVars, IInv, Typed, Shipped
  <2> QED
    BY <2>1, <2>3, <2>4, Undisturbed DEF Journalled
<1>ShipDies. ASSUME NEW c \in Claim, ShipDies(c) PROVE Journalled'
  <2>1. DOMAIN prs \subseteq DOMAIN prs' /\ cache \subseteq cache'
    BY <1>ShipDies, Parts DEF ShipDies, reviewVars, provider, IInv, Typed, Provided
  <2>2. JournalledFor(c)
    BY DEF IInv, Journalled
  <2>3. JournalledFor(c)'
    BY <1>ShipDies, <2>1, <2>2, PublishedLeaseAssumption
    DEF ShipDies, JournalledFor, Where, Backed, InProgress, At, Advance, IInv, Typed,
        Shipped
  <2>4. \A d \in Claim \ {c} : ship'[d] = ship[d] /\ run'[d] = run[d]
    BY <1>ShipDies DEF ShipDies, Advance, shipVars, IInv, Typed, Shipped
  <2> QED
    BY <2>1, <2>3, <2>4, Undisturbed DEF Journalled
<1>Merge. ASSUME NEW n \in DOMAIN prs, Merge(n) PROVE Journalled'
  <2>1. DOMAIN prs' = DOMAIN prs
    BY <1>Merge DEF Merge
  <2> QED
    BY <1>Merge, <2>1, Undisturbed DEF Merge, shipVars, reviewVars, Journalled
<1>Close. ASSUME NEW n \in DOMAIN prs, Close(n) PROVE Journalled'
  <2>1. DOMAIN prs' = DOMAIN prs
    BY <1>Close DEF Close
  <2> QED
    BY <1>Close, <2>1, Undisturbed DEF Close, shipVars, reviewVars, Journalled
<1>ReopenPR. ASSUME NEW n \in DOMAIN prs, ReopenPR(n) PROVE Journalled'
  <2>1. DOMAIN prs' = DOMAIN prs
    BY <1>ReopenPR DEF ReopenPR
  <2> QED
    BY <1>ReopenPR, <2>1, Undisturbed DEF ReopenPR, shipVars, reviewVars, Journalled
<1> QED
  BY <1>frame, <1>Finish, <1>AbortShip, <1>Push, <1>Prepare, <1>CreatePR, <1>Ensure,
     <1>Mark, <1>Observed, <1>EnterReviewing, <1>CompleteShip, <1>ShipDies, <1>Merge,
     <1>Close, <1>ReopenPR
  DEF Next, Owning, Shipping, Reviews, Providing, Living, vars, shipVars, reviewVars,
      provider, liveness, Bind, Release, Clear, Remove, HolderDies, Acquire, Commit,
      Steal, BareFinish, Reopen, Abandon, AbandonReleases, ResumeRelease, Takeover, ReconcileReads,
      ReconcileFetches, ReconcileProves, ReconcileFails, Pull, Land, Fold, Point, Tell,
      ObserveEligibility, Renew, Evidence, Reclaim, Lapse

\* The lease stays, and with it what its review rests on.
LEMMA StillBacked ==
  ASSUME IInv, lease' = lease,
         Reviewing => /\ ship'[lease.claim] # None
                      /\ ship'[lease.claim].phase \in {"observed", "complete"}
                      /\ ship'[lease.claim].receipt = ship[lease.claim].receipt
                      /\ prs'[lease.pub.pr].marker = prs[lease.pub.pr].marker
  PROVE  Window'
BY DEF IInv, Window, Reviewing

\* While a lease is in review, its journal and the marker stay as they are.
LEMMA WindowKept == IInv /\ Next => Window'
<1> SUFFICES ASSUME IInv, Next PROVE Window'
  OBVIOUS
<1>frame. CASE UNCHANGED <<lease, ship, prs>>
  BY <1>frame, StillBacked DEF IInv, Window
<1>Bind. CASE Bind
  BY <1>Bind, Parts DEF Bind, MoveTo, Owns, Rebuilt, Reviewing, Window, Lease
<1>Release. CASE Release
  BY <1>Release, Parts DEF Release, MoveTo, Owns, Rebuilt, Reviewing, Window, Lease
<1>Clear. CASE Clear
  BY <1>Clear DEF Clear, Reviewing, Window
<1>Remove. CASE Remove
  BY <1>Remove DEF Remove, Reviewing, Window
<1>Acquire. ASSUME NEW c \in Claim, Acquire(c) PROVE Window'
  BY <1>Acquire DEF Acquire, Mint, Reviewing, Window
<1>Steal. ASSUME NEW c \in Claim, Steal(c) PROVE Window'
  BY <1>Steal DEF Steal, Mint, Reviewing, Window
<1>Finish. ASSUME NEW c \in Claim, Finish(c) PROVE Window'
  BY <1>Finish, Parts DEF Finish, MoveTo, Owns, Rebuilt, Reviewing, Window, Lease
<1>AbortShip. ASSUME NEW c \in Claim, AbortShip(c) PROVE Window'
  <2>1. ship[c].phase = "sealed"
    BY <1>AbortShip DEF AbortShip
  <2>2. Reviewing => lease.claim # c /\ lease.claim \in Claim
    BY <2>1, Parts DEF IInv, Window, Reviewing, Lease
  <2>3. \A d \in Claim \ {c} : ship'[d] = ship[d]
    BY <1>AbortShip DEF AbortShip, IInv, Typed, Shipped
  <2> QED
    BY <1>AbortShip, <2>2, <2>3, StillBacked DEF AbortShip, provider, IInv, Window
<1>BareFinish. ASSUME NEW c \in Claim, BareFinish(c) PROVE Window'
  BY <1>BareFinish, Parts DEF BareFinish, MoveTo, Owns, Rebuilt, Reviewing, Window, Lease
<1>Push. ASSUME NEW c \in Claim, Push(c) PROVE Window'
  <2>1. ship[c].phase = "sealed"
    BY <1>Push, Parts
    DEF Push, At, InProgress, IInv, Journalled, JournalledFor, Where, Journal, Phases
  <2>2. Reviewing => lease.claim # c
    BY <2>1 DEF IInv, Window
  <2>3. \A d \in Claim \ {c} : ship'[d] = ship[d]
    BY <1>Push DEF Push, IInv, Typed, Shipped
  <2>4. Reviewing => lease.claim \in Claim /\ lease.pub.pr \in DOMAIN prs
    BY Parts DEF Reviewing, Lease, IInv, Window, Journalled, JournalledFor, Backed
  <2>5. \A n \in DOMAIN prs : prs'[n].marker = prs[n].marker
    BY <1>Push, Parts DEF Push, PullRequest, provider
  <2> QED
    BY <1>Push, <2>2, <2>3, <2>4, <2>5, StillBacked DEF Push, IInv, Window
<1>Prepare. ASSUME NEW c \in Claim, Prepare(c) PROVE Window'
  <2>1. ship[c].phase = "pushed"
    BY <1>Prepare, Parts
    DEF Prepare, At, InProgress, IInv, Journalled, JournalledFor, Where, Journal, Phases
  <2>2. Reviewing => lease.claim # c
    BY <2>1 DEF IInv, Window
  <2>3. \A d \in Claim \ {c} : ship'[d] = ship[d]
    BY <1>Prepare DEF Prepare, IInv, Typed, Shipped
  <2>4. Reviewing => lease.claim \in Claim /\ lease.pub.pr \in DOMAIN prs
    BY Parts DEF Reviewing, Lease, IInv, Window, Journalled, JournalledFor, Backed
  <2>5. \A n \in DOMAIN prs : prs'[n].marker = prs[n].marker
    BY <1>Prepare, Parts DEF Prepare, PullRequest, provider
  <2> QED
    BY <1>Prepare, <2>2, <2>3, <2>4, <2>5, StillBacked DEF Prepare, IInv, Window
<1>CreatePR. ASSUME NEW c \in Claim, CreatePR(c) PROVE Window'
  <2>1. Reviewing => lease.pub.pr \in DOMAIN prs
    BY Parts DEF Reviewing, Lease, IInv, Window, Journalled, JournalledFor, Backed
  <2>2. Reviewing => \A m \in DOMAIN prs : prs'[m].marker = prs[m].marker
    <3> DEFINE p == [claim |-> c, state |-> "OPEN", head |-> pushed[c], marker |-> None,
                     commit |-> 0]
    <3>1. prs' = prs \/ prs' = Append(prs, p)
      BY <1>CreatePR DEF CreatePR
    <3> HIDE DEF p
    <3>2. \A m \in DOMAIN prs : Append(prs, p)[m] = prs[m]
      BY DEF IInv, Typed, Provided
    <3> QED
      BY <3>1, <3>2
  <2> QED
    BY <1>CreatePR, <2>1, <2>2, StillBacked DEF CreatePR, shipVars, IInv, Window
<1>Mark. ASSUME NEW c \in Claim, Mark(c) PROVE Window'
  <2>1. Reviewing => lease.pub.pr \in DOMAIN prs
    BY Parts DEF Reviewing, Lease, IInv, Window, Journalled, JournalledFor, Backed
  <2>2. Reviewing => \A m \in DOMAIN prs : prs'[m].marker = prs[m].marker
    BY <1>Mark, Parts DEF Mark, Owns, Reviewing, PullRequest, IInv, Typed, Provided
  <2> QED
    BY <1>Mark, <2>1, <2>2, StillBacked DEF Mark, shipVars, IInv, Window
<1>Observed. ASSUME NEW c \in Claim, Observed(c) PROVE Window'
  <2>1. ship[c].phase = "pushed"
    BY <1>Observed, Parts
    DEF Observed, At, InProgress, IInv, Journalled, JournalledFor, Where, Journal, Phases
  <2>2. Reviewing => lease.claim # c /\ lease.claim \in Claim
    BY <2>1, Parts DEF IInv, Window, Reviewing, Lease
  <2>3. \A d \in Claim \ {c} : ship'[d] = ship[d]
    BY <1>Observed DEF Observed, IInv, Typed, Shipped
  <2> QED
    BY <1>Observed, <2>2, <2>3, StillBacked DEF Observed, provider, IInv, Window
<1>EnterReviewing. ASSUME NEW c \in Claim, EnterReviewing(c) PROVE Window'
  <2>1. /\ lease \in Lease /\ lease.claim = c
        /\ lease' = [lease EXCEPT !.state = "reviewing", !.pub = ship[c].receipt]
    BY <1>EnterReviewing, Parts DEF EnterReviewing, EntersReview, Owns
  <2>2. lease'.claim = c /\ lease'.pub = ship[c].receipt
    BY <2>1 DEF Lease
  <2>3. /\ ship[c] # None /\ ship[c].phase = "observed"
        /\ prs[ship[c].receipt.pr].marker = ship[c].receipt
        /\ ship' = ship /\ prs' = prs
    BY <1>EnterReviewing DEF EnterReviewing, EntersReview, Live, provider
  <2> QED
    BY <2>2, <2>3 DEF Window
<1>CompleteShip. ASSUME NEW c \in Claim, CompleteShip(c) PROVE Window'
  <2>1. ship[c] \in Journal /\ ship' = [ship EXCEPT ![c].phase = "complete"]
    BY <1>CompleteShip, Parts DEF CompleteShip, At, InProgress
  <2>2. /\ ship'[c] # None /\ ship'[c].phase = "complete"
        /\ ship'[c].receipt = ship[c].receipt
    <3>1. ship'[c] \in Journal \cup {None}
      BY ShippedKept DEF Shipped
    <3>2. ship'[c] = [ship[c] EXCEPT !.phase = "complete"]
      BY <2>1 DEF IInv, Typed, Shipped
    <3>3. [ship[c] EXCEPT !.phase = "complete"] # None
      BY PublishedLeaseAssumption, <2>1 DEF Journal, Phases
    <3> QED
      BY <2>1, <3>2, <3>3 DEF Journal
  <2>3. \A d \in Claim \ {c} : ship'[d] = ship[d]
    BY <2>1 DEF IInv, Typed, Shipped
  <2>4. Reviewing => lease.claim \in Claim
    BY Parts DEF Reviewing, Lease
  <2> QED
    BY <1>CompleteShip, <2>2, <2>3, <2>4, StillBacked DEF CompleteShip, provider, IInv, Window
<1>Reopen. CASE Reopen
  BY <1>Reopen, Parts DEF Reopen, MoveTo, Owns, Rebuilt, Reviewing, Window, Lease
<1>AbandonReleases. CASE AbandonReleases
  BY <1>AbandonReleases, Parts DEF AbandonReleases, MoveTo, Owns, Rebuilt, Reviewing, Window, Lease
<1>ResumeRelease. CASE ResumeRelease
  BY <1>ResumeRelease DEF ResumeRelease, Reviewing, Window
<1>Takeover. ASSUME NEW c \in Claim, Takeover(c) PROVE Window'
  BY <1>Takeover DEF Takeover, Mint, Reviewing, Window
<1>Merge. ASSUME NEW n \in DOMAIN prs, Merge(n) PROVE Window'
  <2>1. Reviewing => lease.pub.pr \in DOMAIN prs
    BY Parts DEF Reviewing, Lease, IInv, Window, Journalled, JournalledFor, Backed
  <2>2. Reviewing => \A m \in DOMAIN prs : prs'[m].marker = prs[m].marker
    BY <1>Merge, Parts DEF Merge, PullRequest, IInv, Typed, Provided
  <2> QED
    BY <1>Merge, <2>1, <2>2, StillBacked DEF Merge, shipVars, IInv, Window
<1>Close. ASSUME NEW n \in DOMAIN prs, Close(n) PROVE Window'
  <2>1. Reviewing => lease.pub.pr \in DOMAIN prs
    BY Parts DEF Reviewing, Lease, IInv, Window, Journalled, JournalledFor, Backed
  <2>2. Reviewing => \A m \in DOMAIN prs : prs'[m].marker = prs[m].marker
    BY <1>Close, Parts DEF Close, PullRequest, IInv, Typed, Provided
  <2> QED
    BY <1>Close, <2>1, <2>2, StillBacked DEF Close, shipVars, IInv, Window
<1>ReopenPR. ASSUME NEW n \in DOMAIN prs, ReopenPR(n) PROVE Window'
  <2>1. Reviewing => lease.pub.pr \in DOMAIN prs
    BY Parts DEF Reviewing, Lease, IInv, Window, Journalled, JournalledFor, Backed
  <2>2. Reviewing => \A m \in DOMAIN prs : prs'[m].marker = prs[m].marker
    BY <1>ReopenPR, Parts DEF ReopenPR, PullRequest, IInv, Typed, Provided
  <2> QED
    BY <1>ReopenPR, <2>1, <2>2, StillBacked DEF ReopenPR, shipVars, IInv, Window
<1>Reclaim. ASSUME NEW c \in Claim, Reclaim(c) PROVE Window'
  BY <1>Reclaim DEF Reclaim, Mint, Reviewing, Window
<1> QED
  BY <1>frame, <1>Bind, <1>Release, <1>Clear, <1>Remove, <1>Acquire, <1>Steal, <1>Finish,
     <1>BareFinish, <1>AbortShip, <1>Push, <1>Prepare, <1>CreatePR, <1>Mark, <1>Observed,
     <1>EnterReviewing, <1>CompleteShip, <1>Reopen, <1>AbandonReleases, <1>ResumeRelease,
     <1>Takeover, <1>Merge, <1>Close, <1>ReopenPR, <1>Reclaim
  DEF Next, Owning, Shipping, Reviews, Providing, Living, vars, shipVars, reviewVars,
      provider, liveness, HolderDies, Commit, Ensure, ShipDies, Abandon, ReconcileReads,
      ReconcileFetches, ReconcileProves, ReconcileFails, Pull, Land, Fold, Point, Tell,
      ObserveEligibility, Renew, Evidence, Lapse

\* The record of the end of a review comes before it.
LEMMA RecordedKept == IInv /\ Next => Recorded'
<1> SUFFICES ASSUME IInv, Next PROVE Recorded'
  OBVIOUS
<1>frame. CASE UNCHANGED <<lease, doing, lineage, integrated, trunk>>
  BY <1>frame DEF IInv, Recorded, Reviewing, Merged
<1>Bind. CASE Bind
  BY <1>Bind, PublishedLeaseAssumption, Parts
  DEF Bind, MoveTo, Owns, Free, Rebuilt, reviewVars, provider, Merged, IInv, Typed,
      Owned, Recorded, Reviewing, Lease
<1>Release. CASE Release
  BY <1>Release, PublishedLeaseAssumption, Parts
  DEF Release, MoveTo, Owns, Free, Rebuilt, reviewVars, provider, Merged, IInv, Typed,
      Owned, Recorded, Reviewing, Lease
<1>Clear. CASE Clear
  BY <1>Clear, PublishedLeaseAssumption
  DEF Clear, EntersReview, Free, Owns, Abandonable, Rebuilt, reviewVars, provider,
      Merged, IInv, Typed, Owned, Recorded, Reviewing, Lease
<1>Remove. CASE Remove
  BY <1>Remove, PublishedLeaseAssumption
  DEF Remove, EntersReview, Free, Owns, Abandonable, Rebuilt, reviewVars, provider,
      Merged, IInv, Typed, Owned, Recorded, Reviewing, Lease
<1>HolderDies. CASE HolderDies
  BY <1>HolderDies, PublishedLeaseAssumption
  DEF HolderDies, EntersReview, Free, Owns, Abandonable, Rebuilt, reviewVars, provider,
      Merged, IInv, Typed, Owned, Recorded, Reviewing, Lease
<1>Acquire. ASSUME NEW c \in Claim, Acquire(c) PROVE Recorded'
  BY <1>Acquire, PublishedLeaseAssumption
  DEF Acquire, Mint, Free, reviewVars, provider, Merged, IInv, Typed, Owned, Recorded,
      Reviewing, Lease
<1>Steal. ASSUME NEW c \in Claim, Steal(c) PROVE Recorded'
  BY <1>Steal, PublishedLeaseAssumption
  DEF Steal, Mint, Free, reviewVars, provider, Merged, IInv, Typed, Owned, Recorded,
      Reviewing, Lease
<1>Finish. ASSUME NEW c \in Claim, Finish(c) PROVE Recorded'
  BY <1>Finish, PublishedLeaseAssumption, Parts
  DEF Finish, MoveTo, Owns, Free, Rebuilt, reviewVars, provider, Merged, IInv, Typed,
      Owned, Recorded, Reviewing, Lease
<1>BareFinish. ASSUME NEW c \in Claim, BareFinish(c) PROVE Recorded'
  BY <1>BareFinish, PublishedLeaseAssumption, Parts
  DEF BareFinish, MoveTo, Owns, Free, Rebuilt, reviewVars, provider, Merged, IInv, Typed,
      Owned, Recorded, Reviewing, Lease
<1>EnterReviewing. ASSUME NEW c \in Claim, EnterReviewing(c) PROVE Recorded'
  BY <1>EnterReviewing, PublishedLeaseAssumption
  DEF EnterReviewing, EntersReview, Free, Owns, Abandonable, Rebuilt, reviewVars,
      provider, Merged, IInv, Typed, Owned, Recorded, Reviewing, Lease
<1>Reopen. CASE Reopen
  BY <1>Reopen, PublishedLeaseAssumption, Parts
  DEF Reopen, MoveTo, Owns, Free, Rebuilt, reviewVars, provider, Merged, IInv, Typed,
      Owned, Recorded, Reviewing, Lease
<1>Abandon. CASE Abandon
  BY <1>Abandon, PublishedLeaseAssumption
  DEF Abandon, EntersReview, Free, Owns, Abandonable, Rebuilt, reviewVars, provider,
      Merged, IInv, Typed, Owned, Recorded, Reviewing, Lease
<1>AbandonReleases. CASE AbandonReleases
  BY <1>AbandonReleases, PublishedLeaseAssumption, Parts
  DEF AbandonReleases, MoveTo, Owns, Free, Rebuilt, reviewVars, provider, Merged, IInv,
      Typed, Owned, Recorded, Reviewing, Lease
<1>ResumeRelease. CASE ResumeRelease
  BY <1>ResumeRelease, PublishedLeaseAssumption
  DEF ResumeRelease, EntersReview, Free, Owns, Abandonable, Rebuilt, reviewVars,
      provider, Merged, IInv, Typed, Owned, Recorded, Reviewing, Lease
<1>Takeover. ASSUME NEW c \in Claim, Takeover(c) PROVE Recorded'
  BY <1>Takeover, PublishedLeaseAssumption
  DEF Takeover, Mint, Free, reviewVars, provider, Merged, IInv, Typed, Owned, Recorded,
      Reviewing, Lease
<1>ReconcileProves. ASSUME NEW r \in Reconciler, ReconcileProves(r) PROVE Recorded'
  <2>1. /\ integrated' = integrated \cup {[pub |-> watch[r].pub, oid |-> watch[r].oid]}
        /\ Reviewing /\ lease.pub = watch[r].pub /\ watch[r].oid = Len(trunk)
        /\ Merged(watch[r].pub, watch[r].oid)
        /\ doing' = "remove" /\ lease' = lease /\ trunk' = trunk
    BY <1>ReconcileProves DEF ReconcileProves, StillReviewed, Tip, provider
  <2>2. watch[r].oid \in DOMAIN trunk
    BY <2>1, Parts
  <2> QED
    <3>1. \A o \in integrated' : o.oid \in DOMAIN trunk /\ Merged(o.pub, o.oid)
      BY <2>1, <2>2 DEF IInv, Recorded
    <3>2. \A o \in integrated' : o.oid \in DOMAIN trunk' /\ Merged(o.pub, o.oid)'
      BY <2>1, <3>1 DEF Merged
    <3>3. \E o \in integrated' : o.pub = lease.pub
      <4> DEFINE o == [pub |-> watch[r].pub, oid |-> watch[r].oid]
      <4>1. o \in integrated' /\ o.pub = lease.pub
        BY <2>1
      <4> QED
        BY <4>1
    <3> QED
      BY <2>1, <3>2, <3>3, PublishedLeaseAssumption DEF Recorded
<1>Land. ASSUME NEW c \in Claim, Land(c) PROVE Recorded'
  <2>1. PICK new \in {{}, Branch(c, pushed[c])} : Extend(new)
    BY <1>Land DEF Land
  <2>2. new \subseteq Claim \X (1..MaxHead)
    BY PublishedLeaseAssumption DEF Branch, IInv, Typed, Provided
  <2>3. \A o \in integrated : o.oid \in DOMAIN trunk' /\ Merged(o.pub, o.oid)'
    BY <2>1, <2>2, Extended DEF IInv, Recorded, Merged
  <2> QED
    BY <1>Land, <2>3 DEF Land, reviewVars, IInv, Recorded, Reviewing
<1>Merge. ASSUME NEW n \in DOMAIN prs, Merge(n) PROVE Recorded'
  <2>1. Branch(prs[n].claim, prs[n].head) \subseteq Claim \X (1..MaxHead)
    BY Parts, PublishedLeaseAssumption DEF PullRequest, Branch
  <2>2. Extend(Branch(prs[n].claim, prs[n].head))
    BY <1>Merge DEF Merge
  <2>3. \A o \in integrated : o.oid \in DOMAIN trunk' /\ Merged(o.pub, o.oid)'
    BY <2>1, <2>2, Extended DEF IInv, Recorded, Merged
  <2> QED
    BY <1>Merge, <2>3 DEF Merge, reviewVars, IInv, Recorded, Reviewing
<1>Fold. CASE Fold
  BY <1>Fold, PublishedLeaseAssumption
  DEF Fold, EntersReview, Free, Owns, Abandonable, Rebuilt, reviewVars, provider, Merged,
      IInv, Typed, Owned, Recorded, Reviewing, Lease
<1>Point. CASE Point
  BY <1>Point, PublishedLeaseAssumption
  DEF Point, EntersReview, Free, Owns, Abandonable, Rebuilt, reviewVars, provider,
      Merged, IInv, Typed, Owned, Recorded, Reviewing, Lease
<1>Tell. CASE Tell
  BY <1>Tell, PublishedLeaseAssumption
  DEF Tell, EntersReview, Free, Owns, Abandonable, Rebuilt, reviewVars, provider,
      Merged, IInv, Typed, Owned, Recorded, Reviewing, Lease
<1>Renew. ASSUME NEW c \in Claim, Renew(c) PROVE Recorded'
  BY <1>Renew, PublishedLeaseAssumption
  DEF Renew, EntersReview, Free, Owns, Abandonable, Rebuilt, reviewVars, provider,
      Merged, IInv, Typed, Owned, Recorded, Reviewing, Lease
<1>Reclaim. ASSUME NEW c \in Claim, Reclaim(c) PROVE Recorded'
  BY <1>Reclaim, PublishedLeaseAssumption
  DEF Reclaim, Mint, Free, reviewVars, provider, Merged, IInv, Typed, Owned, Recorded,
      Reviewing, Lease
<1> QED
  BY <1>frame, <1>Bind, <1>Release, <1>Clear, <1>Remove, <1>HolderDies, <1>Acquire,
     <1>Steal, <1>Finish, <1>BareFinish, <1>EnterReviewing, <1>Reopen, <1>Abandon,
     <1>AbandonReleases, <1>ResumeRelease, <1>Takeover, <1>ReconcileProves, <1>Land,
     <1>Merge, <1>Fold, <1>Point, <1>Tell, <1>Renew, <1>Reclaim
  DEF Next, Owning, Shipping, Reviews, Providing, Living, vars, shipVars, reviewVars,
      provider, liveness, Commit, AbortShip, Push, Prepare, CreatePR, Ensure, Mark, Observed,
      CompleteShip, ShipDies, ReconcileReads, ReconcileFetches, ReconcileFails, Pull,
      Close, ReopenPR, ObserveEligibility, Evidence, Lapse

LEMMA Invariance == Spec => []IInv
<1>1. IInv /\ [Next]_vars => IInv'
  <2>1. IInv /\ Next => IInv'
    BY OwnedKept, ShippedKept, ProvidedKept, ReviewedKept, LivedKept, PointedKept,
       JournalledKept, WindowKept, RecordedKept
    DEF IInv, Typed
  <2>2. IInv /\ UNCHANGED vars => IInv'
    <3> SUFFICES ASSUME IInv, UNCHANGED vars PROVE IInv'
      OBVIOUS
    <3> USE DEF vars, shipVars, reviewVars, provider, liveness
    <3>1. Typed'
      BY DEF IInv, Typed, Owned, Shipped, Provided, Reviewed, Lived, Reviewing
    <3>2. Journalled'
      BY Undisturbed DEF Journalled
    <3>3. Window'
      BY StillBacked DEF IInv, Window
    <3>4. Recorded' /\ Pointed'
      BY DEF IInv, Recorded, Pointed, Answered, Orderly, Reviewing, Merged
    <3> QED
      BY <3>1, <3>2, <3>3, <3>4 DEF IInv
  <2> QED
    BY <2>1, <2>2
<1> QED
  BY Start, <1>1, PTL DEF Spec

\* Every variable has its type, and a lease is in review exactly when it names
\* a publication.
THEOREM TypeCorrect == Spec => []TypeOK
<1>1. IInv => TypeOK
  BY DEF IInv, Typed, Owned, Provided, Reviewed, Lived, TypeOK, Lease
<1> QED
  BY <1>1, Invariance, PTL

\* A lease in review can be rebuilt: its publication is its claim's, cached,
\* in the journal and marked on the pull request
\* (enterPublicationReviewingWithProof).
THEOREM ReviewBacked == Spec => []ReviewIsBacked
<1>1. IInv => ReviewIsBacked
  BY Parts DEF IInv, Window, Journalled, JournalledFor, Backed, ReviewIsBacked, Reviewing,
               Lease
<1> QED
  BY <1>1, Invariance, PTL

\* A review ends on durable record, whatever dies in between
\* (abandonPublication, reconcilePublication).
THEOREM ReviewEndIsRecorded == Spec => ReviewEndsOnRecord
<1>1. IInv /\ [Next]_vars
        => [Reviewing /\ (lease' = None \/ lease'.state = "released")
              => OnRecord(lease.pub)]_vars
  <2> SUFFICES ASSUME IInv, Next, Reviewing, lease' = None \/ lease'.state = "released"
               PROVE  OnRecord(lease.pub)
    OBVIOUS
  <2>1. lease \in Lease /\ lease.state = "reviewing" /\ lease # None
    BY Parts DEF Reviewing
  <2>2. lease' # lease
    BY <2>1
  <2>3. \A c \in Claim : ~Mint(c)
    BY PublishedLeaseAssumption DEF Mint, Lease, States
  <2>4. CASE Remove
    <3>1. PICK o \in integrated : o.pub = lease.pub
      BY <2>4 DEF Remove, IInv, Recorded
    <3> QED
      BY <3>1 DEF OnRecord, IInv, Recorded
  <2>5. CASE AbandonReleases
    BY <2>5 DEF AbandonReleases, IInv, Recorded, OnRecord
  <2>6. CASE ResumeRelease
    BY <2>6 DEF ResumeRelease, IInv, Recorded, OnRecord
  <2>7. CASE Reopen
    <3>1. lease' = [lease EXCEPT !.state = "bound", !.pub = None]
      BY <2>7 DEF Reopen, MoveTo
    <3>2. lease' \in Lease /\ lease'.state = "bound"
      BY <2>1, <3>1 DEF Lease, States
    <3> QED
      BY <3>2, PublishedLeaseAssumption DEF Lease
  <2>8. ASSUME NEW c \in Claim, EnterReviewing(c) PROVE FALSE
    <3>1. /\ lease' = [lease EXCEPT !.state = "reviewing", !.pub = ship[c].receipt]
          /\ ship[c].receipt \in Receipt
      BY <2>8 DEF EnterReviewing, EntersReview, IInv, Typed, Reviewed, Journalled,
                  JournalledFor, Backed
    <3>2. lease' \in Lease /\ lease'.state = "reviewing"
      BY <2>1, <3>1 DEF Lease, States
    <3> QED
      BY <3>2, PublishedLeaseAssumption DEF Lease
  <2> QED
    BY <2>1, <2>2, <2>3, <2>4, <2>5, <2>6, <2>7, <2>8
    DEF Next, Owning, Shipping, Reviews, Providing, Living, Owns, Bind, Release, Clear,
        HolderDies, Acquire, Commit, Steal, Finish, BareFinish, AbortShip, Push, Prepare, CreatePR,
        Ensure, Mark, Observed, CompleteShip, ShipDies, Abandon, Takeover, ReconcileReads,
        ReconcileFetches, ReconcileProves, ReconcileFails, Pull, Land, Merge, Close,
        ReopenPR, Fold, Point, Tell, ObserveEligibility, Renew, Evidence, Reclaim, Lapse
<1> QED
  BY <1>1, Invariance, PTL DEF Spec, ReviewEndsOnRecord

\* An owner is reclaimed only after every renewal it was told of lapsed and
\* while its work is proved over, wherever a later renewal died
\* (automaticReclaimLease, assertReclaimReceiptCurrent).
THEOREM RenewalIsHeld == Spec => RenewalProtects
<1>1. IInv /\ [Next]_vars
        => [\A c \in Claim : Reclaim(c) =>
              /\ \A n \in 1..acked[lease.claim] : <<lease.claim, n>> \in lapsed
              /\ lease.claim \in quiet]_vars
  <2> SUFFICES ASSUME IInv, NEW c \in Claim, Reclaim(c)
               PROVE  /\ \A n \in 1..acked[lease.claim] : <<lease.claim, n>> \in lapsed
                      /\ lease.claim \in quiet
    OBVIOUS
  <2>1. /\ pointer # None /\ pointer \in lapsed /\ pointer[1] \in quiet
        /\ pointer[1] = lease.claim
    BY DEF Reclaim, Consumable, Reclaimable, Selected
  <2>2. /\ acked[lease.claim] <= pointer[2] /\ acked[lease.claim] \in 0..MaxRenewal
        /\ pointer \in Claim \X (1..MaxRenewal)
    BY <2>1 DEF IInv, Pointed, Answered, Typed, Lived
  <2>3. \A n \in 1..(pointer[2] - 1) : <<lease.claim, n>> \in lapsed
    BY <2>1, <2>2 DEF IInv, Pointed, Orderly
  <2>4. <<lease.claim, pointer[2]>> \in lapsed
    BY <2>1, <2>2
  <2>5. \A n \in 1..acked[lease.claim] : n = pointer[2] \/ n \in 1..(pointer[2] - 1)
    BY <2>2, PublishedLeaseAssumption
  <2> QED
    BY <2>1, <2>3, <2>4, <2>5
<1> QED
  BY <1>1, Invariance, PTL DEF Spec, RenewalProtects
=============================================================================
