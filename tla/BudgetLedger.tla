---------------------------- MODULE BudgetLedger ----------------------------
(***************************************************************************)
(* The budget of one automation run on disk (budget-store.ts) and the      *)
(* verbs of concurrent processes on it.  Reservations, usage events,       *)
(* reconciliations, budgets and the stop receipt are create-once files;    *)
(* current.json is a projection of them, replaced last.  Every verb runs   *)
(* under the run's lock and first brings the projection up to date; each   *)
(* file it writes is a step, and the process may die before any of them.   *)
(* The lock is one step to take and to give back, and a dead holder loses  *)
(* it: that is LockService, which DirLock implements.  An I/O error leaves *)
(* what a death at the same point leaves.                                  *)
(*                                                                         *)
(* The events directory is append-only and its entries are ordered by the  *)
(* step they completed, so its fold is kept with it (ledger).  Left out:   *)
(* the first publication of a budget, campaigns, the checks of grants and  *)
(* contracts, and the identity of units, providers and evidence.           *)
(***************************************************************************)
EXTENDS BudgetMetrics, FiniteSets

CONSTANTS
  Proc,         \* the processes that call the store
  Key,          \* idempotency keys of the operations
  Op,           \* the operations they ask for
  Outcomes,     \* the outcomes they observe
  MaxRev,       \* revisions of the budget are 1 .. MaxRev
  Limit,        \* the limits of each revision
  StreakLimit,  \* and of consecutive operations without progress
  Deadline,     \* the time at which each revision expires
  MaxClock,     \* bound on time
  NoKey,        \* no key
  NoRecord,     \* no file of that name
  Nobody        \* nobody holds the run's lock

Rev == 1 .. MaxRev
Time == 0 .. MaxClock
Reservation == [op : Op, rev : Rev, step : Nat, at : Time]
Event == [outcome : Outcomes, resolution : Resolution]
Decision == Resolution \ {"observed"}
States == {"active", "reconciliation_required", "budget_exhausted"}
Verbs == {"none", "reserve", "append", "reconcile", "publish", "repair"}
Phases == {"free", "status", "sealFirst", "adoptFirst", "act", "count", "list",
           "charge", "fold", "seal", "adopt", "revise"}

ASSUME LedgerAssumption ==
  /\ MaxRev \in Nat \ {0} /\ MaxClock \in Nat
  /\ Op \subseteq Operation /\ Outcomes \subseteq Outcome
  /\ Limit \in [Rev -> Vector]
  /\ StreakLimit \in [Rev -> Nat \ {0}]
  /\ Deadline \in [Rev -> Nat \ {0}]
  /\ IsFiniteSet(Key)
  /\ NoKey \notin Key
  /\ NoRecord \notin Reservation \cup Event \cup Decision
  /\ NoRecord \notin Op
  /\ Nobody \notin Proc

VARIABLES
  res,      \* reservations by key
  index,    \* their index by digest: the record it resolves for each key
  evt,      \* the usage event of each reservation
  ledger,   \* what the fold of all events returns
  decided,  \* the reconciliation of each reservation
  receipt,  \* the stop receipt exists
  budgets,  \* the published revisions
  cur,      \* current.json
  stamp,    \* the newest timestamp on a reservation or event
  clock,    \* the store clock
  lock,     \* the holder of the run's lock
  phase,    \* how far its verb has come
  job,      \* the key it works on, and the outcome it charges
  want      \* the call each process makes

records == <<res, index, evt, ledger, decided, receipt, budgets, stamp>>
vars == <<records, cur, clock, lock, phase, job, want>>

Idle == [verb |-> "none", at |-> 0, rev |-> 1]
NoJob == [key |-> NoKey, outcome |-> "none"]

Init ==
  /\ res = [k \in Key |-> NoRecord] /\ index = res /\ evt = res /\ decided = res
  /\ ledger = [count |-> 0, consumed |-> Zero, streak |-> 0]
  /\ receipt = FALSE
  /\ budgets = {1}
  /\ cur = [rev |-> 1, state |-> "active", count |-> 0, consumed |-> Zero,
            streak |-> 0, open |-> NoKey, receipt |-> FALSE, at |-> 0]
  /\ stamp = 0 /\ clock = 0
  /\ lock = Nobody /\ phase = "free" /\ job = NoJob
  /\ want = [p \in Proc |-> Idle]

-----------------------------------------------------------------------------
(* What the records say.                                                    *)

Stored == {k \in Key : res[k] # NoRecord}
Open == {k \in Stored : evt[k] = NoRecord}
Undecided == {k \in Key : decided[k] # NoRecord /\ evt[k] = NoRecord}
Resolves(k) == res[k] # NoRecord /\ index[k] = res[k]

Exhausted(c, t) ==
  \/ t >= Deadline[c.rev]
  \/ c.streak >= StreakLimit[c.rev]
  \/ \E m \in Metric : c.consumed[m] >= Limit[c.rev][m]

\* The projection counts something the disk does not have: no write order
\* leaves that, and every verb and every read refuses it.
Corrupt(c) ==
  \/ c.rev \notin budgets
  \/ c.receipt /\ ~receipt
  \/ ledger.count < c.count
  \/ Cardinality(Stored) < ledger.count
  \/ \E k \in Key : /\ evt[k] # NoRecord \/ decided[k] # NoRecord \/ k = c.open
                    /\ ~Resolves(k)

\* Mutated: a reservation the projection does not list is overlooked.
DriftedByEvents(c, t) ==
  \/ ~c.receipt /\ receipt
  \/ ledger.count > c.count
  \/ Undecided # {}
  \/ ~c.receipt /\ Exhausted(c, t)

\* The projection has not adopted something the disk has.
Drifted(c, t) ==
  \/ ~c.receipt /\ receipt
  \/ ledger.count > c.count
  \/ Cardinality(Stored) > ledger.count + (IF c.open = NoKey THEN 0 ELSE 1)
  \/ Undecided # {}
  \/ ~c.receipt /\ Exhausted(c, t)

\* The records determine a projection.
Derivable ==
  \A j, k \in Open : j = k /\ res[k].step = ledger.count + 1

Derive(c, t) ==
  [rev |-> c.rev,
   state |-> IF receipt THEN "budget_exhausted"
             ELSE IF Open = {} /\ Undecided = {} THEN "active"
             ELSE "reconciliation_required",
   count |-> ledger.count, consumed |-> ledger.consumed,
   streak |-> ledger.streak,
   open |-> IF Open = {} THEN NoKey ELSE CHOOSE k \in Open : TRUE,
   receipt |-> receipt, at |-> t]

-----------------------------------------------------------------------------
(* Calls and the lock.                                                      *)

\* These sample the clock before they wait for the lock, the others under it.
SamplesEarly == {"append", "reconcile", "publish"}

Request(p, verb) ==
  /\ want[p] = Idle
  /\ verb \in {"append", "reconcile"} => Stored # {}
  /\ verb = "publish" => cur.rev < MaxRev
  /\ want' = [want EXCEPT ![p] =
       [verb |-> verb,
        at |-> IF verb \in SamplesEarly THEN clock ELSE 0,
        rev |-> IF verb \in {"reserve", "publish"} THEN cur.rev ELSE 1]]
  /\ UNCHANGED <<records, cur, clock, lock, phase, job>>

\* Mutated: the time is rounded up.
TakeRoundsUp(p) ==
  /\ lock = Nobody /\ want[p] # Idle
  /\ lock' = p /\ phase' = "status"
  /\ want' = [want EXCEPT ![p].at = clock + 1]
  /\ UNCHANGED <<records, cur, clock, job>>

Take(p) ==
  /\ lock = Nobody /\ want[p] # Idle
  /\ lock' = p /\ phase' = "status"
  /\ want' = [want EXCEPT ![p].at = IF want[p].verb \in SamplesEarly THEN @ ELSE clock]
  /\ UNCHANGED <<records, cur, clock, job>>

Now == want[lock].at
Expected == want[lock].rev
Acting(verb) == phase = "act" /\ want[lock].verb = verb

\* The last step of a verb gives the lock back.
Done ==
  /\ lock' = Nobody /\ phase' = "free" /\ job' = NoJob
  /\ want' = [want EXCEPT ![lock] = Idle]
Goes(to) == phase' = to /\ UNCHANGED <<lock, want>>

\* A process dies; its lock is reclaimed.
Die(p) ==
  /\ want[p] # Idle
  /\ want' = [want EXCEPT ![p] = Idle]
  /\ IF lock = p THEN lock' = Nobody /\ phase' = "free" /\ job' = NoJob
     ELSE UNCHANGED <<lock, phase, job>>
  /\ UNCHANGED <<records, cur, clock>>

Tick ==
  /\ clock < MaxClock
  /\ clock' = clock + 1
  /\ UNCHANGED <<records, cur, lock, phase, job, want>>

-----------------------------------------------------------------------------
(* What every verb does first.                                              *)

\* The time sampled precedes a durable record, or the records do not add up.
Refuse ==
  /\ phase = "status"
  /\ \/ Corrupt(cur) \/ Now < cur.at
     \/ Drifted(cur, Now) /\ ~(Derivable /\ Now >= stamp)
  /\ Done
  /\ UNCHANGED <<records, cur, clock>>

Agree ==
  /\ phase = "status"
  /\ ~Corrupt(cur) /\ Now >= cur.at /\ ~Drifted(cur, Now)
  /\ Goes("act")
  /\ UNCHANGED <<records, cur, clock, job>>

Repair ==
  /\ phase = "status"
  /\ ~Corrupt(cur) /\ Now >= cur.at /\ Drifted(cur, Now)
  /\ Derivable /\ Now >= stamp
  /\ cur' = Derive(cur, Now)
  /\ Goes(IF ~receipt /\ Exhausted(cur', Now) THEN "sealFirst" ELSE "act")
  /\ UNCHANGED <<records, clock, job>>

\* The stop receipt, and then the projection that names it.
Seal ==
  /\ phase \in {"sealFirst", "seal"}
  /\ receipt' = TRUE
  /\ Goes(IF phase = "seal" THEN "adopt" ELSE "adoptFirst")
  /\ UNCHANGED <<res, index, evt, ledger, decided, budgets, stamp, cur, clock, job>>

Adopt ==
  /\ phase \in {"adoptFirst", "adopt"}
  /\ cur' = [cur EXCEPT !.state = "budget_exhausted", !.receipt = TRUE, !.at = Now]
  /\ IF phase = "adopt" THEN Done ELSE Goes("act") /\ UNCHANGED job
  /\ UNCHANGED <<records, clock>>

-----------------------------------------------------------------------------
(* Admission.                                                               *)

\* Mutated: what the operation may cost is not added.
FitsSpent(op) == AtMost(cur.consumed, Limit[cur.rev])

Fits(op) == AtMost(Plus(cur.consumed, Reserved(op)), Limit[cur.rev])

\* Mutated: a run that awaits reconciliation admits.
AdmissibleWhenOpen == Expected = cur.rev /\ cur.state # "budget_exhausted"

Admissible ==
  /\ Expected = cur.rev
  /\ cur.state = "active" /\ cur.open = NoKey

InTime == Now < Deadline[cur.rev] /\ cur.streak < StreakLimit[cur.rev]

\* The index entry is linked before the name that is counted.
Index(k, op) ==
  /\ Acting("reserve") /\ Admissible /\ InTime /\ Fits(op)
  /\ res[k] = NoRecord
  /\ index' = [index EXCEPT ![k] =
       [op |-> op, rev |-> cur.rev, step |-> cur.count + 1, at |-> Now]]
  /\ job' = [job EXCEPT !.key = k]
  /\ Goes("count")
  /\ UNCHANGED <<res, evt, ledger, decided, receipt, budgets, stamp, cur, clock>>

Count ==
  /\ phase = "count"
  /\ res' = [res EXCEPT ![job.key] = index[job.key]]
  /\ stamp' = Now
  /\ Goes("list")
  /\ UNCHANGED <<index, evt, ledger, decided, receipt, budgets, cur, clock, job>>

List ==
  /\ phase = "list"
  /\ cur' = [cur EXCEPT !.state = "active", !.open = job.key, !.receipt = FALSE, !.at = Now]
  /\ Done
  /\ UNCHANGED <<records, clock>>

\* An operation that does not fit stops the run.
Exceed ==
  /\ Acting("reserve") /\ Admissible
  /\ InTime => \E op \in Op : ~Fits(op)
  /\ Goes("seal")
  /\ UNCHANGED <<records, cur, clock, job>>

\* Refused, or answered with the reservation the key already has.
ReserveReturns ==
  /\ Acting("reserve")
  /\ \/ ~Admissible
     \/ InTime /\ Stored # {} /\ \E op \in Op : Fits(op)
  /\ Done
  /\ UNCHANGED <<records, cur, clock>>

-----------------------------------------------------------------------------
(* Settlement.                                                              *)

\* Mutated: the recorded decision is not read.
ChargeableAsAsked(k, resolution) ==
  Resolves(k) /\ evt[k] = NoRecord /\ res[k].rev = cur.rev /\ cur.open = k

\* A recorded decision binds; a settled reservation only replays.
Chargeable(k, resolution) ==
  /\ Resolves(k)
  /\ decided[k] \in {NoRecord, resolution}
  /\ evt[k] = NoRecord
  /\ res[k].rev = cur.rev
  /\ cur.open = k

WriteEvent(k, o, r) ==
  /\ evt' = [evt EXCEPT ![k] = [outcome |-> o, resolution |-> r]]
  /\ ledger' = [count |-> ledger.count + 1,
                consumed |-> Plus(ledger.consumed, Charge(res[k].op, o, r)),
                streak |-> Streak(ledger.streak, o)]
  /\ stamp' = IF Now > stamp THEN Now ELSE stamp
  /\ Goes("fold")
  /\ UNCHANGED <<res, index, decided, receipt, budgets, cur, clock>>

Observe(k, o) ==
  /\ Acting("append") /\ Chargeable(k, "observed")
  /\ WriteEvent(k, o, "observed")
  /\ job' = [job EXCEPT !.key = k]

Decide(k, o, r) ==
  /\ Acting("reconcile") /\ Chargeable(k, r)
  /\ decided' = [decided EXCEPT ![k] = r]
  /\ job' = [key |-> k, outcome |-> o]
  /\ Goes("charge")
  /\ UNCHANGED <<res, index, evt, ledger, receipt, budgets, stamp, cur, clock>>

ChargeDecided ==
  /\ phase = "charge"
  /\ WriteEvent(job.key, job.outcome, decided[job.key])
  /\ UNCHANGED job

\* The charge reaches the projection; a limit it reaches ends the run.
Fold ==
  /\ phase = "fold"
  /\ LET e == evt[job.key] IN
       cur' = [cur EXCEPT
         !.state = IF receipt THEN "budget_exhausted" ELSE "active",
         !.consumed = Plus(@, Charge(res[job.key].op, e.outcome, e.resolution)),
         !.streak = Streak(@, e.outcome),
         !.open = NoKey, !.count = @ + 1, !.at = Now]
  /\ IF ~receipt /\ Exhausted(cur', Now) THEN Goes("seal") /\ UNCHANGED job ELSE Done
  /\ UNCHANGED <<records, clock>>

\* A conflict, or a replay of what is settled.  A decision on record is also
\* refused when it comes with other evidence.
SettleReturns ==
  /\ \E k \in Stored :
       \/ Acting("append") /\ ~Chargeable(k, "observed")
       \/ Acting("reconcile") /\ \E r \in Decision :
            ~Chargeable(k, r) \/ decided[k] # NoRecord
  /\ Done
  /\ UNCHANGED <<records, cur, clock>>

-----------------------------------------------------------------------------
(* Revisions, and the repair an operator asks for.                          *)

Mint ==
  /\ Acting("publish")
  /\ budgets' = budgets \cup {Expected + 1}
  /\ Goes("revise")
  /\ UNCHANGED <<res, index, evt, ledger, decided, receipt, stamp, cur, clock, job>>

\* Mutated: an operation in flight does not hold a revision up.
SupersedingAnyway == Expected = cur.rev /\ ~cur.receipt

Superseding == Expected = cur.rev /\ ~cur.receipt /\ cur.open = NoKey

Revise ==
  /\ phase = "revise" /\ Superseding
  /\ cur' = [cur EXCEPT !.rev = Expected + 1, !.state = "active",
                        !.receipt = FALSE, !.at = Now]
  /\ Done
  /\ UNCHANGED <<records, clock>>

ReviseReturns ==
  /\ phase = "revise" /\ ~Superseding
  /\ Done
  /\ UNCHANGED <<records, cur, clock>>

RepairReturns ==
  /\ Acting("repair")
  /\ Done
  /\ UNCHANGED <<records, cur, clock>>

-----------------------------------------------------------------------------

Step ==
  \/ Refuse \/ Agree \/ Repair \/ Seal \/ Adopt
  \/ \E k \in Key, op \in Op : Index(k, op)
  \/ Count \/ List \/ Exceed \/ ReserveReturns
  \/ \E k \in Key, o \in Outcomes : Observe(k, o)
  \/ \E k \in Key, o \in Outcomes, r \in Decision : Decide(k, o, r)
  \/ ChargeDecided \/ Fold \/ SettleReturns
  \/ Mint \/ Revise \/ ReviseReturns \/ RepairReturns

Next ==
  \/ Tick \/ Step
  \/ \E p \in Proc : Take(p) \/ Die(p)
  \/ \E p \in Proc, verb \in Verbs \ {"none"} : Request(p, verb)

Spec == Init /\ [][Next]_vars

-----------------------------------------------------------------------------
(* Properties.                                                              *)

TypeOK ==
  /\ res \in [Key -> Reservation \cup {NoRecord}]
  /\ index \in [Key -> Reservation \cup {NoRecord}]
  /\ evt \in [Key -> Event \cup {NoRecord}]
  /\ ledger \in [count : Nat, consumed : Vector, streak : Nat]
  /\ decided \in [Key -> Decision \cup {NoRecord}]
  /\ receipt \in BOOLEAN
  /\ budgets \subseteq Rev
  /\ cur \in [rev : Rev, state : States, count : Nat, consumed : Vector,
              streak : Nat, open : Key \cup {NoKey}, receipt : BOOLEAN, at : Time]
  /\ stamp \in Time /\ clock \in Time
  /\ lock \in Proc \cup {Nobody} /\ phase \in Phases
  /\ job \in [key : Key \cup {NoKey}, outcome : Outcomes \cup {"none"}]
  /\ want \in [Proc -> [verb : Verbs, at : Time, rev : Rev]]

\* At every moment, after any death too, the records support the projection and
\* determine it: no verb and no read ever reports corruption or a conflict.
NeverCorrupt == ~Corrupt(cur) /\ Derivable

\* No verb decides against a projection that the records contradict, nor
\* against a run that is over but has no stop receipt yet.
DecidesOnTruth ==
  phase \in {"act", "count", "revise", "charge"} =>
    /\ cur.count = ledger.count /\ cur.consumed = ledger.consumed
    /\ cur.streak = ledger.streak
    /\ Open = (IF cur.open = NoKey THEN {} ELSE {cur.open})
    /\ cur.receipt = receipt /\ (cur.state = "budget_exhausted" <=> receipt)
    /\ receipt \/ ~Exhausted(cur, Now)

\* A reservation whose reconciliation is on record is charged as it says.
DecisionBinds ==
  \A k \in Key :
    decided[k] # NoRecord /\ evt[k] # NoRecord => evt[k].resolution = decided[k]

Service == INSTANCE AutomationBudget WITH
  rev <- cur.rev, spent <- ledger.consumed, stopped <- receipt, NoHold <- NoRecord,
  held <- IF Open = {} THEN NoRecord ELSE res[CHOOSE k \in Open : TRUE].op
ImplementsBudget == Service!Spec
WithinLimits == Service!WithinLimits
=============================================================================
